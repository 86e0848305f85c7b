--------------------------- MODULE FwIsoCtxState ---------------------------
(***************************************************************************)
(* struct fw_iso_ctx_state (fw_iso_ctx_private.h) and the functions of     *)
(* fw_iso_ctx_private.c that only change it.  The structure is embedded in *)
(* each of the three kinds of isochronous context; the state machines of   *)
(* the contexts keep it in a variable and change it by these operators,    *)
(* each of which maps the structure to its next value.                     *)
(*                                                                         *)
(* The area for packet descriptors (`data') is a sequence with the entries *)
(* registered since the last drain: registered_chunk_count is its length   *)
(* and data_length, kept apart as in C, its size in quadlets.  A byte of   *)
(* the payload buffer is one unit of bytes_per_chunk and curr_offset.      *)
(***************************************************************************)
EXTENDS Integers, Sequences

CONSTANT Stale  \* what an entry reads as once the memory under it was freed

(***************************************************************************)
(* fd is TRUE while the character device is open.  addr distinguishes the  *)
(* null pointer, MAP_FAILED and a mapping.                                 *)
(***************************************************************************)
StateInit(mode, headerSize) ==
  [fd |-> FALSE, mode |-> mode, header_size |-> headerSize,
   addr |-> "null", bytes_per_chunk |-> 0, chunks_per_buffer |-> 0,
   data |-> <<>>, data_length |-> 0, alloc_data_length |-> 0,
   curr_offset |-> 0, running |-> FALSE]

\* sizeof(struct fw_cdev_iso_packet), one quadlet, and the header kept behind
\* it in an IT context only.
DatumSize(s) == 1 + (IF s.mode = "IT" THEN s.header_size ELSE 0)

BytesPerBuffer(s) == s.bytes_per_chunk * s.chunks_per_buffer

Forget(data) == [i \in 1..Len(data) |-> Stale]

StateAllocate(s) == [s EXCEPT !.fd = TRUE]

StateRelease(s) == [s EXCEPT !.fd = FALSE]

\* g_malloc_n() comes before mmap() and stays when mmap() fails.
MallocData(s, chunks) ==
  [s EXCEPT !.data = Forget(@), !.alloc_data_length = chunks * DatumSize(s)]

StateMapBuffer(s, bytes, chunks) ==
  [MallocData(s, chunks) EXCEPT
     !.addr = "mapped", !.bytes_per_chunk = bytes, !.chunks_per_buffer = chunks]

StateMapFailed(s, chunks) == [MallocData(s, chunks) EXCEPT !.addr = "failed"]

\* Nothing but the two pointers is reset.
StateUnmapBuffer(s) == [s EXCEPT !.addr = "null", !.data = Forget(@)]

\* The assertion in front of the checks of register_chunk: room for the entry.
RoomFor(s, headerLength) ==
  s.data_length + 1 + headerLength <= s.alloc_data_length

\* Mutant: data_length is not advanced.
StateRegisterChunk_LengthKept(s, datum, headerLength) ==
  [s EXCEPT !.data = Append(@, datum)]

StateRegisterChunk(s, datum, headerLength) ==
  [s EXCEPT !.data = Append(@, datum), !.data_length = @ + 1 + headerLength]

\* The end of queue_chunks, reached when every batch was accepted.
StateDrained(s, offset) ==
  [s EXCEPT !.curr_offset = offset, !.data = <<>>, !.data_length = 0]

(***************************************************************************)
(* queue_chunks in the IR modes, where every entry stands for one whole    *)
(* chunk and the unit of length is the chunk (bytes_per_chunk is 1): the   *)
(* chunks handed to the hardware, in order, and the offset left behind.    *)
(* FwIsoCtxQueue has the loop itself and MCFwIsoCtxQueue compares them.    *)
(***************************************************************************)
IrChunk(s, i) == (s.curr_offset + i) % s.chunks_per_buffer

IrChunks(s) == [i \in 1..Len(s.data) |-> IrChunk(s, i - 1)]

StateIrDrained(s) == StateDrained(s, IrChunk(s, Len(s.data)))

StateStarted(s) == [s EXCEPT !.running = TRUE]

\* Mutant: what was registered outlives the stop.
StateStop_KeepsData(s) ==
  IF s.running THEN [s EXCEPT !.running = FALSE, !.curr_offset = 0] ELSE s

StateStop(s) ==
  IF s.running
  THEN [s EXCEPT !.running = FALSE, !.data = <<>>, !.data_length = 0,
                 !.curr_offset = 0]
  ELSE s

(***************************************************************************)
(* The codes of enum HinokoFwIsoCtxError each function reports, in the     *)
(* order of its checks; "none" when it goes on.                            *)
(***************************************************************************)
AllocateError(s) == IF s.fd THEN "ALLOCATED" ELSE "none"

MapBufferError(s) ==
  IF ~s.fd THEN "NOT_ALLOCATED" ELSE IF s.addr # "null" THEN "MAPPED" ELSE "none"

RegisterChunkError(s) ==
  IF ~s.fd THEN "NOT_ALLOCATED" ELSE IF s.addr = "null" THEN "NOT_MAPPED" ELSE "none"

StartError(s) ==
  IF RegisterChunkError(s) # "none" THEN RegisterChunkError(s)
  ELSE IF s.data_length = 0 THEN "CHUNK_UNREGISTERED" ELSE "none"

CreateSourceError(s) == IF s.fd THEN "none" ELSE "NOT_ALLOCATED"
=============================================================================
