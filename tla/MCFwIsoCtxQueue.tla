-------------------------- MODULE MCFwIsoCtxQueue --------------------------
(***************************************************************************)
(* What is given to the driver, over all inputs up to a bound, against     *)
(* what it is for: the loop of queue_chunks over every sequence of entries *)
(* from every offset, and the control word of every packet.                *)
(***************************************************************************)
EXTENDS FwIsoCtxQueue, FwIsoCtxControl

CONSTANTS ChunkBytes,   \* the values of bytes_per_chunk
          ChunkCounts,  \* the values of chunks_per_buffer
          MaxEntries,   \* bound: entries registered
          Lengths       \* lengths of headers and payloads of packets

\* map_buffer refuses a chunk of no bytes and a buffer of no chunks.
ASSUME MCFwIsoCtxQueueAssumption ==
  /\ ChunkBytes \subseteq Nat \ {0} /\ ChunkCounts \subseteq Nat \ {0}
  /\ Lengths \subseteq Nat

VARIABLES
  s,      \* the structure that is handed to queue_chunks
  packet  \* a packet handed to register_chunk, or none

Mapped(bytes, chunks) ==
  StateMapBuffer(StateAllocate(StateInit("IT", 1)), bytes, chunks)

\* A packet of register_packet, which skips one without header and payload.
NoPacket == [skip |-> TRUE]
Packets ==
  {p \in [tags : {0, 1, 2, 4, 8}, sync_code : 0..15, skip : BOOLEAN,
          header_length : Lengths, payload_length : Lengths,
          schedule_interrupt : BOOLEAN] :
     /\ p.skip = (p.header_length = 0 /\ p.payload_length = 0)
     /\ \E size, bytes \in Lengths : Accepts(p, size, bytes)}

Init ==
  \/ /\ packet = NoPacket
     /\ \E bytes \in ChunkBytes, chunks \in ChunkCounts :
          \E offset \in 0..(bytes * chunks - 1) :
            s = [Mapped(bytes, chunks) EXCEPT !.curr_offset = offset]
  \/ packet \in Packets /\ s = Mapped(1, 1)

Next ==
  /\ packet = NoPacket /\ UNCHANGED packet
  /\ Len(s.data) < MaxEntries
  /\ \E len \in 0..s.bytes_per_chunk :
       s' = StateRegisterChunk(s, [id |-> Len(s.data) + 1, len |-> len], 1)

Spec == Init /\ [][Next]_<<s, packet>>

-----------------------------------------------------------------------------
End(h) == h.at + h.e.len
Size == BytesPerBuffer(s)

(***************************************************************************)
(* Whatever is registered, the hardware gets each entry once, in order,    *)
(* with a payload inside the buffer, and the next offset is inside too.    *)
(***************************************************************************)
HandedOnceInside ==
  LET handed == Handed(s)
  IN  /\ Len(handed) = Len(s.data)
      /\ \A k \in 1..Len(handed) : handed[k].e = s.data[k] /\ End(handed[k]) <= Size
      /\ QueuedOf(s).offset < Size

(***************************************************************************)
(* As long as no payload crosses the end of the buffer, the payloads       *)
(* follow each other around it from curr_offset, where register_packet of  *)
(* the IT context puts them.                                               *)
(***************************************************************************)
Crosses(k) ==
  ((s.curr_offset + Bytes(s.data, k - 1)) % Size) + s.data[k].len > Size

HandedInPlace ==
  (\A k \in DOMAIN s.data : ~Crosses(k)) =>
    /\ \A k \in DOMAIN s.data :
         Handed(s)[k].at = (s.curr_offset + Bytes(s.data, k - 1)) % Size
    /\ QueuedOf(s).offset = (s.curr_offset + Bytes(s.data, Len(s.data))) % Size

(***************************************************************************)
(* With the chunk as the unit, where every entry is one, the loop is what  *)
(* FwIsoCtxState says of it for the IR contexts.                           *)
(***************************************************************************)
IrClosedForm ==
  s.bytes_per_chunk = 1 /\ (\A k \in DOMAIN s.data : s.data[k].len = 1) =>
    /\ [k \in DOMAIN s.data |-> Handed(s)[k].at] = IrChunks(s)
    /\ StateQueued(s) = StateIrDrained(s)

(***************************************************************************)
(* What the program asks for: the documents of the flags and of            *)
(* register_packet take TAGn for the value n of the tag field, and no flag *)
(* leaves the field alone.                                                 *)
(***************************************************************************)
TagOf(flag) ==
  CASE flag \in {0, 1} -> 0 [] flag = 2 -> 1 [] flag = 4 -> 2 [] flag = 8 -> 3

Meant(p) == [p EXCEPT !.tags = TagOf(p.tags)]

LengthsFit(p) == p.header_length < 2^8 /\ p.payload_length < 2^16

(***************************************************************************)
(* The driver gets the packet that was meant exactly when it was given     *)
(* without a flag for the tag, a header of less than 256 bytes and a       *)
(* payload of less than 65536.  A flag is never the tag it names, and what *)
(* does not fit spills into the fields beside: neither comes out right by  *)
(* accident.                                                               *)
(***************************************************************************)
ReadBackIffFits ==
  packet # NoPacket =>
    (DriverReads(ControlWord(packet)) = Meant(packet) <=>
       packet.tags = 0 /\ LengthsFit(packet))
=============================================================================
