---------------------------- MODULE FwIsoIrSingle ----------------------------
(***************************************************************************)
(* fw_iso_ir_single.c: the IR context that receives one packet per chunk.  *)
(* Chunks go round: the program registers them, start and the end of each  *)
(* event queue them to the hardware, the hardware fills them in order, an  *)
(* interrupt event tells how many were filled, and the handler of          *)
(* `interrupted' finds each payload through the private chunk_cursor.  The *)
(* library and the hardware count chunks separately; the module is about   *)
(* whether the two counts agree.                                           *)
(*                                                                         *)
(* Calls that fail without changing anything are left out here, and the    *)
(* program is careful in the sense of FwIsoCtx: it calls nothing in the    *)
(* handlers of `stopped', does not go on after map_buffer returned FALSE   *)
(* and does not unmap with chunks registered that nothing has queued.      *)
(***************************************************************************)
EXTENDS FwIsoCtxState

CONSTANTS ChunksPerBuffer,  \* the argument payloads_per_buffer of map_buffer
          MaxOutstanding,   \* chunks the program keeps registered or queued
          MaxInt,           \* G_MAXINT
          Reuse,            \* bound: the object may be mapped and started again
          MaxEvents         \* bound: events waiting in the character device

ASSUME FwIsoIrSingleAssumption ==
  /\ ChunksPerBuffer \in Nat \ {0}
  /\ MaxOutstanding \in Nat
  /\ MaxInt \in Nat /\ ChunksPerBuffer <= MaxInt
  /\ MaxEvents \in Nat
  /\ Reuse \in BOOLEAN

VARIABLES
  st,            \* priv->state
  chunk_cursor,  \* priv->chunk_cursor
  ev,            \* the chunks of priv->ev, <<>> outside the handler
  attached,      \* a GSource polls the fd
  ring,          \* hardware: the chunks queued and not handed to a handler yet
  done,          \* hardware: how many of them, from the front, are filled
  marks,         \* the events in the device: `done' as each was raised
  history        \* what the program has done: mapped, started, reused

vars == <<st, chunk_cursor, ev, attached, ring, done, marks, history>>

Chunks == 0..(ChunksPerBuffer - 1)

StateType ==
  [fd : BOOLEAN, mode : {"IR_SINGLE"}, header_size : {1},
   addr : {"null", "failed", "mapped"}, bytes_per_chunk : {0, 1},
   chunks_per_buffer : {0, ChunksPerBuffer}, data : Seq({"chunk"}),
   data_length : Nat, alloc_data_length : {0, ChunksPerBuffer},
   curr_offset : Chunks, running : BOOLEAN]

TypeOK ==
  /\ st \in StateType
  /\ st.data_length = Len(st.data)
  /\ st.data_length <= ChunksPerBuffer
  /\ st.addr = "mapped" => st.chunks_per_buffer = ChunksPerBuffer
  /\ chunk_cursor \in 0..(MaxInt - 1)
  /\ ev \in Seq(Chunks)
  /\ attached \in BOOLEAN
  /\ ring \in Seq(Chunks)
  /\ done \in 0..Len(ring)
  /\ marks \in Seq(1..Len(ring))
  /\ history \in SUBSET {"mapped", "started", "reused"}

Init ==
  /\ st = StateInit("IR_SINGLE", 1)
  /\ chunk_cursor = 0
  /\ ev = <<>>
  /\ attached = FALSE
  /\ ring = <<>> /\ done = 0 /\ marks = <<>>
  /\ history = {}

-----------------------------------------------------------------------------
(***************************************************************************)
(* The hardware and the kernel's part of the context.                      *)
(***************************************************************************)
Reported == IF marks = <<>> THEN 0 ELSE marks[Len(marks)]

\* FW_CDEV_IOC_STOP_ISO: what is not in an event yet is dropped, as the library
\* takes for granted when it returns to offset 0; the events stay readable.
HwStop ==
  /\ ring' = SubSeq(ring, 1, Reported)
  /\ done' = Reported
  /\ UNCHANGED marks

\* close() takes the context and its events along.
HwClose == ring' = <<>> /\ done' = 0 /\ marks' = <<>>

\* A packet fills the next chunk.
HwReceive ==
  /\ st.running /\ done < Len(ring)
  /\ done' = done + 1
  /\ UNCHANGED <<st, chunk_cursor, ev, attached, ring, marks, history>>

Raise == done > Reported /\ marks' = Append(marks, done)

\* An interrupt for a chunk marked to raise one, or for a page of headers, or
\* requested by flush_completions.
HwInterrupt ==
  /\ st.running /\ Len(marks) < MaxEvents
  /\ Raise
  /\ UNCHANGED <<st, chunk_cursor, ev, attached, ring, done, history>>

-----------------------------------------------------------------------------
(***************************************************************************)
(* queue_chunks hands the entries over in batches that do not cross the    *)
(* end of the buffer.  It may fail at any batch, and then leaves the       *)
(* structure as it was with the batches before accepted.                   *)
(***************************************************************************)
QueueAll == ring' = ring \o IrChunks(st)

QueueSome ==
  \E n \in 0..(Len(st.data) - 1) :
    /\ n = 0 \/ IrChunk(st, n) = 0
    /\ ring' = ring \o SubSeq(IrChunks(st), 1, n)

-----------------------------------------------------------------------------
(***************************************************************************)
(* The calls of the program, outside or inside the handler.                *)
(***************************************************************************)
Again(act) ==
  history' = history \cup (IF act \in history THEN {"reused"} ELSE {})

Did(act) ==
  history' = history \cup {act} \cup (IF act \in history THEN {"reused"} ELSE {})

May(act) == Reuse \/ act \notin history

Allocate ==
  /\ AllocateError(st) = "none"
  /\ st' = StateAllocate(st)
  /\ UNCHANGED <<chunk_cursor, ev, attached, ring, done, marks, history>>

MapBuffer ==
  /\ May("mapped")
  /\ MapBufferError(st) = "none"
  /\ \/ st' = StateMapBuffer(st, 1, ChunksPerBuffer) /\ Did("mapped")
     \/ st' = StateMapFailed(st, ChunksPerBuffer) /\ UNCHANGED history
  /\ UNCHANGED <<chunk_cursor, ev, attached, ring, done, marks>>

\* Mutant: the chunk goes to the hardware at once, not after the handler.
RegisterPacket_QueuedAtOnce ==
  /\ RoomFor(st, 0) /\ RegisterChunkError(st) = "none" /\ st.addr # "failed"
  /\ Len(st.data) + Len(ring) < MaxOutstanding
  /\ IF st.running
     THEN /\ ring' = Append(ring, IrChunk(st, 0))
          /\ st' = StateDrained(st, IrChunk(st, 1))
     ELSE st' = StateRegisterChunk(st, "chunk", 0) /\ UNCHANGED ring
  /\ UNCHANGED <<chunk_cursor, ev, attached, done, marks, history>>

RegisterPacket ==
  /\ RoomFor(st, 0) /\ RegisterChunkError(st) = "none" /\ st.addr # "failed"
  /\ Len(st.data) + Len(ring) < MaxOutstanding
  /\ st' = StateRegisterChunk(st, "chunk", 0)
  /\ UNCHANGED <<chunk_cursor, ev, attached, ring, done, marks, history>>

\* The cursor is reset before fw_iso_ctx_state_start() has its say.
Start ==
  /\ May("started") /\ st.addr # "failed"
  /\ chunk_cursor' = 0
  /\ \/ /\ StartError(st) # "none"
        /\ Again("started")
        /\ UNCHANGED <<st, ring>>
     \/ \* FW_CDEV_IOC_QUEUE_ISO fails
        /\ StartError(st) = "none"
        /\ Did("started")
        /\ QueueSome
        /\ UNCHANGED st
     \/ \* FW_CDEV_IOC_START_ISO fails
        /\ StartError(st) = "none"
        /\ Did("started")
        /\ QueueAll
        /\ st' = StateIrDrained(st)
     \/ /\ StartError(st) = "none"
        /\ Did("started")
        /\ QueueAll
        /\ st' = StateStarted(StateIrDrained(st))
  /\ UNCHANGED <<ev, attached, done, marks>>

StopOr(s) ==
  /\ st' = s
  /\ IF st.running THEN HwStop ELSE UNCHANGED <<ring, done, marks>>

Stop ==
  /\ StopOr(StateStop(st))
  /\ UNCHANGED <<chunk_cursor, ev, attached, history>>

MayUnmap == st.running \/ st.data = <<>>

UnmapBuffer ==
  /\ MayUnmap
  /\ StopOr(StateUnmapBuffer(StateStop(st)))
  /\ UNCHANGED <<chunk_cursor, ev, attached, history>>

\* The source is left polling a closed fd; the program drops it.
Release ==
  /\ MayUnmap
  /\ st' = StateRelease(StateUnmapBuffer(StateStop(st)))
  /\ HwClose
  /\ attached' = FALSE
  /\ UNCHANGED <<chunk_cursor, ev, history>>

CreateSource ==
  /\ CreateSourceError(st) = "none" /\ ~attached
  /\ attached' = TRUE
  /\ UNCHANGED <<st, chunk_cursor, ev, ring, done, marks, history>>

DestroySource ==
  /\ attached' = FALSE
  /\ UNCHANGED <<st, chunk_cursor, ev, ring, done, marks, history>>

-----------------------------------------------------------------------------
(***************************************************************************)
(* dispatch_src reads one event and handle_event hands it to the program;  *)
(* the rest of handle_event runs when the handler returns.                 *)
(***************************************************************************)
\* Mutant: events of a context that was stopped meanwhile are not read.
Dispatch_OnlyRunning ==
  /\ attached /\ ev = <<>> /\ marks # <<>> /\ st.running
  /\ LET count == Head(marks)
     IN  /\ ev' = SubSeq(ring, 1, count)
         /\ ring' = SubSeq(ring, count + 1, Len(ring))
         /\ done' = done - count
         /\ marks' = [i \in 1..(Len(marks) - 1) |-> marks[i + 1] - count]
  /\ UNCHANGED <<st, chunk_cursor, attached, history>>

Dispatch ==
  /\ attached /\ ev = <<>> /\ marks # <<>>
  /\ LET count == Head(marks)
     IN  /\ ev' = SubSeq(ring, 1, count)
         /\ ring' = SubSeq(ring, count + 1, Len(ring))
         /\ done' = done - count
         /\ marks' = [i \in 1..(Len(marks) - 1) |-> marks[i + 1] - count]
  /\ UNCHANGED <<st, chunk_cursor, attached, history>>

\* Mutant: the cursor grows without the wrap.
AdvancedCursor_NoWrap == chunk_cursor + Len(ev)

\* Mutant: the cursor wraps at G_MAXINT, not at a multiple of the buffer.
AdvancedCursor_WrapAtMaxInt == (chunk_cursor + Len(ev)) % MaxInt

AdvancedCursor ==
  LET cursor == chunk_cursor + Len(ev)
  IN  IF cursor >= MaxInt THEN cursor % st.chunks_per_buffer ELSE cursor

HandlerReturns ==
  /\ ev # <<>>
  /\ ev' = <<>>
  /\ chunk_cursor' = AdvancedCursor
  /\ \/ /\ QueueAll
        /\ st' = IF st.data = <<>> THEN st ELSE StateIrDrained(st)
        /\ UNCHANGED <<attached, done, marks>>
     \/ \* FW_CDEV_IOC_QUEUE_ISO fails: dispatch_src stops and drops the source
        /\ st.data # <<>>
        /\ st' = StateStop(st)
        /\ attached' = FALSE
        /\ IF st.running THEN HwStop ELSE QueueSome /\ UNCHANGED <<done, marks>>
  /\ UNCHANGED history

-----------------------------------------------------------------------------
Call == \/ Allocate \/ MapBuffer \/ RegisterPacket \/ Start
        \/ Stop \/ UnmapBuffer \/ Release \/ CreateSource \/ DestroySource

Next == Call \/ HwReceive \/ HwInterrupt \/ Dispatch \/ HandlerReturns

(***************************************************************************)
(* The main loop keeps polling and every handler of the program returns.   *)
(***************************************************************************)
Fairness == WF_vars(Dispatch) /\ WF_vars(HandlerReturns)

Spec == Init /\ [][Next]_vars /\ Fairness

-----------------------------------------------------------------------------
(***************************************************************************)
(* Properties.                                                             *)
(***************************************************************************)

\* hinoko_fw_iso_ir_single_get_payload(): the chunk read for an index.
PayloadChunk(index) == (chunk_cursor + index) % st.chunks_per_buffer

(***************************************************************************)
(* In the handler of `interrupted', the payload get_payload finds for each *)
(* index is in the chunk the hardware filled with that packet.             *)
(***************************************************************************)
PayloadOfHandledPacket ==
  \A i \in DOMAIN ev : PayloadChunk(i - 1) = ev[i]

(***************************************************************************)
(* It is so for every event, the ones read after a stop included, of an    *)
(* object that was mapped and started only once, at whatever point calls   *)
(* fail and the handler stops, unmaps or releases the context.             *)
(***************************************************************************)
FirstRunAligned == "reused" \notin history => PayloadOfHandledPacket

(***************************************************************************)
(* The payloads shown to the handler are not in reach of the hardware:     *)
(* handle_event queues what the handler registers after it has returned.   *)
(***************************************************************************)
PayloadsStable ==
  "reused" \notin history /\ st.running =>
    \A i \in DOMAIN ev : \A j \in DOMAIN ring : ev[i] # ring[j]

(***************************************************************************)
(* A device whose queue of events is full gets rid of one, be the context  *)
(* stopped or not, unless the program or an error removes the source: what *)
(* was raised before a stop is still read after it.                        *)
(***************************************************************************)
QueueDrains ==
  (Len(marks) = MaxEvents /\ attached) ~> (Len(marks) < MaxEvents \/ ~attached)
=============================================================================
