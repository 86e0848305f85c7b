------------------------------- MODULE FwIsoIt -------------------------------
(***************************************************************************)
(* fw_iso_it.c: the IT context.  register_packet copies a payload into the *)
(* mapped buffer at a private offset of its own, priv->offset;             *)
(* queue_chunks later tells the hardware where each payload is, counting   *)
(* from the curr_offset of struct fw_iso_ctx_state.  Nothing but equal     *)
(* counting relates the two, and the module is about whether the hardware  *)
(* sends what was registered.                                              *)
(*                                                                         *)
(* As in FwIsoIrSingle, calls that fail without changing anything are left *)
(* out and the program is careful.  The events of the device are one       *)
(* number, how many packets they report; each read takes some of them.     *)
(***************************************************************************)
EXTENDS FwIsoCtxQueue

CONSTANTS BytesPerPayload,    \* maximum_bytes_per_payload of map_buffer
          PayloadsPerBuffer,  \* payloads_per_buffer of map_buffer
          Payloads,           \* the lengths of payload the program registers
          MaxOutstanding,     \* packets registered or queued at a time
          Ids,                \* bound: packets are numbered modulo this
          Reuse               \* bound: the object may be mapped, started again

ASSUME FwIsoItAssumption ==
  /\ BytesPerPayload \in Nat \ {0} /\ PayloadsPerBuffer \in Nat \ {0}
  /\ Payloads \subseteq 0..BytesPerPayload
  /\ MaxOutstanding \in Nat /\ Ids \in Nat /\ Ids > MaxOutstanding
  /\ Reuse \in BOOLEAN

VARIABLES
  st,        \* priv->state
  offset,    \* priv->offset
  buffer,    \* the mapped buffer, for each byte the packet and byte it holds
  attached,  \* a GSource polls the fd
  handling,  \* the handler of `interrupted' runs
  ring,      \* hardware: packets queued and not reported to a handler yet
  done,      \* hardware: how many of them, from the front, were sent
  reported,  \* how many of these the events in the device tell of
  nextId,    \* the number of the next packet
  history    \* what the program has done: mapped, started, reused, crossed

hw == <<ring, done, reported>>
vars == <<st, offset, buffer, attached, handling, hw, nextId, history>>

HeaderSize == 1
Size == BytesPerPayload * PayloadsPerBuffer
Packets == [id : 0..(Ids - 1), len : 0..BytesPerPayload]
Garbage == <<-1, 0>>
Unmapped == [b \in 0..(Size - 1) |-> Garbage]
Contents == {Garbage} \cup ((0..(Ids - 1)) \X (1..BytesPerPayload))

TypeOK ==
  /\ st.mode = "IT" /\ st.data_length <= st.alloc_data_length
  /\ st.data \in Seq(Packets)
  /\ st.curr_offset \in 0..(Size - 1)
  /\ offset \in 0..Size
  /\ buffer \in [0..(Size - 1) -> Contents]
  /\ attached \in BOOLEAN /\ handling \in BOOLEAN
  /\ ring \in Seq([e : Packets, at : 0..(Size - 1)])
  /\ done \in 0..Len(ring) /\ reported \in 0..done
  /\ nextId \in 0..(Ids - 1)
  /\ history \subseteq {"mapped", "started", "reused", "crossed"}

Init ==
  /\ st = StateInit("IT", HeaderSize)
  /\ offset = 0
  /\ buffer = Unmapped
  /\ attached = FALSE /\ handling = FALSE
  /\ ring = <<>> /\ done = 0 /\ reported = 0
  /\ nextId = 0
  /\ history = {}

-----------------------------------------------------------------------------
(***************************************************************************)
(* The hardware.  FW_CDEV_IOC_STOP_ISO drops what is not in an event.      *)
(***************************************************************************)
HwStop ==
  /\ ring' = SubSeq(ring, 1, reported)
  /\ done' = reported
  /\ UNCHANGED reported

HwClose == ring' = <<>> /\ done' = 0 /\ reported' = 0

HwQueue(packets) ==
  ring' = ring \o packets /\ UNCHANGED <<done, reported>>

\* The next packet goes out.
HwSend ==
  /\ st.running /\ done < Len(ring)
  /\ done' = done + 1
  /\ UNCHANGED <<st, offset, buffer, attached, handling, ring, reported, nextId,
                 history>>

HwInterrupt ==
  /\ st.running /\ reported < done
  /\ reported' = done
  /\ UNCHANGED <<st, offset, buffer, attached, handling, ring, done, nextId,
                 history>>

-----------------------------------------------------------------------------
(***************************************************************************)
(* The calls of the program, outside or inside the handler.                *)
(***************************************************************************)
Did(act) ==
  history' = history \cup {act} \cup (IF act \in history THEN {"reused"} ELSE {})

May(act) == Reuse \/ act \notin history

Allocate ==
  /\ AllocateError(st) = "none"
  /\ st' = StateAllocate(st)
  /\ UNCHANGED <<offset, buffer, attached, handling, hw, nextId, history>>

MapBuffer ==
  /\ May("mapped") /\ MapBufferError(st) = "none"
  /\ \/ /\ st' = StateMapBuffer(st, BytesPerPayload, PayloadsPerBuffer)
        /\ buffer' = Unmapped
        /\ Did("mapped")
     \/ /\ st' = StateMapFailed(st, PayloadsPerBuffer)
        /\ UNCHANGED <<buffer, history>>
  /\ UNCHANGED <<offset, attached, handling, hw, nextId>>

(***************************************************************************)
(* memcpy into what fw_iso_ctx_state_read_frame() finds: up to the end of  *)
(* the buffer, and the rest at its beginning.                              *)
(***************************************************************************)
FrameSize(from, length) ==
  IF from + length < Size THEN length ELSE Size - from

Copied(packet, first) ==
  [b \in 0..(Size - 1) |->
     LET k == b - offset
     IN  CASE k \in 0..(first - 1)           -> <<packet.id, k + 1>>
           [] b < packet.len - first         -> <<packet.id, first + b + 1>>
           [] OTHER                          -> buffer[b]]

\* Mutant: the offset does not return to the beginning of the buffer.
OffsetAfter_NoWrap(packet, first) == offset + packet.len

\* Mutant: the offset is not advanced over the bytes of the second copy.
OffsetAfter_Restarts(packet, first) ==
  IF first # packet.len THEN 0 ELSE offset + first

OffsetAfter(packet, first) ==
  IF first # packet.len THEN packet.len - first ELSE offset + first

\* Without header and payload the packet is skipped, else it has both or the
\* header alone.  Bound: nothing is registered that cannot be sent any more.
RegisterPacket ==
  \E skip \in BOOLEAN : \E len \in IF skip THEN {0} ELSE Payloads :
    LET packet == [id |-> nextId, len |-> len]
        length == IF skip THEN 0 ELSE st.header_size
        first  == FrameSize(offset, len)
    IN  /\ RoomFor(st, length) /\ RegisterChunkError(st) = "none"
        /\ st.addr # "failed" /\ (st.running \/ May("started"))
        /\ Len(st.data) + Len(ring) < MaxOutstanding
        /\ st' = StateRegisterChunk(st, packet, length)
        /\ buffer' = Copied(packet, first)
        /\ offset' = OffsetAfter(packet, first)
        /\ nextId' = (nextId + 1) % Ids
        /\ history' = history \cup
             (IF first \notin {0, len} THEN {"crossed"} ELSE {})
        /\ UNCHANGED <<attached, handling, hw>>

Start ==
  /\ May("started") /\ st.addr # "failed" /\ StartError(st) = "none"
  /\ Did("started")
  /\ \/ \* FW_CDEV_IOC_QUEUE_ISO fails
        /\ \E packets \in HandedBeforeFailure(st) : HwQueue(packets)
        /\ UNCHANGED st
     \/ \* FW_CDEV_IOC_START_ISO fails
        /\ HwQueue(Handed(st))
        /\ st' = StateQueued(st)
     \/ /\ HwQueue(Handed(st))
        /\ st' = StateStarted(StateQueued(st))
  /\ UNCHANGED <<offset, buffer, attached, handling, nextId>>

StopOr(s) ==
  /\ st' = s
  /\ IF st.running THEN HwStop ELSE UNCHANGED hw

Stop ==
  /\ StopOr(StateStop(st))
  /\ UNCHANGED <<offset, buffer, attached, handling, nextId, history>>

MayUnmap == st.running \/ st.data = <<>>

UnmapBuffer ==
  /\ MayUnmap
  /\ StopOr(StateUnmapBuffer(StateStop(st)))
  /\ buffer' = Unmapped
  /\ UNCHANGED <<offset, attached, handling, nextId, history>>

Release ==
  /\ MayUnmap
  /\ st' = StateRelease(StateUnmapBuffer(StateStop(st)))
  /\ HwClose
  /\ attached' = FALSE
  /\ buffer' = Unmapped
  /\ UNCHANGED <<offset, handling, nextId, history>>

CreateSource ==
  /\ CreateSourceError(st) = "none" /\ ~attached
  /\ attached' = TRUE
  /\ UNCHANGED <<st, offset, buffer, handling, hw, nextId, history>>

DestroySource ==
  /\ attached /\ attached' = FALSE
  /\ UNCHANGED <<st, offset, buffer, handling, hw, nextId, history>>

-----------------------------------------------------------------------------
(***************************************************************************)
(* dispatch_src and handle_event: the handler runs, then what it           *)
(* registered is queued; when that fails the context is stopped and the    *)
(* source removed.                                                         *)
(***************************************************************************)
Dispatch ==
  /\ attached /\ ~handling
  /\ \E count \in 1..reported :
       /\ ring' = SubSeq(ring, count + 1, Len(ring))
       /\ done' = done - count
       /\ reported' = reported - count
  /\ handling' = TRUE
  /\ UNCHANGED <<st, offset, buffer, attached, nextId, history>>

\* Mutant: what was queued stays registered.
HandlerReturns_KeepsData ==
  /\ handling /\ handling' = FALSE
  /\ HwQueue(Handed(st))
  /\ st' = [st EXCEPT !.curr_offset = QueuedOf(st).offset]
  /\ UNCHANGED <<attached, offset, buffer, nextId, history>>

HandlerReturns ==
  /\ handling /\ handling' = FALSE
  /\ \/ /\ HwQueue(Handed(st))
        /\ st' = IF st.data = <<>> THEN st ELSE StateQueued(st)
        /\ UNCHANGED attached
     \/ /\ st.data # <<>>
        /\ st' = StateStop(st)
        /\ attached' = FALSE
        /\ IF st.running
           THEN HwStop
           ELSE \E packets \in HandedBeforeFailure(st) : HwQueue(packets)
  /\ UNCHANGED <<offset, buffer, nextId, history>>

-----------------------------------------------------------------------------
Call == \/ Allocate \/ MapBuffer \/ RegisterPacket \/ Start
        \/ Stop \/ UnmapBuffer \/ Release \/ CreateSource \/ DestroySource

Next == Call \/ HwSend \/ HwInterrupt \/ Dispatch \/ HandlerReturns

Spec == Init /\ [][Next]_vars

-----------------------------------------------------------------------------
(***************************************************************************)
(* Properties.                                                             *)
(***************************************************************************)

(***************************************************************************)
(* The hardware finds the payload that was registered with a packet where  *)
(* it was told to look, from the time the packet is queued until it went   *)
(* out.                                                                    *)
(***************************************************************************)
SentAsRegistered ==
  st.running =>
    \A k \in (done + 1)..Len(ring) : \A b \in 1..ring[k].e.len :
      buffer[ring[k].at + b - 1] = <<ring[k].e.id, b>>

(***************************************************************************)
(* It does in the first run of the object, wherever calls fail, as long as *)
(* no registered payload crossed the end of the buffer.                    *)
(***************************************************************************)
AlignedRunSendsPayloads == history \cap {"reused", "crossed"} = {} => SentAsRegistered

(***************************************************************************)
(* hinoko_fw_iso_it_register_packet() says that the content of the given   *)
(* payload is appended into the data field of the packet to be sent.  In   *)
(* the first run, payloads of any length.                                  *)
(***************************************************************************)
FirstRunSendsPayloads == "reused" \notin history => SentAsRegistered

(***************************************************************************)
(* The same for an object that is stopped, or released, and started again, *)
(* with payloads that never cross the end.                                 *)
(***************************************************************************)
AlignedSendsPayloads == "crossed" \notin history => SentAsRegistered

(***************************************************************************)
(* The packets the hardware holds, reported or not, are consecutive ones:  *)
(* in the first run no packet is queued twice, lost or overtaken, at       *)
(* whatever point a call fails.                                            *)
(***************************************************************************)
QueuedInOrder ==
  "reused" \notin history /\ st.running =>
    \A k \in 2..Len(ring) : ring[k].e.id = (ring[k - 1].e.id + 1) % Ids

(***************************************************************************)
(* No packet has the hardware read behind the end of the buffer, reused    *)
(* and crossing payloads included.                                         *)
(***************************************************************************)
PayloadsInBuffer == \A k \in DOMAIN ring : ring[k].at + ring[k].e.len <= Size
=============================================================================
