--------------------------- MODULE FwIsoItProofs ---------------------------
(***************************************************************************)
(* Proofs about FwIsoIt, for payloads of any length and a buffer of any    *)
(* size.                                                                   *)
(*                                                                         *)
(* register_packet and queue_chunks count the bytes of the same packets    *)
(* from offsets of their own.  The proof unrolls the ring: there is a      *)
(* position for each packet underway, registered or queued, which only     *)
(* grows, and both offsets are positions modulo the size of the buffer.    *)
(* InPlace says so; nothing less is inductive, because SentAsRegistered    *)
(* speaks neither of the packets still registered nor of the offsets.      *)
(***************************************************************************)
EXTENDS FwIsoIt, FwIsoCtxQueueProofs

Fresh == "reused" \notin history

\* The context runs for the first time or has not been started yet.
Live == Fresh /\ (st.running \/ "started" \notin history)

StateRecords ==
  [fd : BOOLEAN, mode : {"IT"}, header_size : {HeaderSize},
   addr : {"null", "failed", "mapped"},
   bytes_per_chunk : Nat, chunks_per_buffer : Nat,
   data : Seq(Packets), data_length : Nat, alloc_data_length : Nat,
   curr_offset : 0..(Size - 1), running : BOOLEAN]

StateType ==
  {s \in StateRecords :
     /\ s.data_length <= s.alloc_data_length
     /\ s.data = <<>> <=> s.data_length = 0
     /\ s.addr = "mapped" =>
          s.bytes_per_chunk = BytesPerPayload /\ s.chunks_per_buffer = PayloadsPerBuffer
     /\ s.data # <<>> \/ s.running => s.addr = "mapped"}

Queued == [e : Packets, at : 0..(Size - 1)]

HwType ==
  /\ ring \in Seq(Queued)
  /\ done \in 0..Len(ring) /\ reported \in 0..done

OtherTypes ==
  /\ offset \in 0..Size
  /\ buffer \in [0..(Size - 1) -> Contents]
  /\ attached \in BOOLEAN /\ handling \in BOOLEAN
  /\ nextId \in 0..(Ids - 1)
  /\ history \subseteq {"mapped", "started", "reused", "crossed"}

BeforeStart ==
  "started" \notin history =>
    ring = <<>> /\ ~st.running /\ ~handling /\ st.curr_offset = 0

(***************************************************************************)
(* The packets underway: those queued, then those registered, with the     *)
(* place of the payload in the buffer.                                     *)
(***************************************************************************)
Count == Len(ring) + Len(st.data)
Underway(k) == IF k <= Len(ring) THEN ring[k].e ELSE st.data[k - Len(ring)]
Behind(k) == (st.curr_offset + Bytes(st.data, k)) % Size
Place(k) == IF k <= Len(ring) THEN ring[k].at ELSE Behind(k - Len(ring) - 1)
NextPlace == (st.curr_offset + Bytes(st.data, Len(st.data))) % Size

InOrder ==
  Live =>
    \A k \in 1..Count :
      /\ k > 1 => Underway(k).id = (Underway(k - 1).id + 1) % Ids
      /\ k = Count => nextId = (Underway(k).id + 1) % Ids

\* The unrolled ring.
Positions(pos) ==
  /\ pos \in [1..(Count + 1) -> Nat]
  /\ \A k \in 1..Count : pos[k + 1] = pos[k] + Underway(k).len
  /\ \A j, k \in 1..(Count + 1) :
       j <= k => pos[j] <= pos[k] /\ pos[k] <= pos[j] + (k - j) * BytesPerPayload

Placed(pos) ==
  /\ \A k \in 1..Count :
       /\ Place(k) = pos[k] % Size
       /\ Place(k) + Underway(k).len <= Size
       /\ \A b \in 1..Underway(k).len :
            buffer[Place(k) + b - 1] = <<Underway(k).id, b>>
  /\ offset % Size = pos[Count + 1] % Size
  /\ NextPlace = pos[Count + 1] % Size

\* If the program leaves alone what the hardware has still to send.
InPlace ==
  MaxOutstanding <= PayloadsPerBuffer /\ Live /\ "crossed" \notin history =>
    \E pos : Positions(pos) /\ Placed(pos)

IInv == /\ st \in StateType
        /\ HwType
        /\ OtherTypes
        /\ PayloadsInBuffer
        /\ BeforeStart
        /\ InOrder
        /\ InPlace

USE FwIsoItAssumption

-----------------------------------------------------------------------------
(***************************************************************************)
(* The buffer has room for all payloads.                                   *)
(***************************************************************************)
LEMMA SizeFacts ==
  /\ Size \in Nat \ {0}
  /\ BytesPerPayload <= Size
  /\ \A n \in 0..PayloadsPerBuffer : n * BytesPerPayload <= Size
<1> DEFINE B == BytesPerPayload
           P == PayloadsPerBuffer
<1>1. B \in Nat \ {0} /\ P \in Nat \ {0} /\ Size = P * B
  BY DEF Size
<1> HIDE DEF B, P
<1>2. ASSUME NEW n \in 0..P  PROVE n * B <= P * B
  <2>1. P * B = n * B + (P - n) * B
    BY <1>1
  <2>2. (P - n) * B \in Nat /\ n * B \in Nat
    BY <1>1
  <2> QED BY <2>1, <2>2
<1>3. P * B \in Nat
  BY <1>1
<1>4. 1 * B <= P * B /\ 1 * B = B
  BY <1>1, <1>2
<1>5. Size \in Nat \ {0} /\ B <= Size
  <2> HIDE DEF Size
  <2> QED BY <1>1, <1>3, <1>4
<1> QED BY <1>1, <1>2, <1>5 DEF B, P

LEMMA EmptyIsTyped ==
  /\ <<>> \in Seq(Packets) /\ <<>> \in Seq(Queued)
  /\ 0 \in 0..(Size - 1) /\ 0 \in 0..Size
  BY SizeFacts

LEMMA UnmappedIsTyped == Unmapped \in [0..(Size - 1) -> Contents]
  BY DEF Unmapped, Contents

-----------------------------------------------------------------------------
(***************************************************************************)
(* What the operators of FwIsoCtxState do.                                 *)
(***************************************************************************)
LEMMA InitEffect ==
  LET s == StateInit("IT", HeaderSize)
  IN  s \in StateType /\ s.data = <<>> /\ s.curr_offset = 0 /\ ~s.running
<1> DEFINE s == StateInit("IT", HeaderSize)
<1>1. s = [fd |-> FALSE, mode |-> "IT", header_size |-> HeaderSize,
           addr |-> "null", bytes_per_chunk |-> 0, chunks_per_buffer |-> 0,
           data |-> <<>>, data_length |-> 0, alloc_data_length |-> 0,
           curr_offset |-> 0, running |-> FALSE]
  BY Zenon DEF StateInit
<1> HIDE DEF s
<1>2. s \in StateRecords
  BY <1>1, EmptyIsTyped DEF StateRecords
<1>3. s.data = <<>> /\ s.data_length = 0 /\ s.alloc_data_length = 0 /\ s.addr = "null"
      /\ s.curr_offset = 0 /\ ~s.running
  BY <1>1
<1> QED BY <1>2, <1>3 DEF s, StateType

LEMMA OpenCloseEffect ==
  ASSUME NEW s \in StateType, NEW t \in {StateAllocate(s), StateRelease(s)}
  PROVE  /\ t \in StateType /\ t.data = s.data /\ t.curr_offset = s.curr_offset
         /\ t.running = s.running
  BY DEF StateAllocate, StateRelease, StateType, StateRecords

LEMMA StartedEffect ==
  ASSUME NEW s \in StateType, s.addr = "mapped"
  PROVE  /\ StateStarted(s) \in StateType /\ StateStarted(s).data = s.data
         /\ StateStarted(s).curr_offset = s.curr_offset
         /\ StateStarted(s).running
  BY DEF StateStarted, StateType, StateRecords

LEMMA StopEffect ==
  ASSUME NEW s \in StateType
  PROVE  /\ StateStop(s) \in StateType
         /\ ~s.running => StateStop(s) = s
         /\ s.running => StateStop(s).data = <<>> /\ StateStop(s).curr_offset = 0
         /\ ~StateStop(s).running
<1>1. CASE ~s.running
  BY <1>1 DEF StateStop, StateType, StateRecords
<1>2. CASE s.running
  <2> DEFINE t == [s EXCEPT !.running = FALSE, !.data = <<>>, !.data_length = 0,
                            !.curr_offset = 0]
  <2>1. StateStop(s) = t
    BY <1>2 DEF StateStop
  <2>2. t \in StateRecords
    BY EmptyIsTyped DEF StateType, StateRecords
  <2>3. /\ t.data = <<>> /\ t.curr_offset = 0 /\ ~t.running /\ t.data_length = 0
        /\ t.alloc_data_length = s.alloc_data_length /\ t.addr = s.addr
        /\ t.bytes_per_chunk = s.bytes_per_chunk /\ t.chunks_per_buffer = s.chunks_per_buffer
    BY DEF StateType, StateRecords
  <2>4. s.alloc_data_length \in Nat
    BY DEF StateType, StateRecords
  <2> HIDE DEF t
  <2>5. t \in StateType
    BY <2>2, <2>3, <2>4 DEF StateType
  <2> QED BY <1>2, <2>1, <2>3, <2>5
<1> QED BY <1>1, <1>2

LEMMA UnmapEffect ==
  ASSUME NEW s \in StateType, ~s.running, s.data = <<>>
  PROVE  /\ StateUnmapBuffer(s) \in StateType
         /\ StateUnmapBuffer(s).data = <<>>
         /\ StateUnmapBuffer(s).curr_offset = s.curr_offset
         /\ ~StateUnmapBuffer(s).running
<1>1. Forget(s.data) = <<>>
  BY DEF Forget
<1>2. StateUnmapBuffer(s) = [s EXCEPT !.addr = "null", !.data = <<>>]
  BY <1>1 DEF StateUnmapBuffer
<1> DEFINE t == [s EXCEPT !.addr = "null", !.data = <<>>]
<1>3. t \in StateRecords
  BY EmptyIsTyped DEF StateType, StateRecords
<1>4. /\ t.data = <<>> /\ t.curr_offset = s.curr_offset /\ ~t.running /\ t.addr = "null"
      /\ t.data_length = s.data_length /\ t.alloc_data_length = s.alloc_data_length
  BY DEF StateType, StateRecords
<1> HIDE DEF t
<1>5. t \in StateType
  BY <1>3, <1>4 DEF StateType
<1> QED BY <1>2, <1>4, <1>5 DEF t

LEMMA MapEffect ==
  ASSUME NEW s \in StateType, s.addr = "null",
         NEW t \in {StateMapBuffer(s, BytesPerPayload, PayloadsPerBuffer),
                    StateMapFailed(s, PayloadsPerBuffer)}
  PROVE  /\ t \in StateType /\ t.data = <<>> /\ s.data = <<>>
         /\ t.curr_offset = s.curr_offset /\ ~t.running /\ ~s.running
<1>1. s.data = <<>> /\ ~s.running /\ s.data_length = 0
  BY DEF StateType
<1>2. Forget(s.data) = <<>> /\ DatumSize(s) = 2
  BY <1>1 DEF Forget, DatumSize, StateType, StateRecords, HeaderSize
<1> DEFINE a == PayloadsPerBuffer * 2
           m == [s EXCEPT !.data = <<>>, !.alloc_data_length = a]
<1>3. MallocData(s, PayloadsPerBuffer) = m /\ a \in Nat
  BY <1>2 DEF MallocData
<1> HIDE DEF a
<1>4. m \in StateType
  <2>1. m \in StateRecords
    BY <1>3, EmptyIsTyped DEF StateType, StateRecords
  <2>2. m.data = <<>> /\ m.data_length = 0 /\ m.alloc_data_length = a /\ m.addr = "null" /\ ~m.running
    BY <1>1 DEF StateType, StateRecords
  <2> HIDE DEF m
  <2> QED BY <1>3, <2>1, <2>2 DEF StateType
<1>5. /\ m.data = <<>> /\ m.data_length = 0 /\ ~m.running
      /\ m.curr_offset = s.curr_offset
  BY <1>1 DEF StateType, StateRecords
<1> HIDE DEF m
<1>6. CASE t = StateMapFailed(s, PayloadsPerBuffer)
  <2>1. t = [m EXCEPT !.addr = "failed"]
    BY <1>3, <1>6 DEF StateMapFailed
  <2>2. t \in StateRecords
    BY <1>4, <2>1 DEF StateType, StateRecords
  <2>3. /\ t.data = <<>> /\ t.data_length = 0 /\ t.addr = "failed" /\ ~t.running
        /\ t.alloc_data_length = m.alloc_data_length /\ t.curr_offset = s.curr_offset
    BY <1>4, <1>5, <2>1 DEF StateType, StateRecords
  <2>4. t \in StateType
    BY <1>4, <1>5, <2>2, <2>3 DEF StateType
  <2> QED BY <1>1, <2>3, <2>4
<1>7. CASE t = StateMapBuffer(s, BytesPerPayload, PayloadsPerBuffer)
  <2>1. t = [m EXCEPT !.addr = "mapped", !.bytes_per_chunk = BytesPerPayload,
                      !.chunks_per_buffer = PayloadsPerBuffer]
    BY <1>3, <1>7 DEF StateMapBuffer
  <2>2. BytesPerPayload \in Nat /\ PayloadsPerBuffer \in Nat
    OBVIOUS
  <2>3. t \in StateRecords
    BY <1>4, <2>1, <2>2 DEF StateType, StateRecords
  <2>4. /\ t.data = <<>> /\ t.data_length = 0 /\ ~t.running
        /\ t.bytes_per_chunk = BytesPerPayload /\ t.chunks_per_buffer = PayloadsPerBuffer
        /\ t.alloc_data_length = m.alloc_data_length /\ t.curr_offset = s.curr_offset
    BY <1>4, <1>5, <2>1 DEF StateType, StateRecords
  <2>5. t \in StateType
    BY <1>4, <1>5, <2>3, <2>4 DEF StateType
  <2> QED BY <1>1, <2>4, <2>5
<1> QED BY <1>6, <1>7

LEMMA RegisterEffect ==
  ASSUME NEW s \in StateType, s.addr = "mapped", NEW p \in Packets,
         NEW length \in {0, s.header_size}, RoomFor(s, length)
  PROVE  LET t == StateRegisterChunk(s, p, length)
         IN  /\ t \in StateType /\ t.data = Append(s.data, p)
             /\ t.curr_offset = s.curr_offset /\ t.running = s.running
<1> DEFINE d == Append(s.data, p)
           n == s.data_length + 1 + length
           t == [s EXCEPT !.data = d, !.data_length = n]
<1>1. s.data \in Seq(Packets) /\ length \in Nat /\ s.data_length \in Nat
  BY DEF StateType, StateRecords, HeaderSize
<1>2. d \in Seq(Packets) /\ d # <<>>
  <2>1. d \in Seq(Packets) /\ Len(d) = Len(s.data) + 1 /\ Len(s.data) \in Nat
    BY <1>1
  <2>2. Len(<<>>) = 0
    OBVIOUS
  <2> HIDE DEF d
  <2>3. d # <<>>
    BY <2>1, <2>2
  <2> QED BY <2>1, <2>3
<1>3. n \in Nat /\ n # 0 /\ n <= s.alloc_data_length
  BY <1>1 DEF RoomFor
<1>4. StateRegisterChunk(s, p, length) = t
  BY DEF StateRegisterChunk
<1> HIDE DEF d, n
<1>5. t \in StateRecords
  BY <1>2, <1>3 DEF StateType, StateRecords
<1>6. /\ t.data = d /\ t.data_length = n /\ t.alloc_data_length = s.alloc_data_length
      /\ t.curr_offset = s.curr_offset /\ t.running = s.running /\ t.addr = s.addr
      /\ t.bytes_per_chunk = s.bytes_per_chunk /\ t.chunks_per_buffer = s.chunks_per_buffer
  BY DEF StateType, StateRecords
<1>7. t \in StateType
  <2> HIDE DEF t
  <2> QED BY <1>2, <1>3, <1>5, <1>6 DEF StateType
<1> QED BY <1>4, <1>6, <1>7 DEF d

\* A structure with something registered can be handed to the loop.
LEMMA StateQueueable ==
  ASSUME NEW s \in StateType, s.data # <<>>
  PROVE  Queueable(s) /\ BytesPerBuffer(s) = Size /\ s.addr = "mapped"
<1>1. s.addr = "mapped" /\ BytesPerBuffer(s) = Size
  <2>1. /\ s.addr = "mapped"
        /\ s.bytes_per_chunk = BytesPerPayload /\ s.chunks_per_buffer = PayloadsPerBuffer
    BY DEF StateType
  <2>2. PayloadsPerBuffer * BytesPerPayload = BytesPerPayload * PayloadsPerBuffer
    OBVIOUS
  <2> QED BY <2>1, <2>2 DEF BytesPerBuffer, Size
<1>2. s.data \in Seq(Packets) /\ s.curr_offset \in 0..(Size - 1)
  BY DEF StateType, StateRecords
<1>3. ASSUME NEW k \in 1..Len(s.data)  PROVE s.data[k].len \in Nat /\ s.data[k].len <= Size
  <2>1. s.data[k] \in Packets
    BY <1>2
  <2>2. s.data[k].len \in 0..BytesPerPayload
    BY <2>1 DEF Packets
  <2> QED BY <2>2, SizeFacts
<1>4. Len(s.data) \in Nat
  BY <1>2
<1> QED BY <1>1, <1>2, <1>3, <1>4, SizeFacts DEF Queueable, IsEntries

LEMMA QueuedEffect ==
  ASSUME NEW s \in StateType, s.data # <<>>
  PROVE  /\ StateQueued(s) \in StateType
         /\ StateQueued(s).data = <<>> /\ StateQueued(s).running = s.running
         /\ StateQueued(s).addr = "mapped"
         /\ StateQueued(s).curr_offset = QueuedOf(s).offset
<1> DEFINE o == QueuedOf(s).offset
           t == [s EXCEPT !.curr_offset = o, !.data = <<>>, !.data_length = 0]
<1>1. o \in 0..(Size - 1) /\ s.addr = "mapped"
  BY StateQueueable, QueuedFacts
<1>2. StateQueued(s) = t
  BY DEF StateQueued, StateDrained
<1> HIDE DEF o
<1>3. t \in StateRecords
  BY <1>1, EmptyIsTyped DEF StateType, StateRecords
<1>4. /\ t.data = <<>> /\ t.data_length = 0 /\ t.running = s.running
      /\ t.addr = "mapped" /\ t.curr_offset = o
      /\ t.alloc_data_length = s.alloc_data_length
      /\ t.bytes_per_chunk = s.bytes_per_chunk /\ t.chunks_per_buffer = s.chunks_per_buffer
  BY <1>1 DEF StateType, StateRecords
<1>5. t \in StateType
  <2>1. s.alloc_data_length \in Nat
    BY DEF StateType, StateRecords
  <2> HIDE DEF t
  <2> QED BY <1>1, <1>3, <1>4, <2>1 DEF StateType
<1> QED BY <1>2, <1>4, <1>5 DEF o

(***************************************************************************)
(* What the driver is given.                                               *)
(***************************************************************************)
Inside(packets) == \A k \in 1..Len(packets) : packets[k].at + packets[k].e.len <= Size

LEMMA HandedType ==
  ASSUME NEW s \in StateType
  PROVE  /\ Handed(s) \in Seq(Queued) /\ Len(Handed(s)) = Len(s.data)
         /\ \A k \in 1..Len(s.data) : Handed(s)[k].e = s.data[k]
         /\ Inside(Handed(s))
<1>1. CASE s.data = <<>>
  <2>1. Handed(s) = <<>>
    BY <1>1, NothingQueued
  <2> QED BY <1>1, <2>1, EmptyIsTyped DEF Inside
<1>2. CASE s.data # <<>>
  <2> DEFINE E == {s.data[k] : k \in 1..Len(s.data)}
             H == [e : E, at : 0..(Size - 1)]
  <2>1. Queueable(s) /\ BytesPerBuffer(s) = Size
    BY <1>2, StateQueueable
  <2>2. /\ Handed(s) \in Seq(H) /\ Len(Handed(s)) = Len(s.data)
        /\ \A k \in 1..Len(s.data) :
             /\ Handed(s)[k].e = s.data[k]
             /\ Handed(s)[k].at + s.data[k].len <= Size
    BY <2>1, QueuedFacts
  <2>3. H \subseteq Queued
    <3>1. s.data \in Seq(Packets)
      BY DEF StateType, StateRecords
    <3>2. E \subseteq Packets
      BY <3>1
    <3> HIDE DEF E
    <3> QED BY <3>2 DEF Queued
  <2> HIDE DEF H
  <2>4. Handed(s) \in Seq(Queued)
    BY <2>2, <2>3
  <2> QED BY <2>2, <2>4 DEF Inside
<1> QED BY <1>1, <1>2

LEMMA BeforeFailureType ==
  ASSUME NEW s \in StateType, s.data # <<>>, NEW told \in HandedBeforeFailure(s)
  PROVE  told \in Seq(Queued) /\ Inside(told)
<1> DEFINE E == {s.data[k] : k \in 1..Len(s.data)}
           H == [e : E, at : 0..(Size - 1)]
<1>1. Queueable(s) /\ BytesPerBuffer(s) = Size
  BY StateQueueable
<1>2. told \in Seq(H) /\ Inside(told)
  BY <1>1, BeforeFailureFacts DEF Inside
<1>3. H \subseteq Queued
  <2>1. s.data \in Seq(Packets)
    BY DEF StateType, StateRecords
  <2>2. E \subseteq Packets
    BY <2>1
  <2> HIDE DEF E
  <2> QED BY <2>2 DEF Queued
<1> HIDE DEF H
<1> QED BY <1>2, <1>3

\* In a run without crossing payloads the driver is told the places.
LEMMA HandedPlaces ==
  ASSUME NEW s \in StateType, s.data # <<>>,
         \A k \in 1..Len(s.data) :
           ((s.curr_offset + Bytes(s.data, k - 1)) % Size) + s.data[k].len <= Size
  PROVE  /\ QueuedOf(s).offset = (s.curr_offset + Bytes(s.data, Len(s.data))) % Size
         /\ \A k \in 1..Len(s.data) :
              Handed(s)[k].at = (s.curr_offset + Bytes(s.data, k - 1)) % Size
<1>1. Queueable(s) /\ BytesPerBuffer(s) = Size
  BY StateQueueable
<1>2. NoneCrosses(s)
  BY <1>1 DEF NoneCrosses, PlaceBehind
<1> QED BY <1>1, <1>2, QueuedFacts DEF PlaceBehind

\* The hardware's queue after FW_CDEV_IOC_QUEUE_ISO.
LEMMA HwQueueType ==
  ASSUME HwType, PayloadsInBuffer, NEW packets \in Seq(Queued), Inside(packets),
         HwQueue(packets)
  PROVE  /\ HwType' /\ PayloadsInBuffer'
         /\ Len(ring') = Len(ring) + Len(packets)
         /\ \A k \in 1..Len(ring) : ring'[k] = ring[k]
         /\ \A k \in (Len(ring) + 1)..(Len(ring) + Len(packets)) :
              ring'[k] = packets[k - Len(ring)]
<1>1. ring \in Seq(Queued) /\ ring' = ring \o packets
  BY DEF HwType, HwQueue
<1>2. /\ ring' \in Seq(Queued) /\ Len(ring') = Len(ring) + Len(packets)
      /\ \A k \in 1..Len(ring) : ring'[k] = ring[k]
      /\ \A k \in (Len(ring) + 1)..(Len(ring) + Len(packets)) :
           ring'[k] = packets[k - Len(ring)]
  BY <1>1, Concatenation
<1>3. Len(ring) \in Nat /\ Len(packets) \in Nat /\ DOMAIN ring = 1..Len(ring)
  BY <1>1
<1>4. HwType'
  <2>1. done \in 0..Len(ring) /\ reported \in 0..done /\ done' = done /\ reported' = reported
    BY DEF HwType, HwQueue
  <2> QED BY <1>2, <1>3, <2>1 DEF HwType
<1>5. PayloadsInBuffer'
  <2> SUFFICES ASSUME NEW k \in 1..Len(ring')
               PROVE  ring'[k].at + ring'[k].e.len <= Size
    BY <1>2 DEF PayloadsInBuffer
  <2>1. CASE k \in 1..Len(ring)
    BY <1>2, <1>3, <2>1 DEF PayloadsInBuffer
  <2>2. CASE k \in (Len(ring) + 1)..(Len(ring) + Len(packets))
    <3>1. k - Len(ring) \in 1..Len(packets)
      BY <1>3, <2>2
    <3> QED BY <1>2, <2>2, <3>1 DEF Inside
  <2> QED BY <1>2, <1>3, <2>1, <2>2
<1> QED BY <1>2, <1>4, <1>5

\* What FW_CDEV_IOC_STOP_ISO, closing the device and a read leave.
LEMMA HwStopType ==
  ASSUME HwType, PayloadsInBuffer, HwStop \/ HwClose
  PROVE  HwType' /\ PayloadsInBuffer'
<1>1. /\ ring \in Seq(Queued) /\ Len(ring) \in Nat /\ DOMAIN ring = 1..Len(ring)
      /\ done \in 0..Len(ring) /\ reported \in 0..done
  BY DEF HwType
<1>2. CASE HwClose
  BY <1>2, EmptyIsTyped DEF HwClose, HwType, PayloadsInBuffer
<1>3. CASE HwStop
  <2> DEFINE r == SubSeq(ring, 1, reported)
  <2>1. ring' = r /\ done' = reported /\ reported' = reported
    BY <1>3 DEF HwStop
  <2>2. reported \in Nat /\ reported <= Len(ring)
    BY <1>1
  <2>3. \A k \in 1..reported : ring[k] \in Queued
    BY <1>1, <2>2
  <2>4. /\ r \in Seq(Queued) /\ Len(r) = reported
        /\ \A k \in 1..reported : r[k] = ring[k]
    BY <1>1, <2>2, <2>3
  <2> HIDE DEF r
  <2>5. HwType'
    BY <2>1, <2>2, <2>4 DEF HwType
  <2>6. PayloadsInBuffer'
    <3>1. DOMAIN r = 1..reported
      BY <2>4
    <3> QED BY <1>1, <2>1, <2>2, <2>4, <3>1 DEF PayloadsInBuffer
  <2> QED BY <2>5, <2>6
<1> QED BY <1>2, <1>3

-----------------------------------------------------------------------------
(***************************************************************************)
(* The numbers of packets, and the packets, underway.                      *)
(***************************************************************************)
LEMMA UnderwayFacts ==
  ASSUME st \in StateType, HwType
  PROVE  /\ Len(ring) \in Nat /\ Len(st.data) \in Nat /\ Count \in Nat
         /\ IsEntries(st.data) /\ st.data \in Seq(Packets) /\ st.curr_offset \in 0..(Size - 1)
         /\ \A k \in 1..Count :
              /\ Underway(k) \in Packets
              /\ Underway(k).len \in 0..BytesPerPayload
<1>1. ring \in Seq(Queued) /\ st.data \in Seq(Packets) /\ st.curr_offset \in 0..(Size - 1)
  BY DEF StateType, StateRecords, HwType
<1>2. Len(ring) \in Nat /\ Len(st.data) \in Nat
  BY <1>1
<1>3. ASSUME NEW k \in 1..Len(st.data)  PROVE st.data[k].len \in Nat
  <2>1. st.data[k] \in Packets
    BY <1>1
  <2> QED BY <2>1 DEF Packets
<1>4. ASSUME NEW k \in 1..Count  PROVE Underway(k) \in Packets
  <2>1. CASE k <= Len(ring)
    <3>1. ring[k] \in Queued
      BY <1>1, <1>2, <2>1
    <3> QED BY <2>1, <3>1 DEF Underway, Queued
  <2>2. CASE k > Len(ring)
    <3>1. k - Len(ring) \in 1..Len(st.data)
      BY <1>2, <2>2 DEF Count
    <3>2. st.data[k - Len(ring)] \in Packets
      BY <1>1, <3>1
    <3> QED BY <1>2, <2>2, <3>2 DEF Underway
  <2> QED BY <1>2, <2>1, <2>2
<1>5. ASSUME NEW k \in 1..Count  PROVE Underway(k).len \in 0..BytesPerPayload
  BY <1>4 DEF Packets
<1> QED BY <1>1, <1>2, <1>3, <1>4, <1>5 DEF IsEntries, Count

-----------------------------------------------------------------------------
(***************************************************************************)
(* The invariant holds at first, and each action preserves it.             *)
(***************************************************************************)
LEMMA InitIInv == Init => IInv
<1> SUFFICES ASSUME Init  PROVE IInv
  OBVIOUS
<1>1. /\ st \in StateType /\ st.data = <<>> /\ st.curr_offset = 0 /\ ~st.running
      /\ ring = <<>> /\ offset = 0
  BY InitEffect DEF Init
<1>2. HwType /\ OtherTypes
  <2>1. 0 \in 0..(Ids - 1)
    OBVIOUS
  <2>2. HwType
    BY EmptyIsTyped DEF Init, HwType
  <2>3. OtherTypes
    BY <2>1, EmptyIsTyped, UnmappedIsTyped DEF Init, OtherTypes
  <2> QED BY <2>2, <2>3
<1>3. PayloadsInBuffer /\ BeforeStart
  BY <1>1 DEF Init, PayloadsInBuffer, BeforeStart
<1>4. Count = 0 /\ Len(st.data) = 0
  BY <1>1 DEF Count
<1>5. InOrder
  BY <1>4 DEF InOrder
<1>6. InPlace
  <2> DEFINE pos == [k \in 1..1 |-> 0]
  <2>1. Positions(pos)
    BY <1>4 DEF Positions
  <2>2. NextPlace = 0 % Size
    <3>1. Bytes(st.data, 0) = 0
      BY <1>1, <1>2, BytesFacts, UnderwayFacts
    <3> QED BY <1>1, <1>4, <3>1 DEF NextPlace
  <2>3. Placed(pos)
    BY <1>1, <1>4, <2>2 DEF Placed
  <2> HIDE DEF pos
  <2> QED BY <2>1, <2>3 DEF InPlace
<1> QED BY <1>1, <1>2, <1>3, <1>5, <1>6 DEF IInv

(***************************************************************************)
(* A step that changes nothing of what is underway.                        *)
(***************************************************************************)
LEMMA CalmStep ==
  ASSUME IInv, st' \in StateType, st'.data = st.data, st'.curr_offset = st.curr_offset,
         st'.running = st.running, HwType', OtherTypes',
         UNCHANGED <<ring, offset, buffer, nextId, history>>,
         handling' = handling \/ "started" \in history
  PROVE  IInv'
<1>1. /\ Count' = Count
      /\ \A k : Underway(k)' = Underway(k) /\ Place(k)' = Place(k) /\ Behind(k)' = Behind(k)
      /\ Live' = Live /\ NextPlace' = NextPlace
  BY DEF Count, Underway, Place, Behind, NextPlace, Live, Fresh
<1>2. InOrder'
  BY <1>1 DEF IInv, InOrder
<1>3. InPlace'
  <2> SUFFICES ASSUME MaxOutstanding <= PayloadsPerBuffer, Live', "crossed" \notin history'
               PROVE  \E pos : Positions(pos)' /\ Placed(pos)'
    BY DEF InPlace
  <2>1. PICK pos : Positions(pos) /\ Placed(pos)
    BY <1>1 DEF IInv, InPlace
  <2>2. Positions(pos)'
    BY <1>1, <2>1 DEF Positions
  <2>3. Placed(pos)'
    BY <1>1, <2>1 DEF Placed
  <2> QED BY <2>2, <2>3
<1>4. PayloadsInBuffer' /\ BeforeStart'
  BY DEF IInv, PayloadsInBuffer, BeforeStart
<1> QED BY <1>2, <1>3, <1>4 DEF IInv

(***************************************************************************)
(* A step after which the first run is over.                               *)
(***************************************************************************)
LEMMA HaltedStep ==
  ASSUME st' \in StateType, HwType', OtherTypes', PayloadsInBuffer', BeforeStart', ~Live'
  PROVE  IInv'
  BY DEF IInv, InOrder, InPlace

(***************************************************************************)
(* A step that leaves nothing underway, before the start.                  *)
(***************************************************************************)
LEMMA EmptyStep ==
  ASSUME IInv, st' \in StateType, HwType', OtherTypes', PayloadsInBuffer',
         history \subseteq history', offset' = offset, handling' = handling, ~st'.running,
         "started" \notin history' =>
           /\ st.data = <<>> /\ st'.data = <<>> /\ ring' = <<>>
           /\ st'.curr_offset = st.curr_offset
  PROVE  IInv'
<1>1. BeforeStart'
  BY DEF IInv, BeforeStart
<1>2. CASE ~Live'
  BY <1>1, <1>2, HaltedStep
<1>3. CASE Live'
  <2>1. /\ "started" \notin history' /\ "started" \notin history
        /\ "reused" \notin history
    BY <1>3 DEF Live, Fresh
  <2>2. ring = <<>> /\ ring' = <<>> /\ st.data = <<>> /\ st'.data = <<>>
    BY <2>1 DEF IInv, BeforeStart
  <2>3. Count = 0 /\ Count' = 0 /\ Len(st.data) = 0 /\ Len(st'.data) = 0
    BY <2>2 DEF Count
  <2>4. InOrder'
    BY <2>3 DEF InOrder
  <2>5. InPlace'
    <3> SUFFICES ASSUME MaxOutstanding <= PayloadsPerBuffer, "crossed" \notin history'
                 PROVE  \E pos : Positions(pos)' /\ Placed(pos)'
      BY DEF InPlace
    <3>1. PICK pos : Positions(pos) /\ Placed(pos)
      BY <2>1 DEF IInv, InPlace, Live, Fresh
    <3>2. Positions(pos)'
      BY <2>3, <3>1 DEF Positions
    <3>3. NextPlace' = NextPlace
      BY <2>1, <2>2 DEF NextPlace
    <3>4. Placed(pos)'
      BY <2>3, <3>1, <3>3 DEF Placed
    <3> QED BY <3>2, <3>4
  <2> QED BY <1>1, <2>4, <2>5 DEF IInv
<1> QED BY <1>2, <1>3

LEMMA CalmSteps ==
  ASSUME IInv, Allocate \/ CreateSource \/ DestroySource \/ HwSend \/ HwInterrupt
  PROVE  IInv'
<1>1. st \in StateType /\ HwType /\ OtherTypes
  BY DEF IInv
<1>2. CASE Allocate
  <2>1. st' = StateAllocate(st) /\ UNCHANGED <<offset, buffer, attached, handling, hw, nextId, history>>
    BY <1>2 DEF Allocate
  <2>2. HwType' /\ OtherTypes'
    BY <1>1, <2>1 DEF HwType, OtherTypes, hw
  <2> QED BY <1>1, <2>1, <2>2, OpenCloseEffect, CalmStep DEF hw
<1>3. CASE CreateSource \/ DestroySource
  <2>1. UNCHANGED <<st, offset, buffer, handling, hw, nextId, history>> /\ attached' \in BOOLEAN
    BY <1>3 DEF CreateSource, DestroySource
  <2>2. HwType' /\ OtherTypes'
    BY <1>1, <2>1 DEF HwType, OtherTypes, hw
  <2> QED BY <1>1, <2>1, <2>2, CalmStep DEF hw
<1>4. CASE HwSend \/ HwInterrupt
  <2>1. UNCHANGED <<st, offset, buffer, attached, handling, ring, nextId, history>>
    BY <1>4 DEF HwSend, HwInterrupt
  <2>2. HwType'
    <3>1. Len(ring) \in Nat /\ done \in 0..Len(ring) /\ reported \in 0..done
      BY <1>1 DEF HwType
    <3>2. CASE HwSend
      BY <1>1, <2>1, <3>1, <3>2 DEF HwSend, HwType
    <3>3. CASE HwInterrupt
      BY <1>1, <2>1, <3>1, <3>3 DEF HwInterrupt, HwType
    <3> QED BY <1>4, <3>2, <3>3
  <2>3. OtherTypes'
    BY <1>1, <2>1 DEF OtherTypes
  <2> QED BY <1>1, <2>1, <2>2, <2>3, CalmStep
<1> QED BY <1>2, <1>3, <1>4

LEMMA StutterStep == ASSUME IInv, UNCHANGED vars  PROVE IInv'
<1>1. st \in StateType /\ HwType /\ OtherTypes
  BY DEF IInv
<1>2. HwType' /\ OtherTypes'
  BY <1>1 DEF HwType, OtherTypes, vars, hw
<1> QED BY <1>1, <1>2, CalmStep DEF vars, hw

LEMMA MapBufferStep == ASSUME IInv, MapBuffer  PROVE IInv'
<1>1. st \in StateType /\ HwType /\ OtherTypes /\ PayloadsInBuffer
  BY DEF IInv
<1>2. /\ st' \in {StateMapBuffer(st, BytesPerPayload, PayloadsPerBuffer),
                  StateMapFailed(st, PayloadsPerBuffer)}
      /\ st.addr = "null"
      /\ buffer' \in {buffer, Unmapped}
      /\ history' \in {history, history \cup {"mapped"}, history \cup {"mapped", "reused"}}
      /\ UNCHANGED <<offset, attached, handling, hw, nextId>>
  BY Zenon DEF MapBuffer, MapBufferError, Did
<1>3. /\ st' \in StateType /\ st'.data = <<>> /\ st.data = <<>>
      /\ st'.curr_offset = st.curr_offset /\ ~st'.running
  BY <1>1, <1>2, MapEffect
<1>4. HwType' /\ PayloadsInBuffer'
  BY <1>1, <1>2 DEF HwType, PayloadsInBuffer, hw
<1>5. OtherTypes'
  BY <1>1, <1>2, UnmappedIsTyped DEF OtherTypes
<1>6. "started" \notin history' => ring' = <<>>
  BY <1>2 DEF IInv, BeforeStart, hw
<1> QED BY <1>2, <1>3, <1>4, <1>5, <1>6, EmptyStep

LEMMA StopStep == ASSUME IInv, Stop  PROVE IInv'
<1>1. st \in StateType /\ HwType /\ OtherTypes /\ PayloadsInBuffer /\ BeforeStart
  BY DEF IInv
<1>2. st' = StateStop(st) /\ UNCHANGED <<offset, buffer, attached, handling, nextId, history>>
  BY DEF Stop, StopOr
<1>3. OtherTypes'
  BY <1>1, <1>2 DEF OtherTypes
<1>4. CASE st.running
  <2>1. HwType' /\ PayloadsInBuffer'
    BY <1>1, <1>4, HwStopType DEF Stop, StopOr
  <2>2. st' \in StateType /\ ~st'.running /\ "started" \in history'
    BY <1>1, <1>2, <1>4, StopEffect DEF BeforeStart
  <2> QED BY <1>3, <2>1, <2>2, HaltedStep DEF Live, BeforeStart
<1>5. CASE ~st.running
  <2>1. st' = st /\ UNCHANGED hw
    BY <1>1, <1>2, <1>5, StopEffect DEF Stop, StopOr
  <2>2. HwType'
    BY <1>1, <2>1 DEF HwType, hw
  <2> QED BY <1>1, <1>2, <1>3, <2>1, <2>2, CalmStep DEF hw
<1> QED BY <1>4, <1>5

LEMMA UnmapSteps == ASSUME IInv, UnmapBuffer \/ Release  PROVE IInv'
<1>1. st \in StateType /\ HwType /\ OtherTypes /\ PayloadsInBuffer /\ BeforeStart
  BY DEF IInv
<1> DEFINE s == StateStop(st)
           t == StateUnmapBuffer(s)
<1>2. /\ MayUnmap
      /\ st' = t \/ st' = StateRelease(t)
      /\ UNCHANGED <<offset, handling, nextId, history>>
      /\ buffer' = Unmapped
      /\ attached' \in {attached, FALSE}
  BY DEF UnmapBuffer, Release, StopOr
<1>3. HwType' /\ PayloadsInBuffer'
  <2>1. HwStop \/ HwClose \/ UNCHANGED hw
    BY DEF UnmapBuffer, Release, StopOr
  <2>2. CASE UNCHANGED hw
    BY <1>1, <2>2 DEF HwType, PayloadsInBuffer, hw
  <2> QED BY <1>1, <2>1, <2>2, HwStopType
<1>4. /\ s \in StateType /\ s.data = <<>> /\ ~s.running
      /\ ~st.running => s = st /\ st.data = <<>>
  BY <1>1, <1>2, StopEffect DEF MayUnmap
<1> HIDE DEF s
<1>5. t \in StateType /\ t.data = <<>> /\ t.curr_offset = s.curr_offset /\ ~t.running
  BY <1>4, UnmapEffect
<1> HIDE DEF t
<1>6. st' \in StateType /\ st'.data = <<>> /\ st'.curr_offset = s.curr_offset /\ ~st'.running
  BY <1>2, <1>5, OpenCloseEffect
<1>7. OtherTypes'
  BY <1>1, <1>2, UnmappedIsTyped DEF OtherTypes
<1>8. ASSUME "started" \notin history'
      PROVE  /\ st.data = <<>> /\ st'.data = <<>> /\ ring' = <<>>
             /\ st'.curr_offset = st.curr_offset
  <2>1. ~st.running /\ ring = <<>>
    BY <1>1, <1>2, <1>8 DEF BeforeStart
  <2>2. ring' = <<>>
    BY <2>1 DEF UnmapBuffer, Release, StopOr, HwClose, hw
  <2> QED BY <1>4, <1>6, <2>1, <2>2
<1> QED BY <1>2, <1>3, <1>6, <1>7, <1>8, EmptyStep

\* What the driver hands to the handler is the front of its queue.
LEMMA DispatchStep == ASSUME IInv, Dispatch  PROVE IInv'
<1>1. st \in StateType /\ HwType /\ OtherTypes /\ PayloadsInBuffer /\ BeforeStart
  BY DEF IInv
<1>2. PICK count \in 1..reported :
        /\ ring' = SubSeq(ring, count + 1, Len(ring))
        /\ done' = done - count /\ reported' = reported - count
  BY DEF Dispatch
<1>3. handling' = TRUE /\ UNCHANGED <<st, offset, buffer, attached, nextId, history>>
  BY DEF Dispatch
<1> DEFINE n == Len(ring)
<1>4. /\ ring \in Seq(Queued) /\ n \in Nat /\ done \in 0..n /\ reported \in 0..done
      /\ DOMAIN ring = 1..n
  BY <1>1 DEF HwType
<1>5. count \in 1..n /\ count \in Nat
  BY <1>2, <1>4
<1>6. /\ ring' \in Seq(Queued) /\ Len(ring') = n - count
      /\ DOMAIN ring' = 1..(n - count)
      /\ \A k \in 1..(n - count) : ring'[k] = ring[count + k]
  <2>1. count \in 1..Len(ring)
    BY <1>5
  <2>2. /\ ring' \in Seq(Queued) /\ Len(ring') = n - count
        /\ \A k \in 1..(n - count) : ring'[k] = ring[count + k]
    BY <1>2, <1>4, <2>1, CutSequence
  <2> QED BY <2>2
<1>7. HwType'
  <2>1. done' \in 0..(n - count) /\ reported' \in 0..done'
    BY <1>2, <1>4, <1>5
  <2> QED BY <1>6, <2>1 DEF HwType
<1>8. PayloadsInBuffer'
  <2> SUFFICES ASSUME NEW k \in 1..(n - count)
               PROVE  ring'[k].at + ring'[k].e.len <= Size
    BY <1>6 DEF PayloadsInBuffer
  <2>1. count + k \in 1..n
    BY <1>4, <1>5
  <2> QED BY <1>1, <1>4, <1>6, <2>1 DEF PayloadsInBuffer
<1>9. OtherTypes'
  BY <1>1, <1>3 DEF OtherTypes
<1>10. BeforeStart'
  <2>1. ring # <<>>
    BY <1>4, <1>5
  <2> QED BY <1>1, <1>3, <2>1 DEF BeforeStart
<1> DEFINE c == Count
<1>11. /\ Count' = c - count /\ c \in Nat /\ count <= c /\ Live' = Live
       /\ \A k \in 1..(c - count) :
            /\ count + k \in 1..c
            /\ Underway(k)' = Underway(count + k) /\ Place(k)' = Place(count + k)
       /\ NextPlace' = NextPlace
  <2>1. Len(st.data) \in Nat /\ c = n + Len(st.data) /\ st' = st
    BY <1>1, <1>3, UnderwayFacts DEF Count
  <2>2. Count' = c - count /\ c \in Nat /\ count <= c /\ Live' = Live
    BY <1>3, <1>4, <1>5, <1>6, <2>1 DEF Count, Live, Fresh
  <2>3. NextPlace' = NextPlace
    BY <2>1 DEF NextPlace
  <2>4. ASSUME NEW k \in 1..(c - count)
        PROVE  /\ count + k \in 1..c
               /\ Underway(k)' = Underway(count + k) /\ Place(k)' = Place(count + k)
    <3>1. count + k \in 1..c /\ k \in Nat
      BY <1>5, <2>2
    <3>2. CASE k <= n - count
      <4>1. k \in 1..(n - count) /\ count + k <= n /\ k <= Len(ring')
        BY <1>4, <1>5, <1>6, <3>2
      <4>2. ring'[k] = ring[count + k]
        BY <1>6, <4>1
      <4> QED BY <3>1, <4>1, <4>2 DEF Underway, Place
    <3>3. CASE ~(k <= n - count)
      <4>1. ~(count + k <= n) /\ ~(k <= Len(ring')) /\ k - Len(ring') = (count + k) - n
        BY <1>4, <1>5, <1>6, <3>1, <3>3
      <4>2. Underway(k)' = Underway(count + k)
        BY <2>1, <4>1 DEF Underway
      <4>3. Place(k)' = (st.curr_offset + Bytes(st.data, ((count + k) - n) - 1)) % Size
        BY <2>1, <4>1 DEF Place, Behind
      <4>4. Place(count + k) = (st.curr_offset + Bytes(st.data, ((count + k) - n) - 1)) % Size
        BY <4>1 DEF Place, Behind
      <4> QED BY <3>1, <4>2, <4>3, <4>4
    <3> QED BY <3>2, <3>3
  <2> QED BY <2>2, <2>3, <2>4
<1> HIDE DEF c, n
<1>12. InOrder'
  <2> SUFFICES ASSUME Live', NEW k \in 1..Count'
               PROVE  /\ k > 1 => Underway(k)' .id = (Underway(k - 1)' .id + 1) % Ids
                      /\ k = Count' => nextId' = (Underway(k)' .id + 1) % Ids
    BY DEF InOrder
  <2>1. k \in 1..(c - count) /\ count + k \in 1..c /\ Underway(k)' = Underway(count + k)
    BY <1>11
  <2>2. /\ count + k > 1 => Underway(count + k).id = (Underway((count + k) - 1).id + 1) % Ids
        /\ count + k = c => nextId = (Underway(count + k).id + 1) % Ids
    BY <1>11, <2>1 DEF IInv, InOrder, c
  <2>3. ASSUME k > 1  PROVE Underway(k)' .id = (Underway(k - 1)' .id + 1) % Ids
    <3>1. k - 1 \in 1..(c - count) /\ count + (k - 1) = (count + k) - 1 /\ count + k > 1
      BY <1>5, <1>11, <2>1, <2>3
    <3>2. Underway(k - 1)' = Underway((count + k) - 1)
      BY <1>11, <3>1
    <3> QED BY <2>1, <2>2, <3>1, <3>2
  <2>4. k = Count' => count + k = c /\ nextId' = nextId
    BY <1>3, <1>5, <1>11, <2>1
  <2> QED BY <2>1, <2>2, <2>3, <2>4
<1>13. InPlace'
  <2> SUFFICES ASSUME MaxOutstanding <= PayloadsPerBuffer, Live', "crossed" \notin history'
               PROVE  \E pos : Positions(pos)' /\ Placed(pos)'
    BY DEF InPlace
  <2>1. PICK pos : Positions(pos) /\ Placed(pos)
    BY <1>3, <1>11 DEF IInv, InPlace
  <2>0. PICK p : p = [k \in 1..(c - count + 1) |-> pos[count + k]]
    OBVIOUS
  <2>2. ASSUME NEW k \in 1..(c - count + 1)  PROVE count + k \in 1..(c + 1) /\ k \in Nat
    BY <1>5, <1>11
  <2>3. /\ pos \in [1..(c + 1) -> Nat]
        /\ \A k \in 1..c : pos[k + 1] = pos[k] + Underway(k).len
        /\ \A j, k \in 1..(c + 1) :
             j <= k => pos[j] <= pos[k] /\ pos[k] <= pos[j] + (k - j) * BytesPerPayload
    BY <2>1 DEF Positions, c
  <2>4. Positions(p)'
    <3>1. p \in [1..(c - count + 1) -> Nat]
      BY <2>0, <2>2, <2>3
    <3>2. ASSUME NEW k \in 1..(c - count)  PROVE p[k + 1] = p[k] + Underway(k)' .len
      <4>1. /\ k \in 1..(c - count + 1) /\ k + 1 \in 1..(c - count + 1)
            /\ count + k \in 1..c /\ count + (k + 1) = (count + k) + 1
        BY <1>5, <1>11
      <4> QED BY <1>11, <2>0, <2>3, <4>1
    <3>3. ASSUME NEW j \in 1..(c - count + 1), NEW k \in 1..(c - count + 1), j <= k
          PROVE  p[j] <= p[k] /\ p[k] <= p[j] + (k - j) * BytesPerPayload
      <4>1. /\ count + j \in 1..(c + 1) /\ count + k \in 1..(c + 1)
            /\ count + j <= count + k /\ (count + k) - (count + j) = k - j
        BY <1>5, <2>2, <3>3
      <4> QED BY <2>0, <2>3, <4>1
    <3> QED BY <1>11, <3>1, <3>2, <3>3 DEF Positions
  <2>5. Placed(p)'
    <3>1. c - count + 1 \in 1..(c - count + 1) /\ p[c - count + 1] = pos[c + 1]
      BY <1>5, <1>11, <2>0
    <3>2. ASSUME NEW k \in 1..(c - count)  PROVE p[k] = pos[count + k] /\ count + k \in 1..c
      BY <1>11, <2>0
    <3>3. /\ \A k \in 1..c :
               /\ Place(k) = pos[k] % Size
               /\ Place(k) + Underway(k).len <= Size
               /\ \A b \in 1..Underway(k).len :
                    buffer[Place(k) + b - 1] = <<Underway(k).id, b>>
          /\ offset % Size = pos[c + 1] % Size
          /\ NextPlace = pos[c + 1] % Size
      BY <2>1 DEF Placed, c
    <3>4. ASSUME NEW k \in 1..(c - count)
          PROVE  /\ Place(k)' = p[k] % Size
                 /\ Place(k)' + Underway(k)' .len <= Size
                 /\ \A b \in 1..Underway(k)' .len :
                      buffer[Place(k)' + b - 1] = <<Underway(k)' .id, b>>
      <4>1. Place(k)' = Place(count + k) /\ Underway(k)' = Underway(count + k)
        BY <1>11
      <4>2. p[k] = pos[count + k] /\ count + k \in 1..c
        BY <3>2
      <4>3. /\ Place(count + k) = pos[count + k] % Size
            /\ Place(count + k) + Underway(count + k).len <= Size
            /\ \A b \in 1..Underway(count + k).len :
                 buffer[Place(count + k) + b - 1] = <<Underway(count + k).id, b>>
        BY <3>3, <4>2
      <4> QED BY <4>1, <4>2, <4>3
    <3>5. offset' % Size = p[c - count + 1] % Size /\ NextPlace' = p[c - count + 1] % Size
      BY <1>3, <1>11, <3>1, <3>3
    <3> QED BY <1>3, <1>11, <3>4, <3>5 DEF Placed
  <2> QED BY <2>4, <2>5
<1> QED BY <1>1, <1>3, <1>7, <1>8, <1>9, <1>10, <1>12, <1>13 DEF IInv

(***************************************************************************)
(* What register_packet writes, and where it goes on.                      *)
(***************************************************************************)
LEMMA CopyFacts ==
  ASSUME OtherTypes, NEW p \in Packets, NEW first, first = FrameSize(offset, p.len)
  PROVE  /\ first \in 0..p.len
         /\ OffsetAfter(p, first) \in 0..Size
         /\ Copied(p, first) \in [0..(Size - 1) -> Contents]
<1>1. /\ offset \in 0..Size /\ Size \in Nat \ {0}
      /\ p.id \in 0..(Ids - 1) /\ p.len \in 0..BytesPerPayload /\ BytesPerPayload <= Size
  BY SizeFacts DEF OtherTypes, Packets
<1> DEFINE len == p.len
<1>2. len \in Nat /\ len <= BytesPerPayload /\ len <= Size
  BY <1>1
<1> HIDE DEF len
<1>3. first = IF offset + len < Size THEN len ELSE Size - offset
  BY DEF FrameSize, len
<1>4. first \in 0..len
  <2> HIDE DEF Size
  <2> QED BY <1>1, <1>2, <1>3
<1>5. OffsetAfter(p, first) \in 0..Size
  <2>1. OffsetAfter(p, first) = IF first # len THEN len - first ELSE offset + first
    BY DEF OffsetAfter, len
  <2> HIDE DEF Size
  <2> QED BY <1>1, <1>2, <1>3, <1>4, <2>1
<1>6. ASSUME NEW b \in 0..(Size - 1)  PROVE Copied(p, first)[b] \in Contents
  <2> DEFINE k == b - offset
  <2>1. Copied(p, first)[b] = CASE k \in 0..(first - 1) -> <<p.id, k + 1>>
                                [] b < len - first      -> <<p.id, first + b + 1>>
                                [] OTHER                -> buffer[b]
    BY DEF Copied, len
  <2>2. buffer[b] \in Contents /\ b \in Nat
    BY <1>1 DEF OtherTypes
  <2>3. k \in 0..(first - 1) => k + 1 \in 1..BytesPerPayload
    BY <1>1, <1>2, <1>4, <2>2
  <2>4. b < len - first => first + b + 1 \in 1..BytesPerPayload
    BY <1>1, <1>2, <1>4, <2>2
  <2> HIDE DEF k
  <2>5. CASE k \in 0..(first - 1)
    <3>1. Copied(p, first)[b] \in {<<p.id, k + 1>>, <<p.id, first + b + 1>>}
            /\ (Copied(p, first)[b] # <<p.id, k + 1>> => b < len - first)
      BY <2>1, <2>5
    <3> QED BY <1>1, <2>3, <2>4, <2>5, <3>1 DEF Contents
  <2>6. CASE k \notin 0..(first - 1) /\ b < len - first
    <3>1. Copied(p, first)[b] = <<p.id, first + b + 1>>
      BY <2>1, <2>6
    <3> QED BY <1>1, <2>4, <2>6, <3>1 DEF Contents
  <2>7. CASE k \notin 0..(first - 1) /\ ~(b < len - first)
    <3>1. Copied(p, first)[b] = buffer[b]
      BY <2>1, <2>7
    <3> QED BY <2>2, <3>1
  <2> QED BY <2>5, <2>6, <2>7
<1>7. Copied(p, first) = [b \in 0..(Size - 1) |-> Copied(p, first)[b]]
  BY DEF Copied
<1>8. Copied(p, first) \in [0..(Size - 1) -> Contents]
  <2> DEFINE f == Copied(p, first)
  <2>1. f = [b \in 0..(Size - 1) |-> f[b]] /\ \A b \in 0..(Size - 1) : f[b] \in Contents
    BY <1>6, <1>7
  <2> HIDE DEF f
  <2>2. f \in [0..(Size - 1) -> Contents]
    BY <2>1
  <2> QED BY <2>2 DEF f
<1> QED BY <1>4, <1>5, <1>8 DEF len

\* In one piece, it is the stretch behind the place of the offset.
LEMMA CopyInOnePiece ==
  ASSUME OtherTypes, NEW p \in Packets, NEW first, first = FrameSize(offset, p.len),
         first \in {0, p.len}
  PROVE  /\ (offset % Size) + p.len <= Size
         /\ OffsetAfter(p, first) % Size = ((offset % Size) + p.len) % Size
         /\ \A b \in 1..p.len : Copied(p, first)[(offset % Size) + b - 1] = <<p.id, b>>
         /\ \A x \in 0..(Size - 1) :
              x < offset % Size \/ x >= (offset % Size) + p.len =>
                Copied(p, first)[x] = buffer[x]
<1> DEFINE len == p.len
           o == offset % Size
<1>1. /\ offset \in 0..Size /\ Size \in Nat \ {0} /\ len \in Nat /\ len <= Size
  BY SizeFacts DEF OtherTypes, Packets
<1>2. first = IF offset + len < Size THEN len ELSE Size - offset
  BY DEF FrameSize
<1>3. first \in 0..len
  BY CopyFacts
<1>4. o \in 0..(Size - 1)
  BY <1>1, DivisionFacts
<1>5. Size % Size = 0
  <2>1. (Size * 1 + 0) % Size = 0
    BY <1>1, RemainderUnique
  <2>2. Size * 1 + 0 = Size
    BY <1>1
  <2> QED BY <2>1, <2>2
<1>6. offset < Size => o = offset
  <2>1. offset < Size => offset \in 0..(Size - 1)
    <3> HIDE DEF Size
    <3> QED BY <1>1
  <2> QED BY <1>1, <2>1, RemainderSmall
<1>7. offset = Size => o = 0
  BY <1>5
<1> DEFINE C(b) == Copied(p, first)[b]
<1>8. ASSUME NEW b \in 0..(Size - 1)
      PROVE  C(b) = CASE b - offset \in 0..(first - 1) -> <<p.id, (b - offset) + 1>>
                      [] b < len - first               -> <<p.id, first + b + 1>>
                      [] OTHER                         -> buffer[b]
  BY DEF Copied
<1>9. OffsetAfter(p, first) = IF first # len THEN len - first ELSE offset + first
  BY DEF OffsetAfter
<1> HIDE DEF C, o, len
<1> HIDE DEF Size
<1>10. CASE offset < Size
  <2>1. first = len /\ o = offset /\ offset + len <= Size
    BY <1>1, <1>2, <1>3, <1>6, <1>10 DEF len
  <2>2. OffsetAfter(p, first) = o + len
    BY <1>9, <2>1
  <2>3. ASSUME NEW b \in 1..len  PROVE C(o + b - 1) = <<p.id, b>>
    <3>1. /\ o + b - 1 \in 0..(Size - 1) /\ (o + b - 1) - offset = b - 1
          /\ b - 1 \in 0..(first - 1) /\ ~(o + b - 1 < len - first) /\ (b - 1) + 1 = b
      BY <1>1, <2>1
    <3> QED BY <1>8, <3>1
  <2>4. ASSUME NEW x \in 0..(Size - 1), x < o \/ x >= o + len  PROVE C(x) = buffer[x]
    <3>1. x - offset \notin 0..(first - 1) /\ ~(x < len - first)
      BY <1>1, <2>1, <2>4
    <3> QED BY <1>8, <3>1
  <2> QED BY <2>1, <2>2, <2>3, <2>4 DEF C, o, len
<1>11. CASE offset = Size
  <2>1. o = 0 /\ first = 0
    BY <1>1, <1>2, <1>7, <1>11
  <2>2. OffsetAfter(p, first) % Size = (o + len) % Size
    <3>1. CASE len = 0
      BY <1>1, <1>5, <1>9, <1>11, <2>1, <3>1, RemainderSmall
    <3>2. CASE len # 0
      BY <1>1, <1>9, <2>1, <3>2
    <3> QED BY <3>1, <3>2
  <2>3. ASSUME NEW b \in 1..len  PROVE C(o + b - 1) = <<p.id, b>>
    <3>1. /\ o + b - 1 \in 0..(Size - 1) /\ (o + b - 1) - offset \notin 0..(first - 1)
          /\ o + b - 1 < len - first /\ first + (o + b - 1) + 1 = b
      BY <1>1, <2>1
    <3> QED BY <1>8, <3>1
  <2>4. ASSUME NEW x \in 0..(Size - 1), x < o \/ x >= o + len  PROVE C(x) = buffer[x]
    <3>1. x - offset \notin 0..(first - 1) /\ ~(x < len - first)
      BY <1>1, <2>1, <2>4
    <3> QED BY <1>8, <3>1
  <2> QED BY <1>1, <2>1, <2>2, <2>3, <2>4 DEF C, o, len
<1> QED BY <1>1, <1>10, <1>11

LEMMA RegisterPacketStep == ASSUME IInv, RegisterPacket  PROVE IInv'
<1>1. st \in StateType /\ HwType /\ OtherTypes /\ PayloadsInBuffer /\ BeforeStart
  BY DEF IInv
<1>2. PICK skip \in BOOLEAN : \E len \in IF skip THEN {0} ELSE Payloads :
        LET packet == [id |-> nextId, len |-> len]
            length == IF skip THEN 0 ELSE st.header_size
            first  == FrameSize(offset, len)
        IN  /\ RoomFor(st, length) /\ RegisterChunkError(st) = "none"
            /\ st.addr # "failed" /\ (st.running \/ May("started"))
            /\ Len(st.data) + Len(ring) < MaxOutstanding
            /\ st' = StateRegisterChunk(st, packet, length)
            /\ buffer' = Copied(packet, first)
            /\ offset' = OffsetAfter(packet, first)
            /\ nextId' = (nextId + 1) % Ids
            /\ history' = history \cup (IF first \notin {0, len} THEN {"crossed"} ELSE {})
            /\ UNCHANGED <<attached, handling, hw>>
  BY DEF RegisterPacket
<1>3. PICK len \in IF skip THEN {0} ELSE Payloads :
        LET packet == [id |-> nextId, len |-> len]
            length == IF skip THEN 0 ELSE st.header_size
            first  == FrameSize(offset, len)
        IN  /\ RoomFor(st, length) /\ RegisterChunkError(st) = "none"
            /\ st.addr # "failed" /\ (st.running \/ May("started"))
            /\ Len(st.data) + Len(ring) < MaxOutstanding
            /\ st' = StateRegisterChunk(st, packet, length)
            /\ buffer' = Copied(packet, first)
            /\ offset' = OffsetAfter(packet, first)
            /\ nextId' = (nextId + 1) % Ids
            /\ history' = history \cup (IF first \notin {0, len} THEN {"crossed"} ELSE {})
            /\ UNCHANGED <<attached, handling, hw>>
  BY <1>2
<1>4. PICK packet : packet = [id |-> nextId, len |-> len]
  OBVIOUS
<1>5. PICK length : length = IF skip THEN 0 ELSE st.header_size
  OBVIOUS
<1>6. PICK first : first = FrameSize(offset, len)
  OBVIOUS
<1>7. /\ RoomFor(st, length) /\ RegisterChunkError(st) = "none" /\ st.addr # "failed"
      /\ Len(st.data) + Len(ring) < MaxOutstanding
      /\ st' = StateRegisterChunk(st, packet, length)
      /\ buffer' = Copied(packet, first) /\ offset' = OffsetAfter(packet, first)
      /\ nextId' = (nextId + 1) % Ids
      /\ history' = history \cup (IF first \notin {0, len} THEN {"crossed"} ELSE {})
      /\ UNCHANGED <<attached, handling, hw>>
  BY <1>3, <1>4, <1>5, <1>6
<1>8. packet \in Packets /\ packet.len = len /\ packet.id = nextId /\ len \in 0..BytesPerPayload
  <2>1. len \in 0..BytesPerPayload
    OBVIOUS
  <2>2. nextId \in 0..(Ids - 1)
    BY <1>1 DEF OtherTypes
  <2> QED BY <1>4, <2>1, <2>2 DEF Packets
<1>9. /\ st' \in StateType /\ st'.data = Append(st.data, packet)
      /\ st'.curr_offset = st.curr_offset /\ st'.running = st.running
  <2>1. st.addr = "mapped"
    <3>1. st.addr # "null" /\ st.addr # "failed" /\ st.addr \in {"null", "failed", "mapped"}
      BY <1>1, <1>7 DEF RegisterChunkError, StateType, StateRecords
    <3> QED BY <3>1
  <2>2. length \in {0, st.header_size}
    BY <1>5
  <2> QED BY <1>1, <1>7, <1>8, <2>1, <2>2, RegisterEffect
<1>10. ring' = ring /\ HwType' /\ PayloadsInBuffer'
  BY <1>1, <1>7 DEF HwType, PayloadsInBuffer, hw
<1>11. OtherTypes'
  <2>1. offset' \in 0..Size /\ buffer' \in [0..(Size - 1) -> Contents]
    BY <1>1, <1>6, <1>7, <1>8, CopyFacts
  <2>2. nextId' \in 0..(Ids - 1)
    <3>1. nextId + 1 \in Int /\ Ids \in Nat \ {0}
      BY <1>1 DEF OtherTypes
    <3> QED BY <1>7, <3>1, DivisionFacts
  <2> QED BY <1>1, <1>7, <2>1, <2>2 DEF OtherTypes
<1>12. /\ "started" \in history' <=> "started" \in history
       /\ "reused" \in history' <=> "reused" \in history
       /\ "crossed" \notin history' => "crossed" \notin history /\ first \in {0, len}
  BY <1>7
<1>13. BeforeStart' /\ Live' = Live
  BY <1>1, <1>7, <1>9, <1>10, <1>12 DEF BeforeStart, Live, Fresh
<1> DEFINE n == Len(ring)
           m == Len(st.data)
           c == Count
<1>14. /\ n \in Nat /\ m \in Nat /\ c = n + m /\ c < MaxOutstanding
       /\ IsEntries(st.data) /\ st.data \in Seq(Packets) /\ st.curr_offset \in 0..(Size - 1)
       /\ \A k \in 1..c : Underway(k) \in Packets /\ Underway(k).len \in 0..BytesPerPayload
  BY <1>1, <1>7, UnderwayFacts DEF Count
<1>15. /\ Len(st'.data) = m + 1 /\ st'.data[m + 1] = packet
       /\ \A k \in 1..m : st'.data[k] = st.data[k]
  BY <1>8, <1>9, <1>14
<1>16. /\ \A k \in 0..m : Bytes(st'.data, k) = Bytes(st.data, k) /\ Bytes(st.data, k) \in Nat
       /\ Bytes(st'.data, m + 1) = Bytes(st.data, m) + len
  <2>1. len \in Nat
    BY <1>8
  <2>2. /\ \A k \in 0..m : Bytes(Append(st.data, packet), k) = Bytes(st.data, k)
        /\ Bytes(Append(st.data, packet), m + 1) = Bytes(st.data, m) + packet.len
    BY <1>8, <1>14, <2>1, BytesAppend DEF m
  <2>3. \A k \in 0..m : Bytes(st.data, k) \in Nat
    BY <1>14, BytesFacts DEF m
  <2> QED BY <1>8, <1>9, <2>2, <2>3
<1>17. Count' = c + 1
  BY <1>10, <1>14, <1>15 DEF Count
<1>18. ASSUME NEW k \in 1..c  PROVE Underway(k)' = Underway(k) /\ Place(k)' = Place(k)
  <2>1. CASE k <= n
    BY <1>10, <2>1 DEF Underway, Place
  <2>2. CASE ~(k <= n)
    <3>1. k - n \in 1..m /\ (k - n) - 1 \in 0..m /\ ~(k <= Len(ring)) /\ ~(k <= Len(ring'))
      BY <1>10, <1>14, <2>2
    <3>2. Underway(k)' = Underway(k)
      BY <1>10, <1>15, <3>1 DEF Underway
    <3>3. Place(k)' = Place(k)
      BY <1>9, <1>10, <1>16, <3>1 DEF Place, Behind
    <3> QED BY <3>2, <3>3
  <2> QED BY <2>1, <2>2
<1>19. ASSUME NEW k, k = c + 1  PROVE Underway(k)' = packet /\ Place(k)' = NextPlace
  <2>1. ~(k <= Len(ring')) /\ k - Len(ring') = m + 1 /\ (m + 1) - 1 = m /\ m \in 0..m
    BY <1>10, <1>14, <1>19
  <2>2. Underway(k)' = packet
    BY <1>15, <2>1 DEF Underway
  <2>3. Place(k)' = (st'.curr_offset + Bytes(st'.data, (m + 1) - 1)) % Size
    BY <2>1 DEF Place, Behind
  <2>4. Place(k)' = NextPlace
    BY <1>9, <1>16, <2>1, <2>3 DEF NextPlace
  <2> QED BY <2>2, <2>4
<1>20. NextPlace' = (NextPlace + len) % Size
  <2> DEFINE x == st.curr_offset + Bytes(st.data, m)
  <2>1. x \in Nat /\ len \in Nat /\ Size \in Nat \ {0}
    <3>1. m \in 0..m /\ st.curr_offset \in Nat
      BY <1>14, SizeFacts
    <3>2. Bytes(st.data, m) \in Nat
      BY <1>16, <3>1
    <3>3. len \in Nat
      BY <1>8
    <3> QED BY <3>1, <3>2, <3>3, SizeFacts
  <2>2. st'.curr_offset + Bytes(st'.data, m + 1) = x + len
    <3>1. m \in 0..m
      BY <1>14
    <3>2. Bytes(st'.data, m + 1) = Bytes(st.data, m) + len /\ Bytes(st.data, m) \in Nat
      BY <1>16, <3>1
    <3>3. st'.curr_offset = st.curr_offset /\ st.curr_offset \in Nat
      BY <1>9, <1>14, SizeFacts
    <3> QED BY <2>1, <3>2, <3>3
  <2>3. NextPlace' = (x + len) % Size
    BY <1>15, <2>2 DEF NextPlace
  <2>4. NextPlace = x % Size
    BY DEF NextPlace
  <2> HIDE DEF x, m
  <2> QED BY <2>1, <2>3, <2>4, RemainderOfSum
<1> HIDE DEF c, n, m
<1>21. InOrder'
  <2> SUFFICES ASSUME Live', NEW k \in 1..Count'
               PROVE  /\ k > 1 => Underway(k)' .id = (Underway(k - 1)' .id + 1) % Ids
                      /\ k = Count' => nextId' = (Underway(k)' .id + 1) % Ids
    BY DEF InOrder
  <2>1. \A i \in 1..c : /\ i > 1 => Underway(i).id = (Underway(i - 1).id + 1) % Ids
                        /\ i = c => nextId = (Underway(i).id + 1) % Ids
    BY <1>13 DEF IInv, InOrder, c
  <2>2. CASE k \in 1..c
    <3>1. k > 1 => k - 1 \in 1..c
      BY <1>14, <2>2
    <3>2. k # Count'
      BY <1>14, <1>17, <2>2
    <3> QED BY <1>18, <2>1, <2>2, <3>1, <3>2
  <2>3. CASE k = c + 1
    <3>1. nextId' = (Underway(k)' .id + 1) % Ids
      BY <1>7, <1>8, <1>19, <2>3
    <3>2. ASSUME k > 1  PROVE Underway(k)' .id = (Underway(k - 1)' .id + 1) % Ids
      <4>1. k - 1 = c /\ c \in 1..c
        BY <1>14, <2>3, <3>2
      <4> QED BY <1>8, <1>18, <1>19, <2>1, <2>3, <4>1
    <3> QED BY <3>1, <3>2
  <2> QED BY <1>14, <1>17, <2>2, <2>3
<1>22. InPlace'
  <2> SUFFICES ASSUME MaxOutstanding <= PayloadsPerBuffer, Live', "crossed" \notin history'
               PROVE  \E pos : Positions(pos)' /\ Placed(pos)'
    BY DEF InPlace
  <2>1. PICK pos : Positions(pos) /\ Placed(pos)
    BY <1>12, <1>13 DEF IInv, InPlace
  <2>2. /\ pos \in [1..(c + 1) -> Nat]
        /\ \A k \in 1..c : pos[k + 1] = pos[k] + Underway(k).len
        /\ \A j, k \in 1..(c + 1) :
             j <= k => pos[j] <= pos[k] /\ pos[k] <= pos[j] + (k - j) * BytesPerPayload
    BY <2>1 DEF Positions, c
  <2>3. /\ \A k \in 1..c :
             /\ Place(k) = pos[k] % Size
             /\ Place(k) + Underway(k).len <= Size
             /\ \A b \in 1..Underway(k).len :
                  buffer[Place(k) + b - 1] = <<Underway(k).id, b>>
        /\ offset % Size = pos[c + 1] % Size
        /\ NextPlace = pos[c + 1] % Size
    BY <2>1 DEF Placed, c
  <2> DEFINE last == pos[c + 1]
  <2>4. PICK p : p = [k \in 1..(c + 2) |-> IF k <= c + 1 THEN pos[k] ELSE last + len]
    OBVIOUS
  <2>5. /\ last \in Nat /\ len \in Nat
        /\ \A k \in 1..(c + 1) : k \in 1..(c + 2) /\ p[k] = pos[k] /\ pos[k] \in Nat
        /\ c + 2 \in 1..(c + 2) /\ p[c + 2] = last + len /\ DOMAIN p = 1..(c + 2)
    BY <1>8, <1>14, <2>2, <2>4
  <2> HIDE DEF last
  <2>6. Positions(p)'
    <3>1. p \in [1..(c + 2) -> Nat]
      <4>1. \A k \in 1..(c + 2) : p[k] \in Nat
        BY <1>14, <2>5
      <4> QED BY <2>4, <4>1
    <3>2. ASSUME NEW k \in 1..(c + 1)  PROVE p[k + 1] = p[k] + Underway(k)' .len
      <4>1. CASE k \in 1..c
        <5>1. k + 1 \in 1..(c + 1)
          BY <1>14, <4>1
        <5> QED BY <1>18, <2>2, <2>5, <4>1, <5>1
      <4>2. CASE k = c + 1
        <5>1. k + 1 = c + 2
          BY <1>14, <4>2
        <5> QED BY <1>8, <1>19, <2>5, <4>2, <5>1 DEF last
      <4> QED BY <1>14, <4>1, <4>2
    <3>3. ASSUME NEW j \in 1..(c + 2), NEW k \in 1..(c + 2), j <= k
          PROVE  p[j] <= p[k] /\ p[k] <= p[j] + (k - j) * BytesPerPayload
      <4>1. CASE k <= c + 1
        <5>1. j \in 1..(c + 1) /\ k \in 1..(c + 1)
          BY <1>14, <3>3, <4>1
        <5> QED BY <2>2, <2>5, <3>3, <5>1
      <4>2. CASE j <= c + 1 /\ k = c + 2
        <5>1. j \in 1..(c + 1) /\ c + 1 \in 1..(c + 1) /\ j <= c + 1
          BY <1>14, <4>2
        <5>2. pos[j] <= last /\ last <= pos[j] + ((c + 1) - j) * BytesPerPayload
          BY <2>2, <5>1 DEF last
        <5>3. (k - j) * BytesPerPayload = ((c + 1) - j) * BytesPerPayload + BytesPerPayload
          BY <1>14, <4>2
        <5>4. ((c + 1) - j) * BytesPerPayload \in Int /\ len <= BytesPerPayload
          BY <1>8, <1>14
        <5>5. p[j] = pos[j] /\ p[k] = last + len /\ pos[j] \in Nat
          BY <2>5, <4>2, <5>1
        <5> DEFINE f == ((c + 1) - j) * BytesPerPayload
                   g == (k - j) * BytesPerPayload
        <5>6. /\ pos[j] <= last /\ last <= pos[j] + f /\ g = f + BytesPerPayload
              /\ f \in Int /\ len <= BytesPerPayload /\ last \in Nat /\ len \in Nat
          BY <1>8, <2>5, <5>2, <5>3, <5>4
        <5> HIDE DEF f, g
        <5>7. p[j] <= p[k] /\ p[k] <= p[j] + g
          BY <5>5, <5>6
        <5> QED BY <5>7 DEF g
      <4>3. CASE j = c + 2 /\ k = c + 2
        <5>1. (k - j) * BytesPerPayload = 0 /\ p[j] = last + len /\ p[k] = last + len
          BY <1>14, <2>5, <4>3
        <5> QED BY <2>5, <5>1
      <4> QED BY <1>14, <3>3, <4>1, <4>2, <4>3
    <3>4. (c + 1) + 1 = c + 2
      BY <1>14
    <3> QED BY <1>17, <3>1, <3>2, <3>3, <3>4 DEF Positions
  <2> DEFINE o == offset % Size
  <2>7. first \in {0, packet.len} /\ first = FrameSize(offset, packet.len)
    BY <1>6, <1>8, <1>12
  <2>8. /\ o + len <= Size /\ o = last % Size /\ NextPlace = o
        /\ offset' % Size = (o + len) % Size
        /\ \A b \in 1..len : buffer'[o + b - 1] = <<nextId, b>>
        /\ \A x \in 0..(Size - 1) : x < o \/ x >= o + len => buffer'[x] = buffer[x]
    <3>1. /\ o + packet.len <= Size
          /\ OffsetAfter(packet, first) % Size = (o + packet.len) % Size
          /\ \A b \in 1..packet.len : Copied(packet, first)[o + b - 1] = <<packet.id, b>>
          /\ \A x \in 0..(Size - 1) :
               x < o \/ x >= o + packet.len => Copied(packet, first)[x] = buffer[x]
      BY <1>1, <1>8, <2>7, CopyInOnePiece
    <3>2. o = last % Size /\ NextPlace = o
      BY <2>3 DEF last
    <3> HIDE DEF o
    <3> QED BY <1>7, <1>8, <3>1, <3>2
  <2> HIDE DEF o
  <2>9. (last + len) % Size = (o + len) % Size
    BY <2>5, <2>8, SizeFacts, RemainderOfSum
  <2>10. ASSUME NEW k \in 1..c
         PROVE  \A b \in 1..Underway(k).len :
                  buffer'[Place(k) + b - 1] = <<Underway(k).id, b>>
    <3> SUFFICES ASSUME NEW b \in 1..Underway(k).len
                 PROVE  buffer'[Place(k) + b - 1] = <<Underway(k).id, b>>
      OBVIOUS
    <3>1. PICK l : l = Underway(k).len
      OBVIOUS
    <3>2. PICK a : a = pos[k]
      OBVIOUS
    <3>3. PICK x : x = Place(k) + b - 1
      OBVIOUS
    <3>4. /\ l \in Nat /\ a \in Nat /\ Place(k) = a % Size /\ Place(k) + l <= Size
          /\ a % Size \in 0..(Size - 1) /\ Size \in Nat \ {0}
      <4>1. a \in Nat /\ l \in Nat /\ Place(k) = a % Size /\ Place(k) + l <= Size
        BY <1>14, <2>3, <2>5, <3>1, <3>2
      <4>2. Size \in Nat \ {0}
        BY SizeFacts
      <4>3. a % Size \in 0..(Size - 1)
        <5>1. a \in Int
          BY <4>1
        <5> QED BY <4>2, <5>1, DivisionFacts, Zenon
      <4> QED BY <4>1, <4>2, <4>3
    <3>5. a + l <= last /\ last + len <= a + Size
      <4>1. k + 1 \in 1..(c + 1) /\ c + 1 \in 1..(c + 1) /\ k \in 1..(c + 1) /\ k + 1 <= c + 1
        BY <1>14
      <4>2. pos[k + 1] <= last /\ last <= pos[k] + ((c + 1) - k) * BytesPerPayload
        BY <2>2, <4>1 DEF last
      <4>3. pos[k + 1] = a + l
        BY <2>2, <3>1, <3>2
      <4>4. (c + 2) - k \in 0..PayloadsPerBuffer
        BY <1>14
      <4>5. ((c + 2) - k) * BytesPerPayload <= Size
        BY <4>4, SizeFacts
      <4>6. ((c + 2) - k) * BytesPerPayload = ((c + 1) - k) * BytesPerPayload + BytesPerPayload
        BY <1>14
      <4>7. ((c + 1) - k) * BytesPerPayload \in Int /\ len <= BytesPerPayload
        BY <1>8, <1>14
      <4> DEFINE f == ((c + 1) - k) * BytesPerPayload
                 g == ((c + 2) - k) * BytesPerPayload
      <4>8. /\ last <= a + f /\ g <= Size /\ g = f + BytesPerPayload
            /\ f \in Int /\ len <= BytesPerPayload
        BY <3>2, <4>2, <4>5, <4>6, <4>7
      <4> HIDE DEF Size, f, g
      <4>9. last + len <= a + Size
        BY <1>8, <2>5, <3>4, <4>8
      <4> QED BY <4>2, <4>3, <4>9
    <3>6. x \in 0..(Size - 1) /\ a % Size <= x /\ x < (a % Size) + l
      <4> HIDE DEF Size
      <4> QED BY <3>1, <3>3, <3>4
    <3>7. ~(o <= x /\ x < o + len)
      <4> SUFFICES ASSUME o <= x, x < o + len  PROVE FALSE
        OBVIOUS
      <4>1. (a % Size) + l <= Size /\ x \in Int
        BY <3>4, <3>6
      <4> HIDE DEF Size
      <4> QED BY <2>5, <2>8, <3>4, <3>5, <3>6, <4>1, StretchesApart
    <3>8. buffer'[x] = buffer[x]
      <4>1. o \in Int
        BY <2>5, <2>8, SizeFacts, DivisionFacts
      <4> QED BY <2>5, <2>8, <3>6, <3>7, <4>1
    <3> QED BY <2>3, <3>3, <3>8
  <2>11. Placed(p)'
    <3>1. (c + 1) + 1 = c + 2 /\ c + 1 \in 1..(c + 1)
      BY <1>14
    <3>2. ASSUME NEW k \in 1..(c + 1)
          PROVE  /\ Place(k)' = p[k] % Size
                 /\ Place(k)' + Underway(k)' .len <= Size
                 /\ \A b \in 1..Underway(k)' .len :
                      buffer'[Place(k)' + b - 1] = <<Underway(k)' .id, b>>
      <4>1. CASE k \in 1..c
        BY <1>18, <2>3, <2>5, <2>10, <4>1
      <4>2. CASE k = c + 1
        <5>1. p[k] = last
          BY <2>5, <3>1, <4>2 DEF last
        <5> QED BY <1>8, <1>19, <2>8, <4>2, <5>1
      <4> QED BY <1>14, <4>1, <4>2
    <3>3. offset' % Size = p[c + 2] % Size /\ NextPlace' = p[c + 2] % Size
      BY <1>20, <2>5, <2>8, <2>9
    <3> QED BY <1>17, <3>1, <3>2, <3>3 DEF Placed
  <2> QED BY <2>6, <2>11
<1> QED BY <1>9, <1>10, <1>11, <1>13, <1>21, <1>22 DEF IInv

(***************************************************************************)
(* What was registered is given to the hardware.                           *)
(***************************************************************************)
LEMMA QueueStep ==
  ASSUME IInv, st.data # <<>>, HwQueue(Handed(st)),
         st' \in StateType, st'.data = <<>>, st'.curr_offset = QueuedOf(st).offset,
         UNCHANGED <<offset, buffer, nextId>>, OtherTypes', "started" \in history',
         Live' => Live, "crossed" \notin history' => "crossed" \notin history
  PROVE  IInv'
<1>1. st \in StateType /\ HwType /\ OtherTypes /\ PayloadsInBuffer /\ BeforeStart
  BY DEF IInv
<1> DEFINE n == Len(ring)
           m == Len(st.data)
           c == Count
           h == Handed(st)
<1>2. /\ n \in Nat /\ m \in Nat /\ c = n + m
      /\ \A k \in 1..c : Underway(k) \in Packets /\ Underway(k).len \in 0..BytesPerPayload
  BY <1>1, UnderwayFacts DEF Count
<1>3. /\ h \in Seq(Queued) /\ Len(h) = m /\ Inside(h)
      /\ \A k \in 1..m : h[k].e = st.data[k]
  BY <1>1, HandedType
<1>4. /\ HwType' /\ PayloadsInBuffer'
      /\ Len(ring') = n + m
      /\ \A k \in 1..n : ring'[k] = ring[k]
      /\ \A k \in (n + 1)..(n + m) : ring'[k] = h[k - n]
  BY <1>1, <1>3, HwQueueType
<1>5. Count' = c
  <2>1. Len(st'.data) = 0
    OBVIOUS
  <2> QED BY <1>2, <1>4, <2>1 DEF Count
<1>6. BeforeStart'
  BY DEF BeforeStart
<1> HIDE DEF h, n, m, c
<1>7. ASSUME NEW k \in 1..c  PROVE Underway(k)' = Underway(k)
  <2>1. k <= Len(ring')
    BY <1>2, <1>4
  <2>2. CASE k <= n
    <3>1. k \in 1..n
      BY <1>2, <2>2
    <3> QED BY <1>4, <2>1, <2>2, <3>1 DEF Underway, n
  <2>3. CASE ~(k <= n)
    <3>1. k \in (n + 1)..(n + m) /\ k - n \in 1..m
      BY <1>2, <2>3
    <3> QED BY <1>3, <1>4, <2>1, <2>3, <3>1 DEF Underway, n
  <2> QED BY <2>2, <2>3
<1>8. InOrder'
  <2> SUFFICES ASSUME Live', NEW k \in 1..Count'
               PROVE  /\ k > 1 => Underway(k)' .id = (Underway(k - 1)' .id + 1) % Ids
                      /\ k = Count' => nextId' = (Underway(k)' .id + 1) % Ids
    BY DEF InOrder
  <2>1. /\ k > 1 => Underway(k).id = (Underway(k - 1).id + 1) % Ids
        /\ k = c => nextId = (Underway(k).id + 1) % Ids
    BY <1>5 DEF IInv, InOrder, c
  <2>2. k \in 1..c /\ (k > 1 => k - 1 \in 1..c)
    BY <1>2, <1>5
  <2> QED BY <1>5, <1>7, <2>1, <2>2
<1>9. InPlace'
  <2> SUFFICES ASSUME MaxOutstanding <= PayloadsPerBuffer, Live', "crossed" \notin history'
               PROVE  \E pos : Positions(pos)' /\ Placed(pos)'
    BY DEF InPlace
  <2>1. PICK pos : Positions(pos) /\ Placed(pos)
    BY DEF IInv, InPlace
  <2>2. \A k \in 1..c : /\ Place(k) = pos[k] % Size
                        /\ Place(k) + Underway(k).len <= Size
                        /\ \A b \in 1..Underway(k).len :
                             buffer[Place(k) + b - 1] = <<Underway(k).id, b>>
    BY <2>1 DEF Placed, c
  <2>3. ASSUME NEW j \in 1..m
        PROVE  /\ n + j \in 1..c /\ ~(n + j <= n) /\ (n + j) - n = j
               /\ Place(n + j) = (st.curr_offset + Bytes(st.data, j - 1)) % Size
               /\ Underway(n + j) = st.data[j]
    <3>1. n + j \in 1..c /\ ~(n + j <= n) /\ (n + j) - n = j
      BY <1>2
    <3> QED BY <3>1 DEF Place, Behind, Underway, n
  <2>4. \A j \in 1..m :
          ((st.curr_offset + Bytes(st.data, j - 1)) % Size) + st.data[j].len <= Size
    BY <2>2, <2>3
  <2>5. /\ QueuedOf(st).offset = NextPlace
        /\ \A j \in 1..m : h[j].at = (st.curr_offset + Bytes(st.data, j - 1)) % Size
    BY <1>1, <2>4, HandedPlaces DEF NextPlace, h, m
  <2>6. ASSUME NEW k \in 1..c  PROVE Place(k)' = Place(k)
    <3>1. k <= Len(ring')
      BY <1>2, <1>4
    <3>2. CASE k <= n
      <4>1. k \in 1..n
        BY <1>2, <3>2
      <4> QED BY <1>4, <3>1, <3>2, <4>1 DEF Place, n
    <3>3. CASE ~(k <= n)
      <4>1. k \in (n + 1)..(n + m) /\ k - n \in 1..m /\ n + (k - n) = k
        BY <1>2, <3>3
      <4>2. Place(k)' = h[k - n].at
        BY <1>4, <3>1, <4>1 DEF Place
      <4>3. Place(k) = h[k - n].at
        BY <2>3, <2>5, <4>1
      <4> QED BY <4>2, <4>3
    <3> QED BY <3>2, <3>3
  <2>7. NextPlace' = NextPlace
    <3>1. st'.curr_offset \in 0..(Size - 1) /\ IsEntries(st'.data)
      BY DEF StateType, StateRecords, IsEntries
    <3>2. Bytes(st'.data, 0) = 0 /\ Len(st'.data) = 0
      BY <3>1, BytesFacts
    <3>3. NextPlace' = st'.curr_offset % Size
      BY <3>1, <3>2, SizeFacts DEF NextPlace
    <3> QED BY <2>5, <3>1, <3>3, SizeFacts, RemainderSmall
  <2>8. Positions(pos)'
    BY <1>5, <1>7, <2>1 DEF Positions, c
  <2>9. Placed(pos)'
    BY <1>5, <1>7, <2>1, <2>2, <2>6, <2>7 DEF Placed, c
  <2> QED BY <2>8, <2>9
<1> QED BY <1>4, <1>6, <1>8, <1>9 DEF IInv

LEMMA StartStep == ASSUME IInv, Start  PROVE IInv'
<1>1. st \in StateType /\ HwType /\ OtherTypes /\ PayloadsInBuffer /\ BeforeStart
  BY DEF IInv
<1>2. /\ history' = history \cup {"started"}
                       \cup (IF "started" \in history THEN {"reused"} ELSE {})
      /\ UNCHANGED <<offset, buffer, attached, handling, nextId>>
  BY DEF Start, Did
<1>3. st.data # <<>>
  <2>1. st.data_length # 0
    BY DEF Start, StartError
  <2> QED BY <1>1, <2>1 DEF StateType
<1>4. OtherTypes'
  BY <1>1, <1>2 DEF OtherTypes
<1>5. Live' => "started" \notin history /\ Live /\ ~st.running
  BY <1>1, <1>2 DEF Live, Fresh, BeforeStart
<1>6. "crossed" \notin history' => "crossed" \notin history
  BY <1>2
<1>7. CASE /\ \E packets \in HandedBeforeFailure(st) : HwQueue(packets)
           /\ UNCHANGED st
  <2>1. PICK packets \in HandedBeforeFailure(st) : HwQueue(packets)
    BY <1>7
  <2>2. HwType' /\ PayloadsInBuffer'
    BY <1>1, <1>3, <2>1, BeforeFailureType, HwQueueType
  <2>3. BeforeStart' /\ ~Live'
    BY <1>2, <1>5, <1>7 DEF BeforeStart, Live
  <2> QED BY <1>1, <1>4, <1>7, <2>2, <2>3, HaltedStep
<1>8. CASE HwQueue(Handed(st)) /\ st' = StateQueued(st)
  <2>1. HwType' /\ PayloadsInBuffer'
    BY <1>1, <1>8, HandedType, HwQueueType
  <2>2. st' \in StateType /\ st'.running = st.running
    BY <1>1, <1>3, <1>8, QueuedEffect
  <2>3. BeforeStart' /\ ~Live'
    BY <1>2, <1>5, <2>2 DEF BeforeStart, Live
  <2> QED BY <1>4, <2>1, <2>2, <2>3, HaltedStep
<1>9. CASE HwQueue(Handed(st)) /\ st' = StateStarted(StateQueued(st))
  <2>1. /\ st' \in StateType /\ st'.data = <<>>
        /\ st'.curr_offset = QueuedOf(st).offset
    BY <1>1, <1>3, <1>9, QueuedEffect, StartedEffect
  <2> QED BY <1>2, <1>3, <1>4, <1>5, <1>6, <1>9, <2>1, QueueStep
<1> QED BY <1>7, <1>8, <1>9 DEF Start

LEMMA HandlerReturnsStep == ASSUME IInv, HandlerReturns  PROVE IInv'
<1>1. st \in StateType /\ HwType /\ OtherTypes /\ PayloadsInBuffer /\ BeforeStart
  BY DEF IInv
<1>2. "started" \in history /\ UNCHANGED <<offset, buffer, nextId, history>>
  BY <1>1 DEF HandlerReturns, BeforeStart
<1>3. OtherTypes'
  BY <1>1 DEF OtherTypes, HandlerReturns
<1>4. CASE HwQueue(Handed(st)) /\ st' = (IF st.data = <<>> THEN st ELSE StateQueued(st))
  <2>1. CASE st.data = <<>>
    <3>1. st' = st /\ Handed(st) = <<>>
      BY <1>4, <2>1, NothingQueued
    <3>2. /\ ring' = ring /\ HwType' /\ PayloadsInBuffer'
      <4>1. ring \in Seq(Queued) /\ ring' = ring \o <<>> /\ done' = done /\ reported' = reported
        BY <1>1, <1>4, <3>1 DEF HwQueue, HwType
      <4>2. ring' = ring
        BY <4>1
      <4> QED BY <1>1, <4>1, <4>2 DEF HwType, PayloadsInBuffer
    <3> QED BY <1>1, <1>2, <1>3, <3>1, <3>2, CalmStep
  <2>2. CASE st.data # <<>>
    <3>1. /\ st' \in StateType /\ st'.data = <<>> /\ st'.running = st.running
          /\ st'.curr_offset = QueuedOf(st).offset
      BY <1>1, <1>4, <2>2, QueuedEffect
    <3>2. Live' = Live
      BY <1>2, <3>1 DEF Live, Fresh
    <3> QED BY <1>2, <1>3, <1>4, <2>2, <3>1, <3>2, QueueStep
  <2> QED BY <2>1, <2>2
<1>5. CASE /\ st.data # <<>> /\ st' = StateStop(st)
           /\ IF st.running
              THEN HwStop
              ELSE \E packets \in HandedBeforeFailure(st) : HwQueue(packets)
  <2>1. HwType' /\ PayloadsInBuffer'
    <3>1. CASE st.running
      BY <1>1, <1>5, <3>1, HwStopType
    <3>2. CASE ~st.running
      <4>1. PICK packets \in HandedBeforeFailure(st) : HwQueue(packets)
        BY <1>5, <3>2
      <4> QED BY <1>1, <1>5, <4>1, BeforeFailureType, HwQueueType
    <3> QED BY <3>1, <3>2
  <2>2. st' \in StateType /\ ~st'.running
    BY <1>1, <1>5, StopEffect
  <2>3. BeforeStart' /\ ~Live'
    BY <1>2, <2>2 DEF BeforeStart, Live
  <2> QED BY <1>3, <2>1, <2>2, <2>3, HaltedStep
<1> QED BY <1>4, <1>5 DEF HandlerReturns

(***************************************************************************)
(* The inductive invariant.                                                *)
(***************************************************************************)
LEMMA NextIInv == IInv /\ [Next]_vars => IInv'
<1> SUFFICES ASSUME IInv, [Next]_vars  PROVE IInv'
  OBVIOUS
<1>1. CASE Allocate \/ CreateSource \/ DestroySource \/ HwSend \/ HwInterrupt
  BY <1>1, CalmSteps
<1>2. CASE MapBuffer
  BY <1>2, MapBufferStep
<1>3. CASE RegisterPacket
  BY <1>3, RegisterPacketStep
<1>4. CASE Start
  BY <1>4, StartStep
<1>5. CASE Stop
  BY <1>5, StopStep
<1>6. CASE UnmapBuffer \/ Release
  BY <1>6, UnmapSteps
<1>7. CASE Dispatch
  BY <1>7, DispatchStep
<1>8. CASE HandlerReturns
  BY <1>8, HandlerReturnsStep
<1>9. CASE UNCHANGED vars
  BY <1>9, StutterStep
<1> QED BY <1>1, <1>2, <1>3, <1>4, <1>5, <1>6, <1>7, <1>8, <1>9 DEF Next, Call

LEMMA SpecIInv == Spec => []IInv
  BY InitIInv, NextIInv, PTL DEF Spec

-----------------------------------------------------------------------------
\* The structure, the queue of the hardware, the buffer and the private offset keep
\* to their ranges whatever the program does.
THEOREM TypeCorrect == Spec => []TypeOK
<1>1. IInv => TypeOK
  BY DEF IInv, StateType, StateRecords, HwType, OtherTypes, TypeOK, Queued
<1> QED BY <1>1, SpecIInv, PTL

\* No packet has the hardware read behind the end of the buffer, restarts and
\* crossing payloads included.
THEOREM HardwareStaysInBuffer == Spec => []PayloadsInBuffer
<1>1. IInv => PayloadsInBuffer
  BY DEF IInv
<1> QED BY <1>1, SpecIInv, PTL

\* In the first run no packet is queued twice, lost or overtaken, at whatever point
\* a call fails and whatever the lengths of the payloads are.
THEOREM PacketsQueuedInOrder == Spec => []QueuedInOrder
<1>1. IInv => QueuedInOrder
  <2> SUFFICES ASSUME IInv, "reused" \notin history, st.running, NEW k \in 2..Len(ring)
               PROVE  ring[k].e.id = (ring[k - 1].e.id + 1) % Ids
    BY DEF QueuedInOrder
  <2>1. /\ Len(ring) \in Nat /\ Len(st.data) \in Nat /\ Count \in Nat
    BY UnderwayFacts DEF IInv
  <2>2. /\ k \in 1..Count /\ k > 1 /\ k <= Len(ring) /\ k - 1 <= Len(ring)
    BY <2>1 DEF Count
  <2>3. Underway(k).id = (Underway(k - 1).id + 1) % Ids
    BY <2>2 DEF IInv, InOrder, Live, Fresh
  <2> QED BY <2>2, <2>3 DEF Underway
<1> QED BY <1>1, SpecIInv, PTL

\* As long as no registered payload crosses the end of the buffer, the hardware
\* finds what was registered where it was told to look, in the whole first run, if
\* no more packets are outstanding than the buffer has room for.
THEOREM AlignedRunIsSent ==
  ASSUME MaxOutstanding <= PayloadsPerBuffer
  PROVE  Spec => []AlignedRunSendsPayloads
<1>1. IInv => AlignedRunSendsPayloads
  <2> SUFFICES ASSUME IInv, history \cap {"reused", "crossed"} = {}, st.running,
                      NEW k \in (done + 1)..Len(ring), NEW b \in 1..ring[k].e.len
               PROVE  buffer[ring[k].at + b - 1] = <<ring[k].e.id, b>>
    BY DEF AlignedRunSendsPayloads, SentAsRegistered
  <2>1. Len(ring) \in Nat /\ Len(st.data) \in Nat /\ done \in 0..Len(ring)
    BY UnderwayFacts DEF IInv, HwType
  <2>2. k \in 1..Count /\ k <= Len(ring)
    BY <2>1 DEF Count
  <2>3. Underway(k) = ring[k].e /\ Place(k) = ring[k].at
    BY <2>2 DEF Underway, Place
  <2>4. PICK pos : Placed(pos)
    BY DEF IInv, InPlace, Live, Fresh
  <2> QED BY <2>2, <2>3, <2>4 DEF Placed
<1> QED BY <1>1, SpecIInv, PTL
=============================================================================
