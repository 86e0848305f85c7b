------------------------ MODULE FwIsoIrSingleProofs ------------------------
(***************************************************************************)
(* Proofs about FwIsoIrSingle, for a buffer of any number of chunks.       *)
(*                                                                         *)
(* The cursor of the library and the ring of the hardware meet only in the *)
(* handler, and they agree there because of where every chunk on its way   *)
(* is: the chunks of the event in the handler, then those filled, then,    *)
(* as long as the context runs, those queued and the offset of the next    *)
(* chunk to queue follow each other around the buffer, beginning at the    *)
(* cursor.  IInv says so; it is needed because the property itself speaks  *)
(* of none of the chunks that are not in the handler yet.                  *)
(***************************************************************************)
EXTENDS FwIsoIrSingle, FwIsoCtxQueueProofs

Fresh == "reused" \notin history

\* The chunk that is to hold packet number i of those after the event in the
\* handler.
Place(i) == (chunk_cursor + Len(ev) + (i - 1)) % ChunksPerBuffer

SizeKnown ==
  /\ st.addr # "mapped" => st.data = <<>>
  /\ ring # <<>> \/ ev # <<>> => st.chunks_per_buffer = ChunksPerBuffer

MarksInOrder ==
  /\ \A i \in DOMAIN marks : marks[i] <= done
  /\ \A i, j \in DOMAIN marks : i < j => marks[i] < marks[j]

BeforeStart ==
  "started" \notin history =>
    /\ ring = <<>> /\ ev = <<>> /\ marks = <<>>
    /\ chunk_cursor = 0 /\ st.curr_offset = 0 /\ ~st.running

HandledInPlace ==
  Fresh => \A i \in 1..Len(ev) :
             ev[i] = (chunk_cursor + (i - 1)) % ChunksPerBuffer

FilledInPlace == Fresh => \A i \in 1..done : ring[i] = Place(i)

QueuedInPlace ==
  Fresh /\ st.running =>
    /\ \A i \in 1..Len(ring) : ring[i] = Place(i)
    /\ st.curr_offset = Place(Len(ring) + 1)

Outstanding ==
  /\ Fresh /\ (st.running \/ "started" \notin history) =>
       Len(st.data) + Len(ring) <= MaxOutstanding
  /\ Fresh /\ st.running => Len(ev) + Len(ring) <= MaxOutstanding

IInv == /\ TypeOK
        /\ SizeKnown
        /\ MarksInOrder
        /\ BeforeStart
        /\ HandledInPlace
        /\ FilledInPlace
        /\ QueuedInPlace
        /\ Outstanding

USE FwIsoIrSingleAssumption

-----------------------------------------------------------------------------
(***************************************************************************)
(* What the operators of FwIsoCtxState do to the fields the argument is    *)
(* about.                                                                  *)
(***************************************************************************)
LEMMA ZeroAndEmpty ==
  /\ 0 \in Chunks /\ 0 \in 0..(MaxInt - 1)
  /\ <<>> \in Seq({"chunk"})
  /\ 0 % ChunksPerBuffer = 0
<1>1. 0 % ChunksPerBuffer = 0
  BY RemainderSmall
<1> QED
  BY <1>1 DEF Chunks

LEMMA InitEffect ==
  /\ StateInit("IR_SINGLE", 1) \in StateType
  /\ StateInit("IR_SINGLE", 1).data = <<>>
  /\ StateInit("IR_SINGLE", 1).data_length = 0
  /\ StateInit("IR_SINGLE", 1).addr = "null"
  /\ StateInit("IR_SINGLE", 1).curr_offset = 0
  /\ ~StateInit("IR_SINGLE", 1).running
  BY ZeroAndEmpty DEF StateInit, StateType

LEMMA OpenCloseEffect ==
  ASSUME NEW s \in StateType, NEW t \in {StateAllocate(s), StateRelease(s)}
  PROVE  /\ t \in StateType
         /\ t.data = s.data /\ t.data_length = s.data_length
         /\ t.addr = s.addr /\ t.chunks_per_buffer = s.chunks_per_buffer
         /\ t.curr_offset = s.curr_offset /\ t.running = s.running
  BY DEF StateAllocate, StateRelease, StateType

LEMMA StartedEffect ==
  ASSUME NEW s \in StateType
  PROVE  /\ StateStarted(s) \in StateType
         /\ StateStarted(s).data = s.data
         /\ StateStarted(s).data_length = s.data_length
         /\ StateStarted(s).addr = s.addr
         /\ StateStarted(s).chunks_per_buffer = s.chunks_per_buffer
         /\ StateStarted(s).curr_offset = s.curr_offset
         /\ StateStarted(s).running
  BY DEF StateStarted, StateType

LEMMA StopEffect ==
  ASSUME NEW s \in StateType
  PROVE  /\ StateStop(s) \in StateType
         /\ StateStop(s).data = IF s.running THEN <<>> ELSE s.data
         /\ StateStop(s).data_length = IF s.running THEN 0 ELSE s.data_length
         /\ StateStop(s).addr = s.addr
         /\ StateStop(s).chunks_per_buffer = s.chunks_per_buffer
         /\ StateStop(s).curr_offset = IF s.running THEN 0 ELSE s.curr_offset
         /\ ~StateStop(s).running
<1>1. CASE ~s.running
  BY <1>1 DEF StateStop, StateType
<1>2. CASE s.running
  <2>1. StateStop(s) \in StateType
    BY <1>2, ZeroAndEmpty DEF StateStop, StateType
  <2>2. StateStop(s).data = <<>> /\ StateStop(s).data_length = 0
    BY <1>2 DEF StateStop, StateType
  <2> QED
    BY <1>2, <2>1, <2>2 DEF StateStop, StateType
<1> QED
  BY <1>1, <1>2 DEF StateType

LEMMA UnmapEffect ==
  ASSUME NEW s \in StateType, s.data = <<>>
  PROVE  /\ StateUnmapBuffer(s) \in StateType
         /\ StateUnmapBuffer(s).data = <<>>
         /\ StateUnmapBuffer(s).data_length = s.data_length
         /\ StateUnmapBuffer(s).addr = "null"
         /\ StateUnmapBuffer(s).chunks_per_buffer = s.chunks_per_buffer
         /\ StateUnmapBuffer(s).curr_offset = s.curr_offset
         /\ StateUnmapBuffer(s).running = s.running
<1>1. Forget(s.data) = <<>>
  BY DEF Forget
<1>2. StateUnmapBuffer(s) = [s EXCEPT !.addr = "null", !.data = <<>>]
  BY <1>1 DEF StateUnmapBuffer
<1> QED
  BY <1>2, ZeroAndEmpty DEF StateType

LEMMA MapEffect ==
  ASSUME NEW s \in StateType, s.data = <<>>,
         NEW t \in {StateMapBuffer(s, 1, ChunksPerBuffer),
                    StateMapFailed(s, ChunksPerBuffer)}
  PROVE  /\ t \in StateType
         /\ t.data = <<>> /\ t.data_length = s.data_length
         /\ t.chunks_per_buffer \in {s.chunks_per_buffer, ChunksPerBuffer}
         /\ t.addr = "mapped" => t.chunks_per_buffer = ChunksPerBuffer
         /\ t.curr_offset = s.curr_offset /\ t.running = s.running
<1>1. Forget(s.data) = <<>> /\ DatumSize(s) = 1
  BY DEF Forget, DatumSize, StateType
<1> DEFINE m == [s EXCEPT !.data = <<>>, !.alloc_data_length = ChunksPerBuffer]
<1>2. MallocData(s, ChunksPerBuffer) = m
  <2>1. ChunksPerBuffer * DatumSize(s) = ChunksPerBuffer
    BY <1>1
  <2> QED
    BY <1>1, <2>1 DEF MallocData
<1>3. m \in StateType
  BY ZeroAndEmpty DEF StateType
<1>4. m.data = <<>> /\ m.data_length = s.data_length /\ m.running = s.running
      /\ m.curr_offset = s.curr_offset
      /\ m.chunks_per_buffer = s.chunks_per_buffer
  BY DEF StateType
<1> HIDE DEF m
<1>5. CASE t = StateMapFailed(s, ChunksPerBuffer)
  BY <1>2, <1>3, <1>4, <1>5 DEF StateMapFailed, StateType
<1>6. CASE t = StateMapBuffer(s, 1, ChunksPerBuffer)
  BY <1>2, <1>3, <1>4, <1>6 DEF StateMapBuffer, StateType
<1> QED
  BY <1>5, <1>6

LEMMA RegisterEffect ==
  ASSUME NEW s \in StateType
  PROVE  LET t == StateRegisterChunk(s, "chunk", 0)
         IN  /\ t \in StateType
             /\ t.data = Append(s.data, "chunk")
             /\ t.data_length = s.data_length + 1
             /\ t.addr = s.addr /\ t.chunks_per_buffer = s.chunks_per_buffer
             /\ t.curr_offset = s.curr_offset /\ t.running = s.running
<1>1. Append(s.data, "chunk") \in Seq({"chunk"})
  BY DEF StateType
<1>2. s.data_length + 1 + 0 \in Nat /\ s.data_length + 1 + 0 = s.data_length + 1
  BY DEF StateType
<1> QED
  BY <1>1, <1>2 DEF StateRegisterChunk, StateType

LEMMA DrainedEffect ==
  ASSUME NEW s \in StateType, s.chunks_per_buffer = ChunksPerBuffer
  PROVE  LET t == StateIrDrained(s)
         IN  /\ t \in StateType
             /\ t.data = <<>> /\ t.data_length = 0
             /\ t.addr = s.addr /\ t.chunks_per_buffer = s.chunks_per_buffer
             /\ t.curr_offset = (s.curr_offset + Len(s.data)) % ChunksPerBuffer
             /\ t.running = s.running
<1> DEFINE offset == (s.curr_offset + Len(s.data)) % ChunksPerBuffer
           t == [s EXCEPT !.curr_offset = offset, !.data = <<>>, !.data_length = 0]
<1>1. s.curr_offset + Len(s.data) \in Int
  BY DEF StateType, Chunks
<1>2. offset \in Chunks
  BY <1>1, DivisionFacts DEF Chunks
<1>3. StateIrDrained(s) = t
  BY DEF StateIrDrained, StateDrained, IrChunk
<1> HIDE DEF offset
<1>4. t \in StateType
  BY <1>2, ZeroAndEmpty DEF StateType
<1>5. t.data = <<>> /\ t.data_length = 0 /\ t.curr_offset = offset
  BY DEF StateType
<1>6. t.addr = s.addr /\ t.chunks_per_buffer = s.chunks_per_buffer
      /\ t.running = s.running
  BY DEF StateType
<1> QED
  BY <1>3, <1>4, <1>5, <1>6 DEF offset

-----------------------------------------------------------------------------
(***************************************************************************)
(* The invariant holds at first, and each action preserves it.             *)
(***************************************************************************)
LEMMA InitIInv == Init => IInv
<1> SUFFICES ASSUME Init PROVE IInv
  OBVIOUS
<1>1. TypeOK
  <2>1. st \in StateType /\ st.data_length = Len(st.data)
        /\ st.data_length <= ChunksPerBuffer /\ st.addr # "mapped"
    BY InitEffect DEF Init
  <2>2. ev \in Seq(Chunks) /\ ring \in Seq(Chunks) /\ done \in 0..Len(ring)
        /\ marks \in Seq(1..Len(ring))
    BY DEF Init
  <2> QED
    BY <2>1, <2>2, ZeroAndEmpty DEF Init, TypeOK
<1>2. SizeKnown /\ MarksInOrder /\ BeforeStart
  BY InitEffect DEF Init, SizeKnown, MarksInOrder, BeforeStart
<1>3. HandledInPlace /\ FilledInPlace /\ QueuedInPlace /\ Outstanding
  BY InitEffect DEF Init, HandledInPlace, FilledInPlace, QueuedInPlace,
                    Outstanding
<1> QED
  BY <1>1, <1>2, <1>3 DEF IInv

\* Where the chunks are depends on these variables and two fields only.
LEMMA SamePlaces ==
  ASSUME IInv, UNCHANGED <<chunk_cursor, ev, ring, done, marks>>,
         history' \in {history, history \cup {"mapped"},
                      history \cup {"mapped"} \cup {"reused"},
                      history \cup {"mapped"} \cup {}},
         st'.curr_offset = st.curr_offset, st'.running = st.running
  PROVE  /\ MarksInOrder' /\ BeforeStart' /\ HandledInPlace'
         /\ FilledInPlace' /\ QueuedInPlace'
<1>1. Fresh' => Fresh
  BY DEF Fresh
<1>2. "started" \notin history' => "started" \notin history
  OBVIOUS
<1>3. MarksInOrder' /\ BeforeStart'
  BY <1>2 DEF IInv, MarksInOrder, BeforeStart
<1>4. HandledInPlace' /\ FilledInPlace' /\ QueuedInPlace'
  BY <1>1 DEF IInv, HandledInPlace, FilledInPlace, QueuedInPlace, Place
<1> QED
  BY <1>3, <1>4

LEMMA AllocateStep == ASSUME IInv, Allocate PROVE IInv'
<1>1. st' = StateAllocate(st) /\ st \in StateType
  BY DEF Allocate, IInv, TypeOK
<1>2. st' \in StateType /\ st'.data = st.data
      /\ st'.data_length = st.data_length /\ st'.addr = st.addr
      /\ st'.chunks_per_buffer = st.chunks_per_buffer
      /\ st'.curr_offset = st.curr_offset /\ st'.running = st.running
  BY <1>1, OpenCloseEffect
<1>3. TypeOK' /\ SizeKnown' /\ Outstanding'
  BY <1>2 DEF Allocate, IInv, TypeOK, SizeKnown, Outstanding, Fresh
<1> QED
  BY <1>2, <1>3, SamePlaces DEF Allocate, IInv

LEMMA MapBufferStep == ASSUME IInv, MapBuffer PROVE IInv'
<1>1. st \in StateType /\ st.data = <<>> /\ st.addr # "mapped"
  BY DEF MapBuffer, MapBufferError, IInv, TypeOK, SizeKnown, StateType
<1>2. st' \in {StateMapBuffer(st, 1, ChunksPerBuffer),
               StateMapFailed(st, ChunksPerBuffer)}
  BY DEF MapBuffer
<1>3. /\ st' \in StateType
      /\ st'.data = <<>> /\ st'.data_length = st.data_length
      /\ st'.chunks_per_buffer \in {st.chunks_per_buffer, ChunksPerBuffer}
      /\ st'.addr = "mapped" => st'.chunks_per_buffer = ChunksPerBuffer
      /\ st'.curr_offset = st.curr_offset /\ st'.running = st.running
  BY <1>1, <1>2, MapEffect
<1>4. history' \in {history, history \cup {"mapped"} \cup {"reused"},
                   history \cup {"mapped"} \cup {}}
  BY DEF MapBuffer, Did
<1>5. UNCHANGED <<chunk_cursor, ev, attached, ring, done, marks>>
  BY DEF MapBuffer
<1>6. TypeOK'
  BY <1>1, <1>3, <1>4, <1>5 DEF IInv, TypeOK
<1>7. SizeKnown'
  BY <1>1, <1>3, <1>5 DEF IInv, SizeKnown
<1>8. Outstanding'
  BY <1>1, <1>3, <1>4, <1>5 DEF IInv, Outstanding, Fresh
<1> QED
  BY <1>3, <1>4, <1>5, <1>6, <1>7, <1>8, SamePlaces DEF IInv

LEMMA RegisterPacketStep == ASSUME IInv, RegisterPacket PROVE IInv'
<1>1. st \in StateType /\ st.addr = "mapped"
  BY DEF RegisterPacket, RegisterChunkError, IInv, TypeOK, StateType
<1>2. /\ st' \in StateType
      /\ st'.data = Append(st.data, "chunk")
      /\ st'.data_length = st.data_length + 1
      /\ st'.addr = st.addr /\ st'.chunks_per_buffer = st.chunks_per_buffer
      /\ st'.curr_offset = st.curr_offset /\ st'.running = st.running
  BY <1>1, RegisterEffect DEF RegisterPacket
<1>3. UNCHANGED <<chunk_cursor, ev, attached, ring, done, marks, history>>
  BY DEF RegisterPacket
<1>4. Len(st'.data) = Len(st.data) + 1
  BY <1>1, <1>2 DEF StateType
<1>5. st.data_length + 1 <= ChunksPerBuffer
  BY <1>1 DEF RegisterPacket, RoomFor, StateType
<1>6. TypeOK'
  BY <1>2, <1>3, <1>4, <1>5 DEF IInv, TypeOK
<1>7. SizeKnown'
  BY <1>1, <1>2, <1>3 DEF IInv, SizeKnown
<1>8. Outstanding'
  <2>1. Len(st.data) + 1 + Len(ring) <= MaxOutstanding
    BY <1>1 DEF RegisterPacket, StateType, IInv, TypeOK
  <2> QED
    BY <1>2, <1>3, <1>4, <2>1 DEF IInv, Outstanding, Fresh
<1> QED
  BY <1>2, <1>3, <1>6, <1>7, <1>8, SamePlaces DEF IInv

\* UNCHANGED history is more than SamePlaces asks for.
LEMMA SourceStep ==
  ASSUME IInv, CreateSource \/ DestroySource PROVE IInv'
<1>1. attached' \in BOOLEAN
      /\ UNCHANGED <<st, chunk_cursor, ev, ring, done, marks, history>>
  BY DEF CreateSource, DestroySource
<1>2. TypeOK' /\ SizeKnown' /\ Outstanding'
  BY <1>1 DEF IInv, TypeOK, SizeKnown, Outstanding, Fresh
<1> QED
  BY <1>1, <1>2, SamePlaces DEF IInv

LEMMA HwReceiveStep == ASSUME IInv, HwReceive PROVE IInv'
<1>1. st.running /\ done' = done + 1 /\ done < Len(ring)
      /\ UNCHANGED <<st, chunk_cursor, ev, attached, ring, marks, history>>
  BY DEF HwReceive
<1>2. TypeOK' /\ SizeKnown'
  BY <1>1 DEF IInv, TypeOK, SizeKnown
<1>3. MarksInOrder' /\ BeforeStart'
  BY <1>1 DEF IInv, TypeOK, MarksInOrder, BeforeStart
<1>4. FilledInPlace'
  BY <1>1 DEF IInv, TypeOK, FilledInPlace, QueuedInPlace, Fresh, Place
<1>5. HandledInPlace' /\ QueuedInPlace' /\ Outstanding'
  BY <1>1 DEF IInv, HandledInPlace, QueuedInPlace, Outstanding, Fresh, Place
<1> QED
  BY <1>2, <1>3, <1>4, <1>5 DEF IInv

LEMMA ReportedBound ==
  ASSUME TypeOK, MarksInOrder
  PROVE  /\ Reported \in 0..done
         /\ \A i \in DOMAIN marks : marks[i] <= Reported
  BY DEF TypeOK, MarksInOrder, Reported

LEMMA HwInterruptStep == ASSUME IInv, HwInterrupt PROVE IInv'
<1>1. st.running /\ done > Reported /\ marks' = Append(marks, done)
      /\ UNCHANGED <<st, chunk_cursor, ev, attached, ring, done, history>>
  BY DEF HwInterrupt, Raise
<1>2. done \in 1..Len(ring)
  BY <1>1, ReportedBound DEF IInv, TypeOK
<1>3. marks' \in Seq(1..Len(ring))
  BY <1>1, <1>2 DEF IInv, TypeOK
<1>4. TypeOK' /\ SizeKnown'
  BY <1>1, <1>3 DEF IInv, TypeOK, SizeKnown
<1>5. MarksInOrder'
  <2>1. \A i \in DOMAIN marks' :
          \/ i \in DOMAIN marks /\ marks'[i] = marks[i]
          \/ i = Len(marks) + 1 /\ marks'[i] = done
    BY <1>1 DEF IInv, TypeOK
  <2>2. \A i \in DOMAIN marks : marks[i] < done /\ i < Len(marks) + 1
    BY <1>1, ReportedBound DEF IInv, TypeOK
  <2>3. \A i \in DOMAIN marks' : marks'[i] <= done'
    BY <1>1, <2>1, <2>2 DEF IInv, TypeOK
  <2>4. ASSUME NEW i \in DOMAIN marks', NEW j \in DOMAIN marks', i < j
        PROVE  marks'[i] < marks'[j]
    <3>1. i \in DOMAIN marks /\ marks'[i] = marks[i]
      BY <2>1, <2>2, <2>4 DEF IInv, TypeOK
    <3>2. CASE j \in DOMAIN marks /\ marks'[j] = marks[j]
      BY <2>4, <3>1, <3>2 DEF IInv, MarksInOrder
    <3>3. CASE marks'[j] = done
      BY <2>2, <3>1, <3>3
    <3> QED
      BY <2>1, <3>2, <3>3
  <2> QED
    BY <2>3, <2>4 DEF MarksInOrder
<1>6. BeforeStart'
  BY <1>1 DEF IInv, BeforeStart
<1>7. HandledInPlace' /\ FilledInPlace' /\ QueuedInPlace' /\ Outstanding'
  BY <1>1 DEF IInv, HandledInPlace, FilledInPlace, QueuedInPlace, Outstanding,
              Fresh, Place
<1> QED
  BY <1>4, <1>5, <1>6, <1>7 DEF IInv

(***************************************************************************)
(* Stopping the hardware keeps the chunks in the events, the front of the  *)
(* ring; nothing is said of the rest of it while the context is stopped.   *)
(***************************************************************************)
LEMMA HwStopRing ==
  ASSUME TypeOK, MarksInOrder, HwStop
  PROVE  /\ ring' \in Seq(Chunks) /\ done' \in 0..Len(ring')
         /\ marks' \in Seq(1..Len(ring'))
         /\ MarksInOrder'
         /\ done' <= done /\ \A i \in 1..done' : ring'[i] = ring[i]
         /\ ring' # <<>> => ring # <<>>
<1>1. ring' = SubSeq(ring, 1, Reported) /\ done' = Reported /\ marks' = marks
  BY DEF HwStop
<1>2. Reported \in 0..done /\ \A i \in DOMAIN marks : marks[i] <= Reported
  BY ReportedBound
<1>3. Reported \in 0..Len(ring) /\ ring \in Seq(Chunks)
  BY <1>2 DEF TypeOK
<1>4. /\ ring' \in Seq(Chunks) /\ Len(ring') = Reported
      /\ \A i \in 1..Reported : ring'[i] = ring[i]
  BY <1>1, <1>3
<1>5. marks' \in Seq(1..Len(ring'))
  <2>1. marks \in Seq(1..Len(ring))
    BY DEF TypeOK
  <2>2. \A i \in 1..Len(marks) : marks[i] \in 1..Reported
    BY <1>2, <1>3, <2>1
  <2>3. marks \in Seq(1..Reported)
    BY <2>1, <2>2, <1>3
  <2> QED
    BY <1>1, <1>4, <2>3
<1>6. MarksInOrder'
  BY <1>1, <1>2 DEF MarksInOrder
<1> QED
  BY <1>1, <1>2, <1>3, <1>4, <1>5, <1>6

LEMMA HwStopParts ==
  ASSUME IInv, HwStop, UNCHANGED <<chunk_cursor, ev, history>>
  PROVE  /\ ring' \in Seq(Chunks) /\ done' \in 0..Len(ring')
         /\ marks' \in Seq(1..Len(ring'))
         /\ MarksInOrder' /\ HandledInPlace' /\ FilledInPlace'
         /\ ring' # <<>> => ring # <<>>
<1>1. /\ ring' \in Seq(Chunks) /\ done' \in 0..Len(ring')
      /\ marks' \in Seq(1..Len(ring')) /\ MarksInOrder'
      /\ done' <= done /\ \A i \in 1..done' : ring'[i] = ring[i]
      /\ ring' # <<>> => ring # <<>>
  BY HwStopRing DEF IInv
<1>2. HandledInPlace'
  BY DEF IInv, HandledInPlace, Fresh
<1>3. FilledInPlace'
  BY <1>1 DEF IInv, TypeOK, FilledInPlace, Fresh, Place
<1> QED
  BY <1>1, <1>2, <1>3

\* close() empties the ring of the hardware.
LEMMA HwCloseParts ==
  ASSUME IInv, HwClose, UNCHANGED <<chunk_cursor, ev, history>>
  PROVE  /\ ring' \in Seq(Chunks) /\ done' \in 0..Len(ring')
         /\ marks' \in Seq(1..Len(ring'))
         /\ MarksInOrder' /\ HandledInPlace' /\ FilledInPlace'
         /\ ring' = <<>>
<1>1. MarksInOrder' /\ FilledInPlace'
  BY DEF HwClose, MarksInOrder, FilledInPlace
<1>2. HandledInPlace'
  BY DEF IInv, HandledInPlace, Fresh
<1> QED
  BY <1>1, <1>2 DEF HwClose

\* The structure after stop and, where it follows, unmap_buffer.
LEMMA StopStep == ASSUME IInv, Stop PROVE IInv'
<1>1. st \in StateType /\ st' = StateStop(st)
      /\ UNCHANGED <<chunk_cursor, ev, attached, history>>
  BY DEF Stop, StopOr, IInv, TypeOK
<1>2. /\ st' \in StateType
      /\ st'.data = IF st.running THEN <<>> ELSE st.data
      /\ st'.data_length = IF st.running THEN 0 ELSE st.data_length
      /\ st'.addr = st.addr /\ st'.chunks_per_buffer = st.chunks_per_buffer
      /\ st'.curr_offset = IF st.running THEN 0 ELSE st.curr_offset
      /\ ~st'.running
  BY <1>1, StopEffect
<1>3. CASE st.running
  <2>1. HwStop
    BY <1>3 DEF Stop, StopOr
  <2>2. TypeOK' /\ SizeKnown'
    BY <1>1, <1>2, <1>3, <2>1, HwStopParts DEF IInv, TypeOK, SizeKnown
  <2>3. "started" \in history
    BY <1>3 DEF IInv, BeforeStart
  <2>4. BeforeStart' /\ QueuedInPlace' /\ Outstanding'
    BY <1>1, <1>2, <2>3 DEF BeforeStart, QueuedInPlace, Outstanding
  <2>5. MarksInOrder' /\ HandledInPlace' /\ FilledInPlace'
    BY <1>1, <2>1, HwStopParts
  <2> QED
    BY <2>2, <2>4, <2>5 DEF IInv
<1>4. CASE ~st.running
  <2>1. UNCHANGED <<ring, done, marks>>
    BY <1>4 DEF Stop, StopOr
  <2>2. TypeOK' /\ SizeKnown' /\ Outstanding'
    BY <1>1, <1>2, <1>4, <2>1 DEF IInv, TypeOK, SizeKnown, Outstanding, Fresh
  <2>3. st'.running = st.running
    BY <1>1, <1>2, <1>4 DEF StateType
  <2> QED
    BY <1>1, <1>2, <1>4, <2>1, <2>2, <2>3, SamePlaces DEF IInv
<1> QED
  BY <1>3, <1>4

(***************************************************************************)
(* unmap_buffer finds nothing registered that is not dropped by stop.      *)
(***************************************************************************)
LEMMA UnmappedState ==
  ASSUME IInv, MayUnmap,
         NEW t, t = StateUnmapBuffer(StateStop(st))
  PROVE  /\ t \in StateType /\ t.data = <<>> /\ t.data_length = 0
         /\ t.addr = "null" /\ t.chunks_per_buffer = st.chunks_per_buffer
         /\ t.curr_offset = IF st.running THEN 0 ELSE st.curr_offset
         /\ ~t.running
<1>1. st \in StateType /\ st.data_length = Len(st.data)
  BY DEF IInv, TypeOK
<1>2. /\ StateStop(st) \in StateType
      /\ StateStop(st).data = <<>> /\ StateStop(st).data_length = 0
      /\ StateStop(st).chunks_per_buffer = st.chunks_per_buffer
      /\ StateStop(st).curr_offset = IF st.running THEN 0 ELSE st.curr_offset
      /\ ~StateStop(st).running
  BY <1>1, StopEffect DEF MayUnmap
<1> QED
  BY <1>2, UnmapEffect

LEMMA UnmapBufferStep == ASSUME IInv, UnmapBuffer PROVE IInv'
<1>1. st' = StateUnmapBuffer(StateStop(st)) /\ MayUnmap
      /\ UNCHANGED <<chunk_cursor, ev, attached, history>>
  BY DEF UnmapBuffer, StopOr
<1>2. /\ st' \in StateType /\ st'.data = <<>> /\ st'.data_length = 0
      /\ st'.addr = "null" /\ st'.chunks_per_buffer = st.chunks_per_buffer
      /\ st'.curr_offset = IF st.running THEN 0 ELSE st.curr_offset
      /\ ~st'.running
  BY <1>1, UnmappedState
<1>3. CASE st.running
  <2>1. HwStop
    BY <1>3 DEF UnmapBuffer, StopOr
  <2>2. TypeOK' /\ SizeKnown'
    BY <1>1, <1>2, <2>1, HwStopParts DEF IInv, TypeOK, SizeKnown
  <2>3. "started" \in history
    BY <1>3 DEF IInv, BeforeStart
  <2>4. BeforeStart' /\ QueuedInPlace' /\ Outstanding'
    BY <1>1, <1>2, <2>3 DEF BeforeStart, QueuedInPlace, Outstanding
  <2>5. MarksInOrder' /\ HandledInPlace' /\ FilledInPlace'
    BY <1>1, <2>1, HwStopParts
  <2> QED
    BY <2>2, <2>4, <2>5 DEF IInv
<1>4. CASE ~st.running
  <2>1. UNCHANGED <<ring, done, marks>>
    BY <1>4 DEF UnmapBuffer, StopOr
  <2>2. st.data = <<>>
    BY <1>1, <1>4 DEF MayUnmap
  <2>3. TypeOK' /\ SizeKnown' /\ Outstanding'
    BY <1>1, <1>2, <1>4, <2>1, <2>2
       DEF IInv, TypeOK, SizeKnown, Outstanding, Fresh
  <2>4. st'.running = st.running
    BY <1>2, <1>4 DEF IInv, TypeOK, StateType
  <2> QED
    BY <1>1, <1>2, <1>4, <2>1, <2>3, <2>4, SamePlaces DEF IInv
<1> QED
  BY <1>3, <1>4

LEMMA ReleaseStep == ASSUME IInv, Release PROVE IInv'
<1> DEFINE u == StateUnmapBuffer(StateStop(st))
<1>1. st' = StateRelease(u) /\ MayUnmap /\ HwClose /\ attached' = FALSE
      /\ UNCHANGED <<chunk_cursor, ev, history>>
  BY DEF Release
<1>2. /\ u \in StateType /\ u.data = <<>> /\ u.data_length = 0
      /\ u.addr = "null" /\ u.chunks_per_buffer = st.chunks_per_buffer
      /\ u.curr_offset = IF st.running THEN 0 ELSE st.curr_offset
      /\ ~u.running
  BY <1>1, UnmappedState
<1> HIDE DEF u
<1>3. /\ st' \in StateType /\ st'.data = <<>> /\ st'.data_length = 0
      /\ st'.addr = "null" /\ st'.chunks_per_buffer = st.chunks_per_buffer
      /\ st'.curr_offset = IF st.running THEN 0 ELSE st.curr_offset
      /\ st'.running = u.running
  BY <1>1, <1>2, OpenCloseEffect
<1>4. TypeOK' /\ SizeKnown'
  <2>1. /\ ring' \in Seq(Chunks) /\ done' \in 0..Len(ring')
        /\ marks' \in Seq(1..Len(ring')) /\ ring' = <<>>
    BY <1>1, HwCloseParts
  <2>2. st'.data_length = Len(st'.data) /\ st'.data_length <= ChunksPerBuffer
        /\ st'.addr # "mapped"
    BY <1>3
  <2>3. TypeOK'
    BY <1>1, <1>3, <2>1, <2>2 DEF IInv, TypeOK
  <2> QED
    BY <1>1, <1>3, <2>1, <2>3 DEF IInv, SizeKnown
<1>5. ~st'.running
  BY <1>2, <1>3
<1>6. BeforeStart'
  BY <1>1, <1>3, <1>5 DEF IInv, BeforeStart, HwClose
<1>7. QueuedInPlace' /\ Outstanding'
  <2>1. Len(st'.data) = 0 /\ Len(ring') = 0 /\ MaxOutstanding \in Nat
    BY <1>1, <1>3, HwCloseParts
  <2> QED
    BY <1>5, <2>1 DEF QueuedInPlace, Outstanding
<1>8. MarksInOrder' /\ HandledInPlace' /\ FilledInPlace'
  BY <1>1, HwCloseParts
<1> QED
  BY <1>4, <1>6, <1>7, <1>8 DEF IInv

LEMMA JoinSequences ==
  ASSUME NEW S, NEW s \in Seq(S), NEW t \in Seq(S)
  PROVE  /\ s \o t \in Seq(S)
         /\ Len(s \o t) = Len(s) + Len(t)
         /\ \A i \in 1..Len(s) : (s \o t)[i] = s[i]
         /\ \A i \in 1..Len(t) : (s \o t)[Len(s) + i] = t[i]
  OBVIOUS

LEMMA ShiftMarks ==
  ASSUME NEW n \in Nat, NEW m \in Seq(1..n), m # <<>>,
         \A i, j \in DOMAIN m : i < j => m[i] < m[j],
         NEW t, t = [i \in 1..(Len(m) - 1) |-> m[i + 1] - m[1]]
  PROVE  /\ m[1] \in 1..n
         /\ t \in Seq(1..(n - m[1]))
         /\ DOMAIN t = 1..(Len(m) - 1)
         /\ \A i \in DOMAIN t : t[i] = m[i + 1] - m[1] /\ i + 1 \in DOMAIN m
<1>1. Len(m) \in Nat /\ Len(m) > 0 /\ DOMAIN m = 1..Len(m)
      /\ \A i \in 1..Len(m) : m[i] \in 1..n
  OBVIOUS
<1>2. m[1] \in 1..n
  BY <1>1
<1>3. \A i \in 1..(Len(m) - 1) :
        i + 1 \in 1..Len(m) /\ m[i + 1] > m[1] /\ m[i + 1] \in 1..n
  <2> TAKE i \in 1..(Len(m) - 1)
  <2>1. i + 1 \in 1..Len(m) /\ 1 < i + 1 /\ 1 \in 1..Len(m)
    BY <1>1
  <2> QED
    BY <1>1, <2>1
<1>4. \A i \in 1..(Len(m) - 1) : m[i + 1] - m[1] \in 1..(n - m[1])
  BY <1>2, <1>3
<1>5. Len(m) - 1 \in Nat
  BY <1>1
<1>6. t \in [1..(Len(m) - 1) -> 1..(n - m[1])]
  BY <1>4
<1> QED
  BY <1>1, <1>2, <1>3, <1>5, <1>6

(***************************************************************************)
(* An event takes as many chunks from the front of the ring as it says,    *)
(* and the places of the rest are counted from behind them.                *)
(***************************************************************************)
LEMMA DispatchStep == ASSUME IInv, Dispatch PROVE IInv'
<1> DEFINE count == marks[1]
<1>1. ring \in Seq(Chunks) /\ done \in 0..Len(ring)
      /\ marks \in Seq(1..Len(ring)) /\ marks # <<>> /\ chunk_cursor \in Nat
  BY DEF IInv, TypeOK, Dispatch
<1>2. /\ ev' = SubSeq(ring, 1, count)
      /\ ring' = SubSeq(ring, count + 1, Len(ring))
      /\ done' = done - count
      /\ marks' = [i \in 1..(Len(marks) - 1) |-> marks[i + 1] - marks[1]]
  <2>1. Head(marks) = count
    BY <1>1
  <2> QED
    BY <2>1 DEF Dispatch
<1>3. ev = <<>> /\ UNCHANGED <<st, chunk_cursor, attached, history>>
  BY DEF Dispatch
<1>4. /\ count \in 1..Len(ring)
      /\ marks' \in Seq(1..(Len(ring) - count))
      /\ \A i \in DOMAIN marks' :
            marks'[i] = marks[i + 1] - count /\ i + 1 \in DOMAIN marks
  <2>1. \A i, j \in DOMAIN marks : i < j => marks[i] < marks[j]
    BY DEF IInv, MarksInOrder
  <2>2. Len(ring) \in Nat
    BY <1>1
  <2> QED
    BY <1>1, <1>2, <2>1, <2>2, ShiftMarks
<1>5. count <= done
  BY <1>1 DEF IInv, MarksInOrder
<1> HIDE DEF count
<1>6. /\ ev' \in Seq(Chunks) /\ Len(ev') = count
      /\ \A i \in 1..count : ev'[i] = ring[i]
  BY <1>1, <1>2, <1>4, CutSequence
<1>7. /\ ring' \in Seq(Chunks) /\ Len(ring') = Len(ring) - count
      /\ \A i \in 1..Len(ring') : ring'[i] = ring[count + i]
  BY <1>1, <1>2, <1>4, CutSequence
<1>8. TypeOK'
  <2>1. done' \in 0..Len(ring') /\ marks' \in Seq(1..Len(ring'))
    BY <1>1, <1>2, <1>4, <1>5, <1>7
  <2> QED
    BY <1>3, <1>6, <1>7, <2>1 DEF IInv, TypeOK
<1>9. SizeKnown'
  <2>1. ring # <<>>
    BY <1>1, <1>4
  <2> QED
    BY <1>3, <2>1 DEF IInv, SizeKnown
<1>10. MarksInOrder'
  <2>1. \A i \in DOMAIN marks : marks[i] \in Nat /\ marks[i] <= done
    BY <1>1 DEF IInv, MarksInOrder
  <2>2. \A i \in DOMAIN marks' : marks'[i] <= done'
    BY <1>1, <1>2, <1>4, <2>1
  <2>3. ASSUME NEW i \in DOMAIN marks', NEW j \in DOMAIN marks', i < j
        PROVE  marks'[i] < marks'[j]
    <3>1. i \in Nat /\ j \in Nat /\ i + 1 < j + 1
      BY <1>4, <2>3
    <3>2. marks[i + 1] < marks[j + 1]
      BY <1>4, <3>1 DEF IInv, MarksInOrder
    <3> QED
      BY <1>4, <2>1, <3>2
  <2> QED
    BY <2>2, <2>3 DEF MarksInOrder
<1>11. BeforeStart'
  BY <1>1, <1>3 DEF IInv, BeforeStart
<1>12. ASSUME NEW i \in Nat
       PROVE  Place(i)' = Place(count + i)
  <2>1. chunk_cursor' + Len(ev') + (i - 1)
          = chunk_cursor + Len(ev) + ((count + i) - 1)
    BY <1>1, <1>3, <1>4, <1>6
  <2> QED
    BY <2>1 DEF Place
<1>13. HandledInPlace'
  <2>1. \A i \in 1..count : i \in 1..done /\ ev'[i] = ring[i]
    BY <1>1, <1>4, <1>5, <1>6
  <2>2. \A i \in 1..count : Place(i) = (chunk_cursor + (i - 1)) % ChunksPerBuffer
    BY <1>1, <1>3, <1>4 DEF Place
  <2> QED
    BY <1>3, <1>6, <2>1, <2>2 DEF IInv, FilledInPlace, HandledInPlace, Fresh
<1>14. FilledInPlace'
  <2>1. \A i \in 1..done' : i \in 1..Len(ring') /\ i \in Nat
                            /\ count + i \in 1..done
    BY <1>1, <1>2, <1>4, <1>5, <1>7
  <2> QED
    BY <1>3, <1>7, <1>12, <2>1 DEF IInv, FilledInPlace, Fresh
<1>15. QueuedInPlace'
  <2>1. \A i \in 1..Len(ring') : i \in Nat /\ count + i \in 1..Len(ring)
    BY <1>1, <1>4, <1>7
  <2>2. Len(ring') + 1 \in Nat /\ count + (Len(ring') + 1) = Len(ring) + 1
    BY <1>1, <1>4, <1>7
  <2> QED
    BY <1>3, <1>7, <1>12, <2>1, <2>2 DEF IInv, QueuedInPlace, Fresh
<1>16. Outstanding'
  <2>1. Len(st.data) \in Nat /\ Len(ring) \in Nat /\ Len(ev) = 0
    BY <1>1, <1>3 DEF IInv, TypeOK, StateType
  <2>2. st' = st /\ history' = history /\ Len(ring') = Len(ring) - count
        /\ Len(ev') = count
    BY <1>3, <1>6, <1>7
  <2> QED
    BY <1>4, <2>1, <2>2 DEF IInv, Outstanding, Fresh
<1> QED
  BY <1>8, <1>9, <1>10, <1>11, <1>13, <1>14, <1>15, <1>16 DEF IInv

(***************************************************************************)
(* Queueing: the chunks handed over follow the ring, which ends before the *)
(* current offset.                                                         *)
(***************************************************************************)
LEMMA QueueAllParts ==
  ASSUME TypeOK, st.chunks_per_buffer = ChunksPerBuffer, QueueAll
  PROVE  /\ ring' \in Seq(Chunks)
         /\ Len(ring') = Len(ring) + Len(st.data)
         /\ \A i \in 1..Len(ring) : ring'[i] = ring[i]
         /\ \A i \in 1..Len(st.data) :
               ring'[Len(ring) + i] = (st.curr_offset + (i - 1)) % ChunksPerBuffer
<1>1. ring \in Seq(Chunks) /\ Len(st.data) \in Nat /\ st.curr_offset \in Nat
  BY DEF TypeOK, StateType, Chunks
<1>2. \A i \in 1..Len(st.data) :
        (st.curr_offset + (i - 1)) % ChunksPerBuffer \in Chunks
  <2> TAKE i \in 1..Len(st.data)
  <2>1. st.curr_offset + (i - 1) \in Int
    BY <1>1
  <2> QED
    BY <2>1, DivisionFacts DEF Chunks
<1> DEFINE new == [i \in 1..Len(st.data) |->
                     (st.curr_offset + (i - 1)) % ChunksPerBuffer]
<1>3. IrChunks(st) = new
  BY DEF IrChunks, IrChunk
<1>4. new \in Seq(Chunks) /\ Len(new) = Len(st.data)
      /\ ring' = ring \o new
      /\ \A i \in 1..Len(st.data) :
            new[i] = (st.curr_offset + (i - 1)) % ChunksPerBuffer
  BY <1>1, <1>2, <1>3 DEF QueueAll
<1>5. PICK queued \in Seq(Chunks) :
        /\ Len(queued) = Len(st.data)
        /\ ring' = ring \o queued
        /\ \A i \in 1..Len(st.data) :
              queued[i] = (st.curr_offset + (i - 1)) % ChunksPerBuffer
  BY <1>4
<1>6. /\ ring' \in Seq(Chunks)
      /\ Len(ring') = Len(ring) + Len(queued)
      /\ \A i \in 1..Len(ring) : ring'[i] = ring[i]
      /\ \A i \in 1..Len(queued) : ring'[Len(ring) + i] = queued[i]
  <2>1. /\ ring \o queued \in Seq(Chunks)
        /\ Len(ring \o queued) = Len(ring) + Len(queued)
        /\ \A i \in 1..Len(ring) : (ring \o queued)[i] = ring[i]
        /\ \A i \in 1..Len(queued) :
              (ring \o queued)[Len(ring) + i] = queued[i]
    <3> HIDE DEF Chunks
    <3> QED
      BY <1>1, JoinSequences
  <2> QED
    BY <1>5, <2>1
<1> QED
  BY <1>5, <1>6

\* The places of what is queued follow from the place of the first.
PlaceAfter(base, k) == (base + k) % ChunksPerBuffer

LEMMA PlaceSum ==
  ASSUME NEW base \in Nat, NEW k \in Nat, NEW i \in Nat
  PROVE  PlaceAfter(PlaceAfter(base, k), i) = PlaceAfter(base, k + i)
<1> USE DEF PlaceAfter
<1>1. (((base + k) % ChunksPerBuffer) + i) % ChunksPerBuffer
        = ((base + k) + i) % ChunksPerBuffer
  <2>1. base + k \in Nat
    OBVIOUS
  <2> QED
    BY <2>1, RemainderOfSum
<1>2. (base + k) + i = base + (k + i)
  OBVIOUS
<1> QED
  BY <1>1, <1>2

\* With the cursor moved past the event, the chunk that queue_chunks appends
\* falls in its place.  `k' chunks were in the ring, the first of them at `base'.
LEMMA QueuedPlaces ==
  ASSUME TypeOK, st.chunks_per_buffer = ChunksPerBuffer, QueueAll,
         NEW base \in Nat,
         \A i \in 1..Len(ring) : ring[i] = (base + (i - 1)) % ChunksPerBuffer,
         st.curr_offset = (base + Len(ring)) % ChunksPerBuffer
  PROVE  /\ \A i \in 1..Len(ring') : ring'[i] = (base + (i - 1)) % ChunksPerBuffer
         /\ (st.curr_offset + Len(st.data)) % ChunksPerBuffer
              = (base + Len(ring')) % ChunksPerBuffer
<1>1. Len(ring) \in Nat /\ Len(st.data) \in Nat
  BY DEF TypeOK, StateType
<1>2. Len(ring') = Len(ring) + Len(st.data)
  BY QueueAllParts
<1>3. ASSUME NEW i \in 1..Len(ring')
      PROVE  ring'[i] = (base + (i - 1)) % ChunksPerBuffer
  <2>1. CASE i \in 1..Len(ring)
    BY <2>1, QueueAllParts
  <2>2. CASE i \notin 1..Len(ring)
    <3> DEFINE k == i - Len(ring)
    <3>1. k \in 1..Len(st.data) /\ i = Len(ring) + k /\ k - 1 \in Nat
      BY <1>1, <1>2, <2>2
    <3> HIDE DEF k
    <3>2. ring'[i] = (st.curr_offset + (k - 1)) % ChunksPerBuffer
      BY <3>1, QueueAllParts
    <3>3. (((base + Len(ring)) % ChunksPerBuffer) + (k - 1)) % ChunksPerBuffer
            = (base + (Len(ring) + (k - 1))) % ChunksPerBuffer
      <4>1. PICK n \in Nat, m \in Nat : n = Len(ring) /\ m = k - 1
        BY <1>1, <3>1
      <4>2. PlaceAfter(PlaceAfter(base, n), m) = PlaceAfter(base, n + m)
        BY PlaceSum
      <4> QED BY <4>1, <4>2 DEF PlaceAfter
    <3>4. Len(ring) + (k - 1) = i - 1
      BY <1>1, <3>1
    <3> QED
      BY <3>2, <3>3, <3>4
  <2> QED
    BY <2>1, <2>2
<1>4. (((base + Len(ring)) % ChunksPerBuffer) + Len(st.data)) % ChunksPerBuffer
        = (base + (Len(ring) + Len(st.data))) % ChunksPerBuffer
  <2>1. PICK n \in Nat, m \in Nat : n = Len(ring) /\ m = Len(st.data)
    BY <1>1
  <2>2. PlaceAfter(PlaceAfter(base, n), m) = PlaceAfter(base, n + m)
    BY PlaceSum
  <2> QED BY <2>1, <2>2 DEF PlaceAfter
<1> QED
  BY <1>2, <1>3, <1>4

(***************************************************************************)
(* handle_event moves the cursor behind the event and queues what the      *)
(* handler registered.  Nothing changes its place, the wrap at G_MAXINT    *)
(* included, for the chunks are counted modulo their number.               *)
(***************************************************************************)
LEMMA CursorStep ==
  ASSUME TypeOK, st.chunks_per_buffer = ChunksPerBuffer
  PROVE  /\ AdvancedCursor \in 0..(MaxInt - 1)
         /\ \A k \in Nat : (AdvancedCursor + k) % ChunksPerBuffer
                            = ((chunk_cursor + Len(ev)) + k) % ChunksPerBuffer
<1> DEFINE cursor == chunk_cursor + Len(ev)
<1>1. cursor \in Nat
  BY DEF TypeOK
<1>2. AdvancedCursor = IF cursor >= MaxInt THEN cursor % ChunksPerBuffer
                                           ELSE cursor
  BY DEF AdvancedCursor
<1> HIDE DEF cursor
<1>3. cursor % ChunksPerBuffer \in 0..(MaxInt - 1)
  BY <1>1, DivisionFacts
<1>4. \A k \in Nat : ((cursor % ChunksPerBuffer) + k) % ChunksPerBuffer
                       = (cursor + k) % ChunksPerBuffer
  BY <1>1, RemainderOfSum
<1>5. AdvancedCursor \in 0..(MaxInt - 1)
  BY <1>1, <1>2, <1>3
<1>6. \A k \in Nat : (AdvancedCursor + k) % ChunksPerBuffer
                       = (cursor + k) % ChunksPerBuffer
  BY <1>2, <1>4
<1> QED
  BY <1>5, <1>6 DEF cursor

LEMMA PlacesKept ==
  ASSUME IInv, HandlerReturns, NEW i \in Nat \ {0}
  PROVE  Place(i)' = Place(i)
<1>1. ev # <<>> /\ ev' = <<>> /\ chunk_cursor' = AdvancedCursor
  BY DEF HandlerReturns
<1>2. st.chunks_per_buffer = ChunksPerBuffer /\ TypeOK
  BY <1>1 DEF IInv, SizeKnown
<1>3. i - 1 \in Nat
  OBVIOUS
<1>4. (AdvancedCursor + (i - 1)) % ChunksPerBuffer
        = ((chunk_cursor + Len(ev)) + (i - 1)) % ChunksPerBuffer
  BY <1>2, <1>3, CursorStep
<1>5. chunk_cursor' + Len(ev') + (i - 1) = AdvancedCursor + (i - 1)
  <2>1. Len(ev') = 0 /\ AdvancedCursor \in Nat
    BY <1>1, <1>2, CursorStep
  <2> QED
    BY <1>1, <2>1
<1> QED
  BY <1>4, <1>5 DEF Place

LEMMA QueueSomeParts ==
  ASSUME TypeOK, st.chunks_per_buffer = ChunksPerBuffer, QueueSome
  PROVE  /\ ring' \in Seq(Chunks)
         /\ Len(ring') >= Len(ring)
         /\ \A i \in 1..Len(ring) : ring'[i] = ring[i]
<1>1. ring \in Seq(Chunks) /\ Len(st.data) \in Nat /\ st.curr_offset \in Nat
  BY DEF TypeOK, StateType, Chunks
<1>2. \A i \in 1..Len(st.data) :
        (st.curr_offset + (i - 1)) % ChunksPerBuffer \in Chunks
  <2> TAKE i \in 1..Len(st.data)
  <2>1. st.curr_offset + (i - 1) \in Int
    BY <1>1
  <2> QED
    BY <2>1, DivisionFacts DEF Chunks
<1>3. IrChunks(st) \in Seq(Chunks) /\ Len(IrChunks(st)) = Len(st.data)
  BY <1>1, <1>2 DEF IrChunks, IrChunk
<1>4. PICK n \in 0..(Len(st.data) - 1) :
        ring' = ring \o SubSeq(IrChunks(st), 1, n)
  BY DEF QueueSome
<1>5. SubSeq(IrChunks(st), 1, n) \in Seq(Chunks)
  <2>1. \A i \in 1..n : IrChunks(st)[i] \in Chunks
    BY <1>1, <1>3
  <2> QED
    BY <1>1, <2>1, SubSeqProperties
<1>6. PICK queued \in Seq(Chunks) : ring' = ring \o queued
  BY <1>4, <1>5
<1>7. /\ ring \o queued \in Seq(Chunks)
      /\ Len(ring \o queued) = Len(ring) + Len(queued)
      /\ \A i \in 1..Len(ring) : (ring \o queued)[i] = ring[i]
  BY <1>1, JoinSequences
<1> QED
  BY <1>1, <1>6, <1>7

\* The ring grew at its end: the hardware's counts still fit.
LEMMA LongerRing ==
  ASSUME TypeOK, UNCHANGED <<done, marks>>,
         ring' \in Seq(Chunks), Len(ring') >= Len(ring)
  PROVE  done' \in 0..Len(ring') /\ marks' \in Seq(1..Len(ring'))
<1>1. done \in 0..Len(ring) /\ marks \in Seq(1..Len(ring)) /\ Len(ring) \in Nat
  BY DEF TypeOK
<1>2. Len(ring') \in Nat /\ 1..Len(ring) \subseteq 1..Len(ring')
  BY <1>1
<1>3. marks \in Seq(1..Len(ring'))
  BY <1>1, <1>2, SeqMonotonic
<1> QED
  BY <1>1, <1>2, <1>3

LEMMA DrainedOrEmpty ==
  ASSUME NEW s \in StateType, s.chunks_per_buffer = ChunksPerBuffer,
         NEW t, t = IF s.data = <<>> THEN s ELSE StateIrDrained(s),
         s.data_length = Len(s.data)
  PROVE  /\ t \in StateType /\ t.data = <<>> /\ t.data_length = 0
         /\ t.addr = s.addr /\ t.chunks_per_buffer = s.chunks_per_buffer
         /\ t.curr_offset = (s.curr_offset + Len(s.data)) % ChunksPerBuffer
         /\ t.running = s.running
<1>1. CASE s.data = <<>>
  <2>1. s.curr_offset + Len(s.data) = s.curr_offset
    BY <1>1 DEF StateType, Chunks
  <2>2. s.curr_offset % ChunksPerBuffer = s.curr_offset
    BY RemainderSmall DEF StateType, Chunks
  <2> QED
    BY <1>1, <2>1, <2>2
<1>2. CASE s.data # <<>>
  BY <1>2, DrainedEffect
<1> QED
  BY <1>1, <1>2

LEMMA HandlerReturnsStep == ASSUME IInv, HandlerReturns PROVE IInv'
<1>1. /\ ev # <<>> /\ ev' = <<>> /\ history' = history
      /\ chunk_cursor' = AdvancedCursor
      /\ TypeOK /\ MarksInOrder /\ st \in StateType
  BY DEF HandlerReturns, IInv, TypeOK
<1>2. st.chunks_per_buffer = ChunksPerBuffer
  BY <1>1 DEF IInv, SizeKnown
<1>3. "started" \in history
  BY <1>1 DEF IInv, BeforeStart
<1>4. chunk_cursor' \in 0..(MaxInt - 1)
  BY <1>1, <1>2, CursorStep
<1>5. BeforeStart' /\ HandledInPlace'
  BY <1>1, <1>3 DEF BeforeStart, HandledInPlace
<1>6. CASE /\ QueueAll
           /\ st' = IF st.data = <<>> THEN st ELSE StateIrDrained(st)
           /\ UNCHANGED <<attached, done, marks>>
  <2>1. /\ st' \in StateType /\ st'.data = <<>> /\ st'.data_length = 0
        /\ st'.addr = st.addr /\ st'.chunks_per_buffer = ChunksPerBuffer
        /\ st'.curr_offset
             = (st.curr_offset + Len(st.data)) % ChunksPerBuffer
        /\ st'.running = st.running
    BY <1>1, <1>2, <1>6, DrainedOrEmpty DEF TypeOK
  <2>2. /\ ring' \in Seq(Chunks) /\ Len(ring') = Len(ring) + Len(st.data)
        /\ \A i \in 1..Len(ring) : ring'[i] = ring[i]
    BY <1>1, <1>2, <1>6, QueueAllParts
  <2>3. Len(ring') >= Len(ring) /\ Len(ring) \in Nat /\ Len(st.data) \in Nat
    BY <1>1, <2>2 DEF TypeOK, StateType
  <2>4. done' \in 0..Len(ring') /\ marks' \in Seq(1..Len(ring'))
    BY <1>1, <1>6, <2>2, <2>3, LongerRing
  <2>5. TypeOK' /\ SizeKnown'
    <3>1. st'.data_length = Len(st'.data) /\ st'.data_length <= ChunksPerBuffer
      BY <2>1
    <3> QED
      BY <1>1, <1>4, <1>6, <2>1, <2>2, <2>4, <3>1 DEF TypeOK, SizeKnown
  <2>6. MarksInOrder'
    BY <1>1, <1>6 DEF MarksInOrder
  <2>7. FilledInPlace'
    <3>1. \A i \in 1..done : i \in 1..Len(ring) /\ i \in Nat \ {0}
      BY <1>1 DEF TypeOK
    <3> QED
      BY <1>1, <1>6, <2>2, <3>1, PlacesKept DEF IInv, FilledInPlace, Fresh
  <2>8. QueuedInPlace'
    <3> DEFINE base == chunk_cursor + Len(ev)
    <3>1. base \in Nat /\ Len(ring') \in Nat
      BY <1>1, <2>2, <2>3 DEF TypeOK
    <3>2. \A i \in Nat \ {0} : Place(i) = (base + (i - 1)) % ChunksPerBuffer
      BY DEF Place
    <3> HIDE DEF base
    <3>3. ASSUME Fresh', st'.running
          PROVE  /\ \A i \in 1..Len(ring) : ring[i] = Place(i)
                 /\ st.curr_offset = Place(Len(ring) + 1)
      BY <1>1, <2>1, <3>3 DEF IInv, QueuedInPlace, Fresh
    <3>4. ASSUME Fresh', st'.running
          PROVE  /\ \A i \in 1..Len(ring') :
                      ring'[i] = (base + (i - 1)) % ChunksPerBuffer
                 /\ st'.curr_offset = (base + Len(ring')) % ChunksPerBuffer
      <4>1. Len(ring) + 1 \in Nat \ {0} /\ (Len(ring) + 1) - 1 = Len(ring)
        BY <2>3
      <4>2. /\ \A i \in 1..Len(ring) :
                 ring[i] = (base + (i - 1)) % ChunksPerBuffer
            /\ st.curr_offset = (base + Len(ring)) % ChunksPerBuffer
        BY <3>2, <3>3, <3>4, <4>1
      <4> QED
        BY <1>1, <1>2, <1>6, <2>1, <3>1, <4>2, QueuedPlaces
    <3>5. Len(ring') + 1 \in Nat \ {0} /\ (Len(ring') + 1) - 1 = Len(ring')
      BY <3>1
    <3>6. \A i \in Nat \ {0} :
            (chunk_cursor' + Len(ev') + (i - 1)) % ChunksPerBuffer
              = (base + (i - 1)) % ChunksPerBuffer
      BY <3>2, PlacesKept DEF Place
    <3> QED
      <4>1. \A i \in 1..Len(ring') : i \in Nat \ {0}
        BY <3>1
      <4>2. \A i \in 1..Len(ring') :
              (chunk_cursor' + Len(ev') + (i - 1)) % ChunksPerBuffer
                = (base + (i - 1)) % ChunksPerBuffer
        BY <3>6, <4>1
      <4>3. (chunk_cursor' + Len(ev') + ((Len(ring') + 1) - 1)) % ChunksPerBuffer
              = (base + Len(ring')) % ChunksPerBuffer
        BY <3>5, <3>6
      <4> QED
        BY <3>4, <4>2, <4>3 DEF QueuedInPlace, Place
  <2>9. Outstanding'
    <3>1. Len(st'.data) = 0 /\ Len(ev') = 0
      BY <1>1, <2>1
    <3> QED
      BY <1>1, <1>3, <2>1, <2>2, <2>3, <3>1 DEF IInv, Outstanding, Fresh
  <2> QED
    BY <1>5, <2>5, <2>6, <2>7, <2>8, <2>9 DEF IInv
<1>7. CASE /\ st.data # <<>>
           /\ st' = StateStop(st)
           /\ attached' = FALSE
           /\ IF st.running THEN HwStop
                            ELSE QueueSome /\ UNCHANGED <<done, marks>>
  <2>1. /\ st' \in StateType
        /\ st'.data = IF st.running THEN <<>> ELSE st.data
        /\ st'.data_length = IF st.running THEN 0 ELSE st.data_length
        /\ st'.addr = st.addr /\ st'.chunks_per_buffer = ChunksPerBuffer
        /\ ~st'.running
    BY <1>1, <1>2, <1>7, StopEffect
  <2>2. /\ ring' \in Seq(Chunks) /\ done' \in 0..Len(ring')
        /\ marks' \in Seq(1..Len(ring')) /\ MarksInOrder'
        /\ done' <= done /\ \A i \in 1..done' : ring'[i] = ring[i]
    <3>1. CASE st.running
      BY <1>1, <1>7, <3>1, HwStopRing
    <3>2. CASE ~st.running
      <4>1. QueueSome /\ UNCHANGED <<done, marks>>
        BY <1>7, <3>2
      <4>2. /\ ring' \in Seq(Chunks) /\ Len(ring') >= Len(ring)
            /\ \A i \in 1..Len(ring) : ring'[i] = ring[i]
        BY <1>1, <1>2, <4>1, QueueSomeParts
      <4>3. done' \in 0..Len(ring') /\ marks' \in Seq(1..Len(ring'))
        BY <1>1, <4>1, <4>2, LongerRing
      <4>4. MarksInOrder'
        BY <1>1, <4>1 DEF MarksInOrder
      <4>5. done' <= done /\ \A i \in 1..done' : ring'[i] = ring[i]
        <5>1. done' = done /\ done \in 0..Len(ring) /\ Len(ring) \in Nat
          BY <1>1, <4>1 DEF TypeOK
        <5> QED
          BY <4>2, <5>1
      <4> QED
        BY <4>2, <4>3, <4>4, <4>5
    <3> QED
      BY <3>1, <3>2
  <2>3. TypeOK'
    <3>1. st'.data_length = Len(st'.data) /\ st'.data_length <= ChunksPerBuffer
      BY <1>1, <2>1 DEF TypeOK
    <3>2. ev' \in Seq(Chunks) /\ attached' \in BOOLEAN
          /\ history' \in SUBSET {"mapped", "started", "reused"}
      <4>1. attached' = FALSE
        BY <1>7
      <4>2. ev' \in Seq(Chunks)
        BY <1>1
      <4>3. history' \in SUBSET {"mapped", "started", "reused"}
        BY <1>1 DEF TypeOK
      <4> QED
        BY <4>1, <4>2, <4>3
    <3> QED
      BY <1>4, <2>1, <2>2, <3>1, <3>2 DEF TypeOK
  <2>4. SizeKnown'
    BY <2>1 DEF IInv, SizeKnown
  <2>5. FilledInPlace'
    <3>1. \A i \in 1..done' : i \in 1..done /\ i \in Nat \ {0}
      BY <1>1, <2>2 DEF TypeOK
    <3> QED
      BY <1>1, <2>2, <3>1, PlacesKept DEF IInv, FilledInPlace, Fresh
  <2>6. QueuedInPlace' /\ Outstanding'
    BY <1>1, <1>3, <2>1 DEF QueuedInPlace, Outstanding
  <2> QED
    BY <1>5, <2>2, <2>3, <2>4, <2>5, <2>6 DEF IInv
<1> QED
  BY <1>6, <1>7 DEF HandlerReturns

LEMMA StartStep == ASSUME IInv, Start PROVE IInv'
<1>1. /\ chunk_cursor' = 0 /\ UNCHANGED <<ev, attached, done, marks>>
      /\ st.addr # "failed" /\ TypeOK /\ MarksInOrder /\ st \in StateType
      /\ history \in SUBSET {"mapped", "started", "reused"}
  BY DEF Start, IInv, TypeOK
<1>2. CASE Again("started") /\ UNCHANGED <<st, ring>>
  <2>1. /\ history' \in SUBSET {"mapped", "started", "reused"}
        /\ Fresh' => "started" \notin history
    BY <1>1, <1>2 DEF Again, Fresh
  <2>2. "started" \notin history' => "started" \notin history
    BY <1>2 DEF Again
  <2>3. Fresh' => Fresh
    BY <1>2 DEF Again, Fresh
  <2>4. TypeOK' /\ SizeKnown'
    BY <1>1, <1>2, <2>1, ZeroAndEmpty DEF IInv, TypeOK, SizeKnown
  <2>5. MarksInOrder' /\ BeforeStart'
    BY <1>1, <1>2, <2>2 DEF IInv, MarksInOrder, BeforeStart
  <2>6. Fresh' => chunk_cursor' = chunk_cursor
    BY <1>1, <2>1 DEF IInv, BeforeStart
  <2>7. HandledInPlace' /\ FilledInPlace' /\ QueuedInPlace'
    BY <1>1, <1>2, <2>3, <2>6
       DEF IInv, HandledInPlace, FilledInPlace, QueuedInPlace, Place
  <2>8. Outstanding'
    BY <1>1, <1>2, <2>2, <2>3 DEF IInv, Outstanding
  <2> QED
    BY <2>4, <2>5, <2>7, <2>8 DEF IInv
<1>3. CASE StartError(st) = "none" /\ Did("started")
  <2>1. /\ history' \in SUBSET {"mapped", "started", "reused"}
        /\ "started" \in history'
        /\ Fresh' => "started" \notin history /\ Fresh
    BY <1>1, <1>3 DEF Did, Fresh
  <2>2. st.addr = "mapped" /\ st.chunks_per_buffer = ChunksPerBuffer
    BY <1>1, <1>3 DEF StartError, RegisterChunkError, TypeOK, StateType
  <2>3. Fresh' => /\ ring = <<>> /\ ev = <<>> /\ done = 0
                  /\ st.curr_offset = 0 /\ ~st.running
    BY <1>1, <2>1 DEF IInv, BeforeStart, TypeOK
  <2>4. MarksInOrder' /\ BeforeStart'
    BY <1>1, <2>1 DEF MarksInOrder, BeforeStart
  <2>5. HandledInPlace' /\ FilledInPlace'
    <3>1. Fresh' => Len(ev') = 0 /\ done' = 0
      BY <1>1, <2>3
    <3> QED
      BY <3>1 DEF HandledInPlace, FilledInPlace
  <2>6. CASE QueueSome /\ UNCHANGED st
    <3>1. ring' \in Seq(Chunks) /\ Len(ring') >= Len(ring)
      BY <1>1, <2>2, <2>6, QueueSomeParts
    <3>2. done' \in 0..Len(ring') /\ marks' \in Seq(1..Len(ring'))
      BY <1>1, <3>1, LongerRing
    <3>3. TypeOK' /\ SizeKnown'
      BY <1>1, <2>1, <2>2, <2>6, <3>1, <3>2, ZeroAndEmpty
         DEF TypeOK, SizeKnown
    <3>4. QueuedInPlace' /\ Outstanding'
      BY <2>1, <2>3, <2>6 DEF QueuedInPlace, Outstanding
    <3> QED
      BY <2>4, <2>5, <3>3, <3>4 DEF IInv
  <2>7. CASE QueueAll /\ st' \in {StateIrDrained(st),
                                  StateStarted(StateIrDrained(st))}
    <3>1. /\ st' \in StateType /\ st'.data = <<>> /\ st'.data_length = 0
          /\ st'.addr = st.addr /\ st'.chunks_per_buffer = ChunksPerBuffer
          /\ st'.curr_offset
               = (st.curr_offset + Len(st.data)) % ChunksPerBuffer
      <4> DEFINE t == StateIrDrained(st)
      <4>1. /\ t \in StateType /\ t.data = <<>> /\ t.data_length = 0
            /\ t.addr = st.addr /\ t.chunks_per_buffer = ChunksPerBuffer
            /\ t.curr_offset
                 = (st.curr_offset + Len(st.data)) % ChunksPerBuffer
        BY <1>1, <2>2, DrainedEffect
      <4>2. st' = t \/ st' = StateStarted(t)
        BY <2>7
      <4> HIDE DEF t
      <4> QED
        BY <4>1, <4>2, StartedEffect
    <3>2. ring' \in Seq(Chunks) /\ Len(ring') = Len(ring) + Len(st.data)
      BY <1>1, <2>2, <2>7, QueueAllParts
    <3>3. Len(ring) \in Nat /\ Len(st.data) \in Nat /\ Len(ring') >= Len(ring)
      BY <1>1, <3>2 DEF TypeOK, StateType
    <3>4. done' \in 0..Len(ring') /\ marks' \in Seq(1..Len(ring'))
      BY <1>1, <3>2, <3>3, LongerRing
    <3>5. st'.data_length = Len(st'.data) /\ st'.data_length <= ChunksPerBuffer
      BY <3>1
    <3>6. TypeOK' /\ SizeKnown'
      BY <1>1, <2>1, <3>1, <3>2, <3>4, <3>5, ZeroAndEmpty DEF TypeOK, SizeKnown
    <3>7. ASSUME Fresh' PROVE Len(ev') = 0 /\ Len(ring) = 0 /\ Len(st'.data) = 0
      BY <1>1, <2>3, <3>1, <3>7
    <3>8. QueuedInPlace'
      <4>1. ASSUME Fresh'
            PROVE  /\ \A i \in 1..Len(ring') :
                        ring'[i] = (0 + (i - 1)) % ChunksPerBuffer
                   /\ st'.curr_offset = (0 + Len(ring')) % ChunksPerBuffer
        <5>1. \A i \in 1..Len(ring) : ring[i] = (0 + (i - 1)) % ChunksPerBuffer
          BY <3>7, <4>1
        <5>2. 0 + Len(ring) = 0 /\ st.curr_offset = 0
          BY <2>3, <3>7, <4>1
        <5>3. st.curr_offset = (0 + Len(ring)) % ChunksPerBuffer
          BY <5>2, ZeroAndEmpty
        <5>4. /\ \A i \in 1..Len(ring') :
                   ring'[i] = (0 + (i - 1)) % ChunksPerBuffer
              /\ (st.curr_offset + Len(st.data)) % ChunksPerBuffer
                   = (0 + Len(ring')) % ChunksPerBuffer
          BY <1>1, <2>2, <2>7, <5>1, <5>3, QueuedPlaces
        <5> QED
          BY <3>1, <5>4
      <4>2. ASSUME Fresh', NEW i \in Nat
            PROVE  chunk_cursor' + Len(ev') + (i - 1) = 0 + (i - 1)
        BY <1>1, <3>7, <4>2
      <4>3. /\ Len(ring') + 1 \in Nat
            /\ (Len(ring') + 1) - 1 = Len(ring')
            /\ \A i \in 1..Len(ring') : i \in Nat
        BY <3>2, <3>3
      <4> QED
        BY <4>1, <4>2, <4>3 DEF QueuedInPlace, Place
    <3>9. Outstanding'
      <4>1. ASSUME Fresh' PROVE Len(ring') <= MaxOutstanding
        <5>1. Len(st.data) + Len(ring) <= MaxOutstanding
          BY <2>1, <4>1 DEF IInv, Outstanding
        <5> QED
          BY <3>2, <3>3, <5>1
      <4>2. Len(ring') \in Nat
        BY <3>2
      <4>3. Fresh' => /\ Len(st'.data) + Len(ring') <= MaxOutstanding
                      /\ Len(ev') + Len(ring') <= MaxOutstanding
        BY <3>7, <4>1, <4>2
      <4> QED
        BY <4>3 DEF Outstanding
    <3> QED
      BY <2>4, <2>5, <3>6, <3>8, <3>9 DEF IInv
  <2> QED
    BY <1>3, <2>6, <2>7, <1>2 DEF Start
<1> QED
  BY <1>2, <1>3 DEF Start

LEMMA StutterStep == ASSUME IInv, UNCHANGED vars PROVE IInv'
<1>1. UNCHANGED <<st, chunk_cursor, ev, attached, ring, done, marks, history>>
  BY DEF vars
<1>2. TypeOK' /\ SizeKnown' /\ Outstanding'
  BY <1>1 DEF IInv, TypeOK, SizeKnown, Outstanding, Fresh
<1> QED
  BY <1>1, <1>2, SamePlaces DEF IInv

\* Every step of the program, the hardware and the main loop keeps every chunk
\* in its place.
LEMMA NextIInv == IInv /\ [Next]_vars => IInv'
<1> SUFFICES ASSUME IInv, [Next]_vars PROVE IInv'
  OBVIOUS
<1>1. CASE Allocate
  BY <1>1, AllocateStep
<1>2. CASE MapBuffer
  BY <1>2, MapBufferStep
<1>3. CASE RegisterPacket
  BY <1>3, RegisterPacketStep
<1>4. CASE Start
  BY <1>4, StartStep
<1>5. CASE Stop
  BY <1>5, StopStep
<1>6. CASE UnmapBuffer
  BY <1>6, UnmapBufferStep
<1>7. CASE Release
  BY <1>7, ReleaseStep
<1>8. CASE CreateSource \/ DestroySource
  BY <1>8, SourceStep
<1>9. CASE HwReceive
  BY <1>9, HwReceiveStep
<1>10. CASE HwInterrupt
  BY <1>10, HwInterruptStep
<1>11. CASE Dispatch
  BY <1>11, DispatchStep
<1>12. CASE HandlerReturns
  BY <1>12, HandlerReturnsStep
<1>13. CASE UNCHANGED vars
  BY <1>13, StutterStep
<1> QED
  BY <1>1, <1>2, <1>3, <1>4, <1>5, <1>6, <1>7, <1>8, <1>9, <1>10, <1>11,
     <1>12, <1>13 DEF Next, Call

LEMMA SpecIInv == Spec => []IInv
<1>1. Init => IInv
  BY InitIInv
<1>2. IInv /\ [Next]_vars => IInv'
  BY NextIInv
<1> QED
  BY <1>1, <1>2, PTL DEF Spec

-----------------------------------------------------------------------------
(***************************************************************************)
(* The theorems.                                                           *)
(***************************************************************************)

(***************************************************************************)
(* Type correctness of FwIsoIrSingle, which bounds the cursor by G_MAXINT  *)
(* and the registered entries by the buffer, for every size of buffer, be  *)
(* the object used again or not.                                           *)
(***************************************************************************)
THEOREM TypeCorrect == Spec => []TypeOK
<1>1. IInv => TypeOK
  BY DEF IInv
<1> QED
  BY <1>1, SpecIInv, PTL

(***************************************************************************)
(* The payload that get_payload finds for each index in the handler of     *)
(* `interrupted' is in the chunk the hardware filled with that packet, in  *)
(* the first run of every object, for every number of chunks and every     *)
(* G_MAXINT, whether a multiple of that number or not.                     *)
(***************************************************************************)
THEOREM FirstRunReadsItsPackets == Spec => []FirstRunAligned
<1>1. IInv => FirstRunAligned
  <2> SUFFICES ASSUME IInv, Fresh, NEW i \in DOMAIN ev
      PROVE  PayloadChunk(i - 1) = ev[i]
    BY DEF FirstRunAligned, PayloadOfHandledPacket, Fresh
  <2>1. ev \in Seq(Chunks)
    BY DEF IInv, TypeOK
  <2>2. i \in 1..Len(ev) /\ ev # <<>>
    BY <2>1
  <2>3. ev[i] = (chunk_cursor + (i - 1)) % ChunksPerBuffer
    BY <2>2 DEF IInv, HandledInPlace
  <2>4. st.chunks_per_buffer = ChunksPerBuffer
    BY <2>2 DEF IInv, SizeKnown
  <2> QED
    BY <2>3, <2>4 DEF PayloadChunk
<1> QED
  BY <1>1, SpecIInv, PTL

(***************************************************************************)
(* The chunks shown to the handler are none of those the hardware may      *)
(* fill while it runs, provided the program keeps no more chunks           *)
(* registered and queued than the buffer has: the chunks of the event and  *)
(* of the ring are then less than one round of the buffer.                 *)
(***************************************************************************)
THEOREM PayloadsAreStable ==
  ASSUME MaxOutstanding <= ChunksPerBuffer
  PROVE  Spec => []PayloadsStable
<1>1. IInv => PayloadsStable
  <2> SUFFICES ASSUME IInv, Fresh, st.running,
                      NEW i \in DOMAIN ev, NEW j \in DOMAIN ring
      PROVE  ev[i] # ring[j]
    BY DEF PayloadsStable, Fresh
  <2>1. ev \in Seq(Chunks) /\ ring \in Seq(Chunks) /\ chunk_cursor \in Nat
    BY DEF IInv, TypeOK
  <2>2. i \in 1..Len(ev) /\ j \in 1..Len(ring)
    BY <2>1
  <2>3. Len(ev) + Len(ring) <= ChunksPerBuffer
    BY <2>1 DEF IInv, Outstanding
  <2> DEFINE a == chunk_cursor + (i - 1)
             d == Len(ev) + j - i
  <2>4. a \in Nat /\ d \in 1..(ChunksPerBuffer - 1)
        /\ chunk_cursor + Len(ev) + (j - 1) = a + d
    BY <2>1, <2>2, <2>3
  <2>5. ev[i] = a % ChunksPerBuffer
    BY <2>2 DEF IInv, HandledInPlace
  <2>6. ring[j] = (chunk_cursor + Len(ev) + (j - 1)) % ChunksPerBuffer
    BY <2>2 DEF IInv, QueuedInPlace, Place
  <2> HIDE DEF a, d
  <2> QED
    BY <2>4, <2>5, <2>6, RemainderDistinct
<1> QED
  BY <1>1, SpecIInv, PTL
=============================================================================
