--------------------------- MODULE FwIsoCtxProofs ---------------------------
(***************************************************************************)
(* Proofs about FwIsoCtx: for any set of buffer sizes and any number of    *)
(* starts and waiting events.                                              *)
(***************************************************************************)
EXTENDS FwIsoCtx, TLAPS

(* What holds however the program calls the object.                        *)
Backed ==
  /\ ~st.fd => st.addr = "null"
  /\ st.addr = "mapped" => st.bytes_per_chunk = 1 /\ st.chunks_per_buffer \in Nat \ {0}

(* Entries are registered for a buffer, and dropped with it.               *)
Fresh(data) == \A i \in DOMAIN data : data[i] # Stale
EntriesHaveBuffer == careful => Fresh(st.data) /\ (st.addr # "mapped" => st.data = <<>>)

(* While a handler of `stopped' runs nothing is registered.                *)
StoppedIsEmpty == careful /\ InStopped => st.data = <<>>

IInv ==
  /\ TypeOK /\ Backed /\ RunningUsable /\ EntriesHaveBuffer /\ StoppedIsEmpty
  /\ StoppedOnce /\ NothingStaleQueued /\ NoCrash

-----------------------------------------------------------------------------
(* The structure, and what its functions do to it.                         *)
Struct ==
  [fd : BOOLEAN, mode : {"IR_SINGLE"}, header_size : {1},
   addr : {"null", "failed", "mapped"}, bytes_per_chunk : {0, 1},
   chunks_per_buffer : Nat, data : Seq({"chunk", Stale}),
   data_length : Nat, alloc_data_length : Nat, curr_offset : Nat,
   running : BOOLEAN]
Sound(s) == s \in Struct /\ s.data_length = Len(s.data)

(* s is t but for the entries, the offset and the mark of running.         *)
SameBuffer(s, t) ==
  /\ s.fd = t.fd /\ s.addr = t.addr /\ s.bytes_per_chunk = t.bytes_per_chunk
  /\ s.chunks_per_buffer = t.chunks_per_buffer

LEMMA ForgetFacts ==
  ASSUME NEW data \in Seq({"chunk", Stale})
  PROVE  /\ Forget(data) \in Seq({"chunk", Stale}) /\ Len(Forget(data)) = Len(data)
         /\ data = <<>> => Forget(data) = <<>>
BY DEF Forget

LEMMA StopFacts ==
  ASSUME NEW s, Sound(s)
  PROVE  /\ Sound(StateStop(s)) /\ ~StateStop(s).running /\ SameBuffer(StateStop(s), s)
         /\ s.running => StateStop(s).data = <<>>
         /\ ~s.running => StateStop(s) = s
<1>1. <<>> \in Seq({"chunk", Stale}) /\ Len(<<>>) = 0
  OBVIOUS
<1>2. CASE s.running
  BY <1>1, <1>2 DEF Sound, Struct, StateStop, SameBuffer
<1>3. CASE ~s.running
  BY <1>3 DEF Sound, StateStop, SameBuffer
<1> QED BY <1>2, <1>3

LEMMA UnmapFacts ==
  ASSUME NEW s, Sound(s)
  PROVE  LET u == StateUnmapBuffer(s) IN
         /\ Sound(u) /\ u.addr = "null" /\ u.fd = s.fd /\ u.running = s.running
         /\ s.data = <<>> => u.data = <<>>
BY ForgetFacts DEF Sound, Struct, StateUnmapBuffer

LEMMA ReleaseFacts ==
  ASSUME NEW s, Sound(s)
  PROVE  LET r == StateRelease(s) IN
         /\ Sound(r) /\ ~r.fd /\ r.addr = s.addr /\ r.running = s.running /\ r.data = s.data
BY DEF Sound, Struct, StateRelease

LEMMA MapFacts ==
  ASSUME NEW s, Sound(s), NEW chunks \in Nat \ {0}
  PROVE  LET m == StateMapBuffer(s, 1, chunks)
             f == StateMapFailed(s, chunks) IN
         /\ Sound(m) /\ m.addr = "mapped" /\ m.fd = s.fd /\ m.running = s.running
         /\ m.bytes_per_chunk = 1 /\ m.chunks_per_buffer = chunks
         /\ Sound(f) /\ f.addr = "failed" /\ f.fd = s.fd /\ f.running = s.running
         /\ s.data = <<>> => m.data = <<>> /\ f.data = <<>>
<1>1. DatumSize(s) = 1
  BY DEF Sound, Struct, DatumSize
<1>2. LET d == MallocData(s, chunks) IN
      /\ Sound(d) /\ d.fd = s.fd /\ d.running = s.running /\ (s.data = <<>> => d.data = <<>>)
  <2>1. s.data \in Seq({"chunk", Stale}) /\ Len(s.data) \in Nat
    BY DEF Sound, Struct
  <2>2. /\ Forget(s.data) \in Seq({"chunk", Stale}) /\ Len(Forget(s.data)) = Len(s.data)
        /\ s.data = <<>> => Forget(s.data) = <<>>
    BY <2>1, ForgetFacts
  <2>3. MallocData(s, chunks) = [s EXCEPT !.data = Forget(s.data), !.alloc_data_length = chunks]
    <3>1. chunks * DatumSize(s) = chunks
      BY <1>1
    <3> QED BY <3>1 DEF MallocData
  <2> QED BY <2>2, <2>3 DEF Sound, Struct
<1> QED BY <1>2 DEF Sound, Struct, StateMapBuffer, StateMapFailed

LEMMA RegisterFacts ==
  ASSUME NEW s, Sound(s)
  PROVE  LET r == StateRegisterChunk(s, "chunk", 0) IN
         /\ Sound(r) /\ SameBuffer(r, s) /\ r.running = s.running
         /\ r.data = Append(s.data, "chunk")
<1>1. Append(s.data, "chunk") \in Seq({"chunk", Stale}) /\ Len(Append(s.data, "chunk")) = Len(s.data) + 1
  BY DEF Sound, Struct
<1>2. s.data_length + 1 + 0 = Len(s.data) + 1 /\ Len(s.data) + 1 \in Nat
  BY DEF Sound, Struct
<1>3. StateRegisterChunk(s, "chunk", 0) =
        [s EXCEPT !.data = Append(s.data, "chunk"), !.data_length = Len(s.data) + 1]
  BY <1>2 DEF StateRegisterChunk, Sound, Struct
<1> QED BY <1>1, <1>2, <1>3 DEF Sound, Struct, SameBuffer

LEMMA DrainFacts ==
  ASSUME NEW s, Sound(s), NEW offset \in Nat
  PROVE  LET d == StateDrained(s, offset) IN
         /\ Sound(d) /\ SameBuffer(d, s) /\ d.running = s.running /\ d.data = <<>>
<1>1. <<>> \in Seq({"chunk", Stale}) /\ Len(<<>>) = 0
  OBVIOUS
<1> QED BY <1>1 DEF Sound, Struct, StateDrained, SameBuffer

LEMMA QueuedFacts ==
  ASSUME Sound(st), Backed, Queueable, NEW s \in QueuedStates
  PROVE  /\ Sound(s) /\ SameBuffer(s, st) /\ s.running = st.running /\ s.data = <<>>
         /\ st.data # <<>> => st.fd /\ st.addr = "mapped"
<1>0. st.data # <<>> => st.fd /\ st.addr = "mapped" /\ st.chunks_per_buffer \in Nat \ {0}
  BY DEF Queueable, Backed
<1>1. CASE st.data = <<>>
  <2>1. {st.data[i] : i \in DOMAIN st.data} = {}
    BY <1>1
  <2>2. s = st
    BY <1>1, <2>1 DEF QueuedStates
  <2> QED BY <1>1, <2>2 DEF SameBuffer
<1>2. CASE st.data # <<>>
  <2>1. PICK offset : s = StateDrained(st, offset) /\ offset \in Nat
    <3>1. CASE Stale \in {st.data[i] : i \in DOMAIN st.data}
      <4>1. PICK offset \in 0..(st.chunks_per_buffer - 1) : s = StateDrained(st, offset)
        BY <3>1 DEF QueuedStates
      <4> QED BY <4>1, <1>0, <1>2
    <3>2. CASE Stale \notin {st.data[i] : i \in DOMAIN st.data}
      <4>1. s = StateDrained(st, IrChunk(st, Len(st.data)))
        BY <3>2, <1>2 DEF QueuedStates, StateIrDrained
      <4>2. st.curr_offset + Len(st.data) \in Int
        BY DEF Sound, Struct
      <4>3. st.chunks_per_buffer \in Nat \ {0}
        BY <1>0, <1>2
      <4>4. IrChunk(st, Len(st.data)) \in 0..(st.chunks_per_buffer - 1)
        BY <4>2, <4>3 DEF IrChunk
      <4> QED BY <1>0, <1>2, <4>1, <4>4
    <3> QED BY <3>1, <3>2
  <2> QED BY <1>0, <2>1, DrainFacts
<1> QED BY <1>1, <1>2

-----------------------------------------------------------------------------
(* What `stopped' and what comes after it do.                              *)
Codes == ErrorCodes \cup {"none", "assertion"}
Sources == {"none", "live", "stale"}
Events == {"interrupt", "bus_reset"}

LEMMA Typed ==
  TypeOK <=>
    /\ Sound(st) /\ frames \in Seq(Frames) /\ src \in Sources /\ events \in Seq(Events)
    /\ down \in BOOLEAN /\ queued \in Seq({"chunk", Stale}) /\ crashed \in BOOLEAN
    /\ result \in Codes /\ starts \in Nat /\ careful \in BOOLEAN
BY DEF TypeOK, Sound, Struct, Codes, Sources, Events

LEMMA TypedNext ==
  ASSUME Sound(st'), frames' \in Seq(Frames), src' \in Sources, events' \in Seq(Events),
         down' \in BOOLEAN, queued' \in Seq({"chunk", Stale}), crashed' \in BOOLEAN,
         result' \in Codes, starts' \in Nat, careful' \in BOOLEAN
  PROVE  TypeOK'
BY DEF TypeOK, Sound, Struct, Codes, Sources, Events

(* The object has let go of its buffer.                                    *)
LetGo ==
  /\ st'.addr = "null" /\ st'.running = st.running
  /\ st.data = <<>> => st'.data = <<>>

LEMMA ResumeFacts ==
  ASSUME TypeOK, NEW then \in Continuations, NEW left \in Seq(Events), Resume(then, left)
  PROVE  /\ Sound(st') /\ src' \in Sources /\ events' \in Seq(Events)
         /\ st' = st \/ (LetGo /\ then \in {"unmap", "release"})
         /\ st'.fd => st.fd
<1> USE Typed DEF Continuations, Sources
<1>1. CASE then = "unmap"
  <2>1. st' = StateUnmapBuffer(st) /\ src' = src /\ events' = left
    BY <1>1 DEF Resume
  <2>2. Sound(st') /\ LetGo /\ st'.fd = st.fd
    BY <2>1, UnmapFacts DEF LetGo
  <2> QED BY <1>1, <2>1, <2>2
<1>2. CASE then = "release"
  <2>1. st' = StateRelease(StateUnmapBuffer(st)) /\ src' \in Sources /\ events' = <<>>
    BY <1>2 DEF Resume
  <2>2. Sound(StateUnmapBuffer(st))
    BY UnmapFacts
  <2>3. Sound(st') /\ LetGo /\ ~st'.fd
    BY <2>1, <2>2, UnmapFacts, ReleaseFacts DEF LetGo
  <2>4. <<>> \in Seq(Events)
    OBVIOUS
  <2> QED BY <1>2, <2>1, <2>3, <2>4
<1>3. CASE then \in {"nothing", "remove"}
  BY <1>3 DEF Resume
<1> QED BY <1>1, <1>2, <1>3

(* stop: whatever its caller does next, the object does not run, and when  *)
(* it ran its entries are dropped before the handlers are called.          *)
LEMMA CallStopFacts ==
  ASSUME TypeOK, NEW then \in Continuations, NEW base \in Seq(Frames),
         NEW left \in Seq(Events), CallStop(then, base, left)
  PROVE  /\ Sound(st') /\ frames' \in Seq(Frames) /\ src' \in Sources
         /\ events' \in Seq(Events) /\ ~st'.running
         /\ \/ /\ st.running /\ SameBuffer(st', st) /\ st'.data = <<>>
               /\ frames' = Append(base, Stopped(then))
            \/ /\ ~st.running /\ frames' = base
               /\ st' = st \/ (LetGo /\ then \in {"unmap", "release"})
         /\ st'.fd => st.fd
<1> USE Typed
<1>0. StateStop(st).running # st.running <=> st.running
  BY StopFacts DEF Sound, Struct
<1>1. CASE Emits
  <2>1. st.running /\ st' = StateStop(st) /\ frames' = Append(base, Stopped(then))
        /\ events' = left /\ src' = src
    BY <1>0, <1>1 DEF CallStop, Emits
  <2>2. Stopped(then) \in Frames
    BY DEF Frames
  <2>3. Append(base, Stopped(then)) \in Seq(Frames)
    BY <2>2
  <2> QED BY <2>1, <2>3, StopFacts DEF SameBuffer
<1>2. CASE ~Emits
  <2>1. ~st.running /\ Resume(then, left) /\ frames' = base
    BY <1>0, <1>2 DEF CallStop, Emits
  <2> QED BY <2>1, ResumeFacts DEF LetGo
<1> QED BY <1>1, <1>2

-----------------------------------------------------------------------------
(* What keeps the object sound, of the structure and of the handlers.      *)
Steady == Backed /\ RunningUsable /\ EntriesHaveBuffer /\ StoppedIsEmpty /\ StoppedOnce

(* base is what frames begins with.                                        *)
Begins(base) ==
  base \in Seq(Frames) /\ \A i \in DOMAIN base : i \in DOMAIN frames /\ base[i] = frames[i]

LEMMA FramesFacts ==
  ASSUME TypeOK
  PROVE  /\ Begins(frames)
         /\ frames # <<>> => Begins(Outer) /\ Len(frames) \in DOMAIN frames /\ Innermost \in Frames
<1>1. frames \in Seq(Frames) /\ DOMAIN frames = 1..Len(frames) /\ Len(frames) \in Nat
  BY Typed
<1>2. ASSUME frames # <<>>
      PROVE  Begins(Outer) /\ Len(frames) \in DOMAIN frames /\ Innermost \in Frames
  <2>1. Len(frames) \in 1..Len(frames)
    BY <1>1, <1>2
  <2>2. /\ Outer \in Seq(Frames) /\ DOMAIN Outer = 1..(Len(frames) - 1)
        /\ \A i \in 1..(Len(frames) - 1) : Outer[i] = frames[i]
    BY <1>1, <2>1 DEF Outer
  <2>3. Begins(Outer)
    BY <1>1, <2>2 DEF Begins
  <2> QED BY <1>1, <2>1, <2>3 DEF Innermost
<1> QED BY <1>1, <1>2 DEF Begins

LEMMA StopKeeps ==
  ASSUME TypeOK, Steady, NEW then \in Continuations, NEW base, Begins(base),
         NEW left \in Seq(Events), CallStop(then, base, left), careful' \in BOOLEAN,
         careful' =>
           careful /\ (then \in {"unmap", "release"} => st.running \/ st.data = <<>>)
  PROVE  Steady'
<1>1. /\ ~st'.running /\ Sound(st')
      /\ \/ /\ st.running /\ SameBuffer(st', st) /\ st'.data = <<>>
            /\ frames' = Append(base, Stopped(then))
         \/ /\ ~st.running /\ frames' = base
            /\ st' = st \/ (LetGo /\ then \in {"unmap", "release"})
  BY CallStopFacts DEF Begins
<1>2. Backed'
  BY <1>1 DEF Steady, Backed, SameBuffer, LetGo
<1>3. RunningUsable'
  BY <1>1 DEF RunningUsable
<1>4. EntriesHaveBuffer'
  BY <1>1 DEF Steady, EntriesHaveBuffer, Fresh, LetGo
<1>5. careful' /\ frames' = base => (InStopped' => InStopped)
  BY DEF Begins, InStopped
<1>6. StoppedIsEmpty'
  BY <1>1, <1>5 DEF Steady, StoppedIsEmpty, LetGo
<1>7. StoppedOnce'
  <2> SUFFICES ASSUME careful', NEW i \in DOMAIN frames', frames'[i].sig = "stopped",
                      NEW j \in DOMAIN frames', frames'[j].sig = "stopped"
               PROVE  i = j
    BY <1>1 DEF StoppedOnce
  <2>1. CASE st.running /\ frames' = Append(base, Stopped(then))
    <3>1. \A k \in DOMAIN base : base[k].sig # "stopped"
      BY <2>1 DEF Steady, StoppedOnce, Begins
    <3>2. /\ DOMAIN base = 1..Len(base) /\ Len(base) \in Nat /\ DOMAIN frames' = 1..(Len(base) + 1)
          /\ \A k \in 1..Len(base) : frames'[k] = base[k]
      BY <2>1 DEF Begins
    <3> QED BY <3>1, <3>2
  <2>2. CASE frames' = base
    BY <2>2 DEF Steady, StoppedOnce, Begins
  <2> QED BY <1>1, <2>1, <2>2
<1> QED BY <1>2, <1>3, <1>4, <1>6, <1>7 DEF Steady

(* Steps which leave the handlers that run, or one less, and the buffer.   *)
LEMMA CallKeeps ==
  ASSUME TypeOK, Steady, Begins(frames'), careful' \in BOOLEAN, careful' => careful,
         Sound(st'), SameBuffer(st', st),
         careful' => (Fresh(st'.data) /\ (st'.addr # "mapped" => st'.data = <<>>)),
         careful' /\ st'.running => st.running \/ (st.fd /\ st.addr = "mapped" /\ ~InStopped),
         careful' /\ InStopped => st'.data = <<>>
  PROVE  Steady'
<1>1. InStopped' => InStopped
  BY DEF Begins, InStopped
<1>2. Backed' /\ EntriesHaveBuffer' /\ StoppedIsEmpty'
  BY <1>1 DEF Steady, Backed, EntriesHaveBuffer, StoppedIsEmpty, SameBuffer
<1>3. RunningUsable'
  BY DEF Steady, RunningUsable, SameBuffer
<1>4. StoppedOnce'
  BY DEF Steady, StoppedOnce, Begins, InStopped
<1> QED BY <1>2, <1>3, <1>4 DEF Steady

-----------------------------------------------------------------------------
Kept == TypeOK' /\ Steady'

LEMMA Lists ==
  /\ <<>> \in Seq(Events) /\ <<>> \in Seq({"chunk", Stale}) /\ <<>> \in Seq(Frames)
  /\ {"none", "assertion", "FAILED"} \subseteq Codes /\ ErrorCodes \subseteq Codes
BY DEF Codes, ErrorCodes

(* Calls which end in stop.                                                *)
LEMMA StopKept ==
  ASSUME TypeOK, Steady, Stop \/ UnmapBuffer \/ Release  PROVE Kept
<1> USE Typed
<1>1. PICK then \in {"nothing", "unmap", "release"} :
        /\ CallStop(then, frames, events)
        /\ careful' \in BOOLEAN
        /\ careful' => careful /\ (then # "nothing" => st.running \/ st.data = <<>>)
        /\ Returns("none") /\ UNCHANGED <<down, crashed, starts>>
  <2>1. CASE Stop
    BY <2>1 DEF Stop
  <2>2. CarefulUnmap => /\ careful' \in BOOLEAN
                        /\ careful' => careful /\ (st.running \/ st.data = <<>>)
    BY DEF CarefulUnmap
  <2>3. CASE UnmapBuffer
    BY <2>2, <2>3 DEF UnmapBuffer
  <2>4. CASE Release
    BY <2>2, <2>4 DEF Release
  <2> QED BY <2>1, <2>3, <2>4
<1>2. then \in Continuations
  BY DEF Continuations
<1>3. Steady'
  BY <1>1, <1>2, StopKeeps, FramesFacts
<1>4. TypeOK'
  BY <1>1, <1>2, CallStopFacts, TypedNext, Lists DEF Returns
<1> QED BY <1>3, <1>4 DEF Kept

LEMMA AllocateKept ==
  ASSUME TypeOK, Steady, Allocate  PROVE Kept
<1> USE Typed
<1>1. /\ careful' = (careful /\ ~InStopped) /\ UNCHANGED <<frames, events, crashed, starts>>
      /\ result' \in Codes /\ queued' = <<>> /\ src' \in Sources /\ down' \in BOOLEAN
      /\ st' = st \/ st' = StateAllocate(st)
  BY Lists DEF Allocate, CarefulSetup, Fails, Returns, AllocateError, ErrorCodes, Sources
<1>2. /\ Sound(st') /\ st'.addr = st.addr /\ st'.running = st.running /\ st'.data = st.data
      /\ st'.bytes_per_chunk = st.bytes_per_chunk
      /\ st'.chunks_per_buffer = st.chunks_per_buffer /\ (st'.fd = st.fd \/ st'.fd)
  BY <1>1 DEF Sound, Struct, StateAllocate
<1>3. Steady'
  BY <1>1, <1>2 DEF Steady, Backed, RunningUsable, EntriesHaveBuffer, StoppedIsEmpty, StoppedOnce,
     InStopped
<1> QED BY <1>1, <1>2, <1>3, TypedNext, Lists DEF Kept

LEMMA MapBufferKept ==
  ASSUME TypeOK, Steady, NEW chunks \in ChunkCounts, MapBuffer(chunks)  PROVE Kept
<1>a. Sound(st)
  BY Typed
<1>0. chunks \in Nat \ {0}
  BY FwIsoCtxAssumption
<1>1. /\ careful' = (careful /\ ~InStopped)
      /\ UNCHANGED <<frames, src, events, down, crashed, starts>>
      /\ result' \in Codes /\ queued' = <<>>
  BY Typed, Lists DEF MapBuffer, CarefulSetup, Fails, Returns, MapBufferError, ErrorCodes
<1>2. CASE st' = st
  <2>1. Steady'
    BY Typed, <1>1, <1>2 DEF Steady, Backed, RunningUsable, EntriesHaveBuffer, StoppedIsEmpty,
       StoppedOnce, InStopped
  <2> QED BY Typed, <1>1, <1>2, <2>1, TypedNext, Lists DEF Kept
<1>3. CASE st' # st
  <2>1. /\ st.fd /\ st.addr = "null"
        /\ st' = StateMapBuffer(st, 1, chunks) \/ st' = StateMapFailed(st, chunks)
    BY <1>3 DEF MapBuffer, MapBufferError
  <2>2. /\ Sound(st') /\ st'.fd /\ st'.running = st.running
        /\ st'.addr = "mapped" => st'.bytes_per_chunk = 1 /\ st'.chunks_per_buffer = chunks
        /\ st.data = <<>> => st'.data = <<>>
    <3> DEFINE m == StateMapBuffer(st, 1, chunks)
               f == StateMapFailed(st, chunks)
    <3>1. /\ Sound(m) /\ m.addr = "mapped" /\ m.fd = st.fd /\ m.running = st.running
          /\ m.bytes_per_chunk = 1 /\ m.chunks_per_buffer = chunks
          /\ Sound(f) /\ f.addr = "failed" /\ f.fd = st.fd /\ f.running = st.running
          /\ st.data = <<>> => m.data = <<>> /\ f.data = <<>>
      BY <1>a, <1>0, MapFacts
    <3> HIDE DEF m, f
    <3>2. st' = m \/ st' = f
      BY <2>1 DEF m, f
    <3> QED BY <2>1, <3>1, <3>2
  <2>3. careful => st.data = <<>> /\ ~st.running
    BY Typed, <2>1 DEF Steady, EntriesHaveBuffer, RunningUsable
  <2>4. Steady'
    BY Typed, <1>0, <1>1, <2>2, <2>3 DEF Steady, Backed, RunningUsable, EntriesHaveBuffer, Fresh,
       StoppedIsEmpty, StoppedOnce, InStopped
  <2> QED BY Typed, <1>1, <2>2, <2>4, TypedNext, Lists DEF Kept
<1> QED BY <1>2, <1>3

LEMMA RegisterChunkKept ==
  ASSUME TypeOK, Steady, RegisterChunk  PROVE Kept
<1> USE Typed
<1>1. /\ careful' = (careful /\ ~InStopped /\ st.addr # "failed")
      /\ UNCHANGED <<frames, src, events, down, crashed, starts>>
      /\ result' \in Codes /\ queued' = <<>>
  BY Lists DEF RegisterChunk, CarefulUse, Fails, Returns, RegisterChunkError, ErrorCodes
<1>2. CASE st' = st
  <2>1. Steady'
    BY <1>1, <1>2 DEF Steady, Backed, RunningUsable, EntriesHaveBuffer, StoppedIsEmpty,
       StoppedOnce, InStopped
  <2> QED BY <1>1, <1>2, <2>1, TypedNext, Lists DEF Kept
<1>3. CASE st' # st
  <2>1. st.addr # "null" /\ st' = StateRegisterChunk(st, "chunk", 0)
    BY <1>3 DEF RegisterChunk, RegisterChunkError
  <2>2. /\ Sound(st') /\ SameBuffer(st', st) /\ st'.running = st.running
        /\ st'.data = Append(st.data, "chunk")
    BY <2>1, RegisterFacts
  <2>3. careful' => st'.addr = "mapped"
    BY <1>1, <2>1, <2>2 DEF SameBuffer, Sound, Struct
  <2>4. Fresh(st.data) => Fresh(st'.data)
    <3>1. st.data \in Seq({"chunk", Stale})
      BY DEF Sound, Struct
    <3>2. /\ DOMAIN st.data = 1..Len(st.data) /\ Len(st.data) \in Nat
          /\ DOMAIN st'.data = 1..(Len(st.data) + 1)
          /\ \A i \in 1..Len(st.data) : st'.data[i] = st.data[i]
          /\ st'.data[Len(st.data) + 1] = "chunk"
      BY <2>2, <3>1
    <3>3. SUFFICES ASSUME Fresh(st.data), NEW i \in 1..(Len(st.data) + 1)
                   PROVE  st'.data[i] # Stale
      BY <3>2 DEF Fresh
    <3>4. CASE i \in 1..Len(st.data)
      BY <3>2, <3>3, <3>4 DEF Fresh
    <3>5. CASE i = Len(st.data) + 1
      BY <3>2, <3>5, FwIsoCtxAssumption
    <3> QED BY <3>2, <3>4, <3>5
  <2>5. Steady'
    BY <1>1, <2>2, <2>3, <2>4, CallKeeps, FramesFacts DEF Steady, EntriesHaveBuffer
  <2> QED BY <1>1, <2>2, <2>5, TypedNext, Lists DEF Kept
<1> QED BY <1>2, <1>3

(* queue_chunks, from start or after a handler.                            *)
LEMMA DrainKeeps ==
  ASSUME TypeOK, Steady, Begins(frames'), careful' \in BOOLEAN, careful' => careful,
         Queueable, NEW s \in QueuedStates, st' = s
  PROVE  Sound(st') /\ Steady'
<1>1. Sound(st') /\ SameBuffer(st', st) /\ st'.running = st.running /\ st'.data = <<>>
  BY Typed, QueuedFacts DEF Steady
<1> QED BY <1>1, CallKeeps DEF Fresh

LEMMA StartKept ==
  ASSUME TypeOK, Steady, Start  PROVE Kept
<1> USE Typed
<1>1. /\ careful' = (careful /\ ~InStopped /\ st.addr # "failed")
      /\ UNCHANGED <<frames, src, events, down>> /\ starts' \in Nat /\ crashed' \in BOOLEAN
      /\ result' \in Codes /\ queued' \in Seq({"chunk", Stale})
  <2>1. st.data \in Seq({"chunk", Stale})
    BY DEF Sound, Struct
  <2>2. StartError(st) \in Codes
    BY DEF StartError, RegisterChunkError, Codes, ErrorCodes
  <2>3. starts' \in Nat /\ crashed' \in BOOLEAN /\ UNCHANGED <<frames, src, events, down>>
    <3>1. /\ starts' = starts \/ starts' = starts + 1
          /\ crashed' = crashed \/ crashed' = TRUE
          /\ UNCHANGED <<frames, src, events, down>>
      BY ZenonT(60) DEF Start, Crash
    <3>2. starts \in Nat /\ crashed \in BOOLEAN
      OBVIOUS
    <3>3. starts' \in Nat
      BY <3>1, <3>2
    <3> QED BY <3>1, <3>2, <3>3, Zenon
  <2>4. result' \in Codes /\ queued' \in Seq({"chunk", Stale})
    BY <2>1, <2>2, Lists DEF Start, Crash, Fails, Returns
  <2>5. careful' = (careful /\ ~InStopped /\ st.addr # "failed")
    BY DEF Start, CarefulUse
  <2> QED BY <2>3, <2>4, <2>5
<1>2. CASE st' = st
  <2>1. Steady'
    BY <1>1, <1>2 DEF Steady, Backed, RunningUsable, EntriesHaveBuffer, StoppedIsEmpty,
       StoppedOnce, InStopped
  <2> QED BY <1>1, <1>2, <2>1, TypedNext DEF Kept
<1>3. CASE st' # st
  <2>1. /\ Queueable /\ st.fd /\ st.addr # "null"
        /\ \E s \in QueuedStates : st' = s \/ st' = StateStarted(s)
    BY <1>3 DEF Start, Crash, StartError, RegisterChunkError
  <2>2. PICK s \in QueuedStates : st' = s \/ st' = StateStarted(s)
    BY <2>1
  <2>3. Sound(s) /\ SameBuffer(s, st) /\ s.running = st.running /\ s.data = <<>>
    BY <2>1, QueuedFacts DEF Steady
  <2>4. Sound(st') /\ SameBuffer(st', st) /\ st'.data = <<>>
    BY <2>2, <2>3 DEF StateStarted, Sound, Struct, SameBuffer
  <2>5. careful' => st.fd /\ st.addr = "mapped" /\ ~InStopped
    BY <1>1, <2>1 DEF Sound, Struct
  <2>6. Steady'
    BY <1>1, <2>4, <2>5, CallKeeps, FramesFacts DEF Fresh
  <2> QED BY <1>1, <2>4, <2>6, TypedNext DEF Kept
<1> QED BY <1>2, <1>3

(* Steps which leave the object and its handlers alone.                    *)
LEMMA AsideKept ==
  ASSUME TypeOK, Steady,
         CreateSource \/ DestroySource \/ FlushCompletions \/ Kernel \/ UNCHANGED vars
  PROVE  Kept
<1> USE Typed
<1>1. UNCHANGED <<st, frames, crashed, starts, careful>>
  BY DEF CreateSource, DestroySource, FlushCompletions, Kernel, HwInterrupt, BusReset, DeviceLost,
     Arrives, vars
<1>2. src' \in Sources /\ down' \in BOOLEAN /\ events' \in Seq(Events)
  <2>1. CASE CreateSource \/ DestroySource \/ DeviceLost \/ UNCHANGED vars
    BY <2>1 DEF CreateSource, DestroySource, DeviceLost, Sources, vars
  <2>2. CASE FlushCompletions \/ HwInterrupt \/ BusReset
    <3>1. ASSUME NEW e \in Events, Arrives(e)  PROVE events' \in Seq(Events)
      BY <3>1 DEF Arrives
    <3>2. "interrupt" \in Events /\ "bus_reset" \in Events
      BY DEF Events
    <3>3. UNCHANGED <<src, down>>
      BY <2>2 DEF FlushCompletions, HwInterrupt, BusReset, Arrives
    <3> QED BY <2>2, <3>1, <3>2, <3>3 DEF FlushCompletions, HwInterrupt, BusReset
  <2> QED BY <2>1, <2>2 DEF Kernel
<1>3. result' \in Codes /\ queued' \in Seq({"chunk", Stale})
  <2>1. CreateSourceError(st) \in Codes
    BY DEF CreateSourceError, Codes, ErrorCodes
  <2> QED BY <2>1, Lists DEF CreateSource, DestroySource, FlushCompletions, Kernel, HwInterrupt,
          BusReset, DeviceLost, Returns, vars
<1>4. Steady'
  BY <1>1 DEF Steady, Backed, RunningUsable, EntriesHaveBuffer, StoppedIsEmpty, StoppedOnce,
     InStopped
<1> QED BY <1>1, <1>2, <1>3, <1>4, TypedNext DEF Kept

LEMMA DispatchKept ==
  ASSUME TypeOK, Steady, Dispatch  PROVE Kept
<1> USE Typed
<1>0. /\ frames = <<>> /\ result' \in Codes /\ queued' = <<>>
      /\ UNCHANGED <<down, crashed, starts, careful>>
  BY Lists DEF Dispatch, Returns
<1>1. CASE DispatchError
  <2>1. UNCHANGED <<st, frames, events>> /\ src' \in Sources
    BY <1>1 DEF DispatchError, Sources
  <2>2. Steady'
    BY <1>0, <2>1 DEF Steady, Backed, RunningUsable, EntriesHaveBuffer, StoppedIsEmpty,
       StoppedOnce, InStopped
  <2> QED BY <1>0, <2>1, <2>2, TypedNext, Lists DEF Kept
<1>2. ASSUME NEW left \in Seq(Events), CallStop("remove", frames, left)  PROVE Kept
  <2>1. "remove" \in Continuations
    BY DEF Continuations
  <2>2. Steady'
    BY <1>0, <1>2, <2>1, StopKeeps, FramesFacts
  <2> QED BY <1>0, <1>2, <2>1, <2>2, CallStopFacts, TypedNext, Lists DEF Kept
<1>3. events # <<>> => Tail(events) \in Seq(Events)
  OBVIOUS
<1>4. ASSUME events # <<>>, frames' = Append(frames, Interrupted), events' = Tail(events),
             UNCHANGED <<st, src>>
      PROVE  Kept
  <2>1. /\ Interrupted \in Frames /\ Interrupted.sig = "interrupted"
        /\ frames' = <<Interrupted>>
    BY <1>0, <1>4 DEF Frames, Interrupted
  <2>2. frames' \in Seq(Frames) /\ \A i \in DOMAIN frames' : frames'[i].sig = "interrupted"
    BY <2>1
  <2>3. Steady'
    BY <1>0, <1>4, <2>2 DEF Steady, Backed, RunningUsable, EntriesHaveBuffer, StoppedIsEmpty,
       StoppedOnce, InStopped
  <2> QED BY <1>0, <1>3, <1>4, <2>2, <2>3, TypedNext, Lists DEF Kept
<1> QED BY <1>1, <1>2, <1>3, <1>4 DEF Dispatch, DispatchReadFails, DispatchEvent

LEMMA ReturnKept ==
  ASSUME TypeOK, Steady, Return  PROVE Kept
<1> USE Typed
<1>0. /\ frames # <<>> /\ UNCHANGED <<careful, down, starts>> /\ crashed' \in BOOLEAN
      /\ result' \in Codes /\ Begins(Outer) /\ Outer \in Seq(Frames)
  BY FramesFacts, Lists DEF Return, Crash, Returns, Begins
<1>1. st.data \in Seq({"chunk", Stale})
  BY DEF Sound, Struct
<1>2. CASE Crash
  <2>1. UNCHANGED <<st, frames, src, events>> /\ queued' = <<>>
    BY <1>2 DEF Crash, Returns
  <2>2. Steady'
    BY <1>0, <2>1 DEF Steady, Backed, RunningUsable, EntriesHaveBuffer, StoppedIsEmpty,
       StoppedOnce, InStopped
  <2> QED BY <1>0, <2>1, <2>2, TypedNext, Lists DEF Kept
<1>3. CASE Queueable /\ st' \in QueuedStates /\ frames' = Outer /\ queued' = st.data
           /\ UNCHANGED <<src, events>>
  <2>1. Sound(st') /\ Steady'
    BY <1>0, <1>3, DrainKeeps
  <2> QED BY <1>0, <1>1, <1>3, <2>1, TypedNext DEF Kept
<1>4. CASE CallStop("remove", Outer, events) /\ queued' = <<>>
  <2>1. "remove" \in Continuations
    BY DEF Continuations
  <2>2. Steady'
    BY <1>0, <1>4, <2>1, StopKeeps
  <2> QED BY <1>0, <1>4, <2>1, <2>2, CallStopFacts, TypedNext, Lists DEF Kept
<1>5. CASE ReturnFromStopped
  <2>1. /\ Innermost.sig = "stopped" /\ Resume(Innermost.then, events)
        /\ frames' = Outer /\ queued' = <<>>
    BY <1>5 DEF ReturnFromStopped
  <2>2. Innermost.then \in Continuations
    BY <1>0, <2>1, FramesFacts DEF Frames, Interrupted, Stopped
  <2>3. /\ Sound(st') /\ src' \in Sources /\ events' \in Seq(Events)
        /\ st' = st \/ LetGo
    BY <2>1, <2>2, ResumeFacts
  <2>4. careful => ~st.running /\ st.data = <<>>
    BY <1>0, <2>1, FramesFacts DEF Steady, StoppedOnce, StoppedIsEmpty, InStopped, Innermost
  <2>5. Steady'
    <3>1. careful' => st'.data = <<>> /\ ~st'.running
      BY <1>0, <2>3, <2>4 DEF LetGo
    <3>2. Backed'
      BY <2>3 DEF Steady, Backed, LetGo
    <3>3. StoppedOnce'
      BY <1>0, <2>1, <3>1 DEF Steady, StoppedOnce, Begins
    <3> QED BY <3>1, <3>2, <3>3 DEF Steady, RunningUsable, EntriesHaveBuffer, Fresh, StoppedIsEmpty
  <2> QED BY <1>0, <2>1, <2>3, <2>5, TypedNext, Lists DEF Kept
<1> QED BY <1>2, <1>3, <1>4, <1>5 DEF Return, ReturnFromInterrupted

LEMMA StepKept ==
  ASSUME TypeOK, Steady, [Next]_vars  PROVE Kept
BY StopKept, AllocateKept, MapBufferKept, RegisterChunkKept, StartKept, AsideKept, DispatchKept,
   ReturnKept DEF Next, Call

-----------------------------------------------------------------------------
(* What queue_chunks reads, and when it faults.                            *)
LEMMA CarefulBefore ==
  ASSUME TypeOK, [Next]_vars  PROVE careful' => careful
BY Typed DEF Next, Call, Kernel, Allocate, Release, UnmapBuffer, Stop, MapBuffer, RegisterChunk, Start,
   FlushCompletions, CreateSource, DestroySource, HwInterrupt, BusReset, DeviceLost, Arrives,
   Dispatch, Return, CarefulSetup, CarefulUse, CarefulUnmap, vars

LEMMA ReadsEntries ==
  ASSUME [Next]_vars  PROVE queued' \in {queued, <<>>, st.data}
BY DEF Next, Call, Kernel, Allocate, Release, UnmapBuffer, Stop, MapBuffer, RegisterChunk, Start,
   FlushCompletions, CreateSource, DestroySource, HwInterrupt, BusReset, DeviceLost, Arrives,
   Dispatch, Return, ReturnFromInterrupted, ReturnFromStopped, Crash, Fails, Returns, vars

LEMMA CrashesByFault ==
  ASSUME [Next]_vars  PROVE crashed' = crashed \/ QueueFaults
BY DEF Next, Call, Kernel, Allocate, Release, UnmapBuffer, Stop, MapBuffer, RegisterChunk, Start,
   FlushCompletions, CreateSource, DestroySource, HwInterrupt, BusReset, DeviceLost, Arrives,
   Dispatch, Return, Crash, vars

LEMMA NoFault ==
  ASSUME TypeOK, Steady, careful  PROVE ~QueueFaults
<1>1. CASE st.data = <<>>
  BY <1>1 DEF QueueFaults
<1>2. CASE st.addr = "mapped" /\ st.bytes_per_chunk = 1 /\ st.chunks_per_buffer \in Nat \ {0}
  BY <1>2 DEF QueueFaults, BytesPerBuffer
<1> QED BY <1>1, <1>2 DEF Steady, Backed, EntriesHaveBuffer

LEMMA IInvKept ==
  ASSUME IInv, [Next]_vars  PROVE IInv'
<1>1. TypeOK /\ Steady /\ NothingStaleQueued /\ NoCrash
  BY DEF IInv, Steady
<1>2. TypeOK' /\ Steady'
  BY <1>1, StepKept DEF Kept
<1>3. NothingStaleQueued'
  BY <1>1, CarefulBefore, ReadsEntries DEF NothingStaleQueued, Steady, EntriesHaveBuffer, Fresh
<1>4. NoCrash'
  BY <1>1, CarefulBefore, CrashesByFault, NoFault DEF NoCrash
<1> QED BY <1>2, <1>3, <1>4 DEF IInv, Steady

LEMMA IInvInit ==
  ASSUME Init  PROVE IInv
<1>1. /\ st.fd = FALSE /\ st.addr = "null" /\ st.running = FALSE /\ st.data = <<>>
      /\ Sound(st)
  BY DEF Init, StateInit, Sound, Struct
<1>2. TypeOK
  BY <1>1, Typed, Lists DEF Init, Sources
<1> QED BY <1>1, <1>2 DEF Init, IInv, Backed, RunningUsable, EntriesHaveBuffer, Fresh, StoppedIsEmpty,
        StoppedOnce, NothingStaleQueued, NoCrash

LEMMA IInvAlways == Spec => []IInv
<1>1. Init => IInv
  BY IInvInit
<1>2. IInv /\ [Next]_vars => IInv'
  BY IInvKept
<1> QED BY <1>1, <1>2, PTL DEF Spec

-----------------------------------------------------------------------------
(* The object and the contract with the hardware.                          *)
LEMMA StopContract ==
  ASSUME TypeOK, Steady, NEW then \in Continuations, NEW base \in Seq(Frames),
         NEW left \in Seq(Events), CallStop(then, base, left), careful
  PROVE  [Contract!Next]_Phase
<1> USE DEF Contract!Next, Contract!From, Contract!Stop, Contract!UnmapBuffer, Contract!Release, Phase
<1>1. /\ ~st'.running
      /\ \/ st.running /\ SameBuffer(st', st)
         \/ ~st.running /\ (st' = st \/ LetGo)
      /\ st'.fd => st.fd
  BY CallStopFacts
<1>2. CASE st.running /\ SameBuffer(st', st)
  BY <1>1, <1>2 DEF Steady, RunningUsable, SameBuffer
<1>3. CASE st' = st
  BY <1>3
<1>4. CASE ~st.running /\ LetGo
  <2>1. st'.addr = "null" /\ ~st'.running /\ (st'.fd => st.fd)
    BY <1>1, <1>4 DEF LetGo
  <2> QED BY <1>4, <2>1
<1> QED BY <1>1, <1>2, <1>3, <1>4

LEMMA StepContract ==
  ASSUME TypeOK, Steady, [Next]_vars, careful'  PROVE [Contract!Next]_Phase
<1> USE Typed
<1>0. careful
  BY CarefulBefore
<1>6. ASSUME UNCHANGED st  PROVE [Contract!Next]_Phase
  BY <1>6 DEF Phase
<1>1. CASE Stop \/ UnmapBuffer \/ Release
  <2>1. {"nothing", "unmap", "release"} \subseteq Continuations
    BY DEF Continuations
  <2>2. \E then \in {"nothing", "unmap", "release"} : CallStop(then, frames, events)
    BY <1>1 DEF Stop, UnmapBuffer, Release
  <2> QED BY <1>0, <2>1, <2>2, StopContract
<1>2. CASE Allocate
  <2>1. st' = st \/ (~st.fd /\ st.addr = "null" /\ st'.fd /\ st'.addr = "null")
    BY <1>2 DEF Allocate, AllocateError, StateAllocate, Steady, Backed, Sound, Struct
  <2> QED BY <2>1 DEF Phase, Contract!Next, Contract!Allocate, Contract!From
<1>3. ASSUME NEW chunks \in ChunkCounts, MapBuffer(chunks)  PROVE [Contract!Next]_Phase
  <2>1. \/ st' = st
        \/ /\ st.fd /\ st.addr = "null"
           /\ st' = StateMapBuffer(st, 1, chunks) \/ st' = StateMapFailed(st, chunks)
    BY <1>3 DEF MapBuffer, MapBufferError
  <2>2. chunks \in Nat \ {0}
    BY FwIsoCtxAssumption
  <2>3. \/ st' = st
        \/ st.fd /\ st.addr = "null" /\ st'.fd /\ st'.running = st.running
    <3>1. /\ StateMapBuffer(st, 1, chunks).fd = st.fd
          /\ StateMapBuffer(st, 1, chunks).running = st.running
          /\ StateMapFailed(st, chunks).fd = st.fd
          /\ StateMapFailed(st, chunks).running = st.running
      BY <2>2, MapFacts
    <3> QED BY <2>1, <3>1
  <2>4. st.addr = "null" => ~st.running
    BY <1>0 DEF Steady, RunningUsable
  <2> QED BY <2>3, <2>4 DEF Phase, Contract!Next, Contract!MapBuffer, Contract!From
<1>4. CASE RegisterChunk
  <2>1. st' = st \/ st' = StateRegisterChunk(st, "chunk", 0)
    BY <1>4 DEF RegisterChunk
  <2> QED BY <2>1, RegisterFacts DEF Phase, SameBuffer
<1>5. CASE Start
  <2>1. \/ st' = st
        \/ /\ Queueable /\ st.fd /\ st.addr # "null"
           /\ \E s \in QueuedStates : st' = s \/ st' = StateStarted(s)
    BY <1>5 DEF Start, Crash, StartError, RegisterChunkError
  <2>2. st.addr # "failed"
    BY <1>5 DEF Start, CarefulUse
  <2>3. ASSUME Queueable, st.fd, st.addr # "null", NEW s \in QueuedStates,
               st' = s \/ st' = StateStarted(s)
        PROVE  [Contract!Next]_Phase
    <3>1. Sound(s) /\ SameBuffer(s, st) /\ s.running = st.running
      BY <2>3, QueuedFacts DEF Steady
    <3>2. SameBuffer(st', st) /\ (st'.running = st.running \/ st'.running)
      BY <2>3, <3>1 DEF StateStarted, Sound, Struct, SameBuffer
    <3>3. st.addr = "mapped"
      BY <2>2, <2>3 DEF Sound, Struct
    <3> QED BY <2>3, <3>2, <3>3 DEF Phase, SameBuffer, Contract!Next, Contract!Start, Contract!From
  <2> QED BY <1>6, <2>1, <2>3
<1>7. CASE Dispatch
  <2>1. "remove" \in Continuations /\ (events # <<>> => Tail(events) \in Seq(Events))
    BY DEF Continuations
  <2> QED BY <1>0, <1>6, <1>7, <2>1, StopContract
          DEF Dispatch, DispatchError, DispatchReadFails, DispatchEvent
<1>8. CASE Return
  <2>0. frames # <<>> /\ Outer \in Seq(Frames) /\ Innermost \in Frames /\ Len(frames) \in DOMAIN frames
    BY <1>8, FramesFacts DEF Return, Begins
  <2>1. CASE Crash
    BY <1>6, <2>1 DEF Crash
  <2>2. CASE CallStop("remove", Outer, events)
    BY <1>0, <2>0, <2>2, StopContract DEF Continuations
  <2>3. CASE Queueable /\ st' \in QueuedStates
    <3>1. SameBuffer(st', st) /\ st'.running = st.running
      BY <2>3, QueuedFacts DEF Steady
    <3> QED BY <3>1 DEF Phase, SameBuffer
  <2>4. CASE ReturnFromStopped
    <3>1. Innermost.sig = "stopped" /\ Resume(Innermost.then, events)
      BY <2>4 DEF ReturnFromStopped
    <3>2. Innermost.then \in Continuations
      BY <2>0, <3>1 DEF Frames, Interrupted, Stopped
    <3>3. (st' = st \/ LetGo) /\ (st'.fd => st.fd)
      BY <3>1, <3>2, ResumeFacts
    <3>4. ~st.running
      BY <1>0, <2>0, <3>1 DEF Steady, StoppedOnce, Innermost
    <3> QED BY <3>3, <3>4 DEF LetGo, Phase, Contract!Next, Contract!UnmapBuffer, Contract!Release,
            Contract!From
  <2> QED BY <1>8, <2>1, <2>2, <2>3, <2>4 DEF Return, ReturnFromInterrupted
<1>9. CASE CreateSource \/ DestroySource \/ FlushCompletions \/ Kernel \/ UNCHANGED vars
  <2>1. UNCHANGED st
    BY <1>9 DEF CreateSource, DestroySource, FlushCompletions, Kernel, HwInterrupt, BusReset,
       DeviceLost, Arrives, vars
  <2> QED BY <1>6, <2>1
<1> QED BY <1>1, <1>2, <1>3, <1>4, <1>5, <1>7, <1>8, <1>9 DEF Next, Call

-----------------------------------------------------------------------------
(* The structure, the handlers that run and the events keep their types.   *)
THEOREM TypesCorrect == Spec => []TypeOK
<1>1. IInv => TypeOK
  BY DEF IInv
<1> QED BY <1>1, IInvAlways, PTL

(* A context marked running has its device open and its buffer mapped,     *)
(* whatever the handlers of its signals call.                              *)
THEOREM RunningIsUsable == Spec => []RunningUsable
<1>1. IInv => RunningUsable
  BY DEF IInv
<1> QED BY <1>1, IInvAlways, PTL

(* queue_chunks reads no entry of memory that was freed.                   *)
THEOREM NothingStaleIsQueued == Spec => []NothingStaleQueued
<1>1. IInv => NothingStaleQueued
  BY DEF IInv
<1> QED BY <1>1, IInvAlways, PTL

(* queue_chunks has its memory and the length of the buffer.               *)
THEOREM NeverCrashes == Spec => []NoCrash
<1>1. IInv => NoCrash
  BY DEF IInv
<1> QED BY <1>1, IInvAlways, PTL

(* No handler of `stopped' runs inside another, and the context does not   *)
(* run while one does.                                                     *)
THEOREM StoppedIsOnce == Spec => []StoppedOnce
<1>1. IInv => StoppedOnce
  BY DEF IInv
<1> QED BY <1>1, IInvAlways, PTL

(* The interface functions, handlers and dispatches together stop before   *)
(* they unmap, and unmap before they close: they implement IsoContext.     *)
THEOREM ContractHolds == Spec => ImplementsContract
<1>1. Init => Contract!Init
  <2>1. Init => ~st.fd
    BY DEF Init, StateInit
  <2> QED BY <2>1 DEF Contract!Init, Phase
<1>2. IInv /\ [Next]_vars => [careful' => [Contract!Next]_Phase]_vars
  BY StepContract DEF IInv, Steady
<1> QED BY <1>1, <1>2, IInvAlways, PTL DEF Spec, ImplementsContract
=============================================================================
