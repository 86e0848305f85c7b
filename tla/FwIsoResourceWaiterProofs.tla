--------------------- MODULE FwIsoResourceWaiterProofs ---------------------
(***************************************************************************)
(* Proofs about FwIsoResourceWaiter, for any number of threads and calls.  *)
(***************************************************************************)
EXTENDS FwIsoResourceWaiter, TLAPS

Calling == dpc \in {"calling", "locked"}

(* A call that has an answer to come was requested; a call that began      *)
(* later has another number.                                               *)
Asked(c) ==
  \/ c \in pending
  \/ \E i \in DOMAIN devq : devq[i].of = c
  \/ dpc # "idle" /\ event.of = c

RequestsNumbered ==
  \A w \in Waiters : \A n \in Nat :
    Asked(<<w, n>>) =>
      n <= call[w] /\ (n = call[w] => pc[w] \notin {"connected", "failed"})

(* The handlers of an emission belong to calls that began.                 *)
HandlersNumbered ==
  \A w \in Waiters : \A n \in Nat :
    <<w, n>> \in todo \/ (Calling /\ <<w, n>> = callee) => n <= call[w]

Emission == (Calling => callee \in Calls) /\ (dpc # "idle" => event \in Answers)

(* The handler is connected from the begin of a call to its end.           *)
Connection ==
  \A w \in Waiters :
    /\ pc[w] # "idle" => call[w] \in 1..MaxCalls
    /\ connected[w] <=>
         pc[w] \in {"connected", "failed", "requested", "sleeping", "leaving"}

Underway == RequestsNumbered /\ HandlersNumbered /\ Emission /\ Connection

(* The mutex of a frame.                                                   *)
HeldBy(w) ==
  /\ mutex[w] = "thread" <=> pc[w] = "leaving"
  /\ mutex[w] = "dispatcher" <=>
       dpc = "locked" /\ callee = Current(w) /\ pc[w] # "idle"
Locks == \A w \in Waiters : HeldBy(w)

(* The handler of a thread that is asleep or about to be is sure to get    *)
(* the answer which is being emitted.                                      *)
Hears(w) ==
  /\ pc[w] \in {"leaving", "unlocked"} /\ ~frame[w].expired => frame[w].handled
  /\ inTime[w] => pc[w] # "idle" /\ frame[w].handled
  /\ dpc # "idle" /\ event.of = Current(w) /\ pc[w] \in {"requested", "sleeping"} =>
       \/ frame[w].handled \/ Current(w) \in todo
       \/ dpc = "calling" /\ callee = Current(w)
Hearing == \A w \in Waiters : Hears(w)

(* How far the answer to a call alone in its time is on its way.           *)
Told(ok) == IF ok THEN "TRUE" ELSE "EVENT"
Before(w) == ~frame[w].handled /\ pc[w] \in {"requested", "sleeping"}
After(w) == frame[w].handled /\ lone[w] = Told(~frame[w].error)
Emitted(w) == pending = {} /\ devq = <<>> /\ lone[w] = Told(event.ok)

Unasked(w) ==
  /\ pc[w] \in {"connected", "failed"} /\ ~frame[w].handled /\ lone[w] = "unanswered"
  /\ pending = {} /\ devq = <<>> /\ dpc = "idle"
Requested(w) ==
  /\ Before(w) /\ lone[w] = "unanswered"
  /\ pending = {Current(w)} /\ devq = <<>> /\ dpc = "idle"
Answered(w) ==
  /\ Before(w) /\ pending = {} /\ dpc = "idle"
  /\ \E ok \in BOOLEAN :
       devq = <<[of |-> Current(w), ok |-> ok]>> /\ lone[w] = Told(ok)
AboutToCall(w) ==
  /\ Before(w) /\ Emitted(w) /\ dpc = "emitting" /\ todo = {Current(w)}
Called(w) ==
  /\ Before(w) /\ Emitted(w) /\ dpc = "calling" /\ callee = Current(w) /\ todo = {}
Locked(w) ==
  /\ After(w) /\ pc[w] \in {"requested", "sleeping"}
  /\ Emitted(w) /\ dpc = "locked" /\ callee = Current(w) /\ todo = {}
CalledBack(w) ==
  /\ After(w) /\ pc[w] \notin {"connected", "failed"}
  /\ pending = {} /\ devq = <<>>
  /\ (dpc = "emitting" /\ todo = {}) \/ dpc = "idle"

Phase(w) ==
  \/ Unasked(w) \/ Requested(w) \/ Answered(w) \/ AboutToCall(w) \/ Called(w)
  \/ Locked(w) \/ CalledBack(w)

Lone(w) ==
  lone[w] # "no" =>
    IF pc[w] = "idle"
    THEN /\ result[w] # "REFUSED" => result[w] = lone[w]
         /\ ~(Calling /\ callee = Current(w))
    ELSE /\ \A u \in Waiters : u # w => pc[u] = "idle"
         /\ ~frame[w].expired => Phase(w)
LoneCalls == \A w \in Waiters : Lone(w)

IInv == TypeOK /\ Underway /\ Locks /\ Hearing /\ LoneCalls /\ NoLostWakeup

-----------------------------------------------------------------------------
LEMMA Ranges ==
  ASSUME TypeOK
  PROVE  /\ \A c \in Calls : c[1] \in Waiters /\ c[2] \in 1..MaxCalls /\ c = <<c[1], c[2]>>
         /\ \A w \in Waiters : call[w] \in Nat /\ Current(w) = <<w, call[w]>>
         /\ \A w \in Waiters : Current(w)[1] = w /\ Current(w)[2] = call[w]
         /\ \A w \in Waiters : Alive(Current(w)) <=> pc[w] # "idle"
         /\ \A w \in Waiters : call[w] \in 1..MaxCalls => Current(w) \in Calls
         /\ event.ok \in BOOLEAN
<1> USE FwIsoResourceWaiterAssumption
<1>1. \A c \in Calls : c[1] \in Waiters /\ c[2] \in 1..MaxCalls /\ c = <<c[1], c[2]>>
  BY DEF Calls
<1>2. \A w \in Waiters : call[w] \in Nat
  BY DEF TypeOK
<1>3. event.ok \in BOOLEAN
  <2>1. CASE event \in Answers
    BY <2>1 DEF Answers
  <2>2. CASE event = None
    BY <2>2 DEF None
  <2> QED BY <2>1, <2>2 DEF TypeOK
<1>4. \A w \in Waiters : call[w] \in 1..MaxCalls => Current(w) \in Calls
  BY DEF Calls, Current
<1> QED BY <1>1, <1>2, <1>3, <1>4 DEF Current, Alive

LEMMA TypesKept ==
  ASSUME TypeOK, Underway, [Next]_vars  PROVE TypeOK'
<1> USE FwIsoResourceWaiterAssumption DEF TypeOK, threads, dispatcher
<1> DEFINE Frames == [handled : BOOLEAN, error : BOOLEAN, expired : BOOLEAN]
<1>f. NewFrame \in Frames /\ ~NewFrame.error
  BY DEF NewFrame
<1>g. ASSUME NEW w \in Waiters, Gone(w),
             result' \in [Waiters -> {"none", "TRUE", "EVENT", "TIMEOUT", "REFUSED"}]
      PROVE  /\ frame' \in [Waiters -> Frames]
             /\ signalled' \in [Waiters -> BOOLEAN]
             /\ mutex' \in [Waiters -> {"free", "thread", "dispatcher"}]
             /\ lone' \in [Waiters -> {"no", "unanswered", "TRUE", "EVENT"}]
             /\ inTime' \in [Waiters -> BOOLEAN]
             /\ \A v \in Waiters : frame'[v].error => frame'[v].handled
  BY <1>f, <1>g DEF Gone
<1>1. ASSUME NEW w \in Waiters, WaiterInit(w)  PROVE TypeOK'
  <2> USE <1>1 DEF WaiterInit, Alone
  <2>1. calls' \in 0..MaxCalls /\ call' \in [Waiters -> 0..calls']
    OBVIOUS
  <2>2. frame' \in [Waiters -> Frames] /\ \A v \in Waiters : frame'[v].error => frame'[v].handled
    BY <1>f
  <2>3. lone' \in [Waiters -> {"no", "unanswered", "TRUE", "EVENT"}]
    OBVIOUS
  <2> QED BY <2>1, <2>2, <2>3
<1>2. ASSUME NEW w \in Waiters, Allocate(w)  PROVE TypeOK'
  <2>1. pending' \subseteq Calls
    <3>1. Current(w) \in Calls
      BY <1>2, Ranges DEF Allocate, Underway, Connection
    <3> QED BY <1>2, <3>1 DEF Allocate
  <2> QED BY <1>2, <2>1 DEF Allocate
<1>3. ASSUME NEW w \in Waiters, WaitRefused(w) \/ Return(w)  PROVE TypeOK'
  <2>1. result' \in [Waiters -> {"none", "TRUE", "EVENT", "TIMEOUT", "REFUSED"}] /\ Gone(w)
    BY <1>3 DEF WaitRefused, Return
  <2>2. pc' = [pc EXCEPT ![w] = "idle"] /\ connected' \in [Waiters -> BOOLEAN]
    BY <1>3 DEF WaitRefused, Return
  <2> QED BY <1>3, <1>g, <2>1, <2>2 DEF WaitRefused, Return
<1>4. ASSUME NEW w \in Waiters, Wait(w)  PROVE TypeOK'
  <2>1. /\ pc' \in [Waiters -> {"idle", "connected", "failed", "requested",
                                "sleeping", "leaving", "unlocked"}]
        /\ mutex' \in [Waiters -> {"free", "thread", "dispatcher"}]
        /\ signalled' \in [Waiters -> BOOLEAN]
    BY <1>4 DEF Wait
  <2> QED BY <1>4, <2>1 DEF Wait
<1>5. ASSUME NEW w \in Waiters, Wake(w) \/ WakeTimeout(w) \/ Disconnect(w)  PROVE TypeOK'
  <2>1. CASE Wake(w)
    BY <2>1 DEF Wake
  <2>2. CASE WakeTimeout(w)
    BY <2>2 DEF WakeTimeout
  <2>3. CASE Disconnect(w)
    BY <2>3 DEF Disconnect
  <2> QED BY <1>5, <2>1, <2>2, <2>3
<1>6. ASSUME NEW w \in Waiters, Expire(w)  PROVE TypeOK'
  <2>1. frame' = [frame EXCEPT ![w].expired = TRUE]
    BY <1>6 DEF Expire
  <2>2. frame' \in [Waiters -> Frames]
    <3>1. [frame[w] EXCEPT !.expired = TRUE] \in Frames
      <4>1. frame[w] \in Frames
        OBVIOUS
      <4> HIDE DEF TypeOK, threads, dispatcher
      <4> QED BY <4>1
    <3>2. frame' = [frame EXCEPT ![w] = [frame[w] EXCEPT !.expired = TRUE]]
      BY <2>1
    <3>3. frame \in [Waiters -> Frames]
      OBVIOUS
    <3> HIDE DEF Frames, TypeOK
    <3> QED BY <3>1, <3>2, <3>3, <1>6
  <2>3. \A v \in Waiters : frame'[v].error = frame[v].error /\ frame'[v].handled = frame[v].handled
    BY <2>1
  <2> QED BY <1>6, <2>2, <2>3 DEF Expire
<1>7. ASSUME NEW c \in Calls, NEW ok \in BOOLEAN, Answer(c, ok)  PROVE TypeOK'
  <2>1. [of |-> c, ok |-> ok] \in Answers
    BY DEF Answers
  <2>2. devq' \in Seq(Answers)
    BY <1>7, <2>1 DEF Answer
  <2>3. lone' \in [Waiters -> {"no", "unanswered", "TRUE", "EVENT"}]
    BY <1>7 DEF Answer
  <2> QED BY <1>7, <2>2, <2>3 DEF Answer
<1>8. CASE Emit
  <2>1. event' \in Answers /\ devq' \in Seq(Answers)
    BY <1>8 DEF Emit
  <2>2. todo' \subseteq Calls
    <3> SUFFICES ASSUME NEW w \in Waiters, connected[w]  PROVE Current(w) \in Calls
      BY <1>8 DEF Emit
    <3> QED BY Ranges DEF Underway, Connection
  <2> QED BY <1>8, <2>1, <2>2 DEF Emit
<1>9. ASSUME NEW c \in Calls, CallHandler(c)  PROVE TypeOK'
  BY <1>9 DEF CallHandler
<1>10. CASE HandleEventSignal
  <2>1. callee \in Calls /\ callee[1] \in Waiters /\ event.ok \in BOOLEAN
    BY <1>10, Ranges DEF HandleEventSignal, Underway, Emission, Calling
  <2>2. PICK w \in Waiters : w = callee[1]
    BY <2>1
  <2>3. /\ frame' = [frame EXCEPT ![w].error = @ \/ ~event.ok, ![w].handled = TRUE]
        /\ mutex' = [mutex EXCEPT ![w] = "dispatcher"]
        /\ signalled' = [signalled EXCEPT ![w] = @ \/ pc[w] = "sleeping"]
    BY <1>10, <2>2 DEF HandleEventSignal
  <2>4. frame' \in [Waiters -> Frames] /\ \A v \in Waiters : frame'[v].error => frame'[v].handled
    <3> DEFINE new == [frame[w] EXCEPT !.error = @ \/ ~event.ok, !.handled = TRUE]
    <3>1. frame' = [frame EXCEPT ![w] = new]
      BY <2>3
    <3>2. new \in Frames /\ new.handled
      <4>1. (frame[w].error \/ ~event.ok) \in BOOLEAN
        BY <2>1
      <4>2. frame[w] \in Frames
        OBVIOUS
      <4> HIDE DEF TypeOK, threads, dispatcher
      <4> QED BY <4>1, <4>2
    <3>3. frame \in [Waiters -> Frames] /\ \A v \in Waiters : frame[v].error => frame[v].handled
      OBVIOUS
    <3> HIDE DEF Frames, TypeOK, new
    <3> QED BY <3>1, <3>2, <3>3
  <2>5. signalled' \in [Waiters -> BOOLEAN]
    BY <2>3
  <2> QED BY <1>10, <2>3, <2>4, <2>5 DEF HandleEventSignal
<1>11. CASE HandlerReturns
  BY <1>11 DEF HandlerReturns
<1>12. CASE HandlerOnDeadFrame
  BY <1>12 DEF HandlerOnDeadFrame
<1>13. CASE EmitDone
  <2>1. inTime' \in [Waiters -> BOOLEAN]
    BY <1>13 DEF EmitDone
  <2> QED BY <1>13, <2>1 DEF EmitDone
<1>14. CASE UNCHANGED vars
  BY <1>14 DEF vars
<1> HIDE DEF TypeOK, threads, dispatcher, Frames
<1>15. ASSUME NEW w \in Waiters, Thread(w)  PROVE TypeOK'
  BY <1>1, <1>2, <1>3, <1>4, <1>5, <1>15 DEF Thread
<1>16. CASE Handling
  BY <1>9, <1>10, <1>11, <1>12, <1>13, <1>16 DEF Handling
<1> QED BY <1>6, <1>7, <1>8, <1>14, <1>15, <1>16 DEF Next, Done

LEMMA WakeupKept ==
  ASSUME TypeOK, Underway, NoLostWakeup, [Next]_vars  PROVE NoLostWakeup'
<1> USE DEF TypeOK, threads, dispatcher
<1> SUFFICES ASSUME NEW v \in Waiters, pc'[v] = "sleeping", frame'[v].handled
             PROVE  signalled'[v]
  BY DEF NoLostWakeup
<1>0. pc[v] = "sleeping" /\ frame[v].handled => signalled[v]
  BY DEF NoLostWakeup
<1>1. ASSUME NEW w \in Waiters, WaiterInit(w)  PROVE signalled'[v]
  BY <1>0, <1>1 DEF WaiterInit
<1>2. ASSUME NEW w \in Waiters, Allocate(w) \/ Wake(w) \/ WakeTimeout(w) \/ Disconnect(w)
      PROVE  signalled'[v]
  BY <1>0, <1>2 DEF Allocate, Wake, WakeTimeout, Disconnect
<1>3. ASSUME NEW w \in Waiters, WaitRefused(w) \/ Return(w)  PROVE signalled'[v]
  <2>1. /\ pc' = [pc EXCEPT ![w] = "idle"]
        /\ frame' = [frame EXCEPT ![w] = NewFrame]
        /\ signalled' = [signalled EXCEPT ![w] = FALSE]
    BY <1>3 DEF WaitRefused, Return, Gone
  <2>2. v # w
    BY <2>1
  <2> QED BY <1>0, <2>1, <2>2
<1>4. ASSUME NEW w \in Waiters, Wait(w)  PROVE signalled'[v]
  BY <1>0, <1>4 DEF Wait
<1>5. ASSUME NEW w \in Waiters, Expire(w)  PROVE signalled'[v]
  BY <1>0, <1>5 DEF Expire
<1>6. CASE HandleEventSignal
  <2>1. callee[1] \in Waiters
    BY <1>6, Ranges DEF HandleEventSignal, Underway, Emission, Calling
  <2>2. PICK w \in Waiters : w = callee[1]
    BY <2>1
  <2>3. /\ frame' = [frame EXCEPT ![w].error = @ \/ ~event.ok, ![w].handled = TRUE]
        /\ pc' = pc
        /\ signalled' = [signalled EXCEPT ![w] = @ \/ pc[w] = "sleeping"]
    BY <1>6, <2>2 DEF HandleEventSignal
  <2>4. CASE v = w
    BY <2>3, <2>4
  <2>5. CASE v # w
    BY <1>0, <2>3, <2>5
  <2> QED BY <2>4, <2>5
<1>7. ASSUME UNCHANGED <<pc, frame, signalled>>  PROVE signalled'[v]
  BY <1>0, <1>7
<1> QED BY <1>1, <1>2, <1>3, <1>4, <1>5, <1>6, <1>7
        DEF Next, Thread, Handling, Done, vars, Answer, Emit, CallHandler, HandlerReturns,
            HandlerOnDeadFrame, EmitDone

-----------------------------------------------------------------------------
LEMMA RequestsKept ==
  ASSUME TypeOK, Underway, [Next]_vars  PROVE RequestsNumbered'
<1> USE DEF threads, dispatcher
<1>0. RequestsNumbered /\ \A w \in Waiters : call[w] \in Nat /\ call[w] <= calls
  BY FwIsoResourceWaiterAssumption DEF Underway, TypeOK
<1>a. ASSUME \A c : Asked(c)' => Asked(c), call' = call,
             \A w \in Waiters : pc'[w] \in {"connected", "failed"} =>
                                pc[w] \in {"connected", "failed"}
      PROVE  RequestsNumbered'
  BY <1>0, <1>a DEF RequestsNumbered
<1>b. ASSUME UNCHANGED <<pending, devq, dpc, event>>  PROVE \A c : Asked(c)' <=> Asked(c)
  BY <1>b DEF Asked
<1>1. ASSUME NEW w \in Waiters, WaiterInit(w)  PROVE RequestsNumbered'
  <2>1. \A c : Asked(c)' <=> Asked(c)
    BY <1>1, <1>b DEF WaiterInit
  <2>2. \A v \in Waiters : IF v = w THEN call'[v] = calls + 1
                                   ELSE call'[v] = call[v] /\ pc'[v] = pc[v]
    BY <1>1 DEF WaiterInit, TypeOK
  <2>3. calls \in Nat
    BY FwIsoResourceWaiterAssumption DEF TypeOK
  <2> QED BY <1>0, <2>1, <2>2, <2>3 DEF RequestsNumbered
<1>2. ASSUME NEW w \in Waiters, Allocate(w)  PROVE RequestsNumbered'
  <2>1. CASE pending' = pending
    <3>1. \A c : Asked(c)' <=> Asked(c)
      BY <1>2, <1>b, <2>1 DEF Allocate
    <3> QED BY <1>2, <1>a, <2>1, <3>1 DEF Allocate, TypeOK
  <2>2. CASE pending' = pending \cup {Current(w)} /\ pc' = [pc EXCEPT ![w] = "requested"]
    <3>1. \A c : Asked(c)' => Asked(c) \/ c = <<w, call[w]>>
      BY <1>2, <2>2 DEF Allocate, Asked, Current
    <3>2. call' = call /\ \A v \in Waiters : pc'[v] = IF v = w THEN "requested" ELSE pc[v]
      BY <1>2, <2>2 DEF Allocate, TypeOK
    <3>3. \A v \in Waiters : \A n \in Nat : <<v, n>> = <<w, call[w]>> => v = w /\ n = call[w]
      OBVIOUS
    <3> QED BY <1>0, <3>1, <3>2, <3>3 DEF RequestsNumbered
  <2> QED BY <1>2, <2>1, <2>2 DEF Allocate
<1>3. ASSUME NEW w \in Waiters,
             \/ WaitRefused(w) \/ Wait(w) \/ Wake(w) \/ WakeTimeout(w) \/ Disconnect(w)
             \/ Return(w) \/ Expire(w)
      PROVE  RequestsNumbered'
  <2>1. call' = call /\ UNCHANGED <<pending, devq, dpc, event>>
    BY <1>3 DEF WaitRefused, Wait, Wake, WakeTimeout, Disconnect, Return, Expire
  <2>2. \A v \in Waiters : pc'[v] \in {"connected", "failed"} => pc[v] \in {"connected", "failed"}
    BY <1>3 DEF WaitRefused, Wait, Wake, WakeTimeout, Disconnect, Return, Expire, TypeOK
  <2> QED BY <1>a, <1>b, <2>1, <2>2
<1>4. ASSUME NEW d \in Calls, NEW ok \in BOOLEAN, Answer(d, ok)  PROVE RequestsNumbered'
  <2>1. /\ d \in pending /\ pending' = pending \ {d} /\ UNCHANGED <<dpc, event, pc, call>>
        /\ devq' = Append(devq, [of |-> d, ok |-> ok]) /\ devq \in Seq(Answers)
    BY <1>4 DEF Answer, TypeOK
  <2>2. \A i \in DOMAIN devq' : devq'[i].of = d \/ (i \in DOMAIN devq /\ devq'[i] = devq[i])
    <3>1. /\ DOMAIN devq = 1..Len(devq) /\ Len(devq) \in Nat
          /\ DOMAIN devq' = 1..(Len(devq) + 1) /\ devq'[Len(devq) + 1] = [of |-> d, ok |-> ok]
          /\ \A i \in 1..Len(devq) : devq'[i] = devq[i]
      BY <2>1
    <3> QED BY <3>1
  <2>3. \A c : Asked(c)' => Asked(c)
    BY <2>1, <2>2 DEF Asked
  <2> QED BY <1>a, <2>1, <2>3
<1>5. CASE Emit
  <2>1. /\ devq # <<>> /\ devq \in Seq(Answers) /\ event' = Head(devq) /\ devq' = Tail(devq)
        /\ UNCHANGED <<pending, pc, call>>
    BY <1>5 DEF Emit, TypeOK
  <2>2. /\ 1 \in DOMAIN devq /\ event' = devq[1]
        /\ \A i \in DOMAIN devq' : i + 1 \in DOMAIN devq /\ devq'[i] = devq[i + 1]
    <3>1. /\ Len(devq) \in Nat \ {0} /\ DOMAIN devq = 1..Len(devq) /\ event' = devq[1]
          /\ DOMAIN devq' = 1..(Len(devq) - 1)
          /\ \A i \in 1..(Len(devq) - 1) : devq'[i] = devq[i + 1]
      BY <2>1
    <3> QED BY <3>1
  <2>3. \A c : Asked(c)' => Asked(c)
    BY <2>1, <2>2 DEF Asked
  <2> QED BY <1>a, <2>1, <2>3
<1>6. ASSUME Handling \/ UNCHANGED vars  PROVE RequestsNumbered'
  <2>1. UNCHANGED <<pending, devq, pc, call>> /\ (dpc' # "idle" => event' = event /\ dpc # "idle")
    BY <1>6 DEF Handling, CallHandler, HandleEventSignal, HandlerReturns, HandlerOnDeadFrame,
       EmitDone, vars
  <2>2. \A c : Asked(c)' => Asked(c)
    BY <2>1 DEF Asked
  <2> QED BY <1>a, <2>1, <2>2
<1> QED BY <1>1, <1>2, <1>3, <1>4, <1>5, <1>6 DEF Next, Thread, Done

LEMMA HandlersKept ==
  ASSUME TypeOK, Underway, [Next]_vars  PROVE HandlersNumbered'
<1> USE DEF threads, dispatcher
<1>0. HandlersNumbered /\ \A w \in Waiters : call[w] \in Nat /\ call[w] <= calls
  BY FwIsoResourceWaiterAssumption DEF Underway, TypeOK
<1>a. ASSUME \A w \in Waiters : call[w] <= call'[w] /\ call'[w] \in Nat,
             UNCHANGED <<todo, dpc, callee>>
      PROVE  HandlersNumbered'
  BY <1>0, <1>a DEF HandlersNumbered, Calling
<1>1. ASSUME NEW w \in Waiters, WaiterInit(w)  PROVE HandlersNumbered'
  <2>1. \A v \in Waiters : call'[v] = IF v = w THEN calls + 1 ELSE call[v]
    BY <1>1 DEF WaiterInit, TypeOK
  <2>2. calls \in Nat
    BY FwIsoResourceWaiterAssumption DEF TypeOK
  <2> QED BY <1>0, <1>1, <1>a, <2>1, <2>2 DEF WaiterInit
<1>2. ASSUME UNCHANGED <<call, todo, dpc, callee>>  PROVE HandlersNumbered'
  BY <1>0, <1>2, <1>a
<1>3. CASE Emit
  <2>1. call' = call /\ dpc' = "emitting" /\ \A c \in todo' : \E w \in Waiters : c = <<w, call[w]>>
    BY <1>3 DEF Emit, Current
  <2>2. ASSUME NEW w \in Waiters, NEW n \in Nat, <<w, n>> \in todo'  PROVE n <= call[w]
    <3>1. n = call[w]
      BY <2>1, <2>2
    <3> QED BY <1>0, <3>1
  <2> QED BY <2>1, <2>2 DEF HandlersNumbered, Calling
<1>4. ASSUME NEW c \in Calls, CallHandler(c)  PROVE HandlersNumbered'
  <2>1. call' = call /\ todo' \subseteq todo
    BY <1>4 DEF CallHandler
  <2>2. Calling' => callee' \in todo
    BY <1>4 DEF CallHandler, Calling
  <2> QED BY <1>0, <2>1, <2>2 DEF HandlersNumbered
<1>5. CASE HandleEventSignal \/ HandlerReturns \/ HandlerOnDeadFrame \/ EmitDone
  <2>1. call' = call /\ todo' = todo /\ (Calling' => Calling /\ callee' = callee)
    BY <1>5 DEF HandleEventSignal, HandlerReturns, HandlerOnDeadFrame, EmitDone, Calling
  <2> QED BY <1>0, <2>1 DEF HandlersNumbered
<1> QED BY <1>1, <1>2, <1>3, <1>4, <1>5 DEF Next, Thread, Handling, Done, vars, Allocate,
        WaitRefused, Wait, Wake, WakeTimeout, Disconnect, Return, Expire, Answer

LEMMA Others ==
  ASSUME TypeOK, NEW w \in Waiters, Thread(w) \/ Expire(w), NEW v \in Waiters, v # w
  PROVE  /\ pc'[v] = pc[v] /\ call'[v] = call[v] /\ frame'[v] = frame[v]
         /\ connected'[v] = connected[v] /\ mutex'[v] = mutex[v]
         /\ result'[v] = result[v] /\ inTime'[v] = inTime[v]
         /\ UNCHANGED <<dispatcher, devq>>
<1> USE DEF TypeOK, threads, dispatcher
<1>1. CASE WaiterInit(w) \/ Allocate(w) \/ Wait(w) \/ Wake(w) \/ WakeTimeout(w)
  BY <1>1 DEF WaiterInit, Alone, Allocate, Wait, Wake, WakeTimeout
<1>2. CASE WaitRefused(w) \/ Return(w)
  BY <1>2 DEF WaitRefused, Return, Gone
<1>3. CASE Disconnect(w)
  BY <1>3 DEF Disconnect
<1>4. CASE Expire(w)
  BY <1>4 DEF Expire
<1> QED BY <1>1, <1>2, <1>3, <1>4 DEF Thread

LEMMA UnderwayKept ==
  ASSUME TypeOK, Underway, [Next]_vars  PROVE Underway'
<1> USE DEF threads, dispatcher
<1>1. Emission'
  <2>0. Emission
    BY DEF Underway
  <2>1. CASE Emit
    BY <2>1 DEF Emit, TypeOK, Emission, Calling
  <2>2. ASSUME NEW c \in Calls, CallHandler(c)  PROVE Emission'
    BY <2>0, <2>2 DEF CallHandler, Emission, Calling
  <2>3. CASE HandleEventSignal \/ HandlerReturns \/ HandlerOnDeadFrame \/ EmitDone
    BY <2>0, <2>3 DEF HandleEventSignal, HandlerReturns, HandlerOnDeadFrame, EmitDone,
       Emission, Calling
  <2>4. ASSUME UNCHANGED <<dpc, callee, event>>  PROVE Emission'
    BY <2>0, <2>4 DEF Emission, Calling
  <2> QED BY <2>1, <2>2, <2>3, <2>4 DEF Next, Thread, Handling, Done, vars, WaiterInit,
        Allocate, WaitRefused, Wait, Wake, WakeTimeout, Disconnect, Return, Expire, Answer
<1>2. Connection'
  <2>0. Connection
    BY DEF Underway
  <2>1. ASSUME NEW w \in Waiters, Thread(w) \/ Expire(w)  PROVE Connection'
    <3>1. SUFFICES ASSUME NEW v \in Waiters
                   PROVE  /\ pc'[v] # "idle" => call'[v] \in 1..MaxCalls
                          /\ connected'[v] <=> pc'[v] \in {"connected", "failed", "requested",
                                                          "sleeping", "leaving"}
      BY DEF Connection
    <3>2. CASE v # w
      BY <2>0, <2>1, <3>2, Others DEF Connection
    <3>3. CASE v = w
      <4>1. CASE WaiterInit(w)
        <5>1. calls + 1 \in 1..MaxCalls
          BY <4>1, FwIsoResourceWaiterAssumption DEF WaiterInit, TypeOK
        <5>2. pc'[w] = "connected" /\ call'[w] = calls + 1 /\ connected'[w] = TRUE
          BY <4>1 DEF WaiterInit, TypeOK
        <5> QED BY <3>3, <5>1, <5>2
      <4>2. CASE WaitRefused(w) \/ Disconnect(w) \/ Return(w)
        <5>1. /\ call'[w] = call[w] /\ pc'[w] \in {"idle", "unlocked"} /\ pc[w] # "idle"
              /\ IF pc[w] = "unlocked" THEN connected'[w] = connected[w]
                 ELSE connected'[w] = FALSE
          BY <4>2 DEF WaitRefused, Disconnect, Return, TypeOK
        <5> QED BY <2>0, <3>3, <5>1 DEF Connection
      <4>3. CASE Allocate(w) \/ Wait(w) \/ Wake(w) \/ WakeTimeout(w)
        <5>1. /\ call'[w] = call[w] /\ connected'[w] = connected[w]
              /\ pc[w] \in {"connected", "requested", "sleeping"}
              /\ pc'[w] \in {"failed", "requested", "sleeping", "leaving"}
          BY <4>3 DEF Allocate, Wait, Wake, WakeTimeout, TypeOK
        <5> QED BY <2>0, <3>3, <5>1 DEF Connection
      <4>4. CASE Expire(w)
        BY <2>0, <3>3, <4>4 DEF Expire, Connection
      <4> QED BY <2>1, <4>1, <4>2, <4>3, <4>4 DEF Thread
    <3> QED BY <3>2, <3>3
  <2>3. ASSUME UNCHANGED <<pc, call, connected>>  PROVE Connection'
    BY <2>0, <2>3 DEF Connection
  <2> QED BY <2>1, <2>3 DEF Next, Handling, Done, vars, Answer, Emit,
        CallHandler, HandleEventSignal, HandlerReturns, HandlerOnDeadFrame, EmitDone
<1> QED BY <1>1, <1>2, RequestsKept, HandlersKept DEF Underway

-----------------------------------------------------------------------------
LEMMA LocksKept ==
  ASSUME TypeOK, Underway, Locks, [Next]_vars  PROVE Locks'
<1> USE DEF TypeOK, threads, dispatcher
<1> SUFFICES ASSUME NEW v \in Waiters  PROVE HeldBy(v)'
  BY DEF Locks
<1>0. HeldBy(v)
  BY DEF Locks
<1>1. ASSUME NEW w \in Waiters, Thread(w) \/ Expire(w), v # w  PROVE HeldBy(v)'
  BY <1>0, <1>1, Others DEF HeldBy, Current
<1>2. ASSUME WaiterInit(v)  PROVE HeldBy(v)'
  <2>1. /\ mutex' = mutex /\ pc[v] = "idle" /\ pc'[v] = "connected"
        /\ dpc' = dpc /\ callee' = callee /\ call'[v] = calls + 1
    BY <1>2 DEF WaiterInit
  <2>2. ~(dpc = "locked" /\ callee = <<v, calls + 1>>)
    <3>1. calls + 1 \in Nat /\ ~(calls + 1 <= call[v])
      BY FwIsoResourceWaiterAssumption
    <3> QED BY <3>1 DEF Underway, HandlersNumbered, Calling
  <2> QED BY <1>0, <2>1, <2>2 DEF HeldBy, Current
<1>3. ASSUME WaitRefused(v) \/ Return(v)  PROVE HeldBy(v)'
  BY <1>3 DEF WaitRefused, Return, Gone, HeldBy
<1>4. ASSUME Allocate(v) \/ Expire(v)  PROVE HeldBy(v)'
  <2>1. /\ mutex' = mutex /\ UNCHANGED <<dpc, callee, call>>
        /\ pc[v] # "idle" /\ pc'[v] # "idle" /\ (pc[v] = "leaving" <=> pc'[v] = "leaving")
    BY <1>4 DEF Allocate, Expire
  <2> QED BY <1>0, <2>1 DEF HeldBy, Current
<1>5. ASSUME Wait(v) \/ Wake(v) \/ WakeTimeout(v) \/ Disconnect(v)  PROVE HeldBy(v)'
  <2>1. /\ mutex[v] # "dispatcher" /\ UNCHANGED <<dpc, callee, call>>
        /\ pc[v] # "idle" /\ pc'[v] # "idle" /\ mutex'[v] # "dispatcher"
        /\ (mutex'[v] = "thread" <=> pc'[v] = "leaving")
    BY <1>0, <1>5 DEF Wait, Wake, WakeTimeout, Disconnect, HeldBy
  <2> QED BY <1>0, <2>1 DEF HeldBy, Current
<1>6. CASE HandleEventSignal
  <2>1. callee \in Calls /\ callee[1] \in Waiters
    BY <1>6, Ranges DEF HandleEventSignal, Underway, Emission, Calling
  <2>2. PICK w \in Waiters : w = callee[1]
    BY <2>1
  <2>3. /\ mutex[w] = "free" /\ mutex' = [mutex EXCEPT ![w] = "dispatcher"]
        /\ callee = Current(w) /\ pc[w] # "idle" /\ dpc = "calling" /\ dpc' = "locked"
        /\ UNCHANGED <<callee, pc, call>>
    BY <1>6, <2>2 DEF HandleEventSignal, Alive
  <2>4. v # w => callee # Current(v)
    BY <2>3 DEF Current
  <2> QED BY <1>0, <2>3, <2>4 DEF HeldBy, Current
<1>7. CASE HandlerReturns
  <2>1. callee \in Calls /\ callee[1] \in Waiters
    BY <1>7, Ranges DEF HandlerReturns, Underway, Emission, Calling
  <2>2. PICK w \in Waiters : w = callee[1]
    BY <2>1
  <2>3. /\ dpc = "locked" /\ dpc' = "emitting" /\ UNCHANGED <<pc, call>>
        /\ mutex' = [mutex EXCEPT ![w] = IF Alive(callee) THEN "free" ELSE @]
        /\ Alive(callee) <=> callee = Current(w) /\ pc[w] # "idle"
    BY <1>7, <2>2 DEF HandlerReturns, Alive
  <2>4. v # w => callee # Current(v)
    BY <2>2 DEF Current
  <2> QED BY <1>0, <2>3, <2>4 DEF HeldBy, Current
<1>8. ASSUME UNCHANGED <<pc, call, mutex>>, dpc # "locked", dpc' # "locked"  PROVE HeldBy(v)'
  BY <1>0, <1>8 DEF HeldBy, Current
<1>9. ASSUME UNCHANGED <<pc, call, mutex, dpc, callee>>  PROVE HeldBy(v)'
  BY <1>0, <1>9 DEF HeldBy, Current
<1>10. CASE Emit \/ HandlerOnDeadFrame \/ EmitDone \/ \E c \in Calls : CallHandler(c)
  BY <1>8, <1>10 DEF Emit, HandlerOnDeadFrame, EmitDone, CallHandler
<1> QED BY <1>1, <1>2, <1>3, <1>4, <1>5, <1>6, <1>7, <1>9, <1>10
        DEF Next, Thread, Handling, Done, vars, Answer

-----------------------------------------------------------------------------
(* The emission of an answer to a call finds the call past its begin.      *)
LEMMA EmittedWasRequested ==
  ASSUME TypeOK, Underway, NEW v \in Waiters, Asked(Current(v))
  PROVE  pc[v] \notin {"connected", "failed"}
BY Ranges DEF Underway, RequestsNumbered

LEMMA HearingKept ==
  ASSUME TypeOK, Underway, Hearing, [Next]_vars  PROVE Hearing'
<1> USE DEF TypeOK, threads, dispatcher
<1> SUFFICES ASSUME NEW v \in Waiters  PROVE Hears(v)'
  BY DEF Hearing
<1>0. Hears(v)
  BY DEF Hearing
<1>1. ASSUME NEW w \in Waiters, Thread(w) \/ Expire(w), v # w  PROVE Hears(v)'
  <2>1. /\ pc'[v] = pc[v] /\ call'[v] = call[v] /\ frame'[v] = frame[v]
        /\ inTime'[v] = inTime[v] /\ UNCHANGED <<dpc, event, todo, callee>>
    BY <1>1, Others
  <2>2. Current(v)' = Current(v)
    BY <2>1 DEF Current
  <2> QED BY <1>0, <2>1, <2>2 DEF Hears
<1>2. ASSUME WaiterInit(v)  PROVE Hears(v)'
  <2>1. pc'[v] = "connected" /\ inTime'[v] = FALSE
    BY <1>2 DEF WaiterInit, Alone
  <2> QED BY <2>1 DEF Hears
<1>3. ASSUME Allocate(v)  PROVE Hears(v)'
  <2>1. ~(dpc # "idle" /\ event.of = Current(v))
    BY <1>3, EmittedWasRequested DEF Allocate, Asked
  <2> QED BY <1>0, <1>3, <2>1 DEF Allocate, Hears, Current
<1>4. ASSUME WaitRefused(v) \/ Return(v)  PROVE Hears(v)'
  <2>1. pc'[v] = "idle" /\ inTime'[v] = (inTime[v] /\ result'[v] = "TIMEOUT")
    BY <1>4 DEF WaitRefused, Return, Gone
  <2>2. inTime[v] => result'[v] # "TIMEOUT"
    BY <1>0, <1>4 DEF WaitRefused, Return, Hears
  <2> QED BY <2>1, <2>2 DEF Hears
<1>5. ASSUME Wait(v) \/ Wake(v) \/ WakeTimeout(v) \/ Disconnect(v)  PROVE Hears(v)'
  <2>1. /\ pc[v] # "idle" /\ pc'[v] # "idle" /\ UNCHANGED <<call, frame, inTime, dispatcher>>
        /\ pc'[v] \in {"requested", "sleeping"} => pc[v] \in {"requested", "sleeping"}
        /\ pc'[v] \in {"leaving", "unlocked"} =>
             pc[v] = "leaving" \/ frame[v].handled \/ frame[v].expired
    BY <1>5 DEF Wait, Wake, WakeTimeout, Disconnect
  <2> QED BY <1>0, <2>1 DEF Hears, Current
<1>6. ASSUME Expire(v)  PROVE Hears(v)'
  <2>1. frame'[v].expired /\ frame'[v].handled = frame[v].handled
    BY <1>6 DEF Expire
  <2> QED BY <1>0, <1>6, <2>1 DEF Expire, Hears, Current
<1>7. CASE Emit
  <2>1. pc[v] \in {"requested", "sleeping"} => Current(v) \in todo'
    BY <1>7 DEF Emit, Underway, Connection
  <2> QED BY <1>0, <1>7, <2>1 DEF Emit, Hears, Current
<1>8. ASSUME NEW c \in Calls, CallHandler(c)  PROVE Hears(v)'
  <2>1. c = Current(v) /\ pc[v] \in {"requested", "sleeping"} =>
          dpc' = "calling" /\ callee' = c
    <3>1. c = Current(v) /\ pc[v] \in {"requested", "sleeping"} =>
            Alive(c) /\ connected[c[1]]
      BY Ranges DEF Underway, Connection
    <3> QED BY <1>8, <3>1 DEF CallHandler
  <2>2. dpc = "emitting" /\ todo' = todo \ {c} /\ UNCHANGED <<pc, call, frame, inTime, event>>
    BY <1>8 DEF CallHandler
  <2> QED BY <1>0, <2>1, <2>2 DEF Hears, Current
<1>9. CASE HandleEventSignal
  <2>1. callee[1] \in Waiters
    BY <1>9, Ranges DEF HandleEventSignal, Underway, Emission, Calling
  <2>2. PICK w \in Waiters : w = callee[1]
    BY <2>1
  <2>3. /\ frame' = [frame EXCEPT ![w].error = @ \/ ~event.ok, ![w].handled = TRUE]
        /\ dpc = "calling" /\ UNCHANGED <<pc, call, todo, event, callee, inTime>>
    BY <1>9, <2>2 DEF HandleEventSignal
  <2>4. IF v = w THEN frame'[v].handled
                 ELSE frame'[v] = frame[v] /\ callee # Current(v)
    BY <2>2, <2>3 DEF Current
  <2>5. frame'[v].expired = frame[v].expired
    BY <2>3
  <2> QED BY <1>0, <2>3, <2>4, <2>5 DEF Hears, Current
<1>10. CASE HandlerReturns
  BY <1>0, <1>10 DEF HandlerReturns, Hears, Current
<1>11. CASE HandlerOnDeadFrame
  <2>1. callee = Current(v) => pc[v] = "idle"
    BY <1>11, Ranges DEF HandlerOnDeadFrame
  <2> QED BY <1>0, <1>11, <2>1 DEF HandlerOnDeadFrame, Hears, Current
<1>12. CASE EmitDone
  <2>1. /\ dpc = "emitting" /\ todo = {} /\ dpc' = "idle" /\ UNCHANGED <<pc, frame>>
        /\ inTime'[v] = \/ inTime[v]
                        \/ event.of = Current(v) /\ Alive(event.of) /\ ~frame[v].expired
    BY <1>12 DEF EmitDone
  <2>2. ASSUME event.of = Current(v), Alive(event.of), ~frame[v].expired
        PROVE  pc[v] # "idle" /\ frame[v].handled
    <3>1. pc[v] # "idle" /\ pc[v] \notin {"connected", "failed"}
      BY <2>1, <2>2, Ranges, EmittedWasRequested DEF Asked
    <3> QED BY <1>0, <2>1, <2>2, <3>1 DEF Hears
  <2> QED BY <1>0, <2>1, <2>2 DEF Hears
<1>13. ASSUME UNCHANGED <<pc, call, frame, inTime, dpc, event, todo, callee>>  PROVE Hears(v)'
  BY <1>0, <1>13 DEF Hears, Current
<1> QED BY <1>1, <1>2, <1>3, <1>4, <1>5, <1>6, <1>7, <1>8, <1>9, <1>10, <1>11, <1>12, <1>13
        DEF Next, Thread, Handling, Done, vars, Answer

-----------------------------------------------------------------------------
(* The steps of the thread that makes the call.                            *)
LEMMA LoneByThread ==
  ASSUME TypeOK, Locks, LoneCalls, NEW v \in Waiters, Thread(v) \/ Expire(v)
  PROVE  Lone(v)'
<1> USE DEF TypeOK, threads, dispatcher
<1>0. Lone(v)
  BY DEF LoneCalls
<1>1. CASE WaiterInit(v)
  <2>1. /\ pc' = [pc EXCEPT ![v] = "connected"] /\ frame'[v] = NewFrame
        /\ UNCHANGED <<pending, devq, dpc>>
    BY <1>1 DEF WaiterInit
  <2>2. lone'[v] # "no" =>
          /\ lone'[v] = "unanswered" /\ pending = {} /\ devq = <<>> /\ dpc = "idle"
          /\ \A u \in Waiters : pc[u] = "idle"
    BY <1>1 DEF WaiterInit, Alone
  <2>3. ~frame'[v].handled
    BY <2>1 DEF NewFrame
  <2>4. lone'[v] # "no" => Unasked(v)'
    BY <2>1, <2>2, <2>3 DEF Unasked
  <2> QED BY <2>1, <2>2, <2>4 DEF Lone, Phase
<1>2. CASE Allocate(v)
  <2>1. /\ pc[v] = "connected" /\ UNCHANGED <<frame, lone, devq, dpc, call>>
        /\ \A u \in Waiters : u # v => pc'[u] = pc[u]
        /\ \/ pc'[v] = "requested" /\ pending' = pending \cup {Current(v)}
           \/ pc'[v] = "failed" /\ pending' = pending
    BY <1>2 DEF Allocate
  <2>2. lone[v] # "no" /\ ~frame[v].expired => Unasked(v)
    BY <1>0, <2>1 DEF Lone, Phase, Requested, Answered, AboutToCall, Called, Before, Locked,
       CalledBack
  <2>3. lone[v] # "no" /\ ~frame[v].expired => (Requested(v) \/ Unasked(v))'
    BY <2>1, <2>2 DEF Requested, Unasked, Before, Current
  <2> QED BY <1>0, <2>1, <2>3 DEF Lone, Phase
<1>3. CASE WaitRefused(v)
  <2>1. /\ pc[v] = "failed" /\ pc'[v] = "idle" /\ result'[v] = "REFUSED"
        /\ lone'[v] = IF frame[v].expired THEN "no" ELSE lone[v]
        /\ UNCHANGED <<dpc, callee, call>>
    BY <1>3 DEF WaitRefused, Gone
  <2>2. lone'[v] # "no" => dpc = "idle"
    BY <1>0, <2>1 DEF Lone, Phase, Unasked, Requested, Answered, AboutToCall, Called, Before,
       Locked, CalledBack
  <2> QED BY <2>1, <2>2 DEF Lone, Calling
<1>4. CASE Return(v)
  <2>1. /\ pc[v] = "unlocked" /\ pc'[v] = "idle" /\ UNCHANGED <<dpc, callee, call>>
        /\ result'[v] = IF ~frame[v].handled THEN "TIMEOUT"
                        ELSE IF frame[v].error THEN "EVENT" ELSE "TRUE"
        /\ lone'[v] = IF frame[v].expired THEN "no" ELSE lone[v]
    BY <1>4 DEF Return, Gone
  <2>2. lone'[v] # "no" => CalledBack(v)
    BY <1>0, <2>1 DEF Lone, Phase, Unasked, Requested, Answered, AboutToCall, Called, Before,
       Locked
  <2>3. lone'[v] # "no" => result'[v] = lone'[v] /\ ~Calling'
    BY <2>1, <2>2 DEF CalledBack, After, Told, Calling
  <2> QED BY <2>1, <2>3 DEF Lone
<1>5. CASE Wait(v) \/ Wake(v) \/ Disconnect(v)
  <2>1. /\ \A u \in Waiters : u # v => pc'[u] = pc[u]
        /\ UNCHANGED <<frame, lone, pending, devq, dpc, event, todo, callee, call>>
        /\ pc[v] \in {"requested", "sleeping", "leaving"}
        /\ pc'[v] \in {"sleeping", "leaving", "unlocked"}
        /\ ~frame[v].handled => pc[v] = "leaving" \/ pc'[v] = "sleeping"
        /\ mutex[v] # "free" => pc[v] = "leaving"
    BY <1>5 DEF Wait, Wake, Disconnect
  <2>2. ~Locked(v)
    BY <2>1 DEF Locks, HeldBy, Locked
  <2>3. Before(v) => Before(v)'
    BY <2>1 DEF Before
  <2>4. lone[v] # "no" /\ ~frame[v].expired =>
          Requested(v) \/ Answered(v) \/ AboutToCall(v) \/ Called(v) \/ CalledBack(v)
    BY <1>0, <2>1, <2>2 DEF Lone, Phase, Unasked
  <2>5. Requested(v) => Requested(v)'
    BY <2>1, <2>3 DEF Requested, Current
  <2>6. Answered(v) => Answered(v)'
    BY <2>1, <2>3 DEF Answered, Current
  <2>7. AboutToCall(v) => AboutToCall(v)'
    BY <2>1, <2>3 DEF AboutToCall, Emitted, Current
  <2>8. Called(v) => Called(v)'
    BY <2>1, <2>3 DEF Called, Emitted, Current
  <2>9. CalledBack(v) => CalledBack(v)'
    BY <2>1 DEF CalledBack, After
  <2>10. lone[v] # "no" /\ ~frame[v].expired => Phase(v)'
    BY <2>4, <2>5, <2>6, <2>7, <2>8, <2>9 DEF Phase
  <2> QED BY <1>0, <2>1, <2>10 DEF Lone
<1>6. CASE WakeTimeout(v)
  <2>1. /\ \A u \in Waiters : u # v => pc'[u] = pc[u]
        /\ pc[v] # "idle" /\ pc'[v] # "idle" /\ frame[v].expired /\ UNCHANGED <<frame, lone>>
    BY <1>6 DEF WakeTimeout
  <2> QED BY <1>0, <2>1 DEF Lone
<1>7. CASE Expire(v)
  <2>1. pc[v] # "idle" /\ frame'[v].expired /\ UNCHANGED <<pc, lone>>
    BY <1>7 DEF Expire
  <2> QED BY <1>0, <2>1 DEF Lone
<1> QED BY <1>1, <1>2, <1>3, <1>4, <1>5, <1>6, <1>7 DEF Thread

(* The steps of another thread: it is not beside a call alone in its time. *)
LEMMA LoneByOther ==
  ASSUME TypeOK, LoneCalls, NEW v \in Waiters, NEW w \in Waiters, v # w, Thread(w) \/ Expire(w)
  PROVE  Lone(v)'
<1> USE DEF TypeOK, threads, dispatcher
<1>1. Lone(v) /\ UNCHANGED <<dpc, callee>> /\ pc'[v] = pc[v] /\ call'[v] = call[v]
      /\ result'[v] = result[v]
  BY Others DEF LoneCalls
<1>2. CASE WaiterInit(w)
  <2>1. lone'[v] # "no" => pc[v] = "idle" /\ lone'[v] = lone[v]
    BY <1>2 DEF WaiterInit, Alone
  <2> QED BY <1>1, <2>1 DEF Lone, Calling, Current
<1>3. CASE ~WaiterInit(w)
  <2>1. pc[w] # "idle"
    BY <1>3 DEF Thread, Allocate, WaitRefused, Wait, Wake, WakeTimeout, Disconnect, Return, Expire
  <2>2. lone'[v] = lone[v]
    BY <1>3 DEF Thread, Allocate, WaitRefused, Wait, Wake, WakeTimeout, Disconnect, Return,
       Expire, Gone
  <2>3. lone[v] # "no" => pc[v] = "idle"
    BY <1>1, <2>1 DEF Lone
  <2> QED BY <1>1, <2>2, <2>3 DEF Lone, Calling, Current
<1> QED BY <1>2, <1>3

(* The kernel answers, and the dispatcher handles the answer.              *)
LEMMA LoneByAnswer ==
  ASSUME TypeOK, LoneCalls, NEW v \in Waiters, NEW c \in Calls, NEW ok \in BOOLEAN,
         Answer(c, ok)
  PROVE  Lone(v)'
<1> USE DEF TypeOK, threads, dispatcher
<1>1. /\ Lone(v) /\ c \in pending /\ pending' = pending \ {c}
      /\ devq' = Append(devq, [of |-> c, ok |-> ok])
      /\ lone'[v] = IF c = Current(v) /\ lone[v] = "unanswered" THEN Told(ok) ELSE lone[v]
      /\ UNCHANGED <<pc, call, frame, result, dpc, event, todo, callee>>
  BY DEF LoneCalls, Answer, Told
<1>2. CASE pc[v] = "idle"
  <2>1. lone[v] # "no" /\ result[v] # "REFUSED" => lone[v] # "unanswered"
    BY <1>1, <1>2 DEF Lone
  <2> QED BY <1>1, <1>2, <2>1 DEF Lone, Calling, Current
<1>3. CASE pc[v] # "idle"
  <2>1. ASSUME lone'[v] # "no", ~frame[v].expired  PROVE Answered(v)'
    <3>1. lone[v] # "no"
      BY <1>1, <2>1
    <3>2. Requested(v)
      BY <1>1, <1>3, <2>1, <3>1 DEF Lone, Phase, Unasked, Answered, AboutToCall, Called, Locked,
         CalledBack, Emitted
    <3>3. c = Current(v) /\ pending' = {} /\ devq' = <<[of |-> c, ok |-> ok]>>
      BY <1>1, <3>2 DEF Requested
    <3> QED BY <1>1, <3>2, <3>3 DEF Requested, Answered, Before, Current
  <2> QED BY <1>1, <1>3, <2>1 DEF Lone, Phase
<1> QED BY <1>2, <1>3

LEMMA LoneByDispatcher ==
  ASSUME TypeOK, Underway, LoneCalls, NEW v \in Waiters, Emit \/ Handling
  PROVE  Lone(v)'
<1> USE DEF TypeOK, threads, dispatcher
<1>0. /\ Lone(v) /\ UNCHANGED <<pc, call, connected, result, pending, lone>>
      /\ \A w \in Waiters : frame'[w].expired = frame[w].expired
  <2>1. CASE HandleEventSignal
    BY <2>1 DEF HandleEventSignal, LoneCalls
  <2> QED BY <2>1 DEF LoneCalls, Emit, Handling, CallHandler, HandlerReturns,
          HandlerOnDeadFrame, EmitDone
<1>1. CASE pc[v] = "idle"
  <2>1. Calling' /\ callee' = Current(v) => Calling /\ callee = Current(v)
    <3>1. CASE Emit \/ HandleEventSignal \/ HandlerReturns \/ HandlerOnDeadFrame \/ EmitDone
      BY <3>1 DEF Emit, HandleEventSignal, HandlerReturns, HandlerOnDeadFrame, EmitDone, Calling
    <3>2. ASSUME NEW c \in Calls, CallHandler(c)  PROVE ~(Calling' /\ callee' = Current(v))
      BY <1>1, <3>2, Ranges DEF CallHandler, Calling
    <3> QED BY <3>1, <3>2 DEF Handling
  <2> QED BY <1>0, <1>1, <2>1 DEF Lone, Current
<1>2. CASE pc[v] # "idle"
  <2> SUFFICES ASSUME lone[v] # "no", ~frame[v].expired  PROVE Phase(v)'
    BY <1>0, <1>2 DEF Lone
  <2>0. Phase(v) /\ \A u \in Waiters : u # v => pc[u] = "idle"
    BY <1>0, <1>2 DEF Lone
  <2>a. Current(v)' = Current(v)
    BY <1>0 DEF Current
  <2>1. CASE Emit
    <3>1. Answered(v)
      BY <2>0, <2>1 DEF Emit, Phase, Unasked, Requested, AboutToCall, Called, Locked,
         CalledBack, Emitted
    <3>2. PICK ok \in BOOLEAN :
            devq = <<[of |-> Current(v), ok |-> ok]>> /\ lone[v] = Told(ok)
      BY <3>1 DEF Answered
    <3>3. devq' = <<>> /\ event' = [of |-> Current(v), ok |-> ok]
      BY <2>1, <3>2 DEF Emit
    <3>4. todo' = {Current(v)}
      <4>1. connected[v] /\ \A u \in Waiters : u # v => ~connected[u]
        BY <2>0, <3>1 DEF Answered, Before, Underway, Connection
      <4> QED BY <2>1, <4>1 DEF Emit
    <3>5. Told(event'.ok) = Told(ok)
      BY <3>3
    <3>6. AboutToCall(v)'
      BY <1>0, <2>1, <2>a, <3>1, <3>2, <3>3, <3>4, <3>5
         DEF Emit, Answered, AboutToCall, Before, Emitted, Told
    <3> QED BY <3>6 DEF Phase
  <2>2. ASSUME NEW c \in Calls, CallHandler(c)  PROVE Phase(v)'
    <3>1. AboutToCall(v)
      BY <2>0, <2>2 DEF CallHandler, Phase, Unasked, Requested, Answered, Called, Locked,
         CalledBack
    <3>2. c = Current(v) /\ todo' = {} /\ Alive(c) /\ connected[c[1]]
      BY <2>2, <3>1, Ranges DEF CallHandler, AboutToCall, Before, Underway, Connection
    <3>3. Called(v)'
      BY <1>0, <2>2, <2>a, <3>1, <3>2 DEF CallHandler, AboutToCall, Called, Before, Emitted
    <3> QED BY <3>3 DEF Phase
  <2>3. CASE HandleEventSignal
    <3>1. Called(v)
      BY <2>0, <2>3 DEF HandleEventSignal, Phase, Unasked, Requested, Answered, AboutToCall,
         Locked, CalledBack
    <3>2. callee = Current(v) /\ callee[1] = v
      BY <3>1, Ranges DEF Called
    <3>3. frame' = [frame EXCEPT ![v].error = @ \/ ~event.ok, ![v].handled = TRUE]
      BY <2>3, <3>2 DEF HandleEventSignal
    <3>4. ~frame[v].error
      BY <3>1 DEF Called, Before
    <3>5. frame'[v].handled /\ frame'[v].error = ~event.ok
      BY <3>3, <3>4, Ranges
    <3>6. dpc' = "locked" /\ UNCHANGED <<devq, event, callee, todo>>
      BY <2>3 DEF HandleEventSignal
    <3>7. After(v)'
      BY <1>0, <3>1, <3>5, Ranges DEF After, Called, Emitted, Told
    <3>8. Locked(v)'
      BY <1>0, <2>a, <3>1, <3>6, <3>7 DEF Called, Locked, Before, Emitted
    <3> QED BY <3>8 DEF Phase
  <2>4. CASE HandlerReturns
    <3>1. Locked(v)
      BY <2>0, <2>4 DEF HandlerReturns, Phase, Unasked, Requested, Answered, AboutToCall,
         Called, CalledBack
    <3>2. CalledBack(v)'
      BY <1>0, <2>4, <3>1 DEF HandlerReturns, Locked, CalledBack, After, Emitted
    <3> QED BY <3>2 DEF Phase
  <2>5. ASSUME HandlerOnDeadFrame  PROVE FALSE
    <3>1. Called(v)
      BY <2>0, <2>5 DEF HandlerOnDeadFrame, Phase, Unasked, Requested, Answered, AboutToCall,
         Locked, CalledBack
    <3> QED BY <1>2, <2>5, <3>1, Ranges DEF HandlerOnDeadFrame, Called
  <2>6. CASE EmitDone
    <3>1. CalledBack(v)
      BY <2>0, <2>6 DEF EmitDone, Phase, Unasked, Requested, Answered, AboutToCall,
         Called, Locked
    <3>2. CalledBack(v)'
      BY <1>0, <2>6, <3>1 DEF EmitDone, CalledBack, After
    <3> QED BY <3>2 DEF Phase
  <2> QED BY <2>1, <2>2, <2>3, <2>4, <2>5, <2>6 DEF Handling
<1> QED BY <1>1, <1>2

LEMMA LoneKept ==
  ASSUME TypeOK, Underway, Locks, LoneCalls, [Next]_vars  PROVE LoneCalls'
<1> SUFFICES ASSUME NEW v \in Waiters  PROVE Lone(v)'
  BY DEF LoneCalls
<1>1. ASSUME NEW w \in Waiters, Thread(w) \/ Expire(w)  PROVE Lone(v)'
  BY <1>1, LoneByThread, LoneByOther
<1>2. ASSUME NEW c \in Calls, NEW ok \in BOOLEAN, Answer(c, ok)  PROVE Lone(v)'
  BY <1>2, LoneByAnswer
<1>3. CASE Emit \/ Handling
  BY <1>3, LoneByDispatcher
<1>4. CASE UNCHANGED vars
  BY <1>4 DEF vars, threads, dispatcher, LoneCalls, Lone, Phase, Unasked, Requested, Answered,
     AboutToCall, Called, Locked, CalledBack, Before, After, Emitted, Current, Calling
<1> QED BY <1>1, <1>2, <1>3, <1>4 DEF Next, Done

-----------------------------------------------------------------------------
LEMMA IInvInit ==
  ASSUME Init  PROVE IInv
<1> USE FwIsoResourceWaiterAssumption DEF Init
<1>1. TypeOK
  BY DEF TypeOK, NewFrame, Answers
<1>2. ~Calling /\ dpc = "idle" /\ \A c : ~Asked(c)
  BY DEF Calling, Asked
<1>3. Underway
  BY <1>2 DEF Underway, RequestsNumbered, HandlersNumbered, Emission, Connection
<1>4. Locks /\ Hearing /\ LoneCalls /\ NoLostWakeup
  BY DEF Locks, HeldBy, Hearing, Hears, LoneCalls, Lone, NoLostWakeup
<1> QED BY <1>1, <1>3, <1>4 DEF IInv

LEMMA IInvKept ==
  ASSUME IInv, [Next]_vars  PROVE IInv'
BY TypesKept, UnderwayKept, LocksKept, HearingKept, LoneKept, WakeupKept DEF IInv

LEMMA IInvAlways == Spec => []IInv
<1>1. Init => IInv
  BY IInvInit
<1>2. IInv /\ [Next]_vars => IInv'
  BY IInvKept
<1> QED BY <1>1, <1>2, PTL DEF Spec

-----------------------------------------------------------------------------
(* The frames, mutexes and handlers of the waiters, the queue of answers   *)
(* and the emission keep their types, for any number of threads.           *)
THEOREM TypesCorrect == Spec => []TypeOK
<1>1. IInv => TypeOK
  BY DEF IInv
<1> QED BY <1>1, IInvAlways, PTL

(* fw_iso_resource_waiter_wait does not sleep on with its event handled    *)
(* and no signal pending.                                                  *)
THEOREM SleepersAreWoken == Spec => []NoLostWakeup
<1>1. IInv => NoLostWakeup
  BY DEF IInv
<1> QED BY <1>1, IInvAlways, PTL

(* allocate_wait and deallocate_wait do not fail with TIMEOUT when the     *)
(* answer was emitted before the expiration.                               *)
THEOREM AnswersInTimeAreHeard == Spec => []AnswerInTimeIsHeard
<1>1. IInv => AnswerInTimeIsHeard
  BY DEF IInv, Hearing, Hears, AnswerInTimeIsHeard
<1> QED BY <1>1, IInvAlways, PTL

(* A call alone in its time, over before its expiration, returns the       *)
(* answer to its own request.                                              *)
THEOREM AnswersAreOwn == Spec => []OwnAnswer
<1>1. IInv => OwnAnswer
  BY DEF IInv, LoneCalls, Lone, OwnAnswer
<1> QED BY <1>1, IInvAlways, PTL

(* The handler of such a call is not running when the call has returned,   *)
(* and its frame is gone: disconnecting does not wait for it, but the      *)
(* mutex and the order of the emission do.                                 *)
THEOREM HandlersEndFirst == Spec => []FramesOutliveHandlers
<1>1. IInv => FramesOutliveHandlers
  BY DEF IInv, LoneCalls, Lone, FramesOutliveHandlers, Calling
<1> QED BY <1>1, IInvAlways, PTL
=============================================================================
