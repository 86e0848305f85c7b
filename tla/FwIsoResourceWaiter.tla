------------------------ MODULE FwIsoResourceWaiter ------------------------
(***************************************************************************)
(* struct fw_iso_resource_waiter of fw_iso_resource_private.c, as used by  *)
(* allocate_wait (fw_iso_resource.c) and deallocate_wait: threads connect  *)
(* a handler to the `allocated' (or `deallocated') signal, start a request *)
(* and sleep on a condition variable of their own until the handler, which *)
(* runs in the thread of the dispatcher, has stored the answer.            *)
(*                                                                         *)
(* The waiter is a frame on the stack of its thread.  Signal handlers are  *)
(* not told to which request an event answers.  An emission calls the      *)
(* handlers connected at its start, in some order, except those which are  *)
(* disconnected before their turn; disconnecting a handler does not wait   *)
(* for a call in flight.  The dispatcher is another thread than the        *)
(* waiters.  The error location is not NULL: line 232 reads it.            *)
(***************************************************************************)
EXTENDS Integers, Sequences, FiniteSets

CONSTANTS Waiters,    \* threads which call allocate_wait
          MaxCalls    \* bound: their calls, all together

ASSUME FwIsoResourceWaiterAssumption ==
  IsFiniteSet(Waiters) /\ MaxCalls \in Nat

VARIABLES
  pc,         \* thread: where it is in the call
  calls,      \* how many calls were begun
  call,       \* thread: the number of its last call, which names the frame
  frame,      \* thread: handled, error, and the expiration has passed
  connected,  \* thread: its handler is connected to the signal
  mutex,      \* frame: who holds w->mutex
  signalled,  \* frame: w->cond was signalled while the thread slept on it
  result,     \* thread: what its last call returned
  dpc,        \* dispatcher: where it is
  event,      \* dispatcher: the event being emitted
  todo,       \* dispatcher: the handlers left to be called
  callee,     \* dispatcher: the handler being called
  pending,    \* kernel: requests not answered
  devq,       \* kernel: answers to be read
  lone,       \* history: for a call alone in its time, the answer to it
  inTime      \* history: the answer was emitted before the expiration

threads == <<pc, calls, call, frame, connected, mutex, signalled, result>>
dispatcher == <<dpc, event, todo, callee>>
vars == <<threads, dispatcher, pending, devq, lone, inTime>>

Calls == Waiters \X (1..MaxCalls)
Answers == [of : Calls, ok : BOOLEAN]
None == [of |-> <<>>, ok |-> TRUE]

TypeOK ==
  /\ pc \in [Waiters -> {"idle", "connected", "failed", "requested",
                         "sleeping", "leaving", "unlocked"}]
  /\ calls \in 0..MaxCalls /\ call \in [Waiters -> 0..calls]
  /\ frame \in [Waiters -> [handled : BOOLEAN, error : BOOLEAN,
                            expired : BOOLEAN]]
  /\ connected \in [Waiters -> BOOLEAN]
  /\ mutex \in [Waiters -> {"free", "thread", "dispatcher"}]
  /\ signalled \in [Waiters -> BOOLEAN]
  /\ result \in [Waiters -> {"none", "TRUE", "EVENT", "TIMEOUT", "REFUSED"}]
  /\ dpc \in {"idle", "emitting", "calling", "locked"}
  /\ event \in Answers \cup {None}
  /\ todo \subseteq Calls /\ callee \in Calls \cup {<<>>}
  /\ pending \subseteq Calls /\ devq \in Seq(Answers)
  /\ lone \in [Waiters -> {"no", "unanswered", "TRUE", "EVENT"}]
  /\ inTime \in [Waiters -> BOOLEAN]
  /\ \A w \in Waiters : frame[w].error => frame[w].handled

NewFrame == [handled |-> FALSE, error |-> FALSE, expired |-> FALSE]

Init ==
  /\ pc = [w \in Waiters |-> "idle"] /\ calls = 0 /\ call = [w \in Waiters |-> 0]
  /\ frame = [w \in Waiters |-> NewFrame]
  /\ connected = [w \in Waiters |-> FALSE]
  /\ mutex = [w \in Waiters |-> "free"]
  /\ signalled = [w \in Waiters |-> FALSE]
  /\ result = [w \in Waiters |-> "none"]
  /\ dpc = "idle" /\ event = None /\ todo = {} /\ callee = <<>>
  /\ pending = {} /\ devq = <<>>
  /\ lone = [w \in Waiters |-> "no"] /\ inTime = [w \in Waiters |-> FALSE]

Current(w) == <<w, call[w]>>
Alive(c) == c = Current(c[1]) /\ pc[c[1]] # "idle"

(* The frame of w is left, and its mutex.  History is kept where a         *)
(* property needs it: of a call alone which did not expire, and of one     *)
(* which timed out.                                                        *)
Gone(w) ==
  /\ frame' = [frame EXCEPT ![w] = NewFrame]
  /\ signalled' = [signalled EXCEPT ![w] = FALSE]
  /\ mutex' = [mutex EXCEPT ![w] = "free"]
  /\ lone' = [lone EXCEPT ![w] = IF frame[w].expired THEN "no" ELSE @]
  /\ inTime' = [inTime EXCEPT ![w] = @ /\ result'[w] = "TIMEOUT"]

-----------------------------------------------------------------------------
(***************************************************************************)
(* The thread of a waiter.                                                 *)
(***************************************************************************)
(* A call begins: it is alone if nothing is going on, and then the others  *)
(* are not.                                                                *)
Alone(w) ==
  /\ lone' = [v \in Waiters |->
       CASE v = w /\ pending = {} /\ devq = <<>> /\ dpc = "idle"
              /\ \A u \in Waiters : pc[u] = "idle" -> "unanswered"
         [] v # w /\ pc[v] = "idle" -> lone[v]
         [] OTHER -> "no"]
  /\ inTime' = [inTime EXCEPT ![w] = FALSE]

(* Mutant: the frame is not initialised.                                   *)
WaiterInit_OldFrame(w) ==
  /\ pc[w] = "idle" /\ calls < MaxCalls
  /\ pc' = [pc EXCEPT ![w] = "connected"]
  /\ calls' = calls + 1 /\ call' = [call EXCEPT ![w] = calls']
  /\ \E old \in BOOLEAN :
       frame' = [frame EXCEPT ![w] = [NewFrame EXCEPT !.handled = old]]
  /\ connected' = [connected EXCEPT ![w] = TRUE]
  /\ result' = [result EXCEPT ![w] = "none"]
  /\ Alone(w)
  /\ UNCHANGED <<mutex, signalled, dispatcher, pending, devq>>

WaiterInit(w) ==
  /\ pc[w] = "idle" /\ calls < MaxCalls
  /\ pc' = [pc EXCEPT ![w] = "connected"]
  /\ calls' = calls + 1 /\ call' = [call EXCEPT ![w] = calls']
  /\ frame' = [frame EXCEPT ![w] = NewFrame]
  /\ connected' = [connected EXCEPT ![w] = TRUE]
  /\ result' = [result EXCEPT ![w] = "none"]
  /\ Alone(w)
  /\ UNCHANGED <<mutex, signalled, dispatcher, pending, devq>>

(* hinoko_fw_iso_resource_allocate, which starts a request or refuses.     *)
Allocate(w) ==
  /\ pc[w] = "connected"
  /\ \/ pc' = [pc EXCEPT ![w] = "requested"]
        /\ pending' = pending \cup {Current(w)}
     \/ pc' = [pc EXCEPT ![w] = "failed"] /\ UNCHANGED pending
  /\ UNCHANGED <<calls, call, frame, connected, mutex, signalled, result,
                 dispatcher, devq, lone, inTime>>

WaitRefused(w) ==
  /\ pc[w] = "failed" /\ pc' = [pc EXCEPT ![w] = "idle"]
  /\ connected' = [connected EXCEPT ![w] = FALSE]
  /\ result' = [result EXCEPT ![w] = "REFUSED"]
  /\ Gone(w)
  /\ UNCHANGED <<calls, call, dispatcher, pending, devq>>

(* The mutex is taken; it is let go by the sleep.                          *)
Wait(w) ==
  /\ pc[w] = "requested" /\ mutex[w] = "free"
  /\ IF frame[w].handled
     THEN /\ pc' = [pc EXCEPT ![w] = "leaving"]
          /\ mutex' = [mutex EXCEPT ![w] = "thread"]
          /\ UNCHANGED signalled
     ELSE /\ pc' = [pc EXCEPT ![w] = "sleeping"]
          /\ signalled' = [signalled EXCEPT ![w] = FALSE]
          /\ UNCHANGED mutex
  /\ UNCHANGED <<calls, call, frame, connected, result, dispatcher, pending, devq,
                 lone, inTime>>

(* The sleep ends by the signal, or by itself, and the loop ends when the  *)
(* event was handled; else the thread sleeps again.                        *)
Wake(w) ==
  /\ pc[w] = "sleeping" /\ mutex[w] = "free" /\ frame[w].handled
  /\ pc' = [pc EXCEPT ![w] = "leaving"]
  /\ mutex' = [mutex EXCEPT ![w] = "thread"]
  /\ UNCHANGED <<calls, call, frame, connected, signalled, result, dispatcher,
                 pending, devq, lone, inTime>>

(* Mutant: the loop goes on when the time is over.                         *)
WakeTimeout_Continues(w) ==
  /\ pc[w] = "sleeping" /\ mutex[w] = "free" /\ frame[w].expired
  /\ frame[w].handled
  /\ pc' = [pc EXCEPT ![w] = "leaving"]
  /\ mutex' = [mutex EXCEPT ![w] = "thread"]
  /\ UNCHANGED <<calls, call, frame, connected, signalled, result, dispatcher,
                 pending, devq, lone, inTime>>

WakeTimeout(w) ==
  /\ pc[w] = "sleeping" /\ mutex[w] = "free" /\ frame[w].expired
  /\ pc' = [pc EXCEPT ![w] = "leaving"]
  /\ mutex' = [mutex EXCEPT ![w] = "thread"]
  /\ UNCHANGED <<calls, call, frame, connected, signalled, result, dispatcher,
                 pending, devq, lone, inTime>>

Disconnect(w) ==
  /\ pc[w] = "leaving" /\ pc' = [pc EXCEPT ![w] = "unlocked"]
  /\ connected' = [connected EXCEPT ![w] = FALSE]
  /\ mutex' = [mutex EXCEPT ![w] = "free"]
  /\ UNCHANGED <<calls, call, frame, signalled, result, dispatcher, pending, devq,
                 lone, inTime>>

(* Mutant: the clock decides, and not what was handled.                    *)
Return_ByExpiration(w) ==
  /\ pc[w] = "unlocked" /\ pc' = [pc EXCEPT ![w] = "idle"]
  /\ result' = [result EXCEPT ![w] =
                  IF frame[w].expired THEN "TIMEOUT"
                  ELSE IF frame[w].error THEN "EVENT" ELSE "TRUE"]
  /\ Gone(w)
  /\ UNCHANGED <<calls, call, connected, dispatcher, pending, devq>>

(* Without the mutex.  The frame is gone afterwards.                       *)
Return(w) ==
  /\ pc[w] = "unlocked" /\ pc' = [pc EXCEPT ![w] = "idle"]
  /\ result' = [result EXCEPT ![w] =
                  IF ~frame[w].handled THEN "TIMEOUT"
                  ELSE IF frame[w].error THEN "EVENT" ELSE "TRUE"]
  /\ Gone(w)
  /\ UNCHANGED <<calls, call, connected, dispatcher, pending, devq>>

Expire(w) ==
  /\ pc[w] # "idle" /\ ~frame[w].expired
  /\ frame' = [frame EXCEPT ![w].expired = TRUE]
  /\ UNCHANGED <<pc, calls, call, connected, mutex, signalled, result, dispatcher,
                 pending, devq, lone, inTime>>

-----------------------------------------------------------------------------
(* The kernel.                                                             *)
Answer(c, ok) ==
  /\ c \in pending /\ pending' = pending \ {c}
  /\ devq' = Append(devq, [of |-> c, ok |-> ok])
  /\ lone' = [w \in Waiters |->
                IF c = Current(w) /\ lone[w] = "unanswered"
                THEN IF ok THEN "TRUE" ELSE "EVENT"
                ELSE lone[w]]
  /\ UNCHANGED <<threads, dispatcher, inTime>>

-----------------------------------------------------------------------------
(***************************************************************************)
(* The dispatcher: g_signal_emit_by_name, and handle_event_signal in two   *)
(* steps, up to the signal and then the unlock.                            *)
(***************************************************************************)
Emit ==
  /\ dpc = "idle" /\ devq # <<>>
  /\ dpc' = "emitting" /\ event' = Head(devq) /\ devq' = Tail(devq)
  /\ todo' = {Current(w) : w \in {v \in Waiters : connected[v]}}
  /\ UNCHANGED <<threads, callee, pending, lone, inTime>>

CallHandler(c) ==
  /\ dpc = "emitting" /\ c \in todo /\ todo' = todo \ {c}
  /\ IF Alive(c) /\ connected[c[1]]
     THEN dpc' = "calling" /\ callee' = c
     ELSE UNCHANGED <<dpc, callee>>
  /\ UNCHANGED <<threads, event, pending, devq, lone, inTime>>

(* Mutant: an error is stored and nobody is woken.                         *)
HandleEventSignal_QuietError ==
  /\ dpc = "calling" /\ Alive(callee)
  /\ LET w == callee[1] IN
       /\ mutex[w] = "free" /\ mutex' = [mutex EXCEPT ![w] = "dispatcher"]
       /\ frame' = [frame EXCEPT ![w].error = @ \/ ~event.ok,
                                 ![w].handled = TRUE]
       /\ signalled' = [signalled EXCEPT
                          ![w] = @ \/ (pc[w] = "sleeping" /\ event.ok)]
  /\ dpc' = "locked"
  /\ UNCHANGED <<pc, calls, call, connected, result, event, todo, callee, pending,
                 devq, lone, inTime>>

(* Mutant: an error does not count as handled.                             *)
HandleEventSignal_ErrorOnly ==
  /\ dpc = "calling" /\ Alive(callee)
  /\ LET w == callee[1] IN
       /\ mutex[w] = "free" /\ mutex' = [mutex EXCEPT ![w] = "dispatcher"]
       /\ frame' = [frame EXCEPT ![w].error = @ \/ ~event.ok,
                                 ![w].handled = @ \/ event.ok]
       /\ signalled' = [signalled EXCEPT ![w] = @ \/ pc[w] = "sleeping"]
  /\ dpc' = "locked"
  /\ UNCHANGED <<pc, calls, call, connected, result, event, todo, callee,
                 pending, devq, lone, inTime>>

(* Mutant: the mutex is not taken.                                         *)
HandleEventSignal_NoLock ==
  /\ dpc = "calling" /\ Alive(callee)
  /\ LET w == callee[1] IN
       /\ frame' = [frame EXCEPT ![w].error = @ \/ ~event.ok,
                                 ![w].handled = TRUE]
       /\ signalled' = [signalled EXCEPT ![w] = @ \/ pc[w] = "sleeping"]
  /\ dpc' = "locked"
  /\ UNCHANGED <<pc, calls, call, connected, mutex, result, event, todo, callee,
                 pending, devq, lone, inTime>>

HandleEventSignal ==
  /\ dpc = "calling" /\ Alive(callee)
  /\ LET w == callee[1] IN
       /\ mutex[w] = "free" /\ mutex' = [mutex EXCEPT ![w] = "dispatcher"]
       /\ frame' = [frame EXCEPT ![w].error = @ \/ ~event.ok,
                                 ![w].handled = TRUE]
       /\ signalled' = [signalled EXCEPT ![w] = @ \/ pc[w] = "sleeping"]
  /\ dpc' = "locked"
  /\ UNCHANGED <<pc, calls, call, connected, result, event, todo, callee, pending,
                 devq, lone, inTime>>

HandlerReturns ==
  /\ dpc = "locked" /\ dpc' = "emitting" /\ callee' = <<>>
  /\ mutex' = [mutex EXCEPT ![callee[1]] = IF Alive(callee) THEN "free" ELSE @]
  /\ UNCHANGED <<pc, calls, call, frame, connected, signalled, result, event, todo,
                 pending, devq, lone, inTime>>

(* The frame of the handler is gone: what the call does to the stack of    *)
(* the thread is not modelled, FramesOutliveHandlers says when it happens. *)
HandlerOnDeadFrame ==
  /\ dpc = "calling" /\ ~Alive(callee)
  /\ dpc' = "emitting" /\ callee' = <<>>
  /\ UNCHANGED <<threads, event, todo, pending, devq, lone, inTime>>

EmitDone ==
  /\ dpc = "emitting" /\ todo = {}
  /\ dpc' = "idle" /\ event' = None
  /\ inTime' = [w \in Waiters |->
                  \/ inTime[w]
                  \/ event.of = Current(w) /\ Alive(event.of)
                     /\ ~frame[w].expired]
  /\ UNCHANGED <<threads, todo, callee, pending, devq, lone>>

-----------------------------------------------------------------------------
Done ==
  /\ \A w \in Waiters : pc[w] = "idle"
  /\ calls = MaxCalls /\ pending = {} /\ devq = <<>> /\ dpc = "idle"
  /\ UNCHANGED vars

Thread(w) ==
  \/ WaiterInit(w) \/ Allocate(w) \/ WaitRefused(w) \/ Wait(w) \/ Wake(w)
  \/ WakeTimeout(w) \/ Disconnect(w) \/ Return(w)

Handling ==
  \/ \E c \in Calls : CallHandler(c)
  \/ HandleEventSignal \/ HandlerReturns \/ HandlerOnDeadFrame \/ EmitDone

Next ==
  \/ \E w \in Waiters : Thread(w) \/ Expire(w)
  \/ \E c \in Calls, ok \in BOOLEAN : Answer(c, ok)
  \/ Emit \/ Handling
  \/ Done

(* Threads are scheduled, time passes, and an emission which has begun     *)
(* goes on.  Neither an answer of the kernel nor the begin of an emission  *)
(* is taken for granted, and a sleeper which was not signalled may sleep   *)
(* until it expires.                                                       *)
Fairness ==
  /\ \A w \in Waiters :
       /\ WF_vars(Allocate(w)) /\ WF_vars(WaitRefused(w)) /\ WF_vars(Wait(w))
       /\ WF_vars(Wake(w) /\ signalled[w]) /\ WF_vars(WakeTimeout(w))
       /\ WF_vars(Disconnect(w)) /\ WF_vars(Return(w)) /\ WF_vars(Expire(w))
  /\ WF_vars(Handling)

Spec == Init /\ [][Next]_vars /\ Fairness

-----------------------------------------------------------------------------
(* HINOKO_FW_ISO_RESOURCE_ERROR_TIMEOUT is not returned when the answer    *)
(* was emitted before the expiration: whatever the order of the request,   *)
(* the event and the sleep, no answer in time is missed.                   *)
AnswerInTimeIsHeard ==
  \A w \in Waiters :
    pc[w] = "idle" /\ result[w] = "TIMEOUT" => ~inTime[w]

(* A call begun when no answer to an earlier one was due, without another  *)
(* call during it, and over before its expiration, returns the answer to   *)
(* its own request.  The code has no more than this time and order to tell *)
(* whose answer an event is.                                               *)
OwnAnswer ==
  \A w \in Waiters :
    pc[w] = "idle" /\ lone[w] # "no" /\ result[w] # "REFUSED" =>
      result[w] = lone[w]

(* The handler of such a call does not run after the frame it points to    *)
(* is gone.  Neither does the code promise this of a call which times out, *)
(* nor of two at a time.                                                   *)
FramesOutliveHandlers ==
  \A w \in Waiters :
    pc[w] = "idle" /\ lone[w] # "no" =>
      ~(dpc \in {"calling", "locked"} /\ callee = Current(w))

(* A thread does not sleep on with its event handled and nobody to wake    *)
(* it: it never waits for the expiration with the answer at hand.          *)
NoLostWakeup ==
  \A w \in Waiters :
    pc[w] = "sleeping" /\ frame[w].handled => signalled[w]

(* Every call returns, at the latest after the expiration, whether or not  *)
(* an event ever comes.                                                    *)
EveryWaitReturns ==
  \A w \in Waiters : pc[w] # "idle" ~> pc[w] = "idle"

=============================================================================
