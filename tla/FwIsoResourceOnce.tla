------------------------- MODULE FwIsoResourceOnce -------------------------
(***************************************************************************)
(* fw_iso_resource_once.c: an object to allocate and deallocate resources  *)
(* by one shot.  It keeps nothing of them but hands the answers on, and    *)
(* neither the kernel nor the object gives a resource back when the object *)
(* goes: it is the program which has to keep the account.  A bus reset     *)
(* releases everything, so the account also depends on the generation.     *)
(*                                                                         *)
(* The resource is a channel; its bandwidth goes with it.  Refused calls   *)
(* (NOT_OPENED, a failed ioctl) change nothing and are left out.           *)
(***************************************************************************)
EXTENDS FwIsoResourceState, FiniteSets

CONSTANTS Channels,    \* what the program asks for
          MaxRequests  \* bound: requests under way

VARIABLES
  tally,   \* the program: the channels it has, by signals and notifications
  work,    \* kernel: requests under way
  irm,     \* the isochronous resource manager: channels this node has
  steady   \* history, see OnceRequest, OnceCreateSourceCaches, OnceBusReset
            \* and OnceFinalize

onceVars == <<tally, work, irm, steady>>

Requests ==
  [type : {"ALLOCATED", "DEALLOCATED"}, ch : Channels,
   st : {"due", "done", "failed", "left"}]
OnceEvents ==
  [type : {"ALLOCATED", "DEALLOCATED"}, ch : Channels, ok : BOOLEAN]

OnceTypeOK ==
  /\ tally \subseteq Channels /\ irm \subseteq Channels
  /\ work \subseteq Requests
  /\ steady \in BOOLEAN

OnceInit == tally = {} /\ work = {} /\ irm = {} /\ steady = TRUE

(* The program, told of another generation, has nothing any more.          *)
ProgramTold == tally' = IF seen' = seen THEN tally ELSE {}

-----------------------------------------------------------------------------
(***************************************************************************)
(* The kernel: a request is carried out with the resource manager, and its *)
(* answer is posted later, unless the device was closed meanwhile.         *)
(***************************************************************************)
KernelManages(r, ok) ==
  /\ r \in work /\ r.st \in {"due", "left"}
  /\ ok => (r.type = "ALLOCATED" <=> r.ch \notin irm)
  /\ irm' = CASE ok /\ r.type = "ALLOCATED"   -> irm \cup {r.ch}
              [] ok /\ r.type = "DEALLOCATED" -> irm \ {r.ch}
              [] ~ok                          -> irm
  /\ work' = (work \ {r}) \cup
       {[r EXCEPT !.st = IF ok THEN "done" ELSE "failed"] : x \in {r.st} \ {"left"}}
  /\ UNCHANGED <<state, tally, steady>>

KernelAnswers(r) ==
  /\ r \in work /\ r.st \in {"done", "failed"}
  /\ work' = work \ {r}
  /\ Post([type |-> r.type, ch |-> r.ch, ok |-> r.st = "done"])
  /\ UNCHANGED <<opened, generation, caller, dispatcher, seen, crossed, busGen,
                 tally, irm, steady>>

(* A request carried out whose answer will come behind the bus reset: no   *)
(* event tells the generation it was for.                                  *)
OnceBusReset ==
  /\ BusReset
  /\ irm' = {}
  /\ steady' = (steady /\ \A r \in work : r.st # "done")
  /\ UNCHANGED <<tally, work>>

-----------------------------------------------------------------------------
(***************************************************************************)
(* The operations of the object.                                           *)
(***************************************************************************)
OnceOpen == Open /\ ProgramTold /\ UNCHANGED <<work, irm, steady>>

(* Requests for one channel under way at one time may be answered in       *)
(* another order than they are carried out.                                *)
OnceRequest(type, ch) ==
  /\ opened /\ Cardinality(work) < MaxRequests
  /\ work' = work \cup {[type |-> type, ch |-> ch, st |-> "due"]}
  /\ steady' = (steady /\ \A r \in work : r.ch # ch)
  /\ UNCHANGED <<state, tally, irm>>

OnceAllocate(ch) == OnceRequest("ALLOCATED", ch)

OnceDeallocate(ch) == OnceRequest("DEALLOCATED", ch)

(* A generation cached ahead of answers not read yet.                      *)
OnceCreateSourceCaches ==
  /\ CreateSourceCaches
  /\ steady' = (steady /\ (OnTheWay \cap OnceEvents = {} \/ busGen = generation))
  /\ UNCHANGED <<tally, work, irm>>

OnceCreateSource ==
  \/ CreateSourceBegins /\ UNCHANGED onceVars
  \/ OnceCreateSourceCaches
  \/ CreateSourceFails /\ UNCHANGED onceVars
  \/ CreateSourceReturns /\ ProgramTold /\ UNCHANGED <<work, irm, steady>>

(* The resource is left, and so are requests under way, without an answer. *)
OnceFinalize ==
  /\ Close
  /\ work' = {[r EXCEPT !.st = "left"] : r \in {x \in work : x.st \in {"due", "left"}}}
  /\ steady' = (steady /\ ~crossed /\ work = {} /\ devq = <<>>)
  /\ UNCHANGED <<tally, irm>>

-----------------------------------------------------------------------------
(* Mutant: the error is not handed on.                                     *)
OnceHandleIsoResource_NoError ==
  \E e \in OnceEvents :
    /\ reading = <<e>> /\ reading' = <<>>
    /\ tally' = IF e.type = "ALLOCATED" THEN tally \cup {e.ch}
                                        ELSE tally \ {e.ch}
    /\ UNCHANGED <<opened, generation, caller, handling, seen, crossed, kernel,
                   work, irm, steady>>

(* handle_iso_resource_event emits the signal with the answer, which the   *)
(* program enters in its account.                                          *)
OnceHandleIsoResource ==
  \E e \in OnceEvents :
    /\ reading = <<e>> /\ reading' = <<>>
    /\ tally' = CASE e.ok /\ e.type = "ALLOCATED"   -> tally \cup {e.ch}
                  [] e.ok /\ e.type = "DEALLOCATED" -> tally \ {e.ch}
                  [] ~e.ok                          -> tally
    /\ UNCHANGED <<opened, generation, caller, handling, seen, crossed, kernel,
                   work, irm, steady>>

OnceHandleBusReset ==
  /\ HandleBusResetCompares \/ HandleBusResetCopies \/ HandleBusResetNotifies
  /\ ProgramTold /\ UNCHANGED <<work, irm, steady>>

OnceNext ==
  \/ OnceOpen \/ OnceCreateSource \/ OnceFinalize
  \/ (RemoveSource \/ Dispatch) /\ UNCHANGED onceVars
  \/ \E ch \in Channels : OnceAllocate(ch) \/ OnceDeallocate(ch)
  \/ OnceHandleIsoResource \/ OnceHandleBusReset
  \/ \E r \in work : KernelAnswers(r) \/ \E ok \in BOOLEAN : KernelManages(r, ok)
  \/ OnceBusReset

OnceSpec == StateInit /\ OnceInit /\ [][OnceNext]_<<state, onceVars>>

-----------------------------------------------------------------------------
(* A program which adds what `allocated' tells, takes off what             *)
(* `deallocated' tells, and forgets everything when told of another        *)
(* generation, has just what the resource manager keeps for this node,     *)
(* whenever nothing is under way, also with another object after the first *)
(* was destroyed ("The allocated resource is left even if this object is   *)
(* destroyed").  Not so when answers overtook each other or a bus reset in *)
(* the kernel, when create_source cached a generation ahead of unread      *)
(* answers, or when it ran beside the dispatcher.                          *)
TallyIsHeld ==
  steady /\ ~crossed /\ opened /\ creating = "no" /\ work = {} /\ OnTheWay = {} =>
    tally = irm

=============================================================================
