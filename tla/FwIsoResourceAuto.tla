------------------------- MODULE FwIsoResourceAuto -------------------------
(***************************************************************************)
(* fw_iso_resource_auto.c: an object which keeps one isochronous resource. *)
(* allocate and deallocate only start the work of the kernel, whose answer *)
(* is an event that a dispatcher reads, and then handles under             *)
(* priv->mutex; what the object says of itself is what the events told it. *)
(* The object does not look at the handle an event carries.                *)
(*                                                                         *)
(* allocate and deallocate run under the same mutex, so each is one step.  *)
(* Reading an event and handling it are two.  Calls refused without a      *)
(* change of state (OPENED, NOT_OPENED, ALLOCATED, NOT_ALLOCATED, a failed *)
(* ioctl) are stuttering steps and left out, and so is channel, which      *)
(* changes together with bandwidth.                                        *)
(***************************************************************************)
EXTENDS FwIsoResourceState, FiniteSets

CONSTANTS Handles,     \* handles of resources in the kernel
          Bandwidths,  \* what the program asks for
          UintSize     \* the number of values of a guint

ASSUME FwIsoResourceAutoAssumption ==
  /\ Handles \subseteq Nat \ {0}
  /\ UintSize \in Nat \ {0} /\ Bandwidths \subseteq 1..(UintSize - 1)

VARIABLES
  is_allocated, bandwidth, handle,
  res,      \* kernel: the resources of this fd
  orderly   \* history, see AutoAllocate and HandleIsoResource

object == <<is_allocated, bandwidth, handle>>
autoVars == <<object, res, orderly>>

Free == [st |-> "free", bw |-> 0]
Resources ==
  [st : {"free", "allocating", "held", "reallocating", "deallocating"},
   bw : {0} \cup Bandwidths]
ResourceEvents ==
  [type : {"ALLOCATED", "DEALLOCATED"}, ok : BOOLEAN,
   bw : {0} \cup Bandwidths]

AutoTypeOK ==
  /\ is_allocated \in BOOLEAN
  /\ bandwidth \in 0..(UintSize - 1)
  /\ handle \in {0} \cup Handles
  /\ res \in [Handles -> Resources]
  /\ orderly \in BOOLEAN

AutoInit ==
  /\ is_allocated = FALSE /\ bandwidth = 0 /\ handle = 0
  /\ res = [h \in Handles |-> Free]
  /\ orderly = TRUE

-----------------------------------------------------------------------------
(* Resources the kernel keeps, and answers that are due.                   *)
Holding(h) == res[h].st \in {"held", "reallocating"}
Unanswered ==
  \/ \E h \in Handles : res[h].st \in {"allocating", "deallocating"}
  \/ OnTheWay \cap ResourceEvents # {}

-----------------------------------------------------------------------------
(***************************************************************************)
(* The kernel.  A resource is allocated, or not; deallocated, or not, and  *)
(* given up either way; reallocated after a bus reset, or lost, which is   *)
(* told by a DEALLOCATED event with an error.                              *)
(***************************************************************************)
KernelStep ==
  UNCHANGED <<opened, generation, caller, dispatcher, seen, crossed, busGen,
              object, orderly>>

KernelAllocates(h, ok) ==
  /\ res[h].st = "allocating"
  /\ res' = [res EXCEPT ![h] = IF ok THEN [@ EXCEPT !.st = "held"] ELSE Free]
  /\ Post([type |-> "ALLOCATED", ok |-> ok, bw |-> res[h].bw])
  /\ KernelStep

KernelDeallocates(h, ok) ==
  /\ res[h].st = "deallocating"
  /\ res' = [res EXCEPT ![h] = Free]
  /\ Post([type |-> "DEALLOCATED", ok |-> ok, bw |-> res[h].bw])
  /\ KernelStep

KernelReallocates(h, ok) ==
  /\ res[h].st = "reallocating"
  /\ res' = [res EXCEPT ![h] = IF ok THEN [@ EXCEPT !.st = "held"] ELSE Free]
  /\ IF ok THEN UNCHANGED devq
           ELSE Post([type |-> "DEALLOCATED", ok |-> FALSE, bw |-> res[h].bw])
  /\ KernelStep

AutoBusReset ==
  /\ BusReset
  /\ res' = [h \in Handles |-> IF Holding(h)
                              THEN [res[h] EXCEPT !.st = "reallocating"]
                              ELSE res[h]]
  /\ UNCHANGED <<object, orderly>>

-----------------------------------------------------------------------------
(***************************************************************************)
(* The operations of the object.                                           *)
(***************************************************************************)
(* An allocation while an answer is still due is legal, and not orderly.   *)
AutoAllocate(h, bw) ==
  /\ opened /\ ~is_allocated
  /\ res[h].st = "free"
  /\ res' = [res EXCEPT ![h] = [st |-> "allocating", bw |-> bw]]
  /\ handle' = h
  /\ orderly' = (orderly /\ ~Unanswered)
  /\ UNCHANGED <<state, is_allocated, bandwidth>>

(* The kernel refuses a handle it does not know, which includes one that   *)
(* is being deallocated.                                                   *)
AutoDeallocate ==
  /\ opened /\ is_allocated
  /\ handle \in Handles /\ res[handle].st \notin {"free", "deallocating"}
  /\ res' = [res EXCEPT ![handle].st = "deallocating"]
  /\ UNCHANGED <<state, object, orderly>>

(* Closing the device gives up what it holds.                              *)
AutoFinalize ==
  /\ Close
  /\ is_allocated' = FALSE /\ bandwidth' = 0 /\ handle' = 0
  /\ res' = [h \in Handles |-> Free]
  /\ orderly' = TRUE

-----------------------------------------------------------------------------
Minus_Signed(a, b) == a - b
Minus(a, b) == (a - b) % UintSize

(* Mutant: the error is not looked at.                                     *)
HandleIsoResource_AnyEvent ==
  \E e \in ResourceEvents :
    /\ reading = <<e>> /\ reading' = <<>>
    /\ is_allocated' = (e.type = "ALLOCATED")
    /\ bandwidth' = IF e.type = "ALLOCATED" THEN e.bw
                                            ELSE Minus(bandwidth, e.bw)
    /\ orderly' = (orderly /\ (e.ok \/ e.type = "ALLOCATED"))
    /\ UNCHANGED <<opened, generation, caller, handling, seen, crossed, kernel,
                   handle, res>>

(* handle_iso_resource_event: an error changes nothing, even the one which *)
(* tells that the resource is gone; that is the end of being orderly.      *)
HandleIsoResource ==
  \E e \in ResourceEvents :
    /\ reading = <<e>> /\ reading' = <<>>
    /\ CASE e.ok /\ e.type = "ALLOCATED" ->
              is_allocated' = TRUE /\ bandwidth' = e.bw
         [] e.ok /\ e.type = "DEALLOCATED" ->
              is_allocated' = FALSE /\ bandwidth' = Minus(bandwidth, e.bw)
         [] ~e.ok -> UNCHANGED <<is_allocated, bandwidth>>
    /\ orderly' = (orderly /\ (e.ok \/ e.type = "ALLOCATED"))
    /\ UNCHANGED <<opened, generation, caller, handling, seen, crossed, kernel,
                   handle, res>>

AutoNext ==
  \/ (Open \/ StateStep) /\ UNCHANGED autoVars
  \/ AutoFinalize \/ AutoDeallocate
  \/ \E h \in Handles, bw \in Bandwidths : AutoAllocate(h, bw)
  \/ HandleIsoResource
  \/ \E h \in Handles, ok \in BOOLEAN :
       \/ KernelAllocates(h, ok) \/ KernelDeallocates(h, ok)
       \/ KernelReallocates(h, ok)
  \/ AutoBusReset

AutoSpec == StateInit /\ AutoInit /\ [][AutoNext]_<<state, autoVars>>

-----------------------------------------------------------------------------
(* When a program never allocates while an answer is due, and no resource  *)
(* was lost or given up with an error, then every answer read means that   *)
(* the object describes the kernel: it is allocated exactly when the       *)
(* resource of its handle is held, no other is, and bandwidth is the       *)
(* amount held.  The object counts events without looking at their         *)
(* handles, so this relies on their order.                                 *)
SettledTruth ==
  orderly /\ ~Unanswered =>
    /\ {h \in Handles : Holding(h)} = IF is_allocated THEN {handle} ELSE {}
    /\ bandwidth = IF is_allocated THEN res[handle].bw ELSE 0

(* HINOKO_FW_ISO_RESOURCE_AUTO_ERROR_ALLOCATED, which allocate returns     *)
(* when is_allocated: "The instance is already associated to allocated     *)
(* isochronous resources."  The code keeps is_allocated after the event    *)
(* which tells that the resource is gone.                                  *)
AllocatedMeansHeld ==
  is_allocated /\ ~Unanswered => \E h \in Handles : Holding(h)

=============================================================================
