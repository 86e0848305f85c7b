--------------------------- MODULE FwIsoResource ---------------------------
(***************************************************************************)
(* An object behind the interface HinokoFwIsoResource, of either class:    *)
(* what the classes have in common is the structure of FwIsoResourceState, *)
(* the dispatcher and the bus.                                             *)
(***************************************************************************)
EXTENDS FwIsoResourceAuto, FwIsoResourceOnce

VARIABLE class  \* "auto" or "once", the type the object was made with

vars == <<class, state, autoVars, onceVars>>

TypeOK ==
  /\ class \in {"auto", "once"}
  /\ StateTypeOK(BusResets \cup
                 IF class = "auto" THEN ResourceEvents ELSE OnceEvents)
  /\ AutoTypeOK /\ OnceTypeOK

Init == class \in {"auto", "once"} /\ StateInit /\ AutoInit /\ OnceInit

Next ==
  \/ class = "auto" /\ AutoNext /\ UNCHANGED <<class, onceVars>>
  \/ class = "once" /\ OnceNext /\ UNCHANGED <<class, autoVars>>

Spec == Init /\ [][Next]_vars

=============================================================================
