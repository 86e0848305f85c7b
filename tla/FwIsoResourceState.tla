------------------------ MODULE FwIsoResourceState ------------------------
(***************************************************************************)
(* struct fw_iso_resource_state of fw_iso_resource_private.c: the open     *)
(* character device and the cached state of the bus, which the two classes *)
(* of resource share, with the code of the source and the handling of bus  *)
(* resets which each class has a copy of.  FwIsoResourceAuto and           *)
(* FwIsoResourceOnce extend this module.                                   *)
(*                                                                         *)
(* No lock protects the cached state.  A thread in create_source and the   *)
(* dispatcher, which may run already for an earlier source, both compare,  *)
(* write and notify, each in steps of its own.  One call of create_source  *)
(* at a time, and one dispatcher for all sources.                          *)
(***************************************************************************)
EXTENDS Integers, Sequences

CONSTANTS MaxGen,    \* bound: bus resets
          MaxEvents  \* bound: events in the device

ASSUME FwIsoResourceStateAssumption == MaxGen \in Nat /\ MaxEvents \in Nat

VARIABLES
  opened,      \* state.fd >= 0
  generation,  \* state.bus_state.generation
  source,      \* a source is attached to the main loop
  creating,    \* how far the call of create_source is
  before,      \* the generation it started from
  reading,     \* the event the dispatcher has read, until it is handled
  handling,    \* how far a bus reset is handled
  seen,        \* the generation the program knows, by open and notify
  crossed,     \* history: create_source and a bus reset wrote at one time
  devq,        \* kernel: events to be read
  busGen       \* kernel: the generation of the bus

caller == <<source, creating, before>>
dispatcher == <<reading, handling>>
kernel == <<devq, busGen>>
state == <<opened, generation, caller, dispatcher, seen, crossed, kernel>>

BusResets == [type : {"BUS_RESET"}, generation : 0..MaxGen]

\* The types, with the set of events a class gets.
StateTypeOK(Events) ==
  /\ opened \in BOOLEAN /\ source \in BOOLEAN
  /\ generation \in 0..MaxGen /\ before \in 0..MaxGen
  /\ seen \in 0..MaxGen /\ busGen \in 0..MaxGen
  /\ creating \in {"no", "begun", "cached"}
  /\ reading \in {<<>>} \cup {<<e>> : e \in Events}
  /\ handling \in {"no", "differs", "same", "copied"}
  /\ crossed \in BOOLEAN
  /\ devq \in Seq(Events) /\ Len(devq) <= MaxEvents

StateInit ==
  /\ opened = FALSE /\ generation = 0
  /\ source = FALSE /\ creating = "no" /\ before = 0
  /\ reading = <<>> /\ handling = "no"
  /\ seen = 0 /\ crossed = FALSE
  /\ devq = <<>> /\ busGen \in 0..MaxGen

OnTheWay == {devq[i] : i \in DOMAIN devq} \cup {reading[i] : i \in DOMAIN reading}

-----------------------------------------------------------------------------
(* The kernel.                                                             *)
Post(e) == Len(devq) < MaxEvents /\ devq' = Append(devq, e)

BusReset ==
  /\ busGen < MaxGen /\ busGen' = busGen + 1
  /\ IF opened THEN Post([type |-> "BUS_RESET", generation |-> busGen'])
               ELSE UNCHANGED devq
  /\ UNCHANGED <<opened, generation, caller, dispatcher, seen, crossed>>

-----------------------------------------------------------------------------
(***************************************************************************)
(* The operations of the object.                                           *)
(***************************************************************************)
(* open, which releases the fd again when GET_INFO fails; the program      *)
(* reads the property after it.                                            *)
Open ==
  /\ ~opened
  /\ opened' = TRUE
  /\ generation' = busGen /\ seen' = busGen
  /\ UNCHANGED <<caller, dispatcher, crossed, kernel>>

(* create_source reads the generation, caches the state of the bus and     *)
(* compares; the bus may be reset in between, and an earlier source        *)
(* dispatch.                                                               *)
CreateSourceBegins ==
  /\ opened /\ creating = "no"
  /\ creating' = "begun" /\ before' = generation
  /\ UNCHANGED <<opened, generation, source, dispatcher, seen, crossed, kernel>>

CreateSourceCaches ==
  /\ creating = "begun" /\ creating' = "cached"
  /\ generation' = busGen
  /\ crossed' = (crossed \/ handling # "no")
  /\ UNCHANGED <<opened, source, before, dispatcher, seen, kernel>>

(* GET_INFO fails, and the source is unreferenced.                         *)
CreateSourceFails ==
  /\ creating = "begun" /\ creating' = "no" /\ before' = 0
  /\ UNCHANGED <<opened, generation, source, dispatcher, seen, crossed, kernel>>

(* Mutant: the program is not told.                                         *)
CreateSourceReturns_Silent ==
  /\ creating = "cached" /\ creating' = "no" /\ before' = 0
  /\ source' = TRUE
  /\ UNCHANGED <<opened, generation, dispatcher, seen, crossed, kernel>>

CreateSourceReturns ==
  /\ creating = "cached" /\ creating' = "no" /\ before' = 0
  /\ source' = TRUE
  /\ seen' = IF before # generation THEN generation ELSE seen
  /\ UNCHANGED <<opened, generation, dispatcher, crossed, kernel>>

(* The dispatcher removes the source (G_IO_ERR, a failing read), or the    *)
(* program destroys it.                                                    *)
RemoveSource ==
  /\ source /\ reading = <<>>
  /\ source' = FALSE
  /\ UNCHANGED <<opened, generation, creating, before, dispatcher, seen, crossed,
                 kernel>>

(* finalize, when no source refers to the object, and a new object.  The   *)
(* program remembers the generation.                                       *)
Close ==
  /\ opened /\ ~source /\ creating = "no"
  /\ opened' = FALSE /\ generation' = 0 /\ devq' = <<>>
  /\ crossed' = FALSE
  /\ UNCHANGED <<caller, dispatcher, seen, busGen>>

-----------------------------------------------------------------------------
(***************************************************************************)
(* The dispatcher.                                                         *)
(***************************************************************************)
Dispatch ==
  /\ source /\ reading = <<>> /\ devq # <<>>
  /\ reading' = <<Head(devq)>> /\ devq' = Tail(devq)
  /\ UNCHANGED <<opened, generation, caller, handling, seen, crossed, busGen>>

(* handle_bus_reset_event: need_notify, memcpy, g_object_notify.           *)
HandleBusResetCompares ==
  \E e \in BusResets :
    /\ reading = <<e>> /\ handling = "no"
    /\ handling' = IF generation # e.generation THEN "differs" ELSE "same"
    /\ UNCHANGED <<opened, generation, caller, reading, seen, crossed, kernel>>

HandleBusResetCopies ==
  \E e \in BusResets :
    /\ reading = <<e>> /\ handling \in {"differs", "same"}
    /\ generation' = e.generation
    /\ IF handling = "differs"
       THEN handling' = "copied" /\ UNCHANGED reading
       ELSE handling' = "no" /\ reading' = <<>>
    /\ crossed' = (crossed \/ creating # "no")
    /\ UNCHANGED <<opened, caller, seen, kernel>>

HandleBusResetNotifies ==
  /\ handling = "copied" /\ handling' = "no"
  /\ seen' = generation
  /\ reading' = <<>>
  /\ UNCHANGED <<opened, generation, caller, crossed, kernel>>

(* What changes nothing but this structure, whatever the class.            *)
StateStep ==
  \/ CreateSourceBegins \/ CreateSourceCaches \/ CreateSourceFails
  \/ CreateSourceReturns \/ RemoveSource
  \/ Dispatch
  \/ HandleBusResetCompares \/ HandleBusResetCopies \/ HandleBusResetNotifies

-----------------------------------------------------------------------------
(* The generation property is the current generation of the bus, and the   *)
(* program was told so, as soon as the bus resets in the device are        *)
(* handled: neither the generation cached by create_source, which may be   *)
(* ahead of the events, nor the comparisons which save a notification,     *)
(* made by two threads without a lock, lose one.                           *)
GenerationCurrent ==
  opened /\ OnTheWay \cap BusResets = {} /\ creating = "no" =>
    generation = busGen /\ (crossed \/ seen = busGen)

=============================================================================
