------------------------ MODULE FwIsoResourceProofs ------------------------
(***************************************************************************)
(* Proofs about an object of either class: about the structure which both  *)
(* classes have, about FwIsoResourceAuto, about the account of a program   *)
(* which uses FwIsoResourceOnce, and the theorems of the specification.    *)
(***************************************************************************)
EXTENDS FwIsoResource, TLAPS


(***************************************************************************)
(* What the two classes have in common.  Events are handled in the order   *)
(* of the line they stand in: the one that is read, and then those in the  *)
(* device.  Reading an event leaves the line as it is.                     *)
(***************************************************************************)
InLine == Len(reading) + Len(devq)
Line == [i \in 1..InLine |->
           IF i <= Len(reading) THEN reading[i] ELSE devq[i - Len(reading)]]

(***************************************************************************)
(* What a step of a class does to the structure, E being its events.       *)
(***************************************************************************)
PostsOther(E) ==
  \E e \in E \ BusResets :
    /\ opened /\ Post(e)
    /\ UNCHANGED <<opened, generation, caller, dispatcher, seen, crossed, busGen>>

HandlesOther(E) ==
  \E e \in E \ BusResets :
    /\ reading = <<e>> /\ reading' = <<>>
    /\ UNCHANGED <<opened, generation, caller, handling, seen, crossed, kernel>>

StateNext(E) ==
  Open \/ Close \/ BusReset \/ StateStep \/ PostsOther(E) \/ HandlesOther(E)

-----------------------------------------------------------------------------
(* Who is at work: nothing is, on a closed object; the dispatcher has a    *)
(* source; what it has half handled is a bus reset.                        *)
Attached ==
  /\ reading # <<>> => source
  /\ source \/ creating # "no" => opened
  /\ handling # "no" => \E e \in BusResets : reading = <<e>>
  /\ ~opened => devq = <<>>

(* Bus resets stand in the line in their order, and the last is the one    *)
(* the bus is at.                                                          *)
ResetsInOrder ==
  /\ \A i \in DOMAIN Line : Line[i] \in BusResets => Line[i].generation <= busGen
  /\ \A i, j \in DOMAIN Line :
       i < j /\ Line[i] \in BusResets /\ Line[j] \in BusResets =>
         Line[i].generation < Line[j].generation
  /\ \A i \in DOMAIN Line :
       Line[i] \in BusResets =>
         \E j \in DOMAIN Line : Line[j] \in BusResets /\ Line[j].generation = busGen

(* Without a bus reset to come, the cached generation is the current one.  *)
Uncopied(i) == Line[i] \in BusResets /\ (i = 1 => handling # "copied")
Cached ==
  /\ generation <= busGen /\ seen <= busGen
  /\ opened /\ (\A i \in DOMAIN Line : ~Uncopied(i)) => generation = busGen

(* What the program knows, unless two threads got into each other's way.   *)
Known ==
  opened /\ ~crossed =>
    /\ creating = "begun" => before = generation
    /\ creating = "cached" => handling # "copied" /\ seen = before
    /\ creating # "cached" /\ handling # "copied" => seen = generation
    /\ handling = "copied" => seen # generation /\ reading[1].generation = generation
    /\ handling = "same" => reading[1].generation = generation
    /\ handling = "differs" => reading[1].generation # generation

StateInv == Attached /\ ResetsInOrder /\ Cached /\ Known

-----------------------------------------------------------------------------
(***************************************************************************)
(* How the line moves.                                                     *)
(***************************************************************************)
Queue(E) == reading \in {<<>>} \cup {<<e>> : e \in E} /\ devq \in Seq(E)

LEMMA LineShape ==
  ASSUME NEW E, Queue(E)
  PROVE  /\ InLine \in Nat /\ DOMAIN Line = 1..InLine
         /\ Len(reading) \in {0, 1} /\ (reading = <<>> <=> Len(reading) = 0)
         /\ \A i \in DOMAIN Line : Line[i] \in E
<1>1. Len(reading) \in {0, 1} /\ (reading = <<>> <=> Len(reading) = 0) /\ Len(devq) \in Nat
  BY DEF Queue
<1>2. InLine \in Nat /\ DOMAIN Line = 1..InLine
  BY <1>1 DEF InLine, Line
<1>3. ASSUME NEW i \in 1..InLine  PROVE Line[i] \in E
  <2>1. CASE i <= Len(reading)
    BY <1>1, <1>2, <2>1 DEF Line, Queue
  <2>2. CASE i > Len(reading)
    <3>1. i - Len(reading) \in 1..Len(devq) /\ Line[i] = devq[i - Len(reading)]
      BY <1>1, <1>2, <2>2 DEF Line, InLine
    <3> QED BY <3>1 DEF Queue
  <2> QED BY <1>1, <1>2, <2>1, <2>2
<1> QED BY <1>1, <1>2, <1>3

LEMMA LineStays ==
  ASSUME UNCHANGED <<reading, devq>>  PROVE Line' = Line /\ InLine' = InLine
BY DEF Line, InLine

LEMMA LinePosted ==
  ASSUME NEW E, Queue(E), NEW e \in E, Post(e), reading' = reading
  PROVE  /\ InLine' = InLine + 1 /\ DOMAIN Line' = 1..(InLine + 1)
         /\ \A i \in 1..InLine : Line'[i] = Line[i]
         /\ Line'[InLine + 1] = e
         /\ Queue(E)'
<1>1. InLine \in Nat /\ Len(reading) \in {0, 1} /\ Len(devq) \in Nat
  BY LineShape DEF Queue
<1>2. devq' = Append(devq, e)
  BY DEF Post
<1>3. /\ Len(devq') = Len(devq) + 1 /\ devq'[Len(devq) + 1] = e
      /\ \A i \in 1..Len(devq) : devq'[i] = devq[i]
      /\ devq' \in Seq(E)
  BY <1>2 DEF Queue
<1>4. InLine' = InLine + 1
  BY <1>1, <1>3 DEF InLine
<1>5. DOMAIN Line' = 1..(InLine + 1)
  BY <1>4 DEF Line
<1>6. ASSUME NEW i \in 1..InLine  PROVE Line'[i] = Line[i]
  <2>1. i \in 1..InLine'
    BY <1>1, <1>4
  <2>2. CASE i <= Len(reading)
    BY <2>1, <2>2 DEF Line
  <2>3. CASE i > Len(reading)
    <3>1. i - Len(reading) \in 1..Len(devq)
      BY <1>1, <2>3 DEF InLine
    <3> QED BY <2>1, <2>3, <3>1, <1>1, <1>3 DEF Line
  <2> QED BY <1>1, <2>2, <2>3
<1>7. Line'[InLine + 1] = e
  <2>1. Line'[InLine + 1] = IF InLine + 1 <= Len(reading) THEN reading[InLine + 1]
                                          ELSE devq'[InLine + 1 - Len(reading)]
    BY <1>1, <1>4 DEF Line
  <2>2. InLine + 1 > Len(reading) /\ InLine + 1 - Len(reading) = Len(devq) + 1
    BY <1>1 DEF InLine
  <2> QED BY <1>1, <1>3, <2>1, <2>2
<1> QED BY <1>3, <1>4, <1>5, <1>6, <1>7 DEF Queue

LEMMA LineDispatched ==
  ASSUME NEW E, Queue(E), Dispatch  PROVE Line' = Line /\ InLine' = InLine /\ Queue(E)'
<1>1. /\ reading = <<>> /\ devq # <<>> /\ devq \in Seq(E)
      /\ reading' = <<Head(devq)>> /\ devq' = Tail(devq)
  BY DEF Dispatch, Queue
<1>2. /\ Len(reading) = 0 /\ Len(reading') = 1 /\ Len(devq) \in Nat \ {0}
      /\ Len(devq') = Len(devq) - 1 /\ Head(devq) = devq[1] /\ Head(devq) \in E
      /\ devq' \in Seq(E) /\ \A i \in 1..Len(devq') : devq'[i] = devq[i + 1]
  BY <1>1
<1>3. InLine' = InLine /\ InLine = Len(devq)
  BY <1>2 DEF InLine
<1>4. ASSUME NEW i \in 1..InLine  PROVE Line'[i] = Line[i]
  <2>1. Line[i] = devq[i]
    BY <1>2, <1>3 DEF Line
  <2>2. CASE i = 1
    BY <1>1, <1>2, <1>3, <2>1, <2>2 DEF Line
  <2>3. CASE i > 1
    <3>1. i - 1 \in 1..Len(devq')
      BY <1>2, <1>3, <2>3
    <3>2. Line'[i] = devq'[i - 1]
      BY <1>2, <1>3, <2>3 DEF Line
    <3> QED BY <1>2, <2>1, <3>1, <3>2
  <2> QED BY <1>3, <2>2, <2>3
<1>5. Line' = [i \in 1..InLine |-> Line'[i]] /\ Line = [i \in 1..InLine |-> Line[i]]
  BY <1>3 DEF Line
<1> QED BY <1>1, <1>2, <1>3, <1>4, <1>5 DEF Queue

LEMMA LineHandled ==
  ASSUME NEW E, Queue(E), NEW e, reading = <<e>>, reading' = <<>>, devq' = devq
  PROVE  /\ InLine \in Nat \ {0} /\ InLine' = InLine - 1
         /\ DOMAIN Line = 1..InLine /\ DOMAIN Line' = 1..(InLine - 1)
         /\ Line[1] = e
         /\ \A i \in 1..(InLine - 1) : Line'[i] = Line[i + 1]
         /\ Queue(E)'
<1>1. Len(reading) = 1 /\ Len(reading') = 0 /\ Len(devq) \in Nat
  BY DEF Queue
<1>2. InLine = 1 + Len(devq) /\ InLine' = Len(devq)
  BY <1>1 DEF InLine
<1>3. ASSUME NEW i \in 1..(InLine - 1)  PROVE Line'[i] = Line[i + 1]
  BY <1>1, <1>2 DEF Line
<1>4. Line[1] = e
  BY <1>1, <1>2 DEF Line
<1>5. DOMAIN Line = 1..InLine /\ DOMAIN Line' = 1..(InLine - 1)
  BY <1>1, <1>2 DEF Line
<1> QED BY <1>1, <1>2, <1>3, <1>4, <1>5 DEF Queue

LEMMA LineFirst ==
  ASSUME NEW E, Queue(E), NEW e, reading = <<e>>
  PROVE  1 \in DOMAIN Line /\ Line[1] = e
<1>1. Len(reading) = 1 /\ Len(devq) \in Nat /\ reading[1] = e
  BY DEF Queue
<1> QED BY <1>1 DEF Line, InLine

-----------------------------------------------------------------------------
(***************************************************************************)
(* The types, for any set of events with the bus resets among them.        *)
(***************************************************************************)
LEMMA StateTypesKept ==
  ASSUME NEW E, BusResets \subseteq E, StateTypeOK(E), [StateNext(E)]_state
  PROVE  StateTypeOK(E)'
<1> USE FwIsoResourceStateAssumption
<1>q. Queue(E)
  BY DEF StateTypeOK, Queue
<1>1. ASSUME NEW e \in E, Post(e), reading' = reading
      PROVE  devq' \in Seq(E) /\ Len(devq') <= MaxEvents
  <2>1. Queue(E)'
    BY <1>1, <1>q, LinePosted
  <2>2. Len(devq') = Len(devq) + 1 /\ Len(devq) < MaxEvents
    BY <1>1, <1>q DEF Post, Queue
  <2>3. Len(devq) \in Nat
    BY <1>q DEF Queue
  <2> QED BY <2>1, <2>2, <2>3 DEF Queue
<1>2. CASE Open
  BY <1>2 DEF Open, StateTypeOK, caller, dispatcher, kernel
<1>3. CASE Close
  <2>1. <<>> \in Seq(E) /\ Len(<<>>) <= MaxEvents
    OBVIOUS
  <2>2. devq' \in Seq(E) /\ Len(devq') <= MaxEvents
    BY <1>3, <2>1 DEF Close
  <2>3. 0 \in 0..MaxGen
    OBVIOUS
  <2> QED BY <1>3, <2>2, <2>3 DEF Close, StateTypeOK, caller, dispatcher
<1>4. CASE BusReset
  <2>1. busGen' \in 0..MaxGen
    BY <1>4 DEF BusReset, StateTypeOK
  <2>2. [type |-> "BUS_RESET", generation |-> busGen'] \in E
    BY <2>1 DEF BusResets
  <2>3. reading' = reading
    BY <1>4 DEF BusReset, dispatcher
  <2>4. devq' \in Seq(E) /\ Len(devq') <= MaxEvents
    BY <1>1, <1>4, <2>2, <2>3 DEF BusReset, StateTypeOK
  <2> QED BY <1>4, <2>1, <2>4 DEF BusReset, StateTypeOK, caller, dispatcher, kernel
<1>5. CASE CreateSourceBegins \/ CreateSourceCaches \/ CreateSourceFails
             \/ CreateSourceReturns \/ RemoveSource
  <2> USE DEF StateTypeOK, caller, dispatcher, kernel
  <2>1. CASE CreateSourceBegins
    BY <2>1 DEF CreateSourceBegins
  <2>2. CASE CreateSourceCaches
    BY <2>2 DEF CreateSourceCaches
  <2>3. CASE CreateSourceFails
    BY <2>3 DEF CreateSourceFails
  <2>4. CASE CreateSourceReturns
    BY <2>4 DEF CreateSourceReturns
  <2>5. CASE RemoveSource
    BY <2>5 DEF RemoveSource
  <2> QED BY <1>5, <2>1, <2>2, <2>3, <2>4, <2>5
<1>6. CASE Dispatch
  <2>1. Queue(E)'
    BY <1>6, <1>q, LineDispatched
  <2>2. Len(devq') <= MaxEvents
    <3>1. devq \in Seq(E) /\ devq # <<>> /\ devq' = Tail(devq)
      BY <1>6, <1>q DEF Dispatch, Queue
    <3>2. Len(devq') = Len(devq) - 1 /\ Len(devq) \in Nat
      BY <3>1
    <3> QED BY <3>2 DEF StateTypeOK
  <2> QED BY <1>6, <2>1, <2>2 DEF Dispatch, Queue, StateTypeOK, caller, kernel
<1>7. CASE HandleBusResetCompares
  BY <1>7 DEF HandleBusResetCompares, StateTypeOK, caller, kernel
<1>8. CASE HandleBusResetCopies
  BY <1>8 DEF HandleBusResetCopies, BusResets, StateTypeOK, caller, kernel
<1>9. CASE HandleBusResetNotifies
  BY <1>9 DEF HandleBusResetNotifies, StateTypeOK, caller, kernel
<1>10. CASE PostsOther(E)
  <2>1. PICK e \in E : Post(e) /\ reading' = reading
    BY <1>10 DEF PostsOther, dispatcher
  <2> QED BY <1>1, <1>10, <2>1 DEF PostsOther, StateTypeOK, caller, dispatcher
<1>11. CASE HandlesOther(E)
  BY <1>11 DEF HandlesOther, StateTypeOK, caller, kernel
<1>12. CASE UNCHANGED state
  BY <1>12 DEF state, StateTypeOK, caller, dispatcher, kernel
<1> QED BY <1>2, <1>3, <1>4, <1>5, <1>6, <1>7, <1>8, <1>9, <1>10, <1>11, <1>12
        DEF StateNext, StateStep

LEMMA AttachedKept ==
  ASSUME NEW E, BusResets \subseteq E, StateTypeOK(E), Attached, [StateNext(E)]_state
  PROVE  Attached'
<1> USE DEF Attached, caller, dispatcher, kernel
<1>1. CASE Open
  BY <1>1 DEF Open
<1>2. CASE Close
  BY <1>2 DEF Close
<1>3. CASE BusReset
  BY <1>3 DEF BusReset
<1>4. CASE CreateSourceBegins \/ CreateSourceCaches \/ CreateSourceFails
             \/ CreateSourceReturns \/ RemoveSource
  BY <1>4 DEF CreateSourceBegins, CreateSourceCaches, CreateSourceFails,
     CreateSourceReturns, RemoveSource
<1>5. CASE Dispatch
  BY <1>5 DEF Dispatch
<1>6. CASE HandleBusResetCompares \/ HandleBusResetCopies \/ HandleBusResetNotifies
  BY <1>6 DEF HandleBusResetCompares, HandleBusResetCopies, HandleBusResetNotifies
<1>7. CASE PostsOther(E)
  BY <1>7 DEF PostsOther, Post
<1>8. CASE HandlesOther(E)
  BY <1>8 DEF HandlesOther
<1>9. CASE UNCHANGED state
  BY <1>9 DEF state
<1> QED BY <1>1, <1>2, <1>3, <1>4, <1>5, <1>6, <1>7, <1>8, <1>9 DEF StateNext, StateStep

LEMMA InOrderKept ==
  ASSUME NEW E, BusResets \subseteq E, StateTypeOK(E), Attached, ResetsInOrder,
         [StateNext(E)]_state
  PROVE  ResetsInOrder'
<1>q. Queue(E) /\ busGen \in 0..MaxGen
  BY DEF StateTypeOK, Queue
<1>n. InLine \in Nat /\ DOMAIN Line = 1..InLine
  BY <1>q, LineShape
<1>1. ASSUME Line' = Line, busGen' = busGen  PROVE ResetsInOrder'
  BY <1>1 DEF ResetsInOrder
<1>2. ASSUME DOMAIN Line' = {}  PROVE ResetsInOrder'
  BY <1>2 DEF ResetsInOrder
<1>3. ASSUME NEW e, reading = <<e>>, reading' = <<>>, devq' = devq, busGen' = busGen
      PROVE  ResetsInOrder'
  <2>1. /\ InLine \in Nat \ {0} /\ DOMAIN Line = 1..InLine
        /\ DOMAIN Line' = 1..(InLine - 1)
        /\ \A i \in 1..(InLine - 1) : Line'[i] = Line[i + 1]
    BY <1>q, <1>3, LineHandled
  <2>2. ASSUME NEW i \in DOMAIN Line', Line'[i] \in BusResets
        PROVE  Line'[i].generation <= busGen
    BY <2>1, <2>2 DEF ResetsInOrder
  <2>3. ASSUME NEW i \in DOMAIN Line', NEW j \in DOMAIN Line',
               i < j, Line'[i] \in BusResets, Line'[j] \in BusResets
        PROVE  Line'[i].generation < Line'[j].generation
    <3>1. i + 1 \in DOMAIN Line /\ j + 1 \in DOMAIN Line /\ i + 1 < j + 1
      BY <2>1, <2>3
    <3>2. Line'[i] = Line[i + 1] /\ Line'[j] = Line[j + 1]
      BY <2>1, <2>3
    <3> QED BY <2>3, <3>1, <3>2 DEF ResetsInOrder
  <2>4. ASSUME NEW i \in DOMAIN Line', Line'[i] \in BusResets
        PROVE  \E j \in DOMAIN Line' : Line'[j] \in BusResets /\ Line'[j].generation = busGen
    <3>1. i + 1 \in DOMAIN Line /\ Line[i + 1] \in BusResets
      BY <2>1, <2>4
    <3>2. PICK j \in DOMAIN Line : Line[j] \in BusResets /\ Line[j].generation = busGen
      BY <3>1 DEF ResetsInOrder
    <3>3. j # 1
      <4>1. SUFFICES ASSUME j = 1  PROVE FALSE
        OBVIOUS
      <4>2. j < i + 1
        BY <2>1, <4>1
      <4>3. busGen < Line[i + 1].generation /\ Line[i + 1].generation <= busGen
        BY <3>1, <3>2, <4>2 DEF ResetsInOrder
      <4>4. Line[i + 1].generation \in Nat /\ busGen \in Nat
        BY <1>q, <3>1 DEF BusResets
      <4> QED BY <4>3, <4>4
    <3>4. j - 1 \in DOMAIN Line' /\ Line'[j - 1] = Line[j]
      BY <2>1, <3>3
    <3> QED BY <3>2, <3>4
  <2> QED BY <1>3, <2>2, <2>3, <2>4 DEF ResetsInOrder
<1>4. ASSUME NEW e \in E, Post(e), reading' = reading,
             \/ e \notin BusResets /\ busGen' = busGen
             \/ e \in BusResets /\ busGen' = busGen + 1 /\ e.generation = busGen'
      PROVE  ResetsInOrder'
  <2>1. /\ DOMAIN Line' = 1..(InLine + 1)
        /\ \A i \in 1..InLine : Line'[i] = Line[i]
        /\ Line'[InLine + 1] = e
    BY <1>q, <1>4, LinePosted
  <2>2. \A x \in BusResets : x.generation \in Nat
    BY DEF BusResets
  <2>3. ASSUME NEW i \in DOMAIN Line', Line'[i] \in BusResets
        PROVE  Line'[i].generation <= busGen'
    <3>1. CASE i \in 1..InLine
      <4>1. Line[i] \in BusResets /\ Line[i].generation <= busGen
        BY <1>n, <2>1, <2>3, <3>1 DEF ResetsInOrder
      <4> QED BY <1>q, <1>4, <2>1, <2>2, <3>1, <4>1
    <3>2. CASE i = InLine + 1
      BY <1>4, <1>q, <2>1, <2>3, <3>2
    <3> QED BY <1>n, <2>1, <3>1, <3>2
  <2>4. ASSUME NEW i \in DOMAIN Line', NEW j \in DOMAIN Line',
               i < j, Line'[i] \in BusResets, Line'[j] \in BusResets
        PROVE  Line'[i].generation < Line'[j].generation
    <3>1. i \in 1..InLine /\ Line[i] \in BusResets
      BY <1>n, <2>1, <2>4
    <3>2. CASE j \in 1..InLine
      BY <1>n, <2>1, <2>4, <3>1, <3>2 DEF ResetsInOrder
    <3>3. CASE j = InLine + 1
      <4>1. e \in BusResets /\ e.generation = busGen + 1
        BY <1>4, <2>1, <2>4, <3>3
      <4>2. Line[i].generation <= busGen
        BY <1>n, <3>1 DEF ResetsInOrder
      <4> QED BY <1>q, <2>1, <2>2, <3>1, <3>3, <4>1, <4>2
    <3> QED BY <1>n, <2>1, <3>2, <3>3
  <2>5. ASSUME NEW i \in DOMAIN Line', Line'[i] \in BusResets
        PROVE  \E j \in DOMAIN Line' : Line'[j] \in BusResets /\ Line'[j].generation = busGen'
    <3>1. CASE e \in BusResets
      <4>1. e.generation = busGen'
        BY <1>4, <3>1
      <4>2. InLine + 1 \in DOMAIN Line'
        BY <1>n, <2>1
      <4> QED BY <2>1, <3>1, <4>1, <4>2
    <3>2. CASE e \notin BusResets
      <4>1. i \in 1..InLine /\ Line[i] \in BusResets
        BY <1>n, <2>1, <2>5, <3>2
      <4>2. PICK j \in DOMAIN Line : Line[j] \in BusResets /\ Line[j].generation = busGen
        BY <1>n, <4>1 DEF ResetsInOrder
      <4>3. j \in DOMAIN Line' /\ Line'[j] = Line[j] /\ busGen' = busGen
        BY <1>n, <1>4, <2>1, <3>2, <4>2
      <4> QED BY <4>2, <4>3
    <3> QED BY <3>1, <3>2
  <2> QED BY <2>3, <2>4, <2>5 DEF ResetsInOrder
<1>5. CASE Open
  BY <1>1, <1>5, LineStays DEF Open, dispatcher, kernel
<1>6. CASE Close
  <2>1. reading' = <<>> /\ devq' = <<>>
    BY <1>6 DEF Close, Attached, dispatcher
  <2>2. DOMAIN Line' = {}
    BY <2>1 DEF Line, InLine
  <2> QED BY <1>2, <2>2
<1>7. CASE BusReset
  <2>1. reading' = reading /\ busGen' = busGen + 1 /\ busGen' \in 0..MaxGen
    BY <1>7, <1>q, FwIsoResourceStateAssumption DEF BusReset, dispatcher
  <2>2. CASE opened
    <3>1. [type |-> "BUS_RESET", generation |-> busGen'] \in BusResets
      BY <2>1 DEF BusResets
    <3> QED BY <1>4, <1>7, <2>1, <2>2, <3>1 DEF BusReset
  <2>3. CASE ~opened
    <3>1. devq = <<>> /\ devq' = devq /\ reading = <<>>
      BY <1>7, <2>3 DEF BusReset, Attached
    <3>2. DOMAIN Line' = {}
      BY <2>1, <3>1 DEF Line, InLine
    <3> QED BY <1>2, <3>2
  <2> QED BY <2>2, <2>3
<1>8. CASE CreateSourceBegins \/ CreateSourceCaches \/ CreateSourceFails
             \/ CreateSourceReturns \/ RemoveSource
  BY <1>1, <1>8, LineStays DEF CreateSourceBegins, CreateSourceCaches, CreateSourceFails,
     CreateSourceReturns, RemoveSource, dispatcher, kernel
<1>9. CASE Dispatch
  BY <1>1, <1>9, <1>q, LineDispatched DEF Dispatch
<1>10. CASE HandleBusResetCompares
  BY <1>1, <1>10, LineStays DEF HandleBusResetCompares, kernel
<1>11. CASE HandleBusResetCopies
  BY <1>1, <1>3, <1>11, LineStays DEF HandleBusResetCopies, kernel
<1>12. CASE HandleBusResetNotifies
  BY <1>3, <1>12 DEF HandleBusResetNotifies, kernel, Attached
<1>13. CASE PostsOther(E)
  BY <1>4, <1>13 DEF PostsOther, dispatcher
<1>14. CASE HandlesOther(E)
  BY <1>3, <1>14 DEF HandlesOther, kernel
<1>15. CASE UNCHANGED state
  BY <1>1, <1>15, LineStays DEF state, dispatcher, kernel
<1> QED BY <1>5, <1>6, <1>7, <1>8, <1>9, <1>10, <1>11, <1>12, <1>13, <1>14, <1>15
        DEF StateNext, StateStep

LEMMA CachedKept ==
  ASSUME NEW E, BusResets \subseteq E, StateTypeOK(E), Attached, ResetsInOrder, Cached,
         [StateNext(E)]_state
  PROVE  Cached'
<1>q. Queue(E) /\ busGen \in 0..MaxGen /\ generation \in 0..MaxGen /\ seen \in 0..MaxGen
  BY DEF StateTypeOK, Queue
<1>n. InLine \in Nat /\ DOMAIN Line = 1..InLine
  BY <1>q, LineShape
<1> DEFINE Fresh == \A i \in DOMAIN Line : ~Uncopied(i)
<1>f. opened /\ Fresh => generation = busGen
  BY DEF Cached
(* The line keeps its place, and so do the generations.                    *)
<1>1. ASSUME Line' = Line, busGen' = busGen,
             generation' \in {generation, busGen}, seen' \in {seen, generation, busGen},
             opened' = opened, handling' = "copied" <=> handling = "copied"
      PROVE  Cached'
  <2>1. Fresh' <=> Fresh
    BY <1>1 DEF Uncopied
  <2>2. generation' <= busGen' /\ seen' <= busGen'
    BY <1>1, <1>q DEF Cached
  <2>3. opened' /\ Fresh' => generation' = busGen'
    BY <1>1, <1>f, <2>1
  <2> QED BY <2>2, <2>3 DEF Cached
(* When every bus reset in the line but the first was handled, the first   *)
(* is the last of them.                                                    *)
<1>2. ASSUME NEW e \in BusResets, reading = <<e>>
      PROVE  /\ e.generation <= busGen
             /\ (\A i \in DOMAIN Line : Line[i] \in BusResets => i = 1)
                   => e.generation = busGen
  <2>1. 1 \in DOMAIN Line /\ Line[1] = e
    BY <1>q, <1>2, LineFirst
  <2> QED BY <1>2, <2>1 DEF ResetsInOrder
<1>3. ASSUME NEW e, reading = <<e>>, reading' = <<>>, devq' = devq, handling' = "no", Fresh'
      PROVE  \A i \in DOMAIN Line : Line[i] \in BusResets => i = 1
  <2>1. /\ InLine \in Nat \ {0} /\ DOMAIN Line' = 1..(InLine - 1)
        /\ \A i \in 1..(InLine - 1) : Line'[i] = Line[i + 1]
    BY <1>q, <1>3, LineHandled
  <2>2. ASSUME NEW i \in DOMAIN Line, Line[i] \in BusResets, i # 1  PROVE FALSE
    <3>1. i - 1 \in DOMAIN Line' /\ Line'[i - 1] = Line[i]
      BY <1>n, <2>1, <2>2
    <3>2. Uncopied(i - 1)'
      BY <1>3, <2>2, <3>1 DEF Uncopied
    <3> QED BY <1>3, <3>1, <3>2
  <2> QED BY <2>2
<1>4. CASE Open
  <2>1. opened' /\ generation' = busGen /\ seen' = busGen /\ busGen' = busGen
    BY <1>4 DEF Open, kernel
  <2> QED BY <1>q, <2>1 DEF Cached
<1>5. CASE Close
  <2>1. ~opened' /\ generation' = 0 /\ seen' = seen /\ busGen' = busGen
    BY <1>5 DEF Close
  <2> QED BY <1>q, <2>1 DEF Cached
<1>6. CASE BusReset
  <2>1. /\ reading' = reading /\ handling' = handling /\ opened' = opened
        /\ generation' = generation /\ seen' = seen
        /\ busGen' = busGen + 1 /\ busGen' \in 0..MaxGen
    BY <1>6, <1>q, FwIsoResourceStateAssumption DEF BusReset, dispatcher
  <2>2. generation' <= busGen' /\ seen' <= busGen'
    BY <1>q, <2>1 DEF Cached
  <2>3. ASSUME opened  PROVE ~Fresh'
    <3> DEFINE e == [type |-> "BUS_RESET", generation |-> busGen']
    <3>1. e \in BusResets /\ Post(e)
      BY <1>6, <2>1, <2>3 DEF BusReset, BusResets
    <3>2. DOMAIN Line' = 1..(InLine + 1) /\ Line'[InLine + 1] = e
      BY <1>q, <2>1, <3>1, LinePosted
    <3>3. handling' = "copied" => InLine + 1 # 1
      <4>1. SUFFICES ASSUME handling = "copied"  PROVE InLine # 0
        BY <1>n, <2>1
      <4>2. PICK x \in BusResets : reading = <<x>>
        BY <4>1 DEF Attached
      <4> QED BY <1>n, <1>q, <4>2, LineFirst
    <3>4. PICK last \in Nat : last = InLine + 1
      BY <1>n
    <3>5. Uncopied(last)' /\ last \in DOMAIN Line'
      BY <1>n, <3>1, <3>2, <3>3, <3>4 DEF Uncopied
    <3> QED BY <3>5
  <2> QED BY <2>1, <2>2, <2>3 DEF Cached
<1>7. CASE CreateSourceBegins \/ CreateSourceCaches \/ CreateSourceFails
             \/ CreateSourceReturns \/ RemoveSource
  BY <1>1, <1>7, LineStays DEF CreateSourceBegins, CreateSourceCaches, CreateSourceFails,
     CreateSourceReturns, RemoveSource, dispatcher, kernel
<1>8. CASE Dispatch
  BY <1>1, <1>8, <1>q, LineDispatched DEF Dispatch
<1>9. CASE HandleBusResetCompares
  <2>1. handling' # "copied" /\ handling # "copied"
    BY <1>9 DEF HandleBusResetCompares
  <2> QED BY <1>1, <1>9, <2>1, LineStays DEF HandleBusResetCompares, kernel
<1>10. CASE HandleBusResetCopies
  <2>1. PICK e \in BusResets :
          /\ reading = <<e>> /\ generation' = e.generation
          /\ IF handling = "differs" THEN handling' = "copied" /\ reading' = reading
                                    ELSE handling' = "no" /\ reading' = <<>>
          /\ seen' = seen /\ devq' = devq /\ busGen' = busGen /\ opened' = opened
    BY <1>10 DEF HandleBusResetCopies, kernel
  <2>2. generation' <= busGen' /\ seen' <= busGen'
    BY <1>2, <2>1 DEF Cached
  <2>3. ASSUME Fresh'  PROVE generation' = busGen'
    <3>1. CASE handling = "differs"
      <4>1. \A i \in DOMAIN Line : Line[i] \in BusResets => i = 1
        BY <2>1, <2>3, <3>1, LineStays DEF Uncopied
      <4> QED BY <1>2, <2>1, <4>1
    <3>2. CASE handling # "differs"
      BY <1>2, <1>3, <2>1, <2>3, <3>2
    <3> QED BY <3>1, <3>2
  <2> QED BY <2>2, <2>3 DEF Cached
<1>11. CASE HandleBusResetNotifies
  <2>1. /\ handling = "copied" /\ handling' = "no" /\ reading' = <<>>
        /\ seen' = generation /\ generation' = generation
        /\ devq' = devq /\ busGen' = busGen /\ opened' = opened
    BY <1>11 DEF HandleBusResetNotifies, kernel
  <2>2. PICK e \in BusResets : reading = <<e>>
    BY <2>1 DEF Attached
  <2>3. ASSUME Fresh'  PROVE Fresh
    <3>1. \A i \in DOMAIN Line : Line[i] \in BusResets => i = 1
      BY <1>3, <2>1, <2>2, <2>3
    <3> QED BY <2>1, <3>1 DEF Uncopied
  <2> QED BY <1>f, <2>1, <2>3 DEF Cached
<1>12. CASE PostsOther(E)
  <2>1. PICK e \in E \ BusResets :
          /\ Post(e) /\ reading' = reading /\ handling' = handling /\ opened' = opened
          /\ generation' = generation /\ seen' = seen /\ busGen' = busGen
    BY <1>12 DEF PostsOther, dispatcher
  <2>2. DOMAIN Line' = 1..(InLine + 1) /\ \A i \in 1..InLine : Line'[i] = Line[i]
    BY <1>q, <2>1, LinePosted
  <2>3. ASSUME Fresh'  PROVE Fresh
    <3>1. ASSUME NEW i \in DOMAIN Line  PROVE ~Uncopied(i)
      <4>1. i \in DOMAIN Line' /\ Line'[i] = Line[i]
        BY <1>n, <2>2, <3>1
      <4> QED BY <2>1, <2>3, <4>1 DEF Uncopied
    <3> QED BY <3>1
  <2> QED BY <1>f, <2>1, <2>3 DEF Cached
<1>13. CASE HandlesOther(E)
  <2>1. PICK e \in E \ BusResets :
          /\ reading = <<e>> /\ reading' = <<>> /\ handling' = handling /\ opened' = opened
          /\ generation' = generation /\ seen' = seen /\ busGen' = busGen /\ devq' = devq
    BY <1>13 DEF HandlesOther, kernel
  <2>2. handling = "no"
    BY <2>1 DEF Attached
  <2>3. ASSUME Fresh'  PROVE Fresh
    <3>1. \A i \in DOMAIN Line : Line[i] \in BusResets => i = 1
      BY <1>3, <2>1, <2>2, <2>3
    <3>2. Line[1] \notin BusResets
      BY <1>q, <2>1, LineFirst
    <3> QED BY <3>1, <3>2 DEF Uncopied
  <2> QED BY <1>f, <2>1, <2>3 DEF Cached
<1>14. CASE UNCHANGED state
  BY <1>1, <1>14, LineStays DEF state, dispatcher, kernel
<1> QED BY <1>4, <1>5, <1>6, <1>7, <1>8, <1>9, <1>10, <1>11, <1>12, <1>13, <1>14
        DEF StateNext, StateStep

LEMMA KnownKept ==
  ASSUME NEW E, BusResets \subseteq E, StateTypeOK(E), Attached, Known, [StateNext(E)]_state
  PROVE  Known'
<1>1. CASE Open
  BY <1>1 DEF Open, Attached, Known, caller, dispatcher
<1>2. CASE Close
  BY <1>2 DEF Close, Known
<1>3. CASE BusReset
  BY <1>3 DEF BusReset, Known, caller, dispatcher
<1>4. CASE CreateSourceBegins
  BY <1>4 DEF CreateSourceBegins, Known, dispatcher
<1>5. CASE CreateSourceCaches
  BY <1>5 DEF CreateSourceCaches, Known, dispatcher
<1>6. CASE CreateSourceFails
  BY <1>6 DEF CreateSourceFails, Known, dispatcher
<1>7. CASE CreateSourceReturns
  BY <1>7 DEF CreateSourceReturns, Known, dispatcher
<1>8. CASE RemoveSource
  BY <1>8 DEF RemoveSource, Known, dispatcher
<1>9. CASE Dispatch
  BY <1>9 DEF Dispatch, Attached, Known, caller
<1>10. CASE HandleBusResetCompares
  <2>1. PICK e \in BusResets :
          /\ reading = <<e>> /\ handling = "no"
          /\ handling' = IF generation # e.generation THEN "differs" ELSE "same"
    BY <1>10 DEF HandleBusResetCompares
  <2>2. reading[1] = e /\ reading' = reading
    BY <1>10, <2>1 DEF HandleBusResetCompares
  <2> QED BY <1>10, <2>1, <2>2 DEF HandleBusResetCompares, Known, caller
<1>11. CASE HandleBusResetCopies
  <2>1. PICK e \in BusResets :
          /\ reading = <<e>> /\ generation' = e.generation /\ handling \in {"differs", "same"}
          /\ IF handling = "differs" THEN handling' = "copied" ELSE handling' = "no"
    BY <1>11 DEF HandleBusResetCopies
  <2>2. reading[1] = e
    BY <2>1
  <2>3. /\ opened' = opened /\ creating' = creating /\ seen' = seen
        /\ crossed' = (crossed \/ creating # "no")
    BY <1>11 DEF HandleBusResetCopies, caller
  <2>4. SUFFICES ASSUME opened, ~crossed, creating = "no"  PROVE Known'
    BY <2>3 DEF Known
  <2>5. seen = generation
    BY <2>1, <2>4 DEF Known
  <2>6. CASE handling = "differs"
    <3>1. e.generation # generation /\ handling' = "copied" /\ reading' = reading
      BY <1>11, <2>1, <2>2, <2>4, <2>6 DEF HandleBusResetCopies, Known
    <3> QED BY <2>1, <2>2, <2>3, <2>4, <2>5, <3>1 DEF Known
  <2>7. CASE handling = "same"
    <3>1. e.generation = generation /\ handling' = "no"
      BY <2>1, <2>2, <2>4, <2>7 DEF Known
    <3> QED BY <2>1, <2>3, <2>4, <2>5, <3>1 DEF Known
  <2> QED BY <2>1, <2>6, <2>7
<1>12. CASE HandleBusResetNotifies
  BY <1>12 DEF HandleBusResetNotifies, Known, caller
<1>13. CASE PostsOther(E)
  BY <1>13 DEF PostsOther, Known, caller, dispatcher
<1>14. CASE HandlesOther(E)
  <2>1. handling = "no"
    BY <1>14 DEF HandlesOther, Attached
  <2> QED BY <1>14, <2>1 DEF HandlesOther, Known, caller
<1>15. CASE UNCHANGED state
  BY <1>15 DEF state, Known, caller, dispatcher
<1> QED BY <1>1, <1>2, <1>3, <1>4, <1>5, <1>6, <1>7, <1>8, <1>9, <1>10, <1>11, <1>12,
           <1>13, <1>14, <1>15 DEF StateNext, StateStep

-----------------------------------------------------------------------------
LEMMA StateInvInit ==
  ASSUME NEW E, StateInit  PROVE StateTypeOK(E) /\ StateInv
<1> USE FwIsoResourceStateAssumption DEF StateInit
<1>1. <<>> \in Seq(E) /\ Len(<<>>) = 0
  OBVIOUS
<1>2. StateTypeOK(E)
  <2>1. devq \in Seq(E) /\ Len(devq) <= MaxEvents
    BY <1>1
  <2>2. 0 \in 0..MaxGen
    OBVIOUS
  <2> QED BY <2>1, <2>2 DEF StateTypeOK
<1>3. DOMAIN Line = {}
  BY <1>1 DEF Line, InLine
<1>4. Attached
  BY DEF Attached
<1>5. ResetsInOrder
  BY <1>3 DEF ResetsInOrder
<1>6. Cached
  BY DEF Cached
<1>7. Known
  BY DEF Known
<1> QED BY <1>2, <1>4, <1>5, <1>6, <1>7 DEF StateInv

LEMMA StateInvKept ==
  ASSUME NEW E, BusResets \subseteq E, StateTypeOK(E), StateInv, [StateNext(E)]_state
  PROVE  StateTypeOK(E)' /\ StateInv'
BY StateTypesKept, AttachedKept, InOrderKept, CachedKept, KnownKept DEF StateInv

(* Only finalize closes the device.                                        *)
LEMMA StaysOpen ==
  ASSUME opened, Open \/ StateStep \/ UNCHANGED state  PROVE opened'
<1>1. CASE Open
  BY <1>1 DEF Open
<1>2. CASE CreateSourceBegins \/ CreateSourceCaches \/ CreateSourceFails
             \/ CreateSourceReturns \/ RemoveSource \/ Dispatch
  BY <1>2 DEF CreateSourceBegins, CreateSourceCaches, CreateSourceFails,
     CreateSourceReturns, RemoveSource, Dispatch
<1>3. CASE HandleBusResetCompares \/ HandleBusResetCopies \/ HandleBusResetNotifies
  BY <1>3 DEF HandleBusResetCompares, HandleBusResetCopies, HandleBusResetNotifies
<1>4. CASE UNCHANGED state
  BY <1>4 DEF state
<1> QED BY <1>1, <1>2, <1>3, <1>4 DEF StateStep

(* What is on the way stands in the line.                                  *)
LEMMA LineIsOnTheWay ==
  ASSUME NEW E, StateTypeOK(E)
  PROVE  \A e : e \in OnTheWay <=> \E i \in DOMAIN Line : Line[i] = e
<1>1. Queue(E)
  BY DEF StateTypeOK, Queue
<1>2. /\ DOMAIN reading = 1..Len(reading) /\ DOMAIN devq = 1..Len(devq)
      /\ Len(reading) \in {0, 1} /\ Len(devq) \in Nat
      /\ DOMAIN Line = 1..(Len(reading) + Len(devq))
  BY <1>1 DEF Queue, Line, InLine
<1> TAKE e
<1>3. ASSUME NEW i \in DOMAIN reading  PROVE i \in DOMAIN Line /\ Line[i] = reading[i]
  BY <1>2 DEF Line, InLine
<1>4. ASSUME NEW i \in DOMAIN devq
      PROVE  \E j \in DOMAIN Line : Line[j] = devq[i]
  <2>1. i + Len(reading) \in DOMAIN Line
    BY <1>2
  <2>2. ~(i + Len(reading) <= Len(reading)) /\ (i + Len(reading)) - Len(reading) = i
    BY <1>2
  <2>3. Line[i + Len(reading)] = devq[i]
    BY <2>1, <2>2 DEF Line, InLine
  <2> QED BY <2>1, <2>3
<1>5. ASSUME NEW i \in DOMAIN Line  PROVE Line[i] \in OnTheWay
  <2>1. CASE i <= Len(reading)
    BY <1>2, <1>3, <2>1 DEF Line, InLine, OnTheWay
  <2>2. CASE ~(i <= Len(reading))
    <3>1. i - Len(reading) \in DOMAIN devq /\ Line[i] = devq[i - Len(reading)]
      BY <1>2, <2>2 DEF Line, InLine
    <3> QED BY <3>1 DEF OnTheWay
  <2> QED BY <2>1, <2>2
<1> QED BY <1>3, <1>4, <1>5 DEF OnTheWay

LEMMA GenerationFollows ==
  ASSUME NEW E, StateTypeOK(E), StateInv  PROVE GenerationCurrent
<1>1. SUFFICES ASSUME opened, OnTheWay \cap BusResets = {}, creating = "no"
               PROVE  generation = busGen /\ (crossed \/ seen = busGen)
  BY DEF GenerationCurrent
<1>2. \A i \in DOMAIN Line : Line[i] \notin BusResets
  BY <1>1, LineIsOnTheWay
<1>3. generation = busGen
  BY <1>1, <1>2 DEF StateInv, Cached, Uncopied
<1>4. handling = "no"
  <2>1. SUFFICES ASSUME handling # "no"  PROVE FALSE
    OBVIOUS
  <2>2. PICK e \in BusResets : reading = <<e>>
    BY <2>1 DEF StateInv, Attached
  <2>3. 1 \in DOMAIN Line /\ Line[1] = e
    BY <2>2, LineFirst DEF StateTypeOK, Queue
  <2> QED BY <1>2, <2>3
<1> QED BY <1>1, <1>3, <1>4 DEF StateInv, Known

-----------------------------------------------------------------------------
(***************************************************************************)
(* What an orderly object knows, as a phase of the kernel's resource and   *)
(* of the answers in the line.                                             *)
(***************************************************************************)
(* The resource events in the line: none, only e, or d and then e.         *)
NoAnswer == \A i \in DOMAIN Line : Line[i] \notin ResourceEvents
OnlyAnswer(e) ==
  \E i \in DOMAIN Line :
    /\ Line[i] = e
    /\ \A j \in DOMAIN Line : Line[j] \in ResourceEvents => j = i
TwoAnswers(d, e) ==
  \E i, k \in DOMAIN Line :
    /\ i < k /\ Line[i] = d /\ Line[k] = e
    /\ \A j \in DOMAIN Line : Line[j] \in ResourceEvents => j = i \/ j = k

AllFree == \A h \in Handles : res[h] = Free
OnlyHandle(states) ==
  /\ handle \in Handles /\ res[handle].st \in states
  /\ \A h \in Handles \ {handle} : res[h] = Free

Amounts == {0} \cup Bandwidths
Gained(ok, bw) == [type |-> "ALLOCATED", ok |-> ok, bw |-> bw]
Lost(ok, bw) == [type |-> "DEALLOCATED", ok |-> ok, bw |-> bw]
Kept == {"held", "reallocating"}

(* Where an orderly object can be, before it is told that it has the       *)
(* resource, and after.                                                    *)
BeforeTold ==
  /\ ~is_allocated /\ bandwidth = 0
  /\ \/ AllFree /\ NoAnswer
     \/ OnlyHandle({"allocating"}) /\ NoAnswer
     \/ AllFree /\ \E bw \in Amounts : OnlyAnswer(Gained(FALSE, bw))
     \/ OnlyHandle(Kept) /\ OnlyAnswer(Gained(TRUE, res[handle].bw))
     \/ AllFree /\ \E bw \in Amounts : TwoAnswers(Gained(TRUE, bw), Lost(FALSE, bw))

AfterTold ==
  /\ is_allocated
  /\ \/ OnlyHandle(Kept \cup {"deallocating"}) /\ NoAnswer
        /\ bandwidth = res[handle].bw
     \/ AllFree /\ \E bw \in Amounts : bw = bandwidth /\ OnlyAnswer(Lost(TRUE, bw))
     \/ AllFree /\ \E bw \in Amounts : OnlyAnswer(Lost(FALSE, bw))

Orderly == orderly => BeforeTold \/ AfterTold
AutoEvents == BusResets \cup ResourceEvents

AutoInv ==
  /\ StateTypeOK(AutoEvents) /\ AutoTypeOK
  /\ StateInv
  /\ ~opened => AllFree
  /\ Orderly

-----------------------------------------------------------------------------
LEMMA EventsDiffer == BusResets \cap ResourceEvents = {}
BY DEF BusResets, ResourceEvents

(***************************************************************************)
(* How the answers in the line move.                                       *)
(***************************************************************************)
LEMMA AnswersStay ==
  ASSUME Line' = Line
  PROVE  /\ NoAnswer => NoAnswer'
         /\ \A d : OnlyAnswer(d) => OnlyAnswer(d)'
         /\ \A d, e : TwoAnswers(d, e) => TwoAnswers(d, e)'
BY DEF NoAnswer, OnlyAnswer, TwoAnswers

LEMMA NoAnswerInEmptyLine ==
  ASSUME reading' = <<>>, devq' = <<>>  PROVE NoAnswer'
BY DEF NoAnswer, Line, InLine

LEMMA OtherPosted ==
  ASSUME NEW E, Queue(E), NEW x \in E \ ResourceEvents, Post(x), reading' = reading
  PROVE  /\ NoAnswer => NoAnswer'
         /\ \A d : OnlyAnswer(d) => OnlyAnswer(d)'
         /\ \A d, e : TwoAnswers(d, e) => TwoAnswers(d, e)'
<1>1. InLine \in Nat /\ DOMAIN Line = 1..InLine
  BY LineShape
<1>2. /\ DOMAIN Line' = 1..(InLine + 1) /\ Line'[InLine + 1] = x
      /\ \A i \in 1..InLine : Line'[i] = Line[i]
  BY LinePosted
<1>3. \A i \in DOMAIN Line : i \in DOMAIN Line' /\ Line'[i] = Line[i]
  BY <1>1, <1>2
<1>4. \A i \in DOMAIN Line' : Line'[i] \in ResourceEvents => i \in DOMAIN Line
  BY <1>1, <1>2
<1>5. NoAnswer => NoAnswer'
  BY <1>3, <1>4 DEF NoAnswer
<1>6. ASSUME NEW d, OnlyAnswer(d)  PROVE OnlyAnswer(d)'
  BY <1>3, <1>4, <1>6 DEF OnlyAnswer
<1>7. ASSUME NEW d, NEW e, TwoAnswers(d, e)  PROVE TwoAnswers(d, e)'
  BY <1>3, <1>4, <1>7 DEF TwoAnswers
<1> QED BY <1>5, <1>6, <1>7

LEMMA AnswerPosted ==
  ASSUME NEW E, Queue(E), NEW x \in E, Post(x), reading' = reading
  PROVE  /\ NoAnswer => OnlyAnswer(x)'
         /\ \A d : OnlyAnswer(d) => TwoAnswers(d, x)'
<1>1. InLine \in Nat /\ DOMAIN Line = 1..InLine
  BY LineShape
<1>2. /\ DOMAIN Line' = 1..(InLine + 1) /\ Line'[InLine + 1] = x
      /\ \A i \in 1..InLine : Line'[i] = Line[i]
  BY LinePosted
<1>3. PICK last \in Nat : last = InLine + 1
  BY <1>1
<1>4. /\ \A i \in DOMAIN Line : i \in DOMAIN Line' /\ Line'[i] = Line[i] /\ i < last
      /\ last \in DOMAIN Line' /\ Line'[last] = x
      /\ \A i \in DOMAIN Line' : i \in DOMAIN Line \/ i = last
  BY <1>1, <1>2, <1>3
<1>5. NoAnswer => OnlyAnswer(x)'
  BY <1>4 DEF NoAnswer, OnlyAnswer
<1>6. ASSUME NEW d, OnlyAnswer(d)  PROVE TwoAnswers(d, x)'
  BY <1>4, <1>6 DEF OnlyAnswer, TwoAnswers
<1> QED BY <1>5, <1>6

LEMMA OtherHandled ==
  ASSUME NEW E, Queue(E), NEW x, reading = <<x>>, reading' = <<>>, devq' = devq,
         x \notin ResourceEvents
  PROVE  /\ NoAnswer => NoAnswer'
         /\ \A d \in ResourceEvents : OnlyAnswer(d) => OnlyAnswer(d)'
         /\ \A d, e \in ResourceEvents : TwoAnswers(d, e) => TwoAnswers(d, e)'
<1>1. /\ InLine \in Nat \ {0} /\ DOMAIN Line = 1..InLine /\ DOMAIN Line' = 1..(InLine - 1)
      /\ Line[1] = x /\ \A i \in 1..(InLine - 1) : Line'[i] = Line[i + 1]
  BY LineHandled
<1>2. \A i \in DOMAIN Line' : i \in Nat /\ i + 1 \in DOMAIN Line /\ Line'[i] = Line[i + 1]
  BY <1>1
<1>3. \A i \in DOMAIN Line :
         Line[i] \in ResourceEvents => i \in Nat /\ i - 1 \in DOMAIN Line' /\ Line'[i - 1] = Line[i]
  <2> TAKE i \in DOMAIN Line
  <2> HAVE Line[i] \in ResourceEvents
  <2>1. i # 1
    BY <1>1
  <2> QED BY <1>1, <2>1
<1>4. NoAnswer => NoAnswer'
  BY <1>2 DEF NoAnswer
<1>5. ASSUME NEW d \in ResourceEvents, OnlyAnswer(d)  PROVE OnlyAnswer(d)'
  <2>1. PICK i \in DOMAIN Line :
          Line[i] = d /\ \A j \in DOMAIN Line : Line[j] \in ResourceEvents => j = i
    BY <1>5 DEF OnlyAnswer
  <2>2. i - 1 \in DOMAIN Line' /\ Line'[i - 1] = d /\ i \in Nat
    BY <1>3, <2>1
  <2>3. \A j \in DOMAIN Line' : Line'[j] \in ResourceEvents => j = i - 1
    BY <1>2, <2>1, <2>2
  <2> QED BY <2>2, <2>3 DEF OnlyAnswer
<1>6. ASSUME NEW d \in ResourceEvents, NEW e \in ResourceEvents, TwoAnswers(d, e)
      PROVE  TwoAnswers(d, e)'
  <2>1. PICK i \in DOMAIN Line, k \in DOMAIN Line :
          /\ i < k /\ Line[i] = d /\ Line[k] = e
          /\ \A j \in DOMAIN Line : Line[j] \in ResourceEvents => j = i \/ j = k
    BY <1>6 DEF TwoAnswers
  <2>2. /\ i - 1 \in DOMAIN Line' /\ Line'[i - 1] = d /\ i \in Nat
        /\ k - 1 \in DOMAIN Line' /\ Line'[k - 1] = e /\ k \in Nat
    BY <1>3, <2>1
  <2>3. \A j \in DOMAIN Line' : Line'[j] \in ResourceEvents => j = i - 1 \/ j = k - 1
    BY <1>2, <2>1, <2>2
  <2>4. i - 1 < k - 1
    BY <2>1, <2>2
  <2> QED BY <2>2, <2>3, <2>4 DEF TwoAnswers
<1> QED BY <1>4, <1>5, <1>6

LEMMA AnswerHandled ==
  ASSUME NEW E, Queue(E), NEW x \in ResourceEvents,
         reading = <<x>>, reading' = <<>>, devq' = devq
  PROVE  /\ ~NoAnswer
         /\ \A d \in ResourceEvents : OnlyAnswer(d) => d = x /\ NoAnswer'
         /\ \A d, e \in ResourceEvents : TwoAnswers(d, e) => d = x /\ OnlyAnswer(e)'
<1>1. /\ InLine \in Nat \ {0} /\ DOMAIN Line = 1..InLine /\ DOMAIN Line' = 1..(InLine - 1)
      /\ Line[1] = x /\ \A i \in 1..(InLine - 1) : Line'[i] = Line[i + 1]
  BY LineHandled
<1>2. \A i \in DOMAIN Line' : i \in Nat \ {0} /\ i + 1 \in DOMAIN Line /\ Line'[i] = Line[i + 1]
  BY <1>1
<1>3. 1 \in DOMAIN Line /\ \A i \in DOMAIN Line : i \in Nat \ {0}
  BY <1>1
<1>4. ~NoAnswer
  BY <1>1, <1>3 DEF NoAnswer
<1>5. ASSUME NEW d \in ResourceEvents, OnlyAnswer(d)  PROVE d = x /\ NoAnswer'
  <2>1. PICK i \in DOMAIN Line :
          Line[i] = d /\ \A j \in DOMAIN Line : Line[j] \in ResourceEvents => j = i
    BY <1>5 DEF OnlyAnswer
  <2>2. i = 1
    BY <1>1, <1>3, <2>1
  <2>3. \A j \in DOMAIN Line' : Line'[j] \notin ResourceEvents
    BY <1>2, <2>1, <2>2
  <2> QED BY <1>1, <2>1, <2>2, <2>3 DEF NoAnswer
<1>6. ASSUME NEW d \in ResourceEvents, NEW e \in ResourceEvents, TwoAnswers(d, e)
      PROVE  d = x /\ OnlyAnswer(e)'
  <2>1. PICK i \in DOMAIN Line, k \in DOMAIN Line :
          /\ i < k /\ Line[i] = d /\ Line[k] = e
          /\ \A j \in DOMAIN Line : Line[j] \in ResourceEvents => j = i \/ j = k
    BY <1>6 DEF TwoAnswers
  <2>2. i = 1 /\ k \in Nat
    BY <1>1, <1>3, <2>1
  <2>3. k - 1 \in DOMAIN Line' /\ Line'[k - 1] = e
    BY <1>1, <2>1, <2>2
  <2>4. \A j \in DOMAIN Line' : Line'[j] \in ResourceEvents => j = k - 1
    BY <1>2, <2>1, <2>2
  <2> QED BY <1>1, <2>1, <2>2, <2>3, <2>4 DEF OnlyAnswer
<1> QED BY <1>4, <1>5, <1>6

-----------------------------------------------------------------------------
(***************************************************************************)
(* The types, and the step of the structure.                               *)
(***************************************************************************)
LEMMA AutoTypesKept ==
  ASSUME AutoTypeOK, [AutoNext]_<<state, autoVars>>  PROVE AutoTypeOK'
<1> USE FwIsoResourceAutoAssumption
<1>t. /\ is_allocated \in BOOLEAN /\ bandwidth \in 0..(UintSize - 1)
      /\ handle \in {0} \cup Handles /\ res \in [Handles -> Resources]
      /\ orderly \in BOOLEAN
  BY DEF AutoTypeOK
<1>f. Free \in Resources
  BY DEF Free, Resources
<1>1. CASE UNCHANGED autoVars
  BY <1>1, <1>t DEF AutoTypeOK, autoVars, object
<1>2. ASSUME NEW h \in Handles, NEW ok \in BOOLEAN,
             KernelAllocates(h, ok) \/ KernelDeallocates(h, ok) \/ KernelReallocates(h, ok)
      PROVE  AutoTypeOK'
  <2>1. [res[h] EXCEPT !.st = "held"] \in Resources
    BY <1>t DEF Resources
  <2>2. \/ res' = [res EXCEPT ![h] = Free]
        \/ res' = [res EXCEPT ![h] = [res[h] EXCEPT !.st = "held"]]
    BY <1>2 DEF KernelAllocates, KernelDeallocates, KernelReallocates
  <2>3. UNCHANGED <<object, orderly>>
    BY <1>2 DEF KernelAllocates, KernelDeallocates, KernelReallocates, KernelStep
  <2> QED BY <1>t, <1>f, <2>1, <2>2, <2>3 DEF AutoTypeOK, object
<1>3. CASE AutoBusReset
  <2>1. ASSUME NEW h \in Handles  PROVE [res[h] EXCEPT !.st = "reallocating"] \in Resources
    BY <1>t DEF Resources
  <2>2. res' \in [Handles -> Resources]
    BY <1>3, <1>t, <2>1 DEF AutoBusReset
  <2> QED BY <1>3, <1>t, <2>2 DEF AutoBusReset, AutoTypeOK, object
<1>4. ASSUME NEW h \in Handles, NEW bw \in Bandwidths, AutoAllocate(h, bw)  PROVE AutoTypeOK'
  <2>1. [st |-> "allocating", bw |-> bw] \in Resources
    BY DEF Resources
  <2>2. res' \in [Handles -> Resources]
    BY <1>4, <1>t, <2>1 DEF AutoAllocate
  <2>3. orderly' \in BOOLEAN
    BY <1>4 DEF AutoAllocate
  <2> QED BY <1>4, <1>t, <2>2, <2>3 DEF AutoAllocate, AutoTypeOK
<1>5. CASE AutoDeallocate
  <2>1. [res[handle] EXCEPT !.st = "deallocating"] \in Resources /\ handle \in Handles
    BY <1>5, <1>t DEF AutoDeallocate, Resources
  <2>2. res' \in [Handles -> Resources]
    BY <1>5, <1>t, <2>1 DEF AutoDeallocate
  <2> QED BY <1>5, <1>t, <2>2 DEF AutoDeallocate, AutoTypeOK, object
<1>6. CASE AutoFinalize
  <2>1. res' \in [Handles -> Resources] /\ 0 \in 0..(UintSize - 1)
    BY <1>6, <1>f DEF AutoFinalize
  <2> QED BY <1>6, <2>1 DEF AutoFinalize, AutoTypeOK
<1>7. CASE HandleIsoResource
  <2>1. PICK e \in ResourceEvents :
          /\ CASE e.ok /\ e.type = "ALLOCATED" ->
                    is_allocated' = TRUE /\ bandwidth' = e.bw
               [] e.ok /\ e.type = "DEALLOCATED" ->
                    is_allocated' = FALSE /\ bandwidth' = Minus(bandwidth, e.bw)
               [] ~e.ok -> UNCHANGED <<is_allocated, bandwidth>>
          /\ orderly' = (orderly /\ (e.ok \/ e.type = "ALLOCATED"))
          /\ handle' = handle /\ res' = res
    BY <1>7 DEF HandleIsoResource
  <2>2. e.bw \in 0..(UintSize - 1) /\ e.ok \in BOOLEAN /\ e.type \in {"ALLOCATED", "DEALLOCATED"}
    <3>1. {0} \cup Bandwidths \subseteq 0..(UintSize - 1)
      OBVIOUS
    <3>2. /\ e.bw \in {0} \cup Bandwidths
          /\ e.ok \in BOOLEAN /\ e.type \in {"ALLOCATED", "DEALLOCATED"}
      BY DEF ResourceEvents
    <3> QED BY <3>1, <3>2
  <2>3. Minus(bandwidth, e.bw) \in 0..(UintSize - 1)
    <3>1. bandwidth - e.bw \in Int
      BY <1>t, <2>2
    <3> QED BY <3>1 DEF Minus
  <2>4. is_allocated' \in BOOLEAN /\ bandwidth' \in 0..(UintSize - 1)
    BY <1>t, <2>1, <2>2, <2>3
  <2>5. orderly' \in BOOLEAN
    BY <2>1
  <2> QED BY <1>t, <2>1, <2>4, <2>5 DEF AutoTypeOK
<1> QED BY <1>1, <1>2, <1>3, <1>4, <1>5, <1>6, <1>7 DEF AutoNext, autoVars

(* To the structure each step of the object or the kernel is one of those  *)
(* any class takes.  A closed object has nothing to get answers for.       *)
LEMMA AutoStepsState ==
  ASSUME AutoTypeOK, ~opened => AllFree, [AutoNext]_<<state, autoVars>>
  PROVE  [StateNext(AutoEvents)]_state
<1>1. CASE (Open \/ StateStep) /\ UNCHANGED autoVars
  BY <1>1 DEF StateNext
<1>2. CASE AutoFinalize
  BY <1>2 DEF AutoFinalize, StateNext
<1>3. CASE AutoDeallocate
  BY <1>3 DEF AutoDeallocate
<1>4. ASSUME NEW h \in Handles, NEW bw \in Bandwidths, AutoAllocate(h, bw)
      PROVE  UNCHANGED state
  BY <1>4 DEF AutoAllocate
<1>5. CASE HandleIsoResource
  <2>1. HandlesOther(AutoEvents)
    BY <1>5, EventsDiffer DEF HandleIsoResource, HandlesOther, AutoEvents
  <2> QED BY <2>1 DEF StateNext
<1>6. ASSUME NEW h \in Handles, NEW ok \in BOOLEAN,
             KernelAllocates(h, ok) \/ KernelDeallocates(h, ok) \/ KernelReallocates(h, ok)
      PROVE  StateNext(AutoEvents) \/ UNCHANGED state
  <2>1. res[h].st # "free"
    BY <1>6 DEF KernelAllocates, KernelDeallocates, KernelReallocates
  <2>2. opened
    BY <2>1 DEF AllFree, Free
  <2>3. res[h].bw \in {0} \cup Bandwidths
    BY DEF AutoTypeOK, Resources
  <2> DEFINE gained == [type |-> "ALLOCATED", ok |-> ok, bw |-> res[h].bw]
             lost == [type |-> "DEALLOCATED", ok |-> ok, bw |-> res[h].bw]
  <2>4. gained \in AutoEvents \ BusResets /\ lost \in AutoEvents \ BusResets
    BY <2>3, EventsDiffer DEF AutoEvents, ResourceEvents
  <2>5. KernelStep
    BY <1>6 DEF KernelAllocates, KernelDeallocates, KernelReallocates
  <2>6. Post(gained) \/ Post(lost) \/ devq' = devq
    BY <1>6 DEF KernelAllocates, KernelDeallocates, KernelReallocates
  <2>7. PostsOther(AutoEvents) \/ UNCHANGED state
    BY <2>2, <2>4, <2>5, <2>6 DEF PostsOther, KernelStep, state, kernel
  <2> QED BY <2>7 DEF StateNext
<1>7. CASE AutoBusReset
  BY <1>7 DEF AutoBusReset, StateNext
<1> QED BY <1>1, <1>2, <1>3, <1>4, <1>5, <1>6, <1>7 DEF AutoNext

LEMMA ClosedKept ==
  ASSUME AutoTypeOK, ~opened => AllFree, [AutoNext]_<<state, autoVars>>
  PROVE  (~opened => AllFree)'
<1> SUFFICES ASSUME ~opened'  PROVE AllFree'
  OBVIOUS
<1>1. CASE (Open \/ StateStep \/ UNCHANGED state) /\ UNCHANGED autoVars
  BY <1>1, StaysOpen DEF AllFree, autoVars
<1>2. CASE AutoFinalize
  BY <1>2 DEF AutoFinalize, AllFree
<1>3. CASE AutoDeallocate
  BY <1>3 DEF AutoDeallocate, state
<1>4. ASSUME NEW h \in Handles, NEW bw \in Bandwidths, AutoAllocate(h, bw)
      PROVE  FALSE
  BY <1>4 DEF AutoAllocate, state
<1>5. CASE HandleIsoResource
  BY <1>5 DEF HandleIsoResource, AllFree
<1>6. ASSUME NEW h \in Handles, NEW ok \in BOOLEAN,
             KernelAllocates(h, ok) \/ KernelDeallocates(h, ok) \/ KernelReallocates(h, ok)
      PROVE  FALSE
  BY <1>6 DEF KernelAllocates, KernelDeallocates, KernelReallocates, KernelStep, AllFree, Free
<1>7. CASE AutoBusReset
  BY <1>7 DEF AutoBusReset, BusReset, AllFree, Free, Holding
<1> QED BY <1>1, <1>2, <1>3, <1>4, <1>5, <1>6, <1>7 DEF AutoNext

-----------------------------------------------------------------------------
(***************************************************************************)
(* What an orderly object is told.                                         *)
(***************************************************************************)
LEMMA AnswersAreEvents ==
  \A ok \in BOOLEAN, bw \in Amounts :
    Gained(ok, bw) \in ResourceEvents /\ Lost(ok, bw) \in ResourceEvents
BY DEF Gained, Lost, ResourceEvents, Amounts

(* A step of which the object sees nothing, and which leaves a resource    *)
(* that is kept one that is kept.                                          *)
KeptStay ==
  \A h \in Handles :
    \/ res'[h] = res[h]
    \/ res[h].st \in Kept /\ res'[h] = [res[h] EXCEPT !.st = "held"]
    \/ res[h].st \in Kept /\ res'[h] = [res[h] EXCEPT !.st = "reallocating"]
AnswersStand ==
  /\ NoAnswer => NoAnswer'
  /\ \A d \in ResourceEvents : OnlyAnswer(d) => OnlyAnswer(d)'
  /\ \A d, e \in ResourceEvents : TwoAnswers(d, e) => TwoAnswers(d, e)'

LEMMA OrderlyUnseen ==
  ASSUME AutoTypeOK, Orderly, AnswersStand, KeptStay, UNCHANGED <<object, orderly>>
  PROVE  Orderly'
<1>t. /\ handle' = handle /\ is_allocated' = is_allocated /\ bandwidth' = bandwidth
      /\ orderly' = orderly
  BY DEF object
<1>r. \A h \in Handles : res[h] \in Resources
  BY DEF AutoTypeOK
<1>b. \A h \in Handles : res[h].bw \in Amounts
  BY <1>r DEF Resources, Amounts
<1>2. \A h \in Handles : res'[h].bw = res[h].bw
  BY <1>r DEF Resources, KeptStay
<1>3. \A h \in Handles : /\ res[h].st \in Kept => res'[h].st \in Kept
                         /\ res[h].st \notin Kept => res'[h] = res[h]
  BY <1>r DEF Resources, Kept, KeptStay
<1>1. AllFree => AllFree'
  <2>1. Free.st \notin Kept
    BY DEF Free, Kept
  <2> QED BY <1>3, <2>1 DEF AllFree
<1>4. ASSUME NEW S, OnlyHandle(S), S \in {Kept, {"allocating"}, Kept \cup {"deallocating"}}
      PROVE  OnlyHandle(S)'
  <2>0. handle \in Handles /\ res[handle].st \in S
    BY <1>4 DEF OnlyHandle
  <2>1. handle' \in Handles /\ res'[handle].st \in S
    <3>1. CASE res[handle].st \in Kept
      <4>1. Kept \subseteq S
        BY <1>4, <2>0, <3>1 DEF Kept
      <4>2. res'[handle].st \in Kept
        BY <1>3, <2>0, <3>1
      <4>3. handle' \in Handles
        BY <1>t, <2>0
      <4> QED BY <4>1, <4>2, <4>3
    <3>2. CASE res[handle].st \notin Kept
      BY <1>t, <1>3, <2>0, <3>2
    <3> QED BY <3>1, <3>2
  <2>2. \A h \in Handles \ {handle} : res'[h] = Free
    BY <1>3, <1>4 DEF OnlyHandle, Kept, Free
  <2> QED BY <1>t, <2>1, <2>2 DEF OnlyHandle
<1>5. BeforeTold => BeforeTold'
  <2> SUFFICES ASSUME BeforeTold  PROVE BeforeTold'
    OBVIOUS
  <2>t. ~is_allocated' /\ bandwidth' = 0
    BY <1>t DEF BeforeTold
  <2>1. CASE AllFree /\ NoAnswer
    BY <1>1, <2>1, <2>t DEF BeforeTold, AnswersStand
  <2>2. CASE OnlyHandle({"allocating"}) /\ NoAnswer
    BY <1>4, <2>2, <2>t DEF BeforeTold, AnswersStand
  <2>3. CASE AllFree /\ \E bw \in Amounts : OnlyAnswer(Gained(FALSE, bw))
    <3>1. PICK bw \in Amounts : OnlyAnswer(Gained(FALSE, bw))
      BY <2>3
    <3>2. OnlyAnswer(Gained(FALSE, bw))'
      BY <3>1, AnswersAreEvents DEF AnswersStand
    <3> QED BY <1>1, <2>3, <2>t, <3>2 DEF BeforeTold
  <2>4. CASE OnlyHandle(Kept) /\ OnlyAnswer(Gained(TRUE, res[handle].bw))
    <3>1. PICK bw \in Amounts : bw = res[handle].bw
      BY <1>b, <2>4 DEF OnlyHandle
    <3>2. OnlyAnswer(Gained(TRUE, bw))'
      BY <2>4, <3>1, AnswersAreEvents DEF AnswersStand
    <3>3. res'[handle'].bw = bw
      BY <1>t, <1>2, <2>4, <3>1 DEF OnlyHandle
    <3> QED BY <1>4, <2>4, <2>t, <3>2, <3>3 DEF BeforeTold
  <2>5. CASE AllFree /\ \E bw \in Amounts : TwoAnswers(Gained(TRUE, bw), Lost(FALSE, bw))
    <3>1. PICK bw \in Amounts : TwoAnswers(Gained(TRUE, bw), Lost(FALSE, bw))
      BY <2>5
    <3>2. TwoAnswers(Gained(TRUE, bw), Lost(FALSE, bw))'
      BY <3>1, AnswersAreEvents DEF AnswersStand
    <3> QED BY <1>1, <2>5, <2>t, <3>2 DEF BeforeTold
  <2> QED BY <2>1, <2>2, <2>3, <2>4, <2>5 DEF BeforeTold
<1>6. AfterTold => AfterTold'
  <2> SUFFICES ASSUME AfterTold  PROVE AfterTold'
    OBVIOUS
  <2>t. is_allocated'
    BY <1>t DEF AfterTold
  <2>1. CASE /\ OnlyHandle(Kept \cup {"deallocating"}) /\ NoAnswer
             /\ bandwidth = res[handle].bw
    <3>1. bandwidth' = res'[handle'].bw
      BY <1>t, <1>2, <2>1 DEF OnlyHandle
    <3> QED BY <1>4, <2>1, <2>t, <3>1 DEF AfterTold, AnswersStand
  <2>2. CASE AllFree /\ \E bw \in Amounts : bw = bandwidth /\ OnlyAnswer(Lost(TRUE, bw))
    <3>1. PICK bw \in Amounts : bw = bandwidth /\ OnlyAnswer(Lost(TRUE, bw))
      BY <2>2
    <3>2. OnlyAnswer(Lost(TRUE, bw))'
      BY <3>1, AnswersAreEvents DEF AnswersStand
    <3> QED BY <1>1, <1>t, <2>2, <2>t, <3>1, <3>2 DEF AfterTold
  <2>3. CASE AllFree /\ \E bw \in Amounts : OnlyAnswer(Lost(FALSE, bw))
    <3>1. PICK bw \in Amounts : OnlyAnswer(Lost(FALSE, bw))
      BY <2>3
    <3>2. OnlyAnswer(Lost(FALSE, bw))'
      BY <3>1, AnswersAreEvents DEF AnswersStand
    <3> QED BY <1>1, <2>3, <2>t, <3>2 DEF AfterTold
  <2> QED BY <2>1, <2>2, <2>3 DEF AfterTold
<1> QED BY <1>t, <1>5, <1>6 DEF Orderly

LEMMA OrderlyInit ==
  ASSUME StateInit, AutoInit  PROVE Orderly
<1>1. NoAnswer
  BY DEF StateInit, NoAnswer, Line, InLine
<1> QED BY <1>1 DEF AutoInit, Orderly, BeforeTold, AllFree

LEMMA OrderlyAfterAllocate ==
  ASSUME AutoTypeOK, StateTypeOK(AutoEvents), Orderly,
         NEW h \in Handles, NEW bw \in Bandwidths, AutoAllocate(h, bw)
  PROVE  Orderly'
<1>a. /\ opened /\ ~is_allocated /\ res[h].st = "free"
      /\ res' = [res EXCEPT ![h] = [st |-> "allocating", bw |-> bw]]
      /\ handle' = h /\ orderly' = (orderly /\ ~Unanswered)
      /\ UNCHANGED <<reading, devq>> /\ UNCHANGED <<is_allocated, bandwidth>>
  BY DEF AutoAllocate, state, dispatcher, kernel
<1> SUFFICES ASSUME orderly, ~Unanswered  PROVE BeforeTold'
  BY <1>a DEF Orderly
<1>1. BeforeTold
  BY <1>a DEF Orderly, AfterTold
<1>2. \A i \in DOMAIN Line : Line[i] \notin ResourceEvents
  BY LineIsOnTheWay DEF Unanswered
<1>3. ASSUME NEW d \in ResourceEvents  PROVE ~OnlyAnswer(d) /\ \A e : ~TwoAnswers(d, e)
  BY <1>2 DEF OnlyAnswer, TwoAnswers
<1>4. OnlyHandle(Kept) => FALSE \/ res[handle].st \in Kept
  BY DEF OnlyHandle
<1>5. AllFree /\ NoAnswer
  <2>1. ~OnlyHandle({"allocating"})
    BY DEF OnlyHandle, Unanswered
  <2>2. \A b \in Amounts, ok \in BOOLEAN : ~OnlyAnswer(Gained(ok, b))
                               /\ \A e : ~TwoAnswers(Gained(ok, b), e)
    BY <1>3, AnswersAreEvents
  <2>3. handle \in Handles => res[handle].bw \in Amounts
    BY DEF AutoTypeOK, Resources, Amounts
  <2>4. ~(OnlyHandle(Kept) /\ OnlyAnswer(Gained(TRUE, res[handle].bw)))
    BY <2>2, <2>3 DEF OnlyHandle
  <2> QED BY <1>1, <2>1, <2>2, <2>4 DEF BeforeTold
<1>6. NoAnswer'
  BY <1>5, <1>a, LineStays, AnswersStay
<1>7. OnlyHandle({"allocating"})'
  <2>1. res \in [Handles -> Resources]
    BY DEF AutoTypeOK
  <2>2. res'[h].st = "allocating" /\ \A x \in Handles \ {h} : res'[x] = Free
    BY <1>5, <1>a, <2>1 DEF AllFree
  <2> QED BY <1>a, <2>2 DEF OnlyHandle
<1> QED BY <1>1, <1>6, <1>7, <1>a DEF BeforeTold

LEMMA OrderlyAfterKernel ==
  ASSUME AutoTypeOK, StateTypeOK(AutoEvents), Orderly,
         NEW h \in Handles, NEW ok \in BOOLEAN,
         KernelAllocates(h, ok) \/ KernelDeallocates(h, ok) \/ KernelReallocates(h, ok)
  PROVE  Orderly'
<1>a. /\ reading' = reading /\ is_allocated' = is_allocated /\ bandwidth' = bandwidth
      /\ handle' = handle /\ orderly' = orderly
  BY DEF KernelAllocates, KernelDeallocates, KernelReallocates, KernelStep, dispatcher, object
<1>q. Queue(AutoEvents)
  BY DEF StateTypeOK, Queue
<1>r. res \in [Handles -> Resources]
  BY DEF AutoTypeOK
<1>b. PICK bw \in Amounts : bw = res[h].bw
  BY <1>r DEF Resources, Amounts
<1>l. [res[h] EXCEPT !.st = "held"].bw = bw /\ [res[h] EXCEPT !.st = "held"].st = "held"
  BY <1>r, <1>b DEF Resources
<1>e. /\ Gained(ok, bw) \in AutoEvents /\ Lost(ok, bw) \in AutoEvents
      /\ Gained(ok, bw) \in ResourceEvents /\ Lost(ok, bw) \in ResourceEvents
  BY AnswersAreEvents DEF AutoEvents
<1> SUFFICES ASSUME orderly  PROVE BeforeTold' \/ AfterTold'
  BY <1>a DEF Orderly
<1>s. ASSUME res[h].st # "free"  PROVE ~AllFree
  BY <1>s DEF AllFree, Free
<1>h. ASSUME NEW S, OnlyHandle(S), res[h].st # "free"  PROVE h = handle /\ res[h].st \in S
  BY <1>h DEF OnlyHandle, Free
<1>f. ASSUME NEW S, OnlyHandle(S), h = handle, res' = [res EXCEPT ![h] = Free]  PROVE AllFree'
  BY <1>f, <1>r DEF OnlyHandle, AllFree
<1>k. ASSUME NEW S, NEW T, OnlyHandle(S), h = handle, "held" \in T,
             res' = [res EXCEPT ![h] = [res[h] EXCEPT !.st = "held"]]
      PROVE  OnlyHandle(T)' /\ res'[handle'].bw = bw
  BY <1>k, <1>a, <1>l, <1>r DEF OnlyHandle
<1>1. CASE KernelAllocates(h, ok)
  <2>1. /\ res[h].st = "allocating" /\ Post(Gained(ok, bw))
        /\ res' = [res EXCEPT ![h] = IF ok THEN [res[h] EXCEPT !.st = "held"] ELSE Free]
    BY <1>1, <1>b DEF KernelAllocates, Gained
  <2>2. ~OnlyHandle(Kept) /\ ~OnlyHandle(Kept \cup {"deallocating"})
    BY <1>h, <2>1 DEF Kept
  <2>3. BeforeTold /\ OnlyHandle({"allocating"}) /\ NoAnswer
    BY <1>s, <2>1, <2>2 DEF Orderly, BeforeTold, AfterTold
  <2>4. h = handle
    BY <1>h, <2>1, <2>3
  <2>5. OnlyAnswer(Gained(ok, bw))'
    BY <1>a, <1>q, <1>e, <2>1, <2>3, AnswerPosted
  <2>6. ~is_allocated' /\ bandwidth' = 0
    BY <1>a, <2>3 DEF BeforeTold
  <2>7. CASE ok
    <3>1. OnlyHandle(Kept)' /\ res'[handle'].bw = bw
      <4>1. res' = [res EXCEPT ![h] = [res[h] EXCEPT !.st = "held"]] /\ "held" \in Kept
        BY <2>1, <2>7 DEF Kept
      <4> QED BY <1>k, <2>3, <2>4, <4>1
    <3>2. OnlyAnswer(Gained(TRUE, res[handle].bw))'
      BY <2>5, <2>7, <3>1
    <3> QED BY <2>6, <3>1, <3>2 DEF BeforeTold
  <2>8. CASE ~ok
    <3>1. AllFree'
      BY <1>f, <2>1, <2>3, <2>4, <2>8
    <3>2. OnlyAnswer(Gained(FALSE, bw))'
      BY <2>5, <2>8
    <3> QED BY <2>6, <3>1, <3>2 DEF BeforeTold
  <2> QED BY <2>7, <2>8
<1>2. CASE KernelDeallocates(h, ok)
  <2>1. /\ res[h].st = "deallocating" /\ Post(Lost(ok, bw)) /\ res' = [res EXCEPT ![h] = Free]
    BY <1>2, <1>b DEF KernelDeallocates, Lost
  <2>2. ~OnlyHandle(Kept) /\ ~OnlyHandle({"allocating"})
    BY <1>h, <2>1 DEF Kept
  <2>3. /\ AfterTold /\ OnlyHandle(Kept \cup {"deallocating"}) /\ NoAnswer
        /\ bandwidth = res[handle].bw
    BY <1>s, <2>1, <2>2 DEF Orderly, BeforeTold, AfterTold
  <2>4. h = handle
    BY <1>h, <2>1, <2>3
  <2>5. OnlyAnswer(Lost(ok, bw))'
    BY <1>a, <1>q, <1>e, <2>1, <2>3, AnswerPosted
  <2>6. is_allocated' /\ bandwidth' = bw
    BY <1>a, <1>b, <2>3, <2>4 DEF AfterTold
  <2>7. AllFree'
    BY <1>f, <2>1, <2>3, <2>4
  <2>8. CASE ok
    <3>1. OnlyAnswer(Lost(TRUE, bw))'
      BY <2>5, <2>8
    <3> QED BY <2>6, <2>7, <3>1 DEF AfterTold
  <2>9. CASE ~ok
    <3>1. OnlyAnswer(Lost(FALSE, bw))'
      BY <2>5, <2>9
    <3> QED BY <2>6, <2>7, <3>1 DEF AfterTold
  <2> QED BY <2>8, <2>9
<1>3. CASE KernelReallocates(h, ok)
  <2>1. /\ res[h].st = "reallocating"
        /\ res' = [res EXCEPT ![h] = IF ok THEN [res[h] EXCEPT !.st = "held"] ELSE Free]
        /\ IF ok THEN devq' = devq ELSE Post(Lost(ok, bw))
    BY <1>3, <1>b DEF KernelReallocates, Lost
  <2>2. CASE ok
    <3>1. KeptStay
      BY <1>r, <2>1, <2>2 DEF KeptStay, Kept
    <3>2. AnswersStand
      BY <1>a, <2>1, <2>2, LineStays, AnswersStay DEF AnswersStand
    <3>3. Orderly'
      BY <1>a, <3>1, <3>2, OrderlyUnseen DEF object
    <3> QED BY <1>a, <3>3 DEF Orderly
  <2>3. CASE ~ok
    <3>1. ~OnlyHandle({"allocating"})
      BY <1>h, <2>1
    <3>2. res' = [res EXCEPT ![h] = Free] /\ Post(Lost(FALSE, bw)) /\ Lost(FALSE, bw) \in AutoEvents
      BY <1>e, <2>1, <2>3
    <3>3. CASE BeforeTold
      <4>1. OnlyHandle(Kept) /\ OnlyAnswer(Gained(TRUE, res[handle].bw))
        BY <1>s, <2>1, <3>1, <3>3 DEF BeforeTold
      <4>2. h = handle
        BY <1>h, <2>1, <4>1
      <4>3. OnlyAnswer(Gained(TRUE, bw))
        BY <1>b, <4>1, <4>2
      <4>4. TwoAnswers(Gained(TRUE, bw), Lost(FALSE, bw))'
        BY <1>a, <1>q, <3>2, <4>3, AnswerPosted
      <4>5. AllFree'
        BY <1>f, <3>2, <4>1, <4>2
      <4> QED BY <1>a, <3>3, <4>4, <4>5 DEF BeforeTold
    <3>4. CASE AfterTold
      <4>1. OnlyHandle(Kept \cup {"deallocating"}) /\ NoAnswer
        BY <1>s, <2>1, <3>4 DEF AfterTold
      <4>2. h = handle
        BY <1>h, <2>1, <4>1
      <4>3. OnlyAnswer(Lost(FALSE, bw))'
        BY <1>a, <1>q, <3>2, <4>1, AnswerPosted
      <4>4. AllFree'
        BY <1>f, <3>2, <4>1, <4>2
      <4> QED BY <1>a, <3>4, <4>3, <4>4 DEF AfterTold
    <3> QED BY <3>3, <3>4 DEF Orderly
  <2> QED BY <2>2, <2>3
<1> QED BY <1>1, <1>2, <1>3

LEMMA OrderlyAfterDeallocate ==
  ASSUME AutoTypeOK, Orderly, AutoDeallocate  PROVE Orderly'
<1>a. /\ is_allocated /\ handle \in Handles /\ res[handle].st \notin {"free", "deallocating"}
      /\ res' = [res EXCEPT ![handle].st = "deallocating"]
      /\ Line' = Line
      /\ handle' = handle /\ bandwidth' = bandwidth /\ is_allocated' = is_allocated
      /\ orderly' = orderly
  BY LineStays DEF AutoDeallocate, state, dispatcher, kernel, object
<1> SUFFICES ASSUME orderly  PROVE AfterTold'
  BY <1>a DEF Orderly
<1>1. ~AllFree
  BY <1>a DEF AllFree, Free
<1>2. /\ OnlyHandle(Kept \cup {"deallocating"}) /\ NoAnswer
      /\ bandwidth = res[handle].bw
  BY <1>1, <1>a DEF Orderly, BeforeTold, AfterTold
<1>3. res \in [Handles -> Resources]
  BY DEF AutoTypeOK
<1>4. res'[handle].st = "deallocating" /\ res'[handle].bw = res[handle].bw
  BY <1>3, <1>a DEF Resources
<1>5. \A h \in Handles \ {handle} : res'[h] = Free
  BY <1>2, <1>3, <1>a DEF OnlyHandle
<1>6. OnlyHandle(Kept \cup {"deallocating"})'
  BY <1>4, <1>5, <1>a DEF OnlyHandle
<1>7. NoAnswer' /\ bandwidth' = res'[handle'].bw
  BY <1>2, <1>4, <1>a, AnswersStay
<1> QED BY <1>6, <1>7, <1>a DEF AfterTold

LEMMA OrderlyAfterAnswer ==
  ASSUME AutoTypeOK, StateTypeOK(AutoEvents), Orderly, HandleIsoResource  PROVE Orderly'
<1>1. PICK e \in ResourceEvents :
        /\ reading = <<e>> /\ reading' = <<>> /\ devq' = devq
        /\ CASE e.ok /\ e.type = "ALLOCATED" ->
                  is_allocated' = TRUE /\ bandwidth' = e.bw
             [] e.ok /\ e.type = "DEALLOCATED" ->
                  is_allocated' = FALSE /\ bandwidth' = Minus(bandwidth, e.bw)
             [] ~e.ok -> UNCHANGED <<is_allocated, bandwidth>>
        /\ orderly' = (orderly /\ (e.ok \/ e.type = "ALLOCATED"))
        /\ handle' = handle /\ res' = res
  BY DEF HandleIsoResource, kernel
<1>q. Queue(AutoEvents)
  BY DEF StateTypeOK, Queue
<1>2. /\ ~NoAnswer
      /\ \A d \in ResourceEvents : OnlyAnswer(d) => d = e /\ NoAnswer'
      /\ \A d, x \in ResourceEvents : TwoAnswers(d, x) => d = e /\ OnlyAnswer(x)'
  BY <1>1, <1>q, AnswerHandled
<1>3. AllFree' <=> AllFree
  BY <1>1 DEF AllFree
<1>4. ASSUME NEW S  PROVE OnlyHandle(S)' <=> OnlyHandle(S)
  BY <1>1 DEF OnlyHandle
<1> SUFFICES ASSUME orderly, orderly'  PROVE BeforeTold' \/ AfterTold'
  BY <1>1 DEF Orderly
<1>5. ASSUME AllFree, NEW bw \in Amounts, OnlyAnswer(Gained(FALSE, bw)), BeforeTold
      PROVE  BeforeTold'
  <2>1. e = Gained(FALSE, bw) /\ NoAnswer'
    BY <1>2, <1>5, AnswersAreEvents
  <2>2. ~e.ok
    BY <2>1 DEF Gained
  <2>3. is_allocated' = is_allocated /\ bandwidth' = bandwidth
    BY <1>1, <2>2
  <2> QED BY <1>3, <1>5, <2>1, <2>3 DEF BeforeTold
<1>6. ASSUME OnlyHandle(Kept), OnlyAnswer(Gained(TRUE, res[handle].bw))
      PROVE  AfterTold'
  <2>0. PICK bw \in Amounts : bw = res[handle].bw
    BY <1>6 DEF OnlyHandle, AutoTypeOK, Resources, Amounts
  <2>1. e = Gained(TRUE, bw) /\ NoAnswer'
    BY <1>2, <1>6, <2>0, AnswersAreEvents
  <2>2. e.ok /\ e.type = "ALLOCATED" /\ e.bw = bw
    BY <2>1 DEF Gained
  <2>3. is_allocated' /\ bandwidth' = res'[handle'].bw
    BY <1>1, <2>0, <2>2
  <2>4. OnlyHandle(Kept \cup {"deallocating"})
    BY <1>6 DEF OnlyHandle
  <2> QED BY <1>4, <2>1, <2>3, <2>4 DEF AfterTold
<1>7. ASSUME AllFree, NEW bw \in Amounts, TwoAnswers(Gained(TRUE, bw), Lost(FALSE, bw))
      PROVE  AfterTold'
  <2>1. e = Gained(TRUE, bw) /\ OnlyAnswer(Lost(FALSE, bw))'
    BY <1>2, <1>7, AnswersAreEvents
  <2>2. e.ok /\ e.type = "ALLOCATED"
    BY <2>1 DEF Gained
  <2>3. is_allocated'
    BY <1>1, <2>2
  <2> QED BY <1>3, <1>7, <2>1, <2>3 DEF AfterTold
<1>8. ASSUME AllFree, NEW bw \in Amounts, bw = bandwidth, OnlyAnswer(Lost(TRUE, bw))
      PROVE  BeforeTold'
  <2>1. e = Lost(TRUE, bw) /\ NoAnswer'
    BY <1>2, <1>8, AnswersAreEvents
  <2>2. e.ok /\ e.type = "DEALLOCATED" /\ e.bw = bw
    BY <2>1 DEF Lost
  <2>3. ~is_allocated' /\ bandwidth' = Minus(bw, bw)
    BY <1>1, <1>8, <2>2
  <2>4. Minus(bw, bw) = 0
    <3>1. bw \in Nat /\ UintSize \in Nat \ {0}
      BY FwIsoResourceAutoAssumption DEF Amounts
    <3>2. bw - bw = 0 /\ 0 % UintSize = 0
      BY <3>1
    <3> QED BY <3>2 DEF Minus
  <2> QED BY <1>3, <1>8, <2>1, <2>3, <2>4 DEF BeforeTold
<1>9. ASSUME NEW bw \in Amounts, OnlyAnswer(Lost(FALSE, bw))  PROVE FALSE
  <2>1. e = Lost(FALSE, bw)
    BY <1>2, <1>9, AnswersAreEvents
  <2>2. ~e.ok /\ e.type = "DEALLOCATED"
    BY <2>1 DEF Lost
  <2> QED BY <1>1, <2>2
<1>10. CASE BeforeTold
  BY <1>2, <1>5, <1>6, <1>7, <1>10 DEF BeforeTold
<1>11. CASE AfterTold
  BY <1>2, <1>8, <1>9, <1>11 DEF AfterTold
<1> QED BY <1>10, <1>11 DEF Orderly

LEMMA OrderlyKept ==
  ASSUME AutoInv, [AutoNext]_<<state, autoVars>>  PROVE Orderly'
<1> USE DEF AutoInv
<1>q. Queue(AutoEvents)
  BY DEF StateTypeOK, Queue
<1>k. ASSUME UNCHANGED autoVars, AnswersStand  PROVE Orderly'
  <2>1. KeptStay /\ UNCHANGED <<object, orderly>>
    BY <1>k DEF KeptStay, autoVars
  <2> QED BY <1>k, <2>1, OrderlyUnseen
<1>s. ASSUME UNCHANGED autoVars, Line' = Line  PROVE Orderly'
  BY <1>k, <1>s, AnswersStay DEF AnswersStand
<1>h. ASSUME UNCHANGED autoVars, NEW e \in BusResets,
             reading = <<e>>, reading' = <<>>, devq' = devq
      PROVE  Orderly'
  <2>1. AnswersStand
    BY <1>q, <1>h, OtherHandled, EventsDiffer DEF AnswersStand
  <2> QED BY <1>h, <1>k, <2>1
<1>1. CASE (Open \/ StateStep) /\ UNCHANGED autoVars
  <2>1. CASE Open
    BY <1>1, <1>s, <2>1, LineStays DEF Open, dispatcher, kernel
  <2>2. CASE CreateSourceBegins \/ CreateSourceCaches \/ CreateSourceFails
               \/ CreateSourceReturns \/ RemoveSource
    BY <1>1, <1>s, <2>2, LineStays DEF CreateSourceBegins, CreateSourceCaches,
       CreateSourceFails, CreateSourceReturns, RemoveSource, dispatcher, kernel
  <2>3. CASE Dispatch
    BY <1>1, <1>q, <1>s, <2>3, LineDispatched
  <2>4. CASE HandleBusResetCompares
    BY <1>1, <1>s, <2>4, LineStays DEF HandleBusResetCompares, kernel
  <2>5. CASE HandleBusResetCopies
    BY <1>1, <1>s, <1>h, <2>5, LineStays DEF HandleBusResetCopies, kernel
  <2>6. CASE HandleBusResetNotifies
    <3>1. PICK e \in BusResets : reading = <<e>>
      BY <2>6 DEF HandleBusResetNotifies, StateInv, Attached
    <3> QED BY <1>1, <1>h, <2>6, <3>1 DEF HandleBusResetNotifies, kernel
  <2> QED BY <1>1, <2>1, <2>2, <2>3, <2>4, <2>5, <2>6 DEF StateStep
<1>2. CASE UNCHANGED <<state, autoVars>>
  BY <1>2, <1>s, LineStays DEF state, dispatcher, kernel
<1>3. CASE AutoFinalize
  <2>1. reading' = <<>> /\ devq' = <<>>
    BY <1>3 DEF AutoFinalize, Close, dispatcher, StateInv, Attached
  <2> QED BY <1>3, <2>1, NoAnswerInEmptyLine DEF AutoFinalize, Orderly, BeforeTold, AllFree
<1>4. CASE AutoDeallocate
  BY <1>4, OrderlyAfterDeallocate
<1>5. ASSUME NEW h \in Handles, NEW bw \in Bandwidths, AutoAllocate(h, bw)  PROVE Orderly'
  BY <1>5, OrderlyAfterAllocate
<1>6. CASE HandleIsoResource
  BY <1>6, OrderlyAfterAnswer
<1>7. ASSUME NEW h \in Handles, NEW ok \in BOOLEAN,
             KernelAllocates(h, ok) \/ KernelDeallocates(h, ok) \/ KernelReallocates(h, ok)
      PROVE  Orderly'
  BY <1>7, OrderlyAfterKernel
<1>8. CASE AutoBusReset
  <2>1. KeptStay /\ UNCHANGED <<object, orderly>> /\ reading' = reading
    BY <1>8 DEF AutoBusReset, BusReset, dispatcher, Holding, KeptStay, Kept
  <2>2. CASE opened
    <3>1. busGen' \in 0..MaxGen
      BY <1>8, FwIsoResourceStateAssumption DEF AutoBusReset, BusReset, StateTypeOK
    <3> DEFINE e == [type |-> "BUS_RESET", generation |-> busGen']
    <3>2. e \in BusResets /\ Post(e)
      BY <1>8, <2>2, <3>1 DEF AutoBusReset, BusReset, BusResets
    <3>3. AnswersStand
      BY <1>q, <2>1, <3>2, OtherPosted, EventsDiffer DEF AnswersStand, AutoEvents
    <3> QED BY <2>1, <3>3, OrderlyUnseen
  <2>3. CASE ~opened
    <3>1. AnswersStand
      BY <1>8, <2>1, <2>3, LineStays, AnswersStay DEF AutoBusReset, BusReset, AnswersStand
    <3> QED BY <2>1, <3>1, OrderlyUnseen
  <2> QED BY <2>2, <2>3
<1> QED BY <1>1, <1>2, <1>3, <1>4, <1>5, <1>6, <1>7, <1>8 DEF AutoNext

-----------------------------------------------------------------------------
LEMMA AutoInvInit ==
  ASSUME StateInit, AutoInit  PROVE AutoInv
<1>1. AutoTypeOK /\ AllFree
  <2>1. Free \in Resources /\ 0 \in 0..(UintSize - 1)
    BY FwIsoResourceAutoAssumption DEF Free, Resources
  <2> QED BY <2>1 DEF AutoInit, AutoTypeOK, AllFree
<1> QED BY <1>1, StateInvInit, OrderlyInit DEF AutoInv

LEMMA AutoInvKept ==
  ASSUME AutoInv, [AutoNext]_<<state, autoVars>>  PROVE AutoInv'
<1>1. AutoTypeOK'
  BY AutoTypesKept DEF AutoInv
<1>2. StateTypeOK(AutoEvents)' /\ StateInv'
  <2>1. [StateNext(AutoEvents)]_state /\ BusResets \subseteq AutoEvents
    BY AutoStepsState DEF AutoInv, AutoEvents
  <2> QED BY <2>1, StateInvKept DEF AutoInv
<1>3. (~opened => AllFree)'
  BY ClosedKept DEF AutoInv
<1>4. Orderly'
  BY OrderlyKept
<1> QED BY <1>1, <1>2, <1>3, <1>4 DEF AutoInv

LEMMA TruthFollows ==
  ASSUME AutoInv  PROVE SettledTruth
<1>1. SUFFICES ASSUME orderly, ~Unanswered
               PROVE  /\ {h \in Handles : Holding(h)} = IF is_allocated THEN {handle} ELSE {}
                      /\ bandwidth = IF is_allocated THEN res[handle].bw ELSE 0
  BY DEF SettledTruth
<1>2. \A i \in DOMAIN Line : Line[i] \notin ResourceEvents
  BY <1>1, LineIsOnTheWay DEF AutoInv, Unanswered
<1>3. \A d \in ResourceEvents : ~OnlyAnswer(d) /\ \A e : ~TwoAnswers(d, e)
  BY <1>2 DEF OnlyAnswer, TwoAnswers
<1>4. \A b \in Amounts, ok \in BOOLEAN :
         /\ ~OnlyAnswer(Gained(ok, b)) /\ ~OnlyAnswer(Lost(ok, b))
         /\ \A e : ~TwoAnswers(Gained(ok, b), e)
  BY <1>3, AnswersAreEvents
<1>5. CASE BeforeTold
  <2>1. ~OnlyHandle({"allocating"})
    BY <1>1 DEF OnlyHandle, Unanswered
  <2>2. ~(OnlyHandle(Kept) /\ OnlyAnswer(Gained(TRUE, res[handle].bw)))
    <3>1. handle \in Handles => res[handle].bw \in Amounts
      BY DEF AutoInv, AutoTypeOK, Resources, Amounts
    <3> QED BY <1>4, <3>1 DEF OnlyHandle
  <2>3. AllFree /\ ~is_allocated /\ bandwidth = 0
    BY <1>4, <1>5, <2>1, <2>2 DEF BeforeTold
  <2> QED BY <2>3 DEF AllFree, Free, Holding
<1>6. CASE AfterTold
  <2>1. /\ is_allocated /\ bandwidth = res[handle].bw
        /\ OnlyHandle(Kept \cup {"deallocating"})
    BY <1>4, <1>6 DEF AfterTold
  <2>2. Holding(handle) /\ handle \in Handles
    BY <1>1, <2>1 DEF OnlyHandle, Holding, Kept, Unanswered
  <2>3. \A h \in Handles : Holding(h) => h = handle
    BY <2>1 DEF OnlyHandle, Holding, Free
  <2> QED BY <2>1, <2>2, <2>3
<1> QED BY <1>1, <1>5, <1>6 DEF AutoInv, Orderly

-----------------------------------------------------------------------------
(***************************************************************************)
(* The once class.                                                         *)
(***************************************************************************)
OnceLine == BusResets \cup OnceEvents

(* The k-th in the line is an answer which counts for ch: it carries no    *)
(* error, and no bus reset follows it.                                     *)
LastReset(k) == \A j \in DOMAIN Line : j > k => Line[j] \notin BusResets
Counts(k, ch) ==
  k \in DOMAIN Line /\ Line[k] \in OnceEvents /\ Line[k].ok /\ Line[k].ch = ch /\ LastReset(k)
Done(ch) == \E r \in work : r.ch = ch /\ r.st = "done"
AnyReset == \E i \in DOMAIN Line : Line[i] \in BusResets

(* What the resource manager has follows from the request that was carried *)
(* out last; its answer is due, in the line, or entered in the account.    *)
OnePerChannel == \A r, s \in work : r.ch = s.ch => r = s
ByRequest ==
  \A r \in work : r.st = "done" => (r.ch \in irm <=> r.type = "ALLOCATED")
ByAnswer ==
  \A ch \in Channels, k \in DOMAIN Line :
    Counts(k, ch) /\ ~Done(ch) /\ (\A j \in DOMAIN Line : j > k => ~Counts(j, ch)) =>
      (ch \in irm <=> Line[k].type = "ALLOCATED")
ByTally ==
  \A ch \in Channels :
    ~Done(ch) /\ (\A k \in DOMAIN Line : ~Counts(k, ch)) =>
      IF AnyReset THEN ch \notin irm ELSE ch \in irm <=> ch \in tally

(* A generation cached ahead of the bus resets in the line: the account is *)
(* empty already, or will be when create_source returns.                   *)
Ahead ==
  AnyReset /\ generation = busGen /\ handling # "copied" =>
    /\ \A k \in DOMAIN Line : Line[k] \in OnceEvents => LastReset(k)
    /\ tally = {} \/ (creating = "cached" /\ before # generation)
Behind == creating = "cached" /\ before # generation => AnyReset

Account == ByAnswer /\ ByTally /\ Ahead /\ Behind
Steady ==
  steady =>
    /\ OnePerChannel /\ ByRequest /\ \A r \in work : r.st # "left"
    /\ opened /\ ~crossed => Account
    /\ ~opened => work = {} /\ (IF seen = busGen THEN tally = irm ELSE irm = {})

OnceInv ==
  /\ StateTypeOK(OnceLine) /\ OnceTypeOK
  /\ StateInv
  /\ \A r \in work : r.st # "left" => opened
  /\ Steady

-----------------------------------------------------------------------------
(***************************************************************************)
(* How what counts in the line moves.                                      *)
(***************************************************************************)
LEMMA OnceEventsDiffer == BusResets \cap OnceEvents = {}
BY DEF BusResets, OnceEvents

LEMMA CountsStay ==
  ASSUME Line' = Line
  PROVE  /\ \A k, ch : Counts(k, ch)' <=> Counts(k, ch)
         /\ \A k : LastReset(k)' <=> LastReset(k)
         /\ AnyReset' <=> AnyReset
BY DEF Counts, LastReset, AnyReset

LEMMA CountsAfterAnswer ==
  ASSUME NEW E, Queue(E), NEW x \in E \ BusResets, Post(x), reading' = reading
  PROVE  /\ \A ch : \A k \in DOMAIN Line : Counts(k, ch)' <=> Counts(k, ch)
         /\ \A k \in DOMAIN Line :
              k \in DOMAIN Line' /\ Line'[k] = Line[k] /\ (LastReset(k)' <=> LastReset(k))
         /\ AnyReset' <=> AnyReset
         /\ \E last \in Nat :
              /\ DOMAIN Line' = DOMAIN Line \cup {last} /\ last \notin DOMAIN Line
              /\ \A k \in DOMAIN Line : k < last
              /\ Line'[last] = x /\ LastReset(last)'
<1>1. InLine \in Nat /\ DOMAIN Line = 1..InLine
  BY LineShape
<1>2. /\ DOMAIN Line' = 1..(InLine + 1) /\ Line'[InLine + 1] = x
      /\ \A i \in 1..InLine : Line'[i] = Line[i]
  BY LinePosted
<1>3. PICK last \in Nat : last = InLine + 1
  BY <1>1
<1>4. /\ DOMAIN Line' = DOMAIN Line \cup {last} /\ last \notin DOMAIN Line
      /\ \A k \in DOMAIN Line : k \in Nat /\ k < last /\ Line'[k] = Line[k]
      /\ Line'[last] = x
  BY <1>1, <1>2, <1>3
<1>5. LastReset(last)'
  BY <1>4 DEF LastReset
<1>6. ASSUME NEW k \in DOMAIN Line  PROVE LastReset(k)' <=> LastReset(k)
  BY <1>4 DEF LastReset
<1>7. ASSUME NEW k \in DOMAIN Line, NEW ch  PROVE Counts(k, ch)' <=> Counts(k, ch)
  BY <1>4, <1>6 DEF Counts
<1>8. AnyReset' <=> AnyReset
  BY <1>4 DEF AnyReset
<1> QED BY <1>4, <1>5, <1>6, <1>7, <1>8

LEMMA CountsAfterReset ==
  ASSUME NEW E, Queue(E), NEW x \in E \cap BusResets, Post(x), reading' = reading
  PROVE  AnyReset' /\ \A k, ch : ~Counts(k, ch)'
<1>1. InLine \in Nat /\ DOMAIN Line = 1..InLine
  BY LineShape
<1>2. /\ DOMAIN Line' = 1..(InLine + 1) /\ Line'[InLine + 1] = x
      /\ \A i \in 1..InLine : Line'[i] = Line[i]
  BY LinePosted
<1>3. InLine + 1 \in DOMAIN Line'
  BY <1>1, <1>2
<1>4. ASSUME NEW k, NEW ch  PROVE ~Counts(k, ch)'
  <2>1. SUFFICES ASSUME k \in DOMAIN Line', Line'[k] \in OnceEvents, LastReset(k)'  PROVE FALSE
    BY DEF Counts
  <2>2. k # InLine + 1
    BY <1>2, <2>1, OnceEventsDiffer
  <2>3. k < InLine + 1
    BY <1>1, <1>2, <2>1, <2>2
  <2> QED BY <1>2, <1>3, <2>1, <2>3 DEF LastReset
<1> QED BY <1>2, <1>3, <1>4 DEF AnyReset

LEMMA CountsAfterHandled ==
  ASSUME NEW E, Queue(E), NEW x, reading = <<x>>, reading' = <<>>, devq' = devq
  PROVE  /\ 1 \in DOMAIN Line /\ Line[1] = x
         /\ \A k \in DOMAIN Line' :
              /\ k \in Nat /\ k >= 1 /\ k + 1 \in DOMAIN Line /\ Line'[k] = Line[k + 1]
              /\ LastReset(k)' <=> LastReset(k + 1)
              /\ \A ch : Counts(k, ch)' <=> Counts(k + 1, ch)
         /\ \A k \in DOMAIN Line : k = 1 \/ k - 1 \in DOMAIN Line'
         /\ \A k \in DOMAIN Line : k \in Nat /\ k >= 1
         /\ AnyReset' <=> \E k \in DOMAIN Line : k # 1 /\ Line[k] \in BusResets
<1>1. /\ InLine \in Nat \ {0} /\ DOMAIN Line = 1..InLine /\ DOMAIN Line' = 1..(InLine - 1)
      /\ Line[1] = x /\ \A i \in 1..(InLine - 1) : Line'[i] = Line[i + 1]
  BY LineHandled
<1>2. \A k \in DOMAIN Line' :
        k \in Nat /\ k >= 1 /\ k + 1 \in DOMAIN Line /\ Line'[k] = Line[k + 1]
  BY <1>1
<1>3. \A k \in DOMAIN Line : k \in Nat /\ k >= 1 /\ (k = 1 \/ k - 1 \in DOMAIN Line')
  BY <1>1
<1>4. ASSUME NEW k \in DOMAIN Line'  PROVE LastReset(k)' <=> LastReset(k + 1)
  <2>1. ASSUME LastReset(k)', NEW j \in DOMAIN Line, j > k + 1  PROVE Line[j] \notin BusResets
    <3>1. j - 1 \in DOMAIN Line' /\ j - 1 > k
      BY <1>2, <1>3, <2>1
    <3>2. Line'[j - 1] \notin BusResets
      BY <2>1, <3>1 DEF LastReset
    <3>3. Line'[j - 1] = Line[j]
      BY <1>2, <1>3, <3>1
    <3> QED BY <3>2, <3>3
  <2>2. ASSUME LastReset(k + 1), NEW j \in DOMAIN Line', j > k  PROVE Line'[j] \notin BusResets
    <3>1. j + 1 \in DOMAIN Line /\ j + 1 > k + 1 /\ Line'[j] = Line[j + 1]
      BY <1>2, <2>2
    <3> QED BY <2>2, <3>1 DEF LastReset
  <2> QED BY <2>1, <2>2 DEF LastReset
<1>5. ASSUME NEW k \in DOMAIN Line', NEW ch  PROVE Counts(k, ch)' <=> Counts(k + 1, ch)
  BY <1>2, <1>4 DEF Counts
<1>6. AnyReset' <=> \E k \in DOMAIN Line : k # 1 /\ Line[k] \in BusResets
  <2>1. ASSUME NEW i \in DOMAIN Line', Line'[i] \in BusResets
        PROVE  \E k \in DOMAIN Line : k # 1 /\ Line[k] \in BusResets
    <3>1. i + 1 \in DOMAIN Line /\ i + 1 # 1 /\ Line[i + 1] \in BusResets
      BY <1>2, <2>1
    <3> QED BY <3>1
  <2>2. ASSUME NEW k \in DOMAIN Line, k # 1, Line[k] \in BusResets  PROVE AnyReset'
    <3>1. k - 1 \in DOMAIN Line' /\ (k - 1) + 1 = k
      BY <1>3, <2>2
    <3>2. Line'[k - 1] = Line[k]
      BY <1>2, <3>1
    <3> QED BY <2>2, <3>1, <3>2 DEF AnyReset
  <2> QED BY <2>1, <2>2 DEF AnyReset
<1> QED BY <1>1, <1>2, <1>3, <1>4, <1>5, <1>6

-----------------------------------------------------------------------------
(***************************************************************************)
(* The types, and the step of the structure.                               *)
(***************************************************************************)
LEMMA OnceTypesKept ==
  ASSUME OnceTypeOK, [OnceNext]_<<state, onceVars>>  PROVE OnceTypeOK'
<1> USE DEF OnceTypeOK
<1>t. tally' = tally \/ tally' = {} => tally' \subseteq Channels
  OBVIOUS
<1>1. CASE UNCHANGED onceVars
  BY <1>1 DEF onceVars
<1>2. CASE OnceOpen
  BY <1>2 DEF OnceOpen, ProgramTold
<1>3. CASE OnceCreateSource
  BY <1>3 DEF OnceCreateSource, OnceCreateSourceCaches, ProgramTold, onceVars
<1>4. CASE OnceFinalize
  <2>1. work' \subseteq Requests
    BY <1>4 DEF OnceFinalize, Requests
  <2> QED BY <1>4, <2>1 DEF OnceFinalize
<1>5. ASSUME NEW ch \in Channels, OnceAllocate(ch) \/ OnceDeallocate(ch)  PROVE OnceTypeOK'
  <2>1. PICK type \in {"ALLOCATED", "DEALLOCATED"} : OnceRequest(type, ch)
    BY <1>5 DEF OnceAllocate, OnceDeallocate
  <2>2. [type |-> type, ch |-> ch, st |-> "due"] \in Requests
    BY DEF Requests
  <2>3. work' \subseteq Requests
    BY <2>1, <2>2 DEF OnceRequest
  <2>4. steady' \in BOOLEAN
    BY <2>1 DEF OnceRequest
  <2> QED BY <2>1, <2>3, <2>4 DEF OnceRequest
<1>6. CASE OnceHandleIsoResource
  <2>1. PICK e \in OnceEvents :
          tally' = CASE e.ok /\ e.type = "ALLOCATED"   -> tally \cup {e.ch}
                     [] e.ok /\ e.type = "DEALLOCATED" -> tally \ {e.ch}
                     [] ~e.ok                          -> tally
    BY <1>6 DEF OnceHandleIsoResource
  <2>2. e.ok \in BOOLEAN /\ e.ch \in Channels /\ e.type \in {"ALLOCATED", "DEALLOCATED"}
    BY DEF OnceEvents
  <2>3. tally' \subseteq Channels
    BY <2>1, <2>2
  <2> QED BY <1>6, <2>3 DEF OnceHandleIsoResource
<1>7. CASE OnceHandleBusReset
  BY <1>7 DEF OnceHandleBusReset, ProgramTold
<1>8. ASSUME NEW r \in work, KernelAnswers(r)  PROVE OnceTypeOK'
  BY <1>8 DEF KernelAnswers
<1>9. ASSUME NEW r \in work, NEW ok \in BOOLEAN, KernelManages(r, ok)  PROVE OnceTypeOK'
  <2>1. r \in Requests
    OBVIOUS
  <2>2. /\ [r EXCEPT !.st = IF ok THEN "done" ELSE "failed"] \in Requests
        /\ r.ch \in Channels /\ r.type \in {"ALLOCATED", "DEALLOCATED"}
    BY <2>1 DEF Requests
  <2>3. work' \subseteq Requests
    BY <1>9, <2>2 DEF KernelManages
  <2>4. irm' \subseteq Channels
    BY <1>9, <2>2 DEF KernelManages
  <2> QED BY <1>9, <2>3, <2>4 DEF KernelManages
<1>10. CASE OnceBusReset
  BY <1>10 DEF OnceBusReset
<1> QED BY <1>1, <1>2, <1>3, <1>4, <1>5, <1>6, <1>7, <1>8, <1>9, <1>10 DEF OnceNext

LEMMA OnceStepsState ==
  ASSUME OnceTypeOK, \A r \in work : r.st # "left" => opened, [OnceNext]_<<state, onceVars>>
  PROVE  [StateNext(OnceLine)]_state
<1>1. CASE OnceOpen
  BY <1>1 DEF OnceOpen, StateNext
<1>2. CASE OnceCreateSource
  BY <1>2 DEF OnceCreateSource, OnceCreateSourceCaches, StateNext, StateStep
<1>3. CASE OnceFinalize
  BY <1>3 DEF OnceFinalize, StateNext
<1>4. CASE RemoveSource \/ Dispatch
  BY <1>4 DEF StateNext, StateStep
<1>5. ASSUME NEW ch \in Channels, OnceAllocate(ch) \/ OnceDeallocate(ch)  PROVE UNCHANGED state
  BY <1>5 DEF OnceAllocate, OnceDeallocate, OnceRequest
<1>6. CASE OnceHandleIsoResource
  <2>1. HandlesOther(OnceLine)
    BY <1>6, OnceEventsDiffer DEF OnceHandleIsoResource, HandlesOther, OnceLine
  <2> QED BY <2>1 DEF StateNext
<1>7. CASE OnceHandleBusReset
  BY <1>7 DEF OnceHandleBusReset, StateNext, StateStep
<1>8. ASSUME NEW r \in work, KernelAnswers(r)  PROVE StateNext(OnceLine)
  <2>1. r \in Requests
    BY DEF OnceTypeOK
  <2> DEFINE e == [type |-> r.type, ch |-> r.ch, ok |-> r.st = "done"]
  <2>2. opened
    BY <1>8 DEF KernelAnswers
  <2>3. (r.st = "done") \in BOOLEAN /\ r.ch \in Channels /\ r.type \in {"ALLOCATED", "DEALLOCATED"}
    BY <2>1 DEF Requests
  <2>4. e \in OnceEvents
    BY <2>3 DEF OnceEvents
  <2>5. e \in OnceLine \ BusResets
    BY <2>4, OnceEventsDiffer DEF OnceLine
  <2>6. PostsOther(OnceLine)
    BY <1>8, <2>2, <2>5 DEF KernelAnswers, PostsOther
  <2> QED BY <2>6 DEF StateNext
<1>9. ASSUME NEW r \in work, NEW ok \in BOOLEAN, KernelManages(r, ok)  PROVE UNCHANGED state
  BY <1>9 DEF KernelManages
<1>10. CASE OnceBusReset
  BY <1>10 DEF OnceBusReset, StateNext
<1> QED BY <1>1, <1>2, <1>3, <1>4, <1>5, <1>6, <1>7, <1>8, <1>9, <1>10 DEF OnceNext

LEMMA LeftWhenClosed ==
  ASSUME \A r \in work : r.st # "left" => opened, [OnceNext]_<<state, onceVars>>
  PROVE  (\A r \in work : r.st # "left" => opened)'
<1> SUFFICES ASSUME NEW s \in work', s.st # "left"  PROVE opened'
  OBVIOUS
<1>1. CASE OnceOpen
  BY <1>1 DEF OnceOpen, Open
<1>2. CASE OnceCreateSource
  <2>1. work' = work
    BY <1>2 DEF OnceCreateSource, OnceCreateSourceCaches, onceVars
  <2>2. CreateSourceBegins \/ CreateSourceCaches \/ CreateSourceFails \/ CreateSourceReturns
    BY <1>2 DEF OnceCreateSource, OnceCreateSourceCaches
  <2> QED BY <2>1, <2>2, StaysOpen DEF StateStep
<1>3. CASE OnceFinalize
  <2>1. PICK r \in work : r.st \in {"due", "left"} /\ s = [r EXCEPT !.st = "left"]
    BY <1>3 DEF OnceFinalize
  <2> QED BY <1>3, <2>1 DEF OnceFinalize
<1>4. CASE (RemoveSource \/ Dispatch) /\ UNCHANGED onceVars
  BY <1>4, StaysOpen DEF StateStep, onceVars
<1>5. ASSUME NEW ch \in Channels, OnceAllocate(ch) \/ OnceDeallocate(ch)  PROVE opened'
  BY <1>5 DEF OnceAllocate, OnceDeallocate, OnceRequest, state
<1>6. CASE OnceHandleIsoResource
  BY <1>6 DEF OnceHandleIsoResource
<1>7. CASE OnceHandleBusReset
  BY <1>7, StaysOpen DEF OnceHandleBusReset, StateStep
<1>8. ASSUME NEW r \in work, KernelAnswers(r)  PROVE opened'
  BY <1>8 DEF KernelAnswers
<1>9. ASSUME NEW r \in work, NEW ok \in BOOLEAN, KernelManages(r, ok)  PROVE opened'
  <2>1. opened' = opened
    BY <1>9 DEF KernelManages, state
  <2>2. s \in work \/ r.st # "left"
    BY <1>9 DEF KernelManages
  <2> QED BY <2>1, <2>2
<1>10. CASE OnceBusReset
  BY <1>10 DEF OnceBusReset, BusReset
<1>11. CASE UNCHANGED <<state, onceVars>>
  BY <1>11 DEF state, onceVars
<1> QED BY <1>1, <1>2, <1>3, <1>4, <1>5, <1>6, <1>7, <1>8, <1>9, <1>10, <1>11 DEF OnceNext

-----------------------------------------------------------------------------
(***************************************************************************)
(* The account, step by step.  A lemma shows it for the steps of the       *)
(* dispatcher and of create_source, which change what the program knows    *)
(* and not what the resource manager has.                                  *)
(***************************************************************************)
LEMMA AccountOfSameLine ==
  ASSUME ByAnswer, ByTally, Line' = Line, work' = work, irm' = irm,
         tally' = tally \/ AnyReset
  PROVE  ByAnswer' /\ ByTally'
<1>1. /\ \A k, ch : Counts(k, ch)' <=> Counts(k, ch)
      /\ AnyReset' <=> AnyReset
  BY CountsStay
<1>2. \A ch : Done(ch)' <=> Done(ch)
  BY DEF Done
<1>3. ByAnswer'
  BY <1>1, <1>2 DEF ByAnswer
<1>4. ByTally'
  BY <1>1, <1>2 DEF ByTally
<1> QED BY <1>3, <1>4

(* The program clears its account when it is told of another generation.   *)
LEMMA AccountAfterCreateSource ==
  ASSUME OnceInv, OnceCreateSource, steady, opened, ~crossed, Account, steady', ~crossed'
  PROVE  Account'
<1>1. reading' = reading /\ devq' = devq /\ handling' = handling /\ busGen' = busGen /\ opened' = opened
  BY DEF OnceCreateSource, OnceCreateSourceCaches, CreateSourceBegins, CreateSourceCaches,
     CreateSourceFails, CreateSourceReturns, dispatcher, kernel
<1>2. Line' = Line /\ (AnyReset' <=> AnyReset) /\ \A k : LastReset(k)' <=> LastReset(k)
  BY <1>1, LineStays, CountsStay
<1>3. work' = work /\ irm' = irm
  BY DEF OnceCreateSource, OnceCreateSourceCaches, onceVars
<1>4. CASE (CreateSourceBegins \/ CreateSourceFails) /\ UNCHANGED onceVars
  <2>1. tally' = tally /\ generation' = generation /\ creating # "cached" /\ creating' # "cached"
    BY <1>4 DEF CreateSourceBegins, CreateSourceFails, onceVars
  <2>2. ByAnswer' /\ ByTally'
    BY <1>2, <1>3, <2>1, AccountOfSameLine DEF Account
  <2>3. Ahead' /\ Behind'
    BY <1>1, <1>2, <2>1 DEF Account, Ahead, Behind
  <2> QED BY <2>2, <2>3 DEF Account
<1>5. CASE OnceCreateSourceCaches
  <2>1. /\ creating = "begun" /\ creating' = "cached" /\ before' = before
        /\ generation' = busGen /\ tally' = tally /\ handling = "no"
        /\ OnTheWay \cap OnceEvents = {} \/ busGen = generation
    BY <1>5 DEF OnceCreateSourceCaches, CreateSourceCaches
  <2>2. before = generation
    BY <2>1 DEF OnceInv, StateInv, Known
  <2>3. ByAnswer' /\ ByTally'
    BY <1>2, <1>3, <2>1, AccountOfSameLine DEF Account
  <2>4. generation # busGen => AnyReset
    BY <2>1 DEF OnceInv, StateInv, Cached, Uncopied, AnyReset
  <2>5. Behind'
    BY <1>2, <2>1, <2>2, <2>4 DEF Behind
  <2>6. Ahead'
    <3>1. CASE busGen = generation
      BY <1>1, <1>2, <2>1, <3>1 DEF Account, Ahead
    <3>2. CASE busGen # generation
      <4>1. \A k \in DOMAIN Line : Line[k] \notin OnceEvents
        BY <2>1, <3>2, LineIsOnTheWay DEF OnceInv
      <4> QED BY <1>1, <1>2, <2>1, <2>2, <3>2, <4>1 DEF Ahead
    <3> QED BY <3>1, <3>2
  <2> QED BY <2>3, <2>5, <2>6 DEF Account
<1>6. CASE CreateSourceReturns /\ ProgramTold
  <2>1. /\ creating = "cached" /\ creating' = "no" /\ generation' = generation
        /\ seen' = IF before # generation THEN generation ELSE seen
        /\ tally' = IF seen' = seen THEN tally ELSE {}
    BY <1>6 DEF CreateSourceReturns, ProgramTold
  <2>2. seen = before /\ handling # "copied"
    BY <2>1 DEF OnceInv, StateInv, Known
  <2>3. tally' = IF before # generation THEN {} ELSE tally
    BY <2>1, <2>2
  <2>4. before # generation => AnyReset
    BY <2>1 DEF Account, Behind
  <2>5. ByAnswer' /\ ByTally'
    BY <1>2, <1>3, <2>3, <2>4, AccountOfSameLine DEF Account
  <2>6. Ahead' /\ Behind'
    BY <1>1, <1>2, <2>1, <2>3 DEF Account, Ahead, Behind
  <2> QED BY <2>5, <2>6 DEF Account
<1> QED BY <1>4, <1>5, <1>6 DEF OnceCreateSource

(* Handling the head of the line: a bus reset, or an answer.               *)
LEMMA AccountAfterReset ==
  ASSUME OnceInv, OnceHandleBusReset, steady, opened, ~crossed, Account, ~crossed'
  PROVE  Account'
<1>q. Queue(OnceLine)
  BY DEF OnceInv, StateTypeOK, Queue
<1>3. work' = work /\ irm' = irm
  BY DEF OnceHandleBusReset
<1>d. \A ch : Done(ch)' <=> Done(ch)
  BY <1>3 DEF Done
<1>1. CASE HandleBusResetCompares \/ (HandleBusResetCopies /\ handling = "differs")
  <2>1. /\ reading' = reading /\ devq' = devq /\ seen' = seen /\ creating' = creating
        /\ before' = before /\ busGen' = busGen
    BY <1>1 DEF HandleBusResetCompares, HandleBusResetCopies, caller, kernel
  <2>2. Line' = Line /\ (AnyReset' <=> AnyReset) /\ \A k : LastReset(k)' <=> LastReset(k)
    BY <2>1, LineStays, CountsStay
  <2>3. tally' = tally
    BY <2>1 DEF OnceHandleBusReset, ProgramTold
  <2>4. ByAnswer' /\ ByTally'
    BY <1>3, <2>2, <2>3, AccountOfSameLine DEF Account
  <2>5. Ahead' /\ Behind'
    <3>1. CASE HandleBusResetCompares
      <4>1. generation' = generation /\ handling = "no"
        BY <3>1 DEF HandleBusResetCompares
      <4> QED BY <2>1, <2>2, <2>3, <4>1 DEF Account, Ahead, Behind
    <3>2. CASE HandleBusResetCopies /\ handling = "differs"
      <4>1. handling' = "copied" /\ creating = "no"
        BY <3>2 DEF HandleBusResetCopies
      <4> QED BY <2>1, <4>1 DEF Ahead, Behind
    <3> QED BY <1>1, <3>1, <3>2
  <2> QED BY <2>4, <2>5 DEF Account
<1>2. CASE (HandleBusResetCopies /\ handling # "differs") \/ HandleBusResetNotifies
  <2>1. PICK e \in BusResets : reading = <<e>>
    BY <1>2 DEF HandleBusResetCopies, HandleBusResetNotifies, OnceInv, StateInv, Attached
  <2>0. reading[1] = e /\ e.generation \in Nat
    BY <2>1 DEF BusResets
  <2>2. reading' = <<>> /\ devq' = devq /\ busGen' = busGen /\ creating' = creating /\ before' = before
    BY <1>2 DEF HandleBusResetCopies, HandleBusResetNotifies, caller, kernel
  <2>3. /\ 1 \in DOMAIN Line /\ Line[1] = e
        /\ \A k \in DOMAIN Line' :
              /\ k \in Nat /\ k >= 1 /\ k + 1 \in DOMAIN Line /\ Line'[k] = Line[k + 1]
              /\ LastReset(k)' <=> LastReset(k + 1)
              /\ \A ch : Counts(k, ch)' <=> Counts(k + 1, ch)
        /\ \A k \in DOMAIN Line : k = 1 \/ k - 1 \in DOMAIN Line'
        /\ \A k \in DOMAIN Line : k \in Nat /\ k >= 1
        /\ AnyReset' <=> \E k \in DOMAIN Line : k # 1 /\ Line[k] \in BusResets
    BY <1>q, <2>1, <2>2, CountsAfterHandled
  <2>4. AnyReset /\ \A ch : ~Counts(1, ch)
    BY <2>1, <2>3, OnceEventsDiffer DEF AnyReset, Counts
  (* The head is the last reset exactly when it is the one the bus is at.  *)
  <2>5. AnyReset' <=> e.generation # busGen
    <3>1. ASSUME NEW k \in DOMAIN Line, k # 1, Line[k] \in BusResets  PROVE e.generation # busGen
      <4>1. 1 < k
        BY <2>3, <3>1
      <4>2. e.generation < Line[k].generation /\ Line[k].generation <= busGen
        BY <2>1, <2>3, <3>1, <4>1 DEF OnceInv, StateInv, ResetsInOrder
      <4>3. Line[k].generation \in Nat /\ busGen \in Nat
        BY <3>1 DEF BusResets, OnceInv, StateTypeOK
      <4> QED BY <2>0, <4>2, <4>3
    <3>2. ASSUME e.generation # busGen
          PROVE  \E k \in DOMAIN Line : k # 1 /\ Line[k] \in BusResets
      <4>1. PICK k \in DOMAIN Line : Line[k] \in BusResets /\ Line[k].generation = busGen
        BY <2>1, <2>3 DEF OnceInv, StateInv, ResetsInOrder
      <4> QED BY <2>3, <3>2, <4>1
    <3> QED BY <2>3, <3>1, <3>2
  <2>6. /\ generation' = e.generation
        /\ creating = "cached" => FALSE
        /\ ~AnyReset' => tally' = {}
        /\ handling' = "no"
    <3>1. CASE HandleBusResetCopies /\ handling # "differs"
      <4>1. handling = "same" /\ generation' = e.generation /\ seen' = seen /\ handling' = "no"
        BY <2>1, <3>1 DEF HandleBusResetCopies
      <4>2. creating = "no"
        BY <3>1 DEF HandleBusResetCopies
      <4>3. generation = e.generation
        BY <2>0, <4>1 DEF OnceInv, StateInv, Known
      <4>4. tally' = tally
        BY <4>1 DEF OnceHandleBusReset, ProgramTold
      <4>5. ~AnyReset' => tally = {}
        BY <2>4, <2>5, <4>1, <4>2, <4>3 DEF Account, Ahead
      <4> QED BY <4>1, <4>2, <4>4, <4>5
    <3>2. CASE HandleBusResetNotifies
      <4>1. handling = "copied" /\ generation' = generation /\ seen' = generation /\ handling' = "no"
        BY <3>2 DEF HandleBusResetNotifies
      <4>2. generation = e.generation /\ seen # generation /\ creating # "cached"
        BY <2>0, <4>1 DEF OnceInv, StateInv, Known
      <4>3. tally' = {}
        BY <4>1, <4>2 DEF OnceHandleBusReset, ProgramTold
      <4> QED BY <4>1, <4>2, <4>3
    <3> QED BY <1>2, <3>1, <3>2
  <2>7. Ahead' /\ Behind'
    BY <2>2, <2>5, <2>6 DEF Ahead, Behind
  <2>8. ByAnswer'
    <3> SUFFICES ASSUME NEW ch \in Channels, NEW k \in DOMAIN Line',
                        Counts(k, ch)', ~Done(ch)',
                        \A j \in DOMAIN Line' : j > k => ~Counts(j, ch)'
                 PROVE  ch \in irm' <=> Line'[k].type = "ALLOCATED"
      BY DEF ByAnswer
    <3>1. k + 1 \in DOMAIN Line /\ Counts(k + 1, ch) /\ ~Done(ch) /\ Line'[k] = Line[k + 1]
      BY <1>d, <2>3
    <3>2. ASSUME NEW j \in DOMAIN Line, j > k + 1  PROVE ~Counts(j, ch)
      <4>1. j # 1 /\ j - 1 \in DOMAIN Line' /\ j - 1 > k /\ (j - 1) + 1 = j
        BY <2>3, <3>2
      <4> QED BY <2>3, <4>1
    <3>3. ch \in irm <=> Line[k + 1].type = "ALLOCATED"
      BY <3>1, <3>2 DEF Account, ByAnswer
    <3> QED BY <1>3, <3>1, <3>3
  <2>9. ByTally'
    <3> SUFFICES ASSUME NEW ch \in Channels, ~Done(ch)', \A k \in DOMAIN Line' : ~Counts(k, ch)'
                 PROVE  IF AnyReset' THEN ch \notin irm' ELSE ch \in irm' <=> ch \in tally'
      BY DEF ByTally
    <3>1. ASSUME NEW k \in DOMAIN Line  PROVE ~Counts(k, ch)
      <4>1. CASE k = 1
        BY <2>4, <4>1
      <4>2. CASE k # 1
        <5>1. k - 1 \in DOMAIN Line' /\ (k - 1) + 1 = k
          BY <2>3, <4>2
        <5> QED BY <2>3, <5>1
      <4> QED BY <4>1, <4>2
    <3>2. ch \notin irm
      BY <1>d, <2>4, <3>1 DEF Account, ByTally
    <3> QED BY <1>3, <2>6, <3>2
  <2> QED BY <2>7, <2>8, <2>9 DEF Account
<1> QED BY <1>1, <1>2 DEF OnceHandleBusReset, HandleBusResetCopies

LEMMA AccountAfterEntry ==
  ASSUME OnceInv, OnceHandleIsoResource, steady, opened, ~crossed, Account
  PROVE  Account'
<1>q. Queue(OnceLine)
  BY DEF OnceInv, StateTypeOK, Queue
<1>1. PICK e \in OnceEvents :
        /\ reading = <<e>> /\ reading' = <<>> /\ devq' = devq
        /\ tally' = CASE e.ok /\ e.type = "ALLOCATED"   -> tally \cup {e.ch}
                      [] e.ok /\ e.type = "DEALLOCATED" -> tally \ {e.ch}
                      [] ~e.ok                          -> tally
        /\ UNCHANGED <<work, irm, generation, busGen, handling, creating, before>>
  BY DEF OnceHandleIsoResource, kernel, caller
<1>e. e.ok \in BOOLEAN /\ e.type \in {"ALLOCATED", "DEALLOCATED"} /\ e \notin BusResets
  BY OnceEventsDiffer DEF OnceEvents
<1>d. \A ch : Done(ch)' <=> Done(ch)
  BY <1>1 DEF Done
<1>2. /\ 1 \in DOMAIN Line /\ Line[1] = e
      /\ \A k \in DOMAIN Line' :
            /\ k \in Nat /\ k >= 1 /\ k + 1 \in DOMAIN Line /\ Line'[k] = Line[k + 1]
            /\ LastReset(k)' <=> LastReset(k + 1)
            /\ \A ch : Counts(k, ch)' <=> Counts(k + 1, ch)
      /\ \A k \in DOMAIN Line : k = 1 \/ k - 1 \in DOMAIN Line'
      /\ \A k \in DOMAIN Line : k \in Nat /\ k >= 1
      /\ AnyReset' <=> \E k \in DOMAIN Line : k # 1 /\ Line[k] \in BusResets
  BY <1>1, <1>q, CountsAfterHandled
<1>3. AnyReset' <=> AnyReset
  BY <1>2, <1>e DEF AnyReset
<1>4. LastReset(1) <=> ~AnyReset
  <2>1. ASSUME NEW k \in DOMAIN Line, Line[k] \in BusResets  PROVE k > 1
    BY <1>2, <1>e, <2>1
  <2> QED BY <1>2, <2>1 DEF LastReset, AnyReset
<1>5. Ahead' /\ Behind'
  <2>1. ~(AnyReset /\ generation = busGen /\ handling # "copied")
    BY <1>1, <1>2, <1>4 DEF Account, Ahead
  <2> QED BY <1>1, <1>3, <2>1 DEF Account, Ahead, Behind
<1>6. ByAnswer'
  <2> SUFFICES ASSUME NEW ch \in Channels, NEW k \in DOMAIN Line',
                      Counts(k, ch)', ~Done(ch)',
                      \A j \in DOMAIN Line' : j > k => ~Counts(j, ch)'
               PROVE  ch \in irm' <=> Line'[k].type = "ALLOCATED"
    BY DEF ByAnswer
  <2>1. k + 1 \in DOMAIN Line /\ Counts(k + 1, ch) /\ ~Done(ch) /\ Line'[k] = Line[k + 1]
    BY <1>d, <1>2
  <2>2. ASSUME NEW j \in DOMAIN Line, j > k + 1  PROVE ~Counts(j, ch)
    <3>1. j # 1 /\ j - 1 \in DOMAIN Line' /\ j - 1 > k /\ (j - 1) + 1 = j
      BY <1>2, <2>2
    <3> QED BY <1>2, <3>1
  <2>3. ch \in irm <=> Line[k + 1].type = "ALLOCATED"
    BY <2>1, <2>2 DEF Account, ByAnswer
  <2> QED BY <1>1, <2>1, <2>3
<1>7. ByTally'
  <2> SUFFICES ASSUME NEW ch \in Channels, ~Done(ch)', \A k \in DOMAIN Line' : ~Counts(k, ch)'
               PROVE  IF AnyReset' THEN ch \notin irm' ELSE ch \in irm' <=> ch \in tally'
    BY DEF ByTally
  <2>1. ASSUME NEW k \in DOMAIN Line, k # 1  PROVE ~Counts(k, ch)
    <3>1. k - 1 \in DOMAIN Line' /\ (k - 1) + 1 = k
      BY <1>2, <2>1
    <3> QED BY <1>2, <3>1
  <2>2. CASE Counts(1, ch)
    <3>1. ~AnyReset /\ e.ok /\ e.ch = ch
      BY <1>2, <1>4, <2>2 DEF Counts
    <3>2. ch \in irm <=> e.type = "ALLOCATED"
      <4>1. \A j \in DOMAIN Line : j > 1 => ~Counts(j, ch)
        BY <1>2, <2>1
      <4> QED BY <1>d, <1>2, <2>2, <4>1 DEF Account, ByAnswer
    <3>3. ch \in tally' <=> e.type = "ALLOCATED"
      BY <1>1, <1>e, <3>1
    <3> QED BY <1>1, <1>3, <3>1, <3>2, <3>3
  <2>3. CASE ~Counts(1, ch)
    <3>1. IF AnyReset THEN ch \notin irm ELSE ch \in irm <=> ch \in tally
      BY <1>d, <2>1, <2>3 DEF Account, ByTally
    <3>2. ~AnyReset => (ch \in tally' <=> ch \in tally)
      <4>1. ~AnyReset => ~(e.ok /\ e.ch = ch)
        BY <1>2, <1>4, <2>3 DEF Counts
      <4> QED BY <1>1, <1>e, <4>1
    <3> QED BY <1>1, <1>3, <3>1, <3>2
  <2> QED BY <2>2, <2>3
<1> QED BY <1>5, <1>6, <1>7 DEF Account

(* The request r is answered: its channel has no other under way.          *)
LEMMA AccountAfterPost ==
  ASSUME OnceInv, NEW r \in work, KernelAnswers(r), steady, opened, ~crossed,
         Account, OnePerChannel, ByRequest
  PROVE  Account'
<1>q. Queue(OnceLine)
  BY DEF OnceInv, StateTypeOK, Queue
<1>r. r \in Requests
  BY DEF OnceInv, OnceTypeOK
<1>1. PICK e \in OnceEvents : e = [type |-> r.type, ch |-> r.ch, ok |-> r.st = "done"] /\ Post(e)
  <2>1. (r.st = "done") \in BOOLEAN /\ r.ch \in Channels /\ r.type \in {"ALLOCATED", "DEALLOCATED"}
    BY <1>r DEF Requests
  <2>2. [type |-> r.type, ch |-> r.ch, ok |-> r.st = "done"] \in OnceEvents
    BY <2>1 DEF OnceEvents
  <2> QED BY <2>2 DEF KernelAnswers
<1>e. e \in OnceLine \ BusResets /\ e.type = r.type /\ e.ch = r.ch /\ (e.ok <=> r.st = "done")
  BY <1>1, OnceEventsDiffer DEF OnceLine
<1>2. /\ work' = work \ {r}
      /\ UNCHANGED <<reading, tally, irm, generation, busGen, handling, creating, before>>
  BY DEF KernelAnswers, caller, dispatcher
<1>3. /\ \A ch : \A k \in DOMAIN Line : Counts(k, ch)' <=> Counts(k, ch)
      /\ \A k \in DOMAIN Line :
           k \in DOMAIN Line' /\ Line'[k] = Line[k] /\ (LastReset(k)' <=> LastReset(k))
      /\ AnyReset' <=> AnyReset
  BY <1>1, <1>2, <1>e, <1>q, CountsAfterAnswer
<1>4. PICK last \in Nat :
        /\ DOMAIN Line' = DOMAIN Line \cup {last} /\ last \notin DOMAIN Line
        /\ \A k \in DOMAIN Line : k < last
        /\ Line'[last] = e /\ LastReset(last)'
  BY <1>1, <1>2, <1>e, <1>q, CountsAfterAnswer
<1>c. \A ch : Counts(last, ch)' <=> r.st = "done" /\ r.ch = ch
  BY <1>4, <1>e, <1>1 DEF Counts
<1>d. \A ch : Done(ch)' <=> Done(ch) /\ ch # r.ch
  BY <1>2 DEF Done, OnePerChannel
<1>f. Done(r.ch) <=> r.st = "done"
  BY DEF Done, OnePerChannel
<1>5. Ahead' /\ Behind'
  BY <1>2, <1>3, <1>4 DEF Account, Ahead, Behind
<1>6. ByAnswer'
  <2> SUFFICES ASSUME NEW ch \in Channels, NEW k \in DOMAIN Line',
                      Counts(k, ch)', ~Done(ch)',
                      \A j \in DOMAIN Line' : j > k => ~Counts(j, ch)'
               PROVE  ch \in irm' <=> Line'[k].type = "ALLOCATED"
    BY DEF ByAnswer
  <2>1. CASE k = last
    BY <1>2, <1>4, <1>c, <1>e, <2>1 DEF ByRequest
  <2>2. CASE k # last
    <3>1. k \in DOMAIN Line /\ k < last /\ Counts(k, ch) /\ Line'[k] = Line[k]
      BY <1>3, <1>4, <2>2
    <3>2. ~(r.st = "done" /\ r.ch = ch)
      BY <1>4, <1>c, <3>1
    <3>3. ~Done(ch)
      BY <1>d, <1>f, <3>2
    <3>4. \A j \in DOMAIN Line : j > k => ~Counts(j, ch)
      BY <1>3
    <3> QED BY <1>2, <3>1, <3>3, <3>4 DEF Account, ByAnswer
  <2> QED BY <2>1, <2>2
<1>7. ByTally'
  <2> SUFFICES ASSUME NEW ch \in Channels, ~Done(ch)', \A k \in DOMAIN Line' : ~Counts(k, ch)'
               PROVE  IF AnyReset' THEN ch \notin irm' ELSE ch \in irm' <=> ch \in tally'
    BY DEF ByTally
  <2>1. ~(r.st = "done" /\ r.ch = ch)
    BY <1>4, <1>c
  <2>2. ~Done(ch) /\ \A k \in DOMAIN Line : ~Counts(k, ch)
    BY <1>3, <1>d, <1>f, <2>1
  <2> QED BY <1>2, <1>3, <2>2 DEF Account, ByTally
<1> QED BY <1>5, <1>6, <1>7 DEF Account

(* The request r is carried out, or not.                                   *)
LEMMA SteadyAfterManage ==
  ASSUME OnceInv, NEW r \in work, NEW ok \in BOOLEAN, KernelManages(r, ok), steady
  PROVE  Steady'
<1>r. r \in Requests /\ r.st # "left" /\ r.st \in {"due", "left"}
  BY DEF OnceInv, OnceTypeOK, Steady, KernelManages
<1> DEFINE s == [r EXCEPT !.st = IF ok THEN "done" ELSE "failed"]
<1>1. /\ work' = (work \ {r}) \cup {s}
      /\ s.ch = r.ch /\ s.type = r.type /\ s.st = (IF ok THEN "done" ELSE "failed")
      /\ r.type \in {"ALLOCATED", "DEALLOCATED"} /\ r.st = "due"
  BY <1>r DEF KernelManages, Requests
<1>2. /\ irm' = CASE ok /\ r.type = "ALLOCATED"   -> irm \cup {r.ch}
                  [] ok /\ r.type = "DEALLOCATED" -> irm \ {r.ch}
                  [] ~ok                          -> irm
      /\ UNCHANGED <<state, tally, steady>>
  BY DEF KernelManages
<1>3. /\ opened' = opened /\ crossed' = crossed /\ reading' = reading /\ devq' = devq
      /\ tally' = tally /\ steady' = steady /\ seen' = seen /\ busGen' = busGen
      /\ generation' = generation /\ creating' = creating /\ before' = before
      /\ handling' = handling
  BY <1>2 DEF state, caller, dispatcher, kernel
<1> HIDE DEF s
<1>4. OnePerChannel /\ ByRequest /\ (\A x \in work : x.st # "left") /\ opened
  BY <1>r DEF OnceInv, Steady
<1>5. OnePerChannel' /\ \A x \in work' : x.st # "left"
  BY <1>1, <1>4 DEF OnePerChannel
<1>6. \A ch : ch # r.ch => (ch \in irm' <=> ch \in irm)
  BY <1>1, <1>2
<1>7. ByRequest'
  <2> SUFFICES ASSUME NEW x \in work', x.st = "done"  PROVE x.ch \in irm' <=> x.type = "ALLOCATED"
    BY DEF ByRequest
  <2>1. CASE x = s
    BY <1>1, <1>2, <2>1
  <2>2. CASE x # s
    <3>1. x \in work /\ x # r
      BY <1>1, <2>2
    <3>2. x.ch # r.ch
      BY <1>4, <3>1 DEF OnePerChannel
    <3> QED BY <1>4, <1>6, <3>1, <3>2 DEF ByRequest
  <2> QED BY <2>1, <2>2
<1>8. ASSUME ~crossed  PROVE Account'
  <2>1. Account
    BY <1>4, <1>8 DEF OnceInv, Steady
  <2>2. Line' = Line
    BY <1>3, LineStays
  <2>3. (\A k, ch : Counts(k, ch)' <=> Counts(k, ch)) /\ (\A k : LastReset(k)' <=> LastReset(k))
        /\ (AnyReset' <=> AnyReset)
    BY <2>2, CountsStay
  <2>4. \A ch : ~Done(ch)' => ~Done(ch) /\ (ch \in irm' <=> ch \in irm)
    <3> SUFFICES ASSUME NEW ch, ~Done(ch)'  PROVE ~Done(ch) /\ (ch \in irm' <=> ch \in irm)
      OBVIOUS
    <3>1. ~Done(ch)
      BY <1>1 DEF Done
    <3>2. CASE ch = r.ch
      <4>1. ~ok
        BY <1>1, <3>2 DEF Done
      <4> QED BY <1>2, <3>1, <4>1
    <3> QED BY <1>6, <3>1, <3>2
  <2>5. ByAnswer'
    BY <2>1, <2>2, <2>3, <2>4 DEF Account, ByAnswer
  <2>6. ByTally'
    BY <1>3, <2>1, <2>2, <2>3, <2>4 DEF Account, ByTally
  <2>7. Ahead' /\ Behind'
    BY <1>3, <2>1, <2>2, <2>3 DEF Account, Ahead, Behind
  <2> QED BY <2>5, <2>6, <2>7 DEF Account
<1> QED BY <1>3, <1>4, <1>5, <1>7, <1>8 DEF Steady

(* The steps of a closed object, which the next one starts from.           *)
LEMMA SteadyAfterOpen ==
  ASSUME OnceInv, OnceOpen  PROVE Steady'
<1>1. /\ ~opened /\ opened' /\ generation' = busGen /\ seen' = busGen /\ busGen' = busGen
      /\ reading' = reading /\ devq' = devq /\ creating' = creating
      /\ work' = work /\ irm' = irm /\ steady' = steady
      /\ tally' = IF seen' = seen THEN tally ELSE {}
  BY DEF OnceOpen, Open, ProgramTold, caller, dispatcher, kernel
<1>2. SUFFICES ASSUME steady  PROVE Steady'
  BY <1>1 DEF Steady
<1>3. work = {} /\ (IF seen = busGen THEN tally = irm ELSE irm = {}) /\ tally' = irm
  BY <1>1, <1>2 DEF OnceInv, Steady
<1>4. reading = <<>> /\ devq = <<>> /\ creating = "no"
  BY <1>1 DEF OnceInv, StateInv, Attached
<1>5. DOMAIN Line' = {}
  BY <1>1, <1>4 DEF Line, InLine
<1>6. Account'
  BY <1>1, <1>3, <1>4, <1>5 DEF Account, ByAnswer, ByTally, Ahead, Behind, AnyReset
<1> QED BY <1>1, <1>3, <1>6 DEF Steady, OnePerChannel, ByRequest

LEMMA SteadyAfterFinalize ==
  ASSUME OnceInv, OnceFinalize  PROVE Steady'
<1>1. /\ opened /\ ~source /\ creating = "no" /\ ~opened' /\ seen' = seen /\ busGen' = busGen
      /\ tally' = tally /\ irm' = irm
      /\ steady' = (steady /\ ~crossed /\ work = {} /\ devq = <<>>)
      /\ work' = {[r EXCEPT !.st = "left"] : r \in {x \in work : x.st \in {"due", "left"}}}
  BY DEF OnceFinalize, Close
<1>2. SUFFICES ASSUME steady, ~crossed, work = {}, devq = <<>>
               PROVE  work' = {} /\ tally = irm /\ seen = busGen
  BY <1>1 DEF Steady, OnePerChannel, ByRequest
<1>3. reading = <<>>
  BY <1>1 DEF OnceInv, StateInv, Attached
<1>4. DOMAIN Line = {}
  BY <1>2, <1>3 DEF Line, InLine
<1>5. seen = busGen
  <2>1. OnTheWay = {}
    BY <1>2, <1>3 DEF OnTheWay
  <2> QED BY <1>1, <1>2, <2>1, GenerationFollows DEF OnceInv, GenerationCurrent
<1>6. \A ch \in Channels : ch \in irm <=> ch \in tally
  BY <1>1, <1>2, <1>4 DEF OnceInv, Steady, Account, ByTally, Done, AnyReset
<1>7. tally = irm
  BY <1>6 DEF OnceInv, OnceTypeOK
<1> QED BY <1>1, <1>2, <1>5, <1>7

LEMMA SteadyAfterBusReset ==
  ASSUME OnceInv, OnceBusReset  PROVE Steady'
<1>1. /\ opened' = opened /\ generation' = generation /\ crossed' = crossed
      /\ creating' = creating /\ before' = before /\ reading' = reading /\ handling' = handling
      /\ seen' = seen /\ busGen' = busGen + 1 /\ busGen < MaxGen
      /\ irm' = {} /\ work' = work /\ tally' = tally
      /\ steady' = (steady /\ \A r \in work : r.st # "done")
  BY DEF OnceBusReset, BusReset, caller, dispatcher
<1>2. SUFFICES ASSUME steady, \A r \in work : r.st # "done"  PROVE Steady'
  BY <1>1 DEF Steady
<1>3. generation # busGen' /\ seen # busGen'
  <2>1. generation <= busGen /\ seen <= busGen
    BY DEF OnceInv, StateInv, Cached
  <2>2. generation \in Nat /\ seen \in Nat /\ busGen \in Nat
    BY FwIsoResourceStateAssumption DEF OnceInv, StateTypeOK
  <2> QED BY <1>1, <2>1, <2>2
<1>4. OnePerChannel' /\ ByRequest' /\ (\A r \in work' : r.st # "left")
  BY <1>1, <1>2 DEF OnceInv, Steady, OnePerChannel, ByRequest
<1>5. ASSUME opened  PROVE Account'
  <2>1. busGen' \in 0..MaxGen
    BY <1>1, FwIsoResourceStateAssumption DEF OnceInv, StateTypeOK
  <2>2. PICK x \in OnceLine \cap BusResets : Post(x)
    <3>1. [type |-> "BUS_RESET", generation |-> busGen'] \in BusResets
      BY <2>1 DEF BusResets
    <3> QED BY <1>5, <3>1 DEF OnceBusReset, BusReset, OnceLine
  <2>3. AnyReset' /\ \A k, ch : ~Counts(k, ch)'
    BY <1>1, <2>2, CountsAfterReset DEF OnceInv, StateTypeOK, Queue
  <2> QED BY <1>1, <1>3, <2>3 DEF Account, ByAnswer, ByTally, Ahead, Behind
<1>6. ~opened => work' = {}
  BY <1>1, <1>2 DEF OnceInv, Steady
<1> QED BY <1>1, <1>3, <1>4, <1>5, <1>6 DEF Steady

(* A request, for a channel no other is under way for.                     *)
LEMMA SteadyAfterRequest ==
  ASSUME OnceInv, NEW type \in {"ALLOCATED", "DEALLOCATED"}, NEW ch \in Channels,
         OnceRequest(type, ch)
  PROVE  Steady'
<1> DEFINE q == [type |-> type, ch |-> ch, st |-> "due"]
<1>1. /\ opened /\ work' = work \cup {q} /\ tally' = tally /\ irm' = irm
      /\ steady' = (steady /\ \A r \in work : r.ch # ch)
      /\ UNCHANGED state
  BY DEF OnceRequest
<1>2. UNCHANGED <<opened, generation, creating, before, reading, handling, seen, crossed,
                  devq, busGen>>
  BY <1>1 DEF state, caller, dispatcher, kernel
<1>3. SUFFICES ASSUME steady, \A r \in work : r.ch # ch  PROVE Steady'
  BY <1>1 DEF Steady
<1>4. q.ch = ch /\ q.st = "due"
  OBVIOUS
<1> HIDE DEF q
<1>5. OnePerChannel' /\ ByRequest' /\ (\A r \in work' : r.st # "left")
  BY <1>1, <1>3, <1>4 DEF OnceInv, Steady, OnePerChannel, ByRequest
<1>6. ASSUME ~crossed  PROVE Account'
  <2>1. Account
    BY <1>1, <1>3, <1>6 DEF OnceInv, Steady
  <2>2. Line' = Line
    BY <1>2, LineStays
  <2>3. (\A k, c : Counts(k, c)' <=> Counts(k, c)) /\ (\A k : LastReset(k)' <=> LastReset(k))
        /\ (AnyReset' <=> AnyReset)
    BY <2>2, CountsStay
  <2>4. \A c : Done(c)' <=> Done(c)
    BY <1>1, <1>4 DEF Done
  <2>5. ByAnswer' /\ ByTally'
    BY <1>1, <2>1, <2>2, <2>3, <2>4 DEF Account, ByAnswer, ByTally
  <2>6. Ahead' /\ Behind'
    BY <1>1, <1>2, <2>1, <2>2, <2>3 DEF Account, Ahead, Behind
  <2> QED BY <2>5, <2>6 DEF Account
<1> QED BY <1>1, <1>2, <1>5, <1>6 DEF Steady

(* The steps which leave the requests alone, on an open object.            *)
LEMMA SteadyWithWork ==
  ASSUME OnceInv, opened, opened', work' = work, irm' = irm,
         crossed => crossed', steady' => steady,
         steady' /\ steady /\ ~crossed /\ ~crossed' /\ Account => Account'
  PROVE  Steady'
BY DEF OnceInv, Steady, OnePerChannel, ByRequest

LEMMA SteadyKept ==
  ASSUME OnceInv, [OnceNext]_<<state, onceVars>>  PROVE Steady'
<1>1. CASE OnceOpen
  BY <1>1, SteadyAfterOpen
<1>2. CASE OnceCreateSource
  <2>1. opened
    BY <1>2 DEF OnceCreateSource, OnceCreateSourceCaches, CreateSourceBegins,
       CreateSourceCaches, CreateSourceFails, CreateSourceReturns, OnceInv, StateInv, Attached
  <2>2. opened' = opened /\ work' = work /\ irm' = irm
    BY <1>2 DEF OnceCreateSource, OnceCreateSourceCaches, CreateSourceBegins,
       CreateSourceCaches, CreateSourceFails, CreateSourceReturns, onceVars
  <2>3. (crossed => crossed') /\ (steady' => steady)
    <3>1. CASE OnceCreateSourceCaches
      BY <3>1 DEF OnceCreateSourceCaches, CreateSourceCaches
    <3>2. CASE ~OnceCreateSourceCaches
      BY <1>2, <3>2 DEF OnceCreateSource, CreateSourceBegins, CreateSourceFails,
         CreateSourceReturns, onceVars
    <3> QED BY <3>1, <3>2
  <2> QED BY <1>2, <2>1, <2>2, <2>3, SteadyWithWork, AccountAfterCreateSource
<1>3. CASE OnceFinalize
  BY <1>3, SteadyAfterFinalize
<1>4. CASE (RemoveSource \/ Dispatch) /\ UNCHANGED onceVars
  <2>1. /\ opened /\ opened' = opened /\ crossed' = crossed
        /\ generation' = generation /\ busGen' = busGen /\ handling' = handling
        /\ creating' = creating /\ before' = before
    BY <1>4 DEF RemoveSource, Dispatch, OnceInv, StateInv, Attached, caller, dispatcher, kernel
  <2>2. work' = work /\ irm' = irm /\ tally' = tally /\ steady' = steady
    BY <1>4 DEF onceVars
  <2>3. Line' = Line
    <3>1. CASE RemoveSource
      BY <3>1, LineStays DEF RemoveSource, dispatcher, kernel
    <3>2. CASE Dispatch
      BY <3>2, LineDispatched DEF OnceInv, StateTypeOK, Queue
    <3> QED BY <1>4, <3>1, <3>2
  <2>4. Account => Account'
    <3>1. (\A k : LastReset(k)' <=> LastReset(k)) /\ (AnyReset' <=> AnyReset)
      BY <2>3, CountsStay
    <3> QED BY <2>1, <2>2, <2>3, <3>1, AccountOfSameLine DEF Account, Ahead, Behind
  <2> QED BY <2>1, <2>2, <2>4, SteadyWithWork
<1>5. ASSUME NEW ch \in Channels, OnceAllocate(ch) \/ OnceDeallocate(ch)  PROVE Steady'
  BY <1>5, SteadyAfterRequest DEF OnceAllocate, OnceDeallocate
<1>6. CASE OnceHandleIsoResource
  <2>1. opened /\ opened' = opened /\ crossed' = crossed
    BY <1>6 DEF OnceHandleIsoResource, OnceInv, StateInv, Attached
  <2>2. work' = work /\ irm' = irm /\ steady' = steady
    BY <1>6 DEF OnceHandleIsoResource
  <2> QED BY <1>6, <2>1, <2>2, SteadyWithWork, AccountAfterEntry
<1>7. CASE OnceHandleBusReset
  <2>1. opened' = opened /\ (crossed => crossed')
    <3>1. CASE HandleBusResetCopies
      BY <3>1 DEF HandleBusResetCopies
    <3>2. CASE HandleBusResetCompares \/ HandleBusResetNotifies
      BY <3>2 DEF HandleBusResetCompares, HandleBusResetNotifies
    <3> QED BY <1>7, <3>1, <3>2 DEF OnceHandleBusReset
  <2>3. opened
    <3>1. reading # <<>>
      BY <1>7 DEF OnceHandleBusReset, HandleBusResetCompares, HandleBusResetCopies,
         HandleBusResetNotifies, OnceInv, StateInv, Attached
    <3> QED BY <3>1 DEF OnceInv, StateInv, Attached
  <2>2. work' = work /\ irm' = irm /\ steady' = steady
    BY <1>7 DEF OnceHandleBusReset
  <2> QED BY <1>7, <2>1, <2>2, <2>3, SteadyWithWork, AccountAfterReset
<1>8. ASSUME NEW r \in work, KernelAnswers(r)  PROVE Steady'
  <2>1. opened /\ opened' = opened /\ crossed' = crossed
    BY <1>8 DEF KernelAnswers, OnceInv
  <2>2. work' = work \ {r} /\ irm' = irm /\ steady' = steady
    BY <1>8 DEF KernelAnswers
  <2>3. SUFFICES ASSUME steady  PROVE Steady'
    BY <2>2 DEF Steady
  <2>4. OnePerChannel /\ ByRequest /\ (\A x \in work : x.st # "left") /\ (~crossed => Account)
    BY <2>1, <2>3 DEF OnceInv, Steady
  <2>5. OnePerChannel' /\ ByRequest' /\ (\A x \in work' : x.st # "left")
    BY <2>2, <2>4 DEF OnePerChannel, ByRequest
  <2>6. ~crossed => Account'
    BY <1>8, <2>1, <2>3, <2>4, AccountAfterPost
  <2> QED BY <2>1, <2>5, <2>6 DEF Steady
<1>9. ASSUME NEW r \in work, NEW ok \in BOOLEAN, KernelManages(r, ok)  PROVE Steady'
  <2>1. CASE steady
    BY <1>9, <2>1, SteadyAfterManage
  <2>2. CASE ~steady
    BY <1>9, <2>2 DEF KernelManages, Steady
  <2> QED BY <2>1, <2>2
<1>10. CASE OnceBusReset
  BY <1>10, SteadyAfterBusReset
<1>11. CASE UNCHANGED <<state, onceVars>>
  <2>1. UNCHANGED <<opened, generation, creating, before, reading, handling, seen, crossed,
                    devq, busGen, tally, work, irm, steady>>
    BY <1>11 DEF state, caller, dispatcher, kernel, onceVars
  <2>2. Line' = Line
    BY <2>1, LineStays
  <2>3. Account => Account'
    <3>1. (\A k : LastReset(k)' <=> LastReset(k)) /\ (AnyReset' <=> AnyReset)
      BY <2>2, CountsStay
    <3> QED BY <2>1, <2>2, <3>1, AccountOfSameLine DEF Account, Ahead, Behind
  <2> QED BY <2>1, <2>3 DEF OnceInv, Steady, OnePerChannel, ByRequest
<1> QED BY <1>1, <1>2, <1>3, <1>4, <1>5, <1>6, <1>7, <1>8, <1>9, <1>10, <1>11 DEF OnceNext

-----------------------------------------------------------------------------
LEMMA OnceInvInit ==
  ASSUME StateInit, OnceInit  PROVE OnceInv
<1>1. OnceTypeOK
  BY DEF OnceInit, OnceTypeOK
<1>2. Steady
  BY DEF StateInit, OnceInit, Steady, OnePerChannel, ByRequest
<1>3. \A r \in work : r.st # "left" => opened
  BY DEF OnceInit
<1> QED BY <1>1, <1>2, <1>3, StateInvInit DEF OnceInv

LEMMA OnceInvKept ==
  ASSUME OnceInv, [OnceNext]_<<state, onceVars>>  PROVE OnceInv'
<1>1. OnceTypeOK'
  BY OnceTypesKept DEF OnceInv
<1>2. StateTypeOK(OnceLine)' /\ StateInv'
  <2>1. [StateNext(OnceLine)]_state /\ BusResets \subseteq OnceLine
    BY OnceStepsState DEF OnceInv, OnceLine
  <2> QED BY <2>1, StateInvKept DEF OnceInv
<1>3. (\A r \in work : r.st # "left" => opened)'
  BY LeftWhenClosed DEF OnceInv
<1> QED BY <1>1, <1>2, <1>3, SteadyKept DEF OnceInv

LEMMA TallyFollows ==
  ASSUME OnceInv  PROVE TallyIsHeld
<1>1. SUFFICES ASSUME steady, ~crossed, opened, work = {}, OnTheWay = {}
               PROVE  tally = irm
  BY DEF TallyIsHeld
<1>2. DOMAIN Line = {}
  BY <1>1, LineIsOnTheWay DEF OnceInv
<1>3. \A ch \in Channels : ch \in irm <=> ch \in tally
  BY <1>1, <1>2 DEF OnceInv, Steady, Account, ByTally, Done, AnyReset, Counts
<1> QED BY <1>3 DEF OnceInv, OnceTypeOK

-----------------------------------------------------------------------------
(***************************************************************************)
(* The specification.  What belongs to the other class keeps its first     *)
(* values.                                                                 *)
(***************************************************************************)
Inv ==
  \/ class = "auto" /\ AutoInv /\ OnceInit
  \/ class = "once" /\ OnceInv /\ AutoInit

LEMMA InvInit == Init => Inv
BY AutoInvInit, OnceInvInit DEF Init, Inv

LEMMA InvKept == Inv /\ [Next]_vars => Inv'
<1> SUFFICES ASSUME Inv, [Next]_vars  PROVE Inv'
  OBVIOUS
<1>1. CASE class = "auto"
  <2>1. AutoInv /\ OnceInit
    BY <1>1 DEF Inv
  <2>2. [AutoNext]_<<state, autoVars>> /\ UNCHANGED <<class, onceVars>>
    BY <1>1 DEF Next, vars
  <2>3. OnceInit'
    BY <2>1, <2>2 DEF OnceInit, onceVars
  <2>4. AutoInv'
    BY <2>1, <2>2, AutoInvKept
  <2> QED BY <1>1, <2>2, <2>3, <2>4 DEF Inv
<1>2. CASE class = "once"
  <2>1. OnceInv /\ AutoInit
    BY <1>2 DEF Inv
  <2>2. [OnceNext]_<<state, onceVars>> /\ UNCHANGED <<class, autoVars>>
    BY <1>2 DEF Next, vars
  <2>3. AutoInit'
    BY <2>1, <2>2 DEF AutoInit, autoVars, object
  <2>4. OnceInv'
    BY <2>1, <2>2, OnceInvKept
  <2> QED BY <1>2, <2>2, <2>3, <2>4 DEF Inv
<1> QED BY <1>1, <1>2 DEF Inv

LEMMA InvAlways == Spec => []Inv
BY InvInit, InvKept, PTL DEF Spec

(* The variables of both classes and of the structure keep their types:    *)
(* bandwidth, which is subtracted from without a look at the amount, does  *)
(* so because the subtraction of guint wraps.                              *)
THEOREM TypesCorrect == Spec => []TypeOK
<1>1. Inv => TypeOK
  <2>1. ASSUME class = "auto", AutoInv, OnceInit  PROVE TypeOK
    BY <2>1 DEF AutoInv, AutoEvents, OnceInit, OnceTypeOK, TypeOK
  <2>2. ASSUME class = "once", OnceInv, AutoInit  PROVE TypeOK
    <3>1. AutoTypeOK
      <4>1. Free \in Resources /\ 0 \in 0..(UintSize - 1)
        BY FwIsoResourceAutoAssumption DEF Free, Resources
      <4> QED BY <2>2, <4>1 DEF AutoInit, AutoTypeOK
    <3> QED BY <2>2, <3>1 DEF OnceInv, OnceLine, TypeOK
  <2> QED BY <2>1, <2>2 DEF Inv
<1> QED BY <1>1, InvAlways, PTL

(* The cached generation is the one of the bus, and the program was told   *)
(* of it, when no bus reset is left in the line, for any number of resets. *)
THEOREM GenerationIsCurrent == Spec => []GenerationCurrent
<1>1. Inv => GenerationCurrent
  BY GenerationFollows DEF Inv, AutoInv, OnceInv
<1> QED BY <1>1, InvAlways, PTL

(* An object of FwIsoResourceAuto whose answers are all read describes the *)
(* kernel, for any number of handles and any amounts, if used orderly.     *)
THEOREM TruthSettles == Spec => []SettledTruth
<1>1. Inv => SettledTruth
  <2>1. ASSUME AutoInit  PROVE SettledTruth
    BY <2>1 DEF AutoInit, SettledTruth, Holding, Free
  <2> QED BY <2>1, TruthFollows DEF Inv
<1> QED BY <1>1, InvAlways, PTL

(* A program which enters the answers of FwIsoResourceOnce in an account   *)
(* has what the resource manager keeps for it, for any number of channels, *)
(* requests, events and bus resets, as long as it goes steadily.           *)
THEOREM TallyHolds == Spec => []TallyIsHeld
<1>1. Inv => TallyIsHeld
  <2>1. ASSUME OnceInit  PROVE TallyIsHeld
    BY <2>1 DEF OnceInit, TallyIsHeld
  <2> QED BY <2>1, TallyFollows DEF Inv
<1> QED BY <1>1, InvAlways, PTL

-----------------------------------------------------------------------------
(* What the bandwidth is that a program asks for.                          *)
Bandwidth == INSTANCE FwIsoResourceBandwidth

\* The bytes on the bus: the header, and the payload with what fills its last quadlet.
OnTheBus(payload) == 12 + 4 * ((payload + 3) \div 4)

LEMMA Quotient ==
  ASSUME NEW a \in Int, NEW n \in Nat \ {0}
  PROVE  /\ a \div n \in Int
         /\ a % n \in 0..(n - 1)
         /\ a = n * (a \div n) + (a % n)
  OBVIOUS

LEMMA Wrapped ==
  ASSUME NEW x \in Nat, UintSize \in Nat \ {0}
  PROVE  /\ x % UintSize \in Nat
         /\ x < UintSize => x % UintSize = x
         /\ x >= UintSize => x % UintSize <= x - UintSize
<1>1. PICK n : n = x \div UintSize
  OBVIOUS
<1>2. PICK r : r = x % UintSize
  OBVIOUS
<1>3. n \in Int /\ r \in 0..(UintSize - 1) /\ x = UintSize * n + r
  BY <1>1, <1>2, Quotient
<1>5. ASSUME n >= 1  PROVE UintSize * n >= UintSize
  BY <1>3, <1>5
<1>6. UintSize * n \in Int
  BY <1>3
<1>7. ASSUME n < 0  PROVE UintSize * n <= - UintSize
  BY <1>3, <1>7
<1>8. ASSUME n = 0  PROVE UintSize * n = 0
  BY <1>3, <1>8
<1>9. CASE n < 0
  BY <1>3, <1>6, <1>7, <1>9
<1>10. CASE n = 0
  BY <1>2, <1>3, <1>8, <1>10
<1>11. CASE n >= 1
  BY <1>2, <1>3, <1>5, <1>6, <1>11
<1> QED BY <1>3, <1>9, <1>10, <1>11

(* The computed length of the packet is that, or too short by the width of *)
(* a guint at least.                                                       *)
LEMMA PacketBytes ==
  ASSUME UintSize \in Nat \ {0}, UintSize % 8 = 0, NEW payload \in 0..(UintSize - 1)
  PROVE  /\ Bandwidth!BytesPerPacket(payload) \in Nat
         /\ OnTheBus(payload) < UintSize =>
              Bandwidth!BytesPerPacket(payload) = OnTheBus(payload)
         /\ OnTheBus(payload) >= UintSize =>
              Bandwidth!BytesPerPacket(payload) <= OnTheBus(payload) - UintSize
<1> DEFINE bytes == Bandwidth!BytesPerPacket(payload)
<1>1. bytes = (12 + (((payload + 3) % UintSize) \div 4) * 4) % UintSize
  BY DEF Bandwidth!BytesPerPacket
<1> HIDE DEF bytes
<1>2. CASE payload + 3 < UintSize
  <2>1. (payload + 3) % UintSize = payload + 3
    BY <1>2, Wrapped
  <2>2. bytes = OnTheBus(payload) % UintSize /\ OnTheBus(payload) \in Nat
    BY <1>1, <2>1 DEF OnTheBus
  <2> QED BY <2>2, Wrapped DEF bytes
<1>3. CASE payload + 3 >= UintSize
  <2>1. (payload + 3) % UintSize \in 0..2
    BY <1>3, Wrapped
  <2>2. bytes = 12 % UintSize
    <3>1. ASSUME NEW n \in 0..2  PROVE 12 + (n \div 4) * 4 = 12
      OBVIOUS
    <3> QED BY <1>1, <2>1, <3>1
  <2>3. bytes \in Nat /\ bytes <= 12
    BY <2>2, Wrapped
  <2>4. OnTheBus(payload) = 12 + UintSize
    BY <1>3 DEF OnTheBus
  <2> QED BY <2>3, <2>4 DEF bytes
<1> QED BY <1>2, <1>3

(* For every payload a guint has, the bandwidth is the time of the packet, *)
(* in eighths of a unit, as long as packet and bandwidth are below the     *)
(* width of a guint: exactly up to S1600, and at S3200 for half a unit     *)
(* less if the packet has an odd number of quadlets, since the division    *)
(* rounds down.  Otherwise the computation wraps and asks for too little.  *)
THEOREM BandwidthIsTime ==
  ASSUME UintSize \in Nat \ {0}, UintSize % 8 = 0,
         NEW payload \in 0..(UintSize - 1), NEW scode \in Bandwidth!Scodes
  PROVE  LET bytes == OnTheBus(payload)
             time == Bandwidth!TimeOfByte(scode) * bytes
             lacks == time - 8 * Bandwidth!CalculateBandwidth(payload, scode)
         IN  IF bytes < UintSize /\ time \div 8 < UintSize
             THEN lacks = IF scode = Bandwidth!S3200 /\ bytes % 8 = 4 THEN 4 ELSE 0
             ELSE lacks >= UintSize
<1> DEFINE bytes == OnTheBus(payload)
           computed == Bandwidth!BytesPerPacket(payload)
           calc == Bandwidth!CalculateBandwidth(payload, scode)
<1>1. /\ computed \in Nat
      /\ bytes < UintSize => computed = bytes
      /\ bytes >= UintSize => computed <= bytes - UintSize
  BY PacketBytes
<1>2. PICK q \in Nat : bytes = 4 * q
  <2>1. bytes = 4 * (3 + (payload + 3) \div 4) /\ 3 + (payload + 3) \div 4 \in Nat
    BY DEF OnTheBus
  <2> QED BY <2>1
<1>3. calc = IF scode <= 2 THEN (computed * Bandwidth!Shift(2 - scode)) % UintSize
                           ELSE computed \div Bandwidth!Shift(scode - 2)
  BY DEF Bandwidth!CalculateBandwidth, Bandwidth!S400
<1>4. scode \in 0..5
  BY DEF Bandwidth!Scodes, Bandwidth!S100, Bandwidth!S3200
<1>5. UintSize >= 8
  OBVIOUS
<1> DEFINE lacks == Bandwidth!TimeOfByte(scode) * bytes - 8 * calc
<1> SUFFICES IF bytes < UintSize /\ (Bandwidth!TimeOfByte(scode) * bytes) \div 8 < UintSize
             THEN lacks = IF scode = 5 /\ bytes % 8 = 4 THEN 4 ELSE 0
             ELSE lacks >= UintSize
  BY DEF Bandwidth!S3200
<1> HIDE DEF bytes, computed, calc
<1>6. CASE scode \in 0..2
  <2>1. PICK k \in {1, 2, 4} : Bandwidth!TimeOfByte(scode) = 8 * k /\ Bandwidth!Shift(2 - scode) = k
    BY <1>6 DEF Bandwidth!Shift, Bandwidth!TimeOfByte, Bandwidth!S100, Bandwidth!S200,
      Bandwidth!S400, Bandwidth!S800, Bandwidth!S1600, Bandwidth!S3200
  <2>2. calc = (computed * k) % UintSize
    BY <1>3, <1>6, <2>1
  <2>3. computed * k \in Nat /\ bytes * k \in Nat
    BY <1>1, <1>2, <2>1
  <2>4. PICK x \in Nat : x = computed * k
    BY <2>3
  <2>5. /\ calc \in Nat /\ (x < UintSize => calc = x) /\ (x >= UintSize => calc <= x - UintSize)
    BY <2>2, <2>4, Wrapped
  <2>6. lacks = 8 * (k * bytes) - 8 * calc /\ (Bandwidth!TimeOfByte(scode) * bytes) \div 8 = k * bytes
    BY <1>2, <2>1
  <2>7. CASE bytes < UintSize
    <3>1. x = k * bytes
      BY <1>1, <1>2, <2>1, <2>4, <2>7
    <3> HIDE DEF lacks
    <3> QED BY <1>6, <2>3, <2>5, <2>6, <2>7, <3>1
  <2>8. CASE bytes >= UintSize
    <3>1. x <= k * bytes - k * UintSize /\ k * UintSize >= UintSize
      BY <1>1, <1>2, <2>1, <2>4, <2>8
    <3>2. calc <= x
      BY <2>5
    <3> HIDE DEF lacks
    <3>3. k * bytes \in Nat /\ k * UintSize \in Nat
      BY <1>2, <2>1
    <3> QED BY <2>5, <2>6, <2>8, <3>1, <3>2, <3>3
  <2> QED BY <1>2, <2>7, <2>8
<1>7. CASE scode = 3
  <2>1. calc = computed \div 2 /\ Bandwidth!TimeOfByte(scode) = 4
    BY <1>3, <1>7 DEF Bandwidth!Shift, Bandwidth!TimeOfByte, Bandwidth!S100, Bandwidth!S200,
      Bandwidth!S400, Bandwidth!S800, Bandwidth!S1600, Bandwidth!S3200
  <2> QED BY <1>1, <1>2, <1>7, <2>1
<1>8. CASE scode = 4
  <2>1. calc = computed \div 4 /\ Bandwidth!TimeOfByte(scode) = 2
    BY <1>3, <1>8 DEF Bandwidth!Shift, Bandwidth!TimeOfByte, Bandwidth!S100, Bandwidth!S200,
      Bandwidth!S400, Bandwidth!S800, Bandwidth!S1600, Bandwidth!S3200
  <2> QED BY <1>1, <1>2, <1>8, <2>1
<1>9. CASE scode = 5
  <2>1. calc = computed \div 8 /\ Bandwidth!TimeOfByte(scode) = 1
    BY <1>3, <1>9 DEF Bandwidth!Shift, Bandwidth!TimeOfByte, Bandwidth!S100, Bandwidth!S200,
      Bandwidth!S400, Bandwidth!S800, Bandwidth!S1600, Bandwidth!S3200
  <2>2. (4 * q) - 8 * ((4 * q) \div 8) = IF (4 * q) % 8 = 4 THEN 4 ELSE 0
    OBVIOUS
  <2>3. (4 * q) \div 8 <= 4 * q
    OBVIOUS
  <2>4. CASE bytes < UintSize
    <3>1. computed = 4 * q
      BY <1>1, <1>2, <2>4
    <3>2. lacks = (4 * q) - 8 * ((4 * q) \div 8)
      BY <1>2, <2>1, <3>1
    <3> QED BY <1>2, <1>9, <2>1, <2>2, <2>3, <2>4, <3>2
  <2>5. CASE bytes >= UintSize
    <3>1. 8 * calc <= computed
      BY <1>1, <2>1
    <3>2. calc \in Nat
      BY <1>1, <2>1
    <3> QED BY <1>1, <1>2, <2>1, <2>5, <3>1, <3>2
  <2> QED BY <1>2, <2>4, <2>5
<1> QED BY <1>4, <1>6, <1>7, <1>8, <1>9

=============================================================================
