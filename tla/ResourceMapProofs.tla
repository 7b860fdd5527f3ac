------------------------- MODULE ResourceMapProofs -------------------------
(***************************************************************************)
(* Theorems about ResourceMap, for any documents and rows and any number   *)
(* of maps.                                                                *)
(***************************************************************************)
EXTENDS ResourceMap, FiniteSetTheorems, TLAPS

\* With the sheet down, what was filtered is still what the filters select.
FilterInForce ==
    ~sheet /\ filtered =>
        \A d \in Documents : filteredLocs[d] > 0 => TypeOf[d] \in CheckedRows

IInv ==
    /\ TypeOK
    /\ FilterInForce /\ PinsPassTheFilter
    /\ SwitchFilters /\ UnfilteredMapIsComplete

LEMMA FilteredType ==
    ASSUME NEW locs \in Bag, NEW rows
    PROVE  /\ Filtered(locs, rows) \in Bag
           /\ \A d \in Documents : Filtered(locs, rows)[d] > 0 => TypeOf[d] \in rows
BY DEF Filtered, Bag

LEMMA NoPinsType == NoPins \in Bag /\ \A d \in Documents : NoPins[d] = 0
BY DEF NoPins, Bag

\* An answer adds at most one of each document, and one of every document if
\* the query is answered in full.
LEMMA AnsweredBag ==
    ASSUME TypeOK, NEW m \in 1..MaxMaps, Answered(m)
    PROVE  /\ locsArray' \in Bag
           /\ \A d \in Documents : locsArray'[d] \in {locsArray[d], locsArray[d] + 1}
           /\ query'[m] \in {"loaded", "cached", "failed"}
           /\ \A n \in 1..MaxMaps : n # m => query'[n] = query[n]
           /\ query'[m] = "loaded" =>
                  \A d \in Documents : locsArray'[d] = locsArray[d] + 1
<1>1. PICK docs \in SUBSET Documents, how \in {"loaded", "cached", "failed"} :
          /\ how = "loaded" => docs = Documents
          /\ query' = [query EXCEPT ![m] = how]
          /\ locsArray' = [d \in Documents |->
                               IF d \in docs THEN locsArray[d] + 1 ELSE locsArray[d]]
  BY DEF Answered
<1>2. \A d \in Documents : locsArray[d] \in Nat /\ locsArray[d] + 1 \in Nat
  BY DEF TypeOK, Bag
<1>3. query'[m] = how /\ \A n \in 1..MaxMaps : n # m => query'[n] = query[n]
  BY <1>1 DEF TypeOK
<1>4. \A d \in Documents : locsArray'[d] =
          IF d \in docs THEN locsArray[d] + 1 ELSE locsArray[d]
  BY <1>1
<1>5. locsArray' \in Bag
  <2>1. \A d \in Documents :
            (IF d \in docs THEN locsArray[d] + 1 ELSE locsArray[d]) \in Nat
    BY <1>2
  <2> QED
    BY <1>1, <2>1, Zenon DEF Bag
<1> QED
  BY <1>1, <1>3, <1>4, <1>5

LEMMA TypeStep == TypeOK /\ [Next]_vars => TypeOK'
<1> SUFFICES ASSUME TypeOK, [Next]_vars PROVE TypeOK'
  OBVIOUS
<1> USE MapAssumption DEF TypeOK, statics
<1>1. CASE ViewDidLoad
  BY <1>1, NoPinsType DEF ViewDidLoad
<1>2. CASE SwipedUp
  BY <1>2 DEF SwipedUp
<1>3. CASE ViewDidDisappear
  BY <1>3, FilteredType DEF ViewDidDisappear, CreateAnnotations
<1>4. ASSUME NEW m \in 1..MaxMaps, DocumentsArrive(m)
      PROVE  TypeOK'
  <2>1. locsArray' \in Bag
    BY <1>4, AnsweredBag DEF DocumentsArrive
  <2>2. pins' \in Bag
    BY <1>4, <2>1 DEF DocumentsArrive, CreateAnnotations
  <2>3. query' \in [1..MaxMaps -> {"none", "pending", "loaded", "cached", "failed"}]
    BY <1>4 DEF DocumentsArrive, Answered
  <2>4. late' \subseteq 1..MaxMaps
    BY <1>4 DEF DocumentsArrive, Answered
  <2> QED
    BY <1>4, <2>1, <2>2, <2>3, <2>4 DEF DocumentsArrive
<1>5. ASSUME NEW r \in Rows, CellSwitchClicked(r)
      PROVE  TypeOK'
  <2>1. checkedFilters[r] \in Nat
    OBVIOUS
  <2>2. ASSUME NEW n \in Nat PROVE n + 1 \in Nat /\ (n # 0 => n - 1 \in Nat)
    OBVIOUS
  <2>3. checkedFilters' \in [Rows -> Nat]
    <3>1. CASE r \notin switches
      BY <1>5, <2>1, <2>2, <3>1 DEF CellSwitchClicked
    <3>2. CASE r \in switches
      BY <1>5, <2>1, <2>2, <3>2 DEF CellSwitchClicked
    <3> QED
      BY <3>1, <3>2
  <2> QED
    BY <1>5, <2>3 DEF CellSwitchClicked
<1>6. CASE UNCHANGED vars
  BY <1>6 DEF vars
<1> QED
  BY <1>1, <1>2, <1>3, <1>4, <1>5, <1>6 DEF Next

LEMMA InvariantInit == Init => IInv
<1> SUFFICES ASSUME Init PROVE IInv
  OBVIOUS
<1>1. TypeOK
  <2>1. locsArray \in Bag /\ filteredLocs \in Bag /\ pins \in Bag
    BY NoPinsType DEF Init
  <2>2. maps \in 0..MaxMaps
    BY MapAssumption DEF Init
  <2> QED
    BY <2>1, <2>2 DEF Init, TypeOK
<1> QED
  BY <1>1 DEF Init, IInv, FilterInForce, PinsPassTheFilter, SwitchFilters,
              UnfilteredMapIsComplete

LEMMA InvariantStep == IInv /\ [Next]_vars => IInv'
<1> SUFFICES ASSUME IInv, [Next]_vars PROVE IInv'
  OBVIOUS
<1>0. TypeOK /\ TypeOK'
  BY TypeStep DEF IInv
<1> USE <1>0 DEF IInv, statics
<1>1. CASE ViewDidLoad
  <2>1. CheckedRows' = CheckedRows /\ \A d \in Documents : pins'[d] = 0
    BY <1>1, NoPinsType DEF ViewDidLoad, CheckedRows
  <2>2. query'[maps'] = "pending"
    BY <1>1, MapAssumption DEF ViewDidLoad, TypeOK
  <2>3. FilterInForce' /\ PinsPassTheFilter'
    BY <1>1, <2>1 DEF ViewDidLoad, FilterInForce, PinsPassTheFilter
  <2>4. SwitchFilters' /\ UnfilteredMapIsComplete'
    BY <1>1, <2>2 DEF ViewDidLoad, SwitchFilters, UnfilteredMapIsComplete
  <2> QED
    BY <2>3, <2>4
<1>2. CASE SwipedUp
  BY <1>2 DEF SwipedUp, FilterInForce, PinsPassTheFilter, SwitchFilters,
              UnfilteredMapIsComplete
<1>3. CASE ViewDidDisappear
  <2>1. CheckedRows' = CheckedRows
    BY <1>3 DEF ViewDidDisappear, CheckedRows
  <2>2. \A d \in Documents : filteredLocs'[d] > 0 => TypeOf[d] \in CheckedRows
    BY <1>3, FilteredType DEF ViewDidDisappear, TypeOK
  <2>3. CheckedRows # {} => pins' = filteredLocs'
    BY <1>3 DEF ViewDidDisappear, CreateAnnotations
  <2>4. FilterInForce' /\ PinsPassTheFilter'
    BY <2>1, <2>2, <2>3 DEF FilterInForce, PinsPassTheFilter
  <2> QED
    BY <1>3, <2>4 DEF ViewDidDisappear, SwitchFilters, UnfilteredMapIsComplete
<1>4. ASSUME NEW m \in 1..MaxMaps, DocumentsArrive(m)
      PROVE  IInv'
  <2>1. /\ CheckedRows' = CheckedRows
        /\ UNCHANGED <<checkedFilters, filtered, filteredLocs, maps, switches, sheet>>
    BY <1>4 DEF DocumentsArrive, CheckedRows
  <2>2. FilterInForce' /\ SwitchFilters'
    BY <2>1 DEF FilterInForce, SwitchFilters
  <2>3. PinsPassTheFilter'
    BY <1>4, <2>1 DEF DocumentsArrive, CreateAnnotations, FilterInForce,
                      PinsPassTheFilter
  <2>4. UnfilteredMapIsComplete'
    <3>1. CASE m = maps
      <4>1. ASSUME ~filtered, query'[maps] = "loaded", NEW d \in Documents
            PROVE  pins'[d] > 0
        <5>1. locsArray'[d] = locsArray[d] + 1 /\ pins' = locsArray'
          BY <1>4, <2>1, <3>1, <4>1, AnsweredBag DEF DocumentsArrive, CreateAnnotations
        <5>2. locsArray[d] \in Nat
          BY DEF TypeOK, Bag
        <5> QED
          BY <5>1, <5>2
      <4> QED
        BY <2>1, <4>1 DEF UnfilteredMapIsComplete
    <3>2. CASE m # maps
      <4>1. pins' = pins /\ (maps > 0 => query'[maps] = query[maps])
        BY <1>4, <2>1, <3>2, AnsweredBag DEF DocumentsArrive, CreateAnnotations, TypeOK
      <4> QED
        BY <2>1, <4>1 DEF UnfilteredMapIsComplete
    <3> QED
      BY <3>1, <3>2
  <2> QED
    BY <2>2, <2>3, <2>4
<1>5. ASSUME NEW r \in Rows, CellSwitchClicked(r)
      PROVE  IInv'
  <2>1. sheet /\ sheet' /\ UNCHANGED <<filtered, filteredLocs, maps, query, pins>>
    BY <1>5 DEF CellSwitchClicked
  <2>2. SwitchFilters'
    BY <1>5 DEF CellSwitchClicked, SwitchFilters, TypeOK
  <2> QED
    BY <2>1, <2>2 DEF FilterInForce, PinsPassTheFilter, UnfilteredMapIsComplete
<1>6. CASE UNCHANGED vars
  BY <1>6 DEF vars, FilterInForce, PinsPassTheFilter, SwitchFilters,
              UnfilteredMapIsComplete, CheckedRows
<1> QED
  BY <1>1, <1>2, <1>3, <1>4, <1>5, <1>6 DEF Next

LEMMA Invariant == Spec => []IInv
BY InvariantInit, InvariantStep, PTL DEF Spec

\* With the sheet down and a filter set, every pin passes it, whenever queries
\* are answered and however many maps came before (MapViewController 73-96,
\* MapBottomSheetController 42-80).
THEOREM PinsPass == Spec => []PinsPassTheFilter
<1>1. IInv => PinsPassTheFilter
  BY DEF IInv
<1> QED
  BY <1>1, Invariant, PTL

\* A switch that is on has its row among the filters (filterTableCell 13-24).
THEOREM SwitchesFilter == Spec => []SwitchFilters
<1>1. IInv => SwitchFilters
  BY DEF IInv
<1> QED
  BY <1>1, Invariant, PTL

\* Without a filter the map on screen shows every document once its query has
\* been answered (MapViewController 73-96).
THEOREM UnfilteredIsComplete == Spec => []UnfilteredMapIsComplete
<1>1. IInv => UnfilteredMapIsComplete
  BY DEF IInv
<1> QED
  BY <1>1, Invariant, PTL

\* Every variable keeps its type: filters are never counted below zero, whatever
\* switches and filters earlier maps left behind (filterTableCell 13-24).
THEOREM TypeCorrect == Spec => []TypeOK
<1>1. IInv => TypeOK
  BY DEF IInv
<1> QED
  BY <1>1, Invariant, PTL

-----------------------------------------------------------------------------
(* What a filter misses: the sheet applies it to what has been loaded, and   *)
(* each query answered since then adds at most one of each document.         *)

Frozen ==
    /\ sheet \/ filtered => maps > 0
    /\ \A m \in late : query[m] \notin {"none", "pending"}
    /\ \A m \in 1..MaxMaps : m > maps => query[m] = "none"
    /\ ~sheet /\ filtered =>
           \A d \in Documents : TypeOf[d] \in CheckedRows =>
               locsArray[d] <= filteredLocs[d] + Cardinality(late)
    /\ ~sheet /\ filtered /\ CheckedRows # {} /\ query[maps] # "pending" =>
           pins = filteredLocs

LEMMA LateFinite ==
    ASSUME TypeOK
    PROVE  IsFiniteSet(late) /\ Cardinality(late) \in Nat
<1>1. IsFiniteSet(1..MaxMaps)
  BY FS_Interval, MapAssumption
<1>2. IsFiniteSet(late)
  BY <1>1, FS_Subset DEF TypeOK
<1> QED
  BY <1>2, FS_CardinalityType

LEMMA FrozenInit == Init => Frozen
BY DEF Init, Frozen

LEMMA FrozenStep == TypeOK /\ TypeOK' /\ Frozen /\ [Next]_vars => Frozen'
<1> SUFFICES ASSUME TypeOK, TypeOK', Frozen, [Next]_vars PROVE Frozen'
  OBVIOUS
<1>a. /\ \A d \in Documents : locsArray[d] \in Nat /\ filteredLocs[d] \in Nat
      /\ maps \in Nat /\ Cardinality(late) \in Nat
  BY LateFinite, MapAssumption DEF TypeOK, Bag
<1> USE DEF statics
<1>1. CASE ViewDidLoad
  <2>1. CheckedRows' = CheckedRows /\ maps' = maps + 1 /\ maps' \in 1..MaxMaps
    BY <1>1, <1>a, MapAssumption DEF ViewDidLoad, CheckedRows
  <2>2. query'[maps'] = "pending"
    BY <1>1, <2>1 DEF ViewDidLoad, TypeOK
  <2>3. query[maps + 1] = "none"
    BY <1>1, <1>a, <2>1 DEF Frozen
  <2>4. \A m \in 1..MaxMaps : m # maps + 1 => query'[m] = query[m]
    BY <1>1 DEF ViewDidLoad, TypeOK
  <2>5. /\ \A m \in late : query'[m] \notin {"none", "pending"}
        /\ \A m \in 1..MaxMaps : m > maps' => query'[m] = "none"
    BY <1>a, <2>1, <2>3, <2>4 DEF Frozen, TypeOK
  <2>6. UNCHANGED <<locsArray, filtered, filteredLocs, sheet, late>>
    BY <1>1 DEF ViewDidLoad
  <2> QED
    BY <1>a, <2>1, <2>2, <2>5, <2>6 DEF Frozen
<1>2. ASSUME NEW m \in 1..MaxMaps, DocumentsArrive(m)
      PROVE  Frozen'
  <2>1. /\ CheckedRows' = CheckedRows /\ late' = late \cup {m} /\ m \notin late
        /\ UNCHANGED <<checkedFilters, filtered, filteredLocs, maps, switches, sheet>>
    BY <1>2 DEF DocumentsArrive, Answered, CheckedRows, Frozen
  <2>0. m <= maps
    BY <1>2, <1>a DEF DocumentsArrive, Frozen
  <2>2. Cardinality(late') = Cardinality(late) + 1
    BY <2>1, LateFinite, FS_AddElement
  <2>3. /\ \A d \in Documents : locsArray'[d] \in {locsArray[d], locsArray[d] + 1}
        /\ query'[m] \notin {"none", "pending"}
        /\ \A n \in 1..MaxMaps : n # m => query'[n] = query[n]
    BY <1>2, AnsweredBag DEF DocumentsArrive
  <2>4. /\ \A n \in late' : query'[n] \notin {"none", "pending"}
        /\ \A n \in 1..MaxMaps : n > maps => query'[n] = "none"
    BY <1>a, <2>0, <2>1, <2>3 DEF Frozen, TypeOK
  <2>5. ASSUME ~sheet, filtered, NEW d \in Documents, TypeOf[d] \in CheckedRows
        PROVE  locsArray'[d] <= filteredLocs[d] + Cardinality(late')
    <3>1. locsArray[d] <= filteredLocs[d] + Cardinality(late)
      BY <2>5 DEF Frozen
    <3> QED
      BY <1>a, <2>2, <2>3, <3>1
  <2>6. ASSUME ~sheet, filtered, CheckedRows # {}, query'[maps] # "pending"
        PROVE  pins' = filteredLocs
    <3>1. CASE m = maps
      BY <1>2, <2>6, <3>1 DEF DocumentsArrive, CreateAnnotations
    <3>2. CASE m # maps
      <4>1. maps \in 1..MaxMaps
        BY <2>6, <1>a DEF Frozen, TypeOK
      <4>2. query[maps] # "pending" /\ pins' = pins
        BY <1>2, <2>3, <2>6, <3>2, <4>1 DEF DocumentsArrive, CreateAnnotations
      <4> QED
        BY <2>6, <4>2 DEF Frozen
    <3> QED
      BY <3>1, <3>2
  <2>7. (sheet \/ filtered) => maps > 0
    BY DEF Frozen
  <2> QED
    BY <2>1, <2>4, <2>5, <2>6, <2>7 DEF Frozen
<1>3. CASE ViewDidDisappear
  <2>1. CheckedRows' = CheckedRows /\ late' = {} /\ Cardinality(late') = 0
    BY <1>3, FS_EmptySet DEF ViewDidDisappear, CheckedRows
  <2>2. \A d \in Documents : TypeOf[d] \in CheckedRows => filteredLocs'[d] = locsArray[d]
    BY <1>3 DEF ViewDidDisappear, Filtered
  <2>3. CheckedRows # {} => pins' = filteredLocs'
    BY <1>3 DEF ViewDidDisappear, CreateAnnotations
  <2> QED
    BY <1>3, <1>a, <2>1, <2>2, <2>3 DEF ViewDidDisappear, Frozen
<1>4. CASE SwipedUp
  BY <1>4 DEF SwipedUp, Frozen
<1>5. ASSUME NEW r \in Rows, CellSwitchClicked(r)
      PROVE  Frozen'
  BY <1>5 DEF CellSwitchClicked, Frozen
<1>6. CASE UNCHANGED vars
  BY <1>6 DEF vars, Frozen, CheckedRows
<1> QED
  BY <1>1, <1>2, <1>3, <1>4, <1>5, <1>6 DEF Next

\* Of the documents of a checked type a filtered map misses only what queries
\* answered since the sheet went have brought (MapViewController 90-92,
\* MapBottomSheetController 42-80).
THEOREM LateAnswersAreMissing == Spec => []OnlyLateAnswersAreMissing
<1>1. Frozen => OnlyLateAnswersAreMissing
  BY DEF Frozen, OnlyLateAnswersAreMissing
<1>2. Spec => []Frozen
  BY TypeCorrect, FrozenInit, FrozenStep, PTL DEF Spec
<1> QED
  BY <1>1, <1>2, PTL

-----------------------------------------------------------------------------
(* A document is loaded once per map: each map has one query, answered once. *)

Outstanding == {m \in 1..MaxMaps : query[m] = "pending"}

Counted ==
    /\ \A m \in 1..MaxMaps : m > maps => query[m] = "none"
    /\ \A d \in Documents : locsArray[d] + Cardinality(Outstanding) <= maps
    /\ \A d \in Documents : pins[d] <= locsArray[d] /\ filteredLocs[d] <= locsArray[d]

LEMMA OutstandingFinite ==
    TypeOK => IsFiniteSet(Outstanding) /\ Cardinality(Outstanding) \in Nat
<1> SUFFICES ASSUME TypeOK PROVE IsFiniteSet(Outstanding)
  BY FS_CardinalityType
<1>1. IsFiniteSet(1..MaxMaps)
  BY FS_Interval, MapAssumption
<1> QED
  BY <1>1, FS_Subset DEF Outstanding

LEMMA CountedInit == Init => Counted
<1> SUFFICES ASSUME Init PROVE Counted
  OBVIOUS
<1>1. Outstanding = {}
  BY DEF Init, Outstanding
<1>2. Cardinality(Outstanding) = 0
  BY <1>1, FS_EmptySet
<1> QED
  BY <1>2 DEF Init, Counted, NoPins

LEMMA CountedStep == TypeOK /\ TypeOK' /\ Counted /\ [Next]_vars => Counted'
<1> SUFFICES ASSUME TypeOK, TypeOK', Counted, [Next]_vars PROVE Counted'
  OBVIOUS
<1>a. /\ \A d \in Documents : locsArray[d] \in Nat /\ pins[d] \in Nat
      /\ \A d \in Documents : filteredLocs[d] \in Nat /\ locsArray'[d] \in Nat
      /\ maps \in Nat /\ Cardinality(Outstanding) \in Nat
  BY OutstandingFinite, MapAssumption DEF TypeOK, Bag
<1> USE DEF statics
<1>1. CASE ViewDidLoad
  <2>1. maps + 1 \in 1..MaxMaps /\ query[maps + 1] = "none"
    BY <1>1, <1>a, MapAssumption DEF ViewDidLoad, Counted, TypeOK
  <2>2. Outstanding' = Outstanding \cup {maps + 1} /\ maps + 1 \notin Outstanding
    BY <1>1, <2>1 DEF ViewDidLoad, Outstanding, TypeOK
  <2>3. Cardinality(Outstanding)' = Cardinality(Outstanding) + 1
    BY <2>2, OutstandingFinite, FS_AddElement
  <2>4. \A m \in 1..MaxMaps : m > maps + 1 => query'[m] = "none"
    BY <1>1, <1>a DEF ViewDidLoad, Counted, TypeOK
  <2> QED
    BY <1>1, <1>a, <2>3, <2>4, NoPinsType DEF ViewDidLoad, Counted
<1>2. ASSUME NEW m \in 1..MaxMaps, DocumentsArrive(m)
      PROVE  Counted'
  <2>1. /\ m \in Outstanding /\ Outstanding' = Outstanding \ {m}
        /\ UNCHANGED <<filteredLocs, maps>>
    BY <1>2, AnsweredBag DEF DocumentsArrive, Outstanding
  <2>2. Cardinality(Outstanding)' = Cardinality(Outstanding) - 1
    BY <2>1, OutstandingFinite, FS_RemoveElement
  <2>3. \A d \in Documents : locsArray'[d] \in {locsArray[d], locsArray[d] + 1}
    BY <1>2, AnsweredBag DEF DocumentsArrive
  <2>4. \A d \in Documents : pins'[d] \in {pins[d], filteredLocs[d], locsArray'[d]}
    BY <1>2 DEF DocumentsArrive, CreateAnnotations
  <2>5. \A n \in 1..MaxMaps : n > maps => query'[n] = "none"
    BY <1>2, AnsweredBag DEF DocumentsArrive, Counted
  <2> QED
    BY <1>a, <2>1, <2>2, <2>3, <2>4, <2>5 DEF Counted
<1>3. CASE ViewDidDisappear
  <2>1. UNCHANGED <<locsArray, maps, query>> /\ Outstanding' = Outstanding
    BY <1>3 DEF ViewDidDisappear, Outstanding
  <2>2. \A d \in Documents : filteredLocs'[d] \in {0, locsArray[d]}
    BY <1>3 DEF ViewDidDisappear, Filtered
  <2>3. pins' \in {locsArray, filteredLocs'}
    BY <1>3 DEF ViewDidDisappear, CreateAnnotations
  <2> QED
    BY <1>a, <2>1, <2>2, <2>3 DEF Counted
<1>4. CASE UNCHANGED <<locsArray, filteredLocs, maps, query, pins>>
  BY <1>4 DEF Counted, Outstanding
<1> QED
  BY <1>1, <1>2, <1>3, <1>4 DEF Next, SwipedUp, CellSwitchClicked, vars

\* No document is pinned more often than maps were made (MapViewController
\* 73-109).
THEOREM PinnedOnce == Spec => []PinnedOncePerMap
<1>1. TypeOK /\ Counted => PinnedOncePerMap
  <2> SUFFICES ASSUME TypeOK, Counted, NEW d \in Documents
               PROVE  /\ pins[d] <= locsArray[d] /\ filteredLocs[d] <= locsArray[d]
                      /\ locsArray[d] <= maps
    BY DEF PinnedOncePerMap
  <2>1. locsArray[d] \in Nat /\ maps \in Nat /\ Cardinality(Outstanding) \in Nat
    BY OutstandingFinite, MapAssumption DEF TypeOK, Bag
  <2> QED
    BY <2>1 DEF Counted
<1>2. Spec => []Counted
  BY TypeCorrect, CountedInit, CountedStep, PTL DEF Spec
<1> QED
  BY <1>1, <1>2, TypeCorrect, PTL
=============================================================================
