---------------------------- MODULE ResourceMap ----------------------------
(***************************************************************************)
(* The map of resources and its filter sheet.  The loaded locations, the   *)
(* checked filters and the filtered locations are statics: they outlive    *)
(* the MapViewController, which is made anew whenever the home tab bar is  *)
(* (after every call).  The sheet and its switches belong to one map.      *)
(*                                                                         *)
(* Two actors: the main thread, and Firestore, which answers the query of  *)
(* each map once, at any time, even after the map is gone, for the         *)
(* completion holds it strongly.  Arrays of locations, and that of checked *)
(* filters, are bags here: their order never matters.  filteredTypes is    *)
(* rebuilt from checkedFilters right before its only use and so is not a   *)
(* variable; the sheet's own locsArray is never used.                      *)
(***************************************************************************)
EXTENDS Integers, FiniteSets

CONSTANTS
    Documents,      \* the documents of the collection map_data
    Rows,           \* the rows of the sheet, one per type of resource
    TypeOf,         \* the row of each document; "other" if its type, as it is
                    \* spelt in the document, is not that of a row
    MaxMaps         \* bound on the number of maps made

ASSUME MapAssumption ==
    /\ "other" \notin Rows
    /\ TypeOf \in [Documents -> Rows \cup {"other"}]
    /\ MaxMaps \in Nat

VARIABLES
    locsArray,      \* MapViewController.locsArray
    checkedFilters, \* MapBottomSheetController.checkedFilters
    filtered,       \* MapBottomSheetController.filtered
    filteredLocs,   \* MapBottomSheetController.filteredLocs
    maps,           \* how many maps have been made; the last is on screen
    query,          \* of each map: is its query pending, or how it ended
    pins,           \* the annotations of the map on screen
    switches,       \* the switches of its sheet that are on
    sheet,          \* the sheet is up
    late            \* maps whose query has been answered since the sheet last
                    \* went (history)

statics == <<locsArray, checkedFilters, filtered, filteredLocs>>
vars == <<statics, maps, query, pins, switches, sheet, late>>

Bag == [Documents -> Nat]
NoPins == [d \in Documents |-> 0]

TypeOK ==
    /\ locsArray \in Bag /\ filteredLocs \in Bag /\ pins \in Bag
    /\ checkedFilters \in [Rows -> Nat]
    /\ filtered \in BOOLEAN /\ sheet \in BOOLEAN
    /\ maps \in 0..MaxMaps
    /\ query \in [1..MaxMaps -> {"none", "pending", "loaded", "cached", "failed"}]
    /\ switches \subseteq Rows /\ late \subseteq 1..MaxMaps

Init ==
    /\ locsArray = NoPins /\ filteredLocs = NoPins /\ pins = NoPins
    /\ checkedFilters = [r \in Rows |-> 0]
    /\ filtered = FALSE /\ sheet = FALSE
    /\ maps = 0
    /\ query = [m \in 1..MaxMaps |-> "none"]
    /\ switches = {} /\ late = {}

CheckedRows == {r \in Rows : checkedFilters[r] > 0}

\* The locations of `locs' whose type is that of a row in `rows'.
Filtered(locs, rows) ==
    [d \in Documents |-> IF TypeOf[d] \in rows THEN locs[d] ELSE 0]

-----------------------------------------------------------------------------
\* A new map comes up and asks for the documents.
ViewDidLoad ==
    /\ maps < MaxMaps /\ ~sheet
    /\ maps' = maps + 1
    /\ query' = [query EXCEPT ![maps + 1] = "pending"]
    /\ pins' = NoPins /\ switches' = {}
    /\ UNCHANGED <<statics, sheet, late>>

\* Mutant: the annotations there are stay (no line 102).
Bug_OldPinsStay(m, locs) ==
    pins' = IF m = maps THEN [d \in Documents |-> pins[d] + locs[d]] ELSE pins

\* createAnnotations on map m shows only if m is the one on screen.
CreateAnnotations(m, locs) == pins' = IF m = maps THEN locs ELSE pins

\* Every document comes, or what the cache has while the client is offline, or
\* an error.  What comes is appended.
Answered(m) ==
    \E docs \in SUBSET Documents, how \in {"loaded", "cached", "failed"} :
        /\ how = "loaded" => docs = Documents
        /\ how = "failed" => docs = {}
        /\ query' = [query EXCEPT ![m] = how]
        /\ locsArray' = [d \in Documents |->
                             IF d \in docs THEN locsArray[d] + 1 ELSE locsArray[d]]
        /\ late' = late \cup {m}

\* Mutant: the completion does not look at the filter (no lines 90-92).
Bug_FilterIgnored(m) ==
    /\ query[m] = "pending"
    /\ Answered(m)
    /\ CreateAnnotations(m, locsArray')
    /\ UNCHANGED <<checkedFilters, filtered, filteredLocs, maps, switches, sheet>>

\* Mutant: the pins are made before the documents are appended.
Bug_PinsFirst(m) ==
    /\ query[m] = "pending"
    /\ Answered(m)
    /\ CreateAnnotations(m, IF filtered THEN filteredLocs ELSE locsArray)
    /\ UNCHANGED <<checkedFilters, filtered, filteredLocs, maps, switches, sheet>>

\* Mutant: pins are made only for the map that is the first to load.
Bug_OnlyFirstMap(m) ==
    /\ query[m] = "pending"
    /\ Answered(m)
    /\ IF \A n \in 1..MaxMaps : query[n] # "loaded"
       THEN CreateAnnotations(m, IF filtered THEN filteredLocs ELSE locsArray')
       ELSE UNCHANGED pins
    /\ UNCHANGED <<checkedFilters, filtered, filteredLocs, maps, switches, sheet>>

\* The completion of getDocuments: the pins are made anew, after an error too.
DocumentsArrive(m) ==
    /\ query[m] = "pending"
    /\ Answered(m)
    /\ CreateAnnotations(m, IF filtered THEN filteredLocs ELSE locsArray')
    /\ UNCHANGED <<checkedFilters, filtered, filteredLocs, maps, switches, sheet>>

SwipedUp ==
    /\ maps > 0 /\ ~sheet
    /\ sheet' = TRUE
    /\ UNCHANGED <<statics, maps, query, pins, switches, late>>

\* Mutant: a switch turned off empties the array of filters.
Bug_RemoveAll(r) ==
    /\ sheet
    /\ IF r \notin switches
       THEN /\ checkedFilters' = [checkedFilters EXCEPT ![r] = @ + 1]
            /\ switches' = switches \cup {r}
       ELSE /\ checkedFilters' = [x \in Rows |-> 0]
            /\ switches' = switches \ {r}
    /\ UNCHANGED <<locsArray, filtered, filteredLocs, maps, query, pins, sheet,
                   late>>

\* Mutant: the test of line 17 the wrong way round, the removal unguarded.
Bug_TestInverted(r) ==
    /\ sheet
    /\ IF r \in switches
       THEN /\ checkedFilters' = [checkedFilters EXCEPT ![r] = @ + 1]
            /\ switches' = switches \ {r}
       ELSE /\ checkedFilters' = [checkedFilters EXCEPT ![r] = @ - 1]
            /\ switches' = switches \cup {r}
    /\ UNCHANGED <<locsArray, filtered, filteredLocs, maps, query, pins, sheet,
                   late>>

\* A switch is tapped: its row is appended, or its first occurrence removed.
CellSwitchClicked(r) ==
    /\ sheet
    /\ IF r \notin switches
       THEN /\ checkedFilters' = [checkedFilters EXCEPT ![r] = @ + 1]
            /\ switches' = switches \cup {r}
       ELSE /\ checkedFilters' =
                   [checkedFilters EXCEPT ![r] = IF @ = 0 THEN 0 ELSE @ - 1]
            /\ switches' = switches \ {r}
    /\ UNCHANGED <<locsArray, filtered, filteredLocs, maps, query, pins, sheet,
                   late>>

\* Mutant: the sheet filters what the map shows.
Bug_FiltersThePins ==
    /\ sheet
    /\ sheet' = FALSE /\ late' = {}
    /\ filtered' = TRUE
    /\ filteredLocs' = Filtered(pins, CheckedRows)
    /\ CreateAnnotations(maps, IF CheckedRows = {} THEN locsArray
                                                   ELSE filteredLocs')
    /\ UNCHANGED <<locsArray, checkedFilters, maps, query, switches>>

\* The sheet goes: the filter is applied to what has been loaded so far.
ViewDidDisappear ==
    /\ sheet
    /\ sheet' = FALSE /\ late' = {}
    /\ filtered' = TRUE
    /\ filteredLocs' = Filtered(locsArray, CheckedRows)
    /\ CreateAnnotations(maps, IF CheckedRows = {} THEN locsArray
                                                   ELSE filteredLocs')
    /\ UNCHANGED <<locsArray, checkedFilters, maps, query, switches>>

Next ==
    \/ ViewDidLoad \/ SwipedUp \/ ViewDidDisappear
    \/ \E m \in 1..MaxMaps : DocumentsArrive(m)
    \/ \E r \in Rows : CellSwitchClicked(r)

\* Firestore answers every query in the end.
Fairness == \A m \in 1..MaxMaps : WF_vars(DocumentsArrive(m))

Spec == Init /\ [][Next]_vars
FairSpec == Spec /\ Fairness

-----------------------------------------------------------------------------
\* With the sheet down and a filter set, every pin is of a checked type: not
\* only right after the sheet went, but also when a query is answered later,
\* and on maps made later. (MapViewController 73-96, MapBottomSheetController
\* 42-80)
PinsPassTheFilter ==
    ~sheet /\ filtered /\ CheckedRows # {} =>
        \A d \in Documents : pins[d] > 0 => TypeOf[d] \in CheckedRows

\* And of the documents of a checked type every one that was loaded is pinned,
\* as often: only those are missing that queries answered after the sheet went
\* have brought, for the filter is not applied again until it goes again.
\* (MapViewController 90-92, MapBottomSheetController 42-80)
OnlyLateAnswersAreMissing ==
    ~sheet /\ filtered /\ CheckedRows # {} /\ query[maps] # "pending" =>
        \A d \in Documents : TypeOf[d] \in CheckedRows =>
            locsArray[d] <= pins[d] + Cardinality(late)

\* A switch that is on filters, whatever earlier maps have left behind in the
\* static array. (filterTableCell 13-24)
SwitchFilters == \A r \in switches : checkedFilters[r] > 0

\* A user who never opened the sheet sees every document of the query, in
\* whatever order the queries of the maps are answered. (73-96)
UnfilteredMapIsComplete ==
    ~filtered /\ maps > 0 /\ query[maps] = "loaded" =>
        \A d \in Documents : pins[d] > 0

\* Loading twice pins twice, but never more often than maps were made, whatever
\* filters and maps came in between. (73-109)
PinnedOncePerMap ==
    \A d \in Documents :
        /\ pins[d] <= locsArray[d] /\ filteredLocs[d] <= locsArray[d]
        /\ locsArray[d] <= maps

\* A map that stays on screen comes to show every document, unless a filter is
\* set, its query fails, or the phone is offline. (73-96)
MapFillsUp ==
    \A m \in 1..MaxMaps :
        (maps = m /\ query[m] = "pending")
            ~> (\/ maps # m \/ filtered \/ query[m] \in {"cached", "failed"}
                \/ \A d \in Documents : pins[d] > 0)
=============================================================================
