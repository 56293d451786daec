------------------------------ MODULE TuiProofs ------------------------------
(***************************************************************************)
(* Proofs about Tui, for any number of fields and profiles, any filters    *)
(* and any number of runs.                                                 *)
(*                                                                         *)
(* Few of its invariants are inductive alone.  Where the keys go hangs on  *)
(* the filter of the sidebar (Panes); the cursor of the fields is kept     *)
(* through a time with DHCP (Fields); a filter may return items it hid     *)
(* (Selection); and the rows shown may be those of a run before (Latest).  *)
(* Typed adds to the types how many items a filter can find.               *)
(***************************************************************************)
EXTENDS Tui, FiniteSetTheorems, SequenceTheorems, TLAPS

\* No more items than one of the lists has: a cursor among them is one of Cursors.
Fits(items) == Len(items) <= 4 \/ Len(items) <= NProfiles

\* TypeOK, and what the lists may be filled with.
Typed ==
    /\ TypeOK
    /\ IsFiniteSet(matches)
    /\ \A found \in matches : Fits(found)
    /\ \A list \in {"sidebar", "profiles"} : Fits(filter[list].found)

\* Where the keys go: the sidebar's own filter keeps the other two from breaking.
Panes ==
    /\ FocusMatchesPane
    /\ FilteringKeepsFocus
    /\ QuestionHasFocus

\* Who comes back to DHCP has left the fields by the first of them.
Fields ==
    /\ FieldCursor
    /\ networkMode = "DHCP" => networkInputFocus = 0

\* A filter is given up from the first item, so that all of them may return.
Selection ==
    /\ PanicNeedsFilter
    /\ filter["profiles"].mode = "typing" => profile = 0

\* For a user who starts one run at a time.
Latest ==
    /\ LatestShown
    /\ UnderWay \subseteq {Len(runs)}
-------------------------------------------------------------------------------
(* The lists *)

\* The items of the two lists.
LEMMA AllItemsTyped ==
    /\ AllItems["sidebar"] \in Seq(Items) /\ Len(AllItems["sidebar"]) = 4
    /\ AllItems["profiles"] \in Seq(Items) /\ Len(AllItems["profiles"]) = NProfiles
<1>1. NProfiles \in Nat \ {0}
  BY TuiAssumption
<1>2. [i \in 1..4 |-> -i] \in Seq(Items) /\ Len([i \in 1..4 |-> -i]) = 4
  BY <1>1 DEF Items
<1>3. /\ [i \in 1..NProfiles |-> i - 1] \in Seq(Items)
      /\ Len([i \in 1..NProfiles |-> i - 1]) = NProfiles
  BY <1>1 DEF Items
<1> QED
  BY <1>2, <1>3 DEF AllItems

\* All items of a list are as many as it has.
LEMMA AllItemsFit ==
    ASSUME NEW list \in {"sidebar", "profiles"}
    PROVE  /\ AllItems[list] \in Seq(Items)
           /\ Len(AllItems[list]) \in Nat \ {0}
           /\ Fits(AllItems[list])
<1>1. NProfiles \in Nat \ {0}
  BY TuiAssumption
<1>2. CASE list = "sidebar"
  BY <1>2, AllItemsTyped DEF Fits
<1>3. CASE list = "profiles"
  BY <1>1, <1>3, AllItemsTyped DEF Fits
<1> QED
  BY <1>2, <1>3

\* A filter finds no more items than its list has.
LEMMA FiltersFit ==
    ASSUME NEW list \in {"sidebar", "profiles"}, NEW found \in Filters[list]
    PROVE  found \in Seq(Items) /\ Fits(found)
<1>1. NProfiles \in Nat \ {0}
  BY TuiAssumption
<1>2. found \in Seq(Items) /\ Len(found) <= Len(AllItems[list])
  BY FiltersAssumption
<1>3. Len(found) \in Nat
  BY <1>2
<1>4. Len(AllItems[list]) = 4 \/ Len(AllItems[list]) = NProfiles
  BY AllItemsTyped
<1> QED
  BY <1>1, <1>2, <1>3, <1>4 DEF Fits

\* A key moves the cursor among the items.
LEMMA ListMoveStays ==
    ASSUME NEW i \in Cursors, NEW n \in Nat, n <= 4 \/ n <= NProfiles,
           NEW j \in ListMove(i, n)
    PROVE  j \in Cursors
<1>1. NProfiles \in Nat \ {0}
  BY TuiAssumption
<1>2. i \in Int /\ i >= 0 /\ (i <= 3 \/ i <= NProfiles - 1)
  BY <1>1 DEF Cursors
<1>3. \/ j = i
      \/ j = i - 1 /\ i > 0
      \/ j = i + 1 /\ i < n - 1
      \/ j = 0
      \/ j = n - 1 /\ n > 0
  BY DEF ListMove
<1>4. j \in Int /\ j >= 0 /\ (j <= 3 \/ j <= NProfiles - 1)
  BY <1>1, <1>2, <1>3
<1> QED
  BY <1>1, <1>4 DEF Cursors

\* The items in view are no more than those of the list.
LEMMA VisibleTyped ==
    ASSUME Typed, NEW list \in {"sidebar", "profiles"}
    PROVE  Visible(list) \in Seq(Items) /\ Fits(Visible(list))
<1>1. filter[list].found \in Seq(Items) /\ Fits(filter[list].found)
  BY DEF Typed, TypeOK, Filter
<1>2. AllItems[list] \in Seq(Items) /\ Fits(AllItems[list])
  BY AllItemsFit
<1> QED
  BY <1>1, <1>2 DEF Visible

\* A list without filter is one with nothing found.
LEMMA UnfilteredTyped == Unfiltered \in Filter /\ Fits(Unfiltered.found)
BY DEF Unfiltered, Filter, Fits

\* An accepted filter, or one given up, is a filter.
LEMMA AcceptedTyped ==
    ASSUME Typed, NEW list \in {"sidebar", "profiles"}
    PROVE  /\ Accepted(list) \in [{"sidebar", "profiles"} -> Filter]
           /\ \A l \in {"sidebar", "profiles"} : Fits(Accepted(list)[l].found)
<1>1. Unfiltered \in Filter /\ Fits(Unfiltered.found)
  BY UnfilteredTyped
<1>2. filter \in [{"sidebar", "profiles"} -> Filter]
  BY DEF Typed, TypeOK
<1> QED
  BY <1>1, <1>2 DEF Accepted, Filter, Typed

\* So is what is left of it when the profiles lose the focus.
LEMMA AcceptsTyped ==
    ASSUME Typed, AcceptsInProfiles
    PROVE  /\ filter' \in [{"sidebar", "profiles"} -> Filter]
           /\ \A l \in {"sidebar", "profiles"} : Fits(filter'[l].found)
BY AcceptedTyped DEF AcceptsInProfiles, Typed, TypeOK
-------------------------------------------------------------------------------
(* Type correctness *)

\* The program starts in its types.
LEMMA InitTyped == Init => Typed
<1> SUFFICES ASSUME Init
             PROVE  Typed
  OBVIOUS
<1>1. Unfiltered \in Filter /\ Fits(Unfiltered.found)
  BY UnfilteredTyped
<1>2. filter = [list \in {"sidebar", "profiles"} |-> Unfiltered]
  BY DEF Init, InitialModel
<1>3. /\ filter \in [{"sidebar", "profiles"} -> Filter]
      /\ \A list \in {"sidebar", "profiles"} : Fits(filter[list].found)
  BY <1>1, <1>2
<1>4. matches = {}
  BY DEF Init, InitialModel
<1>5. IsFiniteSet(matches) /\ Cardinality(matches) = 0
  BY <1>4, FS_EmptySet
<1>6. MaxRuns \in Nat /\ MaxMatches \in Nat /\ NFields \in Nat \ {0} /\ NProfiles \in Nat \ {0}
  BY TuiAssumption
<1>7. results \in Results
  BY <1>6 DEF Init, InitialModel, NoResults, Results
<1>8. runs \in Seq(Run)
  BY DEF Init, InitialModel
<1>9. index \in Cursors /\ profile \in Cursors /\ networkInputFocus \in 0..NFields-1
  BY <1>6 DEF Init, InitialModel, Cursors
<1>10. alive \in BOOLEAN /\ dhcpRunning \in BOOLEAN /\ sysMgmtConfirm \in BOOLEAN
  BY Zenon DEF Init, InitialModel
<1>11. /\ ordered \in {"none", "reboot", "poweroff"}
       /\ focus \in {"sidebar", "content", "profiles", "network", "management"}
       /\ networkMode \in {"DHCP", "Static"}
       /\ networkSelection \in 0..1
       /\ networkSectionFocus \in {"selector", "fields", "apply"}
       /\ status \in {"none", "requesting", "applied", "dhcpFailed", "staticFailed"}
       /\ sysMgmtSelection \in 0..1
       /\ sysMgmtConfirmSel \in 0..1
       /\ target \in Targets \cup {NoTarget}
  BY DEF Init, InitialModel
<1> QED
  BY <1>3, <1>4, <1>5, <1>6, <1>7, <1>8, <1>9, <1>10, <1>11 DEF Typed, TypeOK

\* Keys of the panes with no list and no run.
LEMMA SettingsTyped ==
    ASSUME Typed,
           \/ Quit \/ TabNetwork \/ TabManagement
           \/ ManagementMove \/ Ask \/ AnswerYes \/ AnswerNo
           \/ NetworkUp \/ NetworkDown \/ SelectMode \/ ApplyDHCP \/ ApplyStatic
           \/ EditField \/ DHCPResult \/ RunPanics \/ GoesDown
    PROVE  Typed'
<1> USE DEF diagVars, listVars, netVars, mgmtVars
<1>1. UNCHANGED <<index, diagVars>>
  BY DEF Quit, TabNetwork, TabManagement, ManagementMove, Ask, AnswerYes, AnswerNo,
         NetworkUp, NetworkDown, SelectMode, ApplyDHCP, ApplyStatic, EditField,
         DHCPResult, RunPanics, GoesDown, UpFromButton, MovesTo, SelectionMovesTo
<1>2. alive' \in BOOLEAN
  BY Zenon DEF Typed, TypeOK, Quit, TabNetwork, TabManagement, ManagementMove, Ask, AnswerYes, AnswerNo,
         NetworkUp, NetworkDown, SelectMode, ApplyDHCP, ApplyStatic, EditField,
         DHCPResult, RunPanics, GoesDown, UpFromButton, MovesTo, SelectionMovesTo
<1>3. dhcpRunning' \in BOOLEAN
  BY Zenon DEF Typed, TypeOK, Quit, TabNetwork, TabManagement, ManagementMove, Ask, AnswerYes, AnswerNo,
         NetworkUp, NetworkDown, SelectMode, ApplyDHCP, ApplyStatic, EditField,
         DHCPResult, RunPanics, GoesDown, UpFromButton, MovesTo, SelectionMovesTo
<1>4. sysMgmtConfirm' \in BOOLEAN
  BY Zenon DEF Typed, TypeOK, Quit, TabNetwork, TabManagement, ManagementMove, Ask, AnswerYes, AnswerNo,
         NetworkUp, NetworkDown, SelectMode, ApplyDHCP, ApplyStatic, EditField,
         DHCPResult, RunPanics, GoesDown, UpFromButton, MovesTo, SelectionMovesTo
<1>5. /\ ordered' \in {"none", "reboot", "poweroff"}
      /\ focus' \in {"sidebar", "content", "profiles", "network", "management"}
      /\ sysMgmtSelection' \in 0..1
      /\ sysMgmtConfirmSel' \in 0..1
  BY DEF Typed, TypeOK, OrderOf, Quit, TabNetwork, TabManagement, ManagementMove, Ask, AnswerYes, AnswerNo,
         NetworkUp, NetworkDown, SelectMode, ApplyDHCP, ApplyStatic, EditField,
         DHCPResult, RunPanics, GoesDown, UpFromButton, MovesTo, SelectionMovesTo
<1>6. /\ networkMode' \in {"DHCP", "Static"}
      /\ networkSelection' \in 0..1
      /\ networkSectionFocus' \in {"selector", "fields", "apply"}
      /\ status' \in {"none", "requesting", "applied", "dhcpFailed", "staticFailed"}
  BY DEF Typed, TypeOK, Quit, TabNetwork, TabManagement, ManagementMove, Ask, AnswerYes, AnswerNo,
         NetworkUp, NetworkDown, SelectMode, ApplyDHCP, ApplyStatic, EditField,
         DHCPResult, RunPanics, GoesDown, UpFromButton, MovesTo, SelectionMovesTo
<1>7. networkInputFocus' \in 0..NFields-1
  BY TuiAssumption DEF Typed, TypeOK, LastField, Quit, TabNetwork, TabManagement, ManagementMove, Ask, AnswerYes, AnswerNo,
         NetworkUp, NetworkDown, SelectMode, ApplyDHCP, ApplyStatic, EditField,
         DHCPResult, RunPanics, GoesDown, UpFromButton, MovesTo, SelectionMovesTo
<1> QED
  BY <1>1, <1>2, <1>3, <1>4, <1>5, <1>6, <1>7 DEF Typed, TypeOK

\* A program that starts is the one that Init describes.
LEMMA StartIsInit == Start => Init'
BY Zenon DEF Start, Init, InitialModel

\* The keys of the two lists that leave their filters alone.
LEMMA CursorsTyped ==
    ASSUME Typed, SidebarMove \/ ProfileMove
    PROVE  Typed'
<1> USE DEF diagVars, listVars, netVars, mgmtVars
<1>1. ASSUME NEW list \in {"sidebar", "profiles"}
      PROVE  Len(Visible(list)) \in Nat /\ Fits(Visible(list))
  BY <1>1, VisibleTyped
<1>2. CASE SidebarMove
  <2>1. index' \in Cursors
    <3>1. index \in Cursors /\ index' \in ListMove(index, Len(Visible("sidebar")))
      BY <1>2 DEF Typed, TypeOK, SidebarMove
    <3> QED
      BY <1>1, <3>1, ListMoveStays DEF Fits
  <2> QED
    BY <1>2, <2>1 DEF Typed, TypeOK, SidebarMove
<1>3. CASE ProfileMove
  <2>1. profile' \in Cursors
    <3>1. profile \in Cursors /\ profile' \in ListMove(profile, Len(Visible("profiles")))
      BY <1>3 DEF Typed, TypeOK, ProfileMove
    <3> QED
      BY <1>1, <3>1, ListMoveStays DEF Fits
  <2> QED
    BY <1>3, <2>1 DEF Typed, TypeOK, ProfileMove
<1> QED
  BY <1>2, <1>3

\* The filters stay what they may be when FilterMatchesMsg brings any of the items
\* that were found, also those of the other list.
LEMMA FiltersTyped ==
    ASSUME Typed, NEW list \in {"sidebar", "profiles"},
           FilterOpen(list) \/ FilterAccept(list) \/ FilterClear(list)
    PROVE  Typed'
<1> USE DEF diagVars, listVars, netVars, mgmtVars, OutsideLists
<1>1. /\ filter \in [{"sidebar", "profiles"} -> Filter]
      /\ \A l \in {"sidebar", "profiles"} : Fits(filter[l].found)
      /\ index \in Cursors /\ profile \in Cursors
  BY DEF Typed, TypeOK
<1>2. AllItems[list] \in Seq(Items) /\ Fits(AllItems[list]) /\ Len(AllItems[list]) \in Nat \ {0}
  BY AllItemsFit
<1>3. NProfiles \in Nat \ {0} /\ 0 \in Cursors
  BY TuiAssumption DEF Cursors
<1>4. CASE FilterOpen(list)
  <2>1. /\ filter' \in [{"sidebar", "profiles"} -> Filter]
        /\ \A l \in {"sidebar", "profiles"} : Fits(filter'[l].found)
    <3>1. PICK found \in {filter[list].found, AllItems[list]} :
             filter' = [filter EXCEPT ![list].mode = "typing", ![list].found = found]
      BY <1>4 DEF FilterOpen
    <3>2. found \in Seq(Items) /\ Fits(found)
      BY <1>1, <1>2 DEF Filter
    <3> QED
      BY <1>1, <3>1, <3>2 DEF Filter
  <2>2. index' \in Cursors /\ profile' \in Cursors
    BY <1>1, <1>3, <1>4 DEF FilterOpen, CursorTo
  <2> QED
    BY <1>4, <2>1, <2>2 DEF Typed, TypeOK, FilterOpen
<1>5. CASE FilterAccept(list)
  <2>1. /\ filter' \in [{"sidebar", "profiles"} -> Filter]
        /\ \A l \in {"sidebar", "profiles"} : Fits(filter'[l].found)
    BY <1>5, AcceptedTyped DEF FilterAccept
  <2> QED
    BY <1>5, <2>1 DEF Typed, TypeOK, FilterAccept
<1>6. CASE FilterClear(list)
  <2>1. /\ filter' \in [{"sidebar", "profiles"} -> Filter]
        /\ \A l \in {"sidebar", "profiles"} : Fits(filter'[l].found)
    BY <1>1, <1>6, UnfilteredTyped DEF FilterClear
  <2>2. \A i \in Cursors : (IF i < Len(AllItems[list]) THEN i ELSE Len(AllItems[list]) - 1) \in Cursors
    <3>1. Len(AllItems[list]) - 1 \in Cursors
      <4>1. \A n \in Nat \ {0} : n <= 4 \/ n <= NProfiles => n - 1 \in Cursors
        BY <1>3 DEF Cursors
      <4> QED
        BY <1>2, <4>1 DEF Fits
    <3> QED
      BY <3>1
  <2>3. index' \in Cursors /\ profile' \in Cursors
    BY <1>1, <1>6, <2>2 DEF FilterClear, CursorTo
  <2> QED
    BY <1>6, <2>1, <2>3 DEF Typed, TypeOK, FilterClear
<1> QED
  BY <1>4, <1>5, <1>6

\* A search adds one message, whose items fit either list, and its arrival takes
\* one away.
LEMMA MatchesTyped ==
    ASSUME Typed,
           \/ \E list \in {"sidebar", "profiles"} : FilterType(list)
           \/ \E found \in matches : FilterMatches(found)
    PROVE  Typed'
<1> USE DEF diagVars, listVars, netVars, mgmtVars, OutsideLists
<1>1. /\ filter \in [{"sidebar", "profiles"} -> Filter]
      /\ \A l \in {"sidebar", "profiles"} : Fits(filter[l].found)
      /\ matches \subseteq Seq(Items) /\ IsFiniteSet(matches)
      /\ Cardinality(matches) <= MaxMatches /\ MaxMatches \in Nat
      /\ \A found \in matches : Fits(found)
  BY TuiAssumption DEF Typed, TypeOK
<1>2. ASSUME NEW list \in {"sidebar", "profiles"}, FilterType(list)
      PROVE  Typed'
  <2>1. PICK text \in BOOLEAN, left \in Filters[list] :
           /\ filter' = [filter EXCEPT ![list].text = text]
           /\ matches' = matches \cup {IF text THEN left ELSE AllItems[list]}
    BY <1>2 DEF FilterType
  <2>2. /\ filter' \in [{"sidebar", "profiles"} -> Filter]
        /\ \A l \in {"sidebar", "profiles"} : Fits(filter'[l].found)
    BY <1>1, <2>1 DEF Filter
  <2>3. AllItems[list] \in Seq(Items) /\ Fits(AllItems[list]) /\ left \in Seq(Items) /\ Fits(left)
    BY AllItemsFit, FiltersFit
  <2>4. /\ matches' \subseteq Seq(Items) /\ \A found \in matches' : Fits(found)
        /\ IsFiniteSet(matches')
    BY <1>1, <2>1, <2>3, FS_AddElement
  <2>5. Cardinality(matches') <= MaxMatches
    BY <1>2 DEF FilterType
  <2> QED
    BY <1>2, <2>2, <2>4, <2>5 DEF Typed, TypeOK, FilterType
<1>3. ASSUME NEW found \in matches, FilterMatches(found)
      PROVE  Typed'
  <2>1. /\ filter' \in [{"sidebar", "profiles"} -> Filter]
        /\ \A l \in {"sidebar", "profiles"} : Fits(filter'[l].found)
    <3>1. found \in Seq(Items) /\ Fits(found)
      BY <1>1
    <3>2. DOMAIN filter' = {"sidebar", "profiles"}
      BY <1>1, <1>3 DEF FilterMatches
    <3>3. filter' = [list \in {"sidebar", "profiles"} |->
             IF Focused(list) /\ filter[list].mode # "none"
             THEN [filter[list] EXCEPT !.found = found] ELSE filter[list]]
      BY <1>1, <1>3 DEF FilterMatches
    <3>4. \A l \in {"sidebar", "profiles"} :
             /\ [filter[l] EXCEPT !.found = found] \in Filter
             /\ [filter[l] EXCEPT !.found = found].found = found
      BY <1>1, <3>1 DEF Filter
    <3> QED
      BY <1>1, <3>1, <3>3, <3>4
  <2>2. /\ matches' \subseteq Seq(Items) /\ \A other \in matches' : Fits(other)
        /\ IsFiniteSet(matches') /\ Cardinality(matches') <= MaxMatches
    <3>1. matches' = matches \ {found}
      BY <1>3 DEF FilterMatches
    <3>2. /\ IsFiniteSet(matches \ {found})
          /\ Cardinality(matches \ {found}) = Cardinality(matches) - 1
      BY <1>1, FS_RemoveElement
    <3>3. Cardinality(matches) \in Nat
      BY <1>1, FS_CardinalityType
    <3> QED
      BY <1>1, <3>1, <3>2, <3>3
  <2> QED
    BY <1>3, <2>1, <2>2 DEF Typed, TypeOK, FilterMatches
<1> QED
  BY <1>2, <1>3

\* The troubleshooting runs.
LEMMA RunsTyped ==
    ASSUME Typed,
           \/ TabDiagnostics \/ TypeTarget \/ RunRefused \/ StartRun
           \/ \E r \in 1..MaxRuns : DiagResult(r)
    PROVE  Typed'
<1> USE DEF diagVars, listVars, netVars, mgmtVars
<1>1. MaxRuns \in Nat
  BY TuiAssumption
<1>2. CASE TabDiagnostics
  <2>1. /\ filter' \in [{"sidebar", "profiles"} -> Filter]
        /\ \A l \in {"sidebar", "profiles"} : Fits(filter'[l].found)
    BY <1>2, AcceptsTyped DEF TabDiagnostics, Typed, TypeOK
  <2>2. focus' \in {"sidebar", "content", "profiles", "network", "management"}
    BY <1>2 DEF TabDiagnostics
  <2> QED
    BY <1>2, <2>1, <2>2 DEF Typed, TypeOK, TabDiagnostics
<1>3. CASE TypeTarget
  BY <1>3 DEF Typed, TypeOK, TypeTarget
<1>4. CASE RunRefused
  <2>1. /\ filter' \in [{"sidebar", "profiles"} -> Filter]
        /\ \A l \in {"sidebar", "profiles"} : Fits(filter'[l].found)
    BY <1>4, AcceptsTyped DEF RunRefused
  <2>2. results' \in Results
    BY <1>1, <1>4 DEF RunRefused, Results
  <2> QED
    BY <1>4, <2>1, <2>2 DEF Typed, TypeOK, RunRefused
<1>5. CASE StartRun
  <2>1. /\ filter' \in [{"sidebar", "profiles"} -> Filter]
        /\ \A l \in {"sidebar", "profiles"} : Fits(filter'[l].found)
    BY <1>5, AcceptsTyped DEF StartRun
  <2>2. runs \in Seq(Run) /\ Len(runs) \in Nat
    BY DEF Typed, TypeOK
  <2>3. Visible("profiles")[profile + 1] \in Items
    <3>1. Visible("profiles") \in Seq(Items)
      BY VisibleTyped
    <3>2. profile \in Nat /\ profile < Len(Visible("profiles"))
      BY <1>5, TuiAssumption DEF StartRun, Selected, Typed, TypeOK, Cursors
    <3>3. profile + 1 \in 1..Len(Visible("profiles"))
      BY <3>1, <3>2
    <3> QED
      BY <3>1, <3>3, ElementOfSeq
  <2>4. runs' \in Seq(Run)
    <3>1. target \in Targets
      BY <1>5 DEF StartRun, Typed, TypeOK
    <3> QED
      BY <1>5, <2>2, <2>3, <3>1 DEF StartRun, Run
  <2>5. results' \in Results
    BY <1>1, <1>5, <2>2 DEF StartRun, Results
  <2> QED
    BY <1>5, <2>1, <2>4, <2>5 DEF Typed, TypeOK, StartRun
<1>6. ASSUME NEW r \in 1..MaxRuns, DiagResult(r)
      PROVE  Typed'
  <2>1. runs' \in Seq(Run)
    <3>1. runs \in Seq(Run) /\ r \in DOMAIN runs
      BY <1>6 DEF DiagResult, UnderWay, Typed, TypeOK
    <3>2. r \in 1..Len(runs) /\ runs[r] \in Run
      BY <3>1, LenProperties
    <3>3. [runs[r] EXCEPT !.ended = TRUE] \in Run
      BY <3>2 DEF Run
    <3>4. runs' = [runs EXCEPT ![r] = [runs[r] EXCEPT !.ended = TRUE]]
      BY <1>6 DEF DiagResult
    <3> QED
      BY <3>1, <3>2, <3>3, <3>4, ExceptSeq
  <2>2. results' \in Results
    BY <1>1, <1>6 DEF DiagResult, Results
  <2> QED
    BY <1>6, <2>1, <2>2 DEF Typed, TypeOK, DiagResult
<1> QED
  BY <1>2, <1>3, <1>4, <1>5, <1>6

\* Every message keeps the types and the lengths of the lists.
LEMMA NextTyped == Typed /\ [Next]_vars => Typed'
<1> SUFFICES ASSUME Typed, [Next]_vars
             PROVE  Typed'
  OBVIOUS
<1>1. CASE UNCHANGED vars
  BY <1>1 DEF Typed, TypeOK, vars, netVars, mgmtVars, diagVars, listVars
<1>2. Start => Typed'
  <2>1. Init' => Typed'
    BY InitTyped, PTL
  <2> QED
    BY <2>1, StartIsInit
<1>3. ASSUME NEW list \in {"sidebar", "profiles"},
             FilterOpen(list) \/ FilterType(list) \/ FilterAccept(list) \/ FilterClear(list)
      PROVE  Typed'
  BY <1>3, FiltersTyped, MatchesTyped
<1> QED
  BY <1>1, <1>2, <1>3, SettingsTyped, CursorsTyped, MatchesTyped, RunsTyped DEF Next

\* Every variable stays in its type (TypeOK), whatever the user types, the filters
\* leave and the runs find.
THEOREM TypeCorrect == Spec => []TypeOK
<1>1. Typed => TypeOK
  BY DEF Typed
<1> QED
  BY <1>1, InitTyped, NextTyped, PTL DEF Spec
-------------------------------------------------------------------------------
(* The pane with the focus *)

\* Keys reach the sidebar only where it has the focus.
LEMMA SidebarHasFocus ==
    ASSUME TypeOK, FocusMatchesPane, SidebarFocused
    PROVE  focus = "sidebar" /\ alive
BY DEF TypeOK, FocusMatchesPane, SidebarFocused, ManagementFocused, NetworkFocused,
       TargetFocused, ProfilesFocused

\* What a filter of the profiles comes to is nothing to the sidebar.
LEMMA AcceptsElsewhere ==
    ASSUME AcceptsInProfiles
    PROVE  filter'["sidebar"] = filter["sidebar"]
BY DEF AcceptsInProfiles, Accepted

\* The steps that leave sections, focus and question alone.
LEMMA PanesElsewhere ==
    ASSUME Typed, Panes,
           \/ NetworkUp \/ NetworkDown \/ SelectMode \/ ApplyDHCP \/ ApplyStatic
           \/ EditField \/ DHCPResult \/ TypeTarget \/ ProfileMove \/ RunRefused
           \/ StartRun \/ (\E r \in 1..MaxRuns : DiagResult(r))
    PROVE  Panes'
<1>1. filter'["sidebar"] = filter["sidebar"]
  BY AcceptsElsewhere
     DEF diagVars, listVars, NetworkUp, NetworkDown, SelectMode, ApplyDHCP, ApplyStatic,
         EditField, DHCPResult, TypeTarget, ProfileMove, RunRefused, StartRun, DiagResult,
         UpFromButton, MovesTo, SelectionMovesTo
<1>2. UNCHANGED <<alive, index, focus, sysMgmtConfirm>>
  BY DEF mgmtVars, NetworkUp, NetworkDown, SelectMode, ApplyDHCP, ApplyStatic,
         EditField, DHCPResult, TypeTarget, ProfileMove, RunRefused, StartRun, DiagResult,
         UpFromButton, MovesTo, SelectionMovesTo
<1> QED
  BY <1>1, <1>2 DEF Panes, FocusMatchesPane, FilteringKeepsFocus, QuestionHasFocus,
                    ManagementFocused

\* The three keys that move the focus.
LEMMA PanesTab ==
    ASSUME Typed, Panes, TabNetwork \/ TabDiagnostics \/ TabManagement
    PROVE  Panes'
<1> USE DEF Panes, FocusMatchesPane, FilteringKeepsFocus, QuestionHasFocus,
            ManagementFocused, Network, Diagnostics, Management, diagVars, listVars, mgmtVars
<1>1. CASE TabNetwork
  BY <1>1 DEF TabNetwork
<1>2. CASE TabDiagnostics
  <2>1. filter'["sidebar"] = filter["sidebar"]
    BY <1>2, AcceptsElsewhere DEF TabDiagnostics
  <2> QED
    BY <1>2, <2>1 DEF TabDiagnostics
<1>3. CASE TabManagement
  BY <1>3 DEF TabManagement, Typed, TypeOK
<1> QED
  BY <1>1, <1>2, <1>3

\* The keys of System Management, and the ways the program ends.
LEMMA PanesManagement ==
    ASSUME Typed, Panes,
           \/ ManagementMove \/ Ask \/ AnswerYes \/ AnswerNo
           \/ Quit \/ RunPanics \/ GoesDown
    PROVE  Panes'
<1> QED
  BY DEF Panes, FocusMatchesPane, FilteringKeepsFocus, QuestionHasFocus,
         ManagementFocused, diagVars, listVars, mgmtVars, Typed, TypeOK,
         ManagementMove, Ask, AnswerYes, AnswerNo, Quit, RunPanics, GoesDown

\* The keys of the lists: the section changes only under a focused sidebar, and a
\* filter of the sections is opened on the first of them.
LEMMA PanesLists ==
    ASSUME Typed, Panes,
           \/ SidebarMove
           \/ \E list \in {"sidebar", "profiles"} :
                 FilterOpen(list) \/ FilterType(list) \/ FilterAccept(list) \/ FilterClear(list)
           \/ \E found \in matches : FilterMatches(found)
    PROVE  Panes'
<1> USE DEF OutsideLists, mgmtVars
<1>1. UNCHANGED <<alive, focus, sysMgmtConfirm>>
  BY DEF SidebarMove, FilterOpen, FilterType, FilterAccept, FilterClear, FilterMatches
<1>2. SidebarFocused => focus = "sidebar" /\ ~sysMgmtConfirm
  BY SidebarHasFocus DEF Panes, QuestionHasFocus, Typed, ManagementFocused
<1>3. filter \in [{"sidebar", "profiles"} -> Filter]
  BY DEF Typed, TypeOK
<1>4. ASSUME UNCHANGED index,
             filter'["sidebar"].mode = "typing" => filter["sidebar"].mode = "typing"
      PROVE  Panes'
  BY <1>1, <1>4 DEF Panes, FocusMatchesPane, FilteringKeepsFocus, QuestionHasFocus,
                    ManagementFocused
<1>5. ASSUME SidebarFocused, filter'["sidebar"].mode = "typing" => index' = 0
      PROVE  Panes'
  BY <1>1, <1>2, <1>5 DEF Panes, FocusMatchesPane, FilteringKeepsFocus, QuestionHasFocus
<1>6. CASE SidebarMove
  BY <1>5, <1>6 DEF SidebarMove, diagVars, listVars
<1>7. ASSUME NEW list \in {"sidebar", "profiles"}, FilterOpen(list)
      PROVE  Panes'
  <2>1. CASE list = "sidebar"
    BY <1>5, <1>7, <2>1 DEF FilterOpen, Focused, CursorTo
  <2>2. CASE list = "profiles"
    BY <1>3, <1>4, <1>7, <2>2 DEF FilterOpen, CursorTo
  <2> QED
    BY <2>1, <2>2
<1>8. ASSUME NEW list \in {"sidebar", "profiles"}, FilterType(list)
      PROVE  Panes'
  BY <1>3, <1>4, <1>8 DEF FilterType, Filter
<1>9. ASSUME NEW list \in {"sidebar", "profiles"}, FilterAccept(list)
      PROVE  Panes'
  BY <1>3, <1>4, <1>9 DEF FilterAccept, Accepted, Unfiltered, Filter
<1>10. ASSUME NEW list \in {"sidebar", "profiles"}, FilterClear(list)
       PROVE  Panes'
  <2>1. CASE list = "sidebar"
    BY <1>3, <1>5, <1>10, <2>1 DEF FilterClear, Focused, Unfiltered
  <2>2. CASE list = "profiles"
    BY <1>3, <1>4, <1>10, <2>2 DEF FilterClear, CursorTo
  <2> QED
    BY <2>1, <2>2
<1>11. ASSUME NEW found \in matches, FilterMatches(found)
       PROVE  Panes'
  BY <1>3, <1>4, <1>11 DEF FilterMatches, Filter
<1> QED
  BY <1>6, <1>7, <1>8, <1>9, <1>10, <1>11

\* The program starts in the sidebar.
LEMMA InitPanes == Init => Panes
BY DEF Init, InitialModel, Unfiltered, Panes, FocusMatchesPane, FilteringKeepsFocus,
       QuestionHasFocus

\* Every message keeps the focus with the pane.
LEMMA NextPanes == Typed /\ Panes /\ [Next]_vars => Panes'
<1> SUFFICES ASSUME Typed, Panes, [Next]_vars
             PROVE  Panes'
  OBVIOUS
<1>1. CASE UNCHANGED vars
  BY <1>1 DEF vars, mgmtVars, diagVars, listVars, Panes, FocusMatchesPane,
              FilteringKeepsFocus, QuestionHasFocus, ManagementFocused
<1>2. Start => Panes'
  <2>1. Init' => Panes'
    BY InitPanes, PTL
  <2> QED
    BY <2>1, StartIsInit
<1> QED
  BY <1>1, <1>2, PanesElsewhere, PanesTab, PanesManagement, PanesLists DEF Next

\* The focus is with the pane, always.
LEMMA PanesInvariant == Spec => [](Typed /\ Panes)
BY InitTyped, NextTyped, InitPanes, NextPanes, PTL DEF Spec

\* The pane with the focus is the pane on the screen (FocusMatchesPane), for any
\* order of keys, results and FilterMatchesMsg.
THEOREM FocusIsShown == Spec => []FocusMatchesPane
<1>1. Panes => FocusMatchesPane
  BY DEF Panes
<1> QED
  BY <1>1, PanesInvariant, PTL

\* No pane gets the focus while the sidebar is being filtered.
THEOREM FilteringIsInSidebar == Spec => []FilteringKeepsFocus
<1>1. Panes => FilteringKeepsFocus
  BY DEF Panes
<1> QED
  BY <1>1, PanesInvariant, PTL

\* A question about reboot or power off stands only where it can be answered.
THEOREM QuestionIsAnswerable == Spec => []QuestionHasFocus
<1>1. Panes => QuestionHasFocus
  BY DEF Panes
<1> QED
  BY <1>1, PanesInvariant, PTL
-------------------------------------------------------------------------------
(* The cursor of the static fields *)

\* The program starts without static fields.
LEMMA InitFields == Init => Fields
BY DEF Init, InitialModel, Fields, FieldCursor

\* Every message keeps the cursor among the fields.
LEMMA NextFields == Typed /\ Fields /\ [Next]_vars => Fields'
<1> SUFFICES ASSUME Typed, Fields, [Next]_vars
             PROVE  Fields'
  OBVIOUS
<1> USE DEF netVars
<1>1. CASE UNCHANGED <<networkMode, networkInputFocus, networkSectionFocus>>
  BY <1>1 DEF Fields, FieldCursor
<1>2. CASE NetworkUp
  BY <1>2 DEF NetworkUp, UpFromButton, MovesTo, SelectionMovesTo, Fields, FieldCursor,
              Typed, TypeOK
<1>3. CASE NetworkDown
  BY <1>3 DEF NetworkDown, MovesTo, SelectionMovesTo, Fields, FieldCursor, Typed, TypeOK
<1>4. CASE SelectMode
  BY <1>4 DEF SelectMode, Fields, FieldCursor
<1>5. CASE Start
  BY <1>5 DEF Start, Fields, FieldCursor
<1>6. CASE UNCHANGED vars
  BY <1>1, <1>6 DEF vars
<1>7. ASSUME \/ SidebarMove \/ Quit \/ TabDiagnostics \/ TabManagement
             \/ ManagementMove \/ Ask \/ AnswerYes \/ AnswerNo
             \/ TypeTarget \/ ProfileMove \/ RunRefused \/ StartRun \/ RunPanics
             \/ (\E r \in 1..MaxRuns : DiagResult(r)) \/ GoesDown
      PROVE  UNCHANGED netVars
  BY <1>7 DEF SidebarMove, Quit, TabDiagnostics, TabManagement, ManagementMove, Ask,
              AnswerYes, AnswerNo, TypeTarget, ProfileMove, RunRefused, StartRun,
              RunPanics, DiagResult, GoesDown
<1>8. ASSUME \/ \E list \in {"sidebar", "profiles"} :
                   FilterOpen(list) \/ FilterType(list) \/ FilterAccept(list) \/ FilterClear(list)
             \/ \E found \in matches : FilterMatches(found)
      PROVE  UNCHANGED netVars
  BY <1>8 DEF FilterOpen, FilterType, FilterAccept, FilterClear, FilterMatches, OutsideLists
<1>9. CASE TabNetwork \/ ApplyDHCP \/ ApplyStatic \/ EditField \/ DHCPResult
  BY <1>1, <1>9 DEF TabNetwork, ApplyDHCP, ApplyStatic, EditField, DHCPResult
<1> QED
  BY <1>1, <1>2, <1>3, <1>4, <1>5, <1>6, <1>7, <1>8, <1>9 DEF Next

\* The cursor of the static fields is in use in static mode only, and starts at the
\* first of them (FieldCursor), for any number of fields.
THEOREM FieldsAreShown == Spec => []FieldCursor
<1>1. Fields => FieldCursor
  BY DEF Fields
<1> QED
  BY <1>1, InitTyped, NextTyped, InitFields, NextFields, PTL DEF Spec
-------------------------------------------------------------------------------
(* The selected profile *)

\* Giving up a filter of the profiles leaves the cursor on one of them.
LEMMA AcceptedSelection ==
    ASSUME Typed, Selection, filter' = Accepted("profiles"), UNCHANGED profile,
           TypedText("profiles")
    PROVE  Selection'
<1>1. filter["profiles"].mode = "typing" /\ profile = 0
  BY DEF TypedText, Selection
<1>2. filter'["profiles"].mode # "typing"
  BY DEF Accepted, Typed, TypeOK, Filter, Unfiltered
<1>3. NProfiles \in Nat \ {0} /\ Len(AllItems["profiles"]) = NProfiles
  BY TuiAssumption, AllItemsTyped
<1> QED
  BY <1>1, <1>2, <1>3 DEF Selection, PanicNeedsFilter, Selected, Visible

\* Who leaves the list of profiles alone leaves its selection alone.
LEMMA SelectionElsewhere ==
    ASSUME Selection, UNCHANGED profile,
           filter'["profiles"].mode = filter["profiles"].mode
    PROVE  Selection'
BY DEF Selection, PanicNeedsFilter, Selected, Visible

\* A filter that is accepted leaves the selection alone.
LEMMA AcceptsSelection ==
    ASSUME Typed, Selection, AcceptsInProfiles, UNCHANGED profile
    PROVE  Selection'
BY AcceptedSelection, SelectionElsewhere DEF AcceptsInProfiles

\* The program starts with the first profile selected.
LEMMA InitSelection == Init => Selection
<1>1. NProfiles \in Nat \ {0} /\ Len(AllItems["profiles"]) = NProfiles
  BY TuiAssumption, AllItemsTyped
<1> QED
  BY <1>1 DEF Init, InitialModel, Unfiltered, Selection, PanicNeedsFilter, Selected, Visible

\* Every message keeps a profile selected, but for a filter that finds none.
LEMMA NextSelection == Typed /\ Selection /\ [Next]_vars => Selection'
<1> SUFFICES ASSUME Typed, Selection, [Next]_vars
             PROVE  Selection'
  OBVIOUS
<1> USE DEF diagVars, listVars, OutsideLists
<1>1. filter \in [{"sidebar", "profiles"} -> Filter]
  BY DEF Typed, TypeOK
<1>2. NProfiles \in Nat \ {0} /\ Len(AllItems["profiles"]) = NProfiles
  BY TuiAssumption, AllItemsTyped
<1>3. CASE \/ SidebarMove \/ Quit \/ TabNetwork \/ TabManagement
           \/ ManagementMove \/ Ask \/ AnswerYes \/ AnswerNo
           \/ NetworkUp \/ NetworkDown \/ SelectMode \/ ApplyDHCP \/ ApplyStatic
           \/ EditField \/ DHCPResult \/ TypeTarget \/ RunPanics
           \/ (\E r \in 1..MaxRuns : DiagResult(r)) \/ GoesDown \/ UNCHANGED vars
  <2>1. UNCHANGED <<profile, filter>>
    BY <1>3 DEF vars, SidebarMove, TypeTarget, DiagResult, Quit, TabNetwork,
           TabManagement, ManagementMove, Ask, AnswerYes, AnswerNo, NetworkUp, NetworkDown,
           SelectMode, ApplyDHCP, ApplyStatic, EditField, DHCPResult, RunPanics, GoesDown,
           UpFromButton, MovesTo, SelectionMovesTo
  <2> QED
    BY <2>1, SelectionElsewhere
<1>4. CASE TabDiagnostics
  <2>1. AcceptsInProfiles \/ UNCHANGED filter
    BY <1>4 DEF TabDiagnostics
  <2> QED
    BY <1>4, <2>1, AcceptsSelection, SelectionElsewhere DEF TabDiagnostics
<1>5. CASE RunRefused \/ StartRun
  BY <1>5, AcceptsSelection DEF RunRefused, StartRun
<1>6. CASE ProfileMove
  <2>1. CASE filter["profiles"].mode = "none"
    <3>1. Visible("profiles") = AllItems["profiles"] /\ profile \in Nat /\ profile < NProfiles
      BY <1>2, <2>1 DEF Visible, Selection, PanicNeedsFilter, Selected, Typed, TypeOK, Cursors
    <3>2. profile' < NProfiles
      BY <1>2, <1>6, <3>1 DEF ProfileMove, ListMove
    <3> QED
      BY <1>2, <1>6, <2>1, <3>2 DEF ProfileMove, Selection, PanicNeedsFilter, Selected, Visible
  <2>2. CASE filter["profiles"].mode # "none"
    BY <1>6, <2>2 DEF ProfileMove, Selection, PanicNeedsFilter
  <2> QED
    BY <2>1, <2>2
<1>7. ASSUME NEW list \in {"sidebar", "profiles"}, FilterOpen(list)
      PROVE  Selection'
  <2>1. CASE list = "sidebar"
    BY <1>1, <1>7, <2>1, SelectionElsewhere DEF FilterOpen, CursorTo
  <2>2. CASE list = "profiles"
    BY <1>1, <1>7, <2>2 DEF FilterOpen, CursorTo, Filter, Selection, PanicNeedsFilter
  <2> QED
    BY <2>1, <2>2
<1>8. ASSUME NEW list \in {"sidebar", "profiles"}, FilterType(list)
      PROVE  Selection'
  BY <1>1, <1>8, SelectionElsewhere DEF FilterType, Filter
<1>9. ASSUME NEW list \in {"sidebar", "profiles"}, FilterAccept(list)
      PROVE  Selection'
  <2>1. CASE list = "sidebar"
    BY <1>1, <1>9, <2>1, SelectionElsewhere DEF FilterAccept, Accepted
  <2>2. CASE list = "profiles"
    BY <1>9, <2>2, AcceptedSelection DEF FilterAccept
  <2> QED
    BY <2>1, <2>2
<1>10. ASSUME NEW list \in {"sidebar", "profiles"}, FilterClear(list)
       PROVE  Selection'
  <2>1. CASE list = "sidebar"
    BY <1>1, <1>10, <2>1, SelectionElsewhere DEF FilterClear, CursorTo
  <2>2. CASE list = "profiles"
    <3>1. profile \in Int
      BY <1>2 DEF Typed, TypeOK, Cursors
    <3>2. profile' < NProfiles
      BY <1>2, <1>10, <2>2, <3>1 DEF FilterClear, CursorTo
    <3>3. filter'["profiles"] = Unfiltered
      BY <1>1, <1>10, <2>2 DEF FilterClear
    <3> QED
      BY <1>2, <3>2, <3>3 DEF Selection, PanicNeedsFilter, Selected, Visible, Unfiltered
  <2> QED
    BY <2>1, <2>2
<1>11. ASSUME NEW found \in matches, FilterMatches(found)
       PROVE  Selection'
  BY <1>1, <1>11, SelectionElsewhere DEF FilterMatches, Filter
<1>12. Start => Selection'
  <2>1. Init' => Selection'
    BY InitSelection, PTL
  <2> QED
    BY <2>1, StartIsInit
<1> QED
  BY <1>3, <1>4, <1>5, <1>6, <1>7, <1>8, <1>9, <1>10, <1>11, <1>12 DEF Next

\* Enter with a target finds a profile selected unless the profiles are filtered
\* (PanicNeedsFilter), whatever FilterMatchesMsg came late.
THEOREM PanicOnlyByFilter == Spec => []PanicNeedsFilter
<1>1. Selection => PanicNeedsFilter
  BY DEF Selection
<1> QED
  BY <1>1, InitTyped, NextTyped, InitSelection, NextSelection, PTL DEF Spec
-------------------------------------------------------------------------------
(* The results *)

\* The steps that leave runs and results alone.
LEMMA ResultsElsewhere ==
    ASSUME [Next]_vars, ~RunRefused, ~StartRun, ~Start,
           \A r \in 1..MaxRuns : ~DiagResult(r)
    PROVE  UNCHANGED <<results, runs>>
<1> USE DEF diagVars, listVars, OutsideLists
<1>1. ASSUME NEW list \in {"sidebar", "profiles"},
             FilterOpen(list) \/ FilterType(list) \/ FilterAccept(list) \/ FilterClear(list)
      PROVE  UNCHANGED <<results, runs>>
  BY <1>1 DEF FilterOpen, FilterType, FilterAccept, FilterClear
<1>2. ASSUME NEW found \in matches, FilterMatches(found)
      PROVE  UNCHANGED <<results, runs>>
  BY <1>2 DEF FilterMatches
<1> QED
  BY <1>1, <1>2 DEF Next, vars, SidebarMove, TabDiagnostics, TypeTarget, ProfileMove, Quit, TabNetwork,
           TabManagement, ManagementMove, Ask, AnswerYes, AnswerNo, NetworkUp, NetworkDown,
           SelectMode, ApplyDHCP, ApplyStatic, EditField, DHCPResult, RunPanics, GoesDown,
           UpFromButton, MovesTo, SelectionMovesTo

\* A run that starts is the last one, and under way.
LEMMA StartedRun ==
    ASSUME Typed, StartRun
    PROVE  /\ Len(runs') = Len(runs) + 1 /\ runs' # << >>
           /\ UnderWay' = UnderWay \cup {Len(runs')}
           /\ results' = [kind |-> "pending", run |-> Len(runs')]
<1>1. runs \in Seq(Run) /\ Len(runs) \in Nat
  BY DEF Typed, TypeOK
<1>2. PICK p \in {Visible("profiles")[profile + 1]} :
         runs' = Append(runs, [profile |-> p, target |-> target, ended |-> FALSE])
  BY DEF StartRun
<1>3. DEFINE run == [profile |-> p, target |-> target, ended |-> FALSE]
<1>4. /\ DOMAIN runs' = 1..Len(runs) + 1 /\ Len(runs') = Len(runs) + 1
      /\ \A r \in 1..Len(runs) : runs'[r] = runs[r]
      /\ runs'[Len(runs) + 1] = run
  BY <1>1, <1>2
<1>5. ~run.ended
  OBVIOUS
<1>6. UnderWay' = UnderWay \cup {Len(runs')}
  BY <1>1, <1>4, <1>5 DEF UnderWay
<1>7. results' = [kind |-> "pending", run |-> Len(runs')]
  BY <1>4 DEF StartRun
<1>8. runs' # << >>
  BY <1>1, <1>4
<1> QED
  BY <1>4, <1>6, <1>7, <1>8

\* A result ends its own run and no other.
LEMMA EndedRun ==
    ASSUME Typed, NEW r \in 1..MaxRuns, DiagResult(r)
    PROVE  /\ Len(runs') = Len(runs) /\ r \in UnderWay
           /\ UnderWay' = UnderWay \ {r}
           /\ results' = [kind |-> "outcome", run |-> r]
<1>1. runs \in Seq(Run) /\ r \in DOMAIN runs /\ r \in UnderWay
  BY DEF Typed, TypeOK, DiagResult, UnderWay
<1>2. runs' = [runs EXCEPT ![r].ended = TRUE]
  BY DEF DiagResult
<1>3. DOMAIN runs' = DOMAIN runs /\ Len(runs') = Len(runs)
  BY <1>1, <1>2
<1>4. \A q \in DOMAIN runs : runs'[q] = IF q = r THEN [runs[r] EXCEPT !.ended = TRUE] ELSE runs[q]
  BY <1>1, <1>2
<1>5. \A q \in DOMAIN runs : runs[q] \in Run
  BY <1>1
<1>6. [runs[r] EXCEPT !.ended = TRUE].ended = TRUE
  BY <1>1, <1>5 DEF Run
<1>7. UnderWay' = UnderWay \ {r}
  BY <1>3, <1>4, <1>6 DEF UnderWay
<1> QED
  BY <1>1, <1>3, <1>7 DEF DiagResult

\* The program starts without a run.
LEMMA InitResults == Init => PendingHasRun /\ Latest
<1>1. Init => runs = << >> /\ results.kind # "pending"
  BY DEF Init, InitialModel, NoResults
<1>2. runs = << >> => UnderWay = {}
  BY DEF UnderWay
<1> QED
  BY <1>1, <1>2 DEF PendingHasRun, Latest, LatestShown

\* Pending rows stay only while a run is under way.
LEMMA NextPending == Typed /\ PendingHasRun /\ [Next]_vars => PendingHasRun'
<1> SUFFICES ASSUME Typed, PendingHasRun, [Next]_vars
             PROVE  PendingHasRun'
  OBVIOUS
<1>1. CASE RunRefused
  BY <1>1 DEF RunRefused, PendingHasRun
<1>2. CASE StartRun
  BY <1>2, StartedRun DEF PendingHasRun
<1>3. ASSUME NEW r \in 1..MaxRuns, DiagResult(r)
      PROVE  PendingHasRun'
  BY <1>3 DEF DiagResult, PendingHasRun
<1>4. CASE Start
  BY <1>4 DEF Start, NoResults, PendingHasRun
<1>5. CASE UNCHANGED <<results, runs>>
  BY <1>5 DEF PendingHasRun, UnderWay
<1> QED
  BY <1>1, <1>2, <1>3, <1>4, <1>5, ResultsElsewhere

\* "pending..." rows are those of the run started last, which is still under way
\* (PendingHasRun), for any number of runs that overlap.
THEOREM PendingIsUnderWay == Spec => []PendingHasRun
BY InitTyped, NextTyped, InitResults, NextPending, PTL DEF Spec

\* For the patient user every message keeps the latest run the only one.
LEMMA NextLatest == PatientUser /\ Typed /\ Latest /\ [Next]_vars => Latest'
<1> SUFFICES ASSUME PatientUser, Typed, Latest, [Next]_vars
             PROVE  Latest'
  OBVIOUS
<1>1. runs \in Seq(Run) /\ Len(runs) \in Nat
  BY DEF Typed, TypeOK
<1>2. CASE RunRefused
  <2>1. results'.kind = "noTarget" /\ UNCHANGED runs
    BY <1>2 DEF RunRefused
  <2> QED
    BY <2>1 DEF Latest, LatestShown, UnderWay
<1>3. CASE StartRun
  <2>1. UnderWay = {}
    BY <1>3 DEF StartRun
  <2> QED
    BY <1>3, <2>1, StartedRun DEF Latest, LatestShown
<1>4. ASSUME NEW r \in 1..MaxRuns, DiagResult(r)
      PROVE  Latest'
  <2>1. r = Len(runs)
    BY <1>4, EndedRun DEF Latest
  <2> QED
    BY <1>4, <2>1, EndedRun DEF Latest, LatestShown
<1>5. CASE Start
  <2>1. Init' => Latest'
    BY InitResults, PTL
  <2> QED
    BY <1>5, <2>1, StartIsInit
<1>6. CASE UNCHANGED <<results, runs>>
  BY <1>6 DEF Latest, LatestShown, UnderWay
<1> QED
  BY <1>2, <1>3, <1>4, <1>5, <1>6, ResultsElsewhere

\* A user who starts one run at a time sees the outcome of the last one (LatestShown).
THEOREM PatientSeesLatest == PatientUser => (Spec => []LatestShown)
<1> SUFFICES ASSUME PatientUser
             PROVE  Spec => []LatestShown
  OBVIOUS
<1>1. Latest => LatestShown
  BY DEF Latest
<1>2. Typed /\ Latest /\ [Next]_vars => Latest'
  BY NextLatest
<1> QED
  BY <1>1, <1>2, InitTyped, NextTyped, InitResults, PTL DEF Spec
-------------------------------------------------------------------------------
(* Tui implements PowerControl *)

\* What the question on the screen is about, and the answer on offer.
Asked == IF sysMgmtConfirm THEN OrderOf(sysMgmtSelection) ELSE "nothing"
Answer == IF sysMgmtConfirm /\ sysMgmtConfirmSel = 0 THEN "Yes" ELSE "No"

\* Every step is one of the promise, or leaves question and order alone.
LEMMA PowerStep ==
    [Next]_vars => [Power!Next]_<<Asked, Answer, ordered>>
<1> SUFFICES ASSUME [Next]_vars
             PROVE  Power!Next \/ UNCHANGED <<Asked, Answer, ordered>>
  OBVIOUS
<1> USE DEF mgmtVars, Asked, Answer
<1>1. ASSUME UNCHANGED mgmtVars
      PROVE  UNCHANGED <<Asked, Answer, ordered>>
  BY <1>1
<1>2. CASE ManagementMove
  <2>1. CASE sysMgmtConfirm
    <3>1. UNCHANGED <<Asked, ordered>> /\ Asked # "nothing" /\ Answer' \in {"Yes", "No"}
      BY <1>2, <2>1 DEF ManagementMove, OrderOf
    <3> QED
      BY <3>1 DEF Power!Next, Power!Turn
  <2>2. CASE ~sysMgmtConfirm
    BY <1>2, <2>2 DEF ManagementMove
  <2> QED
    BY <2>1, <2>2
<1>3. CASE Ask
  <2>1. /\ Asked = "nothing" /\ Asked' \in {"reboot", "poweroff"}
        /\ Answer' = "No" /\ UNCHANGED ordered
    BY <1>3 DEF Ask, OrderOf
  <2> QED
    BY <2>1 DEF Power!Next, Power!Ask, Power!Orders
<1>4. CASE AnswerYes
  <2>1. /\ Asked \in {"reboot", "poweroff"} /\ Answer = "Yes"
        /\ UNCHANGED <<Asked, Answer>> /\ ordered' \in {ordered, Asked}
    BY <1>4 DEF AnswerYes, OrderOf
  <2> QED
    BY <2>1 DEF Power!Next, Power!Execute, Power!Orders
<1>5. CASE AnswerNo
  <2>1. Asked' = "nothing" /\ Answer' = "No" /\ UNCHANGED ordered
    BY <1>5 DEF AnswerNo
  <2> QED
    BY <2>1 DEF Power!Next, Power!Withdraw
<1>6. CASE TabManagement
  <2>1. CASE focus = "sidebar"
    BY <1>6, <2>1 DEF TabManagement
  <2>2. CASE focus # "sidebar"
    <3>1. Asked' = "nothing" /\ Answer' = "No" /\ UNCHANGED ordered
      BY <1>6, <2>2 DEF TabManagement
    <3> QED
      BY <3>1 DEF Power!Next, Power!Withdraw
  <2> QED
    BY <2>1, <2>2
<1>7. CASE Start
  <2>1. Asked' = "nothing" /\ Answer' = "No" /\ ordered' = "none"
    BY <1>7 DEF Start
  <2> QED
    BY <2>1 DEF Power!Next, Power!Restart
<1>8. ASSUME \/ SidebarMove \/ Quit \/ TabNetwork \/ TabDiagnostics
             \/ NetworkUp \/ NetworkDown \/ SelectMode \/ ApplyDHCP \/ ApplyStatic
             \/ EditField \/ DHCPResult
             \/ TypeTarget \/ ProfileMove \/ RunRefused \/ StartRun \/ RunPanics
             \/ (\E r \in 1..MaxRuns : DiagResult(r)) \/ GoesDown \/ UNCHANGED vars
      PROVE  UNCHANGED mgmtVars
  BY <1>8 DEF vars, SidebarMove, Quit, TabNetwork, TabDiagnostics, NetworkUp, NetworkDown,
              SelectMode, ApplyDHCP, ApplyStatic, EditField, DHCPResult, TypeTarget,
              ProfileMove, RunRefused, StartRun, RunPanics, DiagResult, GoesDown,
              UpFromButton, MovesTo, SelectionMovesTo
<1>9. ASSUME \/ \E list \in {"sidebar", "profiles"} :
                   FilterOpen(list) \/ FilterType(list) \/ FilterAccept(list) \/ FilterClear(list)
             \/ \E found \in matches : FilterMatches(found)
      PROVE  UNCHANGED mgmtVars
  BY <1>9 DEF FilterOpen, FilterType, FilterAccept, FilterClear, FilterMatches, OutsideLists
<1> QED
  BY <1>1, <1>2, <1>3, <1>4, <1>5, <1>6, <1>7, <1>8, <1>9 DEF Next

\* The machine is given an order only after a question with "No" on offer was answered
\* "Yes", and the order the question named (KeepsPowerPromise).
THEOREM KeepsPower == Spec => KeepsPowerPromise
<1>1. Init => Power!Init
  BY DEF Init, InitialModel, Power!Init
<1>2. [Next]_vars => [Power!Next]_<<Asked, Answer, ordered>>
  BY PowerStep
<1> QED
  BY <1>1, <1>2, PTL DEF Spec, KeepsPowerPromise, Power!Spec, Asked, Answer
===============================================================================
