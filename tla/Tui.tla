--------------------------------- MODULE Tui ---------------------------------
(***************************************************************************)
(* The text user interface of the appliance (tui.go): the Bubble Tea model *)
(* and its Update.  The event loop handles one message at a time, a key, a *)
(* dhcpResultMsg or a diagResultMsg; each action is one way through Update *)
(* for one message.  A key goes first through the global part of Update,   *)
(* then to the pane that the sidebar shows if it has the focus, and to the *)
(* sidebar otherwise.                                                      *)
(*                                                                         *)
(* The commands Update starts run concurrently: a troubleshooting run ends *)
(* whenever it likes, and the results of two runs arrive in any order.     *)
(* NetworkApply has what "Apply Settings" does to the machine; here it is  *)
(* its answer that counts.                                                 *)
(***************************************************************************)
EXTENDS Integers, Sequences, FiniteSets

CONSTANTS
    NFields,      \* text fields of the static configuration (5)
    NProfiles,    \* troubleshooting profiles (5)
    Targets,      \* what the user may type as a target
    NoTarget,     \* the empty target
    MaxRuns,      \* bound: troubleshooting runs started in one session
    Visited,      \* bound: the sections of the sidebar the user tabs into
    PatientUser,  \* TRUE: the user starts no run while another is under way;
                  \* the code does not ask it
    Stalling,     \* profiles with a check that may never end: the TLS dial of
                  \* sslIssuerTest has no timeout
    Filters,      \* bound, by list: what a text typed as a filter leaves of it;
                  \* {}: the user opens no filter there
    MaxMatches    \* bound: FilterMatchesMsg on their way to the event loop

ASSUME TuiAssumption ==
    /\ NFields \in Nat \ {0}
    /\ NProfiles \in Nat \ {0}
    /\ NoTarget \notin Targets
    /\ MaxRuns \in Nat
    /\ Visited \subseteq 1..3
    /\ PatientUser \in BOOLEAN
    /\ Stalling \subseteq 0..NProfiles-1
    /\ MaxMatches \in Nat

VARIABLES
    alive,                \* the program runs
    ordered,              \* the command given to the machine: reboot, poweroff
    index,                \* model.list.Index(): the section on the screen
    focus,                \* model.focus
    networkMode, networkSelection, networkInputFocus, networkSectionFocus,
    dhcpRunning,
    status,               \* model.status: "none" is the empty text
    sysMgmtSelection, sysMgmtConfirm, sysMgmtConfirmSel,
    profile,              \* model.profiles.Index()
    filter,               \* the filters of model.list and model.profiles
    matches,              \* FilterMatchesMsg on their way: the items that are left
    target,               \* model.input.Value()
    results,              \* model.results
    runs                  \* the runs started so far, in order

netVars  == <<networkMode, networkSelection, networkInputFocus,
              networkSectionFocus, dhcpRunning, status>>
mgmtVars == <<sysMgmtSelection, sysMgmtConfirm, sysMgmtConfirmSel, ordered>>
listVars == <<filter, matches>>
diagVars == <<profile, target, results, runs, listVars>>
vars == <<alive, index, focus, netVars, mgmtVars, diagVars>>

\* The sections of the sidebar.
Network == 1
Diagnostics == 2
Management == 3

\* The items of the two lists: profiles count from 0 up, sections from -1 down.
AllItems == [sidebar  |-> [i \in 1..4 |-> -i],
             profiles |-> [i \in 1..NProfiles |-> i - 1]]

Items == -4..NProfiles-1

\* A filter leaves some of the items of its list, in some order.
ASSUME FiltersAssumption ==
    /\ Filters \in [{"sidebar", "profiles"} -> SUBSET Seq(Items)]
    /\ \A list \in {"sidebar", "profiles"} :
          \A found \in Filters[list] : Len(found) <= Len(AllItems[list])

\* A profile is run by the title of its item.
Run == [profile : Items, target : Targets, ended : BOOLEAN]

\* bubbles/list: no filter, one that is being typed, or one that was accepted; the
\* text of the filter is empty or not; the items it leaves.
Filter == [mode : {"none", "typing", "applied"}, text : BOOLEAN, found : Seq(Items)]

Unfiltered == [mode |-> "none", text |-> FALSE, found |-> << >>]

Visible(list) ==
    IF filter[list].mode = "none" THEN AllItems[list] ELSE filter[list].found

\* Either cursor, whatever items have come to be in its list.
Cursors == 0..3 \cup 0..NProfiles-1

\* What the Results panel shows: nothing yet, "No target specified", the
\* pending rows of a run or its outcome.
Results == [kind : {"none", "noTarget", "pending", "outcome"}, run : 0..MaxRuns]

NoResults == [kind |-> "none", run |-> 0]

UnderWay == {r \in DOMAIN runs : ~runs[r].ended}

TypeOK ==
    /\ alive \in BOOLEAN
    /\ ordered \in {"none", "reboot", "poweroff"}
    /\ index \in Cursors
    /\ focus \in {"sidebar", "content", "profiles", "network", "management"}
    /\ networkMode \in {"DHCP", "Static"}
    /\ networkSelection \in 0..1
    /\ networkInputFocus \in 0..NFields-1
    /\ networkSectionFocus \in {"selector", "fields", "apply"}
    /\ dhcpRunning \in BOOLEAN
    /\ status \in {"none", "requesting", "applied", "dhcpFailed", "staticFailed"}
    /\ sysMgmtSelection \in 0..1
    /\ sysMgmtConfirm \in BOOLEAN
    /\ sysMgmtConfirmSel \in 0..1
    /\ profile \in Cursors
    /\ filter \in [{"sidebar", "profiles"} -> Filter]
    /\ matches \subseteq Seq(Items) /\ Cardinality(matches) <= MaxMatches
    /\ target \in Targets \cup {NoTarget}
    /\ results \in Results
    /\ runs \in Seq(Run)

\* initialModel(), but for alive and ordered.
InitialModel ==
    /\ index = 0
    /\ focus = "sidebar"
    /\ networkMode = "DHCP"
    /\ networkSelection = 0
    /\ networkInputFocus = 0
    /\ networkSectionFocus = "selector"
    /\ dhcpRunning = FALSE
    /\ status = "none"
    /\ sysMgmtSelection = 0
    /\ sysMgmtConfirm = FALSE
    /\ sysMgmtConfirmSel = 0
    /\ profile = 0
    /\ filter = [list \in {"sidebar", "profiles"} |-> Unfiltered]
    /\ matches = {}
    /\ target = NoTarget
    /\ results = NoResults
    /\ runs = << >>

Init == alive = TRUE /\ ordered = "none" /\ InitialModel

\* bubbles/list: the cursor moves by one of the items shown, stops at either end,
\* and can be sent to the first and the last of them.
ListMove(i, n) ==
    {IF i > 0 THEN i - 1 ELSE i, IF i < n - 1 THEN i + 1 ELSE i, 0,
     IF n > 0 THEN n - 1 ELSE 0}

\* A filter with a text is accepted, and given up if it leaves nothing.
TypedText(list) == filter[list].mode = "typing" /\ filter[list].text

Accepted(list) ==
    [filter EXCEPT ![list] = IF @.found = << >> THEN Unfiltered
                             ELSE [@ EXCEPT !.mode = "applied"]]

\* Enter and tab go on from the global part of Update to the list of the profiles,
\* where they accept a filter that is being typed.
AcceptsInProfiles ==
    filter' = IF TypedText("profiles") THEN Accepted("profiles") ELSE filter

\* The pane that handles a key after the global part of Update.
ManagementFocused == alive /\ index = Management /\ focus = "management"
NetworkFocused    == alive /\ index = Network /\ focus = "network"
TargetFocused     == alive /\ index = Diagnostics /\ focus = "content"
ProfilesFocused   == alive /\ index = Diagnostics /\ focus = "profiles"

\* Mutated form: the profile list does not keep its keys from the sidebar.
SidebarOrProfilesFocused ==
    alive /\ ~ManagementFocused /\ ~NetworkFocused /\ ~TargetFocused

SidebarFocused ==
    /\ alive
    /\ ~ManagementFocused /\ ~NetworkFocused
    /\ ~TargetFocused /\ ~ProfilesFocused
-------------------------------------------------------------------------------
(* The sidebar, and the keys that work everywhere *)

SidebarMove ==
    /\ SidebarFocused /\ filter["sidebar"].mode # "typing"
    /\ index' \in ListMove(index, Len(Visible("sidebar")))
    /\ UNCHANGED <<alive, focus, netVars, mgmtVars, diagVars>>

\* ctrl+c anywhere; q or esc where a list has the focus, which quits by itself.
Quit ==
    /\ alive
    /\ alive' = FALSE
    /\ UNCHANGED <<index, focus, netVars, mgmtVars, diagVars>>

TabNetwork ==
    /\ alive /\ index = Network /\ Network \in Visited
    /\ focus' = IF focus = "sidebar" THEN "network" ELSE "sidebar"
    /\ status' = "none"
    /\ UNCHANGED <<alive, index, networkMode, networkSelection,
                   networkInputFocus, networkSectionFocus, dhcpRunning,
                   mgmtVars, diagVars>>

\* Mutated form: tab does not ask for the section.
TabDiagnosticsAnywhere ==
    /\ alive /\ Diagnostics \in Visited
    /\ \/ focus = "sidebar"  /\ focus' = "content"  /\ UNCHANGED filter
       \/ focus = "content"  /\ focus' = "profiles" /\ AcceptsInProfiles
       \/ focus = "profiles" /\ focus' = "sidebar"  /\ UNCHANGED filter
    /\ UNCHANGED <<alive, index, netVars, mgmtVars, profile, matches, target,
                   results, runs>>

\* The key that leads to the profiles also reaches their list.
TabDiagnostics ==
    /\ alive /\ index = Diagnostics /\ Diagnostics \in Visited
    /\ \/ focus = "sidebar"  /\ focus' = "content"  /\ UNCHANGED filter
       \/ focus = "content"  /\ focus' = "profiles" /\ AcceptsInProfiles
       \/ focus = "profiles" /\ focus' = "sidebar"  /\ UNCHANGED filter
    /\ UNCHANGED <<alive, index, netVars, mgmtVars, profile, matches, target,
                   results, runs>>

\* Mutated form: leaving the pane does not close the question.
TabManagementLeavesOpen ==
    /\ alive /\ index = Management /\ Management \in Visited
    /\ focus' = IF focus = "sidebar" THEN "management" ELSE "sidebar"
    /\ UNCHANGED <<alive, index, netVars, mgmtVars, diagVars>>

TabManagement ==
    /\ alive /\ index = Management /\ Management \in Visited
    /\ \/ /\ focus = "sidebar"
          /\ focus' = "management"
          /\ UNCHANGED sysMgmtConfirm
       \/ /\ focus # "sidebar"
          /\ focus' = "sidebar"
          /\ sysMgmtConfirm' = FALSE
    /\ UNCHANGED <<alive, index, netVars, sysMgmtSelection, sysMgmtConfirmSel,
                   ordered, diagVars>>
-------------------------------------------------------------------------------
(* System Management *)

\* up and down choose between two answers while a question stands, and between
\* two actions otherwise: up leads to the first, down to the second.
ManagementMove ==
    /\ ManagementFocused
    /\ \/ /\ sysMgmtConfirm
          /\ sysMgmtConfirmSel' \in 0..1
          /\ UNCHANGED sysMgmtSelection
       \/ /\ ~sysMgmtConfirm
          /\ sysMgmtSelection' \in 0..1
          /\ UNCHANGED sysMgmtConfirmSel
    /\ UNCHANGED <<alive, index, focus, netVars, sysMgmtConfirm, ordered, diagVars>>

\* Mutated form: the answer on offer is the one of the last question.
AskNoDefault ==
    /\ ManagementFocused /\ ~sysMgmtConfirm
    /\ sysMgmtConfirm' = TRUE
    /\ UNCHANGED <<alive, index, focus, netVars, sysMgmtSelection,
                   sysMgmtConfirmSel, ordered, diagVars>>

Ask ==
    /\ ManagementFocused /\ ~sysMgmtConfirm
    /\ sysMgmtConfirm' = TRUE
    /\ sysMgmtConfirmSel' = 1
    /\ UNCHANGED <<alive, index, focus, netVars, sysMgmtSelection, ordered, diagVars>>

\* The command that "Yes" gives to the machine.
OrderOf(selection) == IF selection = 0 THEN "reboot" ELSE "poweroff"

\* Whether the command could be run is ignored; the question stays open.
AnswerYes ==
    /\ ManagementFocused /\ sysMgmtConfirm /\ sysMgmtConfirmSel = 0
    /\ ordered' \in {ordered, OrderOf(sysMgmtSelection)}
    /\ UNCHANGED <<alive, index, focus, netVars, sysMgmtSelection,
                   sysMgmtConfirm, sysMgmtConfirmSel, diagVars>>

\* Enter on "No", or esc or n anywhere in the pane.
AnswerNo ==
    /\ ManagementFocused
    /\ sysMgmtConfirm' = FALSE
    /\ UNCHANGED <<alive, index, focus, netVars, sysMgmtSelection,
                   sysMgmtConfirmSel, ordered, diagVars>>
-------------------------------------------------------------------------------
(* Network Settings *)

\* A key of the pane that leaves mode, selection and dhcpRunning alone.
MovesTo(section, field) ==
    /\ networkSectionFocus' = section
    /\ networkInputFocus' = field
    /\ status' = "none"
    /\ UNCHANGED <<alive, index, focus, networkMode, networkSelection,
                   dhcpRunning, mgmtVars, diagVars>>

SelectionMovesTo(selection) ==
    /\ networkSelection' = selection
    /\ status' = "none"
    /\ UNCHANGED <<alive, index, focus, networkMode, networkInputFocus,
                   networkSectionFocus, dhcpRunning, mgmtVars, diagVars>>

\* Mutated form: one too far.
FieldCount == NFields

\* The index of the last text field: len(m.inputs) - 1.
LastField == NFields - 1

\* Mutated form: the same in either mode.
UpFromButtonAlways ==
    /\ networkSectionFocus = "apply"
    /\ MovesTo("fields", LastField)

\* "up" on the button leads to the fields where there are any.
UpFromButton ==
    /\ networkSectionFocus = "apply"
    /\ \/ networkMode = "Static" /\ MovesTo("fields", LastField)
       \/ networkMode = "DHCP" /\ MovesTo("selector", networkInputFocus)

NetworkUp ==
    /\ NetworkFocused
    /\ \/ UpFromButton
       \/ /\ networkSectionFocus = "selector"
          /\ SelectionMovesTo(IF networkSelection > 0 THEN networkSelection - 1
                              ELSE networkSelection)
       \/ /\ networkSectionFocus = "fields" /\ networkInputFocus = 0
          /\ MovesTo("selector", networkInputFocus)
       \/ /\ networkSectionFocus = "fields" /\ networkInputFocus # 0
          /\ MovesTo("fields", networkInputFocus - 1)

NetworkDown ==
    /\ NetworkFocused
    /\ \/ /\ networkSectionFocus = "selector" /\ networkSelection < 1
          /\ SelectionMovesTo(networkSelection + 1)
       \/ /\ networkSectionFocus = "selector" /\ networkSelection = 1
          /\ MovesTo(IF networkMode = "Static" THEN "fields" ELSE "apply",
                     networkInputFocus)
       \/ /\ networkSectionFocus = "fields" /\ networkInputFocus < LastField
          /\ MovesTo("fields", networkInputFocus + 1)
       \/ /\ networkSectionFocus = "fields" /\ networkInputFocus = LastField
          /\ MovesTo("apply", networkInputFocus)
       \/ /\ networkSectionFocus = "apply"
          /\ MovesTo("apply", networkInputFocus)

SelectMode ==
    /\ NetworkFocused
    /\ networkSectionFocus = "selector"
    /\ \/ networkSelection = 0 /\ networkMode' = "DHCP" /\ UNCHANGED networkInputFocus
       \/ networkSelection = 1 /\ networkMode' = "Static" /\ networkInputFocus' = 0
    /\ UNCHANGED <<alive, index, focus, networkSelection, networkSectionFocus,
                   dhcpRunning, status, mgmtVars, diagVars>>

\* Starts applyDHCP as a command, unless one is under way.
ApplyDHCP ==
    /\ NetworkFocused
    /\ networkSectionFocus = "apply" /\ networkMode = "DHCP" /\ ~dhcpRunning
    /\ dhcpRunning' = TRUE
    /\ status' = "requesting"
    /\ UNCHANGED <<alive, index, focus, networkMode, networkSelection,
                   networkInputFocus, networkSectionFocus, mgmtVars, diagVars>>

\* Runs applyStatic to its end, with the error or success it reports.
ApplyStatic ==
    /\ NetworkFocused
    /\ networkSectionFocus = "apply" /\ networkMode = "Static"
    /\ status' \in {"applied", "staticFailed"}
    /\ UNCHANGED <<alive, index, focus, networkMode, networkSelection,
                   networkInputFocus, networkSectionFocus, dhcpRunning,
                   mgmtVars, diagVars>>

\* A key that changes the value of the field with the cursor, the space included.
EditField ==
    /\ NetworkFocused
    /\ networkMode = "Static" /\ networkSectionFocus = "fields"
    /\ status' = "none"
    /\ UNCHANGED <<alive, index, focus, networkMode, networkSelection,
                   networkInputFocus, networkSectionFocus, dhcpRunning,
                   mgmtVars, diagVars>>

\* dhcpResultMsg, whatever has the focus.  One is on its way exactly while
\* dhcpRunning (NetworkApply!ButtonTruthful).
DHCPResult ==
    /\ alive /\ dhcpRunning
    /\ dhcpRunning' = FALSE
    /\ status' \in {"applied", "dhcpFailed"}
    /\ UNCHANGED <<alive, index, focus, networkMode, networkSelection,
                   networkInputFocus, networkSectionFocus, mgmtVars, diagVars>>
-------------------------------------------------------------------------------
(* The filters of the two lists: bubbles/list, as Update hands it its messages *)

Focused(list) == IF list = "sidebar" THEN SidebarFocused ELSE ProfilesFocused

\* The cursors stay, but for the one of the list, which goes to i.
CursorTo(list, i) ==
    /\ index' = IF list = "sidebar" THEN i ELSE index
    /\ profile' = IF list = "profiles" THEN i ELSE profile

OutsideLists == <<alive, focus, netVars, mgmtVars, target, results, runs>>

\* "/": back to the first item, and what was typed before is still there.
FilterOpen(list) ==
    /\ Focused(list) /\ filter[list].mode # "typing" /\ Filters[list] # {}
    /\ filter' = [filter EXCEPT ![list].mode = "typing",
                    ![list].found = IF filter[list].text THEN @ ELSE AllItems[list]]
    /\ CursorTo(list, 0)
    /\ UNCHANGED <<matches, OutsideLists>>

\* A key that changes the text: a command looks for the items that match it.
FilterType(list) ==
    /\ Focused(list) /\ filter[list].mode = "typing"
    /\ \E text \in BOOLEAN, left \in Filters[list] :
          /\ filter' = [filter EXCEPT ![list].text = text]
          /\ matches' = matches \cup {IF text THEN left ELSE AllItems[list]}
    /\ Cardinality(matches') <= MaxMatches
    /\ UNCHANGED <<index, profile, OutsideLists>>

\* FilterMatchesMsg does not say whose items it has: it goes where keys go.
FilterMatches(found) ==
    /\ alive /\ found \in matches
    /\ matches' = matches \ {found}
    /\ filter' = [list \in DOMAIN filter |->
                    IF Focused(list) /\ filter[list].mode # "none"
                    THEN [filter[list] EXCEPT !.found = found] ELSE filter[list]]
    /\ UNCHANGED <<index, profile, OutsideLists>>

\* up or down; tab or enter in the sidebar, where they do nothing else then.
FilterAccept(list) ==
    /\ Focused(list) /\ TypedText(list)
    /\ filter' = Accepted(list)
    /\ UNCHANGED <<index, profile, matches, OutsideLists>>

\* Mutated form: the cursor may be left beyond the last item.
FilterClearInPlace(list) ==
    /\ Focused(list) /\ filter[list].mode # "none"
    /\ filter' = [filter EXCEPT ![list] = Unfiltered]
    /\ UNCHANGED <<index, profile, matches, OutsideLists>>

\* esc: all items again, with the cursor on one of them.
FilterClear(list) ==
    /\ Focused(list) /\ filter[list].mode # "none"
    /\ filter' = [filter EXCEPT ![list] = Unfiltered]
    /\ LET i == IF list = "sidebar" THEN index ELSE profile
           n == Len(AllItems[list])
       IN  CursorTo(list, IF i < n THEN i ELSE n - 1)
    /\ UNCHANGED <<matches, OutsideLists>>
-------------------------------------------------------------------------------
(* Troubleshooting *)

TypeTarget ==
    /\ TargetFocused
    /\ target' \in Targets \cup {NoTarget}
    /\ UNCHANGED <<alive, index, focus, netVars, mgmtVars, profile, results, runs,
                   listVars>>

ProfileMove ==
    /\ ProfilesFocused /\ filter["profiles"].mode # "typing"
    /\ profile' \in ListMove(profile, Len(Visible("profiles")))
    /\ UNCHANGED <<alive, index, focus, netVars, mgmtVars, target, results, runs,
                   listVars>>

\* Enter without a target.
RunRefused ==
    /\ alive /\ focus = "profiles"
    /\ target = NoTarget
    /\ results' = [kind |-> "noTarget", run |-> 0]
    /\ AcceptsInProfiles
    /\ UNCHANGED <<alive, index, focus, netVars, mgmtVars, profile, target, runs,
                   matches>>

\* model.profiles.SelectedItem() is not nil.
Selected == profile < Len(Visible("profiles"))

\* Enter with a target: the pending rows at once, and a command that runs the
\* checks with the target and profile of now.
StartRun ==
    /\ alive /\ focus = "profiles"
    /\ target # NoTarget /\ Selected
    /\ Len(runs) < MaxRuns
    /\ PatientUser => UnderWay = {}
    /\ runs' = Append(runs, [profile |-> Visible("profiles")[profile + 1],
                             target |-> target, ended |-> FALSE])
    /\ results' = [kind |-> "pending", run |-> Len(runs) + 1]
    /\ AcceptsInProfiles
    /\ UNCHANGED <<alive, index, focus, netVars, mgmtVars, profile, target, matches>>

\* The same with nothing selected: the type assertion panics, and Bubble Tea ends
\* the program.
RunPanics ==
    /\ alive /\ focus = "profiles"
    /\ target # NoTarget /\ ~Selected
    /\ alive' = FALSE
    /\ UNCHANGED <<index, focus, netVars, mgmtVars, diagVars>>

\* Mutated form: the message arrives, its results are not kept.
DiagResultDropped(r) ==
    /\ alive /\ r \in UnderWay
    /\ runs' = [runs EXCEPT ![r].ended = TRUE]
    /\ UNCHANGED <<alive, index, focus, netVars, mgmtVars, profile, target, results,
                   listVars>>

\* Mutated form: the results are kept only if their pane is on the screen.
DiagResultElsewhereLost(r) ==
    /\ alive /\ r \in UnderWay
    /\ runs' = [runs EXCEPT ![r].ended = TRUE]
    /\ results' = IF index = Diagnostics THEN [kind |-> "outcome", run |-> r] ELSE results
    /\ UNCHANGED <<alive, index, focus, netVars, mgmtVars, profile, target,
                   listVars>>

\* diagResultMsg of run r, whatever has the focus and whatever ran since.
DiagResult(r) ==
    /\ alive /\ r \in UnderWay
    /\ runs' = [runs EXCEPT ![r].ended = TRUE]
    /\ results' = [kind |-> "outcome", run |-> r]
    /\ UNCHANGED <<alive, index, focus, netVars, mgmtVars, profile, target,
                   listVars>>
-------------------------------------------------------------------------------
\* The machine carries out the order it was given.
GoesDown ==
    /\ alive /\ ordered # "none"
    /\ alive' = FALSE
    /\ UNCHANGED <<index, focus, netVars, mgmtVars, diagVars>>

\* init starts the program again, at boot or after it ended.
Start ==
    /\ ~alive /\ ordered # "poweroff"
    /\ alive' = TRUE
    /\ ordered' = "none"
    /\ index' = 0
    /\ focus' = "sidebar"
    /\ networkMode' = "DHCP"
    /\ networkSelection' = 0
    /\ networkInputFocus' = 0
    /\ networkSectionFocus' = "selector"
    /\ dhcpRunning' = FALSE
    /\ status' = "none"
    /\ sysMgmtSelection' = 0
    /\ sysMgmtConfirm' = FALSE
    /\ sysMgmtConfirmSel' = 0
    /\ profile' = 0
    /\ filter' = [list \in {"sidebar", "profiles"} |-> Unfiltered]
    /\ matches' = {}
    /\ target' = NoTarget
    /\ results' = NoResults
    /\ runs' = << >>

Next ==
    \/ SidebarMove \/ Quit \/ TabNetwork \/ TabDiagnostics \/ TabManagement
    \/ ManagementMove \/ Ask \/ AnswerYes \/ AnswerNo
    \/ NetworkUp \/ NetworkDown \/ SelectMode \/ ApplyDHCP \/ ApplyStatic
    \/ EditField \/ DHCPResult
    \/ TypeTarget \/ ProfileMove \/ RunRefused \/ StartRun \/ RunPanics
    \/ \E list \in {"sidebar", "profiles"} :
          FilterOpen(list) \/ FilterType(list) \/ FilterAccept(list) \/ FilterClear(list)
    \/ \E found \in matches : FilterMatches(found)
    \/ \E r \in 1..MaxRuns : DiagResult(r)
    \/ GoesDown \/ Start

Spec == Init /\ [][Next]_vars

\* The checks of a profile end, by their timeouts, unless one may stall, and the
\* event loop receives the result.  Nothing is asked of the user.
Fairness == \A r \in 1..MaxRuns :
    WF_vars(DiagResult(r) /\ runs[r].profile \notin Stalling)

FairSpec == Spec /\ Fairness
-------------------------------------------------------------------------------
(* Properties *)

\* The pane with the focus is the pane on the screen: no key of the user reaches
\* a pane that is not shown, and the sidebar never moves under a focused pane
\* (tui.go:633-663 against the dispatch at :666, :706 and :810-824).
FocusMatchesPane ==
    /\ focus = "network" => index = Network
    /\ focus \in {"content", "profiles"} => index = Diagnostics
    /\ focus = "management" => index = Management

\* A question about reboot or power off is on the screen only while the pane can
\* answer it: it does not survive the way back to the sidebar, where the next
\* visit would find it open (tui.go:655-662, :699-700).
QuestionHasFocus == sysMgmtConfirm => ManagementFocused \/ ~alive

\* The cursor of the static fields is in use only in static mode, and whoever
\* comes down from the mode selector starts at the first field: the field loop
\* of Update (tui.go:786) never edits a field the pane does not show.
FieldCursor ==
    /\ networkSectionFocus = "fields" => networkMode = "Static"
    /\ networkSectionFocus = "selector" => networkInputFocus = 0

\* "pending..." rows are those of the run started last, and that run is still
\* under way: none is left behind by a run that has ended (tui.go:603, :623-630).
PendingHasRun ==
    results.kind = "pending" => results.run = Len(runs) /\ results.run \in UnderWay

\* Once no run is under way the panel shows the outcome of the run started last,
\* unless a refusal has taken its place.  For a user who waits: Update does not
\* tell one diagResultMsg from another, so that of two runs the slower one stays
\* (tui.go:603-605).
LatestShown ==
    UnderWay = {} /\ runs # << >> /\ results.kind # "noTarget"
        => results = [kind |-> "outcome", run |-> Len(runs)]

\* Tab and enter are handled by the global part of Update before they reach the
\* list that is being filtered.  While the sidebar is, no pane gets the focus all
\* the same: its cursor is on the first section, which has none (tui.go:633-663).
FilteringKeepsFocus ==
    filter["sidebar"].mode = "typing" => focus = "sidebar" /\ index = 0

\* Enter with a target panics only while the profiles are filtered, whatever items
\* a FilterMatchesMsg that was late put into the list before (tui.go:621).
PanicNeedsFilter ==
    filter["profiles"].mode = "none" => Selected

\* The item that enter asks the list for is one of its profiles, as the assertion
\* "m.profiles.SelectedItem().(item).title" has it (tui.go:621).
SelectedIsProfile ==
    ProfilesFocused /\ target # NoTarget =>
        Selected /\ Visible("profiles")[profile + 1] \in 0..NProfiles-1

\* The machine goes down only as PowerControl says: asked first, with "No" as
\* the answer on offer, then answered "Yes", and as the question said.
Power == INSTANCE PowerControl WITH
    asked  <- IF sysMgmtConfirm THEN OrderOf(sysMgmtSelection) ELSE "nothing",
    answer <- IF sysMgmtConfirm /\ sysMgmtConfirmSel = 0 THEN "Yes" ELSE "No"

KeepsPowerPromise == Power!Spec

\* The pending rows of a run make way for its outcome, unless the run may stall
\* or the program ends: whatever pane the user is in, the result is not lost.
PendingEnds ==
    alive /\ results.kind = "pending" /\ runs[results.run].profile \notin Stalling
        ~> ~alive \/ results.kind # "pending"
===============================================================================
