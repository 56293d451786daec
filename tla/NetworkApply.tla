----------------------------- MODULE NetworkApply -----------------------------
(***************************************************************************)
(* Who changes the network settings of the appliance, and when.            *)
(*                                                                         *)
(*   - main() (main.go) runs applyDHCP to its end before the TUI starts;   *)
(*   - "Apply Settings" in DHCP mode runs applyDHCP in a goroutine of its  *)
(*     own, whose result returns to the event loop as a dhcpResultMsg;     *)
(*   - "Apply Settings" in static mode runs applyStatic inside Update, so  *)
(*     the event loop is blocked, but a goroutine is not;                  *)
(*   - udhcpc is a process: it configures the interface on its own, and    *)
(*     may outlive the program that started it;                            *)
(*   - init respawns the program whenever it ends (inittab).               *)
(*                                                                         *)
(* Each command run by applyDHCP and applyStatic is one step, so that the  *)
(* goroutine, the event loop and udhcpc interleave between any two.  Every *)
(* command may fail.  Some failures are reported, others the code discards *)
(* ("_, _ = exec.Command"): which of these the machine may still suffer    *)
(* from is kept in ignored, for the properties alone.                      *)
(***************************************************************************)
EXTENDS NetworkHost

CONSTANTS
    Cmds,         \* goroutines that may run a DHCP command
    Main,         \* the main goroutine, as a caller of applyDHCP
    Orphans,      \* udhcpc processes whose program has ended; bound: so many at once
    Faults,       \* the commands that may fail
    PatientUser   \* TRUE: the user never applies a static configuration while
                  \* the button reads "Requesting..."; the code does not ask it

\* The failures the code discards, and all of them.  "killall" stands for a udhcpc
\* that is still there when killall returns: killall failed, or its signal is not
\* acted on yet.
Discarded == {"killall", "flush", "link", "stateFile"}
FaultKinds == Discarded \cup {"eth0", "mask", "addr", "route", "resolv"}

ASSUME ConstantsAssumption ==
    /\ Main \notin Cmds
    /\ Orphans \cap (Cmds \cup {Main}) = {}
    /\ Faults \subseteq FaultKinds
    /\ PatientUser \in BOOLEAN

Threads == Cmds \cup {Main}

VARIABLES
    phase,        \* "main" and "boot": in main(); "tui": in tui(); "exited"
    dhcp,         \* how far the call of applyDHCP of each thread has come
    clients,      \* the running udhcpc processes, by the thread they serve
    host,         \* the machine (NetworkHost)
    networkMode,  \* model.networkMode
    dhcpRunning,  \* model.dhcpRunning
    status,       \* model.status
    static,       \* how far applyStatic has come, inside Update
    ignored       \* auxiliary: the discarded failures not made up for since by the
                  \* same command

uiVars == <<networkMode, dhcpRunning, status, static>>
vars == <<phase, dhcp, clients, host, networkMode, dhcpRunning, status, static, ignored>>

\* "killall", "flush", "link", "udhcpc", "write": the command to run next.  "running":
\* blocked in cmd.Run().  "ok", "err": applyDHCP has returned; for a goroutine
\* the dhcpResultMsg is on its way to the event loop.
Stages == {"idle", "killall", "flush", "link", "udhcpc", "running", "write", "ok", "err"}
StaticStages == {"idle", "flush", "addr", "route", "resolv", "stateFile"}
Statuses == {"", "requesting", "applied", "dhcpFailed", "staticFailed"}

TypeOK ==
    /\ phase \in {"main", "boot", "tui", "exited"}
    /\ dhcp \in [Threads -> Stages]
    /\ clients \subseteq Threads \cup Orphans
    /\ host \in HostState
    /\ networkMode \in Schemes
    /\ dhcpRunning \in BOOLEAN
    /\ status \in Statuses
    /\ static \in StaticStages
    /\ ignored \subseteq Discarded

\* The event loop reads its next message.
LoopFree == phase = "tui" /\ static = "idle"

Init ==
    /\ phase = "main"
    /\ dhcp = [t \in Threads |-> "idle"]
    /\ clients = {}
    /\ host = FreshHost
    /\ networkMode = "DHCP"
    /\ dhcpRunning = FALSE
    /\ status = ""
    /\ static = "idle"
    /\ ignored = {}

Succeeds(command) == ignored' = ignored \ {command}

\* The command fails, and nobody looks.
Unnoticed(command) == command \in Faults /\ ignored' = ignored \cup {command}

\* "ip link set eth0 up", or LinkSetUp.
SetLinkUp ==
    \/ Succeeds("link") /\ host' = LinkUp(host)
    \/ Unnoticed("link") /\ UNCHANGED host
-------------------------------------------------------------------------------
(* main(), before the TUI *)

MainLinkUp ==
    /\ phase = "main"
    /\ phase' = "boot"
    /\ dhcp' = [dhcp EXCEPT ![Main] = "killall"]
    /\ SetLinkUp
    /\ UNCHANGED <<clients, uiVars>>

\* No eth0 (yet): main logs it and returns, and init starts it again.
MainNoLink ==
    /\ phase = "main"
    /\ "eth0" \in Faults
    /\ phase' = "exited"
    /\ UNCHANGED <<dhcp, clients, host, uiVars, ignored>>

\* main() ignores what applyDHCP returned and starts the TUI on initialModel().
MainStartsTui ==
    /\ phase = "boot"
    /\ dhcp[Main] \in {"ok", "err"}
    /\ phase' = "tui"
    /\ dhcp' = [dhcp EXCEPT ![Main] = "idle"]
    /\ networkMode' = "DHCP"
    /\ dhcpRunning' = FALSE
    /\ status' = ""
    /\ static' = "idle"
    /\ UNCHANGED <<clients, host, ignored>>
-------------------------------------------------------------------------------
(* applyDHCP, in thread t *)

\* Mutated form: no "killall -q udhcpc" first.
NoKillAll(t) ==
    /\ dhcp[t] = "killall"
    /\ dhcp' = [dhcp EXCEPT ![t] = "flush"]
    /\ UNCHANGED <<phase, clients, host, uiVars, ignored>>

\* "killall -q udhcpc": a killed udhcpc ends the cmd.Run() that waited for it,
\* with an error.  One that is left goes on, with its script or with its request.
KillAll(t) ==
    /\ dhcp[t] = "killall"
    /\ \E left \in SUBSET clients :
          /\ IF left = {} THEN Succeeds("killall") ELSE Unnoticed("killall")
          /\ clients' = left
          /\ dhcp' = [u \in Threads |-> CASE u = t -> "flush"
                                         [] u # t /\ u \in clients \ left -> "err"
                                         [] OTHER -> dhcp[u]]
    /\ UNCHANGED <<phase, host, uiVars>>

\* Mutated form: no "ip addr flush".
NoFlush(t) ==
    /\ dhcp[t] = "flush"
    /\ dhcp' = [dhcp EXCEPT ![t] = "link"]
    /\ UNCHANGED <<phase, clients, host, uiVars, ignored>>

Flush(t) ==
    /\ dhcp[t] = "flush"
    /\ dhcp' = [dhcp EXCEPT ![t] = "link"]
    /\ \/ Succeeds("flush") /\ host' = AddrFlush(host)
       \/ Unnoticed("flush") /\ UNCHANGED host
    /\ UNCHANGED <<phase, clients, uiVars>>

Link(t) ==
    /\ dhcp[t] = "link"
    /\ dhcp' = [dhcp EXCEPT ![t] = "udhcpc"]
    /\ SetLinkUp
    /\ UNCHANGED <<phase, clients, uiVars>>

StartClient(t) ==
    /\ dhcp[t] = "udhcpc"
    /\ clients' = clients \cup {t}
    /\ dhcp' = [dhcp EXCEPT ![t] = "running"]
    /\ host' \in ClientStarted(host)
    /\ UNCHANGED <<phase, uiVars, ignored>>

\* udhcpc c ends, and with it the cmd.Run() of its thread, if there is one.
ClientEnds(c, stage) ==
    /\ c \in clients
    /\ clients' = clients \ {c}
    /\ dhcp' = IF c \in Threads THEN [dhcp EXCEPT ![c] = stage] ELSE dhcp
    /\ UNCHANGED <<phase, uiVars, ignored>>

\* -q: udhcpc exits once it has a lease.
ClientBound(c) ==
    /\ ClientEnds(c, "write")
    /\ host.link = "up"
    /\ host' \in LeaseBound(host)

\* Mutated form: no -n, so that udhcpc goes on asking for a lease.
NeverGivesUp(c) == c \in clients /\ UNCHANGED vars

\* -t 2 -n: udhcpc exits with an error after two discovers without an answer; or
\* killall's signal reaches it late.
ClientGivesUp(c) ==
    /\ ClientEnds(c, "err")
    /\ UNCHANGED host

\* The scheme goes to the state file; the outcome of the write is discarded.
Record(scheme) ==
    \/ Succeeds("stateFile") /\ host' = WriteStateFile(host, scheme)
    \/ Unnoticed("stateFile") /\ host' \in FailedStateFile(host)

WriteDHCP(t) ==
    /\ dhcp[t] = "write"
    /\ dhcp' = [dhcp EXCEPT ![t] = "ok"]
    /\ Record("DHCP")
    /\ UNCHANGED <<phase, clients, uiVars>>

ApplyDHCPStep(t) ==
    KillAll(t) \/ Flush(t) \/ Link(t) \/ StartClient(t) \/ WriteDHCP(t)
-------------------------------------------------------------------------------
(* applyStatic, inside Update *)

\* Enter on "Apply Settings" in static mode.  No guard on dhcpRunning here: a
\* user who waits for the DHCP request to end is an assumption on the user.
StaticBegin ==
    /\ LoopFree
    /\ networkMode = "Static"
    /\ PatientUser => ~dhcpRunning
    /\ static' = "flush"
    /\ UNCHANGED <<phase, dhcp, clients, host, networkMode, dhcpRunning, status, ignored>>

\* applyStatic returns and Update shows what became of it.
StaticReturns(outcome) ==
    /\ static' = "idle"
    /\ status' = outcome
    /\ UNCHANGED <<phase, dhcp, clients, networkMode, dhcpRunning>>

StaticGoesOn(next) ==
    /\ static' = next
    /\ UNCHANGED <<phase, dhcp, clients, networkMode, dhcpRunning, status>>

\* Mutated form: the addresses stay on eth0.
StaticNoFlush ==
    /\ static = "flush"
    /\ StaticGoesOn("addr")
    /\ UNCHANGED <<host, ignored>>

StaticFlush ==
    /\ static = "flush"
    /\ StaticGoesOn("addr")
    /\ \/ Succeeds("flush") /\ host' = AddrFlush(host)
       \/ Unnoticed("flush") /\ UNCHANGED host

\* maskToCIDR rejects the mask, or "ip addr add" the address; one that is still on
\* eth0 cannot be added again.
StaticAddr ==
    /\ static = "addr"
    /\ \/ /\ StaticGoesOn("route")
          /\ host' = AddrAdd(host)
       \/ /\ Faults \cap {"mask", "addr"} # {} \/ "Static" \in host.addrs
          /\ StaticReturns("staticFailed")
          /\ UNCHANGED host
    /\ UNCHANGED ignored

\* Mutated form: the error of "ip route replace" is dropped.
StaticRouteUnchecked ==
    /\ static = "route"
    /\ StaticGoesOn("resolv")
    /\ host' \in {host, RouteReplace(host)}
    /\ UNCHANGED ignored

\* "ip route replace" needs a link that is up and an address that reaches the
\* gateway; another thread may have flushed the one just added.
StaticRoute ==
    /\ static = "route"
    /\ \/ /\ host.addrs # {} /\ host.link = "up"
          /\ StaticGoesOn("resolv")
          /\ host' = RouteReplace(host)
       \/ /\ "route" \in Faults \/ "Static" \notin host.addrs \/ host.link = "down"
          /\ StaticReturns("staticFailed")
          /\ UNCHANGED host
    /\ UNCHANGED ignored

StaticResolv ==
    /\ static = "resolv"
    /\ \/ /\ StaticGoesOn("stateFile")
          /\ host' = WriteResolvConf(host)
       \/ /\ "resolv" \in Faults
          /\ StaticReturns("staticFailed")
          /\ host' \in FailedResolvConf(host)
    /\ UNCHANGED ignored

\* Mutated form: applyStatic returns without recording the scheme.
StaticNoRecord ==
    /\ static = "stateFile"
    /\ StaticReturns("applied")
    /\ UNCHANGED <<host, ignored>>

\* Mutated form: the name of the scheme is misspelt.
StaticRecordMisspelt ==
    /\ static = "stateFile"
    /\ StaticReturns("applied")
    /\ host' = WriteStateFile(host, "static")
    /\ UNCHANGED ignored

StaticRecord ==
    /\ static = "stateFile"
    /\ StaticReturns("applied")
    /\ Record("Static")

ApplyStaticStep ==
    StaticFlush \/ StaticAddr \/ StaticRoute \/ StaticResolv \/ StaticRecord
-------------------------------------------------------------------------------
(* The event loop: Update, and the end of the program *)

\* Enter on a line of the mode selector.
SelectMode ==
    /\ LoopFree
    /\ networkMode' \in Schemes
    /\ UNCHANGED <<phase, dhcp, clients, host, dhcpRunning, status, static, ignored>>

\* Any key that moves the cursor, edits a field or changes the focus.
ClearStatus ==
    /\ LoopFree
    /\ status' = ""
    /\ UNCHANGED <<phase, dhcp, clients, host, networkMode, dhcpRunning, static, ignored>>

\* Update starts a goroutine for applyDHCP.
StartDHCP(t) ==
    /\ dhcp[t] = "idle"
    /\ dhcp' = [dhcp EXCEPT ![t] = "killall"]
    /\ dhcpRunning' = TRUE
    /\ status' = "requesting"
    /\ UNCHANGED <<phase, clients, host, networkMode, static, ignored>>

\* Mutated form: no "if m.dhcpRunning { break }".
RequestUnguarded(t) ==
    /\ LoopFree
    /\ networkMode = "DHCP"
    /\ StartDHCP(t)

\* Enter on "Apply Settings" in DHCP mode.
RequestDHCP(t) ==
    /\ LoopFree
    /\ networkMode = "DHCP"
    /\ ~dhcpRunning
    /\ StartDHCP(t)

\* Mutated form: the status stays at what it was.
DHCPResultSilent(t) ==
    /\ LoopFree
    /\ dhcp[t] \in {"ok", "err"}
    /\ dhcp' = [dhcp EXCEPT ![t] = "idle"]
    /\ dhcpRunning' = FALSE
    /\ UNCHANGED <<phase, clients, host, networkMode, status, static, ignored>>

\* Mutated form: msg.err is not looked at.
DHCPResultUnchecked(t) ==
    /\ LoopFree
    /\ dhcp[t] \in {"ok", "err"}
    /\ dhcp' = [dhcp EXCEPT ![t] = "idle"]
    /\ dhcpRunning' = FALSE
    /\ status' = "applied"
    /\ UNCHANGED <<phase, clients, host, networkMode, static, ignored>>

\* Update receives a dhcpResultMsg, whatever pane the user is in by now.
DHCPResult(t) ==
    /\ LoopFree
    /\ dhcp[t] \in {"ok", "err"}
    /\ dhcp' = [dhcp EXCEPT ![t] = "idle"]
    /\ dhcpRunning' = FALSE
    /\ status' = IF dhcp[t] = "ok" THEN "applied" ELSE "dhcpFailed"
    /\ UNCHANGED <<phase, clients, host, networkMode, static, ignored>>

\* The threads end with the program; a udhcpc one of them waits for is hung up
\* with the terminal or goes on without it.  Earlier orphans stay.
ProgramEnds ==
    /\ phase' = "exited"
    /\ dhcp' = [t \in Threads |-> "idle"]
    /\ \/ clients' = clients \cap Orphans
       \/ /\ clients \cap Threads # {}
          /\ \E o \in Orphans \ clients : clients' = (clients \cap Orphans) \cup {o}
    /\ dhcpRunning' = FALSE
    /\ status' = ""
    /\ UNCHANGED <<host, networkMode, static, ignored>>

\* ctrl+c in the TUI is a key, which Update has to read.
Quit == LoopFree /\ ProgramEnds

\* Before the TUI it is a signal, whatever main() is at.
Interrupt == phase \in {"main", "boot"} /\ ProgramEnds

\* init starts /etc/kiosk-launch, and with it the program, again.
Respawn ==
    /\ phase = "exited"
    /\ phase' = "main"
    /\ UNCHANGED <<dhcp, clients, host, uiVars, ignored>>
-------------------------------------------------------------------------------
Next ==
    \/ MainLinkUp \/ MainNoLink \/ MainStartsTui
    \/ \E t \in Threads : ApplyDHCPStep(t)
    \/ \E c \in Threads \cup Orphans : ClientBound(c) \/ ClientGivesUp(c)
    \/ StaticBegin \/ ApplyStaticStep
    \/ SelectMode \/ ClearStatus
    \/ \E t \in Cmds : RequestDHCP(t) \/ DHCPResult(t)
    \/ Quit \/ Interrupt \/ Respawn

Spec == Init /\ [][Next]_vars

\* Commands end, goroutines are scheduled, udhcpc gives up (-t 2 -n) unless it
\* got a lease, and init respawns.  A message waits in the channel of the event
\* loop, which serves its senders in turn: strong fairness, since a user who
\* keeps applying a static configuration disables the loop again and again.
\* Nothing is asked of the user, and nothing of the DHCP server.
Fairness ==
    /\ WF_vars(MainLinkUp) /\ WF_vars(MainStartsTui) /\ WF_vars(Respawn)
    /\ WF_vars(ApplyStaticStep)
    /\ \A t \in Threads : WF_vars(ApplyDHCPStep(t))
    /\ \A c \in Threads \cup Orphans : WF_vars(ClientGivesUp(c))
    /\ \A t \in Cmds : SF_vars(DHCPResult(t))

FairSpec == Spec /\ Fairness
-------------------------------------------------------------------------------
(* Properties *)

ActiveCmds == {t \in Cmds : dhcp[t] # "idle"}

\* The program has no network command of its own under way.
Settled == phase = "tui" /\ static = "idle" /\ \A t \in Threads : dhcp[t] = "idle"

\* What the pane shows on the button (currentContent).
ApplyLabel == IF dhcpRunning THEN "Requesting..." ELSE "Apply Settings"

\* The button reads "Requesting..." exactly while a DHCP request is under way,
\* and two are never under way at once: Update sets dhcpRunning before the
\* goroutine runs and resets it when the result arrives (tui.go:595, :760-767).
ButtonTruthful ==
    /\ ApplyLabel = "Requesting..." <=> ActiveCmds # {}
    /\ \A t, u \in ActiveCmds : t = u

\* The program never has two udhcpc of its own on eth0, whatever killall does: the
\* guard on dhcpRunning sees to it (tui.go:760).  And unless the last killall left
\* one behind no two work on eth0 at all, across restarts of the program (:1110).
AtMostOneClient ==
    /\ \A c, d \in clients \ Orphans : c = d
    /\ "killall" \notin ignored => \A c, d \in clients : c = d

\* "Requesting DHCP address..." is never left on the screen after the request
\* has ended: every end of it overwrites the status, and nothing else sets it.
RequestingIsUnderWay == status = "requesting" => dhcpRunning

\* No udhcpc survived the last killall, and the last flush removed the addresses.
Swept == ignored \cap {"killall", "flush"} = {}

\* "Network settings applied" is shown on a settled machine only when address,
\* route and name servers all come from one scheme, which the state file names
\* unless the last write to it failed.  Holds for a user who lets a DHCP request
\* end first, of a machine that is swept (tui.go:1107-1151).
AppliedMeansConfigured ==
    Settled /\ status = "applied" /\ Swept =>
        \E s \in Schemes :
            /\ ConfiguredBy(host, s)
            /\ "stateFile" \notin ignored => host.stateFile = s

\* A settled machine with address, route and name servers of one scheme is shown
\* with that scheme as its "IP Address Type" (docs/ApplianceDesign.md:14), whatever
\* reported failure there was, whatever status is shown and whatever program wrote
\* the state file.  Holds for that user, of a swept machine with a state file that
\* could be written last time.
AddressTypeTruthful ==
    \A s \in Schemes :
        Settled /\ Swept /\ "stateFile" \notin ignored /\ ConfiguredBy(host, s)
            => IPAddressType(host) = s

\* The least docs/ApplianceDesign.md:14 can mean: the pane may not know the
\* scheme, but it never names the one the address does not have.
NeverNamesOtherScheme ==
    Settled /\ host.addrs # {} => IPAddressType(host) \in host.addrs \cup {"Unknown"}

\* eth0 of a settled machine has the address of one scheme: DHCP or static, not
\* both (docs/ApplianceDesign.md:26).  Holds for that user, of a swept machine: a
\* later apply whose killall and flush work makes up for one whose did not.
OneScheme == Settled /\ Swept => \A s, r \in host.addrs : s = r

\* On a settled machine nothing changes the network settings, an apply by the
\* user excepted: no udhcpc of an earlier request or program is left behind,
\* unless the last killall left it (tui.go:1110).
NoBackgroundChange == [][Settled /\ "killall" \notin ignored => UNCHANGED host]_vars

\* A program that starts again finds DHCP addresses alone once its TUI is up,
\* whatever was configured before and whatever udhcpc is left: main() runs
\* applyDHCP to its end first.  The one thing it takes is that the flush worked,
\* which main() does not look at (main.go:18, tui.go:1111).
RestartIsDHCP ==
    [][phase = "boot" /\ phase' = "tui" /\ "flush" \notin ignored
         => host'.addrs \subseteq {"DHCP"}]_vars

\* Every DHCP request ends, a DHCP server or not: the button is usable again.
RequestEnds == dhcpRunning ~> ~dhcpRunning

\* After the program ends init starts it again, and once eth0 is there its TUI
\* comes up, an address or not, unless the user interrupts main().
TuiComesBack ==
    /\ phase = "exited" ~> phase = "main"
    /\ phase = "boot" ~> phase \in {"tui", "exited"}

\* What has become of the request behind the button.
ButtonRequest ==
    IF ~dhcpRunning THEN "none"
    ELSE IF \E t \in Cmds : dhcp[t] = "ok" THEN "ok"
    ELSE IF \E t \in Cmds : dhcp[t] = "err" THEN "err"
    ELSE "pending"

Button == INSTANCE DhcpRequest WITH request <- ButtonRequest, shown <- status

\* The promise of the button (DhcpRequest) is kept by dhcpRunning, the goroutine,
\* the dhcpResultMsg and the status together: accepted once, answered once, and
\* with its own outcome (tui.go:594-601, :758-767).
KeepsButtonPromise == Button!FairSpec
===============================================================================
