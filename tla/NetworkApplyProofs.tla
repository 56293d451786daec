-------------------------- MODULE NetworkApplyProofs --------------------------
(***************************************************************************)
(* Proofs about NetworkApply, for any number of goroutines, any set of     *)
(* commands that fail and any user.                                        *)
(*                                                                         *)
(* Neither ButtonTruthful nor AtMostOneClient is inductive: they rest on   *)
(* who may be running applyDHCP in which phase of the program, and on when *)
(* a udhcpc of an earlier program may still be around.  Control states     *)
(* both; it is inductive and implies the invariants of the "race" run.     *)
(***************************************************************************)
EXTENDS NetworkApply, TLAPS

\* main() runs applyDHCP between the link and the TUI, goroutines run it and
\* Update runs applyStatic only inside the TUI.
PhasesHold ==
    /\ phase = "boot" <=> dhcp[Main] # "idle"
    /\ phase # "tui" => ~dhcpRunning /\ static = "idle"

\* A udhcpc serves a thread that waits for it, or it is an orphan: those are
\* killed by the first command of the next program, unless this killall leaves one.
ClientsServed ==
    /\ \A t \in Threads : t \in clients <=> dhcp[t] = "running"
    /\ clients \cap Orphans # {} =>
          phase \in {"main", "exited"} \/ dhcp[Main] = "killall" \/ "killall" \in ignored
    /\ "killall" \notin ignored => \A o, p \in clients \cap Orphans : o = p

Control ==
    /\ TypeOK
    /\ PhasesHold
    /\ ButtonTruthful
    /\ ClientsServed
    /\ RequestingIsUnderWay

\* Once applyDHCP has flushed eth0 at boot, only DHCP can put an address there.
BootAddresses ==
    phase = "boot" /\ dhcp[Main] \notin {"killall", "flush"} /\ "flush" \notin ignored
        => host.addrs \subseteq {"DHCP"}

\* The state file says s, unless the last write to it failed.
Recorded(s) == "stateFile" \notin ignored => host.stateFile = s

\* How far the machine has come when applyDHCP and applyStatic have.
DHCPProgress ==
    \A t \in Threads :
        /\ dhcp[t] \in {"link", "udhcpc", "running", "err"} /\ Swept => host.addrs = {}
        /\ dhcp[t] \in {"write", "ok"} =>
              /\ host.gateway = "DHCP" /\ host.resolvConf = "DHCP"
              /\ Swept => host.addrs = {"DHCP"}
        /\ dhcp[t] = "ok" => Recorded("DHCP")

StaticProgress ==
    Swept =>
        /\ static = "addr" => host.addrs = {}
        /\ static \in {"route", "resolv", "stateFile"} => host.addrs = {"Static"}
        /\ static \in {"resolv", "stateFile"} => host.gateway = "Static"
        /\ static = "stateFile" => host.resolvConf = "Static"

\* The patient user keeps applyStatic and the DHCP request apart.
Apart == static # "idle" => ~dhcpRunning

\* What the machine has come to when nothing is under way.
Outcome ==
    phase = "tui" /\ static = "idle" /\ ~dhcpRunning /\ Swept =>
        /\ status = "applied" => \E s \in Schemes : ConfiguredBy(host, s) /\ Recorded(s)
        /\ host.addrs = {"DHCP"} => Recorded("DHCP")

\* Whoever wrote static name servers went on to record it.
ResolvRecorded == host.resolvConf = "Static" /\ static # "stateFile" => Recorded("Static")

\* A thread at its flush is excepted: the killall before it may have swept a machine
\* that still has the addresses of two schemes.
OneAddress ==
    phase = "tui" /\ Swept /\ (\A t \in Threads : dhcp[t] # "flush") =>
        \A s, r \in host.addrs : s = r

Progress ==
    /\ Control
    /\ BootAddresses
    /\ Apart
    /\ DHCPProgress
    /\ StaticProgress
    /\ OneAddress
    /\ Outcome
-------------------------------------------------------------------------------
(* Type correctness *)

\* Every command leaves a machine that HostState describes.
LEMMA HostOperatorsTyped ==
    ASSUME NEW h \in HostState
    PROVE  /\ LinkUp(h) \in HostState
           /\ AddrFlush(h) \in HostState
           /\ ClientStarted(h) \subseteq HostState
           /\ AddrAdd(h) \in HostState
           /\ RouteReplace(h) \in HostState
           /\ LeaseBound(h) \subseteq HostState
           /\ WriteResolvConf(h) \in HostState
           /\ FailedResolvConf(h) \subseteq HostState
           /\ \A s \in Schemes : WriteStateFile(h, s) \in HostState
           /\ FailedStateFile(h) \subseteq HostState
<1>0. LinkUp(h) \in HostState
  BY DEF HostState, LinkUp, Schemes
<1>1. AddrFlush(h) \in HostState /\ LinkUp(AddrFlush(h)) \in HostState
  BY DEF HostState, AddrFlush, LinkUp, Schemes
<1>2. AddrAdd(h) \in HostState
  BY DEF HostState, AddrAdd, Schemes
<1>3. RouteReplace(h) \in HostState
  BY DEF HostState, RouteReplace, Schemes
<1>4. LeaseBound(h) \subseteq HostState
  <2> SUFFICES ASSUME NEW a \in {{"DHCP"}, h.addrs \cup {"DHCP"}}
               PROVE  [h EXCEPT !.addrs = a, !.gateway = "DHCP", !.resolvConf = "DHCP"]
                          \in HostState
    BY DEF LeaseBound
  <2>1. a \in SUBSET Schemes
    BY DEF HostState, Schemes
  <2> QED
    BY <2>1 DEF HostState, Schemes
<1>5. WriteResolvConf(h) \in HostState
  BY DEF HostState, WriteResolvConf, Schemes
<1>6. FailedResolvConf(h) \subseteq HostState
  BY DEF HostState, FailedResolvConf, Schemes
<1>7. \A s \in Schemes : WriteStateFile(h, s) \in HostState
  BY DEF HostState, WriteStateFile, Schemes
<1>8. FailedStateFile(h) \subseteq HostState
  BY DEF HostState, FailedStateFile, Schemes
<1> QED
  BY <1>0, <1>1, <1>2, <1>3, <1>4, <1>5, <1>6, <1>7, <1>8 DEF ClientStarted

\* A udhcpc that starts adds no address and leaves the two files alone.
LEMMA StartEffect ==
    ASSUME NEW h \in HostState, NEW g \in ClientStarted(h)
    PROVE  /\ g.addrs = {} \/ g.addrs = h.addrs
           /\ g.resolvConf = h.resolvConf /\ g.stateFile = h.stateFile
BY DEF ClientStarted, AddrFlush, LinkUp, HostState

\* The scheme is recorded, or the failure to do so is ignored; nothing else changes.
LEMMA RecordEffect ==
    ASSUME NEW s, host \in HostState, Record(s)
    PROVE  /\ Recorded(s)'
           /\ host'.addrs = host.addrs /\ host'.gateway = host.gateway
           /\ host'.resolvConf = host.resolvConf
           /\ Swept' = Swept
<1>1. CASE Succeeds("stateFile") /\ host' = WriteStateFile(host, s)
  BY <1>1 DEF Succeeds, WriteStateFile, HostState, Recorded, Swept
<1>2. CASE Unnoticed("stateFile") /\ host' \in FailedStateFile(host)
  BY <1>2 DEF Unnoticed, FailedStateFile, HostState, Recorded, Swept
<1> QED
  BY <1>1, <1>2 DEF Record

\* The address of a lease is on eth0, with what was there before or without.
LEMMA LeaseEffect ==
    ASSUME NEW h \in HostState, NEW g \in LeaseBound(h)
    PROVE  /\ g.addrs = {"DHCP"} \/ g.addrs = h.addrs \cup {"DHCP"}
           /\ g.gateway = "DHCP" /\ g.resolvConf = "DHCP" /\ g.stateFile = h.stateFile
<1>1. PICK a \in {{"DHCP"}, h.addrs \cup {"DHCP"}} :
          g = [h EXCEPT !.addrs = a, !.gateway = "DHCP", !.resolvConf = "DHCP"]
  BY DEF LeaseBound
<1> QED
  BY <1>1 DEF HostState

\* A machine that has just booted is typed.
LEMMA InitTyped == Init => TypeOK
<1>1. FreshHost \in HostState
  BY DEF FreshHost, HostState
<1>2. "idle" \in Stages /\ "idle" \in StaticStages /\ "" \in Statuses /\ "DHCP" \in Schemes
  BY DEF Stages, StaticStages, Statuses, Schemes
<1> QED
  BY <1>1, <1>2 DEF Init, TypeOK

\* Every step of main, goroutine, udhcpc, Update and init keeps the types.
LEMMA NextTyped == TypeOK /\ [Next]_vars => TypeOK'
<1> SUFFICES ASSUME TypeOK, [Next]_vars
             PROVE  TypeOK'
  OBVIOUS
<1> USE DEF TypeOK, uiVars, Succeeds, Unnoticed, Discarded
<1>1. CASE MainLinkUp
  BY <1>1, HostOperatorsTyped DEF MainLinkUp, SetLinkUp, Stages
<1>2. CASE MainNoLink
  BY <1>2 DEF MainNoLink
<1>3. CASE MainStartsTui
  BY <1>3 DEF MainStartsTui, Stages, Schemes, Statuses, StaticStages
<1>4. ASSUME NEW t \in Threads, ApplyDHCPStep(t)
      PROVE  TypeOK'
  <2>1. CASE KillAll(t)
    BY <2>1 DEF KillAll, Stages
  <2>2. CASE Flush(t)
    BY <2>2, HostOperatorsTyped DEF Flush, Stages
  <2>3. CASE Link(t)
    BY <2>3, HostOperatorsTyped DEF Link, SetLinkUp, Stages
  <2>4. CASE StartClient(t)
    BY <2>4, HostOperatorsTyped DEF StartClient, Stages
  <2>5. CASE WriteDHCP(t)
    BY <2>5, HostOperatorsTyped DEF WriteDHCP, Record, Stages, Schemes
  <2> QED
    BY <1>4, <2>1, <2>2, <2>3, <2>4, <2>5 DEF ApplyDHCPStep
<1>5. ASSUME NEW c \in Threads \cup Orphans, ClientBound(c) \/ ClientGivesUp(c)
      PROVE  TypeOK'
  BY <1>5, HostOperatorsTyped DEF ClientBound, ClientGivesUp, ClientEnds, Stages
<1>6. CASE StaticBegin
  BY <1>6 DEF StaticBegin, StaticStages
<1>7. CASE ApplyStaticStep
  <2>1. CASE StaticFlush
    BY <2>1, HostOperatorsTyped DEF StaticFlush, StaticGoesOn, StaticStages
  <2>2. CASE StaticAddr
    BY <2>2, HostOperatorsTyped
       DEF StaticAddr, StaticGoesOn, StaticReturns, StaticStages, Statuses
  <2>3. CASE StaticRoute
    BY <2>3, HostOperatorsTyped
       DEF StaticRoute, StaticGoesOn, StaticReturns, StaticStages, Statuses
  <2>4. CASE StaticResolv
    BY <2>4, HostOperatorsTyped
       DEF StaticResolv, StaticGoesOn, StaticReturns, StaticStages, Statuses
  <2>5. CASE StaticRecord
    BY <2>5, HostOperatorsTyped
       DEF StaticRecord, Record, StaticReturns, StaticStages, Statuses, Schemes
  <2> QED
    BY <1>7, <2>1, <2>2, <2>3, <2>4, <2>5 DEF ApplyStaticStep
<1>8. CASE SelectMode
  BY <1>8 DEF SelectMode
<1>9. CASE ClearStatus
  BY <1>9 DEF ClearStatus, Statuses
<1>10. ASSUME NEW t \in Cmds, RequestDHCP(t) \/ DHCPResult(t)
       PROVE  TypeOK'
  BY <1>10 DEF RequestDHCP, StartDHCP, DHCPResult, Stages, Statuses, Threads
<1>11. CASE Quit \/ Interrupt
  BY <1>11 DEF Quit, Interrupt, ProgramEnds, Stages, Statuses
<1>12. CASE Respawn
  BY <1>12 DEF Respawn
<1>13. CASE UNCHANGED vars
  BY <1>13 DEF vars
<1> QED
  BY <1>1, <1>2, <1>3, <1>4, <1>5, <1>6, <1>7, <1>8, <1>9, <1>10, <1>11,
     <1>12, <1>13 DEF Next

\* Every state of the program is one TypeOK describes: no command leaves a
\* setting without an owner, no call of applyDHCP leaves its stages.
THEOREM TypeCorrect == Spec => []TypeOK
BY InitTyped, NextTyped, PTL DEF Spec
-------------------------------------------------------------------------------
(* Who is at work, and when *)

\* Control holds before main() has done anything.
LEMMA InitControl == Init => Control
<1> SUFFICES ASSUME Init
             PROVE  Control
  OBVIOUS
<1>1. TypeOK
  BY InitTyped
<1>2. \A t \in Threads : dhcp[t] = "idle"
  BY DEF Init
<1>3. ActiveCmds = {}
  BY <1>2 DEF ActiveCmds, Threads
<1> QED
  BY <1>1, <1>2, <1>3
     DEF Init, Control, PhasesHold, ButtonTruthful, ApplyLabel, ClientsServed,
         RequestingIsUnderWay, Threads

\* A step that leaves phase, threads, udhcpc, dhcpRunning and what became of killall
\* alone keeps Control, if it keeps the types, does not put "requesting" on the screen, and leaves
\* applyStatic idle outside the TUI.
LEMMA ControlFrame ==
    ASSUME Control, TypeOK', UNCHANGED <<phase, dhcp, clients, dhcpRunning>>,
           "killall" \in ignored' <=> "killall" \in ignored,
           phase # "tui" => static' = "idle",
           status' = "requesting" => status = "requesting"
    PROVE  Control'
BY DEF Control, PhasesHold, ButtonTruthful, ApplyLabel, ActiveCmds,
       ClientsServed, RequestingIsUnderWay

\* Only one thread is at work at a time: main's before the TUI, the goroutine of
\* the one request after it.
LEMMA OneThread ==
    ASSUME Control, NEW t \in Threads, NEW u \in Threads,
           dhcp[t] # "idle", dhcp[u] # "idle"
    PROVE  t = u
BY DEF Control, PhasesHold, ButtonTruthful, ApplyLabel, ActiveCmds, Threads

\* Past its "killall", a thread has no udhcpc of an earlier program around, unless
\* killall left one.
LEMMA NoOrphanAtWork ==
    ASSUME Control, NEW t \in Threads, dhcp[t] \notin {"idle", "killall"},
           "killall" \notin ignored
    PROVE  clients \cap Orphans = {}
<1>1. Main \in Threads
  BY DEF Threads
<1>2. dhcp[Main] # "killall"
  BY <1>1, OneThread
<1>3. phase \in {"boot", "tui"}
  BY DEF Control, TypeOK, PhasesHold, ButtonTruthful, ApplyLabel, ActiveCmds, Threads
<1> QED
  BY <1>2, <1>3 DEF Control, ClientsServed

\* A step of the thread at work to another stage of its call keeps Control, if it
\* keeps the types and leaves the udhcpc of that thread alone, if any.
LEMMA ControlThreadStep ==
    ASSUME Control, TypeOK', NEW t \in Threads, NEW stage \in Stages \ {"idle"},
           dhcp[t] # "idle",
           dhcp' = [dhcp EXCEPT ![t] = stage],
           \A u \in Threads : u \in clients' <=> dhcp'[u] = "running",
           "killall" \notin ignored' => clients' \cap Orphans = {},
           UNCHANGED <<phase, dhcpRunning, static, status>>
    PROVE  Control'
<1>1. \A u \in Threads : dhcp'[u] = "idle" <=> dhcp[u] = "idle"
  BY DEF Control, TypeOK
<1>2. ActiveCmds' = ActiveCmds
  BY <1>1 DEF ActiveCmds, Threads
<1>3. PhasesHold'
  BY <1>1 DEF Control, PhasesHold, Threads
<1>4. ButtonTruthful'
  BY <1>2 DEF Control, ButtonTruthful, ApplyLabel
<1>5. ClientsServed' /\ RequestingIsUnderWay'
  BY DEF Control, ClientsServed, RequestingIsUnderWay
<1> QED
  BY <1>3, <1>4, <1>5 DEF Control

\* Each of the commands of applyDHCP keeps Control.
LEMMA ControlApplyDHCP ==
    ASSUME Control, TypeOK', NEW t \in Threads, ApplyDHCPStep(t)
    PROVE  Control'
<1> USE DEF uiVars, Succeeds, Unnoticed
<1>0. /\ dhcp \in [Threads -> Stages]
      /\ \A u \in Threads : u \in clients <=> dhcp[u] = "running"
  BY DEF Control, TypeOK, ClientsServed
<1>1. CASE KillAll(t)
  <2>1. \A u \in Threads : u \notin clients
    BY <1>0, <1>1, OneThread DEF KillAll
  <2>2. PICK left \in SUBSET clients :
            /\ left # {} => "killall" \in ignored'
            /\ clients' = left
            /\ dhcp' = [u \in Threads |-> CASE u = t -> "flush"
                                           [] u # t /\ u \in clients \ left -> "err"
                                           [] OTHER -> dhcp[u]]
    BY <1>1 DEF KillAll
  <2>3. dhcp' = [dhcp EXCEPT ![t] = "flush"]
    BY <1>0, <2>1, <2>2
  <2>4. \A u \in Threads : u \in clients' <=> dhcp'[u] = "running"
    BY <1>0, <1>1, <2>1, <2>2, <2>3 DEF KillAll
  <2> QED
    BY <1>1, <2>2, <2>3, <2>4, ControlThreadStep DEF KillAll, Stages
<1>2. CASE Flush(t)
  <2>1. \A u \in Threads : u \in clients' <=> dhcp'[u] = "running"
    BY <1>0, <1>2 DEF Flush
  <2> QED
    BY <1>2, <2>1, NoOrphanAtWork, ControlThreadStep DEF Flush, Stages
<1>3. CASE Link(t)
  <2>1. \A u \in Threads : u \in clients' <=> dhcp'[u] = "running"
    BY <1>0, <1>3 DEF Link
  <2> QED
    BY <1>3, <2>1, NoOrphanAtWork, ControlThreadStep DEF Link, SetLinkUp, Stages
<1>4. CASE StartClient(t)
  <2>1. \A u \in Threads : u \in clients' <=> dhcp'[u] = "running"
    BY <1>0, <1>4 DEF StartClient
  <2>2. "killall" \notin ignored => clients' \cap Orphans = {}
    BY <1>4, NoOrphanAtWork, ConstantsAssumption DEF StartClient, Threads
  <2> QED
    BY <1>4, <2>1, <2>2, ControlThreadStep DEF StartClient, Stages
<1>5. CASE WriteDHCP(t)
  <2>1. \A u \in Threads : u \in clients' <=> dhcp'[u] = "running"
    BY <1>0, <1>5 DEF WriteDHCP
  <2> QED
    BY <1>5, <2>1, NoOrphanAtWork, ControlThreadStep DEF WriteDHCP, Record, Stages
<1> QED
  BY <1>1, <1>2, <1>3, <1>4, <1>5 DEF ApplyDHCPStep

\* So does the end of a udhcpc, of the thread that waits for it or an orphan's.
LEMMA ControlClientEnds ==
    ASSUME Control, TypeOK', NEW c \in Threads \cup Orphans,
           NEW stage \in {"write", "err"}, ClientEnds(c, stage)
    PROVE  Control'
<1> USE DEF uiVars
<1>1. CASE c \in Threads
  <2>1. dhcp[c] = "running" /\ dhcp' = [dhcp EXCEPT ![c] = stage]
    BY <1>1 DEF ClientEnds, Control, ClientsServed
  <2>2. \A u \in Threads : u \in clients' <=> dhcp'[u] = "running"
    BY <1>1, <2>1 DEF ClientEnds, Control, TypeOK, ClientsServed
  <2>3. "killall" \notin ignored' => clients' \cap Orphans = {}
    BY <1>1, <2>1, NoOrphanAtWork DEF ClientEnds
  <2> QED
    BY <1>1, <2>1, <2>2, <2>3, ControlThreadStep DEF ClientEnds, Stages
<1>2. CASE c \notin Threads
  <2>1. ActiveCmds' = ActiveCmds
    BY <1>2 DEF ClientEnds, ActiveCmds
  <2> QED
    BY <1>2, <2>1 DEF ClientEnds, Control, PhasesHold, ButtonTruthful, ApplyLabel,
                      ClientsServed, RequestingIsUnderWay
<1> QED
  BY <1>1, <1>2

\* applyStatic runs inside Update and touches neither threads nor dhcpRunning.
LEMMA ControlApplyStatic ==
    ASSUME Control, TypeOK', StaticBegin \/ ApplyStaticStep
    PROVE  Control'
<1>1. phase = "tui"
  <2>1. CASE StaticBegin
    BY <2>1 DEF StaticBegin, LoopFree
  <2>2. CASE ApplyStaticStep
    BY <2>2 DEF ApplyStaticStep, StaticFlush, StaticAddr, StaticRoute, StaticResolv,
                StaticRecord, Control, PhasesHold
  <2> QED
    BY <2>1, <2>2
<1>2. /\ UNCHANGED <<phase, dhcp, clients, dhcpRunning>>
      /\ status' = "requesting" => status = "requesting"
      /\ "killall" \in ignored' <=> "killall" \in ignored
  BY DEF StaticBegin, ApplyStaticStep, StaticFlush, StaticAddr, StaticRoute,
         StaticResolv, StaticRecord, StaticGoesOn, StaticReturns, Record, Succeeds,
         Unnoticed
<1> QED
  BY <1>1, <1>2, ControlFrame

\* Update accepts a request, or receives the dhcpResultMsg that ends it.
LEMMA ControlRequest ==
    ASSUME Control, TypeOK', NEW t \in Cmds, RequestDHCP(t) \/ DHCPResult(t)
    PROVE  Control'
<1>1. /\ t \in Threads /\ t # Main
      /\ phase = "tui" /\ dhcp \in [Threads -> Stages]
      /\ UNCHANGED <<phase, clients, ignored>>
  BY ConstantsAssumption
     DEF RequestDHCP, StartDHCP, DHCPResult, LoopFree, Threads, Control, TypeOK
<1>2. PhasesHold' /\ ClientsServed'
  BY <1>1 DEF RequestDHCP, StartDHCP, DHCPResult, Control, PhasesHold, ClientsServed,
              Threads
<1>3. ButtonTruthful' /\ RequestingIsUnderWay'
  <2>1. CASE RequestDHCP(t)
    <3>1. ActiveCmds' = {t}
      BY <1>1, <2>1 DEF RequestDHCP, StartDHCP, Control, ButtonTruthful, ApplyLabel,
                        ActiveCmds, Threads
    <3> QED
      BY <2>1, <3>1 DEF RequestDHCP, StartDHCP, ButtonTruthful, ApplyLabel,
                        RequestingIsUnderWay
  <2>2. CASE DHCPResult(t)
    <3>1. ActiveCmds' = {}
      BY <1>1, <2>2 DEF DHCPResult, Control, ButtonTruthful, ApplyLabel, ActiveCmds,
                        Threads
    <3> QED
      BY <2>2, <3>1 DEF DHCPResult, ButtonTruthful, ApplyLabel, RequestingIsUnderWay
  <2> QED
    BY <2>1, <2>2
<1> QED
  BY <1>2, <1>3 DEF Control

\* So does the end of the program, which leaves at most one more udhcpc behind.
LEMMA ControlProgramEnds ==
    ASSUME Control, TypeOK', ProgramEnds, static = "idle"
    PROVE  Control'
<1>1. \A t \in Threads : dhcp'[t] = "idle"
  BY DEF ProgramEnds
<1>2. ActiveCmds' = {}
  BY <1>1 DEF ActiveCmds, Threads
<1>3. /\ clients' \cap Threads = {}
      /\ UNCHANGED ignored
  BY ConstantsAssumption DEF ProgramEnds, Threads
<1>4. "killall" \notin ignored => \A o, p \in clients' \cap Orphans : o = p
  <2> SUFFICES ASSUME "killall" \notin ignored
               PROVE  \A o, p \in clients' \cap Orphans : o = p
    OBVIOUS
  <2>1. CASE clients' = clients \cap Orphans
    BY <2>1 DEF Control, ClientsServed
  <2>2. CASE clients \cap Threads # {}
    <3>1. clients \cap Orphans = {}
      BY <2>2, NoOrphanAtWork DEF Control, ClientsServed
    <3>2. CASE \E o \in Orphans \ clients : clients' = (clients \cap Orphans) \cup {o}
      BY <3>1, <3>2
    <3> QED
      BY <2>1, <3>2 DEF ProgramEnds
  <2> QED
    BY <2>1, <2>2 DEF ProgramEnds
<1>5. phase' = "exited" /\ ~dhcpRunning' /\ status' = "" /\ static' = "idle"
  BY DEF ProgramEnds
<1> QED
  BY <1>1, <1>2, <1>3, <1>4, <1>5
     DEF Control, PhasesHold, ButtonTruthful, ApplyLabel, ClientsServed,
         RequestingIsUnderWay, Threads

\* Control is inductive.
LEMMA ControlNext == Control /\ [Next]_vars => Control'
<1> SUFFICES ASSUME Control, [Next]_vars
             PROVE  Control'
  OBVIOUS
<1> USE DEF uiVars
<1>0. TypeOK /\ TypeOK'
  BY NextTyped DEF Control
<1>1. CASE MainLinkUp
  <2>1. ActiveCmds' = ActiveCmds /\ (\A t \in Cmds : dhcp'[t] = dhcp[t])
    BY <1>0, <1>1, ConstantsAssumption DEF MainLinkUp, ActiveCmds, TypeOK, Threads
  <2>2. Main \notin clients /\ dhcp'[Main] = "killall"
    BY <1>0, <1>1 DEF MainLinkUp, Control, PhasesHold, ClientsServed, Threads, TypeOK
  <2>3. "killall" \in ignored' <=> "killall" \in ignored
    BY <1>1 DEF MainLinkUp, SetLinkUp, Succeeds, Unnoticed
  <2> QED
    BY <1>0, <1>1, <2>1, <2>2, <2>3
       DEF MainLinkUp, Control, PhasesHold, ButtonTruthful, ApplyLabel, ClientsServed,
           RequestingIsUnderWay, Threads
<1>2. CASE MainNoLink
  BY <1>0, <1>2
     DEF MainNoLink, Control, PhasesHold, ButtonTruthful, ApplyLabel, ActiveCmds,
         ClientsServed, RequestingIsUnderWay
<1>3. CASE MainStartsTui
  <2>1. ActiveCmds' = ActiveCmds /\ (\A t \in Cmds : dhcp'[t] = dhcp[t])
    BY <1>0, <1>3, ConstantsAssumption DEF MainStartsTui, ActiveCmds, TypeOK, Threads
  <2>2. /\ dhcp'[Main] = "idle" /\ Main \notin clients
        /\ "killall" \notin ignored => clients \cap Orphans = {}
    BY <1>0, <1>3, NoOrphanAtWork
       DEF MainStartsTui, Control, ClientsServed, Threads, TypeOK
  <2> QED
    BY <1>0, <1>3, <2>1, <2>2
       DEF MainStartsTui, Control, PhasesHold, ButtonTruthful, ApplyLabel,
           ClientsServed, RequestingIsUnderWay, Threads
<1>4. ASSUME NEW t \in Threads, ApplyDHCPStep(t)
      PROVE  Control'
  BY <1>0, <1>4, ControlApplyDHCP
<1>5. ASSUME NEW c \in Threads \cup Orphans, ClientBound(c) \/ ClientGivesUp(c)
      PROVE  Control'
  BY <1>0, <1>5, ControlClientEnds DEF ClientBound, ClientGivesUp
<1>6. CASE StaticBegin \/ ApplyStaticStep
  BY <1>0, <1>6, ControlApplyStatic
<1>7. CASE SelectMode \/ ClearStatus
  BY <1>0, <1>7, ControlFrame DEF SelectMode, ClearStatus, LoopFree
<1>8. ASSUME NEW t \in Cmds, RequestDHCP(t) \/ DHCPResult(t)
      PROVE  Control'
  BY <1>0, <1>8, ControlRequest
<1>9. CASE Quit \/ Interrupt
  BY <1>0, <1>9, ControlProgramEnds DEF Quit, Interrupt, LoopFree, Control, PhasesHold
<1>10. CASE Respawn
  BY <1>0, <1>10
     DEF Respawn, Control, PhasesHold, ButtonTruthful, ApplyLabel, ActiveCmds,
         ClientsServed, RequestingIsUnderWay
<1>11. CASE UNCHANGED vars
  BY <1>0, <1>11, ControlFrame DEF vars, Control, PhasesHold
<1> QED
  BY <1>1, <1>2, <1>3, <1>4, <1>5, <1>6, <1>7, <1>8, <1>9, <1>10, <1>11 DEF Next

\* In every state of the program: who may run applyDHCP in this phase, which udhcpc
\* may be around, and what the button says of it (main.go, tui.go:594-601, :758-767,
\* :1107-1120).
THEOREM ControlInvariant == Spec => []Control
BY InitControl, ControlNext, PTL DEF Spec

\* The label of the button tells whether a request is under way, and no two are:
\* for any number of goroutines and whatever fails.
THEOREM ButtonIsTruthful == Spec => []ButtonTruthful
<1>1. Control => ButtonTruthful
  BY DEF Control
<1> QED
  BY <1>1, ControlInvariant, PTL

\* The program never has two udhcpc of its own on eth0, whatever fails; and unless the
\* last killall left one, no two work on it at all, across restarts of the program.
THEOREM OneClientAtATime == Spec => []AtMostOneClient
<1>1. Control => AtMostOneClient
  <2> SUFFICES ASSUME Control
               PROVE  AtMostOneClient
    OBVIOUS
  <2>1. clients \subseteq Threads \cup Orphans
    BY DEF Control, TypeOK
  <2>2. \A t \in Threads : t \in clients => dhcp[t] \notin {"idle", "killall"}
    BY DEF Control, ClientsServed
  <2>3. \A c, d \in clients \cap Threads : c = d
    BY <2>2, OneThread
  <2>4. ASSUME "killall" \notin ignored, NEW c \in clients, NEW d \in clients
        PROVE  c = d
    <3>1. CASE c \in Threads \/ d \in Threads
      BY <2>1, <2>2, <2>3, <2>4, <3>1, NoOrphanAtWork
    <3>2. CASE c \in Orphans /\ d \in Orphans
      BY <2>4, <3>2 DEF Control, ClientsServed
    <3> QED
      BY <2>1, <3>1, <3>2
  <2> QED
    BY <2>1, <2>3, <2>4 DEF AtMostOneClient
<1> QED
  BY <1>1, ControlInvariant, PTL

\* "Requesting DHCP address..." on the screen means that a request is under way.
THEOREM RequestingMeansUnderWay == Spec => []RequestingIsUnderWay
<1>1. Control => RequestingIsUnderWay
  BY DEF Control
<1> QED
  BY <1>1, ControlInvariant, PTL
-------------------------------------------------------------------------------
(* What steps may never do *)

\* Unless the last killall left a udhcpc, a settled machine has none that could
\* change it.
LEMMA SettledIsQuiet ==
    ASSUME Control, Settled, "killall" \notin ignored
    PROVE  clients = {}
BY DEF Settled, Control, TypeOK, ClientsServed, Threads

\* On a settled machine only the user's next apply changes the network settings, unless
\* the last killall left a udhcpc: the one thing that may still be at work.
THEOREM SettledStaysPut == Spec => NoBackgroundChange
<1>1. Control /\ [Next]_vars
          => [Settled /\ "killall" \notin ignored => UNCHANGED host]_vars
  <2> SUFFICES ASSUME Control, Next, Settled, "killall" \notin ignored
               PROVE  UNCHANGED host
    BY DEF vars
  <2> USE DEF uiVars
  <2>1. /\ phase = "tui" /\ clients = {} /\ static = "idle"
        /\ \A t \in Threads : dhcp[t] = "idle"
    BY SettledIsQuiet DEF Settled
  <2>2. ~ApplyStaticStep
    BY <2>1 DEF ApplyStaticStep, StaticFlush, StaticAddr, StaticRoute, StaticResolv,
                StaticRecord
  <2>3. \A t \in Threads : ~ApplyDHCPStep(t)
    BY <2>1 DEF ApplyDHCPStep, KillAll, Flush, Link, StartClient, WriteDHCP
  <2>4. \A c \in Threads \cup Orphans : ~(ClientBound(c) \/ ClientGivesUp(c))
    BY <2>1 DEF ClientBound, ClientGivesUp, ClientEnds
  <2> QED
    BY <2>1, <2>2, <2>3, <2>4
       DEF Next, MainLinkUp, MainNoLink, MainStartsTui, StaticBegin, SelectMode,
           ClearStatus, RequestDHCP, StartDHCP, DHCPResult, Quit, Interrupt,
           ProgramEnds, Respawn
<1> QED
  BY <1>1, ControlInvariant, PTL DEF Spec, NoBackgroundChange

\* BootAddresses is inductive relative to Control: from the flush of main()'s applyDHCP
\* to the TUI only a lease adds an address.
LEMMA BootNext == Control /\ BootAddresses /\ [Next]_vars => BootAddresses'
<1> SUFFICES ASSUME Control, BootAddresses, [Next]_vars,
                    phase' = "boot", dhcp'[Main] \notin {"killall", "flush"},
                    "flush" \notin ignored'
             PROVE  host'.addrs \subseteq {"DHCP"}
  BY DEF BootAddresses
<1> USE DEF uiVars, Succeeds, Unnoticed
<1>0. TypeOK /\ Main \in Threads
  BY DEF Control, Threads
<1>1. CASE MainLinkUp
  BY <1>0, <1>1 DEF MainLinkUp, TypeOK
<1>2. ASSUME NEW t \in Threads, ApplyDHCPStep(t)
      PROVE  host'.addrs \subseteq {"DHCP"}
  <2>1. t = Main /\ phase = "boot"
    BY <1>0, <1>2, OneThread
       DEF ApplyDHCPStep, KillAll, Flush, Link, StartClient, WriteDHCP, Control,
           PhasesHold
  <2>2. CASE KillAll(t)
    BY <1>0, <2>1, <2>2 DEF KillAll, TypeOK
  <2>3. CASE Flush(t)
    BY <1>0, <2>3 DEF Flush, TypeOK, HostState, AddrFlush
  <2>4. CASE Link(t)
    BY <1>0, <2>1, <2>4
       DEF Link, SetLinkUp, TypeOK, HostState, LinkUp, BootAddresses
  <2>5. CASE StartClient(t)
    BY <1>0, <2>1, <2>5, StartEffect DEF StartClient, TypeOK, BootAddresses
  <2>6. CASE WriteDHCP(t)
    <3>1. "flush" \notin ignored
      BY <2>6 DEF WriteDHCP, Record
    <3> QED
      BY <1>0, <2>1, <2>6, <3>1, RecordEffect DEF WriteDHCP, TypeOK, BootAddresses
  <2> QED
    BY <1>2, <2>2, <2>3, <2>4, <2>5, <2>6 DEF ApplyDHCPStep
<1>3. ASSUME NEW c \in Threads \cup Orphans, ClientBound(c) \/ ClientGivesUp(c)
      PROVE  host'.addrs \subseteq {"DHCP"}
  <2>1. phase = "boot" /\ "flush" \notin ignored
    BY <1>3 DEF ClientBound, ClientGivesUp, ClientEnds
  <2>2. dhcp[Main] \notin {"killall", "flush"}
    BY <1>0, <1>3
       DEF ClientBound, ClientGivesUp, ClientEnds, Control, ClientsServed, TypeOK
  <2>3. host.addrs \subseteq {"DHCP"}
    BY <2>1, <2>2 DEF BootAddresses
  <2> QED
    BY <1>0, <1>3, <2>3, LeaseEffect DEF ClientBound, ClientGivesUp, TypeOK
<1>4. CASE StaticBegin \/ ApplyStaticStep
  BY <1>4 DEF StaticBegin, LoopFree, ApplyStaticStep, StaticFlush, StaticAddr,
              StaticRoute, StaticResolv, StaticRecord, StaticGoesOn, StaticReturns,
              Control, PhasesHold
<1>5. ASSUME NEW t \in Cmds, RequestDHCP(t) \/ DHCPResult(t)
      PROVE  FALSE
  BY <1>5 DEF RequestDHCP, StartDHCP, DHCPResult, LoopFree
<1>6. CASE \/ MainNoLink \/ MainStartsTui \/ SelectMode \/ ClearStatus \/ Quit
           \/ Interrupt \/ Respawn
  BY <1>6 DEF MainNoLink, MainStartsTui, SelectMode, ClearStatus, LoopFree, Quit,
              Interrupt, ProgramEnds, Respawn
<1>7. CASE UNCHANGED vars
  BY <1>7 DEF vars, BootAddresses
<1> QED
  BY <1>1, <1>2, <1>3, <1>4, <1>5, <1>6, <1>7 DEF Next

\* Between a flush of main() that worked and the TUI, eth0 has no address but a lease.
LEMMA BootInvariant == Spec => []BootAddresses
<1>1. Init => BootAddresses
  BY DEF Init, BootAddresses
<1> QED
  BY <1>1, BootNext, ControlInvariant, PTL DEF Spec

\* Whatever was configured before and whatever udhcpc is left, a program whose TUI comes
\* up again has left eth0 without a static address, if the flush it ran worked.
THEOREM RestartLosesStatic == Spec => RestartIsDHCP
<1>1. Control /\ BootAddresses /\ [Next]_vars
          => [phase = "boot" /\ phase' = "tui" /\ "flush" \notin ignored
                => host'.addrs \subseteq {"DHCP"}]_vars
  <2> SUFFICES ASSUME Control, BootAddresses, Next, phase = "boot", phase' = "tui",
                      "flush" \notin ignored
               PROVE  host'.addrs \subseteq {"DHCP"}
    BY DEF vars
  <2>1. MainStartsTui
    BY DEF Next, MainLinkUp, MainNoLink, ApplyDHCPStep, KillAll, Flush, Link,
           StartClient, WriteDHCP, ClientBound, ClientGivesUp, ClientEnds, StaticBegin, LoopFree,
           ApplyStaticStep, StaticFlush, StaticAddr, StaticRoute, StaticResolv,
           StaticRecord, StaticGoesOn, StaticReturns, SelectMode, ClearStatus,
           RequestDHCP, DHCPResult, Quit, Interrupt, ProgramEnds, Respawn
  <2> QED
    BY <2>1 DEF MainStartsTui, BootAddresses
<1> QED
  BY <1>1, ControlInvariant, BootInvariant, PTL DEF Spec, RestartIsDHCP
-------------------------------------------------------------------------------
(* What a patient user finds configured *)

\* While a static configuration is applied, or nothing is, no thread is at work.
LEMMA NoThreadAtWork ==
    ASSUME Control, phase = "tui", ~dhcpRunning, NEW t \in Threads
    PROVE  dhcp[t] = "idle"
BY DEF Control, PhasesHold, ButtonTruthful, ApplyLabel, ActiveCmds, Threads

\* Progress holds before main() has done anything.
LEMMA InitProgress == Init => Progress
<1> SUFFICES ASSUME Init
             PROVE  Progress
  OBVIOUS
<1>1. Control
  BY InitControl
<1>2. DHCPProgress
  BY DEF Init, DHCPProgress
<1> QED
  BY <1>1, <1>2 DEF Init, Progress, BootAddresses, Apart, StaticProgress, OneAddress,
                    Outcome, Recorded, Swept

\* A command of applyDHCP, or the end of the udhcpc it waits for: t is the one
\* thread at work, and applyStatic is not.
LEMMA ThreadStepProgress ==
    ASSUME Progress, Control', BootAddresses', NEW t \in Threads, dhcp[t] # "idle",
           NEW stage \in Stages \ {"idle", "killall"},
           dhcp' = [dhcp EXCEPT ![t] = stage],
           UNCHANGED <<phase, networkMode, dhcpRunning, status, static>>,
           stage \in {"link", "udhcpc", "running", "err"} /\ Swept' => host'.addrs = {},
           stage \in {"write", "ok"} =>
               /\ host'.gateway = "DHCP" /\ host'.resolvConf = "DHCP"
               /\ Swept' => host'.addrs = {"DHCP"},
           stage = "ok" => Recorded("DHCP")'
    PROVE  Progress'
<1>1. \A u \in Threads : u # t => dhcp[u] = "idle"
  BY OneThread DEF Progress
<1>2. static = "idle" /\ (phase = "tui" => dhcpRunning)
  BY NoThreadAtWork DEF Progress, Apart, Control, PhasesHold
<1>3. \A u \in Threads : dhcp'[u] = IF u = t THEN stage ELSE "idle"
  BY <1>1 DEF Progress, Control, TypeOK
<1>4. DHCPProgress'
  BY <1>3 DEF DHCPProgress
<1>5. Apart' /\ StaticProgress' /\ Outcome'
  BY <1>2 DEF Apart, StaticProgress, Outcome, Progress
<1>6. OneAddress'
  BY <1>3 DEF OneAddress, Stages
<1> QED
  BY <1>4, <1>5, <1>6 DEF Progress

\* Each command of applyDHCP keeps Progress.
LEMMA DHCPStepProgress ==
    ASSUME Progress, Control', BootAddresses', NEW t \in Threads, ApplyDHCPStep(t)
    PROVE  Progress'
<1> USE DEF uiVars
<1>0. host \in HostState /\ dhcp \in [Threads -> Stages]
  BY DEF Progress, Control, TypeOK
<1>1. CASE KillAll(t)
  <2>1. \A u \in Threads : u # t => u \notin clients
    BY <1>1, OneThread DEF KillAll, Progress, Control, ClientsServed
  <2>2. dhcp' = [dhcp EXCEPT ![t] = "flush"]
    BY <1>0, <1>1, <2>1 DEF KillAll
  <2> QED
    BY <1>1, <2>2, ThreadStepProgress DEF KillAll, Stages
<1>2. CASE Flush(t)
  <2>1. Swept' => host'.addrs = {}
    BY <1>0, <1>2 DEF Flush, AddrFlush, HostState, Unnoticed, Swept
  <2> QED
    BY <1>2, <2>1, ThreadStepProgress DEF Flush, Stages
<1>3. CASE Link(t)
  <2>1. host'.addrs = host.addrs
    BY <1>0, <1>3 DEF Link, SetLinkUp, LinkUp, HostState
  <2>2. Swept' = Swept
    BY <1>3 DEF Link, SetLinkUp, Succeeds, Unnoticed, Swept
  <2>3. Swept' => host'.addrs = {}
    BY <1>3, <2>1, <2>2 DEF Link, Progress, DHCPProgress
  <2> QED
    BY <1>3, <2>3, ThreadStepProgress DEF Link, Stages
<1>4. CASE StartClient(t)
  <2>1. host'.addrs = {} \/ host'.addrs = host.addrs
    BY <1>0, <1>4, StartEffect DEF StartClient
  <2>2. Swept' => host'.addrs = {}
    BY <1>4, <2>1 DEF StartClient, Swept, Progress, DHCPProgress
  <2> QED
    BY <1>4, <2>2, ThreadStepProgress DEF StartClient, Stages
<1>5. CASE WriteDHCP(t)
  <2>1. /\ host.gateway = "DHCP" /\ host.resolvConf = "DHCP"
        /\ Swept => host.addrs = {"DHCP"}
    BY <1>5 DEF WriteDHCP, Progress, DHCPProgress
  <2>2. /\ Recorded("DHCP")'
        /\ host'.addrs = host.addrs /\ host'.gateway = host.gateway
        /\ host'.resolvConf = host.resolvConf
        /\ Swept' = Swept
    BY <1>0, <1>5, RecordEffect DEF WriteDHCP
  <2> QED
    BY <1>5, <2>1, <2>2, ThreadStepProgress DEF WriteDHCP, Stages
<1> QED
  BY <1>1, <1>2, <1>3, <1>4, <1>5 DEF ApplyDHCPStep

\* So does the end of a udhcpc, with a lease or without.
LEMMA ClientEndsProgress ==
    ASSUME Progress, Control', BootAddresses', NEW c \in Threads \cup Orphans,
           ClientBound(c) \/ ClientGivesUp(c)
    PROVE  Progress'
<1> USE DEF uiVars
<1>0. /\ host \in HostState /\ dhcp \in [Threads -> Stages] /\ c \in clients
      /\ UNCHANGED ignored
  BY DEF Progress, Control, TypeOK, ClientBound, ClientGivesUp, ClientEnds
<1>1. CASE c \in Threads
  <2>1. dhcp[c] = "running" /\ (Swept' => host.addrs = {})
    BY <1>0, <1>1 DEF Progress, Control, ClientsServed, DHCPProgress, Swept
  <2>2. CASE ClientBound(c)
    <3>1. /\ host'.gateway = "DHCP" /\ host'.resolvConf = "DHCP"
          /\ Swept' => host'.addrs = {"DHCP"}
      BY <1>0, <2>1, <2>2, LeaseEffect DEF ClientBound
    <3> QED
      BY <1>1, <2>1, <2>2, <3>1, ThreadStepProgress DEF ClientBound, ClientEnds, Stages
  <2>3. CASE ClientGivesUp(c)
    BY <1>1, <2>1, <2>3, ThreadStepProgress DEF ClientGivesUp, ClientEnds, Stages
  <2> QED
    BY <2>2, <2>3
<1>2. CASE c \notin Threads
  <2>1. UNCHANGED <<phase, dhcp, networkMode, dhcpRunning, status, static>>
    BY <1>2 DEF ClientBound, ClientGivesUp, ClientEnds
  <2>2. CASE "killall" \in ignored
    <3>1. ~Swept /\ ~Swept'
      BY <1>0, <2>2 DEF Swept
    <3>2. /\ host'.gateway \in {host.gateway, "DHCP"}
          /\ host'.resolvConf \in {host.resolvConf, "DHCP"}
          /\ host'.stateFile = host.stateFile
      BY <1>0, LeaseEffect DEF ClientBound, ClientGivesUp
    <3> QED
      BY <1>0, <2>1, <3>1, <3>2
         DEF Progress, DHCPProgress, StaticProgress, Apart, Outcome, Recorded, OneAddress
  <2>3. CASE "killall" \notin ignored
    <3>1. phase \in {"main", "exited"} \/ dhcp[Main] = "killall"
      BY <1>0, <1>2, <2>3 DEF Progress, Control, ClientsServed
    <3>2. \A t \in Threads : dhcp[t] \in {"idle", "killall"}
      BY <3>1, OneThread
         DEF Progress, Control, PhasesHold, ButtonTruthful, ApplyLabel, ActiveCmds,
             Threads
    <3>3. phase # "tui" /\ static = "idle"
      BY <3>1 DEF Progress, Control, PhasesHold
    <3> QED
      BY <2>1, <3>2, <3>3
         DEF Progress, DHCPProgress, StaticProgress, Apart, Outcome, OneAddress
  <2> QED
    BY <2>2, <2>3
<1> QED
  BY <1>1, <1>2

\* Each command of applyStatic keeps Progress, whether it fails or not.
LEMMA StaticStepProgress ==
    ASSUME Progress, Control', BootAddresses', ApplyStaticStep
    PROVE  Progress'
<1>0. host \in HostState /\ static # "idle"
  BY DEF Progress, Control, TypeOK, ApplyStaticStep, StaticFlush, StaticAddr,
         StaticRoute, StaticResolv, StaticRecord
<1>1. phase = "tui" /\ ~dhcpRunning /\ UNCHANGED <<phase, dhcp, dhcpRunning>>
  BY <1>0 DEF Progress, Apart, Control, PhasesHold, ApplyStaticStep, StaticFlush,
              StaticAddr, StaticRoute, StaticResolv, StaticRecord, StaticGoesOn,
              StaticReturns
<1>2. Apart' /\ DHCPProgress'
  BY <1>1, NoThreadAtWork DEF Apart, DHCPProgress, Progress
<1>3. StaticProgress' /\ OneAddress' /\ Outcome'
  <2> SUFFICES ASSUME Swept'
               PROVE  StaticProgress' /\ OneAddress' /\ Outcome'
    BY DEF StaticProgress, OneAddress, Outcome
  <2>1. CASE StaticFlush
    <3>1. host'.addrs = {} /\ static' = "addr"
      BY <1>0, <2>1 DEF StaticFlush, StaticGoesOn, AddrFlush, HostState, Unnoticed, Swept
    <3> QED
      BY <3>1 DEF StaticProgress, OneAddress, Outcome
  <2>2. CASE StaticAddr
    <3>1. host.addrs = {}
      BY <2>2 DEF StaticAddr, Progress, StaticProgress, Swept
    <3> QED
      BY <1>0, <2>2, <3>1
         DEF StaticAddr, StaticGoesOn, StaticReturns, AddrAdd, HostState,
             StaticProgress, OneAddress, Outcome
  <2>3. CASE StaticRoute
    <3>1. host.addrs = {"Static"}
      BY <2>3 DEF StaticRoute, Progress, StaticProgress, Swept
    <3> QED
      BY <1>0, <2>3, <3>1
         DEF StaticRoute, StaticGoesOn, StaticReturns, RouteReplace, HostState,
             StaticProgress, OneAddress, Outcome
  <2>4. CASE StaticResolv
    <3>1. host.addrs = {"Static"} /\ host.gateway = "Static"
      BY <2>4 DEF StaticResolv, Progress, StaticProgress, Swept
    <3> QED
      BY <1>0, <2>4, <3>1
         DEF StaticResolv, StaticGoesOn, StaticReturns, WriteResolvConf,
             FailedResolvConf, HostState, StaticProgress, OneAddress, Outcome
  <2>5. CASE StaticRecord
    <3>1. /\ Recorded("Static")'
          /\ host'.addrs = host.addrs /\ host'.gateway = host.gateway
          /\ host'.resolvConf = host.resolvConf
          /\ Swept' = Swept
      BY <1>0, <2>5, RecordEffect DEF StaticRecord
    <3>2. host.addrs = {"Static"} /\ host.gateway = "Static" /\ host.resolvConf = "Static"
      BY <2>5, <3>1 DEF StaticRecord, Progress, StaticProgress
    <3>3. static' = "idle"
      BY <2>5 DEF StaticRecord, StaticReturns
    <3>4. ConfiguredBy(host, "Static")' /\ "Static" \in Schemes
      BY <3>1, <3>2 DEF ConfiguredBy, Schemes
    <3> QED
      BY <3>1, <3>2, <3>3, <3>4 DEF StaticProgress, OneAddress, Outcome
  <2> QED
    BY <2>1, <2>2, <2>3, <2>4, <2>5 DEF ApplyStaticStep
<1> QED
  BY <1>2, <1>3 DEF Progress

\* For a user who lets a DHCP request end first, Progress is inductive.
LEMMA ProgressNext == PatientUser /\ Progress /\ [Next]_vars => Progress'
<1> SUFFICES ASSUME PatientUser, Progress, [Next]_vars
             PROVE  Progress'
  OBVIOUS
<1> USE DEF uiVars
<1>0. Control' /\ BootAddresses' /\ TypeOK
  BY ControlNext, BootNext DEF Progress, Control
<1>1. CASE MainLinkUp
  <2>1. \A t \in Threads : dhcp'[t] \in {"idle", "killall"}
    BY <1>0, <1>1
       DEF MainLinkUp, Progress, Control, PhasesHold, ButtonTruthful, ApplyLabel,
           ActiveCmds, Threads, TypeOK
  <2> QED
    BY <1>0, <1>1, <2>1
       DEF MainLinkUp, Progress, DHCPProgress, StaticProgress, Apart, Outcome, OneAddress,
           Control, PhasesHold
<1>2. CASE MainStartsTui
  <2>1. /\ Main \in Threads
        /\ \A t \in Threads : t # Main => dhcp[t] = "idle"
    BY <1>2, OneThread DEF MainStartsTui, Progress, Threads
  <2>2. \A t \in Threads : dhcp'[t] = "idle"
    BY <1>0, <1>2, <2>1 DEF MainStartsTui, TypeOK
  <2>3. Swept => host.addrs = {} \/ Recorded("DHCP")
    BY <1>2, <2>1 DEF MainStartsTui, Progress, DHCPProgress
  <2>4. Swept => host.addrs \subseteq {"DHCP"}
    BY <1>2 DEF MainStartsTui, Progress, BootAddresses, Swept
  <2> QED
    BY <1>0, <1>2, <2>2, <2>3, <2>4
       DEF MainStartsTui, Progress, DHCPProgress, StaticProgress, Apart, Outcome,
           OneAddress, Recorded, Swept
<1>3. ASSUME NEW t \in Threads, ApplyDHCPStep(t)
      PROVE  Progress'
  BY <1>0, <1>3, DHCPStepProgress
<1>4. ASSUME NEW c \in Threads \cup Orphans, ClientBound(c) \/ ClientGivesUp(c)
      PROVE  Progress'
  BY <1>0, <1>4, ClientEndsProgress
<1>5. CASE StaticBegin
  <2>1. ~dhcpRunning /\ phase = "tui"
    BY <1>5 DEF StaticBegin, LoopFree
  <2>2. DHCPProgress'
    BY <1>5, <2>1, NoThreadAtWork DEF StaticBegin, DHCPProgress, Progress
  <2> QED
    BY <1>0, <1>5, <2>1, <2>2
       DEF StaticBegin, Progress, StaticProgress, Apart, Outcome, OneAddress, Swept
<1>6. CASE ApplyStaticStep
  BY <1>0, <1>6, StaticStepProgress
<1>7. CASE SelectMode \/ ClearStatus
  <2>1. /\ UNCHANGED <<phase, dhcp, host, dhcpRunning, static, ignored>>
        /\ status' = "applied" => status = "applied"
    BY <1>7 DEF SelectMode, ClearStatus
  <2>2. DHCPProgress' /\ StaticProgress' /\ Apart' /\ OneAddress'
    BY <2>1
       DEF Progress, DHCPProgress, Recorded, StaticProgress, Apart, OneAddress, Swept
  <2>3. Outcome'
    BY <2>1 DEF Progress, Outcome, Recorded, ConfiguredBy, Swept
  <2> QED
    BY <1>0, <2>2, <2>3 DEF Progress
<1>8. ASSUME NEW t \in Cmds, RequestDHCP(t) \/ DHCPResult(t)
      PROVE  Progress'
  <2>1. CASE RequestDHCP(t)
    <3>1. \A u \in Threads : dhcp'[u] \in {"idle", "killall"}
      BY <1>0, <2>1, NoThreadAtWork
         DEF RequestDHCP, LoopFree, StartDHCP, Progress, TypeOK
    <3> QED
      BY <1>0, <2>1, <3>1
         DEF RequestDHCP, LoopFree, StartDHCP, Progress, DHCPProgress, StaticProgress,
             Apart, Outcome, OneAddress, Swept
  <2>2. CASE DHCPResult(t)
    <3>1. t \in Threads /\ \A u \in Threads : u # t => dhcp[u] = "idle"
      BY <2>2, OneThread DEF DHCPResult, Progress, Threads
    <3>2. \A u \in Threads : dhcp'[u] = "idle"
      BY <1>0, <2>2, <3>1 DEF DHCPResult, TypeOK
    <3>3. \A u \in Threads : dhcp[u] # "flush"
      BY <2>2, <3>1 DEF DHCPResult
    <3>4. UNCHANGED <<phase, host, static, ignored>> /\ static = "idle" /\ ~dhcpRunning'
      BY <2>2 DEF DHCPResult, LoopFree
    <3>5. DHCPProgress' /\ StaticProgress' /\ Apart' /\ OneAddress'
      BY <3>2, <3>3, <3>4
         DEF Progress, DHCPProgress, StaticProgress, Apart, OneAddress, Swept
    <3>6. CASE dhcp[t] = "ok"
      <4>1. Swept => ConfiguredBy(host, "DHCP") /\ Recorded("DHCP")
        BY <3>1, <3>6 DEF Progress, DHCPProgress, ConfiguredBy
      <4>2. "DHCP" \in Schemes
        BY DEF Schemes
      <4>3. Outcome'
        BY <3>4, <4>1, <4>2 DEF Outcome, ConfiguredBy, Recorded, Swept
      <4> QED
        BY <1>0, <3>5, <4>3 DEF Progress
    <3>7. CASE dhcp[t] = "err"
      <4>1. Swept => host.addrs = {}
        BY <3>1, <3>7 DEF Progress, DHCPProgress
      <4>2. status' = "dhcpFailed"
        BY <2>2, <3>7 DEF DHCPResult
      <4>3. Outcome'
        BY <3>4, <4>1, <4>2 DEF Outcome, Swept
      <4> QED
        BY <1>0, <3>5, <4>3 DEF Progress
    <3> QED
      BY <2>2, <3>6, <3>7 DEF DHCPResult
  <2> QED
    BY <1>8, <2>1, <2>2
<1>9. CASE Quit \/ Interrupt
  <2>1. static = "idle"
    BY <1>9 DEF Quit, Interrupt, LoopFree, Progress, Control, PhasesHold
  <2> QED
    BY <1>0, <1>9, <2>1
       DEF Quit, Interrupt, ProgramEnds, Progress, DHCPProgress, StaticProgress, Apart,
           Outcome, OneAddress
<1>10. CASE MainNoLink \/ Respawn
  BY <1>0, <1>10
     DEF MainNoLink, Respawn, Progress, DHCPProgress, Recorded, StaticProgress, Apart,
         Outcome, OneAddress, Swept
<1>11. CASE UNCHANGED vars
  BY <1>0, <1>11
     DEF vars, Progress, DHCPProgress, Recorded, StaticProgress, Apart, Outcome,
         OneAddress, ConfiguredBy, Swept
<1> QED
  BY <1>1, <1>2, <1>3, <1>4, <1>5, <1>6, <1>7, <1>8, <1>9, <1>10, <1>11 DEF Next

\* For that user the machine is always as far as the calls that configure it are.
LEMMA ProgressInvariant == PatientUser => (Spec => []Progress)
<1> SUFFICES ASSUME PatientUser
             PROVE  Spec => []Progress
  OBVIOUS
<1>1. Progress /\ [Next]_vars => Progress'
  BY ProgressNext
<1> QED
  BY <1>1, InitProgress, PTL DEF Spec

\* A settled machine is the machine of Outcome.
LEMMA SettledOutcome ==
    ASSUME Progress, Settled
    PROVE  phase = "tui" /\ static = "idle" /\ ~dhcpRunning
BY DEF Progress, Control, ButtonTruthful, ApplyLabel, ActiveCmds, Settled, Threads

\* For a user who lets a DHCP request end before applying a static configuration, eth0
\* never ends up with the addresses of both once the last killall and the last flush
\* worked, whatever else failed and whatever the earlier ones left.
THEOREM PatientOneScheme == PatientUser => (Spec => []OneScheme)
<1> SUFFICES ASSUME PatientUser
             PROVE  Spec => []OneScheme
  OBVIOUS
<1>1. Progress => OneScheme
  BY DEF Progress, OneAddress, OneScheme, Settled
<1>2. Spec => []Progress
  BY ProgressInvariant
<1> QED
  BY <1>1, <1>2, PTL

\* For that user, and a machine that was swept, "Network settings applied" means that
\* address, route and name servers are of one scheme, and so is the state file unless
\* the last write to it failed.
THEOREM PatientApplied == PatientUser => (Spec => []AppliedMeansConfigured)
<1> SUFFICES ASSUME PatientUser
             PROVE  Spec => []AppliedMeansConfigured
  OBVIOUS
<1>1. Progress => AppliedMeansConfigured
  BY SettledOutcome DEF AppliedMeansConfigured, Progress, Outcome, Recorded
<1>2. Spec => []Progress
  BY ProgressInvariant
<1> QED
  BY <1>1, <1>2, PTL

\* Each command of applyStatic keeps ResolvRecorded: name servers and state file are
\* written one after the other.
LEMMA ResolvStaticStep ==
    ASSUME TypeOK, ResolvRecorded, ApplyStaticStep
    PROVE  ResolvRecorded'
<1>1. CASE StaticFlush \/ StaticAddr \/ StaticRoute
  <2>1. /\ host'.resolvConf = host.resolvConf /\ host'.stateFile = host.stateFile
        /\ static # "stateFile"
    BY <1>1 DEF TypeOK, HostState, StaticFlush, StaticAddr, StaticRoute, AddrFlush,
                AddrAdd, RouteReplace
  <2> QED
    BY <1>1, <2>1
       DEF ResolvRecorded, Recorded, StaticFlush, StaticAddr, StaticRoute, Succeeds,
           Unnoticed
<1>2. CASE StaticResolv
  <2>1. CASE static' = "stateFile"
    BY <2>1 DEF ResolvRecorded
  <2>2. CASE static' # "stateFile"
    <3>1. /\ static # "stateFile" /\ host'.stateFile = host.stateFile
          /\ host'.resolvConf \in {host.resolvConf, "none"}
      BY <1>2, <2>2 DEF TypeOK, HostState, StaticResolv, StaticGoesOn, FailedResolvConf
    <3> QED
      BY <1>2, <3>1 DEF StaticResolv, ResolvRecorded, Recorded
  <2> QED
    BY <2>1, <2>2
<1>3. CASE StaticRecord
  BY <1>3, RecordEffect DEF StaticRecord, TypeOK, ResolvRecorded
<1> QED
  BY <1>1, <1>2, <1>3 DEF ApplyStaticStep

\* Each command of applyDHCP keeps ResolvRecorded: it records DHCP only once the name
\* servers are those of the lease.
LEMMA ResolvDHCPStep ==
    ASSUME Progress, ResolvRecorded, NEW t \in Threads, ApplyDHCPStep(t)
    PROVE  ResolvRecorded'
<1> USE DEF uiVars
<1>0. host \in HostState
  BY DEF Progress, Control, TypeOK
<1>1. CASE KillAll(t)
  BY <1>1 DEF KillAll, ResolvRecorded, Recorded, Succeeds, Unnoticed
<1>2. CASE Flush(t) \/ Link(t) \/ StartClient(t)
  <2>1. host'.resolvConf = host.resolvConf /\ host'.stateFile = host.stateFile
    BY <1>0, <1>2, StartEffect
       DEF Flush, Link, SetLinkUp, StartClient, AddrFlush, LinkUp, HostState
  <2>2. /\ static' = static
        /\ "stateFile" \in ignored' <=> "stateFile" \in ignored
    BY <1>2 DEF Flush, Link, SetLinkUp, StartClient, Succeeds, Unnoticed
  <2> QED
    BY <2>1, <2>2 DEF ResolvRecorded, Recorded
<1>3. CASE WriteDHCP(t)
  <2>1. host.resolvConf = "DHCP"
    BY <1>3 DEF WriteDHCP, Progress, DHCPProgress
  <2>2. host'.resolvConf = host.resolvConf
    BY <1>0, <1>3, RecordEffect DEF WriteDHCP
  <2> QED
    BY <2>1, <2>2 DEF ResolvRecorded
<1> QED
  BY <1>1, <1>2, <1>3 DEF ApplyDHCPStep

\* Relative to Progress, ResolvRecorded is inductive.
LEMMA ResolvNext == Progress /\ ResolvRecorded /\ [Next]_vars => ResolvRecorded'
<1> SUFFICES ASSUME Progress, ResolvRecorded, [Next]_vars
             PROVE  ResolvRecorded'
  OBVIOUS
<1> USE DEF uiVars
<1>0. TypeOK /\ PhasesHold
  BY DEF Progress, Control
<1>1. ASSUME UNCHANGED <<host, ignored>>, static' = static \/ static = "idle"
      PROVE  ResolvRecorded'
  BY <1>1 DEF ResolvRecorded, Recorded
<1>2. CASE MainNoLink \/ MainStartsTui \/ Respawn
  BY <1>0, <1>1, <1>2 DEF MainNoLink, MainStartsTui, Respawn, PhasesHold
<1>10. CASE MainLinkUp
  BY <1>0, <1>10
     DEF MainLinkUp, SetLinkUp, LinkUp, Succeeds, Unnoticed, TypeOK, HostState,
         ResolvRecorded, Recorded
<1>3. ASSUME NEW t \in Threads, ApplyDHCPStep(t)
      PROVE  ResolvRecorded'
  BY <1>3, ResolvDHCPStep
<1>4. ASSUME NEW c \in Threads \cup Orphans, ClientBound(c)
      PROVE  ResolvRecorded'
  BY <1>0, <1>4, LeaseEffect DEF ClientBound, TypeOK, ResolvRecorded
<1>5. ASSUME NEW c \in Threads \cup Orphans, ClientGivesUp(c)
      PROVE  ResolvRecorded'
  BY <1>1, <1>5 DEF ClientGivesUp, ClientEnds
<1>6. CASE StaticBegin \/ SelectMode \/ ClearStatus \/ Quit \/ Interrupt
  BY <1>1, <1>6
     DEF StaticBegin, LoopFree, SelectMode, ClearStatus, Quit, Interrupt, ProgramEnds
<1>7. CASE ApplyStaticStep
  BY <1>0, <1>7, ResolvStaticStep
<1>8. ASSUME NEW t \in Cmds, RequestDHCP(t) \/ DHCPResult(t)
      PROVE  ResolvRecorded'
  BY <1>1, <1>8 DEF RequestDHCP, StartDHCP, DHCPResult
<1>9. CASE UNCHANGED vars
  BY <1>1, <1>9 DEF vars
<1> QED
  BY <1>2, <1>3, <1>4, <1>5, <1>6, <1>7, <1>8, <1>9, <1>10 DEF Next

\* For that user, a swept machine with address, route and name servers of one scheme is
\* shown with it, if the state file could be written last time, whatever reported
\* failure there was before.
THEOREM PatientAddressType == PatientUser => (Spec => []AddressTypeTruthful)
<1> SUFFICES ASSUME PatientUser
             PROVE  Spec => []AddressTypeTruthful
  OBVIOUS
<1>1. Init => ResolvRecorded
  <2>1. FreshHost.resolvConf = "none"
    BY DEF FreshHost
  <2> QED
    BY <2>1 DEF Init, ResolvRecorded
<1>2. Progress /\ ResolvRecorded => AddressTypeTruthful
  <2> SUFFICES ASSUME Progress, ResolvRecorded, Settled, Swept, "stateFile" \notin ignored,
                      NEW s \in Schemes, host.addrs = {s}, host.resolvConf = s
               PROVE  IPAddressType(host) = s
    BY DEF AddressTypeTruthful, ConfiguredBy
  <2>1. host.stateFile = s
    BY SettledOutcome
       DEF Progress, Outcome, ResolvRecorded, Recorded, Schemes
  <2> QED
    BY <2>1 DEF IPAddressType, Schemes
<1>3. Spec => []Progress
  BY ProgressInvariant
<1> QED
  BY <1>1, <1>2, <1>3, ResolvNext, PTL DEF Spec
-------------------------------------------------------------------------------
(* The promise of the button *)

\* The request comes to what the call of applyDHCP behind it comes to.
StageRequest(stage) == IF stage \in {"ok", "err"} THEN stage ELSE "pending"

\* What the button stands for is the stage of the goroutine behind it.
LEMMA RequestShown ==
    Control => \A t \in Cmds : dhcp[t] # "idle" => ButtonRequest = StageRequest(dhcp[t])
<1> SUFFICES ASSUME Control, NEW t \in Cmds, dhcp[t] # "idle"
             PROVE  ButtonRequest = StageRequest(dhcp[t])
  OBVIOUS
<1>1. dhcpRunning /\ \A u \in Cmds : u # t => dhcp[u] = "idle"
  BY OneThread DEF Control, ButtonTruthful, ApplyLabel, ActiveCmds, Threads
<1> QED
  BY <1>1 DEF ButtonRequest, StageRequest

\* Every step is a step of the button's promise, or leaves request and status alone.
LEMMA ButtonStep == Control /\ [Next]_vars => [Button!Next]_<<ButtonRequest, status>>
<1> SUFFICES ASSUME Control, [Next]_vars
             PROVE  Button!Next \/ UNCHANGED <<ButtonRequest, status>>
  OBVIOUS
<1> USE DEF uiVars
<1>0. /\ dhcp \in [Threads -> Stages] /\ Control'
      /\ \A t \in Cmds : t \in Threads /\ t # Main
  BY ControlNext, ConstantsAssumption DEF Control, TypeOK, Threads
<1>1. \A t \in Cmds : dhcp[t] # "idle" => ButtonRequest = StageRequest(dhcp[t])
  BY RequestShown
<1>2. \A t \in Cmds : dhcp'[t] # "idle" => ButtonRequest' = StageRequest(dhcp'[t])
  <2>1. (Control => \A t \in Cmds :
            dhcp[t] # "idle" => ButtonRequest = StageRequest(dhcp[t]))'
    BY RequestShown, PTL
  <2> QED
    BY <1>0, <2>1
<1>3. ASSUME UNCHANGED dhcpRunning, \A t \in Cmds : dhcp'[t] = dhcp[t]
      PROVE  UNCHANGED ButtonRequest
  BY <1>3 DEF ButtonRequest
<1>4. CASE MainLinkUp \/ MainNoLink \/ Respawn
  BY <1>0, <1>3, <1>4 DEF MainLinkUp, MainNoLink, Respawn
<1>5. CASE MainStartsTui
  <2>1. UNCHANGED ButtonRequest /\ status' = ""
    BY <1>5 DEF MainStartsTui, Control, PhasesHold, ButtonRequest
  <2> QED
    BY <2>1 DEF Button!Next, Button!Elsewhere
<1>6. ASSUME NEW t \in Threads, ApplyDHCPStep(t)
      PROVE  Button!Next \/ UNCHANGED <<ButtonRequest, status>>
  <2>1. /\ dhcp[t] \in {"killall", "flush", "link", "udhcpc", "write"}
        /\ UNCHANGED <<dhcpRunning, status>>
    BY <1>6 DEF ApplyDHCPStep, KillAll, Flush, Link, StartClient, WriteDHCP
  <2>2. /\ dhcp'[t] \in {"flush", "link", "udhcpc", "running", "ok"}
        /\ \A u \in Threads : u # t => dhcp'[u] = dhcp[u]
    <3>1. CASE KillAll(t)
      <4>1. \A u \in Threads : u # t => u \notin clients
        BY <2>1, OneThread DEF Control, ClientsServed
      <4> QED
        BY <1>0, <3>1, <4>1 DEF KillAll
    <3>2. CASE Flush(t) \/ Link(t) \/ StartClient(t) \/ WriteDHCP(t)
      BY <1>0, <3>2 DEF Flush, Link, StartClient, WriteDHCP
    <3> QED
      BY <1>6, <3>1, <3>2 DEF ApplyDHCPStep
  <2>3. CASE t = Main
    BY <1>0, <1>3, <2>1, <2>2, <2>3
  <2>4. CASE t \in Cmds
    <3>1. ButtonRequest = "pending" /\ ButtonRequest' \in {"pending", "ok"}
      BY <1>1, <1>2, <2>1, <2>2, <2>4 DEF StageRequest
    <3> QED
      BY <2>1, <3>1 DEF Button!Next, Button!ComesTo
  <2> QED
    BY <2>3, <2>4 DEF Threads
<1>7. ASSUME NEW c \in Threads \cup Orphans, ClientBound(c) \/ ClientGivesUp(c)
      PROVE  Button!Next \/ UNCHANGED <<ButtonRequest, status>>
  <2>1. c \in clients /\ UNCHANGED <<dhcpRunning, status>>
    BY <1>7 DEF ClientBound, ClientGivesUp, ClientEnds
  <2>2. CASE c \in Cmds
    <3>1. dhcp[c] = "running" /\ dhcp'[c] \in {"write", "err"}
      BY <1>0, <1>7, <2>1, <2>2
         DEF ClientBound, ClientGivesUp, ClientEnds, Control, ClientsServed
    <3>2. ButtonRequest = "pending" /\ ButtonRequest' \in {"pending", "err"}
      BY <1>1, <1>2, <2>2, <3>1 DEF StageRequest
    <3> QED
      BY <2>1, <3>2 DEF Button!Next, Button!ComesTo
  <2>3. CASE c \notin Cmds
    BY <1>0, <1>3, <1>7, <2>1, <2>3 DEF ClientBound, ClientGivesUp, ClientEnds
  <2> QED
    BY <2>2, <2>3
<1>8. CASE StaticBegin \/ ApplyStaticStep \/ SelectMode \/ ClearStatus
  <2>1. UNCHANGED ButtonRequest
    BY <1>3, <1>8
       DEF StaticBegin, ApplyStaticStep, StaticFlush, StaticAddr, StaticRoute,
           StaticResolv, StaticRecord, StaticGoesOn, StaticReturns, SelectMode,
           ClearStatus
  <2>2. status' \in {status, "", "applied", "staticFailed"}
    BY <1>8
       DEF StaticBegin, ApplyStaticStep, StaticFlush, StaticAddr, StaticRoute,
           StaticResolv, StaticRecord, StaticGoesOn, StaticReturns, SelectMode,
           ClearStatus
  <2> QED
    BY <2>1, <2>2 DEF Button!Next, Button!Elsewhere
<1>9. ASSUME NEW t \in Cmds, RequestDHCP(t)
      PROVE  Button!Next
  <2>1. ButtonRequest = "none" /\ status' = "requesting"
    BY <1>9 DEF RequestDHCP, StartDHCP, ButtonRequest
  <2>2. dhcp'[t] = "killall"
    BY <1>0, <1>9 DEF RequestDHCP, StartDHCP
  <2>3. ButtonRequest' = "pending"
    BY <1>2, <2>2 DEF StageRequest
  <2> QED
    BY <2>1, <2>3 DEF Button!Next, Button!Accept
<1>10. ASSUME NEW t \in Cmds, DHCPResult(t)
       PROVE  Button!Next
  <2>1. ButtonRequest = dhcp[t] /\ dhcp[t] \in {"ok", "err"}
    BY <1>1, <1>10 DEF DHCPResult, StageRequest
  <2>2. ButtonRequest' = "none"
    BY <1>10 DEF DHCPResult, ButtonRequest
  <2>3. status' = Button!Says[dhcp[t]]
    BY <1>10 DEF DHCPResult, Button!Says
  <2> QED
    BY <2>1, <2>2, <2>3 DEF Button!Next, Button!Answer
<1>11. CASE Quit \/ Interrupt
  <2>1. ButtonRequest' = "none" /\ status' = ""
    BY <1>11 DEF Quit, Interrupt, ProgramEnds, ButtonRequest
  <2> QED
    BY <2>1 DEF Button!Next, Button!Abandon, Button!Elsewhere
<1>12. CASE UNCHANGED vars
  BY <1>3, <1>12 DEF vars
<1> QED
  BY <1>4, <1>5, <1>6, <1>7, <1>8, <1>9, <1>10, <1>11, <1>12 DEF Next

\* Guard, goroutine, dhcpResultMsg and status implement the request that DhcpRequest
\* describes: answered once, with what came of it (the safety part: KeepsButtonPromise
\* without the fairness).
THEOREM ButtonImplementsRequest == Spec => Button!Spec
<1>1. Init => Button!Init
  BY DEF Init, Button!Init, ButtonRequest
<1> QED
  BY <1>1, ButtonStep, ControlInvariant, PTL DEF Spec, Button!Spec
===============================================================================
