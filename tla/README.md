# A verification project for the RiverMeadow helper appliance

`rms-helper-vm` is an Alpine based appliance with one program on its console: a
text user interface (Bubble Tea, Go) that configures `eth0`, runs connectivity
checks and restarts or powers off the machine. This directory holds TLA+ models
of that program, TLC configurations that check them on small instances, and
TLAPS proofs of the most important results.

- [The system](#the-system): its parts, their state, how they interact
- [The modules](#the-modules): which module models which part
- [The runs](#the-runs): what TLC checks, with which bounds, and what it shows
- [Fairness](#fairness)
- [The proofs](#the-proofs)
- [Divergences from the documentation](#divergences-from-the-documentation)
- [What is not modelled](#what-is-not-modelled)
- [Plan](#plan)

Running it, in this directory:

    tlc -config Tui_settings.cfg MCTui.tla
    tlapm NetworkApplyProofs.tla      (and TuiProofs, DiagnosticsProofs,
                                       IcmpPacketProofs, PingProofs, VmeDeployProofs)

`PROJECT.json` lists components, runs, the source lines of every definition
("map"), the hazards, and for every property a mutated definition that breaks
it. The mutated forms stand in the modules beside what they mutate, each under a
comment "Mutated form".

## The system

Line numbers are those of `src/`.

| Part | State | Operations | Hard behaviour | Correct when |
|---|---|---|---|---|
| **Network settings** `tui.go:1107-1195`, `:758-781`, `:594-601`; `main.go` | addresses of eth0, default route, `/etc/resolv.conf`, `/tmp/networkstate`; `dhcpRunning`, `networkMode`, `status` | `applyDHCP` (from `main` and from a goroutine), `applyStatic` (inside `Update`), udhcpc, `dhcpResultMsg` | a goroutine, the event loop and a process work on one interface; every command may fail; the program may end between any two and is started again | one udhcpc at a time; the button and the status tell the truth; "applied" and the address type mean what they say; a request ends; a restart falls back to DHCP; and what of this survives the failures the code does not look at |
| **User interface** `tui.go:136-299`, `:585-827` | `model`: section, focus, mode, cursors, question, target, profile, results | `Update`, one message at a time | long sequences of keys over a dozen fields, with results arriving in between; two lists with filters whose matches come late | keys reach the pane on the screen; the machine goes down only after a question answered Yes; the cursor stays on fields that are shown; enter finds a profile selected |
| **Troubleshooting** `tui.go:35-97`, `:611-632`, `:924-1105` | the pending rows, the goroutine of each run, `results` | `pendingResults`, `runDiagnostics`, `sslIssuerTest`, `diagResultMsg` | runs overlap and their results carry no identity; a check may fail or stall | the outcome answers the pending rows; no pending row without a run; the last run is what is shown |
| **ICMP ping** `networkping.go` | the loop, its counters, the raw socket | `Ping`, `Marshal`, `parseICMPReply`, `checksum` | packets lost, late, doubled, or meant for others | it ends; a target understands the request; success means an answer; the loss reported is the loss there was |
| **System Information** `tui.go:301-365`, `:1167-1225` | none: it reads the machine | `currentContent`, `getDefaultGateway`, `getDNSServers`, `getIPAddressType` | the address is read from the kernel, its type from a file | the two agree |
| **Boot and respawn** `isobuild/genapkovl-mkimgoverlay.sh` | inittab, runlevels | init runs the program on tty1 again whenever it ends | | the console comes back |
| **Egress filter** `isobuild/traffic-filter.conf` | a static nftables rule set | | it decides which checks can pass | what the profiles dial is let out |
| **ISO build** `isobuild/*`, `build.sh` | files | | | |
| **Deployment test** `citesting/vme/main.go` | instances and images of a VM Essentials server | `VMEDeploy` | fixed sleeps after deletions, ignored errors, polling without limit, runs that break off | a run replaces what earlier ones left; it tests what it uploaded; it ends |
| **Layout** `tui.go:108-134`, `:182-241`, `:829-913` | sizes | `View` | | presentation only |
| **CI** `.github/workflows/*` | | | | |

How they interact:

- `main()` looks for eth0, runs `applyDHCP` to its end, and starts the TUI on
  `initialModel()`. Without eth0 it returns and init starts it again.
- In the TUI, Bubble Tea's event loop hands messages to `Update` one at a time.
  `Update` may return commands, which run in goroutines of their own; what they
  return comes back as a message (`dhcpResultMsg`, `diagResultMsg`) at any later
  time, whatever the user is doing.
- `applyDHCP` runs in such a goroutine. `applyStatic` does not: it blocks
  `Update`, while the goroutines go on.
- udhcpc configures the interface from its own process, through its own script.
  If the program ends first, it may be left behind.

## The modules

    NetworkHost        the machine's network settings
        ^ EXTENDS
    NetworkApply       applyDHCP, applyStatic, main, event loop, init
        |  Button == INSTANCE DhcpRequest       what the button promises
        ^ EXTENDS
    NetworkApplyProofs

    Tui                the model and Update
        |  Power == INSTANCE PowerControl       when the machine may go down
        ^ EXTENDS
    TuiProofs

    Diagnostics        one troubleshooting run, behind the host firewall or not
        ^ EXTENDS
    DiagnosticsProofs

    IcmpPacket         the bytes of a packet and its checksum
        ^ EXTENDS          ^ EXTENDS
    Ping               IcmpPacketProofs       about the bytes alone
        ^ EXTENDS          ^ EXTENDS
    PingProofs  -----------+

    VmeDeploy          the deployment test and its server
        ^ EXTENDS
    VmeDeployProofs

`MCNetworkApply`, `MCTui` and `MCDiagnostics` give the constants their values for TLC.

**NetworkHost** is the machine as `applyDHCP` and `applyStatic` see it: one record
with the link and the addresses of eth0, the default route, the name servers and the
state file. Each value is abstracted to the scheme (`"DHCP"`, `"Static"`) that put it
there, which is all the properties tell apart. Its operators are the effects of
the commands. Two things are left open because the repository does not decide
them: udhcpc's script may flush the interface and set it up when it starts, and
its address may replace those on the interface or join them.

**NetworkApply** has every command of `applyDHCP` and `applyStatic` as a step of its
own, for any set `Cmds` of goroutines and for the main goroutine. `dhcp[t]` is how
far the call of thread `t` has come, `static` how far the call inside `Update` has,
`clients` the udhcpc processes. The commands in `Faults` may fail, which may be all of
them. Some errors the code returns, and they lead to the status it shows. Others it
discards: those of `killall`, of both flushes, of `ip link set` and of the writes to the
state file (`tui.go:1110-1112`, `:1118`, `:1123`, `:1149`). The auxiliary variable `ignored`
has the discarded failures the same command has not made up for since; no action reads
it, only properties do, where they hold no further than that. `killall` fails when
it leaves a udhcpc behind, be it that it did not run or that its signal is acted on
late; a udhcpc may end at any time. `Quit` is ctrl+c in the TUI, a key that waits until
the event loop is free; `Interrupt` is ctrl+c during `main()`, a signal that may end it
between any two commands. Both end the goroutines and leave a udhcpc hung up or
orphaned; `Orphans` bounds how many are left at once. `Respawn` is init. `PatientUser`
restricts the user, not the code: TRUE means that he applies a static
configuration only when no DHCP request is under way, which `Update` does not ask
of him. Properties that hold only then say so.

**DhcpRequest** is the promise of the button: accept, come to an outcome, answer
once, with the status that says this outcome (`request`, `shown`). Between the requests
the status may be cleared or tell of a static configuration, but nothing other than an
answer says that a request failed. `NetworkApply` is shown to implement it, with the
state of the request read off `dhcpRunning` and the goroutine's stage (`ButtonRequest`),
and `shown` the status itself.

**Tui** has one action per way through `Update`. The global part of `Update` and the
dispatch to the focused pane (`:666`, `:706`, `:810-824`) are the guards
`ManagementFocused`, `NetworkFocused`, `TargetFocused`, `ProfilesFocused` and
`SidebarFocused`. The lists of bubbles (v1.0.0) are an external component: their cursor
moves by one item or to either end, and each can be filtered. `filter` is the state
of the two filters: none, one that is being typed, one that was accepted, and the
items it leaves. A key that changes the text only starts a search; its
`FilterMatchesMsg` (`matches`) comes later, does not say which list it is for, and
`Update` hands it to the list that has the focus by then, if one has. Items of the
sidebar and of the profiles are therefore told apart. `Filters` bounds what a text
may leave. A run of the checks is an entry of `runs`, and
its result arrives whenever it likes. What "Apply Settings" does to the machine is
`NetworkApply`'s matter; here it is its answer that counts.

**PowerControl** is the promise of the System Management pane: asked first, with "No"
on offer, then answered "Yes", and only the order that was asked about.

**Diagnostics** has the profiles, the pending rows and the checks of one run, each
with its outcomes. `tls` is the server the run would meet on port 443. `filtered`
says whether the rules of `isobuild/traffic-filter.conf` are in force, which the
repository leaves open: the file is copied to `/etc/traffic-filter.conf` and nothing
names it to the nftables service. With the rules in force a check passes only if its
TCP port is let out and its target is an address: names are not resolved.
`healthy` is a network and a target without fault.

**IcmpPacket** has `checksum`, `Marshal` and `parseICMPReply` on sequences of bytes. The
loop over the words is `SumOf`, the one over the carries `Carried`, both recursive
functions; `Buffer` is the buffer of `Marshal` before the checksum is in it, and after.

**Ping** has the loop of `Ping` against a network of which `network` says what it may
do on this call; `Init` chooses it. A raw socket receives every ICMP packet of the
target, and `Ping` checks the type only, so the model keeps the packets in the
socket's buffer in order, with the request they answer, if any.

**VmeDeploy** has the calls of `VMEDeploy` one by one against a server of which `server`
says what it may do: refuse a deletion, take longer over it than the sleep that
follows, lack the cluster or the network, leave an instance in "provisioning", bring it to
another status than running, fail any other call (its effect may be there all the same).
`completedStatuses` has two members, "running" and "failed", which stands for all those
of `main.go:317` that are not running. A failed call is logged; what keeps most of them
from doing harm is the type assertion on the missing answer, which panics. The exceptions are steps that go on: the login, the deletions, the upload,
the list of clusters. `RunAgain` starts the test anew, however it ended.

## The runs

| Run | Shows | Bounds |
|---|---|---|
| `NetworkApply_race` | `TypeOK`, `ButtonTruthful`, `AtMostOneClient`, `RequestingIsUnderWay`, `NoBackgroundChange`, `RestartIsDHCP`, and the liveness of `RequestEnds`, `TuiComesBack`, `KeepsButtonPromise`: however the user interleaves requests, static configurations, quits and restarts. Of the failures the code discards, a failed `killall` is excepted from the half of `AtMostOneClient` that speaks of orphans and from `NoBackgroundChange`, a failed flush from `RestartIsDHCP`, until the command works again; nothing else is excepted | two goroutines, one orphan at a time, every fault but that of `ip link set` |
| `NetworkApply_patient` | `AppliedMeansConfigured`, `OneScheme`, `AddressTypeTruthful` for a patient user, where the last `killall` and the last flush worked (`Swept`) and, for what the state file says, the last write to it. Every other failure may have come before | two goroutines, two orphans, every fault |
| `NetworkApply_typeroute`, `NetworkApply_overlap` | `NeverNamesOtherScheme` is violated, see [below](#divergences-from-the-documentation) | |
| `Tui_settings` | `TypeOK`, `FocusMatchesPane`, `QuestionHasFocus`, `FieldCursor`, `KeepsPowerPromise` over every order of keys and results in all panes; `LatestShown`, which asks that a run is started only when none is under way | five fields, two profiles, one target, two runs |
| `Tui_runs` | `PendingHasRun`, `PendingEnds` | three overlapping runs, the first profile may stall |
| `Tui_filter` | `FocusMatchesPane`, `FilteringKeepsFocus`, `PanicNeedsFilter`, with both lists filtered at any time | two profiles, one run, the Troubleshooting pane; a filter leaves three sections in another order, one profile, or none; one search at a time |
| `Tui_selected` | `SelectedIsProfile` is violated, see [below](#divergences-from-the-documentation) | as `Tui_filter` |
| `Diagnostics_run` | `TypeOK`, `OutcomeAnswersPending`, `RunEnds`; `RowsTellOfFirewall`, what the rows of TCP checks tell of the rules | the real profiles, every server on port 443, the firewall or not |
| `Diagnostics_egress` | `DocumentedPortPasses` is violated, see [below](#divergences-from-the-documentation) | as `Diagnostics_run` |
| `Ping_any` | on every one of the 64 kinds of network: `TypeOK`, `PingEnds`, `StatisticsMatchLines`; `SuccessIsAnswered` on those without another process's replies; `LossIsExact` on those that only lose packets or refuse them; `RequestIsUnderstood` | three requests, two stray packets, three process IDs |
| `VmeDeploy_rerun` | against every one of the 128 kinds of server: `TypeOK`; `DoneMeansDeployed`, an instance of the ISO uploaded, running unless the server brings instances to another status; `FailsBeforeItCreates`, said of failed calls other than the login, the upload, the list of clusters and the deletions, after which the code goes on; `ReplacesWhatItFinds` where deletions work in time and at most one instance was there; `DeploymentEnds` unless an instance is stuck | two deployments, at most two instances to begin with |

Why the bounds are enough. The code never has two DHCP goroutines
(`ButtonTruthful`), so that a second one is what a missing guard needs to show
itself, and the proofs hold for any number. Where `NetworkApply_race` has one orphan, a
program that ends with a further udhcpc sees it hung up with the terminal. Its link
always comes up, since that decides what the machine comes to and not who changes it: the
other run has both, and the proofs know no bound and leave out no fault. Troubleshooting
runs differ only in their order: two overlap, a third one starts after the first has
ended. The profiles of `Tui` matter only by whether they stall, so one of each kind will
do; `NFields` is the code's five. `Diagnostics` needs no bounds. The code pings four times; three let an answer
miss its round and the next one, and two stray packets let one be doubled and another
one arrive in the same call. `Visited` keeps the user of `Tui_runs` out of the
other panes, whose fields would multiply the states and do not touch the results; he
can still walk over them in the sidebar.

Of the process IDs of `Ping` one gives a sum
without a carry, one a sum that just carries, and one is the largest. A third
deployment would find what the second one found: what is left is at most one instance
and one image, whole or not, or two of a kind, which no run deletes. `Tui_filter` keeps
the user out of the panes without a list, and `Tui_settings` and `Tui_runs` out of the
filters, whose states would multiply those of the panes.

Deadlock is checked where the system cannot stop. It may stop in `Tui` (the machine
is powered off), `Ping` (the call returns), `Diagnostics` (a stalled TLS server) and
`VmeDeploy` (the last deployment ended).

Every property is broken by the mutated definition named for it in
`PROJECT.json`: `killall` left out, a reset of `dhcpRunning` lost, a question left
open, an unchecked packet type, and so on.

## Fairness

- `NetworkApply!FairSpec`. Commands end and goroutines are scheduled: weak fairness
  of the steps of `applyDHCP` and `applyStatic`. udhcpc gives up without a lease
  because of `-t 2 -n` (`tui.go:1114`): weak fairness of `ClientGivesUp`, and none
  of `ClientBound`, since no DHCP server is promised. init starts the program
  again because of `respawn` in the inittab. The `dhcpResultMsg` needs strong
  fairness: while the user applies static configurations again and again the event
  loop is busy again and again, but the sender waits in its channel and is served
  in turn. Nothing is asked of `MainNoLink`: without a network card the TUI never
  comes up, by design of `main()`, and `TuiComesBack` speaks of the time before and
  after the card is found: the program is started again, and `applyDHCP` of `main()`
  ends in the TUI, unless the user interrupts it, after which the first part holds again.
- `Tui!FairSpec`. A run that cannot stall comes to its result. `Stalling` are the
  profiles with a TLS check, whose dial has no timeout (`tui.go:1046-1052`).
- `Diagnostics!FairSpec`. Checks end by the 2 s of `net.DialTimeout` and the
  deadlines of `Ping` and of the resolver; the TLS check only if the server
  answers or refuses.
- `Ping!FairSpec`. The goroutine runs and the read deadline passes. A
  network with delays owes nothing; without delays every packet arrives or is lost
  before the deadline, which is what "no delay" means.

- `VmeDeploy!FairSpec`. The test runs: each call returns and each sleep ends. The
  server removes what it agreed to remove and comes to a status for an instance,
  unless it is one that does not. Without the latter nothing would end the polling.

Nothing is asked of the user.

## The proofs

Each of the five components has its theorems in a module of its own, and so have the
packets of the ping. Every safety
property the passing runs check is proved, for every value of the constants that the
assumptions named below allow. The strengthenings named here were checked with TLC as
invariants before they were proved.

### Network settings

`NetworkApplyProofs` proves, for any set of goroutines and of orphans, any set of failing
commands and any user, under `ConstantsAssumption` (goroutines, the main thread and
orphans are told apart; `Faults` are failures the model knows):

| Theorem | Says |
|---|---|
| `TypeCorrect` | `Spec => []TypeOK` |
| `ButtonIsTruthful` | the button reads "Requesting..." exactly while one request is under way |
| `OneClientAtATime` | the program never has two udhcpc of its own on eth0; no two work there at all, across restarts, unless the last `killall` left one |
| `RequestingMeansUnderWay` | the status never claims a request that has ended |
| `SettledStaysPut` | nothing but the user's next apply changes a settled machine, unless the last `killall` left a udhcpc |
| `RestartLosesStatic` | after a restart eth0 has DHCP addresses alone, if the flush of `main()` worked |
| `ButtonImplementsRequest` | `Spec => Button!Spec`: the refinement of `DhcpRequest`, the status shown included, without its fairness |

and for a patient user, of a machine whose last `killall` and last flush worked (`Swept`,
part of each property; one that is not swept becomes so with the next apply whose
commands work):

| Theorem | Says |
|---|---|
| `PatientOneScheme` | eth0 does not end up with the addresses of both schemes |
| `PatientApplied` | "applied" means address, route and name servers of one scheme, which the state file names unless the last write to it failed |
| `PatientAddressType` | address, route and name servers of one scheme are shown with its name, if the last write to the state file worked; whatever reported failures came before |

The argument. None of the properties is inductive. `Control` adds to them who may
be at work in which phase: the main thread's `applyDHCP` is under way exactly in the
phase "boot", goroutines and `applyStatic` only in the TUI (`PhasesHold`), and a
udhcpc serves the one thread that waits for it or is an orphan, of which there is none
past a `killall` that worked (`ClientsServed`, which reads `ignored` for it). From it
follows `OneThread`: of all threads one at most is at work. That makes `killall` harmless
to other threads and carries most of the steps. `BootAddresses` adds that once main() has
flushed eth0 only a lease puts an address there.

The results for the patient user rest on `Progress`, which speaks of a swept machine (a
thread that is about to flush excepted, which will make up for it). Since `Apart` holds,
the stage of the only call under way determines what is on the machine (`DHCPProgress`,
`StaticProgress`), and when none is, what the last one left (`Outcome`, `OneAddress`).
`PatientAddressType` needs one fact more, which `Progress`
forgets once a call has ended: who wrote static name servers went on to record it
(`ResolvRecorded`).

### The text user interface

`TuiProofs`, for any number of fields, profiles and runs, under `TuiAssumption`
(there are fields and profiles) and `FiltersAssumption` (a filter finds items of its
list, no more than there are: `list.DefaultFilter` returns a rank for each match):

| Theorem | Says |
|---|---|
| `TypeCorrect` | `Spec => []TypeOK` |
| `FocusIsShown` | the pane with the focus is the pane on the screen |
| `FilteringIsInSidebar` | tab opens no pane while the sidebar's filter is typed |
| `QuestionIsAnswerable` | a question on the screen is in the pane that has the focus |
| `FieldsAreShown` | the cursor of the fields is in use only where they are shown, and starts at the first |
| `PanicOnlyByFilter` | enter finds no profile selected only while the profiles are filtered |
| `PendingIsUnderWay` | pending rows are those of the run started last, which is under way |
| `PatientSeesLatest` | if the user starts one run at a time (`PatientUser`), the outcome shown is that of the last |
| `KeepsPower` | `Spec => Power!Spec`: the refinement of `PowerControl` |

The argument. `Typed` adds to the types that a list, filtered or not, has no more items
than it started with, so that a cursor that fits one of its views fits the others too.
`Panes` has the three properties about the focus at once: what keeps tab from
giving the focus to a pane the screen does not show is that a sidebar whose filter is
typed has its cursor on the first section, and a late `FilterMatchesMsg` goes to the
list that has the focus, which may be the other one. `Fields` remembers through DHCP
mode that the fields were left by the first one. `Selection` says that the cursor is
on the first profile while a filter is typed: esc brings all items back, and the
selection with them. `Latest` says of the patient user that no run but the last can
be under way, so that no older result is to come. `KeepsPower` goes step by step: each
action of `Tui` is an `Ask`, `Turn`, `Withdraw`, `Execute`, `Restart` or a stutter.

### Troubleshooting

`DiagnosticsProofs`, for any servers, targets and networks, under `DiagnosticsAssumption`:

| Theorem | Says |
|---|---|
| `TypeCorrect` | `Spec => []TypeOK` |
| `OutcomeMatches` | the rows of the outcome answer the pending ones, by name and in order, whatever fails |
| `FirewallIsTold` | a TCP check that passed was let out, and on a network without fault no check of a documented port fails but that of 5994 |

The argument. The rows shown first and those that replace them are written by
different code at different times. `Gathered` says how far the goroutine is: the rows it
has are those of the first checks, each under its name, and the others are to be made.
`Awaited` says that pending rows are those of the profile under way. When nothing is left
to do, `RowsAnswer` compares the two sequences name by name, the backend rows between
them. What the firewall lets a check find is in the rows long before they are shown:
`RowsTell` says of the gathered rows what `RowsTellOfFirewall` says of the shown ones, and
`OnePortMisspelt` that the rules have every documented port but one.

### Ping

`PingProofs`, for any number of requests and of stray packets, under `PingAssumption`:

| Theorem | Says |
|---|---|
| `TypeCorrect` | `Spec => []TypeOK` |
| `StatisticsAreOfLines` | the statistics count the lines, and no line shows an answer to a request not yet sent |
| `SuccessWasAnswered` | a ping that succeeds was answered, other processes' replies apart |
| `LossReportedIsLoss` | on a network that only loses packets the loss reported is the loss there was |
| `RequestsAreUnderstood` | the target answers every request, and the answer is read as one to it; assumes `Count < 2^16` |

The argument. `RoundsCounted` has a line for each round that is over. A reply may lie in
the socket's buffer for rounds before it is read, so `AnswersSent` says of the whole buffer
that it answers requests already sent. `InStep` is about a network that only loses:
between rounds nothing is on its way, and within one the request is on its way
(`OnItsWay`), lost (`Quiet`), or its answer is the only packet in the buffer (`Arrived`).
`RequestsAreUnderstood` needs no more of the loop than that a request has the number of
its round; the rest is about bytes. Its assumption is the width of that number: the code
cuts it to 16 bits (`networkping.go:123`) and asks for 4 rounds (`tui.go:1024`).

`IcmpPacketProofs` is about the operators alone, for every packet there is:

| Theorem | Says |
|---|---|
| `SumFitsItsVariable` | for data of up to 65535 bytes the sum of the words is below 2^32, so that the `uint32` of `networkping.go:32` does not wrap |
| `ChecksumVerifies` | the words of a marshalled packet, its checksum among them, sum up to 0 modulo 2^16 - 1, and `checksum` of it is 0 |
| `AnswerIsRead` | the echo of a packet, behind any IP header of 20 bytes, is not too short for `parseICMPReply`, which reads from it what was sent |

The argument. That a recursive function is defined everywhere, or has a closed form, is
proved by the number where that fails first: `LeastNumber` gives a set of naturals its
least element, from the well-founded order of the library. So the loop over the carries
is a remainder (`CarriedIsFolded`: 1 to 65535 for a positive sum, congruent to it), and
writing a word into a buffer that has 0 there adds it to the sum (`SumShifted`). The
checksum is written where `Buffer` has 0 (`ChecksumInSecondWord`), which makes the new sum
a multiple of 2^16 - 1.

### The deployment test

`VmeDeployProofs`, for any number of runs and of what was there before, under
`VmeDeployAssumption`:

| Theorem | Says |
|---|---|
| `TypeCorrect` | `Spec => []TypeOK` |
| `DoneIsDeployed` | a deployment without a failed call has an instance that boots its own ISO and has come to a status, which is running unless the server brings instances to another |
| `FailureCreatesNothing` | no instance is created after a failed call other than the login, the upload, the list of clusters and the deletions, after which the code goes on |
| `ReplacesItsLeftovers` | where deletions work in time and at most one of each was there, there is never more than one |

The argument. `Progress` says what a run has made by the step it is at and which calls can
have failed by then; `Provisions`, that an instance has no status its server does not
bring one to. `Orderly` is about a server that deletes in time. Either it
had more than one to begin with (`Crowded`), or it is `Tidy`: from the deletion of the
old instance to the creation of the new one there is none at all, and the same for
the images; a run may break off anywhere between. That what the server has is finite
is proved with it, since the property counts.

### Only model-checked

- Liveness: `RequestEnds`, `TuiComesBack`, `PendingEnds`, `RunEnds`, `PingEnds`,
  `DeploymentEnds`, and the fairness of `KeepsButtonPromise` (its safety is
  `ButtonImplementsRequest`). Properties under fairness are out of the prover's reach.
- The four properties that are violated.

The induction theorems of the library take an operator as a parameter, which the
provers cannot instantiate. Where a proof needs induction over data it takes the least
counterexample instead (`LeastNumber`, above).

## Divergences from the documentation

`docs/ApplianceDesign.md:14` says that the pane shows "the IP addressing scheme used
(DHCP or Static)". `NeverNamesOtherScheme` asks the least of it: never the scheme the
address does not have. TLC finds two ways to it:

- `NetworkApply_typeroute`: a lease is obtained, then a static configuration
  is applied whose gateway is refused. `applyStatic` returns at `tui.go:1137`, before
  it writes the state file; eth0 has the static address, the pane says "DHCP".
- `NetworkApply_overlap`: no command fails. The user requests DHCP, switches to
  static mode and applies while the request is under way; `Update` guards a second
  DHCP request (`:760`) but not this. `applyDHCP` writes "DHCP" last.

`tui.go:621` asserts `m.profiles.SelectedItem().(item).title`: that an item is selected.
`Tui_selected` types `/`, a text that matches no profile, and enter with a target.
`SelectedItem()` is nil and the assertion panics; Bubble Tea ends the program, and the
next one starts with DHCP. `PanicNeedsFilter` says that nothing but a filter leads there.

`README.md:75-82` lists the ports the firewall lets out, 5994 among them.
`traffic-filter.conf:19` has 5594: `Diagnostics_egress` finds that the check of 5994 fails
against a healthy target once the rules are in force.

Without a run of their own:

- `applyDHCP` is to "Kill any existing udhcpc on this interface" (`tui.go:1108`) and to start
  from an empty interface, as far as the commands work whose errors it discards. If a flush
  fails (`:1111`, `:1123`) and the rest does not, "Network settings applied" is shown with
  both addresses on eth0, and a static address survives a restart. If `killall` leaves a
  udhcpc (`:1110`), it may change a machine later that was settled. The properties name
  these failures (`ignored`).
- `citesting/vme/main.go:332` prints that the instance "has become ready" for every status
  of `:317`: failed, denied and cancelled ones too. `DoneMeansDeployed` asks for a running
  instance only of a server that brings instances there.
- With the rules in force port 10000 (`tui.go:57`), ICMP and DNS are dropped too; the
  table of `README.md` does not list them, the profiles need them.
- `README.md:67` says that the host firewall restricts the traffic; what would load
  the rules is not in the repository (see Diagnostics above).
- `citesting/vme/main.go:273` says "Error out if the defined network is unable to be
  found"; the code logs it, and asks for an instance on network 0 (`CreateInstance`
  leaves it to the server whether it accepts).
- `Index()` counts the items a filter of the sidebar leaves, so that the pane shown is
  not the section the cursor stands on (`tui.go:302`).

## What is not modelled

- Values: addresses, masks, host names, round-trip times, issuers, wording and
  layout. `maskToCIDR` counts as accepting or rejecting.
- The help of the two lists (`?`), and the sizes of the window: what View draws.
- How `getDefaultGateway`, `getDNSServers` and the loop over the interfaces
  (`tui.go:305-344`) take words from the output of a command or a file: parsing
  of text the repository does not define. What they read is `NetworkHost`.
- udhcpc and its script, the kernel, bubbles and Bubble Tea: external, modelled by
  what the code relies on.
- `reboot` and `poweroff` are orders; the shutdown itself is one step.
- Boot up to the first start of the program and the ISO build: scripts that run
  once, in one order, on files; and CI, the configuration of an external service.
- `Tui` and `NetworkApply` composed. They meet at three places: a request is accepted,
  its result comes back, `applyStatic` returns. `Tui` relies there on
  `NetworkApply!ButtonTruthful`, which is proved; the rest of either state is unknown
  to the other, so that their product would multiply the states and say little more.

`PROJECT.json` lists each part with its status, and every hazard no property covers
yet, with the reason.

## Plan

Done: `NetworkHost`, `NetworkApply`, `DhcpRequest` and their proofs; `Tui` and
`PowerControl`, with the filters of the lists; `Diagnostics` with the firewall;
`IcmpPacket` and `Ping`; `VmeDeploy`; and the proofs of all five.

Left: what the hazards without a property need (see `PROJECT.json`). An abstract specification of a run (announced,
under way, answered) would repeat what `OutcomeAnswersPending` says of `Diagnostics` and
`PendingHasRun` and `LatestShown` say of `Tui`, and is not written for that reason.
