----------------------------- MODULE Diagnostics -----------------------------
(***************************************************************************)
(* One troubleshooting run (tui.go).  Update shows a pending row for every *)
(* check of the profile at once; a goroutine makes the checks one after    *)
(* the other, each with an outcome of its own, and the rows it gathered    *)
(* replace the pending ones in one diagResultMsg.  The names of the rows   *)
(* are written twice in the code, in testDisplayName for the pending rows  *)
(* and at each check for the final ones.                                   *)
(*                                                                         *)
(* The host firewall decides which check can pass at all.  Its rules are   *)
(* isobuild/traffic-filter.conf, put in the image as /etc/traffic-filter   *)
(* .conf; nothing in the repository says what loads them.                  *)
(***************************************************************************)
EXTENDS Naturals, Sequences

CONSTANTS
    TlsServers    \* what may answer on port 443 (TlsAnswers)

\* The TLS dial of sslIssuerTest has no timeout: a server that accepts the
\* connection and never answers stalls it.
TlsAnswers == {"refused", "stalls", "noCertificate", "expectedIssuer", "otherIssuer"}

ASSUME DiagnosticsAssumption == TlsServers \subseteq TlsAnswers

Test(type, port) == [testType |-> type, port |-> port]

\* testProfiles, in the order of the list.
TestProfiles ==
    << << Test("dnsResolve", 0), Test("networkPort", 443), Test("sslInterception", 0) >>,
       << Test("networkPort", 8888), Test("networkPort", 10000),
          Test("networkPort", 8080), Test("networkPort", 443) >>,
       << Test("networkPort", 5994) >>,
       << Test("networkPort", 5994) >>,
       << Test("icmpPing", 0) >> >>

Platform == 1     \* the profile "RiverMeadow Platform"

\* "migrate.rivermeadow.com", for which the platform profile also dials the
\* addresses of two backend hosts, any other name, or an IP address.
TargetKinds == {"migrate", "name", "address"}

\* Mutated form: two digits more that are swapped.
EgressPortsMisspelt == {443, 8888, 5594, 8008, 22, 445, 5985, 902}

\* chain output: the rest is dropped, name resolution and ICMP included.
EgressPorts == {443, 8888, 5594, 8080, 22, 445, 5985, 902}

Backends(p, kind) ==
    IF p = Platform /\ kind = "migrate"
    THEN << Test("backend", 1), Test("backend", 2) >> ELSE << >>

VARIABLES
    profile,      \* the profile of the run
    kind,         \* the target of the run
    todo,         \* the checks the goroutine has still to make; << >> if none
    rows,         \* the rows it has gathered
    shown,        \* model.results
    tls,          \* the server the run would meet on port 443
    healthy,      \* the network and the target of the run are without fault
    filtered      \* the rules of the firewall are in force

vars == <<profile, kind, todo, rows, shown, tls, healthy, filtered>>

Row(label, port, status) == [label |-> label, port |-> port, status |-> status]

Labels == {"Running Suite", "DNS Resolution", "TCP", "TCP backend",
           "SSL Issuer Check", "ICMP Ping"}

Rows == [label : Labels, port : Nat, status : {"running", "pass", "fail"}]

TypeOK ==
    /\ profile \in 0..Len(TestProfiles)      \* 0: no run yet
    /\ kind \in TargetKinds
    /\ todo \in Seq([testType : {"backend", "dnsResolve", "networkPort",
                                 "sslInterception", "icmpPing"}, port : Nat])
    /\ rows \in Seq(Rows)
    /\ shown \in Seq(Rows)
    /\ tls \in TlsServers
    /\ healthy \in BOOLEAN /\ filtered \in BOOLEAN

Init ==
    /\ profile = 0 /\ kind = "name"
    /\ todo = << >> /\ rows = << >> /\ shown = << >>
    /\ tls \in TlsServers /\ healthy = FALSE
    /\ filtered \in BOOLEAN

Suite == Row("Running Suite", 0, "pass")

\* Mutated form: the ICMP check has no name of its own.
TestDisplayNameDefault ==
    [dnsResolve |-> "DNS Resolution", networkPort |-> "TCP",
     sslInterception |-> "SSL Issuer Check", icmpPing |-> "icmpPing"]

\* testDisplayName
TestDisplayName ==
    [dnsResolve |-> "DNS Resolution", networkPort |-> "TCP",
     sslInterception |-> "SSL Issuer Check", icmpPing |-> "ICMP Ping"]

PendingResults(p) ==
    << Suite >> \o [i \in DOMAIN TestProfiles[p] |->
        LET t == TestProfiles[p][i] IN Row(TestDisplayName[t.testType], t.port, "running")]

\* Enter on a profile, with a target.  (Several runs at once: Tui.)
Begin(p, k) ==
    /\ rows = << >>
    /\ profile' = p /\ kind' = k
    /\ todo' = Backends(p, k) \o TestProfiles[p]
    /\ rows' = << Suite >>
    /\ shown' = PendingResults(p)
    /\ tls' \in TlsServers /\ healthy' \in BOOLEAN
    /\ UNCHANGED filtered
-------------------------------------------------------------------------------
(* runDiagnostics *)

NextIs(type) == todo # << >> /\ Head(todo).testType = type

\* A check adds its row, pass or fail, and the goroutine goes on to the next.
Check(label, status) ==
    /\ rows' = Append(rows, Row(label, Head(todo).port, status))
    /\ todo' = Tail(todo)
    /\ UNCHANGED <<profile, kind, shown, tls, healthy, filtered>>

\* Packets to this TCP port leave the machine; the name of the target resolves.
LetOut(port) == filtered => port \in EgressPorts
Resolves == filtered => kind = "address"

\* The outcomes of a check whose packets leave the machine, or do not.
Outcomes(leaves) ==
    IF ~leaves THEN {"fail"} ELSE IF healthy THEN {"pass"} ELSE {"pass", "fail"}

BackendCheck ==
    NextIs("backend") /\ \E s \in Outcomes(LetOut(443)) : Check("TCP backend", s)

\* Mutated form: a name that does not resolve ends the run.
DnsFailureEndsRun ==
    /\ NextIs("dnsResolve")
    /\ \/ Check("DNS Resolution", "pass")
       \/ /\ rows' = Append(rows, Row("DNS Resolution", 0, "fail"))
          /\ todo' = << >>
          /\ UNCHANGED <<profile, kind, shown, tls, healthy, filtered>>

\* An address resolves to itself.
DnsCheck ==
    /\ NextIs("dnsResolve")
    /\ \E s \in IF kind = "address" THEN {"pass"} ELSE Outcomes(Resolves) :
          Check("DNS Resolution", s)

PortCheck ==
    /\ NextIs("networkPort")
    /\ \E s \in Outcomes(Resolves /\ LetOut(Head(todo).port)) : Check("TCP", s)

\* What the TLS dial meets.
Dialled == IF Resolves /\ LetOut(443) THEN tls ELSE "refused"

\* Mutated form: a server without certificates leaves no row.
SslNeedsCertificate ==
    /\ NextIs("sslInterception")
    /\ Dialled \notin {"stalls", "noCertificate"}
    /\ Check("SSL Issuer Check", IF Dialled = "expectedIssuer" THEN "pass" ELSE "fail")

SslCheck ==
    /\ NextIs("sslInterception")
    /\ Dialled # "stalls"
    /\ Check("SSL Issuer Check", IF Dialled = "expectedIssuer" THEN "pass" ELSE "fail")

\* Whether Ping got an answer is the matter of module Ping.
PingCheck ==
    NextIs("icmpPing") /\ \E s \in Outcomes(~filtered) : Check("ICMP Ping", s)

\* The goroutine returns, and Update receives its diagResultMsg.
Deliver ==
    /\ rows # << >> /\ todo = << >>
    /\ shown' = rows
    /\ rows' = << >>
    /\ UNCHANGED <<profile, kind, todo, tls, healthy, filtered>>

RunStep == BackendCheck \/ DnsCheck \/ PortCheck \/ SslCheck \/ PingCheck \/ Deliver

Next ==
    \/ \E p \in DOMAIN TestProfiles, k \in TargetKinds : Begin(p, k)
    \/ BackendCheck \/ DnsCheck \/ PortCheck \/ SslCheck \/ PingCheck \/ Deliver

Spec == Init /\ [][Next]_vars

\* Every check but the TLS dial ends, by a timeout if by nothing else.
FairSpec == Spec /\ WF_vars(RunStep)
-------------------------------------------------------------------------------
(* Properties *)

Names(r) == [i \in DOMAIN r |-> <<r[i].label, r[i].port>>]

IsPending(r) == \E i \in DOMAIN r : r[i].status = "running"

\* The final rows answer the pending ones, each under the name it was announced
\* by and in that order, whatever fails on the way, and none is still running;
\* only the backend hosts may come in between, ahead of the announced rows and
\* for the platform profile alone (tui.go:939-955 against :957-1043).
OutcomeAnswersPending ==
    [][IsPending(shown) /\ shown' # shown =>
          /\ ~IsPending(shown')
          /\ \E n \in {0, 2} :
                /\ n = 2 <=> profile = Platform /\ kind = "migrate"
                /\ Names(shown)
                     = <<Names(shown')[1]>> \o SubSeq(Names(shown'), 2 + n, Len(shown'))
      ]_vars

\* A run whose TLS server does not stall comes to an outcome: no check waits for
\* ever (the 2 s of the dials, the deadline of every echo reply).
RunEnds == IsPending(shown) /\ tls # "stalls" ~> ~IsPending(shown)

\* "The following network ports and protocols are allowed for egress network
\* traffic", README.md:75-82.
DocumentedPorts == {5994, 443, 8080, 8888}

\* What the rows of a run tell of the firewall: a TCP check that passed means that
\* name resolution and its port are let out, and on a network without fault the
\* check of an IP address passes for every documented port but 5994, the rules
\* having 5594 (traffic-filter.conf:12-34 against tui.go:42-83, :1003).
RowsTellOfFirewall ==
    \A i \in DOMAIN shown :
        shown[i].label = "TCP" =>
            /\ shown[i].status = "pass" => Resolves /\ LetOut(shown[i].port)
            /\ healthy /\ kind = "address" /\ shown[i].port \in DocumentedPorts \ {5994}
                  => shown[i].status # "fail"

\* On a network without fault the TCP check of a documented port of an IP address
\* passes, whether or not the firewall is in force (traffic-filter.conf:12-34
\* against tui.go:42-83, :1003).
DocumentedPortPasses ==
    healthy /\ kind = "address" =>
        \A i \in DOMAIN shown :
            shown[i].label = "TCP" /\ shown[i].port \in DocumentedPorts
                => shown[i].status # "fail"
==============================================================================
