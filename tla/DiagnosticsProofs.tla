--------------------------- MODULE DiagnosticsProofs ---------------------------
(***************************************************************************)
(* Proofs about Diagnostics, for any server, target and network.           *)
(*                                                                         *)
(* That the rows which replace the pending ones bear their names, in their *)
(* order, is said of two sequences of rows built by different code at      *)
(* different times.  Gathered ties the rows of the goroutine to the checks *)
(* of its profile, one by one; Awaited ties what is shown meanwhile to the *)
(* same profile.                                                           *)
(***************************************************************************)
EXTENDS Diagnostics, SequenceTheorems, TLAPS

Tests == [testType : {"backend", "dnsResolve", "networkPort",
                      "sslInterception", "icmpPing"}, port : Nat]

\* What the goroutine of this run has to check, in order.
Checks == Backends(profile, kind) \o TestProfiles[profile]

\* The name under which the row of a check appears.
Announced(t) ==
    <<IF t.testType = "backend" THEN "TCP backend" ELSE TestDisplayName[t.testType], t.port>>

\* The rows gathered are those of the first checks, and the others are to be made.
Gathered ==
    /\ rows = << >> => todo = << >>
    /\ rows # << >> =>
          /\ profile \in DOMAIN TestProfiles
          /\ Len(rows) \in 1..Len(Checks) + 1
          /\ Len(todo) = Len(Checks) + 1 - Len(rows)
          /\ \A j \in DOMAIN todo : todo[j] = Checks[Len(rows) - 1 + j]
          /\ rows[1] = Suite
          /\ \A i \in DOMAIN rows :
                /\ rows[i].status # "running"
                /\ i > 1 => <<rows[i].label, rows[i].port>> = Announced(Checks[i - 1])

\* Pending rows are those of the run that is under way.
Awaited == IsPending(shown) => rows # << >> /\ shown = PendingResults(profile)
-------------------------------------------------------------------------------
(* The profiles *)

\* There are five profiles.
LEMMA FiveProfiles == DOMAIN TestProfiles = 1..5 /\ Len(TestProfiles) = 5
BY DEF TestProfiles

\* A profile is a sequence of tests, none of them of a backend host.
LEMMA ProfileTyped ==
    ASSUME NEW p \in DOMAIN TestProfiles
    PROVE  /\ TestProfiles[p] \in Seq(Tests)
           /\ \A i \in DOMAIN TestProfiles[p] : TestProfiles[p][i].testType # "backend"
<1>1. \A t \in {"dnsResolve", "networkPort", "sslInterception", "icmpPing"}, n \in Nat :
         Test(t, n) \in Tests /\ Test(t, n).testType # "backend"
  BY DEF Test, Tests
<1>2. /\ Test("dnsResolve", 0) \in Tests /\ Test("sslInterception", 0) \in Tests
      /\ Test("icmpPing", 0) \in Tests
      /\ \A n \in Nat : Test("networkPort", n) \in Tests
      /\ Test("dnsResolve", 0).testType # "backend"
      /\ Test("sslInterception", 0).testType # "backend"
      /\ Test("icmpPing", 0).testType # "backend"
      /\ \A n \in Nat : Test("networkPort", n).testType # "backend"
  BY <1>1
<1>3. p \in {1, 2, 3, 4, 5}
  BY FiveProfiles
<1>4. CASE p = 1
  BY <1>2, <1>4 DEF TestProfiles
<1>5. CASE p = 2
  BY <1>2, <1>5 DEF TestProfiles
<1>6. CASE p = 3
  BY <1>2, <1>6 DEF TestProfiles
<1>7. CASE p = 4
  BY <1>2, <1>7 DEF TestProfiles
<1>8. CASE p = 5
  BY <1>2, <1>8 DEF TestProfiles
<1> QED
  BY <1>3, <1>4, <1>5, <1>6, <1>7, <1>8

\* The backend hosts are two or none.
LEMMA BackendsTyped ==
    ASSUME NEW p, NEW k
    PROVE  /\ Backends(p, k) \in Seq(Tests)
           /\ Len(Backends(p, k)) = IF p = Platform /\ k = "migrate" THEN 2 ELSE 0
<1>1. Test("backend", 1) \in Tests /\ Test("backend", 2) \in Tests
  BY DEF Test, Tests
<1> QED
  BY <1>1 DEF Backends

\* The checks of a run are tests.
LEMMA ChecksTyped ==
    ASSUME profile \in DOMAIN TestProfiles
    PROVE  /\ Checks \in Seq(Tests)
           /\ Len(Checks) = Len(Backends(profile, kind)) + Len(TestProfiles[profile])
           /\ \A i \in DOMAIN TestProfiles[profile] :
                 Checks[Len(Backends(profile, kind)) + i] = TestProfiles[profile][i]
<1>1. Backends(profile, kind) \in Seq(Tests) /\ TestProfiles[profile] \in Seq(Tests)
  BY BackendsTyped, ProfileTyped
<1> QED
  BY <1>1, ConcatProperties, LenProperties DEF Checks

\* A test has a name, and the row of a test under its name is a row.
LEMMA NameTyped ==
    ASSUME NEW t \in Tests, t.testType # "backend"
    PROVE  TestDisplayName[t.testType] \in Labels
<1>1. t.testType \in {"dnsResolve", "networkPort", "sslInterception", "icmpPing"}
  BY DEF Tests
<1>2. /\ TestDisplayName["dnsResolve"] = "DNS Resolution"
      /\ TestDisplayName["networkPort"] = "TCP"
      /\ TestDisplayName["sslInterception"] = "SSL Issuer Check"
      /\ TestDisplayName["icmpPing"] = "ICMP Ping"
  BY DEF TestDisplayName
<1> QED
  BY <1>1, <1>2 DEF Labels

\* The rows shown at the beginning of a run.
LEMMA PendingTyped ==
    ASSUME NEW p \in DOMAIN TestProfiles
    PROVE  /\ PendingResults(p) \in Seq(Rows)
           /\ Len(PendingResults(p)) = 1 + Len(TestProfiles[p])
           /\ PendingResults(p)[1] = Suite
           /\ \A i \in DOMAIN TestProfiles[p] :
                 LET t == TestProfiles[p][i]
                 IN  PendingResults(p)[1 + i] = Row(TestDisplayName[t.testType], t.port, "running")
<1> DEFINE pend == [i \in DOMAIN TestProfiles[p] |->
              Row(TestDisplayName[TestProfiles[p][i].testType], TestProfiles[p][i].port, "running")]
<1>1. TestProfiles[p] \in Seq(Tests)
  BY ProfileTyped
<1>2. DOMAIN TestProfiles[p] = 1..Len(TestProfiles[p]) /\ Len(TestProfiles[p]) \in Nat
  BY <1>1
<1>3. \A i \in DOMAIN TestProfiles[p] :
         Row(TestDisplayName[TestProfiles[p][i].testType], TestProfiles[p][i].port, "running") \in Rows
  <2> TAKE i \in DOMAIN TestProfiles[p]
  <2>1. TestProfiles[p][i] \in Tests
    BY <1>1
  <2>2. TestDisplayName[TestProfiles[p][i].testType] \in Labels
    BY <2>1, NameTyped, ProfileTyped
  <2>3. TestProfiles[p][i].port \in Nat
    BY <2>1 DEF Tests
  <2> QED
    BY <2>2, <2>3 DEF Row, Rows
<1>4. pend \in Seq(Rows) /\ Len(pend) = Len(TestProfiles[p])
  BY <1>2, <1>3
<1>5. Suite \in Rows
  BY DEF Suite, Row, Rows, Labels
<1>6. PendingResults(p) = << Suite >> \o pend
  BY DEF PendingResults
<1>7. \A i \in DOMAIN TestProfiles[p] : pend[i]
         = Row(TestDisplayName[TestProfiles[p][i].testType], TestProfiles[p][i].port, "running")
  OBVIOUS
<1> HIDE DEF pend
<1>8. << Suite >> \in Seq(Rows) /\ Len(<< Suite >>) = 1 /\ << Suite >>[1] = Suite
  BY <1>5
<1>9. /\ PendingResults(p) \in Seq(Rows)
      /\ Len(PendingResults(p)) = 1 + Len(pend)
      /\ PendingResults(p)[1] = Suite
      /\ \A j \in 1..Len(pend) : PendingResults(p)[1 + j] = pend[j]
  <2> DEFINE head == << Suite >>
  <2>1. head \in Seq(Rows) /\ Len(head) = 1 /\ head[1] = Suite
    BY <1>8
  <2>2. PendingResults(p) = head \o pend
    BY <1>6
  <2> HIDE DEF head
  <2>3. /\ head \o pend \in Seq(Rows) /\ Len(head \o pend) = Len(head) + Len(pend)
        /\ \A m \in 1..Len(head) + Len(pend) :
              (head \o pend)[m] = IF m <= Len(head) THEN head[m] ELSE pend[m - Len(head)]
    BY <1>4, <2>1, ConcatProperties
  <2>4. Len(pend) \in Nat
    BY <1>4, <1>2
  <2>5. (head \o pend)[1] = Suite
    BY <2>1, <2>3, <2>4
  <2>6. \A j \in 1..Len(pend) : (head \o pend)[1 + j] = pend[j]
    BY <2>1, <2>3, <2>4
  <2> QED
    BY <2>1, <2>2, <2>3, <2>5, <2>6
<1> QED
  BY <1>2, <1>4, <1>7, <1>9
-------------------------------------------------------------------------------
(* The run *)

\* Before the first run there is nothing.
LEMMA InitGathered == Init => TypeOK /\ Gathered /\ Awaited
<1> SUFFICES ASSUME Init
             PROVE  TypeOK /\ Gathered /\ Awaited
  OBVIOUS
<1>1. profile \in 0..Len(TestProfiles) /\ kind \in TargetKinds
  BY FiveProfiles DEF Init, TargetKinds
<1>2. healthy \in BOOLEAN /\ filtered \in BOOLEAN
  BY Zenon DEF Init
<1>3. /\ todo \in Seq(Tests) /\ rows \in Seq(Rows) /\ shown \in Seq(Rows) /\ tls \in TlsServers
  BY DEF Init
<1>4. TypeOK
  BY <1>1, <1>2, <1>3 DEF TypeOK, Tests
<1>5. Gathered /\ Awaited
  BY DEF Init, Gathered, Awaited, IsPending
<1> QED
  BY <1>4, <1>5

\* A run begins with its checks to make.
LEMMA BeginGathered ==
    ASSUME TypeOK, NEW p \in DOMAIN TestProfiles, NEW k \in TargetKinds, Begin(p, k)
    PROVE  (TypeOK /\ Gathered /\ Awaited)'
<1>1. /\ profile' = p /\ kind' = k /\ rows' = << Suite >> /\ shown' = PendingResults(p)
      /\ tls' \in TlsServers /\ filtered' = filtered /\ todo' = Checks'
  BY DEF Begin, Checks
<1>2. healthy' \in BOOLEAN /\ filtered \in BOOLEAN
  BY Zenon DEF Begin, TypeOK
<1>3. Suite \in Rows /\ Suite.status # "running"
  BY DEF Suite, Row, Rows, Labels
<1>4. rows' \in Seq(Rows) /\ Len(rows') = 1 /\ rows'[1] = Suite /\ DOMAIN rows' = {1}
  BY <1>1, <1>3
<1>5. Checks' \in Seq(Tests)
  BY <1>1, BackendsTyped, ProfileTyped, ConcatProperties DEF Checks
<1>6. Len(Checks') \in Nat /\ DOMAIN Checks' = 1..Len(Checks')
  BY <1>5
<1>7. profile' \in 0..Len(TestProfiles) /\ profile' \in DOMAIN TestProfiles
  BY <1>1, FiveProfiles
<1>8. shown' \in Seq(Rows)
  BY <1>1, PendingTyped
<1>9. TypeOK'
  BY <1>1, <1>2, <1>4, <1>5, <1>7, <1>8 DEF TypeOK, Tests
<1>10. Gathered'
  <2>1. \A j \in DOMAIN todo' : todo'[j] = Checks'[Len(rows') - 1 + j]
    BY <1>1, <1>4, <1>6
  <2>2. \A i \in DOMAIN rows' : rows'[i].status # "running" /\ ~(i > 1)
    BY <1>3, <1>4
  <2>3. Len(rows') \in 1..Len(Checks') + 1 /\ Len(todo') = Len(Checks') + 1 - Len(rows')
    BY <1>1, <1>4, <1>6
  <2>4. rows' # << >>
    BY <1>1
  <2> QED
    BY <1>4, <1>7, <2>1, <2>2, <2>3, <2>4 DEF Gathered
<1>11. Awaited'
  BY <1>1 DEF Awaited, IsPending, PendingResults
<1> QED
  BY <1>9, <1>10, <1>11

\* A check adds a row under its own name.
LEMMA CheckGathers ==
    ASSUME TypeOK, Gathered, Awaited, todo # << >>,
           NEW label \in Labels, NEW status \in {"pass", "fail"},
           <<label, Head(todo).port>> = Announced(Head(todo)),
           Check(label, status)
    PROVE  (TypeOK /\ Gathered /\ Awaited)'
<1> DEFINE row == Row(label, Head(todo).port, status)
<1>1. /\ rows' = Append(rows, row) /\ todo' = Tail(todo)
      /\ UNCHANGED <<profile, kind, shown, tls, healthy, filtered>>
  BY DEF Check
<1>2. /\ todo \in Seq(Tests) /\ rows \in Seq(Rows) /\ rows # << >>
      /\ profile \in DOMAIN TestProfiles
  BY DEF TypeOK, Tests, Gathered
<1>3. row \in Rows /\ <<row.label, row.port>> = Announced(Head(todo)) /\ row.status # "running"
  <2>1. Head(todo) \in Tests
    BY <1>2, HeadTailProperties
  <2>2. Head(todo).port \in Nat
    BY <2>1 DEF Tests
  <2> QED
    BY <2>2 DEF Row, Rows
<1> HIDE DEF row
<1>4. /\ rows' \in Seq(Rows) /\ rows' # << >> /\ Len(rows') = Len(rows) + 1
      /\ \A i \in 1..Len(rows) : rows'[i] = rows[i]
      /\ rows'[Len(rows) + 1] = row
      /\ DOMAIN rows = 1..Len(rows) /\ DOMAIN rows' = 1..Len(rows')
  BY <1>1, <1>2, <1>3, AppendProperties, LenProperties
<1>5. /\ todo' \in Seq(Tests) /\ Len(todo') = Len(todo) - 1
      /\ \A j \in 1..Len(todo') : todo'[j] = todo[j + 1]
      /\ DOMAIN todo = 1..Len(todo) /\ DOMAIN todo' = 1..Len(todo') /\ Len(todo) \in Nat \ {0}
      /\ Head(todo) = todo[1]
  BY <1>1, <1>2, HeadTailProperties, LenProperties
<1>6. TypeOK'
  BY <1>1, <1>4, <1>5 DEF TypeOK, Tests
<1>7. Checks' = Checks
  BY <1>1 DEF Checks
<1>8. Len(Checks) \in Nat
  BY <1>2, ChecksTyped
<1>9. /\ Len(rows) \in 1..Len(Checks) + 1
      /\ Len(todo) = Len(Checks) + 1 - Len(rows)
      /\ \A j \in DOMAIN todo : todo[j] = Checks[Len(rows) - 1 + j]
      /\ rows[1] = Suite
      /\ \A i \in DOMAIN rows :
            /\ rows[i].status # "running"
            /\ i > 1 => <<rows[i].label, rows[i].port>> = Announced(Checks[i - 1])
  BY <1>2 DEF Gathered
<1>10. Head(todo) = Checks[Len(rows)]
  <2>1. 1 \in DOMAIN todo /\ Len(rows) - 1 + 1 = Len(rows)
    BY <1>5, <1>8, <1>9
  <2> QED
    BY <1>5, <1>9, <2>1
<1>11. /\ Len(rows') \in 1..Len(Checks) + 1
       /\ Len(todo') = Len(Checks) + 1 - Len(rows')
       /\ Len(rows) \in Nat
  <2>1. Len(rows) \in 1..Len(Checks) + 1 /\ Len(todo) = Len(Checks) + 1 - Len(rows)
    BY <1>9
  <2>2. Len(todo) \in Nat \ {0} /\ Len(todo') = Len(todo) - 1 /\ Len(rows') = Len(rows) + 1
    BY <1>4, <1>5
  <2> QED
    BY <1>8, <2>1, <2>2
<1>12. ASSUME NEW j \in DOMAIN todo'
       PROVE  todo'[j] = Checks[Len(rows') - 1 + j]
  <2>1. j + 1 \in DOMAIN todo /\ Len(rows) - 1 + (j + 1) = Len(rows') - 1 + j
    <3>1. j \in 1..Len(todo') /\ Len(todo') = Len(todo) - 1 /\ Len(todo) \in Nat
          /\ DOMAIN todo = 1..Len(todo) /\ Len(rows') = Len(rows) + 1
      BY <1>4, <1>5
    <3> QED
      BY <1>11, <3>1
  <2>2. todo'[j] = todo[j + 1] /\ todo[j + 1] = Checks[Len(rows) - 1 + (j + 1)]
    BY <1>5, <1>9, <2>1
  <2> QED
    BY <2>1, <2>2
<1>13. rows'[1] = Suite
  <2>1. 1 \in 1..Len(rows)
    BY <1>8, <1>9
  <2> QED
    BY <1>4, <1>9, <2>1
<1>14. ASSUME NEW i \in DOMAIN rows'
       PROVE  /\ rows'[i].status # "running"
              /\ i > 1 => <<rows'[i].label, rows'[i].port>> = Announced(Checks[i - 1])
  <2>1. CASE i \in DOMAIN rows
    BY <1>4, <1>9, <2>1
  <2>2. CASE i = Len(rows) + 1
    <3>1. i - 1 = Len(rows)
      BY <1>8, <1>9, <2>2
    <3> QED
      BY <1>3, <1>4, <1>10, <2>2, <3>1
  <2> QED
    BY <1>4, <1>8, <1>9, <2>1, <2>2
<1>15. Gathered'
  BY <1>1, <1>2, <1>4, <1>7, <1>11, <1>12, <1>13, <1>14 DEF Gathered
<1>16. Awaited'
  BY <1>1, <1>4 DEF Awaited, IsPending, PendingResults
<1> QED
  BY <1>6, <1>15, <1>16

\* The outcome of a check is to pass or to fail.
LEMMA OutcomesTyped == \A b : Outcomes(b) \subseteq {"pass", "fail"}
BY DEF Outcomes

\* Every step of a run keeps its rows in order.
LEMMA NextGathered == TypeOK /\ Gathered /\ Awaited /\ [Next]_vars => (TypeOK /\ Gathered /\ Awaited)'
<1> SUFFICES ASSUME TypeOK, Gathered, Awaited, [Next]_vars
             PROVE  (TypeOK /\ Gathered /\ Awaited)'
  OBVIOUS
<1>1. CASE UNCHANGED vars
  BY <1>1 DEF vars, TypeOK, Gathered, Awaited, Checks, IsPending, PendingResults
<1>2. ASSUME NEW p \in DOMAIN TestProfiles, NEW k \in TargetKinds, Begin(p, k)
      PROVE  (TypeOK /\ Gathered /\ Awaited)'
  BY <1>2, BeginGathered
<1>3. ASSUME NEW label \in Labels, NEW type, NEW status \in {"pass", "fail"},
             NextIs(type), Check(label, status),
             label = IF type = "backend" THEN "TCP backend" ELSE TestDisplayName[type]
      PROVE  (TypeOK /\ Gathered /\ Awaited)'
  <2>1. <<label, Head(todo).port>> = Announced(Head(todo)) /\ todo # << >>
    BY <1>3 DEF NextIs, Announced
  <2> QED
    BY <1>3, <2>1, CheckGathers
<1>4. /\ "TCP backend" \in Labels /\ "DNS Resolution" \in Labels /\ "TCP" \in Labels
      /\ "SSL Issuer Check" \in Labels /\ "ICMP Ping" \in Labels
      /\ TestDisplayName["dnsResolve"] = "DNS Resolution"
      /\ TestDisplayName["networkPort"] = "TCP"
      /\ TestDisplayName["sslInterception"] = "SSL Issuer Check"
      /\ TestDisplayName["icmpPing"] = "ICMP Ping"
  BY DEF Labels, TestDisplayName
<1>5. CASE BackendCheck
  <2>1. PICK s \in {"pass", "fail"} : NextIs("backend") /\ Check("TCP backend", s)
    BY <1>5, OutcomesTyped DEF BackendCheck
  <2> QED
    BY <1>3, <1>4, <2>1
<1>6. CASE DnsCheck
  <2>1. PICK s \in {"pass", "fail"} : NextIs("dnsResolve") /\ Check("DNS Resolution", s)
    BY <1>6, OutcomesTyped DEF DnsCheck
  <2> QED
    BY <1>3, <1>4, <2>1
<1>7. CASE PortCheck
  <2>1. PICK s \in {"pass", "fail"} : NextIs("networkPort") /\ Check("TCP", s)
    BY <1>7, OutcomesTyped DEF PortCheck
  <2> QED
    BY <1>3, <1>4, <2>1
<1>8. CASE SslCheck
  <2>1. PICK s \in {"pass", "fail"} : NextIs("sslInterception") /\ Check("SSL Issuer Check", s)
    BY <1>8 DEF SslCheck
  <2> QED
    BY <1>3, <1>4, <2>1
<1>9. CASE PingCheck
  <2>1. PICK s \in {"pass", "fail"} : NextIs("icmpPing") /\ Check("ICMP Ping", s)
    <3>1. Outcomes(~filtered) \subseteq {"pass", "fail"}
      BY OutcomesTyped, Zenon
    <3> QED
      BY <1>9, <3>1, Zenon DEF PingCheck
  <2> QED
    BY <1>3, <1>4, <2>1
<1>10. CASE Deliver
  <2>1. /\ rows # << >> /\ todo = << >> /\ shown' = rows /\ rows' = << >>
        /\ UNCHANGED <<profile, kind, todo, tls, healthy, filtered>>
    BY <1>10 DEF Deliver
  <2>2. rows' \in Seq(Rows)
    BY <2>1
  <2>3. ~IsPending(shown')
    BY <2>1 DEF Gathered, IsPending
  <2>4. TypeOK'
    BY <2>1, <2>2 DEF TypeOK
  <2>5. Gathered' /\ Awaited'
    BY <2>1, <2>3 DEF Gathered, Awaited, IsPending
  <2> QED
    BY <2>4, <2>5
<1> QED
  BY <1>1, <1>2, <1>5, <1>6, <1>7, <1>8, <1>9, <1>10 DEF Next

\* Every variable stays in its type (TypeOK).
THEOREM TypeCorrect == Spec => []TypeOK
BY InitGathered, NextGathered, PTL DEF Spec
-------------------------------------------------------------------------------
(* The outcome *)

\* The names of a sequence of rows, one by one.
LEMMA NamesTyped ==
    ASSUME NEW r \in Seq(Rows)
    PROVE  /\ Names(r) \in Seq(Labels \X Nat) /\ Len(Names(r)) = Len(r)
           /\ \A i \in 1..Len(r) : Names(r)[i] = <<r[i].label, r[i].port>>
<1>1. DOMAIN r = 1..Len(r) /\ Len(r) \in Nat
  OBVIOUS
<1>2. \A i \in 1..Len(r) : r[i] \in Rows
  OBVIOUS
<1>3. \A x \in Rows : <<x.label, x.port>> \in Labels \X Nat
  BY DEF Rows
<1>4. Names(r) = [i \in 1..Len(r) |-> <<r[i].label, r[i].port>>]
  BY <1>1 DEF Names
<1>5. \A i \in 1..Len(r) : <<r[i].label, r[i].port>> \in Labels \X Nat
  BY <1>2, <1>3
<1> QED
  BY <1>1, <1>4, <1>5

\* A run that is over has gathered one row for each of its checks, the announced
\* ones behind those of the backend hosts.
LEMMA RowsAnswer ==
    ASSUME TypeOK, Gathered, rows # << >>, todo = << >>
    PROVE  LET n == Len(Backends(profile, kind))
           IN  Names(PendingResults(profile))
                 = << Names(rows)[1] >> \o SubSeq(Names(rows), 2 + n, Len(rows))
<1> DEFINE n == Len(Backends(profile, kind))
           m == Len(TestProfiles[profile])
           pend == PendingResults(profile)
           first == << Names(rows)[1] >>
           rest == SubSeq(Names(rows), 2 + n, Len(rows))
           Name == Labels \X Nat
<1>1. /\ rows \in Seq(Rows) /\ profile \in DOMAIN TestProfiles /\ Len(todo) = 0
  BY DEF TypeOK, Gathered
<1>2. n \in Nat /\ m \in Nat /\ DOMAIN TestProfiles[profile] = 1..m
  BY <1>1, BackendsTyped, ProfileTyped
<1>3. Len(Checks) = n + m
      /\ \A i \in 1..m : Checks[n + i] = TestProfiles[profile][i]
  BY <1>1, <1>2, ChecksTyped
<1>4. Len(rows) = 1 + n + m
  <2>1. Len(rows) \in Nat /\ 0 = Len(Checks) + 1 - Len(rows)
    BY <1>1 DEF Gathered
  <2> HIDE DEF n, m
  <2>2. n + m \in Nat
    BY <1>2
  <2>3. Len(Checks) \in Nat /\ Len(Checks) + 1 = Len(rows)
    BY <1>3, <2>1, <2>2
  <2> QED
    BY <1>2, <1>3, <2>3
<1>5. pend \in Seq(Rows) /\ Len(pend) = 1 + m /\ pend[1] = Suite
      /\ \A i \in 1..m : pend[1 + i] = Row(TestDisplayName[TestProfiles[profile][i].testType],
                                              TestProfiles[profile][i].port, "running")
  BY <1>1, <1>2, PendingTyped
<1>6. \A i \in 1..m : <<pend[1 + i].label, pend[1 + i].port>>
                         = Announced(TestProfiles[profile][i])
  <2> TAKE i \in 1..m
  <2>1. TestProfiles[profile][i].testType # "backend"
    BY <1>1, <1>2, ProfileTyped
  <2> DEFINE t == TestProfiles[profile][i]
  <2>2. pend[1 + i] = Row(TestDisplayName[t.testType], t.port, "running")
    BY <1>5
  <2>3. Announced(t) = <<TestDisplayName[t.testType], t.port>>
    BY <2>1 DEF Announced
  <2>4. \A a, b, c : Row(a, b, c).label = a /\ Row(a, b, c).port = b
    BY DEF Row
  <2> HIDE DEF t, pend
  <2> QED
    BY <2>2, <2>3, <2>4 DEF t
<1>7. ASSUME NEW i \in 1..m
      PROVE  <<rows[1 + n + i].label, rows[1 + n + i].port>> = Announced(TestProfiles[profile][i])
  <2>1. 1 + n + i \in 1..Len(rows) /\ 1 + n + i > 1 /\ 1 + n + i - 1 = n + i
    BY <1>2, <1>4
  <2>2. DOMAIN rows = 1..Len(rows)
    BY <1>1
  <2>3. <<rows[1 + n + i].label, rows[1 + n + i].port>> = Announced(Checks[1 + n + i - 1])
    BY <2>1, <2>2 DEF Gathered
  <2> QED
    BY <1>3, <2>1, <2>3
<1>8. rows[1] = Suite
  BY DEF Gathered
<1>9. /\ Names(rows) \in Seq(Name) /\ Len(Names(rows)) = 1 + n + m
      /\ \A i \in 1..1 + n + m : Names(rows)[i] = <<rows[i].label, rows[i].port>>
  BY <1>1, <1>4, NamesTyped
<1>10. /\ Names(pend) \in Seq(Name) /\ Len(Names(pend)) = 1 + m
       /\ \A i \in 1..1 + m : Names(pend)[i] = <<pend[i].label, pend[i].port>>
  BY <1>5, NamesTyped
<1> HIDE DEF n, m, pend, Name
<1>11. /\ first \in Seq(Name) /\ Len(first) = 1 /\ first[1] = Names(pend)[1]
  <2>1. 1 \in 1..1 + n + m /\ 1 \in 1..1 + m
    BY <1>2
  <2>2. Names(rows)[1] = <<Suite.label, Suite.port>>
    BY <1>8, <1>9, <2>1
  <2>3. Names(pend)[1] = <<Suite.label, Suite.port>>
    BY <1>5, <1>10, <2>1
  <2>4. Names(rows)[1] \in Name
    BY <1>9, <2>1, ElementOfSeq
  <2> QED
    BY <2>2, <2>3, <2>4
<1>12. rest \in Seq(Name) /\ Len(rest) = m
       /\ \A i \in 1..m : rest[i] = Names(rows)[1 + n + i]
  <2>1. \A i \in 2 + n..Len(rows) : Names(rows)[i] \in Name
    BY <1>2, <1>4, <1>9
  <2>2. 2 + n \in Int /\ Len(rows) \in Int
    BY <1>2, <1>4
  <2>3. /\ rest \in Seq(Name)
        /\ Len(rest) = IF 2 + n <= Len(rows) THEN Len(rows) - (2 + n) + 1 ELSE 0
        /\ \A i \in 1..Len(rows) - (2 + n) + 1 : rest[i] = Names(rows)[2 + n + i - 1]
    BY <2>1, <2>2, SubSeqProperties
  <2>4. /\ Len(rows) - (2 + n) + 1 = m
        /\ (IF 2 + n <= Len(rows) THEN Len(rows) - (2 + n) + 1 ELSE 0) = m
    BY <1>2, <1>4
  <2>5. \A i \in 1..m : 2 + n + i - 1 = 1 + n + i
    BY <1>2
  <2> QED
    BY <2>3, <2>4, <2>5
<1> HIDE DEF first, rest
<1>13. /\ first \o rest \in Seq(Name) /\ Len(first \o rest) = 1 + m
       /\ (first \o rest)[1] = first[1]
       /\ \A i \in 1..m : (first \o rest)[1 + i] = rest[i]
  <2>1. /\ first \o rest \in Seq(Name) /\ Len(first \o rest) = Len(first) + Len(rest)
        /\ \A j \in 1..Len(first) + Len(rest) :
              (first \o rest)[j] = IF j <= Len(first) THEN first[j] ELSE rest[j - Len(first)]
    BY <1>11, <1>12, ConcatProperties
  <2> QED
    BY <1>2, <1>11, <1>12, <2>1
<1>14. \A i \in 1..m : Names(pend)[1 + i] = (first \o rest)[1 + i]
  <2> TAKE i \in 1..m
  <2>1. 1 + i \in 1..1 + m /\ 1 + n + i \in 1..1 + n + m
    BY <1>2
  <2>2. Names(pend)[1 + i] = <<pend[1 + i].label, pend[1 + i].port>>
    BY <1>10, <2>1
  <2>3. Names(rows)[1 + n + i] = <<rows[1 + n + i].label, rows[1 + n + i].port>>
    BY <1>9, <2>1
  <2> QED
    BY <1>6, <1>7, <1>12, <1>13, <2>2, <2>3
<1>15. \A j \in 1..1 + m : Names(pend)[j] = (first \o rest)[j]
  <2> TAKE j \in 1..1 + m
  <2>1. CASE j = 1
    BY <1>11, <1>13, <2>1
  <2>2. CASE j # 1
    <3>1. j - 1 \in 1..m /\ 1 + (j - 1) = j
      BY <1>2, <2>2
    <3> QED
      BY <1>14, <3>1
  <2> QED
    BY <2>1, <2>2
<1>16. Names(pend) = first \o rest
  BY <1>10, <1>13, <1>15, SeqEqual
<1> QED
  BY <1>16 DEF n, pend, first, rest

\* The final rows answer the pending ones under their names and in their order
\* (OutcomeAnswersPending), whichever check fails.
THEOREM OutcomeMatches == Spec => OutcomeAnswersPending
<1>1. TypeOK /\ Gathered /\ Awaited /\ [Next]_vars =>
        [IsPending(shown) /\ shown' # shown =>
           /\ ~IsPending(shown')
           /\ \E n \in {0, 2} :
                 /\ n = 2 <=> profile = Platform /\ kind = "migrate"
                 /\ Names(shown)
                      = <<Names(shown')[1]>> \o SubSeq(Names(shown'), 2 + n, Len(shown'))]_vars
  <2> SUFFICES ASSUME TypeOK, Gathered, Awaited, Next, IsPending(shown), shown' # shown
               PROVE  /\ ~IsPending(shown')
                      /\ \E n \in {0, 2} :
                            /\ n = 2 <=> profile = Platform /\ kind = "migrate"
                            /\ Names(shown) = <<Names(shown')[1]>>
                                 \o SubSeq(Names(shown'), 2 + n, Len(shown'))
    OBVIOUS
  <2> DEFINE n == Len(Backends(profile, kind))
  <2>1. rows # << >> /\ shown = PendingResults(profile)
    BY DEF Awaited
  <2>2. Deliver
    BY <2>1 DEF Next, Begin, Check, BackendCheck, DnsCheck, PortCheck, SslCheck, PingCheck
  <2>3. todo = << >> /\ shown' = rows
    BY <2>2 DEF Deliver
  <2>4. ~IsPending(shown')
    BY <2>1, <2>3 DEF Gathered, IsPending
  <2>5. Names(shown) = <<Names(shown')[1]>> \o SubSeq(Names(shown'), 2 + n, Len(shown'))
    BY <2>1, <2>3, RowsAnswer
  <2>6. n = IF profile = Platform /\ kind = "migrate" THEN 2 ELSE 0
    BY BackendsTyped
  <2> HIDE DEF n
  <2>7. n \in {0, 2} /\ (n = 2 <=> profile = Platform /\ kind = "migrate")
    BY <2>6
  <2> QED
    BY <2>4, <2>5, <2>7
<1> QED
  BY <1>1, InitGathered, NextGathered, PTL DEF Spec, OutcomeAnswersPending
-------------------------------------------------------------------------------
(* The firewall *)

\* What RowsTellOfFirewall says of one row.
Tells(row) ==
    row.label = "TCP" =>
        /\ row.status = "pass" => Resolves /\ LetOut(row.port)
        /\ healthy /\ kind = "address" /\ row.port \in DocumentedPorts \ {5994}
              => row.status # "fail"

\* The gathered rows tell as much already.
RowsTell == \A i \in DOMAIN rows : Tells(rows[i])

\* Of the documented ports the rules have all but one.
LEMMA OnePortMisspelt == DocumentedPorts \ {5994} \subseteq EgressPorts
BY DEF DocumentedPorts, EgressPorts

\* A row that is not of a TCP check, or tells of its outcome, keeps the rows telling.
LEMMA CheckTells ==
    ASSUME TypeOK, RowsTell, RowsTellOfFirewall,
           NEW label, NEW status, Check(label, status),
           Tells(Row(label, Head(todo).port, status))
    PROVE  (RowsTell /\ RowsTellOfFirewall)'
<1> DEFINE row == Row(label, Head(todo).port, status)
<1>1. /\ rows' = Append(rows, row) /\ shown' = shown
      /\ UNCHANGED <<kind, healthy, filtered>>
  BY DEF Check
<1>2. \A x : Tells(x)' <=> Tells(x)
  BY <1>1 DEF Tells, Resolves, LetOut
<1>3. rows \in Seq(Rows)
  BY DEF TypeOK
<1> HIDE DEF row
<1>4. ASSUME NEW i \in DOMAIN rows'
      PROVE  Tells(rows'[i])
  <2>1. DOMAIN rows' = 1..Len(rows) + 1 /\ DOMAIN rows = 1..Len(rows) /\ Len(rows) \in Nat
    BY <1>1, <1>3
  <2>2. CASE i \in DOMAIN rows
    <3>1. rows'[i] = rows[i]
      BY <1>1, <1>3, <2>2
    <3> QED
      BY <2>2, <3>1 DEF RowsTell
  <2>3. CASE i = Len(rows) + 1
    <3>1. rows'[i] = row
      BY <1>1, <1>3, <2>3
    <3> QED
      BY <3>1 DEF row
  <2> QED
    BY <2>1, <2>2, <2>3
<1>5. RowsTell'
  BY <1>2, <1>4 DEF RowsTell
<1>6. RowsTellOfFirewall'
  BY <1>1 DEF RowsTellOfFirewall, Resolves, LetOut
<1> QED
  BY <1>5, <1>6

\* Rows of another name say nothing of a TCP check.
LEMMA OthersTell ==
    ASSUME NEW label, label # "TCP", NEW port, NEW status
    PROVE  Tells(Row(label, port, status))
BY DEF Tells, Row

\* Every step keeps the rows telling of the firewall.
LEMMA NextTells ==
    TypeOK /\ RowsTell /\ RowsTellOfFirewall /\ [Next]_vars => (RowsTell /\ RowsTellOfFirewall)'
<1> SUFFICES ASSUME TypeOK, RowsTell, RowsTellOfFirewall, [Next]_vars
             PROVE  (RowsTell /\ RowsTellOfFirewall)'
  OBVIOUS
<1>1. CASE UNCHANGED vars
  BY <1>1 DEF vars, RowsTell, RowsTellOfFirewall, Tells, Resolves, LetOut
<1>2. ASSUME NEW p \in DOMAIN TestProfiles, NEW k \in TargetKinds, Begin(p, k)
      PROVE  (RowsTell /\ RowsTellOfFirewall)'
  <2>1. rows' = << Suite >> /\ shown' = PendingResults(p)
    BY <1>2 DEF Begin
  <2>2. RowsTell'
    <3>1. \A i \in DOMAIN rows' : rows'[i] = Suite
      BY <2>1
    <3>2. Suite.label # "TCP"
      BY DEF Suite, Row
    <3> QED
      BY <3>1, <3>2 DEF RowsTell, Tells
  <2>3. ASSUME NEW i \in DOMAIN PendingResults(p)
        PROVE  \/ PendingResults(p)[i].label # "TCP"
               \/ PendingResults(p)[i].status \notin {"pass", "fail"}
    <3> DEFINE m == Len(TestProfiles[p])
               pend == PendingResults(p)
    <3>1. /\ pend \in Seq(Rows) /\ Len(pend) = 1 + m /\ pend[1] = Suite
          /\ \A j \in 1..m : pend[1 + j] = Row(TestDisplayName[TestProfiles[p][j].testType],
                                                  TestProfiles[p][j].port, "running")
      BY PendingTyped
    <3>2. m \in Nat
      BY ProfileTyped
    <3>3. Suite.label # "TCP" /\ \A a, b : Row(a, b, "running").status = "running"
      BY DEF Suite, Row
    <3> HIDE DEF m, pend
    <3>4. i \in 1..1 + m
      BY <3>1 DEF pend
    <3>5. CASE i = 1
      BY <3>1, <3>3, <3>5 DEF pend
    <3>6. CASE i # 1
      <4>1. PICK j \in 1..m : i = 1 + j
        <5>1. i - 1 \in 1..m /\ i = 1 + (i - 1)
          BY <3>2, <3>4, <3>6
        <5> QED
          BY <5>1
      <4>2. pend[i].status = "running"
        BY <3>1, <3>3, <4>1
      <4> QED
        BY <4>2 DEF pend
    <3> QED
      BY <3>5, <3>6
  <2>4. RowsTellOfFirewall'
    BY <2>1, <2>3 DEF RowsTellOfFirewall
  <2> QED
    BY <2>2, <2>4
<1>3. CASE BackendCheck
  <2>1. PICK s : Check("TCP backend", s)
    BY <1>3 DEF BackendCheck
  <2> QED
    BY <2>1, OthersTell, CheckTells
<1>4. CASE DnsCheck
  <2>1. PICK s : Check("DNS Resolution", s)
    BY <1>4 DEF DnsCheck
  <2> QED
    BY <2>1, OthersTell, CheckTells
<1>5. CASE PortCheck
  <2> DEFINE port == Head(todo).port
  <2>1. PICK s \in Outcomes(Resolves /\ LetOut(port)) : Check("TCP", s)
    BY <1>5 DEF PortCheck
  <2> HIDE DEF port
  <2>2. s = "pass" => Resolves /\ LetOut(port)
    BY DEF Outcomes
  <2>3. healthy /\ kind = "address" /\ port \in DocumentedPorts \ {5994} => s # "fail"
    BY OnePortMisspelt DEF Outcomes, Resolves, LetOut
  <2>4. Tells(Row("TCP", port, s))
    BY <2>2, <2>3 DEF Tells, Row
  <2> QED
    BY <2>1, <2>4, CheckTells DEF port
<1>6. CASE SslCheck
  <2>1. PICK s : Check("SSL Issuer Check", s)
    BY <1>6 DEF SslCheck
  <2> QED
    BY <2>1, OthersTell, CheckTells
<1>7. CASE PingCheck
  <2>1. PICK s : Check("ICMP Ping", s)
    BY <1>7 DEF PingCheck
  <2> QED
    BY <2>1, OthersTell, CheckTells
<1>8. CASE Deliver
  <2>1. shown' = rows /\ rows' = << >> /\ UNCHANGED <<kind, healthy, filtered>>
    BY <1>8 DEF Deliver
  <2>2. RowsTell'
    BY <2>1 DEF RowsTell
  <2>3. RowsTellOfFirewall'
    BY <2>1 DEF RowsTellOfFirewall, RowsTell, Tells, Resolves, LetOut
  <2> QED
    BY <2>2, <2>3
<1> QED
  BY <1>1, <1>2, <1>3, <1>4, <1>5, <1>6, <1>7, <1>8 DEF Next

\* What passed was let out, and on a network without fault the checks of the
\* documented ports pass, but for 5994 (RowsTellOfFirewall): of the disagreement
\* between the rules and the documentation that the code has, nothing else.
THEOREM FirewallIsTold == Spec => []RowsTellOfFirewall
<1>1. Init => RowsTell /\ RowsTellOfFirewall
  BY DEF Init, RowsTell, RowsTellOfFirewall
<1> QED
  BY <1>1, InitGathered, NextGathered, NextTells, PTL DEF Spec
===============================================================================
