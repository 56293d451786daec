--------------------------------- MODULE Ping ---------------------------------
(***************************************************************************)
(* Ping (networkping.go): Count echo requests on a raw ICMP socket, one    *)
(* read for each, with a deadline.  A raw socket connected to the target   *)
(* receives every ICMP packet the target sends to this machine, and Ping   *)
(* looks at the type of what it reads, not at its ID or sequence number.   *)
(* So which answer a read meets is up to the network: a request or its     *)
(* answer may be lost, late or doubled, and the target may send packets    *)
(* that answer nothing.                                                    *)
(***************************************************************************)
EXTENDS Integers, Sequences, FiniteSets, IcmpPacket

CONSTANTS
    Count,        \* echo requests of one call; runDiagnostics asks for 4
    MaxStray,     \* bound: stray packets in one call
    Ids           \* the low 16 bits of the process IDs of the program

\* What the network of a call may do.  "lose": requests or answers vanish.
\* "delay": an answer may miss the read deadline.  "double": an answer arrives again.
\* "error": the target sends ICMP packets other than echo replies.  "foreign": it
\* sends echo replies to another process.  "refuse": the name does not resolve, the
\* socket cannot be opened, or a write fails.
NetworkKinds == {"lose", "delay", "double", "error", "foreign", "refuse"}

ASSUME PingAssumption ==
    /\ Count \in Nat
    /\ MaxStray \in Nat
    /\ Ids \subseteq Uint16

VARIABLES
    pc,           \* "start", "send", "read", "sleep", "done"
    seq,          \* the loop variable: the request of this round
    received, success,
    lines,        \* the line of output of each round
    pending,      \* requests on the way to the target, or answers on the way back
    socket,       \* packets in the receive buffer of the socket, in order
    answered,     \* requests whose answer has reached the socket
    stray,        \* stray packets so far
    network       \* what the network of this call may do

loopVars == <<pc, seq, received, success, lines>>
netVars == <<pending, socket, answered, stray, network>>
vars == <<loopVars, netVars>>

Rounds == 1..Count

\* of: the sequence number in the reply that was read, 0 if none was.
Line == [kind : {"reply", "timeout", "invalid"}, of : 0..Count]

\* A packet in the receive buffer: an echo reply of a sequence number, or not
\* (of another type, or tooShort for parseICMPReply).
Packet == [reply : BOOLEAN, of : 0..Count]

TypeOK ==
    /\ pc \in {"start", "send", "read", "sleep", "done"}
    /\ seq \in 0..Count
    /\ received \in 0..Count
    /\ success \in BOOLEAN
    /\ lines \in Seq(Line) /\ Len(lines) <= Count
    /\ pending \subseteq Rounds
    /\ socket \in Seq(Packet)
    /\ answered \subseteq Rounds
    /\ stray \in 0..MaxStray
    /\ network \subseteq NetworkKinds

Init ==
    /\ pc = "start" /\ seq = 0
    /\ received = 0 /\ success = FALSE /\ lines = << >>
    /\ pending = {} /\ socket = << >> /\ answered = {} /\ stray = 0
    /\ network \in SUBSET NetworkKinds
-------------------------------------------------------------------------------
(* Ping *)

\* Count not positive, unknown host or socket error: no request is sent.
Refuse ==
    /\ pc = "start"
    /\ Count = 0 \/ "refuse" \in network
    /\ pc' = "done"
    /\ UNCHANGED <<seq, received, success, lines, netVars>>

Begin ==
    /\ pc = "start" /\ Count > 0
    /\ pc' = "send" /\ seq' = 1
    /\ UNCHANGED <<received, success, lines, netVars>>

\* Mutated form: one round too many.
OneRoundMore ==
    IF seq > Count THEN pc' = "done" /\ UNCHANGED seq
    ELSE pc' = "send" /\ seq' = seq + 1

\* The head of the loop, for the next round.
NextRound ==
    IF seq = Count THEN pc' = "done" /\ UNCHANGED seq
    ELSE pc' = "send" /\ seq' = seq + 1

\* Mutated form: the packet is counted before it is looked at.
FailsButCounts(kind) ==
    /\ lines' = Append(lines, [kind |-> kind, of |-> 0])
    /\ received' = received + 1
    /\ NextRound
    /\ UNCHANGED success

\* A round that counts no reply: its line, and on to the next without the sleep.
Fails(kind) ==
    /\ lines' = Append(lines, [kind |-> kind, of |-> 0])
    /\ NextRound
    /\ UNCHANGED <<received, success>>

\* The request of this round.
Request(id) == [Type |-> icmpEchoRequest, Code |-> 0, ID |-> id, Seq |-> seq % 2^16,
                Data |-> Zeros(56)]

Send ==
    /\ pc = "send"
    /\ pc' = "read"
    /\ pending' = pending \cup {seq}
    /\ UNCHANGED <<seq, received, success, lines, socket, answered, stray, network>>

SendFails ==
    /\ pc = "send" /\ "refuse" \in network
    /\ Fails("timeout")
    /\ UNCHANGED netVars

\* Mutated form: any packet of the target counts.
ReadAnyType ==
    /\ pc = "read" /\ socket # << >>
    /\ pc' = "sleep"
    /\ received' = received + 1 /\ success' = TRUE
    /\ lines' = Append(lines, [kind |-> "reply", of |-> Head(socket).of])
    /\ socket' = Tail(socket)
    /\ UNCHANGED <<seq, pending, answered, stray, network>>

\* The read returns the first packet in the buffer, whatever it answers.
Read ==
    /\ pc = "read" /\ socket # << >>
    /\ \/ /\ Head(socket).reply
          /\ pc' = "sleep"
          /\ received' = received + 1 /\ success' = TRUE
          /\ lines' = Append(lines, [kind |-> "reply", of |-> Head(socket).of])
          /\ UNCHANGED seq
       \/ /\ ~Head(socket).reply
          /\ Fails("invalid")
    /\ socket' = Tail(socket)
    /\ UNCHANGED <<pending, answered, stray, network>>

\* Mutated form: no read deadline.
NoDeadline == FALSE

\* The deadline passes with nothing to read.  Without delays that is when nothing
\* of this round is on its way any more.
TimesOut ==
    /\ pc = "read" /\ socket = << >>
    /\ "delay" \in network \/ seq \notin pending
    /\ Fails("timeout")
    /\ UNCHANGED netVars

\* One second after a reply.
Wakes ==
    /\ pc = "sleep"
    /\ NextRound
    /\ UNCHANGED <<received, success, lines, netVars>>

PingStep == Refuse \/ Begin \/ Send \/ SendFails \/ Read \/ TimesOut \/ Wakes
-------------------------------------------------------------------------------
(* The network and the target *)

\* What a target sends for the bytes of a request: the type is changed, and an IP
\* header comes first.  (Its checksum is not looked at.)
Echo(raw) == Zeros(20) \o [raw EXCEPT ![1] = icmpEchoReply]

Arrives(packet) ==
    /\ pc \notin {"start", "done"}
    /\ socket' = Append(socket, packet)
    /\ UNCHANGED <<loopVars, network>>

\* The answer to request r arrives; a doubled one stays on its way.
Answer(r) ==
    /\ r \in pending
    /\ Arrives([reply |-> TRUE, of |-> r])
    /\ answered' = answered \cup {r}
    /\ \/ pending' = pending \ {r} /\ UNCHANGED stray
       \/ /\ "double" \in network /\ stray < MaxStray
          /\ stray' = stray + 1
          /\ UNCHANGED pending

Lose(r) ==
    /\ "lose" \in network /\ r \in pending
    /\ pending' = pending \ {r}
    /\ UNCHANGED <<loopVars, socket, answered, stray, network>>

\* An ICMP error or request of the target, or its reply to another process.
Stray ==
    /\ stray < MaxStray /\ stray' = stray + 1
    /\ \/ "error" \in network /\ Arrives([reply |-> FALSE, of |-> 0])
       \/ "foreign" \in network /\ \E r \in Rounds : Arrives([reply |-> TRUE, of |-> r])
    /\ UNCHANGED <<pending, answered>>

\* Without delays every packet arrives, or is lost, before the deadline.
InTime == "delay" \notin network /\ \E r \in Rounds : Answer(r) \/ Lose(r)

Next ==
    \/ Refuse \/ Begin \/ Send \/ SendFails \/ Read \/ TimesOut \/ Wakes
    \/ \E r \in Rounds : Answer(r) \/ Lose(r)
    \/ Stray

Spec == Init /\ [][Next]_vars

\* The goroutine runs and the deadline passes.  A network with delays owes nothing.
FairSpec == Spec /\ WF_vars(PingStep) /\ WF_vars(InTime)
-------------------------------------------------------------------------------
(* Properties *)

Replies == {k \in DOMAIN lines : lines[k].kind = "reply"}

\* A ping succeeds only against a target that answered one of its requests: on a
\* network that loses, delays and doubles answers and sends other ICMP packets,
\* but not another process's echo replies, which Ping takes for its own
\* (networkping.go:146-153).
SuccessIsAnswered == "foreign" \notin network /\ success => answered # {}

\* What the statistics count is what the lines show, one line for each round
\* (networkping.go:116-117, :163-184), and on a network without another process's
\* replies no line shows an answer from the future.
StatisticsMatchLines ==
    /\ received = Cardinality(Replies) /\ (success <=> Replies # {})
    /\ pc = "done" => lines = << >> \/ Len(lines) = Count
    /\ "foreign" \notin network =>
           \A k \in Replies : lines[k].of \in answered /\ lines[k].of <= k

\* On a network that only loses packets each reply is that of its own round, and
\* the loss reported, if a request was sent at all, is the loss there was
\* (networkping.go:138-154, :174-184).
LossIsExact ==
    network \subseteq {"lose", "refuse"} =>
        /\ \A k \in Replies : lines[k].of = k
        /\ pc = "done" /\ lines # << >> => received = Cardinality(answered)

\* The bytes of every request are such that its target answers it, the one's
\* complement sum of all its words being 0, and that the answer is not too short
\* and is read as an echo reply to this very request (networkping.go:31-79, :119-127, :146-147).
RequestIsUnderstood ==
    pc = "send" =>
        \A id \in Ids :
            LET raw  == Marshal(Request(id))
                resp == parseICMPReply(Echo(raw))
            IN  /\ SumOf(raw) % (2^16 - 1) = 0
                /\ ~tooShort(Echo(raw))
                /\ resp.Type = icmpEchoReply /\ resp.ID = id /\ resp.Seq = seq

\* Whatever the network does, a ping comes to its end.
PingEnds == <>(pc = "done")
===============================================================================
