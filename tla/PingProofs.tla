------------------------------ MODULE PingProofs ------------------------------
(***************************************************************************)
(* Proofs about Ping, for any number of requests and any network.          *)
(*                                                                         *)
(* What a reply that was counted says of the target depends on how the     *)
(* packet came into the buffer of the socket, rounds ago perhaps.          *)
(* RoundsCounted ties the lines to the rounds, AnswersSent the buffer to   *)
(* the requests, InStep both to the losses.                                *)
(***************************************************************************)
EXTENDS Ping, IcmpPacketProofs, FiniteSetTheorems, SequenceTheorems, TLAPS

\* One line for each round that is over.
RoundsCounted ==
    /\ pc = "start" => seq = 0 /\ lines = << >>
    /\ pc \in {"send", "read"} => seq \in 1..Count /\ Len(lines) = seq - 1
    /\ pc = "sleep" => seq \in 1..Count /\ Len(lines) = seq
    /\ pc = "done" => lines = << >> \/ Len(lines) = Count
    /\ received = Cardinality(Replies)
    /\ success <=> Replies # {}

\* An answer in the buffer is one to a request that was sent.
AnswersSent ==
    /\ pending \subseteq 1..seq
    /\ "foreign" \notin network =>
          /\ \A i \in DOMAIN socket :
                socket[i].reply => socket[i].of \in answered /\ socket[i].of <= seq
          /\ \A k \in Replies : lines[k].of \in answered /\ lines[k].of <= k

\* Where packets are lost at worst, a round leaves nothing behind, and within it
\* the request is on its way, or lost, or its answer is the only packet to read.
Quiet == pending = {} /\ socket = << >> /\ answered = Replies
OnItsWay == pc = "read" /\ pending = {seq} /\ socket = << >> /\ answered = Replies
Arrived ==
    /\ pc = "read" /\ pending = {} /\ socket = << [reply |-> TRUE, of |-> seq] >>
    /\ answered = Replies \cup {seq}

OnlyLoses == network \subseteq {"lose", "refuse"}

InStep ==
    OnlyLoses => /\ \A k \in Replies : lines[k].of = k
                 /\ Quiet \/ OnItsWay \/ Arrived
-------------------------------------------------------------------------------
(* The lines *)

\* The bounds are numbers.
LEMMA CountTyped == Count \in Nat /\ MaxStray \in Nat
BY PingAssumption

\* A line more.
LEMMA LineAppended ==
    ASSUME lines \in Seq(Line), NEW line \in Line, lines' = Append(lines, line)
    PROVE  /\ lines' \in Seq(Line) /\ Len(lines') = Len(lines) + 1
           /\ \A k \in 1..Len(lines) : lines'[k] = lines[k]
           /\ lines'[Len(lines) + 1] = line
           /\ Replies \subseteq 1..Len(lines)
           /\ Replies' = IF line.kind = "reply" THEN Replies \cup {Len(lines) + 1} ELSE Replies
<1>1. /\ lines' \in Seq(Line) /\ Len(lines') = Len(lines) + 1
      /\ \A k \in 1..Len(lines) : lines'[k] = lines[k]
      /\ lines'[Len(lines) + 1] = line
      /\ Len(lines) \in Nat
  OBVIOUS
<1>2. DOMAIN lines = 1..Len(lines) /\ DOMAIN lines' = 1..Len(lines) + 1
  BY <1>1
<1>3. Replies' = IF line.kind = "reply" THEN Replies \cup {Len(lines) + 1} ELSE Replies
  BY <1>1, <1>2 DEF Replies
<1> QED
  BY <1>1, <1>2, <1>3 DEF Replies

\* There are no more replies than lines.
LEMMA RepliesCounted ==
    ASSUME lines \in Seq(Line)
    PROVE  /\ IsFiniteSet(Replies) /\ Cardinality(Replies) \in Nat
           /\ Cardinality(Replies) <= Len(lines)
<1>1. Len(lines) \in Nat /\ Replies \in SUBSET (1..Len(lines))
  BY DEF Replies
<1>2. IsFiniteSet(1..Len(lines)) /\ Cardinality(1..Len(lines)) = Len(lines)
  <2>1. \A n \in Nat : IsFiniteSet(1..n) /\ Cardinality(1..n) = IF 1 > n THEN 0 ELSE n - 1 + 1
    BY FS_Interval
  <2>2. \A n \in Nat : (IF 1 > n THEN 0 ELSE n - 1 + 1) = n
    OBVIOUS
  <2> QED
    BY <1>1, <2>1, <2>2
<1> QED
  BY <1>1, <1>2, FS_Subset, FS_CardinalityType
-------------------------------------------------------------------------------
(* Types and rounds *)

\* A call begins before its first round.
LEMMA InitRounds == Init => TypeOK /\ RoundsCounted
<1> SUFFICES ASSUME Init
             PROVE  TypeOK /\ RoundsCounted
  OBVIOUS
<1>1. lines = << >> /\ Replies = {}
  BY DEF Init, Replies
<1>2. Cardinality(Replies) = 0
  BY <1>1, FS_EmptySet
<1>3. success = FALSE
  BY DEF Init
<1>4. RoundsCounted
  BY <1>1, <1>2, <1>3 DEF Init, RoundsCounted
<1>5. success \in BOOLEAN
  BY <1>3
<1>6. socket \in Seq(Packet) /\ lines \in Seq(Line) /\ Len(lines) = 0
  BY DEF Init
<1>7. /\ pc = "start" /\ seq = 0 /\ received = 0 /\ pending = {} /\ answered = {}
      /\ stray = 0 /\ network \subseteq NetworkKinds /\ Count \in Nat /\ MaxStray \in Nat
  BY PingAssumption DEF Init
<1>8. TypeOK
  BY <1>5, <1>6, <1>7 DEF TypeOK
<1> QED
  BY <1>4, <1>8

\* A round that counts no reply.
LEMMA FailedRound ==
    ASSUME TypeOK, RoundsCounted, pc \in {"send", "read"},
           NEW kind \in {"timeout", "invalid"}, Fails(kind)
    PROVE  /\ RoundsCounted' /\ Replies' = Replies
           /\ lines' \in Seq(Line) /\ Len(lines') <= Count
           /\ \A k \in Replies : lines'[k] = lines[k]
           /\ UNCHANGED <<received, success>>
           /\ \/ pc' = "done" /\ UNCHANGED seq
              \/ pc' = "send" /\ seq' = seq + 1 /\ seq' \in 1..Count
<1> DEFINE line == [kind |-> kind, of |-> 0]
<1>1. seq \in 1..Count /\ Len(lines) = seq - 1 /\ Count \in Nat /\ lines \in Seq(Line)
  BY PingAssumption DEF RoundsCounted, TypeOK
<1>2. line \in Line /\ line.kind # "reply"
  BY <1>1 DEF Line
<1>3. lines' = Append(lines, line) /\ UNCHANGED <<received, success>> /\ NextRound
  BY DEF Fails
<1> HIDE DEF line
<1>4. /\ lines' \in Seq(Line) /\ Len(lines') = seq
      /\ Replies' = Replies /\ \A k \in Replies : lines'[k] = lines[k]
  BY <1>1, <1>2, <1>3, LineAppended
<1>5. \/ pc' = "done" /\ UNCHANGED seq /\ seq = Count
      \/ pc' = "send" /\ seq' = seq + 1 /\ seq' \in 1..Count
  BY <1>1, <1>3 DEF NextRound
<1>6. RoundsCounted'
  BY <1>1, <1>3, <1>4, <1>5 DEF RoundsCounted
<1>7. Len(lines') <= Count
  BY <1>1, <1>4
<1>8. UNCHANGED <<received, success>>
  BY <1>3
<1> QED
  BY <1>4, <1>5, <1>6, <1>7, <1>8

\* A reply that is counted.
LEMMA CountedRound ==
    ASSUME TypeOK, RoundsCounted, Read, Head(socket).reply
    PROVE  /\ RoundsCounted' /\ Replies' = Replies \cup {seq} /\ seq \notin Replies
           /\ lines' \in Seq(Line) /\ Len(lines') <= Count
           /\ \A k \in Replies : lines'[k] = lines[k]
           /\ lines'[seq].of = Head(socket).of
           /\ received' \in 0..Count /\ success' = TRUE
           /\ pc' = "sleep" /\ UNCHANGED seq
<1> DEFINE line == [kind |-> "reply", of |-> Head(socket).of]
<1>1. /\ pc = "read" /\ pc' = "sleep" /\ received' = received + 1 /\ success' = TRUE
      /\ lines' = Append(lines, line) /\ UNCHANGED seq
  BY DEF Read
<1>2. seq \in 1..Count /\ Len(lines) = seq - 1 /\ Count \in Nat /\ lines \in Seq(Line)
  BY <1>1, CountTyped DEF RoundsCounted, TypeOK
<1>3. line \in Line /\ line.kind = "reply" /\ line.of = Head(socket).of
  <2>1. Head(socket) \in Packet
    BY HeadTailProperties DEF Read, TypeOK
  <2> QED
    BY <2>1 DEF Packet, Line
<1> HIDE DEF line
<1>4. /\ lines' \in Seq(Line) /\ Len(lines') = seq /\ Replies \subseteq 1..(seq - 1)
      /\ Replies' = Replies \cup {seq} /\ \A k \in Replies : lines'[k] = lines[k]
      /\ lines'[seq] = line
  BY <1>1, <1>2, <1>3, LineAppended
<1>5. seq \notin Replies
  BY <1>2, <1>4
<1>6. Cardinality(Replies') = Cardinality(Replies) + 1
  BY <1>2, <1>4, <1>5, RepliesCounted, FS_AddElement
<1>7. received' = Cardinality(Replies') /\ received' \in 0..Count
  <2>1. received = Cardinality(Replies) /\ Cardinality(Replies) \in Nat
        /\ Cardinality(Replies) <= Len(lines)
    BY <1>2, RepliesCounted DEF RoundsCounted
  <2> QED
    BY <1>1, <1>2, <1>6, <2>1
<1>8. RoundsCounted'
  BY <1>1, <1>2, <1>4, <1>7 DEF RoundsCounted
<1>9. Len(lines') <= Count
  BY <1>2, <1>4
<1>10. success' = TRUE /\ UNCHANGED seq
  BY <1>1
<1> QED
  BY <1>1, <1>3, <1>4, <1>5, <1>7, <1>8, <1>9, <1>10

\* A packet more in the buffer of the socket.
LEMMA PacketAppended ==
    ASSUME TypeOK, NEW packet \in Packet, Arrives(packet)
    PROVE  /\ UNCHANGED <<loopVars, network>>
           /\ pc \notin {"start", "done"}
           /\ socket' \in Seq(Packet) /\ Len(socket') = Len(socket) + 1
           /\ \A i \in DOMAIN socket' :
                 \/ i \in DOMAIN socket /\ socket'[i] = socket[i]
                 \/ socket'[i] = packet
           /\ socket = << >> => socket' = << packet >>
<1>1. socket \in Seq(Packet) /\ socket' = Append(socket, packet)
  BY DEF TypeOK, Arrives
<1>2. /\ socket' \in Seq(Packet) /\ Len(socket') = Len(socket) + 1 /\ Len(socket) \in Nat
      /\ \A i \in 1..Len(socket) : socket'[i] = socket[i]
      /\ socket'[Len(socket) + 1] = packet
  BY <1>1
<1>3. DOMAIN socket = 1..Len(socket) /\ DOMAIN socket' = 1..Len(socket) + 1
  BY <1>1, <1>2
<1>4. \A i \in DOMAIN socket' :
         \/ i \in DOMAIN socket /\ socket'[i] = socket[i]
         \/ socket'[i] = packet
  BY <1>2, <1>3
<1>5. socket = << >> => socket' = << packet >>
  BY <1>1
<1> QED
  BY <1>2, <1>4, <1>5 DEF Arrives

\* An answer, or a stray packet, is a packet.
LEMMA ArrivalsTyped ==
    /\ [reply |-> FALSE, of |-> 0] \in Packet
    /\ \A r \in Rounds : [reply |-> TRUE, of |-> r] \in Packet
<1>1. 0 \in 0..Count /\ \A r \in Rounds : r \in 0..Count
  BY CountTyped DEF Rounds
<1>2. TRUE \in BOOLEAN /\ FALSE \in BOOLEAN
  OBVIOUS
<1>3. ASSUME NEW b \in BOOLEAN, NEW r \in 0..Count PROVE [reply |-> b, of |-> r] \in Packet
  BY <1>3 DEF Packet
<1> QED
  BY <1>1, <1>2, <1>3

\* A step of Ping keeps the types and the count of the rounds.
LEMMA LoopRounds ==
    ASSUME TypeOK, RoundsCounted, PingStep
    PROVE  (TypeOK /\ RoundsCounted)'
<1>1. Count \in Nat /\ MaxStray \in Nat
  BY PingAssumption
<1> USE DEF netVars
<1>2. CASE Refuse
  BY <1>2 DEF Refuse, TypeOK, RoundsCounted, Replies
<1>3. CASE Begin
  <2>1. pc' = "send" /\ seq' = 1 /\ lines = << >> /\ Count > 0
        /\ UNCHANGED <<received, success, lines, netVars>>
    BY <1>3 DEF Begin, RoundsCounted
  <2>2. Len(lines) = 0 /\ seq' \in 1..Count /\ seq' \in 0..Count
    BY <1>1, <2>1
  <2> QED
    BY <2>1, <2>2 DEF TypeOK, RoundsCounted, Replies
<1>4. CASE Send
  <2>1. seq \in 1..Count
    BY <1>4 DEF Send, RoundsCounted
  <2> QED
    BY <1>4, <2>1 DEF Send, TypeOK, RoundsCounted, Replies, Rounds
<1>5. CASE SendFails
  <2>1. pc = "send" /\ Fails("timeout") /\ UNCHANGED netVars
    BY <1>5 DEF SendFails
  <2> QED
    BY <1>1, <2>1, FailedRound DEF TypeOK
<1>6. CASE TimesOut
  <2>1. pc = "read" /\ Fails("timeout") /\ UNCHANGED netVars
    BY <1>6 DEF TimesOut
  <2> QED
    BY <1>1, <2>1, FailedRound DEF TypeOK
<1>7. CASE Read
  <2>1. socket' \in Seq(Packet) /\ UNCHANGED <<pending, answered, stray, network>>
    BY <1>7, HeadTailProperties DEF Read, TypeOK
  <2>2. CASE Head(socket).reply
    BY <1>7, <2>1, <2>2, CountedRound DEF TypeOK
  <2>3. CASE ~Head(socket).reply
    <3>1. pc = "read" /\ Fails("invalid")
      BY <1>7, <2>3 DEF Read
    <3> QED
      BY <1>1, <2>1, <3>1, FailedRound DEF TypeOK
  <2> QED
    BY <2>2, <2>3
<1>8. CASE Wakes
  <2>1. seq \in 1..Count /\ Len(lines) = seq /\ pc = "sleep" /\ NextRound
        /\ UNCHANGED <<received, success, lines, netVars>>
    BY <1>8 DEF Wakes, RoundsCounted
  <2>2. \/ pc' = "done" /\ UNCHANGED seq /\ seq = Count
        \/ pc' = "send" /\ seq' = seq + 1 /\ seq' \in 1..Count
    BY <1>1, <2>1 DEF NextRound
  <2>3. pc' \in {"start", "send", "read", "sleep", "done"} /\ seq' \in 0..Count
    BY <1>1, <2>1, <2>2
  <2>4. TypeOK'
    BY <2>1, <2>3 DEF TypeOK
  <2>5. RoundsCounted'
    BY <1>1, <2>1, <2>2 DEF RoundsCounted, Replies
  <2> QED
    BY <2>4, <2>5
<1> QED
  BY <1>2, <1>3, <1>4, <1>5, <1>6, <1>7, <1>8 DEF PingStep

\* So does what the network does.
LEMMA NetworkRounds ==
    ASSUME TypeOK, RoundsCounted, (\E r \in Rounds : Answer(r) \/ Lose(r)) \/ Stray
    PROVE  (TypeOK /\ RoundsCounted)'
<1> USE DEF loopVars
<1>1. ASSUME UNCHANGED loopVars PROVE RoundsCounted'
  BY <1>1 DEF RoundsCounted, Replies
<1>2. stray \in 0..MaxStray /\ MaxStray \in Nat
  BY PingAssumption DEF TypeOK
<1>3. ASSUME NEW r \in Rounds, Answer(r) PROVE (TypeOK /\ RoundsCounted)'
  <2>1. UNCHANGED <<loopVars, network>> /\ socket' \in Seq(Packet)
    BY <1>3, ArrivalsTyped, PacketAppended DEF Answer
  <2>2. stray' \in 0..MaxStray
    BY <1>2, <1>3 DEF Answer
  <2>3. pending' \subseteq Rounds /\ answered' \subseteq Rounds
    BY <1>3 DEF Answer, TypeOK
  <2> QED
    BY <1>1, <2>1, <2>2, <2>3 DEF TypeOK
<1>4. ASSUME NEW r \in Rounds, Lose(r) PROVE (TypeOK /\ RoundsCounted)'
  BY <1>1, <1>4 DEF Lose, TypeOK
<1>5. CASE Stray
  <2>1. stray' \in 0..MaxStray /\ UNCHANGED <<pending, answered>>
    BY <1>2, <1>5 DEF Stray
  <2>2. UNCHANGED <<loopVars, network>> /\ socket' \in Seq(Packet)
    BY <1>5, ArrivalsTyped, PacketAppended DEF Stray
  <2> QED
    BY <1>1, <2>1, <2>2 DEF TypeOK
<1> QED
  BY <1>3, <1>4, <1>5

\* Every step keeps the types and the count of the rounds.
LEMMA NextRounds == TypeOK /\ RoundsCounted /\ [Next]_vars => (TypeOK /\ RoundsCounted)'
<1> SUFFICES ASSUME TypeOK, RoundsCounted, [Next]_vars
             PROVE  (TypeOK /\ RoundsCounted)'
  OBVIOUS
<1>1. CASE UNCHANGED vars
  BY <1>1 DEF vars, loopVars, netVars, TypeOK, RoundsCounted, Replies
<1> QED
  BY <1>1, LoopRounds, NetworkRounds DEF Next, PingStep

\* Every variable stays in its type (TypeOK), whatever the network does.
THEOREM TypeCorrect == Spec => []TypeOK
BY InitRounds, NextRounds, PTL DEF Spec
-------------------------------------------------------------------------------
(* Answers *)

\* A call begins with nothing sent and nothing answered.
LEMMA InitAnswers == Init => AnswersSent /\ InStep
BY DEF Init, AnswersSent, InStep, Quiet, Replies

\* The buffer holds packets.
LEMMA BufferTyped ==
    ASSUME TypeOK
    PROVE  \A i \in DOMAIN socket : socket[i] \in Packet /\ socket[i].of \in 0..Count
<1>1. socket \in Seq(Packet)
  BY DEF TypeOK
<1>2. \A i \in DOMAIN socket : socket[i] \in Packet
  BY <1>1
<1>3. \A p \in Packet : p.of \in 0..Count
  BY DEF Packet
<1> QED
  BY <1>2, <1>3

\* What is left of the buffer was in it.
LEMMA TailKeeps ==
    ASSUME socket \in Seq(Packet), socket' = socket \/ (socket # << >> /\ socket' = Tail(socket))
    PROVE  \A i \in DOMAIN socket' : \E j \in DOMAIN socket : socket'[i] = socket[j]
<1>1. CASE socket' = socket
  BY <1>1
<1>2. CASE socket # << >> /\ socket' = Tail(socket)
  <2>1. /\ Len(socket) \in Nat /\ DOMAIN socket = 1..Len(socket)
        /\ Len(socket') = Len(socket) - 1 /\ DOMAIN socket' = 1..Len(socket')
        /\ \A i \in 1..Len(socket') : socket'[i] = socket[i + 1]
    BY <1>2, HeadTailProperties, LenProperties
  <2> QED
    BY <2>1
<1> QED
  BY <1>1, <1>2

\* A round that counts no reply leaves the requests and the answers as they are.
LEMMA FailedAnswers ==
    ASSUME TypeOK, RoundsCounted, AnswersSent, pc \in {"send", "read"},
           NEW kind \in {"timeout", "invalid"}, Fails(kind),
           UNCHANGED <<pending, answered, network>>,
           socket' = socket \/ (socket # << >> /\ socket' = Tail(socket))
    PROVE  AnswersSent'
<1>1. /\ Replies' = Replies /\ \A k \in Replies : lines'[k] = lines[k]
      /\ seq' = seq \/ seq' = seq + 1
  BY FailedRound
<1>2. seq \in Nat /\ pending' \subseteq 1..seq'
  BY <1>1 DEF TypeOK, AnswersSent
<1>3. \A i \in DOMAIN socket' : \E j \in DOMAIN socket : socket'[i] = socket[j]
  BY TailKeeps DEF TypeOK
<1>4. \A i \in DOMAIN socket : socket[i].of \in 0..Count
  BY BufferTyped
<1>5. ASSUME "foreign" \notin network, NEW i \in DOMAIN socket', socket'[i].reply
      PROVE  socket'[i].of \in answered' /\ socket'[i].of <= seq'
  <2>1. PICK j \in DOMAIN socket : socket'[i] = socket[j]
    BY <1>3
  <2>2. socket[j].of \in answered /\ socket[j].of <= seq
    BY <1>5, <2>1 DEF AnswersSent
  <2> QED
    BY <1>1, <1>2, <1>4, <2>1, <2>2, CountTyped
<1> QED
  BY <1>1, <1>2, <1>5 DEF AnswersSent

\* So does one that counts a reply, and that reply was in the buffer.
LEMMA CountedAnswers ==
    ASSUME TypeOK, RoundsCounted, AnswersSent, Read, Head(socket).reply
    PROVE  AnswersSent'
<1>1. /\ Replies' = Replies \cup {seq} /\ seq' = seq
      /\ \A k \in Replies : lines'[k] = lines[k]
      /\ lines'[seq].of = Head(socket).of
  BY CountedRound
<1>2. UNCHANGED <<pending, answered, network>> /\ socket # << >> /\ socket' = Tail(socket)
  BY DEF Read
<1>3. \A i \in DOMAIN socket' : \E j \in DOMAIN socket : socket'[i] = socket[j]
  BY <1>2, TailKeeps DEF TypeOK
<1>4. 1 \in DOMAIN socket /\ Head(socket) = socket[1]
  BY <1>2, HeadTailProperties, LenProperties DEF TypeOK
<1>5. ASSUME "foreign" \notin network
      PROVE  Head(socket).of \in answered /\ Head(socket).of <= seq
  BY <1>4, <1>5 DEF AnswersSent
<1>6. ASSUME "foreign" \notin network, NEW k \in Replies'
      PROVE  lines'[k].of \in answered' /\ lines'[k].of <= k
  BY <1>1, <1>2, <1>5, <1>6 DEF AnswersSent
<1> QED
  BY <1>1, <1>2, <1>3, <1>6 DEF AnswersSent

\* A step of Ping reads no answer but those in the buffer.
LEMMA LoopAnswers ==
    ASSUME TypeOK, RoundsCounted, AnswersSent, PingStep
    PROVE  AnswersSent'
<1>1. CASE Refuse
  BY <1>1 DEF Refuse, netVars, AnswersSent, Replies
<1>2. CASE Begin
  <2>1. UNCHANGED <<lines, netVars>> /\ seq' = 1 /\ seq = 0 /\ lines = << >>
    BY <1>2 DEF Begin, RoundsCounted, AnswersSent
  <2>2. 1..0 \subseteq 1..1 /\ \A i \in DOMAIN socket : socket[i].of <= 0 => socket[i].of <= 1
    BY BufferTyped
  <2> QED
    BY <2>1, <2>2 DEF netVars, AnswersSent, Replies
<1>3. CASE Send
  <2>1. seq \in 1..Count /\ pending' = pending \cup {seq}
        /\ UNCHANGED <<seq, lines, socket, answered, network>>
    BY <1>3 DEF Send, RoundsCounted
  <2>2. seq \in 1..seq
    BY <2>1, CountTyped
  <2> QED
    BY <2>1, <2>2 DEF AnswersSent, Replies
<1>4. CASE SendFails
  BY <1>4, FailedAnswers DEF SendFails, netVars
<1>5. CASE TimesOut
  BY <1>5, FailedAnswers DEF TimesOut, netVars
<1>6. CASE Read
  <2>1. CASE Head(socket).reply
    BY <1>6, <2>1, CountedAnswers
  <2>2. CASE ~Head(socket).reply
    BY <1>6, <2>2, FailedAnswers DEF Read
  <2> QED
    BY <2>1, <2>2
<1>7. CASE Wakes
  <2>1. UNCHANGED <<lines, netVars>> /\ seq \in Nat /\ seq' \in {seq, seq + 1}
    BY <1>7, CountTyped DEF Wakes, NextRound, TypeOK
  <2>2. pending' \subseteq 1..seq'
    BY <2>1 DEF AnswersSent, netVars
  <2>3. \A i \in DOMAIN socket : socket[i].of <= seq => socket[i].of <= seq'
    BY <2>1, BufferTyped, CountTyped
  <2> QED
    BY <2>1, <2>2, <2>3 DEF AnswersSent, netVars, Replies
<1> QED
  BY <1>1, <1>2, <1>3, <1>4, <1>5, <1>6, <1>7 DEF PingStep

\* The network answers no request that was not sent.
LEMMA NetworkAnswers ==
    ASSUME TypeOK, RoundsCounted, AnswersSent, (\E r \in Rounds : Answer(r) \/ Lose(r)) \/ Stray
    PROVE  AnswersSent'
<1>1. ASSUME NEW r \in Rounds, Answer(r) PROVE AnswersSent'
  <2> DEFINE packet == [reply |-> TRUE, of |-> r]
  <2>1. packet \in Packet /\ packet.of = r /\ Arrives(packet)
    BY <1>1, ArrivalsTyped DEF Answer
  <2> HIDE DEF packet
  <2>2. /\ UNCHANGED <<loopVars, network>>
        /\ \A i \in DOMAIN socket' :
              (i \in DOMAIN socket /\ socket'[i] = socket[i]) \/ socket'[i] = packet
    BY <2>1, PacketAppended
  <2>3. r \in pending /\ r <= seq /\ answered' = answered \cup {r} /\ pending' \subseteq pending
    BY <1>1 DEF Answer, AnswersSent
  <2> QED
    BY <2>1, <2>2, <2>3 DEF AnswersSent, loopVars, Replies
<1>2. ASSUME NEW r \in Rounds, Lose(r) PROVE AnswersSent'
  BY <1>2 DEF Lose, AnswersSent, loopVars, Replies
<1>3. CASE Stray
  <2>1. UNCHANGED <<pending, answered>>
    BY <1>3 DEF Stray
  <2>2. CASE Arrives([reply |-> FALSE, of |-> 0])
    <3> DEFINE packet == [reply |-> FALSE, of |-> 0]
    <3>1. packet \in Packet /\ ~packet.reply /\ Arrives(packet)
      BY <2>2, ArrivalsTyped
    <3> HIDE DEF packet
    <3> QED
      BY <2>1, <3>1, PacketAppended DEF AnswersSent, loopVars, Replies
  <2>3. ASSUME "foreign" \in network, NEW r \in Rounds, Arrives([reply |-> TRUE, of |-> r])
        PROVE  AnswersSent'
    BY <2>1, <2>3 DEF Arrives, AnswersSent, loopVars
  <2> QED
    BY <1>3, <2>2, <2>3 DEF Stray
<1> QED
  BY <1>1, <1>2, <1>3

\* Every step keeps the answers those to requests.
LEMMA NextAnswers == TypeOK /\ RoundsCounted /\ AnswersSent /\ [Next]_vars => AnswersSent'
<1> SUFFICES ASSUME TypeOK, RoundsCounted, AnswersSent, [Next]_vars
             PROVE  AnswersSent'
  OBVIOUS
<1>1. CASE UNCHANGED vars
  BY <1>1 DEF vars, loopVars, netVars, AnswersSent, Replies
<1> QED
  BY <1>1, LoopAnswers, NetworkAnswers DEF Next, PingStep

\* What the statistics count is what the lines show, and no line shows an answer
\* to a request that was not yet sent (StatisticsMatchLines), however answers are
\* lost, late or doubled.
THEOREM StatisticsAreOfLines == Spec => []StatisticsMatchLines
<1>1. RoundsCounted /\ AnswersSent => StatisticsMatchLines
  BY DEF RoundsCounted, AnswersSent, StatisticsMatchLines
<1> QED
  BY <1>1, InitRounds, InitAnswers, NextRounds, NextAnswers, PTL DEF Spec

\* A ping that succeeded met an answer of the target (SuccessIsAnswered).
THEOREM SuccessWasAnswered == Spec => []SuccessIsAnswered
<1>1. RoundsCounted /\ AnswersSent => SuccessIsAnswered
  BY DEF RoundsCounted, AnswersSent, SuccessIsAnswered
<1> QED
  BY <1>1, InitRounds, InitAnswers, NextRounds, NextAnswers, PTL DEF Spec
-------------------------------------------------------------------------------
(* A network that only loses packets *)

\* Such a network neither delays nor doubles answers, and no packet is stray.
LEMMA OnlyLosesExcludes ==
    ASSUME OnlyLoses
    PROVE  /\ "delay" \notin network /\ "double" \notin network
           /\ "error" \notin network /\ "foreign" \notin network
BY DEF OnlyLoses

\* A round that counts no reply is one of which nothing is left.
LEMMA FailedInStep ==
    ASSUME TypeOK, RoundsCounted, pc \in {"send", "read"},
           NEW kind \in {"timeout", "invalid"}, Fails(kind), UNCHANGED netVars,
           InStep, OnlyLoses => Quiet
    PROVE  InStep'
<1>1. Replies' = Replies /\ \A k \in Replies : lines'[k] = lines[k]
  BY FailedRound
<1> QED
  BY <1>1 DEF InStep, OnlyLoses, Quiet, netVars

\* A step of Ping keeps the rounds apart.
LEMMA LoopInStep ==
    ASSUME TypeOK, RoundsCounted, InStep, PingStep
    PROVE  InStep'
<1> USE DEF netVars
<1>1. CASE Refuse
  BY <1>1 DEF Refuse, InStep, OnlyLoses, Quiet, OnItsWay, Arrived, Replies
<1>2. CASE Begin
  BY <1>2 DEF Begin, InStep, OnlyLoses, Quiet, OnItsWay, Arrived, Replies
<1>3. CASE Send
  BY <1>3 DEF Send, InStep, OnlyLoses, Quiet, OnItsWay, Arrived, Replies
<1>4. CASE SendFails
  BY <1>4, FailedInStep DEF SendFails, InStep, OnItsWay, Arrived
<1>5. CASE TimesOut
  <2>1. OnlyLoses => Quiet
    BY <1>5, OnlyLosesExcludes DEF TimesOut, InStep, OnItsWay, Arrived
  <2> QED
    BY <1>5, <2>1, FailedInStep DEF TimesOut
<1>6. CASE Read
  <2>1. UNCHANGED <<pending, answered, network>> /\ socket # << >> /\ socket' = Tail(socket)
    BY <1>6 DEF Read
  <2>2. SUFFICES ASSUME OnlyLoses
                 PROVE  InStep'
    BY <2>1 DEF InStep, OnlyLoses
  <2>3. Arrived
    BY <2>1, <2>2 DEF InStep, Quiet, OnItsWay
  <2>4. Head(socket) = [reply |-> TRUE, of |-> seq] /\ Tail(socket) = << >>
    BY <2>3 DEF Arrived
  <2>5. Head(socket).reply /\ Head(socket).of = seq
    BY <2>4
  <2>6. /\ Replies' = Replies \cup {seq} /\ lines'[seq].of = seq
        /\ \A k \in Replies : lines'[k] = lines[k]
    BY <1>6, <2>5, CountedRound
  <2> QED
    BY <2>1, <2>2, <2>3, <2>4, <2>6 DEF InStep, Quiet, Arrived
<1>7. CASE Wakes
  BY <1>7 DEF Wakes, InStep, OnlyLoses, Quiet, OnItsWay, Arrived, Replies
<1> QED
  BY <1>1, <1>2, <1>3, <1>4, <1>5, <1>6, <1>7 DEF PingStep

\* So does a network that only loses packets.
LEMMA NetworkInStep ==
    ASSUME TypeOK, InStep, (\E r \in Rounds : Answer(r) \/ Lose(r)) \/ Stray
    PROVE  InStep'
<1> USE DEF loopVars
<1>1. ASSUME NEW r \in Rounds, Answer(r) PROVE InStep'
  <2>1. /\ r \in pending /\ Arrives([reply |-> TRUE, of |-> r])
        /\ answered' = answered \cup {r}
        /\ pending' = pending \ {r} \/ "double" \in network
    BY <1>1 DEF Answer
  <2>2. UNCHANGED <<loopVars, network>> /\ (socket = << >> => socket' = << [reply |-> TRUE, of |-> r] >>)
    BY <2>1, ArrivalsTyped, PacketAppended
  <2>3. SUFFICES ASSUME OnlyLoses
                 PROVE  InStep'
    BY <2>2 DEF InStep, OnlyLoses
  <2>4. OnItsWay /\ r = seq
    BY <2>1, <2>3 DEF InStep, Quiet, OnItsWay, Arrived
  <2>5. Arrived'
    BY <2>1, <2>2, <2>3, <2>4, OnlyLosesExcludes DEF OnItsWay, Arrived, Replies
  <2> QED
    BY <2>2, <2>3, <2>5 DEF InStep, Replies
<1>2. ASSUME NEW r \in Rounds, Lose(r) PROVE InStep'
  BY <1>2 DEF Lose, InStep, OnlyLoses, Quiet, OnItsWay, Arrived, Replies
<1>3. CASE Stray
  BY <1>3, OnlyLosesExcludes DEF Stray, Arrives, InStep, OnlyLoses
<1> QED
  BY <1>1, <1>2, <1>3

\* Every step keeps the rounds apart.
LEMMA NextInStep == TypeOK /\ RoundsCounted /\ InStep /\ [Next]_vars => InStep'
<1> SUFFICES ASSUME TypeOK, RoundsCounted, InStep, [Next]_vars
             PROVE  InStep'
  OBVIOUS
<1>1. CASE UNCHANGED vars
  BY <1>1 DEF vars, loopVars, netVars, InStep, OnlyLoses, Quiet, OnItsWay, Arrived, Replies
<1> QED
  BY <1>1, LoopInStep, NetworkInStep DEF Next, PingStep

\* Where packets are lost at worst, each reply is that of its own round and the
\* loss reported is the loss there was (LossIsExact).
THEOREM LossReportedIsLoss == Spec => []LossIsExact
<1>1. RoundsCounted /\ InStep => LossIsExact
  BY DEF RoundsCounted, InStep, OnlyLoses, Quiet, OnItsWay, Arrived, LossIsExact
<1> QED
  BY <1>1, InitRounds, InitAnswers, NextRounds, NextInStep, PTL DEF Spec
-------------------------------------------------------------------------------
(* The bytes of the requests *)

\* The request of a round, for a count that fits the 16 bits of its number.
LEMMA RequestTyped ==
    ASSUME NEW id \in Ids, seq \in Nat, seq <= 65535
    PROVE  /\ Request(id) \in Packets
           /\ Request(id).ID = id /\ Request(id).Seq = seq
<1>1. id \in Uint16
  BY PingAssumption
<1>2. seq % 2^16 = seq /\ seq \in Uint16
  <2>1. seq % 65536 = seq
    OBVIOUS
  <2> QED
    BY <2>1, Power, InUint16
<1>3. PICK body \in Seq(Byte) : body = Zeros(56)
  BY ZerosTyped
<1>4. PICK T \in Byte, C \in Byte : T = icmpEchoRequest /\ C = 0
  BY DEF icmpEchoRequest, Byte
<1>5. Request(id) = [Type |-> T, Code |-> C, ID |-> id, Seq |-> seq, Data |-> body]
  BY <1>2, <1>3, <1>4 DEF Request
<1> QED
  BY <1>1, <1>2, <1>3, <1>5 DEF Packets

\* Requests are numbered by their rounds, so their bytes are understood.
LEMMA RoundsUnderstood ==
    ASSUME Count < 2^16, RoundsCounted
    PROVE  RequestIsUnderstood
<1> SUFFICES ASSUME pc = "send", NEW id \in Ids,
                    NEW raw, raw = Marshal(Request(id)),
                    NEW resp, resp = parseICMPReply(Echo(raw))
             PROVE  /\ SumOf(raw) % (2^16 - 1) = 0
                    /\ ~tooShort(Echo(raw))
                    /\ resp.Type = icmpEchoReply /\ resp.ID = id /\ resp.Seq = seq
  BY Zenon DEF RequestIsUnderstood
<1>1. seq \in Nat /\ seq <= 65535
  BY CountTyped, Power DEF RoundsCounted
<1>2. PICK p \in Packets : p = Request(id) /\ p.ID = id /\ p.Seq = seq
  BY <1>1, RequestTyped
<1>3. SumOf(raw) % (2^16 - 1) = 0
  BY <1>2, ChecksumVerifies, Zenon
<1>4. PICK header \in Seq(Byte) : header = Zeros(20) /\ Len(header) = 20
  BY ZerosTyped
<1>5. /\ Echo(raw) = header \o [Marshal(p) EXCEPT ![1] = icmpEchoReply]
      /\ resp = parseICMPReply(header \o [Marshal(p) EXCEPT ![1] = icmpEchoReply])
  BY <1>2, <1>4, Zenon DEF Echo
<1>6. /\ ~tooShort(Echo(raw))
      /\ resp.Type = icmpEchoReply /\ resp.ID = p.ID /\ resp.Seq = p.Seq
  BY <1>4, <1>5, AnswerIsRead
<1> QED
  BY <1>2, <1>3, <1>6

\* In a call of fewer than 2^16 requests (runDiagnostics asks for 4; the number is
\* cut to 16 bits, networkping.go:123) the target answers each of them, and the
\* answer is read as one to it.
THEOREM RequestsAreUnderstood ==
    ASSUME Count < 2^16
    PROVE  Spec => []RequestIsUnderstood
<1>1. RoundsCounted => RequestIsUnderstood
  BY RoundsUnderstood
<1>2. Init => TypeOK /\ RoundsCounted
  BY InitRounds
<1>3. TypeOK /\ RoundsCounted /\ [Next]_vars => (TypeOK /\ RoundsCounted)'
  BY NextRounds
<1> QED
  BY <1>1, <1>2, <1>3, PTL DEF Spec
===============================================================================
