---------------------------- MODULE URaftProofs ----------------------------
(***************************************************************************)
(* Proofs about the election of URaft, for every number of nodes, every    *)
(* timeout and every bound.                                                *)
(***************************************************************************)
EXTENDS URaft, FiniteSetTheorems, TLAPS

-----------------------------------------------------------------------------
(* Type correctness *)

(* The derived constants have the types the record fields need. *)
LEMMA ConstantTypes ==
  /\ Timeout \in Nat \ {0}
  /\ Quorum \in Nat \ {0}
  /\ None \notin Node
  /\ Node \subseteq Int
<1>1. Timeout \in Nat \ {0}
  BY NAssumption, LAssumption DEF Timeout
<1>2. Quorum \in Nat \ {0}
  BY NAssumption DEF Quorum
<1>3. None \notin Node /\ Node \subseteq Int
  BY NAssumption DEF None, Node
<1> QED
  BY <1>1, <1>2, <1>3

(* The values the functions of the class assign are in the fields' ranges. *)
LEMMA FieldTypes ==
  /\ Timeout \in Countdown /\ 0 \in Countdown
  /\ Timeout \in Timer /\ Off \in Timer
  /\ None \in NodeOrNone
  /\ Node \subseteq NodeOrNone
  /\ \A t \in Countdown : t > 0 => t - 1 \in Countdown
  /\ \A t \in Timer : t > 0 => t - 1 \in Timer
BY ConstantTypes DEF Countdown, Timer, Off, NodeOrNone

(* The constructor and init() produce a node state. *)
LEMMA FreshNodeType ==
  ASSUME NEW n \in Node
  PROVE  FreshNode(n) \in NodeState
BY FieldTypes, LAssumption DEF FreshNode, NodeState

(* electionTimeout keeps the fields in range. *)
LEMMA StandForElectionType ==
  ASSUME NEW n \in Node, NEW s \in NodeState, NEW v \in Nat
  PROVE  StandForElection(n, s, v) \in NodeState
<1> DEFINE c == [s EXCEPT !.type = "candidate", !.term = @ + 1, !.votedFor = n,
                          !.granted = {n}, !.recv = {n}, !.heard[n] = s.localTime]
<1>1. [s EXCEPT !.elect = Timeout] \in NodeState
  BY FieldTypes DEF NodeState
<1>2. c \in NodeState
  <2>1. s.term + 1 \in Nat /\ n \in NodeOrNone /\ {n} \in SUBSET Node
    BY FieldTypes DEF NodeState
  <2>2. [s EXCEPT !.type = "candidate", !.term = @ + 1, !.votedFor = n] \in NodeState
    BY Zenon, <2>1 DEF NodeState
  <2> QED
    BY Zenon, <2>1, <2>2 DEF NodeState
<1> HIDE DEF c
<1>3. [c EXCEPT !.version = v, !.elect = Timeout] \in NodeState
  BY Zenon, <1>2, FieldTypes DEF NodeState
<1>4. [c EXCEPT !.type = "leader", !.electors = {n}, !.elect = Off] \in NodeState
  BY Zenon, <1>2, FieldTypes DEF NodeState
<1> QED
  BY <1>1, <1>3, <1>4 DEF StandForElection, c

(* checkTerm keeps the fields in range. *)
LEMMA CheckTermType ==
  ASSUME NEW n \in Node, NEW s \in NodeState, NEW t \in Nat, NEW v \in Nat
  PROVE  CheckTerm(n, s, t, v) \in NodeState
<1>1. [s EXCEPT !.term = t] \in NodeState
  BY DEF NodeState
<1>2. StandForElection(n, [s EXCEPT !.term = t], v) \in NodeState
  BY <1>1, StandForElectionType
<1> DEFINE e == IF s.type = "follower" THEN s.elect ELSE Timeout
<1>3. e \in Timer
  BY FieldTypes DEF NodeState
<1> HIDE DEF e
<1>4. [s EXCEPT !.type = "follower", !.votedFor = None, !.term = t, !.elect = e] \in NodeState
  BY Zenon, <1>3, FieldTypes DEF NodeState
<1> QED
  BY <1>2, <1>4 DEF CheckTerm, e

(* rpcAppend keeps the fields in range. *)
LEMMA AppendType ==
  ASSUME NEW s \in NodeState, NEW m \in Packet, NEW v \in Nat
  PROVE  Append(s, m, v) \in NodeState
<1> DEFINE w == IF m.from = s.leaderId THEN s.version ELSE v
<1>1. w \in Nat /\ m.from \in NodeOrNone
  BY FieldTypes DEF NodeState, Packet
<1> HIDE DEF w
<1>2. [s EXCEPT !.version = w, !.leaderId = m.from, !.loyal = Timeout,
                !.type = "follower", !.elect = Timeout] \in NodeState
  BY Zenon, <1>1, FieldTypes DEF NodeState
<1> QED
  BY <1>2 DEF Append, w

(* rpcAppendResponse keeps the fields in range. *)
LEMMA AppendResponseType ==
  ASSUME NEW s \in NodeState, NEW m \in Packet
  PROVE  AppendResponse(s, m) \in NodeState
<1> DEFINE h == IF s.heard[m.from] < m.time THEN m.time ELSE s.heard[m.from]
<1>1. h \in Nat /\ m.from \in Node
  BY DEF NodeState, Packet
<1> HIDE DEF h
<1>2. [s EXCEPT !.heard[m.from] = h, !.granted = @ \cup {m.from},
                !.recv = @ \cup {m.from}] \in NodeState
  BY Zenon, <1>1 DEF NodeState
<1> QED
  BY <1>2 DEF AppendResponse, h

(* rpcReqVote keeps the fields in range. *)
LEMMA ReqVoteType ==
  ASSUME NEW n \in Node, NEW s \in NodeState, NEW m \in Packet, NEW v \in Nat,
         meta[n] \in Nat
  PROVE  /\ RefreshVersion(s, v) \in NodeState
         /\ ReqVote(n, s, m) \in NodeState
<1> DEFINE p == IF s.votedFor = m.from THEN s.pledged ELSE meta[n]
<1>1. p \in Nat /\ m.from \in NodeOrNone
  BY FieldTypes DEF NodeState, Packet
<1> HIDE DEF p
<1>2. [s EXCEPT !.votedFor = m.from, !.elect = Timeout, !.pledged = p] \in NodeState
  BY Zenon, <1>1, FieldTypes DEF NodeState
<1>3. [s EXCEPT !.version = v] \in NodeState
  BY DEF NodeState
<1> QED
  BY <1>2, <1>3 DEF RefreshVersion, ReqVote, p

(* rpcReqVoteResponse keeps the fields in range. *)
LEMMA ReqVoteResponseType ==
  ASSUME NEW n \in Node, NEW s \in NodeState, NEW m \in Packet
  PROVE  ReqVoteResponse(n, s, m) \in NodeState
<1> DEFINE g == IF m.result THEN s.granted \cup {m.from} ELSE s.granted \ {m.from}
           c == [s EXCEPT !.granted = g, !.recv = @ \cup {m.from}]
<1>1. g \in SUBSET Node /\ m.from \in Node
  BY DEF NodeState, Packet
<1> HIDE DEF g
<1>2. c \in NodeState /\ c.granted = g
  BY Zenon, <1>1 DEF NodeState
<1> HIDE DEF c
<1>3. [c EXCEPT !.type = "leader", !.leaderId = n, !.electors = c.granted, !.elect = Off]
        \in NodeState
  BY Zenon, <1>1, <1>2, FieldTypes DEF NodeState
<1> QED
  BY <1>2, <1>3 DEF ReqVoteResponse, c, g

(* demoteLeader, the heartbeat and the timers keep the fields in range. *)
LEMMA TimerTypes ==
  ASSUME NEW n \in Node, NEW s \in NodeState
  PROVE  /\ Demoted(s) \in NodeState
         /\ Beat(n, s) \in NodeState
         /\ AfterBeat(s) \in NodeState
         /\ TimersRun(s) \in NodeState
<1>1. Demoted(s) \in NodeState
  BY Zenon, FieldTypes DEF Demoted, NodeState
<1>2. Beat(n, s) \in NodeState
  <2>1. s.localTime + 1 \in Nat
    BY DEF NodeState
  <2>2. QED
    BY Zenon, <2>1 DEF Beat, NodeState
<1>3. AfterBeat(s) \in NodeState
  <2>1. StepDown(s) \in NodeState
    BY Zenon, FieldTypes DEF StepDown, NodeState
  <2>2. [s EXCEPT !.president = TRUE] \in NodeState
    BY Zenon DEF NodeState
  <2> QED
    BY <2>1, <2>2 DEF AfterBeat
<1>4. TimersRun(s) \in NodeState
  <2> DEFINE l == IF s.loyal > 0 THEN s.loyal - 1 ELSE s.loyal
             e == IF s.elect > 0 THEN s.elect - 1 ELSE s.elect
  <2>1. l \in Countdown /\ e \in Timer
    BY FieldTypes DEF NodeState
  <2> HIDE DEF l, e
  <2>2. [s EXCEPT !.loyal = l, !.elect = e] \in NodeState
    BY Zenon, <2>1 DEF NodeState
  <2> QED
    BY <2>2 DEF TimersRun, l, e
<1> QED
  BY <1>1, <1>2, <1>3, <1>4

(* The requests a node sends are packets. *)
LEMMA RequestTypes ==
  ASSUME NEW n \in Node, NEW s \in NodeState, now' \in Nat
  PROVE  /\ Heartbeats(n, s) \subseteq Packet
         /\ VoteRequests(n, s) \subseteq Packet
         /\ BeatPackets(n, s) \subseteq Packet
<1>1. Heartbeats(n, s) \subseteq Packet
  <2>1. SUFFICES ASSUME NEW d \in Node \ {n}
                 PROVE  [kind |-> "AE", from |-> n, to |-> d, term |-> s.term,
                         time |-> s.localTime, version |-> s.version,
                         result |-> FALSE, at |-> now'] \in Packet
    BY DEF Heartbeats
  <2> QED
    BY DEF Packet, NodeState
<1>2. VoteRequests(n, s) \subseteq Packet
  <2>1. SUFFICES ASSUME NEW d \in Node \ s.recv
                 PROVE  [kind |-> "RV", from |-> n, to |-> d, term |-> s.term,
                         time |-> 0, version |-> s.version,
                         result |-> FALSE, at |-> now'] \in Packet
    BY DEF VoteRequests
  <2> QED
    BY DEF Packet, NodeState
<1> QED
  BY <1>1, <1>2 DEF BeatPackets

(* The answers a node sends are packets. *)
LEMMA ResponseType ==
  ASSUME NEW n \in Node, NEW s \in NodeState, NEW m \in Packet,
         NEW kind \in {"AER", "RVR"}, NEW b \in BOOLEAN, now' \in Nat
  PROVE  Response(kind, n, s, m, b) \subseteq Packet
BY DEF Response, Packet, NodeState

(* Sending adds nothing to the network but what is sent. *)
LEMMA SendSubset ==
  ASSUME NEW ms, NEW out, Send(ms, out)
  PROVE  msgs' \subseteq ms \cup out
BY DEF Send

(* What the handlers are given is well typed. *)
LEMMA ReceiveTypes ==
  ASSUME TypeOK, NEW n \in Node, NEW m \in msgs, NEW v \in Versions(n)
  PROVE  /\ v \in Nat
         /\ m \in Packet
         /\ AfterCheckTerm(n, m, v) \in NodeState
<1>1. v \in Nat
  BY DEF TypeOK, Versions, NodeState
<1>2. m \in Packet /\ m.term \in Nat /\ state[n] \in NodeState
  BY DEF TypeOK, Packet
<1>3. AfterCheckTerm(n, m, v) \in NodeState
  BY <1>1, <1>2, CheckTermType DEF AfterCheckTerm
<1> QED
  BY <1>1, <1>2, <1>3

(* The initial state is well typed. *)
LEMMA TypeInit == Init => TypeOK
BY FreshNodeType, FieldTypes, BoundsAssumption DEF Init, TypeOK, Lease, NoLease

(* Every step keeps the types. *)
LEMMA TypeStep == TypeOK /\ [Next]_vars => TypeOK'
<1> SUFFICES ASSUME TypeOK, [Next]_vars
             PROVE  TypeOK'
  OBVIOUS
<1>1. ASSUME NEW n \in Node, Heartbeat(n)
      PROVE  TypeOK'
  <2> DEFINE s == Beat(n, TimersRun(state[n]))
  <2>1. now' \in Nat
    BY <1>1 DEF Heartbeat, TypeOK
  <2>2. \A m \in Node : TimersRun(state[m]) \in NodeState
    BY TimerTypes DEF TypeOK
  <2>3. s \in NodeState /\ AfterBeat(s) \in NodeState
    BY <2>2, TimerTypes
  <2>4. state' \in [Node -> NodeState]
    BY <1>1, <2>2, <2>3 DEF Heartbeat
  <2>5. msgs' \subseteq Packet
    <3>1. BeatPackets(n, s) \subseteq Packet
      BY <2>1, <2>3, RequestTypes
    <3>2. InFlight(msgs) \subseteq Packet
      BY DEF InFlight, TypeOK
    <3> QED
      BY <1>1, <3>1, <3>2, SendSubset DEF Heartbeat
  <2>6. lease' \in [Node -> Lease]
    <3>1. ASSUME NEW l \in Lease PROVE LeaseRuns(l) \in Lease
      <4>1. NoLease \in Lease
        BY FieldTypes DEF Lease, NoLease
      <4>2. l.left > 1 => l.left - 1 \in Countdown
        BY ConstantTypes DEF Lease, Countdown
      <4>3. l.left > 1 => [l EXCEPT !.left = @ - 1] \in Lease
        BY <4>2 DEF Lease
      <4> QED
        BY <4>1, <4>3 DEF LeaseRuns
    <3> QED
      BY <1>1, <3>1 DEF Heartbeat, TypeOK
  <2> QED
    BY <1>1, <2>1, <2>4, <2>5, <2>6 DEF Heartbeat, TypeOK
<1>2. ASSUME NEW n \in Node, ElectionTimeout(n)
      PROVE  TypeOK'
  <2>1. PICK v \in Versions(n) :
          LET s == StandForElection(n, state[n], v)
          IN  /\ state' = [state EXCEPT ![n] = s]
              /\ Send(msgs, IF s.type = "candidate" /\ ~s.block THEN VoteRequests(n, s) ELSE {})
    BY Zenon, <1>2 DEF ElectionTimeout
  <2> DEFINE s == StandForElection(n, state[n], v)
  <2>2. v \in Nat /\ state[n] \in NodeState
    BY DEF TypeOK, Versions, NodeState
  <2>3. s \in NodeState
    BY <2>2, StandForElectionType
  <2>4. now' \in Nat
    BY <1>2 DEF ElectionTimeout, TypeOK
  <2> HIDE DEF s
  <2>5. VoteRequests(n, s) \subseteq Packet
    BY <2>3, <2>4, RequestTypes
  <2>6. msgs' \subseteq Packet
    BY <2>1, <2>5, SendSubset DEF s, TypeOK
  <2>7. state' \in [Node -> NodeState]
    BY <2>1, <2>3 DEF s, TypeOK
  <2> QED
    BY <1>2, <2>6, <2>7 DEF ElectionTimeout, TypeOK
<1>3. ASSUME NEW n \in Node, ReceiveAppend(n)
      PROVE  TypeOK'
  <2>1. PICK m \in msgs, v \in Versions(n) :
          LET s == AfterCheckTerm(n, m, v)
          IN  /\ Receive(n, m, "AE")
              /\ lease' = [lease EXCEPT ![n] = [to |-> m.from, left |-> Timeout]]
              /\ state' = [state EXCEPT ![n] = Append(s, m, v)]
              /\ Send(msgs \ {m}, BumpPackets(n, m, s)
                                    \cup Response("AER", n, Append(s, m, v), m, TRUE))
    BY Zenon, <1>3 DEF ReceiveAppend
  <2> DEFINE s == AfterCheckTerm(n, m, v)
             a == Append(s, m, v)
  <2>2. v \in Nat /\ m \in Packet /\ s \in NodeState
    BY ReceiveTypes
  <2>3. a \in NodeState
    BY <2>2, AppendType
  <2>4. now' \in Nat /\ meta' \in [Node -> Nat] /\ restarts' \in Nat /\ calls' \in Nat
    BY <2>1 DEF Receive, TypeOK
  <2> HIDE DEF s, a
  <2>5. BumpPackets(n, m, s) \subseteq Packet
    BY <2>2, <2>4, RequestTypes DEF BumpPackets
  <2>6. Response("AER", n, a, m, TRUE) \subseteq Packet
    BY Zenon, <2>2, <2>3, <2>4, ResponseType
  <2>7. msgs' \subseteq Packet
    <3>1. Send(msgs \ {m}, BumpPackets(n, m, s) \cup Response("AER", n, a, m, TRUE))
      BY <2>1 DEF s, a
    <3>2. msgs' \subseteq (msgs \ {m})
                       \cup (BumpPackets(n, m, s) \cup Response("AER", n, a, m, TRUE))
      BY ONLY Zenon, <3>1, SendSubset
    <3> QED
      BY Zenon, <2>5, <2>6, <3>2 DEF TypeOK
  <2>8. state' \in [Node -> NodeState]
    BY <2>1, <2>3 DEF s, a, TypeOK
  <2>9. lease' \in [Node -> Lease]
    <3>1. [to |-> m.from, left |-> Timeout] \in Lease
      BY <2>2, FieldTypes DEF Lease, Packet
    <3> QED
      BY <2>1, <3>1 DEF TypeOK
  <2> QED
    BY <2>4, <2>7, <2>8, <2>9 DEF TypeOK
<1>4. ASSUME NEW n \in Node, ReceiveAppendResponse(n)
      PROVE  TypeOK'
  <2>1. PICK m \in msgs, v \in Versions(n) :
          LET s == AfterCheckTerm(n, m, v)
          IN  /\ Receive(n, m, "AER")
              /\ UNCHANGED lease
              /\ state' = [state EXCEPT ![n] = AppendResponse(s, m)]
              /\ Send(msgs \ {m}, BumpPackets(n, m, s))
    BY Zenon, <1>4 DEF ReceiveAppendResponse
  <2> DEFINE s == AfterCheckTerm(n, m, v)
  <2>2. v \in Nat /\ m \in Packet /\ s \in NodeState
    BY ReceiveTypes
  <2>3. AppendResponse(s, m) \in NodeState
    BY <2>2, AppendResponseType
  <2>4. now' \in Nat /\ meta' \in [Node -> Nat] /\ restarts' \in Nat /\ calls' \in Nat
    BY <2>1 DEF Receive, TypeOK
  <2> HIDE DEF s
  <2>5. BumpPackets(n, m, s) \subseteq Packet
    BY <2>2, <2>4, RequestTypes DEF BumpPackets
  <2>6. msgs' \subseteq Packet
    BY <2>1, <2>5, SendSubset DEF s, TypeOK
  <2>7. state' \in [Node -> NodeState]
    BY <2>1, <2>3 DEF s, TypeOK
  <2> QED
    BY <2>1, <2>4, <2>6, <2>7 DEF TypeOK
<1>5. ASSUME NEW n \in Node, ReceiveReqVote(n)
      PROVE  TypeOK'
  <2>1. PICK m \in msgs, v \in Versions(n) :
          LET c == AfterCheckTerm(n, m, v)
              s == RefreshVersion(c, v)
          IN  /\ Receive(n, m, "RV")
              /\ UNCHANGED lease
              /\ state' = [state EXCEPT ![n] = ReqVote(n, s, m)]
              /\ Send(msgs \ {m}, BumpPackets(n, m, c)
                                    \cup Response("RVR", n, s, m, GrantsVote(s, m)))
    BY Zenon, <1>5 DEF ReceiveReqVote
  <2> DEFINE c == AfterCheckTerm(n, m, v)
             s == RefreshVersion(c, v)
  <2>2. v \in Nat /\ m \in Packet /\ c \in NodeState /\ meta[n] \in Nat
    BY ReceiveTypes DEF TypeOK
  <2>3. s \in NodeState
    BY <2>2, ReqVoteType
  <2>4. ReqVote(n, s, m) \in NodeState
    BY <2>2, <2>3, ReqVoteType
  <2>5. now' \in Nat /\ meta' \in [Node -> Nat] /\ restarts' \in Nat /\ calls' \in Nat
    BY <2>1 DEF Receive, TypeOK
  <2> HIDE DEF c, s
  <2>6. BumpPackets(n, m, c) \subseteq Packet
    BY <2>2, <2>5, RequestTypes DEF BumpPackets
  <2>7. Response("RVR", n, s, m, GrantsVote(s, m)) \subseteq Packet
    <3>1. GrantsVote(s, m) \in BOOLEAN
      BY DEF GrantsVote
    <3> QED
      BY <2>2, <2>3, <2>5, <3>1, ResponseType
  <2>8. msgs' \subseteq Packet
    BY <2>1, <2>6, <2>7, SendSubset DEF c, s, TypeOK
  <2>9. state' \in [Node -> NodeState]
    BY <2>1, <2>4 DEF c, s, TypeOK
  <2> QED
    BY <2>1, <2>5, <2>8, <2>9 DEF TypeOK
<1>6. ASSUME NEW n \in Node, ReceiveReqVoteResponse(n)
      PROVE  TypeOK'
  <2>1. PICK m \in msgs, v \in Versions(n) :
          LET c == AfterCheckTerm(n, m, v)
              s == ReqVoteResponse(n, c, m)
          IN  /\ Receive(n, m, "RVR")
              /\ UNCHANGED lease
              /\ state' = [state EXCEPT ![n] = s]
              /\ Send(msgs \ {m},
                      BumpPackets(n, m, c)
                        \cup (IF c.type = "candidate" /\ s.type = "leader"
                              THEN Heartbeats(n, s) ELSE {}))
    BY Zenon, <1>6 DEF ReceiveReqVoteResponse
  <2> DEFINE c == AfterCheckTerm(n, m, v)
             s == ReqVoteResponse(n, c, m)
  <2>2. v \in Nat /\ m \in Packet /\ c \in NodeState
    BY ReceiveTypes
  <2>3. s \in NodeState
    BY <2>2, ReqVoteResponseType
  <2>4. now' \in Nat /\ meta' \in [Node -> Nat] /\ restarts' \in Nat /\ calls' \in Nat
    BY <2>1 DEF Receive, TypeOK
  <2> HIDE DEF c, s
  <2>5. BumpPackets(n, m, c) \subseteq Packet /\ Heartbeats(n, s) \subseteq Packet
    BY <2>2, <2>3, <2>4, RequestTypes DEF BumpPackets
  <2>6. msgs' \subseteq Packet
    BY <2>1, <2>5, SendSubset DEF c, s, TypeOK
  <2>7. state' \in [Node -> NodeState]
    BY <2>1, <2>3 DEF c, s, TypeOK
  <2> QED
    BY <2>1, <2>4, <2>6, <2>7 DEF TypeOK
<1>7. ASSUME NEW n \in Node, DemoteLeader(n)
      PROVE  TypeOK'
  <2>1. Demoted(state[n]) \in NodeState
    BY TimerTypes DEF TypeOK
  <2> QED
    BY <1>7, <2>1 DEF DemoteLeader, TypeOK
<1>8. ASSUME NEW n \in Node, SetBlockPromotion(n)
      PROVE  TypeOK'
  <2>1. PICK b \in BOOLEAN : state' = [state EXCEPT ![n] = [@ EXCEPT !.block = b]]
    BY Zenon, <1>8 DEF SetBlockPromotion
  <2>2. [state[n] EXCEPT !.block = b] \in NodeState
    <3>1. state[n] \in NodeState
      BY DEF TypeOK
    <3> QED
      BY <3>1 DEF NodeState
  <2> QED
    BY <1>8, <2>1, <2>2 DEF SetBlockPromotion, TypeOK
<1>9. ASSUME NEW n \in Node, Restart(n)
      PROVE  TypeOK'
  BY <1>9, FreshNodeType DEF Restart, TypeOK
<1>10. ASSUME NEW n \in Node, MetadataChange(n)
       PROVE  TypeOK'
  BY <1>10 DEF MetadataChange, TypeOK
<1>11. CASE UNCHANGED vars
  BY <1>11 DEF vars, TypeOK
<1> QED
  BY <1>1, <1>2, <1>3, <1>4, <1>5, <1>6, <1>7, <1>8, <1>9, <1>10, <1>11 DEF Next

(* Type correctness of the election (class uRaft): in every behaviour,     *)
(* whatever packets are lost, delayed or reordered and whenever nodes      *)
(* restart, every node and every packet keeps its type.                    *)
THEOREM TypeCorrect == Spec => []TypeOK
<1>1. Init => TypeOK
  BY TypeInit
<1>2. TypeOK /\ [Next]_vars => TypeOK'
  BY TypeStep
<1> QED
  BY <1>1, <1>2, PTL DEF Spec

=============================================================================
