------------------------ MODULE URaftElectionProofs ------------------------
(***************************************************************************)
(* Two nodes are never leaders of one term, for every number of nodes,     *)
(* every timeout, every delay, loss and reordering of packets.             *)
(*                                                                         *)
(* A handler is a composition of a few changes of one node's state.  There *)
(* is one lemma per kind of change, each saying that the change keeps      *)
(* VotesOK; the step of the specification is proved from them.             *)
(***************************************************************************)
EXTENDS URaftElection, URaftProofs

States == [Node -> NodeState]

(* r differs from s in nothing that matters to the votes *)
SameVotes(s, r) ==
  /\ r.type = s.type /\ r.term = s.term /\ r.votedFor = s.votedFor
  /\ r.leaderId = s.leaderId /\ r.electors = s.electors
  /\ r.type = "candidate" => r.granted = s.granted
  /\ r.loyal > 0 => s.loyal > 0

(* A change of one node leaves the others alone. *)
LEMMA OneNodeChanges ==
  ASSUME NEW st \in States, NEW n \in Node, NEW s \in NodeState
  PROVE  /\ [st EXCEPT ![n] = s] \in States
         /\ [st EXCEPT ![n] = s][n] = s
         /\ \A x \in Node : x # n => [st EXCEPT ![n] = s][x] = st[x]
BY DEF States

(* Terms are natural numbers. *)
LEMMA TermTypes ==
  ASSUME NEW st \in States
  PROVE  \A x \in Node : st[x].term \in Nat
BY DEF States, NodeState

(* Timers, answers to heartbeats, the promotion to president and the calls *)
(* of the controller do not touch the votes.                               *)
LEMMA QuietChange ==
  ASSUME NEW st \in States, NEW ms \in SUBSET Packet, VotesOK(st, ms),
         NEW st2 \in States, \A n \in Node : SameVotes(st[n], st2[n])
  PROVE  VotesOK(st2, ms)
<1>1. \A x, y \in Node : Backs(st2, ms, y, x) => Backs(st, ms, y, x)
  BY DEF Backs, SameVotes
<1>2. \A x \in Node, t \in Nat : CannotWin(st, x, t) <=> CannotWin(st2, x, t)
  BY DEF CannotWin, SameVotes
<1>3. SelfVote(st2) /\ ElectedByQuorum(st2)
  BY DEF VotesOK, SelfVote, ElectedByQuorum, SameVotes
<1>4. PacketTerms(st2, ms)
  BY <1>2 DEF VotesOK, PacketTerms, SameVotes, Packet
<1>5. BackerTerms(st2, ms) /\ OneBacked(st2, ms)
  BY <1>1 DEF VotesOK, BackerTerms, OneBacked, SameVotes
<1>6. LoyalVote(st2)
  BY <1>2 DEF VotesOK, LoyalVote, SameVotes, States, NodeState
<1>7. VoteKept(st2, ms)
  BY <1>1, <1>2 DEF VotesOK, VoteKept, SameVotes, States, NodeState
<1> QED
  BY <1>3, <1>4, <1>5, <1>6, <1>7 DEF VotesOK

(* A node becomes a follower that has not voted: in demoteLeader, when a   *)
(* president steps down, and in checkTerm.                                 *)
LEMMA FollowerChange ==
  ASSUME NEW st \in States, NEW ms \in SUBSET Packet, VotesOK(st, ms),
         NEW n \in Node, NEW s \in NodeState,
         s.type = "follower", s.votedFor = None,
         \/ s.term > st[n].term
         \/ s.term = st[n].term /\ st[n].type # "follower"
  PROVE  VotesOK([st EXCEPT ![n] = s], ms)
<1> DEFINE st2 == [st EXCEPT ![n] = s]
<1>1. st2 \in States /\ st2[n] = s /\ \A x \in Node : x # n => st2[x] = st[x]
  BY OneNodeChanges
<1> HIDE DEF st2
<1>2. \A x \in Node : st2[x].term >= st[x].term /\ st[x].term \in Nat /\ st2[x].term \in Nat
  <2>1. \A x \in Node : st[x].term \in Nat /\ st2[x].term \in Nat
    BY <1>1, TermTypes
  <2> QED
    BY <1>1, <2>1
<1>3. \A x \in Node, t \in Nat : CannotWin(st, x, t) => CannotWin(st2, x, t)
  BY <1>1, <1>2 DEF CannotWin
<1>4. \A x, y \in Node : Backs(st2, ms, y, x) => x # n /\ Backs(st, ms, y, x)
  BY <1>1 DEF Backs
<1>5. SelfVote(st2) /\ ElectedByQuorum(st2)
  BY <1>1 DEF VotesOK, SelfVote, ElectedByQuorum
<1>6. PacketTerms(st2, ms)
  BY <1>1, <1>2, <1>3 DEF VotesOK, PacketTerms, Packet
<1>7. BackerTerms(st2, ms) /\ OneBacked(st2, ms)
  BY <1>1, <1>2, <1>4 DEF VotesOK, BackerTerms, OneBacked
<1>8. LoyalVote(st2)
  BY <1>1, <1>2, <1>3 DEF VotesOK, LoyalVote
<1>9. VoteKept(st2, ms)
  <2> SUFFICES ASSUME NEW x \in Node, NEW y \in Node,
                      Backs(st2, ms, y, x), st2[y].term = st2[x].term
               PROVE  \/ st2[y].votedFor = x
                      \/ /\ st2[y].type = "follower" /\ st2[y].votedFor \in Node
                         /\ CannotWin(st2, st2[y].votedFor, st2[x].term)
    BY DEF VoteKept
  <2>1. x # n /\ Backs(st, ms, y, x)
    BY <1>4
  <2>2. CASE y = n
    <3>1. st[x].term <= st[n].term
      BY <2>1, <2>2 DEF VotesOK, BackerTerms
    <3>2. s.term = st[n].term /\ st[n].type # "follower" /\ st[x].term = st[n].term
      BY <1>1, <1>2, <2>1, <2>2, <3>1
    <3>3. st[n].votedFor = n
      BY <3>2 DEF VotesOK, SelfVote
    <3> QED
      BY <2>1, <2>2, <3>2, <3>3 DEF VotesOK, VoteKept
  <2>3. CASE y # n
    BY <1>1, <1>2, <1>3, <2>1, <2>3 DEF VotesOK, VoteKept
  <2> QED
    BY <2>2, <2>3
<1> QED
  BY <1>5, <1>6, <1>7, <1>8, <1>9 DEF VotesOK, st2

(* A node stands for election in a term it has not been in.                *)
LEMMA CandidateChange ==
  ASSUME NEW st \in States, NEW ms \in SUBSET Packet, VotesOK(st, ms),
         NEW n \in Node, NEW s \in NodeState,
         s.term > st[n].term, s.votedFor = n, s.granted = {n},
         \/ s.type = "candidate"
         \/ s.type = "leader" /\ s.electors = {n} /\ Quorum <= 1
  PROVE  VotesOK([st EXCEPT ![n] = s], ms)
<1> DEFINE st2 == [st EXCEPT ![n] = s]
<1>1. st2 \in States /\ st2[n] = s /\ \A x \in Node : x # n => st2[x] = st[x]
  BY OneNodeChanges
<1> HIDE DEF st2
<1>2. \A x \in Node : st2[x].term >= st[x].term /\ st[x].term \in Nat /\ st2[x].term \in Nat
  <2>1. \A x \in Node : st[x].term \in Nat /\ st2[x].term \in Nat
    BY <1>1, TermTypes
  <2> QED
    BY <1>1, <2>1
<1>3. \A x \in Node, t \in Nat : CannotWin(st, x, t) => CannotWin(st2, x, t)
  BY <1>1, <1>2 DEF CannotWin
<1>4. \A x, y \in Node : Backs(st2, ms, y, x) => \/ x # n /\ Backs(st, ms, y, x)
                                                 \/ x = n /\ y = n
  <2> SUFFICES ASSUME NEW y \in Node, Backs(st2, ms, y, n)
               PROVE  y = n
    BY <1>1 DEF Backs
  <2>1. \A m \in ms : ~(Granted(m) /\ m.to = n /\ m.term = s.term)
    BY <1>1, <1>2 DEF VotesOK, PacketTerms, Packet
  <2> QED
    BY <1>1, <2>1 DEF Backs
<1>5. SelfVote(st2)
  BY <1>1 DEF VotesOK, SelfVote
<1>6. ElectedByQuorum(st2)
  <2>1. Cardinality({n}) = 1
    BY Zenon, FS_Singleton
  <2> QED
    BY Zenon, <1>1, <2>1, ConstantTypes DEF VotesOK, ElectedByQuorum
<1>7. PacketTerms(st2, ms)
  BY <1>1, <1>2, <1>3 DEF VotesOK, PacketTerms, Packet
<1>8. BackerTerms(st2, ms)
  BY <1>1, <1>2, <1>4 DEF VotesOK, BackerTerms
<1>9. OneBacked(st2, ms)
  BY <1>1, <1>2, <1>4 DEF VotesOK, BackerTerms, OneBacked
<1>10. LoyalVote(st2)
  BY <1>1, <1>2, <1>3 DEF VotesOK, LoyalVote
<1>11. VoteKept(st2, ms)
  <2> SUFFICES ASSUME NEW x \in Node, NEW y \in Node,
                      Backs(st2, ms, y, x), st2[y].term = st2[x].term
               PROVE  \/ st2[y].votedFor = x
                      \/ /\ st2[y].type = "follower" /\ st2[y].votedFor \in Node
                         /\ CannotWin(st2, st2[y].votedFor, st2[x].term)
    BY DEF VoteKept
  <2>1. CASE x = n
    BY <1>1, <1>4, <2>1
  <2>2. CASE x # n /\ y = n
    BY <1>1, <1>2, <1>4, <2>2 DEF VotesOK, BackerTerms
  <2>3. CASE x # n /\ y # n
    BY <1>1, <1>2, <1>3, <1>4, <2>3 DEF VotesOK, VoteKept
  <2> QED
    BY <2>1, <2>2, <2>3
<1> QED
  BY <1>5, <1>6, <1>7, <1>8, <1>9, <1>10, <1>11 DEF VotesOK, st2

(* A heartbeat m makes n a follower loyal to its sender (rpcAppend). *)
LEMMA AppendChange ==
  ASSUME NEW st \in States, NEW ms \in SUBSET Packet, VotesOK(st, ms),
         NEW n \in Node, NEW s \in NodeState,
         NEW m \in ms, m.kind = "AE", m.term = st[n].term,
         s.type = "follower", s.term = st[n].term, s.votedFor = st[n].votedFor,
         s.leaderId = m.from
  PROVE  VotesOK([st EXCEPT ![n] = s], ms)
<1> DEFINE st2 == [st EXCEPT ![n] = s]
<1>1. st2 \in States /\ st2[n] = s /\ \A x \in Node : x # n => st2[x] = st[x]
  BY OneNodeChanges
<1> HIDE DEF st2
<1>2. \A x \in Node : /\ st2[x].term = st[x].term /\ st[x].term \in Nat
                      /\ st2[x].votedFor = st[x].votedFor
  BY <1>1, TermTypes
<1>3. \A x \in Node, t \in Nat : CannotWin(st, x, t) => CannotWin(st2, x, t)
  BY <1>1, <1>2 DEF CannotWin
<1>4. \A x, y \in Node : Backs(st2, ms, y, x) => x # n /\ Backs(st, ms, y, x)
  BY <1>1 DEF Backs
<1>5. SelfVote(st2) /\ ElectedByQuorum(st2)
  BY <1>1 DEF VotesOK, SelfVote, ElectedByQuorum
<1>6. PacketTerms(st2, ms)
  BY <1>2, <1>3 DEF VotesOK, PacketTerms, Packet
<1>7. BackerTerms(st2, ms) /\ OneBacked(st2, ms)
  BY <1>2, <1>4 DEF VotesOK, BackerTerms, OneBacked
<1>8. LoyalVote(st2)
  <2>1. CannotWin(st2, m.from, s.term)
    <3>1. CannotWin(st, m.from, m.term) /\ m.from \in Node
      BY DEF VotesOK, PacketTerms, Packet
    <3> QED
      BY <1>2, <1>3, <3>1
  <2> QED
    BY <1>1, <1>2, <1>3, <2>1 DEF VotesOK, LoyalVote
<1>9. VoteKept(st2, ms)
  BY <1>1, <1>2, <1>3, <1>4 DEF VotesOK, VoteKept
<1> QED
  BY <1>5, <1>6, <1>7, <1>8, <1>9 DEF VotesOK, st2

(* A candidate counts the answer m, and is elected by a quorum            *)
(* (rpcReqVoteResponse).                                                   *)
LEMMA CountChange ==
  ASSUME NEW st \in States, NEW ms \in SUBSET Packet, VotesOK(st, ms),
         NEW n \in Node, NEW s \in NodeState,
         NEW m \in ms, m.kind = "RVR", m.to = n, m.result => m.term = st[n].term,
         st[n].type = "candidate", s.term = st[n].term, s.votedFor = st[n].votedFor,
         s.granted \subseteq st[n].granted \cup (IF m.result THEN {m.from} ELSE {}),
         \/ s.type = "candidate"
         \/ s.type = "leader" /\ s.electors = s.granted /\ Cardinality(s.granted) >= Quorum
  PROVE  VotesOK([st EXCEPT ![n] = s], ms)
<1> DEFINE st2 == [st EXCEPT ![n] = s]
<1>1. st2 \in States /\ st2[n] = s /\ \A x \in Node : x # n => st2[x] = st[x]
  BY OneNodeChanges
<1> HIDE DEF st2
<1>2. \A x \in Node : /\ st2[x].term = st[x].term /\ st[x].term \in Nat
                      /\ st2[x].votedFor = st[x].votedFor
                      /\ st2[x].type = "follower" <=> st[x].type = "follower"
  BY <1>1, TermTypes
<1>3. \A x \in Node, t \in Nat : CannotWin(st, x, t) => CannotWin(st2, x, t)
  BY <1>1, <1>2 DEF CannotWin
<1>4. \A x, y \in Node : Backs(st2, ms, y, x) => Backs(st, ms, y, x)
  <2>1. \A y \in Node : Backs(st2, ms, y, n) => Backs(st, ms, y, n)
    <3>1. \A y \in s.granted : \/ y \in st[n].granted
                               \/ Granted(m) /\ m.from = y /\ m.to = n /\ m.term = st[n].term
      BY DEF Granted
    <3> QED
      BY <1>1, <3>1 DEF Backs
  <2> QED
    BY <1>1, <2>1 DEF Backs
<1>5. SelfVote(st2)
  BY <1>2 DEF VotesOK, SelfVote
<1>6. ElectedByQuorum(st2)
  BY <1>1 DEF VotesOK, ElectedByQuorum
<1>7. PacketTerms(st2, ms)
  BY <1>2, <1>3 DEF VotesOK, PacketTerms, Packet
<1>8. BackerTerms(st2, ms) /\ OneBacked(st2, ms)
  BY <1>2, <1>4 DEF VotesOK, BackerTerms, OneBacked
<1>9. LoyalVote(st2)
  BY <1>1, <1>2, <1>3 DEF VotesOK, LoyalVote
<1>10. VoteKept(st2, ms)
  BY <1>2, <1>3, <1>4 DEF VotesOK, VoteKept
<1> QED
  BY <1>5, <1>6, <1>7, <1>8, <1>9, <1>10 DEF VotesOK, st2

(* Packets are lost or consumed, and requests and refusals are sent. *)
LEMMA PacketChange ==
  ASSUME NEW st \in States, NEW ms \in SUBSET Packet, VotesOK(st, ms),
         NEW out \in SUBSET Packet, NEW ms2 \in SUBSET (ms \cup out),
         \A p \in out :
           /\ ~Granted(p)
           /\ p.kind = "AE" => CannotWin(st, p.from, p.term)
           /\ p.kind = "RV" => p.term <= st[p.from].term
  PROVE  VotesOK(st, ms2)
<1>1. \A x, y \in Node : Backs(st, ms2, y, x) => Backs(st, ms, y, x)
  BY DEF Backs
<1>2. PacketTerms(st, ms2)
  BY DEF VotesOK, PacketTerms
<1>3. BackerTerms(st, ms2) /\ OneBacked(st, ms2) /\ VoteKept(st, ms2)
  BY <1>1 DEF VotesOK, BackerTerms, OneBacked, VoteKept
<1> QED
  BY <1>2, <1>3 DEF VotesOK

(* A follower grants the request m and answers with r (rpcReqVote). *)
LEMMA VoteChange ==
  ASSUME NEW st \in States, NEW ms \in SUBSET Packet, VotesOK(st, ms),
         NEW n \in Node, NEW s \in NodeState,
         NEW m \in ms, m.kind = "RV", m.term = st[n].term,
         st[n].type = "follower",
         IF st[n].loyal > 0 THEN st[n].leaderId = m.from
                            ELSE st[n].votedFor \in {None, m.from},
         s.type = "follower", s.term = st[n].term, s.votedFor = m.from,
         s.leaderId = st[n].leaderId, s.loyal = st[n].loyal,
         NEW r \in Packet, r.from = n, r.to = m.from, r.term = m.term, r.kind = "RVR"
  PROVE  VotesOK([st EXCEPT ![n] = s], ms \cup {r})
<1> DEFINE st2 == [st EXCEPT ![n] = s]
           ms2 == ms \cup {r}
<1>1. st2 \in States /\ st2[n] = s /\ \A x \in Node : x # n => st2[x] = st[x]
  BY OneNodeChanges
<1> HIDE DEF st2
<1>2. \A x \in Node : /\ st2[x].term = st[x].term /\ st[x].term \in Nat
                      /\ st2[x].type = st[x].type
  BY <1>1, TermTypes
<1>3. \A x \in Node, t \in Nat : CannotWin(st, x, t) <=> CannotWin(st2, x, t)
  BY <1>2 DEF CannotWin
<1>4. m.from \in Node /\ m.term <= st[m.from].term
  BY DEF VotesOK, PacketTerms, Packet
<1>5. \A x, y \in Node :
        Backs(st2, ms2, y, x) => \/ Backs(st, ms, y, x)
                                 \/ /\ y = n /\ x = m.from
                                    /\ st[x].type = "candidate" /\ st[x].term = st[n].term
  <2>1. \A x, y \in Node : Backs(st2, ms2, y, x) => Backs(st, ms2, y, x)
    BY <1>1 DEF Backs
  <2>2. \A x, y \in Node :
          Backs(st, ms2, y, x) => \/ Backs(st, ms, y, x)
                                  \/ /\ y = r.from /\ x = r.to
                                     /\ st[x].type = "candidate" /\ st[x].term = r.term
    BY DEF Backs
  <2> QED
    BY <2>1, <2>2
<1>6. ASSUME NEW x \in Node, Backs(st, ms, n, x), st[x].term = st[n].term
      PROVE  x = m.from \/ CannotWin(st, m.from, st[n].term)
  <2>1. \/ st[n].votedFor = x
        \/ /\ st[n].votedFor \in Node
           /\ CannotWin(st, st[n].votedFor, st[n].term)
    BY <1>6 DEF VotesOK, VoteKept
  <2>2. st[n].votedFor # None
    BY <2>1, ConstantTypes
  <2>3. CASE st[n].votedFor = m.from
    BY <2>1, <2>3
  <2>4. CASE st[n].votedFor # m.from
    <3>1. st[n].loyal > 0 /\ st[n].leaderId = m.from
      BY <2>2, <2>4
    <3> QED
      BY <1>4, <2>2, <2>4, <3>1 DEF VotesOK, LoyalVote
  <2> QED
    BY <2>3, <2>4
<1>7. SelfVote(st2) /\ ElectedByQuorum(st2)
  BY <1>1 DEF VotesOK, SelfVote, ElectedByQuorum
<1>8. PacketTerms(st2, ms2)
  <2>1. PacketTerms(st2, ms)
    BY <1>2, <1>3 DEF VotesOK, PacketTerms, Packet
  <2> QED
    BY <1>2, <1>4, <2>1 DEF PacketTerms
<1>9. BackerTerms(st2, ms2)
  BY <1>2, <1>5 DEF VotesOK, BackerTerms
<1>10. OneBacked(st2, ms2)
  <2> SUFFICES ASSUME NEW x \in Node, NEW y \in Node, NEW z \in Node,
                      Backs(st2, ms2, y, x), Backs(st2, ms2, y, z),
                      st2[x].term = st2[z].term
               PROVE  x = z
    BY DEF OneBacked
  <2>1. CASE Backs(st, ms, y, x) /\ Backs(st, ms, y, z)
    BY <1>2, <2>1 DEF VotesOK, OneBacked
  <2>2. ASSUME NEW u \in Node, Backs(st, ms, n, u), st[u].term = st[n].term,
               st[m.from].type = "candidate", st[m.from].term = st[n].term
        PROVE  u = m.from
    BY <1>2, <1>4, <1>6, <2>2 DEF CannotWin
  <2>3. CASE ~Backs(st, ms, y, x)
    <3>1. y = n /\ x = m.from /\ st[x].type = "candidate" /\ st[x].term = st[n].term
      BY <1>5, <2>3
    <3>2. Backs(st, ms, n, z) \/ z = m.from
      BY Zenon, <1>5, <3>1
    <3>3. st[z].term = st[n].term /\ st[m.from].type = "candidate" /\ st[m.from].term = st[n].term
      BY <1>2, <3>1
    <3> QED
      BY <2>2, <3>1, <3>2, <3>3
  <2>4. CASE ~Backs(st, ms, y, z)
    <3>1. y = n /\ z = m.from /\ st[z].type = "candidate" /\ st[z].term = st[n].term
      BY <1>5, <2>4
    <3>2. Backs(st, ms, n, x) \/ x = m.from
      BY <1>5, <3>1
    <3>3. st[x].term = st[n].term /\ st[m.from].type = "candidate" /\ st[m.from].term = st[n].term
      BY <1>2, <3>1
    <3> QED
      BY <2>2, <3>1, <3>2, <3>3
  <2> QED
    BY <2>1, <2>3, <2>4
<1>11. LoyalVote(st2)
  BY <1>1, <1>2, <1>3 DEF VotesOK, LoyalVote
<1>12. VoteKept(st2, ms2)
  <2> SUFFICES ASSUME NEW x \in Node, NEW y \in Node,
                      Backs(st2, ms2, y, x), st2[y].term = st2[x].term
               PROVE  \/ st2[y].votedFor = x
                      \/ /\ st2[y].type = "follower" /\ st2[y].votedFor \in Node
                         /\ CannotWin(st2, st2[y].votedFor, st2[x].term)
    BY DEF VoteKept
  <2>1. CASE y # n
    <3>1. Backs(st, ms, y, x) /\ st[y].term = st[x].term /\ st2[y] = st[y]
      BY Zenon, <1>1, <1>2, <1>5, <2>1
    <3> QED
      BY <1>2, <1>3, <3>1 DEF VotesOK, VoteKept
  <2>2. CASE y = n
    <3>1. x = m.from \/ CannotWin(st, m.from, st[n].term)
      BY Zenon, <1>2, <1>5, <1>6, <2>2
    <3> QED
      BY <1>1, <1>2, <1>3, <1>4, <2>2, <3>1
  <2> QED
    BY <2>1, <2>2
<1> QED
  BY <1>7, <1>8, <1>9, <1>10, <1>11, <1>12 DEF VotesOK, st2

-----------------------------------------------------------------------------
(* The functions of the class, as changes of the kinds above *)

(* What electionTimeout does to a node whose promotion is not blocked. *)
LEMMA StandFields ==
  ASSUME NEW n \in Node, NEW s \in NodeState, NEW v \in Nat, ~s.block
  PROVE  LET c == StandForElection(n, s, v)
         IN  /\ c.term = s.term + 1 /\ c.votedFor = n /\ c.granted = {n}
             /\ \/ c.type = "candidate"
                \/ c.type = "leader" /\ c.electors = {n} /\ Quorum <= 1
BY ConstantTypes DEF StandForElection, NodeState

(* checkTerm keeps the votes, and brings the node to the packet's term, or *)
(* past it when the node is the president.                                 *)
LEMMA CheckTermVotes ==
  ASSUME NEW st \in States, NEW ms \in SUBSET Packet, VotesOK(st, ms),
         NEW n \in Node, NEW t \in Nat, NEW v \in Nat,
         st[n].president => ~st[n].block
  PROVE  LET c == CheckTerm(n, st[n], t, v)
         IN  /\ c \in NodeState
             /\ VotesOK([st EXCEPT ![n] = c], ms)
             /\ c.term >= t
             /\ t <= st[n].term => c = st[n]
<1> DEFINE s == st[n]
           c == CheckTerm(n, s, t, v)
<1>1. s \in NodeState /\ c \in NodeState /\ s.term \in Nat
  BY Zenon, CheckTermType DEF States, NodeState
<1>2. CASE t <= s.term
  <2>1. c = s
    BY <1>2 DEF CheckTerm
  <2>2. [st EXCEPT ![n] = c] = st
    BY <2>1 DEF States
  <2> QED
    BY <1>1, <1>2, <2>1, <2>2
<1>3. CASE t > s.term /\ s.president
  <2> DEFINE b == [s EXCEPT !.term = t]
  <2>1. b \in NodeState /\ b.term = t /\ ~b.block
    BY <1>1, <1>3 DEF NodeState
  <2>2. c = StandForElection(n, b, v)
    BY <1>1, <1>3 DEF CheckTerm
  <2> HIDE DEF b
  <2>3. /\ c.term = t + 1 /\ c.votedFor = n /\ c.granted = {n}
        /\ \/ c.type = "candidate"
           \/ c.type = "leader" /\ c.electors = {n} /\ Quorum <= 1
    BY <2>1, <2>2, StandFields
  <2> HIDE DEF c
  <2>4. VotesOK([st EXCEPT ![n] = c], ms)
    BY <1>1, <1>3, <2>3, CandidateChange
  <2> QED
    BY <1>1, <1>3, <2>3, <2>4 DEF c
<1>4. CASE t > s.term /\ ~s.president
  <2>1. c.type = "follower" /\ c.votedFor = None /\ c.term = t
    BY <1>1, <1>4 DEF CheckTerm, NodeState
  <2> HIDE DEF c
  <2>2. VotesOK([st EXCEPT ![n] = c], ms)
    BY <1>1, <1>4, <2>1, FollowerChange
  <2> QED
    BY <1>1, <1>4, <2>1, <2>2 DEF c
<1> QED
  BY <1>1, <1>2, <1>3, <1>4

(* Two changes of one node in a row are one. *)
LEMMA TwoChanges ==
  ASSUME NEW st \in States, NEW n \in Node, NEW c, NEW s
  PROVE  [[st EXCEPT ![n] = c] EXCEPT ![n] = s] = [st EXCEPT ![n] = s]
BY Zenon DEF States

(* The initial state satisfies the invariant. *)
LEMMA VotesInit == Init => VotesOK(state, msgs)
<1> SUFFICES ASSUME Init PROVE VotesOK(state, msgs)
  OBVIOUS
<1>1. \A n \in Node : /\ state[n].type = "follower" /\ state[n].votedFor = None
  BY DEF Init, FreshNode
<1>2. msgs = {}
  BY DEF Init
<1>3. \A x, y \in Node : ~Backs(state, msgs, y, x)
  BY <1>1 DEF Backs
<1> QED
  BY <1>1, <1>2, <1>3
  DEF VotesOK, SelfVote, PacketTerms, BackerTerms, LoyalVote, VoteKept, OneBacked, ElectedByQuorum

(* What checkTerm leaves for the function that handles packet m. *)
LEMMA ReceiveVotes ==
  ASSUME TypeOK, VotesOK(state, msgs), Undisturbed,
         NEW n \in Node, NEW m \in msgs, NEW v \in Versions(n), NEW kind,
         Receive(n, m, kind)
  PROVE  LET c == AfterCheckTerm(n, m, v)
         IN  /\ state \in States /\ msgs \in SUBSET Packet
             /\ [state EXCEPT ![n] = c] \in States /\ [state EXCEPT ![n] = c][n] = c
             /\ m \in Packet /\ v \in Nat /\ c \in NodeState
             /\ m.kind = kind /\ m.to = n /\ m.term >= state[n].term
             /\ VotesOK([state EXCEPT ![n] = c], msgs)
             /\ c.term >= m.term
             /\ m.term = state[n].term => c = state[n]
             /\ UNCHANGED <<now, restarts>>
<1> DEFINE c == AfterCheckTerm(n, m, v)
<1>1. state \in States /\ msgs \in SUBSET Packet
  BY DEF TypeOK, States
<1>2. m \in Packet /\ v \in Nat /\ m.term \in Nat /\ c \in NodeState
  BY ReceiveTypes DEF Packet
<1>3. m.kind = kind /\ m.to = n /\ m.term >= state[n].term /\ UNCHANGED <<now, restarts>>
  BY DEF Receive, Deliverable
<1>4. state[n].president => ~state[n].block
  BY DEF Undisturbed
<1>5. /\ VotesOK([state EXCEPT ![n] = c], msgs)
      /\ c.term >= m.term
      /\ m.term <= state[n].term => c = state[n]
  BY <1>1, <1>2, <1>4, CheckTermVotes DEF AfterCheckTerm
<1>6. [state EXCEPT ![n] = c] \in States /\ [state EXCEPT ![n] = c][n] = c
  BY <1>1, <1>2, OneNodeChanges
<1>7. m.term = state[n].term => m.term <= state[n].term
  BY <1>2
<1> QED
  BY <1>1, <1>2, <1>3, <1>5, <1>6, <1>7

(* The requests of a node are of its own term, and only leaders send       *)
(* heartbeats.                                                             *)
LEMMA RequestVotes ==
  ASSUME NEW st \in States, NEW n \in Node, NEW c \in NodeState, c.term = st[n].term
  PROVE  /\ \A p \in VoteRequests(n, c) :
              ~Granted(p) /\ p.kind = "RV" /\ p.from = n /\ p.term <= st[p.from].term
         /\ st[n].type = "leader" =>
              \A p \in Heartbeats(n, c) :
                ~Granted(p) /\ p.kind = "AE" /\ p.from = n /\ CannotWin(st, p.from, p.term)
<1>1. st[n].term \in Nat
  BY TermTypes
<1>2. \A p \in VoteRequests(n, c) :
        ~Granted(p) /\ p.kind = "RV" /\ p.from = n /\ p.term <= st[p.from].term
  BY <1>1 DEF VoteRequests, Granted
<1>3. st[n].type = "leader" =>
        \A p \in Heartbeats(n, c) :
          ~Granted(p) /\ p.kind = "AE" /\ p.from = n /\ CannotWin(st, p.from, p.term)
  BY <1>1 DEF Heartbeats, Granted, CannotWin
<1> QED
  BY <1>2, <1>3

(* A heartbeat of n: the timers run, n steps down or becomes the           *)
(* president, and sends.                                                   *)
LEMMA HeartbeatVotes ==
  ASSUME TypeOK, TypeOK', VotesOK(state, msgs), NEW n \in Node, Heartbeat(n)
  PROVE  VotesOK(state', msgs')
<1> DEFINE s == Beat(n, TimersRun(state[n]))
           st == [m \in Node |-> IF m = n THEN s ELSE TimersRun(state[m])]
<1>1. state \in States /\ msgs \in SUBSET Packet /\ state' \in States /\ now' \in Nat
  BY DEF TypeOK, States
<1>2. \A m \in Node : TimersRun(state[m]) \in NodeState /\ SameVotes(state[m], TimersRun(state[m]))
  <2>1. ASSUME NEW r \in NodeState
        PROVE  SameVotes(r, TimersRun(r))
    BY ConstantTypes DEF SameVotes, TimersRun, NodeState, Countdown
  <2> QED
    BY <1>1, <2>1, TimerTypes DEF States
<1>3. s \in NodeState /\ SameVotes(state[n], s)
  <2>1. ASSUME NEW r \in NodeState
        PROVE  SameVotes(r, Beat(n, r))
    BY DEF SameVotes, Beat, NodeState
  <2>2. SameVotes(TimersRun(state[n]), s)
    BY <1>2, <2>1
  <2> QED
    BY <1>2, <2>2, TimerTypes DEF SameVotes
<1> HIDE DEF s
<1>4. st \in States /\ st[n] = s /\ \A m \in Node : SameVotes(state[m], st[m])
  BY <1>2, <1>3 DEF States
<1> HIDE DEF st
<1>5. VotesOK(st, msgs)
  BY <1>1, <1>4, QuietChange
<1>6. state' = [st EXCEPT ![n] = AfterBeat(s)]
  BY Zenon DEF Heartbeat, st, s
<1>7. AfterBeat(s) \in NodeState
  BY <1>3, TimerTypes
<1>8. VotesOK(state', msgs)
  <2>1. CASE LosesQuorum(s) /\ s.type = "leader"
    <3>1. /\ AfterBeat(s).type = "follower" /\ AfterBeat(s).votedFor = None
          /\ AfterBeat(s).term = s.term
      BY <1>3, <2>1 DEF AfterBeat, StepDown, NodeState
    <3> QED
      BY Zenon, <1>1, <1>4, <1>5, <1>6, <1>7, <2>1, <3>1, FollowerChange
  <2>2. CASE ~(LosesQuorum(s) /\ s.type = "leader")
    <3>1. SameVotes(s, AfterBeat(s))
      BY <1>3, <2>2 DEF AfterBeat, StepDown, SameVotes, NodeState
    <3>2. \A m \in Node : SameVotes(st[m], state'[m])
      <4>1. \A r \in NodeState : SameVotes(r, r)
        BY DEF SameVotes
      <4> QED
        BY <1>4, <1>6, <3>1, <4>1 DEF States
    <3> QED
      BY <1>1, <1>4, <1>5, <3>2, QuietChange
  <2> QED
    BY <2>1, <2>2
<1>9. \A p \in BeatPackets(n, s) :
        /\ ~Granted(p)
        /\ p.kind = "AE" => CannotWin(state', p.from, p.term)
        /\ p.kind = "RV" => p.term <= state'[p.from].term
  <2>1. CASE LosesQuorum(s)
    BY <2>1 DEF BeatPackets
  <2>2. CASE ~LosesQuorum(s)
    <3>1. state'[n].term = s.term /\ state'[n].type = s.type
      BY <1>3, <1>4, <1>6, <2>2 DEF AfterBeat, NodeState, States
    <3> QED
      BY <1>1, <1>3, <2>2, <3>1, RequestVotes DEF BeatPackets
  <2> QED
    BY <2>1, <2>2
<1>10. BeatPackets(n, s) \in SUBSET Packet /\ InFlight(msgs) \subseteq msgs
  BY <1>1, <1>3, RequestTypes DEF InFlight
<1>11. msgs' \in SUBSET (msgs \cup BeatPackets(n, s))
  BY <1>10, SendSubset DEF Heartbeat, s
<1> QED
  BY <1>1, <1>8, <1>9, <1>10, <1>11, PacketChange

(* A node stands for election, or restarts its timer when it is blocked. *)
LEMMA ElectionTimeoutVotes ==
  ASSUME TypeOK, TypeOK', VotesOK(state, msgs), NEW n \in Node, ElectionTimeout(n)
  PROVE  VotesOK(state', msgs')
<1>1. PICK v \in Versions(n) :
        LET s == StandForElection(n, state[n], v)
        IN  /\ state' = [state EXCEPT ![n] = s]
            /\ Send(msgs, IF s.type = "candidate" /\ ~s.block THEN VoteRequests(n, s) ELSE {})
  BY Zenon DEF ElectionTimeout
<1> DEFINE s == StandForElection(n, state[n], v)
           out == IF s.type = "candidate" /\ ~s.block THEN VoteRequests(n, s) ELSE {}
<1>2. /\ state \in States /\ msgs \in SUBSET Packet /\ state' \in States /\ now' \in Nat
      /\ state[n] \in NodeState /\ v \in Nat
  BY DEF TypeOK, States, Versions, NodeState
<1>3. s \in NodeState
  BY <1>2, StandForElectionType
<1>4. VotesOK(state', msgs)
  <2>1. CASE state[n].block
    <3>1. SameVotes(state[n], s)
      BY <1>2, <2>1 DEF StandForElection, SameVotes, NodeState
    <3> HIDE DEF s
    <3>2. \A m \in Node : SameVotes(state[m], state'[m])
      <4>1. \A r \in NodeState : SameVotes(r, r)
        BY DEF SameVotes
      <4> QED
        BY <1>1, <1>2, <3>1, <4>1 DEF States, s
    <3> QED
      BY <1>2, <3>2, QuietChange
  <2>2. CASE ~state[n].block
    <3>1. /\ s.term > state[n].term /\ s.votedFor = n /\ s.granted = {n}
          /\ \/ s.type = "candidate"
             \/ s.type = "leader" /\ s.electors = {n} /\ Quorum <= 1
      <4>1. state[n].term \in Nat
        BY <1>2 DEF NodeState
      <4> QED
        BY <1>2, <2>2, <4>1, StandFields
    <3> HIDE DEF s
    <3> QED
      BY Zenon, <1>1, <1>2, <1>3, <3>1, CandidateChange DEF s
  <2> QED
    BY <2>1, <2>2
<1> HIDE DEF s
<1>5. state'[n] = s
  BY <1>1, <1>2 DEF States, s
<1>6. out \in SUBSET Packet
  BY <1>2, <1>3, RequestTypes
<1>7. \A p \in out : ~Granted(p) /\ p.kind = "RV" /\ p.term <= state'[p.from].term
  BY <1>2, <1>3, <1>5, RequestVotes
<1>8. msgs' \in SUBSET (msgs \cup out)
  BY <1>1, SendSubset DEF s
<1> HIDE DEF out
<1> QED
  BY Zenon, <1>2, <1>4, <1>6, <1>7, <1>8, PacketChange

(* A heartbeat is received. *)
LEMMA ReceiveAppendVotes ==
  ASSUME TypeOK, TypeOK', VotesOK(state, msgs), Undisturbed,
         NEW n \in Node, ReceiveAppend(n)
  PROVE  VotesOK(state', msgs')
<1>1. PICK m \in msgs, v \in Versions(n) :
        LET c == AfterCheckTerm(n, m, v)
        IN  /\ Receive(n, m, "AE")
            /\ c.type # "leader" /\ m.term >= c.term
            /\ state' = [state EXCEPT ![n] = Append(c, m, v)]
            /\ Send(msgs \ {m}, BumpPackets(n, m, c)
                                  \cup Response("AER", n, Append(c, m, v), m, TRUE))
  BY Zenon DEF ReceiveAppend
<1> DEFINE c == AfterCheckTerm(n, m, v)
           a == Append(c, m, v)
           st == [state EXCEPT ![n] = c]
           out == BumpPackets(n, m, c) \cup Response("AER", n, a, m, TRUE)
<1>2. /\ state \in States /\ msgs \in SUBSET Packet /\ st \in States /\ st[n] = c
      /\ m \in Packet /\ v \in Nat /\ c \in NodeState
      /\ m.kind = "AE" /\ VotesOK(st, msgs) /\ c.term >= m.term
  BY Zenon, <1>1, ReceiveVotes
<1>3. state' \in States /\ now' \in Nat
  BY DEF TypeOK, States
<1>4. a \in NodeState
  BY <1>2, AppendType
<1>5. a.type = "follower" /\ a.term = c.term /\ a.votedFor = c.votedFor /\ a.leaderId = m.from
  BY <1>2 DEF Append, NodeState
<1>6. m.term = c.term
  <2>1. m.term >= c.term
    BY <1>1
  <2>2. m.term \in Nat /\ c.term \in Nat
    BY <1>2 DEF Packet, NodeState
  <2> HIDE DEF c
  <2> QED
    BY <1>2, <2>1, <2>2
<1>7. state' = [st EXCEPT ![n] = a]
  <2>1. state' = [state EXCEPT ![n] = a]
    BY <1>1
  <2> HIDE DEF c, a
  <2> QED
    BY ONLY Zenon, <1>2, <2>1, n \in Node, TwoChanges DEF st
<1> HIDE DEF c, a, st
<1>8. VotesOK(state', msgs)
  BY Zenon, <1>2, <1>4, <1>5, <1>6, <1>7, AppendChange
<1>9. state'[n] = a
  BY <1>2, <1>7 DEF States
<1>10. out \in SUBSET Packet
  <2>1. BumpPackets(n, m, c) \subseteq Packet
    BY <1>2, <1>3, RequestTypes DEF BumpPackets
  <2>2. Response("AER", n, a, m, TRUE) \subseteq Packet
    BY Zenon, <1>2, <1>3, <1>4, ResponseType
  <2> QED
    BY Zenon, <2>1, <2>2
<1>11. \A p \in out : /\ ~Granted(p)
                      /\ p.kind = "AE" => CannotWin(state', p.from, p.term)
                      /\ p.kind = "RV" => p.term <= state'[p.from].term
  <2>1. \A p \in VoteRequests(n, c) :
          ~Granted(p) /\ p.kind = "RV" /\ p.term <= state'[p.from].term
    <3>1. c \in NodeState /\ c.term = state'[n].term
      BY ONLY <1>2, <1>5, <1>9
    <3> QED
      BY ONLY <1>3, <3>1, n \in Node, RequestVotes
  <2>2. \A p \in Response("AER", n, a, m, TRUE) : p.kind = "AER"
    BY DEF Response
  <2> QED
    BY Zenon, <2>1, <2>2 DEF BumpPackets, Granted
<1>12. msgs' \in SUBSET (msgs \cup out)
  <2>1. Send(msgs \ {m}, out)
    BY <1>1 DEF c, a
  <2> HIDE DEF out
  <2> QED
    BY <2>1, SendSubset
<1> HIDE DEF out
<1> QED
  BY <1>2, <1>3, <1>8, <1>10, <1>11, <1>12, PacketChange

(* An answer to a heartbeat is received. *)
LEMMA ReceiveAppendResponseVotes ==
  ASSUME TypeOK, TypeOK', VotesOK(state, msgs), Undisturbed,
         NEW n \in Node, ReceiveAppendResponse(n)
  PROVE  VotesOK(state', msgs')
<1>1. PICK m \in msgs, v \in Versions(n) :
        LET c == AfterCheckTerm(n, m, v)
        IN  /\ Receive(n, m, "AER")
            /\ state' = [state EXCEPT ![n] = AppendResponse(c, m)]
            /\ Send(msgs \ {m}, BumpPackets(n, m, c))
  BY Zenon DEF ReceiveAppendResponse
<1> DEFINE c == AfterCheckTerm(n, m, v)
           a == AppendResponse(c, m)
           st == [state EXCEPT ![n] = c]
           out == BumpPackets(n, m, c)
<1>2. /\ state \in States /\ msgs \in SUBSET Packet /\ st \in States /\ st[n] = c
      /\ m \in Packet /\ c \in NodeState /\ VotesOK(st, msgs)
  BY Zenon, <1>1, ReceiveVotes
<1>3. state' \in States /\ now' \in Nat
  BY DEF TypeOK, States
<1>4. SameVotes(c, a)
  BY <1>2 DEF AppendResponse, SameVotes, NodeState
<1>5. state' = [st EXCEPT ![n] = a]
  <2>1. state' = [state EXCEPT ![n] = a]
    BY <1>1
  <2> HIDE DEF c, a
  <2> QED
    BY ONLY Zenon, <1>2, <2>1, n \in Node, TwoChanges DEF st
<1> HIDE DEF c, a, st
<1>6. VotesOK(state', msgs)
  <2>1. \A r \in NodeState : SameVotes(r, r)
    BY DEF SameVotes
  <2>2. \A x \in Node : SameVotes(st[x], state'[x])
    BY <1>2, <1>4, <1>5, <2>1 DEF States
  <2> QED
    BY <1>2, <1>3, <2>2, QuietChange
<1>7. state'[n] = a /\ a.term = c.term
  BY <1>2, <1>4, <1>5 DEF States, SameVotes
<1>8. out \in SUBSET Packet
  BY <1>2, <1>3, RequestTypes DEF BumpPackets
<1>9. \A p \in out : ~Granted(p) /\ p.kind = "RV" /\ p.term <= state'[p.from].term
  <2>1. \A p \in VoteRequests(n, c) :
          ~Granted(p) /\ p.kind = "RV" /\ p.term <= state'[p.from].term
    <3>1. c \in NodeState /\ c.term = state'[n].term
      BY ONLY <1>2, <1>7
    <3> QED
      BY ONLY <1>3, <3>1, n \in Node, RequestVotes
  <2>2. out \subseteq VoteRequests(n, c)
    BY DEF BumpPackets
  <2> QED
    BY <2>1, <2>2
<1>10. msgs' \in SUBSET (msgs \cup out)
  <2>1. Send(msgs \ {m}, out)
    BY <1>1 DEF c
  <2> HIDE DEF out
  <2>2. msgs' \subseteq (msgs \ {m}) \cup out
    BY ONLY <2>1, SendSubset
  <2> QED
    BY ONLY <2>2
<1> HIDE DEF out
<1>11. \A p \in out : /\ ~Granted(p)
                      /\ p.kind = "AE" => CannotWin(state', p.from, p.term)
                      /\ p.kind = "RV" => p.term <= state'[p.from].term
  BY ONLY <1>9
<1> QED
  BY ONLY <1>2, <1>3, <1>6, <1>8, <1>10, <1>11, PacketChange

(* A request for a vote is received. *)
LEMMA ReceiveReqVoteVotes ==
  ASSUME TypeOK, TypeOK', VotesOK(state, msgs), Undisturbed,
         NEW n \in Node, ReceiveReqVote(n)
  PROVE  VotesOK(state', msgs')
<1>1. PICK m \in msgs, v \in Versions(n) :
        LET c == AfterCheckTerm(n, m, v)
            s == RefreshVersion(c, v)
        IN  /\ Receive(n, m, "RV")
            /\ state' = [state EXCEPT ![n] = ReqVote(n, s, m)]
            /\ Send(msgs \ {m}, BumpPackets(n, m, c)
                                  \cup Response("RVR", n, s, m, GrantsVote(s, m)))
  BY Zenon DEF ReceiveReqVote
<1> DEFINE c == AfterCheckTerm(n, m, v)
           s == RefreshVersion(c, v)
           a == ReqVote(n, s, m)
           st == [state EXCEPT ![n] = c]
           st2 == [st EXCEPT ![n] = s]
           bump == BumpPackets(n, m, c)
           r == [kind |-> "RVR", from |-> n, to |-> m.from, term |-> s.term, time |-> m.time,
                 version |-> 0, result |-> GrantsVote(s, m), at |-> now']
<1>2. /\ state \in States /\ msgs \in SUBSET Packet /\ st \in States /\ st[n] = c
      /\ m \in Packet /\ v \in Nat /\ c \in NodeState
      /\ m.kind = "RV" /\ VotesOK(st, msgs) /\ c.term >= m.term
  BY Zenon, <1>1, ReceiveVotes
<1>3. state' \in States /\ now' \in Nat /\ meta[n] \in Nat
  BY DEF TypeOK, States
<1>4. s \in NodeState /\ a \in NodeState
  <2>1. s \in NodeState
    BY <1>2, <1>3, ReqVoteType
  <2> QED
    BY <1>2, <1>3, <2>1, ReqVoteType
<1>5. SameVotes(c, s)
  BY <1>2 DEF RefreshVersion, SameVotes, NodeState
<1>6. state' = [st2 EXCEPT ![n] = a]
  BY Zenon, <1>1, <1>2, TwoChanges, OneNodeChanges, <1>4
<1>7. Send(msgs \ {m}, bump \cup {r})
  BY <1>1 DEF Response
<1>8. r \in Packet /\ {r} = Response("RVR", n, s, m, GrantsVote(s, m))
  <2>1. GrantsVote(s, m) \in BOOLEAN
    BY DEF GrantsVote
  <2>2. {r} = Response("RVR", n, s, m, GrantsVote(s, m))
    BY DEF Response
  <2> QED
    BY <1>2, <1>3, <1>4, <2>1, <2>2, ResponseType
<1>9. r.from = n /\ r.to = m.from /\ r.term = s.term /\ r.kind = "RVR" /\ r.result = GrantsVote(s, m)
  OBVIOUS
<1> HIDE DEF c, s, a, st, st2, r
<1>10. st2 \in States /\ st2[n] = s /\ VotesOK(st2, msgs)
  <2>1. \A q \in NodeState : SameVotes(q, q)
    BY DEF SameVotes
  <2>2. st2 \in States /\ st2[n] = s /\ \A x \in Node : x # n => st2[x] = st[x]
    BY <1>2, <1>4, OneNodeChanges DEF st2
  <2>3. \A x \in Node : SameVotes(st[x], st2[x])
    BY <1>2, <1>5, <2>1, <2>2 DEF States
  <2> QED
    BY <1>2, <2>2, <2>3, QuietChange
<1>11. \A p \in bump : ~Granted(p) /\ p.kind = "RV" /\ p.from = n /\ p.term = c.term
  <2> HIDE DEF bump
  <2>1. bump \subseteq VoteRequests(n, c)
    BY DEF BumpPackets, bump
  <2>2. \A p \in VoteRequests(n, c) : ~Granted(p) /\ p.kind = "RV" /\ p.from = n /\ p.term = c.term
    BY ONLY TRUE, SMTT(40) DEF VoteRequests, Granted
  <2> QED
    BY ONLY <2>1, <2>2
<1>12. bump \in SUBSET Packet
  BY <1>2, <1>3, RequestTypes DEF BumpPackets
<1> HIDE DEF bump
<1>13. c.term \in Nat /\ s.term = c.term
  BY <1>2, <1>5 DEF SameVotes, NodeState
<1>14. CASE GrantsVote(s, m)
  <2>1. /\ a.type = "follower" /\ a.term = s.term /\ a.votedFor = m.from
        /\ a.leaderId = s.leaderId /\ a.loyal = s.loyal
    BY <1>4, <1>14 DEF ReqVote, GrantsVote, NodeState, a
  <2>2. /\ s.type = "follower" /\ m.term = s.term
        /\ IF s.loyal > 0 THEN s.leaderId = m.from ELSE s.votedFor \in {None, m.from}
    BY <1>2, <1>13, <1>14, SMTT(40) DEF GrantsVote, Packet
  <2>3. VotesOK(state', msgs \cup {r})
    <3>1. /\ st2[n].type = "follower" /\ m.term = st2[n].term
          /\ IF st2[n].loyal > 0 THEN st2[n].leaderId = m.from
                                 ELSE st2[n].votedFor \in {None, m.from}
          /\ a.term = st2[n].term /\ a.leaderId = st2[n].leaderId /\ a.loyal = st2[n].loyal
          /\ r.term = m.term
      BY <1>9, <1>10, <2>1, <2>2
    <3>2. VotesOK([st2 EXCEPT ![n] = a], msgs \cup {r})
      BY ONLY <1>2, <1>4, <1>8, <1>9, <1>10, <2>1, <3>1, n \in Node, m \in msgs, VoteChange
    <3> QED
      BY <1>6, <3>2
  <2>4. state'[n].term = c.term
    BY <1>6, <1>10, <1>13, <2>1 DEF States
  <2>5. \A p \in bump : /\ ~Granted(p)
                        /\ p.kind = "AE" => CannotWin(state', p.from, p.term)
                        /\ p.kind = "RV" => p.term <= state'[p.from].term
    BY ONLY <1>11, <1>13, <2>4, SMTT(40)
  <2>6. msgs' \in SUBSET ((msgs \cup {r}) \cup bump)
    <3>1. msgs' \subseteq (msgs \ {m}) \cup (bump \cup {r})
      BY ONLY <1>7, SendSubset
    <3> QED
      BY ONLY <3>1
  <2>7. msgs \cup {r} \in SUBSET Packet
    BY <1>2, <1>8
  <2> QED
    BY Zenon, <1>3, <1>12, <2>3, <2>5, <2>6, <2>7, PacketChange
<1>15. CASE ~GrantsVote(s, m)
  <2> DEFINE out == bump \cup {r}
  <2>1. state' = st2
    BY <1>6, <1>10, <1>15 DEF ReqVote, States, a
  <2>2. \A p \in out : /\ ~Granted(p)
                       /\ p.kind = "AE" => CannotWin(st2, p.from, p.term)
                       /\ p.kind = "RV" => p.term <= st2[p.from].term
    BY <1>9, <1>10, <1>11, <1>13, <1>15 DEF Granted
  <2>3. msgs' \in SUBSET (msgs \cup out)
    <3>1. msgs' \subseteq (msgs \ {m}) \cup (bump \cup {r})
      BY ONLY <1>7, SendSubset
    <3> QED
      BY ONLY <3>1
  <2>4. out \in SUBSET Packet
    BY <1>8, <1>12
  <2> HIDE DEF out
  <2>5. VotesOK(st2, msgs')
    BY <1>2, <1>10, <2>2, <2>3, <2>4, PacketChange
  <2> QED
    BY <2>1, <2>5
<1> QED
  BY <1>14, <1>15

(* An answer to a request for a vote is received. *)
LEMMA ReceiveReqVoteResponseVotes ==
  ASSUME TypeOK, TypeOK', VotesOK(state, msgs), Undisturbed,
         NEW n \in Node, ReceiveReqVoteResponse(n)
  PROVE  VotesOK(state', msgs')
<1>1. PICK m \in msgs, v \in Versions(n) :
        LET c == AfterCheckTerm(n, m, v)
            s == ReqVoteResponse(n, c, m)
        IN  /\ Receive(n, m, "RVR")
            /\ state' = [state EXCEPT ![n] = s]
            /\ Send(msgs \ {m},
                    BumpPackets(n, m, c)
                      \cup (IF c.type = "candidate" /\ s.type = "leader"
                            THEN Heartbeats(n, s) ELSE {}))
  BY Zenon DEF ReceiveReqVoteResponse
<1> DEFINE c == AfterCheckTerm(n, m, v)
           s == ReqVoteResponse(n, c, m)
           st == [state EXCEPT ![n] = c]
           bump == BumpPackets(n, m, c)
           beat == IF c.type = "candidate" /\ s.type = "leader" THEN Heartbeats(n, s) ELSE {}
           out == bump \cup beat
<1>2. /\ state \in States /\ msgs \in SUBSET Packet /\ st \in States /\ st[n] = c
      /\ m \in Packet /\ v \in Nat /\ c \in NodeState
      /\ m.kind = "RVR" /\ m.to = n /\ VotesOK(st, msgs)
      /\ m.term >= state[n].term /\ (m.term = state[n].term => c = state[n])
  <2>1. Receive(n, m, "RVR")
    BY <1>1
  <2> QED
    BY ONLY TypeOK, VotesOK(state, msgs), Undisturbed, n \in Node, m \in msgs,
            v \in Versions(n), <2>1, ReceiveVotes, SMTT(40)
<1>3. state' \in States /\ now' \in Nat
  BY DEF TypeOK, States
<1>4. s \in NodeState
  BY <1>2, ReqVoteResponseType
<1>5. state' = [st EXCEPT ![n] = s]
  <2>1. state' = [state EXCEPT ![n] = s]
    BY <1>1
  <2> HIDE DEF c, s
  <2> QED
    BY ONLY Zenon, <1>2, <2>1, n \in Node, TwoChanges DEF st
<1>6. Send(msgs \ {m}, out)
  BY <1>1
(* a granted vote is never of a term the candidate has not reached *)
<1>7. m.result => m.term = c.term
  <2>1. m.result => m.term <= state[n].term
    BY <1>2 DEF VotesOK, PacketTerms, Granted
  <2>2. m.term \in Nat /\ state[n].term \in Nat
    BY <1>2, TermTypes DEF Packet
  <2> QED
    BY <1>2, <2>1, <2>2
<1>8. /\ s.term = c.term /\ s.votedFor = c.votedFor
      /\ \/ c.type # "candidate" /\ s = c
         \/ /\ c.type = "candidate"
            /\ s.granted \subseteq c.granted \cup (IF m.result THEN {m.from} ELSE {})
            /\ \/ s.type = "candidate"
               \/ s.type = "leader" /\ s.electors = s.granted /\ Cardinality(s.granted) >= Quorum
  BY <1>2 DEF ReqVoteResponse, HasVoteQuorum, NodeState
<1> HIDE DEF c, s, st
<1>9. VotesOK(state', msgs)
  <2>1. CASE c.type # "candidate"
    BY Zenon, <1>2, <1>5, <1>8, <2>1 DEF States
  <2>2. CASE c.type = "candidate"
    <3>1. VotesOK([st EXCEPT ![n] = s], msgs)
      BY <1>2, <1>4, <1>7, <1>8, <2>2, CountChange
    <3> QED
      BY <1>5, <3>1
  <2> QED
    BY <2>1, <2>2
<1>10. state'[n] = s
  BY <1>2, <1>5 DEF States
<1>11. \A p \in out : /\ ~Granted(p)
                      /\ p.kind = "AE" => CannotWin(state', p.from, p.term)
                      /\ p.kind = "RV" => p.term <= state'[p.from].term
  <2>1. \A p \in bump : ~Granted(p) /\ p.kind = "RV" /\ p.term <= state'[p.from].term
    <3>1. c.term = state'[n].term
      BY <1>8, <1>10
    <3>2. \A p \in VoteRequests(n, c) :
            ~Granted(p) /\ p.kind = "RV" /\ p.term <= state'[p.from].term
      BY ONLY <1>2, <1>3, <3>1, n \in Node, RequestVotes, SMTT(40)
    <3>3. bump \subseteq VoteRequests(n, c)
      BY DEF BumpPackets
    <3> QED
      BY <3>2, <3>3
  <2>2. \A p \in beat : ~Granted(p) /\ p.kind = "AE" /\ CannotWin(state', p.from, p.term)
    <3>1. s.term = state'[n].term
      BY <1>10
    <3>2. state'[n].type = "leader" =>
            \A p \in Heartbeats(n, s) :
              ~Granted(p) /\ p.kind = "AE" /\ CannotWin(state', p.from, p.term)
      BY ONLY <1>3, <1>4, <3>1, n \in Node, RequestVotes, SMTT(40)
    <3>3. beat # {} => beat = Heartbeats(n, s) /\ s.type = "leader"
      OBVIOUS
    <3> QED
      BY Zenon, <1>10, <3>2, <3>3
  <2> QED
    BY <2>1, <2>2
<1>12. out \in SUBSET Packet
  BY <1>2, <1>3, <1>4, RequestTypes DEF BumpPackets
<1> HIDE DEF out
<1>13. msgs' \in SUBSET (msgs \cup out)
  <2>1. msgs' \subseteq (msgs \ {m}) \cup out
    BY ONLY <1>6, SendSubset
  <2> QED
    BY ONLY <2>1
<1>14. msgs \in SUBSET Packet
  BY <1>2
<1> QED
  BY ONLY <1>3, <1>9, <1>11, <1>12, <1>13, <1>14, PacketChange

-----------------------------------------------------------------------------
(* Every step of an undisturbed behaviour keeps the invariant. *)
LEMMA VotesStep ==
  ASSUME TypeOK, TypeOK', VotesOK(state, msgs), Undisturbed, Undisturbed', [Next]_vars
  PROVE  VotesOK(state', msgs')
<1>1. state \in States /\ state' \in States /\ msgs \in SUBSET Packet
  BY DEF TypeOK, States
<1>2. \A r \in NodeState : SameVotes(r, r)
  BY DEF SameVotes
<1>3. ASSUME NEW n \in Node, DemoteLeader(n)
      PROVE  VotesOK(state', msgs')
  <2> DEFINE s == Demoted(state[n])
  <2>1. state' = [state EXCEPT ![n] = s] /\ msgs' = msgs
    BY <1>3 DEF DemoteLeader
  <2>2. s \in NodeState /\ state[n] \in NodeState
    BY <1>1, TimerTypes DEF States
  <2>3. CASE state[n].type = "follower"
    <3>1. state' = state
      BY <1>1, <2>1, <2>3 DEF Demoted, States
    <3> QED
      BY <2>1, <3>1
  <2>4. CASE state[n].type # "follower"
    <3>1. s.type = "follower" /\ s.votedFor = None /\ s.term = state[n].term
      BY <2>2, <2>4 DEF Demoted, NodeState
    <3> HIDE DEF s
    <3> QED
      BY Zenon, <1>1, <2>1, <2>2, <2>4, <3>1, FollowerChange
  <2> QED
    BY <2>3, <2>4
<1>4. ASSUME NEW n \in Node, SetBlockPromotion(n)
      PROVE  VotesOK(state', msgs')
  <2>1. PICK b \in BOOLEAN : state' = [state EXCEPT ![n] = [@ EXCEPT !.block = b]]
    BY Zenon, <1>4 DEF SetBlockPromotion
  <2>2. state[n] \in NodeState
    BY <1>1 DEF States
  <2>3. SameVotes(state[n], [state[n] EXCEPT !.block = b])
    BY <2>2 DEF SameVotes, NodeState
  <2>4. \A m \in Node : SameVotes(state[m], state'[m])
    BY <1>1, <1>2, <2>1, <2>3 DEF States
  <2> QED
    BY Zenon, <1>1, <1>4, <2>4, QuietChange DEF SetBlockPromotion
<1>5. ASSUME NEW n \in Node, Restart(n)
      PROVE  FALSE
  BY <1>5 DEF Restart, Undisturbed
<1>6. ASSUME NEW n \in Node, MetadataChange(n)
      PROVE  VotesOK(state', msgs')
  BY <1>6 DEF MetadataChange
<1>7. CASE UNCHANGED vars
  BY <1>7 DEF vars
<1> QED
  BY <1>3, <1>4, <1>5, <1>6, <1>7, HeartbeatVotes, ElectionTimeoutVotes, ReceiveAppendVotes,
     ReceiveAppendResponseVotes, ReceiveReqVoteVotes, ReceiveReqVoteResponseVotes DEF Next

(* Two quorums have a node in common. *)
LEMMA QuorumsMeet ==
  ASSUME NEW P \in SUBSET Node, NEW Q \in SUBSET Node,
         Cardinality(P) >= Quorum, Cardinality(Q) >= Quorum
  PROVE  \E y \in Node : y \in P /\ y \in Q
<1>1. IsFiniteSet(Node) /\ Cardinality(Node) = N
  BY FS_Interval, NAssumption DEF Node
<1>2. Cardinality(P) \in Nat /\ Cardinality(Q) \in Nat
  BY <1>1, FS_Subset, FS_CardinalityType
<1>3. Cardinality(P) + Cardinality(Q) > Cardinality(Node)
  BY <1>1, <1>2, NAssumption DEF Quorum
<1> QED
  BY <1>1, <1>3, FS_MajoritiesIntersect

(* The invariant means that a term has one leader. *)
LEMMA VotesImplyOneLeader ==
  ASSUME TypeOK, ElectionInv
  PROVE  OneLeaderPerTerm
<1> SUFFICES ASSUME NEW n \in Node, NEW m \in Node,
                    state[n].type = "leader", state[m].type = "leader",
                    state[n].term = state[m].term
             PROVE  n = m
  BY DEF OneLeaderPerTerm
<1>1. /\ state[n].electors \in SUBSET Node /\ Cardinality(state[n].electors) >= Quorum
      /\ state[m].electors \in SUBSET Node /\ Cardinality(state[m].electors) >= Quorum
  BY DEF TypeOK, NodeState, ElectionInv, VotesOK, ElectedByQuorum
<1>2. PICK y \in Node : y \in state[n].electors /\ y \in state[m].electors
  BY <1>1, QuorumsMeet
<1>3. Backs(state, msgs, y, n) /\ Backs(state, msgs, y, m)
  BY <1>2 DEF Backs
<1> QED
  BY <1>3 DEF ElectionInv, VotesOK, OneBacked

(* In every behaviour in which no node restarts and no president is        *)
(* blocked, the votes that can count stay unique (rpcReqVote, checkTerm,   *)
(* rpcReqVoteResponse).                                                    *)
THEOREM ElectionInvariant == Spec /\ []Undisturbed => []ElectionInv
<1>1. Init => ElectionInv
  BY VotesInit DEF ElectionInv
<1>2. TypeOK /\ TypeOK' /\ Undisturbed /\ Undisturbed' /\ ElectionInv /\ [Next]_vars
        => ElectionInv'
  BY VotesStep DEF ElectionInv
<1> QED
  BY <1>1, <1>2, TypeCorrect, PTL DEF Spec

(* Election safety: in every such behaviour two nodes are never leaders of *)
(* one term, whatever is lost, delayed or reordered and for every number   *)
(* of nodes.                                                               *)
THEOREM LeaderSafety == Spec /\ []Undisturbed => []OneLeaderPerTerm
<1>1. TypeOK /\ ElectionInv => OneLeaderPerTerm
  BY VotesImplyOneLeader
<1> QED
  BY <1>1, TypeCorrect, ElectionInvariant, PTL

=============================================================================
