------------------------------- MODULE URaft -------------------------------
(***************************************************************************)
(* The leader election of lizardfs-uraft (src/src/uraft/uraft.cc, class    *)
(* uRaft).  Nodes exchange UDP packets: a leader sends heartbeats (Append  *)
(* Entries), its followers answer them and are loyal to it for one minimal *)
(* election timeout, and a leader that holds the loyalty of a quorum is    *)
(* the President.                                                          *)
(*                                                                         *)
(* A node's state is a record, and each function of the class is an        *)
(* operator from the record before the call to the record after it, so     *)
(* that a handler is the composition of the functions it calls.            *)
(*                                                                         *)
(* Time.  The heartbeat timers of the N nodes fire in a fixed cyclic       *)
(* order, one per slot: a heartbeat period is N slots and a timeout of L   *)
(* heartbeat periods is L * N slots.  Timers are on time: no process is    *)
(* suspended or starved.  Packets travel between two slots, may be lost    *)
(* and may overtake each other; MaxDelay bounds the slots a packet may     *)
(* spend in the network.                                                   *)
(***************************************************************************)
EXTENDS Integers, FiniteSets

CONSTANTS
  N,            \* number of nodes, opt_.server.size()
  L,            \* election_timeout_min in units of heartbeat_period
  IntBits,      \* width of int: 32 in the code
  Elector,      \* nodes in elector mode: they vote and never stand for election
  VersionTimeouts, \* whether the query of the metadata version may time out
  MaxDelay,     \* slots a packet may stay in the network
  MaxInFlight,  \* bound: packets in the network at a time; the others are lost
  MaxSlots,     \* bound: slots explored
  MaxTerm,      \* bound: highest term that starts an election
  MaxVersion,   \* bound: metadata versions are 0 .. MaxVersion
  MaxRestarts,  \* bound: restarts of node processes
  MaxCalls      \* bound: calls of demoteLeader and set_block_promotion

ASSUME NAssumption == N \in Nat \ {0}
ASSUME LAssumption == L \in Nat \ {0}
ASSUME ElectorAssumption == Elector \subseteq 0 .. N - 1
ASSUME VersionTimeoutsAssumption == VersionTimeouts \in BOOLEAN
ASSUME IntBitsAssumption == IntBits \in Nat \ {0}
ASSUME BoundsAssumption ==
  /\ MaxDelay \in Nat /\ MaxInFlight \in Nat /\ MaxSlots \in Nat /\ MaxTerm \in Nat
  /\ MaxVersion \in Nat /\ MaxRestarts \in Nat /\ MaxCalls \in Nat

Node == 0 .. N - 1
None == -1

(* opt_.quorum *)
Quorum == (N \div 2) + 1

(* election_timeout_min in slots; Off is a cancelled timer *)
Timeout == L * N
Off == -1
Countdown == 0 .. Timeout
Timer == Countdown \cup {Off}

NodeOrNone == Node \cup {None}

VARIABLES
  state,     \* state_, node_ and block_leader_promotion_ of each node
  meta,      \* version of the metadata server of each node
  msgs,      \* packets in the network
  now,       \* slots since the start
  lease,     \* history: the last agreement each node signed, kept by a restart
  restarts,  \* restarts so far
  calls      \* calls by the owner of the uRaft object so far

vars == <<state, meta, msgs, now, lease, restarts, calls>>

(* RaftState and NodeInfo.  loyal and elect count the slots left on the    *)
(* loyalty agreement timer (loyalty_agreement is loyal > 0) and on the     *)
(* shortest election timeout; granted and recv are the nodes whose         *)
(* vote_granted and recv are set.  Two fields are history: electors, the   *)
(* voters that made the node a leader, and pledged, the version of the     *)
(* node's metadata when it cast its vote.                                  *)
NodeState ==
  [type : {"follower", "candidate", "leader"},
   term : Nat, votedFor : NodeOrNone, leaderId : NodeOrNone,
   president : BOOLEAN, block : BOOLEAN,
   loyal : Countdown, elect : Timer,
   localTime : Nat, heard : [Node -> Nat],
   granted : SUBSET Node, recv : SUBSET Node, version : Nat,
   electors : SUBSET Node, pledged : Nat]

(* RpcRequest and RpcResponse; at is the slot of the send, which the code  *)
(* does not see.                                                           *)
Packet ==
  [kind : {"AE", "RV", "AER", "RVR"}, from : Node, to : Node,
   term : Nat, time : Nat, version : Nat, result : BOOLEAN, at : Nat]

Lease == [to : NodeOrNone, left : Countdown]
NoLease == [to |-> None, left |-> 0]

(* Every field of every node, packet and timer keeps its range: timers     *)
(* never run past zero and only nodes of the cluster are voted for.        *)
TypeOK ==
  /\ state \in [Node -> NodeState]
  /\ meta \in [Node -> Nat]
  /\ msgs \subseteq Packet
  /\ now \in Nat
  /\ lease \in [Node -> Lease]
  /\ restarts \in Nat
  /\ calls \in Nat

-----------------------------------------------------------------------------
(* A node after the constructor and init().  The agreement signed at the   *)
(* end of init covers one made before a fast restart.  The controller has  *)
(* found the metadata server alive and unblocked the promotion, except in  *)
(* elector mode.                                                           *)
FreshNode_NoAgreement(n) ==
  [type |-> "follower", term |-> 0, votedFor |-> None, leaderId |-> None,
   president |-> FALSE, block |-> n \in Elector, loyal |-> 0, elect |-> Timeout,
   localTime |-> L + 1, heard |-> [m \in Node |-> 0],
   granted |-> {}, recv |-> {}, version |-> 0, electors |-> {}, pledged |-> 0]

FreshNode(n) ==
  [type |-> "follower", term |-> 0, votedFor |-> None, leaderId |-> None,
   president |-> FALSE, block |-> n \in Elector, loyal |-> Timeout, elect |-> Timeout,
   localTime |-> L + 1, heard |-> [m \in Node |-> 0],
   granted |-> {}, recv |-> {}, version |-> 0, electors |-> {}, pledged |-> 0]

Init ==
  /\ state = [n \in Node |-> FreshNode(n)]
  /\ meta \in [Node -> 0 .. MaxVersion] /\ \A n \in Elector : meta[n] = 0
  /\ msgs = {}
  /\ now = 0
  /\ lease = [n \in Node |-> NoLease]
  /\ restarts = 0
  /\ calls = 0

-----------------------------------------------------------------------------
(* Sending *)

(* sendHeartbeat *)
Heartbeats(n, s) ==
  {[kind |-> "AE", from |-> n, to |-> d, term |-> s.term, time |-> s.localTime,
    version |-> s.version, result |-> FALSE, at |-> now'] : d \in Node \ {n}}

(* sendRequestForVotes: only to the nodes that have not answered *)
VoteRequests(n, s) ==
  {[kind |-> "RV", from |-> n, to |-> d, term |-> s.term, time |-> 0,
    version |-> s.version, result |-> FALSE, at |-> now'] : d \in Node \ s.recv}

(* The answer to packet m; nobody reads req_time of an answer to "RV" *)
Response(kind, n, s, m, result) ==
  {[kind |-> kind, from |-> n, to |-> m.from, term |-> s.term, time |-> m.time,
    version |-> 0, result |-> result, at |-> now']}

(* socketSend: some of the packets out join those in flight *)
Send(ms, out) ==
  \E kept \in SUBSET out :
    /\ msgs' = ms \cup kept
    /\ Cardinality(ms \cup kept) <= MaxInFlight

(* Packets that are still in the network in the new slot *)
InFlight(ms) == {m \in ms : now' - m.at <= MaxDelay}

-----------------------------------------------------------------------------
(* voteCount *)

(* The conversion of an unsigned 64-bit number to int *)
ToInt(x) ==
  LET y == x % 2^IntBits
  IN  IF y < 2^(IntBits - 1) THEN y ELSE y - 2^IntBits

(* The nodes that voteCount(true) counts *)
LoyalNodes_NoMargin(s) == {m \in Node : ToInt(s.localTime - s.heard[m]) <= L}

LoyalNodes(s) == {m \in Node : ToInt((s.localTime - s.heard[m]) + 1) <= L}

HasLoyalQuorum(s) == Cardinality(LoyalNodes(s)) >= Quorum
HasVoteQuorum(s) == Cardinality(s.granted) >= Quorum

-----------------------------------------------------------------------------
(* nodeGetVersion: the version of the metadata server, or the cached one   *)
(* after a timeout.                                                        *)
Versions(n) == {meta[n]} \cup (IF VersionTimeouts THEN {state[n].version} ELSE {})

(* The functions of the class; v is what nodeGetVersion returns *)

(* electionTimeout *)
StandForElection(n, s, v) ==
  IF s.block THEN [s EXCEPT !.elect = Timeout]
  ELSE LET c == [s EXCEPT !.type = "candidate", !.term = @ + 1, !.votedFor = n,
                          !.granted = {n}, !.recv = {n},
                          !.heard[n] = s.localTime]
       IN  IF Quorum > 1
           THEN [c EXCEPT !.version = v, !.elect = Timeout]
           ELSE [c EXCEPT !.type = "leader", !.electors = {n}, !.elect = Off]

(* checkTerm *)
CheckTerm_NoPresident(n, s, t, v) ==
  IF t <= s.term THEN s
  ELSE [s EXCEPT !.type = "follower", !.votedFor = None, !.term = t,
                 !.elect = IF s.type = "follower" THEN @ ELSE Timeout]

CheckTerm(n, s, t, v) ==
  IF t <= s.term THEN s
  ELSE IF s.president THEN StandForElection(n, [s EXCEPT !.term = t], v)
  ELSE [s EXCEPT !.type = "follower", !.votedFor = None, !.term = t,
                 !.elect = IF s.type = "follower" THEN @ ELSE Timeout]

(* rpcAppend *)
Append(s, m, v) ==
  [s EXCEPT !.version = IF m.from = s.leaderId THEN @ ELSE v,
            !.leaderId = m.from, !.loyal = Timeout,
            !.type = "follower", !.elect = Timeout]

(* rpcAppendResponse *)
AppendResponse_ReceiptTime(s, m) ==
  IF s.type # "leader" THEN s
  ELSE [s EXCEPT !.heard[m.from] = s.localTime,
                 !.granted = @ \cup {m.from}, !.recv = @ \cup {m.from}]

AppendResponse(s, m) ==
  IF s.type # "leader" THEN s
  ELSE [s EXCEPT !.heard[m.from] = IF @ < m.time THEN m.time ELSE @,
                 !.granted = @ \cup {m.from}, !.recv = @ \cup {m.from}]

(* rpcReqVote: the state with the version refreshed, and the decision *)
RefreshVersion(s, v) == IF s.votedFor = None THEN [s EXCEPT !.version = v] ELSE s

GrantsVote_Twice(s, m) ==
  /\ s.type = "follower"
  /\ m.term >= s.term
  /\ m.version >= s.version
  /\ s.loyal > 0 => s.leaderId = m.from

GrantsVote_AnyVersion(s, m) ==
  /\ s.type = "follower"
  /\ m.term >= s.term
  /\ IF s.loyal > 0 THEN s.leaderId = m.from ELSE s.votedFor \in {None, m.from}

GrantsVote(s, m) ==
  /\ s.type = "follower"
  /\ m.term >= s.term
  /\ m.version >= s.version
  /\ IF s.loyal > 0 THEN s.leaderId = m.from ELSE s.votedFor \in {None, m.from}

ReqVote(n, s, m) ==
  IF GrantsVote(s, m)
  THEN [s EXCEPT !.votedFor = m.from, !.elect = Timeout,
                 !.pledged = IF s.votedFor = m.from THEN @ ELSE meta[n]]
  ELSE s

(* rpcReqVoteResponse *)
ReqVoteResponse(n, s, m) ==
  IF s.type # "candidate" THEN s
  ELSE LET c == [s EXCEPT !.granted = IF m.result THEN @ \cup {m.from} ELSE @ \ {m.from},
                          !.recv = @ \cup {m.from}]
       IN  IF HasVoteQuorum(c)
           THEN [c EXCEPT !.type = "leader", !.leaderId = n,
                          !.electors = c.granted, !.elect = Off]
           ELSE c

(* demoteLeader *)
Demoted_KeepsPresident(s) ==
  IF s.type = "follower" THEN s
  ELSE [s EXCEPT !.type = "follower", !.votedFor = None, !.leaderId = None, !.elect = Timeout]

Demoted(s) ==
  IF s.type = "follower" THEN s
  ELSE [s EXCEPT !.type = "follower", !.votedFor = None, !.leaderId = None,
                 !.president = FALSE, !.elect = Timeout]

-----------------------------------------------------------------------------
(* heartbeat, in the two parts the code separates with a return: a         *)
(* president without a loyal quorum steps down; otherwise candidates and   *)
(* leaders send, and a leader with a loyal quorum becomes the president.   *)
Beat(n, s) == [s EXCEPT !.localTime = @ + 1, !.heard[n] = s.localTime + 1]

LosesQuorum(s) == s.president /\ ~HasLoyalQuorum(s)

StepDown(s) ==
  IF s.type = "leader"
  THEN [s EXCEPT !.type = "follower", !.votedFor = None, !.elect = Timeout, !.president = FALSE]
  ELSE [s EXCEPT !.president = FALSE]

BecomesPresident(s) == s.type = "leader" /\ ~s.president /\ HasLoyalQuorum(s)

AfterBeat(s) ==
  IF LosesQuorum(s) THEN StepDown(s)
  ELSE IF BecomesPresident(s) THEN [s EXCEPT !.president = TRUE]
  ELSE s

BeatPackets(n, s) ==
  CASE LosesQuorum(s) -> {}
    [] ~LosesQuorum(s) /\ s.type = "candidate" -> VoteRequests(n, s)
    [] ~LosesQuorum(s) /\ s.type = "leader" -> Heartbeats(n, s)
    [] OTHER -> {}

(* One slot passes on the timers of a node *)
TimersRun(s) ==
  [s EXCEPT !.loyal = IF @ > 0 THEN @ - 1 ELSE @, !.elect = IF @ > 0 THEN @ - 1 ELSE @]

LeaseRuns(l) == IF l.left > 1 THEN [l EXCEPT !.left = @ - 1] ELSE NoLease

(* A slot: every timer runs and the node whose turn it is beats *)
Heartbeat(n) ==
  /\ n = now % N
  /\ now < MaxSlots
  /\ now' = now + 1
  /\ LET s == Beat(n, TimersRun(state[n]))
     IN  /\ state' = [m \in Node |-> IF m = n THEN AfterBeat(s) ELSE TimersRun(state[m])]
         /\ Send(InFlight(msgs), BeatPackets(n, s))
  /\ lease' = [m \in Node |-> LeaseRuns(lease[m])]
  /\ UNCHANGED <<meta, restarts, calls>>

(* The election timer fires, some time after its shortest timeout *)
ElectionTimeout(n) ==
  /\ state[n].elect = 0
  /\ state[n].term < MaxTerm
  /\ UNCHANGED <<meta, now, lease, restarts, calls>>
  /\ \E v \in Versions(n) :
       LET s == StandForElection(n, state[n], v)
       IN  /\ state' = [state EXCEPT ![n] = s]
           /\ Send(msgs, IF s.type = "candidate" /\ ~s.block THEN VoteRequests(n, s) ELSE {})

-----------------------------------------------------------------------------
(* receivePacket.  validPacket drops packets of older terms; checkTerm     *)
(* runs before the handler, and a president that stands for election there *)
(* asks for votes.  The assertions of rpcAppend are guards: a node that    *)
(* fails them aborts (see AppendAsserts below).                            *)
Deliverable(n, m) == m \in msgs /\ m.to = n /\ m.term >= state[n].term

AfterCheckTerm(n, m, v) == CheckTerm(n, state[n], m.term, v)

BumpPackets(n, m, s) ==
  IF state[n].president /\ m.term > state[n].term /\ ~s.block /\ Quorum > 1
  THEN VoteRequests(n, s) ELSE {}

Receive(n, m, kind) ==
  /\ Deliverable(n, m)
  /\ m.kind = kind
  /\ state[n].president /\ m.term > state[n].term => m.term <= MaxTerm
  /\ UNCHANGED <<meta, now, restarts, calls>>

ReceiveAppend(n) ==
  \E m \in msgs, v \in Versions(n) :
    LET s == AfterCheckTerm(n, m, v)
    IN  /\ Receive(n, m, "AE")
        /\ s.type # "leader" /\ m.term >= s.term
        /\ lease' = [lease EXCEPT ![n] = [to |-> m.from, left |-> Timeout]]
        /\ state' = [state EXCEPT ![n] = Append(s, m, v)]
        /\ Send(msgs \ {m}, BumpPackets(n, m, s) \cup Response("AER", n, Append(s, m, v), m, TRUE))

ReceiveAppendResponse(n) ==
  \E m \in msgs, v \in Versions(n) :
    LET s == AfterCheckTerm(n, m, v)
    IN  /\ Receive(n, m, "AER")
        /\ UNCHANGED lease
        /\ state' = [state EXCEPT ![n] = AppendResponse(s, m)]
        /\ Send(msgs \ {m}, BumpPackets(n, m, s))

ReceiveReqVote(n) ==
  \E m \in msgs, v \in Versions(n) :
    LET c == AfterCheckTerm(n, m, v)
        s == RefreshVersion(c, v)
    IN  /\ Receive(n, m, "RV")
        /\ UNCHANGED lease
        /\ state' = [state EXCEPT ![n] = ReqVote(n, s, m)]
        /\ Send(msgs \ {m}, BumpPackets(n, m, c) \cup Response("RVR", n, s, m, GrantsVote(s, m)))

ReceiveReqVoteResponse(n) ==
  \E m \in msgs, v \in Versions(n) :
    LET c == AfterCheckTerm(n, m, v)
        s == ReqVoteResponse(n, c, m)
    IN  /\ Receive(n, m, "RVR")
        /\ UNCHANGED lease
        /\ state' = [state EXCEPT ![n] = s]
        /\ Send(msgs \ {m},
                BumpPackets(n, m, c)
                  \cup (IF c.type = "candidate" /\ s.type = "leader" THEN Heartbeats(n, s) ELSE {}))

-----------------------------------------------------------------------------
(* The owner of the object (uRaftController) and the environment *)

DemoteLeader(n) ==
  /\ n \notin Elector
  /\ calls < MaxCalls
  /\ calls' = calls + 1
  /\ state' = [state EXCEPT ![n] = Demoted(@)]
  /\ UNCHANGED <<meta, msgs, now, lease, restarts>>

SetBlockPromotion(n) ==
  /\ n \notin Elector
  /\ calls < MaxCalls
  /\ calls' = calls + 1
  /\ \E b \in BOOLEAN : state' = [state EXCEPT ![n].block = b]
  /\ UNCHANGED <<meta, msgs, now, lease, restarts>>

(* The process ends and is started again: nothing of its state is kept *)
Restart(n) ==
  /\ restarts < MaxRestarts
  /\ restarts' = restarts + 1
  /\ state' = [state EXCEPT ![n] = FreshNode(n)]
  /\ UNCHANGED <<meta, msgs, now, lease, calls>>

(* The metadata of the president advances; other nodes catch up *)
MetadataChange(n) ==
  /\ n \notin Elector
  /\ \/ state[n].president /\ meta[n] < MaxVersion /\ meta' = [meta EXCEPT ![n] = @ + 1]
     \/ \E m \in Node : meta[m] > meta[n] /\ meta' = [meta EXCEPT ![n] = meta[m]]
  /\ UNCHANGED <<state, msgs, now, lease, restarts, calls>>

Next ==
  \E n \in Node :
    \/ Heartbeat(n)
    \/ ElectionTimeout(n)
    \/ ReceiveAppend(n)
    \/ ReceiveAppendResponse(n)
    \/ ReceiveReqVote(n)
    \/ ReceiveReqVoteResponse(n)
    \/ DemoteLeader(n)
    \/ SetBlockPromotion(n)
    \/ Restart(n)
    \/ MetadataChange(n)

Spec == Init /\ [][Next]_vars

-----------------------------------------------------------------------------
(* "There can be only one President at the time" (uraft.h:14).            *)
OnePresident ==
  \A n, m \in Node : state[n].president /\ state[m].president => n = m

(* A president holds agreements of a quorum that have not expired, itself  *)
(* included: the count of voteCount(true), made from its own clock    *)
(* and answers that are already old, never promises more than the          *)
(* followers' timers (signLoyaltyAgreement) still guarantee.               *)
PresidentHasLeases ==
  \A n \in Node :
    state[n].president =>
      Cardinality({m \in Node : m = n \/ lease[m].to = n}) >= Quorum

(* The assertions of checkTerm and heartbeat (uraft.cc:94, 233): a         *)
(* president is never a follower, whatever packets reach it when it stands *)
(* for election again and after it has won.                                *)
PresidentNotFollower == \A n \in Node : state[n].president => state[n].type # "follower"

(* Two leaders are never in the same term, although rpcReqVote lets a      *)
(* loyal node vote for its leader whatever it voted before and a node that *)
(* steps down forgets its vote.                                            *)
OneLeaderPerTerm ==
  \A n, m \in Node :
    state[n].type = "leader" /\ state[m].type = "leader" /\ state[n].term = state[m].term
      => n = m

(* The assertions of rpcAppend (uraft.cc:267-268), for every heartbeat     *)
(* that can be received, however late.                                     *)
AppendAsserts ==
  \A m \in msgs :
    m.kind = "AE" /\ Deliverable(m.to, m) =>
      LET s == AfterCheckTerm(m.to, m, meta[m.to])
      IN  s.type # "leader" /\ m.term >= s.term

(* "Selected President has greater or equal value of version variable than *)
(* all other nodes making quorum" (uraft.h:15): no node that voted for the *)
(* leader had newer metadata when it did.                                  *)
FreshLeader ==
  \A n \in Node : \A m \in state[n].electors \ {n} :
    /\ state[n].type = "leader"
    /\ state[m].votedFor = n
    /\ state[m].term = state[n].term
    => state[n].version >= state[m].pledged

(* "It's possible that before restart we have signed agreement with a      *)
(* leader.  Now we wait for this agreement to expire" (uraft.cc:430): a    *)
(* node votes for nobody but the leader it signed an agreement with while  *)
(* the agreement lasts, even if it was restarted meanwhile.                *)
LeaseHonoured ==
  [][\A n \in Node :
       LET choice == state'[n].votedFor
       IN  choice # state[n].votedFor /\ choice \notin {None, n}
             => lease[n].to \in {None, choice}]_vars

=============================================================================
