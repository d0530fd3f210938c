--------------------------- MODULE URaftElection ---------------------------
(***************************************************************************)
(* Why two nodes are never leaders of one term (OneLeaderPerTerm): the     *)
(* invariant that the votes keep.                                          *)
(*                                                                         *)
(* A node resets voted_for within a term when it stops being a candidate   *)
(* or a leader, and a loyal node votes for its leader whatever it voted    *)
(* before.  So "a node votes once per term" is not an invariant.  What is  *)
(* one: the votes that can still count.  A vote backs x while x is a       *)
(* candidate that holds it or may still receive it, or the leader it       *)
(* elected.                                                                *)
(*                                                                         *)
(* The predicates take the nodes' states st and the packets ms as          *)
(* arguments, because a handler changes them twice: in checkTerm and then  *)
(* in the function for the packet.                                         *)
(***************************************************************************)
EXTENDS URaft

(* x will not be elected in term t any more *)
CannotWin(st, x, t) ==
  \/ st[x].term > t
  \/ st[x].term = t /\ st[x].type # "candidate"

Granted(m) == m.kind = "RVR" /\ m.result

(* The vote of y counts, or may come to count, for x in x's term *)
Backs(st, ms, y, x) ==
  \/ /\ st[x].type = "candidate"
     /\ \/ y \in st[x].granted
        \/ \E m \in ms : Granted(m) /\ m.from = y /\ m.to = x /\ m.term = st[x].term
  \/ /\ st[x].type = "leader"
     /\ y \in st[x].electors

(* A candidate and a leader have voted for themselves *)
SelfVote(st) == \A n \in Node : st[n].type # "follower" => st[n].votedFor = n

(* Packets do not come from the future, and a heartbeat comes from a node  *)
(* that has been elected                                                   *)
PacketTerms(st, ms) ==
  \A m \in ms :
    /\ m.kind = "AE" => CannotWin(st, m.from, m.term)
    /\ m.kind = "RV" => m.term <= st[m.from].term
    /\ Granted(m) => m.term <= st[m.from].term /\ m.term <= st[m.to].term

BackerTerms(st, ms) ==
  \A x, y \in Node : Backs(st, ms, y, x) => st[x].term <= st[y].term

(* The leader a node is loyal to cannot win its term with a second vote *)
LoyalVote(st) ==
  \A y, x \in Node :
    /\ st[y].type = "follower" /\ st[y].loyal > 0 /\ st[y].leaderId = x
    /\ st[y].votedFor \notin {None, x}
    => CannotWin(st, x, st[y].term)

(* A vote that counts is remembered, or overwritten by one that cannot *)
VoteKept(st, ms) ==
  \A x, y \in Node :
    Backs(st, ms, y, x) /\ st[y].term = st[x].term =>
      \/ st[y].votedFor = x
      \/ /\ st[y].type = "follower" /\ st[y].votedFor \in Node
         /\ CannotWin(st, st[y].votedFor, st[x].term)

OneBacked(st, ms) ==
  \A x, y, z \in Node :
    Backs(st, ms, y, x) /\ Backs(st, ms, y, z) /\ st[x].term = st[z].term => x = z

ElectedByQuorum(st) ==
  \A n \in Node : st[n].type = "leader" => Cardinality(st[n].electors) >= Quorum

VotesOK(st, ms) ==
  /\ SelfVote(st)
  /\ PacketTerms(st, ms)
  /\ BackerTerms(st, ms)
  /\ LoyalVote(st)
  /\ VoteKept(st, ms)
  /\ OneBacked(st, ms)
  /\ ElectedByQuorum(st)

(* Nothing made the nodes forget their votes, and the controller has not   *)
(* blocked the promotion of a node that is the president: checkTerm would  *)
(* give such a node a term it was not elected in.                          *)
Undisturbed ==
  /\ restarts = 0
  /\ \A n \in Node : state[n].president => ~state[n].block

(* The inductive invariant: the votes of uRaft::rpcReqVote that can still  *)
(* count are unique per voter and term, and each leader has a quorum of    *)
(* them.                                                                   *)
ElectionInv == VotesOK(state, msgs)

=============================================================================
