-------------------------- MODULE URaftController --------------------------
(***************************************************************************)
(* The controllers of a cluster (src/src/uraft/uraftcontroller.cc, class   *)
(* uRaftController).  The controller of a node hears from uRaft that the   *)
(* node became or is no longer the president, and switches the local       *)
(* metadata server with the helper script                                  *)
(* (src/src/uraft/lizardfs-uraft-helper.in), one slow command at a time.   *)
(*                                                                         *)
(* The election is reduced to what URaft establishes: one president at a   *)
(* time.  The cluster has at least two nodes that are not electors, so     *)
(* that only heartbeat() calls nodePromote.                                *)
(***************************************************************************)
EXTENDS Naturals

CONSTANTS
  Node,      \* the nodes that manage a metadata server
  FaultSets  \* what may go wrong: a behaviour has the faults of one of these sets

FaultKind ==
  {"fork",      \* fork() fails
   "timeout",   \* a slow command is killed by its timeout
   "script",    \* the helper script fails: load_config ends it, or a command of it fails
   "rerun",     \* a president loses its quorum while it stands for re-election
   "comeback"}  \* a dead metadata server returns before it was found dead

ASSUME FaultSetsAssumption == FaultSets \subseteq SUBSET FaultKind

VARIABLES
  ctl,    \* the controller of each node and what it controls
  faults  \* what may go wrong in this behaviour

vars == <<ctl, faults>>

Role == {"follower", "standing", "president"}
Command == {"none", "promote", "demote", "dead"}
StepsLeft == 0 .. 2
Server == {"master", "shadow", "dead"}

Controller ==
  [role : Role,          \* "standing": a candidate, or a leader that is not the president
   block : BOOLEAN,      \* block_leader_promotion_
   command : Command,    \* command_type_; command_pid_ >= 0 iff it is not "none"
   step : StepsLeft,     \* the steps the script has left
   force : BOOLEAN,      \* force_demote_
   alive : BOOLEAN,      \* node_alive_
   server : Server,      \* the metadata server
   ip : BOOLEAN,         \* whether the floating IP address is assigned to the node
   undone : BOOLEAN]     \* history: the last command that had to switch the server off
                         \* was not started, was killed, or failed

(* Every controller is a well-formed record, and no script has steps left  *)
(* when command_type_ is kCmdNone.                                         *)
TypeOK ==
  /\ ctl \in [Node -> Controller]
  /\ \A n \in Node : ctl[n].command = "none" => ctl[n].step = 0
  /\ faults \subseteq FaultKind

(* The constructor and init(): promotion is blocked until the metadata     *)
(* server is found alive.                                                  *)
Started(s) ==
  [role |-> "follower", block |-> TRUE, command |-> "none", step |-> 0,
   force |-> FALSE, alive |-> FALSE, server |-> s, ip |-> FALSE, undone |-> FALSE]

Init ==
  /\ ctl \in [Node -> {Started(s) : s \in {"shadow", "dead"}}]
  /\ faults \in FaultSets

-----------------------------------------------------------------------------
(* Operators on the controller c of one node; those that may start a       *)
(* script return the set of possible results.                              *)

(* set_block_promotion *)
Blocked(c, b) == [c EXCEPT !.block = b]

(* demoteLeader of uRaft: it does not call nodeDemote *)
DemoteLeader(c) == [c EXCEPT !.role = "follower"]

Idle_NotReaped(c) == [c EXCEPT !.command = "none"]

(* command_type_ and command_pid_ are reset *)
Idle(c) == [c EXCEPT !.command = "none", !.step = 0]

(* runSlowCommand and the assignment of command_type_ *)
RunSlowCommand(c, cmd) == [c EXCEPT !.command = cmd, !.step = 2, !.undone = FALSE]

(* History only: nobody will try again to switch the server off *)
Undone(c) == [c EXCEPT !.undone = TRUE]

(* fork() fails in runSlowCommand *)
Failed(c) == {x \in {c} : "fork" \in faults}

NodePromote(c) ==
  IF c.command \notin {"none", "promote"}
  THEN {Blocked(DemoteLeader(c), TRUE)}
  ELSE IF c.command = "promote"
       THEN {c}
       ELSE {RunSlowCommand(c, "promote")} \cup Failed(c)

NodeDemote_Dropped(c) ==
  IF c.command # "none"
  THEN {Blocked(c, TRUE)}
  ELSE {Blocked(RunSlowCommand(c, "demote"), TRUE)} \cup Failed(Undone(c))

NodeDemote_Unblocked(c) ==
  IF c.command \notin {"none", "demote"}
  THEN {Blocked([c EXCEPT !.force = TRUE], TRUE)}
  ELSE IF c.command = "demote"
       THEN {c}
       ELSE {RunSlowCommand(c, "demote")} \cup Failed(Undone(c))

NodeDemote(c) ==
  IF c.command \notin {"none", "demote"}
  THEN {Blocked([c EXCEPT !.force = TRUE], TRUE)}
  ELSE IF c.command = "demote"
       THEN {c}
       ELSE {Blocked(RunSlowCommand(c, "demote"), TRUE)} \cup Failed(Undone(c))

(* What follows the end of the script of c *)
AfterPromote(c) ==
  LET d == [Idle(c) EXCEPT !.alive = TRUE]
  IN  IF c.force THEN {[e EXCEPT !.force = FALSE] : e \in NodeDemote(d)} ELSE {d}

AfterCommand(c) ==
  CASE c.command = "demote"  -> {Blocked(Idle(c), FALSE)}
    [] c.command = "promote" -> AfterPromote(c)
    [] c.command = "dead"    -> {Idle(c)}

FoundAlive(c) == [Blocked(c, FALSE) EXCEPT !.alive = TRUE]

FoundDead_NoCommand(c) == {[Blocked(DemoteLeader(c), TRUE) EXCEPT !.alive = FALSE]}

FoundDead_KeepsPresident(c) ==
  LET d == [Blocked(c, TRUE) EXCEPT !.alive = FALSE]
  IN  {RunSlowCommand(d, "dead")} \cup Failed(Undone(d))

FoundDead(c) ==
  LET d == [Blocked(DemoteLeader(c), TRUE) EXCEPT !.alive = FALSE]
  IN  {RunSlowCommand(d, "dead")} \cup Failed(Undone(d))

-----------------------------------------------------------------------------
(* The helper script, by the steps the running command has left.           *)

(* What is possible only when the script fails *)
ScriptFails(S) == {x \in S : "script" \in faults}

(* load_config ends the script when the configuration is incomplete *)
Exited(c) == [c EXCEPT !.step = 0]

(* lizardfs_promote, then lizardfs_assign_ip.  promote-shadow needs a      *)
(* running shadow and its failure does not end the script; that of the     *)
(* restart as a master does, with the old server gone or not.              *)
PromoteStep(c) ==
  IF c.step = 2
  THEN {[c EXCEPT !.step = 1, !.server = IF @ = "shadow" THEN "master" ELSE @]}
       \cup ScriptFails({[c EXCEPT !.step = 1], Exited(c),
                         [Exited(c) EXCEPT !.server = IF @ = "shadow" THEN "dead" ELSE @]})
  ELSE {[c EXCEPT !.step = 0, !.ip = TRUE]} \cup ScriptFails({Exited(c)})

(* lizardfs_demote: lizardfs_drop_ip, whose failure to delete the address  *)
(* does not end the script, then a restart as a shadow, which may fail     *)
(* with the old server gone or not.                                        *)
DemoteStep(c) ==
  IF c.step = 2
  THEN {[c EXCEPT !.step = 1, !.ip = FALSE]}
       \cup ScriptFails({Undone([c EXCEPT !.step = 1]), Undone(Exited(c))})
  ELSE {[c EXCEPT !.step = 0, !.server = "shadow"]}
       \cup ScriptFails({Undone(Exited(c)), Undone([Exited(c) EXCEPT !.server = "dead"])})

(* lizardfs_dead: lizardfs_drop_ip *)
DeadStep(c) == {[c EXCEPT !.step = 0, !.ip = FALSE]} \cup ScriptFails({Undone(Exited(c))})

ScriptSteps(c) ==
  CASE c.command = "promote" -> PromoteStep(c)
    [] c.command = "demote"  -> DemoteStep(c)
    [] c.command = "dead"    -> DeadStep(c)

-----------------------------------------------------------------------------
(* What uRaft does to the role of node n *)

President(n) == ctl[n].role = "president"

Becomes(n, cs) == UNCHANGED faults /\ \E c \in cs : ctl' = [ctl EXCEPT ![n] = c]

(* electionTimeout *)
Stand(n) ==
  /\ ctl[n].role = "follower"
  /\ ~ctl[n].block
  /\ Becomes(n, {[ctl[n] EXCEPT !.role = "standing"]})

(* checkTerm and rpcAppend *)
GiveUp(n) ==
  /\ ctl[n].role = "standing"
  /\ Becomes(n, {[ctl[n] EXCEPT !.role = "follower"]})

(* heartbeat of a leader with a loyal quorum *)
BecomePresident(n) ==
  /\ ctl[n].role = "standing"
  /\ \A m \in Node : ~President(m)
  /\ Becomes(n, NodePromote([ctl[n] EXCEPT !.role = "president"]))

(* heartbeat of a president without a loyal quorum; a president that is a  *)
(* candidate again remains one                                             *)
LosePresidency(n) ==
  /\ President(n)
  /\ \E r \in {"follower", "standing"} :
       /\ r = "standing" => "rerun" \in faults
       /\ Becomes(n, NodeDemote([ctl[n] EXCEPT !.role = r]))

-----------------------------------------------------------------------------
(* The controller and the metadata server of node n *)

ScriptStep(n) ==
  /\ ctl[n].step > 0
  /\ Becomes(n, ScriptSteps(ctl[n]))

(* The script has ended; its exit status is not looked at *)
CheckCommandStatus(n) ==
  /\ ctl[n].command # "none"
  /\ ctl[n].step = 0
  /\ Becomes(n, AfterCommand(ctl[n]))

(* isalive answers; when it times out nothing happens *)
CheckNodeStatus(n) ==
  /\ ctl[n].command = "none"
  /\ \/ /\ ctl[n].server # "dead"
        /\ ~ctl[n].alive
        /\ Becomes(n, {FoundAlive(ctl[n])})
     \/ /\ ctl[n].server = "dead"
        /\ ctl[n].alive
        /\ Becomes(n, FoundDead(ctl[n]))

(* stopSlowCommand; a demotion that was to follow a promotion is lost too  *)
StopSlowCommand(c) ==
  IF c.command # "promote" \/ c.force THEN Undone(Idle(c)) ELSE Idle(c)

CommandTimeout(n) ==
  /\ "timeout" \in faults
  /\ ctl[n].command # "none"
  /\ Becomes(n, {StopSlowCommand(ctl[n])})

ServerDies(n) ==
  /\ ctl[n].server # "dead"
  /\ Becomes(n, {[ctl[n] EXCEPT !.server = "dead"]})

(* Someone starts the metadata server again, as a shadow *)
ServerReturns(n) ==
  /\ ctl[n].server = "dead"
  /\ (ctl[n].command = "none" /\ ~ctl[n].alive) \/ "comeback" \in faults
  /\ Becomes(n, {[ctl[n] EXCEPT !.server = "shadow"]})

Next ==
  \E n \in Node :
    \/ Stand(n)
    \/ GiveUp(n)
    \/ BecomePresident(n)
    \/ LosePresidency(n)
    \/ ScriptStep(n)
    \/ CheckCommandStatus(n)
    \/ CheckNodeStatus(n)
    \/ CommandTimeout(n)
    \/ ServerDies(n)
    \/ ServerReturns(n)

(* Scripts end and the two periodic checks go on *)
Fairness ==
  \A n \in Node :
    /\ WF_vars(ScriptStep(n))
    /\ WF_vars(CheckCommandStatus(n))
    /\ WF_vars(CheckNodeStatus(n))

Spec == Init /\ [][Next]_vars /\ Fairness

-----------------------------------------------------------------------------
(* A node starts no election while its metadata server is being switched   *)
(* off: nodeDemote and checkNodeStatus block the promotion before the      *)
(* command runs, and nothing lifts the block before it ends.               *)
StandsOnlyReady ==
  [][\A n \in Node :
       ctl[n].role = "follower" /\ ctl'[n].role = "standing" =>
         ctl[n].command \notin {"demote", "dead"}]_vars

(* The metadata server is in the proper mode (uraftcontroller.h:14): that  *)
(* of a node that is not the president is a master only while a command    *)
(* runs after which it is demoted (nodeDemote, force_demote_), or when the *)
(* node's own last switch-off was not started, was killed or failed.       *)
(* Whatever else goes wrong, here or elsewhere, no demotion is forgotten.  *)
NoStrayMaster ==
  \A n \in Node :
    ctl[n].server = "master" /\ ~President(n) =>
      \/ ctl[n].command = "demote"
      \/ ctl[n].command = "promote" /\ ctl[n].force
      \/ ctl[n].undone

(* The metadata server is in the proper mode (uraftcontroller.h:14): that  *)
(* of a node that remains the president becomes a master (nodePromote,     *)
(* unless checkNodeStatus finds it dead and the node steps down).          *)
Serves(n) == []<>(~President(n) \/ ctl[n].server = "master")

AlwaysServes == \A n \in Node : Serves(n)

(* A node that remains the president gets a master when nothing fails but  *)
(* metadata servers that are found dead.                                   *)
PresidentServes == faults = {} => \A n \in Node : Serves(n)

(* A node that is no longer the president ends up without the floating IP  *)
(* address and without a master (nodeDemote, the dead command), unless its *)
(* own last switch-off was not started, was killed or failed.              *)
OthersDoNotServe ==
  \A n \in Node :
    []<>(President(n) \/ ctl[n].undone \/ (ctl[n].server # "master" /\ ~ctl[n].ip))

(* "Metadata server switch to slave mode done" (uraftcontroller.cc:156):   *)
(* when checkCommandStatus ends a demotion and lifts the block of the      *)
(* promotion, the metadata server is not a master any more.                *)
SlaveModeDone ==
  [][\A n \in Node :
       ctl[n].command = "demote" /\ ctl[n].step = 0 /\ ctl'[n].command = "none" =>
         ctl[n].server # "master"]_vars

=============================================================================
