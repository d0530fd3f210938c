----------------------- MODULE URaftControllerProofs -----------------------
(***************************************************************************)
(* For every set of nodes and whatever goes wrong: the metadata server of  *)
(* a node that is not the president is a master only while it is about to  *)
(* be demoted, or when the node's own last switch-off was not started, was *)
(* killed or failed; and no node stands for election while its metadata    *)
(* server is being switched off.                                           *)
(*                                                                         *)
(* Every action replaces the controller of one node by one of a set of     *)
(* controllers, so the theorems rest on lemmas about one controller.       *)
(***************************************************************************)
EXTENDS URaftController, TLAPS

(* A controller of the type TypeOK gives it. *)
Typed(c) == c \in Controller /\ (c.command = "none" => c.step = 0)

(* The block of the promotion, the part of Settled no fault can break. *)
Guarded(c) == c.command \in {"demote", "dead"} => c.block

(* What keeps NoStrayMaster: a promotion runs for the president, or for a  *)
(* node with a demotion pending; a demotion ends without a master, or is   *)
(* known to have failed; and the dead command runs on a blocked follower   *)
(* without a master, so that the force_demote_ of nodeDemote, which only   *)
(* the end of a promotion looks at, is never set while it runs.            *)
Settled(c) ==
  /\ c.command = "promote" => c.role = "president" \/ c.force
  /\ c.command = "demote" /\ c.step = 0 => c.server # "master" \/ c.undone
  /\ c.command = "dead" => c.role = "follower" /\ c.server # "master"
  /\ c.command = "none" /\ c.server = "master" => c.role = "president" \/ c.undone
  /\ Guarded(c)

SwitchInv == \A n \in Node : Settled(ctl[n])

(* A step that replaces the controller of node n. *)
Change(n, d) == ctl' = [ctl EXCEPT ![n] = d] /\ UNCHANGED faults

(* What every step does to the controller c of the node that takes it. *)
GoodStep(c, d) ==
  /\ Typed(d)
  /\ Guarded(c) => Guarded(d)
  /\ Settled(c) => Settled(d)
  /\ c.role = "follower" /\ d.role = "standing" => ~c.block

(* runSlowCommand changes the command, the steps and the history. *)
LEMMA RunLemma ==
  ASSUME NEW c \in Controller, NEW cmd \in Command \ {"none"}, NEW d, d = RunSlowCommand(c, cmd)
  PROVE  /\ Typed(d)
         /\ d.command = cmd /\ d.step = 2
         /\ d.role = c.role /\ d.block = c.block /\ d.force = c.force
         /\ d.alive = c.alive /\ d.server = c.server /\ d.ip = c.ip
<1>1. 2 \in StepsLeft
  BY DEF StepsLeft
<1>2. d \in Controller
  BY Zenon, <1>1 DEF RunSlowCommand, Controller
<1>3. /\ d.command = cmd /\ d.step = 2
      /\ d.role = c.role /\ d.block = c.block /\ d.force = c.force
      /\ d.alive = c.alive /\ d.server = c.server /\ d.ip = c.ip
  BY DEF RunSlowCommand, Controller
<1> QED
  BY <1>2, <1>3 DEF Typed

(* demoteLeader with set_block_promotion. *)
LEMMA StepDownLemma ==
  ASSUME NEW c \in Controller, NEW d, d = Blocked(DemoteLeader(c), TRUE)
  PROVE  /\ d \in Controller
         /\ d.role = "follower" /\ d.block = TRUE
         /\ d.command = c.command /\ d.step = c.step /\ d.force = c.force
         /\ d.alive = c.alive /\ d.server = c.server /\ d.ip = c.ip /\ d.undone = c.undone
BY Zenon DEF Blocked, DemoteLeader, Controller, Role

(* The history of a switch-off that nobody will repeat. *)
LEMMA UndoneLemma ==
  ASSUME NEW c \in Controller, NEW d, d = Undone(c)
  PROVE  /\ d \in Controller
         /\ d.undone = TRUE
         /\ d.role = c.role /\ d.block = c.block /\ d.command = c.command /\ d.step = c.step
         /\ d.force = c.force /\ d.alive = c.alive /\ d.server = c.server /\ d.ip = c.ip
BY Zenon DEF Undone, Controller

(* nodePromote returns a well-formed controller, keeps the block of a      *)
(* command that switches the server off, and starts a promotion only for   *)
(* the president.                                                          *)
LEMMA PromoteLemma ==
  ASSUME NEW c, Typed(c), c.role = "standing", NEW e, e = [c EXCEPT !.role = "president"],
         NEW d \in NodePromote(e)
  PROVE  /\ Typed(d)
         /\ Guarded(c) => Guarded(d)
         /\ Settled(c) => Settled(d)
<1>1. e \in Controller
  BY DEF Typed, Controller, Role
<1>2. /\ e.role = "president"
      /\ e.block = c.block /\ e.command = c.command /\ e.step = c.step
      /\ e.force = c.force /\ e.server = c.server /\ e.undone = c.undone
  BY DEF Typed, Controller
<1>3. CASE d = Blocked(DemoteLeader(e), TRUE) /\ e.command \notin {"none", "promote"}
  <2>1. /\ d \in Controller
        /\ d.role = "follower" /\ d.block = TRUE
        /\ d.command = e.command /\ d.step = e.step /\ d.force = e.force /\ d.server = e.server
        /\ d.undone = e.undone
    BY Zenon, <1>1, <1>3, StepDownLemma
  <2> QED
    BY Zenon, <1>2, <1>3, <2>1 DEF Typed, Guarded, Settled
<1>4. CASE d = e /\ e.command = "promote"
  BY <1>1, <1>2, <1>4 DEF Typed, Guarded, Settled
<1>5. CASE d = RunSlowCommand(e, "promote") /\ e.command = "none"
  <2>1. "promote" \in Command \ {"none"}
    BY DEF Command
  <2>2. /\ Typed(d)
        /\ d.command = "promote" /\ d.role = e.role
    BY ONLY <1>1, <1>5, <2>1, RunLemma
  <2> QED
    BY <1>2, <1>5, <2>2 DEF Guarded, Settled
<1>6. CASE d = e /\ e.command = "none"
  BY <1>1, <1>2, <1>6 DEF Typed, Guarded, Settled
<1> QED
  BY Zenon, <1>3, <1>4, <1>5, <1>6 DEF NodePromote, Failed

(* nodeDemote returns a well-formed controller, blocks the promotion when  *)
(* it starts the demotion, and leaves no master behind without a demotion  *)
(* unless fork() fails.                                                    *)
LEMMA DemoteLemma ==
  ASSUME NEW c, Typed(c), NEW d \in NodeDemote(c)
  PROVE  /\ Typed(d)
         /\ Guarded(c) => Guarded(d)
         /\ /\ c.command # "dead"
            /\ Guarded(c)
            /\ c.command = "demote" /\ c.step = 0 => c.server # "master" \/ c.undone
            => Settled(d)
<1>1. CASE d = Blocked([c EXCEPT !.force = TRUE], TRUE) /\ c.command \notin {"none", "demote"}
  <2>1. /\ d \in Controller
        /\ d.block = TRUE /\ d.force = TRUE
        /\ d.role = c.role /\ d.command = c.command /\ d.step = c.step /\ d.server = c.server
    BY Zenon, <1>1 DEF Typed, Blocked, Controller
  <2>2. c.command \in Command
    BY DEF Typed, Controller
  <2> QED
    BY Zenon, <1>1, <2>1, <2>2 DEF Typed, Guarded, Settled, Command
<1>2. CASE d = c /\ c.command = "demote"
  BY <1>2 DEF Guarded, Settled
<1>3. CASE d = Blocked(RunSlowCommand(c, "demote"), TRUE) /\ c.command = "none"
  <2> DEFINE e == RunSlowCommand(c, "demote")
  <2>1. /\ e \in Controller
        /\ e.command = "demote" /\ e.step = 2
    BY RunLemma DEF Typed, Command
  <2> HIDE DEF e
  <2>2. /\ d \in Controller
        /\ d.command = "demote" /\ d.step = 2 /\ d.block = TRUE
    BY Zenon, <1>3, <2>1 DEF Blocked, Controller, e
  <2> QED
    BY <2>2 DEF Typed, Guarded, Settled
<1>4. CASE d = Undone(c) /\ c.command = "none"
  <2>1. d \in Controller /\ d.undone = TRUE /\ d.command = "none" /\ d.step = c.step
    BY Zenon, <1>4, UndoneLemma DEF Typed
  <2> QED
    BY <1>4, <2>1 DEF Typed, Guarded, Settled
<1> QED
  BY Zenon, <1>1, <1>2, <1>3, <1>4 DEF NodeDemote, Failed

(* nodePromote and nodeDemote leave the role or make the node a follower. *)
LEMMA RoleLemma ==
  ASSUME NEW c \in Controller
  PROVE  /\ \A d \in NodePromote(c) : d.role \in {c.role, "follower"}
         /\ \A d \in NodeDemote(c) : d.role = c.role
<1>1. /\ RunSlowCommand(c, "promote").role = c.role
      /\ RunSlowCommand(c, "demote").role = c.role
      /\ Blocked(RunSlowCommand(c, "demote"), TRUE).role = c.role
      /\ Blocked(DemoteLeader(c), TRUE).role = "follower"
      /\ Blocked([c EXCEPT !.force = TRUE], TRUE).role = c.role
      /\ Undone(c).role = c.role
  BY DEF RunSlowCommand, Blocked, DemoteLeader, Undone, Controller
<1> QED
  BY Zenon, <1>1 DEF NodePromote, NodeDemote, Failed

(* The reset of command_type_ and command_pid_. *)
LEMMA IdleLemma ==
  ASSUME NEW c \in Controller, NEW d, d = Idle(c)
  PROVE  /\ Typed(d)
         /\ d.command = "none" /\ d.step = 0
         /\ d.role = c.role /\ d.block = c.block /\ d.force = c.force
         /\ d.alive = c.alive /\ d.server = c.server /\ d.ip = c.ip /\ d.undone = c.undone
<1>1. 0 \in StepsLeft
  BY DEF StepsLeft
<1>2. d \in Controller
  BY Zenon, <1>1 DEF Idle, Controller, Command
<1>3. /\ d.command = "none" /\ d.step = 0
      /\ d.role = c.role /\ d.block = c.block /\ d.force = c.force
      /\ d.alive = c.alive /\ d.server = c.server /\ d.ip = c.ip /\ d.undone = c.undone
  BY DEF Idle, Controller
<1> QED
  BY <1>2, <1>3 DEF Typed

(* checkCommandStatus after a promotion: the forced demotion is started or *)
(* known to have failed, or the node is still the president.               *)
LEMMA AfterPromoteLemma ==
  ASSUME NEW c, Typed(c), c.command = "promote", NEW d \in AfterPromote(c)
  PROVE  /\ Typed(d)
         /\ Guarded(d)
         /\ Settled(c) => Settled(d)
         /\ d.role = c.role
<1> DEFINE i == Idle(c)
           e == [i EXCEPT !.alive = TRUE]
<1>1. /\ i \in Controller
      /\ i.command = "none" /\ i.step = 0 /\ i.role = c.role
  BY IdleLemma DEF Typed
<1> HIDE DEF i
<1>2. /\ e \in Controller
      /\ e.command = "none" /\ e.step = 0 /\ e.role = c.role
  BY Zenon, <1>1 DEF Controller
<1>3. Typed(e) /\ Guarded(e)
  BY <1>2 DEF Typed, Guarded
<1> HIDE DEF e
<1>4. CASE c.force
  <2>1. PICK f \in NodeDemote(e) : d = [f EXCEPT !.force = FALSE]
    BY Zenon, <1>4 DEF AfterPromote, e, i
  <2>2. /\ Typed(f)
        /\ Guarded(f)
        /\ Settled(f)
        /\ f.command # "promote"
    <3>1. Typed(f) /\ Guarded(f) /\ Settled(f)
      BY <1>2, <1>3, DemoteLemma
    <3>2. f \in {Blocked(RunSlowCommand(e, "demote"), TRUE), Undone(e)}
      BY Zenon, <1>2 DEF NodeDemote, Failed
    <3>3. RunSlowCommand(e, "demote") \in Controller /\ RunSlowCommand(e, "demote").command = "demote"
      BY <1>2, RunLemma DEF Typed, Command
    <3>4. Blocked(RunSlowCommand(e, "demote"), TRUE).command = "demote"
      BY <3>3 DEF Blocked, Controller
    <3>5. Undone(e).command = "none"
      BY Zenon, <1>2, UndoneLemma
    <3> QED
      BY Zenon, <3>1, <3>2, <3>4, <3>5
  <2>3. /\ d \in Controller
        /\ d.role = f.role /\ d.block = f.block /\ d.command = f.command
        /\ d.step = f.step /\ d.server = f.server /\ d.undone = f.undone
    BY Zenon, <2>1, <2>2 DEF Typed, Controller
  <2>4. Typed(d) /\ Guarded(d)
    BY <2>2, <2>3 DEF Typed, Guarded
  <2>5. f.role = c.role
    BY <1>2, RoleLemma
  <2> QED
    BY <2>2, <2>3, <2>4, <2>5 DEF Settled
<1>5. CASE ~c.force
  <2>1. d = e
    BY <1>5 DEF AfterPromote, e, i
  <2>2. Settled(c) => c.role = "president"
    BY <1>5 DEF Settled
  <2> QED
    BY <1>2, <1>3, <2>1, <2>2 DEF Settled
<1> QED
  BY <1>4, <1>5

(* A step of the helper script changes the metadata server, the floating   *)
(* IP address and the history only, and a demotion that leaves a master is *)
(* known to have failed.                                                   *)
LEMMA ScriptLemma ==
  ASSUME NEW c, Typed(c), c.step > 0, NEW d \in ScriptSteps(c)
  PROVE  /\ Typed(d)
         /\ Guarded(c) => Guarded(d)
         /\ Settled(c) => Settled(d)
         /\ d.role = c.role
<1>1. c.command \in {"promote", "demote", "dead"}
  <2>1. c.command \in Command /\ c.step \in StepsLeft
    BY DEF Typed, Controller
  <2>2. c.step # 0
    BY <2>1 DEF StepsLeft
  <2> QED
    BY <2>1, <2>2 DEF Typed, Command
<1>2. 0 \in StepsLeft /\ 1 \in StepsLeft /\ 0 # 2 /\ 1 # 0
  BY DEF StepsLeft
<1>3. CASE c.command = "promote"
  <2>1. d \in PromoteStep(c)
    BY <1>3 DEF ScriptSteps
  <2>2. /\ d \in Controller
        /\ d.role = c.role /\ d.block = c.block /\ d.command = c.command /\ d.force = c.force
    <3>1. c.server \in Server /\ "master" \in Server /\ "dead" \in Server
      BY DEF Typed, Controller, Server
    <3>2. \/ \E s \in Server : d = [c EXCEPT !.step = 1, !.server = s]
          \/ \E s \in Server : d = [Exited(c) EXCEPT !.server = s]
          \/ d = [c EXCEPT !.step = 1]
          \/ d = Exited(c)
          \/ d = [c EXCEPT !.step = 0, !.ip = TRUE]
      BY Zenon, <2>1, <3>1 DEF PromoteStep, ScriptFails, Exited, Typed, Controller
    <3>3. CASE \E s \in Server : d = [c EXCEPT !.step = 1, !.server = s]
      BY Zenon, <1>2, <3>3 DEF Typed, Controller
    <3>4. CASE \E s \in Server : d = [Exited(c) EXCEPT !.server = s]
      BY Zenon, <1>2, <3>4 DEF Typed, Controller, Exited
    <3>5. CASE d = [c EXCEPT !.step = 1] \/ d = Exited(c)
      BY <1>2, <3>5 DEF Typed, Controller, Exited
    <3>6. CASE d = [c EXCEPT !.step = 0, !.ip = TRUE]
      BY Zenon, <1>2, <3>6 DEF Typed, Controller
    <3> QED
      BY Zenon, <3>2, <3>3, <3>4, <3>5, <3>6
  <2> QED
    BY <1>3, <2>2 DEF Typed, Guarded, Settled
<1>4. CASE c.command = "demote"
  <2>1. d \in DemoteStep(c)
    BY <1>4 DEF ScriptSteps
  <2>2. CASE d = [c EXCEPT !.step = 1, !.ip = FALSE]
    <3>1. /\ d \in Controller
          /\ d.role = c.role /\ d.block = c.block /\ d.command = c.command /\ d.step = 1
      BY Zenon, <1>2, <2>2 DEF Typed, Controller
    <3> QED
      BY <1>2, <1>4, <3>1 DEF Typed, Guarded, Settled
  <2>3. CASE d = [c EXCEPT !.step = 0, !.server = "shadow"]
    <3>1. "shadow" \in Server
      BY DEF Server
    <3>2. /\ d \in Controller
          /\ d.role = c.role /\ d.block = c.block /\ d.command = c.command /\ d.server = "shadow"
      BY Zenon, <1>2, <2>3, <3>1 DEF Typed, Controller
    <3> QED
      BY <1>4, <3>2 DEF Typed, Guarded, Settled
  <2>4. CASE \E e \in {[c EXCEPT !.step = 1], Exited(c), [Exited(c) EXCEPT !.server = "dead"]} :
               d = Undone(e)
    <3>1. PICK e \in {[c EXCEPT !.step = 1], Exited(c), [Exited(c) EXCEPT !.server = "dead"]} :
            d = Undone(e)
      BY <2>4
    <3>2. "dead" \in Server
      BY DEF Server
    <3>3. e \in Controller /\ e.role = c.role /\ e.block = c.block /\ e.command = c.command
      BY Zenon, <1>2, <3>1, <3>2 DEF Typed, Controller, Exited
    <3>4. /\ d \in Controller /\ d.undone = TRUE
          /\ d.role = c.role /\ d.block = c.block /\ d.command = c.command
      BY Zenon, <3>1, <3>3, UndoneLemma
    <3> QED
      BY <1>4, <3>4 DEF Typed, Guarded, Settled
  <2> QED
    BY <2>1, <2>2, <2>3, <2>4 DEF DemoteStep, ScriptFails
<1>5. CASE c.command = "dead"
  <2>1. d \in {[c EXCEPT !.step = 0, !.ip = FALSE], Undone(Exited(c))}
    BY <1>5 DEF ScriptSteps, DeadStep, ScriptFails
  <2>2. /\ Exited(c) \in Controller
        /\ Exited(c).role = c.role /\ Exited(c).block = c.block
        /\ Exited(c).command = c.command /\ Exited(c).server = c.server
    BY <1>2 DEF Typed, Controller, Exited
  <2>3. /\ d \in Controller
        /\ d.role = c.role /\ d.block = c.block /\ d.command = c.command /\ d.server = c.server
    <3>1. CASE d = [c EXCEPT !.step = 0, !.ip = FALSE]
      BY Zenon, <1>2, <3>1 DEF Typed, Controller
    <3>2. CASE d = Undone(Exited(c))
      BY Zenon, <2>2, <3>2, UndoneLemma
    <3> QED
      BY <2>1, <3>1, <3>2
  <2> QED
    BY <1>5, <2>3 DEF Typed, Guarded, Settled
<1> QED
  BY <1>1, <1>3, <1>4, <1>5

(* checkCommandStatus. *)
LEMMA AfterCommandLemma ==
  ASSUME NEW c, Typed(c), c.command # "none", c.step = 0, NEW d \in AfterCommand(c)
  PROVE  /\ Typed(d)
         /\ Guarded(c) => Guarded(d)
         /\ (Settled(c) => Settled(d))
         /\ d.role = c.role
<1> DEFINE i == Idle(c)
<1>1. /\ Typed(i)
      /\ i.command = "none" /\ i.step = 0 /\ i.server = c.server /\ i.role = c.role
      /\ i.undone = c.undone
  BY IdleLemma DEF Typed
<1>2. CASE c.command = "demote"
  <2>1. d = [i EXCEPT !.block = FALSE]
    BY <1>2 DEF AfterCommand, Blocked
  <2> HIDE DEF i
  <2>2. /\ d \in Controller
        /\ d.command = "none" /\ d.step = 0 /\ d.server = c.server /\ d.role = c.role
        /\ d.undone = c.undone
    BY Zenon, <1>1, <2>1 DEF Typed, Controller
  <2> QED
    BY <1>2, <2>2 DEF Typed, Guarded, Settled
<1>3. CASE c.command = "promote"
  <2>1. d \in AfterPromote(c)
    BY <1>3 DEF AfterCommand
  <2> QED
    BY <1>3, <2>1, AfterPromoteLemma
<1>4. CASE c.command = "dead"
  <2>1. d = i
    BY <1>4 DEF AfterCommand
  <2> HIDE DEF i
  <2> QED
    BY <1>1, <1>4, <2>1 DEF Typed, Guarded, Settled
<1>5. c.command \in Command
  BY DEF Typed, Controller
<1> QED
  BY <1>2, <1>3, <1>4, <1>5 DEF Command

(* The periodic checks and the timeout of node n. *)
LEMMA ControllerStep ==
  ASSUME NEW n \in Node, Typed(ctl[n]),
         CheckCommandStatus(n) \/ CheckNodeStatus(n) \/ CommandTimeout(n) \/ ScriptStep(n)
  PROVE  \E d : Change(n, d) /\ GoodStep(ctl[n], d)
<1> DEFINE c == ctl[n]
<1>0. Typed(c) /\ c \in Controller
  BY DEF Typed
<1>1. CASE ScriptStep(n)
  <2>1. PICK d \in ScriptSteps(c) : Change(n, d)
    BY Zenon, <1>1 DEF ScriptStep, Becomes, Change
  <2>2. c.step > 0
    BY <1>1 DEF ScriptStep
  <2> HIDE DEF c
  <2>3. Typed(d) /\ (Guarded(c) => Guarded(d)) /\ (Settled(c) => Settled(d)) /\ d.role = c.role
    BY <1>0, <2>2, ScriptLemma
  <2>4. GoodStep(c, d)
    BY <2>3 DEF GoodStep
  <2> QED
    BY <2>1, <2>4 DEF c
<1>2. CASE CheckCommandStatus(n)
  <2>1. PICK d \in AfterCommand(c) : Change(n, d)
    BY Zenon, <1>2 DEF CheckCommandStatus, Becomes, Change
  <2>2. c.command # "none" /\ c.step = 0
    BY <1>2 DEF CheckCommandStatus
  <2> HIDE DEF c
  <2>3. /\ Typed(d) /\ (Guarded(c) => Guarded(d)) /\ d.role = c.role
        /\ (Settled(c) => Settled(d))
    BY <1>0, <2>2, AfterCommandLemma
  <2>4. GoodStep(c, d)
    BY <2>3 DEF GoodStep
  <2> QED
    BY <2>1, <2>4 DEF c
<1>3. CASE CommandTimeout(n)
  <2> DEFINE d == StopSlowCommand(c)
  <2>1. Change(n, d)
    BY <1>3 DEF CommandTimeout, Becomes, Change
  <2>2. c.command # "none"
    BY <1>3 DEF CommandTimeout
  <2> HIDE DEF c
  <2>3. /\ Idle(c) \in Controller
        /\ Idle(c).command = "none" /\ Idle(c).step = 0 /\ Idle(c).role = c.role
    BY <1>0, IdleLemma DEF Typed
  <2>4. /\ d \in Controller /\ d.command = "none" /\ d.step = 0 /\ d.role = c.role
        /\ c.command # "promote" \/ c.force => d.undone = TRUE
    BY Zenon, <2>3, UndoneLemma DEF StopSlowCommand
  <2> HIDE DEF d
  <2>5. GoodStep(c, d)
    BY <2>2, <2>4 DEF GoodStep, Typed, Guarded, Settled
  <2> QED
    BY <2>1, <2>5 DEF c
<1>4. CASE CheckNodeStatus(n) /\ c.server # "dead"
  <2> DEFINE d == FoundAlive(c)
  <2>1. Change(n, d)
    BY <1>4 DEF CheckNodeStatus, Becomes, Change
  <2>2. c.command = "none"
    BY <1>4 DEF CheckNodeStatus
  <2> HIDE DEF c
  <2>3. /\ d \in Controller
        /\ d.role = c.role /\ d.command = c.command /\ d.step = c.step /\ d.server = c.server
        /\ d.undone = c.undone
    BY Zenon, <1>0 DEF FoundAlive, Blocked, Controller, Typed
  <2> HIDE DEF d
  <2>4. GoodStep(c, d)
    BY <1>0, <2>2, <2>3 DEF GoodStep, Typed, Guarded, Settled
  <2> QED
    BY <2>1, <2>4 DEF c
<1>5. CASE CheckNodeStatus(n) /\ c.server = "dead"
  <2> DEFINE e == Blocked(DemoteLeader(c), TRUE)
             f == [e EXCEPT !.alive = FALSE]
  <2>1. PICK d : d \in {RunSlowCommand(f, "dead")} \cup Failed(Undone(f)) /\ Change(n, d)
    BY Zenon, <1>5 DEF CheckNodeStatus, Becomes, Change, FoundDead
  <2>2. c.command = "none"
    BY <1>5 DEF CheckNodeStatus
  <2> HIDE DEF c
  <2>3. /\ e \in Controller
        /\ e.role = "follower" /\ e.block = TRUE /\ e.command = "none" /\ e.step = c.step
        /\ e.server = "dead"
    BY Zenon, <1>0, <1>5, <2>2, StepDownLemma
  <2> HIDE DEF e
  <2>4. /\ f \in Controller
        /\ f.role = "follower" /\ f.block = TRUE /\ f.command = "none" /\ f.step = c.step
        /\ f.server = "dead"
    BY Zenon, <2>3 DEF Controller
  <2>5. "dead" \in Command \ {"none"}
    BY DEF Command
  <2> HIDE DEF f
  <2>6. CASE d = RunSlowCommand(f, "dead")
    <3>1. /\ Typed(d)
          /\ d.command = "dead" /\ d.role = f.role /\ d.block = f.block /\ d.server = f.server
      BY ONLY <2>4, <2>5, <2>6, RunLemma
    <3>2. GoodStep(c, d)
      BY <2>4, <3>1 DEF GoodStep, Guarded, Settled
    <3> QED
      BY <2>1, <3>2 DEF c
  <2>7. CASE d = Undone(f)
    <3>1. /\ d \in Controller /\ d.role = "follower" /\ d.command = "none" /\ d.step = c.step
          /\ d.server = "dead"
      BY Zenon, <2>4, <2>7, UndoneLemma
    <3>2. GoodStep(c, d)
      BY <1>0, <2>2, <3>1 DEF GoodStep, Typed, Guarded, Settled
    <3> QED
      BY <2>1, <3>2 DEF c
  <2> QED
    BY <2>1, <2>6, <2>7 DEF Failed
<1> QED
  BY <1>1, <1>2, <1>3, <1>4, <1>5

(* The steps of uRaft that change the role of node n. *)
LEMMA RoleStep ==
  ASSUME NEW n \in Node, Typed(ctl[n]),
         Stand(n) \/ GiveUp(n) \/ BecomePresident(n) \/ LosePresidency(n)
  PROVE  \E d : Change(n, d) /\ GoodStep(ctl[n], d)
<1> DEFINE c == ctl[n]
<1>0. Typed(c) /\ c \in Controller
  BY DEF Typed
<1>1. CASE Stand(n) \/ GiveUp(n)
  <2>1. PICK r \in {"standing", "follower"} :
          /\ Change(n, [c EXCEPT !.role = r])
          /\ c.role # "president"
          /\ r = "standing" => ~c.block
    BY <1>1 DEF Stand, GiveUp, Becomes, Change
  <2> DEFINE d == [c EXCEPT !.role = r]
  <2> HIDE DEF c
  <2>2. /\ d \in Controller
        /\ d.role = r /\ d.block = c.block /\ d.command = c.command /\ d.step = c.step
        /\ d.force = c.force /\ d.server = c.server /\ d.undone = c.undone
    BY <1>0 DEF Controller, Role
  <2> HIDE DEF d
  <2>3. GoodStep(c, d)
    BY <1>0, <2>1, <2>2 DEF GoodStep, Typed, Guarded, Settled
  <2> QED
    BY <2>1, <2>3 DEF c, d
<1>2. CASE BecomePresident(n)
  <2> DEFINE e == [c EXCEPT !.role = "president"]
  <2>1. PICK d \in NodePromote(e) : Change(n, d)
    BY Zenon, <1>2 DEF BecomePresident, Becomes, Change
  <2>2. c.role = "standing"
    BY <1>2 DEF BecomePresident
  <2> HIDE DEF c
  <2>3. Typed(d) /\ (Guarded(c) => Guarded(d)) /\ (Settled(c) => Settled(d))
    BY <1>0, <2>2, PromoteLemma
  <2>4. GoodStep(c, d)
    BY <2>2, <2>3 DEF GoodStep
  <2> QED
    BY <2>1, <2>4 DEF c
<1>3. CASE LosePresidency(n)
  <2>1. PICK r \in {"standing", "follower"} :
          \E d \in NodeDemote([c EXCEPT !.role = r]) : Change(n, d)
    BY Zenon, <1>3 DEF LosePresidency, Becomes, Change
  <2> DEFINE e == [c EXCEPT !.role = r]
  <2>2. PICK d \in NodeDemote(e) : Change(n, d)
    BY <2>1
  <2>3. c.role = "president"
    BY <1>3 DEF LosePresidency, President
  <2> HIDE DEF c
  <2>4. /\ e \in Controller
        /\ e.block = c.block /\ e.command = c.command /\ e.step = c.step /\ e.server = c.server
        /\ e.undone = c.undone
    BY <1>0 DEF Controller, Role
  <2> HIDE DEF e
  <2>5. Typed(e) /\ (Guarded(c) => Guarded(e))
    BY <1>0, <2>4 DEF Typed, Guarded
  <2>6. Settled(c) => /\ e.command # "dead"
                      /\ Guarded(e)
                      /\ e.command = "demote" /\ e.step = 0 => e.server # "master" \/ e.undone
    BY <2>3, <2>4 DEF Settled, Guarded
  <2>7. /\ Typed(d)
        /\ Guarded(c) => Guarded(d)
        /\ (Settled(c) => Settled(d))
    BY <2>5, <2>6, DemoteLemma
  <2>8. GoodStep(c, d)
    BY <2>3, <2>7 DEF GoodStep
  <2> QED
    BY <2>2, <2>8 DEF c
<1> QED
  BY <1>1, <1>2, <1>3

(* The end of the metadata server and its return as a shadow. *)
LEMMA ServerStep ==
  ASSUME NEW n \in Node, Typed(ctl[n]), ServerDies(n) \/ ServerReturns(n)
  PROVE  \E d : Change(n, d) /\ GoodStep(ctl[n], d)
<1> DEFINE c == ctl[n]
<1>1. PICK s \in {"dead", "shadow"} : Change(n, [c EXCEPT !.server = s])
  BY DEF ServerDies, ServerReturns, Becomes, Change
<1> DEFINE d == [c EXCEPT !.server = s]
<1>2. Typed(c)
  OBVIOUS
<1> HIDE DEF c
<1>3. /\ d \in Controller
      /\ d.role = c.role /\ d.block = c.block /\ d.command = c.command /\ d.step = c.step
      /\ d.force = c.force /\ d.server = s /\ d.undone = c.undone
  BY <1>2 DEF Typed, Controller, Server
<1> HIDE DEF d
<1>4. GoodStep(c, d)
  BY <1>2, <1>3 DEF GoodStep, Typed, Guarded, Settled
<1> QED
  BY <1>1, <1>4 DEF c, d

(* Every step is a good step of one node. *)
LEMMA NextStep ==
  ASSUME TypeOK, Next
  PROVE  \E n \in Node, d \in Controller : Change(n, d) /\ GoodStep(ctl[n], d)
<1>1. PICK n \in Node :
        \/ CheckCommandStatus(n) \/ CheckNodeStatus(n) \/ CommandTimeout(n) \/ ScriptStep(n)
        \/ Stand(n) \/ GiveUp(n) \/ BecomePresident(n) \/ LosePresidency(n)
        \/ ServerDies(n) \/ ServerReturns(n)
  BY DEF Next
<1>2. Typed(ctl[n])
  BY DEF TypeOK, Typed
<1> QED
  BY <1>1, <1>2, ControllerStep, RoleStep, ServerStep DEF GoodStep, Typed

(* The constructor and init() leave every controller in order. *)
LEMMA StartLemma ==
  ASSUME NEW s \in {"shadow", "dead"}
  PROVE  Typed(Started(s)) /\ Guarded(Started(s)) /\ Settled(Started(s))
<1>1. 0 \in StepsLeft
  BY DEF StepsLeft
<1> QED
  BY <1>1 DEF Typed, Guarded, Settled, Started, Controller, Role, Command, Server

(* ... in every initial state. *)
LEMMA InitLemma ==
  ASSUME Init
  PROVE  /\ ctl \in [Node -> Controller]
         /\ \A n \in Node : Typed(ctl[n]) /\ Guarded(ctl[n]) /\ Settled(ctl[n])
<1>1. ctl \in [Node -> {Started(s) : s \in {"shadow", "dead"}}]
  BY DEF Init
<1>2. \A n \in Node : Typed(ctl[n]) /\ Guarded(ctl[n]) /\ Settled(ctl[n])
  BY <1>1, StartLemma
<1> QED
  BY <1>1, <1>2 DEF Typed

(* Every controller stays well-formed (uraftcontroller.cc: command_type_   *)
(* and command_pid_ change together).                                      *)
THEOREM ControllerTypeCorrect == Spec => []TypeOK
<1>1. Init => TypeOK
  BY InitLemma, FaultSetsAssumption DEF Init, TypeOK, Typed
<1>2. TypeOK /\ [Next]_vars => TypeOK'
  <2> SUFFICES ASSUME TypeOK, [Next]_vars PROVE TypeOK'
    OBVIOUS
  <2>1. CASE UNCHANGED vars
    BY <2>1 DEF vars, TypeOK
  <2>2. CASE Next
    <3>1. PICK n \in Node, d \in Controller : Change(n, d) /\ GoodStep(ctl[n], d)
      BY <2>2, NextStep
    <3> QED
      BY <3>1 DEF TypeOK, GoodStep, Typed, Change
  <2> QED
    BY <2>1, <2>2
<1> QED
  BY <1>1, <1>2, PTL DEF Spec

(* A node starts no election while its metadata server is being switched   *)
(* off (nodeDemote, checkNodeStatus), whatever goes wrong.                 *)
THEOREM ElectsOnlyReady == Spec => StandsOnlyReady
<1> DEFINE Inv == TypeOK /\ \A n \in Node : Guarded(ctl[n])
           Ready == \A n \in Node :
                      ctl[n].role = "follower" /\ ctl'[n].role = "standing" =>
                        ctl[n].command \notin {"demote", "dead"}
<1>1. Init => Inv
  BY InitLemma, FaultSetsAssumption DEF Init, TypeOK, Typed
<1>2. Inv /\ [Next]_vars => Inv' /\ [Ready]_vars
  <2> SUFFICES ASSUME Inv, [Next]_vars PROVE Inv' /\ [Ready]_vars
    OBVIOUS
  <2>1. CASE UNCHANGED vars
    BY <2>1 DEF vars, TypeOK
  <2>2. CASE Next
    <3>1. PICK n \in Node, d \in Controller : Change(n, d) /\ GoodStep(ctl[n], d)
      BY <2>2, NextStep
    <3>2. Inv'
      BY <3>1 DEF TypeOK, GoodStep, Typed, Change
    <3>3. Ready
      BY <3>1 DEF TypeOK, GoodStep, Guarded, Change
    <3> QED
      BY <3>2, <3>3
  <2> QED
    BY <2>1, <2>2
<1> QED
  BY <1>1, <1>2, PTL DEF Spec, StandsOnlyReady

(* Whatever goes wrong, the metadata server of a node that is not the      *)
(* president is a master only while a command runs after which it is       *)
(* demoted (nodeDemote, force_demote_), or when the node's own last        *)
(* switch-off was not started, was killed or failed.                       *)
THEOREM ProperMode == Spec => []NoStrayMaster
<1> DEFINE Inv == TypeOK /\ SwitchInv
<1>1. Init => Inv
  BY InitLemma, FaultSetsAssumption DEF Init, TypeOK, Typed, SwitchInv
<1>2. Inv /\ [Next]_vars => Inv'
  <2> SUFFICES ASSUME Inv, [Next]_vars PROVE Inv'
    OBVIOUS
  <2>1. CASE UNCHANGED vars
    BY <2>1 DEF vars, TypeOK, SwitchInv
  <2>2. CASE Next
    <3>1. PICK n \in Node, d \in Controller : Change(n, d) /\ GoodStep(ctl[n], d)
      BY <2>2, NextStep
    <3>2. TypeOK'
      BY <3>1 DEF TypeOK, GoodStep, Typed, Change
    <3>3. SwitchInv'
      BY <3>1 DEF TypeOK, GoodStep, SwitchInv, Change
    <3> QED
      BY <3>2, <3>3
  <2> QED
    BY <2>1, <2>2
<1>3. Inv => NoStrayMaster
  <2> SUFFICES ASSUME Inv, NEW n \in Node, ctl[n].server = "master", ~President(n)
               PROVE  \/ ctl[n].command = "demote"
                      \/ ctl[n].command = "promote" /\ ctl[n].force
                      \/ ctl[n].undone
    BY DEF NoStrayMaster
  <2>1. ctl[n].command \in Command /\ Settled(ctl[n])
    BY DEF TypeOK, Controller, SwitchInv
  <2> QED
    BY <2>1 DEF Settled, Command, President
<1> QED
  BY <1>1, <1>2, <1>3, PTL DEF Spec
=============================================================================
