--------------------------- MODULE ChunkRegistry ---------------------------
(***************************************************************************)
(* One chunk in the master's chunk registry (src/master/chunks.cc), the    *)
(* connections to the chunkservers that hold its copies                    *)
(* (src/master/matocsserv.cc, src/chunkserver/masterconn.cc), the jobs the *)
(* chunkservers run for the master (src/chunkserver/bgjobs.cc) and the     *)
(* files on their disks.                                                   *)
(*                                                                         *)
(* The master never asks a copy what it contains.  It tells an up to date  *)
(* copy from an old one by the chunk's version alone: before a client may  *)
(* write, every copy that could have missed an earlier write must be left  *)
(* behind with an older version.  The module follows the versions through  *)
(* operations that are interrupted by broken connections, answers that are *)
(* lost, servers that come back, and the loop that copies, moves and       *)
(* removes parts.                                                          *)
(*                                                                         *)
(* Abstractions.  The chunk belongs to one file whose goal asks for        *)
(* `goal' whole copies, so that a chunk is lost when no part of it is      *)
(* valid; duplicating a shared chunk is not modelled.  The flag            *)
(* "to delete" of a part (TDVALID, TDBUSY) is left out: it matters to the  *)
(* choice of a copy to move, not to validity.  The contents of a copy are  *)
(* the number of the last modification it took part in.                    *)
(***************************************************************************)
EXTENDS Naturals, FiniteSets, Sequences

CONSTANTS
    Server,       \* the chunkservers
    Goals,        \* the numbers of copies a goal may ask for
    FirstGoals,   \* those of them that a new chunk may have
    RedundancyLevel, \* REDUNDANCY_LEVEL: copies that may be lost after a write
    FaultSets,    \* the sets of additional faults to consider, see FaultKind
    MaxRequests,  \* bound: requests of clients to write or truncate
    MaxWrites,    \* bound: modifications that have been begun when a client writes
    MaxEvents,    \* bound: broken connections, errors, damages, changes of the goal
    MaxDel,       \* TmpMaxDel: deletions a server may have outstanding
    MaxJobs       \* bound: jobs on the chunk that one server runs at a time

\* "early": a server is back before the zombie loop has seen the chunk.
\* "straggler": a server is back while a job of its last connection runs.
\* "error": a job of a server meets an I/O error.
\* "torn": such an error leaves a copy with its new version, not truncated.
\* "damage": a server reports its copy as damaged.
FaultKind == {"early", "straggler", "error", "torn", "damage"}

ASSUME ChunkAssumption ==
    /\ IsFiniteSet(Server)
    /\ Goals \subseteq Nat \ {0} /\ FirstGoals \subseteq Goals
    /\ FaultSets \subseteq SUBSET FaultKind
    /\ {RedundancyLevel, MaxRequests, MaxWrites, MaxEvents, MaxDel, MaxJobs} \subseteq Nat

VARIABLES
    c,         \* the chunk, the commands sent for it, the client that uses it
    entry,     \* entry[s]: the master's side of the connection to s
    linked,    \* linked[s]: s takes its connection to the master to be up
    answers,   \* answers[s]: messages from s that the master has not read
    running,   \* running[s]: the jobs that workers of s have begun
    disk,      \* disk[s]: version and contents of the copy of s
    zombies,   \* the state of the zombie loop
    spent,     \* how much of each bound has been used
    faults     \* the additional faults of this behaviour

vars == <<c, entry, linked, answers, running, disk, zombies, spent, faults>>

-----------------------------------------------------------------------------
(* Parts of the chunk *)

State == {"none", "INVALID", "DEL", "BUSY", "VALID"}
Operation == {"NONE", "CREATE", "SET_VERSION", "TRUNCATE"}

NoPart == [state |-> "none", version |-> 0]

ValidServers(m) == {s \in Server : m.parts[s].state \in {"BUSY", "VALID"}}
BusyServers(m) == {s \in Server : m.parts[s].state = "BUSY"}
IsWritable(m) == ValidServers(m) # {}

Command(op, old, new) ==
    [op |-> op, old |-> old, new |-> new, data |-> 0, sources |-> {}]

\* What the master writes to a connection the server has given up is lost.
Send(out, S, cmd) ==
    [s \in Server |-> IF s \in S /\ linked[s] THEN Append(out[s], cmd) ELSE out[s]]

IdleClient == [state |-> "idle", version |-> 0, servers |-> {}]

Writer(m) == [state |-> "writing", version |-> m.version, servers |-> ValidServers(m)]

\* The end of an operation is reported to the client that waits for it, if
\* there still is one.  A failed write and every truncation are unlocked.
ChunkStatus(m, ok) ==
    CASE m.client.state = "waiting" /\ ok -> [m EXCEPT !.client = Writer(m)]
      [] m.client.state = "truncating" /\ ok ->
            [m EXCEPT !.client = IdleClient, !.locked = FALSE, !.acked = m.begun]
      [] m.client.state \in {"waiting", "truncating"} /\ ~ok ->
            [m EXCEPT !.client = IdleClient, !.locked = FALSE]
      [] OTHER -> m

\* Every valid part is told to go from the chunk's version to the next one.
Raise(m, op, cmd) ==
    [m EXCEPT !.parts = [s \in Server |->
                            IF s \in ValidServers(m)
                            THEN [state |-> "BUSY", version |-> m.version + 1]
                            ELSE m.parts[s]],
              !.out = Send(m.out, ValidServers(m), cmd),
              !.interrupted = FALSE,
              !.operation = op,
              !.version = m.version + 1]

SetVersion(m) == Command("setversion", m.version, m.version + 1)

EmergencyIncreaseVersion(m) == Raise(m, "SET_VERSION", SetVersion(m))

Finished(m) ==
    [ChunkStatus(m, TRUE) EXCEPT !.operation = "NONE", !.needverincrease = FALSE]

Abandoned(m) == [ChunkStatus(m, FALSE) EXCEPT !.operation = "NONE"]

\* Mutant: the next write does not raise the version.
HandleDisconnectedCopies_KeepsVersion(m) ==
    LET lost == {s \in Server : m.parts[s] # NoPart /\ ~entry[s].up}
        rest == [m EXCEPT !.parts = [s \in Server |->
                                        IF s \in lost THEN NoPart ELSE m.parts[s]]]
    IN  CASE lost = {} \/ m.operation = "NONE" -> rest
          [] lost # {} /\ m.operation # "NONE" /\ BusyServers(rest) # {} ->
                [rest EXCEPT !.interrupted = TRUE]
          [] OTHER -> IF IsWritable(rest) THEN EmergencyIncreaseVersion(rest)
                                          ELSE Abandoned(rest)

\* Mutant: an answer is awaited even if no part is busy any more.
HandleDisconnectedCopies_Waits(m) ==
    LET lost == {s \in Server : m.parts[s] # NoPart /\ ~entry[s].up}
    IN  IF lost = {} THEN m
        ELSE [m EXCEPT !.parts = [s \in Server |->
                                    IF s \in lost THEN NoPart ELSE m.parts[s]],
                       !.needverincrease = TRUE,
                       !.interrupted = m.operation # "NONE"]

\* Parts on servers without a connection are forgotten; an operation that
\* they took part in is repeated with a newer version.
HandleDisconnectedCopies(m) ==
    LET lost == {s \in Server : m.parts[s] # NoPart /\ ~entry[s].up}
        rest == [m EXCEPT !.parts = [s \in Server |->
                                        IF s \in lost THEN NoPart ELSE m.parts[s]],
                          !.needverincrease = TRUE]
    IN  CASE lost = {} -> m
          [] lost # {} /\ m.operation = "NONE" -> rest
          [] lost # {} /\ m.operation # "NONE" /\ BusyServers(rest) # {} ->
                [rest EXCEPT !.interrupted = TRUE]
          [] lost # {} /\ m.operation # "NONE" /\ BusyServers(rest) = {} ->
                IF IsWritable(rest) THEN EmergencyIncreaseVersion(rest)
                                    ELSE Abandoned(rest)

\* chunk_find: the last chunk found is remembered, but not across a
\* disconnection, so the chunk it returns has been cleaned.
Find == HandleDisconnectedCopies(c)

SetPart(m, s, state, version) ==
    [m EXCEPT !.parts[s] = [state |-> state, version |-> version]]

-----------------------------------------------------------------------------
(* What the master does with the messages of a chunkserver *)

\* Mutant: the first answer ends the operation.
OperationStatus_First(m, s, ok) ==
    IF m.parts[s].state = "BUSY" /\ ok
    THEN Finished(SetPart(m, s, "VALID", m.parts[s].version))
    ELSE Abandoned(SetPart(m, s, "INVALID", 0))

\* Mutant: the status in the answer is not looked at.
OperationStatus_AnyStatus(m, s, ok) ==
    LET heard == IF m.parts[s].state = "BUSY"
                 THEN SetPart(m, s, "VALID", m.parts[s].version) ELSE m
    IN  CASE BusyServers(heard) # {} -> heard
          [] BusyServers(heard) = {} /\ ~IsWritable(heard) -> Abandoned(heard)
          [] BusyServers(heard) = {} /\ IsWritable(heard) /\ heard.interrupted ->
                EmergencyIncreaseVersion(heard)
          [] OTHER -> Finished(heard)

\* The answer to a create, set version or truncate command.
OperationStatus(m, s, ok) ==
    LET heard == CASE m.parts[s] = NoPart -> m
                   [] m.parts[s] # NoPart /\ ~ok ->
                        [SetPart(m, s, "INVALID", 0) EXCEPT !.interrupted = TRUE]
                   [] m.parts[s].state = "BUSY" /\ ok ->
                        SetPart(m, s, "VALID", m.parts[s].version)
                   [] OTHER -> m
    IN  CASE BusyServers(heard) # {} -> heard
          [] BusyServers(heard) = {} /\ ~IsWritable(heard) -> Abandoned(heard)
          [] BusyServers(heard) = {} /\ IsWritable(heard) /\ heard.interrupted ->
                EmergencyIncreaseVersion(heard)
          [] OTHER -> Finished(heard)

\* Mutant: every copy that is reported is taken to be valid.
ServerHasChunk_AnyVersion(m, s, version) ==
    IF m.parts[s] = NoPart THEN SetPart(m, s, "VALID", version) ELSE m

\* A server that registers reports the version of its copy.
ServerHasChunk(m, s, version) ==
    LET part == m.parts[s]
    IN  CASE part = NoPart ->
                SetPart(m, s, IF version = m.version THEN "VALID" ELSE "INVALID", version)
          [] part.state = "DEL" -> SetPart(m, s, "INVALID", 0)
          [] part.state = "INVALID" -> m
          [] part.state \in {"BUSY", "VALID"} /\ version = m.version ->
                SetPart(m, s, part.state, version)
          [] part.state \in {"BUSY", "VALID"} /\ version # m.version ->
                SetPart(m, s, "INVALID", version)

ChunkDamaged(m, s) ==
    [SetPart(m, s, "INVALID", 0) EXCEPT !.needverincrease = TRUE]

GotDeleteStatus(m, s) == [m EXCEPT !.parts[s] = NoPart]

\* A replica of an old version, or one that arrives while a client holds
\* the chunk, is recorded as invalid.
GotReplicateStatus(m, s, version, ok) ==
    LET part == m.parts[s]
    IN  CASE ~ok -> m
          [] ok /\ part = NoPart ->
                SetPart(m, s, IF m.locked \/ version # m.version THEN "INVALID" ELSE "VALID",
                        version)
          [] ok /\ part.state = "VALID" /\ version # m.version ->
                SetPart(m, s, "INVALID", version)
          [] OTHER -> m

Received(s, msg) ==
    CASE msg.kind = "operation" -> OperationStatus(Find, s, msg.ok)
      [] msg.kind = "has" -> ServerHasChunk(Find, s, msg.version)
      [] msg.kind = "damaged" -> ChunkDamaged(Find, s)
      [] msg.kind = "deleted" -> GotDeleteStatus(Find, s)
      [] msg.kind = "replicated" -> GotReplicateStatus(Find, s, msg.version, msg.ok)

\* A server's entry also counts its outstanding deletions and replications.
Counted(e, msg) ==
    CASE msg.kind = "deleted" -> [e EXCEPT !.deletions = @ - 1]
      [] msg.kind = "replicated" -> [e EXCEPT !.replicating = FALSE]
      [] OTHER -> e

MasterReceives(s) ==
    /\ entry[s].up
    /\ answers[s] # <<>>
    /\ c' = Received(s, Head(answers[s]))
    /\ entry' = [entry EXCEPT ![s] = Counted(@, Head(answers[s]))]
    /\ answers' = [answers EXCEPT ![s] = Tail(@)]
    /\ UNCHANGED <<linked, running, disk, zombies, spent, faults>>

-----------------------------------------------------------------------------
(* Connections *)

Prefixes(q) == {SubSeq(q, 1, n) : n \in 0 .. Len(q)}

\* Only the break of a connection that both sides hold counts.
BreakBudget(s) ==
    /\ entry[s].up /\ linked[s] => spent.events < MaxEvents
    /\ spent' = IF entry[s].up /\ linked[s]
                THEN [spent EXCEPT !.events = @ + 1] ELSE spent

Unregistered == [up |-> FALSE, deletions |-> 0, replicating |-> FALSE]
Registered == [Unregistered EXCEPT !.up = TRUE]

\* Mutant: one round of the zombie loop is asked for.
MasterDisconnects_OneRound(s) ==
    /\ entry[s].up
    /\ BreakBudget(s)
    /\ entry' = [entry EXCEPT ![s] = Unregistered]
    /\ answers' = [answers EXCEPT ![s] = <<>>]
    /\ \E q \in Prefixes(c.out[s]) : c' = [c EXCEPT !.out[s] = q]
    /\ zombies' = [zombies EXCEPT !.count = 1]
    /\ UNCHANGED <<linked, running, disk, faults>>

\* The master closes a connection.  What it has written may still be read.
MasterDisconnects(s) ==
    /\ entry[s].up
    /\ BreakBudget(s)
    /\ entry' = [entry EXCEPT ![s] = Unregistered]
    /\ answers' = [answers EXCEPT ![s] = <<>>]
    /\ \E q \in Prefixes(c.out[s]) : c' = [c EXCEPT !.out[s] = q]
    /\ zombies' = [zombies EXCEPT !.count = 2]
    /\ UNCHANGED <<linked, running, disk, faults>>

\* A chunkserver closes its connection: the jobs that wait are disabled,
\* those that run are finished, but nobody is told of their results.
ServerDisconnects(s) ==
    /\ linked[s]
    /\ BreakBudget(s)
    /\ linked' = [linked EXCEPT ![s] = FALSE]
    /\ c' = [c EXCEPT !.out[s] = <<>>]
    /\ running' = [running EXCEPT ![s] = {[j EXCEPT !.wanted = FALSE] : j \in @}]
    /\ \E q \in Prefixes(answers[s]) : answers' = [answers EXCEPT ![s] = q]
    /\ UNCHANGED <<entry, disk, zombies, faults>>

\* A copy that is being replicated is locked until its version is set: the
\* other jobs, and a registration, wait for it.
Locked(jobs) == \E j \in jobs : j.read

\* The master refuses a server it takes to be connected, so a server
\* registers when both sides have given up the last connection.
ServerRegisters(s) ==
    /\ ~entry[s].up /\ ~linked[s]
    /\ c.parts[s] = NoPart \/ "early" \in faults
    /\ running[s] = {} \/ ("straggler" \in faults /\ ~Locked(running[s]))
    /\ entry' = [entry EXCEPT ![s] = Registered]
    /\ linked' = [linked EXCEPT ![s] = TRUE]
    /\ c' = [c EXCEPT !.out[s] = <<>>]
    /\ answers' = [answers EXCEPT ![s] =
                     IF disk[s].version = 0 THEN <<>>
                     ELSE <<[kind |-> "has", version |-> disk[s].version, ok |-> TRUE]>>]
    /\ UNCHANGED <<running, disk, zombies, spent, faults>>

\* The zombie loop goes over all chunks; with one chunk it either has this
\* chunk ahead of it or is at the end of a round.
ZombieLoop ==
    /\ zombies.count > 0
    /\ IF zombies.ahead
       THEN /\ c' = HandleDisconnectedCopies(c)
            /\ zombies' = [zombies EXCEPT !.ahead = FALSE]
       ELSE /\ zombies' = [count |-> zombies.count - 1, ahead |-> TRUE]
            /\ c' = c
    /\ UNCHANGED <<entry, linked, answers, running, disk, spent, faults>>

-----------------------------------------------------------------------------
(* Chunkservers *)

\* A worker takes the first command and turns it into a running job.  A job
\* to replicate has read nothing yet.
StartJob(s) ==
    /\ linked[s]
    /\ c.out[s] # <<>>
    /\ Cardinality(running[s]) < MaxJobs
    /\ running' = [running EXCEPT ![s] =
                     @ \union {[cmd |-> Head(c.out[s]), wanted |-> TRUE, read |-> FALSE]}]
    /\ c' = [c EXCEPT !.out[s] = Tail(@)]
    /\ UNCHANGED <<entry, linked, answers, disk, zombies, spent, faults>>

\* The job to replicate makes an empty copy and reads a source; a source of
\* another version refuses.
ReadSource(s) ==
    \E j \in running[s] : \E src \in j.cmd.sources :
        /\ j.cmd.op = "replicate" /\ ~Locked(running[s])
        /\ disk[s].version = 0
        /\ disk[src].version = j.cmd.new
        /\ running' = [running EXCEPT ![s] = (@ \ {j}) \union
                         {[j EXCEPT !.read = TRUE, !.cmd.data = disk[src].data]}]
        /\ UNCHANGED <<c, entry, linked, answers, disk, zombies, spent, faults>>

\* hdd_chunkop and ChunkFileCreator: can the job be done, and what is the
\* copy afterwards?
Possible(copy, j) ==
    CASE j.cmd.op = "create" -> copy.version = 0
      [] j.cmd.op \in {"setversion", "truncate"} -> copy.version = j.cmd.old /\ copy.version # 0
      [] j.cmd.op = "delete" -> copy.version # 0
      [] j.cmd.op = "replicate" -> copy.version = 0 /\ j.read

Result(copy, j) ==
    CASE j.cmd.op \in {"create", "setversion"} -> [copy EXCEPT !.version = j.cmd.new]
      [] j.cmd.op \in {"truncate", "replicate"} -> [version |-> j.cmd.new, data |-> j.cmd.data]
      [] j.cmd.op = "delete" -> [version |-> 0, data |-> 0]

\* The job is refused: the copy is there or is not, has another version, or
\* no source of a replica has the right one.
Refused(s, j) ==
    IF j.cmd.op = "replicate"
    THEN disk[s].version # 0 \/ \A src \in j.cmd.sources : disk[src].version # j.cmd.new
    ELSE ~Possible(disk[s], j)

\* What an I/O error leaves of the copy.  The new version is set first, and
\* stays if the error is met after that, perhaps before the truncation.
\* A copy that could not be created or replicated is removed again.
LeftByError(copy, j) ==
    {copy} \union
    IF ~(j.cmd.op \in {"setversion", "truncate"} /\ Possible(copy, j)) THEN {}
    ELSE {Result(copy, j)} \union
         (IF "torn" \in faults THEN {[copy EXCEPT !.version = j.cmd.new]} ELSE {})

\* A job that is refused fails, and any job may meet an I/O error.  (An
\* error that is also reported as damage is this step and ReportDamaged.)
Fails(s, j) ==
    \/ Refused(s, j) /\ UNCHANGED <<disk, spent>>
    \/ /\ "error" \in faults /\ spent.events < MaxEvents
       /\ \E copy \in LeftByError(disk[s], j) : disk' = [disk EXCEPT ![s] = copy]
       /\ spent' = [spent EXCEPT !.events = @ + 1]

Succeeds(s, j) ==
    /\ Possible(disk[s], j)
    /\ disk' = [disk EXCEPT ![s] = Result(@, j)]
    /\ spent' = spent

Kind(op) == CASE op = "delete" -> "deleted"
              [] op = "replicate" -> "replicated"
              [] OTHER -> "operation"

\* The answer is sent unless the connection of the command is gone.
Answer(s, j, ok) ==
    answers' = IF j.wanted /\ entry[s].up
               THEN [answers EXCEPT ![s] = Append(@, [kind |-> Kind(j.cmd.op),
                                                      version |-> j.cmd.new, ok |-> ok])]
               ELSE answers

FinishJob(s) ==
    \E j \in running[s], ok \in BOOLEAN :
        /\ ~Locked(running[s] \ {j})
        /\ IF ok THEN Succeeds(s, j) ELSE Fails(s, j)
        /\ Answer(s, j, ok)
        /\ running' = [running EXCEPT ![s] = @ \ {j}]
        /\ UNCHANGED <<c, entry, linked, zombies, faults>>

\* The disk tester, a read or a truncation finds an error.  The copy stays on
\* the disk.
ReportDamaged(s) ==
    /\ "damage" \in faults /\ spent.events < MaxEvents
    /\ linked[s] /\ entry[s].up /\ disk[s].version # 0
    /\ spent' = [spent EXCEPT !.events = @ + 1]
    /\ answers' = [answers EXCEPT ![s] =
                     Append(@, [kind |-> "damaged", version |-> 0, ok |-> TRUE])]
    /\ UNCHANGED <<c, entry, linked, running, disk, zombies, faults>>

-----------------------------------------------------------------------------
(* Clients *)

\* A client that waits for nothing may ask to write: it has the lock, or
\* nobody has.
MayAsk(m) ==
    /\ m.client.state = "writing" \/ (m.client.state = "idle" /\ ~m.locked)
    /\ IsWritable(m) /\ m.operation = "NONE"

\* Enough parts are known, valid or not, for the goal or for the level of
\* redundancy that is asked for, whichever is less.
IsSafeEnoughToWrite(parts, goal) ==
    Cardinality({s \in Server : parts[s] # NoPart}) > RedundancyLevel
    \/ Cardinality({s \in Server : parts[s] # NoPart}) >= goal

\* The client writes at once unless the version has to be raised.
MultiModify(m) ==
    IF m.needverincrease
    THEN [Raise(m, "SET_VERSION", SetVersion(m)) EXCEPT
             !.locked = TRUE, !.client = [IdleClient EXCEPT !.state = "waiting"]]
    ELSE [m EXCEPT !.locked = TRUE, !.client = Writer(m)]

MultiTruncate(m) ==
    LET cmd == [Command("truncate", m.version, m.version + 1) EXCEPT !.data = m.begun + 1]
    IN  [Raise(m, "TRUNCATE", cmd) EXCEPT
            !.locked = TRUE, !.begun = m.begun + 1,
            !.client = [IdleClient EXCEPT !.state = "truncating"]]

ClientAsks ==
    /\ spent.requests < MaxRequests
    /\ MayAsk(Find)
    /\ \/ IsSafeEnoughToWrite(Find.parts, Find.goal) /\ c' = MultiModify(Find)
       \/ Find.client.state = "idle" /\ c' = MultiTruncate(Find)
    /\ spent' = [spent EXCEPT !.requests = @ + 1]
    /\ UNCHANGED <<entry, linked, answers, running, disk, zombies, faults>>

\* A write is confirmed when every copy of the list the client was given
\* has taken it; each of them checks the version.
ClientWrites ==
    /\ c.client.state = "writing"
    /\ \A s \in c.client.servers : disk[s].version = c.client.version
    /\ c.begun < MaxWrites
    /\ disk' = [s \in Server |-> IF s \in c.client.servers
                                THEN [disk[s] EXCEPT !.data = c.begun + 1] ELSE disk[s]]
    /\ c' = [c EXCEPT !.begun = @ + 1, !.acked = c.begun + 1]
    /\ UNCHANGED <<entry, linked, answers, running, zombies, spent, faults>>

\* The client has written and unlocks the chunk.
WriteChunkEnd(m) == [m EXCEPT !.client = IdleClient, !.locked = FALSE]

\* The client ends its write, or goes away; its lock then runs out.
ClientLeaves ==
    /\ \/ c.client.state = "writing" /\ c' = WriteChunkEnd(Find)
       \/ c.client.state # "idle" /\ c' = [c EXCEPT !.client = IdleClient]
       \/ c.client.state = "idle" /\ c.locked /\ c' = [c EXCEPT !.locked = FALSE]
    /\ UNCHANGED <<entry, linked, answers, running, disk, zombies, spent, faults>>

-----------------------------------------------------------------------------
(* The loop that looks after the chunk: ChunkWorker::doChunkJobs *)

InvalidServers(m) == {s \in Server : m.parts[s].state \in {"INVALID", "DEL"}}

\* Mutant: one deletion too many is sent.
Deletable_AtLimit(S) == {s \in S : entry[s].deletions <= MaxDel}

Deletable(S) == {s \in S : entry[s].deletions < MaxDel}

\* The parts on S are to be deleted, whatever their version.
Delete(m, S) ==
    [m EXCEPT !.parts = [s \in Server |-> IF s \in S THEN [m.parts[s] EXCEPT !.state = "DEL"]
                                                     ELSE m.parts[s]],
              !.out = Send(m.out, S, Command("delete", 0, 0))]

CountDeletions(S) ==
    [s \in Server |-> IF s \in S THEN [entry[s] EXCEPT !.deletions = @ + 1] ELSE entry[s]]

\* No part is replicated or removed during an operation or under a lock.
Quiet(m) ==
    m.operation = "NONE" /\ ~m.locked /\ BusyServers(m) = {} /\ IsWritable(m)

TryReplication(m, d) ==
    [m EXCEPT !.out = Send(m.out, {d}, [Command("replicate", 0, m.version) EXCEPT
                                            !.sources = ValidServers(m)]),
              !.needverincrease = TRUE]

RemoveUnneededPart(m, s) == [Delete(m, {s}) EXCEPT !.needverincrease = TRUE]

\* Invalid parts are deleted first, unless nothing else is left.  Then a
\* missing copy is made, or a copy too many removed, or a copy moved: to
\* move a copy is to replicate it and to remove one copy afterwards.
ChunkJobs ==
    LET lost == ~IsWritable(Find) /\ InvalidServers(Find) # {}
        bad == IF lost THEN {} ELSE Deletable(InvalidServers(Find))
        m == Delete(Find, bad)
        count == Cardinality(ValidServers(m))
        removable == IF count > m.goal THEN Deletable(ValidServers(m)) ELSE {}
    IN  /\ \/ /\ c' = m
              /\ entry' = CountDeletions(bad)
           \/ \E d \in Server :
                 /\ Quiet(m) /\ removable = {}
                 /\ entry[d].up /\ ~entry[d].replicating /\ m.parts[d] = NoPart
                 /\ c' = TryReplication(m, d)
                 /\ entry' = [CountDeletions(bad) EXCEPT ![d].replicating = TRUE]
           \/ \E s \in removable :
                 /\ Quiet(m)
                 /\ c' = RemoveUnneededPart(m, s)
                 /\ entry' = CountDeletions(bad \union {s})
        /\ UNCHANGED <<linked, answers, running, disk, zombies, spent, faults>>

\* The goal of the file is changed.
ChangeFile(goal) ==
    /\ goal # c.goal
    /\ spent.events < MaxEvents
    /\ c' = [Find EXCEPT !.goal = goal]
    /\ spent' = [spent EXCEPT !.events = @ + 1]
    /\ UNCHANGED <<entry, linked, answers, running, disk, zombies, faults>>

-----------------------------------------------------------------------------
\* The chunk has just been created for a client (chunk_multi_modify): the
\* command to create a copy is on its way to some of the servers.
Created(S, goal) ==
    [version |-> 1, operation |-> "CREATE", needverincrease |-> TRUE,
     interrupted |-> FALSE, goal |-> goal, locked |-> TRUE,
     parts |-> [s \in Server |-> IF s \in S THEN [state |-> "BUSY", version |-> 1] ELSE NoPart],
     out |-> [s \in Server |-> IF s \in S THEN <<Command("create", 0, 1)>> ELSE <<>>],
     client |-> [IdleClient EXCEPT !.state = "waiting"],
     begun |-> 0, acked |-> 0]

Init ==
    /\ \E S \in SUBSET Server \ {{}}, goal \in FirstGoals :
          /\ c = Created(S, goal)
          /\ Cardinality(S) <= goal /\ IsSafeEnoughToWrite(c.parts, goal)
    /\ entry = [s \in Server |-> Registered]
    /\ linked = [s \in Server |-> TRUE]
    /\ answers = [s \in Server |-> <<>>]
    /\ running = [s \in Server |-> {}]
    /\ disk = [s \in Server |-> [version |-> 0, data |-> 0]]
    /\ zombies = [count |-> 0, ahead |-> FALSE]
    /\ spent = [requests |-> 0, events |-> 0]
    /\ faults \in FaultSets

Next ==
    \/ \E s \in Server :
          \/ MasterReceives(s) \/ MasterDisconnects(s)
          \/ ServerDisconnects(s) \/ ServerRegisters(s)
          \/ StartJob(s) \/ ReadSource(s) \/ FinishJob(s) \/ ReportDamaged(s)
    \/ ZombieLoop
    \/ ClientAsks \/ ClientWrites \/ ClientLeaves
    \/ ChunkJobs
    \/ \E goal \in Goals : ChangeFile(goal)

\* Messages are read, jobs finished, the zombie loop runs while there is
\* something to do, and each side notices that the other has gone.
Fairness ==
    /\ \A s \in Server :
          /\ WF_vars(MasterReceives(s)) /\ WF_vars(StartJob(s))
          /\ WF_vars(ReadSource(s)) /\ WF_vars(FinishJob(s))
          /\ WF_vars(~linked[s] /\ MasterDisconnects(s))
          /\ WF_vars(~entry[s].up /\ ServerDisconnects(s))
    /\ WF_vars(ZombieLoop)

Spec == Init /\ [][Next]_vars /\ Fairness

-----------------------------------------------------------------------------
(* Properties *)

Version == 0 .. 1 + MaxRequests + 2 * MaxEvents
Contents == 0 .. MaxRequests + MaxWrites

\* Types of the registry, the connections and the disks.
TypeOK ==
    /\ c.version \in Version /\ c.operation \in Operation /\ c.goal \in Goals
    /\ c.parts \in [Server -> [state : State, version : Version]]
    /\ {c.needverincrease, c.interrupted, c.locked} \subseteq BOOLEAN
    /\ c.client \in [state : {"idle", "waiting", "truncating", "writing"},
                     version : Version, servers : SUBSET Server]
    /\ entry \in [Server -> [up : BOOLEAN, deletions : 0 .. MaxDel, replicating : BOOLEAN]]
    /\ linked \in [Server -> BOOLEAN]
    /\ disk \in [Server -> [version : Version, data : Contents]]
    /\ zombies \in [count : 0 .. 2, ahead : BOOLEAN]
    /\ faults \in SUBSET FaultKind

\* A client may be sent to every valid part, and a chunkserver serves the
\* version the master names: a copy of that version has every confirmed write.
\* The code does not ensure it in every case, see ReadFresh.
ValidFresh ==
    \A s \in ValidServers(c) :
        entry[s].up /\ disk[s].version = c.version => disk[s].data >= c.acked

\* A copy that missed a write never comes back as an up to date one, though
\* answers are lost, jobs outlive their connection, and errors leave a newer
\* version behind.  The code does not ensure it if a server is back before
\* the zombie loop has seen that it was away, if a part is reported as
\* damaged during an operation, if an error leaves a copy with its new
\* version but not truncated and the connection breaks, or if a deletion is
\* repeated before it is answered and the part is replicated to the same
\* server in between.
ReadFresh ==
    faults \intersect {"early", "damage", "torn"} = {} /\ MaxDel <= 1 => ValidFresh

\* Outside of an operation no part is busy: doChunkJobs calls such parts
\* unexpected, and no answer would ever free them.
NoStrayBusy == c.operation = "NONE" => BusyServers(c) = {}

\* The parts the master counts on are of the chunk's version.
ValidVersion == \A s \in ValidServers(c) : c.parts[s].version = c.version

\* When nothing is under way between the master and a server, a valid part
\* is a file of the right version.  (Not if a job of an earlier connection
\* can still run after the server has registered again.)
Settled(s) ==
    /\ entry[s].up /\ linked[s]
    /\ c.out[s] = <<>> /\ answers[s] = <<>> /\ running[s] = {}

CopiesHeld ==
    "straggler" \notin faults =>
        \A s \in Server :
            Settled(s) /\ c.parts[s].state = "VALID" => disk[s].version = c.version

\* Two rounds of the zombie loop are enough: when the counter is zero no
\* part is left on a server without a connection.
ZombiesProcessed ==
    zombies.count = 0 => \A s \in Server : c.parts[s] # NoPart => entry[s].up

\* Every operation comes to an end, and with it the wait of the client,
\* whichever servers break off in the middle of it.  (Not if a server is
\* back before the zombie loop has seen that it was away, nor if a busy part
\* can be reported as damaged: the part may be deleted and its server lost
\* before the answer that would end the operation.)
OperationEnds ==
    faults \intersect {"early", "damage"} = {} =>
        (c.operation # "NONE" ~> c.operation = "NONE")

\* The code notes that a part of which the chunkserver has sent bad news is
\* "to delete", so it must not come back as an up to date one.
DamagedStaysOut == ValidFresh

=============================================================================
