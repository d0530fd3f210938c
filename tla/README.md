# A verification of LizardFS in TLA+

This directory holds TLA+ models of parts of LizardFS, the TLC configurations
that check them on small instances, and theorems about them whose proofs TLAPS
checks for every value of the constants. `PROJECT.json` lists the runs, the
source lines behind every definition, the hazards of the code and the results.

## The system

LizardFS is a distributed file system. A **master** keeps all metadata in
memory and logs every change; **shadow** masters and **metaloggers** follow its
log. **Chunkservers** store the data in 64 MiB chunks, as whole copies or as
parts of an XOR or erasure code. **Clients** (FUSE mount, NFS plugin, tools) ask
the master for metadata and talk to chunkservers for data. **uRaft** runs beside
each master of a high-availability cluster, elects a *president* and switches
the local metadata server between master and shadow with a helper script.

### Inventory

| Part | State | Operations that change it | What is hard |
|---|---|---|---|
| uRaft (`uraft/uraft.cc`) | term, vote, leader, presidency, loyalty agreement, local clock, last answers | heartbeat and election timers, four UDP packets, `demoteLeader`, `set_block_promotion`, restart | leases on unsynchronised timers, lost and reordered packets, nothing persisted |
| Controller (`uraft/uraftcontroller.cc`, helper script) | running command, forced demotion, liveness of the server, floating IP address | `nodePromote`, `nodeDemote`, end or timeout of a script, periodic checks | role changes while a script runs, failures of fork and scripts, one flag acted on late |
| Chunk registry (`master/chunks.cc`, `chunkserver_db.cc`, `matocsserv.cc`) | version, lock, operation and copies of every chunk | create, duplicate, truncate, set version, delete, replicate; answers; registration and loss of chunkservers | answers after a disconnect, stale copies that return, counters |
| Chunkserver (`chunkserver/*`) | chunks on disk, job pool, registration | jobs, answers to the master, re-registration | jobs that end after the connection was replaced |
| Metadata replication (`master/matomlserv.cc`, `masterconn.cc`) | changelog position, download state | stream of changes, download, promotion | reconnection between a snapshot and the log |
| Metadata dump (`master/metadata_dumper.cc`) | dump in progress, checksum | fork, child's result, rotation of files | crash between two renames |
| File locks (`master/locks.cc`) | ranges with owners, queue | apply, remove, take over from the queue | ranges that split and merge, wake-ups |
| Background tasks (`master/task_manager.cc`) | list of jobs and tasks | submit, slice of work, cancel | iteration over a list that changes |
| Inode pool (`master/id_pool_detainer.h`) | free, used and detained ids | acquire, release, detain, expiry | reuse too early |
| Memory subsystems (`memory/*.h`) | atoms, working memory, subscribers of the broadcaster | broadcast, subscribe, consolidate | concurrent and nested broadcasts |
| File system tree (`master/filesystem_*.cc`) | nodes, edges, trash, quotas, ACLs | POSIX operations | size rather than concurrency |
| Mount (`mount/*`) | caches, write queue | FUSE calls, worker threads | write-back and chunk locking |

Every part has an entry under `components` of `PROJECT.json`; parts without
modules say why.

What correctness means for the parts modelled here:

* *uRaft* promises (uraft.h:14-16) one president at a time, and that no node of
  the electing quorum had newer metadata. Beneath that: a vote elects at most
  one leader per term, the president's count of loyal nodes never outlives the
  agreements those nodes signed, and a restart does not break an agreement.
* *The controller* promises (uraftcontroller.h:13-15) that the metadata server
  is in the proper mode: the president gets a master, everyone else gives it up
  together with the floating IP address, and no node stands for election while
  its server is being switched off.
* *The chunk registry* promises that a copy it counts on has every confirmed
  write, although it only ever compares version numbers, and that an operation on
  a chunk ends whichever chunkservers go away.

## Modules

### URaft: the election

`state[n]` is `state_`, `node_` and `block_leader_promotion_` of node `n`, with
`loyal` and `elect` for the time left on the agreement and election timers.
There is an action for each handler: `Heartbeat`, `ElectionTimeout`,
`ReceiveAppend`, `ReceiveAppendResponse`, `ReceiveReqVote`,
`ReceiveReqVoteResponse`, and for each call from outside: `DemoteLeader`,
`SetBlockPromotion`, `Restart`, `MetadataChange`. The class's functions are
operators on the record of a node (`CheckTerm`, `Append`, `ReqVote`, ...), so that a
packet that bumps the term is `checkTerm` followed by the handler, as in
`receivePacket`.

*Time.* Leases need clocks. A heartbeat period is divided into `N` slots, one
per node; in each slot one node beats and every timer runs by one. Clocks
therefore have the same rate, and their phases differ. A timeout of
`election_timeout_min` is `L * N` slots, where `L` is the number of heartbeats in it.
The random part of the election timeout is a choice: the timer fires at any
moment after the shortest timeout.

*Network.* A packet may be lost when sent, delivered in any order, and up to
`MaxDelay` slots late. `MaxInFlight` bounds how many are under way. UDP
duplication is not modelled.

*Integers.* `voteCount` converts a 64-bit product to `int`; `ToInt` keeps the
conversion, with the width as the constant `IntBits`.

*History.* `lease` (the last agreement each node signed, which a restart does not
erase), `electors` and `pledged` (who elected a leader, with which version) are
read by properties only. Terms, versions, slots, restarts and calls are bounded
by `MaxTerm`, `MaxVersion`, `MaxSlots`, `MaxRestarts`, `MaxCalls` in the guards.

A president that hears of a newer term stands for election in the next one at
once, so its term may exceed `MaxTerm`; only a packet that would bump it further
is left out, and it receives the answers to its own election.

The assertions in `rpcAppend` are guards of `ReceiveAppend`, and the property
`AppendAsserts` says that they always hold. They do not: see
`uraft_late_heartbeat` below.

### URaftElection: why a term has one leader

The inductive invariant `ElectionInv`. Textbook Raft says that a node votes once
per term. uRaft does not: a loyal node votes for its leader whatever it voted
before, and a leader that steps down forgets its vote without a new term. The
invariant therefore speaks of votes *that can still count*: a vote for a
candidate of the current term that is granted, or under way, or held by a node
that can still answer. `OneBacked` says no node gives two such votes to
different candidates of one term; `LoyalVote` and `VoteKept` say why a second
vote cannot hurt (its candidate can no longer win); `ElectedByQuorum` says a
leader has a quorum of them.

### URaftController: switching the metadata server

`ctl[n]` is the controller of a node together with its metadata server and
floating IP address. The helper script takes its steps one by one, so that role
changes interleave with them. The election is reduced to a role; its only
assumption about other nodes is one president at a time, which is what URaft
establishes. `faults` says what may go wrong in a behaviour: a failing `fork`, a
command killed by its `timeout`, a helper `script` that fails, a `rerun` (a
president that became a candidate loses its quorum and remains a candidate, as
`heartbeat` does for a president whose term was bumped), a `comeback` (a server
that returns before anyone noticed that it died). A killed script is taken to
stop at once; children that outlive it are not modelled.

A script fails in the ways the helper can: `load_config` ends it before a step
(`Exited`), deleting the address fails and the script goes on, or the restart
fails with the old server still there or gone. `checkCommandStatus` does not look
at the exit status, so a failed demotion counts as done, lifts the block and is
not retried; the same holds for one that was not started or was killed. The
history field `undone` records that the last switch-off of a node went wrong in
one of these ways, and a later command clears it. `NoStrayMaster` and
`OthersDoNotServe` are stated for every fault and excuse only that node:
everything short of a broken switch-off (a failed promotion, a demotion asked for
during a promotion, a server that dies and returns, other nodes' failures) ends
with the server switched off.

Fairness: scripts make progress, and `checkCommandStatus` and `checkNodeStatus` run
again and again, because each of them restarts its own timer whatever it found.
Nothing is assumed about elections, deaths and returns of servers.

### ChunkRegistry: versions and copies of a chunk

`c` is one `Chunk` of the master (version, operation, `needverincrease`,
`interrupted`, lock, parts), the commands sent for it (`c.out[s]`) and the client
that uses it. `entry[s]` is the master's side of a connection and `linked[s]` the
chunkserver's: each side notices a break by itself, and what is in between is
lost from some point on. A command becomes a job (`StartJob`) and the job ends
(`FinishJob`) with an answer, unless its connection was given up in between. The
functions of `chunks.cc` are operators on the chunk; `Find` is `chunk_find`, which
cleans the chunk of disconnected parts. `ChunkJobs` is one call of `doChunkJobs`,
with its choice of a server left open. A replica is one read of a source
(`ReadSource`), since a version check guards every batch; the new copy is locked
until its version is set, and registration waits for it.

The contents of a copy are the number of the last modification it took, so
"fresh" is a comparison with the last confirmed one (`c.acked`). There is one
chunk of whole copies. Erasure-coded parts, chunks shared by snapshots, reports of
lost and of new chunks on a connection (`masterconn_check_hdd_reports`), the "to
delete" mark and the real-time length of a lock are left out.

`faults` again selects what may happen in a behaviour: `early` (a server is back
before the zombie loop reached the chunk), `straggler` (it is back while a job of
its last connection runs), `error` (a job meets an I/O error; the new version of a
copy is set first, and may stay), `torn` (such an error leaves a copy with its
new version but not truncated), `damage` (a copy is reported as damaged).
Three properties are conditional, and each condition is needed; a configuration
below shows what happens without it:

* `ReadFresh` without `damage` (run `chunk_damage`), `early`, `torn`, and with one
  outstanding deletion per server. In each of these cases a part that missed the
  end of an operation does not make the next write raise the version, or comes
  back with a version it should not have;
* `CopiesHeld` without `straggler`: a deletion that was running when the connection
  broke removes the file after it has been registered as valid;
* `OperationEnds` without `early` (the part stays busy and nobody answers) and
  without `damage` (the part may be deleted, and its server lost, before the
  answer that would end the operation).

Fairness: both sides read what arrives, jobs run to their end, the zombie loop is
called on every turn of the master's event loop, and a broken connection is
noticed by the other side (both have timeouts). Nothing is assumed about clients,
returning servers or the chunk loop.

## Runs

| Run | Instance | What it shows |
|---|---|---|
| `uraft_lease` | 2 nodes and an elector, leases of 2 heartbeats, 13 slots, 2 terms, packets up to a slot late, 2 in flight | one president, backed by agreements that have not expired and never a follower, also when it stands for election again; one leader per term; `ElectionInv` |
| `uraft_owner` | as above, one call of the owner, metadata versions 0 and 1 | one president and `FreshLeader` when leaders are demoted or blocked at any moment |
| `uraft_restart` | one restart, 14 slots | a restarted node honours its agreement |
| `uraft_restart_vote` | one restart | **violation**: a restart loses the vote, two presidents |
| `uraft_clock_wrap` | 4-bit `int` | **violation**: a long silence wraps to a negative time, two presidents |
| `uraft_late_heartbeat` | packets up to 4 slots late | **violation**: `assert(state_.type != kLeader)` fails |
| `uraft_version_timeout` | the version query may time out | **violation**: a voter with newer metadata elects the leader |
| `controller` | 2 nodes; no faults, all faults | elections wait for a demotion; no stray master or address unless the node's own switch-off went wrong; without faults the president serves |
| `controller_rerun` | 2 nodes, `rerun` only | **violation**: the acting president is left with a shadow |
| `chunk_registry` | 2 servers, a goal of 2 copies that may change to 1 and back, a request after the creation, a write, two events (breaks, errors, changes of the goal), `straggler` and `error`; servers are symmetric | a copy with the chunk's version has every confirmed write; no busy part outside of an operation; two rounds of the zombie loop are enough |
| `chunk_operation` | 2 servers, the creation of a chunk and a request, one event; `straggler` and `error`, or `damage` and `error`, or `early`, `error` and `torn`; no symmetry | operations, and those that repeat them, end and leave no busy part; a valid part has its file |
| `chunk_damage` | as `chunk_registry`, `damage` only | **violation**: a part reported as damaged during an operation comes back valid and stale |

Four more configurations show what the conditions of the properties leave out;
TLC finds the property of each violated.

| Configuration | Property | What happens |
|---|---|---|
| `URaftControllerDemotion.cfg` (`script` only) | `SlaveModeDone` | a demotion script fails; "switch to slave mode done" is logged and the block lifted with the server still a master |
| `ChunkEarly.cfg` (`early` only, two breaks) | `ValidFresh` | a server returns before the zombie loop has seen the chunk; its part leaves the operation without `interrupted` or `needverincrease`, and returns a second time with the current version |
| `ChunkTorn.cfg` (`error` and `torn`) | `ValidFresh` | a truncation fails after the version was set and its connection breaks; the copy returns as a valid one |
| `ChunkRedelete.cfg` (two outstanding deletions) | `ValidFresh` | a deletion is sent again before it is answered, and the part is replicated to the same server in between |

*Why the bounds are enough.* Thirteen slots are more than four heartbeat periods
of three nodes: the first agreement expires (6 slots), a leader is elected,
becomes president (two more beats), loses its quorum and a second election runs.
Two terms are needed for a bump, a term has room for several candidates, and a
president that is bumped to the second term is re-elected in the third.
Every mutant listed in `PROJECT.json` is caught within the bounds of its run. In
`uraft_*` runs time ends at `MaxSlots`, so deadlock is not checked there; it is
checked for the controller. For the chunk, two servers are one that takes part in a
write and one that misses it; two events are two departures and returns, or one
and an error or a move of a copy. `ReadFresh` was also checked once with two
requests, two writes and two events for a goal of two copies (13 million
states). `RedundancyLevel` is 0, the default of the code: a higher one only
refuses writes. Nothing has to happen to a chunk when all is settled, so
deadlock is not checked there either.

*The violations* are disagreements between the code and what its comments or
assertions say; `findings` of `PROJECT.json` quotes the lines. The wrap needs
about 24.9 days of silence with 1 ms units in a 32-bit `int`; the run scales the
width down so that it happens within the bounds.

## Theorems

TLC's instances are small; the theorems hold for every cluster size, lease
length and bound.

* `URaftProofs!TypeCorrect`: `Spec => []TypeOK`.
* `URaftElectionProofs!ElectionInvariant` and `LeaderSafety`: as long as no node has
  restarted and no president is blocked, `ElectionInv`, and so two leaders are
  never in the same term. The condition (`Undisturbed`) is necessary: a restart
  loses the vote, and a blocked president adopts a newer term in `checkTerm`
  without standing for election in it. The argument goes handler by handler, in
  two stages for packets: `checkTerm` keeps the invariant, then the handler does.
  Two quorums of a cluster intersect (from `FiniteSetTheorems`), and a node in
  both would have given two votes that count.
* `URaftControllerProofs!ControllerTypeCorrect`, `ElectsOnlyReady`
  (`Spec => StandsOnlyReady`) and `ProperMode` (`Spec => []NoStrayMaster`), for every
  set of nodes and of faults, failing scripts included. `NoStrayMaster` is not
  inductive: a promotion that was started before the presidency was lost makes a
  master later. `SwitchInv` (in `URaftControllerProofs`) adds that a promotion runs only for the president or with a demotion pending,
  that a demotion ends with a shadow, and that nothing sets `force_demote_` while
  the dead command runs, whose end would not look at it. Every step replaces
  the controller of one node, so the lemmas speak of one record.

Assumptions: those named in the modules (`NAssumption`, `LAssumption`, ...), which
only say that constants are numbers or sets of the right kind.

*Only model-checked:* `OnePresident`, `PresidentHasLeases` (they need an invariant
about slots and clock phases), `FreshLeader`, `LeaseHonoured`, the properties of the
chunk registry, and the liveness properties, since liveness under fairness is out of the
prover's reach.

## What is not modelled

Name resolution, the scan of interfaces, logging, the status port of uRaft;
clocks that drift; duplicated UDP packets; a timer handler of the event loop that
was already queued when its timer was restarted; clusters of one metadata server
in the controller's model (there `electionTimeout` calls `nodePromote` itself).
The other parts of the inventory have no modules yet.

## Plan

1. Chunk registry: an abstract specification of a versioned register that it
   implements; locks with their timeout; duplication of shared chunks.
2. File locks: the range algebra against a reference by points; owners and queue.
3. Metadata replication: changelog stream, download and promotion.
4. Background tasks, inode pool, memory broadcaster: small modules with one
   run each.
5. Theorems: `PresidentHasLeases` and `OnePresident` from an invariant that relates
   clock phases to agreements; chunk versions; lock exclusion.
