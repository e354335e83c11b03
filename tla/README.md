# A TLA+ development of Drummer

Drummer (`lni/drummer`) deploys and maintains many raft groups ("shards") on a
set of NodeHosts of the dragonboat library. It was written to test dragonboat
under faults, but it is a small control plane of its own: a replicated
database, an elected leader that schedules, agents that report and obey, and a
recorder and a checker that judge whether what clients saw was linearizable.
The modules in this directory model that system, TLC checks them on small
instances and TLAPS proves what can be proved for every instance.

## 1. Inventory of the system

| Component | Source | State it keeps | Operations |
|---|---|---|---|
| Drummer DB | `db.go` | clock, launch deadline, failed flag, wanted shards, KV records, the two images, waiting and outgoing orders | one update per log entry: TICK, NODEHOST_INFO, REQUESTS, KV, SHARD; lookups; snapshots |
| Shard image, NodeHost image | `shardimage.go`, `nodehostimage.go` | members of each shard with the index of the configuration, when each was last heard of, zombies to kill; NodeHosts with the logs on their disks | fold a report in; derive failed, waiting and live replicas |
| Scheduler | `scheduler.go`, `filter.go`, `selector.go` | a copy of the DB's state for one pass | launch, restore, repair, kill |
| Drummer server | `drummer.go`, `server.go`, `client.go` | sessions, deployment id, what stops it | learn the deployment id, tick the DB, run a pass, take reports, take settings of users |
| Leader election | `election.go` | role, observed leader and how long it stood still | renew, watch, campaign |
| NodeHost client | `client/node.go`, `client/nodehost.go` | orders fetched, one queue per shard | report, fetch, carry out |
| Raft groups | dragonboat (external) | memberships, data | membership changes, replication |
| History recorder | `lcm/manager.go`, `lcm/process.go` | the log of operations, flags of the processes, connections | start reads and writes, record them, stop |
| Linearizability checker | `lcm/porcupine` | one search | parse a log, check a history |
| Connection pool | `client/client.go` | connections by address | dial, reuse, close |
| NodeHost API | `nodehostapi.go` | which shards have sessions | session and proposal RPCs |
| Test state machines | `tests/*.go` | key value stores in memory and on disk | update, snapshot, recover |
| Settings, request checks, monkey test, generated code, scripts | `settings/*.go`, `request.go`... | none of the control plane's | data, panics on malformed fields, drivers |

How they interact. Users create shards, set regions and end the bootstrap by
RPCs that become log entries of the DB. The elected Drummer ticks the DB and,
when enough NodeHosts are connected and the bootstrap is over, reads a context,
computes a batch of orders and proposes it. A NodeHost reports what it runs; the
report is an update of the DB that folds it into the images and moves the
waiting orders of that NodeHost to its outgoing orders, and a lookup that returns
those. The NodeHost carries orders out, which changes raft groups, and later
reports show the change. There is no other feedback: everything Drummer knows is
old, and every order may be lost, late or issued twice. The recorder asks Drummer
where the replicas of a shard are, calls them, and saves a log that the checker
reads afterwards.

What is hard.

* Interleaving: several Drummers may believe to be the leader; a pass reads the
  launched flag, then the context, then proposes, and the DB moves in between;
  servers learn one deployment id while each proposes its own; the recorder's
  goroutines end operations while others are started and while it is stopped.
* Ordering: reports and votes may be applied after newer ones.
* Failure: a client gives up on a report that is applied later, NodeHosts crash
  with their disks intact, proposals fail without being known to have failed,
  DB replicas come back from snapshots.
* Limits: subtraction of unsigned clocks, the meaning of tick 0, sizes off by
  one in repair, a launch deadline that fails the deployment for good.

What makes each part correct.

* DB and images: no panic whatever is in the log (a panic is replayed on every
  replica); the image of a shard is one membership the shard had and never an
  older one than before; finalized records are final; only one launch; a shard
  that is reported as available can be called; replicas agree whether they came
  by the log or by a snapshot.
* Scheduler and NodeHosts: repair never takes a group below the size asked for
  nor above it by more than one; two members of a shard are never on one
  NodeHost; only removed replicas are killed; a launch order is carried out once.
* Servers and users: what a caller is told happened, once; nothing is applied
  after its caller gave up on it, unless its session could not be closed.
* Election: leadership moves only from nobody or from a leader found dead, and
  someone leads once failures stop.
* Recorder and checker: the log is a history whenever it is saved, no service
  that behaves is accused, and the verdict is the definition's.

## 2. Modules

`ShardImage` (operators) and `DrummerKV` (operators) are used by `DrummerDB`
(state and one action per log entry). `DrummerDB` is composed three times:
`DrummerDBService` closes it with an environment that may put any legal entry in
the log at any time; `DrummerDBReplicas` runs two instances of it on one log;
`ShardCluster` composes it with Drummers, NodeHosts and raft groups as actors,
using the orders of `Scheduler`. `Election` and `DrummerServer` use only
`DrummerKV`, for all that the election and the servers' calls touch is records.
`History` (operators) says what a history is and when it is linearizable;
`CheckSpec` what a check of one promises, `Porcupine` how it is carried out, and
`HistoryRecorder` where histories come from. `DiskKV`, which runs inside a
NodeHost, stands alone.

| Module | Models | Correspondence |
|---|---|---|
| `ShardImage` | `shardimage.go`, `nodehostimage.go` | `UpdateShardImage` is `doUpdate` followed by `updateNodeTick` and `syncLeaderInfo`; `SyncShardPanics` and `ReportPanics` are the Panicf calls of `syncShard`; `Zombies` is what is appended to `ReplicasToKill`; `FailedReplicas`, `AddRequired`, `DeleteRequired`... are the methods of the same name |
| `DrummerKV` | `applyKVUpdate`, finalized records | `KVResult` is the result code, `UpdateKV` the map afterwards |
| `DrummerDB` | `db.go` | variables are the fields of `DB`; `ApplyTickUpdate`, `ApplyNodeHostInfoUpdate`, `ApplyRequestsUpdate`, `ApplyKVUpdate`, `TryCreateShard` are the update handlers, each with all it calls; `ShardState`, `RegionsLookup`, `RequestsLookup` the lookups that compute something |
| `DrummerDBService` | the log | `Tick`, `Report`, `Order`, `Put`, `Create` choose an entry; what raft guarantees of a group's memberships is the constant `History` and its assumption |
| `DrummerDBReplicas` | `SaveSnapshot`, `RecoverFromSnapshot`, replay | `Commit` applies an entry on the first replica, `Apply` on the second, which lags; `StreamSnapshot`, `InstallSnapshot`: it is too far behind for the log; `SaveSnapshot`, `Restart`: it crashes and comes back |
| `Scheduler` | `scheduler.go`, `filter.go`, `selector.go`, `maintainShards` | `LaunchChoices` and `MaintainChoices` are the sets of batches that `launch` and `maintainShards` may return, over all random draws |
| `ShardCluster` | `drummer.go`, `server.go`, `client/*.go`, dragonboat | `Schedule`, `UpdateRequests`: a pass and its proposal; `SendReport`, `ApplyReport`, `FetchRequests`, `GiveUp`, `LoseReport`: one report RPC; `Exchange`: the same in one step; `Handle*`: the order handlers; `CommitChange`, `DropChange`, `CatchUp`: raft; `Crash`, `Restart` |
| `DrummerServer` | sessions and deployment id of `drummer.go`, `server.go`; `client.go` | `Propose`, `CompleteIn`, `GiveUp`: a proposal, its end, its failure; `CloseSession`, `CloseFails`: `resetSession`; `ProposeDeploymentID`, `LearnDeploymentID`, `Aborted`, `StartDrummerRPCServer`, `ProposeUpdate`: `drummerWorker`; `Stop`: the two steps of `Drummer.Stop`; `SubmitChange`, `SetBootstrapped`, `Reply`: a user; `ApplyProposal`, `RejectProposal`, `ApplyClose`: raft with its sessions (external) |
| `Election` | `election.go`, the sessions of `drummer.go` | `LeaderMain`, `FindNoLeader`, `FindItself`, `FindLeader`: one timer round up to the vote; `RenewVote`, `CampaignVote`: the vote; `Confirm`: the confirming read; `ReadFails`, `NoSession`, `VoteFails`, `ConfirmFails`: every error return; `LateVote`: a vote that outlived its session |
| `History` | `lcm/porcupine/model.go`, `etcd.go` | events, the register of `getEtcdModel` (`StepOK`, `StepState`), `Linearizable` by definition |
| `CheckSpec` | | the abstract specification of a check: one true verdict, "ok" allowed early when there is a time limit |
| `Porcupine` | `lcm/porcupine/porcupine.go` | a node of the list is the position of its event; `Linearize`, `Skip`, `Backtrack`, `Exhausted`, `Done` are the branches of the loop of `checkSingle`; `Lift`, `Unlift` the list operations; `Receive`, `TimeOut` the select of `CheckEventsTimeout` |
| `HistoryRecorder` | `lcm/manager.go`, `lcm/process.go`, `lcm/porcupine/etcd.go`, `client/client.go` | `Coordinator`: `mainLoop`, `startProcess`; `Goroutine(p)`: `write` and `read` of a process up to the deferred `setIdle`; `StopSelf`, `CloseOwnPool` and `StopProcess`, `CloseProcessPool`: the two steps of `setStopped`, the flag and then the pool; `Stop`: its cancellation, its wait and one process after the other; `Connect`, `CloseConnection`, `ClosePool`: the pools, with a connection for each address; `Parse`: `toJepsenLogEntry` and `parseJepsenLog`; `TakeEffect`, `LateEffect`: the service (external) |
| `DiskKV` | `tests/diskkv.go` | `todo` is the list of steps that a running `Open` or `RecoverFromSnapshot` has left (`NewRunSteps`, `ReopenSteps`, `RecoverSteps`); `WriteName`, `SyncDir`, `Rename`, `MakeDir`, `LoadSnapshot`, `SwapDB`, `CloseOld`, `RemoveOld`, `RemoveLeftover`... are the steps; `Update`, `LookupLoad`, `LookupGet`, `Close` the other calls; `Crash` keeps any of `CrashImages` of the directory |
| `ElectionProofs` | | the theorems about `Election` |
| `DrummerDBProofs` | | the theorems about `DrummerDBService` and `DrummerDBReplicas` |
| `DrummerServerProofs` | | the theorems about `DrummerServer` |
| `DiskKVProofs` | | the theorems about `DiskKV` |
| `PorcupineProofs` | | the theorems about `Porcupine` |
| `SequenceFacts` | | lemmas about numbers, recursive functions and sequences |
| `ShardClusterProofs` | | the theorems about repair and launch in `ShardCluster` |
| `HistoryRecorderProofs` | | the theorems about `HistoryRecorder` |
| `MC*` | | instances for TLC |

Operators commented "Faulty variant" are plausible bugs of the definition they
precede. No specification uses them: put in the place of that definition, each
makes a property fail, which shows that the property can fail.

Conventions. A panic of the DB is the variable `panicked` (the DB then handles
nothing more), a failed deployment is `failed`. A map that lacks a key and one
that has an empty list for it are not told apart where the code does not.
Random draws and Go map iteration are nondeterministic choices. Serialisation,
logging and validation of message fields are left out; an order, a report and a
record are TLA+ records.

## 3. Runs

Each run finishes within four minutes with two workers.

| Run | Instance | Shows |
|---|---|---|
| `drummerdb` | 1 shard whose group has three memberships in turn (replica 1; both; replica 2), 2 NodeHosts, a launch batch, an order of maintenance, 2 rival values of one record, clock 0..2 | types; no clock value ahead of the clock (`TicksNotInFuture`); the image is always one membership of the history (`ImageFollowsHistory`) and only moves on (`ImageMovesForward`); no panic (`NeverPanics`); one leader mark (`AtMostOneLeader`); zombies are removed for good (`KilledAreRemoved`); a shard state names the addresses of a majority when it says OK, and of the leader when it names one (`ShardsAreCallable`); `FailsOnlyAtLaunch`, `FinalizedIsFinal`, `OrdersMoveByReport` |
| `dbreplicas` | 1 shard of 1 replica, log of 4 entries out of 7, 1 crash | two replicas of the DB agree (`ReplicasAgree`), so that one that is started again after a failed launch fails again, and the one behind catches up (`CatchesUp`) |
| `shard_launch` | 2 NodeHosts of which one has slow reports and crashes once, 2 Drummers, regions set before or after the bootstrap ends | `LaunchedFromOnePlan`, `PanicsOnlyUnprepared`, `LaunchedAtMostOnce` |
| `shard_repair` | 1 launched shard of 3 replicas, 4 NodeHosts, one of which may fall silent, 2 Drummers, 4 passes | `MembershipSize`, `OneReplicaPerHost`, `ImageIsCommitted`, `KillsOnlyRemoved` |
| `server` | 2 servers, one of which may be stopped, 1 user, 3 proposals, 1 of them given up on | `AcknowledgedOnce`, `LateOnlyIfUnclosed`, `OneDeploymentID`, `NilMeansDefined`, `ServesWithDeploymentID` |
| `election` | 3 instances, 5 rounds, 1 failure in the first 2 rounds, votes may outlive sessions | `TakeoverFromDead`, `TakeoverNamesHolder`, `LeaderElected`, types |
| `porcupine` | every history of up to 3 operations (reads, writes of 2 values, compare-and-set, answered or not) | the list is the history without what is linearized and the loop stands where no nil match is read (`ListIsHistory`), and the search implements `CheckSpec` (`VerdictIsTrue`) |
| `recorder` | 2 processes, 2 NodeHosts, 3 operations, 1 of them a write | `LogIsComplete`, `NoFalseAlarm`, `NoConnectionLeft`, `StopIsFinal`, `NothingLeftToStart` |
| `diskkv` | 4 directory names, 2 log entries, 3 crashes | `NothingSeenIsLost`, `OnlyTheDBInUse`, `ReadsGoForward`, `OpensAgain` |
| `diskkv_first_open` | 1 crash | violates `OpenNeverPanics` (section 6) |
| `election_rejected_renewal` | 2 instances, 2 failures | violates `BecomesLeaderAsOwner` (section 6) |
| `election_tick_back` | 2 instances, 2 failures, votes outlive sessions | violates `TickNeverWentBack` (section 6) |

Bounds.

* `NodeHostTTL` is 1, so that one silent tick is age 1 (neither live nor
  failed) and two make a failure; a longer TTL only adds ticks in which nothing
  changes.
* `drummerdb`: an addition and a removal is the shortest history in which an old
  report can bring back what is gone; the proofs of section 4 cover any history.
* `dbreplicas`: four entries are a launch, the tick that reaches its deadline and
  what comes between; with one crash the replica replays them from its own
  snapshot or is sent one.
* `shard_repair`: three configurations (`MaxConfigs`) are an addition and a
  removal: a second addition ordered for the same failure is where
  `MembershipSize` would break, and with the check of the index dropped it does
  break at these bounds. The four passes order an addition, the start of the new
  replica, a removal and a kill. It starts in the state that a launch ends in,
  which `shard_launch` reaches step by step; only one chosen NodeHost may stay
  silent (`TimelyHosts` are the others), for a second failure leaves no quorum.
  A crash during a repair is beyond these bounds.
* `shard_launch`: `MaxQueue` and `MaxReports` bound what is under way to what is
  needed to overtake once; the NodeHost in `FragileHosts` crashes once, which is
  when a launch order that comes twice would find its data.
* `server`: three proposals are those of two servers that race for the deployment
  id and one more that may be a retry, an update of a leader or a user's call;
  the second call of a session is where a series number that stood still shows.
* `Election`: four rounds suffice to be found dead with `DeadLeaderMinRound` 1; a
  fifth lets the winner be found dead in turn. A failure in the first two rounds
  leaves those that follow it enough rounds for `LeaderElected`; the theorems of
  section 4 cover the other properties for failures at any time.
* `porcupine`: three operations are the fewest in which a choice is made, undone
  and another reached through the cache.
* `recorder`: three operations, one of them a write, are enough for a write that
  fails, takes effect late, and is seen by one of two reads of the other process.
  Drummer names one NodeHost for reads and another for writes (`Targets`): a process
  that read from one and fails at the other is the shortest way to a pool with a
  connection that the failure does not close, and two processes let `Stop` close the
  pool of one while the other marks itself stopped. The theorems of section 4 cover
  more writes and any addresses.
* `DiskKV` has four names of directories because the database in use, the one
  being filled and those of unsynced removals may be there at once; three crashes
  interrupt a recovery, the cleanup after it and the next one.

Symmetry is used only for model values that no definition tells apart:
NodeHosts and Drummers in runs that check invariants only, and the two rivals'
values of `drummerdb`, whose properties are invariants and conditions on single
steps; no run with symmetry checks liveness. Deadlock is checked for `DiskKV` only: elsewhere the
bounds stop the clock, the rounds, the passes and the calls, and a search or a
recorder ends.

Fairness.

* `Election`: weak fairness of each server's `Step`, which is its timer
  (`RunTicker`) and the return of its calls (all have timeouts). A failed server's
  step is not enabled and a failure is never fair. Rounds are bounded, so
  `LeaderElected` says that a leader is there by the last round when the failures
  are confined to the first `LastFaultyRound`.
* `DrummerDBReplicas`: weak fairness of `Apply` and `InstallSnapshot`: dragonboat
  applies what is committed. Snapshots and crashes are never fair.
* `Porcupine`: weak fairness of the search, a running goroutine, and of the
  receipt of its result. The timer need not be in time.
* `HistoryRecorder`: weak fairness of the coordinator, of every goroutine (its
  calls have timeouts, so `CallFails` is part of it) and of a `Stop` that has
  begun; strong fairness of `EndLoop`, for the select of `mainLoop` draws among
  ready cases at random and does not pass over the cancelled context for ever. A
  call of `Stop` is never fair.
* `DiskKV`: weak fairness of the steps of a call that is running, which nothing
  blocks, and of `Open`, which dragonboat calls when the NodeHost is up again;
  crashes, updates, recoveries and lookups are never fair.

Refinement. `VerdictIsTrue` is the whole of `CheckSpec`, `Spec` with its
liveness, with the variables of the search hidden: `Porcupine` implements it
under the identity on `events`, `limited` and `verdict`. `Second` in
`DrummerDBReplicas` is an instance of `DrummerDB` with every field renamed, so
that both replicas run the same definitions.

## 4. Proofs

`ElectionProofs` proves, for every set of instances (positive numbers), every
`DeadLeaderMinRound` and every bound:

* `TypeCorrect`: `Spec => []TypeOK`;
* `TakeoverNamesHolderCorrect`: `Spec => TakeoverNamesHolder` and
  `TakeoverFromDeadCorrect`: `Spec => TakeoverFromDead`, late votes included;
* `TickNeverWentBackCorrect`: `Spec => []TickNeverWentBack` when `LateVotes` is
  FALSE, so that the panic of `setLeaderInfo` needs a vote that outlives its session.

The assumption is `ElectionAssumption`: instance ids are positive, for 0 stands
for "no leader" in the code. The inductive invariant `Inv` adds to the types
what the action properties need to know of earlier steps: `RecordInv` (the
record is never removed, so before the first vote nobody has seen a leader and
nobody renews) and `VoteInv` (a vote names its own instance; a renewal names no
other; a campaign names the leader that was watched and, unless there was none,
found dead). `ApplyVote` is the lemma about `applyKVUpdate` on which all rests:
an accepted vote found the record missing, its own, or that of the leader it
names. `HolderChange` gives the vote behind every change of hands, and the two
theorems read the rest off `VoteInv`. `TickInv` is what the last theorem adds:
the ticks that an instance remembers of a holder are not ahead of the record, and
those of the record not ahead of the rounds of the instance that wrote them.

`DrummerDBProofs` proves every property of the run `drummerdb`, and `LaunchedOnce`,
for all shards, replicas, NodeHosts, histories, batches and bounds: `TypeOK`,
`ImageFollowsHistory`, `ImageMovesForward`, `NeverPanics`, `AtMostOneLeader`,
`KilledAreRemoved`, `TicksNotInFuture`, `OrdersMoveByReport`, `FinalizedIsFinal`,
`LaunchedOnce`, `FailsOnlyAtLaunch` and `ShardsAreCallable` (each theorem is named
after its property, with `Correct`). They assume of raft what
`HistoryAssumption` states (addresses do not change and removed ids do not come
back) and of the submitters what `ClientAssumption` states (a batch launches or
maintains, never both; the launched flag is the DB's own).

The argument about the image is `ImageInv`: each shard's image is a `GoodShard`,
that is the membership of the history at its index, with readings of the clock
that are past and at most one leader; what is to be killed is in no membership
from that index on. No conjunct is inductive alone: the panics of `syncShard`
are unreachable because image and report are memberships of one history, the
image stays one because an older report is rejected, and a zombie is gone for
good because ids do not come back after the index that the image has passed.
There is one lemma per function of `shardimage.go` (`SyncShardGood`,
`NodeTickGood`, `LeaderInfoGood`, `GetShardGood`), one for a report
(`ReportKeepsImage`) and one for everything else (`OthersKeepImage`). `HostsInv`
adds the NodeHost image and the two tables of orders, `LaunchInv` the deadline,
`RestInv` what is left of the types. `KVUpdate` is the lemma about the records.

`ShardsAreCallable` relates the two images, which no step writes with regard to
each other. `HeardInv` is what makes it inductive: a replica that was ever heard
of, or leads, runs on a NodeHost that has reported (`Heard`). A report makes its
sender known in the same entry (`HeardFromReport`), a replica that is only known
from a membership was not heard of (`NewNotHeard`), and NodeHosts are never
forgotten. An OK shard has a majority of replicas that are not failed and were
heard of; `MajorityGrows` is the step about cardinalities that carries this
from replicas to addresses.

Of `DrummerDBReplicas` it proves `ReplicasAgree`, for any log, any snapshots and any
number of crashes. Each action of the DB is shown to be a function of the fields and
the entry (`AfterTick`, `AfterReport`, `AfterRequests`, `AfterKV`, `AfterShard`; one
lemma for each replica), so that neither the other replica nor the order of crashes
can enter it. The invariant `Replayed` then says that the history is the log replayed
on a new DB, that each replica is in the state of that history after the entries it
applied, and that a snapshot is the state after the entries that it covers - one that
had not panicked, since a DB that has takes no snapshot (`FirstSnapshotFits`,
`SecondSnapshotFits`), which is why a recovered DB may clear the flag
(`RecoveryFits`).

`DrummerServerProofs` proves every property of the run `server`, for any
sets of servers and users and any number of calls, failures and stops:
`AcknowledgedOnce`, `LateOnlyIfUnclosed`, `OneDeploymentID`, `NilMeansDefined` and
`ServesWithDeploymentID`. The assumption is `ServerAssumption`: servers are not
users, and a deployment id is not 0, which stands for one that is not known.
What is assumed of the raft group is in its three actions.

The invariant has two layers, and each action has a lemma for either. `RaftInv` is
about sessions: a session has one proposal on its way at most, that of the call
its owner waits for (`CallInv`); it belongs to one actor and has not answered the
series number used next (`SessionInv`), so a proposal that is waited for is new
(`WaitedForIsNew`) and its answer is the result it was applied with (`AnswerInv`);
whatever else is on its way belongs to a session that is gone, is being closed or
could not be closed (`LateInv`). A server whose worker was cancelled keeps its
session with a call in it, which is why `CallInv` and `SessionInv` name `Stopped`:
it never proposes again. `DBInv` is about what was told: the place where an actor
waits says what it proposed (`ProposedHere`), the answer says what the DB then had,
and records and shards only grow (`Grows`, `FinalKVStep`, `UpdateDB`), so this stays
true whatever the others do (`StaysStep`).

`DiskKVProofs` proves the three safety properties of the run `diskkv`, for any set
of directory names, any log and any number of crashes, recoveries and lookups:
`NothingSeenIsLost`, `OnlyTheDBInUse` and `ReadsGoForward`. The invariant says what
the files look like after every step of a call: `Phase` is a disjunction of a
process that is down or idle and of `NewRunAt(k)`, `ReopenAt(k)`, `RecoverAt(k)`, the
states after `k` steps of the first `Open`, a later `Open` and a recovery. What makes
it inductive across crashes is `Named`: of each of the two names that the file
`current` may turn out to have, the one of the process and the one of the disk, the
directory is, as soon as anything was seen, in the directory and durable, with
all that was seen; `ImageOfCrash` says that a crash leaves one of these two names and
every directory that both have. `Reading` keeps lookups behind what is visible
and, while their database is open, not behind the lookup before. `OpensAgain` is
liveness and stays with TLC.

`ShardClusterProofs` proves every property of the run `shard_repair` for the whole of
`ShardCluster`, launch included, and for any shards, replicas, NodeHosts, Drummers and
bounds: `MembershipSize`, `OneReplicaPerHost`, `ImageIsCommitted` and
`KillsOnlyRemoved`. None of the four is inductive, nor are they together: what keeps
a late order harmless is what it was computed from. `Inv` therefore says of every
order, in a batch, in the DB, handed over, fetched or proposed to its group, that it is
right for the membership whose index it names (`GoodOrder`): an addition names a group
of the wanted size, a host without a member and an id that was in no membership up
to that index; a deletion names a group with one member too many and one of its
members; a kill names a replica that was a member and is none any more
(`Removed`). `InOrder` admits a change only at the index it names, so a right order
makes a right membership (`NewMembershipGood`), and a wrong time makes it no
membership at all. `GroupInv` says what a history of memberships may be: sizes,
distinct addresses that stay, members that do not come back. `ImageInv` and
`ReportsInv` say that image and reports are memberships of that history, as
`DrummerDBProofs` assumes of its constant `History`: here it is proved, so the
DB's panics are unreachable for the scheduler's own orders. `HostsInv` is what the
filter rests on: a NodeHost with a member in the image is known to have the shard.
`NodesInv` says that what runs was a member no later than the image, which is why an
unknown replica is a zombie. `Grows` (histories only grow) carries the invariant
over every step that does not write what a conjunct is about; then there is one lemma
for every action, and for the pass one for every function of the scheduler
(`RestoreOrdersGood`, `RepairOrderGood`, `KillOrdersGood`, `MaintainGood`,
`SelectionGood`, `PlacementGood`, `PeersGood`, `LaunchGood`).

The same module proves every property of the run `shard_launch`:
`LaunchedFromOnePlan`, `LaunchedAtMostOnce` and `PanicsOnlyUnprepared`. The invariant
`PlanInv` adds to `Inv` that before the launched flag is set nothing is ordered and
nothing runs (`EarlyInv`), that a batch either launches, with the same members in all
orders for a shard, or was computed after the launch (`BatchPlan`), and what a
NodeHost can hold (`HostPlan`): launch orders wait for a host only while it has been
handed nothing, fetched nothing and has an empty disk; once fetched, the one for a
shard is the first in its queue and no replica of the shard is on the disk. Were two
reports answered with the same orders, the last would fail: while a NodeHost waits
for the answer with its launch orders, `GoodHost` says, it has fetched nothing, and
`WireInv` that only a NodeHost whose reports take time waits at all.

That a pass never panics is false (section 6), and `PanicsOnlyUnprepared` says how
far: the only reasons for a panic of the launch are that no regions are set, or that
their counts add up to more than the members of a shard asked for; a pass that
repairs never meets the panic of its own, a shard that nobody asked for. It rests on
`RegionsInv`, that the record of the regions is the one the user set, on
`PlacementGood`, that a placement has no more hosts than the regions count, and on
`ImageKnown`, that the image has no other shards than those asked for. It speaks of
every state and not only of the time before the launch, for a pass that fails to read
the launched flag computes a launch after it.

All this assumes `UsersAssumption` of `ShardCluster`: that a shard has members is
checked by `tryCreateShard`; that they are distinct positive numbers, that there is a
region and that regions are distinct is checked by no code. Without distinct
regions a host could be drawn twice for one shard. Nothing is assumed of the counts
of the regions, nor of the order in which users submit shards, set the regions and
end the bootstrap. A pass that would panic proposes nothing (the guards of
`Schedule`): the Drummer is gone, and the next one computes a pass of its own.

`SequenceFacts` is the toolkit of three modules: induction over numbers, that a recursion
on the numbers has a function (from which `RegionsAddUp` has that `RegionTotal` is the sum of the counts), that `SetToSeq` and `FlattenSeq` give sequences with the elements they should. The library's theorems take operators as
parameters; here the property is a set of numbers instead, `NumberInduction`, which
follows from the least member of its complement.

`PorcupineProofs` proves `ListIsHistory`, and of `VerdictIsTrue` all but that there is a
verdict in the end: `Spec => Check!Init /\ [][Check!Next]_Check!vars`
(`VerdictIsTheDefinitions`), for any set of complete histories of any length, where
TLC looks at three operations. The assumption is `HistoriesAssumption`: the histories
are complete, which is `LogIsCompleteHolds` below. `IInv` is the invariant of the
loop of `checkSingle`:

* `OnStack`: the calls on the stack explain what is taken out, each from the state
  that the one below leads to, and before each of them there were only calls that
  lead nowhere (`MoveFails`);
* `Lists`: the list is that of what is left, and both nodes of every operation on the
  stack have kept the links that are right once those above it are put back
  (`Kept`). That makes `unlift` right: `LiftLinks` and `UnliftLinks`;
* `Tried`: before the entry there are only calls that lead nowhere;
* `CacheHolds`: a pair in the cache leads nowhere unless the search came through it.
  What `Skip` finds there has one operation more than is taken out, so the search did
  not come through it (`CachedFails`).

At a return all that may come first has been tried: `DeadEnd`, which rests on
`SomeOpIsFirst`, that of an order for the rest its first operation is one that no
other precedes. With the list empty the stack is the order (`StackExplains`).

`HistoryRecorderProofs` proves the three invariants of the run `recorder`, for any processes, addresses and number of operations:
`LogIsComplete`, `NoFalseAlarm` and `NoConnectionLeft`. The assumptions are
`RecorderAssumption`, that processes are numbers and the coordinator is none, and `OpsAssumption`, that the values of the history include
those that the run writes. `NoFalseAlarm` speaks of the parsed log as a whole, so its
invariant must say what the parser holds after every line, and what the processes
know that is not in the log yet:

* The parser is a fold. `ParsedAppend`: what it holds of a log with one line more is
  one `ParseLine` from what it held before. `GoodAcc` is what it holds: every call
  once, and either a later return of it or an open number of one process.
* `Lin` is an order that explains the part of a history that is there: all that
  returned is in it, each at its place in time, and the register runs from no value
  to the present one through states that allow what was returned. There are
  four ways to make one longer: a call leaves it as it is, an effect appends to it,
  a return finds its operation in it, and a read that timed out is appended and
  returned at once (`LinAfterCall`, `LinAfterEffect`, `LinAfterReturn`,
  `ExplainedAfterTimeout`).
* `Explained` ties the order to the processes. An operation that did not take effect
  is not in it; one that did is in it where the register had the value that the
  process saw, although its answer is not recorded; and a write that may still take
  effect is the open operation of a process that is given no other (`Dead`). This is
  where it counts that a process is stopped before it is idle again: were one that
  failed used again, a second call would take its open number, and
  its write that comes late would have none.
* `OpenInv` and `StateInv` say who has an open number: a process that is busy, the
  one that the coordinator is about to start, and one that is stopped.
* `Finish` ends what is open. `FinishedIsComplete` gives `LogIsComplete`;
  `FinishedIsLinearizable` appends the operations that are open and not in the order
  (`LinOfAll`), whose returns are unknown and come after everything, which gives
  `NoFalseAlarm`.

`NoConnectionLeft` needs `ConnectionsInv`: a stopped process has a connection only
while its pool is about to be closed, by itself (`pc` is "flagged") or by `Stop`
(`Closing`), and a stopped process that is yet to dial has been cancelled, so that
its dial fails. `Stop` deals with one process after the other, and what it passed is
stopped; when it returns, the first of the two is all that can be left. The window
is real, for TLC reaches states in which `Stop` has returned and `open` is not empty,
and `StopIsFinal` says that it closes.

Only model-checked is what is liveness or has ENABLED: `CatchesUp`, `LeaderElected`,
`OpensAgain`, `StopIsFinal`, `NothingLeftToStart`, and of `VerdictIsTrue` that there is
a verdict in the end. Every invariant and every action property of a passing run is
also a theorem.

## 5. What is left out, and why

* Of the DB: the hash, and lookups that copy fields.
* Of the cluster: data and leaders of the groups, the reporting of persistent
  logs every third report (`PlogIncluded` chooses instead), the choice of the
  server that a report goes to, the plugin hook of the client.
* `handleKillRequest` is one step: it waits for dragonboat to unload the replica.
* `ReplicasToKill` is a list that grows; the model keeps the set.
* Adding and removing Drummer servers (`client.go`) is one call of dragonboat each.
* Liveness of repair: a pass fails as a whole when one shard finds no NodeHost
  for a replacement, and an added replica that never starts blocks its shard, so
  that no progress can be promised that the code keeps; the safety of passes that
  fail half way is checked. Two shards and crashes during a repair multiply the
  states of `shard_repair` beyond what TLC explores in minutes.
* Of the servers: that the leader of the DB's group is the elected one; a server's
  proposals are those of any leader. The scheduler's batches are opaque there.
* Of the checker: the form of its input other than Jepsen's, partitions (the
  register has one key), the bit set's representation.
* Of the recorder: how Drummer comes to name addresses (it may name any of `Targets`), log
  formats, the count of seconds below the wait.
* Of the on disk state machine: writing snapshots, `Sync`, the hash; contents
  beyond the applied index; I/O errors other than as a crash. Dragonboat's
  exclusion of `Open`, `Update` and `RecoverFromSnapshot` is taken for granted,
  and no lookup begins before or goes on after `Close`.
* Not modelled at all: the in memory test state machines (each call is one step
  under a lock), request validation, the monkey test, generated code, scripts,
  the cache of the NodeHost API and the connections other than the recorder's.

## 6. Disagreements found

1. `followerMain` (`election.go:220-229`) takes a rejected renewal for success.
   `renewLeadership` calls `becomeFollower` and returns nil, and `followerMain`
   then calls `becomeLeader`. The instance acts as leader until its next round
   although another one holds the record. Two Drummers scheduling at once is
   what `shard_repair` and `shard_launch` check to be harmless for the shards.
2. `setLeaderInfo` panics when the tick of one holder goes back
   (`election.go:106`). A vote whose proposal timed out belongs to a session
   that is then closed; closing it may fail, which is only logged
   (`drummer.go:92-94`), and the vote may then be applied after a newer one.
3. `Open` of a new replica makes the file `current` durable before the directory
   that it names (`tests/diskkv.go:527-535`), the other way round than
   `RecoverFromSnapshot`. A crash in between makes every later `Open` panic with
   "db dir unexpectedly deleted". Nothing is lost, for nothing had been applied.

Observed while modelling, with no run of its own:

* The bootstrap may be ended before the regions are set: `SetBootstrapped`
  (`server.go:153-156`) asks for nothing, while the API says that a "Bootstrapped
  Drummer will start to schedule raft nodes" (`drummerpb/drummer.proto:296-297`).
  Once enough NodeHosts have reported, `getLaunchRequests` dereferences regions
  that are nil (`scheduler.go:126`): each leader in turn panics until somebody
  sets them. Regions that count more replicas than a shard has members have the
  same end (`scheduler.go:159`), for good, as the record is final. These are the
  two exceptions of `PanicsOnlyUnprepared`.
* `Coordinator.Stop` may return before all connections are closed: a process that
  failed sets its flag and then closes its pool (`lcm/process.go:72-75`), and `Stop`
  passes over a process whose flag is set (`lcm/manager.go:216-219`) and does not
  wait for its goroutine. `NoConnectionLeft` excepts exactly that process.
* `NodeToStartMaxWait` (`settings/soft.go:68-71`) is documented, set and never
  read: a replica that was added and never starts waits for ever.
* `Drummer.Stop` cancels the context before it tells the workers to stop
  (`drummer.go:154`), and `drummerWorker` asks only the latter before it starts
  the RPC server: a server that is being stopped may serve for a moment without
  a deployment id, which is why `ServesWithDeploymentID` excepts it.
* `did` is shadowed in `setDeploymentID` (`drummer.go:247`): the worker sets a
  variable of its own, the outer one stays 0 and `Drummer.deploymentID` is never set.
* `supportRegularSession` caches for the shard asked for the kind of state machine of
  the last shard in the NodeHost's list, whichever that is (`nodehostapi.go:124`).
* `syncNodeHostSpec` keeps the first RPC address of a NodeHost for good
  (`nodehostimage.go:125`).
