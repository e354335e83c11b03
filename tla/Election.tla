------------------------------ MODULE Election ------------------------------
(***************************************************************************)
(* The election of the leader Drummer (election.go): every server runs an  *)
(* election manager that, once a round, reads the election record of the   *)
(* Drummer DB and, depending on what it finds, renews its leadership or    *)
(* campaigns with a conditional write (applyKVUpdate).                     *)
(*                                                                         *)
(* A read, a vote and the confirming read of a campaign are separate steps *)
(* for other servers act in between.  A lookup or a proposal may fail.  A  *)
(* proposal that fails may still have been applied, or be applied later:   *)
(* the session it belongs to is closed then, but closing may fail too, and *)
(* the code goes on all the same.                                          *)
(***************************************************************************)
EXTENDS DrummerKV, Integers, FiniteSets

CONSTANTS Instances,           \* the random ids of the election managers
          DeadLeaderMinRound,  \* deadLeaderMinRound
          LateVotes,           \* may a vote outlive the session it was cast in?
          MaxRounds, MaxErrors,
          LastFaultyRound      \* bounds of the model

ASSUME ElectionAssumption ==
    /\ Instances \subseteq Nat \ {0}
    /\ DeadLeaderMinRound \in Nat

ElectionKey == "election"
Follower    == "follower"
Leader      == "leader"
NoLeader    == [instanceId |-> 0, tick |-> 0, staticRound |-> 0]
NoVote      == [instanceId |-> 0, oldInstanceId |-> 0, tick |-> 0]

VARIABLES
    kvMap,          \* the part of the DB's KVMap that holds the record
    state,          \* instance :> follower or leader
    currentLeader,  \* instance :> leaderInfo, NoLeader for nil
    round,          \* instance :> the tick of workerMain
    pc,             \* instance :> what it is waiting for
    vote,           \* instance :> the vote it is about to propose
    late,           \* votes given up on that may still be applied
    alive,          \* the instances that run
    errors,         \* failures so far
    unknownState    \* setLeaderInfo panicked

vars == <<kvMap, state, currentLeader, round, pc, vote, late, alive, errors,
          unknownState>>

Init ==
    /\ kvMap = [k \in {} |-> k]
    /\ state = [i \in Instances |-> Follower]
    /\ currentLeader = [i \in Instances |-> NoLeader]
    /\ round = [i \in Instances |-> 0]
    /\ pc = [i \in Instances |-> "idle"]
    /\ vote = [i \in Instances |-> NoVote]
    /\ late = {}
    /\ alive = Instances
    /\ errors = 0
    /\ unknownState = FALSE

\* getElectionInfo: an absent record reads as one of instance 0.
Record == IF ElectionKey \in DOMAIN kvMap THEN kvMap[ElectionKey]
          ELSE [value |-> "", instanceId |-> 0, tick |-> 0, finalized |-> FALSE]
Owner  == Record.instanceId

VoteKV(v) ==
    [key |-> ElectionKey, value |-> ElectionKey, instanceId |-> v.instanceId,
     oldInstanceId |-> v.oldInstanceId, tick |-> v.tick, finalized |-> FALSE]

Accepted(v) == KVResult(kvMap, VoteKV(v)) = DBKVUpdated
Apply(v)    == kvMap' = UpdateKV(kvMap, VoteKV(v))

-----------------------------------------------------------------------------
(* The transitions of the local state.                                     *)

BecomeFollower(i, l) ==
    /\ state' = [state EXCEPT ![i] = Follower]
    /\ currentLeader' = [currentLeader EXCEPT ![i] = l]

ResetFollower(i) ==
    /\ state' = [state EXCEPT ![i] = Follower]
    /\ currentLeader' = [currentLeader EXCEPT ![i].staticRound = 0]

BecomeLeader(i) ==
    /\ state' = [state EXCEPT ![i] = Leader]
    /\ currentLeader' = [currentLeader EXCEPT ![i] = NoLeader]

Observed == [instanceId |-> Owner, tick |-> Record.tick, staticRound |-> 0]

\* Faulty variant: each round starts the count anew.
LeaderInfoAlwaysNew(cur) == Observed

\* setLeaderInfo: a leader whose tick stands still grows static.
LeaderInfo(cur) ==
    IF cur.instanceId = Owner /\ cur.tick = Record.tick
      THEN [cur EXCEPT !.staticRound = @ + 1] ELSE Observed

\* Faulty variant: off by one, a tick that stands still is taken for an old one.
TickWentBackOrStill(cur) == cur.instanceId = Owner /\ cur.tick >= Record.tick

TickWentBack(cur) == cur.instanceId = Owner /\ cur.tick > Record.tick

LeaderDead(cur) == cur.staticRound > DeadLeaderMinRound

-----------------------------------------------------------------------------
(* One round: the worker's timer fires and the record is read.             *)

StartRound(i) ==
    /\ i \in alive
    /\ pc[i] = "idle"
    /\ round[i] < MaxRounds
    /\ round' = [round EXCEPT ![i] = @ + 1]
    /\ UNCHANGED <<kvMap, late>>

\* The bounds leave the last rounds free of faults.
Fault ==
    /\ errors < MaxErrors
    /\ \A i \in Instances : round[i] <= LastFaultyRound
    /\ errors' = errors + 1

\* Faulty variant: votes carry the tick of an earlier round.
AwaitWithOldTick(i, place, old) ==
    /\ pc' = [pc EXCEPT ![i] = place]
    /\ vote' = [vote EXCEPT ![i] =
          [instanceId |-> i, oldInstanceId |-> old, tick |-> round[i] - 1]]

Await(i, place, old) ==
    /\ pc' = [pc EXCEPT ![i] = place]
    /\ vote' = [vote EXCEPT ![i] =
          [instanceId |-> i, oldInstanceId |-> old, tick |-> round[i] + 1]]

Renew(i)       == Await(i, "renew", 0)
Campaign(i, l) == Await(i, "campaign", l.instanceId)

ReadFails(i) ==
    /\ StartRound(i)
    /\ Fault
    /\ IF state[i] = Leader THEN BecomeFollower(i, NoLeader) ELSE ResetFollower(i)
    /\ UNCHANGED <<pc, vote, alive, unknownState>>

LeaderMain(i) ==
    /\ StartRound(i)
    /\ state[i] = Leader
    /\ IF Owner # i
         THEN BecomeFollower(i, Observed) /\ UNCHANGED <<pc, vote>>
         ELSE Renew(i) /\ UNCHANGED <<state, currentLeader>>
    /\ UNCHANGED <<alive, errors, unknownState>>

Follow(i) ==
    /\ StartRound(i)
    /\ state[i] = Follower
    /\ UNCHANGED <<state, errors>>

FindNoLeader(i) ==
    /\ Follow(i)
    /\ Owner = 0
    /\ Campaign(i, currentLeader[i])
    /\ UNCHANGED <<currentLeader, alive, unknownState>>

\* A record of its own that a follower finds is one whose vote it gave up on.
FindItself(i) ==
    /\ Follow(i)
    /\ Owner = i
    /\ Renew(i)
    /\ UNCHANGED <<currentLeader, alive, unknownState>>

FindLeader(i) ==
    LET info == LeaderInfo(currentLeader[i])
    IN  /\ Follow(i)
        /\ Owner \notin {0, i}
        /\ IF TickWentBack(currentLeader[i])
             THEN /\ unknownState' = TRUE
                  /\ alive' = alive \ {i}
                  /\ UNCHANGED <<currentLeader, pc, vote>>
             ELSE /\ currentLeader' = [currentLeader EXCEPT ![i] = info]
                  /\ IF LeaderDead(info) THEN Campaign(i, info)
                                         ELSE UNCHANGED <<pc, vote>>
                  /\ UNCHANGED <<alive, unknownState>>

FollowerMain(i) == FindNoLeader(i) \/ FindItself(i) \/ FindLeader(i)

-----------------------------------------------------------------------------
(* The vote.                                                               *)

Idle(i) == pc' = [pc EXCEPT ![i] = "idle"] /\ vote' = [vote EXCEPT ![i] = NoVote]

\* The code tells a renewal as leader from one as follower: a follower becomes
\* the leader after it, even when the vote was rejected.
RenewVote(i) ==
    /\ i \in alive
    /\ pc[i] = "renew"
    /\ Apply(vote[i])
    /\ Idle(i)
    /\ IF state[i] = Follower THEN BecomeLeader(i)
       ELSE IF Accepted(vote[i]) THEN UNCHANGED <<state, currentLeader>>
       ELSE BecomeFollower(i, NoLeader)
    /\ UNCHANGED <<round, late, alive, errors, unknownState>>

CampaignVote(i) ==
    /\ i \in alive
    /\ pc[i] = "campaign"
    /\ Apply(vote[i])
    /\ vote' = [vote EXCEPT ![i] = NoVote]
    /\ IF Accepted(vote[i])
         THEN /\ pc' = [pc EXCEPT ![i] = "confirm"]
              /\ UNCHANGED <<state, currentLeader>>
         ELSE /\ pc' = [pc EXCEPT ![i] = "idle"]
              /\ ResetFollower(i)
    /\ UNCHANGED <<round, late, alive, errors, unknownState>>

\* After the vote was accepted the record is read once more.
Confirm(i) ==
    /\ i \in alive
    /\ pc[i] = "confirm"
    /\ Idle(i)
    /\ IF Owner = i THEN BecomeLeader(i) ELSE UNCHANGED <<state, currentLeader>>
    /\ UNCHANGED <<kvMap, round, late, alive, errors, unknownState>>

Failure(i) ==
    /\ i \in alive
    /\ Fault
    /\ Idle(i)
    /\ UNCHANGED <<round, alive, unknownState>>

ConfirmFails(i) ==
    /\ Failure(i)
    /\ pc[i] = "confirm"
    /\ ResetFollower(i)
    /\ UNCHANGED <<kvMap, late>>

\* No session: a leader stays one, a campaign ends.
NoSession(i) ==
    /\ Failure(i)
    /\ pc[i] \in {"renew", "campaign"}
    /\ IF pc[i] = "renew" /\ state[i] = Follower
         THEN ResetFollower(i) ELSE UNCHANGED <<state, currentLeader>>
    /\ UNCHANGED <<kvMap, late>>

\* The proposal fails: never applied, applied all the same, or still under way.
VoteFails(i) ==
    /\ Failure(i)
    /\ pc[i] \in {"renew", "campaign"}
    /\ IF pc[i] = "renew" THEN BecomeFollower(i, NoLeader) ELSE ResetFollower(i)
    /\ \/ UNCHANGED <<kvMap, late>>
       \/ Apply(vote[i]) /\ UNCHANGED late
       \/ LateVotes /\ late' = late \cup {vote[i]} /\ UNCHANGED kvMap

LateVote(v) ==
    /\ Apply(v)
    /\ late' = late \ {v}
    /\ UNCHANGED <<state, currentLeader, round, pc, vote, alive, errors, unknownState>>

\* A server stops for good; a restarted one has a new id.
Stop(i) ==
    /\ i \in alive
    /\ Fault
    /\ alive' = alive \ {i}
    /\ UNCHANGED <<kvMap, state, currentLeader, round, pc, vote, late, unknownState>>

Step(i) ==
    \/ LeaderMain(i) \/ FollowerMain(i)
    \/ RenewVote(i) \/ CampaignVote(i) \/ Confirm(i)

Next ==
    \/ \E i \in Instances :
          \/ Step(i)
          \/ ReadFails(i) \/ ConfirmFails(i) \/ NoSession(i) \/ VoteFails(i)
          \/ Stop(i)
    \/ \E v \in late : LateVote(v)

\* Every server's timer keeps firing and its calls return, within their
\* timeouts.
Fairness == \A i \in Instances : WF_vars(Step(i))

Spec == Init /\ [][Next]_vars /\ Fairness

-----------------------------------------------------------------------------
Votes == [instanceId : Instances \cup {0}, oldInstanceId : Instances \cup {0}, tick : Nat]

(* The types of the election managers' fields. *)
TypeOK ==
    /\ DOMAIN kvMap \subseteq {ElectionKey}
    /\ Owner \in Instances \cup {0}
    /\ Record.tick \in Nat
    /\ Record.finalized = FALSE
    /\ state \in [Instances -> {Follower, Leader}]
    /\ currentLeader \in [Instances ->
          [instanceId : Instances \cup {0}, tick : Nat, staticRound : Nat]]
    /\ round \in [Instances -> Nat]
    /\ pc \in [Instances -> {"idle", "renew", "campaign", "confirm"}]
    /\ vote \in [Instances -> Votes]
    /\ late \subseteq Votes
    /\ alive \subseteq Instances
    /\ errors \in Nat
    /\ unknownState \in BOOLEAN

(* Votes that outlive their session apart, the record changes hands only to *)
(* an instance that campaigns, and only when nobody held it or the          *)
(* campaigner watched its holder's tick stand still for more than           *)
(* deadLeaderMinRound rounds: a renewal never takes leadership back,        *)
(* whatever was lost or applied before it.                                  *)
TakeoverFromDead ==
    [][Owner' # Owner /\ late \subseteq late' =>
          \E i \in Instances :
             /\ Owner' = i
             /\ pc[i] = "campaign"
             /\ \/ Owner = 0
                \/ /\ currentLeader[i].instanceId = Owner
                   /\ LeaderDead(currentLeader[i])]_vars

(* A vote that outlives its session still takes the record only from the    *)
(* holder it names: of two campaigns against one dead leader one succeeds,  *)
(* and a renewal never takes back what another instance holds.              *)
TakeoverNamesHolder ==
    [][Owner' # Owner =>
          \E v \in late \cup {vote[i] : i \in Instances} :
             Owner' = v.instanceId /\ Owner = v.oldInstanceId]_vars

(* What setLeaderInfo takes for granted: the tick of one holder of the      *)
(* record never goes back.                                                  *)
TickNeverWentBack == ~unknownState

(* An instance calls itself leader only if the last answer it had from the  *)
(* DB, a vote or a read, said that the record is its own.                   *)
BecomesLeaderAsOwner ==
    [][\A i \in Instances :
          state[i] = Follower /\ state'[i] = Leader => Owner' = i]_vars

(* Once servers and the DB stop failing there is, before long and from then *)
(* on, a server that runs and acts as the leader: a dead leader's record is *)
(* taken over, and rivals never talk each other out of it for good.         *)
LeaderElected == <>[](\E i \in alive : state[i] = Leader)
=============================================================================
