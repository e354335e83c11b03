--------------------------- MODULE ElectionProofs ---------------------------
(***************************************************************************)
(* Proofs about Election, for any set of instances, any number of rounds   *)
(* and failures and any deadLeaderMinRound.                                *)
(***************************************************************************)
EXTENDS Election, TLAPS

(* What the election record looks like: once written it is never removed,  *)
(* so that before the first vote nobody knows of any leader.               *)
RecordInv ==
    IF ElectionKey \in DOMAIN kvMap
      THEN /\ kvMap[ElectionKey].instanceId \in Instances
           /\ kvMap[ElectionKey].tick \in Nat
           /\ kvMap[ElectionKey].finalized = FALSE
      ELSE /\ \A i \in Instances : currentLeader[i].instanceId = 0
           /\ \A i \in Instances : vote[i].oldInstanceId = 0
           /\ \A v \in late : v.oldInstanceId = 0
           /\ \A i \in Instances : pc[i] # "renew"

(* A vote names its own instance and, when it is a renewal, no other one.  *)
(* A campaign names the leader that was watched, and found dead.           *)
VoteInv ==
    /\ \A i \in Instances :
          /\ pc[i] \in {"renew", "campaign"} => vote[i].instanceId = i
          /\ pc[i] = "renew" => vote[i].oldInstanceId = 0
          /\ pc[i] = "campaign" =>
                /\ vote[i].oldInstanceId = currentLeader[i].instanceId
                /\ vote[i].oldInstanceId # 0 => LeaderDead(currentLeader[i])
    /\ \A v \in late : v.instanceId \in Instances

Inv == TypeOK /\ RecordInv /\ VoteInv

(* No tick that is remembered anywhere is ahead of the rounds of the        *)
(* instance it belongs to, nor, for the holder of the record, of the record.*)
TickInv ==
    /\ late = {}
    /\ Owner # 0 => Record.tick <= round[Owner]
    /\ \A i \in Instances : pc[i] \in {"renew", "campaign"} => vote[i].tick = round[i]
    /\ \A i \in Instances : currentLeader[i].instanceId # 0 =>
          /\ currentLeader[i].tick <= round[currentLeader[i].instanceId]
          /\ currentLeader[i].instanceId = Owner => currentLeader[i].tick <= Record.tick
    /\ ~unknownState

-----------------------------------------------------------------------------
(* What a proposed vote does to the record (applyKVUpdate): nothing, or it  *)
(* becomes the record, and then the record was missing, the voter's own, or *)
(* that of the leader the vote names.                                       *)
LEMMA ApplyVote ==
    ASSUME NEW v \in Votes, v.instanceId \in Instances,
           DOMAIN kvMap \subseteq {ElectionKey}, RecordInv, Apply(v)
    PROVE  /\ DOMAIN kvMap' \subseteq {ElectionKey}
           /\ \/ kvMap' = kvMap /\ ~Accepted(v)
              \/ /\ Accepted(v)
                 /\ ElectionKey \in DOMAIN kvMap'
                 /\ kvMap'[ElectionKey].instanceId = v.instanceId
                 /\ kvMap'[ElectionKey].tick = v.tick
                 /\ kvMap'[ElectionKey].finalized = FALSE
                 /\ ElectionKey \in DOMAIN kvMap =>
                       Owner \in {v.instanceId, v.oldInstanceId}
  <1> DEFINE kv == VoteKV(v)
  <1>1. /\ kv.key = ElectionKey /\ kv.instanceId = v.instanceId
        /\ kv.oldInstanceId = v.oldInstanceId /\ kv.tick = v.tick
        /\ kv.finalized = FALSE
    BY DEF VoteKV
  <1>2. DBKVUpdated # DBKVFinalized /\ DBKVUpdated # DBKVRejected
    BY DEF DBKVUpdated, DBKVFinalized, DBKVRejected
  <1>3. CASE KVResult(kvMap, kv) # DBKVUpdated
    BY <1>3 DEF Apply, Accepted, UpdateKV
  <1>4. CASE KVResult(kvMap, kv) = DBKVUpdated
    <2>1. kvMap' = [k \in DOMAIN kvMap \cup {ElectionKey} |->
                       IF k = ElectionKey THEN KVRecord(kv) ELSE kvMap[k]]
      BY <1>1, <1>4 DEF Apply, UpdateKV
    <2>2. /\ DOMAIN kvMap' = {ElectionKey}
          /\ kvMap'[ElectionKey] = KVRecord(kv)
      BY <2>1
    <2>3. ElectionKey \in DOMAIN kvMap =>
             kvMap[ElectionKey].instanceId \in {v.instanceId, v.oldInstanceId}
      BY <1>1, <1>2, <1>4 DEF KVResult, RecordInv
    <2> QED
      BY <1>1, <1>4, <2>2, <2>3 DEF KVRecord, Accepted, Owner, Record
  <1> QED
    BY <1>3, <1>4

(* The initial state, in which nobody has voted. *)
LEMMA InitInv == Init => Inv
  <1> SUFFICES ASSUME Init PROVE Inv
    OBVIOUS
  <1>1. ElectionKey \notin DOMAIN kvMap /\ DOMAIN kvMap = {}
    BY DEF Init
  <1>2. Owner = 0 /\ Record.tick = 0 /\ Record.finalized = FALSE
    BY <1>1 DEF Owner, Record
  <1>3. NoVote \in Votes /\ NoVote.oldInstanceId = 0
    BY DEF NoVote, Votes
  <1>4. /\ NoLeader \in [instanceId : Instances \cup {0}, tick : Nat, staticRound : Nat]
        /\ NoLeader.instanceId = 0
    BY DEF NoLeader
  <1>5. TypeOK
    <2>1. /\ state \in [Instances -> {Follower, Leader}]
          /\ currentLeader \in [Instances ->
                [instanceId : Instances \cup {0}, tick : Nat, staticRound : Nat]]
          /\ round \in [Instances -> Nat]
          /\ pc \in [Instances -> {"idle", "renew", "campaign", "confirm"}]
          /\ vote \in [Instances -> Votes]
      BY <1>3, <1>4 DEF Init
    <2>2. /\ DOMAIN kvMap \subseteq {ElectionKey}
          /\ Owner \in Instances \cup {0} /\ Record.tick \in Nat
      BY <1>1, <1>2
    <2>3. late \subseteq Votes /\ alive \subseteq Instances /\ errors \in Nat
      BY DEF Init
    <2>4. unknownState \in BOOLEAN /\ Record.finalized = FALSE
      BY <1>2 DEF Init
    <2> QED
      BY <2>1, <2>2, <2>3, <2>4 DEF TypeOK
  <1>6. RecordInv
    BY <1>1, <1>3, <1>4 DEF Init, RecordInv
  <1>7. VoteInv
    BY DEF Init, VoteInv
  <1> QED
    BY <1>5, <1>6, <1>7 DEF Inv

-----------------------------------------------------------------------------
(* The types of what the managers keep, apart from the record.             *)
LocalTypeOK ==
    /\ state \in [Instances -> {Follower, Leader}]
    /\ currentLeader \in [Instances ->
          [instanceId : Instances \cup {0}, tick : Nat, staticRound : Nat]]
    /\ round \in [Instances -> Nat]
    /\ pc \in [Instances -> {"idle", "renew", "campaign", "confirm"}]
    /\ vote \in [Instances -> Votes]
    /\ late \subseteq Votes
    /\ alive \subseteq Instances
    /\ errors \in Nat

(* What a step is shown to keep: the invariant, with the types in two parts. *)
Parts ==
    /\ LocalTypeOK
    /\ DOMAIN kvMap \subseteq {ElectionKey}
    /\ RecordInv
    /\ VoteInv
    /\ unknownState \in BOOLEAN

(* What a read shows; an absent record shows an instance 0.                *)
LEMMA ObservedRecord ==
    ASSUME TypeOK, RecordInv
    PROVE  /\ Observed \in [instanceId : Instances \cup {0}, tick : Nat, staticRound : Nat]
           /\ Observed.instanceId = Owner
           /\ Observed.tick = Record.tick
           /\ Observed.staticRound = 0
           /\ ElectionKey \in DOMAIN kvMap <=> Owner # 0
  <1>1. Owner \in Instances \cup {0} /\ Record.tick \in Nat
    BY DEF TypeOK
  <1>2. ElectionKey \in DOMAIN kvMap <=> Owner # 0
    BY ElectionAssumption DEF Owner, Record, RecordInv
  <1> QED
    BY <1>1, <1>2 DEF Observed

LEMMA NextLeaderInfo ==
    ASSUME TypeOK, RecordInv,
           NEW cur \in [instanceId : Instances \cup {0}, tick : Nat, staticRound : Nat]
    PROVE  /\ LeaderInfo(cur) \in [instanceId : Instances \cup {0}, tick : Nat,
                                   staticRound : Nat]
           /\ LeaderInfo(cur).instanceId = Owner
           /\ LeaderInfo(cur).tick = Record.tick
  BY ObservedRecord DEF LeaderInfo

(* Every step keeps the invariant.                                         *)
LEMMA NextInv == Inv /\ [Next]_vars => Inv'
  <1> SUFFICES ASSUME Inv, [Next]_vars
               PROVE  Inv'
    OBVIOUS
  <1> USE DEF Inv
  <1>0. LocalTypeOK
    BY DEF TypeOK, LocalTypeOK
  <1>a. /\ Observed \in [instanceId : Instances \cup {0}, tick : Nat, staticRound : Nat]
        /\ Observed.instanceId = Owner
        /\ ElectionKey \in DOMAIN kvMap <=> Owner # 0
    BY ObservedRecord
  <1>1. ASSUME NEW i \in Instances, LeaderMain(i)
        PROVE  Parts'
    <2> USE <1>0, <1>1 DEF LeaderMain
    <2>1. LocalTypeOK'
      <3>1. CASE Owner # i
        BY <3>1, <1>a DEF LocalTypeOK, StartRound, BecomeFollower
      <3>2. CASE Owner = i
        BY <3>2 DEF LocalTypeOK, Votes, StartRound, Renew, Await
      <3> QED
        BY <3>1, <3>2
    <2>2. DOMAIN kvMap' \subseteq {ElectionKey} /\ RecordInv'
      <3>1. kvMap' = kvMap /\ late' = late /\ DOMAIN kvMap \subseteq {ElectionKey}
        BY DEF TypeOK, StartRound
      <3>2. CASE ElectionKey \in DOMAIN kvMap
        BY <3>1, <3>2 DEF RecordInv
      <3>3. CASE ElectionKey \notin DOMAIN kvMap
        BY <3>1, <3>3, <1>a, ElectionAssumption DEF RecordInv,
           LocalTypeOK, StartRound, Renew, Await, BecomeFollower
      <3> QED
        BY <3>2, <3>3
    <2>3. VoteInv'
      BY DEF VoteInv, LocalTypeOK, LeaderMain, StartRound, Renew, Await,
         BecomeFollower, Observed
    <2>4. unknownState' \in BOOLEAN
      BY DEF TypeOK, LeaderMain, StartRound, Renew, Await,
         BecomeFollower, Observed
    <2> QED
      BY <2>1, <2>2, <2>3, <2>4 DEF Parts
  <1>2. ASSUME NEW i \in Instances, FindNoLeader(i)
        PROVE  Parts'
    <2> USE <1>0, <1>2 DEF FindNoLeader
    <2>1. LocalTypeOK'
      BY ElectionAssumption DEF LocalTypeOK, Votes, Follower, Leader,
         FindNoLeader, Follow, StartRound, Campaign, Await
    <2>2. DOMAIN kvMap' \subseteq {ElectionKey} /\ RecordInv'
      BY DEF TypeOK, RecordInv, FindNoLeader, Follow, StartRound,
         Campaign, Await
    <2>3. VoteInv'
      BY <1>a, ElectionAssumption DEF VoteInv, RecordInv, LocalTypeOK,
         Follow, StartRound, Campaign, Await
    <2>4. unknownState' \in BOOLEAN
      BY DEF TypeOK, FindNoLeader, Follow, StartRound, Campaign, Await
    <2> QED
      BY <2>1, <2>2, <2>3, <2>4 DEF Parts
  <1>3. ASSUME NEW i \in Instances, FindItself(i)
        PROVE  Parts'
    <2> USE <1>0, <1>3 DEF FindItself
    <2>1. LocalTypeOK'
      BY ElectionAssumption DEF LocalTypeOK, Votes, Follower, Leader,
         FindItself, Follow, StartRound, Renew, Await
    <2>2. DOMAIN kvMap' \subseteq {ElectionKey} /\ RecordInv'
      <3>1. ElectionKey \in DOMAIN kvMap /\ DOMAIN kvMap \subseteq {ElectionKey}
        BY <1>a, ElectionAssumption DEF TypeOK
      <3> QED
        BY <3>1 DEF RecordInv, Follow, StartRound
    <2>3. VoteInv'
      BY DEF VoteInv, LocalTypeOK, FindItself, Follow, StartRound, Renew, Await
    <2>4. unknownState' \in BOOLEAN
      BY DEF TypeOK, FindItself, Follow, StartRound, Renew, Await
    <2> QED
      BY <2>1, <2>2, <2>3, <2>4 DEF Parts
  <1>4. ASSUME NEW i \in Instances, FindLeader(i)
        PROVE  Parts'
    <2> USE <1>0, <1>4 DEF FindLeader
    <2>1. LocalTypeOK'
      <3>1. /\ LeaderInfo(currentLeader[i]) \in [instanceId : Instances \cup {0},
                                                tick : Nat, staticRound : Nat]
            /\ LeaderInfo(currentLeader[i]).instanceId = Owner
        BY NextLeaderInfo DEF LocalTypeOK
      <3>2. currentLeader' \in [Instances ->
               [instanceId : Instances \cup {0}, tick : Nat, staticRound : Nat]]
        BY <3>1 DEF LocalTypeOK, Follow, StartRound
      <3>3. vote' \in [Instances -> Votes]
        BY <3>1 DEF LocalTypeOK, Votes, Follow, StartRound, Campaign, Await
      <3>4. pc' \in [Instances -> {"idle", "renew", "campaign", "confirm"}]
        BY <3>1 DEF LocalTypeOK, Follow, StartRound, Campaign, Await
      <3>5. /\ round' \in [Instances -> Nat]
            /\ state' = state /\ late' = late /\ errors' = errors
            /\ alive' \subseteq Instances
        BY DEF LocalTypeOK, Follow, StartRound
      <3> QED
        BY <3>2, <3>3, <3>4, <3>5 DEF LocalTypeOK
    <2>2. DOMAIN kvMap' \subseteq {ElectionKey} /\ RecordInv'
      BY <1>a DEF TypeOK, RecordInv, Follow, StartRound
    <2>3. VoteInv'
      BY DEF VoteInv, LocalTypeOK, FindLeader, Follow, StartRound,
         Campaign, Await, LeaderInfo, Observed
    <2>4. unknownState' \in BOOLEAN
      BY DEF TypeOK, FindLeader, Follow, StartRound, Campaign, Await,
         LeaderInfo, Observed
    <2> QED
      BY <2>1, <2>2, <2>3, <2>4 DEF Parts
  <1>5. ASSUME NEW i \in Instances, ReadFails(i)
        PROVE  Parts'
    <2> USE <1>0, <1>5 DEF ReadFails
    <2>1. LocalTypeOK'
      BY ElectionAssumption DEF LocalTypeOK, Votes, Follower, Leader,
         ReadFails, StartRound, Fault, BecomeFollower, ResetFollower,
         NoLeader
    <2>2. DOMAIN kvMap' \subseteq {ElectionKey} /\ RecordInv'
      BY DEF TypeOK, RecordInv, ReadFails, StartRound, Fault,
         BecomeFollower, ResetFollower, NoLeader
    <2>3. VoteInv'
      BY DEF VoteInv, LocalTypeOK, ReadFails, StartRound, Fault,
         BecomeFollower, ResetFollower, NoLeader
    <2>4. unknownState' \in BOOLEAN
      BY DEF TypeOK, ReadFails, StartRound, Fault, BecomeFollower,
         ResetFollower, NoLeader
    <2> QED
      BY <2>1, <2>2, <2>3, <2>4 DEF Parts
  <1>6. ASSUME NEW i \in Instances, RenewVote(i)
        PROVE  Parts'
    <2> USE <1>0, <1>6 DEF RenewVote
    <2>1. LocalTypeOK'
      BY ElectionAssumption DEF LocalTypeOK, Votes, Follower, Leader,
         RenewVote, Idle, BecomeLeader, BecomeFollower, NoLeader, NoVote
    <2>2. DOMAIN kvMap' \subseteq {ElectionKey} /\ RecordInv'
      <3>1. vote[i] \in Votes /\ vote[i].instanceId = i
        BY DEF LocalTypeOK, VoteInv
      <3>2. /\ DOMAIN kvMap' \subseteq {ElectionKey}
            /\ \/ kvMap' = kvMap
               \/ /\ ElectionKey \in DOMAIN kvMap'
                  /\ kvMap'[ElectionKey].instanceId = i
                  /\ kvMap'[ElectionKey].tick = vote[i].tick
                  /\ kvMap'[ElectionKey].finalized = FALSE
        BY <3>1, ApplyVote DEF TypeOK
      <3> QED
        BY <3>1, <3>2 DEF RecordInv, Votes, LocalTypeOK, Idle,
           BecomeLeader, BecomeFollower, NoLeader, NoVote
    <2>3. VoteInv'
      BY DEF VoteInv, LocalTypeOK, RenewVote, Idle, BecomeLeader,
         BecomeFollower, NoLeader, NoVote
    <2>4. unknownState' \in BOOLEAN
      BY DEF TypeOK, RenewVote, Idle, BecomeLeader, BecomeFollower,
         NoLeader, NoVote
    <2> QED
      BY <2>1, <2>2, <2>3, <2>4 DEF Parts
  <1>7. ASSUME NEW i \in Instances, CampaignVote(i)
        PROVE  Parts'
    <2> USE <1>0, <1>7 DEF CampaignVote
    <2>1. LocalTypeOK'
      <3>1. CASE Accepted(vote[i])
        BY <3>1 DEF LocalTypeOK, Votes, NoVote
      <3>2. CASE ~Accepted(vote[i])
        BY <3>2 DEF LocalTypeOK, Votes, Follower, ResetFollower, NoVote
      <3> QED
        BY <3>1, <3>2
    <2>2. DOMAIN kvMap' \subseteq {ElectionKey} /\ RecordInv'
      <3>1. vote[i] \in Votes /\ vote[i].instanceId = i
        BY DEF LocalTypeOK, VoteInv
      <3>2. /\ DOMAIN kvMap' \subseteq {ElectionKey}
            /\ \/ kvMap' = kvMap
               \/ /\ ElectionKey \in DOMAIN kvMap'
                  /\ kvMap'[ElectionKey].instanceId = i
                  /\ kvMap'[ElectionKey].tick = vote[i].tick
                  /\ kvMap'[ElectionKey].finalized = FALSE
        BY <3>1, ApplyVote DEF TypeOK
      <3> QED
        BY <3>1, <3>2 DEF RecordInv, Votes, LocalTypeOK, ResetFollower, NoVote
    <2>3. VoteInv'
      BY DEF VoteInv, LocalTypeOK, CampaignVote, ResetFollower, NoVote
    <2>4. unknownState' \in BOOLEAN
      BY DEF TypeOK, CampaignVote, ResetFollower, NoVote
    <2> QED
      BY <2>1, <2>2, <2>3, <2>4 DEF Parts
  <1>8. ASSUME NEW i \in Instances, Confirm(i)
        PROVE  Parts'
    <2> USE <1>0, <1>8 DEF Confirm
    <2>1. LocalTypeOK'
      BY ElectionAssumption DEF LocalTypeOK, Votes, Follower, Leader,
         Confirm, Idle, BecomeLeader, NoLeader, NoVote
    <2>2. DOMAIN kvMap' \subseteq {ElectionKey} /\ RecordInv'
      BY <1>a, ElectionAssumption DEF TypeOK, RecordInv, Idle,
         BecomeLeader, NoLeader, NoVote
    <2>3. VoteInv'
      BY DEF VoteInv, LocalTypeOK, Confirm, Idle, BecomeLeader, NoLeader, NoVote
    <2>4. unknownState' \in BOOLEAN
      BY DEF TypeOK, Confirm, Idle, BecomeLeader, NoLeader, NoVote
    <2> QED
      BY <2>1, <2>2, <2>3, <2>4 DEF Parts
  <1>9. ASSUME NEW i \in Instances, ConfirmFails(i)
        PROVE  Parts'
    <2> USE <1>0, <1>9 DEF ConfirmFails
    <2>1. LocalTypeOK'
      BY ElectionAssumption DEF LocalTypeOK, Votes, Follower, Leader,
         ConfirmFails, Failure, Fault, Idle, ResetFollower, NoVote
    <2>2. DOMAIN kvMap' \subseteq {ElectionKey} /\ RecordInv'
      BY DEF TypeOK, RecordInv, ConfirmFails, Failure, Fault, Idle,
         ResetFollower, NoVote
    <2>3. VoteInv'
      BY DEF VoteInv, LocalTypeOK, ConfirmFails, Failure, Fault, Idle,
         ResetFollower, NoVote
    <2>4. unknownState' \in BOOLEAN
      BY DEF TypeOK, ConfirmFails, Failure, Fault, Idle, ResetFollower, NoVote
    <2> QED
      BY <2>1, <2>2, <2>3, <2>4 DEF Parts
  <1>10. ASSUME NEW i \in Instances, NoSession(i)
        PROVE  Parts'
    <2> USE <1>0, <1>10 DEF NoSession
    <2>1. LocalTypeOK'
      BY ElectionAssumption DEF LocalTypeOK, Votes, Follower, Leader,
         NoSession, Failure, Fault, Idle, ResetFollower, NoVote
    <2>2. DOMAIN kvMap' \subseteq {ElectionKey} /\ RecordInv'
      BY DEF TypeOK, RecordInv, NoSession, Failure, Fault, Idle,
         ResetFollower, NoVote
    <2>3. VoteInv'
      BY DEF VoteInv, LocalTypeOK, NoSession, Failure, Fault, Idle,
         ResetFollower, NoVote
    <2>4. unknownState' \in BOOLEAN
      BY DEF TypeOK, NoSession, Failure, Fault, Idle, ResetFollower, NoVote
    <2> QED
      BY <2>1, <2>2, <2>3, <2>4 DEF Parts
  <1>11. ASSUME NEW i \in Instances, VoteFails(i)
        PROVE  Parts'
    <2> USE <1>0, <1>11 DEF VoteFails
    <2>1. LocalTypeOK'
      BY ElectionAssumption DEF LocalTypeOK, Votes, Follower, Leader,
         VoteFails, Failure, Fault, Idle, ResetFollower, BecomeFollower,
         NoLeader, NoVote
    <2>2. DOMAIN kvMap' \subseteq {ElectionKey} /\ RecordInv'
      <3>1. vote[i] \in Votes /\ vote[i].instanceId = i
        BY DEF LocalTypeOK, VoteInv, Failure
      <3>2. /\ DOMAIN kvMap' \subseteq {ElectionKey}
            /\ \/ kvMap' = kvMap
               \/ /\ ElectionKey \in DOMAIN kvMap'
                  /\ kvMap'[ElectionKey].instanceId = i
                  /\ kvMap'[ElectionKey].tick = vote[i].tick
                  /\ kvMap'[ElectionKey].finalized = FALSE
        BY <3>1, ApplyVote DEF TypeOK, VoteFails
      <3>3. CASE ElectionKey \in DOMAIN kvMap'
        BY <3>1, <3>2, <3>3 DEF RecordInv, Votes
      <3>4. CASE ElectionKey \notin DOMAIN kvMap'
        <4>1. ElectionKey \notin DOMAIN kvMap
          BY <3>2, <3>4
        <4>2. \A j \in Instances : currentLeader'[j].instanceId = 0
          BY <4>1 DEF RecordInv, LocalTypeOK, ResetFollower,
             BecomeFollower, NoLeader
        <4>3. \A j \in Instances : vote'[j].oldInstanceId = 0 /\ pc'[j] # "renew"
          BY <4>1 DEF RecordInv, LocalTypeOK, Failure, Idle, NoVote
        <4>4. \A v \in late' : v.oldInstanceId = 0
          BY <4>1 DEF RecordInv
        <4> QED
          BY <3>2, <3>4, <4>2, <4>3, <4>4 DEF RecordInv
      <3> QED
        BY <3>2, <3>3, <3>4
    <2>3. VoteInv'
      BY DEF VoteInv, LocalTypeOK, VoteFails, Failure, Fault, Idle,
         ResetFollower, BecomeFollower, NoLeader, NoVote
    <2>4. unknownState' \in BOOLEAN
      BY DEF TypeOK, VoteFails, Failure, Fault, Idle, ResetFollower,
         BecomeFollower, NoLeader, NoVote
    <2> QED
      BY <2>1, <2>2, <2>3, <2>4 DEF Parts
  <1>12. ASSUME NEW i \in Instances, Stop(i)
        PROVE  Parts'
    <2> USE <1>0, <1>12 DEF Stop
    <2>1. LocalTypeOK'
      BY ElectionAssumption DEF LocalTypeOK, Votes, Follower, Leader,
         Stop, Fault
    <2>2. DOMAIN kvMap' \subseteq {ElectionKey} /\ RecordInv'
      BY DEF TypeOK, RecordInv, Stop, Fault
    <2>3. VoteInv'
      BY DEF VoteInv, LocalTypeOK, Stop, Fault
    <2>4. unknownState' \in BOOLEAN
      BY DEF TypeOK, Stop, Fault
    <2> QED
      BY <2>1, <2>2, <2>3, <2>4 DEF Parts
  <1>13. ASSUME NEW v \in late, LateVote(v)
         PROVE  Parts'
    <2> USE <1>0, <1>13 DEF LateVote
    <2>1. v \in Votes /\ v.instanceId \in Instances
      BY DEF LocalTypeOK, VoteInv
    <2>2. LocalTypeOK'
      BY DEF LocalTypeOK
    <2>3. /\ DOMAIN kvMap' \subseteq {ElectionKey}
          /\ \/ kvMap' = kvMap
             \/ /\ ElectionKey \in DOMAIN kvMap'
                /\ kvMap'[ElectionKey].instanceId = v.instanceId
                /\ kvMap'[ElectionKey].tick = v.tick
                /\ kvMap'[ElectionKey].finalized = FALSE
      BY <2>1, ApplyVote DEF TypeOK
    <2>4. RecordInv'
      BY <2>1, <2>3 DEF RecordInv, Votes
    <2>5. VoteInv'
      BY DEF VoteInv
    <2>6. unknownState' \in BOOLEAN
      BY DEF TypeOK
    <2> QED
      BY <2>2, <2>3, <2>4, <2>5, <2>6 DEF Parts
  <1>14. ASSUME UNCHANGED vars
         PROVE  Parts'
    <2> USE <1>0, <1>14 DEF vars
    <2>1. LocalTypeOK'
      BY DEF LocalTypeOK
    <2>2. RecordInv'
      BY DEF RecordInv
    <2>3. VoteInv'
      BY DEF VoteInv
    <2>4. unknownState' \in BOOLEAN /\ DOMAIN kvMap' \subseteq {ElectionKey}
      BY DEF TypeOK
    <2> QED
      BY <2>1, <2>2, <2>3, <2>4 DEF Parts
  <1>15. Parts'
    BY <1>1, <1>2, <1>3, <1>4, <1>5, <1>6, <1>7, <1>8, <1>9, <1>10, <1>11,
       <1>12, <1>13, <1>14 DEF Next, Step, FollowerMain
  <1>16. Owner' \in Instances \cup {0} /\ Record'.tick \in Nat
    BY <1>15 DEF Parts, Owner, Record, RecordInv
  <1>17. Record'.finalized = FALSE
    BY <1>15 DEF Parts, Record, RecordInv
  <1>18. TypeOK'
    BY <1>15, <1>16, <1>17 DEF Parts, TypeOK, LocalTypeOK
  <1> QED
    BY <1>15, <1>18 DEF Parts

(* The invariant holds throughout. *)
THEOREM InvCorrect == Spec => []Inv
  BY InitInv, NextInv, PTL DEF Spec

(* The managers' fields and the record always have their types. *)
THEOREM TypeCorrect == Spec => []TypeOK
  BY InvCorrect, PTL DEF Inv

-----------------------------------------------------------------------------
(* How the record changes hands.                                            *)

(* A step that changes the holder of the record applies one vote, that of   *)
(* an instance that proposes it now or one that was given up on.            *)
LEMMA HolderChange ==
    ASSUME Inv, [Next]_vars, Owner' # Owner
    PROVE  \/ \E i \in Instances :
                 /\ pc[i] \in {"renew", "campaign"}
                 /\ Owner' = i
                 /\ Owner = vote[i].oldInstanceId
           \/ /\ ~(late \subseteq late')
              /\ \E v \in late : Owner' = v.instanceId /\ Owner = v.oldInstanceId
  <1> USE DEF Inv
  <1>0. kvMap' # kvMap
    BY DEF Owner, Record
  <1>1. ASSUME NEW v \in Votes, v.instanceId \in Instances, Apply(v),
               ElectionKey \notin DOMAIN kvMap => v.oldInstanceId = 0
        PROVE  Owner' = v.instanceId /\ Owner = v.oldInstanceId
    <2>1. /\ ElectionKey \in DOMAIN kvMap'
          /\ kvMap'[ElectionKey].instanceId = v.instanceId
          /\ ElectionKey \in DOMAIN kvMap => Owner \in {v.instanceId, v.oldInstanceId}
      BY <1>0, <1>1, ApplyVote DEF TypeOK
    <2>2. Owner' = v.instanceId
      BY <2>1 DEF Owner, Record
    <2>3. CASE ElectionKey \in DOMAIN kvMap
      BY <2>1, <2>2, <2>3
    <2>4. CASE ElectionKey \notin DOMAIN kvMap
      BY <1>1, <2>2, <2>4 DEF Owner, Record
    <2> QED
      BY <2>3, <2>4
  <1>2. ASSUME NEW i \in Instances, Apply(vote[i]), pc[i] \in {"renew", "campaign"}
        PROVE  Owner' = i /\ Owner = vote[i].oldInstanceId
    <2>1. vote[i] \in Votes /\ vote[i].instanceId = i
      BY <1>2 DEF TypeOK, VoteInv
    <2>2. ElectionKey \notin DOMAIN kvMap => vote[i].oldInstanceId = 0
      BY DEF RecordInv
    <2> QED
      BY <1>1, <1>2, <2>1, <2>2
  <1>3. ASSUME NEW v \in late, Apply(v)
        PROVE  Owner' = v.instanceId /\ Owner = v.oldInstanceId
    <2>1. v \in Votes /\ v.instanceId \in Instances
      BY DEF TypeOK, VoteInv
    <2>2. ElectionKey \notin DOMAIN kvMap => v.oldInstanceId = 0
      BY DEF RecordInv
    <2> QED
      BY <1>1, <1>3, <2>1, <2>2
  <1>4. \/ \E i \in Instances : RenewVote(i) \/ CampaignVote(i) \/ VoteFails(i)
        \/ \E v \in late : LateVote(v)
    BY <1>0 DEF Next, Step, FollowerMain, LeaderMain, FindNoLeader, FindItself,
       FindLeader, Follow, StartRound, ReadFails, Confirm, ConfirmFails,
       NoSession, Stop, vars
  <1>5. ASSUME NEW i \in Instances, RenewVote(i) \/ CampaignVote(i) \/ VoteFails(i)
        PROVE  Apply(vote[i]) /\ pc[i] \in {"renew", "campaign"}
    BY <1>0, <1>5 DEF RenewVote, CampaignVote, VoteFails
  <1>6. ASSUME NEW v \in late, LateVote(v)
        PROVE  Apply(v) /\ ~(late \subseteq late')
    BY <1>6 DEF LateVote
  <1> QED
    BY <1>2, <1>3, <1>4, <1>5, <1>6

(* Of two campaigns against one dead leader one succeeds, and a renewal     *)
(* never takes the record from another instance, however late votes are     *)
(* applied (the comparison of instance ids in applyKVUpdate).               *)
THEOREM TakeoverNamesHolderCorrect == Spec => TakeoverNamesHolder
  <1>1. ASSUME Inv, [Next]_vars, Owner' # Owner
        PROVE  \E v \in late \cup {vote[i] : i \in Instances} :
                  Owner' = v.instanceId /\ Owner = v.oldInstanceId
    <2>1. CASE \E i \in Instances :
                 /\ pc[i] \in {"renew", "campaign"}
                 /\ Owner' = i
                 /\ Owner = vote[i].oldInstanceId
      BY <1>1, <2>1 DEF Inv, VoteInv
    <2>2. CASE \E v \in late : Owner' = v.instanceId /\ Owner = v.oldInstanceId
      BY <2>2
    <2> QED
      BY <1>1, <2>1, <2>2, HolderChange
  <1>2. Inv /\ [Next]_vars => [Owner' # Owner =>
          \E v \in late \cup {vote[i] : i \in Instances} :
             Owner' = v.instanceId /\ Owner = v.oldInstanceId]_vars
    BY <1>1
  <1> QED
    BY InvCorrect, <1>2, PTL DEF Spec, TakeoverNamesHolder

(* Late votes apart, the record changes hands only to an instance that      *)
(* campaigns, from nobody or from a leader it watched stand still for more  *)
(* than deadLeaderMinRound rounds (followerMain and campaign of             *)
(* election.go).                                                            *)
THEOREM TakeoverFromDeadCorrect == Spec => TakeoverFromDead
  <1>1. ASSUME Inv, [Next]_vars, Owner' # Owner, late \subseteq late'
        PROVE  \E i \in Instances :
                 /\ Owner' = i
                 /\ pc[i] = "campaign"
                 /\ \/ Owner = 0
                    \/ /\ currentLeader[i].instanceId = Owner
                       /\ LeaderDead(currentLeader[i])
    <2>1. PICK i \in Instances : /\ pc[i] \in {"renew", "campaign"}
                                /\ Owner' = i
                                /\ Owner = vote[i].oldInstanceId
      BY <1>1, HolderChange
    <2>2. CASE pc[i] = "campaign"
      BY <1>1, <2>1, <2>2 DEF Inv, VoteInv
    <2>3. CASE pc[i] = "renew"
      \* A renewal names no old instance, and there is a record by then.
      <3>1. Owner = 0
        BY <1>1, <2>1, <2>3 DEF Inv, VoteInv
      <3>2. ElectionKey \in DOMAIN kvMap
        BY <1>1, <2>3 DEF Inv, RecordInv
      <3> QED
        BY <1>1, <3>1, <3>2, ObservedRecord DEF Inv
    <2> QED
      BY <2>1, <2>2, <2>3
  <1>2. Inv /\ [Next]_vars => [Owner' # Owner /\ late \subseteq late' =>
          \E i \in Instances :
             /\ Owner' = i
             /\ pc[i] = "campaign"
             /\ \/ Owner = 0
                \/ /\ currentLeader[i].instanceId = Owner
                   /\ LeaderDead(currentLeader[i])]_vars
    BY <1>1
  <1> QED
    BY InvCorrect, <1>2, PTL DEF Spec, TakeoverFromDead

-----------------------------------------------------------------------------
(* Votes that do not outlive their sessions.                                *)

(* No vote is ever waiting to be applied late. *)
LEMMA NoLateVotes ==
    ASSUME LateVotes = FALSE
    PROVE  Spec => [](late = {})
  <1>1. Init => late = {}
    BY DEF Init
  <1>2. ASSUME late = {}, [Next]_vars
        PROVE  late' = {}
    <2>1. CASE \E i \in Instances : VoteFails(i)
      BY <1>2, <2>1 DEF VoteFails
    <2>2. CASE ~\E i \in Instances : VoteFails(i)
      BY <1>2, <2>2 DEF Next, Step, FollowerMain, LeaderMain, FindNoLeader,
         FindItself, FindLeader, Follow, StartRound, ReadFails, RenewVote,
         CampaignVote, Confirm, ConfirmFails, NoSession, Stop, vars
    <2> QED
      BY <2>1, <2>2
  <1>3. late = {} /\ [Next]_vars => (late = {})'
    BY <1>2
  <1> QED
    BY <1>1, <1>3, PTL DEF Spec

-----------------------------------------------------------------------------
(* What setLeaderInfo takes for granted.                                    *)

(* A vote leaves the tick of the record alone or sets it to that of the     *)
(* round that the voter is in.                                              *)
LEMMA VotedTick ==
    ASSUME Inv, TickInv, NEW i \in Instances, Apply(vote[i]),
           pc[i] \in {"renew", "campaign"}
    PROVE  \/ Owner' = Owner /\ Record'.tick = Record.tick
           \/ Owner' = i /\ Record'.tick = round[i]
  <1>1. /\ vote[i] \in Votes /\ vote[i].instanceId = i
        /\ vote[i].tick = round[i]
        /\ DOMAIN kvMap \subseteq {ElectionKey} /\ RecordInv
    BY DEF Inv, TypeOK, VoteInv, TickInv
  <1>2. CASE kvMap' = kvMap
    BY <1>2 DEF Owner, Record
  <1>3. CASE kvMap' # kvMap
    <2>1. /\ ElectionKey \in DOMAIN kvMap'
          /\ kvMap'[ElectionKey].instanceId = i
          /\ kvMap'[ElectionKey].tick = round[i]
      BY <1>1, <1>3, ApplyVote
    <2> QED
      BY <2>1 DEF Owner, Record
  <1> QED
    BY <1>2, <1>3

(* No step makes a tick that is remembered of the holder later than the     *)
(* tick of the record, when votes do not outlive their sessions.            *)
LEMMA TickNext ==
    LateVotes = FALSE => (Inv /\ TickInv /\ [Next]_vars => TickInv')
  <1> SUFFICES ASSUME LateVotes = FALSE, Inv, TickInv, [Next]_vars
               PROVE  TickInv'
    OBVIOUS
  <1>0. LocalTypeOK /\ Owner \in Instances \cup {0} /\ Record.tick \in Nat
    BY DEF Inv, TypeOK, LocalTypeOK
  <1>a. kvMap' = kvMap => Owner' = Owner /\ Record' = Record
    BY DEF Owner, Record
  <1>1. ASSUME NEW i \in Instances, LeaderMain(i)
        PROVE  TickInv'
    BY <1>0, <1>1, <1>a, ElectionAssumption DEF TickInv, LocalTypeOK,
       LeaderMain, StartRound, Renew, Await, BecomeFollower, Observed
  <1>2. ASSUME NEW i \in Instances, FindNoLeader(i) \/ FindItself(i)
        PROVE  TickInv'
    BY <1>0, <1>2, <1>a DEF TickInv, LocalTypeOK, FindNoLeader, FindItself,
       Follow, StartRound, Renew, Campaign, Await
  <1>3. ASSUME NEW i \in Instances, FindLeader(i)
        PROVE  TickInv'
    BY <1>0, <1>3, <1>a DEF TickInv, LocalTypeOK, FindLeader, Follow,
       StartRound, Campaign, Await, LeaderInfo, Observed, TickWentBack
  <1>4. ASSUME NEW i \in Instances, ReadFails(i)
        PROVE  TickInv'
    BY <1>0, <1>4, <1>a DEF TickInv, LocalTypeOK, ReadFails, StartRound,
       BecomeFollower, ResetFollower, NoLeader
  <1>5. ASSUME NEW i \in Instances, RenewVote(i)
        PROVE  TickInv'
    BY <1>0, <1>5, VotedTick DEF TickInv, LocalTypeOK, RenewVote, Idle,
       BecomeLeader, BecomeFollower, NoLeader
  <1>6. ASSUME NEW i \in Instances, CampaignVote(i)
        PROVE  TickInv'
    BY <1>0, <1>6, VotedTick DEF TickInv, LocalTypeOK, CampaignVote,
       ResetFollower
  <1>7. ASSUME NEW i \in Instances, Confirm(i) \/ ConfirmFails(i) \/ NoSession(i)
        PROVE  TickInv'
    BY <1>0, <1>7, <1>a DEF TickInv, LocalTypeOK, Confirm, ConfirmFails,
       NoSession, Failure, Idle, BecomeLeader, ResetFollower, NoLeader
  <1>8. ASSUME NEW i \in Instances, VoteFails(i)
        PROVE  TickInv'
    BY <1>0, <1>8, <1>a, VotedTick DEF TickInv, LocalTypeOK, VoteFails,
       Failure, Idle, BecomeFollower, ResetFollower, NoLeader
  <1>9. ASSUME (\E i \in Instances : Stop(i)) \/ UNCHANGED vars
        PROVE  TickInv'
    BY <1>9, <1>a DEF TickInv, Stop, vars
  <1> QED
    BY <1>1, <1>2, <1>3, <1>4, <1>5, <1>6, <1>7, <1>8, <1>9
       DEF Next, Step, FollowerMain, TickInv

(* As long as no vote outlives its session, the tick of one holder of the   *)
(* record never goes back and setLeaderInfo of election.go does not panic.  *)
THEOREM TickNeverWentBackCorrect ==
    ASSUME LateVotes = FALSE
    PROVE  Spec => []TickNeverWentBack
  <1>1. Init => TickInv
    BY InitInv DEF Init, TickInv, Owner, Record, NoLeader
  <1>2. Inv /\ TickInv /\ [Next]_vars => TickInv'
    BY TickNext
  <1>3. TickInv => TickNeverWentBack
    BY DEF TickInv, TickNeverWentBack
  <1> QED
    BY InvCorrect, <1>1, <1>2, <1>3, PTL DEF Spec
=============================================================================
