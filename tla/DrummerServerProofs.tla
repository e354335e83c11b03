------------------------ MODULE DrummerServerProofs ------------------------
(***************************************************************************)
(* Proofs about the Drummer servers and their users as DrummerServer has   *)
(* them: for any set of servers, users and ids, and any number of calls,   *)
(* failures and stops.                                                     *)
(***************************************************************************)
EXTENDS DrummerServer, TLAPS

-----------------------------------------------------------------------------
(* The inductive invariant.                                                *)

Waits  == {"deploymentIDWait", "updateWait", "shardWait", "bootstrapWait"}
Places == Waits \cup {"deploymentID", "start", "main", "ended", "idle", "close"}

Proposed == {TickCmd, RequestsCmd}
              \cup {KVCmd(DeploymentIdKey, id) : id \in DeploymentIds}
              \cup {KVCmd(BootstrappedKey, 1)}
              \cup {ShardCmd(UserShard[u]) : u \in Users}

Results == [code : {"tick", "requests", "bootstrapped", "exists",
                    DBKVUpdated, DBKVFinalized, DBKVRejected}, value : Nat]
Answers == Results \cup {NoAnswer, Rejected}

Records == [value : Nat, instanceId : {0}, tick : {0}, finalized : {TRUE}]

\* Proposals on their way, the ends of sessions apart.
Sent == {p \in wire : p.cmd # CloseCmd}

Answer(a) == answer[a] \in Results
Stopped(a) == a \in Drummers /\ stop[a] # "no"

Types ==
    /\ calls \in Nat
    /\ call \in [Actors -> 0..calls]
    /\ session \in [Actors -> [id : 0..calls, series : Nat]]
    /\ closing \in [Actors -> 0..calls]
    /\ answer \in [Actors -> Answers]
    /\ pc \in [Actors -> Places]
    /\ wire \subseteq [actor : Actors, call : 0..calls,
                       session : [id : 1..calls, series : Nat],
                       cmd : Proposed \cup {CloseCmd}]
    /\ Sessions \subseteq 1..calls
    /\ registered \in [Sessions -> [series : Nat, result : Answers]]
    /\ applied \in Seq([call : Nat, result : Results])
    /\ tick \in Nat
    /\ stop \in [Drummers -> {"no", "cancelled", "stopped"}]

\* A call is proposed once and applied once, and a session has at most one
\* proposal on its way: that of the call its owner waits for, or of the one
\* that a server which is being stopped has abandoned.
CallInv ==
    /\ \A p \in Sent : p.call # 0
    /\ \A p, q \in Sent : p.call = q.call \/ p.session.id = q.session.id => p = q
    /\ \A p \in Sent, n \in DOMAIN applied : applied[n].call # p.call
    /\ \A n \in DOMAIN applied : applied[n].call \in 1..calls
    /\ \A m, n \in DOMAIN applied : applied[m].call = applied[n].call => m = n
    /\ \A p \in Sent, a \in Actors :
          /\ call[a] = p.call => p.actor = a /\ p.session = session[a]
          /\ session[a].id = p.session.id =>
                /\ p.actor = a
                /\ p.session = session[a]
                /\ call[a] = p.call \/ (call[a] = 0 /\ Stopped(a))

\* A session that is in use is registered, is its owner's only, and has not
\* answered the series number that is used next.
SessionInv ==
    /\ \A a, b \in Actors : session[a].id = session[b].id /\ session[a].id # 0 => a = b
    /\ \A a \in Actors :
          /\ call[a] # 0 => session[a].id # 0 /\ pc[a] \in Waits
          /\ closing[a] # 0 => pc[a] = "close"
          /\ session[a].id = 0 => session[a] = NoSession
          /\ session[a].id # 0 => session[a].id \in Sessions
    /\ \A a \in Actors : session[a].id # 0 =>
          LET last == registered[session[a].id].series
          IN  /\ last <= session[a].series
              /\ call[a] # 0 /\ answer[a] = NoAnswer => last < session[a].series
              /\ call[a] = 0 => last < session[a].series \/ Stopped(a)
    /\ \A p \in wire, a \in Actors : p.cmd = CloseCmd => session[a].id # p.session.id

\* An answer is the result of the call that was applied.
AnswerInv ==
    /\ \A a \in Actors :
          /\ call[a] = 0 => answer[a] = NoAnswer
          /\ answer[a] # NoAnswer => \A p \in Sent : p.call # call[a]
          /\ Answer(a) => \E n \in DOMAIN applied :
                              applied[n] = [call |-> call[a], result |-> answer[a]]
    /\ \A k \in acked : \E n \in DOMAIN applied : applied[n] = k

\* A proposal on its way whose session is registered is waited for, or the
\* session is being closed, or it could not be.
LateInv ==
    \A p \in Sent : p.session.id \in Sessions =>
        \/ call[p.actor] = p.call
        \/ closing[p.actor] = p.session.id
        \/ p.session.id \in unclosed

RaftInv == Types /\ CallInv /\ SessionInv /\ AnswerInv /\ LateInv

\* What is waited for at a place is what was proposed there, and what its
\* answer says of the DB remains true, for records and shards never change.
ProposedHere(p) ==
    /\ pc[p.actor] = "deploymentIDWait" => p.cmd = KVCmd(DeploymentIdKey, uintDid[p.actor])
    /\ pc[p.actor] = "shardWait" => p.cmd = ShardCmd(UserShard[p.actor])

ActorInv(a) ==
    /\ \A p \in Sent : p.actor = a /\ call[a] = p.call => ProposedHere(p)
    /\ a \in Users =>
          /\ pc[a] \notin {"deploymentIDWait", "start"}
          /\ pc[a] = "shardWait" /\ Answer(a) =>
                answer[a].code = "bootstrapped" \/ UserShard[a] \in shards
          /\ reply[a] = "nil" => UserShard[a] \in shards
    /\ a \in Drummers =>
          /\ pc[a] # "shardWait"
          /\ pc[a] = "deploymentIDWait" =>
                /\ uintDid[a] \in DeploymentIds
                /\ Answer(a) => /\ DeploymentIdKey \in DOMAIN kvMap
                                /\ answer[a].code = DBKVUpdated =>
                                      kvMap[DeploymentIdKey].value = uintDid[a]
          /\ learned[a] # Unknown =>
                /\ DeploymentIdKey \in DOMAIN kvMap
                /\ learned[a] = kvMap[DeploymentIdKey].value
          /\ pc[a] = "start" \/ a \in serving => learned[a] # Unknown \/ stop[a] # "no"

DBTypes ==
    /\ kvMap \in [DOMAIN kvMap -> Records]
    /\ DeploymentIdKey \in DOMAIN kvMap => kvMap[DeploymentIdKey].value \in DeploymentIds
    /\ uintDid \in [Drummers -> Nat] /\ learned \in [Drummers -> Nat]
    /\ reply \in [Users -> {"none", "nil", "ErrInvalidRequest", "error"}]
    /\ serving \subseteq Drummers

DBInv == DBTypes /\ \A a \in Actors : ActorInv(a)

Inv == RaftInv /\ DBInv

-----------------------------------------------------------------------------
(* The initial state.                                                      *)

(* A caller that has no answer, or whose session is gone, was told nothing. *)
LEMMA NoAnswerIsNoResult == NoAnswer \notin Results /\ Rejected \notin Results
  BY DEF NoAnswer, Rejected, Result, Results, DBKVUpdated, DBKVFinalized, DBKVRejected

(* Nobody has called, and no id is known.                                  *)
LEMMA InitInv ==
    ASSUME Init
    PROVE  Inv
  <1> USE DEF Init, NoSession, NoAnswer, Result
  <1>1. Types
    BY DEF Types, Answers, Sessions, Places, Actors
  <1>2. CallInv /\ LateInv
    BY DEF CallInv, LateInv, Sent, Sessions
  <1>3. SessionInv
    BY DEF SessionInv
  <1>4. AnswerInv
    BY DEF AnswerInv, Sent, Answer, Results, DBKVUpdated, DBKVFinalized, DBKVRejected
  <1>5. DBInv
    <2>1. DBTypes
      BY DEF DBTypes, Unknown
    <2>2. \A a \in Actors : ActorInv(a)
      BY ServerAssumption, NoAnswerIsNoResult DEF ActorInv, Sent, Unknown, Answer, Actors
    <2> QED
      BY <2>1, <2>2 DEF DBInv
  <1> QED
    BY <1>1, <1>2, <1>3, <1>4, <1>5 DEF Inv, RaftInv

-----------------------------------------------------------------------------
(* Calls and sessions: what each kind of step does to the raft group's     *)
(* clients.                                                                *)

(* No proposal of an actor is the end of a session.                        *)
LEMMA ProposedIsNoClose == \A cmd \in Proposed : cmd # CloseCmd
  BY DEF Proposed, CloseCmd, TickCmd, RequestsCmd, KVCmd, ShardCmd

(* A proposal is the only one of its call and of its session.              *)
LEMMA ProposeStep ==
    ASSUME RaftInv, NEW a \in Actors, NEW cmd \in Proposed, NEW place \in Waits,
           pc[a] \in Places \ (Waits \cup {"close"}), ~Stopped(a), stop' = stop,
           Propose(a, cmd, place)
    PROVE  RaftInv'
  <1> DEFINE n == calls + 1
             s == SessionOf(a, n)
             new == Message(a, n, s, cmd)
  <1>1. /\ Types /\ CallInv /\ SessionInv /\ AnswerInv /\ LateInv
        /\ call[a] = 0 /\ closing[a] = 0
    BY DEF RaftInv, SessionInv, Types
  <1>2. /\ calls' = n
        /\ call' = [call EXCEPT ![a] = n]
        /\ session' = [session EXCEPT ![a] = s]
        /\ registered' = [i \in Sessions \cup {s.id} |->
                              IF i \in Sessions THEN registered[i]
                                                ELSE [series |-> 0, result |-> NoAnswer]]
        /\ wire' = wire \cup {new}
        /\ pc' = [pc EXCEPT ![a] = place]
        /\ UNCHANGED <<tick, applied, answer, closing, unclosed, acked>>
    BY DEF Propose, Goto, dbVars, closeVars
  <1>3. /\ n \in Nat /\ n \notin 0..calls
        /\ s \in [id : 1..n, series : Nat]
        /\ \/ session[a].id = 0 /\ s.id = n /\ s.series = 1
           \/ session[a].id # 0 /\ s = session[a] /\ s.id \in Sessions
    BY <1>1 DEF SessionOf, Types, SessionInv, NoSession
  <1>4. /\ new.actor = a /\ new.call = n /\ new.session = s /\ new.cmd = cmd
        /\ cmd # CloseCmd
    BY ProposedIsNoClose DEF Message
  <1>5. Sent' = Sent \cup {new}
    BY <1>2, <1>4 DEF Sent
  <1>6. \A p \in Sent : p.session.id # s.id
    BY <1>1, <1>3 DEF CallInv, Types, Sent
  <1> HIDE DEF s, new, n
  <1>7. Types'
    <2>1. wire' \subseteq [actor : Actors, call : 0..n, session : [id : 1..n, series : Nat],
                           cmd : Proposed \cup {CloseCmd}]
      BY <1>1, <1>2, <1>3, <1>4 DEF Types, Message, new, n
    <2>2. registered' \in [Sessions' -> [series : Nat, result : Answers]]
          /\ Sessions' = Sessions \cup {s.id}
      BY <1>1, <1>2 DEF Types, Sessions, Answers
    <2>3. /\ call' \in [Actors -> 0..n]
          /\ session' \in [Actors -> [id : 0..n, series : Nat]]
          /\ closing' \in [Actors -> 0..n]
          /\ Sessions' \subseteq 1..n
      <3>1. 0..calls \subseteq 0..n /\ 1..calls \subseteq 1..n /\ n \in 0..n
        BY <1>1 DEF Types, n
      <3>2. [id : 0..calls, series : Nat] \subseteq [id : 0..n, series : Nat]
        BY <3>1
      <3>3. s \in [id : 0..n, series : Nat]
        BY <1>3
      <3> QED
        BY <1>1, <1>2, <1>3, <2>2, <3>1, <3>2, <3>3 DEF Types
    <2>4. place \in Places
      BY DEF Places
    <2>5. /\ answer' \in [Actors -> Answers]
          /\ pc' \in [Actors -> Places]
          /\ applied' \in Seq([call : Nat, result : Results])
          /\ tick' \in Nat /\ stop' \in [Drummers -> {"no", "cancelled", "stopped"}]
      BY <1>1, <1>2, <2>4 DEF Types
    <2> QED
      BY <1>2, <1>3, <2>1, <2>2, <2>3, <2>5 DEF Types
  <1>8. CallInv'
    <2>1. \A p \in Sent : p.call # n /\ p.call \in Nat
      BY <1>1, <1>3 DEF Types, Sent
    <2>2. \A m \in DOMAIN applied : applied[m].call # n
      BY <1>1, <1>3 DEF CallInv
    <2>3. \A p, q \in Sent' : p.call = q.call \/ p.session.id = q.session.id => p = q
      BY <1>1, <1>4, <1>5, <1>6, <2>1 DEF CallInv
    <2>4. ASSUME NEW p \in Sent', NEW b \in Actors
          PROVE  /\ call'[b] = p.call => p.actor = b /\ p.session = session'[b]
                 /\ session'[b].id = p.session.id =>
                       /\ p.actor = b
                       /\ p.session = session'[b]
                       /\ call'[b] = p.call \/ (call'[b] = 0 /\ Stopped(b)')
      <3>1. CASE p = new
        <4>1. b # a => call[b] # n /\ session[b].id # s.id
          BY <1>1, <1>3 DEF Types, SessionInv
        <4> QED
          BY <1>1, <1>2, <1>3, <1>4, <3>1, <4>1 DEF Types
      <3>2. CASE p \in Sent
        BY <1>1, <1>2, <1>3, <1>6, <2>1, <3>2 DEF Types, CallInv, Stopped
      <3> QED
        BY <1>5, <3>1, <3>2
    <2>5. \A m \in DOMAIN applied : applied[m].call \in 1..n
      BY <1>1 DEF CallInv, Types, n
    <2> QED
      BY <1>1, <1>2, <1>3, <1>4, <1>5, <2>1, <2>2, <2>3, <2>4, <2>5 DEF CallInv
  <1>9. SessionInv'
    <2>1. \A b \in Actors : b # a => /\ session'[b] = session[b] /\ call'[b] = call[b]
                                     /\ pc'[b] = pc[b] /\ session[b].id # s.id
      BY <1>1, <1>2, <1>3 DEF Types, SessionInv
    <2>2. session'[a] = s /\ call'[a] = n /\ pc'[a] = place
      BY <1>1, <1>2 DEF Types
    <2>3. /\ Sessions \cup {s.id} = Sessions'
          /\ \A i \in Sessions : registered'[i] = registered[i]
          /\ s.id \notin Sessions => registered'[s.id].series = 0
      BY <1>1, <1>2 DEF Types, Sessions
    <2>4. registered'[s.id].series < s.series
      <3>1. CASE session[a].id = 0
        BY <1>1, <1>3, <2>3, <3>1 DEF Types
      <3>2. CASE session[a].id # 0
        BY <1>1, <1>3, <2>3, <3>2 DEF SessionInv
      <3> QED
        BY <3>1, <3>2
    <2>5. \A p \in wire' : p.cmd = CloseCmd => p \in wire /\ p.session.id # s.id
      BY <1>1, <1>2, <1>3, <1>4 DEF Types, SessionInv
    <2>6. registered'[s.id].series \in Nat /\ s.series \in Nat /\ s.id # 0
      BY <1>1, <1>2, <1>3, <2>3 DEF Types
    <2>7. \A b, c \in Actors : session'[b].id = session'[c].id /\ session'[b].id # 0 => b = c
      BY <1>1, <2>1, <2>2 DEF SessionInv
    <2>8. ASSUME NEW b \in Actors
          PROVE  /\ call'[b] # 0 => session'[b].id # 0 /\ pc'[b] \in Waits
                 /\ closing'[b] # 0 => pc'[b] = "close"
                 /\ session'[b].id = 0 => session'[b] = NoSession
                 /\ session'[b].id # 0 => session'[b].id \in Sessions'
      BY <1>1, <1>2, <2>1, <2>2, <2>3, <2>6 DEF SessionInv
    <2>9. ASSUME NEW b \in Actors, session'[b].id # 0
          PROVE  LET last == registered'[session'[b].id].series
                 IN  /\ last <= session'[b].series
                     /\ call'[b] # 0 /\ answer'[b] = NoAnswer => last < session'[b].series
                     /\ call'[b] = 0 => last < session'[b].series \/ Stopped(b)'
      <3>1. CASE b = a
        BY <2>2, <2>4, <2>6, <3>1
      <3>2. CASE b # a
        BY <1>1, <1>2, <2>1, <2>3, <2>9, <3>2 DEF SessionInv, Stopped
      <3> QED
        BY <3>1, <3>2
    <2> QED
      BY <1>1, <2>1, <2>2, <2>5, <2>7, <2>8, <2>9 DEF SessionInv
  <1>10. AnswerInv'
    <2>1. ASSUME NEW b \in Actors
          PROVE  /\ call'[b] = 0 => answer'[b] = NoAnswer
                 /\ answer'[b] # NoAnswer => \A p \in Sent' : p.call # call'[b]
                 /\ Answer(b)' => \E m \in DOMAIN applied :
                       applied[m] = [call |-> call'[b], result |-> answer'[b]]
      <3>1. CASE b = a
        BY <1>1, <1>2, <1>3, <3>1, NoAnswerIsNoResult DEF Types, AnswerInv, Answer
      <3>2. CASE b # a
        BY <1>1, <1>2, <1>3, <1>4, <1>5, <3>2 DEF Types, AnswerInv, Answer
      <3> QED
        BY <3>1, <3>2
    <2> QED
      BY <1>1, <1>2, <2>1 DEF AnswerInv
  <1>11. LateInv'
    <2>1. Sessions' = Sessions \cup {s.id}
      BY <1>2 DEF Sessions
    <2>2. ASSUME NEW p \in Sent, p.session.id \in Sessions'
          PROVE  \/ call'[p.actor] = p.call
                 \/ closing'[p.actor] = p.session.id
                 \/ p.session.id \in unclosed'
      <3>1. p.actor \in Actors /\ p.session.id \in Sessions
        BY <1>1, <1>6, <2>1, <2>2 DEF Types, Sent
      <3>2. p.actor = a => call[p.actor] # p.call
        BY <1>1 DEF CallInv
      <3>3. p.actor # a => call'[p.actor] = call[p.actor]
        BY <1>1, <1>2, <3>1 DEF Types
      <3> QED
        BY <1>1, <1>2, <3>1, <3>2, <3>3 DEF LateInv
    <2>3. call'[a] = n
      BY <1>1, <1>2 DEF Types
    <2> QED
      BY <1>4, <1>5, <2>2, <2>3 DEF LateInv
  <1> QED
    BY <1>7, <1>8, <1>9, <1>10, <1>11 DEF RaftInv
(* An answer that is neither missing nor a refusal is a result.            *)
LEMMA AnsweredIsResult ==
    ASSUME Types, NEW a \in Actors, Answered(a)
    PROVE  Answer(a) /\ call[a] # 0 /\ answer[a] # NoAnswer
  BY NoAnswerIsNoResult DEF Types, Answered, Waiting, Answer, Answers

(* A call that is answered leaves its session with the next series number. *)
LEMMA CompleteStep ==
    ASSUME RaftInv, NEW a \in Actors, NEW place \in Places \ {"close"},
           tick' = tick, stop' = stop, CompleteIn(a, place)
    PROVE  RaftInv'
  <1>1. /\ Types /\ CallInv /\ SessionInv /\ AnswerInv /\ LateInv
        /\ Answer(a) /\ call[a] # 0 /\ answer[a] # NoAnswer
        /\ closing[a] = 0
    BY AnsweredIsResult DEF RaftInv, SessionInv, Types, CompleteIn, Succeed, Waits
  <1>2. /\ call' = [call EXCEPT ![a] = 0]
        /\ answer' = [answer EXCEPT ![a] = NoAnswer]
        /\ acked' = acked \cup {[call |-> call[a], result |-> answer[a]]}
        /\ session' = [session EXCEPT ![a] = ProposalCompleted(session[a])]
        /\ pc' = [pc EXCEPT ![a] = place]
        /\ UNCHANGED <<registered, wire, applied, calls, closing, unclosed>>
    BY DEF CompleteIn, Succeed, EndCall, Goto, closeVars
  <1>3. /\ call'[a] = 0 /\ answer'[a] = NoAnswer /\ pc'[a] = place
        /\ session'[a] = ProposalCompleted(session[a])
        /\ session[a] \in [id : 0..calls, series : Nat]
        /\ \A b \in Actors : b # a => /\ call'[b] = call[b] /\ answer'[b] = answer[b]
                                     /\ session'[b] = session[b] /\ pc'[b] = pc[b]
    BY <1>1, <1>2 DEF Types
  <1>4. /\ session'[a].id = session[a].id
        /\ session'[a].series = session[a].series + 1
        /\ session'[a] \in [id : 0..calls, series : Nat]
        /\ session[a].series \in Nat /\ session[a].id # 0
    BY <1>1, <1>3 DEF SessionInv, ProposalCompleted
  <1>5. Sent' = Sent /\ Sessions' = Sessions
    BY <1>2 DEF Sent, Sessions
  <1>6. \A p \in Sent : p.session.id # session[a].id /\ p.call # call[a]
    BY <1>1 DEF AnswerInv, CallInv
  <1>7. Types'
    <2>1. /\ call' \in [Actors -> 0..calls]
          /\ answer' \in [Actors -> Answers]
          /\ pc' \in [Actors -> Places]
      BY <1>1, <1>2 DEF Types, Answers
    <2>2. session' \in [Actors -> [id : 0..calls, series : Nat]]
      BY <1>1, <1>2, <1>3, <1>4 DEF Types
    <2> QED
      BY <1>1, <1>2, <1>5, <2>1, <2>2 DEF Types
  <1>8. CallInv'
    <2>1. ASSUME NEW p \in Sent, NEW b \in Actors
          PROVE  /\ call'[b] = p.call => p.actor = b /\ p.session = session'[b]
                 /\ session'[b].id = p.session.id =>
                       /\ p.actor = b
                       /\ p.session = session'[b]
                       /\ call'[b] = p.call \/ (call'[b] = 0 /\ Stopped(b)')
      <3>1. p.call # 0
        BY <1>1 DEF CallInv
      <3>2. CASE b = a
        BY <1>3, <1>4, <1>6, <3>1, <3>2
      <3>3. CASE b # a
        BY <1>1, <1>3, <3>3 DEF CallInv, Stopped
      <3> QED
        BY <3>2, <3>3
    <2> QED
      BY <1>1, <1>2, <1>5, <2>1 DEF CallInv
  <1>9. SessionInv'
    <2>1. \A b, c \in Actors : session'[b].id = session'[c].id /\ session'[b].id # 0 => b = c
      BY <1>1, <1>3, <1>4 DEF SessionInv
    <2>2. ASSUME NEW b \in Actors
          PROVE  /\ call'[b] # 0 => session'[b].id # 0 /\ pc'[b] \in Waits
                 /\ closing'[b] # 0 => pc'[b] = "close"
                 /\ session'[b].id = 0 => session'[b] = NoSession
                 /\ session'[b].id # 0 => session'[b].id \in Sessions'
      BY <1>1, <1>2, <1>3, <1>4, <1>5 DEF SessionInv
    <2>3. registered[session[a].id].series \in Nat
          /\ registered[session[a].id].series <= session[a].series
      BY <1>1, <1>4 DEF SessionInv, Types
    <2>4. ASSUME NEW b \in Actors, session'[b].id # 0
          PROVE  LET last == registered'[session'[b].id].series
                 IN  /\ last <= session'[b].series
                     /\ call'[b] # 0 /\ answer'[b] = NoAnswer => last < session'[b].series
                     /\ call'[b] = 0 => last < session'[b].series \/ Stopped(b)'
      <3>1. CASE b = a
        BY <1>2, <1>3, <1>4, <2>3, <3>1
      <3>2. CASE b # a
        BY <1>1, <1>2, <1>3, <2>4, <3>2 DEF SessionInv, Stopped
      <3> QED
        BY <3>1, <3>2
    <2>5. \A p \in wire', b \in Actors : p.cmd = CloseCmd => session'[b].id # p.session.id
      BY <1>1, <1>2, <1>3, <1>4 DEF SessionInv
    <2> QED
      BY <2>1, <2>2, <2>4, <2>5 DEF SessionInv
  <1>10. AnswerInv'
    <2>1. ASSUME NEW b \in Actors
          PROVE  /\ call'[b] = 0 => answer'[b] = NoAnswer
                 /\ answer'[b] # NoAnswer => \A p \in Sent' : p.call # call'[b]
                 /\ Answer(b)' => \E m \in DOMAIN applied' :
                       applied'[m] = [call |-> call'[b], result |-> answer'[b]]
      <3>1. CASE b = a
        BY <1>3, <3>1, NoAnswerIsNoResult DEF Answer
      <3>2. CASE b # a
        BY <1>1, <1>2, <1>3, <1>5, <3>2 DEF AnswerInv, Answer
      <3> QED
        BY <3>1, <3>2
    <2>2. \A k \in acked' : \E m \in DOMAIN applied' : applied'[m] = k
      BY <1>1, <1>2 DEF AnswerInv
    <2> QED
      BY <2>1, <2>2 DEF AnswerInv
  <1>11. LateInv'
    <2>1. \A p \in Sent : call'[p.actor] = p.call \/ call[p.actor] # p.call
      BY <1>1, <1>3, <1>6 DEF Types, Sent
    <2> QED
      BY <1>1, <1>2, <1>5, <2>1 DEF LateInv
  <1> QED
    BY <1>7, <1>8, <1>9, <1>10, <1>11 DEF RaftInv

(* The end of a request, or of a call that failed: the session is dropped, *)
(* its end is on the way, and until then what was proposed may be applied. *)
LEMMA EndStep ==
    ASSUME RaftInv, NEW a \in Actors, Waiting(a), EndCall(a), CloseSession(a),
           \/ acked' = acked
           \/ acked' = acked \cup {[call |-> call[a], result |-> answer[a]]} /\ Answered(a),
           UNCHANGED <<tick, registered, applied, calls, unclosed, stop>>
    PROVE  RaftInv'
  <1> DEFINE end == Message(a, 0, session[a], CloseCmd)
  <1>1. /\ Types /\ CallInv /\ SessionInv /\ AnswerInv /\ LateInv
        /\ call[a] # 0 /\ closing[a] = 0 /\ session[a].id # 0
    BY DEF RaftInv, SessionInv, Types, Waits, Waiting
  <1>2. /\ call' = [call EXCEPT ![a] = 0]
        /\ answer' = [answer EXCEPT ![a] = NoAnswer]
        /\ session' = [session EXCEPT ![a] = NoSession]
        /\ closing' = [closing EXCEPT ![a] = session[a].id]
        /\ wire' = wire \cup {end}
        /\ pc' = [pc EXCEPT ![a] = "close"]
        /\ UNCHANGED <<tick, registered, applied, calls, unclosed, stop>>
    BY DEF EndCall, CloseSession, Goto
  <1>3. /\ call'[a] = 0 /\ answer'[a] = NoAnswer /\ pc'[a] = "close"
        /\ session'[a] = NoSession /\ closing'[a] = session[a].id
        /\ \A b \in Actors : b # a => /\ call'[b] = call[b] /\ answer'[b] = answer[b]
                                     /\ session'[b] = session[b] /\ pc'[b] = pc[b]
                                     /\ closing'[b] = closing[b]
    BY <1>1, <1>2 DEF Types
  <1>4. /\ end.actor = a /\ end.session = session[a] /\ end.cmd = CloseCmd
        /\ end \in [actor : Actors, call : 0..calls,
                    session : [id : 1..calls, series : Nat],
                    cmd : Proposed \cup {CloseCmd}]
    BY <1>1 DEF Types, Message
  <1>5. NoSession.id = 0 /\ NoSession \in [id : 0..calls, series : Nat]
    BY <1>1 DEF Types, NoSession
  <1> HIDE DEF end
  <1>6. Sent' = Sent /\ Sessions' = Sessions
    BY <1>2, <1>4 DEF Sent, Sessions
  <1>7. Types'
    <2>1. /\ call' \in [Actors -> 0..calls]
          /\ answer' \in [Actors -> Answers]
          /\ session' \in [Actors -> [id : 0..calls, series : Nat]]
          /\ closing' \in [Actors -> 0..calls]
      BY <1>1, <1>2, <1>5 DEF Types, Answers
    <2>2. pc' \in [Actors -> Places]
      BY <1>1, <1>2 DEF Types, Places
    <2>3. wire' \subseteq [actor : Actors, call : 0..calls,
                           session : [id : 1..calls, series : Nat],
                           cmd : Proposed \cup {CloseCmd}]
      BY <1>1, <1>2, <1>4 DEF Types
    <2> QED
      BY <1>1, <1>2, <1>6, <2>1, <2>2, <2>3 DEF Types
  <1>8. CallInv'
    <2>1. ASSUME NEW p \in Sent, NEW b \in Actors
          PROVE  /\ call'[b] = p.call => p.actor = b /\ p.session = session'[b]
                 /\ session'[b].id = p.session.id =>
                       /\ p.actor = b
                       /\ p.session = session'[b]
                       /\ call'[b] = p.call \/ (call'[b] = 0 /\ Stopped(b)')
      <3>1. p.call # 0 /\ p.session.id # 0
        <4>1. p.session.id \in 1..calls
          BY <1>1 DEF Types, Sent
        <4> QED
          BY <1>1, <4>1 DEF CallInv
      <3>2. CASE b = a
        BY <1>3, <1>5, <3>1, <3>2
      <3>3. CASE b # a
        BY <1>1, <1>2, <1>3, <3>3 DEF CallInv, Stopped
      <3> QED
        BY <3>2, <3>3
    <2> QED
      BY <1>1, <1>2, <1>6, <2>1 DEF CallInv
  <1>9. SessionInv'
    <2>1. \A b, c \in Actors : session'[b].id = session'[c].id /\ session'[b].id # 0 => b = c
      BY <1>1, <1>3, <1>5 DEF SessionInv
    <2>2. ASSUME NEW b \in Actors
          PROVE  /\ call'[b] # 0 => session'[b].id # 0 /\ pc'[b] \in Waits
                 /\ closing'[b] # 0 => pc'[b] = "close"
                 /\ session'[b].id = 0 => session'[b] = NoSession
                 /\ session'[b].id # 0 => session'[b].id \in Sessions'
      BY <1>1, <1>2, <1>3, <1>5, <1>6 DEF SessionInv
    <2>3. ASSUME NEW b \in Actors, session'[b].id # 0
          PROVE  LET last == registered'[session'[b].id].series
                 IN  /\ last <= session'[b].series
                     /\ call'[b] # 0 /\ answer'[b] = NoAnswer => last < session'[b].series
                     /\ call'[b] = 0 => last < session'[b].series \/ Stopped(b)'
      BY <1>1, <1>2, <1>3, <1>5, <2>3 DEF SessionInv, Stopped
    <2>4. \A p \in wire', b \in Actors : p.cmd = CloseCmd => session'[b].id # p.session.id
      <3>1. \A b \in Actors : session'[b].id # session[a].id
        BY <1>1, <1>3, <1>5 DEF SessionInv
      <3>2. \A p \in wire : p.session.id # 0
        BY <1>1 DEF Types
      <3> QED
        BY <1>1, <1>2, <1>3, <1>4, <1>5, <3>1, <3>2 DEF SessionInv
    <2> QED
      BY <2>1, <2>2, <2>3, <2>4 DEF SessionInv
  <1>10. AnswerInv'
    <2>1. ASSUME NEW b \in Actors
          PROVE  /\ call'[b] = 0 => answer'[b] = NoAnswer
                 /\ answer'[b] # NoAnswer => \A p \in Sent' : p.call # call'[b]
                 /\ Answer(b)' => \E m \in DOMAIN applied' :
                       applied'[m] = [call |-> call'[b], result |-> answer'[b]]
      <3>1. CASE b = a
        BY <1>3, <3>1, NoAnswerIsNoResult DEF Answer
      <3>2. CASE b # a
        BY <1>1, <1>2, <1>3, <1>6, <3>2 DEF AnswerInv, Answer
      <3> QED
        BY <3>1, <3>2
    <2>2. \A k \in acked' : \E m \in DOMAIN applied' : applied'[m] = k
      BY <1>1, <1>2, AnsweredIsResult DEF AnswerInv
    <2> QED
      BY <2>1, <2>2 DEF AnswerInv
  <1>11. LateInv'
    <2>1. ASSUME NEW p \in Sent, p.session.id \in Sessions
          PROVE  \/ call'[p.actor] = p.call
                 \/ closing'[p.actor] = p.session.id
                 \/ p.session.id \in unclosed'
      <3>1. p.actor \in Actors /\ p.session.id # 0
        BY <1>1 DEF Types, Sent
      <3>2. CASE p.actor # a
        BY <1>1, <1>2, <1>3, <2>1, <3>1, <3>2 DEF LateInv
      <3>3. CASE p.actor = a
        BY <1>1, <1>2, <1>3, <2>1, <3>1, <3>3 DEF LateInv, CallInv
      <3> QED
        BY <3>2, <3>3
    <2> QED
      BY <1>6, <2>1 DEF LateInv
  <1> QED
    BY <1>7, <1>8, <1>9, <1>10, <1>11 DEF RaftInv

(* A session whose end was not confirmed may be there for ever.            *)
LEMMA CloseFailsStep ==
    ASSUME RaftInv, NEW a \in Actors, CloseFails(a)
    PROVE  RaftInv'
  <1>1. /\ Types /\ CallInv /\ SessionInv /\ AnswerInv /\ LateInv
        /\ call[a] = 0
    BY DEF RaftInv, SessionInv, CloseFails, Waits
  <1>2. /\ unclosed' = unclosed \cup {closing[a]}
        /\ closing' = [closing EXCEPT ![a] = 0]
        /\ pc' = [pc EXCEPT ![a] = Back(a)]
        /\ UNCHANGED <<tick, registered, wire, applied, answer, call, session, calls,
                       stop, acked>>
    BY DEF CloseFails, Goto, dbVars, callVars, serverVars
  <1>3. /\ closing'[a] = 0
        /\ \A b \in Actors : b # a => closing'[b] = closing[b] /\ pc'[b] = pc[b]
    BY <1>1, <1>2 DEF Types
  <1>4. Sent' = Sent /\ Sessions' = Sessions
    BY <1>2 DEF Sent, Sessions
  <1>5. Types'
    <2>1. pc' \in [Actors -> Places] /\ closing' \in [Actors -> 0..calls]
      BY <1>1, <1>2 DEF Types, Back, Places
    <2> QED
      BY <1>1, <1>2, <1>4, <2>1 DEF Types
  <1>6. CallInv'
    BY <1>1, <1>2, <1>4 DEF CallInv, Stopped
  <1>7. SessionInv'
    BY <1>1, <1>2, <1>3, <1>4 DEF SessionInv, Stopped
  <1>8. AnswerInv'
    BY <1>1, <1>2, <1>4 DEF AnswerInv, Answer
  <1>9. LateInv'
    <2>1. \A p \in Sent : p.actor \in Actors
      BY <1>1 DEF Types, Sent
    <2> QED
      BY <1>1, <1>2, <1>3, <1>4, <2>1 DEF LateInv
  <1> QED
    BY <1>5, <1>6, <1>7, <1>8, <1>9 DEF RaftInv

(* A server that is being stopped abandons its call with its session open, *)
(* and proposes nothing from then on.                                      *)
LEMMA AbortedStep ==
    ASSUME RaftInv, NEW d \in Drummers, Aborted(d)
    PROVE  RaftInv'
  <1>1. /\ Types /\ CallInv /\ SessionInv /\ AnswerInv /\ LateInv
        /\ d \in Actors /\ Stopped(d) /\ closing[d] = 0
    BY DEF RaftInv, SessionInv, Types, Aborted, Cancelled, Stopped, Actors
  <1>2. /\ call' = [call EXCEPT ![d] = 0]
        /\ answer' = [answer EXCEPT ![d] = NoAnswer]
        /\ pc' = [pc EXCEPT ![d] = "start"]
        /\ unclosed' = unclosed \cup {session[d].id}
        /\ UNCHANGED <<tick, registered, wire, applied, session, calls, closing, stop, acked>>
    BY DEF Aborted, EndCall, Goto, dbVars, serverVars
  <1>3. /\ call'[d] = 0 /\ answer'[d] = NoAnswer
        /\ \A b \in Actors : b # d => /\ call'[b] = call[b] /\ answer'[b] = answer[b]
                                     /\ pc'[b] = pc[b]
    BY <1>1, <1>2 DEF Types
  <1>4. Sent' = Sent /\ Sessions' = Sessions /\ Stopped(d)'
    BY <1>1, <1>2 DEF Sent, Sessions, Stopped
  <1>5. Types'
    <2>1. /\ call' \in [Actors -> 0..calls] /\ pc' \in [Actors -> Places]
          /\ answer' \in [Actors -> Answers]
      BY <1>1, <1>2 DEF Types, Places, Answers
    <2> QED
      BY <1>1, <1>2, <1>4, <2>1 DEF Types
  <1>6. CallInv'
    BY <1>1, <1>2, <1>3, <1>4 DEF CallInv, Stopped
  <1>7. SessionInv'
    BY <1>1, <1>2, <1>3, <1>4 DEF SessionInv, Stopped
  <1>8. AnswerInv'
    BY <1>1, <1>2, <1>3, <1>4, NoAnswerIsNoResult DEF AnswerInv, Answer
  <1>9. LateInv'
    <2>1. \A p \in Sent : p.actor \in Actors
      BY <1>1 DEF Types, Sent
    <2> QED
      BY <1>1, <1>2, <1>3, <1>4, <2>1 DEF LateInv, CallInv
  <1> QED
    BY <1>5, <1>6, <1>7, <1>8, <1>9 DEF RaftInv

(* Steps that neither call nor end a call.                                 *)
LEMMA OtherStep ==
    ASSUME RaftInv,
           pc' \in [Actors -> Places], stop' \in [Drummers -> {"no", "cancelled", "stopped"}],
           \A a \in Actors : pc[a] \in Waits \cup {"close"} => pc'[a] = pc[a],
           \A d \in Drummers : stop[d] # "no" => stop'[d] # "no",
           UNCHANGED <<tick, registered, wire, applied, answer, callVars, closeVars, acked>>
    PROVE  RaftInv'
  <1>1. /\ Types /\ CallInv /\ SessionInv /\ AnswerInv /\ LateInv
        /\ Sent' = Sent /\ Sessions' = Sessions
        /\ \A a \in Actors : Stopped(a) => Stopped(a)'
        /\ UNCHANGED <<session, call, calls, closing, unclosed>>
    BY DEF RaftInv, Sent, Sessions, Stopped, callVars, closeVars
  <1>2. Types'
    BY <1>1 DEF Types
  <1>3. CallInv'
    BY <1>1 DEF CallInv
  <1>4. SessionInv'
    BY <1>1 DEF SessionInv
  <1>5. AnswerInv' /\ LateInv'
    BY <1>1 DEF AnswerInv, LateInv, Answer
  <1> QED
    BY <1>2, <1>3, <1>4, <1>5 DEF RaftInv

-----------------------------------------------------------------------------
(* The raft group.                                                         *)

(* Every command the actors propose has a result.                          *)
LEMMA ResultOfIsResult ==
    ASSUME Types, NEW cmd \in Proposed
    PROVE  ResultOf(cmd) \in Results /\ ResultOf(cmd) # NoAnswer
  <1>1. /\ \A kv : KVResult(kvMap, kv) \in {DBKVUpdated, DBKVFinalized, DBKVRejected}
        /\ \A t : ShardResult(t) \in {"bootstrapped", "exists", DBKVUpdated}
    BY DEF KVResult, ShardResult, DBKVUpdated
  <1>2. ResultOf(cmd) \in Results
    BY <1>1 DEF Types, Proposed, TickCmd, RequestsCmd, KVCmd, ShardCmd, ResultOf,
                Result, Results
  <1> QED
    BY <1>2, NoAnswerIsNoResult

(* A proposal that is waited for is new to its session.                    *)
LEMMA WaitedForIsNew ==
    ASSUME RaftInv, NEW p \in Sent, call[p.actor] = p.call
    PROVE  /\ p.session = session[p.actor] /\ p.session.id \in Sessions
           /\ answer[p.actor] = NoAnswer
           /\ IsNew(p)
  <1>1. Types /\ CallInv /\ SessionInv /\ AnswerInv /\ p.actor \in Actors
    BY DEF RaftInv, Types, Sent
  <1>2. p.call # 0 /\ p.session = session[p.actor] /\ answer[p.actor] = NoAnswer
    BY <1>1 DEF CallInv, AnswerInv
  <1> QED
    BY <1>1, <1>2 DEF SessionInv, IsNew

(* A proposal is applied when its session has not gone beyond it, and      *)
(* whoever waits for it is told its result.                                *)
LEMMA ApplyProposalStep ==
    ASSUME RaftInv, NEW p \in wire, ApplyProposal(p)
    PROVE  RaftInv'
  <1> DEFINE r == ResultOf(p.cmd)
             id == p.session.id
  <1>1. /\ Types /\ CallInv /\ SessionInv /\ AnswerInv /\ LateInv
        /\ p \in Sent /\ p.actor \in Actors /\ p.call \in 1..calls
        /\ p.session.series \in Nat /\ id \in Sessions
        /\ r \in Results /\ r # NoAnswer
    <2>1. Types /\ CallInv /\ p \in Sent /\ p.cmd \in Proposed
      BY DEF RaftInv, Types, Sent, ApplyProposal
    <2>2. r \in Results /\ r # NoAnswer
      BY <2>1, ResultOfIsResult
    <2>3. SessionInv /\ AnswerInv /\ LateInv /\ id \in Sessions
      BY DEF RaftInv, ApplyProposal
    <2>4. p.actor \in Actors /\ p.call \in 0..calls /\ p.session.series \in Nat
      BY <2>1 DEF Types
    <2>5. p.call # 0 /\ calls \in Nat
      BY <2>1 DEF CallInv, Types
    <2> HIDE DEF r, id
    <2> QED
      BY <2>1, <2>2, <2>3, <2>4, <2>5
  <1>2. /\ wire' = wire \ {p} /\ Sent' = Sent \ {p}
        /\ UNCHANGED <<call, session, calls, closing, unclosed, stop, acked, pc>>
    BY DEF ApplyProposal, Arrive, callVars, closeVars, serverVars, Sent
  <1>3. CASE ~IsNew(p)
    <2>1. UNCHANGED <<tick, registered, applied, answer>>
      BY <1>1, <1>3, WaitedForIsNew DEF ApplyProposal, Tell, dbVars
    <2>2. Types' /\ Sessions' = Sessions
      BY <1>1, <1>2, <2>1 DEF Types, Sessions
    <2>3. CallInv' /\ LateInv'
      BY <1>1, <1>2, <2>1, <2>2 DEF CallInv, LateInv, Stopped
    <2>4. SessionInv' /\ AnswerInv'
      BY <1>1, <1>2, <2>1, <2>2 DEF SessionInv, AnswerInv, Answer, Stopped
    <2> QED
      BY <2>2, <2>3, <2>4 DEF RaftInv
  <1>4. CASE IsNew(p)
    <2>1. /\ tick' \in Nat
          /\ registered' = [registered EXCEPT ![id] =
                               [series |-> p.session.series, result |-> r]]
          /\ applied' = Append(applied, [call |-> p.call, result |-> r])
      BY <1>1, <1>4 DEF ApplyProposal, Update, Types
    <2>2. /\ registered'[id] = [series |-> p.session.series, result |-> r]
          /\ \A i \in Sessions : i # id => registered'[i] = registered[i]
          /\ Sessions' = Sessions
      BY <1>1, <2>1 DEF Types, Sessions
    <2>3. answer' = IF call[p.actor] = p.call THEN [answer EXCEPT ![p.actor] = r] ELSE answer
      BY <2>2 DEF ApplyProposal, Tell
    <2>4. \A b \in Actors :
             \/ answer'[b] = answer[b] /\ ~(b = p.actor /\ call[b] = p.call)
             \/ b = p.actor /\ call[b] = p.call /\ answer'[b] = r
      BY <1>1, <2>3 DEF Types
    <2>5. /\ DOMAIN applied' = DOMAIN applied \cup {Len(applied) + 1}
          /\ \A m \in DOMAIN applied : applied'[m] = applied[m]
          /\ applied'[Len(applied) + 1] = [call |-> p.call, result |-> r]
          /\ applied' \in Seq([call : Nat, result : Results])
      <3> HIDE DEF r, id
      <3>1. /\ applied \in Seq([call : Nat, result : Results])
            /\ [call |-> p.call, result |-> r] \in [call : Nat, result : Results]
        BY <1>1 DEF Types
      <3> QED
        BY <2>1, <3>1
    <2> HIDE DEF r, id
    <2>6. Types'
      <3>1. answer' \in [Actors -> Answers]
        BY <1>1, <2>3 DEF Types, Answers
      <3>2. registered' \in [Sessions -> [series : Nat, result : Answers]]
        BY <1>1, <2>1 DEF Types, Answers
      <3>3. wire' \subseteq [actor : Actors, call : 0..calls,
                             session : [id : 1..calls, series : Nat],
                             cmd : Proposed \cup {CloseCmd}]
        BY <1>1, <1>2 DEF Types
      <3> QED
        BY <1>1, <1>2, <2>1, <2>2, <2>5, <3>1, <3>2, <3>3 DEF Types
    <2>7. CallInv'
      <3>1. \A q \in Sent', m \in DOMAIN applied' : applied'[m].call # q.call
        BY <1>1, <1>2, <2>5 DEF CallInv
      <3>2. \A m \in DOMAIN applied' : applied'[m].call \in 1..calls
        BY <1>1, <2>5 DEF CallInv
      <3>3. \A m, k \in DOMAIN applied' : applied'[m].call = applied'[k].call => m = k
        BY <1>1, <2>5 DEF CallInv
      <3> QED
        BY <1>1, <1>2, <3>1, <3>2, <3>3 DEF CallInv, Stopped
    <2>8. SessionInv'
      <3>1. ASSUME NEW b \in Actors, session[b].id # 0
            PROVE  LET last == registered'[session[b].id].series
                   IN  /\ last <= session[b].series
                       /\ call[b] # 0 /\ answer'[b] = NoAnswer => last < session[b].series
                       /\ call[b] = 0 => last < session[b].series \/ Stopped(b)
        <4>1. CASE session[b].id = id
          <5>1. /\ p.actor = b /\ p.session = session[b]
                /\ call[b] = p.call \/ (call[b] = 0 /\ Stopped(b))
            BY <1>1, <4>1 DEF CallInv, id
          <5> QED
            BY <1>1, <2>2, <2>4, <4>1, <5>1
        <4>2. CASE session[b].id # id
          BY <1>1, <2>2, <2>4, <3>1, <4>2 DEF SessionInv
        <4> QED
          BY <4>1, <4>2
      <3>2. \A b \in Actors :
               /\ call'[b] # 0 => session'[b].id # 0 /\ pc'[b] \in Waits
               /\ closing'[b] # 0 => pc'[b] = "close"
               /\ session'[b].id = 0 => session'[b] = NoSession
               /\ session'[b].id # 0 => session'[b].id \in Sessions'
        BY <1>1, <1>2, <2>2 DEF SessionInv
      <3>3. \A b, c \in Actors : session'[b].id = session'[c].id /\ session'[b].id # 0 => b = c
        BY <1>1, <1>2 DEF SessionInv
      <3>4. \A q \in wire', b \in Actors : q.cmd = CloseCmd => session'[b].id # q.session.id
        BY <1>1, <1>2 DEF SessionInv
      <3>5. \A b \in Actors : session'[b].id # 0 =>
               LET last == registered'[session'[b].id].series
               IN  /\ last <= session'[b].series
                   /\ call'[b] # 0 /\ answer'[b] = NoAnswer => last < session'[b].series
                   /\ call'[b] = 0 => last < session'[b].series \/ Stopped(b)'
        BY <1>2, <3>1 DEF Stopped
      <3> QED
        BY <3>2, <3>3, <3>4, <3>5 DEF SessionInv
    <2>9. AnswerInv'
      <3>1. ASSUME NEW b \in Actors
            PROVE  /\ call[b] = 0 => answer'[b] = NoAnswer
                   /\ answer'[b] # NoAnswer => \A q \in Sent' : q.call # call[b]
                   /\ answer'[b] \in Results => \E m \in DOMAIN applied' :
                         applied'[m] = [call |-> call[b], result |-> answer'[b]]
        <4>1. CASE answer'[b] = answer[b]
          BY <1>1, <1>2, <2>5, <4>1 DEF AnswerInv, Answer
        <4>2. CASE b = p.actor /\ call[b] = p.call /\ answer'[b] = r
          BY <1>1, <1>2, <2>5, <4>2 DEF CallInv
        <4> QED
          BY <2>4, <4>1, <4>2
      <3>2. \A k \in acked' : \E m \in DOMAIN applied' : applied'[m] = k
        BY <1>1, <1>2, <2>5 DEF AnswerInv
      <3>3. ASSUME NEW b \in Actors
            PROVE  /\ call'[b] = 0 => answer'[b] = NoAnswer
                   /\ answer'[b] # NoAnswer => \A q \in Sent' : q.call # call'[b]
                   /\ Answer(b)' => \E m \in DOMAIN applied' :
                         applied'[m] = [call |-> call'[b], result |-> answer'[b]]
        BY <1>2, <3>1 DEF Answer
      <3> QED
        BY <3>2, <3>3 DEF AnswerInv
    <2>10. LateInv'
      BY <1>1, <1>2, <2>2 DEF LateInv
    <2> QED
      BY <2>6, <2>7, <2>8, <2>9, <2>10 DEF RaftInv
  <1> QED
    BY <1>3, <1>4

(* A proposal whose session is gone is waited for by nobody.               *)
LEMMA RejectProposalStep ==
    ASSUME RaftInv, NEW p \in wire, RejectProposal(p)
    PROVE  RaftInv' /\ answer' = answer
  <1>1. /\ Types /\ CallInv /\ SessionInv /\ AnswerInv /\ LateInv /\ p \in Sent
    BY DEF RaftInv, Sent, RejectProposal
  <1>2. /\ wire' = wire \ {p} /\ Sent' = Sent \ {p} /\ Sessions' = Sessions
        /\ UNCHANGED <<tick, registered, applied, call, session, calls, closing, unclosed,
                       stop, acked, pc, answer>>
    BY <1>1, WaitedForIsNew
    DEF RejectProposal, Arrive, Tell, callVars, closeVars, serverVars, dbVars, Sent, Sessions
  <1>3. Types'
    BY <1>1, <1>2 DEF Types
  <1>4. CallInv' /\ LateInv'
    BY <1>1, <1>2 DEF CallInv, LateInv, Stopped
  <1>5. SessionInv' /\ AnswerInv'
    BY <1>1, <1>2 DEF SessionInv, AnswerInv, Answer, Stopped
  <1> QED
    BY <1>2, <1>3, <1>4, <1>5 DEF RaftInv

(* The end of a session, which is nobody's any more.                       *)
LEMMA ApplyCloseStep ==
    ASSUME RaftInv, NEW p \in wire, ApplyClose(p)
    PROVE  RaftInv'
  <1>1. /\ Types /\ CallInv /\ SessionInv /\ AnswerInv /\ LateInv
        /\ p.cmd = CloseCmd /\ p.actor \in Actors
        /\ \A a \in Actors : session[a].id # p.session.id
    BY DEF RaftInv, SessionInv, Types, ApplyClose
  <1>2. /\ wire' = wire \ {p} /\ Sent' = Sent
        /\ registered' = [i \in Sessions \ {p.session.id} |-> registered[i]]
        /\ UNCHANGED <<tick, applied, answer, call, session, calls, unclosed, stop, acked>>
    BY <1>1 DEF ApplyClose, Arrive, callVars, serverVars, dbVars, Sent
  <1>3. Sessions' = Sessions \ {p.session.id}
        /\ \A i \in Sessions' : registered'[i] = registered[i]
    BY <1>2 DEF Sessions
  <1>4. /\ closing' \in [Actors -> 0..calls] /\ pc' \in [Actors -> Places]
        /\ \A b \in Actors :
              \/ closing'[b] = closing[b] /\ pc'[b] = pc[b]
              \/ closing[b] = p.session.id /\ closing[b] # 0 /\ closing'[b] = 0
    <2>1. CASE closing[p.actor] = p.session.id
      <3>1. /\ closing' = [closing EXCEPT ![p.actor] = 0]
            /\ pc' = [pc EXCEPT ![p.actor] = Back(p.actor)]
        BY <2>1 DEF ApplyClose, Goto
      <3>2. Back(p.actor) \in Places /\ p.session.id # 0
        BY <1>1 DEF Back, Places, Types
      <3> QED
        BY <1>1, <2>1, <3>1, <3>2 DEF Types
    <2>2. CASE closing[p.actor] # p.session.id
      BY <1>1, <2>2 DEF ApplyClose, Types
    <2> QED
      BY <2>1, <2>2
  <1>5. Types'
    <2>1. registered' \in [Sessions' -> [series : Nat, result : Answers]]
      BY <1>1, <1>2, <1>3 DEF Types
    <2> QED
      BY <1>1, <1>2, <1>3, <1>4, <2>1 DEF Types
  <1>6. CallInv'
    BY <1>1, <1>2 DEF CallInv, Stopped
  <1>7. SessionInv'
    <2>1. \A b \in Actors : call[b] # 0 => closing[b] = 0
      BY <1>1 DEF SessionInv, Waits
    <2>2. \A b \in Actors : session[b].id # 0 => session[b].id \in Sessions'
      BY <1>1, <1>3 DEF SessionInv
    <2>3. \A b \in Actors : /\ call'[b] # 0 => session'[b].id # 0 /\ pc'[b] \in Waits
                            /\ closing'[b] # 0 => pc'[b] = "close"
      BY <1>1, <1>2, <1>4, <2>1 DEF SessionInv
    <2> QED
      BY <1>1, <1>2, <1>3, <2>2, <2>3 DEF SessionInv, Stopped
  <1>8. AnswerInv'
    BY <1>1, <1>2 DEF AnswerInv, Answer
  <1>9. LateInv'
    <2>1. \A q \in Sent : q.actor \in Actors
      BY <1>1 DEF Types, Sent
    <2> QED
      BY <1>1, <1>2, <1>3, <1>4, <2>1 DEF LateInv
  <1> QED
    BY <1>5, <1>6, <1>7, <1>8, <1>9 DEF RaftInv

(* Every step of the specification keeps the promises of the raft group.   *)
LEMMA RaftNext ==
    ASSUME RaftInv, serving \subseteq Drummers, Next
    PROVE  RaftInv'
  <1>1. Types /\ SessionInv
    BY DEF RaftInv
  <1>2. ASSUME NEW d \in Drummers, Server(d)
        PROVE  RaftInv'
    <2>1. d \in Actors /\ stop[d] \in {"no", "cancelled", "stopped"}
      BY <1>1, <1>2 DEF Types, Actors
    <2>2. CASE ProposeDeploymentID(d)
      <3>1. PICK id \in DeploymentIds : Propose(d, KVCmd(DeploymentIdKey, id), "deploymentIDWait")
        BY <2>2 DEF ProposeDeploymentID
      <3>2. /\ KVCmd(DeploymentIdKey, id) \in Proposed /\ "deploymentIDWait" \in Waits
            /\ pc[d] \in Places \ (Waits \cup {"close"}) /\ ~Stopped(d) /\ stop' = stop
        BY <2>2 DEF Proposed, Waits, Places, ProposeDeploymentID, Stopped
      <3> QED
        BY <2>1, <3>1, <3>2, ProposeStep
    <2>3. CASE LearnDeploymentID(d)
      <3>1. /\ "start" \in Places \ {"close"} /\ CompleteIn(d, "start")
            /\ tick' = tick /\ stop' = stop
        BY <2>3 DEF LearnDeploymentID, CompleteIn, Places, dbVars
      <3> QED
        BY <2>1, <3>1, CompleteStep
    <2>4. CASE Aborted(d)
      BY <2>4, AbortedStep
    <2>5. CASE StartDrummerRPCServer(d)
      BY <1>1, <2>1, <2>5, OtherStep DEF StartDrummerRPCServer, Serve, Goto, Types, Places,
                                         Waits, dbVars
    <2>6. CASE ProposeUpdate(d)
      <3>1. PICK cmd \in {TickCmd, RequestsCmd} : Propose(d, cmd, "updateWait")
        BY <2>6 DEF ProposeUpdate
      <3>2. /\ cmd \in Proposed /\ "updateWait" \in Waits
            /\ pc[d] \in Places \ (Waits \cup {"close"}) /\ ~Stopped(d) /\ stop' = stop
        BY <2>6 DEF Proposed, Waits, Places, ProposeUpdate, Stopped, serverVars
      <3> QED
        BY <2>1, <3>1, <3>2, ProposeStep
    <2>7. CASE UpdateDone(d)
      <3>1. /\ "main" \in Places \ {"close"} /\ CompleteIn(d, "main")
            /\ tick' = tick /\ stop' = stop
        BY <2>7 DEF UpdateDone, CompleteIn, Places, dbVars, serverVars
      <3> QED
        BY <2>1, <3>1, CompleteStep
    <2>8. CASE ServerGivesUp(d)
      BY <2>1, <2>8, EndStep DEF ServerGivesUp, GiveUp, dbVars, serverVars
    <2>9. CASE CloseFails(d)
      BY <2>1, <2>9, CloseFailsStep
    <2>10. CASE EndMain(d)
      BY <1>1, <2>1, <2>10, OtherStep DEF EndMain, Goto, Types, Places, Waits, dbVars, serverVars
    <2>11. CASE Stop(d)
      BY <1>1, <2>1, <2>11, OtherStep DEF Stop, Types, dbVars
    <2> QED
      BY <1>2, <2>2, <2>3, <2>4, <2>5, <2>6, <2>7, <2>8, <2>9, <2>10, <2>11 DEF Server
  <1>3. ASSUME NEW u \in Users, User(u)
        PROVE  RaftInv'
    <2>1. u \in Actors /\ ~Stopped(u)
      BY ServerAssumption DEF Actors, Stopped
    <2>2. CASE SubmitChange(u)
      <3>1. /\ ShardCmd(UserShard[u]) \in Proposed /\ "shardWait" \in Waits
            /\ pc[u] \in Places \ (Waits \cup {"close"}) /\ stop' = stop
            /\ Propose(u, ShardCmd(UserShard[u]), "shardWait")
        BY <2>2 DEF SubmitChange, Proposed, Waits, Places, serverVars
      <3> QED
        BY <2>1, <3>1, ProposeStep
    <2>3. CASE SetBootstrapped(u)
      <3>1. /\ KVCmd(BootstrappedKey, 1) \in Proposed /\ "bootstrapWait" \in Waits
            /\ pc[u] \in Places \ (Waits \cup {"close"}) /\ stop' = stop
            /\ Propose(u, KVCmd(BootstrappedKey, 1), "bootstrapWait")
        BY <2>3 DEF SetBootstrapped, Proposed, Waits, Places, serverVars
      <3> QED
        BY <2>1, <3>1, ProposeStep
    <2>4. CASE Reply(u)
      BY <2>1, <2>4, EndStep DEF Reply, Succeed, Answered, dbVars, serverVars
    <2>5. CASE UserGivesUp(u)
      BY <2>1, <2>5, EndStep DEF UserGivesUp, GiveUp, dbVars, serverVars
    <2>6. CASE CloseFails(u)
      BY <2>1, <2>6, CloseFailsStep
    <2> QED
      BY <1>3, <2>2, <2>3, <2>4, <2>5, <2>6 DEF User
  <1>4. CASE Raft
    BY <1>4, ApplyProposalStep, RejectProposalStep, ApplyCloseStep DEF Raft
  <1> QED
    BY <1>2, <1>3, <1>4 DEF Next

-----------------------------------------------------------------------------
(* The DB, and what the answers say of it.                                 *)

\* No command removes or changes a shard or a record, for all are final.
Grows ==
    /\ kvMap' \in [DOMAIN kvMap' -> Records]
    /\ DeploymentIdKey \in DOMAIN kvMap' => kvMap'[DeploymentIdKey].value \in DeploymentIds
    /\ \A k \in DOMAIN kvMap : k \in DOMAIN kvMap' /\ kvMap'[k] = kvMap[k]
    /\ shards \subseteq shards'

\* A step of another actor: nothing that is b's own changes, except that it
\* may be told to stop.
Stays(b) ==
    /\ call'[b] = call[b] /\ answer'[b] = answer[b] /\ pc'[b] = pc[b]
    /\ \A p \in Sent' : p.actor = b => p \in Sent
    /\ b \in Users => reply'[b] = reply[b]
    /\ b \in Drummers => /\ uintDid'[b] = uintDid[b] /\ learned'[b] = learned[b]
                         /\ b \in serving' => b \in serving
                         /\ stop[b] # "no" => stop'[b] # "no"

(* What an actor was told remains true while the others go on.             *)
LEMMA StaysStep ==
    ASSUME NEW b \in Actors, ActorInv(b), Stays(b), Grows
    PROVE  ActorInv(b)'
  <1>1. \A p \in Sent' : p.actor = b /\ call'[b] = p.call => ProposedHere(p)'
    <2> SUFFICES ASSUME NEW p \in Sent', p.actor = b, call'[b] = p.call
                 PROVE  ProposedHere(p)'
      OBVIOUS
    <2>1. p \in Sent /\ ProposedHere(p) /\ (pc'[b] = "deploymentIDWait" => b \notin Users)
      BY DEF Stays, ActorInv
    <2> QED
      BY <2>1 DEF ProposedHere, Stays, Actors
  <1>2. b \in Users =>
          /\ pc'[b] \notin {"deploymentIDWait", "start"}
          /\ pc'[b] = "shardWait" /\ Answer(b)' =>
                answer'[b].code = "bootstrapped" \/ UserShard[b] \in shards'
          /\ reply'[b] = "nil" => UserShard[b] \in shards'
    BY DEF ActorInv, Stays, Grows, Answer
  <1>3. b \in Drummers =>
          /\ pc'[b] # "shardWait"
          /\ pc'[b] = "deploymentIDWait" =>
                /\ uintDid'[b] \in DeploymentIds
                /\ Answer(b)' => /\ DeploymentIdKey \in DOMAIN kvMap'
                                 /\ answer'[b].code = DBKVUpdated =>
                                       kvMap'[DeploymentIdKey].value = uintDid'[b]
          /\ learned'[b] # Unknown =>
                /\ DeploymentIdKey \in DOMAIN kvMap'
                /\ learned'[b] = kvMap'[DeploymentIdKey].value
          /\ pc'[b] = "start" \/ b \in serving' => learned'[b] # Unknown \/ stop'[b] # "no"
    BY DEF ActorInv, Stays, Grows, Answer
  <1> QED
    BY <1>1, <1>2, <1>3 DEF ActorInv

(* A step that changes nothing of the DB, and of one actor only what its   *)
(* own part of the invariant allows.                                       *)
LEMMA OneActorStep ==
    ASSUME DBInv, NEW a \in Actors, UNCHANGED <<kvMap, shards>>,
           uintDid' \in [Drummers -> Nat], learned' \in [Drummers -> Nat],
           reply' \in [Users -> {"none", "nil", "ErrInvalidRequest", "error"}],
           serving' \subseteq Drummers,
           \A b \in Actors \ {a} : Stays(b),
           ActorInv(a)'
    PROVE  DBInv'
  <1>1. Grows /\ DBTypes'
    BY DEF DBInv, DBTypes, Grows
  <1>2. \A b \in Actors : ActorInv(b)'
    BY <1>1, StaysStep DEF DBInv
  <1> QED
    BY <1>1, <1>2 DEF DBInv

(* An actor that no longer waits is bound only by what it was told.        *)
LEMMA IdleActor ==
    ASSUME RaftInv', NEW a \in Actors, call'[a] = 0,
           pc'[a] \notin {"deploymentIDWait", "shardWait"},
           a \in Users => /\ pc'[a] # "start"
                          /\ reply'[a] = "nil" => UserShard[a] \in shards',
           a \in Drummers =>
              /\ learned'[a] # Unknown =>
                    /\ DeploymentIdKey \in DOMAIN kvMap'
                    /\ learned'[a] = kvMap'[DeploymentIdKey].value
              /\ pc'[a] = "start" \/ a \in serving' => learned'[a] # Unknown \/ stop'[a] # "no"
    PROVE  ActorInv(a)'
  <1>1. \A p \in Sent' : p.call # 0
    BY DEF RaftInv, CallInv
  <1> QED
    BY <1>1 DEF ActorInv

(* A proposal is what its caller is about to wait for.                     *)
LEMMA ProposeDB ==
    ASSUME RaftInv, DBInv, NEW a \in Actors, NEW cmd \in Proposed, NEW place \in Waits,
           pc[a] \notin Waits, Propose(a, cmd, place),
           UNCHANGED <<learned, stop, serving>>, uintDid' \in [Drummers -> Nat],
           \A d \in Drummers : d # a => uintDid'[d] = uintDid[d],
           place = "deploymentIDWait" =>
              /\ a \in Drummers \ Users /\ uintDid'[a] \in DeploymentIds
              /\ cmd = KVCmd(DeploymentIdKey, uintDid'[a]),
           place = "shardWait" => a \in Users \ Drummers /\ cmd = ShardCmd(UserShard[a])
    PROVE  DBInv'
  <1> DEFINE n == calls + 1
             new == Message(a, n, SessionOf(a, n), cmd)
  <1>1. /\ call[a] = 0 /\ answer[a] = NoAnswer /\ calls \in Nat
        /\ \A p \in Sent : p.call \in 0..calls
        /\ ActorInv(a)
    BY DEF RaftInv, Types, SessionInv, AnswerInv, DBInv, Sent
  <1>2. /\ call' = [call EXCEPT ![a] = n] /\ pc' = [pc EXCEPT ![a] = place]
        /\ wire' = wire \cup {new}
        /\ UNCHANGED <<answer, reply, kvMap, shards>>
    BY DEF Propose, Goto, dbVars
  <1>3. new.actor = a /\ new.cmd = cmd /\ Sent' \subseteq Sent \cup {new}
    BY <1>2 DEF Message, Sent
  <1>4. /\ call'[a] = n /\ pc'[a] = place
        /\ \A b \in Actors \ {a} : call'[b] = call[b] /\ pc'[b] = pc[b]
    BY <1>2 DEF RaftInv, Types
  <1> HIDE DEF new
  <1>5. \A b \in Actors \ {a} : Stays(b)
    BY <1>2, <1>3, <1>4 DEF Stays
  <1>6. ActorInv(a)'
    <2>1. ASSUME NEW p \in Sent', p.actor = a, call'[a] = p.call
          PROVE  ProposedHere(p)'
      <3>1. p = new
        BY <1>1, <1>3, <1>4, <2>1
      <3> QED
        BY <1>3, <1>4, <3>1 DEF ProposedHere
    <2>2. ~Answer(a)'
      BY <1>1, <1>2, NoAnswerIsNoResult DEF Answer
    <2>3. pc'[a] # "start"
      BY <1>4 DEF Waits
    <2> QED
      BY <1>1, <1>2, <1>4, <2>1, <2>2, <2>3 DEF ActorInv
  <1>7. /\ learned' \in [Drummers -> Nat] /\ serving' \subseteq Drummers
        /\ reply' \in [Users -> {"none", "nil", "ErrInvalidRequest", "error"}]
    BY <1>2 DEF DBInv, DBTypes
  <1> QED
    BY <1>2, <1>5, <1>6, <1>7, OneActorStep

(* A server learns the id that the DB has: it was told so, or looks it up. *)
LEMMA LearnDB ==
    ASSUME RaftInv, DBInv, RaftInv', NEW d \in Drummers, LearnDeploymentID(d)
    PROVE  DBInv'
  <1>1. d \in Actors /\ d \notin Users /\ ActorInv(d) /\ DBTypes /\ pc[d] = "deploymentIDWait"
    BY ServerAssumption DEF Actors, DBInv, LearnDeploymentID
  <1>2. /\ call' = [call EXCEPT ![d] = 0] /\ answer' = [answer EXCEPT ![d] = NoAnswer]
        /\ pc' = [pc EXCEPT ![d] = "start"]
        /\ learned' = [learned EXCEPT ![d] = DecidedID(d)]
        /\ UNCHANGED <<wire, kvMap, shards, reply, uintDid, stop, serving>>
    BY DEF LearnDeploymentID, CompleteIn, Succeed, EndCall, Goto, dbVars
  <1>3. Answer(d)
    BY <1>1, AnsweredIsResult DEF LearnDeploymentID, CompleteIn, Succeed, RaftInv
  <1>4. /\ DeploymentIdKey \in DOMAIN kvMap /\ DecidedID(d) = kvMap[DeploymentIdKey].value
        /\ DecidedID(d) \in Nat
    BY <1>1, <1>3, ServerAssumption DEF ActorInv, DBTypes, DecidedID, LookupDeploymentID
  <1>5. /\ call'[d] = 0 /\ pc'[d] = "start" /\ learned'[d] = DecidedID(d)
        /\ learned' \in [Drummers -> Nat]
        /\ \A b \in Actors \ {d} : call'[b] = call[b] /\ pc'[b] = pc[b] /\ answer'[b] = answer[b]
        /\ \A b \in Drummers \ {d} : learned'[b] = learned[b]
    BY <1>1, <1>2, <1>4 DEF RaftInv, Types, DBTypes
  <1>6. \A b \in Actors \ {d} : Stays(b)
    BY <1>2, <1>5 DEF Stays, Sent
  <1>7. ActorInv(d)'
    <2>1. DecidedID(d) # Unknown
      BY <1>1, <1>4, ServerAssumption DEF DBTypes, Unknown
    <2> QED
      BY <1>1, <1>2, <1>4, <1>5, <2>1, IdleActor
  <1> QED
    BY <1>1, <1>2, <1>5, <1>6, <1>7, OneActorStep DEF DBTypes

(* The end of a wait: the actor has been told nothing that is not true.    *)
LEMMA SettleDB ==
    ASSUME DBInv, RaftInv', NEW a \in Actors,
           UNCHANGED <<kvMap, shards, uintDid, learned, stop>>,
           Sent' \subseteq Sent,
           \A b \in Actors \ {a} : UNCHANGED <<call[b], answer[b], pc[b]>>,
           call'[a] = 0, pc'[a] \notin {"deploymentIDWait", "shardWait"},
           reply' \in [Users -> {"none", "nil", "ErrInvalidRequest", "error"}],
           \A u \in Users \ {a} : reply'[u] = reply[u],
           a \in Users => /\ pc'[a] # "start"
                          /\ reply'[a] = "nil" => reply[a] = "nil" \/ UserShard[a] \in shards,
           serving' \subseteq serving \cup ({a} \cap Drummers),
           pc'[a] = "start" \/ a \in serving' =>
              pc[a] = "start" \/ a \in serving \/ stop[a] # "no"
    PROVE  DBInv'
  <1>1. ActorInv(a) /\ DBTypes
    BY DEF DBInv
  <1>2. \A b \in Actors \ {a} : Stays(b)
    BY DEF Stays
  <1>3. ActorInv(a)'
    BY <1>1, IdleActor DEF ActorInv
  <1> QED
    BY <1>1, <1>2, <1>3, OneActorStep DEF DBTypes

(* A user is told nil only for a shard that is there, and a server that    *)
(* gives up knows what it knew.                                            *)
LEMMA EndDB ==
    ASSUME RaftInv, DBInv, RaftInv', NEW a \in Actors, EndCall(a), CloseSession(a),
           UNCHANGED <<kvMap, shards, serverVars>>,
           reply' \in [Users -> {"none", "nil", "ErrInvalidRequest", "error"}],
           \A u \in Users \ {a} : reply'[u] = reply[u],
           a \in Users => (reply'[a] = "nil" => reply[a] = "nil" \/ UserShard[a] \in shards)
    PROVE  DBInv'
  <1>1. /\ call' = [call EXCEPT ![a] = 0] /\ answer' = [answer EXCEPT ![a] = NoAnswer]
        /\ pc' = [pc EXCEPT ![a] = "close"]
        /\ Sent' = Sent
        /\ UNCHANGED <<uintDid, learned, stop, serving>>
    BY DEF EndCall, CloseSession, Goto, Sent, Message, serverVars
  <1>2. /\ call'[a] = 0 /\ pc'[a] = "close"
        /\ \A b \in Actors \ {a} : UNCHANGED <<call[b], answer[b], pc[b]>>
    BY <1>1 DEF RaftInv, Types
  <1> QED
    BY <1>1, <1>2, SettleDB

(* What a user that defines its shard, or ends the bootstrap, is told.     *)
LEMMA ReplyDB ==
    ASSUME RaftInv, DBInv, RaftInv', NEW u \in Users, Reply(u)
    PROVE  DBInv'
  <1>1. /\ u \in Actors /\ DBTypes /\ ActorInv(u) /\ Answer(u)
        /\ EndCall(u) /\ CloseSession(u) /\ UNCHANGED <<kvMap, shards, serverVars>>
    BY AnsweredIsResult DEF Actors, DBInv, Reply, Succeed, RaftInv, dbVars
  <1>2. reply' = [reply EXCEPT ![u] = IF pc[u] = "shardWait" THEN ErrorOf(answer[u].code)
                                                             ELSE "none"]
    BY DEF Reply
  <1>3. ErrorOf(answer[u].code) \in {"nil", "ErrInvalidRequest"}
    BY DEF ErrorOf
  <1>4. /\ reply' \in [Users -> {"none", "nil", "ErrInvalidRequest", "error"}]
        /\ \A v \in Users \ {u} : reply'[v] = reply[v]
        /\ reply'[u] = "nil" => pc[u] = "shardWait" /\ ErrorOf(answer[u].code) = "nil"
    BY <1>1, <1>2, <1>3 DEF DBTypes
  <1>5. reply'[u] = "nil" => UserShard[u] \in shards
    BY <1>1, <1>4 DEF ActorInv, ErrorOf
  <1> QED
    BY <1>1, <1>4, <1>5, EndDB

(* Every error of a user is an error to its caller.                        *)
LEMMA GiveUpDB ==
    ASSUME RaftInv, DBInv, RaftInv', NEW a \in Actors, GiveUp(a),
           \/ a \in Drummers \ Users /\ reply' = reply
           \/ a \in Users /\ reply' = [reply EXCEPT ![a] = "error"]
    PROVE  DBInv'
  <1>1. EndCall(a) /\ CloseSession(a) /\ UNCHANGED <<kvMap, shards, serverVars>>
    BY DEF GiveUp, dbVars
  <1>2. /\ reply' \in [Users -> {"none", "nil", "ErrInvalidRequest", "error"}]
        /\ \A u \in Users \ {a} : reply'[u] = reply[u]
        /\ a \in Users => reply'[a] = "error"
    BY DEF DBInv, DBTypes
  <1> QED
    BY <1>1, <1>2, EndDB

(* Whether or not the session could be closed.                             *)
LEMMA CloseFailsDB ==
    ASSUME RaftInv, DBInv, RaftInv', NEW a \in Actors, CloseFails(a)
    PROVE  DBInv'
  <1>1. /\ call[a] = 0 /\ DBTypes
        /\ pc' = [pc EXCEPT ![a] = Back(a)]
        /\ UNCHANGED <<wire, call, answer, kvMap, shards, reply, uintDid, learned, stop, serving>>
    BY DEF CloseFails, Goto, RaftInv, SessionInv, Waits, DBInv, dbVars, callVars, serverVars
  <1>2. /\ pc'[a] = Back(a) /\ Sent' = Sent
        /\ \A b \in Actors \ {a} : UNCHANGED <<call[b], answer[b], pc[b]>>
    BY <1>1 DEF RaftInv, Types, Sent
  <1>3. Back(a) \notin {"deploymentIDWait", "shardWait", "start"}
    BY DEF Back
  <1> QED
    BY <1>1, <1>2, <1>3, SettleDB DEF DBTypes

(* The ways of a server to go on without a call.                           *)
LEMMA ServerDB ==
    ASSUME RaftInv, DBInv, RaftInv', NEW d \in Drummers,
           \/ UpdateDone(d) \/ Aborted(d) \/ StartDrummerRPCServer(d) \/ EndMain(d)
    PROVE  DBInv'
  <1>1. /\ d \in Actors /\ d \notin Users /\ DBTypes
        /\ UNCHANGED <<wire, kvMap, shards, reply, uintDid, learned, stop>>
    BY ServerAssumption DEF Actors, DBInv, UpdateDone, CompleteIn, Aborted,
         StartDrummerRPCServer, EndMain, dbVars, serverVars
  <1>2. Sent' = Sent
    BY <1>1 DEF Sent
  <1>3. /\ \/ call' = [call EXCEPT ![d] = 0] /\ answer' = [answer EXCEPT ![d] = NoAnswer]
           \/ call[d] = 0 /\ UNCHANGED <<call, answer>>
        /\ \/ pc' = [pc EXCEPT ![d] = "main"] /\ serving' \subseteq serving \cup {d}
              /\ (pc[d] = "start" \/ serving' = serving)
           \/ pc' = [pc EXCEPT ![d] = "start"] /\ serving' = serving /\ stop[d] # "no"
           \/ pc' = [pc EXCEPT ![d] = "ended"] /\ serving' = serving
    <2>1. CASE UpdateDone(d)
      BY <2>1 DEF UpdateDone, CompleteIn, Succeed, EndCall, Goto, serverVars
    <2>2. CASE Aborted(d)
      BY <2>2 DEF Aborted, Cancelled, EndCall, Goto, serverVars
    <2>3. CASE StartDrummerRPCServer(d)
      BY <2>3 DEF StartDrummerRPCServer, Serve, Goto, callVars, RaftInv, SessionInv, Waits, Actors
    <2>4. CASE EndMain(d)
      BY <2>4 DEF EndMain, Goto, callVars, serverVars, RaftInv, SessionInv, Waits, Actors
    <2> QED
      BY <2>1, <2>2, <2>3, <2>4
  <1>4. /\ call'[d] = 0
        /\ \A b \in Actors \ {d} : UNCHANGED <<call[b], answer[b], pc[b]>>
    BY <1>1, <1>3 DEF RaftInv, Types
  <1>5. /\ pc'[d] \in {"main", "start", "ended"}
        /\ serving' \subseteq serving \cup {d}
        /\ pc'[d] = "start" \/ d \in serving' => pc[d] = "start" \/ d \in serving \/ stop[d] # "no"
    BY <1>1, <1>3 DEF RaftInv, Types
  <1> QED
    BY <1>1, <1>2, <1>4, <1>5, SettleDB DEF DBTypes

(* A server that is told to stop need not know the id any more.            *)
LEMMA StopDB ==
    ASSUME RaftInv, DBInv, NEW d \in Drummers, Stop(d)
    PROVE  DBInv'
  <1>1. /\ stop' = [stop EXCEPT ![d] = IF stop[d] = "no" THEN "cancelled" ELSE "stopped"]
        /\ UNCHANGED <<wire, call, answer, kvMap, shards, reply, uintDid, learned, serving, pc>>
    BY DEF Stop, dbVars, callVars
  <1>2. \A e \in Drummers : stop[e] # "no" => stop'[e] # "no"
    BY <1>1 DEF RaftInv, Types
  <1>3. \A b \in Actors : Stays(b)
    BY <1>1, <1>2 DEF Stays, Sent
  <1>4. Grows /\ DBTypes'
    BY <1>1 DEF DBInv, DBTypes, Grows
  <1> QED
    BY <1>3, <1>4, StaysStep DEF DBInv

(* A final record is written at most once: the first value stays.          *)
LEMMA FinalKVStep ==
    ASSUME kvMap \in [DOMAIN kvMap -> Records], NEW key, NEW value \in Nat,
           kvMap' = UpdateKV(kvMap, FinalKV(key, value))
    PROVE  /\ kvMap' \in [DOMAIN kvMap' -> Records]
           /\ DOMAIN kvMap' = DOMAIN kvMap \cup {key}
           /\ \A k \in DOMAIN kvMap : kvMap'[k] = kvMap[k]
           /\ key \in DOMAIN kvMap \/ kvMap'[key].value = value
           /\ KVResult(kvMap, FinalKV(key, value)) = DBKVUpdated => kvMap'[key].value = value
  <1> DEFINE kv == FinalKV(key, value)
  <1>1. kv.key = key /\ KVRecord(kv) \in Records /\ KVRecord(kv).value = value
    BY DEF FinalKV, KVRecord, Records
  <1>2. DBKVUpdated # DBKVFinalized
    BY DEF DBKVUpdated, DBKVFinalized
  <1> HIDE DEF kv
  <1>3. CASE key \in DOMAIN kvMap
    <2>1. kvMap[key].finalized
      BY <1>3 DEF Records
    <2>2. KVResult(kvMap, kv) = DBKVFinalized
      BY <1>1, <1>3, <2>1 DEF KVResult
    <2>3. kvMap' = kvMap
      BY <1>2, <2>2 DEF UpdateKV, kv
    <2> QED
      BY <1>2, <1>3, <2>2, <2>3 DEF kv
  <1>4. CASE key \notin DOMAIN kvMap
    <2>1. kvMap' = [k \in DOMAIN kvMap \cup {key} |-> IF k = key THEN KVRecord(kv) ELSE kvMap[k]]
      BY <1>1, <1>4 DEF UpdateKV, KVResult, kv
    <2>2. /\ DOMAIN kvMap' = DOMAIN kvMap \cup {key} /\ kvMap'[key] = KVRecord(kv)
          /\ \A k \in DOMAIN kvMap : kvMap'[k] = kvMap[k]
          /\ kvMap' \in [DOMAIN kvMap' -> Records]
      BY <1>1, <1>4, <2>1
    <2> QED
      BY <1>1, <1>4, <2>2 DEF kv
  <1> QED
    BY <1>3, <1>4

(* A command adds to the DB, and its answer is true of what it leaves.     *)
LEMMA UpdateDB ==
    ASSUME DBTypes, NEW cmd \in Proposed, Update(cmd)
    PROVE  /\ Grows
           /\ \A id \in DeploymentIds : cmd = KVCmd(DeploymentIdKey, id) =>
                 /\ DeploymentIdKey \in DOMAIN kvMap'
                 /\ ResultOf(cmd).code = DBKVUpdated => kvMap'[DeploymentIdKey].value = id
           /\ \A u \in Users : cmd = ShardCmd(UserShard[u]) =>
                 ResultOf(cmd).code = "bootstrapped" \/ UserShard[u] \in shards'
  <1>1. CASE cmd \in {TickCmd, RequestsCmd}
    <2>1. cmd.type \notin {"kv", "shard"}
      BY <1>1 DEF TickCmd, RequestsCmd
    <2>2. UNCHANGED <<kvMap, shards>>
      BY <2>1 DEF Update
    <2> QED
      BY <2>1, <2>2 DEF Grows, DBTypes, KVCmd, ShardCmd
  <1>2. ASSUME NEW key \in {DeploymentIdKey, BootstrappedKey}, NEW value \in Nat,
               key = DeploymentIdKey => value \in DeploymentIds,
               cmd = KVCmd(key, value)
        PROVE  /\ Grows
               /\ key \in DOMAIN kvMap'
               /\ ResultOf(cmd).code = DBKVUpdated => kvMap'[key].value = value
    <2>1. cmd.type = "kv" /\ cmd.kv = FinalKV(key, value)
      BY <1>2 DEF KVCmd
    <2>2. kvMap' = UpdateKV(kvMap, FinalKV(key, value)) /\ shards' = shards
      BY <2>1 DEF Update
    <2>3. ResultOf(cmd).code = KVResult(kvMap, FinalKV(key, value))
      BY <2>1 DEF ResultOf, Result
    <2>4. /\ kvMap' \in [DOMAIN kvMap' -> Records]
          /\ DOMAIN kvMap' = DOMAIN kvMap \cup {key}
          /\ \A k \in DOMAIN kvMap : kvMap'[k] = kvMap[k]
          /\ key \in DOMAIN kvMap \/ kvMap'[key].value = value
          /\ KVResult(kvMap, FinalKV(key, value)) = DBKVUpdated => kvMap'[key].value = value
      BY <2>2, FinalKVStep DEF DBTypes
    <2> QED
      BY <1>2, <2>2, <2>3, <2>4 DEF Grows, DBTypes
  <1>3. ASSUME NEW v \in Users, cmd = ShardCmd(UserShard[v])
        PROVE  /\ Grows
               /\ ResultOf(cmd).code = "bootstrapped" \/ UserShard[v] \in shards'
    <2>1. cmd.type = "shard" /\ cmd.shard = UserShard[v]
      BY <1>3 DEF ShardCmd
    <2>2. /\ kvMap' = kvMap
          /\ shards' = IF ShardResult(cmd.shard) = "updated"
                         THEN shards \cup {cmd.shard} ELSE shards
      BY <2>1 DEF Update
    <2>3. ResultOf(cmd).code = ShardResult(cmd.shard)
      BY <2>1 DEF ResultOf, Result
    <2> QED
      BY <2>1, <2>2, <2>3 DEF Grows, DBTypes, ShardResult
  <1>4. /\ BootstrappedKey # DeploymentIdKey /\ DeploymentIds \subseteq Nat /\ 1 \in Nat
        /\ \A k1, k2, v1, v2 : KVCmd(k1, v1) = KVCmd(k2, v2) => k1 = k2 /\ v1 = v2
        /\ \A k, v, s : KVCmd(k, v) # ShardCmd(s)
    <2>1. ASSUME NEW k, NEW v
          PROVE  KVCmd(k, v).kv.key = k /\ KVCmd(k, v).kv.value = v /\ KVCmd(k, v).type = "kv"
      <3>1. KVCmd(k, v).kv = FinalKV(k, v) /\ KVCmd(k, v).type = "kv"
        BY DEF KVCmd
      <3>2. FinalKV(k, v).key = k /\ FinalKV(k, v).value = v
        BY DEF FinalKV
      <3> QED
        BY <3>1, <3>2
    <2>2. \A s : ShardCmd(s).type = "shard"
      BY DEF ShardCmd
    <2>3. BootstrappedKey # DeploymentIdKey /\ DeploymentIds \subseteq Nat
      BY ServerAssumption DEF BootstrappedKey, DeploymentIdKey
    <2>4. \A k1, k2, v1, v2 : KVCmd(k1, v1) = KVCmd(k2, v2) => k1 = k2 /\ v1 = v2
      <3> SUFFICES ASSUME NEW k1, NEW k2, NEW v1, NEW v2, KVCmd(k1, v1) = KVCmd(k2, v2)
                   PROVE  k1 = k2 /\ v1 = v2
        OBVIOUS
      <3>1. KVCmd(k1, v1).kv.key = KVCmd(k2, v2).kv.key
            /\ KVCmd(k1, v1).kv.value = KVCmd(k2, v2).kv.value
        OBVIOUS
      <3>2. KVCmd(k1, v1).kv.key = k1 /\ KVCmd(k1, v1).kv.value = v1
        BY <2>1
      <3>3. KVCmd(k2, v2).kv.key = k2 /\ KVCmd(k2, v2).kv.value = v2
        BY <2>1
      <3> QED
        BY <3>1, <3>2, <3>3
    <2>5. \A k, v, s : KVCmd(k, v) # ShardCmd(s)
      BY <2>1, <2>2
    <2> QED
      BY <2>3, <2>4, <2>5
  <1>5. CASE \E id \in DeploymentIds : cmd = KVCmd(DeploymentIdKey, id)
    <2>1. PICK id \in DeploymentIds : cmd = KVCmd(DeploymentIdKey, id)
      BY <1>5
    <2>2. id \in Nat
      BY <1>4
    <2>3. /\ Grows /\ DeploymentIdKey \in DOMAIN kvMap'
          /\ ResultOf(cmd).code = DBKVUpdated => kvMap'[DeploymentIdKey].value = id
      BY <1>2, <2>1, <2>2
    <2>4. \A other \in DeploymentIds : cmd = KVCmd(DeploymentIdKey, other) => other = id
      BY <1>4, <2>1
    <2>5. \A u \in Users : cmd # ShardCmd(UserShard[u])
      BY <1>4, <2>1
    <2> QED
      BY <2>3, <2>4, <2>5
  <1>6. CASE cmd = KVCmd(BootstrappedKey, 1)
    <2>1. Grows
      BY <1>2, <1>4, <1>6
    <2>2. /\ \A id \in DeploymentIds : cmd # KVCmd(DeploymentIdKey, id)
          /\ \A u \in Users : cmd # ShardCmd(UserShard[u])
      BY <1>4, <1>6
    <2> QED
      BY <2>1, <2>2
  <1>7. CASE \E v \in Users : cmd = ShardCmd(UserShard[v])
    <2>1. Grows
      BY <1>3, <1>7
    <2>2. \A id \in DeploymentIds : cmd # KVCmd(DeploymentIdKey, id)
      BY <1>4, <1>7
    <2>3. \A u \in Users : cmd = ShardCmd(UserShard[u]) =>
             ResultOf(cmd).code = "bootstrapped" \/ UserShard[u] \in shards'
      BY <1>3
    <2> QED
      BY <2>1, <2>2, <2>3
  <1> QED
    BY <1>1, <1>5, <1>6, <1>7 DEF Proposed

(* An applied proposal answers whoever still waits for it, truly.          *)
LEMMA ApplyProposalDB ==
    ASSUME RaftInv, DBInv, NEW p \in wire, ApplyProposal(p)
    PROVE  DBInv'
  <1>1. /\ Types /\ DBTypes /\ p \in Sent /\ p.cmd \in Proposed /\ p.actor \in Actors
        /\ p.session.id \in Sessions
    BY DEF RaftInv, DBInv, Types, Sent, ApplyProposal
  <1>2. /\ Sent' \subseteq Sent
        /\ UNCHANGED <<call, pc, reply, uintDid, learned, stop, serving>>
    BY DEF ApplyProposal, Arrive, callVars, serverVars, Sent
  <1>3. CASE ~IsNew(p)
    <2>1. UNCHANGED <<kvMap, shards, answer>>
      BY <1>1, <1>3, WaitedForIsNew DEF ApplyProposal, Tell, dbVars
    <2>2. Grows /\ \A b \in Actors : Stays(b)
      BY <1>1, <1>2, <2>1 DEF Grows, Stays, DBTypes
    <2> QED
      BY <1>2, <2>1, <2>2, StaysStep DEF DBInv, DBTypes
  <1>4. CASE IsNew(p)
    <2> DEFINE r == ResultOf(p.cmd)
    <2>1. /\ Update(p.cmd)
          /\ registered' = [registered EXCEPT ![p.session.id] =
                               [series |-> p.session.series, result |-> r]]
      BY <1>4 DEF ApplyProposal
    <2>2. registered'[p.session.id].result = r
      BY <1>1, <2>1 DEF Types, Sessions
    <2>3. answer' = IF call[p.actor] = p.call THEN [answer EXCEPT ![p.actor] = r] ELSE answer
      BY <2>2 DEF ApplyProposal, Tell
    <2>4. /\ Grows
          /\ \A id \in DeploymentIds : p.cmd = KVCmd(DeploymentIdKey, id) =>
                /\ DeploymentIdKey \in DOMAIN kvMap'
                /\ r.code = DBKVUpdated => kvMap'[DeploymentIdKey].value = id
          /\ \A u \in Users : p.cmd = ShardCmd(UserShard[u]) =>
                r.code = "bootstrapped" \/ UserShard[u] \in shards'
      BY <1>1, <2>1, UpdateDB
    <2> HIDE DEF r
    <2>5. ASSUME NEW b \in Actors
          PROVE  ActorInv(b)'
      <3>1. CASE b = p.actor /\ call[p.actor] = p.call
        <4>1. answer'[b] = r
          BY <1>1, <2>3, <3>1 DEF Types
        <4>2. ProposedHere(p) /\ ActorInv(b)
          BY <1>1, <3>1 DEF DBInv, ActorInv
        <4>3. \A q \in Sent' : q.actor = b /\ call'[b] = q.call => ProposedHere(q)'
          BY <1>2, <4>2 DEF ActorInv, ProposedHere
        <4>4. b \in Users =>
                /\ pc'[b] \notin {"deploymentIDWait", "start"}
                /\ pc'[b] = "shardWait" /\ Answer(b)' =>
                      answer'[b].code = "bootstrapped" \/ UserShard[b] \in shards'
                /\ reply'[b] = "nil" => UserShard[b] \in shards'
          BY <1>2, <2>4, <3>1, <4>1, <4>2 DEF ActorInv, ProposedHere, Grows
        <4>5. b \in Drummers =>
                /\ pc'[b] # "shardWait"
                /\ pc'[b] = "deploymentIDWait" =>
                      /\ uintDid'[b] \in DeploymentIds
                      /\ DeploymentIdKey \in DOMAIN kvMap'
                      /\ answer'[b].code = DBKVUpdated =>
                            kvMap'[DeploymentIdKey].value = uintDid'[b]
                /\ learned'[b] # Unknown =>
                      /\ DeploymentIdKey \in DOMAIN kvMap'
                      /\ learned'[b] = kvMap'[DeploymentIdKey].value
                /\ pc'[b] = "start" \/ b \in serving' => learned'[b] # Unknown \/ stop'[b] # "no"
          BY <1>2, <2>4, <3>1, <4>1, <4>2 DEF ActorInv, ProposedHere, Grows
        <4> QED
          BY <4>3, <4>4, <4>5 DEF ActorInv
      <3>2. CASE ~(b = p.actor /\ call[p.actor] = p.call)
        <4>1. answer'[b] = answer[b]
          BY <1>1, <2>3, <3>2 DEF Types
        <4>2. Stays(b) /\ ActorInv(b)
          BY <1>2, <4>1 DEF Stays, DBInv
        <4> QED
          BY <2>4, <4>2, StaysStep
      <3> QED
        BY <3>1, <3>2
    <2>6. DBTypes'
      BY <1>1, <1>2, <2>4 DEF DBTypes, Grows
    <2> QED
      BY <2>5, <2>6 DEF DBInv
  <1> QED
    BY <1>3, <1>4

(* What else reaches the raft group answers nobody with a result.          *)
LEMMA RejectProposalDB ==
    ASSUME RaftInv, DBInv, NEW p \in wire, RejectProposal(p)
    PROVE  DBInv'
  <1>1. /\ Sent' \subseteq Sent /\ answer' = answer
        /\ UNCHANGED <<kvMap, shards, call, pc, reply, uintDid, learned, stop, serving>>
    BY RejectProposalStep DEF RejectProposal, Arrive, callVars, serverVars, dbVars, Sent
  <1>2. Grows /\ \A b \in Actors : Stays(b)
    BY <1>1 DEF Grows, Stays, DBInv, DBTypes
  <1> QED
    BY <1>1, <1>2, StaysStep DEF DBInv, DBTypes

(* A session ends, and its owner goes on.                                  *)
LEMMA ApplyCloseDB ==
    ASSUME RaftInv, DBInv, RaftInv', NEW p \in wire, ApplyClose(p)
    PROVE  DBInv'
  <1>1. /\ p.actor \in Actors /\ p.session.id # 0 /\ DBTypes
        /\ Sent' \subseteq Sent
        /\ UNCHANGED <<kvMap, shards, call, answer, reply, uintDid, learned, stop, serving>>
    BY DEF RaftInv, DBInv, Types, ApplyClose, Arrive, callVars, serverVars, dbVars, Sent
  <1>2. CASE closing[p.actor] = p.session.id
    <2>1. /\ pc' = [pc EXCEPT ![p.actor] = Back(p.actor)]
          /\ call[p.actor] = 0
      BY <1>1, <1>2 DEF ApplyClose, Goto, RaftInv, SessionInv, Waits
    <2>2. /\ pc'[p.actor] = Back(p.actor)
          /\ \A b \in Actors \ {p.actor} : UNCHANGED <<call[b], answer[b], pc[b]>>
      BY <1>1, <2>1 DEF RaftInv, Types
    <2>3. Back(p.actor) \notin {"deploymentIDWait", "shardWait", "start"}
      BY DEF Back
    <2> QED
      BY <1>1, <2>1, <2>2, <2>3, SettleDB DEF DBTypes
  <1>3. CASE closing[p.actor] # p.session.id
    <2>1. pc' = pc
      BY <1>3 DEF ApplyClose
    <2>2. Grows /\ \A b \in Actors : Stays(b)
      BY <1>1, <2>1 DEF Grows, Stays, DBTypes
    <2> QED
      BY <1>1, <2>2, StaysStep DEF DBInv, DBTypes
  <1> QED
    BY <1>2, <1>3

(* Every step of the specification keeps what callers were told true.      *)
LEMMA DBNext ==
    ASSUME RaftInv, DBInv, RaftInv', Next
    PROVE  DBInv'
  <1>1. Types /\ DBTypes
    BY DEF RaftInv, DBInv
  <1>2. ASSUME NEW d \in Drummers, Server(d)
        PROVE  DBInv'
    <2>1. d \in Actors /\ d \notin Users
      BY ServerAssumption DEF Actors
    <2>2. CASE ProposeDeploymentID(d)
      <3>1. PICK id \in DeploymentIds :
               /\ Propose(d, KVCmd(DeploymentIdKey, id), "deploymentIDWait")
               /\ uintDid' = [uintDid EXCEPT ![d] = id]
        BY <2>2 DEF ProposeDeploymentID
      <3>2. /\ KVCmd(DeploymentIdKey, id) \in Proposed /\ "deploymentIDWait" \in Waits
            /\ pc[d] \notin Waits /\ UNCHANGED <<learned, stop, serving>>
        BY <2>2 DEF Proposed, Waits, ProposeDeploymentID
      <3>3. /\ uintDid' \in [Drummers -> Nat] /\ uintDid'[d] = id
            /\ \A e \in Drummers : e # d => uintDid'[e] = uintDid[e]
        BY <1>1, <3>1, ServerAssumption DEF DBTypes
      <3>4. "deploymentIDWait" # "shardWait"
        OBVIOUS
      <3> QED
        BY <2>1, <3>1, <3>2, <3>3, <3>4, ProposeDB
    <2>3. CASE LearnDeploymentID(d)
      BY <2>3, LearnDB
    <2>4. CASE Aborted(d) \/ StartDrummerRPCServer(d) \/ UpdateDone(d) \/ EndMain(d)
      BY <2>4, ServerDB
    <2>5. CASE ProposeUpdate(d)
      <3>1. PICK cmd \in {TickCmd, RequestsCmd} : Propose(d, cmd, "updateWait")
        BY <2>5 DEF ProposeUpdate
      <3>2. /\ cmd \in Proposed /\ "updateWait" \in Waits
            /\ pc[d] \notin Waits /\ UNCHANGED <<uintDid, learned, stop, serving>>
        BY <2>5 DEF Proposed, Waits, ProposeUpdate, serverVars
      <3>3. "updateWait" \notin {"shardWait", "deploymentIDWait"}
        OBVIOUS
      <3> QED
        BY <1>1, <2>1, <3>1, <3>2, <3>3, ProposeDB DEF DBTypes
    <2>6. CASE ServerGivesUp(d)
      BY <2>1, <2>6, GiveUpDB DEF ServerGivesUp
    <2>7. CASE CloseFails(d)
      BY <2>1, <2>7, CloseFailsDB
    <2>8. CASE Stop(d)
      BY <2>8, StopDB
    <2> QED
      BY <1>2, <2>2, <2>3, <2>4, <2>5, <2>6, <2>7, <2>8 DEF Server
  <1>3. ASSUME NEW u \in Users, User(u)
        PROVE  DBInv'
    <2>1. u \in Actors /\ u \notin Drummers
      BY ServerAssumption DEF Actors
    <2>2. CASE SubmitChange(u)
      <3>1. /\ ShardCmd(UserShard[u]) \in Proposed /\ "shardWait" \in Waits
            /\ pc[u] \notin Waits /\ UNCHANGED <<uintDid, learned, stop, serving>>
            /\ Propose(u, ShardCmd(UserShard[u]), "shardWait")
        BY <2>2 DEF SubmitChange, Proposed, Waits, serverVars
      <3>2. "shardWait" # "deploymentIDWait"
        OBVIOUS
      <3> QED
        BY <1>1, <2>1, <3>1, <3>2, ProposeDB DEF DBTypes
    <2>3. CASE SetBootstrapped(u)
      <3>1. /\ KVCmd(BootstrappedKey, 1) \in Proposed /\ "bootstrapWait" \in Waits
            /\ pc[u] \notin Waits /\ UNCHANGED <<uintDid, learned, stop, serving>>
            /\ Propose(u, KVCmd(BootstrappedKey, 1), "bootstrapWait")
        BY <2>3 DEF SetBootstrapped, Proposed, Waits, serverVars
      <3>2. "bootstrapWait" \notin {"shardWait", "deploymentIDWait"}
        OBVIOUS
      <3> QED
        BY <1>1, <2>1, <3>1, <3>2, ProposeDB DEF DBTypes
    <2>4. CASE Reply(u)
      BY <2>4, ReplyDB
    <2>5. CASE UserGivesUp(u)
      BY <2>1, <2>5, GiveUpDB DEF UserGivesUp
    <2>6. CASE CloseFails(u)
      BY <2>1, <2>6, CloseFailsDB
    <2> QED
      BY <1>3, <2>2, <2>3, <2>4, <2>5, <2>6 DEF User
  <1>4. CASE Raft
    BY <1>4, ApplyProposalDB, RejectProposalDB, ApplyCloseDB DEF Raft
  <1> QED
    BY <1>2, <1>3, <1>4 DEF Next

(* Nothing is lost by a step of something else.                            *)
LEMMA StutterInv ==
    ASSUME Inv, UNCHANGED vars
    PROVE  Inv'
  <1>1. /\ UNCHANGED <<tick, kvMap, shards, registered, wire, applied, answer, session, closing,
                       call, calls, pc, uintDid, learned, stop, serving, acked, unclosed, reply>>
        /\ Types /\ CallInv /\ SessionInv /\ AnswerInv /\ LateInv /\ DBInv
    BY DEF Inv, RaftInv, vars, dbVars, callVars, closeVars, serverVars
  <1>2. Types' /\ CallInv'
    BY <1>1 DEF Types, CallInv, Sessions, Sent, Stopped
  <1>3. SessionInv'
    BY <1>1 DEF SessionInv, Sessions, Stopped
  <1>4. AnswerInv' /\ LateInv'
    BY <1>1 DEF AnswerInv, LateInv, Sent, Sessions, Answer
  <1>5. DBInv'
    BY <1>1 DEF DBInv, DBTypes, ActorInv, ProposedHere, Sent, Answer
  <1> QED
    BY <1>2, <1>3, <1>4, <1>5 DEF Inv, RaftInv

-----------------------------------------------------------------------------
(* The theorems.                                                           *)

(* The state that the clients of the raft group share with it is of the    *)
(* types the code gives it, no session (sessionUser, drummer.go:75) has    *)
(* two calls on their way, and every answer is that of a call that was     *)
(* applied: inductive, for any number of servers, users and calls.         *)
THEOREM InvCorrect == Spec => []Inv
  <1>1. Init => Inv
    BY InitInv
  <1>2. Inv /\ [Next]_vars => Inv'
    <2> SUFFICES ASSUME Inv, [Next]_vars
                 PROVE  Inv'
      OBVIOUS
    <2>1. CASE Next
      <3>1. RaftInv /\ DBInv /\ serving \subseteq Drummers
        BY DEF Inv, DBInv, DBTypes
      <3> QED
        BY <2>1, <3>1, RaftNext, DBNext DEF Inv
    <2>2. CASE UNCHANGED vars
      BY <2>2, StutterInv
    <2> QED
      BY <2>1, <2>2
  <1> QED
    BY <1>1, <1>2, PTL DEF Spec

(* What proposeDrummerUpdate returns to its caller (drummer.go:345) is the *)
(* result of its own update, which was applied exactly once.               *)
THEOREM AcknowledgedOnceCorrect == Spec => []AcknowledgedOnce
  <1>1. Inv => AcknowledgedOnce
    BY DEF Inv, RaftInv, CallInv, AnswerInv, AcknowledgedOnce
  <1> QED
    BY <1>1, InvCorrect, PTL

(* An update given up on is overtaken by none that follows, unless         *)
(* resetSession (drummer.go:84) or the deferred close of a request         *)
(* (server.go:420) failed.                                                 *)
THEOREM LateOnlyIfUnclosedCorrect == Spec => LateOnlyIfUnclosed
  <1> DEFINE Late == \A p \in wire : ApplyProposal(p) /\ IsNew(p) =>
                        \/ call[p.actor] = p.call
                        \/ closing[p.actor] = p.session.id
                        \/ p.session.id \in unclosed
  <1>1. Inv => Late
    BY DEF Inv, RaftInv, LateInv, Sent, ApplyProposal
  <1>2. Inv => [Late]_vars
    BY <1>1
  <1> QED
    BY <1>2, InvCorrect, PTL DEF LateOnlyIfUnclosed

(* Any number of servers, each proposing random ids of its own as often as *)
(* it likes, learn the same deployment id (server.go:307).                 *)
THEOREM OneDeploymentIDCorrect == Spec => []OneDeploymentID
  <1>1. Inv => OneDeploymentID
    BY DEF Inv, DBInv, ActorInv, Actors, OneDeploymentID
  <1> QED
    BY <1>1, InvCorrect, PTL

(* SubmitCreateDrummerChange (client.go:51) returns nil only for a shard   *)
(* that the DB has.                                                        *)
THEOREM NilMeansDefinedCorrect == Spec => []NilMeansDefined
  <1>1. Inv => NilMeansDefined
    BY DEF Inv, DBInv, ActorInv, Actors, NilMeansDefined
  <1> QED
    BY <1>1, InvCorrect, PTL

(* The RPC server is started with the deployment id or by a server that is *)
(* being stopped (drummer.go:168).                                         *)
THEOREM ServesWithDeploymentIDCorrect == Spec => []ServesWithDeploymentID
  <1>1. Inv => ServesWithDeploymentID
    BY DEF Inv, DBInv, DBTypes, ActorInv, Actors, ServesWithDeploymentID
  <1> QED
    BY <1>1, InvCorrect, PTL
=============================================================================
