--------------------------- MODULE DrummerServer ---------------------------
(***************************************************************************)
(* Drummer servers and the users of their API as clients of the raft group *)
(* of the Drummer DB (drummer.go, server.go, client.go): sessions, the     *)
(* deployment id that every server must learn before it serves, the ticks  *)
(* and orders of the leader, and the changes that users submit.            *)
(*                                                                         *)
(* The raft group is dragonboat's and external: a proposal that was given  *)
(* up on may be applied later or never, unless its session was closed      *)
(* before; one with a series number its session has already answered gets  *)
(* that answer again and is not applied; a call on a cancelled context     *)
(* proposes nothing.                                                       *)
(***************************************************************************)
EXTENDS DrummerKV, Integers, Sequences, FiniteSets

CONSTANTS
    Drummers,       \* servers
    Users,          \* callers of SubmitChange and SetBootstrapped
    UserShard,      \* user :> the shard it defines
    DeploymentIds,  \* what the random source may return, never 0
    Stoppable,      \* bound: servers that may be stopped
    MaxCalls,       \* bound: proposals made
    MaxFailures     \* bound: proposals given up on

ASSUME ServerAssumption ==
    /\ DeploymentIds \subseteq Nat \ {0}
    /\ Drummers \cap Users = {}

Actors == Drummers \cup Users

DeploymentIdKey == "deployment_id"
BootstrappedKey == "bootstrapped"

NoSession == [id |-> 0, series |-> 0]
Unknown   == 0

Result(code, value) == [code |-> code, value |-> value]
NoAnswer == Result("none", 0)
Rejected == Result("unknown session", 0)

VARIABLES
    tick, kvMap, shards,  \* the part of the DB that these calls read and write
    registered,  \* external: session id :> the last series answered, its result
    wire,        \* external: proposals on their way
    applied,     \* external: the calls applied, in order, with their results
    answer,      \* actor :> the answer to its proposal
    session,     \* sessionUser.session, or that of a request being served
    closing,     \* actor :> the session whose end it waits for
    call,        \* actor :> the number of the proposal it waits for, or 0
    calls,       \* proposals made
    pc,
    uintDid,     \* server :> the deployment id it proposed
    learned,     \* server :> the deployment id it learned
    stop,        \* Drummer.Stop: "no", "cancelled" or "stopped"
    serving,     \* servers whose RPC server was started
    acked,       \* calls and the results their callers were given
    unclosed,    \* sessions that could not be closed
    reply        \* user :> what the client function last returned

dbVars     == <<tick, kvMap, shards>>
callVars   == <<session, call, calls>>
closeVars  == <<closing, unclosed>>
serverVars == <<uintDid, learned, stop, serving>>
vars == <<dbVars, registered, wire, applied, answer, callVars, closeVars,
          serverVars, acked, pc, reply>>

Init ==
    /\ tick = 0
    /\ kvMap = [k \in {} |-> k]
    /\ shards = {}
    /\ registered = [s \in {} |-> s]
    /\ wire = {}
    /\ applied = <<>>
    /\ answer = [a \in Actors |-> NoAnswer]
    /\ session = [a \in Actors |-> NoSession]
    /\ closing = [a \in Actors |-> 0]
    /\ call = [a \in Actors |-> 0]
    /\ calls = 0
    /\ pc = [a \in Actors |-> IF a \in Drummers THEN "deploymentID" ELSE "idle"]
    /\ uintDid = [d \in Drummers |-> Unknown]
    /\ learned = [d \in Drummers |-> Unknown]
    /\ stop = [d \in Drummers |-> "no"]
    /\ serving = {}
    /\ acked = {}
    /\ unclosed = {}
    /\ reply = [u \in Users |-> "none"]

Goto(a, place) == pc' = [pc EXCEPT ![a] = place]

-----------------------------------------------------------------------------
(* The raft group (external) and the DB                                    *)

Sessions == DOMAIN registered

TickCmd        == [type |-> "tick"]
RequestsCmd    == [type |-> "requests"]
KVCmd(k, v)    == [type |-> "kv", kv |-> FinalKV(k, v)]
ShardCmd(s)    == [type |-> "shard", shard |-> s]
CloseCmd       == [type |-> "close"]

Bootstrapped == BootstrappedKey \in DOMAIN kvMap

\* Update of the DB: the result of a command, and what it changes.
ShardResult(s) == IF Bootstrapped THEN "bootstrapped"
                  ELSE IF s \in shards THEN "exists" ELSE "updated"

ResultOf(cmd) ==
    CASE cmd.type = "tick"     -> Result("tick", tick + 1)
      [] cmd.type = "requests" -> Result("requests", 0)
      [] cmd.type = "kv"       -> Result(KVResult(kvMap, cmd.kv), 0)
      [] cmd.type = "shard"    -> Result(ShardResult(cmd.shard), 0)

Update(cmd) ==
    /\ tick' = IF cmd.type = "tick" THEN tick + 1 ELSE tick
    /\ kvMap' = IF cmd.type = "kv" THEN UpdateKV(kvMap, cmd.kv) ELSE kvMap
    /\ shards' = IF cmd.type = "shard" /\ ShardResult(cmd.shard) = "updated"
                   THEN shards \cup {cmd.shard} ELSE shards

Tell(p, result) ==
    answer' = IF call[p.actor] = p.call THEN [answer EXCEPT ![p.actor] = result]
                                        ELSE answer

Arrive(p) ==
    /\ wire' = wire \ {p}
    /\ UNCHANGED <<callVars, serverVars, acked, reply>>

\* A proposal of a session with a series number that it has not answered.
IsNew(p) == registered[p.session.id].series < p.session.series

ApplyProposal(p) ==
    /\ Arrive(p)
    /\ p.cmd # CloseCmd
    /\ p.session.id \in Sessions
    /\ IF IsNew(p)
         THEN /\ Update(p.cmd)
              /\ registered' = [registered EXCEPT ![p.session.id] =
                                    [series |-> p.session.series, result |-> ResultOf(p.cmd)]]
              /\ applied' = Append(applied, [call |-> p.call, result |-> ResultOf(p.cmd)])
         ELSE UNCHANGED <<dbVars, registered, applied>>
    /\ Tell(p, registered'[p.session.id].result)
    /\ UNCHANGED <<closeVars, pc>>

RejectProposal(p) ==
    /\ Arrive(p)
    /\ p.cmd # CloseCmd
    /\ p.session.id \notin Sessions
    /\ Tell(p, Rejected)
    /\ UNCHANGED <<dbVars, registered, applied, closeVars, pc>>

\* Where an actor goes on after its session was closed.
Back(a) == IF a \in Users THEN "idle"
           ELSE IF a \in serving THEN "main" ELSE "deploymentID"

ApplyClose(p) ==
    /\ Arrive(p)
    /\ p.cmd = CloseCmd
    /\ registered' = [i \in Sessions \ {p.session.id} |-> registered[i]]
    /\ IF closing[p.actor] = p.session.id
         THEN closing' = [closing EXCEPT ![p.actor] = 0] /\ Goto(p.actor, Back(p.actor))
         ELSE UNCHANGED <<closing, pc>>
    /\ UNCHANGED <<dbVars, applied, answer, unclosed>>

Raft ==
    \E p \in wire : ApplyProposal(p) \/ RejectProposal(p) \/ ApplyClose(p)

-----------------------------------------------------------------------------
(* Calls and sessions                                                      *)

Message(a, c, s, cmd) == [actor |-> a, call |-> c, session |-> s, cmd |-> cmd]

\* getSession: the session the actor has, or a new one.
SessionOf(a, id) ==
    IF session[a] = NoSession THEN [id |-> id, series |-> 1] ELSE session[a]

\* proposeDrummerUpdate; if no session can be had nothing happens.
Propose(a, cmd, place) ==
    LET n == calls + 1
        s == SessionOf(a, n)
    IN  /\ n <= MaxCalls
        /\ calls' = n
        /\ call' = [call EXCEPT ![a] = n]
        /\ session' = [session EXCEPT ![a] = s]
        /\ registered' = [i \in Sessions \cup {s.id} |->
                             IF i \in Sessions THEN registered[i]
                                               ELSE [series |-> 0, result |-> NoAnswer]]
        /\ wire' = wire \cup {Message(a, n, s, cmd)}
        /\ Goto(a, place)
        /\ UNCHANGED <<dbVars, applied, answer, closeVars, acked, reply>>

Waiting(a) == call[a] # 0
Answered(a) == Waiting(a) /\ answer[a].code \notin {NoAnswer.code, Rejected.code}

EndCall(a) ==
    /\ call' = [call EXCEPT ![a] = 0]
    /\ answer' = [answer EXCEPT ![a] = NoAnswer]

\* Faulty variant: the session is used again as it is.
SameSeries(s) == s

\* clientProposalCompleted.
ProposalCompleted(s) == [s EXCEPT !.series = @ + 1]

Succeed(a) ==
    /\ Answered(a)
    /\ EndCall(a)
    /\ acked' = acked \cup {[call |-> call[a], result |-> answer[a]]}

CompleteIn(a, place) ==
    /\ Succeed(a)
    /\ session' = [session EXCEPT ![a] = ProposalCompleted(@)]
    /\ Goto(a, place)
    /\ UNCHANGED <<dbVars, registered, wire, applied, calls, closeVars, reply>>

\* Faulty variant: the session is only forgotten.
DropSession(a) ==
    /\ session' = [session EXCEPT ![a] = NoSession]
    /\ Goto(a, Back(a))
    /\ UNCHANGED <<wire, closing>>

\* resetSession, and the deferred SyncCloseSession of a request.
CloseSession(a) ==
    /\ session' = [session EXCEPT ![a] = NoSession]
    /\ closing' = [closing EXCEPT ![a] = session[a].id]
    /\ wire' = wire \cup {Message(a, 0, session[a], CloseCmd)}
    /\ Goto(a, "close")

Failures == calls - Cardinality(acked) - Cardinality({a \in Actors : Waiting(a)})

\* An error: a timeout, a rejection, or a failed lookup after an answer.
GiveUp(a) ==
    /\ Waiting(a)
    /\ Failures < MaxFailures
    /\ EndCall(a)
    /\ CloseSession(a)
    /\ UNCHANGED <<dbVars, registered, applied, calls, unclosed, serverVars, acked>>

CloseFails(a) ==
    /\ pc[a] = "close"
    /\ unclosed' = unclosed \cup {closing[a]}
    /\ closing' = [closing EXCEPT ![a] = 0]
    /\ Goto(a, Back(a))
    /\ UNCHANGED <<dbVars, registered, wire, applied, answer, callVars, serverVars,
                   acked, reply>>

-----------------------------------------------------------------------------
(* A Drummer server: drummerWorker                                         *)

\* server.setDeploymentID proposes a random id ...
ProposeDeploymentID(d) ==
    /\ pc[d] = "deploymentID"
    /\ stop[d] = "no"
    /\ \E id \in DeploymentIds :
          /\ Propose(d, KVCmd(DeploymentIdKey, id), "deploymentIDWait")
          /\ uintDid' = [uintDid EXCEPT ![d] = id]
    /\ UNCHANGED <<learned, stop, serving>>

\* Faulty variant: the id that was proposed is the one.
OwnID(d) == uintDid[d]

LookupDeploymentID == kvMap[DeploymentIdKey].value

\* ... and returns it, or the one that a lookup finds when another was first.
DecidedID(d) == IF answer[d].code = DBKVUpdated THEN uintDid[d] ELSE LookupDeploymentID

LearnDeploymentID(d) ==
    /\ pc[d] = "deploymentIDWait"
    /\ CompleteIn(d, "start")
    /\ learned' = [learned EXCEPT ![d] = DecidedID(d)]
    /\ UNCHANGED <<uintDid, stop, serving>>

\* Faulty variant: any error ends the worker.
AnyError(d) == TRUE

Cancelled(d) == stop[d] # "no"

\* The worker of setDeploymentID gives up once the context is cancelled, with
\* its session open, and the server goes on unless it was told to stop.
Aborted(d) ==
    /\ Cancelled(d)
    /\ pc[d] \in {"deploymentID", "deploymentIDWait"}
    /\ EndCall(d)
    /\ Goto(d, "start")
    /\ unclosed' = unclosed \cup {session[d].id}
    /\ UNCHANGED <<dbVars, registered, wire, applied, session, calls, closing,
                   serverVars, acked, reply>>

Serve(d) == serving' = serving \cup {d}

\* ShouldStop is asked, then the RPC server started.
StartDrummerRPCServer(d) ==
    /\ pc[d] = "start"
    /\ IF stop[d] = "stopped"
         THEN Goto(d, "ended") /\ UNCHANGED serving
         ELSE Goto(d, "main") /\ Serve(d)
    /\ UNCHANGED <<dbVars, registered, wire, applied, answer, callVars, closeVars,
                   uintDid, learned, stop, acked, reply>>

\* drummerMain of a leader: a tick, or the orders of a pass.
ProposeUpdate(d) ==
    /\ pc[d] = "main"
    /\ stop[d] = "no"
    /\ \E cmd \in {TickCmd, RequestsCmd} : Propose(d, cmd, "updateWait")
    /\ UNCHANGED serverVars

UpdateDone(d) ==
    /\ pc[d] = "updateWait"
    /\ CompleteIn(d, "main")
    /\ UNCHANGED serverVars

ServerGivesUp(d) == GiveUp(d) /\ UNCHANGED reply

EndMain(d) ==
    /\ pc[d] = "main"
    /\ stop[d] = "stopped"
    /\ Goto(d, "ended")
    /\ UNCHANGED <<dbVars, registered, wire, applied, answer, callVars, closeVars,
                   serverVars, acked, reply>>

\* Drummer.Stop cancels the context first and tells the workers to stop later.
Stop(d) ==
    /\ d \in Stoppable
    /\ stop[d] # "stopped"
    /\ stop' = [stop EXCEPT ![d] = IF @ = "no" THEN "cancelled" ELSE "stopped"]
    /\ UNCHANGED <<dbVars, registered, wire, applied, answer, callVars, closeVars,
                   uintDid, learned, serving, acked, pc, reply>>

Server(d) ==
    \/ ProposeDeploymentID(d) \/ LearnDeploymentID(d) \/ Aborted(d)
    \/ StartDrummerRPCServer(d) \/ ProposeUpdate(d) \/ UpdateDone(d)
    \/ ServerGivesUp(d) \/ CloseFails(d) \/ EndMain(d) \/ Stop(d)

-----------------------------------------------------------------------------
(* A user: SubmitChange and SetBootstrapped, each in a session of its own.  *)

SubmitChange(u) ==
    /\ pc[u] = "idle"
    /\ Propose(u, ShardCmd(UserShard[u]), "shardWait")
    /\ UNCHANGED serverVars

SetBootstrapped(u) ==
    /\ pc[u] = "idle"
    /\ Propose(u, KVCmd(BootstrappedKey, 1), "bootstrapWait")
    /\ UNCHANGED serverVars

\* Faulty variant: every answer is taken for success.
AnyAnswer(code) == "nil"

\* SubmitCreateDrummerChange: that the shard exists is no error.
ErrorOf(code) == IF code = "bootstrapped" THEN "ErrInvalidRequest" ELSE "nil"

Reply(u) ==
    /\ Succeed(u)
    /\ CloseSession(u)
    /\ reply' = [reply EXCEPT ![u] = IF pc[u] = "shardWait" THEN ErrorOf(answer[u].code)
                                                            ELSE "none"]
    /\ UNCHANGED <<dbVars, registered, applied, calls, unclosed, serverVars>>

UserGivesUp(u) == GiveUp(u) /\ reply' = [reply EXCEPT ![u] = "error"]

User(u) ==
    \/ SubmitChange(u) \/ SetBootstrapped(u) \/ Reply(u) \/ UserGivesUp(u)
    \/ CloseFails(u)

Next ==
    \/ \E d \in Drummers : Server(d)
    \/ \E u \in Users : User(u)
    \/ Raft

Spec == Init /\ [][Next]_vars

-----------------------------------------------------------------------------
(* What a caller is told is true: its update was applied once, and with    *)
(* this result.  A session whose series number stood still would be        *)
(* answered with the result of the call before (drummer.go:345).           *)
AcknowledgedOnce ==
    \A k \in acked :
        /\ \E n \in DOMAIN applied : applied[n] = k
        /\ \A m, n \in DOMAIN applied :
              applied[m].call = k.call /\ applied[n].call = k.call => m = n

(* An update its caller gave up on is applied later only if its session    *)
(* could not be closed: otherwise the batch of orders or the report that   *)
(* follows is never overtaken by the one before (drummer.go:84,            *)
(* server.go:420).                                                         *)
LateOnlyIfUnclosed ==
    [][\A p \in wire : ApplyProposal(p) /\ IsNew(p) =>
          \/ call[p.actor] = p.call
          \/ closing[p.actor] = p.session.id
          \/ p.session.id \in unclosed]_vars

(* All servers learn one deployment id, that of the DB, whichever proposed *)
(* it and however often they retried with other random numbers.            *)
OneDeploymentID ==
    \A d \in Drummers : learned[d] # Unknown =>
        /\ DeploymentIdKey \in DOMAIN kvMap
        /\ learned[d] = kvMap[DeploymentIdKey].value

(* A user that was told nil finds its shard in the DB, also when it was    *)
(* told so for a retry or while another user ended the bootstrap.          *)
NilMeansDefined == \A u \in Users : reply[u] = "nil" => UserShard[u] \in shards

(* A server serves requests only with the deployment id, which is set then  *)
(* (drummer.go:168 and 176); but one that is being stopped may start its    *)
(* RPC server without, for Stop cancels the context first (drummer.go:154). *)
ServesWithDeploymentID ==
    \A d \in serving : learned[d] # Unknown \/ stop[d] # "no"
=============================================================================
