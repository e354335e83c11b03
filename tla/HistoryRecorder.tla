-------------------------- MODULE HistoryRecorder --------------------------
(***************************************************************************)
(* The recorder of the linearizability check (lcm/manager.go,              *)
(* lcm/process.go): a coordinator that starts reads and writes of one key  *)
(* on idle processes, the processes with their connection pools, the log   *)
(* they share, and the parser that turns the log into a history.           *)
(*                                                                         *)
(* The NodeHosts' service is external: a register on which an operation    *)
(* takes effect between its call and its answer, or, when it failed, at    *)
(* any later time or never.  Drummer answers with any two addresses.  A    *)
(* second of the ticker that does not reach the wait is no step.           *)
(***************************************************************************)
EXTENDS History, SequencesExt

CONSTANTS
    Processes,
    Coord,      \* owner of the coordinator's pool
    Drummer,    \* drummerAddresses[0]
    Targets,    \* addresses Drummer may answer: type of operation :> address
    Quota,      \* operations started in one pass (4 in the code)
    MaxOps, MaxWrites
                \* bounds: operations started, and writes among them

ASSUME RecorderAssumption == Processes \subseteq Nat /\ Coord \notin Processes

\* The writes of a run write 1, 2, and so on.
ASSUME OpsAssumption == MaxWrites \in Nat /\ 1..MaxWrites \subseteq Values

VARIABLES
    log,            \* events, guarded by Coordinator.mu
    value,          \* the next value to write
    completeCount, wait,
    loop,           \* mainLoop: "ticker", "select", "start", "ended"
    quota,          \* what the pass may still start
    target,         \* and where: type of operation :> address
    chosen,         \* the process being started and its operation
    idle, stopped,  \* flags of the processes
    pc,             \* goroutine of a process, "none" when there is none
    op, addr,       \* what it carries out, and where
    open,           \* open connections: <<owner of the pool, address>>
    stopping,       \* Stop: "no", "cancelled", "closing", "pool" or "done"
    toClose,        \* processes that Stop has not dealt with
    register,       \* external: the value of the key, NilValue before a write
    effect,         \* external: process :> what its operation has done
    late            \* external: writes that failed and may still take effect

logVars      == <<log, completeCount, wait>>
loopVars     == <<value, loop, quota, target, chosen>>
flagVars     == <<idle, stopped>>
procVars     == <<pc, op, addr>>
stopVars     == <<stopping, toClose>>
serviceVars  == <<register, effect, late>>
vars == <<logVars, loopVars, flagVars, procVars, open, stopVars, serviceVars>>

Owners    == Processes \cup {Coord}
Cancelled == stopping # "no"

ReadOp     == [type |-> "read", value |-> NilValue]
WriteOp(v) == [type |-> "write", value |-> v]
NoEffect   == [done |-> FALSE, value |-> NilValue]
NoAddress  == <<>>

initialWait == 25
maxWait     == 100

Init ==
    /\ log = <<>>
    /\ value = 1
    /\ completeCount = 0
    /\ wait = initialWait
    /\ loop = "ticker"
    /\ quota = 0
    /\ target = <<>>
    /\ chosen = <<>>
    /\ idle = [p \in Processes |-> TRUE]
    /\ stopped = [p \in Processes |-> FALSE]
    /\ pc = [p \in Processes |-> "none"]
    /\ op = [p \in Processes |-> ReadOp]
    /\ addr = [p \in Processes |-> NoAddress]
    /\ open = {}
    /\ stopping = "no"
    /\ toClose = {}
    /\ register = NilValue
    /\ effect = [p \in Processes |-> NoEffect]
    /\ late = {}

-----------------------------------------------------------------------------
(* The records, each appended under the lock with its count.               *)

Event(o, result, p, v) == [type |-> o.type, result |-> result, id |-> p, value |-> v]

Record(o, result, p, v) == log' = Append(log, Event(o, result, p, v))

increaseCompleteCount ==
    /\ completeCount' = (completeCount + 1) % 4
    /\ wait' = IF completeCount + 1 = 4 THEN initialWait ELSE wait

resetCompleteCount ==
    /\ completeCount' = 0
    /\ wait' = IF 2 * wait >= maxWait THEN maxWait ELSE 2 * wait

-----------------------------------------------------------------------------
(* Connections: a pool keeps one for each address.  It is locked while it  *)
(* dials, and a dial fails once the context is cancelled.                  *)

\* Faulty variant: the dial ignores the context.
ConnectAnyTime(o, a) == open' = open \cup {<<o, a>>}

Connect(o, a) ==
    /\ <<o, a>> \in open \/ ~Cancelled
    /\ open' = open \cup {<<o, a>>}

\* A closed connection stays in its pool but is never used again.
CloseConnection(o, a) == open' = open \ {<<o, a>>}

ClosePool(o) == open' = {c \in open : c[1] # o}

\* The first half of setStopped: its second, pool.Close, is a later step.
SetStoppedFlag(p) == stopped' = [stopped EXCEPT ![p] = TRUE]

-----------------------------------------------------------------------------
(* The coordinator's mainLoop.                                             *)

allStopped == \A p \in Processes : stopped[p]

\* Faulty variant: a process that failed is used again.
AvailableIfIdle(p) == idle[p]

Available(p) == idle[p] /\ ~stopped[p]
hasAvailableProcess == \E p \in Processes : Available(p)

Started == Cardinality({k \in DOMAIN log : log[k].result = "invoked"})

\* Faulty variants: the loop goes on until it is stopped, or all processes are.
IsCancelled == Cancelled
IsAllStopped == allStopped

ShouldEnd == Cancelled \/ allStopped

EndLoop ==
    /\ loop = "ticker"
    /\ ShouldEnd
    /\ loop' = "ended"
    /\ UNCHANGED <<logVars, value, quota, target, chosen, flagVars, procVars, open,
                   stopVars, serviceVars>>

\* The wait is over and a pass begins, with getTargetAddress.
TargetFound ==
    /\ loop = "ticker"
    /\ ~allStopped
    /\ Started < MaxOps
    /\ ~Cancelled
    /\ Connect(Coord, Drummer)
    /\ target' \in Targets
    /\ loop' = "select"
    /\ quota' = Quota
    /\ UNCHANGED <<logVars, value, chosen, flagVars, procVars, stopVars, serviceVars>>

\* No connection, or the RPC fails, or its answer names no address.
TargetNotFound ==
    /\ loop = "ticker"
    /\ ~allStopped
    /\ Started < MaxOps
    /\ \/ CloseConnection(Coord, Drummer)
       \/ Connect(Coord, Drummer)
    /\ UNCHANGED <<logVars, loopVars, flagVars, procVars, stopVars, serviceVars>>

MayStartAnother == quota > 0

EndPass ==
    /\ loop = "select"
    /\ ~hasAvailableProcess \/ ~MayStartAnother \/ Started = MaxOps
    /\ loop' = "ticker"
    /\ quota' = 0
    /\ target' = <<>>
    /\ UNCHANGED <<logVars, value, chosen, flagVars, procVars, open, stopVars, serviceVars>>

\* The invocation is recorded before the operation is started.
Invoke(p) ==
    /\ loop = "select"
    /\ MayStartAnother
    /\ Started < MaxOps
    /\ Available(p)
    /\ quota' = quota - 1
    /\ \E o \in {ReadOp, WriteOp(value)} :
          /\ o.type = "write" => value <= MaxWrites
          /\ Record(o, "invoked", p, o.value)
          /\ chosen' = <<p, o>>
          /\ value' = IF o.type = "write" THEN value + 1 ELSE value
    /\ loop' = "start"
    /\ UNCHANGED <<completeCount, wait, target, flagVars, procVars, open, stopVars,
                   serviceVars>>

\* StartWrite, StartRead: setBusy, and the goroutine.
Start ==
    LET p == chosen[1]
    IN  /\ loop = "start"
        /\ idle' = [idle EXCEPT ![p] = FALSE]
        /\ pc' = [pc EXCEPT ![p] = "connect"]
        /\ op' = [op EXCEPT ![p] = chosen[2]]
        /\ addr' = [addr EXCEPT ![p] = target[chosen[2].type]]
        /\ loop' = "select"
        /\ chosen' = <<>>
        /\ UNCHANGED <<logVars, value, quota, target, stopped, open, stopVars, serviceVars>>

Coordinator ==
    \/ EndLoop \/ TargetFound \/ TargetNotFound \/ EndPass
    \/ (\E p \in Processes : Invoke(p)) \/ Start

-----------------------------------------------------------------------------
(* The goroutine of a process: write or read, then the records and flags.  *)

Goto(p, place) == pc' = [pc EXCEPT ![p] = place]

\* The connection and, for a write, a session.
GetSession(p) ==
    /\ pc[p] = "connect"
    /\ Connect(p, addr[p])
    /\ Goto(p, "call")
    /\ UNCHANGED <<logVars, loopVars, flagVars, op, addr, stopVars, serviceVars>>

\* One of the two fails; when it is the session, the connection is closed.
GetSessionFails(p) ==
    /\ pc[p] = "connect"
    /\ <<p, addr[p]>> \notin open \/ op[p].type = "write"
    /\ CloseConnection(p, addr[p])
    /\ Goto(p, "failed")
    /\ UNCHANGED <<logVars, loopVars, flagVars, op, addr, stopVars, serviceVars>>

\* The service (external) carries out the operation of p.
TakeEffect(p) ==
    /\ pc[p] = "call"
    /\ ~effect[p].done
    /\ effect' = [effect EXCEPT ![p] = [done |-> TRUE, value |-> register]]
    /\ register' = IF op[p].type = "write" THEN op[p].value ELSE register
    /\ UNCHANGED <<logVars, loopVars, flagVars, procVars, open, stopVars, late>>

\* An error, a timeout or a cancellation; a write may be on its way.
CallFails(p) ==
    /\ pc[p] = "call"
    /\ CloseConnection(p, addr[p])
    /\ Goto(p, "failed")
    /\ late' = IF op[p].type = "write" /\ ~effect[p].done
                 THEN late \cup {op[p].value} ELSE late
    /\ UNCHANGED <<logVars, loopVars, flagVars, op, addr, stopVars, register, effect>>

LateEffect(v) ==
    /\ register' = v
    /\ late' = late \ {v}
    /\ UNCHANGED <<logVars, loopVars, flagVars, procVars, open, stopVars, effect>>

\* The call is answered, after it took effect, and recorded.
RecordCompleted(p) ==
    /\ pc[p] = "call"
    /\ effect[p].done
    /\ Record(op[p], "completed", p,
              IF op[p].type = "write" THEN op[p].value ELSE effect[p].value)
    /\ increaseCompleteCount
    /\ Goto(p, "recorded")
    /\ UNCHANGED <<loopVars, flagVars, op, addr, open, stopVars, serviceVars>>

StopSelf(p) ==
    /\ pc[p] = "failed"
    /\ SetStoppedFlag(p)
    /\ Goto(p, "flagged")
    /\ UNCHANGED <<logVars, loopVars, idle, op, addr, open, stopVars, serviceVars>>

CloseOwnPool(p) ==
    /\ pc[p] = "flagged"
    /\ ClosePool(p)
    /\ Goto(p, "stopped")
    /\ UNCHANGED <<logVars, loopVars, flagVars, op, addr, stopVars, serviceVars>>

RecordFailed(p) ==
    /\ pc[p] = "stopped"
    /\ Record(op[p], "failed", p, NilValue)
    /\ resetCompleteCount
    /\ Goto(p, "recorded")
    /\ UNCHANGED <<loopVars, flagVars, op, addr, open, stopVars, serviceVars>>

\* setIdle is deferred: it comes last.
SetIdle(p) ==
    /\ pc[p] = "recorded"
    /\ idle' = [idle EXCEPT ![p] = TRUE]
    /\ Goto(p, "none")
    /\ op' = [op EXCEPT ![p] = ReadOp]
    /\ addr' = [addr EXCEPT ![p] = NoAddress]
    /\ effect' = [effect EXCEPT ![p] = NoEffect]
    /\ UNCHANGED <<logVars, loopVars, stopped, open, stopVars, register, late>>

Goroutine(p) ==
    \/ GetSession(p) \/ GetSessionFails(p)
    \/ CallFails(p) \/ RecordCompleted(p)
    \/ StopSelf(p) \/ CloseOwnPool(p) \/ RecordFailed(p) \/ SetIdle(p)

-----------------------------------------------------------------------------
(* Stop: cancel, wait for mainLoop, close the pools.                       *)

Cancel ==
    /\ stopping = "no"
    /\ stopping' = "cancelled"
    /\ UNCHANGED <<logVars, loopVars, flagVars, procVars, open, toClose, serviceVars>>

LoopIsOver ==
    /\ stopping = "cancelled"
    /\ loop = "ended"
    /\ stopping' = "closing"
    /\ ClosePool(Coord)
    /\ toClose' = Processes
    /\ UNCHANGED <<logVars, loopVars, flagVars, procVars, serviceVars>>

\* The processes are dealt with in turn.  Nobody else reads the flag by now: to
\* read it and to set it is one step.
InTurn(p) == p \in toClose /\ \A q \in toClose : p <= q

SkipProcess(p) ==
    /\ stopping = "closing"
    /\ InTurn(p)
    /\ stopped[p]
    /\ toClose' = toClose \ {p}
    /\ UNCHANGED <<logVars, loopVars, flagVars, procVars, open, stopping, serviceVars>>

StopProcess(p) ==
    /\ stopping = "closing"
    /\ InTurn(p)
    /\ ~stopped[p]
    /\ SetStoppedFlag(p)
    /\ stopping' = "pool"
    /\ UNCHANGED <<logVars, loopVars, idle, procVars, open, toClose, serviceVars>>

CloseProcessPool(p) ==
    /\ stopping = "pool"
    /\ InTurn(p)
    /\ ClosePool(p)
    /\ toClose' = toClose \ {p}
    /\ stopping' = "closing"
    /\ UNCHANGED <<logVars, loopVars, flagVars, procVars, serviceVars>>

StopReturns ==
    /\ stopping = "closing"
    /\ toClose = {}
    /\ stopping' = "done"
    /\ UNCHANGED <<logVars, loopVars, flagVars, procVars, open, toClose, serviceVars>>

Stop ==
    \/ Cancel \/ LoopIsOver \/ StopReturns
    \/ \E p \in Processes : SkipProcess(p) \/ StopProcess(p) \/ CloseProcessPool(p)

Next ==
    \/ Coordinator
    \/ \E p \in Processes : Goroutine(p) \/ TakeEffect(p)
    \/ \E v \in late : LateEffect(v)
    \/ Stop

\* Goroutines run, calls end by their timeouts, and a Stop that began goes on.
\* The select of mainLoop does not choose the ticker for ever.
Spec ==
    /\ Init /\ [][Next]_vars
    /\ WF_vars(Coordinator) /\ SF_vars(EndLoop)
    /\ \A p \in Processes : WF_vars(Goroutine(p))
    /\ WF_vars(Stop /\ ~Cancel)

-----------------------------------------------------------------------------
(* toJepsenLogEntry and parseJepsenLog: an id for every invocation, and    *)
(* for the other lines the id of the process's open invocation, or 0.      *)

\* All lines are written under the lock: those of one moment.
SaveAsJepsenLog == log

InputOf(e)  == IF e.type = "write" THEN WriteInput(e.value) ELSE ReadInput
OutputOf(e) == IF e.result = "failed" THEN UnknownOutput
               ELSE IF e.type = "write" THEN WriteOutput ELSE ReadOutput(e.value)

\* Faulty variant: the line of a failed write ends the write.
EveryLine(e) == TRUE

\* No pattern matches ":info :write :timed-out".
IsMatched(e) == ~(e.type = "write" /\ e.result = "failed")

ParseLine(acc, e) ==
    IF e.result = "invoked"
      THEN [events |-> Append(acc.events, Call(acc.next, InputOf(e))),
            open |-> [p \in DOMAIN acc.open \cup {e.id} |->
                        IF p = e.id THEN acc.next ELSE acc.open[p]],
            next |-> acc.next + 1]
    ELSE IF IsMatched(e)
      THEN LET id == IF e.id \in DOMAIN acc.open THEN acc.open[e.id] ELSE 0
           IN  [acc EXCEPT !.events = Append(@, Return(id, OutputOf(e))),
                           !.open = [p \in DOMAIN @ \ {e.id} |-> @[p]]]
    ELSE acc

NothingParsed == [events |-> <<>>, open |-> [p \in {} |-> 0], next |-> 0]

ParseLines(lines) == FoldLeft(ParseLine, NothingParsed, lines)

\* What is open at the end returns there, in any order.
Finish(acc) ==
    LET rest == SetToSeq({acc.open[p] : p \in DOMAIN acc.open})
    IN  acc.events \o [k \in DOMAIN rest |-> Return(rest[k], UnknownOutput)]

Parse(lines) == Finish(ParseLines(lines))

-----------------------------------------------------------------------------

(* Whenever the log is saved (SaveAsJepsenLog may be called at any time,   *)
(* lcm/manager.go:224), the parser makes of it a history with one return   *)
(* for each call, after it: a process is only given an operation when the  *)
(* last one is recorded, and no other after a write that failed.           *)
LogIsComplete == Complete(Parse(SaveAsJepsenLog))

(* No false alarm: however the records of the processes interleave with    *)
(* the calls, a service that behaves gets a history the checker accepts,   *)
(* with writes that failed and took effect later.                          *)
NoFalseAlarm == Linearizable(Parse(SaveAsJepsenLog))

(* When Stop has returned, a connection that is still open is one of a     *)
(* process that marked itself stopped, so that Stop passed it over, and    *)
(* that is about to close its pool: the coordinator's and those of running *)
(* operations are closed (lcm/manager.go:212, lcm/process.go:72).          *)
NoConnectionLeft ==
    stopping = "done" =>
        \A c \in open : c[1] \in Processes /\ pc[c[1]] = "flagged"

(* Stop returns, the operations that were running end, and then no         *)
(* connection is open.                                                     *)
StopIsFinal ==
    stopping # "no" ~> /\ stopping = "done"
                       /\ loop = "ended"
                       /\ \A p \in Processes : pc[p] = "none" /\ stopped[p]
                       /\ open = {}

(* When every process has failed, mainLoop ends without Stop               *)
(* (lcm/manager.go:288).                                                   *)
NothingLeftToStart == (\A p \in Processes : stopped[p]) ~> loop = "ended"
=============================================================================
