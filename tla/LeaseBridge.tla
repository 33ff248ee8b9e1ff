----------------------------- MODULE LeaseBridge -----------------------------
(***************************************************************************)
(* The stdio MCP bridge of one agent, Me (transports/mcp/client.py): it    *)
(* keeps a LeaseBinding for each task the model claimed, serves the        *)
(* model's tool calls, and renews the lease in the background.  Both read  *)
(* and write the binding's versions under binding.lock, and both talk to   *)
(* the store over HTTP, where a request or its answer may be lost or late. *)
(*                                                                         *)
(* The store is Coordination: a request is served by one of its actions.   *)
(* What IdempotentTx shows of a key is taken as a fact here: a request     *)
(* whose key has a stored response is answered from it.                    *)
(***************************************************************************)
EXTENDS Coordination

CONSTANTS
    Me,           \* the bridge's agent
    Callers,      \* tool calls that may be in progress together
    Keys,         \* idempotency keys of tool calls, drawn or supplied by the model
    MaxCalls,     \* bound: tool calls
    MaxRenewals,  \* bound: renewal keys drawn
    MaxFaults     \* bound: lost or late requests and answers, and restarts

ASSUME BridgeAssumption ==
    /\ Me \in Agents
    /\ Callers \cap (Tasks \cup {None}) = {}
    /\ Keys \cap Nat = {}
    /\ MaxCalls \in Nat
    /\ MaxRenewals \in Nat
    /\ MaxFaults \in Nat

VARIABLES
    bindings,  \* the LeaseBinding objects, in order of creation
    bound,     \* _leases: the position of each task's binding, 0 if none
    proc,      \* each tool call, and the renewal loop of each task (_renewals)
    wire,      \* HTTP requests the store has not served
    inbox,     \* the answer each waiting process may read
    stored,    \* idempotency_records: <<operation, key>> with request and response
    used,      \* tool calls made, renewal keys drawn and faults met so far
    acked,     \* checkpoint keys whose response reached the bridge, by lease
    upset      \* of each binding: a mutation lost its answer, or it came of a replay

bridgeVars == <<bindings, bound, proc, wire, inbox, stored, used, acked, upset>>

allVars == <<vars, bridgeVars>>

Processes == Callers \cup Tasks

Idle == [pc |-> "idle", op |-> None, task |-> None, key |-> None, b |-> 0]

At(pc, op, t, key, b) == [pc |-> pc, op |-> op, task |-> t, key |-> key, b |-> b]

Refused == [ok |-> FALSE, lease |-> None, tv |-> 0, lv |-> 0, seconds |-> 0]

Granted(l, tv, lv, s) == [ok |-> TRUE, lease |-> l, tv |-> tv, lv |-> lv, seconds |-> s]

\* The agents have joined and the tasks have been added.
BridgeInit ==
    /\ now = 0
    /\ runs = Runs
    /\ agents = [a \in Agents |-> [version |-> 1, events |-> 1]]
    /\ tasks = [t \in Tasks |-> [state |-> "ready", owner |-> None,
                                 lease |-> None, version |-> 1]]
    /\ deps = {}
    /\ leases = [l \in Leases |-> NoLease]
    /\ checkpoints = [t \in Tasks |-> <<>>]
    /\ completions = [t \in Tasks |-> None]
    /\ ledger = [t \in Tasks |-> <<>>]
    /\ bindings = <<>>
    /\ bound = [t \in Tasks |-> 0]
    /\ proc = [p \in Processes |-> Idle]
    /\ wire = {}
    /\ inbox = [p \in Processes |-> None]
    /\ stored = {}
    /\ used = [calls |-> 0, renewals |-> 0, faults |-> 0]
    /\ acked = [l \in Leases |-> {}]
    /\ upset = [t \in Tasks |-> FALSE]

-----------------------------------------------------------------------------
(* Tool calls.                                                             *)

Request(p, op, t, key, body) ==
    [op |-> op, task |-> t, key |-> key, from |-> p, body |-> body]

Enter(c, state) ==
    /\ proc[c] = Idle
    /\ used.calls < MaxCalls
    /\ used' = [used EXCEPT !.calls = @ + 1]
    /\ proc' = [proc EXCEPT ![c] = state]

\* claim_task needs no binding and takes no lock.
CallClaim(c, t, key, s) ==
    /\ Enter(c, At("wait", "claim", t, key, 0))
    /\ wire' = wire \cup {Request(c, "claim", t, key, [seconds |-> s])}
    /\ UNCHANGED <<vars, bindings, bound, inbox, stored, acked, upset>>

\* checkpoint_task and complete_task fetch the binding, then wait for its lock.
CallBound(c, t, op, key) ==
    /\ bound[t] /= 0
    /\ Enter(c, At("lock", op, t, key, bound[t]))
    /\ UNCHANGED <<vars, bindings, bound, wire, inbox, stored, acked, upset>>

\* The versions are read from the binding once the lock is held.
Send(p) ==
    LET me == proc[p]
        o  == bindings[me.b]
        body == IF me.op = "renew"
                THEN [lease |-> o.lease, lv |-> o.lv, seconds |-> o.seconds]
                ELSE [lease |-> o.lease, tv |-> o.tv, lv |-> o.lv]
    IN  /\ me.pc = "lock"
        /\ o.holder = None
        /\ bindings' = [bindings EXCEPT ![me.b].holder = p]
        /\ proc' = [proc EXCEPT ![p].pc = "wait"]
        /\ wire' = wire \cup {Request(p, me.op, me.task, me.key, body)}
        /\ UNCHANGED <<vars, bound, inbox, stored, used, acked, upset>>

-----------------------------------------------------------------------------
(* The store serves a request, whether or not its sender still waits.      *)

Answer(r, reply) ==
    /\ wire' = wire \ {r}
    /\ inbox' = IF r.from = None THEN inbox ELSE [inbox EXCEPT ![r.from] = reply]
    /\ UNCHANGED <<bindings, bound, proc, used, acked, upset>>

Record(r, reply) ==
    stored' = stored \cup {[op |-> r.op, key |-> r.key, body |-> <<r.task, r.body>>,
                            reply |-> reply]}

Known(r) == {e \in stored : e.op = r.op /\ e.key = r.key}

\* Stored with the same request: its response.  With another: a conflict.
ServeReplay(r) ==
    \E e \in Known(r) :
        /\ Answer(r, IF e.body = <<r.task, r.body>> THEN e.reply ELSE Refused)
        /\ UNCHANGED <<vars, stored>>

ServeClaim(r, l, at) ==
    /\ r.op = "claim"
    /\ Known(r) = {}
    /\ ClaimTask(Me, r.task, l, r.body.seconds, None, at)
    /\ LET reply == Granted(l, tasks'[r.task].version, 1, r.body.seconds)
       IN  Answer(r, reply) /\ Record(r, reply)

ServeRenew(r, at) ==
    /\ r.op = "renew"
    /\ Known(r) = {}
    /\ RenewLease(Me, r.body.lease, r.body.lv, r.body.seconds, at)
    /\ LET reply == Granted(r.body.lease, 0, r.body.lv + 1, r.body.seconds)
       IN  Answer(r, reply) /\ Record(r, reply)

ServeBound(r, at) ==
    /\ Known(r) = {}
    /\ \/ /\ r.op = "checkpoint"
          /\ CheckpointTask(Me, r.task, r.body.lease, r.body.tv, r.body.lv, at)
       \/ /\ r.op = "complete"
          /\ CompleteTask(Me, r.task, r.body.lease, r.body.tv, r.body.lv, "succeeded", at)
    /\ LET reply == Granted(r.body.lease, tasks'[r.task].version,
                            leases'[r.body.lease].version, 0)
       IN  Answer(r, reply) /\ Record(r, reply)

Permitted(r, at) ==
    CASE r.op = "claim" ->
            Claimable(ReleaseExpiredTasks(RunOf[Me], at), Me, r.task, at)
      [] r.op = "renew" -> Renewable(Me, r.body.lease, r.body.lv, at)
      [] OTHER -> Owns(Me, r.task, r.body.lease, r.body.tv, r.body.lv, at)

\* A refusal (409, not retryable) rolls back and stores nothing.
ServeRefusal(r, at) ==
    /\ Known(r) = {}
    /\ ~ Permitted(r, at)
    /\ Answer(r, Refused)
    /\ UNCHANGED <<vars, stored>>

Serve(r) ==
    \/ ServeReplay(r)
    \/ \E l \in Leases, at \in Readings : ServeClaim(r, l, at)
    \/ \E at \in Readings : ServeRenew(r, at) \/ ServeBound(r, at) \/ ServeRefusal(r, at)

-----------------------------------------------------------------------------
(* Answers.                                                                *)

\* A process that is cancelled or gives up leaves its request on the wire, where
\* it may still reach the store.
Orphan(p) ==
    {[r EXCEPT !.from = IF @ = p THEN None ELSE @] : r \in wire}

\* Leaving `async with binding.lock`.
Unlock(os, p) ==
    [i \in DOMAIN os |-> [os[i] EXCEPT !.holder = IF @ = p THEN None ELSE @]]

Waiting(p, ok) ==
    /\ proc[p].pc = "wait"
    /\ inbox[p] /= None
    /\ inbox[p].ok = ok

\* A new binding replaces the old one; _start_renewal cancels the old loop at
\* whatever await it is suspended and starts another.
ClaimGranted(c) ==
    LET t == proc[c].task
        b == Len(bindings) + 1
        reply == inbox[c]
    IN  /\ proc[c].op = "claim"
        /\ Waiting(c, TRUE)
        /\ bindings' = Append(Unlock(bindings, t),
                              [task |-> t, lease |-> reply.lease, tv |-> reply.tv,
                               lv |-> reply.lv, seconds |-> reply.seconds,
                               holder |-> None])
        /\ bound' = [bound EXCEPT ![t] = b]
        /\ proc' = [proc EXCEPT ![c] = Idle, ![t] = At("sleep", "renew", t, None, b)]
        /\ inbox' = [inbox EXCEPT ![c] = None, ![t] = None]
        /\ wire' = Orphan(t)
        /\ upset' = [upset EXCEPT ![t] =
                        \E i \in DOMAIN bindings : bindings[i].lease = reply.lease]
        /\ UNCHANGED <<vars, stored, used, acked>>

CheckpointGranted(c) ==
    LET b == proc[c].b
        reply == inbox[c]
    IN  /\ proc[c].op = "checkpoint"
        /\ Waiting(c, TRUE)
        /\ bindings' = [Unlock(bindings, c) EXCEPT ![b].tv = reply.tv, ![b].lv = reply.lv]
        /\ proc' = [proc EXCEPT ![c] = Idle]
        /\ inbox' = [inbox EXCEPT ![c] = None]
        /\ acked' = [acked EXCEPT ![reply.lease] = @ \cup {proc[c].key}]
        /\ UNCHANGED <<vars, bound, wire, stored, used, upset>>

\* complete_task drops whatever binding the task has now and cancels its loop.
CompleteGranted(c) ==
    LET t == proc[c].task
    IN  /\ proc[c].op = "complete"
        /\ Waiting(c, TRUE)
        /\ bindings' = Unlock(Unlock(bindings, c), t)
        /\ bound' = [bound EXCEPT ![t] = 0]
        /\ proc' = [proc EXCEPT ![c] = Idle, ![t] = Idle]
        /\ inbox' = [inbox EXCEPT ![c] = None, ![t] = None]
        /\ wire' = Orphan(t)
        /\ UNCHANGED <<vars, stored, used, acked, upset>>

\* Mutated form: the error path forgets to release the lock.
CallRefusedKeepsLock(c) ==
    /\ c \in Callers
    /\ Waiting(c, FALSE)
    /\ proc' = [proc EXCEPT ![c] = Idle]
    /\ inbox' = [inbox EXCEPT ![c] = None]
    /\ UNCHANGED <<vars, bindings, bound, wire, stored, used, acked, upset>>

\* The error is raised to the model; the binding keeps its versions.
CallRefused(c) ==
    /\ c \in Callers
    /\ Waiting(c, FALSE)
    /\ bindings' = Unlock(bindings, c)
    /\ proc' = [proc EXCEPT ![c] = Idle]
    /\ inbox' = [inbox EXCEPT ![c] = None]
    /\ UNCHANGED <<vars, bound, wire, stored, used, acked, upset>>

Fault == used.faults < MaxFaults /\ used' = [used EXCEPT !.faults = @ + 1]

\* TransportError, a 5xx or a retryable error: the request was lost, is late, or
\* was served and its answer lost.
GiveUp(p) ==
    /\ proc[p].pc = "wait"
    /\ Fault
    /\ wire' \in {Orphan(p), {r \in wire : r.from /= p}}
    /\ inbox' = [inbox EXCEPT ![p] = None]

CallFails(c) ==
    /\ c \in Callers
    /\ GiveUp(c)
    /\ bindings' = Unlock(bindings, c)
    /\ proc' = [proc EXCEPT ![c] = Idle]
    /\ upset' = [upset EXCEPT ![proc[c].task] = @ \/ proc[c].op /= "claim"]
    /\ UNCHANGED <<vars, bound, stored, acked>>

-----------------------------------------------------------------------------
(* _renew.                                                                 *)

\* One key for one renewal, however often it is sent.
RenewalDue(t) ==
    /\ proc[t].pc = "sleep"
    /\ used.renewals < MaxRenewals
    /\ used' = [used EXCEPT !.renewals = @ + 1]
    /\ proc' = [proc EXCEPT ![t].pc = "lock", ![t].key = used.renewals + 1]
    /\ UNCHANGED <<vars, bindings, bound, wire, inbox, stored, acked, upset>>

RenewalGranted(t) ==
    /\ proc[t].op = "renew"
    /\ Waiting(t, TRUE)
    /\ bindings' = [Unlock(bindings, t) EXCEPT ![proc[t].b].lv = inbox[t].lv]
    /\ proc' = [proc EXCEPT ![t].pc = "sleep", ![t].key = None]
    /\ inbox' = [inbox EXCEPT ![t] = None]
    /\ UNCHANGED <<vars, bound, wire, stored, used, acked, upset>>

\* A non-retryable 4xx ends the loop; the binding stays.
RenewalRefused(t) ==
    /\ proc[t].op = "renew"
    /\ Waiting(t, FALSE)
    /\ bindings' = Unlock(bindings, t)
    /\ proc' = [proc EXCEPT ![t] = Idle]
    /\ inbox' = [inbox EXCEPT ![t] = None]
    /\ UNCHANGED <<vars, bound, wire, stored, used, acked, upset>>

\* Mutated form: a renewal whose answer is missing is taken to have succeeded.
RenewalPresumed(t) ==
    /\ proc[t].op = "renew"
    /\ GiveUp(t)
    /\ bindings' = [Unlock(bindings, t) EXCEPT ![proc[t].b].lv = @ + 1]
    /\ proc' = [proc EXCEPT ![t].pc = "sleep", ![t].key = None]
    /\ UNCHANGED <<vars, bound, stored, acked, upset>>

\* Mutated form: every attempt draws a fresh key.
RenewalRetriesFreshKey(t) ==
    /\ proc[t].op = "renew"
    /\ GiveUp(t)
    /\ bindings' = Unlock(bindings, t)
    /\ proc' = [proc EXCEPT ![t].pc = "lock", ![t].key = @ + MaxRenewals]
    /\ UNCHANGED <<vars, bound, stored, acked, upset>>

\* The same renewal is tried again, with the versions the binding has by then.
RenewalRetries(t) ==
    /\ proc[t].op = "renew"
    /\ GiveUp(t)
    /\ bindings' = Unlock(bindings, t)
    /\ proc' = [proc EXCEPT ![t].pc = "lock"]
    /\ UNCHANGED <<vars, bound, stored, acked, upset>>

-----------------------------------------------------------------------------

\* The bridge process ends and another is started: every binding is forgotten.
Restart ==
    /\ Fault
    /\ bindings' = [i \in DOMAIN bindings |-> [bindings[i] EXCEPT !.holder = None]]
    /\ bound' = [t \in Tasks |-> 0]
    /\ proc' = [p \in Processes |-> Idle]
    /\ inbox' = [p \in Processes |-> None]
    /\ wire' = {[r EXCEPT !.from = None] : r \in wire}
    /\ UNCHANGED <<vars, stored, acked, upset>>

\* The other agents compete for tasks whose lease ran out.
OtherClaims ==
    /\ \E a \in Agents \ {Me}, t \in Tasks, l \in Leases, s \in LeaseSeconds,
          at \in Readings : ClaimTask(a, t, l, s, None, at)
    /\ UNCHANGED bridgeVars

TimePasses == Tick /\ UNCHANGED bridgeVars

Receive(p) ==
    \/ ClaimGranted(p)
    \/ CheckpointGranted(p)
    \/ CompleteGranted(p)
    \/ CallRefused(p)
    \/ p \in Tasks /\ (RenewalGranted(p) \/ RenewalRefused(p))

BridgeNext ==
    \/ \E c \in Callers, t \in Tasks, k \in Keys, s \in LeaseSeconds : CallClaim(c, t, k, s)
    \/ \E c \in Callers, t \in Tasks, op \in {"checkpoint", "complete"}, k \in Keys :
            CallBound(c, t, op, k)
    \/ \E p \in Processes : Send(p) \/ Receive(p)
    \/ \E r \in wire : Serve(r)
    \/ \E c \in Callers : CallFails(c)
    \/ \E t \in Tasks : RenewalDue(t) \/ RenewalRetries(t)
    \/ Restart
    \/ OtherClaims
    \/ TimePasses

BridgeSpec == BridgeInit /\ [][BridgeNext]_allVars

\* asyncio.Lock wakes its waiters in turn, the store serves what reaches it, and
\* the client's timeout turns every other request into an error.
BridgeFairness ==
    \A p \in Processes :
        /\ WF_allVars(Send(p))
        /\ WF_allVars(Receive(p))
        /\ WF_allVars(\E r \in wire : r.from = p /\ Serve(r))

FairBridgeSpec == BridgeSpec /\ BridgeFairness

-----------------------------------------------------------------------------
(* Properties.                                                             *)

\* A binding always holds versions a task and a lease can have, a process that
\* waits for a lock or an answer has a binding unless it claims, and the store
\* keeps one response for each key of an operation.
BridgeTypeOK ==
    /\ \A i \in DOMAIN bindings :
        /\ bindings[i].task \in Tasks
        /\ bindings[i].lease \in Leases
        /\ bindings[i].tv > 0
        /\ bindings[i].lv > 0
        /\ bindings[i].holder \in Processes \cup {None}
    /\ \A t \in Tasks : bound[t] \in 0..Len(bindings)
    /\ \A p \in Processes : proc[p] /= Idle /\ proc[p].op /= "claim" =>
            proc[p].b \in DOMAIN bindings
    /\ \A e, f \in stored : e.op = f.op /\ e.key = f.key => e = f

\* "the bridge never fabricates continued ownership": whatever is lost, late or
\* repeated, no binding is ahead of the store.
NeverAhead ==
    \A i \in DOMAIN bindings :
        /\ bindings[i].tv <= tasks[bindings[i].task].version
        /\ bindings[i].lv <= leases[bindings[i].lease].version

CheckpointsUnder(l) ==
    {x \in Tasks \X (1..MaxCalls) :
        x[2] \in DOMAIN checkpoints[x[1]] /\ checkpoints[x[1]][x[2]].lease = l}

\* A model that repeats a checkpoint it got no answer for, under the same key or
\* under a fresh one, journals it once: under a lease the store is never more
\* than one checkpoint ahead of those the bridge was told of.
OneUnconfirmed ==
    \A l \in Leases : Cardinality(CheckpointsUnder(l)) <= Cardinality(acked[l]) + 1

Held(t) ==
    LET l == bindings[bound[t]].lease
    IN  leases[l].status = "active" /\ leases[l].expires > now

\* Losing requests and answers of renewals never ends the renewal of a lease that
\* is still held: the store refuses a renewal of the bound lease only once that
\* lease is gone or has run out, unless a tool call on it lost its answer or the
\* binding came of a replayed claim.
RefusedOnlyWhenLost ==
    [][\A t \in Tasks :
          /\ bound[t] /= 0 /\ bound'[t] = bound[t]
          /\ inbox[t] = None /\ inbox'[t] = Refused
          => upset[t] \/ ~ Held(t)]_allVars

\* docs/api.md: "claim_task begins automatic lease renewal in the bridge.
\* Completion stops it."  A task that is bound and held is being renewed.
RenewalContinues ==
    \A t \in Tasks : bound[t] /= 0 /\ proc[t] = Idle => ~ Held(t)

\* Every tool call returns to the model: neither the renewal loop nor a call
\* that failed leaves the binding locked.
CallsReturn == \A c \in Callers : proc[c] /= Idle ~> proc[c] = Idle

=============================================================================
