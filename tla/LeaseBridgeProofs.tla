-------------------------- MODULE LeaseBridgeProofs --------------------------
(* The MCP bridge for every number of calls, renewals, faults and leases,  *)
(* and for any lag of the database clock: its bindings never run ahead of  *)
(* the store, and a lease has at most one checkpoint it was not told of.   *)
EXTENDS LeaseBridge, FiniteSetTheorems, SequenceTheorems, TLAPS

\* What the bridge reads of the store.
StoreOK ==
    /\ now \in Nat
    /\ tasks \in [Tasks -> TaskRow]
    /\ leases \in [Leases -> LeaseRow \cup {NoLease}]
    /\ checkpoints \in [Tasks -> Seq(CheckpointRow)]

Operations == {"claim", "checkpoint", "complete", "renew"}

AnyKey == Keys \cup Nat \cup {None}

BindingRow == [task : Tasks, lease : Leases, tv : Nat, lv : Nat, seconds : Nat,
               holder : Processes \cup {None}]

ProcessRow == [pc : {"idle", "lock", "wait", "sleep"}, op : Operations \cup {None},
               task : Tasks \cup {None}, key : AnyKey, b : Nat]

Bodies == [seconds : Nat]
          \cup [lease : Leases, lv : Nat, seconds : Nat]
          \cup [lease : Leases, tv : Nat, lv : Nat]

RequestRow == [op : Operations, task : Tasks, key : AnyKey, from : Processes \cup {None},
               body : Bodies]

ReplyRow == [ok : {TRUE}, lease : Leases, tv : Nat, lv : Nat, seconds : Nat]

StoredRow == [op : Operations, key : AnyKey, body : Tasks \X Bodies, reply : ReplyRow]

RowsOK ==
    /\ bindings \in Seq(BindingRow)
    /\ bound \in [Tasks -> Nat]
    /\ proc \in [Processes -> ProcessRow]
    /\ wire \subseteq RequestRow
    /\ inbox \in [Processes -> ReplyRow \cup {Refused, None}]
    /\ stored \subseteq StoredRow
    /\ used \in [calls : Nat, renewals : Nat, faults : Nat]
    /\ acked \in [Leases -> SUBSET AnyKey]

\* The store keeps one response for each key of an operation; a response to a holder's
\* request is about the lease it names, and no response is ahead of the store.
Remembered ==
    /\ \A e, f \in stored : e.op = f.op /\ e.key = f.key => e = f
    /\ \A e \in stored :
          /\ e.op /= "claim" => e.reply.lease = e.body[2].lease
          /\ e.reply.tv <= tasks[e.body[1]].version
          /\ 0 < e.reply.lv /\ e.reply.lv <= leases[e.reply.lease].version

\* A process that works on a binding, or will, has one, of the task it works on.
Works(p) == proc[p].pc \in {"lock", "sleep"} \/ (proc[p].pc = "wait" /\ proc[p].op /= "claim")

ProcessOK(p) ==
    /\ Works(p) => /\ proc[p].b \in DOMAIN bindings
                   /\ bindings[proc[p].b].task = proc[p].task
                   /\ proc[p].op \in Operations \ {"claim"}
    /\ proc[p].pc = "wait" => proc[p].task \in Tasks /\ proc[p].op \in Operations

\* The binding of a task is about that task.
BoundOK ==
    \A t \in Tasks : bound[t] /= 0 =>
        bound[t] \in DOMAIN bindings /\ bindings[bound[t]].task = t

\* A request on the wire says what its sender waits for, which has no answer yet; one
\* nobody waits for may still be served.
RequestOK(r) ==
    /\ r.op /= "claim" => /\ r.body.lease \in Leases /\ r.body.lv \in Nat
                          /\ r.body.lv <= leases[r.body.lease].version
    /\ r.op \in {"claim", "renew"} => r.body.seconds \in Nat
    /\ r.from /= None =>
          /\ inbox[r.from] = None /\ proc[r.from].pc = "wait"
          /\ proc[r.from].op = r.op /\ proc[r.from].task = r.task /\ proc[r.from].key = r.key
          /\ r.op /= "claim" => r.body.lease = bindings[proc[r.from].b].lease

\* A process reads only the answer it waits for, about the lease of its binding.
AnswerOK(p) ==
    inbox[p] /= None =>
        /\ proc[p].pc = "wait"
        /\ inbox[p].ok =>
              /\ inbox[p].tv <= tasks[proc[p].task].version
              /\ inbox[p].lv <= leases[inbox[p].lease].version
              /\ proc[p].op /= "claim" => inbox[p].lease = bindings[proc[p].b].lease

Exchanges ==
    /\ BoundOK
    /\ \A p \in Processes : ProcessOK(p) /\ AnswerOK(p)
    /\ \A r \in wire : RequestOK(r)
    /\ \A r, q \in wire : r.from = q.from /\ r.from /= None => r = q

\* A checkpoint the bridge was not told of is the last the store did under its lease at the
\* bridge's request: nothing the bridge knows or sent is as new, but the answer itself.
Unconfirmed(e, l) ==
    e \in stored /\ e.op = "checkpoint" /\ e.reply.lease = l /\ e.key \notin acked[l]

LastUnconfirmed ==
    \A e \in stored, l \in Leases : Unconfirmed(e, l) =>
        /\ \A i \in DOMAIN bindings : bindings[i].lease = l => bindings[i].lv < e.reply.lv
        /\ \A r \in wire : r.op /= "claim" /\ r.body.lease = l => r.body.lv < e.reply.lv
        /\ \A f \in stored : f.reply.lease = l /\ f /= e => f.reply.lv < e.reply.lv
        /\ \A p \in Processes :
              inbox[p] /= None /\ inbox[p].ok /\ inbox[p].lease = l =>
                  \/ inbox[p].lv < e.reply.lv
                  \/ proc[p].op = "checkpoint" /\ proc[p].key = e.key

\* The keys of the checkpoints done under a lease, each journalled once.
CheckpointKeys(l) == {e.key : e \in {f \in stored : f.op = "checkpoint" /\ f.reply.lease = l}}

Journalled ==
    \A l \in Leases :
        /\ IsFiniteSet(CheckpointsUnder(l)) /\ IsFiniteSet(CheckpointKeys(l)) /\ IsFiniteSet(acked[l])
        /\ Cardinality(CheckpointsUnder(l)) <= Cardinality(CheckpointKeys(l))

BridgeInv ==
    /\ StoreOK /\ RowsOK /\ Remembered /\ Exchanges /\ NeverAhead
    /\ LastUnconfirmed /\ Journalled

-----------------------------------------------------------------------------
(* The store.                                                              *)

\* Commands keep the rows in shape and never take a version back.
Grown ==
    /\ StoreOK'
    /\ \A t \in Tasks : tasks[t].version <= tasks'[t].version
    /\ \A l \in Leases : leases[l].version <= leases'[l].version

LEMMA FreeLease ==
    ASSUME StoreOK, NEW l \in Leases
    PROVE  /\ leases[l].status = "free" => leases[l].version = 0
           /\ leases[l].status /= "free" => leases[l] \in LeaseRow
           /\ leases[l].version \in Nat
  BY DEF StoreOK, NoLease, LeaseRow, LeaseStates

LEMMA SweepGrows ==
    ASSUME StoreOK, NEW run, NEW at \in Nat
    PROVE  /\ ReleaseExpiredTasks(run, at) \in [Tasks -> TaskRow]
           /\ ExpireLeases(run, at) \in [Leases -> LeaseRow \cup {NoLease}]
           /\ \A t \in Tasks : tasks[t].version <= ReleaseExpiredTasks(run, at)[t].version
           /\ \A l \in Leases : leases[l].version <= ExpireLeases(run, at)[l].version
           /\ \A l \in Leases : ExpireLeases(run, at)[l].status = "free" => leases[l].status = "free"
<1>1. ASSUME NEW t \in Tasks
      PROVE  /\ ReleaseExpiredTasks(run, at)[t] \in TaskRow
             /\ tasks[t].version <= ReleaseExpiredTasks(run, at)[t].version
  <2>1. tasks[t] \in TaskRow
    BY DEF StoreOK
  <2>2. /\ NextTask(tasks[t], "ready", None, None) \in TaskRow
        /\ NextTask(tasks[t], "ready", None, None).version = tasks[t].version + 1
    BY <2>1 DEF NextTask, TaskRow, TaskStates
  <2> QED BY <2>1, <2>2 DEF ReleaseExpiredTasks, TaskRow
<1>2. ASSUME NEW l \in Leases
      PROVE  /\ ExpireLeases(run, at)[l] \in LeaseRow \cup {NoLease}
             /\ leases[l].version <= ExpireLeases(run, at)[l].version
             /\ ExpireLeases(run, at)[l].status = "free" => leases[l].status = "free"
  <2>1. leases[l].version \in Nat /\ leases[l] \in LeaseRow \cup {NoLease}
    BY FreeLease DEF StoreOK
  <2>2. CASE l \in Elapsed(run, at)
    <3>1. leases[l] \in LeaseRow
      BY <2>2, FreeLease DEF Elapsed
    <3>2. ExpireLeases(run, at)[l] = NextLease(leases[l], "expired", leases[l].expires)
      BY <2>2 DEF ExpireLeases
    <3> QED BY <2>1, <3>1, <3>2 DEF NextLease, LeaseRow, LeaseStates
  <2>3. CASE l \notin Elapsed(run, at)
    BY <2>1, <2>3 DEF ExpireLeases
  <2> QED BY <2>2, <2>3
<1> QED BY <1>1, <1>2 DEF ReleaseExpiredTasks, ExpireLeases

LEMMA ClaimGrows ==
    ASSUME StoreOK, NEW a \in Agents, NEW t \in Tasks, NEW l \in Leases,
           NEW s \in Nat, NEW v, NEW at \in Readings, ClaimTask(a, t, l, s, v, at)
    PROVE  /\ Grown
           /\ leases[l].version = 0 /\ leases'[l].version = 1
           /\ checkpoints' = checkpoints
<1> DEFINE ts == ReleaseExpiredTasks(RunOf[a], at)
           ls == ExpireLeases(RunOf[a], at)
           row == [status |-> "active", task |-> t, owner |-> a, expires |-> at + s, version |-> 1]
<1>1. at \in Nat /\ s \in Nat
  BY BoundAssumption DEF Readings, StoreOK
<1>2. /\ ts \in [Tasks -> TaskRow] /\ ls \in [Leases -> LeaseRow \cup {NoLease}]
      /\ \A u \in Tasks : tasks[u].version <= ts[u].version
      /\ \A k \in Leases : leases[k].version <= ls[k].version
      /\ \A k \in Leases : ls[k].status = "free" => leases[k].status = "free"
  BY <1>1, SweepGrows
<1>3. /\ ls[l].status = "free"
      /\ tasks' = [ts EXCEPT ![t] = NextTask(ts[t], "claimed", a, l)]
      /\ leases' = [ls EXCEPT ![l] = row]
      /\ now' = now /\ checkpoints' = checkpoints
  BY DEF ClaimTask
<1>4. leases[l].version = 0
  BY <1>2, <1>3, FreeLease
<1>5. \A u \in Tasks : tasks[u].version \in Nat
  BY DEF StoreOK, TaskRow
<1> HIDE DEF ts, ls
<1>6. row \in LeaseRow /\ row.version = 1
  BY <1>1 DEF LeaseRow, LeaseStates
<1>7. /\ NextTask(ts[t], "claimed", a, l) \in TaskRow
      /\ NextTask(ts[t], "claimed", a, l).version = ts[t].version + 1 /\ ts[t].version \in Nat
  BY <1>2 DEF NextTask, TaskRow, TaskStates
<1> HIDE DEF row
<1>8. StoreOK'
  BY <1>2, <1>3, <1>6, <1>7 DEF StoreOK
<1>9. \A u \in Tasks : tasks[u].version <= tasks'[u].version
  BY <1>2, <1>3, <1>5, <1>7
<1>10. leases'[l].version = 1 /\ \A k \in Leases : leases[k].version <= leases'[k].version
  BY <1>2, <1>3, <1>4, <1>6
<1> QED BY <1>3, <1>4, <1>8, <1>9, <1>10 DEF Grown

\* One lease and its task move on by one version each, or the lease alone.
LEMMA WorkGrows ==
    ASSUME StoreOK, NEW a \in Agents, NEW t \in Tasks, NEW l \in Leases, NEW tv, NEW lv,
           NEW at \in Readings
    PROVE  /\ \A s \in Nat : RenewLease(a, l, lv, s, at) =>
                 /\ Grown /\ leases[l].version = lv /\ leases'[l].version = lv + 1
                 /\ checkpoints' = checkpoints
           /\ CheckpointTask(a, t, l, tv, lv, at) =>
                 /\ Grown /\ leases[l].version = lv /\ leases'[l].version = lv + 1
                 /\ checkpoints' = [checkpoints EXCEPT ![t] = Append(@, [lease |-> l, agent |-> a])]
           /\ \A o \in Outcomes : CompleteTask(a, t, l, tv, lv, o, at) =>
                 /\ Grown /\ leases[l].version = lv /\ leases'[l].version = lv + 1
                 /\ checkpoints' = checkpoints
<1>0. /\ at \in Nat /\ tasks \in [Tasks -> TaskRow] /\ checkpoints \in [Tasks -> Seq(CheckpointRow)]
      /\ leases \in [Leases -> LeaseRow \cup {NoLease}] /\ now \in Nat
      /\ \A u \in Tasks : tasks[u].version \in Nat
      /\ \A k \in Leases : leases[k].version \in Nat
  BY FreeLease DEF Readings, StoreOK, TaskRow
<1>1. ASSUME leases[l].status = "active", leases[l].version = lv,
             NEW st \in LeaseStates, NEW ex \in Nat,
             leases' = [leases EXCEPT ![l] = NextLease(leases[l], st, ex)]
      PROVE  /\ leases' \in [Leases -> LeaseRow \cup {NoLease}]
             /\ \A k \in Leases : leases[k].version <= leases'[k].version
             /\ leases[l].version = lv /\ leases'[l].version = lv + 1
  <2>1. leases[l] \in LeaseRow
    BY <1>1, FreeLease
  <2>2. /\ NextLease(leases[l], st, ex) \in LeaseRow
        /\ NextLease(leases[l], st, ex).version = lv + 1
    BY <1>1, <2>1 DEF NextLease, LeaseRow
  <2> QED BY <1>0, <1>1, <2>2
<1>2. ASSUME NEW st \in TaskStates, NEW owner \in Agents \cup {None}, NEW lease \in Leases \cup {None},
             tasks' = [tasks EXCEPT ![t] = NextTask(tasks[t], st, owner, lease)]
      PROVE  /\ tasks' \in [Tasks -> TaskRow]
             /\ \A u \in Tasks : tasks[u].version <= tasks'[u].version
  <2>1. /\ NextTask(tasks[t], st, owner, lease) \in TaskRow
        /\ NextTask(tasks[t], st, owner, lease).version = tasks[t].version + 1
    BY <1>0 DEF NextTask, TaskRow
  <2> QED BY <1>0, <1>2, <2>1
<1>3. ASSUME leases[l].status = "active" PROVE leases[l].expires \in Nat
  BY <1>3, FreeLease DEF LeaseRow
<1>4. ASSUME NEW s \in Nat, RenewLease(a, l, lv, s, at)
      PROVE  /\ Grown /\ leases[l].version = lv /\ leases'[l].version = lv + 1
             /\ checkpoints' = checkpoints
  <2>1. /\ leases[l].status = "active" /\ leases[l].version = lv
        /\ leases' = [leases EXCEPT ![l] =
                        NextLease(leases[l], "active", GreaterOf(leases[l].expires, at + s))]
        /\ UNCHANGED <<now, tasks, checkpoints>>
    BY <1>4 DEF RenewLease, Renewable
  <2>2. GreaterOf(leases[l].expires, at + s) \in Nat
    BY <1>0, <1>3, <2>1, BoundAssumption DEF GreaterOf
  <2>3. /\ leases' \in [Leases -> LeaseRow \cup {NoLease}]
        /\ \A k \in Leases : leases[k].version <= leases'[k].version
        /\ leases[l].version = lv /\ leases'[l].version = lv + 1
    <3>1. "active" \in LeaseStates
      BY DEF LeaseStates
    <3> QED BY <1>1, <2>1, <2>2, <3>1
  <2> QED BY <1>0, <2>1, <2>3 DEF Grown, StoreOK
<1>5. ASSUME CheckpointTask(a, t, l, tv, lv, at)
      PROVE  /\ Grown /\ leases[l].version = lv /\ leases'[l].version = lv + 1
             /\ checkpoints' = [checkpoints EXCEPT ![t] = Append(@, [lease |-> l, agent |-> a])]
  <2>1. /\ leases[l].status = "active" /\ leases[l].version = lv
        /\ leases' = [leases EXCEPT ![l] = NextLease(leases[l], "active", leases[l].expires)]
        /\ tasks' = [tasks EXCEPT ![t] = NextTask(tasks[t], "claimed", a, l)]
        /\ checkpoints' = [checkpoints EXCEPT ![t] = Append(checkpoints[t], [lease |-> l, agent |-> a])]
        /\ now' = now
    BY <1>5 DEF CheckpointTask, Owns
  <2>2. /\ leases' \in [Leases -> LeaseRow \cup {NoLease}]
        /\ \A k \in Leases : leases[k].version <= leases'[k].version
        /\ leases[l].version = lv /\ leases'[l].version = lv + 1
    <3>1. "active" \in LeaseStates
      BY DEF LeaseStates
    <3> QED BY <1>1, <1>3, <2>1, <3>1
  <2>3. /\ tasks' \in [Tasks -> TaskRow]
        /\ \A u \in Tasks : tasks[u].version <= tasks'[u].version
    <3>1. "claimed" \in TaskStates
      BY DEF TaskStates
    <3> QED BY <1>2, <2>1, <3>1
  <2>4. checkpoints' \in [Tasks -> Seq(CheckpointRow)]
    <3>1. [lease |-> l, agent |-> a] \in CheckpointRow
      BY DEF CheckpointRow
    <3> QED BY <1>0, <2>1, <3>1
  <2> QED BY <1>0, <2>1, <2>2, <2>3, <2>4 DEF Grown, StoreOK
<1>6. ASSUME NEW o \in Outcomes, CompleteTask(a, t, l, tv, lv, o, at)
      PROVE  /\ Grown /\ leases[l].version = lv /\ leases'[l].version = lv + 1
             /\ checkpoints' = checkpoints
  <2>1. /\ leases[l].status = "active" /\ leases[l].version = lv
        /\ leases' = [leases EXCEPT ![l] = NextLease(leases[l], "completed", leases[l].expires)]
        /\ tasks' = [tasks EXCEPT ![t] = NextTask(tasks[t], FinalState(o), None, None)]
        /\ UNCHANGED <<now, checkpoints>>
    BY <1>6 DEF CompleteTask, Owns, EndLease
  <2>2. /\ leases' \in [Leases -> LeaseRow \cup {NoLease}]
        /\ \A k \in Leases : leases[k].version <= leases'[k].version
        /\ leases[l].version = lv /\ leases'[l].version = lv + 1
    <3>1. "completed" \in LeaseStates
      BY DEF LeaseStates
    <3> QED BY <1>1, <1>3, <2>1, <3>1
  <2>3. /\ tasks' \in [Tasks -> TaskRow]
        /\ \A u \in Tasks : tasks[u].version <= tasks'[u].version
    <3>1. FinalState(o) \in TaskStates
      BY DEF TaskStates, FinalState
    <3> QED BY <1>2, <2>1, <3>1
  <2> QED BY <1>0, <2>1, <2>2, <2>3 DEF Grown, StoreOK
<1> QED BY <1>4, <1>5, <1>6

-----------------------------------------------------------------------------
(* Steps of the bridge.  A step of the processes ps ends what they waited  *)
(* for: they have no answer and no request left, unless one nobody waits   *)
(* for any more.                                                           *)

\* A binding keeps its versions, or takes those of an answer that was read.
SameVersions(i) ==
    /\ i \in DOMAIN bindings
    /\ bindings'[i].task = bindings[i].task /\ bindings'[i].lease = bindings[i].lease
    /\ bindings'[i].tv = bindings[i].tv /\ bindings'[i].lv = bindings[i].lv

Learned(i) ==
    \E p \in Processes :
        /\ inbox[p] /= None /\ inbox[p].ok
        /\ bindings'[i].lease = inbox[p].lease /\ bindings'[i].lv = inbox[p].lv
        /\ \/ bindings'[i].task = proc[p].task /\ bindings'[i].tv = inbox[p].tv
           \/ /\ i \in DOMAIN bindings
              /\ bindings'[i].task = bindings[i].task /\ bindings'[i].tv = bindings[i].tv
        /\ proc[p].op = "checkpoint" => proc[p].key \in acked'[inbox[p].lease]

BindingsStep ==
    /\ bindings' \in Seq(BindingRow)
    /\ \A i \in DOMAIN bindings : /\ i \in DOMAIN bindings'
                                  /\ bindings'[i].task = bindings[i].task
                                  /\ bindings'[i].lease = bindings[i].lease
    /\ \A i \in DOMAIN bindings' : SameVersions(i) \/ Learned(i)

ProcessStep(ps) ==
    /\ proc' \in [Processes -> ProcessRow]
    /\ inbox' \in [Processes -> ReplyRow \cup {Refused, None}]
    /\ \A p \in Processes \ ps : proc'[p] = proc[p] /\ inbox'[p] = inbox[p]
    /\ \A p \in Processes \cap ps : inbox'[p] = None /\ ProcessOK(p)'

\* A request reads its versions from the binding its sender works on.
Sent(r) ==
    /\ r.from \in Processes
    /\ inbox'[r.from] = None /\ proc'[r.from].pc = "wait"
    /\ proc'[r.from].op = r.op /\ proc'[r.from].task = r.task /\ proc'[r.from].key = r.key
    /\ r.op \in {"claim", "renew"} => r.body.seconds \in Nat
    /\ r.op /= "claim" => LET b == proc'[r.from].b
                          IN  /\ b \in DOMAIN bindings
                              /\ r.body.lease = bindings[b].lease /\ r.body.lv = bindings[b].lv

WireStep(ps) ==
    /\ \A r \in wire' :
          \/ r \in wire /\ r.from \notin ps
          \/ /\ r \in RequestRow /\ r.from = None
             /\ \E q \in wire : r.op = q.op /\ r.body = q.body
          \/ r \in RequestRow /\ r.from \in ps /\ Sent(r)
    /\ \A r, q \in wire' : r.from = q.from /\ r.from \in ps /\ r.from /= None => r = q

CountersStep ==
    /\ bound' \in [Tasks -> Nat] /\ BoundOK'
    /\ used' \in [calls : Nat, renewals : Nat, faults : Nat]
    /\ acked' \in [Leases -> SUBSET AnyKey]
    /\ \A l \in Leases : acked[l] \subseteq acked'[l] /\ IsFiniteSet(acked'[l])

BridgeStep(ps) ==
    /\ Grown /\ checkpoints' = checkpoints /\ stored' = stored
    /\ BindingsStep /\ ProcessStep(ps) /\ WireStep(ps) /\ CountersStep

LEMMA NobodyWaits == None \notin Processes
  BY BridgeAssumption, NoneAssumption DEF Processes

LEMMA VersionsAreNumbers ==
    ASSUME StoreOK
    PROVE  /\ \A t \in Tasks : tasks[t].version \in Nat
           /\ \A l \in Leases : leases[l].version \in Nat
  BY FreeLease DEF StoreOK, TaskRow

\* Versions only grow, so that what was not ahead stays so.
LEMMA Behind ==
    ASSUME StoreOK, Grown
    PROVE  /\ \A t \in Tasks, v \in Nat : v <= tasks[t].version => v <= tasks'[t].version
           /\ \A l \in Leases, v \in Nat : v <= leases[l].version => v <= leases'[l].version
<1>1. /\ \A t \in Tasks : tasks[t].version \in Nat /\ tasks'[t].version \in Nat
      /\ \A l \in Leases : leases[l].version \in Nat /\ leases'[l].version \in Nat
  <2>1. \A t \in Tasks : tasks'[t].version \in Nat
    BY DEF Grown, StoreOK, TaskRow
  <2>2. \A l \in Leases : leases'[l].version \in Nat
    BY DEF Grown, StoreOK, NoLease, LeaseRow
  <2> QED BY <2>1, <2>2, VersionsAreNumbers
<1> QED BY <1>1 DEF Grown

LEMMA StoredStays ==
    ASSUME StoreOK, RowsOK, Remembered, Grown
    PROVE  \A e \in stored :
              /\ e.reply.tv <= tasks'[e.body[1]].version
              /\ 0 < e.reply.lv /\ e.reply.lv <= leases'[e.reply.lease].version
<1> SUFFICES ASSUME NEW e \in stored
             PROVE  /\ e.reply.tv <= tasks'[e.body[1]].version
                    /\ 0 < e.reply.lv /\ e.reply.lv <= leases'[e.reply.lease].version
  OBVIOUS
<1>1. e \in StoredRow
  BY DEF RowsOK
<1>2. /\ e.body[1] \in Tasks /\ e.reply.lease \in Leases /\ e.reply.tv \in Nat /\ e.reply.lv \in Nat
  BY <1>1 DEF StoredRow, ReplyRow
<1>3. /\ e.reply.tv <= tasks[e.body[1]].version
      /\ 0 < e.reply.lv /\ e.reply.lv <= leases[e.reply.lease].version
  BY DEF Remembered
<1> QED BY <1>2, <1>3, Behind

LEMMA AnswerRow ==
    ASSUME RowsOK, NEW p \in Processes, inbox[p] /= None, inbox[p].ok
    PROVE  inbox[p] \in ReplyRow /\ inbox[p].lease \in Leases /\ inbox[p].tv \in Nat /\ inbox[p].lv \in Nat
<1>1. inbox[p] \in ReplyRow \cup {Refused, None}
  BY DEF RowsOK
<1>2. inbox[p] /= Refused
  BY DEF Refused
<1> QED BY <1>1, <1>2 DEF ReplyRow

LEMMA ExchangesStep ==
    ASSUME StoreOK, RowsOK, Exchanges, NeverAhead, NEW ps, BridgeStep(ps)
    PROVE  Exchanges'
<1>1. ASSUME NEW p \in Processes, p \notin ps PROVE ProcessOK(p)'
  <2>1. ProcessOK(p) /\ proc'[p] = proc[p]
    BY <1>1 DEF Exchanges, BridgeStep, ProcessStep
  <2>2. \A i \in DOMAIN bindings : i \in DOMAIN bindings' /\ bindings'[i].task = bindings[i].task
    BY DEF BridgeStep, BindingsStep
  <2> QED BY <2>1, <2>2 DEF ProcessOK, Works
<1>2. ASSUME NEW p \in Processes, p \notin ps, inbox[p] /= None
      PROVE  AnswerOK(p)'
  <2>1. /\ AnswerOK(p) /\ ProcessOK(p) /\ proc'[p] = proc[p] /\ inbox'[p] = inbox[p]
    BY <1>2 DEF Exchanges, BridgeStep, ProcessStep
  <2>2. proc[p].pc = "wait" /\ proc[p].task \in Tasks
    BY <1>2, <2>1 DEF AnswerOK, ProcessOK
  <2>3. ASSUME inbox[p].ok
        PROVE  /\ inbox[p].tv <= tasks'[proc[p].task].version
               /\ inbox[p].lv <= leases'[inbox[p].lease].version
               /\ proc[p].op /= "claim" => inbox[p].lease = bindings'[proc[p].b].lease
    <3>1. inbox[p].lease \in Leases /\ inbox[p].tv \in Nat /\ inbox[p].lv \in Nat
      BY <1>2, <2>3, AnswerRow
    <3>2. /\ inbox[p].tv <= tasks[proc[p].task].version
          /\ inbox[p].lv <= leases[inbox[p].lease].version
          /\ proc[p].op /= "claim" => inbox[p].lease = bindings[proc[p].b].lease
      BY <1>2, <2>1, <2>3 DEF AnswerOK
    <3>3. proc[p].op /= "claim" => bindings'[proc[p].b].lease = bindings[proc[p].b].lease
      BY <2>1, <2>2 DEF ProcessOK, Works, BridgeStep, BindingsStep
    <3>4. Grown
      BY DEF BridgeStep
    <3> QED BY <2>2, <3>1, <3>2, <3>3, <3>4, Behind
  <2> QED BY <2>1, <2>2, <2>3 DEF AnswerOK
<1>3. ASSUME NEW p \in Processes PROVE ProcessOK(p)' /\ AnswerOK(p)'
  <2>1. CASE p \in ps
    <3>1. inbox'[p] = None /\ ProcessOK(p)'
      BY <2>1 DEF BridgeStep, ProcessStep
    <3> QED BY <3>1 DEF AnswerOK
  <2>2. CASE p \notin ps /\ inbox[p] = None
    <3>1. inbox'[p] = None
      BY <2>2 DEF BridgeStep, ProcessStep
    <3> QED BY <1>1, <2>2, <3>1 DEF AnswerOK
  <2> QED BY <1>1, <1>2, <2>1, <2>2
<1>4. ASSUME NEW r \in wire, r.op /= "claim"
      PROVE  /\ r.body.lease \in Leases /\ r.body.lv \in Nat
             /\ r.body.lv <= leases'[r.body.lease].version
  BY <1>4, Behind DEF Exchanges, RequestOK, BridgeStep
<1>5. ASSUME NEW r \in wire' PROVE RequestOK(r)'
  <2>1. CASE r \in wire /\ r.from \notin ps
    <3>1. RequestOK(r) /\ r \in RequestRow
      BY <2>1 DEF Exchanges, RowsOK
    <3>2. CASE r.from = None
      BY <1>4, <2>1, <3>1, <3>2 DEF RequestOK
    <3>3. CASE r.from /= None
      <4>1. r.from \in Processes \ ps
        BY <2>1, <3>1, <3>3 DEF RequestRow
      <4>2. ProcessOK(r.from) /\ proc'[r.from] = proc[r.from] /\ inbox'[r.from] = inbox[r.from]
        BY <4>1 DEF Exchanges, BridgeStep, ProcessStep
      <4>3. r.op /= "claim" => bindings'[proc[r.from].b].lease = bindings[proc[r.from].b].lease
        BY <3>1, <3>3, <4>2 DEF RequestOK, ProcessOK, Works, BridgeStep, BindingsStep
      <4> QED BY <1>4, <2>1, <3>1, <3>3, <4>2, <4>3 DEF RequestOK
    <3> QED BY <3>2, <3>3
  <2>2. CASE r.from = None /\ \E q \in wire : r.op = q.op /\ r.body = q.body
    BY <1>4, <2>2 DEF RequestOK, Exchanges
  <2>3. CASE Sent(r)
    <3>1. r.op /= "claim" =>
             LET b == proc'[r.from].b
             IN  /\ b \in DOMAIN bindings /\ r.body.lease \in Leases /\ r.body.lv \in Nat
                 /\ r.body.lease = bindings'[b].lease
                 /\ r.body.lv <= leases[r.body.lease].version
      <4>1. \A i \in DOMAIN bindings : bindings[i].lease \in Leases /\ bindings[i].lv \in Nat
        <5>1. \A i \in DOMAIN bindings : bindings[i] \in BindingRow
          BY DEF RowsOK
        <5> QED BY <5>1 DEF BindingRow
      <4>2. \A i \in DOMAIN bindings : bindings'[i].lease = bindings[i].lease
        BY DEF BridgeStep, BindingsStep
      <4> QED BY <2>3, <4>1, <4>2 DEF Sent, NeverAhead
    <3>2. r.op /= "claim" => r.body.lv <= leases'[r.body.lease].version
      BY <3>1, Behind DEF BridgeStep
    <3> QED BY <2>3, <3>1, <3>2 DEF Sent, RequestOK
  <2> QED BY <2>1, <2>2, <2>3 DEF BridgeStep, WireStep
<1>6. ASSUME NEW r \in wire', NEW q \in wire', r.from = q.from, r.from /= None PROVE r = q
  <2>1. CASE r.from \in ps
    BY <1>6, <2>1 DEF BridgeStep, WireStep
  <2>2. CASE r.from \notin ps
    BY <1>6, <2>2 DEF BridgeStep, WireStep, Exchanges
  <2> QED BY <2>1, <2>2
<1>7. BoundOK'
  BY DEF BridgeStep, CountersStep
<1> QED BY <1>3, <1>5, <1>6, <1>7 DEF Exchanges

LEMMA NeverAheadStep ==
    ASSUME StoreOK, RowsOK, Exchanges, NeverAhead, NEW ps, BridgeStep(ps)
    PROVE  NeverAhead'
<1> SUFFICES ASSUME NEW i \in DOMAIN bindings'
             PROVE  /\ bindings'[i].tv <= tasks'[bindings'[i].task].version
                    /\ bindings'[i].lv <= leases'[bindings'[i].lease].version
  BY DEF NeverAhead
<1>1. /\ StoreOK /\ Grown /\ bindings' \in Seq(BindingRow)
      /\ bindings'[i] \in BindingRow /\ bindings \in Seq(BindingRow)
      /\ \A j \in DOMAIN bindings : bindings[j] \in BindingRow
  BY DEF BridgeStep, BindingsStep, RowsOK
<1>2. /\ bindings'[i].task \in Tasks /\ bindings'[i].lease \in Leases
      /\ bindings'[i].tv \in Nat /\ bindings'[i].lv \in Nat
  BY <1>1 DEF BindingRow
<1>3. CASE SameVersions(i)
  <2>1. /\ bindings'[i].tv <= tasks[bindings'[i].task].version
        /\ bindings'[i].lv <= leases[bindings'[i].lease].version
    BY <1>3 DEF SameVersions, NeverAhead
  <2> QED BY <1>1, <1>2, <2>1, Behind
<1>4. CASE Learned(i)
  <2>1. PICK p \in Processes :
        /\ inbox[p] /= None /\ inbox[p].ok
        /\ bindings'[i].lease = inbox[p].lease /\ bindings'[i].lv = inbox[p].lv
        /\ \/ bindings'[i].task = proc[p].task /\ bindings'[i].tv = inbox[p].tv
           \/ /\ i \in DOMAIN bindings
              /\ bindings'[i].task = bindings[i].task /\ bindings'[i].tv = bindings[i].tv
    BY <1>4 DEF Learned
  <2>2. /\ inbox[p].tv <= tasks[proc[p].task].version
        /\ inbox[p].lv <= leases[inbox[p].lease].version
    BY <2>1 DEF Exchanges, AnswerOK
  <2>3. /\ bindings'[i].tv <= tasks[bindings'[i].task].version
        /\ bindings'[i].lv <= leases[bindings'[i].lease].version
    BY <2>1, <2>2 DEF NeverAhead
  <2> QED BY <1>1, <1>2, <2>3, Behind
<1> QED BY <1>3, <1>4 DEF BridgeStep, BindingsStep

LEMMA LastUnconfirmedStep ==
    ASSUME RowsOK, LastUnconfirmed, NEW ps, BridgeStep(ps)
    PROVE  LastUnconfirmed'
<1> SUFFICES ASSUME NEW e \in stored, NEW l \in Leases, Unconfirmed(e, l)'
             PROVE  /\ \A i \in DOMAIN bindings' : bindings'[i].lease = l => bindings'[i].lv < e.reply.lv
                    /\ \A r \in wire' : r.op /= "claim" /\ r.body.lease = l => r.body.lv < e.reply.lv
                    /\ \A f \in stored : f.reply.lease = l /\ f /= e => f.reply.lv < e.reply.lv
                    /\ \A p \in Processes :
                          inbox'[p] /= None /\ inbox'[p].ok /\ inbox'[p].lease = l =>
                              \/ inbox'[p].lv < e.reply.lv
                              \/ proc'[p].op = "checkpoint" /\ proc'[p].key = e.key
  BY DEF LastUnconfirmed, BridgeStep
<1>1. e.op = "checkpoint" /\ e.reply.lease = l /\ e.key \notin acked'[l] /\ Unconfirmed(e, l)
  BY DEF Unconfirmed, BridgeStep, CountersStep
<1>2. /\ \A i \in DOMAIN bindings : bindings[i].lease = l => bindings[i].lv < e.reply.lv
      /\ \A r \in wire : r.op /= "claim" /\ r.body.lease = l => r.body.lv < e.reply.lv
      /\ \A f \in stored : f.reply.lease = l /\ f /= e => f.reply.lv < e.reply.lv
      /\ \A p \in Processes :
            inbox[p] /= None /\ inbox[p].ok /\ inbox[p].lease = l =>
                \/ inbox[p].lv < e.reply.lv
                \/ proc[p].op = "checkpoint" /\ proc[p].key = e.key
  BY <1>1 DEF LastUnconfirmed
<1>3. ASSUME NEW i \in DOMAIN bindings', bindings'[i].lease = l
      PROVE  bindings'[i].lv < e.reply.lv
  <2>1. CASE SameVersions(i)
    BY <1>2, <1>3, <2>1 DEF SameVersions
  <2>2. CASE Learned(i)
    BY <1>1, <1>2, <1>3, <2>2 DEF Learned
  <2> QED BY <2>1, <2>2 DEF BridgeStep, BindingsStep
<1>4. \A r \in wire' : r.op /= "claim" /\ r.body.lease = l => r.body.lv < e.reply.lv
  BY <1>2 DEF BridgeStep, WireStep, Sent
<1>5. ASSUME NEW p \in Processes, inbox'[p] /= None, inbox'[p].ok, inbox'[p].lease = l
      PROVE  \/ inbox'[p].lv < e.reply.lv
             \/ proc'[p].op = "checkpoint" /\ proc'[p].key = e.key
  BY <1>2, <1>5 DEF BridgeStep, ProcessStep
<1> QED BY <1>2, <1>3, <1>4, <1>5

LEMMA StepKeeps ==
    ASSUME BridgeInv, NEW ps, BridgeStep(ps)
    PROVE  BridgeInv'
<1>1. /\ StoreOK /\ RowsOK /\ Remembered /\ Exchanges /\ NeverAhead
      /\ LastUnconfirmed /\ Journalled
  BY DEF BridgeInv
<1>2. StoreOK'
  BY DEF BridgeStep, Grown
<1>3. RowsOK'
  <2>1. wire' \subseteq RequestRow
    BY <1>1 DEF RowsOK, BridgeStep, WireStep
  <2> QED BY <1>1, <2>1 DEF RowsOK, BridgeStep, BindingsStep, ProcessStep, CountersStep
<1>4. Remembered'
  BY <1>1, StoredStays DEF Remembered, BridgeStep
<1>5. Journalled'
  <2>1. \A l \in Leases : /\ CheckpointsUnder(l)' = CheckpointsUnder(l)
                          /\ CheckpointKeys(l)' = CheckpointKeys(l)
                          /\ IsFiniteSet(acked'[l])
    BY DEF BridgeStep, CountersStep, CheckpointsUnder, CheckpointKeys
  <2> QED BY <1>1, <2>1 DEF Journalled
<1> QED BY <1>1, <1>2, <1>3, <1>4, <1>5, ExchangesStep, NeverAheadStep, LastUnconfirmedStep
        DEF BridgeInv

-----------------------------------------------------------------------------
(* Each action is such a step.                                             *)

LEMMA StoreStays ==
    ASSUME StoreOK, UNCHANGED vars
    PROVE  Grown /\ checkpoints' = checkpoints
<1>1. UNCHANGED <<now, tasks, leases, checkpoints>>
  BY DEF vars
<1> QED BY <1>1, VersionsAreNumbers DEF Grown, StoreOK

\* The bindings with their locks taken or left.
SameBindings(os) ==
    /\ os \in Seq(BindingRow) /\ Len(os) = Len(bindings) /\ DOMAIN os = DOMAIN bindings
    /\ \A i \in DOMAIN bindings :
          /\ os[i] \in BindingRow
          /\ os[i].task = bindings[i].task /\ os[i].lease = bindings[i].lease
          /\ os[i].tv = bindings[i].tv /\ os[i].lv = bindings[i].lv

LEMMA BindingRows ==
    ASSUME RowsOK
    PROVE  /\ bindings \in Seq(BindingRow) /\ Len(bindings) \in Nat
           /\ DOMAIN bindings = 1..Len(bindings)
           /\ \A i \in DOMAIN bindings : bindings[i] \in BindingRow
  BY DEF RowsOK

LEMMA LockKeeps ==
    ASSUME RowsOK
    PROVE  /\ SameBindings(bindings)
           /\ \A os, p : SameBindings(os) => SameBindings(Unlock(os, p))
           /\ \A b, p : p \in Processes => SameBindings([bindings EXCEPT ![b].holder = p])
           /\ SameBindings([i \in DOMAIN bindings |-> [bindings[i] EXCEPT !.holder = None]])
<1> DEFINE n == Len(bindings)
<1>1. /\ bindings \in Seq(BindingRow) /\ n \in Nat /\ DOMAIN bindings = 1..n
      /\ \A i \in DOMAIN bindings : bindings[i] \in BindingRow
  BY BindingRows
<1> HIDE DEF n
<1>2. ASSUME NEW os,
             os = [i \in 1..n |-> os[i]],
             \A i \in 1..n : /\ os[i] \in BindingRow
                             /\ os[i].task = bindings[i].task /\ os[i].lease = bindings[i].lease
                             /\ os[i].tv = bindings[i].tv /\ os[i].lv = bindings[i].lv
      PROVE  SameBindings(os)
  <2>1. os \in [1..n -> BindingRow]
    BY <1>2
  <2>2. os \in Seq(BindingRow)
    BY <1>1, <2>1, SeqDef
  <2>3. Len(os) = n /\ DOMAIN os = 1..n
    BY <1>1, <2>1, <2>2
  <2> QED BY <1>1, <1>2, <2>2, <2>3 DEF SameBindings, n
<1>3. SameBindings(bindings)
  BY <1>1 DEF SameBindings
<1>4. ASSUME NEW os, NEW p, SameBindings(os) PROVE SameBindings(Unlock(os, p))
  <2>1. DOMAIN os = 1..n /\ \A i \in 1..n : os[i] \in BindingRow
    BY <1>1, <1>4 DEF SameBindings
  <2>2. \A i \in 1..n :
           LET o == [os[i] EXCEPT !.holder = IF @ = p THEN None ELSE @]
           IN  /\ o \in BindingRow /\ o.task = os[i].task /\ o.lease = os[i].lease
               /\ o.tv = os[i].tv /\ o.lv = os[i].lv
    BY <2>1 DEF BindingRow
  <2>3. Unlock(os, p) = [i \in 1..n |-> [os[i] EXCEPT !.holder = IF @ = p THEN None ELSE @]]
    BY <2>1 DEF Unlock
  <2>4. \A i \in 1..n : /\ Unlock(os, p)[i] \in BindingRow
                        /\ Unlock(os, p)[i].task = bindings[i].task
                        /\ Unlock(os, p)[i].lease = bindings[i].lease
                        /\ Unlock(os, p)[i].tv = bindings[i].tv
                        /\ Unlock(os, p)[i].lv = bindings[i].lv
    BY <1>1, <1>4, <2>2, <2>3, ZenonT(40) DEF SameBindings
  <2>5. Unlock(os, p) = [i \in 1..n |-> Unlock(os, p)[i]]
    BY <2>3
  <2> HIDE DEF Unlock
  <2> QED BY <1>2, <2>4, <2>5
<1>5. ASSUME NEW b, NEW p \in Processes PROVE SameBindings([bindings EXCEPT ![b].holder = p])
  <2> DEFINE os == [bindings EXCEPT ![b].holder = p]
  <2>1. os = [i \in 1..n |-> os[i]]
    BY <1>1
  <2>2. ASSUME NEW i \in 1..n
        PROVE /\ os[i] \in BindingRow
              /\ os[i].task = bindings[i].task /\ os[i].lease = bindings[i].lease
              /\ os[i].tv = bindings[i].tv /\ os[i].lv = bindings[i].lv
    <3>1. bindings[i] \in BindingRow
      BY <1>1
    <3>2. os[i] = IF i = b THEN [bindings[i] EXCEPT !.holder = p] ELSE bindings[i]
      BY <1>1
    <3> HIDE DEF os
    <3> QED BY <3>1, <3>2 DEF BindingRow
  <2> HIDE DEF os
  <2>3. SameBindings(os)
    BY <1>2, <2>1, <2>2
  <2> QED BY <2>3 DEF os
<1>6. SameBindings([i \in DOMAIN bindings |-> [bindings[i] EXCEPT !.holder = None]])
  <2> DEFINE os == [i \in DOMAIN bindings |-> [bindings[i] EXCEPT !.holder = None]]
  <2>1. os = [i \in 1..n |-> os[i]]
    BY <1>1
  <2>2. ASSUME NEW i \in 1..n
        PROVE /\ os[i] \in BindingRow
              /\ os[i].task = bindings[i].task /\ os[i].lease = bindings[i].lease
              /\ os[i].tv = bindings[i].tv /\ os[i].lv = bindings[i].lv
    <3>1. bindings[i] \in BindingRow
      BY <1>1
    <3>2. os[i] = [bindings[i] EXCEPT !.holder = None]
      BY <1>1
    <3> HIDE DEF os
    <3> QED BY <3>1, <3>2 DEF BindingRow
  <2> HIDE DEF os
  <2>3. SameBindings(os)
    BY <1>2, <2>1, <2>2
  <2> QED BY <2>3 DEF os
<1> QED BY <1>3, <1>4, <1>5, <1>6

LEMMA BindingsKept ==
    ASSUME SameBindings(bindings')
    PROVE  BindingsStep /\ (BoundOK /\ bound' = bound => BoundOK')
<1>1. BindingsStep
  BY DEF SameBindings, BindingsStep, SameVersions
<1> QED BY <1>1 DEF SameBindings, BoundOK

\* A request whose sender is gone, or that was lost with it.
LEMMA OrphanStep ==
    ASSUME RowsOK, NEW p \in Processes, NEW r \in Orphan(p)
    PROVE  \/ r \in wire /\ r.from /= p
           \/ r \in RequestRow /\ r.from = None /\ \E q \in wire : r.op = q.op /\ r.body = q.body
<1>1. PICK q \in wire : r = [q EXCEPT !.from = IF @ = p THEN None ELSE @]
  BY DEF Orphan
<1>2. q \in RequestRow
  BY DEF RowsOK
<1>3. CASE q.from = p
  BY <1>1, <1>2, <1>3 DEF RequestRow
<1>4. CASE q.from /= p
  <2>1. r = q
    BY <1>1, <1>2, <1>4 DEF RequestRow
  <2> QED BY <1>4, <2>1
<1> QED BY <1>3, <1>4

LEMMA Quiet ==
    ASSUME RowsOK, Exchanges, NEW p \in Processes, inbox[p] /= None \/ proc[p].pc /= "wait"
    PROVE  \A r \in wire : r.from /= p
  BY NobodyWaits DEF Exchanges, RequestOK

LEMMA Reader ==
    ASSUME RowsOK, Exchanges, NEW p \in Processes, proc[p].pc = "wait"
    PROVE  /\ proc[p].task \in Tasks /\ proc[p].op \in Operations
           /\ proc[p].op /= "claim" => /\ proc[p].b \in DOMAIN bindings
                                       /\ bindings[proc[p].b].task = proc[p].task
  BY DEF Exchanges, ProcessOK, Works

LEMMA ProcessRows ==
    ASSUME RowsOK
    PROVE  /\ \A p \in Processes : proc[p] \in ProcessRow
           /\ Idle \in ProcessRow
           /\ \A p : proc'[p] = Idle => ProcessOK(p)'
           /\ \A pc \in {"lock", "wait", "sleep"}, op \in Operations, t \in Tasks, k \in AnyKey,
                 b \in Nat : At(pc, op, t, k, b) \in ProcessRow
<1>1. \A p \in Processes : proc[p] \in ProcessRow
  BY DEF RowsOK
<1>2. Idle \in ProcessRow
  BY DEF Idle, ProcessRow, AnyKey
<1>3. \A p : proc'[p] = Idle => ProcessOK(p)'
  BY DEF ProcessOK, Works, Idle
<1>4. \A pc \in {"lock", "wait", "sleep"}, op \in Operations, t \in Tasks, k \in AnyKey,
         b \in Nat : At(pc, op, t, k, b) \in ProcessRow
  BY DEF At, ProcessRow
<1> QED BY <1>1, <1>2, <1>3, <1>4

LEMMA OneMoves ==
    ASSUME RowsOK, NEW p \in Processes, NEW row \in ProcessRow,
           proc' = [proc EXCEPT ![p] = row], inbox' = [inbox EXCEPT ![p] = None],
           ProcessOK(p)'
    PROVE  ProcessStep({p}) /\ proc'[p] = row
<1>1. proc' \in [Processes -> ProcessRow] /\ inbox' \in [Processes -> ReplyRow \cup {Refused, None}]
  BY DEF RowsOK
<1>2. proc'[p] = row /\ inbox'[p] = None
  BY DEF RowsOK
<1>3. \A q \in Processes \ {p} : proc'[q] = proc[q] /\ inbox'[q] = inbox[q]
  BY DEF RowsOK
<1> QED BY <1>1, <1>2, <1>3 DEF ProcessStep

LEMMA TwoMove ==
    ASSUME RowsOK, NEW p \in Processes, NEW q \in Processes, NEW row \in ProcessRow,
           proc' = [proc EXCEPT ![p] = Idle, ![q] = row],
           inbox' = [inbox EXCEPT ![p] = None, ![q] = None],
           proc'[q] = row => ProcessOK(q)'
    PROVE  ProcessStep({p, q})
<1>1. proc' \in [Processes -> ProcessRow] /\ inbox' \in [Processes -> ReplyRow \cup {Refused, None}]
  BY ProcessRows DEF RowsOK
<1>2. /\ proc'[q] = row /\ inbox'[q] = None /\ inbox'[p] = None
      /\ p /= q => proc'[p] = Idle
  BY DEF RowsOK
<1>3. \A x \in Processes \ {p, q} : proc'[x] = proc[x] /\ inbox'[x] = inbox[x]
  BY DEF RowsOK
<1>4. ProcessOK(p)' /\ ProcessOK(q)'
  BY <1>2, ProcessRows
<1> QED BY <1>1, <1>2, <1>3, <1>4 DEF ProcessStep

LEMMA CountersKeep ==
    ASSUME RowsOK, Journalled, acked' = acked, UNCHANGED used \/ Fault,
           bound' \in [Tasks -> Nat], BoundOK'
    PROVE  CountersStep
<1>1. used' \in [calls : Nat, renewals : Nat, faults : Nat]
  BY SMTT(30) DEF RowsOK, Fault
<1> QED BY <1>1 DEF RowsOK, Journalled, CountersStep

LEMMA InvParts ==
    ASSUME BridgeInv
    PROVE  /\ StoreOK /\ RowsOK /\ Remembered /\ Exchanges /\ NeverAhead
           /\ LastUnconfirmed /\ Journalled /\ BoundOK
           /\ bound \in [Tasks -> Nat]
  BY DEF BridgeInv, Exchanges, RowsOK

LEMMA CallerOrTask ==
    /\ \A c \in Callers : c \in Processes
    /\ \A t \in Tasks : t \in Processes
  BY DEF Processes

LEMMA CallClaimStep ==
    ASSUME BridgeInv, NEW c \in Callers, NEW t \in Tasks, NEW key \in Keys,
           NEW s \in LeaseSeconds, CallClaim(c, t, key, s)
    PROVE  BridgeStep({c})
<1> DEFINE r == Request(c, "claim", t, key, [seconds |-> s])
           row == At("wait", "claim", t, key, 0)
<1>1. /\ proc[c] = Idle /\ used' = [used EXCEPT !.calls = @ + 1]
      /\ proc' = [proc EXCEPT ![c] = row]
      /\ wire' = wire \cup {r}
      /\ UNCHANGED vars /\ UNCHANGED <<bindings, bound, inbox, stored, acked, upset>>
  BY DEF CallClaim, Enter
<1>2. c \in Processes /\ s \in Nat /\ key \in AnyKey
  BY CallerOrTask, BoundAssumption DEF AnyKey
<1>3. proc[c].pc /= "wait" /\ inbox[c] = None
  BY <1>1, <1>2, InvParts DEF Idle, Exchanges, AnswerOK
<1>4. \A q \in wire : q.from /= c
  BY <1>2, <1>3, InvParts, Quiet
<1>5. row \in ProcessRow /\ r \in RequestRow
  BY <1>2 DEF At, ProcessRow, Request, RequestRow, Operations, Bodies
<1>6. row.pc = "wait" /\ row.op = "claim" /\ row.task = t /\ row.key = key
  BY DEF At
<1>7. r.op = "claim" /\ r.from = c /\ r.task = t /\ r.key = key /\ r.body.seconds = s
  BY DEF Request
<1> HIDE DEF r, row
<1>8. proc'[c] = row /\ inbox' = [inbox EXCEPT ![c] = None] /\ inbox'[c] = None
  BY <1>1, <1>2, <1>3, InvParts DEF RowsOK
<1>9. ProcessOK(c)'
  BY <1>6, <1>8 DEF ProcessOK, Works, Operations
<1>10. ProcessStep({c})
  BY <1>1, <1>2, <1>5, <1>8, <1>9, InvParts, OneMoves
<1>11. WireStep({c})
  BY <1>1, <1>2, <1>4, <1>5, <1>6, <1>7, <1>8 DEF WireStep, Sent
<1>12. BindingsStep /\ BoundOK'
  <2>1. SameBindings(bindings')
    BY <1>1, InvParts, LockKeeps
  <2> QED BY <1>1, <2>1, InvParts, BindingsKept
<1>13. CountersStep
  <2>1. used' \in [calls : Nat, renewals : Nat, faults : Nat]
    <3>1. used \in [calls : Nat, renewals : Nat, faults : Nat]
      BY InvParts DEF RowsOK
    <3>2. used' = [used EXCEPT !.calls = @ + 1]
      BY <1>1
    <3> QED BY <3>1, <3>2
  <2>2. bound' \in [Tasks -> Nat] /\ BoundOK' /\ acked' = acked /\ acked \in [Leases -> SUBSET AnyKey]
    BY <1>1, <1>12, InvParts DEF RowsOK
  <2>3. \A l \in Leases : IsFiniteSet(acked[l])
    BY InvParts DEF Journalled
  <2> QED BY <2>1, <2>2, <2>3 DEF CountersStep
<1>14. Grown /\ checkpoints' = checkpoints
  BY <1>1, InvParts, StoreStays
<1> QED BY <1>1, <1>10, <1>11, <1>12, <1>13, <1>14 DEF BridgeStep

LEMMA CallBoundStep ==
    ASSUME BridgeInv, NEW c \in Callers, NEW t \in Tasks, NEW key \in Keys,
           NEW op \in {"checkpoint", "complete"}, CallBound(c, t, op, key)
    PROVE  BridgeStep({c})
<1> DEFINE row == At("lock", op, t, key, bound[t])
<1>1. /\ bound[t] /= 0 /\ proc[c] = Idle /\ used' = [used EXCEPT !.calls = @ + 1]
      /\ proc' = [proc EXCEPT ![c] = row]
      /\ UNCHANGED vars /\ UNCHANGED <<bindings, bound, wire, inbox, stored, acked, upset>>
  BY DEF CallBound, Enter
<1>2. c \in Processes /\ key \in AnyKey /\ op \in Operations /\ op /= "claim"
  BY CallerOrTask DEF AnyKey, Operations
<1>3. proc[c].pc /= "wait" /\ inbox[c] = None
  BY <1>1, <1>2, InvParts DEF Idle, Exchanges, AnswerOK
<1>4. \A q \in wire : q.from /= c
  BY <1>2, <1>3, InvParts, Quiet
<1>5. row \in ProcessRow
  BY <1>2, InvParts, ProcessRows
<1>6. /\ row.pc = "lock" /\ row.op = op /\ row.task = t /\ row.b = bound[t]
      /\ bound[t] \in DOMAIN bindings /\ bindings[bound[t]].task = t
  BY <1>1, InvParts DEF At, BoundOK
<1> HIDE DEF row
<1>8. proc'[c] = row /\ inbox' = [inbox EXCEPT ![c] = None]
  BY <1>1, <1>2, <1>3, InvParts DEF RowsOK
<1>9. ProcessOK(c)'
  BY <1>1, <1>2, <1>6, <1>8 DEF ProcessOK, Works
<1>10. ProcessStep({c})
  BY <1>1, <1>2, <1>5, <1>8, <1>9, InvParts, OneMoves
<1>11. WireStep({c})
  BY <1>1, <1>4 DEF WireStep
<1>12. BindingsStep /\ BoundOK'
  <2>1. SameBindings(bindings')
    BY <1>1, InvParts, LockKeeps
  <2> QED BY <1>1, <2>1, InvParts, BindingsKept
<1>13. CountersStep
  <2>1. used' \in [calls : Nat, renewals : Nat, faults : Nat]
    <3>1. used \in [calls : Nat, renewals : Nat, faults : Nat]
      BY InvParts DEF RowsOK
    <3>2. used' = [used EXCEPT !.calls = @ + 1]
      BY <1>1
    <3> QED BY <3>1, <3>2
  <2>2. bound' \in [Tasks -> Nat] /\ BoundOK' /\ acked' = acked /\ acked \in [Leases -> SUBSET AnyKey]
    BY <1>1, <1>12, InvParts DEF RowsOK
  <2>3. \A l \in Leases : IsFiniteSet(acked[l])
    BY InvParts DEF Journalled
  <2> QED BY <2>1, <2>2, <2>3 DEF CountersStep
<1>14. Grown /\ checkpoints' = checkpoints
  BY <1>1, InvParts, StoreStays
<1> QED BY <1>1, <1>10, <1>11, <1>12, <1>13, <1>14 DEF BridgeStep

LEMMA SendStep ==
    ASSUME BridgeInv, NEW p \in Processes, Send(p)
    PROVE  BridgeStep({p})
<1> DEFINE me == proc[p]
           o == bindings[me.b]
           body == IF me.op = "renew"
                   THEN [lease |-> o.lease, lv |-> o.lv, seconds |-> o.seconds]
                   ELSE [lease |-> o.lease, tv |-> o.tv, lv |-> o.lv]
           r == Request(p, me.op, me.task, me.key, body)
           row == [me EXCEPT !.pc = "wait"]
<1>1. /\ me.pc = "lock" /\ bindings' = [bindings EXCEPT ![me.b].holder = p]
      /\ proc' = [proc EXCEPT ![p].pc = "wait"] /\ wire' = wire \cup {r}
      /\ UNCHANGED vars /\ UNCHANGED <<bound, inbox, stored, used, acked, upset>>
  BY DEF Send
<1>2. /\ me \in ProcessRow /\ me.op \in Operations \ {"claim"}
      /\ me.b \in DOMAIN bindings /\ o.task = me.task
  BY <1>1, InvParts, ProcessRows DEF Exchanges, ProcessOK, Works
<1>3. o \in BindingRow
  BY <1>2, InvParts, BindingRows
<1>4. inbox[p] = None
  BY <1>1, InvParts DEF Exchanges, AnswerOK
<1>5. \A q \in wire : q.from /= p
  BY <1>1, InvParts, Quiet
<1> HIDE DEF me, o
<1>6. body \in Bodies /\ body.lease = o.lease /\ body.lv = o.lv
      /\ (me.op = "renew" => body.seconds \in Nat)
  BY <1>3 DEF Bodies, BindingRow
<1> HIDE DEF body
<1>7. me.task \in Tasks /\ me.key \in AnyKey
  BY <1>2, <1>3 DEF BindingRow, ProcessRow
<1>8. r \in RequestRow /\ r.op = me.op /\ r.from = p /\ r.task = me.task /\ r.key = me.key /\ r.body = body
  BY <1>2, <1>6, <1>7 DEF Request, RequestRow
<1>9. /\ row \in ProcessRow /\ row.pc = "wait" /\ row.op = me.op /\ row.task = me.task
      /\ row.key = me.key /\ row.b = me.b
  BY <1>2 DEF ProcessRow
<1>10. proc' = [proc EXCEPT ![p] = row]
  BY <1>1 DEF me
<1> HIDE DEF r, row
<1>11. proc'[p] = row /\ inbox' = [inbox EXCEPT ![p] = None] /\ inbox'[p] = None
  BY <1>1, <1>4, <1>10, InvParts DEF RowsOK
<1>12. SameBindings(bindings')
  BY <1>1, InvParts, LockKeeps
<1>13. BindingsStep /\ BoundOK'
  BY <1>1, <1>12, InvParts, BindingsKept
<1>14. ProcessOK(p)'
  <2>1. me.b \in DOMAIN bindings' /\ bindings'[me.b].task = me.task
    BY <1>2, <1>12 DEF SameBindings, o
  <2> QED BY <1>2, <1>7, <1>9, <1>11, <2>1 DEF ProcessOK, Works
<1>15. ProcessStep({p})
  BY <1>9, <1>10, <1>11, <1>14, InvParts, OneMoves
<1>16. Sent(r)
  BY <1>2, <1>6, <1>8, <1>9, <1>11 DEF Sent, o
<1>17. WireStep({p})
  BY <1>1, <1>5, <1>8, <1>16 DEF WireStep
<1>18. CountersStep
  BY <1>1, <1>13, InvParts, CountersKeep
<1>19. Grown /\ checkpoints' = checkpoints
  BY <1>1, InvParts, StoreStays
<1> QED BY <1>1, <1>13, <1>15, <1>17, <1>18, <1>19 DEF BridgeStep

LEMMA ClaimGrantedStep ==
    ASSUME BridgeInv, NEW c \in Processes, NEW t, t = proc[c].task, ClaimGranted(c)
    PROVE  t \in Tasks /\ BridgeStep({c, t})
<1> DEFINE n == Len(bindings)
           reply == inbox[c]
           new == [task |-> t, lease |-> reply.lease, tv |-> reply.tv,
                   lv |-> reply.lv, seconds |-> reply.seconds, holder |-> None]
           os == Unlock(bindings, t)
           row == At("sleep", "renew", t, None, n + 1)
<1>1. /\ proc[c].op = "claim" /\ proc[c].pc = "wait" /\ reply /= None /\ reply.ok
      /\ bindings' = Append(os, new) /\ bound' = [bound EXCEPT ![t] = n + 1]
      /\ proc' = [proc EXCEPT ![c] = Idle, ![t] = row]
      /\ inbox' = [inbox EXCEPT ![c] = None, ![t] = None]
      /\ wire' = Orphan(t)
      /\ UNCHANGED vars /\ UNCHANGED <<stored, used, acked>>
  BY DEF ClaimGranted, Waiting
<1>2. t \in Tasks /\ t \in Processes
  BY <1>1, InvParts, Reader, CallerOrTask
<1>3. reply \in ReplyRow
  BY <1>1, InvParts, AnswerRow
<1>4. SameBindings(os)
  BY InvParts, LockKeeps
<1>5. n \in Nat /\ DOMAIN bindings = 1..n
  BY InvParts, BindingRows
<1>6. /\ new \in BindingRow /\ new.task = t /\ new.lease = reply.lease /\ new.tv = reply.tv
      /\ new.lv = reply.lv
  BY <1>2, <1>3 DEF BindingRow, ReplyRow
<1> HIDE DEF new, os
<1>7. /\ bindings' \in Seq(BindingRow) /\ DOMAIN bindings' = 1..(n + 1)
      /\ bindings'[n + 1] = new
      /\ \A i \in 1..n : bindings'[i] = os[i]
  BY <1>1, <1>4, <1>5, <1>6 DEF SameBindings
<1>8. \A i \in 1..n : bindings'[i].task = bindings[i].task /\ SameVersions(i)
  BY <1>4, <1>5, <1>7 DEF SameBindings, SameVersions
<1>9. Learned(n + 1)
  BY <1>1, <1>6, <1>7 DEF Learned
<1>10. BindingsStep
  <2>1. \A i \in DOMAIN bindings' : SameVersions(i) \/ Learned(i)
    BY <1>5, <1>7, <1>8, <1>9
  <2>2. \A i \in DOMAIN bindings : /\ i \in DOMAIN bindings'
                                   /\ bindings'[i].task = bindings[i].task
                                   /\ bindings'[i].lease = bindings[i].lease
    BY <1>5, <1>7, <1>8 DEF SameVersions
  <2> QED BY <1>7, <2>1, <2>2 DEF BindingsStep
<1>11. bound' \in [Tasks -> Nat] /\ BoundOK'
  <2>1. bound' \in [Tasks -> Nat] /\ bound'[t] = n + 1 /\ \A u \in Tasks \ {t} : bound'[u] = bound[u]
    BY <1>1, <1>2, <1>5, InvParts
  <2>2. \A u \in Tasks \ {t} : bound[u] /= 0 => bound[u] \in 1..n /\ bindings[bound[u]].task = u
    BY <1>5, InvParts DEF BoundOK
  <2>3. \A u \in Tasks : bound'[u] /= 0 => bound'[u] \in 1..(n + 1) /\ bindings'[bound'[u]].task = u
    <3>1. ASSUME NEW u \in Tasks \ {t}, bound'[u] /= 0
          PROVE  bound'[u] \in 1..(n + 1) /\ bindings'[bound'[u]].task = u
      <4>1. bound[u] \in 1..n /\ bindings[bound[u]].task = u /\ bound'[u] = bound[u]
        BY <2>1, <2>2, <3>1
      <4> QED BY <1>5, <1>8, <4>1
    <3>2. bound'[t] \in 1..(n + 1) /\ bindings'[bound'[t]].task = t
      BY <1>5, <1>6, <1>7, <2>1
    <3> QED BY <3>1, <3>2
  <2> QED BY <1>7, <2>1, <2>3 DEF BoundOK
<1>12. /\ row \in ProcessRow /\ row.pc = "sleep" /\ row.op = "renew" /\ row.task = t
       /\ row.b = n + 1
  BY <1>2, <1>5 DEF At, ProcessRow, Operations, AnyKey
<1> HIDE DEF row
<1>13. proc'[t] = row => ProcessOK(t)'
  BY <1>2, <1>5, <1>6, <1>7, <1>12 DEF ProcessOK, Works, Operations
<1>14. ProcessStep({c, t})
  BY <1>1, <1>2, <1>12, <1>13, InvParts, TwoMove
<1>15. WireStep({c, t})
  <2>1. \A q \in wire : q.from /= c
    BY <1>1, InvParts, Quiet
  <2>2. c /= None /\ t /= None
    BY <1>2, NobodyWaits
  <2>3. \A r \in Orphan(t) :
          \/ r \in wire /\ r.from /= t
          \/ r \in RequestRow /\ r.from = None /\ \E q \in wire : r.op = q.op /\ r.body = q.body
    BY <1>2, InvParts, OrphanStep
  <2> QED BY <1>1, <2>1, <2>2, <2>3 DEF WireStep
<1>16. CountersStep
  BY <1>1, <1>11, InvParts, CountersKeep
<1>17. Grown /\ checkpoints' = checkpoints
  BY <1>1, InvParts, StoreStays
<1> QED BY <1>1, <1>2, <1>10, <1>14, <1>15, <1>16, <1>17 DEF BridgeStep

LEMMA CheckpointGrantedStep ==
    ASSUME BridgeInv, NEW c \in Processes, CheckpointGranted(c)
    PROVE  BridgeStep({c})
<1> DEFINE b == proc[c].b
           reply == inbox[c]
           os == Unlock(bindings, c)
<1>1. /\ proc[c].op = "checkpoint" /\ proc[c].pc = "wait" /\ reply /= None /\ reply.ok
      /\ bindings' = [os EXCEPT ![b].tv = reply.tv, ![b].lv = reply.lv]
      /\ proc' = [proc EXCEPT ![c] = Idle]
      /\ inbox' = [inbox EXCEPT ![c] = None]
      /\ acked' = [acked EXCEPT ![reply.lease] = @ \cup {proc[c].key}]
      /\ UNCHANGED vars /\ UNCHANGED <<bound, wire, stored, used>>
  BY DEF CheckpointGranted, Waiting
<1>2. b \in DOMAIN bindings /\ bindings[b].task = proc[c].task
  BY <1>1, InvParts, Reader
<1>3. /\ reply \in ReplyRow /\ reply.lease \in Leases /\ reply.tv \in Nat /\ reply.lv \in Nat
      /\ reply.lease = bindings[b].lease
  BY <1>1, InvParts, AnswerRow DEF Exchanges, AnswerOK
<1>4. SameBindings(os)
  BY InvParts, LockKeeps
<1> HIDE DEF os, b
<1>5. /\ DOMAIN bindings' = DOMAIN bindings /\ Len(bindings) \in Nat
      /\ DOMAIN bindings = 1..Len(bindings)
      /\ \A i \in DOMAIN bindings : i /= b => bindings'[i] = os[i]
      /\ bindings'[b] = [os[b] EXCEPT !.tv = reply.tv, !.lv = reply.lv]
      /\ os[b] \in BindingRow
  BY <1>1, <1>2, <1>4, InvParts, BindingRows DEF SameBindings
<1>6. /\ bindings'[b] \in BindingRow /\ bindings'[b].task = bindings[b].task
      /\ bindings'[b].lease = bindings[b].lease
      /\ bindings'[b].tv = reply.tv /\ bindings'[b].lv = reply.lv
  BY <1>2, <1>3, <1>4, <1>5, SMTT(20), ZenonT(30) DEF BindingRow, SameBindings
<1>7. bindings' \in Seq(BindingRow)
  <2>1. \A i \in 1..Len(bindings) : bindings'[i] \in BindingRow
    BY <1>4, <1>5, <1>6 DEF SameBindings
  <2>2. bindings' \in [1..Len(bindings) -> BindingRow]
    <3>1. bindings' = [i \in 1..Len(bindings) |-> bindings'[i]]
      BY <1>1, <1>4, <1>5 DEF SameBindings
    <3> QED BY <2>1, <3>1
  <2> QED BY <1>5, <2>2, SeqDef
<1>8. proc[c].key \in acked'[reply.lease]
  BY <1>1, <1>3, InvParts DEF RowsOK
<1>9. Learned(b)
  BY <1>1, <1>2, <1>3, <1>6, <1>8 DEF Learned
<1>10. \A i \in DOMAIN bindings : i /= b => SameVersions(i)
  BY <1>4, <1>5 DEF SameBindings, SameVersions
<1>11. BindingsStep /\ BoundOK'
  <2>1. \A i \in DOMAIN bindings : /\ i \in DOMAIN bindings'
                                   /\ bindings'[i].task = bindings[i].task
                                   /\ bindings'[i].lease = bindings[i].lease
    BY <1>5, <1>6, <1>10 DEF SameVersions
  <2>2. BoundOK'
    BY <1>1, <2>1, InvParts DEF BoundOK
  <2> QED BY <1>5, <1>7, <1>9, <1>10, <2>1, <2>2 DEF BindingsStep
<1>12. proc'[c] = Idle
  BY <1>1, InvParts DEF RowsOK
<1>13. ProcessStep({c})
  BY <1>1, <1>12, InvParts, ProcessRows, OneMoves
<1>14. WireStep({c})
  <2>1. \A q \in wire : q.from /= c
    BY <1>1, InvParts, Quiet
  <2> QED BY <1>1, <2>1 DEF WireStep
<1>15. CountersStep
  <2>1. proc[c].key \in AnyKey
    BY InvParts, ProcessRows DEF ProcessRow
  <2>2. /\ acked' \in [Leases -> SUBSET AnyKey]
        /\ acked'[reply.lease] = acked[reply.lease] \cup {proc[c].key}
        /\ \A l \in Leases \ {reply.lease} : acked'[l] = acked[l]
    BY <1>1, <1>3, <2>1, InvParts DEF RowsOK
  <2>3. \A l \in Leases : IsFiniteSet(acked[l])
    BY InvParts DEF Journalled
  <2>4. IsFiniteSet(acked'[reply.lease])
    <3>1. IsFiniteSet(acked[reply.lease])
      BY <1>3, <2>3
    <3>2. IsFiniteSet(acked[reply.lease] \cup {proc[c].key})
      BY <3>1, FS_AddElement
    <3> QED BY <2>2, <3>2
  <2>5. \A l \in Leases : acked[l] \subseteq acked'[l] /\ IsFiniteSet(acked'[l])
    BY <2>2, <2>3, <2>4
  <2> QED BY <1>1, <1>11, <2>2, <2>5, InvParts DEF CountersStep, RowsOK
<1>16. Grown /\ checkpoints' = checkpoints
  BY <1>1, InvParts, StoreStays
<1> QED BY <1>1, <1>11, <1>13, <1>14, <1>15, <1>16 DEF BridgeStep

LEMMA CompleteGrantedStep ==
    ASSUME BridgeInv, NEW c \in Processes, NEW t, t = proc[c].task, CompleteGranted(c)
    PROVE  BridgeStep({c, t})
<1>1. /\ proc[c].pc = "wait" /\ inbox[c] /= None
      /\ bindings' = Unlock(Unlock(bindings, c), t) /\ bound' = [bound EXCEPT ![t] = 0]
      /\ proc' = [proc EXCEPT ![c] = Idle, ![t] = Idle]
      /\ inbox' = [inbox EXCEPT ![c] = None, ![t] = None]
      /\ wire' = Orphan(t)
      /\ UNCHANGED vars /\ UNCHANGED <<stored, used, acked>>
  BY DEF CompleteGranted, Waiting
<1>2. t \in Tasks /\ t \in Processes
  BY <1>1, InvParts, Reader, CallerOrTask
<1>3. SameBindings(bindings')
  BY <1>1, InvParts, LockKeeps
<1>4. BindingsStep
  BY <1>3, BindingsKept
<1>5. bound' \in [Tasks -> Nat] /\ BoundOK'
  BY <1>1, <1>2, <1>3, InvParts DEF SameBindings, BoundOK
<1>6. ProcessStep({c, t})
  BY <1>1, <1>2, InvParts, ProcessRows, TwoMove
<1>7. WireStep({c, t})
  <2>1. \A q \in wire : q.from /= c
    BY <1>1, InvParts, Quiet
  <2>2. c /= None /\ t /= None
    BY <1>2, NobodyWaits
  <2>3. \A r \in Orphan(t) :
          \/ r \in wire /\ r.from /= t
          \/ r \in RequestRow /\ r.from = None /\ \E q \in wire : r.op = q.op /\ r.body = q.body
    BY <1>2, InvParts, OrphanStep
  <2> QED BY <1>1, <2>1, <2>2, <2>3 DEF WireStep
<1>8. CountersStep
  BY <1>1, <1>5, InvParts, CountersKeep
<1>9. Grown /\ checkpoints' = checkpoints
  BY <1>1, InvParts, StoreStays
<1> QED BY <1>1, <1>4, <1>6, <1>7, <1>8, <1>9 DEF BridgeStep

\* A process that stops waiting, whatever becomes of its request.
LEMMA ReturnStep ==
    ASSUME BridgeInv, NEW p \in Processes, NEW row \in ProcessRow,
           proc[p].pc = "wait",
           (wire' = wire /\ inbox[p] /= None) \/ wire' \in {Orphan(p), {r \in wire : r.from /= p}},
           SameBindings(bindings'), proc' = [proc EXCEPT ![p] = row],
           inbox' = [inbox EXCEPT ![p] = None], ProcessOK(p)',
           UNCHANGED used \/ Fault, UNCHANGED vars, UNCHANGED <<bound, stored, acked>>
    PROVE  BridgeStep({p})
<1>1. BindingsStep /\ BoundOK'
  BY InvParts, BindingsKept
<1>2. ProcessStep({p})
  BY InvParts, OneMoves
<1>3. WireStep({p})
  <2>1. CASE wire' = wire /\ inbox[p] /= None
    <3>1. \A q \in wire : q.from /= p
      BY <2>1, InvParts, Quiet
    <3> QED BY <2>1, <3>1 DEF WireStep
  <2>2. CASE wire' = Orphan(p)
    <3>1. p /= None
      BY NobodyWaits
    <3>2. \A r \in Orphan(p) :
            \/ r \in wire /\ r.from /= p
            \/ r \in RequestRow /\ r.from = None /\ \E q \in wire : r.op = q.op /\ r.body = q.body
      BY InvParts, OrphanStep
    <3> QED BY <2>2, <3>1, <3>2 DEF WireStep
  <2>3. CASE wire' = {r \in wire : r.from /= p}
    BY <2>3 DEF WireStep
  <2> QED BY <2>1, <2>2, <2>3
<1>4. CountersStep
  BY <1>1, InvParts, CountersKeep
<1>5. Grown /\ checkpoints' = checkpoints
  BY InvParts, StoreStays
<1> QED BY <1>1, <1>2, <1>3, <1>4, <1>5 DEF BridgeStep

LEMMA IdleAgain ==
    ASSUME RowsOK, NEW p \in Processes, proc' = [proc EXCEPT ![p] = Idle]
    PROVE  ProcessOK(p)' /\ Idle \in ProcessRow
<1>1. proc'[p] = Idle
  BY DEF RowsOK
<1> QED BY <1>1, ProcessRows

LEMMA CallEndStep ==
    ASSUME BridgeInv, NEW c \in Processes, CallRefused(c) \/ CallFails(c)
    PROVE  BridgeStep({c})
<1>1. /\ proc[c].pc = "wait" /\ bindings' = Unlock(bindings, c)
      /\ (wire' = wire /\ inbox[c] /= None) \/ wire' \in {Orphan(c), {r \in wire : r.from /= c}}
      /\ proc' = [proc EXCEPT ![c] = Idle] /\ inbox' = [inbox EXCEPT ![c] = None]
      /\ UNCHANGED used \/ Fault
      /\ UNCHANGED vars /\ UNCHANGED <<bound, stored, acked>>
  BY DEF CallRefused, CallFails, GiveUp, Waiting
<1>2. SameBindings(bindings')
  BY <1>1, InvParts, LockKeeps
<1>3. ProcessOK(c)' /\ Idle \in ProcessRow
  BY <1>1, InvParts, IdleAgain
<1> QED BY <1>1, <1>2, <1>3, ReturnStep

LEMMA RenewalEndStep ==
    ASSUME BridgeInv, NEW t \in Tasks, RenewalRefused(t) \/ RenewalRetries(t)
    PROVE  BridgeStep({t})
<1>1. t \in Processes
  BY CallerOrTask
<1>2. CASE RenewalRefused(t)
  <2>1. /\ proc[t].pc = "wait" /\ bindings' = Unlock(bindings, t)
        /\ wire' = wire /\ inbox[t] /= None
        /\ proc' = [proc EXCEPT ![t] = Idle] /\ inbox' = [inbox EXCEPT ![t] = None]
        /\ UNCHANGED used /\ UNCHANGED vars /\ UNCHANGED <<bound, stored, acked>>
    BY <1>2 DEF RenewalRefused, Waiting
  <2>2. SameBindings(bindings')
    BY <2>1, InvParts, LockKeeps
  <2>3. ProcessOK(t)' /\ Idle \in ProcessRow
    BY <1>1, <2>1, InvParts, IdleAgain
  <2> QED BY <1>1, <2>1, <2>2, <2>3, ReturnStep
<1>3. CASE RenewalRetries(t)
  <2> DEFINE row == [proc[t] EXCEPT !.pc = "lock"]
  <2>1. /\ proc[t].pc = "wait" /\ proc[t].op = "renew" /\ bindings' = Unlock(bindings, t)
        /\ wire' \in {Orphan(t), {r \in wire : r.from /= t}}
        /\ proc' = [proc EXCEPT ![t] = row] /\ inbox' = [inbox EXCEPT ![t] = None]
        /\ Fault /\ UNCHANGED vars /\ UNCHANGED <<bound, stored, acked>>
    BY <1>3 DEF RenewalRetries, GiveUp
  <2>2. SameBindings(bindings')
    BY <2>1, InvParts, LockKeeps
  <2>3. /\ row \in ProcessRow /\ row.pc = "lock" /\ row.op = proc[t].op
        /\ row.task = proc[t].task /\ row.b = proc[t].b
    <3>1. proc[t] \in ProcessRow
      BY <1>1, InvParts, ProcessRows
    <3> QED BY <3>1 DEF ProcessRow
  <2>4. proc[t].b \in DOMAIN bindings /\ bindings[proc[t].b].task = proc[t].task
    BY <1>1, <2>1, InvParts, Reader
  <2> HIDE DEF row
  <2>5. proc'[t] = row
    BY <1>1, <2>1, InvParts DEF RowsOK
  <2>6. ProcessOK(t)'
    BY <2>1, <2>2, <2>3, <2>4, <2>5 DEF ProcessOK, Works, SameBindings, Operations
  <2> QED BY <1>1, <2>1, <2>2, <2>3, <2>6, ReturnStep
<1> QED BY <1>2, <1>3

LEMMA RenewalDueStep ==
    ASSUME BridgeInv, NEW t \in Tasks, RenewalDue(t)
    PROVE  BridgeStep({t})
<1> DEFINE row == [proc[t] EXCEPT !.pc = "lock", !.key = used.renewals + 1]
<1>1. t \in Processes
  BY CallerOrTask
<1>2. /\ proc[t].pc = "sleep" /\ used' = [used EXCEPT !.renewals = @ + 1]
      /\ proc' = [proc EXCEPT ![t] = row]
      /\ UNCHANGED vars /\ UNCHANGED <<bindings, bound, wire, inbox, stored, acked>>
  BY DEF RenewalDue
<1>3. proc[t] \in ProcessRow /\ used \in [calls : Nat, renewals : Nat, faults : Nat]
  BY <1>1, InvParts, ProcessRows DEF RowsOK
<1>4. /\ row \in ProcessRow /\ row.pc = "lock" /\ row.op = proc[t].op
      /\ row.task = proc[t].task /\ row.b = proc[t].b
  <2>1. used.renewals + 1 \in AnyKey
    BY <1>3 DEF AnyKey
  <2> QED BY <1>3, <2>1 DEF ProcessRow
<1>5. /\ proc[t].b \in DOMAIN bindings /\ bindings[proc[t].b].task = proc[t].task
      /\ proc[t].op \in Operations \ {"claim"} /\ inbox[t] = None
  BY <1>1, <1>2, InvParts DEF Exchanges, ProcessOK, AnswerOK, Works
<1> HIDE DEF row
<1>6. proc'[t] = row /\ inbox' = [inbox EXCEPT ![t] = None]
  BY <1>1, <1>2, <1>5, InvParts DEF RowsOK
<1>7. ProcessOK(t)'
  BY <1>2, <1>4, <1>5, <1>6 DEF ProcessOK, Works
<1>8. ProcessStep({t})
  BY <1>1, <1>2, <1>4, <1>6, <1>7, InvParts, OneMoves
<1>9. SameBindings(bindings')
  BY <1>2, InvParts, LockKeeps
<1>10. BindingsStep /\ BoundOK'
  BY <1>2, <1>9, InvParts, BindingsKept
<1>11. WireStep({t})
  <2>1. \A q \in wire : q.from /= t
    BY <1>1, <1>2, InvParts, Quiet
  <2> QED BY <1>2, <2>1 DEF WireStep
<1>12. CountersStep
  <2>1. used' \in [calls : Nat, renewals : Nat, faults : Nat]
    BY <1>2, <1>3
  <2> QED BY <1>2, <1>10, <2>1, InvParts DEF CountersStep, RowsOK, Journalled
<1>13. Grown /\ checkpoints' = checkpoints
  BY <1>2, InvParts, StoreStays
<1> QED BY <1>2, <1>8, <1>10, <1>11, <1>12, <1>13 DEF BridgeStep

LEMMA RenewalGrantedStep ==
    ASSUME BridgeInv, NEW t \in Tasks, RenewalGranted(t)
    PROVE  BridgeStep({t})
<1> DEFINE b == proc[t].b
           reply == inbox[t]
           os == Unlock(bindings, t)
           row == [proc[t] EXCEPT !.pc = "sleep", !.key = None]
<1>0. t \in Processes
  BY CallerOrTask
<1>1. /\ proc[t].op = "renew" /\ proc[t].pc = "wait" /\ reply /= None /\ reply.ok
      /\ bindings' = [os EXCEPT ![b].lv = reply.lv]
      /\ proc' = [proc EXCEPT ![t] = row] /\ inbox' = [inbox EXCEPT ![t] = None]
      /\ UNCHANGED vars /\ UNCHANGED <<bound, wire, stored, used, acked>>
  BY DEF RenewalGranted, Waiting
<1>2. b \in DOMAIN bindings /\ bindings[b].task = proc[t].task
  BY <1>0, <1>1, InvParts, Reader
<1>3. reply \in ReplyRow /\ reply.lv \in Nat /\ reply.lease = bindings[b].lease
  BY <1>0, <1>1, InvParts, AnswerRow DEF Exchanges, AnswerOK
<1>4. SameBindings(os)
  BY InvParts, LockKeeps
<1>5. /\ row \in ProcessRow /\ row.pc = "sleep" /\ row.op = proc[t].op
      /\ row.task = proc[t].task /\ row.b = b
  <2>1. proc[t] \in ProcessRow
    BY <1>0, InvParts, ProcessRows
  <2> QED BY <2>1 DEF ProcessRow, AnyKey
<1> HIDE DEF os, b, row
<1>6. /\ DOMAIN bindings' = DOMAIN bindings /\ Len(bindings) \in Nat
      /\ DOMAIN bindings = 1..Len(bindings)
      /\ \A i \in DOMAIN bindings : i /= b => bindings'[i] = os[i]
      /\ bindings'[b] = [os[b] EXCEPT !.lv = reply.lv]
      /\ os[b] \in BindingRow
  BY <1>1, <1>2, <1>4, InvParts, BindingRows DEF SameBindings
<1>7. /\ bindings'[b] \in BindingRow /\ bindings'[b].task = bindings[b].task
      /\ bindings'[b].lease = bindings[b].lease
      /\ bindings'[b].tv = bindings[b].tv /\ bindings'[b].lv = reply.lv
  BY <1>2, <1>3, <1>4, <1>6 DEF BindingRow, SameBindings
<1>8. bindings' \in Seq(BindingRow)
  <2>1. \A i \in 1..Len(bindings) : bindings'[i] \in BindingRow
    BY <1>4, <1>6, <1>7 DEF SameBindings
  <2>2. bindings' \in [1..Len(bindings) -> BindingRow]
    <3>1. bindings' = [i \in 1..Len(bindings) |-> bindings'[i]]
      BY <1>1, <1>4, <1>6 DEF SameBindings
    <3> QED BY <2>1, <3>1
  <2> QED BY <1>6, <2>2, SeqDef
<1>9. Learned(b)
  BY <1>0, <1>1, <1>2, <1>3, <1>7 DEF Learned
<1>10. \A i \in DOMAIN bindings : i /= b => SameVersions(i)
  BY <1>4, <1>6 DEF SameBindings, SameVersions
<1>11. \A i \in DOMAIN bindings : /\ i \in DOMAIN bindings'
                                  /\ bindings'[i].task = bindings[i].task
                                  /\ bindings'[i].lease = bindings[i].lease
  BY <1>6, <1>7, <1>10 DEF SameVersions
<1>12. BindingsStep
  BY <1>6, <1>8, <1>9, <1>10, <1>11 DEF BindingsStep
<1>13. BoundOK'
  BY <1>1, <1>11, InvParts DEF BoundOK
<1>14. proc'[t] = row
  BY <1>0, <1>1, InvParts DEF RowsOK
<1>15. ProcessOK(t)'
  BY <1>1, <1>2, <1>5, <1>11, <1>14 DEF ProcessOK, Works, Operations
<1>16. ProcessStep({t})
  BY <1>0, <1>1, <1>5, <1>15, InvParts, OneMoves
<1>17. WireStep({t})
  <2>1. \A q \in wire : q.from /= t
    BY <1>0, <1>1, InvParts, Quiet
  <2> QED BY <1>1, <2>1 DEF WireStep
<1>18. CountersStep
  BY <1>1, <1>13, InvParts, CountersKeep
<1>19. Grown /\ checkpoints' = checkpoints
  BY <1>1, InvParts, StoreStays
<1> QED BY <1>1, <1>12, <1>16, <1>17, <1>18, <1>19 DEF BridgeStep

LEMMA RestartStep ==
    ASSUME BridgeInv, Restart
    PROVE  BridgeStep(Processes)
<1>1. /\ Fault /\ bindings' = [i \in DOMAIN bindings |-> [bindings[i] EXCEPT !.holder = None]]
      /\ bound' = [t \in Tasks |-> 0]
      /\ proc' = [p \in Processes |-> Idle] /\ inbox' = [p \in Processes |-> None]
      /\ wire' = {[r EXCEPT !.from = None] : r \in wire}
      /\ UNCHANGED vars /\ UNCHANGED <<stored, acked>>
  BY DEF Restart
<1>2. SameBindings(bindings')
  BY <1>1, InvParts, LockKeeps
<1>3. BindingsStep
  BY <1>2, BindingsKept
<1>4. bound' \in [Tasks -> Nat] /\ BoundOK'
  BY <1>1 DEF BoundOK
<1>5. ProcessStep(Processes)
  BY <1>1, InvParts, ProcessRows DEF ProcessStep
<1>6. WireStep(Processes)
  <2>1. \A q \in wire : /\ [q EXCEPT !.from = None] \in RequestRow
                        /\ [q EXCEPT !.from = None].from = None
                        /\ [q EXCEPT !.from = None].op = q.op
                        /\ [q EXCEPT !.from = None].body = q.body
    <3>1. wire \subseteq RequestRow
      BY InvParts DEF RowsOK
    <3> QED BY <3>1 DEF RequestRow
  <2> QED BY <1>1, <2>1, NobodyWaits DEF WireStep
<1>7. CountersStep
  BY <1>1, <1>4, InvParts, CountersKeep
<1>8. Grown /\ checkpoints' = checkpoints
  BY <1>1, InvParts, StoreStays
<1> QED BY <1>1, <1>3, <1>5, <1>6, <1>7, <1>8 DEF BridgeStep

LEMMA StoreMovesStep ==
    ASSUME BridgeInv, OtherClaims \/ TimePasses
    PROVE  BridgeStep({})
<1>1. UNCHANGED bridgeVars
  BY DEF OtherClaims, TimePasses
<1>2. UNCHANGED <<bindings, bound, proc, wire, inbox, stored, used, acked>>
  BY <1>1 DEF bridgeVars
<1>3. Grown /\ checkpoints' = checkpoints
  <2>1. CASE OtherClaims
    <3>1. PICK a \in Agents \ {Me}, t \in Tasks, l \in Leases, s \in LeaseSeconds,
               at \in Readings : ClaimTask(a, t, l, s, None, at)
      BY <2>1 DEF OtherClaims
    <3>2. s \in Nat
      BY BoundAssumption
    <3> QED BY <3>1, <3>2, InvParts, ClaimGrows
  <2>2. CASE TimePasses
    BY <2>2, InvParts, VersionsAreNumbers DEF TimePasses, Tick, Grown, StoreOK
  <2> QED BY <2>1, <2>2
<1>4. SameBindings(bindings')
  BY <1>2, InvParts, LockKeeps
<1>5. BindingsStep /\ BoundOK'
  BY <1>2, <1>4, InvParts, BindingsKept
<1>6. ProcessStep({}) /\ WireStep({})
  BY <1>2, InvParts DEF ProcessStep, WireStep, RowsOK
<1>7. CountersStep
  BY <1>2, <1>5, InvParts, CountersKeep
<1> QED BY <1>2, <1>3, <1>5, <1>6, <1>7 DEF BridgeStep

-----------------------------------------------------------------------------
(* The store serves a request.                                             *)

Fits(r, reply) ==
    /\ reply \in ReplyRow
    /\ reply.tv <= tasks'[r.task].version
    /\ reply.lv <= leases'[reply.lease].version
    /\ r.op /= "claim" => reply.lease = r.body.lease

LEMMA AnswerStep ==
    ASSUME StoreOK, RowsOK, Exchanges, NeverAhead, Grown, NEW r \in wire, NEW reply,
           Answer(r, reply), reply = Refused \/ Fits(r, reply)
    PROVE  /\ Exchanges' /\ NeverAhead' /\ wire' \subseteq wire
           /\ inbox' \in [Processes -> ReplyRow \cup {Refused, None}]
           /\ \A p \in Processes : inbox'[p] = inbox[p] \/ (p = r.from /\ inbox'[p] = reply)
<1>1. /\ wire' = wire \ {r}
      /\ inbox' = IF r.from = None THEN inbox ELSE [inbox EXCEPT ![r.from] = reply]
      /\ UNCHANGED <<bindings, bound, proc, used, acked>>
  BY DEF Answer
<1>2. r \in RequestRow /\ RequestOK(r) /\ inbox \in [Processes -> ReplyRow \cup {Refused, None}]
  BY DEF RowsOK, Exchanges
<1>3. r.from \in Processes \cup {None}
  BY <1>2 DEF RequestRow
<1>4. reply \in ReplyRow \cup {Refused, None}
  BY DEF Fits
<1>5. /\ inbox' \in [Processes -> ReplyRow \cup {Refused, None}]
      /\ \A p \in Processes : p /= r.from => inbox'[p] = inbox[p]
      /\ r.from /= None => inbox'[r.from] = reply
  BY <1>1, <1>2, <1>3, <1>4
<1>6. ASSUME NEW p \in Processes PROVE ProcessOK(p)'
  BY <1>1 DEF Exchanges, ProcessOK, Works
<1>7. ASSUME NEW p \in Processes PROVE AnswerOK(p)'
  <2>1. CASE p = r.from
    <3>1. p /= None
      BY NobodyWaits
    <3>2. /\ inbox'[p] = reply /\ proc'[p].pc = "wait" /\ proc'[p].op = r.op /\ proc'[p].task = r.task
          /\ r.op /= "claim" => r.body.lease = bindings'[proc'[p].b].lease
      BY <1>1, <1>2, <1>5, <2>1, <3>1 DEF RequestOK
    <3>3. reply.ok => Fits(r, reply)
      BY DEF Refused
    <3> QED BY <3>2, <3>3 DEF AnswerOK, Fits
  <2>2. CASE p /= r.from /\ inbox[p] /= None
    <3>1. inbox'[p] = inbox[p] /\ AnswerOK(p) /\ proc[p].pc = "wait"
      BY <1>5, <2>2 DEF Exchanges, AnswerOK
    <3>2. proc[p].task \in Tasks
      BY <3>1, Reader
    <3>3. ASSUME inbox[p].ok
          PROVE  /\ inbox[p].tv <= tasks'[proc[p].task].version
                 /\ inbox[p].lv <= leases'[inbox[p].lease].version
                 /\ proc[p].op /= "claim" => inbox[p].lease = bindings[proc[p].b].lease
      <4>1. inbox[p].lease \in Leases /\ inbox[p].tv \in Nat /\ inbox[p].lv \in Nat
        BY <2>2, <3>3, AnswerRow
      <4>2. /\ inbox[p].tv <= tasks[proc[p].task].version
            /\ inbox[p].lv <= leases[inbox[p].lease].version
            /\ proc[p].op /= "claim" => inbox[p].lease = bindings[proc[p].b].lease
        BY <2>2, <3>1, <3>3 DEF AnswerOK
      <4> QED BY <3>2, <4>1, <4>2, Behind
    <3> QED BY <1>1, <3>1, <3>3 DEF AnswerOK
  <2>3. CASE p /= r.from /\ inbox[p] = None
    BY <1>5, <2>3 DEF AnswerOK
  <2> QED BY <2>1, <2>2, <2>3
<1>8. ASSUME NEW q \in wire' PROVE RequestOK(q)'
  <2>1. q \in wire /\ q /= r /\ RequestOK(q) /\ q \in RequestRow
    BY <1>1 DEF Exchanges, RowsOK
  <2>2. q.op /= "claim" => q.body.lv <= leases'[q.body.lease].version
    BY <2>1, Behind DEF RequestOK
  <2>3. q.from /= None => q.from \in Processes /\ q.from /= r.from
    BY <2>1 DEF Exchanges, RequestRow
  <2>4. q.from /= None => inbox'[q.from] = inbox[q.from]
    BY <1>5, <2>3
  <2> QED BY <1>1, <2>1, <2>2, <2>4 DEF RequestOK
<1>9. BoundOK' /\ \A q, s \in wire' : q.from = s.from /\ q.from /= None => q = s
  BY <1>1 DEF Exchanges, BoundOK
<1>10. Exchanges'
  BY <1>6, <1>7, <1>8, <1>9 DEF Exchanges
<1>11. NeverAhead'
  <2>1. \A i \in DOMAIN bindings : /\ bindings[i].task \in Tasks /\ bindings[i].lease \in Leases
                                   /\ bindings[i].tv \in Nat /\ bindings[i].lv \in Nat
    <3>1. \A i \in DOMAIN bindings : bindings[i] \in BindingRow
      BY BindingRows
    <3> QED BY <3>1 DEF BindingRow
  <2>2. \A i \in DOMAIN bindings : /\ bindings[i].tv <= tasks'[bindings[i].task].version
                                   /\ bindings[i].lv <= leases'[bindings[i].lease].version
    BY <2>1, Behind DEF NeverAhead
  <2> QED BY <1>1, <2>2 DEF NeverAhead
<1> QED BY <1>1, <1>3, <1>5, <1>10, <1>11

\* A key seen before, or a refusal: the store remembers nothing new.
LEMMA OldAnswerStep ==
    ASSUME BridgeInv, NEW r \in wire, NEW reply, Answer(r, reply),
           UNCHANGED vars, stored' = stored,
           reply = Refused \/ \E f \in Known(r) : f.body = <<r.task, r.body>> /\ reply = f.reply
    PROVE  BridgeInv'
<1>1. Grown /\ checkpoints' = checkpoints
  BY InvParts, StoreStays
<1>2. reply = Refused \/ Fits(r, reply)
  <2> SUFFICES ASSUME NEW f \in stored, f.op = r.op, f.body = <<r.task, r.body>>, reply = f.reply
               PROVE  Fits(r, reply)
    BY DEF Known
  <2>1. f.reply \in ReplyRow
    BY InvParts DEF RowsOK, StoredRow
  <2>2. /\ f.reply.tv <= tasks'[f.body[1]].version
        /\ f.reply.lv <= leases'[f.reply.lease].version
    BY <1>1, InvParts, StoredStays
  <2>3. f.op /= "claim" => f.reply.lease = f.body[2].lease
    BY InvParts DEF Remembered
  <2> QED BY <2>1, <2>2, <2>3 DEF Fits
<1>3. /\ Exchanges' /\ NeverAhead' /\ wire' \subseteq wire
      /\ inbox' \in [Processes -> ReplyRow \cup {Refused, None}]
      /\ \A p \in Processes : inbox'[p] = inbox[p] \/ (p = r.from /\ inbox'[p] = reply)
  BY <1>1, <1>2, InvParts, AnswerStep
<1>4. UNCHANGED <<bindings, bound, proc, used, acked>>
  BY DEF Answer
<1>5. RowsOK'
  BY <1>3, <1>4, InvParts DEF RowsOK
<1>6. Remembered'
  BY <1>1, InvParts, StoredStays DEF Remembered
<1>7. Journalled'
  <2>1. \A l \in Leases : /\ CheckpointsUnder(l)' = CheckpointsUnder(l)
                          /\ CheckpointKeys(l)' = CheckpointKeys(l)
    BY <1>1 DEF CheckpointsUnder, CheckpointKeys
  <2> QED BY <1>4, <2>1, InvParts DEF Journalled
<1>8. LastUnconfirmed'
  <2> SUFFICES ASSUME NEW e \in stored, NEW l \in Leases, Unconfirmed(e, l)
               PROVE  /\ \A i \in DOMAIN bindings : bindings[i].lease = l => bindings[i].lv < e.reply.lv
                      /\ \A q \in wire : q.op /= "claim" /\ q.body.lease = l => q.body.lv < e.reply.lv
                      /\ \A f \in stored : f.reply.lease = l /\ f /= e => f.reply.lv < e.reply.lv
                      /\ \A p \in Processes :
                            inbox'[p] /= None /\ inbox'[p].ok /\ inbox'[p].lease = l =>
                                \/ inbox'[p].lv < e.reply.lv
                                \/ proc[p].op = "checkpoint" /\ proc[p].key = e.key
    BY <1>3, <1>4 DEF LastUnconfirmed, Unconfirmed
  <2>1. /\ \A i \in DOMAIN bindings : bindings[i].lease = l => bindings[i].lv < e.reply.lv
        /\ \A q \in wire : q.op /= "claim" /\ q.body.lease = l => q.body.lv < e.reply.lv
        /\ \A f \in stored : f.reply.lease = l /\ f /= e => f.reply.lv < e.reply.lv
        /\ \A p \in Processes :
              inbox[p] /= None /\ inbox[p].ok /\ inbox[p].lease = l =>
                  \/ inbox[p].lv < e.reply.lv
                  \/ proc[p].op = "checkpoint" /\ proc[p].key = e.key
    BY InvParts DEF LastUnconfirmed
  <2>2. ASSUME NEW p \in Processes, p = r.from, inbox'[p] = reply, reply.ok, reply.lease = l
        PROVE  \/ reply.lv < e.reply.lv
               \/ proc[p].op = "checkpoint" /\ proc[p].key = e.key
    <3>1. PICK f \in stored : f.op = r.op /\ f.key = r.key /\ reply = f.reply
      BY <2>2 DEF Refused, Known
    <3>2. CASE f = e
      <4>1. proc[p].op = r.op /\ proc[p].key = r.key
        BY <2>2, NobodyWaits, InvParts DEF Exchanges, RequestOK
      <4>2. e.op = "checkpoint"
        BY DEF Unconfirmed
      <4> QED BY <3>1, <3>2, <4>1, <4>2
    <3>3. CASE f /= e
      BY <2>1, <2>2, <3>1, <3>3
    <3> QED BY <3>2, <3>3
  <2> QED BY <1>3, <2>1, <2>2
<1> QED BY <1>1, <1>3, <1>5, <1>6, <1>7, <1>8 DEF BridgeInv, Grown

\* A command done for the first time: its response is new, and newer than whatever was said
\* of its lease before.
Granting(r, reply) ==
    /\ Grown /\ Answer(r, reply) /\ Record(r, reply) /\ Known(r) = {}
    /\ Fits(r, reply)
    /\ reply.lv = leases[reply.lease].version + 1
    /\ r.op = "claim" => leases[reply.lease].version = 0
    /\ r.op /= "claim" => r.body.lv = leases[reply.lease].version
    /\ checkpoints' =
          IF r.op = "checkpoint"
          THEN [checkpoints EXCEPT ![r.task] = Append(@, [lease |-> reply.lease, agent |-> Me])]
          ELSE checkpoints

LEMMA ServeClaimGrants ==
    ASSUME BridgeInv, NEW r \in wire, NEW l \in Leases, NEW at \in Readings, ServeClaim(r, l, at)
    PROVE  \E reply : Granting(r, reply)
<1> DEFINE reply == Granted(l, tasks'[r.task].version, 1, r.body.seconds)
<1>1. /\ r.op = "claim" /\ Known(r) = {}
      /\ ClaimTask(Me, r.task, l, r.body.seconds, None, at)
      /\ Answer(r, reply) /\ Record(r, reply)
  BY DEF ServeClaim
<1>2. r \in RequestRow /\ RequestOK(r)
  BY InvParts DEF RowsOK, Exchanges
<1>3. r.task \in Tasks /\ r.body.seconds \in Nat /\ Me \in Agents
  BY <1>1, <1>2, BridgeAssumption DEF RequestRow, RequestOK
<1>4. Grown /\ leases[l].version = 0 /\ leases'[l].version = 1 /\ checkpoints' = checkpoints
  BY <1>1, <1>3, InvParts, ClaimGrows
<1>5. tasks'[r.task].version \in Nat
  BY <1>3, <1>4 DEF Grown, StoreOK, TaskRow
<1>6. Fits(r, reply) /\ reply.lease = l /\ reply.lv = 1
  BY <1>1, <1>3, <1>4, <1>5 DEF Fits, Granted, ReplyRow
<1> HIDE DEF reply
<1>7. Granting(r, reply)
  BY <1>1, <1>4, <1>6 DEF Granting
<1> QED BY <1>7

LEMMA ServeRenewGrants ==
    ASSUME BridgeInv, NEW r \in wire, NEW at \in Readings, ServeRenew(r, at)
    PROVE  \E reply : Granting(r, reply)
<1> DEFINE l == r.body.lease
           reply == Granted(r.body.lease, 0, r.body.lv + 1, r.body.seconds)
<1>1. /\ r.op = "renew" /\ Known(r) = {}
      /\ RenewLease(Me, r.body.lease, r.body.lv, r.body.seconds, at)
      /\ Answer(r, reply) /\ Record(r, reply)
  BY DEF ServeRenew
<1>2. r \in RequestRow /\ RequestOK(r)
  BY InvParts DEF RowsOK, Exchanges
<1>3. r.task \in Tasks /\ r.body.seconds \in Nat /\ Me \in Agents /\ l \in Leases /\ r.body.lv \in Nat
  BY <1>1, <1>2, BridgeAssumption DEF RequestRow, RequestOK
<1>4. /\ Grown /\ leases[l].version = r.body.lv /\ leases'[l].version = r.body.lv + 1
      /\ checkpoints' = checkpoints
  <2>1. \A s \in Nat : RenewLease(Me, l, r.body.lv, s, at) =>
           /\ Grown /\ leases[l].version = r.body.lv /\ leases'[l].version = r.body.lv + 1
           /\ checkpoints' = checkpoints
    BY <1>3, InvParts, WorkGrows, Zenon
  <2> QED BY <1>1, <1>3, <2>1
<1>5. tasks'[r.task].version \in Nat
  BY <1>3, <1>4 DEF Grown, StoreOK, TaskRow
<1>6. Fits(r, reply) /\ reply.lease = l /\ reply.lv = r.body.lv + 1
  BY <1>1, <1>3, <1>4, <1>5 DEF Fits, Granted, ReplyRow
<1> HIDE DEF reply
<1>7. Granting(r, reply)
  BY <1>1, <1>4, <1>6 DEF Granting
<1> QED BY <1>7

LEMMA ServeBoundGrants ==
    ASSUME BridgeInv, NEW r \in wire, NEW at \in Readings, ServeBound(r, at)
    PROVE  \E reply : Granting(r, reply)
<1> DEFINE l == r.body.lease
           reply == Granted(r.body.lease, tasks'[r.task].version, leases'[r.body.lease].version, 0)
<1>1. /\ Known(r) = {} /\ Answer(r, reply) /\ Record(r, reply)
      /\ \/ /\ r.op = "checkpoint"
            /\ CheckpointTask(Me, r.task, r.body.lease, r.body.tv, r.body.lv, at)
         \/ /\ r.op = "complete"
            /\ CompleteTask(Me, r.task, r.body.lease, r.body.tv, r.body.lv, "succeeded", at)
  BY DEF ServeBound
<1>2. r \in RequestRow /\ RequestOK(r)
  BY InvParts DEF RowsOK, Exchanges
<1>3. /\ r.task \in Tasks /\ Me \in Agents /\ l \in Leases /\ r.body.lv \in Nat
      /\ "succeeded" \in Outcomes
  BY <1>1, <1>2, BridgeAssumption DEF RequestRow, RequestOK, Outcomes
<1>4. /\ Grown /\ leases[l].version = r.body.lv /\ leases'[l].version = r.body.lv + 1
      /\ checkpoints' = IF r.op = "checkpoint"
                        THEN [checkpoints EXCEPT ![r.task] = Append(@, [lease |-> l, agent |-> Me])]
                        ELSE checkpoints
  <2>1. CheckpointTask(Me, r.task, l, r.body.tv, r.body.lv, at) =>
           /\ Grown /\ leases[l].version = r.body.lv /\ leases'[l].version = r.body.lv + 1
           /\ checkpoints' = [checkpoints EXCEPT ![r.task] = Append(@, [lease |-> l, agent |-> Me])]
    BY <1>3, InvParts, WorkGrows, Zenon
  <2>2. \A o \in Outcomes : CompleteTask(Me, r.task, l, r.body.tv, r.body.lv, o, at) =>
           /\ Grown /\ leases[l].version = r.body.lv /\ leases'[l].version = r.body.lv + 1
           /\ checkpoints' = checkpoints
    BY <1>3, InvParts, WorkGrows, Zenon
  <2> QED BY <1>1, <1>3, <2>1, <2>2
<1>5. tasks'[r.task].version \in Nat
  BY <1>3, <1>4 DEF Grown, StoreOK, TaskRow
<1>6. Fits(r, reply) /\ reply.lease = l /\ reply.lv = r.body.lv + 1
  <2>1. leases'[l].version \in Nat /\ leases'[l].version = r.body.lv + 1
    BY <1>3, <1>4
  <2>2. reply \in ReplyRow
    BY <1>3, <1>5, <2>1 DEF Granted, ReplyRow
  <2>3. /\ reply.lease = l /\ reply.tv = tasks'[r.task].version
        /\ reply.lv = leases'[l].version
    BY DEF Granted
  <2> HIDE DEF reply
  <2> QED BY <1>5, <2>1, <2>2, <2>3 DEF Fits
<1> HIDE DEF reply
<1>7. Granting(r, reply)
  BY <1>1, <1>4, <1>6 DEF Granting
<1> QED BY <1>7

\* One more checkpoint of a lease is one more key.
LEMMA JournalStep ==
    ASSUME BridgeInv, NEW r \in wire, NEW reply, Granting(r, reply)
    PROVE  Journalled'
<1> DEFINE new == [op |-> r.op, key |-> r.key, body |-> <<r.task, r.body>>, reply |-> reply]
           ofLease(s, l) == {f \in s : f.op = "checkpoint" /\ f.reply.lease = l}
<1>1. /\ stored' = stored \cup {new} /\ acked' = acked /\ Known(r) = {}
      /\ reply \in ReplyRow /\ reply.lease \in Leases
  BY DEF Granting, Record, Answer, Fits, ReplyRow
<1>2. new.op = r.op /\ new.key = r.key /\ new.reply = reply
  OBVIOUS
<1>3. \A l \in Leases :
          /\ IsFiniteSet(CheckpointsUnder(l)) /\ IsFiniteSet(CheckpointKeys(l)) /\ IsFiniteSet(acked[l])
          /\ Cardinality(CheckpointsUnder(l)) <= Cardinality(CheckpointKeys(l))
  BY InvParts DEF Journalled
<1> SUFFICES ASSUME NEW l \in Leases
             PROVE  /\ IsFiniteSet(CheckpointsUnder(l)') /\ IsFiniteSet(CheckpointKeys(l)')
                    /\ Cardinality(CheckpointsUnder(l)') <= Cardinality(CheckpointKeys(l)')
  BY <1>1, <1>3 DEF Journalled
<1> HIDE DEF new
<1>4. CASE r.op /= "checkpoint" \/ reply.lease /= l
  <2>1. CheckpointKeys(l)' = CheckpointKeys(l)
    BY <1>1, <1>2, <1>4 DEF CheckpointKeys
  <2>2. CheckpointsUnder(l)' = CheckpointsUnder(l)
    <3>1. CASE r.op /= "checkpoint"
      BY <3>1 DEF Granting, CheckpointsUnder
    <3>2. CASE r.op = "checkpoint" /\ reply.lease /= l
      <4>1. checkpoints \in [Tasks -> Seq(CheckpointRow)]
        BY InvParts DEF StoreOK
      <4>2. checkpoints' = [checkpoints EXCEPT ![r.task] =
                               Append(@, [lease |-> reply.lease, agent |-> Me])]
        BY <3>2 DEF Granting
      <4>3. ASSUME NEW x \in Tasks \X (1..MaxCalls)
            PROVE  x[2] \in DOMAIN checkpoints'[x[1]] /\ checkpoints'[x[1]][x[2]].lease = l
                   <=> x[2] \in DOMAIN checkpoints[x[1]] /\ checkpoints[x[1]][x[2]].lease = l
        <5>1. x[1] \in Tasks /\ checkpoints[x[1]] \in Seq(CheckpointRow)
          BY <4>1
        <5>2. CASE x[1] /= r.task
          BY <4>1, <4>2, <5>1, <5>2
        <5>3. CASE x[1] = r.task
          <6> DEFINE s == checkpoints[x[1]]
                     row == [lease |-> reply.lease, agent |-> Me]
          <6>1. checkpoints'[x[1]] = Append(s, row) /\ row.lease = reply.lease
            BY <4>1, <4>2, <5>1, <5>3
          <6>2. Len(s) \in Nat /\ DOMAIN s = 1..Len(s)
            BY <5>1
          <6> HIDE DEF s, row
          <6>3. /\ DOMAIN Append(s, row) = 1..(Len(s) + 1)
                /\ \A i \in 1..Len(s) : Append(s, row)[i] = s[i]
                /\ Append(s, row)[Len(s) + 1] = row
            BY <5>1 DEF s
          <6>4. x[2] \in DOMAIN Append(s, row) /\ Append(s, row)[x[2]].lease = l
                <=> x[2] \in DOMAIN s /\ s[x[2]].lease = l
            BY <3>2, <6>1, <6>2, <6>3
          <6> QED BY <6>1, <6>4 DEF s
        <5> QED BY <5>2, <5>3
      <4> QED BY <4>3 DEF CheckpointsUnder
    <3> QED BY <1>4, <3>1, <3>2
  <2> QED BY <1>3, <2>1, <2>2
<1>5. CASE r.op = "checkpoint" /\ reply.lease = l
  <2> DEFINE n == Len(checkpoints[r.task]) + 1
  <2>1. CheckpointKeys(l)' = CheckpointKeys(l) \cup {r.key}
    BY <1>1, <1>2, <1>5 DEF CheckpointKeys
  <2>2. r.key \notin CheckpointKeys(l)
    BY <1>1, <1>5 DEF CheckpointKeys, Known
  <2>3. CheckpointsUnder(l)' \subseteq CheckpointsUnder(l) \cup {<<r.task, n>>}
    <3>1. checkpoints \in [Tasks -> Seq(CheckpointRow)]
      BY InvParts DEF StoreOK
    <3>2. checkpoints' = [checkpoints EXCEPT ![r.task] =
                             Append(@, [lease |-> reply.lease, agent |-> Me])]
      BY <1>5 DEF Granting
    <3>3. ASSUME NEW x \in Tasks \X (1..MaxCalls), x /= <<r.task, n>>,
                 x[2] \in DOMAIN checkpoints'[x[1]], checkpoints'[x[1]][x[2]].lease = l
          PROVE  x[2] \in DOMAIN checkpoints[x[1]] /\ checkpoints[x[1]][x[2]].lease = l
      <4>1. x[1] \in Tasks /\ checkpoints[x[1]] \in Seq(CheckpointRow)
        BY <3>1
      <4>2. CASE x[1] /= r.task
        BY <3>1, <3>2, <3>3, <4>1, <4>2
      <4>3. CASE x[1] = r.task
        <5> DEFINE s == checkpoints[r.task]
                   row == [lease |-> reply.lease, agent |-> Me]
        <5>1. checkpoints'[x[1]] = Append(s, row)
          BY <3>1, <3>2, <4>1, <4>3
        <5>2. x[2] /= Len(s) + 1
          BY <3>3, <4>3
        <5>3. Len(s) \in Nat /\ DOMAIN s = 1..Len(s) /\ s \in Seq(CheckpointRow)
          BY <4>1, <4>3
        <5> HIDE DEF s, row
        <5>4. /\ DOMAIN Append(s, row) = 1..(Len(s) + 1)
              /\ \A i \in 1..Len(s) : Append(s, row)[i] = s[i]
          BY <5>3
        <5>5. x[2] \in DOMAIN s /\ s[x[2]].lease = l
          BY <3>3, <5>1, <5>2, <5>3, <5>4
        <5> QED BY <4>3, <5>5 DEF s
      <4> QED BY <4>2, <4>3
    <3> QED BY <3>3 DEF CheckpointsUnder
  <2> HIDE DEF n
  <2> DEFINE U == CheckpointsUnder(l)
             V == CheckpointsUnder(l)'
             K == CheckpointKeys(l)
  <2>4. IsFiniteSet(U) /\ IsFiniteSet(K) /\ Cardinality(U) <= Cardinality(K)
    BY <1>3
  <2>5. V \subseteq U \cup {<<r.task, n>>} /\ r.key \notin K
    BY <2>2, <2>3
  <2> HIDE DEF U, V, K
  <2>6. /\ IsFiniteSet(U \cup {<<r.task, n>>})
        /\ Cardinality(U \cup {<<r.task, n>>}) <= Cardinality(U) + 1
    <3>1. Cardinality(U) \in Nat
      BY <2>4, FS_CardinalityType
    <3>2. /\ IsFiniteSet(U \cup {<<r.task, n>>})
          /\ Cardinality(U \cup {<<r.task, n>>}) =
                IF <<r.task, n>> \in U THEN Cardinality(U) ELSE Cardinality(U) + 1
      BY <2>4, FS_AddElement
    <3> QED BY <3>1, <3>2
  <2>7. IsFiniteSet(V) /\ Cardinality(V) <= Cardinality(U \cup {<<r.task, n>>})
    BY <2>5, <2>6, FS_Subset
  <2>8. IsFiniteSet(K \cup {r.key}) /\ Cardinality(K \cup {r.key}) = Cardinality(K) + 1
    BY <2>4, <2>5, FS_AddElement
  <2>9. Cardinality(U) \in Nat /\ Cardinality(V) \in Nat /\ Cardinality(K) \in Nat
        /\ Cardinality(U \cup {<<r.task, n>>}) \in Nat
    BY <2>4, <2>6, <2>7, FS_CardinalityType
  <2>10. Cardinality(V) <= Cardinality(K \cup {r.key})
    BY <2>4, <2>6, <2>7, <2>8, <2>9
  <2> QED BY <2>1, <2>7, <2>8, <2>10 DEF K, V
<1> QED BY <1>4, <1>5

LEMMA GrantingStep ==
    ASSUME BridgeInv, NEW r \in wire, NEW reply, Granting(r, reply)
    PROVE  BridgeInv'
<1> DEFINE new == [op |-> r.op, key |-> r.key, body |-> <<r.task, r.body>>, reply |-> reply]
           l0 == reply.lease
<1>1. /\ Grown /\ Answer(r, reply) /\ stored' = stored \cup {new} /\ Known(r) = {}
      /\ Fits(r, reply) /\ reply \in ReplyRow
      /\ reply.lv = leases[l0].version + 1
      /\ r.op = "claim" => leases[l0].version = 0
      /\ r.op /= "claim" => r.body.lv = leases[l0].version /\ l0 = r.body.lease
  BY DEF Granting, Record, Fits
<1>2. /\ r \in RequestRow /\ l0 \in Leases /\ reply.lv \in Nat /\ reply.tv \in Nat
      /\ leases[l0].version \in Nat /\ r.task \in Tasks
  <2>1. r \in RequestRow
    BY InvParts DEF RowsOK
  <2> QED BY <1>1, <2>1, InvParts, VersionsAreNumbers DEF ReplyRow, RequestRow
<1>3. /\ Exchanges' /\ NeverAhead' /\ wire' \subseteq wire
      /\ inbox' \in [Processes -> ReplyRow \cup {Refused, None}]
      /\ \A p \in Processes : inbox'[p] = inbox[p] \/ (p = r.from /\ inbox'[p] = reply)
  BY <1>1, InvParts, AnswerStep
<1>4. UNCHANGED <<bindings, bound, proc, used, acked>>
  BY <1>1 DEF Answer
<1>5. /\ new \in StoredRow /\ new.op = r.op /\ new.key = r.key /\ new.reply = reply
      /\ new.body[1] = r.task /\ new.body[2] = r.body
  BY <1>1, <1>2 DEF StoredRow, RequestRow
<1> HIDE DEF new
<1>6. RowsOK'
  BY <1>1, <1>3, <1>4, <1>5, InvParts DEF RowsOK
<1>7. Remembered'
  <2>1. \A e \in stored' : /\ e.op /= "claim" => e.reply.lease = e.body[2].lease
                           /\ e.reply.tv <= tasks'[e.body[1]].version
                           /\ 0 < e.reply.lv /\ e.reply.lv <= leases'[e.reply.lease].version
    <3>1. /\ new.op /= "claim" => new.reply.lease = new.body[2].lease
          /\ new.reply.tv <= tasks'[new.body[1]].version
          /\ 0 < new.reply.lv /\ new.reply.lv <= leases'[new.reply.lease].version
      BY <1>1, <1>2, <1>5 DEF Fits
    <3>2. \A e \in stored : /\ e.op /= "claim" => e.reply.lease = e.body[2].lease
                            /\ e.reply.tv <= tasks'[e.body[1]].version
                            /\ 0 < e.reply.lv /\ e.reply.lv <= leases'[e.reply.lease].version
      <4>1. \A e \in stored : e.op /= "claim" => e.reply.lease = e.body[2].lease
        BY InvParts DEF Remembered
      <4> QED BY <1>1, <4>1, InvParts, StoredStays
    <3> QED BY <1>1, <3>1, <3>2
  <2>2. \A e, f \in stored' : e.op = f.op /\ e.key = f.key => e = f
    <3>1. \A e \in stored : ~ (e.op = new.op /\ e.key = new.key)
      BY <1>1, <1>5 DEF Known
    <3>2. \A e, f \in stored : e.op = f.op /\ e.key = f.key => e = f
      BY InvParts DEF Remembered
    <3> QED BY <1>1, <3>1, <3>2
  <2> QED BY <2>1, <2>2 DEF Remembered
\* Everything said of the lease so far is older than this response.
<1>8. /\ \A i \in DOMAIN bindings : bindings[i].lease = l0 => bindings[i].lv < reply.lv
      /\ \A q \in wire : q.op /= "claim" /\ q.body.lease = l0 => q.body.lv < reply.lv
      /\ \A f \in stored : f.reply.lease = l0 => f.reply.lv < reply.lv
      /\ \A p \in Processes : inbox[p] /= None /\ inbox[p].ok /\ inbox[p].lease = l0 =>
            inbox[p].lv < reply.lv
  <2>1. ASSUME NEW i \in DOMAIN bindings, bindings[i].lease = l0 PROVE bindings[i].lv < reply.lv
    <3>1. bindings[i] \in BindingRow
      BY InvParts, BindingRows
    <3>2. bindings[i].lv \in Nat /\ bindings[i].lv <= leases[l0].version
      BY <2>1, <3>1, InvParts DEF NeverAhead, BindingRow
    <3> QED BY <1>1, <1>2, <3>2
  <2>2. ASSUME NEW q \in wire, q.op /= "claim", q.body.lease = l0 PROVE q.body.lv < reply.lv
    <3>1. q.body.lv \in Nat /\ q.body.lv <= leases[l0].version
      BY <2>2, InvParts DEF Exchanges, RequestOK
    <3> QED BY <1>1, <1>2, <3>1
  <2>3. ASSUME NEW f \in stored, f.reply.lease = l0 PROVE f.reply.lv < reply.lv
    <3>1. f.reply \in ReplyRow
      BY InvParts DEF RowsOK, StoredRow
    <3>2. f.reply.lv \in Nat /\ f.reply.lv <= leases[l0].version
      BY <2>3, <3>1, InvParts DEF Remembered, ReplyRow
    <3> QED BY <1>1, <1>2, <3>2
  <2>4. ASSUME NEW p \in Processes, inbox[p] /= None, inbox[p].ok, inbox[p].lease = l0
        PROVE  inbox[p].lv < reply.lv
    <3>1. inbox[p].lv \in Nat
      BY <2>4, InvParts, AnswerRow
    <3>2. inbox[p].lv <= leases[l0].version
      BY <2>4, InvParts DEF Exchanges, AnswerOK
    <3> QED BY <1>1, <1>2, <3>1, <3>2
  <2> QED BY <2>1, <2>2, <2>3, <2>4
\* So the store would have refused the request, had a checkpoint been unconfirmed.
<1>9. \A e \in stored : ~ Unconfirmed(e, l0)
  <2> SUFFICES ASSUME NEW e \in stored, Unconfirmed(e, l0) PROVE FALSE
    OBVIOUS
  <2>1. e.reply \in ReplyRow /\ e.reply.lease = l0
    BY InvParts DEF RowsOK, StoredRow, Unconfirmed
  <2>2. e.reply.lv \in Nat /\ 0 < e.reply.lv /\ e.reply.lv <= leases[l0].version
    BY <2>1, InvParts DEF ReplyRow, Remembered
  <2>3. r.op /= "claim"
    BY <1>1, <2>2
  <2>4. r.body.lv < e.reply.lv
    BY <1>1, <1>2, <2>3, InvParts DEF LastUnconfirmed
  <2>5. r.body.lv = leases[l0].version
    BY <1>1, <2>3
  <2> QED BY <1>2, <2>2, <2>4, <2>5
<1>10. LastUnconfirmed'
  <2> SUFFICES ASSUME NEW e \in stored', NEW l \in Leases, Unconfirmed(e, l)'
               PROVE  /\ \A i \in DOMAIN bindings : bindings[i].lease = l => bindings[i].lv < e.reply.lv
                      /\ \A q \in wire : q.op /= "claim" /\ q.body.lease = l => q.body.lv < e.reply.lv
                      /\ \A f \in stored' : f.reply.lease = l /\ f /= e => f.reply.lv < e.reply.lv
                      /\ \A p \in Processes :
                            inbox'[p] /= None /\ inbox'[p].ok /\ inbox'[p].lease = l =>
                                \/ inbox'[p].lv < e.reply.lv
                                \/ proc[p].op = "checkpoint" /\ proc[p].key = e.key
    BY <1>3, <1>4 DEF LastUnconfirmed
  <2>0. e.op = "checkpoint" /\ e.reply.lease = l /\ e.key \notin acked[l]
    BY <1>4 DEF Unconfirmed
  <2>1. CASE e \in stored
    <3>1. Unconfirmed(e, l)
      BY <2>0, <2>1 DEF Unconfirmed
    <3>2. l /= l0
      BY <1>9, <2>1, <3>1
    <3>3. /\ \A i \in DOMAIN bindings : bindings[i].lease = l => bindings[i].lv < e.reply.lv
          /\ \A q \in wire : q.op /= "claim" /\ q.body.lease = l => q.body.lv < e.reply.lv
          /\ \A f \in stored : f.reply.lease = l /\ f /= e => f.reply.lv < e.reply.lv
          /\ \A p \in Processes :
                inbox[p] /= None /\ inbox[p].ok /\ inbox[p].lease = l =>
                    \/ inbox[p].lv < e.reply.lv
                    \/ proc[p].op = "checkpoint" /\ proc[p].key = e.key
      BY <2>1, <3>1, InvParts DEF LastUnconfirmed
    <3> QED BY <1>1, <1>3, <1>5, <3>2, <3>3
  <2>2. CASE e = new
    <3>1. l = l0 /\ e.reply = reply /\ r.op = "checkpoint" /\ e.key = r.key
      BY <1>5, <2>0, <2>2
    <3>2. \A f \in stored' : f.reply.lease = l /\ f /= e => f.reply.lv < e.reply.lv
      BY <1>1, <1>8, <2>2, <3>1
    <3>3. ASSUME NEW p \in Processes, p = r.from
          PROVE  proc[p].op = "checkpoint" /\ proc[p].key = e.key
      BY <3>1, <3>3, NobodyWaits, InvParts DEF Exchanges, RequestOK
    <3> QED BY <1>3, <1>8, <3>1, <3>2, <3>3
  <2> QED BY <1>1, <2>1, <2>2
<1>11. Journalled'
  BY JournalStep
<1> QED BY <1>1, <1>3, <1>6, <1>7, <1>10, <1>11 DEF BridgeInv, Grown

LEMMA ServeStep ==
    ASSUME BridgeInv, NEW r \in wire, Serve(r)
    PROVE  BridgeInv'
<1>1. CASE ServeReplay(r)
  <2>1. PICK e \in Known(r) :
          /\ Answer(r, IF e.body = <<r.task, r.body>> THEN e.reply ELSE Refused)
          /\ UNCHANGED <<vars, stored>>
    BY <1>1 DEF ServeReplay
  <2> DEFINE reply == IF e.body = <<r.task, r.body>> THEN e.reply ELSE Refused
  <2>2. /\ Answer(r, reply) /\ UNCHANGED vars /\ stored' = stored
        /\ reply = Refused \/ \E f \in Known(r) : f.body = <<r.task, r.body>> /\ reply = f.reply
    BY <2>1
  <2> HIDE DEF reply
  <2> QED BY <2>2, OldAnswerStep
<1>2. CASE \E l \in Leases, at \in Readings : ServeClaim(r, l, at)
  BY <1>2, ServeClaimGrants, GrantingStep
<1>3. CASE \E at \in Readings : ServeRenew(r, at)
  BY <1>3, ServeRenewGrants, GrantingStep
<1>4. CASE \E at \in Readings : ServeBound(r, at)
  BY <1>4, ServeBoundGrants, GrantingStep
<1>5. CASE \E at \in Readings : ServeRefusal(r, at)
  <2>1. Answer(r, Refused) /\ UNCHANGED vars /\ stored' = stored
    BY <1>5 DEF ServeRefusal
  <2> QED BY <2>1, OldAnswerStep
<1> QED BY <1>1, <1>2, <1>3, <1>4, <1>5 DEF Serve

-----------------------------------------------------------------------------

LEMMA InitBridge == BridgeInit => BridgeInv
<1> SUFFICES ASSUME BridgeInit PROVE BridgeInv
  OBVIOUS
<1>1. StoreOK
  BY DEF BridgeInit, StoreOK, TaskRow, TaskStates, LeaseRow, NoLease
<1>2. RowsOK
  <2>1. proc \in [Processes -> ProcessRow]
    BY DEF BridgeInit, Idle, ProcessRow, AnyKey
  <2> QED BY <2>1 DEF BridgeInit, RowsOK
<1>3. Remembered /\ Exchanges /\ NeverAhead /\ LastUnconfirmed
  BY DEF BridgeInit, Remembered, Exchanges, BoundOK, ProcessOK, AnswerOK, Works, Idle, NeverAhead,
         LastUnconfirmed
<1>4. Journalled
  <2> SUFFICES ASSUME NEW l \in Leases
               PROVE  CheckpointsUnder(l) = {} /\ CheckpointKeys(l) = {} /\ acked[l] = {}
    BY FS_EmptySet DEF Journalled
  <2> QED BY DEF BridgeInit, CheckpointsUnder, CheckpointKeys
<1> QED BY <1>1, <1>2, <1>3, <1>4 DEF BridgeInv

LEMMA BridgeStuttering ==
    ASSUME BridgeInv, UNCHANGED allVars
    PROVE  BridgeInv'
<1>1. UNCHANGED vars /\ UNCHANGED <<bindings, bound, proc, wire, inbox, stored, used, acked>>
  BY DEF allVars, bridgeVars
<1>2. Grown /\ checkpoints' = checkpoints
  BY <1>1, InvParts, StoreStays
<1>3. SameBindings(bindings')
  BY <1>1, InvParts, LockKeeps
<1>4. BindingsStep /\ BoundOK'
  BY <1>1, <1>3, InvParts, BindingsKept
<1>5. ProcessStep({}) /\ WireStep({})
  BY <1>1, InvParts DEF ProcessStep, WireStep, RowsOK
<1>6. CountersStep
  BY <1>1, <1>4, InvParts, CountersKeep
<1>7. BridgeStep({})
  BY <1>1, <1>2, <1>4, <1>5, <1>6 DEF BridgeStep
<1> QED BY <1>7, StepKeeps

LEMMA ReceiveStep ==
    ASSUME BridgeInv, NEW p \in Processes, Receive(p)
    PROVE  BridgeInv'
<1>1. CASE ClaimGranted(p)
  <2>1. PICK t : t = proc[p].task
    OBVIOUS
  <2> QED BY <1>1, <2>1, ClaimGrantedStep, StepKeeps
<1>2. CASE CompleteGranted(p)
  <2>1. PICK t : t = proc[p].task
    OBVIOUS
  <2> QED BY <1>2, <2>1, CompleteGrantedStep, StepKeeps
<1>3. CASE CheckpointGranted(p)
  BY <1>3, CheckpointGrantedStep, StepKeeps
<1>4. CASE CallRefused(p)
  BY <1>4, CallEndStep, StepKeeps
<1>5. CASE p \in Tasks /\ (RenewalGranted(p) \/ RenewalRefused(p))
  BY <1>5, RenewalGrantedStep, RenewalEndStep, StepKeeps
<1> QED BY <1>1, <1>2, <1>3, <1>4, <1>5 DEF Receive

LEMMA BridgeKeeps == BridgeInv /\ [BridgeNext]_allVars => BridgeInv'
<1> SUFFICES ASSUME BridgeInv, [BridgeNext]_allVars PROVE BridgeInv'
  OBVIOUS
<1>1. CASE \E c \in Callers, t \in Tasks, k \in Keys, s \in LeaseSeconds : CallClaim(c, t, k, s)
  BY <1>1, CallClaimStep, StepKeeps
<1>2. CASE \E c \in Callers, t \in Tasks, op \in {"checkpoint", "complete"}, k \in Keys :
              CallBound(c, t, op, k)
  BY <1>2, CallBoundStep, StepKeeps
<1>3. CASE \E p \in Processes : Send(p)
  BY <1>3, SendStep, StepKeeps
<1>4. CASE \E p \in Processes : Receive(p)
  BY <1>4, ReceiveStep
<1>5. CASE \E r \in wire : Serve(r)
  BY <1>5, ServeStep
<1>6. CASE \E c \in Callers : CallFails(c)
  BY <1>6, CallerOrTask, CallEndStep, StepKeeps
<1>7. CASE \E t \in Tasks : RenewalDue(t) \/ RenewalRetries(t)
  BY <1>7, RenewalDueStep, RenewalEndStep, StepKeeps
<1>8. CASE Restart
  BY <1>8, RestartStep, StepKeeps
<1>9. CASE OtherClaims \/ TimePasses
  BY <1>9, StoreMovesStep, StepKeeps
<1>10. CASE UNCHANGED allVars
  BY <1>10, BridgeStuttering
<1> QED BY <1>1, <1>2, <1>3, <1>4, <1>5, <1>6, <1>7, <1>8, <1>9, <1>10 DEF BridgeNext

LEMMA BridgeSound == BridgeSpec => []BridgeInv
<1> QED BY InitBridge, BridgeKeeps, PTL DEF BridgeSpec

\* Whatever requests and answers are lost, late or served twice, and however often the bridge
\* restarts, no binding holds a version the store has not reached (_update_binding, _renew).
THEOREM NeverAheadOfStore == BridgeSpec => []NeverAhead
<1>1. BridgeInv => NeverAhead
  BY DEF BridgeInv
<1> QED BY <1>1, BridgeSound, PTL

\* Under each lease the store has done at most one checkpoint the bridge was not told of, under
\* whatever keys the model repeats it (checkpoint_task).
THEOREM OneCheckpointUnconfirmed == BridgeSpec => []OneUnconfirmed
<1>1. ASSUME BridgeInv, NEW l \in Leases
      PROVE  Cardinality(CheckpointsUnder(l)) <= Cardinality(acked[l]) + 1
  <2> DEFINE U == CheckpointsUnder(l)
             K == CheckpointKeys(l)
             A == acked[l]
  <2>1. /\ IsFiniteSet(U) /\ IsFiniteSet(K) /\ IsFiniteSet(A)
        /\ Cardinality(U) <= Cardinality(K)
    BY <1>1, InvParts DEF Journalled
  <2>2. \E k : K \subseteq A \cup {k}
    <3>1. ASSUME NEW k \in K \ A, NEW j \in K \ A PROVE k = j
      <4>1. PICK e \in stored : e.op = "checkpoint" /\ e.reply.lease = l /\ k = e.key
        BY DEF CheckpointKeys
      <4>2. PICK f \in stored : f.op = "checkpoint" /\ f.reply.lease = l /\ j = f.key
        BY DEF CheckpointKeys
      <4>3. Unconfirmed(e, l) /\ Unconfirmed(f, l)
        BY <4>1, <4>2 DEF Unconfirmed
      <4>4. e /= f => e.reply.lv < f.reply.lv /\ f.reply.lv < e.reply.lv
        BY <1>1, <4>1, <4>2, <4>3, InvParts DEF LastUnconfirmed
      <4>5. e.reply.lv \in Nat /\ f.reply.lv \in Nat
        BY <1>1, InvParts DEF RowsOK, StoredRow, ReplyRow
      <4> QED BY <4>1, <4>2, <4>4, <4>5
    <3> HIDE DEF K, A
    <3>2. CASE K \ A = {}
      BY <3>2
    <3>3. CASE K \ A /= {}
      <4>1. PICK k : k \in K \ A
        BY <3>3
      <4>2. K \subseteq A \cup {k}
        BY <3>1, <4>1
      <4> QED BY <4>2
    <3> QED BY <3>2, <3>3
  <2>3. PICK k : K \subseteq A \cup {k}
    BY <2>2
  <2> HIDE DEF U, K, A
  <2>4. Cardinality(A) \in Nat /\ Cardinality(K) \in Nat /\ Cardinality(U) \in Nat
    BY <2>1, FS_CardinalityType
  <2>5. /\ IsFiniteSet(A \cup {k})
        /\ Cardinality(A \cup {k}) = IF k \in A THEN Cardinality(A) ELSE Cardinality(A) + 1
    BY <2>1, FS_AddElement
  <2>6. Cardinality(K) <= Cardinality(A \cup {k})
    BY <2>3, <2>5, FS_Subset
  <2>7. Cardinality(U) <= Cardinality(A) + 1
    BY <2>1, <2>4, <2>5, <2>6
  <2> QED BY <2>7 DEF U, A
<1>2. BridgeInv => OneUnconfirmed
  BY <1>1 DEF OneUnconfirmed
<1> QED BY <1>2, BridgeSound, PTL

=============================================================================
