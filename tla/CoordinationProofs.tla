------------------------- MODULE CoordinationProofs -------------------------
(* Machine-checked facts about the coordination store, for every set of    *)
(* runs, agents, tasks and leases, every scope and every bound.            *)
EXTENDS Coordination, FiniteSetTheorems, TLAPS

TaskTable == [Tasks -> TaskRow]
LeaseTable == [Leases -> LeaseRow \cup {NoLease}]

\* The sweep of a claim yields well-formed tables.
LEMMA SweepType ==
    ASSUME TypeOK, NEW run \in Runs, NEW at \in Nat
    PROVE  /\ ReleaseExpiredTasks(run, at) \in TaskTable
           /\ ExpireLeases(run, at) \in LeaseTable
<1>1. ReleaseExpiredTasks(run, at) \in TaskTable
  BY DEF TypeOK, ReleaseExpiredTasks, NextTask, TaskTable, TaskRow, TaskStates
<1>2. ASSUME NEW l \in Elapsed(run, at)
      PROVE  leases[l] \in LeaseRow
  BY DEF TypeOK, Elapsed, NoLease
<1>3. ExpireLeases(run, at) \in LeaseTable
  BY <1>2 DEF TypeOK, ExpireLeases, NextLease, LeaseTable, LeaseRow, LeaseStates, Elapsed
<1> QED BY <1>1, <1>3

\* Every row keeps the shape its table declares.
THEOREM TypeCorrect == Spec => []TypeOK
<1>1. Init => TypeOK
  BY NoneAssumption DEF Init, TypeOK, TaskRow, TaskStates, NoLease
<1>2. TypeOK /\ [Next]_vars => TypeOK'
  <2> SUFFICES ASSUME TypeOK, [Next]_vars
               PROVE  TypeOK'
    OBVIOUS
  <2> USE ScopeAssumption, BoundAssumption, NoneAssumption
  <2>0. \A at \in Readings : at \in Nat
    BY DEF Readings, TypeOK
  <2>1. CASE Tick
    BY <2>1 DEF Tick, TypeOK
  <2>2. ASSUME NEW r \in Runs, EnsureRun(r) PROVE TypeOK'
    BY <2>2 DEF EnsureRun, TypeOK
  <2>3. ASSUME NEW a \in Agents, JoinAgent(a) PROVE TypeOK'
    BY <2>3, SMTT(30) DEF JoinAgent, TypeOK
  <2>4. ASSUME NEW t \in Tasks, NEW state \in {"pending", "ready"}, AddTask(t, state)
        PROVE TypeOK'
    <3>1. [state |-> state, owner |-> None, lease |-> None, version |-> 1] \in TaskRow
      BY DEF TaskRow, TaskStates
    <3> QED BY <2>4, <3>1, SMTT(30) DEF AddTask, TypeOK
  <2>5. ASSUME NEW t \in Tasks, NEW u \in Tasks, NEW kind \in Kinds,
               AddDependency(t, u, kind)
        PROVE TypeOK'
    BY <2>5, SMTT(30) DEF AddDependency, TypeOK
  <2>6. ASSUME NEW a \in Agents, NEW t \in Tasks, NEW l \in Leases,
               NEW s \in LeaseSeconds, NEW v \in TaskVersions \cup {None},
               NEW at \in Readings, ClaimTask(a, t, l, s, v, at)
        PROVE TypeOK'
    <3> DEFINE ts == ReleaseExpiredTasks(RunOf[a], at)
               ls == ExpireLeases(RunOf[a], at)
    <3>1. ts \in TaskTable /\ ls \in LeaseTable
      BY <2>0, SweepType
    <3>2. /\ tasks' = [ts EXCEPT ![t] = NextTask(@, "claimed", a, l)]
          /\ leases' = [ls EXCEPT ![l] = [status |-> "active", task |-> t, owner |-> a,
                                          expires |-> at + s, version |-> 1]]
          /\ ledger' = [ledger EXCEPT ![t] =
                Append(@, Event("task_claimed", a, l, ts[t].version + 1))]
          /\ UNCHANGED <<now, runs, agents, deps, checkpoints, completions>>
      BY <2>6 DEF ClaimTask, AppendEvent
    <3> HIDE DEF ts, ls
    <3>3. tasks' \in TaskTable
      BY <3>1, <3>2 DEF NextTask, TaskTable, TaskRow, TaskStates
    <3>4. leases' \in LeaseTable
      BY <2>0, <3>1, <3>2 DEF LeaseTable, LeaseRow, LeaseStates
    <3>5. Event("task_claimed", a, l, ts[t].version + 1) \in EventRow
      BY <3>1 DEF TaskTable, TaskRow, Event, EventRow, EventTypes
    <3>6. ledger' \in [Tasks -> Seq(EventRow)]
      BY <3>2, <3>5 DEF TypeOK
    <3> QED BY <3>2, <3>3, <3>4, <3>6 DEF TypeOK, TaskTable, LeaseTable
  <2>7. ASSUME NEW a \in Agents, NEW l \in Leases, NEW lv \in LeaseVersions,
               NEW s \in LeaseSeconds, NEW at \in Readings, RenewLease(a, l, lv, s, at)
        PROVE TypeOK'
    <3>1. leases[l] \in LeaseRow
      BY <2>7 DEF RenewLease, Renewable, TypeOK, NoLease
    <3>2. GreaterOf(leases[l].expires, at + s) \in Nat
      <4>1. leases[l].expires \in Nat
        BY <3>1 DEF LeaseRow
      <4>2. at + s \in Nat
        BY <2>0
      <4> QED BY <4>1, <4>2 DEF GreaterOf
    <3>3. leases' \in LeaseTable
      BY <2>7, <3>1, <3>2 DEF RenewLease, Renewable, NextLease, LeaseTable, LeaseRow, LeaseStates, TypeOK
    <3>4. Event("lease_renewed", a, l, lv + 1) \in EventRow
      BY DEF Event, EventRow, EventTypes, LeaseVersions
    <3>5. ledger' \in [Tasks -> Seq(EventRow)]
      BY <2>7, <3>1, <3>4 DEF RenewLease, Renewable, AppendEvent, TypeOK, LeaseRow
    <3> QED BY <2>7, <3>3, <3>5 DEF RenewLease, Renewable, TypeOK, LeaseTable
  <2>8. ASSUME NEW a \in Agents, NEW t \in Tasks, NEW l \in Leases,
               NEW tv \in TaskVersions, NEW lv \in LeaseVersions, NEW at \in Readings,
               CheckpointTask(a, t, l, tv, lv, at)
        PROVE TypeOK'
    <3>1. leases[l] \in LeaseRow
      BY <2>8 DEF CheckpointTask, Owns, TypeOK, NoLease
    <3>2. leases' \in LeaseTable
      BY <2>8, <3>1, SMTT(30) DEF CheckpointTask, NextLease, LeaseTable, LeaseRow, LeaseStates, TypeOK
    <3>3. tasks' \in TaskTable
      BY <2>8 DEF CheckpointTask, NextTask, TaskTable, TaskRow, TaskStates, TypeOK
    <3>4. checkpoints' \in [Tasks -> Seq(CheckpointRow)]
      <4>1. [lease |-> l, agent |-> a] \in CheckpointRow
        BY DEF CheckpointRow
      <4> QED BY <2>8, <4>1 DEF CheckpointTask, TypeOK
    <3>5. Event("task_checkpointed", a, l, tv + 1) \in EventRow
      BY DEF Event, EventRow, EventTypes, TaskVersions
    <3>6. ledger' \in [Tasks -> Seq(EventRow)]
      BY <2>8, <3>5 DEF CheckpointTask, AppendEvent, TypeOK
    <3> QED BY <2>8, <3>2, <3>3, <3>4, <3>6 DEF CheckpointTask, TypeOK, TaskTable, LeaseTable
  <2>9. ASSUME NEW a \in Agents, NEW t \in Tasks, NEW l \in Leases,
               NEW tv \in TaskVersions, NEW lv \in LeaseVersions, NEW o \in Outcomes,
               NEW at \in Readings, CompleteTask(a, t, l, tv, lv, o, at)
        PROVE TypeOK'
    <3>1. leases[l] \in LeaseRow
      BY <2>9 DEF CompleteTask, Owns, TypeOK, NoLease
    <3>2. leases' \in LeaseTable
      <4>1. NextLease(leases[l], "completed", leases[l].expires) \in LeaseRow
        BY <3>1 DEF NextLease, LeaseRow, LeaseStates
      <4>2. leases' = [leases EXCEPT ![l] = NextLease(@, "completed", @.expires)]
        BY <2>9 DEF CompleteTask, EndLease
      <4> QED BY <4>1, <4>2 DEF LeaseTable, TypeOK
    <3>3. tasks' \in TaskTable
      BY <2>9 DEF CompleteTask, FinalState, NextTask, TaskTable, TaskRow, TaskStates, TypeOK
    <3>4. completions' \in [Tasks -> CompletionRow \cup {None}]
      BY <2>9 DEF CompleteTask, CompletionRow, TypeOK
    <3>5. Event("task_completed", a, l, tv + 1) \in EventRow
      BY DEF Event, EventRow, EventTypes, TaskVersions
    <3>6. ledger' \in [Tasks -> Seq(EventRow)]
      BY <2>9, <3>5 DEF CompleteTask, AppendEvent, TypeOK
    <3> QED BY <2>9, <3>2, <3>3, <3>4, <3>6 DEF CompleteTask, TypeOK, TaskTable, LeaseTable
  <2>10. ASSUME NEW a \in Agents, NEW t \in Tasks, NEW l \in Leases,
                NEW tv \in TaskVersions, NEW lv \in LeaseVersions, NEW at \in Readings,
                ReleaseTask(a, t, l, tv, lv, at)
         PROVE TypeOK'
    <3>1. leases[l] \in LeaseRow
      BY <2>10 DEF ReleaseTask, Owns, TypeOK, NoLease
    <3>2. leases' \in LeaseTable
      BY <2>10, <3>1 DEF ReleaseTask, EndLease, NextLease, LeaseTable, LeaseRow, LeaseStates, TypeOK
    <3>3. tasks' \in TaskTable
      BY <2>10 DEF ReleaseTask, NextTask, TaskTable, TaskRow, TaskStates, TypeOK
    <3>4. Event("task_released", a, l, tv + 1) \in EventRow
      BY DEF Event, EventRow, EventTypes, TaskVersions
    <3>5. ledger' \in [Tasks -> Seq(EventRow)]
      BY <2>10, <3>4 DEF ReleaseTask, AppendEvent, TypeOK
    <3> QED BY <2>10, <3>2, <3>3, <3>5 DEF ReleaseTask, TypeOK, TaskTable, LeaseTable
  <2>11. CASE UNCHANGED vars
    BY <2>11 DEF vars, TypeOK
  <2> QED
    BY <2>1, <2>2, <2>3, <2>4, <2>5, <2>6, <2>7, <2>8, <2>9, <2>10, <2>11 DEF Next
<1> QED BY <1>1, <1>2, PTL DEF Spec

-----------------------------------------------------------------------------
\* A lease in use is a full row of the table, and names a task and an agent.
LEMMA UsedLease ==
    ASSUME NEW ls \in LeaseTable, NEW l \in Leases, ls[l].status /= "free"
    PROVE  ls[l] \in LeaseRow
  BY DEF LeaseTable, NoLease

\* The sweep of a claim frees a task exactly when it expires its lease.
LEMMA SweepAgrees ==
    ASSUME TypeOK, LeaseAgreement, NEW run \in Runs, NEW at \in Nat
    PROVE  Agree(ReleaseExpiredTasks(run, at), ExpireLeases(run, at))
<1> DEFINE ts == ReleaseExpiredTasks(run, at)
           ls == ExpireLeases(run, at)
<1>1. \A l \in Leases : leases[l].status = "active" =>
        leases[l] \in LeaseRow /\ leases[l].task \in Tasks
  BY DEF TypeOK, NoLease, LeaseRow
<1>2. ASSUME NEW t \in Tasks
      PROVE  IF ts[t].state = "claimed"
             THEN /\ ts[t].lease \in Leases
                  /\ ls[ts[t].lease].status = "active"
                  /\ ls[ts[t].lease].task = t
                  /\ ls[ts[t].lease].owner = ts[t].owner
             ELSE ts[t].lease = None /\ ts[t].owner = None
  <2>1. CASE RunOf[t] = run /\ tasks[t].lease \in Elapsed(run, at)
    BY <2>1 DEF ReleaseExpiredTasks, NextTask
  <2>2. CASE ~ (RunOf[t] = run /\ tasks[t].lease \in Elapsed(run, at))
    <3>1. ts[t] = tasks[t]
      BY <2>2 DEF ReleaseExpiredTasks
    <3>2. CASE tasks[t].state = "claimed"
      <4>1. /\ tasks[t].lease \in Leases
            /\ leases[tasks[t].lease].status = "active"
            /\ leases[tasks[t].lease].task = t
            /\ leases[tasks[t].lease].owner = tasks[t].owner
        BY <3>2 DEF LeaseAgreement, Agree
      <4>2. tasks[t].lease \notin Elapsed(run, at)
        BY <2>2, <4>1 DEF Elapsed
      <4>3. ls[tasks[t].lease] = leases[tasks[t].lease]
        BY <4>1, <4>2 DEF ExpireLeases
      <4> QED BY <3>1, <3>2, <4>1, <4>3
    <3>3. CASE tasks[t].state /= "claimed"
      BY <3>1, <3>3 DEF LeaseAgreement, Agree
    <3> QED BY <3>2, <3>3
  <2> QED BY <2>1, <2>2
<1>3. ASSUME NEW l \in Leases, ls[l].status = "active"
      PROVE  ts[ls[l].task].lease = l
  <2>1. l \notin Elapsed(run, at) /\ ls[l] = leases[l]
    BY <1>3 DEF ExpireLeases, NextLease
  <2>2. leases[l].task \in Tasks /\ tasks[leases[l].task].lease = l
    BY <1>1, <1>3, <2>1 DEF LeaseAgreement, Agree
  <2>3. ts[leases[l].task] = tasks[leases[l].task]
    BY <2>1, <2>2 DEF ReleaseExpiredTasks
  <2> QED BY <2>1, <2>2, <2>3
<1> HIDE DEF ts, ls
<1> QED BY <1>2, <1>3 DEF Agree, ts, ls

\* One task and its lease advancing together, both active or both ended,
\* leave the tables in agreement.
LEMMA PairAgrees ==
    ASSUME NEW ts \in TaskTable, NEW ls \in LeaseTable, Agree(ts, ls),
           NEW t \in Tasks, NEW l \in Leases, NEW newT \in TaskRow, NEW newL \in LeaseRow,
           newL.task = t,
           ts[t].lease \in {None, l},
           ls[l].status = "active" => ls[l].task = t,
           \/ /\ newT.state = "claimed" /\ newT.lease = l
              /\ newL.status = "active" /\ newT.owner = newL.owner
           \/ /\ newT.state /= "claimed" /\ newT.lease = None /\ newT.owner = None
              /\ newL.status /= "active"
    PROVE  Agree([ts EXCEPT ![t] = newT], [ls EXCEPT ![l] = newL])
<1> DEFINE us == [ts EXCEPT ![t] = newT]
           ms == [ls EXCEPT ![l] = newL]
<1> USE NoneAssumption
<1>1. /\ us[t] = newT /\ ms[l] = newL
      /\ \A u \in Tasks : u /= t => us[u] = ts[u]
      /\ \A k \in Leases : k /= l => ms[k] = ls[k]
  BY DEF TaskTable, LeaseTable
<1> HIDE DEF us, ms
<1>2. ASSUME NEW u \in Tasks
      PROVE  IF us[u].state = "claimed"
             THEN /\ us[u].lease \in Leases
                  /\ ms[us[u].lease].status = "active"
                  /\ ms[us[u].lease].task = u
                  /\ ms[us[u].lease].owner = us[u].owner
             ELSE us[u].lease = None /\ us[u].owner = None
  <2>1. CASE u = t
    BY <1>1, <2>1
  <2>2. CASE u /= t /\ ts[u].state = "claimed"
    <3>1. /\ ts[u].lease \in Leases
          /\ ls[ts[u].lease].status = "active"
          /\ ls[ts[u].lease].task = u
          /\ ls[ts[u].lease].owner = ts[u].owner
      BY <2>2 DEF Agree
    <3>2. ts[u].lease /= l
      BY <2>2, <3>1
    <3> QED BY <1>1, <2>2, <3>1, <3>2
  <2>3. CASE u /= t /\ ts[u].state /= "claimed"
    BY <1>1, <2>3 DEF Agree
  <2> QED BY <2>1, <2>2, <2>3
<1>3. ASSUME NEW k \in Leases, ms[k].status = "active"
      PROVE  us[ms[k].task].lease = k
  <2>1. CASE k = l
    BY <1>1, <1>3, <2>1
  <2>2. CASE k /= l
    <3>1. ls[k].status = "active" /\ ls[k].task \in Tasks
      BY <1>1, <1>3, <2>2, UsedLease DEF LeaseRow
    <3>2. ts[ls[k].task].lease = k
      BY <3>1 DEF Agree
    <3>3. ls[k].task /= t
      BY <2>2, <3>2
    <3> QED BY <1>1, <2>2, <3>1, <3>2, <3>3
  <2> QED BY <2>1, <2>2
<1> QED BY <1>2, <1>3 DEF Agree, us, ms

-----------------------------------------------------------------------------
\* Two agents never hold one task: claims, sweeps, renewals, checkpoints,
\* completions and releases keep the task row and the lease table in agreement.
THEOREM LeasesAgree == Spec => []LeaseAgreement
<1>1. Init => LeaseAgreement
  BY NoneAssumption DEF Init, LeaseAgreement, Agree, NoLease
<1>2. TypeOK /\ TypeOK' /\ LeaseAgreement /\ [Next]_vars => LeaseAgreement'
  <2> SUFFICES ASSUME TypeOK, TypeOK', LeaseAgreement, [Next]_vars
               PROVE  LeaseAgreement'
    OBVIOUS
  <2> USE ScopeAssumption, BoundAssumption, NoneAssumption
  <2>0. /\ tasks \in TaskTable /\ leases \in LeaseTable
        /\ tasks' \in TaskTable /\ leases' \in LeaseTable
    BY DEF TypeOK, TaskTable, LeaseTable
  <2>1. CASE UNCHANGED <<tasks, leases>>
    BY <2>1 DEF LeaseAgreement, Agree
  <2>2. ASSUME NEW t \in Tasks, NEW state \in {"pending", "ready"}, AddTask(t, state)
        PROVE LeaseAgreement'
    <3>1. tasks[t].state = "absent" /\ leases' = leases
      BY <2>2 DEF AddTask
    <3>2. tasks[t].lease = None
      BY <3>1 DEF LeaseAgreement, Agree
    <3>3. ASSUME NEW l \in Leases, leases[l].status = "active"
          PROVE  leases[l].task \in Tasks \ {t}
      BY <2>0, <3>2, <3>3, UsedLease DEF LeaseAgreement, Agree, LeaseRow
    <3>4. /\ tasks'[t] = [state |-> state, owner |-> None, lease |-> None, version |-> 1]
          /\ \A u \in Tasks : u /= t => tasks'[u] = tasks[u]
      BY <2>0, <2>2 DEF AddTask, TaskTable
    <3> QED BY <3>1, <3>3, <3>4 DEF LeaseAgreement, Agree
  <2>3. ASSUME NEW a \in Agents, NEW t \in Tasks, NEW l \in Leases,
               NEW s \in LeaseSeconds, NEW v \in TaskVersions \cup {None},
               NEW at \in Readings, ClaimTask(a, t, l, s, v, at)
        PROVE LeaseAgreement'
    <3> DEFINE ts == ReleaseExpiredTasks(RunOf[a], at)
               ls == ExpireLeases(RunOf[a], at)
               newT == NextTask(ts[t], "claimed", a, l)
               newL == [status |-> "active", task |-> t, owner |-> a,
                        expires |-> at + s, version |-> 1]
    <3>1. at \in Nat
      BY DEF Readings, TypeOK
    <3>2. ts \in TaskTable /\ ls \in LeaseTable /\ Agree(ts, ls)
      BY <3>1, SweepType, SweepAgrees
    <3>3. /\ ls[l].status = "free" /\ ts[t].lease = None
          /\ tasks' = [ts EXCEPT ![t] = newT]
          /\ leases' = [ls EXCEPT ![l] = newL]
      BY <2>3 DEF ClaimTask, Claimable
    <3> HIDE DEF ts, ls
    <3>4. newT \in TaskRow /\ newL \in LeaseRow
      BY <3>1, <3>2 DEF TaskTable, TaskRow, TaskStates, NextTask, LeaseRow, LeaseStates
    <3>5. newT.state = "claimed" /\ newT.lease = l /\ newT.owner = a
      BY DEF NextTask
    <3>6. Agree([ts EXCEPT ![t] = newT], [ls EXCEPT ![l] = newL])
      <4> HIDE DEF newT
      <4> QED BY <3>2, <3>3, <3>4, <3>5, PairAgrees
    <3> QED BY <3>3, <3>6 DEF LeaseAgreement
  <2>4. ASSUME NEW a \in Agents, NEW l \in Leases, NEW lv \in LeaseVersions,
               NEW s \in LeaseSeconds, NEW at \in Readings, RenewLease(a, l, lv, s, at)
        PROVE LeaseAgreement'
    <3>1. /\ leases[l].status = "active" /\ tasks' = tasks
          /\ leases' = [leases EXCEPT ![l] = NextLease(@, "active",
                                        GreaterOf(@.expires, at + s))]
      BY <2>4 DEF RenewLease, Renewable
    <3>2. /\ leases'[l].status = "active" /\ leases'[l].task = leases[l].task
          /\ leases'[l].owner = leases[l].owner
          /\ \A k \in Leases : k /= l => leases'[k] = leases[k]
      BY <2>0, <3>1 DEF NextLease, LeaseTable
    <3>3. \A k \in Leases : /\ leases'[k].status = leases[k].status
                            /\ leases'[k].task = leases[k].task
                            /\ leases'[k].owner = leases[k].owner
      BY <3>1, <3>2
    <3>4. Agree(tasks, leases)'
      <4>1. ASSUME NEW t \in Tasks
            PROVE  IF tasks[t].state = "claimed"
                   THEN /\ tasks[t].lease \in Leases
                        /\ leases'[tasks[t].lease].status = "active"
                        /\ leases'[tasks[t].lease].task = t
                        /\ leases'[tasks[t].lease].owner = tasks[t].owner
                   ELSE tasks[t].lease = None /\ tasks[t].owner = None
        BY <3>3 DEF LeaseAgreement, Agree
      <4>2. \A k \in Leases : leases'[k].status = "active" => tasks[leases'[k].task].lease = k
        BY <3>3 DEF LeaseAgreement, Agree
      <4> QED BY <3>1, <4>1, <4>2 DEF Agree
    <3> QED BY <3>4 DEF LeaseAgreement
  <2>5. ASSUME NEW a \in Agents, NEW t \in Tasks, NEW l \in Leases,
               NEW tv \in TaskVersions, NEW lv \in LeaseVersions, NEW at \in Readings,
               CheckpointTask(a, t, l, tv, lv, at)
        PROVE LeaseAgreement'
    <3>1. /\ leases[l].status = "active" /\ leases[l].task = t /\ leases[l].owner = a
          /\ tasks[t].lease = l /\ leases[l] \in LeaseRow
      BY <2>5, UsedLease DEF CheckpointTask, Owns, TypeOK, LeaseTable
    <3>2. /\ tasks' = [tasks EXCEPT ![t] = tasks'[t]]
          /\ leases' = [leases EXCEPT ![l] = leases'[l]]
          /\ tasks'[t].state = "claimed" /\ tasks'[t].lease = l /\ tasks'[t].owner = a
          /\ leases'[l].status = "active" /\ leases'[l].task = t /\ leases'[l].owner = a
      BY <2>0, <2>5, <3>1 DEF CheckpointTask, NextTask, NextLease, TaskTable, LeaseTable
    <3>3. tasks'[t] \in TaskRow /\ leases'[l] \in LeaseRow
      BY <2>0, <3>2, UsedLease DEF TaskTable
    <3>4. Agree([tasks EXCEPT ![t] = tasks'[t]], [leases EXCEPT ![l] = leases'[l]])
      BY <2>0, <3>1, <3>2, <3>3, PairAgrees DEF LeaseAgreement
    <3> QED BY <3>2, <3>4 DEF LeaseAgreement
  <2>6. ASSUME NEW a \in Agents, NEW t \in Tasks, NEW l \in Leases,
               NEW tv \in TaskVersions, NEW lv \in LeaseVersions, NEW o \in Outcomes,
               NEW at \in Readings, CompleteTask(a, t, l, tv, lv, o, at)
        PROVE LeaseAgreement'
    <3>1. /\ leases[l].status = "active" /\ leases[l].task = t /\ leases[l].owner = a
          /\ tasks[t].lease = l /\ leases[l] \in LeaseRow
      BY <2>6, UsedLease DEF CompleteTask, Owns, TypeOK, LeaseTable
    <3>2. /\ tasks' = [tasks EXCEPT ![t] = tasks'[t]]
          /\ leases' = [leases EXCEPT ![l] = leases'[l]]
          /\ tasks'[t].state /= "claimed" /\ tasks'[t].lease = None /\ tasks'[t].owner = None
          /\ leases'[l].status = "completed" /\ leases'[l].task = t
      BY <2>0, <2>6, <3>1
         DEF CompleteTask, EndLease, FinalState, NextTask, NextLease, TaskTable, LeaseTable
    <3>3. tasks'[t] \in TaskRow /\ leases'[l] \in LeaseRow
      BY <2>0, <3>2, UsedLease DEF TaskTable
    <3>4. Agree([tasks EXCEPT ![t] = tasks'[t]], [leases EXCEPT ![l] = leases'[l]])
      BY <2>0, <3>1, <3>2, <3>3, PairAgrees DEF LeaseAgreement
    <3> QED BY <3>2, <3>4 DEF LeaseAgreement
  <2>7. ASSUME NEW a \in Agents, NEW t \in Tasks, NEW l \in Leases,
               NEW tv \in TaskVersions, NEW lv \in LeaseVersions, NEW at \in Readings,
               ReleaseTask(a, t, l, tv, lv, at)
        PROVE LeaseAgreement'
    <3>1. /\ leases[l].status = "active" /\ leases[l].task = t /\ leases[l].owner = a
          /\ tasks[t].lease = l /\ leases[l] \in LeaseRow
      BY <2>7, UsedLease DEF ReleaseTask, Owns, TypeOK, LeaseTable
    <3>2. /\ tasks' = [tasks EXCEPT ![t] = tasks'[t]]
          /\ leases' = [leases EXCEPT ![l] = leases'[l]]
          /\ tasks'[t].state /= "claimed" /\ tasks'[t].lease = None /\ tasks'[t].owner = None
          /\ leases'[l].status = "released" /\ leases'[l].task = t
      BY <2>0, <2>7, <3>1
         DEF ReleaseTask, EndLease, NextTask, NextLease, TaskTable, LeaseTable
    <3>3. tasks'[t] \in TaskRow /\ leases'[l] \in LeaseRow
      BY <2>0, <3>2, UsedLease DEF TaskTable
    <3>4. Agree([tasks EXCEPT ![t] = tasks'[t]], [leases EXCEPT ![l] = leases'[l]])
      BY <2>0, <3>1, <3>2, <3>3, PairAgrees DEF LeaseAgreement
    <3> QED BY <3>2, <3>4 DEF LeaseAgreement
  <2> QED
    BY <2>1, <2>2, <2>3, <2>4, <2>5, <2>6, <2>7
       DEF Next, vars, Tick, EnsureRun, JoinAgent, AddDependency
<1> QED BY <1>1, <1>2, TypeCorrect, PTL DEF Spec

-----------------------------------------------------------------------------
(* What a holder and its peers may rely on: promised expiries, isolation of runs,        *)
(* completions that stand, and the task board as the store's abstract view.              *)

\* What a command that passed _load_owned_task_and_lease found.
LEMMA OwnedRows ==
    ASSUME TypeOK, NEW a \in Agents, NEW t \in Tasks, NEW l \in Leases,
           NEW tv, NEW lv, NEW at, Owns(a, t, l, tv, lv, at)
    PROVE  /\ tasks[t] \in TaskRow /\ leases[l] \in LeaseRow
           /\ tasks[t].state = "claimed" /\ tasks[t].lease = l /\ tasks[t].owner = a
           /\ tasks[t].version = tv
           /\ leases[l].status = "active" /\ leases[l].task = t /\ leases[l].owner = a
           /\ leases[l].version = lv
  BY UsedLease DEF Owns, TypeOK, LeaseTable

\* A claim row by row: it sweeps the elapsed leases of the run with the tasks
\* they held and gives one task to one agent under a lease id not used before.
ClaimedRows(a, t, l, s, at) ==
    LET swept == ReleaseExpiredTasks(RunOf[a], at)
    IN  /\ at \in Nat /\ at <= now
        /\ RunOf[t] = RunOf[a]
        /\ leases[l].status = "free"
        /\ leases'[l] = [status |-> "active", task |-> t, owner |-> a,
                         expires |-> at + s, version |-> 1]
        /\ \A k \in Leases : k /= l => leases'[k] = ExpireLeases(RunOf[a], at)[k]
        /\ tasks'[t] = NextTask(swept[t], "claimed", a, l)
        /\ \A u \in Tasks : u /= t => tasks'[u] = swept[u]
        /\ swept[t].state \in {"pending", "ready"} /\ swept[t].lease = None
        /\ \A p \in Tasks : <<t, p, "blocks">> \in deps => swept[p].state = "completed"
        /\ ledger' = [ledger EXCEPT ![t] =
                Append(@, Event("task_claimed", a, l, swept[t].version + 1))]
        /\ UNCHANGED <<now, deps, checkpoints, completions>>

LEMMA ClaimRows ==
    ASSUME TypeOK, NEW a \in Agents, NEW t \in Tasks, NEW l \in Leases,
           NEW s \in LeaseSeconds, NEW v \in TaskVersions \cup {None},
           NEW at \in Readings, ClaimTask(a, t, l, s, v, at)
    PROVE  ClaimedRows(a, t, l, s, at)
<1> DEFINE ts == ReleaseExpiredTasks(RunOf[a], at)
           ls == ExpireLeases(RunOf[a], at)
<1>1. at \in Nat /\ at <= now
  BY DEF Readings, TypeOK
<1>2. ts \in TaskTable /\ ls \in LeaseTable
  BY <1>1, SweepType, ScopeAssumption
<1>3. /\ ls[l].status = "free"
      /\ tasks' = [ts EXCEPT ![t] = NextTask(@, "claimed", a, l)]
      /\ leases' = [ls EXCEPT ![l] = [status |-> "active", task |-> t, owner |-> a,
                                      expires |-> at + s, version |-> 1]]
      /\ Claimable(ts, a, t, at)
      /\ ledger' = [ledger EXCEPT ![t] =
            Append(@, Event("task_claimed", a, l, ts[t].version + 1))]
      /\ UNCHANGED <<now, deps, checkpoints, completions>>
  BY DEF ClaimTask, AppendEvent
<1>4. leases[l].status = "free"
  BY <1>3 DEF ExpireLeases, NextLease
<1>6. \A p \in Tasks : <<t, p, "blocks">> \in deps => ts[p].state = "completed"
  BY <1>3 DEF Claimable, Unfinished
<1> HIDE DEF ts, ls
<1>7. /\ tasks'[t] = NextTask(ts[t], "claimed", a, l)
      /\ \A u \in Tasks : u /= t => tasks'[u] = ts[u]
  BY <1>2, <1>3 DEF TaskTable
<1>8. /\ leases'[l] = [status |-> "active", task |-> t, owner |-> a,
                       expires |-> at + s, version |-> 1]
      /\ \A k \in Leases : k /= l => leases'[k] = ls[k]
  BY <1>2, <1>3 DEF LeaseTable
<1> QED BY <1>1, <1>3, <1>4, <1>6, <1>7, <1>8 DEF Claimable, ClaimedRows, ts, ls

\* The sweep leaves a lease alone or expires one that was active and elapsed.
LEMMA SweptLease ==
    ASSUME NEW run, NEW at \in Nat, NEW l \in Leases
    PROVE  \/ ExpireLeases(run, at)[l] = leases[l]
           \/ /\ leases[l].status = "active" /\ RunOf[leases[l].task] = run
              /\ leases[l].expires <= at
              /\ ExpireLeases(run, at)[l] = NextLease(leases[l], "expired", leases[l].expires)
              /\ ExpireLeases(run, at)[l].status = "expired"
              /\ ExpireLeases(run, at)[l].task = leases[l].task
              /\ ExpireLeases(run, at)[l].expires = leases[l].expires
  BY DEF ExpireLeases, Elapsed, NextLease

\* The sweep leaves a task alone or frees one that was claimed.
LEMMA SweptTask ==
    ASSUME TypeOK, LeaseAgreement, NEW run \in Runs, NEW at \in Nat, NEW t \in Tasks
    PROVE  \/ ReleaseExpiredTasks(run, at)[t] = tasks[t]
           \/ /\ tasks[t].state = "claimed" /\ RunOf[t] = run
              /\ tasks[t].lease \in Elapsed(run, at)
              /\ ReleaseExpiredTasks(run, at)[t] = NextTask(tasks[t], "ready", None, None)
              /\ ReleaseExpiredTasks(run, at)[t].state = "ready"
              /\ ReleaseExpiredTasks(run, at)[t].owner = None
              /\ ReleaseExpiredTasks(run, at)[t].lease = None
<1>1. CASE RunOf[t] = run /\ tasks[t].lease \in Elapsed(run, at)
  <2>1. tasks[t].lease \in Leases
    BY <1>1 DEF Elapsed
  <2>2. tasks[t].state = "claimed"
    BY <2>1, NoneAssumption DEF LeaseAgreement, Agree
  <2> QED BY <1>1, <2>2 DEF ReleaseExpiredTasks, NextTask
<1>2. CASE ~ (RunOf[t] = run /\ tasks[t].lease \in Elapsed(run, at))
  BY <1>2 DEF ReleaseExpiredTasks
<1> QED BY <1>1, <1>2

-----------------------------------------------------------------------------
\* No step moves a promised expiry back or expires a lease before it: claims
\* sweep what has elapsed only, and a renewal keeps the later of two expiries.
THEOREM PromisesHold == Spec => PromiseKept
<1>1. ASSUME TypeOK, [Next]_vars, NEW l \in Leases, leases[l].status = "active"
      PROVE  /\ leases'[l].expires >= leases[l].expires
             /\ leases'[l].status = "expired" => leases[l].expires <= now
  <2> USE ScopeAssumption, BoundAssumption
  <2>0. leases[l] \in LeaseRow /\ leases[l].expires \in Nat
        /\ leases[l].status /= "expired" /\ now \in Nat /\ leases \in LeaseTable
    BY <1>1, UsedLease DEF TypeOK, LeaseTable, LeaseRow
  <2>1. CASE UNCHANGED leases
    BY <1>1, <2>0, <2>1
  <2>2. ASSUME NEW a \in Agents, NEW t \in Tasks, NEW k \in Leases,
               NEW s \in LeaseSeconds, NEW v \in TaskVersions \cup {None},
               NEW at \in Readings, ClaimTask(a, t, k, s, v, at)
        PROVE  /\ leases'[l].expires >= leases[l].expires
               /\ leases'[l].status = "expired" => leases[l].expires <= now
    <3>1. ClaimedRows(a, t, k, s, at)
      BY <1>1, <2>2, ClaimRows
    <3>2. /\ at \in Nat /\ at <= now
          /\ leases'[l] = ExpireLeases(RunOf[a], at)[l]
      BY <1>1, <3>1 DEF ClaimedRows
    <3>3. \/ leases'[l] = leases[l]
          \/ /\ leases[l].expires <= at
             /\ leases'[l].expires = leases[l].expires
      BY <3>2, SweptLease
    <3> QED BY <1>1, <2>0, <3>2, <3>3
  <2>3. ASSUME NEW a \in Agents, NEW k \in Leases, NEW lv \in LeaseVersions,
               NEW s \in LeaseSeconds, NEW at \in Readings, RenewLease(a, k, lv, s, at)
        PROVE  /\ leases'[l].expires >= leases[l].expires
               /\ leases'[l].status = "expired" => leases[l].expires <= now
    <3>1. at + s \in Nat
      BY <1>1 DEF Readings, TypeOK
    <3>2. \/ leases'[l] = leases[l]
          \/ leases'[l] = NextLease(leases[l], "active", GreaterOf(leases[l].expires, at + s))
      BY <2>0, <2>3 DEF RenewLease, LeaseTable
    <3>3. GreaterOf(leases[l].expires, at + s) >= leases[l].expires
      BY <2>0, <3>1 DEF GreaterOf
    <3> QED BY <2>0, <3>2, <3>3 DEF NextLease
  <2>4. ASSUME NEW k \in Leases, NEW status \in {"active", "completed", "released"},
               leases' = [leases EXCEPT ![k] = NextLease(@, status, @.expires)]
        PROVE  /\ leases'[l].expires >= leases[l].expires
               /\ leases'[l].status = "expired" => leases[l].expires <= now
    BY <2>0, <2>4 DEF NextLease, LeaseTable
  <2>5. CASE \E a \in Agents, t \in Tasks, k \in Leases, s \in LeaseSeconds,
                v \in TaskVersions \cup {None}, at \in Readings : ClaimTask(a, t, k, s, v, at)
    BY <2>2, <2>5
  <2>6. CASE \E a \in Agents, k \in Leases, lv \in LeaseVersions, s \in LeaseSeconds,
                at \in Readings : RenewLease(a, k, lv, s, at)
    BY <2>3, <2>6
  <2>7. CASE \E a \in Agents, t \in Tasks, k \in Leases, tv \in TaskVersions, lv \in LeaseVersions,
                at \in Readings : CheckpointTask(a, t, k, tv, lv, at)
    <3>1. \E k \in Leases : leases' = [leases EXCEPT ![k] = NextLease(@, "active", @.expires)]
      <4>1. PICK a \in Agents, t \in Tasks, k \in Leases, tv \in TaskVersions, lv \in LeaseVersions,
                 at \in Readings : CheckpointTask(a, t, k, tv, lv, at)
        BY <2>7
      <4> QED BY <4>1 DEF CheckpointTask
    <3> QED BY <2>4, <3>1
  <2>8. CASE \E a \in Agents, t \in Tasks, k \in Leases, tv \in TaskVersions, lv \in LeaseVersions,
                o \in Outcomes, at \in Readings : CompleteTask(a, t, k, tv, lv, o, at)
    <3>1. \E k \in Leases : leases' = [leases EXCEPT ![k] = NextLease(@, "completed", @.expires)]
      <4>1. PICK a \in Agents, t \in Tasks, k \in Leases, tv \in TaskVersions, lv \in LeaseVersions,
                 o \in Outcomes, at \in Readings : CompleteTask(a, t, k, tv, lv, o, at)
        BY <2>8
      <4> QED BY <4>1 DEF CompleteTask, EndLease
    <3> QED BY <2>4, <3>1
  <2>9. CASE \E a \in Agents, t \in Tasks, k \in Leases, tv \in TaskVersions, lv \in LeaseVersions,
                at \in Readings : ReleaseTask(a, t, k, tv, lv, at)
    <3>1. \E k \in Leases : leases' = [leases EXCEPT ![k] = NextLease(@, "released", @.expires)]
      <4>1. PICK a \in Agents, t \in Tasks, k \in Leases, tv \in TaskVersions, lv \in LeaseVersions,
                 at \in Readings : ReleaseTask(a, t, k, tv, lv, at)
        BY <2>9
      <4> QED BY <4>1 DEF ReleaseTask, EndLease
    <3> QED BY <2>4, <3>1
  <2>10. CASE Tick \/ \E r \in Runs : EnsureRun(r)
    BY <2>1, <2>10 DEF Tick, EnsureRun
  <2>11. CASE \/ \E a \in Agents : JoinAgent(a)
              \/ \E t \in Tasks, state \in {"pending", "ready"} : AddTask(t, state)
    BY <2>1, <2>11 DEF JoinAgent, AddTask
  <2>12. CASE \E t \in Tasks, u \in Tasks, kind \in Kinds : AddDependency(t, u, kind)
    BY <2>1, <2>12 DEF AddDependency
  <2>13. CASE UNCHANGED vars
    BY <2>1, <2>13 DEF vars
  <2> QED BY <1>1, <2>5, <2>6, <2>7, <2>8, <2>9, <2>10, <2>11, <2>12, <2>13 DEF Next
<1>2. TypeOK /\ [Next]_vars =>
        [\A l \in Leases :
            leases[l].status = "active" =>
                /\ leases'[l].expires >= leases[l].expires
                /\ leases'[l].status = "expired" => leases[l].expires <= now]_vars
  BY <1>1
<1> QED BY <1>2, TypeCorrect, PTL DEF Spec, PromiseKept

-----------------------------------------------------------------------------
\* Every step has one run in whose tasks and leases all its row changes lie.
LEMMA StepHasRun ==
    ASSUME TypeOK, TypeOK', LeaseAgreement, [Next]_vars
    PROVE  \E run :
              /\ \A t \in Tasks : tasks'[t] /= tasks[t] => RunOf[t] = run
              /\ \A l \in Leases : leases'[l] /= leases[l] => RunOf[leases'[l].task] = run
<1> USE ScopeAssumption, NoneAssumption
<1> DEFINE Within(run) ==
              /\ \A t \in Tasks : tasks'[t] /= tasks[t] => RunOf[t] = run
              /\ \A l \in Leases : leases'[l] /= leases[l] => RunOf[leases'[l].task] = run
<1>0. tasks \in TaskTable /\ leases \in LeaseTable
  BY DEF TypeOK, TaskTable, LeaseTable
<1>1. UNCHANGED <<tasks, leases>> => Within(None)
  OBVIOUS
<1>2. ASSUME NEW t \in Tasks, NEW state \in {"pending", "ready"}, AddTask(t, state)
      PROVE  Within(RunOf[t])
  BY <1>0, <1>2 DEF AddTask, TaskTable
<1>3. ASSUME NEW a \in Agents, NEW t \in Tasks, NEW k \in Leases,
             NEW s \in LeaseSeconds, NEW v \in TaskVersions \cup {None},
             NEW at \in Readings, ClaimTask(a, t, k, s, v, at)
      PROVE  Within(RunOf[a])
  <2>1. ClaimedRows(a, t, k, s, at)
    BY <1>3, ClaimRows
  <2>2. at \in Nat /\ RunOf[a] \in Runs
    BY <2>1 DEF ClaimedRows
  <2>3. ASSUME NEW u \in Tasks, tasks'[u] /= tasks[u] PROVE RunOf[u] = RunOf[a]
    <3>1. CASE u = t
      BY <2>1, <3>1 DEF ClaimedRows
    <3>2. CASE u /= t
      BY <2>1, <2>2, <2>3, <3>2, SweptTask DEF ClaimedRows
    <3> QED BY <3>1, <3>2
  <2>4. ASSUME NEW l \in Leases, leases'[l] /= leases[l]
        PROVE  RunOf[leases'[l].task] = RunOf[a]
    <3>1. CASE l = k
      BY <2>1, <3>1 DEF ClaimedRows
    <3>2. CASE l /= k
      <4>1. leases'[l] = ExpireLeases(RunOf[a], at)[l]
        BY <2>1, <3>2 DEF ClaimedRows
      <4> QED BY <2>2, <2>4, <4>1, SweptLease
    <3> QED BY <3>1, <3>2
  <2> QED BY <2>3, <2>4
<1>4. ASSUME NEW a \in Agents, NEW k \in Leases, NEW lv \in LeaseVersions,
             NEW s \in LeaseSeconds, NEW at \in Readings, RenewLease(a, k, lv, s, at)
      PROVE  Within(RunOf[a])
  <2>1. /\ tasks' = tasks /\ RunOf[leases[k].task] = RunOf[a]
        /\ leases'[k].task = leases[k].task
        /\ \A l \in Leases : l /= k => leases'[l] = leases[l]
    BY <1>0, <1>4 DEF RenewLease, Renewable, NextLease, LeaseTable
  <2>2. ASSUME NEW l \in Leases, leases'[l] /= leases[l]
        PROVE  RunOf[leases'[l].task] = RunOf[a]
    BY <2>1, <2>2
  <2>3. \A t \in Tasks : tasks'[t] = tasks[t]
    BY <2>1
  <2> QED BY <2>2, <2>3
<1>5. ASSUME NEW a \in Agents, NEW t \in Tasks, NEW l \in Leases,
             NEW tv \in TaskVersions, NEW lv \in LeaseVersions, NEW at \in Readings,
             \/ CheckpointTask(a, t, l, tv, lv, at)
             \/ \E o \in Outcomes : CompleteTask(a, t, l, tv, lv, o, at)
             \/ ReleaseTask(a, t, l, tv, lv, at)
      PROVE  Within(RunOf[t])
  <2>1. /\ Owns(a, t, l, tv, lv, at)
        /\ \E newT : tasks' = [tasks EXCEPT ![t] = newT]
        /\ \E status : leases' = [leases EXCEPT ![l] = NextLease(@, status, @.expires)]
    BY <1>5 DEF CheckpointTask, CompleteTask, ReleaseTask, EndLease
  <2>2. leases[l].task = t
    BY <2>1, OwnedRows
  <2>3. /\ \A u \in Tasks : u /= t => tasks'[u] = tasks[u]
        /\ leases'[l].task = t
        /\ \A k \in Leases : k /= l => leases'[k] = leases[k]
    BY <1>0, <2>1, <2>2 DEF NextLease, TaskTable, LeaseTable
  <2> QED BY <2>3
<1> HIDE DEF Within
<1>6. UNCHANGED <<tasks, leases>> \/ \E x \in Agents \cup Tasks : Within(RunOf[x])
  BY <1>2, <1>3, <1>4, <1>5 DEF Next, vars, Tick, EnsureRun, JoinAgent, AddDependency
<1> QED BY <1>1, <1>6 DEF Within

\* The sweep of a claim, and every other command, stays within one run.
THEOREM RunsAreIsolated == Spec => RunIsolation
<1>1. TypeOK /\ TypeOK' /\ LeaseAgreement /\ [Next]_vars =>
        [\A r, s \in Runs : Touches(r) /\ Touches(s) => r = s]_vars
  <2> SUFFICES ASSUME TypeOK, TypeOK', LeaseAgreement, [Next]_vars,
                      NEW r \in Runs, NEW s \in Runs, Touches(r), Touches(s)
               PROVE  r = s
    OBVIOUS
  <2> QED BY StepHasRun DEF Touches
<1> QED BY <1>1, TypeCorrect, LeasesAgree, PTL DEF Spec, RunIsolation

-----------------------------------------------------------------------------
\* A task outside the hands of its holder neither ends nor comes back, and a
\* lease that completed is never touched again: what a step leaves alone.
StandsOn(t) ==
    /\ tasks'[t].state \in {"completed", "failed"}
        <=> tasks[t].state \in {"completed", "failed"}
    /\ tasks'[t].state = "completed" <=> tasks[t].state = "completed"
    /\ completions'[t] = completions[t]

LeaseStandsOn(l) ==
    /\ leases'[l].status = "completed" <=> leases[l].status = "completed"
    /\ leases[l].status = "completed" => leases'[l] = leases[l]

\* Only a completion ends a task or a lease.
LEMMA OnlyCompletionEnds ==
    ASSUME TypeOK, LeaseAgreement, [Next]_vars
    PROVE  \/ \E a \in Agents, t \in Tasks, l \in Leases, tv \in TaskVersions,
               lv \in LeaseVersions, o \in Outcomes, at \in Readings :
                    CompleteTask(a, t, l, tv, lv, o, at)
           \/ /\ \A t \in Tasks : StandsOn(t)
              /\ \A l \in Leases : LeaseStandsOn(l)
<1> USE ScopeAssumption, NoneAssumption
<1> DEFINE Quiet == /\ \A t \in Tasks : StandsOn(t)
                    /\ \A l \in Leases : LeaseStandsOn(l)
<1>0. tasks \in TaskTable /\ leases \in LeaseTable
  BY DEF TypeOK, TaskTable, LeaseTable
<1>1. CASE UNCHANGED <<tasks, leases, completions>>
  BY <1>1 DEF StandsOn, LeaseStandsOn
<1>2. ASSUME NEW t \in Tasks, NEW state \in {"pending", "ready"}, AddTask(t, state)
      PROVE  Quiet
  BY <1>0, <1>2 DEF AddTask, TaskTable, StandsOn, LeaseStandsOn
<1>3. ASSUME NEW a \in Agents, NEW t \in Tasks, NEW k \in Leases,
             NEW s \in LeaseSeconds, NEW v \in TaskVersions \cup {None},
             NEW at \in Readings, ClaimTask(a, t, k, s, v, at)
      PROVE  Quiet
  <2>1. ClaimedRows(a, t, k, s, at)
    BY <1>3, ClaimRows
  <2>2. at \in Nat /\ RunOf[a] \in Runs /\ completions' = completions
    BY <2>1 DEF ClaimedRows
  <2>3. ASSUME NEW u \in Tasks PROVE StandsOn(u)
    <3>1. \/ ReleaseExpiredTasks(RunOf[a], at)[u] = tasks[u]
          \/ /\ tasks[u].state = "claimed"
             /\ ReleaseExpiredTasks(RunOf[a], at)[u].state = "ready"
      BY <2>2, SweptTask
    <3>2. CASE u = t
      <4>1. /\ tasks'[u].state = "claimed"
            /\ ReleaseExpiredTasks(RunOf[a], at)[u].state \in {"pending", "ready"}
        BY <2>1, <3>2 DEF ClaimedRows, NextTask
      <4> QED BY <2>2, <3>1, <4>1 DEF StandsOn
    <3>3. CASE u /= t
      <4>1. tasks'[u] = ReleaseExpiredTasks(RunOf[a], at)[u]
        BY <2>1, <3>3 DEF ClaimedRows
      <4> QED BY <2>2, <3>1, <4>1 DEF StandsOn
    <3> QED BY <3>2, <3>3
  <2>4. ASSUME NEW l \in Leases PROVE LeaseStandsOn(l)
    <3>1. CASE l = k
      BY <2>1, <3>1 DEF ClaimedRows, LeaseStandsOn
    <3>2. CASE l /= k
      <4>1. leases'[l] = ExpireLeases(RunOf[a], at)[l]
        BY <2>1, <3>2 DEF ClaimedRows
      <4>2. \/ leases'[l] = leases[l]
            \/ leases[l].status = "active" /\ leases'[l].status = "expired"
        BY <2>2, <4>1, SweptLease
      <4> QED BY <4>2 DEF LeaseStandsOn
    <3> QED BY <3>1, <3>2
  <2> QED BY <2>3, <2>4
<1>4. ASSUME NEW a \in Agents, NEW k \in Leases, NEW lv \in LeaseVersions,
             NEW s \in LeaseSeconds, NEW at \in Readings, RenewLease(a, k, lv, s, at)
      PROVE  Quiet
  BY <1>0, <1>4 DEF RenewLease, Renewable, NextLease, LeaseTable, StandsOn, LeaseStandsOn
<1>5. ASSUME NEW a \in Agents, NEW t \in Tasks, NEW l \in Leases,
             NEW tv \in TaskVersions, NEW lv \in LeaseVersions, NEW at \in Readings,
             CheckpointTask(a, t, l, tv, lv, at) \/ ReleaseTask(a, t, l, tv, lv, at)
      PROVE  Quiet
  <2>1. /\ tasks[t].state = "claimed" /\ leases[l].status = "active"
        /\ completions' = completions
    BY <1>5 DEF CheckpointTask, ReleaseTask, Owns
  <2>2. /\ tasks'[t].state \in {"claimed", "ready", "blocked"}
        /\ \A u \in Tasks : u /= t => tasks'[u] = tasks[u]
    BY <1>0, <1>5 DEF CheckpointTask, ReleaseTask, NextTask, TaskTable
  <2>3. /\ leases'[l].status \in {"active", "released"}
        /\ \A k \in Leases : k /= l => leases'[k] = leases[k]
    BY <1>0, <1>5 DEF CheckpointTask, ReleaseTask, EndLease, NextLease, LeaseTable
  <2>4. \A u \in Tasks : StandsOn(u)
    BY <2>1, <2>2 DEF StandsOn
  <2>5. \A k \in Leases : LeaseStandsOn(k)
    BY <2>1, <2>3 DEF LeaseStandsOn
  <2> QED BY <2>4, <2>5
<1> HIDE DEF Quiet
<1>6. \/ \E a \in Agents, t \in Tasks, l \in Leases, tv \in TaskVersions,
         lv \in LeaseVersions, o \in Outcomes, at \in Readings :
              CompleteTask(a, t, l, tv, lv, o, at)
      \/ UNCHANGED <<tasks, leases, completions>>
      \/ Quiet
  BY <1>2, <1>3, <1>4, <1>5 DEF Next, vars, Tick, EnsureRun, JoinAgent, AddDependency
<1> QED BY <1>1, <1>6 DEF Quiet

\* What a completion does to the rows: one task and its lease end together and
\* the completion that names both is the first of its task.
CompletedRows(a, t, l, o) ==
    /\ tasks[t].state = "claimed" /\ tasks[t].owner = a
    /\ leases[l].status = "active"
    /\ tasks'[t].state = FinalState(o)
    /\ tasks'[t].owner = None /\ tasks'[t].lease = None
    /\ leases'[l].status = "completed" /\ leases'[l].task = t /\ leases'[l].owner = a
    /\ completions[t] = None
    /\ completions'[t] = [lease |-> l, agent |-> a, outcome |-> o]
    /\ \A u \in Tasks : u /= t => tasks'[u] = tasks[u] /\ completions'[u] = completions[u]
    /\ \A k \in Leases : k /= l => leases'[k] = leases[k]
    /\ deps' = deps

LEMMA CompleteRows ==
    ASSUME TypeOK, NEW a \in Agents, NEW t \in Tasks, NEW l \in Leases,
           NEW tv \in TaskVersions, NEW lv \in LeaseVersions, NEW o \in Outcomes,
           NEW at \in Readings, CompleteTask(a, t, l, tv, lv, o, at)
    PROVE  CompletedRows(a, t, l, o)
  BY OwnedRows DEF CompletedRows, CompleteTask, EndLease, NextTask, NextLease, TypeOK

\* A completion stands: whatever commits later, a task that ended, its
\* completion and the lease it names go on telling the same.
THEOREM CompletionsStand == Spec => []CompletionAgreement
<1> USE NoneAssumption, NoRowAssumption
<1>1. Init => CompletionAgreement
  BY DEF Init, CompletionAgreement, NoLease
<1>2. TypeOK /\ TypeOK' /\ LeaseAgreement /\ CompletionAgreement /\ [Next]_vars
        => CompletionAgreement'
  <2> SUFFICES ASSUME TypeOK, TypeOK', LeaseAgreement, CompletionAgreement, [Next]_vars
               PROVE  CompletionAgreement'
    OBVIOUS
  <2>0. /\ leases \in LeaseTable /\ completions \in [Tasks -> CompletionRow \cup {None}]
    BY DEF TypeOK, LeaseTable
  <2>1. CASE /\ \A t \in Tasks : StandsOn(t)
             /\ \A l \in Leases : LeaseStandsOn(l)
    <3>1. \A t \in Tasks : completions[t] \in CompletionRow => completions[t].lease \in Leases
      BY DEF CompletionRow
    <3>2. \A l \in Leases : leases[l].status = "completed" => leases[l].task \in Tasks
      BY <2>0, UsedLease DEF LeaseRow
    <3> QED BY <2>1, <3>1, <3>2 DEF CompletionAgreement, StandsOn, LeaseStandsOn
  <2>2. ASSUME NEW a \in Agents, NEW t \in Tasks, NEW l \in Leases,
               NEW tv \in TaskVersions, NEW lv \in LeaseVersions, NEW o \in Outcomes,
               NEW at \in Readings, CompleteTask(a, t, l, tv, lv, o, at)
        PROVE  CompletionAgreement'
    <3>0. CompletedRows(a, t, l, o)
      BY <2>2, CompleteRows
    <3>1. /\ tasks[t].state = "claimed" /\ leases[l].status = "active"
          /\ tasks'[t].state = FinalState(o)
          /\ leases'[l].status = "completed" /\ leases'[l].task = t /\ leases'[l].owner = a
          /\ completions[t] = None
          /\ completions'[t] = [lease |-> l, agent |-> a, outcome |-> o]
          /\ \A u \in Tasks : u /= t =>
               tasks'[u] = tasks[u] /\ completions'[u] = completions[u]
          /\ \A k \in Leases : k /= l => leases'[k] = leases[k]
      BY <3>0 DEF CompletedRows
    <3>2. ASSUME NEW u \in Tasks
          PROVE  IF tasks'[u].state \in {"completed", "failed"}
                 THEN /\ completions'[u] \in CompletionRow
                      /\ tasks'[u].state = "completed" <=> completions'[u].outcome = "succeeded"
                      /\ leases'[completions'[u].lease].status = "completed"
                      /\ leases'[completions'[u].lease].task = u
                      /\ leases'[completions'[u].lease].owner = completions'[u].agent
                 ELSE completions'[u] = None
      <4>1. CASE u = t
        BY <3>1, <4>1 DEF FinalState, Outcomes, CompletionRow
      <4>2. CASE u /= t
        <5>1. tasks'[u] = tasks[u] /\ completions'[u] = completions[u]
          BY <3>1, <4>2
        <5>2. CASE tasks[u].state \in {"completed", "failed"}
          <6>1. /\ completions[u] \in CompletionRow /\ completions[u].lease \in Leases
                /\ leases[completions[u].lease].status = "completed"
            BY <5>2 DEF CompletionAgreement, CompletionRow
          <6>2. completions[u].lease /= l
            BY <3>1, <6>1
          <6>3. leases'[completions[u].lease] = leases[completions[u].lease]
            BY <3>1, <6>1, <6>2
          <6>4. /\ tasks[u].state = "completed" <=> completions[u].outcome = "succeeded"
                /\ leases[completions[u].lease].task = u
                /\ leases[completions[u].lease].owner = completions[u].agent
            BY <5>2 DEF CompletionAgreement
          <6> QED BY <5>1, <5>2, <6>1, <6>3, <6>4
        <5>3. CASE tasks[u].state \notin {"completed", "failed"}
          BY <5>1, <5>3 DEF CompletionAgreement
        <5> QED BY <5>2, <5>3
      <4> QED BY <4>1, <4>2
    <3>3. ASSUME NEW k \in Leases, leases'[k].status = "completed"
          PROVE  completions'[leases'[k].task] /= None /\ completions'[leases'[k].task].lease = k
      <4>1. CASE k = l
        <5>1. completions'[t] \in CompletionRow
          BY <3>1 DEF CompletionRow
        <5> QED BY <3>1, <4>1, <5>1
      <4>2. CASE k /= l
        <5>1. /\ leases'[k] = leases[k] /\ leases[k].task \in Tasks
              /\ completions[leases[k].task] /= None
              /\ completions[leases[k].task].lease = k
          <6>1. leases'[k] = leases[k] /\ leases[k].status = "completed"
            BY <3>1, <3>3, <4>2
          <6>2. leases[k] \in LeaseRow
            BY <2>0, <6>1, UsedLease
          <6> QED BY <6>1, <6>2 DEF LeaseRow, CompletionAgreement
        <5> QED BY <3>1, <5>1
      <4> QED BY <4>1, <4>2
    <3> QED BY <3>2, <3>3 DEF CompletionAgreement
  <2> QED BY <2>1, <2>2, OnlyCompletionEnds
<1> QED BY <1>1, <1>2, TypeCorrect, LeasesAgree, PTL DEF Spec

-----------------------------------------------------------------------------
\* The board as the store shows it.
Holder == [t \in Tasks |-> tasks[t].owner]
EndedAs == [t \in Tasks |->
    IF tasks[t].state \in {"completed", "failed"} THEN tasks[t].state ELSE "open"]
Needs == [t \in Tasks |-> {p \in Tasks : <<t, p, "blocks">> \in deps}]

\* A claim takes a ready task for one agent; the holders whose leases it swept
\* lose theirs in the same step.
LEMMA ClaimTakes ==
    ASSUME TypeOK, LeaseAgreement, NEW a \in Agents, NEW t \in Tasks, NEW l \in Leases,
           NEW s \in LeaseSeconds, NEW v \in TaskVersions \cup {None},
           NEW at \in Readings, ClaimTask(a, t, l, s, v, at)
    PROVE  Board!Take(t, a)
<1> USE ScopeAssumption, NoneAssumption
<1> DEFINE swept == ReleaseExpiredTasks(RunOf[a], at)
           lost == {u \in Tasks : swept[u] /= tasks[u]}
<1>1. ClaimedRows(a, t, l, s, at)
  BY ClaimRows
<1>2. at \in Nat /\ RunOf[a] \in Runs
  BY <1>1 DEF ClaimedRows
<1>3. \A u \in Tasks :
        /\ swept[u].owner = (IF u \in lost THEN None ELSE tasks[u].owner)
        /\ swept[u].state \in {"completed", "failed"} <=>
                tasks[u].state \in {"completed", "failed"}
        /\ swept[u].state \in {"completed", "failed"} => swept[u].state = tasks[u].state
  BY <1>2, SweptTask
<1>4. /\ tasks'[t].state = "claimed" /\ tasks'[t].owner = a
      /\ \A u \in Tasks : u /= t => tasks'[u] = swept[u]
      /\ swept[t].state \in {"pending", "ready"} /\ swept[t].lease = None
      /\ \A p \in Tasks : <<t, p, "blocks">> \in deps => swept[p].state = "completed"
      /\ deps' = deps
  BY <1>1 DEF ClaimedRows, NextTask
<1>5. swept[t].owner = None
  <2>1. CASE t \in lost
    BY <1>3, <2>1
  <2>2. CASE t \notin lost
    BY <1>4, <2>2 DEF LeaseAgreement, Agree
  <2> QED BY <2>1, <2>2
<1> HIDE DEF swept, lost
<1>6. Holder' = [[u \in Tasks |-> IF u \in lost THEN None ELSE Holder[u]] EXCEPT ![t] = a]
  <2> DEFINE H == [[u \in Tasks |-> IF u \in lost THEN None ELSE Holder[u]] EXCEPT ![t] = a]
  <2>1. \A u \in Tasks : Holder'[u] = tasks'[u].owner /\ Holder[u] = tasks[u].owner
    BY DEF Holder
  <2>2. Holder'[t] = H[t]
    BY <1>4, <2>1
  <2>3. \A u \in Tasks : u /= t => Holder'[u] = H[u]
    BY <1>3, <1>4, <2>1
  <2>4. Holder' = [u \in Tasks |-> Holder'[u]] /\ H = [u \in Tasks |-> H[u]]
    BY DEF Holder
  <2> HIDE DEF H
  <2>5. Holder' = H
    BY <2>2, <2>3, <2>4
  <2> QED BY <2>5 DEF H
<1>7. EndedAs' = EndedAs
  BY <1>3, <1>4 DEF EndedAs
<1>8. Needs' = Needs
  BY <1>4 DEF Needs
<1>9. EndedAs[t] = "open" /\ \A p \in Needs[t] : EndedAs[p] = "completed"
  BY <1>3, <1>4 DEF EndedAs, Needs
<1>10. (IF t \in lost THEN None ELSE Holder[t]) = None
  BY <1>3, <1>5 DEF Holder
<1>11. lost \in SUBSET Tasks
  BY DEF lost
<1> QED
  BY <1>6, <1>7, <1>8, <1>9, <1>10, <1>11
     DEF Board!Take, Board!Ready, Board!LoseThen, Holder, EndedAs, Needs

\* A step of the store is a step of the board or changes nothing of it: claims
\* map to Take, completions to End, releases to Lose, blocking edges to Require.
LEMMA StepKeepsBoard ==
    TypeOK /\ TypeOK' /\ LeaseAgreement /\ [Next]_vars => [Board!Next]_(Board!boardVars)
<1> SUFFICES ASSUME TypeOK, TypeOK', LeaseAgreement, [Next]_vars
             PROVE  Board!Next \/ UNCHANGED Board!boardVars
  OBVIOUS
<1> USE NoneAssumption
<1> DEFINE Same == Holder' = Holder /\ EndedAs' = EndedAs /\ Needs' = Needs
<1>0. tasks \in TaskTable
  BY DEF TypeOK, TaskTable
<1>1. Same => UNCHANGED Board!boardVars
  BY DEF Holder, EndedAs, Needs, Board!boardVars
<1>2. CASE UNCHANGED <<tasks, deps>>
  BY <1>1, <1>2 DEF Holder, EndedAs, Needs
<1>3. ASSUME NEW t \in Tasks, NEW state \in {"pending", "ready"}, AddTask(t, state)
      PROVE  Same
  <2>1. /\ tasks[t].state = "absent" /\ deps' = deps
        /\ tasks'[t].state \in {"pending", "ready"} /\ tasks'[t].owner = None
        /\ \A u \in Tasks : u /= t => tasks'[u] = tasks[u]
    BY <1>0, <1>3 DEF AddTask, TaskTable
  <2>2. tasks[t].owner = None
    BY <2>1 DEF LeaseAgreement, Agree
  <2> QED BY <2>1, <2>2 DEF Holder, EndedAs, Needs
<1>4. ASSUME NEW t \in Tasks, NEW u \in Tasks, NEW kind \in Kinds,
             AddDependency(t, u, kind)
      PROVE  Same \/ Board!Require(t, u)
  <2>1. /\ t /= u /\ tasks' = tasks /\ deps' = deps \cup {<<t, u, kind>>}
    BY <1>4 DEF AddDependency
  <2>2. CASE kind = "related"
    <3>1. \A x, y \in Tasks : <<x, y, "blocks">> \in deps' <=> <<x, y, "blocks">> \in deps
      BY <2>1, <2>2
    <3> QED BY <2>1, <3>1 DEF Holder, EndedAs, Needs
  <2>3. CASE kind = "blocks"
    <3>1. Needs' = [Needs EXCEPT ![t] = @ \cup {u}]
      BY <2>1, <2>3 DEF Needs
    <3> QED BY <2>1, <3>1 DEF Board!Require, Needs, Holder, EndedAs
  <2> QED BY <2>2, <2>3 DEF Kinds
<1>5. ASSUME NEW a \in Agents, NEW t \in Tasks, NEW l \in Leases,
             NEW tv \in TaskVersions, NEW lv \in LeaseVersions, NEW at \in Readings,
             CheckpointTask(a, t, l, tv, lv, at)
      PROVE  Same
  <2>1. Owns(a, t, l, tv, lv, at) /\ deps' = deps
    BY <1>5 DEF CheckpointTask
  <2>2. tasks[t].state = "claimed" /\ tasks[t].owner = a
    BY <2>1, OwnedRows
  <2>3. /\ tasks'[t].state = "claimed" /\ tasks'[t].owner = a
        /\ \A u \in Tasks : u /= t => tasks'[u] = tasks[u]
    BY <1>0, <1>5 DEF CheckpointTask, NextTask, TaskTable
  <2> QED BY <2>1, <2>2, <2>3 DEF Holder, EndedAs, Needs
<1>6. ASSUME NEW a \in Agents, NEW t \in Tasks, NEW l \in Leases,
             NEW tv \in TaskVersions, NEW lv \in LeaseVersions, NEW o \in Outcomes,
             NEW at \in Readings, CompleteTask(a, t, l, tv, lv, o, at)
      PROVE  Board!End(t, FinalState(o))
  <2>1. /\ tasks[t].state = "claimed" /\ tasks[t].owner = a
        /\ tasks'[t].state = FinalState(o) /\ tasks'[t].owner = None
        /\ \A u \in Tasks : u /= t => tasks'[u] = tasks[u]
        /\ deps' = deps
    <3>1. CompletedRows(a, t, l, o)
      BY <1>6, CompleteRows
    <3> QED BY <3>1 DEF CompletedRows
  <2>2. FinalState(o) \in {"completed", "failed"}
    BY DEF FinalState
  <2>3. /\ Holder' = [Holder EXCEPT ![t] = None]
        /\ EndedAs' = [EndedAs EXCEPT ![t] = FinalState(o)]
        /\ Needs' = Needs
        /\ Holder[t] /= None /\ EndedAs[t] = "open"
    BY <2>1, <2>2 DEF Holder, EndedAs, Needs
  <2> QED BY <2>3 DEF Board!End, Holder, EndedAs, Needs
<1>7. ASSUME NEW a \in Agents, NEW t \in Tasks, NEW l \in Leases,
             NEW tv \in TaskVersions, NEW lv \in LeaseVersions, NEW at \in Readings,
             ReleaseTask(a, t, l, tv, lv, at)
      PROVE  Board!Lose
  <2>1. Owns(a, t, l, tv, lv, at) /\ deps' = deps
    BY <1>7 DEF ReleaseTask
  <2>2. tasks[t].state = "claimed"
    BY <2>1, OwnedRows
  <2>3. /\ tasks'[t].state \in {"ready", "blocked"} /\ tasks'[t].owner = None
        /\ \A u \in Tasks : u /= t => tasks'[u] = tasks[u]
    BY <1>0, <1>7 DEF ReleaseTask, NextTask, TaskTable
  <2>4. /\ Holder' = [u \in Tasks |-> IF u \in {t} THEN None ELSE Holder[u]]
        /\ EndedAs' = EndedAs /\ Needs' = Needs
    BY <2>1, <2>2, <2>3 DEF Holder, EndedAs, Needs
  <2>5. {t} \in SUBSET Tasks
    OBVIOUS
  <2> QED BY <2>4, <2>5 DEF Board!Lose, Board!LoseThen, Holder, EndedAs, Needs
<1>8. CASE \E a \in Agents, t \in Tasks, l \in Leases, s \in LeaseSeconds,
             v \in TaskVersions \cup {None}, at \in Readings : ClaimTask(a, t, l, s, v, at)
  BY <1>8, ClaimTakes DEF Board!Next
<1> HIDE DEF Same
<1>9. \A o \in Outcomes : FinalState(o) \in Board!Endings \ {"open"}
  BY DEF FinalState, Board!Endings
<1>10. CASE \E a \in Agents, t \in Tasks, l \in Leases, tv \in TaskVersions,
              lv \in LeaseVersions, o \in Outcomes, at \in Readings :
                   CompleteTask(a, t, l, tv, lv, o, at)
  BY <1>6, <1>9, <1>10 DEF Board!Next
<1> QED
  BY <1>1, <1>2, <1>3, <1>4, <1>5, <1>7, <1>8, <1>10
     DEF Next, vars, Tick, EnsureRun, JoinAgent, RenewLease, Board!Next

\* The store implements the task board.
THEOREM CoordinationImplementsTaskBoard == Spec => BoardKept
<1>1. Init => Board!Init
  BY DEF Init, Board!Init
<1> QED
  BY <1>1, StepKeepsBoard, TypeCorrect, LeasesAgree, PTL DEF Spec, BoardKept, Board!Spec


-----------------------------------------------------------------------------
(* The history a task leaves: sessions in order, versions accounted for,   *)
(* and a DAG that never waits on itself.                                   *)

\* Every lease and every event belongs to a task that was added, and the lease
\* an event names is a lease of its task.
Rooted ==
    /\ \A l \in Leases : leases[l].status /= "free" => tasks[leases[l].task].state /= "absent"
    /\ \A t \in Tasks : \A i \in DOMAIN ledger[t] :
        /\ leases[ledger[t][i].lease].status /= "free"
        /\ leases[ledger[t][i].lease].task = t

\* The last event of a claimed task lies in the session of its holder.
OpenSession ==
    \A t \in Tasks : tasks[t].state = "claimed" =>
        LET n == Len(ledger[t])
        IN  /\ n > 0
            /\ ledger[t][n].type \notin {"task_completed", "task_released"}
            /\ ledger[t][n].lease = tasks[t].lease
            /\ ledger[t][n].agent = tasks[t].owner

\* No set of tasks waits only on itself: every nonempty set has a task with no
\* edge into the set.
Founded ==
    \A S \in SUBSET Tasks : S /= {} =>
        \E t \in S : \A u \in S, kind \in Kinds : <<t, u, kind>> \notin deps

\* Edges join tasks that were added.
EdgesJoin ==
    \A e \in deps : tasks[e[1]].state /= "absent" /\ tasks[e[2]].state /= "absent"

-----------------------------------------------------------------------------
\* What a command of a holder leaves behind: one event of its task, and the
\* rows of its task and of its lease moved on as that event says.
WorkedRows(a, t, l, type) ==
    /\ tasks[t].state = "claimed" /\ tasks[t].lease = l /\ tasks[t].owner = a
    /\ leases[l].status = "active" /\ leases[l].task = t /\ leases[l].owner = a
    /\ \E v : ledger' = [ledger EXCEPT ![t] = Append(@, Event(type, a, l, v))]
    /\ leases'[l].task = t
    /\ leases'[l].version = leases[l].version + 1
    /\ IF type \in {"lease_renewed", "task_checkpointed"}
       THEN leases'[l].status = "active"
       ELSE leases'[l].status \notin {"active", "expired", "free"}
    /\ \A k \in Leases : k /= l => leases'[k] = leases[k]
    /\ IF type \in {"lease_renewed", "task_checkpointed"}
       THEN tasks'[t].state = "claimed" /\ tasks'[t].lease = l /\ tasks'[t].owner = a
       ELSE tasks'[t].state \notin {"claimed", "absent"}
    /\ tasks'[t].version = tasks[t].version + (IF type = "lease_renewed" THEN 0 ELSE 1)
    /\ \A u \in Tasks : u /= t => tasks'[u] = tasks[u]
    /\ checkpoints' = IF type = "task_checkpointed"
                      THEN [checkpoints EXCEPT ![t] = Append(@, [lease |-> l, agent |-> a])]
                      ELSE checkpoints
    /\ deps' = deps

WorkTypes == {"lease_renewed", "task_checkpointed", "task_completed", "task_released"}

LEMMA RenewWorks ==
    ASSUME TypeOK, LeaseAgreement, NEW a \in Agents, NEW l \in Leases,
           NEW lv \in LeaseVersions, NEW s \in LeaseSeconds, NEW at \in Readings,
           RenewLease(a, l, lv, s, at)
    PROVE  leases[l].task \in Tasks /\ WorkedRows(a, leases[l].task, l, "lease_renewed")
<1> DEFINE t == leases[l].task
<1>0. tasks \in TaskTable /\ leases \in LeaseTable
  BY DEF TypeOK, TaskTable, LeaseTable
<1>1. /\ leases[l].status = "active" /\ leases[l].owner = a /\ leases[l].version = lv
      /\ tasks[t].state = "claimed" /\ tasks[t].lease = l
      /\ leases' = [leases EXCEPT ![l] =
                        NextLease(@, "active", GreaterOf(@.expires, at + s))]
      /\ ledger' = [ledger EXCEPT ![t] = Append(@, Event("lease_renewed", a, l, lv + 1))]
      /\ UNCHANGED <<tasks, deps, checkpoints>>
  BY DEF RenewLease, Renewable, AppendEvent
<1>2. leases[l] \in LeaseRow /\ t \in Tasks
  BY <1>0, <1>1, UsedLease DEF LeaseRow
<1>3. tasks[t].owner = a
  BY <1>1, <1>2 DEF LeaseAgreement, Agree
<1>4. /\ leases'[l].task = t /\ leases'[l].version = leases[l].version + 1
      /\ leases'[l].status = "active"
      /\ \A k \in Leases : k /= l => leases'[k] = leases[k]
  BY <1>0, <1>1 DEF LeaseTable, NextLease
<1>5. tasks[t].version + 0 = tasks[t].version
  BY <1>0, <1>2 DEF TaskTable, TaskRow
<1> HIDE DEF t
<1>6. WorkedRows(a, t, l, "lease_renewed")
  BY <1>1, <1>3, <1>4, <1>5 DEF WorkedRows, t
<1> QED BY <1>2, <1>6 DEF t

LEMMA OwnerWorks ==
    ASSUME TypeOK, NEW a \in Agents, NEW t \in Tasks, NEW l \in Leases,
           NEW tv \in TaskVersions, NEW lv \in LeaseVersions, NEW at \in Readings
    PROVE  /\ CheckpointTask(a, t, l, tv, lv, at) => WorkedRows(a, t, l, "task_checkpointed")
           /\ \A o \in Outcomes : CompleteTask(a, t, l, tv, lv, o, at)
                => WorkedRows(a, t, l, "task_completed")
           /\ ReleaseTask(a, t, l, tv, lv, at) => WorkedRows(a, t, l, "task_released")
<1>0. tasks \in TaskTable /\ leases \in LeaseTable
  BY DEF TypeOK, TaskTable, LeaseTable
<1> DEFINE Moved(state, owner, lease, status) ==
        /\ tasks[t].state = "claimed" /\ tasks[t].lease = l /\ tasks[t].owner = a
        /\ leases[l].status = "active" /\ leases[l].task = t /\ leases[l].owner = a
        /\ tasks'[t].state = state /\ tasks'[t].owner = owner /\ tasks'[t].lease = lease
        /\ tasks'[t].version = tasks[t].version + 1
        /\ \A u \in Tasks : u /= t => tasks'[u] = tasks[u]
        /\ leases'[l].status = status /\ leases'[l].task = t
        /\ leases'[l].version = leases[l].version + 1
        /\ \A k \in Leases : k /= l => leases'[k] = leases[k]
<1>1. ASSUME Owns(a, t, l, tv, lv, at), NEW state, NEW owner, NEW lease, NEW status,
             tasks' = [tasks EXCEPT ![t] = NextTask(@, state, owner, lease)],
             leases' = [leases EXCEPT ![l] = NextLease(@, status, @.expires)]
      PROVE  Moved(state, owner, lease, status)
  BY <1>0, <1>1, OwnedRows DEF TaskTable, LeaseTable, NextTask, NextLease
<1> HIDE DEF Moved
<1>2. ASSUME CheckpointTask(a, t, l, tv, lv, at)
      PROVE  WorkedRows(a, t, l, "task_checkpointed")
  <2>1. /\ Owns(a, t, l, tv, lv, at)
        /\ tasks' = [tasks EXCEPT ![t] = NextTask(@, "claimed", a, l)]
        /\ leases' = [leases EXCEPT ![l] = NextLease(@, "active", @.expires)]
        /\ checkpoints' = [checkpoints EXCEPT ![t] = Append(@, [lease |-> l, agent |-> a])]
        /\ ledger' = [ledger EXCEPT ![t] = Append(@, Event("task_checkpointed", a, l, tv + 1))]
        /\ deps' = deps
    BY <1>2 DEF CheckpointTask, AppendEvent
  <2>2. Moved("claimed", a, l, "active")
    BY <1>1, <2>1
  <2> QED BY <2>1, <2>2 DEF Moved, WorkedRows
<1>3. ASSUME NEW o \in Outcomes, CompleteTask(a, t, l, tv, lv, o, at)
      PROVE  WorkedRows(a, t, l, "task_completed")
  <2>1. /\ Owns(a, t, l, tv, lv, at)
        /\ tasks' = [tasks EXCEPT ![t] = NextTask(@, FinalState(o), None, None)]
        /\ leases' = [leases EXCEPT ![l] = NextLease(@, "completed", @.expires)]
        /\ ledger' = [ledger EXCEPT ![t] = Append(@, Event("task_completed", a, l, tv + 1))]
        /\ UNCHANGED <<deps, checkpoints>>
    BY <1>3 DEF CompleteTask, AppendEvent, EndLease
  <2>2. FinalState(o) \notin {"claimed", "absent"}
    BY DEF FinalState
  <2>3. Moved(FinalState(o), None, None, "completed")
    BY <1>1, <2>1
  <2> QED BY <2>1, <2>2, <2>3 DEF Moved, WorkedRows
<1>4. ASSUME ReleaseTask(a, t, l, tv, lv, at)
      PROVE  WorkedRows(a, t, l, "task_released")
  <2> DEFINE state == IF Unfinished(tasks, t) = {} THEN "ready" ELSE "blocked"
  <2>1. /\ Owns(a, t, l, tv, lv, at)
        /\ tasks' = [tasks EXCEPT ![t] = NextTask(@, state, None, None)]
        /\ leases' = [leases EXCEPT ![l] = NextLease(@, "released", @.expires)]
        /\ ledger' = [ledger EXCEPT ![t] = Append(@, Event("task_released", a, l, tv + 1))]
        /\ UNCHANGED <<deps, checkpoints>>
    BY <1>4 DEF ReleaseTask, AppendEvent, EndLease
  <2>2. state \notin {"claimed", "absent"}
    OBVIOUS
  <2> HIDE DEF state
  <2>3. Moved(state, None, None, "released")
    BY <1>1, <2>1
  <2> QED BY <2>1, <2>2, <2>3 DEF Moved, WorkedRows
<1> QED BY <1>2, <1>3, <1>4

\* Every step that writes rows is one of three: a task is added, a task is
\* claimed, or a holder works on its task.
StepRows ==
    \/ \E t \in Tasks, state \in {"pending", "ready"} : AddTask(t, state)
    \/ \E a \in Agents, t \in Tasks, l \in Leases, s \in LeaseSeconds,
          at \in Readings : ClaimedRows(a, t, l, s, at)
    \/ \E a \in Agents, t \in Tasks, l \in Leases, type \in WorkTypes :
          WorkedRows(a, t, l, type)

LEMMA StepIsRows ==
    ASSUME TypeOK, LeaseAgreement, [Next]_vars
    PROVE  \/ UNCHANGED <<tasks, leases, checkpoints, ledger>>
           \/ StepRows
<1>1. CASE \E a \in Agents, t \in Tasks, l \in Leases, s \in LeaseSeconds,
              v \in TaskVersions \cup {None}, at \in Readings : ClaimTask(a, t, l, s, v, at)
  BY <1>1, ClaimRows DEF StepRows
<1>2. CASE \E a \in Agents, l \in Leases, lv \in LeaseVersions, s \in LeaseSeconds,
              at \in Readings : RenewLease(a, l, lv, s, at)
  BY <1>2, RenewWorks DEF StepRows, WorkTypes
<1>3. CASE \E a \in Agents, t \in Tasks, l \in Leases, tv \in TaskVersions,
              lv \in LeaseVersions, at \in Readings : CheckpointTask(a, t, l, tv, lv, at)
  BY <1>3, OwnerWorks DEF StepRows, WorkTypes
<1>4. CASE \E a \in Agents, t \in Tasks, l \in Leases, tv \in TaskVersions,
              lv \in LeaseVersions, o \in Outcomes, at \in Readings :
                   CompleteTask(a, t, l, tv, lv, o, at)
  BY <1>4, OwnerWorks DEF StepRows, WorkTypes
<1>5. CASE \E a \in Agents, t \in Tasks, l \in Leases, tv \in TaskVersions,
              lv \in LeaseVersions, at \in Readings : ReleaseTask(a, t, l, tv, lv, at)
  BY <1>5, OwnerWorks DEF StepRows, WorkTypes
<1>6. CASE \E t \in Tasks, state \in {"pending", "ready"} : AddTask(t, state)
  BY <1>6 DEF StepRows
<1> QED
  BY <1>1, <1>2, <1>3, <1>4, <1>5, <1>6
     DEF Next, vars, Tick, EnsureRun, JoinAgent, AddDependency

-----------------------------------------------------------------------------
\* One event more in the history of t, and no other history changed.
Logged(t, e) ==
    /\ Len(ledger[t]) \in Nat
    /\ DOMAIN ledger[t] = 1..Len(ledger[t])
    /\ Len(ledger'[t]) = Len(ledger[t]) + 1
    /\ DOMAIN ledger'[t] = 1..(Len(ledger[t]) + 1)
    /\ ledger'[t][Len(ledger[t]) + 1] = e
    /\ \A i \in 1..Len(ledger[t]) : ledger'[t][i] = ledger[t][i]
    /\ \A u \in Tasks : u /= t => ledger'[u] = ledger[u]

LEMMA AppendLogs ==
    ASSUME TypeOK, NEW t \in Tasks, NEW e, ledger' = [ledger EXCEPT ![t] = Append(@, e)]
    PROVE  Logged(t, e)
<1>1. /\ ledger'[t] = Append(ledger[t], e) /\ ledger[t] \in Seq(EventRow)
      /\ \A u \in Tasks : u /= t => ledger'[u] = ledger[u]
  BY DEF TypeOK
<1>2. /\ Len(ledger[t]) \in Nat /\ DOMAIN ledger[t] = 1..Len(ledger[t])
      /\ Len(ledger'[t]) = Len(ledger[t]) + 1
      /\ DOMAIN ledger'[t] = 1..(Len(ledger[t]) + 1)
      /\ ledger'[t][Len(ledger[t]) + 1] = e
      /\ \A i \in 1..Len(ledger[t]) : ledger'[t][i] = ledger[t][i]
  BY <1>1
<1> QED BY <1>1, <1>2 DEF Logged

\* The event a claim writes.
LEMMA ClaimLogs ==
    ASSUME TypeOK, NEW a \in Agents, NEW t \in Tasks, NEW l \in Leases,
           NEW s \in LeaseSeconds, NEW at \in Readings, ClaimedRows(a, t, l, s, at)
    PROVE  \E v : Logged(t, Event("task_claimed", a, l, v))
  BY AppendLogs DEF ClaimedRows

\* The event a holder's command writes.
LEMMA WorkLogs ==
    ASSUME TypeOK, NEW a \in Agents, NEW t \in Tasks, NEW l \in Leases,
           NEW type \in WorkTypes, WorkedRows(a, t, l, type)
    PROVE  \E v : Logged(t, Event(type, a, l, v))
  BY AppendLogs DEF WorkedRows

\* Rows persist: a task that was added stays added, and a lease id that was
\* drawn keeps its task.
Persist ==
    /\ \A u \in Tasks : tasks[u].state /= "absent" => tasks'[u].state /= "absent"
    /\ \A k \in Leases : leases[k].status /= "free" =>
        leases'[k].status /= "free" /\ leases'[k].task = leases[k].task

LEMMA ClaimPersists ==
    ASSUME TypeOK, LeaseAgreement, NEW a \in Agents, NEW t \in Tasks, NEW l \in Leases,
           NEW s \in LeaseSeconds, NEW at \in Readings, ClaimedRows(a, t, l, s, at)
    PROVE  /\ Persist
           /\ tasks'[t].state = "claimed" /\ tasks'[t].lease = l /\ tasks'[t].owner = a
           /\ leases'[l].status = "active" /\ leases'[l].task = t /\ leases'[l].version = 1
           /\ leases[l].status = "free"
           /\ \A k \in Leases : k /= l =>
                \/ leases'[k] = leases[k]
                \/ leases[k].status = "active" /\ leases'[k].status = "expired"
                    /\ leases'[k].task = leases[k].task
           /\ \A u \in Tasks : u /= t =>
                \/ tasks'[u] = tasks[u]
                \/ tasks[u].state = "claimed" /\ tasks'[u].state = "ready"
<1>1. at \in Nat /\ RunOf[a] \in Runs
  BY ScopeAssumption DEF ClaimedRows
<1>2. /\ tasks'[t].state = "claimed" /\ tasks'[t].lease = l /\ tasks'[t].owner = a
      /\ leases'[l].status = "active" /\ leases'[l].task = t /\ leases'[l].version = 1
      /\ leases[l].status = "free"
  BY DEF ClaimedRows, NextTask
<1>3. ASSUME NEW k \in Leases, k /= l
      PROVE  \/ leases'[k] = leases[k]
             \/ leases[k].status = "active" /\ leases'[k].status = "expired"
                 /\ leases'[k].task = leases[k].task
  <2>1. leases'[k] = ExpireLeases(RunOf[a], at)[k]
    BY <1>3 DEF ClaimedRows
  <2> QED BY <1>1, <2>1, SweptLease
<1>4. ASSUME NEW u \in Tasks, u /= t
      PROVE  \/ tasks'[u] = tasks[u]
             \/ tasks[u].state = "claimed" /\ tasks'[u].state = "ready"
  <2>1. tasks'[u] = ReleaseExpiredTasks(RunOf[a], at)[u]
    BY <1>4 DEF ClaimedRows
  <2> QED BY <1>1, <2>1, SweptTask
<1>5. Persist
  <2>1. \A u \in Tasks : tasks[u].state /= "absent" => tasks'[u].state /= "absent"
    BY <1>2, <1>4
  <2>2. \A k \in Leases : leases[k].status /= "free" =>
            leases'[k].status /= "free" /\ leases'[k].task = leases[k].task
    BY <1>2, <1>3
  <2> QED BY <2>1, <2>2 DEF Persist
<1> QED BY <1>2, <1>3, <1>4, <1>5

LEMMA WorkPersists ==
    ASSUME NEW a \in Agents, NEW t \in Tasks, NEW l \in Leases,
           NEW type \in WorkTypes, WorkedRows(a, t, l, type)
    PROVE  Persist
<1>1. \A u \in Tasks : tasks[u].state /= "absent" => tasks'[u].state /= "absent"
  BY DEF WorkedRows
<1>2. \A k \in Leases : leases[k].status /= "free" =>
        leases'[k].status /= "free" /\ leases'[k].task = leases[k].task
  BY DEF WorkedRows
<1> QED BY <1>1, <1>2 DEF Persist

\* Histories grow under the tasks and leases they are about.
LEMMA RootedStep ==
    ASSUME TypeOK, LeaseAgreement, Rooted, [Next]_vars
    PROVE  Rooted'
<1>0. /\ \A l \in Leases : leases[l].status /= "free" => leases[l].task \in Tasks
      /\ \A t \in Tasks : \A i \in DOMAIN ledger[t] : ledger[t][i].lease \in Leases
  <2>1. leases \in LeaseTable /\ ledger \in [Tasks -> Seq(EventRow)]
    BY DEF TypeOK, LeaseTable
  <2>2. \A t \in Tasks : \A i \in DOMAIN ledger[t] : ledger[t][i] \in EventRow
    BY <2>1
  <2> QED BY <2>1, <2>2, UsedLease DEF LeaseRow, EventRow
<1>1. CASE UNCHANGED <<tasks, leases, checkpoints, ledger>>
  BY <1>1 DEF Rooted
<1>2. ASSUME NEW t \in Tasks, NEW state \in {"pending", "ready"}, AddTask(t, state)
      PROVE  Rooted'
  <2>1. /\ leases' = leases /\ ledger' = ledger
        /\ \A u \in Tasks : tasks[u].state /= "absent" => tasks'[u].state /= "absent"
    BY <1>2 DEF AddTask, TypeOK
  <2> QED BY <1>0, <2>1 DEF Rooted
<1>3. ASSUME Persist, NEW t \in Tasks, NEW l \in Leases, NEW type, NEW a, NEW v,
             Logged(t, Event(type, a, l, v)),
             leases'[l].status /= "free", leases'[l].task = t, tasks'[t].state /= "absent",
             \A k \in Leases : k /= l /\ leases'[k].status /= "free" => leases[k].status /= "free"
      PROVE  Rooted'
  <2>1. ASSUME NEW k \in Leases, leases'[k].status /= "free"
        PROVE  tasks'[leases'[k].task].state /= "absent"
    <3>1. CASE k = l
      BY <1>3, <3>1
    <3>2. CASE k /= l
      BY <1>0, <1>3, <2>1, <3>2 DEF Rooted, Persist
    <3> QED BY <3>1, <3>2
  <2>2. ASSUME NEW u \in Tasks, NEW i \in DOMAIN ledger'[u]
        PROVE  /\ leases'[ledger'[u][i].lease].status /= "free"
               /\ leases'[ledger'[u][i].lease].task = u
    <3>1. CASE i \in DOMAIN ledger[u] /\ ledger'[u][i] = ledger[u][i]
      BY <1>0, <1>3, <3>1, SMTT(20), ZenonT(30) DEF Rooted, Persist
    <3>2. CASE u = t /\ i = Len(ledger[t]) + 1
      <4>1. ledger'[u][i].lease = l
        BY <1>3, <3>2 DEF Logged, Event
      <4> QED BY <1>3, <3>2, <4>1
    <3>3. CASE u /= t
      <4>1. ledger'[u] = ledger[u]
        BY <1>3, <3>3 DEF Logged
      <4> QED BY <2>2, <3>1, <4>1
    <3>4. CASE u = t
      <4>1. i \in 1..Len(ledger[t]) \/ i = Len(ledger[t]) + 1
        BY <1>3, <2>2, <3>4 DEF Logged
      <4>2. i \in 1..Len(ledger[t]) => i \in DOMAIN ledger[u] /\ ledger'[u][i] = ledger[u][i]
        BY <1>3, <3>4 DEF Logged
      <4> QED BY <3>1, <3>2, <3>4, <4>1, <4>2
    <3> QED BY <3>3, <3>4
  <2> QED BY <2>1, <2>2 DEF Rooted
<1>4. ASSUME NEW a \in Agents, NEW t \in Tasks, NEW l \in Leases, NEW s \in LeaseSeconds,
             NEW at \in Readings, ClaimedRows(a, t, l, s, at)
      PROVE  Rooted'
  <2>1. PICK v : Logged(t, Event("task_claimed", a, l, v))
    BY <1>4, ClaimLogs
  <2>2. Persist
    BY <1>4, ClaimPersists
  <2>3. /\ leases'[l].status /= "free" /\ leases'[l].task = t /\ tasks'[t].state /= "absent"
        /\ \A k \in Leases : k /= l /\ leases'[k].status /= "free" => leases[k].status /= "free"
    BY <1>4, ClaimPersists
  <2> QED BY <1>3, <2>1, <2>2, <2>3
<1>5. ASSUME NEW a \in Agents, NEW t \in Tasks, NEW l \in Leases, NEW type \in WorkTypes,
             WorkedRows(a, t, l, type)
      PROVE  Rooted'
  <2>1. PICK v : Logged(t, Event(type, a, l, v))
    BY <1>5, WorkLogs
  <2>2. Persist
    BY <1>5, WorkPersists
  <2>3. /\ leases'[l].status /= "free" /\ leases'[l].task = t /\ tasks'[t].state /= "absent"
        /\ \A k \in Leases : k /= l /\ leases'[k].status /= "free" => leases[k].status /= "free"
    BY <1>5 DEF WorkedRows
  <2> QED BY <1>3, <2>1, <2>2, <2>3
<1> QED BY <1>1, <1>2, <1>4, <1>5, StepIsRows DEF StepRows

-----------------------------------------------------------------------------
\* A claimed task's history ends in the session of its holder.
LEMMA OpenSessionStep ==
    ASSUME TypeOK, LeaseAgreement, OpenSession, [Next]_vars
    PROVE  OpenSession'
<1> DEFINE Open(u) == tasks[u].state = "claimed" =>
                /\ Len(ledger[u]) > 0
                /\ ledger[u][Len(ledger[u])].type \notin {"task_completed", "task_released"}
                /\ ledger[u][Len(ledger[u])].lease = tasks[u].lease
                /\ ledger[u][Len(ledger[u])].agent = tasks[u].owner
<1>0. \A u \in Tasks : Open(u)
  BY DEF OpenSession
<1>1. ASSUME NEW u \in Tasks, ledger'[u] = ledger[u],
             tasks'[u] = tasks[u] \/ tasks'[u].state /= "claimed"
      PROVE  Open(u)'
  BY <1>0, <1>1
<1>2. CASE UNCHANGED <<tasks, leases, checkpoints, ledger>>
  BY <1>0, <1>2 DEF OpenSession
<1>3. ASSUME NEW t \in Tasks, NEW state \in {"pending", "ready"}, AddTask(t, state)
      PROVE  \A u \in Tasks : Open(u)'
  <2>1. /\ ledger' = ledger /\ tasks'[t].state /= "claimed"
        /\ \A u \in Tasks : u /= t => tasks'[u] = tasks[u]
    BY <1>3 DEF AddTask, TypeOK
  <2> HIDE DEF Open
  <2> QED BY <1>1, <2>1
<1>4. ASSUME NEW t \in Tasks, NEW type, NEW a, NEW l, NEW v, Logged(t, Event(type, a, l, v)),
             tasks'[t].state = "claimed" => /\ type \notin {"task_completed", "task_released"}
                                            /\ tasks'[t].lease = l /\ tasks'[t].owner = a,
             \A u \in Tasks : u /= t => tasks'[u] = tasks[u] \/ tasks'[u].state /= "claimed"
      PROVE  \A u \in Tasks : Open(u)'
  <2>1. Open(t)'
    BY <1>4 DEF Logged, Event
  <2>2. ASSUME NEW u \in Tasks, u /= t PROVE Open(u)'
    <3>1. ledger'[u] = ledger[u]
      BY <1>4, <2>2 DEF Logged
    <3> HIDE DEF Open
    <3> QED BY <1>1, <1>4, <2>2, <3>1
  <2> HIDE DEF Open
  <2> QED BY <2>1, <2>2
<1>5. ASSUME NEW a \in Agents, NEW t \in Tasks, NEW l \in Leases, NEW s \in LeaseSeconds,
             NEW at \in Readings, ClaimedRows(a, t, l, s, at)
      PROVE  \A u \in Tasks : Open(u)'
  <2>1. PICK v : Logged(t, Event("task_claimed", a, l, v))
    BY <1>5, ClaimLogs
  <2>2. /\ tasks'[t].lease = l /\ tasks'[t].owner = a
        /\ \A u \in Tasks : u /= t => tasks'[u] = tasks[u] \/ tasks'[u].state /= "claimed"
    BY <1>5, ClaimPersists
  <2> HIDE DEF Open
  <2> QED BY <1>4, <2>1, <2>2
<1>6. ASSUME NEW a \in Agents, NEW t \in Tasks, NEW l \in Leases, NEW type \in WorkTypes,
             WorkedRows(a, t, l, type)
      PROVE  \A u \in Tasks : Open(u)'
  <2>1. PICK v : Logged(t, Event(type, a, l, v))
    BY <1>6, WorkLogs
  <2>2. /\ tasks'[t].state = "claimed" => /\ type \notin {"task_completed", "task_released"}
                                           /\ tasks'[t].lease = l /\ tasks'[t].owner = a
        /\ \A u \in Tasks : u /= t => tasks'[u] = tasks[u] \/ tasks'[u].state /= "claimed"
    BY <1>6 DEF WorkedRows
  <2> HIDE DEF Open
  <2> QED BY <1>4, <2>1, <2>2
<1> HIDE DEF Open
<1>7. OpenSession' \/ \A u \in Tasks : Open(u)'
  BY <1>2, <1>3, <1>5, <1>6, StepIsRows DEF StepRows
<1> QED BY <1>7 DEF OpenSession, Open

\* How many elements of a history lie in X.
CountOf(s, X) == Cardinality({i \in DOMAIN s : s[i] \in X})

\* Appending counts the element appended.
LEMMA AppendCount ==
    ASSUME NEW S, NEW X, NEW s \in Seq(S), NEW e, NEW z,
           Len(s) \in Nat, DOMAIN s = 1..Len(s), DOMAIN z = 1..(Len(s) + 1),
           z[Len(s) + 1] = e, \A i \in 1..Len(s) : z[i] = s[i]
    PROVE  /\ CountOf(s, X) \in Nat
           /\ CountOf(z, X) = CountOf(s, X) + (IF e \in X THEN 1 ELSE 0)
<1> DEFINE A == {i \in 1..Len(s) : s[i] \in X}
           B == {i \in 1..(Len(s) + 1) : z[i] \in X}
<1>1. IsFiniteSet(A) /\ Cardinality(A) \in Nat
  <2>1. IsFiniteSet(1..Len(s)) /\ A \in SUBSET (1..Len(s))
    BY FS_Interval
  <2>2. IsFiniteSet(A)
    BY <2>1, FS_Subset
  <2> QED BY <2>2, FS_CardinalityType
<1>2. B = IF e \in X THEN A \cup {Len(s) + 1} ELSE A
  OBVIOUS
<1>3. Len(s) + 1 \notin A
  OBVIOUS
<1>4. Cardinality(B) = Cardinality(A) + (IF e \in X THEN 1 ELSE 0)
  <2> HIDE DEF A, B
  <2>1. Cardinality(A \cup {Len(s) + 1}) = Cardinality(A) + 1
    BY <1>1, <1>3, FS_AddElement
  <2> QED BY <1>1, <1>2, <2>1
<1>5. CountOf(s, X) = Cardinality(A) /\ CountOf(z, X) = Cardinality(B)
  BY DEF CountOf
<1> QED BY <1>1, <1>4, <1>5

-----------------------------------------------------------------------------
\* The two halves of SessionOrder for one task.
InSession(t) ==
    \A i \in DOMAIN ledger[t] :
        \/ ledger[t][i].type = "task_claimed"
        \/ /\ i > 1
           /\ ledger[t][i - 1].type \notin {"task_completed", "task_released"}
           /\ ledger[t][i - 1].lease = ledger[t][i].lease
           /\ ledger[t][i - 1].agent = ledger[t][i].agent

Nth(s, i) == Cardinality({j \in 1..i : IsCheckpoint(s[j])})

Journalled(t) ==
    /\ Len(checkpoints[t]) = EventCount(t, IsCheckpoint)
    /\ \A i \in DOMAIN ledger[t] :
        IsCheckpoint(ledger[t][i]) =>
            checkpoints[t][Nth(ledger[t], i)] =
                [lease |-> ledger[t][i].lease, agent |-> ledger[t][i].agent]

LEMMA SessionHalves ==
    /\ SessionOrder <=> \A t \in Tasks : InSession(t) /\ Journalled(t)
    /\ SessionOrder' <=> \A t \in Tasks : InSession(t)' /\ Journalled(t)'
  BY DEF SessionOrder, InSession, Journalled, Nth

\* The events of a history that a test holds for, as a set of events.
LEMMA CountedEvents ==
    ASSUME NEW s, \A i \in DOMAIN s : s[i] \in EventRow
    PROVE  /\ Cardinality({i \in DOMAIN s : IsCheckpoint(s[i])}) =
                CountOf(s, {e \in EventRow : IsCheckpoint(e)})
           /\ Cardinality({i \in DOMAIN s : IsTaskEvent(s[i])}) =
                CountOf(s, {e \in EventRow : IsTaskEvent(e)})
           /\ \A l : Cardinality({i \in DOMAIN s : Advances(s[i], l)}) =
                CountOf(s, {e \in EventRow : Advances(e, l)})
<1>1. {i \in DOMAIN s : IsCheckpoint(s[i])} =
        {i \in DOMAIN s : s[i] \in {e \in EventRow : IsCheckpoint(e)}}
  OBVIOUS
<1>2. {i \in DOMAIN s : IsTaskEvent(s[i])} =
        {i \in DOMAIN s : s[i] \in {e \in EventRow : IsTaskEvent(e)}}
  OBVIOUS
<1>3. ASSUME NEW l
      PROVE  {i \in DOMAIN s : Advances(s[i], l)} =
                {i \in DOMAIN s : s[i] \in {e \in EventRow : Advances(e, l)}}
  OBVIOUS
<1> QED BY <1>1, <1>2, <1>3 DEF CountOf

\* One event more counts in the tests it passes.
LEMMA LoggedCount ==
    ASSUME TypeOK, NEW t \in Tasks, NEW e \in EventRow, Logged(t, e), NEW X
    PROVE  /\ CountOf(ledger[t], X) \in Nat
           /\ CountOf(ledger'[t], X) = CountOf(ledger[t], X) + (IF e \in X THEN 1 ELSE 0)
<1>1. ledger[t] \in Seq(EventRow)
  BY DEF TypeOK
<1>2. /\ Len(ledger[t]) \in Nat /\ DOMAIN ledger[t] = 1..Len(ledger[t])
      /\ DOMAIN ledger'[t] = 1..(Len(ledger[t]) + 1)
      /\ ledger'[t][Len(ledger[t]) + 1] = e
      /\ \A i \in 1..Len(ledger[t]) : ledger'[t][i] = ledger[t][i]
  BY DEF Logged
<1> QED BY <1>1, <1>2, AppendCount, SMTT(30)

\* A session goes on with an event of its holder, or a claim opens the next.
LEMMA SessionGoesOn ==
    ASSUME TypeOK, NEW t \in Tasks, NEW e, Logged(t, e), InSession(t),
           \/ e.type = "task_claimed"
           \/ LET n == Len(ledger[t])
              IN  /\ n > 0
                  /\ ledger[t][n].type \notin {"task_completed", "task_released"}
                  /\ ledger[t][n].lease = e.lease
                  /\ ledger[t][n].agent = e.agent
    PROVE  InSession(t)'
<1>1. ASSUME NEW i \in DOMAIN ledger'[t]
      PROVE  \/ ledger'[t][i].type = "task_claimed"
             \/ /\ i > 1
                /\ ledger'[t][i - 1].type \notin {"task_completed", "task_released"}
                /\ ledger'[t][i - 1].lease = ledger'[t][i].lease
                /\ ledger'[t][i - 1].agent = ledger'[t][i].agent
  <2>1. CASE i \in 1..Len(ledger[t])
    BY <2>1, SMTT(30) DEF Logged, InSession
  <2>2. CASE i = Len(ledger[t]) + 1
    BY <2>2 DEF Logged
  <2> QED BY <1>1, <2>1, <2>2 DEF Logged
<1> QED BY <1>1 DEF InSession

\* The journal keeps up with the history: a checkpoint adds its row, any other
\* event none.
LEMMA JournalGoesOn ==
    ASSUME TypeOK, TypeOK', NEW t \in Tasks, NEW e \in EventRow, Logged(t, e), Journalled(t),
           checkpoints'[t] = IF IsCheckpoint(e)
                             THEN Append(checkpoints[t], [lease |-> e.lease, agent |-> e.agent])
                             ELSE checkpoints[t]
    PROVE  Journalled(t)'
<1> DEFINE n == Len(ledger[t])
           m == Len(checkpoints[t])
<1>0. /\ n \in Nat /\ DOMAIN ledger[t] = 1..n /\ DOMAIN ledger'[t] = 1..(n + 1)
      /\ ledger'[t][n + 1] = e /\ \A i \in 1..n : ledger'[t][i] = ledger[t][i]
      /\ checkpoints[t] \in Seq(CheckpointRow) /\ m \in Nat
  BY DEF Logged, TypeOK
<1>1. /\ Len(checkpoints'[t]) = m + (IF IsCheckpoint(e) THEN 1 ELSE 0)
      /\ \A i \in 1..m : checkpoints'[t][i] = checkpoints[t][i]
      /\ IsCheckpoint(e) => checkpoints'[t][m + 1] = [lease |-> e.lease, agent |-> e.agent]
  <2>1. CASE IsCheckpoint(e)
    <3>1. checkpoints'[t] = Append(checkpoints[t], [lease |-> e.lease, agent |-> e.agent])
      BY <2>1
    <3>2. [lease |-> e.lease, agent |-> e.agent] \in CheckpointRow
      BY DEF EventRow, CheckpointRow
    <3> HIDE DEF m
    <3>3. /\ Len(checkpoints'[t]) = Len(checkpoints[t]) + 1
          /\ \A i \in 1..Len(checkpoints[t]) : checkpoints'[t][i] = checkpoints[t][i]
          /\ checkpoints'[t][Len(checkpoints[t]) + 1] = [lease |-> e.lease, agent |-> e.agent]
      BY <1>0, <3>1, <3>2
    <3> QED BY <2>1, <3>3 DEF m
  <2>2. CASE ~ IsCheckpoint(e)
    BY <1>0, <2>2
  <2> QED BY <2>1, <2>2
<1>2. /\ EventCount(t, IsCheckpoint) = m
      /\ EventCount(t, IsCheckpoint)' = m + (IF IsCheckpoint(e) THEN 1 ELSE 0)
  <2>1. EventCount(t, IsCheckpoint)' = CountOf(ledger'[t], {x \in EventRow : IsCheckpoint(x)})
    <3>1. \A i \in DOMAIN ledger'[t] : ledger'[t][i] \in EventRow
      BY DEF TypeOK
    <3> QED BY <3>1, CountedEvents DEF EventCount
  <2>2. EventCount(t, IsCheckpoint) = CountOf(ledger[t], {x \in EventRow : IsCheckpoint(x)})
    <3>1. \A i \in DOMAIN ledger[t] : ledger[t][i] \in EventRow
      BY DEF TypeOK
    <3> QED BY <3>1, CountedEvents DEF EventCount
  <2>3. e \in {x \in EventRow : IsCheckpoint(x)} <=> IsCheckpoint(e)
    OBVIOUS
  <2> QED BY <2>1, <2>2, <2>3, LoggedCount DEF Journalled
<1>3. ASSUME NEW i \in 1..n, IsCheckpoint(ledger[t][i])
      PROVE  /\ Nth(ledger'[t], i) = Nth(ledger[t], i)
             /\ Nth(ledger[t], i) \in 1..m
  <2> DEFINE A == {j \in 1..i : IsCheckpoint(ledger[t][j])}
             C == {j \in 1..n : IsCheckpoint(ledger[t][j])}
  <2>1. A \in SUBSET C /\ i \in A
    BY <1>0, <1>3
  <2>2. {j \in 1..i : IsCheckpoint(ledger'[t][j])} = A
    <3>1. \A j \in 1..i : ledger'[t][j] = ledger[t][j]
      BY <1>0
    <3> QED BY <3>1
  <2>3. IsFiniteSet(C) /\ Cardinality(C) = m
    <3>1. IsFiniteSet(1..n) /\ C \in SUBSET (1..n)
      BY <1>0, FS_Interval
    <3>2. IsFiniteSet(C)
      BY <3>1, FS_Subset
    <3>3. Cardinality(C) = m
      BY <1>0, <1>2 DEF EventCount
    <3> QED BY <3>2, <3>3
  <2> HIDE DEF A, C
  <2>4. IsFiniteSet(A) /\ Cardinality(A) <= m
    BY <2>1, <2>3, FS_Subset
  <2>5. Cardinality(A) \in Nat /\ Cardinality(A) /= 0
    BY <2>1, <2>4, FS_CardinalityType, FS_EmptySet
  <2>6. Nth(ledger'[t], i) = Cardinality(A) /\ Nth(ledger[t], i) = Cardinality(A)
    BY <2>2 DEF Nth, A
  <2> QED BY <1>0, <2>4, <2>5, <2>6
<1>4. IsCheckpoint(e) => Nth(ledger'[t], n + 1) = m + 1
  BY <1>0, <1>2 DEF Nth, EventCount
<1>5. ASSUME NEW i \in DOMAIN ledger'[t], IsCheckpoint(ledger'[t][i])
      PROVE  checkpoints'[t][Nth(ledger'[t], i)] =
                [lease |-> ledger'[t][i].lease, agent |-> ledger'[t][i].agent]
  <2>1. CASE i \in 1..n
    <3>1. checkpoints[t][Nth(ledger[t], i)] =
                [lease |-> ledger[t][i].lease, agent |-> ledger[t][i].agent]
      BY <1>0, <1>5, <2>1 DEF Journalled
    <3>2. Nth(ledger'[t], i) = Nth(ledger[t], i) /\ Nth(ledger[t], i) \in 1..m
      BY <1>0, <1>3, <1>5, <2>1
    <3>3. checkpoints'[t][Nth(ledger[t], i)] = checkpoints[t][Nth(ledger[t], i)]
      BY <1>1, <3>2
    <3> QED BY <1>0, <2>1, <3>1, <3>2, <3>3
  <2>2. CASE i = n + 1
    <3>1. IsCheckpoint(e)
      BY <1>0, <1>5, <2>2
    <3>2. Nth(ledger'[t], i) = m + 1 /\ ledger'[t][i] = e
      BY <1>0, <1>4, <2>2, <3>1
    <3>3. checkpoints'[t][m + 1] = [lease |-> e.lease, agent |-> e.agent]
      BY <1>1, <3>1
    <3> HIDE DEF m
    <3> QED BY <3>2, <3>3
  <2>3. i \in 1..n \/ i = n + 1
    BY <1>0, <1>5
  <2> QED BY <2>1, <2>2, <2>3
<1> QED BY <1>1, <1>2, <1>5 DEF Journalled

-----------------------------------------------------------------------------
\* The history of a task is a sequence of sessions and its checkpoints are
\* journalled in that order, whatever claims, sweeps and late commands commit.
LEMMA SessionStep ==
    ASSUME TypeOK, TypeOK', LeaseAgreement, OpenSession, SessionOrder, [Next]_vars
    PROVE  SessionOrder'
<1>0. \A u \in Tasks : InSession(u) /\ Journalled(u)
  BY SessionHalves
<1>1. ASSUME NEW u \in Tasks, ledger'[u] = ledger[u], checkpoints'[u] = checkpoints[u]
      PROVE  InSession(u)' /\ Journalled(u)'
  <2>1. InSession(u)'
    BY <1>0, <1>1 DEF InSession
  <2>2. Journalled(u)'
    BY <1>0, <1>1 DEF Journalled, EventCount
  <2> QED BY <2>1, <2>2
<1>2. CASE UNCHANGED <<ledger, checkpoints>>
  BY <1>1, <1>2, SessionHalves
<1>3. ASSUME NEW t \in Tasks, NEW type, NEW a, NEW l, NEW v,
             Logged(t, Event(type, a, l, v)),
             type /= "task_claimed" =>
                /\ tasks[t].state = "claimed" /\ tasks[t].lease = l /\ tasks[t].owner = a,
             checkpoints' = IF type = "task_checkpointed"
                            THEN [checkpoints EXCEPT ![t] = Append(@, [lease |-> l, agent |-> a])]
                            ELSE checkpoints
      PROVE  SessionOrder'
  <2> DEFINE e == Event(type, a, l, v)
  <2>1. e.type = type /\ e.lease = l /\ e.agent = a
    BY DEF Event
  <2>2. e \in EventRow
    <3>1. ledger' \in [Tasks -> Seq(EventRow)]
      BY DEF TypeOK
    <3>2. ledger'[t][Len(ledger[t]) + 1] = e /\ Len(ledger[t]) + 1 \in DOMAIN ledger'[t]
      BY <1>3 DEF Logged
    <3> HIDE DEF e
    <3> QED BY <3>1, <3>2
  <2>3. Logged(t, e)
    BY <1>3
  <2>4. checkpoints'[t] = IF IsCheckpoint(e)
                          THEN Append(checkpoints[t], [lease |-> e.lease, agent |-> e.agent])
                          ELSE checkpoints[t]
    BY <1>3, <2>1 DEF IsCheckpoint, TypeOK
  <2>5. \/ e.type = "task_claimed"
        \/ LET n == Len(ledger[t])
           IN  /\ n > 0
               /\ ledger[t][n].type \notin {"task_completed", "task_released"}
               /\ ledger[t][n].lease = e.lease
               /\ ledger[t][n].agent = e.agent
    BY <1>3, <2>1 DEF OpenSession
  <2> HIDE DEF e
  <2>6. InSession(t)'
    BY <1>0, <2>3, <2>5, SessionGoesOn
  <2>7. Journalled(t)'
    BY <1>0, <2>2, <2>3, <2>4, JournalGoesOn
  <2>8. ASSUME NEW u \in Tasks, u /= t
        PROVE  ledger'[u] = ledger[u] /\ checkpoints'[u] = checkpoints[u]
    BY <1>3, <2>3, <2>8 DEF Logged, TypeOK
  <2> QED BY <1>1, <2>6, <2>7, <2>8, SessionHalves
<1>4. ASSUME NEW a \in Agents, NEW t \in Tasks, NEW l \in Leases, NEW s \in LeaseSeconds,
             NEW at \in Readings, ClaimedRows(a, t, l, s, at)
      PROVE  SessionOrder'
  <2>1. PICK v : Logged(t, Event("task_claimed", a, l, v))
    BY <1>4, ClaimLogs
  <2>2. checkpoints' = checkpoints
    BY <1>4 DEF ClaimedRows
  <2> QED BY <1>3, <2>1, <2>2
<1>5. ASSUME NEW a \in Agents, NEW t \in Tasks, NEW l \in Leases, NEW type \in WorkTypes,
             WorkedRows(a, t, l, type)
      PROVE  SessionOrder'
  <2>1. PICK v : Logged(t, Event(type, a, l, v))
    BY <1>5, WorkLogs
  <2>2. /\ tasks[t].state = "claimed" /\ tasks[t].lease = l /\ tasks[t].owner = a
        /\ checkpoints' = IF type = "task_checkpointed"
                          THEN [checkpoints EXCEPT ![t] = Append(@, [lease |-> l, agent |-> a])]
                          ELSE checkpoints
    BY <1>5 DEF WorkedRows
  <2> QED BY <1>3, <2>1, <2>2
<1> QED BY <1>2, <1>4, <1>5, StepIsRows DEF StepRows, AddTask

\* The history of a task is a sequence of sessions and its journal follows it: an agent that
\* lost its lease never writes into the session of the next (claim_task, checkpoint_task,
\* release_task, complete_task and their events).
THEOREM SessionsInOrder == Spec => []SessionOrder
<1>1. Init => OpenSession /\ SessionOrder
  <2> SUFFICES ASSUME Init PROVE OpenSession /\ SessionOrder
    OBVIOUS
  <2>1. OpenSession
    BY DEF Init, OpenSession
  <2>2. ASSUME NEW t \in Tasks
        PROVE  /\ DOMAIN ledger[t] = {} /\ Len(checkpoints[t]) = 0
               /\ EventCount(t, IsCheckpoint) = 0
    <3>1. DOMAIN ledger[t] = {} /\ Len(checkpoints[t]) = 0
      BY DEF Init
    <3>2. {i \in DOMAIN ledger[t] : IsCheckpoint(ledger[t][i])} = {}
      BY <3>1
    <3> QED BY <3>1, <3>2, FS_EmptySet DEF EventCount
  <2>3. SessionOrder
    BY <2>2 DEF SessionOrder
  <2> QED BY <2>1, <2>3
<1> QED
  BY <1>1, OpenSessionStep, SessionStep, TypeCorrect, LeasesAgree, PTL DEF Spec

-----------------------------------------------------------------------------
\* The two sums of VersionAccounting, and the finite sets they count.
TaskEvents(t) == EventCount(t, IsTaskEvent)

LeaseEvents(t, l) == EventCount(t, LAMBDA e : Advances(e, l))

TaskAccounted(t) ==
    tasks[t].state /= "absent" =>
        tasks[t].version = 1 + TaskEvents(t) + Cardinality(ExpiredUnder(t))

LeaseAccounted(l) ==
    \A u \in Tasks : leases[l].status /= "free" /\ leases[l].task = u =>
        leases[l].version = 1 + LeaseEvents(u, l)
                              + (IF leases[l].status = "active" THEN 0 ELSE 1)

Accounted ==
    /\ \A t \in Tasks : TaskAccounted(t) /\ IsFiniteSet(ExpiredUnder(t))
    /\ \A l \in Leases : LeaseAccounted(l)

\* The counts are natural numbers.
LEMMA EventsCounted ==
    ASSUME TypeOK, NEW u \in Tasks
    PROVE  TaskEvents(u) \in Nat /\ \A l : LeaseEvents(u, l) \in Nat
<1>1. IsFiniteSet(DOMAIN ledger[u])
  <2>1. DOMAIN ledger[u] = 1..Len(ledger[u]) /\ Len(ledger[u]) \in Nat
    BY DEF TypeOK
  <2> QED BY <2>1, FS_Interval
<1>2. IsFiniteSet({i \in DOMAIN ledger[u] : IsTaskEvent(ledger[u][i])})
  BY <1>1, FS_Subset
<1>3. \A l : IsFiniteSet({i \in DOMAIN ledger[u] : Advances(ledger[u][i], l)})
  BY <1>1, FS_Subset
<1> QED BY <1>2, <1>3, FS_CardinalityType DEF TaskEvents, LeaseEvents, EventCount

LEMMA AccountedIs ==
    TypeOK /\ Accounted => VersionAccounting
<1>1. TypeOK => \A l \in Leases : leases[l].status /= "free" => leases[l].task \in Tasks
  BY UsedLease DEF TypeOK, LeaseTable, LeaseRow
<1> QED
  BY <1>1 DEF Accounted, TaskAccounted, LeaseAccounted, VersionAccounting, TaskEvents, LeaseEvents

\* How one event moves the sums.
LEMMA SumsMove ==
    ASSUME TypeOK, TypeOK', NEW t \in Tasks, NEW e, Logged(t, e)
    PROVE  /\ TaskEvents(t) \in Nat
           /\ TaskEvents(t)' = TaskEvents(t) + (IF e.type /= "lease_renewed" THEN 1 ELSE 0)
           /\ \A l : /\ LeaseEvents(t, l) \in Nat
                     /\ LeaseEvents(t, l)' = LeaseEvents(t, l)
                            + (IF e.lease = l /\ e.type \in {"lease_renewed", "task_checkpointed"}
                               THEN 1 ELSE 0)
           /\ \A u \in Tasks : u /= t =>
                /\ TaskEvents(u)' = TaskEvents(u)
                /\ \A l : LeaseEvents(u, l)' = LeaseEvents(u, l)
<1>1. /\ \A i \in DOMAIN ledger[t] : ledger[t][i] \in EventRow
      /\ \A i \in DOMAIN ledger'[t] : ledger'[t][i] \in EventRow
  BY DEF TypeOK
<1>2. e \in EventRow
  BY <1>1 DEF Logged
<1>3. /\ TaskEvents(t) = CountOf(ledger[t], {x \in EventRow : IsTaskEvent(x)})
      /\ TaskEvents(t)' = CountOf(ledger'[t], {x \in EventRow : IsTaskEvent(x)})
  BY <1>1, CountedEvents DEF TaskEvents, EventCount
<1>4. ASSUME NEW l
      PROVE  /\ LeaseEvents(t, l) = CountOf(ledger[t], {x \in EventRow : Advances(x, l)})
             /\ LeaseEvents(t, l)' = CountOf(ledger'[t], {x \in EventRow : Advances(x, l)})
  BY <1>1, CountedEvents DEF LeaseEvents, EventCount
<1>5. e \in {x \in EventRow : IsTaskEvent(x)} <=> e.type /= "lease_renewed"
  BY <1>2 DEF IsTaskEvent
<1>6. ASSUME NEW l
      PROVE  e \in {x \in EventRow : Advances(x, l)} <=>
                e.lease = l /\ e.type \in {"lease_renewed", "task_checkpointed"}
  BY <1>2 DEF Advances
<1>7. \A u \in Tasks : u /= t =>
        /\ TaskEvents(u)' = TaskEvents(u)
        /\ \A l : LeaseEvents(u, l)' = LeaseEvents(u, l)
  BY DEF Logged, TaskEvents, LeaseEvents, EventCount
<1>8. /\ TaskEvents(t) \in Nat
      /\ TaskEvents(t)' = TaskEvents(t) + (IF e.type /= "lease_renewed" THEN 1 ELSE 0)
  <2> DEFINE X == {x \in EventRow : IsTaskEvent(x)}
  <2> HIDE DEF X
  <2>1. /\ CountOf(ledger[t], X) \in Nat
        /\ CountOf(ledger'[t], X) = CountOf(ledger[t], X) + (IF e \in X THEN 1 ELSE 0)
    BY <1>2, LoggedCount
  <2> QED BY <1>3, <1>5, <2>1 DEF X
<1>9. ASSUME NEW l
      PROVE  /\ LeaseEvents(t, l) \in Nat
             /\ LeaseEvents(t, l)' = LeaseEvents(t, l)
                    + (IF e.lease = l /\ e.type \in {"lease_renewed", "task_checkpointed"}
                       THEN 1 ELSE 0)
  <2> DEFINE X == {x \in EventRow : Advances(x, l)}
  <2> HIDE DEF X
  <2>1. /\ CountOf(ledger[t], X) \in Nat
        /\ CountOf(ledger'[t], X) = CountOf(ledger[t], X) + (IF e \in X THEN 1 ELSE 0)
    BY <1>2, LoggedCount
  <2> QED BY <1>4, <1>6, <2>1 DEF X
<1> QED BY <1>7, <1>8, <1>9

\* A claim's sweep expires at most one lease under a task, the one it named,
\* and moves the task's version by one exactly then.
LEMMA ClaimMoves ==
    ASSUME TypeOK, LeaseAgreement, NEW a \in Agents, NEW t \in Tasks, NEW l \in Leases,
           NEW s \in LeaseSeconds, NEW at \in Readings, ClaimedRows(a, t, l, s, at),
           NEW u \in Tasks
    PROVE  LET more == IF u = t THEN 1 ELSE 0
           IN  \/ /\ ExpiredUnder(u)' = ExpiredUnder(u)
                  /\ tasks'[u].version = tasks[u].version + more
               \/ \E k \in Leases :
                    /\ k \notin ExpiredUnder(u)
                    /\ ExpiredUnder(u)' = ExpiredUnder(u) \cup {k}
                    /\ tasks'[u].version = tasks[u].version + 1 + more
<1> DEFINE run == RunOf[a]
           swept == ReleaseExpiredTasks(run, at)
           more == IF u = t THEN 1 ELSE 0
<1>0. /\ at \in Nat /\ leases[l].status = "free" /\ leases'[l].status = "active"
      /\ \A k \in Leases : k /= l => leases'[k] = ExpireLeases(run, at)[k]
      /\ tasks[u].version \in Nat
  BY DEF ClaimedRows, TypeOK, TaskRow
<1>1. tasks'[u].version = swept[u].version + more
  <2>1. CASE u = t
    BY <2>1 DEF ClaimedRows, NextTask
  <2>2. CASE u /= t
    <3>1. tasks'[u] = swept[u]
      BY <2>2 DEF ClaimedRows
    <3>2. swept[u].version \in Nat
      BY <1>0 DEF ReleaseExpiredTasks, NextTask
    <3> QED BY <2>2, <3>1, <3>2
  <2> QED BY <2>1, <2>2
<1>2. ASSUME NEW k \in Leases
      PROVE  k \in ExpiredUnder(u)' <=>
                \/ k \in ExpiredUnder(u)
                \/ k \in Elapsed(run, at) /\ leases[k].task = u
  <2>1. CASE k = l
    BY <1>0, <2>1 DEF ExpiredUnder, Elapsed
  <2>2. CASE k /= l
    <3>1. leases'[k] = ExpireLeases(run, at)[k]
      BY <1>0, <2>2
    <3>2. CASE k \in Elapsed(run, at)
      <4>1. leases'[k].status = "expired" /\ leases'[k].task = leases[k].task
        BY <3>1, <3>2 DEF ExpireLeases, NextLease
      <4>2. leases[k].status = "active"
        BY <3>2 DEF Elapsed
      <4> QED BY <3>2, <4>1, <4>2 DEF ExpiredUnder
    <3>3. CASE k \notin Elapsed(run, at)
      <4>1. leases'[k] = leases[k]
        BY <3>1, <3>3 DEF ExpireLeases
      <4> QED BY <3>3, <4>1 DEF ExpiredUnder
    <3> QED BY <3>2, <3>3
  <2> QED BY <2>1, <2>2
<1>3. ASSUME NEW k \in Elapsed(run, at), leases[k].task = u
      PROVE  tasks[u].lease = k /\ RunOf[u] = run /\ k \in Leases
  BY <1>3 DEF Elapsed, LeaseAgreement, Agree
<1>4. CASE RunOf[u] = run /\ tasks[u].lease \in Elapsed(run, at)
  <2> DEFINE k == tasks[u].lease
  <2>1. k \in Leases /\ leases[k].status = "active"
    BY <1>4 DEF Elapsed
  <2>2. leases[k].task = u
    BY <2>1, NoneAssumption DEF LeaseAgreement, Agree
  <2>3. swept[u].version = tasks[u].version + 1
    BY <1>4 DEF ReleaseExpiredTasks, NextTask
  <2>4. k \notin ExpiredUnder(u)
    BY <2>1 DEF ExpiredUnder
  <2> HIDE DEF k
  <2>5. ExpiredUnder(u)' = ExpiredUnder(u) \cup {k}
    <3>1. \A j \in Leases : j \in Elapsed(run, at) /\ leases[j].task = u <=> j = k
      BY <1>3, <1>4, <2>2 DEF k
    <3>2. ExpiredUnder(u) \subseteq Leases /\ ExpiredUnder(u)' \subseteq Leases
      BY DEF ExpiredUnder
    <3> HIDE DEF run
    <3> QED BY <1>2, <2>1, <3>1, <3>2
  <2> QED BY <1>0, <1>1, <2>1, <2>3, <2>4, <2>5
<1>5. CASE ~ (RunOf[u] = run /\ tasks[u].lease \in Elapsed(run, at))
  <2>1. swept[u] = tasks[u]
    BY <1>5 DEF ReleaseExpiredTasks
  <2>2. ExpiredUnder(u)' = ExpiredUnder(u)
    <3>1. \A j \in Leases : ~ (j \in Elapsed(run, at) /\ leases[j].task = u)
      BY <1>3, <1>5
    <3>2. ExpiredUnder(u) \subseteq Leases /\ ExpiredUnder(u)' \subseteq Leases
      BY DEF ExpiredUnder
    <3> HIDE DEF run
    <3> QED BY <1>2, <3>1, <3>2
  <2> QED BY <1>0, <1>1, <2>1, <2>2
<1> QED BY <1>4, <1>5

\* The sums stay right, claim by claim and command by command.
LEMMA AccountedStep ==
    ASSUME TypeOK, TypeOK', LeaseAgreement, Rooted, Accounted, [Next]_vars
    PROVE  Accounted'
<1> USE NoneAssumption
<1>0. /\ \A t \in Tasks : TaskAccounted(t) /\ IsFiniteSet(ExpiredUnder(t))
      /\ \A l \in Leases : LeaseAccounted(l)
      /\ \A t \in Tasks : Cardinality(ExpiredUnder(t)) \in Nat /\ tasks[t].version \in Nat
      /\ \A l \in Leases : leases[l].version \in Nat
      /\ \A l \in Leases : leases[l].status /= "free" => leases[l].task \in Tasks
  <2>1. \A t \in Tasks : tasks[t].version \in Nat
    BY DEF TypeOK, TaskRow
  <2>2. \A l \in Leases : leases[l] \in LeaseRow \cup {NoLease}
    BY DEF TypeOK
  <2>3. \A l \in Leases : leases[l].version \in Nat
    BY <2>2 DEF LeaseRow, NoLease
  <2>4. \A l \in Leases : leases[l].status /= "free" => leases[l].task \in Tasks
    BY <2>2 DEF LeaseRow, NoLease
  <2> QED BY <2>1, <2>3, <2>4, FS_CardinalityType DEF Accounted
<1>1. CASE UNCHANGED <<tasks, leases, checkpoints, ledger>>
  BY <1>0, <1>1, ZenonT(40) DEF Accounted, TaskAccounted, LeaseAccounted, ExpiredUnder, TaskEvents,
                    LeaseEvents, EventCount
<1>2. ASSUME NEW t \in Tasks, NEW state \in {"pending", "ready"}, AddTask(t, state)
      PROVE  Accounted'
  <2>1. /\ leases' = leases /\ ledger' = ledger
        /\ tasks[t].state = "absent" /\ tasks'[t].version = 1
        /\ \A u \in Tasks : u /= t => tasks'[u] = tasks[u]
    BY <1>2 DEF AddTask, TypeOK
  <2>2. /\ \A u \in Tasks : TaskEvents(u)' = TaskEvents(u) /\ ExpiredUnder(u)' = ExpiredUnder(u)
        /\ \A u \in Tasks, l \in Leases : LeaseEvents(u, l)' = LeaseEvents(u, l)
    BY <2>1 DEF TaskEvents, LeaseEvents, EventCount, ExpiredUnder
  <2>3. ExpiredUnder(t) = {} /\ TaskEvents(t) = 0
    <3>1. \A l \in Leases : leases[l].status /= "free" => leases[l].task /= t
      BY <2>1 DEF Rooted
    <3>2. \A i \in DOMAIN ledger[t] : ledger[t][i].lease \in Leases
      <4>1. \A i \in DOMAIN ledger[t] : ledger[t][i] \in EventRow
        BY DEF TypeOK
      <4> QED BY <4>1 DEF EventRow
    <3>3. DOMAIN ledger[t] = {}
      BY <3>1, <3>2 DEF Rooted
    <3>4. {i \in DOMAIN ledger[t] : IsTaskEvent(ledger[t][i])} = {}
      BY <3>3
    <3> QED BY <3>1, <3>4, FS_EmptySet DEF ExpiredUnder, TaskEvents, EventCount
  <2>4. TaskAccounted(t)'
    <3>1. TaskEvents(t)' = 0 /\ Cardinality(ExpiredUnder(t)') = 0
      BY <2>2, <2>3, FS_EmptySet
    <3> QED BY <2>1, <3>1 DEF TaskAccounted
  <2>5. \A u \in Tasks : u /= t => TaskAccounted(u)'
    BY <1>0, <2>1, <2>2 DEF TaskAccounted
  <2>6. \A l \in Leases : LeaseAccounted(l)'
    BY <1>0, <2>1, <2>2 DEF LeaseAccounted
  <2> QED BY <1>0, <2>2, <2>4, <2>5, <2>6 DEF Accounted
<1>3. ASSUME NEW a \in Agents, NEW t \in Tasks, NEW l \in Leases, NEW s \in LeaseSeconds,
             NEW at \in Readings, ClaimedRows(a, t, l, s, at)
      PROVE  Accounted'
  <2>1. PICK v : Logged(t, Event("task_claimed", a, l, v))
    BY <1>3, ClaimLogs
  <2>2. /\ TaskEvents(t)' = TaskEvents(t) + 1
        /\ \A u \in Tasks : u /= t => TaskEvents(u)' = TaskEvents(u)
        /\ \A u \in Tasks, k \in Leases : LeaseEvents(u, k)' = LeaseEvents(u, k)
    BY <2>1, SumsMove DEF Event
  <2>3. ASSUME NEW u \in Tasks PROVE TaskAccounted(u)' /\ IsFiniteSet(ExpiredUnder(u)')
    <3> DEFINE more == IF u = t THEN 1 ELSE 0
    <3>1. tasks[u].state /= "absent"
          \/ (tasks'[u].state = "absent" /\ ExpiredUnder(u)' = ExpiredUnder(u))
      <4>1. CASE tasks[u].state = "absent"
        <5>1. u /= t /\ tasks'[u] = tasks[u]
          <6>1. at \in Nat /\ RunOf[a] \in Runs
            BY <1>3, ScopeAssumption DEF ClaimedRows
          <6>2. ReleaseExpiredTasks(RunOf[a], at)[u] = tasks[u]
            BY <4>1, <6>1, SweptTask
          <6> QED BY <1>3, <4>1, <6>2 DEF ClaimedRows
        <5>2. \A k \in Leases : leases[k].status /= "free" => leases[k].task /= u
          BY <4>1 DEF Rooted
        <5>3. \A k \in Leases : leases'[k].status = "expired" => leases'[k].task /= u
          BY <1>3, <5>2, ClaimPersists
        <5>4. ExpiredUnder(u)' = {} /\ ExpiredUnder(u) = {}
          BY <5>2, <5>3 DEF ExpiredUnder
        <5> QED BY <4>1, <5>1, <5>4
      <4> QED BY <4>1
    <3>2. CASE tasks[u].state /= "absent"
      <4>1. TaskEvents(u) \in Nat /\ TaskEvents(u)' = TaskEvents(u) + more
        BY <2>2, EventsCounted
      <4>2. tasks[u].version = 1 + TaskEvents(u) + Cardinality(ExpiredUnder(u))
        BY <1>0, <3>2 DEF TaskAccounted
      <4>3. \/ /\ ExpiredUnder(u)' = ExpiredUnder(u)
               /\ tasks'[u].version = tasks[u].version + more
            \/ \E k \in Leases :
                 /\ k \notin ExpiredUnder(u)
                 /\ ExpiredUnder(u)' = ExpiredUnder(u) \cup {k}
                 /\ tasks'[u].version = tasks[u].version + 1 + more
        BY <1>3, ClaimMoves
      <4> HIDE DEF more
      <4>4. more \in Nat
        BY DEF more
      <4>5. CASE /\ ExpiredUnder(u)' = ExpiredUnder(u)
                 /\ tasks'[u].version = tasks[u].version + more
        BY <1>0, <4>1, <4>2, <4>4, <4>5 DEF TaskAccounted
      <4>6. ASSUME NEW k \in Leases, k \notin ExpiredUnder(u),
                   ExpiredUnder(u)' = ExpiredUnder(u) \cup {k},
                   tasks'[u].version = tasks[u].version + 1 + more
            PROVE  TaskAccounted(u)' /\ IsFiniteSet(ExpiredUnder(u)')
        <5>1. /\ IsFiniteSet(ExpiredUnder(u)')
              /\ Cardinality(ExpiredUnder(u)') = Cardinality(ExpiredUnder(u)) + 1
          BY <1>0, <4>6, FS_AddElement
        <5> QED BY <1>0, <4>1, <4>2, <4>4, <4>6, <5>1 DEF TaskAccounted
      <4> QED BY <4>3, <4>5, <4>6
    <3>3. CASE tasks[u].state = "absent"
      BY <1>0, <3>1, <3>3 DEF TaskAccounted
    <3> QED BY <3>2, <3>3
  <2>4. ASSUME NEW k \in Leases PROVE LeaseAccounted(k)'
    <3>1. CASE k = l
      <4>1. LeaseEvents(t, l)' = 0
        <5>1. leases[l].status = "free"
          BY <1>3 DEF ClaimedRows
        <5>2. {i \in DOMAIN ledger[t] : Advances(ledger[t][i], l)} = {}
          BY <5>1 DEF Rooted, Advances
        <5> QED BY <2>2, <5>2, FS_EmptySet DEF LeaseEvents, EventCount
      <4>2. leases'[l].status = "active" /\ leases'[l].task = t /\ leases'[l].version = 1
        BY <1>3 DEF ClaimedRows
      <4> QED BY <3>1, <4>1, <4>2 DEF LeaseAccounted
    <3>2. CASE k /= l
      <4>1. leases'[k] = ExpireLeases(RunOf[a], at)[k]
        BY <1>3, <3>2 DEF ClaimedRows
      <4>2. CASE k \in Elapsed(RunOf[a], at)
        <5>1. /\ leases[k].status = "active" /\ leases'[k].status = "expired"
              /\ leases'[k].task = leases[k].task
              /\ leases'[k].version = leases[k].version + 1
          BY <4>1, <4>2 DEF ExpireLeases, NextLease, Elapsed
        <5>2. ASSUME NEW u \in Tasks, leases'[k].task = u
              PROVE  leases'[k].version = 1 + LeaseEvents(u, k)' + 1
          <6>1. leases[k].version = 1 + LeaseEvents(u, k) + 0
            BY <1>0, <5>1, <5>2 DEF LeaseAccounted
          <6>2. LeaseEvents(u, k)' = LeaseEvents(u, k) /\ LeaseEvents(u, k) \in Nat
            BY <2>2, EventsCounted
          <6> QED BY <5>1, <6>1, <6>2
        <5> QED BY <5>1, <5>2 DEF LeaseAccounted
      <4>3. CASE k \notin Elapsed(RunOf[a], at)
        <5>1. leases'[k] = leases[k]
          BY <4>1, <4>3 DEF ExpireLeases
        <5> QED BY <1>0, <2>2, <5>1 DEF LeaseAccounted
      <4> QED BY <4>2, <4>3
    <3> QED BY <3>1, <3>2
  <2> QED BY <2>3, <2>4 DEF Accounted
<1>4. ASSUME NEW a \in Agents, NEW t \in Tasks, NEW l \in Leases, NEW type \in WorkTypes,
             WorkedRows(a, t, l, type)
      PROVE  Accounted'
  <2>1. PICK v : Logged(t, Event(type, a, l, v))
    BY <1>4, WorkLogs
  <2>2. /\ TaskEvents(t)' = TaskEvents(t) + (IF type /= "lease_renewed" THEN 1 ELSE 0)
        /\ LeaseEvents(t, l)' = LeaseEvents(t, l)
                + (IF type \in {"lease_renewed", "task_checkpointed"} THEN 1 ELSE 0)
        /\ \A k \in Leases : k /= l => LeaseEvents(t, k)' = LeaseEvents(t, k) + 0
        /\ \A u \in Tasks : u /= t =>
             TaskEvents(u)' = TaskEvents(u) /\ \A k : LeaseEvents(u, k)' = LeaseEvents(u, k)
    BY <2>1, SumsMove DEF Event
  <2>3. \A u \in Tasks : ExpiredUnder(u)' = ExpiredUnder(u)
    BY <1>4 DEF WorkedRows, ExpiredUnder
  <2>4. /\ tasks[t].state /= "absent"
        /\ tasks'[t].version = tasks[t].version + (IF type = "lease_renewed" THEN 0 ELSE 1)
        /\ \A u \in Tasks : u /= t => tasks'[u] = tasks[u]
        /\ leases[l].status = "active" /\ leases[l].task = t /\ leases'[l].task = t
        /\ leases'[l].version = leases[l].version + 1
        /\ IF type \in {"lease_renewed", "task_checkpointed"}
           THEN leases'[l].status = "active"
           ELSE leases'[l].status \notin {"active", "expired", "free"}
        /\ \A k \in Leases : k /= l => leases'[k] = leases[k]
    BY <1>4 DEF WorkedRows
  <2>5. TaskAccounted(t)'
    <3>1. tasks[t].version = 1 + TaskEvents(t) + Cardinality(ExpiredUnder(t))
      BY <1>0, <2>4 DEF TaskAccounted
    <3>2. TaskEvents(t) \in Nat
      BY EventsCounted
    <3> QED BY <1>0, <2>2, <2>3, <2>4, <3>1, <3>2 DEF TaskAccounted
  <2>6. \A u \in Tasks : u /= t => TaskAccounted(u)'
    BY <1>0, <2>2, <2>3, <2>4 DEF TaskAccounted
  <2>7. LeaseAccounted(l)'
    <3>1. leases[l].version = 1 + LeaseEvents(t, l) + 0
      BY <1>0, <2>4 DEF LeaseAccounted
    <3>2. LeaseEvents(t, l) \in Nat
      BY EventsCounted
    <3> QED BY <2>2, <2>4, <3>1, <3>2 DEF LeaseAccounted
  <2>8. ASSUME NEW k \in Leases, k /= l PROVE LeaseAccounted(k)'
    <3>1. \A u \in Tasks : LeaseEvents(u, k)' = LeaseEvents(u, k)
      BY <2>2, <2>8, EventsCounted
    <3>2. leases'[k] = leases[k]
      BY <2>4, <2>8
    <3> QED BY <1>0, <3>1, <3>2 DEF LeaseAccounted
  <2>9. \A u \in Tasks : IsFiniteSet(ExpiredUnder(u)')
    BY <1>0, <2>3
  <2> QED BY <2>5, <2>6, <2>7, <2>8, <2>9 DEF Accounted
<1> QED BY <1>1, <1>2, <1>3, <1>4, StepIsRows DEF StepRows

\* Every version a row passed through is accounted for by its events.
THEOREM VersionsAccounted == Spec => []VersionAccounting
<1>1. Init => Rooted /\ Accounted
  <2> SUFFICES ASSUME Init PROVE Rooted /\ Accounted
    OBVIOUS
  <2>1. \A l \in Leases : leases[l].status = "free"
    BY DEF Init, NoLease
  <2>2. \A t \in Tasks : ledger[t] = <<>> /\ tasks[t].state = "absent"
    BY DEF Init
  <2>3. Rooted
    BY <2>1, <2>2 DEF Rooted
  <2>4. \A t \in Tasks : ExpiredUnder(t) = {}
    BY <2>1 DEF ExpiredUnder
  <2> QED
    BY <2>1, <2>2, <2>3, <2>4, FS_EmptySet DEF Accounted, TaskAccounted, LeaseAccounted
<1> QED
  BY <1>1, RootedStep, AccountedStep, AccountedIs, TypeCorrect, LeasesAgree, PTL DEF Spec

-----------------------------------------------------------------------------
\* Only add_dependency writes edges.
LEMMA EdgeSteps ==
    ASSUME [Next]_vars
    PROVE  \/ deps' = deps
           \/ \E t, u \in Tasks, kind \in Kinds : AddDependency(t, u, kind)
<1>1. ASSUME NEW a, NEW t, NEW l, NEW s, NEW v, NEW at, ClaimTask(a, t, l, s, v, at)
      PROVE  deps' = deps
  BY <1>1 DEF ClaimTask
<1>2. ASSUME NEW a, NEW l, NEW lv, NEW s, NEW at, RenewLease(a, l, lv, s, at)
      PROVE  deps' = deps
  BY <1>2 DEF RenewLease
<1>3. ASSUME NEW a, NEW t, NEW l, NEW tv, NEW lv, NEW at,
             \/ CheckpointTask(a, t, l, tv, lv, at)
             \/ \E o \in Outcomes : CompleteTask(a, t, l, tv, lv, o, at)
             \/ ReleaseTask(a, t, l, tv, lv, at)
      PROVE  deps' = deps
  BY <1>3 DEF CheckpointTask, CompleteTask, ReleaseTask
<1> QED
  BY <1>1, <1>2, <1>3 DEF Next, vars, Tick, EnsureRun, JoinAgent, AddTask

\* A new edge is refused when its prerequisite already reaches its dependent,
\* so no set of tasks comes to wait only on itself.
LEMMA FoundedStep ==
    ASSUME TypeOK, Founded, [Next]_vars
    PROVE  Founded'
<1>1. CASE deps' = deps
  BY <1>1 DEF Founded
<1>2. ASSUME NEW t \in Tasks, NEW u \in Tasks, NEW kind \in Kinds, AddDependency(t, u, kind)
      PROVE  Founded'
  <2>1. /\ ~ Reaches(u, t) /\ deps' = deps \cup {<<t, u, kind>>}
    BY <1>2 DEF AddDependency
  <2>2. PICK C \in SUBSET Tasks : u \in C /\ Closed(C) /\ t \notin C
    BY <2>1 DEF Reaches
  <2>3. ASSUME NEW S \in SUBSET Tasks, S /= {}
        PROVE  \E m \in S : \A w \in S, k \in Kinds : <<m, w, k>> \notin deps'
    <3>1. CASE S \cap C = {}
      <4>1. PICK m \in S : \A w \in S, k \in Kinds : <<m, w, k>> \notin deps
        BY <2>3 DEF Founded
      <4>2. u \notin S
        BY <2>2, <3>1
      <4> QED BY <2>1, <4>1, <4>2
    <3>2. CASE S \cap C /= {}
      <4>1. PICK m \in S \cap C : \A w \in S \cap C, k \in Kinds : <<m, w, k>> \notin deps
        <5>1. S \cap C \in SUBSET Tasks
          OBVIOUS
        <5> QED BY <3>2, <5>1 DEF Founded
      <4>2. \A w \in S, k \in Kinds : <<m, w, k>> \in deps => w \in C
        BY <2>2, <4>1 DEF Closed
      <4>3. \A w \in S, k \in Kinds : <<m, w, k>> \notin deps
        BY <4>1, <4>2
      <4>4. m /= t
        BY <2>2, <4>1
      <4> QED BY <2>1, <4>1, <4>3, <4>4
    <3> QED BY <3>1, <3>2
  <2> QED BY <2>3 DEF Founded
<1> QED BY <1>1, <1>2, EdgeSteps

\* Tasks are never deleted, so edges keep joining tasks that exist.
LEMMA EdgesStep ==
    ASSUME TypeOK, LeaseAgreement, EdgesJoin, [Next]_vars
    PROVE  EdgesJoin'
<1>0. \A e \in deps : e[1] \in Tasks /\ e[2] \in Tasks
  BY DEF TypeOK
<1>1. ASSUME deps' = deps, \A u \in Tasks : tasks[u].state /= "absent" => tasks'[u].state /= "absent"
      PROVE  EdgesJoin'
  BY <1>0, <1>1 DEF EdgesJoin
<1>2. ASSUME NEW t \in Tasks, NEW u \in Tasks, NEW kind \in Kinds, AddDependency(t, u, kind)
      PROVE  EdgesJoin'
  <2>1. /\ deps' = deps \cup {<<t, u, kind>>} /\ tasks' = tasks
        /\ tasks[t].state /= "absent" /\ tasks[u].state /= "absent"
    BY <1>2 DEF AddDependency
  <2> QED BY <2>1 DEF EdgesJoin
<1>3. CASE UNCHANGED <<tasks, deps>>
  BY <1>1, <1>3
<1>4. ASSUME NEW t \in Tasks, NEW state \in {"pending", "ready"}, AddTask(t, state)
      PROVE  EdgesJoin'
  <2>1. /\ deps' = deps
        /\ \A u \in Tasks : tasks[u].state /= "absent" => tasks'[u].state /= "absent"
    BY <1>4 DEF AddTask, TypeOK
  <2> QED BY <1>1, <2>1
<1>5. ASSUME NEW a \in Agents, NEW t \in Tasks, NEW l \in Leases, NEW s \in LeaseSeconds,
             NEW at \in Readings, ClaimedRows(a, t, l, s, at)
      PROVE  EdgesJoin'
  <2>1. deps' = deps /\ Persist
    BY <1>5, ClaimPersists DEF ClaimedRows
  <2> QED BY <1>1, <2>1 DEF Persist
<1>6. ASSUME NEW a \in Agents, NEW t \in Tasks, NEW l \in Leases, NEW type \in WorkTypes,
             WorkedRows(a, t, l, type)
      PROVE  EdgesJoin'
  <2>1. deps' = deps /\ Persist
    <3>1. deps' = deps
      BY <1>6 DEF WorkedRows
    <3> QED BY <1>6, <3>1, WorkPersists, Zenon
  <2> QED BY <1>1, <2>1 DEF Persist
<1>7. CASE UNCHANGED <<tasks, leases, checkpoints, ledger>>
  BY <1>2, <1>3, <1>7, EdgeSteps
<1> QED BY <1>4, <1>5, <1>6, <1>7, StepIsRows DEF StepRows

\* Whatever the DAG, as long as no prerequisite failed, was put back as blocked
\* or is being worked on, some remaining task can be claimed.
THEOREM DagNeverWaitsOnItself == Spec => []SomeTaskUnblocked
<1>1. Init => Founded /\ EdgesJoin
  BY DEF Init, Founded, EdgesJoin
<1>2. TypeOK /\ Founded /\ EdgesJoin => SomeTaskUnblocked
  <2> SUFFICES ASSUME TypeOK, Founded, EdgesJoin PROVE SomeTaskUnblocked
    OBVIOUS
  <2> DEFINE open == {t \in Tasks : tasks[t].state \in {"pending", "ready"}}
             stuck == {t \in Tasks : tasks[t].state \in {"claimed", "blocked", "failed"}}
  <2> SUFFICES ASSUME open /= {}, stuck = {}
               PROVE  \E t \in open : Unfinished(tasks, t) = {}
    BY DEF SomeTaskUnblocked
  <2>1. PICK t \in open : \A u \in open, kind \in Kinds : <<t, u, kind>> \notin deps
    <3>1. open \in SUBSET Tasks
      OBVIOUS
    <3> HIDE DEF open
    <3> QED BY <3>1 DEF Founded
  <2>2. ASSUME NEW u \in Tasks, <<t, u, "blocks">> \in deps PROVE tasks[u].state = "completed"
    <3>1. u \notin open
      BY <2>1, <2>2 DEF Kinds
    <3>2. tasks[u].state /= "absent"
      BY <2>2 DEF EdgesJoin
    <3>3. tasks[u].state \in TaskStates
      BY DEF TypeOK, TaskRow
    <3> QED BY <3>1, <3>2, <3>3 DEF TaskStates
  <2> QED BY <2>1, <2>2 DEF Unfinished
<1> QED
  BY <1>1, <1>2, FoundedStep, EdgesStep, TypeCorrect, LeasesAgree, PTL DEF Spec

=============================================================================
