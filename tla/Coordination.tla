---------------------------- MODULE Coordination ----------------------------
(***************************************************************************)
(* The CockroachDB coordination store: runs, agents, the task DAG, leases, *)
(* checkpoints, completions and the event ledger of a swarm                *)
(* (adapters/cockroach/coordination.py and schema.sql).                    *)
(*                                                                         *)
(* Every method of the store is one SERIALIZABLE transaction, so each is   *)
(* one action here.  A command that raises rolls its whole transaction     *)
(* back, the lease sweep of a claim included: a rejected command is no     *)
(* step at all.  What happens to a command around its transaction          *)
(* (retries, lost acknowledgements, replays) is in IdempotentTx; what a    *)
(* client does with the answers is in LeaseBridge.                         *)
(***************************************************************************)
EXTENDS Integers, FiniteSets, Sequences

CONSTANTS
    Runs,          \* authenticated scopes (tenant, project, repository, swarm, run)
    Agents,        \* actors: an agent identity within one run
    Tasks,         \* task ids
    Leases,        \* lease ids, fresh uuid4 values; their number bounds the claims
    RunOf,         \* the run of each agent and of each task
    Able,          \* pairs <<agent, task>> whose tags and capabilities match
    AvailableAt,   \* task.available_at
    LeaseSeconds,  \* lease_seconds of claims and extension_seconds of renewals
    MaxTime,       \* bound: last instant of the database clock
    MaxLag,        \* bound: how far a transaction's now() may trail its commit
    MaxTaskVersion,   \* bound: largest task version a command may expect
    MaxLeaseVersion,  \* bound: largest lease version a command may expect
    MaxJoins,      \* bound: how often an agent joins
    None           \* SQL NULL

ASSUME ScopeAssumption ==
    /\ RunOf \in [Agents \cup Tasks -> Runs]
    /\ Able \subseteq Agents \X Tasks
    /\ AvailableAt \in [Tasks -> Nat]

ASSUME BoundAssumption ==
    /\ LeaseSeconds \subseteq Nat \ {0}
    /\ MaxTime \in Nat
    /\ MaxLag \in Nat
    /\ MaxTaskVersion \in Nat
    /\ MaxLeaseVersion \in Nat
    /\ MaxJoins \in Nat

ASSUME NoneAssumption == None \notin Agents \cup Tasks \cup Leases \cup Nat

VARIABLES
    now,          \* the database clock
    runs,         \* rows of runs; a run's state never leaves 'active'
    agents,       \* presence row of each agent: its version (0: no row) and its events
    tasks,        \* rows of tasks
    deps,         \* rows of task_dependencies: <<task, depends_on, kind>>
    leases,       \* rows of task_leases
    checkpoints,  \* task_checkpoints of each task, in sequence order
    completions,  \* task_completions of each task
    ledger        \* swarm_events of each task, in commit order, each with its outbox row

vars == <<now, runs, agents, tasks, deps, leases, checkpoints, completions, ledger>>

-----------------------------------------------------------------------------
(* The rows.                                                               *)

TaskStates == {"absent", "pending", "ready", "claimed", "blocked", "completed", "failed"}

TaskRow == [state : TaskStates, owner : Agents \cup {None},
            lease : Leases \cup {None}, version : Nat]

LeaseStates == {"active", "expired", "released", "completed"}

\* A lease id nobody drew yet has no row.
NoLease == [status |-> "free", task |-> None, owner |-> None, expires |-> 0, version |-> 0]

LeaseRow == [status : LeaseStates, task : Tasks, owner : Agents,
             expires : Nat, version : Nat]

Outcomes == {"succeeded", "failed"}

CheckpointRow == [lease : Leases, agent : Agents]

CompletionRow == [lease : Leases, agent : Agents, outcome : Outcomes]

ASSUME NoRowAssumption == None \notin CompletionRow

EventTypes == {"task_claimed", "lease_renewed", "task_checkpointed",
               "task_completed", "task_released"}

EventRow == [type : EventTypes, agent : Agents, lease : Leases, version : Nat]

Kinds == {"blocks", "related"}

-----------------------------------------------------------------------------
(* Predicates of the SQL statements.                                       *)

\* Every UPDATE of a lease or of a task advances its version by one.
NextLease(lease, status, expires) ==
    [status |-> status, task |-> lease.task, owner |-> lease.owner,
     expires |-> expires, version |-> lease.version + 1]

NextTask(task, state, owner, lease) ==
    [state |-> state, owner |-> owner, lease |-> lease, version |-> task.version + 1]

\* A transaction's now() is fixed when it starts; others may commit before it does.
Readings == {at \in 0..now : at + MaxLag >= now}

\* Mutated form: a prerequisite that failed no longer blocks.
UnfinishedOpen(ts, t) ==
    {u \in Tasks : <<t, u, "blocks">> \in deps /\ ts[u].state \notin {"completed", "failed"}}

\* task_dependencies joined with its prerequisites: which tasks still block t.
Unfinished(ts, t) ==
    {u \in Tasks : <<t, u, "blocks">> \in deps /\ ts[u].state /= "completed"}

\* DEPENDENCY_CYCLE_SQL walks edges of every kind from `from`; the walk reaches
\* exactly the tasks that lie in every edge-closed set containing `from`.
Closed(S) == \A e \in deps : e[1] \in S => e[2] \in S

\* Mutated form: the walk starts at the wrong end.
ReachesBackwards(from, to) == \A S \in SUBSET Tasks : to \in S /\ Closed(S) => from \in S

Reaches(from, to) == \A S \in SUBSET Tasks : from \in S /\ Closed(S) => to \in S

\* Mutated form: ended leases are swept too.
ElapsedAnyStatus(run, at) ==
    {l \in Leases : /\ leases[l].status /= "free"
                    /\ RunOf[leases[l].task] = run
                    /\ leases[l].expires <= at}

\* Mutated form: the sweep is not confined to the actor's run.
ElapsedAnyRun(run, at) ==
    {l \in Leases : leases[l].status = "active" /\ leases[l].expires <= at}

\* EXPIRE_LEASES_SQL: the active leases of the run whose time is up.
Elapsed(run, at) ==
    {l \in Leases : /\ leases[l].status = "active"
                    /\ RunOf[leases[l].task] = run
                    /\ leases[l].expires <= at}

\* Mutated form: the claim frees the tasks and forgets the lease rows.
ExpireNoLeases(run, at) == leases

ExpireLeases(run, at) ==
    [l \in Leases |->
        IF l \in Elapsed(run, at)
        THEN NextLease(leases[l], "expired", leases[l].expires)
        ELSE leases[l]]

\* Mutated form: the sweep leaves the task version alone.
ReleaseExpiredQuietly(run, at) ==
    [t \in Tasks |->
        IF RunOf[t] = run /\ tasks[t].lease \in Elapsed(run, at)
        THEN [tasks[t] EXCEPT !.state = "ready", !.owner = None, !.lease = None]
        ELSE tasks[t]]

ReleaseExpiredTasks(run, at) ==
    [t \in Tasks |->
        IF RunOf[t] = run /\ tasks[t].lease \in Elapsed(run, at)
        THEN NextTask(tasks[t], "ready", None, None)
        ELSE tasks[t]]

\* CLAIM_CANDIDATE_SQL.  SKIP LOCKED lets a claim pass over the head of the
\* queue while another transaction holds it, so any claimable row may be taken.
Claimable(ts, a, t, at) ==
    /\ RunOf[t] = RunOf[a]
    /\ ts[t].state \in {"pending", "ready"}
    /\ ts[t].lease = None
    /\ AvailableAt[t] <= at
    /\ <<a, t>> \in Able
    /\ Unfinished(ts, t) = {}

\* Mutated form: the lease fences a command, the versions do not.
OwnsAnyVersion(a, t, l, tv, lv, at) ==
    /\ RunOf[t] = RunOf[a]
    /\ leases[l].status = "active"
    /\ leases[l].task = t
    /\ leases[l].owner = a
    /\ leases[l].expires > at
    /\ tasks[t].state = "claimed"
    /\ tasks[t].lease = l
    /\ tasks[t].owner = a

\* Mutated form: only the versions fence a command, not the lease itself.
OwnsByVersion(a, t, l, tv, lv, at) ==
    /\ RunOf[t] = RunOf[a]
    /\ leases[l].task = t
    /\ leases[l].owner = a
    /\ tasks[t].state = "claimed"
    /\ tasks[t].version = tv
    /\ leases[l].version = lv

\* _load_owned_task_and_lease, and the same predicates in the UPDATEs after it.
Owns(a, t, l, tv, lv, at) ==
    /\ RunOf[t] = RunOf[a]
    /\ leases[l].status = "active"
    /\ leases[l].task = t
    /\ leases[l].owner = a
    /\ leases[l].expires > at
    /\ tasks[t].state = "claimed"
    /\ tasks[t].lease = l
    /\ tasks[t].owner = a
    /\ tasks[t].version = tv
    /\ leases[l].version = lv

\* RENEW_LEASE_SQL: the lease is held by a at version lv and its task names it.
Renewable(a, l, lv, at) ==
    LET t == leases[l].task
    IN  /\ leases[l].status = "active"
        /\ RunOf[t] = RunOf[a]
        /\ leases[l].owner = a
        /\ leases[l].expires > at
        /\ leases[l].version = lv
        /\ tasks[t].state = "claimed"
        /\ tasks[t].lease = l

\* _append_event writes the event and its outbox row together.
Event(type, a, l, version) ==
    [type |-> type, agent |-> a, lease |-> l, version |-> version]

AppendEvent(t, e) == ledger' = [ledger EXCEPT ![t] = Append(@, e)]

EndLease(l, status) ==
    leases' = [leases EXCEPT ![l] = NextLease(@, status, @.expires)]

FinalState(outcome) == IF outcome = "succeeded" THEN "completed" ELSE "failed"

\* Mutated form: a renewal overwrites the expiry, even by an earlier one.
LatterOf(x, y) == y

GreaterOf(x, y) == IF x >= y THEN x ELSE y

-----------------------------------------------------------------------------
(* The operations.                                                         *)

Init ==
    /\ now = 0
    /\ runs = {}
    /\ agents = [a \in Agents |-> [version |-> 0, events |-> 0]]
    /\ tasks = [t \in Tasks |-> [state |-> "absent", owner |-> None,
                                 lease |-> None, version |-> 0]]
    /\ deps = {}
    /\ leases = [l \in Leases |-> NoLease]
    /\ checkpoints = [t \in Tasks |-> <<>>]
    /\ completions = [t \in Tasks |-> None]
    /\ ledger = [t \in Tasks |-> <<>>]

Tick ==
    /\ now < MaxTime
    /\ now' = now + 1
    /\ UNCHANGED <<runs, agents, tasks, deps, leases, checkpoints, completions, ledger>>

EnsureRun(r) ==
    /\ runs' = runs \cup {r}
    /\ UNCHANGED <<now, agents, tasks, deps, leases, checkpoints, completions, ledger>>

\* Joining again refreshes the presence row; only the first join is announced.
JoinAgent(a) ==
    /\ agents[a].version < MaxJoins
    /\ runs' = runs \cup {RunOf[a]}
    /\ agents' = [agents EXCEPT ![a] =
                    [version |-> @.version + 1,
                     events  |-> IF @.version = 0 THEN @.events + 1 ELSE @.events]]
    /\ UNCHANGED <<now, tasks, deps, leases, checkpoints, completions, ledger>>

\* A task is inserted as it is given.  The default is pending (domain/tasks.py),
\* and every caller in the repository gives it as pending or ready: the demo, the
\* live swarm, the bridge of the benchmark and the test fixtures.
AddTask(t, state) ==
    /\ tasks[t].state = "absent"
    /\ runs' = runs \cup {RunOf[t]}
    /\ tasks' = [tasks EXCEPT ![t] = [state |-> state, owner |-> None,
                                      lease |-> None, version |-> 1]]
    /\ UNCHANGED <<now, agents, deps, leases, checkpoints, completions, ledger>>

\* An edge that already exists is returned, or refused if its kind differs.
AddDependency(t, u, kind) ==
    /\ t /= u
    /\ tasks[t].state /= "absent"
    /\ tasks[u].state /= "absent"
    /\ RunOf[t] = RunOf[u]
    /\ ~ Reaches(u, t)
    /\ \A k \in Kinds : <<t, u, k>> \notin deps
    /\ deps' = deps \cup {<<t, u, kind>>}
    /\ UNCHANGED <<now, runs, agents, tasks, leases, checkpoints, completions, ledger>>

\* One transaction: sweep the elapsed leases of the run, take a claimable task,
\* lease it.  expected is None or the version the caller saw the task at.
ClaimTask(a, t, l, seconds, expected, at) ==
    LET ts == ReleaseExpiredTasks(RunOf[a], at)
        ls == ExpireLeases(RunOf[a], at)
    IN  /\ agents[a].version > 0
        /\ ls[l].status = "free"
        /\ Claimable(ts, a, t, at)
        /\ expected \in {None, ts[t].version}
        /\ tasks' = [ts EXCEPT ![t] = NextTask(@, "claimed", a, l)]
        /\ leases' = [ls EXCEPT ![l] = [status |-> "active", task |-> t, owner |-> a,
                                        expires |-> at + seconds, version |-> 1]]
        /\ AppendEvent(t, Event("task_claimed", a, l, ts[t].version + 1))
        /\ UNCHANGED <<now, runs, agents, deps, checkpoints, completions>>

RenewLease(a, l, lv, seconds, at) ==
    LET t == leases[l].task
    IN  /\ Renewable(a, l, lv, at)
        /\ leases' = [leases EXCEPT ![l] =
                        NextLease(@, "active", GreaterOf(@.expires, at + seconds))]
        /\ AppendEvent(t, Event("lease_renewed", a, l, lv + 1))
        /\ UNCHANGED <<now, runs, agents, tasks, deps, checkpoints, completions>>

\* The commands modelled here cite no memories: _validate_memory_ids passes and
\* _persist_memory_outcome_associations of a completion inserts nothing.
CheckpointTask(a, t, l, tv, lv, at) ==
    /\ Owns(a, t, l, tv, lv, at)
    /\ checkpoints' = [checkpoints EXCEPT ![t] = Append(@, [lease |-> l, agent |-> a])]
    /\ tasks' = [tasks EXCEPT ![t] = NextTask(@, "claimed", a, l)]
    /\ leases' = [leases EXCEPT ![l] = NextLease(@, "active", @.expires)]
    /\ AppendEvent(t, Event("task_checkpointed", a, l, tv + 1))
    /\ UNCHANGED <<now, runs, agents, deps, completions>>

CompleteTask(a, t, l, tv, lv, outcome, at) ==
    /\ Owns(a, t, l, tv, lv, at)
    /\ completions[t] = None
    /\ completions' = [completions EXCEPT ![t] = [lease |-> l, agent |-> a,
                                                  outcome |-> outcome]]
    /\ tasks' = [tasks EXCEPT ![t] = NextTask(@, FinalState(outcome), None, None)]
    /\ EndLease(l, "completed")
    /\ AppendEvent(t, Event("task_completed", a, l, tv + 1))
    /\ UNCHANGED <<now, runs, agents, deps, checkpoints>>

ReleaseTask(a, t, l, tv, lv, at) ==
    /\ Owns(a, t, l, tv, lv, at)
    /\ tasks' = [tasks EXCEPT ![t] =
                    NextTask(@, IF Unfinished(tasks, t) = {} THEN "ready" ELSE "blocked",
                             None, None)]
    /\ EndLease(l, "released")
    /\ AppendEvent(t, Event("task_released", a, l, tv + 1))
    /\ UNCHANGED <<now, runs, agents, deps, checkpoints, completions>>

TaskVersions == 1..MaxTaskVersion

LeaseVersions == 1..MaxLeaseVersion

Next ==
    \/ Tick
    \/ \E r \in Runs : EnsureRun(r)
    \/ \E a \in Agents : JoinAgent(a)
    \/ \E t \in Tasks, state \in {"pending", "ready"} : AddTask(t, state)
    \/ \E t, u \in Tasks, kind \in Kinds : AddDependency(t, u, kind)
    \/ \E a \in Agents, t \in Tasks, l \in Leases, s \in LeaseSeconds,
          v \in TaskVersions \cup {None}, at \in Readings : ClaimTask(a, t, l, s, v, at)
    \/ \E a \in Agents, l \in Leases, lv \in LeaseVersions, s \in LeaseSeconds,
          at \in Readings : RenewLease(a, l, lv, s, at)
    \/ \E a \in Agents, t \in Tasks, l \in Leases, tv \in TaskVersions,
          lv \in LeaseVersions, at \in Readings : CheckpointTask(a, t, l, tv, lv, at)
    \/ \E a \in Agents, t \in Tasks, l \in Leases, tv \in TaskVersions,
          lv \in LeaseVersions,
          o \in Outcomes, at \in Readings : CompleteTask(a, t, l, tv, lv, o, at)
    \/ \E a \in Agents, t \in Tasks, l \in Leases, tv \in TaskVersions,
          lv \in LeaseVersions, at \in Readings : ReleaseTask(a, t, l, tv, lv, at)

Spec == Init /\ [][Next]_vars

-----------------------------------------------------------------------------
(* Properties.                                                             *)

\* Every row has the shape its table declares.
TypeOK ==
    /\ now \in Nat
    /\ runs \subseteq Runs
    /\ agents \in [Agents -> [version : Nat, events : Nat]]
    /\ tasks \in [Tasks -> TaskRow]
    /\ deps \subseteq Tasks \X Tasks \X Kinds
    /\ leases \in [Leases -> LeaseRow \cup {NoLease}]
    /\ checkpoints \in [Tasks -> Seq(CheckpointRow)]
    /\ completions \in [Tasks -> CompletionRow \cup {None}]
    /\ ledger \in [Tasks -> Seq(EventRow)]

Agree(ts, ls) ==
    /\ \A t \in Tasks :
        IF ts[t].state = "claimed"
        THEN /\ ts[t].lease \in Leases
             /\ ls[ts[t].lease].status = "active"
             /\ ls[ts[t].lease].task = t
             /\ ls[ts[t].lease].owner = ts[t].owner
        ELSE ts[t].lease = None /\ ts[t].owner = None
    /\ \A l \in Leases : ls[l].status = "active" => ts[ls[l].task].lease = l

\* The task row and the lease table never disagree about who holds a task: a
\* claimed task names an active lease of that task held by its owner, an
\* unclaimed one names none, and every active lease is the one its task names,
\* so two agents never both hold a task whatever order the claim sweep,
\* renewals, releases and completions commit in.
LeaseAgreement == Agree(tasks, leases)

\* A completion is recorded exactly for the tasks that ended, agrees with the
\* state they ended in, and names the lease under which its agent ended them;
\* no later sweep, claim or release rewrites any of the three rows.
CompletionAgreement ==
    /\ \A t \in Tasks :
        IF tasks[t].state \in {"completed", "failed"}
        THEN /\ completions[t] \in CompletionRow
             /\ tasks[t].state = "completed" <=> completions[t].outcome = "succeeded"
             /\ leases[completions[t].lease].status = "completed"
             /\ leases[completions[t].lease].task = t
             /\ leases[completions[t].lease].owner = completions[t].agent
        ELSE completions[t] = None
    /\ \A l \in Leases :
        leases[l].status = "completed" =>
            /\ completions[leases[l].task] /= None
            /\ completions[leases[l].task].lease = l

IsTaskEvent(e) == e.type /= "lease_renewed"

IsCheckpoint(e) == e.type = "task_checkpointed"

EventCount(t, Test(_)) == Cardinality({i \in DOMAIN ledger[t] : Test(ledger[t][i])})

\* The history of a task is a sequence of sessions: each event lies under the
\* latest claim before it, by the same agent with the same lease, a session
\* that was completed or released has no further event, and the checkpoints
\* are journalled one row per event, in that order.  So an agent that lost its
\* lease never writes into the session of the agent that took over.
SessionOrder ==
    \A t \in Tasks :
        /\ \A i \in DOMAIN ledger[t] :
            \/ ledger[t][i].type = "task_claimed"
            \/ /\ i > 1
               /\ ledger[t][i - 1].type \notin {"task_completed", "task_released"}
               /\ ledger[t][i - 1].lease = ledger[t][i].lease
               /\ ledger[t][i - 1].agent = ledger[t][i].agent
        /\ Len(checkpoints[t]) = EventCount(t, IsCheckpoint)
        /\ \A i \in DOMAIN ledger[t] :
            IsCheckpoint(ledger[t][i]) =>
                LET nth == Cardinality({j \in 1..i : IsCheckpoint(ledger[t][j])})
                IN  checkpoints[t][nth] =
                        [lease |-> ledger[t][i].lease, agent |-> ledger[t][i].agent]

\* The leases the sweep of a claim ended under a task, and the events that
\* advanced a lease while it was active.
ExpiredUnder(t) == {l \in Leases : leases[l].status = "expired" /\ leases[l].task = t}

Advances(e, l) == e.lease = l /\ e.type \in {"lease_renewed", "task_checkpointed"}

\* Every version a row passed through is accounted for: a task's by its own
\* events and by the leases the sweep expired under it, a lease's by its
\* renewals, its checkpoints and its end.  A mutation that forgot its event, or
\* bumped a version twice, breaks the sum.
VersionAccounting ==
    /\ \A t \in Tasks :
        tasks[t].state /= "absent" =>
            tasks[t].version = 1 + EventCount(t, IsTaskEvent) + Cardinality(ExpiredUnder(t))
    /\ \A l \in Leases :
        leases[l].status /= "free" =>
            leases[l].version =
                1 + EventCount(leases[l].task, LAMBDA e : Advances(e, l))
                  + (IF leases[l].status = "active" THEN 0 ELSE 1)

\* The DAG never waits on itself: if tasks remain and none of them failed, was
\* put back as blocked, or is being worked on, some task has all its
\* prerequisites completed.
SomeTaskUnblocked ==
    LET open == {t \in Tasks : tasks[t].state \in {"pending", "ready"}}
        stuck == {t \in Tasks : tasks[t].state \in {"claimed", "blocked", "failed"}}
    IN  open /= {} /\ stuck = {} => \E t \in open : Unfinished(tasks, t) = {}

\* A holder keeps what it was promised: no step moves a lease's expiry back
\* (a short renewal of a long lease included), and none expires a lease before
\* the expiry last promised.
PromiseKept ==
    [][\A l \in Leases :
        leases[l].status = "active" =>
            /\ leases'[l].expires >= leases[l].expires
            /\ leases'[l].status = "expired" => leases[l].expires <= now]_vars

Touches(run) ==
    \/ \E t \in Tasks : tasks'[t] /= tasks[t] /\ RunOf[t] = run
    \/ \E l \in Leases : leases'[l] /= leases[l] /\ RunOf[leases'[l].task] = run

\* The tasks and leases one step changes belong to one run: the sweep of a
\* claim reaches no lease of another run.
RunIsolation ==
    [][\A r, s \in Runs : Touches(r) /\ Touches(s) => r = s]_vars

\* docs/cockroach-schema.md, "Complete task": completing a task unblocks the
\* newly ready dependents; so a blocked task waits for some prerequisite.
BlockedTasksWait ==
    \A t \in Tasks : tasks[t].state = "blocked" => Unfinished(tasks, t) /= {}

\* What agents may rely on from this store and from the in-memory kernel alike
\* (ports/coordination_store.py): the rows of tasks and of dependencies move as a task board.
Board == INSTANCE TaskBoard WITH
    holder <- [t \in Tasks |-> tasks[t].owner],
    ended  <- [t \in Tasks |->
                IF tasks[t].state \in {"completed", "failed"} THEN tasks[t].state ELSE "open"],
    needs  <- [t \in Tasks |-> {p \in Tasks : <<t, p, "blocks">> \in deps}]

\* The store implements the board: one holder per task, taken only when every
\* prerequisite completed, and no task ends twice or without its holder
\* (claim_task, complete_task, release_task, add_dependency).
BoardKept == Board!Spec

=============================================================================
