---------------------------- MODULE KernelProofs ----------------------------
(* The in-memory kernel for every value of the constants: the shapes of    *)
(* its entries, the activations an agent is told of, the outcomes it       *)
(* associates with them, and the task board it keeps.                      *)
EXTENDS Kernel, FiniteSetTheorems, TLAPS

\* Tasks and active leases name each other, and exactly the claimed tasks have a lease.
Held(ts, ls) ==
    /\ \A t \in Tasks :
          /\ ts[t].lease /= None <=> ts[t].status = "claimed"
          /\ ts[t].lease /= None => /\ ls[ts[t].lease].status = "active"
                                    /\ ls[ts[t].lease].task = t
    /\ \A l \in Leases : ls[l].status = "active" =>
          /\ ls[l].task \in Tasks /\ ls[l].owner \in Agents
          /\ ts[ls[l].task].lease = l

LeasesHeld == Held(tasks, leases)

\* A task with a completion has ended, and the lease it ended under with it.
EndedForGood ==
    \A t \in Tasks : completions[t] /= None =>
        /\ tasks[t].status \in {"completed", "failed"}
        /\ leases[completions[t].lease].status = "completed"

\* A superseded memory is closed, so that what an update closes was live.
SupersededClosed == \A m \in Memories : memories[m].state = "superseded" => memories[m].closed

\* Memories are created in the order of their ids, so that the next one is new; what a
\* memory supersedes and what a conflict is about exists.
Ordered ==
    /\ \A m \in Memories : /\ Exists(m) <=> m < Fresh
                           /\ memories[m].supersedes /= None => Exists(memories[m].supersedes)
    /\ \A m \in conflict.members : Exists(m)

KernelInv ==
    /\ KernelTypeOK /\ LeasesHeld /\ EndedForGood /\ SupersededClosed /\ Ordered
    /\ OutcomeBacked /\ ContextTracked

LEMMA InitKernel == Init => KernelInv
<1> SUFFICES ASSUME Init PROVE KernelInv
  OBVIOUS
<1> USE KernelAssumption, NoneAssumption
<1>1. /\ now \in 0..MaxTime /\ tasks \in [Tasks -> TaskRow] /\ leases \in [Leases -> LeaseRow]
      /\ completions \in [Tasks -> CompletionRow \cup {None}]
      /\ activations \in [ActivationIds -> Versions \cup {None}]
      /\ sources \in [Sources -> {"absent", "pending", "approved", "rejected"}]
  BY DEF Init, NewTask, TaskRow, NoLease, LeaseRow
<1>2. /\ selections \subseteq Selection /\ delivered \subseteq ActivationIds \X Versions
      /\ associations \subseteq AssociationRow /\ evidence \subseteq Evidence
      /\ conflict \in ConflictRow
  BY DEF Init, NoConflict, ConflictRow
<1>3. NoMemory \in MemoryRow /\ NoMemory.evidence = {} /\ NoMemory.state = "absent"
  BY DEF NoMemory, MemoryRow
<1>4. KernelTypeOK /\ SupersededClosed
  BY <1>1, <1>2, <1>3 DEF Init, KernelTypeOK, SupersededClosed
<1>5. Ordered
  <2>1. \A m \in Memories : memories[m] = NoMemory /\ ~Exists(m)
    BY DEF Init, Exists, NoMemory
  <2>2. {m \in Memories : Exists(m)} = {}
    BY <2>1
  <2>3. Fresh = 1
    BY <2>2, FS_EmptySet DEF Fresh
  <2> QED BY <2>1, <2>3 DEF Init, Ordered, NoMemory, NoConflict, Memories
<1>6. LeasesHeld
  BY DEF Init, LeasesHeld, Held, NewTask, NoLease
<1>7. EndedForGood /\ OutcomeBacked /\ ContextTracked
  BY DEF Init, EndedForGood, OutcomeBacked, ContextTracked
<1> QED BY <1>4, <1>5, <1>6, <1>7 DEF KernelInv

\* What each group of methods leaves alone.
LEMMA Frames ==
    ASSUME [Next]_vars
    PROVE  /\ Coordinate \/ UNCHANGED <<tasks, leases, completions>>
           /\ Activate \/ UNCHANGED <<selections, activations, delivered>>
           /\ Curate \/ Judge \/ UNCHANGED <<sources, evidence, memories, links, conflict, served>>
           /\ Tick \/ UNCHANGED now
<1>1. CASE UNCHANGED vars
  BY <1>1 DEF vars
<1>2. CASE Tick
  BY <1>2 DEF Tick, boardVars, useVars, memoryVars
<1>3. CASE Coordinate
  <2> DEFINE Rest == UNCHANGED <<now, selections, activations, delivered, memoryVars>>
  <2>1. ClaimRefused => Rest
    BY DEF ClaimRefused, useVars
  <2>2. \A a \in Agents, t \in Tasks, l \in Leases : ClaimTask(a, t, l) => Rest
    BY DEF ClaimTask, useVars
  <2>3. \A a \in Agents, l \in Leases : RenewLease(a, l) => Rest
    BY DEF RenewLease, useVars
  <2>4. \A a \in Agents, l \in Leases : ReleaseTask(a, l) => Rest
    BY DEF ReleaseTask, useVars
  <2>5. \A a \in Agents, l \in Leases, outcome \in Outcomes, cited \in Named :
          CompleteTask(a, l, outcome, cited) => Rest
    BY DEF CompleteTask
  <2> HIDE DEF Rest
  <2>6. Rest
    BY <1>3, <2>1, <2>2, <2>3, <2>4, <2>5 DEF Coordinate
  <2> QED BY <1>3, <2>6 DEF Rest, memoryVars
<1>4. CASE Activate
  BY <1>4 DEF Activate, SelectMemories, RecordActivation, boardVars, memoryVars
<1>5. CASE Judge
  BY <1>5 DEF Judge, ResolveConflict, boardVars, useVars
<1>6. CASE Curate
  BY <1>6, SMTT(20), ZenonT(30) DEF Curate, RegisterSource, ReviewSource, RejectSource, AddEvidence, Remember,
              ReviewMemory, ReportConflict, boardVars, useVars
<1> QED BY <1>1, <1>2, <1>3, <1>4, <1>5, <1>6 DEF Next

-----------------------------------------------------------------------------
(* Tasks and leases.                                                       *)

\* What a command that passed _owned_task_and_lease found.
LEMMA HeldLease ==
    ASSUME KernelTypeOK, LeasesHeld, NEW a \in Agents, NEW l \in Leases, Holds(a, l)
    PROVE  /\ leases[l].task \in Tasks /\ leases[l].status = "active" /\ leases[l].owner = a
           /\ tasks[leases[l].task].lease = l /\ tasks[leases[l].task].status = "claimed"
           /\ l /= None
  BY KernelAssumption DEF Holds, Live, LeasesHeld, Held

\* The sweep frees exactly the tasks of the leases it expires.
LEMMA SweepHolds ==
    ASSUME KernelTypeOK, LeasesHeld
    PROVE  /\ SweptTasks \in [Tasks -> TaskRow] /\ SweptLeases \in [Leases -> LeaseRow]
           /\ Held(SweptTasks, SweptLeases)
           /\ \A t \in Tasks : t \in Freed => tasks[t].status = "claimed"
<1> USE KernelAssumption
<1>1. SweptTasks \in [Tasks -> TaskRow] /\ SweptLeases \in [Leases -> LeaseRow]
  <2>1. \A t \in Tasks : [tasks[t] EXCEPT !.status = "ready", !.lease = None] \in TaskRow
    BY ZenonT(40) DEF KernelTypeOK, TaskRow
  <2>2. \A l \in Leases : [leases[l] EXCEPT !.status = "expired"] \in LeaseRow
    BY SMTT(20), ZenonT(30) DEF KernelTypeOK, LeaseRow
  <2>3. tasks \in [Tasks -> TaskRow] /\ leases \in [Leases -> LeaseRow]
    BY DEF KernelTypeOK
  <2> QED BY <2>1, <2>2, <2>3 DEF SweptTasks, SweptLeases
<1>2. \A t \in Tasks : t \in Freed => tasks[t].lease \in Elapsed /\ tasks[t].lease /= None
  BY DEF Freed, Elapsed
<1>3. \A t \in Tasks : t \in Freed => tasks[t].status = "claimed"
  BY <1>2 DEF LeasesHeld, Held
<1>4. ASSUME NEW t \in Tasks
      PROVE  /\ SweptTasks[t].lease /= None <=> SweptTasks[t].status = "claimed"
             /\ SweptTasks[t].lease /= None =>
                   /\ SweptLeases[SweptTasks[t].lease].status = "active"
                   /\ SweptLeases[SweptTasks[t].lease].task = t
  <2>1. tasks[t] \in TaskRow
    BY DEF KernelTypeOK
  <2>2. CASE t \in Freed
    BY <2>1, <2>2 DEF SweptTasks, TaskRow
  <2>3. CASE t \notin Freed
    <3>1. SweptTasks[t] = tasks[t]
      BY <2>3 DEF SweptTasks
    <3>2. ASSUME tasks[t].lease /= None
          PROVE  SweptLeases[tasks[t].lease] = leases[tasks[t].lease]
      <4>1. tasks[t].lease \in Leases /\ tasks[t].lease \notin Elapsed
        BY <2>1, <2>3, <3>2 DEF TaskRow, Freed
      <4> QED BY <4>1 DEF SweptLeases
    <3> QED BY <3>1, <3>2 DEF LeasesHeld, Held
  <2> QED BY <2>2, <2>3
<1>5. ASSUME NEW l \in Leases, SweptLeases[l].status = "active"
      PROVE  /\ SweptLeases[l].task \in Tasks /\ SweptLeases[l].owner \in Agents
             /\ SweptTasks[SweptLeases[l].task].lease = l
  <2>1. l \notin Elapsed
    BY <1>5 DEF SweptLeases, KernelTypeOK, LeaseRow
  <2>2. SweptLeases[l] = leases[l]
    BY <2>1 DEF SweptLeases
  <2>3. leases[l].task \in Tasks /\ leases[l].owner \in Agents /\ tasks[leases[l].task].lease = l
    BY <1>5, <2>2 DEF LeasesHeld, Held
  <2>4. leases[l].task \notin Freed
    BY <2>1, <2>3 DEF Freed
  <2> QED BY <2>2, <2>3, <2>4 DEF SweptTasks
<1> QED BY <1>1, <1>3, <1>4, <1>5 DEF Held

\* A claim row by row: the sweep, and one free task given to one agent under a new lease.
Claimed(a, t, l) ==
    /\ SweptTasks[t].status \in {"pending", "ready"} /\ SweptTasks[t].lease = None
    /\ \A p \in Prerequisites[t] : tasks[p].status = "completed"
    /\ leases[l].status = "free"
    /\ tasks'[t] = [status |-> "claimed", lease |-> l]
    /\ \A u \in Tasks : u /= t => tasks'[u] = SweptTasks[u]
    /\ leases'[l] = [status |-> "active", task |-> t, owner |-> a, expires |-> now + LeaseTime]
    /\ \A k \in Leases : k /= l => leases'[k] = SweptLeases[k]
    /\ tasks' \in [Tasks -> TaskRow] /\ leases' \in [Leases -> LeaseRow]
    /\ completions' = completions

LEMMA ClaimRows ==
    ASSUME KernelTypeOK, LeasesHeld, NEW a \in Agents, NEW t \in Tasks, NEW l \in Leases,
           ClaimTask(a, t, l)
    PROVE  Claimed(a, t, l)
<1> USE KernelAssumption
<1> DEFINE ts == SweptTasks
           ls == SweptLeases
           new == [status |-> "active", task |-> t, owner |-> a, expires |-> now + LeaseTime]
<1>1. ts \in [Tasks -> TaskRow] /\ ls \in [Leases -> LeaseRow] /\ Held(ts, ls)
  BY SweepHolds
<1>2. /\ ts[t].status \in {"pending", "ready"}
      /\ \A p \in Prerequisites[t] : tasks[p].status = "completed"
      /\ leases[l] = NoLease
      /\ leases' = [ls EXCEPT ![l] = new]
      /\ tasks' = [ts EXCEPT ![t].status = "claimed", ![t].lease = l]
      /\ completions' = completions
  BY DEF ClaimTask, Claimable
<1> HIDE DEF ts, ls
<1>3. ts[t].lease = None
  BY <1>1, <1>2 DEF Held
<1>4. /\ tasks'[t] = [status |-> "claimed", lease |-> l]
      /\ \A u \in Tasks : u /= t => tasks'[u] = ts[u]
  <2>1. tasks'[t] = [ts[t] EXCEPT !.status = "claimed", !.lease = l]
    BY <1>1, <1>2
  <2>2. ts[t] \in TaskRow
    BY <1>1
  <2>3. \A u \in Tasks : u /= t => tasks'[u] = ts[u]
    BY <1>1, <1>2
  <2> QED BY <2>1, <2>2, <2>3 DEF TaskRow
<1>5. [status |-> "claimed", lease |-> l] \in TaskRow
  BY DEF TaskRow
<1>6. tasks' \in [Tasks -> TaskRow]
  BY <1>1, <1>2, <1>4, <1>5
<1>7. new \in LeaseRow
  BY DEF KernelTypeOK, LeaseRow
<1>8. /\ leases'[l] = new /\ \A k \in Leases : k /= l => leases'[k] = ls[k]
      /\ leases' \in [Leases -> LeaseRow]
  BY <1>1, <1>2, <1>7
<1> QED BY <1>2, <1>3, <1>4, <1>6, <1>8 DEF Claimed, NoLease, ts, ls

\* The holder gives its task back or ends it, and its lease with it.
Dropped(l, status, end) ==
    LET t == leases[l].task IN
    /\ t \in Tasks /\ tasks[t].status = "claimed" /\ tasks[t].lease = l
    /\ leases[l].status = "active"
    /\ tasks'[t] = [status |-> status, lease |-> None]
    /\ \A u \in Tasks : u /= t => tasks'[u] = tasks[u]
    /\ leases'[l] = [leases[l] EXCEPT !.status = end]
    /\ \A k \in Leases : k /= l => leases'[k] = leases[k]
    /\ tasks' \in [Tasks -> TaskRow] /\ leases' \in [Leases -> LeaseRow]

LEMMA DropRows ==
    ASSUME KernelTypeOK, LeasesHeld, NEW a \in Agents, NEW l \in Leases, Holds(a, l),
           NEW status \in {"ready", "completed", "failed"}, NEW end \in {"released", "completed"},
           tasks' = [tasks EXCEPT ![leases[l].task].status = status, ![leases[l].task].lease = None],
           leases' = [leases EXCEPT ![l].status = end]
    PROVE  Dropped(l, status, end)
<1> DEFINE t == leases[l].task
<1>1. /\ t \in Tasks /\ tasks[t].status = "claimed" /\ tasks[t].lease = l
      /\ leases[l].status = "active"
  BY HeldLease
<1>2. tasks \in [Tasks -> TaskRow] /\ leases \in [Leases -> LeaseRow]
  BY DEF KernelTypeOK
<1>3. tasks' = [tasks EXCEPT ![t].status = status, ![t].lease = None]
  OBVIOUS
<1> HIDE DEF t
<1>4. /\ tasks'[t] = [status |-> status, lease |-> None]
      /\ \A u \in Tasks : u /= t => tasks'[u] = tasks[u]
  BY <1>1, <1>2, <1>3 DEF TaskRow
<1>5. [status |-> status, lease |-> None] \in TaskRow
  BY DEF TaskRow
<1>6. tasks' \in [Tasks -> TaskRow]
  <2>1. tasks' = [u \in Tasks |-> tasks'[u]]
    BY <1>2, <1>3
  <2>2. \A u \in Tasks : tasks'[u] \in TaskRow
    BY <1>2, <1>4, <1>5
  <2> QED BY <2>1, <2>2
<1>7. /\ leases'[l] = [leases[l] EXCEPT !.status = end]
      /\ \A k \in Leases : k /= l => leases'[k] = leases[k]
      /\ leases' \in [Leases -> LeaseRow]
  BY <1>2 DEF LeaseRow
<1> QED BY <1>1, <1>4, <1>6, <1>7 DEF Dropped, t

LEMMA BoardStep ==
    ASSUME KernelTypeOK, LeasesHeld, [Next]_vars
    PROVE  /\ now' \in 0..MaxTime
           /\ tasks' \in [Tasks -> TaskRow] /\ leases' \in [Leases -> LeaseRow]
           /\ LeasesHeld'
<1> USE KernelAssumption
<1> DEFINE Goal == /\ tasks' \in [Tasks -> TaskRow] /\ leases' \in [Leases -> LeaseRow]
                   /\ Held(tasks', leases')
<1>0. /\ tasks \in [Tasks -> TaskRow] /\ leases \in [Leases -> LeaseRow]
      /\ now \in 0..MaxTime /\ Held(tasks, leases)
  BY DEF KernelTypeOK, LeasesHeld
<1>1. now' \in 0..MaxTime
  <2>1. CASE Tick
    BY <1>0, <2>1 DEF Tick
  <2>2. CASE UNCHANGED now
    BY <1>0, <2>2
  <2> QED BY <2>1, <2>2, Frames
<1>2. ASSUME UNCHANGED <<tasks, leases, completions>>
      PROVE  Goal
  <2>1. tasks' = tasks /\ leases' = leases
    BY <1>2
  <2>2. Held(tasks', leases')
    BY <1>0, <2>1 DEF Held
  <2> QED BY <1>0, <2>1, <2>2
<1>3. ASSUME ClaimRefused
      PROVE  Goal
  <2>1. tasks' = SweptTasks /\ leases' = SweptLeases
    BY <1>3 DEF ClaimRefused
  <2>2. Held(tasks', leases')
    BY <2>1, SweepHolds DEF Held
  <2> QED BY <2>1, <2>2, SweepHolds
<1>4. ASSUME NEW a \in Agents, NEW t \in Tasks, NEW l \in Leases, ClaimTask(a, t, l)
      PROVE  Goal
  <2> DEFINE ts == SweptTasks
             ls == SweptLeases
  <2>1. Claimed(a, t, l)
    BY <1>4, ClaimRows
  <2>2. /\ ts \in [Tasks -> TaskRow] /\ ls \in [Leases -> LeaseRow] /\ Held(ts, ls)
        /\ ls[l].status = "free" /\ ts[t].lease = None
        /\ tasks'[t] = [status |-> "claimed", lease |-> l]
        /\ \A u \in Tasks : u /= t => tasks'[u] = ts[u]
        /\ leases'[l] = [status |-> "active", task |-> t, owner |-> a, expires |-> now + LeaseTime]
        /\ \A k \in Leases : k /= l => leases'[k] = ls[k]
    <3>1. leases[l].status = "free"
      BY <2>1 DEF Claimed
    <3>2. ls[l].status = "free"
      BY <3>1 DEF SweptLeases, Elapsed
    <3> QED BY <2>1, <3>2, SweepHolds DEF Claimed
  <2> HIDE DEF ts, ls
  <2>3. ASSUME NEW u \in Tasks
        PROVE  /\ tasks'[u].lease /= None <=> tasks'[u].status = "claimed"
               /\ tasks'[u].lease /= None => /\ leases'[tasks'[u].lease].status = "active"
                                             /\ leases'[tasks'[u].lease].task = u
    <3>1. CASE u = t
      BY <2>2, <3>1
    <3>2. CASE u /= t
      <4>1. tasks'[u] = ts[u] /\ ts[u] \in TaskRow
        BY <2>2, <3>2
      <4>2. ASSUME ts[u].lease /= None
            PROVE  leases'[ts[u].lease] = ls[ts[u].lease]
        <5>1. ts[u].lease \in Leases /\ ls[ts[u].lease].status = "active"
          BY <2>2, <4>1, <4>2 DEF TaskRow, Held
        <5> QED BY <2>2, <5>1
      <4> QED BY <2>2, <4>1, <4>2 DEF Held
    <3> QED BY <3>1, <3>2
  <2>4. ASSUME NEW k \in Leases, leases'[k].status = "active"
        PROVE  /\ leases'[k].task \in Tasks /\ leases'[k].owner \in Agents
               /\ tasks'[leases'[k].task].lease = k
    <3>1. CASE k = l
      BY <2>2, <3>1
    <3>2. CASE k /= l
      <4>1. leases'[k] = ls[k]
        BY <2>2, <3>2
      <4>2. ls[k].task \in Tasks /\ ls[k].owner \in Agents /\ ts[ls[k].task].lease = k
        BY <2>2, <2>4, <4>1 DEF Held
      <4>3. ls[k].task /= t
        BY <2>2, <4>2
      <4> QED BY <2>2, <4>1, <4>2, <4>3
    <3> QED BY <3>1, <3>2
  <2>5. Held(tasks', leases')
    BY <2>3, <2>4 DEF Held
  <2> QED BY <2>1, <2>5 DEF Claimed
<1>5. ASSUME NEW a \in Agents, NEW l \in Leases, RenewLease(a, l)
      PROVE  Goal
  <2>1. /\ tasks' = tasks /\ leases' \in [Leases -> LeaseRow]
        /\ \A k \in Leases : /\ leases'[k].status = leases[k].status
                             /\ leases'[k].task = leases[k].task
                             /\ leases'[k].owner = leases[k].owner
    BY <1>0, <1>5 DEF RenewLease, LeaseRow
  <2>2. \A u \in Tasks : tasks[u].lease /= None => tasks[u].lease \in Leases
    BY <1>0 DEF TaskRow
  <2> QED BY <1>0, <2>1, <2>2 DEF Held
<1>6. ASSUME NEW l \in Leases, NEW status \in {"ready", "completed", "failed"},
             NEW end \in {"released", "completed"}, Dropped(l, status, end)
      PROVE  Goal
  <2> DEFINE t == leases[l].task
  <2>1. /\ t \in Tasks /\ tasks[t].lease = l /\ tasks'[t] = [status |-> status, lease |-> None]
        /\ \A u \in Tasks : u /= t => tasks'[u] = tasks[u]
        /\ leases'[l].status = end /\ \A k \in Leases : k /= l => leases'[k] = leases[k]
    BY <1>0, <1>6 DEF Dropped, LeaseRow
  <2> HIDE DEF t
  <2>2. ASSUME NEW u \in Tasks
        PROVE  /\ tasks'[u].lease /= None <=> tasks'[u].status = "claimed"
               /\ tasks'[u].lease /= None => /\ leases'[tasks'[u].lease].status = "active"
                                             /\ leases'[tasks'[u].lease].task = u
    <3>1. CASE u = t
      BY <2>1, <3>1
    <3>2. CASE u /= t
      <4>1. tasks'[u] = tasks[u] /\ tasks[u] \in TaskRow
        BY <1>0, <2>1, <3>2
      <4>2. ASSUME tasks[u].lease /= None
            PROVE  leases'[tasks[u].lease] = leases[tasks[u].lease]
        <5>1. tasks[u].lease \in Leases /\ leases[tasks[u].lease].task = u
          BY <1>0, <4>1, <4>2 DEF TaskRow, Held
        <5>2. tasks[u].lease /= l
          BY <3>2, <5>1 DEF t
        <5> QED BY <2>1, <5>1, <5>2
      <4> QED BY <1>0, <4>1, <4>2 DEF Held
    <3> QED BY <3>1, <3>2
  <2>3. ASSUME NEW k \in Leases, leases'[k].status = "active"
        PROVE  /\ leases'[k].task \in Tasks /\ leases'[k].owner \in Agents
               /\ tasks'[leases'[k].task].lease = k
    <3>1. k /= l
      BY <2>1, <2>3
    <3>2. leases'[k] = leases[k]
      BY <2>1, <3>1
    <3>3. leases[k].task \in Tasks /\ leases[k].owner \in Agents /\ tasks[leases[k].task].lease = k
      BY <1>0, <2>3, <3>2 DEF Held
    <3>4. leases[k].task /= t
      BY <2>1, <3>1, <3>3
    <3> QED BY <2>1, <3>2, <3>3, <3>4
  <2>4. Held(tasks', leases')
    BY <2>2, <2>3 DEF Held
  <2> QED BY <1>6, <2>4 DEF Dropped
<1>7. ASSUME NEW a \in Agents, NEW l \in Leases, ReleaseTask(a, l)
      PROVE  Goal
  BY <1>6, <1>7, DropRows DEF ReleaseTask
<1>8. ASSUME NEW a \in Agents, NEW l \in Leases, NEW outcome \in Outcomes, NEW cited \in Named,
             CompleteTask(a, l, outcome, cited)
      PROVE  Goal
  BY <1>6, <1>8, DropRows DEF CompleteTask
<1>9. Goal
  BY <1>2, <1>3, <1>4, <1>5, <1>7, <1>8, Frames DEF Coordinate
<1> QED BY <1>1, <1>9 DEF LeasesHeld

LEMMA CompleteRows ==
    ASSUME KernelTypeOK, LeasesHeld, NEW a \in Agents, NEW l \in Leases, NEW outcome \in Outcomes,
           NEW cited, CompleteTask(a, l, outcome, cited)
    PROVE  /\ Dropped(l, IF outcome = "succeeded" THEN "completed" ELSE "failed", "completed")
           /\ completions'[leases[l].task] =
                 [lease |-> l, agent |-> a, outcome |-> outcome, cited |-> cited]
           /\ \A u \in Tasks : u /= leases[l].task => completions'[u] = completions[u]
<1> DEFINE t == leases[l].task
           row == [lease |-> l, agent |-> a, outcome |-> outcome, cited |-> cited]
<1>1. Dropped(l, IF outcome = "succeeded" THEN "completed" ELSE "failed", "completed")
  BY DropRows DEF CompleteTask
<1>2. completions' = [completions EXCEPT ![t] = row]
  BY DEF CompleteTask
<1>3. t \in Tasks /\ completions \in [Tasks -> CompletionRow \cup {None}]
  BY HeldLease DEF CompleteTask, KernelTypeOK
<1> HIDE DEF t, row
<1>4. completions'[t] = row /\ \A u \in Tasks : u /= t => completions'[u] = completions[u]
  BY <1>2, <1>3
<1> QED BY <1>1, <1>4 DEF t, row

\* An ended task is not claimed again and its completion is not written over.
LEMMA EndedStep ==
    ASSUME KernelTypeOK, LeasesHeld, EndedForGood, [Next]_vars
    PROVE  /\ completions' \in [Tasks -> CompletionRow \cup {None}]
           /\ EndedForGood'
           /\ \A t \in Tasks : completions[t] /= None => completions'[t] = completions[t]
<1> USE KernelAssumption, NoneAssumption
<1> DEFINE Goal(t) == /\ completions'[t] /= None =>
                             /\ tasks'[t].status \in {"completed", "failed"}
                             /\ leases'[completions'[t].lease].status = "completed"
                      /\ completions[t] /= None => completions'[t] = completions[t]
           Typed == completions' \in [Tasks -> CompletionRow \cup {None}]
<1>0. /\ completions \in [Tasks -> CompletionRow \cup {None}]
      /\ tasks \in [Tasks -> TaskRow] /\ leases \in [Leases -> LeaseRow]
      /\ Held(tasks, leases)
      /\ \A t \in Tasks : completions[t] /= None =>
            /\ tasks[t].status \in {"completed", "failed"}
            /\ completions[t].lease \in Leases
            /\ leases[completions[t].lease].status = "completed"
  BY DEF KernelTypeOK, LeasesHeld, EndedForGood, CompletionRow
<1>2. ASSUME UNCHANGED <<tasks, leases, completions>>
      PROVE  Typed /\ \A t \in Tasks : Goal(t)
  BY <1>0, <1>2
<1>3. ASSUME completions' = completions,
             \A t \in Tasks : tasks[t].status \in {"completed", "failed"} => tasks'[t] = tasks[t],
             \A l \in Leases : leases[l].status = "completed" => leases'[l] = leases[l]
      PROVE  Typed /\ \A t \in Tasks : Goal(t)
  BY <1>0, <1>3
<1>4. /\ \A t \in Tasks : tasks[t].status \in {"completed", "failed"} => SweptTasks[t] = tasks[t]
      /\ \A l \in Leases : leases[l].status = "completed" => SweptLeases[l] = leases[l]
  BY SweepHolds DEF SweptTasks, SweptLeases, Elapsed
<1>5. ASSUME ClaimRefused
      PROVE  Typed /\ \A t \in Tasks : Goal(t)
  BY <1>3, <1>4, <1>5 DEF ClaimRefused
<1>6. ASSUME NEW a \in Agents, NEW t \in Tasks, NEW l \in Leases, ClaimTask(a, t, l)
      PROVE  Typed /\ \A u \in Tasks : Goal(u)
  <2>1. Claimed(a, t, l)
    BY <1>6, ClaimRows
  <2>2. tasks[t].status \notin {"completed", "failed"}
    BY <1>4, <2>1 DEF Claimed
  <2>3. leases[l].status /= "completed"
    BY <2>1 DEF Claimed
  <2> QED BY <1>3, <1>4, <2>1, <2>2, <2>3 DEF Claimed
<1>7. ASSUME NEW a \in Agents, NEW l \in Leases, RenewLease(a, l)
      PROVE  Typed /\ \A u \in Tasks : Goal(u)
  BY <1>0, <1>3, <1>7 DEF RenewLease, Live
<1>8. ASSUME NEW a \in Agents, NEW l \in Leases, ReleaseTask(a, l)
      PROVE  Typed /\ \A u \in Tasks : Goal(u)
  <2>1. Dropped(l, "ready", "released") /\ completions' = completions
    BY <1>8, DropRows DEF ReleaseTask
  <2> QED BY <1>3, <2>1 DEF Dropped
<1>9. ASSUME NEW a \in Agents, NEW l \in Leases, NEW outcome \in Outcomes, NEW cited \in Named,
             CompleteTask(a, l, outcome, cited)
      PROVE  Typed /\ \A u \in Tasks : Goal(u)
  <2> DEFINE t == leases[l].task
             row == [lease |-> l, agent |-> a, outcome |-> outcome, cited |-> cited]
  <2>1. /\ Dropped(l, IF outcome = "succeeded" THEN "completed" ELSE "failed", "completed")
        /\ completions'[t] = row
        /\ \A u \in Tasks : u /= t => completions'[u] = completions[u]
    BY <1>9, CompleteRows
  <2>2. row \in CompletionRow
    BY DEF CompletionRow, Named
  <2>3. Typed
    BY <1>0, <1>9, <2>2 DEF CompleteTask
  <2>4. /\ t \in Tasks /\ tasks[t].status = "claimed"
        /\ tasks'[t].status \in {"completed", "failed"} /\ leases'[l].status = "completed"
        /\ leases[l].status = "active"
        /\ \A u \in Tasks : u /= t => tasks'[u] = tasks[u]
        /\ \A k \in Leases : k /= l => leases'[k] = leases[k]
    BY <1>0, <2>1 DEF Dropped, LeaseRow
  <2> HIDE DEF t
  <2>5. ASSUME NEW u \in Tasks
        PROVE  Goal(u)
    <3>1. CASE u = t
      BY <1>0, <2>1, <2>4, <3>1
    <3>2. CASE u /= t
      BY <1>0, <2>1, <2>4, <3>2
    <3> QED BY <3>1, <3>2
  <2> QED BY <2>3, <2>5
<1> HIDE DEF Goal, Typed
<1>10. Typed /\ \A t \in Tasks : Goal(t)
  BY <1>2, <1>5, <1>6, <1>7, <1>8, <1>9, Frames DEF Coordinate
<1> QED BY <1>10 DEF Goal, Typed, EndedForGood

-----------------------------------------------------------------------------
(* Activations and outcomes.                                               *)

\* What a step does to the record of one activation: it is written once, while the lease
\* is held, and never changed.
LEMMA RecordedOnce ==
    ASSUME KernelTypeOK, [Next]_vars, NEW i \in ActivationIds
    PROVE  \/ activations'[i] = activations[i]
           \/ /\ activations[i] = None
              /\ \E a \in Agents : Holds(a, i[1])
<1>1. CASE UNCHANGED activations
  BY <1>1
<1>2. ASSUME NEW call \in selections, RecordActivation(call)
      PROVE  \/ activations'[i] = activations[i]
             \/ activations[i] = None /\ \E a \in Agents : Holds(a, i[1])
  <2>1. activations \in [ActivationIds -> Versions \cup {None}] /\ call \in Selection
    BY DEF KernelTypeOK
  <2>2. CASE RecordAccepted(call)
    <3>1. activations' = [activations EXCEPT ![call.id] = call.versions]
      BY <1>2, <2>2 DEF RecordActivation
    <3>2. CASE i /= call.id
      BY <2>1, <3>1, <3>2
    <3>3. CASE i = call.id /\ activations[i] /= None
      BY <2>1, <2>2, <3>1, <3>3 DEF RecordAccepted
    <3>4. CASE i = call.id /\ activations[i] = None
      <4>1. Holds(call.agent, i[1])
        BY <2>2, <3>4 DEF RecordAccepted
      <4>2. call.agent \in Agents
        BY <2>1 DEF Selection
      <4> QED BY <3>4, <4>1, <4>2
    <3> QED BY <3>2, <3>3, <3>4
  <2>3. CASE ~RecordAccepted(call)
    BY <1>1, <1>2, <2>3 DEF RecordActivation
  <2> QED BY <2>2, <2>3
<1>3. Activate => UNCHANGED activations \/ \E call \in selections : RecordActivation(call)
  BY DEF Activate, SelectMemories
<1> QED BY <1>1, <1>2, <1>3, Frames

\* Calls, records and deliveries keep their shapes, and what is delivered is on record.
LEMMA ActivationStep ==
    ASSUME KernelTypeOK, ContextTracked, [Next]_vars
    PROVE  /\ selections' \subseteq Selection
           /\ activations' \in [ActivationIds -> Versions \cup {None}]
           /\ delivered' \subseteq ActivationIds \X Versions
           /\ ContextTracked'
<1> USE NoneAssumption
<1> DEFINE Goal == /\ selections' \subseteq Selection
                   /\ activations' \in [ActivationIds -> Versions \cup {None}]
                   /\ delivered' \subseteq ActivationIds \X Versions
                   /\ \A d \in delivered' : activations'[d[1]] = d[2]
<1>0. /\ selections \subseteq Selection
      /\ activations \in [ActivationIds -> Versions \cup {None}]
      /\ delivered \subseteq ActivationIds \X Versions
      /\ \A d \in delivered : activations[d[1]] = d[2]
      /\ \A m \in Memories : memories[m].version \in 0..MaxVersion
  BY DEF KernelTypeOK, ContextTracked, MemoryRow
<1>1. ASSUME UNCHANGED <<selections, activations, delivered>>
      PROVE  Goal
  BY <1>0, <1>1
<1>2. ASSUME NEW a \in Agents, NEW l \in Leases, NEW g \in Triggers, NEW chosen \in Named,
             SelectMemories(a, l, g, chosen)
      PROVE  Goal
  <2> DEFINE versions == [m \in Memories |-> IF m \in chosen THEN memories[m].version ELSE 0]
  <2>1. versions \in Versions
    BY <1>0, KernelAssumption DEF Versions
  <2> HIDE DEF versions
  <2>2. [agent |-> a, id |-> <<l, g>>, versions |-> versions] \in Selection
    BY <2>1 DEF Selection, ActivationIds
  <2> QED BY <1>0, <1>2, <2>2 DEF SelectMemories, versions
<1>3. ASSUME NEW call \in selections, RecordActivation(call)
      PROVE  Goal
  <2>1. call.id \in ActivationIds /\ call.versions \in Versions
    BY <1>0 DEF Selection
  <2>2. selections' \subseteq Selection
    BY <1>0, <1>3 DEF RecordActivation
  <2>3. CASE ~RecordAccepted(call)
    BY <1>0, <1>3, <2>2, <2>3 DEF RecordActivation
  <2>4. CASE RecordAccepted(call)
    <3>1. /\ activations' = [activations EXCEPT ![call.id] = call.versions]
          /\ delivered' = delivered \cup {<<call.id, call.versions>>}
      BY <1>3, <2>4 DEF RecordActivation
    <3>2. activations[call.id] \in {None, call.versions}
      BY <2>4 DEF RecordAccepted
    <3>3. ASSUME NEW d \in delivered
          PROVE  activations'[d[1]] = d[2]
      <4>1. d[1] \in ActivationIds /\ d[2] /= None /\ activations[d[1]] = d[2]
        BY <1>0
      <4> QED BY <1>0, <2>1, <3>1, <3>2, <4>1
    <3>4. activations'[call.id] = call.versions
      BY <1>0, <2>1, <3>1
    <3>5. \A d \in delivered' : activations'[d[1]] = d[2]
      BY <3>1, <3>3, <3>4
    <3> QED BY <1>0, <2>1, <2>2, <3>1, <3>5
  <2> QED BY <2>3, <2>4
<1> HIDE DEF Goal
<1>4. Goal
  BY <1>1, <1>2, <1>3, Frames DEF Activate
<1> QED BY <1>4 DEF Goal, ContextTracked

\* What was activated under a lease that is not held any more stays as it is.
LEMMA ActivatedStay ==
    ASSUME KernelTypeOK, [Next]_vars, NEW l \in Leases, leases[l].status /= "active",
           NEW m \in Memories
    PROVE  ActivatedVersions(l, m)' = ActivatedVersions(l, m)
<1>1. ASSUME NEW g \in Triggers
      PROVE  activations'[<<l, g>>] = activations[<<l, g>>]
  BY RecordedOnce DEF ActivationIds, Holds, Live
<1> QED BY <1>1 DEF ActivatedVersions

\* Associations are made with the completion they belong to, and neither it nor what was
\* activated under its lease changes later.
LEMMA OutcomeStep ==
    ASSUME KernelTypeOK, LeasesHeld, EndedForGood, OutcomeBacked, [Next]_vars
    PROVE  associations' \subseteq AssociationRow /\ OutcomeBacked'
<1> USE NoneAssumption
<1> DEFINE Backed(x) ==
        /\ completions'[x.task] /= None
        /\ completions'[x.task].lease = x.lease /\ completions'[x.task].agent = x.agent
        /\ completions'[x.task].outcome = x.outcome /\ x.memory \in completions'[x.task].cited
        /\ ActivatedVersions(x.lease, x.memory)' = {x.version}
<1>1. ASSUME NEW x \in associations
      PROVE  x \in AssociationRow /\ Backed(x)
  <2>1. x \in AssociationRow /\ x.task \in Tasks /\ x.lease \in Leases /\ x.memory \in Memories
    BY DEF KernelTypeOK, AssociationRow
  <2>2. completions[x.task] /= None /\ completions[x.task].lease = x.lease
    BY DEF OutcomeBacked
  <2>3. completions'[x.task] = completions[x.task]
    BY <2>1, <2>2, EndedStep
  <2>4. leases[x.lease].status /= "active"
    BY <2>1, <2>2 DEF EndedForGood
  <2>5. ActivatedVersions(x.lease, x.memory)' = ActivatedVersions(x.lease, x.memory)
    BY <2>1, <2>4, ActivatedStay
  <2> QED BY <2>1, <2>3, <2>5 DEF OutcomeBacked
<1>2. ASSUME NEW a \in Agents, NEW l \in Leases, NEW outcome \in Outcomes, NEW cited \in Named,
             CompleteTask(a, l, outcome, cited)
      PROVE  \A x \in associations' : x \in AssociationRow /\ Backed(x)
  <2> DEFINE t == leases[l].task
  <2>1. t \in Tasks /\ cited \subseteq Memories
    BY <1>2, HeldLease DEF CompleteTask, Named
  <2>2. completions'[t] = [lease |-> l, agent |-> a, outcome |-> outcome, cited |-> cited]
    BY <1>2, CompleteRows
  <2>3. associations' = associations \cup
          {[task |-> t, lease |-> l, agent |-> a, memory |-> m, version |-> memories[m].version,
            outcome |-> outcome] : m \in Associated(l, cited)}
    BY <1>2 DEF CompleteTask
  <2>4. activations' = activations
    BY <1>2 DEF CompleteTask, useVars
  <2> HIDE DEF t
  <2>5. ASSUME NEW m \in Associated(l, cited), NEW x,
               x = [task |-> t, lease |-> l, agent |-> a, memory |-> m,
                    version |-> memories[m].version, outcome |-> outcome]
        PROVE  x \in AssociationRow /\ Backed(x)
    <3>1. /\ m \in cited /\ m \in Memories
          /\ ActivatedVersions(l, m) = {memories[m].version}
          /\ memories[m].version \in 0..MaxVersion
      BY <2>1 DEF Associated, KernelTypeOK, MemoryRow
    <3>2. ActivatedVersions(l, m)' = ActivatedVersions(l, m)
      BY <2>4 DEF ActivatedVersions
    <3>3. [lease |-> l, agent |-> a, outcome |-> outcome, cited |-> cited] /= None
      BY <2>1 DEF CompletionRow
    <3>4. x \in AssociationRow
      BY <2>1, <2>5, <3>1 DEF AssociationRow
    <3> QED BY <2>2, <2>5, <3>1, <3>2, <3>3, <3>4
  <2> QED BY <1>1, <2>3, <2>5
<1>3. UNCHANGED associations \/ \E a \in Agents, l \in Leases, outcome \in Outcomes, cited \in Named :
                                   CompleteTask(a, l, outcome, cited)
  BY ZenonT(40) DEF Next, vars, Tick, Coordinate, Activate, Judge, Curate, ClaimRefused, ClaimTask, RenewLease,
         ReleaseTask, SelectMemories, RecordActivation, ResolveConflict, RegisterSource,
         ReviewSource, RejectSource, AddEvidence, Remember, ReviewMemory, ReportConflict, useVars
<1>4. \A x \in associations' : x \in AssociationRow /\ Backed(x)
  BY <1>1, <1>2, <1>3
<1> QED BY <1>4 DEF OutcomeBacked

-----------------------------------------------------------------------------
(* Memories.                                                               *)

\* An entry of self.memories before the bound of its version is looked at.
UnboundedRow ==
    [state : LiveStates \cup {"absent", "superseded"}, content : Contents \cup {None},
     closed : BOOLEAN, supersedes : Memories \cup {None}, supersededBy : Memories \cup {None},
     previous : LiveStates \cup {None}, evidence : SUBSET Evidence, version : Nat,
     command : (Agents \X Commands) \cup {None}]

\* The entries the methods write in the place of one.
LEMMA RevisedRows ==
    ASSUME NEW row \in UnboundedRow
    PROVE  /\ \A state \in LiveStates : [row EXCEPT !.state = state, !.version = @ + 1] \in UnboundedRow
           /\ \A other : [row EXCEPT !.evidence = @ \ other, !.version = @ + 1] \in UnboundedRow
           /\ \A refs \in SUBSET Evidence :
                 [row EXCEPT !.evidence = @ \cup refs, !.version = @ + 1] \in UnboundedRow
           /\ \A state \in LiveStates, refs \in SUBSET Evidence :
                 [row EXCEPT !.state = state, !.evidence = @ \cup refs, !.version = @ + 1]
                    \in UnboundedRow
           /\ \A state \in LiveStates, times \in Nat :
                 [row EXCEPT !.state = state, !.closed = FALSE, !.supersededBy = None,
                             !.version = @ + times] \in UnboundedRow
           /\ \A state \in LiveStates, k \in Memories :
                 [row EXCEPT !.state = "superseded", !.previous = state, !.closed = TRUE,
                             !.supersededBy = k, !.version = @ + 1] \in UnboundedRow
<1>0. row.version + 1 \in Nat /\ \A times \in Nat : row.version + times \in Nat
  BY DEF UnboundedRow
<1>1. \A state \in LiveStates : [row EXCEPT !.state = state, !.version = @ + 1] \in UnboundedRow
  BY <1>0 DEF UnboundedRow
<1>2. \A other : [row EXCEPT !.evidence = @ \ other, !.version = @ + 1] \in UnboundedRow
  BY <1>0 DEF UnboundedRow
<1>3. \A refs \in SUBSET Evidence :
         [row EXCEPT !.evidence = @ \cup refs, !.version = @ + 1] \in UnboundedRow
  BY <1>0 DEF UnboundedRow
<1>4. \A state \in LiveStates, refs \in SUBSET Evidence :
         [row EXCEPT !.state = state, !.evidence = @ \cup refs, !.version = @ + 1] \in UnboundedRow
  BY <1>0 DEF UnboundedRow
<1>5. \A state \in LiveStates, times \in Nat :
         [row EXCEPT !.state = state, !.closed = FALSE, !.supersededBy = None,
                     !.version = @ + times] \in UnboundedRow
  BY <1>0 DEF UnboundedRow
<1>6. \A state \in LiveStates, k \in Memories :
         [row EXCEPT !.state = "superseded", !.previous = state, !.closed = TRUE,
                     !.supersededBy = k, !.version = @ + 1] \in UnboundedRow
  BY <1>0 DEF UnboundedRow
<1> QED BY <1>1, <1>2, <1>3, <1>4, <1>5, <1>6

LEMMA BoundedRow ==
    ASSUME NEW row
    PROVE  row \in MemoryRow <=> row \in UnboundedRow /\ row.version <= MaxVersion
<1> USE KernelAssumption DEF UnboundedRow, MemoryRow
<1>1. ASSUME row \in MemoryRow PROVE row \in UnboundedRow /\ row.version <= MaxVersion
  BY <1>1
<1>2. ASSUME row \in UnboundedRow, row.version <= MaxVersion PROVE row \in MemoryRow
  BY <1>2
<1> QED BY <1>1, <1>2

\* What a rejection makes of an entry, given what it says now.
LEMMA StrippedRow ==
    ASSUME NEW s \in Sources, NEW m \in Memories, memories[m] \in MemoryRow
    PROVE  /\ Stripped(s, m) \in UnboundedRow
           /\ Stripped(s, m).evidence \subseteq memories[m].evidence
           /\ Stripped(s, m).state \in {memories[m].state, "refuted"}
           /\ Stripped(s, m).state = "absent" <=> memories[m].state = "absent"
           /\ Stripped(s, m).closed = memories[m].closed
           /\ Stripped(s, m).supersedes = memories[m].supersedes
           /\ Stripped(s, m).previous = memories[m].previous
<1>1. memories[m] \in UnboundedRow
  BY BoundedRow
<1>2. CASE m \in Losing(s)
  <2>1. Stripped(s, m) = [memories[m] EXCEPT !.state = "refuted", !.version = @ + 1]
    BY <1>2 DEF Stripped
  <2>2. memories[m].state /= "absent"
    BY <1>2 DEF Losing, Citing, Current, Exists
  <2>3. Stripped(s, m) \in UnboundedRow
    BY <1>1, <2>1, RevisedRows DEF LiveStates
  <2> QED BY <1>1, <2>1, <2>2, <2>3 DEF UnboundedRow
<1>3. CASE m \in Citing(s) /\ m \notin Losing(s)
  <2>1. Stripped(s, m) = [memories[m] EXCEPT !.evidence = @ \ OfSource(s), !.version = @ + 1]
    BY <1>3 DEF Stripped
  <2>2. [memories[m] EXCEPT !.evidence = @ \ OfSource(s), !.version = @ + 1] \in UnboundedRow
    BY <1>1, RevisedRows, Zenon
  <2>3. Stripped(s, m) \in UnboundedRow
    BY <2>1, <2>2
  <2> QED BY <1>1, <2>1, <2>3 DEF UnboundedRow
<1>4. CASE m \notin Citing(s)
  <2>1. Stripped(s, m) = memories[m]
    BY <1>4 DEF Stripped, Losing
  <2> QED BY <1>1, <2>1
<1> QED BY <1>2, <1>3, <1>4

LEMMA RolledBackRow ==
    ASSUME KernelTypeOK, SupersededClosed, Ordered, NEW s \in Sources, NEW m \in Memories
    PROVE  /\ RolledBack(s, m) \in UnboundedRow
           /\ RolledBack(s, m).evidence \subseteq memories[m].evidence
           /\ RolledBack(s, m).state = "superseded" => RolledBack(s, m).closed
           /\ RolledBack(s, m).state = "absent" <=> memories[m].state = "absent"
           /\ RolledBack(s, m).supersedes = memories[m].supersedes
<1> DEFINE times == Cardinality(Reopening(s, m))
           row == Stripped(s, m)
<1>1. memories[m] \in MemoryRow /\ (memories[m].state = "superseded" => memories[m].closed)
  BY DEF KernelTypeOK, SupersededClosed
<1>2. /\ row \in UnboundedRow /\ row.evidence \subseteq memories[m].evidence
      /\ row.state \in {memories[m].state, "refuted"}
      /\ row.state = "absent" <=> memories[m].state = "absent"
      /\ row.closed = memories[m].closed /\ row.supersedes = memories[m].supersedes
  BY <1>1, StrippedRow
<1>3. IsFiniteSet(Reopening(s, m)) /\ times \in Nat
  <2>1. IsFiniteSet(Memories)
    BY FS_Interval, KernelAssumption DEF Memories
  <2>2. Reopening(s, m) \subseteq Memories
    BY DEF Reopening, Losing, Citing
  <2> QED BY <2>1, <2>2, FS_Subset, FS_CardinalityType
<1>4. CASE times = 0
  <2>1. RolledBack(s, m) = row
    BY <1>4 DEF RolledBack
  <2> HIDE DEF row
  <2> QED BY <1>1, <1>2, <2>1
<1>5. CASE times /= 0
  <2> DEFINE state == IF memories[m].previous = None THEN "tentative" ELSE memories[m].previous
  <2>1. RolledBack(s, m) = [row EXCEPT !.state = state, !.closed = FALSE, !.supersededBy = None,
                                       !.version = @ + times]
    BY <1>5 DEF RolledBack
  <2>2. state \in LiveStates
    BY <1>1 DEF LiveStates, MemoryRow
  <2>3. memories[m].state /= "absent"
    <3>1. Reopening(s, m) /= {}
      BY <1>3, <1>5, FS_EmptySet
    <3>2. PICK n \in Memories : memories[n].supersedes = m
      BY <3>1 DEF Reopening, Losing, Citing
    <3>3. m /= None
      BY KernelAssumption DEF Memories
    <3> QED BY <3>2, <3>3 DEF Ordered, Exists
  <2> HIDE DEF row, times, state
  <2>4. [row EXCEPT !.state = state, !.closed = FALSE, !.supersededBy = None,
                    !.version = @ + times] \in UnboundedRow
    BY <1>2, <1>3, <2>2, RevisedRows, Zenon
  <2>5. RolledBack(s, m) \in UnboundedRow
    BY <2>1, <2>4
  <2> QED BY <1>2, <2>1, <2>2, <2>3, <2>5 DEF UnboundedRow, LiveStates
<1> QED BY <1>4, <1>5

\* Entries that cite known evidence, closed if superseded.
Sound(row, known) ==
    row \in MemoryRow /\ row.evidence \subseteq known /\ (row.state = "superseded" => row.closed)

LEMMA SoundRows ==
    ASSUME KernelTypeOK, SupersededClosed
    PROVE  /\ memories \in [Memories -> MemoryRow]
           /\ \A m \in Memories : Sound(memories[m], evidence) /\ memories[m] \in UnboundedRow
  BY BoundedRow DEF KernelTypeOK, SupersededClosed, Sound

LEMMA SameFresh ==
    ASSUME \A m \in Memories : Exists(m)' <=> Exists(m)
    PROVE  Fresh' = Fresh
<1>1. {m \in Memories : Exists(m)}' = {m \in Memories : Exists(m)}
  OBVIOUS
<1> QED BY <1>1 DEF Fresh

LEMMA NextFresh ==
    ASSUME Ordered, Fresh \in Memories,
           \A m \in Memories : Exists(m)' <=> Exists(m) \/ m = Fresh
    PROVE  Fresh' = Fresh + 1
<1> DEFINE S == {m \in Memories : Exists(m)}
<1>1. IsFiniteSet(S)
  <2>1. IsFiniteSet(Memories)
    BY FS_Interval, KernelAssumption DEF Memories
  <2> QED BY <2>1, FS_Subset
<1>2. Fresh \notin S
  BY DEF Ordered, Memories
<1>3. S' = S \cup {Fresh}
  OBVIOUS
<1> HIDE DEF S
<1>4. Cardinality(S \cup {Fresh}) = Cardinality(S) + 1
  BY <1>1, <1>2, FS_AddElement
<1>5. Cardinality(S') = Cardinality(S) + 1
  BY <1>3, <1>4
<1> QED BY <1>5 DEF Fresh, S

\* A step that keeps which memories exist, and what they supersede or fewer, keeps the order.
LEMMA SameOrder ==
    ASSUME Ordered, \A m \in Memories : Exists(m)' <=> Exists(m),
           \A m \in Memories : memories'[m].supersedes = memories[m].supersedes,
           memories \in [Memories -> MemoryRow],
           \A m \in conflict'.members : Exists(m)'
    PROVE  Ordered'
<1>1. Fresh' = Fresh
  BY SameFresh
<1>2. ASSUME NEW m \in Memories
      PROVE  /\ Exists(m)' <=> m < Fresh'
             /\ memories'[m].supersedes /= None => Exists(memories[m].supersedes)'
  <2>1. memories[m].supersedes \in Memories \cup {None}
    BY DEF MemoryRow
  <2>2. ASSUME NEW n \in Memories PROVE Exists(n)' <=> Exists(n)
    OBVIOUS
  <2> QED BY <1>1, <2>1, <2>2 DEF Ordered
<1> QED BY <1>2 DEF Ordered, Exists

LEMMA CommandFields ==
    ASSUME NEW a \in Agents, NEW cmd \in Sent[a]
    PROVE  /\ cmd \in Commands /\ cmd.content \in Contents /\ cmd.desired \in LiveStates
           /\ cmd.evidence \subseteq Evidence /\ cmd.target \in Memories \cup {None}
  BY SentAssumption DEF Commands

\* What remember writes.  A new entry is written where no memory is, so that the target of
\* an update is another one.
WrittenRows(known) ==
    /\ memories' \in [Memories -> MemoryRow]
    /\ \A m \in Memories : Sound(memories'[m], known)
    /\ \/ /\ \A m \in Memories : /\ Exists(m)' <=> Exists(m)
                                 /\ memories'[m].supersedes = memories[m].supersedes
       \/ /\ Fresh \in Memories
          /\ memories'[Fresh].supersedes = None \/ Exists(memories'[Fresh].supersedes)
          /\ \A m \in Memories : /\ Exists(m)' <=> Exists(m) \/ m = Fresh
                                 /\ m /= Fresh => memories'[m].supersedes = memories[m].supersedes

LEMMA RememberWrites ==
    ASSUME KernelTypeOK, SupersededClosed, Ordered, NEW a \in Agents, NEW cmd \in Sent[a],
           Remember(a, cmd), RememberWrite(a, cmd)
    PROVE  WrittenRows(evidence)
<1> USE KernelAssumption
<1> DEFINE t == cmd.target
           k == Fresh
<1>0. /\ memories \in [Memories -> MemoryRow]
      /\ \A m \in Memories : Sound(memories[m], evidence) /\ memories[m] \in UnboundedRow
      /\ evidence \subseteq Evidence
  BY SoundRows DEF KernelTypeOK
<1>1. /\ memories' = Written(a, cmd) /\ Decide(cmd) /= "noop" /\ Answer(cmd) \in Memories
      /\ cmd.evidence \subseteq evidence
      /\ t /= None => memories[t].version < MaxVersion
  BY DEF Remember, RememberWrite
<1>2. /\ cmd \in Commands /\ t \in Memories \cup {None} /\ cmd.content \in Contents
      /\ cmd.desired \in LiveStates
  BY CommandFields
<1>3. ASSUME NEW p \in Memories \cup {None}
      PROVE  /\ Row(a, cmd, p) \in MemoryRow /\ Sound(Row(a, cmd, p), evidence)
             /\ Row(a, cmd, p).state /= "absent" /\ Row(a, cmd, p).supersedes = p
  <2>1. Row(a, cmd, p) \in MemoryRow
    BY <1>0, <1>1, <1>2 DEF Row, MemoryRow
  <2> QED BY <1>1, <1>2, <2>1 DEF Sound, Row, LiveStates
<1>4. CASE Decide(cmd) = "merge"
  <2> DEFINE row == [memories[t] EXCEPT !.evidence = @ \cup cmd.evidence, !.version = @ + 1]
  <2>1. t \in Memories /\ t /= None
    BY <1>2, <1>4 DEF Decide
  <2>2. memories' = [memories EXCEPT ![t] = row]
    BY <1>0, <1>1, <1>4, <2>1 DEF Written
  <2>3. row \in UnboundedRow
    <3>1. memories[t] \in UnboundedRow /\ cmd.evidence \in SUBSET Evidence
      BY <1>0, <1>1, <2>1
    <3> QED BY <3>1, RevisedRows, Zenon
  <2>4. row.version <= MaxVersion
    BY <1>0, <1>1, <2>1 DEF UnboundedRow
  <2>5. row \in MemoryRow
    BY <2>3, <2>4, BoundedRow
  <2>6. /\ row.evidence \subseteq evidence /\ (row.state = "superseded" => row.closed)
        /\ row.supersedes = memories[t].supersedes /\ row.state = memories[t].state
    BY <1>0, <1>1, <2>1 DEF Sound, UnboundedRow
  <2> HIDE DEF row, t
  <2> QED BY <1>0, <2>1, <2>2, <2>5, <2>6 DEF Sound, WrittenRows, Exists
<1>5. CASE Decide(cmd) = "add"
  <2>1. memories' = [memories EXCEPT ![k] = Row(a, cmd, None)]
    BY <1>1, <1>5 DEF Written
  <2>2. k \in Memories
    BY <1>1, <1>5 DEF Answer
  <2> HIDE DEF k
  <2> QED BY <1>0, <1>3, <2>1, <2>2 DEF Sound, WrittenRows, Exists, k
<1>6. CASE Decide(cmd) = "update"
  <2> DEFINE row == [memories[t] EXCEPT !.state = "superseded", !.previous = memories[t].state,
                                        !.closed = TRUE, !.supersededBy = k, !.version = @ + 1]
  <2>1. t \in Memories /\ t /= None /\ Current(t) /\ memories[t].state /= "refuted"
    BY <1>2, <1>6 DEF Decide
  <2>2. memories[t].state \in LiveStates
    BY <1>0, <2>1 DEF Sound, MemoryRow, Current, Exists
  <2>3. k \in Memories
    BY <1>1, <1>6 DEF Answer
  <2>4. k /= t
    BY <2>1, <2>3 DEF Ordered, Current, Memories
  <2>5. memories' = [memories EXCEPT ![k] = Row(a, cmd, t),
                                     ![t].state = "superseded", ![t].previous = memories[t].state,
                                     ![t].closed = TRUE, ![t].supersededBy = k,
                                     ![t].version = @ + 1]
    BY <1>1, <1>6 DEF Written
  <2> DEFINE base == [memories EXCEPT ![k] = Row(a, cmd, t)]
  <2>6. base \in [Memories -> MemoryRow] /\ base[t] = memories[t]
    BY <1>0, <1>3, <2>1, <2>3, <2>4
  <2>7. memories' = [base EXCEPT ![t].state = "superseded", ![t].previous = memories[t].state,
                                 ![t].closed = TRUE, ![t].supersededBy = k, ![t].version = @ + 1]
    BY <2>5, <2>6
  <2> HIDE DEF base, k
  <2>8. memories' = [base EXCEPT ![t] = row]
    BY <2>1, <2>6, <2>7
  <2> USE DEF base
  <2>9. row \in UnboundedRow
    <3>1. memories[t] \in UnboundedRow
      BY <1>0, <2>1
    <3> QED BY <2>2, <2>3, <3>1, RevisedRows, Zenon
  <2>10. row.version <= MaxVersion
    BY <1>0, <1>1, <2>1 DEF UnboundedRow
  <2>11. row \in MemoryRow
    BY <2>9, <2>10, BoundedRow
  <2>12. /\ row.evidence \subseteq evidence /\ row.closed
         /\ row.supersedes = memories[t].supersedes /\ row.state = "superseded"
    BY <1>0, <1>1, <2>1 DEF Sound, UnboundedRow
  <2>13. \A m \in Memories : /\ m = t => memories'[m] = row
                             /\ m = k => memories'[m] = Row(a, cmd, t)
                             /\ m /= t /\ m /= k => memories'[m] = memories[m]
    BY <1>0, <2>1, <2>3, <2>4, <2>6, <2>8
  <2>14. memories' \in [Memories -> MemoryRow]
    BY <2>1, <2>6, <2>8, <2>11
  <2> HIDE DEF row, t
  <2> QED BY <1>0, <1>3, <2>1, <2>3, <2>4, <2>11, <2>12, <2>13, <2>14
             DEF Sound, WrittenRows, Exists, Current, k
<1>7. Decide(cmd) \in {"merge", "add", "update", "noop"}
  BY DEF Decide
<1> QED BY <1>1, <1>4, <1>5, <1>6, <1>7

\* A rejection and a review keep which memories exist, and so does a resolution.
LEMMA RevisionWrites ==
    ASSUME KernelTypeOK, SupersededClosed, NEW new \in [Memories -> UnboundedRow],
           memories' = new, NEW known, evidence \subseteq known,
           \A m \in Memories : /\ new[m].version <= MaxVersion
                               /\ new[m].evidence \subseteq known
                               /\ new[m].state = "superseded" => new[m].closed
                               /\ new[m].state = "absent" <=> memories[m].state = "absent"
                               /\ new[m].supersedes = memories[m].supersedes
    PROVE  WrittenRows(known)
<1>1. \A m \in Memories : memories'[m] \in MemoryRow
  BY BoundedRow
<1>2. memories' \in [Memories -> MemoryRow]
  BY <1>1
<1> QED BY <1>1, <1>2 DEF WrittenRows, Sound, Exists

LEMMA RejectWrites ==
    ASSUME KernelTypeOK, SupersededClosed, Ordered, NEW a \in Agents, NEW s \in Sources,
           RejectSource(a, s)
    PROVE  WrittenRows(evidence)
<1> DEFINE new == [m \in Memories |-> RolledBack(s, m)]
<1>1. memories' = new /\ \A m \in Memories : RolledBack(s, m).version <= MaxVersion
  BY DEF RejectSource
<1>2. \A m \in Memories : memories[m].evidence \subseteq evidence
  BY DEF KernelTypeOK
<1>3. new \in [Memories -> UnboundedRow]
  BY RolledBackRow
<1>4. \A m \in Memories : /\ new[m].version <= MaxVersion
                          /\ new[m].evidence \subseteq evidence
                          /\ new[m].state = "superseded" => new[m].closed
                          /\ new[m].state = "absent" <=> memories[m].state = "absent"
                          /\ new[m].supersedes = memories[m].supersedes
  BY <1>1, <1>2, RolledBackRow
<1> HIDE DEF new
<1> QED BY <1>1, <1>3, <1>4, RevisionWrites

LEMMA ReviewWrites ==
    ASSUME KernelTypeOK, SupersededClosed, NEW a \in Agents, NEW m \in Memories,
           NEW state \in {"confirmed", "refuted"}, NEW refs \in SUBSET Evidence,
           ReviewMemory(a, m, state, refs)
    PROVE  WrittenRows(evidence)
<1> USE KernelAssumption
<1> DEFINE row == [memories[m] EXCEPT !.state = state, !.evidence = @ \cup refs, !.version = @ + 1]
           new == [memories EXCEPT ![m] = row]
<1>1. /\ memories \in [Memories -> MemoryRow]
      /\ \A n \in Memories : Sound(memories[n], evidence) /\ memories[n] \in UnboundedRow
  BY SoundRows
<1>2. /\ memories[m].state /= "absent" /\ memories[m].version < MaxVersion
      /\ refs \subseteq evidence /\ memories' = new
  BY <1>1 DEF ReviewMemory, Current, Exists
<1>3. row \in UnboundedRow
  <2>1. memories[m] \in UnboundedRow /\ state \in LiveStates
    BY <1>1 DEF LiveStates
  <2> QED BY <2>1, RevisedRows, Zenon
<1>4. /\ row.version <= MaxVersion /\ row.evidence \subseteq evidence
      /\ row.state \notin {"absent", "superseded"} /\ row.supersedes = memories[m].supersedes
  BY <1>1, <1>2 DEF Sound, UnboundedRow
<1> HIDE DEF row
<1>5. new \in [Memories -> UnboundedRow]
  BY <1>1, <1>3
<1>6. \A n \in Memories : /\ new[n].version <= MaxVersion
                          /\ new[n].evidence \subseteq evidence
                          /\ new[n].state = "superseded" => new[n].closed
                          /\ new[n].state = "absent" <=> memories[n].state = "absent"
                          /\ new[n].supersedes = memories[n].supersedes
  <2> SUFFICES ASSUME NEW n \in Memories
               PROVE  /\ new[n].version <= MaxVersion
                      /\ new[n].evidence \subseteq evidence
                      /\ new[n].state = "superseded" => new[n].closed
                      /\ new[n].state = "absent" <=> memories[n].state = "absent"
                      /\ new[n].supersedes = memories[n].supersedes
    OBVIOUS
  <2>1. CASE n = m
    BY <1>1, <1>2, <1>4, <2>1
  <2>2. CASE n /= m
    <3>1. new[n] = memories[n] /\ memories[n].version <= MaxVersion
      BY <1>1, <2>2, BoundedRow
    <3> QED BY <1>1, <3>1 DEF Sound
  <2> QED BY <2>1, <2>2
<1> HIDE DEF new
<1> QED BY <1>2, <1>5, <1>6, RevisionWrites

LEMMA ResolutionWrites ==
    ASSUME KernelTypeOK, SupersededClosed, Ordered, NEW a \in Agents,
           NEW supports, NEW refutes, NEW refs \in SUBSET Evidence,
           ResolveConflict(a, supports, refutes, refs)
    PROVE  WrittenRows(evidence)
<1> USE KernelAssumption
<1> DEFINE new == [m \in Memories |-> Resolved(m, supports, refutes, refs)]
<1>1. /\ memories \in [Memories -> MemoryRow]
      /\ \A m \in Memories : Sound(memories[m], evidence) /\ memories[m] \in UnboundedRow
  BY SoundRows
<1>2. /\ refs \subseteq evidence /\ memories' = new
      /\ \A m \in supports \cup refutes : /\ m \in conflict.members
                                          /\ memories[m].version < MaxVersion
  BY DEF ResolveConflict
<1>3. \A m \in supports \cup refutes : memories[m].state /= "absent"
  BY <1>2 DEF Ordered, Exists
<1>4. ASSUME NEW m \in Memories
      PROVE  /\ new[m] \in UnboundedRow
             /\ new[m].version <= MaxVersion
             /\ new[m].evidence \subseteq evidence
             /\ new[m].state = "superseded" => new[m].closed
             /\ new[m].state = "absent" <=> memories[m].state = "absent"
             /\ new[m].supersedes = memories[m].supersedes
  <2>1. /\ memories[m] \in UnboundedRow /\ memories[m].version <= MaxVersion
        /\ Sound(memories[m], evidence)
    BY <1>1, BoundedRow
  <2>2. CASE m \in supports /\ memories[m].state \notin {"superseded", "refuted"}
    <3> DEFINE row == [memories[m] EXCEPT !.state = "confirmed", !.evidence = @ \cup refs,
                                          !.version = @ + 1]
    <3>1. new[m] = row
      BY <2>2 DEF Resolved
    <3>2. row \in UnboundedRow
      BY <2>1, RevisedRows DEF LiveStates
    <3>3. /\ row.version <= MaxVersion /\ row.evidence \subseteq evidence
          /\ row.state = "confirmed" /\ row.supersedes = memories[m].supersedes
      BY <1>2, <2>1, <2>2 DEF UnboundedRow, Sound
    <3> HIDE DEF row, new
    <3> QED BY <1>3, <2>2, <3>1, <3>2, <3>3
  <2>3. CASE /\ ~(m \in supports /\ memories[m].state \notin {"superseded", "refuted"})
             /\ m \in refutes /\ memories[m].state /= "superseded"
    <3> DEFINE row == [memories[m] EXCEPT !.state = "refuted", !.version = @ + 1]
    <3>1. new[m] = row
      BY <2>3 DEF Resolved
    <3>2. row \in UnboundedRow
      BY <2>1, RevisedRows DEF LiveStates
    <3>3. /\ row.version <= MaxVersion /\ row.evidence \subseteq evidence
          /\ row.state = "refuted" /\ row.supersedes = memories[m].supersedes
      BY <1>2, <2>1, <2>3 DEF UnboundedRow, Sound
    <3> HIDE DEF row, new
    <3> QED BY <1>3, <2>3, <3>1, <3>2, <3>3
  <2>4. CASE /\ ~(m \in supports /\ memories[m].state \notin {"superseded", "refuted"})
             /\ ~(m \in refutes /\ memories[m].state /= "superseded")
    <3>1. new[m] = memories[m]
      BY <2>4 DEF Resolved
    <3> QED BY <2>1, <3>1 DEF Sound
  <2> QED BY <2>2, <2>3, <2>4
<1>5. new \in [Memories -> UnboundedRow]
  BY <1>4
<1> HIDE DEF new
<1> QED BY <1>2, <1>4, <1>5, RevisionWrites

LEMMA WrittenOrder ==
    ASSUME KernelTypeOK, Ordered, NEW known, WrittenRows(known),
           \A m \in conflict'.members : Exists(m) /\ m \in Memories
    PROVE  Ordered'
<1> USE KernelAssumption
<1>1. CASE \A m \in Memories : /\ Exists(m)' <=> Exists(m)
                               /\ memories'[m].supersedes = memories[m].supersedes
  <2>1. memories \in [Memories -> MemoryRow] /\ \A m \in conflict'.members : Exists(m)'
    BY <1>1 DEF KernelTypeOK
  <2> QED BY <1>1, <2>1, SameOrder
<1>2. CASE /\ Fresh \in Memories
           /\ memories'[Fresh].supersedes = None \/ Exists(memories'[Fresh].supersedes)
           /\ \A m \in Memories :
                 /\ Exists(m)' <=> Exists(m) \/ m = Fresh
                 /\ m /= Fresh => memories'[m].supersedes = memories[m].supersedes
  <2> DEFINE k == Fresh
  <2>1. Fresh' = k + 1 /\ k \in Nat
    BY <1>2, NextFresh DEF Memories
  <2>2. /\ k \in Memories
        /\ memories'[k].supersedes = None \/ Exists(memories'[k].supersedes)
        /\ \A m \in Memories : /\ Exists(m)' <=> Exists(m) \/ m = k
                               /\ m /= k => memories'[m].supersedes = memories[m].supersedes
        /\ \A m \in Memories : /\ Exists(m) <=> m < k
                               /\ memories[m].supersedes /= None => Exists(memories[m].supersedes)
    BY <1>2 DEF Ordered
  <2> HIDE DEF k
  <2>3. \A m \in Memories : Exists(m)' <=> m < Fresh'
    BY <2>1, <2>2 DEF Memories
  <2>4. ASSUME NEW m \in Memories, memories'[m].supersedes /= None
        PROVE  Exists(memories[m].supersedes)'
    <3>1. Exists(memories'[m].supersedes)
      BY <2>2, <2>4
    <3>2. memories'[m].supersedes \in Memories
      <4>1. memories' \in [Memories -> MemoryRow]
        BY DEF WrittenRows
      <4> QED BY <2>4, <4>1 DEF MemoryRow
    <3>3. ASSUME NEW n \in Memories, Exists(n) PROVE memories'[n].state /= "absent"
      BY <2>2, <3>3 DEF Exists
    <3> QED BY <3>1, <3>2, <3>3 DEF Exists
  <2>5. \A m \in conflict'.members : Exists(m)'
    BY <2>2
  <2> QED BY <2>3, <2>4, <2>5 DEF Ordered
<1> QED BY <1>1, <1>2 DEF WrittenRows

\* What every step does to the sources, the evidence, the memories and the conflict.
MemoryKept ==
    /\ sources' \in [Sources -> {"absent", "pending", "approved", "rejected"}]
    /\ evidence' \subseteq Evidence
    /\ conflict' \in ConflictRow
    /\ \A m \in conflict'.members : Exists(m)
    /\ WrittenRows(evidence')

LEMMA UnwrittenRows ==
    ASSUME KernelTypeOK, SupersededClosed, UNCHANGED memories, NEW known, evidence \subseteq known
    PROVE  WrittenRows(known)
  BY SoundRows DEF WrittenRows, Sound, Exists

LEMMA MemoryStep ==
    ASSUME KernelTypeOK, SupersededClosed, Ordered, [Next]_vars
    PROVE  MemoryKept
<1>0. /\ sources \in [Sources -> {"absent", "pending", "approved", "rejected"}]
      /\ evidence \subseteq Evidence /\ conflict \in ConflictRow
      /\ \A m \in conflict.members : Exists(m)
  BY DEF KernelTypeOK, Ordered
<1>1. CASE UNCHANGED <<sources, evidence, memories, links, conflict, served>>
  BY <1>0, <1>1, UnwrittenRows DEF MemoryKept
<1>2. ASSUME NEW s \in Sources, RegisterSource(s) PROVE MemoryKept
  BY <1>0, <1>2, UnwrittenRows DEF MemoryKept, RegisterSource
<1>3. ASSUME NEW a \in Agents, NEW s \in Sources, ReviewSource(a, s) PROVE MemoryKept
  BY <1>0, <1>3, UnwrittenRows DEF MemoryKept, ReviewSource
<1>4. ASSUME NEW a \in Agents, NEW s \in Sources, RejectSource(a, s) PROVE MemoryKept
  <2>1. WrittenRows(evidence) /\ UNCHANGED <<evidence, conflict>>
    BY <1>4, RejectWrites DEF RejectSource
  <2>2. sources' \in [Sources -> {"absent", "pending", "approved", "rejected"}]
    BY <1>0, <1>4 DEF RejectSource
  <2> QED BY <1>0, <2>1, <2>2 DEF MemoryKept
<1>5. ASSUME NEW e \in Evidence, AddEvidence(e) PROVE MemoryKept
  BY <1>0, <1>5, UnwrittenRows DEF MemoryKept, AddEvidence
<1>6. ASSUME NEW a \in Agents, NEW cmd \in Sent[a], Remember(a, cmd) PROVE MemoryKept
  <2>1. UNCHANGED <<sources, evidence, conflict>>
    BY <1>6 DEF Remember
  <2>2. CASE RememberNoop(a, cmd)
    BY <1>0, <2>1, <2>2, UnwrittenRows DEF MemoryKept, RememberNoop
  <2>3. CASE RememberWrite(a, cmd)
    <3>1. WrittenRows(evidence)
      BY <1>6, <2>3, RememberWrites
    <3> QED BY <1>0, <2>1, <3>1 DEF MemoryKept
  <2> QED BY <1>6, <2>2, <2>3 DEF Remember
<1>7. ASSUME NEW a \in Agents, NEW m \in Memories, NEW state \in {"confirmed", "refuted"},
             NEW refs \in SUBSET Evidence, ReviewMemory(a, m, state, refs)
      PROVE  MemoryKept
  <2>1. WrittenRows(evidence) /\ UNCHANGED <<sources, evidence, conflict>>
    BY <1>7, ReviewWrites DEF ReviewMemory
  <2> QED BY <1>0, <2>1 DEF MemoryKept
<1>8. ASSUME NEW members \in SUBSET Memories, ReportConflict(members) PROVE MemoryKept
  <2>1. /\ UNCHANGED <<sources, evidence, memories>> /\ \A m \in members : Exists(m)
        /\ conflict' = [state |-> "open", members |-> members]
    BY <1>8 DEF ReportConflict
  <2> QED BY <1>0, <2>1, UnwrittenRows DEF MemoryKept, ConflictRow
<1>9. CASE Judge
  <2>1. PICK a \in Agents, supports \in SUBSET conflict.members, refutes \in SUBSET conflict.members,
             refs \in SUBSET Evidence : ResolveConflict(a, supports, refutes, refs)
    BY <1>9 DEF Judge
  <2>2. WrittenRows(evidence)
    BY <2>1, ResolutionWrites
  <2>3. UNCHANGED <<sources, evidence>>
    BY <2>1 DEF ResolveConflict
  <2>4. PICK state \in {"resolved", "dismissed"} : conflict' = [conflict EXCEPT !.state = state]
    BY <2>1 DEF ResolveConflict
  <2>5. conflict' \in ConflictRow /\ conflict'.members = conflict.members
    BY <1>0, <2>4 DEF ConflictRow
  <2> QED BY <1>0, <2>2, <2>3, <2>5 DEF MemoryKept
<1>10. CASE Curate
  BY <1>2, <1>3, <1>4, <1>5, <1>6, <1>7, <1>8, <1>10 DEF Curate
<1> QED BY <1>1, <1>9, <1>10, Frames

LEMMA KernelStep == KernelInv /\ [Next]_vars => KernelInv'
<1> SUFFICES ASSUME KernelInv, [Next]_vars PROVE KernelInv'
  OBVIOUS
<1>1. KernelTypeOK /\ LeasesHeld /\ EndedForGood /\ SupersededClosed /\ Ordered
      /\ OutcomeBacked /\ ContextTracked
  BY DEF KernelInv
<1>2. /\ now' \in 0..MaxTime
      /\ tasks' \in [Tasks -> TaskRow] /\ leases' \in [Leases -> LeaseRow]
      /\ LeasesHeld'
  BY <1>1, BoardStep
<1>3. completions' \in [Tasks -> CompletionRow \cup {None}] /\ EndedForGood'
  BY <1>1, EndedStep
<1>4. /\ selections' \subseteq Selection
      /\ activations' \in [ActivationIds -> Versions \cup {None}]
      /\ delivered' \subseteq ActivationIds \X Versions
      /\ ContextTracked'
  BY <1>1, ActivationStep
<1>5. associations' \subseteq AssociationRow /\ OutcomeBacked'
  BY <1>1, OutcomeStep
<1>6. MemoryKept
  BY <1>1, MemoryStep
<1>7. /\ sources' \in [Sources -> {"absent", "pending", "approved", "rejected"}]
      /\ evidence' \subseteq Evidence /\ conflict' \in ConflictRow
      /\ memories' \in [Memories -> MemoryRow]
      /\ \A m \in Memories : /\ memories'[m].evidence \subseteq evidence'
                             /\ memories'[m].state = "superseded" => memories'[m].closed
  BY <1>6 DEF MemoryKept, WrittenRows, Sound
<1>8. KernelTypeOK' /\ SupersededClosed'
  BY <1>2, <1>3, <1>4, <1>5, <1>7 DEF KernelTypeOK, SupersededClosed
<1>9. Ordered'
  <2>1. \A m \in conflict'.members : Exists(m) /\ m \in Memories
    BY <1>6 DEF MemoryKept, ConflictRow
  <2> QED BY <1>1, <1>6, <2>1, WrittenOrder DEF MemoryKept
<1> QED BY <1>2, <1>3, <1>4, <1>5, <1>8, <1>9 DEF KernelInv

LEMMA KernelSound == Spec => []KernelInv
  BY InitKernel, KernelStep, PTL DEF Spec

\* Every entry of the kernel keeps the shape its pydantic model gives it, for any number of
\* agents, tasks, leases and memories.
THEOREM KernelTyped == Spec => []KernelTypeOK
<1>1. KernelInv => KernelTypeOK
  BY DEF KernelInv
<1> QED BY <1>1, KernelSound, PTL

\* An agent never works with a context that is not on record, nor gets two different ones for
\* one trigger of a lease (record_memory_activation, application/coordination.py).
THEOREM ContextsTracked == Spec => []ContextTracked
<1>1. KernelInv => ContextTracked
  BY DEF KernelInv
<1> QED BY <1>1, KernelSound, PTL

\* Every outcome association is backed by the completion it belongs to and by the one version
\* activated under its lease (record_memory_activation, complete_task).
THEOREM OutcomesBacked == Spec => []OutcomeBacked
<1>1. KernelInv => OutcomeBacked
  BY DEF KernelInv
<1> QED BY <1>1, KernelSound, PTL

-----------------------------------------------------------------------------
(* The board.  Claims map to Take, with the elapsed leases lost; refused   *)
(* claims and releases to Lose, completions to End; the rest stutters.     *)

LEMMA SweepLoses ==
    ASSUME KernelTypeOK, LeasesHeld, NEW t \in Tasks
    PROVE  /\ SweptTasks[t].status \in {"completed", "failed"} <=>
                 tasks[t].status \in {"completed", "failed"}
           /\ SweptTasks[t].status \in {"completed", "failed"} =>
                 SweptTasks[t].status = tasks[t].status
           /\ t \in Freed => SweptTasks[t].lease = None
           /\ t \notin Freed => SweptTasks[t] = tasks[t]
           /\ SweptTasks[t].lease /= None =>
                 /\ SweptTasks[t].lease = tasks[t].lease /\ tasks[t].lease \in Leases
                 /\ leases[tasks[t].lease].status = "active"
                 /\ SweptLeases[tasks[t].lease].owner = leases[tasks[t].lease].owner
<1> USE KernelAssumption
<1>1. tasks \in [Tasks -> TaskRow] /\ leases \in [Leases -> LeaseRow] /\ Held(tasks, leases)
  BY DEF KernelTypeOK, LeasesHeld
<1>2. t \in Freed => tasks[t].status = "claimed"
  BY SweepHolds
<1>3. t \in Freed => SweptTasks[t].status = "ready" /\ SweptTasks[t].lease = None
  <2>1. tasks[t] \in TaskRow
    BY <1>1
  <2>2. t \in Freed => SweptTasks[t] = [tasks[t] EXCEPT !.status = "ready", !.lease = None]
    BY DEF SweptTasks
  <2> QED BY <2>1, <2>2 DEF TaskRow
<1>4. t \notin Freed => SweptTasks[t] = tasks[t]
  BY <1>1 DEF SweptTasks
<1>5. \A l \in Leases : SweptLeases[l].owner = leases[l].owner
  BY <1>1 DEF SweptLeases, LeaseRow
<1> QED BY <1>1, <1>2, <1>3, <1>4, <1>5 DEF TaskRow, Held

LEMMA ClaimTakes ==
    ASSUME KernelTypeOK, LeasesHeld, NEW a \in Agents, NEW t \in Tasks, NEW l \in Leases,
           ClaimTask(a, t, l)
    PROVE  Board!Take(t, a)
<1> USE KernelAssumption
<1>1. Claimed(a, t, l)
  BY ClaimRows
<1>2. Holder' = [[u \in Tasks |-> IF u \in Freed THEN None ELSE Holder[u]] EXCEPT ![t] = a]
  <2>1. leases'[l].owner = a /\ tasks'[t].lease = l /\ l /= None
    BY <1>1 DEF Claimed
  <2>2. ASSUME NEW u \in Tasks, u /= t
        PROVE  /\ tasks'[u] = SweptTasks[u]
               /\ tasks'[u].lease /= None =>
                     leases'[tasks'[u].lease].owner = leases[tasks[u].lease].owner
    <3>1. tasks'[u] = SweptTasks[u]
      BY <1>1, <2>2 DEF Claimed
    <3>2. ASSUME SweptTasks[u].lease /= None
          PROVE  leases'[SweptTasks[u].lease].owner = leases[tasks[u].lease].owner
      <4>1. /\ SweptTasks[u].lease = tasks[u].lease /\ tasks[u].lease \in Leases
            /\ leases[tasks[u].lease].status = "active"
            /\ SweptLeases[tasks[u].lease].owner = leases[tasks[u].lease].owner
        BY <3>2, SweepLoses
      <4>2. tasks[u].lease /= l
        BY <1>1, <4>1 DEF Claimed
      <4> QED BY <1>1, <4>1, <4>2 DEF Claimed
    <3> QED BY <3>1, <3>2
  <2>3. ASSUME NEW u \in Tasks, u /= t
        PROVE  Holder'[u] = IF u \in Freed THEN None ELSE Holder[u]
    <3>1. /\ u \in Freed => SweptTasks[u].lease = None
          /\ u \notin Freed => SweptTasks[u] = tasks[u]
      BY SweepLoses
    <3> QED BY <2>2, <2>3, <3>1 DEF Holder
  <2> QED BY <2>1, <2>3 DEF Holder
<1>3. EndedAs' = EndedAs
  <2>1. ASSUME NEW u \in Tasks
        PROVE  /\ tasks'[u].status \in {"completed", "failed"} <=>
                     tasks[u].status \in {"completed", "failed"}
               /\ tasks'[u].status \in {"completed", "failed"} =>
                     tasks'[u].status = tasks[u].status
    <3>1. /\ SweptTasks[u].status \in {"completed", "failed"} <=>
                 tasks[u].status \in {"completed", "failed"}
          /\ SweptTasks[u].status \in {"completed", "failed"} =>
                 SweptTasks[u].status = tasks[u].status
      BY SweepLoses
    <3> QED BY <1>1, <3>1 DEF Claimed
  <2> QED BY <2>1 DEF EndedAs
<1>4. EndedAs[t] = "open" /\ \A p \in Prerequisites[t] : EndedAs[p] = "completed"
  <2>1. tasks[t].status \notin {"completed", "failed"}
    BY <1>1, SweepLoses DEF Claimed
  <2>2. \A p \in Prerequisites[t] : p \in Tasks /\ tasks[p].status = "completed"
    BY <1>1 DEF Claimed
  <2> QED BY <2>1, <2>2 DEF EndedAs
<1>5. (IF t \in Freed THEN None ELSE Holder[t]) = None
  <2>1. SweptTasks[t].lease = None /\ (t \notin Freed => SweptTasks[t] = tasks[t])
    BY <1>1, SweepLoses DEF Claimed
  <2> QED BY <2>1 DEF Holder
<1>6. Freed \in SUBSET Tasks
  BY DEF Freed
<1> QED BY <1>2, <1>3, <1>4, <1>5, <1>6
        DEF Board!Take, Board!Ready, Board!LoseThen

LEMMA RefusalLoses == ASSUME KernelTypeOK, LeasesHeld, ClaimRefused PROVE Board!Lose
<1> USE KernelAssumption
<1>1. tasks' = SweptTasks /\ leases' = SweptLeases
  BY DEF ClaimRefused
<1>2. ASSUME NEW u \in Tasks
      PROVE  /\ Holder'[u] = IF u \in Freed THEN None ELSE Holder[u]
             /\ EndedAs'[u] = EndedAs[u]
  BY <1>1, SweepLoses DEF Holder, EndedAs
<1>3. /\ Holder' = [u \in Tasks |-> IF u \in Freed THEN None ELSE Holder[u]]
      /\ EndedAs' = EndedAs
  BY <1>2 DEF Holder, EndedAs
<1>4. Freed \in SUBSET Tasks
  BY DEF Freed
<1> QED BY <1>3, <1>4 DEF Board!Lose, Board!LoseThen

\* A lease that is given up or ended takes its task from its holder and from nobody else.
LEMMA DropLoses ==
    ASSUME KernelTypeOK, LeasesHeld, NEW a \in Agents, NEW l \in Leases, Holds(a, l),
           NEW status, NEW end, Dropped(l, status, end)
    PROVE  /\ leases[l].task \in Tasks /\ Holder[leases[l].task] = a
           /\ Holder' = [Holder EXCEPT ![leases[l].task] = None]
           /\ EndedAs[leases[l].task] = "open"
           /\ EndedAs' = IF status \in {"completed", "failed"}
                         THEN [EndedAs EXCEPT ![leases[l].task] = status] ELSE EndedAs
<1> USE KernelAssumption
<1> DEFINE t == leases[l].task
<1>1. /\ t \in Tasks /\ tasks[t].status = "claimed" /\ tasks[t].lease = l
      /\ leases[l].owner = a /\ l /= None
      /\ tasks'[t] = [status |-> status, lease |-> None]
      /\ \A u \in Tasks : u /= t => tasks'[u] = tasks[u]
      /\ \A k \in Leases : k /= l => leases'[k] = leases[k]
  BY HeldLease DEF Dropped
<1>2. tasks \in [Tasks -> TaskRow] /\ Held(tasks, leases)
  BY DEF KernelTypeOK, LeasesHeld
<1>3. ASSUME NEW u \in Tasks, u /= t
      PROVE  tasks'[u] = tasks[u] /\ (tasks[u].lease /= None => leases'[tasks[u].lease] = leases[tasks[u].lease])
  <2>1. tasks[u].lease /= None => tasks[u].lease \in Leases /\ tasks[u].lease /= l
    BY <1>1, <1>2, <1>3 DEF Held, TaskRow
  <2> QED BY <1>1, <1>3, <2>1
<1> HIDE DEF t
<1>4. Holder[t] = a /\ EndedAs[t] = "open"
  BY <1>1 DEF Holder, EndedAs
<1>5. Holder' = [Holder EXCEPT ![t] = None]
  <2>1. Holder'[t] = None
    BY <1>1 DEF Holder
  <2>2. \A u \in Tasks : u /= t => Holder'[u] = Holder[u]
    BY <1>3 DEF Holder
  <2> QED BY <2>1, <2>2 DEF Holder
<1>6. EndedAs' = IF status \in {"completed", "failed"} THEN [EndedAs EXCEPT ![t] = status]
                 ELSE EndedAs
  BY <1>1, <1>3 DEF EndedAs
<1> QED BY <1>1, <1>4, <1>5, <1>6 DEF t

LEMMA StepKeepsBoard ==
    KernelTypeOK /\ LeasesHeld /\ [Next]_vars => [Board!Next]_(Board!boardVars)
<1> SUFFICES ASSUME KernelTypeOK, LeasesHeld, [Next]_vars
             PROVE  Board!Next \/ UNCHANGED Board!boardVars
  OBVIOUS
<1>1. ASSUME UNCHANGED <<Holder, EndedAs>> PROVE UNCHANGED Board!boardVars
  BY <1>1 DEF Board!boardVars
<1>2. CASE UNCHANGED <<tasks, leases, completions>>
  BY <1>1, <1>2 DEF Holder, EndedAs
<1>3. CASE ClaimRefused
  BY <1>3, RefusalLoses DEF Board!Next
<1>4. ASSUME NEW a \in Agents, NEW t \in Tasks, NEW l \in Leases, ClaimTask(a, t, l)
      PROVE  Board!Next
  BY <1>4, ClaimTakes DEF Board!Next
<1>5. ASSUME NEW a \in Agents, NEW l \in Leases, RenewLease(a, l)
      PROVE  UNCHANGED Board!boardVars
  <2>1. leases \in [Leases -> LeaseRow] /\ tasks' = tasks
        /\ leases' = [leases EXCEPT ![l].expires = now + LeaseTime]
    BY <1>5 DEF KernelTypeOK, RenewLease
  <2>2. \A k \in Leases : leases'[k].owner = leases[k].owner
    BY <2>1 DEF LeaseRow
  <2>3. tasks \in [Tasks -> TaskRow]
    BY DEF KernelTypeOK
  <2> QED BY <1>1, <2>1, <2>2, <2>3 DEF Holder, EndedAs, TaskRow
<1>6. ASSUME NEW a \in Agents, NEW l \in Leases, ReleaseTask(a, l)
      PROVE  Board!Lose
  <2>1. Holds(a, l) /\ Dropped(l, "ready", "released")
    BY <1>6, DropRows DEF ReleaseTask
  <2> DEFINE t == leases[l].task
  <2>2. /\ t \in Tasks /\ Holder' = [Holder EXCEPT ![t] = None] /\ EndedAs' = EndedAs
    BY <2>1, DropLoses
  <2> HIDE DEF t
  <2>3. Holder' = [u \in Tasks |-> IF u \in {t} THEN None ELSE Holder[u]]
    BY <2>2 DEF Holder
  <2>4. {t} \in SUBSET Tasks
    BY <2>2
  <2> QED BY <2>2, <2>3, <2>4 DEF Board!Lose, Board!LoseThen
<1>7. ASSUME NEW a \in Agents, NEW l \in Leases, NEW outcome \in Outcomes, NEW cited,
             CompleteTask(a, l, outcome, cited)
      PROVE  Board!Next
  <2> DEFINE t == leases[l].task
             how == IF outcome = "succeeded" THEN "completed" ELSE "failed"
  <2>1. Holds(a, l) /\ Dropped(l, how, "completed")
    BY <1>7, CompleteRows DEF CompleteTask
  <2>2. how \in {"completed", "failed"} /\ how \in Board!Endings \ {"open"}
    BY DEF Board!Endings
  <2> HIDE DEF how
  <2>3. /\ t \in Tasks /\ Holder[t] = a /\ Holder' = [Holder EXCEPT ![t] = None]
        /\ EndedAs[t] = "open" /\ EndedAs' = [EndedAs EXCEPT ![t] = how]
    BY <2>1, <2>2, DropLoses
  <2> HIDE DEF t
  <2>4. Board!End(t, how)
    BY <2>3, KernelAssumption DEF Board!End
  <2> QED BY <2>2, <2>3, <2>4 DEF Board!Next
<1>8. CASE Coordinate
  BY <1>3, <1>4, <1>5, <1>6, <1>7, <1>8 DEF Coordinate, Board!Next
<1> QED BY <1>2, <1>8, Frames

\* The kernel keeps the board: a task passes from one agent to the next only through expiry,
\* release or an ending, an ended task stays ended, and only a ready task is taken (claim_task,
\* _expire_leases and the lease checks of in_memory.py).
THEOREM KernelImplementsTaskBoard == Spec => KernelKeepsBoard
<1>1. Init => Board!Init
  <2> SUFFICES ASSUME Init PROVE Board!Init
    OBVIOUS
  <2>1. \A t \in Tasks : tasks[t].lease = None /\ tasks[t].status = "pending"
    BY DEF Init, NewTask
  <2> QED BY <2>1, KernelAssumption DEF Board!Init, Holder, EndedAs
<1>2. KernelInv => KernelTypeOK /\ LeasesHeld
  BY DEF KernelInv
<1> QED BY <1>1, <1>2, StepKeepsBoard, KernelSound, PTL DEF Spec, KernelKeepsBoard, Board!Spec

=============================================================================
