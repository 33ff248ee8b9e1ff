------------------------------- MODULE Kernel -------------------------------
(***************************************************************************)
(* The in-memory kernel (adapters/memory/in_memory.py): the coordination,  *)
(* memory and evidence stores in one object, and the activation steps      *)
(* of the coordination service that calls it                               *)
(* (application/coordination.py).                                          *)
(*                                                                         *)
(* One asyncio.Lock makes every method one step.  There is no transaction: *)
(* what a method wrote before it raised stays written.  Everything here is *)
(* of one authenticated run, so that the scope filters admit every row.    *)
(* Commands expect the current version of the row they change (others are  *)
(* refused before anything is written, except by a claim), so the versions *)
(* of tasks, leases and sources are left out; those of memories are what   *)
(* activations name.                                                       *)
(***************************************************************************)
EXTENDS Integers, FiniteSets

CONSTANTS
    Agents,        \* actors of the run
    Reviewers,     \* agents that may review and reject
    Tasks,         \* task ids
    Prerequisites, \* the tasks each one waits for, added before the agents join
    Leases,        \* lease ids, fresh uuid4 values; their number bounds the claims
    LeaseTime,     \* lease_seconds and extension_seconds
    Triggers,      \* activation triggers
    Sources,       \* source ids
    Untrusted,     \* the sources registered as untrusted
    Evidence,      \* evidence ids
    SourceOf,      \* the source of each piece of evidence
    MaxMemories,   \* bound: memories in the order of their creation, 1..MaxMemories
    Contents,      \* canonical texts
    Sent,          \* bound: the RememberCommands of each agent, one per idempotency key
    MaxActivations, \* bound: activations of the run, recorded or under way
    MaxNamed,      \* bound: memories one activation selects or one completion cites
    MaxCommands,   \* bound: source, evidence and memory commands and reports of the run
    MaxTime,       \* bound: last instant of the clock
    MaxVersion,    \* bound: version after which a memory is left alone
    None           \* Python's None

Memories == 1..MaxMemories

ASSUME KernelAssumption ==
    /\ Reviewers \subseteq Agents
    /\ Prerequisites \in [Tasks -> SUBSET Tasks]
    /\ LeaseTime \in Nat \ {0}
    /\ Untrusted \subseteq Sources /\ SourceOf \in [Evidence -> Sources]
    /\ {MaxMemories, MaxActivations, MaxNamed, MaxCommands, MaxTime} \subseteq Nat
    /\ MaxVersion \in Nat \ {0}
    /\ None \notin Agents \cup Tasks \cup Leases \cup Sources \cup Contents \cup Nat

VARIABLES
    now,           \* the kernel's clock
    tasks,         \* self.tasks
    leases,        \* self.leases
    completions,   \* self.completions
    selections,    \* what activation calls under way have recalled and not yet recorded
    activations,   \* the MEMORY_ACTIVATED events, by activation id
    delivered,     \* history: the contexts handed to agents, by activation id
    associations,  \* self.memory_outcome_associations
    sources,       \* self.sources
    evidence,      \* self.evidence
    memories,      \* self.memories, with self._previous_memory_state
    links,         \* self.memory_links
    conflict,      \* the entry of self.conflicts followed here
    served,        \* self._idempotency of memory.remember: the commands answered
    commands       \* how many of the bounded commands were sent

boardVars == <<tasks, leases, completions>>
useVars == <<selections, activations, delivered, associations>>
memoryVars == <<sources, evidence, memories, links, conflict, served>>
vars == <<now, tasks, leases, completions, selections, activations, delivered,
          associations, sources, evidence, memories, links, conflict, served, commands>>

-----------------------------------------------------------------------------
(* The entries.                                                            *)

NewTask == [status |-> "pending", lease |-> None]

TaskRow == [status : {"pending", "ready", "claimed", "completed", "failed"},
            lease : Leases \cup {None}]

NoLease == [status |-> "free", task |-> None, owner |-> None, expires |-> 0]

LeaseRow == [status : {"free", "active", "expired", "released", "completed"},
             task : Tasks \cup {None}, owner : Agents \cup {None}, expires : Nat]

LiveStates == {"tentative", "confirmed", "refuted"}

Outcomes == {"succeeded", "failed"}

CompletionRow == [lease : Leases, agent : Agents, outcome : Outcomes, cited : SUBSET Memories]

NoMemory == [state |-> "absent", content |-> None, closed |-> FALSE, supersedes |-> None,
             supersededBy |-> None, previous |-> None, evidence |-> {}, version |-> 0, command |-> None]

NoConflict == [state |-> "absent", members |-> {}]

ConflictRow == [state : {"absent", "open", "resolved", "dismissed"}, members : SUBSET Memories]

ActivationIds == Leases \X Triggers

(* What a selection of memories says of their versions: 0 is not selected. *)
Versions == [Memories -> 0..MaxVersion]

Selection == [agent : Agents, id : ActivationIds, versions : Versions]

AssociationRow == [task : Tasks, lease : Leases, agent : Agents, memory : Memories,
                   version : 0..MaxVersion, outcome : Outcomes]

(* None stands for an entry that is not there.                             *)
ASSUME NoneAssumption == None \notin CompletionRow /\ None \notin Versions

-----------------------------------------------------------------------------
(* Initially the tasks are in place (add_task, add_dependency) and nothing else.           *)

Init ==
    /\ now = 0
    /\ tasks = [t \in Tasks |-> NewTask]
    /\ leases = [l \in Leases |-> NoLease]
    /\ completions = [t \in Tasks |-> None]
    /\ selections = {}
    /\ activations = [i \in ActivationIds |-> None]
    /\ delivered = {}
    /\ associations = {}
    /\ sources = [s \in Sources |-> "absent"]
    /\ evidence = {}
    /\ memories = [m \in Memories |-> NoMemory]
    /\ links = {}
    /\ conflict = NoConflict
    /\ served = {}
    /\ commands = 0

Tick ==
    /\ now < MaxTime
    /\ now' = now + 1
    /\ UNCHANGED <<boardVars, useVars, memoryVars>>

-----------------------------------------------------------------------------
(* Tasks and leases.                                                       *)

Elapsed == {l \in Leases : leases[l].status = "active" /\ leases[l].expires <= now}

(* _expire_leases: the task of an elapsed lease is ready again.            *)
Freed == {t \in Tasks : tasks[t].lease \in Elapsed}

SweptLeases == [l \in Leases |-> IF l \in Elapsed THEN [leases[l] EXCEPT !.status = "expired"]
                                                  ELSE leases[l]]

SweptTasks == [t \in Tasks |-> IF t \in Freed THEN [tasks[t] EXCEPT !.status = "ready", !.lease = None]
                                              ELSE tasks[t]]

\* Mutated form: any ended prerequisite will do.
ClaimableEnded(t) ==
    /\ SweptTasks[t].status \in {"pending", "ready"}
    /\ \A p \in Prerequisites[t] : tasks[p].status \in {"completed", "failed"}

(* _task_is_claimable, after the sweep.                                    *)
Claimable(t) ==
    /\ SweptTasks[t].status \in {"pending", "ready"}
    /\ \A p \in Prerequisites[t] : tasks[p].status = "completed"

ClaimTask(a, t, l) ==
    /\ Claimable(t)
    /\ leases[l] = NoLease
    /\ leases' = [SweptLeases EXCEPT ![l] = [status |-> "active", task |-> t, owner |-> a,
                                             expires |-> now + LeaseTime]]
    /\ tasks' = [SweptTasks EXCEPT ![t].status = "claimed", ![t].lease = l]
    /\ UNCHANGED <<now, completions, useVars, memoryVars>>

(* A claim that finds no task, or another version than it expects, raises after its sweep: *)
(* the sweep stays.                                                                        *)
ClaimRefused ==
    /\ Elapsed /= {}
    /\ leases' = SweptLeases
    /\ tasks' = SweptTasks
    /\ UNCHANGED <<now, completions, useVars, memoryVars>>

(* _owned_lease                                                            *)
Live(a, l) == leases[l].status = "active" /\ leases[l].owner = a /\ leases[l].expires > now

(* _owned_task_and_lease                                                   *)
Holds(a, l) == Live(a, l) /\ tasks[leases[l].task].lease = l

RenewLease(a, l) ==
    /\ Live(a, l)
    /\ leases[l].expires < now + LeaseTime
    /\ leases' = [leases EXCEPT ![l].expires = now + LeaseTime]
    /\ UNCHANGED <<now, tasks, completions, useVars, memoryVars>>

ReleaseTask(a, l) ==
    /\ Holds(a, l)
    /\ tasks' = [tasks EXCEPT ![leases[l].task].status = "ready", ![leases[l].task].lease = None]
    /\ leases' = [leases EXCEPT ![l].status = "released"]
    /\ UNCHANGED <<now, completions, useVars, memoryVars>>

-----------------------------------------------------------------------------
(* Recall, activation and outcomes.                                        *)

Exists(m) == memories[m].state /= "absent"

(* self.memories[m].recorded_to is None                                    *)
Current(m) == Exists(m) /\ ~memories[m].closed

Accepted(e) == sources[SourceOf[e]] /= "rejected" /\ SourceOf[e] \notin Untrusted

(* _recallable_memories_locked, asked for confirmed memories.              *)
Recallable(m) ==
    /\ Current(m) /\ memories[m].state = "confirmed"
    /\ memories[m].evidence = {} \/ \E e \in memories[m].evidence : Accepted(e)

Selected(versions) == {m \in Memories : versions[m] > 0}

(* The service recalls for a trigger of a lease it validated; a recorded activation is     *)
(* answered from the record, without a context.                                            *)
SelectMemories(a, l, trigger, chosen) ==
    /\ Holds(a, l)
    /\ activations[<<l, trigger>>] = None
    /\ Cardinality(selections) + Cardinality({i \in ActivationIds : activations[i] /= None})
          < MaxActivations
    /\ \A m \in chosen : Recallable(m)
    /\ selections' = selections \cup
          {[agent |-> a, id |-> <<l, trigger>>,
            versions |-> [m \in Memories |-> IF m \in chosen THEN memories[m].version ELSE 0]]}
    /\ UNCHANGED <<now, boardVars, activations, delivered, associations, memoryVars>>

\* Mutated form: a record that exists is written over.
RecordAcceptedAgain(call) ==
    /\ Holds(call.agent, call.id[1])
    /\ \A m \in Selected(call.versions) : Recallable(m) /\ memories[m].version = call.versions[m]

(* record_memory_activation: an identical record stands, another is refused; a new one     *)
(* needs the live lease and every selected version to be the recallable one still.         *)
RecordAccepted(call) ==
    IF activations[call.id] /= None THEN activations[call.id] = call.versions
    ELSE /\ Holds(call.agent, call.id[1])
         /\ \A m \in Selected(call.versions) : Recallable(m) /\ memories[m].version = call.versions[m]

(* Only a recorded selection reaches the agent.                            *)
RecordActivation(call) ==
    /\ IF RecordAccepted(call)
       THEN /\ activations' = [activations EXCEPT ![call.id] = call.versions]
            /\ delivered' = delivered \cup {<<call.id, call.versions>>}
       ELSE UNCHANGED <<activations, delivered>>
    /\ selections' = selections \ {call}
    /\ UNCHANGED <<now, boardVars, associations, memoryVars>>

(* The versions of m that were activated under the lease.                  *)
ActivatedVersions(l, m) ==
    {activations[<<l, g>>][m] : g \in {h \in Triggers : activations[<<l, h>>] /= None}} \ {0}

\* Mutated form: of several activated versions, the current one is taken.
AssociatedLatest(l, cited) ==
    {m \in cited : memories[m].version \in ActivatedVersions(l, m) /\ Recallable(m)}

(* _derive_memory_outcome_associations: one version was activated and is recallable still. *)
Associated(l, cited) ==
    {m \in cited : ActivatedVersions(l, m) = {memories[m].version} /\ Recallable(m)}

CompleteTask(a, l, outcome, cited) ==
    LET t == leases[l].task IN
    /\ Holds(a, l)
    /\ \A m \in cited : Exists(m)
    /\ tasks' = [tasks EXCEPT ![t].status = IF outcome = "succeeded" THEN "completed" ELSE "failed",
                              ![t].lease = None]
    /\ leases' = [leases EXCEPT ![l].status = "completed"]
    /\ completions' = [completions EXCEPT ![t] = [lease |-> l, agent |-> a, outcome |-> outcome,
                                                  cited |-> cited]]
    /\ associations' = associations \cup
          {[task |-> t, lease |-> l, agent |-> a, memory |-> m, version |-> memories[m].version,
            outcome |-> outcome] : m \in Associated(l, cited)}
    /\ UNCHANGED <<now, selections, activations, delivered, memoryVars>>

-----------------------------------------------------------------------------
(* Sources and evidence.                                                   *)

RegisterSource(s) ==
    /\ sources[s] = "absent"
    /\ sources' = [sources EXCEPT ![s] = "pending"]
    /\ UNCHANGED <<now, boardVars, useVars, evidence, memories, links, conflict, served>>

AddEvidence(e) ==
    /\ e \notin evidence /\ sources[SourceOf[e]] /= "absent"
    /\ evidence' = evidence \cup {e}
    /\ UNCHANGED <<now, boardVars, useVars, sources, memories, links, conflict, served>>

ReviewSource(a, s) ==
    /\ a \in Reviewers
    /\ sources[s] \notin {"absent", "rejected"}
    /\ \E state \in {"pending", "approved"} : sources' = [sources EXCEPT ![s] = state]
    /\ UNCHANGED <<now, boardVars, useVars, evidence, memories, links, conflict, served>>

OfSource(s) == {e \in Evidence : SourceOf[e] = s}

Citing(s) == {m \in Memories : Current(m) /\ memories[m].evidence \cap OfSource(s) /= {}}

Losing(s) == {m \in Citing(s) : memories[m].evidence \subseteq OfSource(s)}

(* A citing memory loses its citations of s, or is refuted when it has no others.          *)
Stripped(s, m) ==
    IF m \in Losing(s) THEN [memories[m] EXCEPT !.state = "refuted", !.version = @ + 1]
    ELSE IF m \in Citing(s)
    THEN [memories[m] EXCEPT !.evidence = @ \ OfSource(s), !.version = @ + 1]
    ELSE memories[m]

Reopening(s, m) == {n \in Losing(s) : memories[n].supersedes = m}

(* Memories are looked at in the order of their creation and a refuted one keeps its       *)
(* pointer: what it superseded comes back, even if something else has replaced it since.   *)
RolledBack(s, m) ==
    LET times == Cardinality(Reopening(s, m)) IN
    IF times = 0 THEN Stripped(s, m)
    ELSE [Stripped(s, m) EXCEPT
             !.state = IF memories[m].previous = None THEN "tentative" ELSE memories[m].previous,
             !.closed = FALSE, !.supersededBy = None, !.version = @ + times]

(* Nothing asks whether the source is rejected already.                    *)
RejectSource(a, s) ==
    /\ a \in Reviewers
    /\ sources[s] /= "absent"
    /\ \A m \in Memories : RolledBack(s, m).version <= MaxVersion
    /\ sources' = [sources EXCEPT ![s] = "rejected"]
    /\ memories' = [m \in Memories |-> RolledBack(s, m)]
    /\ UNCHANGED <<now, boardVars, useVars, evidence, links, conflict, served>>

-----------------------------------------------------------------------------
(* Remembering.                                                            *)

(* RememberCommand, naming at most one memory it relates to or derives from.               *)
Commands ==
    [content : Contents, desired : LiveStates, evidence : SUBSET Evidence,
     target : Memories \cup {None},
     link : {None} \cup ({"related_to", "derived_from"} \X Memories)]

ASSUME SentAssumption == Sent \in [Agents -> SUBSET Commands]

MemoryRow == [state : LiveStates \cup {"absent", "superseded"}, content : Contents \cup {None},
              closed : BOOLEAN, supersedes : Memories \cup {None},
              supersededBy : Memories \cup {None}, previous : LiveStates \cup {None},
              evidence : SUBSET Evidence, version : 0..MaxVersion,
              command : (Agents \X Commands) \cup {None}]

(* The command's validators and the capability checks of MemoryService.    *)
MaySend(a, cmd) ==
    /\ cmd.desired /= "tentative" => a \in Reviewers
    /\ cmd.link /= None /\ cmd.link[1] = "derived_from" => cmd.evidence /= {}

(* _validate_derived_evidence                                              *)
DerivedValid(cmd) ==
    LET m == cmd.link[2] IN
    /\ Current(m) /\ memories[m].state = "confirmed"
    /\ cmd.evidence /= {} /\ cmd.evidence \subseteq memories[m].evidence
    /\ \A e \in cmd.evidence : Accepted(e)

(* The policy, asked under the lock.                                       *)
Decide(cmd) ==
    LET t == cmd.target IN
    IF t = None THEN "add"
    ELSE IF ~Current(t) \/ memories[t].state = "refuted" THEN "noop"
    ELSE IF memories[t].content = cmd.content THEN "merge"
    ELSE IF memories[t].state = "confirmed" /\ (cmd.desired /= "confirmed" \/ cmd.evidence = {})
    THEN "noop" ELSE "update"

Fresh == Cardinality({m \in Memories : Exists(m)}) + 1

Row(a, cmd, predecessor) ==
    [state |-> cmd.desired, content |-> cmd.content, closed |-> FALSE, supersedes |-> predecessor,
     supersededBy |-> None, previous |-> None, evidence |-> cmd.evidence, version |-> 1,
     command |-> <<a, cmd>>]

(* The memories once the decision is written, and the memory that is the answer.           *)
Written(a, cmd) ==
    LET t == cmd.target IN
    CASE Decide(cmd) = "merge" -> [memories EXCEPT ![t].evidence = @ \cup cmd.evidence,
                                                   ![t].version = @ + 1]
      [] Decide(cmd) = "add"   -> [memories EXCEPT ![Fresh] = Row(a, cmd, None)]
      [] OTHER -> [memories EXCEPT ![Fresh] = Row(a, cmd, t),
                                   ![t].state = "superseded", ![t].previous = memories[t].state,
                                   ![t].closed = TRUE, ![t].supersededBy = Fresh,
                                   ![t].version = @ + 1]

Answer(cmd) == IF Decide(cmd) = "merge" THEN cmd.target ELSE Fresh

Supersession(cmd) ==
    IF Decide(cmd) = "update" THEN {<<Fresh, cmd.target, "supersedes">>} ELSE {}

(* The linked memory is looked for after everything is written: _memory_target wants it    *)
(* to be there and current.                                                                *)
Linkable(a, cmd) ==
    cmd.link /= None => LET n == Written(a, cmd)[cmd.link[2]] IN n.state /= "absent" /\ ~n.closed

RememberNoop(a, cmd) ==
    /\ Decide(cmd) = "noop"
    /\ served' = served \cup {<<a, cmd>>}
    /\ UNCHANGED <<memories, links>>

(* A command that fails at its link leaves what it wrote, and no answer to replay.         *)
RememberWrite(a, cmd) ==
    /\ Decide(cmd) /= "noop"
    /\ Answer(cmd) \in Memories
    /\ cmd.target /= None => memories[cmd.target].version < MaxVersion
    /\ memories' = Written(a, cmd)
    /\ IF Linkable(a, cmd)
       THEN /\ served' = served \cup {<<a, cmd>>}
            /\ links' = links \cup Supersession(cmd) \cup
                 (IF cmd.link = None \/ cmd.link[2] = Answer(cmd) THEN {}
                  ELSE {<<Answer(cmd), cmd.link[2], cmd.link[1]>>})
       ELSE /\ links' = links \cup Supersession(cmd)
            /\ UNCHANGED served

Remember(a, cmd) ==
    /\ MaySend(a, cmd)
    /\ <<a, cmd>> \notin served
    /\ cmd.evidence \subseteq evidence
    /\ cmd.link /= None /\ cmd.link[1] = "derived_from" => DerivedValid(cmd)
    /\ RememberNoop(a, cmd) \/ RememberWrite(a, cmd)
    /\ UNCHANGED <<now, boardVars, useVars, sources, evidence, conflict>>

-----------------------------------------------------------------------------
(* Review.                                                                 *)

ReviewMemory(a, m, state, refs) ==
    /\ a \in Reviewers /\ Current(m) /\ memories[m].version < MaxVersion
    /\ refs /= {} /\ refs \subseteq evidence
    /\ memories' = [memories EXCEPT ![m].state = state, ![m].evidence = @ \cup refs,
                                    ![m].version = @ + 1]
    /\ UNCHANGED <<now, boardVars, useVars, sources, evidence, links, conflict, served>>

ReportConflict(members) ==
    /\ conflict.state = "absent"
    /\ Cardinality(members) >= 2
    /\ \A m \in members : Exists(m)
    /\ conflict' = [state |-> "open", members |-> members]
    /\ UNCHANGED <<now, boardVars, useVars, sources, evidence, memories, links, served>>

(* What a resolution makes of a member of its conflict, closed or not.                     *)
Resolved(m, supports, refutes, refs) ==
    IF m \in supports /\ memories[m].state \notin {"superseded", "refuted"}
    THEN [memories[m] EXCEPT !.state = "confirmed", !.evidence = @ \cup refs, !.version = @ + 1]
    ELSE IF m \in refutes /\ memories[m].state /= "superseded"
    THEN [memories[m] EXCEPT !.state = "refuted", !.version = @ + 1]
    ELSE memories[m]

ResolveConflict(a, supports, refutes, refs) ==
    /\ a \in Reviewers /\ conflict.state = "open"
    /\ refs /= {} /\ refs \subseteq evidence
    /\ supports \cup refutes \subseteq conflict.members
    /\ supports \cap refutes = {}
    /\ \A m \in supports \cup refutes : memories[m].version < MaxVersion
    /\ \E state \in {"resolved", "dismissed"} :
          /\ state = "resolved" => supports \cup refutes /= {}
          /\ conflict' = [conflict EXCEPT !.state = state]
    /\ memories' = [m \in Memories |-> Resolved(m, supports, refutes, refs)]
    /\ UNCHANGED <<now, boardVars, useVars, sources, evidence, links, served>>

-----------------------------------------------------------------------------
Named == {S \in SUBSET Memories : Cardinality(S) <= MaxNamed}

Coordinate ==
    \/ ClaimRefused
    \/ \E a \in Agents, l \in Leases :
          \/ \E t \in Tasks : ClaimTask(a, t, l)
          \/ RenewLease(a, l) \/ ReleaseTask(a, l)
          \/ \E outcome \in Outcomes, cited \in Named : CompleteTask(a, l, outcome, cited)

Activate ==
    \/ \E a \in Agents, l \in Leases, g \in Triggers, chosen \in Named : SelectMemories(a, l, g, chosen)
    \/ \E call \in selections : RecordActivation(call)

Curate ==
    \/ \E s \in Sources : \/ RegisterSource(s)
                           \/ \E a \in Agents : ReviewSource(a, s) \/ RejectSource(a, s)
    \/ \E e \in Evidence : AddEvidence(e)
    \/ \E a \in Agents : \E cmd \in Sent[a] : Remember(a, cmd)
    \/ \E a \in Agents, m \in Memories, state \in {"confirmed", "refuted"}, refs \in SUBSET Evidence :
          ReviewMemory(a, m, state, refs)
    \/ \E members \in SUBSET Memories : ReportConflict(members)

(* Settles the one conflict followed here, so that it needs no bound.                      *)
Judge ==
    \E a \in Agents, supports, refutes \in SUBSET conflict.members, refs \in SUBSET Evidence :
        ResolveConflict(a, supports, refutes, refs)

Next ==
    \/ (Tick \/ Coordinate \/ Activate \/ Judge) /\ UNCHANGED commands
    \/ commands < MaxCommands /\ Curate /\ commands' = commands + 1

Spec == Init /\ [][Next]_vars

-----------------------------------------------------------------------------
(* What the kernel promises.                                               *)

(* Every entry of the kernel has the shape its pydantic model gives it, and no lease or    *)
(* version runs past its bound.                                                            *)
KernelTypeOK ==
    /\ now \in 0..MaxTime
    /\ tasks \in [Tasks -> TaskRow]
    /\ leases \in [Leases -> LeaseRow]
    /\ completions \in [Tasks -> CompletionRow \cup {None}]
    /\ selections \subseteq Selection
    /\ activations \in [ActivationIds -> Versions \cup {None}]
    /\ delivered \subseteq ActivationIds \X Versions
    /\ associations \subseteq AssociationRow
    /\ sources \in [Sources -> {"absent", "pending", "approved", "rejected"}]
    /\ evidence \subseteq Evidence
    /\ memories \in [Memories -> MemoryRow]
    /\ \A m \in Memories : memories[m].evidence \subseteq evidence
    /\ conflict \in ConflictRow

(* The kernel keeps the board: a task passes from one agent to the next only through       *)
(* expiry, release or an ending, an ended task stays ended, and only a ready task is taken *)
(* (claim_task, _expire_leases and the lease checks of in_memory.py).                      *)
Holder == [t \in Tasks |-> IF tasks[t].lease = None THEN None ELSE leases[tasks[t].lease].owner]

EndedAs == [t \in Tasks |-> IF tasks[t].status \in {"completed", "failed"} THEN tasks[t].status
                            ELSE "open"]

Board == INSTANCE TaskBoard WITH holder <- Holder, ended <- EndedAs, needs <- Prerequisites

KernelKeepsBoard == Board!Spec

(* Every outcome association is backed: the completion it belongs to cites the memory with *)
(* that outcome, and under its lease exactly that version of the memory was activated      *)
(* (record_memory_activation and complete_task).                                           *)
OutcomeBacked ==
    \A x \in associations :
        /\ completions[x.task] /= None
        /\ completions[x.task].lease = x.lease /\ completions[x.task].agent = x.agent
        /\ completions[x.task].outcome = x.outcome /\ x.memory \in completions[x.task].cited
        /\ ActivatedVersions(x.lease, x.memory) = {x.version}

(* An agent never works with a context that is not on record, and never gets two different *)
(* contexts for one trigger of a lease (application/coordination.py delivers after the     *)
(* record, record_memory_activation refuses a second version).                             *)
ContextTracked == \A d \in delivered : activations[d[1]] = d[2]

(* No idempotency key stores two memories: "A single asyncio.Lock supplies                 *)
(* transaction-like atomicity", so a command that raises has written nothing.              *)
OncePerKey ==
    \A m, n \in Memories :
        Exists(m) /\ Exists(n) /\ memories[m].command = memories[n].command => m = n

=============================================================================
