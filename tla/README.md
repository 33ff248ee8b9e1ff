# A TLA+ model of SwarmBrain

SwarmBrain gives a swarm of coding agents a shared, durable memory and a task
board. Agents talk to it through an HTTP API or through an MCP bridge on their
own machine; everything that must survive lives in CockroachDB, and an in-memory
kernel implements the same contracts. The repository also holds the runners of
its paid experiments, which must survive being killed. This directory models the
parts of the program whose correctness depends on the order in which things
happen, checks them with TLC on small instances, and proves central facts with
TLAPS for every instance. File names are relative to `src/swarmbrain/` of
the repository, those of runners to `scripts/`.

## 1. Inventory

| component | state it keeps | operations | hard behaviour | properties that make it correct |
|---|---|---|---|---|
| coordination store (`adapters/cockroach/coordination.py`) | runs, agents, tasks, dependencies, leases, checkpoints, completions, events | join, add task, add dependency, claim (with a sweep of elapsed leases), renew, checkpoint, complete, release | holders and claimers interleave; the statement clock lags behind commits; the graph grows while it is worked on | one holder per task, histories are sessions, versions are accounted for, finished tasks stay finished, runs are separate |
| idempotent transactions (`adapters/cockroach/database.py`, `retry.py`) | the idempotency row of a key; attempts and lookups of each call | run_idempotent, run_serializable, resolve_idempotency | serialization retries, uniqueness races, a COMMIT without answer that lands late, cancellation | the key is a promise: one command, one answer; a definite error means it never took effect |
| MCP lease bridge (`transports/mcp/client.py`) | one binding per claimed task, its lock, the renewal task | claim, checkpoint, complete, automatic renewal, close | tool calls and the renewal loop share a binding across HTTP requests; answers are lost or late; restart | bindings are never ahead of the store, a renewal is refused only when the lease is lost, calls return |
| durable work queue (`adapters/cockroach/work_store.py`, `domain/work.py`) | work items with lease, attempts and outcome; effect ledger | ingest, enqueue, claim with sweep, apply extraction, apply embedding, stage plan, complete, fail | slow workers, shared worker ids, a crash in the last attempt | one process can settle an item; every item ends |
| workers (`workers/*.py`) | the lease in hand | poll, process, settle, fail | crash at any point, commits not heard of | as above |
| consolidation service (`application/consolidation.py`) | staged plan, published actions | reflect, revalidate, publish, complete | one transaction per action while inputs change | one plan per item; "applied" means wholly applied |
| memory store (`adapters/cockroach/memory.py`, `application/memory_service.py`, `memory_policy.py`) | memories, their evidence, links, versions, embeddings | remember (add, merge, update, derive), review, lineage, queue and complete the embedding | the policy decides in one transaction, another applies | supersession chains agree both ways and have a head; derivations share evidence |
| source governance (`adapters/cockroach/memory.py`) | review state and trust of sources | register, add evidence, review, reject with rollback | a rejection races citations, supersessions, extraction | rejection is final and reaches what was derived |
| conflicts (`application/conflict_service.py`) | an open or resolved conflict and its members | report, resolve | members are superseded or refuted meanwhile | chains stay consistent |
| memory activation and outcome feedback (`application/coordination.py`, `activation.py`, `domain/outcome_feedback.py`) | activations bound to leases, outcome associations | claim with activation, activate, associate on completion | the lease moves on between selection and record; memories change version | an outcome cites only what was activated, under the lease it was held |
| in-memory kernel (`adapters/memory/in_memory.py`) | the same tables under one asyncio lock | the operations of the three stores | no rollback: what was written before an error stays | the task board and the two properties above |
| retrieval (`application/retrieval_service.py`, `retrieval/*.py`, `adapters/*/retrieval.py`) | none across requests but the reuse counter | plan, read lanes, fuse, expand, hydrate, rerank, pack; bounded read | lanes fail one by one, other callers commit meanwhile, budgets cut | an answer is of one committed state, and says when something was left out |
| learned reranker (`adapters/reranking/local_jsonl.py`) | one subprocess, its pipes, the lock, remembered answer ids | rerank, close | late and stray answers, death, cancellation | no recall gets another's scores; a stray line costs one recall its scores and no more |
| external runners E6, E6b, E6c, E6c v2 (`run_longmemeval_e6*_external.py`) | call journal, attempts, receipts, artifacts, reports | extract, rank, select, pack, audit, diagnose, QA, report | kills between any two writes, HTTP retries, unanswered paid calls, concurrent reservations | a route gets one client call, the cap holds, gates come first, a run recovers |
| phase runners E1, E2, E7 (`run_longmemeval_e[127]_external.py`) | manifests, per-question files, receipts, reports | rank, pack, construct, QA, report | no lock, runs beside each other, pairs of files, reruns with other options | files stay bound to their inputs and losses are bounded; what two runs spoil stays with the question both took |
| in-memory work queue, event feed and metrics, HTTP API, authentication, providers, schema and CLI, demos and benchmarks | | | | not modelled (section 7) |

Components meet in these places. Every mutation of the database stores runs
inside `run_idempotent`, so each is one SERIALIZABLE transaction under a key: that
is why a store operation is a single action, and why `IdempotentTx` is a module
of its own. The bridge's requests end in actions of the coordination store
(`LeaseBridge` extends `Coordination`). Rejecting a source reaches into the work
queue (`WorkQueue`) and into the memory chains (`MemoryStore`). A claim of the
kernel recalls memories and a completion cites them (`Kernel`). A recall holds a
read snapshot while it waits for the reranker that all recalls share (`Retrieval`
extends `RerankerClient`). The four E6 runners drive one journal (`ExternalRun`
extends `CallJournal`).

## 2. The modules

| module | models | extends |
|---|---|---|
| `Coordination` | the coordination store | |
| `TaskBoard` | who holds each task and how it ended, for any store (abstract) | |
| `CommandOnce` | what an idempotency key promises its callers (abstract) | |
| `IdempotentTx` | run_idempotent around run_serializable; implements `CommandOnce` | |
| `LeaseBridge` | the MCP bridge of one agent, the network and the store behind it | `Coordination` |
| `WorkQueue` | the work queue, its workers, consolidation and rejection | |
| `MemoryStore` | memories, evidence, sources, conflicts and the policy that decides about them | |
| `Kernel` | the in-memory kernel with activation and outcome feedback; implements `TaskBoard` | |
| `RerankerClient` | the client of the reranker subprocess | |
| `Retrieval` | recalls and bounded reads over either store | `RerankerClient` |
| `CallJournal` | the journal of paid calls and its spend ledger | |
| `ExternalRun` | the four E6 runners | `CallJournal` |
| `PhasedRun` | the runners E1, E2 and E7 | |
| `MC...` | instances for TLC | the module of the same name |
| `CoordinationProofs`, `IdempotentTxProofs`, `WorkQueueProofs`, `MemoryStoreProofs`, `KernelProofs`, `LeaseBridgeProofs`, `ExternalRunProofs`, `PhasedRunProofs` | theorems | the module of the same name |

`Coordination` also implements `TaskBoard` (`BoardKept`), so that the database and
the in-memory kernel are shown to keep one contract. A definition called "Mutated
form" beside an operation is a plausible slip in the code it stands for;
replacing the operation by it makes a run fail, which shows that the property
depends on the code.

**Coordination.** A variable per table; a row carries the columns that guards
read. `ClaimTask` is one transaction: sweep the elapsed leases of the run, pick
a claimable task of the swept table, lease it, append the event. A command that
raises rolls its transaction back, so a refused command is no step. `SKIP LOCKED`
makes the choice of a claim nondeterministic. A task is added as pending or ready,
as every caller in the repository adds it, although the store inserts whatever status
it is given. A transaction's `now()` is fixed
when it starts, so each command reads a clock that trails the commit order by up
to `MaxLag`. `Reaches` stands for the recursive query that looks for a cycle.

**IdempotentTx.** Each call is a process through idle, attempt, commit, resolve
and done. The actions are the outcomes of an attempt: the body reads a row or
runs the closure; 40001 is retried while attempts are left; 23505 goes to a
lookup; 40003, or a connection lost at COMMIT, leads to the lookups of an
ambiguous commit, while the server may still apply it (`LateCommit`,
`LateAbort`). `Cancel` is asyncio cancellation, and a driver error of a lookup.

**LeaseBridge.** A tool call and the renewal loop of a task are processes.
`Send` reads the versions of the binding under its lock and keeps the lock until
an answer is read. `Serve` is a step of the store, even if the sender gave up.
`GiveUp` is a transport error, a 5xx or a retryable answer; a request given up
may still arrive. A renewal keeps one key over its retries. `ClaimGranted`
installs a new binding and cancels the old loop; `Restart` forgets every binding.

**WorkQueue.** Lease expiry and retry delay are kept as the time left, so time
passes without bound. A lease token is a fresh uuid and is represented by the
lease version it was drawn for. `job` is what a process remembers of its claim:
it acts on that, not on the row. Settling actions take `heard`: whether the
worker learns of the commit. Publications are not fenced by the lease, as in the
code. Providers and handlers return anything.

**MemoryStore.** A remember is two transactions: `StartRemember` reads what the
policy is shown and decides, `RememberAdd`, `RememberMerge`, `RememberUpdate` or
`RememberNothing` applies the decision, looking again only at what the code looks
at again. Then the embedding is queued, and completed for whatever version the
row has by then. `RejectSource` refutes what loses its last acceptable evidence and
reopens predecessors. Text is one of a few contents; a command names at most one
related memory. A version is only kept as what a vector was made from: commands
that carry an old one are refused, and those that carry the current one may
always be sent. A pending source and an approved one are alike here.

**Kernel.** One action per method under the asyncio lock. Where a method raises
after writing, what it wrote stays (there is no rollback). An activation is
two actions, since `application/coordination.py` recalls before it records:
the selection, then the record, which checks the lease and the versions again.
`delivered` is history: the contexts agents were given.

**Retrieval.** The store is the sequence of its committed states, `cuts`. A
recall opens a snapshot (the kernel takes its lock, CockroachDB remembers a
timestamp), reads one lane per step, each of which may fail, fuses the ranks,
follows the links, hydrates, asks the reranker and packs. Raw scores and sizes
are data. Arithmetic is in integers of a fixed unit, with the ranking's constants. Every bound of the code that drops a
candidate is there, because the answer must say when one was dropped: the index is first
asked for `Overfetch` times the lane's budget and scanned wider while too few rows
survive validation. The reranker's process may write a line at any time, in place of an
answer or on top of one: the client writes its next request without looking into the pipe.

**CallJournal, ExternalRun, PhasedRun.** Files are present or absent, with the
facts later phases test about them; the bytes are functions of inputs that are
already recorded. A kill can come between any two writes. In `ExternalRun` one
process holds the output lock; `runner` is chosen in `Init`, so one
specification holds what the four scripts share and says where they differ. A call
of the HTTP client (`Send`) POSTs its request again after a timeout or a retryable
status (`Resend`), up to `HttpAttempts` times; `calls` counts client calls, `tries`
the POSTs of the one under way, and reservation and settlement price the retries.

In `PhasedRun` nothing locks a directory. Any number of processes may run any phases of
any experiments at the same time; each reads what it needs (`read`), and writes later,
over whatever is there by then. Every file carries the stamps of the files it was made
from, since a rerun replays what it finds. `raced` is history: it counts, for each
question, how often a run found it missing while another had found the same, and for all
questions, how often a manifest was written over another one.

## 3. The runs

| run | instance | distinct states | checks |
|---|---|---|---|
| `handoff` | 2 agents, 1 task, 3 leases, clock to 3, lag 1, two lease lengths | 68 339 | LeaseAgreement, SessionOrder, VersionAccounting, PromiseKept |
| `dag` | 2 runs, 4 tasks, edges of both kinds, 2 agents, 2 leases | 465 211 | CompletionAgreement, SomeTaskUnblocked, RunIsolation, BoardKept |
| `idempotent_tx` | 3 calls of one key, two commands, 2 attempts, 2 lookups | @IDEM@ | ErrorsAreFinal, EveryCallEnds, KeepsPromise |
| `bridge` | 2 concurrent tool calls of 3, 2 keys, 1 renewal, 1 fault, a rival agent, lag 1 | @BRIDGE@ | NeverAhead, OneUnconfirmed, RefusedOnlyWhenLost, CallsReturn |
| `extraction` | 2 processes with one worker id, 2 extractor revisions of a source, an embedding item, 2 attempts | 72 778 | OneHolder, RejectionReaches, EveryItemSettles |
| `consolidation` | 2 processes, a consolidation item with 2 possible plans of 2 actions, an artifact item | 125 801 | PlanOnce, AppliedWhole |
| `memory` | a reviewer and another caller, 2 memories, 2 sources with a piece of evidence each | 608 544 | ChainConsistent, LineageHasHead, DerivedShareEvidence, RejectedForGood |
| `kernel` | 2 agents, 2 chained tasks, 2 leases, 2 memories, 2 activations, 5 memory commands | @KERNEL@ | OutcomeBacked, ContextTracked, KernelKeepsBoard |
| `retrieval` | 3 servers, 2 recalls or a recall and a read, 4 memories, 3 lanes and links, 1 commit, 1 fault | @RETRIEVAL@ | AnswersOneCut, LossTold, FailuresStayPut, OneLostPerStray, RecallReturns |
| `external_run` | 4 runners, 2 questions, 3 values, 2 attempts, 2 HTTP attempts, 1 crash, 2 faults | @EXTERNAL@ | OneClientCall, SpendWithinCap, QABehindGate, ReportBacked, Recovers |
| `phased` | E1 with E2 or E7, 2 runs at a time, 2 questions, 2 windows, 2 option sets, 1 stop or overlap | @PHASED@ | EvidenceBound, LossBounded, NeverAskedAgain |
| `stranded` | 1 agent, 3 tasks, 2 leases | stops at the violation | BlockedTasksWait (violated, section 4) |

What they show, in the order of the table:

- Whatever order claims, sweeps, renewals, checkpoints, releases and completions
  commit in, the task row and the lease table name the same holder; a displaced
  holder never writes into its successor's session; versions are all accounted
  for by events and sweeps; a promised expiry is never taken back.
- Edges added while tasks are being claimed, swept and completed never leave
  every remaining task waiting for another; completions match final states; no
  step touches the tasks or leases of two runs; every step is one of the task
  board's.
- An idempotency key keeps its promise through retries, races, lost and late
  commits and cancellation, and every call ends.
- No fault makes a binding of the bridge run ahead of the store, a repeated
  checkpoint is journalled once, and no error path keeps a lock. Losing requests
  and answers of a renewal does not end it: the store refuses a renewal of the bound
  lease only once that lease is gone or has run out, unless a tool call on it lost its
  answer or its claim was answered from the record (section 6).
- Of the processes that ever claimed an item only one can settle it, even under
  a shared worker id; rejecting a source leaves none of its memories standing;
  every item ends, although the last attempt may die with its worker. One plan
  per item is published, and wholly when reported as applied.
- Decisions taken before the transaction that applies them do not break
  supersession: the two directions of a chain agree, a lineage that is visible
  has a current memory, a derived memory cites its origin's evidence, and
  nothing cites a source anew after its rejection.
- In the kernel, too, tasks move as the board promises; an outcome is associated
  with exactly the version of a memory that was activated under the lease; the
  context an agent was given is the one on record.
- A recall's answer is made of versions that stood together, and contains everything it
  should or says that it was cut or degraded; a failing lane, provider, peer or
  caller fails only itself. A line of the reranker that nobody asked for may cost
  a recall its scores that had nothing to do with it, but each such line costs only one; every recall ends, although it holds its snapshot while a subprocess answers.
- A route is given to the HTTP client once, over any number of processes, and the
  client POSTs it at most `HttpAttempts` times; the cap counts
  failed and unresolved calls; QA waits for the gates; verdicts rest on complete
  evidence; E6c v2 reaches its report after any crash, unless the run is lost to
  an unanswered call, a refusal or the cap.
- The phase runners take no lock, and runs of different phases, of different
  experiments or on different questions do each other no harm: every file stays bound
  to the manifest and to unchanged inputs, answered questions are not asked again, and
  a stop costs the answers of one question at most (of one call, for the constructor).
  Two runs that take one question in one phase may spoil each other's files for it and
  ask it twice, and two that start an empty directory with different options overwrite
  each other's manifest; the properties except such questions (`Undisputed`, `raced`), and only
  those, and allow one question's calls for each such race. Without the exception TLC
  finds each of the damages in this instance. What the comment at
  `run_longmemeval_e7_external.py:1059` says, that a construction never points at a sidecar
  that was not preserved, holds under the same condition.

**Bounds.** Each bound is a named constant. Lease ids bound the number of claims:
three let a task be claimed, lost, claimed by the other agent, and claimed again.
A clock of three instants with leases of one and two lets a lease run out, be
renewed by less than it has left, and be swept by a late and by an early reader.
`MaxLag` 1 is a transaction that started before the last tick; a larger lag adds
no order of events that two such transactions do not already produce. `dag` has
three tasks in one run because a cycle closed by two insertions needs three
nodes to be more than an edge and its reverse; t3 is never claimable, so that it
only carries edges. In `idempotent_tx` three calls give a race of two equal
commands and one that differs. In `bridge` a lost request or a lost answer, a
call that shares the lock and a rival claim can all happen; a second fault adds
states, but every hazard listed for the bridge needs one; the invariant of its proof
was also checked with two faults (823 313 states). The queue has two attempts, one
that may be retried and a last one. In `memory` two ids are a chain, and its
reopening, over and over, since nothing else is bounded. The two callers send
different commands (`Divided`), so that each may close, corroborate or derive
from what the other's decision was about, while one more citation may be what
keeps a memory from being rolled back. In `kernel` a chain of two tasks, two
claims and two versions of a memory let an outcome cite what was replaced
meanwhile; its five commands register a source, add evidence, and write and
review two memories. In `retrieval` lanes hold two candidates, the links cross
what lanes find and do not find. One server has room for everything, so that answers
are complete; on one the index is asked for twice the lane's budget; on one it is asked for
a single row, and scans grow wider and saturate. A stray line needs one fault.
In `external_run` two open reservations of 5 and one settled call fill the cap of
11, so that the ledger decides. Two faults let a POST be repeated and its call fail. One crash may come
anywhere and is followed by any commands; further crashes repeat it from states
the first already reaches. The invariant of the proof was also checked with two crashes,
two faults and all commands (2 593 798 states). `MaxTaskVersion` and `MaxLeaseVersion`, and the kernel's `MaxVersion`,
bound how often a row changes. In `phased` two runs are all that can take one question
from each other; the one trouble is a stop anywhere, or a run begun anywhere beside
another, and after it any further runs one by one. `Whole` and `MaxFollowers` spare runs that differ
from the others by what an operator typed: only E2 is run with `--phase all`, which
E1 and E7 loop over in the same way, and of E2 and E7, which share no file, one is begun. Symmetry is used only where ids are
interchangeable and no liveness property is checked. Deadlock is not checked
where clocks, ids or counters are bounded, since such an instance stops;
`phased` checks it, because a run can always be started again.

**Fairness.** `IdempotentTx`: asyncio resumes a call whose await has returned,
so its own steps are weakly fair; faults, cancellation and late commits are not.
`LeaseBridge`: asyncio.Lock wakes its waiters, the store serves what reaches it,
and the client's timeout turns everything else into an error; nothing obliges the
model to call. `WorkQueue`: a process polls for ever (`ClaimNothing` weakly
fair); a claim that is possible again and again succeeds in the end, since SKIP
LOCKED skips a row only while another transaction holds it (`Claiming` strongly
fair); a process with a lease goes on with it; time passes. Crashes are
unrestricted. `Retrieval`: a started recall goes on (weak fairness with its
ENABLED written out as `MayStep`, which spares TLC the search) and the timer of
a rerank call fires; the provider owes nothing. `ExternalRun`: a running process
goes on and an operator keeps starting `all`; crashes and faults are bounded and
need not happen.

Each module also defines its type invariant. Those of `Coordination`, `WorkQueue`,
`MemoryStore` and `Kernel` are proved; those of `IdempotentTx` and `LeaseBridge` are
part of the inductive invariants, and so are most of `RunTypeOK` (`RunInv`, `Budget`) and
of `PhasedTypeOK` (`Shapes`, `Fits`); both can be added to the configuration of their run.

## 4. Where the code and its documents disagree

The run `stranded` states what a document says and TLC refutes it with the
behaviour of the code: "unblock newly ready dependents"
(docs/cockroach-schema.md:515). A task released while a prerequisite is
unfinished becomes blocked, and nothing moves a blocked task back to ready when
the prerequisite completes.

The following were met in the same way. Their formulas stand in the modules, and
TLC finds the behaviour described when one is added to the configuration of a run
of its module (for `OncePerKey` with the commands `Relating`, four memories, one
lease and no activations; for `DenseLagTemporary` with `FairSpec` and without
symmetry, and without symmetry also for `PoisonGuard`).

| formula | what is said | what the code does |
|---|---|---|
| `RenewalContinues` (`LeaseBridge`) | "`claim_task` begins automatic lease renewal in the bridge. Completion stops it." (docs/api.md:832) | a checkpoint whose answer is lost leaves the binding behind the store; the next renewal is refused as stale and the loop returns (`client.py:599`) while the lease is held |
| `RejectedQuiet` (`WorkQueue`) | "Make queue state agree with source policy" (`memory.py:1264`) | ingesting a rejected source under a new extractor revision queues an item that no worker may claim and nothing cancels (`work_store.py:1816`) |
| `StalePublishesNothing` (`WorkQueue`) | "turns the whole plan into `stale_noop`" (docs/consolidation-runtime.md:26) | after the first action was published, a crash and a change of the inputs end in stale_noop with that action published (`consolidation.py:290`) |
| `PoisonGuard` (`MemoryStore`) | "poisoning policy are transaction invariants" (docs/cockroach-schema.md:304-305) | the policy decides outside the transaction (`memory.py:576`): a memory confirmed in between is superseded by an unsupported one |
| `RollbackComplete` (`MemoryStore`) | "rolls back memories that lose their final acceptable source" (docs/api.md:213-214) | only current memories are looked at (`memory.py:1307`): a predecessor that cites the same source comes back with it when its successor is rolled back |
| `DenseLagTemporary` (`MemoryStore`) | "overfetch accounts for temporary lag" (docs/retrieval-architecture.md:998) | a memory reviewed after it was embedded keeps the vector of its old version, which the dense lane skips from then on (`retrieval.py:1087`) |
| `OncePerKey` (`Kernel`) | "A single `asyncio.Lock` supplies transaction-like atomicity" (`in_memory.py:145`) | a remember that fails at its last link has stored the memory already; a retry of the key stores a second one (`in_memory.py:1008`) |
| `ProviderOutsideSnapshot` (`Retrieval`) | "Provider calls stay outside the CockroachDB read transaction" (`memory_service.py:180`) | true of the query embedding; the reranker is asked inside the snapshot (`memory_service.py:196`) |
| `Resumes` (`ExternalRun`) | "process interruption resumes the same sealed routes" (docs/research/longmemeval-e6b-head20-protocol-2026-08-09.md:228) | a kill between the prompt file and its pack trace leaves half a pair, which E6b refuses for ever (`run_longmemeval_e6b_head20_external.py:3343`); E6c v2 repairs it |

Visible in the actions and without a formula: docs/cockroach-schema.md:488 says
that each durable mutation appends one event, while a repeated join updates the
agent row without one (`JoinAgent`). The kernel leaves a rolled-back memory its
pointer to the predecessor (`in_memory.py:1506`), so that rejecting the source
again reopens that predecessor even if another memory superseded it meanwhile;
and its `add_dependency` does not look for cycles, which the database does. The store's
rejection raises when a loser's predecessor is not visible to the caller, who
then cannot reject that source (`RejectSource`).

## 5. What is proved

All theorems hold for every value of the constants that meets the named
assumptions of the modules; TLC evaluates the assumptions in every run. They say
no more than what the code relies on: the types of the scope functions, positive
bounds, `None` distinct from every identifier and value it stands beside
(`NoRowAssumption`, `NoneAssumption`, `BridgeAssumption`). The bounds that keep TLC
finite (clocks, versions, crashes, faults) are constants like the others, so a theorem
holds however large they are.

*`CoordinationProofs`* (1962 obligations).
`TypeCorrect`: `TypeOK` is inductive; the one step that needs help is the claim,
whose sweep rewrites two tables at once (`SweepType`).
`LeasesAgree`: `LeaseAgreement` is inductive on top of `TypeOK`. A claim is
treated in two stages: the sweep alone preserves agreement (`SweepAgrees`: it
frees exactly the tasks whose leases it expires, because agreement makes the
pairing one to one, and both tables are filtered by the run of the task), and
then pairing a free task with an unused lease does (`PairAgrees`, with `UsedLease`).

What a holder and its peers rely on follows from these: a promised
expiry is not taken back (`PromisesHold`), a step stays in one run
(`RunsAreIsolated`), completions agree with final states (`CompletionsStand`), and
every step is one of the task board's (`CoordinationImplementsTaskBoard`). `ClaimedRows`
and `OwnedRows` say row by row what a claim and a holder's command do; each theorem
is then one case per command.

Three theorems are about the history of a task. `SessionsInOrder`: an event alone does
not say who may write next, so `OpenSession` adds that the last event of a claimed task
lies in its holder's session, and `Rooted` that every lease and event belongs to a task
that was added.
`VersionsAccounted`: `Accounted` states the counts per task and per lease, and the
lemmas say what one event and one sweep add to them.
`DagNeverWaitsOnItself`: `SomeTaskUnblocked` speaks of unfinished tasks only, and
is not inductive. `Founded` says of every nonempty set of tasks that one of them has
no edge into the set; a new edge keeps it because the recursive query found no way
back, and a set closed under edges would have to hold one.

*`IdempotentTxProofs`* (@NIDEM@). `ErrorsAreFinal` is not inductive: a call
between body and COMMIT could have been applied already. `Consistent` adds, for
each call, that an answer exists exactly when the call is done (`Answered`), that
a transaction still running is neither stored nor pending and replays only the
stored row of its own command (`Running`), and that only an ambiguous commit
leaves something pending (`Resolving`). `DefiniteErrors` follows.
`IdempotentTxImplementsCommandOnce` maps the calls that raised a definite error
to the abstract `barred`; `StepKeepsPromise` shows that every step is one of the
abstract specification's or a stutter.

*`LeaseBridgeProofs`* (2221). `NeverAheadOfStore` and `OneCheckpointUnconfirmed`. The
versions the bridge remembers come from answers, answers from requests, and both
may be late or lost, so `BridgeInv` has to say what each message on its way is worth:
a request carries a version no newer than the store's and is what its sender waits
for, if anyone still does (`RequestOK`); an answer is the one its reader waits for, about
the lease of its binding, and no newer than the store (`AnswerOK`); a process that waits
has a binding to use the answer for (`ProcessOK`). `LastUnconfirmed` adds that a checkpoint
the bridge was not told of is the last thing the store did under that lease at its
request, and `Journalled` that a key is journalled once. The store only grows between two looks at it (`Grown`), which is
stated once and used for every message. Every step of the bridge is brought under
one description (`BridgeStep`: some processes stop waiting, the others keep
their exchanges), so that the invariant is preserved once and not per action.

*`WorkQueueProofs`* (859). `Sound` is `TypeOK` with the plan a worker
past staging has in hand, which makes it inductive (`QueueTyped`).
`StepGoesOn` says once, for every action, what the other proofs need: lease
versions only grow, staged plans and publications stay, and a step moves at
most one worker, which keeps its lease, drops it, or takes one under a version
nobody held. From it:
`SingleHolder`, with `Drawn` (a version in a worker's hands was drawn for its
item, and once); `OnePlan`, with `PlanInHand` (a worker follows the staged plan);
`AppliedPlansWhole`, with `Progress` (every action before the next one is
published). `RejectionComplete` needs only the types: rejection is terminal and
an apply requires a usable source.

*`MemoryStoreProofs`* (1050). `StoreTyped`, `ChainsConsistent`, `LineagesHaveHeads`,
`DerivationsGrounded` and `RejectionsStand`. The two directions of a chain agree although a
supersession is decided in an earlier transaction, because it looks at its target
again: `Targeted` says that a pending decision has one, `Unwritten` that ids not yet
used say nothing, and `SupersessionLinked` that a memory is linked to the one it
supersedes. That a lineage has a head does not follow from the rows of two
neighbours; `Headed` says it of every set of memories closed under succession. The
hard case is `RejectSource`, which refutes a set of memories and reopens predecessors in
one step.

*`KernelProofs`* (@NKERN@). `KernelTyped`, `OutcomesBacked`, `ContextsTracked`
and `KernelImplementsTaskBoard`. The kernel has no foreign keys,
so `LeasesHeld`, `EndedForGood` and `SupersededClosed` state what the database would
enforce; `Ordered` says that memories are created in the order of their ids, so that what
an update supersedes and a conflict compares is there. No command rolls back here, so each proof follows a method to the point
where it may raise.

*`ExternalRunProofs`* (@NEXT@). `SentOnce`, `QAGated`, `ReportSound` and `CapHolds`. The first
three follow from one invariant, `RunInv`, which is checked action by action for all four runners at once
(`RunSound`). What is on disk outlives the process, so it says both what the run
directory means and what the process in front of it may still do.
A route gets one client call because a call that was made was reserved (`JournalOK`), and a
call about to be made stands on a reservation of its own that nobody has used
(`TaskOK`, `AskOK`); a reservation found at the start is never taken over. `TriesOK` bounds
the POSTs of a call: the client counts them from one and stops at its limit.
`Grounded` is what has to stand before a reader or judge is asked; `Gated` says that it
stands wherever such a call has left a trace, or a process is past the start of its QA
phase. It needs `Scoped` (a limited process never gets there, one of E6b only after its audit)
and `GroundsKept` (no later step takes the grounds away).
A verdict is backed because receipts stand for accepted answers without gaps
(`ReceiptsOK`; reconciliation, which recounts them after a kill, keeps this by
`ReachedBacked`), each kind of artifact was made from the one before it
(`EvidenceOK`), and each runner's own condition for a report gives the same facts
(`QualifiedReport`).

`CapHolds` is about money, and needs more than the journal. What a run of the process
believes it has spent and holds (`process.spent`, `process.held`) does not cover every
reservation on disk: a row whose write was reported as failed may stand in the journal
although the ledger never took it in. Such a row is never sent, so `Owed` counts the
routes that were sent or are about to be (`Live`), and `Budget` says that `Owed` is at
most the ledger while one is open, that the ledger is within the cap, and that `Owed`
is within the cap also when no process runs. `Pledged` ties the two together: money held
for a route is held on a reservation that is not settled. A process that starts adds up the
whole journal, which is at least `Owed`. Each action then moves one route
(`OneMoreHeld`, `OneSettled`) or none (`Affords`).
The cap is a sum over all routes. `SumsCompared` says what changing one term does to a sum
and that sums are ordered as their terms. The provers cannot use an induction rule, so it
is proved by contradiction from a smallest set for which it fails (`MinIn`), after
`SumsExist` has shown in the same way that the recursion of the library's fold has a solution;
`RoutesFinite` supplies that there are finitely many routes.

The assumptions are that the cohort and the routes of a question are finite intervals
that start at 1 (`CohortAssumption`), at least one attempt (`CostAssumption`), the four
runners and a pilot within the cohort (`RunAssumption`), and that an absent report is no
verdict (`NoneAssumption`).

*`PhasedRunProofs`* (@NPHASED@). `EvidenceStaysBound` and `NothingAskedAgain`, for any number of
runs at a time. `EvidenceBound` is not inductive: nothing in it says that a file about to
be written is new, or that what a file names is on disk. `PhasedInv` has these parts.
`Shapes` are the tables. `Grounded` says of every file of a question in nobody's dispute
that it is bound to what it names, and that all it names is there. `RunOK` says of every
run what it may still rely on: `Fits` where it may be, `Untaken` that what it found
missing is missing until it makes it itself, `Counted` that it has the constructor's
answers that are on disk, `Agreed` that it goes by the manifests of the directories, and
`Sourced` that what it has read of its question is still so. `Apart` says of two runs
that found the same files missing that `raced` has counted it. `Filed` is about reports.
The argument is that disks only grow where nobody races (`Grown`): a step writes files that were
not there, binds a manifest that was not bound, and adds no constructor receipt behind a
question's contexts, and so whatever was bound or replayed stays so (`KeptStays`,
`ReplaysStays`). `SourcesReady` goes through the tables of phases and citations: what a phase
writes names only what it has verified before. `StepKeeps` reduces each action to the one
run it moves, since `OthersKeep` carries what the others rely on over any step that
writes only unclaimed files. `NothingAskedAgain` reads off `Untaken` and `Counted` that a
question is asked only while it has no receipts.

## 6. What is only model-checked

Liveness is outside the reach of the prover and stays with TLC: `EveryCallEnds`,
`CallsReturn`, `EveryItemSettles`, `RecallReturns`, `Recovers`.

Nothing is proved about what a recursive definition computes for every input: the
library's induction rules cannot be used, and although a property of sums can be had from
a smallest counterexample (section 5), the ranking, the walk over links and the packing
of `Retrieval` are folds over sequences whose results would have to be characterised first.
So the properties of `Retrieval` stay with TLC. `LossBounded` does too: it is a sum over questions and
races, and was checked, not proved.

`RefusedOnlyWhenLost` speaks of the refusal, because more cannot be said. A renewal given up
by the client may still be on its way when its retry is refused, the lease having run
out; a transaction whose clock lags (`MaxLag` 1) then grants it, the lease is extended
once more, and nothing renews it afterwards. That such a lease goes on being renewed is
not claimed anywhere. No theorem states the property.

Two facts about parties outside the repository are assumed in `Retrieval`. A scan of the
approximate index that returns fewer rows than it was asked for has returned all its
rows: a real index may miss some, and `LossTold` says nothing about those. And the
reranker's process writes whole lines; what it writes, and when, is free.

## 7. What is not modelled, and why

- Event feed and metrics: keyset pagination over events, and aggregate queries.
  They write nothing. An event of a transaction that commits late sorts before a
  cursor already handed out; this is listed as a hazard without a property.
- In-memory work queue: a second implementation of the work queue under one
  asyncio lock, used without a database. `WorkQueue` follows the durable one.
- HTTP API: translates requests and errors and holds no state; its status codes
  matter only to the bridge, where they appear as granted, refused and fault.
- Authentication and capabilities: the scope they yield is the actor of each
  action; the rest is computation on secrets.
- Providers (embedding, extraction, consolidation, reranking models): remote; their
  answers are free choices.
- Schema installation, CLI, demos, benchmarks, report builders and the QA harness:
  input, output and scripts. The unique indexes and checks of `schema.sql` that
  protocols rely on are part of the guards.
- Bridge: the memory tools and the inline-evidence cache, which keep no lease state.
- Retrieval: the parser of times in a query, the merge of semantic hits of the
  first version, the deterministic relevance rerank (its weight is zero in the
  plans modelled), and domain errors a graph gateway may raise in a bounded read.
- Kernel: checkpoints, metrics, embeddings, and the versions of rows whose
  commands always carry the current one. Dependencies are in place before work
  starts. The database's own statements for activation and association follow the
  rules modelled here and are not modelled a second time.
- Consolidation: which observations are selected, and the canonical order of
  proposals.
- Tasks that fail: their dependents wait for ever, as the schema intends. What an
  operator does about it is not defined in the repository.

## 8. Plan

What is left, in this order:

1. Proofs about `Retrieval` (`FailuresStayPut`, then `AnswersOneCut` for one lane).
2. `RefusedOnlyWhenLost` and `LossBounded` as theorems.
3. `EventFeed`: keyset pagination against commits that land late.
4. The in-memory work queue as a second implementation of one abstract queue.
