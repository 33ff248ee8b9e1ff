------------------------------ MODULE WorkQueue ------------------------------
(***************************************************************************)
(* The durable work queue of the CockroachDB backend                       *)
(* (adapters/cockroach/work_store.py) with the worker processes that poll  *)
(* it (workers/*.py) and the part of source governance that reaches into   *)
(* it (reject_source, review_source of adapters/cockroach/memory.py).      *)
(*                                                                         *)
(* A worker claims one item in a short transaction, computes outside any   *)
(* transaction, and settles the item in another short transaction that is  *)
(* fenced by the lease.  Each transaction is one action.  Workers crash,   *)
(* outlive their lease, and may not learn that a transaction committed.    *)
(*                                                                         *)
(* Lease expiry and retry delay are kept as the time left, so that time    *)
(* passes without bound.                                                   *)
(***************************************************************************)
EXTENDS Integers, FiniteSets

CONSTANTS
    Workers,       \* worker processes
    Ids,           \* worker ids
    IdOf,          \* SWARMBRAIN_WORKER_ID of each process, which two may share
    Handles,       \* items a process claims: its kinds, extractor profile and model
    Works,         \* work ids: one per (kind, dedupe_key)
    Sources,       \* raw sources
    Effects,       \* extraction candidates, by effect_key
    Plans,         \* consolidation plans a reflection may return
    Actions,       \* number of proposals in a plan
    Kind,          \* the kind of each work item
    SourceOf,      \* the source of each extract_source item
    EmbedOf,       \* the <<item, effect>> whose memory an embed_memory item embeds
    MaxAttempts,   \* max_attempts
    LeaseTime,     \* lease_seconds
    RetryDelay,    \* longest time from a failure to its retry_at
    None

Kinds == {"extract_source", "embed_memory", "persist_artifact", "consolidate_memory"}

Outcomes == {"completed", "failed", "source_untrusted", "source_rejected", "applied",
             "stale_noop"}

ASSUME WorkAssumption ==
    /\ IdOf \in [Workers -> Ids]
    /\ Handles \in [Workers -> SUBSET Works]
    /\ Kind \in [Works -> Kinds]
    /\ \A w \in Works : Kind[w] = "extract_source" => SourceOf[w] \in Sources
    /\ \A w \in Works : Kind[w] = "embed_memory" => EmbedOf[w] \in Works \X Effects
    /\ MaxAttempts \in Nat \ {0}
    /\ LeaseTime \in Nat \ {0}
    /\ RetryDelay \in Nat
    /\ Actions \in Nat \ {0}
    /\ None \notin Ids \cup Plans \cup Works \cup Nat \cup Outcomes

VARIABLES
    items,      \* rows of outbox_work_items
    sources,    \* review state and trust of each source
    effects,    \* outbox_work_effects of each item, each with its memory and event
    refuted,    \* <<item, effect>> whose memory was rolled back
    vectors,    \* memories with a stored embedding
    stale,      \* consolidation items whose observed memories have changed since
    published,  \* <<index, plan>> of the actions of each item that were published
    job         \* the lease each worker is working under

vars == <<items, sources, effects, refuted, vectors, stale, published, job>>

Statuses == {"absent", "pending", "leased", "retry", "completed", "failed", "cancelled"}

\* source_extraction_state: not settled yet.
Live == {"pending", "retry", "leased"}

Settled == {"completed", "failed", "cancelled"}

-----------------------------------------------------------------------------
(* Rows.  gen_random_uuid draws a token nobody had: it is represented by    *)
(* the lease version it was drawn for.                                     *)

Row(status, attempts, delay, worker, token, lv, left, plan, outcome, version) ==
    [status |-> status, attempts |-> attempts, delay |-> delay, worker |-> worker,
     token |-> token, lv |-> lv, left |-> left, plan |-> plan, outcome |-> outcome,
     version |-> version]

Absent == Row("absent", 0, 0, None, None, 0, 0, None, None, 0)

New(status, outcome) == Row(status, 0, 0, None, None, 0, 0, None, outcome, 1)

Leased(r, k) ==
    Row("leased", r.attempts + 1, r.delay, IdOf[k], r.lv + 1, r.lv + 1, LeaseTime,
        r.plan, r.outcome, r.version + 1)

\* The owner and the token stay on the row: a replay is recognised by them.
Done(r, outcome) ==
    Row("completed", r.attempts, r.delay, r.worker, r.token, r.lv, 0,
        r.plan, outcome, r.version + 1)

Staged(r, plan) ==
    Row(r.status, r.attempts, r.delay, r.worker, r.token, r.lv, r.left,
        plan, r.outcome, r.version + 1)

\* Mutated form: a failure discards the staged plan.
RetriedAfresh(r, delay) ==
    Row(IF r.attempts < MaxAttempts THEN "retry" ELSE "failed", r.attempts, delay,
        r.worker, r.token, r.lv, 0, None,
        IF r.attempts < MaxAttempts THEN None ELSE "failed", r.version + 1)

Retried(r, delay) ==
    Row(IF r.attempts < MaxAttempts THEN "retry" ELSE "failed", r.attempts, delay,
        r.worker, r.token, r.lv, 0, r.plan,
        IF r.attempts < MaxAttempts THEN None ELSE "failed", r.version + 1)

LeaseExpired(r) ==
    Row("failed", r.attempts, r.delay, None, None, r.lv, 0, r.plan, "failed", r.version + 1)

Cancelled(r) ==
    Row("cancelled", r.attempts, r.delay, None, None, r.lv + 1, 0, r.plan,
        "source_rejected", r.version + 1)

\* The source may still yield memories.
Usable(s) == sources[s].state /= "rejected" /\ sources[s].trust /= "untrusted"

NoJob == [work |-> None, lv |-> 0, version |-> 0, attempt |-> 0, plan |-> None,
          phase |-> "none", next |-> 0]

Job(w, r, phase, plan, next) ==
    [work |-> w, lv |-> r.lv, version |-> r.version, attempt |-> r.attempts,
     plan |-> plan, phase |-> phase, next |-> next]

Init ==
    /\ items = [w \in Works |-> Absent]
    /\ sources = [s \in Sources |-> [state |-> "absent", trust |-> "unreviewed"]]
    /\ effects = [w \in Works |-> {}]
    /\ refuted = {}
    /\ vectors = {}
    /\ stale = {}
    /\ published = [w \in Works |-> {}]
    /\ job = [k \in Workers |-> NoJob]

-----------------------------------------------------------------------------
(* Producers.                                                              *)

\* ingest_source: the source, its chunks and its work item in one transaction.
\* A source that exists keeps its state; the item is new when the extractor
\* revision is.
IngestSource(w, trust) ==
    /\ Kind[w] = "extract_source"
    /\ items[w] = Absent
    /\ items' = [items EXCEPT ![w] =
                    IF trust = "untrusted" THEN New("cancelled", "source_untrusted")
                    ELSE New("pending", None)]
    /\ sources' = [sources EXCEPT ![SourceOf[w]] =
                    IF @.state = "absent" THEN [state |-> "pending", trust |-> trust] ELSE @]
    /\ UNCHANGED <<effects, refuted, vectors, stale, published, job>>

\* enqueue_work: an item with the same dedupe key is returned, not replaced.
EnqueueWork(w) ==
    /\ Kind[w] \in {"persist_artifact", "consolidate_memory"}
    /\ items[w] = Absent
    /\ items' = [items EXCEPT ![w] = New("pending", None)]
    /\ UNCHANGED <<sources, effects, refuted, vectors, stale, published, job>>

-----------------------------------------------------------------------------
(* Source governance.                                                      *)

\* review_source: rejection is terminal.
ReviewSource(s, state) ==
    /\ sources[s].state \in {"pending", "accepted"}
    /\ sources' = [sources EXCEPT ![s] = [state |-> state, trust |-> @.trust]]
    /\ UNCHANGED <<items, effects, refuted, vectors, stale, published, job>>

FromSource(s) == {w \in Works : Kind[w] = "extract_source" /\ SourceOf[w] = s}

\* Mutated form: the rejection leaves the memories of finished work alone.
RejectSourceQueueOnly(s) ==
    /\ sources[s].state /= "absent"
    /\ sources' = [sources EXCEPT ![s] = [state |-> "rejected", trust |-> @.trust]]
    /\ items' = [w \in Works |->
                    IF w \in FromSource(s) /\ items[w].status \in Live
                    THEN Cancelled(items[w]) ELSE items[w]]
    /\ UNCHANGED <<effects, refuted, vectors, stale, published, job>>

\* reject_source: cancel and fence the queue, roll back what was derived.
RejectSource(s) ==
    /\ sources[s].state /= "absent"
    /\ sources' = [sources EXCEPT ![s] = [state |-> "rejected", trust |-> @.trust]]
    /\ items' = [w \in Works |->
                    IF w \in FromSource(s) /\ items[w].status \in Live
                    THEN Cancelled(items[w]) ELSE items[w]]
    /\ refuted' = refuted \cup {m \in Works \X Effects : m[1] \in FromSource(s)
                                                         /\ m[2] \in effects[m[1]]}
    /\ UNCHANGED <<effects, vectors, stale, published, job>>

-----------------------------------------------------------------------------
(* Claims.                                                                 *)

\* Mutated form: a lease whose last attempt elapsed is left to the claim.
SweepNothing == items

\* The first statement of claim_work, over items of every kind.
Sweep ==
    [w \in Works |->
        IF /\ items[w].status = "leased"
           /\ items[w].left = 0
           /\ items[w].attempts >= MaxAttempts
        THEN LeaseExpired(items[w]) ELSE items[w]]

\* The claim's filter.  FOR UPDATE SKIP LOCKED may pass over the first in
\* order, so any candidate may be taken.
Candidate(r, w) ==
    /\ r.attempts < MaxAttempts
    /\ r.delay = 0
    /\ \/ r.status \in {"pending", "retry"}
       \/ r.status = "leased" /\ r.left = 0
    /\ Kind[w] = "extract_source" => Usable(SourceOf[w])

\* claim_work with limit 1, which WorkerSettings enforces.
ClaimWork(k, w) ==
    /\ job[k] = NoJob
    /\ w \in Handles[k]
    /\ Candidate(Sweep[w], w)
    /\ items' = [Sweep EXCEPT ![w] = Leased(@, k)]
    /\ job' = [job EXCEPT ![k] = Job(w, Leased(Sweep[w], k), "claimed", items[w].plan, 1)]
    /\ UNCHANGED <<sources, effects, refuted, vectors, stale, published>>

\* A claim that finds nothing, or only rows locked by others, commits its sweep.
ClaimNothing(k) ==
    /\ job[k] = NoJob
    /\ items' = Sweep
    /\ UNCHANGED <<sources, effects, refuted, vectors, stale, published, job>>

-----------------------------------------------------------------------------
(* Settling.                                                               *)

\* Mutated form: the fence trusts the worker id alone.
FenceByWorker(k) ==
    LET r == items[job[k].work]
    IN  r.status = "leased" /\ r.worker = IdOf[k]

\* _require_lease_row, and the same predicates in the UPDATE after it.
Fence(k) ==
    LET j == job[k]
        r == items[j.work]
    IN  /\ r.status = "leased"
        /\ r.worker = IdOf[k]
        /\ r.token = j.lv
        /\ r.lv = j.lv
        /\ r.version = j.version
        /\ r.attempts = j.attempt
        /\ r.left > 0

Working(k, kind, phase) ==
    /\ job[k] /= NoJob
    /\ job[k].phase = phase
    /\ Kind[job[k].work] = kind

\* The worker hears of the commit and is done, or it does not and takes the
\* exception for a failure.
Settle(k, heard) ==
    job' = [job EXCEPT ![k] =
                IF heard THEN NoJob
                ELSE [work |-> @.work, lv |-> @.lv, version |-> @.version,
                      attempt |-> @.attempt, plan |-> @.plan,
                      phase |-> "failing", next |-> @.next]]

\* _apply_memory_effect, for each candidate found: a ledger row of the same
\* effect key is returned as it is; otherwise the row, its memory and its event
\* are written together.
MemoryEffects(w, found) == effects[w] \cup found

\* _enqueue_effect_embedding: one item for each memory, unless it exists.
EmbeddingQueued(v, w, found) ==
    /\ Kind[v] = "embed_memory"
    /\ EmbedOf[v] \in {w} \X found
    /\ items[v] = Absent

\* apply_extraction: effects, memories, events, child embedding work and the
\* completion in one transaction.
ApplyExtraction(k, found, heard) ==
    LET w == job[k].work
    IN  /\ Working(k, "extract_source", "claimed")
        /\ Fence(k)
        /\ Usable(SourceOf[w])
        /\ effects' = [effects EXCEPT ![w] = MemoryEffects(w, found)]
        /\ items' = [v \in Works |->
                        IF v = w THEN Done(items[v], "completed")
                        ELSE IF EmbeddingQueued(v, w, found) THEN New("pending", None)
                        ELSE items[v]]
        /\ Settle(k, heard)
        /\ UNCHANGED <<sources, refuted, vectors, stale, published>>

\* apply_embedding: the vector and the completion in one transaction.
ApplyEmbedding(k, heard) ==
    LET w == job[k].work
    IN  /\ Working(k, "embed_memory", "claimed")
        /\ Fence(k)
        /\ EmbedOf[w][2] \in effects[EmbedOf[w][1]]
        /\ vectors' = vectors \cup {EmbedOf[w]}
        /\ items' = [items EXCEPT ![w] = Done(@, "completed")]
        /\ Settle(k, heard)
        /\ UNCHANGED <<sources, effects, refuted, stale, published>>

\* complete_work after a handler persisted the artifact outside the queue.
CompleteArtifact(k, heard) ==
    LET w == job[k].work
    IN  /\ Working(k, "persist_artifact", "claimed")
        /\ Fence(k)
        /\ items' = [items EXCEPT ![w] = Done(@, "completed")]
        /\ Settle(k, heard)
        /\ UNCHANGED <<sources, effects, refuted, vectors, stale, published>>

\* fail_work, for whatever a handler, a provider or the store raised.
FailWork(k, delay, heard) ==
    LET w == job[k].work
    IN  /\ job[k] /= NoJob
        /\ Fence(k)
        /\ items' = [items EXCEPT ![w] = Retried(@, delay)]
        /\ Settle(k, heard)
        /\ UNCHANGED <<sources, effects, refuted, vectors, stale, published>>

\* WorkLeaseLost, from a settling call or from the fail_work after it.
LeaseLost(k) ==
    /\ job[k] /= NoJob
    /\ \/ ~ Fence(k)
       \/ Kind[job[k].work] = "extract_source" /\ ~ Usable(SourceOf[job[k].work])
    /\ job' = [job EXCEPT ![k] = NoJob]
    /\ UNCHANGED <<items, sources, effects, refuted, vectors, stale, published>>

\* The process ends, or an error escapes run_once; another is started.
Crash(k) ==
    /\ job[k] /= NoJob
    /\ job' = [job EXCEPT ![k] = NoJob]
    /\ UNCHANGED <<items, sources, effects, refuted, vectors, stale, published>>

-----------------------------------------------------------------------------
(* Consolidation.                                                          *)

Advance(k, plan, phase, version, next) ==
    job' = [job EXCEPT ![k] = [work |-> @.work, lv |-> @.lv, version |-> version,
                               attempt |-> @.attempt, plan |-> plan,
                               phase |-> phase, next |-> next]]

\* An item claimed without a plan is reflected on and the plan is staged under
\* the lease; then the worker goes on with the version the staging returned.
StagePlan(k, plan, heard) ==
    LET w == job[k].work
    IN  /\ Working(k, "consolidate_memory", "claimed")
        /\ job[k].plan = None
        /\ items[w].plan = None
        /\ Fence(k)
        /\ items' = [items EXCEPT ![w] = Staged(@, plan)]
        /\ IF heard THEN Advance(k, plan, "staged", job[k].version + 1, 1)
           ELSE Settle(k, FALSE)
        /\ UNCHANGED <<sources, effects, refuted, vectors, stale, published>>

ReusePlan(k) ==
    /\ Working(k, "consolidate_memory", "claimed")
    /\ job[k].plan /= None
    /\ Advance(k, job[k].plan, "staged", job[k].version, 1)
    /\ UNCHANGED <<items, sources, effects, refuted, vectors, stale, published>>

\* Another agent changes, rejects or supersedes an observed memory.
InputsChange(w) ==
    /\ Kind[w] = "consolidate_memory"
    /\ items[w] /= Absent
    /\ stale' = stale \cup {w}
    /\ UNCHANGED <<items, sources, effects, refuted, vectors, published, job>>

\* apply: the inputs are compared with the snapshot once, before any action.
Revalidate(k) ==
    /\ Working(k, "consolidate_memory", "staged")
    /\ Advance(k, job[k].plan, IF job[k].work \in stale THEN "stale" ELSE "apply",
               job[k].version, 1)
    /\ UNCHANGED <<items, sources, effects, refuted, vectors, stale, published>>

\* One publish after another, each under its own idempotency key and not under
\* the lease; a repeated one is replayed.
PublishAction(k) ==
    LET w == job[k].work
    IN  /\ Working(k, "consolidate_memory", "apply")
        /\ job[k].next <= Actions
        /\ published' = [published EXCEPT ![w] =
                            IF \E p \in @ : p[1] = job[k].next THEN @
                            ELSE @ \cup {<<job[k].next, job[k].plan>>}]
        /\ Advance(k, job[k].plan, "apply", job[k].version, job[k].next + 1)
        /\ UNCHANGED <<items, sources, effects, refuted, vectors, stale>>

\* Mutated form: the completion does not wait for the last action.
CompleteEarly(k, heard) ==
    LET w == job[k].work
    IN  /\ job[k] /= NoJob
        /\ Kind[w] = "consolidate_memory" /\ job[k].phase \in {"apply", "stale"}
        /\ job[k].phase = "apply" => job[k].next >= Actions
        /\ items[w].plan /= None
        /\ Fence(k)
        /\ items' = [items EXCEPT ![w] =
                        Done(@, IF job[k].phase = "stale" THEN "stale_noop" ELSE "applied")]
        /\ Settle(k, heard)
        /\ UNCHANGED <<sources, effects, refuted, vectors, stale, published>>

\* complete_work requires the staged plan, which the outcome then replaces.
CompletePlan(k, heard) ==
    LET w == job[k].work
    IN  /\ job[k] /= NoJob
        /\ Kind[w] = "consolidate_memory" /\ job[k].phase \in {"apply", "stale"}
        /\ job[k].phase = "apply" => job[k].next > Actions
        /\ items[w].plan /= None
        /\ Fence(k)
        /\ items' = [items EXCEPT ![w] =
                        Done(@, IF job[k].phase = "stale" THEN "stale_noop" ELSE "applied")]
        /\ Settle(k, heard)
        /\ UNCHANGED <<sources, effects, refuted, vectors, stale, published>>

-----------------------------------------------------------------------------

\* Time passes for every lease and every retry delay.
Less(n) == IF n > 0 THEN n - 1 ELSE 0

Older(r) ==
    Row(r.status, r.attempts, Less(r.delay), r.worker, r.token, r.lv, Less(r.left),
        r.plan, r.outcome, r.version)

Tick ==
    /\ items' = [w \in Works |-> Older(items[w])]
    /\ items' /= items
    /\ UNCHANGED <<sources, effects, refuted, vectors, stale, published, job>>

-----------------------------------------------------------------------------

Extraction(k) ==
    \E found \in SUBSET Effects, heard \in BOOLEAN : ApplyExtraction(k, found, heard)

Embedding(k) == \E heard \in BOOLEAN : ApplyEmbedding(k, heard)

Artifact(k) == \E heard \in BOOLEAN : CompleteArtifact(k, heard)

Staging(k) == \E plan \in Plans, heard \in BOOLEAN : StagePlan(k, plan, heard)

Completion(k) == \E heard \in BOOLEAN : CompletePlan(k, heard)

Failing(k) == \E delay \in 0..RetryDelay, heard \in BOOLEAN : FailWork(k, delay, heard)

\* _process: what a worker does with the lease it holds.
Process(k) ==
    \/ Extraction(k) \/ Embedding(k) \/ Artifact(k)
    \/ Staging(k) \/ ReusePlan(k) \/ Revalidate(k) \/ PublishAction(k) \/ Completion(k)
    \/ Failing(k) \/ LeaseLost(k)

Claiming(k) == \E w \in Works : ClaimWork(k, w)

Next ==
    \/ \E w \in Works, trust \in {"unreviewed", "untrusted"} : IngestSource(w, trust)
    \/ \E w \in Works : EnqueueWork(w)
    \/ \E s \in Sources, state \in {"pending", "accepted"} : ReviewSource(s, state)
    \/ \E s \in Sources : RejectSource(s)
    \/ \E w \in Works : InputsChange(w)
    \/ \E k \in Workers : Claiming(k) \/ ClaimNothing(k) \/ Process(k) \/ Crash(k)
    \/ Tick

Spec == Init /\ [][Next]_vars

\* Every process polls: a claim is tried again and again, each try sweeps, and
\* SKIP LOCKED does not pass over a row forever.  A process that holds a lease
\* goes on with it, and time passes.  Nothing is promised about crashes.
Fairness ==
    /\ WF_vars(Tick)
    /\ \A k \in Workers : WF_vars(ClaimNothing(k)) /\ SF_vars(Claiming(k)) /\ WF_vars(Process(k))

FairSpec == Spec /\ Fairness

-----------------------------------------------------------------------------
(* Properties.                                                             *)

Rows ==
    [status : Statuses, attempts : 0..MaxAttempts, delay : 0..RetryDelay,
     worker : Ids \cup {None}, token : Nat \cup {None}, lv : Nat, left : 0..LeaseTime,
     plan : Plans \cup {None},
     outcome : Outcomes \cup {None},
     version : Nat]

Jobs ==
    [work : Works, lv : Nat, version : Nat, attempt : 1..MaxAttempts,
     plan : Plans \cup {None}, phase : {"claimed", "staged", "apply", "stale", "failing"},
     next : 1..(Actions + 1)]

\* The columns have their types; the attempts of an item stay within
\* max_attempts however its leases end, and a leased row names its holder
\* (outbox_work_items_attempts_check and _lease_check of schema.sql).
TypeOK ==
    /\ items \in [Works -> Rows]
    /\ \A w \in Works : items[w].status = "leased" => items[w].worker /= None
                                                      /\ items[w].token /= None
    /\ sources \in [Sources -> [state : {"absent", "pending", "accepted", "rejected"},
                                trust : {"unreviewed", "untrusted"}]]
    /\ effects \in [Works -> SUBSET Effects]
    /\ refuted \subseteq Works \X Effects
    /\ vectors \subseteq Works \X Effects
    /\ stale \subseteq Works
    /\ published \in [Works -> SUBSET ((1..Actions) \X Plans)]
    /\ job \in [Workers -> Jobs \cup {NoJob}]

\* _require_lease_row: at most one of the processes that ever claimed an item
\* can still settle it, even if they were started with the same worker id.
OneHolder ==
    \A k, l \in Workers :
        /\ job[k] /= NoJob /\ job[l] /= NoJob
        /\ job[k].work = job[l].work
        /\ Fence(k) /\ Fence(l)
        => k = l

\* reject_source against apply_extraction: no memory of a rejected source is
\* left standing, whichever of a claim, an apply in flight, a retry and the
\* rejection came first.
RejectionReaches ==
    \A w \in Works :
        /\ Kind[w] = "extract_source"
        /\ sources[SourceOf[w]].state = "rejected"
        => \A e \in effects[w] : <<w, e>> \in refuted

\* stage_consolidation_plan: every action published for an item is of one plan,
\* the staged one, although processes crash between two publications and a slow
\* process goes on publishing after it lost its lease.
PlanOnce ==
    \A w \in Works : \A p \in published[w] : p[2] = items[w].plan

\* complete_work after apply: an item is completed as applied only when every
\* action of its plan was published.
AppliedWhole ==
    \A w \in Works :
        items[w].outcome = "applied" => {p[1] : p \in published[w]} = 1..Actions

\* No process can claim an item whose source may not be used.
Barred(w) == Kind[w] = "extract_source" /\ ~ Usable(SourceOf[w])

\* claim_work, fail_work and the sweep: whatever crashes, is lost or is late,
\* every item that entered the queue is completed, failed or cancelled in the
\* end, unless its source bars it.
EveryItemSettles ==
    \A w \in Works :
        items[w].status \in Live ~> (items[w].status \in Settled \/ Barred(w))

\* "Make queue state agree with source policy" (reject_source): no extraction
\* of a rejected source is waiting or running.
RejectedQuiet ==
    \A w \in Works :
        /\ Kind[w] = "extract_source"
        /\ sources[SourceOf[w]].state = "rejected"
        => items[w].status \notin Live

\* "Any change ... turns the whole plan into stale_noop"
\* (docs/consolidation-runtime.md): an item completed as stale_noop published
\* nothing.
StalePublishesNothing ==
    \A w \in Works : items[w].outcome = "stale_noop" => published[w] = {}

=============================================================================
