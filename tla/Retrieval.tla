------------------------------ MODULE Retrieval ------------------------------
(***************************************************************************)
(* A recall, from MemoryService._recall through RetrievalService.execute:  *)
(* signal lanes read the store side by side, their ranks are fused, links  *)
(* are followed, candidates are read again canonically, a shared learned   *)
(* reranker may reorder them, and what fits the limit and the token budget *)
(* is returned, with one bit saying whether something was left out.  Or a  *)
(* read of given memories and what they link to (read_expand), which needs *)
(* neither lanes nor reranker.                                             *)
(*                                                                         *)
(* The store is the sequence of its committed states: which version of     *)
(* each memory this caller may recall, 0 for none.  The kernel fences a    *)
(* recall with its lock, CockroachDB with one snapshot on one connection.  *)
(* Text is abstracted to the raw score each lane gives a memory.           *)
(***************************************************************************)
EXTENDS RerankerClient, Integers, FiniteSetsExt, SequencesExt

CONSTANTS
    Memories,    \* the ids of the memories, ordered
    Raw,         \* lane -> memory -> raw score in 0..100, 0 for no match
    Coverage,    \* memory -> what its text alone says of its relevance
    Tokens,      \* memory -> size of its rendered hit
    Links,       \* the links: a set of <<source, target, relation>>
    ReadDepth,   \* how many links a read follows
    Floor,       \* query.min_score
    TokenBudget, \* what the planner gives a purpose that injects context
    SeedLimit,   \* how many fused candidates the graph lane starts from
    RerankWindow, \* policy.window
    MaxFetch,    \* the widest ANN scan
    Stored,      \* what may be recallable at the start
    Deployments, \* a server's store, packing and plan bounds, and what it is asked
    MaxChanges   \* bound: commits of other writers

VARIABLES
    cuts,       \* the committed states of the store
    kernelLock, \* the recall that holds the kernel's lock, or None
    deployment, \* the settings of this server, and what it is asked
    recs        \* recall -> where it is and what it has so far

vars == <<cuts, kernelLock, deployment, recs, clientVars, blame, spent>>

Lanes == DOMAIN Raw \* the primary lanes of the server

Graph == "graph"

Purpose(r) == deployment.asks[r].purpose

\* query.limit
Limit(r) == deployment.asks[r].limit

\* How many candidates a lane may return, and how many times as many rows the
\* approximate index is asked for at first.
LaneBudget == deployment.lanes
Overfetch == deployment.overfetch

\* The bounds of the graph lane.
MaxFanout == deployment.fanout
EdgeBudget == deployment.edges

\* What a read names; a recall names nothing.
ReadIds(r) == deployment.asks[r].ids

Reads(r) == Purpose(r) = "read"

\* The lanes the plan selects: temporal ones only for a query with a time.
Selected(r) ==
    IF Reads(r) THEN {Graph}
    ELSE {lane \in Lanes : lane = "temporal" => deployment.asks[r].timed} \union {Graph}

Gateways(r) == SelectSeq(<<"exact", "lexical", "fuzzy", "temporal", "dense", "graph">>,
                         LAMBDA lane : lane \in Selected(r))

Fenced == deployment.store = "kernel"

-----------------------------------------------------------------------------
(* The plan.                                                               *)

\* In quarters.
Configured(r) ==
    CASE Purpose(r) = "task_bootstrap" ->
            [exact |-> 24, lexical |-> 12, fuzzy |-> 4, dense |-> 12, temporal |-> 8, graph |-> 6]
      [] Purpose(r) = "historical_audit" ->
            [exact |-> 20, lexical |-> 16, fuzzy |-> 3, dense |-> 8, temporal |-> 16, graph |-> 5]
      [] OTHER ->
            [exact |-> 20, lexical |-> 12, fuzzy |-> 4, dense |-> 16, temporal |-> 8,
             graph |-> CASE Purpose(r) = "conflict_review" -> 10
                         [] Purpose(r) \in {"planning", "handoff_recovery"} -> 6
                         [] OTHER -> 2]

\* The text is an id, a digest or looks like code.
Literal(r) == deployment.asks[r].literal

\* Such a query is left to the exact and fuzzy lanes.
Weights(r) ==
    IF Literal(r) THEN [Configured(r) EXCEPT !.dense = 4, !.graph = Min({@, 5})] ELSE Configured(r)

Activating == {"task_bootstrap", "handoff_recovery", "planning", "conflict_review"}

Hops(r) == IF Reads(r) THEN ReadDepth ELSE IF Purpose(r) \in Activating THEN 2 ELSE 1

Budgeted(r) == Purpose(r) \in Activating

StrongestLane(r) == Max({Weights(r)[lane] : lane \in Selected(r)})

\* A read bounds its walk by what it names.
GraphBudget(r) ==
    IF Reads(r)
    THEN Max({1, Cardinality(ReadIds(r)) * MapThenSumSet(LAMBDA hop : MaxFanout ^ hop, 1 .. ReadDepth)})
    ELSE LaneBudget[Graph]

EdgeLimit(r) ==
    IF Reads(r) THEN Max({1, Cardinality(ReadIds(r)) * MaxFanout * ReadDepth * 8}) ELSE EdgeBudget

-----------------------------------------------------------------------------
(* Candidate lanes.                                                        *)

\* Highest score first; equal scores by id, which stands for the age too.
Ranked(ids, score) ==
    SetToSortSeq(ids, LAMBDA m, n : score[m] > score[n] \/ (score[m] = score[n] /\ m < n))

First(seq, n) == SubSeq(seq, 1, Min({n, Len(seq)}))

Members(seq) == {seq[i] : i \in DOMAIN seq}

Batch(ids, truncated) == [ids |-> ids, truncated |-> truncated, degraded |-> FALSE]

DegradedBatch == [ids |-> <<>>, truncated |-> FALSE, degraded |-> TRUE]

Recallable(cut) == {m \in Memories : cut[m] > 0}

\* The vector of a memory was computed for its first version: CockroachDB's
\* dense lane takes it only while the row is still that version.
Indexed(cut, m) == Fenced \/ cut[m] = 1

Matches(cut, lane) ==
    {m \in Recallable(cut) : Raw[lane][m] > 0 /\ (lane = "dense" => Indexed(cut, m))}

\* The approximate index knows every memory ever embedded.  Rows that are no
\* longer recallable are dropped after the scan, which is doubled while it
\* saturates and too few rows are left.
Scan(at, width) ==
    First(Ranked({m \in Memories : Raw["dense"][m] > 0 /\ \E i \in 1 .. at : cuts[i][m] > 0},
                 Raw["dense"]), width)

Validated(at, rows) == SelectSeq(rows, LAMBDA m : m \in Matches(cuts[at], "dense"))

Width(at) ==
    LET target == LaneBudget["dense"]
        widths == {Min({MaxFetch, target * Overfetch * 2 ^ k}) : k \in 0 .. MaxFetch}
    IN  Min({n \in widths : \/ Len(Validated(at, Scan(at, n))) >= target
                            \/ Len(Scan(at, n)) < n
                            \/ n = MaxFetch})

\* Mutated form: a scan that ended at its width says nothing.
ApproximateLaneQuiet(at) ==
    LET rows == Validated(at, Scan(at, Width(at)))
    IN  Batch(First(rows, LaneBudget["dense"]), Len(rows) > LaneBudget["dense"])

\* A lane says that it may have left candidates out.  Most of CockroachDB's and
\* the kernel's dense lane say so as soon as they are full, the others only of
\* a candidate too many, the approximate lane also of every saturated scan.
ApproximateLane(at) ==
    LET scan == Scan(at, Width(at))
        rows == Validated(at, scan)
    IN  Batch(First(rows, LaneBudget["dense"]),
              Len(scan) >= Width(at) \/ Len(rows) > LaneBudget["dense"])

FullLane(found, budget) == Batch(First(found, budget), Len(found) >= budget)

CountedLane(found, budget) == Batch(First(found, budget), Len(found) > budget)

Found(at, lane) == Ranked(Matches(cuts[at], lane), Raw[lane])

TemporalLane(at) == CountedLane(Found(at, "temporal"), LaneBudget["temporal"])

KernelLane(at, lane) ==
    IF lane = "dense" THEN FullLane(Found(at, lane), LaneBudget[lane])
    ELSE CountedLane(Found(at, lane), LaneBudget[lane])

CockroachLane(at, lane) ==
    CASE lane = "dense" -> ApproximateLane(at)
      [] lane = "temporal" -> TemporalLane(at)
      [] OTHER -> FullLane(Found(at, lane), LaneBudget[lane])

LaneRead(at, lane) == IF Fenced THEN KernelLane(at, lane) ELSE CockroachLane(at, lane)

-----------------------------------------------------------------------------
(* Weighted reciprocal rank fusion, in integers: all of 60 + rank divide   *)
(* Unit for the ranks that occur.                                          *)

RRF_K == 60
Unit == FoldSet(LAMBDA k, product : (RRF_K + k) * product, 1, 1 .. Cardinality(Memories))

LanesOf(batches, m) == {lane \in DOMAIN batches : m \in Members(batches[lane].ids)}

RankIn(batch, m) == CHOOSE i \in DOMAIN batch.ids : batch.ids[i] = m

RawRRF(r, batches, m) ==
    MapThenSumSet(LAMBDA lane : Weights(r)[lane] * (Unit \div (RRF_K + RankIn(batches[lane], m))),
                  LanesOf(batches, m))

\* The public score, in percent of a first rank in the strongest lane.
Normalized(r, batches, m) ==
    Min({100, (RawRRF(r, batches, m) * 100) \div (StrongestLane(r) * (Unit \div (RRF_K + 1)))})

Fused(r, batches) ==
    Ranked({m \in Memories : LanesOf(batches, m) /= {}}, [m \in Memories |-> RawRRF(r, batches, m)])

-----------------------------------------------------------------------------
(* Spreading activation over the links between recallable memories.        *)

\* Weights in percent; other relations are never followed.
RelationWeight ==
    [supports |-> 100, supersedes |-> 98, derived_from |-> 92, merged_from |-> 90,
     contradicts |-> 88, duplicate_of |-> 82, related_to |-> 75]

Symmetric == {"contradicts", "duplicate_of", "related_to"}

\* How much of the query a memory's text has in it, damped, in percent.
Gate(m) == 60 + (2 * Coverage[m]) \div 5

\* What is left of an activation behind an edge.
Step(activation, e) ==
    LET direction == IF e.back /\ e.relation \notin Symmetric THEN 95 ELSE 100
        weight == (RelationWeight[e.relation] * direction) \div 100
    IN  (((activation * weight * 85) \div 10000) * Gate(e.to)) \div 100

Neighbours(m) ==
    {[to |-> l[2], relation |-> l[3], back |-> FALSE] : l \in {k \in Links : k[1] = m}}
        \union {[to |-> l[1], relation |-> l[3], back |-> TRUE] : l \in {k \in Links : k[2] = m}}

ScanCap == Max({MaxFanout + 1, MaxFanout * 4})

\* Nothing is reached twice on one path, nor what may not be recalled.
Open(cut, walk, m, e) == cut[e.to] > 0 /\ e.to \notin walk.path[m]

\* The kernel scans only edges that lead on, CockroachDB drops the others later.
Incident(cut, walk, m) == {e \in Neighbours(m) : Fenced => Open(cut, walk, m, e)}

BestEdges(edges, n) ==
    LET Weight(e) == RelationWeight[e.relation]
    IN  First(SetToSortSeq(edges, LAMBDA a, b : \/ Weight(a) > Weight(b)
                                                \/ Weight(a) = Weight(b) /\ a.to < b.to), n)

\* One edge to each neighbour.
Distinct(edges) ==
    FoldLeft(LAMBDA kept, e : IF \E d \in Members(kept) : d.to = e.to THEN kept ELSE Append(kept, e),
             <<>>, edges)

\* A state of the frontier offers its best neighbours its activation, decayed.
Offer(cut, r, walk, acc, m) ==
    LET cap == Min({ScanCap, EdgeLimit(r) - acc.examined})
        incident == Incident(cut, walk, m)
        looked == BestEdges(incident, cap)
        open == Distinct(SelectSeq(looked, LAMBDA e : Open(cut, walk, m, e)))
        Gain(e) == Step(walk.activation[m], e)
        better == {e \in Members(First(open, MaxFanout)) : Gain(e) > acc.activation[e.to]}
        reached == {e.to : e \in better}
    IN  [examined |-> acc.examined + Len(looked),
         truncated |-> \/ acc.truncated \/ Len(open) > MaxFanout
                       \/ IF Fenced THEN Cardinality(incident) > Len(looked) ELSE Len(looked) >= cap,
         activation |-> [n \in Memories |-> IF n \in reached THEN Gain(CHOOSE e \in better : e.to = n)
                                            ELSE acc.activation[n]],
         path |-> [n \in Memories |-> IF n \in reached THEN walk.path[m] \union {n} ELSE acc.path[n]],
         next |-> acc.next \union reached]

\* One hop: the frontier, strongest first, while edges may still be examined.
Hop(cut, r, walk) ==
    LET Take(acc, m) == IF acc.examined >= EdgeLimit(r) THEN [acc EXCEPT !.truncated = TRUE]
                         ELSE Offer(cut, r, walk, acc, m)
        after == FoldLeft(Take, [walk EXCEPT !.next = {}],
                          Ranked(walk.next, walk.activation))
    IN  [after EXCEPT !.truncated = @ \/ (Fenced /\ after.next /= {} /\ after.examined >= EdgeLimit(r))]

\* Memories that were named come before what the lanes found.
Seeds(r, batches) ==
    First(SetToSortSeq(ReadIds(r), <) \o SelectSeq(Fused(r, batches), LAMBDA m : m \notin ReadIds(r)),
          Max({SeedLimit, Cardinality(ReadIds(r))}))

\* The frontier before the first hop: the seeds that are recallable.
Start(cut, r, batches) ==
    LET seeds == {m \in Members(Seeds(r, batches)) : cut[m] > 0}
        Strength(m) == IF m \in ReadIds(r) THEN 100 ELSE Normalized(r, batches, m)
    IN  [examined |-> 0, truncated |-> FALSE, next |-> seeds,
         activation |-> [m \in Memories |-> IF m \in seeds THEN Strength(m) ELSE 0],
         path |-> [m \in Memories |-> {m}]]

Walked(cut, r, batches) ==
    FoldLeft(LAMBDA walk, hop : Hop(cut, r, walk), Start(cut, r, batches), [hop \in 1 .. Hops(r) |-> hop])

\* What was reached from the seeds, strongest first.
Reached(walk, seeds) ==
    Ranked({m \in Memories \ seeds : walk.activation[m] > 0}, walk.activation)

Expanded(cut, r, batches) ==
    LET walk == Walked(cut, r, batches)
        ordered == Reached(walk, Members(Seeds(r, batches)))
    IN  Batch(First(ordered, GraphBudget(r)), walk.truncated \/ Len(ordered) > GraphBudget(r))

-----------------------------------------------------------------------------
(* What is returned of the fused and canonically read candidates.          *)

\* The exact lane's word is final; otherwise the best of text and vector.
Relevance(lanes, m) ==
    IF "exact" \in lanes THEN 100
    ELSE Max({Coverage[m]} \union (IF "dense" \in lanes THEN {Raw["dense"][m]} ELSE {}))

\* With a token budget more candidates are looked at than may be returned.
CandidateLimit(r) == IF Budgeted(r) THEN 4 * Limit(r) ELSE Limit(r)

Overflowed(ranked, r) == Len(ranked) > CandidateLimit(r)

Fits(ids) == FoldLeft(LAMBDA used, m : used + Tokens[m], 0, ids) <= TokenBudget

Keep(seq, set) == SelectSeq(seq, LAMBDA m : m \in set)

Greedy(candidates) ==
    FoldLeft(LAMBDA kept, m : IF Fits(Append(kept, m)) THEN Append(kept, m) ELSE kept,
             <<>>, candidates)

\* Greedy skips what does not fit, prefix stops there; facility location ends
\* with some selection nothing can be added to, returned in bundle order.
Packings(candidates, limit) ==
    CASE deployment.packing = "greedy" ->
            {Greedy(candidates)}
      [] deployment.packing = "prefix" ->
            {First(candidates, Max({n \in 0 .. Len(candidates) : Fits(First(candidates, n))}))}
      [] deployment.packing = "facility_location" ->
            {Keep(candidates, kept) : kept \in
                {s \in SUBSET Members(candidates) :
                    /\ Cardinality(s) <= limit /\ Fits(Keep(candidates, s))
                    /\ \A m \in Members(candidates) \ s :
                          Cardinality(s) < limit => ~Fits(Keep(candidates, s \union {m}))}}

\* The learned scores permute the scored candidates of the window among their
\* own slots; nothing else moves.
Reordered(ranked, scored) ==
    {p \in [DOMAIN ranked -> Members(ranked)] :
        /\ Range(p) = Members(ranked)
        /\ \A i \in DOMAIN ranked : i > RerankWindow \/ ranked[i] \notin scored => p[i] = ranked[i]}

-----------------------------------------------------------------------------
(* The state of one recall.                                                *)

NoBatch == [lane \in {} |-> DegradedBatch]

Idle == [stage |-> "idle", at |-> 0, dense |-> TRUE, batches |-> NoBatch, broken |-> FALSE,
         ranked |-> <<>>, found |-> {}, hits |-> {}, truncated |-> FALSE, degraded |-> {}]

Init ==
    /\ cuts \in {<<[m \in Memories |-> IF m \in live THEN 1 ELSE 0]>> : live \in Stored}
    /\ kernelLock = None
    /\ deployment \in Deployments
    /\ recs = [r \in Recalls |-> Idle]
    /\ ClientInit

\* Mutated form: every read of a recall sees what is committed by then.
ReadsLatest(r) == Len(cuts)

\* Lanes, links and hydration of one recall read the same committed state.
ReadsAt(r) == recs[r].at

View(r) == cuts[ReadsAt(r)]

\* Mutated form: the lanes run in the transaction itself.
AbortedTransaction(broken) == ~Fenced

\* Each lane runs behind a savepoint of the shared connection, so that its
\* failure leaves the transaction usable.
AfterLaneFailure(broken) == broken

\* Mutated form: the reuse is counted before the snapshot closes.
FreedAfterReuse(r) == UNCHANGED kernelLock

Freed(r) == kernelLock' = IF kernelLock = r THEN None ELSE kernelLock

Raise(r) ==
    /\ recs' = [recs EXCEPT ![r] = [Idle EXCEPT !.stage = "raised"]]
    /\ Freed(r)

-----------------------------------------------------------------------------
(* The steps of a recall.                                                  *)

\* The query is embedded before the snapshot opens; without a vector the
\* dense lane will be degraded.
Ask(r) ==
    /\ recs[r].stage = "idle"
    /\ \/ recs' = [recs EXCEPT ![r].stage = "opening"] /\ UNCHANGED <<blame, spent>>
       \/ /\ ~Reads(r) /\ Faulty /\ Blame(r, "dense")
          /\ recs' = [recs EXCEPT ![r].stage = "opening", ![r].dense = FALSE]
    /\ UNCHANGED <<cuts, kernelLock, deployment, clientVars>>

\* The kernel's lock, or a transaction whose clock fixes what it reads.
OpenSnapshot(r) ==
    /\ recs[r].stage = "opening"
    /\ Fenced => kernelLock = None
    /\ kernelLock' = IF Fenced THEN r ELSE kernelLock
    /\ recs' = [recs EXCEPT ![r].stage = "lanes", ![r].at = Len(cuts)]
    /\ UNCHANGED <<cuts, deployment, clientVars, blame, spent>>

\* The lanes are gathered; one connection, or the kernel's own lock, runs them
\* in the order of the gateways.  The graph lane starts from what they found.
Pending(r, lane) ==
    /\ recs[r].stage = "lanes"
    /\ \E i \in DOMAIN Gateways(r) :
         /\ Gateways(r)[i] = lane
         /\ DOMAIN recs[r].batches = {Gateways(r)[k] : k \in 1 .. i - 1}

CannotRead(r, lane) == recs[r].broken \/ (lane = "dense" /\ ~recs[r].dense)

ReadLane(r, lane) ==
    /\ Pending(r, lane)
    /\ LET batch == IF CannotRead(r, lane) THEN DegradedBatch
                    ELSE IF lane = Graph THEN Expanded(View(r), r, recs[r].batches)
                    ELSE LaneRead(ReadsAt(r), lane)
       IN  recs' = [recs EXCEPT ![r].batches = @ @@ (lane :> batch)]
    /\ UNCHANGED <<cuts, kernelLock, deployment, clientVars, blame, spent>>

\* A lane that raises leaves an empty, degraded batch behind.
LaneFails(r, lane) ==
    /\ Pending(r, lane) /\ ~CannotRead(r, lane)
    /\ Faulty /\ Blame(r, lane)
    /\ recs' = [recs EXCEPT ![r].batches = @ @@ (lane :> DegradedBatch),
                            ![r].broken = AfterLaneFailure(@)]
    /\ UNCHANGED <<cuts, kernelLock, deployment, clientVars>>

LoseConnection(r) ==
    /\ recs[r].stage = "lanes" /\ ~Fenced /\ ~recs[r].broken
    /\ Faulty /\ Blame(r, "connection")
    /\ recs' = [recs EXCEPT ![r].broken = TRUE]
    /\ UNCHANGED <<cuts, kernelLock, deployment, clientVars>>

\* What a read named and reached is read canonically and packed.
AnswerRead(r) ==
    /\ recs[r].stage = "lanes" /\ Reads(r) /\ Graph \in DOMAIN recs[r].batches
    /\ LET batch == recs[r].batches[Graph]
           ordered == SetToSortSeq(ReadIds(r), <) \o SelectSeq(batch.ids, LAMBDA m : m \notin ReadIds(r))
           found == SelectSeq(ordered, LAMBDA m : m \in Recallable(View(r)))
           kept == Greedy(found)
       IN  IF recs[r].broken THEN Raise(r)
           ELSE /\ recs' = [recs EXCEPT ![r] =
                      [Idle EXCEPT !.stage = "answered", !.at = recs[r].at,
                                   !.hits = {<<m, View(r)[m]>> : m \in Members(kept)},
                                   !.truncated = batch.degraded \/ batch.truncated \/ kept /= found]]
                /\ Freed(r)
    /\ UNCHANGED <<cuts, deployment, clientVars, blame, spent>>

\* The fused candidates are read again under every recall predicate; those
\* that passed are put to the reranker, inside the same snapshot.
Hydrate(r) ==
    /\ recs[r].stage = "lanes" /\ ~Reads(r) /\ Graph \in DOMAIN recs[r].batches
    /\ IF recs[r].broken
       THEN Raise(r) /\ UNCHANGED calls
       ELSE LET ranked == Fused(r, recs[r].batches)
                found == {<<m, View(r)[m]>> : m \in Members(ranked) \intersect Recallable(View(r))}
                asked == {h[1] : h \in found} \intersect Members(First(ranked, RerankWindow))
            IN  /\ recs' = [recs EXCEPT ![r].stage = "rerank", ![r].ranked = ranked,
                                        ![r].found = found]
                /\ calls' = IF asked = {} THEN calls ELSE [calls EXCEPT ![r] = Waiting]
                /\ UNCHANGED kernelLock
    /\ UNCHANGED <<cuts, deployment, lock, process, seen, issued, closed, strays, blame, spent>>

Scored(r) ==
    {h[1] : h \in recs[r].found} \intersect Members(First(recs[r].ranked, RerankWindow))

\* Scores reorder the window, any failure leaves the fused order as it was.
Orders(r) ==
    IF calls[r].stage = "scored" THEN Reordered(recs[r].ranked, Scored(r)) ELSE {recs[r].ranked}

Eligible(r, order) ==
    SelectSeq(order, LAMBDA m : /\ m \in {h[1] : h \in recs[r].found}
                                /\ Relevance(LanesOf(recs[r].batches, m), m) >= Floor)

\* The walk, the packing and the bundle; the snapshot closes behind it.
Answer(r) ==
    /\ recs[r].stage = "rerank" /\ calls[r].stage \in {"none", "scored", "failed"}
    /\ \E order \in Orders(r) :
         LET eligible == Eligible(r, order)
             candidates == First(eligible, CandidateLimit(r))
             batches == recs[r].batches
         IN  \E packed \in IF Budgeted(r) THEN Packings(candidates, Limit(r)) ELSE {candidates} :
               LET kept == First(packed, Limit(r))
               IN  recs' = [recs EXCEPT ![r] =
                       [Idle EXCEPT
                          !.stage = "reuse", !.at = recs[r].at,
                          !.hits = {h \in recs[r].found : h[1] \in Members(kept)},
                          !.truncated = \/ Overflowed(eligible, r) \/ Len(kept) < Len(candidates)
                                        \/ \E lane \in DOMAIN batches : batches[lane].truncated,
                          !.degraded = {lane \in DOMAIN batches : batches[lane].degraded}]]
    /\ Freed(r)
    /\ UNCHANGED <<cuts, deployment, clientVars, blame, spent>>

\* The reuse of the hits is counted afterwards, in the kernel under its lock.
MayRecordReuse(r) == Fenced => kernelLock = None

RecordReuse(r) ==
    /\ recs[r].stage = "reuse" /\ MayRecordReuse(r)
    /\ recs' = [recs EXCEPT ![r].stage = "answered"]
    /\ UNCHANGED <<cuts, kernelLock, deployment, clientVars, blame, spent>>

\* The caller goes away: gather, snapshot and reranker are all left by the
\* same exception.
CancelRecall(r) ==
    /\ recs[r].stage \in {"opening", "lanes", "rerank"}
    /\ Faulty /\ Blame(r, "cancelled")
    /\ Raise(r)
    /\ CancelCall(r)
    /\ UNCHANGED <<cuts, deployment>>

\* Another caller's transaction commits: a memory becomes recallable, changes
\* or ceases to be recallable.
Commit(m, version) ==
    /\ Len(cuts) <= MaxChanges
    /\ Fenced => kernelLock = None
    /\ LET last == cuts[Len(cuts)]
       IN  /\ \/ version = 0 /\ last[m] > 0
              \/ version = last[m] + 1 /\ (last[m] > 0 \/ \A i \in DOMAIN cuts : cuts[i][m] = 0)
           /\ cuts' = Append(cuts, [last EXCEPT ![m] = version])
    /\ UNCHANGED <<kernelLock, deployment, recs, clientVars, blame, spent>>

RecallStep(r) ==
    \/ OpenSnapshot(r) \/ Hydrate(r) \/ Answer(r) \/ RecordReuse(r) \/ AnswerRead(r)
    \/ \E lane \in Lanes \union {Graph} : ReadLane(r, lane)

Next ==
    \/ \E r \in Recalls :
         \/ Ask(r) \/ RecallStep(r) \/ LoseConnection(r) \/ CancelRecall(r)
         \/ \E lane \in Lanes \union {Graph} : LaneFails(r, lane)
    \/ ClientNext /\ UNCHANGED <<cuts, kernelLock, deployment, recs>>
    \/ \E m \in Memories, version \in 0 .. MaxChanges + 1 : Commit(m, version)

Spec == Init /\ [][Next]_vars

\* Whether a step of the recall is enabled.
MayStep(r) ==
    \/ recs[r].stage = "opening" /\ (Fenced => kernelLock = None)
    \/ recs[r].stage = "lanes"
    \/ recs[r].stage = "rerank" /\ calls[r].stage \in {"none", "scored", "failed"}
    \/ recs[r].stage = "reuse" /\ MayRecordReuse(r)

\* A started recall goes on (weak fairness, its ENABLED written out as MayStep)
\* and the timer of a rerank call fires; callers, other writers and the
\* provider owe nothing.
FairSpec ==
    /\ Spec
    /\ \A r \in Recalls :
         /\ []<>~MayStep(r) \/ []<><<RecallStep(r)>>_vars
         /\ WF_vars(TimesOut(r) /\ UNCHANGED <<cuts, kernelLock, deployment, recs>>)

-----------------------------------------------------------------------------
(* Properties.                                                             *)

Answered == {r \in Recalls : recs[r].stage \in {"reuse", "answered"}}

\* What some lane matches in a committed state and its text or vector carries
\* over the caller's floor, or what a read named.
Wanted(cut, r) ==
    {m \in Recallable(cut) :
        LET lanes == {lane \in Selected(r) \ {Graph} : m \in Matches(cut, lane)}
        IN  m \in ReadIds(r) \/ (lanes /= {} /\ Relevance(lanes, m) >= Floor)}

\* An answer is the answer of one instant, the one it is dated with: its hits
\* were recallable together in the versions shown (RetrievalService.execute
\* reads lanes, links and memories at different moments).
AnswersOneCut ==
    \A r \in Answered : \A h \in recs[r].hits : cuts[recs[r].at][h[1]] = h[2]

\* An answer that neither says it is truncated nor has a degraded lane is
\* complete: it has all that was wanted then.  Candidates are dropped by the
\* index scan, the budget of each lane, the fused window, the floor, the packing
\* and the limit, each of which has to tell (execute, retrieval.py:929).
LossTold ==
    \A r \in Answered :
        ~recs[r].truncated /\ recs[r].degraded = {} =>
            Wanted(cuts[recs[r].at], r) \subseteq {h[1] : h \in recs[r].hits}

\* A lane is degraded or a recall raised only for a failure of that very lane or
\* recall or of its connection, although the lanes share a transaction and the
\* recalls a reranker that may fail.
FailuresStayPut ==
    \A r \in Recalls :
        /\ \A lane \in recs[r].degraded : blame[r] \intersect {lane, "connection"} /= {}
        /\ recs[r].stage = "raised" => blame[r] \intersect {"connection", "cancelled"} /= {}

\* A wrong line of the shared reranker costs one rerank: the exchange that reads
\* it stops the process and with it whatever its pipe still holds, so that
\* requests and answers are in step again (rerank, local_jsonl.py:166).
OneLostPerStray ==
    Cardinality({r \in Recalls : calls[r].stage = "failed" /\ blame[r] \intersect OwnFailures = {}})
        <= strays

\* Every recall that was asked for returns or raises, whatever the provider
\* does and although it holds the kernel's lock meanwhile (_recall opens the
\* snapshot around execute and counts the reuse after it).
RecallReturns ==
    \A r \in Recalls : recs[r].stage = "opening" ~> recs[r].stage \in {"answered", "raised"}

\* "Provider calls stay outside the CockroachDB read transaction"
\* (application/memory_service.py:180).  True of the query embedding; the code
\* calls the reranker before the snapshot closes.
ProviderOutsideSnapshot ==
    \A r \in Recalls : calls[r].stage \in {"waiting", "exchange"} => recs[r].stage \notin {"lanes", "rerank"}
=============================================================================
