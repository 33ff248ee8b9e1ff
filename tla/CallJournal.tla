----------------------------- MODULE CallJournal -----------------------------
(***************************************************************************)
(* The durable journal of paid provider calls that the LongMemEval E6      *)
(* family of runners shares                                                *)
(* (scripts/run_longmemeval_e6b_head20_external.py, whose functions the    *)
(* E6c runners call as their carrier; run_longmemeval_e6_external.py holds *)
(* the same code).                                                         *)
(*                                                                         *)
(* Every call has a route.  A route's rows are written once each and in    *)
(* this order, each fsynced with its directory: the worst-case             *)
(* reservation before the call, the raw bytes of the first 2xx response    *)
(* before anything is parsed, the attempt ledger or receipt of the domain, *)
(* the settlement.  A process keeps its spend ledger in memory and builds  *)
(* it again from the journal when it starts.                               *)
(***************************************************************************)
EXTENDS Integers, Sequences, FiniteSets, FiniteSetsExt

CONSTANTS
    Questions,     \* 1..n: the frozen cohort, in run order
    Sources,       \* the number of source values of each question
    MaxAttempts,   \* DEEPSEEK_MAXIMUM_APPLICATION_ATTEMPTS
    QARoutes,      \* 1..k: reader and judge of each arm, in the frozen order of a question
    Concurrency,   \* EXTRACTION_CONCURRENCY, the semaphore of the extraction
    HttpAttempts,  \* DEEPSEEK_MAXIMUM_HTTP_ATTEMPTS, QA_HTTP_ATTEMPTS: POSTs of one client call
    Reserve,       \* the worst-case cost of a call, every POST priced
    Actual,        \* what a replayable response settles at, the retries it took included
    Cap,           \* MAX_EXTERNAL_COST_MICROUSD
    None           \* an absent file

ASSUME CohortAssumption ==
    /\ IsFiniteSet(Questions) /\ IsFiniteSet(QARoutes)
    /\ Questions = 1..Cardinality(Questions) /\ Questions /= {}
    /\ Sources \in [Questions -> Nat \ {0}]
    /\ QARoutes = 1..Cardinality(QARoutes) /\ QARoutes /= {}

ASSUME CostAssumption ==
    /\ {MaxAttempts, Concurrency, HttpAttempts, Reserve, Cap} \subseteq Nat \ {0}
    /\ Actual \in 0..Reserve

VARIABLES
    journal,    \* external-call-journal/: the rows of each route
    attempts,   \* extraction-values/*.attempts.jsonl: the outcomes of each value, in order
    final,      \* the values whose final evidence record exists
    receipts,   \* qa-receipts/: the number of receipts of each question
    calls,      \* history: the client calls made for each route, over all processes
    tries,      \* the POSTs so far of the client call of each route that is under way
    process     \* the memory of the one process that holds the output lock: spent and held are
                \* its _SpendLedger

journalVars == <<journal, attempts, final, receipts>>

-----------------------------------------------------------------------------
(* The routes.                                                             *)

Values == {v \in Questions \X (1..Max({Sources[q] : q \in Questions})) : v[2] <= Sources[v[1]]}

ValuesOf(q) == {v \in Values : v[1] = q}

ExtractionRoute(v, n) == <<"extraction", v, n>>

ExtractionRoutes == {ExtractionRoute(v, n) : v \in Values, n \in 1..MaxAttempts}

QARoute(q, k) == <<"qa", q, k>>

Routes == ExtractionRoutes \cup {QARoute(q, k) : q \in Questions, k \in QARoutes}

(* A 2xx answer is a malformed envelope, an output the schema refuses (an extraction then  *)
(* makes another application attempt, a reader or judge answer is final), or accepted.     *)
Answers == {"malformed", "refused", "accepted"}

JournalRow == [reserved : BOOLEAN, response : Answers \cup {None}, settled : BOOLEAN]

NoRow == [reserved |-> FALSE, response |-> None, settled |-> FALSE]

WithReservation(j, r) == [j EXCEPT ![r].reserved = TRUE]

WithResponse(j, r, a) == [j EXCEPT ![r].response = a]

WithSettlement(j, rs) == [r \in Routes |-> IF r \in rs THEN [j[r] EXCEPT !.settled = TRUE] ELSE j[r]]

Untouched(r) == journal[r] = NoRow

(* _replay_call_response: the retained bytes still decode to the same result. *)
Replays(r) == journal[r].response \in {"refused", "accepted"}

-----------------------------------------------------------------------------
(* What the journal costs.                                                 *)

RouteCost(j, r) == IF ~j[r].reserved THEN 0
                   ELSE IF j[r].settled THEN Actual ELSE Reserve

\* What a function from routes to costs adds up to.
Total(cost) == MapThenSumSet(LAMBDA r : cost[r], DOMAIN cost)

JournalCost == Total([r \in Routes |-> RouteCost(journal, r)])

Unresolved == {r \in Routes : journal[r].reserved /\ ~journal[r].settled}

Overspent == JournalCost > Cap

(* _SpendLedger.reserve *)
Affordable == process.spent + process.held + Reserve <= Cap

-----------------------------------------------------------------------------
(* Reconciliation of the extraction, value by value.                       *)

Reserved(v) == {n \in 1..MaxAttempts : journal[ExtractionRoute(v, n)].reserved}

(* A reservation without a replayable response stops the run: it is never sent again.      *)
(* The other refusals are of journals no run of this code can leave behind.                *)
Irreconcilable(v) ==
    \/ \E n \in Reserved(v) : ~Replays(ExtractionRoute(v, n))
    \/ \E n \in 1..Len(attempts[v]) : n \notin Reserved(v)
    \/ \E n, m \in Reserved(v) : n < m /\ journal[ExtractionRoute(v, n)].response = "accepted"

Replayed(v) == [n \in 1..Cardinality(Reserved(v)) |-> journal[ExtractionRoute(v, n)].response]

Accepted(s) == \E n \in DOMAIN s : s[n] = "accepted"

ReconcileValue(v) ==
    /\ attempts' = [attempts EXCEPT ![v] = Replayed(v)]
    /\ journal' = WithSettlement(journal, {ExtractionRoute(v, n) : n \in Reserved(v)})
    /\ final' = IF Accepted(Replayed(v)) THEN final \cup {v} ELSE final
    /\ UNCHANGED receipts

-----------------------------------------------------------------------------
(* Reconciliation of the reader and judge calls, question by question.     *)

QAReserved(q) == {k \in QARoutes : journal[QARoute(q, k)].reserved}

(* The first route of the question that stops the reconciliation, if any.  *)
QAStops(q) ==
    {k \in QARoutes :
        \/ k \in QAReserved(q) /\ journal[QARoute(q, k)].response /= "accepted"
        \/ k \in QAReserved(q) /\ k > Cardinality({i \in QAReserved(q) : i < k}) + 1
        \/ k \notin QAReserved(q) /\ k <= receipts[q]}

(* Every route before the stop is settled and has its receipt; a response that replays but *)
(* fails validation is settled first and refused afterwards.                               *)
ReconcileQA(q) ==
    LET reached == {k \in QAReserved(q) : \A s \in QAStops(q) : k < s}
        last    == {k \in QAReserved(q) : /\ QAStops(q) /= {} /\ k = Min(QAStops(q))
                                          /\ journal[QARoute(q, k)].response = "refused"}
    IN  /\ journal' = WithSettlement(journal, {QARoute(q, k) : k \in reached \cup last})
        /\ receipts' = [receipts EXCEPT ![q] = Max({@} \cup reached)]
        /\ UNCHANGED <<attempts, final>>

QAState == \E q \in Questions : receipts[q] > 0 \/ QAReserved(q) /= {}

-----------------------------------------------------------------------------
(* What a report or an audit requires of the journal.                      *)

(* _validate_expected_journal_bindings: the routes of the journal are exactly those of the *)
(* evidence, and each is settled.                                                          *)
ExtractionBound(selected) ==
    {r \in ExtractionRoutes : journal[r].reserved}
        = {r \in ExtractionRoutes : r[2][1] \in selected /\ r[3] <= Len(attempts[r[2]])}

QABound ==
    {r \in Routes \ ExtractionRoutes : journal[r].reserved}
        = {r \in Routes \ ExtractionRoutes : r[3] <= receipts[r[2]]}

=============================================================================
