------------------------- MODULE ExternalRunProofs -------------------------
(* The journal of paid calls and the four E6 runners, for every cohort, every    *)
(* budget and any number of crashes: no route gets two client calls, no reader or *)
(* judge is asked before its gates, no verdict goes beyond its evidence, and what *)
(* the provider may bill stays within the cap.                                   *)
EXTENDS ExternalRun, FiniteSetTheorems, SequenceTheorems, TLAPS

-----------------------------------------------------------------------------
(* The inductive invariant.                                                *)

\* What was sent was reserved first, and by one client call.
JournalOK ==
    /\ journal \in [Routes -> JournalRow]
    /\ calls \in [Routes -> 0..1]
    /\ \A r \in Routes : calls[r] = 1 => journal[r].reserved

AttemptsOK ==
    /\ attempts \in [Values -> Seq(Answers \cup {None})]
    /\ \A v \in Values : Len(attempts[v]) <= MaxAttempts

\* A receipt stands for a settled answer that was accepted.
ReceiptsOK ==
    /\ receipts \in [Questions -> 0..Cardinality(QARoutes)]
    /\ \A q \in Questions, k \in QARoutes : k <= receipts[q] =>
          /\ journal[QARoute(q, k)].settled
          /\ journal[QARoute(q, k)].response = "accepted"

\* Each kind of artifact was made from the one before it.
EvidenceOK ==
    /\ artifacts \in [Kinds -> SUBSET Questions]
    /\ \A kind \in Kinds \ {"qa"} : artifacts[kind] \subseteq artifacts["summary"]
    /\ \A q \in artifacts["summary"] : ValuesOf(q) \subseteq final
    /\ \A q \in QAArtifacts : receipts[q] = Cardinality(QARoutes)

\* What the verdict of a report says of the run directory.
ReportOK ==
    /\ report \in Verdicts \cup {None}
    /\ report /= None => Questions \subseteq artifacts["summary"]
    /\ report \in {"pass", "reject-qa"} => QAComplete
    /\ report = "reject-context" => ~gates.context
    /\ report = "incomplete" => runner = "E6c"

\* The shape of the memory of a process.
Shaped ==
    /\ process = [phases |-> process.phases, limited |-> process.limited, step |-> process.step,
                  todo |-> process.todo, call |-> process.call, task |-> process.task,
                  spent |-> process.spent, held |-> process.held]
    /\ process.phases \in Seq(Phases) /\ process.limited \in BOOLEAN
    /\ process.task \in [Values -> TaskStates]

\* Where a process is, and what it has still to do there.
Staged ==
    /\ process.step \in {"begin", "reconcile", "run", "values", "half", "compile"}
    /\ process.step = "values" => In("extract", "values") /\ process.todo /= {}
    /\ process.step \in {"run", "values"} \/ In("qa", "reconcile") => process.todo \subseteq Questions
    /\ process.step = "half" => process.todo \subseteq artifacts["prompts"]
    /\ process.call /= "none" => In("qa", "run")
    /\ process.step /= "values" => \A v \in Values : process.task[v] = "idle"

\* A value whose call is reserved has not been sent; one that is done has its record.
TaskOK(v) ==
    /\ process.task[v] \in {"reserved", "sent", "answered"} => Len(attempts[v]) < MaxAttempts
    /\ process.task[v] = "reserved" => journal[NextRoute(v)].reserved /\ calls[NextRoute(v)] = 0
    /\ process.task[v] = "done" => v \in final

\* The same of the reader or judge call under way.
AskOK ==
    process.call /= "none" =>
        /\ process.todo /= {} /\ Asked \notin QAArtifacts
        /\ receipts[Asked] < Cardinality(QARoutes)
        /\ process.call = "reserved" =>
              journal[CurrentRoute].reserved /\ calls[CurrentRoute] = 0
        /\ process.call = "settled" => journal[CurrentRoute].settled

\* A limited run neither asks nor reports; E6b works on the whole cohort after its audit only.
Scoped ==
    Alive =>
        /\ process.limited =>
              ~Merged /\ \A i \in DOMAIN process.phases : process.phases[i] \notin {"qa", "report"}
        /\ runner = "E6b" /\ ~process.limited => AuditHolds

\* What has to stand before a reader or judge is asked.
Grounded ==
    /\ gates.context
    /\ Questions \subseteq Paired
    /\ runner = "E6b" => AuditHolds
    /\ runner = "E6cV2" => PreQAHolds

\* Every trace of a reader or judge call, and a process past the start of the phase.
QATrace == QAState \/ QAArtifacts /= {} \/ "completion" \in files

Gated == QATrace \/ (Alive /\ Phase = "qa" /\ process.step /= "begin") => Grounded

ProcessOK == Shaped /\ Staged /\ (\A v \in Values : TaskOK(v)) /\ AskOK /\ Scoped

WorldOK ==
    /\ JournalOK /\ AttemptsOK /\ ReceiptsOK /\ EvidenceOK /\ ReportOK
    /\ runner \in {"E6", "E6b", "E6c", "E6cV2"}

RunInv == WorldOK /\ ProcessOK /\ Gated

-----------------------------------------------------------------------------
(* Smallest and largest elements.                                          *)

LEMMA MinIn ==
    ASSUME NEW S \in SUBSET Nat, S /= {}
    PROVE  Min(S) \in S /\ \A y \in S : Min(S) <= y
<1> DEFINE T == {0..i : i \in S}
<1>1. PICK X \in T : \A Y \in T : ~(<<Y, X>> \in StrictSubsetOrdering(Nat))
  <2>1. T \subseteq FiniteSubsetsOf(Nat) /\ T /= {}
    <3>1. \A i \in S : IsFiniteSet(0..i) /\ 0..i \subseteq Nat
      BY FS_Interval
    <3> QED BY <3>1 DEF FiniteSubsetsOf
  <2> HIDE DEF T
  <2> QED BY <2>1, FS_StrictSubsetOrderingWellFounded, WFMin, Zenon
<1>2. PICK x \in S : X = 0..x
  BY <1>1
<1>3. ASSUME NEW y \in S
      PROVE  x <= y
  <2>1. 0..y \in T /\ 0..y \subseteq Nat /\ X \subseteq Nat
    BY <1>2
  <2>2. y < x => 0..y \subseteq X /\ x \notin 0..y /\ x \in X
    BY <1>2
  <2>3. ~(0..y \subseteq X /\ 0..y /= X)
    BY <1>1, <2>1 DEF StrictSubsetOrdering
  <2> QED BY <2>2, <2>3
<1> QED BY <1>3 DEF Min

LEMMA MaxIn ==
    ASSUME NEW n \in Nat, NEW S \in SUBSET (0..n), S /= {}
    PROVE  Max(S) \in S /\ \A y \in S : y <= Max(S)
<1> DEFINE T == {i \in 0..n : n - i \in S}
<1>1. T \in SUBSET Nat /\ T /= {}
  <2>1. PICK x : x \in S
    OBVIOUS
  <2>2. n - x \in 0..n /\ n - (n - x) = x
    <3>1. x \in 0..n
      BY <2>1
    <3> QED BY <3>1
  <2>3. n - (n - x) \in S
    <3> DEFINE y == n - (n - x)
    <3>1. y = x
      BY <2>2
    <3> HIDE DEF y
    <3>2. y \in S
      BY <2>1, <3>1, Zenon
    <3> QED BY <3>2 DEF y
  <2>4. n - x \in T
    BY <2>2, <2>3
  <2> QED BY <2>4
<1>2. Min(T) \in T /\ \A i \in T : Min(T) <= i
  <2> HIDE DEF T
  <2> QED BY <1>1, MinIn, Zenon
<1>3. \A y \in S : n - y \in T
  <2>1. \A y \in S : n - y \in 0..n /\ n - (n - y) = y
    OBVIOUS
  <2> QED BY <2>1
<1>4. \E x \in S : \A y \in S : x >= y
  BY <1>2, <1>3
<1> QED BY <1>4 DEF Max

-----------------------------------------------------------------------------
(* Sums over finite sets.                                                  *)

Taken(s) == CHOOSE x \in s : TRUE

\* it sums cost over each set in D, one element after the other.
Sums(it, cost, D) ==
    it = [s \in D |-> IF s = {} THEN 0 ELSE cost[Taken(s)] + it[s \ {Taken(s)}]]

UpTo(S, n) == {s \in SUBSET S : Cardinality(s) <= n}

LEMMA RestSmaller ==
    ASSUME NEW S, IsFiniteSet(S), NEW s \in SUBSET S, s /= {}
    PROVE  /\ Taken(s) \in s /\ IsFiniteSet(s) /\ s \ {Taken(s)} \in SUBSET S
           /\ Cardinality(s) \in Nat /\ Cardinality(s \ {Taken(s)}) = Cardinality(s) - 1
           /\ Cardinality(s) >= 1
<1>1. Taken(s) \in s
  BY DEF Taken
<1>2. IsFiniteSet(s)
  BY FS_Subset
<1>3. Cardinality(s) \in Nat
  BY <1>2, FS_CardinalityType
<1>4. Cardinality(s \ {Taken(s)}) = Cardinality(s) - 1
  BY <1>1, <1>2, FS_RemoveElement
<1>5. Cardinality(s \ {Taken(s)}) \in Nat
  BY <1>2, FS_CardinalityType, FS_Subset
<1> QED BY <1>1, <1>2, <1>3, <1>4, <1>5

\* The recursion of MapThenSumSet has a solution.
LEMMA SumsExist ==
    ASSUME NEW cost, NEW S, IsFiniteSet(S)
    PROVE  \E it : Sums(it, cost, SUBSET S)
<1> DEFINE Bad == {n \in Nat : ~\E it : Sums(it, cost, UpTo(S, n))}
<1>1. Bad = {}
  <2> SUFFICES ASSUME Bad /= {} PROVE FALSE
    OBVIOUS
  <2>1. PICK n \in Bad : \A m \in Bad : n <= m
    BY MinIn
  <2>2. CASE n = 0
    <3> DEFINE it == [s \in UpTo(S, 0) |-> 0]
    <3>1. \A s \in UpTo(S, 0) : s = {}
      <4> SUFFICES ASSUME NEW s \in UpTo(S, 0), s /= {} PROVE FALSE
        OBVIOUS
      <4>1. Cardinality(s) <= 0 /\ s \in SUBSET S
        BY DEF UpTo
      <4>2. Cardinality(s) \in Nat /\ Cardinality(s) >= 1
        BY <4>1, RestSmaller
      <4> QED BY <4>1, <4>2
    <3>2. Sums(it, cost, UpTo(S, 0))
      BY <3>1 DEF Sums
    <3> HIDE DEF it
    <3> QED BY <2>2, <3>2
  <2>3. CASE n > 0
    <3>1. n \in Nat /\ n - 1 \in Nat /\ n - 1 \notin Bad
      BY <2>1, <2>3
    <3>2. PICK old : Sums(old, cost, UpTo(S, n - 1))
      BY <3>1
    <3> DEFINE it == [s \in UpTo(S, n) |->
                        IF s = {} THEN 0 ELSE cost[Taken(s)] + old[s \ {Taken(s)}]]
    <3>3. ASSUME NEW s \in UpTo(S, n), s /= {}
          PROVE  it[s \ {Taken(s)}] = old[s \ {Taken(s)}]
      <4> DEFINE t == s \ {Taken(s)}
      <4>1. t \in SUBSET S /\ Cardinality(t) = Cardinality(s) - 1 /\ Cardinality(s) \in Nat
            /\ Cardinality(s) <= n
        BY <3>3, RestSmaller DEF UpTo
      <4>2. t \in UpTo(S, n - 1) /\ t \in UpTo(S, n)
        BY <3>1, <4>1 DEF UpTo
      <4> HIDE DEF t
      <4>3. old[t] = IF t = {} THEN 0 ELSE cost[Taken(t)] + old[t \ {Taken(t)}]
        BY <3>2, <4>2 DEF Sums
      <4>4. it[t] = old[t]
        BY <4>2, <4>3
      <4> QED BY <4>4 DEF t
    <3>4. Sums(it, cost, UpTo(S, n))
      <4>1. it = [s \in UpTo(S, n) |->
                    IF s = {} THEN 0 ELSE cost[Taken(s)] + it[s \ {Taken(s)}]]
        BY <3>3
      <4> HIDE DEF it
      <4> QED BY <4>1 DEF Sums
    <3> HIDE DEF it
    <3> QED BY <3>4
  <2> QED BY <2>1, <2>2, <2>3
<1>2. Cardinality(S) \in Nat
  BY FS_CardinalityType
<1>3. PICK it : Sums(it, cost, UpTo(S, Cardinality(S)))
  BY <1>1, <1>2
<1>4. UpTo(S, Cardinality(S)) = SUBSET S
  BY FS_Subset DEF UpTo
<1> QED BY <1>3, <1>4

SumIn(cost) == CHOOSE it : Sums(it, cost, SUBSET DOMAIN cost)

LEMMA TotalUnfolds ==
    ASSUME NEW cost, IsFiniteSet(DOMAIN cost)
    PROVE  /\ Total(cost) = SumIn(cost)[DOMAIN cost]
           /\ \A s \in SUBSET DOMAIN cost :
                SumIn(cost)[s] = IF s = {} THEN 0 ELSE cost[Taken(s)] + SumIn(cost)[s \ {Taken(s)}]
<1>1. Total(cost) = SumIn(cost)[DOMAIN cost]
  BY DEF Total, MapThenSumSet, MapThenFoldSet, SumIn, Sums, Taken
<1>2. Sums(SumIn(cost), cost, SUBSET DOMAIN cost)
  BY SumsExist DEF SumIn
<1> QED BY <1>1, <1>2 DEF Sums

\* Two sums differ by what their terms differ at one place, and are ordered as their terms.
LEMMA SumsCompared ==
    ASSUME NEW S, IsFiniteSet(S), NEW f \in [S -> Int], NEW g \in [S -> Int]
    PROVE  /\ Total(f) \in Int /\ Total(g) \in Int
           /\ (\A x \in S : f[x] = 0) => Total(f) = 0
           /\ (\A x \in S : f[x] <= g[x]) => Total(f) <= Total(g)
           /\ \A r \in S : (\A x \in S \ {r} : f[x] = g[x]) => Total(g) = Total(f) + g[r] - f[r]
<1> DEFINE F == SumIn(f)
           G == SumIn(g)
           Good(s) ==
              /\ F[s] \in Int /\ G[s] \in Int
              /\ (\A x \in S : f[x] = 0) => F[s] = 0
              /\ (\A x \in S : f[x] <= g[x]) => F[s] <= G[s]
              /\ \A r \in S : (\A x \in S \ {r} : f[x] = g[x]) =>
                   G[s] = F[s] + IF r \in s THEN g[r] - f[r] ELSE 0
<1>1. /\ Total(f) = F[S] /\ Total(g) = G[S]
      /\ \A s \in SUBSET S : F[s] = IF s = {} THEN 0 ELSE f[Taken(s)] + F[s \ {Taken(s)}]
      /\ \A s \in SUBSET S : G[s] = IF s = {} THEN 0 ELSE g[Taken(s)] + G[s \ {Taken(s)}]
  BY TotalUnfolds
<1> HIDE DEF F, G
<1> DEFINE Bad == {n \in Nat : \E s \in SUBSET S : Cardinality(s) = n /\ ~Good(s)}
<1>2. ASSUME Bad /= {}
      PROVE  FALSE
  <2>1. PICK n \in Bad : \A m \in Bad : n <= m
    BY <1>2, MinIn
  <2>2. PICK s \in SUBSET S : Cardinality(s) = n /\ ~Good(s)
    BY <2>1
  <2>3. CASE s = {}
    <3>1. F[s] = 0 /\ G[s] = 0
      BY <1>1, <2>3
    <3>2. Good(s)
      BY <2>3, <3>1
    <3> QED BY <2>2, <3>2
  <2>4. CASE s /= {}
    <3> DEFINE x == Taken(s)
               t == s \ {x}
    <3>1. /\ x \in s /\ t \in SUBSET S /\ Cardinality(t) = n - 1 /\ n \in Nat /\ n >= 1
      BY <2>2, <2>4, RestSmaller
    <3>2. F[s] = f[x] + F[t] /\ G[s] = g[x] + G[t]
      BY <1>1, <2>4
    <3>3. x \in S /\ f[x] \in Int /\ g[x] \in Int /\ x \notin t /\ \A r : r \in s <=> r = x \/ r \in t
      BY <3>1
    <3> HIDE DEF x, t
    <3>4. n - 1 \notin Bad /\ n - 1 \in Nat
      BY <2>1, <3>1
    <3>5. Good(t)
      BY <3>1, <3>4
    <3>6. F[t] \in Int /\ G[t] \in Int
      BY <3>5
    <3>7. F[s] \in Int /\ G[s] \in Int
      BY <3>2, <3>3, <3>6
    <3>8. (\A y \in S : f[y] <= g[y]) => F[s] <= G[s]
      BY <3>2, <3>3, <3>5, <3>6
    <3>9. ASSUME NEW r \in S, \A y \in S \ {r} : f[y] = g[y]
          PROVE  G[s] = F[s] + IF r \in s THEN g[r] - f[r] ELSE 0
      <4>1. G[t] = F[t] + IF r \in t THEN g[r] - f[r] ELSE 0
        BY <3>5, <3>9
      <4>2. CASE r = x
        BY <3>2, <3>3, <3>6, <4>1, <4>2
      <4>3. CASE r /= x
        <5>1. f[x] = g[x] /\ f[r] \in Int /\ g[r] \in Int
          BY <3>3, <3>9, <4>3
        <5> QED BY <3>2, <3>3, <3>6, <4>1, <4>3, <5>1
      <4> QED BY <4>2, <4>3
    <3>10. (\A y \in S : f[y] = 0) => F[s] = 0
      BY <3>2, <3>3, <3>5, <3>6
    <3> QED BY <2>2, <3>7, <3>8, <3>9, <3>10
  <2> QED BY <2>3, <2>4
<1>3. Good(S)
  <2>1. Cardinality(S) \in Nat
    BY FS_CardinalityType
  <2> QED BY <1>2, <2>1
<1>4. /\ F[S] \in Int /\ G[S] \in Int
      /\ (\A x \in S : f[x] = 0) => F[S] = 0
      /\ (\A x \in S : f[x] <= g[x]) => F[S] <= G[S]
  BY <1>3
<1>5. ASSUME NEW r \in S, \A x \in S \ {r} : f[x] = g[x]
      PROVE  G[S] = F[S] + g[r] - f[r]
  <2>1. G[S] = F[S] + (g[r] - f[r])
    BY <1>3, <1>5
  <2>2. g[r] \in Int /\ f[r] \in Int
    OBVIOUS
  <2> QED BY <1>4, <2>1, <2>2
<1> QED BY <1>1, <1>4, <1>5

-----------------------------------------------------------------------------
(* The cohort and its routes.                                              *)

LEMMA Cohort ==
    /\ Cardinality(Questions) \in Nat \ {0} /\ Questions = 1..Cardinality(Questions)
    /\ Cardinality(QARoutes) \in Nat \ {0} /\ QARoutes = 1..Cardinality(QARoutes)
    /\ MaxAttempts \in Nat \ {0}
    /\ Pilot \in Questions /\ 1..Pilot \subseteq Questions
<1>1. Cardinality(Questions) \in Nat /\ Cardinality(QARoutes) \in Nat
  BY CohortAssumption, FS_CardinalityType
<1>2. Questions = 1..Cardinality(Questions) /\ Questions /= {}
      /\ QARoutes = 1..Cardinality(QARoutes) /\ QARoutes /= {}
  BY CohortAssumption
<1>3. Cardinality(Questions) /= 0 /\ Cardinality(QARoutes) /= 0
  BY <1>1, <1>2
<1>4. Pilot \in Questions /\ MaxAttempts \in Nat \ {0}
  BY RunAssumption, CostAssumption
<1>5. 1..Pilot \subseteq 1..Cardinality(Questions)
  <2>1. Pilot \in 1..Cardinality(Questions)
    BY <1>2, <1>4
  <2> QED BY <1>1, <2>1
<1> QED BY <1>1, <1>2, <1>3, <1>4, <1>5

LEMMA RouteFacts ==
    /\ \A v \in Values, n \in 1..MaxAttempts :
          ExtractionRoute(v, n) \in ExtractionRoutes /\ ExtractionRoute(v, n) \in Routes
    /\ \A v, w, n, m : ExtractionRoute(v, n) = ExtractionRoute(w, m) => v = w /\ n = m
    /\ \A q \in Questions, k \in QARoutes :
          QARoute(q, k) \in Routes /\ QARoute(q, k) \notin ExtractionRoutes
    /\ \A q, k, v, n : QARoute(q, k) /= ExtractionRoute(v, n)
    /\ \A q, k, p, i : QARoute(q, k) = QARoute(p, i) => q = p /\ k = i
    /\ \A r \in Routes \ ExtractionRoutes : \E q \in Questions, k \in QARoutes : r = QARoute(q, k)
  BY DEF Routes, ExtractionRoutes, ExtractionRoute, QARoute

-----------------------------------------------------------------------------
(* What the writes of the journal do to its rows.                          *)

ReservationsStay == \A r \in Routes : journal[r].reserved => journal'[r].reserved

Reserves(r) ==
    /\ JournalOK' /\ ReservationsStay
    /\ journal'[r].reserved
    /\ \A s \in Routes \ {r} : journal'[s] = journal[s]
    /\ journal'[r].response = journal[r].response /\ journal'[r].settled = journal[r].settled

LEMMA Reserving ==
    ASSUME JournalOK, NEW r \in Routes, journal' = WithReservation(journal, r), calls' = calls
    PROVE  Reserves(r)
<1>1. journal[r] \in JournalRow
  BY DEF JournalOK
<1>2. [journal[r] EXCEPT !.reserved = TRUE] \in JournalRow
      /\ [journal[r] EXCEPT !.reserved = TRUE].reserved
      /\ [journal[r] EXCEPT !.reserved = TRUE].response = journal[r].response
      /\ [journal[r] EXCEPT !.reserved = TRUE].settled = journal[r].settled
  BY <1>1 DEF JournalRow
<1>3. /\ journal' \in [Routes -> JournalRow]
      /\ journal'[r] = [journal[r] EXCEPT !.reserved = TRUE]
      /\ \A s \in Routes \ {r} : journal'[s] = journal[s]
  BY <1>2 DEF JournalOK, WithReservation
<1> QED BY <1>2, <1>3 DEF Reserves, ReservationsStay, JournalOK

Sends(r) ==
    /\ JournalOK' /\ ReservationsStay
    /\ calls'[r] = 1
    /\ \A s \in Routes \ {r} : calls'[s] = calls[s]

LEMMA Sending ==
    ASSUME JournalOK, NEW r \in Routes, Send(r), journal' = journal,
           journal[r].reserved, calls[r] = 0
    PROVE  Sends(r)
  BY DEF Sends, ReservationsStay, JournalOK, Send

Retains(r) ==
    /\ JournalOK' /\ ReservationsStay
    /\ \A s \in Routes \ {r} : journal'[s] = journal[s]
    /\ \A s \in Routes : journal'[s].reserved = journal[s].reserved

LEMMA Answering ==
    ASSUME JournalOK, NEW r \in Routes, NEW a \in Answers,
           journal' = WithResponse(journal, r, a), calls' = calls
    PROVE  Retains(r)
<1>1. journal[r] \in JournalRow
  BY DEF JournalOK
<1>2. [journal[r] EXCEPT !.response = a] \in JournalRow
      /\ [journal[r] EXCEPT !.response = a].reserved = journal[r].reserved
  BY <1>1 DEF JournalRow
<1>3. /\ journal' \in [Routes -> JournalRow]
      /\ journal'[r] = [journal[r] EXCEPT !.response = a]
      /\ \A s \in Routes \ {r} : journal'[s] = journal[s]
  BY <1>2 DEF JournalOK, WithResponse
<1> QED BY <1>2, <1>3 DEF Retains, ReservationsStay, JournalOK

Settles(rs) ==
    /\ JournalOK' /\ ReservationsStay
    /\ \A s \in Routes : /\ journal'[s].reserved = journal[s].reserved
                         /\ journal'[s].response = journal[s].response
                         /\ journal'[s].settled <=> journal[s].settled \/ s \in rs
                         /\ s \notin rs => journal'[s] = journal[s]

LEMMA Settling ==
    ASSUME JournalOK, NEW rs, journal' = WithSettlement(journal, rs), calls' = calls
    PROVE  Settles(rs)
<1>1. \A s \in Routes :
        /\ journal[s] \in JournalRow
        /\ [journal[s] EXCEPT !.settled = TRUE] \in JournalRow
        /\ [journal[s] EXCEPT !.settled = TRUE].reserved = journal[s].reserved
        /\ [journal[s] EXCEPT !.settled = TRUE].response = journal[s].response
        /\ [journal[s] EXCEPT !.settled = TRUE].settled
  BY DEF JournalOK, JournalRow
<1>2. \A s \in Routes : journal'[s] = IF s \in rs THEN [journal[s] EXCEPT !.settled = TRUE]
                                      ELSE journal[s]
  BY DEF WithSettlement
<1>3. journal' \in [Routes -> JournalRow]
  BY <1>1 DEF WithSettlement
<1> QED BY <1>1, <1>2, <1>3 DEF Settles, ReservationsStay, JournalOK

-----------------------------------------------------------------------------
(* How a process moves on.                                                 *)

LEMMA ExitKeeps ==
    ASSUME Exit
    PROVE  ProcessOK' /\ ~Alive'
<1>1. /\ process'.phases = <<>> /\ process'.limited = FALSE /\ process'.step = "begin"
      /\ process'.call = "none" /\ process'.task = [v \in Values |-> "idle"]
  BY DEF Exit, NoProcess
<1>2. Shaped'
  BY <1>1 DEF Exit, NoProcess, Shaped, TaskStates
<1>3. Staged'
  BY <1>1 DEF Staged, In
<1>4. \A v \in Values : TaskOK(v)'
  BY <1>1 DEF TaskOK
<1> QED BY <1>1, <1>2, <1>3, <1>4 DEF ProcessOK, AskOK, Scoped, Alive

\* The commands that may follow, when the files they rest on stay.
RunKept == runner' = runner /\ (AuditHolds => AuditHolds')

LEMMA AdvanceKeeps ==
    ASSUME ProcessOK, Alive, Advance, RunKept
    PROVE  ProcessOK' /\ process'.step = "begin"
<1>1. CASE Len(process.phases) = 1
  <2>1. Exit
    BY <1>1 DEF Advance, Exit
  <2> QED BY <2>1, ExitKeeps DEF Exit, NoProcess
<1>2. CASE Len(process.phases) /= 1
  <2>1. process' = [NoProcess EXCEPT !.phases = Tail(process.phases), !.limited = process.limited]
    BY <1>2 DEF Advance
  <2>2. /\ process'.phases = Tail(process.phases) /\ process'.limited = process.limited
        /\ process'.step = "begin" /\ process'.call = "none"
        /\ process'.task = [v \in Values |-> "idle"]
    BY <2>1 DEF NoProcess
  <2>3. process.phases \in Seq(Phases) /\ process.phases /= <<>> /\ process.limited \in BOOLEAN
    BY DEF ProcessOK, Shaped, Alive
  <2>4. /\ Tail(process.phases) \in Seq(Phases)
        /\ \A i \in DOMAIN Tail(process.phases) :
              i + 1 \in DOMAIN process.phases /\ Tail(process.phases)[i] = process.phases[i + 1]
    BY <2>3
  <2>5. Shaped'
    BY <2>1, <2>2, <2>3, <2>4 DEF Shaped, NoProcess, TaskStates
  <2>6. Staged'
    BY <2>2 DEF Staged, In
  <2>7. \A v \in Values : TaskOK(v)'
    BY <2>2 DEF TaskOK
  <2>8. Scoped'
    BY <2>2, <2>4 DEF ProcessOK, Scoped, RunKept, Merged
  <2> QED BY <2>2, <2>5, <2>6, <2>7, <2>8 DEF ProcessOK, AskOK
<1> QED BY <1>1, <1>2

\* A process outside a paid call goes on to a step of its phase.
LEMMA ContinueKeeps ==
    ASSUME ProcessOK, Alive, RunKept, process.call = "none",
           process.step /= "values", NEW step, NEW todo, Continue(step, todo),
           step \in {"begin", "reconcile", "run", "half", "compile"},
           step = "run" \/ (step = "reconcile" /\ Phase = "qa") => todo \subseteq Questions,
           step = "half" => todo \subseteq artifacts'["prompts"]
    PROVE  ProcessOK' /\ Alive' /\ Phase' = Phase
<1>1. /\ process'.phases = process.phases /\ process'.limited = process.limited
      /\ process'.step = step /\ process'.todo = todo
      /\ process'.call = "none" /\ process'.task = process.task
  BY DEF Continue, ProcessOK, Shaped
<1>2. \A v \in Values : process.task[v] = "idle"
  BY DEF ProcessOK, Staged
<1>3. Shaped'
  BY <1>1 DEF ProcessOK, Shaped, Continue
<1>4. Staged'
  BY <1>1, <1>2 DEF Staged, In, Alive, Phase
<1>5. \A v \in Values : TaskOK(v)'
  BY <1>1, <1>2 DEF TaskOK
<1>6. Scoped'
  BY <1>1 DEF ProcessOK, Scoped, RunKept, Merged, Alive
<1> QED BY <1>1, <1>3, <1>4, <1>5, <1>6 DEF ProcessOK, AskOK, Alive, Phase

\* The commands of `all`: a fixed part, and one that depends on the scope of the run.
LEMMA Joined ==
    ASSUME NEW s \in Seq(Phases), NEW t \in Seq(Phases), s /= <<>>
    PROVE  /\ s \o t \in Seq(Phases) /\ s \o t /= <<>>
           /\ \A i \in DOMAIN (s \o t) :
                 \/ (\E j \in DOMAIN s : (s \o t)[i] = s[j])
                 \/ (\E j \in DOMAIN t : (s \o t)[i] = t[j])
<1>1. /\ s \o t \in Seq(Phases) /\ Len(s \o t) = Len(s) + Len(t)
      /\ \A i \in 1..Len(s) + Len(t) : (s \o t)[i] = IF i <= Len(s) THEN s[i] ELSE t[i - Len(s)]
  BY ConcatProperties, Zenon
<1>2. s \o t /= <<>>
  <2>1. Len(s) > 0 /\ Len(t) >= 0
    OBVIOUS
  <2>2. Len(s \o t) > 0
    BY <1>1, <2>1
  <2> QED BY <2>2
<1>3. Len(s) \in Nat /\ Len(t) \in Nat /\ DOMAIN s = 1..Len(s) /\ DOMAIN t = 1..Len(t)
      /\ DOMAIN (s \o t) = 1..Len(s) + Len(t)
  BY <1>1
<1>4. \A i \in 1..Len(s) + Len(t) : i <= Len(s) => i \in DOMAIN s
  BY <1>3
<1>5. \A i \in 1..Len(s) + Len(t) : ~(i <= Len(s)) => i - Len(s) \in DOMAIN t
  BY <1>3
<1> QED BY <1>1, <1>2, <1>3, <1>4, <1>5, Zenon

LEMMA PhasesTyped ==
    ASSUME NEW limited \in BOOLEAN
    PROVE  /\ PhasesE6(limited) \in Seq(Phases) /\ PhasesE6(limited) /= <<>>
           /\ PhasesE6b(limited) \in Seq(Phases) /\ PhasesE6b(limited) /= <<>>
           /\ limited => /\ \A i \in DOMAIN PhasesE6(limited) :
                                PhasesE6(limited)[i] \notin {"qa", "report"}
                         /\ \A i \in DOMAIN PhasesE6b(limited) :
                                PhasesE6b(limited)[i] \notin {"qa", "report"}
<1> DEFINE head == <<"extract", "rank", "pack", "diagnose">>
           tail == IF limited THEN <<>> ELSE <<"qa", "report">>
           headB == <<"extract", "rank", "pack">>
           tailB == IF limited THEN <<"audit">> ELSE <<"diagnose", "qa", "report">>
<1>1. /\ head \in Seq(Phases) /\ head /= <<>> /\ tail \in Seq(Phases)
      /\ headB \in Seq(Phases) /\ headB /= <<>> /\ tailB \in Seq(Phases)
  <2>1. head \in Seq(Phases) /\ headB \in Seq(Phases)
    BY DEF Phases
  <2>2. <<>> \in Seq(Phases) /\ <<"audit">> \in Seq(Phases)
    BY DEF Phases
  <2>3. <<"qa", "report">> \in Seq(Phases) /\ <<"diagnose", "qa", "report">> \in Seq(Phases)
    BY DEF Phases
  <2>4. tail \in Seq(Phases) /\ tailB \in Seq(Phases)
    BY <2>2, <2>3
  <2>5. head /= <<>> /\ headB /= <<>>
    OBVIOUS
  <2> QED BY <2>1, <2>4, <2>5
<1>2. /\ \A j \in DOMAIN head : head[j] \notin {"qa", "report"}
      /\ \A j \in DOMAIN headB : headB[j] \notin {"qa", "report"}
      /\ limited => \A j \in DOMAIN tail : tail[j] \notin {"qa", "report"}
      /\ limited => \A j \in DOMAIN tailB : tailB[j] \notin {"qa", "report"}
  OBVIOUS
<1>3. PhasesE6(limited) = head \o tail /\ PhasesE6b(limited) = headB \o tailB
  BY DEF PhasesE6, PhasesE6b
<1> HIDE DEF head, tail, headB, tailB
<1>4. /\ head \o tail \in Seq(Phases) /\ head \o tail /= <<>>
      /\ \A i \in DOMAIN (head \o tail) : \/ (\E j \in DOMAIN head : (head \o tail)[i] = head[j])
                                           \/ (\E j \in DOMAIN tail : (head \o tail)[i] = tail[j])
  BY <1>1, Joined, Zenon
<1>5. /\ headB \o tailB \in Seq(Phases) /\ headB \o tailB /= <<>>
      /\ \A i \in DOMAIN (headB \o tailB) : \/ (\E j \in DOMAIN headB : (headB \o tailB)[i] = headB[j])
                                             \/ (\E j \in DOMAIN tailB : (headB \o tailB)[i] = tailB[j])
  BY <1>1, Joined, Zenon
<1>6. limited => /\ \A i \in DOMAIN (head \o tail) : (head \o tail)[i] \notin {"qa", "report"}
                 /\ \A i \in DOMAIN (headB \o tailB) : (headB \o tailB)[i] \notin {"qa", "report"}
  BY <1>2, <1>4, <1>5, Zenon
<1> QED BY <1>3, <1>4, <1>5, <1>6

LEMMA StartKeeps ==
    ASSUME NEW command, NEW limited \in BOOLEAN, Start(command, limited),
           runner \in {"E6", "E6b", "E6c", "E6cV2"}
    PROVE  ProcessOK' /\ process'.step = "begin"
<1> DEFINE phases == IF command = "all" THEN PhasesOfAll(limited) ELSE <<command>>
<1>1. process' = [NoProcess EXCEPT !.phases = phases, !.limited = limited]
  BY DEF Start
<1>2. /\ process'.phases = phases /\ process'.limited = limited /\ process'.step = "begin"
      /\ process'.call = "none" /\ process'.task = [v \in Values |-> "idle"]
  BY <1>1 DEF NoProcess
<1>3. phases \in Seq(Phases) /\ phases /= <<>>
  <2>1. command = "all" \/ command \in Phases
    BY DEF Start, Offers, Phases
  <2>2. /\ PhasesE6(limited) \in Seq(Phases) /\ PhasesE6(limited) /= <<>>
        /\ PhasesE6b(limited) \in Seq(Phases) /\ PhasesE6b(limited) /= <<>>
    BY PhasesTyped
  <2>3. /\ PhasesE6c \in Seq(Phases) /\ PhasesE6c /= <<>>
        /\ PhasesE6cV2 \in Seq(Phases) /\ PhasesE6cV2 /= <<>>
    <3>1. <<"qa", "report">> \in Seq(Phases)
      BY DEF Phases
    <3>2. <<"extract", "rank", "select", "pack", "diagnose", "qa", "report">> \in Seq(Phases)
      BY DEF Phases
    <3>3. <<"extract", "rank", "select", "pack", "preqa", "qa", "report">> \in Seq(Phases)
      BY DEF Phases
    <3> QED BY <3>1, <3>2, <3>3 DEF PhasesE6c, PhasesE6cV2
  <2>4. PhasesOfAll(limited) \in Seq(Phases) /\ PhasesOfAll(limited) /= <<>>
    BY <2>2, <2>3 DEF PhasesOfAll
  <2> QED BY <2>1, <2>4
<1>4. limited => ~Merged /\ \A i \in DOMAIN phases : phases[i] \notin {"qa", "report"}
  <2>1. ASSUME limited
        PROVE  runner \in {"E6", "E6b"} /\ command \notin {"qa", "report"}
    BY <2>1 DEF Start, MayStart, MayStartE6, MayStartE6b
  <2>2. ASSUME limited, runner \in {"E6", "E6b"}
        PROVE  \A i \in DOMAIN PhasesOfAll(limited) : PhasesOfAll(limited)[i] \notin {"qa", "report"}
    BY <2>2, PhasesTyped DEF PhasesOfAll
  <2>3. \A i \in DOMAIN <<command>> : <<command>>[i] = command
    OBVIOUS
  <2>4. limited => \A i \in DOMAIN phases : phases[i] \notin {"qa", "report"}
    BY <2>1, <2>2, <2>3
  <2> QED BY <2>1, <2>4 DEF Merged
<1>5. runner = "E6b" /\ ~limited => AuditHolds
  BY DEF Start, MayStart, MayStartE6b
<1>6. runner' = runner /\ files' = files
  BY DEF Start, worldVars, fileVars
<1>7. Shaped'
  BY <1>1, <1>2, <1>3 DEF Shaped, NoProcess, TaskStates
<1>8. Staged'
  BY <1>2 DEF Staged, In
<1>9. \A v \in Values : TaskOK(v)'
  BY <1>2 DEF TaskOK
<1>10. Scoped'
  BY <1>2, <1>4, <1>5, <1>6 DEF Scoped, Merged, AuditHolds
<1> QED BY <1>2, <1>7, <1>8, <1>9, <1>10 DEF ProcessOK, AskOK

-----------------------------------------------------------------------------
(* What a step leaves standing in the run directory.                       *)

GroundsKept ==
    /\ runner' = runner /\ gates' = gates
    /\ Paired \subseteq Paired'
    /\ AuditHolds => AuditHolds'
    /\ runner = "E6cV2" /\ PreQAHolds => PreQAHolds'

LEMMA GroundsStay ==
    ASSUME Grounded, GroundsKept
    PROVE  Grounded'
  BY DEF Grounded, GroundsKept

\* A step that leaves a trace of a reader or judge where there was one, or grounds for one.
WorldStep == WorldOK' /\ GroundsKept /\ (QATrace' => QATrace \/ Grounded)

LEMMA QuietWorld ==
    ASSUME WorldOK, UNCHANGED <<journalVars, calls, fileVars, runner, gates>>
    PROVE  WorldStep
<1>1. UNCHANGED <<journal, attempts, final, receipts, calls, artifacts, files, report, runner, gates>>
  BY DEF journalVars, fileVars
<1>2. WorldOK'
  <2>1. JournalOK' /\ AttemptsOK'
    BY <1>1 DEF WorldOK, JournalOK, AttemptsOK
  <2>2. ReceiptsOK' /\ EvidenceOK'
    BY <1>1 DEF WorldOK, ReceiptsOK, EvidenceOK, QAArtifacts
  <2>3. ReportOK'
    BY <1>1 DEF WorldOK, ReportOK, QAComplete, QAArtifacts
  <2> QED BY <1>1, <2>1, <2>2, <2>3 DEF WorldOK
<1> QED BY <1>1, <1>2 DEF WorldStep, GroundsKept, QATrace, Paired, AuditHolds, PreQAHolds,
              QAState, QAReserved, QAArtifacts

\* The extraction writes its own routes, ledgers and records.
LEMMA ExtractWorld ==
    ASSUME WorldOK, UNCHANGED <<receipts, fileVars, runner, gates>>,
           JournalOK', AttemptsOK', final \subseteq final',
           \A q \in Questions, k \in QARoutes : journal'[QARoute(q, k)] = journal[QARoute(q, k)]
    PROVE  WorldStep
<1>1. UNCHANGED <<receipts, artifacts, files, report, runner, gates>>
  BY DEF fileVars
<1>2. ReceiptsOK' /\ EvidenceOK'
  BY <1>1 DEF WorldOK, ReceiptsOK, EvidenceOK, QAArtifacts
<1>3. ReportOK'
  BY <1>1 DEF WorldOK, ReportOK, QAComplete, QAArtifacts
<1>4. QAState' => QAState
  BY <1>1 DEF QAState, QAReserved
<1> QED BY <1>1, <1>2, <1>3, <1>4 DEF WorldOK, WorldStep, GroundsKept, QATrace, Paired,
              AuditHolds, PreQAHolds, QAArtifacts

\* A local phase adds artifacts, each made from what is there.
LEMMA ArtifactWorld ==
    ASSUME WorldOK, UNCHANGED <<journalVars, calls, files, report, runner, gates>>,
           artifacts' \in [Kinds -> SUBSET Questions],
           \A kind \in Kinds : artifacts[kind] \subseteq artifacts'[kind],
           artifacts'["qa"] = artifacts["qa"],
           \A kind \in Kinds \ {"qa"} : artifacts'[kind] \subseteq artifacts'["summary"],
           \A q \in artifacts'["summary"] : ValuesOf(q) \subseteq final
    PROVE  WorldStep
<1>1. UNCHANGED <<journal, attempts, final, receipts, calls, files, report, runner, gates>>
  BY DEF journalVars
<1>2. JournalOK' /\ AttemptsOK' /\ ReceiptsOK'
  BY <1>1 DEF WorldOK, JournalOK, AttemptsOK, ReceiptsOK
<1>3. EvidenceOK'
  BY <1>1 DEF WorldOK, EvidenceOK, QAArtifacts
<1>4. ReportOK' /\ Paired \subseteq Paired'
  BY <1>1 DEF WorldOK, ReportOK, QAComplete, QAArtifacts, Paired, Kinds
<1> QED BY <1>1, <1>2, <1>3, <1>4 DEF WorldOK, WorldStep, GroundsKept, QATrace,
              AuditHolds, PreQAHolds, QAState, QAReserved, QAArtifacts

FilesKept ==
    /\ "audit" \in files => "audit" \in files'
    /\ Merged => files \subseteq files'

LEMMA FilesWorld ==
    ASSUME WorldOK, UNCHANGED <<journalVars, calls, artifacts, report, runner, gates>>,
           FilesKept, "completion" \in files' => "completion" \in files
    PROVE  WorldStep
<1>1. UNCHANGED <<journal, attempts, final, receipts, calls, artifacts, report, runner, gates>>
  BY DEF journalVars
<1>2. JournalOK' /\ AttemptsOK' /\ ReceiptsOK'
  BY <1>1 DEF WorldOK, JournalOK, AttemptsOK, ReceiptsOK
<1>3. EvidenceOK' /\ ReportOK'
  BY <1>1 DEF WorldOK, EvidenceOK, ReportOK, QAArtifacts, QAComplete
<1>4. GroundsKept
  BY <1>1 DEF GroundsKept, FilesKept, Paired, AuditHolds, PreQAHolds, Merged
<1> QED BY <1>1, <1>2, <1>3, <1>4 DEF WorldOK, WorldStep, QATrace, QAState, QAReserved, QAArtifacts

LEMMA DiagnosticKept ==
    ASSUME NEW fs
    PROVE  /\ "audit" \in fs => "audit" \in WithDiagnostic(fs)
           /\ Merged => fs \subseteq WithDiagnostic(fs)
           /\ "completion" \in WithDiagnostic(fs) => "completion" \in fs
  BY DEF WithDiagnostic, DiagnosticKind

-----------------------------------------------------------------------------
(* A step of a process, by how it goes on.                                 *)

LEMMA StepKeeps ==
    ASSUME RunInv, WorldStep, ProcessOK',
           Alive' /\ Phase' = "qa" /\ process'.step /= "begin" => Grounded \/ Grounded'
    PROVE  RunInv'
<1>1. Gated'
  <2>1. ASSUME QATrace' \/ (Alive' /\ Phase' = "qa" /\ process'.step /= "begin")
        PROVE  Grounded'
    <3>1. Grounded \/ Grounded'
      BY <2>1 DEF RunInv, Gated, WorldStep
    <3> QED BY <3>1, GroundsStay DEF WorldStep
  <2> QED BY <2>1 DEF Gated
<1> QED BY <1>1 DEF RunInv, WorldStep

LEMMA Ends ==
    ASSUME RunInv, WorldStep, Exit
    PROVE  RunInv'
  BY ExitKeeps, StepKeeps

LEMMA MovesOn ==
    ASSUME RunInv, WorldStep, Alive, Advance
    PROVE  RunInv'
<1>1. RunKept /\ ProcessOK
  BY DEF WorldStep, GroundsKept, RunKept, RunInv
<1>2. ProcessOK' /\ process'.step = "begin"
  BY <1>1, AdvanceKeeps
<1> QED BY <1>2, StepKeeps

LEMMA GoesOn ==
    ASSUME RunInv, WorldStep, Alive, process.call = "none", process.step /= "values",
           NEW step, NEW todo, Continue(step, todo),
           step \in {"begin", "reconcile", "run", "half", "compile"},
           step = "run" \/ (step = "reconcile" /\ Phase = "qa") => todo \subseteq Questions,
           step = "half" => todo \subseteq artifacts'["prompts"],
           Phase = "qa" => process.step /= "begin" \/ Grounded'
    PROVE  RunInv'
<1>1. RunKept /\ ProcessOK
  BY DEF WorldStep, GroundsKept, RunKept, RunInv
<1>2. ProcessOK' /\ Alive' /\ Phase' = Phase
  BY <1>1, ContinueKeeps
<1>3. Phase = "qa" => Grounded \/ Grounded'
  BY DEF RunInv, Gated
<1> QED BY <1>2, <1>3, StepKeeps

\* Where a process is outside its calls.
LEMMA NoCall ==
    ASSUME RunInv, ~In("qa", "run")
    PROVE  process.call = "none"
  BY DEF RunInv, ProcessOK, Staged

-----------------------------------------------------------------------------
(* Steps that write nothing.                                               *)

Quiet == UNCHANGED <<journalVars, calls, fileVars, runner, gates>>

LEMMA QuietStep ==
    ASSUME RunInv, Quiet
    PROVE  WorldStep
  BY QuietWorld DEF RunInv, Quiet

LEMMA StartStep ==
    ASSUME RunInv, NEW command, NEW limited \in BOOLEAN, Start(command, limited)
    PROVE  RunInv'
<1>1. WorldStep
  BY QuietStep DEF Start, Quiet, worldVars
<1>2. ProcessOK' /\ process'.step = "begin"
  BY StartKeeps DEF RunInv, WorldOK
<1> QED BY <1>1, <1>2, StepKeeps

LEMMA QuietEnds ==
    ASSUME RunInv, Crash \/ RefuseHalf
    PROVE  RunInv'
<1>1. Quiet /\ Exit
  BY DEF Crash, RefuseHalf, Quiet, worldVars
<1> QED BY <1>1, QuietStep, Ends

LEMMA BeginExtractStep ==
    ASSUME RunInv, BeginExtract
    PROVE  RunInv'
<1>1. Quiet /\ Alive /\ Phase = "extract" /\ process.step = "begin"
      /\ Continue("reconcile", {v \in Values : v[1] \in Selected})
  BY DEF BeginExtract, Quiet, worldVars, In
<1>2. process.call = "none"
  BY <1>1, NoCall DEF In
<1> QED BY <1>1, <1>2, QuietStep, GoesOn

LEMMA EndExtractStep ==
    ASSUME RunInv, EndExtract
    PROVE  RunInv'
<1>1. Quiet /\ Alive /\ Advance
  BY DEF EndExtract, Quiet, worldVars, In
<1> QED BY <1>1, QuietStep, MovesOn

-----------------------------------------------------------------------------
(* The extraction: reconciliation, and the questions one by one.           *)

LEMMA ReplayedTyped ==
    ASSUME JournalOK, NEW v \in Values
    PROVE  Replayed(v) \in Seq(Answers \cup {None}) /\ Len(Replayed(v)) <= MaxAttempts
<1>1. Reserved(v) \in SUBSET (1..MaxAttempts)
  BY DEF Reserved
<1>2. IsFiniteSet(1..MaxAttempts) /\ Cardinality(1..MaxAttempts) = MaxAttempts
  <2>1. 1 \in Int /\ MaxAttempts \in Int /\ ~(1 > MaxAttempts)
    BY Cohort
  <2>2. IsFiniteSet(1..MaxAttempts) /\ Cardinality(1..MaxAttempts) = MaxAttempts - 1 + 1
    BY <2>1, FS_Interval
  <2> QED BY <2>1, <2>2
<1>3. IsFiniteSet(Reserved(v)) /\ Cardinality(Reserved(v)) <= MaxAttempts
  BY <1>1, <1>2, FS_Subset
<1>4. Cardinality(Reserved(v)) \in Nat
  BY <1>3, FS_CardinalityType
<1>5. \A n \in 1..Cardinality(Reserved(v)) :
        journal[ExtractionRoute(v, n)].response \in Answers \cup {None}
  <2>1. \A n \in 1..Cardinality(Reserved(v)) : n \in 1..MaxAttempts
    BY <1>3, <1>4, Cohort
  <2> QED BY <2>1, RouteFacts DEF JournalOK, JournalRow
<1> QED BY <1>3, <1>4, <1>5 DEF Replayed

LEMMA ReconcileExtractionStep ==
    ASSUME RunInv, ReconcileExtraction
    PROVE  RunInv'
<1> DEFINE v == First(process.todo)
<1>1. /\ Alive /\ Phase = "extract" /\ process.step = "reconcile"
      /\ UNCHANGED <<calls, fileVars, runner, gates>>
  BY DEF ReconcileExtraction, worldVars, In
<1>2. process.call = "none"
  BY <1>1, NoCall DEF In
<1>3. CASE Irreconcilable(v)
  <2>1. Exit /\ Quiet
    BY <1>1, <1>3 DEF ReconcileExtraction, Quiet, journalVars
  <2> QED BY <2>1, QuietStep, Ends
<1>4. CASE ~Irreconcilable(v)
  <2> DEFINE rs == {ExtractionRoute(v, n) : n \in Reserved(v)}
  <2>1. /\ attempts' = [attempts EXCEPT ![v] = Replayed(v)]
        /\ journal' = WithSettlement(journal, rs)
        /\ final \subseteq final' /\ receipts' = receipts
        /\ Continue("reconcile", process.todo \ {v})
    BY <1>4 DEF ReconcileExtraction, ReconcileValue
  <2> HIDE DEF v, rs
  <2>2. JournalOK /\ AttemptsOK
    BY DEF RunInv, WorldOK
  <2>3. Settles(rs)
    BY <1>1, <2>1, <2>2, Settling
  <2>4. AttemptsOK'
    <3>1. v \in Values =>
            Replayed(v) \in Seq(Answers \cup {None}) /\ Len(Replayed(v)) <= MaxAttempts
      BY <2>2, ReplayedTyped
    <3> QED BY <2>1, <2>2, <3>1 DEF AttemptsOK
  <2>5. \A q \in Questions, k \in QARoutes : journal'[QARoute(q, k)] = journal[QARoute(q, k)]
    <3>1. \A q \in Questions, k \in QARoutes : QARoute(q, k) \in Routes /\ QARoute(q, k) \notin rs
      BY RouteFacts DEF rs
    <3> QED BY <2>3, <3>1 DEF Settles
  <2>6. WorldStep
    BY <1>1, <2>1, <2>3, <2>4, <2>5, ExtractWorld DEF RunInv, Settles
  <2> QED BY <1>1, <1>2, <2>1, <2>6, GoesOn
<1> QED BY <1>3, <1>4

\* The cost cap ends a process; E6b leaves its terminal status.
LEMMA CapEnds ==
    ASSUME RunInv, CapExit, UNCHANGED <<journalVars, calls, artifacts, report, runner, gates>>
    PROVE  RunInv'
<1>1. FilesKept /\ ("completion" \in files' => "completion" \in files) /\ Exit
  BY DEF CapExit, FilesKept
<1> QED BY <1>1, FilesWorld, Ends DEF RunInv

LEMMA SelectedIn == Selected \subseteq Questions
  BY Cohort DEF Selected

LEMMA OpenLedgerStep ==
    ASSUME RunInv, OpenExtractionLedger \/ OpenQALedger
    PROVE  RunInv'
<1>1. /\ Alive /\ process.step = "reconcile" /\ Phase \in {"extract", "qa"}
      /\ OpenLedger("run")
      /\ UNCHANGED <<journalVars, calls, artifacts, report, runner, gates>>
  BY DEF OpenExtractionLedger, OpenQALedger, OpenLedger, In, worldVars
<1>2. process.call = "none"
  BY <1>1, NoCall DEF In
<1>3. CASE Overspent
  BY <1>1, <1>3, CapEnds DEF OpenLedger
<1>4. CASE ~Overspent /\ Unresolved /= {}
  <2>1. Exit /\ Quiet
    BY <1>1, <1>4 DEF OpenLedger, Quiet, fileVars
  <2> QED BY <2>1, QuietStep, Ends
<1>5. CASE ~Overspent /\ Unresolved = {}
  <2>1. /\ process' = [process EXCEPT !.step = "run", !.spent = JournalCost, !.todo = Selected]
        /\ Quiet
    BY <1>1, <1>5 DEF OpenLedger, Quiet, fileVars
  <2>2. WorldStep /\ ProcessOK
    BY <2>1, QuietStep DEF RunInv
  <2>3. /\ process'.phases = process.phases /\ process'.limited = process.limited
        /\ process'.step = "run" /\ process'.todo = Selected
        /\ process'.call = "none" /\ process'.task = process.task
    BY <1>2, <2>1, <2>2 DEF ProcessOK, Shaped
  <2>4. \A w \in Values : process.task[w] = "idle"
    BY <1>1, <2>2 DEF ProcessOK, Staged
  <2>5. Shaped'
    BY <2>1, <2>2, <2>3 DEF ProcessOK, Shaped
  <2>6. Staged'
    BY <2>3, <2>4, SelectedIn DEF Staged
  <2>7. Scoped'
    BY <2>1, <2>2, <2>3 DEF ProcessOK, Scoped, Quiet, fileVars, Alive, Merged, AuditHolds
  <2>8. ProcessOK'
    BY <2>3, <2>4, <2>5, <2>6, <2>7 DEF ProcessOK, TaskOK, AskOK
  <2>9. Phase' = "qa" => Grounded
    BY <1>1, <2>3 DEF RunInv, Gated, Phase
  <2> QED BY <2>2, <2>8, <2>9, StepKeeps
<1> QED BY <1>3, <1>4, <1>5

LEMMA FirstQuestion ==
    ASSUME process.todo \subseteq Questions, process.todo /= {}
    PROVE  Min(process.todo) \in Questions /\ Min(process.todo) \in process.todo
<1>1. process.todo \in SUBSET Nat
  <2>1. Questions \subseteq Nat
    BY Cohort
  <2> QED BY <2>1
<1> QED BY <1>1, MinIn

LEMMA OpenQuestionStep ==
    ASSUME RunInv, OpenQuestion
    PROVE  RunInv'
<1>1. /\ Alive /\ Phase = "extract" /\ process.step = "run" /\ process.todo /= {}
      /\ UNCHANGED <<journalVars, calls, fileVars, worldVars>>
  BY DEF OpenQuestion, In
<1>2. WorldStep /\ ProcessOK
  BY <1>1, QuietStep DEF Quiet, worldVars, RunInv
<1>3. process.call = "none" /\ process.todo \subseteq Questions
  BY <1>1, <1>2, NoCall DEF In, ProcessOK, Staged
<1>4. Scoped' /\ ProcessOK' /\ Phase' = "extract"
  <2>1. CASE Min(process.todo) \in artifacts["summary"]
    <3>1. process' = [process EXCEPT !.todo = @ \ {Min(process.todo)}]
      BY <2>1 DEF OpenQuestion
    <3>2. /\ process'.phases = process.phases /\ process'.limited = process.limited
          /\ process'.step = "run" /\ process'.todo \subseteq process.todo
          /\ process'.call = "none" /\ process'.task = process.task
      BY <1>1, <1>2, <1>3, <3>1 DEF ProcessOK, Shaped
    <3>3. Shaped'
      BY <1>2, <3>1, <3>2 DEF ProcessOK, Shaped
    <3>4. \A w \in Values : process'.task[w] = "idle"
      BY <1>1, <1>2, <3>2 DEF ProcessOK, Staged
    <3>5. Staged'
      BY <1>3, <3>2, <3>4 DEF Staged
    <3>6. Scoped'
      BY <1>1, <1>2, <3>2 DEF ProcessOK, Scoped, Alive, Merged, AuditHolds, worldVars, fileVars
    <3> QED BY <1>1, <3>2, <3>3, <3>4, <3>5, <3>6 DEF ProcessOK, TaskOK, AskOK, Phase
  <2>2. CASE Min(process.todo) \notin artifacts["summary"]
    <3> DEFINE task == [w \in Values |-> IF w[1] = Min(process.todo) THEN "wait" ELSE "idle"]
    <3>1. process' = [process EXCEPT !.step = "values", !.task = task]
      BY <2>2 DEF OpenQuestion
    <3>2. /\ process'.phases = process.phases /\ process'.limited = process.limited
          /\ process'.step = "values" /\ process'.todo = process.todo
          /\ process'.call = "none" /\ process'.task = task
      BY <1>2, <1>3, <3>1 DEF ProcessOK, Shaped
    <3>3. task \in [Values -> TaskStates] /\ \A w \in Values : task[w] \in {"wait", "idle"}
      BY DEF TaskStates
    <3> HIDE DEF task
    <3>4. Shaped'
      BY <1>2, <3>1, <3>2, <3>3 DEF ProcessOK, Shaped
    <3>5. Staged'
      BY <1>1, <1>3, <3>2 DEF Staged, In, Alive, Phase
    <3>6. Scoped'
      BY <1>1, <1>2, <3>2 DEF ProcessOK, Scoped, Alive, Merged, AuditHolds, worldVars, fileVars
    <3>7. \A w \in Values : TaskOK(w)'
      BY <3>2, <3>3 DEF TaskOK
    <3> QED BY <1>1, <3>2, <3>4, <3>5, <3>6, <3>7 DEF ProcessOK, AskOK, Phase
  <2> QED BY <2>1, <2>2
<1> QED BY <1>2, <1>4, StepKeeps

LEMMA CloseQuestionStep ==
    ASSUME RunInv, CloseQuestion
    PROVE  RunInv'
<1> DEFINE q == Min(process.todo)
           ends == {process.task[v] : v \in ValuesOf(q)}
<1>1. /\ Alive /\ Phase = "extract" /\ process.step = "values"
      /\ UNCHANGED <<journalVars, calls, report, worldVars>>
  BY DEF CloseQuestion, In
<1>2. process.call = "none" /\ process.todo \subseteq Questions /\ process.todo /= {}
      /\ ProcessOK /\ WorldOK
  BY <1>1, NoCall DEF In, ProcessOK, Staged, RunInv
<1>3. q \in Questions
  BY <1>2, FirstQuestion
<1>4. CASE "capped" \in ends
  <2>1. CapExit /\ UNCHANGED artifacts
    BY <1>4 DEF CloseQuestion
  <2> QED BY <1>1, <2>1, CapEnds DEF worldVars
<1>5. CASE ends = {"done"}
  <2>1. /\ artifacts' = [artifacts EXCEPT !["summary"] = @ \cup {q}]
        /\ process' = [process EXCEPT !.step = "run", !.todo = @ \ {q}, !.task = NoProcess.task]
        /\ files' = files
    <3>1. ends /= {} /\ "capped" \notin ends
      BY <1>5
    <3> QED BY <1>5, <3>1 DEF CloseQuestion
  <2>2. ValuesOf(q) \subseteq final
    <3>1. \A v \in ValuesOf(q) : v \in Values /\ process.task[v] = "done"
      BY <1>5 DEF ValuesOf
    <3> QED BY <1>2, <3>1 DEF ProcessOK, TaskOK
  <2> HIDE DEF q
  <2>3. /\ artifacts' \in [Kinds -> SUBSET Questions]
        /\ artifacts'["summary"] = artifacts["summary"] \cup {q}
        /\ \A kind \in Kinds \ {"summary"} : artifacts'[kind] = artifacts[kind]
    BY <1>2, <1>3, <2>1 DEF WorldOK, EvidenceOK, Kinds
  <2>4. WorldStep
    BY <1>1, <1>2, <2>1, <2>2, <2>3, ArtifactWorld DEF WorldOK, EvidenceOK, worldVars, Kinds
  <2>5. /\ process'.phases = process.phases /\ process'.limited = process.limited
        /\ process'.step = "run" /\ process'.todo \subseteq Questions
        /\ process'.call = "none" /\ process'.task = [w \in Values |-> "idle"]
    BY <1>2, <2>1 DEF ProcessOK, Shaped, NoProcess
  <2>6. Shaped'
    BY <1>2, <2>1, <2>5, ZenonT(40) DEF ProcessOK, Shaped, TaskStates
  <2>7. Staged'
    BY <2>5 DEF Staged
  <2>8. Scoped'
    BY <1>1, <1>2, <2>1, <2>5 DEF ProcessOK, Scoped, Alive, Merged, AuditHolds, worldVars
  <2>9. ProcessOK' /\ Phase' = "extract"
    BY <1>1, <2>5, <2>6, <2>7, <2>8 DEF ProcessOK, TaskOK, AskOK, Phase
  <2> QED BY <2>4, <2>9, StepKeeps
<1>6. CASE "capped" \notin ends /\ ends /= {"done"}
  <2>1. Exit /\ Quiet
    BY <1>1, <1>6 DEF CloseQuestion, Quiet, fileVars, worldVars
  <2> QED BY <2>1, QuietStep, Ends
<1> QED BY <1>4, <1>5, <1>6

-----------------------------------------------------------------------------
(* The extraction: the calls for one value.                                *)

\* The process moves one value to a state and nothing else but its money.
MovesTask(v, s) ==
    /\ Shaped'
    /\ process'.phases = process.phases /\ process'.limited = process.limited
    /\ process'.step = process.step /\ process'.todo = process.todo
    /\ process'.call = process.call
    /\ process'.task = [process.task EXCEPT ![v] = s]

LEMMA MovesOne ==
    ASSUME Shaped, NEW v \in Values, NEW s \in TaskStates, NEW held, NEW spent,
           \/ Moves(v, s)
           \/ process' = [process EXCEPT !.task[v] = s, !.held = held]
           \/ process' = [process EXCEPT !.task[v] = s, !.held = held, !.spent = spent]
    PROVE  MovesTask(v, s)
<1>1. [process.task EXCEPT ![v] = s] \in [Values -> TaskStates]
  BY DEF Shaped
<1>2. CASE Moves(v, s)
  BY <1>1, <1>2 DEF Shaped, MovesTask, Moves
<1>3. CASE process' = [process EXCEPT !.task[v] = s, !.held = held]
  BY <1>1, <1>3 DEF Shaped, MovesTask
<1>4. CASE process' = [process EXCEPT !.task[v] = s, !.held = held, !.spent = spent]
  BY <1>1, <1>4 DEF Shaped, MovesTask
<1> QED BY <1>2, <1>3, <1>4

\* Nothing that concerns the other values changes.
OthersKept(v) ==
    \A w \in Values \ {v} : /\ attempts'[w] = attempts[w]
                            /\ Len(attempts[w]) < MaxAttempts =>
                                  calls'[NextRoute(w)] = calls[NextRoute(w)]

LEMMA TaskMove ==
    ASSUME RunInv, WorldStep, In("extract", "values"), NEW v \in Values, NEW s \in TaskStates,
           MovesTask(v, s), ReservationsStay, final \subseteq final', OthersKept(v),
           s \in {"reserved", "sent", "answered"} => Len(attempts'[v]) < MaxAttempts,
           s = "reserved" => journal'[NextRoute(v)].reserved /\ calls'[NextRoute(v)] = 0
                             /\ attempts'[v] = attempts[v],
           s = "done" => v \in final'
    PROVE  RunInv'
<1>1. ProcessOK /\ AttemptsOK
  BY DEF RunInv, WorldOK
<1>2. /\ Alive /\ Phase = "extract" /\ process.step = "values" /\ process.call = "none"
      /\ process.todo /= {} /\ process.todo \subseteq Questions
  BY <1>1 DEF In, ProcessOK, Staged
<1>3. /\ Alive' /\ Phase' = "extract" /\ process'.step = "values" /\ process'.call = "none"
      /\ process'.todo = process.todo
  BY <1>2 DEF MovesTask, Alive, Phase
<1>4. /\ process.task \in [Values -> TaskStates]
      /\ process'.task[v] = s
      /\ \A w \in Values \ {v} : process'.task[w] = process.task[w]
  BY <1>1 DEF MovesTask, ProcessOK, Shaped
<1>5. Staged'
  BY <1>2, <1>3 DEF Staged, In
<1>6. \A w \in Values : TaskOK(w)'
  <2>1. TaskOK(v)'
    BY <1>4 DEF TaskOK, NextRoute
  <2>2. ASSUME NEW w \in Values, w /= v
        PROVE  TaskOK(w)'
    <3>1. TaskOK(w) /\ process'.task[w] = process.task[w] /\ attempts'[w] = attempts[w]
          /\ (Len(attempts[w]) < MaxAttempts => calls'[NextRoute(w)] = calls[NextRoute(w)])
      BY <1>1, <1>4, <2>2 DEF ProcessOK, OthersKept
    <3>2. Len(attempts[w]) < MaxAttempts => NextRoute(w) \in Routes
      <4>1. Len(attempts[w]) \in Nat
        BY <1>1 DEF AttemptsOK
      <4>2. Len(attempts[w]) < MaxAttempts => Len(attempts[w]) + 1 \in 1..MaxAttempts
        BY <4>1, Cohort
      <4> QED BY <4>2, RouteFacts DEF NextRoute
    <3> QED BY <3>1, <3>2 DEF TaskOK, ReservationsStay, NextRoute
  <2> QED BY <2>1, <2>2
<1>7. Scoped'
  BY <1>1, <1>3 DEF MovesTask, ProcessOK, Scoped, Alive, Merged, WorldStep, GroundsKept
<1>8. ProcessOK'
  BY <1>3, <1>5, <1>6, <1>7 DEF ProcessOK, AskOK, MovesTask
<1> QED BY <1>3, <1>8, StepKeeps

\* The next route of a value, and that it is nobody else's.
LEMMA NextRouteFacts ==
    ASSUME AttemptsOK, NEW v \in Values, Len(attempts[v]) < MaxAttempts
    PROVE  /\ NextRoute(v) \in Routes
           /\ \A q, k : QARoute(q, k) /= NextRoute(v)
           /\ \A w \in Values \ {v} : NextRoute(w) /= NextRoute(v)
           /\ \A w \in Values : Len(attempts[w]) < MaxAttempts => NextRoute(w) \in Routes
<1>1. ASSUME NEW w \in Values, Len(attempts[w]) < MaxAttempts
      PROVE  NextRoute(w) \in Routes
  <2>1. Len(attempts[w]) \in Nat
    BY DEF AttemptsOK
  <2>2. Len(attempts[w]) + 1 \in 1..MaxAttempts
    BY <1>1, <2>1, Cohort
  <2> QED BY <2>2, RouteFacts DEF NextRoute
<1> QED BY <1>1, RouteFacts DEF NextRoute

\* The steps of one value that leave the run directory alone.
LEMMA QuietTask ==
    ASSUME RunInv, NEW v \in Values, ExhaustValue(v) \/ NoAnswer(v) \/ PersistFails(v)
    PROVE  RunInv'
<1>1. Quiet /\ In("extract", "values")
  BY DEF ExhaustValue, NoAnswer, PersistFails, Quiet, worldVars
<1>2. MovesTask(v, "failed")
  <2>1. Moves(v, "failed") \/ ChargeFailed(v)
    BY DEF ExhaustValue, NoAnswer, PersistFails
  <2>2. Shaped /\ "failed" \in TaskStates
    BY DEF RunInv, ProcessOK, TaskStates
  <2> QED BY <2>1, <2>2, MovesOne DEF ChargeFailed
<1>3. ReservationsStay /\ OthersKept(v) /\ final \subseteq final'
  BY <1>1 DEF Quiet, journalVars, ReservationsStay, OthersKept
<1> QED BY <1>1, <1>2, <1>3, QuietStep, TaskMove DEF TaskStates

LEMMA FinishValueStep ==
    ASSUME RunInv, NEW v \in Values, FinishValue(v)
    PROVE  RunInv'
<1>1. /\ In("extract", "values") /\ final' = final \cup {v}
      /\ UNCHANGED <<journal, attempts, receipts, calls, fileVars, runner, gates>>
  BY DEF FinishValue, worldVars
<1>2. WorldOK /\ JournalOK' /\ AttemptsOK'
  BY <1>1 DEF RunInv, WorldOK, JournalOK, AttemptsOK
<1>3. WorldStep
  BY <1>1, <1>2, ExtractWorld
<1>4. MovesTask(v, "done")
  BY MovesOne DEF FinishValue, RunInv, ProcessOK, TaskStates
<1>5. ReservationsStay /\ OthersKept(v)
  BY <1>1 DEF ReservationsStay, OthersKept
<1> QED BY <1>1, <1>3, <1>4, <1>5, TaskMove DEF TaskStates

\* A row of a value's next route is written.
LEMMA TaskWrites ==
    ASSUME RunInv, NEW v \in Values, Len(attempts[v]) < MaxAttempts,
           UNCHANGED <<attempts, final, receipts, calls, fileVars, runner, gates>>,
           Reserves(NextRoute(v)) \/ Retains(NextRoute(v)) \/ journal' = journal
    PROVE  /\ WorldStep /\ ReservationsStay /\ OthersKept(v) /\ final \subseteq final'
           /\ Len(attempts'[v]) < MaxAttempts
<1>1. WorldOK /\ JournalOK /\ AttemptsOK /\ AttemptsOK'
  BY DEF RunInv, WorldOK, AttemptsOK
<1>2. JournalOK' /\ ReservationsStay
      /\ \A s \in Routes \ {NextRoute(v)} : journal'[s] = journal[s]
  BY <1>1 DEF Reserves, Retains, ReservationsStay, JournalOK
<1>3. \A q \in Questions, k \in QARoutes : journal'[QARoute(q, k)] = journal[QARoute(q, k)]
  BY <1>1, <1>2, NextRouteFacts, RouteFacts
<1>4. WorldStep
  BY <1>1, <1>2, <1>3, ExtractWorld
<1> QED BY <1>2, <1>4 DEF OthersKept

LEMMA ReserveAttemptStep ==
    ASSUME RunInv, NEW v \in Values, ReserveAttempt(v)
    PROVE  RunInv'
<1>1. /\ In("extract", "values") /\ Len(attempts[v]) < MaxAttempts
      /\ UNCHANGED <<attempts, final, receipts, calls, fileVars, runner, gates>>
  BY DEF ReserveAttempt, worldVars
<1>2. Shaped /\ AttemptsOK /\ JournalOK /\ {"failed", "capped", "reserved"} \subseteq TaskStates
  BY DEF RunInv, ProcessOK, WorldOK, TaskStates
<1>3. CASE ~Untouched(NextRoute(v)) \/ ~Affordable
  <2>1. PICK s \in {"failed", "capped"} : Moves(v, s) /\ journal' = journal
    BY <1>3 DEF ReserveAttempt
  <2>2. MovesTask(v, s)
    BY <1>2, <2>1, MovesOne
  <2>3. WorldStep /\ ReservationsStay /\ OthersKept(v) /\ final \subseteq final'
    BY <1>1, <2>1, TaskWrites
  <2> QED BY <1>1, <1>2, <2>2, <2>3, TaskMove
<1>4. CASE Untouched(NextRoute(v)) /\ Affordable
  <2>1. /\ journal' = WithReservation(journal, NextRoute(v))
        /\ process' = [process EXCEPT !.task[v] = "reserved", !.held = @ + Reserve]
    BY <1>4 DEF ReserveAttempt
  <2>2. MovesTask(v, "reserved")
    BY <1>2, <2>1, MovesOne
  <2>3. NextRoute(v) \in Routes
    BY <1>1, <1>2, NextRouteFacts
  <2>4. Reserves(NextRoute(v))
    BY <1>1, <1>2, <2>1, <2>3, Reserving
  <2>5. journal'[NextRoute(v)].reserved /\ calls'[NextRoute(v)] = 0 /\ attempts'[v] = attempts[v]
    <3>1. ~journal[NextRoute(v)].reserved
      BY <1>4 DEF Untouched, NoRow
    <3> QED BY <1>1, <1>2, <2>3, <2>4, <3>1 DEF Reserves, JournalOK
  <2>6. WorldStep /\ ReservationsStay /\ OthersKept(v) /\ final \subseteq final'
        /\ Len(attempts'[v]) < MaxAttempts
    BY <1>1, <2>4, TaskWrites
  <2> QED BY <1>1, <1>2, <2>2, <2>5, <2>6, TaskMove
<1> QED BY <1>3, <1>4

LEMMA ReserveAttemptFailsStep ==
    ASSUME RunInv, NEW v \in Values, ReserveAttemptFails(v)
    PROVE  RunInv'
<1>1. /\ In("extract", "values") /\ Len(attempts[v]) < MaxAttempts
      /\ journal' \in {journal, WithReservation(journal, NextRoute(v))} /\ Moves(v, "failed")
      /\ UNCHANGED <<attempts, final, receipts, calls, fileVars, runner, gates>>
  BY DEF ReserveAttemptFails
<1>2. Shaped /\ AttemptsOK /\ JournalOK /\ "failed" \in TaskStates
  BY DEF RunInv, ProcessOK, WorldOK, TaskStates
<1>3. MovesTask(v, "failed")
  BY <1>1, <1>2, MovesOne
<1>4. Reserves(NextRoute(v)) \/ journal' = journal
  <2>1. NextRoute(v) \in Routes
    BY <1>1, <1>2, NextRouteFacts
  <2> QED BY <1>1, <1>2, <2>1, Reserving
<1>5. WorldStep /\ ReservationsStay /\ OthersKept(v) /\ final \subseteq final'
  BY <1>1, <1>4, TaskWrites
<1> QED BY <1>1, <1>2, <1>3, <1>5, TaskMove

LEMMA SendAttemptStep ==
    ASSUME RunInv, NEW v \in Values, SendAttempt(v)
    PROVE  RunInv'
<1>1. /\ In("extract", "values") /\ process.task[v] = "reserved"
      /\ Send(NextRoute(v)) /\ Moves(v, "sent")
      /\ UNCHANGED <<journal, attempts, final, receipts, fileVars, runner, gates>>
  BY DEF SendAttempt, worldVars, journalVars
<1>2. Shaped /\ AttemptsOK /\ JournalOK /\ "sent" \in TaskStates /\ TaskOK(v) /\ WorldOK
  BY DEF RunInv, ProcessOK, WorldOK, TaskStates
<1>3. Len(attempts[v]) < MaxAttempts /\ journal[NextRoute(v)].reserved /\ calls[NextRoute(v)] = 0
  BY <1>1, <1>2 DEF TaskOK
<1>4. /\ NextRoute(v) \in Routes
      /\ \A w \in Values \ {v} : NextRoute(w) /= NextRoute(v)
      /\ \A w \in Values : Len(attempts[w]) < MaxAttempts => NextRoute(w) \in Routes
  BY <1>2, <1>3, NextRouteFacts
<1>5. Sends(NextRoute(v))
  BY <1>1, <1>2, <1>3, <1>4, Sending
<1>6. MovesTask(v, "sent")
  BY <1>1, <1>2, MovesOne
<1>7. OthersKept(v)
  BY <1>1, <1>4, <1>5 DEF OthersKept, Sends
<1>8. WorldStep
  <2>1. AttemptsOK'
    BY <1>1, <1>2 DEF AttemptsOK
  <2> QED BY <1>1, <1>2, <1>5, <2>1, ExtractWorld DEF Sends
<1> QED BY <1>1, <1>2, <1>3, <1>5, <1>6, <1>7, <1>8, TaskMove DEF Sends

LEMMA AnswerAttemptStep ==
    ASSUME RunInv, NEW v \in Values, NEW answer \in Answers, AnswerAttempt(v, answer)
    PROVE  RunInv'
<1>1. /\ In("extract", "values") /\ process.task[v] = "sent"
      /\ journal' = WithResponse(journal, NextRoute(v), answer)
      /\ UNCHANGED <<attempts, final, receipts, calls, fileVars, runner, gates>>
  BY DEF AnswerAttempt, worldVars
<1>2. Shaped /\ AttemptsOK /\ JournalOK /\ {"failed", "answered"} \subseteq TaskStates /\ TaskOK(v)
  BY DEF RunInv, ProcessOK, WorldOK, TaskStates
<1>3. Len(attempts[v]) < MaxAttempts
  BY <1>1, <1>2 DEF TaskOK
<1>4. PICK s \in {"failed", "answered"} : MovesTask(v, s)
  <2>1. ChargeFailed(v) \/ Moves(v, "answered")
    BY DEF AnswerAttempt
  <2>2. CASE ChargeFailed(v)
    <3>1. MovesTask(v, "failed")
      BY <1>2, <2>2, MovesOne DEF ChargeFailed
    <3> QED BY <3>1
  <2>3. CASE Moves(v, "answered")
    <3>1. MovesTask(v, "answered")
      BY <1>2, <2>3, MovesOne
    <3> QED BY <3>1
  <2> QED BY <2>1, <2>2, <2>3
<1>5. Retains(NextRoute(v))
  BY <1>1, <1>2, <1>3, NextRouteFacts, Answering
<1>6. WorldStep /\ ReservationsStay /\ OthersKept(v) /\ final \subseteq final'
      /\ Len(attempts'[v]) < MaxAttempts
  BY <1>1, <1>3, <1>5, TaskWrites
<1> QED BY <1>1, <1>2, <1>4, <1>6, TaskMove

LEMMA PersistAttemptStep ==
    ASSUME RunInv, NEW v \in Values, PersistAttempt(v)
    PROVE  RunInv'
<1>1. /\ In("extract", "values") /\ process.task[v] = "answered" /\ Moves(v, "persisted")
      /\ attempts' = [attempts EXCEPT ![v] = Append(@, journal[NextRoute(v)].response)]
      /\ UNCHANGED <<journal, final, receipts, calls, fileVars, runner, gates>>
  BY DEF PersistAttempt, worldVars
<1>2. Shaped /\ AttemptsOK /\ JournalOK /\ "persisted" \in TaskStates /\ TaskOK(v) /\ WorldOK
  BY DEF RunInv, ProcessOK, WorldOK, TaskStates
<1>3. Len(attempts[v]) < MaxAttempts
  BY <1>1, <1>2 DEF TaskOK
<1>4. AttemptsOK'
  <2>1. journal[NextRoute(v)].response \in Answers \cup {None}
    BY <1>2, <1>3, NextRouteFacts DEF JournalOK, JournalRow
  <2>2. attempts[v] \in Seq(Answers \cup {None})
    BY <1>2 DEF AttemptsOK
  <2>3. /\ Append(attempts[v], journal[NextRoute(v)].response) \in Seq(Answers \cup {None})
        /\ Len(Append(attempts[v], journal[NextRoute(v)].response)) = Len(attempts[v]) + 1
        /\ Len(attempts[v]) \in Nat
    BY <2>1, <2>2
  <2>4. Len(attempts[v]) + 1 <= MaxAttempts
    BY <1>3, <2>3, Cohort
  <2> QED BY <1>1, <1>2, <2>3, <2>4 DEF AttemptsOK
<1>5. JournalOK' /\ ReservationsStay
  BY <1>1, <1>2 DEF JournalOK, ReservationsStay
<1>6. WorldStep
  BY <1>1, <1>2, <1>4, <1>5, ExtractWorld
<1>7. MovesTask(v, "persisted")
  BY <1>1, <1>2, MovesOne
<1>8. OthersKept(v)
  BY <1>1, <1>2 DEF OthersKept, AttemptsOK
<1> QED BY <1>1, <1>2, <1>5, <1>6, <1>7, <1>8, TaskMove

LEMMA SettleAttemptStep ==
    ASSUME RunInv, NEW v \in Values, SettleAttempt(v)
    PROVE  RunInv'
<1>1. /\ In("extract", "values")
      /\ journal' = WithSettlement(journal, {LastRoute(v)})
      /\ process' = [process EXCEPT !.task[v] = "wait", !.held = @ - Reserve, !.spent = @ + Actual]
      /\ UNCHANGED <<attempts, final, receipts, calls, fileVars, runner, gates>>
  BY DEF SettleAttempt, worldVars
<1>2. Shaped /\ AttemptsOK /\ JournalOK /\ "wait" \in TaskStates /\ WorldOK
  BY DEF RunInv, ProcessOK, WorldOK, TaskStates
<1>3. Settles({LastRoute(v)})
  BY <1>1, <1>2, Settling
<1>4. MovesTask(v, "wait")
  BY <1>1, <1>2, MovesOne
<1>5. WorldStep
  <2>1. \A q \in Questions, k \in QARoutes :
          QARoute(q, k) \in Routes /\ QARoute(q, k) \notin {LastRoute(v)}
    BY RouteFacts DEF LastRoute
  <2>2. \A q \in Questions, k \in QARoutes : journal'[QARoute(q, k)] = journal[QARoute(q, k)]
    BY <1>3, <2>1 DEF Settles
  <2>3. AttemptsOK'
    BY <1>1, <1>2 DEF AttemptsOK
  <2> QED BY <1>1, <1>2, <1>3, <2>2, <2>3, ExtractWorld DEF Settles
<1>6. ReservationsStay /\ OthersKept(v) /\ final \subseteq final'
  BY <1>1, <1>3 DEF Settles, OthersKept
<1> QED BY <1>1, <1>2, <1>4, <1>5, <1>6, TaskMove

-----------------------------------------------------------------------------
(* The local phases.                                                       *)

\* A process at the start of a phase stays there.
LEMMA StaysPut ==
    ASSUME RunInv, WorldStep, process' = process, process.step = "begin"
    PROVE  RunInv'
<1>1. ProcessOK /\ process.call = "none"
  BY NoCall DEF RunInv, In
<1>2. Staged' /\ Shaped' /\ \A v \in Values : TaskOK(v)'
  BY <1>1 DEF ProcessOK, Staged, Shaped, TaskOK, In
<1>3. Scoped'
  BY <1>1 DEF ProcessOK, Scoped, Alive, Merged, WorldStep, GroundsKept
<1> QED BY <1>1, <1>2, <1>3, StepKeeps DEF ProcessOK, AskOK

\* An artifact of a question is made from another one of it.
LEMMA Produces ==
    ASSUME RunInv, UNCHANGED <<journalVars, calls, files, report, runner, gates>>,
           NEW kind \in Kinds \ {"qa", "summary"}, NEW made \in SUBSET artifacts["summary"],
           artifacts' = [artifacts EXCEPT ![kind] = @ \cup made]
    PROVE  WorldStep /\ artifacts'[kind] = artifacts[kind] \cup made
<1>1. WorldOK /\ EvidenceOK
  BY DEF RunInv, WorldOK
<1>2. /\ artifacts' \in [Kinds -> SUBSET Questions]
      /\ artifacts'[kind] = artifacts[kind] \cup made
      /\ \A other \in Kinds \ {kind} : artifacts'[other] = artifacts[other]
      /\ "summary" \in Kinds /\ "qa" \in Kinds
  BY <1>1 DEF EvidenceOK, Kinds
<1> QED BY <1>1, <1>2, ArtifactWorld DEF EvidenceOK

LEMMA ProduceStep ==
    ASSUME RunInv, NEW phase \in Phases, NEW kind \in {"ranking", "selection"},
           NEW source \in {"summary", "ranking"}, Produce(phase, kind, source)
    PROVE  RunInv'
<1>1. /\ Alive /\ process.step = "begin"
      /\ UNCHANGED <<journalVars, calls, files, report, runner, gates>>
  BY DEF Produce, In, worldVars
<1>2. CASE UNCHANGED artifacts
  <2>1. Quiet
    BY <1>1, <1>2 DEF Quiet, fileVars
  <2>2. Advance \/ Exit \/ process' = process
    BY DEF Produce
  <2> QED BY <1>1, <2>1, <2>2, QuietStep, Ends, MovesOn, StaysPut
<1>3. CASE artifacts' /= artifacts
  <2>1. PICK q \in artifacts[source] :
          artifacts' = [artifacts EXCEPT ![kind] = @ \cup {q}] /\ process' = process
    BY <1>3 DEF Produce
  <2>2. q \in artifacts["summary"]
    BY <2>1 DEF RunInv, WorldOK, EvidenceOK, Kinds
  <2>3. WorldStep
    <3>1. {q} \in SUBSET artifacts["summary"] /\ kind \in Kinds \ {"qa", "summary"}
      BY <2>2 DEF Kinds
    <3> QED BY <1>1, <2>1, <3>1, Produces
  <2> QED BY <1>1, <2>1, <2>3, StaysPut
<1> QED BY <1>2, <1>3

LEMMA PackQuestionStep ==
    ASSUME RunInv, PackQuestion
    PROVE  RunInv'
<1>1. /\ Alive /\ Phase = "pack" /\ process.step = "begin"
      /\ UNCHANGED <<journalVars, calls, files, report, runner, gates>>
  BY DEF PackQuestion, In, worldVars
<1>2. process.call = "none" /\ EvidenceOK
  BY <1>1, NoCall DEF In, RunInv, WorldOK
<1>3. CASE UNCHANGED artifacts /\ (Advance \/ Exit)
  BY <1>1, <1>3, QuietStep, Ends, MovesOn DEF Quiet, fileVars
<1>4. CASE ~(UNCHANGED artifacts /\ (Advance \/ Exit))
  <2>1. PICK q \in PackSource :
          /\ artifacts' = [artifacts EXCEPT !["prompts"] = @ \cup {q}]
          /\ Continue("half", {q})
    BY <1>4 DEF PackQuestion
  <2>2. {q} \in SUBSET artifacts["summary"] /\ "prompts" \in Kinds \ {"qa", "summary"}
    BY <1>2, <2>1 DEF PackSource, EvidenceOK, Kinds
  <2>3. WorldStep /\ artifacts'["prompts"] = artifacts["prompts"] \cup {q}
    BY <1>1, <2>1, <2>2, Produces
  <2> QED BY <1>1, <1>2, <2>1, <2>3, GoesOn
<1> QED BY <1>3, <1>4

LEMMA PackTraceStep ==
    ASSUME RunInv, PackTrace
    PROVE  RunInv'
<1>1. /\ Alive /\ Phase = "pack" /\ process.step = "half" /\ Continue("begin", {})
      /\ artifacts' = [artifacts EXCEPT !["pack"] = @ \cup process.todo]
      /\ UNCHANGED <<journalVars, calls, files, report, runner, gates>>
  BY DEF PackTrace, In, worldVars
<1>2. process.call = "none" /\ EvidenceOK /\ process.todo \subseteq artifacts["prompts"]
  BY <1>1, NoCall DEF In, RunInv, WorldOK, ProcessOK, Staged
<1>3. process.todo \in SUBSET artifacts["summary"] /\ "pack" \in Kinds \ {"qa", "summary"}
  BY <1>2 DEF EvidenceOK, Kinds
<1>4. WorldStep
  BY <1>1, <1>3, Produces
<1> QED BY <1>1, <1>2, <1>4, GoesOn

LEMMA RepairHalfStep ==
    ASSUME RunInv, RepairHalf
    PROVE  RunInv'
<1> DEFINE q == Min(Selected \cap HalfWritten)
<1>1. /\ Alive /\ process.step = "begin" /\ process' = process
      /\ Selected \cap HalfWritten /= {}
      /\ artifacts' = [artifacts EXCEPT !["prompts"] = @ \cup {q}, !["pack"] = @ \cup {q}]
      /\ UNCHANGED <<journalVars, calls, files, report, runner, gates>>
  BY DEF RepairHalf, In, worldVars
<1>2. WorldOK /\ EvidenceOK
  BY DEF RunInv, WorldOK
<1>3. q \in artifacts["summary"] /\ q \in Questions
  <2>1. Selected \cap HalfWritten \in SUBSET Nat
    BY SelectedIn, Cohort
  <2>2. q \in Selected \cap HalfWritten
    BY <1>1, <2>1, MinIn
  <2> QED BY <1>2, <2>2, SelectedIn DEF HalfWritten, EvidenceOK, Kinds
<1> HIDE DEF q
<1>4. /\ artifacts' \in [Kinds -> SUBSET Questions]
      /\ artifacts'["prompts"] = artifacts["prompts"] \cup {q}
      /\ artifacts'["pack"] = artifacts["pack"] \cup {q}
      /\ \A kind \in Kinds \ {"prompts", "pack"} : artifacts'[kind] = artifacts[kind]
      /\ {"summary", "qa", "prompts", "pack"} \subseteq Kinds
  BY <1>1, <1>2, <1>3 DEF EvidenceOK, Kinds
<1>5. WorldStep
  <2>1. /\ \A kind \in Kinds : artifacts[kind] \subseteq artifacts'[kind]
        /\ artifacts'["qa"] = artifacts["qa"] /\ artifacts'["summary"] = artifacts["summary"]
        /\ \A kind \in Kinds \ {"qa"} : artifacts'[kind] \subseteq artifacts'["summary"]
    BY <1>2, <1>3, <1>4 DEF EvidenceOK
  <2> QED BY <1>1, <1>2, <1>4, <2>1, ArtifactWorld DEF EvidenceOK
<1> QED BY <1>1, <1>5, StaysPut

\* The steps that seal a run-level file other than a report.
LEMMA SealStep ==
    ASSUME RunInv, WriteAudit \/ Diagnose \/ DiagnoseE6b \/ SealPreQA
    PROVE  RunInv'
<1>1. Alive /\ UNCHANGED <<journalVars, calls, artifacts, report, runner, gates>>
  BY DEF WriteAudit, Diagnose, DiagnoseE6b, SealPreQA, In, worldVars
<1>2. CASE CapExit
  BY <1>1, <1>2, CapEnds
<1>3. CASE Exit /\ files' = files
  BY <1>1, <1>3, QuietStep, Ends DEF Quiet, fileVars
<1>4. CASE /\ Advance
           /\ files' \in {files, files \cup {"audit"}, files \cup {"cases"}, WithDiagnostic(files),
                          WithDiagnostic(files) \cup {"preqa"}}
  <2>1. FilesKept /\ ("completion" \in files' => "completion" \in files)
    BY <1>4, DiagnosticKept DEF FilesKept
  <2> QED BY <1>1, <1>4, <2>1, FilesWorld, MovesOn DEF RunInv
<1> QED
  <2>1. CASE WriteAudit
    BY <1>2, <1>3, <1>4, <2>1 DEF WriteAudit
  <2>2. CASE Diagnose
    BY <1>3, <1>4, <2>2 DEF Diagnose
  <2>3. CASE DiagnoseE6b
    BY <1>3, <1>4, <2>3 DEF DiagnoseE6b
  <2>4. CASE SealPreQA
    BY <1>3, <1>4, <2>4 DEF SealPreQA
  <2> QED BY <2>1, <2>2, <2>3, <2>4

-----------------------------------------------------------------------------
(* The report.                                                             *)

\* Only a run over the whole cohort asks or reports.
LEMMA WholeCohort ==
    ASSUME RunInv, Alive, Phase \in {"qa", "report"}
    PROVE  Selected = Questions /\ (runner = "E6b" => AuditHolds)
<1>1. process.phases \in Seq(Phases) /\ process.phases /= <<>>
  BY DEF RunInv, ProcessOK, Shaped, Alive
<1>2. 1 \in DOMAIN process.phases /\ process.phases[1] = Phase
  BY <1>1 DEF Phase
<1>3. ~process.limited
  BY <1>2 DEF RunInv, ProcessOK, Scoped
<1> QED BY <1>3 DEF RunInv, ProcessOK, Scoped, Selected

\* What the report requires of the evidence of each runner.
LEMMA QualifiedReport ==
    ASSUME RunInv, Alive, Phase = "report", ReportQualifies
    PROVE  /\ Questions \subseteq artifacts["summary"]
           /\ Verdict \in Verdicts
           /\ Verdict \in {"pass", "reject-qa"} => QAComplete
           /\ Verdict = "reject-context" => ~gates.context
           /\ Verdict = "incomplete" => runner = "E6c"
<1>1. Selected = Questions /\ WorldOK
  BY WholeCohort DEF RunInv
<1>2. Paired \subseteq artifacts["summary"]
  BY <1>1 DEF WorldOK, EvidenceOK, Paired, Kinds
<1>3. Questions \subseteq artifacts["summary"]
  <2>1. CASE runner \in {"E6", "E6b"}
    BY <2>1 DEF ReportQualifies, ReportableE6, ReportableE6b, EvidenceComplete
  <2>2. CASE runner = "E6c"
    BY <2>2 DEF ReportQualifies, ReportableE6c
  <2>3. CASE runner = "E6cV2"
    BY <1>1, <1>2, <2>3 DEF ReportQualifies, ReportableE6cV2, CasesQualify
  <2> QED BY <1>1, <2>1, <2>2, <2>3 DEF WorldOK
<1>4. runner /= "E6c" => GateObeyed
  BY <1>1 DEF WorldOK, ReportQualifies, ReportableE6, ReportableE6b, ReportableE6cV2
<1>5. Verdict \in Verdicts /\ (Verdict = "incomplete" => gates.context /\ ~QAComplete)
      /\ (Verdict \in {"pass", "reject-qa"} => QAComplete)
      /\ (Verdict = "reject-context" => ~gates.context)
  BY DEF Verdict, Verdicts
<1> QED BY <1>3, <1>4, <1>5 DEF GateObeyed

LEMMA WriteReportStep ==
    ASSUME RunInv, WriteReport
    PROVE  RunInv'
<1>1. /\ Alive /\ Phase = "report"
      /\ UNCHANGED <<journalVars, calls, artifacts, runner, gates>>
  BY DEF WriteReport, In, worldVars
<1>2. CASE UNCHANGED report /\ CapExit
  BY <1>1, <1>2, CapEnds
<1>3. CASE UNCHANGED <<files, report>> /\ Exit
  BY <1>1, <1>3, QuietStep, Ends DEF Quiet, fileVars
<1>4. CASE /\ ReportQualifies /\ Advance /\ files' = WithDiagnostic(files)
           /\ report' = IF Merged /\ report /= None THEN report ELSE Verdict
  <2>1. UNCHANGED <<journal, attempts, final, receipts, calls, artifacts, runner, gates>>
    BY <1>1 DEF journalVars
  <2>2. WorldOK /\ JournalOK' /\ AttemptsOK' /\ ReceiptsOK'
    BY <2>1 DEF RunInv, WorldOK, JournalOK, AttemptsOK, ReceiptsOK
  <2>3. EvidenceOK'
    BY <2>1, <2>2 DEF WorldOK, EvidenceOK, QAArtifacts
  <2>4. ReportOK'
    <3>1. ReportOK /\ QAComplete' = QAComplete
      BY <2>1, <2>2 DEF WorldOK, QAComplete, QAArtifacts
    <3>2. CASE report' = report
      BY <2>1, <3>1, <3>2 DEF ReportOK
    <3>3. CASE report' = Verdict
      BY <1>1, <1>4, <2>1, <3>1, <3>3, QualifiedReport DEF ReportOK
    <3> QED BY <1>4, <3>2, <3>3
  <2>5. FilesKept /\ ("completion" \in files' => "completion" \in files)
    BY <1>4, DiagnosticKept DEF FilesKept
  <2>6. GroundsKept
    BY <2>1, <2>5 DEF GroundsKept, FilesKept, Paired, AuditHolds, PreQAHolds, Merged
  <2>7. QATrace' => QATrace
    BY <2>1, <2>5 DEF QATrace, QAState, QAReserved, QAArtifacts
  <2>8. WorldStep
    BY <2>1, <2>2, <2>3, <2>4, <2>6, <2>7 DEF WorldStep, WorldOK
  <2> QED BY <1>1, <1>4, <2>8, MovesOn
<1> QED BY <1>2, <1>3, <1>4 DEF WriteReport

-----------------------------------------------------------------------------
(* The readers and judges: the start of the phase and its reconciliation.  *)

LEMMA BeginQAStep ==
    ASSUME RunInv, BeginQA
    PROVE  RunInv'
<1>1. /\ Alive /\ Phase = "qa" /\ process.step = "begin"
      /\ UNCHANGED <<journalVars, calls, artifacts, report, runner, gates>>
  BY DEF BeginQA, In, worldVars
<1>2. process.call = "none" /\ Selected = Questions /\ WorldOK
      /\ (runner = "E6b" => AuditHolds)
  BY <1>1, NoCall, WholeCohort DEF In, RunInv
<1>3. CASE ~QAGrounds
  BY <1>1, <1>3, QuietStep, Ends DEF BeginQA, Quiet, fileVars
<1>4. CASE QAGrounds
  <2>1. files' = IF ~QARebuilds THEN files
                 ELSE IF runner = "E6cV2" THEN WithDiagnostic(files) \cup {"preqa"}
                 ELSE WithDiagnostic(files)
    BY <1>4 DEF BeginQA
  <2>2. FilesKept /\ ("completion" \in files' => "completion" \in files)
    BY <2>1, DiagnosticKept DEF FilesKept
  <2>3. WorldStep
    BY <1>1, <1>2, <2>2, FilesWorld
  <2>4. CASE ~gates.context
    BY <1>1, <1>4, <2>3, <2>4, Ends, MovesOn DEF BeginQA
  <2>5. CASE gates.context
    <3>1. Continue("reconcile", Questions)
      BY <1>4, <2>5 DEF BeginQA
    <3>2. QATrace => Grounded'
      BY <2>3, GroundsStay DEF RunInv, Gated, WorldStep
    <3>3. ASSUME ~QATrace
          PROVE  Grounded'
      <4>1. QARebuilds /\ QAArtifacts = {} /\ ~QAComplete
        BY <3>3, Cohort DEF QARebuilds, QATrace, QAStateExists, QAComplete
      <4>2. CasesQualify
        BY <1>2, <1>4, <4>1 DEF WorldOK, QAGrounds, QAGroundsE6b, QAGroundsE6c, QAGroundsE6cV2,
                  PreQAQualifies
      <4>3. Questions \subseteq Paired'
        BY <1>1, <1>2, <4>2 DEF CasesQualify, Paired
      <4>4. runner = "E6cV2" => PreQAHolds'
        BY <2>1, <4>1 DEF PreQAHolds, WithDiagnostic, DiagnosticKind, Merged
      <4> QED BY <1>1, <1>2, <2>2, <2>5, <4>3, <4>4 DEF Grounded, FilesKept, AuditHolds
    <3> QED BY <1>1, <1>2, <2>3, <3>1, <3>2, <3>3, GoesOn
  <2> QED BY <2>4, <2>5
<1> QED BY <1>3, <1>4

\* A step within the phase stands on its grounds.
LEMMA QAWorld ==
    ASSUME RunInv, Alive, Phase = "qa", process.step /= "begin",
           UNCHANGED <<attempts, final, report, runner, gates>>,
           JournalOK', ReceiptsOK', EvidenceOK', FilesKept,
           \A kind \in Kinds : artifacts[kind] \subseteq artifacts'[kind]
    PROVE  WorldStep
<1>1. Grounded /\ WorldOK /\ {"prompts", "pack", "summary", "qa"} \subseteq Kinds
  BY DEF RunInv, Gated, Kinds
<1>2. AttemptsOK'
  BY <1>1 DEF WorldOK, AttemptsOK
<1>3. Paired \subseteq Paired' /\ artifacts["summary"] \subseteq artifacts'["summary"]
  BY <1>1 DEF Paired
<1>4. QAComplete => QAComplete'
  BY <1>1 DEF QAComplete, QAArtifacts, EvidenceOK
<1>5. ReportOK'
  BY <1>1, <1>3, <1>4 DEF WorldOK, ReportOK
<1>6. GroundsKept
  BY <1>3 DEF GroundsKept, FilesKept, AuditHolds, PreQAHolds, Merged
<1> QED BY <1>1, <1>2, <1>5, <1>6 DEF WorldStep, WorldOK

\* The routes reached are settled, accepted and without a gap, so that the receipts
\* written for the last of them stand for all before it.
LEMMA ReachedBacked ==
    ASSUME JournalOK, NEW q \in Questions, NEW k \in QAReserved(q),
           \A s \in QAStops(q) : k < s, NEW i \in QARoutes, i <= k
    PROVE  /\ i \in QAReserved(q) /\ journal[QARoute(q, i)].response = "accepted"
           /\ \A s \in QAStops(q) : i < s
<1> DEFINE below == {j \in QAReserved(q) : j < k}
<1>1. k \in QARoutes /\ k \in Nat /\ k >= 1 /\ k <= Cardinality(QARoutes)
      /\ Cardinality(QARoutes) \in Nat /\ QARoutes = 1..Cardinality(QARoutes)
  BY Cohort DEF QAReserved
<1>2. k \notin QAStops(q)
  <2>1. ~(k < k)
    BY <1>1
  <2> QED BY <2>1
<1>3. ~(k > Cardinality(below) + 1)
  BY <1>1, <1>2 DEF QAStops
<1>4. below \in SUBSET (1..(k - 1))
  BY <1>1 DEF QAReserved
<1>5. IsFiniteSet(1..(k - 1)) /\ Cardinality(1..(k - 1)) = k - 1
  <2>1. 1 \in Int /\ k - 1 \in Int /\ (1 > k - 1 => k - 1 = 0)
    BY <1>1
  <2>2. IsFiniteSet(1..(k - 1))
        /\ Cardinality(1..(k - 1)) = IF 1 > k - 1 THEN 0 ELSE (k - 1) - 1 + 1
    BY <2>1, FS_Interval
  <2> QED BY <2>1, <2>2
<1> HIDE DEF below
<1>6. IsFiniteSet(below) /\ Cardinality(below) <= Cardinality(1..(k - 1))
      /\ (Cardinality(1..(k - 1)) = Cardinality(below) => 1..(k - 1) = below)
  BY <1>4, <1>5, FS_Subset
<1>7. Cardinality(below) \in Nat
  BY <1>6, FS_CardinalityType
<1>8. 1..(k - 1) = below
  BY <1>1, <1>3, <1>5, <1>6, <1>7
<1>9. i \in QAReserved(q)
  <2>1. i = k \/ i \in 1..(k - 1)
    BY <1>1
  <2> QED BY <1>8, <2>1 DEF below
<1>10. ASSUME NEW s \in QAStops(q)
       PROVE  i < s
  <2>1. s \in QARoutes /\ i \in QARoutes
    BY <1>10 DEF QAStops
  <2>2. s \in Nat /\ i \in Nat
    BY <1>1, <2>1
  <2>3. k < s
    BY <1>10
  <2> QED BY <1>1, <2>2, <2>3
<1>11. i \notin QAStops(q)
  <2>1. ~(i < i)
    BY <1>1
  <2> QED BY <1>10, <2>1
<1> QED BY <1>9, <1>10, <1>11 DEF QAStops

LEMMA ReconciledReceipts ==
    ASSUME JournalOK, ReceiptsOK, NEW q \in Questions, ReconcileQA(q), calls' = calls
    PROVE  JournalOK' /\ ReceiptsOK' /\ receipts'[q] >= receipts[q]
           /\ \A p \in Questions \ {q} : receipts'[p] = receipts[p]
<1> DEFINE reached == {k \in QAReserved(q) : \A s \in QAStops(q) : k < s}
           last == {k \in QAReserved(q) : /\ QAStops(q) /= {} /\ k = Min(QAStops(q))
                                          /\ journal[QARoute(q, k)].response = "refused"}
           rs == {QARoute(q, k) : k \in reached \cup last}
           written == {receipts[q]} \cup reached
<1>1. /\ journal' = WithSettlement(journal, rs)
      /\ receipts' = [receipts EXCEPT ![q] = Max(written)]
  BY DEF ReconcileQA
<1>2. reached \subseteq QARoutes /\ (\A k \in reached : QARoute(q, k) \in rs)
  BY DEF QAReserved
<1>3. \A k \in reached, i \in QARoutes : i <= k =>
        i \in reached /\ journal[QARoute(q, i)].response = "accepted"
  BY ReachedBacked
<1> HIDE DEF rs, reached
<1>4. Settles(rs)
  BY <1>1, Settling
<1>5. /\ Cardinality(QARoutes) \in Nat /\ QARoutes = 1..Cardinality(QARoutes)
      /\ receipts[q] \in 0..Cardinality(QARoutes)
  BY Cohort DEF ReceiptsOK
<1>6. written \in SUBSET (0..Cardinality(QARoutes)) /\ written /= {}
  <2>1. QARoutes \subseteq 0..Cardinality(QARoutes)
    BY <1>5
  <2> QED BY <1>2, <1>5, <2>1
<1>7. Max(written) \in written /\ \A k \in written : k <= Max(written)
  <2> HIDE DEF written
  <2> QED BY <1>5, <1>6, MaxIn
<1>8. /\ receipts' \in [Questions -> 0..Cardinality(QARoutes)]
      /\ receipts'[q] = Max(written) /\ \A p \in Questions \ {q} : receipts'[p] = receipts[p]
  <2>1. Max(written) \in 0..Cardinality(QARoutes)
    BY <1>6, <1>7
  <2> HIDE DEF written
  <2> QED BY <1>1, <2>1 DEF ReceiptsOK
<1>9. receipts'[q] >= receipts[q]
  <2>1. receipts[q] <= Max(written)
    BY <1>7
  <2>2. Max(written) \in 0..Cardinality(QARoutes)
    BY <1>6, <1>7
  <2> QED BY <1>5, <1>8, <2>1, <2>2
<1>10. ASSUME NEW p \in Questions, NEW i \in QARoutes, i <= receipts'[p]
       PROVE  journal'[QARoute(p, i)].settled /\ journal'[QARoute(p, i)].response = "accepted"
  <2>1. QARoute(p, i) \in Routes
    BY RouteFacts
  <2>2. ASSUME journal[QARoute(p, i)].settled, journal[QARoute(p, i)].response = "accepted"
        PROVE  journal'[QARoute(p, i)].settled /\ journal'[QARoute(p, i)].response = "accepted"
    BY <1>4, <2>1, <2>2 DEF Settles
  <2>3. CASE i <= receipts[p]
    BY <2>2, <2>3 DEF ReceiptsOK
  <2>4. CASE ~(i <= receipts[p])
    <3>1. p = q /\ Max(written) \in reached /\ i <= Max(written)
      BY <1>7, <1>8, <1>10, <2>4
    <3>2. i \in reached /\ journal[QARoute(q, i)].response = "accepted"
      BY <1>3, <3>1
    <3>3. QARoute(q, i) \in rs
      BY <1>2, <3>2
    <3> QED BY <1>4, <2>1, <3>1, <3>2, <3>3 DEF Settles
  <2> QED BY <2>3, <2>4
<1> QED BY <1>4, <1>8, <1>9, <1>10 DEF ReceiptsOK, Settles

LEMMA ReconcileQuestionStep ==
    ASSUME RunInv, ReconcileQuestion
    PROVE  RunInv'
<1> DEFINE q == Min(process.todo)
<1>1. /\ Alive /\ Phase = "qa" /\ process.step = "reconcile" /\ process.todo /= {}
      /\ ReconcileQA(q) /\ UNCHANGED <<attempts, final, calls, fileVars, runner, gates>>
  BY DEF ReconcileQuestion, ReconcileQA, In, worldVars
<1>2. process.call = "none" /\ process.todo \subseteq Questions /\ WorldOK
  BY <1>1, NoCall DEF In, RunInv, ProcessOK, Staged
<1>3. q \in Questions
  BY <1>1, <1>2, FirstQuestion
<1> HIDE DEF q
<1>4. JournalOK' /\ ReceiptsOK' /\ receipts'[q] >= receipts[q]
      /\ \A p \in Questions \ {q} : receipts'[p] = receipts[p]
  BY <1>1, <1>2, <1>3, ReconciledReceipts DEF WorldOK
<1>5. EvidenceOK'
  <2>1. ASSUME NEW p \in QAArtifacts
        PROVE  receipts'[p] = Cardinality(QARoutes)
    <3>1. p \in Questions /\ receipts[p] = Cardinality(QARoutes)
      BY <1>2, <2>1 DEF WorldOK, EvidenceOK, QAArtifacts, Kinds
    <3>2. receipts'[p] \in 0..Cardinality(QARoutes) /\ receipts'[p] >= receipts[p]
      <4>1. receipts' \in [Questions -> 0..Cardinality(QARoutes)]
        BY <1>4 DEF ReceiptsOK
      <4>2. receipts'[p] \in 0..Cardinality(QARoutes)
        BY <3>1, <4>1
      <4>3. receipts'[p] >= receipts[p]
        <5>1. CASE p = q
          BY <1>4, <5>1
        <5>2. CASE p /= q
          <6>1. receipts'[p] = receipts[p]
            BY <1>4, <3>1, <5>2
          <6> QED BY <3>1, <6>1, Cohort
        <5> QED BY <5>1, <5>2
      <4> QED BY <4>2, <4>3
    <3> QED BY <3>1, <3>2, Cohort
  <2> QED BY <1>1, <1>2, <2>1 DEF WorldOK, EvidenceOK, QAArtifacts, fileVars
<1>6. WorldStep
  BY <1>1, <1>4, <1>5, QAWorld DEF FilesKept, fileVars
<1>7. Exit \/ Continue("reconcile", process.todo \ {q})
  BY DEF ReconcileQuestion, q
<1>8. process.todo \ {q} \subseteq Questions
  BY <1>2
<1> QED BY <1>1, <1>2, <1>6, <1>7, <1>8, Ends, GoesOn

-----------------------------------------------------------------------------
(* The readers and judges: one call after the other.                       *)

\* The process moves its call to a point and nothing else but its money.
MovesCall(c) ==
    /\ Shaped'
    /\ process'.phases = process.phases /\ process'.limited = process.limited
    /\ process'.step = process.step /\ process'.todo = process.todo
    /\ process'.task = process.task
    /\ process'.call = c

LEMMA MovesTheCall ==
    ASSUME Shaped, NEW c, NEW held, NEW spent,
           \/ process' = [process EXCEPT !.call = c]
           \/ process' = [process EXCEPT !.call = c, !.held = held]
           \/ process' = [process EXCEPT !.call = c, !.held = held, !.spent = spent]
    PROVE  MovesCall(c)
  BY DEF Shaped, MovesCall

LEMMA CallMove ==
    ASSUME RunInv, WorldStep, In("qa", "run"), NEW c, MovesCall(c), AskOK'
    PROVE  RunInv'
<1>1. /\ Alive /\ Phase = "qa" /\ process.step = "run" /\ ProcessOK
      /\ process.todo \subseteq Questions /\ \A v \in Values : process.task[v] = "idle"
  BY DEF In, RunInv, ProcessOK, Staged
<1>2. /\ Alive' /\ Phase' = "qa" /\ process'.step = "run" /\ process'.todo = process.todo
      /\ \A v \in Values : process'.task[v] = "idle"
  BY <1>1 DEF MovesCall, Alive, Phase
<1>3. Staged' /\ \A v \in Values : TaskOK(v)'
  BY <1>1, <1>2 DEF Staged, In, TaskOK
<1>4. Scoped'
  BY <1>1, <1>2 DEF MovesCall, ProcessOK, Scoped, Alive, Merged, WorldStep, GroundsKept
<1>5. Grounded
  BY <1>1 DEF RunInv, Gated
<1> QED BY <1>3, <1>4, <1>5, StepKeeps DEF ProcessOK, MovesCall

\* What is known where a question is asked.
LEMMA AskingFacts ==
    ASSUME RunInv, NEW c, Asking(c)
    PROVE  /\ Alive /\ Phase = "qa" /\ process.step = "run" /\ In("qa", "run")
           /\ Asked \in Questions /\ receipts[Asked] < Cardinality(QARoutes)
           /\ receipts[Asked] + 1 \in QARoutes /\ CurrentRoute \in Routes
           /\ \A q \in Questions, k \in QARoutes : k <= receipts[q] => QARoute(q, k) /= CurrentRoute
           /\ Shaped /\ WorldOK /\ JournalOK /\ ReceiptsOK /\ EvidenceOK
           /\ process.todo /= {} /\ Asked \notin QAArtifacts
<1>1. /\ Alive /\ Phase = "qa" /\ process.step = "run" /\ In("qa", "run") /\ process.todo /= {}
      /\ Shaped /\ WorldOK /\ JournalOK /\ ReceiptsOK /\ EvidenceOK
      /\ process.todo \subseteq Questions /\ receipts[Asked] < Cardinality(QARoutes)
      /\ Asked \notin QAArtifacts
  BY DEF Asking, In, RunInv, ProcessOK, Staged, WorldOK
<1>2. Asked \in Questions
  BY <1>1, FirstQuestion DEF Asked
<1>3. receipts[Asked] \in Nat /\ receipts[Asked] + 1 \in QARoutes
  <2>1. receipts[Asked] \in 0..Cardinality(QARoutes)
    BY <1>1, <1>2 DEF ReceiptsOK
  <2>2. receipts[Asked] + 1 \in 1..Cardinality(QARoutes)
    BY <1>1, <2>1, Cohort
  <2> QED BY <2>1, <2>2, Cohort
<1>4. CurrentRoute \in Routes
  BY <1>2, <1>3, RouteFacts DEF CurrentRoute
<1>5. ASSUME NEW q \in Questions, NEW k \in QARoutes, k <= receipts[q]
      PROVE  QARoute(q, k) /= CurrentRoute
  <2>1. k \in Nat
    BY Cohort
  <2>2. q = Asked => k /= receipts[Asked] + 1
    BY <1>3, <1>5, <2>1
  <2> QED BY <2>2, RouteFacts DEF CurrentRoute
<1> QED BY <1>1, <1>2, <1>3, <1>4, <1>5

\* A row of the current route is written.
LEMMA CallWrites ==
    ASSUME RunInv, NEW c, Asking(c), UNCHANGED <<attempts, final, receipts, fileVars, runner, gates>>,
           JournalOK',
           \A s \in Routes \ {CurrentRoute} : journal'[s] = journal[s]
    PROVE  WorldStep
<1>1. /\ Alive /\ Phase = "qa" /\ process.step = "run" /\ WorldOK /\ ReceiptsOK /\ EvidenceOK
      /\ \A q \in Questions, k \in QARoutes : k <= receipts[q] => QARoute(q, k) /= CurrentRoute
  BY AskingFacts
<1>2. ReceiptsOK'
  <2>1. \A q \in Questions, k \in QARoutes : k <= receipts[q] =>
          QARoute(q, k) \in Routes \ {CurrentRoute}
    BY <1>1, RouteFacts
  <2> QED BY <1>1, <2>1 DEF ReceiptsOK
<1>3. EvidenceOK'
  BY <1>1 DEF EvidenceOK, QAArtifacts, fileVars
<1> QED BY <1>1, <1>2, <1>3, QAWorld DEF FilesKept, fileVars

LEMMA ReserveQAStep ==
    ASSUME RunInv, ReserveQA
    PROVE  RunInv'
<1>1. Asking("none") /\ UNCHANGED <<attempts, final, receipts, calls, artifacts, report, runner, gates>>
  BY DEF ReserveQA, worldVars
<1>2. /\ Alive /\ Phase = "qa" /\ process.step = "run" /\ In("qa", "run")
      /\ Asked \in Questions /\ receipts[Asked] < Cardinality(QARoutes)
      /\ CurrentRoute \in Routes /\ Shaped /\ WorldOK /\ JournalOK
      /\ process.todo /= {} /\ Asked \notin QAArtifacts
  BY <1>1, AskingFacts
<1>3. CASE ~Untouched(CurrentRoute)
  BY <1>1, <1>3, QuietStep, Ends DEF ReserveQA, Quiet, fileVars, journalVars
<1>4. CASE Untouched(CurrentRoute) /\ ~Affordable
  BY <1>1, <1>4, CapEnds DEF ReserveQA, journalVars
<1>5. CASE Untouched(CurrentRoute) /\ Affordable
  <2>1. /\ journal' = WithReservation(journal, CurrentRoute) /\ files' = files
        /\ process' = [process EXCEPT !.call = "reserved", !.held = @ + Reserve]
    BY <1>5 DEF ReserveQA
  <2>2. Reserves(CurrentRoute)
    BY <1>1, <1>2, <2>1, Reserving
  <2>3. MovesCall("reserved")
    BY <1>2, <2>1, MovesTheCall
  <2>4. WorldStep
    BY <1>1, <2>1, <2>2, CallWrites DEF Reserves, fileVars
  <2>5. calls[CurrentRoute] = 0
    <3>1. ~journal[CurrentRoute].reserved
      BY <1>5 DEF Untouched, NoRow
    <3> QED BY <1>2, <3>1 DEF JournalOK
  <2>6. AskOK'
    BY <1>1, <1>2, <2>2, <2>3, <2>5 DEF AskOK, MovesCall, Reserves, Asked, CurrentRoute, QAArtifacts
  <2> QED BY <1>2, <2>3, <2>4, <2>6, CallMove
<1> QED BY <1>3, <1>4, <1>5

LEMMA SendQAStep ==
    ASSUME RunInv, SendQA
    PROVE  RunInv'
<1>1. /\ Asking("reserved") /\ Send(CurrentRoute) /\ process' = [process EXCEPT !.call = "sent"]
      /\ UNCHANGED <<journal, attempts, final, receipts, fileVars, runner, gates>>
  BY DEF SendQA, worldVars, journalVars
<1>2. /\ Alive /\ Phase = "qa" /\ process.step = "run" /\ In("qa", "run")
      /\ receipts[Asked] < Cardinality(QARoutes)
      /\ CurrentRoute \in Routes /\ Shaped /\ WorldOK /\ JournalOK
      /\ process.todo /= {} /\ Asked \notin QAArtifacts
  BY <1>1, AskingFacts
<1>3. journal[CurrentRoute].reserved /\ calls[CurrentRoute] = 0
  BY <1>1 DEF Asking, RunInv, ProcessOK, AskOK
<1>4. Sends(CurrentRoute)
  BY <1>1, <1>2, <1>3, Sending
<1>5. MovesCall("sent")
  BY <1>1, <1>2, MovesTheCall
<1>6. WorldStep
  BY <1>1, <1>4, CallWrites DEF Sends
<1>7. AskOK'
  BY <1>1, <1>2, <1>5 DEF AskOK, MovesCall, Asked, QAArtifacts, fileVars
<1> QED BY <1>2, <1>5, <1>6, <1>7, CallMove

LEMMA AnswerQAStep ==
    ASSUME RunInv, NEW answer \in Answers, AnswerQA(answer)
    PROVE  RunInv'
<1>1. /\ Asking("sent") /\ journal' = WithResponse(journal, CurrentRoute, answer)
      /\ UNCHANGED <<attempts, final, receipts, calls, fileVars, runner, gates>>
  BY DEF AnswerQA, worldVars
<1>2. /\ In("qa", "run") /\ receipts[Asked] < Cardinality(QARoutes)
      /\ CurrentRoute \in Routes /\ Shaped /\ JournalOK
      /\ process.todo /= {} /\ Asked \notin QAArtifacts
  BY <1>1, AskingFacts
<1>3. Retains(CurrentRoute)
  BY <1>1, <1>2, Answering
<1>4. WorldStep
  BY <1>1, <1>3, CallWrites DEF Retains
<1>5. CASE Exit
  BY <1>4, <1>5, Ends
<1>6. CASE process' = [process EXCEPT !.call = "answered"]
  <2>1. MovesCall("answered")
    BY <1>2, <1>6, MovesTheCall
  <2>2. AskOK'
    BY <1>1, <1>2, <2>1 DEF AskOK, MovesCall, Asked, QAArtifacts, fileVars
  <2> QED BY <1>2, <1>4, <2>1, <2>2, CallMove
<1> QED BY <1>5, <1>6 DEF AnswerQA

LEMMA FailQAStep ==
    ASSUME RunInv, FailQA
    PROVE  RunInv'
<1>1. PICK c \in {"none", "sent"} : Asking(c)
  BY DEF FailQA
<1>2. /\ UNCHANGED <<attempts, final, receipts, calls, fileVars, runner, gates>> /\ Exit
      /\ journal' \in {journal, WithReservation(journal, CurrentRoute)}
  BY DEF FailQA
<1>3. CurrentRoute \in Routes /\ JournalOK
  BY <1>1, AskingFacts
<1>4. JournalOK' /\ \A s \in Routes \ {CurrentRoute} : journal'[s] = journal[s]
  <2>1. CASE journal' = journal
    BY <1>2, <1>3, <2>1 DEF JournalOK
  <2>2. CASE journal' = WithReservation(journal, CurrentRoute)
    BY <1>2, <1>3, <2>2, Reserving DEF Reserves
  <2> QED BY <1>2, <2>1, <2>2
<1>5. WorldStep
  BY <1>1, <1>2, <1>4, CallWrites
<1> QED BY <1>2, <1>5, Ends

LEMMA SettleQAStep ==
    ASSUME RunInv, SettleQA
    PROVE  RunInv'
<1>1. /\ Asking("answered") /\ journal' = WithSettlement(journal, {CurrentRoute})
      /\ process' = [process EXCEPT !.call = "settled", !.held = @ - Reserve, !.spent = @ + Actual]
      /\ UNCHANGED <<attempts, final, receipts, calls, fileVars, runner, gates>>
  BY DEF SettleQA, worldVars
<1>2. /\ In("qa", "run") /\ receipts[Asked] < Cardinality(QARoutes)
      /\ CurrentRoute \in Routes /\ Shaped /\ JournalOK
      /\ process.todo /= {} /\ Asked \notin QAArtifacts
  BY <1>1, AskingFacts
<1>3. Settles({CurrentRoute})
  BY <1>1, <1>2, Settling
<1>4. WorldStep
  BY <1>1, <1>3, CallWrites DEF Settles
<1>5. MovesCall("settled")
  BY <1>1, <1>2, MovesTheCall
<1>6. AskOK'
  BY <1>1, <1>2, <1>3, <1>5
     DEF AskOK, MovesCall, Settles, Asked, CurrentRoute, QAArtifacts, fileVars
<1> QED BY <1>2, <1>4, <1>5, <1>6, CallMove

LEMMA RecordReceiptStep ==
    ASSUME RunInv, RecordReceipt
    PROVE  RunInv'
<1>1. Asking("settled") /\ UNCHANGED <<journal, attempts, final, calls, fileVars, runner, gates>>
  BY DEF RecordReceipt, worldVars
<1>2. /\ Alive /\ Phase = "qa" /\ process.step = "run" /\ In("qa", "run")
      /\ Asked \in Questions /\ receipts[Asked] < Cardinality(QARoutes)
      /\ receipts[Asked] + 1 \in QARoutes
      /\ CurrentRoute \in Routes /\ Shaped /\ WorldOK /\ JournalOK /\ ReceiptsOK /\ EvidenceOK
      /\ Asked \notin QAArtifacts
  BY <1>1, AskingFacts
<1>3. CASE journal[CurrentRoute].response /= "accepted"
  BY <1>1, <1>3, QuietStep, Ends DEF RecordReceipt, Quiet, journalVars
<1>4. CASE journal[CurrentRoute].response = "accepted"
  <2>1. /\ receipts' = [receipts EXCEPT ![Asked] = @ + 1]
        /\ process' = [process EXCEPT !.call = "none"]
    BY <1>4 DEF RecordReceipt
  <2>2. /\ Cardinality(QARoutes) \in Nat /\ receipts[Asked] \in 0..Cardinality(QARoutes)
        /\ QARoutes = 1..Cardinality(QARoutes)
    BY <1>2, Cohort DEF ReceiptsOK
  <2>3. /\ receipts' \in [Questions -> 0..Cardinality(QARoutes)]
        /\ receipts'[Asked] = receipts[Asked] + 1
        /\ \A q \in Questions \ {Asked} : receipts'[q] = receipts[q]
    <3>1. receipts[Asked] + 1 \in 0..Cardinality(QARoutes)
      BY <1>2, <2>2
    <3> QED BY <1>2, <2>1, <3>1 DEF ReceiptsOK
  <2>4. ReceiptsOK'
    <3>1. journal[CurrentRoute].settled
      BY <1>1 DEF Asking, RunInv, ProcessOK, AskOK
    <3>2. ASSUME NEW q \in Questions, NEW k \in QARoutes, k <= receipts'[q]
          PROVE  k <= receipts[q] \/ QARoute(q, k) = CurrentRoute
      <4>1. k \in Nat
        BY <2>2
      <4>2. q = Asked /\ ~(k <= receipts[q]) => k = receipts[Asked] + 1
        BY <2>2, <2>3, <3>2, <4>1
      <4> QED BY <2>3, <3>2, <4>2 DEF CurrentRoute
    <3> QED BY <1>1, <1>2, <1>4, <2>3, <3>1, <3>2 DEF ReceiptsOK
  <2>5. JournalOK' /\ EvidenceOK'
    <3>1. \A q \in QAArtifacts : receipts'[q] = receipts[q]
      BY <1>2, <2>3 DEF EvidenceOK, QAArtifacts, Kinds
    <3> QED BY <1>1, <1>2, <3>1 DEF JournalOK, EvidenceOK, QAArtifacts, fileVars
  <2>6. WorldStep
    BY <1>1, <1>2, <2>4, <2>5, QAWorld DEF FilesKept, fileVars
  <2>7. MovesCall("none")
    BY <1>2, <2>1, MovesTheCall
  <2> QED BY <1>2, <2>6, <2>7, CallMove DEF AskOK, MovesCall
<1> QED BY <1>3, <1>4

\* A question that is done is left: its artifact is there, or is written now.
LEMMA LeaveQuestion ==
    ASSUME RunInv, SkipAnswered \/ WriteQAArtifact
    PROVE  RunInv'
<1>1. /\ In("qa", "run") /\ Alive /\ Phase = "qa" /\ process.step = "run" /\ process.todo /= {}
      /\ process' = [process EXCEPT !.todo = @ \ {Asked}]
      /\ UNCHANGED <<journal, attempts, final, receipts, calls, files, report, runner, gates>>
  BY DEF SkipAnswered, WriteQAArtifact, In, worldVars, journalVars, fileVars
<1>2. /\ Shaped /\ Staged /\ ProcessOK /\ WorldOK /\ EvidenceOK /\ ReceiptsOK
      /\ process.todo \subseteq Questions
      /\ \A v \in Values : process.task[v] = "idle"
  BY <1>1 DEF RunInv, ProcessOK, Staged, WorldOK
<1>3. Asked \in Questions
  BY <1>1, <1>2, FirstQuestion DEF Asked
<1>4. process.call = "none"
  <2>1. CASE SkipAnswered
    BY <1>2, <2>1 DEF SkipAnswered, ProcessOK, AskOK
  <2>2. CASE WriteQAArtifact
    <3>1. receipts[Asked] = Cardinality(QARoutes)
      BY <2>2 DEF WriteQAArtifact
    <3>2. ~(receipts[Asked] < Cardinality(QARoutes))
      BY <3>1, Cohort
    <3> QED BY <1>2, <3>2 DEF ProcessOK, AskOK
  <2> QED BY <2>1, <2>2
<1>5. WorldStep
  <2>1. CASE SkipAnswered
    BY <2>1, QuietStep DEF SkipAnswered, Quiet, worldVars
  <2>2. CASE WriteQAArtifact
    <3>1. /\ artifacts' = [artifacts EXCEPT !["qa"] = @ \cup {Asked}]
          /\ receipts[Asked] = Cardinality(QARoutes)
      BY <2>2 DEF WriteQAArtifact
    <3>2. /\ artifacts' \in [Kinds -> SUBSET Questions]
          /\ artifacts'["qa"] = artifacts["qa"] \cup {Asked}
          /\ \A kind \in Kinds \ {"qa"} : artifacts'[kind] = artifacts[kind]
          /\ {"summary", "qa"} \subseteq Kinds
      BY <1>2, <1>3, <3>1 DEF EvidenceOK, Kinds
    <3>3. EvidenceOK'
      BY <1>1, <1>2, <3>1, <3>2 DEF EvidenceOK, QAArtifacts
    <3>4. JournalOK' /\ ReceiptsOK'
      BY <1>1, <1>2 DEF WorldOK, JournalOK, ReceiptsOK
    <3>5. \A kind \in Kinds : artifacts[kind] \subseteq artifacts'[kind]
      BY <3>2
    <3> QED BY <1>1, <3>3, <3>4, <3>5, QAWorld DEF FilesKept
  <2> QED BY <2>1, <2>2
<1>6. /\ process'.phases = process.phases /\ process'.limited = process.limited
      /\ process'.step = "run" /\ process'.todo \subseteq Questions
      /\ process'.call = "none" /\ process'.task = process.task
  BY <1>1, <1>2, <1>4 DEF Shaped
<1>7. Shaped'
  BY <1>1, <1>2, <1>6 DEF Shaped
<1>8. Staged' /\ \A v \in Values : TaskOK(v)'
  BY <1>2, <1>6 DEF Staged, TaskOK
<1>9. Scoped'
  BY <1>1, <1>2, <1>6 DEF ProcessOK, Scoped, Alive, Merged, AuditHolds
<1>10. ProcessOK'
  BY <1>6, <1>7, <1>8, <1>9 DEF ProcessOK, AskOK
<1>11. Grounded
  BY <1>1 DEF RunInv, Gated
<1> QED BY <1>5, <1>10, <1>11, StepKeeps

LEMMA CloseQAStep ==
    ASSUME RunInv, CompleteQA \/ CompileFinal
    PROVE  RunInv'
<1>1. /\ Alive /\ Phase = "qa" /\ process.step \in {"run", "compile"}
      /\ process.step = "run" => process.todo = {}
      /\ UNCHANGED <<journal, attempts, final, receipts, calls, artifacts, report, runner, gates>>
  BY DEF CompleteQA, CompileFinal, In, worldVars, journalVars
<1>2. process.call = "none" /\ WorldOK
  BY <1>1 DEF RunInv, ProcessOK, Staged, AskOK, In
<1>3. /\ files' \in {WithDiagnostic(files), files \cup {"completion"}}
      /\ Advance \/ Continue("compile", {})
  BY DEF CompleteQA, CompileFinal
<1>4. FilesKept
  BY <1>3, DiagnosticKept DEF FilesKept
<1>5. JournalOK' /\ ReceiptsOK' /\ EvidenceOK'
  BY <1>1, <1>2 DEF WorldOK, JournalOK, ReceiptsOK, EvidenceOK, QAArtifacts
<1>6. WorldStep
  BY <1>1, <1>4, <1>5, QAWorld
<1> QED BY <1>1, <1>2, <1>3, <1>6, MovesOn, GoesOn

-----------------------------------------------------------------------------
(* The invariant, from the first step to the last.                         *)

LEMMA InitRun == Init => RunInv
<1> SUFFICES ASSUME Init
             PROVE  RunInv
  OBVIOUS
<1>1. JournalOK
  BY DEF Init, JournalOK, JournalRow, NoRow
<1>2. AttemptsOK
  BY Cohort DEF Init, AttemptsOK
<1>3. ReceiptsOK
  BY Cohort DEF Init, ReceiptsOK
<1>4. \A kind \in Kinds : artifacts[kind] = {}
  BY DEF Init
<1>5. EvidenceOK
  <2>1. artifacts \in [Kinds -> SUBSET Questions]
    BY DEF Init
  <2> QED BY <1>4, <2>1 DEF EvidenceOK, QAArtifacts, Kinds
<1>6. ReportOK
  BY NoneAssumption DEF Init, ReportOK, Verdicts
<1>7. runner \in {"E6", "E6b", "E6c", "E6cV2"}
  BY RunAssumption DEF Init
<1>8. process.phases = <<>> /\ process.limited = FALSE /\ process.step = "begin"
      /\ process.call = "none" /\ process.task = [v \in Values |-> "idle"]
      /\ process = [phases |-> process.phases, limited |-> process.limited, step |-> process.step,
                    todo |-> process.todo, call |-> process.call, task |-> process.task,
                    spent |-> process.spent, held |-> process.held]
  BY DEF Init, NoProcess
<1>9. ProcessOK
  <2>1. Shaped
    <3>1. process.phases \in Seq(Phases) /\ process.limited \in BOOLEAN
      <4>1. <<>> \in Seq(Phases)
        OBVIOUS
      <4> QED BY <1>8, <4>1, Zenon
    <3>2. process.task \in [Values -> TaskStates]
      BY <1>8 DEF TaskStates
    <3> QED BY <1>8, <3>1, <3>2, Zenon DEF Shaped
  <2>2. Staged /\ AskOK /\ Scoped
    BY <1>8 DEF Staged, AskOK, Scoped, In, Alive
  <2>3. \A v \in Values : TaskOK(v)
    BY <1>8 DEF TaskOK
  <2> QED BY <2>1, <2>2, <2>3 DEF ProcessOK
<1>10. Gated
  <2>1. QAArtifacts = {} /\ ~Alive /\ "completion" \notin files
    BY <1>4, <1>8 DEF QAArtifacts, Alive, Kinds, Init
  <2>2. ~QAState
    BY RouteFacts DEF QAState, QAReserved, Init, NoRow
  <2> QED BY <2>1, <2>2 DEF Gated, QATrace
<1> QED BY <1>1, <1>2, <1>3, <1>5, <1>6, <1>7, <1>9, <1>10 DEF RunInv, WorldOK

\* A request that is POSTed again changes neither files nor process.
LEMMA ResendsQuietly ==
    ASSUME ResendQA \/ \E v \in Values : ResendAttempt(v)
    PROVE  UNCHANGED <<journalVars, calls, fileVars, process, runner, gates>>
  BY DEF ResendQA, ResendAttempt, Resend

LEMMA StutterKeeps ==
    ASSUME RunInv, UNCHANGED <<journalVars, calls, fileVars, process, runner, gates>>
    PROVE  RunInv'
<1>1. Quiet /\ process' = process
  BY DEF Quiet
<1>2. UNCHANGED <<journal, attempts, final, receipts, calls, artifacts, files, runner>>
  BY DEF journalVars, fileVars
<1>3. Shaped' /\ Staged' /\ Scoped' /\ AskOK' /\ \A v \in Values : TaskOK(v)'
  BY <1>1, <1>2 DEF RunInv, ProcessOK, Shaped, Staged, Scoped, AskOK, TaskOK, In, Alive, Phase,
        Merged, AuditHolds, Asked, CurrentRoute, QAArtifacts, NextRoute
<1>4. Alive' /\ Phase' = "qa" /\ process'.step /= "begin" => Grounded
  BY <1>1 DEF RunInv, Gated, Alive, Phase
<1> QED BY <1>1, <1>3, <1>4, QuietStep, StepKeeps DEF ProcessOK

LEMMA ExtractKeeps ==
    ASSUME RunInv, ExtractStep
    PROVE  RunInv'
<1>1. CASE BeginExtract \/ ReconcileExtraction \/ OpenExtractionLedger
  BY <1>1, BeginExtractStep, ReconcileExtractionStep, OpenLedgerStep
<1>2. CASE OpenQuestion \/ CloseQuestion \/ EndExtract
  BY <1>2, OpenQuestionStep, CloseQuestionStep, EndExtractStep
<1>3. ASSUME NEW v \in Values, FinishValue(v) \/ ExhaustValue(v) \/ ReserveAttempt(v)
      PROVE  RunInv'
  BY <1>3, FinishValueStep, QuietTask, ReserveAttemptStep
<1>4. ASSUME NEW v \in Values, SendAttempt(v) \/ PersistAttempt(v) \/ SettleAttempt(v)
      PROVE  RunInv'
  BY <1>4, SendAttemptStep, PersistAttemptStep, SettleAttemptStep
<1>5. ASSUME NEW v \in Values, NEW a \in Answers, AnswerAttempt(v, a)
      PROVE  RunInv'
  BY <1>5, AnswerAttemptStep
<1> QED BY <1>1, <1>2, <1>3, <1>4, <1>5 DEF ExtractStep

LEMMA LocalKeeps ==
    ASSUME RunInv, LocalStep
    PROVE  RunInv'
<1>1. CASE RankQuestion \/ SelectQuestion
  BY <1>1, ProduceStep DEF RankQuestion, SelectQuestion, Phases
<1>2. CASE PackQuestion \/ PackTrace
  BY <1>2, PackQuestionStep, PackTraceStep
<1>3. CASE RefuseHalf \/ RepairHalf
  BY <1>3, QuietEnds, RepairHalfStep
<1>4. CASE WriteAudit \/ Diagnose \/ DiagnoseE6b \/ SealPreQA
  BY <1>4, SealStep
<1>5. CASE WriteReport
  BY <1>5, WriteReportStep
<1> QED BY <1>1, <1>2, <1>3, <1>4, <1>5 DEF LocalStep

LEMMA QAKeeps ==
    ASSUME RunInv, QAStep
    PROVE  RunInv'
<1>1. CASE BeginQA \/ ReconcileQuestion \/ OpenQALedger
  BY <1>1, BeginQAStep, ReconcileQuestionStep, OpenLedgerStep
<1>2. CASE SkipAnswered \/ WriteQAArtifact
  BY <1>2, LeaveQuestion
<1>3. CASE ReserveQA \/ SendQA
  BY <1>3, ReserveQAStep, SendQAStep
<1>4. CASE SettleQA \/ RecordReceipt
  BY <1>4, SettleQAStep, RecordReceiptStep
<1>5. CASE CompleteQA \/ CompileFinal
  BY <1>5, CloseQAStep
<1>6. ASSUME NEW a \in Answers, AnswerQA(a)
      PROVE  RunInv'
  BY <1>6, AnswerQAStep
<1> QED BY <1>1, <1>2, <1>3, <1>4, <1>5, <1>6 DEF QAStep

LEMMA FaultKeeps ==
    ASSUME RunInv, Fault
    PROVE  RunInv'
<1>1. ASSUME NEW v \in Values, ReserveAttemptFails(v) \/ NoAnswer(v) \/ PersistFails(v)
      PROVE  RunInv'
  BY <1>1, ReserveAttemptFailsStep, QuietTask
<1>2. CASE FailQA
  BY <1>2, FailQAStep
<1>3. CASE Crash
  BY <1>3, QuietEnds
<1>4. CASE ResendQA \/ \E v \in Values : ResendAttempt(v)
  BY <1>4, ResendsQuietly, StutterKeeps
<1> QED BY <1>1, <1>2, <1>3, <1>4 DEF Fault

LEMMA NextKeeps == RunInv /\ [Next]_vars => RunInv'
<1> SUFFICES ASSUME RunInv, [Next]_vars
             PROVE  RunInv'
  OBVIOUS
<1>1. ASSUME NEW command \in Commands, NEW limited \in BOOLEAN, Start(command, limited)
      PROVE  RunInv'
  BY <1>1, StartStep
<1>2. CASE Step
  BY <1>2, ExtractKeeps, LocalKeeps, QAKeeps DEF Step
<1>3. CASE Fault
  BY <1>3, FaultKeeps
<1>4. CASE UNCHANGED vars
  BY <1>4, StutterKeeps DEF vars, journalVars, fileVars
<1> QED BY <1>1, <1>2, <1>3, <1>4 DEF Next

\* The inductive invariant holds of every run directory, after any number of
\* kills, failed writes and unanswered calls.
THEOREM RunSound == Spec => []RunInv
  BY InitRun, NextKeeps, PTL DEF Spec

-----------------------------------------------------------------------------
(* What it gives.                                                          *)

\* A client call POSTs a request at most HttpAttempts times.
TriesOK == tries \in [Routes -> 0..HttpAttempts]

LEMMA TriesInit == Init => TriesOK
  BY CostAssumption DEF Init, TriesOK

LEMMA TriesKept == TriesOK /\ [Next]_vars => TriesOK'
<1> SUFFICES ASSUME TriesOK, [Next]_vars
             PROVE  TriesOK'
  OBVIOUS
<1> USE CostAssumption DEF TriesOK, worldVars
<1>1. CASE \E command \in Commands, limited \in BOOLEAN : Start(command, limited)
  BY <1>1 DEF Start
<1>2. CASE ExtractStep
  <2>1. ASSUME NEW v \in Values, SendAttempt(v) \/ \E a \in Answers : AnswerAttempt(v, a)
        PROVE  TriesOK'
    BY <2>1 DEF SendAttempt, AnswerAttempt, Send, Returns
  <2>2. ASSUME NEW v \in Values, FinishValue(v) \/ ExhaustValue(v) \/ ReserveAttempt(v)
                                  \/ PersistAttempt(v) \/ SettleAttempt(v)
        PROVE  TriesOK'
    BY <2>2 DEF FinishValue, ExhaustValue, ReserveAttempt, PersistAttempt, SettleAttempt
  <2>3. CASE BeginExtract \/ ReconcileExtraction \/ OpenExtractionLedger
    BY <2>3 DEF BeginExtract, ReconcileExtraction, OpenExtractionLedger, OpenLedger
  <2>4. CASE OpenQuestion \/ CloseQuestion \/ EndExtract
    BY <2>4 DEF OpenQuestion, CloseQuestion, EndExtract
  <2> QED BY <1>2, <2>1, <2>2, <2>3, <2>4 DEF ExtractStep
<1>3. CASE LocalStep
  BY <1>3 DEF LocalStep, RankQuestion, SelectQuestion, Produce, PackQuestion, PackTrace, RefuseHalf,
              RepairHalf, WriteAudit, Diagnose, DiagnoseE6b, SealPreQA, WriteReport
<1>4. CASE QAStep
  <2>1. CASE SendQA \/ \E a \in Answers : AnswerQA(a)
    BY <2>1 DEF SendQA, AnswerQA, Send, Returns
  <2>2. CASE BeginQA \/ ReconcileQuestion \/ OpenQALedger \/ SkipAnswered \/ ReserveQA
    BY <2>2 DEF BeginQA, ReconcileQuestion, OpenQALedger, OpenLedger, SkipAnswered, ReserveQA
  <2>3. CASE SettleQA \/ RecordReceipt \/ WriteQAArtifact \/ CompleteQA \/ CompileFinal
    BY <2>3 DEF SettleQA, RecordReceipt, WriteQAArtifact, CompleteQA, CompileFinal
  <2> QED BY <1>4, <2>1, <2>2, <2>3 DEF QAStep
<1>5. CASE Fault
  <2>1. ASSUME NEW v \in Values, ReserveAttemptFails(v) \/ NoAnswer(v) \/ PersistFails(v)
        PROVE  TriesOK'
    BY <2>1 DEF ReserveAttemptFails, NoAnswer, PersistFails, Returns
  <2>2. ASSUME NEW r, Resend(r)
        PROVE  TriesOK'
    <3>1. tries' = [tries EXCEPT ![r] = tries[r] + 1] /\ tries[r] < HttpAttempts
      BY <2>2 DEF Resend
    <3>2. CASE r \in Routes
      <4>1. tries[r] + 1 \in 0..HttpAttempts
        BY <3>1, <3>2, CostAssumption DEF TriesOK
      <4> QED BY <3>1, <4>1 DEF TriesOK
    <3>3. CASE r \notin Routes
      BY <3>1, <3>3 DEF TriesOK
    <3> QED BY <3>2, <3>3
  <2>3. CASE FailQA \/ Crash
    BY <2>3 DEF FailQA, Crash, Returns
  <2> QED BY <1>5, <2>1, <2>2, <2>3 DEF Fault, ResendQA, ResendAttempt
<1>6. CASE UNCHANGED vars
  BY <1>6 DEF vars
<1> QED BY <1>1, <1>2, <1>3, <1>4, <1>5, <1>6 DEF Next, Step

\* A route gets one client call, and so at most HttpAttempts POSTs, however often
\* the runner is killed and started again: a call is made by the process that made
\* its reservation, from a row nobody had reserved (complete, e6b:352).
THEOREM SentOnce == Spec => []OneClientCall
<1>1. RunInv /\ TriesOK => OneClientCall
  BY CostAssumption DEF RunInv, WorldOK, JournalOK, TriesOK, OneClientCall
<1> QED BY <1>1, RunSound, TriesInit, TriesKept, PTL DEF Spec

\* The trace of a reader or judge call implies the gates of its runner.
LEMMA AskedBehindGate ==
    ASSUME RunInv
    PROVE  QABehindGate /\ (~gates.context => \A r \in Routes \ ExtractionRoutes : calls[r] = 0)
<1>1. ASSUME NEW r \in Routes \ ExtractionRoutes, calls[r] > 0
      PROVE  Grounded
  <2>1. PICK q \in Questions, k \in QARoutes : r = QARoute(q, k)
    BY RouteFacts
  <2>2. journal[QARoute(q, k)].reserved
    <3>1. calls[r] \in 0..1
      BY DEF RunInv, WorldOK, JournalOK
    <3> QED BY <1>1, <2>1, <3>1 DEF RunInv, WorldOK, JournalOK
  <2> QED BY <2>2 DEF RunInv, Gated, QATrace, QAState, QAReserved
<1>2. QABehindGate
  BY <1>1 DEF QABehindGate, Grounded
<1>3. ASSUME ~gates.context, NEW r \in Routes \ ExtractionRoutes
      PROVE  calls[r] = 0
  <2>1. calls[r] \in 0..1
    BY DEF RunInv, WorldOK, JournalOK
  <2> QED BY <1>1, <1>3, <2>1 DEF Grounded
<1> QED BY <1>2, <1>3

\* No reader or judge is called before its evidence is sealed: the context
\* gate, both files of every question, the pilot audit of E6b and the pre-QA
\* gates of E6c v2 stand behind every such call, in every process.
THEOREM QAGated == Spec => []QABehindGate
<1>1. RunInv => QABehindGate
  BY AskedBehindGate
<1> QED BY <1>1, RunSound, PTL

\* A sealed verdict rests on complete evidence: every value extracted; for a
\* pass or a QA rejection every reader and judge answer settled and accepted;
\* for a context rejection no such call at all.
THEOREM ReportSound == Spec => []ReportBacked
<1>1. ASSUME RunInv
      PROVE  ReportBacked
  <2>1. ReportOK /\ EvidenceOK /\ ReceiptsOK
    BY <1>1 DEF RunInv, WorldOK
  <2>2. ASSUME report /= None, NEW v \in Values
        PROVE  v \in final
    <3>1. v[1] \in Questions /\ v \in ValuesOf(v[1])
      BY DEF Values, ValuesOf
    <3> QED BY <2>1, <2>2, <3>1 DEF ReportOK, EvidenceOK
  <2>3. ASSUME report \in {"pass", "reject-qa"}, NEW q \in Questions, NEW k \in QARoutes
        PROVE  journal[QARoute(q, k)].settled /\ journal[QARoute(q, k)].response = "accepted"
    <3>1. receipts[q] = Cardinality(QARoutes)
      BY <2>1, <2>3 DEF ReportOK, EvidenceOK, QAComplete
    <3>2. k <= receipts[q]
      BY <3>1, Cohort
    <3> QED BY <2>1, <3>2 DEF ReceiptsOK
  <2>4. report = "reject-context" => \A r \in Routes \ ExtractionRoutes : calls[r] = 0
    BY <1>1, <2>1, AskedBehindGate DEF ReportOK
  <2> QED BY <2>1, <2>2, <2>3, <2>4 DEF ReportBacked, ReportOK
<1> QED BY <1>1, RunSound, PTL

-----------------------------------------------------------------------------
(* The budget.                                                             *)

\* The route whose money the process holds for a value.
TaskRoute(v) == IF process.task[v] = "persisted" THEN LastRoute(v) ELSE NextRoute(v)

\* The routes a process holds money for.
UnderWay(r) ==
    \/ \E v \in Holding : r = TaskRoute(v)
    \/ process.call \in {"reserved", "sent", "answered"} /\ r = CurrentRoute

Live(r) == calls[r] > 0 \/ UnderWay(r)

\* What may be billed for the calls that were sent and for those that are about to be.
Owed == [r \in Routes |-> IF Live(r) THEN RouteCost(journal, r) ELSE 0]

LedgerOpen == process.step \in {"run", "values"}

\* A reservation whose row was written by a process that took it for failed is in the
\* journal and not in the ledger: it is never sent, and the ledger covers the others.
\* The rows money is held for are reserved and not settled yet.
Pledged ==
    /\ \A v \in Holding : TaskRoute(v) \in Routes
    /\ \A r \in Routes : UnderWay(r) => journal[r].reserved /\ ~journal[r].settled

Budget ==
    /\ Pledged
    /\ process.spent \in Int /\ process.held \in Int
    /\ process.step \notin {"run", "values", "compile"} => process.held = 0
    /\ Total(Owed) <= Cap
    /\ LedgerOpen => Total(Owed) <= process.spent + process.held /\ process.spent + process.held <= Cap

-----------------------------------------------------------------------------
(* There are finitely many routes.                                         *)

LEMMA SourcesBounded == \E b \in Nat : \A q \in Questions : Sources[q] <= b
<1> DEFINE N == Cardinality(Questions)
           Bounded(k) == \E b \in Nat : \A q \in Questions : q <= k => Sources[q] <= b
           Bad == {k \in 0..N : ~Bounded(k)}
<1>1. N \in Nat /\ Questions = 1..N /\ \A q \in Questions : Sources[q] \in Nat
  BY Cohort, CohortAssumption
<1> HIDE DEF N
<1>2. ASSUME Bad /= {}
      PROVE  FALSE
  <2>1. PICK k \in Bad : \A m \in Bad : k <= m
    <3>1. Bad \subseteq Nat
      BY <1>1
    <3> HIDE DEF Bad
    <3> QED BY <1>2, <3>1, MinIn
  <2>2. CASE k = 0
    <3>1. \A q \in Questions : q <= 0 => Sources[q] <= 0
      BY <1>1
    <3> QED BY <2>1, <2>2, <3>1
  <2>3. CASE k > 0
    <3>1. k \in Nat /\ k - 1 \in 0..N /\ k \in Questions
      BY <1>1, <2>1, <2>3
    <3>2. PICK b \in Nat : \A q \in Questions : q <= k - 1 => Sources[q] <= b
      <4>1. k - 1 \notin Bad
        BY <2>1, <3>1
      <4> QED BY <3>1, <4>1
    <3>3. PICK c \in Nat : b <= c /\ Sources[k] <= c
      <4>1. Sources[k] \in Nat
        BY <1>1, <3>1
      <4> QED BY <3>2, <4>1
    <3>4. \A q \in Questions : q <= k => Sources[q] <= c
      <4> SUFFICES ASSUME NEW q \in Questions, q <= k
                   PROVE  Sources[q] <= c
        OBVIOUS
      <4>1. q \in Nat /\ Sources[q] \in Nat
        BY <1>1
      <4>2. CASE q = k
        BY <3>3, <4>2
      <4>3. CASE q /= k
        <5>1. q <= k - 1
          BY <3>1, <4>1, <4>3
        <5> QED BY <3>2, <3>3, <4>1, <5>1
      <4> QED BY <4>2, <4>3
    <3>5. Bounded(k)
      BY <3>3, <3>4
    <3> QED BY <2>1, <3>5
  <2>4. k \in 0..N
    BY <2>1
  <2> QED BY <1>1, <2>2, <2>3, <2>4
<1>3. Bounded(N)
  <2>1. N \in 0..N
    BY <1>1
  <2>2. N \notin Bad
    BY <1>2
  <2> QED BY <2>1, <2>2
<1>4. PICK b \in Nat : \A q \in Questions : q <= N => Sources[q] <= b
  BY <1>3
<1>5. \A q \in Questions : q <= N
  BY <1>1
<1> HIDE DEF Bad, Bounded
<1> QED BY <1>4, <1>5

LEMMA RoutesFinite == IsFiniteSet(Routes)
<1>1. PICK b \in Nat : \A q \in Questions : Sources[q] <= b
  BY SourcesBounded
<1>2. Max({Sources[q] : q \in Questions}) \in Nat
  <2> DEFINE S == {Sources[q] : q \in Questions}
  <2>1. S \in SUBSET (0..b) /\ S /= {}
    BY <1>1, CohortAssumption
  <2> HIDE DEF S
  <2>2. Max(S) \in S
    BY <2>1, MaxIn
  <2> QED BY <2>1, <2>2 DEF S
<1>3. IsFiniteSet(Values)
  <2> DEFINE top == Max({Sources[q] : q \in Questions})
  <2>1. top \in Int
    BY <1>2
  <2> HIDE DEF top
  <2>2. IsFiniteSet(1..top)
    BY <2>1, FS_Interval
  <2>3. IsFiniteSet(Questions \X (1..top))
    BY <2>2, CohortAssumption, FS_Product
  <2>4. Values \in SUBSET (Questions \X (1..top))
    BY DEF Values, top
  <2> QED BY <2>3, <2>4, FS_Subset
<1>4. IsFiniteSet(ExtractionRoutes)
  <2> DEFINE T == Values \X (1..MaxAttempts)
             f == [x \in T |-> ExtractionRoute(x[1], x[2])]
  <2>1. IsFiniteSet(1..MaxAttempts)
    BY Cohort, FS_Interval
  <2>2. IsFiniteSet(T)
    BY <1>3, <2>1, FS_Product
  <2>3. f \in Surjection(T, ExtractionRoutes)
    <3>1. \A x \in T : f[x] \in ExtractionRoutes
      BY DEF ExtractionRoutes
    <3>2. \A r \in ExtractionRoutes : \E x \in T : f[x] = r
      <4> SUFFICES ASSUME NEW v \in Values, NEW n \in 1..MaxAttempts
                   PROVE  \E x \in T : f[x] = ExtractionRoute(v, n)
        BY DEF ExtractionRoutes
      <4>1. <<v, n>> \in T /\ f[<<v, n>>] = ExtractionRoute(v, n)
        OBVIOUS
      <4> QED BY <4>1
    <3>3. f \in [T -> ExtractionRoutes]
      BY <3>1
    <3> HIDE DEF T, f
    <3> QED BY <3>2, <3>3 DEF Surjection
  <2> HIDE DEF T, f
  <2> QED BY <2>2, <2>3, FS_Surjection
<1> DEFINE Asks == {QARoute(q, k) : q \in Questions, k \in QARoutes}
<1>5. IsFiniteSet(Asks)
  <2> DEFINE T == Questions \X QARoutes
             f == [x \in T |-> QARoute(x[1], x[2])]
  <2>1. IsFiniteSet(T)
    BY CohortAssumption, FS_Product
  <2>2. f \in Surjection(T, Asks)
    <3>1. \A x \in T : f[x] \in Asks
      OBVIOUS
    <3>2. \A r \in Asks : \E x \in T : f[x] = r
      <4> SUFFICES ASSUME NEW q \in Questions, NEW k \in QARoutes
                   PROVE  \E x \in T : f[x] = QARoute(q, k)
        OBVIOUS
      <4>1. <<q, k>> \in T /\ f[<<q, k>>] = QARoute(q, k)
        OBVIOUS
      <4> QED BY <4>1
    <3>3. f \in [T -> Asks]
      BY <3>1
    <3> HIDE DEF T, f, Asks
    <3> QED BY <3>2, <3>3 DEF Surjection
  <2> HIDE DEF T, f, Asks
  <2> QED BY <2>1, <2>2, FS_Surjection
<1>6. Routes = ExtractionRoutes \cup Asks
  BY DEF Routes
<1> HIDE DEF Asks
<1> QED BY <1>4, <1>5, <1>6, FS_Union

-----------------------------------------------------------------------------
(* What the steps of a run do to the sum.                                  *)

LEMMA CostBounds ==
    ASSUME NEW j \in [Routes -> JournalRow], NEW r \in Routes
    PROVE  /\ RouteCost(j, r) \in 0..Reserve /\ RouteCost(j, r) \in Int
           /\ j[r].reserved /\ ~j[r].settled => RouteCost(j, r) = Reserve
           /\ j[r].reserved /\ j[r].settled => RouteCost(j, r) = Actual
           /\ ~j[r].reserved => RouteCost(j, r) = 0
  BY CostAssumption DEF RouteCost

LEMMA OwedTyped ==
    /\ JournalOK => Owed \in [Routes -> Int] /\ Total(Owed) \in Int
    /\ JournalOK' => Owed' \in [Routes -> Int] /\ Total(Owed') \in Int
<1>1. ASSUME JournalOK
      PROVE  Owed \in [Routes -> Int]
  <2>1. \A r \in Routes : RouteCost(journal, r) \in Int
    BY <1>1, CostBounds DEF JournalOK
  <2> QED BY <2>1 DEF Owed
<1>2. ASSUME JournalOK'
      PROVE  Owed' \in [Routes -> Int]
  <2>1. \A r \in Routes : RouteCost(journal', r) \in Int
    BY <1>2, CostBounds DEF JournalOK
  <2> QED BY <2>1 DEF Owed
<1> QED BY <1>1, <1>2, RoutesFinite, SumsCompared

\* Nothing more is owed than before.
LEMMA OwesNoMore ==
    ASSUME JournalOK, JournalOK',
           \A r \in Routes : Live(r)' => Live(r) /\ RouteCost(journal', r) <= RouteCost(journal, r)
    PROVE  Total(Owed') <= Total(Owed) /\ Total(Owed) \in Int /\ Total(Owed') \in Int
<1>1. /\ Owed \in [Routes -> Int] /\ Total(Owed) \in Int
      /\ Owed' \in [Routes -> Int] /\ Total(Owed') \in Int
  BY OwedTyped
<1>2. ASSUME NEW r \in Routes
      PROVE  Owed'[r] <= Owed[r]
  <2>1. /\ Owed'[r] = IF Live(r)' THEN RouteCost(journal', r) ELSE 0
        /\ Owed[r] = IF Live(r) THEN RouteCost(journal, r) ELSE 0
    BY DEF Owed
  <2>2. RouteCost(journal, r) \in 0..Reserve
    BY CostBounds DEF JournalOK
  <2> QED BY <2>1, <2>2, CostAssumption
<1>3. Total(Owed') <= Total(Owed)
  BY <1>1, <1>2, RoutesFinite, SumsCompared
<1> QED BY <1>1, <1>3

\* One route owes something else, the others no more than before.
LEMMA OwesOneMore ==
    ASSUME JournalOK, JournalOK', NEW r \in Routes, NEW cost \in Int,
           Owed'[r] <= cost,
           \A s \in Routes \ {r} :
              Live(s)' => Live(s) /\ RouteCost(journal', s) <= RouteCost(journal, s)
    PROVE  /\ Total(Owed') <= Total(Owed) + cost - Owed[r]
           /\ Total(Owed) \in Int /\ Total(Owed') \in Int /\ Owed[r] \in Int
<1>1. /\ Owed \in [Routes -> Int] /\ Total(Owed) \in Int
      /\ Owed' \in [Routes -> Int] /\ Total(Owed') \in Int
  BY OwedTyped
<1> DEFINE mid == [Owed EXCEPT ![r] = cost]
<1>2. mid \in [Routes -> Int] /\ mid[r] = cost /\ \A s \in Routes \ {r} : Owed[s] = mid[s]
  BY <1>1
<1> HIDE DEF mid
<1>3. ASSUME NEW s \in Routes
      PROVE  Owed'[s] <= mid[s]
  <2>1. CASE s = r
    BY <1>2, <2>1
  <2>2. CASE s /= r
    <3>1. /\ Owed'[s] = IF Live(s)' THEN RouteCost(journal', s) ELSE 0
          /\ Owed[s] = IF Live(s) THEN RouteCost(journal, s) ELSE 0
      BY DEF Owed
    <3>2. RouteCost(journal, s) \in 0..Reserve
      BY CostBounds DEF JournalOK
    <3>3. Owed[s] = mid[s]
      BY <1>2, <2>2
    <3> QED BY <2>2, <3>1, <3>2, <3>3, CostAssumption
  <2> QED BY <2>1, <2>2
<1>4. Total(Owed') <= Total(mid) /\ Total(mid) \in Int
  BY <1>1, <1>2, <1>3, RoutesFinite, SumsCompared
<1>5. Total(mid) = Total(Owed) + mid[r] - Owed[r]
  BY <1>1, <1>2, RoutesFinite, SumsCompared
<1>6. Owed[r] \in Int
  BY <1>1
<1> QED BY <1>1, <1>2, <1>4, <1>5, <1>6

LEMMA Affords ==
    ASSUME JournalOK, JournalOK', Budget, Pledged',
           process'.spent \in Int, process'.held \in Int,
           process'.step \notin {"run", "values", "compile"} => process'.held = 0,
           \A r \in Routes : Live(r)' => Live(r) /\ RouteCost(journal', r) <= RouteCost(journal, r),
           LedgerOpen' => LedgerOpen /\ process'.spent + process'.held = process.spent + process.held
    PROVE  Budget'
<1>1. Total(Owed') <= Total(Owed) /\ Total(Owed) \in Int /\ Total(Owed') \in Int
  BY OwesNoMore
<1>2. Total(Owed) <= Cap /\ Cap \in Int
      /\ (LedgerOpen => Total(Owed) <= process.spent + process.held
                         /\ process.spent + process.held <= Cap)
      /\ process.spent \in Int /\ process.held \in Int
  BY CostAssumption DEF Budget
<1>3. Total(Owed') <= Cap
  BY <1>1, <1>2
<1>4. LedgerOpen' => Total(Owed') <= process'.spent + process'.held
                     /\ process'.spent + process'.held <= Cap
  <2> SUFFICES ASSUME LedgerOpen'
               PROVE  Total(Owed') <= process'.spent + process'.held
                      /\ process'.spent + process'.held <= Cap
    OBVIOUS
  <2>1. LedgerOpen /\ process'.spent + process'.held = process.spent + process.held
    OBVIOUS
  <2> QED BY <1>1, <1>2, <2>1
<1> QED BY <1>3, <1>4 DEF Budget

-----------------------------------------------------------------------------
(* The steps of a process that is, afterwards, in none of its calls.       *)

Leaving ==
    /\ process'.step \notin {"run", "values"} /\ process'.call = "none"
    /\ process'.spent \in Int /\ process'.held \in Int
    /\ process'.step /= "compile" => process'.held = 0

LEMMA NothingUnderWay ==
    ASSUME NEW r
    PROVE  /\ RunInv /\ process.step /= "values" /\ process.call \in {"none", "settled"} => ~UnderWay(r)
           /\ RunInv' /\ process'.step /= "values" /\ process'.call \in {"none", "settled"} => ~UnderWay(r)'
<1>1. RunInv /\ process.step /= "values" => Holding = {}
  BY DEF RunInv, ProcessOK, Staged, Holding
<1>2. RunInv' /\ process'.step /= "values" => Holding' = {}
  BY DEF RunInv, ProcessOK, Staged, Holding
<1> QED BY <1>1, <1>2 DEF UnderWay

LEMMA UnderWayRoutes ==
    ASSUME RunInv, Budget, NEW r, UnderWay(r)
    PROVE  r \in Routes /\ journal[r].reserved /\ ~journal[r].settled
<1>1. r \in Routes
  <2>1. CASE \E v \in Holding : r = TaskRoute(v)
    BY <2>1 DEF Budget, Pledged
  <2>2. CASE process.call \in {"reserved", "sent", "answered"} /\ r = CurrentRoute
    <3>1. Asking(process.call)
      BY <2>2 DEF Asking, RunInv, ProcessOK, Staged, AskOK
    <3> QED BY <2>2, <3>1, AskingFacts
  <2> QED BY <2>1, <2>2 DEF UnderWay
<1> QED BY <1>1 DEF Budget, Pledged

LEMMA PledgesKept ==
    ASSUME \A r : UnderWay(r)' => r \in Routes /\ journal'[r].reserved /\ ~journal'[r].settled
    PROVE  Pledged'
<1>1. \A r : (\E v \in Holding' : r = TaskRoute(v)') => UnderWay(r)'
  BY DEF UnderWay
<1>2. \A v \in Holding' : TaskRoute(v)' \in Routes
  BY <1>1
<1> QED BY <1>2 DEF Pledged

LEMMA FreeKeeps ==
    ASSUME RunInv, RunInv', Budget, calls' = calls, \A r : ~UnderWay(r)',
           \A r \in Routes : calls[r] > 0 => RouteCost(journal', r) <= RouteCost(journal, r),
           process'.spent \in Int, process'.held \in Int,
           process'.step \notin {"run", "values", "compile"} => process'.held = 0,
           LedgerOpen' => LedgerOpen /\ process'.spent + process'.held = process.spent + process.held
    PROVE  Budget'
<1>1. JournalOK /\ JournalOK'
  BY DEF RunInv, WorldOK
<1>2. \A r \in Routes : Live(r)' => Live(r) /\ RouteCost(journal', r) <= RouteCost(journal, r)
  BY DEF Live
<1>3. Pledged'
  BY PledgesKept
<1> QED BY <1>1, <1>2, <1>3, Affords

LEMMA LeavingKeeps ==
    ASSUME RunInv, RunInv', Budget, Leaving, calls' = calls,
           \A r \in Routes : calls[r] > 0 => RouteCost(journal', r) <= RouteCost(journal, r)
    PROVE  Budget'
<1>1. \A r : ~UnderWay(r)'
  BY NothingUnderWay DEF Leaving
<1>2. ~LedgerOpen'
  BY DEF LedgerOpen, Leaving
<1> QED BY <1>1, <1>2, FreeKeeps DEF Leaving

LEMMA QuietCosts ==
    ASSUME RunInv, journal' = journal
    PROVE  \A r \in Routes : RouteCost(journal', r) <= RouteCost(journal, r)
<1>1. \A r \in Routes : RouteCost(journal, r) \in Int
  BY CostBounds DEF RunInv, WorldOK, JournalOK
<1> QED BY <1>1

LEMMA EndLeaves ==
    ASSUME Exit \/ Advance \/ \E command, limited : Start(command, limited)
    PROVE  Leaving
<1>1. process'.step = "begin" /\ process'.call = "none" /\ process'.spent = 0 /\ process'.held = 0
  <2>1. CASE Exit
    BY <2>1 DEF Exit, NoProcess
  <2>2. CASE Advance
    BY <2>2 DEF Advance, NoProcess
  <2>3. CASE \E command, limited : Start(command, limited)
    BY <2>3 DEF Start, NoProcess
  <2> QED BY <2>1, <2>2, <2>3
<1> QED BY <1>1 DEF Leaving

LEMMA ContinueLeaves ==
    ASSUME RunInv, Budget, process.call = "none", NEW todo, NEW step,
           Continue(step, todo),
           \/ step = "compile"
           \/ step \in {"begin", "reconcile", "half"}
              /\ process.step \in {"begin", "reconcile", "half"}
    PROVE  Leaving
<1>1. process'.step = step /\ process'.call = "none"
      /\ process'.spent = process.spent /\ process'.held = process.held
  BY DEF Continue, RunInv, ProcessOK, Shaped
<1> QED BY <1>1 DEF Leaving, Budget

LEMMA StayLeaves ==
    ASSUME RunInv, Budget, process' = process, process.step \in {"begin", "reconcile", "half"}
    PROVE  Leaving
  BY NoCall DEF Leaving, Budget, In

LEMMA LocalLeaves ==
    ASSUME RunInv, Budget, LocalStep
    PROVE  Leaving /\ journal' = journal /\ calls' = calls
<1>1. ASSUME NEW phase, NEW kind, NEW source, Produce(phase, kind, source)
      PROVE  Leaving /\ journal' = journal /\ calls' = calls
  <2>1. process.step = "begin" /\ (Advance \/ Exit \/ process' = process)
    BY <1>1 DEF Produce, In
  <2>2. Leaving
    BY <2>1, EndLeaves, StayLeaves
  <2> QED BY <1>1, <2>2 DEF Produce, journalVars
<1>2. CASE PackQuestion
  <2>1. process.step = "begin" /\ (Advance \/ Exit \/ \E q : Continue("half", {q}))
    BY <1>2 DEF PackQuestion, In
  <2>2. process.call = "none"
    BY <2>1, NoCall DEF In
  <2>3. Leaving
    BY <2>1, <2>2, EndLeaves, ContinueLeaves
  <2> QED BY <1>2, <2>3 DEF PackQuestion, journalVars
<1>3. CASE PackTrace
  <2>1. process.step = "half" /\ Continue("begin", {})
    BY <1>3 DEF PackTrace, In
  <2>2. process.call = "none"
    BY <2>1, NoCall DEF In
  <2>3. Leaving
    BY <2>1, <2>2, ContinueLeaves
  <2> QED BY <1>3, <2>3 DEF PackTrace, journalVars
<1>4. CASE RefuseHalf
  BY <1>4, EndLeaves DEF RefuseHalf, journalVars
<1>5. CASE RepairHalf
  <2>1. Leaving
    BY <1>5, StayLeaves DEF RepairHalf, In
  <2> QED BY <1>5, <2>1 DEF RepairHalf, journalVars
<1>6. CASE WriteAudit
  <2>1. Exit \/ Advance
    BY <1>6 DEF WriteAudit, CapExit
  <2> QED BY <1>6, <2>1, EndLeaves DEF WriteAudit, journalVars
<1>7. CASE Diagnose
  <2>1. Exit \/ Advance
    BY <1>7 DEF Diagnose
  <2> QED BY <1>7, <2>1, EndLeaves DEF Diagnose, journalVars
<1>8. CASE DiagnoseE6b
  <2>1. Exit \/ Advance
    BY <1>8 DEF DiagnoseE6b
  <2> QED BY <1>8, <2>1, EndLeaves DEF DiagnoseE6b, journalVars
<1>9. CASE SealPreQA
  <2>1. Exit \/ Advance
    BY <1>9 DEF SealPreQA
  <2> QED BY <1>9, <2>1, EndLeaves DEF SealPreQA, journalVars
<1>10. CASE WriteReport
  <2>1. Exit \/ Advance
    BY <1>10 DEF WriteReport, CapExit
  <2> QED BY <1>10, <2>1, EndLeaves DEF WriteReport, journalVars
<1> QED
  BY <1>1, <1>2, <1>3, <1>4, <1>5, <1>6, <1>7, <1>8, <1>9, <1>10
     DEF LocalStep, RankQuestion, SelectQuestion

LEMMA LeavesQuietly ==
    ASSUME RunInv, RunInv', Budget, Leaving, journal' = journal, calls' = calls
    PROVE  Budget'
  BY QuietCosts, LeavingKeeps

\* Settling never costs more.
LEMMA SettledCosts ==
    ASSUME JournalOK, NEW rs, Settles(rs)
    PROVE  \A r \in Routes : RouteCost(journal', r) <= RouteCost(journal, r)
<1> SUFFICES ASSUME NEW r \in Routes
             PROVE  RouteCost(journal', r) <= RouteCost(journal, r)
  OBVIOUS
<1>1. journal'[r].reserved = journal[r].reserved /\ (journal[r].settled => journal'[r].settled)
  BY DEF Settles
<1>2. Actual \in Int /\ Reserve \in Int /\ Actual <= Reserve
  BY CostAssumption
<1> QED BY <1>1, <1>2 DEF RouteCost

LEMMA BeginExtractBudget ==
    ASSUME RunInv, RunInv', Budget, BeginExtract
    PROVE  Budget'
<1>1. process.step = "begin" /\ journal' = journal /\ calls' = calls
      /\ Continue("reconcile", {v \in Values : v[1] \in Selected})
  BY DEF BeginExtract, In, journalVars
<1>2. process.call = "none"
  BY <1>1, NoCall DEF In
<1>3. Leaving
  BY <1>1, <1>2, ContinueLeaves
<1> QED BY <1>1, <1>3, LeavesQuietly

LEMMA ReconcileExtractionBudget ==
    ASSUME RunInv, RunInv', Budget, ReconcileExtraction
    PROVE  Budget'
<1>1. process.step = "reconcile" /\ calls' = calls /\ process.call = "none"
  BY NoCall DEF ReconcileExtraction, In
<1>2. CASE Irreconcilable(First(process.todo))
  <2>1. Leaving /\ journal' = journal
    BY <1>2, EndLeaves DEF ReconcileExtraction, journalVars
  <2> QED BY <1>1, <2>1, LeavesQuietly
<1>3. CASE ~Irreconcilable(First(process.todo))
  <2>1. PICK v, rs : Continue("reconcile", process.todo \ {v}) /\ journal' = WithSettlement(journal, rs)
    BY <1>3 DEF ReconcileExtraction, ReconcileValue
  <2>2. Leaving
    BY <1>1, <2>1, ContinueLeaves
  <2>3. JournalOK /\ Settles(rs)
    BY <1>1, <2>1, Settling DEF RunInv, WorldOK
  <2>4. \A r \in Routes : RouteCost(journal', r) <= RouteCost(journal, r)
    BY <2>3, SettledCosts
  <2> QED BY <1>1, <2>2, <2>4, LeavingKeeps
<1> QED BY <1>2, <1>3

LEMMA ReconcileQuestionBudget ==
    ASSUME RunInv, RunInv', Budget, ReconcileQuestion
    PROVE  Budget'
<1>1. process.step = "reconcile" /\ calls' = calls /\ process.call = "none"
  BY NoCall DEF ReconcileQuestion, In
<1>2. Leaving
  <2>1. Exit \/ \E todo : Continue("reconcile", todo)
    BY DEF ReconcileQuestion
  <2> QED BY <1>1, <2>1, EndLeaves, ContinueLeaves
<1>3. PICK rs : journal' = WithSettlement(journal, rs)
  BY DEF ReconcileQuestion, ReconcileQA
<1>4. JournalOK /\ Settles(rs)
  BY <1>1, <1>3, Settling DEF RunInv, WorldOK
<1>5. \A r \in Routes : RouteCost(journal', r) <= RouteCost(journal, r)
  BY <1>4, SettledCosts
<1> QED BY <1>1, <1>2, <1>5, LeavingKeeps

\* The ledger a process opens covers whatever was sent before it.
LEMMA OpenLedgerBudget ==
    ASSUME RunInv, RunInv', Budget, OpenExtractionLedger \/ OpenQALedger
    PROVE  Budget'
<1>1. /\ process.step = "reconcile" /\ calls' = calls /\ journal' = journal /\ process.call = "none"
      /\ OpenLedger("run")
  BY NoCall DEF OpenExtractionLedger, OpenQALedger, OpenLedger, In, journalVars
<1>2. CASE Overspent \/ Unresolved /= {}
  <2>1. Exit
    BY <1>1, <1>2 DEF OpenLedger, CapExit
  <2> QED BY <1>1, <2>1, EndLeaves, LeavesQuietly
<1>3. CASE ~Overspent /\ Unresolved = {}
  <2>1. process' = [process EXCEPT !.step = "run", !.spent = JournalCost, !.todo = Selected]
    BY <1>1, <1>3 DEF OpenLedger
  <2>2. /\ process'.step = "run" /\ process'.call = "none"
        /\ process'.spent = JournalCost /\ process'.held = process.held
    BY <1>1, <2>1 DEF RunInv, ProcessOK, Shaped
  <2>3. process.held = 0
    BY <1>1 DEF Budget
  <2>4. \A r : ~UnderWay(r)'
    BY <2>2, NothingUnderWay
  <2> DEFINE cost == [r \in Routes |-> RouteCost(journal, r)]
  <2>5. JournalCost = Total(cost)
    BY DEF JournalCost
  <2>6. JournalOK /\ JournalOK'
    BY DEF RunInv, WorldOK
  <2>7. cost \in [Routes -> Int] /\ \A r \in Routes : cost[r] \in Nat
    BY <2>6, CostBounds, CostAssumption DEF JournalOK
  <2>8. Owed' \in [Routes -> Int]
    BY <2>6, OwedTyped
  <2>9. \A r \in Routes : Owed'[r] <= cost[r]
    BY <1>1, <2>7 DEF Owed
  <2> HIDE DEF cost
  <2>10. Total(Owed') <= Total(cost) /\ Total(cost) \in Int /\ Total(Owed') \in Int
    BY <2>7, <2>8, <2>9, RoutesFinite, SumsCompared
  <2>11. JournalCost <= Cap /\ Cap \in Int
    BY <1>3, <2>5, <2>10, CostAssumption DEF Overspent
  <2>12. Pledged'
    BY <2>4, PledgesKept
  <2> QED BY <2>2, <2>3, <2>5, <2>10, <2>11, <2>12 DEF Budget
<1> QED BY <1>2, <1>3

LEMMA OpenQuestionBudget ==
    ASSUME RunInv, RunInv', Budget, OpenQuestion
    PROVE  Budget'
<1>1. In("extract", "run") /\ journal' = journal /\ calls' = calls /\ process.call = "none" /\ Shaped
      /\ process.step = "run"
  BY NoCall DEF OpenQuestion, journalVars, In, RunInv, ProcessOK
<1>2. process' \in {[process EXCEPT !.todo = process.todo \ {Min(process.todo)}],
                    [process EXCEPT !.step = "values",
                        !.task = [v \in Values |-> IF v[1] = Min(process.todo) THEN "wait" ELSE "idle"]]}
  BY DEF OpenQuestion
<1>3. /\ process'.call = "none" /\ process'.step \in {"run", "values"}
      /\ process'.spent = process.spent /\ process'.held = process.held
  BY <1>1, <1>2 DEF Shaped
<1>4. \A r : ~UnderWay(r)'
  <2>1. CASE process'.step = "run"
    BY <1>3, <2>1, NothingUnderWay
  <2>2. CASE process'.step = "values"
    <3>1. process'.task = [v \in Values |-> IF v[1] = Min(process.todo) THEN "wait" ELSE "idle"]
      BY <1>1, <1>2, <2>2 DEF Shaped
    <3>2. Holding' = {}
      BY <3>1 DEF Holding
    <3> QED BY <1>3, <3>2 DEF UnderWay
  <2> QED BY <1>3, <2>1, <2>2
<1>5. process.spent \in Int /\ process.held \in Int /\ LedgerOpen
  BY <1>1 DEF Budget, LedgerOpen
<1> QED BY <1>1, <1>3, <1>4, <1>5, QuietCosts, FreeKeeps

LEMMA CloseQuestionBudget ==
    ASSUME RunInv, RunInv', Budget, CloseQuestion
    PROVE  Budget'
<1>1. In("extract", "values") /\ journal' = journal /\ calls' = calls /\ process.call = "none" /\ Shaped
      /\ process.step = "values"
  BY NoCall DEF CloseQuestion, journalVars, In, RunInv, ProcessOK
<1>2. CASE Exit
  BY <1>1, <1>2, EndLeaves, LeavesQuietly
<1>3. CASE \E q : process' = [process EXCEPT !.step = "run", !.todo = @ \ {q}, !.task = NoProcess.task]
  <2>1. /\ process'.call = "none" /\ process'.step = "run"
        /\ process'.spent = process.spent /\ process'.held = process.held
    BY <1>1, <1>3 DEF Shaped
  <2>2. \A r : ~UnderWay(r)'
    BY <2>1, NothingUnderWay
  <2>3. process.spent \in Int /\ process.held \in Int /\ LedgerOpen
    BY <1>1 DEF Budget, LedgerOpen
  <2> QED BY <1>1, <2>1, <2>2, <2>3, QuietCosts, FreeKeeps
<1> QED BY <1>2, <1>3 DEF CloseQuestion, CapExit

-----------------------------------------------------------------------------
(* The steps of one value.                                                 *)

Held == {"reserved", "sent", "answered", "persisted"}

\* Only the value that moves starts or stops to hold money.
LEMMA OneMoves ==
    ASSUME RunInv, In("extract", "values"), NEW v \in Values, NEW s \in TaskStates, MovesTask(v, s),
           \A w \in Values \ {v} : attempts'[w] = attempts[w]
    PROVE  /\ \A r : UnderWay(r)' =>
                 \/ s \in Held /\ r = TaskRoute(v)'
                 \/ \E w \in Values \ {v} : w \in Holding /\ r = TaskRoute(w)
           /\ \A w \in Values : w \in Holding => UnderWay(TaskRoute(w))
           /\ \A w \in Values : w \in Holding <=> process.task[w] \in Held
           /\ process.step = "values" /\ process'.step = "values"
           /\ LedgerOpen /\ LedgerOpen'
<1>1. /\ process.step = "values" /\ process'.step = "values" /\ process'.call = "none"
  BY NoCall DEF In, MovesTask
<1>2. /\ \A w \in Values : w \in Holding <=> process.task[w] \in Held
      /\ \A w \in Values : w \in Holding' <=> process'.task[w] \in Held
  BY DEF Holding, Held
<1>3. /\ process'.task[v] = s
      /\ \A w \in Values \ {v} : process'.task[w] = process.task[w]
  BY DEF MovesTask, RunInv, ProcessOK, Shaped
<1>4. \A w \in Values \ {v} : TaskRoute(w)' = TaskRoute(w)
  BY <1>3 DEF TaskRoute, LastRoute, NextRoute
<1>5. ASSUME NEW r, UnderWay(r)'
      PROVE  \/ s \in Held /\ r = TaskRoute(v)'
             \/ \E w \in Values \ {v} : w \in Holding /\ r = TaskRoute(w)
  <2>1. PICK w \in Holding' : r = TaskRoute(w)'
    BY <1>1, <1>5 DEF UnderWay
  <2>2. w \in Values
    BY DEF Holding
  <2>3. CASE w = v
    BY <1>2, <1>3, <2>1, <2>2, <2>3
  <2>4. CASE w /= v
    BY <1>2, <1>3, <1>4, <2>1, <2>2, <2>4
  <2> QED BY <2>3, <2>4
<1>6. \A w \in Values : w \in Holding => UnderWay(TaskRoute(w))
  BY DEF UnderWay
<1> QED BY <1>1, <1>2, <1>5, <1>6 DEF LedgerOpen

LEMMA ValueKeeps ==
    ASSUME RunInv, RunInv', Budget, In("extract", "values"),
           NEW v \in Values, NEW s \in TaskStates, MovesTask(v, s),
           \A w \in Values \ {v} : attempts'[w] = attempts[w],
           s \in Held => process.task[v] \in Held /\ TaskRoute(v)' = TaskRoute(v),
           \A r \in Routes : calls'[r] > 0 => Live(r),
           \A r \in Routes : Live(r) => journal'[r].reserved = journal[r].reserved
                                       /\ journal'[r].settled = journal[r].settled,
           process'.spent \in Int, process'.held \in Int,
           process'.spent + process'.held = process.spent + process.held
    PROVE  Budget'
<1>1. /\ \A r : UnderWay(r)' =>
                 \/ s \in Held /\ r = TaskRoute(v)'
                 \/ \E w \in Values \ {v} : w \in Holding /\ r = TaskRoute(w)
      /\ \A w \in Values : w \in Holding => UnderWay(TaskRoute(w))
      /\ \A w \in Values : w \in Holding <=> process.task[w] \in Held
      /\ LedgerOpen /\ process'.step = "values"
  BY OneMoves
<1>2. ASSUME NEW r, UnderWay(r)'
      PROVE  UnderWay(r)
  BY <1>1, <1>2
<1>3. JournalOK /\ JournalOK'
  BY DEF RunInv, WorldOK
<1>4. ASSUME NEW r \in Routes, Live(r)'
      PROVE  Live(r) /\ RouteCost(journal', r) <= RouteCost(journal, r)
  <2>1. Live(r)
    BY <1>2, <1>4 DEF Live
  <2>2. journal'[r].reserved = journal[r].reserved /\ journal'[r].settled = journal[r].settled
    BY <2>1
  <2>3. RouteCost(journal', r) = RouteCost(journal, r)
    BY <2>2 DEF RouteCost
  <2>4. RouteCost(journal, r) \in Int
    BY <1>3, CostBounds DEF JournalOK
  <2> QED BY <2>1, <2>3, <2>4
<1>5. Pledged'
  <2> SUFFICES ASSUME NEW r, UnderWay(r)'
               PROVE  r \in Routes /\ journal'[r].reserved /\ ~journal'[r].settled
    BY PledgesKept
  <2>1. UnderWay(r) /\ Live(r)
    BY <1>2 DEF Live
  <2> QED BY <2>1, UnderWayRoutes
<1> QED BY <1>1, <1>3, <1>4, <1>5, Affords

\* What the process has in hand after it moved a value.
LEMMA Money ==
    ASSUME Shaped, NEW v, NEW s, NEW h, NEW p
    PROVE  /\ Moves(v, s) => process'.spent = process.spent /\ process'.held = process.held
           /\ process' = [process EXCEPT !.task[v] = s, !.held = h] =>
                process'.spent = process.spent /\ process'.held = h
           /\ process' = [process EXCEPT !.task[v] = s, !.held = h, !.spent = p] =>
                process'.spent = p /\ process'.held = h
           /\ process' = [process EXCEPT !.call = s] =>
                process'.spent = process.spent /\ process'.held = process.held
           /\ process' = [process EXCEPT !.call = s, !.held = h] =>
                process'.spent = process.spent /\ process'.held = h
           /\ process' = [process EXCEPT !.call = s, !.held = h, !.spent = p] =>
                process'.spent = p /\ process'.held = h
  BY DEF Shaped, Moves

\* Charging a failed call moves its money and spends no other.
LEMMA MoneyKept ==
    ASSUME RunInv, Budget, NEW v, (\E s : Moves(v, s)) \/ ChargeFailed(v)
    PROVE  /\ process'.spent \in Int /\ process'.held \in Int
           /\ process'.spent + process'.held = process.spent + process.held
<1>1. Shaped /\ process.spent \in Int /\ process.held \in Int /\ Reserve \in Int
  BY CostAssumption DEF RunInv, ProcessOK, Budget
<1>2. CASE \E s : Moves(v, s)
  <2>1. process'.spent = process.spent /\ process'.held = process.held
    BY <1>1, <1>2, Money
  <2> QED BY <1>1, <2>1
<1>3. CASE ChargeFailed(v)
  <2>1. process'.spent = process.spent + Reserve /\ process'.held = process.held - Reserve
    BY <1>1, <1>3, Money DEF ChargeFailed
  <2> QED BY <1>1, <2>1
<1> QED BY <1>2, <1>3

\* Values that stop or stay without money.
LEMMA IdleValueBudget ==
    ASSUME RunInv, RunInv', Budget, NEW v \in Values,
           \/ FinishValue(v) \/ ExhaustValue(v) \/ NoAnswer(v) \/ PersistFails(v)
           \/ ReserveAttempt(v) /\ ~(Untouched(NextRoute(v)) /\ Affordable)
    PROVE  Budget'
<1>1. /\ In("extract", "values")
      /\ UNCHANGED <<journal, attempts, calls>>
  BY DEF FinishValue, ExhaustValue, NoAnswer, PersistFails, ReserveAttempt, journalVars
<1>2. PICK s \in {"done", "failed", "capped"} : Moves(v, s) \/ (s = "failed" /\ ChargeFailed(v))
  BY DEF FinishValue, ExhaustValue, NoAnswer, PersistFails, ReserveAttempt
<1>3. s \in TaskStates /\ s \notin Held
  BY DEF TaskStates, Held
<1>4. MovesTask(v, s)
  BY <1>2, <1>3, MovesOne DEF RunInv, ProcessOK, ChargeFailed
<1>5. /\ process'.spent \in Int /\ process'.held \in Int
      /\ process'.spent + process'.held = process.spent + process.held
  BY <1>2, MoneyKept
<1> QED BY <1>1, <1>3, <1>4, <1>5, ValueKeeps DEF Live

\* A row that was not reserved is owed nothing, and is not what an open call stands on.
LEMMA UntouchedFree ==
    ASSUME RunInv, Budget, NEW r \in Routes, Untouched(r)
    PROVE  ~Live(r) /\ ~journal[r].reserved /\ ~journal[r].settled /\ calls[r] = 0
<1>1. ~journal[r].reserved /\ ~journal[r].settled
  BY DEF Untouched, NoRow
<1>2. ~UnderWay(r)
  BY <1>1 DEF Budget, Pledged
<1>3. calls[r] \in 0..1 /\ calls[r] /= 1
  BY <1>1 DEF RunInv, WorldOK, JournalOK
<1> QED BY <1>1, <1>2, <1>3 DEF Live

LEMMA ReserveFailsBudget ==
    ASSUME RunInv, RunInv', Budget, NEW v \in Values, ReserveAttemptFails(v)
    PROVE  Budget'
<1>1. /\ In("extract", "values") /\ Len(attempts[v]) < MaxAttempts /\ Untouched(NextRoute(v))
      /\ journal' \in {journal, WithReservation(journal, NextRoute(v))} /\ Moves(v, "failed")
      /\ UNCHANGED <<attempts, calls>>
  BY DEF ReserveAttemptFails
<1>2. "failed" \in TaskStates /\ "failed" \notin Held /\ JournalOK /\ AttemptsOK /\ Shaped
  BY DEF TaskStates, Held, RunInv, WorldOK, ProcessOK
<1>3. NextRoute(v) \in Routes
  BY <1>1, <1>2, NextRouteFacts
<1>4. \A r \in Routes \ {NextRoute(v)} : journal'[r] = journal[r]
  BY <1>1, <1>2, <1>3, Reserving DEF Reserves
<1>5. ~Live(NextRoute(v))
  BY <1>1, <1>3, UntouchedFree
<1>6. MovesTask(v, "failed")
  BY <1>1, <1>2, MovesOne
<1>7. /\ process'.spent \in Int /\ process'.held \in Int
      /\ process'.spent + process'.held = process.spent + process.held
  BY <1>1, MoneyKept
<1>8. \A r \in Routes : Live(r) => journal'[r].reserved = journal[r].reserved
                                       /\ journal'[r].settled = journal[r].settled
  BY <1>4, <1>5
<1>9. \A r \in Routes : calls'[r] > 0 => Live(r)
  BY <1>1 DEF Live
<1> QED BY <1>1, <1>2, <1>6, <1>7, <1>8, <1>9, ValueKeeps

LEMMA SendAttemptBudget ==
    ASSUME RunInv, RunInv', Budget, NEW v \in Values, SendAttempt(v)
    PROVE  Budget'
<1>1. /\ In("extract", "values") /\ process.task[v] = "reserved"
      /\ calls' = [calls EXCEPT ![NextRoute(v)] = @ + 1] /\ Moves(v, "sent")
      /\ UNCHANGED <<journal, attempts>>
  BY DEF SendAttempt, journalVars, Send
<1>2. {"sent", "reserved"} \subseteq TaskStates \cap Held /\ JournalOK /\ Shaped
  BY DEF TaskStates, Held, RunInv, WorldOK, ProcessOK
<1>3. MovesTask(v, "sent")
  BY <1>1, <1>2, MovesOne
<1>4. process'.task[v] = "sent"
  BY <1>2, <1>3 DEF MovesTask, Shaped
<1>5. TaskRoute(v) = NextRoute(v) /\ TaskRoute(v)' = TaskRoute(v)
  BY <1>1, <1>4 DEF TaskRoute, NextRoute
<1>6. UnderWay(NextRoute(v))
  BY <1>1, <1>5 DEF UnderWay, Holding
<1>7. /\ process'.spent \in Int /\ process'.held \in Int
      /\ process'.spent + process'.held = process.spent + process.held
  BY <1>1, MoneyKept
<1>8. ASSUME NEW r \in Routes, calls'[r] > 0
      PROVE  Live(r)
  BY <1>1, <1>2, <1>6, <1>8 DEF Live, JournalOK
<1> QED BY <1>1, <1>2, <1>3, <1>5, <1>7, <1>8, ValueKeeps

LEMMA AnswerAttemptBudget ==
    ASSUME RunInv, RunInv', Budget, NEW v \in Values, NEW answer \in Answers,
           AnswerAttempt(v, answer)
    PROVE  Budget'
<1>1. /\ In("extract", "values") /\ process.task[v] = "sent"
      /\ journal' = WithResponse(journal, NextRoute(v), answer)
      /\ UNCHANGED <<attempts, calls>>
  BY DEF AnswerAttempt
<1>2. JournalOK /\ Shaped
  BY DEF RunInv, WorldOK, ProcessOK
<1>3. PICK s \in {"failed", "answered"} : Moves(v, s) \/ (s = "failed" /\ ChargeFailed(v))
  BY DEF AnswerAttempt
<1>4. s \in TaskStates /\ process.task[v] \in Held
  BY <1>1 DEF TaskStates, Held
<1>5. MovesTask(v, s)
  BY <1>2, <1>3, <1>4, MovesOne DEF ChargeFailed
<1>6. process'.task[v] = s
  BY <1>2, <1>5 DEF MovesTask, Shaped
<1>7. TaskRoute(v)' = TaskRoute(v)
  BY <1>1, <1>6 DEF TaskRoute, NextRoute
<1>8. /\ process'.spent \in Int /\ process'.held \in Int
      /\ process'.spent + process'.held = process.spent + process.held
  BY <1>3, MoneyKept
<1>9. \A r \in Routes : /\ journal'[r].reserved = journal[r].reserved
                        /\ journal'[r].settled = journal[r].settled
  BY <1>1, <1>2 DEF WithResponse, JournalOK, JournalRow
<1> QED BY <1>1, <1>4, <1>5, <1>7, <1>8, <1>9, ValueKeeps DEF Live

LEMMA PersistAttemptBudget ==
    ASSUME RunInv, RunInv', Budget, NEW v \in Values, PersistAttempt(v)
    PROVE  Budget'
<1>1. /\ In("extract", "values") /\ process.task[v] = "answered" /\ Moves(v, "persisted")
      /\ attempts' = [attempts EXCEPT ![v] = Append(@, journal[NextRoute(v)].response)]
      /\ UNCHANGED <<journal, calls>>
  BY DEF PersistAttempt
<1>2. AttemptsOK /\ Shaped
  BY DEF RunInv, WorldOK, ProcessOK
<1>3. "persisted" \in TaskStates /\ process.task[v] \in Held
  BY <1>1 DEF TaskStates, Held
<1>4. MovesTask(v, "persisted")
  BY <1>1, <1>2, <1>3, MovesOne
<1>5. process'.task[v] = "persisted"
  BY <1>2, <1>4 DEF MovesTask, Shaped
<1>6. Len(attempts'[v]) = Len(attempts[v]) + 1 /\ \A w \in Values \ {v} : attempts'[w] = attempts[w]
  BY <1>1, <1>2 DEF AttemptsOK
<1>7. TaskRoute(v)' = TaskRoute(v)
  BY <1>1, <1>5, <1>6 DEF TaskRoute, NextRoute, LastRoute
<1>8. /\ process'.spent \in Int /\ process'.held \in Int
      /\ process'.spent + process'.held = process.spent + process.held
  BY <1>1, MoneyKept
<1> QED BY <1>1, <1>3, <1>4, <1>6, <1>7, <1>8, ValueKeeps DEF Live

\* Money is held for one more route, which the ledger can afford.
LEMMA OneMoreHeld ==
    ASSUME RunInv, RunInv', Budget, NEW r \in Routes, Untouched(r), Affordable, LedgerOpen,
           journal' = WithReservation(journal, r), calls' = calls,
           \A s : UnderWay(s)' => UnderWay(s) \/ s = r,
           process'.spent = process.spent, process'.held = process.held + Reserve,
           process'.step \in {"run", "values"}
    PROVE  Budget'
<1>1. JournalOK /\ JournalOK'
  BY DEF RunInv, WorldOK
<1>2. Reserves(r)
  BY <1>1, Reserving
<1>3. ~Live(r) /\ ~journal[r].reserved /\ ~journal[r].settled /\ calls[r] = 0
  BY UntouchedFree
<1>4. journal'[r].reserved /\ ~journal'[r].settled /\ \A s \in Routes \ {r} : journal'[s] = journal[s]
  BY <1>2, <1>3 DEF Reserves
<1>5. Pledged'
  <2> SUFFICES ASSUME NEW s, UnderWay(s)'
               PROVE  s \in Routes /\ journal'[s].reserved /\ ~journal'[s].settled
    BY PledgesKept
  <2>1. CASE s = r
    BY <1>4, <2>1
  <2>2. CASE s /= r
    BY <1>4, <2>2, UnderWayRoutes
  <2> QED BY <2>1, <2>2
<1>6. Owed[r] = 0
  BY <1>3 DEF Owed
<1>7. Owed'[r] <= Reserve /\ Reserve \in Int
  <2>1. RouteCost(journal', r) \in 0..Reserve /\ Reserve \in Nat
    BY <1>1, CostBounds, CostAssumption DEF JournalOK
  <2>2. Owed'[r] = IF Live(r)' THEN RouteCost(journal', r) ELSE 0
    BY DEF Owed
  <2> QED BY <2>1, <2>2
<1>8. ASSUME NEW s \in Routes \ {r}, Live(s)'
      PROVE  Live(s) /\ RouteCost(journal', s) <= RouteCost(journal, s)
  <2>1. Live(s)
    BY <1>8 DEF Live
  <2>2. RouteCost(journal', s) = RouteCost(journal, s)
    BY <1>4 DEF RouteCost
  <2>3. RouteCost(journal, s) \in Int
    BY <1>1, CostBounds DEF JournalOK
  <2> QED BY <2>1, <2>2, <2>3
<1>9. Total(Owed') <= Total(Owed) + Reserve - Owed[r] /\ Total(Owed) \in Int /\ Total(Owed') \in Int
  BY <1>1, <1>7, <1>8, OwesOneMore
<1>10. /\ process.spent \in Int /\ process.held \in Int /\ Total(Owed) <= process.spent + process.held
       /\ Cap \in Int /\ process.spent + process.held + Reserve <= Cap
  BY CostAssumption DEF Budget, Affordable
<1>11. /\ Total(Owed') <= process'.spent + process'.held /\ process'.spent + process'.held <= Cap
       /\ Total(Owed') <= Cap /\ process'.spent \in Int /\ process'.held \in Int
  BY <1>6, <1>7, <1>9, <1>10
<1> QED BY <1>5, <1>11 DEF Budget

\* The money of one route becomes its price.
LEMMA OneSettled ==
    ASSUME RunInv, RunInv', Budget, NEW r, UnderWay(r), LedgerOpen,
           journal' = WithSettlement(journal, {r}), calls' = calls,
           \A s : UnderWay(s)' => UnderWay(s) /\ s /= r,
           process'.spent = process.spent + Actual, process'.held = process.held - Reserve,
           process'.step \in {"run", "values"}
    PROVE  Budget'
<1>1. JournalOK /\ JournalOK'
  BY DEF RunInv, WorldOK
<1>2. Settles({r})
  BY <1>1, Settling
<1>3. r \in Routes /\ journal[r].reserved /\ ~journal[r].settled /\ Live(r)
  BY UnderWayRoutes DEF Live
<1>4. Pledged'
  <2> SUFFICES ASSUME NEW s, UnderWay(s)'
               PROVE  s \in Routes /\ journal'[s].reserved /\ ~journal'[s].settled
    BY PledgesKept
  <2> QED BY <1>2, UnderWayRoutes DEF Settles
<1>5. Owed[r] = Reserve
  BY <1>1, <1>3, CostBounds DEF Owed, JournalOK
<1>6. Owed'[r] <= Actual /\ Actual \in Int /\ Reserve \in Int
  <2>1. RouteCost(journal', r) = Actual /\ Actual \in 0..Reserve /\ Reserve \in Nat
    BY <1>1, <1>2, <1>3, CostBounds, CostAssumption DEF Settles, JournalOK
  <2>2. Owed'[r] = IF Live(r)' THEN RouteCost(journal', r) ELSE 0
    BY <1>3 DEF Owed
  <2> QED BY <2>1, <2>2
<1>7. \A s \in Routes \ {r} : Live(s)' => Live(s) /\ RouteCost(journal', s) <= RouteCost(journal, s)
  BY <1>1, <1>2, SettledCosts DEF Live
<1>8. Total(Owed') <= Total(Owed) + Actual - Owed[r] /\ Total(Owed) \in Int /\ Total(Owed') \in Int
  BY <1>1, <1>3, <1>6, <1>7, OwesOneMore
<1>9. /\ process.spent \in Int /\ process.held \in Int /\ Total(Owed) <= process.spent + process.held
      /\ Cap \in Int /\ process.spent + process.held <= Cap /\ Actual <= Reserve
  BY CostAssumption DEF Budget
<1>10. /\ Total(Owed') <= process'.spent + process'.held /\ process'.spent + process'.held <= Cap
       /\ Total(Owed') <= Cap /\ process'.spent \in Int /\ process'.held \in Int
  BY <1>5, <1>6, <1>8, <1>9
<1> QED BY <1>4, <1>10 DEF Budget

LEMMA ReserveAttemptBudget ==
    ASSUME RunInv, RunInv', Budget, NEW v \in Values, ReserveAttempt(v)
    PROVE  Budget'
<1>1. CASE ~(Untouched(NextRoute(v)) /\ Affordable)
  BY <1>1, IdleValueBudget
<1>2. CASE Untouched(NextRoute(v)) /\ Affordable
  <2>1. /\ In("extract", "values") /\ Len(attempts[v]) < MaxAttempts
        /\ journal' = WithReservation(journal, NextRoute(v))
        /\ process' = [process EXCEPT !.task[v] = "reserved", !.held = @ + Reserve]
        /\ UNCHANGED <<attempts, calls>>
    BY <1>2 DEF ReserveAttempt
  <2>2. Shaped /\ AttemptsOK /\ "reserved" \in TaskStates
    BY DEF RunInv, ProcessOK, WorldOK, TaskStates
  <2>3. MovesTask(v, "reserved")
    BY <2>1, <2>2, MovesOne
  <2>4. process'.task[v] = "reserved"
    BY <2>2, <2>3 DEF MovesTask, Shaped
  <2>5. TaskRoute(v)' = NextRoute(v)
    BY <2>1, <2>4 DEF TaskRoute, NextRoute
  <2>6. \A r : UnderWay(r)' => UnderWay(r) \/ r = NextRoute(v)
    BY <2>1, <2>2, <2>3, <2>5, OneMoves
  <2>7. process'.spent = process.spent /\ process'.held = process.held + Reserve
    BY <2>1, <2>2 DEF Shaped
  <2>8. LedgerOpen /\ process'.step \in {"run", "values"}
    BY <2>1, <2>2, <2>3, OneMoves
  <2>9. NextRoute(v) \in Routes
    BY <2>1, <2>2, NextRouteFacts
  <2> QED BY <1>2, <2>1, <2>6, <2>7, <2>8, <2>9, OneMoreHeld
<1> QED BY <1>1, <1>2

LEMMA SettleAttemptBudget ==
    ASSUME RunInv, RunInv', Budget, NEW v \in Values, SettleAttempt(v)
    PROVE  Budget'
<1>1. /\ In("extract", "values") /\ process.task[v] = "persisted"
      /\ journal' = WithSettlement(journal, {LastRoute(v)})
      /\ process' = [process EXCEPT !.task[v] = "wait", !.held = @ - Reserve, !.spent = @ + Actual]
      /\ UNCHANGED <<attempts, calls>>
  BY DEF SettleAttempt
<1>2. Shaped /\ AttemptsOK /\ "wait" \in TaskStates /\ "wait" \notin Held
  BY DEF RunInv, ProcessOK, WorldOK, TaskStates, Held
<1>3. MovesTask(v, "wait")
  BY <1>1, <1>2, MovesOne
<1>4. TaskRoute(v) = LastRoute(v) /\ process.task[v] \in Held
  BY <1>1 DEF TaskRoute, Held
<1>5. \A w \in Values \ {v} : TaskRoute(w) /= LastRoute(v)
  BY RouteFacts DEF TaskRoute, LastRoute, NextRoute
<1>6. /\ UnderWay(LastRoute(v))
      /\ \A r : UnderWay(r)' => UnderWay(r) /\ r /= LastRoute(v)
      /\ LedgerOpen /\ process'.step \in {"run", "values"}
  BY <1>1, <1>2, <1>3, <1>4, <1>5, OneMoves
<1>7. process'.spent = process.spent + Actual /\ process'.held = process.held - Reserve
  BY <1>1, <1>2, Money
<1> QED BY <1>1, <1>6, <1>7, OneSettled

-----------------------------------------------------------------------------
(* The reader and judge calls.                                             *)

\* What is under way while questions are asked is the current call, if any.
LEMMA AskingUnderWay ==
    ASSUME RunInv, Budget, NEW c, Asking(c)
    PROVE  /\ LedgerOpen /\ process.step = "run" /\ process.call = c /\ Shaped
           /\ CurrentRoute \in Routes
           /\ c \in {"reserved", "sent", "answered"} => UnderWay(CurrentRoute)
           /\ process.spent \in Int /\ process.held \in Int
<1>1. process.step = "run" /\ process.call = c
  BY DEF Asking, In
<1> QED BY <1>1, AskingFacts DEF UnderWay, LedgerOpen, Budget

LEMMA CallUnderWay ==
    ASSUME RunInv', NEW c, MovesCall(c), process.step = "run", receipts' = receipts
    PROVE  /\ \A r : UnderWay(r)' => c \in {"reserved", "sent", "answered"} /\ r = CurrentRoute
           /\ process'.step = "run"
<1>1. process'.step = "run" /\ process'.todo = process.todo /\ process'.call = c
  BY DEF MovesCall
<1>2. Holding' = {}
  BY <1>1 DEF RunInv, ProcessOK, Staged, Holding
<1>3. CurrentRoute' = CurrentRoute
  BY <1>1 DEF CurrentRoute, Asked
<1> QED BY <1>1, <1>2, <1>3 DEF UnderWay

LEMMA AskBudget ==
    ASSUME RunInv, RunInv', Budget, SendQA \/ \E answer \in Answers : AnswerQA(answer)
    PROVE  Budget'
<1>1. PICK c \in {"reserved", "sent"} :
        /\ Asking(c) /\ receipts' = receipts
        /\ SendQA \/ calls' = calls
  BY DEF SendQA, AnswerQA, journalVars
<1>2. /\ LedgerOpen /\ process.step = "run" /\ Shaped /\ CurrentRoute \in Routes
      /\ UnderWay(CurrentRoute) /\ process.spent \in Int /\ process.held \in Int
  BY <1>1, AskingUnderWay
<1>3. JournalOK /\ JournalOK'
  BY DEF RunInv, WorldOK
<1>4. \A r \in Routes : /\ journal'[r].reserved = journal[r].reserved
                        /\ journal'[r].settled = journal[r].settled
  BY <1>3 DEF SendQA, AnswerQA, WithResponse, journalVars, JournalOK, JournalRow
<1>5. \A r \in Routes : RouteCost(journal', r) <= RouteCost(journal, r)
  <2>1. \A r \in Routes : RouteCost(journal', r) = RouteCost(journal, r)
    BY <1>4 DEF RouteCost
  <2>2. \A r \in Routes : RouteCost(journal, r) \in Int
    BY <1>3, CostBounds DEF JournalOK
  <2> QED BY <2>1, <2>2
<1>6. CASE Exit
  <2>1. calls' = calls
    BY <1>1, <1>2, <1>6 DEF SendQA, Exit, NoProcess, Shaped
  <2> QED BY <1>5, <1>6, <2>1, EndLeaves, LeavingKeeps
<1>7. CASE \E d \in {"sent", "answered"} : process' = [process EXCEPT !.call = d]
  <2>1. PICK d \in {"sent", "answered"} : process' = [process EXCEPT !.call = d]
    BY <1>7
  <2>2. MovesCall(d) /\ process'.spent = process.spent /\ process'.held = process.held
    BY <1>2, <2>1, MovesTheCall DEF Shaped
  <2>3. process'.step = "run" /\ \A r : UnderWay(r)' => r = CurrentRoute
    BY <1>1, <1>2, <2>2, CallUnderWay
  <2>4. Pledged'
    BY <1>2, <1>4, <2>3, PledgesKept, UnderWayRoutes
  <2>5. \A r \in Routes : calls'[r] > 0 => Live(r)
    BY <1>1, <1>2, <1>3 DEF SendQA, Send, Live, JournalOK
  <2>6. \A r \in Routes : Live(r)' => Live(r) /\ RouteCost(journal', r) <= RouteCost(journal, r)
    BY <1>2, <1>5, <2>3, <2>5 DEF Live
  <2> QED BY <1>2, <1>3, <2>2, <2>3, <2>4, <2>6, Affords
<1> QED BY <1>6, <1>7 DEF SendQA, AnswerQA

LEMMA ReserveQABudget ==
    ASSUME RunInv, RunInv', Budget, ReserveQA
    PROVE  Budget'
<1>1. Asking("none") /\ calls' = calls /\ receipts' = receipts
  BY DEF ReserveQA
<1>2. LedgerOpen /\ process.step = "run" /\ Shaped /\ CurrentRoute \in Routes
  BY <1>1, AskingUnderWay
<1>3. CASE ~(Untouched(CurrentRoute) /\ Affordable)
  <2>1. Exit /\ journal' = journal
    BY <1>3 DEF ReserveQA, CapExit
  <2> QED BY <1>1, <2>1, EndLeaves, LeavesQuietly
<1>4. CASE Untouched(CurrentRoute) /\ Affordable
  <2>1. /\ journal' = WithReservation(journal, CurrentRoute)
        /\ process' = [process EXCEPT !.call = "reserved", !.held = @ + Reserve]
    BY <1>4 DEF ReserveQA
  <2>2. /\ MovesCall("reserved")
        /\ process'.spent = process.spent /\ process'.held = process.held + Reserve
    BY <1>2, <2>1, MovesTheCall DEF Shaped
  <2>3. process'.step = "run" /\ \A r : UnderWay(r)' => r = CurrentRoute
    BY <1>1, <1>2, <2>2, CallUnderWay
  <2> QED BY <1>1, <1>2, <1>4, <2>1, <2>2, <2>3, OneMoreHeld
<1> QED BY <1>3, <1>4

LEMMA FailQABudget ==
    ASSUME RunInv, RunInv', Budget, FailQA
    PROVE  Budget'
<1>1. /\ calls' = calls /\ Exit
      /\ \/ journal' = journal
         \/ /\ Asking("none") /\ Untouched(CurrentRoute)
            /\ journal' = WithReservation(journal, CurrentRoute)
  BY DEF FailQA
<1>2. CASE journal' = journal
  BY <1>1, <1>2, EndLeaves, LeavesQuietly
<1>3. CASE Asking("none") /\ Untouched(CurrentRoute) /\ journal' = WithReservation(journal, CurrentRoute)
  <2>1. CurrentRoute \in Routes /\ JournalOK
    BY <1>3, AskingUnderWay DEF RunInv, WorldOK
  <2>2. calls[CurrentRoute] = 0
    BY <1>3, <2>1, UntouchedFree
  <2>3. \A r \in Routes \ {CurrentRoute} : journal'[r] = journal[r]
    BY <1>1, <1>3, <2>1, Reserving DEF Reserves
  <2>4. ASSUME NEW r \in Routes, calls[r] > 0
        PROVE  RouteCost(journal', r) <= RouteCost(journal, r)
    <3>1. journal'[r] = journal[r]
      BY <2>2, <2>3, <2>4
    <3>2. RouteCost(journal', r) = RouteCost(journal, r)
      BY <3>1 DEF RouteCost
    <3>3. RouteCost(journal, r) \in Int
      BY <2>1, CostBounds DEF JournalOK
    <3> QED BY <3>2, <3>3
  <2> QED BY <1>1, <2>4, EndLeaves, LeavingKeeps
<1> QED BY <1>1, <1>2, <1>3

LEMMA SettleQABudget ==
    ASSUME RunInv, RunInv', Budget, SettleQA
    PROVE  Budget'
<1>1. /\ Asking("answered") /\ calls' = calls /\ receipts' = receipts
      /\ journal' = WithSettlement(journal, {CurrentRoute})
      /\ process' = [process EXCEPT !.call = "settled", !.held = @ - Reserve, !.spent = @ + Actual]
  BY DEF SettleQA
<1>2. LedgerOpen /\ process.step = "run" /\ Shaped /\ UnderWay(CurrentRoute)
  BY <1>1, AskingUnderWay
<1>3. /\ MovesCall("settled")
      /\ process'.spent = process.spent + Actual /\ process'.held = process.held - Reserve
  BY <1>1, <1>2, MovesTheCall DEF Shaped
<1>4. process'.step = "run" /\ \A r : ~UnderWay(r)'
  BY <1>1, <1>2, <1>3, CallUnderWay
<1> QED BY <1>1, <1>2, <1>3, <1>4, OneSettled

\* Between two calls nothing is under way and the ledger stays as it is.
LEMMA BetweenCallsBudget ==
    ASSUME RunInv, RunInv', Budget, RecordReceipt \/ SkipAnswered \/ WriteQAArtifact
    PROVE  Budget'
<1>1. journal' = journal /\ calls' = calls /\ process.step = "run" /\ Shaped
  BY DEF RecordReceipt, SkipAnswered, WriteQAArtifact, Asking, In, journalVars, RunInv, ProcessOK
<1>2. CASE Exit
  BY <1>1, <1>2, EndLeaves, LeavesQuietly
<1>3. CASE process' = [process EXCEPT !.call = "none"]
           \/ (process.call = "none" /\ process' = [process EXCEPT !.todo = @ \ {Asked}])
  <2>1. /\ process'.call = "none" /\ process'.step = "run"
        /\ process'.spent = process.spent /\ process'.held = process.held
    BY <1>1, <1>3 DEF Shaped
  <2>2. \A r : ~UnderWay(r)'
    BY <2>1, NothingUnderWay
  <2>3. process.spent \in Int /\ process.held \in Int /\ LedgerOpen
    BY <1>1 DEF Budget, LedgerOpen
  <2> QED BY <1>1, <2>1, <2>2, <2>3, QuietCosts, FreeKeeps
<1>4. SkipAnswered => process.call = "none"
  BY DEF SkipAnswered, RunInv, ProcessOK, AskOK
<1>5. WriteQAArtifact => process.call = "none"
  <2> SUFFICES ASSUME WriteQAArtifact, process.call /= "none"
               PROVE  FALSE
    OBVIOUS
  <2>1. receipts[Asked] = Cardinality(QARoutes) /\ receipts[Asked] < Cardinality(QARoutes)
    BY DEF WriteQAArtifact, RunInv, ProcessOK, AskOK
  <2> QED BY <2>1, Cohort
<1> QED BY <1>2, <1>3, <1>4, <1>5 DEF RecordReceipt, SkipAnswered, WriteQAArtifact

LEMMA PhaseBudget ==
    ASSUME RunInv, RunInv', Budget, BeginQA \/ CompleteQA \/ CompileFinal \/ EndExtract
    PROVE  Budget'
<1>1. journal' = journal /\ calls' = calls
  BY DEF BeginQA, CompleteQA, CompileFinal, EndExtract, journalVars
<1>2. CASE Exit \/ Advance
  BY <1>1, <1>2, EndLeaves, LeavesQuietly
<1>3. CASE BeginQA /\ Continue("reconcile", Questions)
  <2>1. process.step = "begin" /\ process.call = "none"
    BY <1>3, NoCall DEF BeginQA, In
  <2> QED BY <1>1, <1>3, <2>1, ContinueLeaves, LeavesQuietly
<1>4. CASE CompleteQA /\ Continue("compile", {})
  <2>1. process.call = "none"
    BY <1>4 DEF CompleteQA, RunInv, ProcessOK, AskOK
  <2> QED BY <1>1, <1>4, <2>1, ContinueLeaves, LeavesQuietly
<1> QED BY <1>2, <1>3, <1>4 DEF BeginQA, CompleteQA, CompileFinal, EndExtract

-----------------------------------------------------------------------------
(* The cap.                                                                *)

LEMMA InitBudget == Init => Budget
<1> SUFFICES ASSUME Init
             PROVE  Budget
  OBVIOUS
<1>1. RunInv /\ process = NoProcess /\ \A r \in Routes : calls[r] = 0
  BY InitRun DEF Init
<1>2. process.step = "begin" /\ process.call = "none" /\ process.spent = 0 /\ process.held = 0
  BY <1>1 DEF NoProcess
<1>3. \A r : ~UnderWay(r)
  BY <1>1, <1>2, NothingUnderWay
<1>4. Pledged
  <2>1. Holding = {}
    BY <1>1 DEF NoProcess, Holding
  <2> QED BY <1>3, <2>1 DEF Pledged
<1>5. \A r \in Routes : Owed[r] = 0
  BY <1>1, <1>3 DEF Owed, Live
<1>6. Total(Owed) <= 0 /\ Total(Owed) \in Int
  <2>1. Owed \in [Routes -> Int] /\ Total(Owed) \in Int
    BY <1>1, OwedTyped DEF RunInv, WorldOK
  <2>2. Total(Owed) = 0
    BY <1>5, <2>1, RoutesFinite, SumsCompared
  <2> QED BY <2>2
<1> QED BY <1>2, <1>4, <1>6, CostAssumption DEF Budget, LedgerOpen

LEMMA ExtractBudget ==
    ASSUME RunInv, RunInv', Budget, ExtractStep
    PROVE  Budget'
<1>1. CASE BeginExtract \/ ReconcileExtraction \/ OpenExtractionLedger
  BY <1>1, BeginExtractBudget, ReconcileExtractionBudget, OpenLedgerBudget
<1>2. CASE OpenQuestion \/ CloseQuestion \/ EndExtract
  BY <1>2, OpenQuestionBudget, CloseQuestionBudget, PhaseBudget
<1>3. ASSUME NEW v \in Values, FinishValue(v) \/ ExhaustValue(v) \/ ReserveAttempt(v)
      PROVE  Budget'
  BY <1>3, IdleValueBudget, ReserveAttemptBudget
<1>4. ASSUME NEW v \in Values, SendAttempt(v) \/ PersistAttempt(v) \/ SettleAttempt(v)
      PROVE  Budget'
  BY <1>4, SendAttemptBudget, PersistAttemptBudget, SettleAttemptBudget
<1>5. ASSUME NEW v \in Values, NEW a \in Answers, AnswerAttempt(v, a)
      PROVE  Budget'
  BY <1>5, AnswerAttemptBudget
<1> QED BY <1>1, <1>2, <1>3, <1>4, <1>5 DEF ExtractStep

LEMMA QABudget ==
    ASSUME RunInv, RunInv', Budget, QAStep
    PROVE  Budget'
<1>1. CASE BeginQA \/ ReconcileQuestion \/ OpenQALedger \/ CompleteQA \/ CompileFinal
  BY <1>1, PhaseBudget, ReconcileQuestionBudget, OpenLedgerBudget
<1>2. CASE SkipAnswered \/ WriteQAArtifact \/ RecordReceipt
  BY <1>2, BetweenCallsBudget
<1>3. CASE ReserveQA \/ SendQA \/ SettleQA
  BY <1>3, ReserveQABudget, AskBudget, SettleQABudget
<1>4. CASE \E a \in Answers : AnswerQA(a)
  BY <1>4, AskBudget
<1> QED BY <1>1, <1>2, <1>3, <1>4 DEF QAStep

\* A step that leaves journal and process alone leaves the ledger alone.
LEMMA QuietBudget ==
    ASSUME RunInv, RunInv', Budget, UNCHANGED <<journalVars, calls, process>>
    PROVE  Budget'
<1>1. UNCHANGED <<journal, attempts, receipts, calls, process>>
  BY DEF journalVars
<1>2. \A r : UnderWay(r)' <=> UnderWay(r)
  BY <1>1 DEF UnderWay, Holding, TaskRoute, LastRoute, NextRoute, CurrentRoute, Asked
<1>3. JournalOK /\ JournalOK'
  BY DEF RunInv, WorldOK
<1>4. Pledged'
  BY <1>1, <1>2, UnderWayRoutes, PledgesKept
<1>5. \A r \in Routes : Live(r)' => Live(r) /\ RouteCost(journal', r) <= RouteCost(journal, r)
  BY <1>1, <1>2, QuietCosts DEF Live
<1> QED BY <1>1, <1>3, <1>4, <1>5, Affords DEF Budget, LedgerOpen

LEMMA FaultBudget ==
    ASSUME RunInv, RunInv', Budget, Fault
    PROVE  Budget'
<1>1. ASSUME NEW v \in Values, ReserveAttemptFails(v) \/ NoAnswer(v) \/ PersistFails(v)
      PROVE  Budget'
  BY <1>1, ReserveFailsBudget, IdleValueBudget
<1>2. CASE FailQA
  BY <1>2, FailQABudget
<1>4. CASE ResendQA \/ \E v \in Values : ResendAttempt(v)
  BY <1>4, ResendsQuietly, QuietBudget
<1>3. CASE Crash
  <2>1. Exit /\ journal' = journal /\ calls' = calls
    BY <1>3 DEF Crash, journalVars
  <2> QED BY <2>1, EndLeaves, LeavesQuietly
<1> QED BY <1>1, <1>2, <1>3, <1>4 DEF Fault

LEMMA NextBudget == RunInv /\ Budget /\ RunInv' /\ [Next]_vars => Budget'
<1> SUFFICES ASSUME RunInv, Budget, RunInv', [Next]_vars
             PROVE  Budget'
  OBVIOUS
<1>1. ASSUME NEW command, NEW limited, Start(command, limited)
      PROVE  Budget'
  <2>1. Leaving /\ journal' = journal /\ calls' = calls
    BY <1>1, EndLeaves DEF Start, journalVars
  <2> QED BY <2>1, LeavesQuietly
<1>2. CASE LocalStep
  BY <1>2, LocalLeaves, LeavesQuietly
<1>3. CASE ExtractStep \/ QAStep \/ Fault
  BY <1>3, ExtractBudget, QABudget, FaultBudget
<1>4. CASE UNCHANGED vars
  BY <1>4, QuietBudget DEF vars, journalVars
<1> QED BY <1>1, <1>2, <1>3, <1>4 DEF Next, Step

\* The ledger of every process covers what the provider may bill, and stays within
\* the cap.
LEMMA BudgetKept == Spec => []Budget
<1>1. RunInv /\ Budget /\ RunInv' /\ [Next]_vars => Budget'
  BY NextBudget
<1> QED BY <1>1, InitBudget, RunSound, PTL DEF Spec

\* The hard cap holds over all processes of a run directory together, for every
\* cohort, every cap and every price up to the reservation, and any number of
\* kills, failed writes and unanswered calls.
THEOREM CapHolds == Spec => []SpendWithinCap
<1>1. ASSUME RunInv, Budget
      PROVE  SpendWithinCap
  <2> DEFINE bill == [r \in Routes |-> IF calls[r] = 0 THEN 0 ELSE RouteCost(journal, r)]
  <2>1. /\ JournalOK /\ \A r \in Routes : RouteCost(journal, r) \in Nat
    BY <1>1, CostBounds, CostAssumption DEF RunInv, WorldOK, JournalOK
  <2>2. bill \in [Routes -> Int] /\ Owed \in [Routes -> Int]
    BY <2>1, OwedTyped
  <2>3. \A r \in Routes : bill[r] <= Owed[r]
    <3>1. \A r \in Routes : calls[r] = 0 \/ calls[r] > 0
      BY <2>1 DEF JournalOK
    <3> QED BY <2>1, <3>1 DEF Owed, Live
  <2>4. Billed = Total(bill)
    BY DEF Billed
  <2> HIDE DEF bill
  <2>5. Total(bill) <= Total(Owed) /\ Total(bill) \in Int /\ Total(Owed) \in Int
    BY <2>2, <2>3, RoutesFinite, SumsCompared
  <2>6. Total(Owed) <= Cap /\ Cap \in Int
    BY <1>1, CostAssumption DEF Budget
  <2> QED BY <2>4, <2>5, <2>6 DEF SpendWithinCap
<1> QED BY <1>1, RunSound, BudgetKept, PTL

=============================================================================
