----------------------------- MODULE ExternalRun -----------------------------
(***************************************************************************)
(* The external LongMemEval runners E6, E6b, E6c and E6c v2                *)
(* (scripts/run_longmemeval_e6*_external.py) over the journal of           *)
(* CallJournal.  The runner is chosen once, in Init, so that one           *)
(* specification holds what the four share and says where they differ.     *)
(*                                                                         *)
(* A command runs a list of phases over the frozen cohort.  Each phase     *)
(* writes one sealed artifact per question and skips, or replays and       *)
(* compares, what an earlier process left behind.  The artifacts are       *)
(* deterministic functions of the manifest and of the retained provider    *)
(* bytes, so that only their presence is kept here.  The process may be    *)
(* killed between any two writes, a write may fail, and the provider may   *)
(* not answer.  One process at a time holds the lock of the output         *)
(* directory.                                                              *)
(***************************************************************************)
EXTENDS CallJournal

CONSTANTS
    Runners,      \* the runners under test
    Pilot,        \* the length of the operational prefix: --limit
    Commands,     \* the values of --phase an operator uses
    MaxCrashes,   \* bound: kills of a process
    MaxFaults     \* bound: failed writes, POSTs made again and calls without an answer

ASSUME RunAssumption ==
    /\ Runners \subseteq {"E6", "E6b", "E6c", "E6cV2"} /\ Runners /= {}
    /\ Pilot \in Questions
    /\ {MaxCrashes, MaxFaults} \subseteq Nat

VARIABLES
    runner,     \* which script this output directory belongs to
    gates,      \* what the context gate G1 and the paired QA gate G2 decide from the evidence
    artifacts,  \* the questions that have each kind of per-question artifact
    files,      \* the run-level artifacts that exist
    report,     \* the verdict in report.json
    crashes,
    faults

fileVars == <<artifacts, files, report>>
worldVars == <<tries, runner, gates, crashes, faults>>
vars == <<journal, attempts, final, receipts, calls, tries, process, runner, gates, artifacts,
          files, report, crashes, faults>>

Kinds == {"summary", "ranking", "selection", "prompts", "pack", "qa"}

Files == {"audit", "cases", "context", "final", "preqa", "completion", "status"}

Verdicts == {"reject-context", "incomplete", "reject-qa", "pass"}

(* An absent report is not a verdict.                                      *)
ASSUME NoneAssumption == None \notin Verdicts

Phases == {"extract", "rank", "select", "pack", "audit", "diagnose", "preqa", "qa", "report"}

TaskStates == {"idle", "wait", "reserved", "sent", "answered", "persisted", "done", "failed", "capped"}

(* No process: the memory of the last one is gone.                         *)
NoProcess == [phases |-> <<>>, limited |-> FALSE, step |-> "begin", todo |-> {}, call |-> "none",
              task |-> [v \in Values |-> "idle"], spent |-> 0, held |-> 0]

Alive == process.phases /= <<>>

Phase == Head(process.phases)

In(phase, step) == Alive /\ Phase = phase /\ process.step = step

Selected == IF process.limited THEN 1..Pilot ELSE Questions

Merged == runner \in {"E6c", "E6cV2"}

-----------------------------------------------------------------------------
(* How a process ends and how it moves on.                                 *)

Exit == process' = NoProcess

Advance ==
    process' = IF Len(process.phases) = 1 THEN NoProcess
               ELSE [NoProcess EXCEPT !.phases = Tail(process.phases), !.limited = process.limited]

Continue(step, todo) == process' = [process EXCEPT !.step = step, !.todo = todo]

(* ExternalCostCapExceeded: E6b seals a terminal status, the others only stop.             *)
CapExit ==
    /\ files' = IF runner = "E6b" THEN files \cup {"status"} ELSE files
    /\ Exit

QAArtifacts == artifacts["qa"]

QAComplete == QAArtifacts = Questions

QAPartial == QAArtifacts \notin {{}, Questions}

(* _qa_durable_state_exists; E6c v2 counts qa-completion.json as well.     *)
QAStateExists == QAState \/ QAArtifacts /= {} \/ (runner = "E6cV2" /\ "completion" \in files)

-----------------------------------------------------------------------------
(* Commands.                                                               *)

(* load_operational_audit: the artifacts and the journal rows it binds are never removed.  *)
AuditHolds == "audit" \in files

MayStartE6(command, limited) == limited => command \notin {"qa", "report"}

(* Aggregates are forbidden on the pilot, and a full run needs its audit.  *)
MayStartE6b(command, limited) ==
    IF limited THEN command \notin {"diagnose", "qa", "report"} ELSE command /= "audit" /\ AuditHolds

MayStart(command, limited) ==
    CASE runner = "E6"  -> MayStartE6(command, limited)
      [] runner = "E6b" -> "status" \notin files /\ MayStartE6b(command, limited)
      [] OTHER          -> ~limited

PhasesE6(limited) ==
    <<"extract", "rank", "pack", "diagnose">> \o (IF limited THEN <<>> ELSE <<"qa", "report">>)

PhasesE6b(limited) ==
    <<"extract", "rank", "pack">> \o (IF limited THEN <<"audit">> ELSE <<"diagnose", "qa", "report">>)

PhasesE6c == <<"extract", "rank", "select", "pack", "diagnose", "qa", "report">>

(* Decided before the lock is taken.                                       *)
PhasesE6cV2 == IF QAStateExists THEN <<"qa", "report">>
               ELSE <<"extract", "rank", "select", "pack", "preqa", "qa", "report">>

PhasesOfAll(limited) ==
    CASE runner = "E6"  -> PhasesE6(limited)
      [] runner = "E6b" -> PhasesE6b(limited)
      [] runner = "E6c" -> PhasesE6c
      [] OTHER          -> PhasesE6cV2

Offers(command) ==
    \/ command \in {"all", "extract", "rank", "pack", "diagnose", "qa", "report"}
    \/ command = "select" /\ Merged
    \/ command = "audit" /\ runner = "E6b"
    \/ command = "preqa" /\ runner = "E6cV2"

Start(command, limited) ==
    /\ ~Alive
    /\ Offers(command)
    /\ MayStart(command, limited)
    /\ process' = [NoProcess EXCEPT
                      !.phases = IF command = "all" THEN PhasesOfAll(limited) ELSE <<command>>,
                      !.limited = limited]
    /\ UNCHANGED <<journalVars, calls, fileVars, worldVars>>

-----------------------------------------------------------------------------
(* The extraction phase: reconcile the journal, then run the questions.    *)

First(values) == CHOOSE v \in values : \A w \in values : v[1] < w[1] \/ (v[1] = w[1] /\ v[2] <= w[2])

BeginExtract ==
    /\ In("extract", "begin")
    /\ Continue("reconcile", {v \in Values : v[1] \in Selected})
    /\ UNCHANGED <<journalVars, calls, fileVars, worldVars>>

(* An unresolved reservation is never sent again: the run stops.           *)
ReconcileExtraction ==
    /\ In("extract", "reconcile")
    /\ process.todo /= {}
    /\ LET v == First(process.todo)
       IN  IF Irreconcilable(v) THEN Exit /\ UNCHANGED journalVars
           ELSE ReconcileValue(v) /\ Continue("reconcile", process.todo \ {v})
    /\ UNCHANGED <<calls, fileVars, worldVars>>

\* Mutated form: a new process forgets what the earlier ones spent.
OpenFreshLedger(next) ==
    /\ process.todo = {}
    /\ IF Unresolved /= {} THEN Exit ELSE Continue(next, Selected)
    /\ UNCHANGED <<journalVars, calls, fileVars, worldVars>>

(* The ledger starts from what the journal costs: the settled calls, and the whole         *)
(* reservation of every other one.  An overspent journal is noticed first.                 *)
OpenLedger(next) ==
    /\ process.todo = {}
    /\ CASE Overspent -> CapExit
         [] ~Overspent /\ Unresolved /= {} -> Exit /\ UNCHANGED files
         [] OTHER -> /\ process' = [process EXCEPT !.step = next, !.spent = JournalCost,
                                                 !.todo = Selected]
                     /\ UNCHANGED files
    /\ UNCHANGED <<journalVars, calls, artifacts, report, worldVars>>

OpenExtractionLedger == In("extract", "reconcile") /\ OpenLedger("run")

(* A question whose consolidated evidence exists is replayed, not run.     *)
OpenQuestion ==
    /\ In("extract", "run")
    /\ process.todo /= {}
    /\ LET q == Min(process.todo)
       IN  process' = IF q \in artifacts["summary"] THEN [process EXCEPT !.todo = @ \ {q}]
                      ELSE [process EXCEPT !.step = "values",
                                           !.task = [v \in Values |-> IF v[1] = q THEN "wait" ELSE "idle"]]
    /\ UNCHANGED <<journalVars, calls, fileVars, worldVars>>

Moves(v, state) == process' = [process EXCEPT !.task[v] = state]

NextRoute(v) == ExtractionRoute(v, Len(attempts[v]) + 1)

(* The route of a value whose attempt ledger already holds the outcome.    *)
LastRoute(v) == ExtractionRoute(v, Len(attempts[v]))

Holding == {v \in Values : process.task[v] \in {"reserved", "sent", "answered", "persisted"}}

(* An accepted attempt: write the final record, if it is not there yet.    *)
FinishValue(v) ==
    /\ In("extract", "values") /\ process.task[v] = "wait"
    /\ v \in final \/ Accepted(attempts[v])
    /\ final' = final \cup {v}
    /\ Moves(v, "done")
    /\ UNCHANGED <<journal, attempts, receipts, calls, fileVars, worldVars>>

ExhaustValue(v) ==
    /\ In("extract", "values") /\ process.task[v] = "wait"
    /\ v \notin final /\ ~Accepted(attempts[v])
    /\ Len(attempts[v]) = MaxAttempts
    /\ Moves(v, "failed")
    /\ UNCHANGED <<journalVars, calls, fileVars, worldVars>>

\* Mutated form: the reservation is kept in memory and not written before the call.
ReserveInMemory(v) ==
    /\ In("extract", "values") /\ process.task[v] = "wait"
    /\ v \notin final /\ ~Accepted(attempts[v]) /\ Len(attempts[v]) < MaxAttempts
    /\ Cardinality(Holding) < Concurrency
    /\ IF Affordable THEN process' = [process EXCEPT !.task[v] = "reserved", !.held = @ + Reserve]
       ELSE Moves(v, "capped")
    /\ UNCHANGED <<journalVars, calls, fileVars, worldVars>>

(* The next attempt, under the semaphore: money is reserved in memory, then on disk.       *)
ReserveAttempt(v) ==
    /\ In("extract", "values") /\ process.task[v] = "wait"
    /\ v \notin final /\ ~Accepted(attempts[v]) /\ Len(attempts[v]) < MaxAttempts
    /\ Cardinality(Holding) < Concurrency
    /\ CASE ~Untouched(NextRoute(v)) -> Moves(v, "failed") /\ UNCHANGED journal
         [] Untouched(NextRoute(v)) /\ ~Affordable -> Moves(v, "capped") /\ UNCHANGED journal
         [] OTHER -> /\ journal' = WithReservation(journal, NextRoute(v))
                     /\ process' = [process EXCEPT !.task[v] = "reserved", !.held = @ + Reserve]
    /\ UNCHANGED <<attempts, final, receipts, calls, fileVars, worldVars>>

(* The write fails: the money is released.  The rename may have happened before the fsync  *)
(* of the directory failed, so that the row may exist all the same.                        *)
ReserveAttemptFails(v) ==
    /\ In("extract", "values") /\ process.task[v] = "wait"
    /\ v \notin final /\ ~Accepted(attempts[v]) /\ Len(attempts[v]) < MaxAttempts
    /\ Cardinality(Holding) < Concurrency
    /\ Untouched(NextRoute(v)) /\ Affordable
    /\ faults < MaxFaults
    /\ faults' = faults + 1
    /\ journal' \in {journal, WithReservation(journal, NextRoute(v))}
    /\ Moves(v, "failed")
    /\ UNCHANGED <<attempts, final, receipts, calls, fileVars, tries, runner, gates, crashes>>

(* A client call, complete(), POSTs the request...                         *)
Send(r) ==
    /\ calls' = [calls EXCEPT ![r] = @ + 1]
    /\ tries' = [tries EXCEPT ![r] = 1]

(* ...and POSTs it again after a timeout or a retryable status.            *)
Resend(r) ==
    /\ tries[r] < HttpAttempts
    /\ faults < MaxFaults
    /\ faults' = faults + 1
    /\ tries' = [tries EXCEPT ![r] = @ + 1]
    /\ UNCHANGED <<journalVars, calls, fileVars, process, runner, gates, crashes>>

Returns(r) == tries' = [tries EXCEPT ![r] = 0]

SendAttempt(v) ==
    /\ In("extract", "values") /\ process.task[v] = "reserved"
    /\ Send(NextRoute(v))
    /\ Moves(v, "sent")
    /\ UNCHANGED <<journalVars, fileVars, runner, gates, crashes, faults>>

ResendAttempt(v) ==
    /\ In("extract", "values") /\ process.task[v] = "sent"
    /\ Resend(NextRoute(v))

(* charge_failed_reservation: the call may have been billed.               *)
ChargeFailed(v) ==
    process' = [process EXCEPT !.task[v] = "failed", !.held = @ - Reserve, !.spent = @ + Reserve]

(* The raw bytes of the first 2xx answer are durable before they are parsed. *)
AnswerAttempt(v, answer) ==
    /\ In("extract", "values") /\ process.task[v] = "sent"
    /\ Returns(NextRoute(v))
    /\ journal' = WithResponse(journal, NextRoute(v), answer)
    /\ IF answer = "malformed" THEN ChargeFailed(v) ELSE Moves(v, "answered")
    /\ UNCHANGED <<attempts, final, receipts, calls, fileVars, runner, gates, crashes, faults>>

(* The tries are used up, or the provider rejects the request.            *)
NoAnswer(v) ==
    /\ In("extract", "values") /\ process.task[v] = "sent"
    /\ faults < MaxFaults
    /\ faults' = faults + 1
    /\ Returns(NextRoute(v))
    /\ ChargeFailed(v)
    /\ UNCHANGED <<journalVars, calls, fileVars, runner, gates, crashes>>

PersistAttempt(v) ==
    /\ In("extract", "values") /\ process.task[v] = "answered"
    /\ attempts' = [attempts EXCEPT ![v] = Append(@, journal[NextRoute(v)].response)]
    /\ Moves(v, "persisted")
    /\ UNCHANGED <<journal, final, receipts, calls, fileVars, worldVars>>

(* The attempt ledger could not be written: the route keeps its response and no settlement. *)
PersistFails(v) ==
    /\ In("extract", "values") /\ process.task[v] = "answered"
    /\ faults < MaxFaults
    /\ faults' = faults + 1
    /\ ChargeFailed(v)
    /\ UNCHANGED <<journalVars, calls, fileVars, tries, runner, gates, crashes>>

SettleAttempt(v) ==
    /\ In("extract", "values") /\ process.task[v] = "persisted"
    /\ journal' = WithSettlement(journal, {LastRoute(v)})
    /\ process' = [process EXCEPT !.task[v] = "wait", !.held = @ - Reserve, !.spent = @ + Actual]
    /\ UNCHANGED <<attempts, final, receipts, calls, fileVars, worldVars>>

(* asyncio.gather waits for every value; the cost cap outranks the other failures.         *)
CloseQuestion ==
    /\ In("extract", "values")
    /\ LET q == Min(process.todo)
           ends == {process.task[v] : v \in ValuesOf(q)}
       IN  /\ ends \subseteq {"done", "failed", "capped"}
           /\ CASE "capped" \in ends -> CapExit /\ UNCHANGED artifacts
                [] ends = {"done"}   ->
                       /\ artifacts' = [artifacts EXCEPT !["summary"] = @ \cup {q}]
                       /\ process' = [process EXCEPT !.step = "run", !.todo = @ \ {q},
                                                     !.task = NoProcess.task]
                       /\ UNCHANGED files
                [] OTHER             -> Exit /\ UNCHANGED <<artifacts, files>>
    /\ UNCHANGED <<journalVars, calls, report, worldVars>>

EndExtract ==
    /\ In("extract", "run")
    /\ process.todo = {}
    /\ Advance
    /\ UNCHANGED <<journalVars, calls, fileVars, worldVars>>

-----------------------------------------------------------------------------
(* The local phases: one artifact per question, in order.                  *)

Missing(kind) == Selected \ artifacts[kind]

Produce(phase, kind, source) ==
    /\ In(phase, "begin")
    /\ IF Missing(kind) = {} THEN Advance /\ UNCHANGED artifacts
       ELSE LET q == Min(Missing(kind))
            IN  IF q \in artifacts[source]
                THEN artifacts' = [artifacts EXCEPT ![kind] = @ \cup {q}] /\ UNCHANGED process
                ELSE Exit /\ UNCHANGED artifacts
    /\ UNCHANGED <<journalVars, calls, files, report, worldVars>>

RankQuestion == Produce("rank", "ranking", "summary")

SelectQuestion == Produce("select", "selection", "ranking")

Paired == artifacts["prompts"] \cap artifacts["pack"]

(* An earlier process was killed between the two files of a question.      *)
HalfWritten == (artifacts["prompts"] \cup artifacts["pack"]) \ Paired

PackSource == artifacts[IF Merged THEN "selection" ELSE "ranking"]

PackQuestion ==
    /\ In("pack", "begin")
    /\ Selected \cap HalfWritten = {}
    /\ IF Selected \subseteq Paired THEN Advance /\ UNCHANGED artifacts
       ELSE LET q == Min(Selected \ Paired)
            IN  IF q \in PackSource
                THEN /\ artifacts' = [artifacts EXCEPT !["prompts"] = @ \cup {q}]
                     /\ Continue("half", {q})
                ELSE Exit /\ UNCHANGED artifacts
    /\ UNCHANGED <<journalVars, calls, files, report, worldVars>>

PackTrace ==
    /\ In("pack", "half")
    /\ artifacts' = [artifacts EXCEPT !["pack"] = @ \cup process.todo]
    /\ Continue("begin", {})
    /\ UNCHANGED <<journalVars, calls, files, report, worldVars>>

(* One side of a pair is refused by E6, E6b and E6c.                       *)
RefuseHalf ==
    /\ In("pack", "begin")
    /\ runner /= "E6cV2"
    /\ Selected \cap HalfWritten /= {}
    /\ Exit
    /\ UNCHANGED <<journalVars, calls, fileVars, worldVars>>

\* Mutated form: the half-written pair is refused, as in E6c.
RepairNothing ==
    /\ In("pack", "begin")
    /\ runner = "E6cV2"
    /\ Selected \cap HalfWritten /= {}
    /\ Exit
    /\ UNCHANGED <<journalVars, calls, fileVars, worldVars>>

(* E6c v2 writes the other side after a deterministic replay.              *)
RepairHalf ==
    /\ In("pack", "begin")
    /\ runner = "E6cV2"
    /\ Selected \cap HalfWritten /= {}
    /\ LET q == Min(Selected \cap HalfWritten)
       IN  artifacts' = [artifacts EXCEPT !["prompts"] = @ \cup {q}, !["pack"] = @ \cup {q}]
    /\ UNCHANGED <<journalVars, calls, process, files, report, worldVars>>

-----------------------------------------------------------------------------
(* Audits and diagnostics.                                                 *)

(* build_operational_audit of E6b: nothing beyond the pilot has left a trace. *)
AuditQualifies ==
    /\ ~QAStateExists
    /\ files \cap {"cases", "context", "final"} = {} /\ report = None
    /\ Selected \subseteq artifacts["summary"] \cap artifacts["ranking"] \cap Paired
    /\ ExtractionBound(Selected) /\ Unresolved = {}

WriteAudit ==
    /\ In("audit", "begin")
    /\ CASE AuditQualifies /\ ~Overspent -> files' = files \cup {"audit"} /\ Advance
         [] AuditQualifies /\ Overspent  -> CapExit
         [] OTHER                        -> Exit /\ UNCHANGED files
    /\ UNCHANGED <<journalVars, calls, artifacts, report, worldVars>>

DiagnosticKind == IF QAComplete THEN "final" ELSE "context"

(* diagnostic.json is written over; the two files of E6c are written once and compared.    *)
WithDiagnostic(fs) ==
    IF Merged THEN fs \cup {"cases", DiagnosticKind}
    ELSE (fs \ {"context", "final"}) \cup {"cases", DiagnosticKind}

(* What stops the compilation of the cases.                                *)
CasesQualify ==
    /\ Selected \subseteq Paired
    /\ Merged => ~QAPartial

(* E6 and E6c.  A limited run of E6 writes a diagnostic of its own that nothing reads.     *)
Diagnose ==
    /\ In("diagnose", "begin") /\ runner \in {"E6", "E6c"}
    /\ IF CasesQualify
       THEN files' = (IF process.limited THEN files \cup {"cases"} ELSE WithDiagnostic(files)) /\ Advance
       ELSE Exit /\ UNCHANGED files
    /\ UNCHANGED <<journalVars, calls, artifacts, report, worldVars>>

(* A frozen diagnostic a resumed QA phase may go on from.                  *)
FrozenDiagnostic == IF QAComplete THEN files \cap {"context", "final"} /= {} ELSE "context" \in files

(* E6b compiles no statistics once QA state exists; `all` goes on from the frozen file.    *)
DiagnoseE6b ==
    /\ In("diagnose", "begin") /\ runner = "E6b"
    /\ CASE ~QAStateExists /\ CasesQualify -> files' = WithDiagnostic(files) /\ Advance
         [] QAStateExists /\ Len(process.phases) > 1 /\ FrozenDiagnostic ->
                Advance /\ UNCHANGED files
         [] OTHER -> Exit /\ UNCHANGED files
    /\ UNCHANGED <<journalVars, calls, artifacts, report, worldVars>>

(* build_pre_qa_gates of E6c v2: the extraction routes and the journal match one to one.   *)
PreQAQualifies == CasesQualify /\ ExtractionBound(Questions) /\ Unresolved = {} /\ ~Overspent

PreQAHolds == {"preqa", "context"} \subseteq files

SealPreQA ==
    /\ Alive /\ Phase \in {"preqa", "diagnose"} /\ runner = "E6cV2"
    /\ CASE ~QAStateExists /\ PreQAQualifies ->
                files' = WithDiagnostic(files) \cup {"preqa"} /\ Advance
         [] QAStateExists /\ PreQAHolds -> Advance /\ UNCHANGED files
         [] OTHER -> Exit /\ UNCHANGED files
    /\ UNCHANGED <<journalVars, calls, artifacts, report, worldVars>>

-----------------------------------------------------------------------------
(* The reader and judge phase.                                             *)

(* What the phase starts from: a diagnostic built now, or the frozen one of an earlier     *)
(* process.                                                                                *)
QARebuilds == CASE runner = "E6"  -> TRUE
                [] runner = "E6c" -> QAArtifacts = {}
                [] OTHER          -> ~QAStateExists

QAGroundsE6b == IF QARebuilds THEN CasesQualify ELSE FrozenDiagnostic

QAGroundsE6c == IF QARebuilds THEN CasesQualify ELSE "context" \in files

(* A completion is only valid over complete QA artifacts.                  *)
QAGroundsE6cV2 ==
    /\ "completion" \in files => QAComplete
    /\ IF QARebuilds THEN PreQAQualifies ELSE PreQAHolds

QAGrounds == CASE runner = "E6"  -> CasesQualify
               [] runner = "E6b" -> QAGroundsE6b
               [] runner = "E6c" -> QAGroundsE6c
               [] OTHER          -> QAGroundsE6cV2

\* Mutated form: the context gate is compiled and not obeyed.
BeginQAUngated ==
    /\ In("qa", "begin")
    /\ IF QAGrounds
       THEN /\ files' = CASE ~QARebuilds -> files
                          [] QARebuilds /\ runner = "E6cV2" -> WithDiagnostic(files) \cup {"preqa"}
                          [] OTHER -> WithDiagnostic(files)
            /\ Continue("reconcile", Questions)
       ELSE Exit /\ UNCHANGED files
    /\ UNCHANGED <<journalVars, calls, artifacts, report, worldVars>>

(* run_qa_phase up to the first call: a rejected context gate makes no call at all.        *)
BeginQA ==
    /\ In("qa", "begin")
    /\ IF QAGrounds
       THEN /\ files' = CASE ~QARebuilds -> files
                          [] QARebuilds /\ runner = "E6cV2" -> WithDiagnostic(files) \cup {"preqa"}
                          [] OTHER -> WithDiagnostic(files)
            /\ CASE gates.context -> Continue("reconcile", Questions)
                 [] ~gates.context /\ QAStateExists -> Exit
                 [] OTHER -> Advance
       ELSE Exit /\ UNCHANGED files
    /\ UNCHANGED <<journalVars, calls, artifacts, report, worldVars>>

ReconcileQuestion ==
    /\ In("qa", "reconcile")
    /\ process.todo /= {}
    /\ LET q == Min(process.todo)
       IN  /\ ReconcileQA(q)
           /\ IF QAStops(q) /= {} THEN Exit ELSE Continue("reconcile", process.todo \ {q})
    /\ UNCHANGED <<calls, fileVars, worldVars>>

OpenQALedger == In("qa", "reconcile") /\ OpenLedger("run")

Asked == Min(process.todo)

CurrentRoute == QARoute(Asked, receipts[Asked] + 1)

(* A question is being asked, its next route is at the given point.        *)
Asking(call) ==
    /\ In("qa", "run") /\ process.todo /= {} /\ process.call = call
    /\ Asked \notin QAArtifacts /\ receipts[Asked] < Cardinality(QARoutes)

SkipAnswered ==
    /\ In("qa", "run") /\ process.todo /= {} /\ Asked \in QAArtifacts
    /\ process' = [process EXCEPT !.todo = @ \ {Asked}]
    /\ UNCHANGED <<journalVars, calls, fileVars, worldVars>>

ReserveQA ==
    /\ Asking("none")
    /\ CASE ~Untouched(CurrentRoute) -> Exit /\ UNCHANGED <<journal, files>>
         [] Untouched(CurrentRoute) /\ ~Affordable -> CapExit /\ UNCHANGED journal
         [] OTHER -> /\ journal' = WithReservation(journal, CurrentRoute)
                     /\ process' = [process EXCEPT !.call = "reserved", !.held = @ + Reserve]
                     /\ UNCHANGED files
    /\ UNCHANGED <<attempts, final, receipts, calls, artifacts, report, worldVars>>

SendQA ==
    /\ Asking("reserved")
    /\ Send(CurrentRoute)
    /\ process' = [process EXCEPT !.call = "sent"]
    /\ UNCHANGED <<journalVars, fileVars, runner, gates, crashes, faults>>

ResendQA == Asking("sent") /\ Resend(CurrentRoute)

AnswerQA(answer) ==
    /\ Asking("sent")
    /\ Returns(CurrentRoute)
    /\ journal' = WithResponse(journal, CurrentRoute, answer)
    /\ IF answer = "malformed" THEN Exit ELSE process' = [process EXCEPT !.call = "answered"]
    /\ UNCHANGED <<attempts, final, receipts, calls, fileVars, runner, gates, crashes, faults>>

(* The reservation could not be written, or the provider does not answer: the process ends. *)
FailQA ==
    /\ faults < MaxFaults
    /\ faults' = faults + 1
    /\ \/ /\ Asking("none") /\ Untouched(CurrentRoute) /\ Affordable
          /\ journal' \in {journal, WithReservation(journal, CurrentRoute)} /\ UNCHANGED tries
       \/ Asking("sent") /\ UNCHANGED journal /\ Returns(CurrentRoute)
    /\ Exit
    /\ UNCHANGED <<attempts, final, receipts, calls, fileVars, runner, gates, crashes>>

SettleQA ==
    /\ Asking("answered")
    /\ journal' = WithSettlement(journal, {CurrentRoute})
    /\ process' = [process EXCEPT !.call = "settled", !.held = @ - Reserve, !.spent = @ + Actual]
    /\ UNCHANGED <<attempts, final, receipts, calls, fileVars, worldVars>>

\* Mutated form: the QA artifact is sealed one route early.
WriteQAArtifactEarly ==
    /\ In("qa", "run") /\ process.todo /= {} /\ Asked \notin QAArtifacts
    /\ receipts[Asked] >= Cardinality(QARoutes) - 1 /\ process.call = "none"
    /\ artifacts' = [artifacts EXCEPT !["qa"] = @ \cup {Asked}]
    /\ process' = [process EXCEPT !.todo = @ \ {Asked}]
    /\ UNCHANGED <<journalVars, calls, files, report, worldVars>>

(* The answer is validated after it is settled; one that fails ends the process.           *)
RecordReceipt ==
    /\ Asking("settled")
    /\ IF journal[CurrentRoute].response = "accepted"
       THEN /\ receipts' = [receipts EXCEPT ![Asked] = @ + 1]
            /\ process' = [process EXCEPT !.call = "none"]
       ELSE Exit /\ UNCHANGED receipts
    /\ UNCHANGED <<journal, attempts, final, calls, fileVars, worldVars>>

WriteQAArtifact ==
    /\ In("qa", "run") /\ process.todo /= {} /\ Asked \notin QAArtifacts
    /\ receipts[Asked] = Cardinality(QARoutes)
    /\ artifacts' = [artifacts EXCEPT !["qa"] = @ \cup {Asked}]
    /\ process' = [process EXCEPT !.todo = @ \ {Asked}]
    /\ UNCHANGED <<journalVars, calls, files, report, worldVars>>

(* qa-completion.json; E6 has none and compiles its diagnostic again.      *)
CompleteQA ==
    /\ In("qa", "run") /\ process.todo = {}
    /\ CASE runner = "E6"  -> files' = WithDiagnostic(files) /\ Advance
         [] runner = "E6b" -> files' = files \cup {"completion"} /\ Advance
         [] OTHER          -> files' = files \cup {"completion"} /\ Continue("compile", {})
    /\ UNCHANGED <<journalVars, calls, artifacts, report, worldVars>>

CompileFinal ==
    /\ In("qa", "compile")
    /\ files' = WithDiagnostic(files)
    /\ Advance
    /\ UNCHANGED <<journalVars, calls, artifacts, report, worldVars>>

-----------------------------------------------------------------------------
(* The report.                                                             *)

Verdict == CASE ~gates.context -> "reject-context"
             [] gates.context /\ ~QAComplete -> "incomplete"
             [] gates.context /\ QAComplete /\ ~gates.qa -> "reject-qa"
             [] OTHER -> "pass"

(* Every artifact of every question replays, the QA artifacts go with their receipts, and   *)
(* the journal holds exactly the routes of this evidence.                                  *)
EvidenceComplete ==
    /\ Questions \subseteq artifacts["summary"] \cap artifacts["ranking"] \cap Paired
    /\ \A q \in Questions : (q \in QAArtifacts) <=> (receipts[q] > 0)
    /\ ExtractionBound(Questions) /\ QABound

(* A rejected context gate forbids QA state, a passed one requires complete QA.            *)
GateObeyed == IF gates.context THEN QAComplete ELSE ~QAStateExists

ReportableE6 == EvidenceComplete /\ GateObeyed

ReportableE6b == AuditHolds /\ EvidenceComplete /\ GateObeyed /\ (QAComplete <=> "completion" \in files)

(* E6c compares costs only, and reports before the QA phase as well.       *)
ReportableE6c ==
    /\ CasesQualify
    /\ Questions \subseteq artifacts["summary"]
    /\ JournalCost = Actual * Cardinality({r \in Routes :
           IF r \in ExtractionRoutes THEN r[3] <= Len(attempts[r[2]])
           ELSE QAComplete /\ r[3] <= receipts[r[2]]})

ReportableE6cV2 ==
    /\ PreQAHolds /\ CasesQualify /\ GateObeyed
    /\ ExtractionBound(Questions)
    /\ QAComplete => QABound /\ "completion" \in files

ReportQualifies ==
    /\ Unresolved = {} /\ ~QAPartial
    /\ CASE runner = "E6"  -> ReportableE6
         [] runner = "E6b" -> ReportableE6b
         [] runner = "E6c" -> ReportableE6c
         [] OTHER          -> ReportableE6cV2

(* E6 and E6b write the report over, E6c and E6c v2 compare it with the one that exists.   *)
WriteReport ==
    /\ In("report", "begin")
    /\ CASE runner = "E6b" /\ Overspent -> CapExit /\ UNCHANGED report
         [] ~(runner = "E6b" /\ Overspent) /\ ReportQualifies /\ ~Overspent ->
                /\ files' = WithDiagnostic(files)
                /\ report' = IF Merged /\ report /= None THEN report ELSE Verdict
                /\ Advance
         [] OTHER -> Exit /\ UNCHANGED <<files, report>>
    /\ UNCHANGED <<journalVars, calls, artifacts, worldVars>>

-----------------------------------------------------------------------------
(* The process is killed.                                                  *)
Crash ==
    /\ Alive
    /\ crashes < MaxCrashes
    /\ crashes' = crashes + 1
    /\ tries' = [r \in Routes |-> 0]
    /\ Exit
    /\ UNCHANGED <<journalVars, calls, fileVars, runner, gates, faults>>

Init ==
    /\ journal = [r \in Routes |-> NoRow]
    /\ attempts = [v \in Values |-> <<>>]
    /\ final = {}
    /\ receipts = [q \in Questions |-> 0]
    /\ calls = [r \in Routes |-> 0]
    /\ tries = [r \in Routes |-> 0]
    /\ process = NoProcess
    /\ runner \in Runners
    /\ gates \in [context : BOOLEAN, qa : BOOLEAN]
    /\ artifacts = [k \in Kinds |-> {}]
    /\ files = {}
    /\ report = None
    /\ crashes = 0
    /\ faults = 0

ExtractStep ==
    \/ BeginExtract \/ ReconcileExtraction \/ OpenExtractionLedger \/ OpenQuestion
    \/ CloseQuestion \/ EndExtract
    \/ \E v \in Values : \/ FinishValue(v) \/ ExhaustValue(v) \/ ReserveAttempt(v) \/ SendAttempt(v)
                         \/ \E a \in Answers : AnswerAttempt(v, a)
                         \/ PersistAttempt(v) \/ SettleAttempt(v)

LocalStep ==
    \/ RankQuestion \/ SelectQuestion \/ PackQuestion \/ PackTrace \/ RefuseHalf \/ RepairHalf
    \/ WriteAudit \/ Diagnose \/ DiagnoseE6b \/ SealPreQA \/ WriteReport

QAStep ==
    \/ BeginQA \/ ReconcileQuestion \/ OpenQALedger \/ SkipAnswered \/ ReserveQA \/ SendQA
    \/ \E a \in Answers : AnswerQA(a)
    \/ SettleQA \/ RecordReceipt \/ WriteQAArtifact \/ CompleteQA \/ CompileFinal

Step == ExtractStep \/ LocalStep \/ QAStep

Fault ==
    \/ \E v \in Values : ReserveAttemptFails(v) \/ ResendAttempt(v) \/ NoAnswer(v) \/ PersistFails(v)
    \/ ResendQA \/ FailQA \/ Crash

Next ==
    \/ \E command \in Commands, limited \in BOOLEAN : Start(command, limited)
    \/ Step
    \/ Fault

Spec == Init /\ [][Next]_vars

(* A process that runs goes on running, and an operator who starts the runner again and    *)
(* again does not forget `all`.                                                            *)
FairSpec ==
    /\ Spec
    /\ WF_vars(Step)
    /\ \A limited \in BOOLEAN : SF_vars(Start("all", limited))

-----------------------------------------------------------------------------
(* Properties.                                                             *)

(* Type invariant of the run directory and of the process.                 *)
RunTypeOK ==
    /\ journal \in [Routes -> JournalRow]
    /\ attempts \in [Values -> UNION {[1..n -> Answers \ {"malformed"}] : n \in 0..MaxAttempts}]
    /\ final \subseteq Values
    /\ receipts \in [Questions -> 0..Cardinality(QARoutes)]
    /\ {calls, tries} \subseteq [Routes -> Nat]
    /\ artifacts \in [Kinds -> SUBSET Questions]
    /\ files \subseteq Files /\ report \in Verdicts \cup {None}
    /\ process.task \in [Values -> TaskStates]
    /\ process.spent \in Nat /\ process.held \in 0..(Reserve * Concurrency)
    /\ Cardinality(Holding) <= Concurrency

(* However often the runner is killed and started again, a route gets one client call, so   *)
(* that all its POSTs together are at most HttpAttempts: a reservation whose answer is      *)
(* unknown blocks the run instead of being sent again by another process.                  *)
OneClientCall == \A r \in Routes : calls[r] <= 1 /\ tries[r] <= HttpAttempts

(* What the provider may have billed, at most: every client call made, at its settled cost *)
(* or at its whole reservation.                                                            *)
Billed == Total([r \in Routes |-> IF calls[r] = 0 THEN 0 ELSE RouteCost(journal, r)])

(* The hard cap holds over all processes of the run directory together.    *)
SpendWithinCap == Billed <= Cap

(* No reader or judge call before the sealed evidence that allows it: the context gate, the *)
(* pilot audit of E6b, the pre-QA gates of E6c v2.                                          *)
QABehindGate ==
    \A r \in Routes \ ExtractionRoutes : calls[r] > 0 =>
        /\ gates.context
        /\ Questions \subseteq Paired
        /\ runner = "E6b" => AuditHolds
        /\ runner = "E6cV2" => PreQAHolds

(* A verdict rests on complete, settled evidence: a pass or a QA rejection on the accepted  *)
(* answer of every route of every question, a context rejection on no QA call at all.      *)
(* Only E6c can seal a report that decides nothing.                                        *)
ReportBacked ==
    /\ report /= None => Values \subseteq final
    /\ report \in {"pass", "reject-qa"} =>
          \A q \in Questions, k \in QARoutes : /\ journal[QARoute(q, k)].settled
                                              /\ journal[QARoute(q, k)].response = "accepted"
    /\ report = "reject-context" => \A r \in Routes \ ExtractionRoutes : calls[r] = 0
    /\ report = "incomplete" => runner = "E6c"

(* What ends a run for good: a call whose answer is unknown or malformed, a reader or judge *)
(* answer that was refused, a value without an accepted attempt, or the cost cap.           *)
Lost(r) == journal[r].reserved /\ journal[r].response \in {None, "malformed"}

RunLost ==
    \/ \E r \in Routes : Lost(r)
    \/ \E q \in Questions, k \in QARoutes : journal[QARoute(q, k)].response = "refused"
    \/ \E v \in Values : Len(attempts[v]) = MaxAttempts /\ ~Accepted(attempts[v])
    \/ JournalCost + Reserve > Cap /\ ~(final = Values /\ \A q \in Questions : receipts[q] = Cardinality(QARoutes))

Decided == report /= None \/ RunLost \/ "status" \in files

(* E6c v2 recovers from every kill: an operator who starts `all` again and again gets a     *)
(* report, unless the run is lost.                                                         *)
Recovers == runner = "E6cV2" ~> Decided

(* The same of E6b: an interruption resumes the run.                       *)
Resumes == runner = "E6b" ~> Decided

=============================================================================
