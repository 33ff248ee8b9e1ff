------------------------------ MODULE PhasedRun ------------------------------
(***************************************************************************)
(* The phase runners of the experiments E1, E2 and E7                      *)
(* (scripts/run_longmemeval_e1_external.py, ..._e2_..., ..._e7_...).  Each *)
(* experiment has an output directory of its own and no lock: its state is *)
(* what is on disk, and nothing keeps two runs of one experiment apart.  A *)
(* run is one process, started with one phase or with all of them; it      *)
(* takes the questions in order, verifies what is there and makes what is  *)
(* missing.  E2 and E7 read what E1 made.  A run may be killed, or end     *)
(* with an error, after any step, and another one is started.              *)
(*                                                                         *)
(* What a run has read it keeps in memory and writes out later, over       *)
(* whatever is there by then (atomic_write).  Every file carries a stamp   *)
(* (which content of the file it is) in place of its bytes and digest, and *)
(* the stamps of the files it was made from.  A file replays when the      *)
(* files it names are still those.  Model scores, prompts and answers are  *)
(* data no step tells apart.                                               *)
(***************************************************************************)
EXTENDS Integers, Sequences, FiniteSets, FiniteSetsExt

CONSTANTS
  Experiments,  \* the experiments that are run, with "E1" among them
  Runs,         \* the processes that may run at a time
  Count,        \* the number of questions of the frozen sample
  Windows,      \* the windows E7 builds for a question
  Calls,        \* reader and judge calls of one question (two arms: four)
  Configs,      \* the options a manifest binds (sample, seed, models ...)
  NoConfig,     \* the options of a directory without manifest
  MaxTrouble,   \* bound: runs stopped, and runs begun beside another
  Whole,        \* bound: the experiments an operator runs with --phase all
  MaxFollowers  \* bound: how many of E2 and E7, which share nothing, are begun

ASSUME PhasedRunAssumption ==
  /\ "E1" \in Experiments /\ Experiments \subseteq {"E1", "E2", "E7"}
  /\ IsFiniteSet(Runs)
  /\ {Count, Windows, Calls} \subseteq Nat \ {0}
  /\ NoConfig \notin Configs
  /\ {MaxTrouble, MaxFollowers} \subseteq Nat

Questions == 1..Count

VARIABLES
  manifest,  \* experiment -> the manifest of its directory
  file,      \* experiment -> question -> the files made for it
  windows,   \* question -> E7's constructor receipts
  report,    \* experiment -> the files its last report was made from
  sent,      \* experiment -> question -> chat calls made for its QA
  posed,     \* question -> constructor calls made for it
  stops,     \* experiment -> runs killed or ended by the provider
  overlaps,  \* runs begun beside another run
  raced,     \* experiment -> question -> claims taken on it beside another run's
  run        \* process -> the run under way

disk == <<manifest, file, windows, report>>
calls == <<sent, posed>>
counts == <<stops, overlaps, raced>>
vars == <<disk, calls, counts, run>>

-----------------------------------------------------------------------------
(* What each phase makes, and from what. *)

PhasesOf(e) ==
  CASE e = "E1" -> <<"dense", "cross_encoder", "pack", "qa", "report">>
    [] e = "E2" -> <<"organization", "pack", "qa", "report">>
    [] e = "E7" -> <<"windows", "construct", "pack", "qa", "report">>

\* The files a phase writes for one question, in the order it writes them.
Outputs(f) ==
  CASE f = "construct" -> <<"contexts", "construction">>
    [] f = "pack" -> <<"prompts", "pack">>
    [] f = "qa" -> <<"receipts", "qa">>
    [] f = "report" -> <<>>
    [] OTHER -> <<f>>

\* What E2 and E7 take from E1 for each question.
Inputs(e) ==
  CASE e = "E1" -> {} [] e = "E2" -> {"dense"} [] e = "E7" -> {"dense", "cross_encoder"}

\* The phases that verify all they find before they make the first file.
Collects(f) == f \in {"dense", "cross_encoder", "organization"}

Made(e, q, k) == k \in DOMAIN file[e][q]

Stamp(e, q, k) ==
  IF k = "constructor" THEN windows[q].stamp
  ELSE IF Made(e, q, k) THEN file[e][q][k].stamp ELSE 0

\* The files an artifact names by digest, one definition per artifact.
DenseCites == {}
CrossEncoderCites == {<<"E1", "dense">>}
SimilarityCites == {<<"E1", "dense">>}
OrganizationCites == SimilarityCites
WindowsCites == {<<"E1", "dense">>, <<"E1", "cross_encoder">>}
ContextsCites == {<<"E7", "windows">>, <<"E7", "constructor">>}
ConstructionCites == ContextsCites \cup {<<"E7", "contexts">>}
PromptsOfE1Cite == {<<"E1", "dense">>, <<"E1", "cross_encoder">>}
PromptsOfE2Cite == {<<"E2", "organization">>}
PromptsOfE7Cite == {<<"E7", "contexts">>, <<"E7", "construction">>}
ReceiptsCite(e) == {<<e, "prompts">>}
QACites(e) == {<<e, "prompts">>, <<e, "pack">>, <<e, "receipts">>}

PromptsCite(e) ==
  CASE e = "E1" -> PromptsOfE1Cite [] e = "E2" -> PromptsOfE2Cite [] e = "E7" -> PromptsOfE7Cite

PackCites(e) == PromptsCite(e) \cup {<<e, "prompts">>}

Sources(e, k) ==
  CASE k = "dense" -> DenseCites
    [] k = "cross_encoder" -> CrossEncoderCites
    [] k = "organization" -> OrganizationCites
    [] k = "windows" -> WindowsCites
    [] k = "contexts" -> ContextsCites
    [] k = "construction" -> ConstructionCites
    [] k = "prompts" -> PromptsCite(e)
    [] k = "pack" -> PackCites(e)
    [] k = "receipts" -> ReceiptsCite(e)
    [] k = "qa" -> QACites(e)

Cited(e, q, k) == {<<s[1], s[2], Stamp(s[1], q, s[2])>> : s \in Sources(e, k)}

NoManifest == [config |-> NoConfig, of |-> {}]

\* The manifest of E1 under some options; those of E2 and E7 name E1's files too.
Base(c) == [config |-> c, of |-> {}]

ManifestOf(e, c) ==
  [config |-> c,
   of |-> {<<q, k, Stamp("E1", q, k)>> : q \in Questions, k \in Inputs(e)}]

\* A file is of the given manifest, and the files it names are still those.
BoundTo(m, e, q, k) ==
  /\ Made(e, q, k)
  /\ file[e][q][k].manifest = m
  /\ file[e][q][k].of = Cited(e, q, k)

InputsBound(m, e, q) == \A k \in Inputs(e) : BoundTo(Base(m.config), "E1", q, k)

\* Replaying what phase n of e made for a question, under manifest m, replays
\* all it was made from.
Replays(m, e, q, n) ==
  /\ InputsBound(m, e, q)
  /\ \A i \in 1..n : \A j \in DOMAIN Outputs(PhasesOf(e)[i]) :
       BoundTo(m, e, q, Outputs(PhasesOf(e)[i])[j])

-----------------------------------------------------------------------------
(* A run: its manifest, the phases ahead of it, the questions left of this  *)
(* one, those it has found missing and will write for, and what it has read *)
(* or heard for the one at hand.                                            *)

NoRun == [of |-> "none", manifest |-> NoManifest, todo |-> <<>>, left |-> {}, claim |-> {},
          stage |-> "idle", heard |-> 0, read |-> {}]

Idle(r) == run[r] = NoRun
Of(r) == run[r].of
Phase(r) == Head(run[r].todo)
PhaseNumber(r) == CHOOSE n \in DOMAIN PhasesOf(Of(r)) : PhasesOf(Of(r))[n] = Phase(r)
Out(r, i) == Outputs(Phase(r))[i]

First(S) == CHOOSE q \in S : \A p \in S : q <= p

At(r) == First(run[r].left)

In(r, stage) == ~Idle(r) /\ run[r].stage = stage

UnderWay == {r \in Runs : ~Idle(r)}
Alongside(e) == {r \in UnderWay : Of(r) = e}

Becomes(r, row) == run' = [run EXCEPT ![r] = row]

Goes(r, stage) == Becomes(r, [run[r] EXCEPT !.stage = stage])

\* The run ends: it is done, or an error is raised.
Ends(r) == Becomes(r, NoRun)

PhaseDone(r) ==
  IF Tail(run[r].todo) = <<>> THEN Ends(r)
  ELSE Becomes(r, [run[r] EXCEPT !.todo = Tail(@), !.left = Questions, !.claim = {},
                                 !.stage = "open", !.heard = 0, !.read = {}])

\* On to the next question, at the given stage, or to the next phase.
QuestionDone(r, stage) ==
  IF run[r].left = {At(r)} THEN PhaseDone(r)
  ELSE Becomes(r, [run[r] EXCEPT !.left = @ \ {At(r)}, !.claim = @ \ {At(r)},
                                 !.stage = stage, !.heard = 0, !.read = {}])

\* A run that finds q missing while another is already at it has raced it.
Raced(r, q) ==
  IF \E s \in Runs \ {r} : ~Idle(s) /\ Of(s) = Of(r) /\ Phase(s) = Phase(r) /\ q \in run[s].claim
  THEN [raced EXCEPT ![Of(r)][q] = @ + 1] ELSE raced

Troubles == MapThenSumSet(LAMBDA e : stops[e], Experiments) + overlaps

-----------------------------------------------------------------------------
(* Starting: build_context of E1, and of E2 and E7 on top of it.  A manifest *)
(* is looked for, and written when there is none; it must otherwise be the   *)
(* one this run computes.                                                    *)

Followers == {e \in Experiments \ {"E1"} : manifest[e] /= NoManifest \/ Alongside(e) /= {}}

Start(r, e, c, todo, limit) ==
  /\ Idle(r)
  /\ UnderWay /= {} => Troubles < MaxTrouble
  /\ Cardinality(Followers \cup ({e} \ {"E1"})) <= MaxFollowers
  /\ manifest["E1"] \in {NoManifest, Base(c)}
  /\ overlaps' = IF UnderWay = {} THEN overlaps ELSE overlaps + 1
  /\ Becomes(r, [NoRun EXCEPT
       !.of = e, !.manifest = Base(c), !.todo = todo, !.left = 1..limit,
       !.stage = CASE manifest["E1"] = NoManifest -> "source"
                   [] manifest["E1"] /= NoManifest /\ e = "E1" -> "open"
                   [] OTHER -> "context"])
  /\ UNCHANGED <<disk, calls, stops, raced>>

\* One phase or "all"; --limit only for one phase of E2 or E7, never the report.
StartAll(r, e, c) == e \in Whole /\ Start(r, e, c, PhasesOf(e), Count)

StartPhase(r, e, c) ==
  \E n \in DOMAIN PhasesOf(e), limit \in Questions :
    /\ e = "E1" \/ PhasesOf(e)[n] = "report" => limit = Count
    /\ Start(r, e, c, <<PhasesOf(e)[n]>>, limit)

\* The manifest is written over whatever is there by now.  One that replaces
\* another turns every file of the directory into a stranger's.
Binds(e, m) ==
  /\ manifest' = [manifest EXCEPT ![e] = m]
  /\ raced' = IF manifest[e] \in {NoManifest, m} THEN raced
              ELSE [raced EXCEPT ![e] = [q \in Questions |-> @[q] + 1]]
  /\ UNCHANGED <<file, windows, report, calls, stops, overlaps>>

BindSource(r) ==
  /\ In(r, "source")
  /\ Binds("E1", Base(run[r].manifest.config))
  /\ Goes(r, IF Of(r) = "E1" THEN "open" ELSE "context")

InputsReady(r) == \A q \in Questions : InputsBound(run[r].manifest, Of(r), q)

\* E1's files are replayed, and name what this run's manifest must be.
ReadInputs(r) ==
  LET m == ManifestOf(Of(r), run[r].manifest.config) IN
  /\ In(r, "context")
  /\ IF InputsReady(r) /\ manifest[Of(r)] \in {NoManifest, m}
     THEN Becomes(r, [run[r] EXCEPT !.manifest = m,
                                    !.stage = IF manifest[Of(r)] = m THEN "open" ELSE "bind"])
     ELSE Ends(r)
  /\ UNCHANGED <<disk, calls, counts>>

BindOwn(r) ==
  /\ In(r, "bind")
  /\ Binds(Of(r), run[r].manifest)
  /\ Goes(r, "open")

-----------------------------------------------------------------------------
(* Looking for what is missing. *)

Existing(r) == {i \in DOMAIN Outputs(Phase(r)) : Made(Of(r), At(r), Out(r, i))}
Complete(r) == Existing(r) = DOMAIN Outputs(Phase(r))

\* Mutated form: only the last file of a pair is looked for.
UntouchedLast(r) == Len(Outputs(Phase(r))) \notin Existing(r)

Untouched(r) == Existing(r) = {}

\* All that this question's files of this phase are made from replays.
Ready(r) == Replays(run[r].manifest, Of(r), At(r), PhaseNumber(r) - 1)

\* What the files of this phase will name, as it is now.
Readings(r) == UNION {Cited(Of(r), At(r), Out(r, i)) : i \in DOMAIN Outputs(Phase(r))}

\* A collecting phase has looked at its last question, or goes on looking.
Looked(r, missing) ==
  LET claim == run[r].claim \cup missing IN
  IF run[r].left /= {At(r)}
  THEN Becomes(r, [run[r] EXCEPT !.left = @ \ {At(r)}, !.claim = claim])
  ELSE IF claim = {} THEN PhaseDone(r)
  ELSE Becomes(r, [run[r] EXCEPT !.left = claim, !.claim = claim, !.stage = "make"])

VerifyQuestion(r) ==
  /\ In(r, "open") /\ Phase(r) /= "report"
  /\ Complete(r)
  /\ CASE ~Replays(run[r].manifest, Of(r), At(r), PhaseNumber(r)) -> Ends(r)
       [] OTHER -> IF Collects(Phase(r)) THEN Looked(r, {}) ELSE QuestionDone(r, "open")
  /\ UNCHANGED <<disk, calls, counts>>

\* Mutated form: files that are there are made again.
MissingAll(r) == TRUE

Missing(r) == Untouched(r)

\* A collecting phase looks at all its questions before it makes the first file.
ListMissing(r) ==
  /\ In(r, "open") /\ Collects(Phase(r)) /\ Missing(r)
  /\ Looked(r, {At(r)})
  /\ raced' = Raced(r, At(r))
  /\ UNCHANGED <<disk, calls, stops, overlaps>>

\* Constructor receipts are validated when they are read back.
Receivable(r) == Phase(r) = "construct" => windows[At(r)].valid

\* One side of a pair, or something the phase needs, is not there.
RefuseQuestion(r) ==
  /\ \/ In(r, "open") /\ Phase(r) /= "report" /\ ~Collects(Phase(r)) /\ ~Complete(r)
        /\ (~Untouched(r) \/ ~Ready(r) \/ ~Receivable(r))
     \/ In(r, "make") /\ ~Ready(r)
  /\ Ends(r)
  /\ UNCHANGED <<disk, calls, counts>>

MakeOne(r) ==
  /\ In(r, "make") /\ Ready(r)
  /\ Becomes(r, [run[r] EXCEPT !.stage = "first", !.read = Readings(r)])
  /\ UNCHANGED <<disk, calls, counts>>

Begins(r, f, stage, heard) ==
  /\ In(r, "open") /\ Phase(r) = f
  /\ Untouched(r) /\ Ready(r)
  /\ Becomes(r, [run[r] EXCEPT !.claim = {At(r)}, !.stage = stage, !.heard = heard,
                                !.read = Readings(r)])
  /\ raced' = Raced(r, At(r))
  /\ UNCHANGED <<disk, calls, stops, overlaps>>

BeginWindows(r) == Begins(r, "windows", "first", 0)
BeginPack(r) == Begins(r, "pack", "first", 0)
BeginQA(r) == Begins(r, "qa", "ask", 0)

\* Mutated form: a restart does not read the constructor receipts back.
BeginConstructAfresh(r) == Begins(r, "construct", "ask", 0)

\* The receipts of an earlier run are read back, and validated.
BeginConstruct(r) ==
  /\ In(r, "open") /\ Receivable(r)
  /\ Begins(r, "construct", "ask", windows[At(r)].kept)

-----------------------------------------------------------------------------
(* Calls, and what is written for a question. *)

Wanted(r) == IF Phase(r) = "construct" THEN Windows ELSE Calls

AskConstructor(r) ==
  /\ In(r, "ask") /\ Phase(r) = "construct" /\ run[r].heard < Windows
  /\ posed' = [posed EXCEPT ![At(r)] = @ + 1]
  /\ Goes(r, "asked")
  /\ UNCHANGED <<disk, sent, counts>>

AskReaderOrJudge(r) ==
  /\ In(r, "ask") /\ Phase(r) = "qa" /\ run[r].heard < Calls
  /\ sent' = [sent EXCEPT ![Of(r)][At(r)] = @ + 1]
  /\ Goes(r, "asked")
  /\ UNCHANGED <<disk, posed, counts>>

\* E1, E2 and E7 keep reader and judge answers in memory until all are there.
HearAnswer(r) ==
  /\ In(r, "asked") /\ Phase(r) = "qa"
  /\ Becomes(r, [run[r] EXCEPT !.stage = "ask", !.heard = @ + 1])
  /\ UNCHANGED <<disk, calls, counts>>

\* What a run knows of a file it has just written itself.
Knows(r, k, stamp) ==
  {c \in run[r].read : <<c[1], c[2]>> /= <<Of(r), k>>} \cup {<<Of(r), k, stamp>>}

\* E7 writes all the constructor's answers it has after every call, and looks at
\* the last one then.
KeepWindow(r) ==
  LET stamp == windows[At(r)].stamp + 1 IN
  /\ In(r, "asked") /\ Phase(r) = "construct"
  /\ \E ok \in BOOLEAN :
       /\ windows' = [windows EXCEPT ![At(r)] =
                        [stamp |-> stamp, kept |-> run[r].heard + 1, valid |-> ok]]
       /\ IF ok
          THEN Becomes(r, [run[r] EXCEPT !.stage = "ask", !.heard = @ + 1,
                                         !.read = Knows(r, "constructor", stamp)])
          ELSE Ends(r)
  /\ UNCHANGED <<manifest, file, report, calls, counts>>

\* The client gives up, or the provider counted other prompt tokens.
CallFails(r) ==
  /\ In(r, "asked") /\ Troubles < MaxTrouble
  /\ stops' = [stops EXCEPT ![Of(r)] = @ + 1]
  /\ Ends(r)
  /\ UNCHANGED <<disk, calls, overlaps, raced>>

AllHeard(r) ==
  /\ In(r, "ask") /\ run[r].heard = Wanted(r)
  /\ Goes(r, "first")
  /\ UNCHANGED <<disk, calls, counts>>

\* Made from the same files, these come out the same.
Repeatable == {"contexts", "prompts", "pack"}

Row(r, k) ==
  LET q == At(r)
      of == {c \in run[r].read : <<c[1], c[2]>> \in Sources(Of(r), k)}
      again == /\ k \in Repeatable /\ Made(Of(r), q, k)
               /\ file[Of(r)][q][k].of = of /\ file[Of(r)][q][k].manifest = run[r].manifest IN
  [stamp |-> Stamp(Of(r), q, k) + IF again THEN 0 ELSE 1, manifest |-> run[r].manifest, of |-> of]

Write(r, k) ==
  file' = [file EXCEPT ![Of(r)][At(r)] =
             [j \in DOMAIN @ \cup {k} |-> IF j = k THEN Row(r, k) ELSE @[j]]]

\* These replay the row from the disk before they write it: the files it was
\* made from must still be there, and be those.
Rechecked == {"cross_encoder", "organization", "qa"}

Rechecks(r, k) ==
  k \in Rechecked =>
    /\ Ready(r)
    /\ \A c \in run[r].read : c[2] /= "receipts" => c[3] = Stamp(c[1], At(r), c[2])

WriteFirst(r) ==
  /\ In(r, "first")
  /\ IF ~Rechecks(r, Out(r, 1)) THEN Ends(r) /\ UNCHANGED file
     ELSE /\ Write(r, Out(r, 1))
          /\ IF Len(Outputs(Phase(r))) = 1
             THEN QuestionDone(r, IF Collects(Phase(r)) THEN "make" ELSE "open")
             ELSE Becomes(r, [run[r] EXCEPT
                    !.stage = "second", !.read = Knows(r, Out(r, 1), Row(r, Out(r, 1)).stamp)])
  /\ UNCHANGED <<manifest, windows, report, calls, counts>>

WriteSecond(r) ==
  /\ In(r, "second")
  /\ IF ~Rechecks(r, Out(r, 2)) THEN Ends(r) /\ UNCHANGED file
     ELSE Write(r, Out(r, 2)) /\ QuestionDone(r, "open")
  /\ UNCHANGED <<manifest, windows, report, calls, counts>>

\* build_report replays every file of every question of the sample.
Reportable(r) ==
  \A q \in Questions : Replays(run[r].manifest, Of(r), q, Len(PhasesOf(Of(r))) - 1)

Reported(e) == UNION {{<<q, k, Stamp(e, q, k)>> : k \in DOMAIN file[e][q]} : q \in Questions}

Report(r) ==
  /\ In(r, "open") /\ Phase(r) = "report"
  /\ report' = IF Reportable(r) THEN [report EXCEPT ![Of(r)] = Reported(Of(r))] ELSE report
  /\ Ends(r)
  /\ UNCHANGED <<manifest, file, windows, calls, counts>>

Kill(r) ==
  /\ ~Idle(r) /\ Troubles < MaxTrouble
  /\ stops' = [stops EXCEPT ![Of(r)] = @ + 1]
  /\ Ends(r)
  /\ UNCHANGED <<disk, calls, overlaps, raced>>

-----------------------------------------------------------------------------

Init ==
  /\ manifest = [e \in Experiments |-> NoManifest]
  /\ file = [e \in Experiments |-> [q \in Questions |-> <<>>]]
  /\ windows = [q \in Questions |-> [stamp |-> 0, kept |-> 0, valid |-> TRUE]]
  /\ report = [e \in Experiments |-> {}]
  /\ sent = [e \in Experiments |-> [q \in Questions |-> 0]]
  /\ posed = [q \in Questions |-> 0]
  /\ stops = [e \in Experiments |-> 0]
  /\ overlaps = 0
  /\ raced = [e \in Experiments |-> [q \in Questions |-> 0]]
  /\ run = [r \in Runs |-> NoRun]

Step(r) ==
  \/ BindSource(r) \/ ReadInputs(r) \/ BindOwn(r)
  \/ VerifyQuestion(r) \/ ListMissing(r) \/ RefuseQuestion(r) \/ MakeOne(r)
  \/ BeginWindows(r) \/ BeginConstruct(r) \/ BeginPack(r) \/ BeginQA(r)
  \/ AskConstructor(r) \/ AskReaderOrJudge(r) \/ HearAnswer(r) \/ KeepWindow(r) \/ AllHeard(r)
  \/ WriteFirst(r) \/ WriteSecond(r) \/ Report(r)

Next ==
  \E r \in Runs :
    \/ \E e \in Experiments, c \in Configs : StartAll(r, e, c) \/ StartPhase(r, e, c)
    \/ Step(r) \/ CallFails(r) \/ Kill(r)

Spec == Init /\ [][Next]_vars

-----------------------------------------------------------------------------
(* Properties. *)

\* Type invariant: files, receipts, calls and the position of a run are of the
\* shapes run_*_phase and build_context give them.
PhasedTypeOK ==
  /\ \A e \in Experiments :
       /\ manifest[e].config \in Configs \cup {NoConfig}
       /\ stops[e] \in 0..MaxTrouble
  /\ \A r \in Runs :
       /\ run[r].stage \in {"idle", "source", "context", "bind", "open", "make", "ask", "asked",
                            "first", "second"}
       /\ run[r].claim \cup run[r].left \subseteq Questions
       /\ ~Idle(r) => run[r].left /= {} /\ run[r].todo /= <<>>
  /\ \A q \in Questions : windows[q].kept <= Windows

\* No run has raced another for this question, in this directory or in E1's,
\* and no manifest was written over another one.
Undisputed(e, q) == raced[e][q] = 0 /\ raced["E1"][q] = 0

\* Whatever runs are killed, restarted, started out of order or beside each
\* other: every file on disk was made under the manifest of its directory from
\* files that are there unchanged, in E1's directory too, and so was every
\* report (the bindings that replay_*_row and build_report check).  Two runs
\* that make the same file at a time may break this for its question, and for
\* no other.
EvidenceBound ==
  \A e \in Experiments, q \in Questions : Undisputed(e, q) =>
    /\ \A k \in DOMAIN file[e][q] : BoundTo(manifest[e], e, q, k)
    /\ \A c \in report[e] : c[1] = q => c[3] = Stamp(e, q, c[2])
    /\ report[e] /= {} => Replays(manifest[e], e, q, Len(PhasesOf(e)) - 1)

\* Calls whose answers no receipt keeps, by question.
Unrecorded(e) ==
  [q \in Questions |-> IF Made(e, q, "receipts") THEN sent[e][q] - Calls ELSE sent[e][q]]

Unkept == [q \in Questions |-> posed[q] - windows[q].kept]

Total(count) == MapThenSumSet(LAMBDA q : count[q], DOMAIN count)

Listening == {r \in Alongside("E7") : run[r].stage = "asked"}

\* Money: calls whose answers no receipt keeps are at most one question's for
\* every time a run was stopped or raced another for a question, and for E7's
\* constructor, which keeps each answer at once, one call for every stop and
\* one question's for every race (_run_qa_calls, _run_constructor_calls).
LossBounded ==
  /\ \A e \in Experiments :
       Total(Unrecorded(e)) <=
         Calls * (stops[e] + Total(raced[e]) + Cardinality(Alongside(e)))
  /\ "E7" \in Experiments =>
       Total(Unkept) <= stops["E7"] + Windows * Total(raced["E7"]) + Cardinality(Listening)

\* No answered question is asked again: a question whose receipts are on disk, or
\* a window whose receipt is, costs no further call, even when its result is
\* missing, unless two runs took that question at the same time.
AsksOnlyNew ==
  /\ \A e \in Experiments, q \in Questions :
       sent'[e][q] > sent[e][q] => ~Made(e, q, "receipts") \/ raced[e][q] > 0
  /\ \A q \in Questions :
       posed'[q] > posed[q] =>
         \/ windows[q].kept < Windows /\ ~Made("E7", q, "construction")
         \/ raced["E7"][q] > 0

NeverAskedAgain == [][AsksOnlyNew]_vars

=============================================================================
