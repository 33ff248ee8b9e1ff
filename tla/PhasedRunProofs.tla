--------------------------- MODULE PhasedRunProofs ---------------------------
(* Machine-checked facts about the phase runners, for every set of          *)
(* experiments, every number of runs at a time and every bound: what is on  *)
(* disk is bound to what it was made from, and nothing answered is asked    *)
(* again, but for the questions that two runs took at the same time.        *)
EXTENDS PhasedRun, WellFoundedInduction, TLAPS

-----------------------------------------------------------------------------
(* What the tables of phases, files and citations say.                     *)

PhaseSet(e) == {PhasesOf(e)[n] : n \in DOMAIN PhasesOf(e)}
OutputSet(f) == {Outputs(f)[i] : i \in DOMAIN Outputs(f)}
KindsOf(e) == UNION {OutputSet(f) : f \in PhaseSet(e)}

\* The phases of each experiment, by their place.
LEMMA PhasesListed ==
    /\ DOMAIN PhasesOf("E1") = 1..5 /\ Len(PhasesOf("E1")) = 5
    /\ PhasesOf("E1")[1] = "dense" /\ PhasesOf("E1")[2] = "cross_encoder"
    /\ PhasesOf("E1")[3] = "pack" /\ PhasesOf("E1")[4] = "qa" /\ PhasesOf("E1")[5] = "report"
    /\ DOMAIN PhasesOf("E2") = 1..4 /\ Len(PhasesOf("E2")) = 4
    /\ PhasesOf("E2")[1] = "organization" /\ PhasesOf("E2")[2] = "pack"
    /\ PhasesOf("E2")[3] = "qa" /\ PhasesOf("E2")[4] = "report"
    /\ DOMAIN PhasesOf("E7") = 1..5 /\ Len(PhasesOf("E7")) = 5
    /\ PhasesOf("E7")[1] = "windows" /\ PhasesOf("E7")[2] = "construct"
    /\ PhasesOf("E7")[3] = "pack" /\ PhasesOf("E7")[4] = "qa" /\ PhasesOf("E7")[5] = "report"
<1>1. /\ PhasesOf("E1") = <<"dense", "cross_encoder", "pack", "qa", "report">>
      /\ PhasesOf("E2") = <<"organization", "pack", "qa", "report">>
      /\ PhasesOf("E7") = <<"windows", "construct", "pack", "qa", "report">>
  BY DEF PhasesOf
<1> QED BY <1>1

LEMMA PhaseSets ==
    /\ PhaseSet("E1") = {"dense", "cross_encoder", "pack", "qa", "report"}
    /\ PhaseSet("E2") = {"organization", "pack", "qa", "report"}
    /\ PhaseSet("E7") = {"windows", "construct", "pack", "qa", "report"}
<1>1. PhaseSet("E1") = {"dense", "cross_encoder", "pack", "qa", "report"}
  <2>1. PhaseSet("E1") = {PhasesOf("E1")[n] : n \in {1, 2, 3, 4, 5}}
    BY PhasesListed DEF PhaseSet
  <2> QED BY <2>1, PhasesListed
<1>2. PhaseSet("E2") = {"organization", "pack", "qa", "report"}
  <2>1. PhaseSet("E2") = {PhasesOf("E2")[n] : n \in {1, 2, 3, 4}}
    BY PhasesListed DEF PhaseSet
  <2> QED BY <2>1, PhasesListed
<1>3. PhaseSet("E7") = {"windows", "construct", "pack", "qa", "report"}
  <2>1. PhaseSet("E7") = {PhasesOf("E7")[n] : n \in {1, 2, 3, 4, 5}}
    BY PhasesListed DEF PhaseSet
  <2> QED BY <2>1, PhasesListed
<1> QED BY <1>1, <1>2, <1>3

\* The files of each phase, in the order they are written.
LEMMA OutputsListed ==
    /\ \A f \in {"dense", "cross_encoder", "organization", "windows"} :
         /\ DOMAIN Outputs(f) = {1} /\ Len(Outputs(f)) = 1
         /\ Outputs(f)[1] = f
    /\ \A f \in {"construct", "pack", "qa"} : DOMAIN Outputs(f) = {1, 2} /\ Len(Outputs(f)) = 2
    /\ Outputs("construct")[1] = "contexts" /\ Outputs("construct")[2] = "construction"
    /\ Outputs("pack")[1] = "prompts" /\ Outputs("pack")[2] = "pack"
    /\ Outputs("qa")[1] = "receipts" /\ Outputs("qa")[2] = "qa"
    /\ DOMAIN Outputs("report") = {}
<1>1. \A f \in {"dense", "cross_encoder", "organization", "windows"} : Outputs(f) = <<f>>
  BY DEF Outputs
<1>2. /\ Outputs("construct") = <<"contexts", "construction">>
      /\ Outputs("pack") = <<"prompts", "pack">> /\ Outputs("qa") = <<"receipts", "qa">>
      /\ Outputs("report") = <<>>
  BY DEF Outputs
<1> QED BY <1>1, <1>2

LEMMA OutputSets ==
    /\ \A f \in {"dense", "cross_encoder", "organization", "windows"} : OutputSet(f) = {f}
    /\ OutputSet("construct") = {"contexts", "construction"}
    /\ OutputSet("pack") = {"prompts", "pack"} /\ OutputSet("qa") = {"receipts", "qa"}
    /\ OutputSet("report") = {}
  BY OutputsListed DEF OutputSet

LEMMA KindSets ==
    /\ KindsOf("E1") = {"dense", "cross_encoder", "prompts", "pack", "receipts", "qa"}
    /\ KindsOf("E2") = {"organization", "prompts", "pack", "receipts", "qa"}
    /\ KindsOf("E7") = {"windows", "contexts", "construction", "prompts", "pack", "receipts", "qa"}
  BY PhaseSets, OutputSets DEF KindsOf

\* The three experiments have different directories and nothing else in common.
LEMMA ThreeExperiments ==
    /\ "E1" \in Experiments
    /\ \A e \in Experiments : e \in {"E1", "E2", "E7"}
  BY PhasedRunAssumption

-----------------------------------------------------------------------------
(* The files a phase makes cite only what it has verified.                 *)

\* Whatever a file names is on disk.
SourcesMade(e, q, k) ==
    \A s \in Sources(e, k) : s[2] = "constructor" \/ (s[1] \in Experiments /\ Made(s[1], q, s[2]))

\* So does one that phase f is about to write, or it names the file f writes first.
Supplied(e, q, f, i) ==
    \A s \in Sources(e, Outputs(f)[i]) :
      \/ s[2] = "constructor"
      \/ i = 2 /\ s = <<e, Outputs(f)[1]>>
      \/ s[1] \in Experiments /\ Made(s[1], q, s[2])

\* The files of every phase before the n-th one are there.
LEMMA ReplayedMade ==
    ASSUME NEW m, NEW e \in Experiments, NEW q, NEW n \in DOMAIN PhasesOf(e),
           Replays(m, e, q, n - 1)
    PROVE  /\ \A k \in Inputs(e) : Made("E1", q, k)
           /\ \A i \in 1 .. n - 1 : \A k \in OutputSet(PhasesOf(e)[i]) : Made(e, q, k)
  BY DEF Replays, InputsBound, BoundTo, OutputSet

\* The kinds of E1 a follower reads are kinds E1 makes before its own phases.
LEMMA InputsListed ==
    /\ Inputs("E1") = {} /\ Inputs("E2") = {"dense"} /\ Inputs("E7") = {"dense", "cross_encoder"}
  BY DEF Inputs

\* The files each artifact names.
LEMMA SourcesListed ==
    /\ \A e \in {"E1", "E2", "E7"} :
         /\ Sources(e, "dense") = {}
         /\ Sources(e, "cross_encoder") = {<<"E1", "dense">>}
         /\ Sources(e, "organization") = {<<"E1", "dense">>}
         /\ Sources(e, "windows") = {<<"E1", "dense">>, <<"E1", "cross_encoder">>}
         /\ Sources(e, "contexts") = {<<"E7", "windows">>, <<"E7", "constructor">>}
         /\ Sources(e, "construction") =
               {<<"E7", "windows">>, <<"E7", "constructor">>, <<"E7", "contexts">>}
         /\ Sources(e, "pack") = Sources(e, "prompts") \cup {<<e, "prompts">>}
         /\ Sources(e, "receipts") = {<<e, "prompts">>}
         /\ Sources(e, "qa") = {<<e, "prompts">>, <<e, "pack">>, <<e, "receipts">>}
    /\ Sources("E1", "prompts") = {<<"E1", "dense">>, <<"E1", "cross_encoder">>}
    /\ Sources("E2", "prompts") = {<<"E2", "organization">>}
    /\ Sources("E7", "prompts") = {<<"E7", "contexts">>, <<"E7", "construction">>}
<1>1. ASSUME NEW e \in {"E1", "E2", "E7"}
      PROVE  /\ Sources(e, "dense") = {}
             /\ Sources(e, "cross_encoder") = {<<"E1", "dense">>}
             /\ Sources(e, "organization") = {<<"E1", "dense">>}
             /\ Sources(e, "windows") = {<<"E1", "dense">>, <<"E1", "cross_encoder">>}
             /\ Sources(e, "contexts") = {<<"E7", "windows">>, <<"E7", "constructor">>}
             /\ Sources(e, "construction") =
                   {<<"E7", "windows">>, <<"E7", "constructor">>, <<"E7", "contexts">>}
  BY DEF Sources, DenseCites, CrossEncoderCites, OrganizationCites, SimilarityCites, WindowsCites,
         ContextsCites, ConstructionCites
<1>2. ASSUME NEW e \in {"E1", "E2", "E7"}
      PROVE  /\ Sources(e, "prompts") = PromptsCite(e)
             /\ Sources(e, "pack") = PromptsCite(e) \cup {<<e, "prompts">>}
             /\ Sources(e, "receipts") = {<<e, "prompts">>}
             /\ Sources(e, "qa") = {<<e, "prompts">>, <<e, "pack">>, <<e, "receipts">>}
  BY DEF Sources, PackCites, ReceiptsCite, QACites
<1>3. /\ PromptsCite("E1") = {<<"E1", "dense">>, <<"E1", "cross_encoder">>}
      /\ PromptsCite("E2") = {<<"E2", "organization">>}
      /\ PromptsCite("E7") = {<<"E7", "contexts">>, <<"E7", "construction">>}
  BY DEF PromptsCite, PromptsOfE1Cite, PromptsOfE2Cite, PromptsOfE7Cite
<1> QED BY <1>1, <1>2, <1>3
\* What a phase writes for a question names only what it found there: files of
\* earlier phases, of E1, or the file it wrote just before.
LEMMA SourcesReady ==
    ASSUME NEW m, NEW e \in Experiments, NEW q, NEW n \in DOMAIN PhasesOf(e),
           Replays(m, e, q, n - 1), NEW i \in DOMAIN Outputs(PhasesOf(e)[n])
    PROVE  Supplied(e, q, PhasesOf(e)[n], i)
<1>1. /\ \A k \in Inputs(e) : Made("E1", q, k)
      /\ \A j \in 1 .. n - 1 : \A k \in OutputSet(PhasesOf(e)[j]) : Made(e, q, k)
  BY ReplayedMade
<1>2. /\ "E1" \in Experiments /\ e \in {"E1", "E2", "E7"}
  BY ThreeExperiments
<1>3. CASE e = "E1"
  <2>1. n \in {1, 2, 3, 4, 5}
    BY <1>3, PhasesListed
  <2>2. n >= 2 => Made("E1", q, "dense")
    BY <1>1, <1>3, <2>1, PhasesListed, OutputSets
  <2>3. n >= 3 => Made("E1", q, "cross_encoder")
    BY <1>1, <1>3, <2>1, PhasesListed, OutputSets
  <2>4. n >= 4 => Made("E1", q, "prompts") /\ Made("E1", q, "pack")
    BY <1>1, <1>3, <2>1, PhasesListed, OutputSets
  <2>5. CASE n = 1 BY <1>2, <1>3, <2>5, PhasesListed, OutputsListed, SourcesListed DEF Supplied
  <2>6. CASE n = 2 BY <1>2, <1>3, <2>2, <2>6, PhasesListed, OutputsListed, SourcesListed DEF Supplied
  <2>7. CASE n = 3 BY <1>2, <1>3, <2>2, <2>3, <2>7, PhasesListed, OutputsListed, SourcesListed DEF Supplied
  <2>8. CASE n = 4 BY <1>2, <1>3, <2>4, <2>8, PhasesListed, OutputsListed, SourcesListed DEF Supplied
  <2>9. CASE n = 5 BY <1>3, <2>9, PhasesListed, OutputsListed
  <2> QED BY <2>1, <2>5, <2>6, <2>7, <2>8, <2>9
<1>4. CASE e = "E2"
  <2>1. n \in {1, 2, 3, 4} /\ Made("E1", q, "dense")
    BY <1>1, <1>4, PhasesListed, InputsListed
  <2>2. n >= 2 => Made("E2", q, "organization")
    BY <1>1, <1>4, <2>1, PhasesListed, OutputSets
  <2>3. n >= 3 => Made("E2", q, "prompts") /\ Made("E2", q, "pack")
    BY <1>1, <1>4, <2>1, PhasesListed, OutputSets
  <2>5. CASE n = 1 BY <1>2, <1>4, <2>1, <2>5, PhasesListed, OutputsListed, SourcesListed DEF Supplied
  <2>6. CASE n = 2 BY <1>2, <1>4, <2>2, <2>6, PhasesListed, OutputsListed, SourcesListed DEF Supplied
  <2>7. CASE n = 3 BY <1>2, <1>4, <2>3, <2>7, PhasesListed, OutputsListed, SourcesListed DEF Supplied
  <2>8. CASE n = 4 BY <1>4, <2>8, PhasesListed, OutputsListed
  <2> QED BY <2>1, <2>5, <2>6, <2>7, <2>8
<1>5. CASE e = "E7"
  <2>1. n \in {1, 2, 3, 4, 5} /\ Made("E1", q, "dense") /\ Made("E1", q, "cross_encoder")
    BY <1>1, <1>5, PhasesListed, InputsListed
  <2>2. n >= 2 => Made("E7", q, "windows")
    BY <1>1, <1>5, <2>1, PhasesListed, OutputSets
  <2>3. n >= 3 => Made("E7", q, "contexts") /\ Made("E7", q, "construction")
    BY <1>1, <1>5, <2>1, PhasesListed, OutputSets
  <2>4. n >= 4 => Made("E7", q, "prompts") /\ Made("E7", q, "pack")
    BY <1>1, <1>5, <2>1, PhasesListed, OutputSets
  <2>5. CASE n = 1 BY <1>2, <1>5, <2>1, <2>5, PhasesListed, OutputsListed, SourcesListed DEF Supplied
  <2>6. CASE n = 2 BY <1>2, <1>5, <2>2, <2>6, PhasesListed, OutputsListed, SourcesListed DEF Supplied
  <2>7. CASE n = 3 BY <1>2, <1>5, <2>3, <2>7, PhasesListed, OutputsListed, SourcesListed DEF Supplied
  <2>8. CASE n = 4 BY <1>2, <1>5, <2>4, <2>8, PhasesListed, OutputsListed, SourcesListed DEF Supplied
  <2>9. CASE n = 5 BY <1>5, <2>9, PhasesListed, OutputsListed
  <2> QED BY <2>1, <2>5, <2>6, <2>7, <2>8, <2>9
<1> QED BY <1>2, <1>3, <1>4, <1>5
\* A file that names constructor receipts is one of E7, made with or after its
\* contexts.
LEMMA ConstructorCited ==
    ASSUME NEW e \in Experiments, NEW q, NEW k \in KindsOf(e), Made(e, q, k), SourcesMade(e, q, k),
           NEW s \in Sources(e, k), s[2] = "constructor"
    PROVE  e = "E7" /\ Made("E7", q, "contexts")
<1>1. e \in {"E1", "E2", "E7"}
  BY ThreeExperiments
<1>2. k \in {"contexts", "construction"}
  BY <1>1, KindSets, SourcesListed
<1>3. e = "E7"
  BY <1>1, <1>2, KindSets
<1>4. k = "construction" => <<"E7", "contexts">> \in Sources(e, k)
  BY <1>3, SourcesListed
<1> QED BY <1>2, <1>3, <1>4 DEF SourcesMade

\* A file names files of its own directory and of E1's, and never itself.
LEMMA SourcesNear ==
    ASSUME NEW e \in Experiments, NEW k \in KindsOf(e), NEW s \in Sources(e, k)
    PROVE  s[1] \in {e, "E1"} /\ s = <<s[1], s[2]>> /\ s /= <<e, k>>
<1>1. e \in {"E1", "E2", "E7"}
  BY ThreeExperiments
<1>2. CASE e = "E1"
  BY <1>2, KindSets, SourcesListed
<1>3. CASE e = "E2"
  BY <1>3, KindSets, SourcesListed
<1>4. CASE e = "E7"
  BY <1>4, KindSets, SourcesListed
<1> QED BY <1>1, <1>2, <1>3, <1>4

\* No file is made by two phases, or twice by one.
LEMMA OutputsApart ==
    ASSUME NEW e \in Experiments, NEW f \in PhaseSet(e)
    PROVE  /\ OutputSet(f) \subseteq KindsOf(e)
           /\ \A g \in PhaseSet(e) : \A k \in OutputSet(f) \cap OutputSet(g) : f = g
           /\ \A i \in DOMAIN Outputs(f) : i \in {1, 2} /\ (i = 2 => Outputs(f)[1] /= Outputs(f)[2])
           /\ "constructor" \notin KindsOf(e)
<1>1. e \in {"E1", "E2", "E7"}
  BY ThreeExperiments
<1>2. f \in {"dense", "cross_encoder", "organization", "windows", "construct", "pack", "qa", "report"}
  BY <1>1, PhaseSets
<1>3. \A i \in DOMAIN Outputs(f) : i \in {1, 2} /\ (i = 2 => Outputs(f)[1] /= Outputs(f)[2])
  BY <1>2, OutputsListed
<1>4. ASSUME NEW g \in PhaseSet(e), NEW k \in OutputSet(f) \cap OutputSet(g)
      PROVE  f = g
  <2>1. g \in {"dense", "cross_encoder", "organization", "windows", "construct", "pack", "qa", "report"}
    BY <1>1, PhaseSets
  <2> QED BY <1>2, <2>1, OutputSets
<1>5. "constructor" \notin KindsOf(e)
  BY <1>1, KindSets
<1> QED BY <1>3, <1>4, <1>5 DEF KindsOf

-----------------------------------------------------------------------------
(* The inductive invariant.                                                *)

PhaseNames ==
    {"dense", "cross_encoder", "organization", "windows", "construct", "pack", "qa", "report"}
Fields == {"of", "manifest", "todo", "left", "claim", "stage", "heard", "read"}
Unbound == {"source", "context", "bind"}
Busy == {"ask", "asked", "first", "second"}

\* The tables have a row for every experiment, question and run.
Shapes ==
    /\ DOMAIN manifest = Experiments
    /\ \A e \in Experiments : manifest[e] = NoManifest \/ manifest[e].config \in Configs
    /\ DOMAIN file = Experiments /\ \A e \in Experiments : DOMAIN file[e] = Questions
    /\ DOMAIN windows = Questions /\ DOMAIN report = Experiments
    /\ sent \in [Experiments -> [Questions -> Nat]] /\ posed \in [Questions -> Nat]
    /\ raced \in [Experiments -> [Questions -> Nat]]
    /\ DOMAIN run = Runs /\ \A r \in Runs : DOMAIN run[r] = Fields

\* A file is bound to what it was made from, which is all there.
Kept(e, q, k) ==
    /\ k \in KindsOf(e) /\ manifest[e].config \in Configs
    /\ BoundTo(manifest[e], e, q, k) /\ SourcesMade(e, q, k)

Grounded ==
    \A e \in Experiments, q \in Questions :
      Undisputed(e, q) => \A k \in DOMAIN file[e][q] : Kept(e, q, k)

\* Where a run may be.
Fits(r) ==
    /\ Of(r) \in Experiments /\ run[r].todo \in Seq(PhaseSet(Of(r))) /\ run[r].todo /= <<>>
    /\ run[r].left \subseteq Questions /\ run[r].left /= {} /\ run[r].claim \subseteq Questions
    /\ run[r].manifest.config \in Configs
    /\ run[r].stage \in Unbound \cup {"open", "make"} \cup Busy
    /\ run[r].stage = "source" => run[r].manifest = Base(run[r].manifest.config)
    /\ run[r].stage \in {"context", "bind"} => Of(r) /= "E1"
    /\ run[r].stage = "make" => Collects(Phase(r))
    /\ run[r].stage \in {"make", "first"} /\ Collects(Phase(r)) => run[r].left \subseteq run[r].claim
    /\ run[r].stage \in {"ask", "asked"} => Phase(r) \in {"construct", "qa"}
    /\ run[r].stage \in Busy => At(r) \in run[r].claim /\ Phase(r) /= "report"
    /\ run[r].stage = "second" => Phase(r) \in {"construct", "pack", "qa"}

\* What a run has found missing, and no other run raced it for, is missing until
\* it makes it itself.
Untaken(r) ==
    \A q \in run[r].claim : raced[Of(r)][q] = 0 =>
      \A k \in OutputSet(Phase(r)) :
        Made(Of(r), q, k) => run[r].stage = "second" /\ q = At(r) /\ k = Out(r, 1)

\* What a run has of the constructor's answers is what is on disk.
Counted(r) ==
    run[r].stage \in {"ask", "asked"} /\ Phase(r) = "construct" /\ raced[Of(r)][At(r)] = 0 =>
      run[r].heard = windows[At(r)].kept

\* The manifests a run goes by are those of the directories.
Agreed(r) ==
    /\ run[r].stage /= "source" =>
         \A q \in Questions : Undisputed("E1", q) => manifest["E1"] = Base(run[r].manifest.config)
    /\ run[r].stage \notin Unbound =>
         \A q \in Questions : Undisputed(Of(r), q) => manifest[Of(r)] = run[r].manifest

\* What a run has read of the question it is at is still so.
Sourced(r) ==
    run[r].stage \in Busy /\ Undisputed(Of(r), At(r)) =>
      /\ run[r].read = Readings(r)
      /\ \A i \in DOMAIN Outputs(Phase(r)) : Supplied(Of(r), At(r), Phase(r), i)
      /\ run[r].stage = "second" => Made(Of(r), At(r), Out(r, 1))

RunOK(r) == Idle(r) \/ (Fits(r) /\ Untaken(r) /\ Counted(r) /\ Agreed(r) /\ Sourced(r))

\* Two runs that have found the same files missing have raced each other.
Apart(r, s) ==
    ~Idle(r) /\ ~Idle(s) /\ Of(r) = Of(s) /\ Phase(r) = Phase(s) =>
      \A q \in run[r].claim \cap run[s].claim : raced[Of(r)][q] /= 0

\* The last report is of files that are there.
Filed(e, q) ==
    Undisputed(e, q) =>
      /\ \A c \in report[e] : c[1] = q => Made(e, q, c[2]) /\ c[3] = Stamp(e, q, c[2])
      /\ report[e] /= {} =>
           /\ manifest[e].config \in Configs /\ manifest["E1"] = Base(manifest[e].config)
           /\ Replays(manifest[e], e, q, Len(PhasesOf(e)) - 1)

PhasedInv ==
    /\ Shapes /\ Grounded
    /\ \A r \in Runs : RunOK(r)
    /\ \A r, s \in Runs : r /= s => Apart(r, s)
    /\ \A e \in Experiments, q \in Questions : Filed(e, q)

-----------------------------------------------------------------------------
(* What is on disk stays what it was.                                      *)

\* For a question nobody disputes, steps write files that were not there, bind
\* a manifest that was not bound and add no constructor receipt behind its
\* contexts.
Grown ==
    \A e \in Experiments, q \in Questions : Undisputed(e, q)' =>
      /\ Undisputed(e, q)
      /\ \A k \in DOMAIN file[e][q] : k \in DOMAIN file'[e][q] /\ file'[e][q][k] = file[e][q][k]
      /\ manifest[e].config \in Configs => manifest'[e] = manifest[e]
      /\ e = "E7" /\ Made("E7", q, "contexts") => windows'[q] = windows[q]

LEMMA NearUndisputed ==
    ASSUME NEW e \in Experiments, NEW q \in Questions, NEW d \in {e, "E1"}
    PROVE  /\ Undisputed(e, q) => Undisputed(d, q)
           /\ Undisputed(e, q)' => Undisputed(d, q)'
           /\ d \in Experiments
  BY ThreeExperiments DEF Undisputed

\* What a file on disk names keeps its stamp.
LEMMA CitedStays ==
    ASSUME Grown, NEW e \in Experiments, NEW q \in Questions, NEW k, Undisputed(e, q)',
           k \in KindsOf(e), Made(e, q, k), SourcesMade(e, q, k)
    PROVE  Cited(e, q, k)' = Cited(e, q, k)
<1>1. ASSUME NEW s \in Sources(e, k)
      PROVE  Stamp(s[1], q, s[2])' = Stamp(s[1], q, s[2])
  <2>1. CASE s[2] = "constructor"
    <3>1. e = "E7" /\ Made("E7", q, "contexts")
      BY <2>1, ConstructorCited
    <3> QED BY <2>1, <3>1 DEF Stamp, Grown
  <2>2. CASE s[2] /= "constructor"
    <3>1. s[1] \in Experiments /\ Made(s[1], q, s[2])
      BY <2>2 DEF SourcesMade
    <3>2. Undisputed(s[1], q)'
      BY SourcesNear, NearUndisputed
    <3> QED BY <2>2, <3>1, <3>2 DEF Stamp, Grown, Made
  <2> QED BY <2>1, <2>2
<1>2. Cited(e, q, k)' = {<<s[1], s[2], Stamp(s[1], q, s[2])'>> : s \in Sources(e, k)}
  BY DEF Cited
<1> QED BY <1>1, <1>2 DEF Cited

\* So a file stays bound, and so does whatever was replayed.
LEMMA KeptStays ==
    ASSUME Grounded, Grown, NEW e \in Experiments, NEW q \in Questions, NEW k, Made(e, q, k),
           Undisputed(e, q)'
    PROVE  /\ Made(e, q, k)' /\ Kept(e, q, k)' /\ Kept(e, q, k)
           /\ manifest'[e] = manifest[e] /\ file'[e][q][k] = file[e][q][k]
<1>1. Kept(e, q, k)
  BY DEF Grounded, Made, Grown
<1>2. k \in DOMAIN file'[e][q] /\ file'[e][q][k] = file[e][q][k]
  BY DEF Grown, Made
<1>3. manifest'[e] = manifest[e]
  BY <1>1 DEF Kept, Grown
<1>4. Cited(e, q, k)' = Cited(e, q, k)
  BY <1>1, CitedStays DEF Kept
<1>5. SourcesMade(e, q, k)'
  <2>1. ASSUME NEW s \in Sources(e, k), s[2] /= "constructor"
        PROVE  s[1] \in Experiments /\ Made(s[1], q, s[2])'
    <3>1. s[1] \in Experiments /\ Made(s[1], q, s[2])
      BY <1>1, <2>1 DEF Kept, SourcesMade
    <3>2. Undisputed(s[1], q)'
      BY <1>1, SourcesNear, NearUndisputed DEF Kept
    <3> QED BY <3>1, <3>2 DEF Grown, Made
  <2> QED BY <2>1 DEF SourcesMade
<1>6. BoundTo(manifest[e], e, q, k)'
  BY <1>1, <1>2, <1>3, <1>4 DEF Kept, BoundTo, Made
<1> QED BY <1>1, <1>2, <1>3, <1>5, <1>6 DEF Kept, Made

LEMMA BoundStays ==
    ASSUME Grounded, Grown, NEW e \in Experiments, NEW q \in Questions, NEW m, NEW k,
           BoundTo(m, e, q, k), Undisputed(e, q)'
    PROVE  (file[e][q][k].manifest = m /\ BoundTo(m, e, q, k))
           /\ Made(e, q, k)' /\ file'[e][q][k].manifest = m
           /\ file'[e][q][k].of = Cited(e, q, k)'
<1>1. Made(e, q, k) /\ file[e][q][k].manifest = m
  BY DEF BoundTo
<1>2. Kept(e, q, k)' /\ Made(e, q, k)' /\ file'[e][q][k] = file[e][q][k]
  BY <1>1, KeptStays
<1>3. file'[e][q][k].of = Cited(e, q, k)'
  BY <1>2 DEF Kept, BoundTo
<1> QED BY <1>1, <1>2, <1>3

LEMMA ReplaysStays ==
    ASSUME Grounded, Grown, NEW e \in Experiments, NEW q \in Questions, NEW n,
           NEW CONSTANT m, Replays(m, e, q, n), Undisputed(e, q)'
    PROVE  Replays(m, e, q, n)'
<1>1. \A k \in Inputs(e) : BoundTo(Base(m.config), "E1", q, k)'
  <2>1. "E1" \in Experiments /\ Undisputed("E1", q)'
    BY NearUndisputed
  <2>2. ASSUME NEW k \in Inputs(e)
        PROVE  BoundTo(Base(m.config), "E1", q, k)'
    <3>1. BoundTo(Base(m.config), "E1", q, k)
      BY DEF Replays, InputsBound
    <3> QED BY <2>1, <3>1, BoundStays DEF BoundTo
  <2> QED BY <2>2
<1>2. ASSUME NEW i \in 1 .. n, NEW j \in DOMAIN Outputs(PhasesOf(e)[i])
      PROVE  BoundTo(m, e, q, Outputs(PhasesOf(e)[i])[j])'
  <2>1. BoundTo(m, e, q, Outputs(PhasesOf(e)[i])[j])
    BY DEF Replays
  <2> QED BY <2>1, BoundStays DEF BoundTo
<1> QED BY <1>1, <1>2 DEF Replays, InputsBound

\* Only what a step writes has to be looked at.
LEMMA GroundedStays ==
    ASSUME Grounded, Grown,
           \A e \in Experiments, q \in Questions : Undisputed(e, q)' =>
             \A k \in DOMAIN file'[e][q] : k \notin DOMAIN file[e][q] => Kept(e, q, k)'
    PROVE  Grounded'
  BY KeptStays DEF Grounded, Made

LEMMA FiledStays ==
    ASSUME Shapes, Grounded, Grown, NEW e \in Experiments, NEW q \in Questions, Filed(e, q),
           report'[e] = report[e]
    PROVE  Filed(e, q)'
<1> SUFFICES ASSUME Undisputed(e, q)' PROVE Filed(e, q)'
  BY DEF Filed
<1>1. Undisputed(e, q) /\ Undisputed("E1", q)' /\ "E1" \in Experiments
  BY NearUndisputed DEF Grown
<1>2. ASSUME NEW c \in report[e], c[1] = q
      PROVE  Made(e, q, c[2])' /\ c[3] = Stamp(e, q, c[2])'
  <2>1. Made(e, q, c[2]) /\ c[3] = Stamp(e, q, c[2])
    BY <1>1, <1>2 DEF Filed
  <2>2. Made(e, q, c[2])' /\ Kept(e, q, c[2]) /\ file'[e][q][c[2]] = file[e][q][c[2]]
    BY <2>1, KeptStays
  <2>3. c[2] /= "constructor"
    BY <2>2, ThreeExperiments, KindSets DEF Kept
  <2> QED BY <2>1, <2>2, <2>3 DEF Stamp
<1>3. ASSUME report[e] /= {}
      PROVE  /\ manifest'[e].config \in Configs /\ manifest'["E1"] = Base(manifest'[e].config)
             /\ Replays(manifest[e], e, q, Len(PhasesOf(e)) - 1)'
  <2>1. /\ manifest[e].config \in Configs /\ manifest["E1"] = Base(manifest[e].config)
        /\ Replays(manifest[e], e, q, Len(PhasesOf(e)) - 1)
    BY <1>1, <1>3 DEF Filed
  <2>2. manifest["E1"].config \in Configs
    BY <2>1 DEF Base
  <2>3. manifest'[e] = manifest[e] /\ manifest'["E1"] = manifest["E1"]
    BY <1>1, <2>1, <2>2 DEF Grown
  <2>4. PICK m : m = manifest[e]
    OBVIOUS
  <2>5. Replays(m, e, q, Len(PhasesOf(e)) - 1)'
    BY <2>1, <2>4, ReplaysStays
  <2>6. m = manifest'[e]
    BY <2>3, <2>4
  <2> QED BY <2>1, <2>3, <2>5, <2>6
<1> QED BY <1>2, <1>3 DEF Filed

-----------------------------------------------------------------------------
(* Where a run is, and what becomes of the others when it takes a step.    *)

\* The first of the questions that are left is one of them.
LEMMA FirstOfThem ==
    ASSUME NEW S, S \subseteq Nat, S /= {}
    PROVE  First(S) \in S /\ \A y \in S : First(S) <= y
<1>1. PICK x \in S : \A y \in S : ~(<<y, x>> \in OpToRel(<, Nat))
  BY NatLessThanWellFounded, WFMin, Zenon
<1>2. ASSUME NEW y \in S
      PROVE  x <= y
  <2>1. x \in Nat /\ y \in Nat
    OBVIOUS
  <2>2. ~(y < x)
    BY <1>1, <2>1 DEF OpToRel
  <2> QED BY <2>1, <2>2
<1> QED BY <1>2 DEF First

\* The phase a run is in is one of its experiment's, and has its number.
LEMMA Positioned ==
    ASSUME NEW r \in Runs, Fits(r)
    PROVE  /\ Phase(r) \in PhaseSet(Of(r)) /\ At(r) \in run[r].left /\ At(r) \in Questions
           /\ PhaseNumber(r) \in DOMAIN PhasesOf(Of(r))
           /\ PhasesOf(Of(r))[PhaseNumber(r)] = Phase(r)
<1>1. Phase(r) \in PhaseSet(Of(r))
  BY DEF Fits, Phase
<1>2. At(r) \in run[r].left /\ At(r) \in Questions
  <2>1. run[r].left \subseteq Nat
    BY DEF Fits, Questions
  <2> QED BY <2>1, FirstOfThem DEF Fits, At
<1>3. \E n \in DOMAIN PhasesOf(Of(r)) : PhasesOf(Of(r))[n] = Phase(r)
  BY <1>1 DEF PhaseSet
<1>4. PhaseNumber(r) \in DOMAIN PhasesOf(Of(r)) /\ PhasesOf(Of(r))[PhaseNumber(r)] = Phase(r)
  BY <1>3 DEF PhaseNumber
<1> QED BY <1>1, <1>2, <1>4

LEMMA Became ==
    ASSUME Shapes, NEW r \in Runs, NEW row, Becomes(r, row)
    PROVE  run'[r] = row /\ DOMAIN run' = Runs /\ \A s \in Runs \ {r} : run'[s] = run[s]
  BY DEF Shapes, Becomes

\* A step of r writes files of the questions and the phase it has claimed.
Local(r) ==
    /\ \A e \in Experiments, q \in Questions : \A k \in DOMAIN file'[e][q] :
         k \notin DOMAIN file[e][q] =>
           ~Idle(r) /\ e = Of(r) /\ q \in run[r].claim /\ k \in OutputSet(Phase(r))
    /\ \A q \in Questions : windows'[q] /= windows[q] =>
         ~Idle(r) /\ Of(r) = "E7" /\ Phase(r) = "construct" /\ q \in run[r].claim

Rises == \A e \in Experiments, q \in Questions : raced'[e][q] = 0 => raced[e][q] = 0

\* Constructor receipts are read by the construct phase of E7 alone.
LEMMA ConstructorRead ==
    ASSUME NEW e \in Experiments, NEW f \in PhaseSet(e), NEW i \in DOMAIN Outputs(f),
           NEW s \in Sources(e, Outputs(f)[i]), s[2] = "constructor"
    PROVE  e = "E7" /\ f = "construct"
<1>1. e \in {"E1", "E2", "E7"}
  BY ThreeExperiments
<1>2. Outputs(f)[i] \in OutputSet(f) /\ OutputSet(f) \subseteq KindsOf(e)
  BY OutputsApart DEF OutputSet
<1>3. Outputs(f)[i] \in {"contexts", "construction"}
  BY <1>1, <1>2, KindSets, SourcesListed
<1>4. e = "E7"
  BY <1>1, <1>2, <1>3, KindSets
<1> QED BY <1>2, <1>3, <1>4, PhaseSets, OutputSets

\* A question both hold is raced; so r writes nothing another run relies on.
LEMMA OtherUntaken ==
    ASSUME PhasedInv, Rises, NEW r \in Runs, Local(r), NEW s \in Runs, s /= r, run'[s] = run[s],
           ~Idle(s), Fits(s)
    PROVE  /\ Untaken(s)' /\ Counted(s)'
           /\ \A q \in run[s].claim : Phase(s) = "construct" /\ raced'[Of(s)][q] = 0 =>
                windows'[q] = windows[q]
<1>1. Of(s) \in Experiments /\ run[s].claim \subseteq Questions /\ Apart(r, s)
  BY DEF Fits, PhasedInv
<1>2. Of(s)' = Of(s) /\ Phase(s)' = Phase(s) /\ At(s)' = At(s) /\ \A i : Out(s, i)' = Out(s, i)
  BY DEF Of, Phase, At, Out
<1>3. Untaken(s) /\ Counted(s)
  BY DEF PhasedInv, RunOK
<1>4. Phase(s) \in PhaseSet(Of(s))
  BY Positioned
<1>5. Untaken(s)'
  <2> SUFFICES ASSUME NEW q \in run[s].claim, raced'[Of(s)][q] = 0,
                      NEW k \in OutputSet(Phase(s)), k \in DOMAIN file'[Of(s)][q]
               PROVE  run[s].stage = "second" /\ q = At(s) /\ k = Out(s, 1)
    BY <1>2 DEF Untaken, Made
  <2>1. q \in Questions /\ raced[Of(s)][q] = 0
    BY <1>1 DEF Rises
  <2>2. CASE k \in DOMAIN file[Of(s)][q]
    BY <1>3, <2>1, <2>2 DEF Untaken, Made
  <2>3. CASE k \notin DOMAIN file[Of(s)][q]
    <3>1. ~Idle(r) /\ Of(s) = Of(r) /\ q \in run[r].claim /\ k \in OutputSet(Phase(r))
      BY <1>1, <2>1, <2>3 DEF Local
    <3>2. Fits(r)
      BY <3>1 DEF PhasedInv, RunOK
    <3>3. Phase(r) = Phase(s)
      BY <1>1, <1>4, <3>1, <3>2, Positioned, OutputsApart
    <3> QED BY <1>1, <2>1, <3>1, <3>3 DEF Apart
  <2> QED BY <2>2, <2>3
<1>6. ASSUME NEW q \in run[s].claim, Phase(s) = "construct", raced'[Of(s)][q] = 0
      PROVE  windows'[q] = windows[q]
  <2>1. raced[Of(s)][q] = 0 /\ q \in Questions
    BY <1>1, <1>6 DEF Rises
  <2>2. Of(s) = "E7"
    BY <1>1, <1>4, <1>6, ThreeExperiments, PhaseSets
  <2> QED BY <1>1, <1>6, <2>1, <2>2 DEF Local, Apart
<1>7. Counted(s)'
  <2> SUFFICES ASSUME run[s].stage \in {"ask", "asked"}, Phase(s) = "construct",
                      raced'[Of(s)][At(s)] = 0
               PROVE  run[s].heard = windows'[At(s)].kept
    BY <1>2 DEF Counted
  <2>1. At(s) \in run[s].claim /\ At(s) \in Questions
    BY Positioned DEF Fits, Busy
  <2>2. raced[Of(s)][At(s)] = 0
    BY <1>1, <2>1 DEF Rises
  <2> QED BY <1>3, <1>6, <2>1, <2>2 DEF Counted
<1> QED BY <1>5, <1>6, <1>7

\* The manifests a run goes by stay those of the directories.
LEMMA ManifestsAgree ==
    ASSUME Grown, NEW s \in Runs, Of(s) \in Experiments, run[s].manifest.config \in Configs,
           Agreed(s), run'[s].of = run[s].of, run'[s].manifest = run[s].manifest,
           run[s].stage = "source" => run'[s].stage = "source",
           run[s].stage \in Unbound => run'[s].stage \in Unbound
    PROVE  Agreed(s)'
<1> PICK e, m : e = Of(s) /\ m = run[s].manifest
  OBVIOUS
<1>1. Of(s)' = e /\ run'[s].manifest = m /\ e \in Experiments
  BY DEF Of
<1>2. ASSUME run'[s].stage /= "source", NEW q \in Questions, Undisputed("E1", q)'
      PROVE  manifest'["E1"] = Base(m.config)
  <2>1. Undisputed("E1", q) /\ "E1" \in Experiments
    BY <1>2, ThreeExperiments DEF Grown
  <2>2. manifest["E1"] = Base(m.config)
    BY <1>2, <2>1 DEF Agreed
  <2>3. manifest["E1"].config \in Configs
    BY <2>2 DEF Base
  <2> QED BY <1>2, <2>1, <2>2, <2>3 DEF Grown
<1>3. ASSUME run'[s].stage \notin Unbound, NEW q \in Questions, Undisputed(e, q)'
      PROVE  manifest'[e] = m
  <2>1. Undisputed(e, q)
    BY <1>1, <1>3 DEF Grown
  <2>2. manifest[e] = m
    BY <1>3, <2>1 DEF Agreed
  <2> QED BY <1>1, <1>3, <2>2 DEF Grown
<1>4. Base(run[s].manifest.config)' = Base(m.config)
  BY <1>1 DEF Base
<1> QED BY <1>1, <1>2, <1>3, <1>4 DEF Agreed

\* What a run has read stays what is there, if its own files are still to make
\* and the constructor's receipts are the same.
LEMMA ReadingsStay ==
    ASSUME Grounded, Grown, NEW s \in Runs, Fits(s), Untaken(s), Sourced(s), Untaken(s)',
           run'[s].of = run[s].of, run'[s].todo = run[s].todo, run'[s].left = run[s].left,
           run'[s].claim = run[s].claim, run[s].stage \in Busy,
           (run[s].stage = "second") <=> (run'[s].stage = "second"),
           NEW e, e = Of(s), NEW q, q = At(s), NEW f, f = Phase(s), Undisputed(e, q)',
           f = "construct" => windows'[q] = windows[q]
    PROVE  /\ Of(s)' = e /\ At(s)' = q /\ Phase(s)' = f
           /\ Readings(s)' = Readings(s)
           /\ \A i \in DOMAIN Outputs(f) : Supplied(e, q, f, i)'
           /\ run[s].stage = "second" => Made(e, q, Outputs(f)[1])'
<1>1. Of(s)' = e /\ Phase(s)' = f /\ At(s)' = q /\ \A i : Out(s, i) = Outputs(f)[i]
  BY DEF Of, Phase, At, Out
<1>2. e \in Experiments /\ q \in Questions /\ f \in PhaseSet(e) /\ q \in run[s].claim
  BY Positioned DEF Fits
<1>3. Undisputed(e, q) /\ raced[e][q] = 0 /\ raced'[e][q] = 0
  BY <1>2 DEF Grown, Undisputed
<1>4. /\ \A i \in DOMAIN Outputs(f) : Supplied(e, q, f, i)
      /\ run[s].stage = "second" => Made(e, q, Outputs(f)[1])
  BY <1>1, <1>3 DEF Sourced
<1>5. ASSUME NEW d \in {e, "E1"}, NEW k, Made(d, q, k)
      PROVE  Made(d, q, k)' /\ file'[d][q][k] = file[d][q][k]
  <2>1. d \in Experiments /\ Undisputed(d, q)'
    BY <1>2, NearUndisputed
  <2> QED BY <1>2, <1>5, <2>1, KeptStays
<1>6. ASSUME NEW i \in DOMAIN Outputs(f), NEW c \in Sources(e, Outputs(f)[i])
      PROVE  /\ Stamp(c[1], q, c[2])' = Stamp(c[1], q, c[2])
             /\ \/ c[2] = "constructor"
                \/ i = 2 /\ c = <<e, Outputs(f)[1]>>
                \/ c[1] \in Experiments /\ Made(c[1], q, c[2])'
  <2>1. c[1] \in {e, "E1"}
    BY <1>2, OutputsApart, SourcesNear DEF OutputSet
  <2>2. CASE c[2] = "constructor"
    <3>1. f = "construct"
      BY <1>2, <2>2, ConstructorRead
    <3> QED BY <2>2, <3>1 DEF Stamp
  <2>3. CASE c[2] /= "constructor" /\ c[1] \in Experiments /\ Made(c[1], q, c[2])
    BY <1>5, <2>1, <2>3 DEF Stamp
  <2>4. CASE c[2] /= "constructor" /\ i = 2 /\ c = <<e, Outputs(f)[1]>> /\ ~Made(c[1], q, c[2])
    <3>1. run'[s].stage /= "second"
      BY <1>4, <2>4
    <3>2. Outputs(f)[1] \in OutputSet(f)
      <4>1. f \in PhaseNames
        BY <1>2, ThreeExperiments, PhaseSets DEF PhaseNames
      <4>2. 1 \in DOMAIN Outputs(f)
        BY <2>4, <4>1, OutputsListed DEF PhaseNames
      <4> QED BY <4>2 DEF OutputSet
    <3>3. Outputs(f)[1] \notin DOMAIN file'[e][q]
      BY <1>1, <1>2, <1>3, <3>1, <3>2 DEF Untaken, Made
    <3> QED BY <2>4, <3>3 DEF Stamp, Made
  <2>5. \/ c[2] = "constructor" \/ (i = 2 /\ c = <<e, Outputs(f)[1]>>)
        \/ (c[1] \in Experiments /\ Made(c[1], q, c[2]))
    BY <1>4 DEF Supplied
  <2>6. c[1] \in Experiments
    BY <1>2, <2>1, ThreeExperiments
  <2> QED BY <2>2, <2>3, <2>4, <2>5, <2>6
<1>7. ASSUME NEW i \in DOMAIN Outputs(f)
      PROVE  Cited(e, q, Outputs(f)[i])' = Cited(e, q, Outputs(f)[i])
  <2>1. Cited(e, q, Outputs(f)[i])' =
          {<<c[1], c[2], Stamp(c[1], q, c[2])'>> : c \in Sources(e, Outputs(f)[i])}
    BY DEF Cited
  <2> QED BY <1>6, <2>1 DEF Cited
<1>8. Readings(s)' = Readings(s)
  <2>1. Readings(s)' = UNION {Cited(e, q, Outputs(f)[i])' : i \in DOMAIN Outputs(f)}
    BY <1>1 DEF Readings, Out
  <2>2. Readings(s) = UNION {Cited(e, q, Outputs(f)[i]) : i \in DOMAIN Outputs(f)}
    BY DEF Readings, Out
  <2> QED BY <1>7, <2>1, <2>2
<1>9. \A i \in DOMAIN Outputs(f) : Supplied(e, q, f, i)'
  BY <1>6 DEF Supplied
<1>10. run[s].stage = "second" => Made(e, q, Outputs(f)[1])'
  BY <1>4, <1>5
<1> QED BY <1>1, <1>8, <1>9, <1>10

\* A run that takes no step keeps what it had.
LEMMA OthersKeep ==
    ASSUME PhasedInv, Grown, Rises, NEW r \in Runs, Local(r), NEW s \in Runs, s /= r,
           run'[s] = run[s]
    PROVE  RunOK(s)'
<1>1. CASE Idle(s)
  BY <1>1 DEF Idle, RunOK
<1>2. CASE ~Idle(s)
  <2> PICK e, q, f : e = Of(s) /\ q = At(s) /\ f = Phase(s)
    OBVIOUS
  <2>1. Fits(s) /\ Untaken(s) /\ Counted(s) /\ Agreed(s) /\ Sourced(s)
    BY <1>2 DEF PhasedInv, RunOK
  <2>2. /\ Untaken(s)' /\ Counted(s)'
        /\ \A p \in run[s].claim : f = "construct" /\ raced'[e][p] = 0 => windows'[p] = windows[p]
    BY <1>2, <2>1, OtherUntaken
  <2>3. Agreed(s)'
    BY <2>1, ManifestsAgree DEF Fits
  <2>4. Of(s)' = e /\ At(s)' = q /\ Phase(s)' = f /\ \A i : Out(s, i)' = Outputs(f)[i]
    BY DEF Of, At, Phase, Out
  <2>5. Fits(s)'
    BY <2>1, <2>4 DEF Fits
  <2>6. Sourced(s)'
    <3> SUFFICES ASSUME run[s].stage \in Busy, Undisputed(e, q)'
                 PROVE  /\ run[s].read = Readings(s)'
                        /\ \A i \in DOMAIN Outputs(f) : Supplied(e, q, f, i)'
                        /\ run[s].stage = "second" => Made(e, q, Outputs(f)[1])'
      BY <2>4 DEF Sourced
    <3>1. e \in Experiments /\ q \in Questions /\ q \in run[s].claim
      BY <2>1, Positioned DEF Fits
    <3>2. run[s].read = Readings(s)
      BY <2>1, <3>1 DEF Sourced, Grown
    <3>3. f = "construct" => windows'[q] = windows[q]
      BY <2>2, <3>1 DEF Undisputed
    <3>4. /\ Readings(s)' = Readings(s)
          /\ \A i \in DOMAIN Outputs(f) : Supplied(e, q, f, i)'
          /\ run[s].stage = "second" => Made(e, q, Outputs(f)[1])'
      BY <2>1, <2>2, <3>3, ReadingsStay DEF PhasedInv
    <3> QED BY <3>2, <3>4
  <2> QED BY <2>1, <2>2, <2>3, <2>5, <2>6 DEF RunOK
<1> QED BY <1>1, <1>2

\* A run claims what no other has claimed, or has raced it.
LEMMA StillApart ==
    ASSUME PhasedInv, Rises, NEW r \in Runs, NEW s \in Runs, s /= r, run'[s] = run[s],
           \A q \in run'[r].claim :
             /\ ~Idle(r) /\ run'[r].of = run[r].of /\ run'[r].todo = run[r].todo
             /\ q \in run[r].claim \/ (q \in Questions /\ raced' = Raced(r, q))
    PROVE  Apart(r, s)'
<1> PICK e : e = Of(r)
  OBVIOUS
<1> SUFFICES ASSUME ~Idle(s), run'[r].of = run[s].of, Phase(r)' = Phase(s)',
                    NEW q \in run'[r].claim, q \in run[s].claim
             PROVE  raced'[e][q] /= 0
  BY DEF Apart, Of, Idle
<1>1. /\ ~Idle(r) /\ Of(s) = e /\ Phase(r) = Phase(s) /\ e \in Experiments
      /\ q \in run[r].claim \/ (q \in Questions /\ raced' = Raced(r, q))
  BY DEF PhasedInv, RunOK, Fits, Of, Phase
<1>2. q \in Questions /\ raced[e][q] \in Nat /\ e \in DOMAIN raced /\ q \in DOMAIN raced[e]
  BY <1>1 DEF PhasedInv, Shapes, RunOK, Fits
<1>3. CASE q \in run[r].claim
  <2>1. raced[e][q] /= 0
    BY <1>1, <1>3 DEF PhasedInv, Apart
  <2> QED BY <1>1, <1>2, <2>1 DEF Rises
<1>4. CASE raced' = Raced(r, q)
  <2>1. raced' = [raced EXCEPT ![e][q] = @ + 1]
    BY <1>1, <1>4 DEF Raced
  <2> QED BY <1>2, <2>1
<1> QED BY <1>1, <1>3, <1>4

\* What a step has to be shown to do.
LEMMA StepKeeps ==
    ASSUME PhasedInv, Grown, Rises, NEW r \in Runs, Local(r), Shapes',
           \A s \in Runs \ {r} : run'[s] = run[s], RunOK(r)',
           \A q \in run'[r].claim :
             /\ ~Idle(r) /\ run'[r].of = run[r].of /\ run'[r].todo = run[r].todo
             /\ q \in run[r].claim \/ (q \in Questions /\ raced' = Raced(r, q)),
           \A e \in Experiments, q \in Questions : Undisputed(e, q)' =>
             \A k \in DOMAIN file'[e][q] : k \notin DOMAIN file[e][q] => Kept(e, q, k)',
           \A e \in Experiments, q \in Questions : report'[e] = report[e] \/ Filed(e, q)'
    PROVE  PhasedInv'
<1>1. \A s \in Runs : RunOK(s)'
  BY OthersKeep
<1>2. \A s \in Runs \ {r} : Apart(r, s)'
  BY StillApart
<1>3. ASSUME NEW s \in Runs, NEW t \in Runs, s /= t
      PROVE  Apart(s, t)'
  <2>1. CASE s = r
    BY <1>2, <1>3, <2>1
  <2>2. CASE t = r
    <3>1. Apart(t, s)'
      BY <1>2, <1>3, <2>2
    <3> QED BY <3>1 DEF Apart
  <2>3. CASE s /= r /\ t /= r
    <3>1. run'[s] = run[s] /\ run'[t] = run[t] /\ Apart(s, t)
      BY <1>3, <2>3 DEF PhasedInv
    <3> SUFFICES ASSUME ~Idle(s), ~Idle(t), Of(s) = Of(t), Phase(s) = Phase(t),
                        NEW q \in run[s].claim \cap run[t].claim
                 PROVE  raced'[Of(s)][q] /= 0
      BY <3>1 DEF Apart, Idle, Of, Phase
    <3>2. Of(s) \in Experiments /\ q \in Questions
      BY DEF PhasedInv, RunOK, Fits
    <3> QED BY <3>1, <3>2 DEF Apart, Rises
  <2> QED BY <2>1, <2>2, <2>3
<1>4. \A e \in Experiments, q \in Questions : Filed(e, q)'
  BY FiledStays DEF PhasedInv
<1>5. Grounded'
  BY GroundedStays DEF PhasedInv
<1> QED BY <1>1, <1>3, <1>4, <1>5 DEF PhasedInv

-----------------------------------------------------------------------------
(* Turns: on to the next question, or to the next phase.                   *)

NewlyClaims(r) ==
    \A q \in run'[r].claim :
      /\ ~Idle(r) /\ run'[r].of = run[r].of /\ run'[r].todo = run[r].todo
      /\ q \in run[r].claim \/ (q \in Questions /\ raced' = Raced(r, q))

LEMMA RunEnds ==
    ASSUME Shapes, NEW r \in Runs, Ends(r)
    PROVE  RunOK(r)' /\ NewlyClaims(r) /\ run'[r] = NoRun /\ DOMAIN run'[r] = Fields
<1>1. run'[r] = NoRun
  BY Became DEF Ends
<1> QED BY <1>1 DEF RunOK, Idle, NewlyClaims, NoRun, Fields

LEMMA PhaseOver ==
    ASSUME PhasedInv, Grown, NEW r \in Runs, ~Idle(r), run[r].stage \notin Unbound, PhaseDone(r)
    PROVE  RunOK(r)' /\ NewlyClaims(r) /\ DOMAIN run'[r] = Fields
<1>1. CASE Ends(r)
  BY <1>1, RunEnds DEF PhasedInv
<1>2. CASE /\ Tail(run[r].todo) /= <<>>
           /\ Becomes(r, [run[r] EXCEPT !.todo = Tail(@), !.left = Questions, !.claim = {},
                                        !.stage = "open", !.heard = 0, !.read = {}])
  <2>1. Fits(r) /\ Agreed(r)
    BY DEF PhasedInv, RunOK
  <2>2. DOMAIN run[r] = Fields
    BY DEF PhasedInv, Shapes
  <2>3. run'[r] = [run[r] EXCEPT !.todo = Tail(@), !.left = Questions, !.claim = {},
                                 !.stage = "open", !.heard = 0, !.read = {}]
    BY <1>2, Became DEF PhasedInv
  <2>4. /\ DOMAIN run'[r] = Fields /\ run'[r].of = run[r].of /\ run'[r].manifest = run[r].manifest
        /\ run'[r].todo = Tail(run[r].todo) /\ run'[r].left = Questions /\ run'[r].claim = {}
        /\ run'[r].stage = "open"
    BY <2>2, <2>3 DEF Fields
  <2>5. Fits(r)'
    <3>1. Questions /= {}
      BY PhasedRunAssumption DEF Questions
    <3>2. Tail(run[r].todo) \in Seq(PhaseSet(Of(r)))
      BY <2>1 DEF Fits
    <3>3. PhaseSet(Of(r))' = PhaseSet(Of(r)) /\ Of(r)' = Of(r)
      BY <2>4 DEF Of, PhaseSet
    <3> QED BY <1>2, <2>1, <2>4, <3>1, <3>2, <3>3 DEF Fits, Busy, Unbound
  <2>6. Agreed(r)'
    BY <2>1, <2>4, ManifestsAgree DEF Fits, Unbound
  <2>7. Untaken(r)' /\ Counted(r)' /\ Sourced(r)'
    BY <2>4 DEF Untaken, Counted, Sourced, Busy
  <2> QED BY <2>4, <2>5, <2>6, <2>7 DEF RunOK, NewlyClaims
<1> QED BY <1>1, <1>2 DEF PhaseDone

\* A question is left behind with its files made, or as it was.
LEMMA TurnOver ==
    ASSUME PhasedInv, Grown, Rises, NEW r \in Runs, ~Idle(r), run[r].stage \notin Unbound,
           \A q \in run[r].claim \ {At(r)} : \A k \in OutputSet(Phase(r)) :
             k \in DOMAIN file'[Of(r)][q] => k \in DOMAIN file[Of(r)][q],
           NEW stage \in {"open", "make"},
           stage = "make" => Collects(Phase(r)) /\ run[r].left \subseteq run[r].claim,
           QuestionDone(r, stage)
    PROVE  RunOK(r)' /\ NewlyClaims(r) /\ DOMAIN run'[r] = Fields
<1>1. CASE PhaseDone(r)
  BY <1>1, PhaseOver
<1>2. CASE /\ run[r].left /= {At(r)}
           /\ Becomes(r, [run[r] EXCEPT !.left = @ \ {At(r)}, !.claim = @ \ {At(r)},
                                        !.stage = stage, !.heard = 0, !.read = {}])
  <2>1. Fits(r) /\ Agreed(r) /\ Untaken(r) /\ At(r) \in run[r].left
    BY Positioned DEF PhasedInv, RunOK
  <2>2. DOMAIN run[r] = Fields
    BY DEF PhasedInv, Shapes
  <2>3. run'[r] = [run[r] EXCEPT !.left = @ \ {At(r)}, !.claim = @ \ {At(r)},
                                 !.stage = stage, !.heard = 0, !.read = {}]
    BY <1>2, Became DEF PhasedInv
  <2>4. /\ DOMAIN run'[r] = Fields /\ run'[r].of = run[r].of /\ run'[r].manifest = run[r].manifest
        /\ run'[r].todo = run[r].todo /\ run'[r].left = run[r].left \ {At(r)}
        /\ run'[r].claim = run[r].claim \ {At(r)} /\ run'[r].stage = stage
    BY <2>2, <2>3 DEF Fields
  <2>5. Of(r)' = Of(r) /\ Phase(r)' = Phase(r)
    BY <2>4 DEF Of, Phase
  <2>6. Fits(r)'
    <3>1. run'[r].left /= {}
      BY <1>2, <2>1, <2>4
    <3> QED BY <2>1, <2>4, <2>5, <3>1 DEF Fits, Busy, Unbound
  <2>7. Agreed(r)'
    BY <2>1, <2>4, ManifestsAgree DEF Fits, Unbound
  <2>8. Untaken(r)'
    <3> PICK e, f : e = Of(r) /\ f = Phase(r)
      OBVIOUS
    <3> SUFFICES ASSUME NEW q \in run[r].claim \ {At(r)}, raced'[e][q] = 0,
                        NEW k \in OutputSet(f), k \in DOMAIN file'[e][q]
                 PROVE  FALSE
      BY <2>4, <2>5 DEF Untaken, Made
    <3>1. e \in Experiments /\ q \in Questions
      BY <2>1 DEF Fits
    <3>2. raced[e][q] = 0 /\ k \in DOMAIN file[e][q]
      BY <3>1 DEF Rises
    <3> QED BY <2>1, <3>2 DEF Untaken, Made
  <2>9. Counted(r)' /\ Sourced(r)'
    BY <2>4 DEF Counted, Sourced, Busy
  <2> QED BY <2>4, <2>6, <2>7, <2>8, <2>9 DEF RunOK, NewlyClaims
<1> QED BY <1>1, <1>2 DEF QuestionDone

\* A step that leaves the disk alone.
LEMMA RacedRises ==
    ASSUME PhasedInv, NEW r \in Runs,
           raced' = raced \/ (~Idle(r) /\ \E q \in Questions : raced' = Raced(r, q))
    PROVE  Rises /\ raced' \in [Experiments -> [Questions -> Nat]]
<1>1. raced \in [Experiments -> [Questions -> Nat]]
  BY DEF PhasedInv, Shapes
<1>2. CASE raced' = raced
  BY <1>1, <1>2 DEF Rises
<1>3. ASSUME ~Idle(r), NEW q \in Questions, raced' = Raced(r, q), raced' /= raced
      PROVE  Rises /\ raced' \in [Experiments -> [Questions -> Nat]]
  <2> PICK e : e = Of(r)
    OBVIOUS
  <2>1. e \in Experiments
    BY <1>3 DEF PhasedInv, RunOK, Fits
  <2>2. raced' = [raced EXCEPT ![e][q] = @ + 1]
    BY <1>3 DEF Raced
  <2>3. raced[e][q] \in Nat /\ raced'[e][q] = raced[e][q] + 1
    BY <1>1, <1>3, <2>1, <2>2
  <2>4. \A d \in Experiments, p \in Questions : <<d, p>> /= <<e, q>> => raced'[d][p] = raced[d][p]
    BY <1>1, <2>1, <2>2
  <2>5. raced' \in [Experiments -> [Questions -> Nat]]
    BY <1>1, <1>3, <2>1, <2>2
  <2> QED BY <2>3, <2>4, <2>5 DEF Rises
<1> QED BY <1>2, <1>3

LEMMA QuietGrows ==
    ASSUME PhasedInv, UNCHANGED disk, NEW r \in Runs,
           raced' = raced \/ (~Idle(r) /\ \E q \in Questions : raced' = Raced(r, q))
    PROVE  Grown /\ Rises /\ Local(r)
<1>1. Rises
  BY RacedRises
<1>2. Local(r)
  BY DEF disk, Local
<1>3. \A e \in Experiments, q \in Questions : Undisputed(e, q)' => Undisputed(e, q)
  BY <1>1, ThreeExperiments DEF Rises, Undisputed
<1>4. Grown
  BY <1>3 DEF Grown, disk
<1> QED BY <1>1, <1>2, <1>4

LEMMA QuietStep ==
    ASSUME PhasedInv, UNCHANGED disk, NEW r \in Runs,
           raced' = raced \/ (~Idle(r) /\ \E q \in Questions : raced' = Raced(r, q)),
           sent' \in [Experiments -> [Questions -> Nat]], posed' \in [Questions -> Nat],
           NEW row, Becomes(r, row), DOMAIN run'[r] = Fields, RunOK(r)', NewlyClaims(r)
    PROVE  PhasedInv'
<1>1. Grown /\ Rises /\ Local(r)
  BY QuietGrows
<1>2. DOMAIN run' = Runs /\ \A s \in Runs \ {r} : run'[s] = run[s]
  BY Became DEF PhasedInv
<1>3. Shapes'
  BY <1>2, RacedRises DEF PhasedInv, Shapes, disk
<1> QED BY <1>1, <1>2, <1>3, StepKeeps DEF NewlyClaims, disk

-----------------------------------------------------------------------------
(* The steps that leave the disk alone.                                    *)

LEMMA Counts ==
    ASSUME PhasedInv
    PROVE  /\ sent \in [Experiments -> [Questions -> Nat]] /\ posed \in [Questions -> Nat]
           /\ \A r \in Runs : DOMAIN run[r] = Fields
           /\ \A r \in Runs : ~Idle(r) => Fits(r) /\ Untaken(r) /\ Counted(r) /\ Agreed(r) /\ Sourced(r)
  BY DEF PhasedInv, Shapes, RunOK

\* A run stops: it is killed, an error is raised, or it is done.
LEMMA EndKeeps ==
    ASSUME PhasedInv, NEW r \in Runs, Ends(r), UNCHANGED disk, raced' = raced, sent' = sent,
           posed' = posed
    PROVE  PhasedInv'
<1>1. RunOK(r)' /\ NewlyClaims(r) /\ DOMAIN run'[r] = Fields
  BY RunEnds DEF PhasedInv
<1> QED BY <1>1, Counts, QuietStep DEF Ends

LEMMA StartKeeps ==
    ASSUME PhasedInv, NEW r \in Runs, NEW e \in Experiments, NEW c \in Configs, NEW todo,
           todo \in Seq(PhaseSet(e)), todo /= <<>>, NEW limit \in Questions,
           Start(r, e, c, todo, limit)
    PROVE  PhasedInv'
<1> DEFINE row == [NoRun EXCEPT
       !.of = e, !.manifest = Base(c), !.todo = todo, !.left = 1..limit,
       !.stage = CASE manifest["E1"] = NoManifest -> "source"
                   [] manifest["E1"] /= NoManifest /\ e = "E1" -> "open"
                   [] OTHER -> "context"]
<1>1. Becomes(r, row) /\ UNCHANGED <<disk, calls, raced>> /\ manifest["E1"] \in {NoManifest, Base(c)}
  BY DEF Start
<1>2. run'[r] = row
  BY <1>1, Became DEF PhasedInv
<1>3. /\ DOMAIN run'[r] = Fields /\ run'[r].of = e /\ run'[r].manifest = Base(c)
      /\ run'[r].todo = todo /\ run'[r].left = 1..limit /\ run'[r].claim = {}
      /\ run'[r].stage = CASE manifest["E1"] = NoManifest -> "source"
                           [] manifest["E1"] /= NoManifest /\ e = "E1" -> "open"
                           [] OTHER -> "context"
  BY <1>2 DEF NoRun, Fields
<1>4. /\ run'[r].stage \in {"source", "open", "context"}
      /\ run'[r].stage = "context" => e /= "E1"
      /\ run'[r].stage /= "source" => manifest["E1"] = Base(c)
      /\ run'[r].stage = "open" => e = "E1"
  BY <1>1, <1>3
<1>5. Of(r)' = e /\ PhaseSet(Of(r))' = PhaseSet(e)
  BY <1>3 DEF Of, PhaseSet
<1>6. Fits(r)'
  <2>1. 1..limit \subseteq Questions /\ 1..limit /= {}
    <3>1. 1 \in 1..limit /\ limit <= Count /\ Count \in Nat /\ limit \in Nat
      BY PhasedRunAssumption DEF Questions
    <3>2. 1..limit /= {}
      BY <3>1
    <3>3. 1..limit \subseteq 1..Count
      BY <3>1
    <3> QED BY <3>2, <3>3 DEF Questions
  <2>2. Base(c).config = c /\ Base(run[r].manifest.config)' = Base(c)
    BY <1>3 DEF Base
  <2> QED BY <1>3, <1>4, <1>5, <2>1, <2>2 DEF Fits, Unbound, Busy
<1>7. Agreed(r)'
  <2>1. Base(run[r].manifest.config)' = Base(c) /\ manifest' = manifest
    BY <1>1, <1>3 DEF Base, disk
  <2> QED BY <1>3, <1>4, <1>5, <2>1 DEF Agreed, Unbound
<1>8. Untaken(r)' /\ Counted(r)' /\ Sourced(r)'
  BY <1>3, <1>4 DEF Untaken, Counted, Sourced, Busy
<1>9. RunOK(r)' /\ NewlyClaims(r)
  BY <1>3, <1>6, <1>7, <1>8 DEF RunOK, NewlyClaims
<1> QED BY <1>1, <1>3, <1>9, Counts, QuietStep DEF calls

LEMMA StartsKeep ==
    ASSUME PhasedInv, NEW r \in Runs, NEW e \in Experiments, NEW c \in Configs,
           StartAll(r, e, c) \/ StartPhase(r, e, c)
    PROVE  PhasedInv'
<1>1. e \in {"E1", "E2", "E7"} /\ PhasesOf(e) \in Seq(PhaseSet(e)) /\ PhasesOf(e) /= <<>>
  <2>1. e \in {"E1", "E2", "E7"}
    BY ThreeExperiments
  <2>2. PhasesOf("E1") \in Seq(PhaseSet("E1")) /\ PhasesOf("E1") /= <<>>
    <3>0. PICK S, p : S = PhaseSet("E1") /\ p = PhasesOf("E1")
      OBVIOUS
    <3>1. p = <<"dense", "cross_encoder", "pack", "qa", "report">>
      BY <3>0 DEF PhasesOf
    <3>2. S = {"dense", "cross_encoder", "pack", "qa", "report"}
      BY <3>0, PhaseSets
    <3>3. p \in Seq(S)
      BY <3>1, <3>2
    <3>4. p /= <<>>
      BY <3>1
    <3> QED BY <3>0, <3>3, <3>4
  <2>3. PhasesOf("E2") \in Seq(PhaseSet("E2")) /\ PhasesOf("E2") /= <<>>
    <3>0. PICK S, p : S = PhaseSet("E2") /\ p = PhasesOf("E2")
      OBVIOUS
    <3>1. p = <<"organization", "pack", "qa", "report">>
      BY <3>0 DEF PhasesOf
    <3>2. S = {"organization", "pack", "qa", "report"}
      BY <3>0, PhaseSets
    <3>3. p \in Seq(S)
      BY <3>1, <3>2
    <3>4. p /= <<>>
      BY <3>1
    <3> QED BY <3>0, <3>3, <3>4
  <2>4. PhasesOf("E7") \in Seq(PhaseSet("E7")) /\ PhasesOf("E7") /= <<>>
    <3>0. PICK S, p : S = PhaseSet("E7") /\ p = PhasesOf("E7")
      OBVIOUS
    <3>1. p = <<"windows", "construct", "pack", "qa", "report">>
      BY <3>0 DEF PhasesOf
    <3>2. S = {"windows", "construct", "pack", "qa", "report"}
      BY <3>0, PhaseSets
    <3>3. p \in Seq(S)
      BY <3>1, <3>2
    <3>4. p /= <<>>
      BY <3>1
    <3> QED BY <3>0, <3>3, <3>4
  <2> QED BY <2>1, <2>2, <2>3, <2>4
<1>2. CASE StartAll(r, e, c)
  <2>1. Count \in Questions
    BY PhasedRunAssumption DEF Questions
  <2> QED BY <1>1, <1>2, <2>1, StartKeeps DEF StartAll
<1>3. CASE StartPhase(r, e, c)
  <2>1. PICK n \in DOMAIN PhasesOf(e), limit \in Questions :
          Start(r, e, c, <<PhasesOf(e)[n]>>, limit)
    BY <1>3 DEF StartPhase
  <2>2. <<PhasesOf(e)[n]>> \in Seq(PhaseSet(e)) /\ <<PhasesOf(e)[n]>> /= <<>>
    BY DEF PhaseSet
  <2> QED BY <2>1, <2>2, StartKeeps
<1> QED BY <1>2, <1>3

LEMMA ReadInputsKeeps ==
    ASSUME PhasedInv, NEW r \in Runs, ReadInputs(r)
    PROVE  PhasedInv'
<1> PICK e, c, m : e = Of(r) /\ c = run[r].manifest.config /\ m = ManifestOf(e, c)
  OBVIOUS
<1>1. CASE Ends(r)
  BY <1>1, EndKeeps DEF ReadInputs, calls, counts
<1>2. CASE /\ manifest[e] \in {NoManifest, m}
           /\ Becomes(r, [run[r] EXCEPT !.manifest = m,
                                        !.stage = IF manifest[e] = m THEN "open" ELSE "bind"])
  <2> DEFINE row == [run[r] EXCEPT !.manifest = m,
                                   !.stage = IF manifest[e] = m THEN "open" ELSE "bind"]
  <2>1. ~Idle(r) /\ run[r].stage = "context" /\ UNCHANGED <<disk, calls, counts>>
    BY DEF ReadInputs, In
  <2>2. Fits(r) /\ Untaken(r) /\ Agreed(r) /\ DOMAIN run[r] = Fields
    BY <2>1, Counts
  <2>3. run'[r] = row
    BY <1>2, Became DEF PhasedInv
  <2>4. /\ DOMAIN run'[r] = Fields /\ run'[r].of = e /\ run'[r].manifest = m
        /\ run'[r].todo = run[r].todo /\ run'[r].left = run[r].left /\ run'[r].claim = run[r].claim
        /\ run'[r].stage = IF manifest[e] = m THEN "open" ELSE "bind"
    BY <2>2, <2>3 DEF Fields, Of
  <2>5. Of(r)' = e /\ Phase(r)' = Phase(r) /\ m.config = c
    BY <2>4 DEF Of, Phase, ManifestOf
  <2>6. Fits(r)'
    BY <2>1, <2>2, <2>4, <2>5 DEF Fits, Busy, Unbound
  <2>7. Agreed(r)'
    <3>1. Base(run[r].manifest.config)' = Base(c) /\ manifest' = manifest /\ raced' = raced
      BY <2>1, <2>4, <2>5 DEF Base, disk, counts
    <3>2. \A d, q : Undisputed(d, q)' => Undisputed(d, q)
      BY <3>1 DEF Undisputed
    <3>3. \A q \in Questions : Undisputed("E1", q) => manifest["E1"] = Base(c)
      BY <2>1, <2>2 DEF Agreed
    <3> QED BY <2>4, <2>5, <3>1, <3>2, <3>3 DEF Agreed, Unbound
  <2>8. Untaken(r)'
    BY <2>1, <2>2, <2>4, <2>5 DEF Untaken, Made, disk, counts
  <2>9. Counted(r)' /\ Sourced(r)'
    BY <2>4 DEF Counted, Sourced, Busy
  <2>10. RunOK(r)' /\ NewlyClaims(r)
    BY <2>1, <2>4, <2>6, <2>7, <2>8, <2>9 DEF RunOK, NewlyClaims, Of
  <2> QED BY <1>2, <2>1, <2>4, <2>10, Counts, QuietStep DEF calls, counts
<1> QED BY <1>1, <1>2 DEF ReadInputs

\* What a run reads when it takes a question up is there.
LEMMA FreshReadings ==
    ASSUME PhasedInv, UNCHANGED disk, NEW r \in Runs, Fits(r), Ready(r),
           run'[r].of = run[r].of, run'[r].todo = run[r].todo, run'[r].left = run[r].left,
           run'[r].read = Readings(r), run'[r].stage /= "second"
    PROVE  Sourced(r)'
<1> PICK e, q, f, m : e = Of(r) /\ q = At(r) /\ f = Phase(r) /\ m = run[r].manifest
  OBVIOUS
<1>1. Of(r)' = e /\ At(r)' = q /\ Phase(r)' = f /\ \A i : Out(r, i)' = Outputs(f)[i]
  BY DEF Of, At, Phase, Out
<1>2. \A i : Cited(e, q, Outputs(f)[i])' = Cited(e, q, Outputs(f)[i])
  BY DEF disk, Cited, Stamp, Made
<1>3. Readings(r)' = Readings(r)
  <2>1. Readings(r)' = UNION {Cited(e, q, Outputs(f)[i])' : i \in DOMAIN Outputs(f)}
    BY <1>1 DEF Readings, Out
  <2>2. Readings(r) = UNION {Cited(e, q, Outputs(f)[i]) : i \in DOMAIN Outputs(f)}
    BY DEF Readings, Out
  <2> QED BY <1>2, <2>1, <2>2
<1>4. ASSUME NEW i \in DOMAIN Outputs(f)
      PROVE  Supplied(e, q, f, i)
  <2> PICK n : n = PhaseNumber(r)
    OBVIOUS
  <2>1. e \in Experiments /\ n \in DOMAIN PhasesOf(e) /\ PhasesOf(e)[n] = f
    BY Positioned DEF Fits
  <2>2. Replays(m, e, q, n - 1)
    BY DEF Ready
  <2> QED BY <2>1, <2>2, SourcesReady
<1>5. \A i \in DOMAIN Outputs(f) : Supplied(e, q, f, i)'
  BY <1>4 DEF Supplied, Made, disk
<1> QED BY <1>1, <1>3, <1>5 DEF Sourced

\* No file of this phase is there for a question found missing.
LEMMA UntouchedUnmade ==
    ASSUME NEW r \in Runs, Untouched(r)
    PROVE  \A k \in OutputSet(Phase(r)) : ~Made(Of(r), At(r), k)
  BY DEF Untouched, Existing, OutputSet, Out

\* A collecting phase looks at one question more.
LEMMA LookedKeeps ==
    ASSUME PhasedInv, UNCHANGED disk, NEW r \in Runs, ~Idle(r), run[r].stage = "open",
           Collects(Phase(r)), NEW missing, Looked(r, missing),
           \/ missing = {} /\ raced' = raced
           \/ missing = {At(r)} /\ Untouched(r) /\ raced' = Raced(r, At(r))
    PROVE  RunOK(r)' /\ NewlyClaims(r) /\ DOMAIN run'[r] = Fields
<1> PICK e, q, f, claim :
      e = Of(r) /\ q = At(r) /\ f = Phase(r) /\ claim = run[r].claim \cup missing
  OBVIOUS
<1>1. Fits(r) /\ Untaken(r) /\ Agreed(r) /\ DOMAIN run[r] = Fields
  BY Counts
<1>2. e \in Experiments /\ q \in Questions /\ q \in run[r].left /\ claim \subseteq Questions
  BY <1>1, Positioned DEF Fits
<1>3. Grown /\ Rises
  BY <1>2, QuietGrows
<1>4. ASSUME NEW p \in claim, raced'[e][p] = 0, NEW k \in OutputSet(f)
      PROVE  ~Made(e, p, k)'
  <2>1. CASE p \in run[r].claim
    <3>1. p \in Questions /\ raced[e][p] = 0
      BY <1>1, <1>2, <1>3, <1>4, <2>1 DEF Rises, Fits
    <3> QED BY <1>1, <1>4, <2>1, <3>1 DEF Untaken, Made, disk
  <2>2. CASE p \notin run[r].claim
    <3>1. p = q /\ Untouched(r)
      BY <2>2
    <3> QED BY <1>4, <3>1, UntouchedUnmade DEF Made, disk
  <2> QED BY <2>1, <2>2
<1>5. CASE PhaseDone(r)
  BY <1>3, <1>5, PhaseOver DEF Unbound
<1>6. ASSUME NEW left, NEW stage, left \subseteq Questions, left /= {}, stage \in {"open", "make"},
             stage = "make" => left \subseteq claim,
             DOMAIN run'[r] = Fields, run'[r].of = run[r].of, run'[r].manifest = run[r].manifest,
             run'[r].todo = run[r].todo, run'[r].left = left, run'[r].claim = claim,
             run'[r].stage = stage
      PROVE  RunOK(r)' /\ NewlyClaims(r) /\ DOMAIN run'[r] = Fields
  <2>1. Of(r)' = e /\ Phase(r)' = f
    BY <1>6 DEF Of, Phase
  <2>2. Fits(r)'
    BY <1>1, <1>2, <1>6, <2>1 DEF Fits, Busy, Unbound
  <2>3. Agreed(r)'
    BY <1>1, <1>2, <1>3, <1>6, ManifestsAgree DEF Fits, Unbound
  <2>4. Untaken(r)'
    BY <1>4, <1>6, <2>1 DEF Untaken
  <2>5. Counted(r)' /\ Sourced(r)'
    BY <1>6 DEF Counted, Sourced, Busy
  <2>6. NewlyClaims(r)
    BY <1>2, <1>6 DEF NewlyClaims
  <2> QED BY <1>6, <2>2, <2>3, <2>4, <2>5, <2>6 DEF RunOK
<1>7. CASE /\ run[r].left /= {q}
           /\ Becomes(r, [run[r] EXCEPT !.left = @ \ {q}, !.claim = claim])
  <2>1. run'[r] = [run[r] EXCEPT !.left = @ \ {q}, !.claim = claim]
    BY <1>7, Became DEF PhasedInv
  <2>2. /\ DOMAIN run'[r] = Fields /\ run'[r].of = run[r].of /\ run'[r].manifest = run[r].manifest
        /\ run'[r].todo = run[r].todo /\ run'[r].left = run[r].left \ {q} /\ run'[r].claim = claim
        /\ run'[r].stage = "open"
    BY <1>1, <2>1 DEF Fields
  <2>3. run[r].left \ {q} \subseteq Questions /\ run[r].left \ {q} /= {}
    BY <1>1, <1>2, <1>7 DEF Fits
  <2> QED BY <1>6, <2>2, <2>3
<1>8. CASE /\ claim /= {}
           /\ Becomes(r, [run[r] EXCEPT !.left = claim, !.claim = claim, !.stage = "make"])
  <2>1. run'[r] = [run[r] EXCEPT !.left = claim, !.claim = claim, !.stage = "make"]
    BY <1>8, Became DEF PhasedInv
  <2>2. /\ DOMAIN run'[r] = Fields /\ run'[r].of = run[r].of /\ run'[r].manifest = run[r].manifest
        /\ run'[r].todo = run[r].todo /\ run'[r].left = claim /\ run'[r].claim = claim
        /\ run'[r].stage = "make"
    BY <1>1, <2>1 DEF Fields
  <2> QED BY <1>2, <1>6, <1>8, <2>2
<1> QED BY <1>5, <1>7, <1>8 DEF Looked

LEMMA ListMissingKeeps ==
    ASSUME PhasedInv, NEW r \in Runs, ListMissing(r)
    PROVE  PhasedInv'
<1>1. /\ ~Idle(r) /\ run[r].stage = "open" /\ Collects(Phase(r)) /\ Untouched(r)
      /\ Looked(r, {At(r)}) /\ raced' = Raced(r, At(r)) /\ UNCHANGED <<disk, calls>>
  BY DEF ListMissing, In, Missing
<1>2. RunOK(r)' /\ NewlyClaims(r) /\ DOMAIN run'[r] = Fields
  BY <1>1, LookedKeeps
<1>3. At(r) \in Questions
  BY <1>1, Counts, Positioned
<1>4. \E row : Becomes(r, row)
  BY <1>1 DEF Looked, PhaseDone, Ends
<1> QED BY <1>1, <1>2, <1>3, <1>4, Counts, QuietStep DEF calls

LEMMA VerifyQuestionKeeps ==
    ASSUME PhasedInv, NEW r \in Runs, VerifyQuestion(r)
    PROVE  PhasedInv'
<1>1. /\ ~Idle(r) /\ run[r].stage = "open" /\ UNCHANGED <<disk, calls, counts>>
      /\ Ends(r) \/ (Collects(Phase(r)) /\ Looked(r, {})) \/ QuestionDone(r, "open")
  BY DEF VerifyQuestion, In
<1>2. CASE Ends(r)
  BY <1>1, <1>2, EndKeeps DEF calls, counts
<1>3. CASE Collects(Phase(r)) /\ Looked(r, {})
  <2>1. RunOK(r)' /\ NewlyClaims(r) /\ DOMAIN run'[r] = Fields
    BY <1>1, <1>3, LookedKeeps DEF counts
  <2>2. \E row : Becomes(r, row)
    BY <1>3 DEF Looked, PhaseDone, Ends
  <2> QED BY <1>1, <2>1, <2>2, Counts, QuietStep DEF calls, counts
<1>4. CASE QuestionDone(r, "open")
  <2>1. Grown /\ Rises /\ run[r].stage \notin Unbound
    BY <1>1, QuietGrows DEF counts, Unbound
  <2>2. \A q \in run[r].claim \ {At(r)} : \A k \in OutputSet(Phase(r)) :
          k \in DOMAIN file'[Of(r)][q] => k \in DOMAIN file[Of(r)][q]
    BY <1>1 DEF disk
  <2>3. RunOK(r)' /\ NewlyClaims(r) /\ DOMAIN run'[r] = Fields
    BY <1>1, <1>4, <2>1, <2>2, TurnOver
  <2>4. \E row : Becomes(r, row)
    BY <1>4 DEF QuestionDone, PhaseDone, Ends
  <2> QED BY <1>1, <2>3, <2>4, Counts, QuietStep DEF calls, counts
<1> QED BY <1>1, <1>2, <1>3, <1>4

\* A question is taken up: what its files are made from has been read.
LEMMA TakenUp ==
    ASSUME PhasedInv, UNCHANGED disk, NEW r \in Runs, ~Idle(r), run[r].stage \in {"open", "make"},
           Ready(r), Phase(r) /= "report", NEW claim, NEW stage, NEW heard,
           Becomes(r, [run[r] EXCEPT !.claim = claim, !.stage = stage, !.heard = heard,
                                     !.read = Readings(r)]),
           \/ /\ claim = run[r].claim /\ raced' = raced /\ run[r].stage = "make" /\ stage = "first"
           \/ /\ claim = {At(r)} /\ Untouched(r) /\ raced' = Raced(r, At(r))
              /\ \/ stage = "first" /\ ~Collects(Phase(r))
                 \/ /\ stage = "ask" /\ Phase(r) \in {"construct", "qa"}
                    /\ Phase(r) = "construct" => heard = windows[At(r)].kept
    PROVE  RunOK(r)' /\ NewlyClaims(r) /\ DOMAIN run'[r] = Fields
<1> PICK e, q, f : e = Of(r) /\ q = At(r) /\ f = Phase(r)
  OBVIOUS
<1>1. Fits(r) /\ Untaken(r) /\ Agreed(r) /\ DOMAIN run[r] = Fields
  BY Counts
<1>2. e \in Experiments /\ q \in Questions /\ q \in run[r].left
  BY <1>1, Positioned DEF Fits
<1>3. Grown /\ Rises
  BY <1>2, QuietGrows
<1>4. run'[r] = [run[r] EXCEPT !.claim = claim, !.stage = stage, !.heard = heard,
                              !.read = Readings(r)]
  BY Became DEF PhasedInv
<1>5. /\ DOMAIN run'[r] = Fields /\ run'[r].of = run[r].of /\ run'[r].manifest = run[r].manifest
      /\ run'[r].todo = run[r].todo /\ run'[r].left = run[r].left /\ run'[r].claim = claim
      /\ run'[r].stage = stage /\ run'[r].heard = heard /\ run'[r].read = Readings(r)
  BY <1>1, <1>4 DEF Fields
<1>6. Of(r)' = e /\ Phase(r)' = f /\ At(r)' = q /\ stage \in {"first", "ask"}
  BY <1>5 DEF Of, Phase, At
<1>7. Fits(r)'
  <2>1. q \in claim /\ claim \subseteq Questions
    BY <1>1, <1>2 DEF Fits
  <2>2. stage = "first" /\ Collects(f) => run[r].left \subseteq claim
    BY <1>1 DEF Fits
  <2>3. stage = "ask" => f \in {"construct", "qa"}
    OBVIOUS
  <2> QED BY <1>1, <1>5, <1>6, <2>1, <2>2, <2>3 DEF Fits, Busy, Unbound
<1>8. Agreed(r)'
  BY <1>1, <1>3, <1>5, <1>6, ManifestsAgree DEF Fits, Unbound
<1>9. Untaken(r)'
  <2> SUFFICES ASSUME NEW p \in claim, raced'[e][p] = 0, NEW k \in OutputSet(f), Made(e, p, k)
               PROVE  FALSE
    BY <1>5, <1>6 DEF Untaken, Made, disk
  <2>1. CASE claim = run[r].claim /\ run[r].stage = "make"
    <3>1. p \in Questions /\ raced[e][p] = 0
      BY <1>1, <1>2, <1>3, <2>1 DEF Rises, Fits
    <3> QED BY <1>1, <2>1, <3>1 DEF Untaken
  <2>2. CASE claim = {q} /\ Untouched(r)
    BY <2>2, UntouchedUnmade
  <2> QED BY <2>1, <2>2
<1>10. Counted(r)'
  BY <1>5, <1>6 DEF Counted, disk
<1>11. Sourced(r)'
  BY <1>1, <1>5, <1>6, FreshReadings
<1>12. NewlyClaims(r)
  BY <1>2, <1>5 DEF NewlyClaims
<1> QED BY <1>5, <1>7, <1>8, <1>9, <1>10, <1>11, <1>12 DEF RunOK

LEMMA MakeOneKeeps ==
    ASSUME PhasedInv, NEW r \in Runs, MakeOne(r)
    PROVE  PhasedInv'
<1> PICK claim, heard : claim = run[r].claim /\ heard = run[r].heard
  OBVIOUS
<1> DEFINE row == [run[r] EXCEPT !.stage = "first", !.read = Readings(r)]
<1>1. /\ ~Idle(r) /\ run[r].stage = "make" /\ Ready(r) /\ Becomes(r, row)
      /\ UNCHANGED <<disk, calls, counts>>
  BY DEF MakeOne, In
<1>2. Fits(r) /\ DOMAIN run[r] = Fields
  BY <1>1, Counts
<1>3. Phase(r) /= "report"
  BY <1>1, <1>2 DEF Fits, Collects
<1>4. row = [run[r] EXCEPT !.claim = claim, !.stage = "first", !.heard = heard,
                           !.read = Readings(r)]
  BY <1>2 DEF Fields
<1>5. Becomes(r, [run[r] EXCEPT !.claim = claim, !.stage = "first", !.heard = heard,
                                !.read = Readings(r)])
  BY <1>1, <1>4
<1>6. RunOK(r)' /\ NewlyClaims(r) /\ DOMAIN run'[r] = Fields
  BY <1>1, <1>3, <1>5, TakenUp DEF counts
<1> QED BY <1>1, <1>6, Counts, QuietStep DEF calls, counts

LEMMA BeginsKeeps ==
    ASSUME PhasedInv, NEW r \in Runs,
           BeginWindows(r) \/ BeginConstruct(r) \/ BeginPack(r) \/ BeginQA(r)
    PROVE  PhasedInv'
<1>1. PICK f, stage, heard :
        /\ Begins(r, f, stage, heard) /\ f /= "report"
        /\ \/ stage = "first" /\ ~Collects(f)
           \/ /\ stage = "ask" /\ f \in {"construct", "qa"}
              /\ f = "construct" => heard = windows[At(r)].kept
  <2>1. CASE BeginWindows(r)
    BY <2>1 DEF BeginWindows, Collects
  <2>2. CASE BeginConstruct(r)
    BY <2>2 DEF BeginConstruct
  <2>3. CASE BeginPack(r)
    BY <2>3 DEF BeginPack, Collects
  <2>4. CASE BeginQA(r)
    BY <2>4 DEF BeginQA
  <2> QED BY <2>1, <2>2, <2>3, <2>4
<1>2. /\ ~Idle(r) /\ run[r].stage = "open" /\ Phase(r) = f /\ Untouched(r) /\ Ready(r)
      /\ raced' = Raced(r, At(r)) /\ UNCHANGED <<disk, calls>>
      /\ Becomes(r, [run[r] EXCEPT !.claim = {At(r)}, !.stage = stage, !.heard = heard,
                                   !.read = Readings(r)])
  BY <1>1 DEF Begins, In
<1> PICK claim : claim = {At(r)}
  OBVIOUS
<1>3. Becomes(r, [run[r] EXCEPT !.claim = claim, !.stage = stage, !.heard = heard,
                                !.read = Readings(r)])
  BY <1>2
<1>4. RunOK(r)' /\ NewlyClaims(r) /\ DOMAIN run'[r] = Fields
  BY <1>1, <1>2, <1>3, TakenUp
<1>5. At(r) \in Questions
  BY <1>2, Counts, Positioned
<1> QED BY <1>2, <1>3, <1>4, <1>5, Counts, QuietStep DEF calls

\* A call is made or answered, and the run has what it had.
LEMMA CallKeeps ==
    ASSUME PhasedInv, UNCHANGED disk, raced' = raced, NEW r \in Runs, ~Idle(r),
           run[r].stage \in {"ask", "asked"},
           DOMAIN run'[r] = Fields, run'[r].of = run[r].of, run'[r].manifest = run[r].manifest,
           run'[r].todo = run[r].todo, run'[r].left = run[r].left, run'[r].claim = run[r].claim,
           run'[r].read = run[r].read, run'[r].stage \in {"ask", "asked", "first"},
           run'[r].stage /= "first" /\ Phase(r) = "construct" => run'[r].heard = run[r].heard
    PROVE  RunOK(r)' /\ NewlyClaims(r)
<1> PICK e, q, f : e = Of(r) /\ q = At(r) /\ f = Phase(r)
  OBVIOUS
<1>1. Fits(r) /\ Untaken(r) /\ Counted(r) /\ Agreed(r) /\ Sourced(r)
  BY Counts
<1>2. e \in Experiments /\ q \in Questions /\ f \in {"construct", "qa"}
  BY <1>1, Positioned DEF Fits
<1>3. Grown /\ Rises
  BY QuietGrows
<1>4. Of(r)' = e /\ Phase(r)' = f /\ At(r)' = q
  BY DEF Of, Phase, At
<1>5. Fits(r)'
  BY <1>1, <1>2, <1>4 DEF Fits, Busy, Unbound, Collects
<1>6. Agreed(r)'
  BY <1>1, <1>3, ManifestsAgree DEF Fits, Unbound
<1>7. Untaken(r)'
  BY <1>1, <1>4 DEF Untaken, Made, disk
<1>8. Counted(r)'
  BY <1>1, <1>4 DEF Counted, disk
<1>9. Sourced(r)'
  <2> SUFFICES ASSUME Undisputed(e, q)'
               PROVE  /\ run[r].read = Readings(r)'
                      /\ \A i \in DOMAIN Outputs(f) : Supplied(e, q, f, i)'
    BY <1>4 DEF Sourced
  <2>1. run[r].read = Readings(r)
    BY <1>1, <1>2, <1>3 DEF Sourced, Grown, Busy
  <2>2. /\ Readings(r)' = Readings(r)
        /\ \A i \in DOMAIN Outputs(f) : Supplied(e, q, f, i)'
    BY <1>1, <1>3, <1>7, ReadingsStay DEF PhasedInv, Busy, disk
  <2> QED BY <2>1, <2>2
<1> QED BY <1>5, <1>6, <1>7, <1>8, <1>9 DEF RunOK, NewlyClaims

LEMMA CallsKeep ==
    ASSUME PhasedInv, NEW r \in Runs,
           AskConstructor(r) \/ AskReaderOrJudge(r) \/ HearAnswer(r) \/ AllHeard(r)
    PROVE  PhasedInv'
<1>1. ~Idle(r) /\ run[r].stage \in {"ask", "asked"} /\ UNCHANGED disk /\ raced' = raced
  BY DEF AskConstructor, AskReaderOrJudge, HearAnswer, AllHeard, In, counts
<1>2. Fits(r) /\ DOMAIN run[r] = Fields /\ Of(r) \in Experiments /\ At(r) \in Questions
  BY <1>1, Counts, Positioned DEF Fits
<1>3. PICK row :
        /\ Becomes(r, row) /\ DOMAIN row = Fields /\ row.of = run[r].of
        /\ row.manifest = run[r].manifest /\ row.todo = run[r].todo /\ row.left = run[r].left
        /\ row.claim = run[r].claim /\ row.read = run[r].read
        /\ row.stage \in {"ask", "asked", "first"}
        /\ row.stage /= "first" /\ Phase(r) = "construct" => row.heard = run[r].heard
  <2>1. CASE AskConstructor(r) \/ AskReaderOrJudge(r)
    <3>1. Becomes(r, [run[r] EXCEPT !.stage = "asked"])
      BY <2>1 DEF AskConstructor, AskReaderOrJudge, Goes
    <3> QED BY <1>2, <3>1 DEF Fields
  <2>2. CASE HearAnswer(r)
    <3>1. Becomes(r, [run[r] EXCEPT !.stage = "ask", !.heard = @ + 1]) /\ Phase(r) = "qa"
      BY <2>2 DEF HearAnswer
    <3> QED BY <1>2, <3>1 DEF Fields
  <2>3. CASE AllHeard(r)
    <3>1. Becomes(r, [run[r] EXCEPT !.stage = "first"])
      BY <2>3 DEF AllHeard, Goes
    <3> QED BY <1>2, <3>1 DEF Fields
  <2> QED BY <2>1, <2>2, <2>3
<1>4. run'[r] = row
  BY <1>3, Became DEF PhasedInv
<1>5. RunOK(r)' /\ NewlyClaims(r) /\ DOMAIN run'[r] = Fields
  BY <1>1, <1>3, <1>4, CallKeeps
<1>6. sent' \in [Experiments -> [Questions -> Nat]] /\ posed' \in [Questions -> Nat]
  BY <1>2, Counts DEF AskConstructor, AskReaderOrJudge, HearAnswer, AllHeard, calls
<1> QED BY <1>1, <1>3, <1>5, <1>6, QuietStep

LEMMA StopsKeep ==
    ASSUME PhasedInv, NEW r \in Runs, RefuseQuestion(r) \/ CallFails(r) \/ Kill(r)
    PROVE  PhasedInv'
  BY EndKeeps DEF RefuseQuestion, CallFails, Kill, calls, counts

-----------------------------------------------------------------------------
(* The steps that write: manifests, receipts, files and reports.           *)

LEMMA BindsKeeps ==
    ASSUME PhasedInv, NEW r \in Runs, ~Idle(r), NEW e \in Experiments, NEW m, NEW stage, Binds(e, m),
           Goes(r, stage), m.config = run[r].manifest.config,
           \/ /\ run[r].stage = "source" /\ e = "E1" /\ m = Base(m.config)
              /\ stage = IF Of(r) = "E1" THEN "open" ELSE "context"
           \/ run[r].stage = "bind" /\ e = Of(r) /\ m = run[r].manifest /\ stage = "open"
    PROVE  PhasedInv'
<1> PICK o : o = Of(r)
  OBVIOUS
<1>1. Fits(r) /\ Untaken(r) /\ Agreed(r) /\ DOMAIN run[r] = Fields
  BY Counts
<1>2. run'[r] = [run[r] EXCEPT !.stage = stage] /\ DOMAIN run' = Runs /\ \A s \in Runs \ {r} : run'[s] = run[s]
  BY Became DEF Goes, PhasedInv
<1>3. /\ DOMAIN run'[r] = Fields /\ run'[r].of = run[r].of /\ run'[r].manifest = run[r].manifest
      /\ run'[r].todo = run[r].todo /\ run'[r].left = run[r].left /\ run'[r].claim = run[r].claim
      /\ run'[r].stage = stage
  BY <1>1, <1>2 DEF Fields
<1>4. /\ file' = file /\ windows' = windows /\ report' = report /\ sent' = sent /\ posed' = posed
      /\ manifest' = [manifest EXCEPT ![e] = m]
      /\ raced' = IF manifest[e] \in {NoManifest, m} THEN raced
                  ELSE [raced EXCEPT ![e] = [q \in Questions |-> @[q] + 1]]
  BY DEF Binds, calls
<1>5. raced \in [Experiments -> [Questions -> Nat]] /\ DOMAIN manifest = Experiments
  BY DEF PhasedInv, Shapes
<1>6. /\ raced' \in [Experiments -> [Questions -> Nat]] /\ Rises
      /\ manifest[e] \in {NoManifest, m} \/ \A q \in Questions : raced'[e][q] /= 0
  <2>1. CASE manifest[e] \in {NoManifest, m}
    BY <1>4, <1>5, <2>1 DEF Rises
  <2>2. CASE manifest[e] \notin {NoManifest, m}
    <3> PICK counted : counted = [q \in Questions |-> raced[e][q] + 1]
      OBVIOUS
    <3>1. counted \in [Questions -> Nat] /\ \A q \in Questions : counted[q] /= 0
      BY <1>5
    <3>2. raced' = [raced EXCEPT ![e] = counted]
      BY <1>4, <2>2
    <3>3. raced' \in [Experiments -> [Questions -> Nat]] /\ raced'[e] = counted
      BY <1>5, <3>1, <3>2
    <3>4. \A d \in Experiments \ {e} : raced'[d] = raced[d]
      BY <1>5, <3>2
    <3> QED BY <3>1, <3>3, <3>4 DEF Rises
  <2> QED BY <2>1, <2>2
<1>7. Grown
  <2> SUFFICES ASSUME NEW d \in Experiments, NEW q \in Questions, Undisputed(d, q)'
               PROVE  /\ Undisputed(d, q)
                      /\ manifest[d].config \in Configs => manifest'[d] = manifest[d]
    BY <1>4 DEF Grown
  <2>1. Undisputed(d, q)
    BY <1>6, ThreeExperiments DEF Undisputed, Rises
  <2>2. CASE d /= e
    BY <1>4, <1>5, <2>1, <2>2
  <2>3. CASE d = e
    <3>1. manifest[e] \in {NoManifest, m}
      BY <1>6, <2>3 DEF Undisputed
    <3>2. NoManifest.config \notin Configs
      BY PhasedRunAssumption DEF NoManifest
    <3> QED BY <1>4, <1>5, <2>1, <2>3, <3>1, <3>2
  <2> QED BY <2>2, <2>3
<1>8. Local(r)
  BY <1>4 DEF Local
<1>9. Shapes'
  <2>1. m.config \in Configs
    BY <1>1 DEF Fits
  <2>2. \A d \in Experiments : manifest'[d] = NoManifest \/ manifest'[d].config \in Configs
    BY <1>4, <1>5, <2>1 DEF PhasedInv, Shapes
  <2>3. DOMAIN manifest' = Experiments
    BY <1>4, <1>5
  <2>4. \A s \in Runs : DOMAIN run'[s] = Fields
    BY <1>2, <1>3, Counts
  <2> QED BY <1>2, <1>4, <1>6, <2>2, <2>3, <2>4 DEF PhasedInv, Shapes
<1>10. Of(r)' = o /\ Phase(r)' = Phase(r) /\ stage \in {"open", "context"}
  BY <1>3 DEF Of, Phase
<1>11. Fits(r)'
  BY <1>1, <1>3, <1>10 DEF Fits, Busy, Unbound
<1>12. manifest'[e] = m
  BY <1>4, <1>5
<1>13. Base(run[r].manifest.config)' = Base(m.config)
  BY <1>3 DEF Base
<1>14. Agreed(r)'
  <2>1. CASE run[r].stage = "source" /\ e = "E1" /\ m = Base(m.config)
    <3>1. m = run[r].manifest
      BY <1>1, <2>1 DEF Fits
    <3>2. stage = "context" \/ (stage = "open" /\ o = "E1")
      BY <2>1
    <3> QED BY <1>3, <1>10, <1>12, <1>13, <2>1, <3>1, <3>2 DEF Agreed, Unbound
  <2>2. CASE run[r].stage = "bind" /\ e = o /\ m = run[r].manifest
    <3>1. e /= "E1"
      BY <1>1, <2>2 DEF Fits
    <3>2. ASSUME NEW q \in Questions, Undisputed("E1", q)'
          PROVE  manifest'["E1"] = Base(m.config)
      <4>1. Undisputed("E1", q) /\ "E1" \in Experiments
        BY <1>7, <3>2, ThreeExperiments DEF Grown
      <4>2. manifest["E1"] = Base(m.config)
        BY <1>1, <2>2, <4>1 DEF Agreed
      <4> QED BY <1>4, <1>5, <3>1, <4>1, <4>2
    <3> QED BY <1>3, <1>10, <1>12, <1>13, <2>2, <3>2 DEF Agreed, Unbound
  <2> QED BY <2>1, <2>2
<1>15. Untaken(r)'
  <2> PICK f : f = Phase(r)
    OBVIOUS
  <2> SUFFICES ASSUME NEW q \in run[r].claim, raced'[o][q] = 0, NEW k \in OutputSet(f), Made(o, q, k)
               PROVE  FALSE
    BY <1>3, <1>4, <1>10 DEF Untaken, Made
  <2>1. o \in Experiments /\ q \in Questions
    BY <1>1 DEF Fits
  <2>2. raced[o][q] = 0
    BY <1>6, <2>1 DEF Rises
  <2> QED BY <1>1, <2>2 DEF Untaken
<1>16. Counted(r)' /\ Sourced(r)'
  BY <1>3, <1>10 DEF Counted, Sourced, Busy
<1>17. RunOK(r)'
  BY <1>11, <1>14, <1>15, <1>16 DEF RunOK
<1> QED BY <1>2, <1>3, <1>4, <1>6, <1>7, <1>8, <1>9, <1>17, StepKeeps

LEMMA BindSourceKeeps ==
    ASSUME PhasedInv, NEW r \in Runs, BindSource(r)
    PROVE  PhasedInv'
<1> PICK m, stage : m = Base(run[r].manifest.config) /\ stage = IF Of(r) = "E1" THEN "open" ELSE "context"
  OBVIOUS
<1>1. /\ ~Idle(r) /\ run[r].stage = "source" /\ Binds("E1", m) /\ Goes(r, stage)
  BY DEF BindSource, In
<1>2. m.config = run[r].manifest.config /\ m = Base(m.config) /\ "E1" \in Experiments
  BY ThreeExperiments DEF Base
<1> QED BY <1>1, <1>2, BindsKeeps

LEMMA BindOwnKeeps ==
    ASSUME PhasedInv, NEW r \in Runs, BindOwn(r)
    PROVE  PhasedInv'
<1> PICK e, m, stage : e = Of(r) /\ m = run[r].manifest /\ stage = "open"
  OBVIOUS
<1>1. ~Idle(r) /\ run[r].stage = "bind" /\ Binds(e, m) /\ Goes(r, stage)
  BY DEF BindOwn, In
<1>2. e \in Experiments
  BY <1>1, Counts DEF Fits
<1> QED BY <1>1, <1>2, BindsKeeps

LEMMA ReportKeeps ==
    ASSUME PhasedInv, NEW r \in Runs, Report(r)
    PROVE  PhasedInv'
<1> PICK e, m : e = Of(r) /\ m = run[r].manifest
  OBVIOUS
<1>1. /\ ~Idle(r) /\ run[r].stage = "open" /\ Ends(r)
      /\ UNCHANGED <<manifest, file, windows, calls, counts>>
      /\ report' = IF Reportable(r) THEN [report EXCEPT ![e] = Reported(e)] ELSE report
  BY DEF Report, In
<1>2. Fits(r) /\ Agreed(r) /\ e \in Experiments
  BY <1>1, Counts DEF Fits
<1>3. run'[r] = NoRun /\ DOMAIN run' = Runs /\ \A s \in Runs \ {r} : run'[s] = run[s]
  BY <1>1, Became DEF Ends, PhasedInv
<1>4. RunOK(r)' /\ NewlyClaims(r) /\ DOMAIN run'[r] = Fields
  BY <1>1, RunEnds DEF PhasedInv
<1>5. Grown /\ Rises /\ Local(r)
  BY <1>1 DEF Grown, Rises, Local, Undisputed, counts
<1>6. Shapes'
  <2>1. \A s \in Runs : DOMAIN run'[s] = Fields
    BY <1>3, <1>4, Counts
  <2> QED BY <1>1, <1>3, <2>1 DEF PhasedInv, Shapes, calls, counts
<1>7. ASSUME NEW d \in Experiments, NEW q \in Questions
      PROVE  report'[d] = report[d] \/ Filed(d, q)'
  <2>1. CASE d /= e \/ ~Reportable(r)
    BY <1>1, <2>1 DEF PhasedInv, Shapes
  <2>2. CASE d = e /\ Reportable(r)
    <3> SUFFICES ASSUME Undisputed(e, q)'
                 PROVE  Filed(e, q)'
      BY <2>2 DEF Filed
    <3>1. Undisputed(e, q) /\ Undisputed("E1", q)
      BY <1>1 DEF Undisputed, counts
    <3>2. report'[e] = Reported(e)
      BY <1>1, <1>2, <2>2 DEF PhasedInv, Shapes
    <3>3. ASSUME NEW c \in Reported(e), c[1] = q
          PROVE  Made(e, q, c[2])' /\ c[3] = Stamp(e, q, c[2])'
      <4>1. PICK p \in Questions : \E k \in DOMAIN file[e][p] : c = <<p, k, Stamp(e, p, k)>>
        BY DEF Reported
      <4>2. c[2] \in DOMAIN file[e][q] /\ c[3] = Stamp(e, q, c[2])
        BY <3>3, <4>1
      <4> QED BY <1>1, <4>2 DEF Made, Stamp
    <3>4. manifest[e] = m /\ manifest["E1"] = Base(m.config) /\ m.config \in Configs
      BY <1>1, <1>2, <3>1 DEF Agreed, Unbound, Fits
    <3>5. Replays(m, e, q, Len(PhasesOf(e)) - 1)
      BY <2>2 DEF Reportable
    <3>6. Replays(m, e, q, Len(PhasesOf(e)) - 1)'
      BY <1>2, <1>5, <3>5, ReplaysStays DEF PhasedInv
    <3>7. manifest' = manifest
      BY <1>1
    <3> QED BY <3>2, <3>3, <3>4, <3>6, <3>7 DEF Filed
  <2> QED BY <2>1, <2>2
<1> QED BY <1>1, <1>3, <1>4, <1>5, <1>6, <1>7, StepKeeps DEF NewlyClaims

-----------------------------------------------------------------------------
(* What a run has read, and what it writes from it.                        *)

Named(e, f) == UNION {Sources(e, Outputs(f)[i]) : i \in DOMAIN Outputs(f)}

LEMMA ReadingsNamed ==
    ASSUME NEW r \in Runs, NEW e, e = Of(r), NEW q, q = At(r), NEW f, f = Phase(r)
    PROVE  Readings(r) = {<<s[1], s[2], Stamp(s[1], q, s[2])>> : s \in Named(e, f)}
<1>1. Readings(r) = UNION {Cited(e, q, Outputs(f)[i]) : i \in DOMAIN Outputs(f)}
  BY DEF Readings, Out
<1> QED BY <1>1 DEF Cited, Named

LEMMA NamedNear ==
    ASSUME NEW e \in Experiments, NEW f \in PhaseSet(e), NEW s \in Named(e, f)
    PROVE  s = <<s[1], s[2]>> /\ s[1] \in {e, "E1"}
<1>1. PICK i \in DOMAIN Outputs(f) : s \in Sources(e, Outputs(f)[i])
  BY DEF Named
<1>2. Outputs(f)[i] \in KindsOf(e)
  BY OutputsApart DEF OutputSet
<1> QED BY <1>1, <1>2, SourcesNear

\* What a run knows after it has written a file is again what is there.
LEMMA KnowsAll ==
    ASSUME NEW r \in Runs, NEW e \in Experiments, e = Of(r), NEW q, q = At(r),
           NEW f \in PhaseSet(e), f = Phase(r),
           run'[r].of = run[r].of, run'[r].todo = run[r].todo, run'[r].left = run[r].left,
           run[r].read = Readings(r), NEW k, <<e, k>> \in Named(e, f),
           NEW stamp, stamp = Stamp(e, q, k)',
           \A s \in Named(e, f) : s /= <<e, k>> => Stamp(s[1], q, s[2])' = Stamp(s[1], q, s[2])
    PROVE  Knows(r, k, stamp) = Readings(r)'
<1> DEFINE now(s) == <<s[1], s[2], Stamp(s[1], q, s[2])'>>
           was(s) == <<s[1], s[2], Stamp(s[1], q, s[2])>>
<1>1. Of(r)' = e /\ At(r)' = q /\ Phase(r)' = f
  BY DEF Of, At, Phase
<1>2. Readings(r)' = {now(s) : s \in Named(e, f)}
  <2>1. Readings(r)' = UNION {Cited(e, q, Outputs(f)[i])' : i \in DOMAIN Outputs(f)}
    BY <1>1 DEF Readings, Out
  <2> QED BY <2>1 DEF Cited, Named
<1>3. run[r].read = {was(s) : s \in Named(e, f)}
  BY ReadingsNamed
<1>4. Knows(r, k, stamp) =
        {c \in run[r].read : <<c[1], c[2]>> /= <<e, k>>} \cup {<<e, k, stamp>>}
  BY DEF Knows
<1>5. ASSUME NEW c \in Knows(r, k, stamp)
      PROVE  c \in Readings(r)'
  <2>1. CASE c = <<e, k, stamp>>
    <3>1. c = now(<<e, k>>)
      BY <2>1
    <3> QED BY <1>2, <3>1
  <2>2. CASE c \in run[r].read /\ <<c[1], c[2]>> /= <<e, k>>
    <3>1. PICK s \in Named(e, f) : c = was(s)
      BY <1>3, <2>2
    <3>2. s = <<s[1], s[2]>> /\ c[1] = s[1] /\ c[2] = s[2]
      BY <3>1, NamedNear
    <3>3. c = now(s)
      BY <2>2, <3>1, <3>2
    <3> QED BY <1>2, <3>3
  <2> QED BY <1>4, <1>5, <2>1, <2>2
<1>6. ASSUME NEW c \in Readings(r)'
      PROVE  c \in Knows(r, k, stamp)
  <2>1. PICK s \in Named(e, f) : c = now(s)
    BY <1>2, <1>6
  <2>2. s = <<s[1], s[2]>>
    BY NamedNear
  <2>3. CASE s = <<e, k>>
    BY <1>4, <2>1, <2>3
  <2>4. CASE s /= <<e, k>>
    <3>1. c = was(s)
      BY <2>1, <2>4
    <3>2. c[1] = s[1] /\ c[2] = s[2]
      BY <3>1
    <3>3. <<c[1], c[2]>> /= <<e, k>>
      BY <2>2, <2>4, <3>2
    <3> QED BY <1>3, <1>4, <3>1, <3>3
  <2> QED BY <2>3, <2>4
<1> QED BY <1>5, <1>6

LEMMA KeepWindowKeeps ==
    ASSUME PhasedInv, NEW r \in Runs, KeepWindow(r)
    PROVE  PhasedInv'
<1> PICK e, q, f, stamp : e = Of(r) /\ q = At(r) /\ f = Phase(r) /\ stamp = windows[q].stamp + 1
  OBVIOUS
<1>1. /\ ~Idle(r) /\ run[r].stage = "asked" /\ f = "construct"
      /\ UNCHANGED <<manifest, file, report, calls, counts>>
  BY DEF KeepWindow, In
<1>2. PICK ok \in BOOLEAN :
        /\ windows' = [windows EXCEPT ![q] =
                         [stamp |-> stamp, kept |-> run[r].heard + 1, valid |-> ok]]
        /\ IF ok
           THEN Becomes(r, [run[r] EXCEPT !.stage = "ask", !.heard = @ + 1,
                                          !.read = Knows(r, "constructor", stamp)])
           ELSE Ends(r)
  BY DEF KeepWindow
<1>3. /\ Fits(r) /\ Untaken(r) /\ Agreed(r) /\ Sourced(r) /\ DOMAIN run[r] = Fields
      /\ f \in PhaseSet(e) /\ e \in Experiments /\ q \in Questions /\ q \in run[r].claim
  BY <1>1, Counts, Positioned DEF Fits, Busy
<1>4. e = "E7"
  BY <1>1, <1>3, ThreeExperiments, PhaseSets
<1>5. DOMAIN windows = Questions /\ \A s \in Runs : DOMAIN run[s] = Fields
  BY Counts DEF PhasedInv, Shapes
<1>6. /\ DOMAIN windows' = Questions /\ windows'[q].stamp = stamp
      /\ windows'[q].kept = run[r].heard + 1 /\ \A p \in Questions \ {q} : windows'[p] = windows[p]
  BY <1>2, <1>3, <1>5
<1>7. Grown
  <2>1. ASSUME Undisputed("E7", q), Made("E7", q, "contexts")
        PROVE  FALSE
    <3>1. "contexts" \in OutputSet("construct")
      BY OutputSets
    <3>2. raced[e][q] = 0
      BY <1>4, <2>1 DEF Undisputed
    <3> QED BY <1>1, <1>3, <1>4, <2>1, <3>1, <3>2 DEF Untaken
  <2>2. \A p \in Questions : p /= q => windows'[p] = windows[p]
    BY <1>6
  <2> QED BY <1>1, <2>1, <2>2 DEF Grown, Undisputed, counts
<1>8. Rises /\ raced' = raced
  BY <1>1 DEF Rises, counts
<1>9. Local(r)
  BY <1>1, <1>3, <1>4, <1>6 DEF Local
<1>10. RunOK(r)' /\ NewlyClaims(r) /\ DOMAIN run'[r] = Fields
  <2>1. CASE Ends(r)
    BY <2>1, RunEnds DEF PhasedInv
  <2>2. CASE Becomes(r, [run[r] EXCEPT !.stage = "ask", !.heard = @ + 1,
                                       !.read = Knows(r, "constructor", stamp)])
    <3>1. run'[r] = [run[r] EXCEPT !.stage = "ask", !.heard = @ + 1,
                                   !.read = Knows(r, "constructor", stamp)]
      BY <2>2, Became DEF PhasedInv
    <3>2. /\ DOMAIN run'[r] = Fields /\ run'[r].of = run[r].of
          /\ run'[r].manifest = run[r].manifest /\ run'[r].todo = run[r].todo
          /\ run'[r].left = run[r].left /\ run'[r].claim = run[r].claim
          /\ run'[r].stage = "ask" /\ run'[r].heard = run[r].heard + 1
          /\ run'[r].read = Knows(r, "constructor", stamp)
      BY <1>3, <3>1 DEF Fields
    <3>3. Of(r)' = e /\ At(r)' = q /\ Phase(r)' = f
      BY <3>2 DEF Of, At, Phase
    <3>4. Fits(r)'
      BY <1>1, <1>3, <3>2, <3>3 DEF Fits, Busy, Unbound
    <3>5. Agreed(r)'
      BY <1>1, <1>3, <1>7, <3>2, ManifestsAgree DEF Fits, Unbound
    <3>6. Untaken(r)'
      BY <1>1, <1>3, <1>8, <3>2, <3>3 DEF Untaken, Made
    <3>7. Counted(r)'
      BY <1>6, <3>2, <3>3 DEF Counted
    <3>8. Sourced(r)'
      <4> SUFFICES ASSUME Undisputed(e, q)'
                   PROVE  /\ Knows(r, "constructor", stamp) = Readings(r)'
                          /\ \A i \in DOMAIN Outputs(f) : Supplied(e, q, f, i)'
        BY <3>2, <3>3 DEF Sourced
      <4>1. Undisputed(e, q)
        BY <1>8 DEF Undisputed
      <4>2. run[r].read = Readings(r) /\ \A i \in DOMAIN Outputs(f) : Supplied(e, q, f, i)
        BY <1>1, <1>3, <4>1 DEF Sourced, Busy
      <4>3. \A i \in DOMAIN Outputs(f) : Supplied(e, q, f, i)'
        BY <1>1, <4>2 DEF Supplied, Made
      <4>4. <<e, "constructor">> \in Named(e, f)
        <5>1. 1 \in DOMAIN Outputs("construct") /\ Outputs("construct")[1] = "contexts"
          BY OutputsListed
        <5>2. <<"E7", "constructor">> \in Sources("E7", "contexts")
          BY SourcesListed
        <5> QED BY <1>1, <1>4, <5>1, <5>2 DEF Named
      <4>5. stamp = Stamp(e, q, "constructor")'
        BY <1>6 DEF Stamp
      <4>6. ASSUME NEW s \in Named(e, f), s /= <<e, "constructor">>
            PROVE  Stamp(s[1], q, s[2])' = Stamp(s[1], q, s[2])
        <5>1. s[2] /= "constructor"
          <6>1. PICK i \in DOMAIN Outputs(f) : s \in Sources(e, Outputs(f)[i])
            BY DEF Named
          <6>2. Outputs(f)[i] \in {"contexts", "construction"}
            BY <1>1, OutputsListed
          <6> QED BY <1>4, <4>6, <6>1, <6>2, SourcesListed
        <5> QED BY <1>1, <5>1 DEF Stamp, Made
      <4>7. Knows(r, "constructor", stamp) = Readings(r)'
        BY <1>3, <3>2, <4>2, <4>4, <4>5, <4>6, KnowsAll
      <4> QED BY <4>3, <4>7
    <3> QED BY <1>1, <3>2, <3>4, <3>5, <3>6, <3>7, <3>8 DEF RunOK, NewlyClaims
  <2> QED BY <1>2, <2>1, <2>2
<1>11. \A s \in Runs \ {r} : run'[s] = run[s]
  BY <1>2, Became DEF PhasedInv, Ends
<1>12. Shapes'
  <2>1. DOMAIN run' = Runs
    BY <1>2, Became DEF PhasedInv, Ends
  <2>2. \A s \in Runs : DOMAIN run'[s] = Fields
    BY <1>5, <1>10, <1>11
  <2> QED BY <1>1, <1>6, <2>1, <2>2 DEF PhasedInv, Shapes, calls, counts
<1> QED BY <1>1, <1>7, <1>8, <1>9, <1>10, <1>11, <1>12, StepKeeps DEF NewlyClaims

\* Where a run is when it writes.
LEMMA Writing ==
    ASSUME PhasedInv, NEW r \in Runs, ~Idle(r), NEW i,
           (run[r].stage = "first" /\ i = 1) \/ (run[r].stage = "second" /\ i = 2),
           NEW e, e = Of(r), NEW q, q = At(r), NEW f, f = Phase(r), NEW k, k = Outputs(f)[i]
    PROVE  /\ Fits(r) /\ Untaken(r) /\ Agreed(r) /\ Sourced(r) /\ DOMAIN run[r] = Fields
           /\ run[r].stage \in Busy /\ run[r].stage \notin Unbound
           /\ e \in Experiments /\ q \in Questions /\ q \in run[r].claim
           /\ f \in PhaseSet(e) /\ f \in PhaseNames /\ i \in DOMAIN Outputs(f)
           /\ k \in OutputSet(f) /\ k \in KindsOf(e)
           /\ Undisputed(e, q) => ~Made(e, q, k)
<1>1. /\ Fits(r) /\ Untaken(r) /\ Agreed(r) /\ Sourced(r) /\ DOMAIN run[r] = Fields
      /\ run[r].stage \in Busy /\ run[r].stage \notin Unbound
  BY Counts DEF Busy, Unbound
<1>2. /\ e \in Experiments /\ q \in Questions /\ q \in run[r].claim /\ f \in PhaseSet(e)
      /\ f /= "report"
      /\ run[r].stage = "second" => f \in {"construct", "pack", "qa"}
  BY <1>1, Positioned DEF Fits
<1>3. f \in PhaseNames
  BY <1>2, ThreeExperiments, PhaseSets DEF PhaseNames
<1>4. i \in DOMAIN Outputs(f)
  BY <1>2, <1>3, OutputsListed DEF PhaseNames
<1>5. k \in OutputSet(f) /\ k \in KindsOf(e)
  BY <1>2, <1>4, OutputsApart DEF OutputSet
<1>6. ASSUME Undisputed(e, q), Made(e, q, k)
      PROVE  FALSE
  <2>1. run[r].stage = "second" /\ k = Out(r, 1)
    BY <1>1, <1>2, <1>5, <1>6 DEF Untaken, Undisputed
  <2>2. i = 2 /\ k = Outputs(f)[1] /\ k = Outputs(f)[2]
    BY <2>1 DEF Out
  <2> QED BY <1>2, <1>4, <2>2, OutputsApart
<1> QED BY <1>1, <1>2, <1>3, <1>4, <1>5, <1>6

LEMMA Written ==
    ASSUME PhasedInv, NEW r \in Runs, NEW e \in Experiments, e = Of(r), NEW q \in Questions, q = At(r),
           NEW k, Write(r, k)
    PROVE  /\ DOMAIN file' = Experiments /\ \A d \in Experiments : DOMAIN file'[d] = Questions
           /\ \A d \in Experiments, p \in Questions :
                d /= e \/ p /= q => file'[d][p] = file[d][p]
           /\ DOMAIN file'[e][q] = DOMAIN file[e][q] \cup {k}
           /\ \A j \in DOMAIN file[e][q] : j /= k => file'[e][q][j] = file[e][q][j]
           /\ file'[e][q][k] = Row(r, k)
<1> PICK row, rows : /\ row = Row(r, k)
                     /\ rows = [j \in DOMAIN file[e][q] \cup {k} |-> IF j = k THEN row ELSE file[e][q][j]]
  OBVIOUS
<1>1. DOMAIN file = Experiments /\ \A d \in Experiments : DOMAIN file[d] = Questions
  BY DEF PhasedInv, Shapes
<1>2. file' = [file EXCEPT ![e][q] = rows]
  BY DEF Write
<1>3. file'[e][q] = rows
  BY <1>1, <1>2
<1>4. /\ DOMAIN file' = Experiments /\ \A d \in Experiments : DOMAIN file'[d] = Questions
      /\ \A d \in Experiments, p \in Questions : d /= e \/ p /= q => file'[d][p] = file[d][p]
  BY <1>1, <1>2
<1> QED BY <1>3, <1>4

\* A file that is written is new, and is of what is there.
LEMMA WriteGrows ==
    ASSUME PhasedInv, NEW r \in Runs, ~Idle(r), NEW i,
           (run[r].stage = "first" /\ i = 1) \/ (run[r].stage = "second" /\ i = 2),
           NEW e, e = Of(r), NEW q, q = At(r), NEW f, f = Phase(r), NEW k, k = Outputs(f)[i],
           Write(r, k), UNCHANGED <<manifest, windows, raced>>
    PROVE  /\ Grown /\ Rises /\ Local(r)
           /\ \A d \in Experiments, p \in Questions : Undisputed(d, p)' =>
                \A j \in DOMAIN file'[d][p] : j \notin DOMAIN file[d][p] => Kept(d, p, j)'
<1>1. /\ Fits(r) /\ Untaken(r) /\ Agreed(r) /\ Sourced(r)
      /\ run[r].stage \in Busy /\ run[r].stage \notin Unbound
      /\ e \in Experiments /\ q \in Questions /\ q \in run[r].claim
      /\ f \in PhaseSet(e) /\ i \in DOMAIN Outputs(f) /\ k \in OutputSet(f) /\ k \in KindsOf(e)
      /\ Undisputed(e, q) => ~Made(e, q, k)
  BY Writing
<1>2. /\ \A d \in Experiments, p \in Questions : d /= e \/ p /= q => file'[d][p] = file[d][p]
      /\ DOMAIN file'[e][q] = DOMAIN file[e][q] \cup {k}
      /\ \A j \in DOMAIN file[e][q] : j /= k => file'[e][q][j] = file[e][q][j]
      /\ file'[e][q][k] = Row(r, k)
  BY <1>1, Written
<1>3. \A d, p : Undisputed(d, p)' <=> Undisputed(d, p)
  BY DEF Undisputed
<1>4. Grown
  <2> SUFFICES ASSUME NEW d \in Experiments, NEW p \in Questions, Undisputed(d, p),
                      NEW j \in DOMAIN file[d][p]
               PROVE  j \in DOMAIN file'[d][p] /\ file'[d][p][j] = file[d][p][j]
    BY <1>3 DEF Grown
  <2>1. CASE d = e /\ p = q
    BY <1>1, <1>2, <2>1 DEF Made
  <2>2. CASE d /= e \/ p /= q
    BY <1>2, <2>2
  <2> QED BY <2>1, <2>2
<1>5. Rises
  BY DEF Rises
<1>6. Local(r)
  <2>1. ASSUME NEW d \in Experiments, NEW p \in Questions, NEW j \in DOMAIN file'[d][p],
               j \notin DOMAIN file[d][p]
        PROVE  d = e /\ p = q /\ j = k
    BY <1>2, <2>1
  <2> QED BY <1>1, <2>1 DEF Local
<1>7. ASSUME Undisputed(e, q)
      PROVE  Kept(e, q, k)'
  <2>1. /\ run[r].read = Readings(r) /\ Supplied(e, q, f, i)
        /\ run[r].stage = "second" => Made(e, q, Outputs(f)[1])
    BY <1>1, <1>7 DEF Sourced, Out
  <2>2. manifest[e] = run[r].manifest /\ manifest[e].config \in Configs
    BY <1>1, <1>7 DEF Agreed, Fits
  <2>3. Row(r, k).manifest = run[r].manifest
        /\ Row(r, k).of = {c \in run[r].read : <<c[1], c[2]>> \in Sources(e, k)}
    BY DEF Row
  <2>4. ASSUME NEW s \in Sources(e, k)
        PROVE  /\ s = <<s[1], s[2]>> /\ s \in Named(e, f)
               /\ Stamp(s[1], q, s[2])' = Stamp(s[1], q, s[2])
               /\ s[2] = "constructor" \/ (s[1] \in Experiments /\ Made(s[1], q, s[2])')
    <3>1. s = <<s[1], s[2]>> /\ s[1] \in {e, "E1"} /\ s /= <<e, k>> /\ s[1] \in Experiments
      BY <1>1, SourcesNear, ThreeExperiments
    <3>2. s \in Named(e, f)
      BY <1>1 DEF Named
    <3>3. Made(s[1], q, s[2])' <=> Made(s[1], q, s[2])
      BY <1>1, <1>2, <3>1 DEF Made
    <3>4. Made(s[1], q, s[2]) => file'[s[1]][q][s[2]] = file[s[1]][q][s[2]]
      BY <1>1, <1>2, <3>1 DEF Made
    <3>5. Stamp(s[1], q, s[2])' = Stamp(s[1], q, s[2])
      BY <3>3, <3>4 DEF Stamp
    <3>6. s[2] = "constructor" \/ Made(s[1], q, s[2])
      BY <2>1 DEF Supplied
    <3> QED BY <3>1, <3>2, <3>3, <3>5, <3>6
  <2>5. Cited(e, q, k)' = {<<s[1], s[2], Stamp(s[1], q, s[2])>> : s \in Sources(e, k)}
    <3>1. Cited(e, q, k)' = {<<s[1], s[2], Stamp(s[1], q, s[2])'>> : s \in Sources(e, k)}
      BY DEF Cited
    <3> QED BY <2>4, <3>1
  <2>6. Readings(r) = {<<s[1], s[2], Stamp(s[1], q, s[2])>> : s \in Named(e, f)}
    BY ReadingsNamed
  <2>7. Row(r, k).of = Cited(e, q, k)'
    <3>1. ASSUME NEW c \in Row(r, k).of
          PROVE  c \in Cited(e, q, k)'
      <4>1. PICK s \in Named(e, f) : c = <<s[1], s[2], Stamp(s[1], q, s[2])>>
        BY <2>1, <2>3, <2>6, <3>1
      <4>2. s = <<s[1], s[2]>> /\ c[1] = s[1] /\ c[2] = s[2]
        BY <1>1, <4>1, NamedNear
      <4>3. <<c[1], c[2]>> \in Sources(e, k)
        BY <2>3, <3>1
      <4>4. s \in Sources(e, k)
        BY <4>2, <4>3
      <4> QED BY <2>5, <4>1, <4>4
    <3>2. ASSUME NEW c \in Cited(e, q, k)'
          PROVE  c \in Row(r, k).of
      <4>1. PICK s \in Sources(e, k) : c = <<s[1], s[2], Stamp(s[1], q, s[2])>>
        BY <2>5, <3>2
      <4>2. c[1] = s[1] /\ c[2] = s[2] /\ s = <<s[1], s[2]>> /\ s \in Named(e, f)
        BY <2>4, <4>1
      <4>3. c \in run[r].read
        BY <2>1, <2>6, <4>1, <4>2
      <4>4. <<c[1], c[2]>> \in Sources(e, k)
        BY <4>2
      <4> QED BY <2>3, <4>3, <4>4
    <3> QED BY <3>1, <3>2
  <2>8. BoundTo(manifest[e], e, q, k)'
    <3>1. Made(e, q, k)' /\ file'[e][q][k] = Row(r, k)
      BY <1>1, <1>2 DEF Made
    <3>2. file'[e][q][k].manifest = manifest'[e]
      BY <2>2, <2>3, <3>1
    <3> QED BY <2>7, <3>1, <3>2 DEF BoundTo
  <2>9. SourcesMade(e, q, k)'
    BY <2>4 DEF SourcesMade
  <2> QED BY <1>1, <2>2, <2>8, <2>9 DEF Kept
<1>8. ASSUME NEW d \in Experiments, NEW p \in Questions, Undisputed(d, p)',
             NEW j \in DOMAIN file'[d][p], j \notin DOMAIN file[d][p]
      PROVE  Kept(d, p, j)'
  <2>1. d = e /\ p = q /\ j = k
    BY <1>2, <1>8
  <2> QED BY <1>3, <1>7, <1>8, <2>1
<1> QED BY <1>4, <1>5, <1>6, <1>8

LEMMA WriteKeeps ==
    ASSUME PhasedInv, NEW r \in Runs, ~Idle(r), NEW i,
           (run[r].stage = "first" /\ i = 1) \/ (run[r].stage = "second" /\ i = 2),
           NEW k, k = Outputs(Phase(r))[i], Write(r, k),
           UNCHANGED <<manifest, windows, report, calls, counts>>,
           NEW row, Becomes(r, row), RunOK(r)', NewlyClaims(r), DOMAIN run'[r] = Fields
    PROVE  PhasedInv'
<1> PICK e, q, f : e = Of(r) /\ q = At(r) /\ f = Phase(r)
  OBVIOUS
<1>1. e \in Experiments /\ q \in Questions
  BY Writing
<1>2. /\ Grown /\ Rises /\ Local(r)
      /\ \A d \in Experiments, p \in Questions : Undisputed(d, p)' =>
           \A j \in DOMAIN file'[d][p] : j \notin DOMAIN file[d][p] => Kept(d, p, j)'
  BY WriteGrows DEF counts
<1>3. DOMAIN run' = Runs /\ \A s \in Runs \ {r} : run'[s] = run[s]
  BY Became DEF PhasedInv
<1>4. Shapes'
  <2>1. DOMAIN file' = Experiments /\ \A d \in Experiments : DOMAIN file'[d] = Questions
    BY <1>1, Written
  <2>2. \A s \in Runs : DOMAIN run'[s] = Fields
    BY <1>3, Counts
  <2> QED BY <1>3, <2>1, <2>2 DEF PhasedInv, Shapes, calls, counts
<1> QED BY <1>2, <1>3, <1>4, StepKeeps DEF NewlyClaims

\* The run is done with the question once its last file is written.
LEMMA LastWritten ==
    ASSUME PhasedInv, NEW r \in Runs, ~Idle(r), NEW i,
           (run[r].stage = "first" /\ i = 1) \/ (run[r].stage = "second" /\ i = 2),
           NEW k, k = Outputs(Phase(r))[i], Write(r, k),
           UNCHANGED <<manifest, windows, report, calls, counts>>,
           NEW stage, stage = "open" \/ (stage = "make" /\ Collects(Phase(r)) /\ i = 1),
           QuestionDone(r, stage)
    PROVE  PhasedInv'
<1> PICK e, q, f : e = Of(r) /\ q = At(r) /\ f = Phase(r)
  OBVIOUS
<1>1. /\ Fits(r) /\ run[r].stage \notin Unbound /\ e \in Experiments /\ q \in Questions
      /\ run[r].claim \subseteq Questions
  BY Writing DEF Fits
<1>2. Grown /\ Rises
  BY WriteGrows DEF counts
<1>3. \A p \in run[r].claim \ {q} : \A j \in OutputSet(f) :
        j \in DOMAIN file'[e][p] => j \in DOMAIN file[e][p]
  BY <1>1, Written
<1>4. stage = "make" => Collects(f) /\ run[r].left \subseteq run[r].claim
  BY <1>1 DEF Fits
<1>5. RunOK(r)' /\ NewlyClaims(r) /\ DOMAIN run'[r] = Fields
  BY <1>1, <1>2, <1>3, <1>4, TurnOver
<1>6. \E row : Becomes(r, row)
  BY DEF QuestionDone, PhaseDone, Ends
<1> QED BY <1>5, <1>6, WriteKeeps

LEMMA WriteFirstKeeps ==
    ASSUME PhasedInv, NEW r \in Runs, WriteFirst(r)
    PROVE  PhasedInv'
<1> PICK e, q, f, k, stamp :
      e = Of(r) /\ q = At(r) /\ f = Phase(r) /\ k = Outputs(f)[1] /\ stamp = Row(r, k).stamp
  OBVIOUS
<1>1. /\ ~Idle(r) /\ run[r].stage = "first"
      /\ UNCHANGED <<manifest, windows, report, calls, counts>>
  BY DEF WriteFirst, In
<1>2. \/ Ends(r) /\ UNCHANGED file
      \/ Write(r, k) /\ Len(Outputs(f)) = 1 /\ QuestionDone(r, IF Collects(f) THEN "make" ELSE "open")
      \/ /\ Write(r, k) /\ Len(Outputs(f)) /= 1
         /\ Becomes(r, [run[r] EXCEPT !.stage = "second", !.read = Knows(r, k, stamp)])
  BY DEF WriteFirst, Out
<1>3. CASE Ends(r) /\ UNCHANGED file
  BY <1>1, <1>3, EndKeeps DEF disk, calls, counts
<1>4. CASE Write(r, k) /\ QuestionDone(r, IF Collects(f) THEN "make" ELSE "open")
  <2> PICK stage : stage = IF Collects(f) THEN "make" ELSE "open"
    OBVIOUS
  <2>1. stage = "open" \/ (stage = "make" /\ Collects(f))
    OBVIOUS
  <2>2. QuestionDone(r, stage)
    BY <1>4
  <2> QED BY <1>1, <1>4, <2>1, <2>2, LastWritten
<1>5. CASE /\ Write(r, k) /\ Len(Outputs(f)) /= 1
           /\ Becomes(r, [run[r] EXCEPT !.stage = "second", !.read = Knows(r, k, stamp)])
  <2>1. /\ Fits(r) /\ Untaken(r) /\ Agreed(r) /\ Sourced(r) /\ DOMAIN run[r] = Fields
        /\ e \in Experiments /\ q \in Questions /\ q \in run[r].claim
        /\ f \in PhaseSet(e) /\ f \in PhaseNames /\ 1 \in DOMAIN Outputs(f)
        /\ k \in OutputSet(f) /\ k \in KindsOf(e) /\ run[r].claim \subseteq Questions
        /\ run[r].stage \in Busy
    BY <1>1, Writing DEF Fits
  <2>2. Grown /\ Rises /\ raced' = raced
    BY <1>1, <1>5, WriteGrows DEF counts
  <2>3. /\ \A d \in Experiments, p \in Questions : d /= e \/ p /= q => file'[d][p] = file[d][p]
        /\ DOMAIN file'[e][q] = DOMAIN file[e][q] \cup {k}
        /\ \A j \in DOMAIN file[e][q] : j /= k => file'[e][q][j] = file[e][q][j]
        /\ file'[e][q][k] = Row(r, k)
    BY <1>5, <2>1, Written
  <2>4. run'[r] = [run[r] EXCEPT !.stage = "second", !.read = Knows(r, k, stamp)]
    BY <1>5, Became DEF PhasedInv
  <2>5. /\ DOMAIN run'[r] = Fields /\ run'[r].of = run[r].of
        /\ run'[r].manifest = run[r].manifest /\ run'[r].todo = run[r].todo
        /\ run'[r].left = run[r].left /\ run'[r].claim = run[r].claim
        /\ run'[r].stage = "second" /\ run'[r].read = Knows(r, k, stamp)
    BY <2>1, <2>4 DEF Fields
  <2>6. Of(r)' = e /\ At(r)' = q /\ Phase(r)' = f /\ Out(r, 1)' = k
    BY <2>5 DEF Of, At, Phase, Out
  <2>7. f \in {"construct", "pack", "qa"}
    BY <1>5, <2>1, OutputsListed DEF PhaseNames
  <2>8. Fits(r)'
    BY <2>1, <2>5, <2>6, <2>7 DEF Fits, Busy, Unbound
  <2>9. Agreed(r)'
    BY <1>1, <2>1, <2>2, <2>5, ManifestsAgree DEF Fits, Unbound
  <2>10. Untaken(r)'
    <3> SUFFICES ASSUME NEW p \in run[r].claim, raced[e][p] = 0, NEW j \in OutputSet(f),
                        j \in DOMAIN file'[e][p]
                 PROVE  p = q /\ j = k
      BY <2>2, <2>5, <2>6 DEF Untaken, Made
    <3>1. j \notin DOMAIN file[e][p]
      BY <1>1, <2>1 DEF Untaken, Made
    <3> QED BY <2>1, <2>3, <3>1
  <2>11. Counted(r)'
    BY <2>5 DEF Counted
  <2>12. Sourced(r)'
    <3> SUFFICES ASSUME Undisputed(e, q)'
                 PROVE  /\ Knows(r, k, stamp) = Readings(r)'
                        /\ \A i \in DOMAIN Outputs(f) : Supplied(e, q, f, i)'
                        /\ Made(e, q, k)'
      BY <2>5, <2>6 DEF Sourced
    <3>1. Undisputed(e, q)
      BY <2>2 DEF Undisputed
    <3>2. run[r].read = Readings(r) /\ \A i \in DOMAIN Outputs(f) : Supplied(e, q, f, i)
      BY <1>1, <2>1, <3>1 DEF Sourced
    <3>3. Made(e, q, k)'
      BY <2>3 DEF Made
    <3>4. ASSUME NEW d \in Experiments, NEW j
          PROVE  /\ Made(d, q, j) => Made(d, q, j)'
                 /\ <<d, j>> /= <<e, k>> => Stamp(d, q, j)' = Stamp(d, q, j)
      <4>1. CASE d = e
        <5>1. Made(d, q, j) => Made(d, q, j)'
          BY <2>3, <4>1 DEF Made
        <5>2. ASSUME j /= k
              PROVE  Stamp(d, q, j)' = Stamp(d, q, j)
          <6>1. Made(d, q, j)' <=> Made(d, q, j)
            BY <2>3, <4>1, <5>2 DEF Made
          <6>2. Made(d, q, j) => file'[d][q][j] = file[d][q][j]
            BY <2>3, <4>1, <5>2 DEF Made
          <6> QED BY <1>1, <6>1, <6>2 DEF Stamp
        <5> QED BY <4>1, <5>1, <5>2
      <4>2. CASE d /= e
        <5>1. file'[d][q] = file[d][q]
          BY <2>1, <2>3, <4>2
        <5> QED BY <1>1, <5>1 DEF Made, Stamp
      <4> QED BY <4>1, <4>2
    <3>5. \A i \in DOMAIN Outputs(f) : Supplied(e, q, f, i)'
      BY <3>2, <3>4 DEF Supplied
    <3>6. <<e, k>> \in Named(e, f)
      <4>1. /\ 2 \in DOMAIN Outputs("construct") /\ 2 \in DOMAIN Outputs("pack")
            /\ 2 \in DOMAIN Outputs("qa")
            /\ Outputs("construct")[2] = "construction" /\ Outputs("pack")[2] = "pack"
            /\ Outputs("qa")[2] = "qa" /\ Outputs("construct")[1] = "contexts"
            /\ Outputs("pack")[1] = "prompts" /\ Outputs("qa")[1] = "receipts"
        BY OutputsListed
      <4>2. e \in {"E1", "E2", "E7"}
        BY <2>1, ThreeExperiments
      <4>3. f = "construct" => e = "E7"
        BY <2>1, <4>2, PhaseSets
      <4>4. <<e, k>> \in Sources(e, Outputs(f)[2])
        <5>1. CASE f = "construct"
          BY <4>1, <4>2, <4>3, <5>1, SourcesListed
        <5>2. CASE f = "pack"
          BY <4>1, <4>2, <5>2, SourcesListed
        <5>3. CASE f = "qa"
          BY <4>1, <4>2, <5>3, SourcesListed
        <5> QED BY <2>7, <5>1, <5>2, <5>3
      <4>5. 2 \in DOMAIN Outputs(f)
        BY <2>7, <4>1
      <4> QED BY <4>4, <4>5 DEF Named
    <3>7. stamp = Stamp(e, q, k)'
      <4>1. k /= "constructor"
        BY <2>1, OutputsApart
      <4> QED BY <2>3, <3>3, <4>1 DEF Stamp
    <3>8. ASSUME NEW s \in Named(e, f), s /= <<e, k>>
          PROVE  Stamp(s[1], q, s[2])' = Stamp(s[1], q, s[2])
      <4>1. s = <<s[1], s[2]>> /\ s[1] \in Experiments
        BY <2>1, NamedNear, ThreeExperiments
      <4> QED BY <3>4, <3>8, <4>1
    <3>9. Knows(r, k, stamp) = Readings(r)'
      BY <2>1, <2>5, <3>2, <3>6, <3>7, <3>8, KnowsAll
    <3> QED BY <3>3, <3>5, <3>9
  <2>13. RunOK(r)' /\ NewlyClaims(r)
    BY <1>1, <2>5, <2>8, <2>9, <2>10, <2>11, <2>12 DEF RunOK, NewlyClaims
  <2> QED BY <1>1, <1>5, <2>5, <2>13, WriteKeeps
<1> QED BY <1>2, <1>3, <1>4, <1>5

LEMMA WriteSecondKeeps ==
    ASSUME PhasedInv, NEW r \in Runs, WriteSecond(r)
    PROVE  PhasedInv'
<1> PICK k : k = Outputs(Phase(r))[2]
  OBVIOUS
<1>1. /\ ~Idle(r) /\ run[r].stage = "second"
      /\ UNCHANGED <<manifest, windows, report, calls, counts>>
      /\ (Ends(r) /\ UNCHANGED file) \/ (Write(r, k) /\ QuestionDone(r, "open"))
  BY DEF WriteSecond, In, Out
<1>2. CASE Ends(r) /\ UNCHANGED file
  BY <1>1, <1>2, EndKeeps DEF disk, calls, counts
<1>3. CASE Write(r, k) /\ QuestionDone(r, "open")
  BY <1>1, <1>3, LastWritten
<1> QED BY <1>1, <1>2, <1>3

-----------------------------------------------------------------------------
(* The theorems.                                                           *)

LEMMA PhasedInit == Init => PhasedInv
<1> SUFFICES ASSUME Init PROVE PhasedInv
  OBVIOUS
<1>1. \A r \in Runs : run[r] = NoRun
  BY DEF Init
<1>2. Shapes
  <2>1. \A r \in Runs : DOMAIN run[r] = Fields
    BY <1>1 DEF NoRun, Fields
  <2> QED BY <2>1 DEF Init, Shapes
<1>3. Grounded
  BY DEF Init, Grounded
<1>4. \A r \in Runs : RunOK(r)
  BY <1>1 DEF RunOK, Idle
<1>5. \A r, s \in Runs : Apart(r, s)
  BY <1>1 DEF Apart, Idle
<1>6. \A e \in Experiments, q \in Questions : Filed(e, q)
  BY DEF Init, Filed
<1> QED BY <1>2, <1>3, <1>4, <1>5, <1>6 DEF PhasedInv

LEMMA PhasedStep == PhasedInv /\ [Next]_vars => PhasedInv'
<1> SUFFICES ASSUME PhasedInv, [Next]_vars PROVE PhasedInv'
  OBVIOUS
<1>1. CASE UNCHANGED vars
  <2>1. /\ manifest' = manifest /\ file' = file /\ windows' = windows /\ report' = report
        /\ sent' = sent /\ posed' = posed /\ raced' = raced /\ run' = run
    BY <1>1 DEF vars, disk, calls, counts
  <2>2. Grown /\ Rises
    BY <2>1 DEF Grown, Rises, Undisputed
  <2>3. ASSUME NEW r \in Runs
        PROVE  RunOK(r)'
    <3>1. CASE Idle(r)
      BY <2>1, <3>1 DEF RunOK, Idle
    <3>2. CASE ~Idle(r)
      <4> PICK e, q, f : e = Of(r) /\ q = At(r) /\ f = Phase(r)
        OBVIOUS
      <4>1. Fits(r) /\ Untaken(r) /\ Counted(r) /\ Agreed(r) /\ Sourced(r)
        BY <3>2, Counts
      <4>2. Of(r)' = e /\ At(r)' = q /\ Phase(r)' = f /\ \A i : Out(r, i)' = Out(r, i)
        BY <2>1 DEF Of, At, Phase, Out
      <4>3. Fits(r)' /\ Untaken(r)' /\ Counted(r)'
        BY <2>1, <4>1, <4>2 DEF Fits, Untaken, Counted, Made
      <4>4. Agreed(r)'
        BY <2>1, <4>1, <4>2 DEF Agreed, Undisputed
      <4>5. Sourced(r)'
        <5> SUFFICES ASSUME run[r].stage \in Busy, Undisputed(e, q)'
                     PROVE  /\ run[r].read = Readings(r)'
                            /\ \A i \in DOMAIN Outputs(f) : Supplied(e, q, f, i)'
                            /\ run[r].stage = "second" => Made(e, q, Outputs(f)[1])'
          BY <2>1, <4>2 DEF Sourced, Out
        <5>1. Undisputed(e, q)
          BY <2>1 DEF Undisputed
        <5>2. run[r].read = Readings(r)
          BY <4>1, <5>1 DEF Sourced
        <5>3. f = "construct" => windows'[q] = windows[q]
          BY <2>1
        <5> QED BY <2>1, <2>2, <4>1, <4>3, <5>2, <5>3, ReadingsStay DEF PhasedInv
      <4> QED BY <4>3, <4>4, <4>5, <4>1 DEF RunOK
    <3> QED BY <3>1, <3>2
  <2>4. Shapes'
    BY <2>1 DEF PhasedInv, Shapes
  <2>5. Grounded'
    BY <2>1, <2>2, GroundedStays DEF PhasedInv
  <2>6. \A e \in Experiments, q \in Questions : Filed(e, q)'
    BY <2>1, <2>2, FiledStays DEF PhasedInv
  <2>7. \A r, s \in Runs : r /= s => Apart(r, s)'
    BY <2>1 DEF PhasedInv, Apart, Idle, Of, Phase
  <2> QED BY <2>3, <2>4, <2>5, <2>6, <2>7 DEF PhasedInv
<1>2. CASE Next
  <2>1. PICK r \in Runs :
          \/ \E e \in Experiments, c \in Configs : StartAll(r, e, c) \/ StartPhase(r, e, c)
          \/ Step(r) \/ CallFails(r) \/ Kill(r)
    BY <1>2 DEF Next
  <2>2. CASE \E e \in Experiments, c \in Configs : StartAll(r, e, c) \/ StartPhase(r, e, c)
    BY <2>2, StartsKeep
  <2>3. CASE BindSource(r) \/ ReadInputs(r) \/ BindOwn(r)
    BY <2>3, BindSourceKeeps, ReadInputsKeeps, BindOwnKeeps
  <2>4. CASE VerifyQuestion(r) \/ ListMissing(r) \/ MakeOne(r)
    BY <2>4, VerifyQuestionKeeps, ListMissingKeeps, MakeOneKeeps
  <2>5. CASE BeginWindows(r) \/ BeginConstruct(r) \/ BeginPack(r) \/ BeginQA(r)
    BY <2>5, BeginsKeeps
  <2>6. CASE AskConstructor(r) \/ AskReaderOrJudge(r) \/ HearAnswer(r) \/ AllHeard(r)
    BY <2>6, CallsKeep
  <2>7. CASE KeepWindow(r) \/ Report(r)
    BY <2>7, KeepWindowKeeps, ReportKeeps
  <2>8. CASE WriteFirst(r) \/ WriteSecond(r)
    BY <2>8, WriteFirstKeeps, WriteSecondKeeps
  <2>9. CASE RefuseQuestion(r) \/ CallFails(r) \/ Kill(r)
    BY <2>9, StopsKeep
  <2> QED BY <2>1, <2>2, <2>3, <2>4, <2>5, <2>6, <2>7, <2>8, <2>9 DEF Step
<1> QED BY <1>1, <1>2

THEOREM PhasedInvariant == Spec => []PhasedInv
  BY PhasedInit, PhasedStep, PTL DEF Spec

\* Every file and report of a question that two runs did not take at the same
\* time was made from what is on disk, whatever runs are killed, restarted or
\* begun beside each other.
THEOREM EvidenceStaysBound == Spec => []EvidenceBound
<1>1. PhasedInv => EvidenceBound
  BY ThreeExperiments DEF PhasedInv, Grounded, Kept, Filed, EvidenceBound
<1> QED BY <1>1, PhasedInvariant, PTL

\* No call is made for a question whose answers are on disk, or for a window
\* whose receipt is, but for the questions that two runs took at the same time.
THEOREM NothingAskedAgain == Spec => NeverAskedAgain
<1>1. PhasedInv /\ [Next]_vars => [AsksOnlyNew]_vars
  <2> SUFFICES ASSUME PhasedInv, [Next]_vars, ~UNCHANGED vars PROVE AsksOnlyNew
    OBVIOUS
  <2>1. PICK r \in Runs :
          \/ \E e \in Experiments, c \in Configs : StartAll(r, e, c) \/ StartPhase(r, e, c)
          \/ Step(r) \/ CallFails(r) \/ Kill(r)
    BY DEF Next
  <2>2. CASE AskReaderOrJudge(r)
    <3> PICK e, q : e = Of(r) /\ q = At(r)
      OBVIOUS
    <3>1. /\ ~Idle(r) /\ run[r].stage = "ask" /\ Phase(r) = "qa" /\ posed' = posed
          /\ sent' = [sent EXCEPT ![e][q] = @ + 1]
      BY <2>2 DEF AskReaderOrJudge, In
    <3>2. Untaken(r) /\ q \in run[r].claim /\ e \in Experiments /\ q \in Questions
      BY <3>1, Counts, Positioned DEF Fits, Busy
    <3>3. Made(e, q, "receipts") => raced[e][q] /= 0
      BY <3>1, <3>2, OutputSets DEF Untaken
    <3>4. raced[e][q] \in Nat /\ sent \in [Experiments -> [Questions -> Nat]]
          /\ posed \in [Questions -> Nat]
      BY <3>2 DEF PhasedInv, Shapes
    <3>5. \A d \in Experiments, p \in Questions : d /= e \/ p /= q => sent'[d][p] = sent[d][p]
      BY <3>1, <3>2, <3>4
    <3>6. \A d \in Experiments, p \in Questions : sent[d][p] \in Nat
      BY <3>4
    <3>7. \A p \in Questions : posed[p] \in Nat
      BY <3>4
    <3>8. \A d \in Experiments, p \in Questions :
            sent'[d][p] > sent[d][p] => ~Made(d, p, "receipts") \/ raced[d][p] > 0
      BY <3>3, <3>4, <3>5, <3>6
    <3> QED BY <3>1, <3>7, <3>8 DEF AsksOnlyNew
  <2>3. CASE AskConstructor(r)
    <3> PICK q : q = At(r)
      OBVIOUS
    <3>1. /\ ~Idle(r) /\ run[r].stage = "ask" /\ Phase(r) = "construct" /\ sent' = sent
          /\ posed' = [posed EXCEPT ![q] = @ + 1] /\ run[r].heard < Windows
      BY <2>3 DEF AskConstructor, In
    <3>2. /\ Untaken(r) /\ Counted(r) /\ q \in run[r].claim /\ Of(r) \in Experiments
          /\ q \in Questions /\ Phase(r) \in PhaseSet(Of(r))
      BY <3>1, Counts, Positioned DEF Fits, Busy
    <3>3. Of(r) = "E7"
      BY <3>1, <3>2, ThreeExperiments, PhaseSets
    <3>4. raced["E7"][q] = 0 => ~Made("E7", q, "construction") /\ run[r].heard = windows[q].kept
      BY <3>1, <3>2, <3>3, OutputSets DEF Untaken, Counted
    <3>5. raced["E7"][q] \in Nat /\ sent \in [Experiments -> [Questions -> Nat]]
          /\ posed \in [Questions -> Nat]
      BY <3>2, <3>3 DEF PhasedInv, Shapes
    <3>6. \A p \in Questions : p /= q => posed'[p] = posed[p]
      BY <3>1, <3>2, <3>5
    <3>7. \A d \in Experiments, p \in Questions : sent[d][p] \in Nat
      BY <3>5
    <3>8. \A p \in Questions : posed[p] \in Nat
      BY <3>5
    <3>9. \A p \in Questions : posed'[p] > posed[p] =>
            \/ windows[p].kept < Windows /\ ~Made("E7", p, "construction")
            \/ raced["E7"][p] > 0
      BY <3>1, <3>4, <3>5, <3>6, <3>8
    <3> QED BY <3>1, <3>7, <3>9 DEF AsksOnlyNew
  <2>4. CASE sent' = sent /\ posed' = posed
    <3>1. sent \in [Experiments -> [Questions -> Nat]] /\ posed \in [Questions -> Nat]
      BY DEF PhasedInv, Shapes
    <3>2. \A d \in Experiments, p \in Questions : ~(sent[d][p] > sent[d][p])
      BY <3>1
    <3>3. \A p \in Questions : ~(posed[p] > posed[p])
      BY <3>1
    <3> QED BY <2>4, <3>2, <3>3 DEF AsksOnlyNew
  <2>5. AskReaderOrJudge(r) \/ AskConstructor(r) \/ (sent' = sent /\ posed' = posed)
    BY <2>1 DEF Step, StartAll, StartPhase, Start, BindSource, BindOwn, Binds, ReadInputs,
       VerifyQuestion, ListMissing, RefuseQuestion, MakeOne, BeginWindows, BeginConstruct,
       BeginPack, BeginQA, Begins, HearAnswer, AllHeard, KeepWindow, WriteFirst, WriteSecond,
       Report, CallFails, Kill, calls
  <2> QED BY <2>2, <2>3, <2>4, <2>5
<1> QED BY <1>1, PhasedInvariant, PTL DEF Spec, NeverAskedAgain

=============================================================================
