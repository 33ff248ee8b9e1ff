--------------------------- MODULE WorkQueueProofs ---------------------------
(* Machine-checked facts about the work queue, for every set of workers,    *)
(* items, sources and plans, every lease time and every attempt limit.     *)
EXTENDS WorkQueue, TLAPS

\* A leased row names its holder.
SoundRows ==
    {r \in Rows : r.status = "leased" => r.worker /= None /\ r.token /= None}

\* A worker past the staging has a plan in hand.
SoundJobs ==
    {j \in Jobs : j.phase \in {"staged", "apply", "stale"} => j.plan \in Plans}

\* The type invariant with the part about plans that makes it inductive.
Sound ==
    /\ items \in [Works -> SoundRows]
    /\ job \in [Workers -> SoundJobs \cup {NoJob}]
    /\ sources \in [Sources -> [state : {"absent", "pending", "accepted", "rejected"},
                                trust : {"unreviewed", "untrusted"}]]
    /\ effects \in [Works -> SUBSET Effects]
    /\ refuted \subseteq Works \X Effects
    /\ vectors \subseteq Works \X Effects
    /\ stale \subseteq Works
    /\ published \in [Works -> SUBSET ((1..Actions) \X Plans)]

\* A worker that holds a job has one of an item.
LEMMA BusyJob ==
    ASSUME job \in [Workers -> SoundJobs \cup {NoJob}], NEW k \in Workers, job[k] /= NoJob
    PROVE  job[k] \in SoundJobs /\ job[k] \in Jobs /\ job[k].work \in Works
BY DEF SoundJobs, Jobs

\* Every UPDATE of the queue's table writes a sound row.
LEMMA RowsStaySound ==
    ASSUME NEW r \in SoundRows
    PROVE  /\ New("pending", None) \in SoundRows
           /\ New("cancelled", "source_untrusted") \in SoundRows
           /\ \A k \in Workers : r.attempts < MaxAttempts => Leased(r, k) \in SoundRows
           /\ \A o \in {"completed", "applied", "stale_noop"} : Done(r, o) \in SoundRows
           /\ \A p \in Plans : Staged(r, p) \in SoundRows
           /\ \A d \in 0..RetryDelay : Retried(r, d) \in SoundRows
           /\ LeaseExpired(r) \in SoundRows
           /\ Cancelled(r) \in SoundRows
           /\ Older(r) \in SoundRows
<1> USE WorkAssumption
<1>1. /\ New("pending", None) \in SoundRows
      /\ New("cancelled", "source_untrusted") \in SoundRows
  BY DEF SoundRows, Rows, Statuses, Outcomes, Row, New
<1>2. \A k \in Workers : r.attempts < MaxAttempts => Leased(r, k) \in SoundRows
  BY DEF SoundRows, Rows, Statuses, Outcomes, Row, Leased
<1>3. \A o \in {"completed", "applied", "stale_noop"} : Done(r, o) \in SoundRows
  BY DEF SoundRows, Rows, Statuses, Outcomes, Row, Done
<1>4. \A p \in Plans : Staged(r, p) \in SoundRows
  BY DEF SoundRows, Rows, Statuses, Outcomes, Row, Staged
<1>5. \A d \in 0..RetryDelay : Retried(r, d) \in SoundRows
  BY DEF SoundRows, Rows, Statuses, Outcomes, Row, Retried
<1>6. LeaseExpired(r) \in SoundRows
  BY DEF SoundRows, Rows, Statuses, Outcomes, Row, LeaseExpired
<1>7. Cancelled(r) \in SoundRows
  BY DEF SoundRows, Rows, Statuses, Outcomes, Row, Cancelled
<1>8. Older(r) \in SoundRows
  BY DEF SoundRows, Rows, Statuses, Outcomes, Row, Older, Less
<1> QED BY <1>1, <1>2, <1>3, <1>4, <1>5, <1>6, <1>7, <1>8

\* The sweep of a claim writes sound rows and takes no version back.
LEMMA SweepSound ==
    ASSUME items \in [Works -> SoundRows]
    PROVE  Sweep \in [Works -> SoundRows]
BY RowsStaySound DEF Sweep

\* What a worker keeps of its lease, whether it hears of a commit or not, is sound.
LEMMA SettleSound ==
    ASSUME job \in [Workers -> SoundJobs \cup {NoJob}], NEW k \in Workers, job[k] /= NoJob,
           NEW heard \in BOOLEAN, Settle(k, heard)
    PROVE  job' \in [Workers -> SoundJobs \cup {NoJob}]
<1>1. job[k] \in Jobs
  BY BusyJob
<1> QED BY <1>1 DEF Settle, SoundJobs, Jobs

\* So is what it keeps when it goes on with a plan.
LEMMA AdvanceSound ==
    ASSUME job \in [Workers -> SoundJobs \cup {NoJob}], NEW k \in Workers, job[k] /= NoJob,
           NEW plan \in Plans, NEW phase \in {"staged", "apply", "stale"},
           NEW version \in Nat, NEW next \in 1..(Actions + 1),
           Advance(k, plan, phase, version, next)
    PROVE  job' \in [Workers -> SoundJobs \cup {NoJob}]
<1>1. job[k] \in Jobs
  BY BusyJob
<1> QED BY <1>1 DEF Advance, SoundJobs, Jobs

\* Every operation of the queue, the workers and the governance writes rows of
\* the declared types.
LEMMA StepSound == Sound /\ [Next]_vars => Sound'
<1> SUFFICES ASSUME Sound, [Next]_vars PROVE Sound'
  OBVIOUS
<1> USE WorkAssumption
<1>0. /\ items \in [Works -> SoundRows]
      /\ job \in [Workers -> SoundJobs \cup {NoJob}]
  BY DEF Sound
<1>1. ASSUME NEW w \in Works, NEW trust \in {"unreviewed", "untrusted"}, IngestSource(w, trust)
      PROVE  Sound'
  BY <1>0, <1>1, RowsStaySound DEF IngestSource, Sound
<1>2. ASSUME NEW w \in Works, EnqueueWork(w) PROVE Sound'
  BY <1>0, <1>2, RowsStaySound DEF EnqueueWork, Sound
<1>3. ASSUME NEW s \in Sources, NEW state \in {"pending", "accepted"}, ReviewSource(s, state)
      PROVE  Sound'
  BY <1>3 DEF ReviewSource, Sound
<1>4. ASSUME NEW s \in Sources, RejectSource(s) PROVE Sound'
  <2>1. items' \in [Works -> SoundRows]
    BY <1>0, <1>4, RowsStaySound DEF RejectSource
  <2>2. sources' \in [Sources -> [state : {"absent", "pending", "accepted", "rejected"},
                                  trust : {"unreviewed", "untrusted"}]]
    BY <1>4 DEF RejectSource, Sound
  <2> QED BY <1>4, <2>1, <2>2 DEF RejectSource, Sound
<1>5. ASSUME NEW w \in Works, InputsChange(w) PROVE Sound'
  BY <1>5 DEF InputsChange, Sound
<1>6. ASSUME NEW k \in Workers, NEW w \in Works, ClaimWork(k, w) PROVE Sound'
  <2>1. Sweep[w] \in SoundRows /\ Leased(Sweep[w], k) \in SoundRows
    BY <1>0, <1>6, SweepSound, RowsStaySound DEF ClaimWork, Candidate
  <2>2. items' \in [Works -> SoundRows]
    BY <1>0, <1>6, <2>1, SweepSound DEF ClaimWork
  <2>3. Leased(Sweep[w], k).attempts \in 1..MaxAttempts
    BY <2>1, <1>6 DEF ClaimWork, Candidate, Leased, Row, SoundRows, Rows
  <2>4. Job(w, Leased(Sweep[w], k), "claimed", items[w].plan, 1) \in SoundJobs
    BY <1>0, <2>1, <2>3 DEF Job, SoundJobs, Jobs, SoundRows, Rows
  <2> QED BY <1>6, <2>2, <2>4 DEF ClaimWork, Sound
<1>7. ASSUME NEW k \in Workers, ClaimNothing(k) PROVE Sound'
  BY <1>0, <1>7, SweepSound DEF ClaimNothing, Sound
<1>8. ASSUME NEW k \in Workers, NEW found \in SUBSET Effects, NEW heard \in BOOLEAN,
             ApplyExtraction(k, found, heard)
      PROVE  Sound'
  <2>1. job[k].work \in Works /\ job' \in [Workers -> SoundJobs \cup {NoJob}]
    BY <1>0, <1>8, BusyJob, SettleSound DEF ApplyExtraction, Working
  <2>2. items' \in [Works -> SoundRows]
    BY <1>0, <1>8, RowsStaySound DEF ApplyExtraction
  <2>3. effects' \in [Works -> SUBSET Effects]
    BY <1>8, <2>1 DEF ApplyExtraction, MemoryEffects, Sound
  <2> QED BY <1>8, <2>1, <2>2, <2>3 DEF ApplyExtraction, Sound
<1>9. ASSUME NEW k \in Workers, NEW heard \in BOOLEAN, ApplyEmbedding(k, heard) PROVE Sound'
  <2>1. job[k].work \in Works /\ job' \in [Workers -> SoundJobs \cup {NoJob}]
    BY <1>0, <1>9, BusyJob, SettleSound DEF ApplyEmbedding, Working
  <2>2. items' \in [Works -> SoundRows]
    BY <1>0, <1>9, <2>1, RowsStaySound DEF ApplyEmbedding
  <2>3. vectors' \subseteq Works \X Effects
    BY <1>9, <2>1 DEF ApplyEmbedding, Working, Sound
  <2> QED BY <1>9, <2>1, <2>2, <2>3 DEF ApplyEmbedding, Sound
<1>10. ASSUME NEW k \in Workers, NEW heard \in BOOLEAN, CompleteArtifact(k, heard) PROVE Sound'
  <2>1. job[k].work \in Works /\ job' \in [Workers -> SoundJobs \cup {NoJob}]
    BY <1>0, <1>10, BusyJob, SettleSound DEF CompleteArtifact, Working
  <2> QED BY <1>0, <1>10, <2>1, RowsStaySound DEF CompleteArtifact, Sound
<1>11. ASSUME NEW k \in Workers, NEW delay \in 0..RetryDelay, NEW heard \in BOOLEAN,
              FailWork(k, delay, heard)
       PROVE  Sound'
  <2>1. job[k].work \in Works /\ job' \in [Workers -> SoundJobs \cup {NoJob}]
    BY <1>0, <1>11, BusyJob, SettleSound DEF FailWork
  <2> QED BY <1>0, <1>11, <2>1, RowsStaySound DEF FailWork, Sound
<1>12. ASSUME NEW k \in Workers, LeaseLost(k) \/ Crash(k) PROVE Sound'
  BY <1>0, <1>12 DEF LeaseLost, Crash, Sound
<1>13. ASSUME NEW k \in Workers, NEW plan \in Plans, NEW heard \in BOOLEAN,
              StagePlan(k, plan, heard)
       PROVE  Sound'
  <2>1. job[k] /= NoJob /\ job[k].work \in Works /\ job[k].version + 1 \in Nat
    BY <1>0, <1>13, BusyJob DEF StagePlan, Working, Jobs
  <2>2. job' \in [Workers -> SoundJobs \cup {NoJob}]
    <3>1. CASE heard
      <4>1. Advance(k, plan, "staged", job[k].version + 1, 1)
        BY <1>13, <3>1 DEF StagePlan
      <4> QED BY <1>0, <2>1, <4>1, AdvanceSound
    <3>2. CASE ~ heard
      BY <1>0, <1>13, <2>1, <3>2, SettleSound DEF StagePlan
    <3> QED BY <3>1, <3>2
  <2> QED BY <1>0, <1>13, <2>1, <2>2, RowsStaySound DEF StagePlan, Sound
<1>14. ASSUME NEW k \in Workers, ReusePlan(k) PROVE Sound'
  <2>1. job[k] /= NoJob /\ job[k].plan \in Plans /\ job[k].version \in Nat
    BY <1>0, <1>14, BusyJob DEF ReusePlan, Working, Jobs
  <2> QED BY <1>0, <1>14, <2>1, AdvanceSound DEF ReusePlan, Sound
<1>15. ASSUME NEW k \in Workers, Revalidate(k) PROVE Sound'
  <2>1. job[k] /= NoJob /\ job[k].plan \in Plans /\ job[k].version \in Nat
    BY <1>0, <1>15, BusyJob DEF Revalidate, Working, Jobs, SoundJobs
  <2> QED BY <1>0, <1>15, <2>1, AdvanceSound DEF Revalidate, Sound
<1>16. ASSUME NEW k \in Workers, PublishAction(k) PROVE Sound'
  <2>1. /\ job[k] /= NoJob /\ job[k].plan \in Plans /\ job[k].version \in Nat
        /\ job[k].next \in 1..Actions /\ job[k].work \in Works
    BY <1>0, <1>16, BusyJob DEF PublishAction, Working, Jobs, SoundJobs
  <2>2. job' \in [Workers -> SoundJobs \cup {NoJob}]
    BY <1>0, <1>16, <2>1, AdvanceSound DEF PublishAction
  <2>3. published' \in [Works -> SUBSET ((1..Actions) \X Plans)]
    BY <1>16, <2>1 DEF PublishAction, Sound
  <2> QED BY <1>16, <2>2, <2>3 DEF PublishAction, Sound
<1>17. ASSUME NEW k \in Workers, NEW heard \in BOOLEAN, CompletePlan(k, heard) PROVE Sound'
  <2>1. job[k].work \in Works /\ job' \in [Workers -> SoundJobs \cup {NoJob}]
    BY <1>0, <1>17, BusyJob, SettleSound DEF CompletePlan
  <2> QED BY <1>0, <1>17, <2>1, RowsStaySound DEF CompletePlan, Sound
<1>18. CASE Tick
  BY <1>0, <1>18, RowsStaySound DEF Tick, Sound
<1>19. CASE UNCHANGED vars
  BY <1>19 DEF vars, Sound
<1> QED
  BY <1>1, <1>2, <1>3, <1>4, <1>5, <1>6, <1>7, <1>8, <1>9, <1>10, <1>11, <1>12, <1>13,
     <1>14, <1>15, <1>16, <1>17, <1>18, <1>19
     DEF Next, Claiming, Process, Extraction, Embedding, Artifact, Staging, Completion, Failing

\* The queue is empty at first.
LEMMA InitSound == Init => Sound
  BY WorkAssumption
     DEF Init, Sound, SoundRows, Rows, Row, Statuses, Outcomes, Absent, NoJob

\* Sound is the type invariant and more.
LEMMA SoundTypes == Sound => TypeOK
  BY DEF Sound, SoundRows, SoundJobs, TypeOK

\* The columns of the queue keep their types and the attempts their limit,
\* however leases end.
THEOREM QueueTyped == Spec => []TypeOK
  BY InitSound, StepSound, SoundTypes, PTL DEF Spec

-----------------------------------------------------------------------------
(* What a step does to the rows and to the leases the workers hold.        *)

\* Lease versions only grow, a plan once staged stays, a publication stays.
RowsGoOn ==
    \A w \in Works :
        /\ items'[w].lv >= items[w].lv
        /\ items[w].plan /= None => items'[w].plan = items[w].plan
        /\ published[w] \subseteq published'[w]

\* The worker goes on with the lease it holds, with a plan it had or the row has.
Keeps(k) ==
    /\ job[k] /= NoJob
    /\ job'[k].work = job[k].work
    /\ job'[k].lv = job[k].lv
    /\ job'[k].plan \in {job[k].plan, items'[job[k].work].plan}

\* The worker takes a lease under a version nobody held.
Takes(k) ==
    LET w == job'[k].work
    IN  /\ w \in Works
        /\ job'[k].lv = items[w].lv + 1
        /\ job'[k].lv = items'[w].lv
        /\ job'[k].plan = items'[w].plan

OneWorker(k) ==
    /\ job'[k] = NoJob \/ Keeps(k) \/ Takes(k)
    /\ \A l \in Workers : l /= k => job'[l] = job[l]

\* Every step leaves the workers as they are or moves one of them.
JobsGoOn == job' = job \/ \E k \in Workers : OneWorker(k)

\* Settling a lease keeps it or ends it.
LEMMA SettleKeeps ==
    ASSUME Sound, NEW k \in Workers, job[k] /= NoJob, NEW heard \in BOOLEAN, Settle(k, heard)
    PROVE  OneWorker(k)
  BY DEF Sound, Settle, OneWorker, Keeps

\* Every UPDATE of a row lets its lease version grow and keeps its plan.
LEMMA RowsKeep ==
    ASSUME NEW r \in SoundRows
    PROVE  /\ \A k \in Workers : Leased(r, k).lv = r.lv + 1 /\ Leased(r, k).plan = r.plan
           /\ \A o : Done(r, o).lv = r.lv /\ Done(r, o).plan = r.plan
           /\ \A p : Staged(r, p).lv = r.lv /\ Staged(r, p).plan = p
           /\ \A d : Retried(r, d).lv = r.lv /\ Retried(r, d).plan = r.plan
           /\ LeaseExpired(r).lv = r.lv /\ LeaseExpired(r).plan = r.plan
           /\ Cancelled(r).lv = r.lv + 1 /\ Cancelled(r).plan = r.plan
           /\ Older(r).lv = r.lv /\ Older(r).plan = r.plan
           /\ r.lv \in Nat
  BY DEF Leased, Done, Staged, Retried, LeaseExpired, Cancelled, Older, Row, SoundRows, Rows

\* The sweep changes neither.
LEMMA SweepKeeps ==
    ASSUME items \in [Works -> SoundRows], NEW w \in Works
    PROVE  Sweep[w].lv = items[w].lv /\ Sweep[w].plan = items[w].plan
  BY RowsKeep DEF Sweep

\* A new row replaces an absent one, which was never leased and has no plan.
LEMMA NewKeeps ==
    /\ \A s, o : New(s, o).lv = 0 /\ New(s, o).plan = None
    /\ Absent.lv = 0 /\ Absent.plan = None
  BY DEF New, Absent, Row

\* Whatever step is taken, rows and workers go on in this way.
LEMMA StepGoesOn ==
    ASSUME Sound, Next PROVE RowsGoOn /\ JobsGoOn
<1> USE WorkAssumption
<1>0. /\ items \in [Works -> SoundRows]
      /\ job \in [Workers -> SoundJobs \cup {NoJob}]
      /\ published \in [Works -> SUBSET ((1..Actions) \X Plans)]
      /\ \A w \in Works : items[w].lv \in Nat
  BY DEF Sound, SoundRows, Rows
<1>1. ASSUME NEW w \in Works, NEW trust \in {"unreviewed", "untrusted"}, IngestSource(w, trust)
      PROVE  RowsGoOn /\ JobsGoOn
  BY <1>0, <1>1, NewKeeps DEF IngestSource, RowsGoOn, JobsGoOn
<1>2. ASSUME NEW w \in Works, EnqueueWork(w) PROVE RowsGoOn /\ JobsGoOn
  BY <1>0, <1>2, NewKeeps DEF EnqueueWork, RowsGoOn, JobsGoOn
<1>3. ASSUME NEW s \in Sources, NEW state \in {"pending", "accepted"}, ReviewSource(s, state)
      PROVE  RowsGoOn /\ JobsGoOn
  BY <1>0, <1>3 DEF ReviewSource, RowsGoOn, JobsGoOn
<1>4. ASSUME NEW s \in Sources, RejectSource(s) PROVE RowsGoOn /\ JobsGoOn
  BY <1>0, <1>4, RowsKeep DEF RejectSource, RowsGoOn, JobsGoOn
<1>5. ASSUME NEW w \in Works, InputsChange(w) PROVE RowsGoOn /\ JobsGoOn
  BY <1>0, <1>5 DEF InputsChange, RowsGoOn, JobsGoOn
<1>6. ASSUME NEW k \in Workers, NEW w \in Works, ClaimWork(k, w) PROVE RowsGoOn /\ JobsGoOn
  <2>1. Sweep \in [Works -> SoundRows]
    BY <1>0, SweepSound
  <2>2. /\ items'[w].lv = items[w].lv + 1
        /\ items'[w].plan = items[w].plan
        /\ \A v \in Works : v /= w => items'[v] = Sweep[v]
    <3>1. items'[w] = Leased(Sweep[w], k) /\ \A v \in Works : v /= w => items'[v] = Sweep[v]
      BY <1>6, <2>1 DEF ClaimWork
    <3>2. Sweep[w] \in SoundRows
      BY <2>1
    <3> QED BY <1>0, <3>1, <3>2, RowsKeep, SweepKeeps
  <2>3. RowsGoOn
    BY <1>0, <1>6, <2>2, SweepKeeps DEF ClaimWork, RowsGoOn
  <2>4. /\ job'[k].work = w
        /\ job'[k].lv = items[w].lv + 1
        /\ job'[k].plan = items[w].plan
        /\ \A l \in Workers : l /= k => job'[l] = job[l]
    BY <1>0, <1>6, <2>1, RowsKeep, SweepKeeps DEF ClaimWork, Job
  <2>5. OneWorker(k)
    BY <2>2, <2>4 DEF OneWorker, Takes
  <2> QED BY <2>3, <2>5 DEF JobsGoOn
<1>7. ASSUME NEW k \in Workers, ClaimNothing(k) PROVE RowsGoOn /\ JobsGoOn
  BY <1>0, <1>7, SweepKeeps DEF ClaimNothing, RowsGoOn, JobsGoOn
<1>8. ASSUME NEW k \in Workers, NEW found \in SUBSET Effects, NEW heard \in BOOLEAN,
             ApplyExtraction(k, found, heard)
      PROVE  RowsGoOn /\ JobsGoOn
  <2>1. ASSUME NEW v \in Works
        PROVE  items'[v].lv = items[v].lv /\ items'[v].plan = items[v].plan
    <3>1. \/ items'[v] \in {Done(items[v], "completed"), items[v]}
          \/ items[v] = Absent /\ items'[v] = New("pending", None)
      BY <1>8 DEF ApplyExtraction, EmbeddingQueued
    <3> QED BY <1>0, <3>1, RowsKeep, NewKeeps
  <2>2. RowsGoOn
    BY <1>0, <1>8, <2>1 DEF ApplyExtraction, RowsGoOn
  <2> QED BY <1>8, <2>2, SettleKeeps DEF ApplyExtraction, Working, JobsGoOn
<1>9. ASSUME NEW k \in Workers, NEW heard \in BOOLEAN, ApplyEmbedding(k, heard)
      PROVE  RowsGoOn /\ JobsGoOn
  <2>1. RowsGoOn
    <3>1. published' = published
          /\ \A v \in Works : items'[v] \in {Done(items[v], "completed"), items[v]}
      BY <1>0, <1>9 DEF ApplyEmbedding
    <3>2. ASSUME NEW v \in Works
          PROVE  items'[v].lv = items[v].lv /\ items'[v].plan = items[v].plan
      <4>1. /\ Done(items[v], "completed").lv = items[v].lv
            /\ Done(items[v], "completed").plan = items[v].plan
        BY <1>0, RowsKeep
      <4> QED BY <3>1, <4>1
    <3> QED BY <1>0, <3>1, <3>2 DEF RowsGoOn
  <2> QED BY <1>9, <2>1, SettleKeeps DEF ApplyEmbedding, Working, JobsGoOn
<1>10. ASSUME NEW k \in Workers, NEW heard \in BOOLEAN, CompleteArtifact(k, heard)
       PROVE  RowsGoOn /\ JobsGoOn
  <2>1. RowsGoOn
    BY <1>0, <1>10, RowsKeep DEF CompleteArtifact, RowsGoOn
  <2> QED BY <1>10, <2>1, SettleKeeps DEF CompleteArtifact, Working, JobsGoOn
<1>11. ASSUME NEW k \in Workers, NEW delay \in 0..RetryDelay, NEW heard \in BOOLEAN,
              FailWork(k, delay, heard)
       PROVE  RowsGoOn /\ JobsGoOn
  <2>1. RowsGoOn
    BY <1>0, <1>11, RowsKeep DEF FailWork, RowsGoOn
  <2> QED BY <1>11, <2>1, SettleKeeps DEF FailWork, JobsGoOn
<1>12. ASSUME NEW k \in Workers, LeaseLost(k) \/ Crash(k) PROVE RowsGoOn /\ JobsGoOn
  <2>1. OneWorker(k)
    BY <1>0, <1>12 DEF LeaseLost, Crash, OneWorker
  <2> QED BY <1>0, <1>12, <2>1 DEF LeaseLost, Crash, RowsGoOn, JobsGoOn
<1>13. ASSUME NEW k \in Workers, NEW plan \in Plans, NEW heard \in BOOLEAN,
              StagePlan(k, plan, heard)
       PROVE  RowsGoOn /\ JobsGoOn
  <2>1. job[k] /= NoJob /\ job[k].work \in Works
    BY <1>0, <1>13, BusyJob DEF StagePlan, Working
  <2>2. RowsGoOn /\ items'[job[k].work].plan = plan
    BY <1>0, <1>13, <2>1, RowsKeep DEF StagePlan, RowsGoOn
  <2>3. OneWorker(k)
    <3>1. CASE heard
      BY <1>0, <1>13, <2>1, <2>2, <3>1 DEF StagePlan, Advance, OneWorker, Keeps
    <3>2. CASE ~ heard
      BY <1>13, <2>1, <3>2, SettleKeeps DEF StagePlan
    <3> QED BY <3>1, <3>2
  <2> QED BY <2>2, <2>3 DEF JobsGoOn
<1>14. ASSUME NEW k \in Workers, ReusePlan(k) \/ Revalidate(k) PROVE RowsGoOn /\ JobsGoOn
  <2>1. OneWorker(k)
    BY <1>0, <1>14 DEF ReusePlan, Revalidate, Working, Advance, OneWorker, Keeps
  <2> QED BY <1>0, <1>14, <2>1 DEF ReusePlan, Revalidate, RowsGoOn, JobsGoOn
<1>15. ASSUME NEW k \in Workers, PublishAction(k) PROVE RowsGoOn /\ JobsGoOn
  <2>1. OneWorker(k)
    BY <1>0, <1>15 DEF PublishAction, Working, Advance, OneWorker, Keeps
  <2> QED BY <1>0, <1>15, <2>1 DEF PublishAction, RowsGoOn, JobsGoOn
<1>16. ASSUME NEW k \in Workers, NEW heard \in BOOLEAN, CompletePlan(k, heard)
       PROVE  RowsGoOn /\ JobsGoOn
  <2>1. RowsGoOn
    BY <1>0, <1>16, RowsKeep DEF CompletePlan, RowsGoOn
  <2> QED BY <1>16, <2>1, SettleKeeps DEF CompletePlan, JobsGoOn
<1>17. CASE Tick
  BY <1>0, <1>17, RowsKeep DEF Tick, RowsGoOn, JobsGoOn
<1> QED
  BY <1>1, <1>2, <1>3, <1>4, <1>5, <1>6, <1>7, <1>8, <1>9, <1>10, <1>11, <1>12, <1>13,
     <1>14, <1>15, <1>16, <1>17
     DEF Next, Claiming, Process, Extraction, Embedding, Artifact, Staging, Completion, Failing

-----------------------------------------------------------------------------
(* The fence.                                                              *)

\* A lease version in a worker's hands was drawn for its item, once.
Drawn ==
    /\ \A k \in Workers : job[k] /= NoJob => job[k].lv <= items[job[k].work].lv
    /\ \A k, l \in Workers :
        /\ job[k] /= NoJob /\ job[l] /= NoJob
        /\ job[k].work = job[l].work
        /\ job[k].lv = job[l].lv
        => k = l

\* Taking, keeping and ending leases keeps the versions apart.
LEMMA StepDrawn ==
    ASSUME Sound, Sound', Drawn, RowsGoOn, JobsGoOn
    PROVE  Drawn'
<1>0. /\ \A k \in Workers : job[k] /= NoJob => job[k].work \in Works /\ job[k].lv \in Nat
      /\ \A k \in Workers : job'[k] /= NoJob => job'[k].work \in Works /\ job'[k].lv \in Nat
      /\ \A w \in Works : items[w].lv \in Nat /\ items'[w].lv \in Nat
  BY DEF Sound, SoundJobs, Jobs, SoundRows, Rows
<1>1. CASE job' = job
  BY <1>0, <1>1 DEF Drawn, RowsGoOn
<1>2. ASSUME NEW k \in Workers, OneWorker(k) PROVE Drawn'
  <2>1. ASSUME NEW l \in Workers, l /= k, job'[l] /= NoJob
        PROVE  /\ job'[l] = job[l]
               /\ job[l].lv <= items[job[l].work].lv
               /\ job'[l].lv <= items'[job'[l].work].lv
    BY <1>0, <1>2, <2>1 DEF OneWorker, Drawn, RowsGoOn
  <2>2. CASE job'[k] = NoJob
    BY <1>0, <2>1, <2>2 DEF Drawn
  <2>3. CASE job'[k] /= NoJob /\ Keeps(k)
    <3>1. job'[k].lv <= items'[job'[k].work].lv
      BY <1>0, <2>3 DEF Keeps, Drawn, RowsGoOn
    <3>2. ASSUME NEW l \in Workers, l /= k, job'[l] /= NoJob, job'[l].work = job'[k].work
          PROVE  job'[l].lv /= job'[k].lv
      BY <2>1, <2>3, <3>2 DEF Keeps, Drawn
    <3> QED BY <2>1, <3>1, <3>2 DEF Drawn
  <2>4. CASE job'[k] /= NoJob /\ Takes(k)
    <3>1. job'[k].lv <= items'[job'[k].work].lv
      BY <1>0, <2>4 DEF Takes
    <3>2. ASSUME NEW l \in Workers, l /= k, job'[l] /= NoJob, job'[l].work = job'[k].work
          PROVE  job'[l].lv /= job'[k].lv
      BY <1>0, <2>1, <2>4, <3>2 DEF Takes
    <3> QED BY <2>1, <3>1, <3>2 DEF Drawn
  <2> QED BY <1>2, <2>2, <2>3, <2>4 DEF OneWorker
<1> QED BY <1>1, <1>2 DEF JobsGoOn

\* At most one process can settle an item, whatever worker ids the processes
\* were given: the fence of _require_lease_row admits only the last claim.
THEOREM SingleHolder == Spec => []OneHolder
<1>1. Init => Drawn
  BY DEF Init, Drawn
<1>2. Sound /\ Drawn /\ [Next]_vars => Drawn'
  <2>1. ASSUME Sound, Drawn, Next PROVE Drawn'
    BY <2>1, StepSound, StepGoesOn, StepDrawn
  <2>2. ASSUME Drawn, UNCHANGED vars PROVE Drawn'
    BY <2>2 DEF vars, Drawn
  <2> QED BY <2>1, <2>2
<1>3. Drawn => OneHolder
  BY DEF Drawn, OneHolder, Fence
<1> QED BY <1>1, <1>2, <1>3, InitSound, StepSound, PTL DEF Spec

-----------------------------------------------------------------------------
(* Consolidation plans.                                                    *)

\* The plan a worker follows is the staged one.
PlanInHand ==
    \A k \in Workers :
        job[k] /= NoJob /\ job[k].plan /= None => items[job[k].work].plan = job[k].plan

\* A plan is staged once and every worker follows it, so no two plans of an
\* item are mixed, however often its processes crash or outlive their leases.
THEOREM OnePlan == Spec => []PlanOnce
<1>1. Init => PlanInHand /\ PlanOnce
  BY DEF Init, PlanInHand, PlanOnce
<1>2. ASSUME Sound, PlanInHand, PlanOnce, Next PROVE PlanInHand'
  <2>0. RowsGoOn /\ JobsGoOn /\ Sound'
    BY <1>2, StepGoesOn, StepSound
  <2>1. \A k \in Workers : job'[k] /= NoJob /\ job'[k] = job[k] =>
            job[k].work \in Works /\ (job[k].plan /= None => items[job[k].work].plan = job[k].plan)
    BY <1>2 DEF Sound, SoundJobs, Jobs, PlanInHand
  <2>2. ASSUME NEW k \in Workers, job'[k] = job[k], job'[k] /= NoJob, job'[k].plan /= None
        PROVE  items'[job'[k].work].plan = job'[k].plan
    BY <2>0, <2>1, <2>2 DEF RowsGoOn
  <2>3. ASSUME NEW k \in Workers, OneWorker(k), job'[k] /= NoJob, job'[k].plan /= None
        PROVE  items'[job'[k].work].plan = job'[k].plan
    <3>1. CASE Keeps(k)
      <4>1. job[k].work \in Works
        BY <1>2, <3>1 DEF Keeps, Sound, SoundJobs, Jobs
      <4> QED BY <1>2, <2>0, <2>3, <3>1, <4>1 DEF Keeps, PlanInHand, RowsGoOn
    <3>2. CASE Takes(k)
      BY <3>2 DEF Takes
    <3> QED BY <2>3, <3>1, <3>2 DEF OneWorker
  <2> QED BY <2>0, <2>2, <2>3 DEF JobsGoOn, OneWorker, PlanInHand
<1>3. ASSUME Sound, PlanInHand, PlanOnce, Next PROVE PlanOnce'
  <2>0. RowsGoOn
    BY <1>3, StepGoesOn
  <2>1. ASSUME NEW w \in Works, NEW p \in published[w] PROVE p[2] = items'[w].plan
    <3>1. p[2] \in Plans /\ p[2] = items[w].plan
      BY <1>3, <2>1 DEF Sound, PlanOnce
    <3> QED BY <2>0, <3>1, WorkAssumption DEF RowsGoOn
  <2>2. CASE published' = published
    BY <2>1, <2>2 DEF PlanOnce
  <2>3. ASSUME NEW k \in Workers, PublishAction(k) PROVE PlanOnce'
    <3>1. job[k] /= NoJob /\ job[k].plan \in Plans /\ job[k].work \in Works
      BY <1>3, <2>3 DEF PublishAction, Working, Sound, SoundJobs, Jobs
    <3>2. items'[job[k].work].plan = job[k].plan
      BY <1>3, <2>3, <3>1, WorkAssumption DEF PublishAction, PlanInHand
    <3>3. \A w \in Works : published'[w] \subseteq
              published[w] \cup (IF w = job[k].work THEN {<<job[k].next, job[k].plan>>} ELSE {})
      BY <1>3, <2>3, <3>1 DEF PublishAction, Sound
    <3> QED BY <2>1, <3>2, <3>3 DEF PlanOnce
  <2>4. published' = published \/ \E k \in Workers : PublishAction(k)
    BY <1>3, SMTT(20), ZenonT(30)
       DEF Next, Claiming, Process, Extraction, Embedding, Artifact, Staging, Completion, Failing,
           IngestSource, EnqueueWork, ReviewSource, RejectSource, InputsChange, ClaimWork,
           ClaimNothing, ApplyExtraction, ApplyEmbedding, CompleteArtifact, StagePlan, ReusePlan,
           Revalidate, CompletePlan, FailWork, LeaseLost, Crash, Tick
  <2> QED BY <2>2, <2>3, <2>4
<1>4. PlanInHand /\ PlanOnce /\ UNCHANGED vars => PlanInHand' /\ PlanOnce'
  BY DEF vars, PlanInHand, PlanOnce
<1> QED BY <1>1, <1>2, <1>3, <1>4, InitSound, StepSound, PTL DEF Spec

-----------------------------------------------------------------------------
(* Source governance.                                                      *)

\* No memory of a rejected source is left standing: reject_source rolls back
\* what was applied, and apply_extraction applies nothing after it.
THEOREM RejectionComplete == Spec => []RejectionReaches
<1>1. Init => RejectionReaches
  BY DEF Init, RejectionReaches
<1>2. ASSUME Sound, RejectionReaches, [Next]_vars PROVE RejectionReaches'
  <2> USE WorkAssumption
  <2>1. ASSUME NEW w \in Works, NEW trust \in {"unreviewed", "untrusted"}, IngestSource(w, trust)
        PROVE  RejectionReaches'
    BY <1>2, <2>1 DEF IngestSource, RejectionReaches, Sound
  <2>2. ASSUME NEW s \in Sources, NEW state \in {"pending", "accepted"}, ReviewSource(s, state)
        PROVE  RejectionReaches'
    BY <1>2, <2>2 DEF ReviewSource, RejectionReaches, Sound
  <2>3. ASSUME NEW s \in Sources, RejectSource(s) PROVE RejectionReaches'
    <3>1. ASSUME NEW w \in Works, Kind[w] = "extract_source",
                 sources'[SourceOf[w]].state = "rejected", NEW e \in effects[w]
          PROVE  <<w, e>> \in refuted'
      <4>1. e \in Effects
        BY <1>2, <3>1 DEF Sound
      <4>2. CASE SourceOf[w] = s
        BY <2>3, <3>1, <4>1, <4>2 DEF RejectSource, FromSource
      <4>3. CASE SourceOf[w] /= s
        BY <1>2, <2>3, <3>1, <4>3 DEF RejectSource, RejectionReaches, Sound
      <4> QED BY <4>2, <4>3
    <3> QED BY <2>3, <3>1 DEF RejectSource, RejectionReaches
  <2>4. ASSUME NEW k \in Workers, NEW found \in SUBSET Effects, NEW heard \in BOOLEAN,
               ApplyExtraction(k, found, heard)
        PROVE  RejectionReaches'
    <3>1. sources[SourceOf[job[k].work]].state /= "rejected"
      BY <2>4 DEF ApplyExtraction, Usable
    <3>2. \A w \in Works : w /= job[k].work => effects'[w] = effects[w]
      BY <1>2, <2>4 DEF ApplyExtraction, Sound
    <3> QED BY <1>2, <2>4, <3>1, <3>2 DEF ApplyExtraction, RejectionReaches
  <2>5. \/ UNCHANGED <<sources, effects, refuted>>
        \/ \E w \in Works, trust \in {"unreviewed", "untrusted"} : IngestSource(w, trust)
        \/ \E s \in Sources, state \in {"pending", "accepted"} : ReviewSource(s, state)
        \/ \E s \in Sources : RejectSource(s)
        \/ \E k \in Workers, found \in SUBSET Effects, heard \in BOOLEAN :
                ApplyExtraction(k, found, heard)
    <3> DEFINE Same == UNCHANGED <<sources, effects, refuted>>
    <3>1. ASSUME NEW k \in Workers, Process(k)
          PROVE  \/ Same
                 \/ \E found \in SUBSET Effects, heard \in BOOLEAN : ApplyExtraction(k, found, heard)
      <4>1. CASE Embedding(k) \/ Artifact(k) \/ Failing(k) \/ LeaseLost(k)
        BY <4>1 DEF Embedding, Artifact, Failing, ApplyEmbedding, CompleteArtifact, FailWork, LeaseLost
      <4>2. CASE Staging(k) \/ ReusePlan(k) \/ Revalidate(k) \/ PublishAction(k) \/ Completion(k)
        BY <4>2 DEF Staging, Completion, StagePlan, ReusePlan, Revalidate, PublishAction, CompletePlan
      <4> QED BY <3>1, <4>1, <4>2 DEF Process, Extraction
    <3>2. ASSUME NEW k \in Workers, Claiming(k) \/ ClaimNothing(k) \/ Crash(k)
          PROVE  Same
      BY <3>2 DEF Claiming, ClaimWork, ClaimNothing, Crash
    <3>3. ASSUME NEW w \in Works, EnqueueWork(w) \/ InputsChange(w)
          PROVE  Same
      BY <3>3 DEF EnqueueWork, InputsChange
    <3>4. CASE Tick \/ UNCHANGED vars
      BY <3>4 DEF Tick, vars
    <3> QED BY <1>2, <3>1, <3>2, <3>3, <3>4 DEF Next
  <2>6. CASE UNCHANGED <<sources, effects, refuted>>
    BY <1>2, <2>6 DEF RejectionReaches
  <2> QED BY <2>1, <2>2, <2>3, <2>4, <2>5, <2>6
<1> QED BY <1>1, <1>2, InitSound, StepSound, PTL DEF Spec

-----------------------------------------------------------------------------
(* Completion of a plan.                                                   *)

\* A worker that publishes has published every action before the next one.
Progress ==
    \A k \in Workers :
        job[k].phase = "apply" =>
            \A n \in 1..(job[k].next - 1) : \E p \in published[job[k].work] : p[1] = n

\* Only complete_work writes "applied" as the outcome of a row.
LEMMA RowsEnd ==
    /\ \A s, o : New(s, o).outcome = o
    /\ \A r : /\ \A k \in Workers : Leased(r, k).outcome = r.outcome
             /\ Done(r, "completed").outcome = "completed"
             /\ \A p : Staged(r, p).outcome = r.outcome
             /\ \A d : Retried(r, d).outcome \in {None, "failed"}
             /\ LeaseExpired(r).outcome = "failed"
             /\ Cancelled(r).outcome = "source_rejected"
             /\ Older(r).outcome = r.outcome
  BY DEF New, Leased, Done, Staged, Retried, LeaseExpired, Cancelled, Older, Row

\* No other operation reports a plan as applied.
LEMMA OnlyCompletionApplies ==
    ASSUME Sound, Next
    PROVE  \/ \E k \in Workers : Completion(k)
           \/ \A w \in Works : items'[w].outcome = "applied" => items[w].outcome = "applied"
<1>0. items \in [Works -> SoundRows]
  BY DEF Sound
<1>1. \A w \in Works : Sweep[w].outcome \in {items[w].outcome, "failed"}
  BY RowsEnd DEF Sweep
<1>2. ASSUME NEW w \in Works, NEW trust \in {"unreviewed", "untrusted"},
             IngestSource(w, trust) \/ EnqueueWork(w),
             NEW v \in Works, items'[v].outcome = "applied"
      PROVE  items[v].outcome = "applied"
  <2>1. items'[v] \in {items[v], New("pending", None), New("cancelled", "source_untrusted")}
    BY <1>0, <1>2 DEF IngestSource, EnqueueWork
  <2> QED BY <1>2, <2>1, RowsEnd, WorkAssumption DEF Outcomes
<1>3. CASE \E s \in Sources : RejectSource(s)
  BY <1>0, <1>3, RowsEnd DEF RejectSource
<1>4. ASSUME NEW k \in Workers, NEW w \in Works, ClaimWork(k, w),
             NEW v \in Works, items'[v].outcome = "applied"
      PROVE  items[v].outcome = "applied"
  <2>1. Sweep \in [Works -> SoundRows]
    BY <1>0, SweepSound
  <2>2. items'[v] = IF v = w THEN Leased(Sweep[v], k) ELSE Sweep[v]
    BY <1>4, <2>1 DEF ClaimWork
  <2> QED BY <1>1, <1>4, <2>2, RowsEnd
<1>5. CASE \E k \in Workers : ClaimNothing(k)
  BY <1>1, <1>5 DEF ClaimNothing
<1>6. ASSUME NEW k \in Workers, Extraction(k) \/ Embedding(k) \/ Artifact(k),
             NEW v \in Works, items'[v].outcome = "applied"
      PROVE  items[v].outcome = "applied"
  <2>1. items'[v] \in {items[v], Done(items[v], "completed"), New("pending", None)}
    BY <1>0, <1>6 DEF Extraction, Embedding, Artifact, ApplyExtraction, ApplyEmbedding,
                      CompleteArtifact
  <2> QED BY <1>6, <2>1, RowsEnd, WorkAssumption DEF Outcomes
<1>7. ASSUME NEW k \in Workers, Staging(k) \/ Failing(k),
             NEW v \in Works, items'[v].outcome = "applied"
      PROVE  items[v].outcome = "applied"
  <2>1. \/ \E plan \in Plans : items'[v] \in {items[v], Staged(items[v], plan)}
        \/ \E d \in 0..RetryDelay : items'[v] \in {items[v], Retried(items[v], d)}
    BY <1>0, <1>7 DEF Staging, StagePlan, Failing, FailWork
  <2> QED BY <1>7, <2>1, RowsEnd, WorkAssumption DEF Outcomes
<1>8. CASE Tick
  BY <1>0, <1>8, RowsEnd DEF Tick
<1>9. CASE UNCHANGED items
  BY <1>9
<1> QED
  BY <1>2, <1>3, <1>4, <1>5, <1>6, <1>7, <1>8, <1>9
     DEF Next, Claiming, Process, ReviewSource, InputsChange, ReusePlan, Revalidate,
         PublishAction, LeaseLost, Crash

\* Publishing in order, and nothing else, lets a worker move on to the next action.
LEMMA StepProgress ==
    ASSUME Sound, Progress, Next PROVE Progress'
<1>0. RowsGoOn
  BY StepGoesOn
<1>1. ASSUME NEW k \in Workers, job'[k] = job[k], job'[k].phase = "apply",
             NEW n \in 1..(job'[k].next - 1)
      PROVE  \E p \in published'[job'[k].work] : p[1] = n
  <2>1. job[k].work \in Works
    BY <1>1 DEF Sound, SoundJobs, Jobs, NoJob
  <2> QED BY <1>0, <1>1, <2>1 DEF Progress, RowsGoOn
<1>2. ASSUME NEW k \in Workers, PublishAction(k) PROVE Progress'
  <2>1. /\ job[k].work \in Works /\ job[k].phase = "apply" /\ job[k].next \in Nat
        /\ job'[k].work = job[k].work
        /\ job'[k].next = job[k].next + 1
        /\ \A l \in Workers : l /= k => job'[l] = job[l]
    BY <1>2 DEF PublishAction, Working, Advance, Sound, SoundJobs, Jobs
  <2>2. \E p \in published'[job[k].work] : p[1] = job[k].next
    <3>1. CASE \E p \in published[job[k].work] : p[1] = job[k].next
      BY <1>0, <2>1, <3>1 DEF RowsGoOn
    <3>2. CASE ~ \E p \in published[job[k].work] : p[1] = job[k].next
      <4>1. <<job[k].next, job[k].plan>> \in published'[job[k].work]
        BY <1>2, <2>1, <3>2 DEF PublishAction, Sound
      <4> QED BY <4>1
    <3> QED BY <3>1, <3>2
  <2>3. ASSUME NEW n \in 1..(job'[k].next - 1)
        PROVE  \E p \in published'[job'[k].work] : p[1] = n
    <3>1. CASE n = job[k].next
      BY <2>1, <2>2, <3>1
    <3>2. CASE n /= job[k].next
      <4>1. n \in 1..(job[k].next - 1)
        BY <2>1, <3>2
      <4> QED BY <1>0, <2>1, <4>1 DEF Progress, RowsGoOn
    <3> QED BY <3>1, <3>2
  <2> QED BY <1>1, <2>1, <2>3 DEF Progress
<1>3. ASSUME NEW k \in Workers, Revalidate(k) PROVE Progress'
  <2>1. job'[k].next = 1 /\ \A l \in Workers : l /= k => job'[l] = job[l]
    BY <1>3 DEF Revalidate, Advance, Sound
  <2> QED BY <1>1, <2>1 DEF Progress
<1>4. ASSUME NEW k \in Workers, job'[k].phase /= "apply",
             \A l \in Workers : l /= k => job'[l] = job[l]
      PROVE  Progress'
  BY <1>1, <1>4 DEF Progress
<1>5. CASE job' = job
  BY <1>1, <1>5 DEF Progress
<1>6. ASSUME NEW k \in Workers, Claiming(k) \/ ClaimNothing(k) \/ Process(k) \/ Crash(k)
      PROVE  \/ PublishAction(k) \/ Revalidate(k) \/ job' = job
             \/ /\ job'[k].phase /= "apply"
                /\ \A l \in Workers : l /= k => job'[l] = job[l]
  <2>1. ASSUME NEW heard \in BOOLEAN, Settle(k, heard)
        PROVE  job'[k].phase /= "apply" /\ \A l \in Workers : l /= k => job'[l] = job[l]
    BY <2>1 DEF Settle, Sound, NoJob
  <2>2. ASSUME NEW plan \in Plans \cup {None}, NEW version,
               Advance(k, plan, "staged", version, 1)
        PROVE  job'[k].phase /= "apply" /\ \A l \in Workers : l /= k => job'[l] = job[l]
    BY <2>2 DEF Advance, Sound
  <2>3. CASE Claiming(k) \/ ClaimNothing(k) \/ Crash(k) \/ LeaseLost(k)
    BY <2>3 DEF Claiming, ClaimWork, ClaimNothing, Crash, LeaseLost, Job, NoJob, Sound
  <2>4. CASE Extraction(k) \/ Embedding(k) \/ Artifact(k) \/ Completion(k) \/ Failing(k)
    BY <2>1, <2>4 DEF Extraction, Embedding, Artifact, Completion, Failing, ApplyExtraction,
                      ApplyEmbedding, CompleteArtifact, CompletePlan, FailWork
  <2>5. CASE Staging(k)
    BY <2>1, <2>2, <2>5 DEF Staging, StagePlan
  <2>6. CASE ReusePlan(k)
    <3>1. job[k].plan \in Plans \cup {None}
      BY <2>6 DEF ReusePlan, Working, Sound, SoundJobs, Jobs
    <3> QED BY <2>2, <2>6, <3>1 DEF ReusePlan
  <2> QED BY <1>6, <2>3, <2>4, <2>5, <2>6 DEF Process
<1>7. job' = job \/ \E k \in Workers : Claiming(k) \/ ClaimNothing(k) \/ Process(k) \/ Crash(k)
  BY DEF Next, IngestSource, EnqueueWork, ReviewSource, RejectSource, InputsChange, Tick
<1> QED BY <1>2, <1>3, <1>4, <1>5, <1>6, <1>7

\* A plan is reported as applied only when all its actions were published,
\* although they are published one by one and by several processes.
THEOREM AppliedPlansWhole == Spec => []AppliedWhole
<1>1. Init => Progress /\ AppliedWhole
  BY WorkAssumption DEF Init, Progress, AppliedWhole, NoJob, Absent, Row, Outcomes
<1>2. ASSUME Sound, Progress, Next PROVE Progress'
  BY <1>2, StepProgress
<1>3. ASSUME Sound, Progress, AppliedWhole, Next PROVE AppliedWhole'
  <2>0. RowsGoOn /\ Sound'
    BY <1>3, StepGoesOn, StepSound
  <2>1. ASSUME NEW w \in Works, items[w].outcome = "applied"
        PROVE  {p[1] : p \in published'[w]} = 1..Actions
    <3>1. \A p \in published'[w] : p[1] \in 1..Actions
      BY <2>0 DEF Sound
    <3>2. {p[1] : p \in published[w]} = 1..Actions
      BY <1>3, <2>1 DEF AppliedWhole
    <3>3. published[w] \subseteq published'[w]
      BY <2>0 DEF RowsGoOn
    <3> QED BY <3>1, <3>2, <3>3
  <2>2. ASSUME NEW k \in Workers, NEW heard \in BOOLEAN, CompletePlan(k, heard)
        PROVE  AppliedWhole'
    <3>1. job[k].work \in Works /\ job[k].next \in 1..(Actions + 1)
      BY <1>3, <2>2, BusyJob DEF CompletePlan, Sound, Jobs
    <3>2. \A w \in Works : w /= job[k].work => items'[w] = items[w]
      BY <1>3, <2>2 DEF CompletePlan, Sound
    <3>3. CASE job[k].phase = "apply"
      <4>1. \A n \in 1..Actions : \E p \in published'[job[k].work] : p[1] = n
        BY <1>3, <2>2, <3>1, <3>3, WorkAssumption DEF CompletePlan, Progress
      <4>2. \A p \in published'[job[k].work] : p[1] \in 1..Actions
        BY <2>0, <3>1 DEF Sound
      <4>3. {p[1] : p \in published'[job[k].work]} = 1..Actions
        BY <4>1, <4>2
      <4> QED BY <2>1, <3>2, <4>3 DEF AppliedWhole
    <3>4. CASE job[k].phase = "stale"
      <4>1. items'[job[k].work].outcome = "stale_noop"
        BY <1>3, <2>2, <3>1, <3>4 DEF CompletePlan, Sound, Done, Row
      <4> QED BY <2>1, <3>2, <4>1 DEF AppliedWhole
    <3> QED BY <2>2, <3>3, <3>4 DEF CompletePlan
  <2>3. CASE \A w \in Works : items'[w].outcome = "applied" => items[w].outcome = "applied"
    BY <2>1, <2>3 DEF AppliedWhole
  <2>4. \/ \E k \in Workers : Completion(k)
        \/ \A w \in Works : items'[w].outcome = "applied" => items[w].outcome = "applied"
    BY <1>3, OnlyCompletionApplies
  <2> QED BY <2>2, <2>3, <2>4 DEF Completion
<1>4. Progress /\ AppliedWhole /\ UNCHANGED vars => Progress' /\ AppliedWhole'
  BY DEF vars, Progress, AppliedWhole
<1> QED BY <1>1, <1>2, <1>3, <1>4, InitSound, StepSound, PTL DEF Spec

=============================================================================
