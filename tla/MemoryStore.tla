----------------------------- MODULE MemoryStore -----------------------------
(***************************************************************************)
(* The memory, evidence and conflict store (adapters/cockroach/memory.py)  *)
(* with the policy and the services that call it                           *)
(* (application/memory_policy.py, memory_service.py, conflict_service.py)  *)
(* and the dense projection the retrieval lane reads                       *)
(* (adapters/cockroach/vector.py, retrieval.py).                           *)
(*                                                                         *)
(* A publish is several steps: the policy decides from a read of its own   *)
(* connection, the transaction applies the decision later, the embedding   *)
(* work is queued after the commit, and a worker embeds later still.       *)
(* Every other operation is one SERIALIZABLE transaction and one action.   *)
(* A command that raises changes nothing; one that carries another version *)
(* than the row's is refused, so such commands are no steps.  With the     *)
(* current version it may always go ahead, so that all a version tells is  *)
(* whether a vector was projected from the row as it is now.               *)
(***************************************************************************)
EXTENDS Integers, FiniteSets

CONSTANTS
    Runs,         \* scopes of actors; all of one repository
    Callers,      \* authenticated actors
    RunOf,        \* the run of each caller
    Reviewers,    \* callers holding the confirm, refute, review and resolve capabilities
    Sources,      \* source ids
    Untrusted,    \* the sources registered with trust label 'untrusted'
    Evidence,     \* evidence ids
    SourceOf,     \* the source each piece of evidence is added to
    Memories,     \* memory ids, fresh uuid4 values; their number bounds the appends
    Contents,     \* canonical texts
    Sent,         \* bound: the RememberCommands each caller sends
    MaxCited,     \* bound: evidence references of one command
    None          \* SQL NULL

ASSUME CallerAssumption == RunOf \in [Callers -> Runs] /\ Reviewers \subseteq Callers

ASSUME SourceAssumption == Untrusted \subseteq Sources /\ SourceOf \in [Evidence -> Sources]

ASSUME BoundAssumption == MaxCited \in Nat

ASSUME NullAssumption == None \notin Memories \cup Sources \cup Contents \cup Runs

VARIABLES
    sources,    \* rows of sources
    evidence,   \* rows of evidence: the ids added so far
    memories,   \* rows of memories, each with its memory_evidence rows
    links,      \* rows of memory_links: <<source, target, type>>
    conflict,   \* the row of memory_conflicts followed here, with its members
    calls,      \* what each caller is in the middle of
    embedding   \* per memory: its EMBED_MEMORY work item, then what its vector was made from

memVars == <<sources, evidence, memories, links, conflict, calls, embedding>>

-----------------------------------------------------------------------------
(* The rows.                                                               *)

\* A registered source is pending or approved, which no statement here tells apart
\* (review_source moves it between the two).
SourceRow == [state : {"absent", "registered", "rejected"}, run : Runs \cup {None}]

NoSource == [state |-> "absent", run |-> None]

LiveStates == {"tentative", "confirmed", "refuted"}

MemoryRow == [state : LiveStates \cup {"absent", "superseded"},
              content : Contents \cup {None}, run : Runs \cup {None},
              shared : BOOLEAN, closed : BOOLEAN,
              supersedes : Memories \cup {None}, supersededBy : Memories \cup {None},
              previous : LiveStates \cup {None},
              evidence : SUBSET Evidence]

NoMemory == [state |-> "absent", content |-> None, run |-> None, shared |-> FALSE,
             closed |-> FALSE, supersedes |-> None, supersededBy |-> None,
             previous |-> None, evidence |-> {}]

LinkTypes == {"supersedes", "related_to", "derived_from"}

\* A settled conflict is resolved or dismissed.
ConflictRow == [state : {"absent", "open", "settled"}, run : Runs \cup {None},
                members : SUBSET Memories]

NoConflict == [state |-> "absent", run |-> None, members |-> {}]

\* The evidence references a command may carry.
Citations == {S \in SUBSET Evidence : Cardinality(S) <= MaxCited}

\* RememberCommand.  Bound: it names at most one memory it relates to or derives from.
Commands ==
    [content : Contents, desired : LiveStates, evidence : Citations,
     target : Memories \cup {None}, shared : BOOLEAN,
     link : {None} \cup ((LinkTypes \ {"supersedes"}) \X Memories)]

ASSUME SentAssumption == Sent \in [Callers -> SUBSET Commands]

NoCall == [stage |-> "idle"]

-----------------------------------------------------------------------------
(* Predicates of the SQL statements.                                       *)

Exists(m) == memories[m].state /= "absent"

\* recorded_to IS NULL
Current(m) == Exists(m) /\ ~memories[m].closed

\* The visibility clause: repository-wide, or of the actor's own run.
Visible(r, m) == Exists(m) /\ (memories[m].shared \/ memories[m].run = r)

\* The trust clause: review_state != 'rejected' AND trust_label != 'untrusted'.
Acceptable(e) == sources[SourceOf[e]].state /= "rejected" /\ SourceOf[e] \notin Untrusted

Grounds(m) == {e \in memories[m].evidence : Acceptable(e)}

\* Mutated form: a citation of a rejected source is accepted.
ValidateAnyEvidence(r, refs) ==
    \A e \in refs : e \in evidence /\ sources[SourceOf[e]].run = r

\* _validate_evidence_refs: every reference is to acceptable evidence of the actor's run.
ValidateEvidence(r, refs) ==
    \A e \in refs : e \in evidence /\ Acceptable(e) /\ sources[SourceOf[e]].run = r

\* Mutated form: one shared citation is not asked for.
ValidateUngrounded(r, m, refs) ==
    /\ Visible(r, m) /\ Current(m)
    /\ memories[m].state = "confirmed"

\* _validate_derived_evidence: the memory derived from is current and confirmed, and
\* what is cited is a nonempty part of its evidence.
ValidateDerived(r, m, refs) ==
    /\ Visible(r, m) /\ Current(m)
    /\ memories[m].state = "confirmed"
    /\ refs /= {}
    /\ refs \subseteq memories[m].evidence

\* _current_memories_for_policy: what the policy is shown.
ShownToPolicy(r, m) ==
    /\ Visible(r, m) /\ Current(m)
    /\ memories[m].state /= "refuted"
    /\ memories[m].evidence = {} \/ Grounds(m) /= {}

\* ConservativeMemoryPolicy.decide
WouldPoison(m, cmd) ==
    memories[m].state = "confirmed" /\ (cmd.desired /= "confirmed" \/ cmd.evidence = {})

Decide(r, cmd) ==
    LET t == cmd.target IN
    CASE t = None                                -> "add"
      [] t /= None /\ ~ShownToPolicy(r, t)       -> "noop"
      [] t /= None /\ ShownToPolicy(r, t) /\ memories[t].content = cmd.content -> "merge"
      [] OTHER -> IF WouldPoison(t, cmd) THEN "noop" ELSE "update"

\* get_lineage: the memories that visible links join to m, in either direction.
Adjacent(r, S) ==
    {n \in Memories : Visible(r, n) /\ \E e \in links : \/ e[1] \in S /\ e[2] = n
                                                        \/ e[2] \in S /\ e[1] = n}

Lineage(r, m) ==
    {n \in Memories : \A S \in SUBSET Memories : m \in S /\ Adjacent(r, S) \subseteq S => n \in S}

\* _validate_ann_candidates and _retrieve_scope_exact: the dense lane offers a memory
\* only when its vector was projected from the version the row has now.
DenseFresh(m) == embedding[m] = "fresh"

\* The rows in S advance their version: their vectors are of another one from now on.
Advance(S) ==
    embedding' = [m \in Memories |-> IF m \in S /\ embedding[m] = "fresh" THEN "stale"
                                     ELSE embedding[m]]

-----------------------------------------------------------------------------
(* Initially the run has a schema and no rows.                             *)

Init ==
    /\ sources = [s \in Sources |-> NoSource]
    /\ evidence = {}
    /\ memories = [m \in Memories |-> NoMemory]
    /\ links = {}
    /\ conflict = NoConflict
    /\ calls = [c \in Callers |-> NoCall]
    /\ embedding = [m \in Memories |-> None]

-----------------------------------------------------------------------------
(* Sources and evidence.                                                   *)

RegisterSource(c, s) ==
    /\ sources[s].state = "absent"
    /\ sources' = [sources EXCEPT ![s] = [state |-> "registered", run |-> RunOf[c]]]
    /\ UNCHANGED <<evidence, memories, links, conflict, calls, embedding>>

\* A source is known in the run that registered it.
Known(c, s) == sources[s].run = RunOf[c]

AddEvidence(c, e) ==
    /\ e \notin evidence
    /\ Known(c, SourceOf[e])
    /\ evidence' = evidence \cup {e}
    /\ UNCHANGED <<sources, memories, links, conflict, calls, embedding>>

\* The current memories the actor may see that cite s, and the ones among them with no
\* other acceptable citation.
Citing(r, s) ==
    {m \in Memories : /\ Current(m) /\ Visible(r, m)
                      /\ \E e \in memories[m].evidence : SourceOf[e] = s}

Losing(r, s) == {m \in Citing(r, s) : \A e \in Grounds(m) : SourceOf[e] = s}

\* The predecessors of losers, as far as they still name them.
Reopened(r, s) ==
    {m \in Memories : \E n \in Losing(r, s) : memories[n].supersedes = m /\ memories[m].supersededBy = n}

\* Mutated form: the predecessor comes back and the refuted successor still points at it.
RollBackKeepPointer(r, s) ==
    [m \in Memories |->
        IF m \in Losing(r, s)
        THEN [memories[m] EXCEPT !.state = "refuted"]
        ELSE IF m \in Reopened(r, s)
        THEN [memories[m] EXCEPT
                 !.state = IF memories[m].previous = None THEN "tentative" ELSE memories[m].previous,
                 !.closed = FALSE, !.supersededBy = None]
        ELSE memories[m]]

\* Losers are refuted and release their predecessor, which is current again.
RollBack(r, s) ==
    [m \in Memories |->
        IF m \in Losing(r, s)
        THEN [memories[m] EXCEPT !.state = "refuted", !.supersedes = None]
        ELSE IF m \in Reopened(r, s)
        THEN [memories[m] EXCEPT
                 !.state = IF memories[m].previous = None THEN "tentative" ELSE memories[m].previous,
                 !.closed = FALSE, !.supersededBy = None]
        ELSE memories[m]]

RejectSource(c, s) ==
    /\ c \in Reviewers /\ Known(c, s)
    /\ \A n \in Losing(RunOf[c], s) :
          memories[n].supersedes /= None => Visible(RunOf[c], memories[n].supersedes)
    /\ sources' = [sources EXCEPT ![s].state = "rejected"]
    /\ memories' = RollBack(RunOf[c], s)
    /\ Advance(Citing(RunOf[c], s) \cup Reopened(RunOf[c], s))
    /\ UNCHANGED <<evidence, links, conflict, calls>>

-----------------------------------------------------------------------------
(* MemoryService.publish: decide, apply, queue the embedding.              *)

\* RememberCommand's validators and the service's capability checks.
MaySend(c, cmd) ==
    /\ cmd.desired /= "tentative" => c \in Reviewers
    /\ cmd.link /= None /\ cmd.link[1] = "derived_from" => cmd.evidence /= {}

\* The policy reads over a connection of its own and decides.
StartRemember(c, cmd) ==
    /\ calls[c].stage = "idle"
    /\ MaySend(c, cmd)
    /\ calls' = [calls EXCEPT ![c] = [stage |-> "decided", command |-> cmd,
                                      operation |-> Decide(RunOf[c], cmd)]]
    /\ UNCHANGED <<sources, evidence, memories, links, conflict, embedding>>

\* What the transaction's body requires before it writes.  Only the target is looked at
\* again, and only for being visible and current.
BodyAccepts(c) ==
    LET cmd == calls[c].command
        r   == RunOf[c]
    IN  /\ ValidateEvidence(r, cmd.evidence)
        /\ cmd.link /= None => /\ Visible(r, cmd.link[2]) /\ Current(cmd.link[2])
                               /\ cmd.link[1] = "derived_from" =>
                                     ValidateDerived(r, cmd.link[2], cmd.evidence)
        /\ calls[c].operation \in {"merge", "update"} =>
              Visible(r, cmd.target) /\ Current(cmd.target)
        \* an update closes its target before it looks at the linked memory
        /\ ~(calls[c].operation = "update" /\ cmd.link /= None /\ cmd.link[2] = cmd.target)

\* The caller is answered with the error, or with the no-op decision.
RememberNothing(c) ==
    /\ calls[c].stage = "decided"
    /\ calls[c].operation = "noop" \/ ~BodyAccepts(c)
    /\ calls' = [calls EXCEPT ![c] = NoCall]
    /\ UNCHANGED <<sources, evidence, memories, links, conflict, embedding>>

NewLinks(m, cmd) ==
    IF cmd.link = None \/ cmd.link[2] = m THEN {} ELSE {<<m, cmd.link[2], cmd.link[1]>>}

RememberMerge(c) ==
    LET cmd == calls[c].command
        t   == cmd.target
    IN  /\ calls[c].stage = "decided" /\ calls[c].operation = "merge" /\ BodyAccepts(c)
        /\ memories' = [memories EXCEPT ![t].evidence = @ \cup cmd.evidence]
        /\ links' = links \cup NewLinks(t, cmd)
        /\ calls' = [calls EXCEPT ![c] = [stage |-> "stored", memory |-> t]]
        /\ Advance({t})
        /\ UNCHANGED <<sources, evidence, conflict>>

Appended(c, cmd, predecessor) ==
    [state |-> cmd.desired, content |-> cmd.content, run |-> RunOf[c],
     shared |-> cmd.shared, closed |-> FALSE,
     supersedes |-> predecessor, supersededBy |-> None, previous |-> None,
     evidence |-> cmd.evidence]

RememberAdd(c, m) ==
    LET cmd == calls[c].command IN
    /\ calls[c].stage = "decided" /\ calls[c].operation = "add" /\ BodyAccepts(c)
    /\ ~Exists(m)
    /\ memories' = [memories EXCEPT ![m] = Appended(c, cmd, None)]
    /\ links' = links \cup NewLinks(m, cmd)
    /\ calls' = [calls EXCEPT ![c] = [stage |-> "stored", memory |-> m]]
    /\ UNCHANGED <<sources, evidence, conflict, embedding>>

\* The predecessor is closed, not erased.
Close(t, m) ==
    [memories[t] EXCEPT !.state = "superseded", !.previous = memories[t].state,
                        !.closed = TRUE, !.supersededBy = m]

\* Mutated form: the supersession is not linked.
NoSupersedesLink(m, t) == {}

SupersedesLink(m, t) == {<<m, t, "supersedes">>}

RememberUpdate(c, m) ==
    LET cmd == calls[c].command
        t   == cmd.target
    IN  /\ calls[c].stage = "decided" /\ calls[c].operation = "update" /\ BodyAccepts(c)
        /\ ~Exists(m)
        /\ memories' = [memories EXCEPT ![m] = Appended(c, cmd, t), ![t] = Close(t, m)]
        /\ links' = links \cup NewLinks(m, cmd) \cup SupersedesLink(m, t)
        /\ calls' = [calls EXCEPT ![c] = [stage |-> "stored", memory |-> m]]
        /\ Advance({t})
        /\ UNCHANGED <<sources, evidence, conflict>>

\* After the commit the service queues the embedding under a deterministic key;
\* an item that exists already is left as it is.
EnqueueEmbedding(c) ==
    /\ calls[c].stage = "stored"
    /\ embedding' = [embedding EXCEPT ![calls[c].memory] = IF @ = None THEN "queued" ELSE @]
    /\ calls' = [calls EXCEPT ![c] = NoCall]
    /\ UNCHANGED <<sources, evidence, memories, links, conflict>>

\* The embedding worker completes the item: upsert_memory_dense_projection stamps the
\* vector with the version the row has at that moment.
CompleteEmbedding(m) ==
    /\ embedding[m] = "queued"
    /\ embedding' = [embedding EXCEPT ![m] = "fresh"]
    /\ UNCHANGED <<sources, evidence, memories, links, conflict, calls>>

-----------------------------------------------------------------------------
(* Review and conflicts.                                                   *)

ReviewMemory(c, m, state, refs) ==
    /\ c \in Reviewers /\ Visible(RunOf[c], m) /\ Current(m)
    /\ refs /= {} /\ ValidateEvidence(RunOf[c], refs)
    /\ memories' = [memories EXCEPT ![m].state = state, ![m].evidence = @ \cup refs]
    /\ Advance({m})
    /\ UNCHANGED <<sources, evidence, links, conflict, calls>>

\* A conflict is settled in the run that reported it.
Reported(c) == conflict.run = RunOf[c]

ReportConflict(c, members) ==
    /\ conflict.state = "absent"
    /\ Cardinality(members) >= 2
    /\ \A m \in members : Visible(RunOf[c], m)
    /\ conflict' = [state |-> "open", run |-> RunOf[c], members |-> members]
    /\ UNCHANGED <<sources, evidence, memories, links, calls, embedding>>

\* Supported members that are neither superseded nor refuted are confirmed and cite the
\* resolution's evidence; refuted members that are not superseded are refuted.
Supported(S) == {m \in S : memories[m].state \notin {"superseded", "refuted"}}

Refuted(S) == {m \in S : memories[m].state /= "superseded"}

ResolveConflict(c, supports, refutes, refs) ==
    /\ c \in Reviewers /\ Reported(c) /\ conflict.state = "open"
    /\ refs /= {} /\ ValidateEvidence(RunOf[c], refs)
    /\ supports \cup refutes \subseteq conflict.members
    /\ supports \cap refutes = {}
    /\ \A m \in supports \cup refutes : Visible(RunOf[c], m)
    /\ conflict' = [conflict EXCEPT !.state = "settled"]
    /\ memories' = [m \in Memories |->
          IF m \in Supported(supports)
          THEN [memories[m] EXCEPT !.state = "confirmed", !.evidence = @ \cup refs]
          ELSE IF m \in Refuted(refutes)
          THEN [memories[m] EXCEPT !.state = "refuted"]
          ELSE memories[m]]
    /\ Advance(Supported(supports) \cup Refuted(refutes))
    /\ UNCHANGED <<sources, evidence, links, calls>>

-----------------------------------------------------------------------------
Govern(c) ==
    \/ \E s \in Sources : RegisterSource(c, s) \/ RejectSource(c, s)
    \/ \E e \in Evidence : AddEvidence(c, e)

Publish(c) ==
    \/ \E cmd \in Sent[c] : StartRemember(c, cmd)
    \/ RememberNothing(c) \/ RememberMerge(c)
    \/ \E m \in Memories : RememberAdd(c, m) \/ RememberUpdate(c, m)
    \/ EnqueueEmbedding(c)

Judge(c) ==
    \/ \E m \in Memories, state \in {"confirmed", "refuted"}, refs \in Citations :
          ReviewMemory(c, m, state, refs)
    \/ \E members \in SUBSET Memories : ReportConflict(c, members)
    \/ \E supports, refutes \in SUBSET conflict.members, refs \in Citations :
          ResolveConflict(c, supports, refutes, refs)

Next ==
    \/ \E c \in Callers : Govern(c) \/ Publish(c) \/ Judge(c)
    \/ \E m \in Memories : CompleteEmbedding(m)

Spec == Init /\ [][Next]_memVars

\* A caller retries its publish until it is answered and the worker keeps polling; nothing
\* obliges anyone to review, reject or resolve.
FairSpec ==
    /\ Spec
    /\ \A c \in Callers : WF_memVars(RememberNothing(c)) /\ WF_memVars(EnqueueEmbedding(c))
    /\ \A m \in Memories : WF_memVars(CompleteEmbedding(m))

-----------------------------------------------------------------------------
(* Properties.                                                             *)

\* The variables hold rows and calls of the schema's shapes.
MemTypeOK ==
    /\ sources \in [Sources -> SourceRow]
    /\ evidence \subseteq Evidence
    /\ memories \in [Memories -> MemoryRow]
    /\ links \subseteq Memories \X Memories \X LinkTypes
    /\ conflict \in ConflictRow
    /\ calls \in [Callers ->
            {NoCall} \cup [stage : {"decided"}, command : UNION {Sent[c] : c \in Callers},
                           operation : {"add", "merge", "update", "noop"}]
                     \cup [stage : {"stored"}, memory : Memories]]
    /\ embedding \in [Memories -> {None, "queued", "fresh", "stale"}]

\* Two-way chain consistency: a row is closed exactly when it is superseded and names its
\* successor, the successor names it, and no two rows name the same predecessor;
\* supersession, rejection roll-back, review and conflicts all keep it so.
ChainConsistent ==
    \A m, n \in Memories :
        /\ memories[m].supersedes = n <=> memories[n].supersededBy = m
        /\ memories[m].closed <=> memories[m].state = "superseded"
        /\ memories[m].closed <=> memories[m].supersededBy /= None

\* Supersession never runs in a circle and is always linked, so a closed memory always has a current one at the
\* end of its chain: whoever sees the whole lineage finds a current memory in it.
LineageHasHead ==
    \A r \in Runs, m \in Memories :
        /\ Exists(m)
        /\ \A n \in Memories : Exists(n) => Visible(r, n)
        => \E n \in Lineage(r, m) : Current(n)

\* A memory derived from another cites part of its evidence for as long as both exist.
DerivedShareEvidence ==
    \A e \in links : e[3] = "derived_from" =>
        memories[e[1]].evidence \cap memories[e[2]].evidence /= {}

\* Rejection is terminal, and no memory gains a citation of a source rejected before.
RejectedForGood ==
    [][\A s \in Sources : sources[s].state = "rejected" =>
          /\ sources'[s].state = "rejected"
          /\ \A m \in Memories, e \in Evidence :
                SourceOf[e] = s /\ e \in memories'[m].evidence => e \in memories[m].evidence]_memVars

\* The documentation's poisoning guard: a confirmed memory gives way only to a confirmed
\* replacement that cites evidence.
PoisonGuard ==
    [][\A m, n \in Memories :
          memories[m].state = "confirmed" /\ ~Exists(n) /\ memories'[n].supersedes = m =>
             memories'[n].state = "confirmed" /\ memories'[n].evidence /= {}]_memVars

\* The documentation's rule on rejection: a memory that lost its final acceptable source
\* is rolled back.
RollbackComplete ==
    \A m \in Memories :
        Current(m) /\ memories[m].state \in {"tentative", "confirmed"}
                   /\ memories[m].evidence /= {} => Grounds(m) /= {}

\* The documentation calls the dense lane's lag temporary: a stored memory is sooner or
\* later offered at its present version, or no longer current.
DenseLagTemporary ==
    \A m \in Memories : Exists(m) ~> (DenseFresh(m) \/ ~Current(m))

=============================================================================
