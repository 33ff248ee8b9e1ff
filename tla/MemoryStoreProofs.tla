-------------------------- MODULE MemoryStoreProofs --------------------------
(* The memory store for every value of the constants: its types, the two   *)
(* ends of every supersession, the current memory at the end of every      *)
(* chain, shared evidence of derived memories, and rejection for good.     *)
EXTENDS MemoryStore, TLAPS

\* The command of a publish that was decided.
LEMMA DecidedCall ==
    ASSUME MemTypeOK, NEW c \in Callers, calls[c].stage = "decided"
    PROVE  /\ calls[c].command \in Commands
           /\ calls[c].operation \in {"add", "merge", "update", "noop"}
<1>1. calls[c] \in [stage : {"decided"}, command : UNION {Sent[d] : d \in Callers},
                    operation : {"add", "merge", "update", "noop"}]
  BY DEF MemTypeOK, NoCall
<1>2. calls[c].command \in UNION {Sent[d] : d \in Callers}
  BY <1>1
<1>3. PICK d \in Callers : calls[c].command \in Sent[d]
  BY <1>2
<1> QED BY <1>1, <1>3, SentAssumption

\* The types of a command's fields.
LEMMA CommandFields ==
    ASSUME NEW cmd \in Commands
    PROVE  /\ cmd.content \in Contents /\ cmd.desired \in LiveStates
           /\ cmd.evidence \subseteq Evidence /\ cmd.evidence \in Citations
           /\ cmd.target \in Memories \cup {None} /\ cmd.shared \in BOOLEAN
           /\ cmd.link /= None => /\ cmd.link[1] \in {"related_to", "derived_from"}
                                  /\ cmd.link[2] \in Memories
                                  /\ cmd.link = <<cmd.link[1], cmd.link[2]>>
  BY DEF Commands, Citations, LinkTypes

LEMMA LinksTyped ==
    ASSUME NEW m \in Memories, NEW cmd \in Commands
    PROVE  /\ NewLinks(m, cmd) \subseteq Memories \X Memories \X LinkTypes
           /\ \A n \in Memories :
                 SupersedesLink(m, n) \subseteq Memories \X Memories \X LinkTypes
  BY CommandFields DEF NewLinks, SupersedesLink, LinkTypes

\* Advancing versions keeps the types of the vectors.
LEMMA AdvanceTyped ==
    ASSUME NEW S, embedding \in [Memories -> {None, "queued", "fresh", "stale"}], Advance(S)
    PROVE  embedding' \in [Memories -> {None, "queued", "fresh", "stale"}]
  BY DEF Advance

-----------------------------------------------------------------------------
(* What the operations write, row by row.                                  *)

\* A decided publish whose target is looked up has one.
Targeted ==
    \A c \in Callers :
        calls[c].stage = "decided" /\ calls[c].operation \in {"merge", "update"}
            => calls[c].command.target \in Memories

LEMMA DecideTargets ==
    ASSUME NEW r, NEW cmd \in Commands
    PROVE  /\ Decide(r, cmd) \in {"add", "merge", "update", "noop"}
           /\ Decide(r, cmd) \in {"merge", "update"} => cmd.target \in Memories
<1>1. CASE cmd.target = None
  BY <1>1 DEF Decide
<1>2. CASE cmd.target /= None
  <2>1. cmd.target \in Memories
    BY <1>2, CommandFields
  <2>2. CASE ~ShownToPolicy(r, cmd.target)
    BY <1>2, <2>1, <2>2 DEF Decide
  <2>3. CASE ShownToPolicy(r, cmd.target) /\ memories[cmd.target].content = cmd.content
    BY <1>2, <2>1, <2>3 DEF Decide
  <2>4. CASE ShownToPolicy(r, cmd.target) /\ memories[cmd.target].content /= cmd.content
    BY <1>2, <2>1, <2>4 DEF Decide
  <2> QED BY <2>2, <2>3, <2>4
<1> QED BY <1>1, <1>2

\* What a command had to pass to be written: acceptable citations, and for a derivation
\* some of the evidence of the memory derived from.
Accepted(cmd) ==
    /\ cmd \in Commands
    /\ \A e \in cmd.evidence : Acceptable(e)
    /\ cmd.link /= None /\ cmd.link[1] = "derived_from" =>
          cmd.evidence /= {} /\ cmd.evidence \subseteq memories[cmd.link[2]].evidence

Merged(t, cmd) ==
    /\ Accepted(cmd) /\ t \in Memories /\ Current(t)
    /\ memories'[t] = [memories[t] EXCEPT !.evidence = @ \cup cmd.evidence]
    /\ \A n \in Memories : n /= t => memories'[n] = memories[n]
    /\ links' = links \cup NewLinks(t, cmd)

Added(c, m, cmd) ==
    /\ Accepted(cmd) /\ ~Exists(m)
    /\ memories'[m] = Appended(c, cmd, None)
    /\ \A n \in Memories : n /= m => memories'[n] = memories[n]
    /\ links' = links \cup NewLinks(m, cmd)

Updated(c, m, t, cmd) ==
    /\ Accepted(cmd) /\ t \in Memories /\ Current(t) /\ ~Exists(m)
    /\ memories'[m] = Appended(c, cmd, t)
    /\ memories'[t] = Close(t, m)
    /\ \A n \in Memories : n /= m /\ n /= t => memories'[n] = memories[n]
    /\ links' = links \cup NewLinks(m, cmd) \cup SupersedesLink(m, t)

\* Reviews and resolutions: the rows of S, none of them superseded, are judged and may
\* gain acceptable evidence.
Judged(S, refs) ==
    /\ \A e \in refs : Acceptable(e)
    /\ \A m \in S : /\ Exists(m) /\ memories[m].state /= "superseded"
                    /\ \E state \in {"confirmed", "refuted"}, gained \in {{}, refs} :
                          memories'[m] = [memories[m] EXCEPT !.state = state,
                                                             !.evidence = @ \cup gained]
    /\ \A m \in Memories \ S : memories'[m] = memories[m]
    /\ links' = links

\* Rejection: the losers L are refuted and the predecessors R that they name, and that
\* name them, are live again.
RolledBack(L, R) ==
    /\ \A m \in L : /\ Current(m)
                    /\ memories'[m] = [memories[m] EXCEPT !.state = "refuted", !.supersedes = None]
    /\ \A m \in R \ L : \E state \in LiveStates :
          memories'[m] = [memories[m] EXCEPT !.state = state, !.closed = FALSE,
                                             !.supersededBy = None]
    /\ \A m \in Memories \ (L \cup R) : memories'[m] = memories[m]
    /\ \A m \in Memories :
          m \in R <=> \E n \in L : memories[n].supersedes = m /\ memories[m].supersededBy = n
    /\ links' = links

\* What a step does to memories and links.
Written ==
    \/ UNCHANGED <<memories, links>>
    \/ \E L, R \in SUBSET Memories : RolledBack(L, R)
    \/ \E t \in Memories, cmd \in Commands : Merged(t, cmd)
    \/ \E c \in Callers, m \in Memories, cmd \in Commands : Added(c, m, cmd)
    \/ \E c \in Callers, m, t \in Memories, cmd \in Commands : Updated(c, m, t, cmd)
    \/ \E S \in SUBSET Memories, refs \in Citations : Judged(S, refs)

LEMMA AcceptedCommand ==
    ASSUME MemTypeOK, NEW c \in Callers, calls[c].stage = "decided", BodyAccepts(c)
    PROVE  Accepted(calls[c].command)
  BY DecidedCall DEF BodyAccepts, ValidateEvidence, ValidateDerived, Accepted

LEMMA MergeWrites ==
    ASSUME MemTypeOK, Targeted, NEW c \in Callers, RememberMerge(c)
    PROVE  Merged(calls[c].command.target, calls[c].command)
<1> DEFINE cmd == calls[c].command
           t   == cmd.target
<1>1. /\ calls[c].stage = "decided" /\ calls[c].operation = "merge" /\ BodyAccepts(c)
      /\ memories' = [memories EXCEPT ![t].evidence = @ \cup cmd.evidence]
      /\ links' = links \cup NewLinks(t, cmd)
  BY DEF RememberMerge
<1>2. t \in Memories /\ Accepted(cmd) /\ Current(t)
  BY <1>1, AcceptedCommand DEF Targeted, BodyAccepts
<1>3. memories \in [Memories -> MemoryRow]
  BY DEF MemTypeOK
<1> HIDE DEF cmd
<1>4. memories[t] \in MemoryRow /\ memories' = [memories EXCEPT ![t].evidence = @ \cup cmd.evidence]
  BY <1>1, <1>2, <1>3
<1> HIDE DEF t
<1>5. /\ memories'[t] = [memories[t] EXCEPT !.evidence = @ \cup cmd.evidence]
      /\ \A n \in Memories : n /= t => memories'[n] = memories[n]
  BY <1>2, <1>3, <1>4
<1> QED BY <1>1, <1>2, <1>5 DEF Merged, cmd, t

LEMMA AddWrites ==
    ASSUME MemTypeOK, NEW c \in Callers, NEW m \in Memories, RememberAdd(c, m)
    PROVE  Added(c, m, calls[c].command)
<1> DEFINE cmd == calls[c].command
<1>1. /\ calls[c].stage = "decided" /\ BodyAccepts(c) /\ ~Exists(m)
      /\ memories' = [memories EXCEPT ![m] = Appended(c, cmd, None)]
      /\ links' = links \cup NewLinks(m, cmd)
  BY DEF RememberAdd
<1>2. Accepted(cmd) /\ memories \in [Memories -> MemoryRow]
  BY <1>1, AcceptedCommand DEF MemTypeOK
<1> HIDE DEF cmd
<1>3. /\ memories'[m] = Appended(c, cmd, None)
      /\ \A n \in Memories : n /= m => memories'[n] = memories[n]
  BY <1>1, <1>2
<1> QED BY <1>1, <1>2, <1>3 DEF Added, cmd

LEMMA UpdateWrites ==
    ASSUME MemTypeOK, Targeted, NEW c \in Callers, NEW m \in Memories, RememberUpdate(c, m)
    PROVE  Updated(c, m, calls[c].command.target, calls[c].command)
<1> DEFINE cmd == calls[c].command
           t   == cmd.target
<1>1. /\ calls[c].stage = "decided" /\ calls[c].operation = "update" /\ BodyAccepts(c)
      /\ ~Exists(m)
      /\ memories' = [memories EXCEPT ![m] = Appended(c, cmd, t), ![t] = Close(t, m)]
      /\ links' = links \cup NewLinks(m, cmd) \cup SupersedesLink(m, t)
  BY DEF RememberUpdate
<1>2. t \in Memories /\ Accepted(cmd) /\ Current(t)
  BY <1>1, AcceptedCommand DEF Targeted, BodyAccepts
<1>3. memories \in [Memories -> MemoryRow] /\ m /= t
  BY <1>1, <1>2 DEF MemTypeOK, Current
<1> HIDE DEF cmd
<1>4. /\ memories'[m] = Appended(c, cmd, t) /\ memories'[t] = Close(t, m)
      /\ \A n \in Memories : n /= m /\ n /= t => memories'[n] = memories[n]
  BY <1>1, <1>2, <1>3
<1> QED BY <1>1, <1>2, <1>4 DEF Updated, cmd

LEMMA ReviewWrites ==
    ASSUME MemTypeOK, NEW c \in Callers, NEW m \in Memories,
           NEW state \in {"confirmed", "refuted"}, NEW refs \in Citations,
           ChainConsistent, ReviewMemory(c, m, state, refs)
    PROVE  Judged({m}, refs)
<1>1. /\ Current(m) /\ \A e \in refs : Acceptable(e)
      /\ memories' = [memories EXCEPT ![m].state = state, ![m].evidence = @ \cup refs]
      /\ links' = links
  BY DEF ReviewMemory, ValidateEvidence
<1>2. memories \in [Memories -> MemoryRow] /\ memories[m] \in MemoryRow
  BY DEF MemTypeOK
<1>3. memories'[m] = [memories[m] EXCEPT !.state = state, !.evidence = @ \cup refs]
  BY <1>1, <1>2 DEF MemoryRow
<1>4. memories[m].state /= "superseded"
  BY <1>1 DEF ChainConsistent, Current
<1>5. \A n \in Memories \ {m} : memories'[n] = memories[n]
  BY <1>1, <1>2
<1> QED BY <1>1, <1>3, <1>4, <1>5 DEF Judged, Current

LEMMA ResolveWrites ==
    ASSUME MemTypeOK, NEW c \in Callers, NEW supports \in SUBSET conflict.members,
           NEW refutes \in SUBSET conflict.members, NEW refs \in Citations,
           ResolveConflict(c, supports, refutes, refs)
    PROVE  Judged(Supported(supports) \cup Refuted(refutes), refs)
<1>1. /\ \A e \in refs : Acceptable(e)
      /\ memories' = [m \in Memories |->
            IF m \in Supported(supports)
            THEN [memories[m] EXCEPT !.state = "confirmed", !.evidence = @ \cup refs]
            ELSE IF m \in Refuted(refutes)
            THEN [memories[m] EXCEPT !.state = "refuted"]
            ELSE memories[m]]
      /\ links' = links
      /\ \A m \in supports \cup refutes : Exists(m)
  BY DEF ResolveConflict, ValidateEvidence, Visible
<1>2. supports \cup refutes \subseteq Memories
  BY DEF MemTypeOK, ConflictRow
<1>3. /\ Supported(supports) \subseteq supports /\ Refuted(refutes) \subseteq refutes
      /\ \A m \in Supported(supports) \cup Refuted(refutes) : memories[m].state /= "superseded"
  BY DEF Supported, Refuted
<1>4. \A m \in Memories \ (Supported(supports) \cup Refuted(refutes)) : memories'[m] = memories[m]
  BY <1>1
<1>5. \A m \in Supported(supports) :
         memories'[m] = [memories[m] EXCEPT !.state = "confirmed", !.evidence = @ \cup refs]
  BY <1>1, <1>2, <1>3
<1>6. ASSUME NEW m \in Refuted(refutes), m \notin Supported(supports)
      PROVE  memories'[m] = [memories[m] EXCEPT !.state = "refuted", !.evidence = @ \cup {}]
  <2>1. m \in Memories /\ memories[m] \in MemoryRow
    BY <1>2, <1>3 DEF MemTypeOK
  <2>2. memories'[m] = [memories[m] EXCEPT !.state = "refuted"]
    BY <1>1, <1>6, <2>1
  <2> QED BY <2>1, <2>2 DEF MemoryRow
<1> QED BY <1>1, <1>3, <1>4, <1>5, <1>6 DEF Judged

LEMMA RejectWrites ==
    ASSUME MemTypeOK, NEW c \in Callers, NEW s \in Sources, RejectSource(c, s)
    PROVE  RolledBack(Losing(RunOf[c], s), Reopened(RunOf[c], s))
<1> DEFINE L == Losing(RunOf[c], s)
           R == Reopened(RunOf[c], s)
<1>1. memories' = RollBack(RunOf[c], s) /\ links' = links
  BY DEF RejectSource
<1>2. L \subseteq Memories /\ R \subseteq Memories /\ \A m \in L : Current(m)
  BY DEF Losing, Citing, Reopened
<1>3. \A m \in Memories :
         m \in R <=> \E n \in L : memories[n].supersedes = m /\ memories[m].supersededBy = n
  BY DEF Reopened
<1> HIDE DEF L, R
<1>4. memories' = [m \in Memories |->
        IF m \in L
        THEN [memories[m] EXCEPT !.state = "refuted", !.supersedes = None]
        ELSE IF m \in R
        THEN [memories[m] EXCEPT
                 !.state = IF memories[m].previous = None THEN "tentative" ELSE memories[m].previous,
                 !.closed = FALSE, !.supersededBy = None]
        ELSE memories[m]]
  BY <1>1 DEF RollBack, L, R
<1>5. ASSUME NEW m \in R \ L
      PROVE  \E state \in LiveStates :
                memories'[m] = [memories[m] EXCEPT !.state = state, !.closed = FALSE,
                                                   !.supersededBy = None]
  <2> DEFINE state == IF memories[m].previous = None THEN "tentative" ELSE memories[m].previous
  <2>1. state \in LiveStates
    BY <1>2 DEF MemTypeOK, MemoryRow, LiveStates
  <2> QED BY <1>2, <1>4, <1>5, <2>1
<1> QED BY <1>1, <1>2, <1>3, <1>4, <1>5 DEF RolledBack, L, R

LEMMA StepWrites ==
    ASSUME MemTypeOK, Targeted, ChainConsistent, [Next]_memVars
    PROVE  Written
<1>1. CASE UNCHANGED <<memories, links>>
  BY <1>1 DEF Written
<1>2. ASSUME NEW c \in Callers, NEW s \in Sources, RejectSource(c, s)
      PROVE  Written
  BY <1>2, RejectWrites DEF Written, Losing, Citing, Reopened
<1>3. ASSUME NEW c \in Callers, RememberMerge(c)
      PROVE  Written
  BY <1>3, MergeWrites, DecidedCall DEF Written, RememberMerge, Targeted
<1>4. ASSUME NEW c \in Callers, NEW m \in Memories, RememberAdd(c, m)
      PROVE  Written
  BY <1>4, AddWrites, DecidedCall DEF Written, RememberAdd
<1>5. ASSUME NEW c \in Callers, NEW m \in Memories, RememberUpdate(c, m)
      PROVE  Written
  BY <1>5, UpdateWrites, DecidedCall DEF Written, RememberUpdate, Targeted
<1>6. ASSUME NEW c \in Callers, NEW m \in Memories, NEW state \in {"confirmed", "refuted"},
             NEW refs \in Citations, ReviewMemory(c, m, state, refs)
      PROVE  Written
  BY <1>6, ReviewWrites DEF Written
<1>7. ASSUME NEW c \in Callers, NEW supports \in SUBSET conflict.members,
             NEW refutes \in SUBSET conflict.members, NEW refs \in Citations,
             ResolveConflict(c, supports, refutes, refs)
      PROVE  Written
  <2>1. Supported(supports) \cup Refuted(refutes) \in SUBSET Memories
    BY DEF MemTypeOK, ConflictRow, Supported, Refuted
  <2> QED BY <1>7, <2>1, ResolveWrites DEF Written
<1> QED
  BY <1>1, <1>2, <1>3, <1>4, <1>5, <1>6, <1>7
     DEF Next, memVars, Govern, Publish, Judge, RegisterSource, AddEvidence, StartRemember,
         RememberNothing, EnqueueEmbedding, CompleteEmbedding, ReportConflict

-----------------------------------------------------------------------------
(* The inductive invariant.                                                *)

\* A row that does not exist says nothing.
Unwritten == \A m \in Memories : ~Exists(m) => memories[m] = NoMemory

\* A memory is linked to the one it supersedes.
SupersessionLinked ==
    \A m, n \in Memories : memories[m].supersedes = n => <<m, n, "supersedes">> \in links

\* Memories each of whose successors is among them too include a current one: following
\* the chain from any memory does not run in a circle.
Headed ==
    \A S \in SUBSET Memories :
        /\ S /= {}
        /\ \A m \in S : /\ Exists(m)
                        /\ memories[m].supersededBy /= None => memories[m].supersededBy \in S
        => \E m \in S : Current(m)

StoreInv ==
    MemTypeOK /\ Targeted /\ Unwritten /\ ChainConsistent /\ SupersessionLinked /\ Headed
    /\ DerivedShareEvidence

LEMMA InitStore == Init => StoreInv
<1> SUFFICES ASSUME Init PROVE StoreInv
  OBVIOUS
<1> USE NullAssumption
<1>1. \A m \in Memories : memories[m] = NoMemory
  BY DEF Init
<1>2. MemTypeOK
  BY DEF Init, MemTypeOK, SourceRow, NoSource, MemoryRow, NoMemory, ConflictRow, NoConflict,
         LiveStates
<1>3. Targeted /\ DerivedShareEvidence
  BY DEF Init, Targeted, NoCall, DerivedShareEvidence
<1>4. \A m \in Memories : ~Exists(m)
  BY <1>1 DEF NoMemory, Exists
<1>5. Unwritten /\ Headed
  BY <1>1, <1>4 DEF Unwritten, Headed
<1>6. ChainConsistent /\ SupersessionLinked
  BY <1>1 DEF ChainConsistent, SupersessionLinked, NoMemory
<1> QED BY <1>2, <1>3, <1>5, <1>6 DEF StoreInv

LEMMA TargetedStep ==
    ASSUME MemTypeOK, Targeted, [Next]_memVars
    PROVE  Targeted'
<1> SUFFICES ASSUME NEW d \in Callers, calls'[d].stage = "decided",
                    calls'[d].operation \in {"merge", "update"}
             PROVE  calls'[d].command.target \in Memories
  BY DEF Targeted
<1>1. calls \in [Callers -> {NoCall} \cup [stage : {"decided"}, command : UNION {Sent[c] : c \in Callers},
                                          operation : {"add", "merge", "update", "noop"}]
                                   \cup [stage : {"stored"}, memory : Memories]]
  BY DEF MemTypeOK
<1>2. CASE calls'[d] = calls[d]
  BY <1>2 DEF Targeted
<1>3. ASSUME NEW c \in Callers, NEW cmd \in Sent[c], StartRemember(c, cmd)
      PROVE  calls'[d].command.target \in Memories
  <2>1. CASE d = c
    <3>1. calls'[d] = [stage |-> "decided", command |-> cmd, operation |-> Decide(RunOf[c], cmd)]
      BY <1>1, <1>3, <2>1 DEF StartRemember
    <3>2. cmd \in Commands
      BY SentAssumption
    <3> QED BY <3>1, <3>2, DecideTargets
  <2>2. CASE d /= c
    BY <1>1, <1>2, <1>3, <2>2 DEF StartRemember
  <2> QED BY <2>1, <2>2
<1>4. ASSUME NEW c \in Callers, RememberNothing(c) \/ EnqueueEmbedding(c)
      PROVE  calls'[d].command.target \in Memories
  <2>1. calls'[d] = calls[d] \/ calls'[d] = NoCall
    BY <1>1, <1>4 DEF RememberNothing, EnqueueEmbedding
  <2> QED BY <1>2, <2>1 DEF NoCall
<1>5. ASSUME NEW c \in Callers, NEW m, calls' = [calls EXCEPT ![c] = [stage |-> "stored", memory |-> m]]
      PROVE  calls'[d].command.target \in Memories
  <2>1. calls'[d] = calls[d] \/ calls'[d] = [stage |-> "stored", memory |-> m]
    BY <1>1, <1>5
  <2> QED BY <1>2, <2>1
<1>6. ASSUME NEW c \in Callers, Publish(c)
      PROVE  calls'[d].command.target \in Memories
  BY <1>3, <1>4, <1>5, <1>6 DEF Publish, RememberMerge, RememberAdd, RememberUpdate
<1>7. CASE UNCHANGED calls
  BY <1>2, <1>7
<1>8. ASSUME NEW c \in Callers, Govern(c) \/ Judge(c)
      PROVE  UNCHANGED calls
  BY <1>8 DEF Govern, Judge, RegisterSource, RejectSource, AddEvidence, ReviewMemory,
              ReportConflict, ResolveConflict
<1> QED BY <1>6, <1>7, <1>8 DEF Next, memVars, CompleteEmbedding

-----------------------------------------------------------------------------
(* Rows and the chains they form.                                          *)

LEMMA RolledRow ==
    ASSUME MemTypeOK, NEW L \in SUBSET Memories, NEW R \in SUBSET Memories, RolledBack(L, R),
           NEW m \in Memories
    PROVE  /\ memories'[m].evidence = memories[m].evidence
           /\ m \in L => /\ memories'[m].state = "refuted" /\ memories'[m].supersedes = None
                         /\ memories'[m].supersededBy = memories[m].supersededBy
                         /\ memories'[m].closed = memories[m].closed
           /\ m \in R \ L => /\ memories'[m].state \in LiveStates
                             /\ memories'[m].supersedes = memories[m].supersedes
                             /\ memories'[m].supersededBy = None /\ ~memories'[m].closed
           /\ m \notin L \cup R => memories'[m] = memories[m]
<1> memories[m] \in MemoryRow
  BY DEF MemTypeOK
<1>1. CASE m \in L
  <2>1. memories'[m] = [memories[m] EXCEPT !.state = "refuted", !.supersedes = None]
    BY <1>1 DEF RolledBack
  <2> QED BY <1>1, <2>1 DEF MemoryRow
<1>2. CASE m \in R \ L
  <2>1. PICK state \in LiveStates :
           memories'[m] = [memories[m] EXCEPT !.state = state, !.closed = FALSE,
                                              !.supersededBy = None]
    BY <1>2 DEF RolledBack
  <2>2. /\ memories'[m].state = state /\ memories'[m].closed = FALSE
        /\ memories'[m].supersededBy = None
        /\ memories'[m].evidence = memories[m].evidence
        /\ memories'[m].supersedes = memories[m].supersedes
    BY <2>1 DEF MemoryRow
  <2> QED BY <1>2, <2>2
<1>3. CASE m \notin L \cup R
  BY <1>3 DEF RolledBack
<1> QED BY <1>1, <1>2, <1>3

LEMMA JudgedRow ==
    ASSUME MemTypeOK, NEW S \in SUBSET Memories, NEW refs, Judged(S, refs),
           NEW m \in Memories
    PROVE  /\ memories[m].evidence \subseteq memories'[m].evidence
           /\ memories'[m].evidence \subseteq memories[m].evidence \cup refs
           /\ memories'[m].supersedes = memories[m].supersedes
           /\ memories'[m].supersededBy = memories[m].supersededBy
           /\ memories'[m].closed = memories[m].closed
           /\ m \in S => /\ memories'[m].state \in {"confirmed", "refuted"}
                         /\ memories[m].state /= "superseded" /\ Exists(m)
           /\ m \notin S => memories'[m] = memories[m]
<1> memories[m] \in MemoryRow
  BY DEF MemTypeOK
<1>1. CASE m \in S
  <2>1. PICK state \in {"confirmed", "refuted"}, gained \in {{}, refs} :
           memories'[m] = [memories[m] EXCEPT !.state = state, !.evidence = @ \cup gained]
    BY <1>1 DEF Judged
  <2>2. gained \subseteq refs
    OBVIOUS
  <2> QED BY <1>1, <2>1, <2>2 DEF MemoryRow, Judged
<1>2. CASE m \notin S
  BY <1>2 DEF Judged
<1> QED BY <1>1, <1>2

LEMMA MergedRow ==
    ASSUME MemTypeOK, NEW t \in Memories, NEW cmd, Merged(t, cmd), NEW m \in Memories
    PROVE  /\ memories'[m].evidence =
                  IF m = t THEN memories[m].evidence \cup cmd.evidence ELSE memories[m].evidence
           /\ memories'[m].state = memories[m].state
           /\ memories'[m].supersedes = memories[m].supersedes
           /\ memories'[m].supersededBy = memories[m].supersededBy
           /\ memories'[m].closed = memories[m].closed
           /\ m /= t => memories'[m] = memories[m]
<1> memories[m] \in MemoryRow
  BY DEF MemTypeOK
<1> QED BY ZenonT(40) DEF Merged, MemoryRow

LEMMA ClosedRow ==
    ASSUME MemTypeOK, NEW c \in Callers, NEW m \in Memories, NEW t \in Memories, NEW cmd,
           Updated(c, m, t, cmd)
    PROVE  /\ m /= t
           /\ memories'[t].evidence = memories[t].evidence
           /\ memories'[t].state = "superseded" /\ memories'[t].closed
           /\ memories'[t].supersedes = memories[t].supersedes
           /\ memories'[t].supersededBy = m
<1> memories[t] \in MemoryRow
  BY DEF MemTypeOK
<1> QED BY DEF Updated, Close, MemoryRow, Current

\* No step takes a citation from a memory or a link from the store.
LEMMA NothingForgotten ==
    ASSUME MemTypeOK, Unwritten, Written
    PROVE  /\ links \subseteq links'
           /\ \A n \in Memories : memories[n].evidence \subseteq memories'[n].evidence
<1> DEFINE Goal == /\ links \subseteq links'
                   /\ \A n \in Memories : memories[n].evidence \subseteq memories'[n].evidence
<1>1. CASE UNCHANGED <<memories, links>>
  BY <1>1
<1>2. ASSUME NEW L \in SUBSET Memories, NEW R \in SUBSET Memories, RolledBack(L, R)
      PROVE  Goal
  <2>1. links' = links
    BY <1>2 DEF RolledBack
  <2>2. \A n \in Memories : memories'[n].evidence = memories[n].evidence
    BY <1>2, RolledRow
  <2> QED BY <2>1, <2>2
<1>3. ASSUME NEW t \in Memories, NEW cmd \in Commands, Merged(t, cmd)
      PROVE  Goal
  BY <1>3, MergedRow DEF Merged
<1>4. ASSUME NEW c \in Callers, NEW m \in Memories, NEW cmd \in Commands, Added(c, m, cmd)
      PROVE  Goal
  BY <1>4 DEF Added, Unwritten, NoMemory
<1>5. ASSUME NEW c \in Callers, NEW m \in Memories, NEW t \in Memories, NEW cmd \in Commands,
             Updated(c, m, t, cmd)
      PROVE  Goal
  BY <1>5, ClosedRow DEF Updated, Unwritten, NoMemory
<1>6. ASSUME NEW S \in SUBSET Memories, NEW refs \in Citations, Judged(S, refs)
      PROVE  Goal
  <2>1. links' = links
    BY <1>6 DEF Judged
  <2>2. \A n \in Memories : memories[n].evidence \subseteq memories'[n].evidence
    BY <1>6, JudgedRow
  <2> QED BY <2>1, <2>2
<1> QED BY <1>1, <1>2, <1>3, <1>4, <1>5, <1>6 DEF Written

LEMMA UnwrittenStep ==
    ASSUME MemTypeOK, Unwritten, Written
    PROVE  Unwritten'
<1> SUFFICES ASSUME NEW m \in Memories, memories'[m].state = "absent"
             PROVE  memories'[m] = NoMemory
  BY DEF Unwritten, Exists
<1>0. CASE memories'[m] = memories[m]
  BY <1>0 DEF Unwritten, Exists
<1>1. ASSUME NEW L \in SUBSET Memories, NEW R \in SUBSET Memories, RolledBack(L, R)
      PROVE  memories'[m] = memories[m]
  BY <1>1, RolledRow DEF LiveStates
<1>2. ASSUME NEW t \in Memories, NEW cmd \in Commands, Merged(t, cmd)
      PROVE  memories'[m] = memories[m]
  BY <1>2, MergedRow, ZenonT(40) DEF Merged, Current, Exists
<1>3. ASSUME NEW c \in Callers, NEW k \in Memories, NEW cmd \in Commands, Added(c, k, cmd)
      PROVE  memories'[m] = memories[m]
  BY <1>3, CommandFields DEF Added, Appended, LiveStates
<1>4. ASSUME NEW c \in Callers, NEW k \in Memories, NEW t \in Memories, NEW cmd \in Commands,
             Updated(c, k, t, cmd)
      PROVE  memories'[m] = memories[m]
  BY <1>4, CommandFields, ClosedRow DEF Updated, Appended, LiveStates
<1>5. ASSUME NEW S \in SUBSET Memories, NEW refs \in Citations, Judged(S, refs)
      PROVE  memories'[m] = memories[m]
  BY <1>5, JudgedRow
<1> QED BY <1>0, <1>1, <1>2, <1>3, <1>4, <1>5 DEF Written

\* No step leaves a supersession with one of its two ends.
LEMMA ChainStep ==
    ASSUME MemTypeOK, Unwritten, ChainConsistent, Written
    PROVE  ChainConsistent'
<1> DEFINE Row(m) == /\ memories'[m].closed <=> memories'[m].state = "superseded"
                     /\ memories'[m].closed <=> memories'[m].supersededBy /= None
           Ends(m, n) == memories'[m].supersedes = n <=> memories'[n].supersededBy = m
<1> SUFFICES ASSUME NEW m \in Memories, NEW n \in Memories
             PROVE  Row(m) /\ Ends(m, n)
  BY DEF ChainConsistent
<1>0. /\ memories[m].supersedes = n <=> memories[n].supersededBy = m
      /\ memories[m].closed <=> memories[m].state = "superseded"
      /\ memories[m].closed <=> memories[m].supersededBy /= None
      /\ memories[m] \in MemoryRow /\ memories[n] \in MemoryRow
  BY DEF ChainConsistent, MemTypeOK
<1> USE NullAssumption
<1>1. CASE UNCHANGED <<memories, links>>
  BY <1>0, <1>1
<1>2. ASSUME NEW L \in SUBSET Memories, NEW R \in SUBSET Memories, RolledBack(L, R)
      PROVE  Row(m) /\ Ends(m, n)
  <2>1. /\ \A k \in L : Current(k) /\ memories[k].supersededBy = None
        /\ \A k \in R : \E l \in L : memories[l].supersedes = k /\ memories[k].supersededBy = l
        /\ \A k \in Memories, l \in L :
              memories[l].supersedes = k /\ memories[k].supersededBy = l => k \in R
    <3>1. \A k \in L : Current(k) /\ memories[k].supersededBy = None
      BY <1>2 DEF RolledBack, ChainConsistent, Current
    <3>2. \A k \in R : \E l \in L : memories[l].supersedes = k /\ memories[k].supersededBy = l
      BY <1>2 DEF RolledBack
    <3>3. \A k \in Memories, l \in L :
             memories[l].supersedes = k /\ memories[k].supersededBy = l => k \in R
      BY <1>2 DEF RolledBack
    <3> QED BY <3>1, <3>2, <3>3
  <2>2. L \cap R = {}
    BY <2>1
  <2>3. Row(m)
    BY <1>0, <1>2, <2>1, <2>2, RolledRow, SMTT(30) DEF Current, LiveStates
  <2>4. ASSUME m \in L
        PROVE  Ends(m, n)
    <3>1. memories'[m].supersedes /= n
      BY <1>2, <2>4, RolledRow
    <3>2. CASE n \in R
      <4>1. memories'[n].supersededBy = None
        BY <1>2, <2>2, <3>2, RolledRow
      <4> QED BY <3>1, <4>1
    <3>3. CASE n \notin R
      <4>1. memories'[n].supersededBy = memories[n].supersededBy
        BY <1>2, <3>3, RolledRow
      <4>2. memories[n].supersededBy /= m
        BY <1>0, <2>1, <2>4, <3>3
      <4> QED BY <3>1, <4>1, <4>2
    <3> QED BY <3>2, <3>3
  <2>5. ASSUME m \notin L
        PROVE  Ends(m, n)
    <3>1. memories'[m].supersedes = memories[m].supersedes
      BY <1>2, <2>5, RolledRow
    <3>2. CASE n \in R
      <4>1. memories'[n].supersededBy = None
        BY <1>2, <2>2, <3>2, RolledRow
      <4>2. memories[n].supersededBy /= m
        BY <2>1, <2>5, <3>2
      <4> QED BY <1>0, <3>1, <4>1, <4>2
    <3>3. CASE n \notin R
      <4>1. memories'[n].supersededBy = memories[n].supersededBy
        BY <1>2, <3>3, RolledRow
      <4> QED BY <1>0, <3>1, <4>1
    <3> QED BY <3>2, <3>3
  <2> QED BY <2>3, <2>4, <2>5
<1>3. ASSUME NEW t \in Memories, NEW cmd \in Commands, Merged(t, cmd)
      PROVE  Row(m) /\ Ends(m, n)
  BY <1>0, <1>3, MergedRow
<1>4. ASSUME NEW c \in Callers, NEW k \in Memories, NEW cmd \in Commands, Added(c, k, cmd)
      PROVE  Row(m) /\ Ends(m, n)
  <2>1. memories[k] = NoMemory
    BY <1>4 DEF Added, Unwritten
  <2>2. /\ memories'[k].state \in LiveStates /\ memories'[k].closed = FALSE
        /\ memories'[k].supersedes = None /\ memories'[k].supersededBy = None
    BY <1>4, CommandFields DEF Added, Appended
  <2>3. \A l \in Memories : l /= k => memories'[l] = memories[l]
    BY <1>4 DEF Added
  <2>4. Row(m)
    BY <1>0, <2>2, <2>3 DEF LiveStates
  <2>5. /\ memories'[m].supersedes = memories[m].supersedes
        /\ memories'[n].supersededBy = memories[n].supersededBy
    BY <2>1, <2>2, <2>3 DEF NoMemory
  <2> QED BY <1>0, <2>4, <2>5
<1>5. ASSUME NEW c \in Callers, NEW k \in Memories, NEW t \in Memories, NEW cmd \in Commands,
             Updated(c, k, t, cmd)
      PROVE  Row(m) /\ Ends(m, n)
  <2>1. memories[k] = NoMemory /\ memories[t].supersededBy = None /\ k /= t
    BY <1>5, ClosedRow DEF Updated, Unwritten, Current, ChainConsistent
  <2>2. /\ memories'[k].state \in LiveStates /\ memories'[k].closed = FALSE
        /\ memories'[k].supersedes = t /\ memories'[k].supersededBy = None
    BY <1>5, CommandFields DEF Updated, Appended
  <2>3. \A l \in Memories : l /= k /\ l /= t => memories'[l] = memories[l]
    BY <1>5 DEF Updated
  <2>4. /\ memories'[t].state = "superseded" /\ memories'[t].closed = TRUE
        /\ memories'[t].supersedes = memories[t].supersedes /\ memories'[t].supersededBy = k
    BY <1>5, ClosedRow
  <2>5. Row(m)
    BY <1>0, <2>2, <2>3, <2>4 DEF LiveStates
  <2>6. /\ memories'[m].supersedes = IF m = k THEN t ELSE memories[m].supersedes
        /\ memories'[n].supersededBy = IF n = t THEN k ELSE memories[n].supersededBy
    BY <2>1, <2>2, <2>3, <2>4 DEF NoMemory
  <2>7. memories[k].supersedes /= n /\ memories[t].supersededBy /= m
    BY <2>1 DEF NoMemory
  <2> QED BY <1>0, <2>5, <2>6, <2>7
<1>6. ASSUME NEW S \in SUBSET Memories, NEW refs \in Citations, Judged(S, refs)
      PROVE  Row(m) /\ Ends(m, n)
  <2>1. /\ memories'[n].supersededBy = memories[n].supersededBy
        /\ memories'[m].supersedes = memories[m].supersedes
        /\ memories'[m].supersededBy = memories[m].supersededBy
        /\ memories'[m].closed = memories[m].closed
    BY <1>6, JudgedRow
  <2>2. memories'[m].state = "superseded" <=> memories[m].state = "superseded"
    BY <1>6, JudgedRow
  <2> QED BY <1>0, <2>1, <2>2
<1> QED BY <1>1, <1>2, <1>3, <1>4, <1>5, <1>6 DEF Written

LEMMA SupersessionStep ==
    ASSUME MemTypeOK, Unwritten, SupersessionLinked, Written
    PROVE  SupersessionLinked'
<1> SUFFICES ASSUME NEW m \in Memories, NEW n \in Memories, memories'[m].supersedes = n
             PROVE  <<m, n, "supersedes">> \in links'
  BY DEF SupersessionLinked
<1>0. CASE memories[m].supersedes = n
  BY <1>0, NothingForgotten DEF SupersessionLinked
<1> USE NullAssumption
<1>1. CASE UNCHANGED <<memories, links>>
  BY <1>0, <1>1
<1>2. ASSUME NEW L \in SUBSET Memories, NEW R \in SUBSET Memories, RolledBack(L, R)
      PROVE  memories[m].supersedes = n
  BY <1>2, RolledRow
<1>3. ASSUME NEW t \in Memories, NEW cmd \in Commands, Merged(t, cmd)
      PROVE  memories[m].supersedes = n
  BY <1>3, MergedRow
<1>4. ASSUME NEW c \in Callers, NEW k \in Memories, NEW cmd \in Commands, Added(c, k, cmd)
      PROVE  memories[m].supersedes = n
  BY <1>4 DEF Added, Appended
<1>5. ASSUME NEW c \in Callers, NEW k \in Memories, NEW t \in Memories, NEW cmd \in Commands,
             Updated(c, k, t, cmd)
      PROVE  <<m, n, "supersedes">> \in links'
  <2>1. CASE m = k
    <3>1. n = t
      BY <1>5, <2>1 DEF Updated, Appended
    <3> QED BY <1>5, <2>1, <3>1 DEF Updated, SupersedesLink
  <2>2. CASE m /= k
    BY <1>0, <1>5, <2>2, ClosedRow DEF Updated
  <2> QED BY <2>1, <2>2
<1>6. ASSUME NEW S \in SUBSET Memories, NEW refs \in Citations, Judged(S, refs)
      PROVE  memories[m].supersedes = n
  BY <1>6, JudgedRow
<1> QED BY <1>0, <1>1, <1>2, <1>3, <1>4, <1>5, <1>6 DEF Written

\* A step that joins a circle would have to close its last current memory, and what it
\* closes it gives a current successor; what it reopens is current.
LEMMA HeadedStep ==
    ASSUME MemTypeOK, Unwritten, ChainConsistent, Headed, Written
    PROVE  Headed'
<1> SUFFICES ASSUME NEW S \in SUBSET Memories, S /= {},
                    \A m \in S : /\ memories'[m].state /= "absent"
                                 /\ memories'[m].supersededBy /= None =>
                                       memories'[m].supersededBy \in S
             PROVE  \E m \in S : memories'[m].state /= "absent" /\ ~memories'[m].closed
  BY DEF Headed, Exists, Current
<1> USE NullAssumption
<1>0. ASSUME \A m \in S : /\ memories[m].state /= "absent"
                          /\ memories'[m].supersededBy = memories[m].supersededBy
                          /\ memories'[m].closed = memories[m].closed
      PROVE  \E m \in S : ~memories'[m].closed
  <2>1. \A m \in S : Exists(m) /\ (memories[m].supersededBy /= None => memories[m].supersededBy \in S)
    BY <1>0 DEF Exists
  <2>2. \E m \in S : Current(m)
    BY <2>1 DEF Headed
  <2> QED BY <1>0, <2>2 DEF Current
<1>1. CASE UNCHANGED <<memories, links>>
  BY <1>0, <1>1
<1>2. ASSUME NEW L \in SUBSET Memories, NEW R \in SUBSET Memories, RolledBack(L, R)
      PROVE  \E m \in S : ~memories'[m].closed
  <2>1. CASE \E m \in S : m \in L \cup R
    <3>1. PICK m \in S : m \in L \cup R
      BY <2>1
    <3>2. m \in L => ~memories[m].closed
      BY <1>2 DEF RolledBack, Current
    <3> QED BY <1>2, <3>1, <3>2, RolledRow
  <2>2. CASE ~ \E m \in S : m \in L \cup R
    BY <1>0, <1>2, <2>2, RolledRow
  <2> QED BY <2>1, <2>2
<1>3. ASSUME NEW t \in Memories, NEW cmd \in Commands, Merged(t, cmd)
      PROVE  \E m \in S : ~memories'[m].closed
  <2>1. ASSUME NEW m \in S
        PROVE  /\ memories'[m].state = memories[m].state /\ memories'[m].closed = memories[m].closed
               /\ memories'[m].supersededBy = memories[m].supersededBy
    <3>1. m \in Memories
      OBVIOUS
    <3> QED BY <1>3, <3>1, MergedRow, Zenon
  <2> QED BY <1>0, <2>1
<1>4. ASSUME NEW c \in Callers, NEW k \in Memories, NEW cmd \in Commands, Added(c, k, cmd)
      PROVE  \E m \in S : ~memories'[m].closed
  <2>1. CASE k \in S
    BY <1>4, <2>1 DEF Added, Appended
  <2>2. CASE k \notin S
    BY <1>0, <1>4, <2>2 DEF Added
  <2> QED BY <2>1, <2>2
<1>5. ASSUME NEW c \in Callers, NEW k \in Memories, NEW t \in Memories, NEW cmd \in Commands,
             Updated(c, k, t, cmd)
      PROVE  \E m \in S : ~memories'[m].closed
  <2>1. CASE k \in S
    BY <1>5, <2>1 DEF Updated, Appended
  <2>2. CASE k \notin S
    <3>1. t \notin S
      BY <1>5, <2>2, ClosedRow
    <3> QED BY <1>0, <1>5, <2>2, <3>1 DEF Updated
  <2> QED BY <2>1, <2>2
<1>6. ASSUME NEW T \in SUBSET Memories, NEW refs \in Citations, Judged(T, refs)
      PROVE  \E m \in S : ~memories'[m].closed
  <2>1. \A m \in Memories : /\ memories'[m].supersededBy = memories[m].supersededBy
                            /\ memories'[m].closed = memories[m].closed
    BY <1>6, JudgedRow
  <2>2. \A m \in Memories : memories[m].state = "absent" => memories'[m].state = "absent"
    BY <1>6, JudgedRow DEF Exists
  <2> QED BY <1>0, <2>1, <2>2
<1> QED BY <1>1, <1>2, <1>3, <1>4, <1>5, <1>6 DEF Written

\* A derivation cites something of what it derives from when it is linked, and no citation
\* is taken back.
LEMMA DerivedStep ==
    ASSUME MemTypeOK, Unwritten, DerivedShareEvidence, Written
    PROVE  DerivedShareEvidence'
<1> DEFINE Shares(e) == memories'[e[1]].evidence \cap memories'[e[2]].evidence /= {}
<1> SUFFICES ASSUME NEW e \in links', e[3] = "derived_from"
             PROVE  Shares(e)
  BY DEF DerivedShareEvidence
<1>0. CASE e \in links
  <2>1. e[1] \in Memories /\ e[2] \in Memories
    BY <1>0 DEF MemTypeOK
  <2>2. memories[e[1]].evidence \cap memories[e[2]].evidence /= {}
    BY <1>0 DEF DerivedShareEvidence
  <2> QED BY <2>1, <2>2, NothingForgotten
<1>1. ASSUME NEW m \in Memories, NEW cmd \in Commands, Accepted(cmd), e \in NewLinks(m, cmd),
             cmd.evidence \subseteq memories'[m].evidence
      PROVE  Shares(e)
  <2>1. cmd.link /= None /\ e = <<m, cmd.link[2], cmd.link[1]>> /\ cmd.link[1] = "derived_from"
    BY <1>1 DEF NewLinks
  <2>2. /\ cmd.link[2] \in Memories /\ cmd.evidence /= {}
        /\ cmd.evidence \subseteq memories[cmd.link[2]].evidence
    BY <1>1, <2>1, CommandFields DEF Accepted
  <2>3. cmd.evidence \subseteq memories'[cmd.link[2]].evidence
    BY <2>2, NothingForgotten
  <2> QED BY <1>1, <2>1, <2>2, <2>3
<1>2. CASE links' = links
  BY <1>0, <1>2
<1>3. ASSUME NEW t \in Memories, NEW cmd \in Commands, Merged(t, cmd)
      PROVE  Shares(e)
  <2>1. Accepted(cmd) /\ links' = links \cup NewLinks(t, cmd)
    BY <1>3 DEF Merged
  <2>2. memories'[t].evidence = memories[t].evidence \cup cmd.evidence
    BY <1>3, MergedRow
  <2>3. cmd.evidence \subseteq memories'[t].evidence
    BY <2>2
  <2> QED BY <1>0, <1>1, <2>1, <2>3
<1>4. ASSUME NEW c \in Callers, NEW m \in Memories, NEW cmd \in Commands, Added(c, m, cmd)
      PROVE  Shares(e)
  BY <1>0, <1>1, <1>4 DEF Added, Appended
<1>5. ASSUME NEW c \in Callers, NEW m \in Memories, NEW t \in Memories, NEW cmd \in Commands,
             Updated(c, m, t, cmd)
      PROVE  Shares(e)
  <2>1. e \in links \cup NewLinks(m, cmd)
    BY <1>5 DEF Updated, SupersedesLink
  <2>2. cmd.evidence \subseteq memories'[m].evidence
    BY <1>5 DEF Updated, Appended
  <2> QED BY <1>0, <1>1, <1>5, <2>1, <2>2 DEF Updated
<1> QED BY <1>2, <1>3, <1>4, <1>5 DEF Written, RolledBack, Judged

-----------------------------------------------------------------------------
(* Types.                                                                  *)

LEMMA AppendedTyped ==
    ASSUME NEW c \in Callers, NEW cmd \in Commands, NEW p \in Memories \cup {None}
    PROVE  Appended(c, cmd, p) \in MemoryRow
  BY CommandFields, CallerAssumption DEF Appended, MemoryRow

\* What is closed has a live state to return to: that the chains are consistent is needed
\* for the types.
LEMMA MemoriesTyped ==
    ASSUME MemTypeOK, Targeted, ChainConsistent, NEW c \in Callers
    PROVE  /\ \A s \in Sources : RejectSource(c, s) => memories' \in [Memories -> MemoryRow]
           /\ RememberMerge(c) => memories' \in [Memories -> MemoryRow]
           /\ \A m \in Memories : RememberAdd(c, m) \/ RememberUpdate(c, m)
                 => memories' \in [Memories -> MemoryRow]
           /\ \A m \in Memories, state \in {"confirmed", "refuted"}, refs \in Citations :
                 ReviewMemory(c, m, state, refs) => memories' \in [Memories -> MemoryRow]
           /\ \A supports, refutes \in SUBSET conflict.members, refs \in Citations :
                 ResolveConflict(c, supports, refutes, refs)
                    => memories' \in [Memories -> MemoryRow]
<1>0. memories \in [Memories -> MemoryRow]
  BY DEF MemTypeOK
<1>1. ASSUME NEW s \in Sources, RejectSource(c, s)
      PROVE  memories' \in [Memories -> MemoryRow]
  <2> DEFINE row(m) == IF m \in Losing(RunOf[c], s)
        THEN [memories[m] EXCEPT !.state = "refuted", !.supersedes = None]
        ELSE IF m \in Reopened(RunOf[c], s)
        THEN [memories[m] EXCEPT
                 !.state = IF memories[m].previous = None THEN "tentative" ELSE memories[m].previous,
                 !.closed = FALSE, !.supersededBy = None]
        ELSE memories[m]
  <2>1. memories' = [m \in Memories |-> row(m)]
    BY <1>1 DEF RejectSource, RollBack
  <2>2. ASSUME NEW m \in Memories
        PROVE  row(m) \in MemoryRow
    BY <1>0, ZenonT(40) DEF MemoryRow, LiveStates
  <2> HIDE DEF row
  <2> QED BY <2>1, <2>2
<1>2. ASSUME RememberMerge(c)
      PROVE  memories' \in [Memories -> MemoryRow]
  <2> DEFINE cmd == calls[c].command
             t   == cmd.target
             row == [memories[t] EXCEPT !.evidence = @ \cup cmd.evidence]
  <2>1. t \in Memories /\ cmd \in Commands
    BY <1>2, DecidedCall DEF RememberMerge, Targeted
  <2>2. memories' = [memories EXCEPT ![t].evidence = @ \cup cmd.evidence]
    BY <1>2 DEF RememberMerge
  <2> HIDE DEF cmd
  <2>3. row \in MemoryRow
    BY <1>0, <2>1, CommandFields DEF MemoryRow
  <2> QED BY <1>0, <2>1, <2>2, <2>3
<1>3. ASSUME NEW m \in Memories, RememberAdd(c, m)
      PROVE  memories' \in [Memories -> MemoryRow]
  <2>1. Appended(c, calls[c].command, None) \in MemoryRow
    BY <1>3, DecidedCall, AppendedTyped DEF RememberAdd
  <2> QED BY <1>0, <1>3, <2>1 DEF RememberAdd
<1>4. ASSUME NEW m \in Memories, RememberUpdate(c, m)
      PROVE  memories' \in [Memories -> MemoryRow]
  <2> DEFINE cmd == calls[c].command
             t   == cmd.target
  <2>1. t \in Memories /\ cmd \in Commands
    BY <1>4, DecidedCall DEF RememberUpdate, Targeted
  <2>2. memories' = [memories EXCEPT ![m] = Appended(c, cmd, t), ![t] = Close(t, m)]
    BY <1>4 DEF RememberUpdate
  <2>3. Current(t)
    BY <1>4 DEF RememberUpdate, BodyAccepts
  <2> HIDE DEF cmd
  <2>4. Appended(c, cmd, t) \in MemoryRow
    BY <2>1, AppendedTyped
  <2>5. memories[t].state \in LiveStates
    BY <1>0, <2>1, <2>3 DEF MemoryRow, Current, Exists, ChainConsistent
  <2>6. memories[t] \in MemoryRow
    BY <1>0, <2>1
  <2>7. Close(t, m) \in MemoryRow
    BY <2>5, <2>6 DEF MemoryRow, Close
  <2> QED BY <1>0, <2>1, <2>2, <2>4, <2>7
<1>5. ASSUME NEW m \in Memories, NEW state \in {"confirmed", "refuted"}, NEW refs \in Citations,
             ReviewMemory(c, m, state, refs)
      PROVE  memories' \in [Memories -> MemoryRow]
  <2> DEFINE row == [memories[m] EXCEPT !.state = state, !.evidence = @ \cup refs]
  <2>1. row \in MemoryRow
    BY <1>0 DEF MemoryRow, LiveStates, Citations
  <2>2. memories' = [memories EXCEPT ![m] = row]
    BY <1>0, <1>5 DEF ReviewMemory, MemoryRow
  <2> QED BY <1>0, <2>1, <2>2
<1>6. ASSUME NEW supports \in SUBSET conflict.members, NEW refutes \in SUBSET conflict.members,
             NEW refs \in Citations, ResolveConflict(c, supports, refutes, refs)
      PROVE  memories' \in [Memories -> MemoryRow]
  <2> DEFINE row(m) == IF m \in Supported(supports)
          THEN [memories[m] EXCEPT !.state = "confirmed", !.evidence = @ \cup refs]
          ELSE IF m \in Refuted(refutes)
          THEN [memories[m] EXCEPT !.state = "refuted"]
          ELSE memories[m]
  <2>1. memories' = [m \in Memories |-> row(m)]
    BY <1>6 DEF ResolveConflict
  <2>2. ASSUME NEW m \in Memories
        PROVE  row(m) \in MemoryRow
    <3>1. memories[m] \in MemoryRow /\ refs \subseteq Evidence
      BY <1>0 DEF Citations
    <3>2. [memories[m] EXCEPT !.state = "confirmed", !.evidence = @ \cup refs] \in MemoryRow
      BY <3>1 DEF MemoryRow, LiveStates
    <3>3. [memories[m] EXCEPT !.state = "refuted"] \in MemoryRow
      BY <3>1 DEF MemoryRow, LiveStates
    <3> QED BY <3>1, <3>2, <3>3
  <2> HIDE DEF row
  <2> QED BY <2>1, <2>2
<1> QED BY <1>1, <1>2, <1>3, <1>4, <1>5, <1>6

LEMMA LinksStep ==
    ASSUME MemTypeOK, Written
    PROVE  links' \subseteq Memories \X Memories \X LinkTypes
<1>0. links \subseteq Memories \X Memories \X LinkTypes
  BY DEF MemTypeOK
<1>1. CASE links' = links
  BY <1>0, <1>1
<1>2. ASSUME NEW m \in Memories, NEW t \in Memories, NEW cmd \in Commands,
             links' \subseteq links \cup NewLinks(m, cmd) \cup SupersedesLink(m, t)
      PROVE  links' \subseteq Memories \X Memories \X LinkTypes
  BY <1>0, <1>2, LinksTyped
<1> QED BY <1>1, <1>2 DEF Written, RolledBack, Judged, Merged, Added, Updated

\* Sources, evidence, calls and vectors.
LEMMA OthersTyped ==
    ASSUME MemTypeOK, Targeted, [Next]_memVars
    PROVE  /\ sources' \in [Sources -> SourceRow] /\ evidence' \subseteq Evidence
           /\ conflict' \in ConflictRow
           /\ embedding' \in [Memories -> {None, "queued", "fresh", "stale"}]
<1> DEFINE Vectors == [Memories -> {None, "queued", "fresh", "stale"}]
           Goal == /\ sources' \in [Sources -> SourceRow] /\ evidence' \subseteq Evidence
                   /\ conflict' \in ConflictRow /\ embedding' \in Vectors
<1>0. /\ sources \in [Sources -> SourceRow] /\ evidence \subseteq Evidence
      /\ conflict \in ConflictRow /\ embedding \in Vectors
  BY DEF MemTypeOK
<1>1. CASE UNCHANGED <<sources, evidence, conflict, embedding>>
  BY <1>0, <1>1
<1>2. ASSUME UNCHANGED <<sources, evidence, conflict>>, NEW S, Advance(S)
      PROVE  Goal
  BY <1>0, <1>2, AdvanceTyped
<1>3. ASSUME NEW c \in Callers, NEW s \in Sources, RegisterSource(c, s)
      PROVE  Goal
  BY <1>0, <1>3, CallerAssumption DEF RegisterSource, SourceRow
<1>4. ASSUME NEW c \in Callers, NEW s \in Sources, RejectSource(c, s)
      PROVE  Goal
  <2>1. sources' \in [Sources -> SourceRow]
    BY <1>0, <1>4 DEF RejectSource, SourceRow
  <2> QED BY <1>0, <1>4, <2>1, AdvanceTyped DEF RejectSource
<1>5. ASSUME NEW c \in Callers, NEW e \in Evidence, AddEvidence(c, e)
      PROVE  Goal
  BY <1>0, <1>5 DEF AddEvidence
<1>6. ASSUME NEW c \in Callers, NEW members \in SUBSET Memories, ReportConflict(c, members)
      PROVE  Goal
  BY <1>0, <1>6, CallerAssumption DEF ReportConflict, ConflictRow
<1>7. ASSUME NEW c \in Callers, NEW supports, NEW refutes, NEW refs,
             ResolveConflict(c, supports, refutes, refs)
      PROVE  Goal
  <2>1. conflict' \in ConflictRow
    BY <1>0, <1>7 DEF ResolveConflict, ConflictRow
  <2> QED BY <1>0, <1>7, <2>1, AdvanceTyped DEF ResolveConflict
<1>8. ASSUME NEW c \in Callers, EnqueueEmbedding(c)
      PROVE  Goal
  BY <1>0, <1>8 DEF EnqueueEmbedding
<1>9. ASSUME NEW m \in Memories, CompleteEmbedding(m)
      PROVE  Goal
  BY <1>0, <1>9 DEF CompleteEmbedding
<1>10. ASSUME NEW c \in Callers, NEW m, NEW state, NEW refs, ReviewMemory(c, m, state, refs)
       PROVE  Goal
  BY <1>2, <1>10 DEF ReviewMemory
<1>11. ASSUME NEW c \in Callers, Publish(c)
       PROVE  Goal
  BY <1>1, <1>2, <1>8, <1>11
     DEF Publish, StartRemember, RememberNothing, RememberMerge, RememberAdd, RememberUpdate
<1> QED
  BY <1>1, <1>3, <1>4, <1>5, <1>6, <1>7, <1>9, <1>10, <1>11 DEF Next, memVars, Govern, Judge

LEMMA CallsTyped ==
    ASSUME MemTypeOK, Targeted, [Next]_memVars
    PROVE  calls' \in [Callers ->
                {NoCall} \cup [stage : {"decided"}, command : UNION {Sent[c] : c \in Callers},
                               operation : {"add", "merge", "update", "noop"}]
                         \cup [stage : {"stored"}, memory : Memories]]
<1> DEFINE Decided == [stage : {"decided"}, command : UNION {Sent[c] : c \in Callers},
                       operation : {"add", "merge", "update", "noop"}]
           Stored  == [stage : {"stored"}, memory : Memories]
           Table   == [Callers -> {NoCall} \cup Decided \cup Stored]
<1>0. calls \in Table
  BY DEF MemTypeOK
<1>1. CASE UNCHANGED calls
  BY <1>0, <1>1
<1>2. ASSUME NEW c \in Callers, NEW cmd \in Sent[c], StartRemember(c, cmd)
      PROVE  calls' \in Table
  <2>1. Decide(RunOf[c], cmd) \in {"add", "merge", "update", "noop"}
    BY SentAssumption, DecideTargets
  <2>2. [stage |-> "decided", command |-> cmd, operation |-> Decide(RunOf[c], cmd)] \in Decided
    BY <2>1
  <2> QED BY <1>0, <1>2, <2>2 DEF StartRemember
<1>3. ASSUME NEW c \in Callers, RememberNothing(c) \/ EnqueueEmbedding(c)
      PROVE  calls' \in Table
  BY <1>0, <1>3 DEF RememberNothing, EnqueueEmbedding
<1>4. ASSUME NEW c \in Callers, NEW m \in Memories,
             calls' = [calls EXCEPT ![c] = [stage |-> "stored", memory |-> m]]
      PROVE  calls' \in Table
  <2>1. [stage |-> "stored", memory |-> m] \in Stored
    OBVIOUS
  <2> QED BY <1>0, <1>4, <2>1
<1>5. ASSUME NEW c \in Callers, RememberMerge(c)
      PROVE  calls' \in Table
  BY <1>4, <1>5 DEF RememberMerge, Targeted
<1>6. ASSUME NEW c \in Callers, NEW m \in Memories, RememberAdd(c, m) \/ RememberUpdate(c, m)
      PROVE  calls' \in Table
  BY <1>4, <1>6 DEF RememberAdd, RememberUpdate
<1>7. ASSUME NEW c \in Callers, Govern(c) \/ Judge(c)
      PROVE  UNCHANGED calls
  BY <1>7 DEF Govern, Judge, RegisterSource, RejectSource, AddEvidence, ReviewMemory,
              ReportConflict, ResolveConflict
<1>8. ASSUME NEW c \in Callers, Publish(c)
      PROVE  calls' \in Table
  BY <1>2, <1>3, <1>5, <1>6, <1>8 DEF Publish
<1>9. ASSUME NEW m \in Memories, CompleteEmbedding(m)
      PROVE  UNCHANGED calls
  BY <1>9 DEF CompleteEmbedding
<1>10. UNCHANGED calls \/ \E c \in Callers : Publish(c)
  BY <1>7, <1>9 DEF Next, memVars
<1> QED BY <1>1, <1>8, <1>10

LEMMA TypesStep ==
    ASSUME MemTypeOK, Targeted, ChainConsistent, [Next]_memVars
    PROVE  MemTypeOK'
<1>0. memories \in [Memories -> MemoryRow]
  BY DEF MemTypeOK
<1>1. memories' \in [Memories -> MemoryRow]
  BY <1>0, MemoriesTyped
     DEF Next, memVars, Govern, Publish, Judge, RegisterSource, AddEvidence, StartRemember,
         RememberNothing, EnqueueEmbedding, CompleteEmbedding, ReportConflict
<1>2. links' \subseteq Memories \X Memories \X LinkTypes
  BY StepWrites, LinksStep
<1> QED BY <1>1, <1>2, OthersTyped, CallsTyped DEF MemTypeOK

-----------------------------------------------------------------------------
LEMMA StoreStep == StoreInv /\ [Next]_memVars => StoreInv'
<1> SUFFICES ASSUME StoreInv, [Next]_memVars PROVE StoreInv'
  OBVIOUS
<1>1. Written
  BY StepWrites DEF StoreInv
<1>2. MemTypeOK' /\ Targeted'
  BY TypesStep, TargetedStep DEF StoreInv
<1>3. Unwritten' /\ ChainConsistent'
  BY <1>1, UnwrittenStep, ChainStep DEF StoreInv
<1>4. SupersessionLinked' /\ Headed'
  BY <1>1, SupersessionStep, HeadedStep DEF StoreInv
<1>5. DerivedShareEvidence'
  BY <1>1, DerivedStep DEF StoreInv
<1> QED BY <1>2, <1>3, <1>4, <1>5 DEF StoreInv

LEMMA StoreSound == Spec => []StoreInv
  BY InitStore, StoreStep, PTL DEF Spec

\* The rows, links and calls of the store keep their shapes; that a closed row has a live
\* state to return to rests on the consistency of the chains.
THEOREM StoreTyped == Spec => []MemTypeOK
<1>1. StoreInv => MemTypeOK
  BY DEF StoreInv
<1> QED BY <1>1, StoreSound, PTL

\* Both ends of a supersession name each other and a row is closed exactly while it is
\* superseded, through updates, merges, reviews, resolutions and roll-backs.
THEOREM ChainsConsistent == Spec => []ChainConsistent
<1>1. StoreInv => ChainConsistent
  BY DEF StoreInv
<1> QED BY <1>1, StoreSound, PTL

\* A derived memory shares evidence with the one it was derived from, for good.
THEOREM DerivationsGrounded == Spec => []DerivedShareEvidence
<1>1. StoreInv => DerivedShareEvidence
  BY DEF StoreInv
<1> QED BY <1>1, StoreSound, PTL

\* Whoever sees the whole lineage of a memory finds a current one in it: the lineage is
\* closed under supersession, because supersessions are linked, and chains do not run in
\* circles.
THEOREM LineagesHaveHeads == Spec => []LineageHasHead
<1>1. ASSUME StoreInv, NEW r \in Runs, NEW m \in Memories, Exists(m),
             \A n \in Memories : Exists(n) => Visible(r, n)
      PROVE  \E n \in Lineage(r, m) : Current(n)
  <2> USE NullAssumption
  <2> DEFINE Closed(S) == m \in S /\ Adjacent(r, S) \subseteq S
             Line == Lineage(r, m)
             All  == {n \in Memories : Exists(n)}
  <2>1. \A n : n \in Line <=> n \in Memories /\ \A S \in SUBSET Memories : Closed(S) => n \in S
    BY DEF Lineage
  <2>2. m \in Line /\ Line \in SUBSET Memories
    BY <2>1
  <2>3. Closed(All) /\ All \in SUBSET Memories
    BY <1>1 DEF Adjacent, Visible
  <2>4. ASSUME NEW n \in Line
        PROVE  /\ Exists(n)
               /\ memories[n].supersededBy /= None => memories[n].supersededBy \in Line
    <3> HIDE DEF Line
    <3>1. n \in Memories /\ Exists(n)
      BY <2>1, <2>3, <2>4
    <3>2. ASSUME memories[n].supersededBy /= None
          PROVE  memories[n].supersededBy \in Line
      <4> DEFINE k == memories[n].supersededBy
      <4>1. k \in Memories /\ memories[k].supersedes = n
        BY <1>1, <3>1, <3>2 DEF StoreInv, MemTypeOK, MemoryRow, ChainConsistent
      <4>2. Exists(k)
        BY <1>1, <3>1, <4>1 DEF StoreInv, Unwritten, NoMemory
      <4>3. Visible(r, k) /\ <<k, n, "supersedes">> \in links
        BY <1>1, <3>1, <4>1, <4>2 DEF StoreInv, SupersessionLinked
      <4> HIDE DEF k
      <4>4. ASSUME NEW S \in SUBSET Memories, Closed(S)
            PROVE  k \in S
        <5>1. n \in S
          BY <2>1, <2>4, <4>4
        <5>2. k \in Adjacent(r, S)
          <6> DEFINE e == <<k, n, "supersedes">>
          <6>1. e \in links /\ e[2] \in S /\ e[1] = k
            BY <4>3, <5>1
          <6> QED BY <4>1, <4>3, <6>1 DEF Adjacent
        <5> QED BY <4>4, <5>2
      <4>5. k \in Line
        BY <2>1, <4>1, <4>4
      <4> QED BY <4>5 DEF k
    <3> QED BY <3>1, <3>2
  <2> HIDE DEF Line
  <2>5. \E n \in Line : Current(n)
    BY <1>1, <2>2, <2>4 DEF StoreInv, Headed
  <2> QED BY <2>5 DEF Line
<1>2. StoreInv => LineageHasHead
  BY <1>1 DEF LineageHasHead
<1> QED BY <1>2, StoreSound, PTL

\* A rejected source stays rejected and no memory gains a citation of it: every path that
\* writes citations validates them in its own transaction.
THEOREM RejectionsStand == Spec => RejectedForGood
<1> DEFINE Stands(s) == sources[s].state = "rejected" =>
          /\ sources'[s].state = "rejected"
          /\ \A m \in Memories, e \in Evidence :
                SourceOf[e] = s /\ e \in memories'[m].evidence => e \in memories[m].evidence
<1>1. ASSUME StoreInv, [Next]_memVars, NEW s \in Sources, sources[s].state = "rejected"
      PROVE  sources'[s].state = "rejected"
  <2>1. CASE UNCHANGED sources
    BY <1>1, <2>1
  <2>2. ASSUME NEW c \in Callers, NEW k \in Sources, RegisterSource(c, k) \/ RejectSource(c, k)
        PROVE  sources'[s].state = "rejected"
    BY <1>1, <2>2 DEF StoreInv, MemTypeOK, SourceRow, RegisterSource, RejectSource
  <2>3. ASSUME NEW c \in Callers, Govern(c)
        PROVE  sources'[s].state = "rejected"
    BY <2>1, <2>2, <2>3 DEF Govern, AddEvidence
  <2>4. ASSUME NEW c \in Callers, Publish(c)
        PROVE  UNCHANGED sources
    BY <2>4 DEF Publish, StartRemember, RememberNothing, RememberMerge, RememberAdd,
                RememberUpdate, EnqueueEmbedding
  <2>5. ASSUME NEW c \in Callers, Judge(c)
        PROVE  UNCHANGED sources
    BY <2>5 DEF Judge, ReviewMemory, ReportConflict, ResolveConflict
  <2>6. CASE UNCHANGED memVars \/ \E m \in Memories : CompleteEmbedding(m)
    BY <2>1, <2>6 DEF memVars, CompleteEmbedding
  <2> QED BY <1>1, <2>1, <2>3, <2>4, <2>5, <2>6 DEF Next
<1>2. ASSUME StoreInv, Written, NEW m \in Memories, NEW e \in Evidence,
             e \in memories'[m].evidence, e \notin memories[m].evidence
      PROVE  Acceptable(e)
  <2> USE <1>2 DEF StoreInv
  <2>1. ASSUME NEW L \in SUBSET Memories, NEW R \in SUBSET Memories, RolledBack(L, R)
        PROVE  FALSE
    BY <2>1, RolledRow
  <2>2. ASSUME NEW t \in Memories, NEW cmd \in Commands, Merged(t, cmd)
        PROVE  Acceptable(e)
    <3>1. e \in cmd.evidence
      <4>1. memories'[m].evidence =
              IF m = t THEN memories[m].evidence \cup cmd.evidence ELSE memories[m].evidence
        BY <2>2, MergedRow, Zenon
      <4> QED BY <1>2, <4>1
    <3> QED BY <2>2, <3>1 DEF Merged, Accepted
  <2>3. ASSUME NEW c \in Callers, NEW k \in Memories, NEW cmd \in Commands, Added(c, k, cmd)
        PROVE  Acceptable(e)
    BY <2>3 DEF Added, Appended, Accepted
  <2>4. ASSUME NEW c \in Callers, NEW k \in Memories, NEW t \in Memories, NEW cmd \in Commands,
               Updated(c, k, t, cmd)
        PROVE  Acceptable(e)
    BY <2>4, ClosedRow DEF Updated, Appended, Accepted
  <2>5. ASSUME NEW S \in SUBSET Memories, NEW refs \in Citations, Judged(S, refs)
        PROVE  Acceptable(e)
    BY <2>5, JudgedRow DEF Judged
  <2> QED BY <2>1, <2>2, <2>3, <2>4, <2>5 DEF Written
<1>3. ASSUME StoreInv, [Next]_memVars, NEW s \in Sources
      PROVE  Stands(s)
  <2>1. Written
    BY <1>3, StepWrites DEF StoreInv
  <2> QED BY <1>1, <1>2, <1>3, <2>1 DEF Acceptable
<1>4. StoreInv /\ [Next]_memVars => [\A s \in Sources : Stands(s)]_memVars
  BY <1>3
<1> QED BY <1>4, StoreSound, PTL DEF Spec, RejectedForGood

=============================================================================
