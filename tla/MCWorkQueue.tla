----------------------------- MODULE MCWorkQueue -----------------------------
(* Instances of WorkQueue for TLC: one queue of extraction and embedding    *)
(* items, one of consolidation and artifact items.                         *)
EXTENDS WorkQueue, TLC

CONSTANTS k1, k2, i1, s1, x1, x2, m1, c1, f1, e1

\* Both processes were started with the same SWARMBRAIN_WORKER_ID.
SameId == [k \in Workers |-> i1]

\* x1 and x2 are the items of two extractor revisions; only the first process
\* runs the second one.
TwoRevisions == [k \in Workers |-> IF k = k1 THEN Works ELSE Works \ {x2}]
EveryItem == [k \in Workers |-> Works]

KindOf ==
    [w \in Works |-> CASE w \in {x1, x2} -> "extract_source"
                       [] w = m1 -> "embed_memory"
                       [] w = f1 -> "persist_artifact"
                       [] w = c1 -> "consolidate_memory"]

OneSource == [w \in Works |-> s1]
FirstEffect == [w \in Works |-> <<x1, e1>>]

=============================================================================
