---------------------------- MODULE MCMemoryStore ----------------------------
(* Instances of MemoryStore for TLC.                                       *)
EXTENDS MemoryStore, TLC

CONSTANTS r1, c1, c2, x, y, e1, e2, s1, s2

\* Both callers work in run r1.
OneRun == [c \in Callers |-> r1]

\* Each piece of evidence has a source of its own.
OwnSource == (e1 :> s1) @@ (e2 :> s2)

\* The reviewer c1 replaces memories by confirmed ones that cite e1; the other caller
\* appends, derives with e1, and replaces by tentative ones that cite e2.  Whoever comes
\* second corroborates what the first one wrote.
Divided ==
    LET Shared == {cmd \in Commands : cmd.shared}
        Replacing == {cmd \in Shared : cmd.target /= None /\ cmd.link = None /\ cmd.content = y}
        Adding == {cmd \in Shared : /\ cmd.target = None /\ cmd.content = x
                                    /\ cmd.desired = "tentative"}
    IN  [c \in Callers |->
            IF c = c1
            THEN {cmd \in Replacing : cmd.desired = "confirmed" /\ cmd.evidence = {e1}}
            ELSE {cmd \in Replacing : cmd.desired = "tentative" /\ cmd.evidence = {e2}}
                 \cup {cmd \in Adding : IF cmd.link = None THEN cmd.evidence = {}
                                        ELSE cmd.link[1] = "derived_from" /\ cmd.evidence = {e1}}]

\* Memory ids are interchangeable.
Interchangeable == Permutations(Memories)

=============================================================================
