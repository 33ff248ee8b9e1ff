------------------------------ MODULE MCKernel ------------------------------
(* Instances of Kernel for TLC.                                            *)
EXTENDS Kernel, TLC

CONSTANTS t1, t2, a1, a2, x, y, e1, s1

(* t2 waits for t1.                                                        *)
Chain == (t1 :> {}) @@ (t2 :> {t1})

OneSource == [e \in Evidence |-> s1]

(* Ids of leases and of triggers are interchangeable.                      *)
Interchangeable == Permutations(Leases) \cup Permutations(Triggers)

(* Two agents; the reviewer also replaces what it confirmed.               *)
Usual ==
    [a \in Agents |-> IF a /= a1 THEN {} ELSE
        {cmd \in Commands :
            \/ /\ cmd.target = None /\ cmd.content = x /\ cmd.link = None
               /\ cmd.desired = "confirmed" /\ cmd.evidence /= {}
            \/ /\ cmd.target = 1 /\ cmd.content = y /\ cmd.link = None
               /\ \/ cmd.desired = "confirmed" /\ cmd.evidence /= {}
                  \/ cmd.desired = "tentative" /\ cmd.evidence = {}}]

(* The reviewer relates a note to the memory it replaced before (for OncePerKey). *)
Relating ==
    [a \in Agents |-> IF a /= a1 THEN {} ELSE
        {cmd \in Commands :
            /\ cmd.desired = "tentative" /\ cmd.evidence = {}
            /\ \/ cmd.content = x /\ cmd.target = None /\ cmd.link = None
               \/ cmd.content = y /\ cmd.target = 1 /\ cmd.link = None
               \/ cmd.content = x /\ cmd.target = None /\ cmd.link = <<"related_to", 1>>}]

=============================================================================
