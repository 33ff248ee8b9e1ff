--------------------------- MODULE MCCoordination ---------------------------
(* Instances of Coordination for TLC.                                      *)
EXTENDS Coordination, TLC

CONSTANTS r1, r2, a1, a2, t1, t2, t3, t4, l1, l2, l3

\* Everyone works in run r1 and is able to do every task.
OneRun == [x \in Agents \cup Tasks |-> r1]
AllAble == Agents \X Tasks

\* Task t4 and agent a2 belong to run r2, the other tasks and agent a1 to run r1.
TwoRuns == [x \in Agents \cup Tasks |-> IF x \in {a2, t4} THEN r2 ELSE r1]

\* Every task but t2 may be claimed at once.
Available == [t \in Tasks |-> IF t = t2 THEN 1 ELSE 0]

\* As above, but t3 lies in the future of every bound: it only carries dependencies.
Planned == [Available EXCEPT ![t3] = MaxTime + 1]

\* The agents are interchangeable, and so are the lease ids.
Interchangeable == Permutations(Agents) \cup Permutations(Leases)
InterchangeableLeases == Permutations(Leases)

=============================================================================
