---------------------------- MODULE MCLeaseBridge ----------------------------
(* An instance of LeaseBridge for TLC.                                     *)
EXTENDS LeaseBridge, TLC

CONSTANTS r1, a1, a2, t1, l1, l2, c1, c2, k1, k2

OneRun == [x \in Agents \cup Tasks |-> r1]
AllAble == Agents \X Tasks
AtOnce == [t \in Tasks |-> 0]

=============================================================================
