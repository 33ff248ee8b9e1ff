----------------------------- MODULE MCPhasedRun -----------------------------
(* Small instances of PhasedRun for TLC. *)
EXTENDS PhasedRun, TLC

\* Neither the runs nor the options a manifest binds are told apart by name.
Alike == Permutations(Configs) \cup Permutations(Runs)

=============================================================================
