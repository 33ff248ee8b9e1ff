----------------------------- MODULE TaskBoard -----------------------------
(***************************************************************************)
(* What a swarm may rely on from any coordination store: who holds each    *)
(* task and how it ended.  Leases, clocks, versions and events are the     *)
(* stores' own means; Coordination (CockroachDB) and Kernel (in memory)    *)
(* both implement this board.                                              *)
(***************************************************************************)
CONSTANTS Tasks, Agents, None

VARIABLES
    holder,   \* the agent that holds each task
    ended,    \* how each task ended
    needs     \* the prerequisites of each task

boardVars == <<holder, ended, needs>>

Endings == {"open", "completed", "failed"}

Init ==
    /\ holder = [t \in Tasks |-> None]
    /\ ended = [t \in Tasks |-> "open"]
    /\ needs \in [Tasks -> SUBSET Tasks]

Ready(t) == ended[t] = "open" /\ \A p \in needs[t] : ended[p] = "completed"

(* A prerequisite is added; it does not take a task from its holder.       *)
Require(t, p) ==
    /\ t /= p
    /\ needs' = [needs EXCEPT ![t] = @ \cup {p}]
    /\ UNCHANGED <<holder, ended>>

(* Holders lose tasks, by giving them up or by letting their time run out. *)
LoseThen(lost) == [t \in Tasks |-> IF t \in lost THEN None ELSE holder[t]]

Lose ==
    /\ \E lost \in SUBSET Tasks : holder' = LoseThen(lost)
    /\ UNCHANGED <<ended, needs>>

(* One agent takes one ready task nobody holds any more.                   *)
Take(t, a) ==
    /\ Ready(t)
    /\ \E lost \in SUBSET Tasks : /\ LoseThen(lost)[t] = None
                                  /\ holder' = [LoseThen(lost) EXCEPT ![t] = a]
    /\ UNCHANGED <<ended, needs>>

(* A holder ends its task for good.                                        *)
End(t, how) ==
    /\ holder[t] /= None /\ ended[t] = "open"
    /\ holder' = [holder EXCEPT ![t] = None]
    /\ ended' = [ended EXCEPT ![t] = how]
    /\ UNCHANGED needs

Next ==
    \/ \E t, p \in Tasks : Require(t, p)
    \/ Lose
    \/ \E t \in Tasks, a \in Agents : Take(t, a)
    \/ \E t \in Tasks, how \in Endings \ {"open"} : End(t, how)

Spec == Init /\ [][Next]_boardVars

=============================================================================
