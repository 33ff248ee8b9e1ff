----------------------------- MODULE MCRetrieval -----------------------------
(* Two recalls over four memories: lanes that agree on some of them, a link   *)
(* from the first to the last, and one between two that are found directly.   *)
(* Only its vector finds the last memory itself.  One plan has room for all,   *)
(* one for what usually matches, one is narrow enough that scans widen.       *)
EXTENDS Retrieval

CONSTANTS q1, q2

RawScores == [lexical |-> <<60, 40, 20, 0>>, dense |-> <<0, 70, 80, 40>>,
              temporal |-> <<90, 50, 50, 0>>]
TextCoverage == <<60, 40, 20, 50>>
Sizes == <<1, 2, 1, 1>>
TwoLinks == {<<1, 4, "supports">>, <<3, 2, "derived_from">>}

Query(purpose, timed, literal, limit) ==
    [purpose |-> purpose, timed |-> timed, literal |-> literal, ids |-> {}, limit |-> limit]
Read(ids) == [purpose |-> "read", timed |-> FALSE, literal |-> FALSE, ids |-> ids, limit |-> 1]
RecallAndPlan ==
    q1 :> Query("interactive_recall", FALSE, TRUE, 3) @@ q2 :> Query("planning", FALSE, FALSE, 2)
ReadAndBootstrap ==
    q1 :> Read({1, 2}) @@ q2 :> Query("task_bootstrap", TRUE, FALSE, 3)

Server(store, packing, asks, dense, overfetch, fanout, edges) ==
    [store |-> store, packing |-> packing, asks |-> asks,
     lanes |-> [lexical |-> 4, temporal |-> 4, dense |-> dense, graph |-> 2],
     overfetch |-> overfetch, fanout |-> fanout, edges |-> edges]

Servers == {Server("kernel", "greedy", RecallAndPlan, 4, 4, 2, 16),
            Server("cockroach", "facility_location", RecallAndPlan, 2, 2, 2, 16),
            Server("cockroach", "prefix", ReadAndBootstrap, 1, 1, 1, 4)}
=============================================================================
