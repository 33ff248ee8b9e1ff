--------------------------- MODULE RerankerClient ---------------------------
(***************************************************************************)
(* The learned reranker of the retrieval service                           *)
(* (adapters/reranking/local_jsonl.py): one long-lived subprocess, pinned  *)
(* by digest, that answers requests line by line over its pipes.  All      *)
(* recalls of a server share it: a lock is held across each exchange, and  *)
(* whatever goes wrong in an exchange stops the process.                   *)
(*                                                                         *)
(* A request is named by the recall that makes it (its request_id is fresh *)
(* and its digest covers query and documents), an answer by the request    *)
(* its receipt binds and by the id the provider gave it.                   *)
(***************************************************************************)
EXTENDS Naturals, Sequences

CONSTANTS
    Recalls,    \* the recalls that may ask for scores
    None,       \* no process, no holder, no request
    Remembered, \* _PROVIDER_REQUEST_ID_WINDOW: how many provider ids are kept
    MaxFaults   \* bound: how often the provider or the host misbehaves

ASSUME RememberedAssumption == Remembered \in Nat \ {0}

VARIABLES
    calls,    \* recall -> its call of rerank()
    lock,     \* the recall whose exchange holds the client's lock
    process,  \* the running process and what its pipes hold, or None
    seen,     \* the provider ids remembered, oldest first
    issued,   \* how many answers the provider has numbered
    closed,   \* close() ran
    strays,   \* history: how many wrong lines the processes wrote
    blame,    \* history: recall -> what went wrong in its own work
    spent     \* bound: faults so far

clientVars == <<calls, lock, process, seen, issued, closed, strays>>

NoCall == [stage |-> "none", scores |-> None]
Waiting == [stage |-> "waiting", scores |-> None]
Failed == [stage |-> "failed", scores |-> None]

Started == [alive |-> TRUE, got |-> {}, todo |-> <<>>, out |-> <<>>]

\* Mutated form: the process of a failed exchange is kept.
KeepProcess(p) == p

\* What the process of a failed exchange leaves behind: it is terminated and
\* forgotten, so an answer it still owes is never read.
StopProcess(p) == None

Running(p) == IF p /= None /\ p.alive THEN p ELSE Started

\* An answer counts only if its receipt binds this very request and its
\* provider id is new.
Binds(r, answer) ==
    /\ answer.for = r
    /\ answer.id \notin {seen[i] : i \in DOMAIN seen}

Remember(id) ==
    LET s == Append(seen, id)
    IN  IF Len(s) > Remembered THEN Tail(s) ELSE s

ClientInit ==
    /\ calls = [r \in Recalls |-> NoCall]
    /\ lock = None
    /\ process = None
    /\ seen = <<>>
    /\ issued = 0
    /\ closed = FALSE
    /\ strays = 0
    /\ blame = [r \in Recalls |-> {}]
    /\ spent = 0

\* What a call meets by itself.
OwnFailures == {"timeout", "death", "closed", "pins", "request"}

Blame(r, what) == blame' = [blame EXCEPT ![r] = @ \union {what}]

Faulty == spent < MaxFaults /\ spent' = spent + 1

\* An exchange that fails stops the process, gives the lock back and raises.
FailExchange(r) ==
    /\ calls' = [calls EXCEPT ![r] = Failed]
    /\ process' = StopProcess(process)
    /\ lock' = None

\* rerank() gets the lock, starts a process if none runs and writes its line.
BeginExchange(r) ==
    /\ calls[r].stage = "waiting" /\ lock = None /\ ~closed
    /\ calls' = [calls EXCEPT ![r].stage = "exchange"]
    /\ lock' = r
    /\ process' = [Running(process) EXCEPT !.todo = Append(@, r), !.got = @ \union {r}]
    /\ UNCHANGED <<seen, issued, closed, strays, blame, spent>>

\* The adapter was closed while the call waited for the lock.
RefuseClosed(r) ==
    /\ calls[r].stage = "waiting" /\ lock = None /\ closed
    /\ calls' = [calls EXCEPT ![r] = Failed]
    /\ Blame(r, "closed")
    /\ UNCHANGED <<lock, process, seen, issued, closed, strays, spent>>

\* The request would exceed a bound of the policy: it is never sent.
RefuseRequest(r) ==
    /\ calls[r].stage = "waiting"
    /\ Faulty
    /\ calls' = [calls EXCEPT ![r] = Failed]
    /\ Blame(r, "request")
    /\ UNCHANGED <<lock, process, seen, issued, closed, strays>>

\* The executable, the manifest or an artifact is no longer the pinned one.
PinsChanged(r) ==
    /\ calls[r].stage = "waiting" /\ lock = None /\ ~closed
    /\ Faulty
    /\ calls' = [calls EXCEPT ![r] = Failed]
    /\ process' = StopProcess(process)
    /\ Blame(r, "pins")
    /\ UNCHANGED <<lock, seen, issued, closed, strays>>

\* The next line of the process is read; it is this request's result or the
\* exchange has failed.
ReadAnswer(r) ==
    /\ calls[r].stage = "exchange" /\ process.out /= <<>>
    /\ LET answer == Head(process.out)
       IN  IF Binds(r, answer)
           THEN /\ calls' = [calls EXCEPT ![r] = [stage |-> "scored", scores |-> answer.for]]
                /\ process' = [process EXCEPT !.out = Tail(@)]
                /\ seen' = Remember(answer.id)
                /\ lock' = None
           ELSE FailExchange(r) /\ UNCHANGED seen
    /\ UNCHANGED <<issued, closed, strays, blame, spent>>

\* The process is gone and nothing is left in its pipe.
ReadEnd(r) ==
    /\ calls[r].stage = "exchange" /\ process.out = <<>> /\ ~process.alive
    /\ FailExchange(r)
    /\ Blame(r, "death")
    /\ UNCHANGED <<seen, issued, closed, strays, spent>>

\* The adapter's timeout covers the exchange, the policy's also the wait for
\* the lock; a call that waits is cancelled before it touches the process.
TimesOut(r) ==
    /\ \/ calls[r].stage = "exchange" /\ FailExchange(r)
       \/ /\ calls[r].stage = "waiting"
          /\ calls' = [calls EXCEPT ![r] = Failed]
          /\ UNCHANGED <<process, lock>>
    /\ Blame(r, "timeout")
    /\ UNCHANGED <<seen, issued, closed, strays, spent>>

\* The caller of a recall goes away: CancelledError takes the same way out.
CancelCall(r) ==
    /\ calls' = [calls EXCEPT ![r] = NoCall]
    /\ IF calls[r].stage = "exchange"
       THEN process' = StopProcess(process) /\ lock' = None
       ELSE UNCHANGED <<process, lock>>
    /\ UNCHANGED <<seen, issued, closed, strays>>

Close ==
    /\ ~closed /\ lock = None
    /\ closed' = TRUE
    /\ process' = StopProcess(process)
    /\ Faulty
    /\ UNCHANGED <<calls, lock, seen, issued, strays, blame>>

-----------------------------------------------------------------------------
(* The process, which is not part of the repository.                       *)

ProcessAnswers ==
    /\ process /= None /\ process.alive /\ process.todo /= <<>>
    /\ issued' = issued + 1
    /\ process' = [process EXCEPT !.todo = Tail(@),
                                  !.out = Append(@, [for |-> Head(process.todo),
                                                     id |-> issued + 1])]
    /\ UNCHANGED <<calls, lock, seen, closed, strays, blame, spent>>

\* It writes a line nobody is owed, of a request it has read or of none, with an
\* id it used or never used before: in place of an answer, or on top of them, at
\* any time.  _exchange does not look for one before it writes its request.
ProcessErrs ==
    /\ process /= None /\ process.alive
    /\ Faulty
    /\ strays' = strays + 1
    /\ \E of \in process.got \union {None}, id \in 0 .. issued,
          todo \in {process.todo} \union (IF process.todo = <<>> THEN {} ELSE {Tail(process.todo)}) :
          process' = [process EXCEPT !.todo = todo, !.out = Append(@, [for |-> of, id |-> id])]
    /\ UNCHANGED <<calls, lock, seen, issued, closed, blame>>

ProcessDies ==
    /\ process /= None /\ process.alive
    /\ Faulty
    /\ process' = [process EXCEPT !.alive = FALSE, !.todo = <<>>]
    /\ UNCHANGED <<calls, lock, seen, issued, closed, strays, blame>>

\* What a waiting call meets by itself.
ClientStep(r) ==
    BeginExchange(r) \/ RefuseClosed(r) \/ ReadAnswer(r) \/ ReadEnd(r) \/ TimesOut(r)

ClientNext ==
    \/ \E r \in Recalls : ClientStep(r) \/ PinsChanged(r) \/ RefuseRequest(r)
    \/ Close \/ ProcessAnswers \/ ProcessErrs \/ ProcessDies
=============================================================================
