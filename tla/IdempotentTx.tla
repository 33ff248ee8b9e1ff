---------------------------- MODULE IdempotentTx ----------------------------
(***************************************************************************)
(* The one mutation primitive of the CockroachDB backend:                  *)
(* CockroachDatabase.run_idempotent around run_serializable                *)
(* (adapters/cockroach/database.py, retry.py).  Calls share one            *)
(* idempotency key; each call is one invocation, so a client that retries  *)
(* after an error is a further call with the same digest.                  *)
(*                                                                         *)
(* External: the database.  A commit either applies or aborts; its         *)
(* acknowledgement may be lost, and a commit whose client gave up may      *)
(* still apply later.                                                      *)
(***************************************************************************)
EXTENDS Integers

CONSTANTS
    Calls,         \* invocations that carry the key
    Digest,        \* request_sha256 of each invocation's command
    MaxAttempts,   \* RetryPolicy.max_attempts
    Lookups,       \* reads of resolve_idempotency after an ambiguous commit
    DupLookups,    \* reads of resolve_idempotency after a uniqueness error
    None

ASSUME CallsAssumption ==
    /\ None \notin Calls
    /\ {"conflict", "error", "unknown"} \cap Calls = {}
    /\ None \notin {"conflict", "error", "unknown"}
    /\ MaxAttempts \in Nat \ {0}
    /\ Lookups \in Nat \ {0}
    /\ DupLookups \in Nat \ {0}

VARIABLES
    stored,    \* the committed idempotency row: the call that wrote it, or None
    effects,   \* calls whose business closure was committed
    phase,     \* where each call is in run_idempotent
    attempt,   \* attempt number of run_serializable
    seen,      \* the row the attempt's transaction read
    lookups,   \* reads left in resolve_idempotency
    cause,     \* why the call resolves: an ambiguous commit or a uniqueness error
    pending,   \* calls whose COMMIT the server may still apply
    answer     \* what run_idempotent returned or raised

vars == <<stored, effects, phase, attempt, seen, lookups, cause, pending, answer>>

Phases == {"idle", "attempt", "commit", "resolve", "done"}

Failures == {"conflict", "error", "unknown"}

Init ==
    /\ stored = None
    /\ effects = {}
    /\ phase = [c \in Calls |-> "idle"]
    /\ attempt = [c \in Calls |-> 0]
    /\ seen = [c \in Calls |-> None]
    /\ lookups = [c \in Calls |-> 0]
    /\ cause = [c \in Calls |-> "none"]
    /\ pending = {}
    /\ answer = [c \in Calls |-> None]

Finish(c, a) ==
    /\ phase' = [phase EXCEPT ![c] = "done"]
    /\ answer' = [answer EXCEPT ![c] = a]

\* Leave run_serializable for resolve_idempotency.
Resolve(c, why, reads) ==
    /\ phase' = [phase EXCEPT ![c] = "resolve"]
    /\ cause' = [cause EXCEPT ![c] = why]
    /\ lookups' = [lookups EXCEPT ![c] = reads]
    /\ UNCHANGED answer

Call(c) ==
    /\ phase[c] = "idle"
    /\ phase' = [phase EXCEPT ![c] = "attempt"]
    /\ attempt' = [attempt EXCEPT ![c] = 1]
    /\ UNCHANGED <<stored, effects, seen, lookups, cause, pending, answer>>

-----------------------------------------------------------------------------
(* run_serializable: one attempt of the transaction.                       *)

\* Mutated form: any row of the key is a conflict, its own command's too.
ReadAnyRowConflict(c) ==
    /\ phase[c] = "attempt"
    /\ stored /= None
    /\ Finish(c, "conflict")
    /\ UNCHANGED <<stored, effects, attempt, seen, lookups, cause, pending>>

\* _read_idempotency FOR UPDATE: a row of another command is a conflict.
ReadConflict(c) ==
    /\ phase[c] = "attempt"
    /\ stored /= None
    /\ Digest[stored] /= Digest[c]
    /\ Finish(c, "conflict")
    /\ UNCHANGED <<stored, effects, attempt, seen, lookups, cause, pending>>

\* The row of the same command is replayed; with no row the business closure
\* runs.  Either way body_completed holds and only COMMIT remains.
Body(c) ==
    /\ phase[c] = "attempt"
    /\ stored /= None => Digest[stored] = Digest[c]
    /\ seen' = [seen EXCEPT ![c] = stored]
    /\ phase' = [phase EXCEPT ![c] = "commit"]
    /\ UNCHANGED <<stored, effects, attempt, lookups, cause, pending, answer>>

\* The closure raises a domain error, the connection dies inside it, or COMMIT
\* fails with any SQLSTATE that proves the transaction was not applied.
Raises(c) ==
    /\ phase[c] \in {"attempt", "commit"}
    /\ Finish(c, "error")
    /\ UNCHANGED <<stored, effects, attempt, seen, lookups, cause, pending>>

\* SQLSTATE 23505: a concurrent call inserted the key, or the closure hit
\* another unique index.
Duplicate(c) ==
    /\ phase[c] \in {"attempt", "commit"}
    /\ Resolve(c, "duplicate", DupLookups)
    /\ UNCHANGED <<stored, effects, attempt, seen, pending>>

\* SQLSTATE 40003 is ambiguous wherever it is raised.
BodyUnknown(c) ==
    /\ phase[c] = "attempt"
    /\ Resolve(c, "ambiguous", Lookups)
    /\ UNCHANGED <<stored, effects, attempt, seen, pending>>

\* SQLSTATE 40001: rerun the whole closure, while attempts are left.
Retry(c) ==
    /\ phase[c] \in {"attempt", "commit"}
    /\ attempt[c] < MaxAttempts
    /\ attempt' = [attempt EXCEPT ![c] = @ + 1]
    /\ phase' = [phase EXCEPT ![c] = "attempt"]
    /\ seen' = [seen EXCEPT ![c] = None]
    /\ UNCHANGED <<stored, effects, lookups, cause, pending, answer>>

RetriesExhausted(c) ==
    /\ phase[c] \in {"attempt", "commit"}
    /\ attempt[c] >= MaxAttempts
    /\ Finish(c, "error")
    /\ UNCHANGED <<stored, effects, attempt, seen, lookups, cause, pending>>

\* The row and the closure's writes commit together; the unique index and
\* SERIALIZABLE isolation admit only the first row of the key.
WritesRow(c) ==
    /\ stored = None
    /\ stored' = c
    /\ effects' = effects \cup {c}

\* The COMMIT of a transaction that only read a row changes nothing.
ReplayCommitted(c) ==
    /\ phase[c] = "commit"
    /\ seen[c] /= None
    /\ Finish(c, seen[c])
    /\ UNCHANGED <<stored, effects, attempt, seen, lookups, cause, pending>>

Committed(c) ==
    /\ phase[c] = "commit"
    /\ seen[c] = None
    /\ WritesRow(c)
    /\ Finish(c, c)
    /\ UNCHANGED <<attempt, seen, lookups, cause, pending>>

\* The COMMIT applied, its acknowledgement was lost.
CommitUnacknowledged(c) ==
    /\ phase[c] = "commit"
    /\ seen[c] = None
    /\ WritesRow(c)
    /\ Resolve(c, "ambiguous", Lookups)
    /\ UNCHANGED <<attempt, seen, pending>>

\* Mutated form: a lost connection at COMMIT is treated as a plain failure.
CommitUnknownRaised(c) ==
    /\ phase[c] = "commit"
    /\ pending' = IF seen[c] = None THEN pending \cup {c} ELSE pending
    /\ Finish(c, "error")
    /\ UNCHANGED <<stored, effects, attempt, seen, lookups, cause>>

\* The connection was lost at COMMIT, which the server may apply later or never.
CommitUnknown(c) ==
    /\ phase[c] = "commit"
    /\ pending' = IF seen[c] = None THEN pending \cup {c} ELSE pending
    /\ Resolve(c, "ambiguous", Lookups)
    /\ UNCHANGED <<stored, effects, attempt, seen>>

\* The caller's task is cancelled and CancelledError passes every handler, or a
\* lookup itself fails and its driver error is raised: nothing is known.
Cancel(c) ==
    /\ phase[c] \in {"attempt", "commit", "resolve"}
    /\ pending' = IF phase[c] = "commit" /\ seen[c] = None THEN pending \cup {c} ELSE pending
    /\ Finish(c, "unknown")
    /\ UNCHANGED <<stored, effects, attempt, seen, lookups, cause>>

-----------------------------------------------------------------------------
(* resolve_idempotency: read the row, never rerun the closure.             *)

LookupFound(c) ==
    /\ phase[c] = "resolve"
    /\ stored /= None
    /\ Finish(c, IF Digest[stored] = Digest[c] THEN stored ELSE "conflict")
    /\ UNCHANGED <<stored, effects, attempt, seen, lookups, cause, pending>>

LookupMissed(c) ==
    /\ phase[c] = "resolve"
    /\ stored = None
    /\ lookups[c] > 1
    /\ lookups' = [lookups EXCEPT ![c] = @ - 1]
    /\ UNCHANGED <<stored, effects, phase, attempt, seen, cause, pending, answer>>

\* Mutated form: the last lookup starts the reads over.
LookupForever(c) ==
    /\ phase[c] = "resolve"
    /\ stored = None
    /\ lookups[c] = 1
    /\ lookups' = [lookups EXCEPT ![c] = Lookups]
    /\ UNCHANGED <<stored, effects, phase, attempt, seen, cause, pending, answer>>

\* AmbiguousCommit after an ambiguous commit, the original error after 23505.
LookupExhausted(c) ==
    /\ phase[c] = "resolve"
    /\ stored = None
    /\ lookups[c] = 1
    /\ Finish(c, IF cause[c] = "ambiguous" THEN "unknown" ELSE "error")
    /\ UNCHANGED <<stored, effects, attempt, seen, lookups, cause, pending>>

-----------------------------------------------------------------------------
(* The server settles a commit nobody waits for any more.                  *)

LateCommit(c) ==
    /\ c \in pending
    /\ WritesRow(c)
    /\ pending' = pending \ {c}
    /\ UNCHANGED <<phase, attempt, seen, lookups, cause, answer>>

LateAbort(c) ==
    /\ c \in pending
    /\ pending' = pending \ {c}
    /\ UNCHANGED <<stored, effects, phase, attempt, seen, lookups, cause, answer>>

\* The steps of a call that happen without any failure or cancellation.
Proceed(c) ==
    \/ ReadConflict(c)
    \/ Body(c)
    \/ Retry(c)
    \/ RetriesExhausted(c)
    \/ ReplayCommitted(c)
    \/ Committed(c)
    \/ LookupFound(c)
    \/ LookupMissed(c)
    \/ LookupExhausted(c)

Next ==
    \E c \in Calls :
        \/ Call(c)
        \/ Proceed(c)
        \/ Raises(c)
        \/ Duplicate(c)
        \/ BodyUnknown(c)
        \/ CommitUnacknowledged(c)
        \/ CommitUnknown(c)
        \/ Cancel(c)
        \/ LateCommit(c)
        \/ LateAbort(c)

\* asyncio resumes every call whose await has returned or raised.
Fairness == \A c \in Calls : WF_vars(Proceed(c))

Spec == Init /\ [][Next]_vars

FairSpec == Spec /\ Fairness

-----------------------------------------------------------------------------
(* Properties.                                                             *)

\* The attempt counter stays within RetryPolicy.max_attempts, and every answer
\* is a stored response or one of the errors run_idempotent raises.
TypeOK ==
    /\ stored \in Calls \cup {None}
    /\ effects \subseteq Calls
    /\ phase \in [Calls -> Phases]
    /\ attempt \in [Calls -> 0..MaxAttempts]
    /\ seen \in [Calls -> Calls \cup {None}]
    /\ lookups \in [Calls -> Nat]
    /\ cause \in [Calls -> {"none", "ambiguous", "duplicate"}]
    /\ pending \subseteq Calls
    /\ answer \in [Calls -> Calls \cup Failures \cup {None}]

\* A call that raised a definite error never took effect and never will, so its
\* client may safely issue the command again under a fresh key.
ErrorsAreFinal ==
    \A c \in Calls : answer[c] = "error" => c \notin effects \cup pending

\* Every call ends: attempts and lookups are bounded.
EveryCallEnds == \A c \in Calls : phase[c] = "attempt" ~> phase[c] = "done"

\* run_idempotent keeps the promise of CommandOnce.
Promise == INSTANCE CommandOnce WITH
    barred <- {c \in Calls : answer[c] = "error"}

\* Every step of the primitive is a step the promise allows.
KeepsPromise == Promise!Spec

=============================================================================
