----------------------------- MODULE CommandOnce -----------------------------
(***************************************************************************)
(* What an idempotency key promises the callers who share it               *)
(* (MutationCommand.idempotency_key, errors.py): the command takes effect  *)
(* at most once; whoever is told it succeeded is told the one result that  *)
(* was stored; a conflict is reported only against a stored command that   *)
(* differs; and a definite error means that this call had and will have no *)
(* effect.  Only an "unknown" answer leaves the outcome open.              *)
(***************************************************************************)
CONSTANTS Calls, Digest, None

VARIABLES
    stored,   \* the call whose effect and response were stored, or None
    answer,   \* what each call was told; None while it runs
    barred    \* calls that can no longer take effect

vars == <<stored, answer, barred>>

Init ==
    /\ stored = None
    /\ answer = [c \in Calls |-> None]
    /\ barred = {}

\* The call takes effect and its response is stored.
Apply(c) ==
    /\ stored = None
    /\ c \notin barred
    /\ stored' = c
    /\ UNCHANGED <<answer, barred>>

\* The call is told the stored response.
Succeed(c) ==
    /\ answer[c] = None
    /\ stored /= None
    /\ Digest[stored] = Digest[c]
    /\ answer' = [answer EXCEPT ![c] = stored]
    /\ UNCHANGED <<stored, barred>>

\* The call takes effect and is told so at once.
ApplyAndSucceed(c) ==
    /\ answer[c] = None
    /\ stored = None
    /\ c \notin barred
    /\ stored' = c
    /\ answer' = [answer EXCEPT ![c] = c]
    /\ UNCHANGED barred

Conflict(c) ==
    /\ answer[c] = None
    /\ stored /= None
    /\ Digest[stored] /= Digest[c]
    /\ answer' = [answer EXCEPT ![c] = "conflict"]
    /\ UNCHANGED <<stored, barred>>

\* A definite failure: the call is barred from taking effect.
Fail(c) ==
    /\ answer[c] = None
    /\ stored /= c
    /\ answer' = [answer EXCEPT ![c] = "error"]
    /\ barred' = barred \cup {c}
    /\ UNCHANGED stored

\* No answer can be given: the call may yet take effect.
GiveUp(c) ==
    /\ answer[c] = None
    /\ answer' = [answer EXCEPT ![c] = "unknown"]
    /\ UNCHANGED <<stored, barred>>

Next ==
    \E c \in Calls :
        \/ Apply(c)
        \/ Succeed(c)
        \/ ApplyAndSucceed(c)
        \/ Conflict(c)
        \/ Fail(c)
        \/ GiveUp(c)

Spec == Init /\ [][Next]_vars

=============================================================================
