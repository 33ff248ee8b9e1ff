------------------------- MODULE IdempotentTxProofs -------------------------
(* run_idempotent keeps the promise of an idempotency key, for any number  *)
(* of calls, commands and retries.                                         *)
EXTENDS IdempotentTx, TLAPS

\* A call is unanswered until it is done, and a response it was given is stored.
Answered(c) ==
    /\ phase[c] /= "done" <=> answer[c] = None
    /\ answer[c] = "error" => c /= stored /\ c \notin pending

\* A transaction still running has not been applied, and replays only the
\* stored response of its own command.
Running(c) ==
    phase[c] \in {"idle", "attempt", "commit"} =>
        /\ c /= stored
        /\ c \notin pending
        /\ phase[c] = "commit" /\ seen[c] /= None =>
               seen[c] = stored /\ Digest[stored] = Digest[c]

\* Only an ambiguous commit leaves something to be applied later.
Resolving(c) ==
    phase[c] = "resolve" /\ cause[c] /= "ambiguous" => c /= stored /\ c \notin pending

\* The inductive invariant.
Consistent ==
    /\ TypeOK
    /\ stored \notin pending
    /\ effects = IF stored = None THEN {} ELSE {stored}
    /\ \A c \in Calls : Answered(c) /\ Running(c) /\ Resolving(c)

\* No call has started and nothing is stored.
LEMMA InitConsistent == Init => Consistent
  BY CallsAssumption
     DEF Init, Consistent, TypeOK, Phases, Answered, Running, Resolving

\* Every step of a call, and every late commit of the server, keeps the
\* inductive invariant.
LEMMA StepConsistent == Consistent /\ [Next]_vars => Consistent'
<1> SUFFICES ASSUME Consistent, [Next]_vars
             PROVE  Consistent'
  OBVIOUS
<1> USE CallsAssumption
<1>1. ASSUME NEW c \in Calls, Call(c) PROVE Consistent'
  BY <1>1 DEF Call, Consistent, TypeOK, Phases, Answered, Running, Resolving
<1>2. ASSUME NEW c \in Calls, ReadConflict(c) PROVE Consistent'
  BY <1>2 DEF ReadConflict, Finish, Consistent, TypeOK, Phases, Failures, Answered, Running, Resolving
<1>3. ASSUME NEW c \in Calls, Body(c) PROVE Consistent'
  BY <1>3 DEF Body, Consistent, TypeOK, Phases, Answered, Running, Resolving
<1>4. ASSUME NEW c \in Calls, Raises(c) PROVE Consistent'
  BY <1>4 DEF Raises, Finish, Consistent, TypeOK, Phases, Failures, Answered, Running, Resolving
<1>5. ASSUME NEW c \in Calls, Duplicate(c) PROVE Consistent'
  BY <1>5 DEF Duplicate, Resolve, Consistent, TypeOK, Phases, Answered, Running, Resolving
<1>6. ASSUME NEW c \in Calls, BodyUnknown(c) PROVE Consistent'
  BY <1>6 DEF BodyUnknown, Resolve, Consistent, TypeOK, Phases, Answered, Running, Resolving
<1>7. ASSUME NEW c \in Calls, Retry(c) PROVE Consistent'
  BY <1>7 DEF Retry, Consistent, TypeOK, Phases, Answered, Running, Resolving
<1>8. ASSUME NEW c \in Calls, RetriesExhausted(c) PROVE Consistent'
  BY <1>8 DEF RetriesExhausted, Finish, Consistent, TypeOK, Phases, Failures, Answered, Running, Resolving
<1>9. ASSUME NEW c \in Calls, ReplayCommitted(c) PROVE Consistent'
  BY <1>9 DEF ReplayCommitted, Finish, Consistent, TypeOK, Phases, Failures, Answered, Running, Resolving
<1>10. ASSUME NEW c \in Calls, Committed(c) PROVE Consistent'
  BY <1>10 DEF Committed, WritesRow, Finish, Consistent, TypeOK, Phases, Failures, Answered, Running, Resolving
<1>11. ASSUME NEW c \in Calls, CommitUnacknowledged(c) PROVE Consistent'
  BY <1>11 DEF CommitUnacknowledged, WritesRow, Resolve, Consistent, TypeOK, Phases, Answered, Running, Resolving
<1>12. ASSUME NEW c \in Calls, CommitUnknown(c) PROVE Consistent'
  BY <1>12 DEF CommitUnknown, Resolve, Consistent, TypeOK, Phases, Answered, Running, Resolving
<1>13. ASSUME NEW c \in Calls, Cancel(c) PROVE Consistent'
  BY <1>13 DEF Cancel, Finish, Consistent, TypeOK, Phases, Failures, Answered, Running, Resolving
<1>14. ASSUME NEW c \in Calls, LookupFound(c) PROVE Consistent'
  BY <1>14 DEF LookupFound, Finish, Consistent, TypeOK, Phases, Failures, Answered, Running, Resolving
<1>15. ASSUME NEW c \in Calls, LookupMissed(c) PROVE Consistent'
  BY <1>15 DEF LookupMissed, Consistent, TypeOK, Phases, Answered, Running, Resolving
<1>16. ASSUME NEW c \in Calls, LookupExhausted(c) PROVE Consistent'
  BY <1>16 DEF LookupExhausted, Finish, Consistent, TypeOK, Phases, Failures, Answered, Running, Resolving
<1>17. ASSUME NEW c \in Calls, LateCommit(c) PROVE Consistent'
  BY <1>17 DEF LateCommit, WritesRow, Consistent, TypeOK, Phases, Answered, Running, Resolving
<1>18. ASSUME NEW c \in Calls, LateAbort(c) PROVE Consistent'
  BY <1>18 DEF LateAbort, Consistent, TypeOK, Phases, Answered, Running, Resolving
<1>19. CASE UNCHANGED vars
  BY <1>19 DEF vars, Consistent, TypeOK, Answered, Running, Resolving
<1> QED
  BY <1>1, <1>2, <1>3, <1>4, <1>5, <1>6, <1>7, <1>8, <1>9, <1>10, <1>11, <1>12,
     <1>13, <1>14, <1>15, <1>16, <1>17, <1>18, <1>19 DEF Next, Proceed

\* What a call has read, what it waits for and what it answered stay in step
\* with the stored row in every reachable state.
THEOREM AlwaysConsistent == Spec => []Consistent
  BY InitConsistent, StepConsistent, PTL DEF Spec

\* A definite error is final: the call had no effect and none is pending.
THEOREM DefiniteErrors == Spec => []ErrorsAreFinal
<1>1. Consistent => ErrorsAreFinal
  BY DEF Consistent, Answered, ErrorsAreFinal
<1> QED BY <1>1, AlwaysConsistent, PTL

-----------------------------------------------------------------------------
\* A step of the primitive is a step CommandOnce allows, or none of its state
\* changes: acknowledgements map to Succeed, late and unacknowledged commits to
\* Apply, definite errors to Fail and everything undecided to GiveUp.
LEMMA StepKeepsPromise == Consistent /\ [Next]_vars => [Promise!Next]_(Promise!vars)
<1> SUFFICES ASSUME Consistent, [Next]_vars
             PROVE  Promise!Next \/ UNCHANGED Promise!vars
  OBVIOUS
<1> USE CallsAssumption
<1> DEFINE Errors == {c \in Calls : answer[c] = "error"}
<1>0. /\ answer \in [Calls -> Calls \cup Failures \cup {None}]
      /\ stored \in Calls \cup {None}
  BY DEF Consistent, TypeOK
<1>1. ASSUME UNCHANGED <<stored, answer>> PROVE UNCHANGED Promise!vars
  BY <1>1 DEF Promise!vars
<1>2. ASSUME NEW c \in Calls, answer[c] = None, NEW x,
             x \in Calls \cup {"conflict", "unknown"},
             answer' = [answer EXCEPT ![c] = x]
      PROVE  Errors' = Errors
  BY <1>0, <1>2
<1>3. ASSUME NEW c \in Calls, answer[c] = None,
             answer' = [answer EXCEPT ![c] = "error"]
      PROVE  Errors' = Errors \cup {c}
  BY <1>0, <1>3
<1>4. ASSUME NEW c \in Calls, phase[c] /= "done" PROVE answer[c] = None
  BY <1>4 DEF Consistent, Answered
<1>5. ASSUME NEW c \in Calls, ReadConflict(c) PROVE Promise!Conflict(c)
  BY <1>2, <1>4, <1>5 DEF ReadConflict, Finish, Promise!Conflict
<1>6. ASSUME NEW c \in Calls, Raises(c) \/ RetriesExhausted(c) PROVE Promise!Fail(c)
  <2>1. /\ phase[c] \in {"attempt", "commit"} /\ stored' = stored
        /\ answer' = [answer EXCEPT ![c] = "error"]
    BY <1>6 DEF Raises, RetriesExhausted, Finish
  <2>2. stored /= c /\ answer[c] = None
    BY <1>4, <2>1 DEF Consistent, Running
  <2> QED BY <1>3, <2>1, <2>2 DEF Promise!Fail
<1>7. ASSUME NEW c \in Calls, ReplayCommitted(c) PROVE Promise!Succeed(c)
  <2>1. /\ phase[c] = "commit" /\ stored' = stored /\ seen[c] /= None
        /\ answer' = [answer EXCEPT ![c] = seen[c]]
    BY <1>7 DEF ReplayCommitted, Finish
  <2>2. seen[c] = stored /\ Digest[stored] = Digest[c] /\ answer[c] = None
    BY <1>4, <2>1 DEF Consistent, Running
  <2> QED BY <1>0, <1>2, <2>1, <2>2 DEF Promise!Succeed
<1>8. ASSUME NEW c \in Calls, Committed(c) PROVE Promise!ApplyAndSucceed(c)
  <2>1. /\ phase[c] = "commit" /\ stored = None /\ stored' = c
        /\ answer' = [answer EXCEPT ![c] = c]
    BY <1>8 DEF Committed, WritesRow, Finish
  <2>2. answer[c] = None
    BY <1>4, <2>1
  <2> QED BY <1>2, <2>1, <2>2 DEF Promise!ApplyAndSucceed
<1>9. ASSUME NEW c \in Calls, CommitUnacknowledged(c) \/ LateCommit(c)
      PROVE  Promise!Apply(c)
  <2>1. stored = None /\ stored' = c /\ answer' = answer
    BY <1>9 DEF CommitUnacknowledged, LateCommit, WritesRow, Resolve
  <2>2. answer[c] /= "error"
    BY <1>4, <1>9 DEF CommitUnacknowledged, LateCommit, Consistent, Answered
  <2> QED BY <2>1, <2>2 DEF Promise!Apply
<1>10. ASSUME NEW c \in Calls, Cancel(c) PROVE Promise!GiveUp(c)
  BY <1>2, <1>4, <1>10 DEF Cancel, Finish, Promise!GiveUp
<1>11. ASSUME NEW c \in Calls, LookupFound(c)
       PROVE  Promise!Succeed(c) \/ Promise!Conflict(c)
  <2>1. /\ answer[c] = None /\ stored /= None /\ stored' = stored
        /\ answer' = [answer EXCEPT ![c] =
                        IF Digest[stored] = Digest[c] THEN stored ELSE "conflict"]
    BY <1>4, <1>11 DEF LookupFound, Finish
  <2>2. CASE Digest[stored] = Digest[c]
    BY <1>0, <1>2, <2>1, <2>2 DEF Promise!Succeed
  <2>3. CASE Digest[stored] /= Digest[c]
    BY <1>2, <2>1, <2>3 DEF Promise!Conflict
  <2> QED BY <2>2, <2>3
<1>12. ASSUME NEW c \in Calls, LookupExhausted(c)
       PROVE  Promise!GiveUp(c) \/ Promise!Fail(c)
  <2>1. /\ phase[c] = "resolve" /\ answer[c] = None /\ stored' = stored
        /\ answer' = [answer EXCEPT ![c] =
                        IF cause[c] = "ambiguous" THEN "unknown" ELSE "error"]
    BY <1>4, <1>12 DEF LookupExhausted, Finish
  <2>2. CASE cause[c] = "ambiguous"
    BY <1>2, <2>1, <2>2 DEF Promise!GiveUp
  <2>3. CASE cause[c] /= "ambiguous"
    <3>1. stored /= c
      BY <2>1, <2>3 DEF Consistent, Resolving
    <3> QED BY <1>3, <2>1, <2>3, <3>1 DEF Promise!Fail
  <2> QED BY <2>2, <2>3
<1>13. ASSUME NEW c \in Calls,
              \/ Call(c) \/ Body(c) \/ Duplicate(c) \/ BodyUnknown(c) \/ Retry(c)
              \/ CommitUnknown(c) \/ LookupMissed(c) \/ LateAbort(c)
       PROVE  UNCHANGED <<stored, answer>>
  BY <1>13 DEF Call, Body, Duplicate, BodyUnknown, Retry, CommitUnknown, LookupMissed,
               LateAbort, Resolve
<1>14. CASE UNCHANGED vars
  BY <1>1, <1>14 DEF vars
<1> QED
  BY <1>1, <1>5, <1>6, <1>7, <1>8, <1>9, <1>10, <1>11, <1>12, <1>13, <1>14
     DEF Next, Proceed, Promise!Next

\* run_idempotent implements CommandOnce.
THEOREM IdempotentTxImplementsCommandOnce == Spec => KeepsPromise
<1>1. Init => Promise!Init
  BY CallsAssumption DEF Init, Promise!Init
<1> QED
  BY <1>1, StepKeepsPromise, AlwaysConsistent, PTL DEF Spec, KeepsPromise, Promise!Spec

=============================================================================
