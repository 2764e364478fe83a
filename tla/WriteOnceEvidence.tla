------------------------- MODULE WriteOnceEvidence -------------------------
(***************************************************************************)
(* What EvoSport promises about one run fingerprint, without files, locks, *)
(* rows or crashes: there is one cell, written at most once, and every run *)
(* that succeeds answers with the evidence in that cell.  This is the      *)
(* determinism requirement of the workbench design (section 11.3): equal   *)
(* fingerprints give equal conclusions, and restarts and retries do not    *)
(* change the result.                                                      *)
(***************************************************************************)
CONSTANTS Runners,   \* invocations of `experiment run` that may be alive
          Evidence,  \* identities of evidence (one per gateway execution)
          Null       \* no evidence

VARIABLES cell,      \* the evidence the fingerprint stands for, or Null
          answer     \* what each runner has answered, or Null

vars == <<cell, answer>>

Init == /\ cell = Null
        /\ answer = [r \in Runners |-> Null]

\* A run makes its evidence the evidence of the fingerprint; it may learn of
\* its own success at once or only later.
Decide(e) == /\ cell = Null
             /\ cell' = e
             /\ UNCHANGED answer

DecideAndAnswer(r, e) == /\ cell = Null
                         /\ cell' = e
                         /\ answer' = [answer EXCEPT ![r] = e]

\* A run succeeds with evidence that was decided before.
Answer(r) == /\ cell # Null
             /\ answer' = [answer EXCEPT ![r] = cell]
             /\ UNCHANGED cell

\* The invocation is over; its slot is used by another one.
Forget(r) == /\ answer' = [answer EXCEPT ![r] = Null]
             /\ UNCHANGED cell

Next == \/ \E e \in Evidence : Decide(e)
        \/ \E r \in Runners : \/ \E e \in Evidence : DecideAndAnswer(r, e)
                              \/ Answer(r)
                              \/ Forget(r)

Spec == Init /\ [][Next]_vars
=============================================================================
