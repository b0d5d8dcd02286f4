------------------------------ MODULE MCJobRunner ------------------------------
(* Instances of JobRunner for TLC.                                           *)
EXTENDS JobRunner, TLC

CONSTANTS j1, j2, j3, root, sub

\* j2 follows j1; j3 is on its own.
Follow == [j \in Job |-> IF j = j2 THEN {j1} ELSE {}]

\* Two jobs of one channel.
Apart  == [j \in Job |-> {}]

\* root, with one channel below it for j1 and j3.
TreeAbove == (root :> {}) @@ (sub :> {root})
TreeOf    == [j \in Job |-> IF j = j2 THEN root ELSE sub]
OneInAll  == (root :> 1) @@ (sub :> 1)

NoThrottle == (root :> 0) @@ (sub :> 0)

ByName == [j \in Job |-> CASE j = j1 -> 1 [] j = j2 -> 2 [] OTHER -> 3]

FormStates   == {FAILED, ENQUEUED}
WizardStates == States \ {WAIT_DEPENDENCIES}
FormDone     == {WAIT_DEPENDENCIES, PENDING, ENQUEUED, FAILED}

WorkerSymmetry == Permutations(Worker)

==============================================================================
