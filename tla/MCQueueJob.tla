------------------------------ MODULE MCQueueJob ------------------------------
(* Instances of QueueJob for TLC: the graphs and the users of each run.      *)
EXTENDS QueueJob, TLC

CONSTANTS j1, j2, j3

\* group(j1, j2) before j3: the lower half of a diamond.
Join == (j1 :> {}) @@ (j2 :> {}) @@ (j3 :> {j1, j2})

\* The form offers to requeue FAILED jobs only; the cron requeues ENQUEUED
\* ones.
FormStates == {FAILED, ENQUEUED}
FormDone == {WAIT_DEPENDENCIES, PENDING, ENQUEUED, FAILED}
\* The wizards requeue any job that does not wait for dependencies, and set any
\* job to done.
WizardStates == States \ {WAIT_DEPENDENCIES}
WizardDone == States

\* Workers are alike, and so are the two parents of Join.
JoinSymmetry == Permutations(Worker) \cup Permutations({j1, j2})

==============================================================================
