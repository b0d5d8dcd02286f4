------------------------------ MODULE JobStates ------------------------------
(***************************************************************************)
(* The states of a row of table queue_job (queue_job/job.py) and the sets  *)
(* of states that the addon's code tests for.                              *)
(***************************************************************************)

WAIT_DEPENDENCIES == "wait_dependencies"
PENDING           == "pending"
ENQUEUED          == "enqueued"
STARTED           == "started"
DONE              == "done"
CANCELLED         == "cancelled"
FAILED            == "failed"

\* There is no row: the autovacuum deleted it.
Absent            == "absent"

States == {WAIT_DEPENDENCIES, PENDING, ENQUEUED, STARTED, DONE, CANCELLED,
           FAILED}

RowStates == States \cup {Absent}

\* The rows that a starting runner loads (jobrunner/channels.py, NOT_DONE).
NOT_DONE == {WAIT_DEPENDENCIES, PENDING, ENQUEUED, STARTED, FAILED}

==============================================================================
