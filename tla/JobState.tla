------------------------------ MODULE JobState ------------------------------
(***************************************************************************)
(* The job state machine of core/domain/state.py: the six statuses, the    *)
(* table of legal transitions and the predecessor set a compare-and-set    *)
(* UPDATE puts in its WHERE clause.                                        *)
(***************************************************************************)

\* The JobStatus enum, also the Postgres enum job_status.
JobStatus ==
  {"PENDING", "PARSING", "GENERATING", "STITCHING", "COMPLETED", "FAILED"}

\* The table LEGAL: the statuses a job may move to from each status.
LEGAL ==
  [PENDING    |-> {"PARSING", "FAILED"},
   PARSING    |-> {"GENERATING", "FAILED"},
   GENERATING |-> {"STITCHING", "FAILED"},
   STITCHING  |-> {"COMPLETED", "FAILED"},
   COMPLETED  |-> {},
   FAILED     |-> {}]

\* The legal predecessors of next_status, derived from the same table.
expected_for(next_status) ==
  {current \in JobStatus : next_status \in LEGAL[current]}

\* A job in one of these statuses takes no further transition.
Terminal == {s \in JobStatus : LEGAL[s] = {}}
=============================================================================
