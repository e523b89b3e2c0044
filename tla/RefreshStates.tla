---------------------------- MODULE RefreshStates ----------------------------
(***************************************************************************)
(* The states of a refresh run and the moves between them that the code    *)
(* accepts (backend/state_machine.py), with the sets of states the rest of *)
(* the backend singles out.  Pure data: no variables, no constants.        *)
(***************************************************************************)

RefreshState ==
    { "IDLE", "EVALUATING_STALENESS", "AUTH_REQUIRED", "FETCHING_CREDENTIALS",
      "RUNNING", "WAITING_FOR_USER", "RETRY_BACKOFF", "PARTIAL_SUCCESS",
      "SUCCESS", "FAILED" }

ValidTransitions ==
    [ IDLE                 |-> {"EVALUATING_STALENESS"},
      EVALUATING_STALENESS |-> {"IDLE", "AUTH_REQUIRED"},
      AUTH_REQUIRED        |-> {"FETCHING_CREDENTIALS", "IDLE"},
      FETCHING_CREDENTIALS |-> {"RUNNING", "FAILED"},
      RUNNING              |-> {"WAITING_FOR_USER", "RETRY_BACKOFF",
                                "PARTIAL_SUCCESS", "SUCCESS", "FAILED"},
      WAITING_FOR_USER     |-> {"RUNNING", "FAILED"},
      RETRY_BACKOFF        |-> {"RUNNING", "PARTIAL_SUCCESS", "FAILED"},
      PARTIAL_SUCCESS      |-> {"IDLE"},
      SUCCESS              |-> {"IDLE"},
      FAILED               |-> {"IDLE"} ]

\* A table that lost the edge every ordinary session takes.
MayMove_NeedsUser(current, target) ==
    /\ current = "FETCHING_CREDENTIALS" => target # "RUNNING"
    /\ target \in ValidTransitions[current]

\* validate_transition(current, target)
MayMove(current, target) == target \in ValidTransitions[current]

\* A recovery that believes only a RUNNING run can be orphaned.
Orphanable_OnlyRunning == {"RUNNING"}

\* non_terminal in recover_orphaned_runs: a run found in one of these at
\* start-up belongs to a process that is gone.
Orphanable ==
    { "EVALUATING_STALENESS", "AUTH_REQUIRED", "FETCHING_CREDENTIALS",
      "RUNNING", "WAITING_FOR_USER", "RETRY_BACKOFF" }

\* update_run_state stamps completed_at on entering one of these.
Completing == {"SUCCESS", "PARTIAL_SUCCESS", "FAILED"}
==============================================================================
