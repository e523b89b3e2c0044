---------------------------- MODULE RefreshSession ----------------------------
(***************************************************************************)
(* Refresh sessions of the Sentry backend, from POST /api/refresh/start to *)
(* the release of the refresh lock.                                        *)
(*                                                                         *)
(* One session is run by up to 2 + |Institution| threads of one process:   *)
(*   - the manager     RefreshSession.run: waits for the inner thread up   *)
(*                     to a wall-clock limit, cancels and force-fails the  *)
(*                     run when it is exceeded, then lets the lock go;     *)
(*   - the inner       RefreshSession._run_inner: walks the run through    *)
(*                     its states and its institutions one after another;  *)
(*   - one worker per institution (automation_worker.run_institution),     *)
(*                     awaited by the inner thread up to a limit and then  *)
(*                     simply left behind: nothing stops a Python thread.  *)
(*                                                                         *)
(* The threads of a session share the session object without any lock, and *)
(* the threads left behind by a timed-out session go on running beside the *)
(* next session.  What outlives the process is the database: the rows of   *)
(* refresh_runs, refresh_events and institution_refresh_status, and the    *)
(* connector data itself.                                                  *)
(*                                                                         *)
(* A state change of a run is three steps in the code (_transition): check *)
(* the move, assign self.state, update and commit the row.  They are three *)
(* steps here, for the manager and for the inner thread alike.             *)
(***************************************************************************)
EXTENDS Integers, FiniteSets, RefreshStates

CONSTANTS
    Session,      \* the refresh sessions that may be requested
    Institution,  \* the institutions with a registered connector
    NoInst,       \* no institution
    MaxRetries,   \* policy["max_retries"]
    MaxCrashes    \* bound: how often the process may die

ASSUME RefreshAssumption ==
    /\ NoInst \notin Institution
    /\ MaxRetries \in Nat
    /\ MaxCrashes \in Nat

VARIABLES
    (* the process *)
    up,         \* the API process is running and has recovered orphaned runs
    crashes,    \* how often it has died
    lock,       \* events._refresh_lock is held
    (* the threads *)
    mgr,        \* control point of RefreshSession.run, per session
    inner,      \* control point of RefreshSession._run_inner, per session
    phase,      \* how far the inner thread is inside _transition
    worker,     \* worker thread of a session for an institution
    (* the session object *)
    state,      \* self.state
    runId,      \* self.run_id is set
    cancelled,  \* self._cancel
    creds,      \* self.credentials is set (to what was sent, perhaps {})
    asked,      \* self.stale_institutions
    summary,    \* summary["status"], one dict for both threads; once the
                \* manager is done, what REFRESH_COMPLETE says when it is
                \* delivered
    (* locals of the inner thread *)
    cur,        \* institution_id of the _run_institution in progress
    attempt,    \* attempt in that call
    won,        \* institutions counted in "successes"
    lost,       \* institutions counted in "failures"
    (* the database *)
    row,        \* refresh_runs.state
    closed,     \* refresh_runs.completed_at is set
    event,      \* refresh_events.state of a session's institution
    streak,     \* institution_refresh_status.consecutive_failures
    saved       \* sessions whose worker committed data of an institution

process == <<up, crashes, lock>>
object  == <<state, runId, cancelled, creds>>
plan    == <<asked, summary>>
locals  == <<cur, attempt, won, lost>>
runRow  == <<row, closed>>
ledger  == <<event, streak, saved>>
vars    == <<process, mgr, inner, phase, worker, object, plan, locals, runRow,
             ledger>>

-------------------------------------------------------------------------------
(* Control points.                                                         *)

\* Where RefreshSession.run can be.  "aborted": it raised.  "dead": the
\* process died under it.
MgrLive == {"join", "ffRow", "ffState", "ffCheck", "ffAssign", "ffSave",
            "grace", "finish"}
MgrPoint == MgrLive \cup {"none", "done", "aborted", "dead"}

\* Control points of the inner thread that are a call of _transition, with
\* the target of the call and where a successful call leads.
Target ==
    [ toEval    |-> "EVALUATING_STALENESS", toQuit    |-> "IDLE",
      toAuth    |-> "AUTH_REQUIRED",        toFetch   |-> "FETCHING_CREDENTIALS",
      toRunning |-> "RUNNING",              toSuccess |-> "SUCCESS",
      toPartial |-> "PARTIAL_SUCCESS",      toFailed  |-> "FAILED",
      toRest    |-> "IDLE" ]

After ==
    [ toEval    |-> "evaluate",  toQuit    |-> "ended",
      toAuth    |-> "authCheck", toFetch   |-> "fetch",
      toRunning |-> "loop",      toSuccess |-> "toRest",
      toPartial |-> "toRest",    toFailed  |-> "toRest",
      toRest    |-> "ended" ]

Moving == DOMAIN Target

\* What the inner thread writes to summary["status"] after a call of
\* _transition, where it writes anything.
Verdict ==
    [ toQuit    |-> "nothing_stale",   toSuccess |-> "success",
      toPartial |-> "partial_success", toFailed  |-> "failed" ]

\* The inner thread is over: it returned, it raised (CancelledError or an
\* error of the database), or _transition refused a move.
InnerOver == {"ended", "raised", "rejected"}
InnerLive == Moving \cup {"create", "evaluate", "authCheck", "fetch", "loop",
                          "begin", "launchCheck", "launch", "await",
                          "recordOk", "recordRetry", "recordGiveUp"}
InnerPoint == InnerLive \cup InnerOver \cup {"none", "dead"}

Status == {"failed", "timeout", "nothing_stale", "success", "partial_success"}

\* "none": not started yet, or over with nobody left to look at its result.
WorkerState == {"none", "running", "saved", "returned", "raised"}
EventState  == {"none", "STARTED", "COMPLETED", "RETRY_BACKOFF", "FAILED"}

TypeOK ==
    /\ up \in BOOLEAN /\ lock \in BOOLEAN /\ crashes \in 0..MaxCrashes
    /\ mgr       \in [Session -> MgrPoint]
    /\ inner     \in [Session -> InnerPoint]
    /\ phase     \in [Session -> {"check", "assign", "save"}]
    /\ worker    \in [Session -> [Institution -> WorkerState]]
    /\ state     \in [Session -> RefreshState]
    /\ runId     \in [Session -> BOOLEAN]
    /\ cancelled \in [Session -> BOOLEAN]
    /\ creds     \in [Session -> BOOLEAN]
    /\ asked     \in [Session -> SUBSET Institution]
    /\ summary   \in [Session -> Status]
    /\ cur       \in [Session -> Institution \cup {NoInst}]
    /\ attempt   \in [Session -> Nat]
    /\ won       \in [Session -> SUBSET Institution]
    /\ lost      \in [Session -> SUBSET Institution]
    /\ row       \in [Session -> RefreshState \cup {"absent"}]
    /\ closed    \in [Session -> BOOLEAN]
    /\ event     \in [Session -> [Institution -> EventState]]
    /\ streak    \in [Institution -> Nat]
    /\ saved     \in [Institution -> SUBSET Session]

Init ==
    /\ up = TRUE /\ lock = FALSE /\ crashes = 0
    /\ mgr       = [s \in Session |-> "none"]
    /\ inner     = [s \in Session |-> "none"]
    /\ phase     = [s \in Session |-> "check"]
    /\ worker    = [s \in Session |-> [i \in Institution |-> "none"]]
    /\ state     = [s \in Session |-> "IDLE"]
    /\ runId     = [s \in Session |-> FALSE]
    /\ cancelled = [s \in Session |-> FALSE]
    /\ creds     = [s \in Session |-> FALSE]
    /\ asked     = [s \in Session |-> {}]
    /\ summary   = [s \in Session |-> "failed"]
    /\ cur       = [s \in Session |-> NoInst]
    /\ attempt   = [s \in Session |-> 0]
    /\ won       = [s \in Session |-> {}]
    /\ lost      = [s \in Session |-> {}]
    /\ row       = [s \in Session |-> "absent"]
    /\ closed    = [s \in Session |-> FALSE]
    /\ event     = [s \in Session |-> [i \in Institution |-> "none"]]
    /\ streak    = [i \in Institution |-> 0]
    /\ saved     = [i \in Institution |-> {}]

-------------------------------------------------------------------------------
(* POST /api/refresh/start.  A request that finds the lock taken is        *)
(* answered 409 and changes nothing.                                       *)

Acquire_Blind == lock' = TRUE

Acquire == ~lock /\ lock' = TRUE

\* A request thread without the finally clause.
Release_Forgotten == UNCHANGED lock

Release == lock' = FALSE

StartRefresh(s) ==
    /\ up
    /\ mgr[s] = "none"
    /\ Acquire
    /\ mgr' = [mgr EXCEPT ![s] = "join"]
    /\ inner' = [inner EXCEPT ![s] = "create"]
    /\ UNCHANGED <<up, crashes, phase, worker, object, plan, locals, runRow,
                   ledger>>

-------------------------------------------------------------------------------
(* The manager thread.                                                     *)

\* The row of the run as a thread of the session writes it: nothing happens
\* while the session has no run id.
WriteRow(s, st) ==
    /\ row' = IF runId[s] THEN [row EXCEPT ![s] = st] ELSE row
    /\ closed' = IF runId[s] /\ st \in Completing
                 THEN [closed EXCEPT ![s] = TRUE] ELSE closed

MgrGoes(s, from, to) == mgr[s] = from /\ mgr' = [mgr EXCEPT ![s] = to]

\* join() returned because the inner thread is over.
JoinReturns(s) ==
    /\ inner[s] \in InnerOver
    /\ MgrGoes(s, "join", "finish")
    /\ UNCHANGED <<process, inner, phase, worker, object, plan, locals, runRow,
                   ledger>>

\* A manager that gives up on its thread without telling it.
SignalCancel_Forgotten(s) == UNCHANGED cancelled

\* self._cancel.cancel()
SignalCancel(s) == cancelled' = [cancelled EXCEPT ![s] = TRUE]

\* The wall-clock limit passed with the inner thread alive.
SessionTimeout(s) ==
    /\ inner[s] \in InnerLive
    /\ MgrGoes(s, "join", "ffRow")
    /\ SignalCancel(s)
    /\ summary' = [summary EXCEPT ![s] = "timeout"]
    /\ UNCHANGED <<process, inner, phase, worker, state, runId, creds, asked,
                   locals, runRow, ledger>>

\* _force_fail, one action per access to shared state: the row goes to
\* FAILED, then self.state, then a regular _transition to IDLE.
ForceFailRow(s) ==
    /\ MgrGoes(s, "ffRow", "ffState")
    /\ WriteRow(s, "FAILED")
    /\ UNCHANGED <<process, inner, phase, worker, object, plan, locals, ledger>>

ForceFailState(s) ==
    /\ MgrGoes(s, "ffState", "ffCheck")
    /\ state' = [state EXCEPT ![s] = "FAILED"]
    /\ UNCHANGED <<process, inner, phase, worker, runId, cancelled, creds,
                   plan, locals, runRow, ledger>>

ForceFailCheck(s) ==
    /\ MayMove(state[s], "IDLE")
    /\ MgrGoes(s, "ffCheck", "ffAssign")
    /\ UNCHANGED <<process, inner, phase, worker, object, plan, locals, runRow,
                   ledger>>

ForceFailAssign(s) ==
    /\ MgrGoes(s, "ffAssign", "ffSave")
    /\ state' = [state EXCEPT ![s] = "IDLE"]
    /\ UNCHANGED <<process, inner, phase, worker, runId, cancelled, creds,
                   plan, locals, runRow, ledger>>

ForceFailSave(s) ==
    /\ MgrGoes(s, "ffSave", "grace")
    /\ WriteRow(s, "IDLE")
    /\ UNCHANGED <<process, inner, phase, worker, object, plan, locals, ledger>>

\* _force_fail raised: the inner thread had assigned self.state in between
\* and the move to IDLE is refused, or the database refused an update.  Only
\* the finally clause of the request thread still runs.
ForceFailRaises(s) ==
    /\ \/ mgr[s] = "ffCheck" /\ ~MayMove(state[s], "IDLE")
       \/ mgr[s] \in {"ffRow", "ffSave"}
    /\ mgr' = [mgr EXCEPT ![s] = "aborted"]
    /\ Release
    /\ UNCHANGED <<up, crashes, inner, phase, worker, object, plan, locals,
                   runRow, ledger>>

\* join(timeout=5): the inner thread may or may not be over by now.
GraceOver(s) ==
    /\ MgrGoes(s, "grace", "finish")
    /\ UNCHANGED <<process, inner, phase, worker, object, plan, locals, runRow,
                   ledger>>

\* Drop the credentials, broadcast REFRESH_COMPLETE, release the lock.
Finish(s) ==
    /\ MgrGoes(s, "finish", "done")
    /\ creds' = [creds EXCEPT ![s] = FALSE]
    /\ Release
    /\ UNCHANGED <<up, crashes, inner, phase, worker, state, runId, cancelled,
                   plan, locals, runRow, ledger>>

MgrStep(s) ==
    \/ JoinReturns(s)     \/ SessionTimeout(s)
    \/ ForceFailRow(s)    \/ ForceFailState(s) \/ ForceFailCheck(s)
    \/ ForceFailAssign(s) \/ ForceFailSave(s)  \/ ForceFailRaises(s)
    \/ GraceOver(s)       \/ Finish(s)

-------------------------------------------------------------------------------
(* The inner thread.                                                       *)

InnerGoes(s, from, to) == inner[s] = from /\ inner' = [inner EXCEPT ![s] = to]

\* The thread is over and its locals are gone.
InnerEnds(s, how) ==
    /\ inner' = [inner EXCEPT ![s] = how]
    /\ phase' = [phase EXCEPT ![s] = "check"]
    /\ cur' = [cur EXCEPT ![s] = NoInst]
    /\ attempt' = [attempt EXCEPT ![s] = 0]
    /\ won' = [won EXCEPT ![s] = {}]
    /\ lost' = [lost EXCEPT ![s] = {}]

\* create_refresh_run, and self.run_id.
InsertRun(s) ==
    /\ InnerGoes(s, "create", "toEval")
    /\ runId' = [runId EXCEPT ![s] = TRUE]
    /\ row' = [row EXCEPT ![s] = "EVALUATING_STALENESS"]
    /\ UNCHANGED <<process, mgr, phase, worker, state, cancelled, creds, plan,
                   locals, closed, ledger>>

\* _transition, first statement: the move is legal.
CheckMove(s) ==
    /\ inner[s] \in Moving /\ phase[s] = "check"
    /\ MayMove(state[s], Target[inner[s]])
    /\ phase' = [phase EXCEPT ![s] = "assign"]
    /\ UNCHANGED <<process, mgr, inner, worker, object, plan, locals, runRow,
                   ledger>>

\* It is not, and the exception ends the thread; or the call is the last
\* one, back to IDLE, and somebody else has put the session there already.
RefuseMove(s) ==
    /\ inner[s] \in Moving /\ phase[s] = "check"
    /\ ~MayMove(state[s], Target[inner[s]])
    /\ InnerEnds(s, IF inner[s] = "toRest" /\ state[s] = "IDLE"
                    THEN "ended" ELSE "rejected")
    /\ UNCHANGED <<process, mgr, worker, object, plan, runRow, ledger>>

\* _transition, second statement: self.state = new_state.
AssignMove(s) ==
    /\ inner[s] \in Moving /\ phase[s] = "assign"
    /\ state' = [state EXCEPT ![s] = Target[inner[s]]]
    /\ phase' = [phase EXCEPT ![s] = "save"]
    /\ UNCHANGED <<process, mgr, inner, worker, runId, cancelled, creds, plan,
                   locals, runRow, ledger>>

\* A session that only writes the states a run rests in.
SaveRow_RestingOnly(s) ==
    IF Target[inner[s]] \in Completing \cup {"IDLE"}
    THEN WriteRow(s, Target[inner[s]]) ELSE UNCHANGED runRow

SaveRow(s) == WriteRow(s, Target[inner[s]])

\* The verdict, in the dict the manager is about to broadcast or has broadcast
\* already: the queues of the clients hold the dict itself, which is serialised
\* when it is delivered.
WriteSummary(s) ==
    summary' = IF inner[s] \in DOMAIN Verdict
               THEN [summary EXCEPT ![s] = Verdict[inner[s]]] ELSE summary

\* _transition, the rest: update and commit the row; then whatever
\* _run_inner does up to its next shared access.
SaveMove(s) ==
    /\ inner[s] \in Moving /\ phase[s] = "save"
    /\ SaveRow(s)
    /\ phase' = [phase EXCEPT ![s] = "check"]
    /\ inner' = [inner EXCEPT ![s] = After[inner[s]]]
    /\ WriteSummary(s)
    /\ UNCHANGED <<process, mgr, worker, object, asked, locals, ledger>>

\* evaluate_staleness and the selection by target and force.  Which subset
\* of the institutions comes out depends on the clock and on the request, so
\* every subset does here.
Evaluate(s, stale) ==
    /\ InnerGoes(s, "evaluate", IF stale = {} THEN "toQuit" ELSE "toAuth")
    /\ asked' = [asked EXCEPT ![s] = stale]
    /\ UNCHANGED <<process, mgr, phase, worker, object, summary, locals,
                   runRow, ledger>>

Pending(s) == asked[s] \ (won[s] \cup lost[s])

MayContinue(s) == ~cancelled[s]

\* raise_if_cancelled, at each of the three places that call it.  The loop
\* asks only when there is a next institution.
CancelRaises(s) ==
    /\ \/ inner[s] \in {"authCheck", "launchCheck"}
       \/ inner[s] = "loop" /\ Pending(s) # {}
    /\ ~MayContinue(s)
    /\ InnerEnds(s, "raised")
    /\ UNCHANGED <<process, mgr, worker, object, plan, runRow, ledger>>

AuthCheck(s) ==
    /\ InnerGoes(s, "authCheck", "toFetch")
    /\ MayContinue(s)
    /\ UNCHANGED <<process, mgr, phase, worker, object, plan, locals, runRow,
                   ledger>>

\* request_credentials returned; no credentials at all is not an error.
FetchCredentials(s) ==
    /\ InnerGoes(s, "fetch", "toRunning")
    /\ creds' = [creds EXCEPT ![s] = TRUE]
    /\ UNCHANGED <<process, mgr, phase, worker, state, runId, cancelled, plan,
                   locals, runRow, ledger>>

\* The next institution of the loop.
NextInstitution(s, i) ==
    /\ i \in Pending(s)
    /\ InnerGoes(s, "loop", "begin")
    /\ MayContinue(s)
    /\ cur' = [cur EXCEPT ![s] = i]
    /\ UNCHANGED <<process, mgr, phase, worker, object, plan, attempt, won,
                   lost, runRow, ledger>>

\* A verdict that does not count an institution whose retry is scheduled.
ClosingMove_RetriesForgiven(s) ==
    IF \A i \in lost[s] : event[s][i] = "RETRY_BACKOFF" THEN "toSuccess"
    ELSE IF won[s] # {} THEN "toPartial" ELSE "toFailed"

ClosingMove(s) ==
    IF lost[s] = {} THEN "toSuccess"
    ELSE IF won[s] # {} THEN "toPartial" ELSE "toFailed"

\* The loop ran out: Chrome is closed and the verdict chosen.  There is no
\* look at the cancellation token on this path.
LoopEnds(s) ==
    /\ Pending(s) = {}
    /\ InnerGoes(s, "loop", ClosingMove(s))
    /\ won' = [won EXCEPT ![s] = {}]
    /\ lost' = [lost EXCEPT ![s] = {}]
    /\ UNCHANGED <<process, mgr, phase, worker, object, plan, cur, attempt,
                   runRow, ledger>>

-------------------------------------------------------------------------------
(* _run_institution, in the inner thread.                                  *)

\* Read the failure count, insert the event row.
BeginInstitution(s) ==
    /\ InnerGoes(s, "begin", "launchCheck")
    /\ attempt' = [attempt EXCEPT ![s] = streak[cur[s]] + 1]
    /\ event' = [event EXCEPT ![s][cur[s]] = "STARTED"]
    /\ UNCHANGED <<process, mgr, phase, worker, object, plan, cur, won, lost,
                   runRow, streak, saved>>

LaunchCheck(s) ==
    /\ InnerGoes(s, "launchCheck", "launch")
    /\ MayContinue(s)
    /\ UNCHANGED <<process, mgr, phase, worker, object, plan, locals, runRow,
                   ledger>>

Launch(s) ==
    /\ InnerGoes(s, "launch", "await")
    /\ worker' = [worker EXCEPT ![s][cur[s]] = "running"]
    /\ UNCHANGED <<process, mgr, phase, object, plan, locals, runRow, ledger>>

\* What the failure handler decides: no retry for a fatal error or once the
\* attempts are used up.
FailurePath(s, fatal) ==
    IF fatal \/ attempt[s] > MaxRetries THEN "recordGiveUp" ELSE "recordRetry"

\* The worker thread is over and its result is taken.
TakeResult(s, result) ==
    /\ worker[s][cur[s]] = result
    /\ worker' = [worker EXCEPT ![s][cur[s]] = "none"]

AwaitReturned(s) ==
    /\ InnerGoes(s, "await", "recordOk")
    /\ TakeResult(s, "returned")
    /\ UNCHANGED <<process, mgr, phase, object, plan, locals, runRow, ledger>>

AwaitRaised(s, fatal) ==
    /\ InnerGoes(s, "await", FailurePath(s, fatal))
    /\ TakeResult(s, "raised")
    /\ UNCHANGED <<process, mgr, phase, object, plan, locals, runRow, ledger>>

\* A session that waits for its workers without a limit.
AwaitTimeout_Never(s) == FALSE

\* The institution's limit passed with the worker alive.  The worker keeps
\* running; "timeout" in the message is never a fatal error.
AwaitTimeout(s) ==
    /\ InnerGoes(s, "await", FailurePath(s, FALSE))
    /\ worker[s][cur[s]] \in {"running", "saved"}
    /\ UNCHANGED <<process, mgr, phase, worker, object, plan, locals, runRow,
                   ledger>>

\* _run_institution returned to the loop: its locals are gone.
LeaveInstitution(s) ==
    /\ inner' = [inner EXCEPT ![s] = "loop"]
    /\ cur' = [cur EXCEPT ![s] = NoInst]
    /\ attempt' = [attempt EXCEPT ![s] = 0]

\* One transaction: event row, institution status, derived summaries.
RecordOk(s) ==
    /\ inner[s] = "recordOk"
    /\ LeaveInstitution(s)
    /\ event' = [event EXCEPT ![s][cur[s]] = "COMPLETED"]
    /\ streak' = [streak EXCEPT ![cur[s]] = 0]
    /\ won' = [won EXCEPT ![s] = @ \cup {cur[s]}]
    /\ UNCHANGED <<process, mgr, phase, worker, object, plan, lost, runRow,
                   saved>>

\* That transaction failed and was rolled back: the attempt counts as failed,
\* although the worker's data is committed.
RecordOkFails(s) ==
    /\ InnerGoes(s, "recordOk", FailurePath(s, FALSE))
    /\ UNCHANGED <<process, mgr, phase, worker, object, plan, locals, runRow,
                   ledger>>

\* A failure handler that starts the count over on giving up.
FailedStreak_ResetOnGiveUp(s) ==
    IF inner[s] = "recordGiveUp" THEN 0 ELSE streak[cur[s]] + 1

\* One that counts the tries left instead.
FailedStreak_CountsDown(s) == streak[cur[s]] - 1

FailedStreak(s) == streak[cur[s]] + 1

\* One transaction: event row, institution status, failure notification.
RecordFailure(s) ==
    /\ inner[s] \in {"recordRetry", "recordGiveUp"}
    /\ LeaveInstitution(s)
    /\ event' = [event EXCEPT ![s][cur[s]] =
                    IF inner[s] = "recordRetry" THEN "RETRY_BACKOFF"
                                                ELSE "FAILED"]
    /\ streak' = [streak EXCEPT ![cur[s]] = FailedStreak(s)]
    /\ lost' = [lost EXCEPT ![s] = @ \cup {cur[s]}]
    /\ UNCHANGED <<process, mgr, phase, worker, object, plan, won, runRow,
                   saved>>

\* A database call of the inner thread outside _run_institution's try block
\* raised (locked, disk full): the exception ends the thread.
InnerRaises(s) ==
    /\ \/ inner[s] \in {"create", "evaluate", "begin", "recordRetry",
                        "recordGiveUp"}
       \/ inner[s] \in Moving /\ phase[s] = "save"
    /\ InnerEnds(s, "raised")
    /\ UNCHANGED <<process, mgr, worker, object, plan, runRow, ledger>>

InnerStep(s) ==
    \/ InsertRun(s)
    \/ CheckMove(s) \/ RefuseMove(s) \/ AssignMove(s) \/ SaveMove(s)
    \/ \E stale \in SUBSET Institution : Evaluate(s, stale)
    \/ CancelRaises(s) \/ AuthCheck(s)
    \/ FetchCredentials(s)
    \/ \E i \in Institution : NextInstitution(s, i)
    \/ LoopEnds(s)
    \/ BeginInstitution(s) \/ LaunchCheck(s) \/ Launch(s)
    \/ AwaitReturned(s)
    \/ \E fatal \in BOOLEAN : AwaitRaised(s, fatal)
    \/ AwaitTimeout(s)
    \/ RecordOk(s) \/ RecordOkFails(s) \/ RecordFailure(s)
    \/ InnerRaises(s)

-------------------------------------------------------------------------------
(* The worker threads (automation_worker.run_institution).  Nobody waits   *)
(* for one for ever and nobody can stop it.                                *)

\* What a worker leaves in its result box, if anybody still holds the box.
Result(s, i, how) == IF inner[s] = "await" /\ cur[s] = i THEN how ELSE "none"

WorkerBecomes(s, i, from, to) ==
    /\ worker[s][i] = from
    /\ worker' = [worker EXCEPT ![s][i] = to]
    /\ UNCHANGED <<process, mgr, inner, phase, object, plan, locals, runRow,
                   event, streak>>

\* A worker that hands its numbers back without persisting them.
CommitData_Skipped(s, i) == UNCHANGED saved

CommitData(s, i) == saved' = [saved EXCEPT ![i] = @ \cup {s}]

\* persist_connector_result committed.
WorkerSaves(s, i) ==
    /\ WorkerBecomes(s, i, "running", "saved")
    /\ CommitData(s, i)

\* run_post_commit_pipeline is over (its steps swallow their exceptions).
WorkerReturns(s, i) ==
    /\ WorkerBecomes(s, i, "saved", Result(s, i, "returned"))
    /\ UNCHANGED saved

\* The connector reported an error, or persisting raised and rolled back.
WorkerRaises(s, i) ==
    /\ WorkerBecomes(s, i, "running", Result(s, i, "raised"))
    /\ UNCHANGED saved

WorkerStep(s, i) == WorkerSaves(s, i) \/ WorkerReturns(s, i) \/ WorkerRaises(s, i)

-------------------------------------------------------------------------------
(* The process.                                                            *)

\* Every thread and every object is gone; the database is not.  (asked and
\* summary stay as the record the properties speak about.)
Crash ==
    /\ up /\ crashes < MaxCrashes
    /\ up' = FALSE /\ lock' = FALSE /\ crashes' = crashes + 1
    /\ mgr' = [s \in Session |-> IF mgr[s] \in MgrLive THEN "dead" ELSE mgr[s]]
    /\ inner' = [s \in Session |->
                    IF inner[s] = "none" THEN "none" ELSE "dead"]
    /\ phase'     = [s \in Session |-> "check"]
    /\ worker'    = [s \in Session |-> [i \in Institution |-> "none"]]
    /\ state'     = [s \in Session |-> "IDLE"]
    /\ runId'     = [s \in Session |-> FALSE]
    /\ cancelled' = [s \in Session |-> FALSE]
    /\ creds'     = [s \in Session |-> FALSE]
    /\ cur'       = [s \in Session |-> NoInst]
    /\ attempt'   = [s \in Session |-> 0]
    /\ won'       = [s \in Session |-> {}]
    /\ lost'      = [s \in Session |-> {}]
    /\ UNCHANGED <<plan, runRow, ledger>>

\* lifespan: recover_orphaned_runs before the first request is served.
Restart ==
    /\ ~up
    /\ up' = TRUE
    /\ row' = [s \in Session |->
                  IF row[s] \in Orphanable THEN "FAILED" ELSE row[s]]
    /\ closed' = [s \in Session |-> closed[s] \/ row[s] \in Orphanable]
    /\ UNCHANGED <<crashes, lock, mgr, inner, phase, worker, object, plan,
                   locals, ledger>>

\* Every session was requested and every thread is over.
Quiet ==
    /\ up
    /\ \A s \in Session : /\ mgr[s] \notin MgrLive \cup {"none"}
                          /\ inner[s] \notin InnerLive
    /\ \A s \in Session, i \in Institution :
          worker[s][i] \notin {"running", "saved"}
    /\ UNCHANGED vars

Next ==
    \/ \E s \in Session : StartRefresh(s) \/ MgrStep(s) \/ InnerStep(s)
    \/ \E s \in Session, i \in Institution : WorkerStep(s, i)
    \/ Crash \/ Restart \/ Quiet

\* The two threads of a session wait with a limit wherever they wait, so
\* they keep moving.  A worker may hang for ever; nobody has to send a
\* request or restart the process.
Fairness == \A s \in Session : WF_vars(MgrStep(s)) /\ WF_vars(InnerStep(s))

Spec == Init /\ [][Next]_vars

FairSpec == Spec /\ Fairness

-------------------------------------------------------------------------------
(* Properties.                                                             *)

\* The refresh lock (router start_refresh) is held exactly while one manager
\* is at work: no second session is managed beside it, and neither a timeout,
\* an exception nor a crash leaves the lock behind.
LockFollowsManager ==
    /\ lock <=> \E s \in Session : mgr[s] \in MgrLive
    /\ \A s, t \in Session :
          mgr[s] \in MgrLive /\ mgr[t] \in MgrLive => s = t

\* Inner threads outlive their session when it times out, so several can be
\* alive; at most one of them is not cancelled.
OneUncancelledSession ==
    \A s, t \in Session :
        /\ inner[s] \in InnerLive /\ ~cancelled[s]
        /\ inner[t] \in InnerLive /\ ~cancelled[t]
        => s = t

\* What REFRESH_COMPLETE says is true whenever it is delivered: "success" means
\* every institution asked for has its COMPLETED event and its data committed
\* under this run, "partial_success" that some but not all have, "nothing_stale"
\* that there was nothing to do.  It holds although the inner thread of a
\* timed-out session can overwrite the report before and after it is broadcast.
ReportIsTrue ==
    \A s \in Session :
        LET done == { i \in asked[s] : /\ event[s][i] = "COMPLETED"
                                       /\ s \in saved[i] }
        IN  mgr[s] = "done" =>
            /\ summary[s] = "success" => done = asked[s] /\ done # {}
            /\ summary[s] = "partial_success" => done # {} /\ done # asked[s]
            /\ summary[s] = "nothing_stale" => asked[s] = {}

\* As long as a session is not timed out, every committed row state is the
\* session's own state: GET /api/refresh/status shows the truth between two
\* moves (_transition, "validation and persistence").
RowTracksSession ==
    \A s \in Session :
        /\ ~cancelled[s]
        /\ inner[s] \in InnerLive \ {"create", "toEval"}
        /\ phase[s] # "save"
        => row[s] = state[s]

\* _transition never refuses a move of an ordinary session: only the race
\* with _force_fail can drive the inner thread into "Invalid transition".
OnlyTimeoutBreaksMoves ==
    \A s \in Session : inner[s] = "rejected" => cancelled[s]

\* Rows that do not read as a run in progress.
AtRest == {"absent", "IDLE"} \cup Completing

\* Once the process is back, no run of an earlier process is in a state that
\* reads as active, and those that ended are closed (recover_orphaned_runs).
CrashedRunsClosed ==
    \A s \in Session :
        up /\ inner[s] = "dead" =>
            /\ row[s] \in AtRest
            /\ row[s] \in Completing => closed[s]

\* consecutive_failures never exceeds the failed attempts on record and,
\* while an institution has never completed, equals them: attempts of
\* overlapping sessions, giving up and crashes lose or invent no failure.
FailuresAccountedFor ==
    \A i \in Institution :
        LET failed == { s \in Session :
                           event[s][i] \in {"RETRY_BACKOFF", "FAILED"} }
        IN  /\ streak[i] <= Cardinality(failed)
            /\ (\A s \in Session : event[s][i] # "COMPLETED")
                   => streak[i] = Cardinality(failed)

\* A session decides to take up an institution, and to start its connector, only
\* while its manager waits for it under the lock: what a thread that has outlived
\* its session still does is the institution it was at, never one of its list
\* beside the next session.
TakenUpUnderLock ==
    [][ \A s \in Session :
          \/ inner[s] = "loop" /\ inner'[s] = "begin"
          \/ inner[s] = "launchCheck" /\ inner'[s] = "launch"
          => lock /\ mgr[s] = "join" ]_vars

\* A hung connector cannot block refreshing: the lock is always given back,
\* although no worker is assumed to return.
LockIsReleased == lock ~> ~lock

\* The inner thread of every session, timed out or not, comes to an end.
InnerThreadsEnd ==
    \A s \in Session : inner[s] \in InnerLive ~> inner[s] \notin InnerLive

\* The ledger the database shows: who is in charge is the manager that holds
\* the lock, an attempt is what its event row says.
LedgerCharge ==
    [s \in Session |-> CASE mgr[s] = "none"    -> "idle"
                         [] mgr[s] \in MgrLive -> "acting"
                         [] OTHER              -> "over"]

LedgerAttempt ==
    [s \in Session |-> [i \in Institution |->
        CASE event[s][i] = "none"      -> "none"
          [] event[s][i] = "STARTED"   -> "open"
          [] event[s][i] = "COMPLETED" -> "good"
          [] OTHER                     -> "bad"]]

Ledger == INSTANCE RefreshLedger
              WITH charge <- LedgerCharge, attempt <- LedgerAttempt

\* Threads that overlap, time out and are left behind, and a process that
\* dies, keep the promises of RefreshLedger: an attempt is resolved once, in
\* the step that moves the failure count, good only with its data committed.
KeepsLedger == Ledger!Spec

===============================================================================
