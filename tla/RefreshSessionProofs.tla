------------------------- MODULE RefreshSessionProofs -------------------------
(***************************************************************************)
(* Theorems about RefreshSession, for every set of sessions and            *)
(* institutions, every retry limit and every number of crashes.            *)
(***************************************************************************)
EXTENDS RefreshSession, TLAPS

(* The tables of _transition are made of control points and run states.    *)
LEMMA TableTypes ==
    /\ Moving = {"toEval", "toQuit", "toAuth", "toFetch", "toRunning",
                 "toSuccess", "toPartial", "toFailed", "toRest"}
    /\ \A m \in Moving : /\ Target[m] \in RefreshState
                         /\ After[m] \in InnerPoint
    /\ \A m \in DOMAIN Verdict : Verdict[m] \in Status
<1>1. Moving = {"toEval", "toQuit", "toAuth", "toFetch", "toRunning",
                "toSuccess", "toPartial", "toFailed", "toRest"}
  BY DEF Moving, Target
<1>2. \A m \in Moving : Target[m] \in RefreshState /\ After[m] \in InnerPoint
  BY <1>1 DEF Target, After, RefreshState, InnerPoint, InnerLive, InnerOver
<1>3. \A m \in DOMAIN Verdict : Verdict[m] \in Status
  BY DEF Verdict, Status
<1> QED
  BY <1>1, <1>2, <1>3

-------------------------------------------------------------------------------
(* Type correctness.                                                       *)

LEMMA InitTypes == Init => TypeOK
<1> SUFFICES ASSUME Init PROVE TypeOK
  OBVIOUS
<1>1. crashes \in 0..MaxCrashes
  BY RefreshAssumption DEF Init
<1>2. /\ mgr \in [Session -> MgrPoint]
      /\ inner \in [Session -> InnerPoint]
  BY DEF Init, MgrPoint, InnerPoint
<1>3. /\ row \in [Session -> RefreshState \cup {"absent"}]
      /\ state \in [Session -> RefreshState]
      /\ summary \in [Session -> Status]
      /\ worker \in [Session -> [Institution -> WorkerState]]
      /\ event \in [Session -> [Institution -> EventState]]
  BY DEF Init, RefreshState, Status, WorkerState, EventState
<1>4. /\ streak \in [Institution -> Nat]
      /\ attempt \in [Session -> Nat]
  BY DEF Init
<1> QED
  BY <1>1, <1>2, <1>3, <1>4 DEF Init, TypeOK

LEMMA MgrTypes ==
    ASSUME TypeOK, NEW s \in Session, StartRefresh(s) \/ MgrStep(s)
    PROVE  TypeOK'
<1> USE DEF TypeOK, process, object, plan, locals, runRow, ledger
<1>1. CASE StartRefresh(s)
  BY <1>1 DEF StartRefresh, Acquire, MgrPoint, MgrLive, InnerPoint, InnerLive
<1>2. CASE JoinReturns(s)
  BY <1>2 DEF JoinReturns, MgrGoes, MgrPoint, MgrLive
<1>3. CASE SessionTimeout(s)
  BY <1>3 DEF SessionTimeout, SignalCancel, MgrGoes, MgrPoint, MgrLive, Status
<1>4. CASE ForceFailRow(s)
  BY <1>4 DEF ForceFailRow, WriteRow, MgrGoes, MgrPoint, MgrLive, RefreshState
<1>5. CASE ForceFailState(s)
  BY <1>5 DEF ForceFailState, MgrGoes, MgrPoint, MgrLive, RefreshState
<1>6. CASE ForceFailCheck(s)
  BY <1>6 DEF ForceFailCheck, MgrGoes, MgrPoint, MgrLive
<1>7. CASE ForceFailAssign(s)
  BY <1>7 DEF ForceFailAssign, MgrGoes, MgrPoint, MgrLive, RefreshState
<1>8. CASE ForceFailSave(s)
  BY <1>8 DEF ForceFailSave, WriteRow, MgrGoes, MgrPoint, MgrLive, RefreshState
<1>9. CASE ForceFailRaises(s)
  BY <1>9 DEF ForceFailRaises, Release, MgrPoint
<1>10. CASE GraceOver(s)
  BY <1>10 DEF GraceOver, MgrGoes, MgrPoint, MgrLive
<1>11. CASE Finish(s)
  BY <1>11 DEF Finish, Release, MgrGoes, MgrPoint
<1> QED
  BY <1>1, <1>2, <1>3, <1>4, <1>5, <1>6, <1>7, <1>8, <1>9, <1>10, <1>11
     DEF MgrStep

LEMMA InnerEndsTypes ==
    ASSUME TypeOK, NEW s \in Session, NEW how \in InnerOver, InnerEnds(s, how)
    PROVE  /\ inner'   \in [Session -> InnerPoint]
           /\ phase'   \in [Session -> {"check", "assign", "save"}]
           /\ cur'     \in [Session -> Institution \cup {NoInst}]
           /\ attempt' \in [Session -> Nat]
           /\ won'     \in [Session -> SUBSET Institution]
           /\ lost'    \in [Session -> SUBSET Institution]
  BY DEF TypeOK, InnerEnds, InnerPoint

LEMMA MoveTypes ==
    ASSUME TypeOK, NEW s \in Session,
           \/ InsertRun(s) \/ CheckMove(s) \/ RefuseMove(s)
           \/ AssignMove(s) \/ SaveMove(s)
    PROVE  TypeOK'
<1> USE DEF TypeOK, process, object, plan, locals, runRow, ledger
<1>1. CASE InsertRun(s)
  BY <1>1, TableTypes
     DEF InsertRun, InnerGoes, InnerPoint, InnerLive, RefreshState
<1>2. CASE CheckMove(s)
  BY <1>2 DEF CheckMove
<1>3. CASE RefuseMove(s)
  BY <1>3, InnerEndsTypes DEF RefuseMove, InnerOver
<1>4. CASE AssignMove(s)
  BY <1>4, TableTypes DEF AssignMove
<1>5. CASE SaveMove(s)
  BY <1>5, TableTypes DEF SaveMove, SaveRow, WriteRow, WriteSummary
<1> QED
  BY <1>1, <1>2, <1>3, <1>4, <1>5

LEMMA RunTypes ==
    ASSUME TypeOK, NEW s \in Session,
           \/ \E stale \in SUBSET Institution : Evaluate(s, stale)
           \/ CancelRaises(s) \/ AuthCheck(s) \/ FetchCredentials(s)
           \/ \E i \in Institution : NextInstitution(s, i)
           \/ LoopEnds(s)
    PROVE  TypeOK'
<1> USE DEF TypeOK, process, object, plan, locals, runRow, ledger
<1>1. ASSUME NEW stale \in SUBSET Institution, Evaluate(s, stale)
      PROVE  TypeOK'
  BY <1>1, TableTypes DEF Evaluate, InnerGoes, InnerPoint, InnerLive
<1>2. CASE CancelRaises(s)
  BY <1>2, InnerEndsTypes DEF CancelRaises, InnerOver
<1>3. CASE AuthCheck(s)
  BY <1>3, TableTypes DEF AuthCheck, InnerGoes, InnerPoint, InnerLive
<1>4. CASE FetchCredentials(s)
  BY <1>4, TableTypes DEF FetchCredentials, InnerGoes, InnerPoint, InnerLive
<1>5. ASSUME NEW i \in Institution, NextInstitution(s, i)
      PROVE  TypeOK'
  BY <1>5 DEF NextInstitution, InnerGoes, InnerPoint, InnerLive
<1>6. CASE LoopEnds(s)
  BY <1>6, TableTypes
     DEF LoopEnds, ClosingMove, InnerGoes, InnerPoint, InnerLive
<1> QED
  BY <1>1, <1>2, <1>3, <1>4, <1>5, <1>6

(* Inside _run_institution there is an institution.                        *)
CurrentInst ==
    \A s \in Session :
        inner[s] \in {"begin", "launchCheck", "launch", "await", "recordOk",
                     "recordRetry", "recordGiveUp"} => cur[s] \in Institution

LEMMA InstitutionTypes ==
    ASSUME TypeOK, CurrentInst, NEW s \in Session,
           \/ BeginInstitution(s) \/ LaunchCheck(s) \/ Launch(s)
           \/ AwaitReturned(s)
           \/ \E fatal \in BOOLEAN : AwaitRaised(s, fatal)
           \/ AwaitTimeout(s)
           \/ RecordOk(s) \/ RecordOkFails(s) \/ RecordFailure(s)
           \/ InnerRaises(s)
    PROVE  TypeOK'
<1> USE DEF TypeOK, process, object, plan, locals, runRow, ledger
<1> DEFINE Path == {"recordRetry", "recordGiveUp"}
<1>0. /\ Path \subseteq InnerPoint
      /\ \A fatal \in BOOLEAN : FailurePath(s, fatal) \in Path
  BY DEF FailurePath, InnerPoint, InnerLive
<1>1. CASE BeginInstitution(s)
  <2>1. cur[s] \in Institution /\ streak[cur[s]] \in Nat
    BY <1>1 DEF BeginInstitution, InnerGoes, CurrentInst
  <2> QED
    BY <1>1, <2>1
       DEF BeginInstitution, InnerGoes, InnerPoint, InnerLive, EventState
<1>2. CASE LaunchCheck(s)
  BY <1>2 DEF LaunchCheck, InnerGoes, InnerPoint, InnerLive
<1>3. CASE Launch(s)
  BY <1>3 DEF Launch, InnerGoes, InnerPoint, InnerLive, WorkerState
<1>4. CASE AwaitReturned(s)
  BY <1>4 DEF AwaitReturned, TakeResult, InnerGoes, InnerPoint, InnerLive,
              WorkerState
<1>5. ASSUME NEW fatal \in BOOLEAN, AwaitRaised(s, fatal)
      PROVE  TypeOK'
  <2>1. inner' \in [Session -> InnerPoint]
    BY <1>0, <1>5 DEF AwaitRaised, InnerGoes
  <2>2. worker' \in [Session -> [Institution -> WorkerState]]
    BY <1>5 DEF AwaitRaised, TakeResult, WorkerState
  <2> QED
    BY <1>5, <2>1, <2>2 DEF AwaitRaised
<1>6. CASE AwaitTimeout(s)
  <2>1. inner' \in [Session -> InnerPoint]
    BY <1>0, <1>6 DEF AwaitTimeout, InnerGoes
  <2> QED
    BY <1>6, <2>1 DEF AwaitTimeout
<1>7. CASE RecordOk(s)
  <2>1. cur[s] \in Institution
    BY <1>7 DEF RecordOk, CurrentInst
  <2> QED
    BY <1>7, <2>1
       DEF RecordOk, LeaveInstitution, InnerPoint, InnerLive, EventState
<1>8. CASE RecordOkFails(s)
  <2>1. inner' \in [Session -> InnerPoint]
    BY <1>0, <1>8 DEF RecordOkFails, InnerGoes
  <2> QED
    BY <1>8, <2>1 DEF RecordOkFails
<1>9. CASE RecordFailure(s)
  <2>1. cur[s] \in Institution /\ FailedStreak(s) \in Nat
    BY <1>9 DEF RecordFailure, CurrentInst, FailedStreak
  <2> QED
    BY <1>9, <2>1
       DEF RecordFailure, LeaveInstitution, InnerPoint, InnerLive, EventState
<1>10. CASE InnerRaises(s)
  BY <1>10, InnerEndsTypes DEF InnerRaises, InnerOver
<1> QED
  BY <1>1, <1>2, <1>3, <1>4, <1>5, <1>6, <1>7, <1>8, <1>9, <1>10

LEMMA WorkerTypes ==
    ASSUME TypeOK, NEW s \in Session, NEW i \in Institution, WorkerStep(s, i)
    PROVE  TypeOK'
<1>0. /\ Result(s, i, "returned") \in WorkerState
      /\ Result(s, i, "raised") \in WorkerState
      /\ "saved" \in WorkerState
  BY DEF Result, WorkerState
<1>1. worker' \in [Session -> [Institution -> WorkerState]]
  <2>1. PICK to \in WorkerState : worker' = [worker EXCEPT ![s][i] = to]
    BY <1>0 DEF WorkerStep, WorkerSaves, WorkerReturns, WorkerRaises,
                WorkerBecomes
  <2> QED
    BY <2>1 DEF TypeOK
<1>2. saved' \in [Institution -> SUBSET Session]
  BY DEF TypeOK, WorkerStep, WorkerSaves, WorkerReturns, WorkerRaises,
         CommitData
<1>3. UNCHANGED <<process, mgr, inner, phase, object, plan, locals, runRow,
                  event, streak>>
  BY DEF WorkerStep, WorkerSaves, WorkerReturns, WorkerRaises, WorkerBecomes
<1> QED
  BY <1>1, <1>2, <1>3 DEF TypeOK, process, object, plan, locals, runRow

LEMMA ProcessTypes ==
    ASSUME TypeOK, Crash \/ Restart
    PROVE  TypeOK'
<1> USE DEF TypeOK, process, object, plan, locals, runRow, ledger
<1>1. CASE Crash
  <2>1. crashes' \in 0..MaxCrashes
    BY <1>1, RefreshAssumption DEF Crash
  <2>2. mgr' \in [Session -> MgrPoint] /\ inner' \in [Session -> InnerPoint]
    BY <1>1 DEF Crash, MgrPoint, InnerPoint
  <2>3. /\ state' \in [Session -> RefreshState]
        /\ worker' \in [Session -> [Institution -> WorkerState]]
        /\ attempt' \in [Session -> Nat]
    BY <1>1 DEF Crash, RefreshState, WorkerState
  <2> QED
    BY <1>1, <2>1, <2>2, <2>3 DEF Crash
<1>2. CASE Restart
  <2>1. row' \in [Session -> RefreshState \cup {"absent"}]
    BY <1>2 DEF Restart, RefreshState
  <2>2. closed' \in [Session -> BOOLEAN]
    BY <1>2 DEF Restart
  <2> QED
    BY <1>2, <2>1, <2>2 DEF Restart
<1> QED
  BY <1>1, <1>2

-------------------------------------------------------------------------------
(* The inductive invariant.                                                *)

(* A live inner thread is supervised by a manager in join, or cancelled.   *)
Supervised ==
    \A s \in Session :
        inner[s] \in InnerLive /\ ~cancelled[s] => mgr[s] = "join"

(* Only a manager that cancelled is anywhere in _force_fail or after it    *)
(* with the inner thread alive.                                            *)
ForcedIsCancelled ==
    \A s \in Session :
        mgr[s] \in {"ffRow", "ffState", "ffCheck", "ffAssign", "ffSave"}
            => cancelled[s]

IInv == TypeOK /\ CurrentInst /\ LockFollowsManager /\ Supervised
        /\ ForcedIsCancelled

LEMMA IInvInit == Init => IInv
<1> SUFFICES ASSUME Init PROVE IInv
  OBVIOUS
<1>1. TypeOK
  BY InitTypes
<1>2. CurrentInst /\ Supervised /\ ForcedIsCancelled
  BY DEF Init, CurrentInst, Supervised, ForcedIsCancelled, InnerLive, Moving,
         Target
<1>3. LockFollowsManager
  BY DEF Init, LockFollowsManager, MgrLive
<1> QED
  BY <1>1, <1>2, <1>3 DEF IInv

(* What every step of an inner thread has in common: it is a step of a     *)
(* live thread and leaves the lock, the managers, the tokens and the other *)
(* sessions' threads alone.                                                *)
LEMMA InnerFrame ==
    ASSUME TypeOK, CurrentInst, NEW s \in Session, InnerStep(s)
    PROVE  /\ UNCHANGED <<up, crashes, lock, mgr, cancelled>>
           /\ inner[s] \in InnerLive
           /\ \A t \in Session \ {s} : inner'[t] = inner[t] /\ cur'[t] = cur[t]
           /\ CurrentInst'
<1> DEFINE Goal == /\ UNCHANGED <<up, crashes, lock, mgr, cancelled>>
                   /\ inner[s] \in InnerLive
                   /\ \A t \in Session \ {s} :
                         inner'[t] = inner[t] /\ cur'[t] = cur[t]
                   /\ CurrentInst'
<1> USE TableTypes DEF TypeOK, CurrentInst, process, object, locals, InnerLive
<1>1. CASE InsertRun(s)
  BY <1>1 DEF InsertRun, InnerGoes
<1>2. CASE CheckMove(s)
  BY <1>2 DEF CheckMove
<1>3. CASE RefuseMove(s)
  BY <1>3 DEF RefuseMove, InnerEnds
<1>4. CASE AssignMove(s)
  BY <1>4 DEF AssignMove
<1>5. CASE SaveMove(s)
  BY <1>5 DEF SaveMove, After
<1>6. CASE CancelRaises(s)
  BY <1>6 DEF CancelRaises, InnerEnds
<1>7. CASE AuthCheck(s)
  BY <1>7 DEF AuthCheck, InnerGoes
<1>8. CASE FetchCredentials(s)
  BY <1>8 DEF FetchCredentials, InnerGoes
<1>9. CASE LoopEnds(s)
  BY <1>9 DEF LoopEnds, InnerGoes, ClosingMove
<1>10. CASE BeginInstitution(s)
  BY <1>10 DEF BeginInstitution, InnerGoes
<1>11. CASE LaunchCheck(s)
  BY <1>11 DEF LaunchCheck, InnerGoes
<1>12. CASE Launch(s)
  BY <1>12 DEF Launch, InnerGoes
<1>13. CASE AwaitReturned(s)
  BY <1>13 DEF AwaitReturned, InnerGoes
<1>14. CASE AwaitTimeout(s)
  BY <1>14 DEF AwaitTimeout, InnerGoes, FailurePath
<1>15. CASE RecordOk(s)
  BY <1>15 DEF RecordOk, LeaveInstitution
<1>16. CASE RecordOkFails(s)
  BY <1>16 DEF RecordOkFails, InnerGoes, FailurePath
<1>17. CASE RecordFailure(s)
  BY <1>17 DEF RecordFailure, LeaveInstitution
<1>18. CASE InnerRaises(s)
  BY <1>18 DEF InnerRaises, InnerEnds
<1>19. ASSUME NEW stale \in SUBSET Institution, Evaluate(s, stale)
      PROVE  Goal
  BY <1>19 DEF Evaluate, InnerGoes
<1>20. ASSUME NEW i \in Institution, NextInstitution(s, i)
      PROVE  Goal
  BY <1>20 DEF NextInstitution, InnerGoes
<1>21. ASSUME NEW fatal \in BOOLEAN, AwaitRaised(s, fatal)
      PROVE  Goal
  BY <1>21 DEF AwaitRaised, InnerGoes, FailurePath
<1> QED
  BY <1>1, <1>2, <1>3, <1>4, <1>5, <1>6, <1>7, <1>8, <1>9, <1>10, <1>11,
     <1>12, <1>13, <1>14, <1>15, <1>16, <1>17, <1>18, <1>19, <1>20, <1>21 DEF InnerStep

Threads == CurrentInst /\ LockFollowsManager /\ Supervised /\ ForcedIsCancelled

LEMMA MgrKeepsThreads ==
    ASSUME IInv, NEW s \in Session, StartRefresh(s) \/ MgrStep(s)
    PROVE  Threads'
<1> USE DEF IInv, TypeOK, Threads, CurrentInst, LockFollowsManager, Supervised,
            ForcedIsCancelled, process, object, locals, MgrLive
<1>0. /\ InnerLive \cap InnerOver = {}
      /\ "create" \in InnerLive
  BY TableTypes DEF InnerLive, InnerOver
<1>1. CASE StartRefresh(s)
  BY <1>1, <1>0 DEF StartRefresh, Acquire
<1>2. CASE JoinReturns(s)
  BY <1>2, <1>0 DEF JoinReturns, MgrGoes
<1>3. CASE SessionTimeout(s)
  BY <1>3, <1>0 DEF SessionTimeout, MgrGoes, SignalCancel
<1>4. CASE ForceFailRow(s)
  BY <1>4, <1>0 DEF ForceFailRow, MgrGoes
<1>5. CASE ForceFailState(s)
  BY <1>5, <1>0 DEF ForceFailState, MgrGoes
<1>6. CASE ForceFailCheck(s)
  BY <1>6, <1>0 DEF ForceFailCheck, MgrGoes
<1>7. CASE ForceFailAssign(s)
  BY <1>7, <1>0 DEF ForceFailAssign, MgrGoes
<1>8. CASE ForceFailSave(s)
  BY <1>8, <1>0 DEF ForceFailSave, MgrGoes
<1>9. CASE ForceFailRaises(s)
  BY <1>9, <1>0 DEF ForceFailRaises, Release
<1>10. CASE GraceOver(s)
  BY <1>10, <1>0 DEF GraceOver, MgrGoes
<1>11. CASE Finish(s)
  BY <1>11, <1>0 DEF Finish, Release, MgrGoes
<1> QED
  BY <1>1, <1>2, <1>3, <1>4, <1>5, <1>6, <1>7, <1>8, <1>9, <1>10, <1>11
     DEF MgrStep

LEMMA IInvNext == IInv /\ [Next]_vars => IInv'
<1> SUFFICES ASSUME IInv, [Next]_vars
             PROVE  TypeOK' /\ Threads'
  BY DEF IInv, Threads
<1>0. TypeOK /\ Threads
  BY DEF IInv, Threads
<1>1. ASSUME NEW s \in Session, StartRefresh(s) \/ MgrStep(s)
      PROVE  TypeOK' /\ Threads'
  BY <1>1, <1>0, MgrTypes, MgrKeepsThreads
<1>2. ASSUME NEW s \in Session, InnerStep(s)
      PROVE  TypeOK' /\ Threads'
  <2>1. TypeOK'
    BY <1>0, <1>2, MoveTypes, RunTypes, InstitutionTypes DEF InnerStep, Threads
  <2>2. Threads'
    BY <1>0, <1>2, InnerFrame
       DEF Threads, LockFollowsManager, Supervised, ForcedIsCancelled
  <2> QED
    BY <2>1, <2>2
<1>3. ASSUME NEW s \in Session, NEW i \in Institution, WorkerStep(s, i)
      PROVE  TypeOK' /\ Threads'
  <2>1. UNCHANGED <<process, mgr, inner, object, locals>>
    BY <1>3 DEF WorkerStep, WorkerSaves, WorkerReturns, WorkerRaises,
                WorkerBecomes
  <2>2. Threads'
    BY <1>0, <2>1
       DEF Threads, CurrentInst, LockFollowsManager, Supervised,
           ForcedIsCancelled, process, object, locals
  <2> QED
    BY <1>0, <1>3, <2>2, WorkerTypes
<1>4. CASE Crash
  <2>1. \A s \in Session : mgr'[s] \notin MgrLive /\ inner'[s] \notin InnerLive
    BY <1>4, TableTypes DEF Crash, MgrLive, InnerLive
  <2>2. CurrentInst' /\ Supervised' /\ ForcedIsCancelled'
    BY <2>1 DEF CurrentInst, Supervised, ForcedIsCancelled, MgrLive, InnerLive
  <2>3. LockFollowsManager'
    BY <1>4, <2>1 DEF Crash, LockFollowsManager
  <2> QED
    BY <1>0, <1>4, <2>2, <2>3, ProcessTypes DEF Threads
<1>5. CASE Restart
  <2>1. Threads'
    BY <1>0, <1>5
       DEF Restart, Threads, CurrentInst, LockFollowsManager, Supervised,
           ForcedIsCancelled, object, locals
  <2> QED
    BY <1>0, <1>5, <2>1, ProcessTypes
<1>6. CASE UNCHANGED vars
  BY <1>0, <1>6
     DEF vars, process, object, plan, locals, runRow, ledger, TypeOK, Threads,
         CurrentInst, LockFollowsManager, Supervised, ForcedIsCancelled
<1> QED
  BY <1>1, <1>2, <1>3, <1>4, <1>5, <1>6 DEF Next, Quiet

LEMMA IInvAlways == Spec => []IInv
  BY IInvInit, IInvNext, PTL DEF Spec

-------------------------------------------------------------------------------
(* The theorems.                                                           *)

\* Every variable stays within its type.
THEOREM TypeCorrect == Spec => []TypeOK
<1>1. IInv => TypeOK
  BY DEF IInv
<1> QED
  BY <1>1, IInvAlways, PTL

\* However sessions time out, raise and crash, the refresh lock is held
\* exactly while one manager is at work (start_refresh).
THEOREM LockIsManaged == Spec => []LockFollowsManager
<1>1. IInv => LockFollowsManager
  BY DEF IInv
<1> QED
  BY <1>1, IInvAlways, PTL

\* Of all inner threads alive at a time, at most one is not cancelled: every
\* other one was told to stop before its session let the lock go.
THEOREM NoTwoUncancelled == Spec => []OneUncancelledSession
<1>1. IInv => OneUncancelledSession
  BY DEF IInv, LockFollowsManager, Supervised, OneUncancelledSession, MgrLive
<1> QED
  BY <1>1, IInvAlways, PTL

-------------------------------------------------------------------------------
(* The moves of a run: as long as a session is not timed out, its row is   *)
(* its state between two moves and no move is ever refused.                *)
(*                                                                         *)
(* Both follow from one invariant, OnTrack: the control point of the inner *)
(* thread determines the state of a session that is not cancelled.  It is  *)
(* inductive together with IInv, because only a manager that has cancelled *)
(* writes the state of its session from outside.                           *)


(* The states a session can be in at a control point, no move under way.   *)
Standing(point) ==
    CASE point \in {"create", "toEval"}              -> {"IDLE"}
      [] point \in {"evaluate", "toQuit", "toAuth"}  -> {"EVALUATING_STALENESS"}
      [] point \in {"authCheck", "toFetch"}          -> {"AUTH_REQUIRED"}
      [] point \in {"fetch", "toRunning"}            -> {"FETCHING_CREDENTIALS"}
      [] point = "toRest"                            -> Completing
      [] OTHER                                       -> {"RUNNING"}

Expected(point, ph) ==
    IF point \in Moving /\ ph = "save" THEN {Target[point]} ELSE Standing(point)

OnTrack ==
    \A s \in Session :
        inner[s] \in InnerLive /\ ~cancelled[s] =>
            /\ inner[s] # "create" => runId[s]
            /\ state[s] \in Expected(inner[s], phase[s])
            /\ inner[s] \notin {"create", "toEval"} /\ phase[s] # "save"
                   => row[s] = state[s]

(* What OnTrack needs to know besides IInv.                                *)
PhaseAtRest == \A s \in Session : inner[s] \notin Moving => phase[s] = "check"

Fresh ==
    \A s \in Session :
        mgr[s] = "none" => inner[s] = "none" /\ state[s] = "IDLE"

DownIsQuiet ==
    ~up => \A s \in Session : mgr[s] \notin MgrLive /\ inner[s] \notin InnerLive

Surroundings == PhaseAtRest /\ Fresh /\ DownIsQuiet

(* The tables fit together: every move of an ordinary session is legal,    *)
(* and leads to a state that fits the control point after it.              *)
LEMMA TablesFit ==
    ASSUME NEW m \in Moving
    PROVE  /\ \A st \in Standing(m) : MayMove(st, Target[m])
           /\ After[m] \in InnerLive => /\ Target[m] \in Standing(After[m])
                                        /\ After[m] \notin {"create", "toEval"}
<1>1. \/ m = "toEval" \/ m = "toQuit" \/ m = "toAuth" \/ m = "toFetch"
      \/ m = "toRunning" \/ m = "toSuccess" \/ m = "toPartial"
      \/ m = "toFailed" \/ m = "toRest"
  BY TableTypes
<1> QED
  BY <1>1 DEF Standing, MayMove, ValidTransitions, Target, After, InnerLive,
              Moving, Completing

LEMMA LiveHasStarted ==
    IInv /\ Surroundings => \A s \in Session : inner[s] \in InnerLive =>
                                up /\ mgr[s] # "none"
  BY DEF Surroundings, Fresh, DownIsQuiet, InnerLive, Moving, Target

LEMMA SurroundingsInit == Init => Surroundings /\ OnTrack /\ OnlyTimeoutBreaksMoves
  BY DEF Init, Surroundings, PhaseAtRest, Fresh, DownIsQuiet, OnTrack,
         OnlyTimeoutBreaksMoves, InnerLive, Moving, Target

MInv == IInv /\ Surroundings /\ OnTrack /\ OnlyTimeoutBreaksMoves

(* Steps of the inner thread of s leave the other sessions' rows, states   *)
(* and tokens alone.                                                       *)
LEMMA InnerIsLocal ==
    ASSUME TypeOK, NEW s \in Session, InnerStep(s)
    PROVE  /\ cancelled' = cancelled
           /\ \A t \in Session \ {s} :
                 /\ inner'[t] = inner[t] /\ phase'[t] = phase[t]
                 /\ runId'[t] = runId[t] /\ state'[t] = state[t]
                 /\ row'[t] = row[t]
<1> USE DEF TypeOK, process, object, plan, locals, runRow
<1>1. CASE InsertRun(s)
  BY <1>1 DEF InsertRun, InnerGoes
<1>2. CASE CheckMove(s)
  BY <1>2 DEF CheckMove
<1>3. CASE RefuseMove(s)
  BY <1>3 DEF RefuseMove, InnerEnds
<1>4. CASE AssignMove(s)
  BY <1>4 DEF AssignMove
<1>5. CASE SaveMove(s)
  BY <1>5 DEF SaveMove, SaveRow, WriteRow
<1>6. CASE CancelRaises(s)
  BY <1>6 DEF CancelRaises, InnerEnds
<1>7. CASE AuthCheck(s)
  BY <1>7 DEF AuthCheck, InnerGoes
<1>8. CASE FetchCredentials(s)
  BY <1>8 DEF FetchCredentials, InnerGoes
<1>9. CASE LoopEnds(s)
  BY <1>9 DEF LoopEnds, InnerGoes
<1>10. CASE BeginInstitution(s)
  BY <1>10 DEF BeginInstitution, InnerGoes
<1>11. CASE LaunchCheck(s)
  BY <1>11 DEF LaunchCheck, InnerGoes
<1>12. CASE Launch(s)
  BY <1>12 DEF Launch, InnerGoes
<1>13. CASE AwaitReturned(s)
  BY <1>13 DEF AwaitReturned, InnerGoes
<1>14. CASE AwaitTimeout(s)
  BY <1>14 DEF AwaitTimeout, InnerGoes
<1>15. CASE RecordOk(s)
  BY <1>15 DEF RecordOk, LeaveInstitution
<1>16. CASE RecordOkFails(s)
  BY <1>16 DEF RecordOkFails, InnerGoes
<1>17. CASE RecordFailure(s)
  BY <1>17 DEF RecordFailure, LeaveInstitution
<1>18. CASE InnerRaises(s)
  BY <1>18 DEF InnerRaises, InnerEnds
<1>19. CASE \E stale \in SUBSET Institution : Evaluate(s, stale)
  BY <1>19 DEF Evaluate, InnerGoes
<1>20. CASE \E i \in Institution : NextInstitution(s, i)
  BY <1>20 DEF NextInstitution, InnerGoes
<1>21. CASE \E fatal \in BOOLEAN : AwaitRaised(s, fatal)
  BY <1>21 DEF AwaitRaised, InnerGoes
<1> QED
  BY <1>1, <1>2, <1>3, <1>4, <1>5, <1>6, <1>7, <1>8, <1>9, <1>10, <1>11,
     <1>12, <1>13, <1>14, <1>15, <1>16, <1>17, <1>18, <1>19, <1>20, <1>21 DEF InnerStep

(* The same session: OnTrack and the phase after a step of its thread.     *)
LEMMA InnerStaysOnTrack ==
    ASSUME MInv, NEW s \in Session, InnerStep(s)
    PROVE  /\ inner'[s] \notin Moving => phase'[s] = "check"
           /\ inner'[s] = "rejected" => cancelled'[s]
           /\ inner'[s] \in InnerLive /\ ~cancelled'[s] =>
                 /\ inner'[s] # "create" => runId'[s]
                 /\ state'[s] \in Expected(inner'[s], phase'[s])
                 /\ inner'[s] \notin {"create", "toEval"} /\ phase'[s] # "save"
                        => row'[s] = state'[s]
<1> DEFINE Goal == /\ inner'[s] \notin Moving => phase'[s] = "check"
                   /\ inner'[s] = "rejected" => cancelled'[s]
                   /\ inner'[s] \in InnerLive /\ ~cancelled'[s] =>
                         /\ inner'[s] # "create" => runId'[s]
                         /\ state'[s] \in Expected(inner'[s], phase'[s])
                         /\ inner'[s] \notin {"create", "toEval"}
                            /\ phase'[s] # "save" => row'[s] = state'[s]
<1> USE TableTypes
    DEF MInv, IInv, TypeOK, Surroundings, PhaseAtRest, OnTrack, Expected,
        Standing, OnlyTimeoutBreaksMoves, InnerLive,
        process, object, plan, locals, runRow
<1>1. CASE InsertRun(s)
  BY <1>1 DEF InsertRun, InnerGoes
<1>2. CASE CheckMove(s)
  BY <1>2 DEF CheckMove
<1>3. CASE RefuseMove(s)
  <2>1. /\ inner[s] \in Moving /\ phase[s] = "check"
        /\ ~MayMove(state[s], Target[inner[s]])
    BY <1>3 DEF RefuseMove
  <2>2. ~cancelled[s] => state[s] \in Standing(inner[s])
    <3> HIDE DEF Standing
    <3> QED
      BY <2>1
  <2>3. cancelled[s]
    <3> HIDE DEF Standing
    <3> QED
      BY <2>1, <2>2, TablesFit
  <2> QED
    BY <1>3, <2>3 DEF RefuseMove, InnerEnds
<1>4. CASE AssignMove(s)
  BY <1>4 DEF AssignMove
<1>5. CASE SaveMove(s)
  <2>1. /\ inner[s] \in Moving /\ phase[s] = "save"
        /\ inner'[s] = After[inner[s]] /\ phase'[s] = "check"
        /\ state' = state /\ runId' = runId /\ cancelled' = cancelled
        /\ runId[s] => row'[s] = Target[inner[s]]
    BY <1>5 DEF SaveMove, SaveRow, WriteRow
  <2>2. After[inner[s]] \in InnerLive =>
           /\ Target[inner[s]] \in Standing(After[inner[s]])
           /\ After[inner[s]] \notin {"create", "toEval"}
    BY <2>1, TablesFit
  <2> QED
    BY <2>1, <2>2 DEF After
<1>6. CASE CancelRaises(s)
  BY <1>6 DEF CancelRaises, InnerEnds
<1>7. CASE AuthCheck(s)
  BY <1>7 DEF AuthCheck, InnerGoes
<1>8. CASE FetchCredentials(s)
  BY <1>8 DEF FetchCredentials, InnerGoes
<1>9. CASE LoopEnds(s)
  BY <1>9 DEF LoopEnds, InnerGoes, ClosingMove
<1>10. CASE BeginInstitution(s)
  BY <1>10 DEF BeginInstitution, InnerGoes
<1>11. CASE LaunchCheck(s)
  BY <1>11 DEF LaunchCheck, InnerGoes
<1>12. CASE Launch(s)
  BY <1>12 DEF Launch, InnerGoes
<1>13. CASE AwaitReturned(s)
  BY <1>13 DEF AwaitReturned, InnerGoes
<1>14. CASE AwaitTimeout(s)
  <2>1. /\ inner[s] = "await" /\ inner'[s] \in {"recordGiveUp", "recordRetry"}
        /\ UNCHANGED <<phase, runId, state, row, cancelled>>
    BY <1>14 DEF AwaitTimeout, InnerGoes, FailurePath
  <2> QED
    BY <2>1
<1>15. CASE RecordOk(s)
  BY <1>15 DEF RecordOk, LeaveInstitution
<1>16. CASE RecordOkFails(s)
  BY <1>16 DEF RecordOkFails, InnerGoes, FailurePath
<1>17. CASE RecordFailure(s)
  BY <1>17 DEF RecordFailure, LeaveInstitution
<1>18. CASE InnerRaises(s)
  BY <1>18 DEF InnerRaises, InnerEnds
<1>19. ASSUME NEW stale \in SUBSET Institution, Evaluate(s, stale)
       PROVE  Goal
  BY <1>19 DEF Evaluate, InnerGoes
<1>20. ASSUME NEW i \in Institution, NextInstitution(s, i)
       PROVE  Goal
  BY <1>20 DEF NextInstitution, InnerGoes
<1>21. ASSUME NEW fatal \in BOOLEAN, AwaitRaised(s, fatal)
       PROVE  Goal
  BY <1>21 DEF AwaitRaised, InnerGoes, FailurePath
<1> QED
  BY <1>1, <1>2, <1>3, <1>4, <1>5, <1>6, <1>7, <1>8, <1>9, <1>10, <1>11,
     <1>12, <1>13, <1>14, <1>15, <1>16, <1>17, <1>18, <1>19, <1>20, <1>21 DEF InnerStep

Moves == Surroundings /\ OnTrack /\ OnlyTimeoutBreaksMoves

LEMMA MgrKeepsMoves ==
    ASSUME MInv, NEW s \in Session, StartRefresh(s) \/ MgrStep(s)
    PROVE  Moves'
<1> USE TableTypes
    DEF MInv, IInv, TypeOK, Moves, Surroundings, PhaseAtRest, Fresh,
        DownIsQuiet, OnTrack, OnlyTimeoutBreaksMoves, Supervised,
        ForcedIsCancelled, process, object, plan, locals, runRow, MgrLive
<1>0. "create" \in InnerLive /\ "create" \notin Moving
  BY DEF InnerLive
<1>1. CASE StartRefresh(s)
  <2>1. up /\ up' = up /\ UNCHANGED <<phase, object, runRow>>
    BY <1>1 DEF StartRefresh
  <2>2. /\ inner' = [inner EXCEPT ![s] = "create"]
        /\ mgr' = [mgr EXCEPT ![s] = "join"]
        /\ inner[s] = "none" /\ state[s] = "IDLE" /\ phase[s] = "check"
    BY <1>1 DEF StartRefresh
  <2>3. Expected("create", "check") = {"IDLE"}
    BY <1>0 DEF Expected, Standing
  <2> QED
    BY <2>1, <2>2, <2>3, <1>0
<1>2. CASE JoinReturns(s)
  BY <1>2 DEF JoinReturns, MgrGoes
<1>3. CASE SessionTimeout(s)
  BY <1>3 DEF SessionTimeout, MgrGoes, SignalCancel
<1>4. CASE ForceFailRow(s)
  BY <1>4 DEF ForceFailRow, MgrGoes, WriteRow
<1>5. CASE ForceFailState(s)
  BY <1>5 DEF ForceFailState, MgrGoes
<1>6. CASE ForceFailCheck(s)
  BY <1>6 DEF ForceFailCheck, MgrGoes
<1>7. CASE ForceFailAssign(s)
  BY <1>7 DEF ForceFailAssign, MgrGoes
<1>8. CASE ForceFailSave(s)
  BY <1>8 DEF ForceFailSave, MgrGoes, WriteRow
<1>9. CASE ForceFailRaises(s)
  BY <1>9 DEF ForceFailRaises, Release
<1>10. CASE GraceOver(s)
  BY <1>10 DEF GraceOver, MgrGoes
<1>11. CASE Finish(s)
  BY <1>11 DEF Finish, Release, MgrGoes
<1> QED
  BY <1>1, <1>2, <1>3, <1>4, <1>5, <1>6, <1>7, <1>8, <1>9, <1>10, <1>11
     DEF MgrStep

LEMMA MInvNext == MInv /\ [Next]_vars => MInv'
<1> SUFFICES ASSUME MInv, [Next]_vars
             PROVE  Moves'
  BY IInvNext DEF MInv, Moves
<1> USE DEF Moves, Surroundings, PhaseAtRest, Fresh, DownIsQuiet, OnTrack,
            OnlyTimeoutBreaksMoves
<1>1. ASSUME NEW s \in Session, StartRefresh(s) \/ MgrStep(s)
      PROVE  Moves'
  BY <1>1, MgrKeepsMoves
<1>2. ASSUME NEW s \in Session, InnerStep(s)
      PROVE  Moves'
  <2> USE DEF MInv
  <2>1. /\ UNCHANGED <<up, mgr>> /\ inner[s] \in InnerLive
        /\ up /\ mgr[s] # "none"
    BY <1>2, InnerFrame, LiveHasStarted DEF IInv
  <2>2. PhaseAtRest' /\ OnTrack' /\ OnlyTimeoutBreaksMoves'
    BY <1>2, InnerIsLocal, InnerStaysOnTrack DEF IInv
  <2>3. Fresh'
    BY <1>2, <2>1, InnerIsLocal DEF IInv
  <2>4. DownIsQuiet'
    BY <2>1
  <2> QED
    BY <2>2, <2>3, <2>4
<1>3. ASSUME NEW s \in Session, NEW i \in Institution, WorkerStep(s, i)
      PROVE  Moves'
  <2>1. UNCHANGED <<process, mgr, inner, phase, object, runRow>>
    BY <1>3 DEF WorkerStep, WorkerSaves, WorkerReturns, WorkerRaises,
                WorkerBecomes
  <2> QED
    BY <2>1 DEF MInv, process, object, runRow
<1>4. CASE Crash
  <2>1. /\ \A s \in Session : mgr'[s] \notin MgrLive /\ inner'[s] \notin InnerLive
        /\ \A s \in Session : inner'[s] # "rejected" /\ phase'[s] = "check"
    BY <1>4, TableTypes DEF Crash, MgrLive, InnerLive
  <2>2. Fresh'
    BY <1>4 DEF Crash, MInv
  <2> QED
    BY <2>1, <2>2
<1>5. CASE Restart
  <2>1. \A s \in Session : inner'[s] = inner[s] /\ inner[s] \notin InnerLive
    BY <1>5 DEF Restart, MInv
  <2> QED
    BY <1>5, <2>1 DEF Restart, MInv, object
<1>6. CASE UNCHANGED vars
  BY <1>6 DEF MInv, vars, process, object, runRow
<1> QED
  BY <1>1, <1>2, <1>3, <1>4, <1>5, <1>6 DEF Next, Quiet

LEMMA MInvAlways == Spec => []MInv
<1>1. Init => MInv
  BY IInvInit, SurroundingsInit DEF MInv
<1> QED
  BY <1>1, MInvNext, PTL DEF Spec

\* As long as a session is not timed out, the row GET /api/refresh/status
\* reads is the session's state between any two of its moves (_transition).
THEOREM RowIsTrue == Spec => []RowTracksSession
<1>1. MInv => RowTracksSession
  BY DEF MInv, OnTrack, RowTracksSession
<1> QED
  BY <1>1, MInvAlways, PTL

\* validate_transition never refuses a move of a session that is not timed
\* out: "Invalid transition" needs the race with _force_fail.
THEOREM MovesAreLegal == Spec => []OnlyTimeoutBreaksMoves
<1>1. MInv => OnlyTimeoutBreaksMoves
  BY DEF MInv
<1> QED
  BY <1>1, MInvAlways, PTL

-------------------------------------------------------------------------------
(* Taking up an institution.                                               *)

TakesUp(s) == \/ inner[s] = "loop" /\ inner'[s] = "begin"
              \/ inner[s] = "launchCheck" /\ inner'[s] = "launch"

(* Only the two steps that look at the token lead on to an institution or  *)
(* to its connector.                                                       *)
LEMMA TakesUpUncancelled ==
    ASSUME TypeOK, NEW s \in Session, InnerStep(s), TakesUp(s)
    PROVE  ~cancelled[s]
<1>1. inner[s] \notin Moving
  BY TableTypes DEF TakesUp
<1>2. \/ LoopEnds(s) \/ CancelRaises(s) \/ LaunchCheck(s)
      \/ \E i \in Institution : NextInstitution(s, i)
  BY <1>1 DEF TakesUp, InnerStep, InsertRun, CheckMove, RefuseMove, AssignMove,
     SaveMove, Evaluate, AuthCheck, FetchCredentials, BeginInstitution, Launch,
     AwaitReturned, AwaitTimeout, AwaitRaised, RecordOk, RecordOkFails,
     RecordFailure, LeaveInstitution, InnerRaises, InnerGoes
<1>3. inner \in [Session -> InnerPoint]
  BY DEF TypeOK
<1>4. ~LoopEnds(s)
  BY <1>3 DEF TakesUp, LoopEnds, InnerGoes, ClosingMove
<1>5. ~CancelRaises(s)
  BY <1>3 DEF TakesUp, CancelRaises, InnerEnds
<1>6. CASE LaunchCheck(s)
  BY <1>6 DEF LaunchCheck, MayContinue
<1>7. CASE \E i \in Institution : NextInstitution(s, i)
  BY <1>7 DEF NextInstitution, MayContinue
<1> QED
  BY <1>2, <1>4, <1>5, <1>6, <1>7

(* It is a step of the thread itself: no other thread moves it.            *)
LEMMA TakesUpItself ==
    ASSUME IInv, [Next]_vars, NEW s \in Session, TakesUp(s)
    PROVE  InnerStep(s)
<1> USE DEF IInv, process, object, locals, TakesUp
<1>1. ASSUME NEW t \in Session, StartRefresh(t) \/ MgrStep(t) PROVE FALSE
  <2>1. CASE StartRefresh(t)
    BY <2>1 DEF StartRefresh, TypeOK
  <2>2. CASE MgrStep(t)
    BY <2>2 DEF MgrStep, JoinReturns, SessionTimeout, ForceFailRow, ForceFailState,
       ForceFailCheck, ForceFailAssign, ForceFailSave, ForceFailRaises, GraceOver,
       Finish, Release, MgrGoes
  <2> QED
    BY <1>1, <2>1, <2>2
<1>2. ASSUME NEW t \in Session, InnerStep(t) PROVE t = s
  BY <1>2, InnerFrame
<1>3. ASSUME NEW t \in Session, NEW i \in Institution, WorkerStep(t, i)
      PROVE  FALSE
  BY <1>3 DEF WorkerStep, WorkerSaves, WorkerReturns, WorkerRaises, WorkerBecomes
<1>4. ~Crash
  BY DEF Crash
<1>5. ~Restart /\ ~UNCHANGED vars
  BY DEF Restart, vars
<1> QED
  BY <1>1, <1>2, <1>3, <1>4, <1>5 DEF Next, Quiet

\* Whatever the managers, the workers and the threads of earlier sessions do, a
\* session takes up an institution and goes on to its connector only while its
\* manager waits for it under the lock (the order of cancel and release in
\* RefreshSession.run, raise_if_cancelled in _run_inner).
THEOREM LoopsKeepTheLock == Spec => TakenUpUnderLock
<1>1. ASSUME IInv, [Next]_vars, NEW s \in Session, TakesUp(s)
      PROVE  lock /\ mgr[s] = "join"
  <2>1. InnerStep(s)
    BY <1>1, TakesUpItself
  <2>2. ~cancelled[s]
    BY <1>1, <2>1, TakesUpUncancelled DEF IInv
  <2>3. inner[s] \in InnerLive
    BY <1>1 DEF TakesUp, InnerLive
  <2>4. mgr[s] = "join"
    BY <1>1, <2>2, <2>3 DEF IInv, Supervised
  <2> QED
    BY <1>1, <2>4 DEF IInv, LockFollowsManager, MgrLive
<1>2. IInv /\ [Next]_vars =>
         [\A s \in Session :
            \/ inner[s] = "loop" /\ inner'[s] = "begin"
            \/ inner[s] = "launchCheck" /\ inner'[s] = "launch"
            => lock /\ mgr[s] = "join"]_vars
  BY <1>1 DEF TakesUp
<1> QED
  BY <1>2, IInvAlways, PTL DEF Spec, TakenUpUnderLock
===============================================================================
