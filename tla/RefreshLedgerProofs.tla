-------------------------- MODULE RefreshLedgerProofs --------------------------
(***************************************************************************)
(* What a reader of the database may rely on: RefreshSession implements    *)
(* RefreshLedger, every failure is counted, the report is true and a crash *)
(* leaves no run open; for every set of sessions and institutions.         *)
(*                                                                         *)
(* The invariant is about one session: the control point of its inner      *)
(* thread, the institutions it counts as won and lost, and its event rows  *)
(* tell the same story, and a worker that is left behind can only add the  *)
(* data of an attempt on record.                                           *)
(***************************************************************************)
EXTENDS RefreshSessionProofs, FiniteSetTheorems

Bad == {"RETRY_BACKOFF", "FAILED"}

(* Where the inner thread is: before its loop, in it, with an attempt      *)
(* open, before the attempt has a worker.                                  *)
Early == {"none", "create", "toEval", "evaluate", "toQuit", "toAuth",
          "authCheck", "toFetch", "fetch", "toRunning"}
Unlaunched == {"launchCheck", "launch"}
Inside == Unlaunched \cup {"await", "recordOk", "recordRetry", "recordGiveUp"}
Looping == {"loop", "begin"} \cup Inside

EarlyFits(s) ==
    inner[s] \in Early =>
        /\ \A i \in Institution : event[s][i] = "none"
        /\ won[s] = {} /\ lost[s] = {}

LoopFits(s) ==
    inner[s] \in Looping =>
        /\ won[s] \cup lost[s] \subseteq asked[s]
        /\ \A i \in Institution :
              /\ event[s][i] = "COMPLETED" <=> i \in won[s]
              /\ event[s][i] \in Bad <=> i \in lost[s]
              /\ event[s][i] = "STARTED" <=> inner[s] \in Inside /\ cur[s] = i

CurFits(s) ==
    inner[s] \in {"begin"} \cup Inside =>
        cur[s] \in asked[s] \ (won[s] \cup lost[s])

WorkersFit(s) ==
    \A i \in Institution :
        /\ worker[s][i] # "none" \/ s \in saved[i] =>
              /\ event[s][i] # "none"
              /\ ~(inner[s] \in Unlaunched /\ cur[s] = i)
        /\ worker[s][i] = "running" => s \notin saved[i]
        /\ worker[s][i] \in {"saved", "returned"} => s \in saved[i]
        /\ inner[s] = "recordOk" /\ cur[s] = i => s \in saved[i]
        /\ event[s][i] = "COMPLETED" => s \in saved[i]

(* The institutions that have completed.                                   *)
Good(s) == { i \in asked[s] : event[s][i] = "COMPLETED" }

Last == {"toRest", "dead"} \cup InnerOver

VerdictFits(s) ==
    /\ inner[s] = "toQuit" => asked[s] = {}
    /\ inner[s] \in {"toAuth", "authCheck", "toFetch", "fetch", "toRunning"}
                    \cup Looping => asked[s] # {}
    /\ inner[s] = "toSuccess" => Good(s) = asked[s] /\ asked[s] # {}
    /\ inner[s] = "toPartial" => Good(s) # {} /\ Good(s) # asked[s]
    /\ summary[s] = "nothing_stale" => inner[s] \in Last /\ asked[s] = {}
    /\ summary[s] = "success" =>
          inner[s] \in Last /\ Good(s) = asked[s] /\ asked[s] # {}
    /\ summary[s] = "partial_success" =>
          inner[s] \in Last /\ Good(s) # {} /\ Good(s) # asked[s]

Story(s) == EarlyFits(s) /\ LoopFits(s) /\ CurFits(s) /\ WorkersFit(s)
            /\ VerdictFits(s)

(* What the story of a session is made of.                                 *)
Told(s) == <<inner[s], cur[s], won[s], lost[s], asked[s], summary[s], event[s],
             worker[s]>>

LInv == MInv /\ \A s \in Session : Story(s)

LEMMA StoryInit == Init => \A s \in Session : Story(s)
<1> SUFFICES ASSUME Init, NEW s \in Session PROVE Story(s)
  OBVIOUS
<1>1. /\ inner[s] = "none" /\ won[s] = {} /\ lost[s] = {} /\ summary[s] = "failed"
      /\ \A i \in Institution : /\ event[s][i] = "none" /\ worker[s][i] = "none"
                                /\ saved[i] = {}
  BY DEF Init
<1>2. EarlyFits(s) /\ LoopFits(s) /\ CurFits(s) /\ WorkersFit(s)
  BY <1>1 DEF EarlyFits, LoopFits, CurFits, WorkersFit, Early, Looping, Inside,
     Unlaunched
<1>3. VerdictFits(s)
  BY <1>1 DEF VerdictFits, Looping, Inside, Unlaunched
<1> QED
  BY <1>2, <1>3 DEF Story

(* A story that nobody touches stays, and so does one whose session only   *)
(* had more data committed for an attempt on record.                       *)
LEMMA StoryStays ==
    ASSUME NEW s \in Session, Story(s), UNCHANGED Told(s),
           \A i \in Institution : s \in saved'[i] <=> s \in saved[i]
    PROVE  Story(s)'
<1>1. /\ inner'[s] = inner[s] /\ cur'[s] = cur[s] /\ won'[s] = won[s]
      /\ lost'[s] = lost[s] /\ asked'[s] = asked[s] /\ summary'[s] = summary[s]
      /\ event'[s] = event[s] /\ worker'[s] = worker[s]
  BY DEF Told
<1>2. Good(s)' = Good(s)
  BY <1>1 DEF Good
<1>3. EarlyFits(s)' /\ LoopFits(s)' /\ CurFits(s)'
  BY <1>1 DEF Story, EarlyFits, LoopFits, CurFits
<1>4. WorkersFit(s)'
  BY <1>1 DEF Story, WorkersFit
<1>5. VerdictFits(s)'
  BY <1>1, <1>2 DEF Story, VerdictFits
<1> QED
  BY <1>3, <1>4, <1>5 DEF Story

(* A step of the inner thread of s is none of another session's.           *)
LEMMA InnerIsOwn ==
    ASSUME TypeOK, NEW s \in Session, InnerStep(s)
    PROVE  saved' = saved /\ \A t \in Session \ {s} : UNCHANGED Told(t)
<1> DEFINE Goal == saved' = saved /\ \A t \in Session \ {s} : UNCHANGED Told(t)
<1> USE DEF TypeOK, Told, process, object, plan, locals, runRow, ledger
<1>1. CASE InsertRun(s)
  BY <1>1 DEF InsertRun, InnerGoes
<1>2. CASE CheckMove(s)
  BY <1>2 DEF CheckMove
<1>3. CASE RefuseMove(s)
  BY <1>3 DEF RefuseMove, InnerEnds
<1>4. CASE AssignMove(s)
  BY <1>4 DEF AssignMove
<1>5. CASE SaveMove(s)
  BY <1>5 DEF SaveMove, WriteSummary
<1>6. CASE CancelRaises(s)
  BY <1>6 DEF CancelRaises, InnerEnds
<1>7. CASE AuthCheck(s)
  BY <1>7 DEF AuthCheck, InnerGoes
<1>8. CASE FetchCredentials(s)
  BY <1>8 DEF FetchCredentials, InnerGoes
<1>9. CASE LoopEnds(s)
  BY <1>9 DEF LoopEnds, InnerGoes
<1>10. CASE BeginInstitution(s)
  BY <1>10 DEF BeginInstitution, InnerGoes
<1>11. CASE LaunchCheck(s)
  BY <1>11 DEF LaunchCheck, InnerGoes
<1>12. CASE Launch(s)
  BY <1>12 DEF Launch, InnerGoes
<1>13. CASE AwaitReturned(s)
  BY <1>13 DEF AwaitReturned, InnerGoes, TakeResult
<1>14. CASE AwaitTimeout(s)
  BY <1>14 DEF AwaitTimeout, InnerGoes
<1>15. CASE RecordOk(s)
  BY <1>15 DEF RecordOk, LeaveInstitution
<1>16. CASE RecordOkFails(s)
  BY <1>16 DEF RecordOkFails, InnerGoes
<1>17. CASE RecordFailure(s)
  BY <1>17 DEF RecordFailure, LeaveInstitution
<1>18. CASE InnerRaises(s)
  BY <1>18 DEF InnerRaises, InnerEnds
<1>19. ASSUME NEW stale \in SUBSET Institution, Evaluate(s, stale) PROVE Goal
  BY <1>19 DEF Evaluate, InnerGoes
<1>20. ASSUME NEW i \in Institution, NextInstitution(s, i) PROVE Goal
  BY <1>20 DEF NextInstitution, InnerGoes
<1>21. ASSUME NEW fatal \in BOOLEAN, AwaitRaised(s, fatal) PROVE Goal
  BY <1>21 DEF AwaitRaised, InnerGoes, TakeResult
<1> QED
  BY <1>1, <1>2, <1>3, <1>4, <1>5, <1>6, <1>7, <1>8, <1>9, <1>10, <1>11,
     <1>12, <1>13, <1>14, <1>15, <1>16, <1>17, <1>18, <1>19, <1>20, <1>21
     DEF InnerStep

(* The thread goes on within the story: nothing but its control point.     *)
LEMMA GoesOn ==
    ASSUME LInv, NEW s \in Session,
           \/ InsertRun(s) \/ CheckMove(s) \/ AssignMove(s) \/ AuthCheck(s)
           \/ FetchCredentials(s) \/ LaunchCheck(s) \/ AwaitTimeout(s)
           \/ RecordOkFails(s)
    PROVE  Story(s)'
<1> DEFINE A == {"create", "toEval", "authCheck", "toFetch", "fetch", "toRunning"}
           B == {"launchCheck", "launch", "await", "recordOk", "recordRetry",
                 "recordGiveUp"}
<1>1. /\ UNCHANGED <<cur, won, lost, asked, summary, event, worker, saved>>
      /\ \/ inner'[s] = inner[s]
         \/ inner[s] \in A \ {"toEval"} /\ inner'[s] \in A \ {"create", "authCheck"}
            /\ (inner'[s] = "toEval" <=> inner[s] = "create")
         \/ inner[s] = "launchCheck" /\ inner'[s] = "launch"
         \/ /\ inner[s] \in {"await", "recordOk"}
            /\ inner'[s] \in {"recordRetry", "recordGiveUp"}
  BY DEF LInv, MInv, IInv, TypeOK, InsertRun, CheckMove, AssignMove, AuthCheck,
     FetchCredentials, LaunchCheck, AwaitTimeout, RecordOkFails, InnerGoes,
     FailurePath, locals, plan, ledger
<1>2. Story(s)
  BY DEF LInv
<1>3. Good(s)' = Good(s)
  BY <1>1 DEF Good
<1>4. EarlyFits(s)' /\ LoopFits(s)' /\ CurFits(s)'
  BY <1>1, <1>2 DEF Story, EarlyFits, LoopFits, CurFits, Early, Looping, Inside,
     Unlaunched
<1>5. WorkersFit(s)'
  BY <1>1, <1>2 DEF Story, WorkersFit, Unlaunched
<1>6. VerdictFits(s)'
  BY <1>1, <1>2, <1>3 DEF Story, VerdictFits, Looping, Inside, Unlaunched, Last,
     InnerOver
<1> QED
  BY <1>4, <1>5, <1>6 DEF Story

(* It ends.                                                                *)
LEMMA Ends ==
    ASSUME LInv, NEW s \in Session,
           RefuseMove(s) \/ CancelRaises(s) \/ InnerRaises(s)
    PROVE  Story(s)'
<1>1. /\ UNCHANGED <<asked, summary, event, worker, saved>>
      /\ inner'[s] \in InnerOver
  BY DEF LInv, MInv, IInv, TypeOK, RefuseMove, CancelRaises, InnerRaises,
     InnerEnds, InnerOver, plan, ledger
<1>2. Story(s)
  BY DEF LInv
<1>3. Good(s)' = Good(s)
  BY <1>1 DEF Good
<1>4. EarlyFits(s)' /\ LoopFits(s)' /\ CurFits(s)'
  BY <1>1 DEF EarlyFits, LoopFits, CurFits, Early, Looping, Inside, Unlaunched,
     InnerOver
<1>5. WorkersFit(s)'
  BY <1>1, <1>2 DEF Story, WorkersFit, Unlaunched, InnerOver
<1>6. VerdictFits(s)'
  BY <1>1, <1>2, <1>3 DEF Story, VerdictFits, Looping, Inside, Unlaunched, Last,
     InnerOver
<1> QED
  BY <1>4, <1>5, <1>6 DEF Story

(* A move is saved, and with it perhaps the verdict.                       *)
LEMMA Saves ==
    ASSUME LInv, NEW s \in Session, SaveMove(s)
    PROVE  Story(s)'
<1>1. /\ UNCHANGED <<cur, won, lost, asked, event, worker, saved>>
      /\ inner[s] \in Moving /\ inner'[s] = After[inner[s]]
      /\ \/ summary'[s] = summary[s]
         \/ inner[s] \in DOMAIN Verdict /\ summary'[s] = Verdict[inner[s]]
  BY DEF LInv, MInv, IInv, TypeOK, SaveMove, WriteSummary, locals, ledger
<1>2. Story(s)
  BY DEF LInv
<1>3. Good(s)' = Good(s)
  BY <1>1 DEF Good
<1>4. \/ inner[s] = "toEval" /\ inner'[s] = "evaluate"
      \/ inner[s] = "toQuit" /\ inner'[s] = "ended"
      \/ inner[s] = "toAuth" /\ inner'[s] = "authCheck"
      \/ inner[s] = "toFetch" /\ inner'[s] = "fetch"
      \/ inner[s] = "toRunning" /\ inner'[s] = "loop"
      \/ inner[s] \in {"toSuccess", "toPartial", "toFailed"} /\ inner'[s] = "toRest"
      \/ inner[s] = "toRest" /\ inner'[s] = "ended"
  BY <1>1, TableTypes DEF After
<1>5. \/ summary'[s] = summary[s]
      \/ inner[s] = "toQuit" /\ summary'[s] = "nothing_stale"
      \/ inner[s] = "toSuccess" /\ summary'[s] = "success"
      \/ inner[s] = "toPartial" /\ summary'[s] = "partial_success"
      \/ inner[s] = "toFailed" /\ summary'[s] = "failed"
  BY <1>1 DEF Verdict
<1>6. EarlyFits(s)' /\ LoopFits(s)' /\ CurFits(s)'
  BY <1>1, <1>2, <1>4 DEF Story, EarlyFits, LoopFits, CurFits, Early, Looping,
     Inside, Unlaunched, Bad
<1>7. WorkersFit(s)'
  BY <1>1, <1>2, <1>4 DEF Story, WorkersFit, Unlaunched
<1>8. VerdictFits(s)'
  BY <1>1, <1>2, <1>3, <1>4, <1>5 DEF Story, VerdictFits, Looping, Inside,
     Unlaunched, Last, InnerOver
<1> QED
  BY <1>6, <1>7, <1>8 DEF Story

(* The list of institutions, the next of them, and the end of the list.    *)
LEMMA Loops ==
    ASSUME LInv, NEW s \in Session,
           \/ \E stale \in SUBSET Institution : Evaluate(s, stale)
           \/ \E i \in Institution : NextInstitution(s, i)
           \/ LoopEnds(s)
    PROVE  Story(s)'
<1>0. Story(s) /\ TypeOK
  BY DEF LInv, MInv, IInv
<1>1. ASSUME NEW stale \in SUBSET Institution, Evaluate(s, stale)
      PROVE  Story(s)'
  <2>1. /\ UNCHANGED <<cur, won, lost, summary, event, worker, saved>>
        /\ inner[s] = "evaluate"
        /\ inner'[s] = IF stale = {} THEN "toQuit" ELSE "toAuth"
        /\ asked'[s] = stale
    BY <1>0, <1>1 DEF TypeOK, Evaluate, InnerGoes, locals, ledger
  <2>2. EarlyFits(s)' /\ LoopFits(s)' /\ CurFits(s)'
    BY <1>0, <2>1 DEF Story, EarlyFits, LoopFits, CurFits, Early, Looping,
       Inside, Unlaunched
  <2>3. WorkersFit(s)'
    BY <1>0, <2>1 DEF Story, WorkersFit, Unlaunched
  <2>4. VerdictFits(s)'
    BY <1>0, <2>1 DEF Story, VerdictFits, Looping, Inside, Unlaunched, Last,
       InnerOver
  <2> QED
    BY <2>2, <2>3, <2>4 DEF Story
<1>2. ASSUME NEW i \in Institution, NextInstitution(s, i)
      PROVE  Story(s)'
  <2>1. /\ UNCHANGED <<won, lost, asked, summary, event, worker, saved>>
        /\ inner[s] = "loop" /\ inner'[s] = "begin" /\ cur'[s] = i
        /\ i \in asked[s] \ (won[s] \cup lost[s])
    BY <1>0, <1>2 DEF TypeOK, NextInstitution, Pending, InnerGoes, plan, ledger
  <2>2. EarlyFits(s)' /\ LoopFits(s)' /\ CurFits(s)'
    BY <1>0, <2>1 DEF Story, EarlyFits, LoopFits, CurFits, Early, Looping,
       Inside, Unlaunched
  <2>3. WorkersFit(s)'
    BY <1>0, <2>1 DEF Story, WorkersFit, Unlaunched
  <2>4. VerdictFits(s)'
    BY <1>0, <2>1 DEF Story, VerdictFits, Looping, Inside, Unlaunched, Last,
       InnerOver
  <2> QED
    BY <2>2, <2>3, <2>4 DEF Story
<1>3. CASE LoopEnds(s)
  <2>1. /\ UNCHANGED <<asked, summary, event, worker, saved>>
        /\ inner[s] = "loop" /\ inner'[s] = ClosingMove(s)
        /\ asked[s] \subseteq won[s] \cup lost[s]
    BY <1>0, <1>3 DEF TypeOK, LoopEnds, Pending, InnerGoes, plan, ledger
  <2>2. /\ inner'[s] \in {"toSuccess", "toPartial", "toFailed"}
        /\ inner'[s] = "toSuccess" => lost[s] = {}
        /\ inner'[s] = "toPartial" => lost[s] # {} /\ won[s] # {}
    BY <2>1 DEF ClosingMove
  <2>3. Good(s) = won[s] /\ won[s] \cap lost[s] = {} /\ won[s] \cup lost[s] = asked[s]
    <3>1. asked[s] \subseteq Institution
      BY <1>0 DEF TypeOK
    <3>2. /\ won[s] \cup lost[s] \subseteq asked[s]
          /\ \A i \in Institution : /\ event[s][i] = "COMPLETED" <=> i \in won[s]
                                    /\ event[s][i] \in Bad <=> i \in lost[s]
      BY <1>0, <2>1 DEF Story, LoopFits, Looping
    <3> QED
      BY <2>1, <3>1, <3>2 DEF Good, Bad
  <2>4. Good(s)' = Good(s)
    BY <2>1 DEF Good
  <2>5. EarlyFits(s)' /\ LoopFits(s)' /\ CurFits(s)'
    BY <2>2 DEF EarlyFits, LoopFits, CurFits, Early, Looping, Inside, Unlaunched
  <2>6. WorkersFit(s)'
    BY <1>0, <2>1, <2>2 DEF Story, WorkersFit, Unlaunched
  <2>7. VerdictFits(s)'
    BY <1>0, <2>1, <2>2, <2>3, <2>4 DEF Story, VerdictFits, Looping, Inside,
       Unlaunched, Last, InnerOver
  <2> QED
    BY <2>5, <2>6, <2>7 DEF Story
<1> QED
  BY <1>1, <1>2, <1>3

(* An attempt is opened and given to a worker, its result is taken.        *)
LEMMA Attempts ==
    ASSUME LInv, NEW s \in Session,
           \/ BeginInstitution(s) \/ Launch(s) \/ AwaitReturned(s)
           \/ \E fatal \in BOOLEAN : AwaitRaised(s, fatal)
    PROVE  Story(s)'
<1>0. Story(s) /\ TypeOK /\ CurrentInst
  BY DEF LInv, MInv, IInv
<1> DEFINE c == cur[s]
<1>1. CASE BeginInstitution(s)
  <2>1. /\ UNCHANGED <<cur, won, lost, asked, summary, worker, saved>>
        /\ inner[s] = "begin" /\ inner'[s] = "launchCheck" /\ c \in Institution
        /\ event'[s] = [event[s] EXCEPT ![c] = "STARTED"]
    BY <1>0, <1>1 DEF TypeOK, CurrentInst, BeginInstitution, InnerGoes, plan
  <2>2. event[s] \in [Institution -> EventState] /\ event[s][c] = "none"
    <3>1. /\ event[s][c] # "COMPLETED" /\ event[s][c] \notin Bad
          /\ event[s][c] # "STARTED"
      BY <1>0, <2>1 DEF Story, LoopFits, CurFits, Looping, Inside, Unlaunched
    <3> QED
      BY <1>0, <2>1, <3>1 DEF TypeOK, EventState, Bad
  <2>3. EarlyFits(s)' /\ LoopFits(s)' /\ CurFits(s)'
    BY <1>0, <2>1, <2>2 DEF Story, EarlyFits, LoopFits, CurFits, Early, Looping,
       Inside, Unlaunched, Bad
  <2>4. WorkersFit(s)'
    BY <1>0, <2>1, <2>2 DEF Story, WorkersFit, Unlaunched
  <2>5. VerdictFits(s)'
    BY <1>0, <2>1 DEF Story, VerdictFits, Looping, Inside, Unlaunched, Last,
       InnerOver
  <2> QED
    BY <2>3, <2>4, <2>5 DEF Story
<1>2. CASE Launch(s)
  <2>1. /\ UNCHANGED <<cur, won, lost, asked, summary, event, saved>>
        /\ inner[s] = "launch" /\ inner'[s] = "await" /\ c \in Institution
        /\ worker'[s] = [worker[s] EXCEPT ![c] = "running"]
        /\ worker[s] \in [Institution -> WorkerState]
    BY <1>0, <1>2 DEF TypeOK, CurrentInst, Launch, InnerGoes, plan, locals, ledger
  <2>2. s \notin saved[c] /\ event[s][c] # "none"
    BY <1>0, <2>1 DEF Story, WorkersFit, LoopFits, Looping, Inside, Unlaunched
  <2>3. EarlyFits(s)' /\ LoopFits(s)' /\ CurFits(s)'
    BY <1>0, <2>1 DEF Story, EarlyFits, LoopFits, CurFits, Early, Looping,
       Inside, Unlaunched, Bad
  <2>4. WorkersFit(s)'
    BY <1>0, <2>1, <2>2 DEF Story, WorkersFit, Unlaunched
  <2>5. VerdictFits(s)'
    BY <1>0, <2>1 DEF Story, VerdictFits, Looping, Inside, Unlaunched, Last,
       InnerOver
  <2> QED
    BY <2>3, <2>4, <2>5 DEF Story
<1>3. CASE AwaitReturned(s) \/ \E fatal \in BOOLEAN : AwaitRaised(s, fatal)
  <2>1. /\ UNCHANGED <<cur, won, lost, asked, summary, event, saved>>
        /\ inner[s] = "await" /\ c \in Institution
        /\ inner'[s] \in {"recordOk", "recordRetry", "recordGiveUp"}
        /\ inner'[s] = "recordOk" => worker[s][c] = "returned"
        /\ worker'[s] = [worker[s] EXCEPT ![c] = "none"]
        /\ worker[s] \in [Institution -> WorkerState]
    BY <1>0, <1>3 DEF TypeOK, CurrentInst, AwaitReturned, AwaitRaised, TakeResult,
       FailurePath, InnerGoes, plan, locals, ledger
  <2>2. EarlyFits(s)' /\ LoopFits(s)' /\ CurFits(s)'
    BY <1>0, <2>1 DEF Story, EarlyFits, LoopFits, CurFits, Early, Looping,
       Inside, Unlaunched, Bad
  <2>3. WorkersFit(s)'
    BY <1>0, <2>1 DEF Story, WorkersFit, Unlaunched
  <2>4. VerdictFits(s)'
    BY <1>0, <2>1 DEF Story, VerdictFits, Looping, Inside, Unlaunched, Last,
       InnerOver
  <2> QED
    BY <2>2, <2>3, <2>4 DEF Story
<1> QED
  BY <1>1, <1>2, <1>3

(* The attempt in hand is open; once its result is accepted, its data is   *)
(* committed.                                                              *)
LEMMA OpenAttempt ==
    ASSUME LInv, NEW s \in Session, inner[s] \in Inside
    PROVE  /\ cur[s] \in Institution /\ event[s][cur[s]] = "STARTED"
           /\ cur[s] \in asked[s] /\ cur[s] \notin won[s] /\ cur[s] \notin lost[s]
           /\ inner[s] = "recordOk" => s \in saved[cur[s]]
<1>1. Story(s) /\ cur[s] \in Institution
  BY DEF LInv, MInv, IInv, CurrentInst, Inside, Unlaunched
<1> QED
  BY <1>1 DEF Story, LoopFits, CurFits, WorkersFit, Looping

(* It is recorded, and the thread is back in its loop.                     *)
LEMMA Records ==
    ASSUME LInv, NEW s \in Session, RecordOk(s) \/ RecordFailure(s)
    PROVE  Story(s)'
<1> DEFINE c == cur[s]
<1>0. Story(s) /\ TypeOK
  BY DEF LInv, MInv, IInv
<1>1. inner[s] \in {"recordOk", "recordRetry", "recordGiveUp"}
  BY DEF RecordOk, RecordFailure
<1>2. /\ c \in Institution /\ event[s][c] = "STARTED"
      /\ c \in asked[s] /\ c \notin won[s] /\ c \notin lost[s]
      /\ inner[s] = "recordOk" => s \in saved[c]
  BY <1>1, OpenAttempt DEF Inside
<1>3. /\ UNCHANGED <<asked, summary, worker, saved>>
      /\ inner'[s] = "loop" /\ event[s] \in [Institution -> EventState]
      /\ \/ /\ inner[s] = "recordOk"
            /\ event'[s] = [event[s] EXCEPT ![c] = "COMPLETED"]
            /\ won'[s] = won[s] \cup {c} /\ lost'[s] = lost[s]
         \/ /\ event'[s][c] \in Bad
            /\ \A i \in Institution : i # c => event'[s][i] = event[s][i]
            /\ lost'[s] = lost[s] \cup {c} /\ won'[s] = won[s]
  <2>0. event[s] \in [Institution -> EventState]
    BY <1>0 DEF TypeOK
  <2>1. CASE RecordOk(s)
    BY <1>0, <1>2, <2>0, <2>1 DEF TypeOK, RecordOk, LeaveInstitution, plan
  <2>2. CASE RecordFailure(s)
    <3>1. /\ UNCHANGED <<asked, summary, worker, saved, won>>
          /\ inner' = [inner EXCEPT ![s] = "loop"]
          /\ lost' = [lost EXCEPT ![s] = lost[s] \cup {c}]
          /\ \E e \in Bad : event' = [event EXCEPT ![s][c] = e]
      BY <2>2 DEF RecordFailure, LeaveInstitution, Bad, plan
    <3> QED
      BY <1>0, <1>2, <2>0, <3>1 DEF TypeOK
  <2> QED
    BY <2>1, <2>2
<1>4. LoopFits(s)
  BY <1>0 DEF Story
<1>5. LoopFits(s)'
  <2>1. won'[s] \cup lost'[s] \subseteq asked'[s]
    BY <1>1, <1>2, <1>3, <1>4 DEF LoopFits, Looping, Inside
  <2>2. ASSUME NEW i \in Institution
        PROVE  /\ event'[s][i] = "COMPLETED" <=> i \in won'[s]
               /\ event'[s][i] \in Bad <=> i \in lost'[s]
               /\ event'[s][i] # "STARTED"
    <3>1. CASE i = c
      BY <1>2, <1>3, <3>1 DEF Bad
    <3>2. CASE i # c
      BY <1>1, <1>3, <1>4, <3>2 DEF LoopFits, Looping, Inside
    <3> QED
      BY <3>1, <3>2
  <2> QED
    BY <1>3, <2>1, <2>2 DEF LoopFits, Inside, Unlaunched
<1>6. EarlyFits(s)' /\ CurFits(s)'
  BY <1>3 DEF EarlyFits, CurFits, Early, Inside, Unlaunched
<1>7. WorkersFit(s)'
  <2>1. \A i \in Institution : event'[s][i] = "COMPLETED" => s \in saved[i]
    BY <1>0, <1>2, <1>3 DEF Story, WorkersFit, Bad
  <2>2. \A i \in Institution : event[s][i] # "none" => event'[s][i] # "none"
    BY <1>3 DEF Bad
  <2> QED
    BY <1>0, <1>3, <2>1, <2>2 DEF Story, WorkersFit, Unlaunched
<1>8. VerdictFits(s)'
  BY <1>0, <1>1, <1>3 DEF Story, VerdictFits, Looping, Inside, Unlaunched, Last,
     InnerOver
<1> QED
  BY <1>5, <1>6, <1>7, <1>8 DEF Story

LEMMA InnerKeepsStory ==
    ASSUME LInv, NEW s \in Session, InnerStep(s)
    PROVE  \A t \in Session : Story(t)'
<1>1. Story(s)'
  BY GoesOn, Ends, Saves, Loops, Attempts, Records DEF InnerStep
<1>2. ASSUME NEW t \in Session \ {s} PROVE Story(t)'
  BY <1>2, InnerIsOwn, StoryStays DEF LInv, MInv, IInv
<1> QED
  BY <1>1, <1>2

(* A worker commits its data once, for the attempt it was started for.     *)
LEMMA WorkerKeepsStory ==
    ASSUME LInv, NEW s \in Session, NEW i \in Institution, WorkerStep(s, i)
    PROVE  \A t \in Session : Story(t)'
<1>0. TypeOK /\ Story(s)
  BY DEF LInv, MInv, IInv
<1>1. /\ UNCHANGED <<inner, cur, won, lost, asked, summary, event>>
      /\ \A t \in Session \ {s} : worker'[t] = worker[t]
      /\ \A j \in Institution \ {i} : /\ worker'[s][j] = worker[s][j]
                                      /\ saved'[j] = saved[j]
      /\ \/ /\ worker[s][i] = "running" /\ worker'[s][i] = "saved"
            /\ saved'[i] = saved[i] \cup {s}
         \/ /\ worker[s][i] = "saved" /\ worker'[s][i] \in {"none", "returned"}
            /\ saved'[i] = saved[i]
         \/ /\ worker[s][i] = "running" /\ worker'[s][i] \in {"none", "raised"}
            /\ saved'[i] = saved[i]
  BY <1>0 DEF TypeOK, WorkerStep, WorkerSaves, WorkerReturns, WorkerRaises,
     WorkerBecomes, CommitData, Result, plan, locals
<1>2. Story(s)'
  <2>1. Good(s)' = Good(s)
    BY <1>1 DEF Good
  <2>2. EarlyFits(s)' /\ LoopFits(s)' /\ CurFits(s)'
    BY <1>0, <1>1 DEF Story, EarlyFits, LoopFits, CurFits
  <2>3. WorkersFit(s)'
    BY <1>0, <1>1 DEF Story, WorkersFit
  <2>4. VerdictFits(s)'
    BY <1>0, <1>1, <2>1 DEF Story, VerdictFits
  <2> QED
    BY <2>2, <2>3, <2>4 DEF Story
<1>3. ASSUME NEW t \in Session \ {s} PROVE Story(t)'
  <2>1. \A j \in Institution : t \in saved'[j] <=> t \in saved[j]
    BY <1>1
  <2> QED
    BY <1>1, <2>1, StoryStays DEF LInv, Told
<1> QED
  BY <1>2, <1>3

(* The manager touches the report and nothing else of it, before there is  *)
(* a verdict.                                                              *)
LEMMA ManagerKeepsStory ==
    ASSUME LInv, NEW s \in Session, StartRefresh(s) \/ MgrStep(s)
    PROVE  \A t \in Session : Story(t)'
<1>0. TypeOK /\ MInv /\ \A t \in Session : Story(t)
  BY DEF LInv, MInv, IInv
<1>1. CASE StartRefresh(s)
  <2>1. /\ UNCHANGED <<cur, won, lost, asked, summary, event, worker, saved>>
        /\ inner' = [inner EXCEPT ![s] = "create"] /\ inner[s] = "none"
    BY <1>0, <1>1 DEF StartRefresh, MInv, Surroundings, Fresh, plan, locals, ledger
  <2>2. ASSUME NEW t \in Session \ {s} PROVE Story(t)'
    BY <1>0, <2>1, StoryStays DEF TypeOK, Told
  <2>3. Story(s)'
    <3>0. Story(s) /\ inner'[s] = "create"
      BY <1>0, <2>1 DEF TypeOK
    <3>1. EarlyFits(s)' /\ LoopFits(s)' /\ CurFits(s)'
      BY <2>1, <3>0 DEF Story, EarlyFits, LoopFits, CurFits, Early, Looping,
         Inside, Unlaunched
    <3>2. WorkersFit(s)'
      BY <2>1, <3>0 DEF Story, WorkersFit, Unlaunched
    <3>3. VerdictFits(s)'
      BY <2>1, <3>0 DEF Story, VerdictFits, Looping, Inside, Unlaunched, Last,
         InnerOver
    <3> QED
      BY <3>1, <3>2, <3>3 DEF Story
  <2> QED
    BY <2>2, <2>3
<1>2. CASE SessionTimeout(s)
  <2>1. /\ UNCHANGED <<inner, cur, won, lost, asked, event, worker, saved>>
        /\ summary' = [summary EXCEPT ![s] = "timeout"]
    BY <1>2 DEF SessionTimeout, locals, ledger
  <2>2. ASSUME NEW t \in Session \ {s} PROVE Story(t)'
    BY <1>0, <2>1, StoryStays DEF TypeOK, Told
  <2>3. Story(s)'
    <3>0. Story(s) /\ summary'[s] = "timeout" /\ Good(s)' = Good(s)
      BY <1>0, <2>1 DEF TypeOK, Good
    <3>1. EarlyFits(s)' /\ LoopFits(s)' /\ CurFits(s)' /\ WorkersFit(s)'
      BY <2>1, <3>0 DEF Story, EarlyFits, LoopFits, CurFits, WorkersFit
    <3>2. VerdictFits(s)'
      BY <2>1, <3>0 DEF Story, VerdictFits
    <3> QED
      BY <3>1, <3>2 DEF Story
  <2> QED
    BY <2>2, <2>3
<1>3. CASE MgrStep(s) /\ ~SessionTimeout(s)
  <2>1. UNCHANGED <<inner, cur, won, lost, asked, summary, event, worker, saved>>
    BY <1>3 DEF MgrStep, JoinReturns, ForceFailRow, ForceFailState,
       ForceFailCheck, ForceFailAssign, ForceFailSave, ForceFailRaises, GraceOver,
       Finish, plan, locals, ledger
  <2> QED
    BY <1>0, <2>1, StoryStays DEF Told
<1> QED
  BY <1>1, <1>2, <1>3

LEMMA LInvNext == LInv /\ [Next]_vars => LInv'
<1> SUFFICES ASSUME LInv, [Next]_vars PROVE \A t \in Session : Story(t)'
  BY MInvNext DEF LInv
<1>1. CASE Crash
  <2>1. /\ UNCHANGED <<asked, summary, event, saved>>
        /\ \A t \in Session :
              /\ inner'[t] = IF inner[t] = "none" THEN "none" ELSE "dead"
              /\ \A i \in Institution : worker'[t][i] = "none"
              /\ won'[t] = {} /\ lost'[t] = {}
    BY <1>1 DEF Crash, plan, ledger
  <2>2. ASSUME NEW t \in Session PROVE Story(t)'
    <3>0. Story(t) /\ Good(t)' = Good(t)
      BY <2>1 DEF LInv, Good
    <3>1. EarlyFits(t)' /\ LoopFits(t)' /\ CurFits(t)'
      BY <2>1, <3>0 DEF Story, EarlyFits, LoopFits, CurFits, Early, Looping,
         Inside, Unlaunched
    <3>2. WorkersFit(t)'
      BY <2>1, <3>0 DEF Story, WorkersFit, Unlaunched
    <3>3. VerdictFits(t)'
      BY <2>1, <3>0 DEF Story, VerdictFits, Looping, Inside, Unlaunched, Last,
         InnerOver
    <3> QED
      BY <3>1, <3>2, <3>3 DEF Story
  <2> QED
    BY <2>2
<1>2. CASE Restart \/ UNCHANGED vars
  <2>1. UNCHANGED <<inner, cur, won, lost, asked, summary, event, worker, saved>>
    BY <1>2 DEF Restart, vars, plan, locals, ledger
  <2> QED
    BY <2>1, StoryStays DEF LInv, Told
<1> QED
  BY <1>1, <1>2, InnerKeepsStory, WorkerKeepsStory, ManagerKeepsStory DEF Next, Quiet

LEMMA LInvAlways == Spec => []LInv
<1>1. Init => LInv
  BY IInvInit, SurroundingsInit, StoryInit DEF LInv, MInv
<1> QED
  BY <1>1, LInvNext, PTL DEF Spec

-------------------------------------------------------------------------------
(* The report.                                                             *)

\* What REFRESH_COMPLETE says is true, although a timed-out inner thread may
\* overwrite the summary until the manager broadcasts it.
THEOREM ReportsAreTrue == Spec => []ReportIsTrue
<1>1. ASSUME LInv PROVE ReportIsTrue
  <2>1. ASSUME NEW s \in Session
        PROVE  { i \in asked[s] : event[s][i] = "COMPLETED" /\ s \in saved[i] }
                   = Good(s)
    <3>1. asked[s] \subseteq Institution
      BY <1>1 DEF LInv, MInv, IInv, TypeOK
    <3> QED
      BY <1>1, <3>1 DEF LInv, Story, WorkersFit, Good
  <2>2. \A s \in Session : VerdictFits(s)
    BY <1>1 DEF LInv, Story
  <2>3. \A s \in Session : Good(s) \subseteq asked[s]
    BY DEF Good
  <2> QED
    BY <2>1, <2>2, <2>3 DEF ReportIsTrue, VerdictFits
<1> QED
  BY <1>1, LInvAlways, PTL

-------------------------------------------------------------------------------
(* Crashes.                                                                *)

(* The manager of a thread that died with the process died too; rows are   *)
(* closed when they complete.                                              *)
Closed ==
    /\ \A s \in Session : inner[s] = "dead" => mgr[s] \notin MgrLive \cup {"none"}
    /\ \A s \in Session : row[s] \in Completing => closed[s]
    /\ CrashedRunsClosed

LEMMA ClosedInit == Init => Closed
  BY DEF Init, Closed, CrashedRunsClosed, Completing

(* A thread writes the row of its own session only, and closes it when it  *)
(* completes.                                                              *)
LEMMA WriteCloses ==
    ASSUME TypeOK, NEW s \in Session, NEW st \in RefreshState, WriteRow(s, st)
    PROVE  /\ \A t \in Session \ {s} : row'[t] = row[t] /\ closed'[t] = closed[t]
           /\ row'[s] = row[s] \/ (row'[s] = st /\ (st \in Completing => closed'[s]))
           /\ closed[s] => closed'[s]
  BY DEF TypeOK, WriteRow

(* Only a crash makes a thread dead.                                       *)
LEMMA NotKilled ==
    ASSUME TypeOK, NEW s \in Session, InnerStep(s)
    PROVE  inner'[s] # "dead"
<1> USE TableTypes DEF TypeOK
<1>1. CASE CheckMove(s) \/ AssignMove(s)
  BY <1>1 DEF CheckMove, AssignMove
<1>2. CASE RefuseMove(s) \/ CancelRaises(s) \/ InnerRaises(s)
  BY <1>2 DEF RefuseMove, CancelRaises, InnerRaises, InnerEnds
<1>3. CASE SaveMove(s)
  BY <1>3 DEF SaveMove, After
<1>4. CASE \/ InsertRun(s) \/ AuthCheck(s) \/ FetchCredentials(s)
           \/ BeginInstitution(s) \/ LaunchCheck(s) \/ Launch(s)
           \/ AwaitReturned(s)
  BY <1>4 DEF InsertRun, AuthCheck, FetchCredentials, BeginInstitution,
     LaunchCheck, Launch, AwaitReturned, InnerGoes
<1>5. CASE \/ \E stale \in SUBSET Institution : Evaluate(s, stale)
           \/ \E i \in Institution : NextInstitution(s, i)
           \/ LoopEnds(s)
  BY <1>5 DEF Evaluate, NextInstitution, LoopEnds, ClosingMove, InnerGoes
<1>6. CASE \/ \E fatal \in BOOLEAN : AwaitRaised(s, fatal)
           \/ AwaitTimeout(s) \/ RecordOkFails(s)
  BY <1>6 DEF AwaitRaised, AwaitTimeout, RecordOkFails, FailurePath, InnerGoes
<1>7. CASE RecordOk(s) \/ RecordFailure(s)
  BY <1>7 DEF RecordOk, RecordFailure, LeaveInstitution
<1> QED
  BY <1>1, <1>2, <1>3, <1>4, <1>5, <1>6, <1>7 DEF InnerStep

LEMMA ClosedNext == LInv /\ Closed /\ [Next]_vars => Closed'
<1> SUFFICES ASSUME LInv, Closed, [Next]_vars PROVE Closed'
  OBVIOUS
<1>0. TypeOK /\ CurrentInst /\ Fresh
  BY DEF LInv, MInv, IInv, Surroundings
<1> DEFINE Writes(s) ==
      /\ up' = up
      /\ \A t \in Session : row[t] \in Completing /\ row'[t] = row[t] => closed'[t]
      /\ \A t \in Session \ {s} : row'[t] = row[t]
      /\ row'[s] # row[s] /\ row'[s] \in Completing => closed'[s]
<1>1. ASSUME NEW s \in Session, InnerStep(s)
      PROVE  Closed'
  <2>1. /\ UNCHANGED <<up, mgr>> /\ inner[s] \in InnerLive
        /\ \A t \in Session \ {s} : inner'[t] = inner[t]
    BY <1>0, <1>1, InnerFrame
  <2>2. inner'[s] # "dead" /\ Writes(s)
    <3>1. CASE InsertRun(s)
      BY <1>0, <3>1 DEF TypeOK, InsertRun, InnerGoes, process, Closed, Completing
    <3>2. CASE SaveMove(s)
      <4>1. Target[inner[s]] \in RefreshState /\ inner'[s] = After[inner[s]]
        BY <1>0, <3>2, TableTypes DEF TypeOK, SaveMove
      <4>2. inner'[s] # "dead"
        BY <3>2, <4>1, TableTypes DEF SaveMove, After
      <4>3. WriteRow(s, Target[inner[s]]) /\ up' = up
        BY <3>2 DEF SaveMove, SaveRow, process
      <4> QED
        BY <1>0, <4>1, <4>2, <4>3, WriteCloses DEF Closed
    <3>3. CASE ~InsertRun(s) /\ ~SaveMove(s)
      <4>1. UNCHANGED <<up, row, closed>>
        BY <1>1, <3>3 DEF InnerStep, CheckMove, RefuseMove, AssignMove, Evaluate,
           CancelRaises, AuthCheck, FetchCredentials, NextInstitution, LoopEnds,
           BeginInstitution, LaunchCheck, Launch, AwaitReturned, AwaitRaised,
           AwaitTimeout, RecordOk, RecordOkFails, RecordFailure, InnerRaises,
           process, runRow
      <4> QED
        BY <4>1, <1>1, NotKilled, <1>0 DEF Closed
    <3> QED
      BY <3>1, <3>2, <3>3
  <2>3. inner[s] # "dead"
    BY <2>1, TableTypes DEF InnerLive
  <2> QED
    BY <2>1, <2>2, <2>3 DEF Closed, CrashedRunsClosed
<1>2. ASSUME NEW s \in Session, MgrStep(s)
      PROVE  Closed'
  <2>1. /\ mgr[s] \in MgrLive /\ UNCHANGED <<up, inner>>
        /\ \E to \in MgrPoint \ {"none"} : mgr' = [mgr EXCEPT ![s] = to]
    BY <1>2 DEF MgrStep, JoinReturns, SessionTimeout, ForceFailRow, ForceFailState,
       ForceFailCheck, ForceFailAssign, ForceFailSave, ForceFailRaises, GraceOver,
       Finish, MgrGoes, MgrLive, MgrPoint, process
  <2>2. Writes(s)
    <3>1. CASE ForceFailRow(s) \/ ForceFailSave(s)
      <4>1. \E st \in RefreshState : WriteRow(s, st)
        BY <3>1 DEF ForceFailRow, ForceFailSave, RefreshState
      <4> QED
        BY <1>0, <2>1, <4>1, WriteCloses DEF Closed
    <3>2. CASE ~ForceFailRow(s) /\ ~ForceFailSave(s)
      <4>1. UNCHANGED <<row, closed>>
        BY <1>2, <3>2 DEF MgrStep, JoinReturns, SessionTimeout, ForceFailState,
           ForceFailCheck, ForceFailAssign, ForceFailRaises, GraceOver, Finish,
           runRow
      <4> QED
        BY <2>1, <4>1 DEF Closed
    <3> QED
      BY <3>1, <3>2
  <2>3. inner[s] # "dead"
    BY <2>1 DEF Closed
  <2>4. \A t \in Session : inner'[t] = "dead" => mgr'[t] \notin MgrLive \cup {"none"}
    <3>1. \A t \in Session \ {s} : mgr'[t] = mgr[t]
      BY <2>1
    <3> QED
      BY <2>1, <2>3, <3>1 DEF Closed
  <2>5. \A t \in Session : row'[t] \in Completing => closed'[t]
    BY <2>2 DEF Closed
  <2>6. CrashedRunsClosed'
    BY <2>1, <2>2, <2>3, <2>5 DEF Closed, CrashedRunsClosed
  <2> QED
    BY <2>4, <2>5, <2>6 DEF Closed
<1>3. ASSUME NEW s \in Session, StartRefresh(s)
      PROVE  Closed'
  <2>1. /\ UNCHANGED <<up, row, closed>>
        /\ inner' = [inner EXCEPT ![s] = "create"]
        /\ mgr' = [mgr EXCEPT ![s] = "join"]
    BY <1>3 DEF StartRefresh, runRow
  <2> QED
    BY <1>0, <2>1 DEF Closed, CrashedRunsClosed, TypeOK
<1>4. ASSUME NEW s \in Session, NEW i \in Institution, WorkerStep(s, i)
      PROVE  Closed'
  BY <1>4 DEF WorkerStep, WorkerSaves, WorkerReturns, WorkerRaises, WorkerBecomes,
     process, runRow, Closed, CrashedRunsClosed
<1>5. CASE Crash
  <2>1. /\ up' = FALSE /\ UNCHANGED <<row, closed>>
        /\ \A s \in Session :
              /\ inner'[s] = IF inner[s] = "none" THEN "none" ELSE "dead"
              /\ mgr'[s] = IF mgr[s] \in MgrLive THEN "dead" ELSE mgr[s]
    BY <1>5 DEF Crash, runRow
  <2>2. \A s \in Session : inner[s] # "none" => mgr[s] # "none"
    BY <1>0 DEF Fresh
  <2> QED
    BY <2>1, <2>2 DEF Closed, CrashedRunsClosed, MgrLive
<1>6. CASE Restart
  <2>1. /\ UNCHANGED <<inner, mgr>>
        /\ \A s \in Session :
              /\ row'[s] = IF row[s] \in Orphanable THEN "FAILED" ELSE row[s]
              /\ closed'[s] = (closed[s] \/ row[s] \in Orphanable)
    BY <1>6 DEF Restart
  <2>2. \A s \in Session : row[s] \in RefreshState \cup {"absent"}
    BY <1>0 DEF TypeOK
  <2> QED
    BY <2>1, <2>2 DEF Closed, CrashedRunsClosed, AtRest, Orphanable, Completing,
       RefreshState
<1>7. CASE UNCHANGED vars
  BY <1>7 DEF vars, process, runRow, Closed, CrashedRunsClosed
<1> QED
  BY <1>1, <1>2, <1>3, <1>4, <1>5, <1>6, <1>7 DEF Next, Quiet

\* recover_orphaned_runs closes every run of a process that died, and no
\* thread of the new process opens one of them again.
THEOREM CrashesLeaveNothingOpen == Spec => []CrashedRunsClosed
<1>1. LInv /\ Closed => CrashedRunsClosed
  BY DEF Closed
<1> QED
  BY <1>1, ClosedInit, ClosedNext, LInvAlways, PTL DEF Spec

-------------------------------------------------------------------------------
(* The ledger.                                                             *)

(* What the inner thread of s writes to the ledger: nothing, or it opens   *)
(* an attempt, or it resolves the open one.                                *)
Opens(s, i) ==
    /\ event[s][i] = "none" /\ \A j \in Institution : event[s][j] # "STARTED"
    /\ event' = [event EXCEPT ![s][i] = "STARTED"] /\ streak' = streak

Completes(s, i) ==
    /\ event[s][i] = "STARTED" /\ s \in saved[i]
    /\ event' = [event EXCEPT ![s][i] = "COMPLETED"]
    /\ streak' = [streak EXCEPT ![i] = 0]

Fails(s, i) ==
    /\ event[s][i] = "STARTED"
    /\ \E e \in Bad : event' = [event EXCEPT ![s][i] = e]
    /\ streak' = [streak EXCEPT ![i] = streak[i] + 1]

LEMMA InnerWrites ==
    ASSUME LInv, NEW s \in Session, InnerStep(s)
    PROVE  /\ UNCHANGED <<mgr, saved>> /\ mgr[s] # "none"
           /\ \/ UNCHANGED <<event, streak>>
              \/ \E i \in Institution : Opens(s, i) \/ Completes(s, i) \/ Fails(s, i)
<1>0. Story(s) /\ TypeOK /\ CurrentInst
  BY DEF LInv, MInv, IInv
<1>1. UNCHANGED <<mgr, saved>> /\ mgr[s] # "none"
  BY <1>0, InnerFrame, InnerIsOwn, LiveHasStarted DEF LInv, MInv
<1>2. CASE BeginInstitution(s)
  <2>1. inner[s] = "begin" /\ cur[s] \in Institution
    BY <1>0, <1>2 DEF BeginInstitution, InnerGoes, CurrentInst
  <2>2. /\ event[s][cur[s]] \notin Bad \cup {"COMPLETED", "STARTED"}
        /\ \A j \in Institution : event[s][j] # "STARTED"
    BY <1>0, <2>1 DEF Story, LoopFits, CurFits, Looping, Inside, Unlaunched
  <2>3. event[s][cur[s]] = "none"
    BY <1>0, <2>1, <2>2 DEF TypeOK, EventState, Bad
  <2>4. Opens(s, cur[s])
    BY <1>2, <2>2, <2>3 DEF Opens, BeginInstitution
  <2> QED
    BY <1>1, <2>1, <2>4
<1>3. CASE RecordOk(s)
  <2>1. cur[s] \in Institution /\ event[s][cur[s]] = "STARTED" /\ s \in saved[cur[s]]
    BY <1>3, OpenAttempt DEF RecordOk, Inside
  <2>2. Completes(s, cur[s])
    BY <1>3, <2>1 DEF RecordOk, Completes
  <2> QED
    BY <1>1, <2>1, <2>2
<1>4. CASE RecordFailure(s)
  <2>1. cur[s] \in Institution /\ event[s][cur[s]] = "STARTED"
    BY <1>4, OpenAttempt DEF RecordFailure, Inside
  <2>2. \E e \in Bad : event' = [event EXCEPT ![s][cur[s]] = e]
    BY <1>4 DEF RecordFailure, Bad
  <2>3. Fails(s, cur[s])
    BY <1>4, <2>1, <2>2 DEF RecordFailure, FailedStreak, Fails
  <2> QED
    BY <1>1, <2>1, <2>3
<1>5. CASE ~BeginInstitution(s) /\ ~RecordOk(s) /\ ~RecordFailure(s)
  <2>1. UNCHANGED <<event, streak>>
    BY <1>5 DEF InnerStep, InsertRun, CheckMove, RefuseMove, AssignMove, SaveMove,
       Evaluate, CancelRaises, AuthCheck, FetchCredentials, NextInstitution,
       LoopEnds, LaunchCheck, Launch, AwaitReturned, AwaitRaised, AwaitTimeout,
       RecordOkFails, InnerRaises, ledger
  <2> QED
    BY <1>1, <2>1
<1> QED
  BY <1>2, <1>3, <1>4, <1>5

(* The other steps write neither events nor counts.                        *)
LEMMA OthersWriteNothing ==
    ASSUME [Next]_vars, \A s \in Session : ~InnerStep(s)
    PROVE  UNCHANGED <<event, streak>>
<1>1. ASSUME NEW s \in Session, StartRefresh(s) \/ MgrStep(s)
      PROVE  UNCHANGED <<event, streak>>
  BY <1>1 DEF StartRefresh, MgrStep, JoinReturns, SessionTimeout, ForceFailRow,
     ForceFailState, ForceFailCheck, ForceFailAssign, ForceFailSave,
     ForceFailRaises, GraceOver, Finish, ledger
<1>2. ASSUME NEW s \in Session, NEW i \in Institution, WorkerStep(s, i)
      PROVE  UNCHANGED <<event, streak>>
  BY <1>2 DEF WorkerStep, WorkerSaves, WorkerReturns, WorkerRaises, WorkerBecomes
<1>3. CASE Crash \/ Restart \/ UNCHANGED vars
  BY <1>3 DEF Crash, Restart, vars, ledger
<1> QED
  BY <1>1, <1>2, <1>3 DEF Next, Quiet

Failed(i) == { s \in Session : event[s][i] \in Bad }

Counted ==
    \A i \in Institution :
        /\ IsFiniteSet(Failed(i))
        /\ streak[i] <= Cardinality(Failed(i))
        /\ (\A s \in Session : event[s][i] # "COMPLETED")
               => streak[i] = Cardinality(Failed(i))

LEMMA CountedInit == Init => Counted
<1> SUFFICES ASSUME Init, NEW i \in Institution
             PROVE  Failed(i) = {} /\ streak[i] = 0
  BY FS_EmptySet DEF Counted
<1> QED
  BY DEF Init, Failed, Bad

LEMMA CountedNext == LInv /\ Counted /\ [Next]_vars => Counted'
<1> SUFFICES ASSUME LInv, Counted, [Next]_vars PROVE Counted'
  OBVIOUS
<1>0. TypeOK
  BY DEF LInv, MInv, IInv
<1>1. CASE UNCHANGED <<event, streak>>
  BY <1>1 DEF Counted, Failed
<1>2. ASSUME NEW s \in Session, NEW c \in Institution,
             Opens(s, c) \/ Completes(s, c) \/ Fails(s, c)
      PROVE  Counted'
  <2> SUFFICES ASSUME NEW i \in Institution
               PROVE  /\ IsFiniteSet(Failed(i)')
                      /\ streak'[i] <= Cardinality(Failed(i)')
                      /\ (\A t \in Session : event'[t][i] # "COMPLETED")
                             => streak'[i] = Cardinality(Failed(i)')
    BY DEF Counted
  <2>0. /\ IsFiniteSet(Failed(i)) /\ streak[i] <= Cardinality(Failed(i))
        /\ (\A t \in Session : event[t][i] # "COMPLETED")
               => streak[i] = Cardinality(Failed(i))
        /\ Cardinality(Failed(i)) \in Nat /\ streak[i] \in Nat
    BY <1>0, FS_CardinalityType DEF Counted, TypeOK
  <2>1. CASE Fails(s, c) /\ i = c
    <3>1. /\ event[s][i] = "STARTED" /\ event'[s][i] \in Bad
          /\ \A t \in Session \ {s} : event'[t] = event[t]
          /\ streak'[i] = streak[i] + 1
      BY <1>0, <2>1 DEF Fails, TypeOK
    <3>2. Failed(i)' = Failed(i) \cup {s} /\ s \notin Failed(i)
      BY <3>1 DEF Failed, Bad
    <3>3. /\ IsFiniteSet(Failed(i)')
          /\ Cardinality(Failed(i)') = Cardinality(Failed(i)) + 1
      BY <2>0, <3>2, FS_AddElement
    <3>4. (\A t \in Session : event'[t][i] # "COMPLETED")
              => \A t \in Session : event[t][i] # "COMPLETED"
      BY <3>1
    <3> QED
      BY <2>0, <3>1, <3>3, <3>4
  <2>2. CASE ~(Fails(s, c) /\ i = c)
    <3>1. /\ \A t \in Session : event'[t][i] \in Bad <=> event[t][i] \in Bad
          /\ \A t \in Session : event[t][i] = "COMPLETED" => event'[t][i] = "COMPLETED"
          /\ \/ streak'[i] = streak[i]
             \/ streak'[i] = 0 /\ event'[s][i] = "COMPLETED"
      <4>1. CASE c # i
        <5>1. streak'[i] = streak[i]
          BY <1>0, <1>2, <4>1 DEF Opens, Completes, Fails, TypeOK
        <5>2. \A t \in Session : event'[t][i] = event[t][i]
          <6>1. PICK e \in EventState : event' = [event EXCEPT ![s][c] = e]
            BY <1>2 DEF Opens, Completes, Fails, EventState, Bad
          <6> QED
            BY <1>0, <4>1, <6>1 DEF TypeOK
        <5> QED
          BY <5>1, <5>2
      <4>2. CASE c = i /\ Opens(s, i)
        <5>1. /\ event[s][i] = "none" /\ event'[s][i] = "STARTED"
              /\ \A t \in Session \ {s} : event'[t] = event[t]
              /\ streak'[i] = streak[i]
          BY <1>0, <4>2 DEF Opens, TypeOK
        <5> QED
          BY <5>1 DEF Bad
      <4>3. CASE c = i /\ Completes(s, i)
        <5>1. /\ event[s][i] = "STARTED" /\ event'[s][i] = "COMPLETED"
              /\ \A t \in Session \ {s} : event'[t] = event[t]
              /\ streak'[i] = 0
          BY <1>0, <4>3 DEF Completes, TypeOK
        <5> QED
          BY <5>1 DEF Bad
      <4> QED
        BY <1>2, <2>2, <4>1, <4>2, <4>3
    <3>2. Failed(i)' = Failed(i)
      BY <3>1 DEF Failed
    <3>3. (\A t \in Session : event'[t][i] # "COMPLETED")
              => (\A t \in Session : event[t][i] # "COMPLETED") /\ streak'[i] = streak[i]
      BY <3>1
    <3> QED
      BY <2>0, <3>1, <3>2, <3>3
  <2> QED
    BY <2>1, <2>2
<1>3. ASSUME NEW s \in Session, InnerStep(s) PROVE Counted'
  BY <1>1, <1>2, <1>3, InnerWrites
<1>4. CASE \A s \in Session : ~InnerStep(s)
  BY <1>1, <1>4, OthersWriteNothing
<1> QED
  BY <1>3, <1>4

\* consecutive_failures is the number of failed attempts on record as long as
\* none has completed, and never more, however sessions overlap and crash.
THEOREM FailuresAreCounted == Spec => []FailuresAccountedFor
<1>1. Counted => FailuresAccountedFor
  BY DEF Counted, FailuresAccountedFor, Failed, Bad
<1> QED
  BY <1>1, CountedInit, CountedNext, LInvAlways, PTL DEF Spec

(* The charge of a session follows its manager.                            *)
LEMMA ChargeStays ==
    ASSUME UNCHANGED mgr
    PROVE  LedgerCharge' = LedgerCharge
  BY DEF LedgerCharge

LEMMA AttemptStays ==
    ASSUME UNCHANGED event
    PROVE  LedgerAttempt' = LedgerAttempt
  BY DEF LedgerAttempt

LEMMA LedgerInit == Init => Ledger!Init
<1> SUFFICES ASSUME Init PROVE Ledger!Init
  OBVIOUS
<1>1. LedgerCharge = [s \in Session |-> "idle"]
  <2>1. \A s \in Session : mgr[s] = "none"
    BY DEF Init
  <2>2. \A s \in Session : LedgerCharge[s] = "idle"
    BY <2>1 DEF LedgerCharge, MgrLive
  <2>3. LedgerCharge = [s \in Session |-> LedgerCharge[s]]
    BY DEF LedgerCharge
  <2> QED
    BY <2>2, <2>3
<1>2. LedgerAttempt = [s \in Session |-> [i \in Institution |-> "none"]]
  BY DEF Init, LedgerAttempt
<1> QED
  BY <1>1, <1>2 DEF Init, Ledger!Init

(* A session is in charge while its manager is at work.                    *)
LEMMA ChargeMoves ==
    ASSUME TypeOK, NEW s \in Session,
           \A t \in Session \ {s} : mgr'[t] = mgr[t]
    PROVE  /\ (mgr[s] \in MgrLive <=> mgr'[s] \in MgrLive)
              /\ (mgr[s] = "none" <=> mgr'[s] = "none")
                  => LedgerCharge' = LedgerCharge
           /\ mgr[s] = "none" /\ mgr'[s] \in MgrLive
                  => /\ LedgerCharge[s] = "idle"
                     /\ LedgerCharge' = [LedgerCharge EXCEPT ![s] = "acting"]
           /\ mgr[s] \in MgrLive /\ mgr'[s] \notin MgrLive \cup {"none"}
                  => /\ LedgerCharge[s] = "acting"
                     /\ LedgerCharge' = [LedgerCharge EXCEPT ![s] = "over"]
  BY DEF LedgerCharge, MgrLive

LEMMA TakesCharge ==
    ASSUME LInv, NEW s \in Session, StartRefresh(s)
    PROVE  Ledger!Take(s)
<1>0. TypeOK /\ LockFollowsManager
  BY DEF LInv, MInv, IInv
<1>1. /\ mgr[s] = "none" /\ mgr'[s] \in MgrLive
      /\ \A t \in Session \ {s} : mgr'[t] = mgr[t]
      /\ UNCHANGED <<event, streak, saved>>
  BY <1>0 DEF StartRefresh, TypeOK, MgrLive, ledger
<1>2. \A t \in Session : mgr[t] \notin MgrLive
  BY <1>0 DEF StartRefresh, Acquire, LockFollowsManager
<1>3. \A t \in Session : LedgerCharge[t] # "acting"
  BY <1>2 DEF LedgerCharge
<1> QED
  BY <1>0, <1>1, <1>3, ChargeMoves, AttemptStays DEF Ledger!Take

LEMMA ManagerOfLedger ==
    ASSUME LInv, NEW s \in Session, MgrStep(s)
    PROVE  Ledger!Drop(s) \/ UNCHANGED Ledger!vars
<1>0. TypeOK
  BY DEF LInv, MInv, IInv
<1>1. /\ \A t \in Session \ {s} : mgr'[t] = mgr[t]
      /\ mgr[s] \in MgrLive /\ mgr'[s] # "none"
      /\ UNCHANGED <<event, streak, saved>>
  BY <1>0 DEF TypeOK, MgrStep, JoinReturns, SessionTimeout, ForceFailRow,
     ForceFailState, ForceFailCheck, ForceFailAssign, ForceFailSave,
     ForceFailRaises, GraceOver, Finish, MgrGoes, MgrLive, ledger
<1>2. LedgerAttempt' = LedgerAttempt
  BY <1>1, AttemptStays
<1>3. CASE mgr'[s] \in MgrLive
  <2>1. mgr[s] # "none"
    BY <1>1 DEF MgrLive
  <2>2. LedgerCharge' = LedgerCharge
    BY <1>0, <1>1, <1>3, <2>1, ChargeMoves
  <2> QED
    BY <1>1, <1>2, <2>2 DEF Ledger!vars
<1>4. CASE mgr'[s] \notin MgrLive
  <2>1. /\ LedgerCharge[s] = "acting"
        /\ LedgerCharge' = [LedgerCharge EXCEPT ![s] = "over"]
    BY <1>0, <1>1, <1>4, ChargeMoves
  <2> QED
    BY <1>1, <1>2, <2>1 DEF Ledger!Drop
<1> QED
  BY <1>3, <1>4

(* What an attempt is in the ledger, when one event row changes.           *)
LEMMA AttemptMoves ==
    ASSUME TypeOK, NEW s \in Session, NEW i \in Institution,
           NEW e \in EventState, event' = [event EXCEPT ![s][i] = e]
    PROVE  LedgerAttempt' = [LedgerAttempt EXCEPT ![s][i] =
               CASE e = "none"      -> "none"
                 [] e = "STARTED"   -> "open"
                 [] e = "COMPLETED" -> "good"
                 [] OTHER           -> "bad"]
<1> DEFINE A(x) == CASE x = "none"      -> "none"
                     [] x = "STARTED"   -> "open"
                     [] x = "COMPLETED" -> "good"
                     [] OTHER           -> "bad"
<1>1. LedgerAttempt = [t \in Session |-> [j \in Institution |-> A(event[t][j])]]
  BY DEF LedgerAttempt
<1>2. LedgerAttempt' = [t \in Session |-> [j \in Institution |-> A(event'[t][j])]]
  BY DEF LedgerAttempt
<1> HIDE DEF A
<1>3. \A t \in Session, j \in Institution :
         event'[t][j] = IF t = s /\ j = i THEN e ELSE event[t][j]
  BY DEF TypeOK
<1>4. LedgerAttempt' = [LedgerAttempt EXCEPT ![s][i] = A(e)]
  BY <1>1, <1>2, <1>3
<1> QED
  BY <1>4 DEF A

LEMMA InnerOfLedger ==
    ASSUME LInv, NEW s \in Session, InnerStep(s)
    PROVE  \/ UNCHANGED Ledger!vars
           \/ \E i \in Institution :
                 Ledger!Open(s, i) \/ Ledger!Succeed(s, i) \/ Ledger!Fail(s, i)
<1>0. TypeOK
  BY DEF LInv, MInv, IInv
<1>1. UNCHANGED <<LedgerCharge, saved>> /\ LedgerCharge[s] # "idle"
  <2>1. UNCHANGED <<mgr, saved>> /\ mgr[s] # "none"
    BY InnerWrites
  <2> QED
    BY <2>1, ChargeStays DEF LedgerCharge
<1>2. CASE UNCHANGED <<event, streak>>
  BY <1>1, <1>2, AttemptStays DEF Ledger!vars
<1>3. ASSUME NEW i \in Institution, Opens(s, i) PROVE Ledger!Open(s, i)
  <2>1. LedgerAttempt' = [LedgerAttempt EXCEPT ![s][i] = "open"]
    BY <1>0, <1>3, AttemptMoves DEF Opens, EventState
  <2>2. /\ LedgerAttempt[s][i] = "none"
        /\ \A j \in Institution : LedgerAttempt[s][j] # "open"
    BY <1>3 DEF Opens, LedgerAttempt
  <2> QED
    BY <1>1, <1>3, <2>1, <2>2 DEF Opens, Ledger!Open
<1>4. ASSUME NEW i \in Institution, Completes(s, i) PROVE Ledger!Succeed(s, i)
  <2>1. LedgerAttempt' = [LedgerAttempt EXCEPT ![s][i] = "good"]
    BY <1>0, <1>4, AttemptMoves DEF Completes, EventState
  <2>2. LedgerAttempt[s][i] = "open"
    BY <1>4 DEF Completes, LedgerAttempt
  <2> QED
    BY <1>1, <1>4, <2>1, <2>2 DEF Completes, Ledger!Succeed, Ledger!Resolve
<1>5. ASSUME NEW i \in Institution, Fails(s, i) PROVE Ledger!Fail(s, i)
  <2>1. PICK e \in Bad : event' = [event EXCEPT ![s][i] = e]
    BY <1>5 DEF Fails
  <2>2. LedgerAttempt' = [LedgerAttempt EXCEPT ![s][i] = "bad"]
    BY <1>0, <2>1, AttemptMoves DEF Bad, EventState
  <2>3. LedgerAttempt[s][i] = "open"
    BY <1>5 DEF Fails, LedgerAttempt
  <2> QED
    BY <1>1, <1>5, <2>2, <2>3 DEF Fails, Ledger!Fail, Ledger!Resolve
<1> QED
  BY <1>2, <1>3, <1>4, <1>5, InnerWrites

LEMMA WorkerOfLedger ==
    ASSUME LInv, NEW s \in Session, NEW i \in Institution, WorkerStep(s, i)
    PROVE  Ledger!Commit(s, i) \/ UNCHANGED Ledger!vars
<1>0. TypeOK /\ WorkersFit(s)
  BY DEF LInv, MInv, IInv, Story
<1>1. /\ UNCHANGED <<mgr, event, streak>>
      /\ \/ worker[s][i] = "running" /\ saved' = [saved EXCEPT ![i] = @ \cup {s}]
         \/ saved' = saved
  BY DEF WorkerStep, WorkerSaves, WorkerReturns, WorkerRaises, WorkerBecomes,
     CommitData
<1>2. UNCHANGED <<LedgerCharge, LedgerAttempt>>
  BY <1>1, ChargeStays, AttemptStays
<1>3. CASE saved' = saved
  BY <1>1, <1>2, <1>3 DEF Ledger!vars
<1>4. CASE /\ worker[s][i] = "running"
           /\ saved' = [saved EXCEPT ![i] = @ \cup {s}]
  <2>1. event[s][i] # "none" /\ s \notin saved[i]
    BY <1>0, <1>4 DEF WorkersFit
  <2>2. LedgerAttempt[s][i] # "none"
    BY <2>1 DEF LedgerAttempt
  <2> QED
    BY <1>1, <1>2, <1>4, <2>1, <2>2 DEF Ledger!Commit
<1> QED
  BY <1>1, <1>3, <1>4

LEMMA CrashOfLedger ==
    ASSUME LInv, Crash
    PROVE  (\E s \in Session : Ledger!Drop(s)) \/ UNCHANGED Ledger!vars
<1>0. TypeOK /\ LockFollowsManager
  BY DEF LInv, MInv, IInv
<1>1. /\ mgr' = [s \in Session |-> IF mgr[s] \in MgrLive THEN "dead" ELSE mgr[s]]
      /\ UNCHANGED <<event, streak, saved>>
  BY DEF Crash, ledger
<1>2. LedgerAttempt' = LedgerAttempt
  BY <1>1, AttemptStays
<1>3. ASSUME NEW s \in Session, mgr[s] \in MgrLive PROVE Ledger!Drop(s)
  <2>1. /\ \A t \in Session \ {s} : mgr'[t] = mgr[t]
        /\ mgr'[s] \notin MgrLive \cup {"none"}
    BY <1>0, <1>1, <1>3 DEF LockFollowsManager, MgrLive
  <2>2. /\ LedgerCharge[s] = "acting"
        /\ LedgerCharge' = [LedgerCharge EXCEPT ![s] = "over"]
    BY <1>0, <1>3, <2>1, ChargeMoves
  <2> QED
    BY <1>1, <1>2, <2>2 DEF Ledger!Drop
<1>4. CASE \A s \in Session : mgr[s] \notin MgrLive
  <2>1. mgr' = mgr
    BY <1>0, <1>1, <1>4 DEF TypeOK
  <2> QED
    BY <1>1, <1>2, <2>1, ChargeStays DEF Ledger!vars
<1> QED
  BY <1>3, <1>4

LEMMA LedgerNext == LInv /\ [Next]_vars => [Ledger!Next]_(Ledger!vars)
<1> SUFFICES ASSUME LInv, [Next]_vars PROVE Ledger!Next \/ UNCHANGED Ledger!vars
  OBVIOUS
<1>1. ASSUME NEW s \in Session, StartRefresh(s) PROVE Ledger!Next
  BY <1>1, TakesCharge DEF Ledger!Next
<1>2. ASSUME NEW s \in Session, MgrStep(s)
      PROVE  Ledger!Next \/ UNCHANGED Ledger!vars
  BY <1>2, ManagerOfLedger DEF Ledger!Next
<1>3. ASSUME NEW s \in Session, InnerStep(s)
      PROVE  Ledger!Next \/ UNCHANGED Ledger!vars
  BY <1>3, InnerOfLedger DEF Ledger!Next
<1>4. ASSUME NEW s \in Session, NEW i \in Institution, WorkerStep(s, i)
      PROVE  Ledger!Next \/ UNCHANGED Ledger!vars
  BY <1>4, WorkerOfLedger DEF Ledger!Next
<1>5. CASE Crash
  BY <1>5, CrashOfLedger DEF Ledger!Next
<1>6. CASE Restart \/ UNCHANGED vars
  <2>1. UNCHANGED <<mgr, event, streak, saved>>
    BY <1>6 DEF Restart, vars, ledger
  <2> QED
    BY <2>1, ChargeStays, AttemptStays DEF Ledger!vars
<1> QED
  BY <1>1, <1>2, <1>3, <1>4, <1>5, <1>6 DEF Next, Quiet

\* Overlapping, timed-out and killed sessions keep the promises of
\* RefreshLedger: one session in charge, attempts opened and resolved once,
\* the failure count moved by the step that resolves, good only with its data.
THEOREM LedgerIsKept == Spec => KeepsLedger
  BY LedgerInit, LedgerNext, LInvAlways, PTL DEF Spec, KeepsLedger, Ledger!Spec
===============================================================================
