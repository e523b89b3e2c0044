------------------------- MODULE RefreshScheduleProofs -------------------------
(***************************************************************************)
(* Proofs about RefreshSchedule, for every schedule, number of sessions and*)
(* set of institutions: the retry rule in both directions.  What is left of*)
(* a delay in true time and what is left of it by the clock bound each     *)
(* other; the first half is WaitsAsAsked, the second half makes what a     *)
(* session finds due free of any delay.  It stays so in its queue until    *)
(* somebody else fails it, which is RetriesKeepDistance.                   *)
(***************************************************************************)
EXTENDS RefreshSchedule, TLAPS

\* What is owed is still waited for.
OwedIsWaited == \A i \in Inst : owed[i] > 0 => owed[i] <= wait[i]

\* A session with an institution in hand has a number for its attempt.
AttemptIsKnown == \A s \in Session : at[s] # NoInst => attempt[s] >= 1

\* What a session has queued without an excuse is not within a delay.
QueuedIsFree == \A s \in Session : \A i \in queue[s] \ excused[s] : owed[i] = 0

IInv == TypeOK /\ AttemptIsKnown /\ WaitsAsAsked /\ OwedIsWaited /\ QueuedIsFree

\* The delays of the schedule are positive and at most Most.
LEMMA Delays ==
    /\ Last \in Nat \ {0} /\ Most \in Nat
    /\ \A n \in 1..Len(Backoff) : Backoff[n] \in 1..Most
    /\ Len(Backoff) >= 1 /\ Len(Backoff) \in Nat /\ Many \in Nat /\ Many >= 1
<1>1. /\ Len(Backoff) \in Nat /\ Len(Backoff) >= 1
      /\ \A n \in 1..Len(Backoff) : Backoff[n] \in Nat \ {0}
  BY ScheduleAssumption
<1>2. Last \in Nat \ {0}
  BY <1>1 DEF Last
<1>3. Most \in Nat /\ Most >= Last
  BY <1>2 DEF Most
<1>4. Many \in Nat /\ Many >= 1
  BY <1>1, ScheduleAssumption DEF Many
<1> QED
  BY <1>1, <1>2, <1>3, <1>4, ScheduleAssumption

\* Whatever a failure asks for lies in the schedule or is twice its end.
LEMMA DelayIsBounded ==
    ASSUME TypeOK, NEW s \in Session, attempt[s] >= 1, NEW fatal \in BOOLEAN
    PROVE  Delay(s, fatal) \in 0..Most
<1>1. attempt[s] \in Nat
  BY Delays DEF TypeOK
<1>2. Least(attempt[s], Len(Backoff)) \in 1..Len(Backoff)
  BY <1>1, Delays DEF Least
<1> QED
  BY <1>2, Delays DEF Delay

\* The numbers the bounds are made of.
LEMMA Numbers ==
    /\ Interval \in Nat /\ MaxSetback \in Nat /\ MaxCuts \in Nat
    /\ Most \in Nat /\ Many \in Nat /\ Many >= 1 /\ NoInst \notin Inst
BY Delays, ScheduleAssumption

LEMMA InitIInv == Init => IInv
<1> SUFFICES ASSUME Init PROVE IInv
  OBVIOUS
<1> USE ScheduleAssumption, Delays
<1>1. Over \in Int /\ Over <= 0 /\ Old \in Nat
  BY DEF Init, Over, Old
<1>2. TypeOK
  BY <1>1 DEF Init, TypeOK, Over, Old
<1>3. AttemptIsKnown
  BY DEF Init, AttemptIsKnown
<1>4. WaitsAsAsked /\ OwedIsWaited /\ QueuedIsFree
  BY <1>1 DEF Init, WaitsAsAsked, OwedIsWaited, QueuedIsFree
<1> QED
  BY <1>2, <1>3, <1>4 DEF IInv

LEMMA ClockKeeps ==
    ASSUME IInv, Tick \/ SetBack PROVE IInv'
<1> USE Numbers
<1>1. /\ setback \in 0..MaxSetback /\ Over \in Int /\ Over <= 0
      /\ Old \in Nat /\ Over = setback - MaxSetback
      /\ Old = Interval + MaxSetback - setback
  BY DEF IInv, TypeOK, Over, Old
<1>a. /\ age \in [Inst -> -setback..Old]
      /\ wait \in [Inst -> Over..Most + MaxSetback]
      /\ owed \in [Inst -> 0..Most]
      /\ WaitsAsAsked /\ OwedIsWaited
  BY DEF IInv, TypeOK
<1>2. CASE Tick
  <2>1. /\ setback' = setback /\ Over' = Over /\ Old' = Old
        /\ UNCHANGED <<failures, life, queue, at, attempt, cuts, excused>>
    BY <1>2 DEF Tick, runs, Over, Old
  <2>3. /\ wait' \in [Inst -> Over..Most + MaxSetback]
        /\ owed' \in [Inst -> 0..Most]
    BY <1>1, <1>a, <1>2 DEF Tick, Greatest
  <2>4. age' \in [Inst -> -setback..Old]
    BY <1>1, <1>a, <1>2 DEF Tick, Least
  <2>5. TypeOK'
    BY <2>1, <2>3, <2>4 DEF IInv, TypeOK
  <2>6. WaitsAsAsked' /\ OwedIsWaited'
    BY <1>1, <1>a, <1>2, <2>1 DEF Tick, WaitsAsAsked, OwedIsWaited, Greatest
  <2>7. AttemptIsKnown'
    BY <2>1 DEF IInv, AttemptIsKnown
  <2>8. \A i \in Inst : owed[i] = 0 => owed'[i] = 0
    BY <1>a, <1>2 DEF Tick, Greatest
  <2>9. QueuedIsFree'
    BY <2>1, <2>8 DEF IInv, TypeOK, QueuedIsFree
  <2> QED
    BY <2>5, <2>6, <2>7, <2>9 DEF IInv
<1>3. CASE SetBack
  <2>1. /\ setback' = setback + 1 /\ setback' \in 0..MaxSetback
        /\ Over' = Over + 1 /\ Old' = Old - 1
        /\ UNCHANGED <<failures, life, queue, at, attempt, cuts, owed, excused>>
    BY <1>1, <1>3 DEF SetBack, runs, Over, Old
  <2>2. age' \in [Inst -> -setback'..Old'] /\ wait' \in [Inst -> Int]
    BY <1>1, <1>a, <1>3, <2>1 DEF SetBack
  <2>3. WaitsAsAsked' /\ OwedIsWaited'
    BY <1>1, <1>a, <1>3, <2>1 DEF SetBack, WaitsAsAsked, OwedIsWaited
  <2>4. wait' \in [Inst -> Over'..Most + MaxSetback]
    BY <1>1, <1>a, <1>3, <2>1, <2>2, <2>3 DEF SetBack, WaitsAsAsked
  <2>5. TypeOK'
    BY <2>1, <2>2, <2>4 DEF IInv, TypeOK
  <2>6. AttemptIsKnown' /\ QueuedIsFree'
    BY <2>1 DEF IInv, AttemptIsKnown, QueuedIsFree
  <2> QED
    BY <2>3, <2>5, <2>6 DEF IInv
<1> QED
  BY <1>2, <1>3

\* What is due is within no delay: what is owed is still waited for.
LEMMA DueIsFree == IInv => \A i \in DueNow : owed[i] = 0
<1> SUFFICES ASSUME IInv, NEW i \in DueNow PROVE owed[i] = 0
  OBVIOUS
<1>1. i \in Inst /\ wait[i] <= 0
  BY DEF DueNow, Due, Eligible
<1>2. wait[i] \in Int /\ owed[i] \in Nat
  BY <1>1, Numbers DEF IInv, TypeOK, Over
<1> QED
  BY <1>1, <1>2 DEF IInv, OwedIsWaited

\* The steps of a session that write no row.
LEMMA SessionKeeps ==
    ASSUME IInv, NEW s \in Session,
           \/ \E targets \in SUBSET Inst, force \in BOOLEAN :
                 Start(s, targets, force)
           \/ \E i \in Inst : Begin(s, i)
           \/ Timeout(s) \/ Cancelled(s)
    PROVE  IInv'
<1> USE Numbers
<1>1. /\ UNCHANGED <<age, wait, failures, owed, setback>>
      /\ Over' = Over /\ Old' = Old
  BY DEF Start, Begin, Timeout, Cancelled, Leave, status, Over, Old
<1>2. WaitsAsAsked' /\ OwedIsWaited'
  BY <1>1 DEF IInv, WaitsAsAsked, OwedIsWaited
<1>3. cuts' \in 0..MaxCuts
  BY DEF IInv, TypeOK, Start, Begin, Timeout, Cancelled, Leave
<1>4. /\ life'  \in [Session -> {"idle", "running", "left"}]
      /\ queue' \in [Session -> SUBSET Inst]
      /\ at'    \in [Session -> Inst \cup {NoInst}]
      /\ attempt' \in [Session -> 0..Many + 1]
      /\ excused' \in [Session -> SUBSET Inst]
      /\ AttemptIsKnown'
  <2> USE DEF IInv, TypeOK, AttemptIsKnown
  <2>1. CASE \E targets \in SUBSET Inst, force \in BOOLEAN :
                Start(s, targets, force)
    BY <2>1 DEF Start, DueNow
  <2>2. CASE \E i \in Inst : Begin(s, i)
    BY <2>2 DEF Begin
  <2>3. CASE Timeout(s)
    BY <2>3 DEF Timeout
  <2>4. CASE Cancelled(s)
    BY <2>4 DEF Cancelled, Leave
  <2> QED
    BY <2>1, <2>2, <2>3, <2>4
<1>5. TypeOK'
  BY <1>1, <1>3, <1>4 DEF IInv, TypeOK
<1>6. QueuedIsFree'
  <2> USE <1>1 DEF IInv, TypeOK, QueuedIsFree
  <2>1. ASSUME NEW targets \in SUBSET Inst, NEW force \in BOOLEAN,
               Start(s, targets, force)
        PROVE  QueuedIsFree'
    <3>1. \A i \in DueNow : owed[i] = 0
      BY DueIsFree
    <3>2. CASE force
      BY <2>1, <3>2 DEF Start
    <3>3. CASE ~force
      BY <2>1, <3>1, <3>3 DEF Start
    <3> QED
      BY <3>2, <3>3
  <2>3. CASE \E i \in Inst : Begin(s, i)
    BY <2>3 DEF Begin
  <2>4. CASE Timeout(s)
    BY <2>4 DEF Timeout
  <2>5. CASE Cancelled(s)
    BY <2>5 DEF Cancelled, Leave
  <2> QED
    BY <2>1, <2>3, <2>4, <2>5
<1> QED
  BY <1>2, <1>4, <1>5, <1>6 DEF IInv

\* A crash neither.
LEMMA CrashKeeps ==
    ASSUME IInv, Crash PROVE IInv'
<1>1. /\ UNCHANGED <<age, wait, failures, owed, setback>>
      /\ Over' = Over /\ Old' = Old
  BY DEF Crash, status, Over, Old
<1>2. WaitsAsAsked' /\ OwedIsWaited'
  BY <1>1 DEF IInv, WaitsAsAsked, OwedIsWaited
<1>3. TypeOK' /\ AttemptIsKnown' /\ QueuedIsFree'
  BY <1>1, Numbers DEF IInv, TypeOK, AttemptIsKnown, QueuedIsFree, Crash
<1> QED
  BY <1>2, <1>3 DEF IInv

\* An institution ends, well or not.
LEMMA EndKeeps ==
    ASSUME IInv, NEW s \in Session,
           Succeed(s) \/ \E fatal \in BOOLEAN : Fail(s, fatal)
    PROVE  IInv'
<1> USE Numbers
<1>1. /\ setback \in 0..MaxSetback /\ Over \in Int /\ Over <= 0
      /\ Old \in Nat /\ Over = setback - MaxSetback
  BY DEF IInv, TypeOK, Over, Old
<1>2. /\ UNCHANGED <<queue, setback, cuts>> /\ Over' = Over /\ Old' = Old
      /\ life'  \in [Session -> {"idle", "running", "left"}]
      /\ at'    \in [Session -> Inst \cup {NoInst}]
      /\ attempt' \in [Session -> 0..Many + 1]
      /\ AttemptIsKnown'
  BY DEF IInv, TypeOK, AttemptIsKnown, Succeed, Fail, Leave, Over, Old
<1> DEFINE i == at[s]
<1>3. i \in Inst /\ attempt[s] >= 1
  BY DEF IInv, TypeOK, AttemptIsKnown, Succeed, Fail
<1>4. CASE Succeed(s)
  <2>1. /\ age' = [age EXCEPT ![i] = 0] /\ wait' = [wait EXCEPT ![i] = Over]
        /\ owed' = [owed EXCEPT ![i] = 0]
        /\ failures' = [failures EXCEPT ![i] = 0] /\ excused' = excused
    BY <1>4 DEF Succeed
  <2>2. TypeOK'
    BY <1>1, <1>2, <1>3, <2>1 DEF IInv, TypeOK
  <2>3. WaitsAsAsked' /\ OwedIsWaited'
    BY <1>1, <1>2, <1>3, <2>1 DEF IInv, TypeOK, WaitsAsAsked, OwedIsWaited
  <2>4. QueuedIsFree'
    BY <1>2, <1>3, <2>1 DEF IInv, TypeOK, QueuedIsFree
  <2> QED
    BY <1>2, <2>2, <2>3, <2>4 DEF IInv
<1>5. ASSUME NEW fatal \in BOOLEAN, Fail(s, fatal) PROVE IInv'
  <2>1. Delay(s, fatal) \in 0..Most
    BY <1>3, DelayIsBounded DEF IInv
  <2>2. /\ wait' = [wait EXCEPT ![i] = Delay(s, fatal)]
        /\ owed' = [owed EXCEPT ![i] = Delay(s, fatal)]
        /\ failures' = [failures EXCEPT ![i] = Least(@ + 1, Many)]
        /\ age' = age
        /\ excused' = [r \in Session |-> excused[r] \cup ({i} \cap queue[r])]
    BY <1>5 DEF Fail, Cooldown
  <2>3. TypeOK'
    BY <1>1, <1>2, <1>3, <2>1, <2>2 DEF IInv, TypeOK, Least
  <2>4. WaitsAsAsked' /\ OwedIsWaited'
    BY <1>1, <1>2, <1>3, <2>1, <2>2 DEF IInv, TypeOK, WaitsAsAsked, OwedIsWaited
  <2>5. QueuedIsFree'
    BY <1>2, <1>3, <2>2 DEF IInv, TypeOK, QueuedIsFree
  <2> QED
    BY <1>2, <2>3, <2>4, <2>5 DEF IInv
<1> QED
  BY <1>4, <1>5

LEMMA NextIInv == IInv /\ [Next]_vars => IInv'
<1> SUFFICES ASSUME IInv, [Next]_vars PROVE IInv'
  OBVIOUS
<1>1. CASE UNCHANGED vars
  BY <1>1 DEF vars, status, runs, IInv, TypeOK, AttemptIsKnown, WaitsAsAsked,
              OwedIsWaited, QueuedIsFree, Over, Old
<1>2. CASE Tick \/ SetBack \/ Crash
  BY <1>2, ClockKeeps, CrashKeeps
<1>3. ASSUME NEW s \in Session, Proceed(s) \/ Timeout(s) PROVE IInv'
  BY <1>3, SessionKeeps, EndKeeps DEF Proceed
<1>4. ASSUME NEW s \in Session, NEW targets \in SUBSET Inst,
             NEW force \in BOOLEAN, Start(s, targets, force)
      PROVE  IInv'
  BY <1>4, SessionKeeps
<1> QED
  BY <1>1, <1>2, <1>3, <1>4 DEF Next, StartAll

LEMMA AlwaysIInv == Spec => []IInv
BY InitIInv, NextIInv, PTL DEF Spec

\* Types: every count, delay and attempt stays within the schedule, for every
\* schedule, in evaluate_staleness and _run_institution.
THEOREM SpecTypeOK == Spec => []TypeOK
<1>1. IInv => TypeOK
  BY DEF IInv
<1> QED
  BY <1>1, AlwaysIInv, PTL

\* The cooldown that _run_institution stores never holds an institution back
\* longer than its last failure asked for and the clock was set back by.
THEOREM SpecWaitsAsAsked == Spec => []WaitsAsAsked
<1>1. IInv => WaitsAsAsked
  BY DEF IInv
<1> QED
  BY <1>1, AlwaysIInv, PTL

\* No session begins an institution before the delay of its last failure has
\* passed, unless it was forced to or another session has failed the institution
\* since it looked: evaluate_staleness asks next_eligible first, what is owed is
\* still waited for, and a queue ages only by what others record.
THEOREM SpecRetriesKeepDistance == Spec => RetriesKeepDistance
<1>1. ASSUME IInv, NEW s \in Session, NEW i \in Inst, Begin(s, i)
      PROVE  owed[i] = 0 \/ i \in excused[s]
  BY <1>1 DEF Begin, IInv, QueuedIsFree
<1>2. IInv /\ [Next]_vars =>
        [ \A s \in Session, i \in Inst :
            Begin(s, i) => owed[i] = 0 \/ i \in excused[s] ]_vars
  BY <1>1
<1> QED
  BY <1>2, AlwaysIInv, PTL DEF Spec, RetriesKeepDistance

===============================================================================
