---------------------------- MODULE RefreshSchedule ----------------------------
(***************************************************************************)
(* When an institution is refreshed: the staleness rule, the cooldown      *)
(* after a failure and the retry schedule of                               *)
(* backend/refresh_orchestrator.py, over the rows of                       *)
(* institution_refresh_status (dal/refresh_log.py).                        *)
(*                                                                         *)
(* RefreshSession models how a session runs and leaves out the clock; this *)
(* module keeps the clock and of a session only what it decides and writes.*)
(* Nobody sleeps until a retry: a failure stores next_eligible, and the    *)
(* session of a later request finds the institution due.  A session is cut *)
(* off by its wall-clock limit and goes on beside its successor with the   *)
(* institution it has in hand.                                             *)
(*                                                                         *)
(* Times are kept as differences to the clock, which may be set back.      *)
(***************************************************************************)
EXTENDS Integers, Sequences

CONSTANTS
    Inst,
    Session,      \* numbers for sessions that run at the same time
    NoInst,
    Interval,     \* refresh_interval_hours
    Backoff,      \* backoff_schedule
    MaxRetries,   \* max_retries
    MaxSetback,   \* bound: by how much the clock is set back in all
    MaxCuts       \* bound: timeouts of a session and ends of the process

Last == Backoff[Len(Backoff)]
Most == 2 * Last

ASSUME ScheduleAssumption ==
    /\ Session \subseteq Nat
    /\ NoInst \notin Inst
    /\ Interval \in Nat \ {0}
    /\ Backoff \in Seq(Nat \ {0}) /\ Backoff # <<>>
    /\ \A n \in 1..Len(Backoff) : Backoff[n] <= Last
    /\ MaxRetries \in Nat /\ MaxSetback \in Nat /\ MaxCuts \in Nat

VARIABLES
    (* institution_refresh_status *)
    age,       \* now - last_success; Old when there is none
    wait,      \* next_eligible - now; Over when there is none
    failures,  \* consecutive_failures
    (* the sessions *)
    life,      \* "idle", "running" under the lock, or "left" after a timeout
    queue,     \* stale_institutions it has not come to
    at,        \* the institution in progress
    attempt,   \* attempt, as _run_institution read it
    (* the environment, and what the properties remember *)
    setback,   \* by how much the clock has been set back
    cuts,      \* how often sessions were cut off
    owed,      \* true time until the delay of the last failure has passed
    excused    \* what a session has queued within a delay: it was forced to,
               \* or another session has failed it since it looked

status == <<age, wait, failures>>
runs   == <<life, queue, at, attempt>>
vars   == <<status, runs, setback, cuts, owed, excused>>

\* An age that never counts as fresh again, and a wait that is over for good,
\* whatever the clock is still set back by.
Old  == Interval + MaxSetback - setback
Over == setback - MaxSetback

\* A count above this one is treated like it.
Many == IF MaxRetries > Len(Backoff) THEN MaxRetries + 1 ELSE Len(Backoff) + 1

Least(m, n) == IF m < n THEN m ELSE n
Greatest(m, n) == IF m > n THEN m ELSE n

TypeOK ==
    /\ age      \in [Inst -> -setback..Old]
    /\ wait     \in [Inst -> Over..Most + MaxSetback]
    /\ failures \in [Inst -> 0..Many]
    /\ life     \in [Session -> {"idle", "running", "left"}]
    /\ queue    \in [Session -> SUBSET Inst]
    /\ at       \in [Session -> Inst \cup {NoInst}]
    /\ attempt  \in [Session -> 0..Many + 1]
    /\ setback  \in 0..MaxSetback
    /\ cuts \in 0..MaxCuts
    /\ owed     \in [Inst -> 0..Most]
    /\ excused  \in [Session -> SUBSET Inst]

Init ==
    /\ setback = 0 /\ cuts = 0
    /\ age      = [i \in Inst |-> Old]
    /\ wait     = [i \in Inst |-> Over]
    /\ failures = [i \in Inst |-> 0]
    /\ life     = [s \in Session |-> "idle"]
    /\ queue    = [s \in Session |-> {}]
    /\ at       = [s \in Session |-> NoInst]
    /\ attempt  = [s \in Session |-> 0]
    /\ owed     = [i \in Inst |-> 0]
    /\ excused  = [s \in Session |-> {}]

-------------------------------------------------------------------------------
(* The clock.                                                              *)

Tick ==
    /\ age'  = [i \in Inst |-> Least(age[i] + 1, Old)]
    /\ wait' = [i \in Inst |-> Greatest(wait[i] - 1, Over)]
    /\ owed' = [i \in Inst |-> Greatest(owed[i] - 1, 0)]
    /\ UNCHANGED <<failures, runs, setback, cuts, excused>>

\* External: someone corrects the clock of the machine.
SetBack ==
    /\ setback < MaxSetback
    /\ setback' = setback + 1
    /\ age'  = [i \in Inst |-> age[i] - 1]
    /\ wait' = [i \in Inst |-> wait[i] + 1]
    /\ UNCHANGED <<failures, runs, cuts, owed, excused>>

-------------------------------------------------------------------------------
(* evaluate_staleness.                                                     *)

Eligible(i) == wait[i] <= 0

\* A last_success in the future counts as stale.
Stale(i) == age[i] >= Interval \/ age[i] < 0

\* The rules the other way round: what never succeeded skips the cooldown.
Due_StaleFirst(i) == age[i] = Old \/ (Eligible(i) /\ Stale(i))

\* Given up once, given up for good.
Due_GivesUp(i) == Eligible(i) /\ Stale(i) /\ failures[i] <= MaxRetries

Due(i) == Eligible(i) /\ Stale(i)

DueNow == { i \in Inst : Due(i) }

-------------------------------------------------------------------------------
(* RefreshSession.                                                         *)

\* A session takes what is due of its targets; all of them if forced.  When
\* that is nothing it is over at once.  It gets the lowest number that is free.
Start(s, targets, force) ==
    /\ \A r \in Session : life[r] # "running"
    /\ life[s] = "idle" /\ \A r \in Session : life[r] = "idle" => s <= r
    /\ queue' = [queue EXCEPT ![s] = IF force THEN targets
                                     ELSE targets \cap DueNow]
    /\ queue'[s] # {}
    /\ life' = [life EXCEPT ![s] = "running"]
    /\ excused' = [excused EXCEPT ![s] =
                      IF force THEN { i \in targets : owed[i] > 0 } ELSE {}]
    /\ UNCHANGED <<status, at, attempt, setback, cuts, owed>>

StartAll(s) == Start(s, Inst, FALSE)

\* _run_institution reads consecutive_failures; at next_eligible nobody looks
\* again.
Begin(s, i) ==
    /\ life[s] = "running" /\ at[s] = NoInst /\ i \in queue[s]
    /\ queue' = [queue EXCEPT ![s] = @ \ {i}]
    /\ at' = [at EXCEPT ![s] = i]
    /\ attempt' = [attempt EXCEPT ![s] = failures[i] + 1]
    /\ excused' = [excused EXCEPT ![s] = @ \ {i}]
    /\ UNCHANGED <<status, life, setback, cuts, owed>>

\* After its last institution the session is over.
Leave(s) ==
    /\ at' = [at EXCEPT ![s] = NoInst]
    /\ attempt' = [attempt EXCEPT ![s] = 0]
    /\ life' = [life EXCEPT ![s] = IF queue[s] = {} THEN "idle" ELSE @]
    /\ UNCHANGED <<queue, setback, cuts>>

Succeed(s) ==
    LET i == at[s] IN
    /\ i # NoInst
    /\ age'      = [age EXCEPT ![i] = 0]
    /\ failures' = [failures EXCEPT ![i] = 0]
    /\ wait'     = [wait EXCEPT ![i] = Over]
    /\ owed'     = [owed EXCEPT ![i] = 0]
    /\ UNCHANGED excused
    /\ Leave(s)

\* A delay that grows with every failure.
Delay_Grows(s, fatal) == attempt[s] * Last

\* The schedule, its last delay from there on, and twice that when the session
\* gives up: for a fatal error, or because the retries are used up.
Delay(s, fatal) ==
    IF fatal \/ attempt[s] > MaxRetries THEN Most
    ELSE Backoff[Least(attempt[s], Len(Backoff))]

\* A delay that is added to the one before.
Cooldown_Adds(s, fatal) == Greatest(wait[at[s]], 0) + Delay(s, fatal)

Cooldown(s, fatal) == Delay(s, fatal)

Fail(s, fatal) ==
    LET i == at[s] IN
    /\ i # NoInst
    /\ failures' = [failures EXCEPT ![i] = Least(@ + 1, Many)]
    /\ wait'     = [wait EXCEPT ![i] = Cooldown(s, fatal)]
    /\ owed'     = [owed EXCEPT ![i] = Delay(s, fatal)]
    /\ excused'  = [r \in Session |-> excused[r] \cup ({i} \cap queue[r])]
    /\ UNCHANGED age
    /\ Leave(s)

\* The manager gives up and lets the lock go; the thread comes to its next
\* raise_if_cancelled once the institution in hand is done.
Timeout(s) ==
    /\ life[s] = "running" /\ cuts < MaxCuts
    /\ life' = [life EXCEPT ![s] = IF at[s] = NoInst THEN "idle" ELSE "left"]
    /\ queue' = [queue EXCEPT ![s] = {}]
    /\ excused' = [excused EXCEPT ![s] = {}]
    /\ cuts' = cuts + 1
    /\ UNCHANGED <<status, at, attempt, setback, owed>>

\* raise_if_cancelled before the worker function: nothing is written.
Cancelled(s) == life[s] = "left" /\ Leave(s) /\ UNCHANGED <<status, owed, excused>>

\* The process ends, and with it its daemon threads.
Crash ==
    /\ cuts < MaxCuts
    /\ life' = [s \in Session |-> "idle"]
    /\ queue' = [s \in Session |-> {}]
    /\ at' = [s \in Session |-> NoInst]
    /\ attempt' = [s \in Session |-> 0]
    /\ excused' = [s \in Session |-> {}]
    /\ cuts' = cuts + 1
    /\ UNCHANGED <<status, setback, owed>>

Proceed(s) ==
    \/ \E i \in Inst : Begin(s, i)
    \/ Succeed(s) \/ Cancelled(s)
    \/ \E fatal \in BOOLEAN : Fail(s, fatal)

Next ==
    \/ Tick \/ SetBack \/ Crash
    \/ \E s \in Session :
          \/ StartAll(s)
          \/ \E targets \in SUBSET Inst, force \in BOOLEAN :
                Start(s, targets, force)
          \/ Proceed(s) \/ Timeout(s)

\* Time passes, and every institution ends, if only by its own time limit.
\* That someone asks for a refresh of everything again and again, and gets in
\* between other requests, is not the code's doing but its use.
Fairness ==
    /\ WF_vars(Tick)
    /\ \A s \in Session : WF_vars(Proceed(s))
    /\ SF_vars(\E s \in Session : StartAll(s))

Spec     == Init /\ [][Next]_vars
FairSpec == Spec /\ Fairness

-------------------------------------------------------------------------------
(* Properties.                                                             *)

\* Nothing is retried early, save for two reasons.  When a session begins an
\* institution, the delay that the last failure asked for has passed in true
\* time, however the clock was set back and whichever session failed -- unless
\* the session was forced to take it within the delay, or the failure came from
\* a session left behind, after this one had looked what is due: it looks once.
RetriesKeepDistance ==
    [][ \A s \in Session, i \in Inst :
          Begin(s, i) => owed[i] = 0 \/ i \in excused[s] ]_vars

\* And nothing waits longer than it was asked to: at any time, what is left of
\* the wait is at most what is left of the delay that the last failure asked
\* for and what the clock was set back by, and nothing after a success.
WaitsAsAsked == \A i \in Inst : wait[i] <= owed[i] + setback

\* No institution is forgotten, however often it fails, whichever sessions
\* were cut off and whatever others are forced meanwhile: again and again it
\* is fresh or a session has it in hand.
NobodyIsForgotten ==
    \A i \in Inst : []<>(~Stale(i) \/ \E s \in Session : at[s] = i)

===============================================================================
