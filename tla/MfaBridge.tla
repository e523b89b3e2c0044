------------------------------ MODULE MfaBridge ------------------------------
(***************************************************************************)
(* The exchange of MFA codes between a connector that needs one and the    *)
(* user who types it into the dashboard (backend/mfa_bridge.py), with its  *)
(* two ends:                                                               *)
(*   - connector runs, started one after another by the refresh session    *)
(*     and abandoned, not stopped, when their institution's limit passes.  *)
(*     A run either blocks in wait_for_code itself (TSP) or lets a helper  *)
(*     thread wait while it polls the browser, where the user may answer   *)
(*     the challenge directly (myPay);                                     *)
(*   - POST /api/mfa/submit, which looks at the bridge twice, taking the   *)
(*     bridge's lock each time.                                            *)
(* The bridge is one slot: the institution waited for, a code, an event.   *)
(***************************************************************************)
EXTENDS Naturals, FiniteSets

CONSTANTS
    Run,          \* connector runs that come to an MFA challenge
    Institution,
    InstOf,       \* institution_id of a run
    Polling,      \* the runs that wait through a helper thread
    NoInst,       \* _pending_institution is None
    NoCode,       \* _pending_code is None
    NoRun,        \* the session awaits no run
    MaxCodes,     \* bound: codes accepted or about to be
    MaxAbandoned  \* bound: runs abandoned by the session

Code == [nth : 1..MaxCodes, for : Institution]

ASSUME BridgeAssumption ==
    /\ InstOf \in [Run -> Institution]
    /\ Polling \subseteq Run
    /\ NoInst \notin Institution /\ NoRun \notin Run
    /\ MaxCodes \in Nat /\ MaxAbandoned \in Nat
    /\ NoCode \notin Code

VARIABLES
    slot,       \* _pending_institution
    code,       \* _pending_code
    event,      \* _pending_event is set
    wait,       \* the thread of a run that is in wait_for_code
    got,        \* what wait_for_code returned to it
    conn,       \* the connector thread itself
    awaited,    \* the run the session waits for
    abandoned,  \* how many runs it abandoned
    checked,    \* institutions whose submit request passed is_pending
    accepted,   \* codes accepted so far
    since,      \* history: codes accepted before a run's wait began
    overlapped  \* history: two waits were under way at the same time

bridge  == <<slot, code, event>>
session == <<awaited, abandoned>>
user    == <<checked, accepted>>
history == <<since, overlapped>>
vars    == <<bridge, wait, got, conn, session, user, history>>

InWait == {"waiting", "woken", "late"}

TypeOK ==
    /\ slot \in Institution \cup {NoInst}
    /\ code \in Code \cup {NoCode}
    /\ event \in BOOLEAN
    /\ wait \in [Run -> InWait \cup {"none", "starting", "over"}]
    /\ got \in [Run -> Code \cup {NoCode}]
    /\ conn \in [Run -> {"none", "asking", "leaving", "over"}]
    /\ awaited \in Run \cup {NoRun}
    /\ abandoned \in 0..MaxAbandoned
    /\ checked \subseteq Institution
    /\ accepted \in 0..MaxCodes
    /\ since \in [Run -> 0..MaxCodes]
    /\ overlapped \in BOOLEAN

Init ==
    /\ slot = NoInst /\ code = NoCode /\ event = FALSE
    /\ wait = [r \in Run |-> "none"]
    /\ got  = [r \in Run |-> NoCode]
    /\ conn = [r \in Run |-> "none"]
    /\ awaited = NoRun /\ abandoned = 0
    /\ checked = {} /\ accepted = 0
    /\ since = [r \in Run |-> 0]
    /\ overlapped = FALSE

-------------------------------------------------------------------------------
(* The session and its connector runs.                                     *)

\* A run comes to its challenge: it calls wait_for_code, or starts the helper
\* thread that will.
Begin(r) ==
    /\ awaited = NoRun /\ conn[r] = "none"
    /\ awaited' = r
    /\ conn' = [conn EXCEPT ![r] = "asking"]
    /\ wait' = [wait EXCEPT ![r] = "starting"]
    /\ UNCHANGED <<bridge, got, abandoned, user, history>>

\* The institution's limit passed; the threads of the run stay.
Abandon(r) ==
    /\ awaited = r /\ abandoned < MaxAbandoned
    /\ awaited' = NoRun
    /\ abandoned' = abandoned + 1
    /\ UNCHANGED <<bridge, wait, got, conn, user, history>>

\* The challenge is over for the connector: it goes on, and its run ends.
RunEnds(r) ==
    /\ conn' = [conn EXCEPT ![r] = "over"]
    /\ awaited' = IF awaited = r THEN NoRun ELSE awaited

\* wait_for_code returned, or the polling loop found the helper done.
TakeAnswer(r) ==
    /\ conn[r] = "asking" /\ wait[r] = "over"
    /\ RunEnds(r)
    /\ UNCHANGED <<bridge, wait, got, abandoned, user, history>>

\* cancel_wait(institution)
CancelWait(i) ==
    IF slot = i THEN slot' = NoInst /\ code' = NoCode /\ event' = TRUE
                ELSE UNCHANGED bridge

\* The polling loop sees that the user answered in the browser.
BrowserAdvanced(r) ==
    /\ r \in Polling /\ conn[r] = "asking"
    /\ CancelWait(InstOf[r])
    /\ RunEnds(r)
    /\ UNCHANGED <<wait, got, abandoned, user, history>>

\* The polling loop's deadline: cancel, then look once more whether the
\* helper is done.
Deadline(r) ==
    /\ r \in Polling /\ conn[r] = "asking"
    /\ CancelWait(InstOf[r])
    /\ conn' = [conn EXCEPT ![r] = "leaving"]
    /\ UNCHANGED <<wait, got, session, user, history>>

Leave(r) ==
    /\ conn[r] = "leaving"
    /\ RunEnds(r)
    /\ UNCHANGED <<bridge, wait, got, abandoned, user, history>>

-------------------------------------------------------------------------------
(* wait_for_code, in the connector or its helper thread.                   *)

\* A wait that trusts whoever used the bridge last to have cleaned it.
ClearBridge_Forgotten == UNCHANGED <<code, event>>

ClearBridge == code' = NoCode /\ event' = FALSE

\* The first critical section.
Register(r) ==
    /\ wait[r] = "starting"
    /\ slot' = InstOf[r]
    /\ ClearBridge
    /\ wait' = [wait EXCEPT ![r] = "waiting"]
    /\ since' = [since EXCEPT ![r] = accepted]
    /\ overlapped' = (overlapped \/ \E q \in Run : wait[q] \in InWait)
    /\ UNCHANGED <<got, conn, session, user>>

\* The event was set while the thread waited for it.
Wake(r) ==
    /\ wait[r] = "waiting" /\ event
    /\ wait' = [wait EXCEPT ![r] = "woken"]
    /\ UNCHANGED <<bridge, got, conn, session, user, history>>

\* A wait without a limit.
TimeOut_Never(r) == FALSE

\* The limit passed with the event not set.
TimeOut(r) ==
    /\ wait[r] = "waiting" /\ ~event
    /\ wait' = [wait EXCEPT ![r] = "late"]
    /\ UNCHANGED <<bridge, got, conn, session, user, history>>

\* A wait that leaves the code, or the institution, behind.
EmptySlot_KeepsCode == slot' = NoInst /\ UNCHANGED code
EmptySlot_KeepsInst == code' = NoCode /\ UNCHANGED slot

EmptySlot == slot' = NoInst /\ code' = NoCode

\* The second critical section, whoever owns the slot by now.  A late thread
\* returns nothing, even if a code came in between.
Collect(r) ==
    /\ wait[r] \in {"woken", "late"}
    /\ got' = [got EXCEPT ![r] = IF wait[r] = "woken" THEN code ELSE NoCode]
    /\ EmptySlot
    /\ wait' = [wait EXCEPT ![r] = "over"]
    /\ UNCHANGED <<event, conn, session, user, history>>

-------------------------------------------------------------------------------
(* POST /api/mfa/submit.                                                   *)

\* is_pending(institution); otherwise the request is answered 409.
CheckPending(i) ==
    /\ slot = i /\ i \notin checked
    /\ accepted + Cardinality(checked) < MaxCodes
    /\ checked' = checked \cup {i}
    /\ UNCHANGED <<bridge, wait, got, conn, session, accepted, history>>

\* An endpoint that relies on the first look.
Accepts_Anyone(i) == slot # NoInst

Accepts(i) == slot = i

\* One that counts a code twice.
NextCode_Twice(i) == [nth |-> accepted + 2, for |-> i]

NextCode(i) == [nth |-> accepted + 1, for |-> i]

\* submit_code, under the lock; refused if the slot changed hands meanwhile.
SubmitCode(i) ==
    /\ i \in checked
    /\ checked' = checked \ {i}
    /\ IF Accepts(i)
       THEN /\ code' = NextCode(i)
            /\ event' = TRUE
            /\ accepted' = accepted + 1
       ELSE UNCHANGED <<code, event, accepted>>
    /\ UNCHANGED <<slot, wait, got, conn, session, history>>

\* Every run came to its end and nobody is about to submit.
Quiet ==
    /\ \A r \in Run : conn[r] = "over" /\ wait[r] = "over"
    /\ UNCHANGED vars

WaitStep(r) == Register(r) \/ Wake(r) \/ TimeOut(r) \/ Collect(r)

Next ==
    \/ \E r \in Run :
          \/ Begin(r) \/ Abandon(r) \/ TakeAnswer(r) \/ BrowserAdvanced(r)
          \/ Deadline(r) \/ Leave(r) \/ WaitStep(r)
    \/ \E i \in Institution : CheckPending(i) \/ SubmitCode(i)
    \/ Quiet

Spec == Init /\ [][Next]_vars

\* A thread in wait_for_code has a limit of its own.  Nobody has to answer,
\* in the dashboard or in the browser.
FairSpec == Spec /\ \A r \in Run : WF_vars(WaitStep(r))

-------------------------------------------------------------------------------
(* Properties.                                                             *)

\* No code is used for a challenge that started after the code was typed,
\* whatever else used the slot in between (wait_for_code clears the bridge).
CodesAreFresh == \A r \in Run : got[r] # NoCode => got[r].nth > since[r]

\* A code is handed to one waiter only, however many are woken by it: a one-
\* time code sent to two challenges would fail at one of them.
DeliveredOnce ==
    \A r, q \in Run : got[r] # NoCode /\ got[r] = got[q] => r = q

\* is_pending is only true while a thread of that institution is inside
\* wait_for_code: the endpoint never accepts a code nobody is going to read
\* or throw away.
PendingHasWaiter ==
    slot # NoInst => \E r \in Run : InstOf[r] = slot /\ wait[r] \in InWait

\* "Only one MFA session can be active at a time (serial connector
\* execution)": as long as that holds a wait returns codes typed for its own
\* institution only, although the endpoint looks at the slot twice.
SerialWaitsAreSafe ==
    ~overlapped => \A r \in Run : got[r] # NoCode => got[r].for = InstOf[r]

\* A wait ends, also when another one has taken the slot or cleared the event.
WaitsEnd == \A r \in Run : wait[r] = "starting" ~> wait[r] = "over"

-------------------------------------------------------------------------------
(* What the repository says and the code does not do.                      *)

\* mfa_bridge.py:20, of wait_for_code: "Block until a code is submitted for
\* this institution, or timeout."  Every code returned is for the institution.
CodeIsForInstitution ==
    \A r \in Run : got[r] # NoCode => got[r].for = InstOf[r]

===============================================================================
