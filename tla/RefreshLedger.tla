---------------------------- MODULE RefreshLedger ----------------------------
(***************************************************************************)
(* What refreshing promises to those who read the database: a ledger of    *)
(* attempts.  At most one session is in charge at a time.  A session opens *)
(* at most one attempt per institution, one after another; an attempt is   *)
(* resolved at most once, and its resolution and the institution's failure *)
(* count change together; an attempt is resolved as good only when data of *)
(* the session is committed for the institution, and data is committed at  *)
(* most once and only for an attempt on record.  No threads, no states of  *)
(* a run, no crashes: those are RefreshSession's, which implements this.   *)
(***************************************************************************)
EXTENDS Naturals, FiniteSets

CONSTANTS Session, Institution

VARIABLES
    charge,   \* what a session is to the system: idle, acting, over
    attempt,  \* none, open, good or bad, per session and institution
    streak,   \* failures in a row of an institution
    saved     \* the sessions that committed data of an institution

vars == <<charge, attempt, streak, saved>>

Init ==
    /\ charge  = [s \in Session |-> "idle"]
    /\ attempt = [s \in Session |-> [i \in Institution |-> "none"]]
    /\ streak  = [i \in Institution |-> 0]
    /\ saved   = [i \in Institution |-> {}]

Take(s) ==
    /\ charge[s] = "idle"
    /\ \A t \in Session : charge[t] # "acting"
    /\ charge' = [charge EXCEPT ![s] = "acting"]
    /\ UNCHANGED <<attempt, streak, saved>>

\* The session lets go; what it left unfinished may still be recorded.
Drop(s) ==
    /\ charge[s] = "acting"
    /\ charge' = [charge EXCEPT ![s] = "over"]
    /\ UNCHANGED <<attempt, streak, saved>>

Open(s, i) ==
    /\ charge[s] # "idle"
    /\ attempt[s][i] = "none"
    /\ \A j \in Institution : attempt[s][j] # "open"
    /\ attempt' = [attempt EXCEPT ![s][i] = "open"]
    /\ UNCHANGED <<charge, streak, saved>>

Commit(s, i) ==
    /\ attempt[s][i] # "none"
    /\ s \notin saved[i]
    /\ saved' = [saved EXCEPT ![i] = @ \cup {s}]
    /\ UNCHANGED <<charge, attempt, streak>>

Resolve(s, i, how, failures) ==
    /\ attempt[s][i] = "open"
    /\ attempt' = [attempt EXCEPT ![s][i] = how]
    /\ streak' = [streak EXCEPT ![i] = failures]
    /\ UNCHANGED <<charge, saved>>

Succeed(s, i) == s \in saved[i] /\ Resolve(s, i, "good", 0)

Fail(s, i) == Resolve(s, i, "bad", streak[i] + 1)

Next ==
    \E s \in Session :
        \/ Take(s) \/ Drop(s)
        \/ \E i \in Institution :
              Open(s, i) \/ Commit(s, i) \/ Succeed(s, i) \/ Fail(s, i)

Spec == Init /\ [][Next]_vars
==============================================================================
