---------------------------- MODULE MfaBridgeProofs ----------------------------
(***************************************************************************)
(* Theorems about MfaBridge, for any connector runs and any overlap of     *)
(* their waits.  The argument is about the numbers of the codes: the code  *)
(* in the slot is younger than every wait under way, because a wait clears *)
(* the slot when it begins, and younger than every code handed out,        *)
(* because a wait empties the slot when it ends.                           *)
(***************************************************************************)
EXTENDS MfaBridge, FiniteSetTheorems, TLAPS

(* Submissions never run out of numbers.                                   *)
Budget == IsFiniteSet(checked) /\ accepted + Cardinality(checked) <= MaxCodes

(* The code in the slot and the codes handed out, by their numbers.        *)
Numbered ==
    /\ \A r \in Run : since[r] <= accepted
    /\ code # NoCode =>
          /\ code.nth <= accepted
          /\ \A r \in Run : wait[r] \in InWait => code.nth > since[r]
    /\ \A r \in Run : got[r] # NoCode =>
          /\ wait[r] = "over"
          /\ got[r].nth <= accepted
          /\ code # NoCode => got[r].nth < code.nth

(* A run that has not come to its challenge has no wait.                   *)
NotBegun == \A r \in Run : conn[r] = "none" => wait[r] = "none"

BInv == TypeOK /\ Budget /\ NotBegun /\ Numbered /\ CodesAreFresh /\ DeliveredOnce
        /\ PendingHasWaiter

LEMMA BInvInit == Init => BInv
<1> SUFFICES ASSUME Init PROVE BInv
  OBVIOUS
<1>1. /\ wait \in [Run -> InWait \cup {"none", "starting", "over"}]
      /\ got \in [Run -> Code \cup {NoCode}]
      /\ conn \in [Run -> {"none", "asking", "leaving", "over"}]
      /\ since \in [Run -> 0..MaxCodes]
  BY BridgeAssumption DEF Init, InWait
<1>2. abandoned \in 0..MaxAbandoned /\ accepted \in 0..MaxCodes
  BY BridgeAssumption DEF Init
<1>3. /\ slot \in Institution \cup {NoInst} /\ code \in Code \cup {NoCode}
      /\ event \in BOOLEAN /\ awaited \in Run \cup {NoRun}
      /\ checked \subseteq Institution /\ overlapped \in BOOLEAN
  BY DEF Init
<1>4. TypeOK
  BY <1>1, <1>2, <1>3 DEF TypeOK
<1>5. Budget
  BY FS_EmptySet, BridgeAssumption DEF Init, Budget
<1>6. NotBegun /\ Numbered /\ CodesAreFresh /\ DeliveredOnce /\ PendingHasWaiter
  BY DEF Init, NotBegun, Numbered, CodesAreFresh, DeliveredOnce, PendingHasWaiter
<1> QED
  BY <1>4, <1>5, <1>6 DEF BInv

(* The steps of the session and of the connectors.                         *)
LEMMA ConnectorKeeps ==
    ASSUME BInv, NEW r \in Run,
           \/ Begin(r) \/ Abandon(r) \/ TakeAnswer(r) \/ BrowserAdvanced(r)
           \/ Deadline(r) \/ Leave(r)
    PROVE  BInv'
<1> USE BridgeAssumption
    DEF BInv, TypeOK, Budget, NotBegun, Numbered, CodesAreFresh, DeliveredOnce,
        PendingHasWaiter, bridge, session, user, history, InWait
<1>1. CASE Begin(r)
  BY <1>1 DEF Begin
<1>2. CASE Abandon(r)
  BY <1>2 DEF Abandon
<1>3. CASE TakeAnswer(r)
  BY <1>3 DEF TakeAnswer, RunEnds
<1>4. CASE BrowserAdvanced(r)
  BY <1>4 DEF BrowserAdvanced, RunEnds, CancelWait
<1>5. CASE Deadline(r)
  BY <1>5 DEF Deadline, CancelWait
<1>6. CASE Leave(r)
  BY <1>6 DEF Leave, RunEnds
<1> QED
  BY <1>1, <1>2, <1>3, <1>4, <1>5, <1>6

(* The steps of wait_for_code.                                             *)
LEMMA WaitKeeps ==
    ASSUME BInv, NEW r \in Run, WaitStep(r)
    PROVE  BInv'
<1> USE BridgeAssumption
    DEF BInv, TypeOK, Budget, NotBegun, Numbered, CodesAreFresh, DeliveredOnce,
        PendingHasWaiter, bridge, session, user, history, InWait
<1>1. CASE Register(r)
  <2>1. /\ slot' = InstOf[r] /\ code' = NoCode /\ event' = FALSE
        /\ wait[r] = "starting" /\ wait' = [wait EXCEPT ![r] = "waiting"]
        /\ since' = [since EXCEPT ![r] = accepted]
        /\ overlapped' \in BOOLEAN
        /\ UNCHANGED <<got, conn, awaited, abandoned, checked, accepted>>
    BY <1>1 DEF Register, ClearBridge
  <2>2. TypeOK'
    BY <2>1
  <2>3. Numbered'
    BY <2>1
  <2>4. CodesAreFresh' /\ DeliveredOnce' /\ PendingHasWaiter'
    BY <2>1
  <2> QED
    BY <2>1, <2>2, <2>3, <2>4
<1>2. CASE Wake(r)
  BY <1>2 DEF Wake
<1>3. CASE TimeOut(r)
  BY <1>3 DEF TimeOut
<1>4. CASE Collect(r)
  <2>1. /\ slot' = NoInst /\ code' = NoCode /\ event' = event
        /\ wait[r] \in InWait /\ wait' = [wait EXCEPT ![r] = "over"]
        /\ UNCHANGED <<conn, awaited, abandoned, checked, accepted, since,
                       overlapped>>
    BY <1>4 DEF Collect, EmptySlot
  <2>2. PICK c \in {code, NoCode} : got' = [got EXCEPT ![r] = c]
    BY <1>4 DEF Collect
  <2>3. TypeOK'
    BY <2>1, <2>2
  <2>4. \A q \in Run : got[q] # NoCode /\ code # NoCode => got[q] # code
    BY DEF Code
  <2>5. Numbered' /\ NotBegun'
    BY <2>1, <2>2
  <2>6. CodesAreFresh'
    BY <2>1, <2>2
  <2>7. DeliveredOnce'
    BY <2>1, <2>2, <2>4
  <2> QED
    BY <2>1, <2>3, <2>5, <2>6, <2>7
<1> QED
  BY <1>1, <1>2, <1>3, <1>4 DEF WaitStep

(* The steps of the endpoint.                                              *)
LEMMA SubmitKeeps ==
    ASSUME BInv, NEW i \in Institution, CheckPending(i) \/ SubmitCode(i)
    PROVE  BInv'
<1> USE BridgeAssumption
    DEF BInv, TypeOK, Budget, NotBegun, Numbered, CodesAreFresh, DeliveredOnce,
        PendingHasWaiter, bridge, session, history, InWait
<1>1. CASE CheckPending(i)
  <2>1. IsFiniteSet(checked') /\ Cardinality(checked') = Cardinality(checked) + 1
    BY <1>1, FS_AddElement DEF CheckPending
  <2>2. Cardinality(checked) \in Nat
    BY FS_CardinalityType
  <2>3. Budget'
    BY <1>1, <2>1, <2>2 DEF CheckPending
  <2> QED
    BY <1>1, <2>3 DEF CheckPending
<1>2. CASE SubmitCode(i)
  <2>1. /\ IsFiniteSet(checked')
        /\ Cardinality(checked') = Cardinality(checked) - 1
        /\ Cardinality(checked) \in Nat /\ Cardinality(checked') \in Nat
    BY <1>2, FS_RemoveElement, FS_CardinalityType DEF SubmitCode
  <2>2. accepted + 1 \in 1..MaxCodes
    BY <2>1
  <2>3. CASE Accepts(i)
    <3>1. /\ code' = [nth |-> accepted + 1, for |-> i]
          /\ accepted' = accepted + 1 /\ checked' = checked \ {i}
          /\ UNCHANGED <<slot, wait, got, conn, awaited, abandoned, since,
                         overlapped>>
      BY <1>2, <2>3 DEF SubmitCode, NextCode
    <3>2. code' \in Code /\ code'.nth = accepted + 1 /\ code' # NoCode
      BY <2>2, <3>1 DEF Code
    <3>3. TypeOK'
      BY <1>2, <2>2, <2>3, <3>1, <3>2 DEF SubmitCode
    <3>4. Budget'
      BY <2>1, <3>1
    <3>5. Numbered'
      BY <2>2, <3>1, <3>2 DEF Code
    <3> QED
      BY <3>1, <3>3, <3>4, <3>5
  <2>4. CASE ~Accepts(i)
    BY <1>2, <2>1, <2>4 DEF SubmitCode
  <2> QED
    BY <2>3, <2>4
<1> QED
  BY <1>1, <1>2

LEMMA BInvNext == BInv /\ [Next]_vars => BInv'
<1> SUFFICES ASSUME BInv, [Next]_vars PROVE BInv'
  OBVIOUS
<1>1. CASE UNCHANGED vars
  BY <1>1 DEF BInv, TypeOK, Budget, NotBegun, Numbered, CodesAreFresh,
     DeliveredOnce, PendingHasWaiter, vars, bridge, session, user, history
<1> QED
  BY <1>1, ConnectorKeeps, WaitKeeps, SubmitKeeps DEF Next, Quiet

LEMMA BInvAlways == Spec => []BInv
  BY BInvInit, BInvNext, PTL DEF Spec

-------------------------------------------------------------------------------
(* The theorems.                                                           *)

\* Every variable of the bridge and of its two ends stays within its type.
THEOREM BridgeTypes == Spec => []TypeOK
<1>1. BInv => TypeOK
  BY DEF BInv
<1> QED
  BY <1>1, BInvAlways, PTL

\* wait_for_code never returns a code typed before the wait began.
THEOREM FreshCodes == Spec => []CodesAreFresh
<1>1. BInv => CodesAreFresh
  BY DEF BInv
<1> QED
  BY <1>1, BInvAlways, PTL

\* However many waits overlap, a code is returned by one of them at most.
THEOREM OneDelivery == Spec => []DeliveredOnce
<1>1. BInv => DeliveredOnce
  BY DEF BInv
<1> QED
  BY <1>1, BInvAlways, PTL

\* The bridge is pending for an institution only while one of its waits is
\* under way.
THEOREM NoOrphanedPrompt == Spec => []PendingHasWaiter
<1>1. BInv => PendingHasWaiter
  BY DEF BInv
<1> QED
  BY <1>1, BInvAlways, PTL

-------------------------------------------------------------------------------
(* Waits that do not overlap.                                              *)

(* Without an overlap there is one wait, and the slot belongs to it: a code *)
(* is accepted for the slot's institution only.                            *)
Serial ==
    /\ ~overlapped => \A r, q \in Run :
          wait[r] \in InWait /\ wait[q] \in InWait => r = q
    /\ code # NoCode => code.for = slot
    /\ SerialWaitsAreSafe

SerialInv == BInv /\ Serial

LEMMA SerialInit == Init => Serial
  BY DEF Init, Serial, SerialWaitsAreSafe, InWait

LEMMA SerialConnector ==
    ASSUME SerialInv, NEW r \in Run,
           \/ Begin(r) \/ Abandon(r) \/ TakeAnswer(r) \/ BrowserAdvanced(r)
           \/ Deadline(r) \/ Leave(r)
    PROVE  Serial'
<1>1. CASE \/ Begin(r) \/ Abandon(r) \/ TakeAnswer(r) \/ Leave(r)
  <2>1. /\ UNCHANGED <<slot, code, got, overlapped>>
        /\ \A q \in Run : wait'[q] \in InWait <=> wait[q] \in InWait
    BY <1>1 DEF Begin, Abandon, TakeAnswer, Leave, RunEnds, SerialInv, BInv, TypeOK,
       NotBegun, bridge, history, InWait
  <2> QED
    BY <2>1 DEF SerialInv, Serial, SerialWaitsAreSafe
<1>2. CASE BrowserAdvanced(r) \/ Deadline(r)
  <2>1. UNCHANGED <<wait, got, overlapped>> /\ CancelWait(InstOf[r])
    BY <1>2 DEF BrowserAdvanced, Deadline, history
  <2> QED
    BY <2>1 DEF SerialInv, Serial, SerialWaitsAreSafe, CancelWait, bridge
<1> QED
  BY <1>1, <1>2

LEMMA SerialWait ==
    ASSUME SerialInv, NEW r \in Run, WaitStep(r)
    PROVE  Serial'
<1> USE DEF SerialInv, Serial, SerialWaitsAreSafe
<1>1. CASE Register(r)
  <2>1. /\ code' = NoCode /\ UNCHANGED got
        /\ wait' = [wait EXCEPT ![r] = "waiting"]
        /\ overlapped' = (overlapped \/ \E q \in Run : wait[q] \in InWait)
    BY <1>1 DEF Register, ClearBridge
  <2>2. ~overlapped' => ~overlapped /\ \A q \in Run : wait[q] \notin InWait
    BY <2>1, Zenon
  <2>3. \A q \in Run : q # r => wait'[q] = wait[q]
    BY <2>1 DEF BInv, TypeOK
  <2> QED
    BY <2>1, <2>2, <2>3
<1>2. CASE Wake(r) \/ TimeOut(r)
  <2>1. /\ UNCHANGED <<slot, code, got, overlapped>>
        /\ \A q \in Run : wait'[q] \in InWait <=> wait[q] \in InWait
    BY <1>2 DEF Wake, TimeOut, BInv, TypeOK, bridge, history, InWait
  <2> QED
    BY <2>1
<1>3. CASE Collect(r)
  <2>1. /\ code' = NoCode /\ UNCHANGED overlapped
        /\ wait[r] \in InWait /\ wait' = [wait EXCEPT ![r] = "over"]
    BY <1>3 DEF Collect, EmptySlot, history, InWait
  <2>2. PICK c \in {code, NoCode} : got' = [got EXCEPT ![r] = c]
    BY <1>3 DEF Collect
  <2>3. \A q \in Run : wait'[q] \in InWait => wait[q] \in InWait
    BY <2>1 DEF BInv, TypeOK, InWait
  <2>4. ASSUME ~overlapped, c # NoCode PROVE c.for = InstOf[r]
    <3>1. c = code /\ code.for = slot
      BY <2>4
    <3>2. slot # NoInst
      BY <2>4, <3>1, BridgeAssumption DEF BInv, TypeOK, Code
    <3>3. PICK q \in Run : InstOf[q] = slot /\ wait[q] \in InWait
      BY <3>2 DEF BInv, PendingHasWaiter
    <3>4. q = r
      BY <2>1, <2>4, <3>3
    <3> QED
      BY <3>1, <3>3, <3>4
  <2>5. SerialWaitsAreSafe'
    BY <2>1, <2>2, <2>4 DEF BInv, TypeOK
  <2> QED
    BY <2>1, <2>3, <2>5
<1> QED
  BY <1>1, <1>2, <1>3 DEF WaitStep

LEMMA SerialSubmit ==
    ASSUME SerialInv, NEW i \in Institution, CheckPending(i) \/ SubmitCode(i)
    PROVE  Serial'
<1>1. UNCHANGED <<slot, wait, got, overlapped>>
  BY DEF CheckPending, SubmitCode, bridge, history
<1>2. code' # NoCode => code'.for = slot
  BY DEF CheckPending, SubmitCode, Accepts, NextCode, bridge, SerialInv, Serial
<1> QED
  BY <1>1, <1>2 DEF SerialInv, Serial, SerialWaitsAreSafe

LEMMA SerialNext == SerialInv /\ [Next]_vars => SerialInv'
<1> SUFFICES ASSUME SerialInv, [Next]_vars PROVE Serial'
  BY BInvNext DEF SerialInv
<1>1. CASE UNCHANGED vars
  BY <1>1 DEF SerialInv, Serial, SerialWaitsAreSafe, vars, bridge, history
<1> QED
  BY <1>1, SerialConnector, SerialWait, SerialSubmit DEF Next, Quiet

\* As long as waits do not overlap, wait_for_code returns codes typed for its
\* own institution only, also if the slot was emptied and taken again between
\* the two looks of the endpoint.
THEOREM SerialWaitsSafe == Spec => []SerialWaitsAreSafe
<1>1. Init => SerialInv
  BY BInvInit, SerialInit DEF SerialInv
<1>2. SerialInv => SerialWaitsAreSafe
  BY DEF SerialInv, Serial
<1> QED
  BY <1>1, <1>2, SerialNext, PTL DEF Spec
===============================================================================
