---------------------------- MODULE TxnStoreProofs ----------------------------
(***************************************************************************)
(* Theorems about TxnStore, for any number of writers, any purchases and   *)
(* any fragments of their descriptions: no identity is in the table more   *)
(* often than it was bought, what is posted stays posted, and a file that  *)
(* has been imported is in the table unless the fragments mix up its       *)
(* purchases.                                                              *)
(*                                                                         *)
(* The first holds because an index never exceeds the number of purchases  *)
(* with the same identity that came before, in whichever file; there are   *)
(* as many ids with such an index as there are purchases.  The second      *)
(* because there is one writer at a time, and its draft has every row that *)
(* is committed.  The third because what a writer sees only grows until its*)
(* file ends, and no two lines of the file have the same id.               *)
(***************************************************************************)
EXTENDS TxnStore, FiniteSetTheorems, TLAPS

(* The ids whose index is smaller than the number of purchases they name.  *)
Counted == { i \in Id : i.seq < Cardinality(BoughtAs(i.key)) }

AllCounted ==
    /\ DOMAIN rows \subseteq Counted
    /\ DOMAIN draft \subseteq Counted
    /\ \A w \in Worker : \A n \in DOMAIN file[w] : file[w][n].id \in Counted

(* What is committed is in the draft too.                                  *)
DraftExtends ==
    lock # Nobody =>
        \A i \in DOMAIN rows :
            /\ i \in DOMAIN draft
            /\ rows[i].status = "posted" => draft[i].status = "posted"

(* The row to be updated exists.                                           *)
UpdateExists ==
    \A w \in Worker, n \in Nat :
        plan[w] = "update" /\ IsNext(w, n) => file[w][n].id \in DOMAIN View(w)

IInv == TypeOK /\ AllCounted /\ DraftExtends /\ UpdateExists

LEMMA BankIsFinite ==
    ASSUME TypeOK, NEW S, S \subseteq DOMAIN bank
    PROVE  IsFiniteSet(S) /\ Cardinality(S) \in Nat
<1>1. DOMAIN bank = 1..Len(bank) /\ Len(bank) \in Nat
  BY DEF TypeOK
<1>2. IsFiniteSet(DOMAIN bank)
  BY <1>1, FS_Interval
<1> QED
  BY <1>2, FS_Subset, FS_CardinalityType

LEMMA EarlierIsStrict ==
    ASSUME NEW n \in Nat PROVE ~Earlier(n, n)
BY DEF Earlier

(* An index counts purchases of the same identity other than the one it is *)
(* for.                                                                    *)
LEMMA IndexIsCounted ==
    ASSUME TypeOK, NEW W \in SUBSET DOMAIN bank, NEW n \in W
    PROVE  TxnId(W, n) \in Counted
<1> DEFINE k == KeyOf(bank[n])
           B == BoughtAs(k)
           C == { m \in W : Earlier(m, n) /\ SameText(m, n) }
           D == { m \in W : /\ Earlier(m, n)
                            /\ CsvIndex(W, m) = 0
                            /\ SameKey(m, n) }
<1>1. n \in Nat /\ n \in DOMAIN bank /\ bank[n] \in Purchase
  BY StoreAssumption DEF TypeOK
<1>2. k \in Key
  BY <1>1 DEF Key
<1>3. n \in B /\ B \subseteq DOMAIN bank
  BY <1>1 DEF BoughtAs
<1>4. IsFiniteSet(B) /\ Cardinality(B) \in Nat
      /\ IsFiniteSet(B \ {n}) /\ Cardinality(B \ {n}) = Cardinality(B) - 1
  BY <1>3, BankIsFinite, FS_RemoveElement
<1>5. n \notin C /\ n \notin D
  BY <1>1, EarlierIsStrict
<1>6. C \subseteq B \ {n}
  BY <1>5 DEF SameText, BoughtAs, KeyOf
<1>7. D \subseteq B \ {n}
  BY <1>5 DEF SameKey, BoughtAs
<1>8. /\ Cardinality(C) \in Nat /\ Cardinality(C) < Cardinality(B)
      /\ Cardinality(D) \in Nat /\ Cardinality(D) < Cardinality(B)
  <2>1. /\ Cardinality(C) <= Cardinality(B \ {n})
        /\ Cardinality(D) <= Cardinality(B \ {n})
    BY <1>4, <1>6, <1>7, FS_Subset
  <2>2. Cardinality(C) \in Nat /\ Cardinality(D) \in Nat
    BY BankIsFinite
  <2> QED
    BY <1>4, <2>1, <2>2
<1>9. SequenceIndex(W, n) \in Nat /\ SequenceIndex(W, n) < Cardinality(B)
  BY <1>8 DEF SequenceIndex, CsvIndex
<1> QED
  BY <1>2, <1>9 DEF TxnId, Id, Counted

(* Of one identity there are at most as many ids with a counted index as   *)
(* there are purchases.                                                    *)
LEMMA CountedIdsAreFew ==
    ASSUME TypeOK, NEW T, NEW k \in Key, T \subseteq Id,
           \A i \in T : i.key = k /\ i \in Counted
    PROVE  Cardinality(T) <= Cardinality(BoughtAs(k))
<1> DEFINE c == Cardinality(BoughtAs(k))
           f == [i \in T |-> i.seq]
<1>1. c \in Nat
  BY BankIsFinite DEF BoughtAs
<1>2. IsFiniteSet(0..c - 1) /\ Cardinality(0..c - 1) = c
  <2> HIDE DEF c
  <2>1. 0 \in Int /\ c - 1 \in Int
    BY <1>1
  <2>2. /\ IsFiniteSet(0..c - 1)
        /\ Cardinality(0..c - 1) = IF 0 > c - 1 THEN 0 ELSE (c - 1) - 0 + 1
    BY <2>1, FS_Interval
  <2> QED
    BY <1>1, <2>2
<1>3. \A i \in T : i.seq \in 0..c - 1
  BY <1>1 DEF Id, Counted
<1>4. \A i, j \in T : i.seq = j.seq => i = j
  BY DEF Id
<1>5. f \in Injection(T, 0..c - 1)
  BY <1>3, <1>4 DEF Injection, IsInjective
<1> HIDE DEF f
<1>6. Cardinality(T) <= Cardinality(0..c - 1)
  BY <1>2, <1>5, FS_Injection
<1> QED
  BY <1>2, <1>6

LEMMA InitIInv == Init => IInv
<1> SUFFICES ASSUME Init PROVE IInv
  OBVIOUS
<1>1. TypeOK
  BY StoreAssumption DEF Init, TypeOK, None
<1>2. AllCounted /\ DraftExtends /\ UpdateExists
  BY DEF Init, AllCounted, DraftExtends, UpdateExists, None
<1> QED
  BY <1>1, <1>2 DEF IInv

(* A purchase more leaves every index counted.                             *)
LEMMA BuyKeeps ==
    ASSUME IInv, NEW p \in Kind, Buy(p) PROVE IInv'
<1>1. /\ UNCHANGED <<rows, lock, draft, file, todo, plan>>
      /\ bank \in Seq(Kind) /\ bank' = Append(bank, p) /\ Len(bank) < MaxTxns
  BY DEF Buy, store, work, IInv, TypeOK
<1>2. /\ bank' \in Seq(Kind) /\ Len(bank') <= MaxTxns
      /\ DOMAIN bank \subseteq DOMAIN bank'
      /\ \A n \in DOMAIN bank : bank'[n] = bank[n]
  BY <1>1, StoreAssumption
<1>3. TypeOK'
  BY <1>1, <1>2 DEF IInv, TypeOK
<1>4. ASSUME NEW k PROVE Cardinality(BoughtAs(k)) <= Cardinality(BoughtAs(k)')
                         /\ Cardinality(BoughtAs(k)) \in Nat
                         /\ Cardinality(BoughtAs(k)') \in Nat
  <2>1. DOMAIN bank' = 1..Len(bank') /\ Len(bank') \in Nat
    BY <1>2
  <2>2. IsFiniteSet(DOMAIN bank')
    BY <2>1, FS_Interval
  <2>3. BoughtAs(k)' \subseteq DOMAIN bank'
    BY DEF BoughtAs
  <2>4. IsFiniteSet(BoughtAs(k)')
    BY <2>2, <2>3, FS_Subset
  <2>5. BoughtAs(k) \subseteq BoughtAs(k)'
    BY <1>2 DEF BoughtAs
  <2>6. Cardinality(BoughtAs(k)') \in Nat /\ IsFiniteSet(BoughtAs(k))
    BY <2>4, <2>5, FS_Subset, FS_CardinalityType
  <2> QED
    BY <2>4, <2>5, <2>6, FS_Subset, FS_CardinalityType
<1>5. Counted \subseteq Counted'
  BY <1>4 DEF Counted, Id
<1>6. AllCounted'
  BY <1>1, <1>5 DEF IInv, TypeOK, AllCounted, Item
<1>7. DraftExtends' /\ UpdateExists'
  BY <1>1 DEF IInv, DraftExtends, UpdateExists, IsNext, View, Earlier
<1> QED
  BY <1>3, <1>6, <1>7 DEF IInv

(* An idle writer takes a file whose ids are counted.                      *)
LEMMA TakeKeeps ==
    ASSUME IInv, NEW w \in Worker, Idle(w), NEW W \in SUBSET DOMAIN bank,
           NEW s \in [W -> Status],
           UNCHANGED <<bank, store, plan>>, todo' = [todo EXCEPT ![w] = W],
           file' = [file EXCEPT ![w] =
                       [n \in W |-> [id |-> TxnId(W, n),
                                     row |-> AsRow(bank[n], s[n])]]]
    PROVE  IInv'
<1>1. plan[w] = "none"
  BY DEF IInv, TypeOK, Idle, None
<1>2. \A n \in W : /\ TxnId(W, n) \in Counted
                    /\ AsRow(bank[n], s[n]) \in Row
  <2>1. \A n \in W : bank[n] \in Purchase
    BY StoreAssumption DEF IInv, TypeOK
  <2>2. TypeOK
    BY DEF IInv
  <2>3. \A n \in W : TxnId(W, n) \in Counted
    BY <2>2, IndexIsCounted
  <2>4. \A n \in W : AsRow(bank[n], s[n]) \in Row
    BY <2>1 DEF AsRow, Row, Purchase
  <2> QED
    BY <2>3, <2>4
<1>3. /\ UNCHANGED <<bank, rows, lock, draft, plan>>
      /\ DOMAIN file' = Worker /\ DOMAIN file'[w] = W
      /\ \A n \in W : file'[w][n] \in Item /\ file'[w][n].id \in Counted
      /\ \A v \in Worker \ {w} : file'[v] = file[v] /\ todo'[v] = todo[v]
      /\ todo' \in [Worker -> SUBSET DOMAIN bank] /\ todo'[w] = W
  <2>1. DOMAIN file = Worker /\ todo \in [Worker -> SUBSET DOMAIN bank]
    BY DEF IInv, TypeOK
  <2>2. /\ UNCHANGED <<bank, rows, lock, draft, plan>>
        /\ todo' \in [Worker -> SUBSET DOMAIN bank] /\ todo'[w] = W
        /\ \A v \in Worker \ {w} : file'[v] = file[v] /\ todo'[v] = todo[v]
    BY <2>1 DEF store
  <2>3. /\ DOMAIN file' = Worker
        /\ file'[w] = [n \in W |-> [id |-> TxnId(W, n),
                                   row |-> AsRow(bank[n], s[n])]]
    BY <2>1
  <2>4. \A n \in W : file'[w][n] = [id |-> TxnId(W, n),
                                    row |-> AsRow(bank[n], s[n])]
    BY <2>3
  <2>5. \A n \in W : file'[w][n] \in Item /\ file'[w][n].id \in Counted
    <3>1. ASSUME NEW x \in Counted, NEW r \in Row
          PROVE  [id |-> x, row |-> r] \in Item
      BY DEF Item, Counted
    <3> QED
      BY <1>2, <2>4, <3>1
  <2> QED
    BY <2>2, <2>3, <2>5
<1>4. TypeOK'
  BY <1>1, <1>3 DEF IInv, TypeOK
<1>5. AllCounted'
  <2>1. Counted' = Counted
    BY <1>3 DEF Counted, BoughtAs
  <2> QED
    BY <1>3, <2>1 DEF IInv, AllCounted
<1>6. DraftExtends'
  BY <1>3 DEF IInv, DraftExtends
<1>7. UpdateExists'
  BY <1>1, <1>3 DEF IInv, UpdateExists, IsNext, View, Earlier
<1> QED
  BY <1>4, <1>5, <1>6, <1>7 DEF IInv

LEMMA ExportKeeps ==
    ASSUME IInv, NEW w \in Worker, NEW d \in Day, Export(w, d) PROVE IInv'
<1> DEFINE W == { n \in DOMAIN bank : bank[n].day >= d }
           s == [n \in W |-> "posted"]
<1>1. s \in [W -> Status] /\ W \in SUBSET DOMAIN bank
  BY DEF Status
<1>2. /\ Idle(w) /\ UNCHANGED <<bank, store, plan>>
      /\ todo' = [todo EXCEPT ![w] = W]
      /\ file' = [file EXCEPT ![w] =
                     [n \in W |-> [id |-> TxnId(W, n),
                                   row |-> AsRow(bank[n], s[n])]]]
  BY DEF Export
<1> HIDE DEF W, s
<1> QED
  BY <1>1, <1>2, TakeKeeps

LEMMA EnterKeeps ==
    ASSUME IInv, NEW w \in Worker, NEW n \in Nat, NEW t \in Status,
           EnterByHand(w, n, t)
    PROVE  IInv'
<1> DEFINE W == {n}
           s == [m \in W |-> t]
<1>1. s \in [W -> Status] /\ W \in SUBSET DOMAIN bank
  BY DEF EnterByHand
<1>2. /\ Idle(w) /\ UNCHANGED <<bank, store, plan>>
      /\ todo' = [todo EXCEPT ![w] = W]
      /\ file' = [file EXCEPT ![w] =
                     [m \in W |-> [id |-> TxnId(W, m),
                                   row |-> AsRow(bank[m], s[m])]]]
  BY DEF EnterByHand
<1> HIDE DEF W, s
<1> QED
  BY <1>1, <1>2, TakeKeeps

(* One transaction is the next.                                            *)
LEMMA NextIsUnique ==
    ASSUME TypeOK, NEW w \in Worker, NEW m, NEW n, IsNext(w, m), IsNext(w, n)
    PROVE  m = n
<1>1. m \in Nat /\ n \in Nat
  BY DEF TypeOK, IsNext
<1> QED
  BY <1>1 DEF IsNext, Earlier

LEMMA LookKeeps ==
    ASSUME IInv, NEW w \in Worker, NEW n \in todo[w], Look(w, n) PROVE IInv'
<1>1. /\ UNCHANGED <<bank, rows, lock, draft, file>>
      /\ plan[w] = "none" /\ IsNext(w, n)
  BY DEF Look, Decide, store
<1>2. \A v \in Worker : View(v)' = View(v)
  BY <1>1 DEF View
<1>3. AllCounted' /\ DraftExtends'
  BY <1>1 DEF IInv, AllCounted, Counted, BoughtAs, DraftExtends
<1>4. ASSUME NEW p \in {"insert", "update"}, Decide(w, p),
             p = "update" => file[w][n].id \in DOMAIN View(w)
      PROVE  TypeOK' /\ UpdateExists'
  <2>1. todo' = todo /\ plan' = [plan EXCEPT ![w] = p]
    BY <1>4 DEF Decide
  <2>2. TypeOK'
    BY <1>1, <2>1 DEF IInv, TypeOK
  <2>3. ASSUME NEW v \in Worker, NEW m \in Nat, plan'[v] = "update",
               IsNext(v, m)'
        PROVE  file'[v][m].id \in DOMAIN View(v)'
    <3>1. IsNext(v, m)
      BY <2>1, <2>3, <1>1 DEF IsNext, Earlier
    <3>2. CASE v = w
      <4>1. m = n
        BY <1>1, <3>1, <3>2, NextIsUnique DEF IInv
      <4>2. p = "update"
        BY <2>1, <2>3, <3>2 DEF IInv, TypeOK
      <4> QED
        BY <1>1, <1>2, <1>4, <3>2, <4>1, <4>2
    <3>3. CASE v # w
      BY <1>1, <1>2, <2>1, <2>3, <3>1, <3>3 DEF IInv, TypeOK, UpdateExists
    <3> QED
      BY <3>2, <3>3
  <2> QED
    BY <2>2, <2>3 DEF UpdateExists
<1>5. ASSUME todo' = [todo EXCEPT ![w] = @ \ {n}], UNCHANGED plan
      PROVE  TypeOK' /\ UpdateExists'
  <2>1. TypeOK'
    BY <1>1, <1>5 DEF IInv, TypeOK
  <2>2. UpdateExists'
    BY <1>1, <1>2, <1>5 DEF IInv, TypeOK, UpdateExists, IsNext, Earlier
  <2> QED
    BY <2>1, <2>2
<1> QED
  BY <1>3, <1>4, <1>5 DEF Look, IInv

(* What a writer reads extends what is committed.                          *)
LEMMA ViewExtendsRows ==
    ASSUME IInv, NEW w \in Worker
    PROVE  /\ \A i \in DOMAIN View(w) : i \in Id /\ View(w)[i] \in Row
           /\ DOMAIN View(w) \subseteq Counted
           /\ \A i \in DOMAIN rows :
                 /\ i \in DOMAIN View(w)
                 /\ rows[i].status = "posted" => View(w)[i].status = "posted"
BY StoreAssumption DEF IInv, TypeOK, AllCounted, DraftExtends, View

LEMMA MergedIsRow ==
    ASSUME NEW old \in Row, NEW new \in Row
    PROVE  /\ Merged(old, new) \in Row
           /\ old.status = "posted" => Merged(old, new).status = "posted"
BY DEF Merged, Row, Status

LEMMA WriteKeeps ==
    ASSUME IInv, NEW w \in Worker, NEW n \in todo[w], Write(w, n) PROVE IInv'
<1> DEFINE i == file[w][n].id
           new == file[w][n].row
           written == IF plan[w] = "insert" THEN new ELSE Merged(View(w)[i], new)
<1>1. /\ UNCHANGED <<bank, rows, file>> /\ lock' = w /\ lock \in {Nobody, w}
      /\ IsNext(w, n) /\ plan[w] # "none" /\ Free(w, i)
      /\ todo' = [todo EXCEPT ![w] = @ \ {n}]
      /\ plan' = [plan EXCEPT ![w] = "none"]
  BY DEF Write
<1>2. /\ DOMAIN draft' = DOMAIN View(w) \cup {i} /\ draft'[i] = written
      /\ \A j \in DOMAIN View(w) \ {i} : draft'[j] = View(w)[j]
  BY DEF Write
<1>3. /\ n \in Nat /\ n \in DOMAIN file[w] /\ file[w][n] \in Item
      /\ i \in Counted /\ i \in Id /\ new \in Row
  BY <1>1 DEF IInv, TypeOK, AllCounted, IsNext, Item
<1>4. plan[w] = "update" => i \in DOMAIN View(w)
  BY <1>1, <1>3 DEF IInv, UpdateExists
<1>5. plan[w] \in {"insert", "update"}
  BY <1>1 DEF IInv, TypeOK
<1>6. written \in Row
  BY <1>3, <1>4, <1>5, ViewExtendsRows, MergedIsRow
<1>7. ASSUME i \in DOMAIN rows, rows[i].status = "posted"
      PROVE  written.status = "posted"
  <2>1. i \in DOMAIN View(w) /\ View(w)[i].status = "posted"
    BY <1>7, ViewExtendsRows
  <2>2. plan[w] = "update"
    BY <1>1, <1>5, <2>1 DEF Free
  <2> QED
    BY <1>3, <2>1, <2>2, ViewExtendsRows, MergedIsRow
<1> HIDE DEF written, i, new
<1>8. DOMAIN draft' \subseteq Id /\ \A j \in DOMAIN draft' : draft'[j] \in Row
  BY <1>2, <1>3, <1>6, ViewExtendsRows
<1>9. TypeOK'
  BY <1>1, <1>8 DEF IInv, TypeOK
<1>10. AllCounted'
  <2>1. Counted' = Counted
    BY <1>1 DEF Counted, BoughtAs
  <2>2. DOMAIN draft' \subseteq Counted
    BY <1>2, <1>3, ViewExtendsRows
  <2> QED
    BY <1>1, <2>1, <2>2 DEF IInv, AllCounted
<1>11. DraftExtends'
  <2>1. ASSUME NEW j \in DOMAIN rows
        PROVE  /\ j \in DOMAIN draft'
               /\ rows[j].status = "posted" => draft'[j].status = "posted"
    BY <1>2, <1>7, <2>1, ViewExtendsRows
  <2> QED
    BY <1>1, <2>1 DEF DraftExtends
<1>12. UpdateExists'
  <2>1. ASSUME NEW v \in Worker, NEW m \in Nat, plan'[v] = "update",
               IsNext(v, m)'
        PROVE  file'[v][m].id \in DOMAIN View(v)'
    <3>1. v # w
      BY <1>1, <2>1 DEF IInv, TypeOK
    <3>2. plan[v] = "update" /\ IsNext(v, m) /\ View(v)' = View(v)
      BY <1>1, <2>1, <3>1, StoreAssumption
      DEF IInv, TypeOK, IsNext, Earlier, View
    <3> QED
      BY <1>1, <3>2 DEF IInv, UpdateExists
  <2> QED
    BY <2>1 DEF UpdateExists
<1> QED
  BY <1>9, <1>10, <1>11, <1>12 DEF IInv

(* A file ends: what its writer sees is committed, or given up.            *)
LEMMA EndKeeps ==
    ASSUME IInv, NEW w \in Worker, Finish(w) \/ FailCsv(w) \/ Rollback(w)
    PROVE  IInv'
<1>1. /\ bank' = bank /\ Done(w) /\ rows' \in {rows, View(w)}
      /\ lock' = IF lock = w THEN Nobody ELSE lock
      /\ draft' = IF lock = w THEN None ELSE draft
  BY DEF Finish, FailCsv, Rollback, Commit, Done
<1>2. /\ file' = [file EXCEPT ![w] = None]
      /\ todo' = [todo EXCEPT ![w] = {}]
      /\ plan' = [plan EXCEPT ![w] = "none"]
  BY <1>1 DEF Done
<1>3. /\ \A i \in DOMAIN rows' : i \in Id /\ rows'[i] \in Row
      /\ DOMAIN rows' \subseteq Counted
      /\ DOMAIN rows \subseteq DOMAIN rows'
  BY <1>1, ViewExtendsRows DEF IInv, TypeOK, AllCounted
<1>4. TypeOK'
  BY <1>1, <1>2, <1>3 DEF IInv, TypeOK, None
<1>5. AllCounted'
  <2>1. Counted' = Counted
    BY <1>1 DEF Counted, BoughtAs
  <2>2. DOMAIN draft' \subseteq Counted
    BY <1>1 DEF IInv, AllCounted, None
  <2>3. \A v \in Worker : \A n \in DOMAIN file'[v] : file'[v][n].id \in Counted
    BY <1>2 DEF IInv, AllCounted, TypeOK, None
  <2> QED
    BY <1>3, <2>1, <2>2, <2>3 DEF AllCounted
<1>6. DraftExtends'
  BY <1>1 DEF IInv, DraftExtends, View
<1>7. UpdateExists'
  <2>1. ASSUME NEW v \in Worker, NEW m \in Nat, plan'[v] = "update",
               IsNext(v, m)'
        PROVE  file'[v][m].id \in DOMAIN View(v)'
    <3>1. v # w
      BY <1>2, <2>1 DEF IInv, TypeOK
    <3>2. plan[v] = "update" /\ IsNext(v, m) /\ file'[v] = file[v]
      BY <1>2, <2>1, <3>1 DEF IInv, TypeOK, IsNext, Earlier
    <3>3. file[v][m].id \in DOMAIN View(v)
      BY <3>2 DEF IInv, UpdateExists
    <3>4. DOMAIN View(v) \subseteq DOMAIN View(v)'
      BY <1>1, <1>3, <3>1, StoreAssumption DEF View, IInv
    <3> QED
      BY <3>2, <3>3, <3>4
  <2> QED
    BY <2>1 DEF UpdateExists
<1> QED
  BY <1>4, <1>5, <1>6, <1>7 DEF IInv

LEMMA NextIInv == IInv /\ [Next]_vars => IInv'
<1> SUFFICES ASSUME IInv, [Next]_vars PROVE IInv'
  OBVIOUS
<1>1. CASE UNCHANGED vars
  <2>1. UNCHANGED <<bank, rows, lock, draft, file, todo, plan>>
    BY <1>1 DEF vars, store, work
  <2>2. TypeOK'
    BY <2>1 DEF IInv, TypeOK
  <2>3. Counted' = Counted
    BY <2>1 DEF Counted, BoughtAs
  <2>4. AllCounted' /\ DraftExtends'
    BY <2>1, <2>3 DEF IInv, AllCounted, DraftExtends
  <2>5. UpdateExists'
    BY <2>1 DEF IInv, UpdateExists, IsNext, Earlier, View
  <2> QED
    BY <2>2, <2>4, <2>5 DEF IInv
<1>2. ASSUME NEW w \in Worker, Upsert(w) PROVE IInv'
  BY <1>2, LookKeeps, WriteKeeps, EndKeeps DEF Upsert
<1>3. 1..MaxTxns \subseteq Nat
  BY StoreAssumption
<1> QED
  BY <1>1, <1>2, <1>3, BuyKeeps, ExportKeeps, EnterKeeps DEF Next

LEMMA AlwaysIInv == Spec => []IInv
BY InitIInv, NextIInv, PTL DEF Spec

(* Types of the table, the draft and the files being upserted.             *)
THEOREM SpecTypeOK == Spec => []TypeOK
<1>1. IInv => TypeOK
  BY DEF IInv
<1> QED
  BY <1>1, AlwaysIInv, PTL

(* Whatever is imported again, half-way, side by side or by hand, the table*)
(* has at most one row for each purchase of an identity: the index of      *)
(* dataframe_to_txn_dicts and upsert_transactions stays below their number.*)
THEOREM SpecNothingTwice == Spec => []NothingTwice
<1>1. ASSUME IInv PROVE NothingTwice
  <2>1. ASSUME NEW k \in Key
        PROVE  Cardinality(StoredAs(k, rows)) <= Cardinality(BoughtAs(k))
    <3>1. \A i \in StoredAs(k, rows) : i.key = k /\ i \in Counted
      BY <1>1 DEF IInv, AllCounted, StoredAs
    <3>2. StoredAs(k, rows) \subseteq Id
      BY <1>1 DEF IInv, TypeOK, StoredAs
    <3>3. TypeOK
      BY <1>1 DEF IInv
    <3> HIDE DEF StoredAs
    <3> QED
      BY <3>1, <3>2, <3>3, CountedIdsAreFew
  <2> QED
    BY <2>1 DEF NothingTwice
<1> QED
  BY <1>1, AlwaysIInv, PTL

(* No import takes a posted row back or away, whichever transactions it    *)
(* overlaps with: a commit brings a draft that extends the table.          *)
THEOREM SpecPostedStays == Spec => PostedStays
<1>1. ASSUME IInv, [Next]_vars, NEW i \in DOMAIN rows,
             rows[i].status = "posted"
      PROVE  i \in DOMAIN rows' /\ rows'[i].status = "posted"
  <2>1. CASE rows' = rows
    BY <1>1, <2>1
  <2>2. CASE \E w \in Worker : rows' = View(w)
    BY <1>1, <2>2, ViewExtendsRows
  <2> QED
    BY <1>1, <2>1, <2>2
    DEF Next, Buy, Export, EnterByHand, Upsert, Look, Decide, Write, Finish,
        FailCsv, Commit, Rollback, store, vars
<1>2. IInv /\ [Next]_vars =>
        [ \A i \in DOMAIN rows :
            rows[i].status = "posted" =>
                i \in DOMAIN rows' /\ rows'[i].status = "posted" ]_vars
  BY <1>1
<1> QED
  BY <1>2, AlwaysIInv, PTL DEF Spec, PostedStays

-------------------------------------------------------------------------------
(* A file that has been upserted is in the table, if the first characters  *)
(* of their descriptions tell the purchases of a day apart: then the two   *)
(* ways to number equal purchases agree, so no two lines of a file have the*)
(* same id.                                                                *)

TextsApart == \A p, q \in Kind : KeyOf(p) = KeyOf(q) => p.text = q.text

LEMMA SameKeySameText ==
    ASSUME TextsApart, TypeOK, NEW m \in DOMAIN bank, NEW n \in DOMAIN bank
    PROVE  SameKey(m, n) <=> SameText(m, n)
<1>1. bank[m] \in Kind /\ bank[n] \in Kind
  BY DEF TypeOK
<1>2. KeyOf(bank[m]) = KeyOf(bank[n]) => bank[m].day = bank[n].day
  BY DEF KeyOf
<1> QED
  BY <1>1, <1>2 DEF TextsApart, SameKey, SameText, KeyOf

LEMMA IndexIsCsvIndex ==
    ASSUME TextsApart, TypeOK, NEW W \in SUBSET DOMAIN bank, NEW n \in W
    PROVE  SequenceIndex(W, n) = CsvIndex(W, n)
<1> DEFINE C == { m \in W : Earlier(m, n) /\ SameText(m, n) }
           D == { m \in W : /\ Earlier(m, n)
                            /\ CsvIndex(W, m) = 0
                            /\ SameKey(m, n) }
<1>1. CsvIndex(W, n) = Cardinality(C) /\ IsFiniteSet(C)
  BY BankIsFinite DEF CsvIndex
<1>2. D \subseteq C
  BY SameKeySameText
<1>3. CASE CsvIndex(W, n) = 0
  <2>1. C = {} /\ D = {}
    BY <1>1, <1>2, <1>3, FS_EmptySet
  <2> QED
    BY <1>3, <2>1, FS_EmptySet DEF SequenceIndex
<1> QED
  BY <1>3 DEF SequenceIndex

(* Of two equal purchases in a file the later has the higher index.        *)
LEMMA LaterIsHigher ==
    ASSUME TypeOK, NEW W \in SUBSET DOMAIN bank, NEW m \in W, NEW n \in W,
           Earlier(m, n), SameText(m, n)
    PROVE  CsvIndex(W, m) # CsvIndex(W, n)
<1> DEFINE C(x) == { y \in W : Earlier(y, x) /\ SameText(y, x) }
<1>1. \A x \in W : x \in Nat
  BY DEF TypeOK
<1>2. C(m) \subseteq C(n)
  BY <1>1 DEF Earlier, SameText
<1>3. m \in C(n) /\ m \notin C(m)
  BY <1>1, EarlierIsStrict
<1>4. IsFiniteSet(C(n))
  BY BankIsFinite
<1>5. CsvIndex(W, m) = Cardinality(C(m)) /\ CsvIndex(W, n) = Cardinality(C(n))
  BY DEF CsvIndex
<1> HIDE DEF C
<1> QED
  BY <1>2, <1>3, <1>4, <1>5, FS_Subset

LEMMA LinesDiffer ==
    ASSUME TextsApart, TypeOK, NEW W \in SUBSET DOMAIN bank, NEW m \in W, NEW n \in W,
           m # n
    PROVE  TxnId(W, m) # TxnId(W, n)
<1> SUFFICES ASSUME TxnId(W, m) = TxnId(W, n) PROVE FALSE
  OBVIOUS
<1>1. SameKey(m, n) /\ SequenceIndex(W, m) = SequenceIndex(W, n)
  BY DEF TxnId, SameKey
<1>2. SameText(m, n) /\ SameText(n, m)
  BY <1>1, SameKeySameText DEF SameText
<1>3. CsvIndex(W, m) = CsvIndex(W, n)
  BY <1>1, IndexIsCsvIndex
<1>4. Earlier(m, n) \/ Earlier(n, m)
  <2>1. m \in Nat /\ n \in Nat
    BY DEF TypeOK
  <2> QED
    BY <2>1 DEF Earlier
<1> QED
  BY <1>2, <1>3, <1>4, LaterIsHigher

(* The parts of the invariant: a row is of a purchase of bank b and its id *)
(* fits it, the lines of a file have ids of their own and one status, and  *)
(* what a worker has come past is in the table that it sees.               *)
Fits(b, i, r) ==
    /\ i.key = KeyOf(r)
    /\ \E n \in DOMAIN b : Alike(r, b[n])
    /\ \E n \in DOMAIN b : KeyOf(b[n]) = i.key /\ b[n].debit = r.debit

KeysFit ==
    /\ \A i \in DOMAIN rows : Fits(bank, i, rows[i])
    /\ \A i \in DOMAIN draft : Fits(bank, i, draft[i])
    /\ \A w \in Worker : \A n \in DOMAIN file[w] :
          Fits(bank, file[w][n].id, file[w][n].row)

LEMMA FitsFollows ==
    ASSUME TextsApart, TypeOK, NEW i, NEW r, NEW o, Fits(bank, i, r), Fits(bank, i, o)
    PROVE  r.day = o.day /\ r.text = o.text
<1>1. PICK p \in Kind, q \in Kind : Alike(r, p) /\ Alike(o, q)
  <2>1. \A n \in DOMAIN bank : bank[n] \in Kind
    BY DEF TypeOK
  <2> QED
    BY <2>1 DEF Fits
<1>2. KeyOf(r) = KeyOf(o)
  BY DEF Fits
<1>3. KeyOf(p) = KeyOf(r) /\ KeyOf(q) = KeyOf(o)
  BY <1>1 DEF KeyOf, Alike
<1>4. p.text = q.text
  BY <1>2, <1>3 DEF TextsApart
<1> QED
  BY <1>1, <1>2, <1>4 DEF Alike, KeyOf

LEMMA FitsGrows ==
    ASSUME NEW b, NEW c, DOMAIN b \subseteq DOMAIN c, \A n \in DOMAIN b : c[n] = b[n],
           NEW i, NEW r, Fits(b, i, r)
    PROVE  Fits(c, i, r)
  BY DEF Fits

LEMMA KeysStayFit ==
    ASSUME DOMAIN bank \subseteq DOMAIN bank',
           \A n \in DOMAIN bank : bank'[n] = bank[n],
           \A i \in DOMAIN rows' : Fits(bank, i, rows'[i]),
           \A i \in DOMAIN draft' : Fits(bank, i, draft'[i]),
           \A w \in Worker : \A n \in DOMAIN file'[w] :
              Fits(bank, file'[w][n].id, file'[w][n].row)
    PROVE  KeysFit'
<1>1. \A i, r : Fits(bank, i, r) => Fits(bank', i, r)
  BY FitsGrows
<1>2. /\ \A i \in DOMAIN rows' : Fits(bank', i, rows'[i])
      /\ \A i \in DOMAIN draft' : Fits(bank', i, draft'[i])
      /\ \A w \in Worker : \A n \in DOMAIN file'[w] :
            Fits(bank', file'[w][n].id, file'[w][n].row)
  BY <1>1
<1> QED
  BY <1>2 DEF KeysFit, Fits, KeyOf, Alike

FilesFit ==
    \A w \in Worker : \A m, n \in DOMAIN file[w] :
        /\ TextsApart /\ m # n => file[w][m].id # file[w][n].id
        /\ file[w][m].row.status = file[w][n].row.status

Stored(w, n) ==
    LET i == file[w][n].id IN
    /\ i \in DOMAIN View(w)
    /\ file[w][n].row.status = "posted" => View(w)[i].status = "posted"

Upserted == \A w \in Worker : \A n \in DOMAIN file[w] \ todo[w] : Stored(w, n)

TablesFinite == IsFiniteSet(DOMAIN rows) /\ IsFiniteSet(DOMAIN draft)

CInv == IInv /\ KeysFit /\ FilesFit /\ Upserted /\ TablesFinite

Complete == KeysFit /\ FilesFit /\ Upserted /\ TablesFinite

LEMMA InitComplete == Init => CInv
<1> SUFFICES ASSUME Init PROVE CInv
  OBVIOUS
<1>1. KeysFit /\ FilesFit /\ Upserted
  BY DEF Init, KeysFit, FilesFit, Upserted, None
<1>2. DOMAIN rows = {} /\ DOMAIN draft = {}
  BY DEF Init, None
<1>3. TablesFinite
  BY <1>2, FS_EmptySet DEF TablesFinite
<1> QED
  BY <1>1, <1>3, InitIInv DEF CInv

LEMMA TakeKeepsComplete ==
    ASSUME CInv, NEW w \in Worker, Idle(w), NEW W \in SUBSET DOMAIN bank,
           NEW s \in Status,
           UNCHANGED <<bank, store, plan>>, todo' = [todo EXCEPT ![w] = W],
           file' = [file EXCEPT ![w] =
                       [n \in W |-> [id |-> TxnId(W, n), row |-> AsRow(bank[n], s)]]]
    PROVE  Complete'
<1>1. /\ UNCHANGED <<rows, lock, draft>>
      /\ DOMAIN file = Worker /\ todo \in [Worker -> SUBSET DOMAIN bank] /\ TypeOK
  BY DEF store, CInv, IInv, TypeOK
<1>2. /\ DOMAIN file'[w] = W /\ todo'[w] = W
      /\ \A n \in W : /\ file'[w][n].id = TxnId(W, n)
                      /\ file'[w][n].row = AsRow(bank[n], s)
      /\ \A v \in Worker \ {w} : file'[v] = file[v] /\ todo'[v] = todo[v]
  BY <1>1
<1>3. KeysFit'
  <2>1. ASSUME NEW n \in W PROVE Fits(bank, file'[w][n].id, file'[w][n].row)
    <3>1. TxnId(W, n).key = KeyOf(bank[n]) /\ KeyOf(AsRow(bank[n], s)) = KeyOf(bank[n])
      BY DEF TxnId, AsRow, KeyOf
    <3>2. Alike(AsRow(bank[n], s), bank[n]) /\ AsRow(bank[n], s).debit = bank[n].debit
      BY DEF AsRow, Alike
    <3> QED
      BY <1>2, <3>1, <3>2 DEF Fits
  <2>2. ASSUME NEW v \in Worker, NEW n \in DOMAIN file'[v]
        PROVE  Fits(bank, file'[v][n].id, file'[v][n].row)
    <3>1. CASE v = w
      BY <1>2, <2>1, <3>1
    <3>2. CASE v # w
      BY <1>2, <3>2 DEF CInv, KeysFit
    <3> QED
      BY <3>1, <3>2
  <2>3. /\ \A i \in DOMAIN rows' : Fits(bank, i, rows'[i])
        /\ \A i \in DOMAIN draft' : Fits(bank, i, draft'[i])
    BY <1>1 DEF CInv, KeysFit
  <2> QED
    BY <2>2, <2>3, KeysStayFit
<1>4. FilesFit'
  <2>1. ASSUME NEW n \in W PROVE file'[w][n].row.status = s
    <3>1. AsRow(bank[n], s).status = s
      BY DEF AsRow
    <3> QED
      BY <1>2, <3>1
  <2>2. \A m, n \in W : TextsApart /\ m # n => file'[w][m].id # file'[w][n].id
    BY <1>1, <1>2, LinesDiffer
  <2> QED
    BY <1>2, <2>1, <2>2 DEF CInv, FilesFit
<1>5. Upserted'
  BY <1>1, <1>2 DEF CInv, Upserted, Stored, View
<1> QED
  BY <1>1, <1>3, <1>4, <1>5 DEF CInv, TablesFinite, Complete

LEMMA ExportKeepsComplete ==
    ASSUME CInv, NEW w \in Worker, NEW d \in Day, Export(w, d)
    PROVE  Complete'
<1> DEFINE W == { n \in DOMAIN bank : bank[n].day >= d }
<1>1. /\ Idle(w) /\ UNCHANGED <<bank, store, plan>>
      /\ todo' = [todo EXCEPT ![w] = W]
      /\ file' = [file EXCEPT ![w] =
                     [n \in W |-> [id |-> TxnId(W, n),
                                   row |-> AsRow(bank[n], "posted")]]]
      /\ W \in SUBSET DOMAIN bank
  BY DEF Export
<1>2. "posted" \in Status
  BY DEF Status
<1> HIDE DEF W
<1> QED
  BY <1>1, <1>2, TakeKeepsComplete

LEMMA EnterKeepsComplete ==
    ASSUME CInv, NEW w \in Worker, NEW n, NEW s \in Status,
           EnterByHand(w, n, s)
    PROVE  Complete'
<1> DEFINE W == {n}
<1>1. /\ Idle(w) /\ UNCHANGED <<bank, store, plan>>
      /\ todo' = [todo EXCEPT ![w] = W]
      /\ file' = [file EXCEPT ![w] =
                     [m \in W |-> [id |-> TxnId(W, m),
                                   row |-> AsRow(bank[m], s)]]]
      /\ W \in SUBSET DOMAIN bank
  BY DEF EnterByHand
<1> HIDE DEF W
<1> QED
  BY <1>1, TakeKeepsComplete

LEMMA LookKeepsComplete ==
    ASSUME CInv, NEW w \in Worker, NEW n \in todo[w], Look(w, n) PROVE Complete'
<1>1. UNCHANGED <<bank, rows, lock, draft, file>> /\ todo \in [Worker -> SUBSET DOMAIN bank]
  BY DEF Look, Decide, store, CInv, IInv, TypeOK
<1>2. KeysFit' /\ FilesFit' /\ TablesFinite'
  <2>1. KeysFit'
    BY <1>1, KeysStayFit DEF CInv, KeysFit
  <2> QED
    BY <1>1, <2>1 DEF CInv, FilesFit, TablesFinite
<1>3. \A v \in Worker : \A m : Stored(v, m)' <=> Stored(v, m)
  BY <1>1 DEF Stored, View
<1>4. CASE todo' = todo
  BY <1>1, <1>2, <1>3, <1>4 DEF CInv, Upserted, Complete
<1>5. CASE todo' # todo
  <2> DEFINE i == file[w][n].id
             new == file[w][n].row
  <2>1. /\ i \in DOMAIN View(w) /\ Merged(View(w)[i], new) = View(w)[i]
        /\ todo' = [todo EXCEPT ![w] = @ \ {n}]
    BY <1>5 DEF Look, Decide
  <2>2. View(w)[i] \in Row
    BY <2>1, ViewExtendsRows DEF CInv
  <2>3. new.status = "posted" => View(w)[i].status = "posted"
    BY <2>1, <2>2 DEF Merged, Row, Status
  <2>4. Stored(w, n)
    BY <2>1, <2>3 DEF Stored
  <2> QED
    BY <1>1, <1>2, <1>3, <2>1, <2>4 DEF CInv, Upserted, Complete
<1> QED
  BY <1>4, <1>5

LEMMA WriteKeepsComplete ==
    ASSUME CInv, NEW w \in Worker, NEW n \in todo[w], Write(w, n) PROVE Complete'
<1> DEFINE i == file[w][n].id
           new == file[w][n].row
           written == IF plan[w] = "insert" THEN new ELSE Merged(View(w)[i], new)
<1>1. /\ UNCHANGED <<bank, rows, file>> /\ lock' = w /\ lock \in {Nobody, w}
      /\ IsNext(w, n) /\ plan[w] # "none" /\ Free(w, i)
      /\ todo' = [todo EXCEPT ![w] = @ \ {n}]
      /\ todo \in [Worker -> SUBSET DOMAIN bank]
  BY DEF Write, CInv, IInv, TypeOK
<1>2. /\ DOMAIN draft' = DOMAIN View(w) \cup {i} /\ draft'[i] = written
      /\ \A j \in DOMAIN View(w) \ {i} : draft'[j] = View(w)[j]
  BY DEF Write
<1>3. /\ n \in Nat /\ n \in DOMAIN file[w] /\ Fits(bank, i, new) /\ new \in Row
  BY <1>1 DEF CInv, IInv, TypeOK, IsNext, Item, KeysFit
<1>4. /\ plan[w] \in {"insert", "update"}
      /\ plan[w] = "update" => i \in DOMAIN View(w)
  BY <1>1, <1>3 DEF CInv, IInv, TypeOK, UpdateExists
<1>5. \A j \in DOMAIN View(w) : View(w)[j] \in Row /\ Fits(bank, j, View(w)[j])
  BY ViewExtendsRows DEF CInv, KeysFit, View
<1>6. Fits(bank, i, written) /\ (new.status = "posted" => written.status = "posted")
  <2>1. CASE plan[w] = "update"
    <3> DEFINE old == View(w)[i]
    <3>1. old \in Row /\ Fits(bank, i, old)
      BY <1>4, <1>5, <2>1
    <3>2. old.day = new.day
      BY <1>3, <3>1 DEF Fits, KeyOf
    <3>3. /\ Merged(old, new).day = new.day /\ Merged(old, new).text = new.text
          /\ Merged(old, new).debit = old.debit
          /\ new.status = "posted" => Merged(old, new).status = "posted"
      BY <1>3, <3>1, <3>2 DEF Merged, Row, Status
    <3> HIDE DEF old, new, i
    <3>4. Fits(bank, i, Merged(old, new))
      BY <1>3, <3>1, <3>3 DEF Fits, KeyOf, Alike
    <3> QED
      BY <2>1, <3>3, <3>4 DEF old
  <2> QED
    BY <1>3, <1>4, <2>1
<1>7. KeysFit'
  <2> HIDE DEF written, i
  <2>1. \A j \in DOMAIN draft' : Fits(bank, j, draft'[j])
    BY <1>2, <1>5, <1>6
  <2> QED
    BY <1>1, <2>1, KeysStayFit DEF CInv, KeysFit
<1>8. FilesFit'
  BY <1>1 DEF CInv, FilesFit
<1>9. Upserted'
  <2>1. Stored(w, n)'
    BY <1>1, <1>2, <1>6 DEF Stored, View
  <2>2. \A j \in DOMAIN View(w) : /\ j \in DOMAIN draft'
                                  /\ View(w)[j].status = "posted" => draft'[j].status = "posted"
    <3>1. ASSUME i \in DOMAIN View(w), View(w)[i].status = "posted"
          PROVE  written.status = "posted"
      BY <1>1, <1>3, <1>4, <1>5, <3>1, MergedIsRow DEF Free
    <3> HIDE DEF written, i
    <3> QED
      BY <1>2, <3>1
  <2>3. \A m : Stored(w, m) => Stored(w, m)'
    BY <1>1, <2>2 DEF Stored, View
  <2>4. ASSUME NEW v \in Worker, v # w PROVE \A m : Stored(v, m) => Stored(v, m)'
    BY <1>1, <2>4, StoreAssumption DEF Stored, View
  <2> QED
    BY <1>1, <2>1, <2>3, <2>4 DEF CInv, Upserted
<1>10. TablesFinite'
  <2>1. IsFiniteSet(DOMAIN View(w))
    BY DEF CInv, TablesFinite, View
  <2>2. IsFiniteSet(DOMAIN draft')
    BY <1>2, <2>1, FS_AddElement
  <2> QED
    BY <1>1, <2>2 DEF CInv, TablesFinite
<1> QED
  BY <1>7, <1>8, <1>9, <1>10 DEF Complete

LEMMA EndKeepsComplete ==
    ASSUME CInv, NEW w \in Worker, Finish(w) \/ FailCsv(w) \/ Rollback(w)
    PROVE  Complete'
<1>1. /\ rows' \in {rows, View(w)}
      /\ lock' = IF lock = w THEN Nobody ELSE lock
      /\ draft' = IF lock = w THEN None ELSE draft
      /\ file' = [file EXCEPT ![w] = None]
      /\ todo' = [todo EXCEPT ![w] = {}]
      /\ bank' = bank
  BY DEF Finish, FailCsv, Rollback, Commit, Done
<1>2. DOMAIN file = Worker /\ todo \in [Worker -> SUBSET DOMAIN bank]
  BY DEF CInv, IInv, TypeOK
<1>3. /\ DOMAIN file'[w] = {}
      /\ \A v \in Worker \ {w} : file'[v] = file[v] /\ todo'[v] = todo[v]
  BY <1>1, <1>2 DEF None
<1>4. KeysFit'
  <2>1. /\ \A i \in DOMAIN rows' : Fits(bank, i, rows'[i])
        /\ \A i \in DOMAIN draft' : Fits(bank, i, draft'[i])
    BY <1>1 DEF CInv, KeysFit, View, None
  <2>2. ASSUME NEW v \in Worker, NEW n \in DOMAIN file'[v]
        PROVE  Fits(bank, file'[v][n].id, file'[v][n].row)
    BY <1>3 DEF CInv, KeysFit
  <2> QED
    BY <1>1, <2>1, <2>2, KeysStayFit
<1>5. FilesFit'
  BY <1>3 DEF CInv, FilesFit
<1>6. Upserted'
  <2>1. ASSUME NEW v \in Worker, v # w
        PROVE  \A j \in DOMAIN View(v) :
                  /\ j \in DOMAIN View(v)'
                  /\ View(v)[j].status = "posted" => View(v)'[j].status = "posted"
    <3>1. CASE lock = v
      BY <1>1, <2>1, <3>1 DEF View
    <3>2. CASE lock # v
      <4>1. View(v) = rows /\ View(v)' = rows'
        BY <1>1, <2>1, <3>2, StoreAssumption DEF View
      <4> QED
        BY <1>1, <4>1, ViewExtendsRows DEF CInv
    <3> QED
      BY <3>1, <3>2
  <2>2. ASSUME NEW v \in Worker, v # w PROVE \A m : Stored(v, m) => Stored(v, m)'
    BY <1>3, <2>1, <2>2 DEF Stored
  <2> QED
    BY <1>3, <2>2 DEF CInv, Upserted
<1>7. TablesFinite'
  <2>1. DOMAIN None = {}
    BY DEF None
  <2> QED
    BY <1>1, <2>1, FS_EmptySet DEF CInv, TablesFinite, View
<1> QED
  BY <1>4, <1>5, <1>6, <1>7 DEF Complete

LEMMA NextComplete == CInv /\ [Next]_vars => CInv'
<1> SUFFICES ASSUME CInv, [Next]_vars PROVE Complete'
  BY NextIInv DEF CInv, Complete
<1>1. CASE UNCHANGED vars \/ \E p \in Kind : Buy(p)
  <2>1. UNCHANGED <<rows, lock, draft, file, todo>>
    BY <1>1 DEF vars, Buy, store, work
  <2>2. DOMAIN bank \subseteq DOMAIN bank' /\ \A n \in DOMAIN bank : bank'[n] = bank[n]
    <3>1. bank \in Seq(Kind)
      BY DEF CInv, IInv, TypeOK
    <3>2. bank' = bank \/ \E p \in Kind : bank' = Append(bank, p)
      BY <1>1 DEF vars, Buy
    <3> QED
      BY <3>1, <3>2
  <2>3. KeysFit'
    BY <2>1, <2>2, KeysStayFit DEF CInv, KeysFit
  <2> QED
    BY <2>1, <2>3 DEF CInv, Complete, FilesFit, Upserted, Stored, View, TablesFinite
<1>2. ASSUME NEW w \in Worker, Upsert(w) PROVE Complete'
  BY <1>2, LookKeepsComplete, WriteKeepsComplete, EndKeepsComplete DEF Upsert
<1> QED
  BY <1>1, <1>2, ExportKeepsComplete, EnterKeepsComplete DEF Next

(* When a file ends, the lines that are alike have as many rows.           *)
LEMMA FinishIsComplete ==
    ASSUME TextsApart, CInv, NEW w \in Worker, Finish(w), NEW n \in DOMAIN file[w]
    PROVE  LET p == file[w][n].row
               R == { i \in DOMAIN rows' : Alike(rows'[i], p)
                          /\ (p.status = "posted" => rows'[i].status = "posted") }
           IN  Cardinality({ m \in DOMAIN file[w] : Alike(file[w][m].row, p) })
                  <= Cardinality(R)
<1> DEFINE p == file[w][n].row
           R == { i \in DOMAIN rows' : Alike(rows'[i], p)
                      /\ (p.status = "posted" => rows'[i].status = "posted") }
           M == { m \in DOMAIN file[w] : Alike(file[w][m].row, p) }
           f == [m \in M |-> file[w][m].id]
<1>1. rows' = View(w) /\ todo[w] = {}
  BY DEF Finish, Commit
<1>2. IsFiniteSet(R)
  <2>1. IsFiniteSet(DOMAIN rows')
    BY <1>1 DEF CInv, TablesFinite, View
  <2> QED
    BY <2>1, FS_Subset
<1>3. ASSUME NEW m \in M PROVE file[w][m].id \in R
  <2> DEFINE i == file[w][m].id
             r == file[w][m].row
  <2>1. i \in DOMAIN View(w) /\ (r.status = "posted" => View(w)[i].status = "posted")
    BY <1>1 DEF CInv, Upserted, Stored
  <2>2. r \in Row /\ View(w)[i] \in Row /\ p \in Row
    BY <2>1, ViewExtendsRows DEF CInv, IInv, TypeOK, Item
  <2>3. Fits(bank, i, View(w)[i]) /\ Fits(bank, i, r)
    BY <2>1 DEF CInv, KeysFit, View
  <2>4. View(w)[i].day = r.day /\ View(w)[i].text = r.text
    BY <2>3, FitsFollows DEF CInv, IInv
  <2>5. r.status = p.status /\ Alike(r, p)
    BY DEF CInv, FilesFit
  <2> HIDE DEF i, r, p
  <2>6. Alike(View(w)[i], p) /\ (p.status = "posted" => View(w)[i].status = "posted")
    BY <2>1, <2>4, <2>5 DEF Alike
  <2> QED
    BY <1>1, <2>1, <2>6 DEF i
<1>4. ASSUME NEW m \in M, NEW k \in M, m # k PROVE file[w][m].id # file[w][k].id
  BY <1>4 DEF CInv, FilesFit
<1>5. f \in Injection(M, R)
  <2> HIDE DEF M, R
  <2> QED
    BY <1>3, <1>4 DEF Injection, IsInjective
<1> HIDE DEF f, M, R
<1>6. Cardinality(M) <= Cardinality(R)
  BY <1>2, <1>5, FS_Injection
<1> QED
  BY <1>6 DEF M, R

LEMMA AlwaysComplete == Spec => []CInv
  BY InitComplete, NextComplete, PTL DEF Spec

(* Every row is of a purchase: its day and description are those of one,   *)
(* its id is computed from them, and its direction is that of a purchase   *)
(* with the same id but for the index; updates, which replace descriptions,*)
(* mix up no more than that.                                               *)
THEOREM SpecNothingInvented ==
    Spec => [](\A i \in DOMAIN rows : Fits(bank, i, rows[i]))
<1>1. CInv => \A i \in DOMAIN rows : Fits(bank, i, rows[i])
  BY DEF CInv, KeysFit
<1> QED
  BY <1>1, AlwaysComplete, PTL

(* When an import has come to its end, equal purchases of its file have a  *)
(* row each and none that the bank has posted is pending, whoever else has *)
(* written meanwhile: if no two of the descriptions begin alike, an id is  *)
(* of one line of the file, and what is written is never taken back.       *)
THEOREM SpecImportIsComplete ==
    ASSUME TextsApart PROVE Spec => ImportIsComplete
<1>1. CInv /\ [Next]_vars =>
        [ \A w \in Worker : Finish(w) =>
            \A n \in DOMAIN file[w] :
                LET p == file[w][n].row
                    R == { i \in DOMAIN rows' : Alike(rows'[i], p)
                               /\ (p.status = "posted" =>
                                      rows'[i].status = "posted") }
                IN Cardinality({ m \in DOMAIN file[w] : Alike(file[w][m].row, p) })
                     <= Cardinality(R) ]_vars
  BY FinishIsComplete
<1> QED
  BY <1>1, AlwaysComplete, PTL DEF Spec, ImportIsComplete

\* No purchase has a refund of the same day whose description begins like its.
RefundsApart == \A p, q \in Kind : KeyOf(p) = KeyOf(q) => p = q

(* A debit and a credit do not collide in the one case in which the amount *)
(* needs no sign: when the day and the description tell them apart.        *)
THEOREM SpecSignsDoNotCollide ==
    ASSUME RefundsApart PROVE Spec => SignsDoNotCollide
<1>1. ASSUME CInv, NEW w \in Worker, Finish(w), NEW n \in DOMAIN file[w]
      PROVE  \E i \in DOMAIN rows' : /\ Alike(rows'[i], file[w][n].row)
                                     /\ rows'[i].debit = file[w][n].row.debit
  <2> DEFINE i == file[w][n].id
             r == file[w][n].row
  <2>1. rows' = View(w) /\ todo[w] = {}
    BY <1>1 DEF Finish, Commit
  <2>2. i \in DOMAIN View(w)
    BY <1>1, <2>1 DEF CInv, Upserted, Stored
  <2>3. Fits(bank, i, View(w)[i]) /\ Fits(bank, i, r)
    BY <1>1, <2>2 DEF CInv, KeysFit, View
  <2>4. TextsApart /\ TypeOK /\ \A m \in DOMAIN bank : bank[m] \in Kind
    BY <1>1 DEF RefundsApart, TextsApart, CInv, IInv, TypeOK
  <2> HIDE DEF i, r
  <2>5. View(w)[i].day = r.day /\ View(w)[i].text = r.text
    BY <2>3, <2>4, FitsFollows
  <2>6. View(w)[i].debit = r.debit
    BY <2>3, <2>4 DEF Fits, RefundsApart
  <2> QED
    BY <2>1, <2>2, <2>5, <2>6 DEF Alike, r
<1>2. CInv /\ [Next]_vars =>
        [ \A w \in Worker : Finish(w) =>
            \A n \in DOMAIN file[w] :
                \E i \in DOMAIN rows' :
                    /\ Alike(rows'[i], file[w][n].row)
                    /\ rows'[i].debit = file[w][n].row.debit ]_vars
  BY <1>1
<1> QED
  BY <1>2, AlwaysComplete, PTL DEF Spec, SignsDoNotCollide
===============================================================================
