-------------------------- MODULE AcornsLedgerProofs --------------------------
(***************************************************************************)
(* Theorems about AcornsLedger, for any number of connector runs, requests,*)
(* documents and trades, any lag and any order of the rows of one time.    *)
(*                                                                         *)
(* Booking comes first: a trade takes over the row that it has chosen, or  *)
(* gets a row of its own, and the others of a commit follow one by one     *)
(* under the write lock.  What was chosen is a row for ever, but it may be *)
(* another trade's by then: that is the only way a row is lost.  All else  *)
(* stays, so both invariants about the ledger have only their own component*)
(* to look at: the runs of the connector, or the requests that commit.     *)
(***************************************************************************)
EXTENDS AcornsLedger, FiniteSetTheorems, SequenceTheorems,
        WellFoundedInduction, TLAPS

-------------------------------------------------------------------------------
(* Numbers.                                                                *)

LEMMA HasFirst ==
    ASSUME NEW S \in SUBSET Nat, S # {}
    PROVE  \E x \in S : \A y \in S : x <= y
<1> DEFINE R == StrictSubsetOrdering(Nat)
           C == { 1..s : s \in S }
<1>1. IsWellFoundedOn(R, FiniteSubsetsOf(Nat))
  BY FS_StrictSubsetOrderingWellFounded
<1>2. C \subseteq FiniteSubsetsOf(Nat) /\ C # {}
  <2>1. \A s \in S : IsFiniteSet(1..s) /\ 1..s \in SUBSET Nat
    BY FS_Interval
  <2> QED
    BY <2>1 DEF FiniteSubsetsOf
<1> HIDE DEF R
<1>3. PICK c \in C : \A e \in C : ~ (<<e, c>> \in R)
  BY <1>1, <1>2, WFMin
<1>4. PICK x \in S : c = 1..x
  OBVIOUS
<1>5. ASSUME NEW y \in S PROVE x <= y
  <2>1. SUFFICES ASSUME y < x PROVE FALSE
    OBVIOUS
  <2>2. 1..y \in C /\ 1..y \subseteq c /\ x \in c /\ x \notin 1..y
    BY <1>4, <2>1
  <2>3. <<1..y, c>> \in R
    BY <1>4, <2>2 DEF R, StrictSubsetOrdering
  <2> QED
    BY <1>3, <2>2, <2>3
<1> QED
  BY <1>5

LEMMA HasLast ==
    ASSUME NEW n \in Nat, NEW S \in SUBSET (0..n), S # {}
    PROVE  \E x \in S : \A y \in S : y <= x
<1> DEFINE D == { n - s : s \in S }
<1>1. D \in SUBSET Nat /\ D # {}
  <2>1. \A s \in S : n - s \in Nat
    OBVIOUS
  <2> QED
    BY <2>1
<1>2. PICK d \in D : \A e \in D : d <= e
  BY <1>1, HasFirst
<1>3. PICK x \in S : d = n - x
  OBVIOUS
<1>4. ASSUME NEW y \in S PROVE y <= x
  BY <1>2, <1>3
<1> QED
  BY <1>4

(* Induction over the numbers, for a set.                                  *)
LEMMA Induction ==
    ASSUME NEW T, 0 \in T, \A n \in Nat : n \in T => n + 1 \in T
    PROVE  Nat \subseteq T
<1> SUFFICES ASSUME Nat \ T # {} PROVE FALSE
  OBVIOUS
<1>1. PICK x \in Nat \ T : \A y \in Nat \ T : x <= y
  BY HasFirst
<1>2. x # 0 /\ x - 1 \in Nat /\ ~ (x <= x - 1) /\ x = (x - 1) + 1
  BY <1>1
<1>3. x - 1 \in T
  BY <1>1, <1>2
<1> QED
  BY <1>1, <1>2, <1>3

-------------------------------------------------------------------------------
(* The order of the rows.                                                  *)

LEMMA HourIsNat ==
    ASSUME NEW L, NEW n PROVE Hour(L, n) \in {0, 1}
  BY DEF Hour

(* Among some rows one is the newest, and one is the oldest.               *)
LEMMA NewestExists ==
    ASSUME NEW L \in Seq(Row), NEW N \in SUBSET DOMAIN L, N # {}
    PROVE  Newest(L, N) \in N
<1> DEFINE A == { L[n].when : n \in N }
<1>0. /\ Len(L) \in Nat /\ DOMAIN L = 1..Len(L) /\ \A n \in N : n \in Nat /\ L[n] \in Row
      /\ LastDay + Lag \in Nat /\ TiesFirst \in BOOLEAN /\ InMorning \in BOOLEAN
  BY LedgerAssumption
<1>1. \A n \in N : L[n].when \in 0..LastDay + Lag
  BY <1>0 DEF Row, Day
<1>2. PICK a \in A : \A e \in A : e <= a
  <2>1. A # {} /\ A \in SUBSET (0..LastDay + Lag)
    BY <1>1
  <2> QED
    BY <1>0, <2>1, HasLast
<1> DEFINE N1 == { n \in N : L[n].when = a }
           b == IF \E n \in N1 : Hour(L, n) = 1 THEN 1 ELSE 0
           N2 == { n \in N1 : Hour(L, n) = b }
<1>3. N1 # {} /\ \A m \in N : m \in N1 \/ a > L[m].when
  <2>1. PICK n \in N : a = L[n].when
    BY <1>2
  <2>2. ASSUME NEW m \in N, L[m].when # a PROVE a > L[m].when
    <3>1. L[m].when \in A /\ L[m].when \in Nat /\ a \in Nat
      BY <1>1, <2>1
    <3>2. L[m].when <= a
      BY <1>2, <3>1
    <3> QED
      BY <2>2, <3>1, <3>2
  <2> QED
    BY <2>1, <2>2
<1>4. b \in {0, 1} /\ N2 # {} /\ \A m \in N1 : m \in N2 \/ b > Hour(L, m)
  BY <1>3, HourIsNat
<1>5. \A m, n \in N2 : L[m].src = "scraper" <=> L[n].src = "scraper"
  BY <1>0 DEF Hour
<1>6. PICK lo \in N2 : \A n \in N2 : lo <= n
  <2>1. N2 \in SUBSET Nat
    BY <1>0
  <2> QED
    BY <1>4, <2>1, HasFirst
<1>7. PICK hi \in N2 : \A n \in N2 : n <= hi
  <2>1. N2 \in SUBSET (0..Len(L))
    BY <1>0
  <2> QED
    BY <1>0, <1>4, <2>1, HasLast
<1> DEFINE c == IF L[lo].src # "scraper" /\ TiesFirst THEN lo ELSE hi
<1>8. c \in N2 /\ c \in N
  BY <1>6, <1>7
<1>9. ASSUME NEW m \in N \ {c} PROVE Newer(L, c, m)
  <2>1. CASE m \notin N1
    BY <1>3, <1>8, <2>1 DEF Newer
  <2>2. CASE m \in N1 /\ m \notin N2
    BY <1>4, <1>8, <2>2 DEF Newer
  <2>3. CASE m \in N2
    <3>1. L[c].when = L[m].when /\ Hour(L, c) = Hour(L, m)
      BY <1>8, <2>3
    <3>2. L[c].src = "scraper" <=> L[lo].src = "scraper"
      BY <1>5, <1>6, <1>8
    <3>3. IF L[c].src # "scraper" /\ TiesFirst THEN c < m ELSE c > m
      <4>1. c \in Nat /\ m \in Nat /\ c # m /\ lo \in Nat /\ hi \in Nat
        BY <1>0, <1>6, <1>7, <1>8
      <4> QED
        BY <1>6, <1>7, <2>3, <3>2, <4>1
    <3> QED
      BY <3>1, <3>3 DEF Newer
  <2> QED
    BY <2>1, <2>2, <2>3
<1> HIDE DEF c
<1> QED
  BY <1>8, <1>9 DEF Newest

LEMMA OldestExists ==
    ASSUME NEW L \in Seq(Row), NEW N \in SUBSET DOMAIN L, N # {}
    PROVE  Oldest(L, N) \in N
<1> DEFINE A == { L[n].when : n \in N }
<1>0. /\ Len(L) \in Nat /\ DOMAIN L = 1..Len(L) /\ \A n \in N : n \in Nat /\ L[n] \in Row
      /\ LastDay + Lag \in Nat /\ TiesFirst \in BOOLEAN /\ InMorning \in BOOLEAN
  BY LedgerAssumption
<1>1. \A n \in N : L[n].when \in Nat
  BY <1>0 DEF Row, Day
<1>2. PICK a \in A : \A e \in A : a <= e
  <2>1. A # {} /\ A \in SUBSET Nat
    BY <1>1
  <2> QED
    BY <2>1, HasFirst
<1> DEFINE N1 == { n \in N : L[n].when = a }
           b == IF \E n \in N1 : Hour(L, n) = 0 THEN 0 ELSE 1
           N2 == { n \in N1 : Hour(L, n) = b }
<1>3. N1 # {} /\ \A m \in N : m \in N1 \/ L[m].when > a
  <2>1. PICK n \in N : a = L[n].when
    BY <1>2
  <2>2. ASSUME NEW m \in N, L[m].when # a PROVE L[m].when > a
    <3>1. L[m].when \in A /\ L[m].when \in Nat /\ a \in Nat
      BY <1>1, <2>1
    <3>2. a <= L[m].when
      BY <1>2, <3>1
    <3> QED
      BY <2>2, <3>1, <3>2
  <2> QED
    BY <2>1, <2>2
<1>4. b \in {0, 1} /\ N2 # {} /\ \A m \in N1 : m \in N2 \/ Hour(L, m) > b
  BY <1>3, HourIsNat
<1>5. \A m, n \in N2 : L[m].src = "scraper" <=> L[n].src = "scraper"
  BY <1>0 DEF Hour
<1>6. PICK lo \in N2 : \A n \in N2 : lo <= n
  <2>1. N2 \in SUBSET Nat
    BY <1>0
  <2> QED
    BY <1>4, <2>1, HasFirst
<1>7. PICK hi \in N2 : \A n \in N2 : n <= hi
  <2>1. N2 \in SUBSET (0..Len(L))
    BY <1>0
  <2> QED
    BY <1>0, <1>4, <2>1, HasLast
<1> DEFINE c == IF L[lo].src # "scraper" /\ TiesFirst THEN hi ELSE lo
<1>8. c \in N2 /\ c \in N
  BY <1>6, <1>7
<1>9. ASSUME NEW m \in N \ {c} PROVE Newer(L, m, c)
  <2>1. CASE m \notin N1
    BY <1>3, <1>8, <2>1 DEF Newer
  <2>2. CASE m \in N1 /\ m \notin N2
    BY <1>4, <1>8, <2>2 DEF Newer
  <2>3. CASE m \in N2
    <3>1. L[c].when = L[m].when /\ Hour(L, c) = Hour(L, m)
      BY <1>8, <2>3
    <3>2. L[m].src = "scraper" <=> L[lo].src = "scraper"
      BY <1>5, <1>6, <2>3
    <3>3. IF L[m].src # "scraper" /\ TiesFirst THEN m < c ELSE m > c
      <4>1. c \in Nat /\ m \in Nat /\ c # m /\ lo \in Nat /\ hi \in Nat
        BY <1>0, <1>6, <1>7, <1>8
      <4> QED
        BY <1>6, <1>7, <2>3, <3>2, <4>1
    <3> QED
      BY <3>1, <3>3 DEF Newer
  <2> QED
    BY <2>1, <2>2, <2>3
<1> HIDE DEF c
<1> QED
  BY <1>8, <1>9 DEF Oldest

LEMMA TotalIsInt ==
    ASSUME NEW L \in Seq(Row) PROVE Total(L) \in Int
<1>1. CASE L = <<>>
  BY <1>1 DEF Total
<1>2. CASE L # <<>>
  <2>1. DOMAIN L # {}
    <3>1. Len(L) # 0 /\ Len(L) \in Nat /\ DOMAIN L = 1..Len(L)
      BY <1>2, EmptySeq
    <3>2. 1 \in 1..Len(L)
      BY <3>1
    <3> QED
      BY <3>1, <3>2
  <2>2. Newest(L, DOMAIN L) \in DOMAIN L
    BY <2>1, NewestExists
  <2>3. L[Newest(L, DOMAIN L)] \in Row
    BY <2>2
  <2> QED
    BY <1>2, <2>3 DEF Total, Row
<1> QED
  BY <1>1, <1>2

-------------------------------------------------------------------------------
(* Booking.                                                                *)

Entry(L, n) == [when |-> L[n].when, src |-> L[n].src]

EntryOf(t, src) == [when |-> Settles(t), src |-> src]

\* Every row that a trade has stays as it is, unless the trade is one of X;
\* then another trade has it.
Keeps(L, K, X) ==
    \A n \in DOMAIN L : L[n].src # "scraper" =>
        /\ n \in DOMAIN K
        /\ K[n] = L[n] \/ (K[n].src # "scraper" /\ Entry(L, n) \in X)

\* What is new or has changed is one of R.
Adds(L, K, R) ==
    \A n \in DOMAIN K : (n \in DOMAIN L /\ K[n] = L[n]) \/ Entry(K, n) \in R

Has(L, t, src) == \E n \in DOMAIN L : L[n].src = src /\ L[n].when = Settles(t)

\* Decisions that fit a ledger, and those that still take nobody's row.
Fits(L, q) ==
    q \in Plan /\ q.to \in {"insert", "update"} /\ (q.to = "update" => q.arg \in DOMAIN L)

Fresh(L, q) == q.to = "update" => L[q.arg].src = "scraper"

LEMMA KeepsTransitive ==
    ASSUME NEW L, NEW K, NEW M, NEW X, Keeps(L, K, X), Keeps(K, M, {})
    PROVE  Keeps(L, M, X)
  BY DEF Keeps

LEMMA AddsTransitive ==
    ASSUME NEW L, NEW K, NEW M, NEW R, Adds(L, K, R), Adds(K, M, R)
    PROVE  Adds(L, M, R)
  BY DEF Adds, Entry

LEMMA HasStays ==
    ASSUME NEW L, NEW K, NEW X, Keeps(L, K, X), NEW t, NEW src \in Form, Has(L, t, src)
    PROVE  Has(K, t, src) \/ EntryOf(t, src) \in X
  BY DEF Keeps, Has, Form, Entry, EntryOf

LEMMA AppendKeeps ==
    ASSUME NEW L \in Seq(Row), NEW r \in Row
    PROVE  /\ Append(L, r) \in Seq(Row) /\ DOMAIN L \subseteq DOMAIN Append(L, r)
           /\ \A n \in DOMAIN L : Append(L, r)[n] = L[n]
           /\ Len(L) + 1 \in DOMAIN Append(L, r) /\ Append(L, r)[Len(L) + 1] = r
           /\ \A n \in DOMAIN Append(L, r) \ {Len(L) + 1} : n \in DOMAIN L
<1>1. /\ Append(L, r) \in Seq(Row) /\ Len(Append(L, r)) = Len(L) + 1
      /\ \A n \in 1..Len(L) : Append(L, r)[n] = L[n]
      /\ Append(L, r)[Len(L) + 1] = r
  BY AppendProperties
<1>2. /\ Len(L) \in Nat /\ DOMAIN L = 1..Len(L)
      /\ DOMAIN Append(L, r) = 1..(Len(L) + 1)
  BY <1>1
<1> QED
  BY <1>1, <1>2

\* K has one row of trade t that L has not, or has as another.
AddsOne(L, K, t, src) ==
    \E o \in DOMAIN K :
        /\ K[o].src = src /\ K[o].when = Settles(t)
        /\ \A n \in DOMAIN K \ {o} : n \in DOMAIN L /\ K[n] = L[n]

(* A trade is booked as one row of its day and source, and no other trade  *)
(* loses its row but the one that is counted as overwritten.               *)
LEMMA BookedKeeps ==
    ASSUME NEW L \in Seq(Row), NEW t \in 1..LastTrade, NEW src \in Form,
           NEW q, Fits(L, q)
    PROVE  /\ Booked(L, t, src, q) \in Seq(Row)
           /\ DOMAIN L \subseteq DOMAIN Booked(L, t, src, q)
           /\ Keeps(L, Booked(L, t, src, q), Overwritten(L, t, src, q))
           /\ AddsOne(L, Booked(L, t, src, q), t, src)
           /\ \A n \in DOMAIN L :
                 Booked(L, t, src, q)[n] = L[n] \/ (q.to = "update" /\ q.arg = n)
<1>1. Settles(t) \in Day /\ src # "scraper" /\ src \in Source
  BY LedgerAssumption DEF Settles, Day, Form, Source
<1>2. CASE q.to = "update"
  <2> DEFINE o == q.arg
             K == [L EXCEPT ![o].when = Settles(t), ![o].src = src]
  <2>1. o \in DOMAIN L /\ L[o] \in Row
    BY <1>2 DEF Fits
  <2>2. Booked(L, t, src, q) = K
    BY <1>2 DEF Booked
  <2>3. K = [L EXCEPT ![o] = [L[o] EXCEPT !.when = Settles(t), !.src = src]]
    BY <2>1
  <2>4. [L[o] EXCEPT !.when = Settles(t), !.src = src] \in Row
    BY <1>1, <2>1 DEF Row
  <2>5. K \in Seq(Row)
    BY <2>1, <2>3, <2>4, ExceptSeq
  <2>6. DOMAIN K = DOMAIN L /\ \A n \in DOMAIN L : n # o => K[n] = L[n]
    BY <2>3
  <2>7. K[o].when = Settles(t) /\ K[o].src = src
    BY <2>1, <2>3 DEF Row
  <2>8. L[o].when = Settles(t) /\ L[o].src = src => K[o] = L[o]
    BY <2>1, <2>3 DEF Row
  <2>9. \/ L[o].src = "scraper" \/ K[o] = L[o]
        \/ Entry(L, o) \in Overwritten(L, t, src, q)
    BY <1>2, <2>8 DEF Overwritten, Entry
  <2> HIDE DEF K
  <2>10. Keeps(L, K, Overwritten(L, t, src, q))
    BY <1>1, <2>6, <2>7, <2>9 DEF Keeps
  <2> QED
    <3>1. AddsOne(L, K, t, src)
      BY <2>1, <2>6, <2>7 DEF AddsOne
    <3>2. \A n \in DOMAIN L : K[n] = L[n] \/ (q.to = "update" /\ q.arg = n)
      BY <1>2, <2>6
    <3>3. DOMAIN L \subseteq DOMAIN K
      BY <2>6
    <3> QED
      BY <2>2, <2>5, <2>10, <3>1, <3>2, <3>3
<1>3. CASE q.to = "insert"
  <2> DEFINE r == [when |-> Settles(t), src |-> src, delta |-> 1, total |-> q.arg + 1]
  <2>1. r \in Row
    <3>1. q.arg + 1 \in Int
      BY DEF Fits, Plan
    <3> QED
      BY <1>1, <3>1 DEF Row
  <2>2. Booked(L, t, src, q) = Append(L, r)
    BY <1>3 DEF Booked
  <2>3. r.when = Settles(t) /\ r.src = src
    OBVIOUS
  <2> HIDE DEF r
  <2>4. Keeps(L, Append(L, r), Overwritten(L, t, src, q))
    BY <2>1, AppendKeeps DEF Keeps
  <2> QED
    <3>1. AddsOne(L, Append(L, r), t, src)
      BY <2>1, <2>3, AppendKeeps DEF AddsOne
    <3> QED
      BY <2>1, <2>2, <2>4, <3>1, AppendKeeps
<1> QED
  BY <1>2, <1>3 DEF Fits

LEMMA BookedAdds ==
    ASSUME NEW L, NEW K, NEW t, NEW src, AddsOne(L, K, t, src)
    PROVE  Has(K, t, src) /\ Adds(L, K, {EntryOf(t, src)})
  BY DEF AddsOne, Has, Adds, Entry, EntryOf

(* What a trade takes over is a row, and one of a share count.             *)
LEMMA CandidateFits ==
    ASSUME NEW L \in Seq(Row), NEW t, Upgradable(L, t) # {}
    PROVE  /\ Candidate(L, t).to = "update" /\ Candidate(L, t) \in Plan
           /\ Candidate(L, t).arg \in DOMAIN L
           /\ L[Candidate(L, t).arg].src = "scraper"
<1>1. Upgradable(L, t) \in SUBSET DOMAIN L
  BY DEF Upgradable
<1>2. Oldest(L, Upgradable(L, t)) \in Upgradable(L, t)
  BY <1>1, OldestExists
<1>3. Oldest(L, Upgradable(L, t)) \in Int
  BY <1>1, <1>2
<1> QED
  BY <1>1, <1>2, <1>3 DEF Candidate, Upgradable, Plan

LEMMA DecisionFits ==
    ASSUME NEW L \in Seq(Row), NEW t
    PROVE  Fits(L, Decision(L, t)) /\ Fresh(L, Decision(L, t))
<1>1. CASE Upgradable(L, t) # {}
  BY <1>1, CandidateFits DEF Decision, Fits, Fresh
<1>2. CASE Upgradable(L, t) = {}
  <2>1. Total(L) \in Int
    BY TotalIsInt
  <2> QED
    BY <1>2, <2>1 DEF Decision, Fits, Fresh, Plan
<1> QED
  BY <1>1, <1>2

(* Under the lock it is decided from what is there: nobody loses a row.    *)
LEMMA DecidedKeeps ==
    ASSUME NEW L \in Seq(Row), NEW t \in 1..LastTrade, NEW src \in Form
    PROVE  /\ Booked(L, t, src, Decision(L, t)) \in Seq(Row)
           /\ DOMAIN L \subseteq DOMAIN Booked(L, t, src, Decision(L, t))
           /\ Keeps(L, Booked(L, t, src, Decision(L, t)), {})
           /\ AddsOne(L, Booked(L, t, src, Decision(L, t)), t, src)
<1> DEFINE q == Decision(L, t)
<1>1. Fits(L, q) /\ Fresh(L, q)
  BY DecisionFits
<1> HIDE DEF q
<1>2. Overwritten(L, t, src, q) = {}
  BY <1>1 DEF Overwritten, Fresh
<1>3. /\ Booked(L, t, src, q) \in Seq(Row)
      /\ DOMAIN L \subseteq DOMAIN Booked(L, t, src, q)
      /\ Keeps(L, Booked(L, t, src, q), Overwritten(L, t, src, q))
      /\ AddsOne(L, Booked(L, t, src, q), t, src)
  BY <1>1, BookedKeeps
<1> QED
  BY <1>2, <1>3 DEF q

\* g books the trades of S up to day m, one after the other.
Books(g, m, L, S, src) ==
    g = [t \in 0..m |-> IF t = 0 THEN L
                        ELSE IF t \in S
                             THEN Booked(g[t - 1], t, src, Decision(g[t - 1], t))
                             ELSE g[t - 1]]

LEMMA BooksExists ==
    ASSUME NEW L, NEW S, NEW src, NEW m \in Nat
    PROVE  \E g : Books(g, m, L, S, src)
<1> DEFINE B(K, t) == Booked(K, t, src, Decision(K, t))
           T == { n \in Nat : \E g : Books(g, n, L, S, src) }
<1> HIDE DEF B
<1>1. 0 \in T
  <2> DEFINE g == [t \in 0..0 |-> L]
  <2>1. Books(g, 0, L, S, src)
    BY DEF Books
  <2> QED
    BY <2>1
<1>2. ASSUME NEW n \in Nat, n \in T PROVE n + 1 \in T
  <2>1. PICK g : Books(g, n, L, S, src)
    BY <1>2
  <2>2. g = [t \in 0..n |-> IF t = 0 THEN L
                            ELSE IF t \in S THEN B(g[t - 1], t) ELSE g[t - 1]]
    BY <2>1 DEF Books, B
  <2> DEFINE h == [t \in 0..(n + 1) |->
                      IF t = 0 THEN L
                      ELSE IF t \in S THEN B(g[t - 1], t) ELSE g[t - 1]]
  <2>3. \A t \in 0..n : h[t] = g[t]
    BY <2>2
  <2>4. \A t \in 0..(n + 1) : t # 0 => t - 1 \in 0..n
    OBVIOUS
  <2>5. h = [t \in 0..(n + 1) |->
                IF t = 0 THEN L
                ELSE IF t \in S THEN B(h[t - 1], t) ELSE h[t - 1]]
    <3>1. \A t \in 0..(n + 1) : t # 0 => h[t - 1] = g[t - 1]
      BY <2>3, <2>4
    <3> HIDE DEF h
    <3>2. ASSUME NEW t \in 0..(n + 1)
          PROVE  (IF t = 0 THEN L
                  ELSE IF t \in S THEN B(g[t - 1], t) ELSE g[t - 1])
               = (IF t = 0 THEN L
                  ELSE IF t \in S THEN B(h[t - 1], t) ELSE h[t - 1])
      BY <3>1
    <3> QED
      BY <3>2 DEF h
  <2> HIDE DEF h
  <2>6. Books(h, n + 1, L, S, src)
    BY <2>5 DEF Books, B
  <2> QED
    BY <2>6
<1>3. Nat \subseteq T
  BY <1>1, <1>2, Induction
<1> QED
  BY <1>3

Entries(S, src) == { EntryOf(t, src) : t \in S }

(* Under the lock all trades are booked, and none is lost.                 *)
LEMMA BookedAllKeeps ==
    ASSUME NEW L \in Seq(Row), NEW S \in SUBSET (1..LastTrade), NEW src \in Form
    PROVE  /\ BookedAll(L, S, src) \in Seq(Row)
           /\ DOMAIN L \subseteq DOMAIN BookedAll(L, S, src)
           /\ Keeps(L, BookedAll(L, S, src), {})
           /\ Adds(L, BookedAll(L, S, src), Entries(S, src))
           /\ \A t \in S : Has(BookedAll(L, S, src), t, src)
           /\ S = {} => BookedAll(L, S, src) = L
<1> DEFINE g == CHOOSE f : Books(f, LastTrade, L, S, src)
           R == Entries(S, src)
<1>0. LastTrade \in Nat
  BY LedgerAssumption
<1>1. Books(g, LastTrade, L, S, src)
  BY <1>0, BooksExists
<1>2. BookedAll(L, S, src) = g[LastTrade]
  BY DEF BookedAll, Books
<1> HIDE DEF g
<1> DEFINE Good(t) == /\ g[t] \in Seq(Row) /\ DOMAIN L \subseteq DOMAIN g[t]
                      /\ Keeps(L, g[t], {}) /\ Adds(L, g[t], R)
                      /\ \A u \in S : u <= t => Has(g[t], u, src)
                      /\ S = {} => g[t] = L
           T == { t \in Nat : t <= LastTrade => Good(t) }
<1>3. 0 \in T
  <2>1. g[0] = L
    BY <1>0, <1>1 DEF Books
  <2>2. \A u \in S : ~ (u <= 0)
    BY <1>0
  <2> QED
    BY <2>1, <2>2 DEF Keeps, Adds
<1>4. ASSUME NEW t \in Nat, t \in T PROVE t + 1 \in T
  <2> SUFFICES ASSUME t + 1 <= LastTrade PROVE Good(t + 1)
    OBVIOUS
  <2>1. Good(t)
    BY <1>0, <1>4
  <2>2. t + 1 \in 0..LastTrade /\ t + 1 # 0 /\ (t + 1) - 1 = t
    BY <1>0
  <2> DEFINE K == Booked(g[t], t + 1, src, Decision(g[t], t + 1))
  <2>3. g[t + 1] = IF t + 1 \in S THEN K ELSE g[t]
    BY <1>1, <2>2 DEF Books
  <2>4. \A u \in S : u <= t + 1 => u <= t \/ u = t + 1
    BY <1>0
  <2>5. CASE t + 1 \in S
    <3>3. /\ K \in Seq(Row) /\ DOMAIN g[t] \subseteq DOMAIN K
          /\ Keeps(g[t], K, {}) /\ AddsOne(g[t], K, t + 1, src)
      <4> DEFINE L1 == g[t]
                 t1 == t + 1
      <4>1. L1 \in Seq(Row) /\ t1 \in 1..LastTrade
        BY <2>1, <2>5
      <4> HIDE DEF L1, t1
      <4>2. /\ Booked(L1, t1, src, Decision(L1, t1)) \in Seq(Row)
            /\ DOMAIN L1 \subseteq DOMAIN Booked(L1, t1, src, Decision(L1, t1))
            /\ Keeps(L1, Booked(L1, t1, src, Decision(L1, t1)), {})
            /\ AddsOne(L1, Booked(L1, t1, src, Decision(L1, t1)), t1, src)
        BY <4>1, DecidedKeeps
      <4> QED
        BY <4>2 DEF L1, t1
    <3> HIDE DEF K
    <3>4. Has(K, t + 1, src) /\ Adds(g[t], K, {EntryOf(t + 1, src)})
      BY <3>3, BookedAdds
    <3>5. Adds(g[t], K, R)
      <4>1. EntryOf(t + 1, src) \in R
        BY <2>5 DEF Entries
      <4> QED
        BY <3>4, <4>1 DEF Adds
    <3>6. Keeps(L, K, {}) /\ Adds(L, K, R)
      BY <2>1, <3>3, <3>5, KeepsTransitive, AddsTransitive
    <3>7. \A u \in S : u <= t => Has(K, u, src)
      BY <2>1, <3>3, HasStays
    <3> QED
      BY <2>1, <2>3, <2>4, <2>5, <3>3, <3>4, <3>6, <3>7
  <2>6. CASE t + 1 \notin S
    BY <2>1, <2>3, <2>4, <2>6
  <2> QED
    BY <2>5, <2>6
<1> HIDE DEF T
<1>5. Nat \subseteq T
  BY <1>3, <1>4, Induction
<1>6. Good(LastTrade)
  BY <1>0, <1>5 DEF T
<1>7. \A u \in S : u <= LastTrade
  BY <1>0
<1> QED
  BY <1>2, <1>6, <1>7

-------------------------------------------------------------------------------
(* The steps that write the ledger.                                        *)

\* A decision to upgrade is about a row of the ledger.
PlansFit == \A p \in Worker \cup Request :
                plan[p].to = "update" => plan[p].arg \in DOMAIN ledger

BaseInv == TypeOK /\ PlansFit

\* A step changes the row of a trade only if a commit had chosen that row.
TradesStay ==
    \A n \in DOMAIN ledger : ledger[n].src # "scraper" =>
        \/ ledger'[n] = ledger[n]
        \/ \E p \in Worker \cup Request : plan[p].to = "update" /\ plan[p].arg = n

\* What such a step does to the rows of trades, and to what is noted as lost.
LedgerStep ==
    /\ ledger' \in Seq(Row) /\ DOMAIN ledger \subseteq DOMAIN ledger'
    /\ lost \subseteq lost' /\ lost' \subseteq [when : Day, src : Form]
    /\ Keeps(ledger, ledger', lost') /\ TradesStay

LEMMA CommitWrites ==
    ASSUME BaseInv, NEW p \in Worker \cup Request, NEW t \in 1..LastTrade,
           NEW S \in SUBSET (1..LastTrade), NEW src \in Form, Commit(p, t, S, src)
    PROVE  /\ LedgerStep
           /\ Adds(ledger, ledger', Entries(S \cup {t}, src))
           /\ \A u \in S \cup {t} : Has(ledger', u, src)
           /\ S = {} => AddsOne(ledger, ledger', t, src)
<1> DEFINE q == plan[p]
           K == Booked(ledger, t, src, q)
           X == Overwritten(ledger, t, src, q)
<1>1. /\ ledger \in Seq(Row) /\ lost \subseteq [when : Day, src : Form]
      /\ q \in Plan
  BY DEF BaseInv, TypeOK
<1>2. Fits(ledger, q)
  BY <1>1 DEF BaseInv, PlansFit, Commit, Fits
<1>3. ledger' = BookedAll(K, S, src) /\ lost' = lost \cup X
  BY DEF Commit
<1>4. X \subseteq [when : Day, src : Form]
  <2>1. ASSUME q.to = "update", ledger[q.arg].src # "scraper"
        PROVE  [when |-> ledger[q.arg].when, src |-> ledger[q.arg].src]
                  \in [when : Day, src : Form]
    <3>1. ledger[q.arg] \in Row
      BY <1>1, <1>2, <2>1 DEF Fits
    <3> QED
      BY <2>1, <3>1 DEF Row, Source, Form
  <2> QED
    BY <2>1 DEF Overwritten
<1> HIDE DEF q
<1>5. /\ K \in Seq(Row) /\ DOMAIN ledger \subseteq DOMAIN K
      /\ Keeps(ledger, K, X) /\ AddsOne(ledger, K, t, src)
      /\ \A n \in DOMAIN ledger : K[n] = ledger[n] \/ (q.to = "update" /\ q.arg = n)
  BY <1>1, <1>2, BookedKeeps
<1> HIDE DEF K, X
<1>6. /\ ledger' \in Seq(Row) /\ DOMAIN K \subseteq DOMAIN ledger'
      /\ Keeps(K, ledger', {}) /\ Adds(K, ledger', Entries(S, src))
      /\ \A u \in S : Has(ledger', u, src)
      /\ S = {} => ledger' = K
  BY <1>3, <1>5, BookedAllKeeps
<1>7. Has(K, t, src) /\ Adds(ledger, K, {EntryOf(t, src)})
  BY <1>5, BookedAdds
<1>8. Has(ledger', t, src)
  BY <1>6, <1>7, HasStays
<1>9. Adds(ledger, ledger', Entries(S \cup {t}, src))
  <2>1. /\ Entries(S, src) \subseteq Entries(S \cup {t}, src)
        /\ EntryOf(t, src) \in Entries(S \cup {t}, src)
    BY DEF Entries
  <2>2. /\ Adds(K, ledger', Entries(S \cup {t}, src))
        /\ Adds(ledger, K, Entries(S \cup {t}, src))
    BY <1>6, <1>7, <2>1 DEF Adds
  <2> QED
    BY <2>2, AddsTransitive
<1>10. Keeps(ledger, ledger', lost')
  <2>1. Keeps(ledger, ledger', X)
    BY <1>5, <1>6, KeepsTransitive
  <2> QED
    BY <1>3, <2>1 DEF Keeps
<1>11. TradesStay
  <2>1. ASSUME NEW n \in DOMAIN ledger, ledger[n].src # "scraper", K[n] = ledger[n]
        PROVE  ledger'[n] = ledger[n]
    BY <1>5, <1>6, <2>1 DEF Keeps
  <2> QED
    BY <1>5, <2>1 DEF TradesStay, q
<1>12. LedgerStep
  BY <1>1, <1>3, <1>4, <1>5, <1>6, <1>10, <1>11 DEF LedgerStep
<1> QED
  BY <1>5, <1>6, <1>8, <1>9, <1>12

LEMMA CountIsNat ==
    ASSUME NEW S \in SUBSET (1..LastTrade) PROVE Cardinality(S) \in Nat
<1>1. IsFiniteSet(1..LastTrade)
  BY LedgerAssumption, FS_Interval
<1> QED
  BY <1>1, FS_Subset, FS_CardinalityType

LEMMA LogWrites ==
    ASSUME BaseInv, NEW w \in Worker, Log(w)
    PROVE  LedgerStep /\ Adds(ledger, ledger', {[when |-> seen[w].day, src |-> "scraper"]})
<1> DEFINE delta == seen[w].shares - LastShares
           r     == [when |-> seen[w].day, src |-> "scraper", delta |-> delta,
                     total |-> seen[w].shares]
<1>1. /\ ledger' = IF delta = 0 THEN ledger ELSE Append(ledger, r)
      /\ lost' = lost /\ phase[w] = "logging"
  BY DEF Log
<1>2. /\ ledger \in Seq(Row) /\ lost \subseteq [when : Day, src : Form]
      /\ seen[w] \in [day : 0..LastDay, shares : Nat] /\ seen[w].day # 0
  BY <1>1 DEF BaseInv, TypeOK
<1>3. r \in Row /\ Entry(<<r>>, 1) = [when |-> seen[w].day, src |-> "scraper"]
  <2>1. seen[w].shares \in Nat /\ LastShares \in Int
    BY <1>2, TotalIsInt DEF LastShares
  <2>2. seen[w].day \in Day
    BY <1>2, LedgerAssumption DEF Day
  <2> QED
    BY <2>1, <2>2 DEF Row, Source, Entry
<1> HIDE DEF r, delta
<1>4. CASE delta = 0
  BY <1>1, <1>2, <1>4 DEF Keeps, Adds, LedgerStep, TradesStay
<1>5. CASE delta # 0
  <2>1. /\ ledger' = Append(ledger, r) /\ ledger' \in Seq(Row)
        /\ DOMAIN ledger \subseteq DOMAIN ledger'
        /\ \A n \in DOMAIN ledger : ledger'[n] = ledger[n]
        /\ ledger'[Len(ledger) + 1] = r
        /\ \A n \in DOMAIN ledger' \ {Len(ledger) + 1} : n \in DOMAIN ledger
    BY <1>1, <1>2, <1>3, <1>5, AppendKeeps
  <2>2. Keeps(ledger, ledger', lost')
    BY <2>1 DEF Keeps
  <2>3. Entry(ledger', Len(ledger) + 1) = [when |-> seen[w].day, src |-> "scraper"]
    BY <1>3, <2>1 DEF Entry
  <2>4. Adds(ledger, ledger', {[when |-> seen[w].day, src |-> "scraper"]})
    BY <2>1, <2>3 DEF Adds
  <2> QED
    BY <1>1, <1>2, <2>1, <2>2, <2>4 DEF LedgerStep, TradesStay
<1> QED
  BY <1>4, <1>5

(* What a request writes.                                                  *)
LEMMA RequestWrites ==
    ASSUME BaseInv, NEW r \in Request, NEW t, Write(r, t)
    PROVE  /\ LedgerStep /\ serving[r] \in Doc /\ form[serving[r]] \in Form
           /\ pages[serving[r]] \in SUBSET (1..LastTrade)
           /\ Adds(ledger, ledger', Entries(pages[serving[r]], form[serving[r]]))
           /\ \A u \in pages[serving[r]] : Has(ledger', u, form[serving[r]])
<1> DEFINE S == pages[serving[r]]
           src == form[serving[r]]
<1>1. t \in S /\ done[r] = "read" /\ Commit(r, t, S \ {t}, src)
  BY DEF Write, IsFirst
<1>2. serving[r] \in Doc
  BY <1>1 DEF BaseInv, TypeOK
<1>3. S \in SUBSET (1..LastTrade) /\ src \in Form
  BY <1>2 DEF BaseInv, TypeOK
<1>4. (S \ {t}) \cup {t} = S
  BY <1>1
<1> HIDE DEF S, src
<1>5. /\ LedgerStep
      /\ Adds(ledger, ledger', Entries((S \ {t}) \cup {t}, src))
      /\ \A u \in (S \ {t}) \cup {t} : Has(ledger', u, src)
  <2>1. t \in 1..LastTrade /\ S \ {t} \in SUBSET (1..LastTrade)
    BY <1>1, <1>3
  <2> QED
    BY <1>1, <1>3, <2>1, CommitWrites
<1> QED
  BY <1>2, <1>3, <1>4, <1>5 DEF S, src

(* What a run of the connector confirms.                                   *)
LEMMA ConfirmWrites ==
    ASSUME BaseInv, NEW w \in Worker, NEW t \in files[w], Confirm(w, t)
    PROVE  /\ LedgerStep /\ t \in 1..LastTrade
           /\ AddsOne(ledger, ledger', t, "confirmation")
<1>1. t \in 1..LastTrade
  BY DEF BaseInv, TypeOK
<1>2. Commit(w, t, {}, "confirmation") /\ "confirmation" \in Form
  BY DEF Confirm, Form
<1> QED
  BY <1>1, <1>2, CommitWrites

(* Every step keeps the trades, or notes whose row it takes.               *)
LEMMA StepKeeps ==
    ASSUME BaseInv, [Next]_vars PROVE LedgerStep
<1>1. ASSUME NEW w \in Worker, Log(w) PROVE LedgerStep
  BY <1>1, LogWrites
<1>2. ASSUME NEW w \in Worker, NEW t \in files[w], Confirm(w, t) PROVE LedgerStep
  BY <1>2, ConfirmWrites
<1>3. ASSUME NEW r \in Request, NEW t, Write(r, t) PROVE LedgerStep
  BY <1>3, RequestWrites
<1>4. CASE UNCHANGED <<ledger, lost>>
  BY <1>4 DEF BaseInv, TypeOK, Keeps, LedgerStep, TradesStay
<1>5. \/ \E w \in Worker : Log(w) \/ \E t \in files[w] : Confirm(w, t)
      \/ \E r \in Request, t \in trades : Write(r, t)
      \/ UNCHANGED <<ledger, lost>>
  BY DEF Next, Run, Serve, Decide, Look, ReadTotal, Tick, Buy, Crash, List, Count, Abort,
         Skip, Stage, Insert, Read, Mark, Finish, Refuse, Answer, vars, book
<1> QED
  BY <1>1, <1>2, <1>3, <1>4, <1>5

-------------------------------------------------------------------------------
(* Types.                                                                  *)

LEMMA InitBase == Init => BaseInv
<1> SUFFICES ASSUME Init PROVE BaseInv
  OBVIOUS
<1>1. ledger \in Seq(Row)
  BY DEF Init
<1>2. today \in 1..LastDay /\ runs \in 0..MaxRuns /\ faults \in 0..MaxFaults
  BY LedgerAssumption DEF Init
<1>7. lost \subseteq [when : Day, src : Form] /\ overlapped \in BOOLEAN
  BY DEF Init
<1>3. /\ phase \in [Worker -> {"idle", "confirming", "scraping", "logging"}]
      /\ files \in [Worker -> SUBSET trades]
      /\ \A w \in Worker : files[w] # {} => phase[w] = "confirming"
      /\ \A w \in Worker : phase[w] = "idle"
  BY DEF Init
<1>4. seen \in [Worker -> [day : 0..LastDay, shares : Nat]]
  BY LedgerAssumption DEF Init, Nothing
<1>5. /\ form \in [Doc -> Form] /\ pages \in [Doc -> SUBSET trades]
      /\ drop \in [Doc -> {"none", "staged", "committed"}]
      /\ serving \in [Request -> Doc \cup {Idle}]
      /\ done \in [Request -> {"none", "read", "written", "marked"}]
      /\ \A r \in Request : serving[r] = Idle <=> done[r] = "none"
  BY DEF Init, Form
<1>6. plan \in [Worker \cup Request -> Plan] /\ PlansFit
  BY DEF Init, Plan, Undecided, PlansFit
<1> QED
  BY <1>1, <1>2, <1>3, <1>4, <1>5, <1>6, <1>7 DEF Init, TypeOK, BaseInv

(* Decisions: what is chosen is a row, and rows are not removed.           *)
LEMMA PlanTypes ==
    ASSUME BaseInv, [Next]_vars
    PROVE  plan' \in [Worker \cup Request -> Plan] /\ PlansFit'
<1>1. /\ plan \in [Worker \cup Request -> Plan] /\ ledger \in Seq(Row)
      /\ PlansFit /\ DOMAIN ledger \subseteq DOMAIN ledger'
  BY StepKeeps DEF BaseInv, TypeOK, LedgerStep
<1>2. Undecided \in Plan /\ Undecided.to # "update"
  BY DEF Undecided, Plan
<1>3. ASSUME NEW p \in Worker \cup Request, NEW t, Look(p, t)
      PROVE  plan' \in [Worker \cup Request -> Plan] /\ PlansFit'
  <2>1. plan' = [plan EXCEPT ![p] = Candidate(ledger, t)] /\ ledger' = ledger
    BY <1>3 DEF Look
  <2>2. /\ Candidate(ledger, t) \in Plan
        /\ Candidate(ledger, t).to = "update" => Candidate(ledger, t).arg \in DOMAIN ledger
    <3>1. CASE Upgradable(ledger, t) = {}
      BY <3>1 DEF Candidate, Plan
    <3>2. CASE Upgradable(ledger, t) # {}
      BY <1>1, <3>2, CandidateFits
    <3> QED
      BY <3>1, <3>2
  <2> HIDE DEF Candidate
  <2> QED
    BY <1>1, <2>1, <2>2 DEF PlansFit
<1>4. ASSUME NEW p \in Worker \cup Request, ReadTotal(p)
      PROVE  plan' \in [Worker \cup Request -> Plan] /\ PlansFit'
  <2>1. Total(ledger) \in Int
    BY <1>1, TotalIsInt
  <2>2. [to |-> "insert", arg |-> Total(ledger)] \in Plan
    BY <2>1 DEF Plan
  <2> QED
    BY <1>1, <1>4, <2>2 DEF ReadTotal, PlansFit
<1>5. CASE \E p \in Worker \cup Request : plan' = [plan EXCEPT ![p] = Undecided]
  BY <1>1, <1>2, <1>5 DEF PlansFit
<1>6. CASE plan' = [p \in Worker \cup Request |-> Undecided]
  BY <1>2, <1>6 DEF PlansFit
<1>7. CASE plan' = plan
  BY <1>1, <1>7 DEF PlansFit
<1>8. \/ \E p \in Worker \cup Request, t \in trades : Look(p, t)
      \/ \E p \in Worker \cup Request : ReadTotal(p)
      \/ \E p \in Worker \cup Request : plan' = [plan EXCEPT ![p] = Undecided]
      \/ plan' = [p \in Worker \cup Request |-> Undecided]
      \/ plan' = plan
  <2>1. ASSUME NEW w \in Worker, Run(w)
        PROVE  \/ \E t \in trades : Look(w, t)
               \/ ReadTotal(w)
               \/ plan' = [plan EXCEPT ![w] = Undecided]
               \/ plan' = plan
    BY <2>1 DEF Run, Decide, List, Count, Log, Abort, Confirm, Commit, Skip, book
  <2>2. ASSUME NEW r \in Request, Serve(r)
        PROVE  \/ \E t \in trades : Look(r, t)
               \/ ReadTotal(r)
               \/ plan' = [plan EXCEPT ![r] = Undecided]
               \/ plan' = plan
    BY <2>2 DEF Serve, Decide, Mark, Finish, Refuse, Answer, Write, Commit, book
  <2>3. CASE Tick \/ Buy \/ Crash
    BY <2>3 DEF Tick, Buy, Crash, book
  <2>4. CASE \/ \E d \in Doc, f \in Form, S \in SUBSET trades : Stage(d, f, S)
             \/ \E d \in Doc : Insert(d)
             \/ \E r \in Request, d \in Doc : Read(r, d)
    BY <2>4 DEF Stage, Insert, Read, book
  <2>5. CASE UNCHANGED vars
    BY <2>5 DEF vars, book
  <2> QED
    BY <2>1, <2>2, <2>3, <2>4, <2>5 DEF Next
<1> QED
  BY <1>3, <1>4, <1>5, <1>6, <1>7, <1>8

(* The broker, the connector and the end of the process.                   *)
LEMMA ConnectorTypes ==
    ASSUME BaseInv, Tick \/ Buy \/ Crash \/ \E w \in Worker : Run(w)
    PROVE  TypeOK'
<1>0. /\ ledger' \in Seq(Row) /\ lost' \subseteq [when : Day, src : Form]
      /\ plan' \in [Worker \cup Request -> Plan]
  BY StepKeeps, PlanTypes DEF Next, LedgerStep
<1> USE LedgerAssumption, <1>0 DEF BaseInv, TypeOK, broker, book, connector, documents
<1>1. CASE Tick
  BY <1>1 DEF Tick
<1>2. CASE Buy
  BY <1>2 DEF Buy
<1>3. CASE Crash
  BY <1>3 DEF Crash, Nothing
<1>4. ASSUME NEW w \in Worker, List(w) PROVE TypeOK'
  <2>1. PICK found \in SUBSET Unprocessed :
           /\ files' = [files EXCEPT ![w] = found]
           /\ phase' = [phase EXCEPT ![w] = IF found = {} THEN "scraping"
                                            ELSE "confirming"]
           /\ seen' = IF found = {} THEN [seen EXCEPT ![w].day = today] ELSE seen
    BY <1>4 DEF List
  <2>2. found \subseteq trades
    BY DEF Unprocessed
  <2>3. files' \in [Worker -> SUBSET trades]
    BY <2>1, <2>2
  <2>4. /\ phase' \in [Worker -> {"idle", "confirming", "scraping", "logging"}]
        /\ \A v \in Worker : files'[v] # {} => phase'[v] = "confirming"
    BY <2>1
  <2>5. seen' \in [Worker -> [day : 0..LastDay, shares : Nat]]
    <3>1. seen[w] \in [day : 0..LastDay, shares : Nat] /\ today \in 0..LastDay
      OBVIOUS
    <3>2. [seen[w] EXCEPT !.day = today] \in [day : 0..LastDay, shares : Nat]
      BY <3>1
    <3>3. seen' = seen \/ seen' = [seen EXCEPT ![w] = [seen[w] EXCEPT !.day = today]]
      BY <2>1
    <3> QED
      BY <3>2, <3>3
  <2>6. \A v \in Worker : phase'[v] \in {"scraping", "logging"} => seen'[v].day # 0
    <3>1. ASSUME NEW v \in Worker, v # w PROVE phase'[v] = phase[v] /\ seen'[v] = seen[v]
      BY <2>1, <3>1
    <3>2. phase'[w] = "scraping" => found = {}
      BY <2>1
    <3>3. found = {} => seen'[w].day = today
      BY <2>1
    <3>4. today # 0 /\ phase'[w] # "logging"
      BY <2>1
    <3> QED
      BY <3>1, <3>2, <3>3, <3>4
  <2>7. /\ runs' \in 0..MaxRuns
        /\ overlapped' \in BOOLEAN
        /\ faults' \in 0..MaxFaults
    <3>1. runs' \in 0..MaxRuns
      BY <1>4 DEF List
    <3>2. overlapped' \in BOOLEAN
      BY <1>4 DEF List
    <3>3. /\ Busy => faults < MaxFaults
          /\ faults' = IF Busy THEN faults + 1 ELSE faults
      BY <1>4 DEF List
    <3>4. faults \in 0..MaxFaults /\ MaxFaults \in Nat
      BY LedgerAssumption
    <3> QED
      BY <3>1, <3>2, <3>3, <3>4
  <2>8. UNCHANGED <<broker, book, documents>>
    BY <1>4 DEF List
  <2> QED
    BY <2>3, <2>4, <2>5, <2>6, <2>7, <2>8
<1>5. ASSUME NEW w \in Worker, Count(w) PROVE TypeOK'
  <2> DEFINE s == [seen[w] EXCEPT !.shares = Cardinality(trades)]
  <2>1. seen[w] \in [day : 0..LastDay, shares : Nat] /\ phase[w] = "scraping"
    BY <1>5 DEF Count
  <2>2. Cardinality(trades) \in Nat
    BY CountIsNat
  <2>3. s \in [day : 0..LastDay, shares : Nat] /\ s.day # 0
    BY <2>1, <2>2
  <2>4. seen' = [seen EXCEPT ![w] = s] /\ phase' = [phase EXCEPT ![w] = "logging"]
    BY <1>5 DEF Count
  <2> HIDE DEF s
  <2>5. /\ seen' \in [Worker -> [day : 0..LastDay, shares : Nat]]
        /\ phase' \in [Worker -> {"idle", "confirming", "scraping", "logging"}]
        /\ \A v \in Worker : files[v] # {} => phase'[v] = "confirming"
        /\ \A v \in Worker : phase'[v] \in {"scraping", "logging"} => seen'[v].day # 0
    BY <2>1, <2>3, <2>4
  <2>6. UNCHANGED <<broker, files, runs, overlapped, documents, faults>>
    BY <1>5 DEF Count
  <2> QED
    BY <2>5, <2>6
<1>6. ASSUME NEW w \in Worker, Log(w) PROVE TypeOK'
  BY <1>6 DEF Log, End, Nothing
<1>7. ASSUME NEW w \in Worker, Abort(w) PROVE TypeOK'
  BY <1>7 DEF Abort, End, Nothing
<1>8. ASSUME NEW w \in Worker, NEW t \in files[w], Leave(w, t)
      PROVE  /\ files' \in [Worker -> SUBSET trades]
             /\ phase' \in [Worker -> {"idle", "confirming", "scraping", "logging"}]
             /\ \A v \in Worker : files'[v] # {} => phase'[v] = "confirming"
             /\ \A v \in Worker : phase'[v] \in {"scraping", "logging"} => seen'[v].day # 0
  BY <1>8 DEF Leave
<1>9. ASSUME NEW w \in Worker, NEW t \in files[w], Confirm(w, t) PROVE TypeOK'
  <2>1. Leave(w, t) /\ UNCHANGED faults
    BY <1>9 DEF Confirm
  <2> QED
    BY <2>1, <1>8 DEF Leave
<1>10. ASSUME NEW w \in Worker, NEW t \in files[w], Skip(w, t) PROVE TypeOK'
  <2>1. faults' \in 0..MaxFaults /\ Leave(w, t) /\ UNCHANGED book
    BY <1>10 DEF Skip
  <2> QED
    BY <2>1, <1>8 DEF Leave
<1>11. ASSUME NEW w \in Worker, Decide(w) PROVE TypeOK'
  <2>1. UNCHANGED <<broker, connector, documents, faults>>
    BY <1>11 DEF Decide, Look, ReadTotal
  <2> QED
    BY <2>1
<1> QED
  BY <1>1, <1>2, <1>3, <1>4, <1>5, <1>6, <1>7, <1>9, <1>10, <1>11 DEF Run

(* The documents.                                                          *)
LEMMA DocumentTypes ==
    ASSUME BaseInv,
           \/ \E d \in Doc, f \in Form, S \in SUBSET trades : Stage(d, f, S)
           \/ \E d \in Doc : Insert(d)
           \/ \E r \in Request, d \in Doc : Read(r, d)
           \/ \E r \in Request : Serve(r)
    PROVE  TypeOK'
<1>0. /\ ledger' \in Seq(Row) /\ lost' \subseteq [when : Day, src : Form]
      /\ plan' \in [Worker \cup Request -> Plan]
  BY StepKeeps, PlanTypes DEF Next, LedgerStep
<1> USE LedgerAssumption, <1>0 DEF BaseInv, TypeOK, broker, book, connector, documents
<1>1. ASSUME NEW d \in Doc, NEW f \in Form, NEW S \in SUBSET trades, Stage(d, f, S)
      PROVE  TypeOK'
  BY <1>1 DEF Stage
<1>2. ASSUME NEW d \in Doc, Insert(d) PROVE TypeOK'
  BY <1>2 DEF Insert
<1>3. ASSUME NEW r \in Request, NEW d \in Doc, Read(r, d) PROVE TypeOK'
  BY <1>3 DEF Read
<1>4. ASSUME NEW r \in Request, NEW t \in trades, Write(r, t) PROVE TypeOK'
  BY <1>4 DEF Write, IsFirst
<1>5. ASSUME NEW r \in Request, Mark(r) PROVE TypeOK'
  BY <1>5 DEF Mark
<1>6. ASSUME NEW r \in Request, Finish(r) PROVE TypeOK'
  BY <1>6 DEF Finish, Answer
<1>7. ASSUME NEW r \in Request, Refuse(r) PROVE TypeOK'
  BY <1>7 DEF Refuse, Answer
<1>8. ASSUME NEW r \in Request, Decide(r) PROVE TypeOK'
  <2>1. UNCHANGED <<broker, connector, documents, faults>>
    BY <1>8 DEF Decide, Look, ReadTotal
  <2> QED
    BY <2>1
<1> QED
  BY <1>1, <1>2, <1>3, <1>4, <1>5, <1>6, <1>7, <1>8 DEF Serve

LEMMA NextBase == BaseInv /\ [Next]_vars => BaseInv'
<1> SUFFICES ASSUME BaseInv, [Next]_vars PROVE BaseInv'
  OBVIOUS
<1>1. PlansFit'
  BY PlanTypes
<1>2. CASE UNCHANGED vars
  BY <1>1, <1>2 DEF BaseInv, TypeOK, vars, broker, book, connector, documents
<1> QED
  BY <1>1, <1>2, ConnectorTypes, DocumentTypes DEF Next, BaseInv

LEMMA BaseAlways == Spec => []BaseInv
  BY InitBase, NextBase, PTL DEF Spec

(* Every variable keeps its type: whatever the ledger holds, a trade can   *)
(* be booked into it, and its newest total is a number.                    *)
THEOREM SpecTypeOK == Spec => []TypeOK
<1>1. BaseInv => TypeOK
  BY DEF BaseInv
<1> QED
  BY <1>1, BaseAlways, PTL

(* The row of a trade is never removed, and no step changes it but the     *)
(* write of a commit that had chosen this very row, as a share count then; *)
(* no share count, failure or crash touches it, and no other upgrade does. *)
THEOREM SpecTradesStay ==
    Spec => [][TradesStay /\ Keeps(ledger, ledger', lost')]_vars
<1>1. BaseInv /\ [Next]_vars => [TradesStay /\ Keeps(ledger, ledger', lost')]_vars
  BY StepKeeps DEF LedgerStep
<1> QED
  BY <1>1, BaseAlways, PTL DEF Spec

-------------------------------------------------------------------------------
(* The connector confirms a trade once.                                    *)

\* Without an overlap one run at most is under way, and the trades of the files
\* that it still has have no confirmed row, unless it was uploaded: they are
\* ahead of the watermark.
Alone == ~overlapped =>
    \A v, w \in Worker : phase[v] # "idle" /\ phase[w] # "idle" => v = w

Ahead == ~overlapped =>
    \A w \in Worker : \A t \in files[w] : Has(ledger, t, "confirmation") => t \in ByHand

OnceInv == BaseInv /\ Alone /\ Ahead /\ ConfirmedOnce

LEMMA UnprocessedIsNew ==
    ASSUME TypeOK, NEW t \in Unprocessed PROVE ~Has(ledger, t, "confirmation")
<1>0. t \in Nat /\ Lag \in Nat
  BY LedgerAssumption DEF TypeOK, Unprocessed
<1> SUFFICES ASSUME Has(ledger, t, "confirmation") PROVE FALSE
  OBVIOUS
<1>1. t + Lag \in Watermark
  BY DEF Has, Settles, Watermark, Rows
<1>2. t > t + Lag
  BY <1>1 DEF Unprocessed
<1> QED
  BY <1>0, <1>2

(* What was uploaded by hand stays uploaded.                               *)
LEMMA ByHandStays ==
    ASSUME BaseInv, [Next]_vars
    PROVE  /\ ByHand \subseteq ByHand'
           /\ ByHand' \subseteq 1..LastTrade
<1>1. /\ pages \in [Doc -> SUBSET trades] /\ form \in [Doc -> Form]
      /\ pages' \in [Doc -> SUBSET trades'] /\ trades' \subseteq 1..LastTrade
  BY NextBase DEF BaseInv, TypeOK
<1>2. ASSUME NEW d \in Doc, pages[d] # {} PROVE pages'[d] = pages[d] /\ form'[d] = form[d]
  <2>1. CASE \E e \in Doc, f \in Form, S \in SUBSET trades : Stage(e, f, S)
    BY <1>1, <1>2, <2>1 DEF Stage
  <2>2. CASE UNCHANGED <<pages, form>>
    BY <2>2
  <2>3. \/ \E e \in Doc, f \in Form, S \in SUBSET trades : Stage(e, f, S)
        \/ UNCHANGED <<pages, form>>
    <3>1. ASSUME NEW w \in Worker, List(w) PROVE UNCHANGED <<pages, form>>
      BY <3>1 DEF List, documents
    <3> QED
      BY <3>1 DEF Next, Run, Serve, Decide, Look, ReadTotal, Tick, Buy, Crash, Count, Log,
             Abort, Confirm, Skip, Leave, Insert, Read, Write, Mark, Finish, Refuse, Answer,
             vars, documents
  <2> QED
    BY <2>1, <2>2, <2>3
<1>3. ASSUME NEW t \in ByHand PROVE t \in ByHand'
  <2>1. PICK d \in Doc : form[d] = "confirmation" /\ t \in pages[d]
    BY DEF ByHand
  <2>2. form'[d] = "confirmation" /\ t \in pages'[d]
    BY <1>2, <2>1
  <2> QED
    BY <2>2 DEF ByHand
<1>4. ByHand' \subseteq 1..LastTrade
  BY <1>1 DEF ByHand
<1> QED
  BY <1>3, <1>4

(* A run confirms the first trade it still has.                            *)
LEMMA ConfirmKeepsOnce ==
    ASSUME OnceInv, NEW w \in Worker, NEW t \in files[w], Confirm(w, t)
    PROVE  Alone' /\ Ahead' /\ ConfirmedOnce'
<1> USE DEF OnceInv
<1>0. /\ t \in 1..LastTrade /\ phase[w] # "idle" /\ UNCHANGED overlapped
      /\ files \in [Worker -> SUBSET trades] /\ trades \subseteq 1..LastTrade
      /\ phase \in [Worker -> {"idle", "confirming", "scraping", "logging"}]
      /\ \A v \in Worker : files[v] # {} => phase[v] = "confirming"
  BY DEF BaseInv, TypeOK, Confirm, Leave
<1>1. files' = [files EXCEPT ![w] = @ \ {t}] /\ UNCHANGED <<form, pages>>
  BY DEF Confirm, Leave, documents
<1>2. \A v \in Worker : phase'[v] # "idle" => phase[v] # "idle"
  BY <1>0 DEF Confirm, Leave
<1>3. Alone'
  BY <1>0, <1>2 DEF Alone
<1>4. PICK o \in DOMAIN ledger' :
         /\ ledger'[o].src = "confirmation" /\ ledger'[o].when = Settles(t)
         /\ \A n \in DOMAIN ledger' \ {o} : n \in DOMAIN ledger /\ ledger'[n] = ledger[n]
  BY ConfirmWrites DEF AddsOne
<1>5. ByHand' = ByHand
  BY <1>1 DEF ByHand
<1>6. ASSUME ~overlapped, NEW v \in Worker, NEW u \in files'[v],
             Has(ledger', u, "confirmation")
      PROVE  u \in ByHand
  <2>1. u \in files[v] /\ v = w /\ u # t
    BY <1>0, <1>1, <1>6 DEF Alone
  <2>2. Settles(u) # Settles(t)
    BY <1>0, <2>1, LedgerAssumption DEF Settles
  <2>3. Has(ledger, u, "confirmation")
    BY <1>4, <1>6, <2>2 DEF Has
  <2> QED
    BY <1>6, <2>1, <2>3 DEF Ahead
<1>7. \A u : Has(ledger, u, "confirmation")' <=> Has(ledger', u, "confirmation")
  BY DEF Has, Settles
<1>8. Ahead'
  BY <1>0, <1>5, <1>6, <1>7 DEF Ahead
<1>9. ASSUME ~overlapped, NEW m \in DOMAIN ledger', NEW n \in DOMAIN ledger',
             ledger'[m].src = "confirmation", ledger'[n].src = "confirmation",
             ledger'[m].when = ledger'[n].when, m # n
      PROVE  \E u \in ByHand : ledger'[m].when = Settles(u)
  <2>1. CASE m # o /\ n # o
    <3>1. /\ m \in DOMAIN ledger /\ ledger'[m] = ledger[m]
          /\ n \in DOMAIN ledger /\ ledger'[n] = ledger[n]
      BY <1>4, <2>1
    <3>2. m \in Rows("confirmation") /\ n \in Rows("confirmation")
      BY <1>9, <3>1 DEF Rows
    <3> QED
      BY <1>9, <3>1, <3>2 DEF ConfirmedOnce
  <2>2. CASE m = o \/ n = o
    <3>1. Has(ledger, t, "confirmation") /\ ledger'[m].when = Settles(t)
      BY <1>4, <1>9, <2>2 DEF Has
    <3> QED
      BY <1>9, <3>1 DEF Ahead
  <2> QED
    BY <2>1, <2>2
<1>10. ConfirmedOnce'
  <2>1. \A u : Settles(u)' = Settles(u)
    BY DEF Settles
  <2>2. \A n : n \in Rows("confirmation")' <=>
              n \in DOMAIN ledger' /\ ledger'[n].src = "confirmation"
    BY DEF Rows
  <2> QED
    BY <1>0, <1>5, <1>9, <2>1, <2>2 DEF ConfirmedOnce
<1> QED
  BY <1>3, <1>8, <1>10

LEMMA ListKeepsOnce ==
    ASSUME OnceInv, NEW w \in Worker, List(w)
    PROVE  Alone' /\ Ahead' /\ ConfirmedOnce'
<1> USE DEF OnceInv
<1>1. PICK found \in SUBSET Unprocessed :
         /\ files' = [files EXCEPT ![w] = found]
         /\ phase' = [phase EXCEPT ![w] = IF found = {} THEN "scraping" ELSE "confirming"]
  BY DEF List
<1>2. /\ UNCHANGED ledger /\ UNCHANGED <<form, pages>>
      /\ overlapped' = (overlapped \/ \E v \in Worker : phase[v] # "idle")
  BY DEF List, Busy, book, documents
<1>3. /\ files \in [Worker -> SUBSET trades] /\ TypeOK
      /\ phase \in [Worker -> {"idle", "confirming", "scraping", "logging"}]
  BY DEF BaseInv, TypeOK
<1>4. Alone'
  BY <1>1, <1>2, <1>3 DEF Alone
<1>5. /\ \A t : Has(ledger, t, "confirmation")' <=> Has(ledger, t, "confirmation")
      /\ ByHand' = ByHand
  BY <1>2 DEF Has, Settles, ByHand
<1>6. Ahead'
  BY <1>1, <1>2, <1>3, <1>5, UnprocessedIsNew DEF Ahead
<1>7. ConfirmedOnce'
  <2>1. /\ Rows("confirmation")' = Rows("confirmation") /\ ledger' = ledger
        /\ \A t : Settles(t)' = Settles(t)
    BY <1>2 DEF Rows, Settles
  <2>2. ~overlapped' => ~overlapped
    BY <1>2
  <2>3. ASSUME ~overlapped', NEW m \in Rows("confirmation"), NEW n \in Rows("confirmation"),
               ledger[m].when = ledger[n].when
        PROVE  m = n \/ \E t \in ByHand : ledger[m].when = Settles(t)
    BY <2>2, <2>3 DEF ConfirmedOnce
  <2> QED
    BY <1>5, <2>1, <2>3 DEF ConfirmedOnce
<1> QED
  BY <1>4, <1>6, <1>7

(* Every other step only ends runs, and confirms what was uploaded at most.*)
LEMMA OthersKeepOnce ==
    ASSUME OnceInv, [Next]_vars, UNCHANGED overlapped,
           \A v \in Worker : /\ phase'[v] # "idle" => phase[v] # "idle"
                             /\ files'[v] \subseteq files[v],
           NEW R, Adds(ledger, ledger', R),
           \A e \in R : e.src = "confirmation" => \E u \in ByHand : e.when = Settles(u)
    PROVE  Alone' /\ Ahead' /\ ConfirmedOnce'
<1> USE DEF OnceInv
<1>1. Alone'
  BY DEF Alone
<1>2. ByHand \subseteq ByHand' /\ ByHand' \subseteq 1..LastTrade
  BY ByHandStays
<1>3. ASSUME NEW n \in DOMAIN ledger', ledger'[n].src = "confirmation"
      PROVE  \/ n \in DOMAIN ledger /\ ledger'[n] = ledger[n]
             \/ \E u \in ByHand : ledger'[n].when = Settles(u)
  BY <1>3 DEF Adds, Entry
<1>4. /\ \A u : Settles(u)' = Settles(u)
      /\ \A u : Has(ledger, u, "confirmation")' <=> Has(ledger', u, "confirmation")
      /\ \A n : n \in Rows("confirmation")' <=>
                n \in DOMAIN ledger' /\ ledger'[n].src = "confirmation"
  BY DEF Settles, Has, Rows
<1>5. ASSUME ~overlapped, NEW w \in Worker, NEW t \in files'[w],
             Has(ledger', t, "confirmation")
      PROVE  t \in ByHand'
  <2>1. t \in files[w] /\ t \in 1..LastTrade
    BY <1>5 DEF BaseInv, TypeOK
  <2>2. PICK n \in DOMAIN ledger' :
           ledger'[n].src = "confirmation" /\ ledger'[n].when = Settles(t)
    BY <1>5 DEF Has
  <2>3. CASE n \in DOMAIN ledger /\ ledger'[n] = ledger[n]
    BY <1>2, <1>5, <2>1, <2>2, <2>3 DEF Ahead, Has
  <2>4. CASE \E u \in ByHand : ledger'[n].when = Settles(u)
    <3>1. PICK u \in ByHand : Settles(t) = Settles(u)
      BY <2>2, <2>4
    <3>2. u \in 1..LastTrade
      BY <1>2
    <3>3. u = t
      BY <2>1, <3>1, <3>2, LedgerAssumption DEF Settles
    <3> QED
      BY <1>2, <3>3
  <2> QED
    BY <1>3, <2>2, <2>3, <2>4
<1>6. Ahead'
  BY <1>4, <1>5 DEF Ahead
<1>7. ASSUME ~overlapped, NEW m \in DOMAIN ledger', NEW n \in DOMAIN ledger',
             ledger'[m].src = "confirmation", ledger'[n].src = "confirmation",
             ledger'[m].when = ledger'[n].when, m # n
      PROVE  \E u \in ByHand : ledger'[m].when = Settles(u)
  <2>1. CASE /\ m \in DOMAIN ledger /\ ledger'[m] = ledger[m]
             /\ n \in DOMAIN ledger /\ ledger'[n] = ledger[n]
    <3>1. m \in Rows("confirmation") /\ n \in Rows("confirmation")
      BY <1>7, <2>1 DEF Rows
    <3> QED
      BY <1>7, <2>1, <3>1 DEF ConfirmedOnce
  <2> QED
    BY <1>3, <1>7, <2>1
<1>8. ConfirmedOnce'
  BY <1>2, <1>4, <1>7 DEF ConfirmedOnce
<1> QED
  BY <1>1, <1>6, <1>8

LEMMA NextOnce == OnceInv /\ [Next]_vars => OnceInv'
<1> SUFFICES ASSUME OnceInv, [Next]_vars PROVE OnceInv'
  OBVIOUS
<1>0. BaseInv'
  BY NextBase DEF OnceInv
<1> DEFINE Ends == /\ UNCHANGED overlapped
                   /\ \A v \in Worker : /\ phase'[v] # "idle" => phase[v] # "idle"
                                        /\ files'[v] \subseteq files[v]
<1>1. CASE \E w \in Worker : List(w)
  BY <1>0, <1>1, ListKeepsOnce DEF OnceInv
<1>2. CASE \E w \in Worker : \E t \in files[w] : Confirm(w, t)
  BY <1>0, <1>2, ConfirmKeepsOnce DEF OnceInv
<1>3. ASSUME NEW w \in Worker, Log(w) PROVE OnceInv'
  <2>1. Ends
    BY <1>3 DEF OnceInv, BaseInv, TypeOK, Log, End
  <2>2. Adds(ledger, ledger', {[when |-> seen[w].day, src |-> "scraper"]})
    BY <1>3, LogWrites DEF OnceInv
  <2> QED
    BY <1>0, <2>1, <2>2, OthersKeepOnce DEF OnceInv
<1>4. ASSUME NEW r \in Request, NEW t \in trades, Write(r, t) PROVE OnceInv'
  <2>1. Ends
    BY <1>4 DEF Write, connector
  <2>2. /\ serving[r] \in Doc
        /\ Adds(ledger, ledger', Entries(pages[serving[r]], form[serving[r]]))
    BY <1>4, RequestWrites DEF OnceInv
  <2>3. ASSUME NEW e \in Entries(pages[serving[r]], form[serving[r]]),
               e.src = "confirmation"
        PROVE  \E u \in ByHand : e.when = Settles(u)
    <3>1. PICK u \in pages[serving[r]] : e = EntryOf(u, form[serving[r]])
      BY DEF Entries
    <3>2. form[serving[r]] = "confirmation" /\ e.when = Settles(u)
      BY <2>3, <3>1 DEF EntryOf
    <3>3. u \in ByHand
      BY <2>2, <3>1, <3>2 DEF ByHand
    <3> QED
      BY <3>2, <3>3
  <2> QED
    BY <1>0, <2>1, <2>2, <2>3, OthersKeepOnce DEF OnceInv
<1>5. CASE UNCHANGED ledger /\ Ends
  <2>1. Adds(ledger, ledger', {})
    BY <1>5 DEF Adds
  <2> QED
    BY <1>0, <1>5, <2>1, OthersKeepOnce DEF OnceInv
<1>6. CASE \/ \E w \in Worker : \/ Count(w) \/ Abort(w) \/ Decide(w)
                                \/ \E t \in files[w] : Skip(w, t)
           \/ Crash
  <2>1. UNCHANGED ledger
    BY <1>6 DEF Count, Abort, Decide, Look, ReadTotal, Skip, book, Crash
  <2>2. Ends
    <3>1. ASSUME NEW w \in Worker, Count(w) \/ Abort(w) PROVE Ends
      BY <3>1 DEF OnceInv, BaseInv, TypeOK, Count, Abort, End
    <3>2. ASSUME NEW w \in Worker, Decide(w) PROVE Ends
      BY <3>2 DEF Decide, Look, ReadTotal, connector
    <3>3. ASSUME NEW w \in Worker, NEW t \in files[w], Skip(w, t) PROVE Ends
      BY <3>3 DEF OnceInv, BaseInv, TypeOK, Skip, Leave
    <3>4. CASE Crash
      BY <3>4 DEF Crash
    <3> QED
      BY <1>6, <3>1, <3>2, <3>3, <3>4
  <2> QED
    BY <1>5, <2>1, <2>2
<1>7. CASE UNCHANGED <<ledger, connector>>
  BY <1>5, <1>7 DEF connector
<1>8. \/ \E w \in Worker : Run(w)
      \/ \E r \in Request, t \in trades : Write(r, t)
      \/ Crash
      \/ UNCHANGED <<ledger, connector>>
  BY DEF Next, Serve, Decide, Look, ReadTotal, Tick, Buy, Stage, Insert, Read, Mark, Finish,
         Refuse, Answer, vars, book
<1> QED
  BY <1>1, <1>2, <1>3, <1>4, <1>6, <1>7, <1>8 DEF Run

LEMMA InitOnce == Init => OnceInv
<1> SUFFICES ASSUME Init PROVE OnceInv
  OBVIOUS
<1>1. Alone /\ Ahead
  BY DEF Init, Alone, Ahead
<1>2. ConfirmedOnce
  BY DEF Init, ConfirmedOnce, Rows
<1> QED
  BY <1>1, <1>2, InitBase DEF OnceInv

(* A trade has at most one row made from its confirmation, unless two runs *)
(* of the connector overlap or the confirmation was uploaded as well: what *)
(* a run confirms is ahead of the watermark when it lists it, and neither  *)
(* a share count nor a statement makes or moves such a row.                *)
THEOREM SpecConfirmedOnce == Spec => []ConfirmedOnce
<1>1. OnceInv => ConfirmedOnce
  BY DEF OnceInv
<1> QED
  BY <1>1, InitOnce, NextOnce, PTL DEF Spec

-------------------------------------------------------------------------------
(* The documents.                                                          *)

\* Trade t of document d has its row, or it is noted who lost it.
Kept(t, d) == Has(ledger, t, form[d]) \/ EntryOf(t, form[d]) \in lost

\* A request serves a listed document; once it is past the mark that document
\* is committed, and once it is past the parser its trades are in the ledger.
ServedIsListed ==
    \A r \in Request : /\ done[r] # "none" => drop[serving[r]] # "none"
                       /\ done[r] = "marked" => drop[serving[r]] = "committed"

WrittenIsBooked ==
    \A r \in Request : done[r] \in {"written", "marked"} =>
        \A t \in pages[serving[r]] : Kept(t, serving[r])

CommittedHas ==
    \A d \in Doc : drop[d] = "committed" => \A t \in pages[d] : Kept(t, d)

Docs == ServedIsListed /\ NothingUploadedIsLost /\ WrittenIsBooked /\ CommittedHas

DocInv == BaseInv /\ Docs

LEMMA CommittedHasIsBooked == CommittedHas <=> CommittedIsBooked
  BY DEF CommittedHas, CommittedIsBooked, Kept, Has, EntryOf, Rows

(* What is kept stays kept, as long as the document is the same.           *)
LEMMA KeptStays ==
    ASSUME BaseInv, [Next]_vars, NEW d \in Doc, form'[d] = form[d], NEW t, Kept(t, d)
    PROVE  Kept(t, d)'
<1>1. Keeps(ledger, ledger', lost') /\ lost \subseteq lost'
  BY StepKeeps DEF LedgerStep
<1>2. form[d] \in Form
  BY DEF BaseInv, TypeOK
<1>3. /\ Has(ledger, t, form[d])' <=> Has(ledger', t, form'[d])
      /\ EntryOf(t, form[d])' = EntryOf(t, form'[d])
  BY DEF Has, EntryOf, Settles
<1>4. CASE Has(ledger, t, form[d])
  <2>1. Has(ledger', t, form[d]) \/ EntryOf(t, form[d]) \in lost'
    BY <1>1, <1>2, <1>4, HasStays
  <2> QED
    BY <1>3, <2>1 DEF Kept
<1>5. CASE EntryOf(t, form[d]) \in lost
  BY <1>1, <1>3, <1>5 DEF Kept
<1> QED
  BY <1>4, <1>5 DEF Kept

(* What a step may do with requests and drops, so that all stays booked.   *)
LEMMA BookedStays ==
    ASSUME DocInv, [Next]_vars,
           \A d \in Doc : drop[d] # "none" => pages'[d] = pages[d] /\ form'[d] = form[d],
           \A r \in Request : done'[r] \in {"written", "marked"} =>
              /\ serving'[r] = serving[r] /\ done[r] # "none"
              /\ \/ done[r] \in {"written", "marked"}
                 \/ \A t \in pages[serving[r]] : Has(ledger', t, form[serving[r]]),
           \A d \in Doc : drop'[d] = "committed" =>
              \/ drop[d] = "committed"
              \/ \E r \in Request : serving[r] = d /\ done[r] = "written"
    PROVE  WrittenIsBooked' /\ CommittedHas'
<1> USE DEF DocInv, Docs
<1>1. \A r \in Request : done[r] # "none" => serving[r] \in Doc /\ drop[serving[r]] # "none"
  BY DEF BaseInv, TypeOK, ServedIsListed
<1>2. ASSUME NEW d \in Doc, drop[d] # "none", NEW t, Kept(t, d) PROVE Kept(t, d)'
  BY <1>2, KeptStays
<1>3. ASSUME NEW d \in Doc, form'[d] = form[d], NEW t, Has(ledger', t, form[d])
      PROVE  Kept(t, d)'
  <2>1. Has(ledger, t, form[d])' <=> Has(ledger', t, form'[d])
    BY DEF Has, Settles
  <2> QED
    BY <1>3, <2>1 DEF Kept
<1>4. ASSUME NEW r \in Request, done'[r] \in {"written", "marked"},
             NEW t \in pages'[serving'[r]]
      PROVE  Kept(t, serving[r])'
  <2>1. PICK d \in Doc : d = serving[r] /\ d = serving'[r] /\ drop[d] # "none"
    BY <1>1, <1>4
  <2>2. t \in pages[d] /\ form'[d] = form[d]
    BY <1>4, <2>1
  <2>3. CASE done[r] \in {"written", "marked"}
    <3>1. Kept(t, d)
      BY <2>1, <2>2, <2>3 DEF WrittenIsBooked
    <3>2. Kept(t, d)'
      BY <1>2, <2>1, <3>1
    <3> QED
      BY <2>1, <3>2 DEF Kept
  <2>4. CASE \A u \in pages[serving[r]] : Has(ledger', u, form[serving[r]])
    <3>1. Kept(t, d)'
      BY <1>3, <2>1, <2>2, <2>4
    <3> QED
      BY <2>1, <3>1 DEF Kept
  <2> QED
    BY <1>4, <2>3, <2>4
<1>5. WrittenIsBooked'
  BY <1>4 DEF WrittenIsBooked
<1>6. ASSUME NEW d \in Doc, drop'[d] = "committed", NEW t \in pages'[d] PROVE Kept(t, d)'
  <2>1. CASE drop[d] = "committed"
    <3>1. Kept(t, d)
      BY <1>6, <2>1 DEF CommittedHas
    <3> QED
      BY <1>2, <2>1, <3>1
  <2>2. CASE \E r \in Request : serving[r] = d /\ done[r] = "written"
    <3>1. drop[d] # "none"
      BY <1>1, <2>2
    <3>2. Kept(t, d)
      BY <1>6, <2>2, <3>1 DEF WrittenIsBooked
    <3> QED
      BY <1>2, <3>1, <3>2
  <2> QED
    BY <1>6, <2>1, <2>2
<1>7. CommittedHas'
  BY <1>6 DEF CommittedHas
<1> QED
  BY <1>5, <1>7

LEMMA NextDocs == DocInv /\ [Next]_vars => DocInv'
<1> SUFFICES ASSUME DocInv, [Next]_vars PROVE Docs'
  BY NextBase DEF DocInv
<1> USE DEF DocInv, Docs
<1>0. /\ done \in [Request -> {"none", "read", "written", "marked"}]
      /\ serving \in [Request -> Doc \cup {Idle}]
      /\ drop \in [Doc -> {"none", "staged", "committed"}]
      /\ pages \in [Doc -> SUBSET trades] /\ form \in [Doc -> Form]
      /\ \A r \in Request : serving[r] = Idle <=> done[r] = "none"
  BY DEF BaseInv, TypeOK
<1> DEFINE SameDocs == \A d \in Doc : drop[d] # "none" => pages'[d] = pages[d] /\ form'[d] = form[d]
           Requests == \A r \in Request : done'[r] \in {"written", "marked"} =>
              /\ serving'[r] = serving[r] /\ done[r] # "none"
              /\ \/ done[r] \in {"written", "marked"}
                 \/ \A t \in pages[serving[r]] : Has(ledger', t, form[serving[r]])
           Drops == \A d \in Doc : drop'[d] = "committed" =>
              \/ drop[d] = "committed"
              \/ \E r \in Request : serving[r] = d /\ done[r] = "written"
           Listed == ServedIsListed /\ NothingUploadedIsLost
<1>s. SUFFICES SameDocs /\ Requests /\ Drops /\ Listed'
  BY BookedStays
<1> DEFINE Goal == SameDocs /\ Requests /\ Drops /\ Listed'
<1>1. CASE UNCHANGED documents
  BY <1>1 DEF documents, ServedIsListed, NothingUploadedIsLost
<1>2. ASSUME NEW r \in Request, NEW t \in trades, Write(r, t) PROVE Goal
  <2>1. /\ done[r] = "read" /\ done' = [done EXCEPT ![r] = "written"]
        /\ UNCHANGED <<form, pages, staged, drop, serving>>
    BY <1>2 DEF Write, IsFirst
  <2>2. \A u \in pages[serving[r]] : Has(ledger', u, form[serving[r]])
    BY <1>2, RequestWrites
  <2>3. Requests
    BY <1>0, <2>1, <2>2
  <2>4. Listed'
    BY <1>0, <2>1 DEF ServedIsListed, NothingUploadedIsLost
  <2> QED
    BY <2>1, <2>3, <2>4
<1>3. ASSUME NEW d \in Doc, NEW f \in Form, NEW S \in SUBSET trades, Stage(d, f, S)
      PROVE  Goal
  <2>1. /\ drop[d] = "none" /\ form' = [form EXCEPT ![d] = f]
        /\ pages' = [pages EXCEPT ![d] = S] /\ staged' = staged \cup {d}
        /\ UNCHANGED <<drop, serving, done>>
    BY <1>3 DEF Stage
  <2>2. Listed'
    BY <2>1 DEF ServedIsListed, NothingUploadedIsLost
  <2>3. SameDocs
    BY <1>0, <2>1
  <2> QED
    BY <1>0, <2>1, <2>2, <2>3
<1>4. ASSUME NEW d \in Doc, Insert(d) PROVE Goal
  <2>1. /\ drop[d] = "none" /\ d \in staged /\ drop' = [drop EXCEPT ![d] = "staged"]
        /\ UNCHANGED <<form, pages, staged, serving, done>>
    BY <1>4 DEF Insert
  <2>2. Listed'
    BY <1>0, <2>1 DEF ServedIsListed, NothingUploadedIsLost
  <2> QED
    BY <1>0, <2>1, <2>2
<1>5. ASSUME NEW r \in Request, NEW d \in Doc, Read(r, d) PROVE Goal
  <2>1. /\ drop[d] # "none" /\ serving' = [serving EXCEPT ![r] = d]
        /\ done' = [done EXCEPT ![r] = "read"]
        /\ UNCHANGED <<form, pages, staged, drop>>
    BY <1>5 DEF Read
  <2>2. Listed'
    BY <1>0, <2>1 DEF ServedIsListed, NothingUploadedIsLost
  <2> QED
    BY <1>0, <2>1, <2>2
<1>6. ASSUME NEW r \in Request, Mark(r) PROVE Goal
  <2>1. /\ done[r] = "written" /\ drop' = [drop EXCEPT ![serving[r]] = "committed"]
        /\ done' = [done EXCEPT ![r] = "marked"]
        /\ UNCHANGED <<form, pages, staged, serving>>
    BY <1>6 DEF Mark
  <2>2. serving[r] \in Doc
    BY <1>0, <2>1
  <2>3. Listed'
    BY <1>0, <2>1, <2>2 DEF ServedIsListed, NothingUploadedIsLost
  <2> QED
    BY <1>0, <2>1, <2>2, <2>3
<1>7. ASSUME NEW r \in Request, Answer(r)
      PROVE  SameDocs /\ Requests /\ Drops /\ ServedIsListed'
  BY <1>0, <1>7 DEF Answer, ServedIsListed
<1>8. ASSUME NEW r \in Request, Finish(r) PROVE Goal
  <2>1. /\ drop[serving[r]] = "committed" /\ staged' = staged \ {serving[r]}
        /\ Answer(r) /\ UNCHANGED <<pages, drop>>
    BY <1>8 DEF Finish, Answer, ServedIsListed
  <2> QED
    BY <1>7, <2>1 DEF NothingUploadedIsLost
<1>9. ASSUME NEW r \in Request, Refuse(r) PROVE Goal
  <2>1. Answer(r) /\ UNCHANGED <<pages, drop, staged>>
    BY <1>9 DEF Refuse, Answer
  <2> QED
    BY <1>7, <2>1 DEF NothingUploadedIsLost
<1>10. CASE Crash
  BY <1>10 DEF Crash, ServedIsListed, NothingUploadedIsLost
<1>11. \/ UNCHANGED documents
       \/ \E r \in Request, t \in trades : Write(r, t)
       \/ \E d \in Doc, f \in Form, S \in SUBSET trades : Stage(d, f, S)
       \/ \E d \in Doc : Insert(d)
       \/ \E r \in Request, d \in Doc : Read(r, d)
       \/ \E r \in Request : Mark(r) \/ Finish(r) \/ Refuse(r)
       \/ Crash
  BY DEF Next, Run, Serve, Decide, Look, ReadTotal, Tick, Buy, List, Count, Log, Abort,
         Confirm, Skip, Leave, vars
<1> QED
  BY <1>1, <1>2, <1>3, <1>4, <1>5, <1>6, <1>8, <1>9, <1>10, <1>11

LEMMA InitDocs == Init => DocInv
<1> SUFFICES ASSUME Init PROVE DocInv
  OBVIOUS
<1>1. Docs
  BY DEF Init, Docs, ServedIsListed, NothingUploadedIsLost, WrittenIsBooked, CommittedHas
<1> QED
  BY <1>1, InitBase DEF DocInv

(* A document that is listed as staged keeps its file: only the request    *)
(* that has marked it committed removes it.                                *)
THEOREM SpecNothingUploadedIsLost == Spec => []NothingUploadedIsLost
<1>1. DocInv => NothingUploadedIsLost
  BY DEF DocInv, Docs
<1> QED
  BY <1>1, InitDocs, NextDocs, PTL DEF Spec

(* A document that is listed as committed is in the ledger with all its    *)
(* trades, but for those whose row another commit took over: the parser    *)
(* commits before the drop is marked, and of all later steps only that one *)
(* takes the row of a trade.                                               *)
THEOREM SpecCommittedIsBooked == Spec => []CommittedIsBooked
<1>1. DocInv => CommittedIsBooked
  BY CommittedHasIsBooked DEF DocInv, Docs
<1> QED
  BY <1>1, InitDocs, NextDocs, PTL DEF Spec

===============================================================================
