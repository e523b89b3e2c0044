-------------------------- MODULE TransferTagsProofs --------------------------
(***************************************************************************)
(* Theorems about TransferTags, for any number of pipelines beside each    *)
(* other, any accounts, posting dates, transactions and ledger rows, and   *)
(* any number of runs of the three writers.                                *)
(***************************************************************************)
EXTENDS TransferTags, FiniteSetTheorems, TLAPS

-------------------------------------------------------------------------------
(* Types.                                                                  *)

LEMMA FreshIsWithin ==
    ASSUME NEW n \in Nat, NEW m \in Nat
    PROVE  Fresh \in Local /\ Within(Fresh, n, m)
<1>1. <<>> \in Seq(Tag) /\ Len(<<>>) = 0
  OBVIOUS
<1> QED
  BY <1>1 DEF Fresh, Local, Stage, Within

LEMMA WithinGrows ==
    ASSUME NEW l \in Local, NEW n \in Nat, NEW m \in Nat, Within(l, n, m),
           NEW a \in Nat, NEW b \in Nat, n <= a, m <= b
    PROVE  Within(l, a, b)
<1>1. Len(l.snap) \in Nat
  BY DEF Local
<1> QED
  BY <1>1 DEF Within

LEMMA InitTypes == Init => TypeOK
<1> SUFFICES ASSUME Init PROVE TypeOK
  OBVIOUS
<1>1. Len(<<>>) = 0
  OBVIOUS
<1>2. \A p \in Pipeline : run[p] \in Local /\ Within(run[p], 0, 0)
  BY FreshIsWithin DEF Init
<1>3. /\ txns \in Seq(Import) /\ Len(txns) = 0 /\ tag \in Seq(Tag) /\ Len(tag) = 0
      /\ rows \in Seq(Ledger) /\ Len(rows) = 0
      /\ bank \in Seq(0..Len(txns)) /\ Len(bank) = 0
  BY DEF Init
<1>4. run \in [Pipeline -> Local] /\ crossed \in BOOLEAN
  BY <1>2 DEF Init
<1> QED
  BY <1>2, <1>3, <1>4, TagsAssumption DEF TypeOK

(* What TypeOK says of the number of transactions and rows.                *)
LEMMA Lengths ==
    ASSUME TypeOK
    PROVE  /\ Len(txns) \in Nat /\ Len(rows) \in Nat
           /\ DOMAIN txns = 1..Len(txns) /\ DOMAIN tag = 1..Len(txns)
           /\ DOMAIN rows = 1..Len(rows) /\ DOMAIN bank = 1..Len(rows)
           /\ DOMAIN txns \subseteq Id /\ DOMAIN rows \subseteq RowId
BY TagsAssumption DEF TypeOK, Id, RowId

(* A step that only moves one pipeline.                                    *)
LEMMA BecomesTypes ==
    ASSUME TypeOK, NEW p \in Pipeline, NEW l \in Local,
           Within(l, Len(txns), Len(rows)), Becomes(p, l),
           UNCHANGED store, crossed' \in BOOLEAN
    PROVE  TypeOK'
BY DEF TypeOK, Becomes, store

LEMMA ImportTypes ==
    ASSUME TypeOK,
           \/ \E x \in Import : ImportTxn(x)
           \/ \E x \in Ledger : ImportRow(x)
    PROVE  TypeOK'
<1>1. ASSUME NEW x \in Import, ImportTxn(x) PROVE TypeOK'
  <2>1. /\ txns' \in Seq(Import) /\ Len(txns') = Len(txns) + 1
        /\ tag' \in Seq(Tag) /\ Len(tag') = Len(tag) + 1
        /\ UNCHANGED <<rows, bank, run, crossed>> /\ Len(txns) < MaxTxns
    BY <1>1 DEF ImportTxn, Tag, TypeOK
  <2>2. bank \in Seq(0..Len(txns'))
    <3>1. Len(txns) \in Nat /\ bank \in Seq(0..Len(txns))
      BY DEF TypeOK
    <3>2. 0..Len(txns) \subseteq 0..Len(txns')
      BY <2>1, <3>1
    <3> QED
      BY <3>1, <3>2
  <2>3. ASSUME NEW p \in Pipeline PROVE Within(run'[p], Len(txns'), Len(rows'))
    <3>1. /\ Len(txns) \in Nat /\ Len(rows) \in Nat /\ run[p] \in Local
          /\ Within(run[p], Len(txns), Len(rows))
      BY DEF TypeOK
    <3> QED
      BY <2>1, <3>1, WithinGrows
  <2> QED
    BY <2>1, <2>2, <2>3, TagsAssumption DEF TypeOK
<1>2. ASSUME NEW x \in Ledger, ImportRow(x) PROVE TypeOK'
  <2>1. /\ rows' \in Seq(Ledger) /\ Len(rows') = Len(rows) + 1
        /\ bank' \in Seq(0..Len(txns)) /\ Len(bank') = Len(bank) + 1
        /\ UNCHANGED <<txns, tag, run, crossed>> /\ Len(rows) < MaxRows
    BY <1>2 DEF ImportRow, TypeOK
  <2>2. ASSUME NEW p \in Pipeline PROVE Within(run'[p], Len(txns'), Len(rows'))
    <3>1. /\ Len(txns) \in Nat /\ Len(rows) \in Nat /\ run[p] \in Local
          /\ Within(run[p], Len(txns), Len(rows))
      BY DEF TypeOK
    <3> QED
      BY <2>1, <3>1, WithinGrows
  <2> QED
    BY <2>1, <2>2, TagsAssumption DEF TypeOK
<1> QED
  BY <1>1, <1>2

(* The steps of reconcile_transfers before its end.                        *)
LEMMA ReadBecomes ==
    ASSUME TypeOK, NEW p \in Pipeline, Read(p)
    PROVE  TypeOK'
<1> DEFINE l == [run[p] EXCEPT !.at = "first", !.snap = tag, !.todo = DOMAIN txns]
<1>1. run[p] \in Local /\ Within(run[p], Len(txns), Len(rows))
  BY DEF TypeOK
<1>2. tag \in Seq(Tag) /\ Len(tag) = Len(txns)
  BY DEF TypeOK
<1>3. l \in Local
  BY <1>1, <1>2, Lengths DEF Local, Stage
<1>4. Within(l, Len(txns), Len(rows))
  <2>1. /\ l.snap = tag /\ l.todo = DOMAIN txns
        /\ l.done = run[p].done /\ l.pairs = run[p].pairs /\ l.saw = run[p].saw
        /\ l.free = run[p].free /\ l.links = run[p].links
    BY <1>1 DEF Local
  <2>2. DOMAIN run[p].snap \subseteq DOMAIN tag
    <3>1. /\ DOMAIN run[p].snap = 1..Len(run[p].snap) /\ Len(run[p].snap) \in Nat
          /\ Len(run[p].snap) <= Len(txns)
      BY <1>1 DEF Local, Within
    <3> QED
      BY <3>1, Lengths
  <2> HIDE DEF l
  <2>3. Len(l.snap) <= Len(txns) /\ l.todo \subseteq DOMAIN l.snap
    BY <1>2, <2>1, Lengths
  <2> QED
    BY <1>1, <2>1, <2>2, <2>3 DEF Within
<1>5. Becomes(p, l) /\ UNCHANGED store /\ crossed' \in BOOLEAN
  BY DEF Read, TypeOK
<1> HIDE DEF l
<1> QED
  BY <1>3, <1>4, <1>5, BecomesTypes

LEMMA TurnTypes ==
    ASSUME TypeOK, NEW p \in Pipeline, NEW i, NEW processed, NEW tagged,
           processed \subseteq DOMAIN run[p].snap,
           UNION tagged \subseteq DOMAIN run[p].snap,
           Turn(p, i, processed, tagged), UNCHANGED <<store, crossed>>
    PROVE  TypeOK'
<1> DEFINE l == [run[p] EXCEPT !.todo = { j \in @ : Before(i, j) },
                               !.done = @ \cup processed,
                               !.pairs = @ \cup tagged]
<1>1. run[p] \in Local /\ Within(run[p], Len(txns), Len(rows))
  BY DEF TypeOK
<1>2. DOMAIN run[p].snap \subseteq Id
  BY <1>1, Lengths DEF Within, Local, Id
<1>3. l \in Local
  BY <1>1, <1>2 DEF Local
<1>4. Within(l, Len(txns), Len(rows))
  BY <1>1 DEF Within, Local
<1> HIDE DEF l
<1> QED
  BY <1>3, <1>4, BecomesTypes DEF Turn, l, TypeOK

LEMMA VisitTypes ==
    ASSUME TypeOK, NEW p \in Pipeline, NEW i \in run[p].todo, Visit(p, i)
    PROVE  TypeOK'
<1>1. i \in DOMAIN run[p].snap /\ Candidates(p, i) \subseteq DOMAIN run[p].snap
  BY DEF TypeOK, Within, Candidates
<1>2. CASE PassOver(p, i)
  BY <1>1, <1>2, TurnTypes DEF PassOver, Visit
<1>3. CASE Pair(p, i)
  <2>1. PICK j \in Candidates(p, i) :
            Turn(p, i, {i, j} \cup { k \in Candidates(p, i) : Before(k, j) }, {{i, j}})
    BY <1>3 DEF Pair, Processed
  <2>2. /\ {i, j} \cup { k \in Candidates(p, i) : Before(k, j) } \subseteq DOMAIN run[p].snap
        /\ UNION {{i, j}} \subseteq DOMAIN run[p].snap
    BY <1>1
  <2> QED
    BY <2>1, <2>2, TurnTypes DEF Visit
<1> QED
  BY <1>2, <1>3 DEF Visit

LEMMA SecondTypes == ASSUME TypeOK, NEW p \in Pipeline, SecondPass(p) PROVE TypeOK'
<1> DEFINE l == [run[p] EXCEPT !.at = "second", !.todo = DOMAIN run[p].snap]
<1>1. run[p] \in Local /\ Within(run[p], Len(txns), Len(rows))
  BY DEF TypeOK
<1>2. DOMAIN run[p].snap \subseteq Id
  BY <1>1, Lengths DEF Within, Local, Id
<1>3. l \in Local
  BY <1>1, <1>2 DEF Local, Stage
<1>4. Within(l, Len(txns), Len(rows))
  BY <1>1 DEF Within, Local
<1> HIDE DEF l
<1> QED
  BY <1>3, <1>4, BecomesTypes DEF SecondPass, l, TypeOK

\* What a marker with exactly one candidate does.
LEMMA MatchedWrites ==
    ASSUME NEW p \in Pipeline, NEW r, Matched(p, r)
    PROVE  /\ \E i \in DOMAIN txns, at \in {"chosen", "locked"} :
              /\ Matches(p, r) = {i}
              /\ at = "locked" <=> run[p].at = "locked"
              /\ Becomes(p, [run[p] EXCEPT !.at = at, !.saw = @ \cup {i},
                               !.free = @ \ {r}, !.links = @ \cup {<<i, r>>}])
           /\ UNCHANGED <<store, crossed>>
<1>1. PICK i \in Matches(p, r) :
          /\ Matches(p, r) = {i}
          /\ Becomes(p, [run[p] EXCEPT !.at = IF @ = "locked" THEN @ ELSE "chosen",
                           !.saw = @ \cup {i}, !.free = @ \ {r},
                           !.links = @ \cup {<<i, r>>}])
          /\ UNCHANGED <<store, crossed>>
  BY DEF Matched
<1>2. i \in DOMAIN txns
  BY DEF Matches
<1>3. CASE run[p].at = "locked"
  BY <1>1, <1>2, <1>3
<1>4. CASE run[p].at # "locked"
  BY <1>1, <1>2, <1>4
<1> QED
  BY <1>3, <1>4

(* The steps of the linkers before they commit.                            *)
LEMMA LinkerTypes ==
    ASSUME TypeOK, NEW p \in Pipeline,
           \/ ReadDebits(p) \/ ReadRows(p)
           \/ ReadMarkers(p) \/ ReadReferenced(p) \/ TakeLock(p)
           \/ \E r \in run[p].free : Unmatched(p, r) \/ Matched(p, r)
    PROVE  TypeOK'
<1>1. /\ run[p] \in Local /\ Within(run[p], Len(txns), Len(rows))
      /\ crossed \in BOOLEAN
  BY DEF TypeOK
<1>2. \A s : Starts(p, s) => crossed' \in BOOLEAN
  BY <1>1 DEF Starts
<1>3. /\ DOMAIN txns = 1..Len(txns) /\ DOMAIN txns \subseteq Id
      /\ DOMAIN rows = 1..Len(rows) /\ DOMAIN rows \subseteq RowId
  BY Lengths
<1>4. CASE ReadDebits(p)
  <2> DEFINE saw == { i \in DOMAIN txns :
                        /\ txns[i].text = "acorns" /\ txns[i].debit
                        /\ tag[i].kind # "invest" }
             l == [run[p] EXCEPT !.at = "debits", !.saw = saw]
  <2>1. saw \subseteq DOMAIN txns
    OBVIOUS
  <2> HIDE DEF saw
  <2>2. l \in Local /\ Within(l, Len(txns), Len(rows))
    BY <1>1, <1>3, <2>1 DEF Local, Stage, AcornsStage, Within
  <2>3. Becomes(p, l) /\ UNCHANGED store /\ crossed' \in BOOLEAN
    BY <1>2, <1>4 DEF ReadDebits, saw
  <2> HIDE DEF l
  <2> QED
    BY <2>2, <2>3, BecomesTypes
<1>5. CASE ReadRows(p)
  <2> DEFINE free == { r \in DOMAIN rows : rows[r].kind = "acorns" /\ bank[r] = 0 }
             l == [run[p] EXCEPT !.at = "acorns", !.free = free]
  <2>1. free \subseteq DOMAIN rows
    OBVIOUS
  <2> HIDE DEF free
  <2>2. l \in Local /\ Within(l, Len(txns), Len(rows))
    BY <1>1, <1>3, <2>1 DEF Local, Stage, AcornsStage, Within
  <2>3. Becomes(p, l) /\ UNCHANGED store /\ crossed' \in BOOLEAN
    BY <1>1, <1>5 DEF ReadRows, free
  <2> HIDE DEF l
  <2> QED
    BY <2>2, <2>3, BecomesTypes
<1>6. CASE ReadMarkers(p)
  <2> DEFINE free == { r \in DOMAIN rows : rows[r].kind # "acorns" /\ bank[r] = 0 }
             l == [run[p] EXCEPT !.at = "markers", !.free = free]
  <2>1. free \subseteq DOMAIN rows
    OBVIOUS
  <2> HIDE DEF free
  <2>2. l \in Local /\ Within(l, Len(txns), Len(rows))
    BY <1>1, <1>3, <2>1 DEF Local, Stage, FidelityStage, Within
  <2>3. Becomes(p, l) /\ UNCHANGED store /\ crossed' \in BOOLEAN
    BY <1>2, <1>6 DEF ReadMarkers, free
  <2> HIDE DEF l
  <2> QED
    BY <2>2, <2>3, BecomesTypes
<1>7. CASE ReadReferenced(p)
  <2> DEFINE saw == { bank[r] : r \in DOMAIN rows } \ {0}
             l == [run[p] EXCEPT !.at = "fidelity", !.saw = saw]
  <2>1. saw \subseteq DOMAIN txns
    <3>1. \A r \in DOMAIN rows : bank[r] \in 0..Len(txns)
      BY Lengths DEF TypeOK
    <3> QED
      BY <1>3, <3>1, Lengths
  <2> HIDE DEF saw
  <2>2. l \in Local /\ Within(l, Len(txns), Len(rows))
    BY <1>1, <1>3, <2>1 DEF Local, Stage, FidelityStage, Within
  <2>3. Becomes(p, l) /\ UNCHANGED store /\ crossed' \in BOOLEAN
    BY <1>1, <1>7 DEF ReadReferenced, saw
  <2> HIDE DEF l
  <2> QED
    BY <2>2, <2>3, BecomesTypes
<1>8. CASE TakeLock(p)
  <2> DEFINE l == [run[p] EXCEPT !.at = "locked"]
  <2>1. l \in Local /\ Within(l, Len(txns), Len(rows))
    BY <1>1 DEF Local, Stage, FidelityStage, Within
  <2>2. Becomes(p, l) /\ UNCHANGED store /\ crossed' \in BOOLEAN
    BY <1>1, <1>8 DEF TakeLock
  <2> HIDE DEF l
  <2> QED
    BY <2>1, <2>2, BecomesTypes
<1>9. ASSUME NEW r \in run[p].free, Unmatched(p, r) PROVE TypeOK'
  <2> DEFINE l == [run[p] EXCEPT !.free = @ \ {r}]
  <2>1. l \in Local /\ Within(l, Len(txns), Len(rows))
    BY <1>1 DEF Local, Within
  <2>2. Becomes(p, l) /\ UNCHANGED store /\ crossed' \in BOOLEAN
    BY <1>1, <1>9 DEF Unmatched
  <2> HIDE DEF l
  <2> QED
    BY <2>1, <2>2, BecomesTypes
<1>10. ASSUME NEW r \in run[p].free, Matched(p, r) PROVE TypeOK'
  <2>1. PICK i \in DOMAIN txns, at \in {"chosen", "locked"} :
            /\ Becomes(p, [run[p] EXCEPT !.at = at, !.saw = @ \cup {i},
                             !.free = @ \ {r}, !.links = @ \cup {<<i, r>>}])
            /\ UNCHANGED <<store, crossed>>
    BY <1>10, MatchedWrites
  <2> DEFINE l == [run[p] EXCEPT !.at = at, !.saw = @ \cup {i},
                             !.free = @ \ {r}, !.links = @ \cup {<<i, r>>}]
  <2>2. i \in 1..Len(txns) /\ r \in 1..Len(rows) /\ i \in Id /\ r \in RowId
    BY <1>1, <1>3 DEF Within
  <2>3. /\ l.links = run[p].links \cup {<<i, r>>}
        /\ l.links \subseteq Id \X RowId
        /\ l.links \subseteq (1..Len(txns)) \X (1..Len(rows))
    <3>1. /\ run[p].links \subseteq Id \X RowId
          /\ run[p].links \subseteq (1..Len(txns)) \X (1..Len(rows))
      BY <1>1 DEF Local, Within
    <3>2. l.links = run[p].links \cup {<<i, r>>}
      BY <1>1 DEF Local
    <3> QED
      BY <2>2, <3>1, <3>2
  <2>4. l \in Local /\ Within(l, Len(txns), Len(rows))
    <3> DEFINE links == run[p].links \cup {<<i, r>>}
    <3> HIDE DEF links
    <3>1. l = [run[p] EXCEPT !.at = at, !.saw = run[p].saw \cup {i},
                             !.free = run[p].free \ {r}, !.links = links]
      BY <1>1 DEF Local, links
    <3>2. links \subseteq Id \X RowId /\ links \subseteq (1..Len(txns)) \X (1..Len(rows))
      BY <2>3 DEF links
    <3> HIDE DEF l
    <3> QED
      BY <1>1, <2>2, <3>1, <3>2 DEF Local, Stage, FidelityStage, Within
  <2>5. Becomes(p, l) /\ UNCHANGED store /\ crossed' \in BOOLEAN
    BY <1>1, <2>1
  <2> HIDE DEF l
  <2> QED
    BY <2>4, <2>5, BecomesTypes
<1> QED
  BY <1>4, <1>5, <1>6, <1>7, <1>8, <1>9, <1>10

(* A pipeline whose step is over.                                          *)
LEMMA OverTypes ==
    ASSUME TypeOK, NEW p \in Pipeline, Over(p), UNCHANGED <<txns, rows, crossed>>,
           tag' \in Seq(Tag), Len(tag') = Len(tag),
           bank' \in Seq(0..Len(txns)), Len(bank') = Len(bank)
    PROVE  TypeOK'
<1>1. Fresh \in Local /\ Within(Fresh, Len(txns), Len(rows))
  BY FreshIsWithin, Lengths
<1>2. /\ run' \in [Pipeline -> Local]
      /\ \A q \in Pipeline : Within(run'[q], Len(txns), Len(rows))
  BY <1>1 DEF Over, Becomes, TypeOK
<1> QED
  BY <1>2 DEF TypeOK

LEMMA CommitTypes == ASSUME TypeOK, NEW p \in Pipeline, Commit(p) PROVE TypeOK'
<1> DEFINE Written(i) == IF \E pair \in run[p].pairs : i \in pair
                         THEN Xfer(CHOOSE pair \in run[p].pairs : i \in pair)
                         ELSE tag[i]
<1>1. ASSUME NEW i \in DOMAIN tag PROVE Written(i) \in Tag
  <2>1. CASE \E pair \in run[p].pairs : i \in pair
    <3>1. (CHOOSE pair \in run[p].pairs : i \in pair) \in run[p].pairs
      BY <2>1
    <3>2. run[p].pairs \subseteq SUBSET Id
      BY DEF TypeOK, Local
    <3> QED
      BY <2>1, <3>1, <3>2 DEF Tag
  <2>2. CASE ~\E pair \in run[p].pairs : i \in pair
    BY <2>2 DEF TypeOK
  <2> QED
    BY <2>1, <2>2
<1>2. tag' = [i \in 1..Len(tag) |-> Written(i)]
  BY Lengths DEF Commit, TypeOK
<1>3. tag' \in Seq(Tag) /\ Len(tag') = Len(tag)
  <2>1. Len(tag) \in Nat /\ DOMAIN tag = 1..Len(tag)
    BY DEF TypeOK
  <2> HIDE DEF Written
  <2> QED
    BY <1>1, <1>2, <2>1
<1>4. UNCHANGED <<txns, rows, bank, crossed>> /\ Over(p)
  BY DEF Commit
<1> QED
  BY <1>3, <1>4, OverTypes DEF TypeOK

LEMMA LinkTypes ==
    ASSUME TypeOK, NEW links, Link(links)
    PROVE  /\ tag' \in Seq(Tag) /\ Len(tag') = Len(tag)
           /\ bank' \in Seq(0..Len(txns)) /\ Len(bank') = Len(bank)
<1> DEFINE NewTag(i) == IF \E r \in DOMAIN rows : <<i, r>> \in links
                        THEN Invest(CHOOSE r \in DOMAIN rows : <<i, r>> \in links)
                        ELSE tag[i]
           NewBank(r) == IF \E i \in DOMAIN txns : <<i, r>> \in links
                         THEN CHOOSE i \in DOMAIN txns : <<i, r>> \in links
                         ELSE bank[r]
<1>1. ASSUME NEW i \in DOMAIN tag PROVE NewTag(i) \in Tag
  <2>1. CASE \E r \in DOMAIN rows : <<i, r>> \in links
    <3> DEFINE r == CHOOSE r \in DOMAIN rows : <<i, r>> \in links
    <3>1. r \in RowId
      BY <2>1, Lengths
    <3> HIDE DEF r
    <3>2. Invest(r) \in Tag
      BY <3>1 DEF Tag
    <3> QED
      BY <2>1, <3>2 DEF r
  <2>2. CASE ~\E r \in DOMAIN rows : <<i, r>> \in links
    BY <2>2 DEF TypeOK
  <2> QED
    BY <2>1, <2>2
<1>2. ASSUME NEW r \in DOMAIN bank PROVE NewBank(r) \in 0..Len(txns)
  <2>1. CASE \E i \in DOMAIN txns : <<i, r>> \in links
    <3> DEFINE i == CHOOSE i \in DOMAIN txns : <<i, r>> \in links
    <3>1. i \in DOMAIN txns
      BY <2>1
    <3> HIDE DEF i
    <3>2. i \in 0..Len(txns)
      BY <3>1, Lengths
    <3> QED
      BY <2>1, <3>2 DEF i
  <2>2. CASE ~\E i \in DOMAIN txns : <<i, r>> \in links
    BY <2>2 DEF TypeOK
  <2> QED
    BY <2>1, <2>2
<1>3. /\ tag' = [i \in 1..Len(tag) |-> NewTag(i)]
      /\ bank' = [r \in 1..Len(bank) |-> NewBank(r)]
      /\ DOMAIN tag = 1..Len(tag) /\ DOMAIN bank = 1..Len(bank)
      /\ Len(tag) \in Nat /\ Len(bank) \in Nat
  BY DEF Link, Stamp, TypeOK
<1> HIDE DEF NewTag, NewBank
<1>4. tag' \in Seq(Tag) /\ Len(tag') = Len(tag)
  BY <1>1, <1>3
<1>5. bank' \in Seq(0..Len(txns)) /\ Len(bank') = Len(bank)
  BY <1>2, <1>3
<1> QED
  BY <1>4, <1>5

LEMMA EndTypes ==
    ASSUME TypeOK, NEW p \in Pipeline,
           LinkAcorns(p) \/ CommitLinks(p) \/ Abort(p)
    PROVE  TypeOK'
<1>1. CASE LinkAcorns(p)
  <2>1. Link(DayLinks(p)) /\ UNCHANGED <<txns, rows, crossed>> /\ Over(p)
    BY <1>1 DEF LinkAcorns
  <2> QED
    BY <2>1, LinkTypes, OverTypes
<1>2. CASE CommitLinks(p)
  <2>1. Link(run[p].links) /\ UNCHANGED <<txns, rows, crossed>> /\ Over(p)
    BY <1>2 DEF CommitLinks
  <2> QED
    BY <2>1, LinkTypes, OverTypes
<1>3. CASE Abort(p)
  <2>1. UNCHANGED <<txns, rows, tag, bank, crossed>> /\ Over(p)
    BY <1>3 DEF Abort, store
  <2>2. /\ tag' \in Seq(Tag) /\ Len(tag') = Len(tag)
        /\ bank' \in Seq(0..Len(txns)) /\ Len(bank') = Len(bank)
    BY <2>1 DEF TypeOK
  <2> QED
    BY <2>1, <2>2, OverTypes
<1> QED
  BY <1>1, <1>2, <1>3

LEMMA StepTypes == TypeOK /\ [Next]_vars => TypeOK'
<1> SUFFICES ASSUME TypeOK, [Next]_vars PROVE TypeOK'
  OBVIOUS
<1>1. ASSUME NEW p \in Pipeline, Reconcile(p) PROVE TypeOK'
  BY <1>1, ReadBecomes, VisitTypes, SecondTypes, CommitTypes DEF Reconcile
<1>2. ASSUME NEW p \in Pipeline, LinkFidelity(p) PROVE TypeOK'
  BY <1>2, LinkerTypes, EndTypes DEF LinkFidelity
<1>3. ASSUME NEW p \in Pipeline, ReadDebits(p) \/ ReadRows(p) PROVE TypeOK'
  BY <1>3, LinkerTypes
<1>4. ASSUME NEW p \in Pipeline, LinkAcorns(p) \/ Abort(p) PROVE TypeOK'
  BY <1>4, EndTypes
<1>5. CASE UNCHANGED vars
  BY <1>5 DEF TypeOK, vars, store
<1> QED
  BY <1>1, <1>2, <1>3, <1>4, <1>5, ImportTypes DEF Next

(* Every variable of TransferTags, the locals of each pipeline included,   *)
(* stays within its type.                                                  *)
THEOREM TagTypes == Spec => []TypeOK
  BY InitTypes, StepTypes, PTL DEF Spec

-------------------------------------------------------------------------------
(* What a step does to one pipeline.                                       *)

\* It leaves alone what a reconciliation keeps.
SameScan(p) ==
    /\ run'[p].snap = run[p].snap /\ run'[p].todo = run[p].todo
    /\ run'[p].done = run[p].done /\ run'[p].pairs = run[p].pairs

LEMMA LinkerKeepsScan ==
    ASSUME TypeOK, NEW p \in Pipeline,
           \/ ReadDebits(p) \/ ReadRows(p)
           \/ ReadMarkers(p) \/ ReadReferenced(p) \/ TakeLock(p)
           \/ \E r \in run[p].free : Unmatched(p, r) \/ Matched(p, r)
    PROVE  /\ SameScan(p) /\ run'[p].at \in AcornsStage \cup FidelityStage
           /\ \A q \in Pipeline \ {p} : run'[q] = run[q]
           /\ UNCHANGED store
<1> USE DEF TypeOK, Local, Becomes, SameScan, AcornsStage, FidelityStage
<1>1. CASE ReadDebits(p)
  BY <1>1 DEF ReadDebits
<1>2. CASE ReadRows(p)
  BY <1>2 DEF ReadRows
<1>3. CASE ReadMarkers(p)
  BY <1>3 DEF ReadMarkers
<1>4. CASE ReadReferenced(p)
  BY <1>4 DEF ReadReferenced
<1>5. CASE TakeLock(p)
  BY <1>5 DEF TakeLock
<1>6. ASSUME NEW r \in run[p].free, Unmatched(p, r)
      PROVE  /\ SameScan(p) /\ run'[p].at \in AcornsStage \cup FidelityStage
             /\ \A q \in Pipeline \ {p} : run'[q] = run[q]
             /\ UNCHANGED store
  BY <1>6 DEF Unmatched
<1>7. ASSUME NEW r \in run[p].free, Matched(p, r)
      PROVE  /\ SameScan(p) /\ run'[p].at \in AcornsStage \cup FidelityStage
             /\ \A q \in Pipeline \ {p} : run'[q] = run[q]
             /\ UNCHANGED store
  <2> HIDE DEF Becomes
  <2>1. PICK i \in DOMAIN txns, at \in {"chosen", "locked"} :
            /\ Becomes(p, [run[p] EXCEPT !.at = at, !.saw = @ \cup {i},
                             !.free = @ \ {r}, !.links = @ \cup {<<i, r>>}])
            /\ UNCHANGED <<store, crossed>>
    BY <1>7, MatchedWrites
  <2> DEFINE links == run[p].links \cup {<<i, r>>}
  <2> HIDE DEF links
  <2> DEFINE l == [run[p] EXCEPT !.at = at, !.saw = run[p].saw \cup {i},
                             !.free = run[p].free \ {r}, !.links = links]
  <2>2. run' = [run EXCEPT ![p] = l] /\ UNCHANGED store
    BY <2>1 DEF links, Becomes
  <2>3. /\ l.snap = run[p].snap /\ l.todo = run[p].todo
        /\ l.done = run[p].done /\ l.pairs = run[p].pairs /\ l.at = at
    OBVIOUS
  <2> HIDE DEF l
  <2> QED
    BY <2>2, <2>3
<1> QED
  BY <1>1, <1>2, <1>3, <1>4, <1>5, <1>6, <1>7

\* The kinds of step, as a reconciliation under way sees them.
LEMMA Moves ==
    ASSUME TypeOK, [Next]_vars, NEW p \in Pipeline
    PROVE  \/ run'[p] = run[p]
           \/ run'[p] = Fresh
           \/ Read(p)
           \/ \E i \in run[p].todo : Visit(p, i)
           \/ SecondPass(p)
           \/ SameScan(p) /\ run'[p].at \in AcornsStage \cup FidelityStage
<1>1. CASE UNCHANGED run
  BY <1>1
<1>2. ASSUME NEW q \in Pipeline, Over(q)
      PROVE  run'[p] = run[p] \/ run'[p] = Fresh
  BY <1>2 DEF Over, Becomes, TypeOK
<1>3. ASSUME NEW q \in Pipeline, q # p,
             Read(q) \/ (\E i \in run[q].todo : Visit(q, i)) \/ SecondPass(q)
      PROVE  run'[p] = run[p]
  BY <1>3 DEF Read, Visit, PassOver, Pair, Turn, SecondPass, Becomes, TypeOK
<1>4. ASSUME NEW q \in Pipeline, Reconcile(q)
      PROVE  \/ run'[p] = run[p]
             \/ run'[p] = Fresh
             \/ Read(p)
             \/ \E i \in run[p].todo : Visit(p, i)
             \/ SecondPass(p)
  BY <1>2, <1>3, <1>4 DEF Reconcile, Commit
<1>5. ASSUME NEW q \in Pipeline, LinkFidelity(q) \/ ReadDebits(q) \/ ReadRows(q)
      PROVE  \/ run'[p] = run[p]
             \/ run'[p] = Fresh
             \/ SameScan(p) /\ run'[p].at \in AcornsStage \cup FidelityStage
  BY <1>2, <1>5, LinkerKeepsScan DEF LinkFidelity, CommitLinks
<1> QED
  BY <1>1, <1>2, <1>4, <1>5
     DEF Next, vars, ImportTxn, ImportRow, LinkAcorns, Abort

\* Who writes the tags.
LEMMA TagWriters ==
    ASSUME [Next]_vars
    PROVE  \/ UNCHANGED tag
           \/ \E x \in Import : ImportTxn(x)
           \/ \E p \in Pipeline : Commit(p)
           \/ \E p \in Pipeline : LinkAcorns(p)
           \/ \E p \in Pipeline : CommitLinks(p)
<1>1. ASSUME NEW p \in Pipeline, Reconcile(p) PROVE UNCHANGED tag \/ Commit(p)
  BY <1>1 DEF Reconcile, Read, Visit, SecondPass, store
<1>2. ASSUME NEW p \in Pipeline, LinkFidelity(p)
      PROVE  UNCHANGED tag \/ CommitLinks(p)
  BY <1>2 DEF LinkFidelity, ReadMarkers, ReadReferenced, TakeLock, Unmatched,
              Matched, store
<1> QED
  BY <1>1, <1>2
     DEF Next, vars, store, ImportRow, ReadDebits, ReadRows, Abort

\* Rows of the database are only appended.
LEMMA TxnsStay ==
    ASSUME TypeOK, [Next]_vars
    PROVE  /\ DOMAIN txns \subseteq DOMAIN txns'
           /\ \A i \in DOMAIN txns : txns'[i] = txns[i]
<1>1. ASSUME NEW x \in Import, ImportTxn(x)
      PROVE  /\ DOMAIN txns \subseteq DOMAIN txns'
             /\ \A i \in DOMAIN txns : txns'[i] = txns[i]
  BY <1>1 DEF ImportTxn, TypeOK
<1>2. ASSUME NEW p \in Pipeline, Reconcile(p) PROVE UNCHANGED txns
  BY <1>2 DEF Reconcile, Read, Visit, SecondPass, Commit, store
<1>3. ASSUME NEW p \in Pipeline, LinkFidelity(p) PROVE UNCHANGED txns
  BY <1>3 DEF LinkFidelity, ReadMarkers, ReadReferenced, TakeLock, Unmatched,
              Matched, CommitLinks, store
<1>4. (\E x \in Import : ImportTxn(x)) \/ UNCHANGED txns
  BY <1>2, <1>3 DEF Next, vars, store, ImportRow, ReadDebits, ReadRows, LinkAcorns, Abort
<1> QED
  BY <1>1, <1>4

-------------------------------------------------------------------------------
(* What a run under way has tagged: pairs of legs, no two of which share a *)
(* transaction, because processed_ids has both legs of each.               *)

PairsFit(p) ==
    \A pair \in run[p].pairs :
        \E i, j \in DOMAIN run[p].snap : pair = {i, j} /\ Legs(i, j)

PairsApart(p) ==
    /\ UNION run[p].pairs \subseteq run[p].done
    /\ \A a, b \in run[p].pairs : a # b => a \cap b = {}

TInv == TypeOK /\ \A p \in Pipeline : PairsFit(p) /\ PairsApart(p)

\* What a pipeline has read is still there.
LEMMA SnapKnown ==
    ASSUME TypeOK, NEW p \in Pipeline
    PROVE  /\ DOMAIN run[p].snap \subseteq DOMAIN txns
           /\ DOMAIN run[p].snap \subseteq DOMAIN tag
<1>1. /\ Len(run[p].snap) \in Nat /\ Len(run[p].snap) <= Len(txns)
      /\ DOMAIN run[p].snap = 1..Len(run[p].snap)
  BY DEF TypeOK, Local, Within
<1> QED
  BY <1>1, Lengths

\* What the inner loop accepts are two legs, in both passes.
LEMMA FitsAreLegs ==
    ASSUME TypeOK, NEW i \in DOMAIN txns, NEW j \in DOMAIN txns, NEW pass,
           Fits(pass, i, j)
    PROVE  Legs(i, j)
<1>1. txns[i] \in Txn /\ txns[j] \in Txn
  BY TagsAssumption DEF TypeOK
<1>2. txns[i].day \in Int /\ txns[j].day \in Int
  BY <1>1, TagsAssumption DEF Txn
<1>3. PairAllowed(i, j) => txns[i].debit # txns[j].debit
  BY DEF PairAllowed, Opposite
<1>4. CASE pass = "first"
  BY <1>2, <1>3, <1>4 DEF Fits, Legs, Near
<1>5. CASE pass # "first"
  BY <1>2, <1>3, <1>5 DEF Fits, Legs, Near
<1> QED
  BY <1>4, <1>5

LEMMA LegsAreMutual == \A i, j : Legs(i, j) => Legs(j, i)
  BY DEF Legs, Near

LEMMA LegsStay ==
    ASSUME TypeOK, [Next]_vars, NEW i \in DOMAIN txns, NEW j \in DOMAIN txns,
           Legs(i, j)
    PROVE  Legs(i, j)'
  BY TxnsStay DEF Legs, Near

LEMMA PairsStay ==
    ASSUME TInv, [Next]_vars, NEW p \in Pipeline,
           run'[p].snap = run[p].snap, run'[p].done = run[p].done,
           run'[p].pairs = run[p].pairs
    PROVE  PairsFit(p)' /\ PairsApart(p)'
<1>1. PairsApart(p)'
  BY DEF TInv, PairsApart
<1>2. ASSUME NEW pair \in run[p].pairs
      PROVE  \E i, j \in DOMAIN run[p].snap : pair = {i, j} /\ Legs(i, j)'
  <2>1. PICK i \in DOMAIN run[p].snap, j \in DOMAIN run[p].snap :
            pair = {i, j} /\ Legs(i, j)
    BY DEF TInv, PairsFit
  <2>2. i \in DOMAIN txns /\ j \in DOMAIN txns
    BY SnapKnown DEF TInv
  <2>3. Legs(i, j)'
    BY <2>1, <2>2, LegsStay DEF TInv
  <2> QED
    BY <2>1, <2>3
<1> QED
  BY <1>1, <1>2 DEF PairsFit

\* A turn of the outer loop.
LEMMA VisitMoves ==
    ASSUME TypeOK, NEW p \in Pipeline, NEW i \in run[p].todo, Visit(p, i)
    PROVE  /\ i \in DOMAIN run[p].snap /\ i \notin run[p].done
           /\ UNCHANGED store
           /\ run'[p].at = run[p].at /\ run'[p].snap = run[p].snap
           /\ run'[p].todo = { j \in run[p].todo : Before(i, j) }
           /\ \A k \in run[p].todo \ {i} : Turns(p, k) => Before(i, k)
           /\ \/ /\ run'[p].done = run[p].done \cup {i} \cup Candidates(p, i)
                 /\ run'[p].pairs = run[p].pairs
                 /\ \A j \in Candidates(p, i) : BothTagged(p, i, j)
                 /\ Candidates(p, i) # {}
              \/ \E j \in Candidates(p, i) :
                    /\ run'[p].done = run[p].done \cup {i, j}
                                      \cup { k \in Candidates(p, i) : Before(k, j) }
                    /\ run'[p].pairs = run[p].pairs \cup {{i, j}}
                    /\ \A k \in Candidates(p, i) \ {j} :
                          BothTagged(p, i, k) \/ Before(j, k)
<1>1. IsFirst(i, { j \in run[p].todo : Turns(p, j) }) /\ UNCHANGED store
  BY DEF Visit
<1>2. /\ i \in DOMAIN run[p].snap /\ i \notin run[p].done
      /\ \A k \in run[p].todo \ {i} : Turns(p, k) => Before(i, k)
      /\ Candidates(p, i) # {}
  BY <1>1 DEF IsFirst, Turns, TypeOK, Within
<1>3. ASSUME NEW processed, NEW tagged, Turn(p, i, processed, tagged)
      PROVE  /\ run'[p].at = run[p].at /\ run'[p].snap = run[p].snap
             /\ run'[p].todo = { j \in run[p].todo : Before(i, j) }
             /\ run'[p].done = run[p].done \cup processed
             /\ run'[p].pairs = run[p].pairs \cup tagged
  BY <1>3 DEF Turn, Becomes, TypeOK, Local
<1>4. CASE PassOver(p, i)
  <2>1. /\ Turn(p, i, {i} \cup Candidates(p, i), {})
        /\ \A j \in Candidates(p, i) : BothTagged(p, i, j)
    BY <1>4 DEF PassOver
  <2>2. /\ run'[p].done = run[p].done \cup ({i} \cup Candidates(p, i))
        /\ run'[p].pairs = run[p].pairs \cup {}
    BY <1>3, <2>1
  <2>3. /\ run'[p].at = run[p].at /\ run'[p].snap = run[p].snap
        /\ run'[p].todo = { j \in run[p].todo : Before(i, j) }
    BY <1>3, <2>1
  <2>4. /\ run'[p].done = run[p].done \cup {i} \cup Candidates(p, i)
        /\ run'[p].pairs = run[p].pairs
    BY <2>2
  <2> QED
    BY <1>1, <1>2, <2>1, <2>3, <2>4
<1>5. CASE Pair(p, i)
  <2>1. PICK j \in Candidates(p, i) :
            /\ IsFirst(j, { k \in Candidates(p, i) : ~BothTagged(p, i, k) })
            /\ Turn(p, i, {i, j} \cup { k \in Candidates(p, i) : Before(k, j) },
                    {{i, j}})
    BY <1>5 DEF Pair, Processed
  <2> DEFINE passed == { k \in Candidates(p, i) : Before(k, j) }
  <2>2. /\ run'[p].done = run[p].done \cup ({i, j} \cup passed)
        /\ run'[p].pairs = run[p].pairs \cup {{i, j}}
        /\ run'[p].at = run[p].at /\ run'[p].snap = run[p].snap
        /\ run'[p].todo = { k \in run[p].todo : Before(i, k) }
    BY <1>3, <2>1
  <2>3. \A k \in Candidates(p, i) \ {j} : BothTagged(p, i, k) \/ Before(j, k)
    BY <2>1 DEF IsFirst
  <2> HIDE DEF passed
  <2>4. run'[p].done = run[p].done \cup {i, j} \cup passed
    BY <2>2
  <2> QED
    BY <1>1, <1>2, <2>2, <2>3, <2>4 DEF passed
<1> QED
  BY <1>4, <1>5 DEF Visit

LEMMA PairKeeps ==
    ASSUME TInv, NEW p \in Pipeline, NEW i \in run[p].todo, Visit(p, i)
    PROVE  PairsFit(p)' /\ PairsApart(p)'
<1> USE DEF TInv, PairsFit, PairsApart
<1>1. /\ UNCHANGED txns /\ i \in DOMAIN run[p].snap /\ i \notin run[p].done
      /\ run'[p].snap = run[p].snap
  BY VisitMoves DEF store
<1>2. \A a, b : Legs(a, b)' <=> Legs(a, b)
  BY <1>1 DEF Legs, Near
<1>3. CASE /\ run'[p].done = run[p].done \cup {i} \cup Candidates(p, i)
           /\ run'[p].pairs = run[p].pairs
  <2>1. PairsFit(p)'
    BY <1>1, <1>2, <1>3
  <2>2. PairsApart(p)'
    BY <1>3
  <2> QED
    BY <2>1, <2>2
<1>4. ASSUME NEW j \in Candidates(p, i),
             run'[p].done = run[p].done \cup {i, j}
                            \cup { k \in Candidates(p, i) : Before(k, j) },
             run'[p].pairs = run[p].pairs \cup {{i, j}}
      PROVE  PairsFit(p)' /\ PairsApart(p)'
  <2>1. j \in DOMAIN run[p].snap /\ j \notin run[p].done
    BY DEF Candidates
  <2>2. i \in DOMAIN txns /\ j \in DOMAIN txns
    BY <1>1, <2>1, SnapKnown
  <2>3. Legs(i, j)
    BY <2>2, FitsAreLegs DEF Candidates
  <2>4. PairsFit(p)'
    BY <1>1, <1>2, <1>4, <2>1, <2>3
  <2>5. PairsApart(p)'
    <3>1. UNION run'[p].pairs \subseteq run'[p].done
      BY <1>4
    <3>2. \A pair \in run[p].pairs : pair \cap {i, j} = {}
      BY <1>1, <2>1
    <3> QED
      BY <1>4, <3>1, <3>2
  <2> QED
    BY <2>4, <2>5
<1>5. \/ /\ run'[p].done = run[p].done \cup {i} \cup Candidates(p, i)
         /\ run'[p].pairs = run[p].pairs
      \/ \E j \in Candidates(p, i) :
            /\ run'[p].done = run[p].done \cup {i, j}
                              \cup { k \in Candidates(p, i) : Before(k, j) }
            /\ run'[p].pairs = run[p].pairs \cup {{i, j}}
  BY VisitMoves
<1> QED
  BY <1>3, <1>4, <1>5

LEMMA ReadKeeps ==
    ASSUME TInv, NEW p \in Pipeline, Read(p)
    PROVE  PairsFit(p)' /\ PairsApart(p)'
<1>1. /\ run'[p].pairs = run[p].pairs /\ run'[p].done = run[p].done
      /\ run'[p].snap = tag /\ UNCHANGED txns
  BY DEF Read, Becomes, TInv, TypeOK, Local, store
<1>2. DOMAIN run[p].snap \subseteq DOMAIN tag
  BY SnapKnown DEF TInv
<1> QED
  BY <1>1, <1>2 DEF TInv, PairsFit, PairsApart, Legs, Near

LEMMA StepPairs == TInv /\ [Next]_vars => TInv'
<1> SUFFICES ASSUME TInv, [Next]_vars, NEW p \in Pipeline
             PROVE  PairsFit(p)' /\ PairsApart(p)'
  BY StepTypes DEF TInv
<1>1. CASE run'[p] = run[p]
  BY <1>1, PairsStay
<1>2. CASE run'[p] = Fresh
  <2>1. run'[p].pairs = {}
    BY <1>2 DEF Fresh
  <2> QED
    BY <2>1 DEF PairsFit, PairsApart
<1>3. CASE Read(p)
  BY <1>3, ReadKeeps
<1>4. ASSUME NEW i \in run[p].todo, Visit(p, i)
      PROVE  PairsFit(p)' /\ PairsApart(p)'
  BY <1>4, PairKeeps
<1>5. CASE SecondPass(p)
  <2>1. /\ run'[p].snap = run[p].snap /\ run'[p].done = run[p].done
        /\ run'[p].pairs = run[p].pairs
    BY <1>5 DEF SecondPass, Becomes, TInv, TypeOK, Local
  <2> QED
    BY <2>1, PairsStay
<1>6. CASE SameScan(p)
  BY <1>6, PairsStay DEF SameScan
<1> QED
  BY <1>1, <1>2, <1>3, <1>4, <1>5, <1>6, Moves DEF TInv

LEMMA InitPairs == Init => TInv
  BY InitTypes DEF Init, Fresh, TInv, PairsFit, PairsApart

(* A reconciliation under way, beside whatever others, has tagged disjoint *)
(* pairs of legs, which are all among its processed_ids.                   *)
THEOREM RunPairsUp == Spec => []TInv
  BY InitPairs, StepPairs, PTL DEF Spec

-------------------------------------------------------------------------------
(* A transfer has another leg.                                             *)

Justified(i) ==
    tag[i].kind = "xfer" =>
        \E j \in DOMAIN txns : tag[i].of = {i, j} /\ Legs(i, j)

LEMMA JustifiedStays ==
    ASSUME TInv, [Next]_vars, NEW i \in DOMAIN tag, Justified(i), tag'[i] = tag[i]
    PROVE  Justified(i)'
<1> SUFFICES ASSUME tag[i].kind = "xfer"
             PROVE  \E j \in DOMAIN txns' : tag[i].of = {i, j} /\ Legs(i, j)'
  BY DEF Justified
<1>1. PICK j \in DOMAIN txns : tag[i].of = {i, j} /\ Legs(i, j)
  BY DEF Justified
<1>2. i \in DOMAIN txns
  BY Lengths DEF TInv
<1>3. Legs(i, j)' /\ j \in DOMAIN txns'
  BY <1>1, <1>2, LegsStay, TxnsStay DEF TInv
<1> QED
  BY <1>1, <1>3

LEMMA CommitJustifies ==
    ASSUME TInv, NEW p \in Pipeline, Commit(p), NEW i \in DOMAIN tag,
           \E pair \in run[p].pairs : i \in pair
    PROVE  Justified(i)'
<1> DEFINE pair == CHOOSE pair \in run[p].pairs : i \in pair
<1>1. pair \in run[p].pairs /\ i \in pair
  OBVIOUS
<1>2. tag'[i] = Xfer(pair) /\ txns' = txns
  BY DEF Commit
<1> HIDE DEF pair
<1>3. PICK a \in DOMAIN run[p].snap, b \in DOMAIN run[p].snap :
          pair = {a, b} /\ Legs(a, b)
  BY <1>1 DEF TInv, PairsFit
<1>4. a \in DOMAIN txns /\ b \in DOMAIN txns
  BY SnapKnown DEF TInv
<1>5. PICK j \in DOMAIN txns : pair = {i, j} /\ Legs(i, j)
  BY <1>1, <1>3, <1>4, LegsAreMutual
<1> QED
  BY <1>2, <1>5 DEF Justified, Xfer, Legs, Near

\* What a linker leaves.
LEMMA LinkLeaves ==
    ASSUME NEW links, Link(links), NEW i \in DOMAIN tag
    PROVE  tag'[i] = tag[i] \/ \E r \in DOMAIN rows : tag'[i] = Invest(r)
<1>1. CASE \E r \in DOMAIN rows : <<i, r>> \in links
  BY <1>1 DEF Link
<1>2. CASE ~\E r \in DOMAIN rows : <<i, r>> \in links
  BY <1>2 DEF Link
<1> QED
  BY <1>1, <1>2

LEMMA StepJustified ==
    TInv /\ TagsAreJustified /\ [Next]_vars => TagsAreJustified'
<1> SUFFICES ASSUME TInv, \A i \in DOMAIN tag : Justified(i), [Next]_vars,
                    NEW i \in DOMAIN tag'
             PROVE  Justified(i)'
  BY DEF TagsAreJustified, Justified
<1>1. ASSUME NEW x \in Import, ImportTxn(x) PROVE Justified(i)'
  <2>1. CASE i \in DOMAIN tag
    BY <1>1, <2>1, JustifiedStays DEF ImportTxn, TInv, TypeOK
  <2>2. CASE i \notin DOMAIN tag
    BY <1>1, <2>2 DEF ImportTxn, Justified, Untagged, TInv, TypeOK
  <2> QED
    BY <2>1, <2>2
<1>2. CASE UNCHANGED tag
  BY <1>2, JustifiedStays
<1>3. ASSUME NEW p \in Pipeline, Commit(p) PROVE Justified(i)'
  <2>1. i \in DOMAIN tag
    BY <1>3 DEF Commit
  <2>2. CASE \E pair \in run[p].pairs : i \in pair
    BY <1>3, <2>1, <2>2, CommitJustifies
  <2>3. CASE ~\E pair \in run[p].pairs : i \in pair
    <3>1. tag'[i] = tag[i]
      BY <1>3, <2>1, <2>3 DEF Commit
    <3> QED
      BY <2>1, <3>1, JustifiedStays
  <2> QED
    BY <2>2, <2>3
<1>4. ASSUME NEW links, Link(links) PROVE Justified(i)'
  <2>1. i \in DOMAIN tag
    BY <1>4 DEF Link
  <2>2. ASSUME NEW r, tag'[i] = Invest(r) PROVE Justified(i)'
    BY <2>2 DEF Justified, Invest
  <2> QED
    BY <1>4, <2>1, <2>2, LinkLeaves, JustifiedStays
<1> QED
  BY <1>1, <1>2, <1>3, <1>4, TagWriters DEF LinkAcorns, CommitLinks

(* Whatever is imported, however often the three writers run and whatever  *)
(* runs beside them, a transaction tagged as a transfer has another leg:   *)
(* another account, the other direction, within three days.                *)
THEOREM TransfersHaveLegs == Spec => []TagsAreJustified
<1>1. Init => TagsAreJustified
  BY DEF Init, TagsAreJustified
<1> QED
  BY <1>1, RunPairsUp, StepJustified, PTL DEF Spec

-------------------------------------------------------------------------------
(* A run tags both legs of a pair.                                         *)

LEMMA CommitInPairs ==
    ASSUME TInv, NEW p \in Pipeline, Commit(p), NEW i \in DOMAIN tag,
           NEW j \in tag'[i].of, tag'[i] # tag[i]
    PROVE  tag'[j] = tag'[i]
<1>1. \E pair \in run[p].pairs : i \in pair
  BY DEF Commit
<1> DEFINE Of(k) == CHOOSE pair \in run[p].pairs : k \in pair
<1>2. Of(i) \in run[p].pairs /\ i \in Of(i)
  BY <1>1
<1>3. tag'[i] = Xfer(Of(i))
  BY <1>1 DEF Commit
<1>4. j \in Of(i)
  <2> HIDE DEF Of
  <2> QED BY <1>3 DEF Xfer
<1>5. Of(j) \in run[p].pairs /\ j \in Of(j)
  BY <1>2, <1>4
<1>6. j \in DOMAIN tag
  <2> HIDE DEF Of
  <2> QED BY <1>2, <1>4, SnapKnown DEF TInv, TypeOK, Within
<1>7. tag'[j] = Xfer(Of(j))
  BY <1>5, <1>6 DEF Commit
<1>8. Of(i) = Of(j)
  <2> HIDE DEF Of
  <2> QED BY <1>2, <1>4, <1>5 DEF TInv, PairsApart
<1> QED
  <2> HIDE DEF Of
  <2> QED BY <1>3, <1>7, <1>8

(* A run of reconcile_transfers never writes one leg alone, nor one tag to *)
(* three transactions: what it tags, it tags in pairs.                     *)
THEOREM RunsTagPairs == Spec => WrittenInPairs
<1> DEFINE InPairs ==
        \A i \in DOMAIN tag :
          tag'[i] # tag[i] /\ tag'[i].kind = "xfer"
              => \A j \in tag'[i].of : tag'[j] = tag'[i]
<1>1. TInv /\ [Next]_vars => InPairs
  <2> SUFFICES ASSUME TInv, [Next]_vars, NEW i \in DOMAIN tag,
                      tag'[i] # tag[i], tag'[i].kind = "xfer",
                      NEW j \in tag'[i].of
               PROVE  tag'[j] = tag'[i]
    OBVIOUS
  <2>1. ASSUME NEW p \in Pipeline, Commit(p) PROVE tag'[j] = tag'[i]
    BY <2>1, CommitInPairs
  <2>2. ASSUME NEW links, Link(links) PROVE FALSE
    <3>1. PICK r \in DOMAIN rows : tag'[i] = Invest(r)
      BY <2>2, LinkLeaves
    <3>2. tag'[i].kind = "invest"
      BY <3>1 DEF Invest
    <3> QED
      BY <3>2
  <2>3. ASSUME NEW x \in Import, ImportTxn(x) PROVE FALSE
    BY <2>3 DEF ImportTxn, TInv, TypeOK
  <2> QED
    BY <2>1, <2>2, <2>3, TagWriters DEF LinkAcorns, CommitLinks
<1> QED
  BY <1>1, RunPairsUp, PTL DEF Spec, WrittenInPairs

-------------------------------------------------------------------------------
(* A run leaves nothing to pair.                                           *)

\* Between two steps a pipeline has no locals.
IdleIsFresh(p) == Idle(p) => run[p] = Fresh

\* What is in processed_ids has a tag: one of the run's, or one of an earlier
\* run, which nothing takes away again.
DoneIsTagged(p) ==
    /\ \A k \in run[p].done : k \in UNION run[p].pairs \/ run[p].snap[k] # Untagged
    /\ \A k \in DOMAIN run[p].snap : run[p].snap[k] # Untagged => tag[k] # Untagged

\* The outer loop of a pass is over with i.
Past(p, pass, i) ==
    \/ run[p].at = pass /\ i \notin run[p].todo
    \/ pass = "first" /\ run[p].at = "second"

\* Where it is, each pair that fits has a leg in processed_ids.
Covered(p) ==
    \A pass \in {"first", "second"} : \A i, j \in DOMAIN run[p].snap :
        Past(p, pass, i) /\ Before(i, j) /\ Fits(pass, i, j)
            => i \in run[p].done \/ j \in run[p].done

SInv ==
    TInv /\ \A p \in Pipeline : IdleIsFresh(p) /\ DoneIsTagged(p) /\ Covered(p)

LEMMA BeforeIsStrict ==
    ASSUME TypeOK, NEW i \in DOMAIN txns, NEW j \in DOMAIN txns, Before(i, j)
    PROVE  ~Before(j, i)
<1>1. txns[i] \in Txn /\ txns[j] \in Txn
  BY TagsAssumption DEF TypeOK
<1>2. txns[i].day \in Int /\ txns[j].day \in Int
  BY <1>1, TagsAssumption DEF Txn
<1>3. i \in Nat /\ j \in Nat
  BY Lengths
<1> QED
  BY <1>2, <1>3 DEF Before

LEMMA FitsStay ==
    ASSUME TypeOK, [Next]_vars, NEW i \in DOMAIN txns, NEW j \in DOMAIN txns
    PROVE  /\ Before(i, j)' <=> Before(i, j)
           /\ \A pass : Fits(pass, i, j)' <=> Fits(pass, i, j)
<1>1. txns'[i] = txns[i] /\ txns'[j] = txns[j]
  BY TxnsStay
<1>2. PairAllowed(i, j)' <=> PairAllowed(i, j)
  BY <1>1 DEF PairAllowed, Opposite, Like
<1> QED
  BY <1>1, <1>2 DEF Before, Fits, Near

LEMMA MarksAreTags == \A x : Xfer(x) # Untagged /\ Invest(x) # Untagged
<1>1. Untagged.kind = "none"
  BY DEF Untagged
<1>2. \A x : Xfer(x).kind = "xfer" /\ Invest(x).kind = "invest"
  BY DEF Xfer, Invest
<1> QED
  BY <1>1, <1>2

LEMMA TagsStay ==
    ASSUME TypeOK, [Next]_vars, NEW i \in DOMAIN tag, tag[i] # Untagged
    PROVE  tag'[i] # Untagged
<1>1. ASSUME NEW x \in Import, ImportTxn(x) PROVE tag'[i] = tag[i]
  BY <1>1 DEF ImportTxn, TypeOK
<1>2. ASSUME NEW p \in Pipeline, Commit(p) PROVE tag'[i] # Untagged
  <2>1. tag'[i] = tag[i] \/ \E pair : tag'[i] = Xfer(pair)
    <3>1. CASE \E pair \in run[p].pairs : i \in pair
      BY <1>2, <3>1 DEF Commit
    <3>2. CASE ~\E pair \in run[p].pairs : i \in pair
      BY <1>2, <3>2 DEF Commit
    <3> QED
      BY <3>1, <3>2
  <2> QED
    BY <2>1, MarksAreTags
<1>3. ASSUME NEW links, Link(links) PROVE tag'[i] # Untagged
  BY <1>3, LinkLeaves, MarksAreTags
<1> QED
  BY <1>1, <1>2, <1>3, TagWriters DEF LinkAcorns, CommitLinks

\* A step that moves the scan of a pipeline not at all.
LEMMA ScanStays ==
    ASSUME SInv, [Next]_vars, NEW p \in Pipeline, SameScan(p),
           \/ run'[p].at = run[p].at
           \/ run'[p].at \in AcornsStage \cup FidelityStage
    PROVE  DoneIsTagged(p)' /\ Covered(p)'
<1>1. /\ run'[p].snap = run[p].snap /\ run'[p].done = run[p].done
      /\ run'[p].pairs = run[p].pairs /\ run'[p].todo = run[p].todo
  BY DEF SameScan
<1>2. TypeOK /\ DOMAIN run[p].snap \subseteq DOMAIN tag /\ DOMAIN run[p].snap \subseteq DOMAIN txns
  BY SnapKnown DEF SInv, TInv
<1>3. DoneIsTagged(p)'
  <2>1. ASSUME NEW k \in DOMAIN run[p].snap, run[p].snap[k] # Untagged
        PROVE  tag'[k] # Untagged
    BY <1>2, <2>1, TagsStay DEF SInv, DoneIsTagged
  <2> QED
    BY <1>1, <2>1 DEF SInv, DoneIsTagged
<1>4. Covered(p)'
  <2> SUFFICES ASSUME NEW pass \in {"first", "second"},
                      NEW i \in DOMAIN run[p].snap, NEW j \in DOMAIN run[p].snap,
                      Past(p, pass, i)', Before(i, j)', Fits(pass, i, j)'
               PROVE  i \in run[p].done \/ j \in run[p].done
    BY <1>1 DEF Covered
  <2>1. Before(i, j) /\ Fits(pass, i, j)
    BY <1>2, FitsStay
  <2>2. Past(p, pass, i)
    BY <1>1 DEF Past, AcornsStage, FidelityStage
  <2> QED
    BY <2>1, <2>2 DEF SInv, Covered
<1> QED
  BY <1>3, <1>4

LEMMA ReadScans ==
    ASSUME SInv, NEW p \in Pipeline, Read(p)
    PROVE  DoneIsTagged(p)' /\ Covered(p)'
<1>1. run[p].done = {} /\ run[p].pairs = {}
  BY DEF Read, SInv, IdleIsFresh, Fresh
<1>2. /\ run'[p].at = "first" /\ run'[p].done = {} /\ run'[p].pairs = {}
      /\ run'[p].snap = tag /\ run'[p].todo = DOMAIN tag /\ tag' = tag
  BY <1>1, Lengths DEF Read, Becomes, SInv, TInv, TypeOK, Local, store
<1> QED
  BY <1>2 DEF DoneIsTagged, Covered, Past

LEMMA NoTurnIsCovered ==
    ASSUME SInv, NEW p \in Pipeline, NEW i \in DOMAIN run[p].snap, ~Turns(p, i),
           NEW j \in DOMAIN run[p].snap, Before(i, j), Fits(run[p].at, i, j)
    PROVE  i \in run[p].done \/ j \in run[p].done
BY DEF Turns, Candidates

LEMMA VisitTags ==
    ASSUME SInv, NEW p \in Pipeline, NEW i \in run[p].todo, Visit(p, i)
    PROVE  DoneIsTagged(p)'
<1> USE DEF SInv, TInv, DoneIsTagged
<1>1. /\ run'[p].snap = run[p].snap /\ tag' = tag /\ i \in DOMAIN run[p].snap
  BY VisitMoves DEF store
<1>2. CASE /\ run'[p].done = run[p].done \cup {i} \cup Candidates(p, i)
           /\ run'[p].pairs = run[p].pairs
           /\ \A j \in Candidates(p, i) : BothTagged(p, i, j)
           /\ Candidates(p, i) # {}
  BY <1>1, <1>2 DEF BothTagged
<1>3. ASSUME NEW j \in Candidates(p, i),
             run'[p].done = run[p].done \cup {i, j}
                            \cup { k \in Candidates(p, i) : Before(k, j) },
             run'[p].pairs = run[p].pairs \cup {{i, j}},
             \A k \in Candidates(p, i) \ {j} : BothTagged(p, i, k) \/ Before(j, k)
      PROVE  DoneIsTagged(p)'
  <2>1. ASSUME NEW k \in Candidates(p, i), Before(k, j)
        PROVE  run[p].snap[k] # Untagged
    <3>1. k \in DOMAIN txns /\ j \in DOMAIN txns
      BY SnapKnown DEF Candidates
    <3>2. ~Before(j, k) /\ k # j
      BY <2>1, <3>1, BeforeIsStrict
    <3> QED
      BY <1>3, <3>2 DEF BothTagged
  <2>2. ASSUME NEW k \in run'[p].done
        PROVE  k \in UNION run'[p].pairs \/ run'[p].snap[k] # Untagged
    BY <1>1, <1>3, <2>1, <2>2
  <2> QED
    BY <1>1, <2>2
<1> QED
  BY <1>2, <1>3, VisitMoves

LEMMA VisitCovers ==
    ASSUME SInv, NEW p \in Pipeline, NEW i \in run[p].todo, Visit(p, i)
    PROVE  Covered(p)'
<1>1. /\ UNCHANGED txns /\ i \in run'[p].done /\ run[p].done \subseteq run'[p].done
      /\ run'[p].at = run[p].at /\ run'[p].snap = run[p].snap
      /\ run'[p].todo = { j \in run[p].todo : Before(i, j) }
      /\ \A k \in run[p].todo \ {i} : Turns(p, k) => Before(i, k)
  BY VisitMoves DEF store, SInv, TInv
<1> SUFFICES ASSUME NEW pass \in {"first", "second"},
                    NEW a \in DOMAIN run[p].snap, NEW b \in DOMAIN run[p].snap,
                    Past(p, pass, a)', Before(a, b), Fits(pass, a, b)
             PROVE  a \in run'[p].done \/ b \in run'[p].done
  BY <1>1 DEF Covered, Before, Fits, PairAllowed, Opposite, Like, Near
<1>2. CASE Past(p, pass, a)
  BY <1>1, <1>2 DEF SInv, Covered
<1>3. CASE ~Past(p, pass, a)
  <2>1. run[p].at = pass /\ a \in run[p].todo /\ ~Before(i, a)
    BY <1>1, <1>3 DEF Past
  <2>2. CASE a = i
    BY <1>1, <2>2
  <2>3. CASE a # i
    BY <1>1, <2>1, <2>3, NoTurnIsCovered
  <2> QED
    BY <2>2, <2>3
<1> QED
  BY <1>2, <1>3

\* At the end of a pass each pair that fits is covered.
LEMMA PassCovers ==
    ASSUME SInv, NEW p \in Pipeline, PassEnds(p),
           NEW i \in DOMAIN run[p].snap, NEW j \in DOMAIN run[p].snap,
           NEW pass \in {"first", "second"},
           run[p].at = pass \/ (pass = "first" /\ run[p].at = "second"),
           Before(i, j), Fits(pass, i, j)
    PROVE  i \in run[p].done \/ j \in run[p].done
<1>1. CASE Past(p, pass, i)
  BY <1>1 DEF SInv, Covered
<1>2. CASE ~Past(p, pass, i)
  <2>1. run[p].at = pass /\ ~Turns(p, i)
    BY <1>2 DEF Past, PassEnds
  <2> QED
    BY <2>1, NoTurnIsCovered
<1> QED
  BY <1>1, <1>2

LEMMA SecondScans ==
    ASSUME SInv, NEW p \in Pipeline, SecondPass(p)
    PROVE  DoneIsTagged(p)' /\ Covered(p)'
<1>1. /\ run[p].at = "first" /\ PassEnds(p) /\ run'[p].at = "second"
      /\ run'[p].snap = run[p].snap /\ run'[p].done = run[p].done
      /\ run'[p].pairs = run[p].pairs /\ run'[p].todo = DOMAIN run[p].snap
      /\ UNCHANGED <<txns, tag>>
  BY DEF SecondPass, Becomes, SInv, TInv, TypeOK, Local, store
<1>2. DoneIsTagged(p)'
  BY <1>1 DEF SInv, DoneIsTagged
<1>3. ASSUME NEW pass \in {"first", "second"},
             NEW i \in DOMAIN run[p].snap, NEW j \in DOMAIN run[p].snap,
             Past(p, pass, i)', Before(i, j), Fits(pass, i, j)
      PROVE  i \in run[p].done \/ j \in run[p].done
  <2>1. run[p].at = pass
    BY <1>1, <1>3 DEF Past
  <2>2. PassEnds(p)
    BY <1>1
  <2>3. Before(i, j) /\ Fits(pass, i, j)
    BY <1>3
  <2>4. run[p].at = pass \/ (pass = "first" /\ run[p].at = "second")
    BY <2>1
  <2> QED
    BY <2>2, <2>3, <2>4, PassCovers
<1>4. Covered(p)'
  BY <1>1, <1>3 DEF Covered, Before, Fits, PairAllowed, Opposite, Like, Near
<1> QED
  BY <1>2, <1>4

LEMMA FreshScans ==
    ASSUME NEW p \in Pipeline, run'[p] = Fresh
    PROVE  IdleIsFresh(p)' /\ DoneIsTagged(p)' /\ Covered(p)'
<1>1. /\ run'[p].at = "idle" /\ run'[p].done = {} /\ run'[p].snap = <<>>
      /\ DOMAIN <<>> = {}
  BY DEF Fresh
<1> QED
  BY <1>1 DEF IdleIsFresh, DoneIsTagged, Covered

LEMMA StepScans == SInv /\ [Next]_vars => SInv'
<1> SUFFICES ASSUME SInv, [Next]_vars, NEW p \in Pipeline
             PROVE  IdleIsFresh(p)' /\ DoneIsTagged(p)' /\ Covered(p)'
  BY StepPairs DEF SInv
<1>1. CASE run'[p] = run[p]
  BY <1>1, ScanStays DEF SameScan, SInv, IdleIsFresh, Idle
<1>2. CASE run'[p] = Fresh
  BY <1>2, FreshScans
<1>3. CASE Read(p)
  <2>1. run'[p].at = "first"
    BY <1>3 DEF Read, Becomes, SInv, TInv, TypeOK, Local
  <2> QED
    BY <1>3, <2>1, ReadScans DEF IdleIsFresh, Idle
<1>4. ASSUME NEW i \in run[p].todo, Visit(p, i)
      PROVE  IdleIsFresh(p)' /\ DoneIsTagged(p)' /\ Covered(p)'
  <2>1. run[p].at # "idle"
    BY DEF SInv, IdleIsFresh, Idle, Fresh
  <2>2. run'[p].at # "idle"
    BY <1>4, <2>1, VisitMoves DEF SInv, TInv
  <2> QED
    BY <1>4, <2>2, VisitTags, VisitCovers DEF IdleIsFresh, Idle
<1>5. CASE SecondPass(p)
  <2>1. run'[p].at = "second"
    BY <1>5 DEF SecondPass, Becomes, SInv, TInv, TypeOK, Local
  <2> QED
    BY <1>5, <2>1, SecondScans DEF IdleIsFresh, Idle
<1>6. CASE SameScan(p) /\ run'[p].at \in AcornsStage \cup FidelityStage
  <2>1. run'[p].at # "idle"
    BY <1>6 DEF AcornsStage, FidelityStage
  <2> QED
    BY <1>6, <2>1, ScanStays DEF IdleIsFresh, Idle
<1> QED
  BY <1>1, <1>2, <1>3, <1>4, <1>5, <1>6, Moves DEF SInv, TInv

LEMMA CommitLeavesNothing ==
    ASSUME SInv, NEW p \in Pipeline, Commit(p),
           NEW i \in DOMAIN run[p].snap, NEW j \in DOMAIN run[p].snap,
           NEW pass \in {"first", "second"}, Before(i, j), Fits(pass, i, j)
    PROVE  tag'[i] # Untagged \/ tag'[j] # Untagged
<1>1. i \in run[p].done \/ j \in run[p].done
  BY PassCovers DEF Commit
<1>2. ASSUME NEW k \in run[p].done, k \in DOMAIN run[p].snap
      PROVE  tag'[k] # Untagged
  <2>1. k \in DOMAIN tag
    BY <1>2, SnapKnown DEF SInv, TInv
  <2>2. CASE \E pair \in run[p].pairs : k \in pair
    BY <2>1, <2>2, MarksAreTags DEF Commit
  <2>3. CASE ~\E pair \in run[p].pairs : k \in pair
    <3>1. run[p].snap[k] # Untagged /\ tag[k] # Untagged
      BY <1>2, <2>3 DEF SInv, DoneIsTagged
    <3>2. tag'[k] = tag[k]
      BY <2>1, <2>3 DEF Commit
    <3> QED
      BY <3>1, <3>2
  <2> QED
    BY <2>2, <2>3
<1> QED
  BY <1>1, <1>2

(* When a run of reconcile_transfers commits, no two of the transactions   *)
(* it read fit together and are both still counted, although each pass is  *)
(* greedy and passes over what is tagged, and whatever other runs and      *)
(* linkers wrote since it read.                                            *)
THEOREM RunsLeaveNothing == Spec => NothingLeftOver
<1> DEFINE Complete ==
        \A p \in Pipeline : Commit(p) =>
          \A i, j \in DOMAIN run[p].snap : \A pass \in {"first", "second"} :
              Before(i, j) /\ Fits(pass, i, j)
                  => tag'[i] # Untagged \/ tag'[j] # Untagged
<1>1. Init => SInv
  <2>1. ASSUME Init, NEW p \in Pipeline
        PROVE  IdleIsFresh(p) /\ DoneIsTagged(p) /\ Covered(p)
    <3>1. run[p] = Fresh /\ DOMAIN <<>> = {}
      BY <2>1 DEF Init
    <3> QED
      BY <3>1 DEF IdleIsFresh, DoneIsTagged, Covered, Fresh
  <2> QED
    BY <2>1, InitPairs DEF SInv
<1>2. SInv /\ [Next]_vars => Complete
  BY CommitLeavesNothing
<1> QED
  BY <1>1, <1>2, StepScans, PTL DEF Spec, NothingLeftOver

-------------------------------------------------------------------------------
(* An investment tag leads to its row.                                     *)

Held ==
    \A i \in DOMAIN tag :
        tag[i].kind = "invest" => \E r \in DOMAIN bank :
                                     tag[i] = Invest(r) /\ bank[r] = i

\* No linker runs beside another of its kind.
Alone ==
    \A p, q \in Pipeline :
        p # q => /\ ~(run[p].at \in AcornsStage /\ run[q].at \in AcornsStage)
                 /\ ~(run[p].at \in FidelityStage /\ run[q].at \in FidelityStage)

\* Only a linker keeps rows, and only that of Fidelity keeps links.
LinkersLocals(p) ==
    /\ run[p].free # {} => run[p].at \in AcornsStage \cup FidelityStage
    /\ run[p].links # {} => run[p].at \in FidelityStage

\* It has chosen one transaction for a row, and has left the row behind.
LinksApart(p) ==
    \A l \in run[p].links :
        l[2] \notin run[p].free /\ \A k \in run[p].links : k[2] = l[2] => k = l

\* The rows it has before it and those it has chosen for are still free, and
\* of its own kind.
RowsAreFree(p) ==
    /\ \A r \in run[p].free :
          bank[r] = 0 /\ (rows[r].kind = "acorns" <=> run[p].at \in AcornsStage)
    /\ \A l \in run[p].links : bank[l[2]] = 0 /\ rows[l[2]].kind # "acorns"

LInv ==
    /\ SInv
    /\ \A p \in Pipeline : LinkersLocals(p) /\ LinksApart(p)
    /\ ~crossed => Held /\ Alone /\ \A p \in Pipeline : RowsAreFree(p)

\* The debits of a day have different ranks.
LEMMA RanksDiffer ==
    ASSUME TypeOK, NEW p \in Pipeline, NEW i \in run[p].saw, NEW j \in run[p].saw,
           txns[i].day = txns[j].day, i < j
    PROVE  RankOfTxn(p, i) # RankOfTxn(p, j)
<1> DEFINE A == { k \in run[p].saw : txns[k].day = txns[i].day /\ k < i }
           B == { k \in run[p].saw : txns[k].day = txns[j].day /\ k < j }
<1>1. run[p].saw \subseteq 1..Len(txns) /\ Len(txns) \in Nat
  BY DEF TypeOK, Within
<1>2. IsFiniteSet(B)
  <2>1. IsFiniteSet(1..Len(txns))
    BY <1>1, FS_Interval
  <2>2. B \in SUBSET (1..Len(txns))
    BY <1>1
  <2> HIDE DEF B
  <2> QED
    BY <2>1, <2>2, FS_Subset
<1>3. A \in SUBSET B
  BY <1>1
<1>4. i \in B /\ i \notin A
  BY <1>1
<1> HIDE DEF A, B
<1>5. Cardinality(A) # Cardinality(B)
  BY <1>2, <1>3, <1>4, FS_Subset
<1> QED
  BY <1>5 DEF RankOfTxn, A, B

\* So no row gets two of them.
LEMMA DayLinksApart ==
    ASSUME TypeOK, NEW p \in Pipeline, NEW k \in DayLinks(p), NEW l \in DayLinks(p),
           k[2] = l[2]
    PROVE  k = l
<1>1. /\ k \in run[p].saw \X run[p].free /\ l \in run[p].saw \X run[p].free
      /\ txns[k[1]].day = txns[l[1]].day
      /\ RankOfTxn(p, k[1]) = RankOfTxn(p, l[1])
  BY DEF DayLinks
<1>2. k[1] \in Nat /\ l[1] \in Nat
  BY <1>1 DEF TypeOK, Within
<1>3. ~(k[1] < l[1]) /\ ~(l[1] < k[1])
  BY <1>1, RanksDiffer
<1> QED
  BY <1>1, <1>2, <1>3

\* Links of which none shares its row with another, to rows that are free,
\* keep the tags and the rows together.
LEMMA LinkHolds ==
    ASSUME TypeOK, Held, NEW links \in SUBSET ((DOMAIN txns) \X (DOMAIN rows)), Link(links),
           \A k, l \in links : k[2] = l[2] => k = l,
           \A l \in links : bank[l[2]] = 0
    PROVE  Held'
<1>1. /\ DOMAIN tag' = DOMAIN tag /\ DOMAIN bank' = DOMAIN bank
      /\ DOMAIN tag = DOMAIN txns /\ DOMAIN bank = DOMAIN rows
      /\ 0 \notin DOMAIN txns
  BY Lengths DEF Link, Stamp
<1>2. ASSUME NEW i \in DOMAIN txns, NEW r \in DOMAIN rows, <<i, r>> \in links
      PROVE  bank'[r] = i
  <2>1. \A j \in DOMAIN txns : <<j, r>> \in links => j = i
    BY <1>2
  <2>2. bank'[r] = CHOOSE j \in DOMAIN txns : <<j, r>> \in links
    BY <1>1, <1>2 DEF Link, Stamp
  <2> QED
    BY <1>2, <2>1, <2>2
<1> SUFFICES ASSUME NEW i \in DOMAIN txns, tag'[i].kind = "invest"
             PROVE  \E r \in DOMAIN rows : tag'[i] = Invest(r) /\ bank'[r] = i
  BY <1>1 DEF Held
<1>3. CASE \E r \in DOMAIN rows : <<i, r>> \in links
  <2>1. PICK r \in DOMAIN rows : <<i, r>> \in links /\ tag'[i] = Invest(r)
    BY <1>1, <1>3 DEF Link
  <2> QED
    BY <1>2, <2>1
<1>4. CASE ~\E r \in DOMAIN rows : <<i, r>> \in links
  <2>1. tag'[i] = tag[i]
    BY <1>1, <1>4 DEF Link
  <2>2. PICK r \in DOMAIN rows : tag[i] = Invest(r) /\ bank[r] = i
    BY <1>1, <2>1 DEF Held
  <2>3. ~\E j \in DOMAIN txns : <<j, r>> \in links
    <3>1. bank[r] # 0
      BY <1>1, <2>2
    <3> QED
      BY <3>1
  <2>4. bank'[r] = bank[r]
    BY <1>1, <2>3 DEF Link, Stamp
  <2> QED
    BY <2>1, <2>2, <2>4
<1> QED
  BY <1>3, <1>4

\* A row without a link keeps what it has.
LEMMA LinkSpares ==
    ASSUME TypeOK, NEW links, Link(links), NEW r \in DOMAIN rows,
           \A l \in links : l[2] # r
    PROVE  bank'[r] = bank[r]
<1>1. ~\E i \in DOMAIN txns : <<i, r>> \in links
  OBVIOUS
<1>2. r \in DOMAIN bank
  BY Lengths
<1> QED
  BY <1>1, <1>2 DEF Link, Stamp

\* What the linkers commit.
LEMMA LinksAreSafe ==
    ASSUME LInv, ~crossed, NEW p \in Pipeline
    PROVE  /\ LinkAcorns(p) =>
                /\ DayLinks(p) \subseteq (DOMAIN txns) \X (DOMAIN rows)
                /\ \A k, l \in DayLinks(p) : k[2] = l[2] => k = l
                /\ \A l \in DayLinks(p) :
                      bank[l[2]] = 0 /\ rows[l[2]].kind = "acorns"
           /\ CommitLinks(p) =>
                /\ run[p].links \subseteq (DOMAIN txns) \X (DOMAIN rows)
                /\ \A k, l \in run[p].links : k[2] = l[2] => k = l
                /\ \A l \in run[p].links :
                      bank[l[2]] = 0 /\ rows[l[2]].kind # "acorns"
<1>1. /\ run[p].saw \subseteq DOMAIN txns /\ run[p].free \subseteq DOMAIN rows
      /\ run[p].links \subseteq (DOMAIN txns) \X (DOMAIN rows)
  <2>1. TypeOK /\ Within(run[p], Len(txns), Len(rows))
    BY DEF LInv, SInv, TInv, TypeOK
  <2> QED
    BY <2>1, Lengths DEF Within
<1>2. RowsAreFree(p) /\ LinksApart(p) /\ TypeOK
  BY DEF LInv, SInv, TInv
<1>3. CASE LinkAcorns(p)
  <2>1. DayLinks(p) \subseteq run[p].saw \X run[p].free
    BY DEF DayLinks
  <2>2. run[p].at \in AcornsStage
    BY <1>3 DEF LinkAcorns, AcornsStage
  <2>3. run[p].at \notin FidelityStage
    BY <2>2 DEF AcornsStage, FidelityStage
  <2>4. \A k, l \in DayLinks(p) : k[2] = l[2] => k = l
    BY <1>2, DayLinksApart
  <2>5. \A l \in DayLinks(p) : bank[l[2]] = 0 /\ rows[l[2]].kind = "acorns"
    BY <1>2, <2>1, <2>2 DEF RowsAreFree
  <2>6. DayLinks(p) \subseteq (DOMAIN txns) \X (DOMAIN rows)
    <3>1. ASSUME NEW l \in DayLinks(p) PROVE l \in (DOMAIN txns) \X (DOMAIN rows)
      <4>1. l \in run[p].saw \X run[p].free
        BY <2>1
      <4> QED
        BY <1>1, <4>1
    <3> QED
      BY <3>1
  <2>7. ~CommitLinks(p)
    BY <2>3 DEF CommitLinks, FidelityStage
  <2> QED
    BY <2>4, <2>5, <2>6, <2>7
<1>4. CASE CommitLinks(p)
  <2>1. ~LinkAcorns(p)
    BY <1>4 DEF CommitLinks, LinkAcorns
  <2> QED
    BY <1>1, <1>2, <2>1 DEF RowsAreFree, LinksApart
<1> QED
  BY <1>3, <1>4

\* Who stamps the rows, which are only appended.
LEMMA RowsStay ==
    ASSUME TypeOK, [Next]_vars
    PROVE  /\ DOMAIN bank = DOMAIN rows
           /\ \A r \in DOMAIN rows : r \in DOMAIN bank' /\ rows'[r] = rows[r]
           /\ \/ \A r \in DOMAIN rows : bank'[r] = bank[r]
              \/ \E p \in Pipeline : LinkAcorns(p) \/ CommitLinks(p)
<1>1. DOMAIN bank = DOMAIN rows
  BY Lengths
<1>2. ASSUME NEW x \in Ledger, ImportRow(x)
      PROVE  \A r \in DOMAIN rows :
                r \in DOMAIN bank' /\ rows'[r] = rows[r] /\ bank'[r] = bank[r]
  BY <1>2 DEF ImportRow, TypeOK
<1>3. ASSUME NEW p \in Pipeline, LinkAcorns(p) \/ CommitLinks(p)
      PROVE  \A r \in DOMAIN rows : r \in DOMAIN bank' /\ rows'[r] = rows[r]
  BY <1>1, <1>3 DEF LinkAcorns, CommitLinks, Link, Stamp
<1>4. CASE UNCHANGED <<rows, bank>>
  BY <1>1, <1>4
<1>5. ASSUME NEW p \in Pipeline, Reconcile(p) PROVE UNCHANGED <<rows, bank>>
  BY <1>5 DEF Reconcile, Read, Visit, SecondPass, Commit, store
<1>6. ASSUME NEW p \in Pipeline, LinkFidelity(p)
      PROVE  UNCHANGED <<rows, bank>> \/ CommitLinks(p)
  BY <1>6 DEF LinkFidelity, ReadMarkers, ReadReferenced, TakeLock, Unmatched,
              Matched, store
<1>7. \/ UNCHANGED <<rows, bank>>
      \/ \E x \in Ledger : ImportRow(x)
      \/ \E p \in Pipeline : LinkAcorns(p) \/ CommitLinks(p)
  BY <1>5, <1>6 DEF Next, vars, store, ImportTxn, ReadDebits, ReadRows, Abort
<1> QED
  BY <1>1, <1>2, <1>3, <1>4, <1>7

SameClaims(p) ==
    /\ run'[p].free = run[p].free /\ run'[p].links = run[p].links
    /\ run'[p].at \in AcornsStage <=> run[p].at \in AcornsStage
    /\ run'[p].at \in FidelityStage <=> run[p].at \in FidelityStage

LEMMA ScanKeepsClaims ==
    ASSUME TypeOK, NEW p \in Pipeline,
           \/ Read(p) \/ (\E i \in run[p].todo : Visit(p, i)) \/ SecondPass(p)
           \/ ReadReferenced(p) \/ TakeLock(p)
    PROVE  SameClaims(p)
<1> USE DEF TypeOK, Local, Becomes, SameClaims, AcornsStage, FidelityStage
<1>1. CASE Read(p)
  BY <1>1 DEF Read, Idle
<1>2. ASSUME NEW i \in run[p].todo, Visit(p, i) PROVE SameClaims(p)
  <2>1. ASSUME NEW processed, NEW tagged, Turn(p, i, processed, tagged)
        PROVE  SameClaims(p)
    BY <2>1 DEF Turn
  <2> QED
    BY <1>2, <2>1 DEF Visit, PassOver, Pair
<1>3. CASE SecondPass(p)
  BY <1>3 DEF SecondPass
<1>4. CASE ReadReferenced(p)
  BY <1>4 DEF ReadReferenced
<1>5. CASE TakeLock(p)
  BY <1>5 DEF TakeLock
<1> QED
  BY <1>1, <1>2, <1>3, <1>4, <1>5

\* The kinds of step, as a linker under way sees them.
LEMMA ClaimMoves ==
    ASSUME TypeOK, [Next]_vars, NEW p \in Pipeline
    PROVE  \/ SameClaims(p)
           \/ run'[p] = Fresh
           \/ ReadDebits(p) \/ ReadRows(p) \/ ReadMarkers(p)
           \/ \E r \in run[p].free : Unmatched(p, r) \/ Matched(p, r)
<1>1. CASE run'[p] = run[p]
  BY <1>1 DEF SameClaims
<1>2. ASSUME NEW q \in Pipeline, Over(q)
      PROVE  run'[p] = run[p] \/ run'[p] = Fresh
  BY <1>2 DEF Over, Becomes, TypeOK
<1>3. ASSUME NEW q \in Pipeline, q # p,
             Read(q) \/ (\E i \in run[q].todo : Visit(q, i)) \/ SecondPass(q)
      PROVE  run'[p] = run[p]
  BY <1>3 DEF Read, Visit, PassOver, Pair, Turn, SecondPass, Becomes, TypeOK
<1>4. ASSUME NEW q \in Pipeline, Reconcile(q)
      PROVE  run'[p] = run[p] \/ run'[p] = Fresh \/ SameClaims(p)
  BY <1>2, <1>3, <1>4, ScanKeepsClaims DEF Reconcile, Commit
<1>5. ASSUME NEW q \in Pipeline, q # p,
             LinkFidelity(q) \/ ReadDebits(q) \/ ReadRows(q)
      PROVE  run'[p] = run[p] \/ run'[p] = Fresh
  <2>1. CASE Over(q)
    BY <1>2, <2>1
  <2>2. CASE ~Over(q)
    <3>1. \/ ReadDebits(q) \/ ReadRows(q)
          \/ ReadMarkers(q) \/ ReadReferenced(q) \/ TakeLock(q)
          \/ \E r \in run[q].free : Unmatched(q, r) \/ Matched(q, r)
      BY <1>5, <2>2 DEF LinkFidelity, CommitLinks
    <3> QED
      BY <1>5, <3>1, LinkerKeepsScan
  <2> QED
    BY <2>1, <2>2
<1>6. CASE LinkFidelity(p)
  BY <1>1, <1>2, <1>6, ScanKeepsClaims DEF LinkFidelity, CommitLinks
<1>7. ASSUME NEW q \in Pipeline, LinkAcorns(q) \/ Abort(q)
      PROVE  run'[p] = run[p] \/ run'[p] = Fresh
  BY <1>2, <1>7 DEF LinkAcorns, Abort
<1>8. UNCHANGED run \/ \E q \in Pipeline :
          \/ Reconcile(q) \/ ReadDebits(q) \/ ReadRows(q) \/ LinkFidelity(q)
          \/ LinkAcorns(q) \/ Abort(q)
  BY DEF Next, vars, ImportTxn, ImportRow
<1> QED
  BY <1>1, <1>4, <1>5, <1>6, <1>7, <1>8

LEMMA MatchedMoves ==
    ASSUME TypeOK, NEW p \in Pipeline, NEW r \in run[p].free, Matched(p, r)
    PROVE  \E i \in DOMAIN txns :
              /\ run'[p].free = run[p].free \ {r}
              /\ run'[p].links = run[p].links \cup {<<i, r>>}
              /\ run'[p].at \in FidelityStage /\ run[p].at \in FidelityStage
<1>1. PICK i \in DOMAIN txns, at \in {"chosen", "locked"} :
          Becomes(p, [run[p] EXCEPT !.at = at, !.saw = @ \cup {i},
                             !.free = @ \ {r}, !.links = @ \cup {<<i, r>>}])
  BY MatchedWrites
<1> DEFINE links == run[p].links \cup {<<i, r>>}
<1> HIDE DEF links
<1> DEFINE l == [run[p] EXCEPT !.at = at, !.saw = run[p].saw \cup {i},
                               !.free = run[p].free \ {r}, !.links = links]
<1>2. run' = [run EXCEPT ![p] = l]
  BY <1>1 DEF links, Becomes
<1>3. l.free = run[p].free \ {r} /\ l.links = links /\ l.at = at
  BY DEF TypeOK, Local
<1> HIDE DEF l
<1>4. run'[p] = l
  BY <1>2 DEF TypeOK
<1>5. at \in FidelityStage /\ run[p].at \in FidelityStage
  BY DEF Matched, FidelityStage
<1> QED
  BY <1>3, <1>4, <1>5 DEF links

LEMMA UnmatchedMoves ==
    ASSUME TypeOK, NEW p \in Pipeline, NEW r \in run[p].free, Unmatched(p, r)
    PROVE  /\ run'[p].free = run[p].free \ {r} /\ run'[p].links = run[p].links
           /\ run'[p].at = run[p].at /\ run[p].at \in FidelityStage
BY DEF Unmatched, Becomes, TypeOK, Local, FidelityStage

\* The reads start from nothing.
LEMMA ReadsMove ==
    ASSUME LInv, NEW p \in Pipeline
    PROVE  /\ ReadDebits(p) => /\ run'[p].free = {} /\ run'[p].links = {}
                               /\ run'[p].at \in AcornsStage
                               /\ run'[p].at \notin FidelityStage
           /\ ReadRows(p) => /\ run'[p].links = {}
                             /\ run'[p].at \in AcornsStage
                             /\ run'[p].at \notin FidelityStage
                             /\ run[p].at \in AcornsStage
                             /\ run'[p].free = { r \in DOMAIN rows :
                                      rows[r].kind = "acorns" /\ bank[r] = 0 }
           /\ ReadMarkers(p) => /\ run'[p].links = {}
                                /\ run'[p].at \in FidelityStage
                                /\ run'[p].at \notin AcornsStage
                                /\ run'[p].free = { r \in DOMAIN rows :
                                      rows[r].kind # "acorns" /\ bank[r] = 0 }
<1> USE DEF AcornsStage, FidelityStage
<1>1. /\ Idle(p) => run[p].free = {} /\ run[p].links = {}
      /\ run[p].at = "debits" => run[p].links = {}
  BY DEF LInv, SInv, IdleIsFresh, Fresh, LinkersLocals
<1>2. run \in [Pipeline -> Local] /\ run[p] \in Local
  BY DEF LInv, SInv, TInv, TypeOK
<1>3. ReadDebits(p) => /\ run'[p].free = run[p].free /\ run'[p].links = run[p].links
                       /\ run'[p].at = "debits" /\ Idle(p)
  BY <1>2 DEF ReadDebits, Becomes, Local
<1>4. ReadRows(p) => /\ run'[p].links = run[p].links
                     /\ run'[p].at = "acorns" /\ run[p].at = "debits"
                     /\ run'[p].free = { r \in DOMAIN rows :
                                      rows[r].kind = "acorns" /\ bank[r] = 0 }
  BY <1>2 DEF ReadRows, Becomes, Local
<1>5. ReadMarkers(p) => /\ run'[p].links = run[p].links
                        /\ run'[p].at = "markers" /\ Idle(p)
                        /\ run'[p].free = { r \in DOMAIN rows :
                                      rows[r].kind # "acorns" /\ bank[r] = 0 }
  BY <1>2 DEF ReadMarkers, Becomes, Local
<1> QED
  BY <1>1, <1>3, <1>4, <1>5

LEMMA LocalsKeep ==
    ASSUME LInv, [Next]_vars, NEW p \in Pipeline
    PROVE  LinkersLocals(p)' /\ LinksApart(p)'
<1>1. TypeOK /\ LinkersLocals(p) /\ LinksApart(p)
  BY DEF LInv, SInv, TInv
<1>2. CASE SameClaims(p)
  BY <1>1, <1>2 DEF SameClaims, LinkersLocals, LinksApart
<1>3. CASE run'[p] = Fresh
  <2>1. run'[p].free = {} /\ run'[p].links = {}
    BY <1>3 DEF Fresh
  <2> QED
    BY <2>1 DEF LinkersLocals, LinksApart
<1>4. CASE ReadDebits(p) \/ ReadRows(p) \/ ReadMarkers(p)
  <2>1. /\ run'[p].links = {}
        /\ run'[p].free = {} \/ run'[p].at \in AcornsStage \cup FidelityStage
    BY <1>4, ReadsMove
  <2> QED
    BY <2>1 DEF LinkersLocals, LinksApart
<1>5. ASSUME NEW r \in run[p].free, Unmatched(p, r)
      PROVE  LinkersLocals(p)' /\ LinksApart(p)'
  BY <1>1, <1>5, UnmatchedMoves DEF LinkersLocals, LinksApart
<1>6. ASSUME NEW r \in run[p].free, Matched(p, r)
      PROVE  LinkersLocals(p)' /\ LinksApart(p)'
  <2>1. PICK i \in DOMAIN txns :
            /\ run'[p].free = run[p].free \ {r}
            /\ run'[p].links = run[p].links \cup {<<i, r>>}
            /\ run'[p].at \in FidelityStage
    BY <1>1, <1>6, MatchedMoves
  <2>2. \A l \in run[p].links : l[2] # r
    BY <1>1 DEF LinksApart
  <2>3. LinksApart(p)'
    BY <1>1, <2>1, <2>2 DEF LinksApart
  <2> QED
    BY <2>1, <2>3 DEF LinkersLocals
<1> QED
  BY <1>1, <1>2, <1>3, <1>4, <1>5, <1>6, ClaimMoves

LEMMA AloneStays ==
    ASSUME LInv, [Next]_vars, ~crossed, ~crossed'
    PROVE  Alone'
<1>1. TypeOK /\ Alone
  BY DEF LInv, SInv, TInv
<1>2. ASSUME NEW p \in Pipeline
      PROVE  /\ run'[p].at \in AcornsStage =>
                    run[p].at \in AcornsStage \/ ReadDebits(p)
             /\ run'[p].at \in FidelityStage =>
                    run[p].at \in FidelityStage \/ ReadMarkers(p)
  <2>1. Fresh.at \notin AcornsStage \cup FidelityStage
    BY DEF Fresh, AcornsStage, FidelityStage
  <2>2. ASSUME NEW r \in run[p].free, Unmatched(p, r) \/ Matched(p, r)
        PROVE  run[p].at \in FidelityStage /\ run'[p].at \in FidelityStage
    BY <1>1, <2>2, UnmatchedMoves, MatchedMoves
  <2>3. AcornsStage \cap FidelityStage = {}
    BY DEF AcornsStage, FidelityStage
  <2> QED
    BY <1>1, <2>1, <2>2, <2>3, ClaimMoves, ReadsMove DEF SameClaims
<1>3. ASSUME NEW p \in Pipeline, NEW q \in Pipeline, p # q
      PROVE  /\ ReadDebits(p) => /\ run[q].at \notin AcornsStage
                                 /\ run'[q].at \notin AcornsStage
             /\ ReadMarkers(p) => /\ run[q].at \notin FidelityStage
                                  /\ run'[q].at \notin FidelityStage
  <2>1. ReadDebits(p) \/ ReadMarkers(p) => run'[q] = run[q]
    BY <1>1, <1>3, LinkerKeepsScan
  <2> QED
    BY <2>1 DEF ReadDebits, ReadMarkers, Starts
<1> QED
  BY <1>1, <1>2, <1>3 DEF Alone

\* Nobody takes a row away from a linker that is alone of its kind.
LEMMA ClaimsStay ==
    ASSUME LInv, [Next]_vars, ~crossed, NEW p \in Pipeline, run'[p] # Fresh,
           NEW r \in DOMAIN rows,
           r \in run[p].free \/ \E l \in run[p].links : l[2] = r
    PROVE  bank'[r] = 0 /\ rows'[r] = rows[r]
<1>1. TypeOK /\ Alone /\ RowsAreFree(p) /\ LinkersLocals(p)
  BY DEF LInv, SInv, TInv
<1>2. bank[r] = 0 /\ rows'[r] = rows[r]
  BY <1>1, RowsStay DEF RowsAreFree
<1>3. ASSUME NEW q \in Pipeline, Over(q) PROVE q # p
  BY <1>1, <1>3 DEF Over, Becomes, TypeOK
<1>4. ASSUME NEW q \in Pipeline, LinkAcorns(q) PROVE bank'[r] = bank[r]
  <2>1. Link(DayLinks(q)) /\ q # p /\ run[q].at \in AcornsStage
    BY <1>3, <1>4 DEF LinkAcorns, AcornsStage
  <2>2. run[p].at \notin AcornsStage
    BY <1>1, <2>1 DEF Alone
  <2>3. rows[r].kind # "acorns"
    BY <1>1, <2>2 DEF RowsAreFree
  <2>4. \A l \in DayLinks(q) : l[2] # r
    BY <1>4, <2>3, LinksAreSafe
  <2> QED
    BY <1>1, <2>1, <2>4, LinkSpares
<1>5. ASSUME NEW q \in Pipeline, CommitLinks(q) PROVE bank'[r] = bank[r]
  <2>1. Link(run[q].links) /\ q # p /\ run[q].at \in FidelityStage
    BY <1>3, <1>5 DEF CommitLinks, FidelityStage
  <2>2. run[p].at \notin FidelityStage
    BY <1>1, <2>1 DEF Alone
  <2>3. rows[r].kind = "acorns"
    BY <1>1, <2>2 DEF RowsAreFree, LinkersLocals
  <2>4. \A l \in run[q].links : l[2] # r
    BY <1>5, <2>3, LinksAreSafe
  <2> QED
    BY <1>1, <2>1, <2>4, LinkSpares
<1> QED
  BY <1>1, <1>2, <1>4, <1>5, RowsStay

LEMMA FreeStays ==
    ASSUME LInv, [Next]_vars, ~crossed, NEW p \in Pipeline
    PROVE  RowsAreFree(p)'
<1>1. /\ TypeOK /\ RowsAreFree(p) /\ LinkersLocals(p)
      /\ run[p].free \subseteq DOMAIN rows
      /\ \A l \in run[p].links : l[2] \in DOMAIN rows
  <2>1. TypeOK /\ Within(run[p], Len(txns), Len(rows))
    BY DEF LInv, SInv, TInv, TypeOK
  <2> QED
    BY <2>1, Lengths DEF LInv, Within
<1>2. CASE run'[p] = Fresh
  BY <1>2 DEF Fresh, RowsAreFree
<1>3. ASSUME run'[p] # Fresh,
             NEW r \in DOMAIN rows,
             r \in run[p].free \/ \E l \in run[p].links : l[2] = r
      PROVE  bank'[r] = 0 /\ rows'[r] = rows[r]
  BY <1>3, ClaimsStay
<1>4. CASE SameClaims(p) /\ run'[p] # Fresh
  BY <1>1, <1>3, <1>4 DEF SameClaims, RowsAreFree
<1>5. CASE ReadDebits(p)
  BY <1>5, ReadsMove DEF RowsAreFree
<1>6. CASE ReadRows(p)
  <2>1. UNCHANGED <<rows, bank>>
    BY <1>6 DEF ReadRows, store
  <2> QED
    BY <1>6, <2>1, ReadsMove DEF RowsAreFree
<1>7. CASE ReadMarkers(p)
  <2>1. UNCHANGED <<rows, bank>>
    BY <1>7 DEF ReadMarkers, store
  <2> QED
    BY <1>7, <2>1, ReadsMove DEF RowsAreFree
<1>8. AcornsStage \cap FidelityStage = {}
  BY DEF AcornsStage, FidelityStage
<1>9. ASSUME NEW r \in run[p].free, Unmatched(p, r) PROVE RowsAreFree(p)'
  <2>1. UNCHANGED <<rows, bank>>
    BY <1>9 DEF Unmatched, store
  <2> QED
    BY <1>1, <1>9, <2>1, UnmatchedMoves DEF RowsAreFree
<1>10. ASSUME NEW r \in run[p].free, Matched(p, r) PROVE RowsAreFree(p)'
  <2>1. UNCHANGED <<rows, bank>>
    BY <1>10, MatchedWrites DEF store
  <2>2. PICK i \in DOMAIN txns :
            /\ run'[p].free = run[p].free \ {r}
            /\ run'[p].links = run[p].links \cup {<<i, r>>}
            /\ run'[p].at \in FidelityStage /\ run[p].at \in FidelityStage
    BY <1>1, <1>10, MatchedMoves
  <2>3. bank[r] = 0 /\ rows[r].kind # "acorns"
    BY <1>1, <1>8, <2>2 DEF RowsAreFree
  <2> QED
    BY <1>1, <1>8, <2>1, <2>2, <2>3 DEF RowsAreFree
<1> QED
  BY <1>1, <1>2, <1>4, <1>5, <1>6, <1>7, <1>9, <1>10, ClaimMoves

LEMMA HeldStays ==
    ASSUME LInv, [Next]_vars, ~crossed
    PROVE  Held'
<1>1. TypeOK /\ Held
  BY DEF LInv, SInv, TInv
<1>2. ASSUME NEW p \in Pipeline, LinkAcorns(p) PROVE Held'
  <2>1. /\ Link(DayLinks(p))
        /\ DayLinks(p) \in SUBSET ((DOMAIN txns) \X (DOMAIN rows))
        /\ \A k, l \in DayLinks(p) : k[2] = l[2] => k = l
        /\ \A l \in DayLinks(p) : bank[l[2]] = 0
    BY <1>2, LinksAreSafe DEF LinkAcorns
  <2> QED
    BY <1>1, <2>1, LinkHolds
<1>3. ASSUME NEW p \in Pipeline, CommitLinks(p) PROVE Held'
  <2>1. /\ Link(run[p].links)
        /\ run[p].links \in SUBSET ((DOMAIN txns) \X (DOMAIN rows))
        /\ \A k, l \in run[p].links : k[2] = l[2] => k = l
        /\ \A l \in run[p].links : bank[l[2]] = 0
    BY <1>3, LinksAreSafe DEF CommitLinks
  <2> QED
    BY <1>1, <2>1, LinkHolds
<1>4. ASSUME \A i \in DOMAIN tag' : tag'[i].kind = "invest"
                  => i \in DOMAIN tag /\ tag'[i] = tag[i],
             \A r \in DOMAIN rows : bank'[r] = bank[r]
      PROVE  Held'
  <2>1. /\ DOMAIN bank = DOMAIN rows
        /\ \A r \in DOMAIN rows : r \in DOMAIN bank'
    BY <1>1, RowsStay
  <2> QED
    BY <1>1, <1>4, <2>1 DEF Held
<1>5. CASE ~\E p \in Pipeline : LinkAcorns(p) \/ CommitLinks(p)
  <2>1. \A r \in DOMAIN rows : bank'[r] = bank[r]
    BY <1>1, <1>5, RowsStay
  <2>2. ASSUME NEW i \in DOMAIN tag', tag'[i].kind = "invest"
        PROVE  i \in DOMAIN tag /\ tag'[i] = tag[i]
    <3>1. CASE UNCHANGED tag
      BY <3>1
    <3>2. ASSUME NEW x \in Import, ImportTxn(x)
          PROVE  i \in DOMAIN tag /\ tag'[i] = tag[i]
      BY <1>1, <2>2, <3>2 DEF ImportTxn, TypeOK, Untagged
    <3>3. ASSUME NEW p \in Pipeline, Commit(p)
          PROVE  i \in DOMAIN tag /\ tag'[i] = tag[i]
      <4>1. i \in DOMAIN tag
        BY <3>3 DEF Commit
      <4>2. CASE \E pair \in run[p].pairs : i \in pair
        BY <2>2, <3>3, <4>1, <4>2 DEF Commit, Xfer
      <4>3. CASE ~\E pair \in run[p].pairs : i \in pair
        BY <3>3, <4>1, <4>3 DEF Commit
      <4> QED
        BY <4>1, <4>2, <4>3
    <3> QED
      BY <1>5, <3>1, <3>2, <3>3, TagWriters
  <2> QED
    BY <1>4, <2>1, <2>2
<1> QED
  BY <1>2, <1>3, <1>5

LEMMA StepLinks == LInv /\ [Next]_vars => LInv'
<1> SUFFICES ASSUME LInv, [Next]_vars PROVE LInv'
  OBVIOUS
<1>1. SInv' /\ \A p \in Pipeline : LinkersLocals(p)' /\ LinksApart(p)'
  BY StepScans, LocalsKeep DEF LInv
<1>2. crossed => crossed'
  BY DEF Next, vars, store, ImportTxn, ImportRow, Reconcile, Read, Visit,
         SecondPass, Commit, ReadDebits, ReadRows, LinkAcorns, LinkFidelity,
         ReadMarkers, ReadReferenced, TakeLock, CommitLinks, Unmatched, Matched,
         Starts, Abort
<1>3. ASSUME ~crossed'
      PROVE  Held' /\ Alone' /\ \A p \in Pipeline : RowsAreFree(p)'
  BY <1>2, <1>3, HeldStays, AloneStays, FreeStays
<1> QED
  BY <1>1, <1>3 DEF LInv

LEMMA InitLinks == Init => LInv
<1> SUFFICES ASSUME Init PROVE LInv
  OBVIOUS
<1>1. ASSUME NEW p \in Pipeline
      PROVE  /\ run[p] = Fresh /\ DOMAIN <<>> = {}
             /\ run[p].at = "idle" /\ run[p].free = {} /\ run[p].links = {}
  BY DEF Init, Fresh
<1>2. SInv
  BY <1>1, InitPairs DEF SInv, IdleIsFresh, DoneIsTagged, Covered, Fresh
<1>3. Held
  BY DEF Init, Held
<1>4. Alone
  BY <1>1 DEF Alone, AcornsStage, FidelityStage
<1> QED
  BY <1>1, <1>2, <1>3, <1>4 DEF LInv, LinkersLocals, LinksApart, RowsAreFree

(* An investment tag leads to the ledger row that names the transaction,   *)
(* for any number of transactions, rows and pipelines, whatever            *)
(* reconciliations replace tags between the reads and the write of a       *)
(* linker, as long as no linker runs beside another of its kind.           *)
THEOREM InvestTagsHold == Spec => []InvestTagHasRow
<1>1. LInv => InvestTagHasRow
  BY DEF LInv, Held, InvestTagHasRow
<1> QED
  BY <1>1, InitLinks, StepLinks, PTL DEF Spec
===============================================================================
