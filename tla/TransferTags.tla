----------------------------- MODULE TransferTags -----------------------------
(***************************************************************************)
(* Which transactions count as transfers: transactions.transfer_tag and    *)
(* its three writers in the post-commit pipeline (backend/result_writer.py)*)
(*   - reconcile_transfers (dal/reconciliation.py), which pairs debits and *)
(*     credits of one amount, first across institutions, then between      *)
(*     accounts of one institution;                                        *)
(*   - _link_acorns_bank_debits, which attaches bank debits to rows of the *)
(*     positions ledger by their day;                                      *)
(*   - link_fidelity_efts (dal/fidelity_eft_linker.py), which attaches a   *)
(*     bank transaction to a marker row if it is the only one that fits.   *)
(* A tagged transaction is left out of income and spending.                *)
(*                                                                         *)
(* The module follows the posted transactions of one amount: the pairing   *)
(* never looks beyond one.  They are numbered in the order of their        *)
(* insertion, which is the order SQLite returns equal dates in.            *)
(*                                                                         *)
(* Pipelines run beside each other: that of a refresh, of one a timeout    *)
(* left behind, of a document commit (routers/documents.py).  The steps of *)
(* one are connections of their own, each of which may fail alone, and     *)
(* every pipeline runs them again, so they come in any order.  A step      *)
(* reads, and takes SQLite's write lock with its first UPDATE; until then  *)
(* others may commit.                                                      *)
(*                                                                         *)
(* The description and the category a transaction is imported with are     *)
(* kept; the code may still edit them afterwards.                          *)
(***************************************************************************)
EXTENDS Integers, Sequences, FiniteSets

CONSTANTS
    Pipeline,
    Account,
    InstOf,      \* institution_id of an account
    Liability,   \* accounts of a type in _LIABILITY_ACCOUNT_TYPES
    Liquid,      \* accounts of a type in LIQUID_ACCOUNT_TYPES
    Day,         \* posting dates, as numbers of days
    Import,      \* the transactions that may be imported
    Ledger,      \* the ledger rows that may be written
    MaxTxns,     \* bound: transactions
    MaxRows      \* bound: rows of the ledger

\* "plain": neither category nor description hints at a transfer; "like": one
\* of them does; "acorns": the description has ACORNS INVEST, and so does.
Txn == [account : Account, day : Day, debit : BOOLEAN,
        text : {"plain", "like", "acorns"}]

\* A purchase of Acorns, or a marker of money to or from Fidelity.
Row == [day : Day, kind : {"acorns", "deposit", "withdrawal"}]

ASSUME TagsAssumption ==
    /\ Import \subseteq Txn
    /\ Ledger \subseteq Row
    /\ Day \subseteq Int
    /\ MaxTxns \in Nat /\ MaxRows \in Nat

VARIABLES
    txns,   \* the posted transactions
    tag,    \* transfer_tag of each
    rows,   \* the ledger rows
    bank,   \* bank_txn_id of each row; 0 is NULL
    run,    \* the locals of a pipeline's step under way
    crossed \* history: one linker ran beside another of its kind

store == <<txns, tag, rows, bank>>
vars  == <<store, run, crossed>>

Id == 1..MaxTxns
RowId == 1..MaxRows

Untagged  == [kind |-> "none", of |-> {}]
Xfer(p)   == [kind |-> "xfer", of |-> p]      \* _stable_transfer_tag
Invest(r) == [kind |-> "invest", of |-> {r}]  \* "invest:" and the row's id

Tag == {Untagged} \cup { Xfer(p) : p \in SUBSET Id }
                  \cup { Invest(r) : r \in RowId }

\* Where a step is: in one of the passes of reconcile_transfers; in the
\* Acorns linker after its first and its second SELECT; likewise in the
\* Fidelity linker, which then chooses its first transaction and holds the
\* write lock when it has written it.
AcornsStage   == {"debits", "acorns"}
FidelityStage == {"markers", "fidelity", "chosen", "locked"}
Stage == {"idle", "first", "second"} \cup AcornsStage \cup FidelityStage

Local ==
    [ at    : Stage,
      snap  : Seq(Tag),          \* reconcile: the tags it read
      todo  : SUBSET Id,         \* the transactions its outer loop has before it
      done  : SUBSET Id,         \* processed_ids
      pairs : SUBSET SUBSET Id,  \* the pairs it has tagged, not committed yet
      saw   : SUBSET Id,         \* Acorns: unlinked debits; Fidelity: referenced
      free  : SUBSET RowId,      \* unlinked rows it read and has before it
      links : SUBSET (Id \X RowId) ]  \* links it decided on, not committed yet

Fresh == [ at |-> "idle", snap |-> <<>>, todo |-> {}, done |-> {},
           pairs |-> {}, saw |-> {}, free |-> {}, links |-> {} ]

\* What a step has read is among n transactions and m rows.
Within(l, n, m) ==
    /\ Len(l.snap) <= n
    /\ l.todo \cup l.done \cup UNION l.pairs \subseteq DOMAIN l.snap
    /\ l.saw \subseteq 1..n /\ l.free \subseteq 1..m
    /\ l.links \subseteq (1..n) \X (1..m)

TypeOK ==
    /\ txns \in Seq(Import) /\ Len(txns) <= MaxTxns
    /\ tag \in Seq(Tag) /\ Len(tag) = Len(txns)
    /\ rows \in Seq(Ledger) /\ Len(rows) <= MaxRows
    /\ bank \in Seq(0..Len(txns)) /\ Len(bank) = Len(rows)
    /\ run \in [Pipeline -> Local]
    /\ \A p \in Pipeline : Within(run[p], Len(txns), Len(rows))
    /\ crossed \in BOOLEAN

Init ==
    /\ txns = <<>> /\ tag = <<>> /\ rows = <<>> /\ bank = <<>>
    /\ run = [p \in Pipeline |-> Fresh]
    /\ crossed = FALSE

\* A step has written and not committed.
Writing(p) == run[p].pairs # {} \/ run[p].at = "locked"

UnlockedBut(p) == \A q \in Pipeline \ {p} : ~Writing(q)

Unlocked == \A q \in Pipeline : ~Writing(q)

Idle(p) == run[p].at = "idle"

Becomes(p, local) == run' = [run EXCEPT ![p] = local]

\* A second step that starts from the processed_ids of the first.
Over_KeepsDone(p) == Becomes(p, [Fresh EXCEPT !.done = run[p].done])

Over(p) == Becomes(p, Fresh)

\* An error of the database, or the end of the process: rolled back.
Abort(p) == ~Idle(p) /\ Over(p) /\ UNCHANGED <<store, crossed>>

-------------------------------------------------------------------------------
(* New data.                                                               *)

\* A transaction is inserted as posted, or a pending one becomes posted.
ImportTxn(x) ==
    /\ Unlocked /\ Len(txns) < MaxTxns
    /\ txns' = Append(txns, x)
    /\ tag' = Append(tag, Untagged)
    /\ UNCHANGED <<rows, bank, run, crossed>>

ImportRow(x) ==
    /\ Unlocked /\ Len(rows) < MaxRows
    /\ rows' = Append(rows, x)
    /\ bank' = Append(bank, 0)
    /\ UNCHANGED <<txns, tag, run, crossed>>

-------------------------------------------------------------------------------
(* reconcile_transfers.                                                    *)

Before(i, j) ==
    \/ txns[i].day < txns[j].day
    \/ txns[i].day = txns[j].day /\ i < j

IsFirst(i, S) == i \in S /\ \A j \in S \ {i} : Before(i, j)

Like(i) == txns[i].text # "plain"

\* A rule that pairs two debits.
Opposite_Any(i, j) == TRUE

Opposite(i, j) == txns[i].debit # txns[j].debit

\* _pair_allowed
PairAllowed(i, j) ==
    /\ Opposite(i, j)
    /\ Like(i) \/ Like(j)
    /\ ~(txns[i].account \in Liability /\ txns[j].account \in Liability)
    /\ \A k \in {i, j} :
          txns[k].debit /\ txns[k].account \in Liability => Like(k)

Near(d, e, days) == d - e <= days /\ e - d <= days

\* What the inner loop of a pass accepts as the other leg.
Fits(pass, i, j) ==
    /\ PairAllowed(i, j)
    /\ IF pass = "first"
       THEN /\ InstOf[txns[i].account] # InstOf[txns[j].account]
            /\ Near(txns[i].day, txns[j].day, 3)
       ELSE /\ InstOf[txns[i].account] = InstOf[txns[j].account]
            /\ txns[i].account # txns[j].account
            /\ Near(txns[i].day, txns[j].day, 1)

\* The SELECT.
Read(p) ==
    /\ Idle(p)
    /\ Becomes(p, [run[p] EXCEPT !.at = "first", !.snap = tag,
                                 !.todo = DOMAIN txns])
    /\ UNCHANGED <<store, crossed>>

\* What the inner loop goes through for i, as far as it gets.
Candidates(p, i) ==
    { j \in DOMAIN run[p].snap \ run[p].done :
        Before(i, j) /\ Fits(run[p].at, i, j) }

\* A test that is content with one tag.
BothTagged_Either(p, i, j) ==
    run[p].snap[i] # Untagged \/ run[p].snap[j] # Untagged

\* Both were tagged when the run began.
BothTagged(p, i, j) == run[p].snap[i] # Untagged /\ run[p].snap[j] # Untagged

\* The outer loop finds something to do for i; it skips the others.
Turns(p, i) == i \notin run[p].done /\ Candidates(p, i) # {}

\* Its turn for i is over.
Turn(p, i, processed, tagged) ==
    Becomes(p, [run[p] EXCEPT !.todo = { j \in @ : Before(i, j) },
                              !.done = @ \cup processed,
                              !.pairs = @ \cup tagged])

\* Each candidate is passed over as already tagged, and so is i; but the
\* inner loop goes on with i.
PassOver(p, i) ==
    /\ \A j \in Candidates(p, i) : BothTagged(p, i, j)
    /\ Turn(p, i, {i} \cup Candidates(p, i), {})

\* A pairing that leaves the other leg free.
Processed_OneLeg(i, j) == {i}

Processed(i, j) == {i, j}

\* The first candidate that is not passed over, after those that are.
Pair(p, i) ==
    /\ UnlockedBut(p)
    /\ \E j \in Candidates(p, i) :
          /\ IsFirst(j, { k \in Candidates(p, i) : ~BothTagged(p, i, k) })
          /\ Turn(p, i,
                  Processed(i, j) \cup { k \in Candidates(p, i) : Before(k, j) },
                  {{i, j}})

Visit(p, i) ==
    /\ IsFirst(i, { j \in run[p].todo : Turns(p, j) })
    /\ PassOver(p, i) \/ Pair(p, i)
    /\ UNCHANGED <<store, crossed>>

\* The outer loop has come to its end.
PassEnds(p) == \A i \in run[p].todo : ~Turns(p, i)

SecondPass(p) ==
    /\ run[p].at = "first" /\ PassEnds(p)
    /\ Becomes(p, [run[p] EXCEPT !.at = "second", !.todo = DOMAIN run[p].snap])
    /\ UNCHANGED <<store, crossed>>

\* conn.commit()
Commit(p) ==
    /\ run[p].at = "second" /\ PassEnds(p)
    /\ tag' = [i \in DOMAIN tag |->
                  IF \E pair \in run[p].pairs : i \in pair
                  THEN Xfer(CHOOSE pair \in run[p].pairs : i \in pair)
                  ELSE tag[i]]
    /\ Over(p)
    /\ UNCHANGED <<txns, rows, bank, crossed>>

Reconcile(p) ==
    Read(p) \/ (\E i \in run[p].todo : Visit(p, i)) \/ SecondPass(p) \/ Commit(p)

-------------------------------------------------------------------------------
(* Both linkers.                                                           *)

Starts(p, stages) ==
    crossed' = (crossed \/ \E q \in Pipeline : run[q].at \in stages)

\* A linker that forgets the ledger's side.
Stamp_Forgotten(links) == UNCHANGED bank

Stamp(links) ==
    bank' = [r \in DOMAIN bank |->
                IF \E i \in DOMAIN txns : <<i, r>> \in links
                THEN CHOOSE i \in DOMAIN txns : <<i, r>> \in links
                ELSE bank[r]]

Link(links) ==
    /\ tag' = [i \in DOMAIN tag |->
                  IF \E r \in DOMAIN rows : <<i, r>> \in links
                  THEN Invest(CHOOSE r \in DOMAIN rows : <<i, r>> \in links)
                  ELSE tag[i]]
    /\ Stamp(links)

-------------------------------------------------------------------------------
(* _link_acorns_bank_debits.                                               *)

\* The first SELECT.
ReadDebits(p) ==
    /\ Idle(p)
    /\ Becomes(p, [run[p] EXCEPT !.at = "debits",
                        !.saw = { i \in DOMAIN txns :
                                     /\ txns[i].text = "acorns" /\ txns[i].debit
                                     /\ tag[i].kind # "invest" }])
    /\ Starts(p, AcornsStage)
    /\ UNCHANGED store

\* The second.
ReadRows(p) ==
    /\ run[p].at = "debits"
    /\ Becomes(p, [run[p] EXCEPT !.at = "acorns",
                        !.free = { r \in DOMAIN rows :
                                      rows[r].kind = "acorns" /\ bank[r] = 0 }])
    /\ UNCHANGED <<store, crossed>>

RankOfTxn(p, i) ==
    Cardinality({ j \in run[p].saw : txns[j].day = txns[i].day /\ j < i })

RankOfRow(p, r) ==
    Cardinality({ q \in run[p].free : rows[q].day = rows[r].day /\ q < r })

\* The k-th debit of a day gets the k-th free row of the day.
DayLinks(p) ==
    { l \in run[p].saw \X run[p].free :
        /\ txns[l[1]].day = rows[l[2]].day
        /\ RankOfTxn(p, l[1]) = RankOfRow(p, l[2]) }

LinkAcorns(p) ==
    /\ run[p].at = "acorns"
    /\ DayLinks(p) # {} => Unlocked
    /\ Link(DayLinks(p))
    /\ Over(p)
    /\ UNCHANGED <<txns, rows, crossed>>

-------------------------------------------------------------------------------
(* link_fidelity_efts.                                                     *)

ReadMarkers(p) ==
    /\ Idle(p)
    /\ Becomes(p, [run[p] EXCEPT !.at = "markers",
                        !.free = { r \in DOMAIN rows :
                                      rows[r].kind # "acorns" /\ bank[r] = 0 }])
    /\ Starts(p, FidelityStage)
    /\ UNCHANGED store

ReadReferenced(p) ==
    /\ run[p].at = "markers"
    /\ Becomes(p, [run[p] EXCEPT !.at = "fidelity",
                        !.saw = { bank[r] : r \in DOMAIN rows } \ {0}])
    /\ UNCHANGED <<store, crossed>>

\* The marker the loop has come to.
IsNext(p, r) ==
    /\ r \in run[p].free
    /\ \A q \in run[p].free \ {r} :
          \/ rows[r].day < rows[q].day
          \/ rows[r].day = rows[q].day /\ r < q

\* The query for a marker, without the transactions already referenced.
Matches(p, r) ==
    { i \in DOMAIN txns \ run[p].saw :
        /\ txns[i].account \in Liquid
        /\ txns[i].debit = (rows[r].kind = "deposit")
        /\ Near(txns[i].day, rows[r].day, 3)
        /\ tag[i] = Untagged }

Unmatched(p, r) ==
    /\ run[p].at \in {"fidelity", "locked"} /\ IsNext(p, r)
    /\ \A i \in Matches(p, r) : Matches(p, r) # {i}
    /\ Becomes(p, [run[p] EXCEPT !.free = @ \ {r}])
    /\ UNCHANGED <<store, crossed>>

\* Exactly one candidate.  The UPDATE that follows is the first of the step
\* and has to wait for the write lock, or the step has the lock already.
Matched(p, r) ==
    /\ run[p].at \in {"fidelity", "locked"} /\ IsNext(p, r)
    /\ \E i \in Matches(p, r) :
          /\ Matches(p, r) = {i}
          /\ Becomes(p, [run[p] EXCEPT !.at = IF @ = "locked" THEN @ ELSE "chosen",
                                       !.saw = @ \cup {i}, !.free = @ \ {r},
                                       !.links = @ \cup {<<i, r>>}])
    /\ UNCHANGED <<store, crossed>>

TakeLock(p) ==
    /\ run[p].at = "chosen" /\ Unlocked
    /\ Becomes(p, [run[p] EXCEPT !.at = "locked"])
    /\ UNCHANGED <<store, crossed>>

CommitLinks(p) ==
    /\ run[p].at \in {"fidelity", "locked"} /\ run[p].free = {}
    /\ Link(run[p].links)
    /\ Over(p)
    /\ UNCHANGED <<txns, rows, crossed>>

LinkFidelity(p) ==
    \/ ReadMarkers(p) \/ ReadReferenced(p) \/ TakeLock(p) \/ CommitLinks(p)
    \/ \E r \in run[p].free : Unmatched(p, r) \/ Matched(p, r)

-------------------------------------------------------------------------------
Next ==
    \/ \E x \in Import : ImportTxn(x)
    \/ \E x \in Ledger : ImportRow(x)
    \/ \E p \in Pipeline :
          \/ Reconcile(p)
          \/ ReadDebits(p) \/ ReadRows(p) \/ LinkAcorns(p)
          \/ LinkFidelity(p)
          \/ Abort(p)

Spec == Init /\ [][Next]_vars

-------------------------------------------------------------------------------
(* Properties.                                                             *)

\* Money between two accounts, out of one and into the other.
Legs(i, j) ==
    /\ txns[i].debit # txns[j].debit
    /\ txns[i].account # txns[j].account
    /\ Near(txns[i].day, txns[j].day, 3)

\* A transaction is hidden from income and spending as a transfer only for
\* another posted one that can be its other leg, also when a run read before
\* an import and its tags replace those of another run or of a linker.
TagsAreJustified ==
    \A i \in DOMAIN tag :
        tag[i].kind = "xfer" =>
            \E j \in DOMAIN txns : tag[i].of = {i, j} /\ Legs(i, j)

\* One run of reconcile_transfers, whatever it finds tagged already and
\* whatever is imported and tagged meanwhile, gives the tags it writes to two
\* legs each.
WrittenInPairs ==
    [][ \A i \in DOMAIN tag :
          tag'[i] # tag[i] /\ tag'[i].kind = "xfer"
              => \A j \in tag'[i].of : tag'[j] = tag'[i] ]_vars

\* After a run nothing is left to pair: no two of the transactions it read
\* fit together and are both still counted as income or spending, although
\* each pass is greedy, passes over pairs of earlier runs, and other runs and
\* linkers write between its read and its commit.
NothingLeftOver ==
    [][ \A p \in Pipeline : Commit(p) =>
          \A i, j \in DOMAIN run[p].snap : \A pass \in {"first", "second"} :
              Before(i, j) /\ Fits(pass, i, j)
                  => tag'[i] # Untagged \/ tag'[j] # Untagged ]_vars

\* An investment tag leads to the ledger row that names the transaction, also
\* after the tag was replaced and the transaction linked again, and with
\* reconciliations between the reads and the write of a linker, as long as a
\* linker does not run beside another of its kind.
InvestTagHasRow ==
    ~crossed =>
        \A i \in DOMAIN tag :
            tag[i].kind = "invest" => \E r \in DOMAIN bank :
                                         tag[i] = Invest(r) /\ bank[r] = i

-------------------------------------------------------------------------------
(* What the repository says and the code does not do.                      *)

\* reconciliation.py:4: "Identifies matching debit/credit pairs [...] and tags
\* them with a shared transfer_tag".  Who has the tag of a pair shares it.
TagsAreShared ==
    \A i \in DOMAIN tag :
        tag[i].kind = "xfer" => \A j \in tag[i].of : tag[j] = tag[i]

===============================================================================
