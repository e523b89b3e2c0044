------------------------------- MODULE TxnStore -------------------------------
(***************************************************************************)
(* How transactions get into the database: dal/transactions.py, fed by the *)
(* CSV exports of the banks (backend/result_writer.py) and by hand         *)
(* (backend/routers/transactions.py).                                      *)
(*                                                                         *)
(* Exports overlap, so a purchase is imported again and again, and nothing *)
(* in a CSV file says which of two equal purchases is which.  A row's id   *)
(* is a hash of account, dates, absolute amount, the first 15 characters   *)
(* of the description, and a sequence index that tells equal ones apart.   *)
(* The module follows one account and one amount.                          *)
(*                                                                         *)
(* Imports run beside each other: the worker of a session that timed out   *)
(* goes on next to its successor (refresh_orchestrator.py), and the API    *)
(* adds transactions meanwhile.  SQLite gives the write lock to one        *)
(* connection at a time, from its first write to its commit; a SELECT      *)
(* before that sees what is committed.                                     *)
(***************************************************************************)
EXTENDS Integers, Sequences, FiniteSets

CONSTANTS
    Worker,       \* whoever writes transactions
    Nobody,
    Day,
    Text,         \* descriptions
    Frag,         \* of a description: its first 15 characters, normalized
    Kind,         \* the purchases that may be made
    NewestFirst,  \* the order of an export
    MaxTxns       \* bound: purchases

Purchase == [day : Day, text : Text, debit : BOOLEAN]

ASSUME StoreAssumption ==
    /\ Nobody \notin Worker
    /\ Day \subseteq Int
    /\ Kind \subseteq Purchase
    /\ MaxTxns \in Nat

VARIABLES
    bank,   \* the purchases, in the order the bank booked them
    rows,   \* the table transactions: from ids to rows
    lock,   \* who has the write lock
    draft,  \* the table as the holder of the lock sees it
    file,   \* of each worker, the transactions it is upserting
    todo,   \* those it has not come to
    plan    \* what it is going to do with the next one

store == <<rows, lock, draft>>
work  == <<file, todo, plan>>
vars  == <<bank, store, work>>

KeyOf(p) == [day |-> p.day, frag |-> Frag[p.text]]
Key      == { KeyOf(p) : p \in Purchase }
Id       == [key : Key, seq : Nat]

Status == {"pending", "posted"}
Row    == [day : Day, text : Text, debit : BOOLEAN, status : Status]
Item   == [id : Id, row : Row]

\* The empty table, and a file with nothing in it.
None == [n \in {} |-> n]

TypeOK ==
    /\ bank \in Seq(Kind) /\ Len(bank) <= MaxTxns
    /\ DOMAIN rows \subseteq Id /\ \A i \in DOMAIN rows : rows[i] \in Row
    /\ lock \in Worker \cup {Nobody}
    /\ DOMAIN draft \subseteq Id /\ \A i \in DOMAIN draft : draft[i] \in Row
    /\ DOMAIN file = Worker
    /\ todo \in [Worker -> SUBSET DOMAIN bank]
    /\ plan \in [Worker -> {"none", "insert", "update"}]
    /\ \A w \in Worker :
          /\ DOMAIN file[w] \subseteq DOMAIN bank
          /\ \A n \in DOMAIN file[w] : file[w][n] \in Item
          /\ todo[w] \subseteq DOMAIN file[w]
          /\ plan[w] # "none" => todo[w] # {}

Init ==
    /\ bank = <<>> /\ rows = None
    /\ lock = Nobody /\ draft = None
    /\ file = [w \in Worker |-> None]
    /\ todo = [w \in Worker |-> {}]
    /\ plan = [w \in Worker |-> "none"]

\* External: somebody buys something.
Buy(p) ==
    /\ Len(bank) < MaxTxns
    /\ bank' = Append(bank, p)
    /\ UNCHANGED <<store, work>>

-------------------------------------------------------------------------------
(* Identity.                                                               *)

SameText(m, n) == bank[m].day = bank[n].day /\ bank[m].text = bank[n].text

SameKey(m, n) == KeyOf(bank[m]) = KeyOf(bank[n])

\* m comes before n in an export.
Earlier(m, n) == IF NewestFirst THEN m > n ELSE m < n

\* The row number of the file as the index.
CsvIndex_OfFile(W, n) == Cardinality({ m \in W : Earlier(m, n) })

\* dataframe_to_txn_dicts numbers the lines of one day, amount and description.
CsvIndex(W, n) == Cardinality({ m \in W : Earlier(m, n) /\ SameText(m, n) })

\* An index that is always 0.
SequenceIndex_Zero(W, n) == 0

\* upsert_transactions keeps an index other than 0, and numbers those that
\* have none again, by what goes into the hash.
SequenceIndex(W, n) ==
    IF CsvIndex(W, n) = 0
    THEN Cardinality({ m \in W : /\ Earlier(m, n)
                                 /\ CsvIndex(W, m) = 0
                                 /\ SameKey(m, n) })
    ELSE CsvIndex(W, n)

\* compute_txn_id
TxnId(W, n) == [key |-> KeyOf(bank[n]), seq |-> SequenceIndex(W, n)]

AsRow(p, s) == [day |-> p.day, text |-> p.text, debit |-> p.debit, status |-> s]

-------------------------------------------------------------------------------
(* What is upserted.                                                       *)

Idle(w) == file[w] = None

\* A CSV export of the days since d.
Export(w, d) ==
    LET W == { n \in DOMAIN bank : bank[n].day >= d } IN
    /\ Idle(w) /\ W # {}
    /\ file' = [file EXCEPT ![w] =
                   [n \in W |-> [id |-> TxnId(W, n),
                                 row |-> AsRow(bank[n], "posted")]]]
    /\ todo' = [todo EXCEPT ![w] = W]
    /\ UNCHANGED <<bank, store, plan>>

\* POST /api/transactions: a batch of one.
EnterByHand(w, n, s) ==
    /\ Idle(w) /\ n \in DOMAIN bank
    /\ file' = [file EXCEPT ![w] =
                   [m \in {n} |-> [id |-> TxnId({n}, n),
                                   row |-> AsRow(bank[n], s)]]]
    /\ todo' = [todo EXCEPT ![w] = {n}]
    /\ UNCHANGED <<bank, store, plan>>

-------------------------------------------------------------------------------
(* upsert_transactions, one transaction after the other.                   *)

IsNext(w, n) == n \in todo[w] /\ \A m \in todo[w] \ {n} : Earlier(n, m)

\* What worker w reads.
View(w) == IF lock = w THEN draft ELSE rows

\* A pending transaction may become posted, and the description may change.
Merged(old, new) ==
    [old EXCEPT !.status = IF old.status = "pending" THEN new.status ELSE @,
                !.text = new.text]

Decide(w, p) ==
    /\ plan' = [plan EXCEPT ![w] = p]
    /\ UNCHANGED <<bank, store, file, todo>>

\* The SELECT.
Look(w, n) ==
    /\ IsNext(w, n) /\ plan[w] = "none"
    /\ LET i == file[w][n].id  new == file[w][n].row IN
       \/ i \notin DOMAIN View(w) /\ Decide(w, "insert")
       \/ /\ i \in DOMAIN View(w) /\ Merged(View(w)[i], new) # View(w)[i]
          /\ Decide(w, "update")
       \/ /\ i \in DOMAIN View(w) /\ Merged(View(w)[i], new) = View(w)[i]
          /\ todo' = [todo EXCEPT ![w] = @ \ {n}]
          /\ UNCHANGED <<bank, store, file, plan>>

\* An INSERT OR REPLACE.
Free_OrReplaced(w, i) == TRUE

\* The id is the PRIMARY KEY.
Free(w, i) == plan[w] = "insert" => i \notin DOMAIN View(w)

\* The INSERT or UPDATE, once the lock can be had; the first one takes it.
Write(w, n) ==
    LET i == file[w][n].id  new == file[w][n].row IN
    /\ IsNext(w, n) /\ plan[w] # "none"
    /\ lock \in {Nobody, w}
    /\ Free(w, i)
    /\ lock' = w
    /\ draft' = [j \in DOMAIN View(w) \cup {i} |->
                    IF j # i THEN View(w)[j]
                    ELSE IF plan[w] = "insert" THEN new
                    ELSE Merged(View(w)[i], new)]
    /\ todo' = [todo EXCEPT ![w] = @ \ {n}]
    /\ plan' = [plan EXCEPT ![w] = "none"]
    /\ UNCHANGED <<bank, rows, file>>

\* An end that leaves the plan for the next file.
Done_KeepsPlan(w) ==
    /\ file' = [file EXCEPT ![w] = None]
    /\ todo' = [todo EXCEPT ![w] = {}]
    /\ UNCHANGED <<bank, plan>>

Done(w) ==
    /\ file' = [file EXCEPT ![w] = None]
    /\ todo' = [todo EXCEPT ![w] = {}]
    /\ plan' = [plan EXCEPT ![w] = "none"]
    /\ UNCHANGED bank

Commit(w) ==
    /\ rows' = View(w)
    /\ lock' = IF lock = w THEN Nobody ELSE lock
    /\ draft' = IF lock = w THEN None ELSE draft

Finish(w) == ~Idle(w) /\ todo[w] = {} /\ Commit(w) /\ Done(w)

\* A line fails, for its id has been inserted since the SELECT, the lock could
\* not be had in time, or for any other reason: persist_connector_result logs
\* it and commits what the file has written so far.
FailCsv(w) == ~Idle(w) /\ todo[w] # {} /\ Commit(w) /\ Done(w)

\* Other callers do not commit then, nor does a process that ends.
Rollback(w) ==
    /\ ~Idle(w)
    /\ lock' = IF lock = w THEN Nobody ELSE lock
    /\ draft' = IF lock = w THEN None ELSE draft
    /\ Done(w)
    /\ UNCHANGED rows

Upsert(w) ==
    \/ \E n \in todo[w] : Look(w, n) \/ Write(w, n)
    \/ Finish(w) \/ FailCsv(w) \/ Rollback(w)

Next ==
    \/ \E p \in Kind : Buy(p)
    \/ \E w \in Worker, d \in Day : Export(w, d)
    \/ \E w \in Worker, n \in 1..MaxTxns, s \in Status : EnterByHand(w, n, s)
    \/ \E w \in Worker : Upsert(w)

Spec == Init /\ [][Next]_vars

-------------------------------------------------------------------------------
(* Properties.                                                             *)

BoughtAs(k) == { n \in DOMAIN bank : KeyOf(bank[n]) = k }
StoredAs(k, table) == { i \in DOMAIN table : i.key = k }

\* However exports overlap, retry, fail half-way or run beside each other and
\* beside transactions entered by hand, no identity is in the table more often
\* than it was bought.  A debit and a refund of the same amount share one.
NothingTwice ==
    \A k \in Key : Cardinality(StoredAs(k, rows)) <= Cardinality(BoughtAs(k))

Alike(r, p) == r.day = p.day /\ r.text = p.text

\* When a whole file has been upserted, equal purchases have a row each, and
\* none is pending that the bank has posted.
ImportIsComplete ==
    [][ \A w \in Worker : Finish(w) =>
          \A n \in DOMAIN file[w] :
              LET p == file[w][n].row
                  R == { i \in DOMAIN rows' : Alike(rows'[i], p)
                             /\ (p.status = "posted" =>
                                    rows'[i].status = "posted") }
              IN Cardinality({ m \in DOMAIN file[w] : Alike(file[w][m].row, p) })
                   <= Cardinality(R) ]_vars

\* A posted transaction stays posted and in the table.
PostedStays ==
    [][ \A i \in DOMAIN rows :
          rows[i].status = "posted" =>
              i \in DOMAIN rows' /\ rows'[i].status = "posted" ]_vars

-------------------------------------------------------------------------------
(* What the repository says and the code does not do.                      *)

\* transactions.py:77: "Include sign so a $50 debit and $50 credit on the same
\* day don't collide".
SignsDoNotCollide ==
    [][ \A w \in Worker : Finish(w) =>
          \A n \in DOMAIN file[w] :
              \E i \in DOMAIN rows' :
                  /\ Alike(rows'[i], file[w][n].row)
                  /\ rows'[i].debit = file[w][n].row.debit ]_vars

===============================================================================
