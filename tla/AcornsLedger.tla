----------------------------- MODULE AcornsLedger -----------------------------
(***************************************************************************)
(* How the trades of the Acorns account get into positions_ledger: from    *)
(* the trade confirmations and the share counts that the connector reads   *)
(* (extractors/acorns_connector.py), and from statements and confirmations *)
(* the user uploads (backend/document_ingest.py,                           *)
(* backend/routers/documents.py) through the parsers of dal/parsers.       *)
(*                                                                         *)
(* The module follows one ticker.  There is at most one trade a day, of    *)
(* one share, and a confirmation for each.  Every row repeats the running  *)
(* total, taken from the newest row at the time; nothing adds them up.     *)
(*                                                                         *)
(* parser.commit reads what to do for its first trade before it holds the  *)
(* write lock of SQLite: others may commit between its reads, and before   *)
(* its first write.  From there on it has the lock up to its commit.       *)
(***************************************************************************)
EXTENDS Integers, Sequences, FiniteSets

CONSTANTS
    Worker,     \* numbers for connector runs at the same time, after a timeout
    Request,    \* requests to /api/documents/commit at the same time
    Idle,
    Doc,        \* documents that are uploaded
    Lag,        \* days from trade to settlement
    Month,      \* of a day
    InMorning,  \* whether the connector runs before noon
    TiesFirst,  \* of equal timestamps, whether SQLite finds the first row
    LastTrade,  \* bound: the last day with a trade
    LastDay,    \* bound: the last day
    MaxBusy,    \* bound: runs and requests at the same time
    MaxRuns,    \* bound: connector runs before the last day
    MaxFaults   \* bound: crashes, refused files, and timeouts of a run

Day == 1..LastDay + Lag

ASSUME LedgerAssumption ==
    /\ Lag \in Nat /\ LastTrade \in Nat
    /\ MaxBusy \in Nat /\ MaxRuns \in Nat /\ MaxFaults \in Nat
    /\ LastDay \in Nat /\ LastTrade + Lag < LastDay
    /\ Idle \notin Doc
    /\ Worker \subseteq Nat /\ Worker \cap Request = {}
    /\ DOMAIN Month = Day
    /\ InMorning \in BOOLEAN /\ TiesFirst \in BOOLEAN

VARIABLES
    (* the broker *)
    today,
    trades,      \* the days on which a share was bought
    (* positions_ledger, in the order of its rowids *)
    ledger,
    plan,        \* what parser.commit has decided to do with its first trade
    (* the connector *)
    phase,       \* "idle", "confirming", "scraping" or "logging"
    files,       \* the confirmations a run has still to process, by day
    seen,        \* the day of its snapshot and the shares it has counted
    runs,
    (* documents *)
    form,        \* a document is a "statement" or a "confirmation"
    pages,       \* the trades it lists
    staged,      \* the files in STAGING_DIR
    drop,        \* document_drops: "none", "staged" or "committed"
    serving,     \* the document a request commits
    done,        \* how far it is: "read", "written" or "marked"
    (* the environment, and what the properties remember *)
    faults,
    overlapped,  \* two connector runs have overlapped
    lost         \* the trades whose row a later UPDATE has given to another

broker    == <<today, trades>>
book      == <<ledger, plan, lost>>
connector == <<phase, files, seen, runs, overlapped>>
documents == <<form, pages, staged, drop, serving, done>>
vars      == <<broker, book, connector, documents, faults>>

Source == {"scraper", "confirmation", "statement"}
Form   == {"confirmation", "statement"}
Row    == [when : Day, src : Source, delta : Int, total : Int]

\* "look": nothing is decided.  "total": there is no row to upgrade.
Plan == [to : {"look", "total", "insert", "update"}, arg : Int]
Undecided == [to |-> "look", arg |-> 0]

Nothing == [day |-> 0, shares |-> 0]

TypeOK ==
    /\ today \in 1..LastDay /\ trades \subseteq 1..LastTrade
    /\ ledger \in Seq(Row)
    /\ plan \in [Worker \cup Request -> Plan]
    /\ phase \in [Worker -> {"idle", "confirming", "scraping", "logging"}]
    /\ files \in [Worker -> SUBSET trades]
    /\ \A w \in Worker : files[w] # {} => phase[w] = "confirming"
    /\ seen \in [Worker -> [day : 0..LastDay, shares : Nat]]
    /\ \A w \in Worker : phase[w] \in {"scraping", "logging"} => seen[w].day # 0
    /\ runs \in 0..MaxRuns
    /\ form \in [Doc -> Form] /\ pages \in [Doc -> SUBSET trades]
    /\ staged \subseteq Doc
    /\ drop \in [Doc -> {"none", "staged", "committed"}]
    /\ serving \in [Request -> Doc \cup {Idle}]
    /\ done \in [Request -> {"none", "read", "written", "marked"}]
    /\ \A r \in Request : serving[r] = Idle <=> done[r] = "none"
    /\ faults \in 0..MaxFaults
    /\ overlapped \in BOOLEAN
    /\ lost \subseteq [when : Day, src : Form]

Init ==
    /\ today = 1 /\ trades = {} /\ ledger = <<>>
    /\ plan = [p \in Worker \cup Request |-> Undecided]
    /\ phase = [w \in Worker |-> "idle"]
    /\ files = [w \in Worker |-> {}]
    /\ seen = [w \in Worker |-> Nothing]
    /\ runs = 0
    /\ form = [d \in Doc |-> "statement"]
    /\ pages = [d \in Doc |-> {}]
    /\ staged = {}
    /\ drop = [d \in Doc |-> "none"]
    /\ serving = [r \in Request |-> Idle]
    /\ done = [r \in Request |-> "none"]
    /\ faults = 0
    /\ overlapped = FALSE /\ lost = {}

\* External: a day passes; a share is bought.
Tick ==
    /\ today < LastDay
    /\ today' = today + 1
    /\ UNCHANGED <<trades, book, connector, documents, faults>>

Buy ==
    /\ today <= LastTrade /\ today \notin trades
    /\ trades' = trades \cup {today}
    /\ UNCHANGED <<today, book, connector, documents, faults>>

-------------------------------------------------------------------------------
(* positions_ledger.                                                       *)

\* Trades are dated noon of the day they settle.
Hour(L, n) == IF (L[n].src = "scraper") = InMorning THEN 0 ELSE 1

\* Row m comes before row n in ORDER BY timestamp DESC.
Newer(L, m, n) ==
    \/ L[m].when > L[n].when
    \/ L[m].when = L[n].when /\ Hour(L, m) > Hour(L, n)
    \/ /\ L[m].when = L[n].when /\ Hour(L, m) = Hour(L, n)
       /\ IF L[m].src # "scraper" /\ TiesFirst THEN m < n ELSE m > n

Newest(L, N) == CHOOSE n \in N : \A m \in N \ {n} : Newer(L, n, m)
Oldest(L, N) == CHOOSE n \in N : \A m \in N \ {n} : Newer(L, m, n)

Total(L) == IF L = <<>> THEN 0 ELSE L[Newest(L, DOMAIN L)].total

Settles(t) == t + Lag

\* The scraped rows of the same month with about the same delta.
Upgradable(L, t) ==
    { n \in DOMAIN L : /\ L[n].src = "scraper" /\ L[n].delta = 1
                       /\ Month[L[n].when] = Month[Settles(t)] }

\* The row it takes over, if any.
Candidate(L, t) ==
    IF Upgradable(L, t) = {} THEN [to |-> "total", arg |-> 0]
    ELSE [to |-> "update", arg |-> Oldest(L, Upgradable(L, t))]

\* What parser.commit decides for a trade, if nothing comes between its reads.
Decision(L, t) ==
    IF Upgradable(L, t) = {} THEN [to |-> "insert", arg |-> Total(L)]
    ELSE Candidate(L, t)

\* What it writes then: a row becomes the trade, whoever has it by now, and
\* keeps its total, or a new row continues the total.
Booked(L, t, src, q) ==
    IF q.to = "update"
    THEN [L EXCEPT ![q.arg].when = Settles(t), ![q.arg].src = src]
    ELSE Append(L, [when |-> Settles(t), src |-> src, delta |-> 1,
                    total |-> q.arg + 1])

\* The trades S under the write lock, in the order of their days.
BookedAll(L, S, src) ==
    LET all[t \in 0..LastTrade] ==
            IF t = 0 THEN L
            ELSE IF t \in S
                 THEN Booked(all[t - 1], t, src, Decision(all[t - 1], t))
                 ELSE all[t - 1]
    IN  all[LastTrade]

\* The trade whose row that takes away.
Overwritten(L, t, src, q) ==
    IF q.to = "update" /\ L[q.arg].src # "scraper"
    THEN {[when |-> L[q.arg].when, src |-> L[q.arg].src]}
         \ {[when |-> Settles(t), src |-> src]}
    ELSE {}

\* The first trade of a commit is t: of the next file of a run (the page lists
\* the newest first), or of the document of a request.
IsNewest(w, t) == t \in files[w] /\ \A u \in files[w] : u <= t

IsFirst(r, t) ==
    /\ done[r] = "read"
    /\ t \in pages[serving[r]] /\ \A u \in pages[serving[r]] : t <= u

Turn(p, t) == \/ p \in Worker /\ IsNewest(p, t)
              \/ p \in Request /\ IsFirst(p, t)

\* Its two reads, each for itself.
Look(p, t) ==
    /\ plan[p] = Undecided /\ Turn(p, t)
    /\ plan' = [plan EXCEPT ![p] = Candidate(ledger, t)]
    /\ UNCHANGED <<broker, ledger, lost, connector, documents, faults>>

ReadTotal(p) ==
    /\ plan[p].to = "total"
    /\ plan' = [plan EXCEPT ![p] = [to |-> "insert", arg |-> Total(ledger)]]
    /\ UNCHANGED <<broker, ledger, lost, connector, documents, faults>>

\* Its writes, up to the commit: trade t as decided, then the trades S.
Commit(p, t, S, src) ==
    /\ plan[p].to \in {"insert", "update"}
    /\ ledger' = BookedAll(Booked(ledger, t, src, plan[p]), S, src)
    /\ lost' = lost \cup Overwritten(ledger, t, src, plan[p])
    /\ plan' = [plan EXCEPT ![p] = Undecided]

-------------------------------------------------------------------------------
(* The connector: _trigger_export.                                         *)

Busy == \E w \in Worker : phase[w] # "idle"

\* Bound: so many runs and requests at a time; and on the last day, when the
\* runs are not counted, one begins only when no run is under way.
MayBegin ==
    LET running == { w \in Worker : phase[w] # "idle" }
        served  == { r \in Request : serving[r] # Idle }
    IN  /\ Cardinality(running) + Cardinality(served) < MaxBusy
        /\ today = LastDay => ~Busy

Rows(src) == { n \in DOMAIN ledger : ledger[n].src = src }

\* last_processed
Watermark == { ledger[n].when : n \in Rows("confirmation") }

\* The watermark taken from the rows of another source.
Unprocessed_OfScraper ==
    { t \in trades : \A n \in Rows("scraper") : t > ledger[n].when }

Unprocessed == { t \in trades : \A d \in Watermark : t > d }

\* The snapshot, whose time the share count gets, and _download_confirmations,
\* which finds some of them, or none; without any, the run falls back on the
\* share count.  A run gets the lowest number that is free.  It begins beside
\* another only when that one has timed out.
List(w) ==
    /\ phase[w] = "idle" /\ \A v \in Worker : phase[v] = "idle" => w <= v
    /\ MayBegin
    /\ today < LastDay => runs < MaxRuns
    /\ runs' = IF today < LastDay THEN runs + 1 ELSE runs
    /\ overlapped' = (overlapped \/ Busy)
    /\ Busy => faults < MaxFaults
    /\ faults' = IF Busy THEN faults + 1 ELSE faults
    /\ \E found \in SUBSET Unprocessed :
          /\ files' = [files EXCEPT ![w] = found]
          /\ phase' = [phase EXCEPT ![w] = IF found = {} THEN "scraping"
                                           ELSE "confirming"]
          /\ seen' = IF found = {} THEN [seen EXCEPT ![w].day = today] ELSE seen
    /\ UNCHANGED <<broker, book, documents>>

\* A run that ends with its first file.
Leave_AfterFirst(w, t) ==
    /\ files' = [files EXCEPT ![w] = @ \ {t}]
    /\ phase' = [phase EXCEPT ![w] = "idle"]
    /\ UNCHANGED <<broker, seen, runs, overlapped, documents>>

\* One file of _process_confirmations.
Leave(w, t) ==
    /\ files' = [files EXCEPT ![w] = @ \ {t}]
    /\ phase' = [phase EXCEPT ![w] = IF files[w] = {t} THEN "idle" ELSE @]
    /\ UNCHANGED <<broker, seen, runs, overlapped, documents>>

Confirm(w, t) ==
    /\ IsNewest(w, t)
    /\ Commit(w, t, {}, "confirmation")
    /\ Leave(w, t) /\ UNCHANGED faults

\* It cannot be read or is not committable.
Skip(w, t) ==
    /\ IsNewest(w, t) /\ plan[w] = Undecided
    /\ faults < MaxFaults /\ faults' = faults + 1
    /\ Leave(w, t) /\ UNCHANGED book

\* The sum of the deltas instead of the newest total.
LastShares_Summed ==
    LET sum[n \in 0..Len(ledger)] ==
            IF n = 0 THEN 0 ELSE sum[n - 1] + ledger[n].delta
    IN  sum[Len(ledger)]

LastShares == Total(ledger)

\* _scrape_positions
Count(w) ==
    /\ phase[w] = "scraping"
    /\ seen' = [seen EXCEPT ![w].shares = Cardinality(trades)]
    /\ phase' = [phase EXCEPT ![w] = "logging"]
    /\ UNCHANGED <<broker, book, files, runs, overlapped, documents,
                   faults>>

\* The run is over.
End(w) ==
    /\ phase' = [phase EXCEPT ![w] = "idle"]
    /\ seen' = [seen EXCEPT ![w] = Nothing]

\* _process_delta_logging.  It inserts the snapshot first, so it has the write
\* lock when it reads the total, and keeps it until it commits.
Log(w) ==
    /\ phase[w] = "logging"
    /\ LET delta == seen[w].shares - LastShares
       IN  ledger' = IF delta = 0 THEN ledger
                     ELSE Append(ledger, [when |-> seen[w].day, src |-> "scraper",
                                          delta |-> delta,
                                          total |-> seen[w].shares])
    /\ End(w)
    /\ UNCHANGED <<broker, plan, lost, files, runs, overlapped,
                   documents, faults>>

\* The shares cannot be counted, or the database refuses a read or a write.
Abort(w) ==
    /\ phase[w] # "idle"
    /\ faults < MaxFaults /\ faults' = faults + 1
    /\ files' = [files EXCEPT ![w] = {}]
    /\ plan' = [plan EXCEPT ![w] = Undecided]
    /\ End(w)
    /\ UNCHANGED <<broker, ledger, lost, runs, overlapped, documents>>

-------------------------------------------------------------------------------
(* Documents.                                                              *)

\* stage_document: the file, then the row.  A confirmation is of one day.
Stage(d, f, S) ==
    /\ pages[d] = {} /\ drop[d] = "none" /\ S # {}
    /\ f = "confirmation" => \E t \in trades : S = {t}
    /\ staged' = staged \cup {d}
    /\ form' = [form EXCEPT ![d] = f]
    /\ pages' = [pages EXCEPT ![d] = S]
    /\ UNCHANGED <<broker, book, connector, drop, serving, done, faults>>

Insert(d) ==
    /\ d \in staged /\ drop[d] = "none"
    /\ drop' = [drop EXCEPT ![d] = "staged"]
    /\ UNCHANGED <<broker, book, connector, form, pages, staged, serving, done,
                   faults>>

\* POST /api/documents/commit: a file that is not there is a 404.
Read(r, d) ==
    /\ serving[r] = Idle /\ d \in staged /\ drop[d] # "none"
    /\ MayBegin
    /\ serving' = [serving EXCEPT ![r] = d]
    /\ done' = [done EXCEPT ![r] = "read"]
    /\ UNCHANGED <<broker, book, connector, form, pages, staged, drop, faults>>

\* commit_staged_document: the parser commits its rows, then the drop is marked.
Write(r, t) ==
    /\ IsFirst(r, t)
    /\ Commit(r, t, pages[serving[r]] \ {t}, form[serving[r]])
    /\ done' = [done EXCEPT ![r] = "written"]
    /\ UNCHANGED <<broker, connector, form, pages, staged, drop, serving, faults>>

\* The other way round.
Mark_First(r) ==
    /\ done[r] \in {"read", "written"}
    /\ drop' = [drop EXCEPT ![serving[r]] = "committed"]
    /\ done' = [done EXCEPT ![r] = IF done[r] = "read" THEN @ ELSE "marked"]
    /\ UNCHANGED <<broker, book, connector, form, pages, staged, serving, faults>>

Mark(r) ==
    /\ done[r] = "written"
    /\ drop' = [drop EXCEPT ![serving[r]] = "committed"]
    /\ done' = [done EXCEPT ![r] = "marked"]
    /\ UNCHANGED <<broker, book, connector, form, pages, staged, serving, faults>>

Answer(r) ==
    /\ serving' = [serving EXCEPT ![r] = Idle]
    /\ done' = [done EXCEPT ![r] = "none"]
    /\ plan' = [plan EXCEPT ![r] = Undecided]
    /\ UNCHANGED <<broker, ledger, lost, connector, form, pages, drop>>

\* The staged file is removed in any case.
Finish_Always(r) ==
    /\ done[r] # "none"
    /\ staged' = staged \ {serving[r]}
    /\ Answer(r) /\ UNCHANGED faults

\* After the pipeline the staged file is removed.
Finish(r) ==
    /\ done[r] = "marked"
    /\ staged' = staged \ {serving[r]}
    /\ Answer(r) /\ UNCHANGED faults

\* The parser refuses the file or a write fails: 409, 422 or 500.
Refuse(r) ==
    /\ done[r] \in {"read", "written"}
    /\ faults < MaxFaults /\ faults' = faults + 1
    /\ Answer(r) /\ UNCHANGED staged

-------------------------------------------------------------------------------
\* The process ends.
Crash ==
    /\ faults < MaxFaults /\ faults' = faults + 1
    /\ plan' = [p \in Worker \cup Request |-> Undecided]
    /\ phase' = [w \in Worker |-> "idle"]
    /\ files' = [w \in Worker |-> {}]
    /\ seen' = [w \in Worker |-> Nothing]
    /\ serving' = [r \in Request |-> Idle]
    /\ done' = [r \in Request |-> "none"]
    /\ UNCHANGED <<broker, ledger, lost, runs, overlapped, form, pages,
                   staged, drop>>

Decide(p) == ReadTotal(p) \/ \E t \in trades : Look(p, t)

Run(w) ==
    \/ List(w) \/ Count(w) \/ Log(w) \/ Abort(w) \/ Decide(w)
    \/ \E t \in files[w] : Confirm(w, t) \/ Skip(w, t)

Serve(r) ==
    \/ Decide(r) \/ Mark(r) \/ Finish(r) \/ Refuse(r)
    \/ \E t \in trades : Write(r, t)

Next ==
    \/ Tick \/ Buy \/ Crash
    \/ \E w \in Worker : Run(w)
    \/ \E d \in Doc, f \in Form, S \in SUBSET trades : Stage(d, f, S)
    \/ \E d \in Doc : Insert(d)
    \/ \E r \in Request, d \in Doc : Read(r, d)
    \/ \E r \in Request : Serve(r)

\* Days pass, requests are served, and the connector is run again and again.
Fairness ==
    /\ WF_vars(Tick)
    /\ \A r \in Request : WF_vars(Serve(r))
    /\ \A w \in Worker : WF_vars(Run(w))

Spec     == Init /\ [][Next]_vars
FairSpec == Spec /\ Fairness

-------------------------------------------------------------------------------
(* Properties.                                                             *)

\* The trades whose confirmation was uploaded by hand.
ByHand == UNION { pages[d] : d \in { e \in Doc : form[e] = "confirmation" } }

\* However runs crash and files fail, and whatever the confirmations upgrade,
\* no trade has two rows that were made from its confirmation, unless two runs
\* of the connector have overlapped or the confirmation was uploaded besides.
ConfirmedOnce ==
    ~overlapped => \A m, n \in Rows("confirmation") :
        ledger[m].when = ledger[n].when =>
            m = n \/ \E t \in ByHand : ledger[m].when = Settles(t)

\* A document that is listed as not committed can still be committed.
NothingUploadedIsLost ==
    \A d \in Doc : drop[d] = "staged" => d \in staged

\* A document that is listed as committed is in the ledger with all its trades,
\* whatever failed, and whatever was imported besides, except for a trade whose
\* row another commit took over, which had chosen it when it was a share count.
CommittedIsBooked ==
    \A d \in Doc : drop[d] = "committed" =>
        \A t \in pages[d] :
            \/ \E n \in Rows(form[d]) : ledger[n].when = Settles(t)
            \/ [when |-> Settles(t), src |-> form[d]] \in lost

\* In the end the ledger gives the right number of shares, whichever trades it
\* has skipped, lost or booked twice, and in whichever order.
TotalsSettle == <>[](Total(ledger) = Cardinality(trades))

-------------------------------------------------------------------------------
(* What the repository says and the code does not do.                      *)

\* acorns_connector.py:667: "Reuse cached file if it exists (prior run that
\* wasn't committed)".  A file that a run has fetched and leaves uncommitted is
\* one that the next run takes from the cache.
CachedIsReused ==
    [][ \A w \in Worker : \A t \in files[w] \ files'[w] :
          \/ \E n \in Rows("confirmation")' : ledger'[n].when = Settles(t)
          \/ t \in Unprocessed' ]_vars

===============================================================================
