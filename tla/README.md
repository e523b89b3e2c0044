# Sentry Finance in TLA+

A verification development kept beside the Sentry Finance repository. It models
the part of the backend where things happen at the same time or over a long
time: refresh sessions and the threads they leave behind, the schedule of
retries, the exchange of MFA codes, the event stream of the dashboard, the
transaction store under overlapping imports, the Acorns ledger with its three
sources, and the tagging of transfers that follows every refresh. TLC checks the
models on small instances; TLAPS proves the central properties for all values
of the constants.

`PROJECT.json` is the machine-readable index: components, runs, the source
lines of every definition (`map`), hazards, findings and theorems.

Contents: 1 the system, 2 the modules and how they correspond to the code,
3 the runs, 4 fairness, 5 proofs, 6 findings, 7 what is not modelled, 8 plan.

## 1. The system

Sentry Finance collects a household's account data by driving a Chrome window
through the sites of banks and brokers, keeps it in SQLite and shows it in a
dashboard. One Python process serves a FastAPI application
(`backend/api_server.py`); request handlers and refreshes run in threads of it.

### Parts, their state and operations

| Part | State | Operations | Hard because |
| --- | --- | --- | --- |
| Refresh session (`backend/refresh_orchestrator.py`, `backend/routers/refresh.py`, `backend/automation_worker.py`) | the lock `_refresh_lock`; a session object shared by two threads without a lock; `refresh_runs`, `refresh_events`, `institution_refresh_status` in the database | start a refresh; run it through its states; run each institution in a worker thread; time out and force-fail; recover orphaned runs at start-up | a Python thread cannot be stopped: inner threads and workers outlive their session and run beside the next one; the process can die anywhere |
| Staleness and backoff (`evaluate_staleness`, `_run_institution`, `dal/refresh_log.py`) | `institution_refresh_status`: last success, failures, `next_eligible` | decide what is due; record a success or a failure with its delay | wall-clock times compared across restarts; a left-behind session still writes; nobody sleeps until a retry |
| State machine (`backend/state_machine.py`) | none (tables) | `validate_transition`, `InstitutionTracker`, `classify_error` | used by two threads on one `self.state` |
| MFA bridge (`backend/mfa_bridge.py`, `backend/routers/mfa.py`, the connectors) | one slot: pending institution, code, event | `wait_for_code`, `submit_code`, `cancel_wait`, `get_pending` | one event for every waiter; the endpoint looks twice; abandoned waits |
| Event bus (`backend/events.py`) | subscriber list, a bounded queue per client | `subscribe`, `unsubscribe`, `broadcast_event` | the client drains its queue in the middle of the overflow handling |
| Credential action bridge | pending actions, one event each | `request_choice`, `submit_choice` | a choice between timeout and pop |
| Credential broker, IPC | request and response files | `request_credentials`, `clear_credentials` | another process, perhaps elevated |
| Result writer and post-commit pipeline (`backend/result_writer.py`) | every data table | persist one connector result; then categorise, reconcile, link, recompute, alert | each step commits or fails on its own |
| Transaction store (`dal/transactions.py`) | `transactions` | identity hash, upsert | the identity must survive a repeated import |
| Reconciliation and linkers (`dal/reconciliation.py`, `_link_acorns_bank_debits`, `dal/fidelity_eft_linker.py`) | `transfer_tag`, `investment_link`, `bank_txn_id` | greedy pairing, linking by date | run again after every refresh, over the results of earlier runs; read, then write |
| Acorns ledger (`extractors/acorns_connector.py`, `dal/parsers`) | `positions_ledger`, cached confirmations | process confirmations above a watermark, log share-count deltas, upgrade scraped rows | the same trade arrives from three sources, in any order; each row repeats a running total |
| Document ingest (`backend/document_ingest.py`, `backend/routers/documents.py`) | staging files, `document_drops` | upload, preview, commit, discard | file and database are written one after the other; repeated commits |
| Goals, alerts, notifications | their tables | synchronise, evaluate, dedupe | read, then write, beside request handlers |
| Connectors and Chrome | a shared browser | login, export, logout | outside services |
| Reporting, parsers, scripts | none of their own | read, compute | no concurrency |

### How they interact

`POST /api/refresh/start` takes the lock and starts the **manager** thread
(`RefreshSession.run`). It starts the **inner** thread (`_run_inner`) and joins
it with a wall-clock limit. The inner thread moves the run through
EVALUATING_STALENESS, AUTH_REQUIRED, FETCHING_CREDENTIALS and RUNNING, and for
each stale institution starts a **worker** thread, which runs the connector,
commits its data (`persist_connector_result`) and runs the pipeline. The inner
thread joins the worker with the institution's limit, and records the attempt.
A connector that meets an MFA challenge blocks in `mfa_bridge.wait_for_code`
until the user's `POST /api/mfa/submit`. Every state change is broadcast to the
clients of `GET /api/refresh/events`. The pipeline also runs after a document is
committed (`routers/documents.py`, `document_ingest.py`), in the thread of that
request, so several pipelines may be at work on one database.

What has to be right: the lock is held exactly while a session is managed; the
row in the database says what the session does; the final report is true; every
failed attempt is counted once; a crash leaves nothing that reads as active; a
hung connector blocks nobody for ever; a code reaches the challenge it was typed
for, once; a client learns of every event or learns that it missed some; a
failing institution is left alone for as long as its failure asked, and no
longer; of a purchase no more rows are stored than it was made times, however
often it is imported; what the ledger says was committed is in it, and its share
count is right in the end; a tag that hides a transaction from income and
spending has a reason.

## 2. Modules

| Module | Models | Used by |
| --- | --- | --- |
| `RefreshStates` | the states and legal moves of a run | `RefreshSession` |
| `RefreshSession` | manager, inner and worker threads, session object, database rows, crash and restart | `MCRefreshSession`, proofs |
| `RefreshLedger` | abstract: what refreshing promises to a reader of the database | `RefreshSession` (refinement) |
| `RefreshSchedule` | staleness, cooldown, retry schedule and the clock | `MCRefreshSchedule`, proofs |
| `MfaBridge` | the slot, the waits of the connectors, the submit endpoint | `MCMfaBridge`, proofs |
| `EventBus` | queues, broadcast with eviction and notice, streams | `MCEventBus`, proofs |
| `TxnStore` | the identity of a transaction and `upsert_transactions`, several writers | `MCTxnStore`, proofs |
| `AcornsLedger` | the rows of one ticker: confirmations, share counts, statements | `MCAcornsLedger`, proofs |
| `TransferTags` | `reconcile_transfers` and the two linkers, several pipelines beside imports | `MCTransferTags`, proofs |
| `MC...` | the instances TLC checks | the `.cfg` files |
| `RefreshSessionProofs`, `RefreshLedgerProofs`, `RefreshScheduleProofs`, `MfaBridgeProofs`, `EventBusProofs`, `TxnStoreProofs`, `AcornsLedgerProofs`, `TransferTagsProofs` | theorems | |

### RefreshSession

Control points stand for program positions: `mgr[s]` for `RefreshSession.run`
and `_force_fail`, `inner[s]` for `_run_inner` and `_run_institution`,
`worker[s][i]` for a worker thread. The granularity is one access to state
another thread or the database can see. In particular

- `_transition` is three steps, `CheckMove` (or `RefuseMove`), `AssignMove` and
  `SaveMove`: validate against `self.state`, assign it, commit the row. The
  table `Target` names the move at each control point that makes one, `After`
  the next control point.
- `_force_fail` is five steps (`ForceFailRow` to `ForceFailSave`), so that an
  inner thread still in `_transition` can come in between; `ForceFailRaises` is
  the refused move or failed update, after which only the `finally` clause of
  the request thread runs.
- A commit is one step, because each `with get_db()` block commits once. The
  worker's commit (`WorkerSaves`) and the record of its success (`RecordOk`)
  are different transactions, and the second may fail alone (`RecordOkFails`).
- `summary` is one variable for both threads: `summary["status"]` is one dict
  the manager and the inner thread write. The inner thread of a timed-out
  session may write it after REFRESH_COMPLETE was broadcast; the client queues
  hold the dict itself, which is serialised when a client reads it, so
  `ReportIsTrue` looks at it in every state from the broadcast on.
- `Crash` ends every thread and object and keeps the database; `Restart` is
  `recover_orphaned_runs` before the first request.

Left to choice: which institutions are stale (any subset), whether an error is
fatal, whether a database call fails, when limits pass. A worker may also hang
(nothing is fair about it). `FetchCredentials` has no failing branch: a broker
that fails gives an empty dictionary and the run continues.

### RefreshLedger

The abstract specification. A session is idle, acting (in charge of
refreshing) or over. An attempt of
a session for an institution is opened, then resolved at most once, in the same
step as the institution's failure count; it is good only if the session's data
is committed. `RefreshSession` implements it with the mapping `LedgerCharge`,
`LedgerAttempt`, `streak`, `saved`; `KeepsLedger` is that statement.

### RefreshSchedule

What `RefreshSession` leaves out: the clock. `age[i]`, `wait[i]` and
`failures[i]` are the columns `last_success`, `next_eligible` and
`consecutive_failures` of an institution, the first two as differences to the
present; the clock ticks, and may be set back (`SetBack`). `Due` is
`evaluate_staleness`. `Start` is a request, for all institutions or some,
forced or not, which takes what is due; `Begin` is the read of
`consecutive_failures` at the head of `_run_institution`, `Succeed` and `Fail`
its two ends with `update_institution_status`. A session that has hit its limit
(`Timeout`) is "left": it finishes the institution it has in hand, or drops it
(`Cancelled`), beside the session that comes after. `Crash` ends all sessions.
`owed` and `excused` are history variables: the true time that is left of the
delay the last failure asked for, which a clock that was set back does not
change; and the institutions in a session's queue that it may begin all the
same, because it was forced to, or because another session has failed them since
it looked. `next_eligible` is read once, by `Start`; `Begin` reads only the
failure count.

### MfaBridge

Two kinds of runs: those whose connector blocks in `wait_for_code` (TSP), and
those that start a helper thread that waits and poll the browser meanwhile
(`Polling`; `mypay_connector._wait_for_code_or_direct_browser_mfa`).
`wait_for_code` has two critical sections (`Register`, `Collect`) with the wait
on the event (`Wake`, `TimeOut`) between; a submission is the endpoint's check
(`CheckPending`) and `submit_code` (`SubmitCode`), each under the lock. The
session starts one run after another, but `Abandon` lets it go on while the
threads of a run stay. A code is identified by its number and the institution
it was typed for; `since` and `overlapped` are history variables.

### EventBus

A broadcast holds `_sse_lock` and serves the subscribers in any order. The
three queue operations of the overflow path are the steps `PutFull`, `Evict`,
`Announce`, because the stream generator takes from the queue without the lock
(`Receive`). Events are numbered; 0 is the `EVENTS_DROPPED` notice.

### TxnStore

The purchases of one account and one amount. A row's id hashes the day, the
first 15 characters of the description, the absolute amount and a sequence
index; `Frag` is the map from a description to its prefix, so two descriptions
may or may not collide. `CsvIndex` is the numbering of `dataframe_to_txn_dicts`
and `SequenceIndex` what `upsert_transactions` makes of it. `Export` is the
file of all days from some day on, `EnterByHand` the API's batch of one, pending
or posted. `Look` is the SELECT, which sees what is committed until the writer
has the write lock; `Write` is the INSERT or UPDATE, which takes the lock
(`Free` is the primary key). `Finish` commits, `Rollback` does not, and
`FailCsv` is the CSV importer, which logs a line that fails and commits the
lines before it.

Not modelled: identities given by the bank, which need no counting; deleting
and editing. The two ways into the table with an index are the same code for
every account and amount, and rows of different ones never meet.

### AcornsLedger

One ticker, at most one trade a day, of one share, with a confirmation for each.
A row is its day, its source, its delta and the running total it repeats;
`Total` is the total of the newest row, in the order of the query (`Newer`: noon
for trades, the time of the run for share counts, the rowid last).

`parser.commit` is cut where others may come in between. Its two SELECTs run
outside any transaction, and its first INSERT or UPDATE takes the write lock that
`conn.commit()` gives back. So the first trade of a file or document is decided
from what two reads saw (`Look`: the oldest scraped row of that month with the
same delta; `ReadTotal`: else the newest total), kept in `plan`, and written
later (`Commit`, `Booked`); the UPDATE names the row by its id alone, so by then
it may take the row of another trade, which `Overwritten` notes in `lost`. The
other trades of a statement follow under the lock (`BookedAll`).

A connector run is `List` (it takes its snapshot, reads the watermark and
downloads some of the confirmations past it), then `Confirm` or `Skip` for one
file after another, newest first as the page lists them; or, when it found none,
`Count` (the shares on the page) and `Log` (the delta to the newest total, under
the time of the snapshot). `Log` is one step: `_process_delta_logging` inserts
the snapshot before it reads the total, and so holds the write lock from the
read to its commit, whatever the price query in between takes. `Abort` is an
exception anywhere, `Crash` the end of the process.

A document, a statement or a confirmation, goes through `Stage` (the file),
`Insert` (the row of `document_drops`), `Read`, `Look` and `ReadTotal`, `Write`,
`Mark` and `Finish`, which are separate because each is a read, a commit or a
change of the file system; `Refuse` is an error answer. Uploaded confirmations
book rows of the same source as those of the connector and move its watermark.

Constants give the environment: `Lag` from trade to settlement, `InMorning`
whether the connector runs before noon, `TiesFirst` which of two rows of one
timestamp SQLite returns first, `Month` of a day.

### TransferTags

The posted transactions of one amount (`by_amount` never looks beyond one), in
the order of insertion, with their tag, and the ledger rows (purchases of
Acorns, markers of Fidelity) with their `bank_txn_id`. A tag is modelled by what
it identifies: the two transactions hashed by `_stable_transfer_tag`, or the
ledger row of `invest:`. `run[p]` holds the locals of the step that pipeline
`p` is in; pipelines of a refresh, of one a timeout left behind, and of a
document commit run beside each other, and their steps come in any order, since
each is tried again by the next pipeline and each may fail alone (`Abort`).

A run of `reconcile_transfers` is `Read` (the SELECT), one `Visit` for each
turn of the outer loop that finds something to do, in the order of
`posting_date`, `SecondPass`, and `Commit`. `Candidates` is what its inner loop
accepts; `PassOver` and `Pair` are its two ends: only pairs already tagged, a
new pair. Turns that find nothing change nothing and are no steps. The Acorns
linker is `ReadDebits`, `ReadRows` and `LinkAcorns`; the Fidelity linker is
`ReadMarkers`, `ReadReferenced`, then for each marker `Unmatched` or `Matched`,
and `CommitLinks`. A step takes SQLite's write lock with its first UPDATE
(`Pair`, `LinkAcorns`, `TakeLock`), and `Unlocked` lets others commit only
before. `crossed` is a history variable: a linker has begun beside another of
its kind.

Descriptions and categories stay as imported (the code may edit them: an upsert
with a new description, a user's rule), pending and deleted transactions are
left out, and so are the transactions and ledger rows of other amounts, which a
run treats in the same way.

## 3. Runs

| Run | Instance | Question |
| --- | --- | --- |
| `refresh_overlap` | 2 sessions, 1 institution, 1 retry | is the lock managed, are attempts and failures accounted for, and is `RefreshLedger` implemented, while the threads of a timed-out session run beside the next? |
| `refresh_batch` | 1 session, 2 institutions, 1 retry, 1 crash | are row, moves and report true, are crashed runs closed, is nothing begun once the lock is given back, does everything end? |
| `mfa_bridge` | 2 myPay runs, 1 TSP run, 2 codes, 1 abandoned run | are codes fresh, delivered once and, for serial waits, to the right institution; do waits end? |
| `event_bus` | 2 clients, queues of 2, 5 events | is every gap announced in its place, is order kept, do clients catch up? |
| `transfer_tags` | 2 pipelines, 3 transactions of 3 kinds, 2 ledger rows of 2 kinds (630,743 states) | do tags mean what they say while pipelines and imports run beside each other; is a run complete? |
| `txn_store` | 2 writers, 3 purchases, overlapping files, entries by hand (498,822 states) | is no identity stored more often than it was bought, nothing missing after a whole import, nothing posted lost? |
| `refresh_schedule` | 2 institutions, 2 sessions, interval 1, delays 1 and 2, 2 retries, 1 setback, 1 cut (505,652 states) | are retries early only for the known reasons, waits never longer than asked, and no institution given up? |
| `acorns_ledger` | 2 connector runs, 1 request, 1 document of either kind, 2 trades, 1 fault (694,072 states) | when is a trade confirmed twice or its row lost, is what was uploaded kept, is the total right in the end? |
| `mfa_mixup`, `tags_shared`, `txn_signs`, `acorns_cached` | as above, smaller: one pipeline and no ledger; 2 purchases; one connector run at a time and no lag | statements of the repository that do not hold (section 6) |

Bounds, and why they are enough:

- `Session`: two sessions give every overlap of a timed-out session with its
  successor. The lock admits no third managed session; more abandoned ones
  would repeat the second's part. Sessions and institutions are symmetric
  (`Symmetry`; used only in runs with no liveness property).
- `Institution`: one is enough for races between sessions, two for the loop of
  one session (partial success, cancellation between institutions).
- `MaxRetries = 1`: the first failure of an institution is retried, the second
  one gives up.
- `MaxCrashes = 1`: every crash point is reached. A second crash finds only
  rows `recover_orphaned_runs` has closed.
- `MaxCodes = 2`: one code per waiter of an overlapping pair; `MaxAbandoned =
  1` is what it takes for two waits to overlap, and myPay's helper threads give
  a second way.
- `Capacity = 2`, `MaxEvents = 5`: overflow happens three times in a row and a
  notice can itself be evicted. The real capacity is 100; nothing depends on it
  but being full.
- `RefreshSchedule`: two sessions are one under the lock and one left behind.
  With two retries and two delays an attempt is retried with the first, the
  second and, given up, with twice the second. One setback by one is enough to
  put a success into the future and to lengthen a wait; ages and waits stop at
  values that no longer change a decision (`Old`, `Over`), failures at `Many`.
- `TxnStore`: two equal purchases and one that shares only the day or only the
  text with them; two writers, so that a SELECT of one falls before the commit
  of the other. A third writer would wait for the same lock. `MCFrag` keeps the
  two descriptions apart; with prefixes that collide `ImportIsComplete` is not
  claimed, while the proofs of the other properties hold for any `Frag`.
- `AcornsLedger`: two trades are a watermark and a confirmation below or above
  it; a lag of one day makes trade day and settlement day differ, and lets a
  confirmation be committed on the day it is below the watermark. `LastDay = 4`
  leaves two days after the last trade on which the totals settle; all days lie
  in one month, so that scraped rows can be upgraded. One fault: a crash, one
  refused file, or one timed-out run that goes on beside the next (`List`
  counts it), at every point, so that a crash of overlapping runs is left out.
  Two of runs and requests at a time (`MaxBusy`) are two runs, or a run beside
  a commit, whose reads and writes then interleave in every way; a third would
  wait for the same lock. `MaxRuns = 2` counts the runs before the last day. On
  the last day they are not counted, so that liveness is not cut off, but one
  begins only when no other is under way (`MayBegin`).
- `TransferTags`: `MaxTxns = 3` is a pair, and a third transaction that competes
  for a leg of it. Days 0, 1 and 4 lie one, three and four days apart: inside
  both windows of the passes, inside the longer, outside both. `MaxRows = 2`: a
  row to be linked and one to be linked again. The kinds in `MCImport` and
  `MCLedger` are the ones that can meet: a debit for Acorns, and two transfers
  that pair across institutions, with each other or with it; the proofs cover
  all kinds. Pipelines are symmetric (`MCSymmetry`).

Deadlock is checked in every run. In `refresh_overlap` and `refresh_batch` the
only resting state is `Quiet`, with all sessions over and all workers gone.

Each property of a passing run has a mutant: a definition changed the way a
bug would change it (for example `Release_Forgotten`, `SaveRow_RestingOnly`,
`ClosingMove_RetriesForgiven`, `EmptySlot_KeepsCode`, `MakeRoom_Not`). TLC finds
the property violated with the mutant in the definition's place. The mutants
stand beside the definitions they change and are not part of the specification.

## 4. Fairness

- Manager and inner threads (`RefreshSession!Fairness`): weakly fair. They wait
  only in `join(timeout=...)`, and the operating system schedules them.
- Workers: none. A connector may hang for ever in a browser; that
  `LockIsReleased` and `InnerThreadsEnd` hold all the same is the point.
- Users, requests, restarts: none.
- `MfaBridge`: a thread inside `wait_for_code` is weakly fair, because its wait
  has a limit. Nobody has to answer.
- `EventBus`: a broadcast never blocks (`put_nowait`, `get_nowait`), so it goes
  on; a client with an open stream keeps reading or disconnects. A client that
  stays connected without reading is not promised anything.
- `RefreshSchedule`: time passes, and an institution in hand ends, if only by
  its time limit: both weakly fair. That a request for all institutions is made
  again and again, and gets in between others, is an assumption on use, not
  something the code sees to (strong fairness of `StartAll`): no thread of the
  backend starts a refresh by itself. `NobodyIsForgotten` says what the code
  adds to it: a failed institution becomes due again.
- `AcornsLedger`: days pass, requests are served, and the connector is run
  again: weakly fair. Faults are bounded, so that the runs after the last one
  get through; with an account that can never be read nothing settles.
- `TxnStore`, `TransferTags`: none. A step that fails is not repeated before the
  next refresh, and nothing says when that is.

## 5. Proofs

Checked by `tlapm` for every set of sessions, institutions, runs, clients,
writers and pipelines, every retry limit, backoff schedule, capacity and number
of crashes, codes or events, and for every set of transactions, accounts and
days. Assumptions are `RefreshAssumption`, `ScheduleAssumption`,
`BridgeAssumption`, `BusAssumption`, `StoreAssumption`, `LedgerAssumption` and
`TagsAssumption`: the constants have their types, "no institution", "no code",
"no run", "nobody" and "idle" are not members of the sets they are added to, the
last delay of a backoff schedule is its longest, and the last trade settles
before the last day.

| Theorem | States |
| --- | --- |
| `RefreshSessionProofs!TypeCorrect` | `TypeOK` |
| `RefreshSessionProofs!LockIsManaged` | `LockFollowsManager` |
| `RefreshSessionProofs!NoTwoUncancelled` | `OneUncancelledSession` |
| `RefreshSessionProofs!RowIsTrue` | `RowTracksSession` |
| `RefreshSessionProofs!MovesAreLegal` | `OnlyTimeoutBreaksMoves` |
| `RefreshSessionProofs!LoopsKeepTheLock` | `TakenUpUnderLock` |
| `RefreshLedgerProofs!LedgerIsKept` | `KeepsLedger`, the refinement |
| `RefreshLedgerProofs!ReportsAreTrue` | `ReportIsTrue` |
| `RefreshLedgerProofs!FailuresAreCounted` | `FailuresAccountedFor` |
| `RefreshLedgerProofs!CrashesLeaveNothingOpen` | `CrashedRunsClosed` |
| `MfaBridgeProofs!BridgeTypes` | `TypeOK` |
| `MfaBridgeProofs!FreshCodes` | `CodesAreFresh` |
| `MfaBridgeProofs!OneDelivery` | `DeliveredOnce` |
| `MfaBridgeProofs!NoOrphanedPrompt` | `PendingHasWaiter` |
| `MfaBridgeProofs!SerialWaitsSafe` | `SerialWaitsAreSafe` |
| `EventBusProofs!SpecTypeOK` | `TypeOK` |
| `EventBusProofs!SpecEventsInOrder` | `EventsInOrder` |
| `EventBusProofs!SpecGapsAreAnnounced` | `GapsAreAnnounced` |
| `RefreshScheduleProofs!SpecTypeOK` | `TypeOK` |
| `RefreshScheduleProofs!SpecWaitsAsAsked` | `WaitsAsAsked` |
| `RefreshScheduleProofs!SpecRetriesKeepDistance` | `RetriesKeepDistance` |
| `TxnStoreProofs!SpecTypeOK` | `TypeOK` |
| `TxnStoreProofs!SpecNothingTwice` | `NothingTwice` |
| `TxnStoreProofs!SpecPostedStays` | `PostedStays` |
| `TxnStoreProofs!SpecNothingInvented` | every row is of a purchase, and its id fits it (`Fits`) |
| `TxnStoreProofs!SpecImportIsComplete` | `ImportIsComplete`, if `TextsApart` |
| `TxnStoreProofs!SpecSignsDoNotCollide` | `SignsDoNotCollide`, if `RefundsApart` |
| `AcornsLedgerProofs!SpecTypeOK` | `TypeOK` |
| `AcornsLedgerProofs!SpecTradesStay` | `[][TradesStay /\ Keeps(ledger, ledger', lost')]_vars`: no row of a trade is removed, or changed but by a commit that had chosen it |
| `AcornsLedgerProofs!SpecConfirmedOnce` | `ConfirmedOnce` |
| `AcornsLedgerProofs!SpecNothingUploadedIsLost` | `NothingUploadedIsLost` |
| `AcornsLedgerProofs!SpecCommittedIsBooked` | `CommittedIsBooked` |
| `TransferTagsProofs!TagTypes` | `TypeOK` |
| `TransferTagsProofs!RunPairsUp` | `TInv`, the inductive invariant |
| `TransferTagsProofs!TransfersHaveLegs` | `TagsAreJustified` |
| `TransferTagsProofs!RunsTagPairs` | `WrittenInPairs` |
| `TransferTagsProofs!RunsLeaveNothing` | `NothingLeftOver` |
| `TransferTagsProofs!InvestTagsHold` | `InvestTagHasRow` |

**Session.** `OneUncancelledSession` is not inductive: it speaks of inner
threads, and a new one is started by a request that knows only of the lock.
`IInv` adds what connects them. `LockFollowsManager`: the lock is a manager at
work, and only one. `Supervised`: an inner thread that is alive and not
cancelled has a manager still at work. `ForcedIsCancelled`: a manager in
`_force_fail` has cancelled. `CurrentInst`: inside `_run_institution` there is
an institution. Two uncancelled inner threads would then have two managers.

**Moves.** `OnTrack` says that, for a session not cancelled, the control point
of the inner thread determines `self.state`, and the row agrees between moves.
Its step uses that only a manager that has cancelled writes the state from
outside (`IInv`), that a session not yet started is untouched, and that a
process that is down has no threads. `TablesFit`, the lemma about `Target` and
`After`, contains the fact that every move of an ordinary run is in
`_VALID_TRANSITIONS`. `TakenUpUnderLock` combines what the session's own thread
does with what others hold: it begins an institution only uncancelled
(`TakesUpUncancelled`), an uncancelled inner thread is `Supervised` by a manager
that still waits for it, and a manager at work holds the lock.

**Ledger.** `Story` says of each session, cancelled or not, that the control
point of its inner thread, the institutions it counts as won and lost, and its
event rows tell the same story: before the loop there are no rows, in the loop
an institution is won or lost exactly if its row says so, and only the one in
hand has an open attempt (`EarlyFits`, `LoopFits`, `CurFits`). A worker that is
left behind can only add data, once, for an attempt that is on record
(`WorkersFit`), so the verdict in `summary` stays true after it is written
(`VerdictFits`). The refinement then needs what each thread writes to the ledger
(`InnerWrites`, `WorkerOfLedger`) and that the manager that lets go, or that a
crash ends, is the one that was acting (`LockFollowsManager`). `Counted` is the
count of failed rows, which one step of one thread moves together with
`streak`. `Closed` says that a run of an earlier process stays as recovery left
it: the threads that could open it again died with that process.

**Bridge.** `CodesAreFresh` needs that a code in the slot is newer than every
wait that is still going on; `DeliveredOnce` needs that the code in the slot
was not received by anybody, and that numbers are not reused. They follow from
`Register` clearing and `Collect` emptying the slot. As long as no two waits
have overlapped, the slot belongs to the one wait there is (`SerialInv`), and
what is submitted is for its institution.

**Schedule.** `RetriesKeepDistance` compares the true time since a failure with
a comparison of clock times. `OwedIsWaited` connects them: what is still owed is
still waited for, since the clock is only ever set back. It looks at the moment
an institution is begun, so the invariant also says of every queue that what is
in it owes nothing or is excused: `Start` takes only what is due (`DueIsFree`),
and the one step that makes something owe again, `Fail`, excuses it in every
queue it is in (`QueuedIsFree`). `WaitsAsAsked` is the
bound from the other side. Both need that a delay lies within the schedule or is
twice its end (`DelayIsBounded`).

**Events.** The argument is about a client's course: what it has received,
followed by its queue. Receiving does not change it, a broadcast appends to it,
an eviction takes one item out of it (`CourseMoves`). The invariant adds that
only open streams are served (`Serving`), that the event under way is newer than
the course of whoever waits for it (`Fresh`), and that the notice finds room,
because between the eviction and the notice the client only takes
(`RoomForNotice`).

**Transactions.** An index is at most the number of equal purchases before it,
so every id that is ever computed has an index below the number of purchases of
its identity (`AllCounted`, in the table, in drafts and in files), and there are
only as many such ids. `PostedStays` holds because there is one writer at a time
and its draft has every committed row (`DraftExtends`).

`ImportIsComplete` has the premise `TextsApart`: two purchases of one day whose
descriptions begin with the same characters have the same description. Without
it the claim is false, because the importer numbers equal descriptions and the
store numbers equal prefixes, and a number other than 0 is kept: two lines of a
file can get one id. With it the two ways to count agree (`IndexIsCsvIndex`),
and of two lines that are alike the later has the higher index (`LaterIsHigher`).
`CInv` adds to the invariant that a row is of a purchase and its id fits it
(`KeysFit`), that the lines of a file have ids of their own (`FilesFit`), and that
a line the writer has come past is in the table it sees (`Upserted`), which only
grows until its file ends. The ids then map the lines of a file one to one into
its rows. Only that the lines have ids of their own needs the premise; that every
row is of a purchase (`SpecNothingInvented`) holds for any `Frag`.

`SpecSignsDoNotCollide` is the other side of the finding of run `txn_signs`: what
the comment on signs promises holds as soon as no two kinds of purchase have one
identity (`RefundsApart`), so it is broken only where the sign would be needed to
tell them apart.

**Acorns ledger.** Three layers. *Order*: `Newest` and `Oldest` choose from rows
by day, hour and rowid; that there is such a row (`NewestExists`, `OldestExists`)
is shown level by level from the least and the greatest of a bounded set of
numbers. These, and the induction over the days of a statement, rest on
`HasFirst`, which follows from the strict subset order on finite sets being
well-founded. *Booking*: a trade changes or adds one row of its own source; the
row it was to take over is still a row when it is written (`PlansFit`), and if it
is another trade's by then that trade is noted in `lost` (`BookedKeeps`). What is
decided under the lock takes nobody's row (`DecidedKeeps`), and so neither do the
further trades of a statement, by induction over their days (`BookedAllKeeps`).
Every step therefore keeps the rows of trades but for those in `lost`
(`StepKeeps`). *Invariants*: `OnceInv` says that without an overlap at most one
run is under way (`Alone`) and that the trades of its files have no confirmed row
yet, or were uploaded by hand (`Ahead`), because they were listed past the
watermark and confirmed ones lie at or before it, whatever the lag. `DocInv` says
how far a request is with the document it serves: listed, written (its trades
are in the ledger) or marked (`ServedIsListed`, `WrittenIsBooked`), whichever
other requests serve the same document.

**Tags.** What is written at the commit was decided in the passes, from tags that
may have changed since. `TInv` is the invariant of a run under way: the pairs
tagged so far are legs of each other (`PairsFit`), and no two of them share a
transaction, because `processed_ids` has both legs of each (`PairsApart`). For
`NothingLeftOver`, `SInv` adds `Covered`: every turn that is past leaves a leg
of each pair that fits in `processed_ids`. For `InvestTagHasRow`, `LInv` adds
that one pipeline writes at a time (`Alone`), and that the rows a linker still
has before it are free (`RowsAreFree`), because only a linker of its own kind
could have taken them. That the links of one day do not share a row or a debit
is `RanksDiffer`, by cardinality. Imports only append, so legs stay legs.

Only model-checked: liveness (`LockIsReleased`, `InnerThreadsEnd`, `WaitsEnd`,
`ClientsCatchUp`, `NobodyIsForgotten`, `TotalsSettle`), because fairness is out of
the prover's reach. Every other property of a passing run is a theorem.

## 6. Findings

Statements of the repository that a run refutes:

- `mfa_mixup`: `wait_for_code` should return a code "submitted for this
  institution"; it does not compare, and of two overlapping waits the first to
  wake takes the code typed for the other.
- `tags_shared`: reconciliation "tags them with a shared transfer_tag", but a
  later run may take one leg of a pair for another transaction (the inner loop
  continues after a pair that is already tagged), and the old partner keeps a
  tag that nobody shares, hidden from income and spending.
- `txn_signs`: the identity is to "include sign so a $50 debit and $50 credit on
  the same day don't collide" (`dal/transactions.py:77`), but it hashes the
  absolute amount. In a file that begins with the newest line the refund takes
  the index the purchase was stored with: two debits and no credit.
  `NothingTwice`, which counts the rows of an identity, still holds there: it does
  not tell the debit from the refund.
- `acorns_cached`: "Reuse cached file if it exists (prior run that wasn't
  committed)" (`acorns_connector.py:667`). Files are committed newest first, and
  the next run skips everything up to the newest committed before it looks at
  the cache; an older file that was left behind is never taken from it. The
  share count is put right by a later delta, under a wrong day and price.

Noted while modelling, without a run of their own:

- `_force_fail` is documented as used "after a session timeout or unrecoverable
  crash" (`refresh_orchestrator.py:377`); `run` calls it for timeouts only. When
  the inner thread raises, the row keeps its active state until the next start
  of the process.
- The start endpoint "prevents concurrent executions" (`routers/refresh.py:97`);
  after a session timeout the lock is free while a worker of the old session is
  alive, so two sessions can run connectors against one Chrome window.
- "Only the ONE primary ledger row per cash leg" should carry its `bank_txn_id`
  (migration 43). Reconciliation replaces the `invest:` tag of an Acorns debit
  it pairs with an untagged credit, and the linker, which looks at the tag
  alone, links the debit to a second row.
- Two Fidelity linkers beside each other: the second reads the markers before
  the first commits, then finds the one candidate that is left and overwrites
  the marker's `bank_txn_id`, so that two bank transactions are tagged to one
  marker, against the "exactly one primary ledger row per cash leg" on which the
  join of `flow.py:359` rests. `InvestTagHasRow` excludes this case (`crossed`);
  without that premise TLC finds it.
- A file with two equal lines and a third of the same day and amount whose
  description only begins like theirs: the importer numbers the lines 0, 1 and 0,
  because it compares whole descriptions; `upsert_transactions` keeps the 1 and
  numbers the others 0 and 1 again, because it compares what is hashed
  (`dal/transactions.py:173`). Two lines get one id, and the later one replaces
  the description of the earlier. With `MCFrag` mapping both descriptions to one
  prefix TLC finds `ImportIsComplete` violated; the theorem has `TextsApart`.
- The Fidelity linker is not quite idempotent: a marker that was ambiguous
  becomes unique when a later run has linked or tagged its other candidates.
- REFRESH_COMPLETE is queued by reference (`events.py:43`) and serialised when a
  client reads it (`routers/refresh.py:164`). After a session timeout two clients
  may therefore be told different things of one session: "timeout", or the
  verdict the left-behind thread writes later beside the error text of the
  timeout. Each is true at the time it is sent (`ReportIsTrue`).
- An institution in the queue of a session is begun although another session, left
  behind by a timeout, has failed it meanwhile and started its cooldown:
  `next_eligible` is compared once, at the start
  (`refresh_orchestrator.py:203-252`), and `_run_institution` reads the failure
  count only (599-601). `RetriesKeepDistance` excepts it (`excused`).
- A trade confirmation uploaded by hand is booked whether the connector has booked
  it or not, and the commit of a document may be repeated, or run twice at a time
  (nothing looks at `committed_at`): the trade then has two rows. `ConfirmedOnce`
  excepts uploaded confirmations and overlapping runs; TLC finds both.
- `parser.commit` chooses the row to upgrade outside a transaction and updates it
  by id alone (`acorns_confirmation.py:190-215`, `acorns_statement.py:225-252`). Of
  two commits that choose one share count the later takes the row of the earlier,
  whose trade is then missing, although its document is marked as committed.
  `CommittedIsBooked` excepts such trades (`lost`); TLC finds one. The share count
  is put right by a later delta (`TotalsSettle`).
- Share counts of overlapping runs may be logged the other way round: the count is
  taken in phase 3, the row gets the time of phase 1. A later run corrects it.

## 7. Not modelled

`PROJECT.json` lists every component with its reason. In short:

- Reporting, parsing, categorisation and calculation are data without control of
  their own: sums, dates and text over what the modelled parts have stored.
- Connectors act on sites outside the repository. What they do to shared state
  is modelled: the MFA waits, the Acorns watermark and ledger, the commit of
  their results. The broker is another process, seen only through what it
  returns; Chrome is a window all sessions share, whose pages no module has.
- The other steps of the post-commit pipeline (derived metrics, goals, alerts,
  notifications) are not modelled; each commits or fails on its own.
- The credential action bridge has control worth modelling and is planned.
- Across modules: `RefreshSession` takes staleness as any set of institutions
  and `RefreshSchedule` takes a session as its decisions and writes, so that the
  clock and the interleavings of one session are not explored together. The two
  meet in `Due` and in the failure count.

## 8. Plan

1. `RefreshSession`, `RefreshLedger`: the core. *Done*: its safety properties and
   the refinement are proved.
2. `MfaBridge`. *Done*, with its safety properties proved.
3. `EventBus`. *Done*, with its safety properties proved.
4. `RefreshSchedule`. *Done*, with its safety properties proved.
5. `TransferTags`. *Done*, with all its properties proved. Left: edits of
   descriptions and categories between two runs.
6. `TxnStore`. *Done*, with all its properties proved. Left: identities given by
   the bank.
7. `AcornsLedger`: confirmations, share counts, uploaded documents. *Done*, with
   its safety properties proved. Left: sales and splits, `ingest_document`.
8. `CredentialActionBridge` with an abstract specification it shares with
   `MfaBridge` ("a question is answered at most once, by an answer to it").
9. `PostCommit`: goals, alerts and notifications beside request handlers.
