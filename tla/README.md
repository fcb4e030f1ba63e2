# PassCheck in TLA+

PassCheck takes what payment gateways say they have paid out to a merchant,
takes what the merchant's bank says has arrived, and links the two. This
directory holds specifications of the parts of the program in which that can go
wrong, the TLC configurations that check them on small instances, and proofs,
checked by TLAPS, that some of them hold for instances of every size. Paths and
line numbers are those of the repository (`src/...`); `PROJECT.json` maps each
definition to the lines it models.

## The system

| Component | State | Operations | Interacts with |
|---|---|---|---|
| Reconciliation engine (`internal/reconciliation`) | one transaction per call; `reconciled_matches`, `vendor_transactions.recon_status` | `RunDailyReconciliation` | called by `POST /reconcile` and by the webhook goroutine; reads what the two feeds write |
| Vendor sync (`internal/vendors`) | one transaction per call; `vendor_transactions` | `SyncVendorData`, `FetchSettlements` of Razorpay and PhonePe | called by the pipeline, twice per merchant; asks the gateways |
| Account Aggregator feed (`internal/setu/aa_*.go`, `internal/webhooks`, `internal/cron`, routes in `cmd/api/main.go`) | `aa_consents`, `aa_data_sessions`, `bank_transactions`; consents and sessions at Setu; a goroutine per webhook | `POST /consent/initiate`, `POST /data/fetch`, `processMerchant`, `POST /webhooks/setu`, `FetchSessionData` | messages from Setu; starts the engine |
| Setu client (`internal/setu/auth.go`, `client.go`, `kyc.go`) | token, expiry and mutex, one set per client | `GetToken`, `makeVerificationRequest` | every call to Setu goes through it |
| Merchant onboarding (`cmd/api/main.go:101-214`) | `merchants`, `merchant_bank_accounts` | `POST /onboard/pan`, `gst`, `bank` | Setu's KYC services |
| Scheduler and pipeline (`cmd/api/main.go:433-449`, `internal/cron`) | none that survives a restart | the 2:00 loop, `RunDailyPipeline`, `POST /admin/trigger-pipeline` | starts a goroutine per merchant |
| Fetch window (`internal/cron/daily_recon.go:82-91`) | none | the day, clamped to the consent | used by `processMerchant` |
| Dashboard, demo seeder (`internal/demo`) | none / `vendor_transactions` | reads; single INSERTs | the same tables |
| Schema, pool, HTTP server, row types, pages, scratch scripts | | | |

Components do not coordinate. They meet in PostgreSQL
(READ COMMITTED, the default, for the two that open transactions) and in the
webhook goroutine, which stores a session and would then call the engine. With the
tables of `migrations/001` it never does: the SELECT before the call names a column
that is not there (finding 3), and what goroutines have stored waits for
`POST /reconcile`. `Settlement` is about both ways to the engine.

What makes this hard:

* Any number of engine runs and syncs overlap, of one merchant or of several;
  nothing in the program keeps them apart. What does is the unique keys of the
  schema, with the waits, failures and deadlocks that come with them.
* The code logs a failed statement and goes on, inside a transaction that
  PostgreSQL has by then aborted.
* Setu and the tables learn of each other's changes by messages that may be
  early, late, repeated or out of order. An answer may be lost, and the process
  may stop at any point with goroutines under way.
* A token is used some time after it was looked at.
* Days of 23 and 25 hours, sleeps that end late, and restarts in a loop that
  remembers nothing.
* A handler asks Setu, which acts, and executes its statement later.

What makes each component correct:

* engine: no row is settled twice; `recon_status` and the links agree; a run
  that succeeds has done all it could; what it reports is what it did; runs never
  wait for each other in a cycle that nobody breaks, and each ends;
* sync: what a successful call fetched is stored, once; calls never wait for each
  other in a cycle, and each ends;
* bank feed: the tables say nothing Setu has not; rows are not multiplied beyond
  deliveries; what is announced as complete is eventually stored;
* feed and engine together: a call of the engine settles what it finds unless it
  loses to another that does; a payout is settled only by money that Setu has
  reported, and a transaction that is stored repeatedly pays for no more payouts
  than deliveries have found it;
* token cache: a cached token is good for the request it is used in; nobody logs
  in for nothing; the mutex is always given back;
* onboarding: one merchant per phone number and PAN; a number marked as verified
  has been; what a client was told is stored; every penny drop is accounted for;
* scheduler: no day is missed that the process was there for, none is worked for
  twice by it, and Setu is asked for the day and not beyond the consent;
* dashboard and seeders: what is shown is explained by an engine that settles
  meanwhile; a row made for a bank row can be settled with it.

## The modules

**`Ledger`** is the abstract specification of the engine: vendor rows wait, bank
rows are free, and a settlement links a set of pairs of them, with equal UTR and
amount, in one step and for good. README.md:35 calls the result "an immutable
link between the vendor record and the bank record".

**`Reconciliation`** is `engine.go` against its tables. `reconStatus`,
`bankTxns` and `matches` are the committed tables; for each run, `pc`, `todo`
(the rest of `unmatchedTxns`), `cur` (the pair being inserted), `pending` (what
its transaction has inserted), `matchedCount`, and `result`/`reported` (what the
call returned). `view` is a history variable. The writers of the tables are two
actions, `SyncCommit` (a batch, `sync.go:64`) and `IngestBank` (one row at a
time, `aa_session.go:110`).

| Action | Code |
|---|---|
| `QueryUnmatched` | begin and the list, lines 16-50 |
| `FindBankTxn` | the loop's next row, any of its candidates or none, lines 53-66 |
| `InsertVendorKey`, `InsertBankKey` | the INSERT at line 69, which enters two unique indexes one after the other and may stop at either; the UPDATE and the counter follow the second |
| `Commit`, `CommitUnacknowledged`, `CommitFails` | lines 92-97, with its answer, without it, and of an aborted transaction |
| `Disconnect`, `Crash` | refusal or loss of the connection; death of the process |
| `DeadlockVictim` | PostgreSQL's deadlock detector |

An INSERT of a key that an open transaction holds waits (`WaitsFor`) until that
transaction ends, then fails or goes on. A failed statement aborts the
transaction (`Abort`); the later statements of the loop fail too and change
nothing, so they are not steps of their own.

**`VendorSync`** is `sync.go` and the two providers, under one integration. The
gateway lists settlements in the order they were made; the lines of each are
fetched by a request of their own, which may fail and be skipped
(`FetchRecon`); PhonePe's rows are the mock's, with ids made of the clock
(`MockId`), which is read once for each (`FetchMock`, `AppendMock`), so that the two
rows of a call may be of different seconds. `Insert` models `ON CONFLICT DO NOTHING`, which waits for an open
transaction that has the key and passes over the row if that one commits.

**`Statement`** is the abstract specification of the feed: Setu offers
transactions, a delivery takes up some of them once, puts each into the table at
most once or loses it, and the engine is shown what is in the table.
**`BankFeed`**, which implements it, is the Account Aggregator side: the consents and sessions at Setu
(`consent`, `session`), their rows (`consentRow`, `sessionRow`), the deliveries
still to come (`webhooks`), and the goroutine of each delivery (`job`, `left`).
`HasMerchantColumn` says whether `aa_data_sessions` is as the Go code needs it
or as the migration makes it. `Faults` says which of crashes, lost answers and
failed calls may happen. The engine is here one step, `TriggerReconciliation`,
that records in `seen` what it was called with. The theorems hold for either value of
`HasMerchantColumn`; which one a run has is said with the runs.

**`AuthCache`** is `GetToken` and the request that uses its result. A token is
known by the instant until which Setu accepts it. `since` is the `now` of
`auth.go:136`, read before the login, and then the instant the token was
obtained; `Tick` lets time pass, but not beyond the time-out of the HTTP client.

**`Settlement`** composes the bank feed and the engine: it EXTENDS `BankFeed` and
INSTANCEs `Reconciliation` with the goroutines of the webhooks and the requests of
`POST /reconcile` as its runs and the copies that `stored` counts as its bank rows.
`Store`, `CallEngine` and `EngineStep` are the goroutine's three stages
(`aa_session.go:106-122`, `setu_webhook.go:92-99`, `engine.go:53-97`); `CallEngine` is
`TriggerReconciliation` of the feed and, if the session has a merchant,
`QueryUnmatched` of the engine in one step. `Reconcile` is a request
(`main.go:331-353`). Under the migration's tables, which the run has, no session has
a merchant and all calls of the engine are requests; the branch in which a goroutine
calls it is reached by the theorems, which are for either schema, and by no run.
Faults are left to the two modules by themselves; collisions on unique keys
and deadlocks are not faults and do happen here. `SettlementAssumption` says
that, and that the rows of the two tables are not the same things and the
vendor's finitely many.

**`Registry`** is the abstract specification of onboarding: numbers are attested,
merchants enrolled once under identities no other has, GSTINs set, and marks of
verification follow what was attested. **`Onboarding`** is the three routes. A
request is `idle`, then holds Setu's answer (`save`, the answer in `said`), then
has been answered. `attested` and `drops` are what Setu has said and started;
`merchants`, `panStatus`, `gstRow` and `accounts` are the two tables.

| Action | Code |
|---|---|
| `VerifyPAN`, `VerifyGST`, `InitiateRPD` | the call to Setu, with its answer, without it, or failed before it had an effect (`kyc.go:30-149`) |
| `InsertMerchant`, `UpdateGst`, `InsertAccount` | the statement, refused by a unique or a foreign key when its guard does not hold, and its answer, which may be lost (`main.go:119-139`, `160-178`, `199-213`) |
| `StatementFails`, `Crash` | refusal or loss of the statement; death of the process |

**`Scheduler`** is the loop of `main.go:433-449`, the trigger route, the goroutine
per merchant and `Window`, the clamp of `daily_recon.go:82-91`. `loop` is where
the loop is: at the `top` when the process has begun, `again` when it has just run
a pipeline, in its `sleep`, or `down`. An instant is a number; `Midnight` and
`TwoOClock` are the calendar, any calendar with days of 23, 24 and 25 hours.
`launches` is a history of the pipelines that the loop has run.

**`Demo`** is the seeders and the dashboard over the vendor rows, with an engine
that settles any set of pairs at once, which is what `Refinement` says a run of it
amounts to. A seeder reads free bank rows (`Pick`) and writes its rows one by one
later (`InsertMock`); the dashboard reads twice (`Aggregate`, `ListPending`).

The modules `MC...` give the constants their
values. An operator whose comment begins "Mutant of" is a way the code could
plausibly be wrong; none of them is used by a specification. Each exists so that
the property it is paired with in `PROJECT.json` can be seen to fail.

## The runs

| Run | Instance | Shows |
|---|---|---|
| `reconciliation_refines_ledger` | 2 runs of one merchant; 3 vendor rows, 2 of one key, 2 bank rows, all faults | `TypeOK`, `LedgerOneToOne`, `StatusMatchesLedger`, `Claims`, `RefinesLedger`, `Exhaustive`, `ReportsWhatItDid`, `SomeoneGoesOn`, `RunsEnd` |
| `reconciliation_cross_merchant` | 2 merchants | finding, below |
| `vendor_sync` | 2 Razorpay calls and 1 PhonePe call, 2 settlements with 2 lines each, 2 seconds, a call within one or across both | `TypeOK`, `SuccessIsStored`, `KeysHeldOnce`, `SomeoneInserts`, `CallsEnd` |
| `partial_sync` | 1 call | finding |
| `bank_feed` | 1 consent, 2 sessions with the same contents, all faults; `aa_data_sessions` with the column the Go code names, which the migration lacks | `TypeOK`, `TablesFollowSetu`, `OneRowPerDelivery`, `RefinesStatement` |
| `bank_feed_schema` | 1 session; `aa_data_sessions` of the migration | finding |
| `bank_feed_revoked` | 2 consents, 1 session | finding |
| `settlement` | tables of the migration; 1 consent, 1 session announced as PARTIAL, COMPLETED or both, 1 transaction, 2 vendor rows of its key, 2 calls of `POST /reconcile`, no faults | `FailureHasAWinner`, `PaidByTheBank`, `SpentPerDelivery`, `CallsSettle`, `AnnouncedIsStored`, `ApprovedBecomesActive` |
| `auth_cache` | 2 calls; lives 2 and 6, all the 15 s constants 2, default life 6 | `TypeOK`, `RejectedOnlyIfShortLived`, `LoginIsNeeded`, `CallsEnd` |
| `onboarding` | 3 PAN requests, one a repetition; 2 GST requests with one GSTIN; 1 penny drop | `TypeOK`, `OkIsStored`, `DropsAreAccountedFor`, `RefinesRegistry` |
| `scheduler` | 5 days, one of 25 hours and one of 23; sleeps an hour late; 1 trigger, 1 restart | `TypeOK`, `NoDayIsSkipped`, `TwiceOnlyAtALongDay`, `WindowIsTheDay` |
| `demo` | 2 calls of the seeders, 3 bank rows, two of them copies, UTRs with one ending | `TypeOK`, `DashboardIsExplained`, `SeededCanSettle` |

Why the bounds are enough. The engine's collisions are between two runs over one
key or, for a deadlock, over two. Three vendor rows for two bank rows leave one
without a partner, and the two of one key can be paired either way, so that a
collision is between rows that could be paired otherwise; the third has a key of
its own under which the runs can hold one row each and wait for the other. More
runs, and cycles of three, are covered by the theorems but for `RunsEnd`. Two
syncs of four lines make each the holder and the waiter in turn, and the PhonePe
call's transaction is independent of both; two seconds suffice for ids to differ
or coincide. Two sessions with the same contents, one of
which has all of them and one nothing when it is PARTIAL, give duplicates by overlap
and by PARTIAL before COMPLETED in `bank_feed`. In `settlement` one session is
announced in part and in full, and two goroutines store a copy each while two calls
of the engine run over what is there so far. The two payouts are of the key of the
one transaction, so that it pays for both when it is stored twice and for one when it
is stored once, and the calls compete for both rows of either table. No run delivers
one and the same webhook twice: `MaxDeliveries` is 1 in them for size, PARTIAL and
COMPLETED stand in for it, since their goroutines do what those of a repetition
would, and the theorems are for any number. Two calls
are a holder of the mutex and a waiter; with the life of 6 the second can find a
cached token on either side of its expiry, and with 2 a new token can be too old
on arrival. A PAN request, its repetition and a stranger are what a unique key
can tell apart. There is one bank request in `onboarding`, as a second takes the run
past its time: that ids of penny drops are distinct, and an empty one stored once
only, is shown by `DropsAccounted` for any number of them and by no run. Five days
have a day of each length with an ordinary one before or after it, and the two of the last nights that `TwiceOnlyAtALongDay` is strict about.
`MaxNow`, `MaxDeliveries`, `MaxGoroutines`, `MaxClock`, `LastDay`, `MaxTriggers` and
`MaxCrashes` are the only bounds in the modules; time in `AuthCache` goes on past
`MaxClock` until the requests under way have ended.

No symmetry is used. Deadlock is checked in the runs of `Reconciliation`,
`VendorSync` and `AuthCache`; a `Quiesced` step stands for the end, when nothing is
left to store and every call has ended. It is not checked in the others, where a
finite set of consents, requests or days is simply used up.

### Fairness

* `Reconciliation`: a call that has begun keeps executing (a goroutine in a
  loop, weak fairness per run), and the database resolves deadlocks
  (`deadlock_timeout`). Arrival of rows, the start of calls and faults are not
  fair.
* `VendorSync`: a call that has begun keeps executing.
* `BankFeed`: the server continues what it has begun, and Setu delivers what it
  has announced. Nobody is obliged to approve, open or collect anything. There
  are finitely many such steps, so weak fairness of each group is enough.
* `Settlement`: the same, and what the engine does for a call is among what the
  server continues; one weak fairness for all of it, as no step of it can be taken
  forever. When a batch of the vendor sync is committed is left open, and whether
  anyone calls `POST /reconcile`: nothing in the program does.
* `AuthCache`: time passes, goroutines run, `sync.Mutex` starves none of them
  (strong fairness of `Lock`), and the HTTP client ends an exchange when its
  time-out is over. Setu need never answer.

### Findings

Each is a run in which TLC finds a behaviour that contradicts a sentence of the
repository.

1. `reconciliation_cross_merchant`: `engine.go:57` looks for a bank row among
   those of all merchants; README.md:84 says "for the specific merchant". The
   PhonePe mock gives every merchant the same UTRs and amounts.
2. `partial_sync`: a settlement whose lines cannot be fetched is skipped
   (`razorpay/client.go:107-117`) and the sync succeeds; README.md:73 says "all
   payouts".
3. `bank_feed_schema`: the INSERT of `daily_recon.go:105` and the SELECT of
   `setu_webhook.go:92` name a column the migration does not have, so a session
   of the pipeline never reaches the engine; `daily_recon.go:116` says it does.
4. `bank_feed_revoked`: REVOKED is ignored, and the next session may be opened
   under the revoked consent though another is active; README.md:76 says "using
   the active AA consent".

Not checked, as no order of steps is involved: debits are stored like credits
(`aa_session.go:110`), though README.md:82 says "only `CREDIT` transactions".

## The proofs

`ReconciliationProofs` proves, for any sets of rows, merchants and runs that
satisfy `RowsAssumption`:

* `TypeCorrect`, `LedgerSound`, `StatusSound`, `ClaimsSound`: the invariants of
  the engine;
* `Refinement`: `Spec => L!Spec`, the engine implements `Ledger`.

That the ledger is one-to-one after a COMMIT does not follow from its being so
before. It needs `Claims`: the links of an open transaction agree with each
other, with the table and with those of every other open transaction, because a
key enters `pending` (or `cur`, between the two indexes) only when no one else
holds it. `Claims` in turn needs `CursorOk`: the row being linked is not on the
list nor among those linked, and the bank row was found outside the
transaction's own links. `IInv` is the conjunction with the types, and is
inductive. The steps that end a transaction without publishing it are alike and
share one lemma (`ReleaseLedger`); `PublishLedger` is the COMMIT, where `Claims`
is spent. For the refinement, `PublishSettles` shows a COMMIT to be one `Settle`
of the run's links, and every other step stutters or is `Expect` or `Receive`.

On `IInv` rest three more results of the same module.

* `Reports`: `matchedCount` is the number of links of the transaction
  (`CountOk`), because a link that is added is new to it; and a COMMIT adds as
  many rows to the table (`CommitAdds`), because by `Claims` none of them is
  there yet.
* `LeavesNothing`: at every moment a row of the list is still to come, being
  linked, linked, or without a free bank row among those the run could see
  (`Scanned`). Rows do not leave the last two states, as links are only added
  while the transaction lives, so at the COMMIT every row is in one of them.
* `NoneIsStuck`: when runs are under way, one of them can take a step without
  waiting or is on a cycle of waits, which the deadlock detector breaks; the
  further hypothesis is that there are finitely many runs. Take the smallest set of
  open runs that holds whatever its members wait for (`SmallestSet`): if none can go
  on, then each of them is waited for by each through the others, and that is a
  cycle (`Awaited`, `AwaitedIsClosed`). It is the part of `RunsEnd` that is not
  about fairness.

`VendorSyncProofs` proves, for any settlements, lines and calls of any number,
`TypeCorrect`, `SuccessStored` and `HeldOnce`, from `GatewayAssumption`. The three
invariants and `BatchOk`, that a row fetched is inserted, in the table or still to
come, are inductive together. They rest on `WantedLines`: the loop of
`client.go:129-145`, which is a recursive function over the lines of a settlement,
gives a sequence of all its payments and refunds and of nothing else. Induction
proper is beyond the prover, so the proof takes the least length at which the claim
would fail.

`NoCycleOfWaits`, of the same module, is that syncs never deadlock: among calls that
insert, one has a key that no other holds. It needs `OrderInv` besides: the list of
a call has no repetitions, and the keys it holds and then those it has still to
insert are in the order of the gateway's listing, the ids of the sandbox before
them (`Before`, a strict order by `BeforeIsAnOrder`). Of the calls whose next key
is last in the order, none can wait, since what the holder has still to insert
would come later yet. `KeysAssumption`, which no other theorem uses, says that a
payment or refund is a line of one settlement and once, that ids of the sandbox are
not lines, and that there are finitely many calls. The theorem is the reason why
`VendorSync` needs no deadlock detector; what it takes for granted is that the
gateway lists settlements in one order.

`AuthCacheProofs` proves, for any number of calls and any lives and durations
that satisfy `CacheAssumption`, `TypeCorrect`, `CachedTokenIsAccepted` and
`NoNeedlessLogin`. The assumption that matters is `Reach <= Grace`: a request
takes no longer to arrive than the buffer is long. The code uses 15 s for both
(`auth.go:150`, `client.go:24`). The invariant keeps account of how much of a
token is left since it was obtained (`CacheOk`, `IssuedOk`, `RequestOk`); that
no one else stores a token during a login is `MutexOk`.

`OnboardingProofs` proves, for any requests that satisfy `RequestAssumption`,
`TypeCorrect`, `AnswersAreTrue`, `DropsAccounted` and `Refinement`. A handler holds
nothing between Setu's answer and its statement, so the invariant says of each
request by itself where its answer came from (`SaidOk`) and that a row was written
by a request that has ended (`RowsOk`); that rows do not clash is what the unique
keys see to (`KeysOk`). The refinement needs the first: a mark of verification is
put where it is because of an attestation made earlier and still on record.

`BankFeedProofs` proves, for any consents, sessions, contents, faults and number of
deliveries that satisfy `FeedAssumption`, `TypeCorrect`, `TablesTrue`, `RowsBounded`
and `Refinement`. All of it rests on Setu's telling of nothing that is not so: a
webhook that is still to come (`MessagesOk`), or that has started a goroutine
(`JobsOk`), is about a state the session has reached, and what a session has it
keeps. `JobsOk` says besides that the goroutine of a number is started once, because
the deliveries still to come are those of lower numbers. That a transaction has no
more rows than deliveries is a matter of counting the goroutines that are done with
it (`CountOk`): each INSERT adds its goroutine to them, and no step takes one away.

`DemoProofs` proves, for any bank rows, UTRs and calls of the seeders,
`TypeCorrect`, `Explained` and `CanSettle`. A seeder uses a bank row long after it
has read it; what it may rely on is that the row is still there and that the id it
has made says which UTR and which seeder it is of (`MadeFor`).

`SchedulerProofs` proves, for any calendar that satisfies `CalendarAssumption` and
`DaysAssumption`, with sleeps up to 19 hours late and any number of restarts and
triggers, `TypeCorrect`, `NoneSkipped`, `TwiceAtLongDays` and `WindowsAreDays`.
Neither of the middle two is inductive. Of a day that has not been worked for one
must know that the loop wakes before it is over (`NotMissed`, with `SleepOk`: a
sleep is for a 2:00 or for 24 hours after one); and of a day that has, that the
loop then sleeps past its end (`Spaced`). What makes both true is in
`CalendarIs`: after 2:00 between 21 and 23 hours of a day are left, and at most 22
of one that has not 25.

`SettlementProofs` proves of the composition, for any consents, sessions,
transactions, payouts, batches and requests that satisfy `FeedAssumption` and
`SettlementAssumption` and for either value of `HasMerchantColumn`, that it is a feed and that it is an engine, and what follows.

* `FeedRefinement`: `SystemSpec => Spec` of `BankFeed`. `FeedStaysSound` carries the
  feed's theorems over: `TypeOK`, `TablesFollowSetu`, `OneRowPerDelivery`, `Statement`.
* `EngineRefinement`: `SystemSpec => Eng!Spec`. To the engine a row that a goroutine
  stores is a new one of a fixed set. That it is in the set is not the engine's
  business nor the feed's: the feed stores at most one row of a transaction per
  goroutine (`CountOk`), and the system starts no more than `MaxGoroutines` of those
  (`RoomOk`). With the invariants of both modules this makes `SystemInv`.
  `LedgerStaysSound` and `LedgerRefinement` carry the engine's theorems over; to use
  its lemmas and not only its theorems, the proofs of the engine are instantiated with
  the substitutions of `Eng` (`EngP`).
* `WinnerExists`, `PaymentIsReal` and `SpendingIsBounded` are about both at once.
  That another call has committed when one has failed follows from the engine's
  `Winner`: an error that is not the environment's has a culprit, which is open or has
  committed. A link agrees in key with a row that exists by the engine's
  invariants, and the row is of a transaction that Setu offers by the feed's. Links
  spend distinct copies of a transaction, of which there is one per delivery that
  found it.

Only model-checked: the liveness properties `RunsEnd`, `CallsEnd` (of `VendorSync` and
of `AuthCache`), `CallsSettle`, `AnnouncedIsStored` and `ApprovedBecomesActive`, which
need fairness and ENABLED and are beyond the prover, and the absence of deadlock in
TLC's sense. `SomeoneGoesOn` and `SomeoneInserts` are
the safety half of the first two, and are proved. Every invariant and every action
property of the passing runs is stated by a theorem, and so is every refinement, of the steps and
initial states of the abstract specification; those have no fairness.

## What the models leave out

* Amounts, UTRs, ids and dates are opaque. Conversions between paise, rupees,
  `float64` and `DECIMAL` do not appear; keys are compared for equality only.
* PostgreSQL is assumed to do what its documentation says of READ COMMITTED,
  unique indexes, `ON CONFLICT`, aborted transactions and deadlocks.
* The engine lists and searches in any order, as SQL without ORDER BY may.
  In `VendorSync` every call gets the settlements in the same order. That is an
  assumption about the gateway, and `CallsEnd` and `NoCycleOfWaits` need it: with
  differing orders two syncs could deadlock, PostgreSQL would cancel one, and the
  model has no such step. With one order they cannot, which is the theorem.
* That Setu withdraws a token before its time (`kyc.go:68` would not notice).
* Debits and credits are not told apart, as in the code that stores and links
  them; the list of the seeders has the credits.
* In `Settlement` nothing fails: that a failure loses the data of a session for
  good (`setu_webhook.go:85-88`) is known and contradicts nothing.
* In `Scheduler` the work of a pipeline takes no time of the loop and a goroutine
  less than an hour; dates are days of the server's time zone, also the one that
  the trigger route parses as UTC (`main.go:371`).
* A bank account is chosen arbitrarily (`aa_session.go:89`); owners of bank rows
  are arbitrary in `Reconciliation`.
* Components listed in `PROJECT.json` as not modelled, each with its reason.

## Not modelled

* `database/db.go`: configuration of the pool. Every handler and goroutine holds one
  connection at a time, so the bound of 10 delays them and makes no cycle.
* Routing, middleware, the health check and graceful shutdown: to the models a
  shutdown is `Crash`, because goroutines are not waited for.
* `models/models.go` declares structs that no code uses to decide anything;
  `scratch/` and `public/` are scripts and pages beside the service.
* Of the modelled components: authentication headers and checksums, the conversion
  of amounts, the goroutine that fetches a consent's artefact and logs it, and
  `/demo/config`, which only reads.

## Plan

Written, in this order: `Ledger`, `Reconciliation` and its proofs, `VendorSync`,
`BankFeed`, `AuthCache` and its proofs; then `Settlement`, `Registry`, `Onboarding`,
`Scheduler`, `Demo`, `Statement` and the proofs of `Onboarding`, `Scheduler`,
`BankFeed` and `Demo`; then the proofs of `VendorSync` and of `Settlement`. The order
follows the damage a fault does: a wrong link is permanent, a missing row is found by
the next sync, a late session by the next day, a rejected token by a retry.

Left, if the code moves there: a deadlock step in `VendorSync`, should the gateway's
order turn out to vary, and the faults of `Settlement`, which lose a session's data
for good and would weaken `WinnerExists` to the calls that no fault has touched.
