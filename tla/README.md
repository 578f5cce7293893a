# A verification project for the order and exchange services

TLA+ modules, TLC runs and TLAPS proofs about the five Go services of this
repository. Every definition is translated from the code under `src/`;
`PROJECT.json` gives, for each, the lines it stands for.

## 1. The system

| Component | State it keeps | Operations | Talks to |
|---|---|---|---|
| orders service (`services/orders/internal/app/app.go`) | tables `orders`, `outbox`, `order_activity` | `POST /orders`: three inserts in one transaction; `GET /orders/{id}`: one query | PostgreSQL |
| outbox dispatcher (`outbox.go`) | `outbox.published_at` | every 100 ms: select the first unpublished row `FOR UPDATE SKIP LOCKED`, publish, mark, commit | PostgreSQL, JetStream |
| event bus (`pkg/runtime/bus.go`, `pkg/events`) | stream `ORDERS`, durable consumers `pricing-v1` and `settlement-v1`, a health flag per process | `Publish` (message ID, two-minute deduplication), `Subscribe` (explicit ack, AckWait 15 s, `MaxAckPending(1)`), `Consume` (fetch, handle, nak or ack) | NATS JetStream |
| pricing worker (`services/pricing/internal/app/app.go`) | none | consume `orders.created`, look up a price, publish `price.resolved` or `price.failed` | JetStream, price client |
| price client (`exchange.go`, `http.go`) | none | bounded retries with backoff; parse; `GET /prices/{asset}` | three exchanges |
| settlement worker (`services/settlement/internal/app/app.go`) | `orders.status`, `settlements`, `order_activity` | `settle`: one transaction under the order's row lock | PostgreSQL, JetStream |
| exchange service, withdrawals (`services/exchange/internal/app/withdrawal.go`) | `cex_withdrawals`, the tokens of `cex_accounts` | `POST .../withdrawals`: one transaction under the account's row lock, open across the token refresh and the send | PostgreSQL, Coinbase |
| exchange service, connection (`oauth.go`, `store.go`) | `cex_oauth_sessions`, `cex_accounts`, `cex_balances` | create an authorization URL; consume the state, exchange the code, list accounts, store the connection | PostgreSQL, Coinbase |
| exchange service, valuation (`balance.go`) | none | read the snapshot, price each asset | PostgreSQL, pricing service |
| Coinbase client (`coinbase.go`, `provider.go`) | none | token exchange and refresh, user, accounts (paged, retried), send (never retried) | Coinbase |
| gateway (`services/gateway/internal/app/app.go`) | none | reverse proxy with a three-second limit | orders, exchange |
| migration job (`services/orders/cmd/migrate/main.go`) | `schema_migrations` | apply each file once, in a transaction, under an advisory lock | PostgreSQL |
| runtime, configuration, cryptography | none | server start and stop, probes, environment, AES-GCM, PKCE, hashes | |

**What is hard.** Nothing in the order path is exactly once: the dispatcher
may publish and then fail to mark, a publish may be stored although its
confirmation is lost, AckWait may run out under a slow worker, an
acknowledgement may be lost, a rolling update runs two pods of every service,
and producers may publish duplicate events under fresh identifiers. The code
answers with a transactional outbox, `MaxAckPending(1)`, a row lock and
permanent keys. The publishes and acknowledgements of a worker have no deadline of
their own (`bus.go:58`, `bus.go:112`), so a lost reply can stop it for good. In the withdrawal path a transaction stays open
across calls to a provider that moves money, and a request can be cut off between
any two steps. The migration job is restarted by Kubernetes and overlaps with
another release's; its session outlives its process. Numbers pass through texts,
durations and columns of limited width.

**What makes the components correct.**

* Orders: no event without its order; an open order always has something left
  that moves it; it concludes once, with the first quote, for good, and the
  audit trail tells exactly that; a reader never sees an intermediate state; a
  message is acknowledged only after its effect is durable; once faults stop
  every order concludes, unless all workers of a service it needs wait for a
  lost reply.
* Withdrawals: one business request per idempotency key reaches Coinbase; a
  final row is never reopened or sent again; an accepted answer is a transfer
  made; a transfer made has a row; rotated tokens are kept; every request ends.
* Connection: a state is used once, and who presents it in vain is told why; the stored tokens and balances belong to
  one flow; a stored snapshot is whole, although wallets are opened while its
  pages are read.
* Worker: no message is passed over without its effect; one that cannot be
  decoded, a pod that dies or one that waits for a lost reply does not hold up
  the others; a shutdown ends; a pod becomes ready again.
* Migration: each file is applied at most once, on top of the files its release
  shipped before it, and recorded exactly if applied; success means migrated.
* Price client: bounded attempts and waits, at least as long as asked; a lookup
  that a shutdown cuts off decides nothing. Amounts: what validation lets through
  the columns hold exactly; what a client spells differently is the same amount.

`PROJECT.json` lists the hazards at their lines with the properties that catch
them. Two have none. A client that retries `POST /orders` after a lost answer
creates a second order, as there is no idempotency key to tell them apart; and
two idems may each be checked against a snapshot that no withdrawal reduces, a
pre-check after which Coinbase decides. Nothing in the repository promises more
of either.

## 2. Modules

| Module | Contents | State |
|---|---|---|
| `OrderLifecycle` | abstract order book: an order is accepted, then concluded once | done |
| `OrderPipeline` | orders, dispatcher, JetStream, pricing worker, settlement worker composed; implements `OrderLifecycle` | done |
| `MCOrderPipeline` | symmetry for its TLC instances | done |
| `OrderPipelineProofs` | type correctness, the inductive invariant, the safety theorems, the audit trail, the refinement | done |
| `Worker` | the life of a consuming pod: `Consume`, `Serve` and the shutdown, with the durable consumer on the server; implements `Delivery` | done |
| `Delivery` | abstract consumer: each message once, in order | done |
| `WorkerProofs` | type correctness, nothing passed over, the refinement | done |
| `PriceLookup`, `MCPriceLookup` | one lookup with its attempts, timed waits and cancellation; Retry-After headers for TLC | done |
| `PriceLookupProofs` | type correctness, the time bound, the waits, what a cut lookup says | done |
| `Amounts`, `MCAmounts` | amounts and prices from the patterns to the numeric columns | done |
| `TransferLedger` | abstract ledger: what an idempotency key is asked for, and what its entry says of the transfer | done |
| `Withdrawals`, `MCWithdrawals` | withdrawals of one account, token refresh, 2FA, Coinbase as environment; implements `TransferLedger`; wallets and snapshots for TLC | done |
| `WithdrawalsProofs` | type correctness; what the row lock guarantees; what Coinbase receives and does; the refinement | done |
| `Fingerprint`, `MCFingerprint` | how a withdrawal request is told from another of the same idem | done |
| `DecimalsProofs` | what a fingerprint tells; what the columns hold: the theorems of `Fingerprint` and of `Amounts`, which rest on the same induction | done |
| `Connection` | OAuth sessions and callbacks of one account, its stored tokens and balances, with the withdrawals and valuations that use them | done |
| `ConnectionProofs` | type correctness, the inductive invariant and the safety theorems | done |
| `CoinbaseReads`, `MCCoinbaseReads` | the user and the pages of wallets that a callback reads, with their retries | done |
| `CoinbaseReadsProofs` | type correctness, whole snapshots, the reasons to give up | done |
| `Migrate`, `MCMigrate` | runs of the migration job, their sessions, the advisory lock; the files of five releases for TLC | done |
| `MigrateProofs` | type correctness and the four safety properties | done |

`OrderPipeline` composes four components in one module because they share two
stores (PostgreSQL rows, the stream) and every property relates several of
them; its actions keep the components apart by prefix: `D` dispatcher, `P`
pricing, `S` settlement.

`Connection` and `Withdrawals` meet in the account's row lock and tokens. Each has
the other reduced to what it sees of it: `Withdrawals` a connection stored at any
time (`Reconnect`), `Connection` a withdrawal that locks, refreshes and commits.
Composed in full they would check nothing more: a withdrawal's row and its
request never meet a session.

Four modules look into a step that another takes as one: `Worker` into the loop and
the server that `OrderPipeline` assumes (its handlers are there in full, in
`Worker` one step), `PriceLookup` into `PLookup`, `CoinbaseReads` into `Fetch` of
`Connection`, `Fingerprint` into the comparison of business requests in
`Withdrawals`. `Amounts` follows the numbers the others leave out.

**Order of work, and what is left.** The order path came first, then withdrawals and
connection, then the worker, the migration job, the lookup and the numbers. Of
what keeps state, nothing is left out (section 13), and every safety and action
property that a run checks is a theorem. What could be taken further is the
composition of `OrderPipeline` with `Worker`, so that `Delivery` replaces the server it
now contains. It is not a mapping step by step: of two stored copies of one event
the second has its effect with the first, while `Delivery` takes one message at a time.

## 3. OrderPipeline

**State.** The tables of `001_orders.sql` are functions on `Orders`: `status`
and `code` (table `orders`), `settlement` (keyed by order, as its primary key
is), `outbox`; `activity` is a set of rows whose `stage` stands for the suffix
of the key (`:price`, `:price:settled`). The stream is two logs, `created` and
`priced`, one per subject filter. A durable consumer is `delivered`, the last
sequence given out, and `ackState`, what became of it: with `MaxAckPending(1)`
this is all the server keeps. Every worker has a `pc` and what it holds in
local variables between two steps.

**Actions.** `Create` is `create`; `DSelect`, `DPublish`, `DMark` are the three
steps of `dispatchOne`; `PFetch`, `PLookup`, `PPublish`, `PAck` are `Consume` with
the pricing handler; `SFetch`, `SLock`, `SCommit`, `SAck` are `Consume` with `settle`,
whose statements under the row lock are one step (`Settle`): nobody sees
between them. `settle`'s outcomes are `AlreadyRecorded`, `RecordOnly`,
`FailOrder` and `SettleOrder`. Each worker has fault actions. A failed statement or
publish, or a commit whose answer is lost, ends in `Nak` (for the dispatcher, whose
three seconds also end a publish, in a rollback). When the answer to a worker's
publish or `AckSync` is lost, whether or not the request arrived, the worker is
*stuck* (`PPublishUnanswered`, `PAckUnanswered`, `SAckUnanswered`): both wait with the
worker's context, which has no deadline. Only `PCrash` and `SCrash`, the end of the pod
and its replacement, free it; they also stand for an `AckSync` that fails with an error. `Nak` and
`AckWait` make the last delivered message due again; `AckWaitOvertakes` does so
while a worker is still busy with it. `Stored` makes deduplication a choice: an
ID already in the stream may be stored again, as after two minutes.
`DuplicateCreated` is what the end-to-end test does (`e2e/support/nats.ts`).

**Abstractions.** Input fields, amounts, correlation identifiers and totals are
left out (`Amounts` has the amounts and totals); a price lookup is one step that
returns any price or any code (`PriceLookup`); retention (24 hours), terminated
events and the shutdown of a pod that waits are `Worker`'s. Order numbers follow the order of the outbox event identifiers,
which is random with respect to creation, so `Create` takes them in any order.

**Bounds.** `MaxFaults` bounds crashes, lost replies, failed requests and
premature redeliveries, in the guard `Fault`; `Copies` bounds the duplicate
events. Everything else is finite by itself in the runs below.

| Run | Instance | Shows |
|---|---|---|
| `pipeline_rolling` | 1 order, one duplicate event, 2 prices, 1 code, 2 pods of each service, 2 faults (1.2 million states) | all safety properties, and `ImplementsLifecycle`. Two faults are enough to leave one worker stuck and have the redelivery to the other overtaken; two prices tell quotes apart; two pods interleave every pair of steps |
| `pipeline_two_orders` | 2 orders, 2 settlement workers, one pod of the others, 2 faults, with fairness (527,000) | `EveryOrderConcludes`: a redelivery of one order never blocks the other. Two faults leave one settlement worker stuck and another message refused, or both stuck, or the only pricing worker |

**Fairness.** Weak fairness of each worker's loop (dispatcher ticker, `Consume`
loop; a restarted pod resumes it) and of the server's AckWait timer; none for
`Create`, `DuplicateCreated`, faults or the restart of a stuck pod, which nothing in
the code brings about: the liveness probe always answers 200. So `EveryOrderConcludes`
excepts an order whose settlement workers are all stuck, or whose pricing workers
are and which has no quote yet; with one replica of each service, that is one lost
reply. A row lock is held by a
worker that is itself fair, so weak fairness of the waiter suffices.
Deadlock checking is off: when every order has concluded, nothing is left to do.

## 4. Withdrawals

**State.** One account. `balances` are the rows of the asset in `cex_balances`,
`expiring` and `stale` what matters of the tokens: about to expire, and whether
the stored refresh token is still the one Coinbase honours. `rows` is
`cex_withdrawals` by idem. A business request is a wallet and an amount (the
destination and network enter the fingerprint the same way). `request` is what
each handler holds; the row lock is held by a handler whose `pc` is `refresh`,
`send` or `commit`. `sent` and `executed` are Coinbase's: what it received, and
the transfer it made, under each idem. `cut` is history: the idems a request of
which was cut off with its send under way or behind it.

**Actions.** `Begin` is a request that passed validation. `Decide` is everything
under the lock up to the first call out, one step as nobody can see between;
its disjuncts are the ways out of it (`Unknown`, `Conflict`, `Replay`,
`Rechallenge`, `Insufficient`, `Proceed`). `Refresh` and `RefreshFails` are
`accessTokenForSend`; `SendAccepted`, `SendChallenged`, `SendRejected` and
`SendUnanswered` the outcomes of `Send`; `Commit` the final update with
`handleSendError`. `CutOff`, enabled at any step, is the deferred rollback: a crash, a failed statement or a cancelled context, for instance when
the gateway gives up. `Reconnect` is `persistConnection`, which needs the same
row lock. Coinbase makes at most one transfer per idem, as the code assumes
(`coinbase.go`, comment of `Send`), and may lose any answer.

| Run | Instance | Shows |
|---|---|---|
| `withdrawals` | 2 handlers, 1 idem, 2 amounts, 3 snapshots (2.7 million states) | no send for a final row, the checked balance stays, whatever is cut off; and of an idem none was cut off behind its send, that answers, rows and tokens agree with what Coinbase received and did; step by step, it is `TransferLedger` |
| `withdrawals_liveness` | 2 handlers, 1 idem, 1 amount, 1 wallet (33,000) | `EveryRequestEnds` |
| `finding_failed_but_sent` | 1 handler | the finding below |

Two handlers meet in every pair of steps; different idems of an account only
meet at the row lock, as two requests of one idem do, and different accounts
share nothing. Two amounts distinguish business requests; the snapshots include
an absent asset, a balance too small and an asset in two wallets. The clients
repeat any request for ever, so no run needs a bound beyond the constants.

**Fairness.** Weak fairness of a handler's own steps (calls have time-outs, the
database answers) and strong fairness of `Decide`: PostgreSQL queues the waiters
of a row lock, so one that keeps finding it free gets it.

**Finding.** `finding_failed_but_sent`: a send without an answer is recorded `FAILED`,
"a genuine provider failure" (`withdrawal.go:248`), although Coinbase may have made
the transfer; a retry is then answered from the row.

**What it implements.** `TransferLedger` has no handlers, lock, tokens or balances: of
each key only its entry (`rows`), what Coinbase was asked for under it (`sent`), the
transfer it made (`executed`), and whether a request was cut off behind its send
(`cut`). A key is asked for one business request, while its entry is open and no
transfer was made; its entry is made final if there is a transfer, says accepted
only then, and is made for good. A request cut off behind its send tears the key,
and then only the last promise is left. A send maps to `Ask` (or, if it does not
reach Coinbase, to nothing), a commit to `Record`, a cut-off behind a send to
`Tear`, every other step to a stutter.

**Where the properties end.** What they except is what the code does not provide.
After a rollback behind a send, the idem is free again, for another amount too,
and the transfer has no row: hence `\ cut` in `OneRequestPerIdem`,
`TransferHasRow` and `AcceptedIsExecuted`. A refresh token rotated before such a
rollback is lost, so `RefreshedTokensKept` speaks of requests that answer. With two
wallets of an asset an identical retry may resolve to the other wallet and be
refused as a conflict (`withdrawal.go:127` has no order), so no property says that it
is replayed; `ReplayOfTheSame` of `Fingerprint` says what a conflict may be.
`RefreshedTokensKept` is not about the loss of hazard `withdrawal.go:286`, which happens;
`StoredIsHonoured` of `Connection` says that it is the only one.

## 5. Connection

**State.** One account; nothing is shared between accounts but code. A *flow* is
what one authorization yields, tokens and a balance snapshot, and is named by
its state. `session` and `expired` are `cex_oauth_sessions`: no row, a row, a row with
`consumed_at`, and whether `expires_at` has passed. `tokens` is the refresh token in
`cex_accounts`, a flow and how often it was rotated; `snapshot` is the flow whose
rows `cex_balances` holds. `exchanged` and `honoured` are Coinbase's: how often it
received the code of a state, and which rotation of a flow it accepts.
`callback`, `sender` and `reader` are the requests in flight. `lost` is history: the
flows a rotated token of which was never stored.

**Actions.** `CreateURL` is `createURL`. A callback begins with any state, issued or
not, and any number of callbacks may present the same one. The `UPDATE ... RETURNING`
is two steps: `StartConsume` reads the clock and the committed row, `ConsumeSession`
commits, and looks at `consumed_at` again if it waited for the row's lock;
`MissSession` is its end without a row, `ClassifySessionMiss` the second query after it, `ExchangeCode` and `ExchangeFails` the token request (sent
once), `Fetch` the reads of user and accounts, `Upsert` and `CommitConnection` the
transaction of `persistConnection`, which waits for the row's lock. Statements may
fail, their answers may be lost (`ConsumeUnanswered`, and an error from
`CommitConnection`), and a callback may be cut off anywhere (`CutOff`). `SLock`,
`SRefresh`, `SRefreshLost`, `SCommit` and `SEnd` are a withdrawal's transaction; `RFind`,
`RRead` a valuation's two queries.

**Abstractions.** States are random, so a fresh one has not been presented;
Coinbase's grants of different flows are independent of each other; the pages and
retries of the reads, which are `CoinbaseReads`'s, end in success or an error; prices and sums are left out. A
flow whose first refresh token is empty is not told apart.

| Run | Instance | Shows |
|---|---|---|
| `connection` | 2 states, 2 callbacks, 2 withdrawals, 1 valuation, `MaxRotations` 1, with fairness (468,000 states) | a code reaches Coinbase once; what a callback without a session is told is true; tokens and balances are of one flow; the stored token is honoured unless an answer was lost; a valuation sees a stored snapshot of an exchanged code; every callback ends |

Two states let one flow replace another; two callbacks present the same state at
once, and two withdrawals would refresh the same token if they did not lock it. `MaxRotations`, in the guard `Rotations`, bounds how often a
token rotates. Larger instances than this one are covered by the proofs.
Withdrawals and valuations repeat for ever.

No document promises, and no property claims, that the connection stored last is
the one authorized last: `persistConnection` of two flows may come in either order.
Nor does "expired" mean that a state was never good: a callback whose `UPDATE` started
in time and has not committed is not seen by another that starts after the expiry,
which is told "expired" while the first goes on to exchange the code. What
`MissExplained` says of "expired" is that the state is past its time and had not
been used when the `UPDATE` missed (`late`, a history of the callback, remembers): the
classification does not blame the clock for what another callback had done.

**Fairness.** Weak fairness of a callback's and a withdrawal's own steps, which are
calls with time-outs, and strong fairness of `Upsert`, which waits in PostgreSQL's
queue of the row lock. None for browsers, `Expire`, `PersistFails` or `CutOff`.

## 6. Worker and Delivery

**State.** On the server, `stored` and `expired` are the stream (its last message,
the last one dropped by its age of 24 hours), `floor` and `out` the durable
consumer: the last message it is done with, and whether the one after it is
undelivered, delivered or due again. Per pod, `main` is where `Run` is, `cancelled`
the worker's context, `worker` where `Consume` is, `holds` its message and
`healthy` the flag that the readiness probe reads. `effects` are the messages whose
effect is durable.

**Actions.** `FetchValid`, `FetchInvalid`, `FetchTimeout`, `FetchFails` and
`FetchCancelled` are the outcomes of a fetch; `Handle`, `HandleFails`, `Ack` and
`AckFails` those of the handler and of `AckSync`; `ReplyLost` leaves the worker
waiting, as neither call has a deadline, until its context ends (`Unstuck`).
`Sigterm`, `ServeFails`, `Drained` and `Exit` are `Serve` and the deferred calls of
`Run`; `Kill` and `Start` are Kubernetes. `AckWait`, `Expire` and `Acked` are the
server: an acknowledgement of the message it waits for counts whoever sends it.

**Refinement.** `Delivery` gives each message a fate: absent, due, done, terminated,
expired. `Worker` implements it: a first effect comes in the order of the stream, a
message that does not decode only costs its turn, none is passed over unless its
age was reached, and then its effect may still come late.

| Run | Instance | Shows |
|---|---|---|
| `worker` | 2 pods, 3 messages, the second invalid, 1 expiry, 3 faults, with fairness (86,000 states) | `PassedHadEffect`, `ImplementsDelivery`, `EveryMessageConcludes`, `EveryShutdownEnds`, `ReadyAgain` |

Three faults leave both pods stuck and one message redelivered, or shut one pod
down while the other loses a reply. `EveryMessageConcludes` excepts the case that
every pod waits for a lost reply, in which nothing moves until a pod is restarted.
`MaxFaults` is in the guard `Fault`, `MaxExpired` in `Expire`.

**Fairness.** Weak fairness of each pod's loop and shutdown, of Kubernetes' restart
and of the AckWait timer where no worker is busy with the message; none for
arrivals, retention and faults. A drain is bounded by eight seconds, so a shutdown
goes on. Deadlock checking is off in the instance as all may be done.

## 7. Migrate

**State.** Per run: `dir`, the files of its image; `client` and `at`, where its process
is; `session`, its PostgreSQL session, a separate actor that may outlive it; `tx`, what
its open transaction did. `lock` is the holder of the advisory lock, `table`
is `schema_migrations`, `applied` what was committed to the schema, in order.

**Actions.** `Connect`, `Start` (or `NoFiles`), then per file `Skip`, `Refuse` or
`Begin`, `Exec`, `Insert`, `Commit`, `Committed`, and `Finish`. `Exit` is any error,
the end of the sixty seconds, or the process's death. `Grant`, `Commits` and
`SessionEnds` are the server's: it may grant the lock to a session whose process
has gone, and carry out a commit nobody waits for.

| Run | Instance | Shows |
|---|---|---|
| `migrate` | 3 runs, 2 of which may be cut anywhere, 2 file names, 3 contents, five releases, with fairness (412,000 states) | `Exclusive`, `AppliedOnceAndRecorded`, `OnTopOfItsOwn`, `DoneIsMigrated`, `UncutRunCompletes` |

The releases are a first one, one with a new file, one that changed a file after
all, one whose first file is gone, and one without files; every run may be of any.
A third run finds what two others left, one of them waiting. A property does not
claim that two releases that skip different files end in the same schema.

**Fairness.** Weak fairness of a process's next statement or its end, of the server's
steps, and of the end of a session whose process has ended. No symmetry, as the
run checks liveness. Deadlock checking is off: all runs end.

## 8. PriceLookup

**State.** Where the handler is, the attempt, the clock in ticks, whether the worker's
context is cancelled, what each attempt was answered, how long each wait was,
what `price` returned and what was published.

**Actions.** An attempt ends as `Final`, `Busy` or `Error` (`once`), within the client's
timeout; `Again` is the wait, `WaitCut` its end by the context; `Cancel` may come at any
point; `Check` and `Publish` are the handler behind the lookup. `Delay` is
`retryAfter` with Go's durations: the seconds are multiplied, wrapped to `2 * HalfRange`
values, then held between zero and a second.

| Run | Instance | Shows |
|---|---|---|
| `price_lookup` | 3 attempts of 400 ms, backoff 100 ms, ticks of 100 ms, eight headers (121,000 states) | `LookupBounded`, `WaitsAsAsked`, `CutSaysNothing` |

The defaults of the configuration; the headers are those of `TestRetryAfterBound`,
dates past, near and far, and a number of seconds that overflows: then the wait may
be shorter than a second, and `WaitsAsAsked` excepts it. Attempts are 1 to 5 in
the proofs, with any durations.

## 9. CoinbaseReads

**State.** Coinbase: the wallets that are open, whether its cursors are honest. The
client: which read it is at, its attempt, its cursor, the pages so far; the
snapshot stored at the end.

**Actions.** A GET ends as `Refused`, `Fails`, `Invalid`, `User` or `PageRead`; `Again` and
`WaitCut` are the wait between attempts, `Cancel` the end of the request, `Persist` the
replacement of the balances, `OpenWallet` a wallet that is opened meanwhile.

| Run | Instance | Shows |
|---|---|---|
| `coinbase_reads` | up to 5 wallets, 2 a page, 2 pages, 2 attempts (79,000 states) | `TypeOK` (the attempts and pages are bounded), `StoredIsWhole`, `GivesUpForAReason` |

Five wallets need a third page, four exactly fill two: both sides of the limit
that is 50 pages in the code. Coinbase lists wallets in a fixed order and does not
close one while it is listed. Waits are not timed here.

## 10. Fingerprint

Requests under one idem, one after the other. `Submit` is a request that is refused
before its hash counts (`Refuse`), or is compared (`Compare`): `normalizeAmount`,
`requestFingerprint` and the comparison with the row's hash. The provider account that
is hashed is looked up for each request: any of `WalletsOf` its asset, as the query
(`withdrawal.go:127`) has no order and a reconnection replaces the rows. Texts are
sequences of characters, SHA-256 is taken for the text it digests.

| Run | Instance | Shows |
|---|---|---|
| `fingerprint` | every pair of 640 requests: 20 spellings of amounts, two assets one of which is the other with a digit and the other of which has two wallets, four destinations and networks, one empty and one of two lines (549,000 states) | `ReplayOfTheSame`, below |

A replay is of a request with the same wallet, asset and value, always; and with the
same destination and network if those of either request are of one line. A conflict
is never the same business of the same wallet. An identical retry may well be a
conflict: then the wallet that was looked up has changed.

Of destinations and networks of several lines the property claims less, because
less is true. `RequestHash` ends each part with a newline, which its comment
(`security.go:109`) says "cannot appear in the normalized fields"; `validate`
(`withdrawal.go:49-54`) only asks that destination and network are not empty and not
too long. The instance has pairs of such requests that run together, and of these
only money and wallet are known to be the same. Assets and amounts are matched by
patterns without a newline, and provider accounts, which Coinbase assigns, are
assumed to be of one line (`TextsAssumption`).

## 11. Amounts

`Create`, `Malformed` and `Settle` carry a decimal from the pattern of its text through
`numeric(28, 8)` to the product in `numeric(56, 16)`, where a column rounds, and refuses
what is too wide or not positive.

| Run | Instance | Shows |
|---|---|---|
| `amounts` | one digit before the point, two behind it, decimals on both sides of each limit (6,400 states) | `ColumnsHoldTheAccepted`: no accepted number is refused or rounded by a column |

The powers of ten are a recursive function (`Ten`). The digits are 20 and 8 in the
code. A limit behaves the same at every width, and
the decimals lie around each: zero, negative, one place or one digit too many.

## 12. Proofs

`OrderPipelineProofs` proves `TypeCorrect`: `TypeOK`, and that every worker's
sequence number lies in its stream; then, for any number
of orders, duplicates, prices, workers and faults, `NoPhantomEvent`,
`AckedIsProcessed`, `NeverStranded`, `ViewConsistent`, `FirstQuoteWins`,
`AuditMatchesOutcome` and `ImplementsLifecycle`.

The argument. None of these is inductive alone; `IInv` conjoins them with what
connects them. `LockInv`: a settlement worker that read a status under the row
lock still sees that status, because only the lock's holder writes it; so
`Settle` may be reasoned about as one atomic read and write. The tables part:
a concluded order has exactly the view of its conclusion, and recorded price
events belong to concluded orders. The consumers part: everything below the
delivered sequence, and the delivered one if acknowledged, has its effect, as
does whatever a worker is about to acknowledge. That is why a late
acknowledgement of a redelivered message is harmless. The outbox part: a row
marked published, or about to be, has its event in the stream. `NeverStranded`
follows: the event of a published row is unacknowledged, or quoted; its
quote is unacknowledged, or recorded and the order concluded. For
`FirstQuoteWins`, the settlement consumer's cursor has passed only recorded
events, so the first event of an order that is recorded is the first in the
stream. Lemmas state once what a step may do to the tables (`TableSteps`), the
streams (`StreamSteps`: they only grow), the consumers (`AckSteps`) and the
workers (`WorkerSteps`), so that each part of the invariant is preserved by a few
cases instead of one per action. The assumptions are those of `OrderPipeline`:
order and copy numbers are naturals, copy 0 exists, prices, codes and `None`
are distinct.

`AuditMatchesOutcome` adds `AuditInv`: an order without conclusion has no effect in
its trail, a concluded one exactly that of one event; a settlement transaction
adds an effect only where it read, under the lock, that there is none.

`WithdrawalsProofs` proves every safety property of `Withdrawals` that a passing
run checks, for any number of handlers, idempotency keys, wallets, amounts and
snapshots, whatever is cut off. First `TypeOK`, `NoSendAfterFinal`,
`BalanceHeld` and `RowsSettle` (which no run repeats, as `ImplementsLedger` has it
too). The invariant is `HoldInv`: at most one handler is
past the row lock, and what it found there still holds, namely a row that is
missing or awaits a code for the same business request, and the balance. A
handler's steps fall into five kinds with respect to the lock (`HandlerMoves`:
`Leaves`, `Enters`, `Refreshes`, `Sends`, `Commit`), and only `Reconnect` and
`Commit` write what the lock protects. Then `OneRequestPerIdem`, `TransferHasRow`,
`AcceptedIsExecuted` and `RefreshedTokensKept`. The invariant is `TraceInv`: all that
Coinbase received under an idem outside `cut` is the business request of its row,
or of the handler about to commit one. With `HoldInv` it follows (`Alone`) that before
a handler commits, its idem carries nothing but its own request; a handler that is
cut off has either sent nothing (`Unsent`) or puts its idem into `cut`
(`CutBehind`), and leaves every other idem as it was (`Elsewhere`). From both
follows `ImplementsLedger`: a handler past the lock finds its key open and asked for
nothing but its own request (`Opened`), and what reaches Coinbase is what the ledger
has (`Reaches`). The assumptions are that amounts are positive, balances numbers, and `None` distinct
from a row and a business request.

`ConnectionProofs` proves `TypeOK` of `Connection`, and that a callback in flight holds
a state and a withdrawal in flight a token; then
`ExchangedOnce`, `OneFlow`, `StoredIsHonoured`, `ValuedIsStored` and `MissExplained`, for any
number of states, callbacks, withdrawals, valuations and rotations. The
invariant has three parts. `LockInv`: the holder of the row lock is alone, and a
withdrawal that holds it has the stored token, or the honoured successor of it.
`SessionInv`: a callback that consumed a session is the only one of its state, and
Coinbase received its code once if it is past the exchange and never before; a
state not yet used is of no stored flow and never rotated. `AnswerInv`: what a
callback found out about a session it did not get stays true, because a state is
issued once, consumed once and expires for good, and that it was not used when the
`UPDATE` missed if "expired" is still to be said. `StoredIsHonoured` needs the first
two: what a callback stores was never rotated, and what a withdrawal stores is
of the flow it read. A callback's steps are sorted into five kinds
(`CallbackKinds`), everything else into `Asides`. The assumption is that `None` is
neither a state nor a token.

`WorkerProofs` proves `TypeOK`, `PassedHadEffect` and `ImplementsDelivery`, for any
number of pods, messages, faults and expiries. The invariant: what a worker holds
is no further than the message after `floor`, no effect is, and a worker that is
about to acknowledge has its effect. So an acknowledgement of any age moves
`floor` only over a message with its effect, and a first effect is of the message
whose turn it is, or of one that expired. The refinement maps each step to a step
of one message's fate, or to none.

`MigrateProofs` proves `TypeOK`, `Exclusive`, `AppliedOnceAndRecorded`,
`OnTopOfItsOwn` and `DoneIsMigrated`, for any number of runs, files, contents and
images. The invariant: only the session that holds the lock has a transaction, a
commit in progress or a process past the lock whose statements are answered; a file
whose transaction has begun is not recorded; and every file that a run has
behind it is recorded with the content it ships. The assumptions are that images
are directories of known files, and that `None` is neither a checksum nor a run.

`PriceLookupProofs` proves `TypeOK`, `LookupBounded`, `WaitsAsAsked`,
`CutSaysNothing` and `OnlyTransientRepeated`, which no run checks, for one to five attempts
and any timeout, backoff, headers and width of durations. The invariant counts
answers and waits by attempt, bounds the clock by them, and says what each phase
knows of the code and of the cancellation.

`CoinbaseReadsProofs` proves `TypeOK`, `StoredIsWhole` and `GivesUpForAReason`, for any
number of wallets, pages and attempts, and that honest pages never conflict. The
invariant: `Attempts` ties the count of failures to the attempt in hand; `Within` says
that whatever was read is open; `Honest`, that as long as the cursors are honest
the pages read are exactly the wallets before the cursor, each once. So behind the
last page they are all the wallets, and a client that stops short of it has read
`MaxPages` full pages. What a page holds is counted with the library's facts about
cardinality; that is why the wallets, of which there may be any number, are a
finite set. The assumptions are those of `CoinbaseReads`: wallets are numbered from
one up, and a page, the pages and the attempts are positive numbers.

`DecimalsProofs` proves `ReplayOfTheSame` of `Fingerprint` and `ColumnsHoldTheAccepted` of
`Amounts`. Both are about numbers of any length, so both need induction. The
library's induction theorems take a predicate and cannot be used; instead a set of
numbers that holds 0 and every successor is shown to hold all (`SetInduction`),
because its complement would have a least member, by the well-foundedness of the
strict subset ordering on finite sets (`HasLeast`). With it a recursive definition is
shown to have a solution, put together from its beginnings (`TenDef`, `NumberCounts`).

For `ReplayOfTheSame`: two texts that end where the same character first appears are
equal (`CutAt`), so the first three lines are told apart by the hash, whatever follows
(`LineCut`, `HashTells`), and the whole part and the fraction by the normalized amount
(`PartsTell`). Two lines differ from any two texts that hold a third newline
(`TwoLines`), so it is enough that one request's destination and network are of one
line. Zeros before a number do
not change it, and of texts of one length each has its own number (`ZerosBefore`,
`Positional`); hence two amounts are equal exactly if their normal forms are
(`NormalForms`). The invariant (`RowTells`) is that the row holds the fingerprint of its
request, with a wallet of its asset. The assumptions are those of `Fingerprint`:
amounts are digits with at least one before the point and at most `Places` behind it,
and assets and wallets are of one line.

For `ColumnsHoldTheAccepted`: by the law of exponents (`TenSum`) a valid decimal is a
whole number of the column's units below its bound (`ValidFits`), and the product of
two of them is one of the total's (`TotalColumnAccepts`). The invariant is that each
row holds the decimal that was written. The assumptions are those of `Amounts`: a
digit before the point at least, and decimals that are whole units of some place.
The module extends both, which is why the definitions of `Amounts` that every module
has carry its name (`AmountsInit`, `AmountsNext`, `AmountsSpec`).

The type invariants of the first six modules are theorems for every instance, so no
run repeats them; `Fingerprint` and `Amounts` have none, as their invariants say
more.

Only model-checked: the liveness properties `EveryOrderConcludes`,
`EveryRequestEnds`, `EveryCallbackEnds`, `EveryMessageConcludes`, `EveryShutdownEnds`,
`ReadyAgain` and `UncutRunCompletes`, as the proof system does not support
liveness under fairness.

## 13. Not modelled

The gateway is a reverse proxy without state or retries: all it does to the services
is to end a request after three seconds, which is `CutOff` in `Withdrawals` and
`Connection`, and an order nobody asks about in `OrderPipeline`. Configuration,
routing and error rendering keep no state and order nothing. AES-GCM, PKCE and
random states are calls of the Go library; that states are fresh is an assumption
of `Connection`. How an exchange's answer is parsed, and the prices and sums of a
valuation, are pure and are abstracted to their outcomes. A wallet that is closed
while the wallets are listed, and a Coinbase that makes two transfers of one idem,
are outside what the code provides for. Terraform, Kubernetes manifests and
scripts are not programs of this system's own; the tests are used as a source of
promises.

## 14. Running

`tlc -config PipelineRolling.cfg MCOrderPipeline`, and likewise
`PipelineTwoOrders`; `Withdrawals`, `WithdrawalsLiveness` and `FindingFailedButSent` with
`MCWithdrawals`; `Connection` and `Worker` with the modules of these names; `Migrate`,
`PriceLookup`, `CoinbaseReads`, `Fingerprint` and `Amounts` with their `MC` modules. All
pass but `FindingFailedButSent`, which reports its violation. `tlapm` with
`OrderPipelineProofs.tla`, `WithdrawalsProofs.tla`, `ConnectionProofs.tla`,
`WorkerProofs.tla`, `MigrateProofs.tla`, `PriceLookupProofs.tla`,
`CoinbaseReadsProofs.tla` and `DecimalsProofs.tla` for the proofs. A definition whose comment calls it a mutant or a mutation is a deliberate error,
used to see that a property would notice it.
