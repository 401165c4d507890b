# DEEIX-Chat: TLA+ verification project

DEEIX-Chat is a multi-user chat server (Go backend, Next.js frontend) that
proxies model providers, meters what every run costs and bills it to the user.
This directory holds TLA+ models of the parts of the backend whose correctness
depends on the order in which transactions, goroutines, retries and crashes
happen, the TLC configurations that check them, and TLAPS proofs.

All paths below are relative to `src/backend/internal/` unless they say otherwise.

## 1. Inventory

The backend is layered: `transport/http` handlers call services in
`application`, these talk to ports in `repository`, and `infra` implements the
ports (PostgreSQL through gorm, Redis or an in-process cache, provider
clients). Several server processes may share one database and one Redis.

| component | status | state it keeps | operations | what makes it hard | what makes it correct |
|---|---|---|---|---|---|
| **Usage reservations and settlement** `infra/persistence/postgres/billing` | modelled | balance account, reservations, usage ledger, balance transactions of a user | reserve, raise, renew, release, mark, three settlements, administrator's set, top-up | concurrent requests of one user, expiry by time, replays, several tables per transaction | no budget granted twice, every run billed once, the statement adds up, lifecycle of a hold |
| **Usage sessions** `application/conversation/service_usage_session.go`, `service_billing.go`, `application/billing/service.go` | partly | authorization snapshot, renewal goroutine, finished flag | begin, ensure budget, record billing, finish, close | answers lost after a commit, retries under a shared deadline, panics, crashes, renewal beside settlement | what is billed is what ran, what the user is shown is what is billed, no lease renewed after the end |
| **Generation streams and leases** `application/conversation/generation_stream.go`, `infra/cache/{memory,redis}` | modelled | per run: execution, leases, cancel flag, window of events, checkpoints; per process: active table, pending completions | claim, renew, append, reset, cancel, complete, abandon, close, subscribe | several processes, lease expiry, lost answers, completion retried in the background, close, trimming while a subscriber reads | one live execution per run, a lost lease cannot append, subscribers show what was said |
| **Content moderation** `application/contentmoderation` | partly | run and message moderation states, hits, pending blocks; task channel, slots, wake tokens | submit, check, barrier, late block, retry, recover, finalize; admit, take, resize, stop | verdicts after the end, failing calls, a crash between two writes; goroutines that sleep on a channel | nothing unchecked is passed, no hit is dropped, no run stays in the middle; no wake-up lost |
| **Upload and file queue** `application/{upload,processing}`, `infra/cache/*/file_queue.go` | partly | file row with its attempt stamp, queue with leases and dead letters | enqueue, read, claim, renew, requeue, settle, force failed, dead-letter | worker crashes, stalls, lost answers | every file reaches an outcome, outcomes are final |
| **Embedding, RAG, knowledge bases** `application/embedding` | partly | embedding row, chunks, queue, each server's vector space | submit, embed, publish, fail, switch the space, reconcile | a switch under a running embedding, second submissions | what is ready is indexed in the space it names |
| **Payment orders** `application/billing`, `repository.go` | partly | order status, expiry | create, callback, expire, grant | duplicated and late callbacks | an order pays out once |
| **Conversation runs, messages, branches** `application/conversation` | partly | runs by `(user, run id)`, message tree, active leaf | claim run, insert pair, finish, cancel, interrupt, branch | two requests with one id, cancellation beside completion | one run per id, a final message is not reopened |
| **Active generation feed** `generation_active_stream.go` | not modelled | subscribers per user, one shared event stream | publish, snapshot, subscribe | snapshot and deltas race, slow subscribers are dropped | a subscriber converges to the set of active runs |
| **Redemption codes** | not modelled | use counters | redeem | concurrent redeems | never more uses than the limit |
| **Subscription timeline** | not modelled | paid periods per user | grant, replace, queue, trim | ordering of grants | periods do not overlap |
| **Channel routing, circuit breaker** `application/channel`, `infra/cache/*/channel.go` | not modelled | failure counters, breaker state, key cursor | route, report, probe | concurrent reports, half-open probes | one probe at a time, a breaker closes again |
| **Authentication** `application/auth` | not modelled | sessions, refresh tokens | login, rotate, revoke | concurrent refresh | a revoked session is not revived |
| **Tool loop and trace** | not modelled | rounds, tool calls | execute, budget check, trace append | sequential in one run | budget checked before every upstream call (this part is in `UsageSession`) |
| **Context compaction** `application/compact` | not modelled | snapshot boundary | compact | concurrent messages | no message lost from the context |
| **Pricing** | not modelled | none (pure) | price a usage | rational arithmetic | — |
| **Settings, runtime reload** | not modelled | snapshots | reload | stale reads | — |
| **Rate limiter** | not modelled | window counters | allow | window boundary | — |
| **Adapters** (LLM, OCR, storage, MCP), **administration**, **frontend** | not modelled | — | I/O, records, user interface | — | — |

How a message is sent is where the components meet. The handler
(`transport/http/conversation/handler_message_send.go`) calls
`BeginUsageSession`, which authorizes the run against the user's balance and
plan and, for a paid run, commits a reservation and starts a goroutine that
renews it every 30 minutes. The service claims the run id in the database and
its stream in the shared store, hands the question to moderation, calls the
provider (raising the reservation when an estimate exceeds it) and publishes
what arrives to the stream, which other connections replay. When the generation
ends the answer goes to moderation as well and the moderation barrier decides
what the run becomes; the stream is completed. `Finish` then stops the renewal,
and either settles the run (ledger row, debit, reservation and statement in one
transaction, retried), or releases the reservation. `Close` runs on every path
that did not `Finish`. Files take another way: an upload is queued for
extraction, extraction embeds the text, and users and administrators submit
files for embedding again.

## 2. Modules

| module | models |
|---|---|
| `Totals` | SQL sums over a set of rows, written as the cardinality of a disjoint union, so that they can be proved about without recursion |
| `UsageReservation` | the billing tables of one user and every transaction on them |
| `UsageAccounting` | abstract specification: an account that is only ever billed once per run or funded |
| `UsageSession` | HTTP requests driving those tables, with crashes, lost answers, retries, renewals and the change of month |
| `GenerationLease` | the lease of one run's stream: the keys in the shared store, the registries of the servers, shutdown, crashes, lapsing leases |
| `GenerationReplay` | the events of one run's stream, the window and checkpoints, and a subscriber that connects, loses its connection and resumes |
| `Moderation` | the moderation of one run: checks, barrier, late hits, recovery, finalization |
| `ModerationWorkers` | the goroutines, the task channel, the slots and the wake channel of the moderation pool |
| `LeaseQueue` | the operators of the file queue: waiting, leased and dead messages |
| `FileProcessing` | uploads and extraction workers on a `LeaseQueue` |
| `FileEmbedding` | submissions, embedding workers, the reindexer and the switch of the vector space on a `LeaseQueue` |
| `UsageReservationProofs` | lemmas about sums, theorems about `UsageReservation` |
| `UsageSessionProofs` | theorems about `UsageSession` |
| `GenerationLeaseProofs` | theorems about `GenerationLease` |
| `GenerationReplayProofs` | theorems about `GenerationReplay` |
| `ModerationProofs` | theorems about `Moderation` |
| `ModerationWorkersProofs` | theorems about `ModerationWorkers` |
| `FileProcessingProofs` | theorems about `FileProcessing` |
| `FileEmbeddingProofs` | theorems about `FileEmbedding` |
| `MC…` | the TLC instance of the module it names |

### UsageReservation

One action per repository function, under the function's name.

| variable | table (`infra/persistence/models/billing.go`) |
|---|---|
| `balance` | `billing_accounts.balance_nanousd` |
| `resv[r]` | `billing_usage_reservations` row of `ref_no` r; `status = "none"`: no row |
| `ledger[r]` | `billing_usage_ledgers` row of r; `present = FALSE`: no row |
| `txs` | `billing_balance_transactions` in commit order |
| `orders` | status of the top-up orders |

Each of these functions is one database transaction that first locks the user's
account row (or updates exactly one row), so it is one atomic action. A call
that returns an error rolls back and is a stutter: the guard of the action is
the conjunction of the conditions under which the code does not return an
error. Time is the distance to `expires_at`, counted in renewal intervals, and
`Tick` lets it pass for all rows. In this module **the callers are
unconstrained**: any operation may come at any time for any run, with any mode,
month and amount. What is proved of it therefore holds for every present and
future caller, and is what a caller may rely on. TLC checks the same formulas on
the sessions, which use the tables as the program does.

Data abstraction: a nanousd amount is a natural number, an instant of billing
is a month, periods are months, the hold keeps the month and the limit it was
made with (which `matchesPeriodReservation` compares). `LedgerRow` keeps only
the columns the properties tell apart. `covered` and `charged` are the
`period_covered` and overage amounts the settlement computes.

### UsageSession

A session is one HTTP request. Its `phase` follows the handler: `new` →
`authorized` (`BeginUsageSession`) → `running` (run claimed) → `ended` (result
known) → `stopping` → `settling`/`releasing` → … → `done`/`failed`, or
`rejected`, or `gone`. Sessions interleave at every database transaction. Each
call has three outcomes: it commits and is acknowledged, commits but its answer
is lost, or fails before it commits. `Leave` is both a process crash and a
panic after which only `Close` runs (it stops the renewal and keeps the hold).
`quota` is the in-memory snapshot of the hold that
`EnsureUsageAuthorizationBudget` decides from; it is not updated when the hold
is raised, as in the code.

`UsageSession` EXTENDS `UsageReservation`: its steps are conjunctions of a step
of the tables and a change of the session. `Tables` is the instance of
`UsageReservation` that `ImplementsTables` shows it to refine.

### GenerationLease

One run id, any number of requests that use it (`Executions`; each has the
execution id `acquireRun` draws), any number of server processes (`Servers`). A
server that restarts has lost its table, so it is another member of `Servers`.

| variable | code |
|---|---|
| `store` | the run's keys in Redis: active (`exec`, with its time to live `lease`), owner and conversation (`owner`), cancellation (`cancel`), the retained events and snapshots (`authors`: whose they are, `kept`: their time to live) |
| `ex[e]` | a request: where it is in the handler, `register` and `finish` (`phase`), whether its context is cancelled, its worker goroutine and `leaseValidUntil` (`valid`) |
| `sv[s]` | a registry: its entry in `active` for the run, the stage of `close()` and the copy of the table it works on |
| `pend` | `pendingCompletions` |

Each Lua script is one atomic step; a call commits and is answered, commits and
is not answered, or fails. Each critical section of the registry's mutex is one
step. So a registration is `Register` (closed? `registrationWG.Add`), `Claim`
(the script), `Insert` or `InsertRefused`, `Start`; a renewal is `Renew` (the
script) and then `RenewReturns` or `Lapse` (what the worker does with the
answer); `finish` is `Finish` (out of the table, worker told to stop),
`WorkerStopped`, `FinishCompletes`; `close` has one action per stage. The
`phase` and `worker` values are the program counters between them.

Time is counted in renewal intervals of 10 seconds (the code's lease is 3, its
retention 90, its ownership 720 of them). `Punctual` is the one assumption on
timing: a server is less than an interval late in handling a tick of its worker, in
taking note of the answer of the store, and in delivering the
cancellation of its lifecycle context. Without it no protocol of this kind can
hold, since the answer `leaseValidUntil` is computed from could be arbitrarily
old; with it `OneExecution` needs `OwnerTTL >= LeaseTTL + 3` and, from the third
request on, `Retention >= 3`, which the code meets by one or two orders of
magnitude. Neither the clock of a server nor the clock of
the store is compared with the other's.

Coarser than the code: the three attempts of one completion are one step (the
script is idempotent and refuses another execution's lease); the expiry timer
of a worker may fire at any time instead of after two hours; the contents and numbers of events
are the subject of `GenerationReplay`; of the user and the conversation, which the scripts compare too,
only their being the same for all requests of the run is assumed.

### GenerationReplay

The stream that `GenerationLease` guards, seen from the inside: `store` is the
window of events with its numbers and the two checkpoints (text so far, the
current round of thinking), `run` the generation, `client` a subscriber. Each
read of the store is a step, and `Publish`, `End`, `Withdraw`, `Release`,
`Lapse` and `Expire` come between any two of them: `List`, `ReadText` and
`ReadThink` are the three reads of `subscribeStore`, `Decide` is
`retainedStreamEvents` and starts the live reader. `Read` then takes the next
batch of at most `Buffer` records and `HandOn` puts them one by one on the
channel of `Buffer` places (`readStoreEvents`), while the handler writes what
is replayed, looks at the lease and goes on with the channel (`WriteReplay`,
`Replayed`, `WriteLive`, `CheckActive`, `ReaderClosed`). `client.text` and
`client.think` are what the frontend shows, updated by the rules the frontend
uses (append, or replace after a checkpoint).

The window, what is replayed and a batch are sets of numbered records: the code
keeps each of them in the order of the numbers, so the set is all there is to
know, and nothing has to be sorted or folded. What is shown and the channel are
sequences. `MAXLEN ~` lets Redis keep some records more than it is asked to:
`Slack` is how many, 0 for the store in memory.

One subscriber is enough, since subscribers only read. A run has one execution
here: what a second one does to the store is `GenerationLease`'s question. A piece of text is
the number of the event that brought it, so that a gap, a duplicate or a wrong
order shows.

`publishWithLease` ignores the error of an append: the piece goes to the live client and
stays in the answer, but neither the window nor the checkpoint gets it. `run.answer` is
therefore what was said and `run.text` what the store has taken of it; `PublishStored` adds
to both (an append that took effect and was not answered is one), `PublishUnstored` puts the piece
`Unstored` into the answer only. An event of another kind whose append fails leaves nothing to
compare. Resetting the events of a withdrawn answer ignores errors too: `Withdraw` drops
them or does not.

### Moderation

One run with the surfaces of its question (`Inputs`) and its answer (`Outputs`).
`db` is the run's row, the two messages and the latest stored hit; `co` the
coordinator together with the request that waits for it; `task[s]` the check of
surface s; `held[v]` and `rec[v]` the pending blocks and the recovery loop of
server v; `bad` counts failed calls. Every write to the database is a step of
its own, because a crash or another goroutine may come between two of them:
`applyHit` stores the hit, withdraws the content and announces it in separate
actions, and finalization writes the user message, the assistant message and
the run one after the other.

### ModerationWorkers

The pool (`worker.go`). Goroutines are alike and tasks are alike, so the module
counts them: `at[p]` goroutines are at place p. The wake channel has as many
places as there are goroutines and a send to it never blocks, so tokens may be
thrown away: `NoLostWakeup` says that this never leaves a goroutine asleep beside a free
slot. The selection of `stopCh` against other ready channels is a free choice, as in Go.

### LeaseQueue, FileProcessing, FileEmbedding

`LeaseQueue` has no variables: a queue is a record, an operator is what one call
of `FileProcessingQueueRepository` makes of it, for the Redis streams and the
in-process implementation alike (each is one script or one critical section).

`FileProcessing` is the upload, the extraction worker of each server and the
outcomes: the row (`file`), its embedding state (`embed`), the queue, the
upload's two writes and, for each worker, the step it is at and the message it
holds (`hand`). A claimed write carries the attempt's stamp and changes nothing when the
row has another. The code draws a new stamp for every message; the model uses
the worker's name, because a worker writes only after its own claim has
overwritten whatever stamp was there. `rag` is the row's `rag_reason`; its `rag_ready`
is already set by the write that keeps the text, with `rag` still `"pending"`, so that the properties are about `rag = "ready"`. `embed` is the status that was written last, which need
not be what happened: `EmbedChunks` may end in an error with the status written, not written (`_ =` in `processClaimedFile`) or
never to be written (the count of the chunks, the ready status), and `ClaimEmbedding` may claim without an answer.

`FileEmbedding` is the vector index: the embedding row, the space its chunks are in,
the queue, the space each server is configured for (`runtime`), the saved one
and the administrator's switch, submissions, the queue's workers and runs
without a message (`Autos`: uploads and the reindexer). A server learns of a
switch made on another server when it restarts. A failing write is done or not done. `Unanswered` is
one whose error ends the call, which is then made again or reported; `Tries` is one whose error the code ignores or
logs. The writes nobody makes up for are counted as `drops`: the *failed* of a message that was refused
(`ReleaseRow`), the *stale* of a job of another space (`Begin`) and the queueing of a row that is then skipped for want of an answer
(`SubmitFile`). `ApplyTo` and `ReconcileIndex`, in the request and at the start of a
server, may fail; `admin.owed` remembers an invalidation that failed until one succeeds. No guard reads it. Two fields of a row are history and no
column: `been`, the spaces the row has belonged to, and `back`, whether it has come back to
one of them. No guard reads them; `ReadyIsIndexed` and the proofs do.

In both modules `had` counts what has gone wrong (failing calls, stalls, crashes,
…), a configuration gives sets of counters (`Troubles`, `Events`) and a behaviour stays
below one of them. This keeps the product of all troubles out of the state space
and lets a property name the combination it excludes.

### Operators named Fault…

A definition such as `FaultCreditIgnoresBills` stands before the definition it
perverts (`CoveredByCredit`), has the same parameters and one plausible
mistake. No specification uses it. Substituting it for the original makes TLC
report the property `PROJECT.json` pairs it with: the evidence that the
property depends on the code and is not vacuous.

## 3. Runs

| run | instance | shows |
|---|---|---|
| `UsageSession` | 2 requests, 2 run ids, 1 top-up, 1 month, credit 1, opening balance 2, estimates and charges 2, lease 2, 2 attempts | what is billed, held, covered, renewed and shown agrees with what happened; the tables' own properties; sessions refine the tables and these the abstract account |
| `UsageSessionLiveness` | 2 requests with one run id, 2 months, an administrator's change, fair | `SessionsEnd`, `HoldsAreLetGo` |
| `UsageSessionMonth`, `UsageSessionOverage`, `UsageSessionMark` | 2 requests | three statements in comments that the code does not keep, section 6 |
| `GenerationTakeover` | 2 requests, 2 servers that may crash, one of which may be closed and asked to cancel, lease 2, retention 1, ownership 5 intervals | `StoreOK`, `OneExecution`, `ClosedIsQuiet`, `OnlyHolderReleases` |
| `GenerationLiveness` | 2 requests, 1 server that may be closed and crash, times 2, 1, 2, fair | `EndedRunsAreFreed`, `RequestsEnd`, `ClosesEnd` |
| `GenerationReplay` | all kinds of events, window of 2 with slack 1, channel of 1, 3 events, 2 connections, fair | `ViewIsRight`, `NothingMissed`, `WithdrawnStaysAway`, `WatchingEnds` |
| `Moderation` | 1 surface of the question and 1 of the answer, 2 servers, 1 failing call, a crash, fair | `HitsAreInHand`, `PassedIsClean`, `OnlyUnattendedFailOpen`, `HitsAreWithdrawn`, `StatesSettle` |
| `ModerationWorkers` | 3 goroutines, 4 places, 6 tasks, 3 changes of the limits, fair | `AccountsAddUp`, `NoLostWakeup`, `TasksAreTaken`, `StopEnds` |
| `FileProcessing` | 1 file, 2 workers, 1 retry, four mixtures of troubles, fair | `FilesAgree`, `OutcomeIsFinal`, `FilesFinish`, `MessagesLeave` |
| `FileEmbedding` | 1 file, 2 spaces, 2 servers, 2 workers, 1 run without a message, 1 retry, thirteen mixtures of events, fair | `FilesAgree`, `QueuedSettles`, `OutdatedIsFound` |

Some properties are conjunctions of named parts, each stated and commented
where it is defined:

- `BooksBalance`: `TypeOK`, `DebitedOnce` (a run is debited at most once, by
  what its ledger row says), `CreditedOnce` (an order is credited once, however often its callback comes), `StatementAddsUp` (every statement entry continues
  the one before, the account shows the last) and `SettledHoldIsBilled`.
- `BillsAreRight`: `EveryBillIsOwed` (a bill belongs to a request that claimed the
  run, called the upstream and ended billable, at its cost) and
  `ReportedRunsAreBilled` (a `Finish` that succeeds shows the amount of the bill).
- `StoreOK`: `TypeOK` and `RetainedByOne` (retained events are never of two executions).
- `ViewIsRight`: `TypeOK`, `ShownIsSaid`, `EndIsWhole` and `InOrder`.
- `HitsAreInHand`: `TypeOK`, `HitIsInHand`, `InputHitIsInHand`.
- `AccountsAddUp`: the pool's types and its counters of queued tasks and taken slots against
  the goroutines that hold them.
- `FilesAgree` (`FileProcessing`): `TypeOK`, `UnfinishedIsQueued`, `DeadIsFinished`,
  `IndexToldIsThere` (a file whose rag reason says *ready* has its index); (`FileEmbedding`): `TypeOK`, `ReadyIsIndexed`, `QueuedHasMessage`, `DeadIsSettled`.

Where the code does not promise something in every case, the property names the
case it leaves out rather than the model leaving it out: `lagged` (a live reader
overtaken by the window), `resumed` (a connection that asked only for what came
after a number), `withdrawn`; `had.uploads` (an upload cut short between its
two writes), `had.stalls` and `Mixed` (a worker that lost its lease while it
worked, together with another trouble), `NothingIsDropped` (a submission cut short, a lost lease, a dropped write),
`row[f].back` (a file that came back to a space it had left), `RunsConclude` (no run
without a message takes up a file and leaves it after a failing call or a restart), `admin.owed`, and `Unstored` (a piece of the answer whose
append failed). `IndexToldIsThere` is claimed for one failing call and no stall or crash: with two in one attempt the
*failed* of an embedding is not written, the next attempt's claim is refused and taken for done, and the row says *ready*. What happens in those cases is listed in
section 6.

### Bounds and why they are enough

- **Runs, sessions.** Every hazard listed concerns one run, or one run against
  the rest: two runs make a race. Sessions and run ids are interchangeable: no
  definition compares or orders them, so `Permutations` is a sound symmetry
  for invariants and for the action properties, which quantify over all of
  them. Liveness runs use no symmetry. The proofs hold for any number of both.
- **Amounts.** A balance of 2 and a credit of 1 against costs of 2 reach every
  relation the code tests: covered by credit, partly covered, not covered, and
  a balance that becomes a debt. The proofs hold for every amount.
- **Lease of a hold.** Two intervals let a hold lapse before, between and
  after renewals; a longer one adds states in which nothing new is enabled.
- **Attempts, retries.** 2 attempts instead of 3, 1 retry of a message instead of 3: a first
  one that is repeated and a last one that is not.
- **MaxAdminSets** bounds the only billing operation that could repeat for ever and
  grows the statement; every other transaction happens at most once per run or
  order, because the code's unique indexes and statuses make it so.
- **Requests and servers of a stream.** Every hazard is one request against
  another, on the same server (table) or on another one (store). `Stoppable`,
  `Cancelling` and `Publishing` say which servers may be closed or asked to cancel and which
  requests publish, so that each run spends its states on its question; crashes are always possible.
- **Lease, retention, ownership of a stream.** A lease of 2 is renewed once before it
  lapses and survives one failed renewal. With an ownership of 4 instead of 5 the
  takeover run fails: 5 is the tight bound for a lease of 2.
  The retention is shorter than the ownership, as in the code; the takeover run has one of 1, which two requests
  survive and three do not (section 4). A lease of 1 would
  lapse before every renewal and make the liveness run say nothing.
- **Replay.** A window of 2 for 3 events is outgrown before, between and after the
  subscriber's reads; the code has 1024 for runs of thousands. With a slack of 1 the third event is trimmed
  behind or not. `MaxUnstored` of 1 is a piece whose append fails before, between or after those that are stored. With a window of 1 the terminal event would push out whatever `NothingMissed`
  speaks of. A channel of 1 fills. Two connections are one that breaks and one that resumes. Proved for every size.
- **Moderation.** One surface on each side: a hit of either direction alone, both, in either order,
  and the preference of the question. More surfaces of one side add only later hits of the same kind. One failing call at
  every place a call is made; two servers are the one that attends the run and one that does not.
- **Pool.** 3 goroutines with a limit of 1 to 3 and 4 places for 6 tasks: the channel and the capacity fill, the
  limit shrinks below what is running and grows again. Proved for every size.
- **Files.** Files do not share rows or messages, so one file. Two workers are the one that holds a message and the one
  it passes to. The mixtures of troubles are the largest that finish in minutes: each kind alone, and each pair
  that meets at one point of the code: for the index a failing call together with a switch, with a second submission, with a restart and a run without a message, and
  with a dropped write, a switch with a submission under way, and a switch there and back.
- `CHECK_DEADLOCK FALSE`: in each of these systems a state in which every run, file and order is settled
  has nothing left to do.

### Fairness

Stated in `FairSpec` of each module and used by its liveness properties only.

- **Sessions.** Weak fairness of the session's own next step, because a handler keeps executing, each database call
  in `Finish` has a timeout and a run is cut off after the ownership window; of
  the return of a renewal (5 second timeout); and of the passing of time. None for the arrival of
  requests, for the start of a renewal, for the success of any call, or for a crash.
- **Leases.** Weak fairness of a request's own next step (its provider answers
  or times out and every store call has a timeout), of its worker's handling of
  ticks and answers, of the goroutine that delivers the lifecycle cancellation, of `close`, and
  of time; strong fairness of a stopped worker seeing its cancelled context, because `select`
  chooses among ready cases at random. None for the success of a call, for
  the background completion, for publications, cancellations or crashes: `EndedRunsAreFreed`
  holds because leases lapse, not because completion succeeds.
- **Replay.** Weak fairness of the subscriber's reads and of the handler, of the ticker that asks whether the run is active, and of
  the run's keys being released or lapsing. None for the success of a call.
- **Moderation.** Weak fairness of the end of the generation, of the barrier (it waits at most its timeout), of every check
  (it has a timeout), of the recovery loops (a ticker) and of ageing (`Age`: two minutes pass without a write to the run, which
  happens only while it generates, after its request is over, or after a crash, since every other step takes seconds). Calls may fail,
  finitely often.
- **Pool.** Weak fairness of the goroutines together: some goroutine that can move does.
- **Files.** Weak fairness of every worker's own steps, of its look at lapsed leases, and of the lapse of an abandoned
  lease. Strong fairness of reading the queue: a worker alternates between claiming
  and reading, so a read is not continuously enabled but comes round for ever. The lapse of the lease of a worker
  at work is a trouble with no fairness.

## 4. Theorems

Proved by TLAPS for every value of the constants permitted by the assumptions
of the modules: finitely many run ids, at least one slot, a positive lease,
natural amounts, months numbered from 1, a positive top-up and any opening
balance, debts included (`UsageReservation`); at least one attempt and a month
to start in (`UsageSession`); at least one goroutine and one place in the queue
(`ModerationWorkers`); positive times to live, of which the ownership is the longest
(`GenerationLease`); finitely many surfaces of a message, disjoint for question and answer (`Moderation`); a
number of retries, workers whose names are not the name of nobody (`FileProcessing`) and are not runs without a
message (`FileEmbedding`); at least one place in the window and in the channel, any slack, and the four kinds of
events (`GenerationReplay`). Nothing bounds the number of runs, requests, amounts,
months, or the length of the statement. TLC evaluates every assumption on the
runs' instances.

### The tables, for unconstrained callers (`UsageReservationProofs`)

| theorem | says |
|---|---|
| `TypeCorrect` | `TypeOK`: in particular no hold, credit or covered part is ever negative |
| `StatementAlwaysAddsUp` | `StatementAddsUp` |
| `RunsAreDebitedOnce` | `DebitedOnce` |
| `OrdersAreCreditedOnce` | `CreditedOnce` |
| `SettledHoldsAreBilled` | `SettledHoldIsBilled` |
| `BooksAlwaysBalance` | `BooksBalance`, the five above in one, as the runs check them |
| `HoldsFollowLifecycle` | `HoldLifecycle` |
| `GrantsStayWithinBudget` | `GrantsWithinBudget` |
| `CreditIsNotOversold` | `CreditNotOversold` |
| `TablesImplementAccounting` | `BillingSpec` implements `UsageAccounting` |

The many actions are first reduced by *step lemmas* to a few
shapes: a step reserves, raises, moves a status or lease, *bills* one run
(writes one ledger row, debits what it says, settles its hold), *funds* the
account, or lets time pass. Every invariant is then shown to be kept by each
shape. `TypeOK` is inductive alone, given that sums are natural numbers
(`TotalNat`, from the facts about cardinalities). The others are inductive together with it.
`CreditNotOversold` is not inductive without `SettledHoldIsBilled`: a
settlement covers at most what the limit leaves after all *bills* of the month,
and the induction needs that what bills cover never exceeds what they amount
to. The lemma `CoverageGrows` then adds the new row to the covered sum, and the
new row alone shows that the sum stays within the limit of the plan that
settled it. `GrantsWithinBudget` needs no invariant beyond types: whoever
commits a larger hold has recomputed, under the lock, what the live holds of
the others leave. The refinement maps a billing step to `Bill`, a funding step
to `Fund` (the count of funding transactions in the statement makes it visible)
and everything else to a stutter. `Fund` may repeat: that an order funds the account once is what `CreditedOnce` says.

### The sessions (`UsageSessionProofs`)

| theorem | says |
|---|---|
| `SessionInvariant` | the inductive invariant `SessionInv` |
| `SessionTypesAreKept` | `SessionTypeOK` |
| `TablesAreImplemented` | `ImplementsTables`: any number of sessions changes the tables only by the repository's transactions |
| `SessionsKeepTheBooks` | `BooksBalance`, `CreditNotOversold`, `HoldLifecycle` and `GrantsWithinBudget` hold of the sessions, by the refinement |
| `BillsAreAlwaysRight` | `BillsAreRight` |
| `HoldsFollowOutcomes` | `HoldFollowsOutcome` |
| `CallsStayCovered` | `CallsAreCovered` |
| `RenewalsAreStopped` | `NoRenewalAfterStop` |

What the program promises about a session — a bill is the cost of a run that
was really made, a released hold belongs to a run that owes nothing — is about
rows that other sessions also write, after crashes and lost answers, so none
of it is inductive. `SessionInv` adds what makes it so: how far a session's
other fields follow from its phase (`Course`), what a session may rely on in
the tables (`Knows`: its claim is there, its hold is at least as large as what
it has been promised and is released only after a run that owes nothing), that a hold has one holder and a claimed run one session
(`OneEach`: run ids can be shared by two requests, holds and claims cannot),
that only billable runs settle or keep a hold (`KeptForBillable`), and that a hold in
period mode names a month and credit that exist (`HoldTerms`). The proof reduces every
action to one shape, `StepOf(s)`: session s goes on and, of the tables, only the hold and the
bill of its own run change, in ways `HoldMovedBy` and `BilledBy` state. One
lemma per action shows that the action has this shape; one chain of lemmas shows that
the shape keeps what the *other* sessions know (`OthersKnow`, `CoverLasts`, `BillsContinue`). The steps
that let time pass or fund the account change nothing a session knows.

### The lease of a stream (`GenerationLeaseProofs`)

| theorem | says |
|---|---|
| `LeaseInvariant` | the inductive invariant `LeaseInv` |
| `StoreStaysRight` | `StoreOK` |
| `ClosedStaysQuiet` | `ClosedIsQuiet` |
| `LeasesAreNotTaken` | `OnlyHolderReleases` |
| `AtMostOneGenerates` | `OneExecution`, if the keys outlive a lease (`KeysOutlive`) |

For any number of requests and servers. `LeaseInv` relates the three places a
generation is recorded in: the request (`Course`: one that generates and is not cancelled is in the table of its server and
has a worker, unless the server is closing; a completion is only pending for what is cancelled or over), the server
(`Stages`: what is in the table when `close` begins is the entry it stops and cancels, and nothing is
entered afterwards) and the store. That a late completion, of whichever kind, never meets the lease
of a living request follows from it, and with that `OnlyHolderReleases`.

`OneExecution` is about time. `Left(e)` is how many intervals a request can go on
without another answer of the store: it depends on `leaseValidUntil`, on the renewal under way, and on whether it has
already taken an interval. `Alone` says that the owner key outlives this time, also after the lease has
lapsed and a completion of an earlier request has shortened the ownership to the retention, so that nobody else can
claim. Every action leaves `Left` as it is or refreshes the keys, and an
interval takes one from both. The bounds in `KeysOutlive` are tight: TLC finds two
requests generating with a lease of 2 and an ownership of 4, and, with three requests, with an ownership of 5 and
a retention of 1 or 2.

### The moderation pool (`ModerationWorkersProofs`)

`AccountsAreRight` (`AccountsAddUp`) and `WakeupsAreNotLost` (`NoLostWakeup`),
for every number of goroutines, places, tasks and changes of the limits. A
wake-up can be dropped only when the channel is full, and a full channel holds a token for each
goroutine; that argument needs that goroutines are neither created nor lost
(`NoneIsLost`), which is the strengthening.

### The moderation of a run (`ModerationProofs`)

| theorem | says |
|---|---|
| `ModerationInvariant` | the inductive invariant `Inv` |
| `HitsStayInHand` | `HitsAreInHand` |
| `PassedStaysClean` | `PassedIsClean` |
| `AttendedRunsStayClosed` | `OnlyUnattendedFailOpen` |

For any number of surfaces, servers and failing calls. `PassedIsClean` speaks of a row that finalization writes
from what the coordinator was told, so the invariant follows the telling. The counter `pending` is the
number of surfaces still to be heard of (`PendingIsAwaited`; the proof counts finite sets), so that nobody is
done before every check has reported (`DoneIsEnqueued`). Until the barrier settles the coordinator knows of every hit and failure,
and prefers the question (`BarrierKnows`). Afterwards a hit is handled, and what is handled stays in somebody's
hands (the finalization, a late check, a pending block) until the content is withdrawn (`HandledIsKept`); the moment of
settling, when the obligation passes from one to the other, is where the proof is longest. `RecoveryKnows` is all
that has to be known of the recovery loops.

### Files (`FileProcessingProofs`)

| theorem | says |
|---|---|
| `ProcessingInvariant` | the inductive invariant `Inv` |
| `OneMessagePerFile` | a file has at most one message, and none once it has a dead letter (`QueueIsSound`) |
| `FilesAlwaysAgree` | `FilesAgree` |
| `OutcomesAreFinal` | `OutcomeIsFinal` |

For any files, workers and retries. That a file has one message holds whatever goes wrong, because every call
on the queue checks that the caller still owns the message and moves it in one step. The rest of the invariant says what protects the row, and that depends on
what has happened. As long as nobody stalls, a worker owns the message it handles
(`WorkIsOwned`), so that it is alone with the row and what it has seen of it stays true until it writes (`RowsAreKnown`). When
workers do stall, but no call fails, it is the attempt's stamp that keeps a
late one from the row (`OutcomesAreKept`). With both there is no protection, and the properties do not claim any: this is where their conditions come from. What is
embedded is known only without stalls and crashes and with at most one failing call: an attempt that leaves the status of its embedding
behind (`Left`) has used that call up, so the next one finds a status it may believe (`EmbeddingsAreKnown`).

### The vector index (`FileEmbeddingProofs`)

| theorem | says |
|---|---|
| `EmbeddingInvariant` | the inductive invariant `Inv` |
| `OneMessagePerSubmission` | a submission has at most one message (`QueueIsSound`) |
| `EmbeddedFilesAgree` | `FilesAgree` |

For any files, spaces, servers, workers, runs without a message and retries. Here a file may have many messages, so the queue is
sound by submission: what a user is still to enqueue has no message yet (`SubmitsAreNew`), and a submission never has two.
"A queued file has somebody to take it out of the queue" is not inductive: the message may be in the hands of
a worker that is past the step that would write the row. `QueuedIsMinded` and `ProcessingIsMinded` therefore ask for a message whose worker,
if it has one, stands where it will yet write the row or make sure of it (`Minds`), or, for a row under way, for
such a run without a message. A refused message
leaves the row to its submission, which is to release it, and only a release that is dropped leaves it to nobody; so is a job of another
space whose *stale* is dropped. Workers own what they handle as long as nobody stalls, so no other step can take the minder away. `IndexesAreKnown`
follows the chunks: whoever has published them knows whose they are, as long as the row has not come back to its space.

The search for this invariant corrected the model's properties. `ReadyIsIndexed` used to except runs without a message, but
a worker of the queue is enough to break it (three submissions, a switch there and back): the condition is now the return of the
row to a space. `DeadIsSettled` used to except nothing but stalls and cut submissions, but a run without a message
may take up the file of a dead letter and then die or fail to write: TLC found both once the proof pointed at them.
The exceptions for dropped writes and failed invalidations are needed: without `had.drops` TLC finds a queued file without a message after one refused message and one
dropped release, or after a switch and one dropped *stale*; without `admin.owed` a file stays ready in a space nobody uses.

### The replay of a stream (`GenerationReplayProofs`)

| theorem | says |
|---|---|
| `ReplayInvariant` | the inductive invariant `Inv` |
| `AnswerHolds` | the store's text is the answer without the pieces whose append failed |
| `InOrderHolds` | `InOrder` |
| `ViewIsRightHolds` | `ViewIsRight`: types, `ShownIsSaid`, `EndIsWhole` and `InOrder` |
| `NothingMissedHolds` | `NothingMissed` |
| `WithdrawnStaysAwayHolds` | `WithdrawnStaysAway` |

For every window, slack, channel, number of events and number of connections. The property is about what is shown at
the end, but the pieces reach the subscriber by four ways (checkpoint, replayed window, batch, channel), which were
read from the store at different times. The invariant says what each of them still owes.

- *What was said.* The store's text is the answer without the pieces whose append failed, in the same order
  (`AnswerInv`, which is `AnswerHolds`); without it `EndIsWhole` would speak of the store only.
- *The store.* Numbers in the window have no gap and end with `store.seq`; the window holds at least the last
  `MaxEvents` (`WindowInv`); a checkpoint is what the store has taken and is numbered after its last piece (`CheckpointInv`).
- *Records under way.* Any record that somebody still holds is a piece of what the run has said or is
  not content (`Known`): a text delta is in `run.text`; a thinking delta is in `run.think`, or belongs to a round that
  a later one has replaced, and then the event that began the new round has not been passed. A terminal has the last
  number (`EndKnown`).
- *What is shown.* `Follows(said, shown, ahead, queued, rounds)` is the heart: either what is shown begins what was
  said and each further piece is in the channel or still to be read (`Ahead`), or a round begins anew
  further on, so that what is shown will be replaced (`Anew`). `TextPlanInv` and `ThinkPlanInv`
  state it of the checkpoints that have been read, with everything after the checkpoint and the listed window still
  to come; `TextInv` and `ThinkInv` of the checkpoint that is to be written and, once it is, of what is shown. Text has no rounds, so
  for it only the first case is left, and that is `ShownIsSaid`.
- *The reader.* It hands on in order and skips nothing unless it was overtaken (`ReaderInv`), so a terminal
  that arrives leaves nothing ahead (`EndShows`), and what is shown is all that was said. `lagged` is a hypothesis of the
  properties and not an assumption: the step that sets it is part of the proof.
- *Other events.* `OtherInv`: each of those that the window must hold is shown, on its way, or beyond the reader; when the
  terminal is written, which comes after all of them, only the first is left. `NothingMissed` itself is inductive together with `Inv` and
  is proved beside it.
- *Withdrawal.* `DroppedInv`: after it the store holds nothing but the announcement, so a connection that begins
  then (`fresh`) can list, read and be sent nothing else.
- *Order.* `InOrder` excepts nothing: what is shown is in order and no piece is there twice also once the reader was overtaken,
  where `Follows` says nothing any more, or the answer withdrawn. Its invariant, `OrderInv`, is about numbers only: a
  checkpoint is at least as new as the window's events of its kind (`StoreOrder`), a plan has
  a checkpoint wherever something is shown and more may follow (`PlanOrder`), and what is still to come is newer than the
  checkpoint and, once that is written, than all that is shown (`ServeOrder`). An overtaken reader loses numbers and never gains one.

Each action has a lemma (`GenerationStep`, `ConnectStep`, `ListStep`, and so on; `StoredStep` is appending, the
longest, since it touches every part); all ways in which a connection ends share `EndedStep`.

The module was once written with selections and sorts of sequences, of which nothing could be proved. Since the order is always that
of the numbers, it now has sets, and the batch a reader takes, which used to be handed on in the step that reads it, is part of the state: between the read and the channel the
store goes on, and moderation may withdraw what the batch still holds.

### Only model-checked

All liveness properties: `FairSpec` is about fairness and `ENABLED`, which the prover does not reason about.
`HitsAreWithdrawn` and the other leads-to properties among them. Every invariant and every property of
steps that a passing run checks is also a theorem.

## 5. What the models leave out, and why

- **The saturation of `addNonNegativeInt64`**: amounts stay far below 2^63
  nanousd (9.2 billion USD).
- **The ledger of runs without `ref_no`**: the handlers always generate one
  (`EnsureMessageGenerationRunID`), so the non-idempotent path is not reached
  from a session.
- **Temporary chat** does not claim its runs; two such requests with the same
  client id share a ref. The reservation's unique index still admits one of them.
- **A late mark.** `MarkUsageReservationReconciliationRequired` does not look at the lease,
  so a lapsed hold can take up a slot again: live holds may exceed
  `MaxSlots`, and together more than the balance. This is in the model (it is why
  `GrantsWithinBudget` is an action property of grants and not an invariant on
  all states); no property claims otherwise.
- **A claim delivered after its caller gave up and abandoned it**: a request the
  server sent and timed out on could in principle reach Redis after the abandonment that followed
  it, on another connection. The lease then lapses by itself after 30
  seconds, the ownership after two hours.
- **Who may cancel or subscribe** to a run (`authorized`), and the feed of active runs.
- **The in-process store** (`infra/cache/memory/generation_stream.go`) has the same operations under one mutex.
- **Replay**: a second execution of the run, and the marking of a pending message as interrupted when its run is gone.
- **Moderation**: runs that keep nothing, images and files of an answer, the retention
  of isolated content, statistics, administration.
- **The pool**: `workerSem`, which has as many places as there are goroutines, so that nobody waits for it.
- **Files**: the transfer and its content gate, quotas, reuse of equal files, the
  processing without a queue when no cache is configured, retrieval and knowledge bases.
- **Pricing**: costs are inputs (`Charges`, `Estimates`).
- **The lease in `CallsAreCovered`**: the property relates estimate and amount; a hold that has lapsed while its
  request still calls the provider is not excluded by the code, nor by the property.
- **What `close` waits for** besides registrations and workers: `completionWG` (the background completions) and the readers
  of subscriptions are not in `GenerationLease`; `ClosesEnd` says nothing of them.
- **Settings in the middle of an upload**: whether retrieval is configured is fixed while a file is processed
  (`FileProcessing`), and its text is not blank once it was extracted.
- **Billing disabled** (`billingSvc == nil`): no operation of the tables happens.
- **Not modelled**: the components so marked in section 1. Pricing, adapters, administration and the
  frontend keep no state that several actors write; the others are planned (section 7).

## 6. Disagreements between the code and its comments

Each of these is a run whose one property states what the comment says; TLC finds a
behaviour of the code that does not keep it.

1. `UsageSessionMonth` — `AddPeriodUsageAndSettleOverage` draws on the credit of the month
   of the *hold* but counts use by `billing_at`, the *start of the run*. A run
   authorized just before the month ends and started just after is paid from one month's credit
   and counted in another's, so the first month's credit covers more
   than the plan grants. The invariant that does hold (and is proved) is
   `CreditNotOversold`, about runs billed in the month they draw on.
2. `UsageSessionOverage` — the comment speaks of settling *the part beyond the plan's
   credit* from the balance. Credit that another run merely holds counts as used; when that run
   then releases its hold, the balance has paid for cost the credit would have covered.
3. `UsageSessionMark` — a failed settlement "is marked for reconciliation as well", but mark and
   settlement share one 10 second context: a settlement that fails because the time is up
   cannot be marked, and the hold stays active until it lapses.

Further behaviours met while modelling. They are in the models (or named as left
out); the properties are stated so as not to claim them away, and no comment or test
promises otherwise:

- *Replay.* A piece whose append failed is on the live client's screen and in the stored answer, but
  never in the checkpoint, which `repository/conversation_cache.go:61` calls the complete visible text; what does hold is that nothing else is
  missing (`EndIsWhole`). A live reader slower than the generation is overtaken by the window and goes on
  after the gap without noticing (`lagged`): what it shows then has a hole, but is still in order (`InOrder`). A subscriber that resumes after a number misses the events that were trimmed
  behind it, checkpoints aside (`resumed`). A subscriber of a run that has just ended may be
  told that it was interrupted; an error of the lookup marks a live run so too. A block that comes after the run's
  lease was released leaves its events in the store until their retention ends.
- *Moderation.* Finalization may overwrite the status a late block has just written. A pending block of
  the question is replaced by a later one of the answer on the same server. A crash between withdrawing and announcing
  loses the announcement. The recovery loop of another server may fail open a run whose
  own server attends it (`OnlyUnattendedFailOpen` is therefore about one server).
- *Files.* The write of the text sets `rag_ready` before anything is embedded, and also when the upload is not to be
  embedded; the list of files (`frontend/shared/lib/file-processing.ts:157`) then says that the file *supports smart retrieval*. A worker that stalls and comes back may take a file back that was forced to
  fail, because forcing keeps the stamp; two stalls, or a stall and a failing call, may
  leave an unfinished file without a message. A claim whose answer was lost looks like another's claim. An upload that
  ends between its two writes leaves a queued file without message. The message of a deleted file, once
  its retries are used up, is neither settled nor made a dead letter: its lease lapses and it is claimed again, without end. A crash while the text is embedded leaves the embedding under way, which the next attempt takes for done; so do two failing calls, one of which is the ignored write of the failure.
- *Embedding.* A run without a message and one of the queue may embed the same file at once, and a second submission
  takes a ready file back. When a file leaves a space and comes back to it, a run that had published chunks before finds its space again
  and says ready of the chunks of the space in between. A run without a message that dies or cannot write leaves the file of a dead letter
  under way until somebody lists the files. A submission cut short leaves a queued file without message, and so does one whose message is refused and whose release fails, one whose queueing
  is not answered, and a job of another space whose *stale* fails: nothing looks for such files, and the next submission is refused. A failed
  invalidation leaves files ready in the old space until the space is saved again or a server starts. Servers other than the one that
  made the switch embed into the old space until they restart.

## 7. Plan

What would come next, in order of how much of the system depends on it:

1. `CircuitBreaker`: concurrent reports, half-open probes, key rotation.
2. `ConversationRun`: pair insertion, cancellation beside completion, interruption; composed with `GenerationLease` and `Moderation`.
3. `ActiveFeed`: snapshot plus deltas for a subscriber of a user's runs.
4. `PaymentOrder` and `Redemption`: duplicated and late callbacks, use counters, and the grant of a subscription.
5. `SubscriptionTimeline`: replacement, queueing and trimming of paid periods, checked against a reference definition.
6. `AuthSession`, `Compaction`, the reload of settings, the rate limiter.

## 8. Running

    tlc -workers 2 -config UsageSession.cfg MCUsageSession
    tlc -workers 2 -config FileProcessing.cfg MCFileProcessing
    tlapm UsageSessionProofs.tla

`PROJECT.json` lists the runs with their modules and configurations, the
definitions with the source lines they model, and the hazards with the
properties that watch them.
