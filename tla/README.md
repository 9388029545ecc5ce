# Verification of quill-cloud-proxy

A TLA+ development kept beside the enclave gateway of quill-cloud-proxy. It
models the parts of the gateway in which several goroutines, boots or services
change shared state, checks them with TLC on small instances and proves their
safety properties with TLAPS for every value of the constants.

## 1. The system

The gateway runs inside an enclave (`enclave-go/`). A request arrives over TLS,
is authorized by the control plane (quill-router, another repository), is sent
to one of the authorized providers, and its answer is streamed back. Money is
involved at three points: the authorization puts a hold on the customer's
balance; exactly one terminal call (a settle with the measured usage, or a
refund) should end that hold; a spend lease lets the enclave admit requests
before the router has answered.

| Part | Source (`enclave-go/`) | Modelled by |
| --- | --- | --- |
| Request handlers | `cmd/enclave/main.go`, `settlement.go` | `StreamingRequest` |
| Provider candidates, fallback, retry | `cmd/enclave/provider_stream.go` | `ProviderInvocation` |
| Stream adapter (order of its exits) | `internal/adapter/adapter.go` | `StreamingRequest` |
| Spend-lease state | `internal/spendlease/state.go` | `SpendLease` |
| Admission plans, invocation registry | `internal/trustedrouter/stage_c.go`, `authorization_retry.go`, `spend_lease.go` | `SpendLease` |
| Retry queue of failed settles and refunds | `cmd/enclave/settlement_retry.go` | `SettlementRetryQueue` |
| Outbox writer | `internal/settleoutbox/outbox.go` | `SettleOutboxWriter` |
| Outbox sweeper, object store | `internal/settleoutbox/sweeper.go`, `internal/batch/gcs.go` | `SettleOutboxSweeper` |
| What the outbox promises | comments of `sweeper.go` | `SettleOutbox` |

A terminal travels through these parts in order. A handler makes a settle or
refund call (`StreamingRequest`). If the call fails the terminal is frozen and
retried by a worker (`SettlementRetryQueue`). If the retries are exhausted or the
enclave stops, it is parked as an object (`SettleOutboxWriter`). Any boot's
sweeper replays parked objects and files them (`SettleOutboxSweeper`, which
implements `SettleOutbox`).

`PROJECT.json` lists every part of the repository, with the reason for those
that are not modelled; section 7 summarises them.

## 2. Modules

`SettleOutbox` is the abstract promise: a parked terminal stays owed until a
copy is filed, a copy reaches `done/` only after the router settled it, and
nothing filed disappears.

`SettleOutboxSweeper` has one action per store call, router call and loop step
of a sweeper. State shared by all boots: the pending objects with their
generations, the lease objects, the filed copies. State of one sweeper: the
page, the paging token, the object in hand, and the generations it has read.
Every call may fail, before or after it took effect, and a boot may die at any
point (`Crash`). Time is relative: a lease carries the ticks it has left, a
sweeper the ticks since it read its clock, so that the sweeper's habit of
reading the clock before two store calls is visible.

`ProviderInvocation` is one goroutine of `invokeProviderStream` with its
`selectedRouteTracker`, its `routeSelectingWriter` and its `io.Pipe`. A request
under a spend lease may own two of them. `StreamingRequest` is the handler: the
reserve of a lease admission, the wait for a route, the response head, the
pump of the adapter, the settle before, after or beside the terminal event, and
the paths that refund. A chat stream batches its frames (`conf.batch`), so a client
that left may be noticed only at a flush; a responses stream writes each frame at
once. The router keeps the first terminal call it is given; a call may be lost,
applied with its answer lost, or applied after its caller timed out. The retry
queue is here what `SettlementRetryQueue` allows it to be: it may refuse a job,
repeat it, give it up or lose it to an eviction or an exit, and what it gave up
stays visible in `dropped`. A goroutine may ignore its abort; the two waits for it,
in `AfterTerminal` and in `join`, end with the goroutine or with their timer. The
model assumes a configured router; it leaves out
`serveMessages`, which repeats the discipline with other frames, and the control
plane's own expiry of holds.

`SpendLease` is one API key's slot. `remaining` and `status` of a grant are two
atomics in the code and each load, store and compare-and-swap is its own
action. The mutex of an invocation, the in-flight scopes and the map of
registered plans are the state through which one invocation reserves an
admission at most once. Router responses may carry any generation in any order.

`SettleOutboxWriter` is the outbox's bounded queue, its one goroutine, the count of
unwritten entries and the condition variable of `Flush`. `SettlementRetryQueue`
extends it with the retry channel, the hold timers, the worker and the shutdown
sequence of `main`. The two selects of `Enqueue`, the two halves of an offer, and
the two reads of an idle check are separate steps. A job carries what the
properties need: where it is, who carries it, its attempt and whether freezing it
gave a terminal, nothing or an error.

`MCSettleOutboxSweeper`, `MCSpendLease` and `MCSettlementRetryQueue` only name
instances for TLC.

A definition whose name begins with `Mutant` (in the sweeper module: one with a
comment `Mutant:`) is a deliberately wrong variant of the definition after it. It is
used by no specification; it shows that a property fails when the code is wrong in
that way.

## 3. Runs

Every run fits in five minutes. Deadlock is checked everywhere: a model that may
end has an explicit `Finished` step, so any other stop is an error.

| Run | Question | Instance |
| --- | --- | --- |
| `sweeper_safety` | Do racing sweepers lose, misfile or steal anything, and do they keep the outbox's promise, also when a lease runs out during its replay? | 2 sweepers, 1 terminal parked up to twice, 2 faults; lease of 3, calls of 1 tick |
| `sweeper_fates` | Does each router answer put the object where it belongs? | 3 terminals, one per way out |
| `sweeper_liveness` | Is every parked terminal filed, also behind one that always fails? | 2 terminals, page of 1 |
| `sweeper_replay_lease` (violation) | Does a replay keep its lease with the code's durations? | lease 120 s, store calls 45 s, in units of 15 s |
| `request_ordinary` | Every path of an ordinary request: one terminal call, the right route billed, no settle of a complete answer forgotten, and every handler ends | 2 candidates, 1 retry, 1 chunk |
| `request_lease` | A request invoked before its reserve is answered | 2 invocations of 2 candidates, 1 chunk, settled after the terminal event |
| `lease_grants` | Can racing admissions and late responses overspend, raise, revive or strand a grant, reach a grant that is not theirs, or keep a request from ending? | 2 requests, 2 generations, cap 2 |
| `lease_registry` | Are scopes and idempotency keys used once? | 3 requests, 2 invocations, 1 key |
| `retry_queue` | Does a job ever fall between two owners, and is what the shutdown waits on exact? | 3 jobs, queue of 1, 2 outbox writes |
| `retry_liveness` | Does every job leave the queue, whatever freezing it gives, and is the worker's own re-enqueue safe? | 2 jobs of every kind, 2 attempts |
| `retry_exit_lost` (violation) | Is every job parked at exit? | 2 jobs |
| `retry_flush_asleep` (violation) | Does the flush return when nothing is pending? | 3 jobs, queue disabled |

Bounds. Two sweepers, two requests of one invocation and three jobs on a queue
of one are the smallest instances in which a third party can act between two
steps of two others; the races the properties are about need no more. Queues
and pages of one are always at their limit. A cap of two with estimates of one
and two reaches an estimate above, equal to and below what is left. One chunk is
enough for the request: a delta leaves the handler where it was, so a second one
takes the steps of the first. With two candidates the route a stale invocation
selected can differ from the served one's. The lease run keeps to one order of
settle and terminal event; the orders are compared by `request_ordinary`. Faults are
counted (`MaxFaults`) so that liveness runs have an end to them. Symmetry is used
only in runs without liveness properties.

Fairness. The sweep loop, the handlers, the retry worker and the writer are goroutines
that nothing blocks for good: every HTTP call carries a timeout, every backoff a
timer, and the compare-and-swap loops are retried by a running goroutine. So
weak fairness is assumed of these steps, of the clock of the sweeper model and of
the hold timers. It is not assumed that a client leaves, that a shutdown begins,
that a flush budget ends, or that a provider writes anything; a provider call is
assumed to return while its reader is open, because the first-byte timer, the idle
deadline and the client's total timeout bound it. Nothing is assumed of a call once
its invocation was aborted ("A Client can ignore cancellation", `join`), so
`HandlerEnds` rests on the caps of the two waits. Nothing is assumed of the router
or of the retry queue in the request model; that the queue's jobs end is `JobEnds` of
`SettlementRetryQueue`.

## 4. Where the code and its comments disagree

Three runs end in a counterexample; each checks one property taken from a comment.

* `sweeper_replay_lease`: a lease is dated from a clock read before two store
  calls of up to 45 s, and a third call precedes the replay, so the two minute
  lease can end during a 45 s replay (`sweeper.go:49` says it cannot). The router
  keeps the first terminal, so nothing is billed twice, and `sweeper_safety` shows
  that a lease lost in this way costs no terminal.
* `retry_exit_lost`: the shutdown flush parks the jobs in the channel, not the
  one in the worker's hands nor a released hold that has not reached the channel.
* `retry_flush_asleep`: `Writer.Offer` lowers the pending count without a
  broadcast when its queue is full, and a flush that saw the higher count sleeps
  until its budget ends. The cost is the flush budget of a shutdown, not a
  terminal.

## 5. Proofs

Each proof module extends the module it is about. All results hold for every
value of the constants that satisfies the named assumptions (counts are naturals,
caps and limits positive, sets of the declared kind); no finiteness is assumed.

`SettleOutboxSweeperProofs` proves, for any number of sweepers, terminals,
failures and deaths: the types, `NoTerminalLost`, `FiledByFate`,
`LiveLeaseUndisturbed`, and that the sweepers implement `SettleOutbox`.
`NoTerminalLost` is not inductive: the step that deletes the pending object must know
that the copy was made (`FilingInv`), the step that makes it that the prefix is
deserved, and a claim that the lease it read as over stays over while its
generation stands (`LeaseInv`).

`StreamingRequestProofs` proves, for any number of candidates, retries and
chunks: the types, `OneTerminal`, `BilledRoute`, `HeadMeansAccepted`,
`OutputAccounted`, `AnswerOwned` and `CommitFinal`. The strengthening says that a goroutine which
selected a route stays on it and that what waits in its pipe came from it
(`RouteKept`), where in the handler a provider must have accepted
(`RouteOfAnswer`), which calls the router has been sent at each place
(`SentSoFar`), what the client has seen there (`SeenSoFar`), and who owns the settle
of an answer (`Ledger`): every call on its way, queued or dropped was made by the
handler, so a refunded router means a refund was made, and with `OneTerminal` a
settle that leaves the queue delivered has been applied.

`SpendLeaseProofs` proves, for any requests, keys, estimates and generations: the
types, `UpperBound`, `ScopesHeld`, `OneDispatch`, `ExhaustionMarked` and
`NeverRaised`. The strengthening says that what a request has loaded
still bounds what it is about to store (`Snapshots`), and that a key stays unused
while a request of its invocation prepares it under the lock (`Registry`). The
proof of a step goes through its shape: which record changed, which scope was taken
or released, and how the two atomics of a grant moved.

`SpendLeaseGrantProofs` proves from it `NewerUntouched` and `OwnAnswers`: a used grant
is never put ahead of the slot again, and only an answer to a receipt of a grant
disables it or takes more from it than was spent. The strengthening (`GInv`) says
that the grant a request points at is the current one or an earlier one, and which
answer a request holds at each step.

## 6. Only model-checked

Liveness (`EventuallyFiled`, `HandlerEnds`, `RequestEnds`, `JobEnds`,
`FlushWakes`) is out of the prover's reach. The retry queue and the writer are so
far only checked on instances.

## 7. Not modelled

* Wire formats, provider clients, message translation, receipts, attestation,
  TLS, bootstrap, the parent process and the deployment tools: sequential
  translation, cryptography or I/O against external services. What a provider or
  the router may answer is a choice in the models.
* Signatures and claims of leases and parked objects are checked by the code
  before it changes state; the models keep only whether the check passed.
* Billing arithmetic and estimates: an estimate is a number given to the model.
* The JSON of parked objects; the sweeper's model starts from objects the writer
  wrote.

## 8. Plan

In the order of what they protect:

1. `BatchJobs`: a batch job as a stored object under a worker lease: claim,
   maintenance, checkpoints, expiry, the move to its terminal place, worker death
   at every store call. Abstract promise: every item is executed and settled
   once, a job ends once, a lost lease writes nothing. Then the native
   batch service over the same store.
2. `UsageHeartbeat`: the Stage D meter, cadence and cap against late and lost
   heartbeat answers; composed with `StreamingRequest`, which now lets a heartbeat
   end the stream at any time.
3. `ConnectionDrain`: connections, requests and the health endpoint during a shutdown
   ("a persistent connection cannot start another request after draining begins"),
   and the composition of drain, retry flush and outbox flush with the budgets of
   the runbook.
4. Endpoint pinning and frozen terminals: a terminal goes to the endpoint that
   authorized it, through retries and replays.
5. `ShadowCoordinator`: refreshes, grants and recovery with answers out of order.
6. Shared caches and breakers: the provider circuit, billing backoff, the abuse
   limiter, the BYOK cache, the certificate caches; the broadcast queue.
7. Orchestrated requests and video jobs: one settle or refund for many provider
   calls.
8. A composition of retry queue, writer and sweeper that shows the whole path of a
   terminal to implement one abstract promise.

Proofs follow each module: the type invariant and its main safety invariant first, then
the retry queue's `EveryJobPlaced`, `PendingExact` and `IdleIsIdle`.
