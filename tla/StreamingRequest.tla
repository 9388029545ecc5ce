-------------------------- MODULE StreamingRequest --------------------------
(***************************************************************************)
(* One chat or responses request from its authorization to the end of its  *)
(* handler: serveOneRequest's tail, serveStreaming and the two             *)
(* non-streaming handlers, with the settle and refund calls they make to   *)
(* the router, beside the provider goroutines of ProviderInvocation.       *)
(* The client may go and a shutdown may cancel the request at any moment;  *)
(* a call to the router may be applied and its answer lost, fail, or       *)
(* arrive after the caller gave up; a provider may ignore its abort.       *)
(***************************************************************************)
EXTENDS ProviderInvocation

CONSTANTS
    Leases,      \* may the request start under a spend lease
    Terms        \* when a stream is settled relative to its terminal event

ASSUME LeaseAssumption == Leases \subseteq BOOLEAN
ASSUME TermAssumption == Terms \subseteq {"after", "before", "async"}

VARIABLES
    conf,        \* how the request is served
    hpc,         \* where the handler is
    cur,         \* the invocation it serves
    saw,         \* sawUpstreamBytes
    settledBT,   \* settledBeforeTerminal
    delivered,   \* deliveredOutput
    out,         \* what the client was sent
    gone,        \* writes to the client fail
    drained,     \* shutdown cancelled the request's context
    sent,        \* settle and refund calls made
    wire,        \* calls on their way to the router after a timeout
    queue,       \* calls settlementRetries is to repeat
    dropped,     \* calls it gave up or lost; with an outbox they are parked
    router       \* the authorization at the router

hvars == <<conf, hpc, cur, saw, settledBT, delivered, out, gone, drained>>
rvars == <<sent, wire, queue, dropped, router>>
vars == <<pvars, hvars, rvars>>

(* stage: Stage D heartbeats; term: when a stream is settled relative to   *)
(* its terminal event; batch: a chat stream, whose writes are batched;     *)
(* priced: a candidate price was promised, which only a buffered answer    *)
(* reads; lease: the request was admitted from a spend lease.  Stage D and *)
(* the responses route never settle after the terminal event.              *)
Confs == {c \in [stage : BOOLEAN, term : Terms, batch : BOOLEAN,
                 priced : BOOLEAN, lease : Leases] :
             c.term = "after" => c.batch /\ ~c.stage}

PCs == {"reserve", "refuse", "start", "await", "heartbeat", "head", "failHead",
        "pump", "flush", "settle", "emit", "afterTerminal", "wait", "reply",
        "broken", "cleanup", "join", "ended"}

Msgs == [kind : {"settle", "refund"}, route : 0..NCand]
Output == [start : {"none", "head", "body", "error"},
           routes : SUBSET (Inv \X (0..NCand)), end : {"none", "done", "failed"}]
RefundMsg == [kind |-> "refund", route |-> None]

(* The type invariant of the request.                                      *)
TypeOK ==
    /\ ProviderTypeOK
    /\ conf \in Confs /\ hpc \in PCs /\ cur \in Inv
    /\ saw \in BOOLEAN /\ settledBT \in BOOLEAN /\ delivered \in BOOLEAN
    /\ out \in Output
    /\ gone \in BOOLEAN /\ drained \in BOOLEAN
    /\ sent \subseteq Msgs /\ wire \subseteq Msgs
    /\ queue \subseteq Msgs /\ dropped \subseteq Msgs
    /\ router \in {"none", "held", "settled", "refunded"}

(* A lease admission is invoked before it is reserved; any other request   *)
(* reaches this point authorized, its local checks passed or failed.       *)
Init ==
    /\ streaming \in BOOLEAN
    /\ conf \in Confs
    /\ IF streaming THEN ~conf.priced ELSE conf.term = "after"
    /\ ProviderInit(IF conf.lease THEN {"spec"} ELSE {})
    /\ hpc \in IF conf.lease THEN {"reserve"} ELSE {"start", "refuse"}
    /\ cur = IF conf.lease THEN "spec" ELSE "main"
    /\ saw = FALSE /\ settledBT = FALSE /\ delivered = FALSE
    /\ out = [start |-> "none", routes |-> {}, end |-> "none"]
    /\ gone = FALSE /\ drained = FALSE
    /\ sent = {} /\ wire = {} /\ queue = {} /\ dropped = {}
    /\ router = IF conf.lease THEN "none" ELSE "held"

-----------------------------------------------------------------------------
(* The router and the calls to it.                                         *)

(* The router keeps the first terminal call of an authorization.           *)
Applied(m) ==
    IF router # "held" THEN router
    ELSE IF m.kind = "settle" THEN "settled" ELSE "refunded"

Results == {"ok", "lost", "failed", "late"}

(* What a call does to the router: taken, taken and its answer lost, not   *)
(* taken, or still on its way when the caller stops waiting.               *)
Deliver(m, r) ==
    /\ router' = IF r \in {"ok", "lost"} THEN Applied(m) ELSE router
    /\ wire' = IF r = "late" THEN wire \cup {m} ELSE wire

Post(m, r) ==
    /\ sent' = sent \cup {m}
    /\ Deliver(m, r)

MutantEnqueueLost(m) == UNCHANGED <<queue, dropped>>

(* Enqueue: a job is queued, or dropped by a disabled or a full queue.     *)
Enqueue(m) ==
    \/ queue' = queue \cup {m} /\ UNCHANGED dropped
    \/ dropped' = dropped \cup {m} /\ UNCHANGED queue

(* Refund: postRefund detaches from the request's context; its error is    *)
(* dropped unless the caller hands it to the retry queue.                  *)
Refund(retry) ==
    \E r \in Results :
       /\ Post(RefundMsg, r)
       /\ IF retry /\ r # "ok" THEN Enqueue(RefundMsg)
          ELSE UNCHANGED <<queue, dropped>>

(* Settle: a cancelled request's settle fails unless the output was        *)
(* delivered first (settlementContext is then detached).                   *)
Settle(m, r) ==
    /\ drained /\ ~delivered => r = "failed"
    /\ Post(m, r)

RouterTakes ==
    \E m \in wire :
       /\ wire' = wire \ {m}
       /\ router' = Applied(m)
       /\ UNCHANGED <<pvars, hvars, sent, queue, dropped>>

giveUp(m) ==
    /\ queue' = queue \ {m}
    /\ dropped' = dropped \cup {m}

(* process: the worker posts a job; one that fails returns to the queue,   *)
(* or is given up after its last attempt or by a full queue.               *)
RetryJob ==
    \E m \in queue, r \in Results :
       /\ Deliver(m, r)
       /\ \/ r = "ok" /\ queue' = queue \ {m} /\ UNCHANGED dropped
          \/ r # "ok" /\ UNCHANGED <<queue, dropped>>
          \/ r # "ok" /\ giveUp(m)
       /\ UNCHANGED <<pvars, hvars, sent>>

(* Another request's Enqueue evicts the job, or the process exits with it. *)
JobEvicted ==
    \E m \in queue :
       /\ giveUp(m)
       /\ UNCHANGED <<pvars, hvars, sent, wire, router>>

-----------------------------------------------------------------------------
(* Admission.                                                              *)

Goto(pc) == hpc' = pc /\ UNCHANGED <<conf, cur, saw, settledBT, delivered, out, gone, drained>>

(* Where a handler that owns an invocation begins.                         *)
served == IF streaming THEN "await" ELSE "pump"

Reply(start) == IF gone THEN out ELSE [out EXCEPT !.start = start]

(* ReserveSpendLeaseAdmission: an error ends the request whether or not    *)
(* the router made the hold; an unmarked answer replaces the invocation    *)
(* already started; a marked one keeps it.                                 *)
Reserve ==
    /\ hpc = "reserve"
    /\ \/ /\ router' \in {"none", "held"}
          /\ hpc' = "join" /\ out' = Reply("error")
          /\ abort("spec") /\ UNCHANGED cur
       \/ /\ router' = "held" /\ hpc' \in {"start", "refuse"}
          /\ cur' = "main"
          /\ abort("spec") /\ UNCHANGED out
       \/ /\ router' = "held" /\ hpc' = served
          /\ UNCHANGED <<cur, out, pipe, cancelled>>
       \/ /\ router' = "held" /\ hpc' = "refuse"
          /\ abort("spec") /\ UNCHANGED <<cur, out>>
    /\ UNCHANGED <<streaming, pv, tr, conf, saw, settledBT, delivered, gone,
                   drained, sent, wire, queue, dropped>>

MutantRefuseGoesOn ==
    /\ hpc = "refuse"
    /\ Refund(FALSE)
    /\ hpc' = "start" /\ out' = Reply("error")
    /\ UNCHANGED <<pvars, conf, cur, saw, settledBT, delivered, gone, drained>>

(* The reserved authorization fails a local check: routing integrity, the  *)
(* provider key, the adapter or request tags.                              *)
Refuse ==
    /\ hpc = "refuse"
    /\ Refund(FALSE)
    /\ hpc' = "join" /\ out' = Reply("error")
    /\ UNCHANGED <<pvars, conf, cur, saw, settledBT, delivered, gone, drained>>

Start ==
    /\ hpc = "start"
    /\ startProviderInvocation("main")
    /\ Goto(served)
    /\ UNCHANGED <<streaming, tr, pipe, cancelled, rvars>>

(* ToAnthropic fails after an ordinary authorization: the request ends     *)
(* with an error and without a refund.                                     *)
AdapterFails ==
    /\ hpc = "start" /\ ~conf.lease
    /\ hpc' = "join" /\ out' = Reply("error")
    /\ UNCHANGED <<pvars, rvars, conf, cur, saw, settledBT, delivered, gone, drained>>

-----------------------------------------------------------------------------
(* Before the response head.                                               *)

Await ==
    /\ hpc = "await" /\ (tr[cur].ready \/ pv[cur].pc = "done")
    /\ Goto(IF tr[cur].failure THEN "failHead"
            ELSE IF conf.stage THEN "heartbeat" ELSE "head")
    /\ UNCHANGED <<pvars, rvars>>

(* The first heartbeat of a Stage D stream; refused, the router has        *)
(* already ended the authorization or will reap it.                        *)
PreHeader ==
    /\ hpc = "heartbeat"
    /\ \/ Goto("head") /\ UNCHANGED <<pipe, cancelled>>
       \/ /\ hpc' = "cleanup" /\ out' = Reply("error")
          /\ abort(cur)
          /\ UNCHANGED <<conf, cur, saw, settledBT, delivered, gone, drained>>
    /\ UNCHANGED <<streaming, pv, tr, rvars>>

(* WriteStreamHead, serialized with SetFailure by the tracker's lock.      *)
WriteStreamHead ==
    /\ hpc = "head"
    /\ IF tr[cur].failure THEN Goto("failHead")
       ELSE /\ hpc' = IF gone THEN "cleanup" ELSE "pump"
            /\ out' = Reply("head")
            /\ UNCHANGED <<conf, cur, saw, settledBT, delivered, gone, drained>>
    /\ UNCHANGED <<pvars, rvars>>

(* The reservation is refunded, without a retry, and the client told.      *)
refundFailed ==
    /\ Refund(FALSE)
    /\ pipe' = [pipe EXCEPT ![cur].read = "closed"]
    /\ hpc' = "cleanup" /\ out' = Reply("error")
    /\ UNCHANGED <<streaming, pv, tr, cancelled, conf, cur, saw, settledBT,
                   delivered, gone, drained>>

failBeforeHead ==
    /\ hpc = "failHead" /\ streaming
    /\ refundFailed

(* A buffered answer was not collected, or is not the structured output    *)
(* that was asked for.                                                     *)
collectFailed ==
    /\ hpc = "failHead" /\ ~streaming
    /\ refundFailed

-----------------------------------------------------------------------------
(* The answer.                                                             *)

(* Where a complete answer goes: a stream settled before its terminal      *)
(* event flushes its batch first, except under Stage D, which keeps none.  *)
finish ==
    IF ~streaming THEN "settle"
    ELSE IF conf.term # "before" THEN "emit"
    ELSE IF conf.stage THEN "settle" ELSE "flush"

broken == IF streaming THEN "broken" ELSE "failHead"

(* A stream's last chunks go out first, and fail if the client has gone; a *)
(* buffered answer may not be the structured output that was asked for.    *)
ending ==
    {finish} \cup (IF ~streaming THEN {"failHead"}
                   ELSE IF gone THEN {"broken"} ELSE {})

(* After a delta: a write to a client that has gone fails, a batched one   *)
(* perhaps only when the batch is flushed.                                 *)
goingOn ==
    IF ~streaming \/ ~gone THEN {"pump"}
    ELSE IF conf.batch THEN {"pump", "broken"} ELSE {"broken"}

readItem ==
    /\ pipe[cur].item # "none"
    /\ pipe' = [pipe EXCEPT ![cur] = [@ EXCEPT !.item = "none", !.from = None]]

(* A block is read and, streaming, written on; or the scanner refuses it;  *)
(* or the pipe has ended.                                                  *)
Pump ==
    /\ hpc = "pump"
    /\ \/ /\ readItem /\ pipe[cur].item = "delta"
          /\ saw' = TRUE
          /\ hpc' \in goingOn
          /\ out' = IF ~streaming \/ gone THEN out
                    ELSE [out EXCEPT !.routes = @ \cup {<<cur, pipe[cur].from>>}]
       \/ /\ readItem /\ pipe[cur].item = "stop"
          /\ saw' = TRUE
          /\ hpc' \in ending /\ UNCHANGED out
       \/ /\ readItem
          /\ hpc' = broken
          /\ UNCHANGED <<saw, out>>
       \/ /\ pipe[cur].item = "none" /\ pipe[cur].write = "eof"
          /\ hpc' \in IF saw THEN ending ELSE {broken}
          /\ UNCHANGED <<pipe, saw, out>>
       \/ /\ pipe[cur].item = "none" /\ pipe[cur].write = "err"
          /\ hpc' = broken
          /\ UNCHANGED <<pipe, saw, out>>
    /\ UNCHANGED <<streaming, pv, tr, cancelled, conf, cur, settledBT,
                   delivered, gone, drained, rvars>>

(* Stage D lost its heartbeat or reached the cap: the provider is          *)
(* cancelled and what was sent is finished as a truncated answer.          *)
HeartbeatLost ==
    /\ hpc = "pump" /\ conf.stage
    /\ abort(cur)
    /\ \E pc \in ending : Goto(pc)
    /\ UNCHANGED <<streaming, pv, tr, rvars>>

(* BeforeTerminal: the batched deltas, if any are left, go out before the  *)
(* settle is tried.                                                        *)
Flush ==
    /\ hpc = "flush"
    /\ \/ Goto("settle")
       \/ gone /\ conf.batch /\ Goto("broken")
    /\ UNCHANGED <<pvars, rvars>>

(* The settle of an answer.  A stream's settle that fails becomes a retry  *)
(* job.  So does a body's with a promised price; without one the client    *)
(* gets an error.                                                          *)
settleRoute(route) ==
    /\ hpc = "settle"
    /\ LET m == [kind |-> "settle", route |-> route] IN
       \E r \in Results :
         /\ Settle(m, r)
         /\ IF r # "ok" /\ (streaming \/ conf.priced) THEN Enqueue(m)
            ELSE UNCHANGED <<queue, dropped>>
         /\ settledBT' = (settledBT \/ (streaming /\ conf.term = "before"))
         /\ IF ~streaming
              THEN IF r = "ok" \/ conf.priced
                     THEN hpc' = "reply" /\ UNCHANGED out
                     ELSE hpc' = "cleanup" /\ out' = Reply("error")
              ELSE /\ hpc' = IF conf.term = "after" THEN "cleanup" ELSE "emit"
                   /\ UNCHANGED out
    /\ UNCHANGED <<pvars, conf, cur, saw, delivered, gone, drained>>

MutantSettleStale == settleRoute(tr["spec"].selected)

MutantSettlePrimary == settleRoute(1)

SettleAnswer == settleRoute(tr[cur].selected)

(* The body is built before the settle and annotated after it; either may  *)
(* fail.                                                                   *)
Respond ==
    /\ hpc = "reply"
    /\ \E start \in {"body", "error"} : out' = Reply(start)
    /\ hpc' = "cleanup"
    /\ UNCHANGED <<pvars, rvars, conf, cur, saw, settledBT, delivered, gone, drained>>

EncodeFails ==
    /\ hpc = "settle" /\ ~streaming
    /\ out' = Reply("error") /\ hpc' = "cleanup"
    /\ UNCHANGED <<pvars, rvars, conf, cur, saw, settledBT, delivered, gone, drained>>

(* Emit and the closing of the batch: the receipt hook may fail, a client  *)
(* that went fails both.  An asynchronous settlement is made in the middle *)
(* of it, by AfterTerminal: after the finish of a chat stream, but before  *)
(* the one of a responses stream or of a truncated Stage D answer.         *)
Emit ==
    /\ hpc = "emit"
    /\ \/ Goto("broken")
       \/ /\ conf.term = "async" /\ ~delivered
          /\ gone => ~conf.batch \/ conf.stage
          /\ Goto("afterTerminal")
       \/ /\ ~gone /\ (conf.term = "async" => delivered)
          /\ out' = [out EXCEPT !.end = "done"]
          /\ hpc' = IF conf.term = "after" THEN "settle" ELSE "cleanup"
          /\ UNCHANGED <<conf, cur, saw, settledBT, delivered, gone, drained>>
    /\ UNCHANGED <<pvars, rvars>>

(* AfterTerminal: a chat stream is flushed, which fails only if something  *)
(* was left to write; then the provider is aborted and its cleanup waited  *)
(* for.                                                                    *)
AfterTerminal ==
    /\ hpc = "afterTerminal"
    /\ \/ /\ gone /\ conf.batch
          /\ Goto("broken") /\ UNCHANGED <<pipe, cancelled>>
       \/ /\ \/ conf.batch /\ out' = [out EXCEPT !.end = "done"]
             \/ (conf.batch => conf.stage) /\ UNCHANGED out
          /\ delivered' = TRUE /\ settledBT' = TRUE
          /\ hpc' = "wait"
          /\ abort(cur)
          /\ UNCHANGED <<conf, cur, saw, gone, drained>>
    /\ UNCHANGED <<streaming, pv, tr, rvars>>

(* The wait ends with the provider or with the request's context, ...      *)
providerDone ==
    /\ hpc = "wait" /\ (pv[cur].pc = "done" \/ drained)
    /\ Goto("settle")
    /\ UNCHANGED <<pvars, rvars>>

(* ... or after five seconds.                                              *)
cleanupTimeout ==
    /\ hpc = "wait"
    /\ Goto("settle")
    /\ UNCHANGED <<pvars, rvars>>

MutantBrokenSilent ==
    /\ hpc = "broken"
    /\ Goto("cleanup")
    /\ UNCHANGED <<pvars, rvars>>

MutantBroken ==
    /\ hpc = "broken"
    /\ IF delivered THEN Goto("cleanup") /\ UNCHANGED rvars
       ELSE /\ Refund(conf.stage /\ out.routes # {})
            /\ out' = IF gone THEN out ELSE [out EXCEPT !.end = "failed"]
            /\ hpc' = "cleanup"
            /\ UNCHANGED <<conf, cur, saw, settledBT, delivered, gone, drained>>
    /\ UNCHANGED pvars

(* A stream that broke after its head: refunded unless a settle was tried, *)
(* then ended with an error event.  Delivered output is final.             *)
Broken ==
    /\ hpc = "broken"
    /\ IF delivered THEN Goto("cleanup") /\ UNCHANGED rvars
       ELSE /\ IF settledBT THEN UNCHANGED rvars
               ELSE Refund(conf.stage /\ out.routes # {})
            /\ out' = IF gone THEN out ELSE [out EXCEPT !.end = "failed"]
            /\ hpc' = "cleanup"
            /\ UNCHANGED <<conf, cur, saw, settledBT, delivered, gone, drained>>
    /\ UNCHANGED pvars

-----------------------------------------------------------------------------
(* The end of the handler, and its environment.                            *)

(* The deferred abort comes before the deferred joins.                     *)
Cleanup ==
    /\ hpc = "cleanup"
    /\ abort(cur)
    /\ Goto("join")
    /\ UNCHANGED <<streaming, pv, tr, rvars>>

(* The joins wait for the goroutines, ...                                  *)
join ==
    /\ hpc = "join" /\ \A k \in Inv : pv[k].pc \in {"idle", "done"}
    /\ Goto("ended")
    /\ UNCHANGED <<pvars, rvars>>

MutantJoinUncapped == join

(* ... each for five seconds at most: a goroutine may outlive its handler. *)
joinTimeout ==
    /\ hpc = "join"
    /\ Goto("ended")
    /\ UNCHANGED <<pvars, rvars>>

ClientGoes ==
    /\ ~gone /\ hpc # "ended"
    /\ gone' = TRUE
    /\ UNCHANGED <<pvars, rvars, conf, hpc, cur, saw, settledBT, delivered, out, drained>>

(* serveWithDrain's forced shutdown: cancelRequests, then every            *)
(* connection is closed.                                                   *)
Drain ==
    /\ ~drained /\ hpc # "ended"
    /\ drained' = TRUE /\ gone' = TRUE
    /\ cancelled' = [k \in Inv |-> TRUE]
    /\ UNCHANGED <<streaming, pv, tr, pipe, rvars, conf, hpc, cur, saw,
                   settledBT, delivered, out>>

Handler ==
    \/ Reserve \/ Refuse \/ Start \/ AdapterFails \/ Await \/ PreHeader
    \/ WriteStreamHead \/ failBeforeHead \/ collectFailed \/ Pump \/ HeartbeatLost
    \/ Flush \/ SettleAnswer \/ Respond \/ EncodeFails \/ Emit \/ AfterTerminal
    \/ providerDone \/ cleanupTimeout \/ Broken \/ Cleanup \/ join \/ joinTimeout

Providers(k) == ProviderStep(k) /\ UNCHANGED <<hvars, rvars>>

Finished ==
    /\ hpc = "ended" /\ wire = {} /\ queue = {}
    /\ \A k \in Inv : pv[k].pc \in {"idle", "done"}
    /\ UNCHANGED vars

Next ==
    \/ Handler \/ (\E k \in Inv : Providers(k))
    \/ RouterTakes \/ RetryJob \/ JobEvicted \/ ClientGoes \/ Drain \/ Finished

Spec == Init /\ [][Next]_vars

(* The handler and the goroutines are scheduled, a provider call returns   *)
(* while its reader is open.  Nothing is assumed of a call that was        *)
(* aborted, nor of the router and the retry queue.                         *)
Fairness ==
    /\ WF_vars(Handler)
    /\ \A k \in Inv : WF_vars(ProviderProgress(k) /\ UNCHANGED <<hvars, rvars>>)

FairSpec == Spec /\ Fairness

-----------------------------------------------------------------------------
(* An authorization is never both settled and refunded by this enclave:    *)
(* "Never refund after attempting settlement, even if Emit fails"          *)
(* (serveStreaming), on any path through the handler.                      *)
OneTerminal ==
    ~(\E a, b \in sent : a.kind = "settle" /\ b.kind = "refund")

(* Everything the client was sent came from one candidate of one           *)
(* invocation, and a settle bills exactly that route.                      *)
BilledRoute ==
    /\ out.routes \subseteq {<<cur, tr[cur].selected>>}
    /\ \A m \in sent : m.kind = "settle" =>
          m.route = tr[cur].selected /\ m.route # None

(* A 200 head is written only after a provider accepted the request.       *)
HeadMeansAccepted ==
    out.start = "head" => tr[cur].selected # None

(* A handler that ends after the client was sent any output has made a     *)
(* terminal call for it, and for a complete answer that call is a settle.  *)
OutputAccounted ==
    hpc = "ended" =>
       /\ out.routes # {} => sent # {}
       /\ out.end = "done" \/ out.start = "body" =>
             \E m \in sent : m.kind = "settle"

(* Once a candidate is committed the goroutine attempts no other: fallback *)
(* never duplicates output (retryableInvokeError, the commit check of      *)
(* invokeProviderStream).                                                  *)
CommitFinal ==
    [][\A k \in Inv : tr[k].selected # None =>
          /\ tr'[k].selected = tr[k].selected
          /\ tr'[k].attempts = tr[k].attempts
          /\ pv'[k].try = pv[k].try]_vars

(* A complete answer is never forgotten: once its handler has ended it is  *)
(* settled at the router, or the retry queue holds its settle or dropped   *)
(* it, which parks or logs it (settleStream, settlementRetryQueue).        *)
AnswerOwned ==
    hpc = "ended" /\ (out.end = "done" \/ out.start = "body") =>
       \/ router = "settled"
       \/ \E m \in queue \cup dropped : m.kind = "settle"

(* Every handler ends, also when a provider ignores its abort: the waits   *)
(* of join and AfterTerminal are capped.                                   *)
HandlerEnds == <>(hpc = "ended")
=============================================================================
