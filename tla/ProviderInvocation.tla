------------------------- MODULE ProviderInvocation -------------------------
(***************************************************************************)
(* One provider call of a request: the goroutine that walks the authorized *)
(* candidates (invokeProviderStream), the tracker that tells the handler   *)
(* which route answered, the writer that commits a candidate, and the pipe *)
(* the output goes through.  A request may own two of them: the one        *)
(* started before its spend-lease reserve is answered, and a replacement.  *)
(* Budgets are not counted: a timer may fire at any moment it is armed.    *)
(***************************************************************************)
EXTENDS Naturals, FiniteSets

CONSTANTS
    NCand,        \* len(invokeOptions)
    MaxRetries,   \* maxTransientUpstreamRetries
    MaxChunks     \* bound: writes of one attempt

ASSUME CandAssumption == NCand \in Nat \ {0}
ASSUME RetryAssumption == MaxRetries \in Nat
ASSUME ChunkAssumption == MaxChunks \in Nat \ {0}

Inv == {"spec", "main"}
Cand == 1..NCand
None == 0

(* What InvokeStreaming may return.  "rejected": another candidate may    *)
(* serve it; "client": the request itself is at fault; "closed": the       *)
(* reader closed the pipe; "cancelled": a context was cancelled.           *)
Errors == {"transient", "rejected", "client", "closed", "cancelled", "empty"}
Transient == {"transient", "empty"}
Retryable == Errors \ {"client"}

VARIABLES
    streaming,    \* req.Stream
    pv,           \* the goroutine of each invocation
    tr,           \* its selectedRouteTracker
    pipe,         \* its io.Pipe
    cancelled     \* its providerCtx is cancelled

pvars == <<streaming, pv, tr, pipe, cancelled>>

Goroutine == [pc : {"idle", "loop", "invoke", "blocked", "back", "done"},
              cand : Cand, try : 0..MaxRetries, n : 0..MaxChunks,
              committed : BOOLEAN, fired : BOOLEAN, err : Errors \cup {"none"}]
Tracker == [selected : 0..NCand, ready : BOOLEAN, failure : BOOLEAN, attempts : Nat]
Pipe == [item : {"none", "delta", "stop"}, from : 0..NCand,
         read : {"open", "closed"}, write : {"open", "eof", "err"}]

ProviderTypeOK ==
    /\ streaming \in BOOLEAN
    /\ pv \in [Inv -> Goroutine]
    /\ tr \in [Inv -> Tracker]
    /\ pipe \in [Inv -> Pipe]
    /\ cancelled \in [Inv -> BOOLEAN]

idleGoroutine == [pc |-> "idle", cand |-> 1, try |-> 0, n |-> 0,
                  committed |-> FALSE, fired |-> FALSE, err |-> "none"]

ProviderInit(started) ==
    /\ pv = [k \in Inv |-> IF k \in started THEN [idleGoroutine EXCEPT !.pc = "loop"]
                                            ELSE idleGoroutine]
    /\ tr = [k \in Inv |-> [selected |-> None, ready |-> FALSE,
                            failure |-> FALSE, attempts |-> 0]]
    /\ pipe = [k \in Inv |-> [item |-> "none", from |-> None,
                              read |-> "open", write |-> "open"]]
    /\ cancelled = [k \in Inv |-> FALSE]

startProviderInvocation(k) ==
    pv' = [pv EXCEPT ![k].pc = "loop"]

MutantFinishUnnoted(k) ==
    /\ pv' = [pv EXCEPT ![k].pc = "done"]
    /\ tr' = [tr EXCEPT ![k].ready = TRUE]
    /\ pipe' = [pipe EXCEPT ![k].write = "err"]

(* finishFailure: the tracker learns of the failure and the pipe ends.     *)
finishFailure(k) ==
    /\ pv' = [pv EXCEPT ![k].pc = "done"]
    /\ tr' = [tr EXCEPT ![k] = [@ EXCEPT !.failure = TRUE, !.ready = TRUE]]
    /\ pipe' = [pipe EXCEPT ![k].write = "err"]

(* The head of the candidate loop: a cancelled request ends it, a          *)
(* candidate that cannot serve n choices fails the request, any other is   *)
(* attempted.                                                              *)
nextCandidate(k) ==
    /\ pv[k].pc = "loop"
    /\ \/ /\ cancelled[k]
          /\ finishFailure(k)
       \/ /\ ~cancelled[k]
          /\ pv' = [pv EXCEPT ![k] = [idleGoroutine EXCEPT !.pc = "invoke", !.cand = pv[k].cand]]
          /\ tr' = [tr EXCEPT ![k].attempts = tr[k].attempts + 1]
          /\ UNCHANGED pipe
       \/ /\ ~cancelled[k]      \* adapter.RejectUnsupportedN
          /\ pv' = [pv EXCEPT ![k].pc = "done"]
          /\ tr' = [tr EXCEPT ![k] = [@ EXCEPT !.attempts = tr[k].attempts + 1,
                                              !.failure = TRUE, !.ready = TRUE]]
          /\ pipe' = [pipe EXCEPT ![k].write = "err"]
    /\ UNCHANGED <<streaming, cancelled>>

(* selectRoute: the candidate is committed and the tracker keeps the first *)
(* route it is told of.  next is what the caller does to the goroutine.    *)
firstRoute(k) == IF tr[k].selected = None THEN pv[k].cand ELSE tr[k].selected

selectRoute(k, next) ==
    /\ pv' = [pv EXCEPT ![k] = [next EXCEPT !.committed = TRUE]]
    /\ tr' = [tr EXCEPT ![k] = [@ EXCEPT !.selected = firstRoute(k),
                                        !.ready = TRUE]]

(* A streaming provider accepts the request before its first byte.         *)
UpstreamOpened(k) ==
    /\ pv[k].pc = "invoke" /\ streaming /\ ~pv[k].committed
    /\ selectRoute(k, pv[k])
    /\ UNCHANGED <<streaming, pipe, cancelled>>

(* A write commits the candidate even when the pipe then refuses it.       *)
Write(k) ==
    /\ pv[k].pc = "invoke" /\ pv[k].n < MaxChunks
    /\ \/ /\ pipe[k].read = "open"
          /\ selectRoute(k, [pv[k] EXCEPT !.pc = "blocked", !.n = pv[k].n + 1])
          /\ \E item \in {"delta", "stop"} :
               pipe' = [pipe EXCEPT ![k] = [@ EXCEPT !.item = item, !.from = pv[k].cand]]
       \/ /\ pipe[k].read = "closed"
          /\ selectRoute(k, [pv[k] EXCEPT !.pc = "back", !.err = "closed"])
          /\ UNCHANGED pipe
    /\ UNCHANGED <<streaming, cancelled>>

(* io.Pipe is unbuffered: the write ends when the reader took the item or  *)
(* closed its end.                                                         *)
writeReturns(k) ==
    /\ pv[k].pc = "blocked"
    /\ \/ /\ pipe[k].item = "none"
          /\ pv' = [pv EXCEPT ![k].pc = "invoke"]
       \/ /\ pipe[k].item # "none" /\ pipe[k].read = "closed"
          /\ pv' = [pv EXCEPT ![k] = [@ EXCEPT !.pc = "back", !.err = "closed"]]
    /\ UNCHANGED <<streaming, tr, pipe, cancelled>>

(* The time-to-first-byte timer cancels the attempt; the provider may have *)
(* answered just before, and may still write after it.                     *)
ttfbFires(k) ==
    /\ pv[k].pc = "invoke" /\ ~pv[k].committed /\ ~pv[k].fired
    /\ pv' = [pv EXCEPT ![k].fired = TRUE]
    /\ UNCHANGED <<streaming, tr, pipe, cancelled>>

(* InvokeStreaming returns.  A clean return without a byte is a failure.   *)
invokeReturns(k) ==
    /\ pv[k].pc = "invoke"
    /\ \E err \in {"none", "transient", "rejected", "client", "cancelled"} :
         /\ err = "cancelled" => cancelled[k] \/ pv[k].fired
         /\ pv' = [pv EXCEPT ![k] = [@ EXCEPT !.pc = "back",
                                   !.err = IF err = "none" /\ pv[k].n = 0
                                             THEN "empty" ELSE err]]
    /\ UNCHANGED <<streaming, tr, pipe, cancelled>>

MutantRetryForever(k) ==
    /\ pv[k].pc = "back" /\ pv[k].err \in Transient
    /\ ~pv[k].committed /\ pv[k].cand = NCand
    /\ ~cancelled[k]
    /\ pv' = [pv EXCEPT ![k] = [@ EXCEPT !.pc = "invoke", !.try = pv[k].try + 1, !.n = 0,
                                        !.fired = FALSE, !.err = "none"]]
    /\ UNCHANGED <<streaming, tr, pipe, cancelled>>

(* The last candidate is tried again after a transient failure that put    *)
(* out nothing, while its budget lasts and the request is not cancelled.   *)
retrySameCandidate(k) ==
    /\ pv[k].pc = "back" /\ pv[k].err \in Transient
    /\ ~pv[k].committed /\ pv[k].cand = NCand /\ pv[k].try < MaxRetries
    /\ ~cancelled[k]
    /\ pv' = [pv EXCEPT ![k] = [@ EXCEPT !.pc = "invoke", !.try = pv[k].try + 1, !.n = 0,
                                        !.fired = FALSE, !.err = "none"]]
    /\ UNCHANGED <<streaming, tr, pipe, cancelled>>

invokeSucceeds(k) ==
    /\ pv[k].pc = "back" /\ pv[k].err = "none"
    /\ pv' = [pv EXCEPT ![k].pc = "done"]
    /\ pipe' = [pipe EXCEPT ![k].write = "eof"]
    /\ UNCHANGED <<streaming, tr, cancelled>>

(* No candidate is left, the failed one is committed, or another would not *)
(* help.                                                                   *)
invokeFails(k) ==
    /\ pv[k].pc = "back" /\ pv[k].err # "none"
    /\ pv[k].committed \/ pv[k].cand = NCand \/ pv[k].err \notin Retryable
    /\ finishFailure(k)
    /\ UNCHANGED <<streaming, cancelled>>

MutantFallbackLate(k) ==
    /\ pv[k].pc = "back" /\ pv[k].err \in Retryable
    /\ pv[k].cand < NCand
    /\ pv' = [pv EXCEPT ![k] = [@ EXCEPT !.pc = "loop", !.cand = pv[k].cand + 1]]
    /\ UNCHANGED <<streaming, tr, pipe, cancelled>>

fallback(k) ==
    /\ pv[k].pc = "back" /\ pv[k].err \in Retryable
    /\ ~pv[k].committed /\ pv[k].cand < NCand
    /\ pv' = [pv EXCEPT ![k] = [@ EXCEPT !.pc = "loop", !.cand = pv[k].cand + 1]]
    /\ UNCHANGED <<streaming, tr, pipe, cancelled>>

ProviderStep(k) ==
    \/ nextCandidate(k) \/ UpstreamOpened(k) \/ Write(k) \/ writeReturns(k)
    \/ ttfbFires(k) \/ invokeReturns(k) \/ retrySameCandidate(k)
    \/ invokeSucceeds(k) \/ invokeFails(k) \/ fallback(k)

(* abort: the provider's context is cancelled and its reader closed.       *)
abort(k) ==
    /\ cancelled' = [cancelled EXCEPT ![k] = TRUE]
    /\ pipe' = [pipe EXCEPT ![k].read = "closed"]

(* Steps the goroutine takes without waiting for its provider's output.  A *)
(* provider call is bounded by the first-byte timer, the idle deadline and *)
(* the client's total timeout, so it returns while its reader is open; "a  *)
(* Client can ignore cancellation" (join), so an aborted call may not.     *)
ProviderProgress(k) ==
    \/ nextCandidate(k) \/ writeReturns(k)
    \/ invokeReturns(k) /\ pipe[k].read = "open"
    \/ retrySameCandidate(k) \/ invokeSucceeds(k) \/ invokeFails(k) \/ fallback(k)
=============================================================================
