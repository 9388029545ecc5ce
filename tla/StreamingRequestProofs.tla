----------------------- MODULE StreamingRequestProofs -----------------------
(***************************************************************************)
(* For any number of candidates, retries and chunks: a request is never    *)
(* both settled and refunded, its settle bills the one route the client    *)
(* was answered from, and output is never left without a terminal call.    *)
(***************************************************************************)
EXTENDS StreamingRequest, TLAPS

(* A goroutine that selected a route stays on it until it is done, and     *)
(* what waits in its pipe came from it.                                    *)
RouteKeptBy(k) ==
    /\ pv[k].pc \in {"idle", "loop"} => ~pv[k].committed
    /\ pv[k].committed => tr[k].selected = pv[k].cand
    /\ tr[k].selected # None => pv[k].committed \/ pv[k].pc = "done"
    /\ pv[k].n > 0 => pv[k].committed
    /\ pv[k].pc = "blocked" => pv[k].committed
    /\ pv[k].pc = "back" /\ pv[k].err = "none" => pv[k].committed
    /\ pipe[k].item # "none" =>
          pipe[k].from = tr[k].selected /\ tr[k].selected # None
    /\ pipe[k].write = "eof" => tr[k].selected # None
    /\ tr[k].ready \/ pv[k].pc = "done" =>
          tr[k].selected # None \/ tr[k].failure

RouteKept == \A k \in Inv : RouteKeptBy(k)

(* Which of the handlers a place belongs to.                               *)
Placed ==
    /\ ~streaming => ~conf.stage /\ conf.term = "after" /\ ~settledBT
    /\ hpc \in {"await", "heartbeat", "head", "flush", "emit",
                "afterTerminal", "wait", "broken"} => streaming
    /\ hpc = "reply" => ~streaming
    /\ hpc = "flush" => conf.term = "before"
    /\ hpc \in {"afterTerminal", "wait"} => conf.term = "async"
    /\ conf.term = "after" => ~settledBT
    /\ conf.term = "async" /\ settledBT => delivered

(* Where the handler can only be once a provider accepted the request.     *)
Accepted ==
    \/ hpc \in {"heartbeat", "head", "flush", "settle", "emit",
                "afterTerminal", "wait", "reply"}
    \/ hpc = "pump" /\ streaming
    \/ saw \/ out.start = "head" \/ out.routes # {}

RouteOfAnswer ==
    /\ Accepted => tr[cur].selected # None
    /\ hpc \in {"reserve", "refuse", "start"} =>
          ~saw /\ out.start = "none" /\ out.routes = {} /\ pv["main"].pc = "idle"

SettleSent == \E m \in sent : m.kind = "settle"
RefundSent == \E m \in sent : m.kind = "refund"

(* What has been sent to the router where the handler is.                  *)
SentSoFar ==
    /\ hpc \in {"reserve", "refuse", "start", "await", "heartbeat", "head", "failHead",
                "pump", "flush", "afterTerminal", "wait", "settle"} => sent = {}
    /\ hpc = "emit" /\ conf.term = "before" => settledBT
    /\ hpc \in {"settle", "wait"} /\ conf.term = "async" => settledBT
    /\ hpc \in {"emit", "broken"} => ~RefundSent /\ (sent # {} => settledBT)
    /\ hpc = "reply" => SettleSent /\ ~RefundSent
    /\ settledBT /\ hpc \notin {"settle", "wait"} => SettleSent
    /\ delivered => settledBT

(* What the client was sent where the handler is.                          *)
SeenSoFar ==
    /\ ~streaming => out.routes = {} /\ out.end # "done"
    /\ out.start \in {"none", "error"} => out.routes = {}
    /\ hpc \in {"await", "heartbeat", "head"} => out.start = "none"
    /\ hpc = "failHead" /\ streaming => out.start = "none"
    /\ hpc = "pump" /\ streaming => out.start = "head"
    /\ hpc \in {"cleanup", "join", "ended"} /\ out.routes # {} => sent # {}
    /\ out.end = "done" \/ out.start = "body" =>
          SettleSent \/ (hpc \in {"settle", "wait"} /\ streaming)

(* Who answers for the settle of an answer: the router has it, or the      *)
(* retry queue holds it or dropped it.                                     *)
Owned ==
    router = "settled" \/ \E m \in queue \cup dropped : m.kind = "settle"

(* Only what the handler sent is repeated or applied, and an answer's      *)
(* settle is owned from the moment it was tried.                           *)
Ledger ==
    /\ wire \subseteq sent /\ queue \subseteq sent /\ dropped \subseteq sent
    /\ router = "refunded" => RefundSent
    /\ sent # {} \/ hpc \notin {"reserve", "join", "ended"} => router # "none"
    /\ streaming /\ SettleSent => Owned
    /\ hpc = "reply" \/ out.start = "body" => Owned

(* The inductive invariant.                                                *)
IInv ==
    /\ TypeOK /\ RouteKept /\ Placed /\ RouteOfAnswer /\ SentSoFar /\ SeenSoFar
    /\ OneTerminal /\ BilledRoute /\ Ledger

-----------------------------------------------------------------------------
(* The provider goroutines.                                                *)

LEMMA ProviderTypes ==
  ASSUME TypeOK, NEW k \in Inv, ProviderStep(k)
  PROVE  ProviderTypeOK'
<1>0. /\ pv \in [Inv -> Goroutine] /\ tr \in [Inv -> Tracker]
      /\ pipe \in [Inv -> Pipe]
      /\ pv[k] \in Goroutine /\ tr[k] \in Tracker /\ pipe[k] \in Pipe
  BY Zenon DEF TypeOK, ProviderTypeOK
<1>a. /\ 0 \in 0..MaxRetries /\ 0 \in 0..MaxChunks /\ pv[k].cand \in 0..NCand
      /\ pv[k].n < MaxChunks => pv[k].n + 1 \in 0..MaxChunks
      /\ pv[k].try < MaxRetries => pv[k].try + 1 \in 0..MaxRetries
      /\ pv[k].cand < NCand => pv[k].cand + 1 \in Cand
      /\ tr[k].attempts + 1 \in Nat
      /\ idleGoroutine \in Goroutine /\ firstRoute(k) \in 0..NCand
  BY <1>0, CandAssumption, RetryAssumption, ChunkAssumption
     DEF Goroutine, Tracker, Cand, idleGoroutine, firstRoute
<1>1. CASE nextCandidate(k)
  <2>1. /\ [pv[k] EXCEPT !.pc = "done"] \in Goroutine
       /\ [idleGoroutine EXCEPT !.pc = "invoke", !.cand = pv[k].cand] \in Goroutine
    BY Zenon, <1>0, <1>a DEF Goroutine, Errors
  <2>2. pv' \in [Inv -> Goroutine]
    BY Zenon, <1>0, <1>1, <2>1 DEF nextCandidate, finishFailure
  <2>3. /\ [tr[k] EXCEPT !.failure = TRUE, !.ready = TRUE] \in Tracker
       /\ [tr[k] EXCEPT !.attempts = tr[k].attempts + 1] \in Tracker
       /\ [tr[k] EXCEPT !.attempts = tr[k].attempts + 1, !.failure = TRUE, !.ready = TRUE] \in Tracker
    BY Zenon, <1>0, <1>a DEF Tracker
  <2>4. tr' \in [Inv -> Tracker]
    BY Zenon, <1>0, <1>1, <2>3 DEF nextCandidate, finishFailure
  <2>5. /\ [pipe[k] EXCEPT !.write = "err"] \in Pipe
    BY Zenon, <1>0, <1>a DEF Pipe
  <2>6. pipe' \in [Inv -> Pipe]
    BY Zenon, <1>0, <1>1, <2>5 DEF nextCandidate, finishFailure
  <2> QED
    BY Zenon, <1>1, <2>2, <2>4, <2>6 DEF nextCandidate, TypeOK, ProviderTypeOK
<1>2. CASE UpstreamOpened(k)
  <2>1. /\ [pv[k] EXCEPT !.committed = TRUE] \in Goroutine
    BY Zenon, <1>0, <1>a DEF Goroutine, Errors
  <2>2. pv' \in [Inv -> Goroutine]
    BY Zenon, <1>0, <1>2, <2>1 DEF UpstreamOpened, selectRoute
  <2>3. /\ [tr[k] EXCEPT !.selected = firstRoute(k), !.ready = TRUE] \in Tracker
    BY Zenon, <1>0, <1>a DEF Tracker
  <2>4. tr' \in [Inv -> Tracker]
    BY Zenon, <1>0, <1>2, <2>3 DEF UpstreamOpened, selectRoute
  <2>5. pipe' \in [Inv -> Pipe]
    BY Zenon, <1>0, <1>2 DEF UpstreamOpened, selectRoute
  <2> QED
    BY Zenon, <1>2, <2>2, <2>4, <2>5 DEF UpstreamOpened, TypeOK, ProviderTypeOK
<1>3. CASE Write(k)
  <2>1. /\ pv[k].n < MaxChunks =>
          [[pv[k] EXCEPT !.pc = "blocked", !.n = pv[k].n + 1] EXCEPT !.committed = TRUE] \in Goroutine
       /\ [[pv[k] EXCEPT !.pc = "back", !.err = "closed"] EXCEPT !.committed = TRUE] \in Goroutine
    BY Zenon, <1>0, <1>a DEF Goroutine, Errors
  <2>2. pv' \in [Inv -> Goroutine]
    BY Zenon, <1>0, <1>3, <2>1 DEF Write, selectRoute
  <2>3. /\ [tr[k] EXCEPT !.selected = firstRoute(k), !.ready = TRUE] \in Tracker
    BY Zenon, <1>0, <1>a DEF Tracker
  <2>4. tr' \in [Inv -> Tracker]
    BY Zenon, <1>0, <1>3, <2>3 DEF Write, selectRoute
  <2>5. /\ \A item \in {"delta", "stop"} :
              [pipe[k] EXCEPT !.item = item, !.from = pv[k].cand] \in Pipe
    BY Zenon, <1>0, <1>a DEF Pipe
  <2>6. pipe' \in [Inv -> Pipe]
    BY Zenon, <1>0, <1>3, <2>5 DEF Write, selectRoute
  <2> QED
    BY Zenon, <1>3, <2>2, <2>4, <2>6 DEF Write, TypeOK, ProviderTypeOK
<1>4. CASE writeReturns(k)
  <2>1. /\ [pv[k] EXCEPT !.pc = "invoke"] \in Goroutine
       /\ [pv[k] EXCEPT !.pc = "back", !.err = "closed"] \in Goroutine
    BY Zenon, <1>0, <1>a DEF Goroutine, Errors
  <2>2. pv' \in [Inv -> Goroutine]
    BY Zenon, <1>0, <1>4, <2>1 DEF writeReturns
  <2>3. tr' \in [Inv -> Tracker]
    BY Zenon, <1>0, <1>4 DEF writeReturns
  <2>4. pipe' \in [Inv -> Pipe]
    BY Zenon, <1>0, <1>4 DEF writeReturns
  <2> QED
    BY Zenon, <1>4, <2>2, <2>3, <2>4 DEF writeReturns, TypeOK, ProviderTypeOK
<1>5. CASE ttfbFires(k)
  <2>1. /\ [pv[k] EXCEPT !.fired = TRUE] \in Goroutine
    BY Zenon, <1>0, <1>a DEF Goroutine, Errors
  <2>2. pv' \in [Inv -> Goroutine]
    BY Zenon, <1>0, <1>5, <2>1 DEF ttfbFires
  <2>3. tr' \in [Inv -> Tracker]
    BY Zenon, <1>0, <1>5 DEF ttfbFires
  <2>4. pipe' \in [Inv -> Pipe]
    BY Zenon, <1>0, <1>5 DEF ttfbFires
  <2> QED
    BY Zenon, <1>5, <2>2, <2>3, <2>4 DEF ttfbFires, TypeOK, ProviderTypeOK
<1>6. CASE invokeReturns(k)
  <2>1. /\ \A err \in Errors \cup {"none"} : [pv[k] EXCEPT !.pc = "back", !.err = err] \in Goroutine
    BY Zenon, <1>0, <1>a DEF Goroutine, Errors
  <2>2. pv' \in [Inv -> Goroutine]
    <3>1. PICK err \in Errors \cup {"none"} :
            pv' = [pv EXCEPT ![k] = [pv[k] EXCEPT !.pc = "back", !.err = err]]
      BY Zenon, <1>6 DEF invokeReturns, Errors
    <3> QED
      BY Zenon, <1>0, <2>1, <3>1
  <2>3. tr' \in [Inv -> Tracker]
    BY Zenon, <1>0, <1>6 DEF invokeReturns
  <2>4. pipe' \in [Inv -> Pipe]
    BY Zenon, <1>0, <1>6 DEF invokeReturns
  <2> QED
    BY Zenon, <1>6, <2>2, <2>3, <2>4 DEF invokeReturns, TypeOK, ProviderTypeOK
<1>7. CASE retrySameCandidate(k)
  <2>1. /\ pv[k].try < MaxRetries =>
          [pv[k] EXCEPT !.pc = "invoke", !.try = pv[k].try + 1, !.n = 0,
                        !.fired = FALSE, !.err = "none"] \in Goroutine
    BY Zenon, <1>0, <1>a DEF Goroutine, Errors
  <2>2. pv' \in [Inv -> Goroutine]
    BY Zenon, <1>0, <1>7, <2>1 DEF retrySameCandidate
  <2>3. tr' \in [Inv -> Tracker]
    BY Zenon, <1>0, <1>7 DEF retrySameCandidate
  <2>4. pipe' \in [Inv -> Pipe]
    BY Zenon, <1>0, <1>7 DEF retrySameCandidate
  <2> QED
    BY Zenon, <1>7, <2>2, <2>3, <2>4 DEF retrySameCandidate, TypeOK, ProviderTypeOK
<1>8. CASE invokeSucceeds(k)
  <2>1. /\ [pv[k] EXCEPT !.pc = "done"] \in Goroutine
    BY Zenon, <1>0, <1>a DEF Goroutine, Errors
  <2>2. pv' \in [Inv -> Goroutine]
    BY Zenon, <1>0, <1>8, <2>1 DEF invokeSucceeds
  <2>3. tr' \in [Inv -> Tracker]
    BY Zenon, <1>0, <1>8 DEF invokeSucceeds
  <2>4. /\ [pipe[k] EXCEPT !.write = "eof"] \in Pipe
    BY Zenon, <1>0, <1>a DEF Pipe
  <2>5. pipe' \in [Inv -> Pipe]
    BY Zenon, <1>0, <1>8, <2>4 DEF invokeSucceeds
  <2> QED
    BY Zenon, <1>8, <2>2, <2>3, <2>5 DEF invokeSucceeds, TypeOK, ProviderTypeOK
<1>9. CASE invokeFails(k)
  <2>1. /\ [pv[k] EXCEPT !.pc = "done"] \in Goroutine
    BY Zenon, <1>0, <1>a DEF Goroutine, Errors
  <2>2. pv' \in [Inv -> Goroutine]
    BY Zenon, <1>0, <1>9, <2>1 DEF invokeFails, finishFailure
  <2>3. /\ [tr[k] EXCEPT !.failure = TRUE, !.ready = TRUE] \in Tracker
    BY Zenon, <1>0, <1>a DEF Tracker
  <2>4. tr' \in [Inv -> Tracker]
    BY Zenon, <1>0, <1>9, <2>3 DEF invokeFails, finishFailure
  <2>5. /\ [pipe[k] EXCEPT !.write = "err"] \in Pipe
    BY Zenon, <1>0, <1>a DEF Pipe
  <2>6. pipe' \in [Inv -> Pipe]
    BY Zenon, <1>0, <1>9, <2>5 DEF invokeFails, finishFailure
  <2> QED
    BY Zenon, <1>9, <2>2, <2>4, <2>6 DEF invokeFails, TypeOK, ProviderTypeOK
<1>10. CASE fallback(k)
  <2>1. /\ pv[k].cand < NCand =>
          [pv[k] EXCEPT !.pc = "loop", !.cand = pv[k].cand + 1] \in Goroutine
    BY Zenon, <1>0, <1>a DEF Goroutine, Errors
  <2>2. pv' \in [Inv -> Goroutine]
    BY Zenon, <1>0, <1>10, <2>1 DEF fallback
  <2>3. tr' \in [Inv -> Tracker]
    BY Zenon, <1>0, <1>10 DEF fallback
  <2>4. pipe' \in [Inv -> Pipe]
    BY Zenon, <1>0, <1>10 DEF fallback
  <2> QED
    BY Zenon, <1>10, <2>2, <2>3, <2>4 DEF fallback, TypeOK, ProviderTypeOK
<1> QED
  BY Zenon, <1>1, <1>2, <1>3, <1>4, <1>5, <1>6, <1>7, <1>8, <1>9, <1>10 DEF ProviderStep

LEMMA ProviderRoutes ==
  ASSUME TypeOK, RouteKept, NEW k \in Inv, ProviderStep(k)
  PROVE  RouteKept'
<1>0. /\ pv \in [Inv -> Goroutine] /\ tr \in [Inv -> Tracker]
      /\ pipe \in [Inv -> Pipe]
      /\ pv[k] \in Goroutine /\ tr[k] \in Tracker /\ pipe[k] \in Pipe
  BY Zenon DEF TypeOK, ProviderTypeOK
<1>a. RouteKeptBy(k)
  BY Zenon DEF RouteKept
<1>b. ASSUME NEW j \in Inv, j # k
      PROVE  RouteKeptBy(j)'
  <2>1. pv'[j] = pv[j] /\ tr'[j] = tr[j] /\ pipe'[j] = pipe[j]
    BY Zenon, <1>0, <1>b DEF ProviderStep, nextCandidate, UpstreamOpened, Write,
       writeReturns, ttfbFires, invokeReturns, retrySameCandidate, invokeSucceeds,
       invokeFails, fallback, finishFailure, selectRoute
  <2> QED
    BY Zenon, <2>1 DEF RouteKept, RouteKeptBy
<1>1. ASSUME nextCandidate(k) PROVE RouteKeptBy(k)'
  <2>1. pv[k].pc = "loop"
    BY Zenon, <1>1 DEF nextCandidate
  <2>2. CASE /\ pv'[k] = [pv[k] EXCEPT !.pc = "done"]
             /\ \/ tr'[k] = [tr[k] EXCEPT !.failure = TRUE, !.ready = TRUE]
                \/ tr'[k] = [tr[k] EXCEPT !.attempts = tr[k].attempts + 1,
                                          !.failure = TRUE, !.ready = TRUE]
             /\ pipe'[k] = [pipe[k] EXCEPT !.write = "err"]
    <3>1. tr'[k].failure /\ tr'[k].selected = tr[k].selected
      BY Zenon, <1>0, <2>2 DEF Tracker
    <3> QED
      BY Zenon, <1>0, <1>a, <2>1, <2>2, <3>1, CandAssumption DEF RouteKeptBy, Goroutine, Tracker, Pipe, Cand, None
  <2>3. CASE /\ pv'[k] = [idleGoroutine EXCEPT !.pc = "invoke", !.cand = pv[k].cand]
             /\ tr'[k] = [tr[k] EXCEPT !.attempts = tr[k].attempts + 1]
             /\ pipe'[k] = pipe[k]
    BY <1>0, <1>a, <2>1, <2>3, CandAssumption
       DEF RouteKeptBy, Goroutine, Tracker, Pipe, Cand, None, idleGoroutine
  <2> QED
    BY Zenon, <1>0, <1>1, <2>2, <2>3 DEF nextCandidate, finishFailure
<1>2. ASSUME UpstreamOpened(k) PROVE RouteKeptBy(k)'
  BY <1>0, <1>a, <1>2, CandAssumption
     DEF UpstreamOpened, selectRoute, firstRoute, RouteKeptBy, Goroutine, Tracker, Pipe, Cand, None
<1>3. ASSUME Write(k) PROVE RouteKeptBy(k)'
  <2>1. /\ pv[k].pc = "invoke"
        /\ tr'[k] = [tr[k] EXCEPT !.selected = firstRoute(k), !.ready = TRUE]
    BY Zenon, <1>0, <1>3 DEF Write, selectRoute
  <2>2. firstRoute(k) = pv[k].cand
    BY Zenon, <1>0, <1>a, <2>1 DEF RouteKeptBy, firstRoute
  <2>3. CASE /\ pv'[k] = [[pv[k] EXCEPT !.pc = "blocked", !.n = pv[k].n + 1]
                            EXCEPT !.committed = TRUE]
             /\ \E item \in {"delta", "stop"} :
                  pipe'[k] = [pipe[k] EXCEPT !.item = item, !.from = pv[k].cand]
    <3>1. pipe'[k].from = pv[k].cand /\ pipe'[k].write = pipe[k].write
      BY Zenon, <1>0, <2>3 DEF Pipe
    <3> QED
      BY <1>0, <1>a, <2>1, <2>2, <2>3, <3>1, CandAssumption
         DEF RouteKeptBy, Goroutine, Tracker, Pipe, Cand, None
  <2>4. CASE /\ pv'[k] = [[pv[k] EXCEPT !.pc = "back", !.err = "closed"]
                            EXCEPT !.committed = TRUE]
             /\ pipe'[k] = pipe[k]
    BY <1>0, <1>a, <2>1, <2>2, <2>4, CandAssumption
       DEF RouteKeptBy, Goroutine, Tracker, Pipe, Cand, None
  <2> QED
    BY Zenon, <1>0, <1>3, <2>3, <2>4 DEF Write, selectRoute
<1>4. ASSUME writeReturns(k) PROVE RouteKeptBy(k)'
  <2>1. /\ pv[k].pc = "blocked" /\ tr'[k] = tr[k] /\ pipe'[k] = pipe[k]
        /\ \/ pv'[k] = [pv[k] EXCEPT !.pc = "invoke"]
           \/ pv'[k] = [pv[k] EXCEPT !.pc = "back", !.err = "closed"]
    BY Zenon, <1>0, <1>4 DEF writeReturns
  <2>2. CASE pv'[k] = [pv[k] EXCEPT !.pc = "invoke"]
    BY Zenon, <1>0, <1>a, <2>1, <2>2 DEF RouteKeptBy, Goroutine
  <2>3. CASE pv'[k] = [pv[k] EXCEPT !.pc = "back", !.err = "closed"]
    BY Zenon, <1>0, <1>a, <2>1, <2>3 DEF RouteKeptBy, Goroutine
  <2> QED
    BY Zenon, <2>1, <2>2, <2>3
<1>5. ASSUME ttfbFires(k) PROVE RouteKeptBy(k)'
  BY Zenon, <1>0, <1>a, <1>5, CandAssumption
     DEF ttfbFires, RouteKeptBy, Goroutine, Tracker, Pipe, Cand, None
<1>6. ASSUME invokeReturns(k) PROVE RouteKeptBy(k)'
  BY <1>0, <1>a, <1>6, CandAssumption
     DEF invokeReturns, RouteKeptBy, Goroutine, Tracker, Pipe, Cand, None
<1>7. ASSUME retrySameCandidate(k) PROVE RouteKeptBy(k)'
  BY <1>0, <1>a, <1>7, CandAssumption
     DEF retrySameCandidate, RouteKeptBy, Goroutine, Tracker, Pipe, Cand, None
<1>8. ASSUME invokeSucceeds(k) PROVE RouteKeptBy(k)'
  BY <1>0, <1>a, <1>8, CandAssumption
     DEF invokeSucceeds, RouteKeptBy, Goroutine, Tracker, Pipe, Cand, None
<1>9. ASSUME invokeFails(k) PROVE RouteKeptBy(k)'
  BY Zenon, <1>0, <1>a, <1>9, CandAssumption
     DEF invokeFails, finishFailure, RouteKeptBy, Goroutine, Tracker, Pipe, Cand, None
<1>10. ASSUME fallback(k) PROVE RouteKeptBy(k)'
  BY Zenon, <1>0, <1>a, <1>10, CandAssumption
     DEF fallback, RouteKeptBy, Goroutine, Tracker, Pipe, Cand, None
<1>11. RouteKeptBy(k)'
  BY Zenon, <1>1, <1>2, <1>3, <1>4, <1>5, <1>6, <1>7, <1>8, <1>9, <1>10 DEF ProviderStep
<1> QED
  BY Zenon, <1>b, <1>11 DEF RouteKept

(* A provider step leaves the route, the attempts and the retries of an    *)
(* invocation that selected a route as they are.                           *)
LEMMA ProviderCommits ==
  ASSUME TypeOK, RouteKept, NEW k \in Inv, ProviderStep(k),
         NEW j \in Inv, tr[j].selected # None
  PROVE  /\ tr'[j].selected = tr[j].selected
         /\ tr'[j].attempts = tr[j].attempts
         /\ pv'[j].try = pv[j].try
<1>0. /\ pv \in [Inv -> Goroutine] /\ tr \in [Inv -> Tracker]
      /\ pv[j] \in Goroutine /\ tr[j] \in Tracker
  BY Zenon DEF TypeOK, ProviderTypeOK
<1>a. /\ pv[j].committed \/ pv[j].pc = "done"
      /\ pv[j].pc # "loop"
  BY Zenon DEF RouteKept, RouteKeptBy
<1>b. CASE j # k
  <2>1. pv'[j] = pv[j] /\ tr'[j] = tr[j]
    BY Zenon, <1>0, <1>b DEF ProviderStep, nextCandidate, UpstreamOpened, Write,
       writeReturns, ttfbFires, invokeReturns, retrySameCandidate, invokeSucceeds,
       invokeFails, fallback, finishFailure, selectRoute
  <2> QED
    BY Zenon, <2>1
<1>c. CASE j = k
  <2>1. CASE nextCandidate(k)
    BY Zenon, <1>a, <1>c, <2>1 DEF nextCandidate
  <2>2. CASE UpstreamOpened(k)
    <3>1. firstRoute(k) = tr[k].selected
      BY Zenon, <1>c DEF firstRoute
    <3>2. tr'[k] = [tr[k] EXCEPT !.selected = firstRoute(k), !.ready = TRUE]
      BY Zenon, <1>0, <1>c, <2>2 DEF UpstreamOpened, selectRoute
    <3>3. pv'[k].try = pv[k].try
      BY Zenon, <1>0, <1>c, <2>2 DEF UpstreamOpened, selectRoute, Goroutine
    <3> QED
      BY Zenon, <1>0, <1>c, <3>1, <3>2, <3>3 DEF Tracker
  <2>3. CASE Write(k)
    <3>1. firstRoute(k) = tr[k].selected
      BY Zenon, <1>c DEF firstRoute
    <3>2. tr'[k] = [tr[k] EXCEPT !.selected = firstRoute(k), !.ready = TRUE]
      BY Zenon, <1>0, <1>c, <2>3 DEF Write, selectRoute
    <3>3. pv'[k].try = pv[k].try
      <4>1. \/ pv'[k] = [[pv[k] EXCEPT !.pc = "blocked", !.n = pv[k].n + 1]
                          EXCEPT !.committed = TRUE]
            \/ pv'[k] = [[pv[k] EXCEPT !.pc = "back", !.err = "closed"]
                          EXCEPT !.committed = TRUE]
        BY Zenon, <1>0, <1>c, <2>3 DEF Write, selectRoute
      <4> QED
        BY Zenon, <1>0, <1>c, <4>1 DEF Goroutine
    <3> QED
      BY Zenon, <1>0, <1>c, <3>1, <3>2, <3>3 DEF Tracker
  <2>4. CASE writeReturns(k)
    <3>1. \/ pv'[k] = [pv[k] EXCEPT !.pc = "invoke"]
          \/ pv'[k] = [pv[k] EXCEPT !.pc = "back", !.err = "closed"]
      BY Zenon, <1>0, <1>c, <2>4 DEF writeReturns
    <3>2. tr' = tr
      BY Zenon, <2>4 DEF writeReturns
    <3> QED
      BY Zenon, <1>0, <1>c, <3>1, <3>2 DEF Goroutine
  <2>5. CASE ttfbFires(k)
    BY Zenon, <1>0, <1>c, <2>5 DEF ttfbFires, Goroutine
  <2>6. CASE invokeReturns(k)
    <3>1. tr' = tr /\ \E err \in Errors \cup {"none"} :
             pv'[k] = [pv[k] EXCEPT !.pc = "back", !.err = err]
      BY Zenon, <1>0, <1>c, <2>6 DEF invokeReturns, Errors
    <3> QED
      BY Zenon, <1>0, <1>c, <3>1 DEF Goroutine
  <2>7. CASE retrySameCandidate(k)
    BY Zenon, <1>a, <1>c, <2>7 DEF retrySameCandidate
  <2>8. CASE invokeSucceeds(k)
    BY Zenon, <1>0, <1>c, <2>8 DEF invokeSucceeds, Goroutine
  <2>9. CASE invokeFails(k)
    BY Zenon, <1>0, <1>c, <2>9 DEF invokeFails, finishFailure, Goroutine, Tracker
  <2>10. CASE fallback(k)
    BY Zenon, <1>0, <1>c, <2>10 DEF fallback, Goroutine
  <2> QED
    BY Zenon, <2>1, <2>2, <2>3, <2>4, <2>5, <2>6, <2>7, <2>8, <2>9, <2>10 DEF ProviderStep
<1> QED
  BY Zenon, <1>b, <1>c

-----------------------------------------------------------------------------
(* The handler and its environment: types.                                 *)

Environment == RouterTakes \/ RetryJob \/ JobEvicted \/ ClientGoes \/ Drain

LEMMA AbortTypes ==
  ASSUME TypeOK, NEW k \in Inv, abort(k)
  PROVE  pipe' \in [Inv -> Pipe] /\ cancelled' \in [Inv -> BOOLEAN]
<1>1. /\ pipe \in [Inv -> Pipe] /\ pipe[k] \in Pipe
      /\ cancelled \in [Inv -> BOOLEAN]
  BY Zenon DEF TypeOK, ProviderTypeOK
<1>2. [pipe[k] EXCEPT !.read = "closed"] \in Pipe
  BY Zenon, <1>1 DEF Pipe
<1> QED
  BY Zenon, <1>1, <1>2 DEF abort

LEMMA ReplyTypes ==
  ASSUME TypeOK, NEW start \in {"none", "head", "body", "error"}
  PROVE  Reply(start) \in Output
BY Zenon DEF TypeOK, Output, Reply

(* A terminal call: what it may change.                                    *)
LEMMA DeliverTypes ==
  ASSUME TypeOK, NEW m \in Msgs, NEW r \in Results, Deliver(m, r)
  PROVE  /\ wire' \subseteq Msgs
         /\ router' \in {"none", "held", "settled", "refunded"}
BY Zenon DEF TypeOK, Deliver, Applied

LEMMA EnqueueTypes ==
  ASSUME TypeOK, NEW m \in Msgs, Enqueue(m) \/ UNCHANGED <<queue, dropped>>
  PROVE  queue' \subseteq Msgs /\ dropped' \subseteq Msgs
BY Zenon DEF TypeOK, Enqueue

LEMMA RefundTypes ==
  ASSUME TypeOK, NEW retry \in BOOLEAN, Refund(retry)
  PROVE  /\ sent' = sent \cup {RefundMsg} /\ sent' \subseteq Msgs
         /\ wire' \subseteq Msgs /\ queue' \subseteq Msgs /\ dropped' \subseteq Msgs
         /\ router' \in {"none", "held", "settled", "refunded"}
<1>1. RefundMsg \in Msgs
  BY CandAssumption DEF RefundMsg, Msgs, None
<1>2. PICK r \in Results :
        /\ Post(RefundMsg, r)
        /\ Enqueue(RefundMsg) \/ UNCHANGED <<queue, dropped>>
  BY Zenon DEF Refund
<1>3. sent' = sent \cup {RefundMsg} /\ Deliver(RefundMsg, r)
  BY Zenon, <1>2 DEF Post
<1>4. sent \subseteq Msgs
  BY Zenon DEF TypeOK
<1> QED
  BY Zenon, <1>1, <1>2, <1>3, <1>4, DeliverTypes, EnqueueTypes

(* The settle of an answer names the selected route.                       *)
LEMMA SettleTypes ==
  ASSUME TypeOK, SettleAnswer
  PROVE  /\ sent' = sent \cup {[kind |-> "settle", route |-> tr[cur].selected]}
         /\ sent' \subseteq Msgs /\ wire' \subseteq Msgs
         /\ queue' \subseteq Msgs /\ dropped' \subseteq Msgs
         /\ router' \in {"none", "held", "settled", "refunded"}
<1> DEFINE m == [kind |-> "settle", route |-> tr[cur].selected]
<1>1. m \in Msgs
  BY Zenon DEF TypeOK, ProviderTypeOK, Tracker, Msgs
<1>2. PICK r \in Results :
        /\ Settle(m, r)
        /\ Enqueue(m) \/ UNCHANGED <<queue, dropped>>
  BY Zenon DEF SettleAnswer, settleRoute
<1>3. sent' = sent \cup {m} /\ Deliver(m, r)
  BY Zenon, <1>2 DEF Settle, Post
<1>4. sent \subseteq Msgs
  BY Zenon DEF TypeOK
<1> QED
  BY Zenon, <1>1, <1>2, <1>3, <1>4, DeliverTypes, EnqueueTypes

LEMMA HandlerTypes ==
  ASSUME TypeOK, Placed, Handler \/ Environment
  PROVE  TypeOK'
<1> USE DEF TypeOK, ProviderTypeOK
<1>0. Reply("error") \in Output /\ Reply("head") \in Output /\ Reply("body") \in Output
  BY Zenon, ReplyTypes
<1>a. "spec" \in Inv /\ "main" \in Inv /\ served \in PCs /\ ending \subseteq PCs
      /\ broken \in PCs /\ goingOn \subseteq PCs
  BY Zenon DEF Inv, served, finish, ending, broken, goingOn, PCs
<1>b. \A e \in {"done", "failed"} : [out EXCEPT !.end = e] \in Output
  BY Zenon DEF Output
<1>c. \A k \in Inv : pipe[k] \in Pipe /\ pv[k] \in Goroutine
  BY Zenon
<1>1. CASE Reserve
  <2>1. pipe' \in [Inv -> Pipe] /\ cancelled' \in [Inv -> BOOLEAN]
    BY Zenon, <1>a, <1>1, AbortTypes DEF Reserve
  <2>2. hpc' \in PCs /\ cur' \in Inv /\ out' \in Output
        /\ router' \in {"none", "held", "settled", "refunded"}
    BY Zenon, <1>0, <1>a, <1>1 DEF Reserve, PCs
  <2> QED
    BY Zenon, <1>1, <2>1, <2>2 DEF Reserve
<1>2. CASE Refuse
  <2>1. hpc' \in PCs /\ out' \in Output
    BY Zenon, <1>0, <1>2 DEF Refuse, PCs
  <2> QED
    BY Zenon, <1>2, <2>1, RefundTypes DEF Refuse, pvars
<1>3. CASE Start
  <2>1. [pv["main"] EXCEPT !.pc = "loop"] \in Goroutine
    BY Zenon, <1>a, <1>c DEF Goroutine
  <2>2. pv' \in [Inv -> Goroutine]
    BY Zenon, <1>a, <1>3, <2>1 DEF Start, startProviderInvocation
  <2> QED
    BY Zenon, <1>a, <1>3, <2>2 DEF Start, Goto, rvars
<1>4. CASE Await
  BY Zenon, <1>4 DEF Await, Goto, pvars, rvars, PCs
<1>5. CASE PreHeader
  <2>1. pipe' \in [Inv -> Pipe] /\ cancelled' \in [Inv -> BOOLEAN]
    BY Zenon, <1>5, AbortTypes DEF PreHeader
  <2>2. hpc' \in PCs /\ out' \in Output
    BY Zenon, <1>0, <1>5 DEF PreHeader, Goto, PCs
  <2> QED
    BY Zenon, <1>5, <2>1, <2>2 DEF PreHeader, Goto, rvars
<1>6. CASE WriteStreamHead
  <2>1. hpc' \in PCs /\ out' \in Output
    BY Zenon, <1>0, <1>6 DEF WriteStreamHead, Goto, PCs
  <2> QED
    BY Zenon, <1>6, <2>1 DEF WriteStreamHead, Goto, pvars, rvars
<1>7. CASE failBeforeHead \/ collectFailed
  <2>1. [pipe[cur] EXCEPT !.read = "closed"] \in Pipe
    BY Zenon, <1>c DEF Pipe
  <2>2. refundFailed
    BY Zenon, <1>7 DEF failBeforeHead, collectFailed
  <2>3. pipe' \in [Inv -> Pipe]
    BY Zenon, <2>1, <2>2 DEF refundFailed
  <2>4. hpc' \in PCs /\ out' \in Output
    BY Zenon, <1>0, <2>2 DEF refundFailed, PCs
  <2> QED
    BY Zenon, <2>2, <2>3, <2>4, RefundTypes DEF refundFailed
<1>8. CASE Pump
  <2>1. [pipe[cur] EXCEPT !.item = "none", !.from = None] \in Pipe
    <3>1. None \in 0..NCand
      BY CandAssumption DEF None
    <3> QED
      BY Zenon, <1>c, <3>1 DEF Pipe
  <2>2. pipe' \in [Inv -> Pipe]
    BY Zenon, <1>8, <2>1 DEF Pump, readItem
  <2>3. [out EXCEPT !.routes = @ \cup {<<cur, pipe[cur].from>>}] \in Output
    <3>1. out.routes \cup {<<cur, pipe[cur].from>>} \in SUBSET (Inv \X (0..NCand))
      BY <1>c DEF Output, Pipe
    <3> QED
      BY Zenon, <3>1 DEF Output
  <2>4. hpc' \in PCs /\ out' \in Output /\ saw' \in BOOLEAN
    BY Zenon, <1>a, <1>8, <2>3 DEF Pump, PCs
  <2> QED
    BY Zenon, <1>8, <2>2, <2>4 DEF Pump, rvars
<1>9. CASE HeartbeatLost
  BY Zenon, <1>a, <1>9, AbortTypes DEF HeartbeatLost, Goto, rvars
<1>10. CASE Flush
  BY Zenon, <1>10 DEF Flush, Goto, pvars, rvars, PCs
<1>11. CASE SettleAnswer
  <2>1. hpc' \in PCs /\ out' \in Output /\ settledBT' \in BOOLEAN
    BY Zenon, <1>0, <1>11 DEF SettleAnswer, settleRoute, PCs
  <2> QED
    BY Zenon, <1>11, <2>1, SettleTypes DEF SettleAnswer, settleRoute, pvars
<1>12. CASE Respond
  <2>1. hpc' \in PCs /\ out' \in Output
    BY Zenon, <1>0, <1>12 DEF Respond, PCs
  <2> QED
    BY Zenon, <1>12, <2>1 DEF Respond, pvars, rvars
<1>13. CASE EncodeFails
  BY Zenon, <1>0, <1>13 DEF EncodeFails, pvars, rvars, PCs
<1>14. CASE Emit
  <2>1. hpc' \in PCs /\ out' \in Output
    BY Zenon, <1>b, <1>14 DEF Emit, Goto, PCs
  <2> QED
    BY Zenon, <1>14, <2>1 DEF Emit, Goto, pvars, rvars
<1>15. CASE AfterTerminal
  <2>1. pipe' \in [Inv -> Pipe] /\ cancelled' \in [Inv -> BOOLEAN]
    BY Zenon, <1>15, AbortTypes DEF AfterTerminal
  <2>2. /\ hpc' \in PCs /\ out' \in Output
        /\ settledBT' \in BOOLEAN /\ delivered' \in BOOLEAN
    BY Zenon, <1>b, <1>15 DEF AfterTerminal, Goto, PCs
  <2> QED
    BY Zenon, <1>15, <2>1, <2>2 DEF AfterTerminal, Goto, rvars
<1>16. CASE Broken
  <2>1. hpc' \in PCs /\ out' \in Output
    BY Zenon, <1>b, <1>16 DEF Broken, Goto, PCs
  <2>2. (conf.stage /\ out.routes # {}) \in BOOLEAN
    BY Zenon
  <2>3. /\ sent' \subseteq Msgs /\ wire' \subseteq Msgs
        /\ queue' \subseteq Msgs /\ dropped' \subseteq Msgs
        /\ router' \in {"none", "held", "settled", "refunded"}
    BY Zenon, <1>16, <2>2, RefundTypes DEF Broken, rvars
  <2> QED
    BY Zenon, <1>16, <2>1, <2>3 DEF Broken, Goto, pvars
<1>17. CASE Cleanup
  BY Zenon, <1>17, AbortTypes DEF Cleanup, Goto, rvars, PCs
<1>18. CASE join \/ joinTimeout \/ providerDone \/ cleanupTimeout
  <2>1. /\ hpc' \in {"ended", "settle"}
        /\ UNCHANGED <<pvars, conf, cur, saw, settledBT, delivered, out, gone, drained, rvars>>
    BY Zenon, <1>18 DEF join, joinTimeout, providerDone, cleanupTimeout, Goto
  <2> QED
    BY Zenon, <2>1 DEF pvars, rvars, PCs
<1>19. CASE RouterTakes
  BY Zenon, <1>19 DEF RouterTakes, Applied, pvars, hvars
<1>20. CASE RetryJob
  <2>1. PICK m \in queue, r \in Results :
          /\ Deliver(m, r)
          /\ queue' \subseteq queue /\ dropped' \subseteq dropped \cup {m}
    BY Zenon, <1>20 DEF RetryJob, giveUp
  <2>2. queue' \subseteq Msgs /\ dropped' \subseteq Msgs
    BY Zenon, <2>1
  <2> QED
    BY Zenon, <1>20, <2>1, <2>2, DeliverTypes DEF RetryJob, pvars, hvars
<1>24. CASE JobEvicted
  BY Zenon, <1>24 DEF JobEvicted, giveUp, pvars, hvars
<1>21. CASE ClientGoes
  BY Zenon, <1>21 DEF ClientGoes, pvars, rvars
<1>22. CASE Drain
  BY Zenon, <1>22 DEF Drain, rvars
<1>23. CASE AdapterFails
  BY Zenon, <1>0, <1>23 DEF AdapterFails, pvars, rvars, PCs
<1> QED
  BY Zenon, <1>1, <1>2, <1>3, <1>4, <1>5, <1>6, <1>7, <1>8, <1>9, <1>10, <1>11, <1>12,
     <1>13, <1>14, <1>15, <1>16, <1>17, <1>18, <1>19, <1>20, <1>21, <1>22, <1>23, <1>24
     DEF Handler, Environment

-----------------------------------------------------------------------------
(* The handler and its environment: routes.                                *)

LEMMA HandlerRoutes ==
  ASSUME TypeOK, RouteKept, RouteOfAnswer, Handler \/ Environment
  PROVE  RouteKept' /\ tr' = tr
<1>0. /\ pv \in [Inv -> Goroutine] /\ pipe \in [Inv -> Pipe]
      /\ "spec" \in Inv /\ "main" \in Inv /\ cur \in Inv
  BY Zenon DEF TypeOK, ProviderTypeOK, Inv
<1>1. tr' = tr
  BY Zenon DEF Handler, Environment, Reserve, Refuse, Start, AdapterFails,
     Await, PreHeader, WriteStreamHead,
     failBeforeHead, collectFailed, refundFailed, Pump, HeartbeatLost, Flush, SettleAnswer, settleRoute, Respond, EncodeFails,
     Emit, AfterTerminal, providerDone, cleanupTimeout, Broken, Cleanup,
     join, joinTimeout, RouterTakes, RetryJob, JobEvicted, ClientGoes, Drain,
     pvars
<1>2. \/ pipe' = pipe
      \/ \E k \in Inv : pipe' = [pipe EXCEPT ![k].read = "closed"]
      \/ \E k \in Inv : pipe' = [pipe EXCEPT ![k] = [@ EXCEPT !.item = "none", !.from = None]]
  BY Zenon, <1>0 DEF Handler, Environment, Reserve, Refuse, Start, AdapterFails,
     Await, PreHeader, WriteStreamHead,
     failBeforeHead, collectFailed, refundFailed, Pump, HeartbeatLost, Flush, SettleAnswer, settleRoute, Respond, EncodeFails,
     Emit, AfterTerminal, providerDone, cleanupTimeout, Broken, Cleanup,
     join, joinTimeout, RouterTakes, RetryJob, JobEvicted, ClientGoes, Drain,
     pvars, abort, readItem
<1>3. \A j \in Inv : /\ pipe'[j].write = pipe[j].write
                     /\ \/ pipe'[j].item = pipe[j].item /\ pipe'[j].from = pipe[j].from
                        \/ pipe'[j].item = "none"
  <2> TAKE j \in Inv
  <2>1. pipe[j] \in Pipe
    BY Zenon, <1>0
  <2>2. \/ pipe'[j] = pipe[j]
        \/ pipe'[j] = [pipe[j] EXCEPT !.read = "closed"]
        \/ pipe'[j] = [pipe[j] EXCEPT !.item = "none", !.from = None]
    BY Zenon, <1>0, <1>2
  <2> QED
    BY Zenon, <2>1, <2>2 DEF Pipe
<1>4. CASE Start
  <2>1. pv["main"].pc = "idle" /\ pv["main"] \in Goroutine
    BY Zenon, <1>0, <1>4 DEF Start, RouteOfAnswer
  <2>2. pipe' = pipe /\ pv' = [pv EXCEPT !["main"] = [pv["main"] EXCEPT !.pc = "loop"]]
    BY Zenon, <1>4 DEF Start, startProviderInvocation
  <2>3. RouteKeptBy("main")'
    BY Zenon, <1>0, <1>1, <2>1, <2>2 DEF RouteKept, RouteKeptBy, Goroutine
  <2>4. ASSUME NEW j \in Inv, j # "main"
        PROVE  RouteKeptBy(j)'
    BY Zenon, <1>0, <1>1, <2>2, <2>4 DEF RouteKept, RouteKeptBy
  <2> QED
    BY Zenon, <1>1, <2>3, <2>4 DEF RouteKept
<1>5. CASE ~Start
  <2>1. pv' = pv
    BY Zenon, <1>5 DEF Handler, Environment, Reserve, Refuse, AdapterFails, Await, PreHeader, WriteStreamHead,
       failBeforeHead, collectFailed, refundFailed, Pump, HeartbeatLost, Flush, SettleAnswer, settleRoute, Respond, EncodeFails,
       Emit, AfterTerminal, providerDone, cleanupTimeout, Broken, Cleanup,
     join, joinTimeout, RouterTakes, RetryJob, JobEvicted, ClientGoes, Drain,
       pvars
  <2> QED
    BY Zenon, <1>1, <1>3, <2>1 DEF RouteKept, RouteKeptBy
<1> QED
  BY Zenon, <1>4, <1>5

-----------------------------------------------------------------------------
(* The handler and its environment: what was sent.                         *)

Account == Placed /\ RouteOfAnswer /\ SentSoFar /\ SeenSoFar /\ OneTerminal /\ BilledRoute

LEMMA HandlerAccounts ==
  ASSUME IInv, Handler \/ Environment
  PROVE  Account'
<1>0. /\ Placed /\ RouteOfAnswer /\ SentSoFar /\ SeenSoFar /\ OneTerminal /\ BilledRoute
      /\ TypeOK /\ out \in Output /\ tr' = tr
      /\ streaming' = streaming /\ conf' = conf
  BY Zenon, HandlerRoutes DEF IInv, TypeOK, Handler, Environment, Reserve, Refuse,
     Start, AdapterFails, Await, PreHeader, WriteStreamHead,
     failBeforeHead, collectFailed, refundFailed, Pump, HeartbeatLost, Flush, SettleAnswer, settleRoute, Respond, EncodeFails,
     Emit, AfterTerminal, providerDone, cleanupTimeout, Broken, Cleanup,
     join, joinTimeout, RouterTakes, RetryJob, JobEvicted, ClientGoes, Drain,
     pvars, hvars, Goto
<1>a. \A start \in {"head", "body", "error"} :
        /\ Reply(start).start \in {out.start, start}
        /\ ~gone => Reply(start).start = start
        /\ Reply(start).routes = out.routes /\ Reply(start).end = out.end
  BY Zenon, <1>0 DEF Reply, Output
<1>1. CASE Reserve
  <2>1. /\ hpc = "reserve"
        /\ saw' = saw /\ settledBT' = settledBT /\ delivered' = delivered
        /\ sent' = sent /\ pv' = pv
        /\ hpc' \in {"join", "start", "refuse", "await", "pump"}
        /\ streaming => hpc' # "pump"
        /\ ~streaming => hpc' # "await"
        /\ hpc' # "join" => out' = out
        /\ out'.start \in {out.start, "error"}
        /\ out'.routes = out.routes /\ out'.end = out.end
    BY Zenon, <1>a, <1>1 DEF Reserve, served
  <2>2. /\ sent = {} /\ ~saw /\ out.start = "none" /\ out.routes = {}
        /\ pv["main"].pc = "idle"
    BY Zenon, <1>0, <2>1 DEF SentSoFar, RouteOfAnswer
  <2>3. Placed'
    BY Zenon, <1>0, <2>1, <2>2 DEF Placed
  <2>4. RouteOfAnswer'
    BY Zenon, <1>0, <2>1, <2>2 DEF RouteOfAnswer, Accepted
  <2>5. SentSoFar'
    BY Zenon, <1>0, <2>1, <2>2 DEF SentSoFar, SettleSent, RefundSent
  <2>6. SeenSoFar'
    BY Zenon, <1>0, <2>1, <2>2 DEF SeenSoFar, SettleSent
  <2>7. OneTerminal'
    BY Zenon, <1>0, <2>1, <2>2 DEF OneTerminal
  <2>8. BilledRoute'
    BY Zenon, <1>0, <2>1, <2>2 DEF BilledRoute
  <2> QED
    BY Zenon, <2>3, <2>4, <2>5, <2>6, <2>7, <2>8 DEF Account
<1>2. CASE Refuse
  <2>1. /\ hpc = "refuse" /\ hpc' = "join" /\ cur' = cur
        /\ saw' = saw /\ settledBT' = settledBT /\ delivered' = delivered
        /\ out'.start \in {out.start, "error"}
        /\ out'.routes = out.routes /\ out'.end = out.end
    BY Zenon, <1>a, <1>2 DEF Refuse
  <2>2. /\ sent' = {RefundMsg} /\ RefundMsg.kind = "refund"
        /\ out.routes = {} /\ out.end # "done" /\ out.start = "none"
    BY Zenon, <1>0, <1>2, <2>1, RefundTypes DEF SentSoFar, RouteOfAnswer, SeenSoFar, SettleSent, Refuse, RefundMsg
  <2>3. Placed'
    BY Zenon, <1>0, <2>1, <2>2 DEF Placed
  <2>4. RouteOfAnswer'
    BY Zenon, <1>0, <2>1, <2>2 DEF RouteOfAnswer, Accepted
  <2>5. SentSoFar'
    BY Zenon, <1>0, <2>1, <2>2 DEF SentSoFar, SettleSent, RefundSent
  <2>6. SeenSoFar'
    BY Zenon, <1>0, <2>1, <2>2 DEF SeenSoFar, SettleSent
  <2>7. OneTerminal'
    BY Zenon, <1>0, <2>1, <2>2 DEF OneTerminal
  <2>8. BilledRoute'
    BY Zenon, <1>0, <2>1, <2>2 DEF BilledRoute
  <2> QED
    BY Zenon, <2>3, <2>4, <2>5, <2>6, <2>7, <2>8 DEF Account
<1>3. CASE Start
  <2>1. /\ hpc = "start" /\ cur' = cur
        /\ saw' = saw /\ settledBT' = settledBT /\ delivered' = delivered
        /\ sent' = sent /\ out' = out
        /\ hpc' = IF streaming THEN "await" ELSE "pump"
    BY Zenon, <1>3 DEF Start, Goto, served, rvars
  <2>2. out.start = "none" /\ out.routes = {}
    BY Zenon, <1>0, <2>1 DEF RouteOfAnswer
  <2>3. Placed'
    BY Zenon, <1>0, <2>1, <2>2 DEF Placed
  <2>4. RouteOfAnswer'
    BY Zenon, <1>0, <2>1, <2>2 DEF RouteOfAnswer, Accepted
  <2>5. SentSoFar'
    BY Zenon, <1>0, <2>1, <2>2 DEF SentSoFar, SettleSent, RefundSent
  <2>6. SeenSoFar'
    BY Zenon, <1>0, <2>1, <2>2 DEF SeenSoFar, SettleSent
  <2>7. OneTerminal'
    BY Zenon, <1>0, <2>1, <2>2 DEF OneTerminal
  <2>8. BilledRoute'
    BY Zenon, <1>0, <2>1, <2>2 DEF BilledRoute
  <2> QED
    BY Zenon, <2>3, <2>4, <2>5, <2>6, <2>7, <2>8 DEF Account
<1>4. CASE Await
  <2>1. /\ hpc = "await" /\ cur' = cur
        /\ saw' = saw /\ settledBT' = settledBT /\ delivered' = delivered
        /\ sent' = sent /\ out' = out
        /\ hpc' \in {"failHead", "heartbeat", "head"}
        /\ hpc' # "failHead" => ~tr[cur].failure
    BY Zenon, <1>4 DEF Await, Goto, rvars
  <2>2. tr[cur].failure \/ tr[cur].selected # None
    BY Zenon, <1>4 DEF IInv, TypeOK, RouteKept, RouteKeptBy, Await
  <2>3. Placed'
    BY Zenon, <1>0, <2>1, <2>2 DEF Placed
  <2>4. RouteOfAnswer'
    BY Zenon, <1>0, <2>1, <2>2 DEF RouteOfAnswer, Accepted
  <2>5. SentSoFar'
    BY Zenon, <1>0, <2>1, <2>2 DEF SentSoFar, SettleSent, RefundSent
  <2>6. SeenSoFar'
    BY Zenon, <1>0, <2>1, <2>2 DEF SeenSoFar, SettleSent
  <2>7. OneTerminal'
    BY Zenon, <1>0, <2>1, <2>2 DEF OneTerminal
  <2>8. BilledRoute'
    BY Zenon, <1>0, <2>1, <2>2 DEF BilledRoute
  <2> QED
    BY Zenon, <2>3, <2>4, <2>5, <2>6, <2>7, <2>8 DEF Account
<1>5. CASE PreHeader
  <2>1. /\ hpc = "heartbeat" /\ cur' = cur
        /\ saw' = saw /\ settledBT' = settledBT /\ delivered' = delivered
        /\ sent' = sent
        /\ hpc' \in {"head", "cleanup"}
        /\ hpc' = "head" => out' = out
        /\ out'.start \in {out.start, "error"}
        /\ out'.routes = out.routes /\ out'.end = out.end
    BY Zenon, <1>a, <1>5 DEF PreHeader, Goto, rvars
  <2>2. Placed'
    BY Zenon, <1>0, <2>1 DEF Placed
  <2>3. RouteOfAnswer'
    BY Zenon, <1>0, <2>1 DEF RouteOfAnswer, Accepted
  <2>4. SentSoFar'
    BY Zenon, <1>0, <2>1 DEF SentSoFar, SettleSent, RefundSent
  <2>5. SeenSoFar'
    BY Zenon, <1>0, <2>1 DEF SeenSoFar, SettleSent
  <2>6. OneTerminal'
    BY Zenon, <1>0, <2>1 DEF OneTerminal
  <2>7. BilledRoute'
    BY Zenon, <1>0, <2>1 DEF BilledRoute
  <2> QED
    BY Zenon, <2>2, <2>3, <2>4, <2>5, <2>6, <2>7 DEF Account
<1>6. CASE WriteStreamHead
  <2>1. /\ hpc = "head" /\ cur' = cur
        /\ saw' = saw /\ settledBT' = settledBT /\ delivered' = delivered
        /\ sent' = sent
        /\ hpc' \in {"failHead", "cleanup", "pump"}
        /\ hpc' = "failHead" => out' = out
        /\ hpc' = "pump" => out'.start = "head"
        /\ out'.start \in {out.start, "head"}
        /\ out'.routes = out.routes /\ out'.end = out.end
    BY Zenon, <1>a, <1>6 DEF WriteStreamHead, Goto, rvars
  <2>2. Placed'
    BY Zenon, <1>0, <2>1 DEF Placed
  <2>3. RouteOfAnswer'
    BY Zenon, <1>0, <2>1 DEF RouteOfAnswer, Accepted
  <2>4. SentSoFar'
    BY Zenon, <1>0, <2>1 DEF SentSoFar, SettleSent, RefundSent
  <2>5. SeenSoFar'
    BY Zenon, <1>0, <2>1 DEF SeenSoFar, SettleSent
  <2>6. OneTerminal'
    BY Zenon, <1>0, <2>1 DEF OneTerminal
  <2>7. BilledRoute'
    BY Zenon, <1>0, <2>1 DEF BilledRoute
  <2> QED
    BY Zenon, <2>2, <2>3, <2>4, <2>5, <2>6, <2>7 DEF Account
<1>7. CASE failBeforeHead \/ collectFailed
  <2>0. hpc = "failHead" /\ refundFailed
    BY Zenon, <1>7 DEF failBeforeHead, collectFailed
  <2>1. /\ hpc = "failHead" /\ hpc' = "cleanup" /\ cur' = cur
        /\ saw' = saw /\ settledBT' = settledBT /\ delivered' = delivered
        /\ out'.start \in {out.start, "error"}
        /\ out'.routes = out.routes /\ out'.end = out.end
    BY Zenon, <1>a, <2>0 DEF refundFailed
  <2>2. sent' = {RefundMsg} /\ RefundMsg.kind = "refund"
    BY Zenon, <1>0, <2>0, <2>1, RefundTypes DEF SentSoFar, refundFailed, RefundMsg
  <2>3. out.routes = {} /\ out.end # "done" /\ out.start # "body"
    BY Zenon, <1>0, <2>1 DEF SentSoFar, SeenSoFar, SettleSent
  <2>4. Placed'
    BY Zenon, <1>0, <2>1, <2>2, <2>3 DEF Placed
  <2>5. RouteOfAnswer'
    BY Zenon, <1>0, <2>1, <2>2, <2>3 DEF RouteOfAnswer, Accepted
  <2>6. SentSoFar'
    BY Zenon, <1>0, <2>1, <2>2, <2>3 DEF SentSoFar, SettleSent, RefundSent
  <2>7. SeenSoFar'
    BY Zenon, <1>0, <2>1, <2>2, <2>3 DEF SeenSoFar, SettleSent
  <2>8. OneTerminal'
    BY Zenon, <1>0, <2>1, <2>2, <2>3 DEF OneTerminal
  <2>9. BilledRoute'
    BY Zenon, <1>0, <2>1, <2>2, <2>3 DEF BilledRoute
  <2> QED
    BY Zenon, <2>4, <2>5, <2>6, <2>7, <2>8, <2>9 DEF Account
<1>8. CASE Pump
  <2>1. /\ hpc = "pump" /\ cur' = cur
        /\ settledBT' = settledBT /\ delivered' = delivered /\ sent' = sent
        /\ hpc' \in {"pump", "broken", "failHead", "settle", "emit", "flush"}
        /\ hpc' \in {"broken", "emit", "flush"} => streaming
        /\ hpc' = "emit" => conf.term # "before"
        /\ hpc' = "flush" => conf.term = "before"
        /\ hpc' = "settle" /\ streaming => conf.term = "before"
        /\ hpc' = "failHead" => ~streaming
    BY Zenon, <1>8 DEF Pump, readItem, finish, ending, goingOn, broken, rvars
  <2>2. saw' = saw \/ pipe[cur].item # "none"
    BY Zenon, <1>8 DEF Pump, readItem
  <2>3. hpc' = "settle" => saw'
    BY Zenon, <1>0, <1>8 DEF TypeOK, Pump, goingOn, broken
  <2>4. \/ out' = out
        \/ (streaming /\ pipe[cur].item # "none"
            /\ out' = [out EXCEPT !.routes = @ \cup {<<cur, pipe[cur].from>>}])
    BY Zenon, <1>8 DEF Pump, readItem
  <2>5. pipe[cur].item # "none" =>
          pipe[cur].from = tr[cur].selected /\ tr[cur].selected # None
    BY Zenon DEF IInv, TypeOK, RouteKept, RouteKeptBy
  <2>6. \/ out' = out
        \/ (streaming /\ pipe[cur].item # "none"
            /\ out' = [out EXCEPT !.routes = out.routes \cup {<<cur, tr[cur].selected>>}])
    BY Zenon, <2>4, <2>5
  <2>7. /\ out'.start = out.start /\ out'.end = out.end
        /\ \/ out'.routes = out.routes
           \/ (streaming /\ pipe[cur].item # "none"
               /\ out'.routes = out.routes \cup {<<cur, tr[cur].selected>>})
    BY Zenon, <1>0, <2>6 DEF Output
  <2>8. Placed'
    BY Zenon, <1>0, <2>1, <2>2, <2>3, <2>4, <2>5, <2>6, <2>7 DEF Placed
  <2>9. RouteOfAnswer'
    BY <1>0, <2>1, <2>2, <2>3, <2>4, <2>5, <2>6, <2>7 DEF RouteOfAnswer, Accepted
  <2>10. SentSoFar'
    BY Zenon, <1>0, <2>1, <2>2, <2>3, <2>4, <2>5, <2>6, <2>7 DEF Placed, SentSoFar, SettleSent, RefundSent
  <2>11. SeenSoFar'
    BY Zenon, <1>0, <2>1, <2>2, <2>3, <2>4, <2>5, <2>6, <2>7 DEF SeenSoFar, SettleSent
  <2>12. OneTerminal'
    BY Zenon, <1>0, <2>1, <2>2, <2>3, <2>4, <2>5, <2>6, <2>7 DEF OneTerminal
  <2>13. BilledRoute'
    BY Zenon, <1>0, <2>1, <2>2, <2>3, <2>4, <2>5, <2>6, <2>7 DEF BilledRoute
  <2> QED
    BY Zenon, <2>8, <2>9, <2>10, <2>11, <2>12, <2>13 DEF Account
<1>9. CASE HeartbeatLost
  <2>1. /\ hpc = "pump" /\ conf.stage /\ cur' = cur
        /\ saw' = saw /\ settledBT' = settledBT /\ delivered' = delivered
        /\ sent' = sent /\ out' = out
        /\ hpc' \in ending
    BY Zenon, <1>0, <1>9 DEF HeartbeatLost, Goto, rvars
  <2>2. /\ streaming
        /\ hpc' \in {"settle", "emit", "flush", "broken"}
        /\ hpc' = "emit" => conf.term # "before"
        /\ hpc' \in {"settle", "flush"} => conf.term = "before"
    BY Zenon, <1>0, <2>1 DEF Placed, finish, ending
  <2>3. Placed'
    BY Zenon, <1>0, <2>1, <2>2 DEF Placed
  <2>4. RouteOfAnswer'
    BY Zenon, <1>0, <2>1, <2>2 DEF RouteOfAnswer, Accepted
  <2>5. SentSoFar'
    BY Zenon, <1>0, <2>1, <2>2 DEF SentSoFar, SettleSent, RefundSent
  <2>6. SeenSoFar'
    BY Zenon, <1>0, <2>1, <2>2 DEF SeenSoFar, SettleSent
  <2>7. OneTerminal'
    BY Zenon, <1>0, <2>1, <2>2 DEF OneTerminal
  <2>8. BilledRoute'
    BY Zenon, <1>0, <2>1, <2>2 DEF BilledRoute
  <2> QED
    BY Zenon, <2>3, <2>4, <2>5, <2>6, <2>7, <2>8 DEF Account
<1>10. CASE Flush
  <2>1. /\ hpc = "flush" /\ cur' = cur
        /\ saw' = saw /\ settledBT' = settledBT /\ delivered' = delivered
        /\ sent' = sent /\ out' = out
        /\ hpc' \in {"broken", "settle"}
    BY Zenon, <1>10 DEF Flush, Goto, rvars
  <2>2. Placed'
    BY Zenon, <1>0, <2>1 DEF Placed
  <2>3. RouteOfAnswer'
    BY Zenon, <1>0, <2>1 DEF RouteOfAnswer, Accepted
  <2>4. SentSoFar'
    BY Zenon, <1>0, <2>1 DEF Placed, SentSoFar, SettleSent, RefundSent
  <2>5. SeenSoFar'
    BY Zenon, <1>0, <2>1 DEF SeenSoFar, SettleSent
  <2>6. OneTerminal'
    BY Zenon, <1>0, <2>1 DEF OneTerminal
  <2>7. BilledRoute'
    BY Zenon, <1>0, <2>1 DEF BilledRoute
  <2> QED
    BY Zenon, <2>2, <2>3, <2>4, <2>5, <2>6, <2>7 DEF Account
<1>11. CASE SettleAnswer
  <2>1. /\ hpc = "settle" /\ cur' = cur
        /\ saw' = saw /\ delivered' = delivered
        /\ settledBT' = (settledBT \/ (streaming /\ conf.term = "before"))
        /\ hpc' \in {"reply", "cleanup", "emit"}
        /\ hpc' = "emit" => streaming /\ conf.term # "after"
        /\ hpc' = "reply" => ~streaming
        /\ out' = out \/ (~streaming /\ hpc' = "cleanup" /\ out' = Reply("error"))
    BY Zenon, <1>11 DEF SettleAnswer, settleRoute
  <2>2. /\ sent' = {[kind |-> "settle", route |-> tr[cur].selected]}
        /\ [kind |-> "settle", route |-> tr[cur].selected].kind = "settle"
        /\ [kind |-> "settle", route |-> tr[cur].selected].route = tr[cur].selected
    BY Zenon, <1>0, <1>11, <2>1, SettleTypes DEF SentSoFar
  <2>3. /\ tr[cur].selected # None
        /\ hpc' = "emit" => settledBT'
        /\ settledBT' => streaming /\ conf.term # "after"
        /\ conf.term = "async" => settledBT' = settledBT
    <3>1. conf.term \in {"after", "before", "async"}
      BY Zenon, <1>0, TermAssumption DEF TypeOK, Confs
    <3> QED
      BY Zenon, <1>0, <2>1, <3>1 DEF RouteOfAnswer, Accepted, SentSoFar, Placed
  <2>4. /\ out'.start \in {out.start, "error"}
        /\ out'.routes = out.routes /\ out'.end = out.end
    BY Zenon, <1>a, <2>1
  <2>5. Placed'
    BY Zenon, <1>0, <2>1, <2>2, <2>3, <2>4 DEF Placed
  <2>6. RouteOfAnswer'
    BY Zenon, <1>0, <2>1, <2>2, <2>3, <2>4 DEF RouteOfAnswer, Accepted
  <2>7. SentSoFar'
    BY Zenon, <1>0, <2>1, <2>2, <2>3, <2>4 DEF SentSoFar, SettleSent, RefundSent
  <2>8. SeenSoFar'
    BY Zenon, <1>0, <2>1, <2>2, <2>3, <2>4 DEF SeenSoFar, SettleSent
  <2>9. OneTerminal'
    BY Zenon, <1>0, <2>1, <2>2, <2>3, <2>4 DEF OneTerminal
  <2>10. BilledRoute'
    BY Zenon, <1>0, <2>1, <2>2, <2>3, <2>4 DEF BilledRoute
  <2> QED
    BY Zenon, <2>5, <2>6, <2>7, <2>8, <2>9, <2>10 DEF Account
<1>12. CASE Respond
  <2>1. /\ hpc = "reply" /\ hpc' = "cleanup" /\ cur' = cur
        /\ saw' = saw /\ settledBT' = settledBT /\ delivered' = delivered
        /\ sent' = sent
        /\ out'.start \in {out.start, "body", "error"}
        /\ out'.routes = out.routes /\ out'.end = out.end
    BY Zenon, <1>a, <1>12 DEF Respond, rvars
  <2>2. SettleSent /\ ~RefundSent /\ ~streaming
    BY Zenon, <1>0, <2>1 DEF Placed, SentSoFar
  <2>3. Placed'
    BY Zenon, <1>0, <2>1, <2>2 DEF Placed
  <2>4. RouteOfAnswer'
    BY Zenon, <1>0, <2>1, <2>2 DEF RouteOfAnswer, Accepted
  <2>5. SentSoFar'
    BY Zenon, <1>0, <2>1, <2>2 DEF SentSoFar, SettleSent, RefundSent
  <2>6. SeenSoFar'
    BY Zenon, <1>0, <2>1, <2>2 DEF SeenSoFar, SettleSent
  <2>7. OneTerminal'
    BY Zenon, <1>0, <2>1, <2>2 DEF OneTerminal
  <2>8. BilledRoute'
    BY Zenon, <1>0, <2>1, <2>2 DEF BilledRoute
  <2> QED
    BY Zenon, <2>3, <2>4, <2>5, <2>6, <2>7, <2>8 DEF Account
<1>13. CASE EncodeFails
  <2>1. /\ hpc = "settle" /\ hpc' = "cleanup" /\ cur' = cur /\ ~streaming
        /\ saw' = saw /\ settledBT' = settledBT /\ delivered' = delivered
        /\ sent' = sent
        /\ out'.start \in {out.start, "error"}
        /\ out'.routes = out.routes /\ out'.end = out.end
    BY Zenon, <1>a, <1>13 DEF EncodeFails, rvars
  <2>2. ~settledBT
    BY Zenon, <1>0, <2>1 DEF Placed
  <2>3. Placed'
    BY Zenon, <1>0, <2>1, <2>2 DEF Placed
  <2>4. RouteOfAnswer'
    BY Zenon, <1>0, <2>1, <2>2 DEF RouteOfAnswer, Accepted
  <2>5. SentSoFar'
    BY Zenon, <1>0, <2>1, <2>2 DEF SentSoFar, SettleSent, RefundSent
  <2>6. SeenSoFar'
    BY Zenon, <1>0, <2>1, <2>2 DEF SeenSoFar, SettleSent
  <2>7. OneTerminal'
    BY Zenon, <1>0, <2>1, <2>2 DEF OneTerminal
  <2>8. BilledRoute'
    BY Zenon, <1>0, <2>1, <2>2 DEF BilledRoute
  <2> QED
    BY Zenon, <2>3, <2>4, <2>5, <2>6, <2>7, <2>8 DEF Account
<1>14. CASE Emit
  <2>1. /\ hpc = "emit" /\ cur' = cur
        /\ saw' = saw /\ settledBT' = settledBT /\ delivered' = delivered
        /\ sent' = sent
        /\ hpc' \in {"broken", "afterTerminal", "settle", "cleanup"}
        /\ hpc' = "afterTerminal" => conf.term = "async" /\ ~delivered
        /\ hpc' = "settle" => conf.term = "after"
        /\ hpc' = "cleanup" => conf.term # "after" /\ (conf.term = "async" => delivered)
        /\ hpc' \in {"broken", "afterTerminal"} => out' = out
        /\ out' = out \/ out' = [out EXCEPT !.end = "done"]
    BY Zenon, <1>14 DEF Emit, Goto, rvars
  <2>2. /\ out'.start = out.start /\ out'.routes = out.routes
        /\ out'.end \in {out.end, "done"}
    BY Zenon, <1>0, <2>1 DEF Output
  <2>3. /\ streaming
        /\ conf.term \in {"after", "before", "async"}
    BY Zenon, <1>0, <2>1, TermAssumption DEF Placed, TypeOK, Confs
  <2>4. /\ hpc' = "cleanup" => SettleSent /\ sent # {}
        /\ hpc' \in {"afterTerminal", "settle"} => ~settledBT /\ sent = {}
    BY Zenon, <1>0, <2>1, <2>3 DEF SentSoFar, SettleSent, Placed
  <2>5. Placed'
    BY Zenon, <1>0, <2>1, <2>2, <2>3, <2>4 DEF Placed
  <2>6. RouteOfAnswer'
    BY Zenon, <1>0, <2>1, <2>2, <2>3, <2>4 DEF RouteOfAnswer, Accepted
  <2>7. SentSoFar'
    BY Zenon, <1>0, <2>1, <2>2, <2>3, <2>4 DEF SentSoFar, SettleSent, RefundSent
  <2>8. SeenSoFar'
    BY Zenon, <1>0, <2>1, <2>2, <2>3, <2>4 DEF SeenSoFar, SettleSent
  <2>9. OneTerminal'
    BY Zenon, <1>0, <2>1, <2>2, <2>3, <2>4 DEF OneTerminal
  <2>10. BilledRoute'
    BY Zenon, <1>0, <2>1, <2>2, <2>3, <2>4 DEF BilledRoute
  <2> QED
    BY Zenon, <2>5, <2>6, <2>7, <2>8, <2>9, <2>10 DEF Account
<1>15. CASE AfterTerminal
  <2>1. /\ hpc = "afterTerminal" /\ cur' = cur
        /\ saw' = saw
        /\ sent' = sent
        /\ hpc' \in {"broken", "wait"}
        /\ hpc' = "broken" => out' = out /\ settledBT' = settledBT /\ delivered' = delivered
        /\ hpc' = "wait" => settledBT' = TRUE /\ delivered' = TRUE
        /\ out' = out \/ out' = [out EXCEPT !.end = "done"]
    BY Zenon, <1>15 DEF AfterTerminal, Goto, rvars
  <2>2. /\ out'.start = out.start /\ out'.routes = out.routes
        /\ out'.end \in {out.end, "done"}
    BY Zenon, <1>0, <2>1 DEF Output
  <2>3. streaming /\ conf.term = "async"
    BY Zenon, <1>0, <2>1 DEF Placed
  <2>4. Placed'
    BY <1>0, <2>1, <2>2, <2>3 DEF Placed
  <2>5. RouteOfAnswer'
    BY Zenon, <1>0, <2>1, <2>2, <2>3 DEF RouteOfAnswer, Accepted
  <2>6. SentSoFar'
    BY <1>0, <2>1, <2>2, <2>3 DEF SentSoFar, SettleSent, RefundSent
  <2>7. SeenSoFar'
    BY Zenon, <1>0, <2>1, <2>2, <2>3 DEF SeenSoFar, SettleSent
  <2>8. OneTerminal'
    BY Zenon, <1>0, <2>1, <2>2, <2>3 DEF OneTerminal
  <2>9. BilledRoute'
    BY Zenon, <1>0, <2>1, <2>2, <2>3 DEF BilledRoute
  <2> QED
    BY Zenon, <2>4, <2>5, <2>6, <2>7, <2>8, <2>9 DEF Account
<1>16. CASE Broken
  <2>1. /\ hpc = "broken" /\ hpc' = "cleanup" /\ cur' = cur
        /\ saw' = saw /\ settledBT' = settledBT /\ delivered' = delivered
        /\ out' = out \/ out' = [out EXCEPT !.end = "failed"]
    BY Zenon, <1>16 DEF Broken, Goto
  <2>2. /\ out'.start = out.start /\ out'.routes = out.routes
        /\ out'.end \in {out.end, "failed"}
    BY Zenon, <1>0, <2>1 DEF Output
  <2>3. \/ settledBT /\ sent' = sent
        \/ ~settledBT /\ sent' = {RefundMsg} /\ RefundMsg.kind = "refund" /\ sent = {}
    BY Zenon, <1>0, <1>16, <2>1, RefundTypes DEF SentSoFar, Broken, rvars, RefundMsg
  <2>4. /\ settledBT => SettleSent /\ sent # {}
        /\ ~settledBT => out.end # "done" /\ out.start # "body"
    BY Zenon, <1>0, <2>1, <2>3 DEF SentSoFar, SettleSent, SeenSoFar
  <2>5. Placed'
    BY Zenon, <1>0, <2>1, <2>2, <2>3, <2>4 DEF Placed
  <2>6. RouteOfAnswer'
    BY Zenon, <1>0, <2>1, <2>2, <2>3, <2>4 DEF RouteOfAnswer, Accepted
  <2>7. SentSoFar'
    BY Zenon, <1>0, <2>1, <2>2, <2>3, <2>4 DEF SentSoFar, SettleSent, RefundSent
  <2>8. SeenSoFar'
    BY Zenon, <1>0, <2>1, <2>2, <2>3, <2>4 DEF SeenSoFar, SettleSent
  <2>9. OneTerminal'
    BY Zenon, <1>0, <2>1, <2>2, <2>3, <2>4 DEF OneTerminal
  <2>10. BilledRoute'
    BY Zenon, <1>0, <2>1, <2>2, <2>3, <2>4 DEF BilledRoute
  <2> QED
    BY Zenon, <2>5, <2>6, <2>7, <2>8, <2>9, <2>10 DEF Account
<1>17. CASE Cleanup
  <2>1. /\ hpc = "cleanup" /\ hpc' = "join" /\ cur' = cur
        /\ saw' = saw /\ settledBT' = settledBT /\ delivered' = delivered
        /\ sent' = sent /\ out' = out
    BY Zenon, <1>17 DEF Cleanup, Goto, rvars
  <2>2. Placed'
    BY Zenon, <1>0, <2>1 DEF Placed
  <2>3. RouteOfAnswer'
    BY Zenon, <1>0, <2>1 DEF RouteOfAnswer, Accepted
  <2>4. SentSoFar'
    BY Zenon, <1>0, <2>1 DEF SentSoFar, SettleSent, RefundSent
  <2>5. SeenSoFar'
    BY Zenon, <1>0, <2>1 DEF SeenSoFar, SettleSent
  <2>6. OneTerminal'
    BY Zenon, <1>0, <2>1 DEF OneTerminal
  <2>7. BilledRoute'
    BY Zenon, <1>0, <2>1 DEF BilledRoute
  <2> QED
    BY Zenon, <2>2, <2>3, <2>4, <2>5, <2>6, <2>7 DEF Account
<1>18. CASE join \/ joinTimeout
  <2>1. /\ hpc = "join" /\ hpc' = "ended" /\ cur' = cur
        /\ saw' = saw /\ settledBT' = settledBT /\ delivered' = delivered
        /\ sent' = sent /\ out' = out
    BY Zenon, <1>18 DEF join, joinTimeout, Goto, rvars
  <2>2. Placed'
    BY Zenon, <1>0, <2>1 DEF Placed
  <2>3. RouteOfAnswer'
    BY Zenon, <1>0, <2>1 DEF RouteOfAnswer, Accepted
  <2>4. SentSoFar'
    BY Zenon, <1>0, <2>1 DEF SentSoFar, SettleSent, RefundSent
  <2>5. SeenSoFar'
    BY Zenon, <1>0, <2>1 DEF SeenSoFar, SettleSent
  <2>6. OneTerminal'
    BY Zenon, <1>0, <2>1 DEF OneTerminal
  <2>7. BilledRoute'
    BY Zenon, <1>0, <2>1 DEF BilledRoute
  <2> QED
    BY Zenon, <2>2, <2>3, <2>4, <2>5, <2>6, <2>7 DEF Account
<1>21. CASE providerDone \/ cleanupTimeout
  <2>1. /\ hpc = "wait" /\ hpc' = "settle" /\ cur' = cur
        /\ saw' = saw /\ settledBT' = settledBT /\ delivered' = delivered
        /\ sent' = sent /\ out' = out
    BY Zenon, <1>21 DEF providerDone, cleanupTimeout, Goto, rvars
  <2>2. Placed'
    BY Zenon, <1>0, <2>1 DEF Placed
  <2>3. RouteOfAnswer'
    BY Zenon, <1>0, <2>1 DEF RouteOfAnswer, Accepted
  <2>4. SentSoFar'
    BY Zenon, <1>0, <2>1 DEF SentSoFar, SettleSent, RefundSent
  <2>5. SeenSoFar'
    BY Zenon, <1>0, <2>1 DEF SeenSoFar, SettleSent
  <2>6. OneTerminal'
    BY Zenon, <1>0, <2>1 DEF OneTerminal
  <2>7. BilledRoute'
    BY Zenon, <1>0, <2>1 DEF BilledRoute
  <2> QED
    BY Zenon, <2>2, <2>3, <2>4, <2>5, <2>6, <2>7 DEF Account
<1>19. CASE Environment
  <2>1. /\ UNCHANGED <<hpc, cur, saw, settledBT, delivered, out, sent>>
        /\ pv' = pv
    BY Zenon, <1>19 DEF Environment, RouterTakes, RetryJob, JobEvicted, ClientGoes, Drain, hvars, pvars, rvars
  <2> QED
    BY Zenon, <1>0, <2>1 DEF Account, Placed, RouteOfAnswer, Accepted, SentSoFar, SettleSent,
       RefundSent, SeenSoFar, OneTerminal, BilledRoute
<1>20. CASE AdapterFails
  <2>1. /\ hpc = "start" /\ hpc' = "join" /\ cur' = cur
        /\ saw' = saw /\ settledBT' = settledBT /\ delivered' = delivered
        /\ sent' = sent
        /\ out'.start \in {out.start, "error"}
        /\ out'.routes = out.routes /\ out'.end = out.end
    BY Zenon, <1>a, <1>20 DEF AdapterFails, rvars
  <2>2. out.routes = {} /\ out.start = "none"
    BY Zenon, <1>0, <2>1 DEF RouteOfAnswer
  <2>3. Placed'
    BY Zenon, <1>0, <2>1 DEF Placed
  <2>4. RouteOfAnswer'
    BY Zenon, <1>0, <2>1, <2>2 DEF RouteOfAnswer, Accepted
  <2>5. SentSoFar'
    BY Zenon, <1>0, <2>1 DEF SentSoFar, SettleSent, RefundSent
  <2>6. SeenSoFar'
    BY Zenon, <1>0, <2>1, <2>2 DEF SeenSoFar, SettleSent
  <2>7. OneTerminal'
    BY Zenon, <1>0, <2>1 DEF OneTerminal
  <2>8. BilledRoute'
    BY Zenon, <1>0, <2>1, <2>2 DEF BilledRoute
  <2> QED
    BY Zenon, <2>3, <2>4, <2>5, <2>6, <2>7, <2>8 DEF Account
<1> QED
  BY Zenon, <1>1, <1>2, <1>3, <1>4, <1>5, <1>6, <1>7, <1>8, <1>9, <1>10, <1>11,
     <1>12, <1>13, <1>14, <1>15, <1>16, <1>17, <1>18, <1>19, <1>20,
     <1>21 DEF Handler

-----------------------------------------------------------------------------
(* The handler and its environment: who owns the settle.                   *)

(* A step that calls nobody keeps the ledger unless it starts an answer.   *)
LEMMA LedgerKept ==
  ASSUME Ledger, UNCHANGED <<sent, wire, queue, dropped, router>>, streaming' = streaming,
         hpc' \notin {"reserve", "join", "ended"} => hpc \notin {"reserve", "join", "ended"},
         hpc' = "reply" \/ out'.start = "body" => hpc = "reply" \/ out.start = "body"
  PROVE  Ledger'
BY Zenon DEF Ledger, Owned, SettleSent, RefundSent

(* A delivered call is one of the calls sent, and a router that has been   *)
(* told to settle stays settled.                                           *)
LEMMA DeliverLedger ==
  ASSUME NEW m \in Msgs, NEW r \in Results, Deliver(m, r)
  PROVE  /\ wire' \subseteq wire \cup {m}
         /\ router' # router => router = "held"
         /\ router' = "refunded" => router = "refunded" \/ m.kind = "refund"
         /\ router # "none" => router' # "none"
         /\ r = "ok" /\ m.kind = "settle" /\ router \notin {"none", "refunded"} =>
               router' = "settled" \/ (router' = router /\ router # "held")
BY Zenon DEF Deliver, Applied, Msgs

LEMMA RefundLedger ==
  ASSUME IInv, sent = {}, router # "none", NEW retry \in BOOLEAN, Refund(retry),
         hpc' # "reply", out'.start # "body"
  PROVE  Ledger'
<1>1. RefundMsg \in Msgs /\ RefundMsg.kind = "refund"
  BY CandAssumption DEF RefundMsg, Msgs, None
<1>2. PICK r \in Results :
        /\ Post(RefundMsg, r)
        /\ Enqueue(RefundMsg) \/ UNCHANGED <<queue, dropped>>
  BY Zenon DEF Refund
<1>3. sent' = {RefundMsg} /\ Deliver(RefundMsg, r)
  BY Zenon, <1>2 DEF Post
<1>4. wire = {} /\ queue = {} /\ dropped = {}
  BY Zenon DEF IInv, Ledger
<1>5. wire' \subseteq sent' /\ queue' \subseteq sent' /\ dropped' \subseteq sent'
  BY Zenon, <1>1, <1>2, <1>3, <1>4, DeliverLedger DEF Enqueue
<1>6. RefundSent' /\ ~SettleSent' /\ router' # "none"
  BY Zenon, <1>1, <1>3, DeliverLedger DEF RefundSent, SettleSent
<1> QED
  BY Zenon, <1>5, <1>6 DEF Ledger

LEMMA SettleLedger ==
  ASSUME IInv, SettleAnswer
  PROVE  Ledger'
<1> DEFINE m == [kind |-> "settle", route |-> tr[cur].selected]
<1>1. m \in Msgs /\ m.kind = "settle"
  BY Zenon DEF IInv, TypeOK, ProviderTypeOK, Tracker, Msgs
<1>2. PICK r \in Results :
        /\ Settle(m, r)
        /\ IF r # "ok" /\ (streaming \/ conf.priced) THEN Enqueue(m)
           ELSE UNCHANGED <<queue, dropped>>
        /\ ~streaming /\ r # "ok" /\ ~conf.priced => hpc' = "cleanup" /\ out' = Reply("error")
  BY Zenon DEF SettleAnswer, settleRoute
<1>3. hpc = "settle" /\ streaming' = streaming
  BY Zenon DEF SettleAnswer, settleRoute, pvars
<1>4. sent = {} /\ wire = {} /\ queue = {} /\ dropped = {} /\ router \notin {"none", "refunded"}
  BY Zenon, <1>3 DEF IInv, SentSoFar, Ledger, RefundSent
<1>5. sent' = {m} /\ Deliver(m, r)
  BY Zenon, <1>2, <1>4 DEF Settle, Post
<1>6. wire' \subseteq sent' /\ queue' \subseteq sent' /\ dropped' \subseteq sent'
  BY Zenon, <1>1, <1>2, <1>4, <1>5, DeliverLedger DEF Enqueue
<1>7. router' \notin {"none", "refunded"}
  BY Zenon, <1>1, <1>4, <1>5, DeliverLedger
<1>8. r = "ok" => router' = "settled"
  <2>1. router \in {"held", "settled"}
    BY Zenon, <1>4 DEF IInv, TypeOK
  <2> QED
    BY Zenon, <1>1, <1>4, <1>5, <2>1, DeliverLedger
<1>9. r # "ok" /\ (streaming \/ conf.priced) => Owned'
  BY Zenon, <1>1, <1>2 DEF Enqueue, Owned
<1>10. ~streaming /\ r # "ok" /\ ~conf.priced => hpc' # "reply" /\ out'.start # "body"
  <2>1. ~streaming => out.start # "body"
    BY Zenon, <1>3, <1>4 DEF IInv, SeenSoFar, SettleSent
  <2>2. Reply("error").start \in {out.start, "error"}
    BY Zenon DEF IInv, TypeOK, Reply, Output
  <2> QED
    BY Zenon, <1>2, <2>1, <2>2
<1>11. Owned' \/ (~streaming /\ hpc' # "reply" /\ out'.start # "body")
  BY Zenon, <1>8, <1>9, <1>10 DEF Owned
<1> QED
  BY Zenon, <1>3, <1>6, <1>7, <1>11 DEF Ledger

(* The router and the retry queue, whatever they do with a call.           *)
LEMMA QueueLedger ==
  ASSUME IInv, RouterTakes \/ RetryJob \/ JobEvicted
  PROVE  Ledger'
<1>1. /\ streaming' = streaming /\ hpc' = hpc /\ out' = out /\ sent' = sent
  BY Zenon DEF RouterTakes, RetryJob, JobEvicted, pvars, hvars
<1>2. PICK m \in sent :
        /\ wire' \subseteq wire \cup {m} /\ queue' \subseteq queue
        /\ dropped' \subseteq dropped \cup {m}
        /\ router' # router => router = "held"
        /\ router' = "refunded" => router = "refunded" \/ m.kind = "refund"
        /\ router # "none" => router' # "none"
        /\ \/ queue \cup dropped \subseteq queue' \cup dropped'
           \/ /\ queue \ {m} \subseteq queue' /\ dropped \subseteq dropped'
              /\ m.kind = "settle" /\ router \notin {"none", "refunded"} =>
                    router' = "settled" \/ (router' = router /\ router # "held")
  <2>0. wire \subseteq sent /\ queue \subseteq sent /\ sent \subseteq Msgs
    BY Zenon DEF IInv, Ledger, TypeOK
  <2>1. CASE RouterTakes
    <3>1. PICK m \in wire : wire' = wire \ {m} /\ router' = Applied(m) /\ UNCHANGED <<queue, dropped>>
      BY Zenon, <2>1 DEF RouterTakes
    <3> QED
      BY Zenon, <2>0, <3>1 DEF Applied, Msgs
  <2>2. CASE RetryJob
    <3>1. PICK m \in queue, r \in Results :
            /\ Deliver(m, r)
            /\ \/ r = "ok" /\ queue' = queue \ {m} /\ UNCHANGED dropped
               \/ UNCHANGED <<queue, dropped>>
               \/ giveUp(m)
      BY Zenon, <2>2 DEF RetryJob
    <3>2. m \in Msgs /\ m \in sent
      BY Zenon, <2>0, <3>1
    <3>3. queue' \subseteq queue /\ dropped' \subseteq dropped \cup {m}
      BY Zenon, <3>1 DEF giveUp
    <3>4. \/ queue \cup dropped \subseteq queue' \cup dropped'
          \/ r = "ok" /\ queue \ {m} \subseteq queue' /\ dropped \subseteq dropped'
      BY Zenon, <3>1 DEF giveUp
    <3> QED
      BY Zenon, <3>1, <3>2, <3>3, <3>4, DeliverLedger
  <2>3. CASE JobEvicted
    <3>1. PICK m \in queue : giveUp(m) /\ UNCHANGED <<wire, router>>
      BY Zenon, <2>3 DEF JobEvicted
    <3> QED
      BY Zenon, <2>0, <3>1 DEF giveUp
  <2> QED
    BY Zenon, <2>1, <2>2, <2>3
<1>3. m.kind \in {"settle", "refund"} /\ sent # {}
  BY Zenon DEF IInv, TypeOK, Msgs
<1>4. wire' \subseteq sent' /\ queue' \subseteq sent' /\ dropped' \subseteq sent'
  BY Zenon, <1>1, <1>2 DEF IInv, Ledger
<1>5. router' = "refunded" => RefundSent'
  BY Zenon, <1>1, <1>2 DEF IInv, Ledger, RefundSent
<1>6. router' # "none"
  BY Zenon, <1>2, <1>3 DEF IInv, Ledger
<1>7. Owned => Owned'
  <2>1. CASE router = "settled"
    BY Zenon, <1>2, <2>1 DEF Owned
  <2>2. ASSUME NEW n \in queue \cup dropped, n.kind = "settle", router # "settled"
        PROVE  Owned'
    <3>1. CASE n \in queue' \cup dropped'
      BY Zenon, <2>2, <3>1 DEF Owned
    <3>2. CASE n \notin queue' \cup dropped'
      <4>1. /\ n = m
            /\ router \notin {"none", "refunded"} =>
                  router' = "settled" \/ (router' = router /\ router # "held")
        BY Zenon, <1>2, <2>2, <3>2
      <4>2. router \notin {"none", "refunded"}
        BY Zenon, <1>2, <1>3, <2>2, <4>1 DEF IInv, Ledger, RefundSent, OneTerminal
      <4>3. router = "held"
        BY Zenon, <2>2, <4>2 DEF IInv, TypeOK
      <4> QED
        BY Zenon, <4>1, <4>2, <4>3 DEF Owned
    <3> QED
      BY Zenon, <3>1, <3>2
  <2> QED
    BY Zenon, <2>1, <2>2 DEF Owned
<1> QED
  BY Zenon, <1>1, <1>4, <1>5, <1>6, <1>7 DEF IInv, Ledger, SettleSent

LEMMA HandlerLedger ==
  ASSUME IInv, Handler \/ Environment
  PROVE  Ledger'
<1>0. Ledger /\ out \in Output
  BY Zenon DEF IInv, TypeOK
<1>a. \A start \in {"head", "body", "error"} : Reply(start).start \in {out.start, start}
  BY Zenon, <1>0 DEF Reply, Output
<1>b. \A e \in {"done", "failed"} : [out EXCEPT !.end = e].start = out.start
  BY Zenon, <1>0 DEF Output
<1>c. hpc \in {"refuse", "failHead", "broken"} =>
        router # "none" /\ (sent = {} => out.start # "body")
  BY Zenon DEF IInv, Ledger, SeenSoFar, SettleSent
<1>1. CASE Reserve
  <2>1. sent = {} /\ out.start = "none" /\ wire = {} /\ queue = {} /\ dropped = {}
    BY Zenon, <1>0, <1>1 DEF Reserve, IInv, SentSoFar, RouteOfAnswer, Ledger
  <2>2. /\ UNCHANGED <<sent, wire, queue, dropped>>
        /\ router' \in {"none", "held"} /\ (router' = "none" => hpc' = "join")
        /\ hpc' # "reply" /\ out'.start # "body"
    BY Zenon, <1>a, <1>1, <2>1 DEF Reserve, served
  <2> QED
    BY Zenon, <2>1, <2>2 DEF Ledger, SettleSent
<1>2. CASE Refuse
  <2>1. hpc = "refuse" /\ hpc' = "join" /\ sent = {} /\ out'.start \in {out.start, "error"}
    BY Zenon, <1>a, <1>2 DEF Refuse, IInv, SentSoFar
  <2> QED
    BY Zenon, <1>2, <1>c, <2>1, RefundLedger DEF Refuse
<1>3. CASE failBeforeHead \/ collectFailed
  <2>1. hpc = "failHead" /\ refundFailed
    BY Zenon, <1>3 DEF failBeforeHead, collectFailed
  <2>2. hpc' = "cleanup" /\ sent = {} /\ out'.start \in {out.start, "error"}
    BY Zenon, <1>a, <2>1 DEF refundFailed, IInv, SentSoFar
  <2> QED
    BY Zenon, <1>c, <2>1, <2>2, RefundLedger DEF refundFailed
<1>4. CASE SettleAnswer
  BY Zenon, <1>4, SettleLedger
<1>5. CASE Broken
  <2>1. hpc = "broken" /\ hpc' = "cleanup" /\ out'.start = out.start /\ streaming' = streaming
    BY Zenon, <1>b, <1>5 DEF Broken, Goto, pvars
  <2>2. CASE UNCHANGED rvars
    BY Zenon, <1>0, <2>1, <2>2, LedgerKept DEF rvars
  <2>3. CASE ~settledBT /\ Refund(conf.stage /\ out.routes # {})
    <3>1. sent = {} /\ (conf.stage /\ out.routes # {}) \in BOOLEAN
      BY Zenon, <2>1, <2>3 DEF IInv, SentSoFar
    <3> QED
      BY Zenon, <1>c, <2>1, <2>3, <3>1, RefundLedger
  <2> QED
    BY Zenon, <1>5, <2>2, <2>3 DEF Broken
<1>6. CASE RouterTakes \/ RetryJob \/ JobEvicted
  BY Zenon, <1>6, QueueLedger
<1>7. CASE Respond
  BY Zenon, <1>0, <1>7, LedgerKept DEF Respond, pvars, rvars
<1>8. CASE ClientGoes \/ Drain
  BY Zenon, <1>0, <1>8, LedgerKept DEF ClientGoes, Drain, pvars, rvars
<1>9. CASE join \/ joinTimeout \/ Cleanup \/ providerDone \/ cleanupTimeout
  <2>1. hpc \in {"join", "cleanup", "wait"} /\ hpc' \in {"ended", "join", "settle"}
        /\ (hpc' = "settle" => hpc = "wait") /\ out' = out /\ UNCHANGED <<streaming, rvars>>
    BY Zenon, <1>9 DEF join, joinTimeout, Cleanup, providerDone, cleanupTimeout, Goto, pvars
  <2> QED
    BY Zenon, <1>0, <2>1, LedgerKept DEF rvars
<1>10. CASE \/ Start \/ AdapterFails \/ Await \/ PreHeader \/ WriteStreamHead \/ Pump
            \/ HeartbeatLost \/ Flush \/ EncodeFails \/ Emit \/ AfterTerminal
  <2>1. /\ hpc \notin {"reserve", "join", "ended"} /\ UNCHANGED <<streaming, rvars>>
    BY Zenon, <1>10 DEF Start, AdapterFails, Await, PreHeader, WriteStreamHead, Pump,
       HeartbeatLost, Flush, EncodeFails, Emit, AfterTerminal, Goto, pvars
  <2>2. hpc' # "reply"
    BY Zenon, <1>10 DEF Start, AdapterFails, Await, PreHeader, WriteStreamHead, Pump,
       HeartbeatLost, Flush, EncodeFails, Emit, AfterTerminal, Goto, served, ending,
       finish, broken, goingOn
  <2>3. out'.start \in {out.start, "error", "head"}
    <3>1. \A x : [out EXCEPT !.routes = x].start = out.start
      BY Zenon, <1>0 DEF Output
    <3>2. CASE Pump
      BY Zenon, <3>1, <3>2 DEF Pump
    <3>3. CASE ~Pump
      BY Zenon, <1>10, <1>a, <1>b, <3>3 DEF Start, AdapterFails, Await, PreHeader,
         WriteStreamHead, HeartbeatLost, Flush, EncodeFails, Emit, AfterTerminal, Goto
    <3> QED
      BY Zenon, <3>2, <3>3
  <2> QED
    BY Zenon, <1>0, <2>1, <2>2, <2>3, LedgerKept DEF rvars
<1> QED
  BY Zenon, <1>1, <1>2, <1>3, <1>4, <1>5, <1>6, <1>7, <1>8, <1>9, <1>10
     DEF Handler, Environment

LEMMA ProviderAccounts ==
  ASSUME IInv, NEW k \in Inv, Providers(k)
  PROVE  Account' /\ Ledger'
<1>1. /\ TypeOK /\ RouteKept /\ Account /\ ProviderStep(k) /\ cur \in Inv
      /\ UNCHANGED <<conf, hpc, cur, saw, settledBT, delivered, out, sent>>
  BY Zenon DEF IInv, Account, TypeOK, Providers, hvars, rvars
<1>2. streaming' = streaming
  BY Zenon, <1>1 DEF ProviderStep, nextCandidate, UpstreamOpened, Write,
     writeReturns, ttfbFires, invokeReturns, retrySameCandidate, invokeSucceeds,
     invokeFails, fallback
<1>3. tr[cur].selected # None => tr'[cur].selected = tr[cur].selected
  BY Zenon, <1>1, ProviderCommits
<1>4. pv["main"].pc = "idle" => pv'["main"].pc = "idle"
  <2>1. ASSUME pv["main"].pc = "idle" PROVE pv'["main"] = pv["main"]
    <3>1. pv \in [Inv -> Goroutine] /\ "main" \in Inv
      BY Zenon, <1>1 DEF TypeOK, ProviderTypeOK, Inv
    <3>2. k # "main"
      BY Zenon, <1>1, <2>1 DEF ProviderStep, nextCandidate, UpstreamOpened, Write,
         writeReturns, ttfbFires, invokeReturns, retrySameCandidate, invokeSucceeds,
         invokeFails, fallback
    <3> QED
      BY Zenon, <1>1, <3>1, <3>2 DEF ProviderStep, nextCandidate, UpstreamOpened, Write,
         writeReturns, ttfbFires, invokeReturns, retrySameCandidate, invokeSucceeds,
         invokeFails, fallback, finishFailure, selectRoute
  <2> QED
    BY Zenon, <2>1
<1>5. RouteOfAnswer'
  BY Zenon, <1>1, <1>2, <1>3, <1>4 DEF Account, RouteOfAnswer, Accepted
<1>6. BilledRoute'
  <2>1. out.routes # {} => tr[cur].selected # None
    BY Zenon, <1>1 DEF Account, RouteOfAnswer, Accepted
  <2> QED
    BY Zenon, <1>1, <1>3, <2>1 DEF Account, BilledRoute
<1>7. Ledger'
  BY Zenon, <1>1, <1>2, LedgerKept DEF IInv, Providers, hvars, rvars
<1> QED
  BY Zenon, <1>1, <1>2, <1>5, <1>6, <1>7 DEF Account, Placed, SentSoFar, SettleSent, RefundSent,
     SeenSoFar, OneTerminal

-----------------------------------------------------------------------------
(* The inductive invariant.                                                *)

LEMMA InitInvariant == Init => IInv
<1> SUFFICES ASSUME Init PROVE IInv
  OBVIOUS
<1>0. /\ conf \in Confs /\ streaming \in BOOLEAN
      /\ conf.stage \in BOOLEAN /\ conf.lease \in BOOLEAN
      /\ 0 \in 0..NCand /\ 1 \in Cand /\ 0 \in 0..MaxRetries /\ 0 \in 0..MaxChunks
      /\ 0 \in Nat
  BY LeaseAssumption, CandAssumption, RetryAssumption, ChunkAssumption DEF Init, Confs, Cand
<1>1. idleGoroutine \in Goroutine /\ [idleGoroutine EXCEPT !.pc = "loop"] \in Goroutine
  BY Zenon, <1>0 DEF idleGoroutine, Goroutine, Errors
<1>2. ProviderTypeOK
  <2>1. pv \in [Inv -> Goroutine]
    BY Zenon, <1>1 DEF Init, ProviderInit
  <2>2. [selected |-> None, ready |-> FALSE, failure |-> FALSE, attempts |-> 0] \in Tracker
    BY Zenon, <1>0 DEF Tracker, None
  <2>3. [item |-> "none", from |-> None, read |-> "open", write |-> "open"] \in Pipe
    BY Zenon, <1>0 DEF Pipe, None
  <2>4. tr \in [Inv -> Tracker] /\ pipe \in [Inv -> Pipe]
    BY Zenon, <2>2, <2>3 DEF Init, ProviderInit
  <2>5. cancelled \in [Inv -> BOOLEAN]
    BY Zenon DEF Init, ProviderInit
  <2> QED
    BY Zenon, <1>0, <2>1, <2>4, <2>5 DEF ProviderTypeOK
<1>3. TypeOK
  <2>1. out \in Output
    <3>1. {} \in SUBSET (Inv \X (0..NCand))
      BY Zenon
    <3> QED
      BY Zenon, <3>1 DEF Init, Output
  <2> QED
    BY Zenon, <1>0, <1>2, <2>1 DEF TypeOK, Init, PCs, Inv
<1>4. RouteKept
  <2> SUFFICES ASSUME NEW k \in Inv PROVE RouteKeptBy(k)
    BY Zenon DEF RouteKept
  <2>1. pv[k] = idleGoroutine \/ pv[k] = [idleGoroutine EXCEPT !.pc = "loop"]
    BY Zenon DEF Init, ProviderInit
  <2>2. /\ ~pv[k].committed /\ pv[k].n = 0 /\ pv[k].pc \in {"idle", "loop"}
    BY <2>1 DEF idleGoroutine
  <2>3. /\ tr[k] = [selected |-> None, ready |-> FALSE, failure |-> FALSE, attempts |-> 0]
        /\ pipe[k] = [item |-> "none", from |-> None, read |-> "open", write |-> "open"]
    BY Zenon DEF Init, ProviderInit
  <2> QED
    BY <2>2, <2>3 DEF RouteKeptBy
<1>5. /\ hpc \in {"reserve", "refuse", "start"} /\ sent = {} /\ ~saw
      /\ wire = {} /\ queue = {} /\ dropped = {}
      /\ ~settledBT /\ ~delivered
      /\ out.start = "none" /\ out.routes = {} /\ out.end = "none"
      /\ ~streaming => ~conf.stage /\ conf.term = "after"
  <2>1. ~streaming => conf.term = "after"
    BY Zenon DEF Init
  <2>2. conf.term = "after" => ~conf.stage
    BY Zenon DEF Init, Confs
  <2>3. /\ hpc \in {"reserve", "refuse", "start"} /\ sent = {} /\ ~saw
        /\ wire = {} /\ queue = {} /\ dropped = {} /\ ~settledBT /\ ~delivered
    BY Zenon DEF Init
  <2>4. out.start = "none" /\ out.routes = {} /\ out.end = "none"
    BY Zenon DEF Init
  <2> QED
    BY Zenon, <2>1, <2>2, <2>3, <2>4
<1>6. router # "refunded" /\ (hpc # "reserve" => router # "none")
  <2>1. CASE conf.lease
    BY Zenon, <2>1 DEF Init
  <2>2. CASE ~conf.lease
    BY Zenon, <2>2 DEF Init
  <2> QED
    BY Zenon, <2>1, <2>2
<1>7. pv["main"].pc = "idle"
  <2>1. "main" \in Inv /\ "main" \notin (IF conf.lease THEN {"spec"} ELSE {})
    BY Zenon DEF Inv
  <2>2. pv["main"] = idleGoroutine
    BY Zenon, <2>1 DEF Init, ProviderInit
  <2> QED
    BY <2>2 DEF idleGoroutine
<1> QED
  BY Zenon, <1>3, <1>4, <1>5, <1>6, <1>7 DEF IInv, Placed, RouteOfAnswer, Accepted, SentSoFar,
     SettleSent, RefundSent, SeenSoFar, Ledger, OneTerminal, BilledRoute

LEMMA StepInvariant == IInv /\ [Next]_vars => IInv'
<1> SUFFICES ASSUME IInv, [Next]_vars PROVE IInv'
  OBVIOUS
<1>1. ASSUME Handler \/ Environment PROVE IInv'
  <2>1. TypeOK'
    BY Zenon, <1>1, HandlerTypes DEF IInv
  <2>2. RouteKept'
    BY Zenon, <1>1, HandlerRoutes DEF IInv
  <2>3. Account'
    BY Zenon, <1>1, HandlerAccounts
  <2>4. Ledger'
    BY Zenon, <1>1, HandlerLedger
  <2> QED
    BY Zenon, <2>1, <2>2, <2>3, <2>4 DEF IInv, Account
<1>2. ASSUME NEW k \in Inv, Providers(k) PROVE IInv'
  <2>1. RouteKept'
    BY Zenon, <1>2, ProviderRoutes DEF IInv, Providers
  <2>2. ProviderTypeOK'
    BY Zenon, <1>2, ProviderTypes DEF IInv, Providers
  <2>3. TypeOK'
    BY Zenon, <1>2, <2>2 DEF IInv, TypeOK, Providers, hvars, rvars
  <2>4. Account' /\ Ledger'
    BY Zenon, <1>2, ProviderAccounts
  <2> QED
    BY Zenon, <2>1, <2>3, <2>4 DEF IInv, Account
<1>3. ASSUME UNCHANGED vars PROVE IInv'
  BY <1>3 DEF IInv, vars, pvars, hvars, rvars, TypeOK, ProviderTypeOK, RouteKept,
     RouteKeptBy, Placed, RouteOfAnswer, Accepted, SentSoFar, SettleSent, RefundSent,
     SeenSoFar, Ledger, Owned, OneTerminal, BilledRoute
<1> QED
  BY Zenon, <1>1, <1>2, <1>3 DEF Next, Environment, Finished

(* The inductive invariant holds in every state of every request.          *)
THEOREM RequestInvariance == Spec => []IInv
BY PTL, InitInvariant, StepInvariant DEF Spec

(* Every variable of the request keeps its type.                           *)
THEOREM RequestTypeCorrect == Spec => []TypeOK
<1>1. IInv => TypeOK
  BY Zenon DEF IInv
<1> QED
  BY PTL, <1>1, RequestInvariance

(* No path through the handlers makes both a settle and a refund call for  *)
(* one authorization.                                                      *)
THEOREM OneTerminalAlways == Spec => []OneTerminal
<1>1. IInv => OneTerminal
  BY Zenon DEF IInv
<1> QED
  BY PTL, <1>1, RequestInvariance

(* The client is answered from one route, and a settle bills that route.   *)
THEOREM BilledRouteAlways == Spec => []BilledRoute
<1>1. IInv => BilledRoute
  BY Zenon DEF IInv
<1> QED
  BY PTL, <1>1, RequestInvariance

(* A 200 head is only ever written after a provider accepted the request.  *)
THEOREM HeadAfterAcceptance == Spec => []HeadMeansAccepted
<1>1. IInv => HeadMeansAccepted
  BY Zenon DEF IInv, RouteOfAnswer, Accepted, HeadMeansAccepted
<1> QED
  BY PTL, <1>1, RequestInvariance

(* Output the client was sent always ends with a terminal call, and a      *)
(* complete answer with a settle.                                          *)
THEOREM OutputAlwaysAccounted == Spec => []OutputAccounted
<1>1. IInv => OutputAccounted
  BY Zenon DEF IInv, SeenSoFar, SettleSent, OutputAccounted
<1> QED
  BY PTL, <1>1, RequestInvariance

(* A complete answer whose handler has ended is settled at the router, or  *)
(* its settle is in the hands of the retry queue, queued or dropped.       *)
THEOREM AnswerAlwaysOwned == Spec => []AnswerOwned
<1>1. IInv => AnswerOwned
  BY Zenon DEF IInv, SeenSoFar, Ledger, Owned, AnswerOwned
<1> QED
  BY PTL, <1>1, RequestInvariance

(* A committed candidate is final: no step changes the selected route,     *)
(* starts another attempt or retries it.                                   *)
THEOREM CommitAlwaysFinal == Spec => CommitFinal
<1> DEFINE A == \A k \in Inv : tr[k].selected # None =>
                  /\ tr'[k].selected = tr[k].selected
                  /\ tr'[k].attempts = tr[k].attempts
                  /\ pv'[k].try = pv[k].try
<1>1. IInv /\ [Next]_vars => [A]_vars
  <2> SUFFICES ASSUME IInv, Next PROVE A
    BY Zenon
  <2>1. CASE Handler \/ Environment
    <3>1. tr' = tr
      BY Zenon, <2>1, HandlerRoutes DEF IInv
    <3>2. \A k \in Inv : pv'[k].try = pv[k].try
      <4>1. pv \in [Inv -> Goroutine] /\ "main" \in Inv
        BY Zenon DEF IInv, TypeOK, ProviderTypeOK, Inv
      <4>2. pv' = pv \/ pv' = [pv EXCEPT !["main"] = [pv["main"] EXCEPT !.pc = "loop"]]
        BY Zenon, <2>1 DEF Handler, Environment, Reserve, Refuse, Start, AdapterFails, Await, PreHeader,
           WriteStreamHead, failBeforeHead, collectFailed, refundFailed, Pump, HeartbeatLost, Flush, SettleAnswer, settleRoute,
           Respond, EncodeFails, Emit, AfterTerminal, providerDone, cleanupTimeout, Broken, Cleanup,
     join, joinTimeout, RouterTakes,
           RetryJob, JobEvicted, ClientGoes, Drain, pvars, startProviderInvocation
      <4>3. ASSUME NEW k \in Inv PROVE pv'[k].try = pv[k].try
        <5>1. pv'[k] = pv[k] \/ pv'[k] = [pv[k] EXCEPT !.pc = "loop"]
          BY Zenon, <4>1, <4>2
        <5> QED
          BY Zenon, <4>1, <5>1 DEF Goroutine
      <4> QED
        BY Zenon, <4>3
    <3> QED
      BY Zenon, <3>1, <3>2
  <2>2. CASE \E j \in Inv : Providers(j)
    BY Zenon, <2>2, ProviderCommits DEF IInv, Providers
  <2>3. CASE Finished
    BY Zenon, <2>3 DEF Finished, vars, pvars
  <2> QED
    BY Zenon, <2>1, <2>2, <2>3 DEF Next, Environment
<1> QED
  BY PTL, <1>1, RequestInvariance DEF Spec, CommitFinal
=============================================================================
