------------------------ MODULE SettlementRetryQueue ------------------------
(***************************************************************************)
(* The in-memory retry queue of settles and refunds that the request path  *)
(* failed to deliver: handlers, hold timers and the one worker enqueue     *)
(* into a bounded channel without blocking, evicting its oldest job when   *)
(* it is full; what the queue gives up is parked in the outbox writer.     *)
(* Shutdown releases held jobs, waits for the worker to report idle, parks *)
(* what is still queued, flushes the writer and exits.                     *)
(* Delays only order steps: a backoff or a hold may end at any moment.     *)
(***************************************************************************)
EXTENDS SettleOutboxWriter

CONSTANTS
    QueueCap,      \* cap(jobs); 0 disables the queue
    MaxAttempts,   \* maxAttempts
    Outbox,        \* an outbox is configured
    Frozen         \* what freezing a job may give

ASSUME QueueAssumption == QueueCap \in Nat /\ MaxAttempts \in Nat \ {0}
ASSUME OutboxAssumption == Outbox \in BOOLEAN
ASSUME FrozenAssumption == Frozen \subseteq {"terminal", "nothing", "unbuildable"}

VARIABLES
    frozen,       \* frozen, frozenErr of each job
    by,           \* who calls Enqueue or park with it, or the channel
    attempt,      \* job.attempt
    victim,       \* the job its Enqueue evicted
    jobs,         \* the channel
    deferred,     \* the counter of held retries
    holds,        \* hold goroutines that have not decremented it yet
    delivered,    \* jobs whose terminal the router has applied
    check,        \* the worker answers an idle check
    flush,        \* the main goroutine: serving, or a step of the shutdown
    drained,      \* the handlers had ended when the shutdown began
    idle          \* WaitForIdle returned nil

qvars == <<frozen, by, attempt, victim, jobs, deferred, holds, delivered,
           check, flush, drained, idle>>
vars == <<wvars, qvars>>

Enqueuing == {"enqueue", "count", "uncount", "push", "evict", "push2"}
Ended == {"delivered", "stored", "skipped", "dropped", "lost", "unparked"}
JobPC == {"new", "held", "queued", "post", "parked"} \cup Enqueuing \cup Offering \cup Ended

TypeOK ==
    /\ WriterTypeOK
    /\ pc \in [Jobs -> JobPC]
    /\ frozen \in [Jobs -> Frozen]
    /\ by \in [Jobs -> {"handler", "timer", "queue", "worker", "flush"}]
    /\ attempt \in [Jobs -> 1..MaxAttempts]
    /\ victim \in [Jobs -> Jobs \cup {NoJob}]
    /\ jobs \in Seq(Jobs) /\ Len(jobs) <= QueueCap
    /\ deferred \in Nat
    /\ holds \subseteq Jobs /\ delivered \subseteq Jobs
    /\ check \in {"none", "zero"}
    /\ flush \in {"serving", "wait", "drain", "outbox", "exited"}
    /\ drained \in BOOLEAN /\ idle \in BOOLEAN

Init ==
    /\ WriterInit
    /\ pc = [j \in Jobs |-> "new"]
    /\ frozen \in [Jobs -> Frozen]
    /\ by = [j \in Jobs |-> "handler"]
    /\ attempt = [j \in Jobs |-> 1]
    /\ victim = [j \in Jobs |-> NoJob]
    /\ jobs = <<>> /\ deferred = 0 /\ holds = {} /\ delivered = {}
    /\ check = "none" /\ flush = "serving" /\ drained = FALSE /\ idle = FALSE

-----------------------------------------------------------------------------
(* park: nothing to send and an unbuildable terminal are not parked; with  *)
(* no outbox the loss stays a log line.                                    *)
park(j) ==
    IF ~Outbox THEN "unparked"
    ELSE IF frozen[j] # "terminal" THEN "skipped" ELSE "offer"

(* A job that some goroutine is carrying through Enqueue or park.          *)
carried(j) ==
    \/ pc[j] \in Enqueuing \cup Offering
    \/ victim[j] # NoJob /\ pc[victim[j]] \in Offering

Goto(j, p) == pc' = [pc EXCEPT ![j] = p]

(* A send on the channel.                                                  *)
send(j) ==
    /\ jobs' = Append(jobs, j)
    /\ Goto(j, "queued")
    /\ by' = [by EXCEPT ![j] = "queue"]

writerIdle == UNCHANGED <<queue, hand, tries, pending, durable, waiter>>

(* A handler's settle or refund failed.                                    *)
Enqueue(j) ==
    /\ pc[j] = "new" /\ ~drained
    /\ Goto(j, IF QueueCap = 0 THEN park(j) ELSE "enqueue")
    /\ writerIdle /\ UNCHANGED qvars

(* The first retry of a terminal the enclave stopped waiting for is held,  *)
(* unless the shutdown has released the holds or as many are held as the   *)
(* queue has room for.                                                     *)
deferUntilDue(j) ==
    /\ pc[j] = "enqueue"
    /\ \/ by[j] = "handler" /\ flush = "serving" /\ Goto(j, "count")
       \/ Goto(j, "push")
    /\ writerIdle /\ UNCHANGED qvars

MutantHoldOneMore(j) ==
    /\ pc[j] = "count"
    /\ deferred' = deferred + 1
    /\ IF deferred > QueueCap
         THEN Goto(j, "uncount") /\ UNCHANGED holds
         ELSE Goto(j, "held") /\ holds' = holds \cup {j}
    /\ writerIdle
    /\ UNCHANGED <<frozen, by, attempt, victim, jobs, delivered, check, flush, drained, idle>>

deferCount(j) ==
    /\ pc[j] = "count"
    /\ deferred' = deferred + 1
    /\ IF deferred + 1 > QueueCap
         THEN Goto(j, "uncount") /\ UNCHANGED holds
         ELSE Goto(j, "held") /\ holds' = holds \cup {j}
    /\ writerIdle
    /\ UNCHANGED <<frozen, by, attempt, victim, jobs, delivered, check, flush, drained, idle>>

deferFull(j) ==
    /\ pc[j] = "uncount"
    /\ deferred' = deferred - 1
    /\ Goto(j, "push")
    /\ writerIdle
    /\ UNCHANGED <<frozen, by, attempt, victim, jobs, holds, delivered, check, flush, drained, idle>>

MutantHoldForever(j) ==
    /\ pc[j] = "held" /\ flush # "serving"
    /\ Goto(j, "push")
    /\ by' = [by EXCEPT ![j] = "timer"]
    /\ writerIdle
    /\ UNCHANGED <<frozen, attempt, victim, jobs, deferred, holds, delivered, check, flush, drained, idle>>

(* The hold ends with its timer or the shutdown, and its goroutine calls   *)
(* Enqueue; it decrements the counter once that has returned.              *)
holdEnds(j) ==
    /\ pc[j] = "held"
    /\ Goto(j, "push")
    /\ by' = [by EXCEPT ![j] = "timer"]
    /\ writerIdle
    /\ UNCHANGED <<frozen, attempt, victim, jobs, deferred, holds, delivered, check, flush, drained, idle>>

MutantHoldCountsEarly(j) ==
    /\ j \in holds /\ pc[j] # "held"
    /\ holds' = holds \ {j} /\ deferred' = deferred - 1
    /\ writerIdle
    /\ UNCHANGED <<pc, frozen, by, attempt, victim, jobs, delivered, check, flush, drained, idle>>

holdReturns(j) ==
    /\ j \in holds /\ pc[j] # "held"
    /\ ~(by[j] = "timer" /\ carried(j))
    /\ holds' = holds \ {j} /\ deferred' = deferred - 1
    /\ writerIdle
    /\ UNCHANGED <<pc, frozen, by, attempt, victim, jobs, delivered, check, flush, drained, idle>>

push(j) ==
    /\ pc[j] = "push"
    /\ IF Len(jobs) < QueueCap
         THEN send(j)
         ELSE Goto(j, "evict") /\ UNCHANGED <<jobs, by>>
    /\ writerIdle
    /\ UNCHANGED <<frozen, attempt, victim, deferred, holds, delivered, check, flush, drained, idle>>

MutantEvictDrops(j) ==
    /\ pc[j] = "evict"
    /\ Goto(j, "push2")
    /\ jobs' = IF jobs = <<>> THEN jobs ELSE Tail(jobs)
    /\ writerIdle
    /\ UNCHANGED <<frozen, by, attempt, victim, deferred, holds, delivered, check, flush, drained, idle>>

(* The oldest job makes room, if the channel still holds one.              *)
evict(j) ==
    /\ pc[j] = "evict"
    /\ IF jobs = <<>>
         THEN Goto(j, "push2") /\ UNCHANGED <<victim, jobs>>
         ELSE /\ pc' = [pc EXCEPT ![j] = "push2", ![Head(jobs)] = park(Head(jobs))]
              /\ victim' = [victim EXCEPT ![j] = Head(jobs)]
              /\ jobs' = Tail(jobs)
    /\ writerIdle
    /\ UNCHANGED <<frozen, by, attempt, deferred, holds, delivered, check, flush, drained, idle>>

(* Another Enqueue may have taken the room: the job itself is parked.      *)
pushAgain(j) ==
    /\ pc[j] = "push2"
    /\ victim[j] # NoJob => pc[victim[j]] \notin Offering
    /\ victim' = [victim EXCEPT ![j] = NoJob]
    /\ IF Len(jobs) < QueueCap
         THEN send(j)
         ELSE Goto(j, park(j)) /\ UNCHANGED <<jobs, by>>
    /\ writerIdle
    /\ UNCHANGED <<frozen, attempt, deferred, holds, delivered, check, flush, drained, idle>>

-----------------------------------------------------------------------------
MutantBackoffDetached ==
    /\ check = "none"
    /\ \A j \in Jobs : ~(by[j] = "worker" /\ pc[j] = "post")

(* The worker: between jobs it takes the next one or answers an idle check.*)
selecting ==
    /\ check = "none"
    /\ \A j \in Jobs : ~(by[j] = "worker" /\ (carried(j) \/ pc[j] = "post"))

take ==
    /\ selecting /\ jobs # <<>>
    /\ Goto(Head(jobs), "post")
    /\ by' = [by EXCEPT ![Head(jobs)] = "worker"]
    /\ jobs' = Tail(jobs)
    /\ writerIdle
    /\ UNCHANGED <<frozen, attempt, victim, deferred, holds, delivered, check, flush, drained, idle>>

(* process: a failed post may have been applied; the last failure parks    *)
(* the job, any other enqueues it again.                                   *)
processSucceeds(j) ==
    /\ pc[j] = "post" /\ frozen[j] # "unbuildable"
    /\ delivered' = IF frozen[j] = "nothing" THEN delivered ELSE delivered \cup {j}
    /\ Goto(j, "delivered")
    /\ writerIdle
    /\ UNCHANGED <<frozen, by, attempt, victim, jobs, deferred, holds, check, flush, drained, idle>>

MutantOneMoreAttempt(j) ==
    /\ pc[j] = "post" /\ frozen[j] # "nothing"
    /\ IF attempt[j] > MaxAttempts
         THEN Goto(j, park(j)) /\ UNCHANGED attempt
         ELSE Goto(j, "enqueue") /\ attempt' = [attempt EXCEPT ![j] = @ + 1]
    /\ writerIdle
    /\ UNCHANGED <<frozen, by, victim, jobs, deferred, holds, delivered, check, flush, drained, idle>>

processFails(j) ==
    /\ pc[j] = "post" /\ frozen[j] # "nothing"
    /\ delivered' \in IF frozen[j] = "terminal" THEN {delivered, delivered \cup {j}} ELSE {delivered}
    /\ IF attempt[j] >= MaxAttempts
         THEN Goto(j, park(j)) /\ UNCHANGED attempt
         ELSE Goto(j, "enqueue") /\ attempt' = [attempt EXCEPT ![j] = @ + 1]
    /\ writerIdle
    /\ UNCHANGED <<frozen, by, victim, jobs, deferred, holds, check, flush, drained, idle>>

(* The held retries are counted before the channel is looked at.           *)
idleCheck ==
    /\ flush = "wait" /\ selecting /\ deferred = 0
    /\ check' = "zero"
    /\ writerIdle
    /\ UNCHANGED <<pc, frozen, by, attempt, victim, jobs, deferred, holds, delivered, flush, drained, idle>>

idleAnswer ==
    /\ check = "zero"
    /\ check' = "none"
    /\ IF flush = "wait" /\ jobs = <<>>
         THEN flush' = "outbox" /\ idle' = TRUE
         ELSE UNCHANGED <<flush, idle>>
    /\ writerIdle
    /\ UNCHANGED <<pc, frozen, by, attempt, victim, jobs, deferred, holds, delivered, drained>>

-----------------------------------------------------------------------------
(* Shutdown.  The drain of the handlers is bounded, so some may still run. *)
handlersEnded ==
    \A j \in Jobs : ~(by[j] = "handler" /\ carried(j))

Shutdown ==
    /\ flush = "serving" /\ flush' = IF QueueCap = 0 THEN "outbox" ELSE "wait"
    /\ drained' \in {FALSE, handlersEnded}
    /\ writerIdle
    /\ UNCHANGED <<pc, frozen, by, attempt, victim, jobs, deferred, holds, delivered, check, idle>>

waitTimeout ==
    /\ flush = "wait" /\ flush' = "drain"
    /\ writerIdle
    /\ UNCHANGED <<pc, frozen, by, attempt, victim, jobs, deferred, holds, delivered, check, drained, idle>>

(* Flush parks the queued jobs one by one until the channel is empty.      *)
flushParks ==
    /\ flush = "drain"
    /\ \A j \in Jobs : ~(by[j] = "flush" /\ pc[j] \in Offering)
    /\ IF jobs = <<>>
         THEN flush' = "outbox" /\ UNCHANGED <<pc, by, jobs>>
         ELSE /\ Goto(Head(jobs), park(Head(jobs)))
              /\ by' = [by EXCEPT ![Head(jobs)] = "flush"]
              /\ jobs' = Tail(jobs)
              /\ UNCHANGED flush
    /\ writerIdle
    /\ UNCHANGED <<frozen, attempt, victim, deferred, holds, delivered, check, drained, idle>>

(* Writer.Flush, then the process exits; without an outbox it exits at     *)
(* once.                                                                   *)
outboxFlush ==
    /\ flush = "outbox" /\ Outbox /\ waiter = "none"
    /\ waiter' = "check"
    /\ UNCHANGED <<pc, queue, hand, tries, pending, durable, qvars>>

Exit ==
    /\ flush = "outbox" /\ (~Outbox \/ waiter = "done")
    /\ flush' = "exited"
    /\ UNCHANGED <<wvars, frozen, by, attempt, victim, jobs, deferred, holds, delivered,
                   check, drained, idle>>

outboxTimeout ==
    /\ flush = "outbox" /\ waiter \in {"check", "asleep"}
    /\ flush' = "exited"
    /\ UNCHANGED <<wvars, frozen, by, attempt, victim, jobs, deferred, holds, delivered,
                   check, drained, idle>>

-----------------------------------------------------------------------------
Carrier(j) ==
    \/ deferUntilDue(j) \/ deferCount(j) \/ deferFull(j) \/ holdEnds(j)
    \/ holdReturns(j) \/ push(j) \/ evict(j) \/ pushAgain(j)
    \/ Offer(j) /\ UNCHANGED qvars

Worker ==
    \/ take \/ idleCheck \/ idleAnswer
    \/ \E j \in Jobs : processSucceeds(j) \/ processFails(j)

WriterStep == (Writer \/ checkPending) /\ UNCHANGED qvars

Main == Shutdown \/ waitTimeout \/ flushParks \/ outboxFlush \/ Exit \/ outboxTimeout

Finished ==
    /\ flush = "exited"
    /\ UNCHANGED vars

Next ==
    \/ /\ flush # "exited"
       /\ \/ \E j \in Jobs : Enqueue(j) \/ Carrier(j)
          \/ Worker \/ WriterStep \/ Main
    \/ Finished

Spec == Init /\ [][Next]_vars

(* Goroutines run, timers fire, posts and writes end with their timeouts.  *)
(* Neither a shutdown nor the end of its budgets is assumed to happen.     *)
FairSpec ==
    /\ Spec
    /\ \A j \in Jobs : WF_vars(flush # "exited" /\ Carrier(j))
    /\ WF_vars(flush # "exited" /\ Worker)
    /\ WF_vars(flush # "exited" /\ WriterStep)
    /\ WF_vars(flushParks \/ outboxFlush \/ Exit)

-----------------------------------------------------------------------------
(* No job falls between two owners: what the channel, the writer's queue   *)
(* and the writer's hand hold is exactly what was sent to them, once each, *)
(* so no job leaves the queue without being delivered or parked.           *)
EveryJobPlaced ==
    /\ {j \in Jobs : pc[j] = "queued"} = {jobs[i] : i \in DOMAIN jobs}
    /\ \A i, k \in DOMAIN jobs : jobs[i] = jobs[k] => i = k
    /\ {j \in Jobs : pc[j] = "parked"} =
         {queue[i] : i \in DOMAIN queue} \cup ({hand} \ {NoJob})

(* Writer.pending counts the entries queued, being written and being       *)
(* offered, and no others: Flush cannot return while one is unwritten.     *)
PendingExact ==
    pending = Cardinality({j \in Jobs : pc[j] \in {"offerSend", "offerUndo", "parked"}})

(* "In-flight settlement is never mistaken for an empty queue": when the   *)
(* worker has reported idle after the handlers ended, no job is held,      *)
(* queued, being enqueued, posted or offered.  It rests on the order of    *)
(* the two reads and on the hold decrementing only after its Enqueue.      *)
IdleIsIdle ==
    idle /\ drained =>
      \A j \in Jobs : pc[j] \in {"new", "parked"} \cup Ended

(* No more retries are held back than the queue has room for, however many *)
(* handlers race for the counter.                                          *)
HoldsBounded == Cardinality({j \in Jobs : pc[j] = "held"}) <= QueueCap

(* While the enclave serves, every job that enters the queue leaves it:    *)
(* delivered, stored, or given up with a log line.                         *)
JobEnds ==
    \A j \in Jobs : pc[j] = "enqueue" ~> pc[j] \in Ended \/ flush # "serving"

(* What the comment on the outbox field says: it parks every job the queue *)
(* would otherwise lose, those still queued when the shutdown flush ends   *)
(* included.  When the process exits no job is left unparked.              *)
NoneLostAtExit ==
    Outbox /\ drained /\ flush = "exited" => \A j \in Jobs : pc[j] \in {"new", "parked"} \cup Ended

(* Writer.Flush "waits until every offered entry has been written or given *)
(* up on": once nothing is pending it returns.                             *)
FlushWakes == flush = "outbox" /\ waiter = "asleep" /\ pending = 0 ~> flush = "exited" \/ pending > 0
=============================================================================
