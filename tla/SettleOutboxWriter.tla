------------------------- MODULE SettleOutboxWriter -------------------------
(***************************************************************************)
(* The outbox writer of one enclave: terminals are offered to a bounded    *)
(* queue without blocking, one goroutine writes them to the object store,  *)
(* and a counter of unwritten entries lets the shutdown flush wait.  An    *)
(* offer is three steps of its caller, told apart by pc.                   *)
(***************************************************************************)
EXTENDS Naturals, Sequences, FiniteSets

CONSTANTS
    Jobs,            \* terminals the enclave failed to deliver
    WriterCap,       \* defaultQueueSize
    WriteAttempts    \* writeAttempts

ASSUME WriterAssumption == WriterCap \in Nat \ {0} /\ WriteAttempts \in Nat \ {0}

NoJob == "none"
ASSUME NoJobAssumption == NoJob \notin Jobs

VARIABLES
    pc,          \* where each job is
    queue,       \* Writer.queue
    hand,        \* the entry the goroutine writes
    tries,       \* failed writes of it
    pending,     \* Writer.pending
    durable,     \* jobs with an object in the store
    waiter       \* the goroutine of Flush

wvars == <<pc, queue, hand, tries, pending, durable, waiter>>

Offering == {"offer", "offerSend", "offerUndo"}

WriterTypeOK ==
    /\ queue \in Seq(Jobs) /\ Len(queue) <= WriterCap
    /\ hand \in Jobs \cup {NoJob}
    /\ tries \in 0..WriteAttempts
    /\ pending \in Nat
    /\ durable \subseteq Jobs
    /\ waiter \in {"none", "check", "asleep", "done"}

WriterInit ==
    /\ queue = <<>> /\ hand = NoJob /\ tries = 0
    /\ pending = 0 /\ durable = {} /\ waiter = "none"

(* Offer: the entry is counted before it is sent, and no longer when the   *)
(* queue is full.                                                          *)
offerCount(j) ==
    /\ pc[j] = "offer"
    /\ pending' = pending + 1
    /\ pc' = [pc EXCEPT ![j] = "offerSend"]
    /\ UNCHANGED <<queue, hand, tries, durable, waiter>>

MutantDropCounted(j) ==
    /\ pc[j] = "offerSend"
    /\ IF Len(queue) < WriterCap
         THEN queue' = Append(queue, j) /\ pc' = [pc EXCEPT ![j] = "parked"]
         ELSE pc' = [pc EXCEPT ![j] = "dropped"] /\ UNCHANGED queue
    /\ UNCHANGED <<hand, tries, pending, durable, waiter>>

offerSend(j) ==
    /\ pc[j] = "offerSend"
    /\ IF Len(queue) < WriterCap
         THEN queue' = Append(queue, j) /\ pc' = [pc EXCEPT ![j] = "parked"]
         ELSE pc' = [pc EXCEPT ![j] = "offerUndo"] /\ UNCHANGED queue
    /\ UNCHANGED <<hand, tries, pending, durable, waiter>>

offerUndo(j) ==
    /\ pc[j] = "offerUndo"
    /\ pending' = pending - 1
    /\ pc' = [pc EXCEPT ![j] = "dropped"]
    /\ UNCHANGED <<queue, hand, tries, durable, waiter>>

takeEntry ==
    /\ hand = NoJob /\ queue # <<>>
    /\ hand' = Head(queue) /\ queue' = Tail(queue) /\ tries' = 0
    /\ UNCHANGED <<pc, pending, durable, waiter>>

(* The goroutine is done with its entry; a sleeping Flush is woken.        *)
entryDone(fate) ==
    /\ pc' = [pc EXCEPT ![hand] = fate]
    /\ hand' = NoJob /\ tries' = 0
    /\ pending' = pending - 1
    /\ waiter' = IF waiter = "asleep" THEN "check" ELSE waiter
    /\ UNCHANGED queue

(* Write: a create that succeeds, or finds the object there.  A failed one *)
(* may have created it; the last failure gives the entry up.               *)
writeSucceeds ==
    /\ hand # NoJob
    /\ durable' = durable \cup {hand}
    /\ entryDone("stored")

writeFails ==
    /\ hand # NoJob
    /\ durable' \in {durable, durable \cup {hand}}
    /\ IF tries + 1 < WriteAttempts
         THEN tries' = tries + 1 /\ UNCHANGED <<pc, queue, hand, pending, waiter>>
         ELSE entryDone("lost")

(* The goroutine Flush waits for.                                          *)
checkPending ==
    /\ waiter = "check"
    /\ waiter' = IF pending = 0 THEN "done" ELSE "asleep"
    /\ UNCHANGED <<pc, queue, hand, tries, pending, durable>>

Offer(j) == offerCount(j) \/ offerSend(j) \/ offerUndo(j)
Writer == takeEntry \/ writeSucceeds \/ writeFails
=============================================================================
