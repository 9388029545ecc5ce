------------------------ MODULE SettleOutboxSweeper ------------------------
(***************************************************************************)
(* The sweepers of the durable settle outbox                               *)
(* (enclave-go/internal/settleoutbox/sweeper.go) over the object store they *)
(* share (enclave-go/internal/batch/gcs.go) and the router they replay to.  *)
(*                                                                         *)
(* A terminal (a frozen settle or refund) is parked as an object under      *)
(* pending/.  Each boot runs one sweeper.  A sweeper lists a page of        *)
(* pending objects, takes a lease on each (a sibling object under lease/),  *)
(* replays the terminal to the router, files a copy under done/, dead/ or   *)
(* quarantine/, deletes the pending object and drops the lease.  Every      *)
(* store call is one step and may fail, also after it took effect; a boot   *)
(* may die between any two of them.                                         *)
(*                                                                         *)
(* Time is relative: a lease carries the ticks it has left, a sweeper the   *)
(* ticks since it read the clock.  Generations are compared only for        *)
(* equality, so a new one is any value nobody remembers.                    *)
(***************************************************************************)
EXTENDS Integers, FiniteSets

CONSTANTS
    Sweepers,      \* boots running a sweeper
    Terminals,     \* parked terminals, numbered in the order of their names
    Fate,          \* what the router finally answers to each terminal
    Gens,          \* object generations
    PageSize,      \* objects per listing
    LeaseTicks,    \* DefaultLease
    IntervalTicks, \* DefaultSweepInterval, the first backoff
    StoreTicks,    \* the store's HTTP timeout
    ReplayTicks,   \* defaultReplayTimeout
    MaxParks,      \* bound on how often one terminal is parked
    MaxFaults      \* bound on failed calls, refusals and boot deaths

\* The router's lasting answers, and a fate of its own for an object that does
\* not decode or carries no usable boot signature.
Fates == {"2xx", "404", "409", "4xx", "bootRefused", "5xx", "unverified"}
Nobody == "nobody"

ASSUME ConstantsAssumption ==
    /\ Terminals \subseteq Nat \ {0}
    /\ Fate \in [Terminals -> Fates]
    /\ Gens \subseteq Nat \ {0}
    /\ PageSize \in Nat \ {0}
    /\ LeaseTicks \in Nat \ {0}
    /\ IntervalTicks \in Nat \ {0}
    /\ StoreTicks \in Nat \ {0}
    /\ ReplayTicks \in Nat \ {0}
    /\ MaxParks \in Nat
    /\ MaxFaults \in Nat
    /\ Nobody \notin Sweepers

VARIABLES
    pending,   \* generation of each pending object, 0 when there is none
    lease,     \* the lease object of each terminal
    filed,     \* the terminal prefixes that hold a copy of each terminal
    settled,   \* terminals the router has committed
    parks,     \* how often each terminal has been parked
    faults,    \* failures so far
    pc,        \* what each sweeper does next
    page,      \* names the sweeper has listed and not handled yet
    cur,       \* the name it is handling, 0 when none
    token,     \* pageToken: the last name of the previous page, 0 at the root
    paused,    \* ticks until pausedUntil
    age,       \* ticks since the sweeper read the clock
    call,      \* ticks the current call has taken
    rd,        \* generation of the lease read by claim or sweepLeases
    held,      \* claim.generation
    tries,     \* claim.attempts
    stored,    \* generation of the pending object read
    target     \* prefix the object is filed under

objects == <<pending, lease, filed, settled, parks, faults>>
locals == <<pc, page, cur, token, paused, age, call, rd, held, tries, stored, target>>
vars == <<objects, locals>>

Prefixes == {"done", "dead", "quarantine"}
ClaimPCs == {"claimGet", "claimPut"}
HeldPCs == {"get", "replay", "filePut", "fileDelete", "drop", "release", "refused"}
OrphanPCs == {"orphanNext", "orphanGet", "orphanCheck", "orphanDelete"}
PCs == {"idle", "next"} \cup ClaimPCs \cup HeldPCs \cup OrphanPCs

NoLease == [gen |-> 0, owner |-> Nobody, left |-> 0, attempts |-> 0]
Leases == [gen : Gens \cup {0}, owner : Sweepers \cup {Nobody}, 
           left : {n \in Int : n <= LeaseTicks}, attempts : Nat]

\* The longest time between reading the clock and its last use.
Horizon == StoreTicks * (4 * PageSize + 1)
\* Attempts beyond this one all back off for LeaseTicks.
AttemptsCap == LeaseTicks + 1

StoreTypeOK ==
    /\ pending \in [Terminals -> Gens \cup {0}]
    /\ lease \in [Terminals -> Leases]
    /\ filed \in [Terminals -> SUBSET Prefixes]
    /\ settled \subseteq Terminals
    /\ parks \in [Terminals -> Nat]
    /\ faults \in Nat

SweeperTypeOK ==
    /\ pc \in [Sweepers -> PCs]
    /\ page \in [Sweepers -> SUBSET Terminals]
    /\ cur \in [Sweepers -> Terminals \cup {0}]
    /\ token \in [Sweepers -> Nat]
    /\ paused \in [Sweepers -> Nat]
    /\ age \in [Sweepers -> Nat]
    /\ call \in [Sweepers -> Nat]
    /\ rd \in [Sweepers -> Gens \cup {0}]
    /\ held \in [Sweepers -> Gens \cup {0}]
    /\ tries \in [Sweepers -> Nat]
    /\ stored \in [Sweepers -> Gens \cup {0}]
    /\ target \in [Sweepers -> Prefixes]
    /\ \A s \in Sweepers :
          /\ pc[s] \notin {"idle", "next", "orphanNext"} => cur[s] \in Terminals
          /\ pc[s] \in HeldPCs \cup {"claimPut"} => tries[s] # 0

\* Types; in particular no lease or backoff exceeds LeaseTicks, and a sweeper
\* past the page loop has an object in hand.
TypeOK == StoreTypeOK /\ SweeperTypeOK

Init ==
    /\ pending = [t \in Terminals |-> 0]
    /\ lease = [t \in Terminals |-> NoLease]
    /\ filed = [t \in Terminals |-> {}]
    /\ settled = {}
    /\ parks = [t \in Terminals |-> 0]
    /\ faults = 0
    /\ pc = [s \in Sweepers |-> "idle"]
    /\ page = [s \in Sweepers |-> {}]
    /\ cur = [s \in Sweepers |-> 0]
    /\ token = [s \in Sweepers |-> 0]
    /\ paused = [s \in Sweepers |-> 0]
    /\ age = [s \in Sweepers |-> 0]
    /\ call = [s \in Sweepers |-> 0]
    /\ rd = [s \in Sweepers |-> 0]
    /\ held = [s \in Sweepers |-> 0]
    /\ tries = [s \in Sweepers |-> 0]
    /\ stored = [s \in Sweepers |-> 0]
    /\ target = [s \in Sweepers |-> "done"]

-----------------------------------------------------------------------------
(* The object store. *)

\* A generation nobody has seen: GCS never reuses one.
InUse ==
    {0} \cup {pending[t] : t \in Terminals} \cup {lease[t].gen : t \in Terminals}
        \cup {rd[s] : s \in Sweepers} \cup {held[s] : s \in Sweepers}
        \cup {stored[s] : s \in Sweepers}
HasFresh == Gens \ InUse # {}
Fresh == CHOOSE g \in Gens : g \notin InUse

\* Mutant: the precondition is not sent.
MatchesAlways(generation, condition) == TRUE

\* ifGenerationMatch, which every Put and Delete of the sweeper carries.
Matches(generation, condition) == generation = condition

\* A call either fails, possibly after it was applied, or succeeds.
Fault == faults < MaxFaults /\ faults' = faults + 1
NoFault == UNCHANGED faults

\* List: the first PageSize names after the token, and the token of the next page.
After(names, tok) == {n \in names : n > tok}
Rank(n, names) == Cardinality({m \in names : m <= n})
Listing(names, tok) ==
    LET rest == After(names, tok)
    IN {n \in rest : Rank(n, rest) <= PageSize}

\* Mutant: every sweep starts at the prefix root.
NextTokenRoot(names, tok) == {0}

NextToken(names, tok) ==
    LET listed == Listing(names, tok)
    IN IF listed = After(names, tok) THEN {0}
       ELSE {n \in listed : \A m \in listed : m <= n}

PendingNames == {t \in Terminals : pending[t] # 0}
LeaseNames == {t \in Terminals : lease[t].gen # 0}

\* Writer.Write: create-only, so parking an object that exists changes nothing.
Park(t) ==
    /\ parks[t] < MaxParks
    /\ HasFresh
    /\ parks' = [parks EXCEPT ![t] = @ + 1]
    /\ pending' = [pending EXCEPT ![t] = IF @ = 0 THEN Fresh ELSE @]
    /\ UNCHANGED <<lease, filed, settled, faults, locals>>

-----------------------------------------------------------------------------
(* The router, external: it commits the first copy of a terminal and answers *)
(* a repeat with 2xx.  Fate is its answer when nothing goes wrong; a fault     *)
(* loses the request or the answer, throttles, or refuses the sweeper's own    *)
(* token.                                                                    *)

Transient == {"transport", "429", "senderRefused"}

\* Mutant: a throttle counts as a deterministic refusal.
classifyThrottle(answer) ==
    CASE answer = "2xx" -> "done"
      [] answer \in {"404", "409", "4xx", "429"} -> "dead"
      [] answer = "bootRefused" -> "quarantine"
      [] OTHER -> "retry"

\* classify: what a replay's answer makes of the object.
classify(answer) ==
    CASE answer = "2xx" -> "done"
      [] answer \in {"404", "409", "4xx"} -> "dead"
      [] answer = "bootRefused" -> "quarantine"
      [] OTHER -> "retry"

-----------------------------------------------------------------------------
(* One sweeper. *)

\* Leave the current object; its locals are dead.
Forget(s) ==
    /\ rd' = [rd EXCEPT ![s] = 0]
    /\ held' = [held EXCEPT ![s] = 0]
    /\ stored' = [stored EXCEPT ![s] = 0]
    /\ tries' = [tries EXCEPT ![s] = 0]
    /\ target' = [target EXCEPT ![s] = "done"]
    /\ cur' = [cur EXCEPT ![s] = 0]
    /\ call' = [call EXCEPT ![s] = 0]

Skip(s, next) ==
    /\ pc' = [pc EXCEPT ![s] = next]
    /\ Forget(s)

Goto(s, label) ==
    /\ pc' = [pc EXCEPT ![s] = label]
    /\ call' = [call EXCEPT ![s] = 0]

\* Sweep: list the next page of pending objects, unless paused.
Sweep(s) ==
    /\ pc[s] = "idle" /\ paused[s] = 0
    /\ \/ /\ page' = [page EXCEPT ![s] = Listing(PendingNames, token[s])]
          /\ \E tok \in NextToken(PendingNames, token[s]) : token' = [token EXCEPT ![s] = tok]
          /\ Goto(s, "next")
          /\ NoFault
       \/ /\ Fault
          /\ token' = [token EXCEPT ![s] = 0]
          /\ UNCHANGED <<page, pc, call>>
    /\ UNCHANGED <<pending, lease, filed, settled, parks, cur, paused, age, rd, held, tries, stored, target>>

\* The listed names are handled in their order.
Take(s) ==
    \E n \in page[s] :
        /\ \A m \in page[s] : n <= m
        /\ cur' = [cur EXCEPT ![s] = n]
        /\ page' = [page EXCEPT ![s] = @ \ {n}]

\* The page loop: claim reads the clock, then the lease.
NextObject(s) ==
    /\ pc[s] = "next"
    /\ Take(s)
    /\ age' = [age EXCEPT ![s] = 0]
    /\ Goto(s, "claimGet")
    /\ UNCHANGED <<objects, token, paused, rd, held, tries, stored, target>>

\* current.Until > now, for the clock read before the lease.
Live(t, s) == lease[t].gen # 0 /\ lease[t].left + age[s] > 0

\* claim, first half: a lease that is over, or none, can be taken.
claimGet(s) ==
    /\ pc[s] = "claimGet"
    /\ \/ /\ NoFault /\ ~Live(cur[s], s)
          /\ rd' = [rd EXCEPT ![s] = lease[cur[s]].gen]
          /\ tries' = [tries EXCEPT ![s] =
                         IF lease[cur[s]].attempts < AttemptsCap
                         THEN lease[cur[s]].attempts + 1 ELSE AttemptsCap]
          /\ Goto(s, "claimPut")
          /\ UNCHANGED <<cur, held, stored, target>>
       \/ /\ NoFault /\ Live(cur[s], s)
          /\ Skip(s, "next")
       \/ /\ Fault
          /\ Skip(s, "next")
    /\ UNCHANGED <<pending, lease, filed, settled, parks, page, token, paused, age>>

\* The lease of a claim, dated from the clock read before it looked.
newLease(s) ==
    [gen |-> Fresh, owner |-> s, left |-> LeaseTicks - age[s], attempts |-> tries[s]]

\* claim, second half: write the lease at the generation read.
claimPut(s) ==
    LET t == cur[s]
        taken == [lease EXCEPT ![t] = newLease(s)]
    IN  /\ pc[s] = "claimPut" /\ HasFresh
        /\ \/ /\ NoFault /\ Matches(lease[t].gen, rd[s])
              /\ lease' = taken
              /\ held' = [held EXCEPT ![s] = Fresh]
              /\ rd' = [rd EXCEPT ![s] = 0]
              /\ Goto(s, "get")
              /\ UNCHANGED <<cur, tries, stored, target>>
           \/ /\ NoFault /\ ~Matches(lease[t].gen, rd[s])
              /\ Skip(s, "next") /\ UNCHANGED lease
           \/ /\ Fault /\ Skip(s, "next")
              /\ \/ UNCHANGED lease
                 \/ Matches(lease[t].gen, rd[s]) /\ lease' = taken
        /\ age' = [age EXCEPT ![s] = 0]
        /\ UNCHANGED <<pending, filed, settled, parks, page, token, paused>>

\* sweepObject: read the pending object and decide what becomes of it.
getPending(s) ==
    LET t == cur[s]
    IN  /\ pc[s] = "get"
        /\ \/ /\ NoFault /\ pending[t] = 0
              /\ Goto(s, "drop") /\ UNCHANGED <<stored, target>>
           \/ /\ NoFault /\ pending[t] # 0
              /\ stored' = [stored EXCEPT ![s] = pending[t]]
              /\ IF Fate[t] = "unverified"
                 THEN Goto(s, "filePut") /\ target' = [target EXCEPT ![s] = "quarantine"]
                 ELSE Goto(s, "replay") /\ UNCHANGED target
           \/ /\ Fault /\ Goto(s, "release") /\ UNCHANGED <<stored, target>>
        /\ UNCHANGED <<pending, lease, filed, settled, parks, page, cur, token, paused, age, rd, held, tries>>

\* PostFrozenTerminal and what classify makes of the answer.  A lost answer
\* may hide a committed terminal.
replay(s) ==
    LET t == cur[s]
        Answered(answer) ==
            IF classify(answer) \in Prefixes
            THEN Goto(s, "filePut") /\ target' = [target EXCEPT ![s] = classify(answer)]
            ELSE /\ Goto(s, IF answer = "senderRefused" THEN "refused" ELSE "release")
                 /\ UNCHANGED target
    IN  /\ pc[s] = "replay"
        /\ \/ /\ NoFault
              /\ settled' = IF Fate[t] = "2xx" THEN settled \cup {t} ELSE settled
              /\ Answered(Fate[t])
           \/ /\ Fault
              /\ \E answer \in Transient : Answered(answer)
              /\ UNCHANGED settled
           \/ /\ Fault /\ Fate[t] = "2xx"
              /\ settled' = settled \cup {t}
              /\ Answered("transport")
        /\ UNCHANGED <<pending, lease, filed, parks, page, cur, token, paused, age, rd, held, tries, stored>>

\* Mutant: the copy's error is ignored.
filePutUnchecked(s) ==
    LET copied == [filed EXCEPT ![cur[s]] = @ \cup {target[s]}]
    IN  /\ pc[s] = "filePut"
        /\ \/ NoFault /\ filed' = copied
           \/ Fault /\ filed' \in {filed, copied}
        /\ Goto(s, "fileDelete")
        /\ UNCHANGED <<pending, lease, settled, parks, page, cur, token, paused, age, rd, held, tries, stored, target>>

\* Mutant: a failed copy is rolled back.
filePutRollback(s) ==
    /\ pc[s] = "filePut"
    /\ \/ NoFault /\ filed' = [filed EXCEPT ![cur[s]] = @ \cup {target[s]}] /\ Goto(s, "fileDelete")
       \/ Fault /\ filed' = [filed EXCEPT ![cur[s]] = @ \ {target[s]}] /\ Goto(s, "release")
    /\ UNCHANGED <<pending, lease, settled, parks, page, cur, token, paused, age, rd, held, tries, stored, target>>

\* file, step 1: create the copy; an existing one is as good.
filePut(s) ==
    LET copied == [filed EXCEPT ![cur[s]] = @ \cup {target[s]}]
    IN  /\ pc[s] = "filePut"
        /\ \/ NoFault /\ filed' = copied /\ Goto(s, "fileDelete")
           \/ Fault /\ filed' \in {filed, copied} /\ Goto(s, "release")
        /\ UNCHANGED <<pending, lease, settled, parks, page, cur, token, paused, age, rd, held, tries, stored, target>>

\* file, step 2: delete the pending object at the generation read.  The store
\* answers a missing or a newer object without an error file would act on.
fileDelete(s) ==
    LET t == cur[s]
        removed == IF Matches(pending[t], stored[s]) THEN [pending EXCEPT ![t] = 0] ELSE pending
    IN  /\ pc[s] = "fileDelete"
        /\ \/ NoFault /\ pending' = removed /\ Goto(s, "drop")
           \/ Fault /\ pending' \in {pending, removed} /\ Goto(s, "release")
        /\ UNCHANGED <<lease, filed, settled, parks, page, cur, token, paused, age, rd, held, tries, stored, target>>

\* dropLease: delete the lease at the generation this claim wrote.
dropLease(s) ==
    LET t == cur[s]
        dropped == IF Matches(lease[t].gen, held[s]) THEN [lease EXCEPT ![t] = NoLease] ELSE lease
    IN  /\ pc[s] = "drop"
        /\ \/ NoFault /\ lease' = dropped
           \/ Fault /\ lease' \in {lease, dropped}
        /\ Skip(s, "next")
        /\ UNCHANGED <<pending, filed, settled, parks, page, token, paused, age>>

\* Mutant: the cap is missing.
backoffUncapped(attempts) == IntervalTicks * 2^(attempts - 1)

\* backoff: doubles per attempt, at most the lease.
backoff(attempts) ==
    LET delay == IntervalTicks * 2^(attempts - 1)
    IN IF delay < LeaseTicks THEN delay ELSE LeaseTicks

\* releaseLease: turn the lease into a backoff, dated from the start of the call,
\* at the generation this claim wrote.  After a refusal of its own token the sweeper leaves the page and
\* pauses for one lease.
releaseLease(s) ==
    LET t == cur[s]
        waiting == [gen |-> Fresh, owner |-> Nobody, left |-> backoff(tries[s]) - call[s], attempts |-> tries[s]]
        released == IF Matches(lease[t].gen, held[s]) THEN [lease EXCEPT ![t] = waiting] ELSE lease
    IN  /\ pc[s] \in {"release", "refused"} /\ HasFresh
        /\ \/ NoFault /\ lease' = released
           \/ Fault /\ lease' \in {lease, released}
        /\ IF pc[s] = "refused"
           THEN /\ pc' = [pc EXCEPT ![s] = "idle"]
                /\ page' = [page EXCEPT ![s] = {}]
                /\ paused' = [paused EXCEPT ![s] = LeaseTicks]
                /\ Forget(s)
           ELSE Skip(s, "next") /\ UNCHANGED <<page, paused>>
        /\ UNCHANGED <<pending, filed, settled, parks, token, age>>

-----------------------------------------------------------------------------
(* sweepLeases: drop expired leases whose pending object is gone. *)

orphanList(s) ==
    /\ pc[s] = "next" /\ page[s] = {}
    /\ \/ /\ NoFault
          /\ page' = [page EXCEPT ![s] = Listing(LeaseNames, 0)]
          /\ age' = [age EXCEPT ![s] = 0]
          /\ Goto(s, "orphanNext")
       \/ Fault /\ Goto(s, "idle") /\ UNCHANGED <<page, age>>
    /\ UNCHANGED <<pending, lease, filed, settled, parks, cur, token, paused, rd, held, tries, stored, target>>

orphanNext(s) ==
    /\ pc[s] = "orphanNext"
    /\ Take(s)
    /\ Goto(s, "orphanGet")
    /\ UNCHANGED <<objects, token, paused, age, rd, held, tries, stored, target>>

\* Read one lease; an unreadable, missing or live one is left alone.
orphanGet(s) ==
    LET t == cur[s]
    IN  /\ pc[s] = "orphanGet"
        /\ \/ /\ NoFault /\ lease[t].gen # 0 /\ ~Live(t, s)
              /\ rd' = [rd EXCEPT ![s] = lease[t].gen]
              /\ Goto(s, "orphanCheck")
              /\ UNCHANGED <<cur, held, tries, stored, target>>
           \/ NoFault /\ (lease[t].gen = 0 \/ Live(t, s)) /\ Skip(s, "orphanNext")
           \/ Fault /\ Skip(s, "orphanNext")
        /\ UNCHANGED <<pending, lease, filed, settled, parks, page, token, paused, age>>

orphanCheck(s) ==
    /\ pc[s] = "orphanCheck"
    /\ \/ /\ NoFault /\ pending[cur[s]] = 0
          /\ Goto(s, "orphanDelete")
          /\ UNCHANGED <<cur, rd, held, tries, stored, target>>
       \/ NoFault /\ pending[cur[s]] # 0 /\ Skip(s, "orphanNext")
       \/ Fault /\ Skip(s, "orphanNext")
    /\ UNCHANGED <<pending, lease, filed, settled, parks, page, token, paused, age>>

orphanDelete(s) ==
    LET t == cur[s]
        dropped == IF Matches(lease[t].gen, rd[s]) THEN [lease EXCEPT ![t] = NoLease] ELSE lease
    IN  /\ pc[s] = "orphanDelete"
        /\ \/ NoFault /\ lease' = dropped
           \/ Fault /\ lease' \in {lease, dropped}
        /\ Skip(s, "orphanNext")
        /\ UNCHANGED <<pending, filed, settled, parks, page, token, paused, age>>

orphanDone(s) ==
    /\ pc[s] = "orphanNext" /\ page[s] = {}
    /\ Goto(s, "idle")
    /\ age' = [age EXCEPT ![s] = 0]
    /\ UNCHANGED <<objects, page, cur, token, paused, rd, held, tries, stored, target>>

-----------------------------------------------------------------------------
(* A boot dies and another takes its place: everything local is gone. *)
Crash(s) ==
    /\ Fault
    /\ pc' = [pc EXCEPT ![s] = "idle"]
    /\ page' = [page EXCEPT ![s] = {}]
    /\ token' = [token EXCEPT ![s] = 0]
    /\ paused' = [paused EXCEPT ![s] = 0]
    /\ age' = [age EXCEPT ![s] = 0]
    /\ Forget(s)
    /\ UNCHANGED <<pending, lease, filed, settled, parks>>

\* Time passes for everyone; a call ends by its timeout.
Timeout(s) == IF pc[s] = "replay" THEN ReplayTicks ELSE StoreTicks
Older(l) == IF l.gen # 0 /\ l.left > -Horizon THEN [l EXCEPT !.left = @ - 1] ELSE l
Tick ==
    /\ \A s \in Sweepers : pc[s] = "idle" \/ call[s] < Timeout(s)
    /\ lease' = [t \in Terminals |-> Older(lease[t])]
    /\ paused' = [s \in Sweepers |-> IF paused[s] > 0 THEN paused[s] - 1 ELSE 0]
    /\ age' = [s \in Sweepers |->
                 IF pc[s] \in ClaimPCs \cup OrphanPCs THEN age[s] + 1 ELSE 0]
    /\ call' = [s \in Sweepers |-> IF pc[s] = "idle" THEN 0 ELSE call[s] + 1]
    /\ UNCHANGED <<pending, filed, settled, parks, faults, pc, page, cur, token, rd, held, tries, stored, target>>

\* sweepObject and Sweep, one step of sweeper s.
Step(s) ==
    \/ Sweep(s) \/ NextObject(s) \/ claimGet(s) \/ claimPut(s) \/ getPending(s)
    \/ replay(s) \/ filePut(s) \/ fileDelete(s) \/ dropLease(s) \/ releaseLease(s)
    \/ orphanList(s) \/ orphanNext(s) \/ orphanGet(s) \/ orphanCheck(s) \/ orphanDelete(s) \/ orphanDone(s)

Next ==
    \/ \E t \in Terminals : Park(t)
    \/ \E s \in Sweepers : Step(s) \/ Crash(s)
    \/ Tick

Spec == Init /\ [][Next]_vars

\* The sweep loop keeps running and time passes.
Fairness == WF_vars(Tick) /\ \A s \in Sweepers : WF_vars(Step(s))
FairSpec == Spec /\ Fairness

-----------------------------------------------------------------------------
(* Properties. *)

\* A terminal that was ever parked is still pending or has a filed copy, at
\* every point of file's copy-then-delete and whatever call fails or boot dies
\* in between: "nothing here deletes a terminal without a copy of it existing
\* first" (sweeper.go:26).
NoTerminalLost ==
    \A t \in Terminals : parks[t] > 0 => pending[t] # 0 \/ filed[t] # {}

\* A copy lies under the prefix its terminal deserves: under done/ only what
\* the router committed, under dead/ only what it refused for good, under
\* quarantine/ only what is unverified or was refused for its own signature.
\* A lost answer, a throttle or a refused sweeper token never files anything.
FiledByFate ==
    \A t \in Terminals :
        /\ "done" \in filed[t] => t \in settled
        /\ "dead" \in filed[t] => Fate[t] \in {"404", "409", "4xx"}
        /\ "quarantine" \in filed[t] => Fate[t] \in {"bootRefused", "unverified"}

\* A lease or backoff that has not run out is replaced or removed only by the
\* claim that wrote it: claim, releaseLease, dropLease and sweepLeases of a
\* sibling that read an older generation or an older clock leave it alone.
LiveLeaseUndisturbed ==
    [][\A t \in Terminals :
          lease[t].gen # 0 /\ lease[t].left > 0 /\ lease'[t].gen # lease[t].gen =>
              \E s \in Sweepers : pc[s] \in HeldPCs /\ held[s] = lease[t].gen /\ pc'[s] # pc[s]]_vars

\* "a replay that is still running never loses its lease to a sibling"
\* (sweeper.go:49): while PostFrozenTerminal runs, the lease object is the one
\* this claim wrote.
ReplayKeepsLease ==
    \A s \in Sweepers : pc[s] = "replay" => lease[cur[s]].gen = held[s]

\* Every parked terminal the router gives a lasting answer to, or that cannot
\* be replayed, leaves pending/ in the end: no lease, backoff, pause or page
\* position strands it, also behind one the router keeps failing.
EventuallyFiled ==
    \A t \in Terminals : Fate[t] # "5xx" => (pending[t] # 0 ~> pending[t] = 0)

\* The sweepers keep the promise of the outbox.
Outbox == INSTANCE SettleOutbox WITH owed <- PendingNames
OutboxSpec == Outbox!Spec

=============================================================================
