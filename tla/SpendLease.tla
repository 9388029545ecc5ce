----------------------------- MODULE SpendLease -----------------------------
(***************************************************************************)
(* Spend leases of one API key: the slot with its current grant, changed   *)
(* by lock-free loads and compare-and-swaps of concurrent requests; the    *)
(* scopes of the admissions in flight; and the registry through which an   *)
(* invocation reserves an admission at most once.  A request first tries   *)
(* to be admitted locally and falls back to the ordinary authorize.        *)
(* A grant is named by its generation; its claims never change.            *)
(***************************************************************************)
EXTENDS Naturals, FiniteSets

CONSTANTS
    Req,              \* authorizations requested with this API key
    Owner,            \* the invocation each of them belongs to
    Key,              \* its idempotency key
    MaxGen,           \* bound: generations the router issues
    Cap,              \* CapMicro of a grant
    Estimates,        \* what a request may be estimated at
    Auth,             \* generations whose claims are authoritative
    LocalAdmission    \* localAdmission, set once at boot

ASSUME GenAssumption == MaxGen \in Nat
ASSUME CapAssumption == Cap \in Nat \ {0}
ASSUME EstimateAssumption == Estimates \subseteq Nat
ASSUME AuthAssumption == Auth \subseteq 1..MaxGen
ASSUME AdmissionAssumption == LocalAdmission \in BOOLEAN

Gen == 1..MaxGen
NoGrant == 0
Status == {"active", "exhausted", "expired", "terminal", "disabled"}
Phase == {"fresh", "closed", "dead"}   \* before AdmitUntil, Deadline, after both
NoAnswer == [kind |-> "none", ledger |-> 0]

(* What ReserveSpendLeaseAdmission passes to ObserveReserve.  "stop" is    *)
(* not_accepting or boot_not_accepted, "error" any other failure.          *)
Answer == [kind : {"none", "accepted", "unmarked", "capacity", "stop", "error"},
           ledger : 0..Cap]

(* Program counters of a request that runs TryAdmit under its invocation's *)
(* lock, and of one that holds an in-flight scope.                         *)
Preparing == {"check", "status", "load", "cas", "mark", "sign"}
Reserving == {"reserve", "lease", "observe", "zeroed", "fold", "foldCas", "folded"}
Holding == (Preparing \ {"check"}) \cup {"planned"} \cup Reserving
RequestPC == Preparing \cup Reserving \cup
             {"new", "planned", "ordinary", "echo", "echoCas", "echoMark",
              "authorize", "response", "done"}
Request == [pc : RequestPC, grant : 0..MaxGen, rem : 0..Cap, est : Estimates,
            answer : Answer]
Grant == [remaining : 0..Cap, status : Status]

VARIABLES
    registered,   \* the boot is registered
    current,      \* generation of slot.current
    grants,       \* remaining and status of every grant
    phase,        \* where now stands on each grant's timetable
    inFlight,     \* scopes: idempotency keys with an admission in flight
    plans,        \* requests with a registered plan
    claimed,      \* requests that won their authorization
    rq,           \* requests
    spent         \* history: what each grant's decrements sum up to

vars == <<registered, current, grants, phase, inFlight, plans, claimed, rq, spent>>

TypeOK ==
    /\ registered \in BOOLEAN
    /\ current \in 0..MaxGen
    /\ grants \in [Gen -> Grant]
    /\ phase \in [Gen -> Phase]
    /\ inFlight \subseteq {Key[r] : r \in Req}
    /\ plans \subseteq Req
    /\ claimed \subseteq Req
    /\ rq \in [Req -> Request]
    /\ spent \in [Gen -> Nat]

(* An earlier request may have brought the current grant.                  *)
Init ==
    /\ registered \in BOOLEAN
    /\ current \in IF registered THEN 0..MaxGen ELSE {NoGrant}
    /\ grants = [g \in Gen |-> [remaining |-> Cap, status |-> "active"]]
    /\ phase = [g \in Gen |-> "fresh"]
    /\ inFlight = {} /\ plans = {} /\ claimed = {}
    /\ rq \in [Req -> {[pc |-> "new", grant |-> NoGrant, rem |-> 0, est |-> e,
                        answer |-> NoAnswer] : e \in Estimates}]
    /\ spent = [g \in Gen |-> 0]

-----------------------------------------------------------------------------
Goto(r, pc) == rq' = [rq EXCEPT ![r].pc = pc]

(* releaseScope, with the step of the request that calls it.               *)
Release(r, pc) ==
    /\ Goto(r, pc)
    /\ inFlight' = inFlight \ {Key[r]}

(* status.CompareAndSwap(grantActive, s).                                  *)
leaveActive(g, s) ==
    grants' = [grants EXCEPT ![g].status = IF grants[g].status = "active" THEN s
                                                         ELSE grants[g].status]

MutantNoLock(r) == TRUE

(* owner.mu is free: no other request of the invocation is in Prepare.     *)
ownerFree(r) == \A q \in Req \ {r} : Owner[q] = Owner[r] => rq[q].pc \notin Preparing

sameKey(r) == {q \in Req : Owner[q] = Owner[r] /\ Key[q] = Key[r]}

Register ==
    /\ ~registered /\ registered' = TRUE
    /\ UNCHANGED <<current, grants, phase, inFlight, plans, claimed, rq, spent>>

TimePasses(g) ==
    /\ \/ phase[g] = "fresh" /\ phase' = [phase EXCEPT ![g] = "closed"]
       \/ phase[g] = "closed" /\ phase' = [phase EXCEPT ![g] = "dead"]
    /\ UNCHANGED <<registered, current, grants, inFlight, plans, claimed, rq, spent>>

-----------------------------------------------------------------------------
(* PrepareSpendLeaseAdmission and TryAdmit.                                *)

(* A key the invocation has used is refused; a request that is not         *)
(* eligible takes the ordinary path; any other looks at the current grant. *)
Prepare(r) ==
    /\ rq[r].pc = "new"
    /\ \/ Goto(r, "ordinary")
       \/ /\ LocalAdmission /\ ownerFree(r)
          /\ sameKey(r) \cap (plans \cup claimed) # {}
          /\ Goto(r, "done")
       \/ /\ LocalAdmission /\ ownerFree(r)
          /\ sameKey(r) \cap (plans \cup claimed) = {}
          /\ registered /\ current \in Auth /\ phase[current] = "fresh"
          /\ rq' = [rq EXCEPT ![r] = [@ EXCEPT !.pc = "check", !.grant = current]]
    /\ UNCHANGED <<registered, current, grants, phase, inFlight, plans, claimed, spent>>

claimScope(r) ==
    /\ rq[r].pc = "check"
    /\ IF grants[rq[r].grant].status = "active" /\ Key[r] \notin inFlight
         THEN Goto(r, "status") /\ inFlight' = inFlight \cup {Key[r]}
         ELSE Goto(r, "ordinary") /\ UNCHANGED inFlight
    /\ UNCHANGED <<registered, current, grants, phase, plans, claimed, spent>>

admitStatus(r) ==
    /\ rq[r].pc = "status"
    /\ IF grants[rq[r].grant].status = "active"
         THEN Goto(r, "load") /\ UNCHANGED inFlight
         ELSE Release(r, "ordinary")
    /\ UNCHANGED <<registered, current, grants, phase, plans, claimed, spent>>

MutantLoadUnchecked(r) ==
    LET g == rq[r].grant
        left == grants[g].remaining
    IN  /\ rq[r].pc = "load"
        /\ \/ /\ left = 0
              /\ leaveActive(g, "exhausted") /\ Release(r, "ordinary")
           \/ /\ left > 0
              /\ rq' = [rq EXCEPT ![r] = [@ EXCEPT !.pc = "cas", !.rem = left]]
              /\ UNCHANGED <<grants, inFlight>>
        /\ UNCHANGED <<registered, current, phase, plans, claimed, spent>>

admitLoad(r) ==
    LET g == rq[r].grant
        left == grants[g].remaining
    IN  /\ rq[r].pc = "load"
        /\ \/ /\ left = 0
              /\ leaveActive(g, "exhausted") /\ Release(r, "ordinary")
           \/ /\ left > 0 /\ left < rq[r].est
              /\ Release(r, "ordinary") /\ UNCHANGED grants
           \/ /\ left > 0 /\ left >= rq[r].est
              /\ rq' = [rq EXCEPT ![r] = [@ EXCEPT !.pc = "cas", !.rem = left]]
              /\ UNCHANGED <<grants, inFlight>>
        /\ UNCHANGED <<registered, current, phase, plans, claimed, spent>>

MutantDecrementBlind(r, next, again) ==
    /\ grants' = [grants EXCEPT ![rq[r].grant].remaining = rq[r].rem - rq[r].est]
    /\ spent' = [spent EXCEPT ![rq[r].grant] = @ + rq[r].est]
    /\ Goto(r, next)

(* The decrement both paths make, if remaining is still what was loaded.   *)
decrement(r, next, again) ==
    LET g == rq[r].grant
    IN  IF grants[g].remaining = rq[r].rem
          THEN /\ grants' = [grants EXCEPT ![g].remaining = rq[r].rem - rq[r].est]
               /\ spent' = [spent EXCEPT ![g] = spent[g] + rq[r].est]
               /\ Goto(r, next)
          ELSE Goto(r, again) /\ UNCHANGED <<grants, spent>>

admitCas(r) ==
    /\ rq[r].pc = "cas"
    /\ decrement(r, IF rq[r].rem = rq[r].est THEN "mark" ELSE "sign", "status")
    /\ UNCHANGED <<registered, current, phase, inFlight, plans, claimed>>

admitMark(r) ==
    /\ rq[r].pc = "mark"
    /\ leaveActive(rq[r].grant, "exhausted")
    /\ Goto(r, "sign")
    /\ UNCHANGED <<registered, current, phase, inFlight, plans, claimed, spent>>

MutantSignLeaks(r) ==
    /\ rq[r].pc = "sign"
    /\ \/ Goto(r, "planned") /\ plans' = plans \cup {r}
       \/ \E pc \in {"ordinary", "done"} : Goto(r, pc) /\ UNCHANGED plans
    /\ UNCHANGED <<registered, current, grants, phase, inFlight, claimed, spent>>

(* The receipt is signed and the plan registered; a signer or local route  *)
(* that fails releases the scope and falls back, a refused credential or   *)
(* an encoding error ends the request.  The decrement stays.               *)
registerPlan(r) ==
    /\ rq[r].pc = "sign"
    /\ \/ /\ Goto(r, "planned") /\ plans' = plans \cup {r}
          /\ UNCHANGED inFlight
       \/ /\ \E pc \in {"ordinary", "done"} : Release(r, pc)
          /\ UNCHANGED plans
    /\ UNCHANGED <<registered, current, grants, phase, claimed, spent>>

-----------------------------------------------------------------------------
(* ReserveSpendLeaseAdmission.                                             *)

Cancel(r) ==
    /\ rq[r].pc = "planned" /\ ownerFree(r)
    /\ Release(r, "done")
    /\ UNCHANGED <<registered, current, grants, phase, plans, claimed, spent>>

enterReserve(r) ==
    /\ rq[r].pc = "planned" /\ ownerFree(r)
    /\ sameKey(r) \cap claimed = {}
    /\ Goto(r, "reserve")
    /\ UNCHANGED <<registered, current, grants, phase, inFlight, plans, claimed, spent>>

(* claimPlan: the plan registered for the key, or none for an ordinary     *)
(* call, and only the first time.                                          *)
claimPlan(r) ==
    /\ ownerFree(r)
    /\ IF r \in plans THEN TRUE ELSE sameKey(r) \cap plans = {}
    /\ sameKey(r) \cap claimed = {}

(* The router's answer, or none before the lease's deadline.               *)
reserveAnswered(r) ==
    /\ rq[r].pc = "reserve"
    /\ \E a \in Answer :
         \/ /\ a.kind \in {"capacity", "stop", "error"} /\ a.ledger = 0
            /\ rq' = [rq EXCEPT ![r] = [@ EXCEPT !.pc = "observe", !.answer = a]]
            /\ UNCHANGED claimed
         \/ /\ a.kind = "accepted" \/ (a.kind = "unmarked" /\ a.ledger = 0)
            /\ claimPlan(r)
            /\ rq' = [rq EXCEPT ![r] = [@ EXCEPT !.pc = "lease", !.answer = a]]
            /\ claimed' = claimed \cup {r}
    /\ UNCHANGED <<registered, current, grants, phase, inFlight, plans, spent>>

(* handleResponse, under the slot's lock: a lease ended by the router is   *)
(* marked; a new grant replaces the current one only when that one is no   *)
(* longer alive and older.  A response is delivered whenever it likes, so  *)
(* it may carry any generation.                                            *)
alive(g) == grants[g].status = "active" /\ grants[g].remaining > 0

MutantOldGeneration(g, status) ==
    /\ registered
    /\ \/ /\ status \in {"terminal", "expired"} /\ g = current
          /\ grants' = [grants EXCEPT ![g].status = status]
          /\ UNCHANGED current
       \/ /\ status = "active"
          /\ current # NoGrant => ~alive(current) \/ phase[current] = "dead"
          /\ current' = g /\ UNCHANGED grants

MutantSameGeneration(g, status) ==
    \/ /\ registered /\ status \in {"terminal", "expired"} /\ g = current
       /\ grants' = [grants EXCEPT ![g].status = status]
       /\ UNCHANGED current
    \/ /\ registered /\ status = "active" /\ g >= current
       /\ current # NoGrant => ~alive(current) \/ phase[current] = "dead"
       /\ current' = g
       /\ grants' = [grants EXCEPT ![g] = [remaining |-> Cap, status |-> "active"]]

handleResponse(g, status) ==
    \/ /\ registered /\ status \in {"terminal", "expired"} /\ g = current
       /\ grants' = [grants EXCEPT ![g].status = status]
       /\ UNCHANGED current
    \/ /\ registered /\ status = "active"
       /\ current = NoGrant
       /\ current' = g /\ UNCHANGED grants
    \/ /\ registered /\ status = "active" /\ current # NoGrant
       /\ ~alive(current) \/ phase[current] = "dead"
       /\ IF alive(current) THEN leaveActive(current, "expired") ELSE UNCHANGED grants
       /\ current' = IF g > current THEN g ELSE current

noLease == UNCHANGED <<current, grants>>

leaseAnswered ==
    \/ noLease
    \/ \E g \in Gen, s \in {"active", "terminal", "expired"} : handleResponse(g, s)

reserveLease(r) ==
    /\ rq[r].pc = "lease"
    /\ leaseAnswered
    /\ Goto(r, "observe")
    /\ UNCHANGED <<registered, phase, inFlight, plans, claimed, spent>>

MutantObserveCurrent(r) ==
    LET g == current
        kind == rq[r].answer.kind
    IN  /\ rq[r].pc = "observe"
        /\ \/ /\ g = NoGrant \/ kind = "error"
              /\ Release(r, "done") /\ UNCHANGED grants
           \/ /\ g # NoGrant /\ kind \in {"unmarked", "stop"}
              /\ grants' = [grants EXCEPT ![g].status = "disabled"]
              /\ Release(r, "done")
           \/ /\ g # NoGrant /\ kind = "capacity"
              /\ grants' = [grants EXCEPT ![g].remaining = 0]
              /\ Goto(r, "zeroed") /\ UNCHANGED inFlight
           \/ /\ g # NoGrant /\ kind = "accepted"
              /\ Goto(r, "fold") /\ UNCHANGED <<grants, inFlight>>
        /\ UNCHANGED <<registered, current, phase, plans, claimed, spent>>

(* ObserveReserve.  It loads the current grant and leaves another          *)
(* generation alone; the deferred Release follows it.                      *)
observeReserve(r) ==
    LET g == rq[r].grant
        kind == rq[r].answer.kind
    IN  /\ rq[r].pc = "observe"
        /\ \/ /\ current # g \/ kind = "error"
              /\ Release(r, "done") /\ UNCHANGED grants
           \/ /\ current = g /\ kind \in {"unmarked", "stop"}
              /\ grants' = [grants EXCEPT ![g].status = "disabled"]
              /\ Release(r, "done")
           \/ /\ current = g /\ kind = "capacity"
              /\ grants' = [grants EXCEPT ![g].remaining = 0]
              /\ Goto(r, "zeroed") /\ UNCHANGED inFlight
           \/ /\ current = g /\ kind = "accepted"
              /\ Goto(r, "fold") /\ UNCHANGED <<grants, inFlight>>
        /\ UNCHANGED <<registered, current, phase, plans, claimed, spent>>

observeZeroed(r) ==
    /\ rq[r].pc = "zeroed"
    /\ grants' = [grants EXCEPT ![rq[r].grant].status = "exhausted"]
    /\ Release(r, "done")
    /\ UNCHANGED <<registered, current, phase, plans, claimed, spent>>

foldLoad(r) ==
    LET local == grants[rq[r].grant].remaining
    IN  /\ rq[r].pc = "fold"
        /\ IF rq[r].answer.ledger >= local
             THEN Goto(r, "folded")
             ELSE rq' = [rq EXCEPT ![r] = [@ EXCEPT !.pc = "foldCas", !.rem = local]]
        /\ UNCHANGED <<registered, current, grants, phase, inFlight, plans, claimed, spent>>

MutantFoldStale(r) ==
    LET g == rq[r].grant
    IN  /\ rq[r].pc = "foldCas"
        /\ IF grants[g].remaining = rq[r].rem
             THEN /\ grants' = [grants EXCEPT ![g].remaining = rq[r].answer.ledger]
                  /\ Goto(r, "folded")
             ELSE UNCHANGED <<rq, grants>>
        /\ UNCHANGED <<registered, current, phase, inFlight, plans, claimed, spent>>

foldCas(r) ==
    LET g == rq[r].grant
    IN  /\ rq[r].pc = "foldCas"
        /\ IF grants[g].remaining = rq[r].rem
             THEN /\ grants' = [grants EXCEPT ![g].remaining = rq[r].answer.ledger]
                  /\ Goto(r, "folded")
             ELSE Goto(r, "fold") /\ UNCHANGED grants
        /\ UNCHANGED <<registered, current, phase, inFlight, plans, claimed, spent>>

MutantFoldUnmarked(r) ==
    /\ rq[r].pc = "folded"
    /\ Release(r, "done")
    /\ UNCHANGED <<registered, current, grants, phase, plans, claimed, spent>>

foldDone(r) ==
    LET g == rq[r].grant
    IN  /\ rq[r].pc = "folded"
        /\ IF grants[g].remaining = 0 THEN leaveActive(g, "exhausted") ELSE UNCHANGED grants
        /\ Release(r, "done")
        /\ UNCHANGED <<registered, current, phase, plans, claimed, spent>>

-----------------------------------------------------------------------------
(* The ordinary authorize: BeforeRequest, which decrements a grant only    *)
(* for the echo and only if the grant is not consequential, then the       *)
(* answer.                                                                 *)

BeforeRequest(r) ==
    LET g == current
    IN  /\ rq[r].pc = "ordinary"
        /\ \/ /\ ~registered \/ g = NoGrant
              /\ Goto(r, "authorize") /\ UNCHANGED grants
           \/ /\ registered /\ g # NoGrant /\ phase[g] = "dead"
              /\ leaveActive(g, "expired") /\ Goto(r, "authorize")
           \/ /\ registered /\ g # NoGrant /\ phase[g] # "dead"
              /\ grants[g].status = "active" /\ g \in Auth /\ LocalAdmission
              /\ IF grants[g].remaining = 0 THEN leaveActive(g, "exhausted")
                                            ELSE UNCHANGED grants
              /\ Goto(r, "authorize")
           \/ /\ registered /\ g # NoGrant /\ phase[g] # "dead"   \* ended, or no estimate
              /\ Goto(r, "authorize") /\ UNCHANGED grants
           \/ /\ registered /\ g # NoGrant /\ phase[g] # "dead"
              /\ grants[g].status = "active" /\ ~(g \in Auth /\ LocalAdmission)
              /\ rq' = [rq EXCEPT ![r] = [@ EXCEPT !.pc = "echo", !.grant = g]]
              /\ UNCHANGED grants
        /\ UNCHANGED <<registered, current, phase, inFlight, plans, claimed, spent>>

echoLoad(r) ==
    LET g == rq[r].grant
        left == grants[g].remaining
    IN  /\ rq[r].pc = "echo"
        /\ \/ /\ left = 0
              /\ leaveActive(g, "exhausted") /\ Goto(r, "authorize")
           \/ /\ left > 0 /\ left < rq[r].est
              /\ Goto(r, "authorize") /\ UNCHANGED grants
           \/ /\ left > 0 /\ left >= rq[r].est
              /\ rq' = [rq EXCEPT ![r] = [@ EXCEPT !.pc = "echoCas", !.rem = left]]
              /\ UNCHANGED grants
        /\ UNCHANGED <<registered, current, phase, inFlight, plans, claimed, spent>>

echoCas(r) ==
    /\ rq[r].pc = "echoCas"
    /\ decrement(r, IF rq[r].rem = rq[r].est THEN "echoMark" ELSE "authorize", "echo")
    /\ UNCHANGED <<registered, current, phase, inFlight, plans, claimed>>

echoMark(r) ==
    /\ rq[r].pc = "echoMark"
    /\ leaveActive(rq[r].grant, "exhausted")
    /\ Goto(r, "authorize")
    /\ UNCHANGED <<registered, current, phase, inFlight, plans, claimed, spent>>

(* An error, or an authorization the invocation may no longer claim, ends  *)
(* the request; a claimed one may bring a lease.                           *)
authorizeAnswered(r) ==
    /\ rq[r].pc = "authorize"
    /\ \/ Goto(r, "done") /\ UNCHANGED claimed
       \/ /\ claimPlan(r)
          /\ Goto(r, "response") /\ claimed' = claimed \cup {r}
    /\ UNCHANGED <<registered, current, grants, phase, inFlight, plans, spent>>

authorizeLease(r) ==
    /\ rq[r].pc = "response"
    /\ leaseAnswered
    /\ Goto(r, "done")
    /\ UNCHANGED <<registered, phase, inFlight, plans, claimed, spent>>

-----------------------------------------------------------------------------
Admit(r) ==
    \/ Prepare(r) \/ claimScope(r) \/ admitStatus(r) \/ admitLoad(r)
    \/ admitCas(r) \/ admitMark(r) \/ registerPlan(r)

Reserve(r) ==
    \/ Cancel(r) \/ enterReserve(r) \/ reserveAnswered(r) \/ reserveLease(r)
    \/ observeReserve(r) \/ observeZeroed(r) \/ foldLoad(r) \/ foldCas(r)
    \/ foldDone(r)

Ordinary(r) ==
    \/ BeforeRequest(r) \/ echoLoad(r) \/ echoCas(r) \/ echoMark(r)
    \/ authorizeAnswered(r) \/ authorizeLease(r)

Step(r) == Admit(r) \/ Reserve(r) \/ Ordinary(r)

Finished ==
    /\ \A r \in Req : rq[r].pc = "done"
    /\ UNCHANGED vars

Next ==
    \/ Register
    \/ \E g \in Gen : TimePasses(g)
    \/ \E r \in Req : Step(r)
    \/ Finished

Spec == Init /\ [][Next]_vars

(* Every call of the request returns: HTTP calls end with their deadline,  *)
(* compare-and-swap loops are retried by a running goroutine, and a plan   *)
(* is reserved or cancelled by the handler that prepared it.               *)
FairSpec == Spec /\ \A r \in Req : WF_vars(Step(r))

-----------------------------------------------------------------------------
(* The enclave never admits more than the cap on one grant, however the    *)
(* decrements of TryAdmit and BeforeRequest, the folds and the zeroing of  *)
(* ObserveReserve interleave: what was spent and what is left stay within  *)
(* CapMicro.                                                               *)
UpperBound == \A g \in Gen : spent[g] + grants[g].remaining <= Cap

(* The scopes in flight are those of the requests between claimScope and   *)
(* Release, one request each: no path of Prepare, Cancel or Reserve leaks  *)
(* a scope, or frees one that another request has claimed since.           *)
ScopesHeld ==
    LET holders == {r \in Req : rq[r].pc \in Holding}
    IN  /\ inFlight = {Key[r] : r \in holders}
        /\ \A r, q \in holders : Key[r] = Key[q] => r = q

(* An invocation dispatches an idempotency key once, and a key with a      *)
(* registered plan only through that plan: an ordinary authorize that      *)
(* races Prepare cannot steal it (claimPlan).                              *)
OneDispatch ==
    /\ \A r, q \in claimed : q \in sameKey(r) => q = r
    /\ \A p \in plans : \A q \in sameKey(p) : q \in plans \cup claimed => q = p

(* A grant with nothing left is no longer active, unless the request that  *)
(* took the last of it is about to mark it: no interleaving of the two     *)
(* atomics leaves an empty grant open for good.                            *)
ExhaustionMarked ==
    \A g \in Gen : grants[g].remaining = 0 /\ grants[g].status = "active" =>
       \E r \in Req : /\ rq[r].grant = g
                      /\ rq[r].pc \in {"mark", "zeroed", "folded", "echoMark"}

(* "It never raises remaining, even if responses complete out of order":   *)
(* nothing raises what is left on a grant, and a grant that stopped being  *)
(* active never becomes active again.                                      *)
NeverRaised ==
    [][\A g \in Gen : /\ grants'[g].remaining <= grants[g].remaining
                      /\ grants[g].status # "active" => grants'[g].status # "active"]_vars

(* A grant that was drawn from, lowered or ended stays behind once another *)
(* replaced it: whatever lease a delayed response carries to               *)
(* handleResponse, every generation later than the current one is as the   *)
(* router issued it.                                                       *)
NewerUntouched ==
    \A g \in Gen : g > current =>
        grants[g] = [remaining |-> Cap, status |-> "active"] /\ spent[g] = 0

(* ObserveReserve runs long after the admission, when the slot may hold    *)
(* another generation: what disables a grant, or lowers it by more than    *)
(* was spent, is an answer to a receipt of that same grant.                *)
OwnAnswers ==
    LET answered(g, kinds) == \E r \in Req : rq[r].grant = g /\ rq[r].answer.kind \in kinds
    IN  \A g \in Gen :
           /\ grants[g].status = "disabled" => answered(g, {"unmarked", "stop"})
           /\ spent[g] + grants[g].remaining < Cap => answered(g, {"capacity", "accepted"})

(* Every request ends, so every scope is released.                         *)
RequestEnds == \A r \in Req : <>(rq[r].pc = "done")
=============================================================================
