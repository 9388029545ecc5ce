-------------------------- MODULE SpendLeaseProofs --------------------------
(***************************************************************************)
(* For any set of requests, invocations, keys, generations and estimates:  *)
(* a grant is never over-admitted, a scope is held by one request, a key   *)
(* is dispatched once, nothing raises what is left on a grant.             *)
(***************************************************************************)
EXTENDS SpendLease, TLAPS

USE GenAssumption, CapAssumption, EstimateAssumption, AuthAssumption,
    AdmissionAssumption

(* Where a request holds a pointer to a grant.                             *)
OnGrant == Preparing \cup {"planned"} \cup Reserving \cup {"echo", "echoCas", "echoMark"}

(* What a request has loaded still bounds what it is about to store.       *)
SnapshotOf(r) ==
    /\ rq[r].pc \in OnGrant => rq[r].grant \in Gen
    /\ rq[r].pc \in {"cas", "echoCas"} => rq[r].est <= rq[r].rem
    /\ rq[r].pc = "foldCas" => rq[r].answer.ledger < rq[r].rem

Snapshots == \A r \in Req : SnapshotOf(r)

(* The invocation's lock: one request at a time is between the look at the *)
(* registry and its entry there, and the key stays unused meanwhile.       *)
Registry ==
    /\ \A r \in Req : rq[r].pc \in Preparing => sameKey(r) \cap (plans \cup claimed) = {}
    /\ \A r, q \in Req : rq[r].pc \in Preparing /\ rq[q].pc \in Preparing
                           /\ Owner[r] = Owner[q] => r = q
    /\ \A r \in Req : rq[r].pc \in {"planned"} \cup Reserving => r \in plans

IInv == TypeOK /\ Snapshots /\ UpperBound /\ ScopesHeld /\ Registry /\ OneDispatch
          /\ ExhaustionMarked

-----------------------------------------------------------------------------
(* A request's record changes alone.                                       *)
LEMMA RecordSet ==
    ASSUME TypeOK, NEW r \in Req, NEW R \in Request, rq' = [rq EXCEPT ![r] = R]
    PROVE  /\ rq' \in [Req -> Request]
           /\ rq'[r] = R
           /\ \A q \in Req \ {r} : rq'[q] = rq[q]
BY Zenon DEF TypeOK

LEMMA Moved ==
    ASSUME TypeOK, NEW r \in Req, NEW p \in RequestPC, Goto(r, p)
    PROVE  /\ rq' \in [Req -> Request]
           /\ \A q \in Req \ {r} : rq'[q] = rq[q]
           /\ rq'[r].pc = p /\ rq'[r].grant = rq[r].grant /\ rq'[r].rem = rq[r].rem
           /\ rq'[r].est = rq[r].est /\ rq'[r].answer = rq[r].answer
<1> DEFINE R == [rq[r] EXCEPT !.pc = p]
<1>1. R \in Request
  BY Zenon DEF TypeOK, Request
<1>2. rq' = [rq EXCEPT ![r] = R]
  BY Zenon DEF Goto
<1>3. /\ R.pc = p /\ R.grant = rq[r].grant /\ R.rem = rq[r].rem
      /\ R.est = rq[r].est /\ R.answer = rq[r].answer
  BY Zenon DEF TypeOK, Request
<1> QED
  BY <1>1, <1>2, <1>3, RecordSet, Zenon

(* A status or what remains changes alone.                                 *)
SetStatus(g, s) == grants' = [grants EXCEPT ![g].status = s]

LEMMA StatusSet ==
    ASSUME TypeOK, NEW g \in Gen, NEW s \in Status, SetStatus(g, s)
    PROVE  /\ grants' \in [Gen -> Grant]
           /\ grants'[g].status = s
           /\ \A h \in Gen : grants'[h].remaining = grants[h].remaining
           /\ \A h \in Gen \ {g} : grants'[h] = grants[h]
<1> DEFINE R == [grants[g] EXCEPT !.status = s]
<1>1. R \in Grant
  BY Zenon DEF TypeOK, Grant
<1>2. R.status = s /\ R.remaining = grants[g].remaining
  BY Zenon DEF TypeOK, Grant
<1>3. grants' = [grants EXCEPT ![g] = R]
  BY Zenon DEF SetStatus
<1>4. grants' \in [Gen -> Grant] /\ grants'[g] = R /\ \A h \in Gen \ {g} : grants'[h] = grants[h]
  BY <1>1, <1>3, Zenon DEF TypeOK
<1> QED
  BY <1>2, <1>4, Zenon

LEMMA RemainingSet ==
    ASSUME TypeOK, NEW g \in Gen, NEW n \in 0..Cap,
           grants' = [grants EXCEPT ![g].remaining = n]
    PROVE  /\ grants' \in [Gen -> Grant]
           /\ grants'[g].remaining = n
           /\ \A h \in Gen : grants'[h].status = grants[h].status
           /\ \A h \in Gen \ {g} : grants'[h] = grants[h]
<1> DEFINE R == [grants[g] EXCEPT !.remaining = n]
<1>1. R \in Grant
  BY Zenon DEF TypeOK, Grant
<1>2. R.remaining = n /\ R.status = grants[g].status
  BY Zenon DEF TypeOK, Grant
<1>3. grants' = [grants EXCEPT ![g] = R]
  BY Zenon
<1>4. grants' \in [Gen -> Grant] /\ grants'[g] = R /\ \A h \in Gen \ {g} : grants'[h] = grants[h]
  BY <1>1, <1>3, Zenon DEF TypeOK
<1> QED
  BY <1>2, <1>4, Zenon

LEMMA LeftActive ==
    ASSUME TypeOK, NEW g \in Gen, NEW s \in Status \ {"active"}, leaveActive(g, s)
    PROVE  /\ grants' \in [Gen -> Grant]
           /\ grants'[g].status # "active"
           /\ \A h \in Gen : grants'[h].remaining = grants[h].remaining
           /\ \A h \in Gen \ {g} : grants'[h] = grants[h]
<1> DEFINE t == IF grants[g].status = "active" THEN s ELSE grants[g].status
<1>1. t \in Status /\ t # "active"
  BY Zenon DEF TypeOK, Grant
<1>2. SetStatus(g, t)
  BY Zenon DEF leaveActive, SetStatus
<1> HIDE DEF t
<1> QED
  BY <1>1, <1>2, StatusSet, Zenon
-----------------------------------------------------------------------------
(* What a step of r may do to each part of the state.                      *)
Marking == {"mark", "zeroed", "folded", "echoMark"}

Frame(r) ==
    /\ rq' \in [Req -> Request]
    /\ \A q \in Req \ {r} : rq'[q] = rq[q]
    /\ registered' \in BOOLEAN /\ current' \in 0..MaxGen /\ phase' \in [Gen -> Phase]
    /\ grants' \in [Gen -> Grant] /\ spent' \in [Gen -> Nat]

ScopeShape(r) ==
    \/ /\ (rq'[r].pc \in Holding) <=> (rq[r].pc \in Holding)
       /\ inFlight' = inFlight
    \/ /\ rq[r].pc \notin Holding /\ rq'[r].pc \in Holding
       /\ Key[r] \notin inFlight /\ inFlight' = inFlight \cup {Key[r]}
    \/ /\ rq[r].pc \in Holding /\ rq'[r].pc \notin Holding
       /\ inFlight' = inFlight \ {Key[r]}

RegistryShape(r) ==
    /\ rq'[r].pc \in Preparing =>
         \/ rq[r].pc \in Preparing
         \/ ownerFree(r) /\ sameKey(r) \cap (plans \cup claimed) = {}
    /\ rq'[r].pc \in {"planned"} \cup Reserving => r \in plans'
    /\ \/ plans' = plans /\ claimed' = claimed
       \/ /\ plans' = plans \cup {r} /\ claimed' = claimed
          /\ rq[r].pc \in Preparing /\ rq'[r].pc \notin Preparing
       \/ /\ plans' = plans /\ claimed' = claimed \cup {r} /\ claimPlan(r)
          /\ rq[r].pc \notin Preparing /\ rq'[r].pc \notin Preparing

(* Nothing is raised, nothing revived; an empty active grant has a request *)
(* that will mark it.                                                      *)
GrantShape(r) ==
    \A g \in Gen :
       /\ grants'[g].remaining <= grants[g].remaining
       /\ grants'[g].status = "active" => grants[g].status = "active"
       /\ spent'[g] + grants'[g].remaining <= spent[g] + grants[g].remaining
       /\ grants'[g].remaining = 0 /\ grants'[g].status = "active" =>
            \/ grants[g].remaining = 0 /\ ~(rq[r].pc \in Marking /\ rq[r].grant = g)
            \/ rq'[r].pc \in Marking /\ rq'[r].grant = g

CurrentShape == current' # current => current' > current

Shapes(r) == Frame(r) /\ SnapshotOf(r)' /\ ScopeShape(r) /\ RegistryShape(r)
               /\ GrantShape(r) /\ CurrentShape

(* A step that leaves what remains alone and at most ends grants; a        *)
(* request at a marking step leaves its grant ended or not empty.          *)
OnlyEnds(r) ==
    /\ grants' \in [Gen -> Grant]
    /\ \A g \in Gen : /\ grants'[g].remaining = grants[g].remaining
                      /\ grants'[g].status = "active" => grants[g].status = "active"
    /\ rq[r].pc \in Marking => \/ grants'[rq[r].grant].status # "active"
                               \/ grants'[rq[r].grant].remaining # 0

LEMMA GrantTypes ==
    ASSUME TypeOK, NEW g \in Gen
    PROVE  grants[g].remaining \in 0..Cap /\ grants[g].status \in Status /\ spent[g] \in Nat
BY Zenon DEF TypeOK, Grant

LEMMA RequestTypes ==
    ASSUME TypeOK, NEW r \in Req
    PROVE  /\ rq[r].pc \in RequestPC /\ rq[r].grant \in 0..MaxGen /\ rq[r].rem \in 0..Cap
           /\ rq[r].est \in Estimates /\ rq[r].est \in Nat
           /\ rq[r].answer \in Answer /\ rq[r].answer.ledger \in 0..Cap
           /\ rq[r] \in Request
<1>1. rq[r] \in Request
  BY Zenon DEF TypeOK
<1>2. rq[r].answer \in Answer /\ rq[r].est \in Estimates
  BY <1>1, Zenon DEF Request
<1>3. rq[r].answer.ledger \in 0..Cap
  BY <1>2, Zenon DEF Answer
<1>4. rq[r].est \in Nat
  BY <1>2
<1> QED
  BY <1>1, <1>2, <1>3, <1>4, Zenon DEF Request

LEMMA EndsShape ==
    ASSUME TypeOK, NEW r \in Req, OnlyEnds(r), spent' = spent
    PROVE  GrantShape(r)
<1> SUFFICES ASSUME NEW g \in Gen
             PROVE  /\ grants'[g].remaining <= grants[g].remaining
                    /\ grants'[g].status = "active" => grants[g].status = "active"
                    /\ spent'[g] + grants'[g].remaining <= spent[g] + grants[g].remaining
                    /\ grants'[g].remaining = 0 /\ grants'[g].status = "active" =>
                         \/ grants[g].remaining = 0 /\ ~(rq[r].pc \in Marking /\ rq[r].grant = g)
                         \/ rq'[r].pc \in Marking /\ rq'[r].grant = g
  BY Zenon DEF GrantShape
<1>1. /\ grants'[g].remaining = grants[g].remaining
      /\ grants'[g].status = "active" => grants[g].status = "active"
      /\ rq[r].pc \in Marking /\ rq[r].grant = g =>
            grants'[g].status # "active" \/ grants'[g].remaining # 0
  BY Zenon DEF OnlyEnds
<1>2. grants[g].remaining \in 0..Cap /\ spent[g] \in Nat
  BY GrantTypes
<1>3. /\ grants'[g].remaining <= grants[g].remaining
      /\ spent'[g] + grants'[g].remaining <= spent[g] + grants[g].remaining
  BY <1>1, <1>2
<1> QED
  BY <1>1, <1>3, Zenon

LEMMA KeptGrants ==
    ASSUME TypeOK, NEW r \in Req, grants' = grants, rq[r].pc \notin Marking
    PROVE  OnlyEnds(r)
BY Zenon DEF TypeOK, OnlyEnds

LEMMA EndedGrant ==
    ASSUME TypeOK, NEW r \in Req, NEW g \in Gen, NEW s \in Status \ {"active"},
           leaveActive(g, s) \/ SetStatus(g, s),
           rq[r].pc \in Marking => rq[r].grant = g
    PROVE  OnlyEnds(r)
<1>1. /\ grants' \in [Gen -> Grant]
      /\ grants'[g].status # "active"
      /\ \A h \in Gen : grants'[h].remaining = grants[h].remaining
      /\ \A h \in Gen \ {g} : grants'[h] = grants[h]
  <2>1. CASE leaveActive(g, s)
    BY <2>1, LeftActive, Zenon
  <2>2. CASE SetStatus(g, s)
    <3>1. s \in Status /\ s # "active"
      OBVIOUS
    <3>2. /\ grants' \in [Gen -> Grant] /\ grants'[g].status = s
          /\ \A h \in Gen : grants'[h].remaining = grants[h].remaining
          /\ \A h \in Gen \ {g} : grants'[h] = grants[h]
      BY <2>2, <3>1, StatusSet, Zenon
    <3> QED
      BY <3>1, <3>2, Zenon
  <2> QED
    BY <2>1, <2>2
<1>2. \A h \in Gen : grants'[h].status = "active" => grants[h].status = "active"
  BY <1>1, Zenon
<1> QED
  BY <1>1, <1>2, Zenon DEF OnlyEnds

(* The parts every quiet step shares, whatever record r is left with.      *)
Quiet(r) == Frame(r) /\ SnapshotOf(r)' /\ GrantShape(r)

LEMMA PutShape ==
    ASSUME TypeOK, NEW r \in Req, NEW R \in Request, rq' = [rq EXCEPT ![r] = R],
           OnlyEnds(r), registered' = registered, current' \in 0..MaxGen, phase' = phase,
           spent' = spent,
           R.pc \in OnGrant => R.grant \in Gen,
           R.pc \in {"cas", "echoCas"} => R.est <= R.rem,
           R.pc = "foldCas" => R.answer.ledger < R.rem
    PROVE  Quiet(r) /\ rq'[r] = R
<1>1. rq' \in [Req -> Request] /\ rq'[r] = R /\ \A q \in Req \ {r} : rq'[q] = rq[q]
  BY RecordSet, Zenon
<1>2. SnapshotOf(r)'
  BY <1>1, Zenon DEF SnapshotOf
<1>3. GrantShape(r)
  BY EndsShape
<1>4. Frame(r)
  BY <1>1, Zenon DEF Frame, TypeOK, OnlyEnds
<1> QED
  BY <1>1, <1>2, <1>3, <1>4, Zenon DEF Quiet

LEMMA MoveShape ==
    ASSUME TypeOK, NEW r \in Req, SnapshotOf(r), NEW p \in RequestPC, Goto(r, p),
           OnlyEnds(r), registered' = registered, current' \in 0..MaxGen, phase' = phase,
           spent' = spent,
           p \in OnGrant => rq[r].pc \in OnGrant,
           p \notin {"cas", "echoCas", "foldCas"}
    PROVE  Quiet(r) /\ rq'[r].pc = p
<1> DEFINE R == [rq[r] EXCEPT !.pc = p]
<1>1. R \in Request
  BY Zenon DEF TypeOK, Request
<1>2. rq' = [rq EXCEPT ![r] = R]
  BY Zenon DEF Goto
<1>3. R.pc = p /\ R.grant = rq[r].grant
  BY Zenon DEF TypeOK, Request
<1>4. R.pc \in OnGrant => R.grant \in Gen
  BY <1>3, Zenon DEF SnapshotOf
<1>5. R.pc \notin {"cas", "echoCas", "foldCas"}
  BY <1>3, Zenon
<1> HIDE DEF R
<1>6. /\ R.pc \in {"cas", "echoCas"} => R.est <= R.rem
      /\ R.pc = "foldCas" => R.answer.ledger < R.rem
  BY <1>5, Zenon
<1>7. Quiet(r) /\ rq'[r] = R
  BY <1>1, <1>2, <1>4, <1>6, PutShape, Zenon
<1> QED
  BY <1>3, <1>7, Zenon

(* The two compare-and-swaps that take the estimate off a grant.           *)
LEMMA DecrementShape ==
    ASSUME TypeOK, NEW r \in Req, SnapshotOf(r), rq[r].pc \in {"cas", "echoCas"},
           NEW next \in RequestPC, NEW again \in RequestPC, decrement(r, next, again),
           UNCHANGED <<registered, current, phase>>,
           next \notin {"cas", "echoCas", "foldCas"},
           again \notin {"cas", "echoCas", "foldCas"},
           rq[r].rem = rq[r].est => next \in Marking
    PROVE  Quiet(r) /\ rq'[r].pc \in {next, again}
<1> DEFINE g == rq[r].grant
           n == rq[r].rem - rq[r].est
<1>1. /\ g \in Gen /\ rq[r].est <= rq[r].rem /\ rq[r].rem \in 0..Cap /\ rq[r].est \in Nat
      /\ rq[r].pc \notin Marking
  BY RequestTypes, SMT DEF SnapshotOf, OnGrant, Preparing, Marking
<1>2. n \in 0..Cap
  BY <1>1, SMT
<1> HIDE DEF n
<1>3. CASE grants[g].remaining = rq[r].rem
  <2>1. /\ grants' = [grants EXCEPT ![g].remaining = n]
        /\ spent' = [spent EXCEPT ![g] = spent[g] + rq[r].est]
        /\ Goto(r, next)
    BY <1>3, Zenon DEF decrement, n
  <2>2. /\ rq' \in [Req -> Request] /\ \A q \in Req \ {r} : rq'[q] = rq[q]
        /\ rq'[r].pc = next /\ rq'[r].grant = rq[r].grant
    BY <2>1, Moved, Zenon
  <2> HIDE DEF g
  <2>3. /\ grants' \in [Gen -> Grant] /\ grants'[g].remaining = n
        /\ \A h \in Gen : grants'[h].status = grants[h].status
        /\ \A h \in Gen \ {g} : grants'[h] = grants[h]
    BY <1>1, <1>2, <2>1, RemainingSet, Zenon DEF g
  <2>4. /\ spent \in [Gen -> Nat] /\ spent[g] \in Nat /\ spent[g] + rq[r].est \in Nat
    BY <1>1, SMT DEF TypeOK, g
  <2>5. /\ spent' \in [Gen -> Nat] /\ spent'[g] = spent[g] + rq[r].est
        /\ \A h \in Gen \ {g} : spent'[h] = spent[h]
    BY <1>1, <2>1, <2>4, Zenon DEF g
  <2>6. SnapshotOf(r)'
    BY <1>1, <2>2, Zenon DEF SnapshotOf, g
  <2>7. Frame(r)
    BY <2>2, <2>3, <2>5, Zenon DEF Frame, TypeOK
  <2>8. GrantShape(r)
    <3>1. n = grants[g].remaining - rq[r].est
      BY <1>3 DEF n
    <3>2. n = 0 => rq'[r].pc \in Marking /\ rq'[r].grant = g
      BY <1>1, <2>2, SMT DEF n, g
    <3>3. SUFFICES ASSUME NEW h \in Gen
                   PROVE  /\ grants'[h].remaining <= grants[h].remaining
                          /\ grants'[h].status = "active" => grants[h].status = "active"
                          /\ spent'[h] + grants'[h].remaining <= spent[h] + grants[h].remaining
                          /\ grants'[h].remaining = 0 /\ grants'[h].status = "active" =>
                               \/ grants[h].remaining = 0 /\ ~(rq[r].pc \in Marking /\ rq[r].grant = h)
                               \/ rq'[r].pc \in Marking /\ rq'[r].grant = h
      BY Zenon DEF GrantShape
    <3>4. grants[h].remaining \in 0..Cap /\ spent[h] \in Nat
      BY GrantTypes
    <3>5. CASE h = g
      <4>1. /\ grants'[h].remaining <= grants[h].remaining
            /\ spent'[h] + grants'[h].remaining <= spent[h] + grants[h].remaining
        BY <1>1, <2>3, <2>5, <3>1, <3>4, <3>5, SMT
      <4> QED
        BY <2>3, <3>2, <3>5, <4>1, Zenon
    <3>6. CASE h # g
      <4>1. grants'[h] = grants[h] /\ spent'[h] = spent[h]
        BY <2>3, <2>5, <3>6, Zenon
      <4>2. /\ grants'[h].remaining <= grants[h].remaining
            /\ spent'[h] + grants'[h].remaining <= spent[h] + grants[h].remaining
        BY <3>4, <4>1, SMT
      <4> QED
        BY <1>1, <4>1, <4>2, Zenon
    <3> QED
      BY <3>5, <3>6
  <2> QED
    BY <2>2, <2>6, <2>7, <2>8, Zenon DEF Quiet
<1>4. CASE grants[g].remaining # rq[r].rem
  <2>1. Goto(r, again) /\ grants' = grants /\ spent' = spent
    BY <1>4, Zenon DEF decrement
  <2>2. OnlyEnds(r)
    BY <1>1, <2>1, KeptGrants, Zenon
  <2>3. rq[r].pc \in OnGrant /\ current' \in 0..MaxGen
    BY SMT DEF OnGrant, Preparing, TypeOK
  <2> QED
    BY <2>1, <2>2, <2>3, MoveShape, Zenon
<1> QED
  BY <1>3, <1>4

(* ObserveReserve lowers what is left, and will mark the grant if empty.   *)
LEMMA LowerShape ==
    ASSUME TypeOK, NEW r \in Req, SnapshotOf(r), rq[r].pc \in OnGrant \ Marking,
           NEW n \in 0..Cap, n <= grants[rq[r].grant].remaining,
           grants' = [grants EXCEPT ![rq[r].grant].remaining = n],
           NEW p \in {"zeroed", "folded"}, Goto(r, p),
           UNCHANGED <<registered, current, phase, spent>>
    PROVE  Quiet(r) /\ rq'[r].pc = p
<1> DEFINE g == rq[r].grant
<1>1. g \in Gen /\ p \in RequestPC /\ p \in Marking /\ p \notin {"cas", "echoCas", "foldCas"}
  BY SMT DEF SnapshotOf, RequestPC, Reserving, Marking
<1>2. /\ rq' \in [Req -> Request] /\ \A q \in Req \ {r} : rq'[q] = rq[q]
      /\ rq'[r].pc = p /\ rq'[r].grant = rq[r].grant
  BY <1>1, Moved, Zenon
<1>3. n <= grants[g].remaining /\ grants' = [grants EXCEPT ![g].remaining = n]
  OBVIOUS
<1> HIDE DEF g
<1>4. /\ grants' \in [Gen -> Grant] /\ grants'[g].remaining = n
      /\ \A h \in Gen : grants'[h].status = grants[h].status
      /\ \A h \in Gen \ {g} : grants'[h] = grants[h]
  BY <1>1, <1>3, RemainingSet, Zenon
<1>5. Frame(r)
  BY <1>2, <1>4, Zenon DEF Frame, TypeOK
<1>6. SnapshotOf(r)'
  BY <1>1, <1>2, Zenon DEF SnapshotOf, g
<1>7. GrantShape(r)
  <2>1. SUFFICES ASSUME NEW h \in Gen
                 PROVE  /\ grants'[h].remaining <= grants[h].remaining
                        /\ grants'[h].status = "active" => grants[h].status = "active"
                        /\ spent'[h] + grants'[h].remaining <= spent[h] + grants[h].remaining
                        /\ grants'[h].remaining = 0 /\ grants'[h].status = "active" =>
                             \/ grants[h].remaining = 0 /\ ~(rq[r].pc \in Marking /\ rq[r].grant = h)
                             \/ rq'[r].pc \in Marking /\ rq'[r].grant = h
    BY Zenon DEF GrantShape
  <2>2. grants[h].remaining \in 0..Cap /\ spent[h] \in Nat /\ spent'[h] = spent[h]
    BY GrantTypes
  <2>3. CASE h = g
    <3>1. /\ grants'[h].remaining <= grants[h].remaining
          /\ spent'[h] + grants'[h].remaining <= spent[h] + grants[h].remaining
      BY <1>3, <1>4, <2>2, <2>3, SMT
    <3> QED
      BY <1>1, <1>2, <1>4, <2>3, <3>1, Zenon DEF g
  <2>4. CASE h # g
    <3>1. grants'[h] = grants[h]
      BY <1>4, <2>4, Zenon
    <3>2. /\ grants'[h].remaining <= grants[h].remaining
          /\ spent'[h] + grants'[h].remaining <= spent[h] + grants[h].remaining
      BY <2>2, <3>1, SMT
    <3> QED
      BY <3>1, <3>2, Zenon
  <2> QED
    BY <2>3, <2>4
<1> QED
  BY <1>2, <1>5, <1>6, <1>7, Zenon DEF Quiet

(* What a response may do: end the current grant, or replace it by a later *)
(* one.                                                                    *)
LEMMA LeaseShape ==
    ASSUME TypeOK, NEW r \in Req, leaseAnswered, rq[r].pc \notin Marking, phase' = phase
    PROVE  OnlyEnds(r) /\ current' \in 0..MaxGen /\ CurrentShape
<1>1. CASE noLease
  <2>1. grants' = grants /\ current' = current
    BY <1>1, Zenon DEF noLease
  <2>2. OnlyEnds(r)
    BY <2>1, KeptGrants, Zenon
  <2> QED
    BY <2>1, <2>2, Zenon DEF CurrentShape, TypeOK
<1>2. ASSUME NEW g \in Gen, NEW s \in {"active", "terminal", "expired"}, handleResponse(g, s)
      PROVE  OnlyEnds(r) /\ current' \in 0..MaxGen /\ CurrentShape
  <2>1. CASE /\ registered /\ s \in {"terminal", "expired"} /\ g = current
             /\ grants' = [grants EXCEPT ![g].status = s]
             /\ UNCHANGED current
    <3>0. SetStatus(g, s) /\ current' = current
      BY <2>1, Zenon DEF SetStatus
    <3>1. s \in Status \ {"active"}
      BY <2>1, SMT DEF Status
    <3>2. OnlyEnds(r)
      BY <3>0, <3>1, EndedGrant, Zenon
    <3> QED
      BY <3>0, <3>2, Zenon DEF CurrentShape, TypeOK
  <2>2. CASE /\ registered /\ s = "active"
             /\ current = NoGrant
             /\ current' = g /\ UNCHANGED grants
    <3>1. OnlyEnds(r)
      BY <2>2, KeptGrants, Zenon
    <3>2. g \in 0..MaxGen /\ g > NoGrant
      BY SMT DEF Gen, NoGrant
    <3> QED
      BY <2>2, <3>1, <3>2, Zenon DEF CurrentShape
  <2>3. CASE /\ registered /\ s = "active" /\ current # NoGrant
             /\ ~alive(current) \/ phase[current] = "dead"
             /\ IF alive(current) THEN leaveActive(current, "expired") ELSE UNCHANGED grants
             /\ current' = IF g > current THEN g ELSE current
    <3>1. current \in Gen /\ "expired" \in Status \ {"active"}
      BY <2>3, SMT DEF TypeOK, NoGrant, Gen, Status
    <3>2. leaveActive(current, "expired") \/ grants' = grants
      BY <2>3
    <3>3. OnlyEnds(r)
      BY <3>1, <3>2, KeptGrants, EndedGrant, Zenon
    <3>4. current' \in 0..MaxGen /\ (current' # current => current' > current)
      BY <2>3, <3>1, SMT DEF Gen
    <3> QED
      BY <2>3, <3>3, <3>4, Zenon DEF CurrentShape
  <2> QED
    BY <1>2, <2>1, <2>2, <2>3, Zenon DEF handleResponse
<1> QED
  BY <1>1, <1>2, Zenon DEF leaseAnswered

-----------------------------------------------------------------------------
(* Moves of a request that leave the registry alone, and what the two      *)
(* program counters must agree on: it stays with its scope, or frees it.   *)
moves(a, p) ==
    /\ a \notin Marking
    /\ p \in RequestPC \ {"cas", "echoCas", "foldCas"}
    /\ p \in OnGrant => a \in OnGrant
    /\ p \in Preparing => a \in Preparing
    /\ p \in {"planned"} \cup Reserving => a \in {"planned"} \cup Reserving
    /\ (p \in Holding) <=> (a \in Holding)

ends(a, p) ==
    /\ a \in Marking
    /\ p \in RequestPC \ {"cas", "echoCas", "foldCas"}
    /\ p \in OnGrant => a \in OnGrant
    /\ p \in Preparing => a \in Preparing
    /\ p \notin {"planned"} \cup Reserving
    /\ (p \in Holding) <=> (a \in Holding)

frees(a, p) ==
    /\ a \in Holding /\ p \notin Holding
    /\ p \in RequestPC \ OnGrant

Planned(r) == rq[r].pc \in {"planned"} \cup Reserving => r \in plans

LEMMA LegalMoves ==
    /\ moves("new", "ordinary") /\ moves("new", "done") /\ moves("check", "ordinary")
    /\ moves("status", "load") /\ moves("planned", "reserve") /\ moves("lease", "observe")
    /\ moves("observe", "fold") /\ moves("fold", "folded") /\ moves("foldCas", "fold")
    /\ moves("ordinary", "authorize") /\ moves("echo", "authorize")
    /\ moves("authorize", "done") /\ moves("response", "done")
    /\ ends("mark", "sign") /\ ends("echoMark", "authorize")
BY SMT DEF moves, ends, RequestPC, OnGrant, Preparing, Reserving, Holding, Marking

LEMMA LegalFrees ==
    /\ \A a \in Holding : frees(a, "ordinary") /\ frees(a, "done")
    /\ "ordinary" \in RequestPC /\ "done" \in RequestPC
    /\ {"status", "load", "sign", "planned", "observe", "zeroed", "folded"} \subseteq Holding
    /\ {"status", "load", "sign", "planned", "observe"} \cap Marking = {}
BY SMT DEF frees, RequestPC, OnGrant, Preparing, Reserving, Holding, Marking

LEMMA MoveStep ==
    ASSUME TypeOK, NEW r \in Req, SnapshotOf(r), Planned(r), NEW p, Goto(r, p),
           moves(rq[r].pc, p) \/ ends(rq[r].pc, p), OnlyEnds(r),
           UNCHANGED <<registered, phase, spent, inFlight, plans, claimed>>,
           current' \in 0..MaxGen, CurrentShape
    PROVE  Shapes(r)
<1>1. /\ p \in RequestPC /\ p \notin {"cas", "echoCas", "foldCas"}
      /\ p \in OnGrant => rq[r].pc \in OnGrant
      /\ p \in Preparing => rq[r].pc \in Preparing
      /\ p \in {"planned"} \cup Reserving => rq[r].pc \in {"planned"} \cup Reserving
      /\ (p \in Holding) <=> (rq[r].pc \in Holding)
  BY Zenon DEF moves, ends
<1>2. Quiet(r) /\ rq'[r].pc = p
  BY <1>1, MoveShape, Zenon
<1>3. ScopeShape(r)
  BY <1>1, <1>2, Zenon DEF ScopeShape
<1>4. RegistryShape(r)
  BY <1>1, <1>2, Zenon DEF RegistryShape, Planned
<1> QED
  BY <1>2, <1>3, <1>4, Zenon DEF Shapes, Quiet

LEMMA FreeStep ==
    ASSUME TypeOK, NEW r \in Req, SnapshotOf(r), NEW p, Release(r, p),
           frees(rq[r].pc, p), OnlyEnds(r),
           UNCHANGED <<registered, current, phase, spent, plans, claimed>>
    PROVE  Shapes(r)
<1>1. /\ p \in RequestPC /\ p \notin OnGrant /\ p \notin {"cas", "echoCas", "foldCas"}
      /\ p \notin Preparing /\ p \notin {"planned"} \cup Reserving
  BY SMT DEF frees, OnGrant, Preparing, Reserving
<1>2. Goto(r, p) /\ inFlight' = inFlight \ {Key[r]} /\ current' = current
      /\ current' \in 0..MaxGen
  BY Zenon DEF Release, TypeOK
<1>3. Quiet(r) /\ rq'[r].pc = p
  BY <1>1, <1>2, MoveShape, Zenon
<1>4. ScopeShape(r)
  BY <1>2, <1>3, Zenon DEF ScopeShape, frees
<1>5. RegistryShape(r) /\ CurrentShape
  BY <1>1, <1>2, <1>3, Zenon DEF RegistryShape, CurrentShape
<1> QED
  BY <1>3, <1>4, <1>5, Zenon DEF Shapes, Quiet

(* A step that stores something in r's record and touches no grant.        *)
LEMMA PutStep ==
    ASSUME TypeOK, NEW r \in Req, NEW R \in Request, rq' = [rq EXCEPT ![r] = R],
           rq[r].pc \notin Marking,
           UNCHANGED <<registered, current, grants, phase, spent, inFlight>>,
           R.pc \in OnGrant => R.grant \in Gen,
           R.pc \in {"cas", "echoCas"} => R.est <= R.rem,
           R.pc = "foldCas" => R.answer.ledger < R.rem,
           (R.pc \in Holding) <=> (rq[r].pc \in Holding)
    PROVE  /\ Frame(r) /\ SnapshotOf(r)' /\ ScopeShape(r) /\ GrantShape(r) /\ CurrentShape
           /\ rq'[r].pc = R.pc
<1>1. OnlyEnds(r)
  BY KeptGrants, Zenon
<1>2. current' = current /\ current' \in 0..MaxGen
  BY Zenon DEF TypeOK
<1>3. Quiet(r) /\ rq'[r] = R
  BY <1>1, <1>2, PutShape, Zenon
<1> QED
  BY <1>2, <1>3, Zenon DEF Quiet, ScopeShape, CurrentShape

(* A compare-and-swap that stays with its scope.                           *)
LEMMA DecrementStep ==
    ASSUME TypeOK, NEW r \in Req, SnapshotOf(r),
           NEW next, NEW again, decrement(r, next, again),
           \/ rq[r].pc = "cas" /\ next \in {"mark", "sign"} /\ again = "status"
           \/ rq[r].pc = "echoCas" /\ next \in {"echoMark", "authorize"} /\ again = "echo",
           rq[r].rem = rq[r].est => next \in Marking,
           UNCHANGED <<registered, current, phase, inFlight, plans, claimed>>
    PROVE  Shapes(r)
<1>1. /\ rq[r].pc \in {"cas", "echoCas"} /\ next \in RequestPC /\ again \in RequestPC
      /\ next \notin {"cas", "echoCas", "foldCas"} /\ again \notin {"cas", "echoCas", "foldCas"}
  BY SMT DEF RequestPC, Preparing
<1>2. Quiet(r) /\ rq'[r].pc \in {next, again}
  BY <1>1, DecrementShape, Zenon
<1>3. ScopeShape(r)
  BY <1>2, SMT DEF ScopeShape, Holding, Preparing, Reserving
<1>4. /\ rq'[r].pc \in Preparing => rq[r].pc \in Preparing
      /\ rq'[r].pc \notin {"planned"} \cup Reserving
  BY <1>2, SMT DEF Preparing, Reserving
<1>5. RegistryShape(r) /\ CurrentShape
  BY <1>4, Zenon DEF RegistryShape, CurrentShape
<1> QED
  BY <1>2, <1>3, <1>5, Zenon DEF Shapes, Quiet

LEMMA AdmitShapes ==
    ASSUME TypeOK, NEW r \in Req, SnapshotOf(r), Planned(r), Admit(r)
    PROVE  Shapes(r)
<1> DEFINE g == rq[r].grant
<1>0. /\ current \in 0..MaxGen /\ "exhausted" \in Status \ {"active"}
      /\ rq[r].pc \in OnGrant => g \in Gen
      /\ current' = current => current' \in 0..MaxGen /\ CurrentShape
  BY SMT DEF TypeOK, Status, SnapshotOf, CurrentShape
<1>1. CASE Prepare(r)
  <2>0. /\ rq[r].pc = "new" /\ rq[r].pc \notin Marking
        /\ UNCHANGED <<registered, current, grants, phase, inFlight, plans, claimed, spent>>
    BY <1>1, SMT DEF Prepare, Marking
  <2>1. ASSUME NEW p \in {"ordinary", "done"}, Goto(r, p)
        PROVE  Shapes(r)
    <3>1. OnlyEnds(r)
      BY <2>0, KeptGrants, Zenon
    <3>2. moves(rq[r].pc, p)
      BY <2>0, LegalMoves, Zenon
    <3> QED
      BY <1>0, <2>0, <2>1, <3>1, <3>2, MoveStep, Zenon
  <2>2. CASE /\ ownerFree(r) /\ sameKey(r) \cap (plans \cup claimed) = {} /\ current \in Auth
             /\ rq' = [rq EXCEPT ![r] = [rq[r] EXCEPT !.pc = "check", !.grant = current]]
    <3> DEFINE R == [rq[r] EXCEPT !.pc = "check", !.grant = current]
    <3>1. "check" \in RequestPC /\ current \in Gen /\ "check" \in Preparing
          /\ "check" \notin {"cas", "echoCas", "foldCas"} /\ "check" \notin Holding
          /\ "new" \notin Holding /\ "check" \notin {"planned"} \cup Reserving
      BY <2>2, SMT DEF RequestPC, Preparing, Gen, Holding, Reserving
    <3>2. R \in Request /\ R.pc = "check" /\ R.grant = current
      BY <1>0, <3>1, Zenon DEF TypeOK, Request
    <3>3. rq' = [rq EXCEPT ![r] = R]
      BY <2>2
    <3> HIDE DEF R
    <3>4. /\ Frame(r) /\ SnapshotOf(r)' /\ ScopeShape(r) /\ GrantShape(r) /\ CurrentShape
          /\ rq'[r].pc = "check"
      BY <2>0, <3>1, <3>2, <3>3, PutStep, Zenon
    <3>5. RegistryShape(r)
      BY <2>0, <2>2, <3>1, <3>4, Zenon DEF RegistryShape
    <3> QED
      BY <3>4, <3>5, Zenon DEF Shapes
  <2> QED
    BY <1>1, <2>1, <2>2, Zenon DEF Prepare
<1>2. CASE claimScope(r)
  <2>0. /\ rq[r].pc = "check" /\ rq[r].pc \notin Marking /\ rq[r].pc \in OnGrant
        /\ rq[r].pc \notin Holding /\ rq[r].pc \in Preparing
        /\ UNCHANGED <<registered, current, grants, phase, plans, claimed, spent>>
    BY <1>2, SMT DEF claimScope, Marking, OnGrant, Holding, Preparing, Reserving
  <2>1. OnlyEnds(r)
    BY <2>0, KeptGrants, Zenon
  <2>2. CASE Goto(r, "status") /\ Key[r] \notin inFlight /\ inFlight' = inFlight \cup {Key[r]}
    <3>1. /\ "status" \in RequestPC /\ "status" \notin {"cas", "echoCas", "foldCas"}
          /\ "status" \in Holding /\ "status" \notin {"planned"} \cup Reserving
      BY SMT DEF RequestPC, Preparing, Reserving, Holding
    <3>2. Quiet(r) /\ rq'[r].pc = "status"
      BY <1>0, <2>0, <2>1, <2>2, <3>1, MoveShape, Zenon
    <3> QED
      BY <1>0, <2>0, <2>2, <3>1, <3>2, Zenon DEF Shapes, Quiet, ScopeShape, RegistryShape
  <2>3. CASE Goto(r, "ordinary") /\ inFlight' = inFlight
    BY <1>0, <2>0, <2>1, <2>3, LegalMoves, MoveStep, Zenon
  <2> QED
    BY <1>2, <2>2, <2>3, Zenon DEF claimScope
<1>3. CASE admitStatus(r)
  <2>0. /\ rq[r].pc = "status" /\ rq[r].pc \notin Marking /\ rq[r].pc \in Holding
        /\ UNCHANGED <<registered, current, grants, phase, plans, claimed, spent>>
    BY <1>3, LegalFrees, SMT DEF admitStatus
  <2>1. OnlyEnds(r)
    BY <2>0, KeptGrants, Zenon
  <2>2. CASE Goto(r, "load") /\ inFlight' = inFlight
    BY <1>0, <2>0, <2>1, <2>2, LegalMoves, MoveStep, Zenon
  <2>3. CASE Release(r, "ordinary")
    BY <2>0, <2>1, <2>3, LegalFrees, FreeStep, Zenon
  <2> QED
    BY <1>3, <2>2, <2>3, Zenon DEF admitStatus
<1>4. CASE admitLoad(r)
  <2> DEFINE left == grants[g].remaining
  <2>0. /\ rq[r].pc = "load" /\ rq[r].pc \notin Marking /\ rq[r].pc \in Holding
        /\ rq[r].pc \in OnGrant /\ rq[r].pc \in Preparing
        /\ UNCHANGED <<registered, current, phase, plans, claimed, spent>>
    BY <1>4, LegalFrees, SMT DEF admitLoad, OnGrant, Preparing
  <2>1. g \in Gen /\ left \in 0..Cap
    BY <1>0, <2>0, GrantTypes
  <2>2. CASE leaveActive(g, "exhausted") /\ Release(r, "ordinary")
    <3>1. OnlyEnds(r)
      BY <1>0, <2>0, <2>1, <2>2, EndedGrant, Zenon
    <3> QED
      BY <2>0, <2>2, <3>1, LegalFrees, FreeStep, Zenon
  <2>3. CASE Release(r, "ordinary") /\ grants' = grants
    <3>1. OnlyEnds(r)
      BY <2>0, <2>3, KeptGrants, Zenon
    <3> QED
      BY <2>0, <2>3, <3>1, LegalFrees, FreeStep, Zenon
  <2>4. CASE /\ left >= rq[r].est /\ grants' = grants /\ inFlight' = inFlight
             /\ rq' = [rq EXCEPT ![r] = [rq[r] EXCEPT !.pc = "cas", !.rem = left]]
    <3> DEFINE R == [rq[r] EXCEPT !.pc = "cas", !.rem = left]
    <3>1. /\ "cas" \in RequestPC /\ "cas" \in Holding /\ "cas" # "foldCas"
          /\ "cas" \notin {"planned"} \cup Reserving
      BY SMT DEF RequestPC, Holding, Preparing, Reserving
    <3>2. /\ R \in Request /\ R.pc = "cas" /\ R.grant = g /\ R.rem = left /\ R.est = rq[r].est
      BY <2>1, <3>1, Zenon DEF TypeOK, Request
    <3>3. rq' = [rq EXCEPT ![r] = R]
      BY <2>4
    <3>4. rq[r].est <= left
      BY <2>1, <2>4, RequestTypes, SMT
    <3> HIDE DEF R, left
    <3>5. R.est <= R.rem
      BY <3>2, <3>4, Zenon
    <3>6. /\ Frame(r) /\ SnapshotOf(r)' /\ ScopeShape(r) /\ GrantShape(r) /\ CurrentShape
          /\ rq'[r].pc = "cas"
      BY <2>0, <2>1, <2>4, <3>1, <3>2, <3>3, <3>5, PutStep, Zenon
    <3>7. RegistryShape(r)
      BY <2>0, <3>1, <3>6, Zenon DEF RegistryShape
    <3> QED
      BY <3>6, <3>7, Zenon DEF Shapes
  <2> QED
    BY <1>4, <2>2, <2>3, <2>4, Zenon DEF admitLoad
<1>5. CASE admitCas(r)
  <2> DEFINE next == IF rq[r].rem = rq[r].est THEN "mark" ELSE "sign"
  <2>1. /\ rq[r].pc = "cas" /\ decrement(r, next, "status")
        /\ UNCHANGED <<registered, current, phase, inFlight, plans, claimed>>
    BY <1>5, Zenon DEF admitCas
  <2>2. next \in {"mark", "sign"} /\ (rq[r].rem = rq[r].est => next \in Marking)
    BY Zenon DEF Marking
  <2> HIDE DEF next
  <2> QED
    BY <2>1, <2>2, DecrementStep, Zenon
<1>6. CASE admitMark(r)
  <2>0. /\ rq[r].pc = "mark" /\ rq[r].pc \in OnGrant
        /\ leaveActive(g, "exhausted") /\ Goto(r, "sign")
        /\ UNCHANGED <<registered, current, phase, inFlight, plans, claimed, spent>>
    BY <1>6, Zenon DEF admitMark, OnGrant, Preparing
  <2>1. OnlyEnds(r)
    BY <1>0, <2>0, EndedGrant, Zenon
  <2> QED
    BY <1>0, <2>0, <2>1, LegalMoves, MoveStep, Zenon
<1>7. CASE registerPlan(r)
  <2>0. /\ rq[r].pc = "sign" /\ rq[r].pc \notin Marking /\ rq[r].pc \in Holding
        /\ rq[r].pc \in OnGrant /\ rq[r].pc \in Preparing
        /\ UNCHANGED <<registered, current, grants, phase, claimed, spent>>
    BY <1>7, LegalFrees, SMT DEF registerPlan, OnGrant, Preparing
  <2>1. OnlyEnds(r)
    BY <2>0, KeptGrants, Zenon
  <2>2. CASE Goto(r, "planned") /\ plans' = plans \cup {r} /\ inFlight' = inFlight
    <3>1. /\ "planned" \in RequestPC /\ "planned" \notin {"cas", "echoCas", "foldCas"}
          /\ "planned" \in Holding /\ "planned" \notin Preparing
      BY SMT DEF RequestPC, Preparing, Reserving, Holding
    <3>2. Quiet(r) /\ rq'[r].pc = "planned"
      BY <1>0, <2>0, <2>1, <2>2, <3>1, MoveShape, Zenon
    <3> QED
      BY <1>0, <2>0, <2>2, <3>1, <3>2, Zenon DEF Shapes, Quiet, ScopeShape, RegistryShape
  <2>3. ASSUME NEW p \in {"ordinary", "done"}, Release(r, p), plans' = plans
        PROVE  Shapes(r)
    BY <2>0, <2>1, <2>3, LegalFrees, FreeStep, Zenon
  <2> QED
    BY <1>7, <2>2, <2>3, Zenon DEF registerPlan
<1> QED
  BY <1>1, <1>2, <1>3, <1>4, <1>5, <1>6, <1>7, Zenon DEF Admit

LEMMA ReserveShapes ==
    ASSUME TypeOK, NEW r \in Req, SnapshotOf(r), Planned(r), Reserve(r)
    PROVE  Shapes(r)
<1> DEFINE g == rq[r].grant
<1>0. /\ current \in 0..MaxGen /\ "exhausted" \in Status \ {"active"}
      /\ "disabled" \in Status \ {"active"}
      /\ rq[r].pc \in OnGrant => g \in Gen
      /\ current' = current => current' \in 0..MaxGen /\ CurrentShape
  BY SMT DEF TypeOK, Status, SnapshotOf, CurrentShape
<1>1. CASE Cancel(r)
  <2>0. /\ rq[r].pc = "planned" /\ rq[r].pc \notin Marking /\ rq[r].pc \in Holding
        /\ Release(r, "done")
        /\ UNCHANGED <<registered, current, grants, phase, plans, claimed, spent>>
    BY <1>1, LegalFrees, Zenon DEF Cancel
  <2>1. OnlyEnds(r)
    BY <2>0, KeptGrants, Zenon
  <2> QED
    BY <2>0, <2>1, LegalFrees, FreeStep, Zenon
<1>2. CASE enterReserve(r)
  <2>0. /\ rq[r].pc = "planned" /\ rq[r].pc \notin Marking /\ Goto(r, "reserve")
        /\ UNCHANGED <<registered, current, grants, phase, inFlight, plans, claimed, spent>>
    BY <1>2, LegalFrees, Zenon DEF enterReserve
  <2>1. OnlyEnds(r)
    BY <2>0, KeptGrants, Zenon
  <2> QED
    BY <1>0, <2>0, <2>1, LegalMoves, MoveStep, Zenon
<1>3. CASE reserveAnswered(r)
  <2>0. /\ rq[r].pc = "reserve" /\ rq[r].pc \notin Marking /\ rq[r].pc \in Holding
        /\ rq[r].pc \in OnGrant /\ rq[r].pc \notin Preparing
        /\ rq[r].pc \in {"planned"} \cup Reserving
        /\ UNCHANGED <<registered, current, grants, phase, inFlight, plans, spent>>
    BY <1>3, SMT DEF reserveAnswered, Marking, Holding, OnGrant, Preparing, Reserving
  <2> DEFINE Answered(p, a) == rq' = [rq EXCEPT ![r] = [rq[r] EXCEPT !.pc = p, !.answer = a]]
  <2> DEFINE Claims == claimed' = claimed \/ (claimPlan(r) /\ claimed' = claimed \cup {r})
  <2>1. ASSUME NEW a \in Answer, NEW p \in {"observe", "lease"}, Answered(p, a), Claims
        PROVE  Shapes(r)
    <3> DEFINE R == [rq[r] EXCEPT !.pc = p, !.answer = a]
    <3>1. /\ p \in RequestPC /\ p \in Holding /\ p \notin {"cas", "echoCas", "foldCas"}
          /\ p \notin Preparing
      BY SMT DEF RequestPC, Holding, Preparing, Reserving
    <3>2. R \in Request /\ R.pc = p /\ R.grant = g
      BY <3>1, Zenon DEF TypeOK, Request
    <3>3. rq' = [rq EXCEPT ![r] = R]
      BY <2>1
    <3> HIDE DEF R
    <3>4. /\ Frame(r) /\ SnapshotOf(r)' /\ ScopeShape(r) /\ GrantShape(r) /\ CurrentShape
          /\ rq'[r].pc = p
      BY <1>0, <2>0, <3>1, <3>2, <3>3, PutStep, Zenon
    <3>5. RegistryShape(r)
      BY <2>0, <2>1, <3>1, <3>4, Zenon DEF RegistryShape, Planned
    <3> QED
      BY <3>4, <3>5, Zenon DEF Shapes
  <2>2. PICK a \in Answer :
          Claims /\ (Answered("observe", a) \/ Answered("lease", a))
    BY <1>3, Zenon DEF reserveAnswered
  <2> HIDE DEF Answered, Claims
  <2> QED
    BY <2>1, <2>2
<1>4. CASE reserveLease(r)
  <2>0. /\ rq[r].pc = "lease" /\ rq[r].pc \notin Marking /\ Goto(r, "observe") /\ leaseAnswered
        /\ UNCHANGED <<registered, phase, inFlight, plans, claimed, spent>>
    BY <1>4, SMT DEF reserveLease, Marking
  <2>1. OnlyEnds(r) /\ current' \in 0..MaxGen /\ CurrentShape
    BY <2>0, LeaseShape, Zenon
  <2> QED
    BY <2>0, <2>1, LegalMoves, MoveStep, Zenon
<1>5. CASE observeReserve(r)
  <2>0. /\ rq[r].pc = "observe" /\ rq[r].pc \notin Marking /\ rq[r].pc \in Holding
        /\ rq[r].pc \in OnGrant /\ g \in Gen
        /\ UNCHANGED <<registered, current, phase, plans, claimed, spent>>
    BY <1>0, <1>5, LegalFrees, SMT DEF observeReserve, OnGrant, Reserving
  <2>1. CASE Release(r, "done") /\ grants' = grants
    <3>1. OnlyEnds(r)
      BY <2>0, <2>1, KeptGrants, Zenon
    <3> QED
      BY <2>0, <2>1, <3>1, LegalFrees, FreeStep, Zenon
  <2>2. CASE grants' = [grants EXCEPT ![g].status = "disabled"] /\ Release(r, "done")
    <3>1. SetStatus(g, "disabled")
      BY <2>2, Zenon DEF SetStatus
    <3>2. OnlyEnds(r)
      BY <1>0, <2>0, <3>1, EndedGrant, Zenon
    <3> QED
      BY <2>0, <2>2, <3>2, LegalFrees, FreeStep, Zenon
  <2>3. CASE /\ grants' = [grants EXCEPT ![g].remaining = 0]
             /\ Goto(r, "zeroed") /\ inFlight' = inFlight
    <3>1. 0 \in 0..Cap /\ 0 <= grants[g].remaining
      BY <2>0, GrantTypes, SMT
    <3>2. Quiet(r) /\ rq'[r].pc = "zeroed"
      BY <2>0, <2>3, <3>1, LowerShape, Zenon
    <3>3. /\ "zeroed" \in Holding /\ "zeroed" \notin Preparing
          /\ "observe" \in Reserving
      BY SMT DEF Holding, Preparing, Reserving
    <3>4. ScopeShape(r) /\ RegistryShape(r)
      BY <2>0, <2>3, <3>2, <3>3, Zenon DEF ScopeShape, RegistryShape, Planned
    <3> QED
      BY <1>0, <2>0, <3>2, <3>4, Zenon DEF Shapes, Quiet
  <2>4. CASE Goto(r, "fold") /\ grants' = grants /\ inFlight' = inFlight
    <3>1. OnlyEnds(r)
      BY <2>0, <2>4, KeptGrants, Zenon
    <3> QED
      BY <1>0, <2>0, <2>4, <3>1, LegalMoves, MoveStep, Zenon
  <2> QED
    BY <1>5, <2>1, <2>2, <2>3, <2>4, Zenon DEF observeReserve
<1>6. CASE observeZeroed(r)
  <2>0. /\ rq[r].pc = "zeroed" /\ rq[r].pc \in Holding /\ rq[r].pc \in OnGrant
        /\ SetStatus(g, "exhausted") /\ Release(r, "done")
        /\ UNCHANGED <<registered, current, phase, plans, claimed, spent>>
    BY <1>6, LegalFrees, Zenon DEF observeZeroed, OnGrant, Reserving, SetStatus
  <2>1. OnlyEnds(r)
    BY <1>0, <2>0, EndedGrant, Zenon
  <2> QED
    BY <2>0, <2>1, LegalFrees, FreeStep, Zenon
<1>7. CASE foldLoad(r)
  <2> DEFINE local == grants[g].remaining
  <2>0. /\ rq[r].pc = "fold" /\ rq[r].pc \notin Marking /\ rq[r].pc \in Holding
        /\ rq[r].pc \in OnGrant /\ rq[r].pc \notin Preparing
        /\ rq[r].pc \in {"planned"} \cup Reserving
        /\ UNCHANGED <<registered, current, grants, phase, inFlight, plans, claimed, spent>>
    BY <1>7, SMT DEF foldLoad, Marking, Holding, OnGrant, Preparing, Reserving
  <2>1. g \in Gen /\ local \in 0..Cap
    BY <1>0, <2>0, GrantTypes
  <2>2. CASE Goto(r, "folded")
    <3>1. OnlyEnds(r)
      BY <2>0, KeptGrants, Zenon
    <3> QED
      BY <1>0, <2>0, <2>2, <3>1, LegalMoves, MoveStep, Zenon
  <2>3. CASE /\ ~(rq[r].answer.ledger >= local)
             /\ rq' = [rq EXCEPT ![r] = [rq[r] EXCEPT !.pc = "foldCas", !.rem = local]]
    <3> DEFINE R == [rq[r] EXCEPT !.pc = "foldCas", !.rem = local]
    <3>1. /\ "foldCas" \in RequestPC /\ "foldCas" \in Holding
          /\ "foldCas" \notin {"cas", "echoCas"} /\ "foldCas" \notin Preparing
      BY SMT DEF RequestPC, Holding, Preparing, Reserving
    <3>2. R \in Request /\ R.pc = "foldCas" /\ R.grant = g /\ R.rem = local
          /\ R.answer = rq[r].answer
      BY <2>1, <3>1, Zenon DEF TypeOK, Request
    <3>3. rq' = [rq EXCEPT ![r] = R]
      BY <2>3
    <3>4. rq[r].answer.ledger < local
      BY <2>1, <2>3, RequestTypes, SMT
    <3> HIDE DEF R, local
    <3>5. R.answer.ledger < R.rem
      BY <3>2, <3>4, Zenon
    <3>6. /\ Frame(r) /\ SnapshotOf(r)' /\ ScopeShape(r) /\ GrantShape(r) /\ CurrentShape
          /\ rq'[r].pc = "foldCas"
      BY <2>0, <2>1, <3>1, <3>2, <3>3, <3>5, PutStep, Zenon
    <3>7. RegistryShape(r)
      BY <2>0, <3>1, <3>6, Zenon DEF RegistryShape, Planned
    <3> QED
      BY <3>6, <3>7, Zenon DEF Shapes
  <2> QED
    BY <1>7, <2>2, <2>3, Zenon DEF foldLoad
<1>8. CASE foldCas(r)
  <2> DEFINE n == rq[r].answer.ledger
  <2>0. /\ rq[r].pc = "foldCas" /\ rq[r].pc \notin Marking /\ rq[r].pc \in Holding
        /\ rq[r].pc \in OnGrant /\ g \in Gen /\ rq[r].pc \in Reserving
        /\ UNCHANGED <<registered, current, phase, inFlight, plans, claimed, spent>>
    BY <1>0, <1>8, SMT DEF foldCas, Marking, Holding, OnGrant, Reserving
  <2>1. CASE /\ grants[g].remaining = rq[r].rem
             /\ grants' = [grants EXCEPT ![g].remaining = n] /\ Goto(r, "folded")
    <3>1. n \in 0..Cap /\ n <= grants[g].remaining
      BY <2>0, <2>1, RequestTypes, SMT DEF SnapshotOf
    <3>2. Quiet(r) /\ rq'[r].pc = "folded"
      BY <2>0, <2>1, <3>1, LowerShape, Zenon
    <3>3. "folded" \in Holding /\ "folded" \notin Preparing
      BY SMT DEF Holding, Preparing, Reserving
    <3>4. ScopeShape(r) /\ RegistryShape(r)
      BY <2>0, <3>2, <3>3, Zenon DEF ScopeShape, RegistryShape, Planned
    <3> QED
      BY <1>0, <2>0, <3>2, <3>4, Zenon DEF Shapes, Quiet
  <2>2. CASE Goto(r, "fold") /\ grants' = grants
    <3>1. OnlyEnds(r)
      BY <2>0, <2>2, KeptGrants, Zenon
    <3> QED
      BY <1>0, <2>0, <2>2, <3>1, LegalMoves, MoveStep, Zenon
  <2> QED
    BY <1>8, <2>1, <2>2, Zenon DEF foldCas
<1>9. CASE foldDone(r)
  <2>0. /\ rq[r].pc = "folded" /\ rq[r].pc \in Holding /\ rq[r].pc \in OnGrant /\ g \in Gen
        /\ Release(r, "done")
        /\ UNCHANGED <<registered, current, phase, plans, claimed, spent>>
    BY <1>0, <1>9, LegalFrees, Zenon DEF foldDone, OnGrant, Reserving
  <2>1. OnlyEnds(r)
    <3>1. CASE grants[g].remaining = 0
      <4>1. leaveActive(g, "exhausted")
        BY <1>9, <3>1, Zenon DEF foldDone
      <4> QED
        BY <1>0, <2>0, <4>1, EndedGrant, Zenon
    <3>2. CASE grants[g].remaining # 0
      <4>1. grants' = grants
        BY <1>9, <3>2, Zenon DEF foldDone
      <4> QED
        BY <3>2, <4>1, Zenon DEF OnlyEnds, TypeOK
    <3> QED
      BY <3>1, <3>2
  <2> QED
    BY <2>0, <2>1, LegalFrees, FreeStep, Zenon
<1> QED
  BY <1>1, <1>2, <1>3, <1>4, <1>5, <1>6, <1>7, <1>8, <1>9, Zenon DEF Reserve

LEMMA OrdinaryShapes ==
    ASSUME TypeOK, NEW r \in Req, SnapshotOf(r), Planned(r), Ordinary(r)
    PROVE  Shapes(r)
<1> DEFINE g == rq[r].grant
<1>0. /\ current \in 0..MaxGen /\ "exhausted" \in Status \ {"active"}
      /\ "expired" \in Status \ {"active"}
      /\ rq[r].pc \in OnGrant => g \in Gen
      /\ current' = current => current' \in 0..MaxGen /\ CurrentShape
  BY SMT DEF TypeOK, Status, SnapshotOf, CurrentShape
<1>1. CASE BeforeRequest(r)
  <2>0. /\ rq[r].pc = "ordinary" /\ rq[r].pc \notin Marking /\ rq[r].pc \notin Holding
        /\ UNCHANGED <<registered, current, phase, inFlight, plans, claimed, spent>>
    BY <1>1, SMT DEF BeforeRequest, Marking, Holding, Preparing, Reserving
  <2>1. current # NoGrant => current \in Gen
    BY <1>0, SMT DEF NoGrant, Gen
  <2>2. CASE Goto(r, "authorize") /\ grants' = grants
    <3>1. OnlyEnds(r)
      BY <2>0, <2>2, KeptGrants, Zenon
    <3> QED
      BY <1>0, <2>0, <2>2, <3>1, LegalMoves, MoveStep, Zenon
  <2>3. ASSUME NEW s \in {"expired", "exhausted"}, leaveActive(current, s),
               current # NoGrant, Goto(r, "authorize")
        PROVE  Shapes(r)
    <3>1. OnlyEnds(r)
      BY <1>0, <2>0, <2>1, <2>3, EndedGrant, Zenon
    <3> QED
      BY <1>0, <2>0, <2>3, <3>1, LegalMoves, MoveStep, Zenon
  <2>4. CASE /\ current # NoGrant /\ grants' = grants
             /\ rq' = [rq EXCEPT ![r] = [rq[r] EXCEPT !.pc = "echo", !.grant = current]]
    <3> DEFINE R == [rq[r] EXCEPT !.pc = "echo", !.grant = current]
    <3>1. /\ "echo" \in RequestPC /\ "echo" \notin Holding /\ "echo" \notin Preparing
          /\ "echo" \notin {"cas", "echoCas", "foldCas"}
          /\ "echo" \notin {"planned"} \cup Reserving
      BY SMT DEF RequestPC, Holding, Preparing, Reserving
    <3>2. R \in Request /\ R.pc = "echo" /\ R.grant = current
      BY <1>0, <3>1, Zenon DEF TypeOK, Request
    <3>3. rq' = [rq EXCEPT ![r] = R]
      BY <2>4
    <3> HIDE DEF R
    <3>4. /\ Frame(r) /\ SnapshotOf(r)' /\ ScopeShape(r) /\ GrantShape(r) /\ CurrentShape
          /\ rq'[r].pc = "echo"
      BY <2>0, <2>1, <2>4, <3>1, <3>2, <3>3, PutStep, Zenon
    <3>5. RegistryShape(r)
      BY <2>0, <3>1, <3>4, Zenon DEF RegistryShape
    <3> QED
      BY <3>4, <3>5, Zenon DEF Shapes
  <2>5. \/ Goto(r, "authorize") /\ grants' = grants
        \/ leaveActive(current, "expired") /\ current # NoGrant /\ Goto(r, "authorize")
        \/ leaveActive(current, "exhausted") /\ current # NoGrant /\ Goto(r, "authorize")
        \/ /\ current # NoGrant /\ grants' = grants
           /\ rq' = [rq EXCEPT ![r] = [rq[r] EXCEPT !.pc = "echo", !.grant = current]]
    BY <1>1, Zenon DEF BeforeRequest
  <2> QED
    BY <2>2, <2>3, <2>4, <2>5, Zenon
<1>2. CASE echoLoad(r)
  <2> DEFINE left == grants[g].remaining
  <2>0. /\ rq[r].pc = "echo" /\ rq[r].pc \notin Marking /\ rq[r].pc \notin Holding
        /\ rq[r].pc \in OnGrant
        /\ UNCHANGED <<registered, current, phase, inFlight, plans, claimed, spent>>
    BY <1>2, SMT DEF echoLoad, Marking, Holding, Preparing, Reserving, OnGrant
  <2>1. g \in Gen /\ left \in 0..Cap
    BY <1>0, <2>0, GrantTypes
  <2>2. CASE leaveActive(g, "exhausted") /\ Goto(r, "authorize")
    <3>1. OnlyEnds(r)
      BY <1>0, <2>0, <2>1, <2>2, EndedGrant, Zenon
    <3> QED
      BY <1>0, <2>0, <2>2, <3>1, LegalMoves, MoveStep, Zenon
  <2>3. CASE Goto(r, "authorize") /\ grants' = grants
    <3>1. OnlyEnds(r)
      BY <2>0, <2>3, KeptGrants, Zenon
    <3> QED
      BY <1>0, <2>0, <2>3, <3>1, LegalMoves, MoveStep, Zenon
  <2>4. CASE /\ left >= rq[r].est /\ grants' = grants
             /\ rq' = [rq EXCEPT ![r] = [rq[r] EXCEPT !.pc = "echoCas", !.rem = left]]
    <3> DEFINE R == [rq[r] EXCEPT !.pc = "echoCas", !.rem = left]
    <3>1. /\ "echoCas" \in RequestPC /\ "echoCas" \notin Holding /\ "echoCas" # "foldCas"
          /\ "echoCas" \notin {"planned"} \cup Reserving /\ "echoCas" \notin Preparing
      BY SMT DEF RequestPC, Holding, Preparing, Reserving
    <3>2. /\ R \in Request /\ R.pc = "echoCas" /\ R.grant = g /\ R.rem = left
          /\ R.est = rq[r].est
      BY <2>1, <3>1, Zenon DEF TypeOK, Request
    <3>3. rq' = [rq EXCEPT ![r] = R]
      BY <2>4
    <3>4. rq[r].est <= left
      BY <2>1, <2>4, RequestTypes, SMT
    <3> HIDE DEF R, left
    <3>5. R.est <= R.rem
      BY <3>2, <3>4, Zenon
    <3>6. /\ Frame(r) /\ SnapshotOf(r)' /\ ScopeShape(r) /\ GrantShape(r) /\ CurrentShape
          /\ rq'[r].pc = "echoCas"
      BY <2>0, <2>1, <2>4, <3>1, <3>2, <3>3, <3>5, PutStep, Zenon
    <3>7. RegistryShape(r)
      BY <2>0, <3>1, <3>6, Zenon DEF RegistryShape
    <3> QED
      BY <3>6, <3>7, Zenon DEF Shapes
  <2> QED
    BY <1>2, <2>2, <2>3, <2>4, Zenon DEF echoLoad
<1>3. CASE echoCas(r)
  <2> DEFINE next == IF rq[r].rem = rq[r].est THEN "echoMark" ELSE "authorize"
  <2>1. /\ rq[r].pc = "echoCas" /\ decrement(r, next, "echo")
        /\ UNCHANGED <<registered, current, phase, inFlight, plans, claimed>>
    BY <1>3, Zenon DEF echoCas
  <2>2. next \in {"echoMark", "authorize"} /\ (rq[r].rem = rq[r].est => next \in Marking)
    BY Zenon DEF Marking
  <2> HIDE DEF next
  <2> QED
    BY <2>1, <2>2, DecrementStep, Zenon
<1>4. CASE echoMark(r)
  <2>0. /\ rq[r].pc = "echoMark" /\ rq[r].pc \in OnGrant
        /\ leaveActive(g, "exhausted") /\ Goto(r, "authorize")
        /\ UNCHANGED <<registered, current, phase, inFlight, plans, claimed, spent>>
    BY <1>4, Zenon DEF echoMark, OnGrant
  <2>1. OnlyEnds(r)
    BY <1>0, <2>0, EndedGrant, Zenon
  <2> QED
    BY <1>0, <2>0, <2>1, LegalMoves, MoveStep, Zenon
<1>5. CASE authorizeAnswered(r)
  <2>0. /\ rq[r].pc = "authorize" /\ rq[r].pc \notin Marking /\ rq[r].pc \notin Holding
        /\ rq[r].pc \notin Preparing
        /\ UNCHANGED <<registered, current, grants, phase, inFlight, plans, spent>>
    BY <1>5, SMT DEF authorizeAnswered, Marking, Holding, Preparing, Reserving
  <2>1. OnlyEnds(r)
    BY <2>0, KeptGrants, Zenon
  <2>2. CASE Goto(r, "done") /\ claimed' = claimed
    BY <1>0, <2>0, <2>1, <2>2, LegalMoves, MoveStep, Zenon
  <2>3. CASE claimPlan(r) /\ Goto(r, "response") /\ claimed' = claimed \cup {r}
    <3>1. /\ "response" \in RequestPC /\ "response" \notin OnGrant
          /\ "response" \notin Preparing /\ "response" \notin {"planned"} \cup Reserving
          /\ "response" \notin Holding /\ "response" \notin {"cas", "echoCas", "foldCas"}
      BY SMT DEF RequestPC, OnGrant, Preparing, Reserving, Holding
    <3>2. Quiet(r) /\ rq'[r].pc = "response"
      BY <1>0, <2>0, <2>1, <2>3, <3>1, MoveShape, Zenon
    <3>3. ScopeShape(r) /\ RegistryShape(r)
      BY <2>0, <2>3, <3>1, <3>2, Zenon DEF ScopeShape, RegistryShape
    <3> QED
      BY <1>0, <2>0, <3>2, <3>3, Zenon DEF Shapes, Quiet
  <2> QED
    BY <1>5, <2>2, <2>3, Zenon DEF authorizeAnswered
<1>6. CASE authorizeLease(r)
  <2>0. /\ rq[r].pc = "response" /\ rq[r].pc \notin Marking /\ Goto(r, "done") /\ leaseAnswered
        /\ UNCHANGED <<registered, phase, inFlight, plans, claimed, spent>>
    BY <1>6, SMT DEF authorizeLease, Marking
  <2>1. OnlyEnds(r) /\ current' \in 0..MaxGen /\ CurrentShape
    BY <2>0, LeaseShape, Zenon
  <2> QED
    BY <2>0, <2>1, LegalMoves, MoveStep, Zenon
<1> QED
  BY <1>1, <1>2, <1>3, <1>4, <1>5, <1>6, Zenon DEF Ordinary

-----------------------------------------------------------------------------
(* The shapes preserve the invariant.                                      *)

LEMMA ScopesKept ==
    ASSUME TypeOK, ScopesHeld, NEW r \in Req, Frame(r), ScopeShape(r)
    PROVE  ScopesHeld' /\ inFlight' \subseteq {Key[q] : q \in Req}
<1> DEFINE H == {q \in Req : rq[q].pc \in Holding}
           I == {q \in Req : rq'[q].pc \in Holding}
<1>1. inFlight = {Key[q] : q \in H} /\ \A p, q \in H : Key[p] = Key[q] => p = q
  BY Zenon DEF ScopesHeld
<1>2. \A q \in Req \ {r} : (q \in I) <=> (q \in H)
  BY Zenon DEF Frame
<1>3. /\ (r \in I) <=> (rq'[r].pc \in Holding)
      /\ (r \in H) <=> (rq[r].pc \in Holding)
  BY Zenon
<1>4. H \subseteq Req /\ I \subseteq Req
  BY Zenon
<1>5. inFlight' = {Key[q] : q \in I} /\ \A p, q \in I : Key[p] = Key[q] => p = q
  <2> HIDE DEF H, I
  <2>1. CASE ((r \in I) <=> (r \in H)) /\ inFlight' = inFlight
    <3>1. I = H
      BY <1>2, <1>4, <2>1, SMT
    <3> QED
      BY <1>1, <2>1, <3>1, Zenon
  <2>2. CASE r \notin H /\ r \in I /\ Key[r] \notin inFlight /\ inFlight' = inFlight \cup {Key[r]}
    <3>1. I = H \cup {r}
      BY <1>2, <1>4, <2>2, Zenon
    <3> QED
      BY <1>1, <2>2, <3>1, SMT
  <2>3. CASE r \in H /\ r \notin I /\ inFlight' = inFlight \ {Key[r]}
    <3>1. I = H \ {r}
      BY <1>2, <1>4, <2>3, Zenon
    <3> QED
      BY <1>1, <2>3, <3>1, SMT
  <2> QED
    BY <1>3, <2>1, <2>2, <2>3, Zenon DEF ScopeShape
<1>6. ScopesHeld'
  BY <1>5, Zenon DEF ScopesHeld
<1>7. inFlight' \subseteq {Key[q] : q \in Req}
  BY <1>4, <1>5, Zenon
<1> QED
  BY <1>6, <1>7

LEMMA SameKey ==
    \A p, q \in Req : /\ q \in sameKey(p) <=> p \in sameKey(q)
                      /\ q \in sameKey(p) => Owner[p] = Owner[q]
                      /\ p \in sameKey(p)
BY Zenon DEF sameKey

LEMMA RegistryKept ==
    ASSUME TypeOK, Registry, OneDispatch, NEW r \in Req, Frame(r), RegistryShape(r)
    PROVE  Registry' /\ OneDispatch' /\ plans' \subseteq Req /\ claimed' \subseteq Req
<1> DEFINE used == plans \cup claimed
           P(q) == rq[q].pc \in Preparing
           Q(q) == rq'[q].pc \in Preparing
<1>1. plans \subseteq Req /\ claimed \subseteq Req
  BY Zenon DEF TypeOK
<1>2. /\ \A q \in Req : P(q) => \A p \in sameKey(q) : p \notin plans /\ p \notin claimed
      /\ \A p, q \in Req : P(p) /\ P(q) /\ Owner[p] = Owner[q] => p = q
  BY Zenon DEF Registry
<1>3. /\ \A p, q \in claimed : q \in sameKey(p) => q = p
      /\ \A p \in plans : \A q \in sameKey(p) : q \in plans \/ q \in claimed => q = p
  BY Zenon DEF OneDispatch
<1>4. \A q \in Req \ {r} : Q(q) <=> P(q)
  BY Zenon DEF Frame
<1>5. Q(r) => \/ P(r)
              \/ /\ \A q \in Req \ {r} : Owner[q] = Owner[r] => ~P(q)
                 /\ \A p \in sameKey(r) : p \notin plans /\ p \notin claimed
  BY Zenon DEF RegistryShape, ownerFree
<1>6. \A p, q \in Req : Q(p) /\ Q(q) /\ Owner[p] = Owner[q] => p = q
  <2> HIDE DEF P, Q
  <2> QED
    BY <1>2, <1>4, <1>5, SMT
<1>7. \A q \in Req : rq'[q].pc \in {"planned"} \cup Reserving => q \in plans'
  <2>1. plans \subseteq plans'
    BY Zenon DEF RegistryShape
  <2>2. rq'[r].pc \in {"planned"} \cup Reserving => r \in plans'
    BY Zenon DEF RegistryShape
  <2>3. \A q \in Req \ {r} : rq'[q] = rq[q]
    BY Zenon DEF Frame
  <2>4. \A q \in Req : rq[q].pc \in {"planned"} \cup Reserving => q \in plans
    BY Zenon DEF Registry
  <2> QED
    BY <2>1, <2>2, <2>3, <2>4, SMT
<1>8. /\ \A q \in Req : Q(q) => \A p \in sameKey(q) : p \notin plans' /\ p \notin claimed'
      /\ \A p, q \in claimed' : q \in sameKey(p) => q = p
      /\ \A p \in plans' : \A q \in sameKey(p) : q \in plans' \/ q \in claimed' => q = p
      /\ plans' \subseteq Req /\ claimed' \subseteq Req
  <2>1. CASE plans' = plans /\ claimed' = claimed
    <3>1. \A q \in Req : Q(q) => \A p \in sameKey(q) : p \notin plans /\ p \notin claimed
      <4> HIDE DEF P, Q
      <4> QED
        BY <1>2, <1>4, <1>5, SMT
    <3> QED
      BY <1>1, <1>3, <2>1, <3>1, Zenon
  <2>2. CASE plans' = plans \cup {r} /\ claimed' = claimed /\ P(r) /\ ~Q(r)
    <3>1. \A q \in Req : Q(q) => \A p \in sameKey(q) : p \notin plans' /\ p \notin claimed'
      <4> SUFFICES ASSUME NEW q \in Req, Q(q), NEW p \in sameKey(q)
                   PROVE  p \notin plans' /\ p \notin claimed'
        BY Zenon
      <4>1. P(q) /\ q # r
        BY <1>4, <2>2, Zenon
      <4>a. r \in sameKey(q) => Owner[q] = Owner[r]
        BY SameKey, Zenon
      <4>2. p # r
        BY <1>2, <2>2, <4>1, <4>a, Zenon
      <4> QED
        BY <1>2, <2>2, <4>1, <4>2, Zenon
    <3>2. \A p \in sameKey(r) : p \notin plans /\ p \notin claimed
      BY <1>2, <2>2, Zenon
    <3>3. \A p \in plans' : \A q \in sameKey(p) : q \in plans' \/ q \in claimed' => q = p
      <4> HIDE DEF P, Q
      <4> SUFFICES ASSUME NEW p \in plans', NEW q \in sameKey(p), q \in plans' \/ q \in claimed',
                          q # p
                   PROVE  FALSE
        BY Zenon
      <4>1. p \in Req /\ q \in Req
        BY <1>1, <2>2, SMT DEF sameKey
      <4>2. p = r => q \in plans \/ q \in claimed
        BY <2>2, SMT
      <4>3. p # r
        BY <3>2, <4>2, Zenon
      <4>4. p \in plans
        BY <2>2, <4>3, SMT
      <4>5. q # r
        BY <3>2, <4>1, <4>4, SameKey, Zenon
      <4> QED
        BY <1>3, <2>2, <4>4, <4>5, SMT
    <3> QED
      BY <1>1, <1>3, <2>2, <3>1, <3>3, SMT
  <2>3. CASE plans' = plans /\ claimed' = claimed \cup {r} /\ claimPlan(r) /\ ~P(r) /\ ~Q(r)
    <3>1. /\ \A q \in Req \ {r} : Owner[q] = Owner[r] => ~P(q)
          /\ r \in plans \/ \A p \in sameKey(r) : p \notin plans
          /\ \A p \in sameKey(r) : p \notin claimed
      BY <2>3, Zenon DEF claimPlan, ownerFree
    <3>2. \A q \in Req : Q(q) => \A p \in sameKey(q) : p \notin plans' /\ p \notin claimed'
      <4> SUFFICES ASSUME NEW q \in Req, Q(q), NEW p \in sameKey(q)
                   PROVE  p \notin plans' /\ p \notin claimed'
        BY Zenon
      <4>1. P(q) /\ q # r
        BY <1>4, <2>3, Zenon
      <4>a. r \in sameKey(q) => Owner[q] = Owner[r]
        BY SameKey, Zenon
      <4>2. p # r
        BY <3>1, <4>1, <4>a, Zenon
      <4> QED
        BY <1>2, <2>3, <4>1, <4>2, Zenon
    <3>3. \A p, q \in claimed' : q \in sameKey(p) => q = p
      <4> SUFFICES ASSUME NEW p \in claimed', NEW q \in claimed', q \in sameKey(p), q # p
                   PROVE  FALSE
        BY Zenon
      <4>1. p \in Req /\ q \in Req /\ (p # r => p \in claimed) /\ (q # r => q \in claimed)
        BY <1>1, <2>3, Zenon
      <4>2. p # r
        BY <3>1, <4>1, Zenon
      <4>3. q # r
        BY <3>1, <4>1, <4>2, SameKey, Zenon
      <4> QED
        BY <1>3, <4>1, <4>2, <4>3, Zenon
    <3>4. \A p \in plans' : \A q \in sameKey(p) : q \in plans' \/ q \in claimed' => q = p
      <4> SUFFICES ASSUME NEW p \in plans, NEW q \in sameKey(p), q \in plans \/ q \in claimed \/ q = r
                   PROVE  q = p
        BY <2>3, Zenon
      <4>1. CASE q \in plans \/ q \in claimed
        BY <1>3, <4>1, Zenon
      <4>2. CASE q = r
        BY <1>1, <1>3, <3>1, <4>2, SameKey, Zenon
      <4> QED
        BY <4>1, <4>2
    <3>5. plans' \subseteq Req /\ claimed' \subseteq Req
      BY <1>1, <2>3, SMT
    <3> QED
      BY <3>2, <3>3, <3>4, <3>5, Zenon
  <2> QED
    BY <2>1, <2>2, <2>3, Zenon DEF RegistryShape
<1>9. \A q \in Req : Q(q) => sameKey(q) \cap (plans' \cup claimed') = {}
  <2> HIDE DEF Q
  <2> QED
    BY <1>8, Zenon
<1>10. Registry'
  BY <1>6, <1>7, <1>9, Zenon DEF Registry, sameKey
<1>11. OneDispatch'
  BY <1>8, Zenon DEF OneDispatch, sameKey
<1> QED
  BY <1>8, <1>10, <1>11

LEMMA GrantsKept ==
    ASSUME TypeOK, UpperBound, ExhaustionMarked, NEW r \in Req, Frame(r), GrantShape(r)
    PROVE  UpperBound' /\ ExhaustionMarked'
<1>1. UpperBound'
  <2> SUFFICES ASSUME NEW g \in Gen
               PROVE  spent'[g] + grants'[g].remaining <= Cap
    BY Zenon DEF UpperBound
  <2>1. /\ spent[g] + grants[g].remaining <= Cap
        /\ spent'[g] + grants'[g].remaining <= spent[g] + grants[g].remaining
    BY Zenon DEF UpperBound, GrantShape
  <2>2. grants[g].remaining \in 0..Cap /\ spent[g] \in Nat
    BY GrantTypes
  <2>3. grants'[g].remaining \in 0..Cap /\ spent'[g] \in Nat
    BY Zenon DEF Frame, Grant
  <2> QED
    BY <2>1, <2>2, <2>3, SMT
<1>2. ExhaustionMarked'
  <2> SUFFICES ASSUME NEW g \in Gen, grants'[g].remaining = 0, grants'[g].status = "active"
               PROVE  \E q \in Req : rq'[q].grant = g /\ rq'[q].pc \in Marking
    BY Zenon DEF ExhaustionMarked, Marking
  <2>1. \/ grants[g].remaining = 0 /\ ~(rq[r].pc \in Marking /\ rq[r].grant = g)
        \/ rq'[r].pc \in Marking /\ rq'[r].grant = g
    BY Zenon DEF GrantShape
  <2>2. grants[g].status = "active"
    BY Zenon DEF GrantShape
  <2>3. CASE grants[g].remaining = 0 /\ ~(rq[r].pc \in Marking /\ rq[r].grant = g)
    <3>1. PICK q \in Req : rq[q].grant = g /\ rq[q].pc \in Marking
      BY <2>2, <2>3, Zenon DEF ExhaustionMarked, Marking
    <3> QED
      BY <2>3, <3>1, Zenon DEF Frame
  <2> QED
    BY <2>1, <2>3, Zenon
<1> QED
  BY <1>1, <1>2

-----------------------------------------------------------------------------
LEMMA StepShapes ==
    ASSUME IInv, NEW r \in Req, Step(r)
    PROVE  Shapes(r)
<1>1. TypeOK /\ SnapshotOf(r) /\ Planned(r)
  BY Zenon DEF IInv, Snapshots, Registry, Planned
<1> QED
  BY <1>1, AdmitShapes, ReserveShapes, OrdinaryShapes, Zenon DEF Step

LEMMA ShapesKeep ==
    ASSUME IInv, NEW r \in Req, Shapes(r)
    PROVE  IInv'
<1>1. /\ TypeOK /\ Snapshots /\ UpperBound /\ ScopesHeld /\ Registry /\ OneDispatch
      /\ ExhaustionMarked
  BY Zenon DEF IInv
<1>2. /\ Frame(r) /\ SnapshotOf(r)' /\ ScopeShape(r) /\ RegistryShape(r) /\ GrantShape(r)
  BY Zenon DEF Shapes
<1>3. ScopesHeld' /\ inFlight' \subseteq {Key[q] : q \in Req}
  BY <1>1, <1>2, ScopesKept, Zenon
<1>4. Registry' /\ OneDispatch' /\ plans' \subseteq Req /\ claimed' \subseteq Req
  BY <1>1, <1>2, RegistryKept, Zenon
<1>5. UpperBound' /\ ExhaustionMarked'
  BY <1>1, <1>2, GrantsKept, Zenon
<1>6. Snapshots'
  <2> SUFFICES ASSUME NEW q \in Req PROVE SnapshotOf(q)'
    BY Zenon DEF Snapshots
  <2>1. CASE q = r
    BY <1>2, <2>1
  <2>2. CASE q # r
    <3>1. rq'[q] = rq[q] /\ SnapshotOf(q)
      BY <1>1, <1>2, <2>2, Zenon DEF Frame, Snapshots
    <3> QED
      BY <3>1, Zenon DEF SnapshotOf
  <2> QED
    BY <2>1, <2>2
<1>7. TypeOK'
  BY <1>2, <1>3, <1>4, Zenon DEF Frame, TypeOK
<1> QED
  BY <1>3, <1>4, <1>5, <1>6, <1>7, Zenon DEF IInv

LEMMA InitInvariant == Init => IInv
<1> SUFFICES ASSUME Init PROVE IInv
  OBVIOUS
<1>1. /\ \A g \in Gen : grants[g] = [remaining |-> Cap, status |-> "active"]
      /\ grants = [g \in Gen |-> [remaining |-> Cap, status |-> "active"]]
      /\ \A g \in Gen : spent[g] = 0
      /\ spent = [g \in Gen |-> 0] /\ phase = [g \in Gen |-> "fresh"]
  BY Zenon DEF Init
<1>2. /\ 0 \in Nat /\ 0 \in 0..Cap /\ Cap \in 0..Cap /\ 0 \in 0..MaxGen /\ Cap # 0
      /\ 0 + Cap <= Cap
  BY SMT
<1>3. "active" \in Status /\ "fresh" \in Phase /\ "new" \in RequestPC
  BY SMT DEF Status, Phase, RequestPC
<1>a. NoAnswer \in Answer
  BY <1>2, Zenon DEF NoAnswer, Answer
<1>4. [remaining |-> Cap, status |-> "active"] \in Grant
  BY <1>2, <1>3, Zenon DEF Grant
<1>5. \A e \in Estimates : [pc |-> "new", grant |-> NoGrant, rem |-> 0, est |-> e,
                            answer |-> NoAnswer] \in Request
  BY <1>2, <1>3, <1>a, Zenon DEF Request, NoGrant
<1>6. \A r \in Req : rq[r].pc = "new"
  <2> SUFFICES ASSUME NEW r \in Req PROVE rq[r].pc = "new"
    BY Zenon
  <2>1. PICK e \in Estimates : rq[r] = [pc |-> "new", grant |-> NoGrant, rem |-> 0, est |-> e,
                                        answer |-> NoAnswer]
    BY Zenon DEF Init
  <2> QED
    BY <2>1
<1>7. rq \in [Req -> Request]
  <2> DEFINE S == {[pc |-> "new", grant |-> NoGrant, rem |-> 0, est |-> e,
                    answer |-> NoAnswer] : e \in Estimates}
  <2>1. S \subseteq Request
    BY <1>5, Zenon
  <2>2. rq \in [Req -> S]
    BY Zenon DEF Init
  <2> HIDE DEF S
  <2> QED
    BY <2>1, <2>2, Zenon
<1>8. registered \in BOOLEAN /\ current \in 0..MaxGen
  BY <1>2, SMT DEF Init, NoGrant
<1>9. TypeOK
  <2>1. grants \in [Gen -> Grant] /\ phase \in [Gen -> Phase] /\ spent \in [Gen -> Nat]
    BY <1>1, <1>2, <1>3, <1>4, Zenon
  <2>2. inFlight = {} /\ plans = {} /\ claimed = {}
    BY Zenon DEF Init
  <2> QED
    BY <1>7, <1>8, <2>1, <2>2, Zenon DEF TypeOK
<1>10. /\ "new" \notin OnGrant /\ "new" \notin Preparing /\ "new" \notin Holding
       /\ "new" \notin {"planned"} \cup Reserving
       /\ "new" \notin {"cas", "echoCas", "foldCas"}
  BY SMT DEF OnGrant, Preparing, Holding, Reserving
<1>11. Snapshots
  BY <1>6, <1>10, Zenon DEF Snapshots, SnapshotOf
<1>12. UpperBound /\ ExhaustionMarked
  <2>1. \A g \in Gen : grants[g].remaining = Cap /\ spent[g] = 0
    BY <1>1, Zenon
  <2> QED
    BY <1>2, <2>1, Zenon DEF UpperBound, ExhaustionMarked
<1>13. ScopesHeld
  <2>1. {r \in Req : rq[r].pc \in Holding} = {}
    BY <1>6, <1>10, Zenon
  <2> QED
    BY <2>1, Zenon DEF ScopesHeld, Init
<1>14. Registry /\ OneDispatch
  BY <1>6, <1>10, Zenon DEF Registry, OneDispatch, Init
<1> QED
  BY <1>9, <1>11, <1>12, <1>13, <1>14, Zenon DEF IInv

LEMMA StepInvariant == IInv /\ [Next]_vars => IInv'
<1> SUFFICES ASSUME IInv, [Next]_vars PROVE IInv'
  OBVIOUS
<1> DEFINE V == <<current, grants, inFlight, plans, claimed, rq, spent>>
<1>1. ASSUME UNCHANGED V, registered' \in BOOLEAN, phase' \in [Gen -> Phase]
      PROVE  IInv'
  BY <1>1, Zenon DEF IInv, TypeOK, Snapshots, SnapshotOf, UpperBound, ScopesHeld, Registry,
                     OneDispatch, ExhaustionMarked, sameKey
<1>2. TypeOK
  BY Zenon DEF IInv
<1>3. CASE Register
  BY <1>1, <1>2, <1>3, Zenon DEF Register, TypeOK
<1>4. ASSUME NEW g \in Gen, TimePasses(g)
      PROVE  IInv'
  <2>1. "closed" \in Phase /\ "dead" \in Phase
    BY Zenon DEF Phase
  <2>2. registered' \in BOOLEAN /\ phase' \in [Gen -> Phase] /\ UNCHANGED V
    BY <1>2, <1>4, <2>1, Zenon DEF TimePasses, TypeOK
  <2> QED
    BY <1>1, <2>2, Zenon
<1>5. ASSUME NEW r \in Req, Step(r)
      PROVE  IInv'
  BY <1>5, StepShapes, ShapesKeep, Zenon
<1>6. CASE UNCHANGED vars
  BY <1>1, <1>2, <1>6, Zenon DEF vars, TypeOK
<1> QED
  BY <1>3, <1>4, <1>5, <1>6, Zenon DEF Next, Finished

(* The inductive invariant holds in every reachable state.                 *)
THEOREM LeaseInvariance == Spec => []IInv
BY InitInvariant, StepInvariant, PTL DEF Spec

(* Every variable of the spend-lease state stays in its type, however the  *)
(* requests interleave: no remaining amount goes below zero or above the   *)
(* cap.                                                                    *)
THEOREM LeaseTypeCorrect == Spec => []TypeOK
<1>1. IInv => TypeOK
  BY Zenon DEF IInv
<1> QED
  BY <1>1, LeaseInvariance, PTL

(* Whatever the number of requests and their estimates, TryAdmit,          *)
(* BeforeRequest and ObserveReserve never admit more than CapMicro on one  *)
(* grant.                                                                  *)
THEOREM UpperBoundAlways == Spec => []UpperBound
<1>1. IInv => UpperBound
  BY Zenon DEF IInv
<1> QED
  BY <1>1, LeaseInvariance, PTL

(* claimScope and releaseScope keep the scopes in flight exact: each is    *)
(* held by one request, and none is leaked.                                *)
THEOREM ScopesAlwaysHeld == Spec => []ScopesHeld
<1>1. IInv => ScopesHeld
  BY Zenon DEF IInv
<1> QED
  BY <1>1, LeaseInvariance, PTL

(* An invocation dispatches an idempotency key at most once, and a planned *)
(* key only through its plan (claimPlan, enterReserve, Prepare).           *)
THEOREM OneDispatchAlways == Spec => []OneDispatch
<1>1. IInv => OneDispatch
  BY Zenon DEF IInv
<1> QED
  BY <1>1, LeaseInvariance, PTL

(* An empty grant is never left active without a request about to mark it. *)
THEOREM ExhaustionAlwaysMarked == Spec => []ExhaustionMarked
<1>1. IInv => ExhaustionMarked
  BY Zenon DEF IInv
<1> QED
  BY <1>1, LeaseInvariance, PTL

(* What a step may do to a grant: TimePasses and Register do nothing.      *)
LEMMA StepEffects ==
    ASSUME IInv, [Next]_vars
    PROVE  \/ UNCHANGED <<grants, current>>
           \/ \E r \in Req : Shapes(r)
<1>1. ASSUME NEW r \in Req, Step(r) PROVE Shapes(r)
  BY <1>1, StepShapes, Zenon
<1> QED
  BY <1>1, Zenon DEF Next, Register, TimePasses, Finished, vars

(* No step raises what is left on a grant or makes an ended grant active   *)
(* again, in particular no ObserveReserve whose answer comes late.         *)
THEOREM NeverRaisedAlways == Spec => NeverRaised
<1> DEFINE A == \A g \in Gen : /\ grants'[g].remaining <= grants[g].remaining
                               /\ grants[g].status # "active" => grants'[g].status # "active"
<1>1. IInv /\ [Next]_vars => [A]_vars
  <2> SUFFICES ASSUME IInv, [Next]_vars PROVE A
    BY Zenon
  <2>1. CASE UNCHANGED <<grants, current>>
    <3> SUFFICES ASSUME NEW g \in Gen
                 PROVE  grants'[g].remaining <= grants[g].remaining /\ grants'[g] = grants[g]
      BY Zenon
    <3>1. grants[g].remaining \in 0..Cap
      BY GrantTypes, Zenon DEF IInv
    <3> QED
      BY <2>1, <3>1, SMT
  <2>2. ASSUME NEW r \in Req, Shapes(r) PROVE A
    BY <2>2, Zenon DEF Shapes, GrantShape
  <2> QED
    BY <2>1, <2>2, StepEffects, Zenon
<1> QED
  BY <1>1, LeaseInvariance, PTL DEF Spec, NeverRaised
=============================================================================
