------------------------ MODULE SpendLeaseGrantProofs ------------------------
(***************************************************************************)
(* Which grant a step may touch.  A request that holds a pointer to a      *)
(* grant holds one that is or was current, so nothing reaches a generation *)
(* that is still to come; and only an answer to a receipt of a grant       *)
(* disables it or takes from it more than was spent.                       *)
(***************************************************************************)
EXTENDS SpendLeaseProofs

USE GenAssumption, CapAssumption, EstimateAssumption, AuthAssumption,
    AdmissionAssumption

(* Program counters before the router's answer is stored.                  *)
Unanswered == Preparing \cup {"new", "planned", "reserve", "ordinary", "echo", "echoCas", "echoMark"}

AnsweredOf(r) ==
    /\ rq[r].pc \in Unanswered => rq[r].answer.kind = "none"
    /\ rq[r].pc = "zeroed" => rq[r].answer.kind = "capacity"
    /\ rq[r].pc \in {"fold", "foldCas", "folded"} => rq[r].answer.kind = "accepted"

(* The grant a request points at is not ahead of the slot.                 *)
BehindOf(r) == rq[r].pc \in OnGrant => rq[r].grant <= current

GInv == /\ \A r \in Req : AnsweredOf(r) /\ BehindOf(r)
        /\ NewerUntouched /\ OwnAnswers

-----------------------------------------------------------------------------
(* What a step of r may do to the grants, and to its own record.           *)
Touched(r, g) == g = current \/ (rq[r].pc \in OnGrant /\ g = rq[r].grant)

GrantTrace(r) ==
    \A g \in Gen :
       /\ Touched(r, g) \/ (grants'[g] = grants[g] /\ spent'[g] = spent[g])
       /\ grants'[g].status = "disabled" =>
            \/ grants[g].status = "disabled"
            \/ rq'[r].grant = g /\ rq'[r].answer.kind \in {"unmarked", "stop"}
       /\ \/ spent'[g] + grants'[g].remaining = spent[g] + grants[g].remaining
          \/ rq'[r].grant = g /\ rq'[r].answer.kind \in {"capacity", "accepted"}

RecordTrace(r) ==
    /\ rq'[r].pc \in OnGrant => \/ rq[r].pc \in OnGrant /\ rq'[r].grant = rq[r].grant
                                \/ rq'[r].grant = current
    /\ rq[r].answer.kind # "none" => rq'[r].grant = rq[r].grant /\ rq'[r].answer = rq[r].answer
    /\ AnsweredOf(r)'

Trace(r) == GrantTrace(r) /\ RecordTrace(r)

LEMMA KeptTrace ==
    ASSUME NEW r \in Req, grants' = grants, spent' = spent
    PROVE  GrantTrace(r)
BY Zenon DEF GrantTrace

(* Ending a grant, other than disabling it.                                *)
LEMMA EndTrace ==
    ASSUME TypeOK, NEW r \in Req, NEW g \in Gen, Touched(r, g),
           NEW s \in Status \ {"active", "disabled"},
           leaveActive(g, s) \/ SetStatus(g, s), spent' = spent
    PROVE  GrantTrace(r)
<1>1. PICK t \in Status : SetStatus(g, t) /\ (t = "disabled" => grants[g].status = "disabled")
  <2>1. CASE SetStatus(g, s)
    BY <2>1
  <2>2. CASE leaveActive(g, s)
    <3> DEFINE t == IF grants[g].status = "active" THEN s ELSE grants[g].status
    <3>1. SetStatus(g, t) /\ t \in Status /\ (t = "disabled" => grants[g].status = "disabled")
      BY <2>2, Zenon DEF leaveActive, SetStatus, TypeOK, Grant
    <3> QED
      BY <3>1, Zenon
  <2> QED
    BY <2>1, <2>2
<1>2. /\ grants'[g].status = t
      /\ \A h \in Gen : grants'[h].remaining = grants[h].remaining
      /\ \A h \in Gen \ {g} : grants'[h] = grants[h]
  BY <1>1, StatusSet, Zenon
<1> QED
  BY <1>1, <1>2, Zenon DEF GrantTrace

(* Disabling the grant of the answer's own receipt.                        *)
LEMMA DisableTrace ==
    ASSUME TypeOK, NEW r \in Req, NEW g \in Gen, Touched(r, g),
           SetStatus(g, "disabled"), spent' = spent,
           rq'[r].grant = g, rq'[r].answer.kind \in {"unmarked", "stop"}
    PROVE  GrantTrace(r)
<1>1. "disabled" \in Status
  BY Zenon DEF Status
<1>2. /\ \A h \in Gen : grants'[h].remaining = grants[h].remaining
      /\ \A h \in Gen \ {g} : grants'[h] = grants[h]
  BY <1>1, StatusSet, Zenon
<1> QED
  BY <1>2, Zenon DEF GrantTrace

(* Lowering it to what the ledger has left.                                *)
LEMMA LowerTrace ==
    ASSUME TypeOK, NEW r \in Req, NEW g \in Gen, Touched(r, g), NEW n \in 0..Cap,
           grants' = [grants EXCEPT ![g].remaining = n], spent' = spent,
           rq'[r].grant = g, rq'[r].answer.kind \in {"capacity", "accepted"}
    PROVE  GrantTrace(r)
<1>1. /\ \A h \in Gen : grants'[h].status = grants[h].status
      /\ \A h \in Gen \ {g} : grants'[h] = grants[h]
  BY RemainingSet, Zenon
<1> QED
  BY <1>1, Zenon DEF GrantTrace

(* Moves of a request that keep its grant and its answer.                  *)
LEMMA MoveTrace ==
    ASSUME TypeOK, NEW r \in Req, AnsweredOf(r), NEW p \in RequestPC, Goto(r, p),
           p \in OnGrant => rq[r].pc \in OnGrant,
           p \in Unanswered => rq[r].pc \in Unanswered,
           p = "zeroed" => rq[r].answer.kind = "capacity",
           p \in {"fold", "foldCas", "folded"} => rq[r].answer.kind = "accepted"
    PROVE  RecordTrace(r) /\ rq'[r].grant = rq[r].grant /\ rq'[r].answer = rq[r].answer
<1>1. rq'[r].pc = p /\ rq'[r].grant = rq[r].grant /\ rq'[r].answer = rq[r].answer
  BY Moved, Zenon
<1> QED
  BY <1>1, Zenon DEF RecordTrace, AnsweredOf

(* A step that stores something else in the record.                        *)
LEMMA PutTrace ==
    ASSUME TypeOK, NEW r \in Req, NEW R \in Request, rq' = [rq EXCEPT ![r] = R],
           R.pc \in OnGrant => (rq[r].pc \in OnGrant /\ R.grant = rq[r].grant) \/ R.grant = current,
           rq[r].answer.kind # "none" => R.grant = rq[r].grant /\ R.answer = rq[r].answer,
           R.pc \in Unanswered => R.answer.kind = "none",
           R.pc # "zeroed",
           R.pc \in {"fold", "foldCas", "folded"} => R.answer.kind = "accepted"
    PROVE  RecordTrace(r)
<1>1. rq'[r] = R
  BY RecordSet, Zenon
<1> QED
  BY <1>1, Zenon DEF RecordTrace, AnsweredOf

(* Whatever a response carries, it touches the current grant only.         *)
LEMMA LeaseTrace ==
    ASSUME TypeOK, NEW r \in Req, leaseAnswered, spent' = spent
    PROVE  GrantTrace(r)
<1>1. CASE noLease
  BY <1>1, KeptTrace, Zenon DEF noLease
<1>2. ASSUME NEW g \in Gen, NEW s \in {"active", "terminal", "expired"}, handleResponse(g, s)
      PROVE  GrantTrace(r)
  <2>0. {"terminal", "expired"} \subseteq Status \ {"active", "disabled"}
    BY SMT DEF Status
  <2>1. CASE s \in {"terminal", "expired"} /\ g = current /\ SetStatus(g, s)
    BY <2>0, <2>1, EndTrace, Zenon DEF Touched
  <2>2. CASE grants' = grants
    BY <2>2, KeptTrace, Zenon
  <2>3. CASE current # NoGrant /\ leaveActive(current, "expired")
    <3>1. current \in Gen
      BY <2>3, SMT DEF TypeOK, NoGrant, Gen
    <3> QED
      BY <2>0, <2>3, <3>1, EndTrace, Zenon DEF Touched
  <2> QED
    BY <1>2, <2>1, <2>2, <2>3, Zenon DEF handleResponse, SetStatus
<1> QED
  BY <1>1, <1>2, Zenon DEF leaseAnswered

-----------------------------------------------------------------------------
(* Where the program counters of the steps below stand.                    *)
LEMMA Places ==
    /\ {"check", "status", "load", "cas", "mark", "sign", "planned", "reserve", "lease",
        "observe", "zeroed", "fold", "foldCas", "folded", "echo", "echoCas", "echoMark"}
          \subseteq OnGrant
    /\ {"new", "check", "status", "load", "cas", "mark", "sign", "planned", "reserve",
        "ordinary", "echo", "echoCas", "echoMark"} \subseteq Unanswered
    /\ {"lease", "observe", "zeroed", "fold", "foldCas", "folded", "authorize", "response",
        "done"} \cap Unanswered = {}
    /\ {"new", "ordinary", "authorize", "response", "done"} \cap OnGrant = {}
    /\ OnGrant \subseteq RequestPC /\ Unanswered \subseteq RequestPC
    /\ {"authorize", "response", "done"} \subseteq RequestPC
    /\ {"exhausted", "expired"} \subseteq Status \ {"active", "disabled"}
<1> USE DEF OnGrant, Unanswered, Preparing, Reserving, RequestPC, Status
<1>1. {"check", "status", "load", "cas", "mark", "sign", "planned", "reserve", "lease",
        "observe", "zeroed", "fold", "foldCas", "folded", "echo", "echoCas", "echoMark"}
          \subseteq OnGrant
  BY SMT
<1>2. {"new", "check", "status", "load", "cas", "mark", "sign", "planned", "reserve",
        "ordinary", "echo", "echoCas", "echoMark"} \subseteq Unanswered
  BY SMT
<1>3. {"lease", "observe", "zeroed", "fold", "foldCas", "folded", "authorize", "response",
        "done"} \cap Unanswered = {}
  BY SMT
<1>4. {"new", "ordinary", "authorize", "response", "done"} \cap OnGrant = {}
  BY SMT
<1>5. OnGrant \subseteq RequestPC /\ Unanswered \subseteq RequestPC
  BY SMT
<1>6. {"authorize", "response", "done"} \subseteq RequestPC
  BY SMT
<1>7. {"exhausted", "expired"} \subseteq Status \ {"active", "disabled"}
  BY SMT
<1> QED
  BY <1>1, <1>2, <1>3, <1>4, <1>5, <1>6, <1>7

(* The two decrements move the estimate from what is left to what is       *)
(* spent.                                                                  *)
LEMMA DecrementTrace ==
    ASSUME TypeOK, NEW r \in Req, SnapshotOf(r), AnsweredOf(r),
           rq[r].pc \in {"cas", "echoCas"},
           NEW next \in {"mark", "sign", "echoMark", "authorize"},
           NEW again \in {"status", "echo"}, decrement(r, next, again)
    PROVE  Trace(r)
<1> DEFINE g == rq[r].grant
           n == rq[r].rem - rq[r].est
<1>0. rq[r].pc \in OnGrant /\ rq[r].pc \in Unanswered
  BY Places, SMT
<1>1. g \in Gen /\ rq[r].est <= rq[r].rem /\ rq[r].rem \in 0..Cap /\ rq[r].est \in Nat
  BY <1>0, RequestTypes, Zenon DEF SnapshotOf
<1>2. n \in 0..Cap
  BY <1>1, SMT
<1>3. ASSUME NEW p \in {next, again}, Goto(r, p) PROVE RecordTrace(r)
  <2>1. /\ p \in RequestPC
        /\ p # "zeroed" /\ p \notin {"fold", "foldCas", "folded"}
    BY Places, SMT
  <2> QED
    BY <1>0, <1>3, <2>1, MoveTrace, Zenon
<1>4. CASE grants[g].remaining = rq[r].rem
  <2>1. /\ grants' = [grants EXCEPT ![g].remaining = n]
        /\ spent' = [spent EXCEPT ![g] = spent[g] + rq[r].est]
        /\ Goto(r, next)
    BY <1>4, Zenon DEF decrement
  <2> HIDE DEF n, g
  <2>2. /\ grants'[g].remaining = n
        /\ \A h \in Gen : grants'[h].status = grants[h].status
        /\ \A h \in Gen \ {g} : grants'[h] = grants[h]
    BY <1>1, <1>2, <2>1, RemainingSet, Zenon
  <2>3. spent'[g] = spent[g] + rq[r].est /\ \A h \in Gen \ {g} : spent'[h] = spent[h]
    BY <1>1, <2>1, Zenon DEF TypeOK
  <2>4. spent[g] \in Nat /\ grants[g].remaining \in 0..Cap
    BY <1>1, GrantTypes, Zenon
  <2>5. spent'[g] + grants'[g].remaining = spent[g] + grants[g].remaining
    BY <1>1, <1>4, <2>2, <2>3, <2>4, SMT DEF n
  <2>6. Touched(r, g)
    BY <1>0, Zenon DEF Touched, g
  <2>7. GrantTrace(r)
    <3> SUFFICES ASSUME NEW h \in Gen
                 PROVE  /\ Touched(r, h) \/ (grants'[h] = grants[h] /\ spent'[h] = spent[h])
                        /\ grants'[h].status = "disabled" => grants[h].status = "disabled"
                        /\ spent'[h] + grants'[h].remaining = spent[h] + grants[h].remaining
      BY Zenon DEF GrantTrace
    <3>1. CASE h = g
      BY <2>2, <2>5, <2>6, <3>1, Zenon
    <3>2. CASE h # g
      BY <2>2, <2>3, <3>2, Zenon
    <3> QED
      BY <3>1, <3>2
  <2> QED
    BY <1>3, <2>1, <2>7, Zenon DEF Trace
<1>5. CASE grants[g].remaining # rq[r].rem
  <2>1. Goto(r, again) /\ grants' = grants /\ spent' = spent
    BY <1>5, Zenon DEF decrement
  <2> QED
    BY <1>3, <2>1, KeptTrace, Zenon DEF Trace
<1> QED
  BY <1>4, <1>5

LEMMA AdmitTrace ==
    ASSUME TypeOK, NEW r \in Req, SnapshotOf(r), AnsweredOf(r), Admit(r)
    PROVE  Trace(r)
<1> DEFINE g == rq[r].grant
<1>0. /\ rq[r].pc \in OnGrant => g \in Gen
      /\ rq[r].pc \in OnGrant => Touched(r, g)
  BY Zenon DEF SnapshotOf, Touched
<1>a. ASSUME NEW p \in {"ordinary", "done", "status", "load", "sign", "planned"}, Goto(r, p),
             rq[r].pc \in Unanswered,
             p \in {"status", "load", "sign", "planned"} => rq[r].pc \in OnGrant
      PROVE  RecordTrace(r)
  <2>1. /\ p \in RequestPC /\ p # "zeroed" /\ p \notin {"fold", "foldCas", "folded"}
        /\ p \in OnGrant => rq[r].pc \in OnGrant
    BY <1>a, Places, SMT
  <2> QED
    BY <1>a, <2>1, MoveTrace, Zenon
<1>1. CASE Prepare(r)
  <2>0. /\ rq[r].pc = "new" /\ rq[r].pc \in Unanswered /\ GrantTrace(r)
    BY <1>1, Places, KeptTrace, Zenon DEF Prepare
  <2>1. CASE Goto(r, "ordinary") \/ Goto(r, "done")
    BY <1>a, <2>0, <2>1, Zenon DEF Trace
  <2>2. CASE rq' = [rq EXCEPT ![r] = [rq[r] EXCEPT !.pc = "check", !.grant = current]]
    <3> DEFINE R == [rq[r] EXCEPT !.pc = "check", !.grant = current]
    <3>1. R \in Request /\ R.pc = "check" /\ R.grant = current /\ R.answer = rq[r].answer
      BY Places, Zenon DEF TypeOK, Request
    <3>2. rq[r].answer.kind = "none"
      BY <2>0, Zenon DEF AnsweredOf
    <3>3. rq' = [rq EXCEPT ![r] = R]
      BY <2>2
    <3> HIDE DEF R
    <3>4. RecordTrace(r)
      BY <3>1, <3>2, <3>3, PutTrace, Zenon
    <3> QED
      BY <2>0, <3>4, Zenon DEF Trace
  <2> QED
    BY <1>1, <2>1, <2>2, Zenon DEF Prepare
<1>2. CASE claimScope(r)
  <2>1. rq[r].pc \in OnGrant /\ rq[r].pc \in Unanswered /\ GrantTrace(r)
    BY <1>2, Places, KeptTrace, Zenon DEF claimScope
  <2>2. Goto(r, "status") \/ Goto(r, "ordinary")
    BY <1>2, Zenon DEF claimScope
  <2> QED
    BY <1>a, <2>1, <2>2, Zenon DEF Trace
<1>3. CASE admitStatus(r)
  <2>1. rq[r].pc \in OnGrant /\ rq[r].pc \in Unanswered /\ GrantTrace(r)
    BY <1>3, Places, KeptTrace, Zenon DEF admitStatus
  <2>2. Goto(r, "load") \/ Goto(r, "ordinary")
    BY <1>3, Zenon DEF admitStatus, Release
  <2> QED
    BY <1>a, <2>1, <2>2, Zenon DEF Trace
<1>4. CASE admitLoad(r)
  <2> DEFINE left == grants[g].remaining
  <2>0. rq[r].pc \in OnGrant /\ rq[r].pc \in Unanswered /\ spent' = spent
    BY <1>4, Places, Zenon DEF admitLoad
  <2>1. g \in Gen /\ left \in 0..Cap
    BY <1>0, <2>0, GrantTypes, Zenon
  <2>2. CASE (leaveActive(g, "exhausted") \/ grants' = grants) /\ Release(r, "ordinary")
    <3>1. GrantTrace(r)
      BY <1>0, <2>0, <2>1, <2>2, Places, EndTrace, KeptTrace, Zenon
    <3> QED
      BY <1>a, <2>0, <2>2, <3>1, Zenon DEF Trace, Release
  <2>3. CASE grants' = grants /\ rq' = [rq EXCEPT ![r] = [rq[r] EXCEPT !.pc = "cas", !.rem = left]]
    <3> DEFINE R == [rq[r] EXCEPT !.pc = "cas", !.rem = left]
    <3>1. R \in Request /\ R.pc = "cas" /\ R.grant = g /\ R.answer = rq[r].answer
      BY <2>1, Places, Zenon DEF TypeOK, Request
    <3>2. rq[r].answer.kind = "none"
      BY <2>0, Zenon DEF AnsweredOf
    <3>3. rq' = [rq EXCEPT ![r] = R]
      BY <2>3
    <3> HIDE DEF R
    <3>4. RecordTrace(r)
      BY <2>0, <3>1, <3>2, <3>3, PutTrace, Zenon
    <3> QED
      BY <2>0, <2>3, <3>4, KeptTrace, Zenon DEF Trace
  <2> QED
    BY <1>4, <2>2, <2>3, Zenon DEF admitLoad
<1>5. CASE admitCas(r)
  BY <1>5, DecrementTrace, Zenon DEF admitCas
<1>6. CASE admitMark(r)
  <2>1. rq[r].pc \in OnGrant /\ rq[r].pc \in Unanswered /\ leaveActive(g, "exhausted")
        /\ spent' = spent /\ Goto(r, "sign")
    BY <1>6, Places, Zenon DEF admitMark
  <2>2. GrantTrace(r)
    BY <1>0, <2>1, Places, EndTrace, Zenon
  <2> QED
    BY <1>a, <2>1, <2>2, Zenon DEF Trace
<1>7. CASE registerPlan(r)
  <2>1. rq[r].pc \in OnGrant /\ rq[r].pc \in Unanswered /\ GrantTrace(r)
    BY <1>7, Places, KeptTrace, Zenon DEF registerPlan
  <2>2. Goto(r, "planned") \/ Goto(r, "ordinary") \/ Goto(r, "done")
    BY <1>7, Zenon DEF registerPlan, Release
  <2> QED
    BY <1>a, <2>1, <2>2, Zenon DEF Trace
<1> QED
  BY <1>1, <1>2, <1>3, <1>4, <1>5, <1>6, <1>7, Zenon DEF Admit

LEMMA ReserveTrace ==
    ASSUME TypeOK, NEW r \in Req, SnapshotOf(r), AnsweredOf(r), Reserve(r)
    PROVE  Trace(r)
<1> DEFINE g == rq[r].grant
           kind == rq[r].answer.kind
<1>0. /\ rq[r].pc \in OnGrant => g \in Gen
      /\ rq[r].pc \in OnGrant => Touched(r, g)
  BY Zenon DEF SnapshotOf, Touched
<1>a. ASSUME NEW p \in {"done", "observe"}, Goto(r, p), rq[r].pc \in OnGrant
      PROVE  RecordTrace(r) /\ rq'[r].grant = g /\ rq'[r].answer = rq[r].answer
  <2>1. /\ p \in RequestPC /\ p # "zeroed" /\ p \notin {"fold", "foldCas", "folded"}
        /\ p \notin Unanswered
    BY Places, SMT
  <2> QED
    BY <1>a, <2>1, MoveTrace, Zenon
<1>b. ASSUME NEW p \in {"fold", "folded"}, Goto(r, p), rq[r].pc \in OnGrant, kind = "accepted"
      PROVE  RecordTrace(r) /\ rq'[r].grant = g /\ rq'[r].answer = rq[r].answer
  <2>1. p \in RequestPC /\ p # "zeroed" /\ p \notin Unanswered
    BY Places, SMT
  <2> QED
    BY <1>b, <2>1, MoveTrace, Zenon
<1>1. CASE Cancel(r)
  <2>1. rq[r].pc \in OnGrant /\ Goto(r, "done") /\ GrantTrace(r)
    BY <1>1, Places, KeptTrace, Zenon DEF Cancel, Release
  <2> QED
    BY <1>a, <2>1, Zenon DEF Trace
<1>2. CASE enterReserve(r)
  <2>1. /\ rq[r].pc \in OnGrant /\ rq[r].pc \in Unanswered /\ Goto(r, "reserve")
        /\ GrantTrace(r)
    BY <1>2, Places, KeptTrace, Zenon DEF enterReserve
  <2>2. /\ "reserve" \in RequestPC /\ "reserve" # "zeroed"
        /\ "reserve" \notin {"fold", "foldCas", "folded"}
    BY Places, SMT
  <2> QED
    BY <2>1, <2>2, MoveTrace, Zenon DEF Trace
<1>3. CASE reserveAnswered(r)
  <2>1. rq[r].pc \in OnGrant /\ rq[r].pc \in Unanswered /\ GrantTrace(r)
    BY <1>3, Places, KeptTrace, Zenon DEF reserveAnswered
  <2>2. PICK a \in Answer, p \in {"observe", "lease"} :
          rq' = [rq EXCEPT ![r] = [rq[r] EXCEPT !.pc = p, !.answer = a]]
    BY <1>3, Zenon DEF reserveAnswered
  <2> DEFINE R == [rq[r] EXCEPT !.pc = p, !.answer = a]
  <2>3. /\ p \in RequestPC /\ p # "zeroed" /\ p \notin {"fold", "foldCas", "folded"}
        /\ p \notin Unanswered
    BY Places, SMT
  <2>4. R \in Request /\ R.pc = p /\ R.grant = g
    BY <2>3, Zenon DEF TypeOK, Request
  <2>5. rq' = [rq EXCEPT ![r] = R] /\ kind = "none"
    BY <2>1, <2>2, Zenon DEF AnsweredOf
  <2> HIDE DEF R
  <2>6. RecordTrace(r)
    BY <2>1, <2>3, <2>4, <2>5, PutTrace, Zenon
  <2> QED
    BY <2>1, <2>6, Zenon DEF Trace
<1>4. CASE reserveLease(r)
  <2>1. rq[r].pc \in OnGrant /\ Goto(r, "observe") /\ GrantTrace(r)
    BY <1>4, Places, LeaseTrace, Zenon DEF reserveLease
  <2> QED
    BY <1>a, <2>1, Zenon DEF Trace
<1>5. CASE observeReserve(r)
  <2>0. rq[r].pc \in OnGrant /\ g \in Gen /\ Touched(r, g) /\ spent' = spent
    BY <1>0, <1>5, Places, Zenon DEF observeReserve
  <2>1. CASE Release(r, "done") /\ grants' = grants
    BY <1>a, <2>0, <2>1, KeptTrace, Zenon DEF Trace, Release
  <2>2. CASE kind \in {"unmarked", "stop"} /\ SetStatus(g, "disabled") /\ Release(r, "done")
    <3>1. RecordTrace(r) /\ rq'[r].grant = g /\ rq'[r].answer = rq[r].answer
      BY <1>a, <2>0, <2>2, Zenon DEF Release
    <3> QED
      BY <2>0, <2>2, <3>1, DisableTrace, Zenon DEF Trace
  <2>3. CASE kind = "capacity" /\ grants' = [grants EXCEPT ![g].remaining = 0] /\ Goto(r, "zeroed")
    <3>1. /\ "zeroed" \in RequestPC /\ "zeroed" \notin Unanswered
          /\ "zeroed" \notin {"fold", "foldCas", "folded"} /\ 0 \in 0..Cap
      BY Places, SMT
    <3>2. RecordTrace(r) /\ rq'[r].grant = g /\ rq'[r].answer = rq[r].answer
      BY <2>0, <2>3, <3>1, MoveTrace, Zenon
    <3> QED
      BY <2>0, <2>3, <3>1, <3>2, LowerTrace, Zenon DEF Trace
  <2>4. CASE kind = "accepted" /\ Goto(r, "fold") /\ grants' = grants
    BY <1>b, <2>0, <2>4, KeptTrace, Zenon DEF Trace
  <2> QED
    BY <1>5, <2>1, <2>2, <2>3, <2>4, Zenon DEF observeReserve, SetStatus
<1>6. CASE observeZeroed(r)
  <2>1. rq[r].pc \in OnGrant /\ SetStatus(g, "exhausted") /\ Goto(r, "done") /\ spent' = spent
    BY <1>6, Places, Zenon DEF observeZeroed, Release, SetStatus
  <2>2. GrantTrace(r)
    BY <1>0, <2>1, Places, EndTrace, Zenon
  <2> QED
    BY <1>a, <2>1, <2>2, Zenon DEF Trace
<1>7. CASE foldLoad(r)
  <2> DEFINE local == grants[g].remaining
  <2>1. rq[r].pc \in OnGrant /\ kind = "accepted" /\ GrantTrace(r)
    BY <1>7, Places, KeptTrace, Zenon DEF foldLoad, AnsweredOf
  <2>2. CASE Goto(r, "folded")
    BY <1>b, <2>1, <2>2, Zenon DEF Trace
  <2>3. CASE rq' = [rq EXCEPT ![r] = [rq[r] EXCEPT !.pc = "foldCas", !.rem = local]]
    <3> DEFINE R == [rq[r] EXCEPT !.pc = "foldCas", !.rem = local]
    <3>1. "foldCas" \in RequestPC /\ "foldCas" \notin Unanswered /\ local \in 0..Cap
      BY <1>0, <2>1, Places, GrantTypes, Zenon
    <3>2. R \in Request /\ R.pc = "foldCas" /\ R.grant = g /\ R.answer = rq[r].answer
      BY <3>1, Zenon DEF TypeOK, Request
    <3>3. rq' = [rq EXCEPT ![r] = R]
      BY <2>3
    <3> HIDE DEF R
    <3>4. RecordTrace(r)
      BY <2>1, <3>1, <3>2, <3>3, PutTrace, Zenon
    <3> QED
      BY <2>1, <3>4, Zenon DEF Trace
  <2> QED
    BY <1>7, <2>2, <2>3, Zenon DEF foldLoad
<1>8. CASE foldCas(r)
  <2>1. rq[r].pc \in OnGrant /\ kind = "accepted" /\ spent' = spent
    BY <1>8, Places, Zenon DEF foldCas, AnsweredOf
  <2>2. CASE grants' = [grants EXCEPT ![g].remaining = rq[r].answer.ledger] /\ Goto(r, "folded")
    <3>1. RecordTrace(r) /\ rq'[r].grant = g /\ rq'[r].answer = rq[r].answer
      BY <1>b, <2>1, <2>2, Zenon
    <3>2. rq[r].answer.ledger \in 0..Cap
      BY RequestTypes, Zenon
    <3> QED
      BY <1>0, <2>1, <2>2, <3>1, <3>2, LowerTrace, Zenon DEF Trace
  <2>3. CASE Goto(r, "fold") /\ grants' = grants
    BY <1>b, <2>1, <2>3, KeptTrace, Zenon DEF Trace
  <2> QED
    BY <1>8, <2>2, <2>3, Zenon DEF foldCas
<1>9. CASE foldDone(r)
  <2>1. /\ rq[r].pc \in OnGrant /\ Goto(r, "done") /\ spent' = spent
        /\ leaveActive(g, "exhausted") \/ grants' = grants
    BY <1>9, Places, Zenon DEF foldDone, Release
  <2>2. GrantTrace(r)
    BY <1>0, <2>1, Places, EndTrace, KeptTrace, Zenon
  <2> QED
    BY <1>a, <2>1, <2>2, Zenon DEF Trace
<1> QED
  BY <1>1, <1>2, <1>3, <1>4, <1>5, <1>6, <1>7, <1>8, <1>9, Zenon DEF Reserve

LEMMA OrdinaryTrace ==
    ASSUME TypeOK, NEW r \in Req, SnapshotOf(r), AnsweredOf(r), Ordinary(r)
    PROVE  Trace(r)
<1> DEFINE g == rq[r].grant
<1>0. /\ rq[r].pc \in OnGrant => g \in Gen
      /\ rq[r].pc \in OnGrant => Touched(r, g)
  BY Zenon DEF SnapshotOf, Touched
<1>a. ASSUME NEW p \in {"authorize", "response", "done"}, Goto(r, p)
      PROVE  RecordTrace(r)
  <2>1. /\ p \in RequestPC /\ p # "zeroed" /\ p \notin {"fold", "foldCas", "folded"}
        /\ p \notin Unanswered /\ p \notin OnGrant
    BY Places, SMT
  <2> QED
    BY <1>a, <2>1, MoveTrace, Zenon
<1>1. CASE BeforeRequest(r)
  <2>0. rq[r].pc \in Unanswered /\ spent' = spent
    BY <1>1, Places, Zenon DEF BeforeRequest
  <2>1. CASE Goto(r, "authorize") /\ grants' = grants
    BY <1>a, <2>0, <2>1, KeptTrace, Zenon DEF Trace
  <2>2. ASSUME NEW s \in {"expired", "exhausted"}, leaveActive(current, s),
               current # NoGrant, Goto(r, "authorize")
        PROVE  Trace(r)
    <3>1. current \in Gen
      BY <2>2, SMT DEF TypeOK, NoGrant, Gen
    <3>2. s \in Status \ {"active", "disabled"} /\ Touched(r, current)
      BY Places, Zenon DEF Touched
    <3>3. GrantTrace(r)
      BY <2>0, <2>2, <3>1, <3>2, EndTrace, Zenon
    <3> QED
      BY <1>a, <2>2, <3>3, Zenon DEF Trace
  <2>3. CASE grants' = grants /\ rq' = [rq EXCEPT ![r] = [rq[r] EXCEPT !.pc = "echo", !.grant = current]]
    <3> DEFINE R == [rq[r] EXCEPT !.pc = "echo", !.grant = current]
    <3>1. R \in Request /\ R.pc = "echo" /\ R.grant = current /\ R.answer = rq[r].answer
      BY Places, Zenon DEF TypeOK, Request
    <3>2. rq[r].answer.kind = "none"
      BY <2>0, Zenon DEF AnsweredOf
    <3>3. rq' = [rq EXCEPT ![r] = R]
      BY <2>3
    <3> HIDE DEF R
    <3>4. RecordTrace(r)
      BY <3>1, <3>2, <3>3, PutTrace, Zenon
    <3> QED
      BY <2>0, <2>3, <3>4, KeptTrace, Zenon DEF Trace
  <2> QED
    BY <1>1, <2>1, <2>2, <2>3, Zenon DEF BeforeRequest
<1>2. CASE echoLoad(r)
  <2> DEFINE left == grants[g].remaining
  <2>0. rq[r].pc \in OnGrant /\ rq[r].pc \in Unanswered /\ spent' = spent
    BY <1>2, Places, Zenon DEF echoLoad
  <2>1. g \in Gen /\ left \in 0..Cap
    BY <1>0, <2>0, GrantTypes, Zenon
  <2>2. CASE (leaveActive(g, "exhausted") \/ grants' = grants) /\ Goto(r, "authorize")
    <3>1. GrantTrace(r)
      BY <1>0, <2>0, <2>1, <2>2, Places, EndTrace, KeptTrace, Zenon
    <3> QED
      BY <1>a, <2>2, <3>1, Zenon DEF Trace
  <2>3. CASE grants' = grants /\ rq' = [rq EXCEPT ![r] = [rq[r] EXCEPT !.pc = "echoCas", !.rem = left]]
    <3> DEFINE R == [rq[r] EXCEPT !.pc = "echoCas", !.rem = left]
    <3>1. R \in Request /\ R.pc = "echoCas" /\ R.grant = g /\ R.answer = rq[r].answer
      BY <2>1, Places, Zenon DEF TypeOK, Request
    <3>2. rq[r].answer.kind = "none"
      BY <2>0, Zenon DEF AnsweredOf
    <3>3. rq' = [rq EXCEPT ![r] = R]
      BY <2>3
    <3> HIDE DEF R
    <3>4. RecordTrace(r)
      BY <2>0, <3>1, <3>2, <3>3, PutTrace, Zenon
    <3> QED
      BY <2>0, <2>3, <3>4, KeptTrace, Zenon DEF Trace
  <2> QED
    BY <1>2, <2>2, <2>3, Zenon DEF echoLoad
<1>3. CASE echoCas(r)
  BY <1>3, DecrementTrace, Zenon DEF echoCas
<1>4. CASE echoMark(r)
  <2>1. rq[r].pc \in OnGrant /\ leaveActive(g, "exhausted") /\ spent' = spent
        /\ Goto(r, "authorize")
    BY <1>4, Places, Zenon DEF echoMark
  <2>2. GrantTrace(r)
    BY <1>0, <2>1, Places, EndTrace, Zenon
  <2> QED
    BY <1>a, <2>1, <2>2, Zenon DEF Trace
<1>5. CASE authorizeAnswered(r)
  <2>1. GrantTrace(r) /\ (Goto(r, "done") \/ Goto(r, "response"))
    BY <1>5, KeptTrace, Zenon DEF authorizeAnswered
  <2> QED
    BY <1>a, <2>1, Zenon DEF Trace
<1>6. CASE authorizeLease(r)
  <2>1. GrantTrace(r) /\ Goto(r, "done")
    BY <1>6, LeaseTrace, Zenon DEF authorizeLease
  <2> QED
    BY <1>a, <2>1, Zenon DEF Trace
<1> QED
  BY <1>1, <1>2, <1>3, <1>4, <1>5, <1>6, Zenon DEF Ordinary

-----------------------------------------------------------------------------
(* The traces preserve the invariant.                                      *)
LEMMA TraceKeeps ==
    ASSUME IInv, GInv, NEW r \in Req, Shapes(r), Trace(r)
    PROVE  GInv'
<1>1. TypeOK /\ Frame(r) /\ GrantTrace(r) /\ RecordTrace(r) /\ CurrentShape
  BY Zenon DEF IInv, Shapes, Trace
<1>2. current \in 0..MaxGen /\ current' \in 0..MaxGen /\ current <= current'
  BY <1>1, SMT DEF TypeOK, Frame, CurrentShape
<1>3. \A q \in Req \ {r} : rq'[q] = rq[q]
  BY <1>1, Zenon DEF Frame
<1>4. \A q \in Req : rq[q].grant \in 0..MaxGen
  BY <1>1, RequestTypes, Zenon
<1>5. ASSUME NEW q \in Req PROVE AnsweredOf(q)' /\ BehindOf(q)'
  <2>1. CASE q # r
    <3>1. rq'[q] = rq[q] /\ AnsweredOf(q) /\ BehindOf(q)
      BY <1>3, <2>1, Zenon DEF GInv
    <3>2. rq[q].pc \in OnGrant => rq[q].grant <= current'
      BY <1>2, <1>4, <3>1, SMT DEF BehindOf
    <3> QED
      BY <3>1, <3>2, Zenon DEF AnsweredOf, BehindOf
  <2>2. CASE q = r
    <3>1. AnsweredOf(r)' /\ BehindOf(r)
      BY <1>1, Zenon DEF RecordTrace, GInv
    <3>2. rq'[r].pc \in OnGrant => \/ rq'[r].grant = rq[r].grant /\ rq[r].grant <= current
                                   \/ rq'[r].grant = current
      BY <1>1, <3>1, Zenon DEF RecordTrace, BehindOf
    <3>3. rq'[r].pc \in OnGrant => rq'[r].grant <= current'
      BY <1>2, <1>4, <3>2, SMT
    <3> QED
      BY <2>2, <3>1, <3>3, Zenon DEF BehindOf
  <2> QED
    BY <2>1, <2>2
<1>6. NewerUntouched'
  <2> SUFFICES ASSUME NEW g \in Gen, g > current'
               PROVE  grants'[g] = [remaining |-> Cap, status |-> "active"] /\ spent'[g] = 0
    BY Zenon DEF NewerUntouched
  <2>1. g > current
    BY <1>2, SMT DEF Gen
  <2>2. BehindOf(r)
    BY Zenon DEF GInv
  <2>3. ~Touched(r, g)
    BY <1>2, <1>4, <2>1, <2>2, SMT DEF Touched, BehindOf, Gen
  <2>4. grants'[g] = grants[g] /\ spent'[g] = spent[g]
    BY <1>1, <2>3, Zenon DEF GrantTrace
  <2> QED
    BY <2>1, <2>4, Zenon DEF GInv, NewerUntouched
<1>7. OwnAnswers'
  <2> DEFINE answered(g, kinds) == \E q \in Req : rq[q].grant = g /\ rq[q].answer.kind \in kinds
             answeredNext(g, kinds) == \E q \in Req : rq'[q].grant = g /\ rq'[q].answer.kind \in kinds
  <2>1. ASSUME NEW g \in Gen, NEW kinds, "none" \notin kinds, answered(g, kinds)
        PROVE  answeredNext(g, kinds)
    <3>1. PICK q \in Req : rq[q].grant = g /\ rq[q].answer.kind \in kinds
      BY <2>1, Zenon
    <3>2. rq'[q].grant = rq[q].grant /\ rq'[q].answer = rq[q].answer
      BY <1>1, <1>3, <2>1, <3>1, Zenon DEF RecordTrace
    <3> QED
      BY <3>1, <3>2, Zenon
  <2>2. ASSUME NEW g \in Gen
        PROVE  /\ grants'[g].status = "disabled" => answeredNext(g, {"unmarked", "stop"})
               /\ spent'[g] + grants'[g].remaining < Cap => answeredNext(g, {"capacity", "accepted"})
    <3>1. /\ grants[g].status = "disabled" => answered(g, {"unmarked", "stop"})
          /\ spent[g] + grants[g].remaining < Cap => answered(g, {"capacity", "accepted"})
      BY Zenon DEF GInv, OwnAnswers
    <3>2. /\ grants'[g].status = "disabled" =>
               \/ grants[g].status = "disabled"
               \/ rq'[r].grant = g /\ rq'[r].answer.kind \in {"unmarked", "stop"}
          /\ \/ spent'[g] + grants'[g].remaining = spent[g] + grants[g].remaining
             \/ rq'[r].grant = g /\ rq'[r].answer.kind \in {"capacity", "accepted"}
      BY <1>1, Zenon DEF GrantTrace
    <3>3. "none" \notin {"unmarked", "stop"} /\ "none" \notin {"capacity", "accepted"}
      BY SMT
    <3>4. /\ answered(g, {"unmarked", "stop"}) => answeredNext(g, {"unmarked", "stop"})
          /\ answered(g, {"capacity", "accepted"}) => answeredNext(g, {"capacity", "accepted"})
      BY <2>1, <3>3, Zenon
    <3>5. /\ rq'[r].grant = g /\ rq'[r].answer.kind \in {"unmarked", "stop"}
                => answeredNext(g, {"unmarked", "stop"})
          /\ rq'[r].grant = g /\ rq'[r].answer.kind \in {"capacity", "accepted"}
                => answeredNext(g, {"capacity", "accepted"})
      BY Zenon
    <3> HIDE DEF answered, answeredNext
    <3> QED
      BY <3>1, <3>2, <3>4, <3>5, Zenon
  <2> QED
    BY <2>2, Zenon DEF OwnAnswers
<1> QED
  BY <1>5, <1>6, <1>7, Zenon DEF GInv

LEMMA GrantInit == Init => GInv
<1> SUFFICES ASSUME Init PROVE GInv
  OBVIOUS
<1>1. IInv
  BY InitInvariant, Zenon
<1>2. ASSUME NEW r \in Req PROVE rq[r].pc = "new" /\ rq[r].answer.kind = "none"
  <2>1. PICK e \in Estimates : rq[r] = [pc |-> "new", grant |-> NoGrant, rem |-> 0, est |-> e,
                                        answer |-> NoAnswer]
    BY Zenon DEF Init
  <2>2. rq[r].pc = "new" /\ rq[r].answer = NoAnswer
    BY <2>1
  <2>3. NoAnswer.kind = "none"
    BY SMT DEF NoAnswer
  <2> QED
    BY <2>2, <2>3, Zenon
<1>3. \A r \in Req : AnsweredOf(r) /\ BehindOf(r)
  <2>1. "new" \notin OnGrant /\ "new" # "zeroed" /\ "new" \notin {"fold", "foldCas", "folded"}
    BY Places, SMT
  <2> QED
    BY <1>2, <2>1, Zenon DEF AnsweredOf, BehindOf
<1>4. \A g \in Gen : grants[g] = [remaining |-> Cap, status |-> "active"] /\ spent[g] = 0
  BY Zenon DEF Init
<1>5. NewerUntouched
  BY <1>4, Zenon DEF NewerUntouched
<1>6. \A g \in Gen : grants[g].status # "disabled" /\ ~(spent[g] + grants[g].remaining < Cap)
  <2> SUFFICES ASSUME NEW g \in Gen
               PROVE  grants[g].status # "disabled" /\ ~(spent[g] + grants[g].remaining < Cap)
    OBVIOUS
  <2>1. grants[g].status = "active" /\ grants[g].remaining = Cap /\ spent[g] = 0
    BY <1>4
  <2> QED
    BY <2>1, SMT
<1>7. OwnAnswers
  BY <1>6, Zenon DEF OwnAnswers
<1> QED
  BY <1>3, <1>5, <1>7, Zenon DEF GInv

LEMMA GrantStep == IInv /\ GInv /\ [Next]_vars => GInv'
<1> SUFFICES ASSUME IInv, GInv, [Next]_vars PROVE GInv'
  OBVIOUS
<1>1. ASSUME UNCHANGED <<current, grants, rq, spent>> PROVE GInv'
  BY <1>1, Zenon DEF GInv, AnsweredOf, BehindOf, NewerUntouched, OwnAnswers
<1>2. ASSUME NEW r \in Req, Step(r) PROVE GInv'
  <2>1. TypeOK /\ SnapshotOf(r) /\ AnsweredOf(r)
    BY Zenon DEF IInv, Snapshots, GInv
  <2>2. Trace(r)
    BY <1>2, <2>1, AdmitTrace, ReserveTrace, OrdinaryTrace, Zenon DEF Step
  <2>3. Shapes(r)
    BY <1>2, StepShapes, Zenon
  <2> QED
    BY <2>2, <2>3, TraceKeeps, Zenon
<1>3. CASE Register \/ Finished \/ UNCHANGED vars
  BY <1>1, <1>3, Zenon DEF Register, Finished, vars
<1>4. ASSUME NEW g \in Gen, TimePasses(g) PROVE GInv'
  BY <1>1, <1>4, Zenon DEF TimePasses
<1> QED
  BY <1>2, <1>3, <1>4, Zenon DEF Next

(* Every generation later than the current one is as the router issued it, *)
(* whatever responses handleResponse receives and in whatever order.       *)
THEOREM NewerAlwaysUntouched == Spec => []NewerUntouched
<1>1. GInv => NewerUntouched
  BY Zenon DEF GInv
<1> QED
  BY <1>1, GrantInit, GrantStep, LeaseInvariance, PTL DEF Spec

(* A grant is disabled, or loses more than was spent from it, only by      *)
(* an answer to one of its own receipts, however late ObserveReserve runs. *)
THEOREM OwnAnswersAlways == Spec => []OwnAnswers
<1>1. GInv => OwnAnswers
  BY Zenon DEF GInv
<1> QED
  BY <1>1, GrantInit, GrantStep, LeaseInvariance, PTL DEF Spec
=============================================================================
