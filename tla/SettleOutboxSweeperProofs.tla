--------------------- MODULE SettleOutboxSweeperProofs ---------------------
(***************************************************************************)
(* Proofs about SettleOutboxSweeper, for any number of sweepers and         *)
(* terminals, any durations and any number of failures.                     *)
(***************************************************************************)
EXTENDS SettleOutboxSweeper, TLAPS

(* The inductive invariant.  NoTerminalLost is not inductive: the step that   *)
(* deletes a pending object needs to know the copy was made, the step that    *)
(* makes it that its prefix is right, and a claim that the lease it read is    *)
(* over for as long as its generation stands.                                 *)

\* What is pending, or being handled, was parked.
ParkedInv ==
    /\ \A t \in Terminals : pending[t] # 0 => parks[t] > 0
    /\ \A s \in Sweepers : pc[s] \in {"replay", "filePut", "fileDelete"} => parks[cur[s]] > 0

\* The prefix p is right for terminal t.
Deserved(p, t) ==
    /\ p = "done" => t \in settled
    /\ p = "dead" => Fate[t] \in {"404", "409", "4xx"}
    /\ p = "quarantine" => Fate[t] \in {"bootRefused", "unverified"}

\* A sweeper in file has the right prefix, and a copy before it deletes.
FilingInv ==
    \A s \in Sweepers :
        /\ pc[s] \in {"filePut", "fileDelete"} => Deserved(target[s], cur[s])
        /\ pc[s] = "fileDelete" => target[s] \in filed[cur[s]]

\* A lease read as over stays over while its generation stands.
LeaseInv ==
    \A s \in Sweepers :
        pc[s] \in {"claimPut", "orphanCheck", "orphanDelete"} /\ rd[s] # 0
        /\ lease[cur[s]].gen = rd[s] => lease[cur[s]].left <= 0

CopyInv == NoTerminalLost /\ ParkedInv /\ FilingInv /\ FiledByFate
IInv == TypeOK /\ CopyInv /\ LeaseInv

-----------------------------------------------------------------------------

\* A fresh generation is one nobody remembers (GCSStore.Put).
LEMMA FreshIsNew == HasFresh => Fresh \in Gens /\ Fresh \notin InUse
  BY Zenon DEF HasFresh, Fresh

\* A backoff is a whole number of ticks, at most one lease, for a claim that
\* has been tried (backoff).
LEMMA BackoffBound ==
  ASSUME NEW n \in Nat \ {0} PROVE backoff(n) \in Int /\ backoff(n) <= LeaseTicks
  BY ConstantsAssumption DEF backoff

\* The lease objects the sweepers write (claim, releaseLease, dropLease).
LEMMA LeaseTypes ==
  /\ NoLease \in Leases
  /\ \A g \in Gens, o \in Sweepers \cup {Nobody}, l \in Int, n \in Nat :
        l <= LeaseTicks => [gen |-> g, owner |-> o, left |-> l, attempts |-> n] \in Leases
  /\ \A l \in Leases :
        l.gen \in Gens \cup {0} /\ l.left \in Int /\ l.left <= LeaseTicks /\ l.attempts \in Nat
  BY ConstantsAssumption DEF NoLease, Leases, Nobody

\* Leaving an object keeps the sweeper's types (the end of sweepObject).
LEMMA SkipType ==
  ASSUME SweeperTypeOK, NEW s \in Sweepers, NEW next \in {"next", "orphanNext"}, Skip(s, next),
         UNCHANGED <<page, token, paused>>, age' \in [Sweepers -> Nat]
  PROVE  SweeperTypeOK'
  BY Zenon DEF SweeperTypeOK, Skip, Forget, PCs, ClaimPCs, HeldPCs, OrphanPCs, Prefixes

\* Every variable keeps its type (TypeOK), one step per operation of the sweeper.
LEMMA TypeStep == TypeOK /\ [Next]_vars => TypeOK'
<1> SUFFICES ASSUME TypeOK, [Next]_vars PROVE TypeOK'
  OBVIOUS
<1> USE ConstantsAssumption DEF TypeOK, PCs, ClaimPCs, HeldPCs, OrphanPCs, Prefixes, vars, objects, locals
<1>1. ASSUME NEW t \in Terminals, Park(t) PROVE TypeOK'
  BY <1>1, FreshIsNew DEF Park, StoreTypeOK, SweeperTypeOK
<1>2. ASSUME NEW s \in Sweepers, Sweep(s) PROVE TypeOK'
  <2>1. StoreTypeOK'
    BY <1>2 DEF Sweep, StoreTypeOK, Fault, NoFault
  <2>2. SweeperTypeOK'
    <3>1. Listing(PendingNames, token[s]) \subseteq Terminals
      BY Zenon DEF Listing, After, PendingNames
    <3>2. NextToken(PendingNames, token[s]) \subseteq Nat
      <4> DEFINE listed == Listing(PendingNames, token[s])
      <4>1. CASE listed = After(PendingNames, token[s])
        BY <4>1 DEF NextToken
      <4>2. CASE listed # After(PendingNames, token[s])
        <5>1. NextToken(PendingNames, token[s]) = {n \in listed : \A m \in listed : m <= n}
          BY Zenon, <4>2 DEF NextToken
        <5> QED
          BY Zenon, <3>1, <5>1
      <4> QED
        BY Zenon, <4>1, <4>2
    <3>3. page' \in [Sweepers -> SUBSET Terminals]
      BY <1>2, <3>1 DEF Sweep, SweeperTypeOK
    <3>4. token' \in [Sweepers -> Nat]
      BY <1>2, <3>2 DEF Sweep, SweeperTypeOK
    <3>5. Goto(s, "next") \/ UNCHANGED <<pc, call>>
      BY Zenon, <1>2 DEF Sweep
    <3>6. UNCHANGED <<cur, paused, age, rd, held, tries, stored, target>>
      BY Zenon, <1>2 DEF Sweep
    <3> QED
      BY <3>3, <3>4, <3>5, <3>6 DEF SweeperTypeOK, Goto
  <2> QED
    BY Zenon, <2>1, <2>2
<1>3. ASSUME NEW s \in Sweepers, NextObject(s) PROVE TypeOK'
  <2>1. StoreTypeOK'
    BY Zenon, <1>3 DEF NextObject, StoreTypeOK
  <2>2. SweeperTypeOK'
    BY <1>3 DEF NextObject, SweeperTypeOK, Take, Goto
  <2> QED
    BY Zenon, <2>1, <2>2
<1>4. ASSUME NEW s \in Sweepers, claimGet(s) PROVE TypeOK'
  <2>1. StoreTypeOK'
    BY <1>4 DEF claimGet, StoreTypeOK, Fault, NoFault
  <2>2. SweeperTypeOK'
    <3>1. CASE Skip(s, "next")
      BY Zenon, <1>4, <3>1, SkipType DEF claimGet, SweeperTypeOK
    <3>2. CASE Goto(s, "claimPut") /\ ~Skip(s, "next")
      <4>1. cur[s] \in Terminals /\ lease[cur[s]] \in Leases
        BY Zenon, <1>4 DEF claimGet, SweeperTypeOK, StoreTypeOK
      <4>2. rd' \in [Sweepers -> Gens \cup {0}]
        BY ZenonT(60), <1>4, <3>2, <4>1, LeaseTypes DEF claimGet, SweeperTypeOK
      <4>3. tries' \in [Sweepers -> Nat] /\ tries'[s] # 0
        <5> DEFINE a == lease[cur[s]].attempts
                   n == IF a < AttemptsCap THEN a + 1 ELSE AttemptsCap
        <5>1. a \in Nat
          BY Zenon, <4>1, LeaseTypes
        <5>2. n \in Nat \ {0}
          BY <5>1 DEF AttemptsCap
        <5>3. tries' = [tries EXCEPT ![s] = n]
          BY Zenon, <1>4, <3>2 DEF claimGet
        <5> QED
          BY ZenonT(60), <5>2, <5>3 DEF SweeperTypeOK
      <4>4. \A r \in Sweepers \ {s} : tries'[r] = tries[r]
        BY ZenonT(60), <1>4, <3>2 DEF claimGet, SweeperTypeOK
      <4> QED
        BY <1>4, <3>2, <4>1, <4>2, <4>3, <4>4 DEF claimGet, SweeperTypeOK, Goto
    <3> QED
      BY Zenon, <1>4, <3>1, <3>2 DEF claimGet
  <2> QED
    BY Zenon, <2>1, <2>2
<1>5. ASSUME NEW s \in Sweepers, claimPut(s) PROVE TypeOK'
  <2> DEFINE taken == [gen |-> Fresh, owner |-> s, left |-> LeaseTicks - age[s], attempts |-> tries[s]]
  <2>0. cur[s] \in Terminals /\ taken \in Leases
    <3>1. cur[s] \in Terminals /\ age[s] \in Nat /\ tries[s] \in Nat /\ Fresh \in Gens
      BY Zenon, <1>5, FreshIsNew DEF claimPut, newLease, SweeperTypeOK
    <3>2. LeaseTicks - age[s] \in Int /\ LeaseTicks - age[s] <= LeaseTicks
      BY <3>1
    <3> QED
      BY Zenon, <3>1, <3>2, LeaseTypes
  <2>1. StoreTypeOK'
    <3>1. lease' \in {lease, [lease EXCEPT ![cur[s]] = taken]}
      BY Zenon, <1>5 DEF claimPut, newLease
    <3> QED
      BY <1>5, <2>0, <3>1 DEF claimPut, newLease, StoreTypeOK, Fault, NoFault
  <2>2. SweeperTypeOK'
    <3>0. age' \in [Sweepers -> Nat]
      BY Zenon, <1>5 DEF claimPut, newLease, SweeperTypeOK
    <3>1. CASE Skip(s, "next")
      BY Zenon, <1>5, <3>0, <3>1, SkipType DEF claimPut, newLease
    <3>2. CASE ~Skip(s, "next")
      <4>1. UNCHANGED <<page, cur, tries, stored, target, token, paused>> /\ Goto(s, "get")
            /\ held' = [held EXCEPT ![s] = Fresh] /\ rd' = [rd EXCEPT ![s] = 0]
        BY Zenon, <1>5, <3>2 DEF claimPut, newLease
      <4>2. pc[s] = "claimPut" /\ Fresh \in Gens
        BY Zenon, <1>5, FreshIsNew DEF claimPut, newLease
      <4> QED
        BY Zenon, <3>0, <4>1, <4>2 DEF SweeperTypeOK, Goto
    <3> QED
      BY Zenon, <3>1, <3>2
  <2> QED
    BY Zenon, <2>1, <2>2
<1>6. ASSUME NEW s \in Sweepers, getPending(s) PROVE TypeOK'
  <2>1. StoreTypeOK'
    BY <1>6 DEF getPending, StoreTypeOK, Fault, NoFault
  <2>2. SweeperTypeOK'
    <3>1. cur[s] \in Terminals /\ pending[cur[s]] \in Gens \cup {0} /\ pc[s] = "get"
      BY Zenon, <1>6 DEF getPending, SweeperTypeOK, StoreTypeOK
    <3>2. stored' \in [Sweepers -> Gens \cup {0}] /\ target' \in [Sweepers -> Prefixes]
      BY <1>6, <3>1 DEF getPending, SweeperTypeOK
    <3>3. \E l \in {"drop", "filePut", "replay", "release"} : Goto(s, l)
      BY Zenon, <1>6 DEF getPending
    <3>4. UNCHANGED <<page, cur, token, paused, age, rd, held, tries>>
      BY Zenon, <1>6 DEF getPending
    <3> QED
      BY <3>1, <3>2, <3>3, <3>4 DEF SweeperTypeOK, Goto
  <2> QED
    BY Zenon, <2>1, <2>2
<1>7. ASSUME NEW s \in Sweepers, replay(s) PROVE TypeOK'
  <2>1. StoreTypeOK'
    <3>1. cur[s] \in Terminals
      BY Zenon, <1>7 DEF replay, SweeperTypeOK
    <3>2. settled' \subseteq Terminals
      BY Zenon, <1>7, <3>1 DEF replay, StoreTypeOK
    <3> QED
      BY <1>7, <3>2 DEF replay, StoreTypeOK, Fault, NoFault
  <2>2. SweeperTypeOK'
    BY <1>7 DEF replay, SweeperTypeOK, Goto, Transient
  <2> QED
    BY Zenon, <2>1, <2>2
<1>8. ASSUME NEW s \in Sweepers, filePut(s) PROVE TypeOK'
  <2>1. StoreTypeOK'
    BY <1>8, SMTT(30) DEF filePut, StoreTypeOK, Fault, NoFault, SweeperTypeOK
  <2>2. SweeperTypeOK'
    BY <1>8 DEF filePut, SweeperTypeOK, Goto
  <2> QED
    BY Zenon, <2>1, <2>2
<1>9. ASSUME NEW s \in Sweepers, fileDelete(s) PROVE TypeOK'
  <2>1. StoreTypeOK'
    BY <1>9 DEF fileDelete, StoreTypeOK, Fault, NoFault, SweeperTypeOK
  <2>2. SweeperTypeOK'
    BY <1>9 DEF fileDelete, SweeperTypeOK, Goto
  <2> QED
    BY Zenon, <2>1, <2>2
<1>10. ASSUME NEW s \in Sweepers, dropLease(s) PROVE TypeOK'
  <2>1. StoreTypeOK'
    <3>1. cur[s] \in Terminals
      BY Zenon, <1>10 DEF dropLease, SweeperTypeOK
    <3>2. lease' \in {lease, [lease EXCEPT ![cur[s]] = NoLease]}
      BY Zenon, <1>10 DEF dropLease
    <3> QED
      BY <1>10, <3>1, <3>2, LeaseTypes DEF dropLease, StoreTypeOK, Fault, NoFault
  <2>2. SweeperTypeOK'
    BY Zenon, <1>10 DEF dropLease, SweeperTypeOK, Skip, Forget
  <2> QED
    BY Zenon, <2>1, <2>2
<1>11. ASSUME NEW s \in Sweepers, releaseLease(s) PROVE TypeOK'
  <2> DEFINE waiting == [gen |-> Fresh, owner |-> Nobody, left |-> backoff(tries[s]) - call[s], attempts |-> tries[s]]
  <2>0. cur[s] \in Terminals /\ waiting \in Leases
    <3>1. cur[s] \in Terminals /\ call[s] \in Nat /\ tries[s] \in Nat \ {0} /\ Fresh \in Gens
      BY Zenon, <1>11, FreshIsNew DEF releaseLease, SweeperTypeOK
    <3>2. backoff(tries[s]) - call[s] \in Int /\ backoff(tries[s]) - call[s] <= LeaseTicks
      BY <3>1, BackoffBound
    <3> QED
      BY Zenon, <3>1, <3>2, LeaseTypes
  <2>1. StoreTypeOK'
    <3>1. lease' \in {lease, [lease EXCEPT ![cur[s]] = waiting]}
      BY Zenon, <1>11 DEF releaseLease
    <3> QED
      BY <1>11, <2>0, <3>1 DEF releaseLease, StoreTypeOK, Fault, NoFault
  <2>2. SweeperTypeOK'
    <3>1. CASE pc[s] = "refused"
      <4>1. /\ pc' = [pc EXCEPT ![s] = "idle"] /\ page' = [page EXCEPT ![s] = {}]
            /\ paused' = [paused EXCEPT ![s] = LeaseTicks] /\ Forget(s) /\ UNCHANGED <<token, age>>
        BY Zenon, <1>11, <3>1 DEF releaseLease
      <4> QED
        BY Zenon, <4>1 DEF SweeperTypeOK, Forget
    <3>2. CASE pc[s] = "release"
      BY Zenon, <1>11, <3>2, SkipType DEF releaseLease, SweeperTypeOK
    <3> QED
      BY Zenon, <1>11, <3>1, <3>2 DEF releaseLease
  <2> QED
    BY Zenon, <2>1, <2>2
<1>12. ASSUME NEW s \in Sweepers, orphanList(s) PROVE TypeOK'
  <2>1. StoreTypeOK'
    BY <1>12 DEF orphanList, StoreTypeOK, Fault, NoFault
  <2>2. SweeperTypeOK'
    <3>1. Listing(LeaseNames, 0) \subseteq Terminals
      BY Zenon DEF Listing, After, LeaseNames
    <3>2. page' \in [Sweepers -> SUBSET Terminals] /\ age' \in [Sweepers -> Nat]
      BY <1>12, <3>1 DEF orphanList, SweeperTypeOK
    <3>3. \E l \in {"orphanNext", "idle"} : Goto(s, l)
      BY Zenon, <1>12 DEF orphanList
    <3>4. UNCHANGED <<cur, token, paused, rd, held, tries, stored, target>>
      BY Zenon, <1>12 DEF orphanList
    <3> QED
      BY <3>2, <3>3, <3>4 DEF SweeperTypeOK, Goto
  <2> QED
    BY Zenon, <2>1, <2>2
<1>13. ASSUME NEW s \in Sweepers, orphanNext(s) PROVE TypeOK'
  <2>1. StoreTypeOK'
    BY Zenon, <1>13 DEF orphanNext, StoreTypeOK
  <2>2. SweeperTypeOK'
    BY <1>13 DEF orphanNext, SweeperTypeOK, Take, Goto
  <2> QED
    BY Zenon, <2>1, <2>2
<1>14. ASSUME NEW s \in Sweepers, orphanGet(s) PROVE TypeOK'
  <2>1. StoreTypeOK'
    BY <1>14 DEF orphanGet, StoreTypeOK, Fault, NoFault
  <2>2. SweeperTypeOK'
    <3>1. CASE Skip(s, "orphanNext")
      BY Zenon, <1>14, <3>1, SkipType DEF orphanGet, SweeperTypeOK
    <3>2. CASE ~Skip(s, "orphanNext")
      <4>1. cur[s] \in Terminals /\ lease[cur[s]] \in Leases
        BY Zenon, <1>14 DEF orphanGet, SweeperTypeOK, StoreTypeOK
      <4>2. rd' \in [Sweepers -> Gens \cup {0}]
        BY Zenon, <1>14, <3>2, <4>1, LeaseTypes DEF orphanGet, SweeperTypeOK
      <4>3. UNCHANGED <<page, cur, token, paused, age, held, tries, stored, target>> /\ Goto(s, "orphanCheck")
        BY Zenon, <1>14, <3>2 DEF orphanGet
      <4> QED
        BY ZenonT(60), <4>1, <4>2, <4>3 DEF SweeperTypeOK, Goto
    <3> QED
      BY Zenon, <3>1, <3>2
  <2> QED
    BY Zenon, <2>1, <2>2
<1>15. ASSUME NEW s \in Sweepers, orphanCheck(s) PROVE TypeOK'
  <2>1. StoreTypeOK'
    BY <1>15 DEF orphanCheck, StoreTypeOK, Fault, NoFault
  <2>2. SweeperTypeOK'
    <3>1. CASE Skip(s, "orphanNext")
      BY Zenon, <1>15, <3>1, SkipType DEF orphanCheck, SweeperTypeOK
    <3>2. CASE ~Skip(s, "orphanNext")
      BY <1>15, <3>2 DEF orphanCheck, SweeperTypeOK, Goto
    <3> QED
      BY Zenon, <3>1, <3>2
  <2> QED
    BY Zenon, <2>1, <2>2
<1>16. ASSUME NEW s \in Sweepers, orphanDelete(s) PROVE TypeOK'
  <2>1. StoreTypeOK'
    <3>1. cur[s] \in Terminals
      BY Zenon, <1>16 DEF orphanDelete, SweeperTypeOK
    <3>2. lease' \in {lease, [lease EXCEPT ![cur[s]] = NoLease]}
      BY Zenon, <1>16 DEF orphanDelete
    <3> QED
      BY <1>16, <3>1, <3>2, LeaseTypes DEF orphanDelete, StoreTypeOK, Fault, NoFault
  <2>2. SweeperTypeOK'
    BY Zenon, <1>16 DEF orphanDelete, SweeperTypeOK, Skip, Forget
  <2> QED
    BY Zenon, <2>1, <2>2
<1>17. ASSUME NEW s \in Sweepers, orphanDone(s) PROVE TypeOK'
  <2>1. StoreTypeOK'
    BY Zenon, <1>17 DEF orphanDone, StoreTypeOK
  <2>2. SweeperTypeOK'
    BY Zenon, <1>17 DEF orphanDone, SweeperTypeOK, Goto
  <2> QED
    BY Zenon, <2>1, <2>2
<1>18. ASSUME NEW s \in Sweepers, Crash(s) PROVE TypeOK'
  <2>1. StoreTypeOK'
    BY <1>18 DEF Crash, StoreTypeOK, Fault, NoFault
  <2>2. SweeperTypeOK'
    BY Zenon, <1>18 DEF Crash, SweeperTypeOK, Forget
  <2> QED
    BY Zenon, <2>1, <2>2
<1>19. ASSUME Tick PROVE TypeOK'
  <2>1. StoreTypeOK'
    BY <1>19, SMTT(30) DEF Tick, StoreTypeOK, Older, Leases
  <2>2. SweeperTypeOK'
    BY <1>19 DEF Tick, SweeperTypeOK
  <2> QED
    BY Zenon, <2>1, <2>2
<1>20. ASSUME UNCHANGED vars PROVE TypeOK'
  BY Zenon, <1>20 DEF StoreTypeOK, SweeperTypeOK
<1> QED
  BY Zenon, <1>1, <1>2, <1>3, <1>4, <1>5, <1>6, <1>7, <1>8, <1>9, <1>10, <1>11, <1>12, <1>13, <1>14, <1>15, <1>16, <1>17, <1>18, <1>19, <1>20 DEF Next, Step

-----------------------------------------------------------------------------

FilingPCs == {"replay", "filePut", "fileDelete"}
ReadPCs == {"claimPut", "orphanCheck", "orphanDelete"}

\* Nothing about the copies changes when a sweeper moves outside sweepObject's
\* replay and file and touches no pending object or copy.
LEMMA QuietCopy ==
  ASSUME CopyInv, NEW s \in Sweepers, UNCHANGED <<pending, filed, settled, parks>>,
         pc'[s] \notin FilingPCs,
         \A r \in Sweepers \ {s} : pc'[r] = pc[r] /\ cur'[r] = cur[r] /\ target'[r] = target[r]
  PROVE  CopyInv'
<1>1. NoTerminalLost' /\ FiledByFate'
  BY Zenon DEF CopyInv, NoTerminalLost, FiledByFate
<1>2. ParkedInv'
  BY Zenon DEF CopyInv, ParkedInv, FilingPCs
<1>3. FilingInv'
  BY Zenon DEF CopyInv, FilingInv, Deserved, FilingPCs
<1> QED
  BY Zenon, <1>1, <1>2, <1>3 DEF CopyInv

\* What was read of a lease stays true when a sweeper moves away from its read
\* and the lease objects stay or get a generation nobody has read.
LEMMA QuietLease ==
  ASSUME TypeOK, LeaseInv, NEW s \in Sweepers, pc'[s] \notin ReadPCs,
         \A r \in Sweepers \ {s} : pc'[r] = pc[r] /\ cur'[r] = cur[r] /\ rd'[r] = rd[r],
         \A t \in Terminals : lease'[t] = lease[t] \/ lease'[t].gen = 0 \/ lease'[t].gen \notin InUse
  PROVE  LeaseInv'
<1> SUFFICES ASSUME NEW r \in Sweepers, pc'[r] \in ReadPCs, rd'[r] # 0, lease'[cur'[r]].gen = rd'[r]
             PROVE  lease'[cur'[r]].left <= 0
  BY Zenon DEF LeaseInv, ReadPCs
<1>1. r # s /\ pc[r] \in ReadPCs /\ cur'[r] = cur[r] /\ rd'[r] = rd[r]
  OBVIOUS
<1>2. cur[r] \in Terminals /\ rd[r] \in InUse
  BY Zenon, <1>1 DEF TypeOK, SweeperTypeOK, ReadPCs, InUse
<1>3. lease'[cur[r]] = lease[cur[r]]
  BY Zenon, <1>1, <1>2
<1> QED
  BY Zenon, <1>1, <1>3 DEF LeaseInv, ReadPCs

\* The copies keep up with the pending objects (file's copy before delete), one
\* step per operation that moves a terminal.
LEMMA CopyStep == TypeOK /\ TypeOK' /\ CopyInv /\ [Next]_vars => CopyInv'
<1> SUFFICES ASSUME TypeOK, TypeOK', CopyInv, [Next]_vars PROVE CopyInv'
  OBVIOUS
<1> USE DEF TypeOK, SweeperTypeOK, PCs, ClaimPCs, HeldPCs, OrphanPCs, Prefixes, vars, objects, locals, FilingPCs
<1>1. ASSUME NEW t \in Terminals, Park(t) PROVE CopyInv'
  <2>0. Fresh \in Gens /\ Fresh # 0
    BY Zenon, <1>1, FreshIsNew, ConstantsAssumption DEF Park
  <2>1. NoTerminalLost'
    BY ZenonT(60), <1>1, <2>0 DEF Park, CopyInv, NoTerminalLost, StoreTypeOK
  <2>2. ParkedInv'
    BY <1>1, <2>0 DEF Park, CopyInv, ParkedInv, StoreTypeOK
  <2>3. FilingInv' /\ FiledByFate'
    BY Zenon, <1>1 DEF Park, CopyInv, FilingInv, Deserved, FiledByFate
  <2> QED
    BY Zenon, <2>1, <2>2, <2>3 DEF CopyInv
<1>2. ASSUME NEW s \in Sweepers, getPending(s) PROVE CopyInv'
  <2>1. NoTerminalLost' /\ FiledByFate'
    BY Zenon, <1>2 DEF getPending, CopyInv, NoTerminalLost, FiledByFate
  <2>2. ParkedInv'
    BY <1>2 DEF getPending, CopyInv, ParkedInv, Goto
  <2>3. FilingInv'
    BY <1>2 DEF getPending, CopyInv, FilingInv, Deserved, Goto
  <2> QED
    BY Zenon, <2>1, <2>2, <2>3 DEF CopyInv
<1>3. ASSUME NEW s \in Sweepers, replay(s) PROVE CopyInv'
  <2>1. NoTerminalLost'
    BY Zenon, <1>3 DEF replay, CopyInv, NoTerminalLost
  <2>2. ParkedInv'
    BY <1>3 DEF replay, CopyInv, ParkedInv, Goto
  <2>3. FiledByFate' /\ settled \subseteq settled'
    BY Zenon, <1>3 DEF replay, CopyInv, FiledByFate
  <2>4. FilingInv'
    <3>1. \A r \in Sweepers \ {s} : pc'[r] = pc[r] /\ cur'[r] = cur[r] /\ target'[r] = target[r]
      BY <1>3 DEF replay, Goto
    <3>2. filed' = filed /\ cur'[s] = cur[s]
      BY Zenon, <1>3 DEF replay
    <3>3. pc'[s] # "fileDelete"
      BY <1>3 DEF replay, Goto
    <3>4. pc'[s] = "filePut" => Deserved(target[s], cur[s])'
      BY <1>3, ConstantsAssumption DEF replay, Goto, Deserved, classify, Transient, Fates
    <3> QED
      BY Zenon, <2>3, <3>1, <3>2, <3>3, <3>4 DEF CopyInv, FilingInv, Deserved
  <2> QED
    BY Zenon, <2>1, <2>2, <2>3, <2>4 DEF CopyInv
<1>4. ASSUME NEW s \in Sweepers, filePut(s) PROVE CopyInv'
  <2>0. /\ cur[s] \in Terminals /\ pc[s] = "filePut" /\ UNCHANGED <<pending, parks, settled, cur, target>>
        /\ filed' \in {filed, [filed EXCEPT ![cur[s]] = @ \cup {target[s]}]}
        /\ \A r \in Sweepers \ {s} : pc'[r] = pc[r]
    BY Zenon, <1>4 DEF filePut, Goto
  <2>1. NoTerminalLost'
    BY <2>0, SMTT(30) DEF CopyInv, NoTerminalLost, StoreTypeOK
  <2>2. ParkedInv'
    BY Zenon, <2>0 DEF CopyInv, ParkedInv
  <2>3. FilingInv'
    BY <1>4, <2>0, SMTT(30) DEF filePut, Goto, CopyInv, FilingInv, Deserved, StoreTypeOK
  <2>4. FiledByFate'
    <3>1. Deserved(target[s], cur[s])
      BY Zenon, <2>0 DEF CopyInv, FilingInv
    <3>2. \A t \in Terminals : filed'[t] \subseteq filed[t] \cup (IF t = cur[s] THEN {target[s]} ELSE {})
      BY <2>0 DEF StoreTypeOK
    <3> QED
      BY <2>0, <3>1, <3>2 DEF CopyInv, Deserved, FiledByFate
  <2> QED
    BY Zenon, <2>1, <2>2, <2>3, <2>4 DEF CopyInv
<1>5. ASSUME NEW s \in Sweepers, fileDelete(s) PROVE CopyInv'
  <2>0. /\ cur[s] \in Terminals /\ pc[s] = "fileDelete" /\ UNCHANGED <<filed, parks, settled, cur, target>>
        /\ pending' \in {pending, [pending EXCEPT ![cur[s]] = 0]} /\ pc'[s] \notin FilingPCs
        /\ \A r \in Sweepers \ {s} : pc'[r] = pc[r]
    BY ZenonT(60), <1>5 DEF fileDelete, Goto
  <2>1. NoTerminalLost'
    BY <2>0 DEF CopyInv, FilingInv, NoTerminalLost, StoreTypeOK
  <2>2. ParkedInv'
    BY Zenon, <2>0 DEF CopyInv, ParkedInv, StoreTypeOK
  <2>3. FilingInv' /\ FiledByFate'
    BY Zenon, <2>0 DEF CopyInv, FilingInv, Deserved, FiledByFate
  <2> QED
    BY Zenon, <2>1, <2>2, <2>3 DEF CopyInv
<1>6. ASSUME NEW s \in Sweepers, Sweep(s) \/ NextObject(s) \/ claimGet(s) \/ claimPut(s) \/ dropLease(s) \/ releaseLease(s)
      PROVE  CopyInv'
  <2>1. CASE Sweep(s)
    BY ZenonT(60), <2>1, QuietCopy DEF Sweep, Goto
  <2>2. CASE NextObject(s)
    BY ZenonT(60), <2>2, QuietCopy DEF NextObject, Goto, Take
  <2>3. CASE claimGet(s)
    BY ZenonT(60), <2>3, QuietCopy DEF claimGet, Goto, Skip, Forget
  <2>4. CASE claimPut(s)
    BY <2>4, QuietCopy DEF claimPut, newLease, Goto, Skip, Forget
  <2>5. CASE dropLease(s)
    BY Zenon, <2>5, QuietCopy DEF dropLease, Skip, Forget
  <2>6. CASE releaseLease(s)
    BY <2>6, QuietCopy DEF releaseLease, Skip, Forget
  <2> QED
    BY Zenon, <1>6, <2>1, <2>2, <2>3, <2>4, <2>5, <2>6
<1>7. ASSUME NEW s \in Sweepers,
             orphanList(s) \/ orphanNext(s) \/ orphanGet(s) \/ orphanCheck(s) \/ orphanDelete(s) \/ orphanDone(s)
      PROVE  CopyInv'
  <2>1. CASE orphanList(s)
    BY ZenonT(60), <2>1, QuietCopy DEF orphanList, Goto
  <2>2. CASE orphanNext(s)
    BY Zenon, <2>2, QuietCopy DEF orphanNext, Goto, Take
  <2>3. CASE orphanGet(s)
    BY ZenonT(60), <2>3, QuietCopy DEF orphanGet, Goto, Skip, Forget
  <2>4. CASE orphanCheck(s)
    BY <2>4, QuietCopy DEF orphanCheck, Goto, Skip, Forget
  <2>5. CASE orphanDelete(s)
    BY Zenon, <2>5, QuietCopy DEF orphanDelete, Skip, Forget
  <2>6. CASE orphanDone(s)
    BY ZenonT(60), <2>6, QuietCopy DEF orphanDone, Goto
  <2> QED
    BY Zenon, <1>7, <2>1, <2>2, <2>3, <2>4, <2>5, <2>6
<1>8. ASSUME NEW s \in Sweepers, Crash(s) PROVE CopyInv'
  BY <1>8, QuietCopy DEF Crash, Forget
<1>9. ASSUME UNCHANGED <<pending, filed, settled, parks, pc, cur, target>> PROVE CopyInv'
  BY Zenon, <1>9 DEF CopyInv, NoTerminalLost, ParkedInv, FilingInv, Deserved, FiledByFate
<1> QED
  BY Zenon, <1>1, <1>2, <1>3, <1>4, <1>5, <1>6, <1>7, <1>8, <1>9 DEF Next, Step, Tick

\* A lease read as over stays over (claim and sweepLeases), one step per
\* operation that reads or writes a lease.
LEMMA LeaseStep == TypeOK /\ TypeOK' /\ LeaseInv /\ [Next]_vars => LeaseInv'
<1> SUFFICES ASSUME TypeOK, TypeOK', LeaseInv, [Next]_vars PROVE LeaseInv'
  OBVIOUS
<1> USE DEF PCs, ClaimPCs, HeldPCs, OrphanPCs, vars, objects, locals, ReadPCs
<1>0. ASSUME NEW s \in Sweepers, pc[s] \notin {"idle", "next", "orphanNext"}
      PROVE  /\ cur[s] \in Terminals
             /\ lease[cur[s]] \in Leases
             /\ lease[cur[s]].left \in Int
             /\ age[s] \in Nat
  BY Zenon, <1>0, LeaseTypes DEF TypeOK, SweeperTypeOK, StoreTypeOK
<1>1. ASSUME NEW s \in Sweepers, claimGet(s) PROVE LeaseInv'
  <2>1. CASE Skip(s, "next")
    BY ZenonT(60), <1>1, <2>1, QuietLease DEF claimGet, Skip, Forget, TypeOK, SweeperTypeOK
  <2>2. CASE ~Live(cur[s], s) /\ lease' = lease /\ cur' = cur /\ rd' = [rd EXCEPT ![s] = lease[cur[s]].gen] /\ Goto(s, "claimPut")
    <3>1. lease[cur[s]].gen # 0 => lease[cur[s]].left <= 0
      BY <1>0, <1>1, <2>2 DEF Live, claimGet
    <3> QED
      BY Zenon, <2>2, <3>1 DEF LeaseInv, Goto, TypeOK, SweeperTypeOK
  <2> QED
    BY Zenon, <1>1, <2>1, <2>2 DEF claimGet
<1>2. ASSUME NEW s \in Sweepers, orphanGet(s) PROVE LeaseInv'
  <2>1. CASE Skip(s, "orphanNext")
    BY ZenonT(60), <1>2, <2>1, QuietLease DEF orphanGet, Skip, Forget, TypeOK, SweeperTypeOK
  <2>2. CASE ~Live(cur[s], s) /\ lease' = lease /\ cur' = cur /\ rd' = [rd EXCEPT ![s] = lease[cur[s]].gen] /\ Goto(s, "orphanCheck")
    <3>1. lease[cur[s]].gen # 0 => lease[cur[s]].left <= 0
      BY <1>0, <1>2, <2>2 DEF Live, orphanGet
    <3> QED
      BY Zenon, <2>2, <3>1 DEF LeaseInv, Goto, TypeOK, SweeperTypeOK
  <2> QED
    BY Zenon, <1>2, <2>1, <2>2 DEF orphanGet
<1>3. ASSUME NEW s \in Sweepers, orphanCheck(s) PROVE LeaseInv'
  <2>1. CASE Skip(s, "orphanNext")
    BY ZenonT(60), <1>3, <2>1, QuietLease DEF orphanCheck, Skip, Forget, TypeOK, SweeperTypeOK
  <2>2. CASE Goto(s, "orphanDelete") /\ UNCHANGED <<cur, rd, lease>>
    BY Zenon, <1>3, <2>2 DEF orphanCheck, LeaseInv, Goto, TypeOK, SweeperTypeOK
  <2> QED
    BY Zenon, <1>3, <2>1, <2>2 DEF orphanCheck
<1>4. ASSUME NEW s \in Sweepers, claimPut(s) PROVE LeaseInv'
  <2>1. pc'[s] \notin ReadPCs /\ \A r \in Sweepers \ {s} : pc'[r] = pc[r] /\ cur'[r] = cur[r] /\ rd'[r] = rd[r]
    BY <1>4 DEF claimPut, newLease, Goto, Skip, Forget, TypeOK, SweeperTypeOK
  <2>2. \A t \in Terminals : lease'[t] = lease[t] \/ lease'[t].gen = 0 \/ lease'[t].gen \notin InUse
    <3>1. \/ lease' = lease
          \/ lease' = [lease EXCEPT ![cur[s]] =
                          [gen |-> Fresh, owner |-> s, left |-> LeaseTicks - age[s], attempts |-> tries[s]]]
      BY Zenon, <1>4 DEF claimPut, newLease
    <3>2. Fresh \notin InUse
      BY Zenon, <1>4, FreshIsNew DEF claimPut, newLease
    <3> QED
      BY <3>1, <3>2 DEF TypeOK, StoreTypeOK
  <2> QED
    BY Zenon, <2>1, <2>2, QuietLease
<1>5. ASSUME NEW s \in Sweepers, releaseLease(s) PROVE LeaseInv'
  <2>1. pc'[s] \notin ReadPCs /\ \A r \in Sweepers \ {s} : pc'[r] = pc[r] /\ cur'[r] = cur[r] /\ rd'[r] = rd[r]
    BY <1>5, SMTT(30) DEF releaseLease, Goto, Skip, Forget, TypeOK, SweeperTypeOK
  <2>2. \A t \in Terminals : lease'[t] = lease[t] \/ lease'[t].gen = 0 \/ lease'[t].gen \notin InUse
    BY <1>5, FreshIsNew, SMTT(30) DEF releaseLease, TypeOK, StoreTypeOK
  <2> QED
    BY Zenon, <2>1, <2>2, QuietLease
<1>6. ASSUME NEW s \in Sweepers, dropLease(s) \/ orphanDelete(s) PROVE LeaseInv'
  <2>1. pc'[s] \notin ReadPCs /\ \A r \in Sweepers \ {s} : pc'[r] = pc[r] /\ cur'[r] = cur[r] /\ rd'[r] = rd[r]
    BY <1>6 DEF dropLease, orphanDelete, Skip, Forget, TypeOK, SweeperTypeOK
  <2>2. \A t \in Terminals : lease'[t] = lease[t] \/ lease'[t].gen = 0 \/ lease'[t].gen \notin InUse
    <3>1. lease' = lease \/ lease' = [lease EXCEPT ![cur[s]] = NoLease]
      BY Zenon, <1>6 DEF dropLease, orphanDelete
    <3> QED
      BY <3>1 DEF NoLease, TypeOK, StoreTypeOK
  <2> QED
    BY Zenon, <2>1, <2>2, QuietLease
<1>7. ASSUME NEW s \in Sweepers,
             Sweep(s) \/ NextObject(s) \/ getPending(s) \/ replay(s) \/ filePut(s) \/ fileDelete(s)
             \/ orphanList(s) \/ orphanNext(s) \/ orphanDone(s) \/ Crash(s)
      PROVE LeaseInv'
  <2>1. CASE Sweep(s)
    BY Zenon, <2>1, QuietLease DEF Sweep, Goto, TypeOK, SweeperTypeOK
  <2>2. CASE NextObject(s)
    BY ZenonT(60), <2>2, QuietLease DEF NextObject, Goto, Take, TypeOK, SweeperTypeOK
  <2>3. CASE getPending(s)
    BY <2>3, QuietLease, SMTT(30) DEF getPending, Goto, TypeOK, SweeperTypeOK
  <2>4. CASE replay(s)
    BY <2>4, QuietLease DEF replay, Goto, TypeOK, SweeperTypeOK
  <2>5. CASE filePut(s)
    BY Zenon, <2>5, QuietLease DEF filePut, Goto, TypeOK, SweeperTypeOK
  <2>6. CASE fileDelete(s)
    BY Zenon, <2>6, QuietLease DEF fileDelete, Goto, TypeOK, SweeperTypeOK
  <2>7. CASE orphanList(s)
    BY Zenon, <2>7, QuietLease DEF orphanList, Goto, TypeOK, SweeperTypeOK
  <2>8. CASE orphanNext(s)
    BY Zenon, <2>8, QuietLease DEF orphanNext, Goto, Take, TypeOK, SweeperTypeOK
  <2>9. CASE orphanDone(s)
    BY Zenon, <2>9, QuietLease DEF orphanDone, Goto, TypeOK, SweeperTypeOK
  <2>10. CASE Crash(s)
    BY ZenonT(60), <2>10, QuietLease DEF Crash, Forget, TypeOK, SweeperTypeOK
  <2> QED
    BY Zenon, <1>7, <2>1, <2>2, <2>3, <2>4, <2>5, <2>6, <2>7, <2>8, <2>9, <2>10
<1>8. ASSUME Tick PROVE LeaseInv'
  <2> SUFFICES ASSUME NEW r \in Sweepers, pc[r] \in ReadPCs, rd[r] # 0, lease'[cur[r]].gen = rd[r]
               PROVE  lease'[cur[r]].left <= 0
    BY Zenon, <1>8 DEF LeaseInv, Tick
  <2>1. cur[r] \in Terminals /\ lease[cur[r]] \in Leases /\ lease'[cur[r]] = Older(lease[cur[r]])
    BY Zenon, <1>0, <1>8 DEF Tick
  <2>2. lease'[cur[r]].gen = lease[cur[r]].gen /\ lease'[cur[r]].left <= lease[cur[r]].left
    BY <2>1 DEF Older, Leases
  <2>3. lease[cur[r]].left <= 0
    BY Zenon, <2>2 DEF LeaseInv
  <2>4. lease'[cur[r]].left \in Int /\ lease[cur[r]].left \in Int
    BY <2>1 DEF Older, Leases
  <2> QED
    BY <2>2, <2>3, <2>4
<1>9. CASE UNCHANGED vars
  BY Zenon, <1>9 DEF LeaseInv
<1> QED
  <2>1. ASSUME NEW t \in Terminals, Park(t) PROVE LeaseInv'
    BY Zenon, <2>1 DEF Park, LeaseInv
  <2> QED
    BY Zenon, <2>1, <1>1, <1>2, <1>3, <1>4, <1>5, <1>6, <1>7, <1>8, <1>9 DEF Next, Step

-----------------------------------------------------------------------------

\* The inductive invariant holds in every reachable state.
THEOREM Invariance == Spec => []IInv
<1>1. Init => IInv
  <2> SUFFICES ASSUME Init PROVE IInv
    OBVIOUS
  <2>1. StoreTypeOK
    BY Zenon, LeaseTypes DEF Init, StoreTypeOK
  <2>2. SweeperTypeOK
    BY Zenon DEF Init, SweeperTypeOK, PCs, ClaimPCs, HeldPCs, OrphanPCs, Prefixes
  <2>3. CopyInv /\ LeaseInv
    BY DEF Init, CopyInv, NoTerminalLost, ParkedInv, FilingInv, FiledByFate, LeaseInv
  <2> QED
    BY Zenon, <2>1, <2>2, <2>3 DEF IInv, TypeOK
<1>2. IInv /\ [Next]_vars => IInv'
  BY Zenon, TypeStep, CopyStep, LeaseStep DEF IInv
<1> QED
  BY <1>1, <1>2, PTL DEF Spec

\* Every variable keeps its type; no lease or backoff is longer than
\* DefaultLease and every sweeper past the page loop handles an object.
THEOREM TypeCorrect == Spec => []TypeOK
  BY Invariance, PTL DEF IInv

\* A parked terminal is pending or has a copy, for any number of sweepers,
\* failures and boot deaths (file: "nothing here deletes a terminal without a
\* copy of it existing first").
THEOREM TerminalKept == Spec => []NoTerminalLost
  BY Invariance, PTL DEF IInv, CopyInv

\* A copy lies under the prefix its terminal deserves (classify, file).
THEOREM FiledRight == Spec => []FiledByFate
  BY Invariance, PTL DEF IInv, CopyInv

\* What a step may do to a running lease.
Undisturbed ==
    \A t \in Terminals :
        lease[t].gen # 0 /\ lease[t].left > 0 /\ lease'[t].gen # lease[t].gen =>
            \E s \in Sweepers : pc[s] \in HeldPCs /\ held[s] = lease[t].gen /\ pc'[s] # pc[s]

\* A step that changes a running lease is one of the claim that wrote it: the
\* others read an older generation (claim, dropLease, releaseLease, sweepLeases).
LEMMA UndisturbedStep == IInv /\ Next => Undisturbed
<1> SUFFICES ASSUME IInv, Next, NEW t \in Terminals,
                    lease[t].gen # 0, lease[t].left > 0, lease'[t].gen # lease[t].gen
             PROVE  \E s \in Sweepers : pc[s] \in HeldPCs /\ held[s] = lease[t].gen /\ pc'[s] # pc[s]
  BY Zenon DEF Undisturbed
<1> USE DEF HeldPCs, objects
<1>0. lease \in [Terminals -> Leases] /\ lease[t].left \in Int /\ pc \in [Sweepers -> PCs]
  BY Zenon, LeaseTypes DEF IInv, TypeOK, StoreTypeOK, SweeperTypeOK
<1>1. ASSUME NEW s \in Sweepers, claimPut(s) PROVE FALSE
  <2>1. cur[s] = t /\ Matches(lease[t].gen, rd[s]) /\ pc[s] = "claimPut"
    BY Zenon, <1>0, <1>1 DEF claimPut, newLease
  <2> QED
    BY <1>0, <2>1 DEF IInv, LeaseInv, Matches
<1>2. ASSUME NEW s \in Sweepers, orphanDelete(s) PROVE FALSE
  <2>1. cur[s] = t /\ Matches(lease[t].gen, rd[s]) /\ pc[s] = "orphanDelete"
    BY Zenon, <1>0, <1>2 DEF orphanDelete
  <2> QED
    BY <1>0, <2>1 DEF IInv, LeaseInv, Matches
<1>3. ASSUME NEW s \in Sweepers, dropLease(s)
      PROVE  pc[s] \in HeldPCs /\ held[s] = lease[t].gen /\ pc'[s] # pc[s]
  BY Zenon, <1>0, <1>3 DEF dropLease, Matches, Skip
<1>4. ASSUME NEW s \in Sweepers, releaseLease(s)
      PROVE  pc[s] \in HeldPCs /\ held[s] = lease[t].gen /\ pc'[s] # pc[s]
  BY Zenon, <1>0, <1>4 DEF releaseLease, Matches, Skip
<1>5. ASSUME Tick PROVE FALSE
  BY Zenon, <1>0, <1>5 DEF Tick, Older, Leases
<1>6. ASSUME lease' = lease PROVE FALSE
  BY Zenon, <1>6
<1>7. ASSUME NEW s \in Sweepers, Step(s) \/ Crash(s)
      PROVE lease' = lease \/ claimPut(s) \/ orphanDelete(s) \/ dropLease(s) \/ releaseLease(s)
  BY Zenon, <1>7 DEF Step, Sweep, NextObject, claimGet, getPending, replay, filePut, fileDelete,
              orphanList, orphanNext, orphanGet, orphanCheck, orphanDone, Crash
<1> QED
  BY Zenon, <1>1, <1>2, <1>3, <1>4, <1>5, <1>6, <1>7 DEF Next, Park

\* A running lease is replaced or removed only by the claim that wrote it, for
\* any durations and any interleaving (the generation conditions of claim,
\* releaseLease, dropLease and sweepLeases).
THEOREM LeaseUndisturbed == Spec => LiveLeaseUndisturbed
<1>1. IInv /\ [Next]_vars => [Undisturbed]_vars
  BY Zenon, UndisturbedStep
<1> QED
  BY <1>1, Invariance, PTL DEF Spec, LiveLeaseUndisturbed, Undisturbed

-----------------------------------------------------------------------------

\* The sweepers, with their leases, retries and deaths, implement the outbox's
\* promise: a step parks, settles, files or discharges one terminal, or shows
\* nothing outside.
THEOREM Implements == Spec => OutboxSpec
<1>1. Init => Outbox!Init
  BY DEF Init, Outbox!Init, PendingNames
<1>2. IInv /\ [Next]_vars => [Outbox!Next]_(Outbox!vars)
  <2> SUFFICES ASSUME IInv, [Next]_vars PROVE Outbox!Next \/ UNCHANGED Outbox!vars
    OBVIOUS
  <2> USE DEF objects, Outbox!vars
  <2>1. ASSUME NEW t \in Terminals, Park(t) PROVE Outbox!Park(t)
    <3>1. Fresh # 0
      BY Zenon, <2>1, FreshIsNew, ConstantsAssumption DEF Park
    <3>2. PendingNames' = PendingNames \cup {t}
      BY Zenon, <2>1, <3>1 DEF Park, PendingNames, IInv, TypeOK, StoreTypeOK
    <3> QED
      BY Zenon, <2>1, <3>2 DEF Park, Outbox!Park
  <2>2. ASSUME NEW s \in Sweepers, pc[s] \in FilingPCs
        PROVE  cur[s] \in Terminals /\ Outbox!Known(cur[s])
    <3>1. cur[s] \in Terminals /\ parks[cur[s]] > 0
      BY Zenon, <2>2 DEF FilingPCs, IInv, TypeOK, SweeperTypeOK, CopyInv, ParkedInv
    <3> QED
      BY Zenon, <3>1 DEF IInv, CopyInv, NoTerminalLost, Outbox!Known, PendingNames
  <2>3. ASSUME NEW s \in Sweepers, replay(s) PROVE Outbox!Next \/ UNCHANGED Outbox!vars
    <3>1. UNCHANGED <<pending, filed>> /\ settled' \in {settled, settled \cup {cur[s]}} /\ pc[s] \in FilingPCs
      BY Zenon, <2>3 DEF replay, FilingPCs
    <3>2. CASE settled' = settled
      BY Zenon, <3>1, <3>2 DEF PendingNames
    <3>3. CASE settled' = settled \cup {cur[s]}
      <4>1. Outbox!Settle(cur[s])
        BY Zenon, <2>2, <3>1, <3>3 DEF Outbox!Settle, PendingNames
      <4> QED
        BY Zenon, <2>2, <3>1, <4>1 DEF Outbox!Next
    <3> QED
      BY Zenon, <3>1, <3>2, <3>3
  <2>4. ASSUME NEW s \in Sweepers, filePut(s) PROVE Outbox!Next \/ UNCHANGED Outbox!vars
    <3>1. /\ UNCHANGED <<pending, settled>> /\ pc[s] = "filePut" /\ target[s] \in Prefixes
          /\ filed' \in {filed, [filed EXCEPT ![cur[s]] = @ \cup {target[s]}]}
      BY Zenon, <2>4 DEF filePut, IInv, TypeOK, SweeperTypeOK
    <3>2. CASE filed' = filed
      BY Zenon, <3>1, <3>2 DEF PendingNames
    <3>3. CASE filed' = [filed EXCEPT ![cur[s]] = @ \cup {target[s]}]
      <4>1. target[s] = "done" => cur[s] \in settled
        BY Zenon, <3>1 DEF IInv, CopyInv, FilingInv, Deserved
      <4>2. Outbox!File(cur[s], target[s])
        BY Zenon, <2>2, <3>1, <3>3, <4>1 DEF Outbox!File, PendingNames, FilingPCs
      <4> QED
        BY Zenon, <2>2, <3>1, <4>2 DEF Outbox!Next, FilingPCs
    <3> QED
      BY Zenon, <3>1, <3>2, <3>3
  <2>5. ASSUME NEW s \in Sweepers, fileDelete(s) PROVE Outbox!Next \/ UNCHANGED Outbox!vars
    <3>1. /\ UNCHANGED <<filed, settled>> /\ pc[s] = "fileDelete"
          /\ pending' \in {pending, [pending EXCEPT ![cur[s]] = 0]}
      BY Zenon, <2>5 DEF fileDelete
    <3>2. CASE pending' = pending
      BY Zenon, <3>1, <3>2 DEF PendingNames
    <3>3. CASE pending' = [pending EXCEPT ![cur[s]] = 0]
      <4>1. filed[cur[s]] # {} /\ cur[s] \in Terminals
        BY Zenon, <2>2, <3>1 DEF IInv, CopyInv, FilingInv, FilingPCs
      <4>2. PendingNames' = PendingNames \ {cur[s]}
        BY Zenon, <3>3, <4>1 DEF PendingNames, IInv, TypeOK, StoreTypeOK
      <4>3. Outbox!Discharge(cur[s])
        BY Zenon, <3>1, <4>1, <4>2 DEF Outbox!Discharge
      <4> QED
        BY Zenon, <4>1, <4>3 DEF Outbox!Next
    <3> QED
      BY Zenon, <3>1, <3>2, <3>3
  <2>6. ASSUME UNCHANGED <<pending, filed, settled>> PROVE UNCHANGED Outbox!vars
    BY Zenon, <2>6 DEF PendingNames
  <2>7. ASSUME NEW s \in Sweepers, Step(s) \/ Crash(s)
        PROVE  UNCHANGED <<pending, filed, settled>> \/ replay(s) \/ filePut(s) \/ fileDelete(s)
    BY Zenon, <2>7 DEF Step, Sweep, NextObject, claimGet, claimPut, newLease, getPending, dropLease, releaseLease,
                orphanList, orphanNext, orphanGet, orphanCheck, orphanDelete, orphanDone, Crash
  <2>8. ASSUME Tick \/ UNCHANGED vars PROVE UNCHANGED <<pending, filed, settled>>
    BY Zenon, <2>8 DEF Tick, vars
  <2>9. ASSUME NEW t \in Terminals, Outbox!Park(t) PROVE Outbox!Next
    BY Zenon, <2>9 DEF Outbox!Next
  <2> QED
    BY Zenon, <2>1, <2>3, <2>4, <2>5, <2>6, <2>7, <2>8, <2>9 DEF Next
<1> QED
  BY <1>1, <1>2, Invariance, PTL DEF Spec, OutboxSpec, Outbox!Spec
=============================================================================
