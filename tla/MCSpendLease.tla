---------------------------- MODULE MCSpendLease ----------------------------
(* Instances of SpendLease: requests with keys of their own contend for    *)
(* the grant; requests with one key contend for the scope and, two of them *)
(* in one invocation, for the registry.                                    *)
EXTENDS SpendLease

CONSTANTS r1, r2, r3

ownInvocation == [r \in Req |-> r]
ownKey == [r \in Req |-> r]
sharedInvocation == [r \in Req |-> IF r = r3 THEN r3 ELSE r1]
sharedKey == [r \in Req |-> r1]
=============================================================================
