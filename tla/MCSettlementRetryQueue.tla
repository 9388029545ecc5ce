---------------------- MODULE MCSettlementRetryQueue ----------------------
EXTENDS SettlementRetryQueue, TLC

CONSTANTS j1, j2, j3

twoJobs == {j1, j2}
threeJobs == {j1, j2, j3}
symmetric == Permutations(threeJobs)
=============================================================================
