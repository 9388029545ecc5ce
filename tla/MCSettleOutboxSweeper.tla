----------------------- MODULE MCSettleOutboxSweeper -----------------------
(* Instances of SettleOutboxSweeper for TLC. *)
EXTENDS SettleOutboxSweeper, TLC

SweeperSymmetry == Permutations(Sweepers)

\* One terminal the router settles.
OneSettles == [t \in Terminals |-> "2xx"]
\* One the router keeps failing, one it settles behind it.
StuckFirst == [t \in Terminals |-> IF t = 1 THEN "5xx" ELSE "2xx"]
\* One for each way out of pending/.
EveryFate == [t \in Terminals |-> IF t = 1 THEN "bootRefused" ELSE IF t = 2 THEN "404" ELSE "unverified"]
=============================================================================
