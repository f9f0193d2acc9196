---------------------------- MODULE MCCommsQueue ----------------------------
(* Small instances of CommsQueue for TLC. *)
EXTENDS CommsQueue, TLC

CONSTANTS j1, j2, r1, r2, p1, p2, k1, w1, w2

OneJob == {j1}
TwoJobs == {j1, j2}
OneRcpt == {r1}
TwoRcpts == {r1, r2}
OnePerson == {p1}
TwoPeople == {p1, p2}
OneKey == {k1}
OneRun == {w1}
TwoRuns == {w1, w2}
LiveOnly == {"live"}
BothModes == {"live", "dry-run"}

\* Bound: either one send with everything that can go wrong with it, or two sends by
\* two people, live, with one draft in all and no run that dies.
OneSend == jobs[j2] = UnusedJob /\ jobs[j1].key = NoKey
TwoSends == /\ faults = MaxFaults /\ nextDraft <= 2
            /\ \A w \in Workers : run[w].mode = "live"
            /\ \A r \in Rcpts : rcpts[r].attempts <= 1
WithinAScene == OneSend \/ TwoSends

Symmetry == Permutations({r1, r2}) \cup Permutations({p1, p2}) \cup Permutations({w1, w2})
=============================================================================
