-------------------------- MODULE MCBackgroundJobs --------------------------
(* Small instances of BackgroundJobs.  A worker that takes a lease holds none, *)
(* so at most the other worker and each claimed job refer to one: with two    *)
(* workers and k jobs that are claimed, k + 2 lease ids make new_id() total.   *)
EXTENDS BackgroundJobs, TLC

CONSTANTS w1, w2, k1, k2, p1, p2, h1, l1, l2, l3

TwoWorkers == {w1, w2}
OneKey     == {k1}
TwoKeys    == {k1, k2}
OnePayload == {p1}
TwoPayloads == {p1, p2}
OneHold    == {h1}
NoHolds    == {}
ThreeLeases == {l1, l2, l3}

(* Nothing tells workers, payloads or lease ids apart but their identity.      *)
Symmetry == Permutations(Workers) \cup Permutations(Payloads) \cup Permutations(LeaseIds)

(* The second job is there for its place in the queue: it is triggered, and    *)
(* waits.  What happens after its first claim or hold is not explored.        *)
SecondWaits == jobs[k2].status \in {"missing", "queued"} /\ jobs[k2].holds = {}
=============================================================================
