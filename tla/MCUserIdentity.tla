-------------------------- MODULE MCUserIdentity --------------------------
(* Instances of UserIdentity for TLC: one process with several threads     *)
(* (the unit test), and several single-threaded processes (the deployment) *)
EXTENDS UserIdentity, TLC

CONSTANTS m1, m2, t1, t2, t3, p1, p2

TestProcOf == [t \in {t1, t2, t3} |-> p1]
WorkersProcOf == t1 :> p1 @@ t2 :> p2
OneWorkerProcOf == t1 :> p1

ThreadSymmetry == Permutations({t1, t2, t3}) \cup Permutations({m1, m2})
=============================================================================
