---------------------------- MODULE MCThreadPool ----------------------------
(* Small instances of ThreadPool for TLC. *)
EXTENDS ThreadPool

CONSTANTS t1, t2, t3, j1, j2, j3

TwoThreads == {t1, t2}
ThreeThreads == {t1, t2, t3}
ThreeJobs == {j1, j2, j3}
TwoJobs == {j1, j2}
=============================================================================
