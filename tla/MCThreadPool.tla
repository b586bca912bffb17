---------------------------- MODULE MCThreadPool ----------------------------
(* Small pools for ThreadPool.                                               *)
EXTENDS ThreadPool

CONSTANTS t1, t2, t3

ThreeThreads == {t1, t2, t3}
TwoThreads == {t1, t2}

=============================================================================
