----------------------------- MODULE MCThreadPool -----------------------------
(* Instances of ThreadPool for TLC. *)
EXTENDS ThreadPool

CONSTANTS w1, w2, main, t1, t2, t3

TwoWorkers == {w1, w2}
OneClient == {main}
ThreeTasks == {t1, t2, t3}
OnlyDrain == {TRUE}
=============================================================================
