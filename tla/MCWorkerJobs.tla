---------------------------- MODULE MCWorkerJobs ----------------------------
EXTENDS WorkerJobs

CONSTANTS w1, w2

OneContent == <<"a">>
AllAble == [w \in {w1, w2} |-> 1 .. NJobs]
=============================================================================
