---------------------------- MODULE MCWorkerPoll ----------------------------
(* WorkerPoll with two workers and a client of the work API that compete for *)
(* one item, whose caller waits for it.                                      *)
EXTENDS WorkerPoll

CONSTANTS w1, w2, client, s1

MCWorkers == {w1, w2}
MCCallers == {w1, w2, client}
MCItems == {1}
MCAwaited == {1}
MCSessions == {s1}
=============================================================================
