----------------------------- MODULE MCListener -----------------------------
(* Small instances of Worker and of the components that listen. *)
EXTENDS Listener

CONSTANTS c1, c2, w1, w2, j1, j2, j3

Clients == {c1, c2}
WorkerThreads == {w1, w2}
Jobs == {j1, j2, j3, Listen}
TwoJobs == {j1, j2}
EndlessJobs == {Listen}
AllKinds == {"pool", "queue", "sendreceiver", "sender", "sender2",
             "queuesender"}
SecondIsNoise == {2}
=============================================================================
