---------------------------- MODULE MCEvIoUring ----------------------------
(* Model-checking instance of EvIoUring: one listening socket, one or two  *)
(* connections, one timer; the bounds are given in the .cfg files.         *)
EXTENDS EvIoUring

CONSTANTS m1, w1, w2, t1

MCMain == {m1}
MCWorker1 == {w1}
MCWorker2 == {w1, w2}
MCPeriodic == {t1}
=============================================================================
