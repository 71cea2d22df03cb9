------------------------------ MODULE MCEvEpoll ------------------------------
(* One listening socket, two worker connections and one timer.            *)
EXTENDS EvEpoll

CONSTANTS m1, w1, w2, t1

MCMain == {m1}
MCWorker == {w1, w2}
MCPeriodic == {t1}
====
