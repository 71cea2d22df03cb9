------------------------------ MODULE MCEvKqueue ------------------------------
(* One listening socket, two worker connections and one timer.  In the    *)
(* separate instance each worker sends on a descriptor nobody watches; in  *)
(* the paired one the two workers are the client and server side of one   *)
(* session, each sending on the other's receiving descriptor.              *)
EXTENDS EvKqueue, TLC

CONSTANTS m1, w1, w2, t1, fl, fc, f1, f2, s1, s2

MCMain == {m1}
MCWorker == {w1, w2}
MCPeriodic == {t1}
MCFds == {fl, fc, f1, f2, s1, s2}
MCFd0 == (m1 :> fl) @@ (w1 :> f1) @@ (w2 :> f2)
MCFd1Separate == (m1 :> fc) @@ (w1 :> s1) @@ (w2 :> s2)
MCFd1Paired == (m1 :> fc) @@ (w1 :> f2) @@ (w2 :> f1)
====
