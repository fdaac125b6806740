---------------------------- MODULE MCWorkerPool ----------------------------
(* Instances of WorkerPool for TLC: hosts with addresses of their own, and   *)
(* two hosts of different networks that carry the same internal address.     *)
EXTENDS WorkerPool, TLC

CONSTANTS h1, h2, h3, ip1, ip2, ip3

OwnAddr    == (h1 :> ip1) @@ (h2 :> ip2) @@ (h3 :> ip3)
SharedAddr == (h1 :> ip1) @@ (h2 :> ip1) @@ (h3 :> ip2)
=============================================================================
