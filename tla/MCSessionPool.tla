---------------------------- MODULE MCSessionPool ----------------------------
(***************************************************************************)
(* An instance of SessionPool for TLC: the Gateway reconciler and a route  *)
(* reconciler, both PROXY protocol versions, one forwarding.               *)
(***************************************************************************)
EXTENDS SessionPool, TLC

MCRequests == {[host |-> <<"localhost">>, port |-> 9000, backend |-> "a", enforce |-> TRUE]}
MCURIs == {[scheme |-> "tcp", host |-> <<"srv">>, port |-> 9000]}
Symmetry == Permutations(Managers) \cup Permutations(Callers)
==============================================================================
