---------------------------- MODULE MCGatewayRoutes ----------------------------
(***************************************************************************)
(* Instances of GatewayRoutes for TLC.                                     *)
(***************************************************************************)
EXTENDS GatewayRoutesProps, TLC

CONSTANTS g1, g2, l1, l2

dev == <<"dev">>
localhost == <<"localhost">>

Cfg(host, port, enforce, rejected) ==
  [host |-> host, port |-> port, enforce |-> enforce, rejected |-> rejected]

http  == Cfg(dev, 80, FALSE, FALSE)          \* HTTP with a hostname
any   == Cfg(localhost, 80, FALSE, FALSE)    \* HTTP without
tcp   == Cfg(localhost, 9000, TRUE, FALSE)   \* TCP
https == Cfg(dev, 80, FALSE, TRUE)           \* HTTPS: rejected

Uri(scheme, host, port) == [scheme |-> scheme, host |-> host, port |-> port]

DevURI  == {Uri("https", dev, 0)}
OneGw   == [l \in Listeners |-> g1]

\* One listener that may change its protocol, or its key too; a second one with
\* a key of its own.
Protocol == [l \in Listeners |-> {http, https}]
Rekeyed  == [l \in Listeners |-> {http, any, https}]
Apart    == [l \in Listeners |-> IF l = l1 THEN {http, any} ELSE {tcp}]

\* Routes, and backends, are interchangeable.
Symmetry == Permutations(Routes) \cup Permutations(Backends)
===============================================================================
