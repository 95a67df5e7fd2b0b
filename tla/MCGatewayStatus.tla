---------------------------- MODULE MCGatewayStatus ----------------------------
(***************************************************************************)
(* Instances of GatewayStatus for TLC: a TCP listener, and one that is TLS *)
(* or HTTPS, each with a route at first.                                   *)
(***************************************************************************)
EXTENDS GatewayStatus

CONSTANTS tcp, tls, a, b, c, x, y, tcpWorker, tlsWorker

Cfg(protocol, opt) == [protocol |-> protocol, opt |-> opt]
Set(t, u) == [l \in Listeners |-> IF l = tcp THEN t ELSE u]

\* A TLS listener that changes its mode changes its session.
KindsChange == Set({Cfg("TCP", FALSE)}, {Cfg("TLS", TRUE), Cfg("TLS", FALSE)})

\* The class enables passthrough or not.
SniOrNot == {[pp |-> FALSE, sni |-> s] : s \in BOOLEAN}

\* a and c share the TCP listener; a may get another backend.
Tcp(backend) == [parent |-> tcp, backend |-> backend]
OnTls        == [parent |-> tls, backend |-> x]

MCWishesOf ==
  [r \in Routes |-> CASE r = a -> {None, Tcp(x), Tcp(y)}
                      [] r = b -> {None, OnTls}
                      [] OTHER -> {None, Tcp(x)}]

AllByOne == [r \in Routes |-> tcpWorker]
ByKind   == [r \in Routes |-> IF r = b THEN tlsWorker ELSE tcpWorker]

MCWanted ==
  [r \in Routes |-> CASE r = a -> Tcp(x) [] r = b -> OnTls [] OTHER -> None]

\* Created for passthrough with a class that does not enable it: an edit enables
\* its session, a second one disables it again or ends the passthrough.
Passthrough ==
  {<<Set(Cfg("TCP", FALSE), Cfg("TLS", TRUE)), [pp |-> FALSE, sni |-> FALSE], MCWanted>>}

\* HTTPS is never served; the TCP listener is on the PROXY protocol session.
SomeRejected == Set({Cfg("TCP", TRUE)}, {Cfg("HTTPS", FALSE)})
ProxyClass   == {[pp |-> TRUE, sni |-> FALSE]}

Https == {<<Set(Cfg("TCP", TRUE), Cfg("HTTPS", FALSE)), [pp |-> TRUE, sni |-> FALSE], MCWanted>>}
===============================================================================
