---------------------------- MODULE MCTunnelManager ----------------------------
(***************************************************************************)
(* Instances of TunnelManager for TLC.  "web" asks for the hostname dev,   *)
(* as an HTTP listener with a hostname does; "any" is an HTTP listener     *)
(* without one (createListener turns it into localhost); "db" is a TCP     *)
(* listener pinning its port.  "web2" and "db2" have another backend, and  *)
(* the same forwarding key.                                                *)
(***************************************************************************)
EXTENDS TunnelManagerProps

dev == <<"dev">>
localhost == <<"localhost">>

web  == [host |-> dev, port |-> 80, backend |-> "a", enforce |-> FALSE]
web2 == [web EXCEPT !.backend = "b"]
any  == [host |-> localhost, port |-> 80, backend |-> "a", enforce |-> FALSE]
db   == [host |-> localhost, port |-> 9000, backend |-> "a", enforce |-> TRUE]
db2  == [db EXCEPT !.backend = "b"]

Uri(scheme, host, port) == [scheme |-> scheme, host |-> host, port |-> port]

\* For a hostname the server may assign the one asked for or another; for an
\* enforced port, the one asked for or another.
MCAnnounce(k) ==
  CASE k = KeyOf(web) -> {Uri("https", dev, 0), Uri("https", <<"rnd">>, 0)}
    [] k = KeyOf(any) -> {Uri("https", <<"any">>, 0)}
    [] k = KeyOf(db)  -> {Uri("tcp", <<"srv">>, 9000), Uri("tcp", <<"srv">>, 9001)}

DbDbAny == {db, db2, any}
WebOnly == {web, web2}
AnyOnly == {any}
NoKeys  == {}
WebKey  == {KeyOf(web)}
===============================================================================
