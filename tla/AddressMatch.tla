----------------------------- MODULE AddressMatch -----------------------------
(***************************************************************************)
(* How a URI announced by the SSH server is compared with the hostname and *)
(* port a forwarding asked for: MatchesRequestedHost and its two helpers   *)
(* in ssh/ssh_tunnel_manager.go, and isForwardingValid in                  *)
(* controllers/gateway_controller.go, which asks the same question again   *)
(* at every periodic reconciliation.                                       *)
(*                                                                         *)
(* A URI is the record [scheme, host, port]; getRemoteAddress produces     *)
(* "http", "https" and "tcp" only.  A host is a sequence of labels, so     *)
(* that "one host name ends with another" is IsSuffix and no string is     *)
(* taken apart.  A request is a ForwardingConfig without its backend.      *)
(***************************************************************************)
EXTENDS Naturals, Sequences
LOCAL INSTANCE SequencesExt

WildcardHosts == {<<>>, <<"0.0.0.0">>, <<"localhost">>}

Wildcard(host) == host \in WildcardHosts

IsHTTP(uri) == uri.scheme \in {"http", "https"}
IsTCP(uri)  == uri.scheme = "tcp"

\* The host starts right after the scheme and ends at "/", ":" or the end of
\* the URI, so a prefix followed by a boundary is the whole host.
httpURIHasHost(uri, host) == IsHTTP(uri) /\ uri.host = host

tcpURIPort(uri) == uri.port

\* The decimal form of port p starts the decimal form of port q (q < 10^5).
StartsDigits(p, q) ==
  \/ p = q
  \/ p > 0 /\ \E n \in 0..4 : q \div (10^n) = p

\* strings.Contains(uri, "host:port") on "tcp://<uri.host>:<uri.port>": the
\* text may start inside the URI's host and end inside its port.
ContainsHostPort(uri, host, port) ==
  IsSuffix(host, uri.host) /\ StartsDigits(port, uri.port)

URIMatches(uri, host, port, enforcePort) ==
  \/ IsHTTP(uri) /\ (Wildcard(host) \/ httpURIHasHost(uri, host))
  \/ /\ IsTCP(uri) /\ ~Wildcard(host)
     /\ ContainsHostPort(uri, host, port)
  \/ /\ IsTCP(uri) /\ Wildcard(host)
     /\ enforcePort => tcpURIPort(uri) = port

MatchesRequestedHost(uris, host, port, enforcePort) ==
  \E uri \in uris : URIMatches(uri, host, port, enforcePort)

\* awaitAssignedAddresses: a forwarding whose address is checked at all.
NeedsVerification(fwd) == ~Wildcard(fwd.host) \/ fwd.enforce

\* handleAssignedURIs: the announced URIs are accepted for the request.
Accepts(fwd, uris) ==
  NeedsVerification(fwd) =>
    MatchesRequestedHost(uris, fwd.host, fwd.port, fwd.enforce)

\* The addresses a forwarding may be registered with: only one that asked for
\* no particular host or port may have none.
MayStore(fwd, uris) ==
  IF uris = {} THEN ~NeedsVerification(fwd) ELSE Accepts(fwd, uris)

\* Mutant: every URI must match where the code asks for one.
ForwardingValid_AllURIs(fwd, addrs) ==
  addrs # {} /\ \A uri \in addrs :
                  URIMatches(uri, fwd.host, fwd.port, fwd.enforce)

\* isForwardingValid on the addresses stored for the listener ({} when none).
\* Its own list of wildcard names leaves out the empty host.
ForwardingValid(fwd, addrs) ==
  /\ addrs # {}
  /\ \/ fwd.host \in {<<"0.0.0.0">>, <<"localhost">>} /\ ~fwd.enforce
     \/ MatchesRequestedHost(addrs, fwd.host, fwd.port, fwd.enforce)
===============================================================================
