---------------------------- MODULE ForwardingTable ----------------------------
(***************************************************************************)
(* What one SSH session promises its callers: a table of forwardings with  *)
(* the public addresses the server gave them.  An entry appears only on an *)
(* open session, for a free key, and with URIs the request accepts; it     *)
(* goes when it is removed or when the session closes, and is never        *)
(* replaced in place.                                                      *)
(***************************************************************************)
CONSTANTS Requests,          \* the ForwardingConfigs callers may ask for
          URIs,              \* what the server may announce
          NoFwd,             \* no forwarding under this key
          KeyOf(_),          \* the key a request is filed under
          Acceptable(_, _)   \* a request may be entered with these URIs

Keys == {KeyOf(fwd) : fwd \in Requests}

VARIABLES open,    \* the session is connected
          table,   \* [Keys -> Requests \cup {NoFwd}]
          addr     \* the URIs of each entry, {} when none is known

tvars == <<open, table, addr>>

Empty == [k \in Keys |-> NoFwd]
NoAddr == [k \in Keys |-> {}]

Init == open = FALSE /\ table = Empty /\ addr = NoAddr

Open == ~open /\ open' = TRUE /\ UNCHANGED <<table, addr>>

Enter(fwd, uris) ==
  LET k == KeyOf(fwd) IN
  /\ open /\ table[k] = NoFwd /\ Acceptable(fwd, uris)
  /\ table' = [table EXCEPT ![k] = fwd]
  /\ addr' = [addr EXCEPT ![k] = uris]
  /\ UNCHANGED open

Remove(k) ==
  /\ open /\ table[k] # NoFwd
  /\ table' = [table EXCEPT ![k] = NoFwd]
  /\ addr' = [addr EXCEPT ![k] = {}]
  /\ UNCHANGED open

Close == open /\ open' = FALSE /\ table' = Empty /\ addr' = NoAddr

Next ==
  \/ Open \/ Close
  \/ \E fwd \in Requests, uris \in SUBSET URIs : Enter(fwd, uris)
  \/ \E k \in Keys : Remove(k)

Spec == Init /\ [][Next]_tvars
===============================================================================
