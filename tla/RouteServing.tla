----------------------------- MODULE RouteServing -----------------------------
(***************************************************************************)
(* What the controllers promise the owners of routes.  A route that is     *)
(* taken on has one listener, its parent, and no other ever serves it.  It *)
(* is let go, and its object with it, only when no listener serves it any  *)
(* more.  A listener serves one route with one backend at a time, and      *)
(* neither is replaced while it does.                                      *)
(***************************************************************************)
CONSTANTS Listeners, Routes, Backends,
          None        \* no listener, no route

VARIABLES home,       \* [Routes -> the listener it was taken on for, or None]
          serving     \* [Listeners -> the route and backend it forwards to, or None]

svars == <<home, serving>>

Init ==
  /\ home = [r \in Routes |-> None]
  /\ serving = [l \in Listeners |-> None]

TakeOn(r, l) ==
  /\ home[r] = None /\ home' = [home EXCEPT ![r] = l]
  /\ UNCHANGED serving

LetGo(r) ==
  /\ home[r] # None
  /\ \A l \in Listeners : serving[l] # None => serving[l].name # r
  /\ home' = [home EXCEPT ![r] = None]
  /\ UNCHANGED serving

Serve(l, r, b) ==
  /\ serving[l] = None /\ home[r] = l
  /\ serving' = [serving EXCEPT ![l] = [name |-> r, backend |-> b]]
  /\ UNCHANGED home

\* The session closes, the process restarts, a Gateway goes or is edited, or one
\* listener is about to serve something else.
Stop(stopped) ==
  /\ serving' = [l \in Listeners |-> IF l \in stopped THEN None ELSE serving[l]]
  /\ UNCHANGED home

Next ==
  \/ \E stopped \in SUBSET Listeners : Stop(stopped)
  \/ \E r \in Routes, l \in Listeners : TakeOn(r, l)
  \/ \E r \in Routes : LetGo(r)
  \/ \E l \in Listeners, r \in Routes, b \in Backends : Serve(l, r, b)

Spec == Init /\ [][Next]_svars
===============================================================================
