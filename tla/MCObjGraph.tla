----------------------------- MODULE MCObjGraph -----------------------------
(* Small instances of ObjGraph. *)
EXTENDS ObjGraph

CONSTANTS d1, d2, \* destinations of routes
          v1, v2, \* their pointers to the rules of their targets
          g1, g2, \* gateways
          m1, m2  \* link layer addresses

RoutesVia == (d1 :> v1) @@ (d2 :> v2)
OneVia == d1 :> v1

\* What targets and routes may want.
TargetWants == Info \X Lladdr
GraphTcr == TargetWants \union (Route \X (ChainBase..(Width - 1)))
GraphWants == [o \in Route \union Target |->
                  IF o \in Route THEN {o} \X (ChainBase..(Width - 1)) ELSE TargetWants]

AsWritten == [tcr \in AnyTcr |-> tcr]

\* One route is in use; of the second gateway there is an address and no route,
\* or a route and no address yet.
BusyWorlds == {w \in Worlds : /\ w.link \in Info
                             /\ w.neigh[g1] = m1 /\ w.route[d1] = g1
                             /\ \/ w.neigh[g2] = m2 /\ w.route[d2] = None
                                \/ w.neigh[g2] = None /\ w.route[d2] = g2}

\* Two routes by way of two gateways that have addresses: both targets are installed.
ReadyWorlds == {w \in Worlds : /\ w.link \in Info
                              /\ w.neigh[g1] = m1 /\ w.route[d1] = g1
                              /\ w.neigh[g2] = m2 /\ w.route[d2] = g2}
=============================================================================
