----------------------------- MODULE ObjGraph ------------------------------
(***************************************************************************)
(* The objects the daemon keeps of the kernel's tables: a VLAN link, its   *)
(* neighbours, a target for each neighbour that routes go through, and the *)
(* routes (obj_link.c, obj_neigh.c, obj_target.c, obj_route.c, obj.h), with *)
(* the decoding of the messages they are made from (nl_decode.c) and the    *)
(* notifications the kernel sends at all (monitor.c).                      *)
(*                                                                         *)
(* The module is RuleSync with its owners of rules made concrete: a route  *)
(* has the pointers `rule' and `target_rule', a target the pointer `rule'. *)
(* Its operators work on the same record of the daemon's state, with the   *)
(* objects added to it.                                                    *)
(*                                                                         *)
(* Links are independent of each other, so there is one.  A neighbour has  *)
(* at most one target (multipath routes are treated as unipath), which is  *)
(* named like it.                                                          *)
(***************************************************************************)
EXTENDS RuleSync

CONSTANTS Gateway,    \* addresses of neighbours
          Info,       \* contents of the link (VLAN id, address, ...) of use
          NoVlan,     \* contents of a link that rules cannot be made from
          Lladdr,     \* link layer addresses
          Zero,       \* the null link layer address
          None,       \* nothing: no such entry, no such object
          Via,        \* the pointer `target_rule' of each route
          Boot,       \* bound: what the kernel may have when the daemon starts
          MaxEvents   \* bound: changes of the kernel's tables

\* Neighbours and routes are by way of a link.
Worlds ==
    {w \in [link : Info \union {NoVlan, None}, neigh : [Gateway -> Lladdr \union {Zero, None}],
            route : [Route -> Gateway \union {None}]] :
        w.link = None => /\ \A g \in Gateway : w.neigh[g] = None
                         /\ \A d \in Route : w.route[d] = None}

ASSUME GraphAssumption ==
    /\ IsFiniteSet(Gateway)
    /\ None \notin Gateway \union Info \union {NoVlan, Zero} \union Lladdr \union Target
    /\ None \notin {"PRESENT", "INSTALLED"}
    /\ NoVlan \notin Info /\ Zero \notin Lladdr
    /\ Via \in [Route -> Pointer] /\ \A d \in Route, e \in Route : Via[d] = Via[e] => d = e
    /\ Boot \subseteq Worlds
    /\ MaxEvents \in Nat

VARIABLES world,  \* the kernel's link, neighbour and routing tables
          link,   \* struct obj_link; `weak' counts the neighbours in its tree
          neigh,  \* the heap of struct obj_neigh; `fdb': in the link's tree
          target, \* struct obj_target, named like the neighbour
          route,  \* struct obj_route, named by its destination
          events, \* what is left of the bound
          reused  \* history: rules that were taken back

graph == <<world, link, neigh, target, route, events, reused>>
graphVars == <<vars, graph>>

\* A neighbour on the heap, and its target.
Neigh == Target

NoLink   == [state |-> None, refs |-> 0, weak |-> 0, info |-> None]
NoNeigh  == [state |-> None, gw |-> None, lladdr |-> Zero, fdb |-> FALSE]
NoTarget == [refs |-> 0, weak |-> 0, routes |-> <<>>]
NoRoute  == [state |-> None, refs |-> 0, target |-> None]

\* The daemon's state, rules and objects.
All == [rule |-> rule, work |-> work, current |-> current, pin |-> pin,
        kern |-> kern, mon |-> mon, dump |-> dump, chains |-> chains,
        own |-> own, fault |-> fault,
        link |-> link, neigh |-> neigh, target |-> target, route |-> route]

-----------------------------------------------------------------------------
(* Rules of targets (obj_target.c) and of routes (obj_route.c).             *)

\* What the rule of a target rewrites: the tag and addresses of the frame.
\* obj_target_prepare_rule; NoTcr where it returns false.
Content(s, n) ==
    IF s.link.info \in Info /\ s.neigh[n].lladdr # Zero
    THEN <<s.link.info, s.neigh[n].lladdr>>
    ELSE NoTcr

IsOK(s, r) == r # NoRule /\ s.rule[r].state = "OK"

\* obj_route_prepare_rule.
Goto(s, d) == <<d, s.rule[s.own[s.route[d].target]].slot>>

\* Mutant: the pointer to the target's rule is not counted.
PointVia_NoRef(s, d) == [s EXCEPT !.own[Via[d]] = s.own[s.route[d].target]]

\* r->target_rule = obj_rule_ref(target_rule).
PointVia(s, d) ==
    LET tr == s.own[s.route[d].target] IN
    [Ref(s, tr) EXCEPT !.own[Via[d]] = tr]

\* Mutant: target_rule is left as it is.
ReplaceRouteRule_KeepsVia(s, d) ==
    LET old == s.own[d]
        new == obj_rule_request(Unref(Ref(s, old), old), d, Goto(s, d))
    IN  Kick(Unref(new, old))

\* Mutant: the old rules are let go before the new one is requested.
ReplaceRouteRule_LetsGo(s, d) ==
    LET old == s.own[d]
        oldVia == s.own[Via[d]]
        held == Ref(s, oldVia)
        via == IF oldVia = s.own[s.route[d].target] THEN held
               ELSE PointVia(Unref(held, oldVia), d)
    IN  obj_rule_request(Kick(Unref(Kick(Unref(via, oldVia)), old)), d, Goto(s, d))

\* The second branch of obj_route_install: the route has a rule for another
\* chain.  The old target's rule is let go before the old rule.
ReplaceRouteRule(s, d) ==
    LET old == s.own[d]
        oldVia == s.own[Via[d]]
        held == Ref(Ref(s, old), oldVia)
        via == IF oldVia = s.own[s.route[d].target] THEN held
               ELSE PointVia(Unref(held, oldVia), d)
        new == obj_rule_request(Unref(via, old), d, Goto(s, d))
    IN  Kick(Unref(Kick(Unref(new, oldVia)), old))

obj_route_install(s, d) ==
    LET want == s.rule[s.own[d]].want IN
    CASE ~IsOK(s, s.own[s.route[d].target]) -> Fails(s, "obj_route_prepare_rule")
      [] OTHER ->
           IF s.own[d] = NoRule THEN obj_rule_request(PointVia(s, d), d, Goto(s, d))
           ELSE IF want \in {NoTcr, Goto(s, d)} THEN s
           ELSE ReplaceRouteRule(s, d)

obj_target_notify_routes(s, n) ==
    LET routes == s.target[n].routes
        told[k \in 0..Len(routes)] ==
            IF k = 0 THEN s ELSE obj_route_install(told[k - 1], routes[k])
    IN  IF IsOK(s, s.own[n]) THEN told[Len(routes)] ELSE s

\* The call of obj_target_notify_routes in obj_rule_update_state.
NotifyIfOK(s, r) ==
    IF IsOK(s, r) /\ \E n \in Target : s.own[n] = r
    THEN obj_target_notify_routes(s, CHOOSE n \in Target : s.own[n] = r)
    ELSE s

NotifyOwn(s, n) == NotifyIfOK(s, s.own[n])

\* obj_target_set_rule: the old rule is let go first.
obj_target_set_rule(s, n, tcr) ==
    LET unset == IF s.own[n] # NoRule THEN Drop(s, n) ELSE s IN
    IF tcr = NoTcr THEN unset
    ELSE NotifyOwn(obj_rule_request(unset, n, tcr), n)

obj_target_install(s, n) ==
    IF Content(s, n) = NoTcr THEN s ELSE obj_target_set_rule(s, n, Content(s, n))

\* obj_target_neigh_update.
NeighUpdate(s, n) ==
    LET tcr == Content(s, n)
        r == s.own[n]
    IN  IF tcr = NoTcr \/ (r # NoRule /\ s.rule[r].want \notin {NoTcr, tcr})
        THEN obj_target_set_rule(s, n, tcr)
        ELSE s

-----------------------------------------------------------------------------
(* Routes and targets: links between them, reference counts.                *)

obj_target_link_route(s, n, d) ==
    LET l == [s EXCEPT !.route[d].target = n, !.route[d].refs = @ + 1,
                       !.target[n].weak = @ + 1,
                       !.target[n].routes = Append(@, d)]
    IN  IF l.own[n] = NoRule THEN obj_target_install(l, n) ELSE l

\* list_del, of an element that is in the list once.
Without(routes, d) == RemoveAt(routes, CHOOSE i \in DOMAIN routes : routes[i] = d)

DropIfAny(s, o) == IF s.own[o] = NoRule THEN s ELSE Drop(s, o)

\* obj_route_reap; the target has been left by then.
RouteReap(s, d) ==
    [DropIfAny(DropIfAny(s, d), Via[d]) EXCEPT !.route[d] = NoRoute]

obj_route_unref(s, d) ==
    LET u == [s EXCEPT !.route[d].refs = @ - 1] IN
    IF u.route[d].refs = 0 /\ u.route[d].state # "INSTALLED" THEN RouteReap(u, d) ELSE u

\* Mutant: the count of the target stays.
obj_target_unlink_route_KeepsWeak(s, d) ==
    LET n == s.route[d].target IN
    obj_route_unref([s EXCEPT !.route[d].target = None,
                              !.target[n].routes = Without(@, d)], d)

\* obj_target_unlink_route, without the references it holds meanwhile.
obj_target_unlink_route(s, d) ==
    LET n == s.route[d].target IN
    obj_route_unref([s EXCEPT !.route[d].target = None,
                              !.target[n].weak = @ - 1,
                              !.target[n].routes = Without(@, d)], d)

\* obj_route_delete, with a reference of its own; a rule that is in the kernel
\* is uninstalled at once.
RouteDelete(s, d) ==
    LET held == [s EXCEPT !.route[d].refs = @ + 1, !.route[d].state = "PRESENT"]
        gone == IF s.own[d] # NoRule /\ s.rule[s.own[d]].have # NoTcr
                THEN Kick(Uninstall(held, s.own[d])) ELSE held
        alone == IF s.route[d].target # None THEN obj_target_unlink_route(gone, d) ELSE gone
    IN  obj_route_unref(alone, d)

\* The end of obj_target_reap; r was the rule of the target, and points to it
\* until it is reaped.
FreeTarget(s, n, r) ==
    IF s.target[n].weak > 0 \/ (r # NoRule /\ s.rule[r].state # "free")
    THEN Fails(s, "obj_target_reap")
    ELSE [s EXCEPT !.target[n] = NoTarget]

\* obj_target_unref by the neighbour that is reaped, obj_target_reap: routes
\* that are installed stay, and so does the rule until it has been uninstalled;
\* either keeps the weak count above 0, which is an assertion.
TargetReap(s, n) ==
    LET routes == s.target[n].routes
        unheld[k \in 0..Len(routes)] ==
            IF k = 0 THEN s ELSE obj_route_unref(unheld[k - 1], routes[k])
    IN  FreeTarget(DropIfAny(unheld[Len(routes)], n), n, s.own[n])

obj_target_get_unipath(s, n) ==
    IF s.target[n].refs > 0 THEN s ELSE [s EXCEPT !.target[n] = [NoTarget EXCEPT !.refs = 1]]

-----------------------------------------------------------------------------
(* Neighbours and the link.                                                 *)

Known(s, gw) == {n \in Neigh : s.neigh[n].fdb /\ s.neigh[n].gw = gw}
obj_neigh_fdb_lookup(s, gw) == IF Known(s, gw) = {} THEN None ELSE CHOOSE n \in Known(s, gw) : TRUE

FreshNeigh(s) == CHOOSE n \in Neigh : s.neigh[n].state = None

\* Mutant: the neighbour still seems to be in the tree.
Unlink_KeepsFdb(s, n) == [s EXCEPT !.link.weak = @ - 1]

\* obj_neigh_unlink, for a neighbour in the tree of the link.
Unlink(s, n) == [s EXCEPT !.link.weak = @ - 1, !.neigh[n].fdb = FALSE]

UnlinkIfIn(s, n) == IF s.neigh[n].fdb THEN Unlink(s, n) ELSE s

\* obj_neigh_reap; the references of a neighbour are only held within a
\* handler, so it is reaped as soon as the kernel does not have it.
obj_neigh_reap(s, n) ==
    LET t == IF s.target[n].refs > 0 THEN TargetReap(s, n) ELSE s IN
    [UnlinkIfIn(t, n) EXCEPT !.neigh[n] = NoNeigh]

FreeLink(s) ==
    IF s.fault = "none" /\ s.link.weak # 0
    THEN Fails(s, "obj_link_reap")
    ELSE [s EXCEPT !.link = NoLink]

\* obj_link_reap, with obj_neigh_link_gone.
obj_link_reap(s) ==
    LET tree == SetToSeq({n \in Neigh : s.neigh[n].fdb})
        gone[k \in 0..Len(tree)] ==
            IF k = 0 THEN s ELSE obj_neigh_reap(Unlink(gone[k - 1], tree[k]), tree[k])
    IN  FreeLink(gone[Len(tree)])

\* Mutant: the targets are not told of a new address.
obj_neigh_netlink_update_Quiet(s, m) ==
    LET n == obj_neigh_fdb_lookup(s, m.gw)
        f == FreshNeigh(s)
    IN  CASE s.link.state = None -> s
          [] s.link.state # None /\ m.op = "DELNEIGH" ->
                IF n = None THEN s ELSE obj_neigh_reap(s, n)
          [] s.link.state # None /\ m.op = "NEWNEIGH" ->
                IF n # None THEN [s EXCEPT !.neigh[n].lladdr = m.lladdr]
                ELSE [s EXCEPT !.link.weak = @ + 1,
                               !.neigh[f] = [state |-> "INSTALLED", gw |-> m.gw,
                                             lladdr |-> m.lladdr, fdb |-> TRUE]]

obj_neigh_netlink_update(s, m) ==
    LET n == obj_neigh_fdb_lookup(s, m.gw)
        f == FreshNeigh(s)
        changed == [s EXCEPT !.neigh[n].lladdr = m.lladdr, !.neigh[n].state = "INSTALLED"]
    IN  CASE s.link.state = None -> s
          [] s.link.state # None /\ m.op = "DELNEIGH" ->
                IF n = None THEN s ELSE obj_neigh_reap(s, n)
          [] s.link.state # None /\ m.op = "NEWNEIGH" ->
                IF n = None
                THEN [s EXCEPT !.link.weak = @ + 1,
                               !.neigh[f] = [state |-> "INSTALLED", gw |-> m.gw,
                                             lladdr |-> m.lladdr, fdb |-> TRUE]]
                ELSE IF s.neigh[n].lladdr = m.lladdr THEN s
                ELSE IF s.target[n].refs > 0 THEN NeighUpdate(changed, n)
                ELSE changed

\* obj_link_update tells the neighbours in its tree, each of them its target.
LinkUpdate(s, info) ==
    LET targets == SetToSeq({n \in Neigh : s.neigh[n].fdb /\ s.target[n].refs > 0})
        told[k \in 0..Len(targets)] ==
            IF k = 0 THEN [s EXCEPT !.link.info = info]
            ELSE NeighUpdate(told[k - 1], targets[k])
    IN  told[Len(targets)]

\* obj_link_delete: reaped unless somebody has a reference.
obj_link_netlink_update(s, m) ==
    LET l == s.link
    IN  CASE m.op = "DELLINK" /\ l.state = None -> s
          [] m.op = "DELLINK" /\ l.state # None ->
                IF l.refs = 0 THEN obj_link_reap(s) ELSE [s EXCEPT !.link.state = "PRESENT"]
          [] m.op = "NEWLINK" /\ l.state = None ->
                [s EXCEPT !.link = [NoLink EXCEPT !.state = "INSTALLED", !.info = m.info]]
          [] m.op = "NEWLINK" /\ l.state # None ->
                IF l.info = m.info THEN s ELSE LinkUpdate(s, m.info)

\* obj_neigh_netlink_get: an unknown gateway gets a neighbour that is in no
\* tree, with a reference to the link.
Orphan(s, gw) ==
    [s EXCEPT !.link.refs = @ + 1,
              !.neigh[FreshNeigh(s)] = [NoNeigh EXCEPT !.state = "PRESENT", !.gw = gw]]

-----------------------------------------------------------------------------
(* Routes.                                                                  *)

\* The route leaves its target for another, unless it has it already.
MoveRoute(s, n, d) ==
    LET old == s.route[d].target IN
    IF old = n THEN s
    ELSE obj_target_link_route(IF old = None THEN s ELSE obj_target_unlink_route(s, d), n, d)

\* A route without a rule requests one when the target is ready.
InstallIfReady(s, d) ==
    IF IsOK(s, s.own[s.route[d].target]) /\ s.own[d] = NoRule
    THEN obj_route_install(s, d) ELSE s

\* Mutant: requesting the rule is left to the target's notification.
RouteUpdate_NotReady(s, n, d) == [MoveRoute(s, n, d) EXCEPT !.route[d].state = "INSTALLED"]

\* obj_route_netlink_update for RTM_NEWROUTE.
RouteUpdate(s, n, d) ==
    [InstallIfReady(MoveRoute(s, n, d), d) EXCEPT !.route[d].state = "INSTALLED"]

\* decode_route: the gateway's neighbour and target are looked up, or made, even
\* for a route that is deleted.
decode_route(s, m) ==
    LET n == obj_neigh_fdb_lookup(s, m.gw)
        at == IF n # None THEN n ELSE FreshNeigh(s)
        got == obj_target_get_unipath(IF n # None THEN s ELSE Orphan(s, m.gw), at)
    IN  CASE s.link.state = None -> s
          [] s.link.state # None /\ m.op = "NEWROUTE" -> RouteUpdate(got, at, m.dst)
          [] s.link.state # None /\ m.op = "DELROUTE" ->
                IF s.route[m.dst].state = None THEN got ELSE RouteDelete(got, m.dst)

-----------------------------------------------------------------------------
(* Messages.                                                                *)

\* obj_rule_netlink_found, with the routes of a target whose rule became OK.
decode_filter(s, m) ==
    LET r == Subject(s, m)
        changed == m.op = "NEW" /\ r # NoRule /\ s.rule[r].have # m.tcr
    IN  NotifyIfOK(obj_rule_netlink_found(s, m), IF changed THEN r ELSE NoRule)

decode_nlmsg_cb(s, m) ==
    CASE m.op \in {"NEWLINK", "DELLINK"}   -> obj_link_netlink_update(s, m)
      [] m.op \in {"NEWNEIGH", "DELNEIGH"} -> obj_neigh_netlink_update(s, m)
      [] m.op \in {"NEWROUTE", "DELROUTE"} -> decode_route(s, m)
      [] m.op \in {"NEW", "DEL"}           -> decode_filter(s, m)

\* The numbers of multicast groups, and the bits of a number.
Group == [link |-> 1, neigh |-> 3, tc |-> 4, route4 |-> 7, route6 |-> 11]
Bits(n) == {i \in 0..30 : (n \div 2 ^ i) % 2 = 1}

\* Mutant: assigned, not combined.
groups_Last == Bits(Group["route6"])

\* monitor_init: the numbers are combined and bound as a mask, in which group n
\* has bit n - 1.
groups == UNION {Bits(Group[g]) : g \in DOMAIN Group}
Joined(g) == (Group[g] - 1) \in groups

Announce(ms, g) == IF Joined(g) THEN mon \o ms ELSE mon

-----------------------------------------------------------------------------
(* The scan and the removal of the pin.                                     *)

\* What a dump reports; a dump is a snapshot.
Entries(op) ==
    CASE op = "links" ->
            IF world.link = None THEN <<>> ELSE <<[op |-> "NEWLINK", info |-> world.link]>>
      [] op = "neighs" ->
            SetToSeq({[op |-> "NEWNEIGH", gw |-> g, lladdr |-> world.neigh[g]] :
                          g \in {h \in Gateway : world.neigh[h] # None}})
      [] op = "routes" ->
            SetToSeq({[op |-> "NEWROUTE", dst |-> d, gw |-> world.route[d]] :
                          d \in {e \in Route : world.route[e] # None}})

\* A dump that the queue has started in this step.
Sent(s) ==
    IF s.current # current /\ s.current \in {"links", "neighs", "routes"}
    THEN [s EXCEPT !.dump = Entries(s.current)]
    ELSE s

\* The walk of obj_rule_remove_pin, with what obj_rule_update_state calls.
VisitSlot(s, slot) ==
    LET r == obj_rule_pos_lookup(s, slot) IN
    IF r = NoRule THEN s ELSE NotifyIfOK(UpdateAndKick(s, r), r)

WalkPinned(s, i) ==
    LET walked[n \in 0..Width] ==
            IF n = 0 THEN [s EXCEPT !.pin = i] ELSE VisitSlot(walked[n - 1], n - 1)
    IN  walked[Width]

RemovePin(s) ==
    IF s.pin = 3 THEN s ELSE WalkPinned(WalkPinned(WalkPinned(WalkPinned(s, 0), 1), 2), 3)

\* advance_scan: the order of scan_helpers, the families taken together.
NextDump(s, op) ==
    CASE op = "filters" -> Schedule(ChainsFound(s), "links")
      [] op = "links"   -> Schedule(s, "neighs")
      [] op = "neighs"  -> Schedule(s, "routes")
      [] op = "routes"  -> RemovePin(s)
      [] OTHER          -> s

-----------------------------------------------------------------------------
(* Handlers of the daemon.                                                  *)

\* Bound: there is room on the heap and in the chains for what a handler makes.
Room ==
    /\ \E n \in Neigh : neigh[n].state = None
    /\ Cardinality((ChainBase..(Width - 1)) \ chains) >= 1
    /\ Cardinality((MinSlot..(ChainBase - 1)) \ UsedSlots(All)) >= Cardinality(Route)

\* Rules that are adopted from the lost and found tree although they are being
\* removed, and those that are back in the kernel.
TakenBackBy(s) ==
    {r \in Rule : rule[r].laf /\ rule[r].state \in {"QUEUED", "PENDING"} /\ ~s.rule[r].laf}
BackIn(s) ==
    {r \in Rule : s.rule[r].state = "OK" /\ s.kern[s.rule[r].slot] = s.rule[r].want}

\* A handler has led to s.
Handled(s) ==
    /\ Becomes(Sent(s))
    /\ link' = s.link
    /\ neigh' = s.neigh
    /\ target' = s.target
    /\ route' = s.route
    /\ reused' = {r \in (reused \union TakenBackBy(s)) \ BackIn(s) : Live(s, r)}
    /\ UNCHANGED <<world, events, left, torn>>

Notified ==
    /\ Running /\ Room
    /\ mon # <<>>
    /\ Handled(decode_nlmsg_cb([All EXCEPT !.mon = Tail(@)], Head(mon)))

\* One entry of the dump in flight.
Dumped ==
    /\ Running /\ Room
    /\ dump # <<>>
    /\ LET e == Head(dump)
           m == IF current = "filters" THEN [op |-> "NEW", slot |-> e.slot, tcr |-> e.tcr] ELSE e
       IN  Handled(decode_nlmsg_cb([All EXCEPT !.dump = Tail(@)], m))

Completed ==
    /\ Running /\ Room
    /\ current # "none"
    /\ dump = <<>>
    /\ Handled(Kick(NextDump([All EXCEPT !.current = "none"], current)))

GraphScanning ==
    \E op \in {"filters", "links", "neighs", "routes"} :
        current = op \/ \E k \in 1..Len(work) : work[k].op = op

\* scan_timeout_cb.
Rescan ==
    /\ Running
    /\ ~GraphScanning
    /\ left.scans > 0
    /\ left' = [left EXCEPT !.scans = @ - 1]
    /\ Becomes(Sent(Schedule(All, "filters")))
    /\ UNCHANGED <<world, events, reused, torn, link, neigh, target, route>>

-----------------------------------------------------------------------------
(* The kernel's tables.                                                     *)

\* Bound: MaxEvents of these.
Event ==
    /\ Running
    /\ events > 0
    /\ events' = events - 1
    /\ torn' = (torn \/ dump # <<>>)
    /\ UNCHANGED <<rule, work, current, pin, kern, dump, chains, own, fault, left,
                   link, neigh, target, route, reused>>

LinkChanges(info) ==
    /\ Event
    /\ world.link # info
    /\ world' = [world EXCEPT !.link = info]
    /\ mon' = Announce(<<[op |-> "NEWLINK", info |-> info]>>, "link")

\* The neighbours of a link go with it, and the routes by way of it.
LinkGoes ==
    /\ Event
    /\ world.link # None
    /\ world' = [link |-> None, neigh |-> [g \in Gateway |-> None],
                 route |-> [d \in Route |-> None]]
    /\ mon' = Announce(SetToSeq({[op |-> "DELNEIGH", gw |-> g] :
                                     g \in {h \in Gateway : world.neigh[h] # None}})
                       \o <<[op |-> "DELLINK"]>>, "link")

NeighChanges(g, lladdr) ==
    /\ Event
    /\ world.link # None
    /\ world.neigh[g] # lladdr
    /\ world' = [world EXCEPT !.neigh[g] = lladdr]
    /\ mon' = Announce(<<[op |-> "NEWNEIGH", gw |-> g, lladdr |-> lladdr]>>, "neigh")

NeighGoes(g) ==
    /\ Event
    /\ world.neigh[g] # None
    /\ world' = [world EXCEPT !.neigh[g] = None]
    /\ mon' = Announce(<<[op |-> "DELNEIGH", gw |-> g]>>, "neigh")

RouteChanges(d, g) ==
    /\ Event
    /\ world.link # None
    /\ world.route[d] # g
    /\ world' = [world EXCEPT !.route[d] = g]
    /\ mon' = Announce(<<[op |-> "NEWROUTE", dst |-> d, gw |-> g]>>, "route4")

RouteGoes(d) ==
    /\ Event
    /\ world.route[d] # None
    /\ world' = [world EXCEPT !.route[d] = None]
    /\ mon' = Announce(<<[op |-> "DELROUTE", dst |-> d, gw |-> world.route[d]]>>, "route4")

-----------------------------------------------------------------------------

GraphInit ==
    /\ Start([slot \in Slot |-> NoTcr])
    /\ world \in Boot
    /\ link = NoLink
    /\ neigh = [n \in Neigh |-> NoNeigh]
    /\ target = [n \in Neigh |-> NoTarget]
    /\ route = [d \in Route |-> NoRoute]
    /\ events = MaxEvents
    /\ reused = {}

Daemon == Notified \/ Dumped \/ Completed

Kernel ==
    \/ \E info \in Info \union {NoVlan} : LinkChanges(info)
    \/ LinkGoes
    \/ \E g \in Gateway : \/ \E a \in Lladdr \union {Zero} : NeighChanges(g, a)
                          \/ NeighGoes(g)
    \/ \E d \in Route : \/ \E g \in Gateway : RouteChanges(d, g)
                        \/ RouteGoes(d)

GraphNext == Daemon \/ Rescan \/ Kernel

GraphSpec == GraphInit /\ [][GraphNext]_graphVars

-----------------------------------------------------------------------------

ObjState == {None, "PRESENT", "INSTALLED"}

GraphTypeOK ==
    /\ link \in [state : ObjState, refs : Nat, weak : Nat, info : Info \union {NoVlan, None}]
    /\ neigh \in [Neigh -> [state : ObjState, gw : Gateway \union {None},
                            lladdr : Lladdr \union {Zero}, fdb : BOOLEAN]]
    /\ target \in [Neigh -> [refs : 0..1, weak : Nat, routes : Seq(Route)]]
    /\ route \in [Route -> [state : ObjState, refs : Nat, target : Neigh \union {None}]]
    /\ own \in [Owner -> Rule \union {NoRule}]
    /\ fault \in {"none", "freed want", "obj_target_reap"}

\* Reference counting over the whole graph: the strong and weak counts of link,
\* targets and routes are the numbers of pointers they stand for, and the list
\* of a target has exactly the routes that point to it.  A count that is off
\* frees an object that is pointed to (obj_link_reap, obj_target_reap and
\* obj_route_reap), or fails the assertions there.
CountsMatch ==
    Running =>
    /\ link.weak = Cardinality({n \in Neigh : neigh[n].fdb})
    /\ link.refs = Cardinality({n \in Neigh : neigh[n].state # None /\ ~neigh[n].fdb})
    /\ \A n \in Neigh :
          LET through == {d \in Route : route[d].target = n} IN
          /\ target[n].weak = Cardinality(through)
          /\ ToSet(target[n].routes) = through
          /\ Len(target[n].routes) = Cardinality(through)
          /\ target[n].refs > 0 => neigh[n].state # None
    /\ \A d \in Route : route[d].refs = IF route[d].target = None THEN 0 ELSE 1

\* The rule of a route jumps to the chain of the very rule whose reference it
\* holds in target_rule, whatever has become of the target since, so the chain
\* is not given to somebody else while a filter leads to it (obj_route_install).
RuleHoldsTarget ==
    Running =>
    \A d \in Route :
        LET r == own[d]  v == own[Via[d]] IN
        /\ r = NoRule <=> v = NoRule
        /\ r # NoRule /\ rule[r].want # NoTcr => rule[r].want = <<d, rule[v].slot>>

\* The rule of a target is always made from the present address of its
\* neighbour and the present contents of the link: after every message it has
\* been replaced, or let go (obj_target_neigh_update and who calls it).
RulesFresh ==
    Running =>
    \A n \in Target : own[n] # NoRule => rule[own[n]].want = Content(All, n)

\* Whichever of the two is last, the notification that the rule of a target is
\* installed or the route that moves to the target: a route by way of a target
\* whose rule is installed has requested a rule (obj_target_notify_routes,
\* obj_route_netlink_update).
RoutesRequested ==
    Running =>
    \A d \in Route : LET n == route[d].target IN
                     n # None /\ IsOK(All, own[n]) => own[d] # NoRule

\* Links and neighbours follow the kernel: when nothing is in flight, and no
\* table changed under a dump, the objects are what the kernel has.  (Routes do
\* not: see NoGhosts.)
GraphCoherent ==
    Running /\ Quiet /\ pin = 3 /\ ~torn =>
        /\ link.state = "INSTALLED" => link.info = world.link
        /\ link.state = None => world.link = None
        /\ link.state = "INSTALLED" => \A g \in Gateway :
              LET n == obj_neigh_fdb_lookup(All, g) IN
              world.neigh[g] = IF n = None THEN None ELSE neigh[n].lladdr

\* The filters for packets to a destination, and whether the chain one of them
\* jumps to has the rule of a target.
Matching(d) == {slot \in 0..(ChainBase - 1) : kern[slot] \in Tcr /\ kern[slot][1] = d}
Leads(slot) == kern[kern[slot][2]] # NoTcr

\* Packets take the first filter that matches, and the CPU if it leads nowhere.
Served(d) == Matching(d) # {} /\ Leads(Lowest(Matching(d)))

\* The removal of the filter in a slot is queued, or decided when a message
\* about it is handled.
OnItsWayOut(slot) ==
    \/ \E k \in 1..Len(work) : work[k].op = "uninstall" /\ rule[work[k].rule].slot = slot
    \/ \E k \in 1..Len(mon) : mon[k].op \in {"NEW", "DEL"} /\ mon[k].slot = slot

\* The filter of the route's rule is there and leads to a target, and whatever
\* leads nowhere in front of it is about to go.
ChangesOver(d) ==
    LET mine == rule[own[d]].slot IN
    /\ own[d] # NoRule /\ mine \in Matching(d) /\ Leads(mine)
    /\ \A slot \in Matching(d) : slot < mine => Leads(slot) \/ OnItsWayOut(slot)

TakenBack(d) == own[d] \in reused \/ own[Via[d]] \in reused

\* Make before break: as long as the kernel has a route, its traffic is not sent
\* to the CPU because the route moves, the neighbour changes its address or the
\* link its contents.  obj_route_install sees to it that the filters of the new
\* rules are in the kernel before those of the old ones go.  Two gaps remain.
\* The rule of the old target goes before the filter that leads to it
\* (obj_route.c:186), which comes first if its priority is lower, as that of an
\* outdated rule may be: until it goes the route changes over.  And a rule that
\* is requested again while it is being removed is gone for a while: its have is
\* taken at face value (obj_rule_prime_request).
StaysServed ==
    [][\A d \in Route :
          /\ Served(d) \/ ChangesOver(d)
          /\ own[d] # NoRule /\ route[d].state = "INSTALLED"
          /\ fault' = "none" /\ route'[d].state = "INSTALLED"
          => (Served(d) \/ ChangesOver(d) \/ TakenBack(d))']_graphVars

\* Either gap closes by itself: when nothing is in flight, a route that has a rule
\* or a target that is ready is served, whatever was replaced, removed or taken
\* back on the way there (obj_rule_delete, obj_target_notify_routes).
ServedAtRest ==
    Running /\ Quiet /\ pin = 3 =>
        \A d \in Route :
            LET n == route[d].target IN
            /\ route[d].state = "INSTALLED"
            /\ own[d] # NoRule \/ (n # None /\ IsOK(All, own[n]))
            => Served(d)

-----------------------------------------------------------------------------
(* What comments, assertions and the README of the code promise.            *)

\* Everything the daemon will do has been done.
AtRest == Running /\ Quiet /\ pin = 3 /\ left.scans = 0 /\ ~torn

\* obj.h: "when a route's target is ready, request route installation", so that
\* the rule of a route leads to the target the route has.
RoutesFollow ==
    AtRest => \A d \in Route :
        LET n == route[d].target IN
        n # None /\ IsOK(All, own[n]) => rule[own[d]].want \in {NoTcr, Goto(All, d)}

\* README.md: the daemon synchronizes a routing table, so that when the kernel
\* has dropped a route, so has the daemon.
NoGhosts ==
    AtRest => \A d \in Route :
        route[d].state # None /\ link.state # None => world.route[d] # None

\* obj_target.c: obj_target_reap asserts that no route holds the target.
TargetUnused == fault # "obj_target_reap"
-----------------------------------------------------------------------------
(* The inductive invariant of ObjGraph_proofs, about a state `s' as in      *)
(* RuleSync: within a handler a route may be held once more (held), and a   *)
(* neighbour that has left the tree may still be there (loose).             *)

\* Messages about objects.
ObjMessage ==
    [op : {"NEWLINK"}, info : Info \union {NoVlan}] \union [op : {"DELLINK"}]
    \union [op : {"NEWNEIGH"}, gw : Gateway, lladdr : Lladdr \union {Zero}]
    \union [op : {"DELNEIGH"}, gw : Gateway]
    \union [op : {"NEWROUTE", "DELROUTE"}, dst : Route, gw : Gateway]

IsSeq(q) == q \in Seq({q[k] : k \in 1..Len(q)})

Understood(q) == IsSeq(q) /\ \A k \in 1..Len(q) : q[k] \in ObjMessage \/ q[k].op \in {"NEW", "DEL"}

InWork(s, op) == \E k \in 1..Len(s.work) : s.work[k].op = op

\* One dump at a time, in flight or waiting.
Scans == {"filters", "links", "neighs", "routes"}
OneScan(s) ==
    /\ s.current \in Scans => \A op \in Scans : ~InWork(s, op)
    /\ \A j, k \in 1..Len(s.work) : s.work[j].op \in Scans /\ s.work[k].op \in Scans => j = k

\* What is read from the sockets can be decoded, and a dump has a request.
Flow(s) ==
    /\ IsSeq(s.work)
    /\ OneScan(s)
    /\ Understood(s.mon)
    /\ s.current \notin Scans => s.dump = <<>>
    /\ s.current # "filters" => Understood(s.dump)

Objects(s) ==
    /\ s.link \in [state : ObjState, refs : Nat, weak : Nat, info : Info \union {NoVlan, None}]
    /\ s.neigh \in [Neigh -> [state : ObjState, gw : Gateway \union {None},
                              lladdr : Lladdr \union {Zero}, fdb : BOOLEAN]]
    /\ s.target \in [Neigh -> [refs : 0..1, weak : Nat, routes : Seq(Route)]]
    /\ s.route \in [Route -> [state : ObjState, refs : Nat, target : Neigh \union {None}]]

InTree(s)  == {n \in Neigh : s.neigh[n].fdb}
Orphans(s) == {n \in Neigh : s.neigh[n].state # None /\ ~s.neigh[n].fdb}
Through(s, n) == {d \in Route : s.route[d].target = n}

\* The sequence has every element of S once.
Lists(q, S) ==
    /\ \A k \in 1..Len(q) : q[k] \in S
    /\ \A e \in S : \E k \in 1..Len(q) : q[k] = e
    /\ \A j, k \in 1..Len(q) : q[j] = q[k] => j = k

LinkCounts(s, loose) ==
    /\ s.link.weak = Cardinality(InTree(s))
    /\ s.link.refs = Cardinality(Orphans(s) \ loose)
    /\ s.link.state = None => s.link.weak = 0 /\ s.link.refs = 0
    /\ \A n \in Neigh : s.neigh[n].fdb => s.neigh[n].state # None

\* A target has a reference of its neighbour as long as it is there.
TargetCounts(s) ==
    \A n \in Neigh :
        /\ Lists(s.target[n].routes, Through(s, n))
        /\ s.target[n].weak = Cardinality(Through(s, n))
        /\ s.target[n].refs = 0 => Through(s, n) = {}
        /\ s.target[n].refs > 0 => s.neigh[n].state # None

RouteCounts(s, held) ==
    \A d \in Route : s.route[d].refs = (IF s.route[d].target = None THEN 0 ELSE 1)
                                       + (IF d \in held THEN 1 ELSE 0)

Counts(s, held, loose) == LinkCounts(s, loose) /\ TargetCounts(s) /\ RouteCounts(s, held)

GraphInv ==
    /\ world \in Worlds
    /\ fault = "none" => Flow(All) /\ Objects(All) /\ Counts(All, {}, {})

-----------------------------------------------------------------------------
(* The inductive invariant of GraphCoherent: what is known of the link and  *)
(* of the neighbours, and what is still to be heard of the kernel's, w, by  *)
(* the mail q of the monitor socket or from a dump.                         *)

LinksAhead(s)  == s.current = "filters" \/ InWork(s, "filters") \/ InWork(s, "links")
NeighsAhead(s) == LinksAhead(s) \/ s.current = "links" \/ InWork(s, "neighs")

AboutLink(m)     == m.op \in {"NEWLINK", "DELLINK"}
AboutNeigh(m, g) == m.op \in {"NEWNEIGH", "DELNEIGH"} /\ m.gw = g
LinkSays(m)      == IF m.op = "NEWLINK" THEN m.info ELSE None
NeighSays(m)     == IF m.op = "NEWNEIGH" THEN m.lladdr ELSE None

HasLink(q)     == \E k \in 1..Len(q) : AboutLink(q[k])
HasNeigh(q, g) == \E k \in 1..Len(q) : AboutNeigh(q[k], g)

LastOfLink(q, k)     == AboutLink(q[k]) /\ \A j \in 1..Len(q) : j > k => ~AboutLink(q[j])
LastOfNeigh(q, k, g) == AboutNeigh(q[k], g) /\ \A j \in 1..Len(q) : j > k => ~AboutNeigh(q[j], g)

\* What is heard last is true.
MailTrue(q, w) ==
    /\ \A k \in 1..Len(q) : LastOfLink(q, k) => w.link = LinkSays(q[k])
    /\ \A k \in 1..Len(q), g \in Gateway : LastOfNeigh(q, k, g) => w.neigh[g] = NeighSays(q[k])

DumpSays(s, w) ==
    /\ s.current = "links" => \A k \in 1..Len(s.dump) :
          s.dump[k].op = "NEWLINK" /\ s.dump[k].info = w.link
    /\ s.current = "neighs" => \A k \in 1..Len(s.dump) :
          s.dump[k].op = "NEWNEIGH" /\ w.neigh[s.dump[k].gw] = s.dump[k].lladdr
    /\ s.current = "routes" => \A k \in 1..Len(s.dump) : s.dump[k].op = "NEWROUTE"

Announced(q, g, k) == \E j \in 1..Len(q) : j > k /\ q[j].op = "NEWNEIGH" /\ q[j].gw = g
Appears(q, i, k)   == \E j \in 1..Len(q) : i < j /\ j < k /\ q[j].op = "NEWLINK"

\* What went with the link is announced again, after the link.
MailInOrder(q, w) ==
    /\ \A k \in 1..Len(q), g \in Gateway :
          q[k].op = "DELLINK" /\ w.neigh[g] # None => Announced(q, g, k)
    /\ \A i \in 1..Len(q), k \in 1..Len(q), g \in Gateway :
          /\ i < k /\ q[i].op = "DELLINK"
          /\ q[k].op = "NEWNEIGH" /\ LastOfNeigh(q, k, g)
          => Appears(q, i, k)

\* The same of a link that is gone, or has not been heard of yet.
MailOfLink(q, w) ==
    /\ \A g \in Gateway : w.neigh[g] # None => Announced(q, g, 0)
    /\ \A k \in 1..Len(q), g \in Gateway :
          q[k].op = "NEWNEIGH" /\ LastOfNeigh(q, k, g) => Appears(q, 0, k)

\* Still to be received of the dump in flight.
LinkDump(s)     == s.current = "links" /\ s.dump # <<>>
NeighDump(s, g) == s.current = "neighs" /\ HasNeigh(s.dump, g)

LinkInformed(s, w) ==
    \/ HasLink(s.mon) \/ LinkDump(s)
    \/ LinksAhead(s) /\ s.link.state = None
    \/ s.link.state = None /\ w.link = None
    \/ s.link.state = "INSTALLED" /\ s.link.info = w.link

NeighInformed(s, w, g) ==
    \/ HasNeigh(s.mon, g) \/ NeighDump(s, g)
    \/ NeighsAhead(s) /\ Known(s, g) = {}
    \/ w.neigh[g] = None /\ Known(s, g) = {}
    \/ \E n \in Known(s, g) : s.neigh[n].lladdr = w.neigh[g]

Tracks(s, w) ==
    /\ MailTrue(s.mon, w) /\ MailInOrder(s.mon, w) /\ DumpSays(s, w)
    /\ LinkInformed(s, w)
    /\ \A g \in Gateway : NeighInformed(s, w, g)
    /\ s.link.state = None => LinksAhead(s) \/ LinkDump(s) \/ MailOfLink(s.mon, w)

Unique(s) == \A n, o \in InTree(s) : s.neigh[n].gw = s.neigh[o].gw => n = o

\* A link that is still referenced when it goes never counts as installed again.
KnownOnce(s) == Unique(s) /\ (s.link.state = "PRESENT" => s.link.refs > 0)

TracksInv ==
    Running =>
        /\ KnownOnce(All)
        /\ ~torn /\ link.state # "PRESENT" => Tracks(All, world)
=============================================================================
