----------------------------- MODULE RuleSync ------------------------------
(***************************************************************************)
(* The rule database of src/src/obj_rule.c, with what it works through:    *)
(* tc_action.c (one netlink request per change), the request queue (here   *)
(* only its order: NlQueue has the rest), the kernel's filter table, the   *)
(* notification socket of monitor.c and the periodic scan of scan.c.       *)
(*                                                                         *)
(* Every event handler runs to completion, so an action is one handler.    *)
(* The C functions a handler calls are operators from a state of the       *)
(* daemon to the next one (`s' is a record of all that they change).       *)
(*                                                                         *)
(* A slot of the filter table is a chain and a priority.  The slots below   *)
(* ChainBase are the priorities of one chain, that of an address family:    *)
(* those below MinSlot belong to the rules sched_basic.c wants from the     *)
(* start, the others to the rules of routes.  From ChainBase on a slot is   *)
(* a chain of its own, with the rule of a target at priority 1.             *)
(***************************************************************************)
EXTENDS Integers, Sequences, FiniteSets, SequencesExt, Slots

CONSTANTS Width,     \* bound: slots are 0 .. Width - 1
          MinSlot,   \* the lowest priority for the rule of a route
          ChainBase, \* the lowest chain for the rule of a target
          Tcr,       \* contents of dynamic rules (struct tc_rule)
          StaticTcr, \* contents of the static rule
          NoTcr,     \* the null struct tc_rule pointer
          Decoded,   \* what is read back of a filter made from each contents
          Route,     \* pointers `rule' of routes
          Target,    \* pointers `rule' of targets
          Pointer,   \* pointers `target_rule' of routes
          Wants,     \* the contents each route and target may come to want
          WithStatic,\* sched_basic_initial_requests wants a rule in slot 0
          MaxOps,    \* bound: requests and releases by owners
          MaxExt,    \* bound: changes of the filter table by others
          MaxLost,   \* bound: notifications lost by the monitor socket
          MaxScans   \* bound: scans after the first one

ASSUME SlotAssumption ==
    /\ Width \in Nat \ {0}
    /\ MinSlot \in 1..(Width - 1)
    /\ ChainBase \in (MinSlot + 1)..Width
ASSUME TcrAssumption  == StaticTcr \notin Tcr /\ NoTcr \notin Tcr \union {StaticTcr}
\* Startup has what the kernel and decode_filter make of contents (of those others
\* write, too): they come back as they were, but for those of a trap for everything
\* or with something in its padding, and but for all of them with --skip-hw.
ASSUME DecodedAssumption == Decoded \in [Tcr \union {StaticTcr} -> Tcr \union {StaticTcr}]
\* A route's rule matches its destination, so no other route wants it.
ASSUME OwnerAssumption ==
    /\ IsFiniteSet(Route) /\ IsFiniteSet(Target) /\ IsFiniteSet(Pointer)
    /\ Wants \in [Route \union Target -> SUBSET Tcr]
    /\ \A o \in Route, p \in Route \union Target : o # p => Wants[o] \cap Wants[p] = {}
    /\ Route \cap Target = {}
ASSUME BoundAssumption == {MaxOps, MaxExt, MaxLost, MaxScans} \subseteq Nat

VARIABLES rule,    \* the heap of struct obj_rule
          work,    \* requests waiting in the queue, oldest first
          current, \* the request in flight
          pin,     \* obj_rule_pin_changes
          kern,    \* the kernel's filter table
          mon,     \* notifications on the monitor socket, oldest first
          dump,    \* filters of the running dump that are still to be received
          chains,  \* chains for targets that are in chain_tree
          own,     \* which rule each pointer refers to
          fault,   \* the assertion that failed or the invalid access, if any
          left,    \* what is left of the bounds
          torn     \* history: a notification was lost, or the table changed
                   \* under a dump

vars == <<rule, work, current, pin, kern, mon, dump, chains, own, fault, left, torn>>

-----------------------------------------------------------------------------

Slot   == 0..(Width - 1)
Owner  == Route \union Target \union Pointer
AnyTcr == Tcr \union {StaticTcr}
MaybeTcr == AnyTcr \union {NoTcr}

\* Bound: rules at a time, one per slot in the positional tree and some that
\* did not get into it.
Rule   == 1..(Width + Cardinality(Route) + 1)
NoRule == 0

RuleState == {"free", "NEW", "ALIEN", "WANT", "QUEUED", "PENDING", "OK", "ZOMBIE"}

\* struct obj_rule; `inst' is obj.state = INSTALLED, `pos' and `laf' are
\* membership in the positional and in the lost and found tree.
RuleRecord ==
    [state : RuleState, slot : Slot, want : MaybeTcr, have : MaybeTcr,
     refs : Nat, inst : BOOLEAN, static : BOOLEAN, pos : BOOLEAN, laf : BOOLEAN]

Freed ==
    [state |-> "free", slot |-> 0, want |-> NoTcr, have |-> NoTcr, refs |-> 0,
     inst |-> FALSE, static |-> FALSE, pos |-> FALSE, laf |-> FALSE]

Change(op, r) == [op |-> op, rule |-> r]

Work == [op : {"install", "uninstall"}, rule : Rule]
            \union [op : {"filters", "routes"}, rule : {NoRule}]

Message == [op : {"NEW", "DEL"}, slot : Slot, tcr : AnyTcr]

\* The daemon's state as the C functions see and change it.
Here == [rule |-> rule, work |-> work, current |-> current, pin |-> pin,
         kern |-> kern, mon |-> mon, dump |-> dump, chains |-> chains,
         own |-> own, fault |-> fault]

Becomes(s) ==
    /\ rule' = s.rule
    /\ work' = s.work
    /\ current' = s.current
    /\ pin' = s.pin
    /\ kern' = s.kern
    /\ mon' = s.mon
    /\ dump' = s.dump
    /\ chains' = s.chains
    /\ own' = s.own
    /\ fault' = s.fault

Live(s, r) == s.rule[r].state # "free"

-----------------------------------------------------------------------------
(* The two trees.                                                           *)

InPos(s, slot) == {r \in Rule : s.rule[r].pos /\ s.rule[r].slot = slot}
InLaf(s, tcr)  == {r \in Rule : s.rule[r].laf /\ s.rule[r].have = tcr}

OneOf(rules) == IF rules = {} THEN NoRule ELSE CHOOSE r \in rules : TRUE

obj_rule_pos_lookup(s, slot) == OneOf(InPos(s, slot))
obj_rule_laf_lookup(s, tcr)  == OneOf(InLaf(s, tcr))

UsedSlots(s) == {s.rule[r].slot : r \in {q \in Rule : s.rule[q].pos}}

\* A search of the lost and found tree compares with `have' of the nodes it
\* passes, whichever they are; one of them may be the null pointer.
LafHasNull(s) == \E r \in Rule : s.rule[r].laf /\ s.rule[r].have = NoTcr

\* obj_rule_pos_insert and obj_rule_laf_insert: no effect when taken.
PosInsert(s, r) ==
    [s EXCEPT !.rule[r].pos = (InPos(s, s.rule[r].slot) = {})]

LafInsert(s, r) ==
    [s EXCEPT !.rule[r].laf = (InLaf(s, s.rule[r].have) = {})]

\* obj_rule_alloc, and the fields its callers fill in.
Unallocated(s) == CHOOSE r \in Rule : ~Live(s, r)
                                      /\ \A q \in Rule : q < r => Live(s, q)

Allocate(s, r, slot, want, have, refs) ==
    [s EXCEPT !.rule[r] = [Freed EXCEPT !.state = "NEW", !.slot = slot,
                                        !.want = want, !.have = have,
                                        !.inst = (have # NoTcr),
                                        !.refs = refs]]

-----------------------------------------------------------------------------
(* The kernel: RTM_NEWTFILTER with NLM_F_EXCL, RTM_DELTFILTER.  A change is *)
(* made when the request is sent and announced on the monitor socket.       *)
(* Contents in the kernel, and in what it sends, are those decode_filter    *)
(* reads there.                                                             *)

\* A filter that decode_filter reads as tcr.
KernelGets(s, slot, tcr) ==
    IF s.kern[slot] # NoTcr
    THEN s
    ELSE [s EXCEPT !.kern[slot] = tcr,
                   !.mon = Append(@, [op |-> "NEW", slot |-> slot, tcr |-> tcr])]

\* The filter that is made of tcr.
KernelAdds(s, slot, tcr) == KernelGets(s, slot, Decoded[tcr])

KernelDels(s, slot) ==
    IF s.kern[slot] = NoTcr
    THEN s
    ELSE [s EXCEPT !.kern[slot] = NoTcr,
                   !.mon = Append(@, [op |-> "DEL", slot |-> slot,
                                      tcr |-> s.kern[slot]])]

\* The filters a dump sends, in the order of their slots.
Filters(k) ==
    LET upTo[n \in 0..Width] ==
            IF n = 0 THEN <<>>
            ELSE IF k[n - 1] = NoTcr THEN upTo[n - 1]
            ELSE Append(upTo[n - 1], [slot |-> n - 1, tcr |-> k[n - 1]])
    IN  upTo[Width]

-----------------------------------------------------------------------------
(* States of a rule.                                                        *)

Ref(s, r) == [s EXCEPT !.rule[r].refs = @ + 1]

\* Mutant: the queued action has no reference of its own.
Queue_NoRef(s, op, r) ==
    [s EXCEPT !.rule[r].state = "QUEUED",
              !.work = Append(@, Change(op, r))]

\* obj_rule_queue_install, obj_rule_queue_uninstall: the action holds a
\* reference; queue_schedule appends it.
Queue(s, op, r) ==
    [Ref(s, r) EXCEPT !.rule[r].state = "QUEUED",
                      !.work = Append(@, Change(op, r))]

State(s, r, state) == [s EXCEPT !.rule[r].state = state]

QueueInstall(s, r)   == IF s.pin < 2 THEN s ELSE Queue(s, "install", r)
QueueUninstall(s, r) == IF s.pin < 3 THEN s ELSE Queue(s, "uninstall", r)

\* Mutant: a rule that is queued already is looked at again.
UpdateState_Requeues(s, r) ==
    LET o == s.rule[r] IN
    IF s.pin = 0 THEN s
    ELSE IF o.want = NoTcr /\ o.have = NoTcr
         THEN IF o.state = "NEW" THEN s ELSE State(s, r, "ZOMBIE")
    ELSE IF o.want = o.have THEN State(s, r, "OK")
    ELSE IF o.have = NoTcr THEN QueueInstall(State(s, r, "WANT"), r)
    ELSE QueueUninstall(State(s, r, "ALIEN"), r)

\* Mutant: memcmp of want and have is left out.
UpdateState_NoCompare(s, r) ==
    LET o == s.rule[r] IN
    IF s.pin = 0 \/ o.state = "QUEUED" THEN s
    ELSE IF o.want = NoTcr /\ o.have = NoTcr
         THEN IF o.state = "NEW" THEN s ELSE State(s, r, "ZOMBIE")
    ELSE IF o.want # NoTcr /\ o.have # NoTcr THEN State(s, r, "OK")
    ELSE IF o.have = NoTcr THEN QueueInstall(State(s, r, "WANT"), r)
    ELSE QueueUninstall(State(s, r, "ALIEN"), r)

\* Mutant: the pointers want and have are compared, not the contents.
UpdateState_Pointers(s, r) ==
    LET o == s.rule[r] IN
    IF s.pin = 0 \/ o.state = "QUEUED" THEN s
    ELSE IF o.want = NoTcr /\ o.have = NoTcr
         THEN IF o.state = "NEW" THEN s ELSE State(s, r, "ZOMBIE")
    ELSE IF o.have = NoTcr THEN QueueInstall(State(s, r, "WANT"), r)
    ELSE QueueUninstall(State(s, r, "ALIEN"), r)

\* obj_rule_update_state, up to the request it queues.  Telling the routes of
\* a target whose rule is OK is left to the owners' actions (here) and to
\* ObjGraph.
UpdateState(s, r) ==
    LET o == s.rule[r] IN
    IF s.pin = 0 \/ o.state = "QUEUED" THEN s
    ELSE IF o.want = NoTcr /\ o.have = NoTcr
         THEN IF o.state = "NEW" THEN s ELSE State(s, r, "ZOMBIE")
    ELSE IF o.want = o.have THEN State(s, r, "OK")
    ELSE IF o.have = NoTcr THEN QueueInstall(State(s, r, "WANT"), r)
    ELSE QueueUninstall(State(s, r, "ALIEN"), r)

\* obj_rule_uninstall.
Uninstall(s, r) == UpdateState([s EXCEPT !.rule[r].want = NoTcr], r)

\* obj_rule_reap.
Reap(s, r) == [s EXCEPT !.rule[r] = Freed]

\* Mutant: a rule the kernel has need not be waited for.
Reapable_Installed(s, r) == s.rule[r].refs = 0

\* obj_is_reapable, in OBJ_MODE_NORMAL.
Reapable(s, r) == s.rule[r].refs = 0 /\ ~s.rule[r].inst

\* The last reference to a rule that is in the kernel is gone.
Abandoned(o) == o.refs = 0 /\ o.want # NoTcr /\ o.have # NoTcr /\ ~o.static

CountDown(s, r) == [s EXCEPT !.rule[r].refs = @ - 1]

\* obj_rule_unref.
Unref(s, r) ==
    LET d == CountDown(s, r)
        u == IF Abandoned(d.rule[r]) THEN Uninstall(d, r) ELSE d
    IN  IF Reapable(u, r) THEN Reap(u, r) ELSE u

-----------------------------------------------------------------------------
(* tc_action.c and the queue.                                               *)

Fails(s, why) == [s EXCEPT !.fault = why]

\* tc_action_execute: obj_rule_pre_install, the request, obj_rule_post_install.
\* The contents to install are read through the pointer to `want' that was
\* taken when the action was queued.
tc_action_execute(s, op, r) ==
    LET slot == s.rule[r].slot
        p == State(s, r, "PENDING")
    IN  CASE s.rule[r].state # "QUEUED" -> Fails(s, "pre_install")
          [] s.rule[r].state = "QUEUED" /\ op = "uninstall" ->
                Unref(KernelDels(p, slot), r)
          [] s.rule[r].state = "QUEUED" /\ op = "install" ->
                IF s.rule[r].want = NoTcr
                THEN Fails(s, "freed want")
                ELSE Unref(KernelAdds(p, slot, s.rule[r].want), r)

\* queue_process_loop: start the oldest request when none is in flight.
Kick(s) ==
    IF s.current # "none" \/ s.work = <<>> THEN s ELSE
    LET w == Head(s.work)
        b == [s EXCEPT !.work = Tail(@), !.current = w.op]
    IN  CASE w.op = "filters" -> [b EXCEPT !.dump = Filters(b.kern)]
          [] w.op \in {"install", "uninstall"} -> tc_action_execute(b, w.op, w.rule)
          [] OTHER -> b

UpdateAndKick(s, r) == Kick(UpdateState(s, r))

-----------------------------------------------------------------------------
(* obj_rule_netlink_found.                                                  *)

\* The rule a message is about.
Subject(s, m) ==
    LET r == obj_rule_pos_lookup(s, m.slot)
        f == obj_rule_laf_lookup(s, m.tcr)
    IN  IF r # NoRule THEN r
        ELSE IF f # NoRule /\ s.rule[f].slot = m.slot THEN f ELSE NoRule

FoundUnknown(s, m) ==
    LET r == Unallocated(s)
        a == Allocate(s, r, m.slot, NoTcr, m.tcr, 0)
    IN  UpdateAndKick(LafInsert(PosInsert(a, r), r), r)

FoundKnown(s, m, r) ==
    IF s.rule[r].have = m.tcr THEN s
    ELSE UpdateAndKick([s EXCEPT !.rule[r].have = m.tcr,
                                  !.rule[r].inst = @ \/ s.rule[r].have = NoTcr], r)

\* Mutant: have is not cleared.
FoundDeleted_KeepsHave(s, r) ==
    LET d == [Ref(s, r) EXCEPT !.rule[r].inst = FALSE]
        u == IF d.rule[r].want # NoTcr THEN UpdateAndKick(d, r) ELSE d
    IN  Kick(Unref(u, r))

\* Mutant: the state of a rule that is still wanted is not updated.
FoundDeleted_NoUpdate(s, r) ==
    LET d == [Ref(s, r) EXCEPT !.rule[r].inst = FALSE, !.rule[r].have = NoTcr]
    IN  Kick(Unref(d, r))

\* obj_rule_delete.
FoundDeleted(s, r) ==
    LET d == [Ref(s, r) EXCEPT !.rule[r].inst = FALSE, !.rule[r].have = NoTcr]
        u == IF d.rule[r].want # NoTcr THEN UpdateAndKick(d, r) ELSE d
    IN  Kick(Unref(u, r))

obj_rule_netlink_found(s, m) ==
    LET r == Subject(s, m) IN
    CASE m.op = "DEL" /\ r = NoRule -> s
      [] m.op = "DEL" /\ r # NoRule -> FoundDeleted(s, r)
      [] m.op = "NEW" /\ r = NoRule -> FoundUnknown(s, m)
      [] m.op = "NEW" /\ r # NoRule -> FoundKnown(s, m, r)

\* The search of the lost and found tree happens when the slot is unknown.
SearchesLaf(s, m) == obj_rule_pos_lookup(s, m.slot) = NoRule

-----------------------------------------------------------------------------
(* obj_rule_request.                                                        *)

\* sched_basic_place: the rule of a target gets a chain of its own, the rule of
\* a route a priority in the chain of its address family.
sched_basic_place(s, o) ==
    IF o \in Target
    THEN ChainSlot(s.chains, ChainBase, Width)
    ELSE PrioSlot({p \in UsedSlots(s) : p < ChainBase}, MinSlot, ChainBase)

\* filter_reserve_chain.
ReserveChain(s, slot) ==
    IF slot < ChainBase THEN s ELSE [s EXCEPT !.chains = @ \union {slot}]

\* The rule a request returns: one from the lost and found tree or a new one.
Requested(s, tcr) ==
    IF InLaf(s, tcr) # {} THEN obj_rule_laf_lookup(s, tcr) ELSE Unallocated(s)

\* Mutant: a rule that is adopted stays in the lost and found tree.
obj_rule_prime_request_KeepsLaf(s, o, tcr) ==
    LET r == Requested(s, tcr)
        slot == sched_basic_place(s, o)
    IN  IF InLaf(s, tcr) # {}
        THEN [s EXCEPT !.rule[r].refs = @ + 2, !.rule[r].want = tcr, !.own[o] = r]
        ELSE PosInsert(Allocate(ReserveChain([s EXCEPT !.own[o] = r], slot),
                                r, slot, tcr, NoTcr, 1), r)

\* A rule that is adopted gets two references.
obj_rule_prime_request(s, o, tcr) ==
    LET r == Requested(s, tcr)
        slot == sched_basic_place(s, o)
    IN  IF InLaf(s, tcr) # {}
        THEN [s EXCEPT !.rule[r].refs = @ + 2,
                       !.rule[r].want = tcr,
                       !.rule[r].laf = FALSE,
                       !.own[o] = r]
        ELSE PosInsert(Allocate(ReserveChain([s EXCEPT !.own[o] = r], slot),
                                r, slot, tcr, NoTcr, 1), r)

\* obj_rule_request; o is the pointer its result is assigned to.
obj_rule_request(s, o, tcr) ==
    LET p == obj_rule_prime_request(s, o, tcr) IN UpdateAndKick(p, p.own[o])

\* Bound: chains and priorities never run out (there are 2^32 and 2^16); what
\* the search returns when they do is shown by SlotSearch.
HasPlace(s, o, tcr) ==
    \/ InLaf(s, tcr) # {}
    \/ o \in Target /\ ~(ChainBase..(Width - 1) \subseteq s.chains)
    \/ o \in Route /\ ~(MinSlot..(ChainBase - 1) \subseteq UsedSlots(s))

-----------------------------------------------------------------------------
(* obj_rule_remove_pin and the scan that leads to it.                       *)

UpdateSlot(s, slot) ==
    LET r == obj_rule_pos_lookup(s, slot) IN
    IF r = NoRule THEN s ELSE UpdateAndKick(s, r)

\* The walk over the positional tree.
UpdateAll(s) ==
    LET walked[n \in 0..Width] ==
            IF n = 0 THEN s ELSE UpdateSlot(walked[n - 1], n - 1)
    IN  walked[Width]

RouteRequest(s, o, tcr) ==
    IF tcr # NoTcr /\ HasPlace(s, o, tcr) THEN obj_rule_request(s, o, tcr) ELSE s

\* obj_target_notify_routes: some routes without a rule request theirs.
RoutesRequest(s, tcrs) ==
    LET asked[n \in 0..Cardinality(Route)] ==
            IF n = 0 THEN s
            ELSE LET o == SetToSeq(Route)[n] IN RouteRequest(asked[n - 1], o, tcrs[o])
    IN  asked[Cardinality(Route)]

\* What the routes may request: each at most one of the rules it may want.
RouteRequests(s) ==
    {tcrs \in [Route -> Tcr \union {NoTcr}] :
        \A o \in Route : tcrs[o] # NoTcr => tcrs[o] \in Wants[o] /\ s.own[o] = NoRule}

\* Mutant: i <= 4.
obj_rule_remove_pin_TooFar(s, tcrs) ==
    IF s.pin >= 3 THEN s
    ELSE LET Pinned(t, i) == UpdateAll([t EXCEPT !.pin = i])
         IN  Pinned(Pinned(Pinned(RoutesRequest(Pinned(Pinned(s, 0), 1), tcrs), 2), 3), 4)

\* The pin goes up in steps.  At 1 the targets whose rule is there already are
\* OK, and their routes request a rule; installing begins at 2, uninstalling
\* at 3.
obj_rule_remove_pin(s, tcrs) ==
    IF s.pin >= 3 THEN s
    ELSE LET Pinned(t, i) == UpdateAll([t EXCEPT !.pin = i])
         IN  Pinned(Pinned(RoutesRequest(Pinned(Pinned(s, 0), 1), tcrs), 2), 3)

\* A static rule is reaped when its installation is sent.  When that happens in
\* the walk of obj_rule_remove_pin, the walk goes on from a freed node.
WalksFreed(s) ==
    s.pin < 3 /\ s.work = <<>>
    /\ \E slot \in 0..(MinSlot - 1) :
           LET r == obj_rule_pos_lookup(s, slot) IN
           /\ r # NoRule /\ s.rule[r].static /\ s.rule[r].have = NoTcr

Schedule(s, op) == Kick([s EXCEPT !.work = Append(@, Change(op, NoRule))])

\* decode_chain, filter_got_chain: the chains there are.
ChainsFound(s) ==
    [s EXCEPT !.chains = @ \union {c \in ChainBase..(Width - 1) : s.kern[c] # NoTcr}]

\* advance_scan, called when a dump has completed: the filters and chains are
\* dumped first and the routes last (the dumps between them are left out), then
\* the pin is removed and the scan waits for its timer.
advance_scan(s, op, tcrs) ==
    CASE op = "filters" ->
            Schedule(ChainsFound(s), "routes")
      [] op = "routes" -> obj_rule_remove_pin(s, tcrs)
      [] OTHER         -> s

Scanning == current \in {"filters", "routes"}
            \/ \E k \in 1..Len(work) : work[k].op \in {"filters", "routes"}

-----------------------------------------------------------------------------
(* Handlers of the daemon.                                                  *)

Running == fault = "none"

\* A handler that searches the lost and found tree may follow a null pointer.
MayFollowNull(s) == LafHasNull(s) /\ Becomes(Fails(s, "laf null"))

\* monitor.c: one notification.
ReceiveNotification ==
    /\ Running
    /\ mon # <<>>
    /\ LET s == [Here EXCEPT !.mon = Tail(@)] IN
       \/ Becomes(obj_rule_netlink_found(s, Head(mon)))
       \/ SearchesLaf(s, Head(mon)) /\ MayFollowNull(s)
    /\ UNCHANGED <<left, torn>>

\* nl_receive_cb, one filter of the dump in flight.
ReceiveFilter ==
    /\ Running
    /\ dump # <<>>
    /\ LET s == [Here EXCEPT !.dump = Tail(@)]
           m == [op |-> "NEW", slot |-> Head(dump).slot, tcr |-> Head(dump).tcr]
       IN  \/ Becomes(obj_rule_netlink_found(s, m))
           \/ SearchesLaf(s, m) /\ MayFollowNull(s)
    /\ UNCHANGED <<left, torn>>

\* The last reply to the request in flight; the queue goes on.
RequestCompletes ==
    /\ Running
    /\ current # "none"
    /\ dump = <<>>
    /\ LET s == [Here EXCEPT !.current = "none"] IN
       \/ current # "routes" /\ Becomes(Kick(advance_scan(s, current, <<>>)))
       \/ /\ current = "routes"
          /\ \E tcrs \in RouteRequests(s) : Becomes(Kick(advance_scan(s, current, tcrs)))
       \/ current = "routes" /\ WalksFreed(s) /\ Becomes(Fails(s, "freed node"))
    /\ UNCHANGED <<left, torn>>

\* scan_timeout_cb.
ScanTimer ==
    /\ Running
    /\ ~Scanning
    /\ left.scans > 0
    /\ left' = [left EXCEPT !.scans = @ - 1]
    /\ Becomes(Schedule(Here, "filters"))
    /\ UNCHANGED torn

-----------------------------------------------------------------------------
(* What routes do with rules.  ObjGraph has the targets as well.            *)

\* Bound: MaxOps of these.
OwnerActs ==
    /\ Running
    /\ left.ops > 0
    /\ left' = [left EXCEPT !.ops = @ - 1]
    /\ UNCHANGED torn

\* obj_route_install: a first rule is requested.  The rule of the route's
\* target is OK by then, so the pin has been removed.
Request(o, tcr) ==
    /\ OwnerActs
    /\ own[o] = NoRule
    /\ pin = 3
    /\ HasPlace(Here, o, tcr)
    /\ Becomes(obj_rule_request(Here, o, tcr)) \/ MayFollowNull(Here)

\* obj_route_install, the route has a new target: the new rule is requested
\* before the old one is let go.
Replace(o, tcr) ==
    /\ OwnerActs
    /\ own[o] # NoRule
    /\ rule[own[o]].want \notin {NoTcr, tcr}
    /\ HasPlace(Here, o, tcr)
    /\ \/ Becomes(Kick(Unref(obj_rule_request(Here, o, tcr), own[o])))
       \/ MayFollowNull(Here)

Drop(s, o) == Kick(Unref([s EXCEPT !.own[o] = NoRule], s.own[o]))

\* obj_route_delete: a rule that is in the kernel is uninstalled at once, then
\* the route is reaped and drops its reference.
obj_route_delete(o) ==
    /\ OwnerActs
    /\ own[o] # NoRule
    /\ LET r == own[o]
           u == IF rule[r].have # NoTcr THEN Kick(Uninstall(Here, r)) ELSE Here
       IN  Becomes(Drop(u, o))

-----------------------------------------------------------------------------
(* The world outside: somebody edits the filter table, notifications are    *)
(* lost when the socket overflows.                                          *)

Outside ==
    /\ Running
    /\ UNCHANGED <<rule, work, current, pin, dump, chains, own, fault>>

OthersAdd(slot, tcr) ==
    /\ Outside
    /\ left.ext > 0
    /\ kern[slot] = NoTcr
    /\ slot < ChainBase
    /\ left' = [left EXCEPT !.ext = @ - 1]
    /\ LET s == KernelAdds(Here, slot, tcr) IN kern' = s.kern /\ mon' = s.mon
    /\ torn' = (torn \/ dump # <<>>)

OthersDelete(slot) ==
    /\ Outside
    /\ left.ext > 0
    /\ kern[slot] # NoTcr
    /\ left' = [left EXCEPT !.ext = @ - 1]
    /\ LET s == KernelDels(Here, slot) IN kern' = s.kern /\ mon' = s.mon
    /\ torn' = (torn \/ dump # <<>>)

LoseNotification ==
    /\ Outside
    /\ left.lost > 0
    /\ mon # <<>>
    /\ left' = [left EXCEPT !.lost = @ - 1]
    /\ mon' = Tail(mon)
    /\ UNCHANGED kern
    /\ torn' = TRUE

-----------------------------------------------------------------------------

\* obj_rule_static_want.
StaticRule ==
    [Freed EXCEPT !.state = "NEW", !.want = StaticTcr, !.static = TRUE, !.pos = TRUE]

ForRoutes  == UNION {Wants[o] : o \in Route}
ForTargets == UNION {Wants[o] : o \in Target}

\* What an earlier run of the daemon may have left in the kernel.
LeftBehind ==
    {k \in [Slot -> MaybeTcr] :
        \A slot \in Slot :
            LET wanted == CASE slot < MinSlot -> {StaticTcr}
                            [] slot \in MinSlot..(ChainBase - 1) -> ForRoutes
                            [] slot >= ChainBase -> ForTargets
            IN  k[slot] \in {NoTcr} \union {Decoded[tcr] : tcr \in wanted}}

\* main: sched_init has stated its static wants (obj_rule_static_want), and
\* scan_init has sent the first dump.  k is what the kernel has by then.
Start(k) ==
    /\ rule = [r \in Rule |-> IF r = 1 /\ WithStatic THEN StaticRule ELSE Freed]
    /\ work = <<>>
    /\ current = "filters"
    /\ pin = 0
    /\ kern = k
    /\ mon = <<>>
    /\ dump = Filters(k)
    /\ chains = {}
    /\ own = [o \in Owner |-> NoRule]
    /\ fault = "none"
    /\ left = [ops |-> MaxOps, ext |-> MaxExt, lost |-> MaxLost, scans |-> MaxScans]
    /\ torn = FALSE

Init == \E k \in LeftBehind : Start(k)

Program == ReceiveNotification \/ ReceiveFilter \/ RequestCompletes

Owners ==
    \E o \in Route : \/ \E tcr \in Wants[o] : Request(o, tcr) \/ Replace(o, tcr)
                     \/ obj_route_delete(o)

Others ==
    \/ \E slot \in Slot : OthersDelete(slot) \/ \E tcr \in Tcr : OthersAdd(slot, tcr)
    \/ LoseNotification

Next == Program \/ ScanTimer \/ Owners \/ Others

Spec == Init /\ [][Next]_vars

\* A handler has something to do.
Busy == Running /\ (mon # <<>> \/ current # "none")

\* libev serves every readable socket, and the kernel answers every request:
\* WF_vars(Program), with its two parts spelled out.  Program is enabled when
\* the daemon is busy, and its steps are those that leave the bounds alone.
FairSpec == Spec /\ ([]<>~Busy \/ []<><<UNCHANGED left>>_vars)

-----------------------------------------------------------------------------

TypeOK ==
    /\ rule \in [Rule -> RuleRecord]
    /\ work \in Seq(Work)
    /\ current \in {"none", "install", "uninstall", "filters", "routes"}
    /\ pin \in 0..3
    /\ kern \in [Slot -> MaybeTcr]
    /\ mon \in Seq(Message)
    /\ dump \in Seq([slot : Slot, tcr : AnyTcr])
    /\ chains \subseteq ChainBase..(Width - 1)
    /\ own \in [Owner -> Rule \union {NoRule}]
    /\ fault \in {"none", "pre_install", "freed want", "laf null", "freed node"}
    /\ left \in [ops : 0..MaxOps, ext : 0..MaxExt, lost : 0..MaxLost,
                 scans : 0..MaxScans]
    /\ torn \in BOOLEAN

Holders(r) == {o \in Owner : own[o] = r}
Requests(r) == {k \in 1..Len(work) : work[k].rule = r}

\* Reference counting: every pointer an owner or a queued request has is to a
\* rule that has not been reaped, and is counted.
RefsCovered ==
    Running =>
    \A r \in Rule :
        /\ rule[r].refs >= Cardinality(Holders(r)) + Cardinality(Requests(r))
        /\ rule[r].state = "free" => Holders(r) = {} /\ Requests(r) = {}

\* A rule is QUEUED exactly while one request for it waits in the queue, so
\* obj_rule_pre_install's assertion holds and no rule is queued twice.
QueuedOnce ==
    /\ fault # "pre_install"
    /\ Running => \A r \in Rule : Cardinality(Requests(r)) =
                                     IF rule[r].state = "QUEUED" THEN 1 ELSE 0

\* Nothing is in flight between the daemon and the kernel.
Quiet == current = "none" /\ work = <<>> /\ mon = <<>>

\* Unless a notification was lost or the table changed under a running dump,
\* what the daemon believes is in the kernel (have) is what is there, as soon
\* as nothing is in flight: dumps, notifications and requests do not get in
\* each other's way.
Coherent ==
    Running /\ Quiet /\ ~torn =>
        \A slot \in Slot :
            LET r == obj_rule_pos_lookup(Here, slot) IN
            kern[slot] = IF r = NoRule THEN NoTcr ELSE rule[r].have

\* A rule that is OK is one the daemon wants and has found in the kernel.
OKMeansInstalled ==
    \A r \in Rule : rule[r].state = "OK" => /\ rule[r].want # NoTcr
                                            /\ rule[r].want = rule[r].have

\* obj_rule.c says that the lost and found tree has what was found in the kernel,
\* until it is requested or removed, so all its rules have contents; searching
\* it follows the null pointer of one that has not.  Here nobody else edits the
\* table; when somebody removes a filter whose removal is queued it fails,
\* because obj_rule_delete leaves the rule in the tree.
LostAndFound == ~LafHasNull(Here)

\* As long as nobody else edits the table, a rule that is OK, and whose filter
\* is in the kernel, stays so until one of those who hold it lets go: no late
\* notification, dump, restart or other rule disturbs the traffic it carries.
OKStays ==
    [][\A o \in Owner :
          LET r == own[o] IN
          /\ r # NoRule
          /\ own'[o] = r
          /\ rule[r].state = "OK"
          /\ kern[rule[r].slot] = rule[r].have
          => /\ rule'[r].state = "OK"
             /\ kern'[rule[r].slot] = rule[r].have]_vars

\* The slots of rules that are not read back as they are wanted.
Unlike == {rule[r].slot : r \in {q \in Rule : rule[q].want # NoTcr /\ Decoded[rule[q].want] # rule[q].want}}

\* The daemon comes to rest: it does not keep installing and uninstalling.  A rule
\* that is not read back as it is wanted is the exception: memcmp in
\* obj_rule_update_state takes it for an alien when its installation is announced,
\* so it is removed, wanted again when that is announced, and installed, for ever
\* (with --skip-hw, all rules of routes and targets).  That goes on only as long as
\* somebody wants the rule, and everything else comes to rest beside it; a static
\* rule has been reaped by the time it is read back, and is removed once.
ComesToRest ==
    <>[](Running => \/ Quiet
                    \/ /\ Unlike # {}
                       /\ current \in {"none", "install", "uninstall"}
                       /\ \A k \in 1..Len(work) :
                             work[k].rule # NoRule /\ rule[work[k].rule].slot \in Unlike
                       /\ \A k \in 1..Len(mon) : mon[k].slot \in Unlike)

-----------------------------------------------------------------------------
(* What the comments of the code promise.                                   *)

\* obj.h, OBJ_RULE_TYPE_STATIC: a static rule is never uninstalled (not by the
\* daemon, in runs where nobody else edits the table).
StaticStays ==
    [][\A slot \in Slot : kern[slot] = StaticTcr => kern'[slot] = StaticTcr]_vars
-----------------------------------------------------------------------------
(* The inductive invariant of RuleSync_proofs.  It is about a state `s' of  *)
(* the daemon, because it has to hold between the C functions of a handler: *)
(* there the handler has references of its own (e), and the state of one    *)
(* rule (x) may not have been brought up to date yet.                       *)

DaemonType ==
    [rule : [Rule -> RuleRecord], work : Seq(Work),
     current : {"none", "install", "uninstall", "filters", "routes"},
     pin : 0..3, kern : [Slot -> MaybeTcr], mon : Seq(Message),
     dump : Seq([slot : Slot, tcr : AnyTcr]), chains : SUBSET (ChainBase..(Width - 1)),
     own : [Owner -> Rule \union {NoRule}],
     fault : {"none", "pre_install", "freed want", "laf null", "freed node"}]

\* A rule by itself.  Until the pin is removed nothing is done to a rule.
Sane(o, p) ==
    /\ o.state = "free" => o = Freed
    /\ o.state # "free" => o.pos
    /\ o.inst <=> o.have # NoTcr
    /\ p = 0 => o.state \in {"free", "NEW"}

UpToDate(o) == o.state = "OK" => o.want # NoTcr /\ o.want = o.have

RulesSane(s, x) ==
    \A r \in Rule : Sane(s.rule[r], s.pin) /\ (r # x => UpToDate(s.rule[r]))

\* Every rule there is has a slot of its own.
Apart(s) ==
    \A q, r \in Rule : s.rule[q].pos /\ s.rule[r].pos /\ q # r
                       => s.rule[q].slot # s.rule[r].slot

\* The waiting requests and the rules that are QUEUED are the same.
RequestsAgree(s) ==
    /\ \A k \in 1..Len(s.work) :
          s.work[k].rule \in Rule => s.rule[s.work[k].rule].state = "QUEUED"
    /\ \A j, k \in 1..Len(s.work) :
          s.work[j].rule \in Rule /\ s.work[j].rule = s.work[k].rule => j = k
    /\ s.fault = "none" =>
          \A r \in Rule : s.rule[r].state = "QUEUED"
                          => \E k \in 1..Len(s.work) : s.work[k].rule = r

NoExtra == [r \in Rule |-> 0]

HoldersOf(s, r) == {o \in Owner : s.own[o] = r}
QueueHolds(o)   == IF o.state = "QUEUED" THEN 1 ELSE 0

Counted(s, e) ==
    \A r \in Rule : s.rule[r].refs >= Cardinality(HoldersOf(s, r))
                                      + QueueHolds(s.rule[r]) + e[r]

Good(s, e, x) ==
    /\ s \in DaemonType
    /\ RulesSane(s, x)
    /\ Apart(s)
    /\ RequestsAgree(s)
    /\ Counted(s, e)
    /\ s.current # "filters" => s.dump = <<>>
    /\ s.fault # "pre_install"

\* What is believed of the kernel's table, and what is still to be heard of it.
HaveIn(s, slot, tcr) ==
    \E r \in Rule : s.rule[r].pos /\ s.rule[r].slot = slot /\ s.rule[r].have = tcr

Effect(m) == IF m.op = "NEW" THEN m.tcr ELSE NoTcr

LastWord(s, k) == \A j \in 1..Len(s.mon) : j > k => s.mon[j].slot # s.mon[k].slot

MonTrue(s) ==
    \A k \in 1..Len(s.mon) : LastWord(s, k) => s.kern[s.mon[k].slot] = Effect(s.mon[k])

DumpTrue(s) == \A k \in 1..Len(s.dump) : s.kern[s.dump[k].slot] = s.dump[k].tcr

Told(s, slot) == \/ \E k \in 1..Len(s.mon) : s.mon[k].slot = slot
                 \/ \E k \in 1..Len(s.dump) : s.dump[k].slot = slot

Agrees(s, slot) == \A tcr \in AnyTcr : s.kern[slot] = tcr <=> HaveIn(s, slot, tcr)

\* A slot the daemon is wrong about is one it is going to be told of.
Informed(s) ==
    s.fault = "none" =>
        /\ MonTrue(s)
        /\ DumpTrue(s)
        /\ \A slot \in Slot : Told(s, slot) \/ Agrees(s, slot)

IndInv ==
    /\ Good(Here, NoExtra, NoRule)
    /\ pin \in {0, 3}
    /\ left \in [ops : 0..MaxOps, ext : 0..MaxExt, lost : 0..MaxLost, scans : 0..MaxScans]
    /\ torn \in BOOLEAN
    /\ ~torn => Informed(Here)

-----------------------------------------------------------------------------
(* What holds besides when nobody else edits the table (MaxExt = 0): a slot *)
(* has one content at a time, and the rule that has it waits for the        *)
(* notification of its removal.                                             *)

\* The removal of the filter in a slot is still to be heard of.
Leaving(s, slot) ==
    \E k \in 1..Len(s.mon) : s.mon[k].op = "DEL" /\ s.mon[k].slot = slot

OneAtATime(s) ==
    /\ \A r \in Rule : s.rule[r].pos /\ s.rule[r].have # NoTcr
                       => s.kern[s.rule[r].slot] \in {NoTcr, s.rule[r].have}
    /\ \A k \in 1..Len(s.mon) : s.mon[k].op = "NEW" =>
          /\ s.kern[s.mon[k].slot] \in {NoTcr, s.mon[k].tcr}
          /\ \A r \in Rule : s.rule[r].pos /\ s.rule[r].slot = s.mon[k].slot
                             => s.rule[r].have \in {NoTcr, s.mon[k].tcr}

RemovalsAwaited(s) ==
    \A k \in 1..Len(s.mon) : s.mon[k].op = "DEL" =>
        /\ s.pin # 0
        /\ LastWord(s, k)
        /\ \E r \in Rule : /\ s.rule[r].pos
                           /\ s.rule[r].slot = s.mon[k].slot
                           /\ s.rule[r].have # NoTcr

\* A request that has become pointless finds the table as it should be.
RequestsFit(s) ==
    \A k \in 1..Len(s.work) :
        LET r == s.work[k].rule IN
        /\ s.work[k].op = "uninstall" /\ s.rule[r].have = NoTcr
           => s.kern[s.rule[r].slot] = NoTcr
        /\ s.work[k].op = "install" /\ s.rule[r].have # NoTcr
           => s.kern[s.rule[r].slot] # NoTcr

\* What is in the lost and found tree is in the kernel, wanted by nobody, and
\* removed once.
Unclaimed(s, e) ==
    \A r \in Rule : s.rule[r].laf =>
        /\ s.rule[r].want = NoTcr /\ s.rule[r].have # NoTcr
        /\ \A o \in Owner : s.own[o] # r
        /\ s.rule[r].refs = QueueHolds(s.rule[r]) + e[r]
        /\ s.rule[r].state = "QUEUED" => ~Leaving(s, s.rule[r].slot)

HeldByOne(s) ==
    \A o, p \in Owner : s.own[o] = s.own[p] /\ s.own[o] # NoRule => o = p

Settled(s, e) ==
    /\ MonTrue(s)
    /\ DumpTrue(s)
    /\ OneAtATime(s)
    /\ RemovalsAwaited(s)
    /\ RequestsFit(s)
    /\ Unclaimed(s, e)
    /\ HeldByOne(s)

AloneInv == Settled(Here, NoExtra)
=============================================================================
