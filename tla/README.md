# TLA+ development for flower-route

Flower-route is a single-threaded daemon (libev) that keeps the TC-flower filter table
of a NIC in step with the kernel's routing table. It listens to rtnetlink notifications,
dumps the kernel's state at start and periodically, and installs and removes filters by
netlink requests that leave through one queue.

The modules here are written from the C sources in `src/src/`. `PROJECT.json` maps every
definition to the lines it stands for.

## 1. Inventory

| Component | Sources | State | Operations | What makes it correct |
|---|---|---|---|---|
| Request queue | `nl_queue.c`, `nl_send.c`, `nl_receive.c` | list of items, busy flag, sequence number, receive watcher | schedule, process, complete, receive, init/fini | one request at a time, in order, each once; asserts hold although callbacks re-enter; replies belong to their request |
| Rules | `obj_rule.c`, `tc_action.c` | objects with `want` and `have`, positional tree, lost and found tree, pin | request, uninstall, found (NEW/DEL), unref, remove pin | nothing referenced is reaped; one request waiting per rule; `have` agrees with the kernel; an installed rule stays while it is held |
| Slot searches | `obj_rule.c:510`, `nl_filter.c:159` | (pure) | find a free priority or chain | the slot is free |
| Scheduler | `sched.c`, `sched_basic.c` | - | initial requests, place a rule | TTL check before traps, traps before routes, however many there are |
| Scan | `scan.c` | state, helper index, next chain, timer | advance, timeout | every dump once per round, the pin removed after the last |
| Chains | `nl_filter.c` | tree of chains | found, reserve, find | a chain is given to one target |
| Monitor | `monitor.c`, `nl_conn.c` | a socket, its groups | subscribe, receive | every group subscribed; notifications in order |
| Object graph | `obj_link.c`, `obj_neigh.c`, `obj_target.c`, `obj_route.c`, `obj.h`, `nl_decode.c` | objects with strong and weak counts | netlink updates, link, unlink, reap | no dangling pointer, rules follow the graph, the new ones in place before the old ones go |
| Codec | `tc_encode.c`, `tc_decode.c`, `tc_rule.c` | (pure) | encode, decode, classify | a rule read back equals the rule written, and no other does, as far as it is read |
| Options, prefix lists | `options.c`, `config.c`, `onload.c` | configuration, lists of prefixes | parse options, add and load prefixes | what was asked for is wanted, in order, or the program does not start |
| Red-black tree, names, printing, `hack.c` | `rbtree.c`, `rt_names.c`, `hexdump.c`, ... | | | not modelled, section 6 |

How they interact. Everything happens in event handlers that run to completion. Netlink
messages (dumps through the queue's connection, notifications through the monitor's)
reach `obj_*_netlink_*` functions, which update the object graph; targets and routes
request and drop rules; a rule queues requests; the queue sends them one at a time and
calls back. `scan.c` uses the same queue for its dumps, and removes the "pin" that keeps
rules from being changed before the first scan is complete.

What is hard: callbacks that re-enter the queue (a handler is atomic for libev, but not
for the functions that call each other in it); the two sockets, whose messages about the
same filter are applied in either order; requests that are carried out long after they
were decided; a restart, after which the filters of the earlier run must be adopted
before they are removed; lost notifications and other users of the filter table; routes,
neighbours and links that change while the rules made from them are on their way; and
that a rule counts as installed only if it is read back byte for byte. `hazards` in
`PROJECT.json` lists each one at its line, with the properties that are about it.

## 2. Modules

| Module | What it is |
|---|---|
| `SerialQueue` | abstract specification: requests carried out one at a time, in order |
| `NlQueue` | the queue with its C stack; implements `SerialQueue` |
| `NlQueue_proofs` | TLAPS proofs about `NlQueue` |
| `Slots` | what the slot searches return, as operators |
| `SlotSearch` | the loops of the searches, one step per node |
| `SlotSearch_proofs` | TLAPS proofs about `SlotSearch` |
| `RuleSync` | rules, their requests, the kernel's filter table, notifications and dumps |
| `RuleSync_proofs` | TLAPS proofs about `RuleSync` |
| `RuleSyncAlone_proofs` | TLAPS proofs about `RuleSync` when nobody else edits the table |
| `MCRuleSync` | instances for TLC |
| `Scan` | the scanner's state machine on the request queue, with the C stack |
| `Scan_proofs` | TLAPS proofs about `Scan` |
| `Facts` | facts about sequences, numbers and recursive functions that the proofs use |
| `ObjGraph` | links, neighbours, targets and routes on top of `RuleSync`, with the kernel's tables and the groups that are joined |
| `ObjGraph_proofs` | TLAPS proofs about `ObjGraph` |
| `MCObjGraph` | instances for TLC |
| `TcRule` | encoding, dumping, decoding and classifying of rules, as operators |
| `Startup` | options, prefix lists, initial wants, and rules through `TcRule` |
| `Startup_proofs` | TLAPS proofs about `Startup` |
| `MCStartup` | prefixes, files and foreign filters for TLC |

`ObjGraph` composes: it EXTENDS `RuleSync` and puts real owners in the place of those
that `RuleSync` leaves open. `RuleSync` and `Startup` take the slot searches from
`Slots`, and `NlQueue` implements `SerialQueue`.

### NlQueue

The stack is explicit: `pc` is where the innermost `queue_process_loop` is, `completing`
the items whose `completed()` has not returned. `queue_schedule` may happen wherever
foreign code runs: in an event handler, inside `execute()`, inside `completed()`. One
action per C function or per stretch of it between two calls of foreign code:
`queue_process` ends with the call of `execute()`, `handle_queue_completed` with the
call of `completed()`, `completed_returns` is what follows. `nl_send_req` works or
fails; the kernel answers with up to `MaxParts` datagrams and a last one. `nl_receive_*`
are the outcomes of `nl_receive_cb` for one datagram. A garbled part (the decoder
returns an error) completes the request early; a failed `recvfrom` hangs the queue,
which the code knows (`nl_queue.c:5`).

### SlotSearch and Slots

`SlotSearch` walks the keys in order as the loops do, with the candidate wrapping at
`Width`. It shows that the loops compute `PrioSlot` and `ChainSlot` of `Slots`, which
`RuleSync` uses.

### RuleSync

The daemon's state is the record `Here`; each C function that a handler calls is an
operator from such a record to the next one, with the C name where there is one, and
`Becomes` turns the last one into the next state. So an action is one handler, with all
the calls it makes, including the sending of the next request (`Kick`) and its
callbacks.

* A rule has `want`, `have`, a state, a count, `inst` (obj.state is INSTALLED) and
  membership of the two trees.
* Slots below `ChainBase` are priorities in the chain of an address family, slot 0 is
  that of a static rule; slots from `ChainBase` on are chains of targets. (In
  `RuleSync`'s own runs there are only routes.)
* `kern` is the kernel's table. A request changes it when it is sent and appends a
  notification to `mon`; a dump is a snapshot, received filter by filter while
  notifications go on.
* What a filter is read back as is `Decoded` of what it was made from: `KernelAdds` puts
  that into the table. `Startup` shows what comes back as it was and what does not; here
  `Decoded` may be any function, and the instances are the identity (`AsWritten`) and one
  in which one of the rules a route may want comes back as it was, and another does not
  (`SomeUnlike`).
* Owners are the pointers `rule` of routes and targets and `target_rule` of routes. In
  `RuleSync` alone the owners are routes; what they may want is given by `Wants`, and
  when they want it is left open.
* Walks over trees and lists (`UpdateAll`, `RoutesRequest`, `Filters`) are recursive
  functions over the steps made, so that they can be proved about.
* Undefined behaviour is an outcome of its own: `fault` becomes "laf null" (a search of
  the lost and found tree may pass a node whose `have` is null), "freed want" (a queued
  installation whose `want` was freed), "freed node" (the walk of `obj_rule_remove_pin`
  goes on from a node it has freed) or "pre_install" (the assertion). The first three
  can happen; `QueuedOnce` says the last cannot. A run may also go on as if nothing had
  happened where the memory is still intact.

In `RuleSync` a scan is its first and last dump; `Scan` has the others. Left out:
teardown mode (only tests use it), and the possibility that an in-place change of `have`
leaves the lost and found tree out of order.

### Scan

One action per case of the switch of `advance_scan`, and one for what follows
`queue_schedule` in a case (`helper_scheduled`, `chain_scheduled`, `timer_again`):
between the two the request may be carried out, fail to be sent, complete and call
`advance_scan` again. `stack` holds the place every activation has reached. The queue is
that of `NlQueue` without its sockets: `send_works` and `send_fails` are `queue_process`
and what the loop does after it, `queue_is_complete` is the end of a reply.
`filter_got_chain` adds chains between any two handlers. Requests for rules share the
queue: those that the removal of the pin makes (`"pinned"`), and later ones, made when a
notification is handled. `mon` counts the notifications that will lead to one. After
`ev_break` handlers that were due may still run; the model lets any run until
`ev_run_returns`. `fault` is the end of the model: `scan_helpers` read past its null,
`rb_next` of null, or an assertion. `round` is a history variable.

Left out: what dumps report (only that chains appear), replies that are errors
(`advance_scan_cb` treats them as any other), receive errors (they hang the queue, see
`NlQueue`).

### ObjGraph

The same record, with `link`, `neigh`, `target` and `route` added, and `world`, the
kernel's own tables, beside it. An action is again one handler: `Notified` and `Dumped`
handle one message of the monitor or of the dump in flight, `Completed` is the end of a
request with the next step of the scan. `decode_nlmsg_cb` leads to
`obj_link_netlink_update`, `obj_neigh_netlink_update`, `decode_route` or
`decode_filter`, and these to everything they call: a neighbour's new address reaches
its target, the target drops its rule and requests another, and when the kernel's
notification makes that rule OK, `obj_target_notify_routes` installs the routes.

* A neighbour exists on a heap and may be in its link's tree (`fdb`) or not (`Orphan`:
  what `obj_neigh_netlink_get` makes of an unknown gateway). Strong and weak counts of
  links, targets and routes are those of the code; those of a neighbour are only held
  within a handler.
* `obj_route_install` has its two branches, first rule and replacement, with the
  references that the second holds while it goes from one rule to another.
* `groups` is the mask `monitor_init` makes, as a number, and `Joined` what the kernel
  takes it for. A change is announced only if its group is joined.
* Assertions are faults: `obj_target_reap`, `obj_link_reap` and
  `obj_route_prepare_rule`. `GraphTypeOK` says that only the first can fail.
* `Served` goes by the first match: of the filters for a destination packets take the
  one with the lowest priority, and if the chain it jumps to is empty they fall to the
  CPU, whatever comes after it. `StaysServed` is make before break in these terms, and
  names the two gaps that the code has; `ServedAtRest` says that both close.

As in `RuleSync`, walks over lists of routes and neighbours are recursive functions.

One link stands for all (they share nothing), with contents rules can be made from
(`Info`) or not (`NoVlan`). Multipath routes are treated as unipath. `Room` is a bound:
no handler starts unless heap and slots have room for what it makes.

### TcRule and Startup

`TcRule` has the codec as operators. A rule is the C structure, `pad` included, because
rules are compared with `memcmp`; a filter has the attributes that are written or read.
`Dumped`, what the kernel returns of a filter, is external and taken from the comments
in `tc_encode.c` and the decoder: the flag that tells whether the hardware took the
filter, the inner type in the place of the outer one, and no key whose mask is zero.

`Startup` reads a command line option by option in any order (`ReadOption`, one action
per case of the switch in `options_parse`), fills prefix lists as `onload.c` does, and
from them has the rules `sched_basic.c` wants, at their priorities (`Placed` is the
insertion into the positional tree, which leaves alone what is there). Then targets and
routes add theirs, and `Install`, `Found` and `Uninstall` apply to all rules at once
what `obj_rule_update_state` does for one: `RuleSync` has how requests travel, `Startup`
has what is in them. `onload_add_prefix` is modelled by what it does to memory: the
two-byte cells of the address are written from the start of `struct af_addr`, and family
and mask over them. Values of `-s` and `-T`, verbosity, `--dry-run` and the names of
tables are left out.

## 3. Runs

| Run | Instance | Shows |
|---|---|---|
| `NlQueue` | 4 items, replies of up to 3 datagrams | `TypeOK`, `QueueAsserts`, `NoUseAfterFree`, `ReplyOwed`, `OwnReply`, `RefinesSerialQueue`, `EveryItemCompletes` |
| `SlotSearch` | every subset of 8 slots, minimum 3 | `SlotIsFree`, `ComputesClosedForm` |
| `RuleSync` | 2 routes, 3 contents, 3 route slots, 2 operations, 1 re-scan | `TypeOK`, `RefsCovered`, `QueuedOnce`, `Coherent`, `OKMeansInstalled`, `LostAndFound`, `OKStays` |
| `RuleSyncOthers` | 1 route, whose rule may be read back unlike it is wanted, a static rule, 1 operation, 1 outside change, 1 lost notification, 1 re-scan | `RefsCovered`, `QueuedOnce`, `OKMeansInstalled`, `ComesToRest` |
| `Scan` | 2 chains, 2 rounds, 2 failed sends, 1 request for a rule and 1 change by others, both modes | `TypeOK`, `OneTurn`, `WalksInBounds`, `RoundInOrder`, `OneOffWaits`, `EveryRoundEnds` |
| `ObjGraph` | 2 gateways, 2 routes, tables in use at start, 2 changes of any of them, 1 re-scan | `GraphTypeOK`, `RefsCovered`, `CountsMatch`, `RuleHoldsTarget`, `RulesFresh`, `RoutesRequested`, `GraphCoherent`, `StaysServed`, `ServedAtRest` |
| `Startup` | up to 4 options, 5 prefixes, 3 files with 3 more, 46 foreign filters or none, 2 targets and 2 routes to choose from | `StartupTypeOK`, `TrapsInOrder`, `TrapsFirst`, `NothingOverlooked`, `OwnIsRecognized` |
| `RuleSyncStatic` | 1 route | finding, section 5 |
| `ObjGraphFollow` | 2 routes by way of 2 gateways that have addresses, 1 change | finding |
| `ObjGraphGhosts`, `ObjGraphReap` | 1 route, any tables at start, 1 change | findings |
| `StartupPrefixes` | as `Startup` | finding |

Bounds. Four items let a callback schedule two more while one is waiting, which is as
deep as activations can be told apart; sequence numbers matter only by equality. Two
routes and three contents are the least with which one route moves between targets while
another takes over the slot it leaves. The bounds `MaxOps`, `MaxExt`, `MaxLost` and
`MaxScans` limit how often owners, others, losses and the timer act; two operations
are request and delete, request and replace, or a request of each route. In `RuleSync`
slots do not run out (`HasPlace`): what the searches return then is shown by
`SlotSearch`. The initial filter table of `RuleSync` is any that an earlier run could
leave, duplicates included. Static rules are in `RuleSyncOthers` and
`RuleSyncStatic`. In `RuleSyncOthers` the route asks once, for `A1`, which comes back as it
was, or for `A2`, which does not: the program without `--skip-hw`, and with it.

In `ObjGraph` two gateways and two routes let a route move to a target that another
route has made ready, while a second target is still pending; two changes let the second
come while the requests of the first are under way. At the start one route is in use, and
of the second gateway there is an address and no route, or a route and no address yet
(`BusyWorlds`). Four neighbours on the heap are two
in the tree and two orphans, eight slots are four priorities and three chains, of which
one is left for the new rule of a target while the old one is there. Filters of an
earlier run are the subject of `RuleSync`.

In `Startup` `RouteBase` is 11 and not 100, so that two prefixes are enough to reach the
priorities of routes, and `Width` is 16. Four options are `-t`, `-i` and two with
prefixes, or one with a file and one more. The 46 filters in `MCStartup` are the
daemon's own (as left by an earlier run) and those that differ from one of them in one
attribute the decoder may or may not look at, or have an action or a key more, in front
or behind: another goto, a drop, another tag, a word twice. Each is in the place where
that rule is wanted, and two are where nothing is.

In `Scan` two rounds show what the first leaves behind (`helper_idx`), two chains a walk
with a chain inserted before or after the current one, two failed sends three
activations of `advance_scan` in each other.

Deadlock is not checked: the program ends (`queue_fini`), a search returns, and the
daemon rests when nothing arrives.

Fairness. `NlQueue` assumes that a started C function goes on and that libev calls the
receive callback of a readable socket (`WF_vars(Program)`); nothing is assumed of
callers. Sending is not fair: an `execute()` that sends nothing is completed by the
loop. `Scan` assumes that C functions go on and that the kernel answers what was sent
(`WF_vars(Program)`); nothing is assumed of timers, changes and failures. `RuleSync`
assumes the same of its handlers; its `FairSpec` spells out weak fairness because
evaluating ENABLED of whole handlers is too slow in TLC. `Busy` is when a handler is
enabled, and the handlers' steps are those that leave the bounds alone.
No liveness is claimed of `ObjGraph` and `Startup`.

Each property is paired in `PROJECT.json` with a mutant, a plausible bug in the code
under which TLC finds the property violated. The mutants are the operators marked
"Mutant" in the modules; nothing else uses them.

## 4. Proofs

`NlQueue_proofs` proves, for any set of items and any `MaxParts`:

* `Invariant`: `IndInv` is inductive. `QueueAsserts` alone is not: that the head is SENT
  when a reply comes needs that exactly the head is SENT while busy (`QueueInv`), that
  `execute()` runs only while busy (`StackInv`), and that a watched socket means a busy
  queue with a request sent (`NetInv`). `OwnReply` needs that an idle queue's socket is
  empty and that the last datagram is the only final one, unless something was garbled.
* `TypeCorrect`, `AssertsHold`, `ItemsHeldOnce`, `RepliesMatched` follow.
* `Refinement`: the queue implements `SerialQueue`, the head being the current request
  while busy. Each action is a step of it or a stutter.

`SlotSearch_proofs` proves, for any `Width` and `MinSlot`, that the search stays in its
type, that it returns a free slot unless the highest value is in use (`SearchFindsFree`),
and that both loops return what the closed forms of `Slots` say (`SearchComputes`), which
is what `RuleSync` relies on. The invariant of the first two is that what has been
visited is below what has not, and that the candidate follows the last key visited, or
has wrapped. `RunInv`, for the third, adds what the candidate says of the keys visited:
the successor of every key visited is used or is the candidate; from that, the first gap
the loop meets is the least free slot.

`Scan_proofs` proves all the invariants of `Scan`, for any set of chains and any number
of failed sends, rounds and changes. None of them is inductive. What `IndInv` adds:

* exactly one activation, request or timer has the turn: what is on the stack below it
  has scheduled already and will only move `state` on when it returns;
* while no request has been sent, the activations in each other have moved nothing on;
  without a failed send there is only one that still moves something on;
* what has been dumped in the round, as far as `state`, the helper index and the next
  chain say, and that the chains of the tree below the next one have been dumped or were
  added behind the walk;
* the request that ends one-off mode is in the queue behind what removing the pin made.

`RuleSync_proofs` proves `TypeOK`, `QueuedOnce`, `RefsCovered`, `OKMeansInstalled` and
`Coherent`, for any number of slots, routes and contents and any number of operations,
outside changes, lost notifications and scans. Its invariant, `IndInv`, is at the end of
`RuleSync`, and TLC checked it on the instances of both runs before it was proved. It
has two halves.

* `Good(s, e, x)`: types; a rule that exists is in the positional tree and alone in its
  slot; the requests that wait are those of the rules that are QUEUED, one each; every
  count covers the pointers, the waiting request and `e`, the references that the C code
  in the middle of a handler has of its own; what is OK is as it is wanted, except for
  rule `x`, which the handler has changed and not updated yet. That a rule has a slot of
  its own, so that fewer rules than the heap holds are alive, is also what lets
  `obj_rule_alloc` find one.
* `Informed(s)`: a slot the daemon is wrong about is one it is going to be told of. The
  last notification about a slot says what the kernel has there, the rest of a dump is
  true, and a slot that neither mentions is as the daemon believes. `Coherent` is this
  with nothing in flight.

The argument follows the C code: one lemma for each function, from `State` and `Ref` up
to `obj_rule_netlink_found`, `obj_rule_request` and `obj_rule_remove_pin`, which says
that it takes `Good` to `Good` (with which references and which rule out of date) and
keeps `Informed`; then one for each action; then one theorem for each property. The walks
are recursive functions: that they compute anything is `Iteration` of `Facts`, and what
they compute follows by induction on the number of steps (`SetInduction`).

`RuleSyncAlone_proofs` proves `LostAndFound` and `OKStays` for `MaxExt = 0`: nobody else
edits the table, which is what both say they are about; notifications may still be lost,
and everything else is as general as before. What `IndInv` says of the kernel holds only
until a notification is lost. `AloneInv`, also at the end of `RuleSync` and also checked
by TLC before it was proved (on both instances, with up to two lost notifications), goes
on holding:

* notifications and dumps are true, even if some are missing, and a slot has one content
  at a time: what the rule in it has, what the kernel has and what is announced for it
  are the same or nothing, so a late notification or a dump never replaces what a rule
  has;
* a removal that was announced is the last word about its slot, and the rule of that
  slot has contents until it hears of it, so its filter is not installed meanwhile;
* a request that waits, and has become pointless because of what was found since, finds
  the table as it should be: it is refused;
* a rule in the lost and found tree has contents, is wanted by nobody, has no reference
  but that of its queued removal, and is not queued for removal again when that has been
  sent; and no two routes have the same rule.

The second lemma of each function says that it takes this (`Settled`) to itself, and that
every rule that carries traffic goes on doing so, except one that the function was told to
let go (`Spares`). The removal of the pin needs one thing more, that the walk meets no
rule in the lost and found tree whose removal is under way already (`Unsent`).
`TrafficStays` then follows because a route that lets go of a rule was its only holder.

`ObjGraph_proofs` proves two things about the object graph, for any number of gateways
and routes, any tables at start and any number of changes, re-scans and messages.

* `CountsMatch`: after each handler strong and weak counts are the numbers of pointers.
  `GraphInv` says it also in the middle of one: `held` and `loose` are the strong and
  weak references the C code has of its own there, and every function has a lemma that
  says which it takes and which it gives back. That rule operations do not touch objects
  (`Keeps`) lets the two layers be looked at apart. An object that a count keeps alive
  is reaped by nobody, so the walks over lists of routes meet only live ones.
* `GraphCoherent`: with nothing in flight the link and the neighbours are as the kernel
  has them. `TracksInv` says where it is until then: what the daemon does not know of
  the link or of a neighbour is in the mail of the monitor, in what is left of the dump
  in flight, or in a dump that is still to be asked for. The last message about an
  object says what the kernel has of it, and so does a dump, unless the tables changed
  under it (`torn`). A link that is gone but referenced stays "present" for the daemon
  and is the one exception that lasts.

`Startup_proofs` proves the order of the traps and that the daemon recognizes what it
wrote, for any width of priorities, any command line, files of any length and whatever
filters are found in the kernel.

* `TrapsFirst`, even if priorities run out. `OrderInv` adds that no priority is free
  between the first one of traps and the last trap. A search that starts at `RouteBase`
  therefore never ends below a trap, and one that has found none ends at the highest
  value, where a new rule is not inserted if there is one (`Placed`).
* `TrapsInOrder`, as long as the prefixes given fit in the priorities from `TrapBase`
  (`Fits`; 65526 of them in the program). The proof has two parts. `Follows`: there is
  an increasing map from the entries of the list to what was given for it that misses
  nothing, kept by every prefix and every line of a file. `Ranked`: after `n` entries
  have been placed each is at `TrapBase` plus the number of those of its family before
  it, so that the next free priority is the one that is due.
* `OwnIsRecognized`, for every rule that can be wanted: any address and mask, any tag,
  any link layer address. `OwnInv` says that a wanted rule is `ReadBack` (`decode_filter`
  of what the kernel makes of what `tc_encode_rule` wrote is the rule itself) or one of
  `Unreadable`, that what was decoded is what the kernel has, and that what the daemon
  wrote is still there and still wanted. The codec lemmas it rests on go by type of rule
  (`CheckReadBack`, `TrapReadBack`, `GotoReadBack` with `DefaultReadBack`, and
  `ForwardReadBack`): `MaskRead`, that `count_ones` returns the length `tce_build_mask`
  was given, for every length of both families; `DstReadBack`, that `build_af_addr`
  restores the address with its padding; `PeditRead`, that the four keys of
  `tce_pedit_action` bring back the link layer address and the trait, and `ActsRead`
  and `KeysRead`, that the loops over actions and keys take each in its order.

Assumptions are those of the modules: `NoItem` is not an item, `MaxParts` is a natural
number, `MinSlot` is between 1 and `Width - 1`, the contents a route may want are its
own, routes and targets are different pointers, owners and gateways are finitely many,
`None` is none of them, contents are read back as contents (any: `Decoded` need not be
the identity), the contents of a target determine it (`Via`), the tables at
start are tables, bounds are natural numbers. Of `Startup`: the first priorities of
traps, routes and the width are in that order; prefixes as written have a family and the
cells `inet_pton` makes of them, or none; targets have a tag and routes no host bits
(`ForwardRecord`, `DestRecord`); filters of others are somewhere in the table.

Only model-checked:

* of `ObjGraph`, what relates rules to objects: `RuleHoldsTarget`, `RulesFresh`,
  `RoutesRequested`, `StaysServed`, `ServedAtRest`, `RefsCovered`, and of `GraphTypeOK` what it says of
  owners and faults. They need `RuleSync`'s invariant once more for handlers that make
  several rule operations, with places enough for all of them;
* of `Startup`, `StartupTypeOK` and `NothingOverlooked`, which are about what is decoded
  of filters that others wrote. The second is about what `Seen` leaves of a filter, and
  is checked with the filters of `MCStartup`;
* liveness (`EveryItemCompletes`, `EveryRoundEnds`, `ComesToRest`), which is beyond the
  proof system.

## 5. Findings

* **Static rules are uninstalled** (`RuleSyncStatic`). `obj.h:108`: "is static, never
  uninstalled". They have no reference, so they are reaped as soon as their installation
  is sent, and the filter the kernel then reports is an alien.
* **A route that moves keeps its rule** (`ObjGraphFollow`). `obj.h:135`: "when a route's
  target is ready, request route installation". `obj_route.c:142` requests it only for a
  route without a rule, so the filter goes on leading to the old gateway when the new
  target is ready already.
* **Deleted routes stay** (`ObjGraphGhosts`). `README.md:4`: "synchronizes a routing
  table". The mask of groups is made of group numbers (`monitor.c:31`): 15, the groups 1
  to 4. Routes are groups 7 and 11, and a dump removes nothing.
* **A deleted neighbour aborts the daemon** (`ObjGraphReap`). The assertion at
  `obj_target.c:37` fails for a target that routes use.
* **Prefixes are trapped at another address** (`StartupPrefixes`). `README.md:81`: "add
  static prefix". `onload.c:102` writes the address over the start of the structure.

Seen while modelling, with no run of their own:

* A send that fails makes `advance_scan` run inside `queue_schedule`, and the activation
  it returns to moves on once more. So `rb_next` may be called with null (`scan.c:138`),
  and `scan_helpers` may be read past its null (`scan.c:110`). `WalksInBounds` says that
  nothing else leads there.
* One-off mode ends the loop by an item that is queued before the requests of routes are
  (`scan.c:152`): they wait for notifications. `OneOffWaits` is what it does wait for.
* `obj_rule_prime_request` takes two references on an adopted rule (`obj_rule.c:403` and
  `:411`), so it is not uninstalled when its owner lets go.
* It adopts a rule whose removal is queued or sent as if it were installed. The filter
  goes, and the traffic of its routes falls to the CPU until the notification of the
  removal is handled and the rule has been installed again (`reused` in `StaysServed`;
  `ServedAtRest` says that this comes to pass).
* When the rule of a target is replaced there is a moment on the CPU. `obj_route_install`
  queues the new filter of the route, then the removal of the old target's rule
  (`obj_route.c:186`), then that of the old filter of the route (`:187`). The old filter
  usually has the lower priority, because the new one takes the next that is free. So
  between the two removals packets still match the old filter and jump to a chain that
  is empty. Releasing the old route's rule first would close it. `StaysServed` allows
  this (`ChangesOver`) as long as the new filter leads to a target and the one in front
  is on its way out. A queued installation that has become outdated makes the same gap:
  its filter may come in front of the present one, lead nowhere, and stay until its
  notification is handled.
* A notification that comes while a second installation is queued is not acted on
  (`obj_rule.c:241`, marked XXX there), and the rule stays PENDING although it is
  installed.
* A rule whose filter somebody else removes while its removal is queued stays in the
  lost and found tree without contents (`obj_rule.c:300`), which the next search reads.
  Without outside changes this does not happen (`LostAndFound`).
* A target that was made while its neighbour was unresolved gets no rule when the
  neighbour is resolved (`obj_target.c:167`), only when another route comes.
* Three kinds of the daemon's own rules are never read back as they were written
  (`Unreadable`): all rules with `--skip-hw`, a trap for 0.0.0.0/0 or ::/0, and a prefix
  with something in the padding (most of IPv4, after the defect above). At
  `obj_rule.c:251` `have` then differs from `want`: the rule is an alien when its
  installation is announced, is removed, and is wanted and installed again when that is
  announced, for ever. So with `--skip-hw` (`README.md:86`: "for testing without
  hardware") no rule of a target is ever OK and no route is requested. `ComesToRest`
  excepts such rules, and says that everything else comes to rest beside them. Traps are
  static: they have been reaped by the time they are read back, so they are removed once,
  as any static rule is.
* The decoder does not read everything of a filter (`Seen`). It does not look at the
  interface, at where a `mirred` action redirects to, at checksums and actions it has no
  helper for, at the order of what it reads, at how and how often the TTL is changed, at
  what follows the first octet of an address mask that is not full, at the masks of words
  and of the TTL, at the priority of a tag, or at what else a filter matches. Of several
  gotos, tags, or words for one place it keeps the last, while packets take the first
  goto; so a filter whose first goto leads to another chain, or that drops before its
  goto, is kept as the daemon's own.

## 6. Not modelled

* Teardown mode, `obj_rule_clear_all` and `filter_clear_chains`: nothing in the program
  calls them, tests do.
* Sockets, buffers and the bytes of messages (`nl_conn.c`, `nl_dump.c`, the attribute
  tables of `nl_decode.c` and `tc_decode.c`): libmnl's work. Their results are the
  messages of the models.
* Red-black trees (`rbtree.c`, adapted from Linux): sets and least elements.
* Names of tables (`rt_names.c`), verbosity, `--dry-run`, `--version`'s text, printing
  (`hexdump.c`, `rt_explain.c`, `tc_explain.c`), and `hack.c`, which is not built.
* More than one link, and two targets of one neighbour: they share no state.
* A notification about a filter on another interface.

## 7. Plan

1. The invariants of `ObjGraph` that relate rules to objects, from `Good` of `RuleSync`
   with several rules out of date at a time.
2. Several interfaces, with filters announced for all of them.
