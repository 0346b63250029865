-------------------------------- MODULE Scan --------------------------------
(***************************************************************************)
(* The scanner: src/src/scan.c on top of the request queue.  A round dumps *)
(* the filters' qdisc, the chains, each chain, links, neighbours and       *)
(* routes, removes the pin of the rules and waits for the timer.           *)
(*                                                                         *)
(* advance_scan schedules a dump and is called again when it completes.  A *)
(* dump whose send fails completes inside queue_schedule, so advance_scan  *)
(* runs again inside the activation that has not yet moved helper_idx or   *)
(* next_chain on.  The C stack is therefore explicit: `stack' holds the    *)
(* place each activation has reached, the innermost last; it is empty while*)
(* libev waits.  The queue is that of NlQueue, without its sockets.        *)
(***************************************************************************)
EXTENDS Integers, Sequences, FiniteSets

CONSTANTS Chain,        \* chain numbers the kernel or targets may use
          OneOff,       \* the values of config->exit_after_first_sync
          Timeout,      \* config->timeout > 0
          MaxRounds,    \* bound: expiries of the scan timer
          MaxFails,     \* bound: sends that fail
          MaxRules,     \* bound: requests made for rules
          MaxChanges    \* bound: notifications of changes made by others

ASSUME ChainAssumption == Chain \subseteq Nat
ASSUME FlagAssumption == OneOff \subseteq BOOLEAN /\ Timeout \in BOOLEAN
ASSUME BoundAssumption ==
    {MaxRounds, MaxFails, MaxRules, MaxChanges} \subseteq Nat

NoChain == -1    \* a null next_chain

VARIABLES state,       \* s->state
          helper_idx,  \* s->helper_idx
          next_chain,  \* s->next_chain
          q_chain_no,  \* s->q_chain_no
          timer,       \* s->timer is active
          chain_tree,  \* chain_tree of nl_filter.c
          queue,       \* Q.head .. Q.tail
          is_busy,     \* Q.is_busy: between the event handlers, a reply is due
          pinned,      \* obj_rule_pin_changes < 3
          mon,         \* notifications that make the daemon request a rule
          one_off,     \* config->exit_after_first_sync
          loop,        \* "running", "breaking", "ended"
          stack,       \* the C stack
          round,       \* history: what this round has dumped
          fault,       \* what went wrong in the C code
          left         \* what remains of the bounds

scanVars  == <<state, helper_idx, next_chain, q_chain_no, timer>>
queueVars == <<queue, is_busy>>
worldVars == <<chain_tree, pinned, mon, loop, one_off>>
vars == <<scanVars, queueVars, worldVars, stack, round, fault, left>>

-----------------------------------------------------------------------------

scan_helpers == <<"filters", "links", "neigh4", "neigh6", "route4", "route6">>

ScanRequest == {scan_helpers[k] : k \in 1..Len(scan_helpers)}
                   \union {"chains", "chain"}

\* Requests for rules: those made by obj_rule_remove_pin, and later ones.
RuleRequest == {"pinned", "rule"}
Request == ScanRequest \union RuleRequest \union {"break"}

\* "advance": at the switch of advance_scan.  "helper", "chain", "wait": in
\* advance_scan, after queue_schedule in the case of that state; "return":
\* after queue_schedule, with nothing left to do.  "pin": in
\* obj_rule_remove_pin.  "test": at queue_process_loop's while condition.
Places == {"advance", "helper", "chain", "wait", "return", "pin", "test"}

Callers == SubSeq(stack, 1, Len(stack) - 1)
At(place) == stack # <<>> /\ stack[Len(stack)] = place /\ fault = "none"
EventLoop == stack = <<>> /\ fault = "none" /\ loop \in {"running", "breaking"}

FirstOf(S) == IF S = {} THEN NoChain
              ELSE CHOOSE c \in S : \A d \in S : c <= d

\* Mutant: chain numbers taken to be consecutive.
rb_next_Counts(c) == c + 1

\* rb_first and rb_next of the chain tree, which is ordered by number.
rb_first == FirstOf(chain_tree)
rb_next(c) == FirstOf({d \in chain_tree : d > c})

\* queue_schedule: append, and enter queue_process_loop unless busy, with
\* `frames' on the stack below it.
queue_schedule(q, frames) ==
    /\ queue' = Append(queue, q)
    /\ stack' = IF is_busy THEN frames ELSE Append(frames, "test")
    /\ UNCHANGED is_busy

NewRound == [failed |-> FALSE, dumped |-> {}, seen |-> {}]

Init ==
    /\ state = "NEW" /\ helper_idx = 0
    /\ next_chain = NoChain /\ q_chain_no = NoChain /\ timer = FALSE
    /\ chain_tree = {} /\ pinned = TRUE /\ mon = 0 /\ loop = "running"
    /\ one_off \in OneOff
    /\ queue = <<>> /\ is_busy = FALSE
    /\ stack = <<"advance">>
    /\ round = NewRound /\ fault = "none"
    /\ left = [rounds |-> MaxRounds, fails |-> MaxFails, rules |-> MaxRules,
               changes |-> MaxChanges]

-----------------------------------------------------------------------------
(* advance_scan, one action per state. *)

Case(s) == At("advance") /\ state = s

scan_new ==
    /\ Case("NEW")
    /\ state' = "RUN_HELPERS"
    /\ UNCHANGED <<helper_idx, next_chain, q_chain_no, timer, queueVars,
                   worldVars, stack, round, fault, left>>

run_helper ==
    /\ Case("RUN_HELPERS")
    /\ helper_idx < Len(scan_helpers)
    /\ queue_schedule(scan_helpers[helper_idx + 1], Append(Callers, "helper"))
    /\ UNCHANGED <<scanVars, worldVars, round, fault, left>>

\* Mutant: helper_idx is not moved on.
helper_scheduled_Not ==
    /\ At("helper")
    /\ stack' = Callers
    /\ UNCHANGED <<scanVars, queueVars, worldVars, round, fault, left>>

helper_scheduled ==
    /\ At("helper")
    /\ helper_idx' = helper_idx + 1
    /\ stack' = Callers
    /\ UNCHANGED <<state, next_chain, q_chain_no, timer, queueVars, worldVars,
                   round, fault, left>>

\* Mutant: the last helper is taken for the NULL.
helpers_done_Early ==
    /\ Case("RUN_HELPERS")
    /\ helper_idx = Len(scan_helpers) - 1
    /\ helper_idx' = 0
    /\ state' = "DONE"
    /\ UNCHANGED <<next_chain, q_chain_no, timer, queueVars, worldVars, stack,
                   round, fault, left>>

helpers_done ==
    /\ Case("RUN_HELPERS")
    /\ helper_idx = Len(scan_helpers)
    /\ helper_idx' = 0
    /\ state' = "DONE"
    /\ UNCHANGED <<next_chain, q_chain_no, timer, queueVars, worldVars, stack,
                   round, fault, left>>

dump_chains ==
    /\ Case("DUMP_CHAINS")
    /\ state' = "DUMP_EACH_CHAIN_INIT"
    /\ queue_schedule("chains", Append(Callers, "return"))
    /\ UNCHANGED <<helper_idx, next_chain, q_chain_no, timer, worldVars, round,
                   fault, left>>

\* Mutant: an empty tree is not told apart.
dump_each_chain_init_NoNull ==
    /\ Case("DUMP_EACH_CHAIN_INIT")
    /\ next_chain' = rb_first
    /\ state' = "DUMP_EACH_CHAIN"
    /\ round' = [round EXCEPT !.seen = chain_tree]
    /\ UNCHANGED <<helper_idx, q_chain_no, timer, queueVars, worldVars, stack,
                   fault, left>>

dump_each_chain_init ==
    /\ Case("DUMP_EACH_CHAIN_INIT")
    /\ next_chain' = rb_first
    /\ state' = IF rb_first = NoChain THEN "RUN_HELPERS" ELSE "DUMP_EACH_CHAIN"
    /\ round' = [round EXCEPT !.seen = chain_tree]
    /\ UNCHANGED <<helper_idx, q_chain_no, timer, queueVars, worldVars, stack,
                   fault, left>>

dump_each_chain ==
    /\ Case("DUMP_EACH_CHAIN")
    /\ next_chain # NoChain
    /\ q_chain_no' = next_chain
    /\ queue_schedule("chain", Append(Callers, "chain"))
    /\ UNCHANGED <<state, helper_idx, next_chain, timer, worldVars, round,
                   fault, left>>

\* Mutant: the walk ends one chain early.
chain_scheduled_Early ==
    /\ At("chain")
    /\ next_chain # NoChain
    /\ next_chain' = rb_next(next_chain)
    /\ state' = IF next_chain' = NoChain \/ rb_next(next_chain') = NoChain
                THEN "RUN_HELPERS" ELSE state
    /\ stack' = Callers
    /\ UNCHANGED <<helper_idx, q_chain_no, timer, queueVars, worldVars, round,
                   fault, left>>

chain_scheduled ==
    /\ At("chain")
    /\ next_chain # NoChain
    /\ next_chain' = rb_next(next_chain)
    /\ state' = IF next_chain' = NoChain THEN "RUN_HELPERS" ELSE state
    /\ stack' = Callers
    /\ UNCHANGED <<helper_idx, q_chain_no, timer, queueVars, worldVars, round,
                   fault, left>>

scan_done ==
    /\ Case("DONE")
    /\ stack' = Append(Callers, "pin")
    /\ UNCHANGED <<scanVars, queueVars, worldVars, round, fault, left>>

\* obj_rule_remove_pin requests a rule ...
pin_requests ==
    /\ At("pin")
    /\ pinned
    /\ left.rules > 0
    /\ left' = [left EXCEPT !.rules = @ - 1]
    /\ queue_schedule("pinned", stack)
    /\ UNCHANGED <<scanVars, worldVars, round, fault>>

\* ... and returns.
pin_removed ==
    /\ At("pin")
    /\ pinned' = FALSE
    /\ state' = "WAIT"
    /\ stack' = Append(Callers, "advance")
    /\ UNCHANGED <<helper_idx, next_chain, q_chain_no, timer, queueVars,
                   chain_tree, mon, loop, one_off, round, fault, left>>

scan_wait ==
    /\ Case("WAIT")
    /\ IF one_off THEN queue_schedule("break", Append(Callers, "wait"))
                 ELSE stack' = Append(Callers, "wait") /\ UNCHANGED queueVars
    /\ UNCHANGED <<scanVars, worldVars, round, fault, left>>

\* Mutant: the timer is left stopped.
timer_again_Not ==
    /\ At("wait")
    /\ stack' = Callers
    /\ UNCHANGED <<scanVars, queueVars, worldVars, round, fault, left>>

timer_again ==
    /\ At("wait")
    /\ timer' = TRUE
    /\ stack' = Callers
    /\ UNCHANGED <<state, helper_idx, next_chain, q_chain_no, queueVars,
                   worldVars, round, fault, left>>

scheduled_returns ==
    /\ At("return")
    /\ stack' = Callers
    /\ UNCHANGED <<scanVars, queueVars, worldVars, round, fault, left>>

\* The C code leaves its data: an index past the NULL of scan_helpers, rb_next
\* of a null node, or the assertion on next_chain.
Fault == IF Case("RUN_HELPERS") /\ helper_idx > Len(scan_helpers) THEN "helper"
         ELSE IF At("chain") /\ next_chain = NoChain THEN "rb_next"
         ELSE IF Case("DUMP_EACH_CHAIN") /\ next_chain = NoChain
              THEN "AN(next_chain)"
         ELSE "none"

goes_wrong ==
    /\ Fault # "none"
    /\ fault' = Fault
    /\ UNCHANGED <<scanVars, queueVars, worldVars, stack, round, left>>

-----------------------------------------------------------------------------
(* The queue. *)

\* handle_queue_completed and what its callback starts: advance_scan for a
\* request of the scanner, on top of the loop that goes on afterwards.
handle_queue_completed(frames) ==
    /\ queue' = Tail(queue)
    /\ is_busy' = FALSE
    /\ stack' = IF Head(queue) \in ScanRequest
                THEN frames \o <<"test", "advance">> ELSE Append(frames, "test")

\* The request at the head as the history has it.
InFlight == <<Head(queue), IF Head(queue) = "chain" THEN q_chain_no ELSE NoChain>>

\* What execute() does besides sending: scan_filters moves the scanner on.
Executed ==
    /\ state' = IF Head(queue) = "filters" THEN "DUMP_CHAINS" ELSE state
    /\ UNCHANGED <<helper_idx, next_chain, q_chain_no, timer>>

MoreToDo == queue # <<>> /\ ~is_busy

\* execute() sends a request.  A filter that changes may make routes request
\* their rules once the kernel has told.
send_works ==
    /\ At("test") /\ MoreToDo
    /\ Head(queue) # "break"
    /\ Executed
    /\ is_busy' = TRUE
    /\ stack' = Callers
    /\ \/ UNCHANGED <<mon, left>>
       \/ /\ Head(queue) \in RuleRequest
          /\ left.rules > 0
          /\ mon' = mon + 1
          /\ left' = [left EXCEPT !.rules = @ - 1]
    /\ UNCHANGED <<queue, chain_tree, pinned, loop, one_off, round, fault>>

\* execute() fails to send, which completes the request at once.
send_fails ==
    /\ At("test") /\ MoreToDo
    /\ Head(queue) # "break"
    /\ left.fails > 0
    /\ left' = [left EXCEPT !.fails = @ - 1]
    /\ Executed
    /\ handle_queue_completed(Callers)
    /\ round' = [round EXCEPT !.failed = @ \/ Head(queue) \in ScanRequest]
    /\ UNCHANGED <<worldVars, fault>>

scan_break ==
    /\ At("test") /\ MoreToDo
    /\ Head(queue) = "break"
    /\ loop' = "breaking"
    /\ handle_queue_completed(Callers)
    /\ UNCHANGED <<scanVars, chain_tree, pinned, mon, one_off, round, fault, left>>

loop_ends ==
    /\ At("test") /\ ~MoreToDo
    /\ stack' = Callers
    /\ UNCHANGED <<scanVars, queueVars, worldVars, round, fault, left>>

-----------------------------------------------------------------------------
(* Event handlers. *)

\* The last datagram of a reply, with an error or not: advance_scan_cb does
\* not look at it.
queue_is_complete ==
    /\ EventLoop /\ is_busy
    /\ handle_queue_completed(<<>>)
    /\ round' = [round EXCEPT !.dumped = @ \union {InFlight}]
    /\ UNCHANGED <<scanVars, worldVars, fault, left>>

\* filter_got_chain: a chain dump, or a target that takes a chain, which
\* obj_rule_remove_pin may make it do.
filter_got_chain(c) ==
    /\ EventLoop \/ At("pin")
    /\ c \notin chain_tree
    /\ chain_tree' = chain_tree \union {c}
    /\ UNCHANGED <<scanVars, queueVars, pinned, mon, loop, one_off, stack, round,
                   fault, left>>

Notify ==
    /\ EventLoop
    /\ left.changes > 0
    /\ mon' = mon + 1
    /\ left' = [left EXCEPT !.changes = @ - 1]
    /\ UNCHANGED <<scanVars, queueVars, chain_tree, pinned, loop, one_off, stack,
                   round, fault>>

\* A notification that makes a rule wanted: requested, unless still pinned.
ReceiveNotification ==
    /\ EventLoop /\ mon > 0
    /\ mon' = mon - 1
    /\ IF pinned THEN UNCHANGED <<queueVars, stack>>
                 ELSE queue_schedule("rule", <<>>)
    /\ UNCHANGED <<scanVars, chain_tree, pinned, loop, one_off, round, fault, left>>

\* scan_timeout_cb
scan_timeout_cb ==
    /\ EventLoop /\ timer
    /\ left.rounds > 0
    /\ left' = [left EXCEPT !.rounds = @ - 1]
    /\ timer' = FALSE
    /\ IF state = "WAIT"
       THEN state' = "RUN_HELPERS" /\ stack' = <<"advance">> /\ UNCHANGED fault
       ELSE fault' = "AN(state == SCAN_WAIT)" /\ UNCHANGED <<state, stack>>
    /\ round' = NewRound
    /\ UNCHANGED <<helper_idx, next_chain, q_chain_no, queueVars, worldVars>>

\* timeout_cb of main.c: --timeout has passed.
timeout_cb ==
    /\ EventLoop /\ Timeout /\ loop = "running"
    /\ loop' = "breaking"
    /\ UNCHANGED <<scanVars, queueVars, chain_tree, pinned, mon, one_off, stack,
                   round, fault, left>>

\* ev_run returns, after the handlers that were already due.
ev_run_returns ==
    /\ EventLoop /\ loop = "breaking"
    /\ loop' = "ended"
    /\ UNCHANGED <<scanVars, queueVars, chain_tree, pinned, mon, one_off, stack,
                   round, fault, left>>

scan_fini ==
    /\ loop = "ended" /\ fault = "none"
    /\ loop' = "finished"
    /\ timer' = FALSE
    /\ queue' = <<>> /\ is_busy' = FALSE
    /\ UNCHANGED <<state, helper_idx, next_chain, q_chain_no, chain_tree, pinned,
                   mon, one_off, stack, round, fault, left>>

-----------------------------------------------------------------------------

\* What a handler does once it is called, and the kernel's replies.
Program == \/ scan_new \/ run_helper \/ helper_scheduled \/ helpers_done
           \/ dump_chains \/ dump_each_chain_init \/ dump_each_chain
           \/ chain_scheduled \/ scan_done \/ pin_removed \/ scan_wait
           \/ timer_again \/ scheduled_returns \/ goes_wrong
           \/ send_works \/ scan_break \/ loop_ends
           \/ queue_is_complete

Environment == \/ pin_requests \/ send_fails
               \/ \E c \in Chain : filter_got_chain(c)
               \/ Notify \/ ReceiveNotification
               \/ scan_timeout_cb \/ timeout_cb \/ ev_run_returns \/ scan_fini

Next == Program \/ Environment

Spec == Init /\ [][Next]_vars

\* A C function goes on to its next step, and the kernel answers a request
\* that was sent.
FairSpec == Spec /\ WF_vars(Program)

-----------------------------------------------------------------------------

\* Types of the scanner's state and of the C stack.
TypeOK ==
    /\ state \in {"NEW", "RUN_HELPERS", "DUMP_CHAINS", "DUMP_EACH_CHAIN_INIT",
                  "DUMP_EACH_CHAIN", "DONE", "WAIT"}
    /\ helper_idx \in Nat
    /\ {next_chain, q_chain_no} \subseteq Chain \union {NoChain}
    /\ {timer, is_busy, pinned, one_off} \subseteq BOOLEAN
    /\ chain_tree \subseteq Chain
    /\ queue \in Seq(Request)
    /\ mon \in Nat
    /\ loop \in {"running", "breaking", "ended", "finished"}
    /\ stack \in Seq(Places)

\* advance_scan neither loses its turn nor gets a second one, however often
\* sends fail inside it: whenever libev waits, either exactly one request of
\* the scanner is queued or in flight and will call it back, or none is and
\* the timer of SCAN_WAIT will.
OneTurn ==
    EventLoop =>
        /\ timer => state = "WAIT"
        /\ Cardinality({k \in 1..Len(queue) : queue[k] \in ScanRequest})
              = IF timer THEN 0 ELSE 1

\* Unless a send failed, advance_scan never runs past the end of scan_helpers
\* or of the chain tree, and its assertions hold, whatever is added to the
\* tree between two of its steps.
WalksInBounds == fault # "none" => left.fails < MaxFails

Dumped(q) == <<q, NoChain>> \in round.dumped

ChainsDumped == Dumped("chains")
                /\ \A c \in round.seen : <<"chain", c>> \in round.dumped

HelpersDumped(n) == \A k \in 1..n : Dumped(scan_helpers[k])

\* In a round whose requests could all be sent, the chains are dumped after
\* the qdiscs, every chain that was known when the walk began before the
\* links, those before the neighbours, those before the routes; the pin is
\* removed when everything has been answered.
RoundInOrder ==
    fault = "none" /\ ~round.failed =>
        /\ is_busy /\ Head(queue) = "chain" => Dumped("chains")
        /\ \A k \in 2..Len(scan_helpers) :
              is_busy /\ Head(queue) = scan_helpers[k] =>
                  ChainsDumped /\ HelpersDumped(k - 1)
        /\ At("pin") => ChainsDumped /\ HelpersDumped(Len(scan_helpers))

\* One-off mode does not end the loop before a whole round has been answered
\* and every request that removing the pin made has been sent.
OneOffWaits ==
    At("test") /\ MoreToDo /\ Head(queue) = "break" =>
        /\ ~pinned
        /\ \A k \in 1..Len(queue) : queue[k] # "pinned"
        /\ left.rounds = MaxRounds /\ ~round.failed =>
              ChainsDumped /\ HelpersDumped(Len(scan_helpers))

\* Every round comes to its end, unless the walk went wrong after a failed
\* send or the program stops.
EveryRoundEnds ==
    state # "WAIT" ~> \/ state = "WAIT"
                      \/ fault # "none"
                      \/ loop \in {"ended", "finished"}

-----------------------------------------------------------------------------
(* The inductive invariant behind the safety properties.                    *)

On(s, e) == \E k \in 1..Len(s) : s[k] = e
Once(s, S) == \A j, k \in 1..Len(s) : s[j] \in S /\ s[k] \in S => j = k
Before(s, d, e) == \A j, k \in 1..Len(s) : s[j] = d /\ s[k] = e => j < k

\* Activations that have the turn of advance_scan and have not passed it on.
TurnPlaces == {"advance", "pin", "wait"}

\* Activations that will move helper_idx or next_chain on when they go on.
MovePlaces == {"helper", "chain"}

Turn       == \E p \in TurnPlaces : On(stack, p)
Moves      == \E p \in MovePlaces : On(stack, p)
ScanQueued == \E q \in ScanRequest : On(queue, q)

\* advance_scan is the innermost, and what it has called is a queue's loop.
Nested(s) ==
    /\ \A k \in 1..(Len(s) - 1) : s[k] # "advance"
    /\ \A k \in 1..(Len(s) - 1) : s[k] \in MovePlaces => s[k + 1] = "test"

\* There is one turn: an activation, a request or the timer has it.
TurnInv ==
    /\ Once(stack, TurnPlaces)
    /\ Once(queue, ScanRequest)
    /\ ~(Turn /\ ScanQueued)
    /\ timer => ~Turn /\ ~ScanQueued
    /\ Turn \/ ScanQueued \/ timer \/ loop = "finished"

\* What the states are when an activation or the timer has the turn.
StateInv ==
    /\ On(stack, "pin") => state = "DONE"
    /\ On(stack, "wait") \/ timer => state = "WAIT" /\ helper_idx = 0
    /\ state \in {"NEW", "DONE"} => helper_idx = 0
    /\ On(stack, "advance") /\ state = "WAIT" => helper_idx = 0
    /\ ScanQueued => state \notin {"NEW", "DONE", "WAIT"}
    /\ state = "WAIT" => ~pinned
    /\ loop \in {"ended", "finished"} => stack = <<>>
    /\ is_busy => queue # <<>>

\* Activations of advance_scan in each other.  Until the innermost has got a
\* request sent, those below it have moved nothing on, so the scan is still
\* where they left it; from then on they all return.
NestInv ==
    /\ Nested(stack)
    /\ stack # <<>> /\ stack[Len(stack)] \in MovePlaces => is_busy
    /\ Moves => ScanQueued \/ On(stack, "advance")
    /\ Moves /\ On(stack, "advance") => ~is_busy
    /\ ~is_busy /\ On(stack, "chain") =>
          /\ state = "DUMP_EACH_CHAIN" /\ next_chain # NoChain
          /\ \A q \in ScanRequest : On(queue, q) => q = "chain"
    /\ ~is_busy /\ On(stack, "helper") =>
          /\ helper_idx < Len(scan_helpers)
          /\ state \in {"RUN_HELPERS", "DUMP_CHAINS", "DUMP_EACH_CHAIN_INIT",
                        "DUMP_EACH_CHAIN"}

AllDumped == ChainsDumped /\ HelpersDumped(Len(scan_helpers))

\* The walk has the chains from next_chain on before it.
ToWalk(c) == next_chain # NoChain /\ c >= next_chain

\* Where a round is while a request of the scanner waits for its reply.
HelperInv ==
    \A j \in 1..Len(scan_helpers) : On(queue, scan_helpers[j]) =>
        /\ ~On(stack, "chain")
        /\ helper_idx = IF On(stack, "helper") THEN j - 1 ELSE j
        /\ state = IF j = 1 /\ is_busy /\ Head(queue) = "filters"
                   THEN "DUMP_CHAINS" ELSE "RUN_HELPERS"
        /\ j > 1 => ChainsDumped /\ HelpersDumped(j - 1)

ChainsInv ==
    On(queue, "chains") =>
        /\ ~Moves
        /\ helper_idx = 1
        /\ state = "DUMP_EACH_CHAIN_INIT"
        /\ Dumped("filters")

ChainInv ==
    On(queue, "chain") =>
        /\ ~On(stack, "helper")
        /\ helper_idx = 1
        /\ state = IF next_chain = NoChain THEN "RUN_HELPERS" ELSE "DUMP_EACH_CHAIN"
        /\ On(stack, "chain") => next_chain = q_chain_no
        /\ q_chain_no # NoChain
        /\ Dumped("filters") /\ Dumped("chains")
        /\ round.seen \subseteq chain_tree
        /\ \A c \in round.seen : \/ <<"chain", c>> \in round.dumped
                                 \/ c = q_chain_no \/ ToWalk(c)

\* Where it is when advance_scan is called.
AdvanceInv ==
    On(stack, "advance") =>
        /\ state = "RUN_HELPERS" =>
              \/ helper_idx = 0
              \/ /\ helper_idx \in 1..Len(scan_helpers)
                 /\ ChainsDumped /\ HelpersDumped(helper_idx)
        /\ state \in {"DUMP_CHAINS", "DUMP_EACH_CHAIN_INIT", "DUMP_EACH_CHAIN"} =>
              helper_idx = 1 /\ Dumped("filters")
        /\ state \in {"DUMP_EACH_CHAIN_INIT", "DUMP_EACH_CHAIN"} => Dumped("chains")
        /\ state = "DUMP_EACH_CHAIN" =>
              /\ next_chain # NoChain
              /\ round.seen \subseteq chain_tree
              /\ \A c \in round.seen : <<"chain", c>> \in round.dumped \/ ToWalk(c)
        /\ state \in {"DONE", "WAIT"} => AllDumped

\* A round in which every request could be sent.
OrderInv ==
    ~round.failed =>
        /\ fault = "none"
        /\ Moves => ~On(stack, "advance")
        /\ Once(stack, MovePlaces)
        /\ HelperInv /\ ChainsInv /\ ChainInv
        /\ AdvanceInv
        /\ On(stack, "pin") \/ On(stack, "wait") \/ timer => AllDumped

\* The item that ends the loop comes after the requests of obj_rule_remove_pin,
\* and in the first round only when everything has been dumped.
BreakInv ==
    /\ On(queue, "break") => ~pinned
    /\ Before(queue, "pinned", "break")
    /\ On(queue, "break") /\ left.rounds = MaxRounds => On(stack, "wait") \/ timer

BoundsOK ==
    /\ left \in [rounds : 0..MaxRounds, fails : 0..MaxFails, rules : 0..MaxRules,
                 changes : 0..MaxChanges]
    /\ round \in [failed : BOOLEAN, seen : SUBSET Chain,
                  dumped : SUBSET (Request \X (Chain \union {NoChain}))]
    /\ round.failed => left.fails < MaxFails

IndInv == TypeOK /\ BoundsOK /\ TurnInv /\ StateInv /\ NestInv /\ OrderInv /\ BreakInv
=============================================================================
