------------------------------ MODULE NlQueue ------------------------------
(***************************************************************************)
(* The netlink request queue: src/src/nl_queue.c with the two functions    *)
(* that drive it, nl_send_req (src/src/nl_send.c) and nl_receive_cb        *)
(* (src/src/nl_receive.c).                                                 *)
(*                                                                         *)
(* The daemon has one thread, so the interesting interleavings are those   *)
(* of callbacks: execute() and completed() run inside the queue's own      *)
(* functions and may call queue_schedule again, which may start another    *)
(* queue_process_loop inside the one that called them.  The C stack is     *)
(* therefore explicit.  A loop is entered only while the queue is not busy,*)
(* so only completed() can have another loop running inside it: the stack  *)
(* is the items whose completed() has not returned (`completing', outermost*)
(* first) and the place the innermost activation has reached (`pc').       *)
(* queue_is_complete is an activation that begins in completed().          *)
(***************************************************************************)
EXTENDS Integers, Sequences

CONSTANTS Item,      \* struct queue_item allocations, each used once
          NoItem,    \* the current item of an idle queue
          MaxParts   \* bound: datagrams of a reply before its last one

ASSUME NoItemAssumption   == NoItem \notin Item
ASSUME MaxPartsAssumption == MaxParts \in Nat

VARIABLES queue,    \* Q.head .. Q.tail
          istate,   \* enum queue_item_state, with the heap: "unused", "freed"
          is_busy,  \* Q.is_busy
          has_sent_request, \* Q.has_sent_request
          conn,     \* Q.conn # NULL: between queue_init and queue_fini
          pc,       \* where the innermost queue_process_loop is, or "idle"
          completing, \* items whose completed() is on the C stack
          watch,    \* the receive watcher c->w is started
          seq,      \* c->seq
          socket,   \* datagrams the kernel has queued on the socket
          garbled   \* history: the decoder has rejected a part of a reply

progVars == <<queue, istate, is_busy, has_sent_request, conn, pc, completing>>
netVars  == <<watch, seq, socket, garbled>>
vars     == <<progVars, netVars>>

-----------------------------------------------------------------------------
(* The C stack. *)

\* "idle": no queue code is running, or it is inside the completed() of the
\* last of `completing'.  "test": at the while condition of the loop.
\* "execute", "executed": inside execute(), before and after nl_send_req.
Places == {"idle", "test", "execute", "executed"}

InExecute == pc \in {"execute", "executed"}

\* An event handler runs, called by libev.
EventLoop == pc = "idle" /\ completing = <<>>

-----------------------------------------------------------------------------
(* The kernel's answer to request n: any number of parts and a last         *)
(* datagram (NLMSG_DONE or NLMSG_ERROR).                                     *)

Datagram == [seq : Nat \ {0}, final : BOOLEAN]

\* Mutant: the request leaves without common_netlink_set_seq, so the kernel
\* answers with the zero of the fresh header.
Reply_NoSeq(n, parts) ==
    [k \in 1..(parts + 1) |-> [seq |-> 0, final |-> (k = parts + 1)]]

Reply(n, parts) ==
    [k \in 1..(parts + 1) |-> [seq |-> n, final |-> (k = parts + 1)]]

-----------------------------------------------------------------------------

\* queue_init: memset of Q, and the connection c becomes Q.conn.
Init ==
    /\ queue = <<>>
    /\ istate = [i \in Item |-> "unused"]
    /\ is_busy = FALSE
    /\ has_sent_request = FALSE
    /\ conn = TRUE
    /\ pc = "idle"
    /\ completing = <<>>
    /\ watch = FALSE
    /\ seq = 1
    /\ socket = <<>>
    /\ garbled = FALSE

\* Code outside the queue runs: an event handler, execute() or completed().
CallerRuns == pc # "test"

\* Mutant: a new item is linked before the waiting ones.
queue_schedule_Lifo(i) ==
    /\ conn
    /\ CallerRuns
    /\ istate[i] = "unused"
    /\ istate' = [istate EXCEPT ![i] = "new"]
    /\ queue' = <<i>> \o queue
    /\ pc' = IF is_busy THEN pc ELSE "test"
    /\ UNCHANGED <<is_busy, has_sent_request, conn, completing, netVars>>

\* queue_schedule: append, and enter queue_process_loop unless busy.
queue_schedule(i) ==
    /\ conn
    /\ CallerRuns
    /\ istate[i] = "unused"
    /\ istate' = [istate EXCEPT ![i] = "new"]
    /\ queue' = Append(queue, i)
    /\ pc' = IF is_busy THEN pc ELSE "test"
    /\ UNCHANGED <<is_busy, has_sent_request, conn, completing, netVars>>

\* The condition of queue_process_loop's while, and of queue_is_complete.
MoreToDo == queue # <<>> /\ ~is_busy

\* queue_process, up to the call of execute().
queue_process ==
    /\ pc = "test"
    /\ MoreToDo
    /\ is_busy' = TRUE
    /\ has_sent_request' = FALSE
    /\ istate' = [istate EXCEPT ![Head(queue)] = "sent"]
    /\ pc' = "execute"
    /\ UNCHANGED <<queue, conn, completing, netVars>>

\* queue_process_loop returns because its while condition is false.
loop_ends ==
    /\ pc = "test"
    /\ ~MoreToDo
    /\ pc' = "idle"
    /\ UNCHANGED <<queue, istate, is_busy, has_sent_request, conn, completing,
                   netVars>>

\* nl_send_req called by execute(): sendto works, queue_has_sent_request is
\* called and the watcher is started; the kernel queues the reply.
nl_send_req ==
    /\ pc = "execute"
    /\ seq' = seq + 1
    /\ has_sent_request' = TRUE
    /\ watch' = TRUE
    /\ \E parts \in 0..MaxParts : socket' = socket \o Reply(seq', parts)
    /\ pc' = "executed"
    /\ UNCHANGED <<queue, istate, is_busy, conn, completing, garbled>>

\* nl_send_req called by execute(): sendto fails after the sequence number
\* has been taken.
nl_send_req_fails ==
    /\ pc = "execute"
    /\ seq' = seq + 1
    /\ pc' = "executed"
    /\ UNCHANGED <<queue, istate, is_busy, has_sent_request, conn, completing,
                   watch, socket, garbled>>

\* Mutant: free(qi) moved before the call of completed().
handle_queue_completed_FreeFirst ==
    /\ queue' = Tail(queue)
    /\ istate' = [istate EXCEPT ![Head(queue)] = "freed"]
    /\ is_busy' = FALSE
    /\ completing' = Append(completing, Head(queue))
    /\ pc' = "idle"

\* handle_queue_completed, up to the call of completed().
handle_queue_completed ==
    /\ queue' = Tail(queue)
    /\ istate' = [istate EXCEPT ![Head(queue)] = "done"]
    /\ is_busy' = FALSE
    /\ completing' = Append(completing, Head(queue))
    /\ pc' = "idle"

\* execute() returns, nothing was sent (scan_break, or a failed send): the
\* loop completes the item itself.
execute_returns_unsent ==
    /\ InExecute
    /\ ~has_sent_request
    /\ handle_queue_completed
    /\ UNCHANGED <<has_sent_request, conn, netVars>>

\* execute() returns and a reply is awaited: the loop breaks.
execute_returns_sent ==
    /\ InExecute
    /\ has_sent_request
    /\ pc' = "idle"
    /\ UNCHANGED <<queue, istate, is_busy, has_sent_request, conn, completing,
                   netVars>>

Innermost == completing[Len(completing)]

\* Mutant: the queue does not look for more work after a completion.
completed_returns_Stop ==
    /\ pc = "idle"
    /\ completing # <<>>
    /\ istate' = [istate EXCEPT ![Innermost] = "freed"]
    /\ completing' = SubSeq(completing, 1, Len(completing) - 1)
    /\ UNCHANGED pc
    /\ UNCHANGED <<queue, is_busy, has_sent_request, conn, netVars>>

\* completed() returns, the item is freed, the while condition is next.
completed_returns ==
    /\ pc = "idle"
    /\ completing # <<>>
    /\ istate' = [istate EXCEPT ![Innermost] = "freed"]
    /\ completing' = SubSeq(completing, 1, Len(completing) - 1)
    /\ pc' = "test"
    /\ UNCHANGED <<queue, is_busy, has_sent_request, conn, netVars>>

\* nl_receive_cb can run: the watcher is on and the event loop is idle.
CanReceive == EventLoop /\ watch

\* Mutant: NLMSG_DONE is handled by the no-op callback.
nl_receive_part_DoneIgnored ==
    /\ CanReceive
    /\ socket # <<>>
    /\ Head(socket).seq = seq
    /\ socket' = Tail(socket)
    /\ UNCHANGED <<progVars, watch, seq, garbled>>

\* nl_receive_cb, a datagram that leaves the reply unfinished (MNL_CB_OK).
nl_receive_part ==
    /\ CanReceive
    /\ socket # <<>>
    /\ Head(socket).seq = seq
    /\ ~Head(socket).final
    /\ socket' = Tail(socket)
    /\ UNCHANGED <<progVars, watch, seq, garbled>>

\* Mutant: ev_io_stop forgotten.
on_complete_NoStop ==
    /\ UNCHANGED watch
    /\ handle_queue_completed

\* nl_receive_cb, the tail of the function once has_completed is set:
\* the watcher is stopped and on_complete = queue_is_complete is called.
on_complete ==
    /\ watch' = FALSE
    /\ handle_queue_completed

\* Mutant: any datagram completes the request, not only the last one.
nl_receive_last_Any ==
    /\ CanReceive
    /\ socket # <<>>
    /\ socket' = Tail(socket)
    /\ on_complete
    /\ UNCHANGED <<has_sent_request, conn, seq, garbled>>

\* nl_receive_cb, the reply's last datagram, or one that mnl_cb_run2 rejects
\* because it carries another request's sequence number.
nl_receive_last ==
    /\ CanReceive
    /\ socket # <<>>
    /\ Head(socket).final \/ Head(socket).seq # seq
    /\ socket' = Tail(socket)
    /\ on_complete
    /\ UNCHANGED <<has_sent_request, conn, seq, garbled>>

\* nl_receive_cb, decode_nlmsg_cb rejects a part: MNL_CB_ERROR completes the
\* request although the rest of its reply is still on the socket.
nl_receive_undecodable ==
    /\ CanReceive
    /\ socket # <<>>
    /\ Head(socket).seq = seq
    /\ ~Head(socket).final
    /\ garbled' = TRUE
    /\ socket' = Tail(socket)
    /\ on_complete
    /\ UNCHANGED <<has_sent_request, conn, seq>>

\* nl_receive_cb, recvfrom fails with something other than EAGAIN: the
\* watcher is stopped and nobody completes the request.
nl_receive_fails ==
    /\ CanReceive
    /\ watch' = FALSE
    /\ UNCHANGED <<progVars, seq, socket, garbled>>

\* scan_fini, once the event loop has ended: queue_fini and nl_conn_close.
queue_fini ==
    /\ conn
    /\ EventLoop
    /\ conn' = FALSE
    /\ queue' = <<>>
    /\ is_busy' = FALSE
    /\ has_sent_request' = FALSE
    /\ watch' = FALSE
    /\ socket' = <<>>
    /\ UNCHANGED <<istate, pc, completing, seq, garbled>>

-----------------------------------------------------------------------------

\* What the queue and libev's loop do by themselves once they can.
Program == \/ queue_process \/ loop_ends
           \/ execute_returns_unsent \/ execute_returns_sent
           \/ completed_returns
           \/ nl_receive_part \/ nl_receive_last

\* What callers, the kernel's failures and shutdown may do.
Environment == \/ \E i \in Item : queue_schedule(i)
               \/ nl_send_req \/ nl_send_req_fails
               \/ nl_receive_undecodable \/ nl_receive_fails
               \/ queue_fini

Next == Program \/ Environment

Spec == Init /\ [][Next]_vars

\* A single-threaded loop keeps running: a started C function goes on to its
\* next step, and libev calls the receive callback while the socket is
\* readable.
FairSpec == Spec /\ WF_vars(Program)

-----------------------------------------------------------------------------

\* Types of the queue's state, of the C stack and of the socket.
TypeOK ==
    /\ queue \in Seq(Item)
    /\ istate \in [Item -> {"unused", "new", "sent", "done", "freed"}]
    /\ is_busy \in BOOLEAN
    /\ has_sent_request \in BOOLEAN
    /\ conn \in BOOLEAN
    /\ pc \in Places
    /\ completing \in Seq(Item)
    /\ watch \in BOOLEAN
    /\ seq \in Nat \ {0}
    /\ socket \in Seq(Datagram)
    /\ garbled \in BOOLEAN

\* The assertions of nl_queue.c never fire, however callbacks nest: the item
\* queue_process picks is NEW; when handle_queue_completed is called, from the
\* loop or from nl_receive_cb, the queue is busy and its head is the item
\* that was SENT.
QueueAsserts ==
    /\ pc = "test" /\ MoreToDo => istate[Head(queue)] = "new"
    /\ CanReceive \/ InExecute =>
          /\ is_busy
          /\ queue # <<>>
          /\ istate[Head(queue)] = "sent"

\* No activation of the queue's code is left holding an item that another one
\* has freed or will free: the items whose completed() has not returned are
\* DONE, not freed, and no two activations hold the same one.
NoUseAfterFree ==
    \A k \in 1..Len(completing) :
        /\ istate[completing[k]] = "done"
        /\ \A j \in 1..Len(completing) : completing[j] = completing[k] => j = k

\* While the receive watcher is on, the last datagram of the request in
\* flight is still to come: the watcher is never left waiting for a reply
\* that has been consumed on behalf of another request.
ReplyOwed ==
    watch => \E k \in 1..Len(socket) :
                socket[k].final /\ socket[k].seq = seq

\* As long as every datagram could be decoded, all that is on the socket
\* answers the current request, so no request is completed by another one's
\* reply.
OwnReply ==
    ~garbled => \A k \in 1..Len(socket) : socket[k].seq = seq

-----------------------------------------------------------------------------
(* The inductive invariant behind the four properties above.                *)

\* What is queued is queued once; only its head, and only while busy, is SENT.
QueueInv ==
    /\ \A j, k \in 1..Len(queue) : queue[j] = queue[k] => j = k
    /\ \A k \in 1..Len(queue) :
          istate[queue[k]] = IF k = 1 /\ is_busy THEN "sent" ELSE "new"
    /\ is_busy => queue # <<>>

\* Inside execute() the queue is busy; before it sends nothing is awaited.
StackInv ==
    /\ InExecute => is_busy
    /\ pc = "execute" => ~has_sent_request
    /\ NoUseAfterFree

\* A reply is awaited only for the request in flight, and is all there is on
\* the socket as long as nothing was garbled.
NetInv ==
    /\ watch => is_busy /\ has_sent_request
    /\ ReplyOwed
    /\ OwnReply
    /\ ~garbled => \A k \in 1..Len(socket) :
                      socket[k].final <=> k = Len(socket)
    /\ ~garbled /\ ~(is_busy /\ has_sent_request) => socket = <<>>
    /\ ~conn => EventLoop /\ ~is_busy

IndInv == TypeOK /\ QueueInv /\ StackInv /\ NetInv

-----------------------------------------------------------------------------

\* nl_queue.c carries requests out one at a time and in order: it implements
\* SerialQueue, the item at the head being the current one while busy.
Serial == INSTANCE SerialQueue WITH
    pending <- IF is_busy THEN Tail(queue) ELSE queue,
    current <- IF is_busy THEN Head(queue) ELSE NoItem,
    done    <- {i \in Item : istate[i] \in {"done", "freed"}},
    open    <- conn

RefinesSerialQueue == Serial!Spec

\* The queue can make no progress: busy, and the watcher has been stopped
\* without completing the request (the TODO at the top of nl_queue.c).
Hung == is_busy /\ ~watch /\ EventLoop

\* Every scheduled request is eventually completed and freed, unless the
\* queue hangs on a failed receive or the program ends.
EveryItemCompletes ==
    \A i \in Item :
        istate[i] = "new" ~> (istate[i] = "freed" \/ Hung \/ ~conn)
=============================================================================
