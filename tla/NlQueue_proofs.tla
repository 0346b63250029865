--------------------------- MODULE NlQueue_proofs ---------------------------
(***************************************************************************)
(* Proofs about NlQueue, for every set of items and every reply length:    *)
(* IndInv is inductive, the assertions of nl_queue.c hold, replies are     *)
(* never mixed up, and the queue implements SerialQueue.                   *)
(***************************************************************************)
EXTENDS NlQueue, Facts, SequenceTheorems, TLAPS

-----------------------------------------------------------------------------
(* The socket. *)

\* A reply is a nonempty run of datagrams whose last one is final.
LEMMA ReplyPoints ==
    ASSUME NEW n \in Nat \ {0}, NEW p \in 0..MaxParts
    PROVE  /\ Reply(n, p) \in Seq(Datagram)
           /\ Len(Reply(n, p)) = p + 1
           /\ \A k \in 1..(p + 1) : /\ Reply(n, p)[k].seq = n
                                    /\ Reply(n, p)[k].final <=> k = p + 1
  <1>1. p + 1 \in Nat
    BY MaxPartsAssumption
  <1>2. Reply(n, p) \in [1..(p + 1) -> Datagram]
    BY <1>1 DEF Reply, Datagram
  <1>3. Reply(n, p) \in Seq(Datagram)
    BY <1>1, <1>2, SeqDef
  <1>4. Len(Reply(n, p)) = p + 1
    BY <1>1, <1>2, <1>3, LenProperties
  <1>5. \A k \in 1..(p + 1) : /\ Reply(n, p)[k].seq = n
                              /\ Reply(n, p)[k].final <=> k = p + 1
    BY DEF Reply
  <1> QED
    BY <1>3, <1>4, <1>5

-----------------------------------------------------------------------------
(* IndInv is inductive: one lemma per action that changes the queue.        *)

\* queue_init leaves an empty queue and an empty socket.
LEMMA InitInv == Init => IndInv
  <1> SUFFICES ASSUME Init PROVE IndInv
    OBVIOUS
  <1>1. TypeOK
    <2>1. queue \in Seq(Item) /\ completing \in Seq(Item)
          /\ socket \in Seq(Datagram)
      BY DEF Init
    <2>2. istate \in [Item -> {"unused", "new", "sent", "done", "freed"}]
      BY DEF Init
    <2>3. pc \in Places /\ seq \in Nat \ {0}
      BY DEF Init, Places
    <2> QED
      BY <2>1, <2>2, <2>3 DEF Init, TypeOK
  <1>2. QueueInv /\ StackInv
    BY DEF Init, QueueInv, StackInv, NoUseAfterFree, InExecute
  <1>3. NetInv
    BY DEF Init, NetInv, ReplyOwed, OwnReply, EventLoop
  <1> QED
    BY <1>1, <1>2, <1>3 DEF IndInv

\* queue_schedule
LEMMA ScheduleInv ==
    ASSUME IndInv, NEW i \in Item, queue_schedule(i)
    PROVE  IndInv'
  <1> USE DEF IndInv
  <1>1. /\ queue' \in Seq(Item)
        /\ Len(queue') = Len(queue) + 1
        /\ \A k \in 1..Len(queue) : queue'[k] = queue[k]
        /\ queue'[Len(queue) + 1] = i
        /\ queue' # <<>>
    BY AppendPoints DEF TypeOK, queue_schedule
  <1>2. Len(queue) \in Nat /\ (is_busy => Len(queue) > 0)
    BY DEF TypeOK, QueueInv
  <1>3. TypeOK'
    BY <1>1 DEF TypeOK, queue_schedule, netVars, Places
  <1>4. QueueInv'
    <2>1. \A k \in 1..Len(queue) : queue[k] # i
      BY DEF QueueInv, TypeOK, queue_schedule
    <2>2. \A j, k \in 1..Len(queue') : queue'[j] = queue'[k] => j = k
      BY <1>1, <1>2, <2>1 DEF QueueInv
    <2>3. ASSUME NEW k \in 1..Len(queue')
          PROVE  istate'[queue'[k]] = IF k = 1 /\ is_busy' THEN "sent" ELSE "new"
      <3>1. k \in 1..Len(queue) \/ k = Len(queue) + 1
        BY <1>1, <1>2
      <3>2. ASSUME k \in 1..Len(queue)
            PROVE  queue[k] \in Item /\ istate'[queue[k]] = istate[queue[k]]
        BY <2>1, <3>2 DEF TypeOK, queue_schedule
      <3> QED
        BY <1>1, <1>2, <3>1, <3>2 DEF QueueInv, TypeOK, queue_schedule
    <2> QED
      BY <1>1, <2>2, <2>3 DEF QueueInv
  <1>5. StackInv'
    BY DEF StackInv, NoUseAfterFree, InExecute, TypeOK, queue_schedule
  <1>6. NetInv'
    BY DEF NetInv, TypeOK, queue_schedule, netVars, ReplyOwed, OwnReply,
           EventLoop
  <1> QED
    BY <1>3, <1>4, <1>5, <1>6

\* queue_process
LEMMA ProcessInv ==
    ASSUME IndInv, queue_process
    PROVE  IndInv'
  <1> USE DEF IndInv
  <1>1. queue # <<>> /\ ~is_busy
    BY DEF queue_process, MoreToDo
  <1>2. Head(queue) = queue[1] /\ Head(queue) \in Item /\ Len(queue) \in Nat \ {0}
    BY <1>1, TailPoints DEF TypeOK
  <1>3. istate[Head(queue)] = "new"
    BY <1>1, <1>2 DEF QueueInv
  <1>4. TypeOK'
    BY <1>2 DEF TypeOK, queue_process, netVars, Places
  <1>5. QueueInv'
    BY <1>1, <1>2, <1>3 DEF QueueInv, TypeOK, queue_process
  <1>6. StackInv'
    BY <1>2, <1>3 DEF StackInv, NoUseAfterFree, InExecute, TypeOK, queue_process
  <1>7. NetInv'
    BY <1>1 DEF NetInv, TypeOK, queue_process, netVars, ReplyOwed, OwnReply,
                EventLoop
  <1> QED
    BY <1>4, <1>5, <1>6, <1>7

\* nl_send_req, the request leaves and the kernel answers
LEMMA SendInv ==
    ASSUME IndInv, nl_send_req
    PROVE  IndInv'
  <1> USE DEF IndInv
  <1>1. is_busy /\ ~has_sent_request /\ ~watch
    BY DEF nl_send_req, StackInv, NetInv, InExecute
  <1>2. PICK parts \in 0..MaxParts : socket' = socket \o Reply(seq + 1, parts)
    BY DEF nl_send_req
  <1>3. seq + 1 \in Nat \ {0} /\ parts \in Nat
    BY MaxPartsAssumption DEF TypeOK
  <1> DEFINE r == Reply(seq + 1, parts)
  <1>4. /\ r \in Seq(Datagram)
        /\ Len(r) = parts + 1
        /\ \A k \in 1..(parts + 1) : /\ r[k].seq = seq + 1
                                     /\ r[k].final <=> k = parts + 1
    BY <1>3, ReplyPoints
  <1> HIDE DEF r
  <1>5. /\ socket' \in Seq(Datagram)
        /\ Len(socket') = Len(socket) + Len(r)
        /\ \A k \in 1..Len(r) : socket'[Len(socket) + k] = r[k]
    BY <1>2, <1>4, ConcatPoints DEF TypeOK, r
  <1>6. TypeOK'
    BY <1>3, <1>5 DEF TypeOK, nl_send_req, Places
  <1>7. QueueInv' /\ StackInv'
    BY <1>1 DEF QueueInv, StackInv, NoUseAfterFree, InExecute, nl_send_req
  <1>8. NetInv'
    <2>1. Len(socket) \in Nat /\ seq' = seq + 1
      BY DEF TypeOK, nl_send_req
    <2>2. ReplyOwed'
      <3>1. Len(socket) + (parts + 1) \in 1..Len(socket')
        BY <1>3, <1>4, <1>5, <2>1
      <3>2. socket'[Len(socket) + (parts + 1)] = r[parts + 1]
        BY <1>3, <1>4, <1>5
      <3> QED
        BY <1>3, <1>4, <2>1, <3>1, <3>2 DEF ReplyOwed
    <2>3. ~garbled => socket' = r
      BY <1>1, <1>2, <1>4 DEF NetInv, r
    <2>4. garbled' = garbled
      BY DEF nl_send_req
    <2>5. OwnReply' /\ (~garbled' => \A k \in 1..Len(socket') :
                                        socket'[k].final <=> k = Len(socket'))
      BY <1>3, <1>4, <2>1, <2>3, <2>4 DEF OwnReply
    <2> QED
      BY <1>1, <2>2, <2>5 DEF NetInv, nl_send_req, EventLoop
  <1> QED
    BY <1>6, <1>7, <1>8

\* handle_queue_completed: the busy head leaves the queue and completed()
\* starts.  Shared by the loop and by nl_receive_cb.
LEMMA CompletedInv ==
    ASSUME IndInv, is_busy, ~InExecute', handle_queue_completed
    PROVE  /\ queue' \in Seq(Item)
           /\ istate' \in [Item -> {"unused", "new", "sent", "done", "freed"}]
           /\ completing' \in Seq(Item)
           /\ QueueInv'
           /\ NoUseAfterFree'
  <1> USE DEF IndInv
  <1>1. queue # <<>> /\ queue \in Seq(Item) /\ completing \in Seq(Item)
    BY DEF QueueInv, TypeOK
  <1>2. /\ queue' \in Seq(Item)
        /\ Len(queue) \in Nat \ {0}
        /\ Len(queue') = Len(queue) - 1
        /\ \A k \in 1..Len(queue') : queue'[k] = queue[k + 1]
        /\ Head(queue) = queue[1]
        /\ Head(queue) \in Item
    BY <1>1, TailPoints DEF handle_queue_completed
  <1>3. istate[Head(queue)] = "sent"
    BY <1>2 DEF QueueInv
  <1>4. /\ completing' \in Seq(Item)
        /\ Len(completing') = Len(completing) + 1
        /\ \A k \in 1..Len(completing) : completing'[k] = completing[k]
        /\ completing'[Len(completing) + 1] = Head(queue)
    BY <1>1, <1>2, AppendPoints DEF handle_queue_completed
  <1>5. istate' = [istate EXCEPT ![Head(queue)] = "done"] /\ ~is_busy'
    BY DEF handle_queue_completed
  <1>6. istate' \in [Item -> {"unused", "new", "sent", "done", "freed"}]
    BY <1>5 DEF TypeOK
  <1>7. QueueInv'
    <2>1. ASSUME NEW j \in 1..Len(queue'), NEW k \in 1..Len(queue'),
                 queue'[j] = queue'[k]
          PROVE  j = k
      <3>1. j + 1 \in 1..Len(queue) /\ k + 1 \in 1..Len(queue)
        BY <1>2
      <3>2. queue[j + 1] = queue[k + 1]
        BY <1>2, <2>1
      <3>3. j + 1 = k + 1
        BY <3>1, <3>2 DEF QueueInv
      <3> QED
        BY <3>3
    <2>2. ASSUME NEW k \in 1..Len(queue')
          PROVE  istate'[queue'[k]] = "new"
      <3>1. k + 1 \in 1..Len(queue) /\ k + 1 # 1 /\ 1 \in 1..Len(queue)
        BY <1>2
      <3>2. queue[k + 1] \in Item /\ queue[k + 1] # queue[1]
        BY <1>1, <3>1 DEF QueueInv
      <3>3. istate[queue[k + 1]] = "new"
        BY <3>1 DEF QueueInv
      <3> QED
        BY <1>2, <1>5, <3>2, <3>3 DEF TypeOK
    <2> QED
      BY <1>5, <2>1, <2>2 DEF QueueInv
  <1>8. NoUseAfterFree'
    <2>1. Len(completing) \in Nat
      BY <1>1
    <2>2. \A k \in 1..Len(completing) :
             completing[k] \in Item /\ completing[k] # Head(queue)
      BY <1>1, <1>3 DEF StackInv, NoUseAfterFree
    <2>3. ASSUME NEW k \in 1..Len(completing')
          PROVE  istate'[completing'[k]] = "done"
      <3>1. CASE k \in 1..Len(completing)
        <4>1. istate[completing[k]] = "done"
          BY <3>1 DEF StackInv, NoUseAfterFree
        <4> QED
          BY <1>2, <1>4, <1>5, <2>2, <3>1, <4>1 DEF TypeOK
      <3>2. CASE k = Len(completing) + 1
        BY <1>2, <1>4, <1>5, <3>2 DEF TypeOK
      <3> QED
        BY <1>4, <2>1, <3>1, <3>2
    <2>4. ASSUME NEW j \in 1..Len(completing'), NEW k \in 1..Len(completing'),
                 completing'[j] = completing'[k]
          PROVE  j = k
      <3>1. /\ j \in 1..Len(completing) \/ j = Len(completing) + 1
            /\ k \in 1..Len(completing) \/ k = Len(completing) + 1
        BY <1>4, <2>1
      <3>2. CASE j \in 1..Len(completing) /\ k \in 1..Len(completing)
        BY <1>4, <2>4, <3>2 DEF StackInv, NoUseAfterFree
      <3> QED
        BY <1>4, <2>2, <2>4, <3>1, <3>2
    <2> QED
      BY <2>3, <2>4 DEF NoUseAfterFree
  <1> QED
    BY <1>2, <1>4, <1>6, <1>7, <1>8

\* execute() returns without having sent anything
LEMMA UnsentInv ==
    ASSUME IndInv, execute_returns_unsent
    PROVE  IndInv'
  <1> USE DEF IndInv
  <1>1. is_busy /\ handle_queue_completed /\ ~has_sent_request /\ ~InExecute'
        /\ ~watch /\ conn
    BY DEF execute_returns_unsent, handle_queue_completed, StackInv, NetInv,
           InExecute, EventLoop
  <1>2. /\ queue' \in Seq(Item)
        /\ istate' \in [Item -> {"unused", "new", "sent", "done", "freed"}]
        /\ completing' \in Seq(Item)
        /\ QueueInv'
        /\ NoUseAfterFree'
    BY <1>1, CompletedInv
  <1>3. TypeOK'
    BY <1>1, <1>2 DEF TypeOK, execute_returns_unsent, handle_queue_completed,
                      netVars, Places
  <1>4. StackInv'
    BY <1>1, <1>2 DEF StackInv, handle_queue_completed
  <1>5. NetInv'
    BY <1>1 DEF NetInv, execute_returns_unsent, netVars, ReplyOwed, OwnReply
  <1> QED
    BY <1>2, <1>3, <1>4, <1>5

\* completed() returns and its item is freed
LEMMA CompletedReturnsInv ==
    ASSUME IndInv, completed_returns
    PROVE  IndInv'
  <1> USE DEF IndInv
  <1>1. completing # <<>> /\ completing \in Seq(Item)
    BY DEF completed_returns, TypeOK
  <1>2. /\ completing' \in Seq(Item)
        /\ Len(completing') = Len(completing) - 1
        /\ \A k \in 1..(Len(completing) - 1) : completing'[k] = completing[k]
    BY <1>1, FrontPoints DEF completed_returns
  <1>3. Len(completing) \in Nat \ {0}
    BY <1>1, TailPoints
  <1> DEFINE last == Len(completing)
  <1>4. last \in 1..Len(completing) /\ Innermost \in Item
        /\ Innermost = completing[last]
    BY <1>1, <1>3 DEF Innermost
  <1>5. istate[Innermost] = "done"
    BY <1>4 DEF StackInv, NoUseAfterFree
  <1>6. istate' = [istate EXCEPT ![Innermost] = "freed"]
    BY DEF completed_returns
  <1>7. TypeOK'
    BY <1>2, <1>6 DEF TypeOK, completed_returns, netVars, Places
  <1>8. QueueInv'
    <2>1. \A k \in 1..Len(queue) : queue[k] \in Item /\ queue[k] # Innermost
      BY <1>5 DEF QueueInv, TypeOK
    <2> QED
      BY <1>6, <2>1 DEF QueueInv, TypeOK, completed_returns
  <1>9. StackInv'
    <2>1. ASSUME NEW k \in 1..Len(completing')
          PROVE  /\ istate'[completing'[k]] = "done"
                 /\ \A j \in 1..Len(completing') :
                       completing'[j] = completing'[k] => j = k
      <3>1. k \in 1..Len(completing) /\ k # last /\ completing'[k] = completing[k]
        BY <1>2, <1>3
      <3>2. completing[k] # completing[last] /\ completing[k] \in Item
        BY <1>1, <1>4, <3>1 DEF StackInv, NoUseAfterFree
      <3>3. istate[completing[k]] = "done"
        BY <3>1 DEF StackInv, NoUseAfterFree
      <3>4. istate'[completing[k]] = "done"
        BY <1>4, <1>6, <3>2, <3>3 DEF TypeOK
      <3>5. ASSUME NEW j \in 1..Len(completing'), completing'[j] = completing'[k]
            PROVE  j = k
        <4>1. j \in 1..Len(completing) /\ completing'[j] = completing[j]
          BY <1>2, <1>3
        <4> QED
          BY <3>1, <3>5, <4>1 DEF StackInv, NoUseAfterFree
      <3> QED
        BY <3>1, <3>4, <3>5
    <2> QED
      BY <2>1 DEF StackInv, NoUseAfterFree, InExecute, completed_returns
  <1>10. NetInv'
    BY <1>1 DEF NetInv, completed_returns, netVars, ReplyOwed, OwnReply, EventLoop
  <1> QED
    BY <1>7, <1>8, <1>9, <1>10

\* nl_receive_cb, a part of the reply
LEMMA ReceivePartInv ==
    ASSUME IndInv, nl_receive_part
    PROVE  IndInv'
  <1> USE DEF IndInv
  <1>1. socket # <<>> /\ socket \in Seq(Datagram)
    BY DEF nl_receive_part, TypeOK
  <1>2. /\ socket' \in Seq(Datagram)
        /\ Len(socket) \in Nat \ {0}
        /\ Len(socket') = Len(socket) - 1
        /\ \A k \in 1..Len(socket') : socket'[k] = socket[k + 1]
        /\ Head(socket) = socket[1]
    BY <1>1, TailPoints DEF nl_receive_part
  <1>3. TypeOK'
    BY <1>2 DEF TypeOK, nl_receive_part, progVars
  <1>4. QueueInv' /\ StackInv'
    BY DEF QueueInv, StackInv, NoUseAfterFree, InExecute, nl_receive_part, progVars
  <1>5. /\ watch /\ is_busy /\ has_sent_request /\ conn
        /\ UNCHANGED <<watch, is_busy, has_sent_request, conn, seq, garbled>>
    BY DEF nl_receive_part, progVars, CanReceive, NetInv
  <1>6. ReplyOwed'
    <2>1. PICK k \in 1..Len(socket) : socket[k].final /\ socket[k].seq = seq
      BY <1>5 DEF NetInv, ReplyOwed
    <2>2. k # 1
      BY <1>2, <2>1 DEF nl_receive_part
    <2>3. k - 1 \in 1..Len(socket') /\ socket'[k - 1] = socket[k]
      BY <1>2, <2>1, <2>2
    <2> QED
      BY <1>5, <2>1, <2>3 DEF ReplyOwed
  <1>7. ASSUME ~garbled, NEW k \in 1..Len(socket')
        PROVE  /\ socket'[k].seq = seq
               /\ socket'[k].final <=> k = Len(socket')
    <2>1. k + 1 \in 1..Len(socket) /\ socket'[k] = socket[k + 1]
          /\ (k + 1 = Len(socket) <=> k = Len(socket'))
      BY <1>2
    <2> QED
      BY <1>7, <2>1 DEF NetInv, OwnReply
  <1> QED
    BY <1>3, <1>4, <1>5, <1>6, <1>7 DEF NetInv, OwnReply

\* nl_receive_cb, a datagram that ends the request in flight
LEMMA OnCompleteInv ==
    ASSUME IndInv, CanReceive, socket # <<>>, socket' = Tail(socket), on_complete,
           UNCHANGED <<has_sent_request, conn, seq>>,
           \/ garbled' = TRUE
           \/ Head(socket).final /\ garbled' = garbled
           \/ Head(socket).seq # seq /\ garbled' = garbled
    PROVE  IndInv'
  <1> USE DEF IndInv
  <1>1. is_busy /\ handle_queue_completed /\ ~InExecute' /\ conn /\ ~watch'
        /\ ~is_busy'
    BY DEF CanReceive, EventLoop, NetInv, on_complete, handle_queue_completed,
           InExecute
  <1>2. /\ queue' \in Seq(Item)
        /\ istate' \in [Item -> {"unused", "new", "sent", "done", "freed"}]
        /\ completing' \in Seq(Item)
        /\ QueueInv'
        /\ NoUseAfterFree'
    BY <1>1, CompletedInv
  <1>3. /\ socket' \in Seq(Datagram)
        /\ Len(socket) \in Nat \ {0}
        /\ Len(socket') = Len(socket) - 1
        /\ Head(socket) = socket[1]
    BY TailPoints DEF TypeOK
  <1>4. garbled' \in BOOLEAN
    BY DEF TypeOK
  <1>5. TypeOK'
    <2>1. pc' \in Places
      BY <1>1 DEF handle_queue_completed, Places
    <2>2. /\ is_busy' \in BOOLEAN /\ watch' \in BOOLEAN
          /\ has_sent_request' \in BOOLEAN /\ conn' \in BOOLEAN
      BY <1>1 DEF TypeOK, handle_queue_completed, on_complete
    <2>3. seq' \in Nat \ {0}
      BY DEF TypeOK
    <2> QED
      BY <1>2, <1>3, <1>4, <2>1, <2>2, <2>3 DEF TypeOK
  <1>6. StackInv'
    BY <1>1, <1>2 DEF StackInv, handle_queue_completed
  <1>7. ~garbled' => socket' = <<>>
    <2> SUFFICES ASSUME ~garbled' PROVE socket' = <<>>
      OBVIOUS
    <2>1. 1 \in 1..Len(socket)
      BY <1>3
    <2>2. ~garbled /\ (Head(socket).final \/ Head(socket).seq # seq)
      OBVIOUS
    <2>3. socket[1].seq = seq
      BY <2>1, <2>2 DEF NetInv, OwnReply
    <2>4. socket[1].final
      BY <1>3, <2>2, <2>3
    <2>5. 1 = Len(socket)
      BY <2>1, <2>2, <2>4 DEF NetInv
    <2>6. Len(socket') = 0
      BY <1>3, <2>5
    <2> QED
      BY <1>3, <2>6
  <1>8. NetInv'
    <2>1. conn'
      BY <1>1
    <2>2. ReplyOwed'
      BY <1>1 DEF ReplyOwed
    <2>3. ~garbled' => \A k \in 1..Len(socket') : FALSE
      <3>1. \A k \in 1..0 : FALSE
        OBVIOUS
      <3>2. ~garbled' => Len(socket') = 0
        BY <1>7
      <3> QED
        BY <3>1, <3>2, Zenon
    <2>4. OwnReply'
      BY <2>3, Zenon DEF OwnReply
    <2>5. ~garbled' => \A k \in 1..Len(socket') :
                          socket'[k].final <=> k = Len(socket')
      BY <2>3, Zenon
    <2>6. watch' => is_busy' /\ has_sent_request'
      BY <1>1
    <2> QED
      BY <1>7, <2>1, <2>2, <2>4, <2>5, <2>6, Zenon DEF NetInv
  <1> QED
    BY <1>2, <1>5, <1>6, <1>8

\* What remains: the steps that only move pc, and shutdown.
LEMMA QuietInv ==
    ASSUME IndInv,
           \/ loop_ends \/ execute_returns_sent \/ nl_send_req_fails
           \/ nl_receive_fails \/ queue_fini \/ UNCHANGED vars
    PROVE  IndInv'
  <1> USE DEF IndInv
  <1>1. CASE loop_ends \/ execute_returns_sent
    <2>1. /\ UNCHANGED <<queue, istate, is_busy, has_sent_request, conn,
                         completing, watch, seq, socket, garbled>>
          /\ pc' = "idle"
      BY <1>1 DEF loop_ends, execute_returns_sent, netVars
    <2>2. TypeOK'
      BY <2>1 DEF TypeOK, Places
    <2>3. QueueInv'
      BY <2>1 DEF QueueInv
    <2>4. StackInv'
      BY <2>1 DEF StackInv, NoUseAfterFree, InExecute
    <2>5. ReplyOwed' /\ OwnReply'
      BY <2>1 DEF NetInv, ReplyOwed, OwnReply
    <2>6. conn'
      BY <1>1, <2>1 DEF loop_ends, execute_returns_sent, NetInv, EventLoop, InExecute
    <2>7. NetInv'
      BY <2>1, <2>5, <2>6 DEF NetInv
    <2> QED
      BY <2>2, <2>3, <2>4, <2>7
  <1>2. CASE nl_send_req_fails
    <2>1. ~watch /\ is_busy /\ ~has_sent_request /\ seq' = seq + 1
      BY <1>2 DEF nl_send_req_fails, StackInv, NetInv, InExecute
    <2>2. TypeOK'
      BY <1>2 DEF nl_send_req_fails, TypeOK, Places
    <2>3. QueueInv' /\ StackInv'
      BY <1>2 DEF nl_send_req_fails, QueueInv, StackInv, NoUseAfterFree, InExecute
    <2>4. ~garbled => socket' = <<>> /\ Len(socket') = 0
      BY <1>2, <2>1 DEF nl_send_req_fails, NetInv
    <2>5. ~garbled' => \A k \in 1..Len(socket') :
             socket'[k].seq = seq' /\ (socket'[k].final <=> k = Len(socket'))
      BY <1>2, <2>4 DEF nl_send_req_fails
    <2>6. conn'
      BY <1>2 DEF nl_send_req_fails, NetInv, EventLoop
    <2>7. ReplyOwed'
      BY <1>2, <2>1 DEF nl_send_req_fails, ReplyOwed
    <2> QED
      BY <1>2, <2>1, <2>2, <2>3, <2>4, <2>5, <2>6, <2>7
      DEF nl_send_req_fails, NetInv, OwnReply
  <1>3. CASE nl_receive_fails
    <2>1. /\ UNCHANGED <<queue, istate, is_busy, has_sent_request, conn, pc,
                         completing, seq, socket, garbled>>
          /\ watch' = FALSE
      BY <1>3 DEF nl_receive_fails, progVars
    <2>2. TypeOK'
      BY <2>1 DEF TypeOK
    <2>3. QueueInv'
      BY <2>1 DEF QueueInv
    <2>4. StackInv'
      BY <2>1 DEF StackInv, NoUseAfterFree, InExecute
    <2>5. NetInv'
      BY <2>1 DEF NetInv, ReplyOwed, OwnReply, EventLoop
    <2> QED
      BY <2>2, <2>3, <2>4, <2>5
  <1>4. CASE queue_fini
    <2>1. Len(queue') = 0 /\ Len(socket') = 0
      BY <1>4 DEF queue_fini
    <2>2. TypeOK'
      <3>1. queue' \in Seq(Item) /\ socket' \in Seq(Datagram)
        BY <1>4 DEF queue_fini
      <3> QED
        BY <1>4, <3>1 DEF queue_fini, TypeOK
    <2>3. QueueInv'
      BY <1>4, <2>1 DEF queue_fini, QueueInv
    <2>4. StackInv'
      BY <1>4 DEF queue_fini, StackInv, NoUseAfterFree, InExecute, EventLoop
    <2>5. NetInv'
      BY <1>4, <2>1 DEF queue_fini, NetInv, ReplyOwed, OwnReply, EventLoop
    <2> QED
      BY <2>2, <2>3, <2>4, <2>5
  <1>5. CASE UNCHANGED vars
    BY <1>5 DEF vars, progVars, netVars, TypeOK, QueueInv, StackInv,
                NoUseAfterFree, InExecute, NetInv, ReplyOwed, OwnReply, EventLoop
  <1> QED
    BY <1>1, <1>2, <1>3, <1>4, <1>5

\* Every step keeps IndInv: one case per action.
LEMMA NextInv == IndInv /\ [Next]_vars => IndInv'
  <1> SUFFICES ASSUME IndInv, [Next]_vars PROVE IndInv'
    OBVIOUS
  <1>1. CASE \E i \in Item : queue_schedule(i)
    BY <1>1, ScheduleInv
  <1>2. CASE nl_receive_last
    <2>1. UNCHANGED <<has_sent_request, conn, seq>>
      BY <1>2 DEF nl_receive_last
    <2> QED
      BY <1>2, <2>1, OnCompleteInv DEF nl_receive_last
  <1>3. CASE nl_receive_undecodable
    <2>1. UNCHANGED <<has_sent_request, conn, seq>>
      BY <1>3 DEF nl_receive_undecodable
    <2> QED
      BY <1>3, <2>1, OnCompleteInv DEF nl_receive_undecodable
  <1> QED
    BY <1>1, <1>2, <1>3, ProcessInv, SendInv, UnsentInv, CompletedReturnsInv,
       ReceivePartInv, QuietInv DEF Next, Program, Environment

\* The inductive invariant holds in every reachable state.
THEOREM Invariant == Spec => []IndInv
  BY InitInv, NextInv, PTL DEF Spec

-----------------------------------------------------------------------------
(* The properties the runs check.                                           *)

\* Types: queue_init to queue_fini.
THEOREM TypeCorrect == Spec => []TypeOK
  <1>1. IndInv => TypeOK
    BY DEF IndInv
  <1> QED
    BY <1>1, Invariant, PTL

\* The AN()s of queue_process and handle_queue_completed never fire.
THEOREM AssertsHold == Spec => []QueueAsserts
  <1>1. ASSUME IndInv PROVE QueueAsserts
    <2>1. ASSUME queue # <<>>
          PROVE  Head(queue) = queue[1] /\ 1 \in 1..Len(queue)
      BY <1>1, <2>1, TailPoints DEF IndInv, TypeOK
    <2>2. ASSUME pc = "test", MoreToDo
          PROVE  istate[Head(queue)] = "new"
      BY <1>1, <2>1, <2>2 DEF MoreToDo, IndInv, QueueInv
    <2>3. ASSUME CanReceive \/ InExecute
          PROVE  is_busy /\ queue # <<>>
      BY <1>1, <2>3 DEF IndInv, QueueInv, StackInv, NetInv, CanReceive
    <2>4. ASSUME is_busy, queue # <<>>
          PROVE  istate[Head(queue)] = "sent"
      BY <1>1, <2>1, <2>4 DEF IndInv, QueueInv
    <2> QED
      BY <2>2, <2>3, <2>4 DEF QueueAsserts
  <1> QED
    BY <1>1, Invariant, PTL

\* A completed() that has not returned holds an item nobody else frees.
THEOREM ItemsHeldOnce == Spec => []NoUseAfterFree
  <1>1. IndInv => NoUseAfterFree
    BY DEF IndInv, StackInv
  <1> QED
    BY <1>1, Invariant, PTL

\* nl_receive_cb never completes a request by another request's reply.
THEOREM RepliesMatched == Spec => []OwnReply
  <1>1. IndInv => OwnReply
    BY DEF IndInv, NetInv
  <1> QED
    BY <1>1, Invariant, PTL

\* nl_receive_cb never waits for a reply that has been consumed already.
THEOREM RepliesOwed == Spec => []ReplyOwed
  <1>1. IndInv => ReplyOwed
    BY DEF IndInv, NetInv
  <1> QED
    BY <1>1, Invariant, PTL

-----------------------------------------------------------------------------
(* nl_queue.c implements SerialQueue: every step maps to a step of it or    *)
(* leaves it alone.                                                         *)

\* The items that SerialQueue calls completed.
DoneItems == {i \in Item : istate[i] \in {"done", "freed"}}

\* Appending commutes with popping the head of a nonempty queue.
LEMMA AppendTail ==
    ASSUME NEW S, NEW s \in Seq(S), s # <<>>, NEW e \in S
    PROVE  /\ Head(Append(s, e)) = Head(s)
           /\ Tail(Append(s, e)) = Append(Tail(s), e)
  <1>1. Head(Append(s, e)) = Head(s)
    OBVIOUS
  <1>2. Tail(Append(s, e)) \in Seq(S) /\ Append(Tail(s), e) \in Seq(S)
    OBVIOUS
  <1>3. Len(Tail(Append(s, e))) = Len(Append(Tail(s), e))
    OBVIOUS
  <1>4. \A k \in 1..Len(Tail(Append(s, e))) :
           Tail(Append(s, e))[k] = Append(Tail(s), e)[k]
    OBVIOUS
  <1> QED
    BY <1>1, <1>2, <1>3, <1>4, SeqEqual, Zenon

\* queue_schedule is a Submit of the serial queue.
LEMMA ScheduleSubmits ==
    ASSUME IndInv, NEW i \in Item, queue_schedule(i)
    PROVE  Serial!Submit(i)
  <1> USE DEF IndInv
  <1>1. istate[i] = "unused" /\ queue' = Append(queue, i) /\ is_busy' = is_busy
        /\ conn /\ conn'
    BY DEF queue_schedule
  <1>2. \A k \in 1..Len(queue) : queue[k] # i /\ queue[k] \in Item
    BY <1>1 DEF QueueInv, TypeOK
  <1>3. i \notin DoneItems /\ DoneItems' = DoneItems
    BY DEF DoneItems, queue_schedule, TypeOK
  <1>4. CASE is_busy
    <2>1. queue # <<>> /\ queue \in Seq(Item)
      BY <1>4 DEF QueueInv, TypeOK
    <2>2. /\ Len(queue) \in Nat \ {0} /\ Head(queue) = queue[1]
          /\ Len(Tail(queue)) = Len(queue) - 1
          /\ \A k \in 1..Len(Tail(queue)) : Tail(queue)[k] = queue[k + 1]
      BY <2>1, TailPoints
    <2>3. Head(queue) # i
      BY <1>2, <2>2
    <2>4. \A k \in 1..Len(Tail(queue)) : Tail(queue)[k] # i
      BY <1>2, <2>2
    <2>5. Head(queue') = Head(queue) /\ Tail(queue') = Append(Tail(queue), i)
      BY <1>1, <2>1, AppendTail
    <2> QED
      BY <1>1, <1>3, <1>4, <2>3, <2>4, <2>5 DEF Serial!Submit, DoneItems
  <1>5. CASE ~is_busy
    BY <1>1, <1>2, <1>3, <1>5, NoItemAssumption DEF Serial!Submit, DoneItems
  <1> QED
    BY <1>4, <1>5

\* queue_process is a Start of the serial queue.
LEMMA ProcessStarts ==
    ASSUME IndInv, queue_process
    PROVE  Serial!Start
  <1> USE DEF IndInv
  <1>1. queue # <<>> /\ ~is_busy /\ is_busy' /\ queue' = queue /\ conn
        /\ conn' = conn
    BY DEF queue_process, MoreToDo, NetInv, EventLoop
  <1>2. Head(queue) \in Item /\ istate[Head(queue)] = "new"
    BY <1>1, TailPoints DEF QueueInv, TypeOK
  <1>3. DoneItems' = DoneItems
    BY <1>2 DEF DoneItems, queue_process, TypeOK
  <1> QED
    BY <1>1, <1>3 DEF Serial!Start, DoneItems

\* handle_queue_completed is a Finish of the serial queue.
LEMMA CompletedFinishes ==
    ASSUME IndInv, is_busy, conn, conn' = conn, handle_queue_completed
    PROVE  Serial!Finish
  <1> USE DEF IndInv
  <1>1. queue # <<>> /\ Head(queue) \in Item
    BY TailPoints DEF QueueInv, TypeOK
  <1>2. Head(queue) # NoItem
    BY <1>1, NoItemAssumption
  <1>3. DoneItems' = DoneItems \union {Head(queue)}
    BY <1>1 DEF DoneItems, handle_queue_completed, TypeOK
  <1>4. queue' = Tail(queue) /\ ~is_busy'
    BY DEF handle_queue_completed
  <1> QED
    BY <1>1, <1>2, <1>3, <1>4 DEF Serial!Finish, DoneItems

\* Sending, receiving and returning are not seen from the serial queue.
LEMMA QuietStutters ==
    ASSUME IndInv,
           \/ loop_ends \/ execute_returns_sent \/ nl_send_req
           \/ nl_send_req_fails \/ completed_returns \/ nl_receive_part
           \/ nl_receive_fails \/ UNCHANGED vars
    PROVE  UNCHANGED Serial!serialVars
  <1> USE DEF IndInv
  <1>1. UNCHANGED <<queue, is_busy, conn>>
    BY DEF loop_ends, execute_returns_sent, nl_send_req, nl_send_req_fails,
           completed_returns, nl_receive_part, nl_receive_fails, vars, progVars
  <1>2. DoneItems' = DoneItems
    <2>1. CASE completed_returns
      <3>1. Len(completing) \in Nat \ {0}
        BY <2>1, TailPoints DEF completed_returns, TypeOK
      <3>2. Innermost \in Item /\ istate[Innermost] = "done"
        BY <3>1 DEF Innermost, StackInv, NoUseAfterFree, TypeOK
      <3> QED
        BY <2>1, <3>2 DEF DoneItems, completed_returns, TypeOK
    <2>2. CASE ~completed_returns
      BY <2>2 DEF DoneItems, loop_ends, execute_returns_sent, nl_send_req,
                  nl_send_req_fails, nl_receive_part, nl_receive_fails, vars,
                  progVars
    <2> QED
      BY <2>1, <2>2
  <1> QED
    BY <1>1, <1>2 DEF Serial!serialVars, DoneItems

\* queue_fini is a Close of the serial queue.
LEMMA FiniCloses ==
    ASSUME queue_fini
    PROVE  Serial!Close
  BY DEF queue_fini, Serial!Close

\* Requests are carried out one at a time, in the order scheduled, each once.
THEOREM Refinement == Spec => RefinesSerialQueue
  <1>1. Init => Serial!Init
    BY DEF Init, Serial!Init
  <1>2. ASSUME IndInv, [Next]_vars
        PROVE  [Serial!Next]_(Serial!serialVars)
    <2>1. CASE \E i \in Item : queue_schedule(i)
      BY <1>2, <2>1, ScheduleSubmits DEF Serial!Next
    <2>2. CASE queue_process
      BY <1>2, <2>2, ProcessStarts DEF Serial!Next
    <2>3. CASE execute_returns_unsent \/ nl_receive_last \/ nl_receive_undecodable
      <3>1. is_busy /\ conn /\ conn' = conn /\ handle_queue_completed
        BY <1>2, <2>3
        DEF execute_returns_unsent, nl_receive_last, nl_receive_undecodable,
            on_complete, CanReceive, EventLoop, IndInv, StackInv, NetInv, InExecute
      <3> QED
        BY <1>2, <3>1, CompletedFinishes DEF Serial!Next
    <2>4. CASE queue_fini
      BY <2>4, FiniCloses DEF Serial!Next
    <2> QED
      BY <1>2, <2>1, <2>2, <2>3, <2>4, QuietStutters
      DEF Next, Program, Environment
  <1> QED
    BY <1>1, <1>2, Invariant, PTL DEF Spec, RefinesSerialQueue, Serial!Spec
=============================================================================
