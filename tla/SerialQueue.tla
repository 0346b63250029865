---------------------------- MODULE SerialQueue ----------------------------
(***************************************************************************)
(* What src/src/nl_queue.c promises to its callers (tc_action.c, scan.c):  *)
(* requests are carried out one at a time, in the order in which they were *)
(* scheduled, each at most once.  Closing the queue drops what is left.    *)
(***************************************************************************)
EXTENDS Naturals, Sequences

CONSTANTS Item,    \* the requests callers schedule
          NoItem   \* "no request is being carried out"

VARIABLES pending,  \* scheduled and not yet started, oldest first
          current,  \* the request being carried out
          done,     \* the requests that have completed
          open      \* FALSE once the queue is shut down

serialVars == <<pending, current, done, open>>

Init ==
    /\ pending = <<>>
    /\ current = NoItem
    /\ done = {}
    /\ open = TRUE

Submit(i) ==
    /\ open
    /\ i \notin done \union {current}
    /\ \A k \in 1..Len(pending) : pending[k] # i
    /\ pending' = Append(pending, i)
    /\ UNCHANGED <<current, done, open>>

Start ==
    /\ open
    /\ current = NoItem
    /\ pending # <<>>
    /\ current' = Head(pending)
    /\ pending' = Tail(pending)
    /\ UNCHANGED <<done, open>>

Finish ==
    /\ open
    /\ current # NoItem
    /\ done' = done \union {current}
    /\ current' = NoItem
    /\ UNCHANGED <<pending, open>>

Close ==
    /\ open
    /\ open' = FALSE
    /\ pending' = <<>>
    /\ current' = NoItem
    /\ UNCHANGED done

Next == \/ \E i \in Item : Submit(i)
        \/ Start
        \/ Finish
        \/ Close

Spec == Init /\ [][Next]_serialVars
=============================================================================
