--------------------------- MODULE ObjGraph_proofs --------------------------
(***************************************************************************)
(* Proofs about ObjGraph, for any link, neighbours, gateways and routes,   *)
(* any tables of the kernel and any number of events: the reference counts *)
(* of the objects are right whenever the daemon waits, and what the daemon *)
(* knows of the link and of its neighbours follows the kernel.             *)
(*                                                                         *)
(* What the daemon does with rules and with the queue does not touch the   *)
(* objects.  This is shown first (Keeps); after that a handler is a short  *)
(* list of changes of the objects.                                         *)
(***************************************************************************)
EXTENDS ObjGraph, Facts, FiniteSetTheorems, TLAPS

-----------------------------------------------------------------------------
(* Sequences of anything. *)

LEMMA SeqPoints ==
    ASSUME NEW S, NEW q \in Seq(S)
    PROVE  IsSeq(q)
  BY DEF IsSeq

LEMMA AppendSeq ==
    ASSUME NEW q, IsSeq(q), NEW e
    PROVE  /\ IsSeq(Append(q, e))
           /\ Len(q) \in Nat
           /\ Len(Append(q, e)) = Len(q) + 1
           /\ \A k \in 1..Len(q) : Append(q, e)[k] = q[k]
           /\ Append(q, e)[Len(q) + 1] = e
  <1> DEFINE S == {q[k] : k \in 1..Len(q)} \union {e}
  <1>1. q \in Seq(S) /\ e \in S
    BY DEF IsSeq
  <1> HIDE DEF S
  <1>2. /\ Append(q, e) \in Seq(S)
        /\ Len(Append(q, e)) = Len(q) + 1
        /\ \A k \in 1..Len(q) : Append(q, e)[k] = q[k]
        /\ Append(q, e)[Len(q) + 1] = e
    BY <1>1, AppendPoints
  <1>3. IsSeq(Append(q, e))
    BY <1>2, SeqPoints
  <1>4. Len(q) \in Nat
    BY <1>1
  <1> QED
    BY <1>2, <1>3, <1>4

LEMMA TailSeq ==
    ASSUME NEW q, IsSeq(q), q # <<>>
    PROVE  /\ IsSeq(Tail(q))
           /\ Len(q) \in Nat \ {0}
           /\ Len(Tail(q)) = Len(q) - 1
           /\ \A k \in 1..Len(Tail(q)) : Tail(q)[k] = q[k + 1]
           /\ Head(q) = q[1]
  <1> DEFINE S == {q[k] : k \in 1..Len(q)}
  <1>1. q \in Seq(S)
    BY DEF IsSeq
  <1> HIDE DEF S
  <1> QED
    BY <1>1, SeqPoints, TailPoints

LEMMA ConcatSeq ==
    ASSUME NEW p, IsSeq(p), NEW q, IsSeq(q)
    PROVE  /\ IsSeq(p \o q)
           /\ Len(p) \in Nat /\ Len(q) \in Nat
           /\ Len(p \o q) = Len(p) + Len(q)
           /\ \A k \in 1..Len(p) : (p \o q)[k] = p[k]
           /\ \A k \in 1..Len(q) : (p \o q)[Len(p) + k] = q[k]
  <1> DEFINE S == {p[k] : k \in 1..Len(p)} \union {q[k] : k \in 1..Len(q)}
  <1>1. p \in Seq(S) /\ q \in Seq(S)
    BY DEF IsSeq
  <1> HIDE DEF S
  <1>2. /\ p \o q \in Seq(S)
        /\ Len(p \o q) = Len(p) + Len(q)
        /\ \A k \in 1..Len(p) : (p \o q)[k] = p[k]
        /\ \A k \in 1..Len(q) : (p \o q)[Len(p) + k] = q[k]
    BY <1>1, ConcatPoints
  <1>3. IsSeq(p \o q)
    BY <1>2, SeqPoints
  <1>4. Len(p) \in Nat /\ Len(q) \in Nat
    BY <1>1
  <1> QED
    BY <1>2, <1>3, <1>4

-----------------------------------------------------------------------------
(* What the rules' functions leave alone. *)

Field == {"rule", "work", "current", "pin", "kern", "mon", "dump", "chains", "own", "fault",
          "link", "neigh", "target", "route"}

Wide(s) == DOMAIN s = Field

SameObjects(s, t) ==
    /\ t.link = s.link /\ t.neigh = s.neigh /\ t.target = s.target /\ t.route = s.route

\* Only notifications of filters are added.
Extends(p, q) ==
    /\ Len(p) <= Len(q)
    /\ \A k \in 1..Len(p) : q[k] = p[k]
    /\ \A k \in 1..Len(q) : k > Len(p) => q[k].op \in {"NEW", "DEL"}

\* No dump is in flight or waiting.
NoScan(s) == s.current \notin Scans /\ \A op \in Scans : ~InWork(s, op)

\* The request in flight and its dump stay; when there is none the next one may
\* have been sent.
Follows(s, t) ==
    /\ Extends(s.mon, t.mon)
    /\ s.current # "none" =>
          /\ t.current = s.current
          /\ t.dump = s.dump
          /\ \A op \in Scans : InWork(s, op) => InWork(t, op)
    /\ s.current = "none" =>
          /\ t.current # "filters" => t.dump = s.dump
          /\ \A op \in Scans : InWork(s, op) => t.current = op \/ InWork(t, op)

Flows(s, t) ==
    /\ Wide(t)
    /\ t.fault = "none" => s.fault = "none"
    /\ Flow(s) => Flow(t) /\ Follows(s, t)

Keeps(s, t) == Flows(s, t) /\ SameObjects(s, t)

LEMMA OneScanSame ==
    ASSUME NEW s, NEW t, t.work = s.work, t.current = s.current
    PROVE  OneScan(t) <=> OneScan(s)
  BY DEF OneScan, InWork

LEMMA FlowsReflexive ==
    ASSUME NEW s, Wide(s)
    PROVE  Flows(s, s)
  <1>1. Flow(s) => Extends(s.mon, s.mon)
    BY DEF Flow, Understood, IsSeq, Extends
  <1> QED
    BY <1>1 DEF Flows, Follows

LEMMA FlowsTransitive ==
    ASSUME NEW s, NEW t, NEW u, Flows(s, t), Flows(t, u)
    PROVE  Flows(s, u)
  <1>1. Wide(u) /\ (u.fault = "none" => s.fault = "none")
    BY DEF Flows
  <1>2. SUFFICES ASSUME Flow(s) PROVE Flow(u) /\ Follows(s, u)
    BY <1>1 DEF Flows
  <1>3. Flow(t) /\ Follows(s, t) /\ Flow(u) /\ Follows(t, u)
    BY <1>2 DEF Flows
  <1>4. Extends(s.mon, u.mon)
    <2>1. Len(s.mon) \in Nat /\ Len(t.mon) \in Nat /\ Len(u.mon) \in Nat
      BY <1>2, <1>3 DEF Flow, Understood, IsSeq
    <2>2. Extends(s.mon, t.mon) /\ Extends(t.mon, u.mon)
      BY <1>3 DEF Follows
    <2> QED
      BY <2>1, <2>2 DEF Extends
  <1>5. ASSUME s.current # "none"
        PROVE  /\ u.current = s.current
               /\ u.dump = s.dump
               /\ \A op \in Scans : InWork(s, op) => InWork(u, op)
    BY <1>3, <1>5 DEF Follows
  <1>6. ASSUME s.current = "none"
        PROVE  /\ u.current # "filters" => u.dump = s.dump
               /\ \A op \in Scans : InWork(s, op) => u.current = op \/ InWork(u, op)
    <2>1. CASE t.current = "none"
      BY <1>3, <1>6, <2>1 DEF Follows, Scans
    <2>2. CASE t.current # "none"
      BY <1>3, <1>6, <2>2 DEF Follows
    <2> QED
      BY <2>1, <2>2
  <1> QED
    BY <1>3, <1>4, <1>5, <1>6 DEF Follows

LEMMA KeepsReflexive ==
    ASSUME NEW s, Wide(s)
    PROVE  Keeps(s, s)
  BY FlowsReflexive DEF Keeps, SameObjects

LEMMA KeepsTransitive ==
    ASSUME NEW s, NEW t, NEW u, Keeps(s, t), Keeps(t, u)
    PROVE  Keeps(s, u)
  BY FlowsTransitive DEF Keeps, SameObjects

LEMMA KeepsWide ==
    ASSUME NEW s, NEW t, Keeps(s, t)
    PROVE  Wide(t)
  BY DEF Keeps, Flows

\* Neither the queue, nor what is in flight, changes.
SameFlow(s, t) ==
    /\ Wide(t)
    /\ t.fault = "none" => s.fault = "none"
    /\ t.work = s.work /\ t.current = s.current /\ t.mon = s.mon /\ t.dump = s.dump

LEMMA FlowsSame ==
    ASSUME NEW s, NEW t, Wide(s), SameFlow(s, t)
    PROVE  Flows(s, t)
  <1>1. Flows(s, s)
    BY FlowsReflexive
  <1>2. \A op : InWork(s, op) <=> InWork(t, op)
    BY DEF SameFlow, InWork
  <1>3. Flow(s) <=> Flow(t)
    BY OneScanSame DEF SameFlow, Flow
  <1> QED
    BY <1>1, <1>2, <1>3 DEF SameFlow, Flows, Follows

LEMMA KeepsSame ==
    ASSUME NEW s, NEW t, Wide(s), SameFlow(s, t), SameObjects(s, t)
    PROVE  Keeps(s, t)
  BY FlowsSame DEF Keeps

-----------------------------------------------------------------------------
(* The functions of RuleSync, one by one. *)

LEMMA FailsKeeps ==
    ASSUME NEW s, Wide(s), NEW why, why # "none"
    PROVE  Keeps(s, Fails(s, why))
  <1>1. SameFlow(s, Fails(s, why)) /\ SameObjects(s, Fails(s, why))
    BY DEF Fails, SameFlow, Wide, Field, SameObjects
  <1> QED
    BY <1>1, KeepsSame

LEMMA RefKeeps ==
    ASSUME NEW s, Wide(s), NEW r
    PROVE  Keeps(s, Ref(s, r))
  <1>1. SameFlow(s, Ref(s, r)) /\ SameObjects(s, Ref(s, r))
    BY DEF Ref, SameFlow, Wide, Field, SameObjects
  <1> QED
    BY <1>1, KeepsSame

LEMMA StateKeeps ==
    ASSUME NEW s, Wide(s), NEW r, NEW state
    PROVE  Keeps(s, State(s, r, state))
  <1>1. SameFlow(s, State(s, r, state)) /\ SameObjects(s, State(s, r, state))
    BY DEF State, SameFlow, Wide, Field, SameObjects
  <1> QED
    BY <1>1, KeepsSame

\* A request of one kind is added to the queue.
LEMMA AppendKeeps ==
    ASSUME NEW s, Wide(s), NEW t, Wide(t), NEW w, t.work = Append(s.work, w),
           t.fault = s.fault, t.current = s.current, t.mon = s.mon, t.dump = s.dump,
           SameObjects(s, t), w.op \notin Scans \/ NoScan(s)
    PROVE  /\ Keeps(s, t)
           /\ Flow(s) => InWork(t, w.op)
  <1>1. SUFFICES ASSUME Flow(s)
                 PROVE  Flow(t) /\ Follows(s, t) /\ InWork(t, w.op)
    BY DEF Keeps, Flows
  <1>2. IsSeq(s.work)
    BY <1>1 DEF Flow
  <1>3. /\ IsSeq(t.work)
        /\ Len(s.work) \in Nat
        /\ Len(t.work) = Len(s.work) + 1
        /\ \A k \in 1..Len(s.work) : t.work[k] = s.work[k]
        /\ t.work[Len(s.work) + 1] = w
    BY <1>2, AppendSeq
  <1>4. \A op : InWork(s, op) => InWork(t, op)
    BY <1>3 DEF InWork
  <1>5. InWork(t, w.op)
    BY <1>3 DEF InWork
  <1>8. \A k \in 1..Len(t.work) : k \in 1..Len(s.work) \/ k = Len(s.work) + 1
    BY <1>3
  <1>9. OneScan(t)
    <2>1. OneScan(s)
      BY <1>1 DEF Flow
    <2>2. CASE w.op \notin Scans
      <3>1. \A k \in 1..Len(t.work) : t.work[k].op \in Scans => k \in 1..Len(s.work)
        BY <1>3, <1>8, <2>2
      <3> QED
        BY <1>3, <2>1, <3>1 DEF OneScan, InWork
    <2>3. CASE NoScan(s)
      <3>1. \A k \in 1..Len(t.work) : t.work[k].op \in Scans => k = Len(s.work) + 1
        BY <1>3, <1>8, <2>3 DEF NoScan, InWork
      <3> QED
        BY <2>3, <3>1 DEF OneScan, NoScan
    <2> QED
      BY <2>2, <2>3
  <1>6. Flow(t)
    BY <1>1, <1>3, <1>9 DEF Flow
  <1>7. Follows(s, s)
    BY <1>1, FlowsReflexive DEF Flows
  <1> QED
    BY <1>4, <1>5, <1>6, <1>7 DEF Follows

LEMMA QueueKeeps ==
    ASSUME NEW s, Wide(s), NEW op \in {"install", "uninstall"}, NEW r
    PROVE  Keeps(s, Queue(s, op, r))
  <1>1. /\ Wide(Queue(s, op, r))
        /\ Queue(s, op, r).work = Append(s.work, Change(op, r))
        /\ Queue(s, op, r).fault = s.fault /\ Queue(s, op, r).current = s.current /\ Queue(s, op, r).mon = s.mon /\ Queue(s, op, r).dump = s.dump
        /\ SameObjects(s, Queue(s, op, r))
    BY DEF Queue, Ref, Wide, Field, SameObjects
  <1>2. Change(op, r).op \notin Scans
    BY DEF Change, Scans
  <1> QED
    BY <1>1, <1>2, AppendKeeps

LEMMA QueueInstallKeeps ==
    ASSUME NEW s, Wide(s), NEW r
    PROVE  Keeps(s, QueueInstall(s, r)) /\ Keeps(s, QueueUninstall(s, r))
  BY QueueKeeps, KeepsReflexive DEF QueueInstall, QueueUninstall

LEMMA UpdateStateKeeps ==
    ASSUME NEW s, Wide(s), NEW r
    PROVE  Keeps(s, UpdateState(s, r))
  <1>1. Keeps(s, s)
    BY KeepsReflexive
  <1>2. \A state : Keeps(s, State(s, r, state)) /\ Wide(State(s, r, state))
    BY StateKeeps, KeepsWide
  <1>3. \A state : Keeps(s, QueueInstall(State(s, r, state), r))
                   /\ Keeps(s, QueueUninstall(State(s, r, state), r))
    BY <1>2, QueueInstallKeeps, KeepsTransitive
  <1> QED
    BY <1>1, <1>2, <1>3 DEF UpdateState

LEMMA UninstallKeeps ==
    ASSUME NEW s, Wide(s), NEW r
    PROVE  Keeps(s, Uninstall(s, r))
  <1> DEFINE t == [s EXCEPT !.rule[r].want = NoTcr]
  <1>1. Wide(t) /\ SameFlow(s, t) /\ SameObjects(s, t)
    BY DEF SameFlow, Wide, Field, SameObjects
  <1>2. Uninstall(s, r) = UpdateState(t, r)
    BY DEF Uninstall
  <1> HIDE DEF t
  <1> QED
    BY <1>1, <1>2, KeepsSame, UpdateStateKeeps, KeepsTransitive

LEMMA ReapKeeps ==
    ASSUME NEW s, Wide(s), NEW r
    PROVE  Keeps(s, Reap(s, r))
  <1>1. SameFlow(s, Reap(s, r)) /\ SameObjects(s, Reap(s, r))
    BY DEF Reap, SameFlow, Wide, Field, SameObjects
  <1> QED
    BY <1>1, KeepsSame

LEMMA UnrefKeeps ==
    ASSUME NEW s, Wide(s), NEW r
    PROVE  Keeps(s, Unref(s, r))
  <1> DEFINE d == CountDown(s, r)
             u == IF Abandoned(d.rule[r]) THEN Uninstall(d, r) ELSE d
  <1>1. Wide(d) /\ SameFlow(s, d) /\ SameObjects(s, d)
    BY DEF CountDown, SameFlow, Wide, Field, SameObjects
  <1>2. Unref(s, r) = IF Reapable(u, r) THEN Reap(u, r) ELSE u
    BY DEF Unref
  <1> HIDE DEF d
  <1>3. Keeps(s, d)
    BY <1>1, KeepsSame
  <1>4. Keeps(d, u)
    BY <1>1, UninstallKeeps, KeepsReflexive
  <1> HIDE DEF u
  <1>5. Keeps(s, u) /\ Wide(u)
    BY <1>3, <1>4, KeepsTransitive, KeepsWide
  <1>6. Keeps(s, Reap(u, r))
    BY <1>5, ReapKeeps, KeepsTransitive
  <1> QED
    BY <1>2, <1>5, <1>6

\* The kernel announces a filter that has come or gone.
LEMMA AnnounceKeeps ==
    ASSUME NEW s, Wide(s), NEW t, Wide(t), NEW m, m.op \in {"NEW", "DEL"},
           t.mon = Append(s.mon, m), t.fault = s.fault, t.current = s.current,
           t.work = s.work, t.dump = s.dump, SameObjects(s, t)
    PROVE  Keeps(s, t)
  <1>1. SUFFICES ASSUME Flow(s) PROVE Flow(t) /\ Follows(s, t)
    BY DEF Keeps, Flows
  <1>2. IsSeq(s.mon) /\ Understood(s.mon)
    BY <1>1 DEF Flow, Understood
  <1>3. /\ IsSeq(t.mon)
        /\ Len(s.mon) \in Nat
        /\ Len(t.mon) = Len(s.mon) + 1
        /\ \A k \in 1..Len(s.mon) : t.mon[k] = s.mon[k]
        /\ t.mon[Len(s.mon) + 1] = m
    BY <1>2, AppendSeq
  <1>4. \A k \in 1..Len(t.mon) : k \in 1..Len(s.mon) \/ k = Len(s.mon) + 1
    BY <1>3
  <1>5. Understood(t.mon)
    BY <1>2, <1>3, <1>4 DEF Understood
  <1>6. Flow(t)
    BY <1>1, <1>5, OneScanSame DEF Flow
  <1>7. Extends(s.mon, t.mon)
    BY <1>3, <1>4 DEF Extends
  <1>8. \A op : InWork(s, op) <=> InWork(t, op)
    BY DEF InWork
  <1> QED
    BY <1>6, <1>7, <1>8 DEF Follows

LEMMA KernelKeeps ==
    ASSUME NEW s, Wide(s), NEW slot, NEW tcr
    PROVE  Keeps(s, KernelAdds(s, slot, tcr)) /\ Keeps(s, KernelDels(s, slot))
  <1> DEFINE a == [s EXCEPT !.kern[slot] = Decoded[tcr],
                            !.mon = Append(@, [op |-> "NEW", slot |-> slot, tcr |-> Decoded[tcr]])]
             d == [s EXCEPT !.kern[slot] = NoTcr,
                            !.mon = Append(@, [op |-> "DEL", slot |-> slot,
                                               tcr |-> s.kern[slot]])]
  <1>1. /\ Wide(a) /\ SameObjects(s, a)
        /\ a.mon = Append(s.mon, [op |-> "NEW", slot |-> slot, tcr |-> Decoded[tcr]])
        /\ a.fault = s.fault /\ a.current = s.current /\ a.work = s.work /\ a.dump = s.dump
    BY DEF Wide, Field, SameObjects
  <1>2. /\ Wide(d) /\ SameObjects(s, d)
        /\ d.mon = Append(s.mon, [op |-> "DEL", slot |-> slot, tcr |-> s.kern[slot]])
        /\ d.fault = s.fault /\ d.current = s.current /\ d.work = s.work /\ d.dump = s.dump
    BY DEF Wide, Field, SameObjects
  <1>3. KernelAdds(s, slot, tcr) \in {s, a} /\ KernelDels(s, slot) \in {s, d}
    BY DEF KernelAdds, KernelGets, KernelDels
  <1> HIDE DEF a, d
  <1>4. Keeps(s, a)
    BY <1>1, AnnounceKeeps
  <1>5. Keeps(s, d)
    BY <1>2, AnnounceKeeps
  <1> QED
    BY <1>3, <1>4, <1>5, KeepsReflexive

LEMMA ExecuteKeeps ==
    ASSUME NEW s, Wide(s), NEW op \in {"install", "uninstall"}, NEW r
    PROVE  Keeps(s, tc_action_execute(s, op, r))
  <1> DEFINE p == State(s, r, "PENDING")
             slot == s.rule[r].slot
  <1>1. Keeps(s, p) /\ Wide(p)
    BY StateKeeps, KeepsWide
  <1>2. Keeps(s, Fails(s, "pre_install")) /\ Keeps(s, Fails(s, "freed want"))
    BY FailsKeeps
  <1>3. \A tcr : Keeps(s, KernelAdds(p, slot, tcr)) /\ Wide(KernelAdds(p, slot, tcr))
                 /\ Keeps(s, KernelDels(p, slot)) /\ Wide(KernelDels(p, slot))
    BY <1>1, KernelKeeps, KeepsTransitive, KeepsWide
  <1>4. \A tcr : Keeps(s, Unref(KernelAdds(p, slot, tcr), r))
                 /\ Keeps(s, Unref(KernelDels(p, slot), r))
    BY <1>3, UnrefKeeps, KeepsTransitive
  <1> QED
    BY <1>2, <1>4 DEF tc_action_execute

\* The next request is taken from the queue.
LEMMA TakeKeeps ==
    ASSUME NEW s, Wide(s), s.current = "none", s.work # <<>>, NEW b, Wide(b),
           b.work = Tail(s.work), b.current = Head(s.work).op,
           b.fault = s.fault, b.mon = s.mon,
           b.dump = s.dump \/ b.current = "filters", SameObjects(s, b)
    PROVE  Keeps(s, b)
  <1>1. SUFFICES ASSUME Flow(s) PROVE Flow(b) /\ Follows(s, b)
    BY DEF Keeps, Flows
  <1>2. IsSeq(s.work)
    BY <1>1 DEF Flow
  <1>3. /\ IsSeq(b.work)
        /\ Len(s.work) \in Nat \ {0}
        /\ Len(b.work) = Len(s.work) - 1
        /\ \A k \in 1..Len(b.work) : b.work[k] = s.work[k + 1]
        /\ b.current = s.work[1].op
    BY <1>2, TailSeq
  <1>4. \A k \in 1..Len(s.work) : k = 1 \/ (k - 1 \in 1..Len(b.work) /\ (k - 1) + 1 = k)
    BY <1>3
  <1>5. \A k \in 1..Len(s.work) : k = 1 \/ (k - 1 \in 1..Len(b.work) /\ b.work[k - 1] = s.work[k])
    BY <1>3, <1>4
  <1>6. ASSUME NEW op, InWork(s, op) PROVE b.current = op \/ InWork(b, op)
    <2>1. PICK k \in 1..Len(s.work) : s.work[k].op = op
      BY <1>6 DEF InWork
    <2> QED
      BY <1>3, <1>5, <2>1 DEF InWork
  <1>7. s.dump = <<>> /\ Understood(s.mon) /\ OneScan(s)
    BY <1>1 DEF Flow, Scans
  <1>8. Understood(<<>>)
    BY DEF Understood, IsSeq
  <1>11. OneScan(b)
    <2>1. \A k \in 1..Len(b.work) : k + 1 \in 1..Len(s.work) /\ k + 1 # 1
      BY <1>3
    <2>2. 1 \in 1..Len(s.work)
      BY <1>3
    <2>3. \A j, k \in 1..Len(b.work) : j + 1 = k + 1 => j = k
      BY <1>3
    <2>4. ASSUME b.current \in Scans PROVE \A op \in Scans : ~InWork(b, op)
      BY <1>3, <1>7, <2>1, <2>2, <2>4 DEF OneScan, InWork
    <2>5. \A j, k \in 1..Len(b.work) : b.work[j].op \in Scans /\ b.work[k].op \in Scans => j = k
      BY <1>3, <1>7, <2>1, <2>3 DEF OneScan
    <2> QED
      BY <2>4, <2>5 DEF OneScan
  <1>9. Flow(b)
    BY <1>3, <1>7, <1>8, <1>11 DEF Flow, Scans
  <1>10. Extends(s.mon, b.mon)
    BY <1>7 DEF Understood, IsSeq, Extends
  <1> QED
    BY <1>6, <1>9, <1>10 DEF Follows

LEMMA KickKeeps ==
    ASSUME NEW s, Wide(s)
    PROVE  Keeps(s, Kick(s))
  <1>1. CASE s.current # "none" \/ s.work = <<>>
    <2>1. Kick(s) = s
      BY <1>1 DEF Kick
    <2> QED
      BY <2>1, KeepsReflexive
  <1>2. CASE ~(s.current # "none" \/ s.work = <<>>)
    <2> DEFINE w == Head(s.work)
               b == [s EXCEPT !.work = Tail(@), !.current = w.op]
               f == [b EXCEPT !.dump = Filters(b.kern)]
    <2>1. Wide(b) /\ b.work = Tail(s.work) /\ b.current = w.op /\ b.fault = s.fault
          /\ b.mon = s.mon /\ b.dump = s.dump /\ SameObjects(s, b)
      BY DEF Wide, Field, SameObjects
    <2>2. Wide(f) /\ f.work = Tail(s.work) /\ f.current = w.op /\ f.fault = s.fault
          /\ f.mon = s.mon /\ SameObjects(s, f)
      <3> HIDE DEF b
      <3> QED
        BY <2>1 DEF Wide, Field, SameObjects
    <2>3. Kick(s) = CASE w.op = "filters" -> f
                      [] w.op \in {"install", "uninstall"} -> tc_action_execute(b, w.op, w.rule)
                      [] OTHER -> b
      BY <1>2 DEF Kick
    <2> HIDE DEF b, f
    <2>4. Keeps(s, b)
      BY <1>2, <2>1, TakeKeeps
    <2>5. ASSUME w.op = "filters" PROVE Keeps(s, f)
      BY <1>2, <2>2, <2>5, TakeKeeps
    <2>6. ASSUME w.op \in {"install", "uninstall"}
          PROVE  Keeps(s, tc_action_execute(b, w.op, w.rule))
      BY <2>1, <2>4, <2>6, ExecuteKeeps, KeepsTransitive
    <2> QED
      BY <2>3, <2>4, <2>5, <2>6
  <1> QED
    BY <1>1, <1>2

LEMMA UpdateAndKickKeeps ==
    ASSUME NEW s, Wide(s), NEW r
    PROVE  Keeps(s, UpdateAndKick(s, r))
  BY UpdateStateKeeps, KickKeeps, KeepsTransitive, KeepsWide DEF UpdateAndKick

\* A rule is unreferenced and the queue goes on.
LEMMA KickUnrefKeeps ==
    ASSUME NEW s, Wide(s), NEW r
    PROVE  Keeps(s, Kick(Unref(s, r)))
  BY UnrefKeeps, KickKeeps, KeepsTransitive, KeepsWide

LEMMA InsertKeeps ==
    ASSUME NEW s, Wide(s), NEW r
    PROVE  Keeps(s, PosInsert(s, r)) /\ Keeps(s, LafInsert(s, r))
  <1>1. SameFlow(s, PosInsert(s, r)) /\ SameObjects(s, PosInsert(s, r))
    BY DEF PosInsert, SameFlow, Wide, Field, SameObjects
  <1>2. SameFlow(s, LafInsert(s, r)) /\ SameObjects(s, LafInsert(s, r))
    BY DEF LafInsert, SameFlow, Wide, Field, SameObjects
  <1> QED
    BY <1>1, <1>2, KeepsSame

LEMMA AllocateKeeps ==
    ASSUME NEW s, Wide(s), NEW r, NEW slot, NEW want, NEW have, NEW refs
    PROVE  Keeps(s, Allocate(s, r, slot, want, have, refs))
  <1>1. /\ SameFlow(s, Allocate(s, r, slot, want, have, refs))
        /\ SameObjects(s, Allocate(s, r, slot, want, have, refs))
    BY DEF Allocate, SameFlow, Wide, Field, SameObjects
  <1> QED
    BY <1>1, KeepsSame

LEMMA FoundUnknownKeeps ==
    ASSUME NEW s, Wide(s), NEW m
    PROVE  Keeps(s, FoundUnknown(s, m))
  <1> DEFINE r == Unallocated(s)
             a == Allocate(s, r, m.slot, NoTcr, m.tcr, 0)
  <1>1. Keeps(s, a) /\ Wide(a)
    BY AllocateKeeps, KeepsWide
  <1>2. FoundUnknown(s, m) = UpdateAndKick(LafInsert(PosInsert(a, r), r), r)
    BY DEF FoundUnknown
  <1> HIDE DEF a, r
  <1>3. Keeps(s, PosInsert(a, r)) /\ Wide(PosInsert(a, r))
    BY <1>1, InsertKeeps, KeepsTransitive, KeepsWide
  <1>4. Keeps(s, LafInsert(PosInsert(a, r), r)) /\ Wide(LafInsert(PosInsert(a, r), r))
    BY <1>3, InsertKeeps, KeepsTransitive, KeepsWide
  <1> QED
    BY <1>2, <1>4, UpdateAndKickKeeps, KeepsTransitive

LEMMA FoundKnownKeeps ==
    ASSUME NEW s, Wide(s), NEW m, NEW r
    PROVE  Keeps(s, FoundKnown(s, m, r))
  <1> DEFINE t == [s EXCEPT !.rule[r].have = m.tcr,
                            !.rule[r].inst = @ \/ s.rule[r].have = NoTcr]
  <1>1. Wide(t) /\ SameFlow(s, t) /\ SameObjects(s, t)
    BY DEF SameFlow, Wide, Field, SameObjects
  <1>2. FoundKnown(s, m, r) = IF s.rule[r].have = m.tcr THEN s ELSE UpdateAndKick(t, r)
    BY DEF FoundKnown
  <1> HIDE DEF t
  <1>3. Keeps(s, UpdateAndKick(t, r))
    BY <1>1, KeepsSame, UpdateAndKickKeeps, KeepsTransitive
  <1> QED
    BY <1>2, <1>3, KeepsReflexive

LEMMA FoundDeletedKeeps ==
    ASSUME NEW s, Wide(s), NEW r
    PROVE  Keeps(s, FoundDeleted(s, r))
  <1> DEFINE d == [Ref(s, r) EXCEPT !.rule[r].inst = FALSE, !.rule[r].have = NoTcr]
             u == IF d.rule[r].want # NoTcr THEN UpdateAndKick(d, r) ELSE d
  <1>1. Keeps(s, Ref(s, r)) /\ Wide(Ref(s, r))
    BY RefKeeps, KeepsWide
  <1>2. Wide(d) /\ SameFlow(Ref(s, r), d) /\ SameObjects(Ref(s, r), d)
    BY <1>1 DEF SameFlow, Wide, Field, SameObjects
  <1>3. FoundDeleted(s, r) = Kick(Unref(u, r))
    BY DEF FoundDeleted
  <1> HIDE DEF d
  <1>4. Keeps(s, d)
    BY <1>1, <1>2, KeepsSame, KeepsTransitive
  <1>5. Keeps(d, u) /\ Wide(u)
    BY <1>2, UpdateAndKickKeeps, KeepsReflexive, KeepsWide
  <1> HIDE DEF u
  <1> QED
    BY <1>3, <1>4, <1>5, KickUnrefKeeps, KeepsTransitive

LEMMA FoundKeeps ==
    ASSUME NEW s, Wide(s), NEW m, m.op \in {"NEW", "DEL"}
    PROVE  Keeps(s, obj_rule_netlink_found(s, m))
  <1> DEFINE r == Subject(s, m)
  <1>1. Keeps(s, FoundDeleted(s, r)) /\ Keeps(s, FoundUnknown(s, m)) /\ Keeps(s, FoundKnown(s, m, r))
    BY FoundDeletedKeeps, FoundUnknownKeeps, FoundKnownKeeps
  <1>2. obj_rule_netlink_found(s, m) \in
            {s, FoundDeleted(s, r), FoundUnknown(s, m), FoundKnown(s, m, r)}
    BY DEF obj_rule_netlink_found
  <1> HIDE DEF r
  <1> QED
    BY <1>1, <1>2, KeepsReflexive

LEMMA OwnKeeps ==
    ASSUME NEW s, Wide(s), NEW o, NEW r
    PROVE  Keeps(s, [s EXCEPT !.own[o] = r]) /\ Wide([s EXCEPT !.own[o] = r])
  <1> DEFINE t == [s EXCEPT !.own[o] = r]
  <1>1. Wide(t) /\ SameFlow(s, t) /\ SameObjects(s, t)
    BY DEF SameFlow, Wide, Field, SameObjects
  <1> QED
    BY <1>1, KeepsSame

LEMMA ReserveChainKeeps ==
    ASSUME NEW s, Wide(s), NEW slot
    PROVE  Keeps(s, ReserveChain(s, slot))
  <1> DEFINE t == [s EXCEPT !.chains = @ \union {slot}]
  <1>1. Wide(t) /\ SameFlow(s, t) /\ SameObjects(s, t)
    BY DEF SameFlow, Wide, Field, SameObjects
  <1>2. ReserveChain(s, slot) \in {s, t}
    BY DEF ReserveChain
  <1> HIDE DEF t
  <1> QED
    BY <1>1, <1>2, KeepsSame, KeepsReflexive

LEMMA PrimeRequestKeeps ==
    ASSUME NEW s, Wide(s), NEW o, NEW tcr
    PROVE  Keeps(s, obj_rule_prime_request(s, o, tcr))
  <1> DEFINE r == Requested(s, tcr)
             slot == sched_basic_place(s, o)
             a == [s EXCEPT !.rule[r].refs = @ + 2, !.rule[r].want = tcr,
                            !.rule[r].laf = FALSE, !.own[o] = r]
             w == [s EXCEPT !.own[o] = r]
             c == ReserveChain(w, slot)
             n == Allocate(c, r, slot, tcr, NoTcr, 1)
  <1>1. Wide(a) /\ SameFlow(s, a) /\ SameObjects(s, a)
    BY DEF SameFlow, Wide, Field, SameObjects
  <1>2. obj_rule_prime_request(s, o, tcr) \in {a, PosInsert(n, r)}
    BY DEF obj_rule_prime_request
  <1>3. Keeps(s, w) /\ Wide(w)
    BY OwnKeeps
  <1> HIDE DEF r, slot, a, w
  <1>4. Keeps(s, a)
    BY <1>1, KeepsSame
  <1>5. Keeps(s, c) /\ Wide(c)
    BY <1>3, ReserveChainKeeps, KeepsTransitive, KeepsWide
  <1> HIDE DEF c
  <1>6. Keeps(s, n) /\ Wide(n)
    BY <1>5, AllocateKeeps, KeepsTransitive, KeepsWide
  <1> HIDE DEF n
  <1>7. Keeps(s, PosInsert(n, r))
    BY <1>6, InsertKeeps, KeepsTransitive
  <1> QED
    BY <1>2, <1>4, <1>7

LEMMA RequestKeeps ==
    ASSUME NEW s, Wide(s), NEW o, NEW tcr
    PROVE  Keeps(s, obj_rule_request(s, o, tcr))
  BY PrimeRequestKeeps, UpdateAndKickKeeps, KeepsTransitive, KeepsWide DEF obj_rule_request

LEMMA DropKeeps ==
    ASSUME NEW s, Wide(s), NEW o
    PROVE  Keeps(s, Drop(s, o)) /\ Keeps(s, DropIfAny(s, o))
  <1> DEFINE t == [s EXCEPT !.own[o] = NoRule]
  <1>1. Keeps(s, t) /\ Wide(t)
    BY OwnKeeps
  <1>2. Drop(s, o) = Kick(Unref(t, s.own[o]))
    BY DEF Drop
  <1> HIDE DEF t
  <1>3. Keeps(s, Drop(s, o))
    BY <1>1, <1>2, KickUnrefKeeps, KeepsTransitive
  <1> QED
    BY <1>3, KeepsReflexive DEF DropIfAny

\* A scan waits for its turn.
Scheduled(s, op) == [s EXCEPT !.work = Append(@, Change(op, NoRule))]

LEMMA ScheduledWaits ==
    ASSUME NEW s, Wide(s), NEW op \in Scans
    PROVE  LET t == Scheduled(s, op) IN
           /\ Wide(t) /\ SameObjects(s, t) /\ t.fault = s.fault /\ t.current = s.current
           /\ t.mon = s.mon /\ t.dump = s.dump
           /\ Schedule(s, op) = Kick(t)
           /\ Flow(s) /\ NoScan(s) => Flow(t) /\ InWork(t, op)
  <1> DEFINE w == Change(op, NoRule)
             t == Scheduled(s, op)
  <1>1. Wide(t) /\ t.work = Append(s.work, w) /\ t.fault = s.fault /\ t.current = s.current
        /\ t.mon = s.mon /\ t.dump = s.dump /\ SameObjects(s, t)
    BY DEF Wide, Field, SameObjects, Scheduled
  <1>2. Schedule(s, op) = Kick(t) /\ w.op = op
    BY DEF Schedule, Change, Scheduled
  <1> HIDE DEF t, w
  <1>3. ASSUME Flow(s), NoScan(s) PROVE Flow(t) /\ InWork(t, op)
    BY <1>1, <1>2, <1>3, AppendKeeps DEF Keeps, Flows
  <1> QED
    BY <1>1, <1>2, <1>3 DEF t

LEMMA ChainsFoundKeeps ==
    ASSUME NEW s, Wide(s)
    PROVE  Keeps(s, ChainsFound(s))
  <1>1. SameFlow(s, ChainsFound(s)) /\ SameObjects(s, ChainsFound(s))
    BY DEF ChainsFound, SameFlow, Wide, Field, SameObjects
  <1> QED
    BY <1>1, KeepsSame

-----------------------------------------------------------------------------
(* What ObjGraph does with rules. *)

\* A walk each step of which keeps the objects.
LEMMA WalkKeeps ==
    ASSUME NEW m \in Nat, NEW w, Wide(w[0]),
           \A k \in 1..m : Wide(w[k - 1]) /\ SameObjects(w[0], w[k - 1]) => Keeps(w[k - 1], w[k])
    PROVE  Keeps(w[0], w[m])
  <1> DEFINE Far == {k \in Nat : k <= m => Keeps(w[0], w[k])}
  <1>1. 0 \in Far
    BY KeepsReflexive
  <1>2. ASSUME NEW k \in Nat, k \in Far PROVE k + 1 \in Far
    <2>1. SUFFICES ASSUME k + 1 <= m PROVE Keeps(w[0], w[k + 1])
      OBVIOUS
    <2>2. Keeps(w[0], w[k])
      BY <1>2, <2>1
    <2>3. k + 1 \in 1..m /\ (k + 1) - 1 = k
      BY <2>1
    <2>4. Wide(w[k]) /\ SameObjects(w[0], w[k])
      BY <2>2 DEF Keeps, Flows
    <2>5. Keeps(w[k], w[k + 1])
      BY <2>3, <2>4
    <2> QED
      BY <2>2, <2>5, KeepsTransitive
  <1>3. \A k \in Nat : k \in Far
    <2> HIDE DEF Far
    <2> QED
      BY <1>1, <1>2, SetInduction
  <1> QED
    BY <1>3

\* Loops over the routes of a target end.
Countable(s) == \A n \in Neigh : Len(s.target[n].routes) \in Nat

LEMMA PointViaKeeps ==
    ASSUME NEW s, Wide(s), NEW d
    PROVE  Keeps(s, PointVia(s, d))
  <1> DEFINE tr == s.own[s.route[d].target]
  <1>1. Keeps(s, Ref(s, tr)) /\ Wide(Ref(s, tr))
    BY RefKeeps, KeepsWide
  <1>2. Keeps(Ref(s, tr), [Ref(s, tr) EXCEPT !.own[Via[d]] = tr])
    BY <1>1, OwnKeeps
  <1>3. PointVia(s, d) = [Ref(s, tr) EXCEPT !.own[Via[d]] = tr]
    BY DEF PointVia
  <1> QED
    BY <1>1, <1>2, <1>3, KeepsTransitive

LEMMA ReplaceRouteRuleKeeps ==
    ASSUME NEW s, Wide(s), NEW d
    PROVE  Keeps(s, ReplaceRouteRule(s, d))
  <1> DEFINE old == s.own[d]
             oldVia == s.own[Via[d]]
             held == Ref(Ref(s, old), oldVia)
             via == IF oldVia = s.own[s.route[d].target] THEN held
                    ELSE PointVia(Unref(held, oldVia), d)
             new == obj_rule_request(Unref(via, old), d, Goto(s, d))
  <1>1. ReplaceRouteRule(s, d) = Kick(Unref(Kick(Unref(new, oldVia)), old))
    BY DEF ReplaceRouteRule
  <1>2. Keeps(s, Ref(s, old)) /\ Wide(Ref(s, old))
    BY RefKeeps, KeepsWide
  <1>3. Keeps(s, held) /\ Wide(held)
    BY <1>2, RefKeeps, KeepsTransitive, KeepsWide
  <1> HIDE DEF old, oldVia, held
  <1>4. Keeps(s, Unref(held, oldVia)) /\ Wide(Unref(held, oldVia))
    BY <1>3, UnrefKeeps, KeepsTransitive, KeepsWide
  <1>5. Keeps(s, PointVia(Unref(held, oldVia), d))
    BY <1>4, PointViaKeeps, KeepsTransitive
  <1>6. Keeps(s, via) /\ Wide(via)
    BY <1>3, <1>5, KeepsWide
  <1> HIDE DEF via
  <1>7. Keeps(s, Unref(via, old)) /\ Wide(Unref(via, old))
    BY <1>6, UnrefKeeps, KeepsTransitive, KeepsWide
  <1>8. Keeps(s, new) /\ Wide(new)
    BY <1>7, RequestKeeps, KeepsTransitive, KeepsWide
  <1> HIDE DEF new
  <1>9. Keeps(s, Kick(Unref(new, oldVia))) /\ Wide(Kick(Unref(new, oldVia)))
    BY <1>8, KickUnrefKeeps, KeepsTransitive, KeepsWide
  <1> QED
    BY <1>1, <1>9, KickUnrefKeeps, KeepsTransitive

LEMMA RouteInstallKeeps ==
    ASSUME NEW s, Wide(s), NEW d
    PROVE  Keeps(s, obj_route_install(s, d))
  <1>1. Keeps(s, s) /\ Keeps(s, Fails(s, "obj_route_prepare_rule"))
    BY KeepsReflexive, FailsKeeps
  <1>2. Keeps(s, PointVia(s, d)) /\ Wide(PointVia(s, d))
    BY PointViaKeeps, KeepsWide
  <1>3. Keeps(s, obj_rule_request(PointVia(s, d), d, Goto(s, d)))
    BY <1>2, RequestKeeps, KeepsTransitive
  <1>4. Keeps(s, ReplaceRouteRule(s, d))
    BY ReplaceRouteRuleKeeps
  <1> QED
    BY <1>1, <1>3, <1>4 DEF obj_route_install

\* The states the loop over the routes of a target goes through: w[k] when k of
\* them have been told.
ToldPath(s, n, w) ==
    LET routes == s.target[n].routes IN
    /\ w[0] = s
    /\ \A k \in 1..Len(routes) : w[k] = obj_route_install(w[k - 1], routes[k])
    /\ obj_target_notify_routes(s, n) = IF IsOK(s, s.own[n]) THEN w[Len(routes)] ELSE s

LEMMA NotifyWalks ==
    ASSUME NEW s, NEW n, Len(s.target[n].routes) \in Nat
    PROVE  \E w : ToldPath(s, n, w)
  <1> DEFINE q == s.target[n].routes
             Body(g, i) == [k \in 0..i |-> IF k = 0 THEN s ELSE obj_route_install(g[k - 1], q[k])]
             Far == {i \in Nat : \E g : g = Body(g, i)}
             told == CHOOSE g : g = Body(g, Len(q))
  <1>1. 0 \in Far
    <2> DEFINE g == [k \in 0..0 |-> s]
    <2>1. g = Body(g, 0)
      OBVIOUS
    <2> QED
      BY <2>1
  <1>2. ASSUME NEW i \in Nat, i \in Far PROVE i + 1 \in Far
    <2>1. PICK f : f = Body(f, i)
      BY <1>2
    <2> DEFINE g == [k \in 0..(i + 1) |->
                        IF k = i + 1 THEN obj_route_install(f[i], q[k]) ELSE f[k]]
    <2>2. ASSUME NEW k \in 0..(i + 1)
          PROVE  g[k] = IF k = 0 THEN s ELSE obj_route_install(g[k - 1], q[k])
      <3>1. CASE k = i + 1
        <4>1. k # 0 /\ k - 1 = i /\ i \in 0..(i + 1) /\ i # i + 1
          BY <3>1
        <4> QED
          BY <3>1, <4>1
      <3>2. CASE k # i + 1
        <4>1. k \in 0..i /\ (k # 0 => k - 1 \in 0..(i + 1) /\ k - 1 # i + 1)
          BY <3>2
        <4>2. f[k] = IF k = 0 THEN s ELSE obj_route_install(f[k - 1], q[k])
          BY <2>1, <4>1
        <4> QED
          BY <3>2, <4>1, <4>2
      <3> QED
        BY <3>1, <3>2
    <2>3. g = Body(g, i + 1)
      <3>1. g = [k \in 0..(i + 1) |-> g[k]]
        OBVIOUS
      <3> HIDE DEF g
      <3> QED
        BY <2>2, <3>1
    <2>4. \E h : h = Body(h, i + 1)
      <3> HIDE DEF g, Body
      <3> QED
        BY <2>3
    <2> HIDE DEF g, Body
    <2> QED
      BY <2>4
  <1>3. \A i \in Nat : i \in Far
    <2> HIDE DEF Far
    <2> QED
      BY <1>1, <1>2, SetInduction
  <1>4. told = Body(told, Len(q))
    <2> HIDE DEF Body
    <2> QED
      BY <1>3
  <1>5. obj_target_notify_routes(s, n) = IF IsOK(s, s.own[n]) THEN told[Len(q)] ELSE s
    BY DEF obj_target_notify_routes
  <1> HIDE DEF told
  <1>6. told[0] = s /\ \A k \in 1..Len(q) : told[k] = obj_route_install(told[k - 1], q[k])
    <2> HIDE DEF q
    <2>1. ASSUME NEW k \in 0..Len(q)
          PROVE  told[k] = IF k = 0 THEN s ELSE obj_route_install(told[k - 1], q[k])
      BY <1>4, Zenon
    <2>2. 0 \in 0..Len(q) /\ \A k \in 1..Len(q) : k \in 0..Len(q) /\ k # 0
      OBVIOUS
    <2> QED
      BY <2>1, <2>2
  <1> HIDE DEF Body
  <1>7. ToldPath(s, n, told)
    BY <1>5, <1>6 DEF ToldPath
  <1> QED
    BY <1>7

LEMMA NotifyRoutesKeeps ==
    ASSUME NEW s, Wide(s), Countable(s), NEW n \in Neigh
    PROVE  Keeps(s, obj_target_notify_routes(s, n))
  <1> DEFINE m == Len(s.target[n].routes)
  <1>1. m \in Nat
    BY DEF Countable
  <1>2. PICK w : ToldPath(s, n, w)
    BY <1>1, NotifyWalks
  <1>3. w[0] = s /\ \A k \in 1..m : Wide(w[k - 1]) => Keeps(w[k - 1], w[k])
    BY <1>2, RouteInstallKeeps DEF ToldPath
  <1>4. obj_target_notify_routes(s, n) \in {s, w[m]}
    BY <1>2 DEF ToldPath
  <1> HIDE DEF m
  <1>5. Keeps(s, w[m])
    BY <1>1, <1>3, WalkKeeps
  <1> QED
    BY <1>4, <1>5, KeepsReflexive

LEMMA NotifyKeeps ==
    ASSUME NEW s, Wide(s), Countable(s), NEW r
    PROVE  Keeps(s, NotifyIfOK(s, r))
  <1>1. CASE ~(IsOK(s, r) /\ \E n \in Target : s.own[n] = r)
    BY <1>1, KeepsReflexive DEF NotifyIfOK
  <1>2. CASE IsOK(s, r) /\ \E n \in Target : s.own[n] = r
    <2> DEFINE n == CHOOSE n \in Target : s.own[n] = r
    <2>1. n \in Neigh
      BY <1>2 DEF Neigh
    <2>2. NotifyIfOK(s, r) = obj_target_notify_routes(s, n)
      BY <1>2 DEF NotifyIfOK
    <2> HIDE DEF n
    <2> QED
      BY <2>1, <2>2, NotifyRoutesKeeps
  <1> QED
    BY <1>1, <1>2

LEMMA KeepsCountable ==
    ASSUME NEW s, NEW t, Keeps(s, t), Countable(s)
    PROVE  Wide(t) /\ Countable(t)
  BY DEF Keeps, Flows, SameObjects, Countable

\* The rule of a target is replaced, or let go.
LEMMA SetRuleKeeps ==
    ASSUME NEW s, Wide(s), Countable(s), NEW n, NEW tcr
    PROVE  Keeps(s, obj_target_set_rule(s, n, tcr))
  <1> DEFINE unset == IF s.own[n] # NoRule THEN Drop(s, n) ELSE s
             new == obj_rule_request(unset, n, tcr)
  <1>1. obj_target_set_rule(s, n, tcr) = IF tcr = NoTcr THEN unset ELSE NotifyOwn(new, n)
    BY DEF obj_target_set_rule
  <1>2. Keeps(s, unset) /\ Wide(unset) /\ Countable(unset)
    BY DropKeeps, KeepsReflexive, KeepsCountable
  <1> HIDE DEF unset
  <1>3. Keeps(s, new) /\ Wide(new) /\ Countable(new)
    BY <1>2, RequestKeeps, KeepsTransitive, KeepsCountable
  <1> HIDE DEF new
  <1>4. Keeps(s, NotifyOwn(new, n))
    BY <1>3, NotifyKeeps, KeepsTransitive DEF NotifyOwn
  <1> QED
    BY <1>1, <1>2, <1>4

LEMMA TargetInstallKeeps ==
    ASSUME NEW s, Wide(s), Countable(s), NEW n
    PROVE  Keeps(s, obj_target_install(s, n)) /\ Keeps(s, NeighUpdate(s, n))
  BY SetRuleKeeps, KeepsReflexive DEF obj_target_install, NeighUpdate

LEMMA InstallIfReadyKeeps ==
    ASSUME NEW s, Wide(s), NEW d
    PROVE  Keeps(s, InstallIfReady(s, d))
  BY RouteInstallKeeps, KeepsReflexive DEF InstallIfReady

LEMMA FilterKeeps ==
    ASSUME NEW s, Wide(s), Countable(s), NEW m, m.op \in {"NEW", "DEL"}
    PROVE  Keeps(s, decode_filter(s, m))
  <1> DEFINE f == obj_rule_netlink_found(s, m)
  <1>1. \E r : decode_filter(s, m) = NotifyIfOK(f, r)
    BY DEF decode_filter
  <1>2. Keeps(s, f) /\ Wide(f) /\ Countable(f)
    BY FoundKeeps, KeepsCountable
  <1> HIDE DEF f
  <1> QED
    BY <1>1, <1>2, NotifyKeeps, KeepsTransitive

LEMMA VisitSlotKeeps ==
    ASSUME NEW s, Wide(s), Countable(s), NEW slot
    PROVE  Keeps(s, VisitSlot(s, slot))
  <1> DEFINE r == obj_rule_pos_lookup(s, slot)
  <1>1. VisitSlot(s, slot) \in {s, NotifyIfOK(UpdateAndKick(s, r), r)}
    BY DEF VisitSlot
  <1> HIDE DEF r
  <1>2. Keeps(s, UpdateAndKick(s, r)) /\ Wide(UpdateAndKick(s, r)) /\ Countable(UpdateAndKick(s, r))
    BY UpdateAndKickKeeps, KeepsCountable
  <1>3. Keeps(s, NotifyIfOK(UpdateAndKick(s, r), r))
    BY <1>2, NotifyKeeps, KeepsTransitive
  <1> QED
    BY <1>1, <1>3, KeepsReflexive

\* The states the walk over the positional tree goes through.
PinPath(s, i0, w) ==
    /\ w[0] = [s EXCEPT !.pin = i0]
    /\ \A k \in 1..Width : w[k] = VisitSlot(w[k - 1], k - 1)
    /\ WalkPinned(s, i0) = w[Width]

LEMMA PinWalks ==
    ASSUME NEW s, NEW i0, Width \in Nat
    PROVE  \E w : PinPath(s, i0, w)
  <1> DEFINE Body(g, i) == [k \in 0..i |-> IF k = 0 THEN [s EXCEPT !.pin = i0] ELSE VisitSlot(g[k - 1], k - 1)]
             Far == {i \in Nat : \E g : g = Body(g, i)}
             fold == CHOOSE g : g = Body(g, Width)
  <1>1. 0 \in Far
    <2> DEFINE g == [k \in 0..0 |-> [s EXCEPT !.pin = i0]]
    <2>1. g = Body(g, 0)
      OBVIOUS
    <2> QED
      BY <2>1
  <1>2. ASSUME NEW i \in Nat, i \in Far PROVE i + 1 \in Far
    <2>1. PICK f : f = Body(f, i)
      BY <1>2
    <2> DEFINE g == [k \in 0..(i + 1) |-> IF k = i + 1 THEN VisitSlot(f[i], k - 1) ELSE f[k]]
    <2>2. ASSUME NEW k \in 0..(i + 1)
          PROVE  g[k] = IF k = 0 THEN [s EXCEPT !.pin = i0] ELSE VisitSlot(g[k - 1], k - 1)
      <3>1. CASE k = i + 1
        <4>1. k # 0 /\ k - 1 = i /\ i \in 0..(i + 1) /\ i # i + 1
          BY <3>1
        <4> QED
          BY <3>1, <4>1
      <3>2. CASE k # i + 1
        <4>1. k \in 0..i /\ (k # 0 => k - 1 \in 0..(i + 1) /\ k - 1 # i + 1)
          BY <3>2
        <4>2. f[k] = IF k = 0 THEN [s EXCEPT !.pin = i0] ELSE VisitSlot(f[k - 1], k - 1)
          BY <2>1, <4>1
        <4> QED
          BY <3>2, <4>1, <4>2
      <3> QED
        BY <3>1, <3>2
    <2>3. g = Body(g, i + 1)
      <3>1. g = [k \in 0..(i + 1) |-> g[k]]
        OBVIOUS
      <3> HIDE DEF g
      <3> QED
        BY <2>2, <3>1
    <2>4. \E h : h = Body(h, i + 1)
      <3> HIDE DEF g, Body
      <3> QED
        BY <2>3
    <2> HIDE DEF g, Body
    <2> QED
      BY <2>4
  <1>3. \A i \in Nat : i \in Far
    <2> HIDE DEF Far
    <2> QED
      BY <1>1, <1>2, SetInduction
  <1>4. fold = Body(fold, Width)
    <2> HIDE DEF Body
    <2> QED
      BY <1>3
  <1>5. WalkPinned(s, i0) = fold[Width]
    BY DEF WalkPinned
  <1> HIDE DEF fold
  <1>6. fold[0] = [s EXCEPT !.pin = i0] /\ \A k \in 1..Width : fold[k] = VisitSlot(fold[k - 1], k - 1)
    BY <1>4
  <1> HIDE DEF Body
  <1>7. PinPath(s, i0, fold)
    BY <1>5, <1>6 DEF PinPath
  <1> QED
    BY <1>7

LEMMA WalkPinnedKeeps ==
    ASSUME NEW s, Wide(s), Countable(s), NEW i
    PROVE  Keeps(s, WalkPinned(s, i))
  <1> DEFINE p == [s EXCEPT !.pin = i]
  <1>1. Width \in Nat
    BY SlotAssumption
  <1>2. PICK w : PinPath(s, i, w)
    BY <1>1, PinWalks
  <1>3. Wide(p) /\ SameFlow(s, p) /\ SameObjects(s, p)
    BY DEF SameFlow, Wide, Field, SameObjects
  <1>4. w[0] = p /\ WalkPinned(s, i) = w[Width]
        /\ \A k \in 1..Width : w[k] = VisitSlot(w[k - 1], k - 1)
    BY <1>2 DEF PinPath
  <1> HIDE DEF p
  <1>5. Keeps(s, p) /\ Wide(p) /\ Countable(p)
    BY <1>3, KeepsSame, KeepsCountable
  <1>6. \A k \in 1..Width : Wide(w[k - 1]) /\ SameObjects(p, w[k - 1]) => Keeps(w[k - 1], w[k])
    <2>1. \A t : SameObjects(p, t) => Countable(t)
      BY <1>5 DEF SameObjects, Countable
    <2> QED
      BY <1>4, <2>1, VisitSlotKeeps
  <1>7. Keeps(p, w[Width])
    BY <1>1, <1>4, <1>5, <1>6, WalkKeeps
  <1> QED
    BY <1>4, <1>5, <1>7, KeepsTransitive

LEMMA RemovePinKeeps ==
    ASSUME NEW s, Wide(s), Countable(s)
    PROVE  Keeps(s, RemovePin(s))
  <1> DEFINE a == WalkPinned(s, 0)
             b == WalkPinned(a, 1)
             c == WalkPinned(b, 2)
             d == WalkPinned(c, 3)
  <1>1. RemovePin(s) \in {s, d}
    BY DEF RemovePin
  <1>2. Keeps(s, a) /\ Wide(a) /\ Countable(a)
    BY WalkPinnedKeeps, KeepsCountable
  <1> HIDE DEF a
  <1>3. Keeps(s, b) /\ Wide(b) /\ Countable(b)
    BY <1>2, WalkPinnedKeeps, KeepsCountable, KeepsTransitive
  <1> HIDE DEF b
  <1>4. Keeps(s, c) /\ Wide(c) /\ Countable(c)
    BY <1>3, WalkPinnedKeeps, KeepsCountable, KeepsTransitive
  <1> HIDE DEF c
  <1>5. Keeps(s, d)
    BY <1>4, WalkPinnedKeeps, KeepsTransitive
  <1> HIDE DEF d
  <1> QED
    BY <1>1, <1>5, KeepsReflexive

-----------------------------------------------------------------------------
(* Lists and counts. *)

LEMMA FiniteSets ==
    /\ IsFiniteSet(Neigh) /\ IsFiniteSet(Route) /\ IsFiniteSet(Gateway)
    /\ None \notin Neigh
  BY OwnerAssumption, GraphAssumption DEF Neigh

\* list_add_tail.
LEMMA ListsAppend ==
    ASSUME NEW q \in Seq(Route), NEW S, Lists(q, S), NEW d \in Route, d \notin S
    PROVE  /\ Append(q, d) \in Seq(Route)
           /\ Lists(Append(q, d), S \union {d})
  <1> DEFINE a == Append(q, d)
  <1>1. /\ a \in Seq(Route)
        /\ Len(a) = Len(q) + 1 /\ Len(q) \in Nat
        /\ \A k \in 1..Len(q) : a[k] = q[k]
        /\ a[Len(q) + 1] = d
    BY AppendPoints
  <1> HIDE DEF a
  <1>2. \A k \in 1..Len(a) : k \in 1..Len(q) \/ k = Len(q) + 1
    BY <1>1
  <1>3. \A k \in 1..Len(q) : k \in 1..Len(a)
    BY <1>1
  <1>4. Len(q) + 1 \in 1..Len(a)
    BY <1>1
  <1>5. Lists(a, S \union {d})
    <2>1. \A k \in 1..Len(a) : a[k] \in S \union {d}
      BY <1>1, <1>2 DEF Lists
    <2>2. \A e \in S \union {d} : \E k \in 1..Len(a) : a[k] = e
      BY <1>1, <1>3, <1>4 DEF Lists
    <2>3. \A j, k \in 1..Len(a) : a[j] = a[k] => j = k
      BY <1>1, <1>2 DEF Lists
    <2> QED
      BY <2>1, <2>2, <2>3 DEF Lists
  <1> QED
    BY <1>1, <1>5 DEF a

\* Element by element, what list_del leaves.
LEMMA WithoutPoints ==
    ASSUME NEW q \in Seq(Route), NEW i \in 1..Len(q)
    PROVE  LET w == SubSeq(q, 1, i - 1) \o SubSeq(q, i + 1, Len(q)) IN
           /\ w \in Seq(Route)
           /\ Len(w) = Len(q) - 1
           /\ \A k \in 1..(Len(q) - 1) : w[k] = IF k < i THEN q[k] ELSE q[k + 1]
  <1> DEFINE a == SubSeq(q, 1, i - 1)
             b == SubSeq(q, i + 1, Len(q))
  <1>0. Len(q) \in Nat /\ i \in Nat /\ i >= 1 /\ i <= Len(q)
    OBVIOUS
  <1>1. a \in Seq(Route) /\ Len(a) = i - 1 /\ \A k \in 1..(i - 1) : a[k] = q[k]
    <2>1. a \in Seq(Route)
      OBVIOUS
    <2>2. CASE i = 1
      BY <2>1, <2>2
    <2>3. CASE i > 1
      BY <1>0, <2>1, <2>3
    <2> QED
      BY <1>0, <2>2, <2>3
  <1>2. b \in Seq(Route) /\ Len(b) = Len(q) - i /\ \A k \in 1..(Len(q) - i) : b[k] = q[k + i]
    <2>1. b \in Seq(Route)
      OBVIOUS
    <2>2. CASE i = Len(q)
      BY <1>0, <2>1, <2>2
    <2>3. CASE i < Len(q)
      BY <1>0, <2>1, <2>3
    <2> QED
      BY <1>0, <2>2, <2>3
  <1> HIDE DEF a, b
  <1>3. /\ a \o b \in Seq(Route)
        /\ Len(a \o b) = Len(a) + Len(b)
        /\ \A k \in 1..Len(a) : (a \o b)[k] = a[k]
        /\ \A k \in 1..Len(b) : (a \o b)[Len(a) + k] = b[k]
    <2>1. a \in Seq(Route) /\ b \in Seq(Route)
      BY <1>1, <1>2
    <2> QED
      BY <2>1, ConcatPoints
  <1>4. ASSUME NEW k \in 1..(Len(q) - 1)
        PROVE  (a \o b)[k] = IF k < i THEN q[k] ELSE q[k + 1]
    <2>1. CASE k < i
      BY <1>0, <1>1, <1>3, <2>1
    <2>2. CASE ~(k < i)
      <3>1. k - (i - 1) \in 1..Len(b) /\ Len(a) + (k - (i - 1)) = k /\ (k - (i - 1)) + i = k + 1
        BY <1>0, <1>1, <1>2, <2>2
      <3>2. (a \o b)[Len(a) + (k - (i - 1))] = b[k - (i - 1)]
        BY <1>3, <3>1
      <3>3. b[k - (i - 1)] = q[(k - (i - 1)) + i]
        BY <1>2, <3>1
      <3> QED
        BY <2>2, <3>1, <3>2, <3>3
    <2> QED
      BY <2>1, <2>2
  <1>5. /\ a \o b \in Seq(Route)
        /\ Len(a \o b) = Len(q) - 1
        /\ \A k \in 1..(Len(q) - 1) : (a \o b)[k] = IF k < i THEN q[k] ELSE q[k + 1]
    BY <1>0, <1>1, <1>2, <1>3, <1>4
  <1> QED
    BY <1>5 DEF a, b

LEMMA ListsWithout ==
    ASSUME NEW q \in Seq(Route), NEW S, Lists(q, S), NEW d \in S
    PROVE  /\ Without(q, d) \in Seq(Route)
           /\ Lists(Without(q, d), S \ {d})
  <1> DEFINE i == CHOOSE i \in DOMAIN q : q[i] = d
             w == SubSeq(q, 1, i - 1) \o SubSeq(q, i + 1, Len(q))
  <1>1. i \in 1..Len(q) /\ q[i] = d
    BY DEF Lists
  <1>2. Without(q, d) = w
    BY DEF Without, RemoveAt
  <1> HIDE DEF i
  <1>3. /\ w \in Seq(Route)
        /\ Len(w) = Len(q) - 1
        /\ \A k \in 1..(Len(q) - 1) : w[k] = IF k < i THEN q[k] ELSE q[k + 1]
    BY <1>1, WithoutPoints
  <1>4. Len(q) \in Nat /\ i \in Nat
    BY <1>1
  <1> HIDE DEF w
  <1> DEFINE At(k) == IF k < i THEN k ELSE k + 1
  <1>5. \A k \in 1..Len(w) : /\ At(k) \in 1..Len(q)
                             /\ At(k) # i
                             /\ w[k] = q[At(k)]
    BY <1>1, <1>3, <1>4
  <1>6. \A k \in 1..Len(q) : k # i => \E j \in 1..Len(w) : At(j) = k
    <2>1. SUFFICES ASSUME NEW k \in 1..Len(q), k # i PROVE \E j \in 1..Len(w) : At(j) = k
      OBVIOUS
    <2>2. CASE k < i
      <3>1. k \in 1..Len(w) /\ At(k) = k
        BY <1>1, <1>3, <1>4, <2>2
      <3> QED
        BY <3>1
    <2>3. CASE k > i
      <3>1. k - 1 \in 1..Len(w) /\ At(k - 1) = k
        BY <1>1, <1>3, <1>4, <2>3
      <3> QED
        BY <3>1
    <2> QED
      BY <1>4, <2>1, <2>2, <2>3
  <1>7. \A j, k \in 1..Len(w) : At(j) = At(k) => j = k
    BY <1>3, <1>4
  <1> HIDE DEF At
  <1>8. Lists(w, S \ {d})
    <2>1. \A k \in 1..Len(w) : w[k] \in S \ {d}
      BY <1>1, <1>5 DEF Lists
    <2>2. \A e \in S \ {d} : \E k \in 1..Len(w) : w[k] = e
      <3>1. SUFFICES ASSUME NEW e \in S \ {d} PROVE \E k \in 1..Len(w) : w[k] = e
        OBVIOUS
      <3>2. PICK k \in 1..Len(q) : q[k] = e
        BY DEF Lists
      <3>3. k # i
        BY <1>1, <3>2
      <3>4. PICK j \in 1..Len(w) : At(j) = k
        BY <1>6, <3>3
      <3> QED
        BY <1>5, <3>2, <3>4
    <2>3. \A j, k \in 1..Len(w) : w[j] = w[k] => j = k
      BY <1>5, <1>7 DEF Lists
    <2> QED
      BY <2>1, <2>2, <2>3 DEF Lists
  <1> QED
    BY <1>2, <1>3, <1>8

\* A list has as many entries as there are elements.
LEMMA ListsLength ==
    ASSUME NEW q \in Seq(Route), NEW S \in SUBSET Route, Lists(q, S)
    PROVE  Len(q) = Cardinality(S) /\ {q[k] : k \in 1..Len(q)} = S
  <1>1. Len(q) \in Nat
    OBVIOUS
  <1>2. IsFiniteSet(1..Len(q)) /\ Cardinality(1..Len(q)) = Len(q)
    BY <1>1, FS_Interval
  <1>3. q \in [1..Len(q) -> S]
    <2>1. q = [k \in 1..Len(q) |-> q[k]]
      OBVIOUS
    <2> QED
      BY <2>1 DEF Lists
  <1>4. q \in Bijection(1..Len(q), S)
    <2>1. IsInjective(q)
      BY <1>3 DEF Lists, IsInjective
    <2>2. \A e \in S : \E k \in 1..Len(q) : q[k] = e
      BY DEF Lists
    <2> QED
      BY <1>3, <2>1, <2>2 DEF Bijection, Injection, Surjection
  <1>5. ExistsBijection(1..Len(q), S)
    BY <1>4 DEF ExistsBijection
  <1>6. Cardinality(S) = Cardinality(1..Len(q))
    BY <1>2, <1>5, FS_Bijection
  <1> QED
    BY <1>2, <1>6 DEF Lists

\* SetToSeq lists a finite set.
LEMMA SetToSeqLists ==
    ASSUME NEW S, IsFiniteSet(S)
    PROVE  /\ SetToSeq(S) \in Seq(S)
           /\ Lists(SetToSeq(S), S)
           /\ Len(SetToSeq(S)) = Cardinality(S)
           /\ Cardinality(S) \in Nat
  <1> DEFINE m == Cardinality(S)
             P == [1..m -> S]
  <1>1. m \in Nat /\ ExistsBijection(1..m, S)
    BY FS_CardinalityType
  <1>2. \E f \in P : IsInjective(f)
    <2>1. PICK f \in Bijection(1..m, S) : TRUE
      BY <1>1 DEF ExistsBijection
    <2>2. f \in P
      BY <2>1 DEF Bijection, Injection
    <2>3. DOMAIN f = 1..m
      BY <2>2
    <2>4. IsInjective(f)
      BY <2>1, <2>3 DEF Bijection, Injection, IsInjective
    <2> QED
      BY <2>2, <2>4
  <1>3. SetToSeq(S) = CHOOSE f \in P : IsInjective(f)
    BY DEF SetToSeq
  <1> DEFINE q == SetToSeq(S)
  <1> HIDE DEF P, q
  <1>4. q \in P /\ IsInjective(q)
    BY <1>2, <1>3 DEF q
  <1>5. q \in [1..m -> S] /\ DOMAIN q = 1..m
    BY <1>4 DEF P
  <1> HIDE DEF m
  <1>6. q \in Seq(S) /\ Len(q) = m
    BY <1>1, <1>5
  <1>7. IsFiniteSet(1..m) /\ Cardinality(1..m) = m
    BY <1>1, FS_Interval
  <1>8. q \in Injection(1..m, S)
    BY <1>4, <1>5 DEF Injection, IsInjective
  <1>9. q \in Surjection(1..m, S)
    BY <1>7, <1>8, FS_Injection DEF m
  <1>10. Lists(q, S)
    <2>1. \A j, k \in 1..m : q[j] = q[k] => j = k
      BY <1>4, <1>5 DEF IsInjective
    <2>2. \A e \in S : \E k \in 1..m : q[k] = e
      BY <1>9 DEF Surjection
    <2> QED
      BY <1>5, <1>6, <2>1, <2>2 DEF Lists
  <1> QED
    BY <1>1, <1>6, <1>10 DEF q, m

-----------------------------------------------------------------------------
(* The objects.                                                             *)

Fine(s, held, loose) == Wide(s) /\ Objects(s) /\ Counts(s, held, loose)

SameTree(s, t) == t.link = s.link /\ t.neigh = s.neigh

RouteRecord  == [state : ObjState, refs : Nat, target : Neigh \union {None}]
TargetRecord == [refs : 0..1, weak : Nat, routes : Seq(Route)]

Aims(x, n, k)    == [x EXCEPT !.target = n, !.refs = k]
Recounted(x, k, v) == [x EXCEPT !.refs = k, !.state = v]
Carries(y, k, q) == [y EXCEPT !.weak = k, !.routes = q]

LEMMA RouteAims ==
    ASSUME NEW x \in RouteRecord, NEW n, n \in Neigh \/ n = None, NEW k \in Nat
    PROVE  /\ Aims(x, n, k) \in RouteRecord
           /\ Aims(x, n, k).target = n /\ Aims(x, n, k).refs = k
           /\ Aims(x, n, k).state = x.state
  BY DEF RouteRecord, Aims

LEMMA RouteCounted ==
    ASSUME NEW x \in RouteRecord, NEW k \in Nat, NEW v \in ObjState
    PROVE  /\ Recounted(x, k, v) \in RouteRecord
           /\ Recounted(x, k, v).target = x.target /\ Recounted(x, k, v).refs = k
           /\ Recounted(x, k, v).state = v
  BY DEF RouteRecord, Recounted

LEMMA TargetChanged ==
    ASSUME NEW y \in TargetRecord, NEW k \in Nat, NEW q \in Seq(Route)
    PROVE  /\ Carries(y, k, q) \in TargetRecord
           /\ Carries(y, k, q).weak = k /\ Carries(y, k, q).routes = q
           /\ Carries(y, k, q).refs = y.refs
  BY DEF TargetRecord, Carries

LEMMA FineCountable ==
    ASSUME NEW s, Objects(s)
    PROVE  Countable(s)
  BY DEF Objects, Countable

LEMMA FineSame ==
    ASSUME NEW s, NEW t, NEW held, NEW loose, Fine(s, held, loose), Wide(t), SameObjects(s, t)
    PROVE  Fine(t, held, loose)
  <1>1. t.link = s.link /\ t.neigh = s.neigh /\ t.target = s.target /\ t.route = s.route /\ Wide(t)
    BY DEF SameObjects
  <1>2. Objects(t)
    BY <1>1 DEF Fine, Objects
  <1>3. InTree(t) = InTree(s) /\ Orphans(t) = Orphans(s) /\ \A n : Through(t, n) = Through(s, n)
    BY <1>1 DEF InTree, Orphans, Through
  <1>4. LinkCounts(t, loose)
    BY <1>1, <1>3 DEF Fine, Counts, LinkCounts
  <1>5. TargetCounts(t)
    BY <1>1, <1>3 DEF Fine, Counts, TargetCounts
  <1>6. RouteCounts(t, held)
    BY <1>1 DEF Fine, Counts, RouteCounts
  <1> QED
    BY <1>1, <1>2, <1>4, <1>5, <1>6 DEF Fine, Counts

LEMMA FineKept ==
    ASSUME NEW s, NEW t, NEW held, NEW loose, Fine(s, held, loose), Keeps(s, t)
    PROVE  Fine(t, held, loose)
  BY FineSame DEF Keeps, Flows

\* One route changes its target.
LEMMA ThroughAfter ==
    ASSUME NEW s, NEW t, NEW d \in Route,
           \A e \in Route : e # d => t.route[e].target = s.route[e].target, NEW n
    PROVE  Through(t, n) = IF t.route[d].target = n THEN Through(s, n) \union {d}
                           ELSE Through(s, n) \ {d}
  BY DEF Through

LEMMA ThroughFinite ==
    ASSUME NEW s, NEW n
    PROVE  Through(s, n) \in SUBSET Route /\ IsFiniteSet(Through(s, n))
           /\ Cardinality(Through(s, n)) \in Nat
  <1>1. Through(s, n) \in SUBSET Route
    BY DEF Through
  <1> QED
    BY <1>1, FiniteSets, FS_Subset, FS_CardinalityType

LEMMA LinkRoute ==
    ASSUME NEW s, NEW held, NEW loose, Fine(s, held, loose), NEW n \in Neigh, NEW d \in Route,
           s.route[d].target = None, s.target[n].refs = 1
    PROVE  LET t == obj_target_link_route(s, n, d) IN
           Flows(s, t) /\ Fine(t, held, loose) /\ SameTree(s, t)
  <1> DEFINE l == [s EXCEPT !.route[d].target = n, !.route[d].refs = @ + 1,
                            !.target[n].weak = @ + 1,
                            !.target[n].routes = Append(@, d)]
             x == s.route[d]
             y == s.target[n]
             r == Aims(x, n, x.refs + 1)
             o == Carries(y, y.weak + 1, Append(y.routes, d))
  <1>1. /\ Wide(l) /\ SameFlow(s, l) /\ SameTree(s, l)
        /\ l.route = [s.route EXCEPT ![d] = r]
        /\ l.target = [s.target EXCEPT ![n] = o]
    BY DEF Fine, SameFlow, SameTree, Wide, Field, Aims, Carries
  <1>2. obj_target_link_route(s, n, d) = IF l.own[n] = NoRule THEN obj_target_install(l, n) ELSE l
    BY DEF obj_target_link_route
  <1> HIDE DEF l
  <1>3. /\ s.route \in [Route -> RouteRecord] /\ s.target \in [Neigh -> TargetRecord]
        /\ x \in RouteRecord /\ y \in TargetRecord /\ x = s.route[d] /\ y = s.target[n]
    BY DEF Fine, Objects, RouteRecord, TargetRecord
  <1> HIDE DEF x, y
  <1>4. r \in RouteRecord /\ r.target = n /\ r.refs = x.refs + 1
    <2>1. x.refs \in Nat /\ x.refs + 1 \in Nat /\ n \in Neigh \union {None}
      BY <1>3 DEF RouteRecord
    <2> DEFINE k == x.refs + 1
    <2> HIDE DEF k
    <2>2. k \in Nat /\ Aims(x, n, x.refs + 1) = Aims(x, n, k) /\ k = x.refs + 1
      BY <2>1 DEF k
    <2>3. Aims(x, n, k) \in RouteRecord /\ Aims(x, n, k).target = n /\ Aims(x, n, k).refs = k
      BY <1>3, <2>1, <2>2, RouteAims
    <2> QED
      BY <2>2, <2>3
  <1>5. /\ Append(s.target[n].routes, d) \in Seq(Route)
        /\ Lists(Append(s.target[n].routes, d), Through(s, n) \union {d})
        /\ d \notin Through(s, n)
    <2>1. d \notin Through(s, n)
      BY FiniteSets DEF Through
    <2>2. s.target[n].routes \in Seq(Route) /\ Lists(s.target[n].routes, Through(s, n))
      BY <1>3 DEF Fine, Counts, TargetCounts, TargetRecord
    <2> QED
      BY <2>1, <2>2, ListsAppend
  <1>6. /\ o \in TargetRecord /\ o.refs = y.refs /\ o.weak = y.weak + 1
        /\ o.routes = Append(y.routes, d)
    <2> DEFINE k == y.weak + 1
               q == Append(y.routes, d)
    <2>1. k \in Nat
      BY <1>3 DEF TargetRecord
    <2>2. q \in Seq(Route)
      BY <1>3, <1>5
    <2> HIDE DEF k, q
    <2>3. /\ Carries(y, k, q) \in TargetRecord
          /\ Carries(y, k, q).weak = k /\ Carries(y, k, q).routes = q
          /\ Carries(y, k, q).refs = y.refs
      BY <1>3, <2>1, <2>2, TargetChanged
    <2> QED
      BY <2>3 DEF k, q
  <1> HIDE DEF r, o
  <1>7. \A e \in Route : l.route[e] = IF e = d THEN r ELSE s.route[e]
    BY <1>1, <1>3
  <1>8. \A m \in Neigh : l.target[m] = IF m = n THEN o ELSE s.target[m]
    BY <1>1, <1>3
  <1>9. Objects(l)
    <2>1. l.route \in [Route -> RouteRecord] /\ l.target \in [Neigh -> TargetRecord]
      BY <1>1, <1>3, <1>4, <1>6
    <2> QED
      BY <1>1, <2>1 DEF Fine, Objects, SameTree, RouteRecord, TargetRecord
  <1>10. \A m \in Neigh : Through(l, m) = IF m = n THEN Through(s, m) \union {d} ELSE Through(s, m)
    <2>1. \A m : Through(l, m) = IF l.route[d].target = m THEN Through(s, m) \union {d}
                                 ELSE Through(s, m) \ {d}
      BY <1>7 DEF Through
    <2>2. TAKE m \in Neigh
    <2>3. d \notin Through(s, m)
      BY FiniteSets DEF Through
    <2>4. l.route[d].target = n
      BY <1>4, <1>7
    <2>5. Through(l, m) = IF n = m THEN Through(s, m) \union {d} ELSE Through(s, m) \ {d}
      BY <2>1, <2>4
    <2> QED
      BY <2>3, <2>5
  <1>11. TargetCounts(l)
    <2>1. SUFFICES ASSUME NEW m \in Neigh
                   PROVE  /\ Lists(l.target[m].routes, Through(l, m))
                          /\ l.target[m].weak = Cardinality(Through(l, m))
                          /\ l.target[m].refs = 0 => Through(l, m) = {}
                          /\ l.target[m].refs > 0 => l.neigh[m].state # None
      BY DEF TargetCounts
    <2>2. /\ Lists(s.target[m].routes, Through(s, m))
          /\ s.target[m].weak = Cardinality(Through(s, m))
          /\ s.target[m].refs = 0 => Through(s, m) = {}
          /\ s.target[m].refs > 0 => s.neigh[m].state # None
      BY DEF Fine, Counts, TargetCounts
    <2>3. CASE m # n
      BY <1>1, <1>8, <1>10, <2>2, <2>3 DEF SameTree
    <2>4. CASE m = n
      <3>1. Cardinality(Through(s, n) \union {d}) = Cardinality(Through(s, n)) + 1
        BY <1>5, ThroughFinite, FS_AddElement
      <3>2. l.target[m] = o /\ Through(l, m) = Through(s, n) \union {d} /\ l.neigh = s.neigh
        BY <1>1, <1>8, <1>10, <2>4 DEF SameTree
      <3>3. o.refs = 1 /\ o.weak = s.target[n].weak + 1
            /\ o.routes = Append(s.target[n].routes, d)
        BY <1>3, <1>6
      <3> QED
        BY <1>5, <2>2, <2>4, <3>1, <3>2, <3>3
    <2> QED
      BY <2>3, <2>4
  <1>12. RouteCounts(l, held)
    <2>1. SUFFICES ASSUME NEW e \in Route
                   PROVE  l.route[e].refs = (IF l.route[e].target = None THEN 0 ELSE 1)
                                            + (IF e \in held THEN 1 ELSE 0)
      BY DEF RouteCounts
    <2>2. s.route[e].refs = (IF s.route[e].target = None THEN 0 ELSE 1)
                            + (IF e \in held THEN 1 ELSE 0)
      BY DEF Fine, Counts, RouteCounts
    <2>3. x.target = None /\ r.target # None
      BY <1>3, <1>4, FiniteSets
    <2> QED
      BY <1>3, <1>4, <1>7, <2>2, <2>3
  <1>13. LinkCounts(l, loose)
    <2>1. InTree(l) = InTree(s) /\ Orphans(l) = Orphans(s)
      BY <1>1 DEF InTree, Orphans, SameTree
    <2> QED
      BY <1>1, <2>1 DEF Fine, Counts, LinkCounts, SameTree
  <1>14. Fine(l, held, loose)
    BY <1>1, <1>9, <1>11, <1>12, <1>13 DEF Fine, Counts
  <1>15. Flows(s, l)
    BY <1>1, FlowsSame DEF Fine
  <1>16. Keeps(l, obj_target_link_route(s, n, d))
    BY <1>1, <1>2, <1>9, TargetInstallKeeps, FineCountable, KeepsReflexive
  <1>17. SameTree(s, obj_target_link_route(s, n, d))
    BY <1>1, <1>16 DEF SameTree, Keeps, SameObjects
  <1> QED
    BY <1>14, <1>15, <1>16, <1>17, FineKept, FlowsTransitive DEF Keeps

\* The counts of the other routes are right.
RestCounts(s, d, held) ==
    \A e \in Route \ {d} : s.route[e].refs = (IF s.route[e].target = None THEN 0 ELSE 1)
                                             + (IF e \in held THEN 1 ELSE 0)

Due(r, d, held) ==
    r.refs = (IF r.target = None THEN 0 ELSE 1) + (IF d \in held THEN 1 ELSE 0)

Puts(s, t, d, r) ==
    /\ Wide(t) /\ SameTree(s, t) /\ t.target = s.target
    /\ t.route = [s.route EXCEPT ![d] = r]

\* A route is changed, but for its target.
LEMMA PutRoute ==
    ASSUME NEW s, NEW t, NEW held, NEW loose, NEW d \in Route, NEW r \in RouteRecord,
           Objects(s), LinkCounts(s, loose), TargetCounts(s), RestCounts(s, d, held),
           Puts(s, t, d, r), r.target = s.route[d].target, Due(r, d, held)
    PROVE  /\ Fine(t, held, loose)
           /\ \A e \in Route : t.route[e] = IF e = d THEN r ELSE s.route[e]
  <1>1. s.route \in [Route -> RouteRecord] /\ Wide(t) /\ SameTree(s, t)
        /\ t.target = s.target /\ t.route = [s.route EXCEPT ![d] = r]
    BY DEF Objects, RouteRecord, Puts
  <1>2. t.route \in [Route -> RouteRecord]
        /\ \A e \in Route : t.route[e] = IF e = d THEN r ELSE s.route[e]
    BY <1>1
  <1>3. Objects(t)
    BY <1>1, <1>2 DEF Objects, SameTree, RouteRecord
  <1>4. InTree(t) = InTree(s) /\ Orphans(t) = Orphans(s) /\ \A n : Through(t, n) = Through(s, n)
    BY <1>1, <1>2 DEF InTree, Orphans, Through, SameTree
  <1>5. LinkCounts(t, loose)
    BY <1>1, <1>4 DEF LinkCounts, SameTree
  <1>6. TargetCounts(t)
    BY <1>1, <1>4 DEF TargetCounts, SameTree
  <1>7. RouteCounts(t, held)
    BY <1>2 DEF RouteCounts, RestCounts, Due
  <1> QED
    BY <1>1, <1>2, <1>3, <1>5, <1>6, <1>7 DEF Fine, Counts

\* A route without a target has one reference too many.
Leaves(s, d, held, loose) ==
    /\ Wide(s) /\ Objects(s) /\ LinkCounts(s, loose) /\ TargetCounts(s)
    /\ RestCounts(s, d, held)
    /\ s.route[d].target = None
    /\ s.route[d].refs = 1 + (IF d \in held THEN 1 ELSE 0)

LEMMA RouteUnref ==
    ASSUME NEW s, NEW held, NEW loose, NEW d \in Route, Leaves(s, d, held, loose)
    PROVE  LET t == obj_route_unref(s, d) IN
           /\ Flows(s, t) /\ Fine(t, held, loose) /\ SameTree(s, t)
           /\ t.target = s.target /\ t.route[d].target = None
  <1> DEFINE v == [s EXCEPT !.route[d].refs = @ - 1]
             x == s.route[d]
             r == [x EXCEPT !.refs = @ - 1]
  <1>0. /\ Wide(s) /\ Objects(s) /\ LinkCounts(s, loose) /\ TargetCounts(s)
        /\ RestCounts(s, d, held)
        /\ s.route[d].target = None
        /\ s.route[d].refs = 1 + (IF d \in held THEN 1 ELSE 0)
    BY DEF Leaves
  <1>1. /\ Wide(v) /\ SameFlow(s, v) /\ SameTree(s, v) /\ v.target = s.target
        /\ v.route = [s.route EXCEPT ![d] = r]
    BY <1>0 DEF SameFlow, SameTree, Wide, Field
  <1>2. obj_route_unref(s, d) = IF v.route[d].refs = 0 /\ v.route[d].state # "INSTALLED"
                                THEN RouteReap(v, d) ELSE v
    BY DEF obj_route_unref
  <1> HIDE DEF v
  <1>3. x \in RouteRecord /\ x.target = None /\ x.refs = 1 + (IF d \in held THEN 1 ELSE 0)
        /\ x.target = s.route[d].target
    BY <1>0 DEF Objects, RouteRecord
  <1> HIDE DEF x
  <1>4. r \in RouteRecord /\ r.target = x.target /\ r.refs = IF d \in held THEN 1 ELSE 0
    BY <1>3 DEF RouteRecord
  <1> HIDE DEF r
  <1>5. Fine(v, held, loose) /\ v.route[d] = r /\ \A e \in Route \ {d} : v.route[e] = s.route[e]
    <2>1. Puts(s, v, d, r) /\ Due(r, d, held) /\ r.target = s.route[d].target
      BY <1>1, <1>3, <1>4 DEF Puts, Due
    <2> QED
      BY <1>0, <1>4, <2>1, PutRoute
  <1>6. Flows(s, v)
    BY <1>0, <1>1, FlowsSame
  <1>7. CASE ~(v.route[d].refs = 0 /\ v.route[d].state # "INSTALLED")
    BY <1>1, <1>2, <1>3, <1>4, <1>5, <1>6, <1>7
  <1>8. CASE v.route[d].refs = 0 /\ v.route[d].state # "INSTALLED"
    <2> DEFINE w == DropIfAny(DropIfAny(v, d), Via[d])
               t == [w EXCEPT !.route[d] = NoRoute]
    <2>1. obj_route_unref(s, d) = t
      BY <1>2, <1>8 DEF RouteReap
    <2>2. Keeps(v, w) /\ Wide(w)
      BY <1>1, DropKeeps, KeepsTransitive, KeepsWide
    <2> HIDE DEF w
    <2>3. /\ Wide(t) /\ SameFlow(w, t) /\ SameTree(w, t) /\ t.target = w.target
          /\ t.route = [w.route EXCEPT ![d] = NoRoute]
      BY <2>2 DEF SameFlow, SameTree, Wide, Field
    <2> HIDE DEF t
    <2>4. Fine(w, held, loose) /\ w.route = v.route /\ w.target = v.target /\ SameTree(v, w)
      BY <1>5, <2>2, FineKept DEF Keeps, SameObjects, SameTree
    <2>5. NoRoute \in RouteRecord /\ NoRoute.target = None /\ NoRoute.refs = 0
      BY DEF NoRoute, RouteRecord, ObjState
    <2>6. d \notin held /\ RestCounts(w, d, held)
      BY <1>4, <1>5, <1>8, <2>4 DEF Fine, Counts, RouteCounts, RestCounts
    <2>7. w.route[d].target = None
      BY <1>3, <1>4, <1>5, <2>4
    <2>8. Fine(t, held, loose) /\ t.route[d] = NoRoute
      <3>1. Puts(w, t, d, NoRoute) /\ Due(NoRoute, d, held) /\ NoRoute.target = w.route[d].target
        BY <2>3, <2>5, <2>6, <2>7 DEF Puts, Due
      <3>2. Objects(w) /\ LinkCounts(w, loose) /\ TargetCounts(w) /\ RestCounts(w, d, held)
        BY <2>4, <2>6 DEF Fine, Counts
      <3> QED
        BY <2>5, <3>1, <3>2, PutRoute
    <2>9. Flows(w, t)
      BY <2>2, <2>3, FlowsSame
    <2>10. Flows(s, t)
      BY <1>6, <2>2, <2>9, FlowsTransitive DEF Keeps
    <2>11. SameTree(s, t) /\ t.target = s.target
      BY <1>1, <2>3, <2>4 DEF SameTree
    <2> QED
      BY <2>1, <2>5, <2>8, <2>10, <2>11
  <1> QED
    BY <1>7, <1>8

LEMMA UnlinkRoute ==
    ASSUME NEW s, NEW held, NEW loose, Fine(s, held, loose), NEW d \in Route,
           s.route[d].target # None
    PROVE  LET t == obj_target_unlink_route(s, d) IN
           /\ Flows(s, t) /\ Fine(t, held, loose) /\ SameTree(s, t)
           /\ t.route[d].target = None
           /\ \A m \in Neigh : t.target[m].refs = s.target[m].refs
  <1> DEFINE n == s.route[d].target
             x == s.route[d]
             y == s.target[n]
             r == [x EXCEPT !.target = None]
             o == Carries(y, y.weak - 1, Without(y.routes, d))
             u == [s EXCEPT !.route[d].target = None,
                            !.target[n].weak = @ - 1,
                            !.target[n].routes = Without(@, d)]
  <1>1. obj_target_unlink_route(s, d) = obj_route_unref(u, d)
    BY DEF obj_target_unlink_route
  <1>2. /\ Wide(u) /\ SameFlow(s, u) /\ SameTree(s, u)
        /\ u.route = [s.route EXCEPT ![d] = r]
        /\ u.target = [s.target EXCEPT ![n] = o]
    BY DEF Fine, SameFlow, SameTree, Wide, Field, Carries
  <1> HIDE DEF u
  <1>3. /\ s.route \in [Route -> RouteRecord] /\ s.target \in [Neigh -> TargetRecord]
        /\ x \in RouteRecord /\ n \in Neigh /\ y \in TargetRecord
        /\ x = s.route[d] /\ y = s.target[n] /\ x.target = n
    BY DEF Fine, Objects, RouteRecord, TargetRecord
  <1>4. d \in Through(s, n)
    BY DEF Through
  <1> HIDE DEF x, y, n
  <1>5. r \in RouteRecord /\ r.target = None /\ r.refs = x.refs
    BY <1>3 DEF RouteRecord
  <1>6. /\ Without(y.routes, d) \in Seq(Route)
        /\ Lists(Without(y.routes, d), Through(s, n) \ {d})
        /\ y.weak = Cardinality(Through(s, n))
    <2>1. y.routes \in Seq(Route) /\ Lists(y.routes, Through(s, n))
          /\ y.weak = Cardinality(Through(s, n))
      BY <1>3 DEF Fine, Counts, TargetCounts, TargetRecord
    <2> QED
      BY <1>4, <2>1, ListsWithout
  <1>7. Cardinality(Through(s, n) \ {d}) = y.weak - 1 /\ y.weak - 1 \in Nat
    <2>1. Cardinality(Through(s, n) \ {d}) = Cardinality(Through(s, n)) - 1
      BY <1>4, ThroughFinite, FS_RemoveElement
    <2>2. IsFiniteSet(Through(s, n) \ {d})
      BY ThroughFinite, FS_Subset
    <2> QED
      BY <1>6, <2>1, <2>2, FS_CardinalityType
  <1>8. /\ o \in TargetRecord /\ o.refs = y.refs /\ o.weak = y.weak - 1
        /\ o.routes = Without(y.routes, d)
    <2> DEFINE k == y.weak - 1
               q == Without(y.routes, d)
    <2>1. k \in Nat /\ q \in Seq(Route)
      BY <1>6, <1>7
    <2> HIDE DEF k, q
    <2>2. /\ Carries(y, k, q) \in TargetRecord
          /\ Carries(y, k, q).weak = k /\ Carries(y, k, q).routes = q
          /\ Carries(y, k, q).refs = y.refs
      BY <1>3, <2>1, TargetChanged
    <2> QED
      BY <2>2 DEF k, q
  <1> HIDE DEF r, o
  <1>9. \A e \in Route : u.route[e] = IF e = d THEN r ELSE s.route[e]
    BY <1>2, <1>3, <1>5
  <1>10. \A m \in Neigh : u.target[m] = IF m = n THEN o ELSE s.target[m]
    BY <1>2, <1>3
  <1>11. Objects(u)
    <2>1. u.route \in [Route -> RouteRecord] /\ u.target \in [Neigh -> TargetRecord]
      BY <1>2, <1>3, <1>5, <1>8
    <2> QED
      BY <1>2, <2>1 DEF Fine, Objects, SameTree, RouteRecord, TargetRecord
  <1>12. \A m \in Neigh : Through(u, m) = IF m = n THEN Through(s, m) \ {d} ELSE Through(s, m)
    <2>1. \A m : Through(u, m) = IF u.route[d].target = m THEN Through(s, m) \union {d}
                                 ELSE Through(s, m) \ {d}
      BY <1>9 DEF Through
    <2>2. TAKE m \in Neigh
    <2>3. m # n => d \notin Through(s, m)
      BY <1>3 DEF Through
    <2>4. u.route[d].target = None /\ m # None
      BY <1>5, <1>9, FiniteSets
    <2>5. Through(u, m) = Through(s, m) \ {d}
      BY <2>1, <2>4
    <2> QED
      BY <2>3, <2>5
  <1>13. TargetCounts(u)
    <2>1. SUFFICES ASSUME NEW m \in Neigh
                   PROVE  /\ Lists(u.target[m].routes, Through(u, m))
                          /\ u.target[m].weak = Cardinality(Through(u, m))
                          /\ u.target[m].refs = 0 => Through(u, m) = {}
                          /\ u.target[m].refs > 0 => u.neigh[m].state # None
      BY DEF TargetCounts
    <2>2. /\ Lists(s.target[m].routes, Through(s, m))
          /\ s.target[m].weak = Cardinality(Through(s, m))
          /\ s.target[m].refs = 0 => Through(s, m) = {}
          /\ s.target[m].refs > 0 => s.neigh[m].state # None
      BY DEF Fine, Counts, TargetCounts
    <2>3. CASE m # n
      BY <1>2, <1>10, <1>12, <2>2, <2>3 DEF SameTree
    <2>4. CASE m = n
      <3>1. u.target[m] = o /\ Through(u, m) = Through(s, n) \ {d} /\ u.neigh = s.neigh
        BY <1>2, <1>10, <1>12, <2>4 DEF SameTree
      <3>2. o.refs = s.target[m].refs
        BY <1>3, <1>8, <2>4
      <3> QED
        BY <1>6, <1>7, <1>8, <2>2, <2>4, <3>1, <3>2
    <2> QED
      BY <2>3, <2>4
  <1>14. LinkCounts(u, loose)
    <2>1. InTree(u) = InTree(s) /\ Orphans(u) = Orphans(s)
      BY <1>2 DEF InTree, Orphans, SameTree
    <2> QED
      BY <1>2, <2>1 DEF Fine, Counts, LinkCounts, SameTree
  <1>15. RestCounts(u, d, held)
    BY <1>9 DEF Fine, Counts, RouteCounts, RestCounts
  <1>16. u.route[d].target = None /\ u.route[d].refs = 1 + (IF d \in held THEN 1 ELSE 0)
    <2>1. x.refs = 1 + (IF d \in held THEN 1 ELSE 0)
      BY <1>3 DEF Fine, Counts, RouteCounts
    <2> QED
      BY <1>5, <1>9, <2>1
  <1> DEFINE t == obj_route_unref(u, d)
  <1>17. /\ Flows(u, t) /\ Fine(t, held, loose) /\ SameTree(u, t)
         /\ t.target = u.target /\ t.route[d].target = None
    <2>1. Leaves(u, d, held, loose)
      BY <1>2, <1>11, <1>13, <1>14, <1>15, <1>16 DEF Leaves
    <2> QED
      BY <2>1, RouteUnref
  <1> HIDE DEF t
  <1>18. Flows(s, t)
    BY <1>2, <1>17, FlowsSame, FlowsTransitive DEF Fine
  <1>19. \A m \in Neigh : t.target[m].refs = s.target[m].refs
    BY <1>3, <1>8, <1>10, <1>17
  <1> QED
    BY <1>1, <1>2, <1>17, <1>18, <1>19 DEF SameTree, t

LEMMA DeleteRoute ==
    ASSUME NEW s, NEW loose, Fine(s, {}, loose), NEW d \in Route
    PROVE  LET t == RouteDelete(s, d) IN
           Flows(s, t) /\ Fine(t, {}, loose) /\ SameTree(s, t)
  <1> DEFINE x == s.route[d]
             r == Recounted(x, x.refs + 1, "PRESENT")
             h == [s EXCEPT !.route[d].refs = @ + 1, !.route[d].state = "PRESENT"]
             g == IF s.own[d] # NoRule /\ s.rule[s.own[d]].have # NoTcr
                  THEN Kick(Uninstall(h, s.own[d])) ELSE h
             a == IF s.route[d].target # None THEN obj_target_unlink_route(g, d) ELSE g
  <1>1. RouteDelete(s, d) = obj_route_unref(a, d)
    BY DEF RouteDelete
  <1>2. /\ Wide(h) /\ SameFlow(s, h) /\ SameTree(s, h) /\ h.target = s.target
        /\ h.route = [s.route EXCEPT ![d] = r]
    BY DEF Fine, SameFlow, SameTree, Wide, Field, Recounted
  <1>3. x \in RouteRecord /\ x.target = s.route[d].target /\ x.refs = s.route[d].refs
    BY DEF Fine, Objects, RouteRecord
  <1> HIDE DEF h, x
  <1>4. r \in RouteRecord /\ r.target = x.target /\ r.refs = x.refs + 1
    <2> DEFINE k == x.refs + 1
    <2>1. k \in Nat /\ "PRESENT" \in ObjState
      BY <1>3 DEF RouteRecord, ObjState
    <2> HIDE DEF k
    <2>2. /\ Recounted(x, k, "PRESENT") \in RouteRecord
          /\ Recounted(x, k, "PRESENT").target = x.target
          /\ Recounted(x, k, "PRESENT").refs = k
      BY <1>3, <2>1, RouteCounted
    <2> QED
      BY <2>2 DEF k
  <1> HIDE DEF r
  <1>5. Fine(h, {d}, loose) /\ h.route[d].target = s.route[d].target
    <2>1. Puts(s, h, d, r) /\ r.target = s.route[d].target
      BY <1>2, <1>3, <1>4 DEF Puts
    <2>2. Due(r, d, {d})
      <3>1. x.refs = IF x.target = None THEN 0 ELSE 1
        BY <1>3 DEF Fine, Counts, RouteCounts
      <3> QED
        BY <1>4, <3>1 DEF Due
    <2>3. /\ Objects(s) /\ LinkCounts(s, loose) /\ TargetCounts(s)
          /\ RestCounts(s, d, {d})
      BY DEF Fine, Counts, RouteCounts, RestCounts
    <2>4. Fine(h, {d}, loose) /\ \A e \in Route : h.route[e] = IF e = d THEN r ELSE s.route[e]
      BY <1>4, <2>1, <2>2, <2>3, PutRoute
    <2> QED
      BY <2>1, <2>4
  <1>6. Flows(s, h)
    BY <1>2, FlowsSame DEF Fine
  <1>7. Keeps(h, g)
    <2>1. Keeps(h, Uninstall(h, s.own[d]))
      BY <1>2, UninstallKeeps
    <2>2. Keeps(h, Kick(Uninstall(h, s.own[d])))
      BY <2>1, KickKeeps, KeepsWide, KeepsTransitive
    <2> QED
      BY <1>2, <2>2, KeepsReflexive
  <1> HIDE DEF g
  <1>8. Fine(g, {d}, loose) /\ g.route[d].target = s.route[d].target /\ Flows(s, g) /\ SameTree(s, g)
    BY <1>2, <1>5, <1>6, <1>7, FineKept, FlowsTransitive DEF Keeps, SameObjects, SameTree
  <1>9. Fine(a, {d}, loose) /\ a.route[d].target = None /\ Flows(s, a) /\ SameTree(s, a)
    <2>1. CASE s.route[d].target = None
      BY <1>8, <2>1
    <2>2. CASE s.route[d].target # None
      BY <1>8, <2>2, UnlinkRoute, FlowsTransitive DEF SameTree
    <2> QED
      BY <2>1, <2>2
  <1> HIDE DEF a
  <1>10. Leaves(a, d, {}, loose)
    BY <1>9 DEF Leaves, Fine, Counts, RouteCounts, RestCounts
  <1> QED
    BY <1>1, <1>9, <1>10, RouteUnref, FlowsTransitive DEF SameTree

LEMMA MoveRouteFine ==
    ASSUME NEW s, NEW loose, Fine(s, {}, loose), NEW n \in Neigh, NEW d \in Route,
           s.target[n].refs = 1
    PROVE  LET t == MoveRoute(s, n, d) IN
           Flows(s, t) /\ Fine(t, {}, loose) /\ SameTree(s, t)
  <1> DEFINE a == IF s.route[d].target = None THEN s ELSE obj_target_unlink_route(s, d)
  <1>1. MoveRoute(s, n, d) = IF s.route[d].target = n THEN s ELSE obj_target_link_route(a, n, d)
    BY DEF MoveRoute
  <1>2. Flows(s, s) /\ SameTree(s, s)
    BY FlowsReflexive DEF Fine, SameTree
  <1>3. /\ Flows(s, a) /\ Fine(a, {}, loose) /\ SameTree(s, a) /\ a.route[d].target = None
        /\ a.target[n].refs = 1
    <2>1. CASE s.route[d].target = None
      BY <1>2, <2>1
    <2>2. CASE s.route[d].target # None
      BY <2>2, UnlinkRoute
    <2> QED
      BY <2>1, <2>2
  <1> HIDE DEF a
  <1> DEFINE t == obj_target_link_route(a, n, d)
  <1>4. Flows(a, t) /\ Fine(t, {}, loose) /\ SameTree(a, t)
    BY <1>3, LinkRoute
  <1> HIDE DEF t
  <1>5. Flows(s, t) /\ SameTree(s, t)
    BY <1>3, <1>4, FlowsTransitive DEF SameTree
  <1> QED
    BY <1>1, <1>2, <1>4, <1>5 DEF t

LEMMA RouteUpdateFine ==
    ASSUME NEW s, NEW loose, Fine(s, {}, loose), NEW n \in Neigh, NEW d \in Route,
           s.target[n].refs = 1
    PROVE  LET t == RouteUpdate(s, n, d) IN
           Flows(s, t) /\ Fine(t, {}, loose) /\ SameTree(s, t)
  <1> DEFINE a == MoveRoute(s, n, d)
             b == InstallIfReady(a, d)
             t == [b EXCEPT !.route[d].state = "INSTALLED"]
             x == b.route[d]
             r == [x EXCEPT !.state = "INSTALLED"]
  <1>1. RouteUpdate(s, n, d) = t
    BY DEF RouteUpdate
  <1>2. Flows(s, a) /\ Fine(a, {}, loose) /\ SameTree(s, a)
    BY MoveRouteFine
  <1> HIDE DEF a
  <1>3. Keeps(a, b)
    BY <1>2, InstallIfReadyKeeps DEF Fine
  <1> HIDE DEF b
  <1>4. Flows(s, b) /\ Fine(b, {}, loose) /\ SameTree(s, b)
    BY <1>2, <1>3, FineKept, FlowsTransitive DEF Keeps, SameObjects, SameTree
  <1>5. /\ Wide(t) /\ SameFlow(b, t) /\ SameTree(b, t) /\ t.target = b.target
        /\ t.route = [b.route EXCEPT ![d] = r]
    BY <1>4 DEF Fine, SameFlow, SameTree, Wide, Field
  <1>6. x \in RouteRecord /\ x.target = b.route[d].target /\ x.refs = b.route[d].refs
    BY <1>4 DEF Fine, Objects, RouteRecord
  <1> HIDE DEF t, x
  <1>7. r \in RouteRecord /\ r.target = x.target /\ r.refs = x.refs
    BY <1>6 DEF RouteRecord, ObjState
  <1> HIDE DEF r
  <1>8. Fine(t, {}, loose)
    <2>1. Puts(b, t, d, r) /\ r.target = b.route[d].target
      BY <1>5, <1>6, <1>7 DEF Puts
    <2>2. Due(r, d, {})
      BY <1>4, <1>6, <1>7 DEF Due, Fine, Counts, RouteCounts
    <2>3. /\ Objects(b) /\ LinkCounts(b, loose) /\ TargetCounts(b)
          /\ RestCounts(b, d, {})
      BY <1>4 DEF Fine, Counts, RouteCounts, RestCounts
    <2> QED
      BY <1>7, <2>1, <2>2, <2>3, PutRoute
  <1>9. Flows(s, t)
    BY <1>4, <1>5, FlowsSame, FlowsTransitive DEF Fine
  <1> QED
    BY <1>1, <1>4, <1>5, <1>8, <1>9 DEF SameTree

\* The neighbour has got a target.
LEMMA GetTarget ==
    ASSUME NEW s, NEW loose, Fine(s, {}, loose), NEW n \in Neigh, s.neigh[n].state # None
    PROVE  LET t == obj_target_get_unipath(s, n) IN
           Flows(s, t) /\ Fine(t, {}, loose) /\ SameTree(s, t) /\ t.target[n].refs = 1
  <1> DEFINE y == [NoTarget EXCEPT !.refs = 1]
             t == [s EXCEPT !.target[n] = y]
  <1>1. obj_target_get_unipath(s, n) = IF s.target[n].refs > 0 THEN s ELSE t
    BY DEF obj_target_get_unipath
  <1>2. s.target \in [Neigh -> TargetRecord] /\ s.target[n].refs \in 0..1
    BY DEF Fine, Objects, TargetRecord
  <1>3. CASE s.target[n].refs > 0
    <2>1. s.target[n].refs = 1
      BY <1>2, <1>3
    <2> QED
      BY <1>1, <1>3, <2>1, FlowsReflexive DEF Fine, SameTree
  <1>4. CASE s.target[n].refs = 0
    <2>1. /\ Wide(t) /\ SameFlow(s, t) /\ SameTree(s, t) /\ t.route = s.route
          /\ t.target = [s.target EXCEPT ![n] = y]
      BY DEF Fine, SameFlow, SameTree, Wide, Field
    <2>2. y \in TargetRecord /\ y.refs = 1 /\ y.weak = 0 /\ y.routes = <<>>
      <3>1. y = [refs |-> 1, weak |-> 0, routes |-> <<>>]
        BY DEF NoTarget
      <3>2. <<>> \in Seq(Route)
        OBVIOUS
      <3> HIDE DEF y
      <3> QED
        BY <3>1, <3>2 DEF TargetRecord
    <2> HIDE DEF t, y
    <2>3. t.target \in [Neigh -> TargetRecord]
          /\ \A m \in Neigh : t.target[m] = IF m = n THEN y ELSE s.target[m]
      BY <1>2, <2>1, <2>2
    <2>4. Objects(t)
      BY <2>1, <2>3 DEF Fine, Objects, SameTree, TargetRecord
    <2>5. InTree(t) = InTree(s) /\ Orphans(t) = Orphans(s) /\ \A m : Through(t, m) = Through(s, m)
      BY <2>1 DEF InTree, Orphans, Through, SameTree
    <2>6. LinkCounts(t, loose)
      BY <2>1, <2>5 DEF Fine, Counts, LinkCounts, SameTree
    <2>7. RouteCounts(t, {})
      BY <2>1 DEF Fine, Counts, RouteCounts
    <2>8. Through(s, n) = {}
      BY <1>4 DEF Fine, Counts, TargetCounts
    <2>9. Lists(y.routes, {}) /\ y.weak = Cardinality({})
      BY <2>2, FS_EmptySet DEF Lists
    <2>10. TargetCounts(t)
      <3>1. SUFFICES ASSUME NEW m \in Neigh
                     PROVE  /\ Lists(t.target[m].routes, Through(t, m))
                            /\ t.target[m].weak = Cardinality(Through(t, m))
                            /\ t.target[m].refs = 0 => Through(t, m) = {}
                            /\ t.target[m].refs > 0 => t.neigh[m].state # None
        BY DEF TargetCounts
      <3>2. CASE m = n
        BY <2>1, <2>3, <2>5, <2>8, <2>9, <3>2 DEF SameTree
      <3>3. CASE m # n
        BY <2>1, <2>3, <2>5, <3>3 DEF Fine, Counts, TargetCounts, SameTree
      <3> QED
        BY <3>2, <3>3
    <2>11. Fine(t, {}, loose)
      BY <2>1, <2>4, <2>6, <2>7, <2>10 DEF Fine, Counts
    <2>12. Flows(s, t)
      BY <2>1, FlowsSame DEF Fine
    <2>13. t.target[n].refs = 1
      BY <2>2, <2>3
    <2> QED
      BY <1>1, <1>4, <2>1, <2>11, <2>12, <2>13
  <1> QED
    BY <1>2, <1>3, <1>4

-----------------------------------------------------------------------------
(* Neighbours and the link. *)

NeighRecord == [state : ObjState, gw : Gateway \union {None},
                lladdr : Lladdr \union {Zero}, fdb : BOOLEAN]
LinkRecord  == [state : ObjState, refs : Nat, weak : Nat, info : Info \union {NoVlan, None}]

\* The heap has room for a neighbour.
HasRoom(s) == \E n \in Neigh : s.neigh[n].state = None

\* What is known of the link and of the neighbours in its tree.
SameKnown(s, t) ==
    /\ t.link.state = s.link.state /\ t.link.info = s.link.info
    /\ s.link.refs > 0 => t.link.refs > 0
    /\ InTree(t) = InTree(s)
    /\ \A n \in InTree(s) : t.neigh[n] = s.neigh[n]

LEMMA SameTreeKnown ==
    ASSUME NEW s, NEW t, SameTree(s, t)
    PROVE  SameKnown(s, t)
  BY DEF SameTree, SameKnown, InTree

LEMMA FreshNeighOk ==
    ASSUME NEW s, Objects(s), LinkCounts(s, {}), HasRoom(s)
    PROVE  /\ FreshNeigh(s) \in Neigh
           /\ s.neigh[FreshNeigh(s)].state = None
           /\ ~s.neigh[FreshNeigh(s)].fdb
  BY DEF HasRoom, FreshNeigh, LinkCounts

LEMMA LookupOk ==
    ASSUME NEW s, NEW gw
    PROVE  LET n == obj_neigh_fdb_lookup(s, gw) IN
           \/ n = None /\ Known(s, gw) = {}
           \/ n \in Neigh /\ n # None /\ n \in Known(s, gw) /\ s.neigh[n].fdb /\ s.neigh[n].gw = gw
  BY FiniteSets DEF obj_neigh_fdb_lookup, Known

LEMMA NeighSubsets ==
    ASSUME NEW S \in SUBSET Neigh
    PROVE  IsFiniteSet(S) /\ Cardinality(S) \in Nat
  BY FiniteSets, FS_Subset, FS_CardinalityType

\* Only neighbours and the link's counts change; what a target has a reference
\* of is still there.
LEMMA SameCounts ==
    ASSUME NEW s, NEW t, NEW held, NEW loose, Fine(s, held, loose), Wide(t),
           t.target = s.target, t.route = s.route, t.link \in LinkRecord,
           t.neigh \in [Neigh -> NeighRecord],
           \A n \in Neigh : s.target[n].refs > 0 => t.neigh[n].state # None
    PROVE  /\ Objects(t) /\ TargetCounts(t) /\ RouteCounts(t, held)
           /\ \A l : LinkCounts(t, l) => Fine(t, held, l)
  <1>1. Objects(t)
    BY DEF Fine, Objects, LinkRecord, NeighRecord
  <1>2. \A n : Through(t, n) = Through(s, n)
    BY DEF Through
  <1>3. TargetCounts(t)
    BY <1>2 DEF Fine, Counts, TargetCounts
  <1>4. RouteCounts(t, held)
    BY DEF Fine, Counts, RouteCounts
  <1> QED
    BY <1>1, <1>3, <1>4 DEF Fine, Counts

LEMMA OrphanFine ==
    ASSUME NEW s, Fine(s, {}, {}), HasRoom(s), s.link.state # None, NEW gw \in Gateway
    PROVE  LET t == Orphan(s, gw)  f == FreshNeigh(s) IN
           Flows(s, t) /\ Fine(t, {}, {}) /\ SameKnown(s, t) /\ t.neigh[f].state # None
  <1> DEFINE f == FreshNeigh(s)
             t == Orphan(s, gw)
             x == [NoNeigh EXCEPT !.state = "PRESENT", !.gw = gw]
             y == s.link
             l == [y EXCEPT !.refs = @ + 1]
  <1>1. f \in Neigh /\ s.neigh[f].state = None /\ ~s.neigh[f].fdb
    BY FreshNeighOk DEF Fine, Counts
  <1>2. /\ Wide(t) /\ SameFlow(s, t) /\ t.target = s.target /\ t.route = s.route
        /\ t.link = l /\ t.neigh = [s.neigh EXCEPT ![f] = x]
    BY DEF Fine, SameFlow, Wide, Field, Orphan
  <1> HIDE DEF t, f
  <1>3. x \in NeighRecord /\ x.state = "PRESENT" /\ x.fdb = FALSE
    <2>1. NoNeigh \in NeighRecord /\ NoNeigh.fdb = FALSE
      BY DEF NoNeigh, NeighRecord, ObjState
    <2> DEFINE a == [NoNeigh EXCEPT !.state = "PRESENT"]
    <2>2. a \in NeighRecord /\ a.fdb = FALSE /\ a.state = "PRESENT"
      BY <2>1 DEF NeighRecord, ObjState
    <2> HIDE DEF a
    <2>3. [a EXCEPT !.gw = gw] \in NeighRecord /\ [a EXCEPT !.gw = gw].fdb = FALSE
          /\ [a EXCEPT !.gw = gw].state = "PRESENT"
      BY <2>2 DEF NeighRecord
    <2>4. x = [a EXCEPT !.gw = gw]
      BY DEF a
    <2> HIDE DEF x
    <2> QED
      BY <2>3, <2>4
  <1> HIDE DEF x
  <1>4. y \in LinkRecord /\ y = s.link
    BY DEF Fine, Objects, LinkRecord
  <1> HIDE DEF y
  <1>5. /\ l \in LinkRecord /\ l.refs = y.refs + 1 /\ l.state = y.state /\ l.weak = y.weak
        /\ l.info = y.info
    BY <1>4 DEF LinkRecord
  <1> HIDE DEF l
  <1>6. s.neigh \in [Neigh -> NeighRecord]
    BY DEF Fine, Objects, NeighRecord
  <1>7. /\ t.neigh \in [Neigh -> NeighRecord]
        /\ \A n \in Neigh : t.neigh[n] = IF n = f THEN x ELSE s.neigh[n]
    BY <1>1, <1>2, <1>3, <1>6
  <1>8. "PRESENT" # None
    BY GraphAssumption
  <1>9. \A n \in Neigh : s.target[n].refs > 0 => t.neigh[n].state # None
    BY <1>3, <1>7, <1>8 DEF Fine, Counts, TargetCounts
  <1>10. InTree(t) = InTree(s) /\ Orphans(t) = Orphans(s) \union {f} /\ f \notin Orphans(s)
    BY <1>1, <1>3, <1>7, <1>8 DEF InTree, Orphans
  <1>11. LinkCounts(t, {})
    <2>1. Orphans(s) \ {} = Orphans(s) /\ Orphans(t) \ {} = Orphans(t)
      OBVIOUS
    <2>2. Cardinality(Orphans(t)) = Cardinality(Orphans(s)) + 1
      BY <1>10, NeighSubsets, FS_AddElement DEF Orphans
    <2>3. /\ s.link.weak = Cardinality(InTree(s)) /\ s.link.refs = Cardinality(Orphans(s))
          /\ \A n \in Neigh : s.neigh[n].fdb => s.neigh[n].state # None
      BY <2>1 DEF Fine, Counts, LinkCounts
    <2>4. t.link.weak = Cardinality(InTree(t)) /\ t.link.refs = Cardinality(Orphans(t))
          /\ t.link.state # None
      BY <1>2, <1>4, <1>5, <1>10, <2>2, <2>3
    <2>5. \A n \in Neigh : t.neigh[n].fdb => t.neigh[n].state # None
      BY <1>3, <1>7, <2>3
    <2> QED
      BY <2>1, <2>4, <2>5 DEF LinkCounts
  <1>12. Fine(t, {}, {})
    BY <1>2, <1>5, <1>7, <1>9, <1>11, SameCounts
  <1>13. SameKnown(s, t)
    <2>1. t.link.refs > 0
      BY <1>2, <1>4, <1>5 DEF LinkRecord
    <2>2. \A n \in InTree(s) : t.neigh[n] = s.neigh[n]
      BY <1>1, <1>7 DEF InTree
    <2> QED
      BY <1>2, <1>4, <1>5, <1>10, <2>1, <2>2 DEF SameKnown
  <1>14. Flows(s, t)
    BY <1>2, FlowsSame DEF Fine
  <1>15. t.neigh[f].state # None
    BY <1>1, <1>3, <1>7, <1>8
  <1> QED
    BY <1>12, <1>13, <1>14, <1>15 DEF t, f

LEMMA KnownTransitive ==
    ASSUME NEW s, NEW t, NEW u, SameKnown(s, t), SameKnown(t, u)
    PROVE  SameKnown(s, u)
  BY DEF SameKnown

\* A message about a route.
RouteMessage == [op : {"NEWROUTE", "DELROUTE"}, dst : Route, gw : Gateway]

LEMMA DecodeRoute ==
    ASSUME NEW s, Fine(s, {}, {}), HasRoom(s), NEW m \in RouteMessage
    PROVE  LET t == decode_route(s, m) IN
           Flows(s, t) /\ Fine(t, {}, {}) /\ SameKnown(s, t)
  <1> DEFINE n == obj_neigh_fdb_lookup(s, m.gw)
             at == IF n # None THEN n ELSE FreshNeigh(s)
             o == IF n # None THEN s ELSE Orphan(s, m.gw)
             got == obj_target_get_unipath(o, at)
  <1>0. Flows(s, s) /\ SameKnown(s, s)
    BY FlowsReflexive DEF Fine, SameKnown
  <1>1. m.gw \in Gateway /\ m.dst \in Route /\ m.op \in {"NEWROUTE", "DELROUTE"}
    BY DEF RouteMessage
  <1>2. decode_route(s, m) =
          CASE s.link.state = None -> s
            [] s.link.state # None /\ m.op = "NEWROUTE" -> RouteUpdate(got, at, m.dst)
            [] s.link.state # None /\ m.op = "DELROUTE" ->
                  IF s.route[m.dst].state = None THEN got ELSE RouteDelete(got, m.dst)
    BY DEF decode_route
  <1>3. CASE s.link.state = None
    BY <1>0, <1>2, <1>3
  <1>4. CASE s.link.state # None
    <2>1. /\ at \in Neigh /\ o.neigh[at].state # None
          /\ Flows(s, o) /\ Fine(o, {}, {}) /\ SameKnown(s, o)
      <3>1. CASE n # None
        <4>1. n \in Neigh /\ s.neigh[n].fdb
          BY <3>1, LookupOk
        <4>2. s.neigh[n].state # None
          BY <4>1 DEF Fine, Counts, LinkCounts
        <4> HIDE DEF n
        <4> QED
          BY <1>0, <3>1, <4>1, <4>2
      <3>2. CASE n = None
        <4>1. FreshNeigh(s) \in Neigh
          BY FreshNeighOk DEF Fine, Counts
        <4> HIDE DEF n
        <4> QED
          BY <1>1, <1>4, <3>2, <4>1, OrphanFine
      <3> QED
        BY <3>1, <3>2
    <2> HIDE DEF at, o
    <2>2. Flows(o, got) /\ Fine(got, {}, {}) /\ SameTree(o, got) /\ got.target[at].refs = 1
      BY <2>1, GetTarget
    <2> HIDE DEF got
    <2>3. Flows(s, got) /\ SameKnown(s, got)
      BY <2>1, <2>2, FlowsTransitive, SameTreeKnown, KnownTransitive
    <2>4. \A t : Flows(got, t) /\ SameTree(got, t) => Flows(s, t) /\ SameKnown(s, t)
      BY <2>3, FlowsTransitive, SameTreeKnown, KnownTransitive
    <2>5. CASE m.op = "NEWROUTE"
      <3>1. LET t == RouteUpdate(got, at, m.dst) IN
            Flows(got, t) /\ Fine(t, {}, {}) /\ SameTree(got, t)
        BY <1>1, <2>1, <2>2, RouteUpdateFine
      <3>2. decode_route(s, m) = RouteUpdate(got, at, m.dst)
        BY <1>2, <1>4, <2>5
      <3> QED
        BY <2>4, <3>1, <3>2
    <2>6. CASE m.op = "DELROUTE"
      <3>1. LET t == RouteDelete(got, m.dst) IN
            Flows(got, t) /\ Fine(t, {}, {}) /\ SameTree(got, t)
        BY <1>1, <2>2, DeleteRoute
      <3>2. decode_route(s, m) \in {got, RouteDelete(got, m.dst)}
        BY <1>2, <1>4, <2>6
      <3> QED
        BY <2>2, <2>3, <2>4, <3>1, <3>2
    <2> QED
      BY <1>1, <2>5, <2>6
  <1> QED
    BY <1>3, <1>4

\* The states obj_target_reap goes through while it lets go of the routes.
UnheldPath(s, n, w) ==
    LET routes == s.target[n].routes IN
    /\ w[0] = s
    /\ \A k \in 1..Len(routes) : w[k] = obj_route_unref(w[k - 1], routes[k])
    /\ TargetReap(s, n) = FreeTarget(DropIfAny(w[Len(routes)], n), n, s.own[n])

LEMMA UnheldWalks ==
    ASSUME NEW s, NEW n, Len(s.target[n].routes) \in Nat
    PROVE  \E w : UnheldPath(s, n, w)
  <1> DEFINE routes == s.target[n].routes
             Body(g, i) == [k \in 0..i |-> IF k = 0 THEN s ELSE obj_route_unref(g[k - 1], routes[k])]
             Far == {i \in Nat : \E g : g = Body(g, i)}
             fold == CHOOSE g : g = Body(g, Len(routes))
  <1>1. 0 \in Far
    <2> DEFINE g == [k \in 0..0 |-> s]
    <2>1. g = Body(g, 0)
      OBVIOUS
    <2> QED
      BY <2>1
  <1>2. ASSUME NEW i \in Nat, i \in Far PROVE i + 1 \in Far
    <2>1. PICK f : f = Body(f, i)
      BY <1>2
    <2> DEFINE g == [k \in 0..(i + 1) |-> IF k = i + 1 THEN obj_route_unref(f[i], routes[k]) ELSE f[k]]
    <2>2. ASSUME NEW k \in 0..(i + 1)
          PROVE  g[k] = IF k = 0 THEN s ELSE obj_route_unref(g[k - 1], routes[k])
      <3>1. CASE k = i + 1
        <4>1. k # 0 /\ k - 1 = i /\ i \in 0..(i + 1) /\ i # i + 1
          BY <3>1
        <4> QED
          BY <3>1, <4>1
      <3>2. CASE k # i + 1
        <4>1. k \in 0..i /\ (k # 0 => k - 1 \in 0..(i + 1) /\ k - 1 # i + 1)
          BY <3>2
        <4>2. f[k] = IF k = 0 THEN s ELSE obj_route_unref(f[k - 1], routes[k])
          BY <2>1, <4>1
        <4> QED
          BY <3>2, <4>1, <4>2
      <3> QED
        BY <3>1, <3>2
    <2>3. g = Body(g, i + 1)
      <3>1. g = [k \in 0..(i + 1) |-> g[k]]
        OBVIOUS
      <3> HIDE DEF g
      <3> QED
        BY <2>2, <3>1
    <2>4. \E h : h = Body(h, i + 1)
      <3> HIDE DEF g, Body
      <3> QED
        BY <2>3
    <2> HIDE DEF g, Body
    <2> QED
      BY <2>4
  <1>3. \A i \in Nat : i \in Far
    <2> HIDE DEF Far
    <2> QED
      BY <1>1, <1>2, SetInduction
  <1>4. fold = Body(fold, Len(routes))
    <2> HIDE DEF Body
    <2> QED
      BY <1>3
  <1>5. TargetReap(s, n) = FreeTarget(DropIfAny(fold[Len(routes)], n), n, s.own[n])
    BY DEF TargetReap
  <1> HIDE DEF fold
  <1>6. fold[0] = s /\ \A k \in 1..Len(routes) : fold[k] = obj_route_unref(fold[k - 1], routes[k])
    <2> HIDE DEF routes
    <2>1. ASSUME NEW k \in 0..Len(routes)
          PROVE  fold[k] = IF k = 0 THEN s ELSE obj_route_unref(fold[k - 1], routes[k])
      BY <1>4, Zenon
    <2>2. 0 \in 0..Len(routes) /\ \A k \in 1..Len(routes) : k \in 0..Len(routes) /\ k # 0
      OBVIOUS
    <2> QED
      BY <2>1, <2>2
  <1> HIDE DEF Body
  <1>7. UnheldPath(s, n, fold)
    BY <1>5, <1>6 DEF UnheldPath
  <1> QED
    BY <1>7

LEMMA RouteUnrefFlows ==
    ASSUME NEW s, Wide(s), NEW d
    PROVE  LET t == obj_route_unref(s, d) IN Flows(s, t) /\ Wide(t) /\ t.target = s.target
  <1> DEFINE v == [s EXCEPT !.route[d].refs = @ - 1]
             w == DropIfAny(DropIfAny(v, d), Via[d])
             t == [w EXCEPT !.route[d] = NoRoute]
  <1>1. Wide(v) /\ SameFlow(s, v) /\ v.target = s.target
    BY DEF SameFlow, Wide, Field
  <1>2. obj_route_unref(s, d) \in {v, t}
    BY DEF obj_route_unref, RouteReap
  <1> HIDE DEF v
  <1>3. Keeps(v, w) /\ Wide(w)
    BY <1>1, DropKeeps, KeepsTransitive, KeepsWide
  <1> HIDE DEF w
  <1>4. Wide(t) /\ SameFlow(w, t) /\ t.target = w.target
    BY <1>3 DEF SameFlow, Wide, Field
  <1> HIDE DEF t
  <1>5. Flows(s, v) /\ Flows(w, t)
    BY <1>1, <1>3, <1>4, FlowsSame
  <1>6. Flows(s, t) /\ t.target = s.target
    BY <1>1, <1>3, <1>4, <1>5, FlowsTransitive DEF Keeps, SameObjects
  <1> QED
    BY <1>1, <1>2, <1>4, <1>5, <1>6

\* A target with routes is not freed.
LEMMA TargetReapFine ==
    ASSUME NEW s, Wide(s), Countable(s), NEW n \in Neigh
    PROVE  LET t == TargetReap(s, n) IN
           /\ Flows(s, t) /\ Countable(t)
           /\ t.fault = "none" /\ Objects(s) /\ TargetCounts(s) =>
                 /\ t.link = s.link /\ t.neigh = s.neigh /\ t.route = s.route
                 /\ t.target = [s.target EXCEPT ![n] = NoTarget]
                 /\ Through(s, n) = {}
  <1> DEFINE q == s.target[n].routes
             m == Len(q)
             r == s.own[n]
  <1>1. m \in Nat
    BY DEF Countable
  <1>2. PICK w : UnheldPath(s, n, w)
    BY <1>1, UnheldWalks
  <1>3. /\ w[0] = s /\ \A k \in 1..m : w[k] = obj_route_unref(w[k - 1], q[k])
        /\ TargetReap(s, n) = FreeTarget(DropIfAny(w[m], n), n, r)
    BY <1>2 DEF UnheldPath
  <1>4. Flows(s, w[m]) /\ Wide(w[m]) /\ w[m].target = s.target
    <2> DEFINE P == {k \in Nat : k <= m => Flows(s, w[k]) /\ Wide(w[k]) /\ w[k].target = s.target}
    <2>1. 0 \in P
      BY <1>3, FlowsReflexive
    <2>2. ASSUME NEW k \in Nat, k \in P PROVE k + 1 \in P
      <3>1. SUFFICES ASSUME k + 1 <= m
                     PROVE  /\ Flows(s, w[k + 1]) /\ Wide(w[k + 1])
                            /\ w[k + 1].target = s.target
        OBVIOUS
      <3>2. k + 1 \in 1..m /\ (k + 1) - 1 = k /\ k <= m
        BY <1>1, <3>1
      <3>3. Flows(s, w[k]) /\ Wide(w[k]) /\ w[k].target = s.target
        BY <2>2, <3>2
      <3> DEFINE d == q[k + 1]
      <3>4. w[k + 1] = obj_route_unref(w[k], d)
        BY <1>3, <3>2
      <3> HIDE DEF d
      <3> QED
        BY <3>3, <3>4, RouteUnrefFlows, FlowsTransitive
    <2>3. \A k \in Nat : k \in P
      <3> HIDE DEF P
      <3> QED
        BY <2>1, <2>2, SetInduction
    <2> QED
      BY <1>1, <2>3
  <1> DEFINE u == DropIfAny(w[m], n)
             t == FreeTarget(u, n, r)
             f == [u EXCEPT !.target[n] = NoTarget]
  <1>5. m = 0 => w[m] = s
    BY <1>3
  <1> HIDE DEF m
  <1>6. Keeps(w[m], u) /\ Wide(u)
    BY <1>4, DropKeeps, KeepsWide
  <1> HIDE DEF u
  <1>7. Flows(s, u) /\ u.target = s.target
    BY <1>4, <1>6, FlowsTransitive DEF Keeps, SameObjects
  <1>8. t = IF u.target[n].weak > 0 \/ (r # NoRule /\ u.rule[r].state # "free")
            THEN Fails(u, "obj_target_reap") ELSE f
    BY DEF FreeTarget
  <1>9. /\ Wide(f) /\ SameFlow(u, f)
        /\ f.target = [s.target EXCEPT ![n] = NoTarget]
        /\ f.link = u.link /\ f.neigh = u.neigh /\ f.route = u.route
    BY <1>6, <1>7 DEF SameFlow, Wide, Field
  <1> HIDE DEF f, t
  <1>10. Keeps(u, Fails(u, "obj_target_reap"))
    BY <1>6, FailsKeeps
  <1>11. Flows(s, t)
    BY <1>6, <1>7, <1>8, <1>9, <1>10, FlowsSame, FlowsTransitive DEF Keeps
  <1>12. Countable(t)
    <2>1. \A k \in Neigh : Len(s.target[k].routes) \in Nat
      BY DEF Countable
    <2>2. Len(NoTarget.routes) \in Nat
      BY DEF NoTarget
    <2>3. t.target \in {s.target, [s.target EXCEPT ![n] = NoTarget]}
      BY <1>7, <1>8, <1>9, <1>10 DEF Keeps, SameObjects
    <2>4. CASE t.target = s.target
      BY <2>1, <2>4 DEF Countable
    <2>5. CASE t.target = [s.target EXCEPT ![n] = NoTarget]
      BY <2>1, <2>2, <2>5 DEF Countable
    <2> QED
      BY <2>3, <2>4, <2>5
  <1>13. ASSUME t.fault = "none", Objects(s), TargetCounts(s)
         PROVE  /\ t.link = s.link /\ t.neigh = s.neigh /\ t.route = s.route
                /\ t.target = [s.target EXCEPT ![n] = NoTarget]
                /\ Through(s, n) = {}
    <2>1. Fails(u, "obj_target_reap").fault # "none"
      BY <1>6 DEF Fails, Wide, Field
    <2>2. t = f /\ ~(u.target[n].weak > 0)
      BY <1>8, <1>13, <2>1
    <2>3. s.target[n].weak = Cardinality(Through(s, n)) /\ Lists(q, Through(s, n))
      BY <1>13 DEF TargetCounts
    <2>4. Cardinality(Through(s, n)) = 0
      <3>1. ~(Cardinality(Through(s, n)) > 0)
        BY <1>7, <2>2, <2>3
      <3> QED
        BY <3>1, ThroughFinite
    <2>5. Through(s, n) = {}
      BY <2>4, ThroughFinite, FS_EmptySet
    <2>6. m = 0
      BY <1>1, <2>3, <2>5 DEF Lists, m
    <2> QED
      BY <1>5, <1>6, <1>9, <2>2, <2>5, <2>6 DEF Keeps, SameObjects
  <1> QED
    BY <1>3, <1>11, <1>12, <1>13 DEF t, u

LEMMA ReapNeigh ==
    ASSUME NEW s, Wide(s), Countable(s), NEW n \in Neigh
    PROVE  LET t == obj_neigh_reap(s, n) IN
           /\ Flows(s, t) /\ Countable(t)
           /\ t.fault = "none" /\ Objects(s) /\ TargetCounts(s) =>
                 /\ t.link = IF s.neigh[n].fdb THEN [s.link EXCEPT !.weak = @ - 1] ELSE s.link
                 /\ t.neigh = [s.neigh EXCEPT ![n] = NoNeigh]
                 /\ t.route = s.route
                 /\ \/ t.target = s.target /\ s.target[n].refs = 0
                    \/ t.target = [s.target EXCEPT ![n] = NoTarget]
                 /\ Through(s, n) = {}
  <1> DEFINE a == IF s.target[n].refs > 0 THEN TargetReap(s, n) ELSE s
             b == UnlinkIfIn(a, n)
             t == [b EXCEPT !.neigh[n] = NoNeigh]
  <1>1. obj_neigh_reap(s, n) = t
    BY DEF obj_neigh_reap
  <1>2. /\ Flows(s, a) /\ Countable(a)
        /\ a.fault = "none" /\ Objects(s) /\ TargetCounts(s) =>
                 /\ a.link = s.link /\ a.neigh = s.neigh /\ a.route = s.route
                 /\ \/ a.target = s.target /\ s.target[n].refs = 0
                    \/ a.target = [s.target EXCEPT ![n] = NoTarget]
                 /\ Through(s, n) = {}
    <2>1. CASE s.target[n].refs > 0
      BY <2>1, TargetReapFine
    <2>2. CASE ~(s.target[n].refs > 0)
      <3>1. ASSUME Objects(s), TargetCounts(s)
            PROVE  s.target[n].refs = 0 /\ Through(s, n) = {}
        <4>1. s.target[n].refs = 0
          BY <2>2, <3>1 DEF Objects
        <4> QED
          BY <3>1, <4>1 DEF TargetCounts
      <3> QED
        BY <2>2, <3>1, FlowsReflexive
    <2> QED
      BY <2>1, <2>2
  <1>3. Wide(a)
    BY <1>2 DEF Flows
  <1> HIDE DEF a
  <1>4. /\ Wide(b) /\ SameFlow(a, b) /\ b.target = a.target /\ b.route = a.route
        /\ b.link = IF a.neigh[n].fdb THEN [a.link EXCEPT !.weak = @ - 1] ELSE a.link
        /\ b.neigh = IF a.neigh[n].fdb THEN [a.neigh EXCEPT ![n].fdb = FALSE] ELSE a.neigh
    BY <1>3 DEF UnlinkIfIn, Unlink, SameFlow, Wide, Field
  <1> HIDE DEF b
  <1>5. /\ Wide(t) /\ SameFlow(b, t) /\ t.target = b.target /\ t.route = b.route
        /\ t.link = b.link /\ t.neigh = [b.neigh EXCEPT ![n] = NoNeigh]
        /\ t.fault = b.fault /\ b.fault = a.fault
    BY <1>3, <1>4 DEF UnlinkIfIn, Unlink, SameFlow, Wide, Field, b
  <1> HIDE DEF t
  <1>6. Flows(s, t) /\ Countable(t)
    <2>1. Flows(a, b) /\ Flows(b, t)
      BY <1>3, <1>4, <1>5, FlowsSame
    <2> QED
      BY <1>2, <1>4, <1>5, <2>1, FlowsTransitive DEF Countable
  <1>7. ASSUME t.fault = "none", Objects(s), TargetCounts(s)
        PROVE  /\ t.link = IF s.neigh[n].fdb THEN [s.link EXCEPT !.weak = @ - 1] ELSE s.link
               /\ t.neigh = [s.neigh EXCEPT ![n] = NoNeigh]
    <2>1. a.link = s.link /\ a.neigh = s.neigh
      BY <1>2, <1>5, <1>7
    <2>2. t.link = IF s.neigh[n].fdb THEN [s.link EXCEPT !.weak = @ - 1] ELSE s.link
      BY <1>4, <1>5, <2>1
    <2>3. s.neigh \in [Neigh -> NeighRecord]
      BY <1>7 DEF Objects, NeighRecord
    <2>4. CASE s.neigh[n].fdb
      <3> DEFINE c == [s.neigh EXCEPT ![n].fdb = FALSE]
      <3>1. b.neigh = c
        BY <1>4, <2>1, <2>4
      <3>2. DOMAIN c = Neigh /\ \A m \in Neigh : m # n => c[m] = s.neigh[m]
        BY <2>3
      <3>3. c = [m \in Neigh |-> c[m]]
        BY <2>3
      <3> HIDE DEF c
      <3>4. [c EXCEPT ![n] = NoNeigh] = [s.neigh EXCEPT ![n] = NoNeigh]
        BY <2>3, <3>2, <3>3
      <3> QED
        BY <1>5, <2>2, <3>1, <3>4
    <2>5. CASE ~s.neigh[n].fdb
      BY <1>4, <1>5, <2>1, <2>2, <2>5
    <2> QED
      BY <2>4, <2>5
  <1> QED
    BY <1>1, <1>2, <1>4, <1>5, <1>6, <1>7 DEF t

\* After the neighbour has been reaped the counts are right; loose: it had left
\* the tree.
LEMMA ReapedFine ==
    ASSUME NEW s, NEW loose, Fine(s, {}, loose), NEW n \in Neigh, s.neigh[n].state # None,
           loose = IF s.neigh[n].fdb THEN {} ELSE {n},
           obj_neigh_reap(s, n).fault = "none"
    PROVE  LET t == obj_neigh_reap(s, n) IN
           /\ Fine(t, {}, {})
           /\ t.link.state = s.link.state /\ t.link.info = s.link.info
           /\ t.link.refs = s.link.refs
           /\ InTree(t) = InTree(s) \ {n}
           /\ \A m \in Neigh : m # n => t.neigh[m] = s.neigh[m]
  <1> DEFINE t == obj_neigh_reap(s, n)
             l == s.link
             lw == [l EXCEPT !.weak = @ - 1]
  <1>1. /\ Wide(t)
        /\ t.link = IF s.neigh[n].fdb THEN lw ELSE s.link
        /\ t.neigh = [s.neigh EXCEPT ![n] = NoNeigh]
        /\ t.route = s.route
        /\ \/ t.target = s.target /\ s.target[n].refs = 0
           \/ t.target = [s.target EXCEPT ![n] = NoTarget]
        /\ Through(s, n) = {}
    BY ReapNeigh, FineCountable DEF Fine, Counts, Flows
  <1> HIDE DEF t
  <1>2. l \in LinkRecord /\ l = s.link /\ s.neigh \in [Neigh -> NeighRecord]
        /\ s.target \in [Neigh -> TargetRecord]
    BY DEF Fine, Objects, LinkRecord, NeighRecord, TargetRecord
  <1> HIDE DEF l
  <1>3. NoNeigh \in NeighRecord /\ NoNeigh.fdb = FALSE /\ NoNeigh.state = None
    BY DEF NoNeigh, NeighRecord, ObjState
  <1>4. NoTarget \in TargetRecord /\ NoTarget.refs = 0 /\ NoTarget.weak = 0
        /\ NoTarget.routes = <<>>
    <2>1. <<>> \in Seq(Route)
      OBVIOUS
    <2> QED
      BY <2>1 DEF NoTarget, TargetRecord
  <1>5. t.neigh \in [Neigh -> NeighRecord]
        /\ \A m \in Neigh : t.neigh[m] = IF m = n THEN NoNeigh ELSE s.neigh[m]
    BY <1>1, <1>2, <1>3
  <1>6. InTree(t) = InTree(s) \ {n}
    BY <1>3, <1>5 DEF InTree
  <1>7. Orphans(t) = Orphans(s) \ loose /\ Orphans(t) \ {} = Orphans(t)
    <2>1. Orphans(t) = Orphans(s) \ {n}
      BY <1>3, <1>5 DEF Orphans
    <2>2. s.neigh[n].fdb => Orphans(s) \ {n} = Orphans(s)
      BY DEF Orphans
    <2> QED
      BY <2>1, <2>2
  <1>8. /\ l.weak = Cardinality(InTree(s)) /\ l.refs = Cardinality(Orphans(s) \ loose)
        /\ l.state = None => l.weak = 0 /\ l.refs = 0
        /\ \A m \in Neigh : s.neigh[m].fdb => s.neigh[m].state # None
    BY <1>2 DEF Fine, Counts, LinkCounts
  <1>9. /\ t.link \in LinkRecord
        /\ t.link.weak = Cardinality(InTree(t)) /\ t.link.refs = l.refs
        /\ t.link.state = l.state /\ t.link.info = l.info
        /\ t.link.state = None => t.link.weak = 0
    <2>1. CASE ~s.neigh[n].fdb
      <3>1. InTree(t) = InTree(s)
        BY <1>6, <2>1 DEF InTree
      <3> QED
        BY <1>1, <1>2, <1>8, <2>1, <3>1
    <2>2. CASE s.neigh[n].fdb
      <3>1. n \in InTree(s) /\ InTree(s) \in SUBSET Neigh
        BY <2>2 DEF InTree
      <3>2. Cardinality(InTree(t)) = l.weak - 1
        BY <1>6, <1>8, <3>1, NeighSubsets, FS_RemoveElement
      <3>3. InTree(t) \in SUBSET Neigh
        BY DEF InTree
      <3>4. l.weak - 1 \in Nat
        BY <3>2, <3>3, NeighSubsets
      <3>5. /\ lw \in LinkRecord /\ lw.weak = l.weak - 1 /\ lw.refs = l.refs
            /\ lw.state = l.state /\ lw.info = l.info
        BY <1>2, <3>4 DEF LinkRecord
      <3>6. l.state # None
        BY <1>8, <3>4
      <3> HIDE DEF lw
      <3> QED
        BY <1>1, <2>2, <3>2, <3>5, <3>6
    <2> QED
      BY <2>1, <2>2
  <1> HIDE DEF lw
  <1>10. LinkCounts(t, {})
    <2>1. \A m \in Neigh : t.neigh[m].fdb => t.neigh[m].state # None
      BY <1>3, <1>5, <1>8
    <2> QED
      BY <1>7, <1>8, <1>9, <2>1 DEF LinkCounts
  <1>11. t.target \in [Neigh -> TargetRecord]
         /\ \A m \in Neigh : t.target[m] = IF m = n THEN t.target[n] ELSE s.target[m]
    BY <1>1, <1>2, <1>4
  <1>12. Objects(t)
    BY <1>1, <1>5, <1>9, <1>11 DEF Fine, Objects, LinkRecord, NeighRecord, TargetRecord
  <1>13. \A m : Through(t, m) = Through(s, m)
    BY <1>1 DEF Through
  <1>14. TargetCounts(t)
    <2>1. SUFFICES ASSUME NEW m \in Neigh
                   PROVE  /\ Lists(t.target[m].routes, Through(t, m))
                          /\ t.target[m].weak = Cardinality(Through(t, m))
                          /\ t.target[m].refs = 0 => Through(t, m) = {}
                          /\ t.target[m].refs > 0 => t.neigh[m].state # None
      BY DEF TargetCounts
    <2>2. /\ Lists(s.target[m].routes, Through(s, m))
          /\ s.target[m].weak = Cardinality(Through(s, m))
          /\ s.target[m].refs = 0 => Through(s, m) = {}
          /\ s.target[m].refs > 0 => s.neigh[m].state # None
      BY DEF Fine, Counts, TargetCounts
    <2>3. CASE m # n
      BY <1>5, <1>11, <1>13, <2>2, <2>3
    <2>4. CASE m = n
      <3>1. Through(t, m) = {}
        BY <1>1, <1>13, <2>4
      <3>2. CASE t.target = s.target /\ s.target[n].refs = 0
        BY <1>13, <2>2, <2>4, <3>1, <3>2
      <3>3. CASE t.target = [s.target EXCEPT ![n] = NoTarget]
        <4>1. t.target[m] = NoTarget
          BY <1>2, <2>4, <3>3
        <4>2. Lists(<<>>, {})
          BY DEF Lists
        <4> QED
          BY <1>4, <3>1, <4>1, <4>2, FS_EmptySet
      <3> QED
        BY <1>1, <3>2, <3>3
    <2> QED
      BY <2>3, <2>4
  <1>15. RouteCounts(t, {})
    BY <1>1 DEF Fine, Counts, RouteCounts
  <1>16. Fine(t, {}, {})
    BY <1>1, <1>10, <1>12, <1>14, <1>15 DEF Fine, Counts
  <1> QED
    BY <1>2, <1>5, <1>6, <1>9, <1>16 DEF t

\* The neighbour leaves the tree, and is still there.
LEMMA UnlinkFine ==
    ASSUME NEW s, Wide(s), Countable(s), NEW n \in Neigh
    PROVE  LET t == Unlink(s, n) IN
           /\ Flows(s, t) /\ Wide(t) /\ Countable(t) /\ t.fault = s.fault
           /\ Fine(s, {}, {}) /\ s.neigh[n].fdb =>
                 /\ Fine(t, {}, {n})
                 /\ t.neigh[n].fdb = FALSE /\ t.neigh[n].state # None
                 /\ t.link.state = s.link.state /\ t.link.info = s.link.info
                 /\ t.link.refs = s.link.refs
                 /\ InTree(t) = InTree(s) \ {n}
                 /\ \A m \in Neigh : m # n => t.neigh[m] = s.neigh[m]
  <1> DEFINE t == Unlink(s, n)
             l == s.link
             lw == [l EXCEPT !.weak = @ - 1]
             x == s.neigh[n]
             xf == [x EXCEPT !.fdb = FALSE]
  <1>1. /\ Wide(t) /\ SameFlow(s, t) /\ t.target = s.target /\ t.route = s.route
        /\ t.link = lw /\ t.neigh = [s.neigh EXCEPT ![n] = xf] /\ t.fault = s.fault
    BY DEF Unlink, SameFlow, Wide, Field
  <1> HIDE DEF t
  <1>2. Flows(s, t) /\ Countable(t)
    BY <1>1, FlowsSame DEF Countable
  <1>3. ASSUME Fine(s, {}, {}), x.fdb
        PROVE  /\ Fine(t, {}, {n})
               /\ t.neigh[n].fdb = FALSE /\ t.neigh[n].state # None
               /\ t.link.state = s.link.state /\ t.link.info = s.link.info
               /\ t.link.refs = s.link.refs
               /\ InTree(t) = InTree(s) \ {n}
               /\ \A m \in Neigh : m # n => t.neigh[m] = s.neigh[m]
    <2>1. l \in LinkRecord /\ l = s.link /\ s.neigh \in [Neigh -> NeighRecord]
          /\ x \in NeighRecord /\ x = s.neigh[n]
      BY <1>3 DEF Fine, Objects, LinkRecord, NeighRecord
    <2>2. x.state # None
      BY <1>3 DEF Fine, Counts, LinkCounts
    <2> HIDE DEF l, x
    <2>3. xf \in NeighRecord /\ xf.fdb = FALSE /\ xf.state = x.state
      BY <2>1 DEF NeighRecord
    <2> HIDE DEF xf
    <2>4. t.neigh \in [Neigh -> NeighRecord]
          /\ \A m \in Neigh : t.neigh[m] = IF m = n THEN xf ELSE s.neigh[m]
      BY <1>1, <2>1, <2>3
    <2>5. InTree(t) = InTree(s) \ {n} /\ n \in InTree(s)
      BY <1>3, <2>1, <2>3, <2>4 DEF InTree
    <2>6. Orphans(t) \ {n} = Orphans(s) \ {}
      BY <1>3, <2>1, <2>2, <2>3, <2>4 DEF Orphans
    <2>7. /\ l.weak = Cardinality(InTree(s)) /\ l.refs = Cardinality(Orphans(s) \ {})
          /\ l.state = None => l.weak = 0 /\ l.refs = 0
          /\ \A m \in Neigh : s.neigh[m].fdb => s.neigh[m].state # None
      BY <1>3, <2>1 DEF Fine, Counts, LinkCounts
    <2>8. Cardinality(InTree(t)) = l.weak - 1 /\ l.weak - 1 \in Nat
      <3>1. InTree(s) \in SUBSET Neigh /\ InTree(t) \in SUBSET Neigh
        BY DEF InTree
      <3>2. Cardinality(InTree(t)) = l.weak - 1
        BY <2>5, <2>7, <3>1, NeighSubsets, FS_RemoveElement
      <3> QED
        BY <3>1, <3>2, NeighSubsets
    <2>9. /\ lw \in LinkRecord /\ lw.weak = l.weak - 1 /\ lw.refs = l.refs
          /\ lw.state = l.state /\ lw.info = l.info
      BY <2>1, <2>8 DEF LinkRecord
    <2> HIDE DEF lw
    <2>10. LinkCounts(t, {n})
      <3>1. l.state # None
        BY <2>7, <2>8
      <3>2. \A m \in Neigh : t.neigh[m].fdb => t.neigh[m].state # None
        BY <2>3, <2>4, <2>7
      <3> QED
        BY <1>1, <2>6, <2>7, <2>8, <2>9, <3>1, <3>2 DEF LinkCounts
    <2>11. \A m \in Neigh : s.target[m].refs > 0 => t.neigh[m].state # None
      BY <1>3, <2>2, <2>3, <2>4 DEF Fine, Counts, TargetCounts
    <2>12. Fine(t, {}, {n})
      BY <1>1, <1>3, <2>4, <2>9, <2>10, <2>11, SameCounts
    <2> QED
      BY <1>1, <2>1, <2>2, <2>3, <2>4, <2>5, <2>9, <2>12
  <1> QED
    BY <1>1, <1>2, <1>3 DEF t

\* The states obj_link_reap goes through while it lets the neighbours go.
GonePath(s, w) ==
    LET tree == SetToSeq({n \in Neigh : s.neigh[n].fdb}) IN
    /\ w[0] = s
    /\ \A k \in 1..Len(tree) : w[k] = obj_neigh_reap(Unlink(w[k - 1], tree[k]), tree[k])
    /\ obj_link_reap(s) = FreeLink(w[Len(tree)])

LEMMA GoneWalks ==
    ASSUME NEW s, Len(SetToSeq({n \in Neigh : s.neigh[n].fdb})) \in Nat
    PROVE  \E w : GonePath(s, w)
  <1> DEFINE tree == SetToSeq({n \in Neigh : s.neigh[n].fdb})
             Body(g, i) == [k \in 0..i |-> IF k = 0 THEN s ELSE obj_neigh_reap(Unlink(g[k - 1], tree[k]), tree[k])]
             Far == {i \in Nat : \E g : g = Body(g, i)}
             fold == CHOOSE g : g = Body(g, Len(tree))
  <1>1. 0 \in Far
    <2> DEFINE g == [k \in 0..0 |-> s]
    <2>1. g = Body(g, 0)
      OBVIOUS
    <2> QED
      BY <2>1
  <1>2. ASSUME NEW i \in Nat, i \in Far PROVE i + 1 \in Far
    <2>1. PICK f : f = Body(f, i)
      BY <1>2
    <2> DEFINE g == [k \in 0..(i + 1) |-> IF k = i + 1 THEN obj_neigh_reap(Unlink(f[i], tree[k]), tree[k]) ELSE f[k]]
    <2>2. ASSUME NEW k \in 0..(i + 1)
          PROVE  g[k] = IF k = 0 THEN s ELSE obj_neigh_reap(Unlink(g[k - 1], tree[k]), tree[k])
      <3>1. CASE k = i + 1
        <4>1. k # 0 /\ k - 1 = i /\ i \in 0..(i + 1) /\ i # i + 1
          BY <3>1
        <4> QED
          BY <3>1, <4>1
      <3>2. CASE k # i + 1
        <4>1. k \in 0..i /\ (k # 0 => k - 1 \in 0..(i + 1) /\ k - 1 # i + 1)
          BY <3>2
        <4>2. f[k] = IF k = 0 THEN s ELSE obj_neigh_reap(Unlink(f[k - 1], tree[k]), tree[k])
          BY <2>1, <4>1
        <4> QED
          BY <3>2, <4>1, <4>2
      <3> QED
        BY <3>1, <3>2
    <2>3. g = Body(g, i + 1)
      <3>1. g = [k \in 0..(i + 1) |-> g[k]]
        OBVIOUS
      <3> HIDE DEF g
      <3> QED
        BY <2>2, <3>1
    <2>4. \E h : h = Body(h, i + 1)
      <3> HIDE DEF g, Body
      <3> QED
        BY <2>3
    <2> HIDE DEF g, Body
    <2> QED
      BY <2>4
  <1>3. \A i \in Nat : i \in Far
    <2> HIDE DEF Far
    <2> QED
      BY <1>1, <1>2, SetInduction
  <1>4. fold = Body(fold, Len(tree))
    <2> HIDE DEF Body
    <2> QED
      BY <1>3
  <1>5. obj_link_reap(s) = FreeLink(fold[Len(tree)])
    BY DEF obj_link_reap
  <1> HIDE DEF fold
  <1>6. fold[0] = s /\ \A k \in 1..Len(tree) : fold[k] = obj_neigh_reap(Unlink(fold[k - 1], tree[k]), tree[k])
    <2> HIDE DEF tree
    <2>1. ASSUME NEW k \in 0..Len(tree)
          PROVE  fold[k] = IF k = 0 THEN s
                           ELSE obj_neigh_reap(Unlink(fold[k - 1], tree[k]), tree[k])
      BY <1>4, Zenon
    <2>2. 0 \in 0..Len(tree) /\ \A k \in 1..Len(tree) : k \in 0..Len(tree) /\ k # 0
      OBVIOUS
    <2> QED
      BY <2>1, <2>2
  <1> HIDE DEF Body
  <1>7. GonePath(s, fold)
    BY <1>5, <1>6 DEF GonePath
  <1> QED
    BY <1>7

\* What is left of the tree when k neighbours are gone.
Left(s, q, k, t) ==
    /\ Fine(t, {}, {})
    /\ t.link.state = s.link.state /\ t.link.refs = s.link.refs
    /\ InTree(t) = InTree(s) \ {q[j] : j \in 1..k}

LEMMA LinkReapFine ==
    ASSUME NEW s, Fine(s, {}, {}), s.link.refs = 0, s.link.state # None
    PROVE  LET t == obj_link_reap(s) IN
           /\ Flows(s, t)
           /\ t.fault = "none" => Fine(t, {}, {}) /\ t.link = NoLink /\ InTree(t) = {}
  <1> DEFINE q == SetToSeq({n \in Neigh : s.neigh[n].fdb})
             m == Len(q)
  <1>1. m \in Nat /\ q \in Seq(InTree(s)) /\ Lists(q, InTree(s))
    <2>1. InTree(s) = {n \in Neigh : s.neigh[n].fdb} /\ IsFiniteSet(InTree(s))
      BY NeighSubsets DEF InTree
    <2> QED
      BY <2>1, SetToSeqLists
  <1>2. PICK w : GonePath(s, w)
    BY <1>1, GoneWalks
  <1>3. /\ w[0] = s
        /\ \A k \in 1..m : w[k] = obj_neigh_reap(Unlink(w[k - 1], q[k]), q[k])
        /\ obj_link_reap(s) = FreeLink(w[m])
    BY <1>2 DEF GonePath
  <1>4. /\ \A k \in 1..m : q[k] \in Neigh /\ s.neigh[q[k]].fdb
        /\ \A j, k \in 1..m : q[j] = q[k] => j = k
        /\ {q[j] : j \in 1..m} = InTree(s)
    <2>1. \A n \in InTree(s) : n \in Neigh /\ s.neigh[n].fdb
      BY DEF InTree
    <2> HIDE DEF q
    <2>2. /\ \A k \in 1..m : q[k] \in InTree(s)
          /\ \A e \in InTree(s) : \E k \in 1..m : q[k] = e
          /\ \A j, k \in 1..m : q[j] = q[k] => j = k
      BY <1>1 DEF Lists
    <2>3. {q[j] : j \in 1..m} = InTree(s)
      BY <2>2
    <2> QED
      BY <2>1, <2>2, <2>3
  <1> HIDE DEF q, m
  <1> DEFINE P(k) == /\ Flows(s, w[k]) /\ Wide(w[k]) /\ Countable(w[k])
                     /\ w[k].fault = "none" => Left(s, q, k, w[k])
  <1>5. P(0)
    <2>1. InTree(s) \ {q[j] : j \in 1..0} = InTree(s)
      OBVIOUS
    <2> QED
      BY <1>3, <2>1, FlowsReflexive, FineCountable DEF Left, Fine
  <1>6. ASSUME NEW k \in Nat, k + 1 <= m, P(k)
        PROVE  P(k + 1)
    <2> DEFINE n == q[k + 1]
               u == Unlink(w[k], n)
               t == obj_neigh_reap(u, n)
    <2>1. k + 1 \in 1..m /\ (k + 1) - 1 = k
      BY <1>1, <1>6
    <2>2. w[k + 1] = t /\ n \in Neigh /\ n \in InTree(s)
      BY <1>3, <1>4, <2>1
    <2>3. ASSUME NEW j \in 1..k PROVE q[j] # n
      <3>1. j \in 1..m /\ j # k + 1
        BY <1>1, <1>6, <2>1
      <3> QED
        BY <1>4, <2>1, <3>1
    <2>4. \A j \in 1..(k + 1) : j \in 1..k \/ j = k + 1
      BY <1>6
    <2>5. {q[j] : j \in 1..(k + 1)} = {q[j] : j \in 1..k} \union {n}
      BY <1>6, <2>4
    <2> HIDE DEF n
    <2>6. /\ Flows(w[k], u) /\ Wide(u) /\ Countable(u) /\ u.fault = w[k].fault
          /\ Fine(w[k], {}, {}) /\ w[k].neigh[n].fdb =>
                 /\ Fine(u, {}, {n})
                 /\ u.neigh[n].fdb = FALSE /\ u.neigh[n].state # None
                 /\ u.link.state = w[k].link.state /\ u.link.refs = w[k].link.refs
                 /\ InTree(u) = InTree(w[k]) \ {n}
      BY <1>6, <2>2, UnlinkFine
    <2> HIDE DEF u
    <2>7. Flows(u, t) /\ Countable(t)
      BY <2>2, <2>6, ReapNeigh
    <2> HIDE DEF t
    <2>8. Flows(s, t) /\ Wide(t)
      BY <1>6, <2>6, <2>7, FlowsTransitive DEF Flows
    <2>9. ASSUME t.fault = "none" PROVE Left(s, q, k + 1, t)
      <3>1. u.fault = "none" /\ w[k].fault = "none"
        BY <2>6, <2>7, <2>9 DEF Flows
      <3>2. /\ Fine(w[k], {}, {})
            /\ w[k].link.state = s.link.state /\ w[k].link.refs = s.link.refs
            /\ InTree(w[k]) = InTree(s) \ {q[j] : j \in 1..k}
        BY <1>6, <3>1 DEF Left
      <3>3. w[k].neigh[n].fdb
        BY <2>2, <2>3, <3>2 DEF InTree
      <3>4. /\ Fine(u, {}, {n})
            /\ u.neigh[n].fdb = FALSE /\ u.neigh[n].state # None
            /\ u.link.state = s.link.state /\ u.link.refs = s.link.refs
            /\ InTree(u) = InTree(w[k]) \ {n}
        BY <2>6, <3>2, <3>3
      <3>5. /\ Fine(t, {}, {})
            /\ t.link.state = u.link.state /\ t.link.refs = u.link.refs
            /\ InTree(t) = InTree(u) \ {n}
        BY <2>2, <2>9, <3>4, ReapedFine DEF t
      <3>6. InTree(t) = InTree(s) \ {q[j] : j \in 1..(k + 1)}
        BY <2>5, <3>2, <3>4, <3>5
      <3> QED
        BY <3>4, <3>5, <3>6 DEF Left
    <2> QED
      BY <2>2, <2>7, <2>8, <2>9
  <1>7. P(m)
    <2> DEFINE S == {k \in Nat : k <= m => P(k)}
    <2> HIDE DEF P
    <2>1. 0 \in S
      BY <1>5
    <2>2. \A k \in Nat : k \in S => k + 1 \in S
      BY <1>1, <1>6
    <2>3. \A k \in Nat : k \in S
      <3> HIDE DEF S
      <3> QED
        BY <2>1, <2>2, SetInduction
    <2> QED
      BY <1>1, <2>3
  <1> DEFINE e == w[m]
             f == [e EXCEPT !.link = NoLink]
             t == FreeLink(e)
  <1>8. t = IF e.fault = "none" /\ e.link.weak # 0 THEN Fails(e, "obj_link_reap") ELSE f
    BY DEF FreeLink
  <1>9. Flows(s, e) /\ Wide(e) /\ (e.fault = "none" => Left(s, q, m, e))
    BY <1>7
  <1> HIDE DEF P, e
  <1>10. /\ Wide(f) /\ SameFlow(e, f) /\ f.target = e.target /\ f.route = e.route
         /\ f.neigh = e.neigh /\ f.link = NoLink /\ f.fault = e.fault
    BY <1>9 DEF SameFlow, Wide, Field
  <1>11. Keeps(e, Fails(e, "obj_link_reap")) /\ Fails(e, "obj_link_reap").fault # "none"
    <2>1. Fails(e, "obj_link_reap").fault = "obj_link_reap" \/ e.fault # "none"
      BY <1>9 DEF Fails, Wide, Field
    <2>2. Keeps(e, Fails(e, "obj_link_reap"))
      BY <1>9, FailsKeeps
    <2> QED
      BY <2>1, <2>2 DEF Keeps, Flows
  <1> HIDE DEF f, t
  <1>12. Flows(s, t)
    BY <1>8, <1>9, <1>10, <1>11, FlowsSame, FlowsTransitive DEF Keeps
  <1>13. ASSUME t.fault = "none"
         PROVE  Fine(t, {}, {}) /\ t.link = NoLink /\ InTree(t) = {}
    <2>1. t = f /\ e.fault = "none"
      BY <1>8, <1>10, <1>11, <1>13
    <2>2. Fine(e, {}, {}) /\ e.link.refs = 0 /\ InTree(e) = {}
      BY <1>4, <1>9, <2>1 DEF Left
    <2>3. NoLink \in LinkRecord /\ NoLink.weak = 0 /\ NoLink.refs = 0
      BY DEF NoLink, LinkRecord, ObjState
    <2>4. InTree(f) = {} /\ Orphans(f) = Orphans(e)
      BY <1>10, <2>2 DEF InTree, Orphans
    <2>5. LinkCounts(f, {})
      <3>1. Cardinality(Orphans(e) \ {}) = 0 /\ \A n \in Neigh : e.neigh[n].fdb => e.neigh[n].state # None
        BY <2>2 DEF Fine, Counts, LinkCounts
      <3>2. Cardinality({}) = 0
        BY FS_EmptySet
      <3> QED
        BY <1>10, <2>3, <2>4, <3>1, <3>2 DEF LinkCounts
    <2>6. \A n \in Neigh : e.target[n].refs > 0 => f.neigh[n].state # None
      BY <1>10, <2>2 DEF Fine, Counts, TargetCounts
    <2>7. f.neigh \in [Neigh -> NeighRecord]
      BY <1>10, <2>2 DEF Fine, Objects, NeighRecord
    <2>8. Fine(f, {}, {})
      BY <1>10, <2>2, <2>3, <2>5, <2>6, <2>7, SameCounts
    <2> QED
      BY <1>10, <2>1, <2>4, <2>8
  <1> QED
    BY <1>3, <1>12, <1>13 DEF t, e

\* The states obj_link_update goes through while it tells the targets.
LinkToldPath(s, info, w) ==
    LET targets == SetToSeq({n \in Neigh : s.neigh[n].fdb /\ s.target[n].refs > 0}) IN
    /\ w[0] = [s EXCEPT !.link.info = info]
    /\ \A k \in 1..Len(targets) : w[k] = NeighUpdate(w[k - 1], targets[k])
    /\ LinkUpdate(s, info) = w[Len(targets)]

LEMMA LinkToldWalks ==
    ASSUME NEW s, NEW info, Len(SetToSeq({n \in Neigh : s.neigh[n].fdb /\ s.target[n].refs > 0})) \in Nat
    PROVE  \E w : LinkToldPath(s, info, w)
  <1> DEFINE targets == SetToSeq({n \in Neigh : s.neigh[n].fdb /\ s.target[n].refs > 0})
             Body(g, i) == [k \in 0..i |-> IF k = 0 THEN [s EXCEPT !.link.info = info] ELSE NeighUpdate(g[k - 1], targets[k])]
             Far == {i \in Nat : \E g : g = Body(g, i)}
             fold == CHOOSE g : g = Body(g, Len(targets))
  <1>1. 0 \in Far
    <2> DEFINE g == [k \in 0..0 |-> [s EXCEPT !.link.info = info]]
    <2>1. g = Body(g, 0)
      OBVIOUS
    <2> QED
      BY <2>1
  <1>2. ASSUME NEW i \in Nat, i \in Far PROVE i + 1 \in Far
    <2>1. PICK f : f = Body(f, i)
      BY <1>2
    <2> DEFINE g == [k \in 0..(i + 1) |-> IF k = i + 1 THEN NeighUpdate(f[i], targets[k]) ELSE f[k]]
    <2>2. ASSUME NEW k \in 0..(i + 1)
          PROVE  g[k] = IF k = 0 THEN [s EXCEPT !.link.info = info] ELSE NeighUpdate(g[k - 1], targets[k])
      <3>1. CASE k = i + 1
        <4>1. k # 0 /\ k - 1 = i /\ i \in 0..(i + 1) /\ i # i + 1
          BY <3>1
        <4> QED
          BY <3>1, <4>1
      <3>2. CASE k # i + 1
        <4>1. k \in 0..i /\ (k # 0 => k - 1 \in 0..(i + 1) /\ k - 1 # i + 1)
          BY <3>2
        <4>2. f[k] = IF k = 0 THEN [s EXCEPT !.link.info = info] ELSE NeighUpdate(f[k - 1], targets[k])
          BY <2>1, <4>1
        <4> QED
          BY <3>2, <4>1, <4>2
      <3> QED
        BY <3>1, <3>2
    <2>3. g = Body(g, i + 1)
      <3>1. g = [k \in 0..(i + 1) |-> g[k]]
        OBVIOUS
      <3> HIDE DEF g
      <3> QED
        BY <2>2, <3>1
    <2>4. \E h : h = Body(h, i + 1)
      <3> HIDE DEF g, Body
      <3> QED
        BY <2>3
    <2> HIDE DEF g, Body
    <2> QED
      BY <2>4
  <1>3. \A i \in Nat : i \in Far
    <2> HIDE DEF Far
    <2> QED
      BY <1>1, <1>2, SetInduction
  <1>4. fold = Body(fold, Len(targets))
    <2> HIDE DEF Body
    <2> QED
      BY <1>3
  <1>5. LinkUpdate(s, info) = fold[Len(targets)]
    BY DEF LinkUpdate
  <1> HIDE DEF fold
  <1>6. fold[0] = [s EXCEPT !.link.info = info] /\ \A k \in 1..Len(targets) : fold[k] = NeighUpdate(fold[k - 1], targets[k])
    <2> HIDE DEF targets
    <2>1. ASSUME NEW k \in 0..Len(targets)
          PROVE  fold[k] = IF k = 0 THEN [s EXCEPT !.link.info = info]
                           ELSE NeighUpdate(fold[k - 1], targets[k])
      BY <1>4, Zenon
    <2>2. 0 \in 0..Len(targets) /\ \A k \in 1..Len(targets) : k \in 0..Len(targets) /\ k # 0
      OBVIOUS
    <2> QED
      BY <2>1, <2>2
  <1> HIDE DEF Body
  <1>7. LinkToldPath(s, info, fold)
    BY <1>5, <1>6 DEF LinkToldPath
  <1> QED
    BY <1>7

LEMMA LinkUpdateFine ==
    ASSUME NEW s, Fine(s, {}, {}), NEW info \in Info \union {NoVlan}
    PROVE  LET t == LinkUpdate(s, info) IN
           /\ Flows(s, t) /\ Fine(t, {}, {})
           /\ t.link = [s.link EXCEPT !.info = info] /\ t.neigh = s.neigh
  <1> DEFINE S == {n \in Neigh : s.neigh[n].fdb /\ s.target[n].refs > 0}
             q == SetToSeq(S)
             m == Len(q)
             l == s.link
             lw == [l EXCEPT !.info = info]
             a == [s EXCEPT !.link.info = info]
  <1>1. m \in Nat
    <2>1. IsFiniteSet(S)
      BY NeighSubsets
    <2> HIDE DEF S
    <2> QED
      BY <2>1, SetToSeqLists
  <1>2. PICK w : LinkToldPath(s, info, w)
    BY <1>1, LinkToldWalks
  <1>3. /\ w[0] = a
        /\ \A k \in 1..m : w[k] = NeighUpdate(w[k - 1], q[k])
        /\ LinkUpdate(s, info) = w[m]
    BY <1>2 DEF LinkToldPath
  <1> HIDE DEF S, q, m
  <1>4. /\ Wide(a) /\ SameFlow(s, a) /\ a.target = s.target /\ a.route = s.route
        /\ a.neigh = s.neigh /\ a.link = lw
    BY DEF SameFlow, Fine, Wide, Field
  <1> HIDE DEF a
  <1>5. l \in LinkRecord /\ l = s.link
    BY DEF Fine, Objects, LinkRecord
  <1> HIDE DEF l
  <1>6. /\ lw \in LinkRecord /\ lw.weak = l.weak /\ lw.refs = l.refs /\ lw.state = l.state
    BY <1>5 DEF LinkRecord
  <1> HIDE DEF lw
  <1>7. Fine(a, {}, {})
    <2>1. InTree(a) = InTree(s) /\ Orphans(a) = Orphans(s)
      BY <1>4 DEF InTree, Orphans
    <2>2. LinkCounts(a, {})
      BY <1>4, <1>5, <1>6, <2>1 DEF Fine, Counts, LinkCounts
    <2>3. \A n \in Neigh : s.target[n].refs > 0 => a.neigh[n].state # None
      BY <1>4 DEF Fine, Counts, TargetCounts
    <2>4. a.neigh \in [Neigh -> NeighRecord]
      BY <1>4 DEF Fine, Objects, NeighRecord
    <2> QED
      BY <1>4, <1>6, <2>2, <2>3, <2>4, SameCounts
  <1>8. \A k \in 1..m : Wide(w[k - 1]) /\ SameObjects(a, w[k - 1]) => Keeps(w[k - 1], w[k])
    <2>1. \A t : SameObjects(a, t) => Countable(t)
      BY <1>7, FineCountable DEF SameObjects, Countable, Fine
    <2> QED
      BY <1>3, <2>1, TargetInstallKeeps
  <1>9. Keeps(a, w[m])
    BY <1>1, <1>3, <1>4, <1>8, WalkKeeps
  <1>10. Flows(s, w[m])
    BY <1>4, <1>9, FlowsSame, FlowsTransitive DEF Keeps, Fine
  <1>11. Fine(w[m], {}, {}) /\ w[m].link = lw /\ w[m].neigh = s.neigh
    BY <1>4, <1>7, <1>9, FineKept DEF Keeps, SameObjects
  <1> QED
    BY <1>3, <1>10, <1>11 DEF lw, l

\* Messages about the link and about neighbours.
LinkMessage == [op : {"NEWLINK"}, info : Info \union {NoVlan}] \union [op : {"DELLINK"}]
NeighMessage == [op : {"NEWNEIGH"}, gw : Gateway, lladdr : Lladdr \union {Zero}]
                \union [op : {"DELNEIGH"}, gw : Gateway]

\* What is known of the link after a message about it.  A link that is still
\* referenced is not reaped.
LinkHeard(s, m, t) ==
    /\ m.op = "DELLINK" /\ s.link.refs = 0 =>
          t.link.state = None /\ t.link.refs = 0 /\ InTree(t) = {}
    /\ m.op = "DELLINK" /\ s.link.refs # 0 =>
          t.link.state = "PRESENT" /\ t.link.refs = s.link.refs /\ t.neigh = s.neigh
    /\ m.op = "NEWLINK" =>
          /\ t.link.state = IF s.link.state = None THEN "INSTALLED" ELSE s.link.state
          /\ t.link.info = m.info /\ t.link.refs = s.link.refs /\ t.neigh = s.neigh

LinkFits(s) ==
    /\ s.link.weak = Cardinality(InTree(s)) /\ s.link.refs = Cardinality(Orphans(s))
    /\ s.link.state = None => s.link.weak = 0 /\ s.link.refs = 0
    /\ \A n \in Neigh : s.neigh[n].fdb => s.neigh[n].state # None

LEMMA LinkCountsFit ==
    ASSUME NEW s
    PROVE  LinkCounts(s, {}) <=> LinkFits(s)
  <1>1. Orphans(s) \ {} = Orphans(s)
    OBVIOUS
  <1> QED
    BY <1>1 DEF LinkCounts, LinkFits

LEMMA DecodeLink ==
    ASSUME NEW s, Fine(s, {}, {}), NEW m \in LinkMessage
    PROVE  LET t == obj_link_netlink_update(s, m) IN
           /\ Flows(s, t)
           /\ t.fault = "none" => Fine(t, {}, {}) /\ LinkHeard(s, m, t)
  <1> DEFINE l == s.link
             p == [s EXCEPT !.link.state = "PRESENT"]
             i == [s EXCEPT !.link = [NoLink EXCEPT !.state = "INSTALLED", !.info = m.info]]
             t == obj_link_netlink_update(s, m)
  <1>0. SUFFICES /\ Flows(s, t)
                 /\ t.fault = "none" => Fine(t, {}, {}) /\ LinkHeard(s, m, t)
    OBVIOUS
  <1> HIDE DEF t
  <1>1. Flows(s, s) /\ Wide(s)
    BY FlowsReflexive DEF Fine
  <1>2. l \in LinkRecord /\ l = s.link /\ LinkFits(s) /\ Fine(s, {}, {})
    <2>1. LinkCounts(s, {}) /\ l \in LinkRecord
      BY DEF Fine, Counts, Objects, LinkRecord
    <2> QED
      BY <2>1, LinkCountsFit
  <1>3. \A n \in Neigh : s.target[n].refs > 0 => s.neigh[n].state # None
    BY DEF Fine, Counts, TargetCounts
  <1>4. s.neigh \in [Neigh -> NeighRecord]
    BY DEF Fine, Objects, NeighRecord
  <1>5. "PRESENT" # None /\ "INSTALLED" # None
    BY GraphAssumption
  <1>6. CASE m.op = "DELLINK"
    <2>1. CASE s.link.state = None
      <3>1. t = s
        BY <1>6, <2>1 DEF t, obj_link_netlink_update
      <3>2. InTree(s) = {}
        <4>1. Cardinality(InTree(s)) = 0
          BY <1>2, <2>1 DEF LinkFits
        <4>2. IsFiniteSet(InTree(s))
          BY NeighSubsets DEF InTree
        <4> QED
          BY <4>1, <4>2, FS_EmptySet
      <3> QED
        BY <1>1, <1>2, <1>6, <2>1, <3>1, <3>2 DEF LinkHeard, LinkFits
    <2>2. CASE s.link.state # None /\ s.link.refs = 0
      <3>1. t = obj_link_reap(s)
        BY <1>6, <2>2 DEF t, obj_link_netlink_update
      <3> QED
        BY <1>6, <2>2, <3>1, LinkReapFine DEF LinkHeard, NoLink
    <2>3. CASE s.link.state # None /\ s.link.refs # 0
      <3> DEFINE lw == [l EXCEPT !.state = "PRESENT"]
      <3>1. t = p
        BY <1>6, <2>3 DEF t, obj_link_netlink_update
      <3>2. /\ Wide(p) /\ SameFlow(s, p) /\ p.target = s.target /\ p.route = s.route
            /\ p.neigh = s.neigh /\ p.link = lw
        BY <1>1 DEF SameFlow, Wide, Field
      <3> HIDE DEF p, l
      <3>3. /\ lw \in LinkRecord /\ lw.refs = l.refs /\ lw.weak = l.weak /\ lw.state = "PRESENT"
        BY <1>2 DEF LinkRecord, ObjState
      <3> HIDE DEF lw
      <3>4. InTree(p) = InTree(s) /\ Orphans(p) = Orphans(s)
        BY <3>2 DEF InTree, Orphans
      <3>5. LinkCounts(p, {})
        BY <1>2, <1>5, <3>2, <3>3, <3>4, LinkCountsFit DEF LinkFits
      <3>6. Fine(p, {}, {})
        BY <1>3, <1>4, <3>2, <3>3, <3>5, SameCounts
      <3>7. Flows(s, p)
        BY <1>1, <3>2, FlowsSame
      <3> QED
        BY <1>2, <1>6, <2>3, <3>1, <3>2, <3>3, <3>6, <3>7 DEF LinkHeard
    <2> QED
      BY <2>1, <2>2, <2>3
  <1>7. CASE m.op = "NEWLINK"
    <2>0. m.info \in Info \union {NoVlan}
      BY <1>7 DEF LinkMessage
    <2>1. CASE s.link.state = None
      <3> DEFINE lw == [NoLink EXCEPT !.state = "INSTALLED", !.info = m.info]
      <3>1. t = i
        BY <1>7, <2>1 DEF t, obj_link_netlink_update
      <3>2. /\ Wide(i) /\ SameFlow(s, i) /\ i.target = s.target /\ i.route = s.route
            /\ i.neigh = s.neigh /\ i.link = lw
        BY <1>1 DEF SameFlow, Wide, Field
      <3>3. /\ lw \in LinkRecord /\ lw.refs = 0 /\ lw.weak = 0 /\ lw.state = "INSTALLED"
            /\ lw.info = m.info
        BY <2>0 DEF NoLink, LinkRecord, ObjState
      <3> HIDE DEF i, lw, l
      <3>4. InTree(i) = InTree(s) /\ Orphans(i) = Orphans(s)
        BY <3>2 DEF InTree, Orphans
      <3>5. LinkCounts(i, {})
        BY <1>2, <1>5, <2>1, <3>2, <3>3, <3>4, LinkCountsFit DEF LinkFits
      <3>6. Fine(i, {}, {})
        BY <1>3, <1>4, <3>2, <3>3, <3>5, SameCounts
      <3>7. Flows(s, i)
        BY <1>1, <3>2, FlowsSame
      <3> QED
        BY <1>2, <1>7, <2>1, <3>1, <3>2, <3>3, <3>6, <3>7 DEF LinkHeard, LinkFits
    <2>2. CASE s.link.state # None /\ s.link.info = m.info
      <3>1. t = s
        BY <1>7, <2>2 DEF t, obj_link_netlink_update
      <3> QED
        BY <1>1, <1>7, <2>2, <3>1 DEF LinkHeard
    <2>3. CASE s.link.state # None /\ s.link.info # m.info
      <3> DEFINE info == m.info
                 lw == [l EXCEPT !.info = info]
      <3>1. t = LinkUpdate(s, info)
        BY <1>7, <2>3 DEF t, obj_link_netlink_update
      <3> HIDE DEF info
      <3>2. /\ Flows(s, t) /\ Fine(t, {}, {})
            /\ t.link = lw /\ t.neigh = s.neigh
        BY <2>0, <3>1, LinkUpdateFine DEF info
      <3> HIDE DEF l
      <3>3. lw.info = m.info /\ lw.state = l.state /\ lw.refs = l.refs
        BY <1>2 DEF LinkRecord, info
      <3> QED
        BY <1>2, <1>7, <2>3, <3>2, <3>3 DEF LinkHeard
    <2> QED
      BY <2>1, <2>2, <2>3
  <1> QED
    BY <1>6, <1>7 DEF LinkMessage

\* Other gateways are known as before.
SameGateway(s, t, g) == Known(t, g) = Known(s, g) /\ \A n \in Known(s, g) : t.neigh[n] = s.neigh[n]

\* What is known of the neighbours after a message about one.
NeighHeard(s, m, t) ==
    /\ t.link.state = s.link.state /\ t.link.info = s.link.info /\ t.link.refs = s.link.refs
    /\ s.link.state = None => SameKnown(s, t)
    /\ s.link.state # None /\ Unique(s) =>
          /\ Unique(t)
          /\ \A g \in Gateway : g # m.gw => SameGateway(s, t, g)
          /\ m.op = "DELNEIGH" => Known(t, m.gw) = {}
          /\ m.op = "NEWNEIGH" =>
                \E n \in Known(t, m.gw) : t.neigh[n].lladdr = m.lladdr

LEMMA NewNeigh ==
    ASSUME NEW s, Fine(s, {}, {}), HasRoom(s), NEW m \in NeighMessage, m.op = "NEWNEIGH",
           s.link.state # None, Known(s, m.gw) = {}
    PROVE  LET t == obj_neigh_netlink_update(s, m) IN
           Flows(s, t) /\ Fine(t, {}, {}) /\ NeighHeard(s, m, t)
  <1> DEFINE t == obj_neigh_netlink_update(s, m)
             f == FreshNeigh(s)
             x == [state |-> "INSTALLED", gw |-> m.gw, lladdr |-> m.lladdr, fdb |-> TRUE]
             u == [s EXCEPT !.link.weak = @ + 1, !.neigh[f] = x]
             l == s.link
             lw == [l EXCEPT !.weak = @ + 1]
  <1>1. t = u
    <2>1. obj_neigh_fdb_lookup(s, m.gw) = None
      BY DEF obj_neigh_fdb_lookup
    <2> QED
      BY <2>1 DEF obj_neigh_netlink_update
  <1>2. f \in Neigh /\ s.neigh[f].state = None /\ ~s.neigh[f].fdb
    BY FreshNeighOk DEF Fine, Counts
  <1>3. /\ Wide(u) /\ SameFlow(s, u) /\ u.target = s.target /\ u.route = s.route
        /\ u.link = lw /\ u.neigh = [s.neigh EXCEPT ![f] = x]
    BY DEF SameFlow, Fine, Wide, Field
  <1>4. x \in NeighRecord /\ x.state = "INSTALLED" /\ x.fdb = TRUE /\ x.gw = m.gw
        /\ x.lladdr = m.lladdr
    <2>1. m.gw \in Gateway /\ m.lladdr \in Lladdr \union {Zero}
      BY DEF NeighMessage
    <2> QED
      BY <2>1 DEF NeighRecord, ObjState
  <1>5. l \in LinkRecord /\ l = s.link /\ LinkFits(s) /\ s.neigh \in [Neigh -> NeighRecord]
    <2>1. LinkCounts(s, {}) /\ l \in LinkRecord /\ s.neigh \in [Neigh -> NeighRecord]
      BY DEF Fine, Counts, Objects, LinkRecord, NeighRecord
    <2> QED
      BY <2>1, LinkCountsFit
  <1> HIDE DEF t, f, u, l, x
  <1>6. /\ lw \in LinkRecord /\ lw.weak = l.weak + 1 /\ lw.refs = l.refs
        /\ lw.state = l.state /\ lw.info = l.info
    BY <1>5 DEF LinkRecord
  <1> HIDE DEF lw
  <1>7. u.neigh \in [Neigh -> NeighRecord]
        /\ \A n \in Neigh : u.neigh[n] = IF n = f THEN x ELSE s.neigh[n]
    BY <1>2, <1>3, <1>4, <1>5
  <1>8. InTree(u) = InTree(s) \union {f} /\ f \notin InTree(s) /\ Orphans(u) = Orphans(s)
    BY <1>2, <1>4, <1>7 DEF InTree, Orphans
  <1>9. Fine(u, {}, {})
    <2>1. Cardinality(InTree(u)) = Cardinality(InTree(s)) + 1
      BY <1>8, NeighSubsets, FS_AddElement DEF InTree
    <2>2. "INSTALLED" # None
      BY GraphAssumption
    <2>3. LinkCounts(u, {})
      <3>1. \A n \in Neigh : u.neigh[n].fdb => u.neigh[n].state # None
        BY <1>4, <1>5, <1>7, <2>2 DEF LinkFits
      <3> QED
        BY <1>3, <1>5, <1>6, <1>8, <2>1, <3>1, LinkCountsFit DEF LinkFits
    <2>4. \A n \in Neigh : s.target[n].refs > 0 => u.neigh[n].state # None
      BY <1>4, <1>7, <2>2 DEF Fine, Counts, TargetCounts
    <2> QED
      BY <1>3, <1>6, <1>7, <2>3, <2>4, SameCounts
  <1>10. Flows(s, u)
    BY <1>3, FlowsSame DEF Fine
  <1>11. /\ Known(u, m.gw) = {f} /\ u.neigh[f].lladdr = m.lladdr
         /\ \A g \in Gateway : g # m.gw => SameGateway(s, u, g)
         /\ Unique(s) => Unique(u)
    <2>1. Known(u, m.gw) = {f} /\ u.neigh[f].lladdr = m.lladdr
      BY <1>2, <1>4, <1>7 DEF Known
    <2>2. ASSUME NEW g \in Gateway, g # m.gw PROVE SameGateway(s, u, g)
      BY <1>2, <1>4, <1>7, <2>2 DEF SameGateway, Known
    <2>3. ASSUME Unique(s) PROVE Unique(u)
      <3>1. \A n \in InTree(s) : u.neigh[n] = s.neigh[n] /\ s.neigh[n].gw # m.gw
        BY <1>2, <1>7, <1>8 DEF InTree, Known
      <3>2. u.neigh[f].gw = m.gw
        BY <1>2, <1>4, <1>7
      <3> QED
        BY <1>8, <2>3, <3>1, <3>2 DEF Unique
    <2> QED
      BY <2>1, <2>2, <2>3
  <1>12. NeighHeard(s, m, u)
    BY <1>3, <1>5, <1>6, <1>11 DEF NeighHeard
  <1> QED
    BY <1>1, <1>9, <1>10, <1>12 DEF t

\* A neighbour that is known has a new address.
LEMMA ChangeNeigh ==
    ASSUME NEW s, Fine(s, {}, {}), NEW m \in NeighMessage, m.op = "NEWNEIGH",
           s.link.state # None, NEW n \in Known(s, m.gw), n = obj_neigh_fdb_lookup(s, m.gw)
    PROVE  LET t == obj_neigh_netlink_update(s, m) IN
           Flows(s, t) /\ Fine(t, {}, {}) /\ NeighHeard(s, m, t)
  <1> DEFINE t == obj_neigh_netlink_update(s, m)
             u == [s EXCEPT !.neigh[n].lladdr = m.lladdr, !.neigh[n].state = "INSTALLED"]
             y == s.neigh[n]
             x == [y EXCEPT !.lladdr = m.lladdr, !.state = "INSTALLED"]
  <1>0. SUFFICES Flows(s, t) /\ Fine(t, {}, {}) /\ NeighHeard(s, m, t)
    OBVIOUS
  <1>1. n \in Neigh /\ n # None /\ s.neigh[n].fdb /\ s.neigh[n].gw = m.gw
    BY FiniteSets DEF Known
  <1>2. t = IF s.neigh[n].lladdr = m.lladdr THEN s
            ELSE IF s.target[n].refs > 0 THEN NeighUpdate(u, n) ELSE u
    BY <1>1 DEF obj_neigh_netlink_update
  <1> HIDE DEF t
  <1>3. ASSUME s.neigh[n].lladdr = m.lladdr
        PROVE  Flows(s, s) /\ Fine(s, {}, {}) /\ NeighHeard(s, m, s)
    BY <1>3, FlowsReflexive DEF NeighHeard, SameGateway, Fine
  <1>4. /\ Wide(u) /\ SameFlow(s, u) /\ u.target = s.target /\ u.route = s.route
        /\ u.link = s.link /\ u.neigh = [s.neigh EXCEPT ![n] = x]
    BY DEF SameFlow, Fine, Wide, Field
  <1>5. y \in NeighRecord /\ y = s.neigh[n] /\ s.neigh \in [Neigh -> NeighRecord]
        /\ s.link \in LinkRecord
    BY <1>1 DEF Fine, Objects, NeighRecord, LinkRecord
  <1>6. m.lladdr \in Lladdr \union {Zero}
    BY DEF NeighMessage
  <1> HIDE DEF y, u
  <1>7. x \in NeighRecord /\ x.state = "INSTALLED" /\ x.fdb = y.fdb /\ x.gw = y.gw
        /\ x.lladdr = m.lladdr
    BY <1>5, <1>6 DEF NeighRecord, ObjState
  <1> HIDE DEF x
  <1>8. u.neigh \in [Neigh -> NeighRecord]
        /\ \A k \in Neigh : u.neigh[k] = IF k = n THEN x ELSE s.neigh[k]
    BY <1>1, <1>4, <1>5, <1>7
  <1>9. "INSTALLED" # None
    BY GraphAssumption
  <1>10. InTree(u) = InTree(s) /\ Orphans(u) = Orphans(s)
    BY <1>1, <1>5, <1>7, <1>8 DEF InTree, Orphans
  <1>11. Fine(u, {}, {})
    <2>1. LinkCounts(s, {})
      BY DEF Fine, Counts
    <2>2. LinkCounts(u, {})
      BY <1>4, <1>7, <1>8, <1>9, <1>10, <2>1, LinkCountsFit DEF LinkFits
    <2>3. \A k \in Neigh : s.target[k].refs > 0 => u.neigh[k].state # None
      BY <1>7, <1>8, <1>9 DEF Fine, Counts, TargetCounts
    <2> QED
      BY <1>4, <1>5, <1>8, <2>2, <2>3, SameCounts
  <1>12. NeighHeard(s, m, u)
    <2>1. \A g : Known(u, g) = Known(s, g)
      BY <1>1, <1>5, <1>7, <1>8 DEF Known
    <2>2. u.neigh[n].lladdr = m.lladdr /\ n \in Known(s, m.gw)
      BY <1>1, <1>7, <1>8
    <2>3. ASSUME NEW g \in Gateway, g # m.gw PROVE SameGateway(s, u, g)
      BY <1>1, <1>8, <2>1, <2>3 DEF SameGateway, Known
    <2>4. ASSUME Unique(s) PROVE Unique(u)
      BY <1>1, <1>5, <1>7, <1>8, <1>10, <2>4 DEF Unique, InTree
    <2> QED
      BY <1>4, <2>1, <2>2, <2>3, <2>4 DEF NeighHeard
  <1>13. Keeps(u, NeighUpdate(u, n))
    BY <1>4, <1>11, FineCountable, TargetInstallKeeps DEF Fine
  <1>14. Flows(s, u)
    BY <1>4, FlowsSame DEF Fine
  <1> DEFINE v == NeighUpdate(u, n)
  <1> HIDE DEF v
  <1>15. Flows(s, v) /\ Fine(v, {}, {}) /\ NeighHeard(s, m, v)
    <2>1. Keeps(u, v)
      BY <1>13 DEF v
    <2>2. Flows(s, v) /\ Fine(v, {}, {}) /\ v.link = u.link /\ v.neigh = u.neigh
      BY <1>11, <1>14, <2>1, FlowsTransitive, FineKept DEF Keeps, SameObjects
    <2>3. /\ \A g : Known(v, g) = Known(u, g)
          /\ \A g : SameGateway(s, v, g) <=> SameGateway(s, u, g)
          /\ Unique(v) <=> Unique(u)
      BY <2>2 DEF Known, SameGateway, Unique, InTree
    <2> QED
      BY <1>12, <2>2, <2>3 DEF NeighHeard
  <1> QED
    BY <1>2, <1>3, <1>11, <1>12, <1>14, <1>15 DEF v

LEMMA DeleteNeigh ==
    ASSUME NEW s, Fine(s, {}, {}), NEW m \in NeighMessage, m.op = "DELNEIGH",
           s.link.state # None, NEW n \in Known(s, m.gw)
    PROVE  LET t == obj_neigh_reap(s, n) IN
           /\ Flows(s, t)
           /\ t.fault = "none" => Fine(t, {}, {}) /\ NeighHeard(s, m, t)
  <1> DEFINE t == obj_neigh_reap(s, n)
  <1>0. SUFFICES Flows(s, t) /\ (t.fault = "none" => Fine(t, {}, {}) /\ NeighHeard(s, m, t))
    OBVIOUS
  <1>1. n \in Neigh /\ s.neigh[n].fdb /\ s.neigh[n].gw = m.gw /\ s.neigh[n].state # None
    BY DEF Known, Fine, Counts, LinkCounts
  <1>2. Flows(s, t)
    BY <1>1, ReapNeigh, FineCountable DEF Fine
  <1>3. SUFFICES ASSUME t.fault = "none" PROVE Fine(t, {}, {}) /\ NeighHeard(s, m, t)
    BY <1>2
  <1>4. /\ Fine(t, {}, {})
        /\ t.link.state = s.link.state /\ t.link.info = s.link.info
        /\ t.link.refs = s.link.refs
        /\ InTree(t) = InTree(s) \ {n}
        /\ \A k \in Neigh : k # n => t.neigh[k] = s.neigh[k]
    BY <1>1, <1>3, ReapedFine
  <1> HIDE DEF t
  <1>5. ASSUME Unique(s)
        PROVE  /\ Unique(t)
               /\ \A g \in Gateway : g # m.gw => SameGateway(s, t, g)
               /\ Known(t, m.gw) = {}
    <2>1. \A g : Known(t, g) = Known(s, g) \ {n}
      <3>1. \A x, g : Known(x, g) = {k \in InTree(x) : x.neigh[k].gw = g}
        BY DEF Known, InTree
      <3>2. \A k \in InTree(t) : k # n /\ k \in InTree(s) /\ t.neigh[k] = s.neigh[k]
        BY <1>4 DEF InTree
      <3> QED
        BY <1>4, <3>1, <3>2
    <2>2. \A k \in Known(s, m.gw) : k = n
      BY <1>1, <1>5 DEF Unique, Known, InTree
    <2>3. Known(t, m.gw) = {}
      BY <2>1, <2>2
    <2>4. ASSUME NEW g \in Gateway, g # m.gw PROVE SameGateway(s, t, g)
      <3>1. n \notin Known(s, g) /\ \A k \in Known(s, g) : k \in Neigh
        BY <1>1, <2>4 DEF Known
      <3> QED
        BY <1>4, <2>1, <3>1 DEF SameGateway
    <2>5. Unique(t)
      <3>1. \A k \in InTree(t) : k # n /\ k \in InTree(s) /\ t.neigh[k] = s.neigh[k]
        BY <1>4 DEF InTree
      <3> QED
        BY <1>5, <3>1 DEF Unique
    <2> QED
      BY <2>3, <2>4, <2>5
  <1> QED
    BY <1>4, <1>5 DEF NeighHeard

LEMMA DecodeNeigh ==
    ASSUME NEW s, Fine(s, {}, {}), HasRoom(s), NEW m \in NeighMessage
    PROVE  LET t == obj_neigh_netlink_update(s, m) IN
           /\ Flows(s, t)
           /\ t.fault = "none" => Fine(t, {}, {}) /\ NeighHeard(s, m, t)
  <1> DEFINE t == obj_neigh_netlink_update(s, m)
             n == obj_neigh_fdb_lookup(s, m.gw)
  <1>0. SUFFICES Flows(s, t) /\ (t.fault = "none" => Fine(t, {}, {}) /\ NeighHeard(s, m, t))
    OBVIOUS
  <1>1. CASE s.link.state = None
    <2>1. t = s
      BY <1>1 DEF obj_neigh_netlink_update
    <2> QED
      BY <1>1, <2>1, FlowsReflexive DEF Fine, NeighHeard, SameKnown
  <1>2. CASE s.link.state # None /\ m.op = "NEWNEIGH"
    BY <1>2, LookupOk, NewNeigh, ChangeNeigh
  <1>3. CASE s.link.state # None /\ m.op = "DELNEIGH"
    <2>1. t = IF n = None THEN s ELSE obj_neigh_reap(s, n)
      BY <1>3 DEF obj_neigh_netlink_update
    <2> HIDE DEF t
    <2>2. CASE n = None
      <3>1. t = s /\ Known(s, m.gw) = {}
        BY <2>1, <2>2, LookupOk
      <3> QED
        BY <1>3, <3>1, FlowsReflexive DEF Fine, NeighHeard, SameGateway
    <2>3. CASE n # None
      <3>1. n \in Known(s, m.gw)
        BY <2>3, LookupOk
      <3> HIDE DEF n
      <3> QED
        BY <1>3, <2>1, <2>3, <3>1, DeleteNeigh
    <2> QED
      BY <2>2, <2>3
  <1> QED
    BY <1>1, <1>2, <1>3 DEF NeighMessage

-----------------------------------------------------------------------------
(* Steps of the daemon and of the kernel. *)

LEMMA MessageKinds ==
    ASSUME NEW m \in ObjMessage
    PROVE  \/ m.op \in {"NEWLINK", "DELLINK"} /\ m \in LinkMessage
           \/ m.op \in {"NEWNEIGH", "DELNEIGH"} /\ m \in NeighMessage
           \/ m.op \in {"NEWROUTE", "DELROUTE"} /\ m \in RouteMessage
  <1>1. \/ m \in [op : {"NEWLINK"}, info : Info \union {NoVlan}]
        \/ m \in [op : {"DELLINK"}]
        \/ m \in [op : {"NEWNEIGH"}, gw : Gateway, lladdr : Lladdr \union {Zero}]
        \/ m \in [op : {"DELNEIGH"}, gw : Gateway]
        \/ m \in [op : {"NEWROUTE", "DELROUTE"}, dst : Route, gw : Gateway]
    BY DEF ObjMessage
  <1>2. CASE m \in [op : {"NEWLINK"}, info : Info \union {NoVlan}]
    BY <1>2 DEF LinkMessage
  <1>3. CASE m \in [op : {"DELLINK"}]
    BY <1>3 DEF LinkMessage
  <1>4. CASE m \in [op : {"NEWNEIGH"}, gw : Gateway, lladdr : Lladdr \union {Zero}]
    BY <1>4 DEF NeighMessage
  <1>5. CASE m \in [op : {"DELNEIGH"}, gw : Gateway]
    BY <1>5 DEF NeighMessage
  <1>6. CASE m \in [op : {"NEWROUTE", "DELROUTE"}, dst : Route, gw : Gateway]
    BY <1>6 DEF RouteMessage
  <1> QED
    BY <1>1, <1>2, <1>3, <1>4, <1>5, <1>6

\* What is known of the objects after a message.
Heard(s, m, t) ==
    /\ m.op \in {"NEWLINK", "DELLINK"} => LinkHeard(s, m, t)
    /\ m.op \in {"NEWNEIGH", "DELNEIGH"} => NeighHeard(s, m, t)
    /\ m.op \in {"NEWROUTE", "DELROUTE", "NEW", "DEL"} => SameKnown(s, t)

LEMMA DecodeFine ==
    ASSUME NEW s, Fine(s, {}, {}), HasRoom(s), NEW m, m \in ObjMessage \/ m.op \in {"NEW", "DEL"}
    PROVE  LET t == decode_nlmsg_cb(s, m) IN
           /\ Flows(s, t)
           /\ t.fault = "none" => Fine(t, {}, {}) /\ Heard(s, m, t)
  <1> DEFINE t == decode_nlmsg_cb(s, m)
  <1>0. SUFFICES Flows(s, t) /\ (t.fault = "none" => Fine(t, {}, {}) /\ Heard(s, m, t))
    OBVIOUS
  <1>1. CASE m.op \in {"NEWLINK", "DELLINK"} /\ m \in LinkMessage
    <2>1. t = obj_link_netlink_update(s, m)
      BY <1>1 DEF decode_nlmsg_cb
    <2> HIDE DEF t
    <2> QED
      BY <1>1, <2>1, DecodeLink DEF Heard
  <1>2. CASE m.op \in {"NEWNEIGH", "DELNEIGH"} /\ m \in NeighMessage
    <2>1. t = obj_neigh_netlink_update(s, m)
      BY <1>2 DEF decode_nlmsg_cb
    <2> HIDE DEF t
    <2> QED
      BY <1>2, <2>1, DecodeNeigh DEF Heard
  <1>3. CASE m.op \in {"NEWROUTE", "DELROUTE"} /\ m \in RouteMessage
    <2>1. t = decode_route(s, m)
      BY <1>3 DEF decode_nlmsg_cb
    <2> HIDE DEF t
    <2> QED
      BY <1>3, <2>1, DecodeRoute DEF Heard
  <1>4. CASE m.op \in {"NEW", "DEL"}
    <2>1. t = decode_filter(s, m)
      BY <1>4 DEF decode_nlmsg_cb
    <2> HIDE DEF t
    <2>2. Keeps(s, t)
      BY <1>4, <2>1, FilterKeeps, FineCountable DEF Fine
    <2>3. SameKnown(s, t)
      BY <2>2 DEF Keeps, SameObjects, SameKnown, InTree
    <2> QED
      BY <1>4, <2>2, <2>3, FineKept DEF Heard, Keeps
  <1> QED
    BY <1>1, <1>2, <1>3, <1>4, MessageKinds

\* The dump that follows has been scheduled.
Advanced(s, op) ==
    CASE op = "filters" -> Scheduled(s, "links")
      [] op = "links"   -> Scheduled(s, "neighs")
      [] op = "neighs"  -> Scheduled(s, "routes")
      [] OTHER          -> s

LEMMA NextDumpKeeps ==
    ASSUME NEW s, Wide(s), Countable(s), NEW op
    PROVE  Keeps(Advanced(s, op), Kick(NextDump(s, op)))
  <1> DEFINE t == NextDump(s, op)
             a == Advanced(s, op)
  <1>1. Keeps(a, t)
    <2>1. CASE op = "filters"
      <3> DEFINE c == ChainsFound(s)
                 b == Scheduled(c, "links")
      <3>1. /\ Wide(c) /\ SameObjects(s, c) /\ c.work = s.work /\ c.current = s.current
            /\ c.mon = s.mon /\ c.dump = s.dump /\ c.fault = s.fault
        BY DEF ChainsFound, Wide, Field, SameObjects
      <3>2. t = Schedule(c, "links") /\ a = Scheduled(s, "links")
        BY <2>1 DEF NextDump, Advanced
      <3> HIDE DEF c
      <3>3. b.work = a.work
        BY <3>1, <3>2 DEF Scheduled, Wide, Field
      <3>4. /\ Wide(b) /\ SameObjects(c, b) /\ b.fault = c.fault /\ b.current = c.current
            /\ b.mon = c.mon /\ b.dump = c.dump /\ t = Kick(b)
        BY <3>1, <3>2, ScheduledWaits DEF Scans
      <3>5. /\ Wide(a) /\ SameObjects(s, a) /\ a.fault = s.fault /\ a.current = s.current
            /\ a.mon = s.mon /\ a.dump = s.dump
        BY <3>2, ScheduledWaits DEF Scans
      <3> HIDE DEF a, b, t
      <3>6. Keeps(a, b)
        BY <3>1, <3>3, <3>4, <3>5, KeepsSame DEF SameFlow, SameObjects
      <3> QED
        BY <3>4, <3>6, KickKeeps, KeepsTransitive
    <2>2. CASE op = "links"
      <3>1. t = Schedule(s, "neighs") /\ a = Scheduled(s, "neighs")
        BY <2>2 DEF NextDump, Advanced
      <3> HIDE DEF t, a
      <3>2. Wide(a) /\ t = Kick(a)
        BY <3>1, ScheduledWaits DEF Scans
      <3> QED
        BY <3>2, KickKeeps
    <2>3. CASE op = "neighs"
      <3>1. t = Schedule(s, "routes") /\ a = Scheduled(s, "routes")
        BY <2>3 DEF NextDump, Advanced
      <3> HIDE DEF t, a
      <3>2. Wide(a) /\ t = Kick(a)
        BY <3>1, ScheduledWaits DEF Scans
      <3> QED
        BY <3>2, KickKeeps
    <2>4. CASE op \notin {"filters", "links", "neighs"}
      <3>1. a = s /\ (t = RemovePin(s) \/ t = s)
        BY <2>4 DEF NextDump, Advanced
      <3> HIDE DEF t, a
      <3> QED
        BY <3>1, RemovePinKeeps, KeepsReflexive
    <2> QED
      BY <2>1, <2>2, <2>3, <2>4
  <1> HIDE DEF t, a
  <1>2. Keeps(a, Kick(t))
    BY <1>1, KickKeeps, KeepsWide, KeepsTransitive
  <1> QED
    BY <1>2 DEF t, a

LEMMA EmptyUnderstood ==
    IsSeq(<<>>) /\ Understood(<<>>)
  <1>1. <<>> \in Seq({<<>>[k] : k \in 1..Len(<<>>)})
    OBVIOUS
  <1> QED
    BY <1>1 DEF IsSeq, Understood

LEMMA SetUnderstood ==
    ASSUME NEW S \in SUBSET ObjMessage, IsFiniteSet(S)
    PROVE  Understood(SetToSeq(S)) /\ Lists(SetToSeq(S), S)
  <1>1. SetToSeq(S) \in Seq(S) /\ Lists(SetToSeq(S), S)
    BY SetToSeqLists
  <1>2. IsSeq(SetToSeq(S))
    BY <1>1, SeqPoints
  <1> QED
    BY <1>1, <1>2 DEF Understood, Lists

LEMMA OneUnderstood ==
    ASSUME NEW m \in ObjMessage
    PROVE  Understood(<<m>>)
  <1>1. <<m>> \in Seq(ObjMessage) /\ Len(<<m>>) = 1 /\ <<m>>[1] = m
    OBVIOUS
  <1>2. IsSeq(<<m>>)
    BY <1>1, SeqPoints
  <1> QED
    BY <1>1, <1>2 DEF Understood

LEMMA ConcatUnderstood ==
    ASSUME NEW p, Understood(p), NEW q, Understood(q)
    PROVE  Understood(p \o q)
  <1>1. /\ IsSeq(p \o q)
        /\ Len(p) \in Nat /\ Len(q) \in Nat
        /\ Len(p \o q) = Len(p) + Len(q)
        /\ \A k \in 1..Len(p) : (p \o q)[k] = p[k]
        /\ \A k \in 1..Len(q) : (p \o q)[Len(p) + k] = q[k]
    BY ConcatSeq DEF Understood
  <1>2. ASSUME NEW k \in 1..Len(p \o q)
        PROVE  (p \o q)[k] \in ObjMessage \/ (p \o q)[k].op \in {"NEW", "DEL"}
    <2>1. CASE k \in 1..Len(p)
      BY <1>1, <2>1 DEF Understood
    <2>2. CASE k \notin 1..Len(p)
      <3>1. k - Len(p) \in 1..Len(q) /\ Len(p) + (k - Len(p)) = k
        BY <1>1, <2>2
      <3>2. (p \o q)[k] = q[k - Len(p)]
        BY <1>1, <3>1
      <3> QED
        BY <3>1, <3>2 DEF Understood
    <2> QED
      BY <2>1, <2>2
  <1> QED
    BY <1>1, <1>2 DEF Understood

LEMMA TailUnderstood ==
    ASSUME NEW q, Understood(q), q # <<>>
    PROVE  /\ Understood(Tail(q))
           /\ Head(q) \in ObjMessage \/ Head(q).op \in {"NEW", "DEL"}
  <1>1. /\ IsSeq(Tail(q))
        /\ Len(q) \in Nat \ {0}
        /\ Len(Tail(q)) = Len(q) - 1
        /\ \A k \in 1..Len(Tail(q)) : Tail(q)[k] = q[k + 1]
        /\ Head(q) = q[1]
    BY TailSeq DEF Understood
  <1>2. \A k \in 1..Len(Tail(q)) : k + 1 \in 1..Len(q)
    BY <1>1
  <1>3. 1 \in 1..Len(q)
    BY <1>1
  <1> QED
    BY <1>1, <1>2, <1>3 DEF Understood

LEMMA FiniteImage ==
    ASSUME NEW G, IsFiniteSet(G), NEW f, f = [g \in G |-> f[g]]
    PROVE  IsFiniteSet({f[g] : g \in G})
  <1> DEFINE S == {f[g] : g \in G}
  <1>1. f \in [G -> S]
    OBVIOUS
  <1>2. \A x \in S : \E g \in G : f[g] = x
    OBVIOUS
  <1> HIDE DEF S
  <1>3. f \in Surjection(G, S)
    BY <1>1, <1>2 DEF Surjection
  <1>4. IsFiniteSet(S)
    BY <1>3, FS_Surjection
  <1> QED
    BY <1>4 DEF S

\* A dump reports what can be decoded.
LEMMA EntriesUnderstood ==
    ASSUME world \in Worlds, NEW op \in {"links", "neighs", "routes"}
    PROVE  Understood(Entries(op))
  <1>1. /\ world.link \in Info \union {NoVlan, None}
        /\ world.neigh \in [Gateway -> Lladdr \union {Zero, None}]
        /\ world.route \in [Route -> Gateway \union {None}]
    BY DEF Worlds
  <1>2. CASE op = "links"
    <2>1. CASE world.link = None
      BY <1>2, <2>1, EmptyUnderstood DEF Entries
    <2>2. CASE world.link # None
      <3>1. [op |-> "NEWLINK", info |-> world.link] \in ObjMessage
        BY <1>1, <2>2 DEF ObjMessage
      <3> QED
        BY <1>2, <2>2, <3>1, OneUnderstood DEF Entries
    <2> QED
      BY <2>1, <2>2
  <1>3. CASE op = "neighs"
    <2> DEFINE G == {h \in Gateway : world.neigh[h] # None}
               S == {[op |-> "NEWNEIGH", gw |-> g, lladdr |-> world.neigh[g]] : g \in G}
    <2>1. Entries(op) = SetToSeq(S)
      BY <1>3 DEF Entries
    <2>2. IsFiniteSet(G)
      BY FiniteSets, FS_Subset
    <2>3. \A g \in G : g \in Gateway /\ world.neigh[g] \in Lladdr \union {Zero}
      BY <1>1
    <2> HIDE DEF G
    <2>4. IsFiniteSet(S)
      <3> DEFINE f == [g \in G |-> [op |-> "NEWNEIGH", gw |-> g, lladdr |-> world.neigh[g]]]
      <3>1. f = [g \in G |-> f[g]] /\ S = {f[g] : g \in G}
        OBVIOUS
      <3> HIDE DEF f
      <3>2. IsFiniteSet({f[g] : g \in G})
        BY <3>1, <2>2, FiniteImage
      <3> QED
        BY <3>1, <3>2
    <2>5. S \in SUBSET ObjMessage
      BY <2>3 DEF ObjMessage
    <2> HIDE DEF S
    <2> QED
      BY <2>1, <2>4, <2>5, SetUnderstood
  <1>4. CASE op = "routes"
    <2> DEFINE G == {e \in Route : world.route[e] # None}
               S == {[op |-> "NEWROUTE", dst |-> d, gw |-> world.route[d]] : d \in G}
    <2>1. Entries(op) = SetToSeq(S)
      BY <1>4 DEF Entries
    <2>2. IsFiniteSet(G)
      BY FiniteSets, FS_Subset
    <2>3. \A d \in G : d \in Route /\ world.route[d] \in Gateway
      BY <1>1
    <2> HIDE DEF G
    <2>4. IsFiniteSet(S)
      <3> DEFINE f == [d \in G |-> [op |-> "NEWROUTE", dst |-> d, gw |-> world.route[d]]]
      <3>1. f = [d \in G |-> f[d]] /\ S = {f[d] : d \in G}
        OBVIOUS
      <3> HIDE DEF f
      <3>2. IsFiniteSet({f[d] : d \in G})
        BY <3>1, <2>2, FiniteImage
      <3> QED
        BY <3>1, <3>2
    <2>5. S \in SUBSET ObjMessage
      BY <2>3 DEF ObjMessage
    <2> HIDE DEF S
    <2> QED
      BY <2>1, <2>4, <2>5, SetUnderstood
  <1> QED
    BY <1>2, <1>3, <1>4

-----------------------------------------------------------------------------
(* Every step keeps GraphInv. *)

LEMMA AllFields ==
    /\ Wide(All)
    /\ All.work = work /\ All.current = current /\ All.mon = mon /\ All.dump = dump
    /\ All.fault = fault /\ All.rule = rule
    /\ All.link = link /\ All.neigh = neigh /\ All.target = target /\ All.route = route
  BY DEF All, Wide, Field

LEMMA Begins ==
    ASSUME GraphInv, Running
    PROVE  Flow(All) /\ Fine(All, {}, {}) /\ world \in Worlds
  BY AllFields DEF GraphInv, Running, Fine

\* The dump of a request that is sent is the kernel's answer.
LEMMA SentFlows ==
    ASSUME NEW s, Wide(s), Flow(s), world \in Worlds
    PROVE  LET t == Sent(s) IN
           /\ Wide(t) /\ Flow(t) /\ SameObjects(s, t)
           /\ t.work = s.work /\ t.current = s.current /\ t.mon = s.mon /\ t.fault = s.fault
           /\ t.dump = IF s.current # current /\ s.current \in {"links", "neighs", "routes"}
                       THEN Entries(s.current) ELSE s.dump
  <1> DEFINE t == Sent(s)
  <1>1. /\ Wide(t) /\ SameObjects(s, t)
        /\ t.work = s.work /\ t.current = s.current /\ t.mon = s.mon /\ t.fault = s.fault
        /\ t.dump = IF s.current # current /\ s.current \in {"links", "neighs", "routes"}
                    THEN Entries(s.current) ELSE s.dump
    BY DEF Sent, Wide, Field, SameObjects
  <1> HIDE DEF t
  <1>2. Flow(t)
    <2>1. CASE s.current # current /\ s.current \in {"links", "neighs", "routes"}
      <3>1. Understood(Entries(s.current)) /\ t.dump = Entries(s.current)
        BY <1>1, <2>1, EntriesUnderstood
      <3>2. t.current \in Scans
        BY <1>1, <2>1 DEF Scans
      <3> QED
        BY <1>1, <3>1, <3>2, OneScanSame DEF Flow, Scans
    <2>2. CASE ~(s.current # current /\ s.current \in {"links", "neighs", "routes"})
      BY <1>1, <2>2, OneScanSame DEF Flow
    <2> QED
      BY <2>1, <2>2
  <1> QED
    BY <1>1, <1>2 DEF t

\* The daemon's state is now that of t.
LEMMA Ends ==
    ASSUME NEW t, Wide(t), Becomes(t), SameObjects(t, All'), world' \in Worlds,
           t.fault = "none" => Flow(t) /\ Fine(t, {}, {})
    PROVE  GraphInv'
  <1>1. /\ Wide(All')
        /\ All'.work = work' /\ All'.current = current' /\ All'.mon = mon' /\ All'.dump = dump'
        /\ All'.fault = fault'
    BY DEF All, Wide, Field
  <1>2. SameFlow(t, All')
    BY <1>1 DEF SameFlow, Becomes
  <1>3. Keeps(t, All')
    BY <1>2, KeepsSame
  <1>4. t.fault = "none" => Flow(All') /\ Fine(All', {}, {})
    BY <1>3, FineKept DEF Keeps, Flows
  <1>5. fault' = t.fault
    BY DEF Becomes
  <1> QED
    BY <1>4, <1>5 DEF GraphInv, Fine

LEMMA HandledEnds ==
    ASSUME world \in Worlds, NEW s, Wide(s), Handled(s),
           s.fault = "none" => Flow(s) /\ Fine(s, {}, {})
    PROVE  GraphInv'
  <1> DEFINE t == Sent(s)
  <1>1. /\ Wide(t) /\ SameObjects(s, t) /\ t.fault = s.fault
    BY DEF Sent, Wide, Field, SameObjects
  <1>2. Becomes(t) /\ world' = world
    BY DEF Handled
  <1>3. /\ All'.link = link' /\ All'.neigh = neigh' /\ All'.target = target'
        /\ All'.route = route'
    BY DEF All
  <1>4. SameObjects(t, All')
    BY <1>1, <1>3 DEF Handled, SameObjects
  <1>5. ASSUME s.fault = "none" PROVE Flow(t) /\ Fine(t, {}, {})
    <2>1. Flow(t)
      BY <1>5, SentFlows
    <2> HIDE DEF t
    <2> QED
      BY <1>1, <1>5, <2>1, FineSame
  <1> HIDE DEF t
  <1> QED
    BY <1>1, <1>2, <1>4, <1>5, Ends

\* The state in which a message has been taken from its socket.
Took(s) == Wide(s) /\ SameObjects(All, s) /\ s.fault = fault /\ s.work = work /\ s.current = current

LEMMA TakeNotification ==
    ASSUME GraphInv, Running, mon # <<>>
    PROVE  LET s == [All EXCEPT !.mon = Tail(@)] IN
           /\ Took(s) /\ s.mon = Tail(mon) /\ s.dump = dump /\ Flow(s)
           /\ Head(mon) \in ObjMessage \/ Head(mon).op \in {"NEW", "DEL"}
  <1> DEFINE s == [All EXCEPT !.mon = Tail(@)]
  <1>1. Took(s) /\ s.mon = Tail(mon) /\ s.dump = dump
    BY DEF All, Wide, Field, SameObjects, Took
  <1>2. Flow(All) /\ Understood(mon)
    BY Begins, AllFields DEF Flow
  <1>3. Understood(Tail(mon)) /\ (Head(mon) \in ObjMessage \/ Head(mon).op \in {"NEW", "DEL"})
    BY <1>2, TailUnderstood
  <1> HIDE DEF s
  <1>4. Flow(s)
    BY <1>1, <1>2, <1>3, AllFields, OneScanSame DEF Flow, Took
  <1> QED
    BY <1>1, <1>3, <1>4 DEF s

LEMMA TakeEntry ==
    ASSUME GraphInv, Running, dump # <<>>
    PROVE  LET s == [All EXCEPT !.dump = Tail(@)]
               e == Head(dump)
               m == IF current = "filters" THEN [op |-> "NEW", slot |-> e.slot, tcr |-> e.tcr] ELSE e
           IN  /\ Took(s) /\ s.mon = mon /\ s.dump = Tail(dump) /\ Flow(s)
               /\ m \in ObjMessage \/ m.op \in {"NEW", "DEL"}
  <1> DEFINE s == [All EXCEPT !.dump = Tail(@)]
             e == Head(dump)
             m == IF current = "filters" THEN [op |-> "NEW", slot |-> e.slot, tcr |-> e.tcr] ELSE e
  <1>1. Took(s) /\ s.mon = mon /\ s.dump = Tail(dump)
    BY DEF All, Wide, Field, SameObjects, Took
  <1>2. Flow(All) /\ (current # "filters" => Understood(dump)) /\ current \in Scans
    BY Begins, AllFields DEF Flow
  <1>3. m \in ObjMessage \/ m.op \in {"NEW", "DEL"}
    <2>1. CASE current = "filters"
      BY <2>1
    <2>2. CASE current # "filters"
      BY <1>2, <2>2, TailUnderstood
    <2> QED
      BY <2>1, <2>2
  <1>4. current # "filters" => Understood(Tail(dump))
    BY <1>2, TailUnderstood
  <1> HIDE DEF s, m
  <1>5. Flow(s)
    BY <1>1, <1>2, <1>4, AllFields, OneScanSame DEF Flow, Took
  <1> QED
    BY <1>1, <1>3, <1>5 DEF s, m

LEMMA MessageStep ==
    ASSUME GraphInv, Running, Room, NEW s, Took(s), Flow(s),
           NEW m, m \in ObjMessage \/ m.op \in {"NEW", "DEL"},
           Handled(decode_nlmsg_cb(s, m))
    PROVE  GraphInv'
  <1>1. Fine(All, {}, {}) /\ world \in Worlds
    BY Begins
  <1>2. Fine(s, {}, {})
    BY <1>1, FineSame DEF Took
  <1>3. HasRoom(s)
    BY AllFields DEF Room, HasRoom, Took, SameObjects
  <1> DEFINE t == decode_nlmsg_cb(s, m)
  <1>4. Flows(s, t) /\ (t.fault = "none" => Fine(t, {}, {})) /\ Handled(t)
    BY <1>2, <1>3, DecodeFine
  <1> HIDE DEF t
  <1>5. Wide(t) /\ Flow(t)
    BY <1>4 DEF Flows
  <1> QED
    BY <1>1, <1>4, <1>5, HandledEnds

LEMMA NotifiedStep ==
    ASSUME GraphInv, Notified
    PROVE  GraphInv'
  <1> DEFINE s == [All EXCEPT !.mon = Tail(@)]
             m == Head(mon)
  <1>1. Running /\ Room /\ mon # <<>> /\ Handled(decode_nlmsg_cb(s, m))
    BY DEF Notified
  <1>2. Took(s) /\ Flow(s) /\ (m \in ObjMessage \/ m.op \in {"NEW", "DEL"})
    BY <1>1, TakeNotification
  <1> HIDE DEF s, m
  <1> QED
    BY <1>1, <1>2, MessageStep

LEMMA DumpedStep ==
    ASSUME GraphInv, Dumped
    PROVE  GraphInv'
  <1> DEFINE s == [All EXCEPT !.dump = Tail(@)]
             e == Head(dump)
             m == IF current = "filters" THEN [op |-> "NEW", slot |-> e.slot, tcr |-> e.tcr] ELSE e
  <1>1. Running /\ Room /\ dump # <<>> /\ Handled(decode_nlmsg_cb(s, m))
    BY DEF Dumped
  <1>2. Took(s) /\ Flow(s) /\ (m \in ObjMessage \/ m.op \in {"NEW", "DEL"})
    BY <1>1, TakeEntry
  <1> HIDE DEF s, m
  <1> QED
    BY <1>1, <1>2, MessageStep

\* The request in flight is done with, and the dump that follows is scheduled.
LEMMA TakeCompletion ==
    ASSUME GraphInv, Running, dump = <<>>
    PROVE  LET s == [All EXCEPT !.current = "none"]
               a == Advanced(s, current)
           IN  /\ Wide(s) /\ SameObjects(All, s) /\ s.current = "none" /\ s.work = work
               /\ s.mon = mon /\ s.dump = <<>> /\ Flow(s)
               /\ Wide(a) /\ SameObjects(All, a) /\ a.fault = fault /\ a.mon = mon
               /\ a.dump = <<>> /\ a.current = "none" /\ Flow(a)
               /\ current = "filters" => InWork(a, "links")
               /\ current = "links" => InWork(a, "neighs")
               /\ current = "neighs" => InWork(a, "routes")
               /\ \A op : InWork(All, op) => InWork(a, op)
  <1> DEFINE s == [All EXCEPT !.current = "none"]
             a == Advanced(s, current)
  <1>1. /\ Wide(s) /\ SameObjects(All, s)
        /\ s.fault = fault /\ s.work = work /\ s.mon = mon /\ s.dump = <<>> /\ s.current = "none"
    BY DEF All, Wide, Field, SameObjects
  <1>2. Flow(All)
    BY Begins
  <1> HIDE DEF s
  <1>4. \A op : InWork(s, op) <=> InWork(All, op)
    BY <1>1, AllFields DEF InWork
  <1>5. OneScan(s) /\ (current \in Scans => NoScan(s))
    BY <1>1, <1>2, <1>4, AllFields DEF OneScan, NoScan, Flow, Scans
  <1>6. Flow(s)
    BY <1>1, <1>2, <1>5, AllFields, EmptyUnderstood DEF Flow
  <1>7. ASSUME NEW op \in Scans, NoScan(s)
        PROVE  LET b == Scheduled(s, op) IN
               /\ Wide(b) /\ SameObjects(All, b) /\ b.fault = fault /\ b.mon = mon
               /\ b.dump = <<>> /\ b.current = "none" /\ Flow(b) /\ InWork(b, op)
               /\ \A o : InWork(All, o) => InWork(b, o)
    <2> DEFINE b == Scheduled(s, op)
    <2>1. /\ Wide(b) /\ SameObjects(s, b) /\ b.fault = s.fault /\ b.current = s.current
          /\ b.mon = s.mon /\ b.dump = s.dump /\ Flow(b) /\ InWork(b, op)
      BY <1>1, <1>6, <1>7, ScheduledWaits
    <2>2. b.work = Append(work, Change(op, NoRule))
      BY <1>1 DEF Scheduled, Wide, Field
    <2>3. IsSeq(work)
      BY <1>2, AllFields DEF Flow
    <2> HIDE DEF b
    <2>4. \A o : InWork(All, o) => InWork(b, o)
      BY <2>2, <2>3, AppendSeq, AllFields DEF InWork
    <2> QED
      BY <1>1, <2>1, <2>4 DEF SameObjects, b
  <1>8. CASE current = "filters"
    <2>1. a = Scheduled(s, "links") /\ NoScan(s) /\ "links" \in Scans
      BY <1>5, <1>8 DEF Advanced, Scans
    <2> HIDE DEF a
    <2> QED
      BY <1>1, <1>6, <1>7, <1>8, <2>1 DEF s, a
  <1>9. CASE current = "links"
    <2>1. a = Scheduled(s, "neighs") /\ NoScan(s) /\ "neighs" \in Scans
      BY <1>5, <1>9 DEF Advanced, Scans
    <2> HIDE DEF a
    <2> QED
      BY <1>1, <1>6, <1>7, <1>9, <2>1 DEF s, a
  <1>10. CASE current = "neighs"
    <2>1. a = Scheduled(s, "routes") /\ NoScan(s) /\ "routes" \in Scans
      BY <1>5, <1>10 DEF Advanced, Scans
    <2> HIDE DEF a
    <2> QED
      BY <1>1, <1>6, <1>7, <1>10, <2>1 DEF s, a
  <1>11. CASE current \notin {"filters", "links", "neighs"}
    <2>1. a = s
      BY <1>11 DEF Advanced
    <2> HIDE DEF a
    <2> QED
      BY <1>1, <1>4, <1>6, <1>11, <2>1 DEF s, a
  <1> QED
    BY <1>8, <1>9, <1>10, <1>11

LEMMA CompletedStep ==
    ASSUME GraphInv, Completed
    PROVE  GraphInv'
  <1> DEFINE s == [All EXCEPT !.current = "none"]
             a == Advanced(s, current)
             t == Kick(NextDump(s, current))
  <1>1. Running /\ dump = <<>> /\ Handled(t)
    BY DEF Completed
  <1>2. Wide(s) /\ SameObjects(All, s) /\ Wide(a) /\ SameObjects(All, a) /\ Flow(a)
    BY <1>1, TakeCompletion
  <1>3. Fine(All, {}, {}) /\ world \in Worlds
    BY <1>1, Begins
  <1> HIDE DEF s
  <1>4. Fine(s, {}, {})
    BY <1>2, <1>3, FineSame
  <1>5. Keeps(a, t)
    BY <1>2, <1>4, NextDumpKeeps, FineCountable DEF Fine
  <1> HIDE DEF t, a
  <1>6. Wide(t) /\ Flow(t) /\ Fine(t, {}, {})
    BY <1>2, <1>3, <1>5, FineSame, FineKept DEF Keeps, Flows
  <1> QED
    BY <1>1, <1>3, <1>6, HandledEnds

\* The scan begins again.
LEMMA TakeTimeout ==
    ASSUME GraphInv, Running, ~GraphScanning
    PROVE  LET a == Scheduled(All, "filters") IN
           /\ Wide(a) /\ SameObjects(All, a) /\ a.fault = fault /\ a.mon = mon
           /\ a.dump = dump /\ a.current = current /\ Flow(a) /\ InWork(a, "filters")
           /\ \A op \in Scans : ~InWork(All, op) /\ current # op
           /\ Schedule(All, "filters") = Kick(a)
  <1>1. Flow(All) /\ Wide(All)
    BY Begins DEF Fine
  <1>2. \A op \in Scans : ~InWork(All, op) /\ current # op
    BY AllFields DEF GraphScanning, InWork, Scans
  <1>3. NoScan(All) /\ "filters" \in Scans
    BY <1>2, AllFields DEF NoScan, Scans
  <1> QED
    BY <1>1, <1>2, <1>3, ScheduledWaits, AllFields

LEMMA RescanStep ==
    ASSUME GraphInv, Rescan
    PROVE  GraphInv'
  <1> DEFINE s == Schedule(All, "filters")
             a == Scheduled(All, "filters")
             t == Sent(s)
  <1>1. Running /\ ~GraphScanning /\ Becomes(t) /\ world' = world
        /\ link' = link /\ neigh' = neigh /\ target' = target /\ route' = route
    BY DEF Rescan
  <1>2. Fine(All, {}, {}) /\ world \in Worlds
    BY <1>1, Begins
  <1>3. Wide(a) /\ SameObjects(All, a) /\ Flow(a) /\ s = Kick(a)
    BY <1>1, TakeTimeout
  <1> HIDE DEF s, a
  <1>4. Keeps(a, s)
    BY <1>3, KickKeeps
  <1>5. Wide(s) /\ Flow(s) /\ Fine(s, {}, {}) /\ SameObjects(All, s)
    BY <1>2, <1>3, <1>4, FineSame, FineKept DEF Keeps, Flows, SameObjects
  <1>6. Wide(t) /\ Flow(t) /\ SameObjects(s, t)
    BY <1>2, <1>5, SentFlows
  <1> HIDE DEF t
  <1>7. Fine(t, {}, {})
    BY <1>5, <1>6, FineSame
  <1>8. /\ All'.link = link' /\ All'.neigh = neigh' /\ All'.target = target'
        /\ All'.route = route'
    BY DEF All
  <1>9. SameObjects(t, All')
    BY <1>1, <1>5, <1>6, <1>8, AllFields DEF SameObjects
  <1> QED
    BY <1>1, <1>2, <1>6, <1>7, <1>9, Ends

LEMMA EventEnds ==
    ASSUME GraphInv, Event, world' \in Worlds, Understood(mon) => Understood(mon')
    PROVE  GraphInv'
  <1>1. Flow(All) /\ Fine(All, {}, {})
    BY Begins DEF Event
  <1>2. /\ Wide(All') /\ SameObjects(All, All')
        /\ All'.work = work /\ All'.current = current /\ All'.mon = mon' /\ All'.dump = dump
    BY DEF All, Wide, Field, SameObjects, Event
  <1>3. Flow(All')
    BY <1>1, <1>2, AllFields, OneScanSame DEF Flow
  <1>4. Fine(All', {}, {})
    BY <1>1, <1>2, FineSame
  <1> QED
    BY <1>3, <1>4 DEF GraphInv, Fine

LEMMA AnnounceUnderstood ==
    ASSUME NEW ms, Understood(ms), NEW g
    PROVE  Understood(mon) => Understood(Announce(ms, g))
  BY ConcatUnderstood DEF Announce

LEMMA KernelStep ==
    ASSUME GraphInv, Kernel
    PROVE  GraphInv'
  <1>1. world \in Worlds
    BY DEF GraphInv
  <1>2. /\ world = [link |-> world.link, neigh |-> world.neigh, route |-> world.route]
        /\ world.link \in Info \union {NoVlan, None}
        /\ world.neigh \in [Gateway -> Lladdr \union {Zero, None}]
        /\ world.route \in [Route -> Gateway \union {None}]
        /\ world.link = None => /\ \A g \in Gateway : world.neigh[g] = None
                                /\ \A d \in Route : world.route[d] = None
    BY <1>1 DEF Worlds
  <1>3. ASSUME NEW info \in Info \union {NoVlan}, LinkChanges(info)
        PROVE  GraphInv'
    <2> DEFINE ms == <<[op |-> "NEWLINK", info |-> info]>>
    <2>1. [op |-> "NEWLINK", info |-> info] \in ObjMessage
      BY DEF ObjMessage
    <2>2. Understood(ms)
      BY <2>1, OneUnderstood
    <2>3. Event /\ mon' = Announce(ms, "link") /\ world' = [world EXCEPT !.link = info]
      BY <1>3 DEF LinkChanges
    <2> HIDE DEF ms
    <2>4. Understood(mon) => Understood(mon')
      BY <2>2, <2>3, AnnounceUnderstood
    <2>5. world' \in Worlds
      BY <1>2, <2>3, GraphAssumption DEF Worlds
    <2> QED
      BY <2>3, <2>4, <2>5, EventEnds
  <1>4. CASE LinkGoes
    <2> DEFINE G == {h \in Gateway : world.neigh[h] # None}
               S == {[op |-> "DELNEIGH", gw |-> g] : g \in G}
               ms == SetToSeq(S) \o <<[op |-> "DELLINK"]>>
    <2>1. IsFiniteSet(G)
      BY FiniteSets, FS_Subset
    <2>2. IsFiniteSet(S)
      <3> DEFINE f == [g \in G |-> [op |-> "DELNEIGH", gw |-> g]]
      <3> HIDE DEF G
      <3>1. f = [g \in G |-> f[g]] /\ S = {f[g] : g \in G}
        OBVIOUS
      <3> HIDE DEF f
      <3>2. IsFiniteSet({f[g] : g \in G})
        BY <3>1, <2>1, FiniteImage
      <3> QED
        BY <3>1, <3>2
    <2>3. S \in SUBSET ObjMessage /\ [op |-> "DELLINK"] \in ObjMessage
      BY DEF ObjMessage
    <2>4. /\ Event /\ mon' = Announce(ms, "link")
          /\ world' = [link |-> None, neigh |-> [g \in Gateway |-> None],
                       route |-> [d \in Route |-> None]]
      BY <1>4 DEF LinkGoes
    <2> HIDE DEF S, G
    <2>5. Understood(ms)
      BY <2>2, <2>3, SetUnderstood, OneUnderstood, ConcatUnderstood
    <2> HIDE DEF ms
    <2>6. Understood(mon) => Understood(mon')
      BY <2>4, <2>5, AnnounceUnderstood
    <2>7. world' \in Worlds
      BY <2>4 DEF Worlds
    <2> QED
      BY <2>4, <2>6, <2>7, EventEnds
  <1>5. ASSUME NEW g \in Gateway, NEW a \in Lladdr \union {Zero}, NeighChanges(g, a)
        PROVE  GraphInv'
    <2> DEFINE ms == <<[op |-> "NEWNEIGH", gw |-> g, lladdr |-> a]>>
    <2>1. [op |-> "NEWNEIGH", gw |-> g, lladdr |-> a] \in ObjMessage
      BY DEF ObjMessage
    <2>2. Understood(ms)
      BY <2>1, OneUnderstood
    <2>3. /\ Event /\ mon' = Announce(ms, "neigh") /\ world' = [world EXCEPT !.neigh[g] = a]
          /\ world.link # None
      BY <1>5 DEF NeighChanges
    <2> HIDE DEF ms
    <2>4. Understood(mon) => Understood(mon')
      BY <2>2, <2>3, AnnounceUnderstood
    <2>5. world' \in Worlds
      BY <1>2, <2>3 DEF Worlds
    <2> QED
      BY <2>3, <2>4, <2>5, EventEnds
  <1>6. ASSUME NEW g \in Gateway, NeighGoes(g)
        PROVE  GraphInv'
    <2> DEFINE ms == <<[op |-> "DELNEIGH", gw |-> g]>>
    <2>1. [op |-> "DELNEIGH", gw |-> g] \in ObjMessage
      BY DEF ObjMessage
    <2>2. Understood(ms)
      BY <2>1, OneUnderstood
    <2>3. Event /\ mon' = Announce(ms, "neigh") /\ world' = [world EXCEPT !.neigh[g] = None]
      BY <1>6 DEF NeighGoes
    <2> HIDE DEF ms
    <2>4. Understood(mon) => Understood(mon')
      BY <2>2, <2>3, AnnounceUnderstood
    <2>5. world' \in Worlds
      BY <1>2, <2>3 DEF Worlds
    <2> QED
      BY <2>3, <2>4, <2>5, EventEnds
  <1>7. ASSUME NEW d \in Route, NEW g \in Gateway, RouteChanges(d, g)
        PROVE  GraphInv'
    <2> DEFINE ms == <<[op |-> "NEWROUTE", dst |-> d, gw |-> g]>>
    <2>1. [op |-> "NEWROUTE", dst |-> d, gw |-> g] \in ObjMessage
      BY DEF ObjMessage
    <2>2. Understood(ms)
      BY <2>1, OneUnderstood
    <2>3. /\ Event /\ mon' = Announce(ms, "route4") /\ world' = [world EXCEPT !.route[d] = g]
          /\ world.link # None
      BY <1>7 DEF RouteChanges
    <2> HIDE DEF ms
    <2>4. Understood(mon) => Understood(mon')
      BY <2>2, <2>3, AnnounceUnderstood
    <2>5. world' \in Worlds
      BY <1>2, <2>3 DEF Worlds
    <2> QED
      BY <2>3, <2>4, <2>5, EventEnds
  <1>8. ASSUME NEW d \in Route, RouteGoes(d)
        PROVE  GraphInv'
    <2> DEFINE ms == <<[op |-> "DELROUTE", dst |-> d, gw |-> world.route[d]]>>
    <2>1. world.route[d] \in Gateway
      BY <1>2, <1>8 DEF RouteGoes
    <2>2. [op |-> "DELROUTE", dst |-> d, gw |-> world.route[d]] \in ObjMessage
      BY <2>1 DEF ObjMessage
    <2>3. Understood(ms)
      BY <2>2, OneUnderstood
    <2>4. Event /\ mon' = Announce(ms, "route4") /\ world' = [world EXCEPT !.route[d] = None]
      BY <1>8 DEF RouteGoes
    <2> HIDE DEF ms
    <2>5. Understood(mon) => Understood(mon')
      BY <2>3, <2>4, AnnounceUnderstood
    <2>6. world' \in Worlds
      BY <1>2, <2>4 DEF Worlds
    <2> QED
      BY <2>4, <2>5, <2>6, EventEnds
  <1> QED
    BY <1>3, <1>4, <1>5, <1>6, <1>7, <1>8 DEF Kernel

LEMMA InitGraphInv ==
    ASSUME GraphInit
    PROVE  GraphInv
  <1>1. world \in Worlds
    BY GraphAssumption DEF GraphInit
  <1>2. /\ work = <<>> /\ current = "filters" /\ mon = <<>>
        /\ link = NoLink /\ neigh = [n \in Neigh |-> NoNeigh]
        /\ target = [n \in Neigh |-> NoTarget] /\ route = [d \in Route |-> NoRoute]
    BY DEF GraphInit, Start
  <1>3. Flow(All)
    <2>1. OneScan(All)
      BY <1>2, AllFields DEF OneScan, InWork
    <2> QED
      BY <1>2, <2>1, AllFields, EmptyUnderstood DEF Flow, Scans
  <1>4. Objects(All)
    <2>1. link \in [state : ObjState, refs : Nat, weak : Nat, info : Info \union {NoVlan, None}]
      BY <1>2 DEF NoLink, ObjState
    <2>2. neigh \in [Neigh -> [state : ObjState, gw : Gateway \union {None},
                               lladdr : Lladdr \union {Zero}, fdb : BOOLEAN]]
      BY <1>2 DEF NoNeigh, ObjState
    <2>3. target \in [Neigh -> [refs : 0..1, weak : Nat, routes : Seq(Route)]]
      BY <1>2 DEF NoTarget
    <2>4. route \in [Route -> [state : ObjState, refs : Nat, target : Neigh \union {None}]]
      BY <1>2 DEF NoRoute, ObjState
    <2> QED
      BY <2>1, <2>2, <2>3, <2>4, AllFields DEF Objects
  <1>5. InTree(All) = {} /\ Orphans(All) = {} /\ \A n \in Neigh : Through(All, n) = {}
    BY <1>2, AllFields, FiniteSets DEF InTree, Orphans, Through, NoNeigh, NoRoute
  <1>6. Cardinality({}) = 0
    BY FS_EmptySet
  <1>7. LinkCounts(All, {})
    BY <1>2, <1>5, <1>6, AllFields DEF LinkCounts, NoLink, NoNeigh
  <1>8. TargetCounts(All)
    <2>1. Lists(<<>>, {})
      BY DEF Lists
    <2>2. \A n \in Neigh : target[n].refs = 0 /\ target[n].weak = 0 /\ target[n].routes = <<>>
      BY <1>2 DEF NoTarget
    <2>3. ~(0 > 0)
      OBVIOUS
    <2> QED
      BY <1>5, <1>6, <2>1, <2>2, <2>3, AllFields, Zenon DEF TargetCounts
  <1>9. RouteCounts(All, {})
    BY <1>2, AllFields DEF RouteCounts, NoRoute
  <1> QED
    BY <1>1, <1>3, <1>4, <1>7, <1>8, <1>9 DEF GraphInv, Counts

LEMMA NextGraphInv ==
    ASSUME GraphInv, [GraphNext]_graphVars
    PROVE  GraphInv'
  <1>1. CASE Notified
    BY <1>1, NotifiedStep
  <1>2. CASE Dumped
    BY <1>2, DumpedStep
  <1>3. CASE Completed
    BY <1>3, CompletedStep
  <1>4. CASE Rescan
    BY <1>4, RescanStep
  <1>5. CASE Kernel
    BY <1>5, KernelStep
  <1>6. CASE UNCHANGED graphVars
    <2>1. All' = All /\ world' = world /\ fault' = fault
      BY <1>6 DEF All, graphVars, graph, vars
    <2> QED
      BY <2>1 DEF GraphInv
  <1> QED
    BY <1>1, <1>2, <1>3, <1>4, <1>5, <1>6 DEF GraphNext, Daemon

\* Whatever the kernel's tables become, and whatever of it the daemon has heard
\* when: messages can be decoded, objects have their types, and every count and
\* list agrees with the pointers it stands for.
THEOREM GraphInvariance == GraphSpec => []GraphInv
  <1>1. GraphInit => GraphInv
    BY InitGraphInv
  <1>2. GraphInv /\ [GraphNext]_graphVars => GraphInv'
    BY NextGraphInv
  <1> QED
    BY <1>1, <1>2, PTL DEF GraphSpec

\* Reference counting over the whole graph (obj.h, and the link and unlink
\* functions of obj_target.c, obj_neigh.c and obj_link.c): no object is freed
\* that is pointed to, and none is kept for a pointer that is gone.
THEOREM CountsMatchPointers == GraphSpec => []CountsMatch
  <1>1. GraphInv => CountsMatch
    <2> SUFFICES ASSUME GraphInv, Running
                 PROVE  CountsMatch
      BY DEF CountsMatch
    <2>1. Objects(All) /\ LinkCounts(All, {}) /\ TargetCounts(All) /\ RouteCounts(All, {})
      BY Begins DEF Fine, Counts
    <2>2. /\ link.weak = Cardinality({n \in Neigh : neigh[n].fdb})
          /\ link.refs = Cardinality({n \in Neigh : neigh[n].state # None /\ ~neigh[n].fdb})
      <3>1. Orphans(All) \ {} = Orphans(All)
        OBVIOUS
      <3> QED
        BY <2>1, <3>1, AllFields DEF LinkCounts, InTree, Orphans
    <2>3. ASSUME NEW n \in Neigh
          PROVE  LET through == {d \in Route : route[d].target = n} IN
                 /\ target[n].weak = Cardinality(through)
                 /\ ToSet(target[n].routes) = through
                 /\ Len(target[n].routes) = Cardinality(through)
                 /\ target[n].refs > 0 => neigh[n].state # None
      <3> DEFINE S == Through(All, n)
                 q == target[n].routes
      <3>1. q \in Seq(Route) /\ S \in SUBSET Route
        BY <2>1, AllFields DEF Objects, Through
      <3>2. /\ Lists(q, S) /\ target[n].weak = Cardinality(S)
            /\ target[n].refs > 0 => neigh[n].state # None
        BY <2>1, AllFields DEF TargetCounts
      <3>3. S = {d \in Route : route[d].target = n}
        BY AllFields DEF Through
      <3> HIDE DEF S, q
      <3>4. Len(q) = Cardinality(S) /\ {q[k] : k \in 1..Len(q)} = S
        BY <3>1, <3>2, ListsLength
      <3>5. ToSet(q) = S
        BY <3>1, <3>4 DEF ToSet
      <3> QED
        BY <3>2, <3>3, <3>4, <3>5 DEF q
    <2>4. \A d \in Route : route[d].refs = IF route[d].target = None THEN 0 ELSE 1
      <3> SUFFICES ASSUME NEW d \in Route
                   PROVE  route[d].refs = IF route[d].target = None THEN 0 ELSE 1
        OBVIOUS
      <3>1. route[d].refs = (IF route[d].target = None THEN 0 ELSE 1)
                            + (IF d \in {} THEN 1 ELSE 0)
        BY <2>1, AllFields DEF RouteCounts
      <3> QED
        BY <3>1
    <2> QED
      BY <2>2, <2>3, <2>4 DEF CountsMatch
  <1> QED
    BY <1>1, GraphInvariance, PTL

-----------------------------------------------------------------------------
(* What the daemon knows of the link and of its neighbours follows the      *)
(* kernel.  First come facts about mail, the messages on the monitor        *)
(* socket; then each kind of step, and last the invariant.                  *)

(* Mail: the last message about something. *)

LEMMA GreatestNumber ==
    ASSUME NEW n \in Nat, NEW S \in SUBSET (1..n), S # {}
    PROVE  \E m \in S : \A k \in S : k <= m
  <1> DEFINE T == {n - k : k \in S}
  <1>1. T \in SUBSET Nat /\ T # {}
    <2>1. \A k \in S : k \in 1..n
      OBVIOUS
    <2>2. \A k \in S : n - k \in Nat
      BY <2>1
    <2>3. PICK k \in S : TRUE
      OBVIOUS
    <2>4. n - k \in T
      BY <2>3
    <2> QED
      BY <2>2, <2>4
  <1>2. PICK l \in T : \A i \in T : l <= i
    BY <1>1, LeastNumber
  <1>3. PICK m \in S : l = n - m
    BY <1>2
  <1>4. ASSUME NEW k \in S PROVE k <= m
    <2>1. l <= n - k
      BY <1>2
    <2> QED
      BY <1>3, <2>1
  <1> QED
    BY <1>4

LEMMA LastLink ==
    ASSUME NEW q, IsSeq(q), NEW k \in 1..Len(q), AboutLink(q[k])
    PROVE  \E j \in 1..Len(q) : k <= j /\ LastOfLink(q, j)
  <1> DEFINE S == {j \in 1..Len(q) : AboutLink(q[j])}
  <1>1. Len(q) \in Nat
    BY DEF IsSeq
  <1>2. S \in SUBSET (1..Len(q)) /\ k \in S
    OBVIOUS
  <1>3. PICK m \in S : \A i \in S : i <= m
    BY <1>1, <1>2, GreatestNumber
  <1>4. m \in 1..Len(q) /\ AboutLink(q[m]) /\ k <= m
    BY <1>2, <1>3
  <1>5. \A j \in 1..Len(q) : j > m => ~AboutLink(q[j])
    BY <1>1, <1>3, <1>4
  <1> QED
    BY <1>4, <1>5 DEF LastOfLink

LEMMA LastNeigh ==
    ASSUME NEW q, IsSeq(q), NEW g, NEW k \in 1..Len(q), AboutNeigh(q[k], g)
    PROVE  \E j \in 1..Len(q) : k <= j /\ LastOfNeigh(q, j, g)
  <1> DEFINE S == {j \in 1..Len(q) : AboutNeigh(q[j], g)}
  <1>1. Len(q) \in Nat
    BY DEF IsSeq
  <1>2. S \in SUBSET (1..Len(q)) /\ k \in S
    OBVIOUS
  <1>3. PICK m \in S : \A i \in S : i <= m
    BY <1>1, <1>2, GreatestNumber
  <1>4. m \in 1..Len(q) /\ AboutNeigh(q[m], g) /\ k <= m
    BY <1>2, <1>3
  <1>5. \A j \in 1..Len(q) : j > m => ~AboutNeigh(q[j], g)
    BY <1>1, <1>3, <1>4
  <1> QED
    BY <1>4, <1>5 DEF LastOfNeigh

\* The kind of a message tells what it is about, and what it says.
LEMMA Kinds ==
    ASSUME NEW m, m \in ObjMessage \/ m.op \in {"NEW", "DEL"}
    PROVE  /\ m.op \in {"NEWLINK", "DELLINK", "NEWNEIGH", "DELNEIGH", "NEWROUTE", "DELROUTE",
                        "NEW", "DEL"}
           /\ m.op = "NEWLINK" => LinkSays(m) # None
           /\ m.op = "DELLINK" => LinkSays(m) = None
           /\ m.op = "NEWNEIGH" => NeighSays(m) # None
           /\ m.op = "DELNEIGH" => NeighSays(m) = None
           /\ m.op \in {"NEWNEIGH", "DELNEIGH"} => m.gw \in Gateway
  BY GraphAssumption, Zenon DEF ObjMessage, LinkSays, NeighSays

\* When the link is there and a message said it had gone, one says it came back.
LEMMA ComesBack ==
    ASSUME NEW q, Understood(q), NEW w, MailTrue(q, w), w.link # None,
           NEW i \in 1..Len(q), AboutLink(q[i])
    PROVE  \E j \in 1..Len(q) : i <= j /\ q[j].op = "NEWLINK"
  <1>1. IsSeq(q)
    BY DEF Understood
  <1>2. PICK j \in 1..Len(q) : i <= j /\ LastOfLink(q, j)
    BY <1>1, LastLink
  <1>3. LinkSays(q[j]) # None /\ AboutLink(q[j])
    BY <1>2 DEF MailTrue, LastOfLink
  <1>4. q[j].op = "NEWLINK"
    BY <1>3 DEF LinkSays, AboutLink
  <1> QED
    BY <1>2, <1>4

\* The last message about a neighbour that is there says so.
LEMMA SaysThere ==
    ASSUME NEW q, Understood(q), NEW w, MailTrue(q, w), NEW g \in Gateway, w.neigh[g] # None,
           NEW i \in 1..Len(q), AboutNeigh(q[i], g)
    PROVE  \E j \in 1..Len(q) : i <= j /\ q[j].op = "NEWNEIGH" /\ LastOfNeigh(q, j, g) /\ q[j].gw = g
  <1>1. IsSeq(q)
    BY DEF Understood
  <1>2. PICK j \in 1..Len(q) : i <= j /\ LastOfNeigh(q, j, g)
    BY <1>1, LastNeigh
  <1>3. NeighSays(q[j]) # None /\ AboutNeigh(q[j], g)
    BY <1>2 DEF MailTrue, LastOfNeigh
  <1>4. q[j].op = "NEWNEIGH" /\ q[j].gw = g
    BY <1>3 DEF NeighSays, AboutNeigh
  <1> QED
    BY <1>2, <1>4

-----------------------------------------------------------------------------
(* Filters are announced. *)

\* What holds of mail holds of what it was extended to.
LEMMA MailExtends ==
    ASSUME NEW p, IsSeq(p), NEW q, IsSeq(q), Extends(p, q), NEW w
    PROVE  /\ MailTrue(p, w) => MailTrue(q, w)
           /\ MailInOrder(p, w) => MailInOrder(q, w)
           /\ MailOfLink(p, w) => MailOfLink(q, w)
           /\ HasLink(p) => HasLink(q)
           /\ \A g : HasNeigh(p, g) => HasNeigh(q, g)
  <1>1. Len(p) \in Nat /\ Len(q) \in Nat /\ Len(p) <= Len(q)
    BY DEF IsSeq, Extends
  <1>2. \A k \in 1..Len(p) : k \in 1..Len(q) /\ q[k] = p[k]
    BY <1>1 DEF Extends
  <1>3. \A k \in 1..Len(q) : k \in 1..Len(p) \/ q[k].op \in {"NEW", "DEL"}
    BY <1>1 DEF Extends
  <1>4. ASSUME NEW k \in 1..Len(q), AboutLink(q[k]) \/ \E g : AboutNeigh(q[k], g)
        PROVE  k \in 1..Len(p) /\ q[k] = p[k]
    BY <1>2, <1>3, <1>4 DEF AboutLink, AboutNeigh
  <1>5. \A k \in 1..Len(q) : LastOfLink(q, k) => k \in 1..Len(p) /\ LastOfLink(p, k)
    BY <1>2, <1>4 DEF LastOfLink
  <1>6. \A k \in 1..Len(q) : \A g : LastOfNeigh(q, k, g) => k \in 1..Len(p) /\ LastOfNeigh(p, k, g)
    BY <1>2, <1>4 DEF LastOfNeigh
  <1>7. \A g, k : Announced(p, g, k) => Announced(q, g, k)
    BY <1>2 DEF Announced
  <1>8. \A i, k : Appears(p, i, k) => Appears(q, i, k)
    BY <1>2 DEF Appears
  <1>9. MailTrue(p, w) => MailTrue(q, w)
    BY <1>2, <1>5, <1>6 DEF MailTrue
  <1>10. \A k \in 1..Len(q) : q[k].op = "DELLINK" => k \in 1..Len(p) /\ q[k] = p[k]
    BY <1>4 DEF AboutLink
  <1>11. MailInOrder(p, w) => MailInOrder(q, w)
    <2>1. SUFFICES ASSUME MailInOrder(p, w) PROVE MailInOrder(q, w)
      OBVIOUS
    <2>2. ASSUME NEW k \in 1..Len(q), NEW g \in Gateway, q[k].op = "DELLINK", w.neigh[g] # None
          PROVE  Announced(q, g, k)
      BY <1>7, <1>10, <2>1, <2>2 DEF MailInOrder
    <2>3. ASSUME NEW i \in 1..Len(q), NEW k \in 1..Len(q), NEW g \in Gateway,
                 i < k, q[i].op = "DELLINK", q[k].op = "NEWNEIGH", LastOfNeigh(q, k, g)
          PROVE  Appears(q, i, k)
      BY <1>2, <1>6, <1>8, <1>10, <2>1, <2>3 DEF MailInOrder
    <2> QED
      BY <2>2, <2>3 DEF MailInOrder
  <1>12. MailOfLink(p, w) => MailOfLink(q, w)
    BY <1>2, <1>6, <1>7, <1>8 DEF MailOfLink
  <1>13. HasLink(p) => HasLink(q)
    BY <1>2 DEF HasLink
  <1>14. \A g : HasNeigh(p, g) => HasNeigh(q, g)
    BY <1>2 DEF HasNeigh
  <1> QED
    BY <1>9, <1>11, <1>12, <1>13, <1>14

-----------------------------------------------------------------------------
(* A message is received. *)

LEMMA MailTail ==
    ASSUME NEW q, Understood(q), q # <<>>, NEW w, MailTrue(q, w), MailInOrder(q, w)
    PROVE  LET p == Tail(q)
               m == Head(q)
           IN  /\ MailTrue(p, w) /\ MailInOrder(p, w)
               /\ AboutLink(m) => HasLink(p) \/ w.link = LinkSays(m)
               /\ ~AboutLink(m) /\ HasLink(q) => HasLink(p)
               /\ \A g \in Gateway :
                     /\ AboutNeigh(m, g) => HasNeigh(p, g) \/ w.neigh[g] = NeighSays(m)
                     /\ ~AboutNeigh(m, g) /\ HasNeigh(q, g) => HasNeigh(p, g)
               /\ m.op = "DELLINK" => MailOfLink(p, w)
               /\ MailOfLink(q, w) /\ m.op # "NEWLINK" => MailOfLink(p, w)
               /\ MailOfLink(q, w) /\ m.op = "NEWNEIGH" => HasNeigh(p, m.gw)
  <1> DEFINE p == Tail(q)
             m == Head(q)
  <1>1. /\ IsSeq(q) /\ IsSeq(p) /\ Len(q) \in Nat \ {0} /\ Len(p) = Len(q) - 1
        /\ \A k \in 1..Len(p) : p[k] = q[k + 1]
        /\ m = q[1] /\ (m \in ObjMessage \/ m.op \in {"NEW", "DEL"})
    BY TailSeq, TailUnderstood DEF Understood
  <1> HIDE DEF p, m
  <1>2. \A k \in 1..Len(p) : k + 1 \in 1..Len(q) /\ p[k] = q[k + 1]
    BY <1>1
  <1>3. \A k \in 1..Len(q) : k = 1 \/ (k - 1 \in 1..Len(p) /\ p[k - 1] = q[k])
    <2>1. \A k \in 1..Len(q) : k = 1 \/ (k - 1 \in 1..Len(p) /\ (k - 1) + 1 = k)
      BY <1>1
    <2> QED
      BY <1>1, <2>1
  <1>4. 1 \in 1..Len(q) /\ \A k \in 1..Len(q) : k \in Nat /\ ~(k < 1)
    BY <1>1
  <1>5. \A k \in 1..Len(p) : LastOfLink(p, k) => LastOfLink(q, k + 1)
    <2>1. ASSUME NEW k \in 1..Len(p), LastOfLink(p, k), NEW j \in 1..Len(q), j > k + 1
          PROVE  ~AboutLink(q[j])
      <3>1. j - 1 \in 1..Len(p) /\ p[j - 1] = q[j] /\ j - 1 > k
        BY <1>1, <1>3, <2>1
      <3> QED
        BY <2>1, <3>1 DEF LastOfLink
    <2> QED
      BY <1>2, <2>1 DEF LastOfLink
  <1>6. \A k \in 1..Len(p) : \A g : LastOfNeigh(p, k, g) => LastOfNeigh(q, k + 1, g)
    <2>1. ASSUME NEW k \in 1..Len(p), NEW g, LastOfNeigh(p, k, g), NEW j \in 1..Len(q), j > k + 1
          PROVE  ~AboutNeigh(q[j], g)
      <3>1. j - 1 \in 1..Len(p) /\ p[j - 1] = q[j] /\ j - 1 > k
        BY <1>1, <1>3, <2>1
      <3> QED
        BY <2>1, <3>1 DEF LastOfNeigh
    <2> QED
      BY <1>2, <2>1 DEF LastOfNeigh
  <1>7. MailTrue(p, w)
    BY <1>2, <1>5, <1>6 DEF MailTrue
  <1>8. \A k \in 1..Len(p) : \A g : Announced(q, g, k + 1) => Announced(p, g, k)
    <2>1. ASSUME NEW k \in 1..Len(p), NEW g, NEW j \in 1..Len(q), j > k + 1,
                 q[j].op = "NEWNEIGH", q[j].gw = g
          PROVE  Announced(p, g, k)
      <3>1. j - 1 \in 1..Len(p) /\ p[j - 1] = q[j] /\ j - 1 > k
        BY <1>1, <1>3, <2>1
      <3> QED
        BY <2>1, <3>1 DEF Announced
    <2> QED
      BY <2>1 DEF Announced
  <1>9. \A i \in 0..Len(p), k \in 1..Len(p) : Appears(q, i + 1, k + 1) => Appears(p, i, k)
    <2>1. ASSUME NEW i \in 0..Len(p), NEW k \in 1..Len(p), NEW j \in 1..Len(q), i + 1 < j, j < k + 1,
                 q[j].op = "NEWLINK"
          PROVE  Appears(p, i, k)
      <3>1. j - 1 \in 1..Len(p) /\ p[j - 1] = q[j] /\ i < j - 1 /\ j - 1 < k
        BY <1>1, <1>3, <2>1
      <3> QED
        BY <2>1, <3>1 DEF Appears
    <2> QED
      BY <2>1 DEF Appears
  <1>10. MailInOrder(p, w)
    <2>1. ASSUME NEW k \in 1..Len(p), NEW g \in Gateway, p[k].op = "DELLINK", w.neigh[g] # None
          PROVE  Announced(p, g, k)
      BY <1>2, <1>8, <2>1 DEF MailInOrder
    <2>2. ASSUME NEW i \in 1..Len(p), NEW k \in 1..Len(p), NEW g \in Gateway,
                 i < k, p[i].op = "DELLINK", p[k].op = "NEWNEIGH", LastOfNeigh(p, k, g)
          PROVE  Appears(p, i, k)
      <3>1. i + 1 < k + 1 /\ i \in 0..Len(p)
        BY <1>1, <2>2
      <3>2. Appears(q, i + 1, k + 1)
        BY <1>2, <1>6, <2>2, <3>1 DEF MailInOrder
      <3> QED
        BY <1>9, <3>1, <3>2
    <2> QED
      BY <2>1, <2>2 DEF MailInOrder
  <1>11. ASSUME AboutLink(m) PROVE HasLink(p) \/ w.link = LinkSays(m)
    <2>1. CASE LastOfLink(q, 1)
      BY <1>1, <1>4, <2>1 DEF MailTrue
    <2>2. CASE ~LastOfLink(q, 1)
      <3>1. PICK j \in 1..Len(q) : j > 1 /\ AboutLink(q[j])
        BY <1>1, <1>11, <2>2 DEF LastOfLink
      <3>2. j # 1
        BY <3>1
      <3> QED
        BY <1>3, <3>1, <3>2 DEF HasLink
    <2> QED
      BY <2>1, <2>2
  <1>12. ASSUME ~AboutLink(m), HasLink(q) PROVE HasLink(p)
    BY <1>1, <1>3, <1>12 DEF HasLink
  <1>13. ASSUME NEW g \in Gateway, AboutNeigh(m, g) PROVE HasNeigh(p, g) \/ w.neigh[g] = NeighSays(m)
    <2>1. CASE LastOfNeigh(q, 1, g)
      BY <1>1, <1>4, <2>1 DEF MailTrue
    <2>2. CASE ~LastOfNeigh(q, 1, g)
      <3>1. PICK j \in 1..Len(q) : j > 1 /\ AboutNeigh(q[j], g)
        BY <1>1, <1>13, <2>2 DEF LastOfNeigh
      <3>2. j # 1
        BY <3>1
      <3> QED
        BY <1>3, <3>1, <3>2 DEF HasNeigh
    <2> QED
      BY <2>1, <2>2
  <1>14. ASSUME NEW g \in Gateway, ~AboutNeigh(m, g), HasNeigh(q, g) PROVE HasNeigh(p, g)
    BY <1>1, <1>3, <1>14 DEF HasNeigh
  <1>15. \A g : Announced(q, g, 1) => Announced(p, g, 0)
    <2>1. ASSUME NEW g, NEW j \in 1..Len(q), j > 1, q[j].op = "NEWNEIGH", q[j].gw = g
          PROVE  Announced(p, g, 0)
      <3>1. j - 1 \in 1..Len(p) /\ p[j - 1] = q[j] /\ j - 1 > 0
        BY <1>1, <1>3, <2>1
      <3> QED
        BY <2>1, <3>1 DEF Announced
    <2> QED
      BY <2>1 DEF Announced
  <1>16. \A k \in 1..Len(p) : Appears(q, 1, k + 1) => Appears(p, 0, k)
    <2>1. 0 \in 0..Len(p) /\ 0 + 1 = 1
      BY <1>1
    <2> QED
      BY <1>9, <2>1
  <1>17. ASSUME m.op = "DELLINK" PROVE MailOfLink(p, w)
    <2>1. \A g \in Gateway : w.neigh[g] # None => Announced(p, g, 0)
      BY <1>1, <1>4, <1>15, <1>17 DEF MailInOrder
    <2>2. ASSUME NEW k \in 1..Len(p), NEW g \in Gateway, p[k].op = "NEWNEIGH", LastOfNeigh(p, k, g)
          PROVE  Appears(p, 0, k)
      <3>1. 1 < k + 1
        OBVIOUS
      <3>2. Appears(q, 1, k + 1)
        BY <1>1, <1>2, <1>4, <1>6, <1>17, <2>2, <3>1 DEF MailInOrder
      <3> QED
        BY <1>16, <3>2
    <2> QED
      BY <2>1, <2>2 DEF MailOfLink
  <1>18. ASSUME MailOfLink(q, w), m.op = "NEWNEIGH" PROVE HasNeigh(p, m.gw)
    <2>1. AboutNeigh(m, m.gw) /\ m.gw \in Gateway
      BY <1>1, <1>18, Kinds DEF AboutNeigh
    <2>2. CASE LastOfNeigh(q, 1, m.gw)
      <3>1. Appears(q, 0, 1)
        BY <1>1, <1>4, <1>18, <2>1, <2>2 DEF MailOfLink
      <3> QED
        BY <1>4, <3>1 DEF Appears
    <2>3. CASE ~LastOfNeigh(q, 1, m.gw)
      <3>1. PICK j \in 1..Len(q) : j > 1 /\ AboutNeigh(q[j], m.gw)
        BY <1>1, <2>1, <2>3 DEF LastOfNeigh
      <3>2. j # 1
        BY <3>1
      <3> QED
        BY <1>3, <3>1, <3>2 DEF HasNeigh
    <2> QED
      BY <2>2, <2>3
  <1>19. ASSUME MailOfLink(q, w), m.op # "NEWLINK" PROVE MailOfLink(p, w)
    <2>1. ASSUME NEW g \in Gateway, w.neigh[g] # None PROVE Announced(p, g, 0)
      <3>1. PICK j \in 1..Len(q) : j > 0 /\ q[j].op = "NEWNEIGH" /\ q[j].gw = g
        BY <1>19, <2>1 DEF MailOfLink, Announced
      <3>2. CASE j > 1
        BY <1>15, <3>1, <3>2 DEF Announced
      <3>3. CASE ~(j > 1)
        <4>1. j = 1
          BY <3>3
        <4>2. m.op = "NEWNEIGH" /\ m.gw = g
          BY <1>1, <3>1, <4>1
        <4>3. HasNeigh(p, g)
          BY <1>18, <1>19, <4>2
        <4>4. PICK k \in 1..Len(p) : AboutNeigh(p[k], g)
          BY <4>3 DEF HasNeigh
        <4>5. k + 1 \in 1..Len(q) /\ AboutNeigh(q[k + 1], g)
          BY <1>2, <4>4
        <4>6. PICK i \in 1..Len(q) : k + 1 <= i /\ q[i].op = "NEWNEIGH" /\ q[i].gw = g
          BY <2>1, <4>5, SaysThere
        <4>7. i > 1
          BY <4>6
        <4> QED
          BY <1>15, <4>6, <4>7 DEF Announced
      <3> QED
        BY <3>2, <3>3
    <2>2. ASSUME NEW k \in 1..Len(p), NEW g \in Gateway, p[k].op = "NEWNEIGH", LastOfNeigh(p, k, g)
          PROVE  Appears(p, 0, k)
      <3>1. Appears(q, 0, k + 1)
        BY <1>2, <1>6, <1>19, <2>2 DEF MailOfLink
      <3>2. PICK j \in 1..Len(q) : 0 < j /\ j < k + 1 /\ q[j].op = "NEWLINK"
        BY <3>1 DEF Appears
      <3>3. j # 1
        BY <1>1, <1>19, <3>2
      <3>4. 1 < j
        BY <3>2, <3>3
      <3>5. Appears(q, 1, k + 1)
        BY <3>2, <3>4 DEF Appears
      <3> QED
        BY <1>16, <3>5
    <2> QED
      BY <2>1, <2>2 DEF MailOfLink
  <1> QED
    BY <1>7, <1>10, <1>11, <1>12, <1>13, <1>14, <1>17, <1>18, <1>19 DEF p, m

-----------------------------------------------------------------------------
(* The kernel announces a change. *)

\* What was true stays true, or is replaced.
LEMMA MailAppends ==
    ASSUME NEW p, Understood(p), NEW ms, Understood(ms), NEW w, NEW v,
           MailTrue(p, w), MailTrue(ms, v),
           HasLink(ms) \/ v.link = w.link,
           \A g \in Gateway : HasNeigh(ms, g) \/ v.neigh[g] = w.neigh[g]
    PROVE  LET q == p \o ms IN
           /\ MailTrue(q, v)
           /\ HasLink(p) \/ HasLink(ms) => HasLink(q)
           /\ \A g : HasNeigh(p, g) \/ HasNeigh(ms, g) => HasNeigh(q, g)
  <1> DEFINE q == p \o ms
             n == Len(p)
  <1>1. /\ IsSeq(q) /\ n \in Nat /\ Len(ms) \in Nat /\ Len(q) = n + Len(ms)
        /\ \A k \in 1..n : q[k] = p[k]
        /\ \A k \in 1..Len(ms) : q[n + k] = ms[k]
    BY ConcatSeq DEF Understood
  <1> HIDE DEF q, n
  <1>2. \A k \in 1..n : k \in 1..Len(q) /\ q[k] = p[k]
    BY <1>1
  <1>3. \A k \in 1..Len(ms) : n + k \in 1..Len(q) /\ q[n + k] = ms[k]
    BY <1>1
  <1>4. \A k \in 1..Len(q) : k \in 1..n \/ (k - n \in 1..Len(ms) /\ ms[k - n] = q[k])
    <2>1. \A k \in 1..Len(q) : k \in 1..n \/ (k - n \in 1..Len(ms) /\ n + (k - n) = k)
      BY <1>1
    <2> QED
      BY <1>3, <2>1
  <1>5. HasLink(p) \/ HasLink(ms) => HasLink(q)
    BY <1>2, <1>3 DEF HasLink, n
  <1>6. \A g : HasNeigh(p, g) \/ HasNeigh(ms, g) => HasNeigh(q, g)
    BY <1>2, <1>3 DEF HasNeigh, n
  <1>7. ASSUME NEW k \in 1..Len(q), LastOfLink(q, k) PROVE v.link = LinkSays(q[k])
    <2>1. CASE k \in 1..n
      <3>1. \A j \in 1..n : j > k => ~AboutLink(p[j])
        BY <1>2, <1>7 DEF LastOfLink
      <3>2. LastOfLink(p, k)
        BY <1>2, <1>7, <2>1, <3>1 DEF LastOfLink, n
      <3>3. \A j \in 1..Len(ms) : n + j > k
        BY <1>1, <2>1
      <3>4. ~HasLink(ms)
        BY <1>3, <1>7, <3>3 DEF LastOfLink, HasLink
      <3> QED
        BY <1>2, <2>1, <3>2, <3>4 DEF MailTrue, n
    <2>2. CASE k \notin 1..n
      <3> DEFINE i == k - n
      <3>1. i \in 1..Len(ms) /\ ms[i] = q[k]
        BY <1>4, <2>2
      <3>2. \A j \in 1..Len(ms) : j > i => n + j > k
        BY <1>1
      <3> HIDE DEF i
      <3>3. LastOfLink(ms, i)
        BY <1>3, <1>7, <3>1, <3>2 DEF LastOfLink
      <3> QED
        BY <3>1, <3>3 DEF MailTrue
    <2> QED
      BY <2>1, <2>2
  <1>8. ASSUME NEW k \in 1..Len(q), NEW g \in Gateway, LastOfNeigh(q, k, g)
        PROVE  v.neigh[g] = NeighSays(q[k])
    <2>1. CASE k \in 1..n
      <3>1. \A j \in 1..n : j > k => ~AboutNeigh(p[j], g)
        BY <1>2, <1>8 DEF LastOfNeigh
      <3>2. LastOfNeigh(p, k, g)
        BY <1>2, <1>8, <2>1, <3>1 DEF LastOfNeigh, n
      <3>3. \A j \in 1..Len(ms) : n + j > k
        BY <1>1, <2>1
      <3>4. ~HasNeigh(ms, g)
        BY <1>3, <1>8, <3>3 DEF LastOfNeigh, HasNeigh
      <3> QED
        BY <1>2, <2>1, <3>2, <3>4 DEF MailTrue, n
    <2>2. CASE k \notin 1..n
      <3> DEFINE i == k - n
      <3>1. i \in 1..Len(ms) /\ ms[i] = q[k]
        BY <1>4, <2>2
      <3>2. \A j \in 1..Len(ms) : j > i => n + j > k
        BY <1>1
      <3> HIDE DEF i
      <3>3. LastOfNeigh(ms, i, g)
        BY <1>3, <1>8, <3>1, <3>2 DEF LastOfNeigh
      <3> QED
        BY <3>1, <3>3 DEF MailTrue
    <2> QED
      BY <2>1, <2>2
  <1>9. MailTrue(q, v)
    BY <1>7, <1>8 DEF MailTrue
  <1> QED
    BY <1>5, <1>6, <1>9 DEF q

\* A change other than that the link goes.
LEMMA MailAppendsOne ==
    ASSUME NEW p, Understood(p), NEW m \in ObjMessage, m.op # "DELLINK", NEW w, NEW v,
           MailTrue(p, w), MailInOrder(p, w),
           \A g \in Gateway : v.neigh[g] # None => w.neigh[g] # None \/ (m.op = "NEWNEIGH" /\ m.gw = g),
           m.op = "NEWNEIGH" => w.link # None
    PROVE  LET q == p \o <<m>> IN
           /\ MailInOrder(q, v)
           /\ MailOfLink(p, w) /\ (m.op = "NEWNEIGH" => HasLink(p)) => MailOfLink(q, v)
  <1> DEFINE q == p \o <<m>>
             n == Len(p)
  <1>1. IsSeq(<<m>>) /\ Len(<<m>>) = 1 /\ <<m>>[1] = m
    <2>1. <<m>> \in Seq(ObjMessage) /\ Len(<<m>>) = 1 /\ <<m>>[1] = m
      OBVIOUS
    <2> QED
      BY <2>1, SeqPoints
  <1>2. /\ n \in Nat /\ Len(q) = n + 1 /\ q[n + 1] = m
        /\ \A k \in 1..n : q[k] = p[k]
    <2>1. /\ n \in Nat /\ Len(q) = n + Len(<<m>>)
          /\ \A k \in 1..n : q[k] = p[k]
          /\ \A k \in 1..Len(<<m>>) : q[n + k] = <<m>>[k]
      BY <1>1, ConcatSeq DEF Understood
    <2> HIDE DEF q
    <2>2. 1 \in 1..Len(<<m>>)
      BY <1>1
    <2> QED
      BY <1>1, <2>1, <2>2
  <1> HIDE DEF q, n
  <1>3. \A k \in 1..n : k \in 1..Len(q) /\ q[k] = p[k]
    BY <1>2
  <1>4. n + 1 \in 1..Len(q) /\ \A k \in 1..Len(q) : k \in 1..n \/ k = n + 1
    BY <1>2
  <1>5. \A k \in 1..n : \A g : LastOfNeigh(q, k, g) => LastOfNeigh(p, k, g)
    BY <1>3 DEF LastOfNeigh, n
  <1>6. \A k, g : Announced(p, g, k) => Announced(q, g, k)
    BY <1>3 DEF Announced, n
  <1>7. \A i, k : Appears(p, i, k) => Appears(q, i, k)
    BY <1>3 DEF Appears, n
  <1>8. ASSUME m.op = "NEWNEIGH" PROVE \A k \in 0..n : Announced(q, m.gw, k)
    <2>1. \A k \in 0..n : n + 1 > k
      BY <1>2
    <2> QED
      BY <1>2, <1>4, <1>8, <2>1 DEF Announced
  <1>9. ASSUME NEW k \in 1..Len(q), NEW g \in Gateway, q[k].op = "DELLINK", v.neigh[g] # None
        PROVE  Announced(q, g, k)
    <2>1. k \in 1..n /\ p[k].op = "DELLINK" /\ k \in 0..n
      BY <1>2, <1>3, <1>4, <1>9
    <2>2. CASE w.neigh[g] # None
      BY <1>6, <2>1, <2>2 DEF MailInOrder, n
    <2>3. CASE w.neigh[g] = None
      BY <1>8, <1>9, <2>1, <2>3
    <2> QED
      BY <2>2, <2>3
  <1>10. ASSUME NEW i \in 1..Len(q), NEW k \in 1..Len(q), NEW g \in Gateway,
                i < k, q[i].op = "DELLINK", q[k].op = "NEWNEIGH", LastOfNeigh(q, k, g)
         PROVE  Appears(q, i, k)
    <2>1. i \in 1..n /\ p[i].op = "DELLINK"
      BY <1>2, <1>3, <1>4, <1>10
    <2>2. CASE k \in 1..n
      <3>1. p[k].op = "NEWNEIGH" /\ LastOfNeigh(p, k, g)
        BY <1>3, <1>5, <1>10, <2>2
      <3>2. Appears(p, i, k)
        BY <1>10, <2>1, <2>2, <3>1 DEF MailInOrder, n
      <3> QED
        BY <1>7, <3>2
    <2>3. CASE k = n + 1
      <3>1. w.link # None /\ AboutLink(p[i])
        BY <1>2, <1>10, <2>1, <2>3 DEF AboutLink
      <3>2. PICK j \in 1..n : i <= j /\ p[j].op = "NEWLINK"
        BY <2>1, <3>1, ComesBack DEF n
      <3>3. i # j
        BY <2>1, <3>2
      <3>4. i < j /\ j < n + 1
        BY <1>2, <2>1, <3>2, <3>3
      <3> QED
        BY <1>3, <2>3, <3>2, <3>4 DEF Appears
    <2> QED
      BY <1>4, <2>2, <2>3
  <1>11. MailInOrder(q, v)
    BY <1>9, <1>10 DEF MailInOrder
  <1>12. ASSUME MailOfLink(p, w), m.op = "NEWNEIGH" => HasLink(p) PROVE MailOfLink(q, v)
    <2>1. ASSUME NEW g \in Gateway, v.neigh[g] # None PROVE Announced(q, g, 0)
      <3>1. 0 \in 0..n
        BY <1>2
      <3>2. CASE w.neigh[g] # None
        BY <1>6, <1>12, <3>2 DEF MailOfLink
      <3>3. CASE w.neigh[g] = None
        BY <1>8, <2>1, <3>1, <3>3
      <3> QED
        BY <3>2, <3>3
    <2>2. ASSUME NEW k \in 1..Len(q), NEW g \in Gateway, q[k].op = "NEWNEIGH", LastOfNeigh(q, k, g)
          PROVE  Appears(q, 0, k)
      <3>1. CASE k \in 1..n
        <4>1. p[k].op = "NEWNEIGH" /\ LastOfNeigh(p, k, g)
          BY <1>3, <1>5, <2>2, <3>1
        <4>2. Appears(p, 0, k)
          BY <1>12, <3>1, <4>1 DEF MailOfLink, n
        <4> QED
          BY <1>7, <4>2
      <3>2. CASE k = n + 1
        <4>1. w.link # None /\ HasLink(p)
          BY <1>2, <1>12, <2>2, <3>2
        <4>2. PICK i \in 1..n : AboutLink(p[i])
          BY <4>1 DEF HasLink, n
        <4>3. PICK j \in 1..n : i <= j /\ p[j].op = "NEWLINK"
          BY <4>1, <4>2, ComesBack DEF n
        <4>4. 0 < j /\ j < n + 1
          BY <1>2, <4>3
        <4> QED
          BY <1>3, <3>2, <4>3, <4>4 DEF Appears
      <3> QED
        BY <1>4, <3>1, <3>2
    <2> QED
      BY <2>1, <2>2 DEF MailOfLink
  <1> QED
    BY <1>11, <1>12 DEF q

\* The link goes, and everything with it.
LEMMA MailAllGone ==
    ASSUME NEW q, Understood(q), NEW v, MailTrue(q, v), \A g \in Gateway : v.neigh[g] = None
    PROVE  MailInOrder(q, v) /\ MailOfLink(q, v)
  <1>1. ASSUME NEW k \in 1..Len(q), NEW g \in Gateway, q[k].op = "NEWNEIGH", LastOfNeigh(q, k, g)
        PROVE  FALSE
    <2>1. NeighSays(q[k]) = None
      BY <1>1 DEF MailTrue
    <2>2. NeighSays(q[k]) # None
      BY <1>1, Kinds DEF Understood
    <2> QED
      BY <2>1, <2>2
  <1> QED
    BY <1>1 DEF MailInOrder, MailOfLink

-----------------------------------------------------------------------------
(* Dumps. *)

\* A dump of the links has the link, if there is one.
LEMMA EntriesLink ==
    ASSUME world \in Worlds
    PROVE  /\ Entries("links") = <<>> => world.link = None
           /\ \A k \in 1..Len(Entries("links")) :
                 Entries("links")[k].op = "NEWLINK" /\ Entries("links")[k].info = world.link
  <1>1. CASE world.link = None
    <2>1. Entries("links") = <<>>
      BY <1>1 DEF Entries
    <2> QED
      BY <1>1, <2>1
  <1>2. CASE world.link # None
    <2>1. Entries("links") = <<[op |-> "NEWLINK", info |-> world.link]>>
      BY <1>2 DEF Entries
    <2> QED
      BY <2>1
  <1> QED
    BY <1>1, <1>2

\* A dump of the neighbours has every neighbour there is, as it is.
LEMMA EntriesNeigh ==
    ASSUME world \in Worlds
    PROVE  /\ \A k \in 1..Len(Entries("neighs")) :
                 LET m == Entries("neighs")[k] IN
                 m.op = "NEWNEIGH" /\ world.neigh[m.gw] = m.lladdr
           /\ \A g \in Gateway : world.neigh[g] # None => HasNeigh(Entries("neighs"), g)
  <1> DEFINE G == {h \in Gateway : world.neigh[h] # None}
             f == [g \in G |-> [op |-> "NEWNEIGH", gw |-> g, lladdr |-> world.neigh[g]]]
             S == {f[g] : g \in G}
             q == SetToSeq(S)
  <1>1. IsFiniteSet(G)
    BY FiniteSets, FS_Subset
  <1>2. Entries("neighs") = q
    <2>1. S = {[op |-> "NEWNEIGH", gw |-> g, lladdr |-> world.neigh[g]] : g \in G}
      OBVIOUS
    <2> QED
      BY <2>1 DEF Entries
  <1>3. \A g \in G : f[g] \in S /\ f[g].op = "NEWNEIGH" /\ f[g].gw = g /\ f[g].lladdr = world.neigh[g]
    OBVIOUS
  <1>4. f = [g \in G |-> f[g]]
    OBVIOUS
  <1>6. \A g \in Gateway : world.neigh[g] # None => g \in G
    OBVIOUS
  <1> HIDE DEF G, f
  <1>5. \A m \in S : m.op = "NEWNEIGH" /\ world.neigh[m.gw] = m.lladdr
    BY <1>3
  <1>7. IsFiniteSet(S)
    BY <1>1, <1>4, FiniteImage
  <1> HIDE DEF S
  <1>8. Lists(q, S)
    BY <1>7, SetToSeqLists
  <1> HIDE DEF q
  <1>9. \A k \in 1..Len(q) : q[k].op = "NEWNEIGH" /\ world.neigh[q[k].gw] = q[k].lladdr
    BY <1>5, <1>8 DEF Lists
  <1>10. ASSUME NEW g \in Gateway, world.neigh[g] # None PROVE HasNeigh(q, g)
    <2>1. g \in G /\ f[g] \in S /\ f[g].op = "NEWNEIGH" /\ f[g].gw = g
      BY <1>3, <1>6, <1>10
    <2>2. PICK k \in 1..Len(q) : q[k] = f[g]
      BY <1>8, <2>1 DEF Lists
    <2> QED
      BY <2>1, <2>2 DEF HasNeigh, AboutNeigh
  <1> QED
    BY <1>2, <1>9, <1>10

\* A dump of the routes has routes.
LEMMA EntriesRoute ==
    ASSUME world \in Worlds
    PROVE  \A k \in 1..Len(Entries("routes")) : Entries("routes")[k].op = "NEWROUTE"
  <1> DEFINE G == {e \in Route : world.route[e] # None}
             f == [d \in G |-> [op |-> "NEWROUTE", dst |-> d, gw |-> world.route[d]]]
             S == {f[d] : d \in G}
             q == SetToSeq(S)
  <1>1. IsFiniteSet(G)
    BY FiniteSets, FS_Subset
  <1>2. Entries("routes") = q
    <2>1. S = {[op |-> "NEWROUTE", dst |-> d, gw |-> world.route[d]] : d \in G}
      OBVIOUS
    <2> QED
      BY <2>1 DEF Entries
  <1>4. f = [d \in G |-> f[d]] /\ \A d \in G : f[d].op = "NEWROUTE"
    OBVIOUS
  <1> HIDE DEF G, f
  <1>3. \A m \in S : m.op = "NEWROUTE"
    BY <1>4
  <1>5. IsFiniteSet(S)
    BY <1>1, <1>4, FiniteImage
  <1> HIDE DEF S
  <1>6. Lists(q, S)
    BY <1>5, SetToSeqLists
  <1> HIDE DEF q
  <1> QED
    BY <1>2, <1>3, <1>6 DEF Lists

-----------------------------------------------------------------------------
(* The rest of a step: what is known stays, filters are announced, and the  *)
(* next request may be sent.                                                *)

Onward(v, t) ==
    /\ Flow(v) /\ Flow(t)
    /\ SameKnown(v, t)
    /\ Extends(v.mon, t.mon)
    /\ v.current # "none" =>
          /\ t.current = v.current /\ t.dump = v.dump
          /\ \A op \in Scans : InWork(v, op) => InWork(t, op)
    /\ v.current = "none" =>
          /\ t.current \in {"links", "neighs"} => t.dump = Entries(t.current)
          /\ t.current = "routes" => t.dump \in {<<>>, Entries("routes")}
          /\ \A op \in Scans : InWork(v, op) => t.current = op \/ InWork(t, op)

LEMMA KnownSame ==
    ASSUME NEW s, NEW t, SameKnown(s, t)
    PROVE  \A g : Known(t, g) = Known(s, g) /\ \A n \in Known(s, g) : t.neigh[n] = s.neigh[n]
  <1>1. InTree(t) = InTree(s) /\ \A n \in InTree(s) : t.neigh[n] = s.neigh[n]
    BY DEF SameKnown
  <1>2. \A g : Known(s, g) = {n \in InTree(s) : s.neigh[n].gw = g}
    BY DEF Known, InTree
  <1>3. \A g : Known(t, g) = {n \in InTree(t) : t.neigh[n].gw = g}
    BY DEF Known, InTree
  <1>4. SUFFICES ASSUME NEW g
                 PROVE  Known(t, g) = Known(s, g) /\ \A n \in Known(s, g) : t.neigh[n] = s.neigh[n]
    OBVIOUS
  <1>5. \A n : n \in Known(t, g) <=> n \in Known(s, g)
    BY <1>1, <1>2, <1>3
  <1>6. \A n \in Known(s, g) : n \in InTree(s)
    BY <1>2
  <1> QED
    BY <1>1, <1>5, <1>6

\* A dump of links that is sent tells that there is none, or tells of it.
LEMMA LinksSent ==
    ASSUME world \in Worlds, NEW v, NEW t, Onward(v, t), MailTrue(t.mon, world), LinksAhead(v)
    PROVE  \/ LinksAhead(t)
           \/ LinkDump(t)
           \/ world.link = None /\ MailOfLink(t.mon, world)
  <1>1. SUFFICES ASSUME ~LinksAhead(t), ~LinkDump(t)
                 PROVE  world.link = None /\ MailOfLink(t.mon, world)
    OBVIOUS
  <1>2. v.current = "none" /\ t.current = "links" /\ t.dump = Entries("links")
    BY <1>1 DEF Onward, LinksAhead, Scans
  <1>3. world.link = None
    BY <1>1, <1>2, EntriesLink DEF LinkDump
  <1>4. \A g \in Gateway : world.neigh[g] = None
    BY <1>3 DEF Worlds
  <1>5. Understood(t.mon)
    BY DEF Onward, Flow
  <1> QED
    BY <1>3, <1>4, <1>5, MailAllGone

LEMMA OnwardTracks ==
    ASSUME world \in Worlds, NEW v, NEW t, Onward(v, t), Tracks(v, world)
    PROVE  Tracks(t, world)
  <1>1. IsSeq(v.mon) /\ IsSeq(t.mon)
    BY DEF Onward, Flow, Understood
  <1>2. /\ MailTrue(t.mon, world) /\ MailInOrder(t.mon, world)
        /\ MailOfLink(v.mon, world) => MailOfLink(t.mon, world)
        /\ HasLink(v.mon) => HasLink(t.mon)
        /\ \A g : HasNeigh(v.mon, g) => HasNeigh(t.mon, g)
    BY <1>1, MailExtends DEF Onward, Tracks
  <1>3. v.current = "none" => v.dump = <<>>
    BY DEF Onward, Flow, Scans
  <1>4. DumpSays(t, world)
    <2>1. CASE v.current # "none"
      BY <2>1 DEF Onward, Tracks, DumpSays
    <2>2. CASE v.current = "none" /\ t.current = "links"
      BY <2>2, EntriesLink DEF Onward, DumpSays
    <2>3. CASE v.current = "none" /\ t.current = "neighs"
      BY <2>3, EntriesNeigh DEF Onward, DumpSays
    <2>4. CASE v.current = "none" /\ t.current = "routes"
      BY <2>4, EntriesRoute DEF Onward, DumpSays
    <2>5. CASE t.current \notin {"links", "neighs", "routes"}
      BY <2>5 DEF DumpSays
    <2> QED
      BY <2>1, <2>2, <2>3, <2>4, <2>5
  <1>5. t.link.state = v.link.state /\ t.link.info = v.link.info
    BY DEF Onward, SameKnown
  <1>6. LinksAhead(v) => LinksAhead(t) \/ LinkDump(t) \/ (world.link = None /\ MailOfLink(t.mon, world))
    BY <1>2, LinksSent
  <1>7. LinkDump(v) => LinkDump(t)
    BY <1>3 DEF Onward, LinkDump
  <1>8. LinkInformed(t, world)
    <2>1. LinkInformed(v, world)
      BY DEF Tracks
    <2> QED
      BY <1>2, <1>5, <1>6, <1>7, <2>1 DEF LinkInformed
  <1>9. t.link.state = None => LinksAhead(t) \/ LinkDump(t) \/ MailOfLink(t.mon, world)
    BY <1>2, <1>5, <1>6, <1>7 DEF Tracks
  <1>10. ASSUME NEW g \in Gateway PROVE NeighInformed(t, world, g)
    <2>1. NeighInformed(v, world, g)
      BY DEF Tracks
    <2>2. Known(t, g) = Known(v, g) /\ \A n \in Known(v, g) : t.neigh[n] = v.neigh[n]
      BY KnownSame DEF Onward
    <2>3. CASE NeighDump(v, g)
      <3>1. v.current # "none" /\ t.dump = v.dump /\ t.current = v.current
        BY <2>3 DEF NeighDump, Onward
      <3> QED
        BY <2>3, <3>1 DEF NeighDump, NeighInformed
    <2>4. CASE NeighsAhead(v) /\ Known(v, g) = {}
      <3>1. NeighsAhead(t) \/ (v.current = "none" /\ t.current = "neighs" /\ t.dump = Entries("neighs"))
        BY <2>4 DEF Onward, NeighsAhead, LinksAhead, Scans
      <3>2. CASE NeighsAhead(t)
        BY <2>2, <2>4, <3>2 DEF NeighInformed
      <3>3. CASE t.current = "neighs" /\ t.dump = Entries("neighs")
        BY <2>2, <2>4, <3>3, EntriesNeigh DEF NeighInformed, NeighDump
      <3> QED
        BY <3>1, <3>2, <3>3
    <2> QED
      BY <1>2, <2>1, <2>2, <2>3, <2>4 DEF NeighInformed
  <1> QED
    BY <1>2, <1>4, <1>8, <1>9, <1>10 DEF Tracks

-----------------------------------------------------------------------------
(* What a message leaves behind. *)

\* What is known does not depend on the rest of the state.
LEMMA HeardSame ==
    ASSUME NEW s, NEW a, a.link = s.link, a.neigh = s.neigh,
           NEW t, NEW v, v.link = t.link, v.neigh = t.neigh,
           NEW m, Heard(s, m, t)
    PROVE  Heard(a, m, v)
  <1>1. InTree(a) = InTree(s) /\ InTree(v) = InTree(t)
    BY DEF InTree
  <1>2. \A g : Known(a, g) = Known(s, g) /\ Known(v, g) = Known(t, g)
    BY DEF Known
  <1>3. (Unique(a) <=> Unique(s)) /\ (Unique(v) <=> Unique(t))
    BY <1>1 DEF Unique
  <1>4. SameKnown(s, t) => SameKnown(a, v)
    BY <1>1 DEF SameKnown
  <1>5. LinkHeard(s, m, t) => LinkHeard(a, m, v)
    BY <1>1 DEF LinkHeard
  <1>6. \A g : SameGateway(s, t, g) => SameGateway(a, v, g)
    BY <1>2 DEF SameGateway
  <1>7. NeighHeard(s, m, t) => NeighHeard(a, m, v)
    BY <1>2, <1>3, <1>4, <1>6 DEF NeighHeard
  <1> QED
    BY <1>4, <1>5, <1>7 DEF Heard

LEMMA UniqueSame ==
    ASSUME NEW s, NEW v, SameKnown(s, v), Unique(s)
    PROVE  Unique(v)
  BY DEF SameKnown, Unique

\* A link that is not there has no neighbours.
LEMMA NoLinkNoNeighs ==
    ASSUME NEW s, Fine(s, {}, {}), s.link.state = None
    PROVE  InTree(s) = {} /\ \A g : Known(s, g) = {}
  <1>1. s.link.weak = Cardinality(InTree(s)) /\ s.link.weak = 0
    BY DEF Fine, Counts, LinkCounts
  <1>2. IsFiniteSet(InTree(s))
    BY NeighSubsets DEF InTree
  <1>3. InTree(s) = {}
    BY <1>1, <1>2, FS_EmptySet
  <1>4. \A g : Known(s, g) = {n \in InTree(s) : s.neigh[n].gw = g}
    BY DEF Known, InTree
  <1> QED
    BY <1>3, <1>4

\* A gateway is looked up in one way, and a link that went while it was
\* referenced is never heard of again.
LEMMA HeardOnce ==
    ASSUME NEW s, Fine(s, {}, {}), KnownOnce(s),
           NEW m, m \in ObjMessage \/ m.op \in {"NEW", "DEL"}, NEW v, Heard(s, m, v)
    PROVE  KnownOnce(v) /\ (s.link.state = "PRESENT" => v.link.state = "PRESENT")
  <1>1. s.link.refs \in Nat /\ "PRESENT" # None /\ "INSTALLED" # None
    BY GraphAssumption DEF Fine, Objects
  <1>2. Unique(s) /\ (s.link.state = "PRESENT" => s.link.refs > 0)
    BY DEF KnownOnce
  <1>3. CASE m.op = "NEWLINK"
    <2>1. LinkHeard(s, m, v)
      BY <1>3 DEF Heard
    <2>2. /\ v.link.state = IF s.link.state = None THEN "INSTALLED" ELSE s.link.state
          /\ v.link.refs = s.link.refs /\ v.neigh = s.neigh
      BY <1>3, <2>1 DEF LinkHeard
    <2>3. Unique(v)
      BY <1>2, <2>2 DEF Unique, InTree
    <2> QED
      BY <1>1, <1>2, <2>2, <2>3 DEF KnownOnce
  <1>4. CASE m.op = "DELLINK" /\ s.link.refs = 0
    <2>1. LinkHeard(s, m, v)
      BY <1>4 DEF Heard
    <2>2. v.link.state = None /\ InTree(v) = {}
      BY <1>4, <2>1 DEF LinkHeard
    <2>3. s.link.state # "PRESENT"
      BY <1>2, <1>4
    <2>4. Unique(v)
      BY <2>2 DEF Unique
    <2> QED
      BY <1>1, <2>2, <2>3, <2>4 DEF KnownOnce
  <1>5. CASE m.op = "DELLINK" /\ s.link.refs # 0
    <2>1. LinkHeard(s, m, v)
      BY <1>5 DEF Heard
    <2>2. v.link.state = "PRESENT" /\ v.link.refs = s.link.refs /\ v.neigh = s.neigh
      BY <1>5, <2>1 DEF LinkHeard
    <2>3. Unique(v)
      BY <1>2, <2>2 DEF Unique, InTree
    <2> QED
      BY <1>1, <1>5, <2>2, <2>3 DEF KnownOnce
  <1>6. CASE m.op \in {"NEWNEIGH", "DELNEIGH"}
    <2>1. NeighHeard(s, m, v)
      BY <1>6 DEF Heard
    <2>2. v.link.state = s.link.state /\ v.link.refs = s.link.refs
      BY <2>1 DEF NeighHeard
    <2>3. Unique(v)
      BY <1>2, <2>1, UniqueSame DEF NeighHeard
    <2> QED
      BY <1>2, <2>2, <2>3 DEF KnownOnce
  <1>7. CASE m.op \in {"NEWROUTE", "DELROUTE", "NEW", "DEL"}
    <2>1. SameKnown(s, v)
      BY <1>7 DEF Heard
    <2>2. Unique(v)
      BY <1>2, <2>1, UniqueSame
    <2> QED
      BY <1>2, <2>1, <2>2 DEF SameKnown, KnownOnce
  <1> QED
    BY <1>3, <1>4, <1>5, <1>6, <1>7, Kinds

\* The parts of the state that tell what is still to be heard.
LEMMA NeighStays ==
    ASSUME NEW s, NEW v, NEW w, NEW g, NeighInformed(s, w, g), SameGateway(s, v, g),
           HasNeigh(s.mon, g) => HasNeigh(v.mon, g), NeighDump(s, g) => NeighDump(v, g),
           NeighsAhead(s) => NeighsAhead(v)
    PROVE  NeighInformed(v, w, g)
  BY DEF NeighInformed, SameGateway

LEMMA SameAhead ==
    ASSUME NEW s, NEW v, v.current = s.current, v.work = s.work
    PROVE  (LinksAhead(v) <=> LinksAhead(s)) /\ (NeighsAhead(v) <=> NeighsAhead(s))
  BY DEF LinksAhead, NeighsAhead, InWork

LEMMA KnownGateways ==
    ASSUME NEW s, NEW v, SameKnown(s, v) \/ v.neigh = s.neigh
    PROVE  \A g : SameGateway(s, v, g)
  <1>1. CASE SameKnown(s, v)
    BY <1>1, KnownSame DEF SameGateway
  <1>2. CASE v.neigh = s.neigh
    BY <1>2 DEF SameGateway, Known
  <1> QED
    BY <1>1, <1>2

\* A notification has been decoded.
LEMMA MailTracks ==
    ASSUME NEW s, Flow(s), Fine(s, {}, {}), Unique(s), NEW w, Tracks(s, w), s.mon # <<>>,
           NEW v, v.mon = Tail(s.mon), v.dump = s.dump, v.current = s.current, v.work = s.work,
           Heard(s, Head(s.mon), v), s.link.state # "PRESENT", v.link.state # "PRESENT"
    PROVE  Tracks(v, w)
  <1> DEFINE q == s.mon
             p == Tail(q)
             m == Head(q)
  <1>1. Understood(q) /\ q # <<>> /\ MailTrue(q, w) /\ MailInOrder(q, w)
    BY DEF Flow, Tracks
  <1>2. m \in ObjMessage \/ m.op \in {"NEW", "DEL"}
    BY <1>1, TailUnderstood
  <1>3. /\ MailTrue(p, w) /\ MailInOrder(p, w)
        /\ AboutLink(m) => HasLink(p) \/ w.link = LinkSays(m)
        /\ ~AboutLink(m) /\ HasLink(q) => HasLink(p)
        /\ \A g \in Gateway :
              /\ AboutNeigh(m, g) => HasNeigh(p, g) \/ w.neigh[g] = NeighSays(m)
              /\ ~AboutNeigh(m, g) /\ HasNeigh(q, g) => HasNeigh(p, g)
        /\ m.op = "DELLINK" => MailOfLink(p, w)
        /\ MailOfLink(q, w) /\ m.op # "NEWLINK" => MailOfLink(p, w)
        /\ MailOfLink(q, w) /\ m.op = "NEWNEIGH" => HasNeigh(p, m.gw)
    BY <1>1, MailTail
  <1>4. v.mon = p /\ Heard(s, m, v)
    OBVIOUS
  <1>5. q = s.mon
    OBVIOUS
  <1> HIDE DEF q, p, m
  <1>6. (LinksAhead(v) <=> LinksAhead(s)) /\ (NeighsAhead(v) <=> NeighsAhead(s))
    BY SameAhead
  <1>7. (LinkDump(v) <=> LinkDump(s)) /\ \A g : NeighDump(v, g) <=> NeighDump(s, g)
    BY DEF LinkDump, NeighDump
  <1>8. DumpSays(v, w)
    BY DEF Tracks, DumpSays
  <1>9. /\ LinkInformed(s, w)
        /\ \A g \in Gateway : NeighInformed(s, w, g)
        /\ s.link.state = None => LinksAhead(s) \/ LinkDump(s) \/ MailOfLink(q, w)
    BY <1>5 DEF Tracks
  <1>10. s.link.state \in {None, "INSTALLED"} /\ s.link.refs \in Nat
    BY DEF Fine, Objects, ObjState
  <1>11. "PRESENT" # None /\ "INSTALLED" # None
    BY GraphAssumption
  <1>12. ASSUME NEW g \in Gateway, SameGateway(s, v, g), ~AboutNeigh(m, g)
         PROVE  NeighInformed(v, w, g)
    BY <1>3, <1>4, <1>5, <1>6, <1>7, <1>9, <1>12, NeighStays
  <1>13. ASSUME NEW g \in Gateway, Announced(p, g, 0) PROVE HasNeigh(p, g)
    BY <1>13 DEF Announced, HasNeigh, AboutNeigh
  <1>14. CASE m.op = "NEWLINK"
    <2>1. LinkHeard(s, m, v) /\ AboutLink(m) /\ \A g : ~AboutNeigh(m, g)
      BY <1>4, <1>14 DEF Heard, AboutLink, AboutNeigh
    <2>2. v.link.state = "INSTALLED" /\ v.link.info = m.info /\ v.neigh = s.neigh
      BY <1>10, <1>14, <2>1 DEF LinkHeard
    <2>3. LinkInformed(v, w)
      BY <1>3, <1>4, <1>14, <2>1, <2>2 DEF LinkInformed, LinkSays
    <2>4. \A g \in Gateway : NeighInformed(v, w, g)
      BY <1>12, <2>1, <2>2, KnownGateways
    <2> QED
      BY <1>3, <1>4, <1>8, <1>11, <2>2, <2>3, <2>4 DEF Tracks
  <1>15. CASE m.op = "DELLINK"
    <2>1. LinkHeard(s, m, v) /\ AboutLink(m) /\ LinkSays(m) = None
      BY <1>4, <1>15 DEF Heard, AboutLink, LinkSays
    <2>2. v.link.state = None /\ InTree(v) = {}
      BY <1>15, <2>1 DEF LinkHeard
    <2>3. LinkInformed(v, w)
      BY <1>3, <1>4, <2>1, <2>2 DEF LinkInformed
    <2>4. MailOfLink(p, w)
      BY <1>3, <1>15
    <2>5. ASSUME NEW g \in Gateway PROVE NeighInformed(v, w, g)
      <3>1. Known(v, g) = {}
        BY <2>2 DEF Known, InTree
      <3>2. w.neigh[g] # None => HasNeigh(p, g)
        BY <1>13, <2>4 DEF MailOfLink
      <3> QED
        BY <1>4, <3>1, <3>2 DEF NeighInformed
    <2> QED
      BY <1>3, <1>4, <1>8, <2>3, <2>4, <2>5 DEF Tracks
  <1>16. ASSUME ~AboutLink(m), v.link.state = s.link.state, v.link.info = s.link.info
         PROVE  /\ LinkInformed(v, w)
                /\ v.link.state = None => LinksAhead(v) \/ LinkDump(v) \/ MailOfLink(v.mon, w)
    <2>1. HasLink(s.mon) => HasLink(v.mon)
      BY <1>3, <1>4, <1>5, <1>16
    <2>2. LinkInformed(v, w)
      BY <1>6, <1>7, <1>9, <1>16, <2>1 DEF LinkInformed
    <2>3. m.op # "NEWLINK"
      BY <1>16 DEF AboutLink
    <2> QED
      BY <1>3, <1>4, <1>6, <1>7, <1>9, <1>16, <2>2, <2>3
  <1>17. CASE m.op \in {"NEWNEIGH", "DELNEIGH"}
    <2>1. NeighHeard(s, m, v) /\ ~AboutLink(m)
      BY <1>4, <1>17 DEF Heard, AboutLink
    <2>2. v.link.state = s.link.state /\ v.link.info = s.link.info
      BY <2>1 DEF NeighHeard
    <2>3. /\ AboutNeigh(m, m.gw) /\ m.gw \in Gateway
          /\ \A g : g # m.gw => ~AboutNeigh(m, g)
      BY <1>2, <1>17, Kinds DEF AboutNeigh
    <2>4. HasNeigh(p, m.gw) \/ w.neigh[m.gw] = NeighSays(m)
      BY <1>3, <2>3
    <2>5. CASE s.link.state = None
      <3>1. SameKnown(s, v) /\ \A g : SameGateway(s, v, g)
        BY <2>1, <2>5, KnownGateways DEF NeighHeard
      <3>2. \A g : Known(v, g) = {}
        BY <2>5, <3>1, NoLinkNoNeighs DEF SameGateway
      <3>3. LinksAhead(s) \/ LinkDump(s) => NeighsAhead(s)
        BY DEF LinkDump, NeighsAhead
      <3>4. NeighsAhead(v) \/ HasNeigh(p, m.gw) \/ w.neigh[m.gw] = None
        <4>1. CASE m.op = "NEWNEIGH"
          BY <1>3, <1>6, <1>9, <2>5, <3>3, <4>1
        <4>2. CASE m.op = "DELNEIGH"
          BY <2>4, <4>2 DEF NeighSays
        <4> QED
          BY <1>17, <4>1, <4>2
      <3>5. NeighInformed(v, w, m.gw)
        BY <1>4, <3>2, <3>4 DEF NeighInformed
      <3>6. \A g \in Gateway : NeighInformed(v, w, g)
        BY <1>12, <2>3, <3>1, <3>5
      <3> QED
        BY <1>3, <1>4, <1>8, <1>16, <2>1, <2>2, <3>6 DEF Tracks
    <2>6. CASE s.link.state # None
      <3>1. /\ \A g \in Gateway : g # m.gw => SameGateway(s, v, g)
            /\ m.op = "DELNEIGH" => Known(v, m.gw) = {}
            /\ m.op = "NEWNEIGH" => \E n \in Known(v, m.gw) : v.neigh[n].lladdr = m.lladdr
        BY <2>1, <2>6 DEF NeighHeard
      <3>2. NeighInformed(v, w, m.gw)
        BY <1>4, <1>17, <2>4, <3>1 DEF NeighInformed, NeighSays
      <3>3. \A g \in Gateway : NeighInformed(v, w, g)
        BY <1>12, <2>3, <3>1, <3>2
      <3> QED
        BY <1>3, <1>4, <1>8, <1>16, <2>1, <2>2, <3>3 DEF Tracks
    <2> QED
      BY <2>5, <2>6
  <1>18. CASE m.op \in {"NEWROUTE", "DELROUTE", "NEW", "DEL"}
    <2>1. SameKnown(s, v) /\ ~AboutLink(m) /\ \A g : ~AboutNeigh(m, g)
      BY <1>4, <1>18 DEF Heard, AboutLink, AboutNeigh
    <2>2. v.link.state = s.link.state /\ v.link.info = s.link.info
      BY <2>1 DEF SameKnown
    <2>3. \A g \in Gateway : NeighInformed(v, w, g)
      BY <1>12, <2>1, KnownGateways
    <2> QED
      BY <1>3, <1>4, <1>8, <1>16, <2>1, <2>2, <2>3 DEF Tracks
  <1> QED
    BY <1>2, <1>14, <1>15, <1>17, <1>18, Kinds

\* What a dump still has to tell when an entry has been taken from it.
LEMMA DumpTail ==
    ASSUME NEW s, Flow(s), s.dump # <<>>, NEW w, DumpSays(s, w),
           NEW v, v.dump = Tail(s.dump), v.current = s.current
    PROVE  /\ DumpSays(v, w)
           /\ s.current \in Scans
           /\ s.current = "links" => Head(s.dump).op = "NEWLINK" /\ Head(s.dump).info = w.link
           /\ s.current = "neighs" =>
                 /\ Head(s.dump).op = "NEWNEIGH"
                 /\ w.neigh[Head(s.dump).gw] = Head(s.dump).lladdr
                 /\ \A g : g # Head(s.dump).gw /\ NeighDump(s, g) => NeighDump(v, g)
           /\ s.current = "routes" => Head(s.dump).op = "NEWROUTE"
  <1> DEFINE q == s.dump
             p == Tail(q)
             m == Head(q)
  <1>1. s.current \in Scans
    BY DEF Flow
  <1>2. CASE s.current = "filters"
    BY <1>1, <1>2 DEF DumpSays
  <1>3. CASE s.current # "filters"
    <2>1. IsSeq(q) /\ q # <<>>
      BY <1>3 DEF Flow, Understood
    <2>2. /\ Len(q) \in Nat \ {0} /\ Len(p) = Len(q) - 1 /\ m = q[1]
          /\ \A k \in 1..Len(p) : p[k] = q[k + 1]
      BY <2>1, TailSeq
    <2>3. v.dump = p /\ s.dump = q
      OBVIOUS
    <2> HIDE DEF q, p, m
    <2>4. 1 \in 1..Len(q) /\ \A k \in 1..Len(p) : k + 1 \in 1..Len(q) /\ p[k] = q[k + 1]
      BY <2>2
    <2>5. \A k \in 1..Len(q) : k = 1 \/ (k - 1 \in 1..Len(p) /\ p[k - 1] = q[k])
      <3>1. \A k \in 1..Len(q) : k = 1 \/ (k - 1 \in 1..Len(p) /\ (k - 1) + 1 = k)
        BY <2>2
      <3> QED
        BY <2>2, <3>1
    <2>6. DumpSays(v, w)
      BY <2>3, <2>4 DEF DumpSays
    <2>7. s.current = "links" => m.op = "NEWLINK" /\ m.info = w.link
      BY <2>2, <2>3, <2>4 DEF DumpSays
    <2>8. s.current = "neighs" => m.op = "NEWNEIGH" /\ w.neigh[m.gw] = m.lladdr
      BY <2>2, <2>3, <2>4 DEF DumpSays
    <2>9. s.current = "routes" => m.op = "NEWROUTE"
      BY <2>2, <2>3, <2>4 DEF DumpSays
    <2>10. ASSUME NEW g, g # m.gw, NeighDump(s, g) PROVE NeighDump(v, g)
      <3>1. PICK k \in 1..Len(q) : AboutNeigh(q[k], g)
        BY <2>3, <2>10 DEF NeighDump, HasNeigh
      <3>2. k # 1
        BY <2>2, <2>10, <3>1 DEF AboutNeigh
      <3>3. k - 1 \in 1..Len(p) /\ AboutNeigh(p[k - 1], g)
        BY <2>5, <3>1, <3>2
      <3> QED
        BY <2>3, <2>10, <3>3 DEF NeighDump, HasNeigh
    <2> QED
      BY <1>1, <2>6, <2>7, <2>8, <2>9, <2>10 DEF m, q
  <1> QED
    BY <1>2, <1>3

\* An entry of a dump has been decoded.
LEMMA DumpTracks ==
    ASSUME NEW s, Flow(s), Fine(s, {}, {}), Unique(s), NEW w, Tracks(s, w), s.dump # <<>>,
           NEW m, m \in ObjMessage \/ m.op \in {"NEW", "DEL"},
           IF s.current = "filters" THEN m.op = "NEW" ELSE m = Head(s.dump),
           NEW v, v.mon = s.mon, v.dump = Tail(s.dump), v.current = s.current, v.work = s.work,
           Heard(s, m, v), s.link.state # "PRESENT"
    PROVE  Tracks(v, w)
  <1>1. /\ MailTrue(v.mon, w) /\ MailInOrder(v.mon, w)
        /\ LinkInformed(s, w)
        /\ \A g \in Gateway : NeighInformed(s, w, g)
        /\ s.link.state = None => LinksAhead(s) \/ LinkDump(s) \/ MailOfLink(v.mon, w)
    BY DEF Tracks
  <1>2. DumpSays(v, w)
    BY DumpTail DEF Tracks
  <1>3. /\ s.current \in Scans
        /\ s.current = "filters" => m.op = "NEW"
        /\ s.current = "links" => m.op = "NEWLINK" /\ m.info = w.link
        /\ s.current = "neighs" =>
              /\ m.op = "NEWNEIGH" /\ w.neigh[m.gw] = m.lladdr
              /\ \A g : g # m.gw /\ NeighDump(s, g) => NeighDump(v, g)
        /\ s.current = "routes" => m.op = "NEWROUTE"
    BY DumpTail DEF Tracks
  <1>4. (LinksAhead(v) <=> LinksAhead(s)) /\ (NeighsAhead(v) <=> NeighsAhead(s))
    BY SameAhead
  <1>5. s.link.state \in {None, "INSTALLED"}
    BY DEF Fine, Objects, ObjState
  <1>6. "INSTALLED" # None
    BY GraphAssumption
  <1>7. ASSUME s.current # "links", v.link.state = s.link.state, v.link.info = s.link.info
        PROVE  /\ LinkInformed(v, w)
               /\ v.link.state = None => LinksAhead(v) \/ LinkDump(v) \/ MailOfLink(v.mon, w)
    <2>1. ~LinkDump(s)
      BY <1>7 DEF LinkDump
    <2> QED
      BY <1>1, <1>4, <1>7, <2>1 DEF LinkInformed
  <1>8. ASSUME NEW g \in Gateway, SameGateway(s, v, g), NeighDump(s, g) => NeighDump(v, g)
        PROVE  NeighInformed(v, w, g)
    BY <1>1, <1>4, <1>8, NeighStays
  <1>9. CASE s.current \in {"filters", "routes"}
    <2>1. SameKnown(s, v)
      BY <1>3, <1>9 DEF Heard
    <2>2. v.link.state = s.link.state /\ v.link.info = s.link.info
      BY <2>1 DEF SameKnown
    <2>3. \A g : ~NeighDump(s, g)
      BY <1>9 DEF NeighDump
    <2>4. \A g \in Gateway : NeighInformed(v, w, g)
      BY <1>8, <2>1, <2>3, KnownGateways
    <2> QED
      BY <1>1, <1>2, <1>7, <1>9, <2>2, <2>4 DEF Tracks
  <1>10. CASE s.current = "links"
    <2>1. LinkHeard(s, m, v)
      BY <1>3, <1>10 DEF Heard
    <2>2. v.link.state = "INSTALLED" /\ v.link.info = w.link /\ v.neigh = s.neigh
      BY <1>3, <1>5, <1>10, <2>1 DEF LinkHeard
    <2>3. LinkInformed(v, w)
      BY <2>2 DEF LinkInformed
    <2>4. \A g : ~NeighDump(s, g)
      BY <1>10 DEF NeighDump
    <2>5. \A g \in Gateway : NeighInformed(v, w, g)
      BY <1>8, <2>2, <2>4, KnownGateways
    <2> QED
      BY <1>1, <1>2, <1>6, <2>2, <2>3, <2>5 DEF Tracks
  <1>11. CASE s.current = "neighs"
    <2>1. NeighHeard(s, m, v) /\ m.op = "NEWNEIGH" /\ w.neigh[m.gw] = m.lladdr
      BY <1>3, <1>11 DEF Heard
    <2>2. v.link.state = s.link.state /\ v.link.info = s.link.info
      BY <2>1 DEF NeighHeard
    <2>3. m.gw \in Gateway /\ w.neigh[m.gw] # None
      BY <2>1, Kinds DEF NeighSays
    <2>4. \A g \in Gateway : g # m.gw /\ SameGateway(s, v, g) => NeighInformed(v, w, g)
      BY <1>3, <1>8, <1>11
    <2>5. CASE s.link.state = None
      <3>1. \A g : SameGateway(s, v, g)
        BY <2>1, <2>5, KnownGateways DEF NeighHeard
      <3>2. Known(v, m.gw) = {}
        BY <2>5, <3>1, NoLinkNoNeighs DEF SameGateway
      <3>3. LinksAhead(s) \/ LinkDump(s) => NeighsAhead(v)
        BY <1>4 DEF LinkDump, NeighsAhead
      <3>4. NeighsAhead(v) \/ HasNeigh(v.mon, m.gw)
        <4>1. Announced(v.mon, m.gw, 0) => HasNeigh(v.mon, m.gw)
          BY DEF Announced, HasNeigh, AboutNeigh
        <4> QED
          BY <1>1, <2>3, <2>5, <3>3, <4>1 DEF MailOfLink
      <3>5. NeighInformed(v, w, m.gw)
        BY <3>2, <3>4 DEF NeighInformed
      <3>6. \A g \in Gateway : NeighInformed(v, w, g)
        BY <2>4, <3>1, <3>5
      <3> QED
        BY <1>1, <1>2, <1>7, <1>11, <2>2, <3>6 DEF Tracks
    <2>6. CASE s.link.state # None
      <3>1. /\ \A g \in Gateway : g # m.gw => SameGateway(s, v, g)
            /\ \E n \in Known(v, m.gw) : v.neigh[n].lladdr = m.lladdr
        BY <2>1, <2>6 DEF NeighHeard
      <3>2. NeighInformed(v, w, m.gw)
        BY <2>1, <3>1 DEF NeighInformed
      <3>3. \A g \in Gateway : NeighInformed(v, w, g)
        BY <2>4, <3>1, <3>2
      <3> QED
        BY <1>1, <1>2, <1>7, <1>11, <2>2, <3>3 DEF Tracks
    <2> QED
      BY <2>5, <2>6
  <1> QED
    BY <1>3, <1>9, <1>10, <1>11 DEF Scans

-----------------------------------------------------------------------------
(* How a step goes on from the state v in which its message, completion or  *)
(* timeout has been taken.                                                  *)

LEMMA FlowSame ==
    ASSUME NEW s, NEW v, v.work = s.work, v.current = s.current, v.mon = s.mon, v.dump = s.dump
    PROVE  /\ Flow(s) => Flow(v)
           /\ \A t : Follows(s, t) => Follows(v, t)
  <1>1. \A op : InWork(v, op) <=> InWork(s, op)
    BY DEF InWork
  <1>2. Flow(s) => Flow(v)
    BY OneScanSame DEF Flow
  <1>3. \A t : Follows(s, t) => Follows(v, t)
    BY <1>1 DEF Follows
  <1> QED
    BY <1>2, <1>3

LEMMA HandledOnward ==
    ASSUME world \in Worlds, NEW v, Flow(v), NEW t, Wide(t), Flow(t), Follows(v, t),
           SameKnown(v, t), Becomes(Sent(t)), link' = t.link, neigh' = t.neigh,
           v.current # "none" => v.current = current,
           v.current = "none" /\ t.current \in {"links", "neighs"} => t.current # current
    PROVE  Onward(v, All')
  <1> DEFINE u == Sent(t)
             a == All'
  <1>1. /\ u.work = t.work /\ u.current = t.current /\ u.mon = t.mon /\ Flow(u)
        /\ u.dump = IF t.current # current /\ t.current \in {"links", "neighs", "routes"}
                    THEN Entries(t.current) ELSE t.dump
    BY SentFlows
  <1>2. Becomes(u)
    OBVIOUS
  <1> HIDE DEF u
  <1>3. /\ a.work = u.work /\ a.current = u.current /\ a.mon = u.mon /\ a.dump = u.dump
        /\ a.link = t.link /\ a.neigh = t.neigh
    BY <1>2 DEF All, Becomes
  <1> HIDE DEF a
  <1>4. Flow(a)
    BY <1>1, <1>3, FlowSame
  <1>5. SameKnown(v, a)
    <2>1. SameKnown(t, a)
      BY <1>3, SameTreeKnown DEF SameTree
    <2> QED
      BY <2>1, KnownTransitive
  <1>6. \A op : InWork(t, op) => InWork(a, op)
    BY <1>1, <1>3 DEF InWork
  <1>7. Extends(v.mon, a.mon)
    BY <1>1, <1>3 DEF Follows
  <1>8. ASSUME v.current # "none"
        PROVE  /\ a.current = v.current /\ a.dump = v.dump
               /\ \A op \in Scans : InWork(v, op) => InWork(a, op)
    BY <1>1, <1>3, <1>6, <1>8 DEF Follows
  <1>9. ASSUME v.current = "none"
        PROVE  /\ a.current \in {"links", "neighs"} => a.dump = Entries(a.current)
               /\ a.current = "routes" => a.dump \in {<<>>, Entries("routes")}
               /\ \A op \in Scans : InWork(v, op) => a.current = op \/ InWork(a, op)
    <2>1. v.dump = <<>>
      BY <1>9 DEF Flow, Scans
    <2>2. t.current # "filters" => t.dump = <<>>
      BY <1>9, <2>1 DEF Follows
    <2>3. \A op \in Scans : InWork(v, op) => a.current = op \/ InWork(a, op)
      BY <1>1, <1>3, <1>6, <1>9 DEF Follows
    <2>4. a.current \in {"links", "neighs"} => a.dump = Entries(a.current)
      BY <1>1, <1>3, <1>9
    <2>5. a.current = "routes" => a.dump \in {<<>>, Entries("routes")}
      BY <1>1, <1>3, <2>2
    <2> QED
      BY <2>3, <2>4, <2>5
  <1>10. Onward(v, a)
    BY <1>4, <1>5, <1>7, <1>8, <1>9 DEF Onward
  <1> QED
    BY <1>10 DEF a

LEMMA KnownOnceSame ==
    ASSUME NEW s, NEW t, SameKnown(s, t), KnownOnce(s)
    PROVE  KnownOnce(t)
  BY UniqueSame DEF SameKnown, KnownOnce

\* From v on, the invariant holds in the next state.
LEMMA TracksOn ==
    ASSUME world \in Worlds, NEW v, Onward(v, All'), KnownOnce(v),
           ~torn /\ v.link.state # "PRESENT" => Tracks(v, world),
           torn' = torn, world' = world
    PROVE  TracksInv'
  <1> DEFINE a == All'
  <1>1. Onward(v, a) /\ link'.state = v.link.state
    <2>1. All'.link = link'
      BY DEF All
    <2> QED
      BY <2>1 DEF Onward, SameKnown
  <1>2. KnownOnce(a)
    <2> HIDE DEF a
    <2> QED
      BY <1>1, KnownOnceSame DEF Onward
  <1>3. ~torn' /\ link'.state # "PRESENT" => Tracks(a, world)
    <2> HIDE DEF a
    <2> QED
      BY <1>1, OnwardTracks
  <1> QED
    BY <1>2, <1>3 DEF TracksInv

\* A message.
LEMMA MessageTracks ==
    ASSUME GraphInv, TracksInv, Running, Running', Room, NEW s, Took(s), Flow(s),
           NEW m, m \in ObjMessage \/ m.op \in {"NEW", "DEL"},
           Handled(decode_nlmsg_cb(s, m)),
           \A v : /\ v.mon = s.mon /\ v.dump = s.dump /\ v.current = current /\ v.work = work
                  /\ Heard(All, m, v) /\ KnownOnce(All) /\ Tracks(All, world)
                  /\ link.state # "PRESENT" /\ v.link.state # "PRESENT"
                  => Tracks(v, world)
    PROVE  TracksInv'
  <1> DEFINE t == decode_nlmsg_cb(s, m)
             v == [s EXCEPT !.link = t.link, !.neigh = t.neigh]
  <1>1. Fine(All, {}, {}) /\ world \in Worlds
    BY Begins
  <1>2. Fine(s, {}, {})
    BY <1>1, FineSame DEF Took
  <1>3. HasRoom(s)
    BY AllFields DEF Room, HasRoom, Took, SameObjects
  <1>4. Flows(s, t) /\ (t.fault = "none" => Heard(s, m, t)) /\ Handled(t)
    BY <1>2, <1>3, DecodeFine
  <1> HIDE DEF t
  <1>5. t.fault = "none"
    <2>1. Becomes(Sent(t))
      BY <1>4 DEF Handled
    <2>2. Sent(t).fault = t.fault
      BY <1>4 DEF Sent, Flows, Wide, Field
    <2>3. fault' = Sent(t).fault
      BY <2>1 DEF Becomes
    <2> QED
      BY <2>2, <2>3 DEF Running
  <1>6. /\ v.link = t.link /\ v.neigh = t.neigh
        /\ v.work = s.work /\ v.current = s.current /\ v.mon = s.mon /\ v.dump = s.dump
    BY DEF Took, Wide, Field
  <1> HIDE DEF v
  <1>7. s.link = link /\ s.neigh = neigh /\ s.work = work /\ s.current = current
    BY AllFields DEF Took, SameObjects
  <1>8. Heard(All, m, v)
    BY <1>4, <1>5, <1>6, <1>7, HeardSame, AllFields
  <1>9. KnownOnce(All) /\ (~torn /\ link.state # "PRESENT" => Tracks(All, world))
    BY DEF TracksInv
  <1>10. KnownOnce(v) /\ (link.state = "PRESENT" => v.link.state = "PRESENT")
    BY <1>1, <1>8, <1>9, HeardOnce, AllFields
  <1>11. ~torn /\ v.link.state # "PRESENT" => Tracks(v, world)
    BY <1>6, <1>7, <1>8, <1>9, <1>10
  <1>12. Flow(v) /\ Flow(t) /\ Wide(t) /\ Follows(v, t)
    BY <1>4, <1>6, FlowSame DEF Flows
  <1>13. SameKnown(v, t)
    BY <1>6, SameTreeKnown DEF SameTree
  <1>14. /\ Becomes(Sent(t)) /\ link' = t.link /\ neigh' = t.neigh
         /\ torn' = torn /\ world' = world
    BY <1>4 DEF Handled
  <1>15. Onward(v, All')
    BY <1>1, <1>6, <1>7, <1>12, <1>13, <1>14, HandledOnward
  <1> QED
    BY <1>1, <1>10, <1>11, <1>14, <1>15, TracksOn

LEMMA NotifiedTracks ==
    ASSUME GraphInv, TracksInv, Notified, Running'
    PROVE  TracksInv'
  <1> DEFINE s == [All EXCEPT !.mon = Tail(@)]
             m == Head(mon)
  <1>1. Running /\ Room /\ mon # <<>> /\ Handled(decode_nlmsg_cb(s, m))
    BY DEF Notified
  <1>2. /\ Took(s) /\ Flow(s) /\ (m \in ObjMessage \/ m.op \in {"NEW", "DEL"})
        /\ s.mon = Tail(mon) /\ s.dump = dump
    BY <1>1, TakeNotification
  <1> HIDE DEF s
  <1>3. Flow(All) /\ Fine(All, {}, {})
    BY <1>1, Begins
  <1>4. ASSUME NEW v, v.mon = s.mon, v.dump = s.dump, v.current = current, v.work = work,
               Heard(All, m, v), KnownOnce(All), Tracks(All, world),
               link.state # "PRESENT", v.link.state # "PRESENT"
        PROVE  Tracks(v, world)
    BY <1>1, <1>2, <1>3, <1>4, MailTracks, AllFields DEF KnownOnce
  <1> HIDE DEF m
  <1> QED
    BY <1>1, <1>2, <1>4, MessageTracks

LEMMA DumpedTracks ==
    ASSUME GraphInv, TracksInv, Dumped, Running'
    PROVE  TracksInv'
  <1> DEFINE s == [All EXCEPT !.dump = Tail(@)]
             e == Head(dump)
             m == IF current = "filters" THEN [op |-> "NEW", slot |-> e.slot, tcr |-> e.tcr] ELSE e
  <1>1. Running /\ Room /\ dump # <<>> /\ Handled(decode_nlmsg_cb(s, m))
    BY DEF Dumped
  <1>2. /\ Took(s) /\ Flow(s) /\ (m \in ObjMessage \/ m.op \in {"NEW", "DEL"})
        /\ s.mon = mon /\ s.dump = Tail(dump)
    BY <1>1, TakeEntry
  <1> HIDE DEF s
  <1>3. Flow(All) /\ Fine(All, {}, {})
    BY <1>1, Begins
  <1>4. IF current = "filters" THEN m.op = "NEW" ELSE m = Head(dump)
    OBVIOUS
  <1> HIDE DEF m
  <1>5. ASSUME NEW v, v.mon = s.mon, v.dump = s.dump, v.current = current, v.work = work,
               Heard(All, m, v), KnownOnce(All), Tracks(All, world),
               link.state # "PRESENT", v.link.state # "PRESENT"
        PROVE  Tracks(v, world)
    BY <1>1, <1>2, <1>3, <1>4, <1>5, DumpTracks, AllFields DEF KnownOnce
  <1> QED
    BY <1>1, <1>2, <1>5, MessageTracks

\* No dump is in flight, before or after.
LEMMA AheadTracks ==
    ASSUME NEW s, NEW v, NEW w, Tracks(s, w), v.mon = s.mon, SameTree(s, v),
           s.dump = <<>>, v.dump = <<>>,
           LinksAhead(s) => LinksAhead(v), NeighsAhead(s) => NeighsAhead(v)
    PROVE  Tracks(v, w)
  <1>1. ~LinkDump(s) /\ \A g : ~NeighDump(s, g)
    BY DEF LinkDump, NeighDump, HasNeigh
  <1>2. DumpSays(v, w)
    BY DEF DumpSays
  <1>3. \A g : SameGateway(s, v, g)
    BY KnownGateways DEF SameTree
  <1>4. \A g \in Gateway : NeighInformed(v, w, g)
    BY <1>1, <1>3, NeighStays DEF Tracks
  <1>5. LinkInformed(v, w)
    BY <1>1 DEF Tracks, LinkInformed, SameTree
  <1> QED
    BY <1>1, <1>2, <1>4, <1>5 DEF Tracks, SameTree

LEMMA CompletedTracks ==
    ASSUME GraphInv, TracksInv, Completed, Running'
    PROVE  TracksInv'
  <1> DEFINE s == [All EXCEPT !.current = "none"]
             a == Advanced(s, current)
             t == Kick(NextDump(s, current))
  <1>1. Running /\ dump = <<>> /\ Handled(t)
    BY DEF Completed
  <1>2. /\ Wide(s) /\ SameObjects(All, s) /\ Wide(a) /\ SameObjects(All, a) /\ Flow(a)
        /\ a.mon = mon /\ a.dump = <<>> /\ a.current = "none"
        /\ current = "filters" => InWork(a, "links")
        /\ current = "links" => InWork(a, "neighs")
        /\ current = "neighs" => InWork(a, "routes")
        /\ \A op : InWork(All, op) => InWork(a, op)
    BY <1>1, TakeCompletion
  <1>3. Fine(All, {}, {}) /\ world \in Worlds
    BY <1>1, Begins
  <1> HIDE DEF s
  <1>4. Fine(s, {}, {})
    BY <1>2, <1>3, FineSame
  <1>5. Keeps(a, t)
    BY <1>2, <1>4, NextDumpKeeps, FineCountable DEF Fine
  <1> HIDE DEF t, a
  <1>6. Wide(t) /\ Flow(t) /\ Follows(a, t) /\ SameObjects(a, t)
    BY <1>2, <1>5 DEF Keeps, Flows
  <1>7. SameTree(All, a) /\ SameKnown(All, a) /\ SameKnown(a, t)
    BY <1>2, <1>6, SameTreeKnown DEF SameTree, SameObjects
  <1>8. t.current \in {"links", "neighs"} => t.current # current
    <2>1. ASSUME NEW op \in Scans, InWork(a, op), t.current \in Scans PROVE t.current = op
      <3>1. t.current = op \/ InWork(t, op)
        BY <1>2, <1>6, <2>1 DEF Follows
      <3> QED
        BY <1>6, <2>1, <3>1 DEF Flow, OneScan
    <2> QED
      BY <1>2, <2>1 DEF Scans
  <1>9. /\ Becomes(Sent(t)) /\ link' = t.link /\ neigh' = t.neigh
        /\ torn' = torn /\ world' = world
    BY <1>1 DEF Handled
  <1>10. Onward(a, All')
    BY <1>2, <1>3, <1>6, <1>7, <1>8, <1>9, HandledOnward
  <1>11. KnownOnce(All) /\ (~torn /\ link.state # "PRESENT" => Tracks(All, world))
    BY <1>1 DEF TracksInv
  <1>12. KnownOnce(a)
    BY <1>7, <1>11, KnownOnceSame
  <1>13. ~torn /\ a.link.state # "PRESENT" => Tracks(a, world)
    <2>1. LinksAhead(All) => LinksAhead(a)
      BY <1>2, AllFields DEF LinksAhead
    <2>2. NeighsAhead(All) => NeighsAhead(a)
      BY <1>2, <2>1, AllFields DEF NeighsAhead
    <2>3. a.link.state = link.state
      BY <1>7, AllFields DEF SameTree
    <2> QED
      BY <1>1, <1>2, <1>7, <1>11, <2>1, <2>2, <2>3, AheadTracks, AllFields
  <1> QED
    BY <1>3, <1>9, <1>10, <1>12, <1>13, TracksOn

LEMMA RescanTracks ==
    ASSUME GraphInv, TracksInv, Rescan, Running'
    PROVE  TracksInv'
  <1> DEFINE a == Scheduled(All, "filters")
             t == Schedule(All, "filters")
  <1>1. /\ Running /\ ~GraphScanning /\ Becomes(Sent(t)) /\ world' = world /\ torn' = torn
        /\ link' = link /\ neigh' = neigh
    BY DEF Rescan
  <1>2. Flow(All) /\ world \in Worlds
    BY <1>1, Begins
  <1>3. /\ Wide(a) /\ SameObjects(All, a) /\ a.mon = mon /\ a.dump = dump /\ a.current = current
        /\ Flow(a) /\ InWork(a, "filters") /\ current \notin Scans /\ t = Kick(a)
    BY <1>1, TakeTimeout
  <1> HIDE DEF a, t
  <1>4. dump = <<>>
    BY <1>2, <1>3, AllFields DEF Flow
  <1>5. Keeps(a, t)
    BY <1>3, KickKeeps
  <1>6. Wide(t) /\ Flow(t) /\ Follows(a, t) /\ SameObjects(a, t)
    BY <1>3, <1>5 DEF Keeps, Flows
  <1>7. SameTree(All, a) /\ SameKnown(All, a) /\ SameKnown(a, t)
    BY <1>3, <1>6, SameTreeKnown DEF SameTree, SameObjects
  <1>8. link' = t.link /\ neigh' = t.neigh
    BY <1>1, <1>3, <1>6, AllFields DEF SameObjects
  <1>9. a.current = "none" /\ t.current \in {"links", "neighs"} => t.current # current
    BY <1>3
  <1>10. Onward(a, All')
    BY <1>1, <1>2, <1>3, <1>6, <1>7, <1>8, <1>9, HandledOnward
  <1>11. KnownOnce(All) /\ (~torn /\ link.state # "PRESENT" => Tracks(All, world))
    BY <1>1 DEF TracksInv
  <1>12. KnownOnce(a)
    BY <1>7, <1>11, KnownOnceSame
  <1>13. ~torn /\ a.link.state # "PRESENT" => Tracks(a, world)
    <2>1. LinksAhead(a) /\ NeighsAhead(a)
      BY <1>3 DEF LinksAhead, NeighsAhead
    <2>2. a.link.state = link.state
      BY <1>7, AllFields DEF SameTree
    <2> QED
      BY <1>3, <1>4, <1>7, <1>11, <2>1, <2>2, AheadTracks, AllFields
  <1> QED
    BY <1>1, <1>2, <1>10, <1>12, <1>13, TracksOn

-----------------------------------------------------------------------------
(* The kernel's tables change. *)

\* The groups of links and of neighbours are joined.
LEMMA BothJoined == Joined("link") /\ Joined("neigh")
  <1>1. 0 \in Bits(1)
    BY DEF Bits
  <1>2. 2 \in Bits(4)
    <2>1. (4 \div 2 ^ 2) % 2 = 1
      OBVIOUS
    <2> QED
      BY <2>1 DEF Bits
  <1>3. /\ DOMAIN Group = {"link", "neigh", "tc", "route4", "route6"}
        /\ Group["link"] = 1 /\ Group["neigh"] = 3 /\ Group["tc"] = 4
    BY DEF Group
  <1>4. 0 \in groups /\ 2 \in groups
    BY <1>1, <1>2, <1>3, Zenon DEF groups
  <1> QED
    BY <1>3, <1>4 DEF Joined

\* What an event must announce for the daemon to be able to follow.
LEMMA EventTracks ==
    ASSUME GraphInv, TracksInv, Event,
           MailTrue(mon, world) /\ MailInOrder(mon, world)
              => /\ MailTrue(mon', world') /\ MailInOrder(mon', world')
                 /\ MailOfLink(mon, world) /\ (world.link # None => HasLink(mon))
                       => MailOfLink(mon', world'),
           HasLink(mon) \/ world'.link # world.link => HasLink(mon'),
           \A g \in Gateway : HasNeigh(mon, g) \/ world'.neigh[g] # world.neigh[g] => HasNeigh(mon', g)
    PROVE  TracksInv'
  <1> DEFINE a == All'
             w == world'
             q == mon'
  <1>1. /\ a.mon = q /\ a.work = work /\ a.current = current /\ a.dump = dump
        /\ a.link = link /\ a.neigh = neigh /\ link' = link
        /\ Running /\ (~torn' => ~torn /\ dump = <<>>)
    BY DEF All, Event
  <1>2. SameTree(All, a)
    BY <1>1, AllFields DEF SameTree
  <1> HIDE DEF a
  <1>3. KnownOnce(All) /\ (~torn /\ link.state # "PRESENT" => Tracks(All, world))
    BY <1>1 DEF TracksInv
  <1>4. SameKnown(All, a)
    BY <1>2, SameTreeKnown
  <1>5. KnownOnce(a)
    BY <1>3, <1>4, KnownOnceSame
  <1>6. ASSUME ~torn', link.state # "PRESENT" PROVE Tracks(a, w)
    <2>1. Tracks(All, world) /\ dump = <<>>
      BY <1>1, <1>3, <1>6
    <2>2. /\ MailTrue(mon, world) /\ MailInOrder(mon, world) /\ LinkInformed(All, world)
          /\ \A g \in Gateway : NeighInformed(All, world, g)
          /\ link.state = None => LinksAhead(All) \/ LinkDump(All) \/ MailOfLink(mon, world)
      BY <2>1, AllFields DEF Tracks
    <2>3. ~LinkDump(All) /\ \A g : ~NeighDump(All, g)
      BY <2>1, AllFields DEF LinkDump, NeighDump, HasNeigh
    <2>4. (LinksAhead(a) <=> LinksAhead(All)) /\ (NeighsAhead(a) <=> NeighsAhead(All))
      BY <1>1, SameAhead, AllFields
    <2>5. /\ MailTrue(q, w) /\ MailInOrder(q, w)
          /\ MailOfLink(mon, world) /\ (world.link # None => HasLink(mon)) => MailOfLink(q, w)
      BY <2>2
    <2>6. HasLink(mon) \/ w.link # world.link => HasLink(q)
      OBVIOUS
    <2>7. \A g \in Gateway : HasNeigh(mon, g) \/ w.neigh[g] # world.neigh[g] => HasNeigh(q, g)
      OBVIOUS
    <2> HIDE DEF w, q
    <2>8. "INSTALLED" # None
      BY GraphAssumption
    <2>9. DumpSays(a, w)
      BY <1>1, <2>1 DEF DumpSays
    <2>10. LinkInformed(a, w)
      BY <1>1, <2>2, <2>3, <2>4, <2>6, AllFields DEF LinkInformed
    <2>11. ASSUME NEW g \in Gateway PROVE NeighInformed(a, w, g)
      <3>1. CASE HasNeigh(q, g)
        BY <1>1, <3>1 DEF NeighInformed
      <3>2. CASE ~HasNeigh(q, g)
        <4>1. ~HasNeigh(mon, g) /\ w.neigh[g] = world.neigh[g]
          BY <2>7, <3>2
        <4>2. Known(a, g) = Known(All, g) /\ \A n \in Known(All, g) : a.neigh[n] = neigh[n]
          BY <1>4, KnownSame, AllFields
        <4>3. NeighInformed(All, world, g)
          BY <2>2
        <4> QED
          BY <2>3, <2>4, <4>1, <4>2, <4>3, AllFields DEF NeighInformed
      <3> QED
        BY <3>1, <3>2
    <2>12. link.state = None => LinksAhead(a) \/ MailOfLink(q, w)
      <3>1. SUFFICES ASSUME link.state = None, ~LinksAhead(All) PROVE MailOfLink(q, w)
        BY <2>4
      <3>2. MailOfLink(mon, world)
        BY <2>2, <2>3, <3>1
      <3>3. world.link # None => HasLink(mon)
        BY <2>2, <2>3, <2>8, <3>1, AllFields DEF LinkInformed
      <3> QED
        BY <2>5, <3>2, <3>3
    <2> QED
      BY <1>1, <2>5, <2>9, <2>10, <2>11, <2>12 DEF Tracks
  <1> QED
    BY <1>1, <1>5, <1>6 DEF TracksInv, a, w

\* Every change but that the link goes.
LEMMA OneEventTracks ==
    ASSUME GraphInv, TracksInv, Event, NEW m \in ObjMessage, m.op # "DELLINK",
           mon' = mon \o <<m>>,
           AboutLink(m) => world'.link = LinkSays(m),
           AboutLink(m) \/ world'.link = world.link,
           \A g \in Gateway : AboutNeigh(m, g) => world'.neigh[g] = NeighSays(m),
           \A g \in Gateway : AboutNeigh(m, g) \/ world'.neigh[g] = world.neigh[g],
           m.op = "NEWNEIGH" => world.link # None
    PROVE  TracksInv'
  <1> DEFINE ms == <<m>>
             q == mon'
             w == world'
  <1>1. IsSeq(ms) /\ Len(ms) = 1 /\ ms[1] = m
    <2>1. <<m>> \in Seq(ObjMessage) /\ Len(<<m>>) = 1 /\ <<m>>[1] = m
      OBVIOUS
    <2> QED
      BY <2>1, SeqPoints
  <1>2. Understood(ms)
    BY OneUnderstood
  <1>3. Understood(mon)
    BY Begins, AllFields DEF Event, Flow
  <1>4. /\ q = mon \o ms
        /\ AboutLink(m) => w.link = LinkSays(m)
        /\ AboutLink(m) \/ w.link = world.link
        /\ \A g \in Gateway : AboutNeigh(m, g) => w.neigh[g] = NeighSays(m)
        /\ \A g \in Gateway : AboutNeigh(m, g) \/ w.neigh[g] = world.neigh[g]
    OBVIOUS
  <1> HIDE DEF q, w
  <1>5. (HasLink(ms) <=> AboutLink(m)) /\ \A g : HasNeigh(ms, g) <=> AboutNeigh(m, g)
    BY <1>1 DEF HasLink, HasNeigh
  <1>6. MailTrue(ms, w)
    BY <1>1, <1>4 DEF MailTrue, LastOfLink, LastOfNeigh
  <1>7. \A g \in Gateway : w.neigh[g] # None => world.neigh[g] # None \/ (m.op = "NEWNEIGH" /\ m.gw = g)
    BY <1>4 DEF AboutNeigh, NeighSays
  <1>8. ASSUME MailTrue(mon, world), MailInOrder(mon, world)
        PROVE  /\ MailTrue(q, w) /\ MailInOrder(q, w)
               /\ MailOfLink(mon, world) /\ (world.link # None => HasLink(mon)) => MailOfLink(q, w)
    <2>1. MailTrue(q, w)
      BY <1>2, <1>3, <1>4, <1>5, <1>6, <1>8, MailAppends
    <2>2. /\ MailInOrder(q, w)
          /\ MailOfLink(mon, world) /\ (m.op = "NEWNEIGH" => HasLink(mon)) => MailOfLink(q, w)
      BY <1>3, <1>4, <1>7, <1>8, MailAppendsOne
    <2> QED
      BY <2>1, <2>2
  <1>9. /\ HasLink(mon) \/ HasLink(ms) => HasLink(q)
        /\ \A g : HasNeigh(mon, g) \/ HasNeigh(ms, g) => HasNeigh(q, g)
    <2> HIDE DEF ms
    <2>1. /\ Len(mon) \in Nat /\ Len(ms) \in Nat /\ Len(q) = Len(mon) + Len(ms)
          /\ \A k \in 1..Len(mon) : q[k] = mon[k]
          /\ \A k \in 1..Len(ms) : q[Len(mon) + k] = ms[k]
      BY <1>2, <1>3, <1>4, ConcatSeq DEF Understood
    <2>2. \A k \in 1..Len(mon) : k \in 1..Len(q)
      BY <2>1
    <2>3. \A k \in 1..Len(ms) : Len(mon) + k \in 1..Len(q)
      BY <2>1
    <2> QED
      BY <2>1, <2>2, <2>3 DEF HasLink, HasNeigh
  <1>10. HasLink(mon) \/ w.link # world.link => HasLink(q)
    BY <1>4, <1>5, <1>9
  <1>11. \A g \in Gateway : HasNeigh(mon, g) \/ w.neigh[g] # world.neigh[g] => HasNeigh(q, g)
    BY <1>4, <1>5, <1>9
  <1> QED
    BY <1>8, <1>10, <1>11, EventTracks DEF q, w

\* The link goes, and its neighbours and routes with it.
LEMMA LinkGoesTracks ==
    ASSUME GraphInv, TracksInv, LinkGoes
    PROVE  TracksInv'
  <1> DEFINE G == {h \in Gateway : world.neigh[h] # None}
             f == [g \in G |-> [op |-> "DELNEIGH", gw |-> g]]
             S == {f[g] : g \in G}
             p == SetToSeq(S)
             l == [op |-> "DELLINK"]
             ms == p \o <<l>>
             q == mon'
             w == world'
  <1>1. /\ Event /\ mon' = Announce(ms, "link")
        /\ w = [link |-> None, neigh |-> [g \in Gateway |-> None], route |-> [d \in Route |-> None]]
    <2>1. S = {[op |-> "DELNEIGH", gw |-> g] : g \in G}
      OBVIOUS
    <2> QED
      BY <2>1 DEF LinkGoes
  <1>2. w.link = None /\ \A g \in Gateway : w.neigh[g] = None
    BY <1>1
  <1>3. q = mon \o ms
    BY <1>1, BothJoined DEF Announce
  <1>4. IsFiniteSet(G)
    BY FiniteSets, FS_Subset
  <1>5. \A g \in Gateway : world.neigh[g] # None => g \in G
    OBVIOUS
  <1>6. /\ f = [g \in G |-> f[g]]
        /\ \A g \in G : f[g] \in S /\ f[g].op = "DELNEIGH" /\ f[g].gw = g /\ f[g] \in ObjMessage
    BY DEF ObjMessage
  <1>7. l.op = "DELLINK" /\ l \in ObjMessage
    BY DEF ObjMessage
  <1> HIDE DEF G, f, l
  <1>8. IsFiniteSet(S) /\ S \in SUBSET ObjMessage /\ \A m \in S : m.op = "DELNEIGH"
    BY <1>4, <1>6, FiniteImage
  <1> HIDE DEF S
  <1>9. Lists(p, S) /\ Understood(p) /\ IsSeq(p)
    BY <1>8, SetToSeqLists, SetUnderstood DEF Understood
  <1> HIDE DEF p
  <1>10. Understood(<<l>>) /\ IsSeq(<<l>>) /\ Len(<<l>>) = 1 /\ <<l>>[1] = l
    <2>1. <<l>> \in Seq(ObjMessage) /\ Len(<<l>>) = 1 /\ <<l>>[1] = l
      BY <1>7
    <2> QED
      BY <1>7, <2>1, OneUnderstood, SeqPoints
  <1>11. Understood(ms)
    BY <1>9, <1>10, ConcatUnderstood
  <1>12. /\ Len(p) \in Nat /\ Len(ms) = Len(p) + 1
         /\ \A k \in 1..Len(p) : ms[k] = p[k]
         /\ ms[Len(p) + 1] = l
    <2>1. /\ Len(p) \in Nat /\ Len(ms) = Len(p) + Len(<<l>>)
          /\ \A k \in 1..Len(p) : ms[k] = p[k]
          /\ \A k \in 1..Len(<<l>>) : ms[Len(p) + k] = <<l>>[k]
      BY <1>9, <1>10, ConcatSeq
    <2> HIDE DEF ms
    <2>2. 1 \in 1..Len(<<l>>)
      BY <1>10
    <2> QED
      BY <1>10, <2>1, <2>2
  <1> HIDE DEF ms
  <1>13. \A k \in 1..Len(ms) : ms[k].op \in {"DELNEIGH", "DELLINK"}
    <2>1. \A k \in 1..Len(ms) : k \in 1..Len(p) \/ k = Len(p) + 1
      BY <1>12
    <2>2. \A k \in 1..Len(p) : p[k].op = "DELNEIGH"
      BY <1>8, <1>9 DEF Lists
    <2> QED
      BY <1>7, <1>12, <2>1, <2>2
  <1>14. HasLink(ms)
    <2>1. Len(p) + 1 \in 1..Len(ms)
      BY <1>12
    <2> QED
      BY <1>7, <1>12, <2>1 DEF HasLink, AboutLink
  <1>15. ASSUME NEW g \in Gateway, world.neigh[g] # None PROVE HasNeigh(ms, g)
    <2>1. g \in G /\ f[g] \in S /\ f[g].op = "DELNEIGH" /\ f[g].gw = g
      BY <1>5, <1>6, <1>15
    <2>2. PICK k \in 1..Len(p) : p[k] = f[g]
      BY <1>9, <2>1 DEF Lists
    <2>3. k \in 1..Len(ms) /\ ms[k] = f[g]
      BY <1>12, <2>2
    <2> QED
      BY <2>1, <2>3 DEF HasNeigh, AboutNeigh
  <1>16. Understood(mon)
    BY <1>1, Begins, AllFields DEF Event, Flow
  <1> HIDE DEF q, w
  <1>17. MailTrue(ms, w)
    <2>1. \A k \in 1..Len(ms) : LinkSays(ms[k]) = None /\ NeighSays(ms[k]) = None
      BY <1>13 DEF LinkSays, NeighSays
    <2> QED
      BY <1>2, <2>1 DEF MailTrue
  <1>18. \A g \in Gateway : HasNeigh(ms, g) \/ w.neigh[g] = world.neigh[g]
    BY <1>2, <1>15
  <1>19. ASSUME MailTrue(mon, world), MailInOrder(mon, world)
         PROVE  MailTrue(q, w) /\ MailInOrder(q, w) /\ MailOfLink(q, w)
    <2>1. MailTrue(q, w)
      BY <1>3, <1>11, <1>14, <1>16, <1>17, <1>18, <1>19, MailAppends
    <2>2. Understood(q)
      BY <1>3, <1>11, <1>16, ConcatUnderstood
    <2> QED
      BY <1>2, <2>1, <2>2, MailAllGone
  <1>20. HasLink(q) /\ \A g : HasNeigh(mon, g) \/ HasNeigh(ms, g) => HasNeigh(q, g)
    <2>1. /\ Len(mon) \in Nat /\ Len(ms) \in Nat /\ Len(q) = Len(mon) + Len(ms)
          /\ \A k \in 1..Len(mon) : q[k] = mon[k]
          /\ \A k \in 1..Len(ms) : q[Len(mon) + k] = ms[k]
      BY <1>3, <1>11, <1>16, ConcatSeq DEF Understood
    <2>2. \A k \in 1..Len(mon) : k \in 1..Len(q)
      BY <2>1
    <2>3. \A k \in 1..Len(ms) : Len(mon) + k \in 1..Len(q)
      BY <2>1
    <2> QED
      BY <1>14, <2>1, <2>2, <2>3 DEF HasLink, HasNeigh
  <1>21. \A g \in Gateway : HasNeigh(mon, g) \/ w.neigh[g] # world.neigh[g] => HasNeigh(q, g)
    BY <1>18, <1>20
  <1> QED
    BY <1>1, <1>19, <1>20, <1>21, EventTracks DEF q, w

\* A change of the routing table.
LEMMA RouteEventTracks ==
    ASSUME GraphInv, TracksInv, Event, NEW m \in ObjMessage, m.op \in {"NEWROUTE", "DELROUTE"},
           mon' = Announce(<<m>>, "route4"),
           world'.link = world.link, world'.neigh = world.neigh
    PROVE  TracksInv'
  <1>1. ~AboutLink(m) /\ \A g : ~AboutNeigh(m, g)
    BY DEF AboutLink, AboutNeigh
  <1>2. CASE mon' = mon \o <<m>>
    BY <1>1, <1>2, OneEventTracks
  <1>3. CASE mon' = mon
    <2>1. MailTrue(mon, world) => MailTrue(mon', world')
      BY <1>3 DEF MailTrue
    <2>2. MailInOrder(mon, world) => MailInOrder(mon', world')
      BY <1>3 DEF MailInOrder
    <2>3. MailOfLink(mon, world) => MailOfLink(mon', world')
      BY <1>3 DEF MailOfLink
    <2> QED
      BY <1>3, <2>1, <2>2, <2>3, EventTracks
  <1> QED
    BY <1>2, <1>3 DEF Announce

LEMMA KernelTracks ==
    ASSUME GraphInv, TracksInv, Kernel
    PROVE  TracksInv'
  <1>1. world \in Worlds
    BY DEF GraphInv
  <1>2. /\ DOMAIN world = {"link", "neigh", "route"}
        /\ world.neigh \in [Gateway -> Lladdr \union {Zero, None}]
        /\ world.route \in [Route -> Gateway \union {None}]
    BY <1>1 DEF Worlds
  <1>3. ASSUME NEW info \in Info \union {NoVlan}, LinkChanges(info)
        PROVE  TracksInv'
    <2> DEFINE m == [op |-> "NEWLINK", info |-> info]
    <2>1. /\ m \in ObjMessage /\ m.op = "NEWLINK" /\ m.op # "DELLINK" /\ m.op # "NEWNEIGH"
          /\ AboutLink(m) /\ LinkSays(m) = info /\ \A g : ~AboutNeigh(m, g)
      BY DEF ObjMessage, AboutLink, AboutNeigh, LinkSays
    <2>2. Event /\ mon' = mon \o <<m>> /\ world' = [world EXCEPT !.link = info]
      BY <1>3, BothJoined DEF LinkChanges, Announce
    <2>3. world'.link = info /\ world'.neigh = world.neigh
      BY <1>2, <2>2
    <2> HIDE DEF m
    <2> QED
      BY <2>1, <2>2, <2>3, OneEventTracks
  <1>4. ASSUME NEW g \in Gateway, NEW a \in Lladdr \union {Zero}, NeighChanges(g, a)
        PROVE  TracksInv'
    <2> DEFINE m == [op |-> "NEWNEIGH", gw |-> g, lladdr |-> a]
    <2>1. /\ m \in ObjMessage /\ m.op # "DELLINK" /\ ~AboutLink(m)
          /\ NeighSays(m) = a /\ AboutNeigh(m, g) /\ \A h : AboutNeigh(m, h) => h = g
      BY DEF ObjMessage, AboutLink, AboutNeigh, NeighSays
    <2>2. /\ Event /\ mon' = mon \o <<m>> /\ world' = [world EXCEPT !.neigh[g] = a]
          /\ world.link # None
      BY <1>4, BothJoined DEF NeighChanges, Announce
    <2>3. /\ world'.link = world.link /\ world'.neigh[g] = a
          /\ \A h \in Gateway : h # g => world'.neigh[h] = world.neigh[h]
      BY <1>2, <2>2
    <2> HIDE DEF m
    <2> QED
      BY <2>1, <2>2, <2>3, OneEventTracks
  <1>5. ASSUME NEW g \in Gateway, NeighGoes(g)
        PROVE  TracksInv'
    <2> DEFINE m == [op |-> "DELNEIGH", gw |-> g]
    <2>1. /\ m \in ObjMessage /\ m.op # "DELLINK" /\ m.op # "NEWNEIGH" /\ ~AboutLink(m)
          /\ NeighSays(m) = None /\ AboutNeigh(m, g) /\ \A h : AboutNeigh(m, h) => h = g
      BY DEF ObjMessage, AboutLink, AboutNeigh, NeighSays
    <2>2. Event /\ mon' = mon \o <<m>> /\ world' = [world EXCEPT !.neigh[g] = None]
      BY <1>5, BothJoined DEF NeighGoes, Announce
    <2>3. /\ world'.link = world.link /\ world'.neigh[g] = None
          /\ \A h \in Gateway : h # g => world'.neigh[h] = world.neigh[h]
      BY <1>2, <2>2
    <2> HIDE DEF m
    <2> QED
      BY <2>1, <2>2, <2>3, OneEventTracks
  <1>6. ASSUME NEW d \in Route, NEW g \in Gateway, RouteChanges(d, g)
        PROVE  TracksInv'
    <2> DEFINE m == [op |-> "NEWROUTE", dst |-> d, gw |-> g]
    <2>1. m \in ObjMessage /\ m.op = "NEWROUTE"
      BY DEF ObjMessage
    <2>2. Event /\ mon' = Announce(<<m>>, "route4") /\ world' = [world EXCEPT !.route[d] = g]
      BY <1>6 DEF RouteChanges
    <2>3. world'.link = world.link /\ world'.neigh = world.neigh
      BY <1>2, <2>2
    <2> HIDE DEF m
    <2> QED
      BY <2>1, <2>2, <2>3, RouteEventTracks
  <1>7. ASSUME NEW d \in Route, RouteGoes(d)
        PROVE  TracksInv'
    <2> DEFINE m == [op |-> "DELROUTE", dst |-> d, gw |-> world.route[d]]
    <2>1. world.route[d] \in Gateway
      BY <1>2, <1>7 DEF RouteGoes
    <2>2. m \in ObjMessage /\ m.op = "DELROUTE"
      BY <2>1 DEF ObjMessage
    <2>3. Event /\ mon' = Announce(<<m>>, "route4") /\ world' = [world EXCEPT !.route[d] = None]
      BY <1>7 DEF RouteGoes
    <2>4. world'.link = world.link /\ world'.neigh = world.neigh
      BY <1>2, <2>3
    <2> HIDE DEF m
    <2> QED
      BY <2>2, <2>3, <2>4, RouteEventTracks
  <1> QED
    BY <1>3, <1>4, <1>5, <1>6, <1>7, LinkGoesTracks DEF Kernel

-----------------------------------------------------------------------------
(* The invariant. *)

LEMMA InitTracks ==
    ASSUME GraphInit
    PROVE  TracksInv
  <1>1. /\ mon = <<>> /\ current = "filters"
        /\ link = NoLink /\ neigh = [n \in Neigh |-> NoNeigh]
    BY DEF GraphInit, Start
  <1>2. link.state = None /\ \A n \in Neigh : ~neigh[n].fdb
    BY <1>1 DEF NoLink, NoNeigh
  <1>3. InTree(All) = {} /\ \A g : Known(All, g) = {}
    BY <1>2, AllFields DEF InTree, Known
  <1>4. "PRESENT" # None
    BY GraphAssumption
  <1>5. KnownOnce(All)
    BY <1>2, <1>3, <1>4, AllFields DEF KnownOnce, Unique
  <1>6. LinksAhead(All) /\ NeighsAhead(All)
    BY <1>1, AllFields DEF LinksAhead, NeighsAhead
  <1>7. LinkInformed(All, world) /\ \A g \in Gateway : NeighInformed(All, world, g)
    BY <1>2, <1>3, <1>6, AllFields DEF LinkInformed, NeighInformed
  <1>8. MailTrue(All.mon, world) /\ MailInOrder(All.mon, world)
    <2>1. Len(All.mon) = 0
      BY <1>1, AllFields
    <2> QED
      BY <2>1 DEF MailTrue, MailInOrder
  <1>9. DumpSays(All, world)
    BY <1>1, AllFields DEF DumpSays
  <1>10. Tracks(All, world)
    BY <1>6, <1>7, <1>8, <1>9 DEF Tracks
  <1> QED
    BY <1>5, <1>10 DEF TracksInv

LEMMA NextTracks ==
    ASSUME GraphInv, TracksInv, [GraphNext]_graphVars
    PROVE  TracksInv'
  <1>1. SUFFICES ASSUME Running' PROVE TracksInv'
    BY DEF TracksInv
  <1>2. CASE Notified
    BY <1>1, <1>2, NotifiedTracks
  <1>3. CASE Dumped
    BY <1>1, <1>3, DumpedTracks
  <1>4. CASE Completed
    BY <1>1, <1>4, CompletedTracks
  <1>5. CASE Rescan
    BY <1>1, <1>5, RescanTracks
  <1>6. CASE Kernel
    BY <1>6, KernelTracks
  <1>7. CASE UNCHANGED graphVars
    <2>1. All' = All /\ world' = world /\ fault' = fault /\ torn' = torn /\ link' = link
      BY <1>7 DEF All, graphVars, graph, vars
    <2> QED
      BY <2>1 DEF TracksInv, Running
  <1> QED
    BY <1>2, <1>3, <1>4, <1>5, <1>6, <1>7 DEF GraphNext, Daemon

\* However changes, dumps and notifications interleave, what the daemon does not
\* know of the link and its neighbours, or knows wrongly, is still to be heard:
\* it is in the mail, in the dump in flight, or in a dump that is still to be
\* requested (monitor.c, scan.c, obj_link.c, obj_neigh.c).
THEOREM GraphTracks == GraphSpec => [](GraphInv /\ TracksInv)
  <1>1. GraphInit => GraphInv /\ TracksInv
    BY InitGraphInv, InitTracks
  <1>2. GraphInv /\ TracksInv /\ [GraphNext]_graphVars => (GraphInv /\ TracksInv)'
    BY NextGraphInv, NextTracks
  <1> QED
    BY <1>1, <1>2, PTL DEF GraphSpec

\* Links and neighbours follow the kernel: when nothing is in flight, and no
\* table changed under a dump, the objects are what the kernel has, for any
\* number of gateways, changes and scans.
THEOREM GraphFollowsKernel == GraphSpec => []GraphCoherent
  <1>1. GraphInv /\ TracksInv => GraphCoherent
    <2> SUFFICES ASSUME GraphInv, TracksInv, Running, Quiet, ~torn, link.state # "PRESENT"
                 PROVE  /\ link.state = "INSTALLED" => link.info = world.link
                        /\ link.state = None => world.link = None
                        /\ link.state = "INSTALLED" => \A g \in Gateway :
                              LET n == obj_neigh_fdb_lookup(All, g) IN
                              world.neigh[g] = IF n = None THEN None ELSE neigh[n].lladdr
      <3>1. "PRESENT" # None /\ "INSTALLED" # None /\ "PRESENT" # "INSTALLED"
        BY GraphAssumption
      <3> QED
        BY <3>1 DEF GraphCoherent
    <2>1. Unique(All) /\ Tracks(All, world)
      BY DEF TracksInv, KnownOnce
    <2>2. ~HasLink(All.mon) /\ \A g : ~HasNeigh(All.mon, g)
      BY AllFields DEF Quiet, HasLink, HasNeigh
    <2>3. /\ ~LinkDump(All) /\ (\A g : ~NeighDump(All, g))
          /\ ~LinksAhead(All) /\ ~NeighsAhead(All)
      BY AllFields DEF Quiet, LinkDump, NeighDump, LinksAhead, NeighsAhead, InWork
    <2>4. "INSTALLED" # None
      BY GraphAssumption
    <2>5. \/ link.state = None /\ world.link = None
          \/ link.state = "INSTALLED" /\ link.info = world.link
      BY <2>1, <2>2, <2>3, AllFields DEF Tracks, LinkInformed
    <2>6. ASSUME NEW g \in Gateway
          PROVE  LET n == obj_neigh_fdb_lookup(All, g) IN
                 world.neigh[g] = IF n = None THEN None ELSE neigh[n].lladdr
      <3> DEFINE n == obj_neigh_fdb_lookup(All, g)
      <3>1. \/ n = None /\ Known(All, g) = {}
            \/ n # None /\ n \in Known(All, g)
        BY LookupOk
      <3> HIDE DEF n
      <3>2. \/ world.neigh[g] = None /\ Known(All, g) = {}
            \/ \E k \in Known(All, g) : neigh[k].lladdr = world.neigh[g]
        BY <2>1, <2>2, <2>3, AllFields DEF Tracks, NeighInformed
      <3>3. \A j, k \in Known(All, g) : j = k
        BY <2>1 DEF Unique, Known, InTree
      <3>4. world.neigh[g] = IF n = None THEN None ELSE neigh[n].lladdr
        BY <3>1, <3>2, <3>3
      <3> QED
        BY <3>4 DEF n
    <2> QED
      BY <2>4, <2>5, <2>6
  <1> QED
    BY <1>1, GraphTracks, PTL
=============================================================================
