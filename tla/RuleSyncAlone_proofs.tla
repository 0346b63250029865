----------------------- MODULE RuleSyncAlone_proofs -----------------------
(***************************************************************************)
(* Proofs about RuleSync when nobody else edits the table: the lost and    *)
(* found tree holds filters only, and a rule that is OK stays OK.  Settled *)
(* is preserved function by function, like Good in RuleSync_proofs.        *)
(***************************************************************************)
EXTENDS RuleSync_proofs

-----------------------------------------------------------------------------
(* Rules that carry traffic.                                                *)

\* Rule r is OK, and its filter is in the kernel.
Serves(s, r, slot, tcr) ==
    /\ s.rule[r].state = "OK"
    /\ s.rule[r].pos
    /\ s.rule[r].slot = slot
    /\ s.rule[r].want = tcr
    /\ s.rule[r].have = tcr
    /\ s.kern[slot] = tcr

\* Rules that serve go on serving, apart from x.
Spares(s, t, x) ==
    \A r \in Rule, slot \in Slot, tcr \in AnyTcr :
        r # x /\ Serves(s, r, slot, tcr) => Serves(t, r, slot, tcr)

\* One function of a handler after another.
LEMMA SparesPoints ==
    /\ \A s, x : Spares(s, s, x)
    /\ \A s, t, u, x : Spares(s, t, x) /\ Spares(t, u, x) => Spares(s, u, x)
    /\ \A s, t, x : Spares(s, t, NoRule) => Spares(s, t, x)
  <1>1. \A r \in Rule : r # NoRule
    BY Constants
  <1> QED
    BY <1>1 DEF Spares

\* The rules and the table are the same.
LEMMA SparesSame ==
    ASSUME NEW s, NEW t, t.rule = s.rule, t.kern = s.kern, NEW x
    PROVE  Spares(s, t, x)
  BY DEF Spares, Serves

\* Rule r does not serve: sparing the others is enough.
Idle(s, r) == \A slot \in Slot, tcr \in AnyTcr : ~Serves(s, r, slot, tcr)

LEMMA SparesIdle ==
    /\ \A s, t, r : Spares(s, t, r) /\ Idle(s, r) => Spares(s, t, NoRule)
    /\ \A s, r : s.rule[r].state # "OK" => Idle(s, r)
    /\ \A s, r : s.rule[r].want = NoTcr \/ s.rule[r].want # s.rule[r].have => Idle(s, r)
  BY Constants DEF Spares, Idle, Serves

\* Only rule r has changed.
LEMMA SparesWith ==
    ASSUME NEW s \in DaemonType, NEW r \in Rule, NEW o \in RuleRecord
    PROVE  Spares(s, With(s, r, o), r)
  <1> DEFINE t == With(s, r, o)
  <1>1. /\ \A q \in Rule : q # r => t.rule[q] = s.rule[q]
        /\ t.kern = s.kern
    BY WithPoints DEF SameButRules
  <1> HIDE DEF t
  <1>2. Spares(s, t, r)
    BY <1>1 DEF Spares, Serves
  <1> QED
    BY <1>2 DEF t

\* Of two changes of a rule the second is what remains.
LEMMA WithTwice ==
    ASSUME NEW s \in DaemonType, NEW r \in Rule, NEW o \in RuleRecord,
           NEW p \in RuleRecord
    PROVE  With(With(s, r, o), r, p) = With(s, r, p)
  BY DEF With, DaemonType

\* What is in the heap, in the queue and on the sockets.
LEMMA ElementsOf ==
    ASSUME NEW s \in DaemonType
    PROVE  /\ \A r \in Rule : /\ s.rule[r] \in RuleRecord
                             /\ s.rule[r].slot \in Slot
                             /\ s.rule[r].have \in MaybeTcr
                             /\ s.rule[r].want \in MaybeTcr
           /\ \A slot \in Slot : s.kern[slot] \in MaybeTcr
           /\ \A k \in 1..Len(s.work) : s.work[k].op \in {"install", "uninstall"}
                                        => s.work[k].rule \in Rule
           /\ \A k \in 1..Len(s.mon) : /\ s.mon[k].op \in {"NEW", "DEL"}
                                       /\ s.mon[k].slot \in Slot
                                       /\ s.mon[k].tcr \in AnyTcr
           /\ \A k \in 1..Len(s.dump) : /\ s.dump[k].slot \in Slot
                                        /\ s.dump[k].tcr \in AnyTcr
  <1>1. /\ s.rule \in [Rule -> RuleRecord]
        /\ s.kern \in [Slot -> MaybeTcr]
        /\ s.work \in Seq(Work)
        /\ s.mon \in Seq(Message)
        /\ s.dump \in Seq(Filter)
    BY DEF DaemonType, Filter
  <1>2. \A r \in Rule : s.rule[r] \in RuleRecord
    BY <1>1
  <1>3. /\ \A r \in Rule : /\ s.rule[r].slot \in Slot
                           /\ s.rule[r].have \in MaybeTcr
                           /\ s.rule[r].want \in MaybeTcr
        /\ \A slot \in Slot : s.kern[slot] \in MaybeTcr
    BY <1>1, <1>2 DEF RuleRecord
  <1>4. \A k \in 1..Len(s.work) : s.work[k] \in Work
    BY <1>1
  <1>5. \A k \in 1..Len(s.mon) : s.mon[k] \in Message
    BY <1>1
  <1>6. \A k \in 1..Len(s.dump) : s.dump[k] \in Filter
    BY <1>1
  <1>7. \A k \in 1..Len(s.work) : s.work[k].op \in {"install", "uninstall"}
                                  => s.work[k].rule \in Rule
    BY <1>4 DEF Work
  <1>8. \A k \in 1..Len(s.mon) : /\ s.mon[k].op \in {"NEW", "DEL"}
                                 /\ s.mon[k].slot \in Slot
                                 /\ s.mon[k].tcr \in AnyTcr
    BY <1>5 DEF Message
  <1>9. \A k \in 1..Len(s.dump) : s.dump[k].slot \in Slot /\ s.dump[k].tcr \in AnyTcr
    BY <1>6 DEF Filter
  <1> QED
    BY <1>2, <1>3, <1>7, <1>8, <1>9

-----------------------------------------------------------------------------
(* Changes of one rule.                                                     *)

\* Nothing is heard of r's slot that r is not ready for.
Ready(s, o) == o.laf => ~Leaving(s, o.slot)

\* What Settled says of a rule r in the lost and found tree.
Lost(s, r, o, n) ==
    o.laf => /\ o.want = NoTcr /\ o.have # NoTcr
             /\ \A p \in Owner : s.own[p] # r
             /\ o.refs = QueueHolds(o) + n
             /\ o.state = "QUEUED" => Ready(s, o)

\* A rule r stays where it is with what it has; or one that has nothing comes
\* or goes.
Stays(s, r, o) ==
    \/ /\ o.pos = s.rule[r].pos
       /\ o.slot = s.rule[r].slot
       /\ o.have = s.rule[r].have
    \/ /\ o.have = NoTcr /\ s.rule[r].have = NoTcr
       /\ s.rule[r].state # "QUEUED"

\* RequestsFit, of one request.
RequestFits(s, k) ==
    LET q == s.work[k].rule IN
    /\ s.work[k].op = "uninstall" /\ s.rule[q].have = NoTcr
       => s.kern[s.rule[q].slot] = NoTcr
    /\ s.work[k].op = "install" /\ s.rule[q].have # NoTcr
       => s.kern[s.rule[q].slot] # NoTcr

LEMMA FitsAt ==
    ASSUME NEW s, NEW f, Settled(s, f), NEW k \in 1..Len(s.work)
    PROVE  RequestFits(s, k)
  BY DEF Settled, RequestsFit, RequestFits

LEMMA AllFit ==
    ASSUME NEW s, \A k \in 1..Len(s.work) : RequestFits(s, k)
    PROVE  RequestsFit(s)
  <1>1. ASSUME NEW k \in 1..Len(s.work)
        PROVE  LET q == s.work[k].rule IN
               /\ s.work[k].op = "uninstall" /\ s.rule[q].have = NoTcr
                  => s.kern[s.rule[q].slot] = NoTcr
               /\ s.work[k].op = "install" /\ s.rule[q].have # NoTcr
                  => s.kern[s.rule[q].slot] # NoTcr
    BY <1>1, Zenon DEF RequestFits
  <1> QED
    BY <1>1, Zenon DEF RequestsFit

\* Neither the rule's have and slot nor what the kernel has there changes.
SameFit(s, t, q) ==
    /\ t.rule[q].have = s.rule[q].have
    /\ t.rule[q].slot = s.rule[q].slot
    /\ t.kern[s.rule[q].slot] = s.kern[s.rule[q].slot]

KeepsFit(s, t, c) ==
    c.op \in {"install", "uninstall"} => SameFit(s, t, c.rule)

\* Then a request about the rule goes on to fit.
LEMMA FitCarried ==
    ASSUME NEW s, NEW t, NEW k, NEW j, RequestFits(s, k),
           t.work[j] = s.work[k],
           KeepsFit(s, t, s.work[k])
    PROVE  RequestFits(t, j)
  <1> DEFINE q == s.work[k].rule
  <1>1. t.work[j].op = s.work[k].op /\ t.work[j].rule = q
    OBVIOUS
  <1>2. CASE s.work[k].op \in {"install", "uninstall"}
    <2>1. SameFit(s, t, q)
      BY <1>2 DEF KeepsFit
    <2>2. /\ s.work[k].op = "uninstall" /\ s.rule[q].have = NoTcr
             => s.kern[s.rule[q].slot] = NoTcr
          /\ s.work[k].op = "install" /\ s.rule[q].have # NoTcr
             => s.kern[s.rule[q].slot] # NoTcr
      BY Zenon DEF RequestFits
    <2> HIDE DEF q
    <2> QED
      BY <1>1, <2>1, <2>2, Zenon DEF RequestFits, SameFit
  <1>3. CASE ~(s.work[k].op \in {"install", "uninstall"})
    <2>1. t.work[j].op # "install" /\ t.work[j].op # "uninstall"
      BY <1>1, <1>3
    <2> QED
      BY <2>1, Zenon DEF RequestFits
  <1> QED
    BY <1>2, <1>3

LEMMA FitStays ==
    ASSUME NEW s, NEW f, Settled(s, f), NEW t, NEW k \in 1..Len(s.work), NEW j,
           t.work[j] = s.work[k],
           KeepsFit(s, t, s.work[k])
    PROVE  RequestFits(t, j)
  <1>1. RequestFits(s, k)
    BY FitsAt
  <1> QED
    BY <1>1, FitCarried

\* The requests that are left when the oldest is taken.
LEMMA PopFits ==
    ASSUME NEW s, NEW f, Settled(s, f), NEW t,
           \A k \in 1..Len(t.work) : /\ k + 1 \in 1..Len(s.work)
                                     /\ t.work[k] = s.work[k + 1],
           \A j \in 1..Len(s.work) : KeepsFit(s, t, s.work[j])
    PROVE  RequestsFit(t)
  <1>1. ASSUME NEW k \in 1..Len(t.work)
        PROVE  RequestFits(t, k)
    <2>1. PICK j \in 1..Len(s.work) : t.work[k] = s.work[j]
      BY <1>1
    <2> QED
      BY <2>1, FitStays
  <1> QED
    BY <1>1, AllFit

\* A rule changes.
LEMMA SettledWith ==
    ASSUME NEW s, NEW e, NEW x, Good(s, e, x), NEW f, Settled(s, f),
           NEW r \in Rule, NEW o \in RuleRecord, NEW d,
           Stays(s, r, o),
           Lost(s, r, o, d[r]),
           \A q \in Rule : q # r => d[q] = f[q]
    PROVE  Settled(With(s, r, o), d)
  <1> DEFINE t == With(s, r, o)
  <1>1. s \in DaemonType
    BY DEF Good
  <1> USE DEF Stays
  <1>2. /\ t.rule[r] = o
        /\ \A q \in Rule : q # r => t.rule[q] = s.rule[q]
        /\ SameButRules(s, t)
    BY <1>1, WithPoints
  <1>3. t.kern = s.kern /\ t.mon = s.mon /\ t.dump = s.dump /\ t.work = s.work
        /\ t.own = s.own /\ t.pin = s.pin
    BY <1>2 DEF SameButRules
  <1> HIDE DEF t
  <1>4. MonTrue(t) /\ DumpTrue(t)
    BY <1>3 DEF Settled, MonTrue, DumpTrue, LastWord
  <1>5. OneAtATime(t)
    BY <1>2, <1>3, SMTT(30) DEF Settled, OneAtATime
  <1>6. RemovalsAwaited(t)
    BY <1>2, <1>3 DEF Settled, RemovalsAwaited, LastWord
  <1>7. RequestsFit(t)
    <2>1. \A k \in 1..Len(s.work) : s.work[k].op \in {"install", "uninstall"}
                                    => s.work[k].rule \in Rule
      BY <1>1, ElementsOf
    <2>2. ASSUME NEW k \in 1..Len(s.work), s.work[k].op \in {"install", "uninstall"}
          PROVE  SameFit(s, t, s.work[k].rule)
      <3>1. CASE s.work[k].rule # r
        BY <1>2, <1>3, <2>1, <2>2, <3>1 DEF SameFit
      <3>2. CASE s.work[k].rule = r
        <4>1. s.rule[r].state = "QUEUED"
          BY <2>2, <3>2 DEF Good, RequestsAgree
        <4>2. o.have = s.rule[r].have /\ o.slot = s.rule[r].slot
          BY <4>1
        <4> QED
          BY <1>2, <1>3, <3>2, <4>2 DEF SameFit
      <3> QED
        BY <3>1, <3>2
    <2>3. ASSUME NEW k \in 1..Len(t.work)
          PROVE  RequestFits(t, k)
      <3>1. k \in 1..Len(s.work) /\ t.work[k] = s.work[k]
        BY <1>3
      <3>2. KeepsFit(s, t, s.work[k])
        BY <2>2, <3>1 DEF KeepsFit
      <3> QED
        BY <3>1, <3>2, FitStays
    <2> QED
      BY <2>3, AllFit
  <1>8. Unclaimed(t, d)
    <2>1. \A slot : Leaving(t, slot) <=> Leaving(s, slot)
      BY <1>3 DEF Leaving
    <2> QED
      BY <1>2, <1>3, <2>1 DEF Settled, Unclaimed, Lost, Ready
  <1>9. HeldByOne(t)
    BY <1>3 DEF Settled, HeldByOne
  <1> QED
    BY <1>4, <1>5, <1>6, <1>7, <1>8, <1>9 DEF Settled, t

\* What Settled says of a rule in the lost and found tree.
LEMMA LostIs ==
    ASSUME NEW s, NEW f, Settled(s, f), NEW r \in Rule
    PROVE  Lost(s, r, s.rule[r], f[r])
  BY DEF Settled, Unclaimed, Lost, Ready

-----------------------------------------------------------------------------
(* States of a rule.                                                        *)

\* A new state for a rule that is not QUEUED.
LEMMA StateSettled ==
    ASSUME NEW s, NEW e, NEW x, Good(s, e, x), NEW f, Settled(s, f), NEW r \in Rule,
           s.rule[r].state # "QUEUED",
           NEW st \in {"ALIEN", "WANT", "PENDING", "OK", "ZOMBIE"}
    PROVE  /\ Settled(State(s, r, st), f)
           /\ State(s, r, st).rule[r].state = st
           /\ State(s, r, st).rule[r].slot = s.rule[r].slot
           /\ State(s, r, st).rule[r].have = s.rule[r].have
           /\ State(s, r, st).rule[r].laf = s.rule[r].laf
           /\ SameButRules(s, State(s, r, st))
           /\ Spares(s, State(s, r, st), r)
           /\ st = "OK" => Spares(s, State(s, r, st), NoRule)
  <1> DEFINE o == [s.rule[r] EXCEPT !.state = st]
  <1>1. s \in DaemonType /\ s.rule[r] \in RuleRecord
    BY DEF Good, DaemonType
  <1>2. st \in RuleState
    BY DEF RuleState
  <1>3. o \in RuleRecord /\ State(s, r, st) = With(s, r, o)
    BY <1>1, <1>2, StateIs
  <1>4. /\ o.pos = s.rule[r].pos
        /\ o.slot = s.rule[r].slot
        /\ o.have = s.rule[r].have
        /\ o.want = s.rule[r].want
        /\ o.refs = s.rule[r].refs
        /\ o.laf = s.rule[r].laf
        /\ o.state = st
    BY <1>1 DEF RuleRecord
  <1>5. /\ With(s, r, o).rule[r] = o
        /\ \A q \in Rule : q # r => With(s, r, o).rule[q] = s.rule[q]
        /\ SameButRules(s, With(s, r, o))
    BY <1>1, <1>3, WithPoints, SMTT(30)
  <1> HIDE DEF o
  <1>7. Lost(s, r, o, f[r])
    <2>1. st # "QUEUED"
      OBVIOUS
    <2>2. QueueHolds(o) = 0 /\ QueueHolds(s.rule[r]) = 0
      BY <1>4, <2>1 DEF QueueHolds
    <2>3. Lost(s, r, s.rule[r], f[r])
      BY LostIs
    <2> QED
      BY <1>4, <2>1, <2>2, <2>3 DEF Lost
  <1>8. Settled(With(s, r, o), f)
    <2>1. Stays(s, r, o)
      BY <1>4 DEF Stays
    <2> QED
      BY <1>3, <1>7, <2>1, SettledWith
  <1>9. Spares(s, With(s, r, o), r)
    BY <1>1, <1>3, SparesWith
  <1>10. ASSUME st = "OK"
         PROVE  Spares(s, With(s, r, o), NoRule)
    BY <1>4, <1>5, <1>10 DEF Spares, Serves, SameButRules
  <1> QED
    BY <1>3, <1>4, <1>5, <1>8, <1>9, <1>10

\* A request that fits is queued.
LEMMA QueueSettled ==
    ASSUME NEW s, NEW e, NEW x, Good(s, e, x),
           NEW f \in [Rule -> Nat], Settled(s, f), NEW r \in Rule,
           NEW op \in {"install", "uninstall"},
           s.rule[r].state \notin {"free", "QUEUED"},
           op = "uninstall" => s.rule[r].have # NoTcr,
           op = "install" => s.rule[r].have = NoTcr,
           Ready(s, s.rule[r])
    PROVE  /\ Settled(Queue(s, op, r), f)
           /\ Spares(s, Queue(s, op, r), r)
  <1> DEFINE o == [s.rule[r] EXCEPT !.state = "QUEUED", !.refs = @ + 1]
             t == Queue(s, op, r)
             w == Change(op, r)
             n == Len(s.work)
  <1>1. s \in DaemonType /\ s.rule[r] \in RuleRecord /\ s.work \in Seq(Work)
    BY DEF Good, DaemonType
  <1>2. o \in RuleRecord
    <2>1. s.rule[r].refs + 1 \in Nat /\ "QUEUED" \in RuleState
      BY <1>1 DEF RuleRecord, RuleState
    <2> QED
      BY <1>1, <2>1 DEF RuleRecord
  <1>3. /\ o.state = "QUEUED"
        /\ o.pos = s.rule[r].pos
        /\ o.slot = s.rule[r].slot
        /\ o.have = s.rule[r].have
        /\ o.want = s.rule[r].want
        /\ o.laf = s.rule[r].laf
        /\ o.refs = s.rule[r].refs + 1
    BY <1>1 DEF RuleRecord
  <1>4. /\ t.rule = [s.rule EXCEPT ![r] = o]
        /\ t.work = Append(s.work, w)
        /\ t.pin = s.pin /\ t.kern = s.kern /\ t.mon = s.mon
        /\ t.dump = s.dump /\ t.own = s.own
    BY <1>1, ZenonT(60) DEF Queue, Ref, DaemonType, RuleRecord
  <1>5. t.rule[r] = o /\ \A q \in Rule : q # r => t.rule[q] = s.rule[q]
    BY <1>1, <1>4 DEF DaemonType
  <1>6. w \in Work /\ w.op = op /\ w.rule = r
    BY DEF Change, Work
  <1>7. /\ Len(t.work) = n + 1
        /\ \A k \in 1..(n + 1) : k \in 1..n \/ k = n + 1
        /\ \A k \in 1..n : t.work[k] = s.work[k]
        /\ t.work[n + 1] = w
    BY <1>1, <1>4, <1>6, AppendPoints
  <1> HIDE DEF t, o, w, n
  <1>8. MonTrue(t) /\ DumpTrue(t)
    BY <1>4 DEF Settled, MonTrue, DumpTrue, LastWord
  <1>9. OneAtATime(t)
    BY <1>3, <1>4, <1>5, SMTT(30) DEF Settled, OneAtATime
  <1>10. RemovalsAwaited(t)
    BY <1>3, <1>4, <1>5, SMTT(30) DEF Settled, RemovalsAwaited, LastWord
  <1>11. RequestsFit(t)
    <2>1. \A k \in 1..n : s.work[k].op \in {"install", "uninstall"}
                          => s.work[k].rule \in Rule /\ s.work[k].rule # r
      BY <1>1, ElementsOf DEF Good, RequestsAgree, n
    <2>2. ASSUME NEW k \in 1..Len(t.work)
          PROVE  RequestFits(t, k)
      <3>1. CASE k \in 1..n
        <4>1. t.work[k] = s.work[k] /\ t.kern = s.kern /\ k \in 1..Len(s.work)
          BY <1>4, <1>7, <3>1 DEF n
        <4>2. KeepsFit(s, t, s.work[k])
          BY <1>4, <1>5, <2>1, <3>1 DEF SameFit, KeepsFit
        <4> QED
          BY <4>1, <4>2, FitStays
      <3>2. CASE k = n + 1
        BY <1>3, <1>5, <1>6, <1>7, <3>2 DEF RequestFits
      <3> QED
        BY <1>7, <2>2, <3>1, <3>2
    <2> QED
      BY <2>2, AllFit
  <1>12. Unclaimed(t, f)
    <2>1. \A slot : Leaving(t, slot) <=> Leaving(s, slot)
      BY <1>4 DEF Leaving
    <2>2. /\ QueueHolds(o) = 1
          /\ QueueHolds(s.rule[r]) = 0
      BY <1>3 DEF QueueHolds
    <2>3. Lost(s, r, s.rule[r], f[r])
      BY LostIs
    <2>4. o.laf => o.refs = QueueHolds(o) + f[r]
      <3>1. o.laf => s.rule[r].refs = 0 + f[r] /\ s.rule[r].refs \in Nat
        BY <1>1, <1>3, <2>2, <2>3 DEF Lost, RuleRecord
      <3>2. ASSUME o.laf PROVE o.refs = QueueHolds(o) + f[r]
        <4>1. s.rule[r].refs = 0 + f[r] /\ s.rule[r].refs \in Nat
          BY <3>1, <3>2
        <4>2. QueueHolds(o) + f[r] = 1 + f[r]
          BY <2>2
        <4>3. f[r] \in Nat
          OBVIOUS
        <4> QED
          BY <1>3, <2>2, <4>1, <4>2, <4>3
      <3> QED
        BY <3>2
    <2> QED
      BY <1>3, <1>4, <1>5, <2>1, <2>3, <2>4 DEF Settled, Unclaimed, Lost, Ready
  <1>13. HeldByOne(t)
    BY <1>4 DEF Settled, HeldByOne
  <1>14. Spares(s, t, r)
    BY <1>4, <1>5 DEF Spares, Serves
  <1> QED
    BY <1>8, <1>9, <1>10, <1>11, <1>12, <1>13, <1>14 DEF Settled, t

\* obj_rule_update_state.  Before the pin is removed nothing is uninstalled.
LEMMA UpdateStateSettled ==
    ASSUME NEW s, NEW e \in [Rule -> Nat], NEW x, Good(s, e, x),
           NEW f \in [Rule -> Nat], Settled(s, f),
           NEW r \in Rule, x \in {NoRule, r}, Live(s, r),
           Ready(s, s.rule[r]) \/ s.pin # 3
    PROVE  /\ Settled(UpdateState(s, r), f)
           /\ Spares(s, UpdateState(s, r), NoRule)
  <1> DEFINE t == UpdateState(s, r)
             o == s.rule[r]
  <1>1. s \in DaemonType /\ o \in RuleRecord /\ s.pin \in 0..3
    BY DEF Good, DaemonType
  <1>2. o.state # "free"
    BY DEF Live
  <1>3. CASE t = s
    BY <1>3, SparesPoints
  <1>4. CASE s.pin # 0 /\ o.state # "QUEUED"
    <2>1. ASSUME NEW st \in {"ALIEN", "WANT", "PENDING", "OK", "ZOMBIE"}
          PROVE  /\ Settled(State(s, r, st), f)
                 /\ State(s, r, st).rule[r].state = st
                 /\ State(s, r, st).rule[r].slot = s.rule[r].slot
                 /\ State(s, r, st).rule[r].have = s.rule[r].have
                 /\ State(s, r, st).rule[r].laf = s.rule[r].laf
                 /\ SameButRules(s, State(s, r, st))
                 /\ Spares(s, State(s, r, st), r)
                 /\ st = "OK" => Spares(s, State(s, r, st), NoRule)
      <3>1. s.rule[r].state # "QUEUED"
        BY <1>4
      <3> QED
        BY <2>1, <3>1, StateSettled
    <2>2. CASE o.want = NoTcr /\ o.have = NoTcr
      <3>1. t = s \/ t = State(s, r, "ZOMBIE")
        BY <1>4, <2>2 DEF UpdateState
      <3>2. Idle(s, r)
        BY <2>2, SparesIdle
      <3>3. /\ Settled(State(s, r, "ZOMBIE"), f)
            /\ Spares(s, State(s, r, "ZOMBIE"), r)
        BY <2>1
      <3>4. Spares(s, State(s, r, "ZOMBIE"), NoRule)
        BY <3>2, <3>3, SparesIdle
      <3> QED
        BY <1>3, <3>1, <3>3, <3>4
    <2>3. CASE ~(o.want = NoTcr /\ o.have = NoTcr) /\ o.want = o.have
      <3>1. t = State(s, r, "OK")
        BY <1>4, <2>3 DEF UpdateState
      <3> QED
        BY <2>1, <3>1
    <2>4. ASSUME o.want # o.have,
                 NEW st \in {"WANT", "ALIEN"}, NEW op \in {"install", "uninstall"},
                 \/ t = State(s, r, st)
                 \/ t = Queue(State(s, r, st), op, r) /\ Ready(s, s.rule[r]),
                 op = "uninstall" => o.have # NoTcr,
                 op = "install" => o.have = NoTcr
          PROVE  Settled(t, f) /\ Spares(s, t, r)
      <3> DEFINE u == State(s, r, st)
      <3>1. /\ Settled(u, f)
            /\ u.rule[r].state = st
            /\ u.rule[r].have = o.have
            /\ u.rule[r].laf = o.laf
            /\ u.rule[r].slot = o.slot
            /\ SameButRules(s, u)
            /\ Spares(s, u, r)
        BY <2>1
      <3>2. Good(u, e, NoRule)
        BY <1>2, <1>4, StateGood
      <3> HIDE DEF u
      <3>4. ASSUME Ready(s, s.rule[r])
            PROVE  Settled(Queue(u, op, r), f) /\ Spares(u, Queue(u, op, r), r)
        <4>1. Ready(u, u.rule[r])
          BY <3>1, <3>4 DEF Ready, Leaving, SameButRules
        <4> QED
          BY <2>4, <3>1, <3>2, <4>1, QueueSettled
      <3> QED
        BY <2>4, <3>1, <3>4, SparesPoints DEF u
    <2>5. CASE o.want # o.have
      <3>1. CASE o.have = NoTcr
        <4>1. \/ t = State(s, r, "WANT")
              \/ t = Queue(State(s, r, "WANT"), "install", r)
          BY <1>4, <2>5, <3>1 DEF UpdateState, QueueInstall
        <4>2. Ready(s, s.rule[r])
          BY <3>1, LostIs DEF Lost, Ready
        <4>3. Settled(t, f) /\ Spares(s, t, r)
          BY <2>4, <2>5, <3>1, <4>1, <4>2
        <4> QED
          BY <2>5, <4>3, SparesIdle
      <3>2. CASE o.have # NoTcr
        <4>1. \/ t = State(s, r, "ALIEN")
              \/ t = Queue(State(s, r, "ALIEN"), "uninstall", r) /\ s.pin >= 3
          <5>1. State(s, r, "ALIEN").pin = s.pin
            BY <2>1 DEF SameButRules
          <5> QED
            BY <1>1, <1>4, <2>5, <3>2, <5>1 DEF UpdateState, QueueUninstall
        <4>2. s.pin >= 3 => Ready(s, s.rule[r])
          BY <1>1
        <4>3. Settled(t, f) /\ Spares(s, t, r)
          BY <2>4, <2>5, <3>2, <4>1, <4>2
        <4> QED
          BY <2>5, <4>3, SparesIdle
      <3> QED
        BY <3>1, <3>2
    <2> QED
      BY <2>2, <2>3, <2>5
  <1> QED
    BY <1>3, <1>4 DEF UpdateState

\* obj_rule_uninstall, of a rule that is not in the lost and found tree.
LEMMA UninstallSettled ==
    ASSUME NEW s, NEW e \in [Rule -> Nat], NEW x, Good(s, e, x),
           NEW f \in [Rule -> Nat], Settled(s, f),
           NEW r \in Rule, x \in {NoRule, r}, Live(s, r), ~s.rule[r].laf
    PROVE  /\ Settled(Uninstall(s, r), f)
           /\ Spares(s, Uninstall(s, r), r)
  <1> DEFINE o == [s.rule[r] EXCEPT !.want = NoTcr]
             t == With(s, r, o)
  <1>1. s \in DaemonType /\ s.rule[r] \in RuleRecord
    BY DEF Good, DaemonType
  <1>2. o \in RuleRecord
    BY <1>1, Constants DEF RuleRecord
  <1>3. /\ o.pos = s.rule[r].pos
        /\ o.slot = s.rule[r].slot
        /\ o.have = s.rule[r].have
        /\ o.state = s.rule[r].state
        /\ o.inst = s.rule[r].inst
        /\ o.refs = s.rule[r].refs
        /\ o.laf = s.rule[r].laf
    BY <1>1 DEF RuleRecord
  <1>4. Uninstall(s, r) = UpdateState(t, r)
    BY DEF Uninstall, With
  <1> HIDE DEF o
  <1>5. Settled(t, f) /\ Spares(s, t, r)
    <2>1. Stays(s, r, o) /\ Lost(s, r, o, f[r])
      BY <1>3 DEF Stays, Lost
    <2> QED
      BY <1>1, <1>2, <2>1, SettledWith, SparesWith
  <1>6. t.rule[r] = o
    BY <1>1, <1>2, WithPoints
  <1>7. Good(t, e, r)
    <2>1. /\ Sane(s.rule[r], s.pin)
          /\ s.rule[r].refs >= Cardinality(HoldersOf(s, r)) + QueueHolds(s.rule[r]) + e[r]
      BY DEF Good, RulesSane, Counted
    <2>2. Sane(o, s.pin)
      <3>1. s.rule[r].state # "free"
        BY DEF Live
      <3> QED
        BY <1>3, <2>1, <3>1 DEF Sane
    <2>3. o.refs >= Cardinality(HoldersOf(s, r)) + QueueHolds(o) + e[r]
      BY <1>3, <2>1 DEF QueueHolds
    <2>4. o.pos => \A q \in Rule : q # r /\ s.rule[q].pos => s.rule[q].slot # o.slot
      BY <1>3 DEF Good, Apart
    <2> QED
      BY <1>2, <1>3, <2>2, <2>3, <2>4, RuleChange
  <1> HIDE DEF t
  <1>8. Live(t, r) /\ Ready(t, t.rule[r])
    BY <1>3, <1>6 DEF Live, Ready
  <1>9. Settled(UpdateState(t, r), f) /\ Spares(t, UpdateState(t, r), NoRule)
    BY <1>5, <1>7, <1>8, UpdateStateSettled
  <1> QED
    BY <1>4, <1>5, <1>9, SparesPoints

\* obj_rule_unref.
LEMMA UnrefSettled ==
    ASSUME NEW s, NEW e \in [Rule -> Nat], Good(s, e, NoRule), Settled(s, e),
           NEW r \in Rule, e[r] > 0,
           NEW d \in [Rule -> Nat], d = [e EXCEPT ![r] = @ - 1]
    PROVE  /\ Settled(Unref(s, r), d)
           /\ Spares(s, Unref(s, r), r)
  <1> DEFINE o == [s.rule[r] EXCEPT !.refs = @ - 1]
             t == With(s, r, o)
             u == IF Abandoned(t.rule[r]) THEN Uninstall(t, r) ELSE t
  <1>1. /\ o \in RuleRecord
        /\ Good(t, d, NoRule)
        /\ Live(t, r)
        /\ t.rule[r] = o
    BY CountDownGood
  <1>2. s \in DaemonType /\ s.rule[r] \in RuleRecord
    BY DEF Good, DaemonType
  <1>3. /\ o.state = s.rule[r].state
        /\ o.pos = s.rule[r].pos
        /\ o.slot = s.rule[r].slot
        /\ o.have = s.rule[r].have
        /\ o.want = s.rule[r].want
        /\ o.laf = s.rule[r].laf
        /\ o.refs = s.rule[r].refs - 1
    BY <1>2 DEF RuleRecord
  <1>4. Unref(s, r) = IF Reapable(u, r) THEN Reap(u, r) ELSE u
    BY DEF Unref, CountDown, With
  <1> HIDE DEF o
  <1>5. Lost(s, r, o, d[r])
    <2>1. Lost(s, r, s.rule[r], e[r])
      BY LostIs
    <2>2. QueueHolds(o) = QueueHolds(s.rule[r]) /\ QueueHolds(o) \in Nat
      BY <1>3 DEF QueueHolds
    <2>3. d[r] = e[r] - 1 /\ e[r] \in Nat
      OBVIOUS
    <2>4. o.laf => o.refs = QueueHolds(o) + d[r]
      <3>1. ASSUME o.laf PROVE o.refs = QueueHolds(o) + d[r]
        <4>1. s.rule[r].refs = QueueHolds(s.rule[r]) + e[r]
          BY <1>3, <2>1, <3>1 DEF Lost
        <4> QED
          BY <1>3, <2>2, <2>3, <4>1
      <3> QED
        BY <3>1
    <2> QED
      BY <1>3, <2>1, <2>4 DEF Lost, Ready
  <1>6. Settled(t, d) /\ Spares(s, t, r)
    <2>1. \A q \in Rule : q # r => d[q] = e[q]
      OBVIOUS
    <2>2. Stays(s, r, o)
      BY <1>3 DEF Stays
    <2>3. o \in RuleRecord
      BY <1>1
    <2>4. ASSUME NEW g, Lost(s, r, o, g[r]), \A q \in Rule : q # r => g[q] = e[q]
          PROVE  Settled(t, g)
      BY <2>2, <2>3, <2>4, SettledWith
    <2>5. Settled(t, d)
      BY <1>5, <2>1, <2>4
    <2>6. Spares(s, t, r)
      BY <1>2, <2>3, SparesWith
    <2> QED
      BY <2>5, <2>6
  <1> HIDE DEF t
  <1>7. Good(u, d, NoRule) /\ Settled(u, d) /\ Spares(s, u, r)
    <2>1. CASE Abandoned(t.rule[r])
      <3>1. ~t.rule[r].laf
        BY <1>6, <2>1, LostIs DEF Abandoned, Lost
      <3>2. Good(Uninstall(t, r), d, NoRule)
        BY <1>1, UninstallGood
      <3>3. Settled(Uninstall(t, r), d) /\ Spares(t, Uninstall(t, r), r)
        BY <1>1, <1>6, <3>1, UninstallSettled
      <3> QED
        BY <1>6, <2>1, <3>2, <3>3, SparesPoints
    <2>2. CASE ~Abandoned(t.rule[r])
      BY <1>1, <1>6, <2>2
    <2> QED
      BY <2>1, <2>2
  <1> HIDE DEF u
  <1>8. ASSUME Reapable(u, r)
        PROVE  Settled(Reap(u, r), d) /\ Spares(s, Reap(u, r), r)
    <2>1. u.rule[r].have = NoTcr /\ u.rule[r].state # "QUEUED"
      BY <1>7, <1>8, ReapableIsFree
    <2>2. Freed \in RuleRecord /\ Freed.have = NoTcr /\ ~Freed.laf
      BY Constants DEF Freed
    <2>3. Reap(u, r) = With(u, r, Freed)
      BY DEF Reap, With
    <2>4. Settled(With(u, r, Freed), d)
      <3>1. Stays(u, r, Freed) /\ Lost(u, r, Freed, d[r])
        BY <2>1, <2>2 DEF Stays, Lost
      <3> QED
        BY <1>7, <2>2, <3>1, SettledWith
    <2>5. u \in DaemonType
      BY <1>7 DEF Good
    <2>6. Spares(u, With(u, r, Freed), r)
      BY <2>2, <2>5, SparesWith
    <2> QED
      BY <1>7, <2>3, <2>4, <2>6, SparesPoints
  <1> QED
    BY <1>4, <1>7, <1>8

-----------------------------------------------------------------------------
(* The kernel's table and the notification socket.                          *)

\* Of the notifications about a slot one is the last.
LEMMA LastExists ==
    ASSUME NEW s \in DaemonType, NEW k \in 1..Len(s.mon)
    PROVE  \E j \in 1..Len(s.mon) : s.mon[j].slot = s.mon[k].slot /\ LastWord(s, j)
  <1> DEFINE n == Len(s.mon)
             About == {j \in 1..n : s.mon[j].slot = s.mon[k].slot}
             Far == {n - j : j \in About}
  <1>1. n \in Nat
    <2>1. s.mon \in Seq(Message)
      BY DEF DaemonType
    <2> QED
      BY <2>1
  <1>2. k \in About
    OBVIOUS
  <1> HIDE DEF n
  <1>3. Far \subseteq Nat /\ Far # {}
    BY <1>1, <1>2
  <1>4. PICK m \in Far : \A i \in Far : m <= i
    BY <1>3, LeastNumber
  <1>5. PICK j \in About : m = n - j
    BY <1>4
  <1>6. \A i \in About : n - j <= n - i
    BY <1>4, <1>5
  <1>7. \A i \in About : i <= j
    BY <1>1, <1>6
  <1>8. \A i \in 1..n : i > j => i \notin About
    BY <1>1, <1>7
  <1>9. LastWord(s, j)
    BY <1>5, <1>8 DEF LastWord, n
  <1> QED
    BY <1>5, <1>9 DEF n

\* A notification about a slot that is empty, if any, is of a removal last; the
\* rule in the slot waits for it.
LEMMA EmptyAwaited ==
    ASSUME NEW s \in DaemonType, NEW f, Settled(s, f), NEW k \in 1..Len(s.mon),
           s.kern[s.mon[k].slot] = NoTcr
    PROVE  /\ Leaving(s, s.mon[k].slot)
           /\ \E r \in Rule : /\ s.rule[r].pos
                              /\ s.rule[r].slot = s.mon[k].slot
                              /\ s.rule[r].have # NoTcr
  <1>1. PICK j \in 1..Len(s.mon) : s.mon[j].slot = s.mon[k].slot /\ LastWord(s, j)
    BY LastExists
  <1>2. Effect(s.mon[j]) = NoTcr
    BY <1>1 DEF Settled, MonTrue
  <1>3. s.mon[j].op = "DEL"
    BY <1>2, ElementsOf, Constants DEF Effect
  <1> QED
    BY <1>1, <1>3 DEF Settled, RemovalsAwaited, Leaving

\* The rule in a slot is the only one there.
LEMMA AloneThere ==
    ASSUME NEW s, NEW e, NEW x, Good(s, e, x), NEW r \in Rule, s.rule[r].pos
    PROVE  \A q \in Rule : s.rule[q].pos /\ s.rule[q].slot = s.rule[r].slot => q = r
  BY DEF Good, Apart

\* A rule with a request has not been reaped.
LEMMA RequestedIsThere ==
    ASSUME NEW s, NEW e, NEW x, Good(s, e, x), NEW k \in 1..Len(s.work),
           s.work[k].rule \in Rule
    PROVE  s.rule[s.work[k].rule].state = "QUEUED" /\ s.rule[s.work[k].rule].pos
  <1> DEFINE q == s.work[k].rule
  <1>1. s.rule[q].state = "QUEUED"
    BY DEF Good, RequestsAgree
  <1>2. Sane(s.rule[q], s.pin)
    BY DEF Good, RulesSane
  <1> QED
    BY <1>1, <1>2 DEF Sane

\* RTM_NEWTFILTER, for a rule that has nothing, as far as it knows, when the
\* kernel has nothing.
LEMMA KernelGetsSettled ==
    ASSUME NEW s, NEW e, NEW x, Good(s, e, x), NEW f, Settled(s, f), s.dump = <<>>,
           NEW r \in Rule, s.rule[r].pos, s.rule[r].state # "QUEUED",
           NEW slot, slot = s.rule[r].slot, NEW tcr \in AnyTcr,
           s.kern[slot] = NoTcr => s.rule[r].have = NoTcr
    PROVE  /\ Settled(KernelGets(s, slot, tcr), f)
           /\ Spares(s, KernelGets(s, slot, tcr), NoRule)
  <1> DEFINE t == KernelGets(s, slot, tcr)
             m == [op |-> "NEW", slot |-> slot, tcr |-> tcr]
             n == Len(s.mon)
  <1>1. CASE s.kern[slot] # NoTcr
    BY <1>1, SparesPoints DEF KernelGets
  <1>2. CASE s.kern[slot] = NoTcr
    <2>1. s \in DaemonType /\ slot \in Slot
      BY ElementsOf DEF Good
    <2>2. /\ m \in Message
          /\ m.op = "NEW"
          /\ m.slot = slot
          /\ m.tcr = tcr
          /\ Effect(m) = tcr
      BY <2>1 DEF Message, Effect
    <2> DEFINE table == [s.kern EXCEPT ![slot] = tcr]
               news  == Append(s.mon, m)
    <2>3. t = [s EXCEPT !.kern = table, !.mon = news]
      BY <1>2, <2>1 DEF KernelGets, DaemonType
    <2> HIDE DEF m, table, news
    <2>0. /\ t.rule = s.rule /\ t.work = s.work /\ t.dump = s.dump
          /\ t.own = s.own /\ t.pin = s.pin
          /\ t.kern = table
          /\ t.mon = news
      BY <2>1, <2>3 DEF DaemonType
    <2>4. /\ t.rule = s.rule /\ t.work = s.work /\ t.dump = s.dump
          /\ t.own = s.own /\ t.pin = s.pin
          /\ t.kern = [s.kern EXCEPT ![m.slot] = Effect(m)]
          /\ t.mon = Append(s.mon, m)
      BY <2>0, <2>2 DEF table, news
    <2> HIDE DEF t, m
    <2>5. /\ t.kern[slot] = tcr
          /\ \A c \in Slot : c # slot => t.kern[c] = s.kern[c]
          /\ n \in Nat
          /\ Len(t.mon) = n + 1
          /\ t.mon[n + 1] = m
          /\ \A k \in 1..n : t.mon[k] = s.mon[k] /\ s.mon[k].slot \in Slot
          /\ \A k \in 1..(n + 1) : k \in 1..n \/ k = n + 1
          /\ MonTrue(s) => MonTrue(t)
      <3>1. s \in DaemonType /\ m \in Message
        BY <2>1, <2>2
      <3>2. Announces(s, t, m)
        BY <2>4 DEF Announces
      <3>3. /\ t.kern[m.slot] = Effect(m)
            /\ \A c \in Slot : c # m.slot => t.kern[c] = s.kern[c]
            /\ n \in Nat
            /\ Len(t.mon) = n + 1
            /\ t.mon[n + 1] = m
            /\ \A k \in 1..n : t.mon[k] = s.mon[k] /\ s.mon[k].slot \in Slot
            /\ \A k \in 1..(n + 1) : k \in 1..n \/ k = n + 1
            /\ MonTrue(s) => MonTrue(t)
        BY <3>1, <3>2, AnnouncedPoints
      <3> QED
        BY <2>2, <3>3
    <2>6. \A k \in 1..n : s.mon[k].slot # slot
      <3>1. ASSUME NEW k \in 1..n, s.mon[k].slot = slot PROVE FALSE
        <4>1. \E q \in Rule : /\ s.rule[q].pos
                              /\ s.rule[q].slot = slot
                              /\ s.rule[q].have # NoTcr
          BY <1>2, <2>1, <3>1, EmptyAwaited
        <4> QED
          BY <1>2, <4>1, AloneThere
      <3> QED
        BY <3>1
    <2>7. \A q \in Rule : s.rule[q].pos /\ s.rule[q].slot = slot => q = r
      BY AloneThere
    <2>8. \A q \in Rule : s.rule[q].slot \in Slot
      BY <2>1, ElementsOf
    <2> HIDE DEF n
    <2>9. MonTrue(t)
      BY <2>5 DEF Settled
    <2>10. DumpTrue(t)
      <3>1. \A k : k \notin 1..Len(t.dump)
        BY <2>4
      <3> QED
        BY <3>1 DEF DumpTrue
    <2>11. OneAtATime(t)
      <3>1. ASSUME NEW q \in Rule, t.rule[q].pos, t.rule[q].have # NoTcr
            PROVE  t.kern[t.rule[q].slot] \in {NoTcr, t.rule[q].have}
        BY <1>2, <2>4, <2>5, <2>7, <2>8, <3>1 DEF Settled, OneAtATime
      <3>2. ASSUME NEW k \in 1..n, s.mon[k].op = "NEW"
            PROVE  /\ t.kern[s.mon[k].slot] \in {NoTcr, s.mon[k].tcr}
                   /\ \A q \in Rule : t.rule[q].pos /\ t.rule[q].slot = s.mon[k].slot
                                      => t.rule[q].have \in {NoTcr, s.mon[k].tcr}
        BY <2>4, <2>5, <2>6, <3>2 DEF Settled, OneAtATime, n
      <3>3. \A q \in Rule : t.rule[q].pos /\ t.rule[q].slot = slot
                            => t.rule[q].have \in {NoTcr, tcr}
        BY <1>2, <2>4, <2>7
      <3> QED
        BY <2>2, <2>5, <3>1, <3>2, <3>3 DEF OneAtATime
    <2>12. RemovalsAwaited(t)
      <3>1. ASSUME NEW k \in 1..n, s.mon[k].op = "DEL"
            PROVE  LastWord(t, k)
        <4>1. LastWord(s, k)
          BY <3>1 DEF Settled, RemovalsAwaited, n
        <4> QED
          BY <2>2, <2>5, <2>6, <4>1, SMTT(30) DEF LastWord, n
      <3> QED
        BY <2>2, <2>4, <2>5, <3>1 DEF Settled, RemovalsAwaited, n
    <2>13. RequestsFit(t)
      <3>1. ASSUME NEW k \in 1..Len(s.work), s.work[k].op \in {"install", "uninstall"}
            PROVE  SameFit(s, t, s.work[k].rule)
        <4>1. s.work[k].rule \in Rule
          BY <2>1, <3>1, ElementsOf
        <4>2. s.rule[s.work[k].rule].pos /\ s.work[k].rule # r
          BY <4>1, RequestedIsThere
        <4>3. s.rule[s.work[k].rule].slot # slot
          BY <2>7, <4>1, <4>2
        <4>4. s.rule[s.work[k].rule].slot \in Slot
          BY <2>8, <4>1
        <4> QED
          BY <2>4, <2>5, <4>3, <4>4 DEF SameFit
      <3>2. t.work = s.work
        BY <2>4
      <3>3. ASSUME NEW k \in 1..Len(t.work)
            PROVE  RequestFits(t, k)
        <4>1. k \in 1..Len(s.work) /\ t.work[k] = s.work[k]
          BY <3>2
        <4>2. KeepsFit(s, t, s.work[k])
          BY <3>1, <4>1 DEF KeepsFit
        <4> QED
          BY <4>1, <4>2, FitStays
      <3> QED
        BY <3>3, AllFit
    <2>14. Unclaimed(t, f)
      <3>1. \A c : Leaving(t, c) => Leaving(s, c)
        BY <2>2, <2>5 DEF Leaving, n
      <3> QED
        BY <2>4, <3>1 DEF Settled, Unclaimed
    <2>15. HeldByOne(t)
      BY <2>4 DEF Settled, HeldByOne
    <2>16. Spares(s, t, NoRule)
      BY <1>2, <2>4, <2>5, Constants DEF Spares, Serves
    <2> QED
      BY <2>9, <2>10, <2>11, <2>12, <2>13, <2>14, <2>15, <2>16 DEF Settled, t
  <1> QED
    BY <1>1, <1>2

\* The filter made from tcr.
LEMMA KernelAddsSettled ==
    ASSUME NEW s, NEW e, NEW x, Good(s, e, x), NEW f, Settled(s, f), s.dump = <<>>,
           NEW r \in Rule, s.rule[r].pos, s.rule[r].state # "QUEUED",
           NEW slot, slot = s.rule[r].slot, NEW tcr \in AnyTcr,
           s.kern[slot] = NoTcr => s.rule[r].have = NoTcr
    PROVE  /\ Settled(KernelAdds(s, slot, tcr), f)
           /\ Spares(s, KernelAdds(s, slot, tcr), NoRule)
  <1> DEFINE back == Decoded[tcr]
  <1>1. back \in AnyTcr
    BY DecodedType
  <1>2. KernelAdds(s, slot, tcr) = KernelGets(s, slot, back)
    BY DEF KernelAdds
  <1> HIDE DEF back
  <1> QED
    BY <1>1, <1>2, KernelGetsSettled

\* RTM_DELTFILTER, for a rule that has what the kernel has.
LEMMA KernelDelsSettled ==
    ASSUME NEW s, NEW e, NEW x, Good(s, e, x), NEW f, Settled(s, f), s.dump = <<>>,
           s.pin # 0,
           NEW r \in Rule, s.rule[r].pos, s.rule[r].state # "QUEUED",
           NEW slot, slot = s.rule[r].slot,
           s.kern[slot] # NoTcr => s.rule[r].have # NoTcr
    PROVE  /\ Settled(KernelDels(s, slot), f)
           /\ Spares(s, KernelDels(s, slot), r)
  <1> DEFINE t == KernelDels(s, slot)
             m == [op |-> "DEL", slot |-> slot, tcr |-> s.kern[slot]]
             n == Len(s.mon)
  <1>1. CASE s.kern[slot] = NoTcr
    BY <1>1, SparesPoints DEF KernelDels
  <1>2. CASE s.kern[slot] # NoTcr
    <2>1. s \in DaemonType /\ slot \in Slot
      BY ElementsOf DEF Good
    <2>2. /\ m \in Message
          /\ m.op = "DEL"
          /\ m.slot = slot
          /\ Effect(m) = NoTcr
      <3>1. s.kern[slot] \in AnyTcr
        BY <1>2, <2>1, ElementsOf DEF AnyTcr, MaybeTcr
      <3> QED
        BY <2>1, <3>1 DEF Message, Effect
    <2> DEFINE table == [s.kern EXCEPT ![slot] = NoTcr]
               news  == Append(s.mon, m)
    <2>3. t = [s EXCEPT !.kern = table, !.mon = news]
      BY <1>2, <2>1 DEF KernelDels, DaemonType
    <2> HIDE DEF m, table, news
    <2>0. /\ t.rule = s.rule /\ t.work = s.work /\ t.dump = s.dump
          /\ t.own = s.own /\ t.pin = s.pin
          /\ t.kern = table
          /\ t.mon = news
      BY <2>1, <2>3 DEF DaemonType
    <2>4. /\ t.rule = s.rule /\ t.work = s.work /\ t.dump = s.dump
          /\ t.own = s.own /\ t.pin = s.pin
          /\ t.kern = [s.kern EXCEPT ![m.slot] = Effect(m)]
          /\ t.mon = Append(s.mon, m)
      BY <2>0, <2>2 DEF table, news
    <2> HIDE DEF t, m
    <2>5. /\ t.kern[slot] = NoTcr
          /\ \A c \in Slot : c # slot => t.kern[c] = s.kern[c]
          /\ n \in Nat
          /\ Len(t.mon) = n + 1
          /\ t.mon[n + 1] = m
          /\ \A k \in 1..n : t.mon[k] = s.mon[k] /\ s.mon[k].slot \in Slot
          /\ \A k \in 1..(n + 1) : k \in 1..n \/ k = n + 1
          /\ MonTrue(s) => MonTrue(t)
      <3>1. s \in DaemonType /\ m \in Message
        BY <2>1, <2>2
      <3>2. Announces(s, t, m)
        BY <2>4 DEF Announces
      <3>3. /\ t.kern[m.slot] = Effect(m)
            /\ \A c \in Slot : c # m.slot => t.kern[c] = s.kern[c]
            /\ n \in Nat
            /\ Len(t.mon) = n + 1
            /\ t.mon[n + 1] = m
            /\ \A k \in 1..n : t.mon[k] = s.mon[k] /\ s.mon[k].slot \in Slot
            /\ \A k \in 1..(n + 1) : k \in 1..n \/ k = n + 1
            /\ MonTrue(s) => MonTrue(t)
        BY <3>1, <3>2, AnnouncedPoints
      <3> QED
        BY <2>2, <3>3
    <2>6. \A q \in Rule : s.rule[q].pos /\ s.rule[q].slot = slot => q = r
      BY AloneThere
    <2>7. \A q \in Rule : s.rule[q].slot \in Slot
      BY <2>1, ElementsOf
    <2>8. \A k \in 1..n : s.mon[k].op = "DEL" => s.mon[k].slot # slot /\ LastWord(s, k)
      <3>1. ASSUME NEW k \in 1..n, s.mon[k].op = "DEL"
            PROVE  s.mon[k].slot # slot /\ LastWord(s, k)
        <4>1. LastWord(s, k)
          BY <3>1 DEF Settled, RemovalsAwaited
        <4>2. s.kern[s.mon[k].slot] = NoTcr
          BY <3>1, <4>1 DEF Settled, MonTrue, Effect
        <4> QED
          BY <1>2, <4>1, <4>2
      <3> QED
        BY <3>1
    <2> HIDE DEF n
    <2>9. MonTrue(t)
      BY <2>5 DEF Settled
    <2>10. DumpTrue(t)
      <3>1. \A k : k \notin 1..Len(t.dump)
        BY <2>4
      <3> QED
        BY <3>1 DEF DumpTrue
    <2>11. OneAtATime(t)
      <3>1. ASSUME NEW q \in Rule, t.rule[q].pos, t.rule[q].have # NoTcr
            PROVE  t.kern[t.rule[q].slot] \in {NoTcr, t.rule[q].have}
        BY <2>4, <2>5, <2>7, <3>1 DEF Settled, OneAtATime
      <3>2. ASSUME NEW k \in 1..n, s.mon[k].op = "NEW"
            PROVE  /\ t.kern[s.mon[k].slot] \in {NoTcr, s.mon[k].tcr}
                   /\ \A q \in Rule : t.rule[q].pos /\ t.rule[q].slot = s.mon[k].slot
                                      => t.rule[q].have \in {NoTcr, s.mon[k].tcr}
        BY <2>4, <2>5, <3>2 DEF Settled, OneAtATime, n
      <3> QED
        BY <2>2, <2>5, <3>1, <3>2 DEF OneAtATime
    <2>12. RemovalsAwaited(t)
      <3>1. ASSUME NEW k \in 1..n, s.mon[k].op = "DEL"
            PROVE  LastWord(t, k)
        <4>1. \A j \in 1..n : j > k => t.mon[j].slot # t.mon[k].slot
          BY <2>5, <2>8, <3>1, SMTT(30) DEF LastWord, n
        <4>2. t.mon[n + 1].slot # t.mon[k].slot
          BY <2>2, <2>5, <2>8, <3>1
        <4> QED
          BY <2>5, <4>1, <4>2 DEF LastWord
      <3>2. LastWord(t, n + 1)
        BY <2>5 DEF LastWord
      <3>3. t.rule[r].pos /\ t.rule[r].slot = slot /\ t.rule[r].have # NoTcr
        BY <1>2, <2>4
      <3> QED
        BY <2>2, <2>4, <2>5, <3>1, <3>2, <3>3 DEF Settled, RemovalsAwaited, n
    <2>13. RequestsFit(t)
      <3>1. ASSUME NEW k \in 1..Len(s.work), s.work[k].op \in {"install", "uninstall"}
            PROVE  SameFit(s, t, s.work[k].rule)
        <4>1. s.work[k].rule \in Rule
          BY <2>1, <3>1, ElementsOf
        <4>2. s.rule[s.work[k].rule].pos /\ s.work[k].rule # r
          BY <4>1, RequestedIsThere
        <4> QED
          BY <2>4, <2>5, <2>6, <2>7, <4>1, <4>2 DEF SameFit
      <3>2. t.work = s.work
        BY <2>4
      <3>3. ASSUME NEW k \in 1..Len(t.work)
            PROVE  RequestFits(t, k)
        <4>1. k \in 1..Len(s.work) /\ t.work[k] = s.work[k]
          BY <3>2
        <4>2. KeepsFit(s, t, s.work[k])
          BY <3>1, <4>1 DEF KeepsFit
        <4> QED
          BY <4>1, <4>2, FitStays
      <3> QED
        BY <3>3, AllFit
    <2>14. Unclaimed(t, f)
      <3>1. \A c : c # slot /\ Leaving(t, c) => Leaving(s, c)
        BY <2>2, <2>5 DEF Leaving, n
      <3>2. \A q \in Rule : s.rule[q].laf /\ s.rule[q].state = "QUEUED"
                            => s.rule[q].slot # slot
        BY <2>6, InTreeIsLive
      <3> QED
        BY <2>4, <3>1, <3>2 DEF Settled, Unclaimed
    <2>15. HeldByOne(t)
      BY <2>4 DEF Settled, HeldByOne
    <2>16. Spares(s, t, r)
      BY <2>4, <2>5, <2>6 DEF Spares, Serves
    <2> QED
      BY <2>9, <2>10, <2>11, <2>12, <2>13, <2>14, <2>15, <2>16 DEF Settled, t
  <1> QED
    BY <1>1, <1>2

-----------------------------------------------------------------------------
(* What the walk over the tree has still to come to.                        *)

\* No removal of a rule in the lost and found tree from slot n on has been
\* queued or made.
Unsent(s, n) ==
    \A r \in Rule : s.rule[r].laf /\ s.rule[r].slot >= n
                    => s.rule[r].state # "QUEUED" /\ ~Leaving(s, s.rule[r].slot)

\* A function sends nothing of the kind, and no rule gets lost.
KeepsUnsent(s, t) ==
    /\ \A n \in Nat : Unsent(s, n) => Unsent(t, n)
    /\ \A r \in Rule : t.rule[r].laf => s.rule[r].laf

\* One function of a handler after another.
LEMMA KeepsUnsentPoints ==
    /\ \A s : KeepsUnsent(s, s)
    /\ \A s, t, u : KeepsUnsent(s, t) /\ KeepsUnsent(t, u) => KeepsUnsent(s, u)
    /\ \A s, t : t.rule = s.rule /\ t.mon = s.mon => KeepsUnsent(s, t)
  BY DEF KeepsUnsent, Unsent, Leaving

\* Of the rules only q changes, and of the table its slot at most.
Touches(s, t, q) ==
    /\ \A p \in Rule : p # q => t.rule[p] = s.rule[p]
    /\ t.rule[q].laf => s.rule[q].laf /\ t.rule[q].slot = s.rule[q].slot
    /\ \A slot : Leaving(t, slot) => Leaving(s, slot) \/ slot = s.rule[q].slot

\* One function after another, about the same rule.
LEMMA TouchesPoints ==
    /\ \A s, q : Touches(s, s, q)
    /\ \A s, t, u, q : /\ Touches(s, t, q) /\ Touches(t, u, q)
                       /\ t.rule[q].slot = s.rule[q].slot
                       => Touches(s, u, q)
    /\ \A s, t, q : t.rule = s.rule /\ t.mon = s.mon => Touches(s, t, q)
  <1>1. \A s, q : Touches(s, s, q)
    BY DEF Touches
  <1>2. ASSUME NEW s, NEW t, NEW u, NEW q, Touches(s, t, q), Touches(t, u, q),
               t.rule[q].slot = s.rule[q].slot
        PROVE  Touches(s, u, q)
    <2>1. \A slot : Leaving(u, slot) => Leaving(s, slot) \/ slot = s.rule[q].slot
      BY <1>2 DEF Touches
    <2> QED
      BY <1>2, <2>1 DEF Touches
  <1>3. ASSUME NEW s, NEW t, NEW q, t.rule = s.rule, t.mon = s.mon
        PROVE  Touches(s, t, q)
    <2>1. \A slot : Leaving(t, slot) <=> Leaving(s, slot)
      BY <1>3 DEF Leaving
    <2> QED
      BY <1>3, <2>1 DEF Touches
  <1> QED
    BY <1>1, <1>2, <1>3

\* A rule changes that does not move and does not get lost.
LEMMA TouchesWith ==
    ASSUME NEW s \in DaemonType, NEW r \in Rule, NEW o \in RuleRecord,
           o.laf => s.rule[r].laf /\ o.slot = s.rule[r].slot
    PROVE  Touches(s, With(s, r, o), r)
  <1> DEFINE t == With(s, r, o)
  <1>1. /\ t.rule[r] = o
        /\ \A q \in Rule : q # r => t.rule[q] = s.rule[q]
        /\ t.mon = s.mon
    BY WithPoints DEF SameButRules
  <1> HIDE DEF t
  <1>2. Touches(s, t, r)
    BY <1>1 DEF Touches, Leaving
  <1> QED
    BY <1>2 DEF t

\* obj_rule_update_state.
LEMMA UpdateStateTouches ==
    ASSUME NEW s \in DaemonType, NEW r \in Rule
    PROVE  /\ Touches(s, UpdateState(s, r), r)
           /\ UpdateState(s, r).rule[r].slot = s.rule[r].slot
  <1> DEFINE t == UpdateState(s, r)
  <1>1. ASSUME NEW st \in {"ALIEN", "WANT", "OK", "ZOMBIE"}
        PROVE  /\ State(s, r, st) \in DaemonType
               /\ Touches(s, State(s, r, st), r)
               /\ State(s, r, st).rule[r].slot = s.rule[r].slot
    <2> DEFINE o == [s.rule[r] EXCEPT !.state = st]
    <2>1. st \in RuleState
      BY DEF RuleState
    <2>2. o \in RuleRecord /\ State(s, r, st) = With(s, r, o)
      BY <2>1, StateIs
    <2>3. o.slot = s.rule[r].slot /\ o.laf = s.rule[r].laf
      BY ZenonT(60) DEF DaemonType, RuleRecord
    <2> HIDE DEF o
    <2>4. With(s, r, o) \in DaemonType /\ With(s, r, o).rule[r] = o
      BY <2>2, WithPoints
    <2>5. Touches(s, With(s, r, o), r)
      BY <2>2, <2>3, TouchesWith
    <2> QED
      BY <2>2, <2>3, <2>4, <2>5
  <1>2. ASSUME NEW u \in DaemonType, NEW op
        PROVE  /\ Touches(u, Queue(u, op, r), r)
               /\ Queue(u, op, r).rule[r].slot = u.rule[r].slot
    <2> DEFINE o == [u.rule[r] EXCEPT !.refs = @ + 1, !.state = "QUEUED"]
               v == Queue(u, op, r)
    <2>0. u.rule[r] \in RuleRecord
      BY <1>2 DEF DaemonType
    <2>1. /\ v.rule = [u.rule EXCEPT ![r] = o]
          /\ v.mon = u.mon
      BY <1>2, <2>0 DEF Queue, Ref, DaemonType, RuleRecord
    <2>2. o.slot = u.rule[r].slot /\ o.laf = u.rule[r].laf
      BY <2>0 DEF RuleRecord
    <2> HIDE DEF o, v
    <2>3. v.rule[r] = o /\ \A q \in Rule : q # r => v.rule[q] = u.rule[q]
      BY <1>2, <2>1 DEF DaemonType
    <2>4. Touches(u, v, r) /\ v.rule[r].slot = u.rule[r].slot
      BY <2>1, <2>2, <2>3 DEF Touches, Leaving
    <2> QED
      BY <2>4 DEF v
  <1>3. t = s => Touches(s, t, r) /\ t.rule[r].slot = s.rule[r].slot
    BY TouchesPoints
  <1>4. ASSUME NEW st \in {"ALIEN", "WANT", "OK", "ZOMBIE"},
               NEW op \in {"install", "uninstall"}
        PROVE  /\ Touches(s, State(s, r, st), r)
               /\ State(s, r, st).rule[r].slot = s.rule[r].slot
               /\ Touches(s, Queue(State(s, r, st), op, r), r)
               /\ Queue(State(s, r, st), op, r).rule[r].slot = s.rule[r].slot
    <2> DEFINE u == State(s, r, st)
    <2>1. /\ u \in DaemonType
          /\ Touches(s, u, r)
          /\ u.rule[r].slot = s.rule[r].slot
      BY <1>1
    <2> HIDE DEF u
    <2>2. Touches(u, Queue(u, op, r), r) /\ Queue(u, op, r).rule[r].slot = u.rule[r].slot
      BY <1>2, <2>1
    <2>3. Touches(s, Queue(u, op, r), r)
      BY <2>1, <2>2, TouchesPoints
    <2> QED
      BY <2>1, <2>2, <2>3 DEF u
  <1>5. \/ t = s
        \/ t = State(s, r, "ZOMBIE")
        \/ t = State(s, r, "OK")
        \/ t = State(s, r, "WANT")
        \/ t = Queue(State(s, r, "WANT"), "install", r)
        \/ t = State(s, r, "ALIEN")
        \/ t = Queue(State(s, r, "ALIEN"), "uninstall", r)
    BY DEF UpdateState, QueueInstall, QueueUninstall
  <1> HIDE DEF t
  <1>6. Touches(s, t, r) /\ t.rule[r].slot = s.rule[r].slot
    <2>1. CASE t = State(s, r, "ZOMBIE")
      BY <1>4, <2>1
    <2>2. CASE t = State(s, r, "OK")
      BY <1>4, <2>2
    <2>3. CASE t = State(s, r, "WANT") \/ t = Queue(State(s, r, "WANT"), "install", r)
      BY <1>4, <2>3
    <2>4. CASE t = State(s, r, "ALIEN") \/ t = Queue(State(s, r, "ALIEN"), "uninstall", r)
      BY <1>4, <2>4
    <2> QED
      BY <1>3, <1>5, <2>1, <2>2, <2>3, <2>4
  <1> QED
    BY <1>6 DEF t

\* obj_rule_uninstall.
LEMMA UninstallTouches ==
    ASSUME NEW s \in DaemonType, NEW r \in Rule
    PROVE  Touches(s, Uninstall(s, r), r)
  <1> DEFINE o == [s.rule[r] EXCEPT !.want = NoTcr]
             t == With(s, r, o)
  <1>1. o \in RuleRecord /\ o.slot = s.rule[r].slot /\ o.laf = s.rule[r].laf
    BY Constants, ZenonT(60) DEF DaemonType, RuleRecord
  <1>2. Uninstall(s, r) = UpdateState(t, r)
    BY DEF Uninstall, With
  <1> HIDE DEF o
  <1>3. t \in DaemonType /\ t.rule[r] = o
    BY <1>1, WithPoints
  <1>4. Touches(s, t, r)
    BY <1>1, TouchesWith
  <1> HIDE DEF t
  <1>5. Touches(t, UpdateState(t, r), r)
    BY <1>3, UpdateStateTouches
  <1> QED
    BY <1>1, <1>2, <1>3, <1>4, <1>5, TouchesPoints

\* obj_rule_unref.
LEMMA UnrefTouches ==
    ASSUME NEW s, NEW e \in [Rule -> Nat], Good(s, e, NoRule),
           NEW r \in Rule, e[r] > 0
    PROVE  Touches(s, Unref(s, r), r)
  <1> DEFINE o == [s.rule[r] EXCEPT !.refs = @ - 1]
             d == [e EXCEPT ![r] = @ - 1]
             t == With(s, r, o)
             u == IF Abandoned(t.rule[r]) THEN Uninstall(t, r) ELSE t
  <1>1. d \in [Rule -> Nat]
    OBVIOUS
  <1> HIDE DEF d
  <1>2. /\ o \in RuleRecord
        /\ Good(t, d, NoRule)
        /\ Live(t, r)
        /\ t.rule[r] = o
    BY <1>1, CountDownGood DEF d
  <1>3. s \in DaemonType /\ o.slot = s.rule[r].slot /\ o.laf = s.rule[r].laf
    BY DEF Good, DaemonType, RuleRecord
  <1>4. Unref(s, r) = IF Reapable(u, r) THEN Reap(u, r) ELSE u
    BY DEF Unref, CountDown, With
  <1> HIDE DEF o
  <1>5. Touches(s, t, r)
    BY <1>2, <1>3, TouchesWith
  <1> HIDE DEF t
  <1>6. t \in DaemonType
    BY <1>2 DEF Good
  <1>7. Touches(s, u, r)
    <2>1. Touches(t, Uninstall(t, r), r)
      BY <1>6, UninstallTouches
    <2> QED
      BY <1>2, <1>3, <1>5, <2>1, TouchesPoints
  <1>8. u \in DaemonType
    <2>1. Good(Uninstall(t, r), d, NoRule)
      BY <1>1, <1>2, UninstallGood
    <2> QED
      BY <1>6, <2>1 DEF Good
  <1> HIDE DEF u
  <1>9. Touches(s, Reap(u, r), r)
    <2> DEFINE v == Reap(u, r)
    <2>1. /\ v.rule[r] = Freed
          /\ \A q \in Rule : q # r => v.rule[q] = u.rule[q]
          /\ v.mon = u.mon
      BY <1>8 DEF Reap, DaemonType
    <2> HIDE DEF v
    <2>2. ~Freed.laf
      BY DEF Freed
    <2>3. \A slot : Leaving(v, slot) <=> Leaving(u, slot)
      BY <2>1 DEF Leaving
    <2>4. Touches(s, v, r)
      BY <1>7, <2>1, <2>2, <2>3 DEF Touches
    <2> QED
      BY <2>4 DEF v
  <1> QED
    BY <1>4, <1>7, <1>9

\* The kernel announces a change of one slot.
LEMMA KernelTouches ==
    ASSUME NEW s \in DaemonType, NEW r, NEW slot, slot = s.rule[r].slot, NEW tcr
    PROVE  /\ Touches(s, KernelAdds(s, slot, tcr), r)
           /\ Touches(s, KernelDels(s, slot), r)
  <1>1. s.mon \in Seq(Message)
    BY DEF DaemonType
  <1>2. ASSUME NEW m, NEW t, t.rule = s.rule, t.mon = Append(s.mon, m),
               m.op = "NEW" \/ m.slot = slot
        PROVE  Touches(s, t, r)
    <2>1. \A k \in 1..Len(t.mon) : \/ k \in 1..Len(s.mon) /\ t.mon[k] = s.mon[k]
                                   \/ t.mon[k] = m
      BY <1>1, <1>2
    <2>2. \A c : Leaving(t, c) => Leaving(s, c) \/ c = slot
      BY <1>2, <2>1 DEF Leaving
    <2> QED
      BY <1>2, <2>2 DEF Touches
  <1>3. Touches(s, KernelAdds(s, slot, tcr), r)
    <2> DEFINE t == KernelAdds(s, slot, tcr)
               m == [op |-> "NEW", slot |-> slot, tcr |-> Decoded[tcr]]
    <2>1. t = s \/ (t.rule = s.rule /\ t.mon = Append(s.mon, m))
      BY DEF KernelAdds, KernelGets, DaemonType
    <2>2. m.op = "NEW"
      OBVIOUS
    <2> HIDE DEF t, m
    <2>3. Touches(s, t, r)
      BY <1>2, <2>1, <2>2, TouchesPoints
    <2> QED
      BY <2>3 DEF t
  <1>4. Touches(s, KernelDels(s, slot), r)
    <2> DEFINE t == KernelDels(s, slot)
               m == [op |-> "DEL", slot |-> slot, tcr |-> s.kern[slot]]
    <2>1. t = s \/ (t.rule = s.rule /\ t.mon = Append(s.mon, m))
      BY DEF KernelDels, DaemonType
    <2>2. m.slot = slot
      OBVIOUS
    <2> HIDE DEF t, m
    <2>3. Touches(s, t, r)
      BY <1>2, <2>1, <2>2, TouchesPoints
    <2> QED
      BY <2>3 DEF t
  <1> QED
    BY <1>3, <1>4

\* The other rules are none the worse for it.
LEMMA TouchesOthers ==
    ASSUME NEW s, NEW e, NEW x, Good(s, e, x), NEW q \in Rule, Live(s, q),
           NEW t, Touches(s, t, q),
           NEW n, Unsent(s, n),
           NEW r \in Rule, r # q, t.rule[r].laf, t.rule[r].slot >= n
    PROVE  t.rule[r].state # "QUEUED" /\ ~Leaving(t, t.rule[r].slot)
  <1>1. t.rule[r] = s.rule[r]
    BY DEF Touches
  <1>2. s.rule[r].state # "QUEUED" /\ ~Leaving(s, s.rule[r].slot)
    BY <1>1 DEF Unsent
  <1>3. s.rule[r].pos /\ s.rule[q].pos
    <2>1. s.rule[r].pos
      BY <1>1, InTreeIsLive
    <2> QED
      BY <2>1 DEF Good, RulesSane, Sane, Live
  <1>4. s.rule[r].slot # s.rule[q].slot
    BY <1>3 DEF Good, Apart
  <1> QED
    BY <1>1, <1>2, <1>4 DEF Touches

\* Something is done about rule q: if q is in the lost and found tree, its removal
\* has been queued already.
LEMMA TouchesUnsent ==
    ASSUME NEW s, NEW e, NEW x, Good(s, e, x), NEW q \in Rule, Live(s, q),
           s.rule[q].state = "QUEUED" \/ ~s.rule[q].laf,
           NEW t, Touches(s, t, q)
    PROVE  KeepsUnsent(s, t)
  <1>1. ASSUME NEW n \in Nat, Unsent(s, n),
               NEW r \in Rule, t.rule[r].laf, t.rule[r].slot >= n
        PROVE  t.rule[r].state # "QUEUED" /\ ~Leaving(t, t.rule[r].slot)
    <2>1. CASE r = q
      BY <1>1, <2>1 DEF Touches, Unsent
    <2>2. CASE r # q
      BY <1>1, <2>2, TouchesOthers
    <2> QED
      BY <2>1, <2>2
  <1>2. ASSUME NEW r \in Rule, t.rule[r].laf PROVE s.rule[r].laf
    BY <1>2 DEF Touches
  <1> QED
    BY <1>1, <1>2 DEF KeepsUnsent, Unsent

\* As long as nothing is uninstalled, the state of a rule in the lost and found
\* tree is that of an alien; a rule that is not in it may get any state.
LEMMA UpdateStateUnsent ==
    ASSUME NEW s, NEW e, NEW x, Good(s, e, x), NEW f, Settled(s, f),
           NEW r \in Rule, Live(s, r),
           s.pin < 3 \/ ~s.rule[r].laf
    PROVE  KeepsUnsent(s, UpdateState(s, r))
  <1> DEFINE t == UpdateState(s, r)
  <1>1. s \in DaemonType /\ s.pin \in 0..3
    BY DEF Good, DaemonType
  <1>2. Touches(s, t, r)
    BY <1>1, UpdateStateTouches
  <1>3. CASE ~s.rule[r].laf \/ s.rule[r].state = "QUEUED"
    BY <1>2, <1>3, TouchesUnsent
  <1>4. CASE s.rule[r].laf /\ s.pin < 3
    <2>1. s.rule[r].want = NoTcr /\ s.rule[r].have # NoTcr
      BY <1>4, LostIs DEF Lost
    <2> DEFINE u == State(s, r, "ALIEN")
    <2>2. /\ u.pin = s.pin
          /\ u.mon = s.mon
          /\ u.rule = [s.rule EXCEPT ![r].state = "ALIEN"]
      BY <1>1 DEF State, DaemonType
    <2> HIDE DEF u
    <2>3. t = s \/ t = u
      <3>1. QueueUninstall(u, r) = u
        BY <1>4, <2>2 DEF QueueUninstall
      <3> QED
        BY <2>1, <3>1 DEF UpdateState, u
    <2>4. KeepsUnsent(s, u)
      <3>1. \A slot : Leaving(u, slot) <=> Leaving(s, slot)
        BY <2>2 DEF Leaving
      <3>2. /\ u.rule[r].state # "QUEUED"
            /\ u.rule[r].slot = s.rule[r].slot
            /\ u.rule[r].laf = s.rule[r].laf
            /\ \A q \in Rule : q # r => u.rule[q] = s.rule[q]
        <4>1. s.rule \in [Rule -> RuleRecord] /\ s.rule[r] \in RuleRecord
          BY <1>1 DEF DaemonType
        <4>2. u.rule[r] = [s.rule[r] EXCEPT !.state = "ALIEN"]
          BY <2>2, <4>1
        <4>3. \A q \in Rule : q # r => u.rule[q] = s.rule[q]
          BY <2>2, <4>1
        <4> QED
          BY <4>1, <4>2, <4>3 DEF RuleRecord
      <3> QED
        BY <3>1, <3>2 DEF KeepsUnsent, Unsent
    <2> QED
      BY <2>3, <2>4, KeepsUnsentPoints
  <1> QED
    BY <1>1, <1>3, <1>4

-----------------------------------------------------------------------------
(* tc_action.c and the queue.                                               *)

\* The oldest request is taken from the queue.
LEMMA PopSettled ==
    ASSUME NEW s \in DaemonType, s.work # <<>>, NEW f, Settled(s, f), NEW t,
           t.rule = s.rule, t.pin = s.pin, t.own = s.own, t.kern = s.kern, t.mon = s.mon,
           t.work = Tail(s.work),
           DumpTrue(t)
    PROVE  Settled(t, f) /\ Spares(s, t, NoRule)
  <1>1. MonTrue(t)
    BY DEF Settled, MonTrue, LastWord
  <1>2. OneAtATime(t)
    BY DEF Settled, OneAtATime
  <1>3. RemovalsAwaited(t)
    BY DEF Settled, RemovalsAwaited, LastWord
  <1>4. RequestsFit(t)
    <2>1. ASSUME NEW k \in 1..Len(t.work)
          PROVE  RequestFits(t, k)
      <3> DEFINE j == k + 1
      <3>1. j \in 1..Len(s.work) /\ t.work[k] = s.work[j]
        BY PopPoints
      <3> HIDE DEF j
      <3>2. KeepsFit(s, t, s.work[j])
        BY DEF SameFit, KeepsFit
      <3> QED
        BY <3>1, <3>2, FitStays
    <2> QED
      BY <2>1, AllFit
  <1>5. Unclaimed(t, f)
    BY DEF Settled, Unclaimed, Leaving
  <1>6. HeldByOne(t)
    BY DEF Settled, HeldByOne
  <1> QED
    BY <1>1, <1>2, <1>3, <1>4, <1>5, <1>6, SparesSame DEF Settled

\* obj_rule_pre_install.
LEMMA PreInstallSettled ==
    ASSUME NEW s, NEW e \in [Rule -> Nat], Good(s, e, NoRule), Settled(s, e),
           s.work # <<>>,
           NEW r \in Rule, Head(s.work).rule = r,
           NEW t,
           t.pin = s.pin, t.own = s.own, t.kern = s.kern, t.mon = s.mon, t.dump = s.dump,
           t.work = Tail(s.work),
           t.rule[r].state = "PENDING",
           t.rule[r].slot = s.rule[r].slot,
           t.rule[r].pos = s.rule[r].pos,
           t.rule[r].have = s.rule[r].have,
           t.rule[r].want = s.rule[r].want,
           t.rule[r].laf = s.rule[r].laf,
           t.rule[r].refs = s.rule[r].refs,
           \A q \in Rule : q # r => t.rule[q] = s.rule[q],
           NEW d, d[r] = e[r] + 1, \A q \in Rule : q # r => d[q] = e[q]
    PROVE  Settled(t, d) /\ Spares(s, t, NoRule)
  <1>1. s \in DaemonType /\ s.rule[r] \in RuleRecord
    BY DEF Good, DaemonType
  <1>2. s.rule[r].state = "QUEUED"
    BY <1>1, PopPoints DEF Good, RequestsAgree
  <1>3. MonTrue(t) /\ DumpTrue(t)
    BY DEF Settled, MonTrue, DumpTrue, LastWord
  <1>0. \A q \in Rule : /\ t.rule[q].pos = s.rule[q].pos
                        /\ t.rule[q].slot = s.rule[q].slot
                        /\ t.rule[q].have = s.rule[q].have
    OBVIOUS
  <1>4. OneAtATime(t)
    <2>1. ASSUME NEW q \in Rule, t.rule[q].pos, t.rule[q].have # NoTcr
          PROVE  t.kern[t.rule[q].slot] \in {NoTcr, t.rule[q].have}
      BY <1>0, <2>1 DEF Settled, OneAtATime
    <2>2. ASSUME NEW k \in 1..Len(t.mon), t.mon[k].op = "NEW"
          PROVE  /\ t.kern[t.mon[k].slot] \in {NoTcr, t.mon[k].tcr}
                 /\ \A q \in Rule : t.rule[q].pos /\ t.rule[q].slot = t.mon[k].slot
                                    => t.rule[q].have \in {NoTcr, t.mon[k].tcr}
      BY <1>0, <2>2, SMTT(30) DEF Settled, OneAtATime
    <2> QED
      BY <2>1, <2>2 DEF OneAtATime
  <1>5. RemovalsAwaited(t)
    BY <1>0 DEF Settled, RemovalsAwaited, LastWord
  <1>6. RequestsFit(t)
    <2>1. ASSUME NEW k \in 1..Len(t.work)
          PROVE  k + 1 \in 1..Len(s.work) /\ t.work[k] = s.work[k + 1]
      BY <1>1, PopPoints
    <2>2. ASSUME NEW j \in 1..Len(s.work)
          PROVE  KeepsFit(s, t, s.work[j])
      <3>1. s.work[j].op \in {"install", "uninstall"} => s.work[j].rule \in Rule
        BY <1>1, ElementsOf
      <3> QED
        BY <1>0, <3>1 DEF SameFit, KeepsFit
    <2> QED
      BY <2>1, <2>2, PopFits
  <1>7. Unclaimed(t, d)
    <2>1. \A slot : Leaving(t, slot) <=> Leaving(s, slot)
      BY DEF Leaving
    <2>2. QueueHolds(s.rule[r]) = 1 /\ QueueHolds(t.rule[r]) = 0
      BY <1>2 DEF QueueHolds
    <2>3. s.rule[r].laf => s.rule[r].refs = 1 + e[r]
      BY <2>2 DEF Settled, Unclaimed
    <2>4. e[r] \in Nat
      OBVIOUS
    <2>5. s.rule[r].laf => t.rule[r].refs = QueueHolds(t.rule[r]) + d[r]
      BY <2>2, <2>3, <2>4
    <2> QED
      BY <2>1, <2>5 DEF Settled, Unclaimed
  <1>8. HeldByOne(t)
    BY DEF Settled, HeldByOne
  <1>9. Spares(s, t, NoRule)
    <2>1. Spares(s, t, r)
      BY DEF Spares, Serves
    <2> QED
      BY <1>2, <2>1, SparesIdle
  <1> QED
    BY <1>3, <1>4, <1>5, <1>6, <1>7, <1>8, <1>9 DEF Settled

\* tc_action_execute.
LEMMA ExecuteSettled ==
    ASSUME NEW s, NEW e \in [Rule -> Nat], Good(s, e, NoRule), Settled(s, e),
           s.current = "none", s.work # <<>>,
           NEW r \in Rule, Head(s.work).rule = r,
           NEW op \in {"install", "uninstall"}, Head(s.work).op = op,
           NEW b \in DaemonType,
           b.rule = s.rule, b.work = Tail(s.work), b.current = op, b.pin = s.pin,
           b.kern = s.kern, b.mon = s.mon, b.dump = s.dump, b.own = s.own,
           b.fault = s.fault
    PROVE  /\ Settled(tc_action_execute(b, op, r), e)
           /\ Spares(s, tc_action_execute(b, op, r), NoRule)
           /\ KeepsUnsent(s, tc_action_execute(b, op, r))
  <1> DEFINE t == tc_action_execute(b, op, r)
             p == State(b, r, "PENDING")
             slot == b.rule[r].slot
             d == [e EXCEPT ![r] = @ + 1]
  <1>1. s \in DaemonType /\ s.rule[r] \in RuleRecord
    BY DEF Good, DaemonType
  <1>2. /\ b.rule[r].state = "QUEUED" /\ slot \in Slot
        /\ s.rule[r].pos
        /\ s.pin # 0
    <2>1. s.rule[r].state = "QUEUED"
      BY <1>1, PopPoints DEF Good, RequestsAgree
    <2>2. Sane(s.rule[r], s.pin)
      BY DEF Good, RulesSane
    <2> QED
      BY <1>1, <2>1, <2>2 DEF Sane, RuleRecord
  <1>3. b.dump = <<>>
    BY DEF Good
  <1>4. d \in [Rule -> Nat] /\ d[r] > 0 /\ e = [d EXCEPT ![r] = @ - 1]
    <2>1. e[r] \in Nat /\ e[r] + 1 \in Nat /\ e[r] + 1 > 0 /\ (e[r] + 1) - 1 = e[r]
      OBVIOUS
    <2> QED
      BY <2>1
  <1>5. d[r] = e[r] + 1 /\ \A q \in Rule : q # r => d[q] = e[q]
    OBVIOUS
  <1>6. /\ p \in DaemonType
        /\ p.rule[r].state = "PENDING"
        /\ p.rule[r].slot = s.rule[r].slot
        /\ p.rule[r].pos = s.rule[r].pos
        /\ p.rule[r].have = s.rule[r].have
        /\ p.rule[r].want = s.rule[r].want
        /\ p.rule[r].laf = s.rule[r].laf
        /\ p.rule[r].inst = s.rule[r].inst
        /\ p.rule[r].refs = s.rule[r].refs
        /\ \A q \in Rule : q # r => p.rule[q] = s.rule[q]
        /\ SameButRules(b, p)
    <2>1. "PENDING" \in RuleState
      BY DEF RuleState
    <2> DEFINE o == [b.rule[r] EXCEPT !.state = "PENDING"]
    <2>2. o \in RuleRecord /\ p = With(b, r, o)
      BY <2>1, StateIs
    <2>3. /\ o.state = "PENDING"
          /\ o.slot = s.rule[r].slot
          /\ o.pos = s.rule[r].pos
          /\ o.have = s.rule[r].have
          /\ o.want = s.rule[r].want
          /\ o.laf = s.rule[r].laf
          /\ o.inst = s.rule[r].inst
          /\ o.refs = s.rule[r].refs
      BY <1>1 DEF RuleRecord
    <2> HIDE DEF o
    <2>4. /\ With(b, r, o) \in DaemonType
          /\ With(b, r, o).rule[r] = o
          /\ \A q \in Rule : q # r => With(b, r, o).rule[q] = b.rule[q]
          /\ SameButRules(b, With(b, r, o))
      BY <2>2, WithPoints
    <2> QED
      BY <2>2, <2>3, <2>4
  <1> HIDE DEF p, d
  <1>7. /\ p.pin = s.pin /\ p.own = s.own /\ p.kern = s.kern /\ p.mon = s.mon
        /\ p.dump = s.dump /\ p.work = Tail(s.work) /\ p.fault = s.fault
        /\ (p.current # "filters" => p.dump = <<>>)
    BY <1>3, <1>6 DEF SameButRules
  <1>8. Good(p, d, NoRule)
    BY <1>4, <1>6, <1>7, PreInstallGood DEF d
  <1>9. Settled(p, d) /\ Spares(s, p, NoRule)
    BY <1>5, <1>6, <1>7, PreInstallSettled
  <1>16. Touches(s, p, r) /\ s.rule[r].state = "QUEUED"
    <2>1. \A c : Leaving(p, c) <=> Leaving(s, c)
      BY <1>7 DEF Leaving
    <2> QED
      BY <1>2, <1>6, <2>1 DEF Touches
  <1>10. ASSUME NEW k \in DaemonType, Settled(k, d), Spares(p, k, r), Touches(p, k, r),
                k.rule = p.rule, k.work = p.work, k.current = p.current,
                k.dump = p.dump, k.fault = p.fault, k.pin = p.pin, k.own = p.own
         PROVE  /\ Settled(Unref(k, r), e)
                /\ Spares(s, Unref(k, r), NoRule)
                /\ KeepsUnsent(s, Unref(k, r))
    <2>1. Good(k, d, NoRule)
      <3>1. k.fault # "pre_install" /\ (k.current # "filters" => k.dump = <<>>)
        BY <1>8, <1>10 DEF Good
      <3> QED
        BY <1>8, <1>10, <3>1, SameGood
    <2>2. Settled(Unref(k, r), e) /\ Spares(k, Unref(k, r), r)
      BY <1>4, <1>10, <2>1, UnrefSettled
    <2>3. Spares(p, Unref(k, r), r)
      BY <1>10, <2>2, SparesPoints
    <2>4. Spares(p, Unref(k, r), NoRule)
      BY <1>6, <2>3, SparesIdle
    <2>5. Touches(k, Unref(k, r), r)
      BY <1>4, <2>1, UnrefTouches
    <2>6. Touches(s, k, r)
      BY <1>6, <1>10, <1>16, TouchesPoints
    <2>7. Touches(s, Unref(k, r), r)
      BY <1>6, <1>10, <2>5, <2>6, TouchesPoints
    <2>8. KeepsUnsent(s, Unref(k, r))
      <3>1. Live(s, r)
        BY <1>16 DEF Live
      <3> QED
        BY <1>16, <2>7, <3>1, TouchesUnsent
    <2> QED
      BY <1>9, <2>2, <2>4, <2>8, SparesPoints
  <1>11. /\ 1 \in 1..Len(s.work)
         /\ s.work[1].rule = r
         /\ s.work[1].op = op
    BY <1>1, PopPoints
  <1>12. p.dump = <<>> /\ p.rule[r].pos /\ p.rule[r].state # "QUEUED" /\ slot = p.rule[r].slot
    BY <1>2, <1>3, <1>6, <1>7
  <1>13. CASE op = "uninstall"
    <2>1. t = Unref(KernelDels(p, slot), r)
      BY <1>2, <1>13 DEF tc_action_execute, p
    <2>2. /\ KernelDels(p, slot) \in DaemonType
          /\ KernelDels(p, slot).rule = p.rule
          /\ KernelDels(p, slot).work = p.work
          /\ KernelDels(p, slot).current = p.current
          /\ KernelDels(p, slot).dump = p.dump
          /\ KernelDels(p, slot).fault = p.fault
          /\ KernelDels(p, slot).pin = p.pin
          /\ KernelDels(p, slot).own = p.own
      BY <1>2, <1>6, KernelDelsKeeps
    <2>3. p.kern[slot] # NoTcr => p.rule[r].have # NoTcr
      BY <1>6, <1>7, <1>11, <1>13 DEF Settled, RequestsFit
    <2>4. Settled(KernelDels(p, slot), d) /\ Spares(p, KernelDels(p, slot), r)
      BY <1>2, <1>7, <1>8, <1>9, <1>12, <2>3, KernelDelsSettled
    <2>5. Touches(p, KernelDels(p, slot), r)
      BY <1>6, <1>12, KernelTouches
    <2> QED
      BY <1>10, <2>1, <2>2, <2>4, <2>5
  <1>14. CASE op = "install" /\ s.rule[r].want # NoTcr
    <2> DEFINE want == b.rule[r].want
    <2>1. t = Unref(KernelAdds(p, slot, want), r)
      BY <1>2, <1>14 DEF tc_action_execute, p
    <2>2. want \in AnyTcr
      BY <1>1, <1>14 DEF RuleRecord, MaybeTcr
    <2> HIDE DEF want
    <2>3. /\ KernelAdds(p, slot, want) \in DaemonType
          /\ KernelAdds(p, slot, want).rule = p.rule
          /\ KernelAdds(p, slot, want).work = p.work
          /\ KernelAdds(p, slot, want).current = p.current
          /\ KernelAdds(p, slot, want).dump = p.dump
          /\ KernelAdds(p, slot, want).fault = p.fault
          /\ KernelAdds(p, slot, want).pin = p.pin
          /\ KernelAdds(p, slot, want).own = p.own
      BY <1>2, <1>6, <2>2, KernelAddsKeeps
    <2>4. p.kern[slot] = NoTcr => p.rule[r].have = NoTcr
      BY <1>6, <1>7, <1>11, <1>14 DEF Settled, RequestsFit
    <2>5. Settled(KernelAdds(p, slot, want), d) /\ Spares(p, KernelAdds(p, slot, want), NoRule)
      BY <1>8, <1>9, <1>12, <2>2, <2>4, KernelAddsSettled
    <2>6. Spares(p, KernelAdds(p, slot, want), r)
      BY <2>5, SparesPoints
    <2>7. Touches(p, KernelAdds(p, slot, want), r)
      BY <1>6, <1>12, KernelTouches
    <2> QED
      BY <1>10, <2>1, <2>3, <2>5, <2>6, <2>7
  <1>15. CASE op = "install" /\ s.rule[r].want = NoTcr
    <2>1. t = [b EXCEPT !.fault = "freed want"]
      BY <1>2, <1>15 DEF tc_action_execute, Fails
    <2>2. /\ t.rule = s.rule
          /\ t.work = Tail(s.work)
          /\ t.pin = s.pin
          /\ t.own = s.own
          /\ t.kern = s.kern
          /\ t.mon = s.mon
          /\ t.dump = s.dump
      BY <2>1 DEF DaemonType
    <2> HIDE DEF t
    <2>3. DumpTrue(t)
      BY <2>2 DEF Settled, DumpTrue
    <2>4. Settled(t, e) /\ Spares(s, t, NoRule)
      BY <1>1, <2>2, <2>3, PopSettled
    <2>5. KeepsUnsent(s, t)
      BY <2>2, KeepsUnsentPoints
    <2> QED
      BY <2>4, <2>5 DEF t
  <1> QED
    BY <1>13, <1>14, <1>15

\* queue_process_loop.
LEMMA KickSettled ==
    ASSUME NEW s, NEW e \in [Rule -> Nat], Good(s, e, NoRule), Settled(s, e)
    PROVE  Settled(Kick(s), e) /\ Spares(s, Kick(s), NoRule) /\ KeepsUnsent(s, Kick(s))
  <1> DEFINE w == Head(s.work)
             b == [s EXCEPT !.work = Tail(@), !.current = w.op]
  <1>1. CASE s.current # "none" \/ s.work = <<>>
    BY <1>1, SparesPoints, KeepsUnsentPoints DEF Kick
  <1>2. CASE s.current = "none" /\ s.work # <<>>
    <2>1. s \in DaemonType /\ s.dump = <<>>
      BY <1>2 DEF Good
    <2>2. w \in Work /\ Tail(s.work) \in Seq(Work)
      BY <1>2, <2>1, PopPoints
    <2>3. /\ w.op \in {"install", "uninstall", "filters", "routes"}
          /\ w.op \in {"install", "uninstall"} => w.rule \in Rule
      BY <2>2 DEF Work
    <2> DEFINE rest == Tail(s.work)
               op == w.op
    <2>4. b = [s EXCEPT !.work = rest, !.current = op]
      OBVIOUS
    <2>5. rest \in Seq(Work) /\ op \in {"none", "install", "uninstall", "filters", "routes"}
      BY <2>2, <2>3
    <2> HIDE DEF b
    <2>6. Kick(s) = CASE op = "filters" -> [b EXCEPT !.dump = Filters(b.kern)]
                      [] op \in {"install", "uninstall"} -> tc_action_execute(b, op, w.rule)
                      [] OTHER -> b
      BY <1>2 DEF Kick, b
    <2> HIDE DEF rest, op, w
    <2>7. /\ b \in DaemonType
          /\ b.rule = s.rule
          /\ b.work = rest
          /\ b.current = op
          /\ b.pin = s.pin
          /\ b.kern = s.kern
          /\ b.mon = s.mon
          /\ b.dump = s.dump
          /\ b.own = s.own
          /\ b.fault = s.fault
      BY <2>1, <2>4, <2>5 DEF DaemonType
    <2>8. CASE op \in {"install", "uninstall"}
      <3>1. Kick(s) = tc_action_execute(b, op, w.rule)
        BY <2>6, <2>8
      <3>2. w.rule \in Rule /\ Head(s.work).rule = w.rule /\ Head(s.work).op = op
        BY <2>3, <2>8 DEF op, w
      <3>3. /\ Settled(tc_action_execute(b, op, w.rule), e)
            /\ Spares(s, tc_action_execute(b, op, w.rule), NoRule)
            /\ KeepsUnsent(s, tc_action_execute(b, op, w.rule))
        BY <1>2, <2>7, <2>8, <3>2, ExecuteSettled DEF rest
      <3> QED
        BY <3>1, <3>3
    <2>9. CASE op = "routes"
      <3>1. Kick(s) = b
        BY <2>6, <2>9
      <3>2. DumpTrue(b)
        BY <2>7 DEF Settled, DumpTrue
      <3>3. b.work = Tail(s.work)
        BY <2>7 DEF rest
      <3>4. KeepsUnsent(s, b)
        BY <2>7, KeepsUnsentPoints
      <3> QED
        BY <1>2, <2>1, <2>7, <3>1, <3>2, <3>3, <3>4, PopSettled
    <2>10. CASE op = "filters"
      <3> DEFINE t == [b EXCEPT !.dump = Filters(b.kern)]
      <3>1. Kick(s) = t
        BY <2>6, <2>10
      <3>2. /\ t.rule = s.rule
            /\ t.work = Tail(s.work)
            /\ t.pin = s.pin
            /\ t.kern = s.kern
            /\ t.mon = s.mon
            /\ t.dump = Filters(s.kern)
            /\ t.own = s.own
        BY <2>7 DEF DaemonType, rest
      <3> HIDE DEF t
      <3>3. DumpTrue(t)
        <4>1. s.kern \in [Slot -> MaybeTcr]
          BY <2>1 DEF DaemonType
        <4> QED
          BY <3>2, <4>1, FiltersAreTheTable DEF DumpTrue
      <3>4. KeepsUnsent(s, t)
        BY <3>2, KeepsUnsentPoints
      <3> QED
        BY <1>2, <2>1, <3>1, <3>2, <3>3, <3>4, PopSettled
    <2>11. op \in {"install", "uninstall"} \/ op = "routes" \/ op = "filters"
      BY <2>3 DEF op
    <2> QED
      BY <2>8, <2>9, <2>10, <2>11
  <1> QED
    BY <1>1, <1>2

\* obj_rule_update_state with the request it makes.
LEMMA UpdateAndKickSettled ==
    ASSUME NEW s, NEW e \in [Rule -> Nat], NEW x, Good(s, e, x), Settled(s, e),
           NEW r \in Rule, x \in {NoRule, r}, Live(s, r),
           Ready(s, s.rule[r]) \/ s.pin # 3
    PROVE  /\ Settled(UpdateAndKick(s, r), e)
           /\ Spares(s, UpdateAndKick(s, r), NoRule)
           /\ KeepsUnsent(UpdateState(s, r), UpdateAndKick(s, r))
  <1>1. Good(UpdateState(s, r), e, NoRule)
    BY UpdateStateGood
  <1>2. Settled(UpdateState(s, r), e) /\ Spares(s, UpdateState(s, r), NoRule)
    BY UpdateStateSettled
  <1>3. /\ Settled(Kick(UpdateState(s, r)), e)
        /\ Spares(UpdateState(s, r), Kick(UpdateState(s, r)), NoRule)
        /\ KeepsUnsent(UpdateState(s, r), Kick(UpdateState(s, r)))
    BY <1>1, <1>2, KickSettled
  <1> QED
    BY <1>2, <1>3, SparesPoints DEF UpdateAndKick

-----------------------------------------------------------------------------
(* Notifications and dumps.                                                 *)

\* A message about a slot is no surprise: a filter is or was in the slot, and
\* the rule there has it or has nothing; a removal is the last that is heard
\* of the slot.
Fits(s, m) ==
    /\ m.op = "NEW" =>
          /\ s.kern[m.slot] \in {NoTcr, m.tcr}
          /\ \A r \in Rule : s.rule[r].pos /\ s.rule[r].slot = m.slot
                             => s.rule[r].have \in {NoTcr, m.tcr}
          /\ s.kern[m.slot] = NoTcr
             => \E r \in Rule : s.rule[r].pos /\ s.rule[r].slot = m.slot
                                /\ s.rule[r].have = m.tcr
    /\ m.op = "DEL" =>
          /\ s.kern[m.slot] = NoTcr
          /\ \A k \in 1..Len(s.mon) : s.mon[k].slot # m.slot
          /\ \A r \in Rule : s.rule[r].laf /\ s.rule[r].slot = m.slot
                             => s.rule[r].state # "QUEUED"

\* The oldest notification is received, or lost.
LEMMA NotifiedSettled ==
    ASSUME NEW s \in DaemonType, NEW f, Settled(s, f), s.mon # <<>>, NEW t,
           t.rule = s.rule, t.work = s.work, t.pin = s.pin, t.own = s.own,
           t.kern = s.kern, t.dump = s.dump,
           t.mon = Tail(s.mon)
    PROVE  /\ Settled(t, f)
           /\ Spares(s, t, NoRule)
           /\ Head(s.mon) \in Message
           /\ Fits(t, Head(s.mon))
  <1>1. s.mon \in Seq(Message)
    BY DEF DaemonType
  <1> DEFINE n == Len(t.mon)
             m == Head(s.mon)
  <1>2. /\ Len(s.mon) \in Nat \ {0}
        /\ n = Len(s.mon) - 1
        /\ \A k \in 1..n : t.mon[k] = s.mon[k + 1]
        /\ m = s.mon[1]
        /\ m \in Message
    BY <1>1, TailPoints
  <1> HIDE DEF n, m
  <1>3. /\ \A k \in 1..n : k + 1 \in 1..Len(s.mon) /\ k + 1 > 1 /\ k + 1 # 1
        /\ 1 \in 1..Len(s.mon)
        /\ \A j \in 1..Len(s.mon) : j > 1 => j - 1 \in 1..n /\ (j - 1) + 1 = j
        /\ \A j \in 1..Len(s.mon), k \in 1..n : j > k + 1 => j > 1 /\ j - 1 > k
    BY <1>2
  <1>4. ASSUME NEW k \in 1..n
        PROVE  LastWord(t, k) <=> LastWord(s, k + 1)
    <2>1. ASSUME LastWord(s, k + 1), NEW j \in 1..n, j > k
          PROVE  t.mon[j].slot # t.mon[k].slot
      <3>1. j + 1 > k + 1
        BY <1>2, <2>1
      <3> QED
        BY <1>2, <1>3, <2>1, <3>1 DEF LastWord
    <2>2. ASSUME LastWord(t, k), NEW j \in 1..Len(s.mon), j > k + 1
          PROVE  s.mon[j].slot # s.mon[k + 1].slot
      <3>1. j - 1 \in 1..n /\ j - 1 > k /\ t.mon[j - 1] = s.mon[(j - 1) + 1] /\ (j - 1) + 1 = j
        BY <1>2, <1>3, <2>2
      <3> QED
        BY <1>2, <2>2, <3>1 DEF LastWord, n
    <2> QED
      BY <2>1, <2>2 DEF LastWord, n
  <1>5. MonTrue(t)
    <2>1. ASSUME NEW k \in 1..n, LastWord(t, k)
          PROVE  t.kern[t.mon[k].slot] = Effect(t.mon[k])
      BY <1>2, <1>3, <1>4, <2>1 DEF Settled, MonTrue
    <2> QED
      BY <2>1 DEF MonTrue, n
  <1>6. DumpTrue(t)
    BY DEF Settled, DumpTrue
  <1>7. OneAtATime(t)
    <2>1. ASSUME NEW k \in 1..n, t.mon[k].op = "NEW"
          PROVE  /\ t.kern[t.mon[k].slot] \in {NoTcr, t.mon[k].tcr}
                 /\ \A r \in Rule : t.rule[r].pos /\ t.rule[r].slot = t.mon[k].slot
                                    => t.rule[r].have \in {NoTcr, t.mon[k].tcr}
      BY <1>2, <1>3, <2>1 DEF Settled, OneAtATime
    <2> QED
      BY <2>1 DEF Settled, OneAtATime, n
  <1>8. RemovalsAwaited(t)
    <2>1. ASSUME NEW k \in 1..n, t.mon[k].op = "DEL"
          PROVE  /\ t.pin # 0
                 /\ LastWord(t, k)
                 /\ \E r \in Rule : /\ t.rule[r].pos
                                    /\ t.rule[r].slot = t.mon[k].slot
                                    /\ t.rule[r].have # NoTcr
      BY <1>2, <1>3, <1>4, <2>1 DEF Settled, RemovalsAwaited
    <2> QED
      BY <2>1 DEF RemovalsAwaited, n
  <1>9. RequestsFit(t)
    BY DEF Settled, RequestsFit
  <1>10. Unclaimed(t, f)
    <2>1. \A slot : Leaving(t, slot) => Leaving(s, slot)
      BY <1>2, <1>3 DEF Leaving, n
    <2> QED
      BY <2>1 DEF Settled, Unclaimed
  <1>11. HeldByOne(t)
    BY DEF Settled, HeldByOne
  <1>12. Fits(t, m)
    <2>1. CASE m.op = "NEW"
      <3>1. /\ s.kern[m.slot] \in {NoTcr, m.tcr}
            /\ \A r \in Rule : s.rule[r].pos /\ s.rule[r].slot = m.slot
                               => s.rule[r].have \in {NoTcr, m.tcr}
        BY <1>2, <1>3, <2>1 DEF Settled, OneAtATime
      <3>2. ASSUME s.kern[m.slot] = NoTcr
            PROVE  \E r \in Rule : s.rule[r].pos /\ s.rule[r].slot = m.slot
                                   /\ s.rule[r].have = m.tcr
        <4>1. PICK r \in Rule : /\ s.rule[r].pos
                                /\ s.rule[r].slot = m.slot
                                /\ s.rule[r].have # NoTcr
          BY <1>2, <1>3, <3>2, EmptyAwaited
        <4> QED
          BY <3>1, <4>1
      <3> QED
        BY <2>1, <3>1, <3>2 DEF Fits
    <2>2. CASE m.op = "DEL"
      <3>1. LastWord(s, 1)
        BY <1>2, <1>3, <2>2 DEF Settled, RemovalsAwaited
      <3>2. s.kern[m.slot] = NoTcr
        BY <1>2, <1>3, <2>2, <3>1 DEF Settled, MonTrue, Effect
      <3>3. \A k \in 1..n : t.mon[k].slot # m.slot
        BY <1>2, <1>3, <3>1 DEF LastWord
      <3>4. Leaving(s, m.slot)
        BY <1>2, <1>3, <2>2 DEF Leaving
      <3>5. \A r \in Rule : s.rule[r].laf /\ s.rule[r].slot = m.slot
                            => s.rule[r].state # "QUEUED"
        BY <3>4 DEF Settled, Unclaimed
      <3> QED
        BY <2>2, <3>2, <3>3, <3>5 DEF Fits, n
    <2> QED
      BY <2>1, <2>2 DEF Fits
  <1> QED
    BY <1>2, <1>5, <1>6, <1>7, <1>8, <1>9, <1>10, <1>11, <1>12, SparesSame DEF Settled, m

\* A filter of the running dump is received.
LEMMA DumpedSettled ==
    ASSUME NEW s \in DaemonType, NEW f, Settled(s, f), s.dump # <<>>, NEW t,
           t.rule = s.rule, t.work = s.work, t.pin = s.pin, t.own = s.own,
           t.kern = s.kern, t.mon = s.mon,
           t.dump = Tail(s.dump),
           NEW m \in Message, m.op = "NEW",
           m.slot = Head(s.dump).slot, m.tcr = Head(s.dump).tcr
    PROVE  /\ Settled(t, f)
           /\ Spares(s, t, NoRule)
           /\ Fits(t, m)
  <1>1. s.dump \in Seq(Filter)
    BY DEF DaemonType, Filter
  <1> DEFINE n == Len(t.dump)
  <1>2. /\ Len(s.dump) \in Nat \ {0}
        /\ n = Len(s.dump) - 1
        /\ \A k \in 1..n : t.dump[k] = s.dump[k + 1]
        /\ Head(s.dump) = s.dump[1]
    BY <1>1, TailPoints
  <1> HIDE DEF n
  <1>3. /\ \A k \in 1..n : k + 1 \in 1..Len(s.dump)
        /\ 1 \in 1..Len(s.dump)
    BY <1>2
  <1>4. DumpTrue(t)
    <2>1. \A k \in 1..n : t.kern[t.dump[k].slot] = t.dump[k].tcr
      BY <1>2, <1>3 DEF Settled, DumpTrue
    <2> QED
      BY <2>1 DEF DumpTrue, n
  <1>5. MonTrue(t) /\ OneAtATime(t) /\ RemovalsAwaited(t)
    BY DEF Settled, MonTrue, OneAtATime, RemovalsAwaited, LastWord
  <1>6. RequestsFit(t)
    BY DEF Settled, RequestsFit
  <1>7. Unclaimed(t, f)
    BY DEF Settled, Unclaimed, Leaving
  <1>8. HeldByOne(t)
    BY DEF Settled, HeldByOne
  <1>9. s.kern[m.slot] = m.tcr
    BY <1>2, <1>3 DEF Settled, DumpTrue
  <1>10. m.tcr # NoTcr
    BY Constants DEF Message
  <1>11. \A r \in Rule : s.rule[r].pos /\ s.rule[r].slot = m.slot
                         => s.rule[r].have \in {NoTcr, m.tcr}
    BY <1>9, <1>10 DEF Settled, OneAtATime
  <1>12. Fits(t, m)
    BY <1>9, <1>10, <1>11 DEF Fits
  <1> QED
    BY <1>4, <1>5, <1>6, <1>7, <1>8, <1>12, SparesSame DEF Settled

\* A rule that has nothing comes to have what the kernel has in its slot.
LEMMA SettledHas ==
    ASSUME NEW s, NEW e, NEW x, Good(s, e, x), NEW f, Settled(s, f),
           NEW r \in Rule, NEW o \in RuleRecord,
           s.rule[r].have = NoTcr,
           o.pos, o.have \in AnyTcr, s.kern[o.slot] = o.have,
           Lost(s, r, o, f[r])
    PROVE  Settled(With(s, r, o), f)
  <1> DEFINE t == With(s, r, o)
  <1>1. s \in DaemonType /\ o.have # NoTcr
    BY Constants DEF Good
  <1>2. /\ t.rule[r] = o
        /\ \A q \in Rule : q # r => t.rule[q] = s.rule[q]
        /\ SameButRules(s, t)
    BY <1>1, WithPoints
  <1>3. t.kern = s.kern /\ t.mon = s.mon /\ t.dump = s.dump /\ t.work = s.work
        /\ t.own = s.own /\ t.pin = s.pin
    BY <1>2 DEF SameButRules
  <1> HIDE DEF t
  <1>4. MonTrue(t) /\ DumpTrue(t)
    BY <1>3 DEF Settled, MonTrue, DumpTrue, LastWord
  <1>5. OneAtATime(t)
    <2>1. ASSUME NEW q \in Rule, t.rule[q].pos, t.rule[q].have # NoTcr
          PROVE  t.kern[t.rule[q].slot] \in {NoTcr, t.rule[q].have}
      BY <1>2, <1>3, <2>1 DEF Settled, OneAtATime
    <2>2. ASSUME NEW k \in 1..Len(s.mon), s.mon[k].op = "NEW"
          PROVE  /\ s.kern[s.mon[k].slot] \in {NoTcr, s.mon[k].tcr}
                 /\ \A q \in Rule : s.rule[q].pos /\ s.rule[q].slot = s.mon[k].slot
                                    => s.rule[q].have \in {NoTcr, s.mon[k].tcr}
      BY <2>2 DEF Settled, OneAtATime
    <2>3. ASSUME NEW k \in 1..Len(s.mon), s.mon[k].op = "NEW", s.mon[k].slot = o.slot
          PROVE  o.have = s.mon[k].tcr
      BY <1>1, <2>2, <2>3
    <2> QED
      BY <1>2, <1>3, <2>1, <2>2, <2>3 DEF OneAtATime
  <1>6. RemovalsAwaited(t)
    <2>1. ASSUME NEW k \in 1..Len(s.mon), s.mon[k].op = "DEL"
          PROVE  /\ s.pin # 0
                 /\ LastWord(s, k)
                 /\ \E q \in Rule : /\ q # r
                                    /\ s.rule[q].pos
                                    /\ s.rule[q].slot = s.mon[k].slot
                                    /\ s.rule[q].have # NoTcr
      BY <2>1 DEF Settled, RemovalsAwaited
    <2>2. \A k : LastWord(t, k) <=> LastWord(s, k)
      BY <1>3 DEF LastWord
    <2> QED
      BY <1>2, <1>3, <2>1, <2>2 DEF RemovalsAwaited
  <1>7. RequestsFit(t)
    <2>1. ASSUME NEW k \in 1..Len(t.work)
          PROVE  RequestFits(t, k)
      <3>1. k \in 1..Len(s.work) /\ t.work[k] = s.work[k]
        BY <1>3
      <3>2. CASE s.work[k].op \in {"install", "uninstall"} /\ s.work[k].rule = r
        <4>1. /\ t.work[k].rule = r /\ t.rule[r] = o /\ o.have = s.kern[o.slot]
              /\ o.have # NoTcr /\ t.kern = s.kern
          BY <1>1, <1>2, <1>3, <3>1, <3>2
        <4> QED
          BY <4>1, Zenon DEF RequestFits
      <3>3. CASE ~(s.work[k].op \in {"install", "uninstall"} /\ s.work[k].rule = r)
        <4>1. s.work[k].op \in {"install", "uninstall"}
              => s.work[k].rule \in Rule /\ s.work[k].rule # r
          BY <1>1, <3>1, <3>3, ElementsOf
        <4>2. KeepsFit(s, t, s.work[k])
          BY <1>2, <1>3, <4>1 DEF SameFit, KeepsFit
        <4>3. RequestFits(s, k)
          BY <3>1, FitsAt
        <4> QED
          BY <3>1, <4>2, <4>3, FitCarried
      <3> QED
        BY <3>2, <3>3
    <2> QED
      BY <2>1, AllFit
  <1>8. Unclaimed(t, f)
    <2>1. \A slot : Leaving(t, slot) <=> Leaving(s, slot)
      BY <1>3 DEF Leaving
    <2> QED
      BY <1>2, <1>3, <2>1 DEF Settled, Unclaimed, Lost, Ready
  <1>9. HeldByOne(t)
    BY <1>3 DEF Settled, HeldByOne
  <1> QED
    BY <1>4, <1>5, <1>6, <1>7, <1>8, <1>9 DEF Settled, t

\* A rule loses what it had, when the kernel has nothing in its slot and no
\* more is to be heard of it.
LEMMA SettledLoses ==
    ASSUME NEW s, NEW e, NEW x, Good(s, e, x), NEW f, Settled(s, f),
           NEW r \in Rule, NEW o \in RuleRecord, NEW d,
           s.kern[s.rule[r].slot] = NoTcr,
           \A k \in 1..Len(s.mon) : s.mon[k].slot # s.rule[r].slot,
           o.have = NoTcr, ~o.laf,
           o.slot = s.rule[r].slot \/ s.rule[r].state # "QUEUED",
           \A q \in Rule : q # r => d[q] = f[q]
    PROVE  Settled(With(s, r, o), d)
  <1> DEFINE t == With(s, r, o)
  <1>1. s \in DaemonType
    BY DEF Good
  <1>2. /\ t.rule[r] = o
        /\ \A q \in Rule : q # r => t.rule[q] = s.rule[q]
        /\ SameButRules(s, t)
    BY <1>1, WithPoints
  <1>3. t.kern = s.kern /\ t.mon = s.mon /\ t.dump = s.dump /\ t.work = s.work
        /\ t.own = s.own /\ t.pin = s.pin
    BY <1>2 DEF SameButRules
  <1> HIDE DEF t
  <1>4. MonTrue(t) /\ DumpTrue(t)
    BY <1>3 DEF Settled, MonTrue, DumpTrue, LastWord
  <1>5. OneAtATime(t)
    <2>1. ASSUME NEW q \in Rule, t.rule[q].pos, t.rule[q].have # NoTcr
          PROVE  t.kern[t.rule[q].slot] \in {NoTcr, t.rule[q].have}
      BY <1>2, <1>3, <2>1 DEF Settled, OneAtATime
    <2>2. ASSUME NEW k \in 1..Len(t.mon), t.mon[k].op = "NEW"
          PROVE  /\ t.kern[t.mon[k].slot] \in {NoTcr, t.mon[k].tcr}
                 /\ \A q \in Rule : t.rule[q].pos /\ t.rule[q].slot = t.mon[k].slot
                                    => t.rule[q].have \in {NoTcr, t.mon[k].tcr}
      BY <1>2, <1>3, <2>2 DEF Settled, OneAtATime
    <2> QED
      BY <2>1, <2>2 DEF OneAtATime
  <1>6. RemovalsAwaited(t)
    <2>1. ASSUME NEW k \in 1..Len(s.mon), s.mon[k].op = "DEL"
          PROVE  /\ s.pin # 0
                 /\ LastWord(s, k)
                 /\ \E q \in Rule : /\ q # r
                                    /\ s.rule[q].pos
                                    /\ s.rule[q].slot = s.mon[k].slot
                                    /\ s.rule[q].have # NoTcr
      BY <2>1 DEF Settled, RemovalsAwaited
    <2>2. \A k : LastWord(t, k) <=> LastWord(s, k)
      BY <1>3 DEF LastWord
    <2> QED
      BY <1>2, <1>3, <2>1, <2>2 DEF RemovalsAwaited
  <1>7. RequestsFit(t)
    <2>1. ASSUME NEW k \in 1..Len(t.work)
          PROVE  RequestFits(t, k)
      <3>1. k \in 1..Len(s.work) /\ t.work[k] = s.work[k]
        BY <1>3
      <3>2. CASE s.work[k].op \in {"install", "uninstall"} /\ s.work[k].rule = r
        <4>1. s.rule[r].state = "QUEUED"
          BY <3>1, <3>2 DEF Good, RequestsAgree
        <4>2. /\ t.work[k].rule = r /\ t.rule[r] = o /\ o.slot = s.rule[r].slot
              /\ o.have = NoTcr /\ t.kern = s.kern
          BY <1>2, <1>3, <3>1, <3>2, <4>1
        <4> QED
          BY <4>2, Zenon DEF RequestFits
      <3>3. CASE ~(s.work[k].op \in {"install", "uninstall"} /\ s.work[k].rule = r)
        <4>1. s.work[k].op \in {"install", "uninstall"}
              => s.work[k].rule \in Rule /\ s.work[k].rule # r
          BY <1>1, <3>1, <3>3, ElementsOf
        <4>2. KeepsFit(s, t, s.work[k])
          BY <1>2, <1>3, <4>1 DEF SameFit, KeepsFit
        <4>3. RequestFits(s, k)
          BY <3>1, FitsAt
        <4> QED
          BY <3>1, <4>2, <4>3, FitCarried
      <3> QED
        BY <3>2, <3>3
    <2> QED
      BY <2>1, AllFit
  <1>8. Unclaimed(t, d)
    <2>1. \A slot : Leaving(t, slot) <=> Leaving(s, slot)
      BY <1>3 DEF Leaving
    <2> QED
      BY <1>2, <1>3, <2>1 DEF Settled, Unclaimed
  <1>9. HeldByOne(t)
    BY <1>3 DEF Settled, HeldByOne
  <1> QED
    BY <1>4, <1>5, <1>6, <1>7, <1>8, <1>9 DEF Settled, t

\* obj_rule_new.
LEMMA FoundUnknownSettled ==
    ASSUME NEW s, Good(s, NoExtra, NoRule), Settled(s, NoExtra),
           NEW m \in Message, m.op = "NEW", Fits(s, m),
           obj_rule_pos_lookup(s, m.slot) = NoRule
    PROVE  /\ Settled(FoundUnknown(s, m), NoExtra)
           /\ Spares(s, FoundUnknown(s, m), NoRule)
  <1>1. PICK r \in Rule, o \in RuleRecord : Discovers(s, m, r, o)
    BY Discovered
  <1>2. FoundUnknown(s, m) = UpdateAndKick(With(s, r, o), r)
    BY <1>1 DEF Discovers
  <1>3. \A q \in Rule : ~(s.rule[q].pos /\ s.rule[q].slot = m.slot)
    BY PosLookup
  <1>4. s.kern[m.slot] = m.tcr
    BY <1>3 DEF Fits
  <1>5. ~Leaving(s, m.slot)
    BY <1>3 DEF Settled, RemovalsAwaited, Leaving
  <1>6. NoExtra \in [Rule -> Nat] /\ NoExtra[r] = 0
    BY DEF NoExtra
  <1>7. s \in DaemonType
    BY DEF Good
  <1>8. Lost(s, r, o, NoExtra[r])
    <2>1. \A p \in Owner : s.own[p] # r
      <3>1. ~Live(s, r)
        BY <1>1 DEF Discovers, Freed, Live
      <3> QED
        BY <1>6, <3>1, HeldIsLive
    <2>2. o.refs = QueueHolds(o) + NoExtra[r] /\ o.state # "QUEUED"
      BY <1>1, <1>6 DEF Discovers, QueueHolds
    <2>3. o.want = NoTcr /\ o.have # NoTcr
      BY <1>1, Constants DEF Discovers, Message
    <2> QED
      BY <2>1, <2>2, <2>3 DEF Lost
  <1> DEFINE c == With(s, r, o)
  <1>9. Good(c, NoExtra, NoRule) /\ Live(c, r)
    BY <1>1 DEF Discovers
  <1>10. Settled(c, NoExtra)
    <2>1. s.rule[r].have = NoTcr
      BY <1>1 DEF Discovers, Freed
    <2>2. o.pos /\ o.have \in AnyTcr /\ s.kern[o.slot] = o.have
      BY <1>1, <1>4 DEF Discovers, Message
    <2> QED
      BY <1>8, <2>1, <2>2, SettledHas
  <1>11. Ready(c, c.rule[r])
    <2>1. c.rule[r] = o /\ c.mon = s.mon
      BY <1>7, WithPoints DEF SameButRules
    <2>2. o.slot = m.slot
      BY <1>1 DEF Discovers
    <2> QED
      BY <1>5, <2>1, <2>2 DEF Ready, Leaving
  <1>12. Spares(s, c, NoRule)
    <2>1. Idle(s, r)
      BY <1>1, SparesIdle DEF Discovers, Freed
    <2> QED
      BY <1>7, <2>1, SparesWith, SparesIdle
  <1> HIDE DEF c
  <1>13. /\ Settled(UpdateAndKick(c, r), NoExtra)
         /\ Spares(c, UpdateAndKick(c, r), NoRule)
    BY <1>6, <1>9, <1>10, <1>11, UpdateAndKickSettled
  <1> QED
    BY <1>2, <1>12, <1>13, SparesPoints DEF c

\* obj_rule_update.
LEMMA FoundKnownSettled ==
    ASSUME NEW s, Good(s, NoExtra, NoRule), Settled(s, NoExtra),
           NEW m \in Message, m.op = "NEW", Fits(s, m),
           NEW r \in Rule, s.rule[r].pos, s.rule[r].slot = m.slot
    PROVE  /\ Settled(FoundKnown(s, m, r), NoExtra)
           /\ Spares(s, FoundKnown(s, m, r), NoRule)
  <1>1. CASE s.rule[r].have = m.tcr
    BY <1>1, SparesPoints DEF FoundKnown
  <1>2. CASE s.rule[r].have # m.tcr
    <2>1. PICK o \in RuleRecord : Learns(s, m, r, o)
      BY <1>2, Learned
    <2>2. FoundKnown(s, m, r) = UpdateAndKick(With(s, r, o), r)
      BY <2>1 DEF Learns
    <2>3. s.rule[r].have = NoTcr
      BY <1>2 DEF Fits
    <2>4. s.kern[m.slot] = m.tcr
      <3>1. ASSUME s.kern[m.slot] = NoTcr PROVE FALSE
        <4>1. PICK q \in Rule : s.rule[q].pos /\ s.rule[q].slot = m.slot /\ s.rule[q].have = m.tcr
          BY <3>1 DEF Fits
        <4>2. q = r
          BY <4>1, AloneThere
        <4> QED
          BY <1>2, <4>1, <4>2
      <3> QED
        BY <3>1 DEF Fits
    <2>5. ~o.laf
      BY <2>1, <2>3 DEF Learns, Settled, Unclaimed
    <2>6. s \in DaemonType
      BY DEF Good
    <2>7. NoExtra \in [Rule -> Nat]
      BY DEF NoExtra
    <2> DEFINE t == With(s, r, o)
    <2>8. Good(t, NoExtra, r) /\ Live(t, r)
      BY <2>1 DEF Learns
    <2>9. Settled(t, NoExtra)
      <3>1. o.pos /\ o.have \in AnyTcr /\ s.kern[o.slot] = o.have
        BY <2>1, <2>4 DEF Learns, Message
      <3>2. Lost(s, r, o, NoExtra[r])
        BY <2>5 DEF Lost
      <3> QED
        BY <2>3, <3>1, <3>2, SettledHas
    <2>10. Ready(t, t.rule[r])
      BY <2>5, <2>6, WithPoints DEF Ready
    <2>11. Spares(s, t, NoRule)
      <3>1. Idle(s, r)
        BY <2>3, SparesIdle
      <3> QED
        BY <2>6, <3>1, SparesWith, SparesIdle
    <2> HIDE DEF t
    <2>12. /\ Settled(UpdateAndKick(t, r), NoExtra)
           /\ Spares(t, UpdateAndKick(t, r), NoRule)
      BY <2>7, <2>8, <2>9, <2>10, UpdateAndKickSettled
    <2> QED
      BY <2>2, <2>11, <2>12, SparesPoints DEF t
  <1> QED
    BY <1>1, <1>2

\* obj_rule_delete.
LEMMA FoundDeletedSettled ==
    ASSUME NEW s, Good(s, NoExtra, NoRule), Settled(s, NoExtra),
           NEW m \in Message, m.op = "DEL", Fits(s, m),
           NEW r \in Rule, s.rule[r].pos, s.rule[r].slot = m.slot
    PROVE  /\ Settled(FoundDeleted(s, r), NoExtra)
           /\ Spares(s, FoundDeleted(s, r), NoRule)
  <1>1. PICK o \in RuleRecord : Forgets(s, r, o)
    BY Forgotten
  <1> DEFINE t == With(s, r, o)
             u == IF t.rule[r].want # NoTcr THEN UpdateAndKick(t, r) ELSE t
  <1>2. FoundDeleted(s, r) = Kick(Unref(u, r))
    BY <1>1 DEF Forgets
  <1>3. /\ Good(t, One(r), r)
        /\ o.want = NoTcr => Good(t, One(r), NoRule)
        /\ t.rule[r] = o
        /\ Live(t, r)
    BY <1>1 DEF Forgets
  <1>4. s \in DaemonType
    BY DEF Good
  <1>5. Idle(s, r)
    BY Constants DEF Fits, Idle, Serves
  <1>6. /\ s.kern[s.rule[r].slot] = NoTcr
        /\ \A k \in 1..Len(s.mon) : s.mon[k].slot # s.rule[r].slot
        /\ s.rule[r].laf => s.rule[r].state # "QUEUED"
    BY DEF Fits
  <1>7. /\ Good(Unref(u, r), NoExtra, NoRule)
        /\ Settled(Unref(u, r), NoExtra)
        /\ Spares(s, Unref(u, r), r)
    <2>1. CASE s.rule[r].laf
      <3>1. o.want = NoTcr /\ o.refs = 1 /\ ~o.inst
        <4>1. /\ s.rule[r].want = NoTcr
              /\ s.rule[r].refs = QueueHolds(s.rule[r]) + NoExtra[r]
          BY <2>1 DEF Settled, Unclaimed
        <4>2. s.rule[r].refs = 0
          BY <1>6, <2>1, <4>1 DEF QueueHolds, NoExtra
        <4> QED
          BY <1>1, <4>1, <4>2 DEF Forgets
      <3>2. u = t
        BY <1>3, <3>1
      <3>3. Good(Unref(t, r), NoExtra, NoRule)
        BY <1>3, <3>1, OnePoints, UnrefGood
      <3> DEFINE p == [t.rule[r] EXCEPT !.refs = @ - 1]
                 v == With(t, r, p)
      <3>4. /\ p \in RuleRecord
            /\ p.refs = 0
            /\ p.want = NoTcr
            /\ ~p.inst
        BY <1>3, <3>1 DEF RuleRecord
      <3>5. t \in DaemonType
        BY <1>3 DEF Good
      <3> HIDE DEF t
      <3>6. Unref(t, r) = LET w == IF Abandoned(v.rule[r]) THEN Uninstall(v, r) ELSE v
                          IN  IF Reapable(w, r) THEN Reap(w, r) ELSE w
        BY DEF Unref, CountDown, With
      <3> HIDE DEF p
      <3>7. v.rule[r] = p
        BY <3>4, <3>5, WithPoints
      <3>8. Unref(t, r) = With(s, r, Freed)
        <4>1. ~Abandoned(v.rule[r]) /\ Reapable(v, r)
          BY <3>4, <3>7 DEF Abandoned, Reapable
        <4>2. Reap(v, r) = With(v, r, Freed)
          BY DEF Reap, With
        <4>3. With(v, r, Freed) = With(t, r, Freed)
          BY <3>4, <3>5, Constants, WithTwice
        <4>4. With(t, r, Freed) = With(s, r, Freed)
          BY <1>4, Constants, WithTwice DEF t
        <4> HIDE DEF v
        <4> QED
          BY <3>6, <4>1, <4>2, <4>3, <4>4
      <3>9. Settled(With(s, r, Freed), NoExtra)
        <4>1. Freed \in RuleRecord /\ Freed.have = NoTcr /\ ~Freed.laf
          BY Constants DEF Freed
        <4> QED
          BY <1>6, <2>1, <4>1, SettledLoses
      <3>10. Spares(s, With(s, r, Freed), r)
        BY <1>4, Constants, SparesWith
      <3> QED
        BY <3>2, <3>3, <3>8, <3>9, <3>10
    <2>2. CASE ~s.rule[r].laf
      <3>1. ~o.laf /\ o.have = NoTcr /\ o.slot = s.rule[r].slot
        BY <1>1, <2>2 DEF Forgets
      <3>2. Settled(t, One(r)) /\ Spares(s, t, r)
        <4>1. \A q \in Rule : q # r => One(r)[q] = NoExtra[q]
          BY OnePoints
        <4> QED
          BY <1>4, <1>6, <3>1, <4>1, SettledLoses, SparesWith
      <3>3. Ready(t, t.rule[r])
        BY <1>3, <3>1 DEF Ready
      <3> HIDE DEF t
      <3>4. Good(u, One(r), NoRule) /\ Settled(u, One(r)) /\ Spares(t, u, NoRule)
        <4>1. CASE o.want # NoTcr
          <5>1. Good(UpdateAndKick(t, r), One(r), NoRule)
            BY <1>3, OnePoints, UpdateAndKickGood
          <5>2. /\ Settled(UpdateAndKick(t, r), One(r))
                /\ Spares(t, UpdateAndKick(t, r), NoRule)
            BY <1>3, <3>2, <3>3, OnePoints, UpdateAndKickSettled
          <5> QED
            BY <1>3, <4>1, <5>1, <5>2
        <4>2. CASE o.want = NoTcr
          BY <1>3, <3>2, <4>2, SparesPoints
        <4> QED
          BY <4>1, <4>2
      <3> HIDE DEF u
      <3>5. One(r)[r] > 0
        BY OnePoints
      <3>6. Good(Unref(u, r), NoExtra, NoRule)
        BY <3>4, <3>5, OnePoints, UnrefGood
      <3>7. Settled(Unref(u, r), NoExtra) /\ Spares(u, Unref(u, r), r)
        BY <3>4, <3>5, OnePoints, UnrefSettled
      <3> QED
        BY <3>2, <3>4, <3>6, <3>7, SparesPoints
    <2> QED
      BY <2>1, <2>2
  <1> HIDE DEF t, u
  <1>8. /\ Settled(Kick(Unref(u, r)), NoExtra)
        /\ Spares(Unref(u, r), Kick(Unref(u, r)), NoRule)
    BY <1>7, OnePoints, KickSettled
  <1>9. Spares(s, Unref(u, r), NoRule)
    BY <1>5, <1>7, SparesIdle
  <1> QED
    BY <1>2, <1>8, <1>9, SparesPoints

\* obj_rule_netlink_found.
LEMMA FoundSettled ==
    ASSUME NEW s, Good(s, NoExtra, NoRule), Settled(s, NoExtra),
           NEW m \in Message, Fits(s, m)
    PROVE  /\ Settled(obj_rule_netlink_found(s, m), NoExtra)
           /\ Spares(s, obj_rule_netlink_found(s, m), NoRule)
  <1> DEFINE r == obj_rule_pos_lookup(s, m.slot)
             t == obj_rule_netlink_found(s, m)
  <1>1. Subject(s, m) = r
    BY SubjectIs
  <1>2. m.op \in {"NEW", "DEL"}
    BY DEF Message
  <1>3. CASE r = NoRule /\ m.op = "DEL"
    <2>1. t = s
      BY <1>1, <1>3 DEF obj_rule_netlink_found
    <2> QED
      BY <2>1, SparesPoints
  <1>4. CASE r = NoRule /\ m.op = "NEW"
    <2>1. t = FoundUnknown(s, m)
      BY <1>1, <1>4 DEF obj_rule_netlink_found
    <2> QED
      BY <1>4, <2>1, FoundUnknownSettled
  <1>5. CASE r # NoRule
    <2>1. r \in Rule /\ s.rule[r].pos /\ s.rule[r].slot = m.slot
      BY <1>5, PosLookup
    <2> HIDE DEF r
    <2>2. CASE m.op = "DEL"
      <3>1. t = FoundDeleted(s, r)
        BY <1>1, <1>5, <2>2 DEF obj_rule_netlink_found
      <3> QED
        BY <2>1, <2>2, <3>1, FoundDeletedSettled
    <2>3. CASE m.op = "NEW"
      <3>1. t = FoundKnown(s, m, r)
        BY <1>1, <1>5, <2>3 DEF obj_rule_netlink_found
      <3> QED
        BY <2>1, <2>3, <3>1, FoundKnownSettled
    <2> QED
      BY <1>2, <2>2, <2>3
  <1> QED
    BY <1>2, <1>3, <1>4, <1>5

-----------------------------------------------------------------------------
(* obj_rule_request.                                                        *)

\* Nothing that Settled is about differs; or the references of a handler do,
\* to rules that are not in the lost and found tree.
LEMMA SettledSame ==
    ASSUME NEW s, NEW f, Settled(s, f), NEW t,
           t.rule = s.rule, t.work = s.work, t.pin = s.pin, t.own = s.own,
           t.kern = s.kern, t.mon = s.mon, t.dump = s.dump,
           NEW d, \A q \in Rule : s.rule[q].laf => d[q] = f[q]
    PROVE  Settled(t, d)
  <1>1. MonTrue(t) /\ DumpTrue(t)
    BY DEF Settled, MonTrue, DumpTrue, LastWord
  <1>2. OneAtATime(t)
    BY DEF Settled, OneAtATime
  <1>3. RemovalsAwaited(t)
    BY DEF Settled, RemovalsAwaited, LastWord
  <1>4. RequestsFit(t)
    BY DEF Settled, RequestsFit
  <1>5. Unclaimed(t, d)
    BY DEF Settled, Unclaimed, Leaving
  <1>6. HeldByOne(t)
    BY DEF Settled, HeldByOne
  <1> QED
    BY <1>1, <1>2, <1>3, <1>4, <1>5, <1>6 DEF Settled

\* A pointer is set to a rule that is not in the lost and found tree and that
\* nobody has, or to none.
LEMMA AssignSettled ==
    ASSUME NEW s \in DaemonType, NEW f, Settled(s, f),
           NEW o \in Owner, NEW v \in Rule \union {NoRule},
           v \in Rule => ~s.rule[v].laf,
           \A p \in Owner : p # o => s.own[p] # v \/ v = NoRule,
           NEW d, \A q \in Rule : s.rule[q].laf => d[q] = f[q]
    PROVE  /\ Settled(Assign(s, o, v), d)
           /\ Assign(s, o, v) \in DaemonType
           /\ Assign(s, o, v).rule = s.rule
           /\ Assign(s, o, v).kern = s.kern
           /\ Assign(s, o, v).mon = s.mon
           /\ Assign(s, o, v).pin = s.pin
           /\ Assign(s, o, v).own[o] = v
           /\ \A p \in Owner : p # o => Assign(s, o, v).own[p] = s.own[p]
  <1> DEFINE t == Assign(s, o, v)
  <1>1. /\ t \in DaemonType
        /\ t.rule = s.rule /\ t.work = s.work /\ t.pin = s.pin
        /\ t.kern = s.kern /\ t.mon = s.mon /\ t.dump = s.dump
        /\ t.own = [s.own EXCEPT ![o] = v]
    BY DEF Assign, DaemonType
  <1> HIDE DEF t
  <1>2. t.own[o] = v /\ \A p \in Owner : p # o => t.own[p] = s.own[p]
    BY <1>1 DEF DaemonType
  <1>3. MonTrue(t) /\ DumpTrue(t)
    BY <1>1 DEF Settled, MonTrue, DumpTrue, LastWord
  <1>4. OneAtATime(t)
    BY <1>1 DEF Settled, OneAtATime
  <1>5. RemovalsAwaited(t)
    BY <1>1 DEF Settled, RemovalsAwaited, LastWord
  <1>6. RequestsFit(t)
    <2>1. ASSUME NEW k \in 1..Len(t.work)
          PROVE  RequestFits(t, k)
      <3>1. k \in 1..Len(s.work) /\ t.work[k] = s.work[k] /\ KeepsFit(s, t, s.work[k])
        BY <1>1 DEF SameFit, KeepsFit
      <3> QED
        BY <3>1, FitStays
    <2> QED
      BY <2>1, AllFit
  <1>7. Unclaimed(t, d)
    <2>1. \A slot : Leaving(t, slot) <=> Leaving(s, slot)
      BY <1>1 DEF Leaving
    <2> QED
      BY <1>1, <1>2, <2>1 DEF Settled, Unclaimed
  <1>8. HeldByOne(t)
    BY <1>2 DEF Settled, HeldByOne
  <1> QED
    BY <1>1, <1>2, <1>3, <1>4, <1>5, <1>6, <1>7, <1>8 DEF Settled, t

\* Pointer o, and no other, points to another rule than before.
Moves(s, t, o) ==
    /\ t.own[o] # s.own[o]
    /\ \A p \in Owner : p # o => t.own[p] = s.own[p]

\* obj_rule_prime_request.
LEMMA PrimeSettled ==
    ASSUME NEW s, Good(s, NoExtra, NoRule), Settled(s, NoExtra),
           NEW o \in Route, NEW tcr, NEW r \in Rule, NEW n \in RuleRecord,
           Primes(s, o, tcr, r, n)
    PROVE  LET t == obj_rule_prime_request(s, o, tcr) IN
           /\ Settled(t, One(s.own[o]))
           /\ Spares(s, t, NoRule)
           /\ Moves(s, t, o)
           /\ \A slot : Leaving(t, slot) <=> Leaving(s, slot)
           /\ \A q \in Rule : q # r => t.rule[q] = s.rule[q]
           /\ t.pin = s.pin
  <1> DEFINE t == obj_rule_prime_request(s, o, tcr)
             u == With(s, r, n)
             d == One(s.own[o])
  <1>1. s \in DaemonType /\ o \in Owner
    BY DEF Good, Owner
  <1>2. /\ u \in DaemonType
        /\ u.rule[r] = n
        /\ \A q \in Rule : q # r => u.rule[q] = s.rule[q]
        /\ SameButRules(s, u)
    BY <1>1, WithPoints
  <1>3. t = Assign(u, o, r)
    BY DEF Primes
  <1>4. Stays(s, r, n)
    BY DEF Primes, Stays, Freed
  <1>5. \A p \in Owner : s.own[p] # r
    <2>1. CASE s.rule[r].laf
      BY <2>1 DEF Settled, Unclaimed
    <2>2. CASE s.rule[r] = Freed
      <3>1. ~Live(s, r)
        BY <2>2 DEF Live, Freed
      <3>2. NoExtra \in [Rule -> Nat]
        BY OnePoints
      <3> QED
        BY <3>1, <3>2, HeldIsLive
    <2> QED
      BY <2>1, <2>2 DEF Primes
  <1>6. ~n.laf
    BY DEF Primes
  <1>7. Settled(u, NoExtra)
    <2>1. Lost(s, r, n, NoExtra[r])
      BY <1>6 DEF Lost
    <2> QED
      BY <1>4, <2>1, SettledWith
  <1>8. Spares(s, u, NoRule)
    <2>1. s.rule[r].want = NoTcr
      BY DEF Primes, Settled, Unclaimed, Freed
    <2>2. Spares(s, u, r)
      BY <1>1, SparesWith
    <2> QED
      BY <2>1, <2>2, SparesIdle
  <1> HIDE DEF t, u
  <1>9. \A q \in Rule : u.rule[q].laf => d[q] = NoExtra[q]
    <2>1. ASSUME NEW q \in Rule, u.rule[q].laf PROVE q # s.own[o]
      BY <1>1, <1>2, <1>7, <2>1 DEF Settled, Unclaimed, SameButRules
    <2> QED
      BY <2>1 DEF One, NoExtra
  <1>10. \A p \in Owner : p # o => u.own[p] # r
    BY <1>2, <1>5 DEF SameButRules
  <1> HIDE DEF d
  <1>11. /\ Settled(t, d)
         /\ t.rule = u.rule
         /\ t.kern = u.kern
         /\ t.mon = u.mon
         /\ t.pin = u.pin
         /\ t.own[o] = r
         /\ \A p \in Owner : p # o => t.own[p] = u.own[p]
    <2>1. ~u.rule[r].laf
      BY <1>2, <1>6
    <2>2. /\ Settled(Assign(u, o, r), d)
          /\ Assign(u, o, r).rule = u.rule
          /\ Assign(u, o, r).kern = u.kern
          /\ Assign(u, o, r).mon = u.mon
          /\ Assign(u, o, r).pin = u.pin
          /\ Assign(u, o, r).own[o] = r
          /\ \A p \in Owner : p # o => Assign(u, o, r).own[p] = u.own[p]
      BY <1>1, <1>2, <1>7, <1>9, <1>10, <2>1, AssignSettled
    <2> QED
      BY <1>3, <2>2
  <1>12. Spares(s, t, NoRule)
    BY <1>8, <1>11, SparesSame, SparesPoints
  <1>13. Moves(s, t, o)
    BY <1>1, <1>2, <1>5, <1>11 DEF Moves, SameButRules
  <1>14. \A slot : Leaving(t, slot) <=> Leaving(s, slot)
    BY <1>2, <1>11 DEF Leaving, SameButRules
  <1>15. t.pin = s.pin
    BY <1>2, <1>11 DEF SameButRules
  <1> QED
    BY <1>2, <1>11, <1>12, <1>13, <1>14, <1>15 DEF d, t

\* obj_rule_request.
LEMMA RequestSettled ==
    ASSUME NEW s, Good(s, NoExtra, NoRule), Settled(s, NoExtra),
           NEW o \in Route, NEW tcr \in Tcr, HasPlace(s, o, tcr)
    PROVE  LET t == obj_rule_request(s, o, tcr) IN
           /\ Settled(t, One(s.own[o]))
           /\ Spares(s, t, NoRule)
           /\ Moves(s, t, o)
           /\ KeepsUnsent(s, t)
  <1> DEFINE p == obj_rule_prime_request(s, o, tcr)
             d == One(s.own[o])
             t == obj_rule_request(s, o, tcr)
  <1>1. PICK r \in Rule, n \in RuleRecord : Primes(s, o, tcr, r, n)
    BY RequestPrimes
  <1>2. /\ Settled(p, d)
        /\ Spares(s, p, NoRule)
        /\ Moves(s, p, o)
        /\ \A slot : Leaving(p, slot) <=> Leaving(s, slot)
        /\ \A q \in Rule : q # r => p.rule[q] = s.rule[q]
    BY <1>1, PrimeSettled
  <1>3. /\ Good(p, d, r)
        /\ p.own[o] = r
        /\ p.rule[r] = n
        /\ ~n.laf
        /\ Live(p, r)
    BY <1>1 DEF Primes
  <1>4. d \in [Rule -> Nat]
    BY DEF One
  <1>5. t = UpdateAndKick(p, r)
    BY <1>3 DEF obj_rule_request
  <1> HIDE DEF p, d, t
  <1>6. Ready(p, p.rule[r])
    BY <1>3 DEF Ready
  <1>7. /\ Settled(UpdateAndKick(p, r), d)
        /\ Spares(p, UpdateAndKick(p, r), NoRule)
        /\ KeepsUnsent(UpdateState(p, r), UpdateAndKick(p, r))
    BY <1>2, <1>3, <1>4, <1>6, UpdateAndKickSettled
  <1>8. Keeps(p, UpdateAndKick(p, r))
    BY <1>3, <1>4, UpdateAndKickGood
  <1>9. Moves(s, t, o)
    BY <1>2, <1>5, <1>8 DEF Moves, Keeps
  <1>10. Spares(s, t, NoRule)
    BY <1>2, <1>5, <1>7, SparesPoints
  <1>11. KeepsUnsent(s, t)
    <2>1. KeepsUnsent(s, p)
      BY <1>2, <1>3 DEF KeepsUnsent, Unsent
    <2>2. KeepsUnsent(p, UpdateState(p, r))
      BY <1>2, <1>3, UpdateStateUnsent
    <2> QED
      BY <1>5, <1>7, <2>1, <2>2, KeepsUnsentPoints
  <1> QED
    BY <1>5, <1>7, <1>9, <1>10, <1>11 DEF d, t

-----------------------------------------------------------------------------
(* The walk over the tree and the removal of the pin.                       *)

\* What has to be unsent when the walk comes to slot n: before the pin is
\* removed nothing has been sent, and then only what the walk has passed.
Ahead(s, n) == Unsent(s, IF s.pin = 3 THEN n ELSE 0)

\* A stage of a longer handler.
Stage(s, t) ==
    /\ t \in Whole
    /\ Settled(t, NoExtra)
    /\ t.pin = s.pin
    /\ Spares(s, t, NoRule)

\* One rule of the walk.
LEMMA UpdateSlotSettled ==
    ASSUME NEW s \in Whole, Settled(s, NoExtra), NEW n \in Nat, Ahead(s, n)
    PROVE  /\ Stage(s, UpdateSlot(s, n))
           /\ Ahead(UpdateSlot(s, n), n + 1)
  <1> DEFINE r == obj_rule_pos_lookup(s, n)
             t == UpdateSlot(s, n)
  <1>1. s \in DaemonType /\ Good(s, NoExtra, NoRule) /\ s.pin \in 0..3
    BY DEF Whole, DaemonType
  <1>2. NoExtra \in [Rule -> Nat]
    BY DEF NoExtra
  <1>3. t \in Whole /\ t.pin = s.pin
    BY UpdateSlotGood DEF Onward
  <1>4. \A q \in Rule : s.rule[q].slot \in Nat
    BY <1>1, ElementsOf DEF Slot
  <1>5. CASE r = NoRule
    <2>1. t = s
      BY <1>5 DEF UpdateSlot
    <2>2. \A q \in Rule : s.rule[q].laf => s.rule[q].slot # n
      BY <1>1, <1>5, PosLookup, InTreeIsLive
    <2>3. Ahead(s, n + 1)
      BY <1>4, <2>2 DEF Ahead, Unsent
    <2> HIDE DEF t
    <2>4. Stage(s, s)
      BY SparesPoints DEF Stage
    <2> QED
      BY <2>1, <2>3, <2>4 DEF t
  <1>6. CASE r # NoRule
    <2>1. t = UpdateAndKick(s, r)
      BY <1>6 DEF UpdateSlot
    <2>2. r \in Rule /\ s.rule[r].pos /\ s.rule[r].slot = n
      BY <1>6, PosLookup
    <2> HIDE DEF r, t
    <2>3. Live(s, r)
      BY <1>1, <2>2, InTreeIsLive
    <2>4. Ready(s, s.rule[r]) \/ s.pin # 3
      BY <1>4, <2>2 DEF Ready, Ahead, Unsent
    <2>5. /\ Settled(UpdateAndKick(s, r), NoExtra)
          /\ Spares(s, UpdateAndKick(s, r), NoRule)
          /\ KeepsUnsent(UpdateState(s, r), UpdateAndKick(s, r))
      BY <1>1, <1>2, <2>2, <2>3, <2>4, UpdateAndKickSettled
    <2> DEFINE u == UpdateState(s, r)
    <2>6. Ahead(t, n + 1)
      <3>1. CASE s.pin = 3
        <4>1. Touches(s, u, r) /\ u.rule[r].slot = s.rule[r].slot
          BY <1>1, <2>2, UpdateStateTouches
        <4> HIDE DEF u
        <4>2. Unsent(s, n)
          BY <3>1 DEF Ahead
        <4>3. ASSUME NEW q \in Rule, u.rule[q].laf, u.rule[q].slot >= n + 1
              PROVE  u.rule[q].state # "QUEUED" /\ ~Leaving(u, u.rule[q].slot)
          <5>1. q # r
            BY <2>2, <4>1, <4>3
          <5>2. u.rule[q].slot >= n
            <6>1. u.rule[q].slot \in Nat
              BY <1>4, <4>1, <5>1 DEF Touches
            <6> QED
              BY <4>3, <6>1
          <5> QED
            BY <1>1, <2>2, <2>3, <4>1, <4>2, <4>3, <5>1, <5>2, TouchesOthers
        <4>4. Unsent(u, n + 1)
          BY <4>3 DEF Unsent
        <4>5. n + 1 \in Nat
          OBVIOUS
        <4>6. Unsent(t, n + 1)
          BY <2>1, <2>5, <4>4, <4>5 DEF KeepsUnsent, u
        <4> QED
          BY <1>3, <3>1, <4>6 DEF Ahead
      <3>2. CASE s.pin # 3
        <4>1. s.pin < 3
          BY <1>1, <3>2
        <4>2. KeepsUnsent(s, u)
          BY <1>1, <2>2, <2>3, <4>1, UpdateStateUnsent
        <4>3. Unsent(s, 0) /\ 0 \in Nat
          BY <3>2 DEF Ahead
        <4> HIDE DEF u
        <4>4. Unsent(t, 0)
          BY <2>1, <2>5, <4>2, <4>3 DEF KeepsUnsent, u
        <4> QED
          BY <1>3, <3>2, <4>4 DEF Ahead
      <3> QED
        BY <3>1, <3>2
    <2> QED
      BY <1>3, <2>1, <2>5, <2>6 DEF Stage, t
  <1> QED
    BY <1>5, <1>6

\* Stages follow each other.
LEMMA StagePoints ==
    /\ \A s : s \in Whole /\ Settled(s, NoExtra) => Stage(s, s)
    /\ \A s, t, u : Stage(s, t) /\ Stage(t, u) => Stage(s, u)
  BY SparesPoints DEF Stage

\* The walk.
LEMMA UpdateAllSettled ==
    ASSUME NEW s \in Whole, Settled(s, NoExtra), Unsent(s, 0)
    PROVE  /\ Stage(s, UpdateAll(s))
           /\ s.pin # 3 => Unsent(UpdateAll(s), 0)
  <1>1. PICK w : UpdatePath(s, w)
    BY UpdateAllWalks
  <1>2. Width \in Nat
    BY SlotAssumption
  <1> DEFINE In == {n \in Nat : n <= Width => Stage(s, w[n]) /\ Ahead(w[n], n)}
  <1>3. 0 \in In
    <2>1. w[0] = s
      BY <1>1 DEF UpdatePath
    <2> QED
      BY <2>1, StagePoints DEF Ahead
  <1>4. ASSUME NEW n \in Nat, n \in In PROVE n + 1 \in In
    <2>1. SUFFICES ASSUME n + 1 <= Width
                   PROVE  Stage(s, w[n + 1]) /\ Ahead(w[n + 1], n + 1)
      OBVIOUS
    <2>2. Stage(s, w[n]) /\ Ahead(w[n], n)
      <3>1. n <= Width
        BY <1>2, <2>1
      <3> QED
        BY <1>4, <3>1
    <2>3. w[n + 1] = UpdateSlot(w[n], n)
      <3>1. n + 1 \in 1..Width /\ (n + 1) - 1 = n
        BY <1>2, <2>1
      <3> QED
        BY <1>1, <3>1 DEF UpdatePath
    <2>4. w[n] \in Whole /\ Settled(w[n], NoExtra)
      BY <2>2 DEF Stage
    <2>5. Stage(w[n], UpdateSlot(w[n], n)) /\ Ahead(UpdateSlot(w[n], n), n + 1)
      BY <2>2, <2>4, UpdateSlotSettled
    <2> QED
      BY <2>2, <2>3, <2>5, StagePoints
  <1>5. Width \in In
    <2> HIDE DEF In
    <2> QED
      BY <1>2, <1>3, <1>4, SetInduction
  <1>6. Stage(s, w[Width]) /\ Ahead(w[Width], Width)
    BY <1>2, <1>5
  <1>7. UpdateAll(s) = w[Width]
    BY <1>1 DEF UpdatePath
  <1> QED
    BY <1>6, <1>7 DEF Ahead, Stage

\* A request that is about no rule changes nothing that Settled is about, and a
\* step of the pin only how it holds.
LEMMA SetPinSettled ==
    ASSUME NEW s \in Whole, Settled(s, NoExtra), Unsent(s, 0),
           NEW i \in 0..3, i = 0 => s.pin = 0
    PROVE  LET t == SetPin(s, i) IN
           t \in Whole /\ Settled(t, NoExtra) /\ Unsent(t, 0) /\ Spares(s, t, NoRule)
  <1> DEFINE t == SetPin(s, i)
  <1>1. /\ t \in Whole
        /\ t.pin = i
        /\ t.rule = s.rule /\ t.work = s.work /\ t.kern = s.kern
        /\ t.mon = s.mon /\ t.dump = s.dump /\ t.own = s.own
    BY SetPinGood
  <1> HIDE DEF t
  <1>2. MonTrue(t) /\ DumpTrue(t)
    BY <1>1 DEF Settled, MonTrue, DumpTrue, LastWord
  <1>3. OneAtATime(t)
    BY <1>1 DEF Settled, OneAtATime
  <1>4. RemovalsAwaited(t)
    BY <1>1 DEF Settled, RemovalsAwaited, LastWord
  <1>5. RequestsFit(t)
    BY <1>1 DEF Settled, RequestsFit
  <1>6. Unclaimed(t, NoExtra) /\ Unsent(t, 0)
    <2>1. \A slot : Leaving(t, slot) <=> Leaving(s, slot)
      BY <1>1 DEF Leaving
    <2> QED
      BY <1>1, <2>1 DEF Settled, Unclaimed, Unsent
  <1>7. HeldByOne(t)
    BY <1>1 DEF Settled, HeldByOne
  <1>8. Spares(s, t, NoRule)
    BY <1>1, SparesSame
  <1> QED
    BY <1>1, <1>2, <1>3, <1>4, <1>5, <1>6, <1>7, <1>8 DEF Settled, t

\* One step of the pin, and the walk after it.
LEMMA PinnedSettled ==
    ASSUME NEW s \in Whole, Settled(s, NoExtra), Unsent(s, 0),
           NEW i \in 0..3, i = 0 => s.pin = 0
    PROVE  LET t == UpdateAll(SetPin(s, i)) IN
           /\ t \in Whole /\ Settled(t, NoExtra) /\ t.pin = i
           /\ Spares(s, t, NoRule)
           /\ i # 3 => Unsent(t, 0)
  <1> DEFINE p == SetPin(s, i)
             t == UpdateAll(p)
  <1>1. p \in Whole /\ Settled(p, NoExtra) /\ Unsent(p, 0) /\ Spares(s, p, NoRule)
    BY SetPinSettled
  <1>2. p.pin = i
    BY SetPinGood
  <1> HIDE DEF p
  <1>3. Stage(p, t) /\ (p.pin # 3 => Unsent(t, 0))
    BY <1>1, UpdateAllSettled
  <1> HIDE DEF t
  <1> QED
    BY <1>1, <1>2, <1>3, SparesPoints DEF Stage, p, t

\* One route is asked for its rule.
LEMMA RouteRequestSettled ==
    ASSUME NEW s \in Whole, Settled(s, NoExtra), Unsent(s, 0),
           NEW o \in Route, NEW tcr \in Tcr \union {NoTcr}
    PROVE  /\ Stage(s, RouteRequest(s, o, tcr))
           /\ Unsent(RouteRequest(s, o, tcr), 0)
  <1> DEFINE t == RouteRequest(s, o, tcr)
             p == obj_rule_request(s, o, tcr)
             d == One(s.own[o])
  <1>1. t \in Whole /\ t.pin = s.pin
    BY RouteRequestGood DEF Onward
  <1>2. CASE ~(tcr # NoTcr /\ HasPlace(s, o, tcr))
    <2>1. t = s
      BY <1>2 DEF RouteRequest
    <2> HIDE DEF t
    <2>2. Stage(s, s)
      BY StagePoints
    <2> QED
      BY <2>1, <2>2 DEF t
  <1>3. CASE tcr # NoTcr /\ HasPlace(s, o, tcr)
    <2>1. t = p
      BY <1>3 DEF RouteRequest
    <2>2. Good(s, NoExtra, NoRule) /\ tcr \in Tcr
      BY <1>3 DEF Whole
    <2>3. Settled(p, d) /\ Spares(s, p, NoRule) /\ KeepsUnsent(s, p)
      BY <1>3, <2>2, RequestSettled
    <2> HIDE DEF p, t
    <2>4. \A q \in Rule : p.rule[q].laf => NoExtra[q] = d[q]
      <3>1. ASSUME NEW q \in Rule, p.rule[q].laf PROVE q # s.own[o]
        <4>1. s.rule[q].laf
          BY <2>3, <3>1 DEF KeepsUnsent
        <4> QED
          BY <4>1 DEF Settled, Unclaimed, Owner
      <3> QED
        BY <3>1 DEF One, NoExtra
    <2> HIDE DEF d
    <2>5. Settled(p, NoExtra)
      BY <2>3, <2>4, SettledSame
    <2>6. 0 \in Nat
      OBVIOUS
    <2>7. Unsent(p, 0)
      BY <2>3, <2>6 DEF KeepsUnsent
    <2> QED
      BY <1>1, <2>1, <2>3, <2>5, <2>7 DEF Stage, t
  <1> QED
    BY <1>2, <1>3

\* All the routes are asked.
LEMMA RoutesRequestSettled ==
    ASSUME NEW s \in Whole, Settled(s, NoExtra), Unsent(s, 0),
           NEW tcrs \in [Route -> Tcr \union {NoTcr}]
    PROVE  Stage(s, RoutesRequest(s, tcrs)) /\ Unsent(RoutesRequest(s, tcrs), 0)
  <1> DEFINE M == Cardinality(Route)
             To(n) == SetToSeq(Route)[n]
  <1>1. PICK w : RequestPath(s, tcrs, w)
    BY RoutesRequestWalks
  <1>2. M \in Nat
    BY OwnerAssumption, FS_CardinalityType
  <1>3. \A n \in 1..M : To(n) \in Route /\ tcrs[To(n)] \in Tcr \union {NoTcr}
    BY RoutesInSequence
  <1>4. /\ \A n \in 1..M : w[n] = RouteRequest(w[n - 1], To(n), tcrs[To(n)])
        /\ w[0] = s
        /\ RoutesRequest(s, tcrs) = w[M]
    BY <1>1 DEF RequestPath
  <1> HIDE DEF To, M
  <1> DEFINE In == {n \in Nat : n <= M => Stage(s, w[n]) /\ Unsent(w[n], 0)}
  <1>5. 0 \in In
    BY <1>4, StagePoints
  <1>6. ASSUME NEW n \in Nat, n \in In PROVE n + 1 \in In
    <2>1. SUFFICES ASSUME n + 1 <= M
                   PROVE  Stage(s, w[n + 1]) /\ Unsent(w[n + 1], 0)
      OBVIOUS
    <2>2. Stage(s, w[n]) /\ Unsent(w[n], 0)
      <3>1. n <= M
        BY <1>2, <2>1
      <3> QED
        BY <1>6, <3>1
    <2> DEFINE k == n + 1
    <2>3. k \in 1..M /\ k - 1 = n
      BY <1>2, <2>1
    <2> HIDE DEF k
    <2>4. w[k] = RouteRequest(w[n], To(k), tcrs[To(k)])
      BY <1>4, <2>3
    <2>5. w[n] \in Whole /\ Settled(w[n], NoExtra)
      BY <2>2 DEF Stage
    <2>6. Stage(w[n], w[k]) /\ Unsent(w[k], 0)
      BY <1>3, <2>2, <2>3, <2>4, <2>5, RouteRequestSettled
    <2>7. Stage(s, w[k])
      BY <2>2, <2>6, StagePoints
    <2> QED
      BY <2>6, <2>7 DEF k
  <1>7. M \in In
    <2> HIDE DEF In
    <2> QED
      BY <1>2, <1>5, <1>6, SetInduction
  <1>8. Stage(s, w[M]) /\ Unsent(w[M], 0)
    BY <1>2, <1>7
  <1> QED
    BY <1>4, <1>8

\* obj_rule_remove_pin.
LEMMA RemovePinSettled ==
    ASSUME NEW s \in Whole, s.pin \in {0, 3}, Settled(s, NoExtra),
           NEW tcrs \in [Route -> Tcr \union {NoTcr}]
    PROVE  LET t == obj_rule_remove_pin(s, tcrs) IN
           Settled(t, NoExtra) /\ Spares(s, t, NoRule)
  <1> DEFINE Pinned(t, i) == UpdateAll(SetPin(t, i))
             a == Pinned(s, 0)
             b == Pinned(a, 1)
             c == RoutesRequest(b, tcrs)
             d == Pinned(c, 2)
             f == Pinned(d, 3)
  <1>1. CASE s.pin = 3
    <2>1. obj_rule_remove_pin(s, tcrs) = s
      BY <1>1 DEF obj_rule_remove_pin
    <2> QED
      BY <2>1, SparesPoints
  <1>2. CASE s.pin = 0
    <2>1. obj_rule_remove_pin(s, tcrs) = f
      BY <1>2 DEF obj_rule_remove_pin, SetPin
    <2>2. Unsent(s, 0)
      <3>1. Good(s, NoExtra, NoRule)
        BY DEF Whole
      <3>2. \A r \in Rule : s.rule[r].state # "QUEUED"
        BY <1>2, <3>1 DEF Good, RulesSane, Sane
      <3>3. \A slot : ~Leaving(s, slot)
        BY <1>2 DEF Settled, RemovalsAwaited, Leaving
      <3> QED
        BY <3>2, <3>3 DEF Unsent
    <2>3. a \in Whole /\ Settled(a, NoExtra) /\ Unsent(a, 0) /\ Spares(s, a, NoRule)
      BY <1>2, <2>2, PinnedSettled
    <2> HIDE DEF a
    <2>4. b \in Whole /\ Settled(b, NoExtra) /\ Unsent(b, 0) /\ Spares(a, b, NoRule)
      BY <2>3, PinnedSettled
    <2> HIDE DEF b
    <2>5. Stage(b, c) /\ Unsent(c, 0)
      BY <2>4, RoutesRequestSettled
    <2> HIDE DEF c
    <2>6. d \in Whole /\ Settled(d, NoExtra) /\ Unsent(d, 0) /\ Spares(c, d, NoRule)
      BY <2>5, PinnedSettled DEF Stage
    <2> HIDE DEF d
    <2>7. Settled(f, NoExtra) /\ Spares(d, f, NoRule)
      BY <2>6, PinnedSettled
    <2> HIDE DEF f
    <2> QED
      BY <2>1, <2>3, <2>4, <2>5, <2>6, <2>7, SparesPoints DEF Stage
  <1> QED
    BY <1>1, <1>2

-----------------------------------------------------------------------------
(* The scan.                                                                *)

\* What a handler does to the daemon.
Settles(s, t) == Settled(t, NoExtra) /\ Spares(s, t, NoRule)

\* One handler's functions after another.
LEMMA SettlesPoints ==
    /\ \A s : Settled(s, NoExtra) => Settles(s, s)
    /\ \A s, t, u : Settles(s, t) /\ Settles(t, u) => Settles(s, u)
  BY SparesPoints DEF Settles

\* queue_process_loop at the end of a handler.
LEMMA KickSettles ==
    ASSUME NEW s \in Whole, Settled(s, NoExtra)
    PROVE  Settles(s, Kick(s))
  <1>1. Good(s, NoExtra, NoRule) /\ NoExtra \in [Rule -> Nat]
    BY DEF Whole, NoExtra
  <1> QED
    BY <1>1, KickSettled DEF Settles

\* A dump is requested.
LEMMA ScheduleSettles ==
    ASSUME NEW s \in Whole, Settled(s, NoExtra), NEW op \in {"filters", "routes"}
    PROVE  Settles(s, Schedule(s, op))
  <1> DEFINE t == Appended(s, op)
             w == Change(op, NoRule)
  <1>1. /\ t \in Whole
        /\ t.rule = s.rule /\ t.pin = s.pin /\ t.kern = s.kern
        /\ t.mon = s.mon /\ t.dump = s.dump /\ t.own = s.own
        /\ \A k \in 1..Len(t.work) : \/ k \in 1..Len(s.work) /\ t.work[k] = s.work[k]
                                     \/ t.work[k] = w
        /\ w.op = op
    BY AppendedGood
  <1>2. Schedule(s, op) = Kick(t)
    BY DEF Schedule, Appended
  <1> HIDE DEF t, w
  <1>3. MonTrue(t) /\ DumpTrue(t)
    BY <1>1 DEF Settled, MonTrue, DumpTrue, LastWord
  <1>4. OneAtATime(t)
    BY <1>1 DEF Settled, OneAtATime
  <1>5. RemovalsAwaited(t)
    BY <1>1 DEF Settled, RemovalsAwaited, LastWord
  <1>6. RequestsFit(t)
    <2>1. ASSUME NEW k \in 1..Len(t.work)
          PROVE  RequestFits(t, k)
      <3>1. CASE k \in 1..Len(s.work) /\ t.work[k] = s.work[k]
        <4>1. KeepsFit(s, t, s.work[k])
          BY <1>1 DEF SameFit, KeepsFit
        <4> QED
          BY <3>1, <4>1, FitStays
      <3>2. CASE t.work[k] = w
        <4>1. t.work[k].op # "install" /\ t.work[k].op # "uninstall"
          BY <1>1, <3>2
        <4> QED
          BY <4>1, Zenon DEF RequestFits
      <3> QED
        BY <1>1, <2>1, <3>1, <3>2
    <2> QED
      BY <2>1, AllFit
  <1>7. Unclaimed(t, NoExtra)
    <2>1. \A slot : Leaving(t, slot) <=> Leaving(s, slot)
      BY <1>1 DEF Leaving
    <2> QED
      BY <1>1, <2>1 DEF Settled, Unclaimed
  <1>8. HeldByOne(t)
    BY <1>1 DEF Settled, HeldByOne
  <1>9. Settles(s, t)
    BY <1>1, <1>3, <1>4, <1>5, <1>6, <1>7, <1>8, SparesSame DEF Settled, Settles
  <1>10. Settles(t, Kick(t))
    BY <1>1, <1>9, KickSettles DEF Settles
  <1> QED
    BY <1>2, <1>9, <1>10, SettlesPoints

\* Only what Settled does not look at has changed.
LEMMA SameSettles ==
    ASSUME NEW s, Settled(s, NoExtra), NEW t,
           t.rule = s.rule, t.work = s.work, t.pin = s.pin, t.own = s.own,
           t.kern = s.kern, t.mon = s.mon, t.dump = s.dump
    PROVE  Settles(s, t)
  <1>1. Settled(t, NoExtra)
    BY SettledSame
  <1> QED
    BY <1>1, SparesSame DEF Settles

\* advance_scan, and the queue goes on.
LEMMA AdvanceSettles ==
    ASSUME NEW s \in Whole, s.pin \in {0, 3}, Settled(s, NoExtra),
           NEW op, NEW tcrs, op = "routes" => tcrs \in [Route -> Tcr \union {NoTcr}]
    PROVE  Settles(s, Kick(advance_scan(s, op, tcrs)))
  <1> DEFINE a == advance_scan(s, op, tcrs)
  <1>1. a \in Whole /\ Settles(s, a)
    <2>1. CASE op = "filters"
      <3> DEFINE c == ChainsFound(s)
      <3>1. a = Schedule(c, "routes")
        BY <2>1 DEF advance_scan
      <3>2. c \in Whole
        BY ChainsFoundGood DEF Handled
      <3>3. /\ c.rule = s.rule /\ c.work = s.work /\ c.pin = s.pin /\ c.own = s.own
            /\ c.kern = s.kern /\ c.mon = s.mon /\ c.dump = s.dump
        BY DEF ChainsFound, Whole, DaemonType
      <3> HIDE DEF a, c
      <3>4. Settles(s, c)
        BY <3>3, SameSettles
      <3>5. Schedule(c, "routes") \in Whole /\ Settles(c, Schedule(c, "routes"))
        BY <3>2, <3>4, ScheduleGood, ScheduleSettles DEF Settles
      <3> QED
        BY <3>1, <3>4, <3>5, SettlesPoints
    <2>2. CASE op = "routes"
      <3>1. a = obj_rule_remove_pin(s, tcrs)
        BY <2>2 DEF advance_scan
      <3> HIDE DEF a
      <3> QED
        BY <2>2, <3>1, RemovePinGood, RemovePinSettled DEF Settles
    <2>3. CASE op \notin {"filters", "routes"}
      <3>1. a = s
        BY <2>3 DEF advance_scan
      <3> HIDE DEF a
      <3> QED
        BY <3>1, SettlesPoints
    <2> QED
      BY <2>1, <2>2, <2>3
  <1> HIDE DEF a
  <1>2. Settles(a, Kick(a))
    BY <1>1, KickSettles DEF Settles
  <1> QED
    BY <1>1, <1>2, SettlesPoints DEF a

\* The daemon crashes.
LEMMA FailsSettles ==
    ASSUME NEW s \in Whole, Settled(s, NoExtra), NEW why
    PROVE  Settles(s, Fails(s, why))
  <1> DEFINE t == Fails(s, why)
  <1>1. /\ t.rule = s.rule /\ t.work = s.work /\ t.pin = s.pin /\ t.own = s.own
        /\ t.kern = s.kern /\ t.mon = s.mon /\ t.dump = s.dump
    BY DEF Fails, Whole, DaemonType
  <1> HIDE DEF t
  <1>2. Settles(s, t)
    BY <1>1, SameSettles
  <1> QED
    BY <1>2 DEF t

-----------------------------------------------------------------------------
(* The routes.                                                              *)

\* A rule that serves, and that somebody has and keeps, goes on serving.
Respects(s, t) ==
    \A o \in Owner, r \in Rule, slot \in Slot, tcr \in AnyTcr :
        s.own[o] = r /\ t.own[o] = r /\ Serves(s, r, slot, tcr) => Serves(t, r, slot, tcr)

\* All rules are spared; or all but the one that its only holder lets go.
LEMMA RespectsPoints ==
    ASSUME NEW s, Settled(s, NoExtra), NEW t
    PROVE  /\ Spares(s, t, NoRule) => Respects(s, t)
           /\ \A o \in Owner, r \in Rule :
                 s.own[o] = r /\ t.own[o] # r /\ Spares(s, t, r) => Respects(s, t)
  <1>1. ASSUME Spares(s, t, NoRule) PROVE Respects(s, t)
    BY <1>1, Constants DEF Spares, Respects
  <1>2. ASSUME NEW o \in Owner, NEW r \in Rule,
               s.own[o] = r, t.own[o] # r, Spares(s, t, r)
        PROVE  Respects(s, t)
    <2>1. ASSUME NEW p \in Owner, s.own[p] = r PROVE p = o
      BY <1>2, <2>1, Constants DEF Settled, HeldByOne
    <2> QED
      BY <1>2, <2>1 DEF Spares, Respects
  <1> QED
    BY <1>1, <1>2

\* A rule that somebody has is not in the lost and found tree.
LEMMA HeldIsFound ==
    ASSUME NEW s, NEW f, Settled(s, f), NEW o \in Owner, NEW q \in Rule, s.rule[q].laf
    PROVE  q # s.own[o]
  BY DEF Settled, Unclaimed

\* A reference that nothing points from any more is dropped.
LEMMA LetGoSettled ==
    ASSUME NEW t, NEW r \in Rule, Good(t, One(r), NoRule), Settled(t, One(r))
    PROVE  LET u == Kick(Unref(t, r)) IN
           /\ Settled(u, NoExtra)
           /\ Spares(t, u, r)
           /\ u.own = t.own
  <1> DEFINE e == One(r)
             u == Unref(t, r)
  <1>1. /\ e \in [Rule -> Nat]
        /\ e[r] > 0
        /\ NoExtra \in [Rule -> Nat]
        /\ NoExtra = [e EXCEPT ![r] = @ - 1]
        /\ Good(t, e, NoRule)
        /\ Settled(t, e)
    BY OnePoints
  <1> HIDE DEF e
  <1>2. Good(u, NoExtra, NoRule) /\ Keeps(t, u)
    BY <1>1, UnrefGood
  <1>3. Settled(u, NoExtra) /\ Spares(t, u, r)
    BY <1>1, UnrefSettled
  <1> HIDE DEF u
  <1>4. Settled(Kick(u), NoExtra) /\ Spares(u, Kick(u), NoRule)
    BY <1>1, <1>2, <1>3, KickSettled
  <1>5. Keeps(u, Kick(u))
    BY <1>1, <1>2, KickGood
  <1>6. Kick(u).own = t.own
    BY <1>2, <1>5 DEF Keeps
  <1> QED
    BY <1>3, <1>4, <1>6, SparesPoints DEF u

\* Request: a first rule.
LEMMA FirstRuleSettled ==
    ASSUME NEW s \in Whole, Settled(s, NoExtra),
           NEW o \in Route, NEW tcr \in Tcr, HasPlace(s, o, tcr), s.own[o] = NoRule
    PROVE  LET t == obj_rule_request(s, o, tcr) IN
           Settled(t, NoExtra) /\ Respects(s, t)
  <1> DEFINE t == obj_rule_request(s, o, tcr)
  <1>1. Good(s, NoExtra, NoRule)
    BY DEF Whole
  <1>2. Settled(t, One(s.own[o])) /\ Spares(s, t, NoRule)
    BY <1>1, RequestSettled
  <1> HIDE DEF t
  <1>3. One(s.own[o]) = NoExtra
    BY Constants DEF One, NoExtra
  <1>4. Settled(t, NoExtra)
    BY <1>2, <1>3
  <1> QED
    BY <1>2, <1>4, RespectsPoints DEF t

\* Replace: the new rule first, then the old one is let go.
LEMMA NextRuleSettled ==
    ASSUME NEW s \in Whole, Settled(s, NoExtra),
           NEW o \in Route, NEW tcr \in Tcr, HasPlace(s, o, tcr),
           NEW r \in Rule, s.own[o] = r
    PROVE  LET t == Kick(Unref(obj_rule_request(s, o, tcr), r)) IN
           Settled(t, NoExtra) /\ Respects(s, t)
  <1> DEFINE t == obj_rule_request(s, o, tcr)
             u == Kick(Unref(t, r))
  <1>1. Good(s, NoExtra, NoRule) /\ o \in Owner
    BY DEF Whole, Owner
  <1>2. Good(t, One(r), NoRule)
    BY <1>1, RequestGood
  <1>3. /\ Settled(t, One(r))
        /\ Spares(s, t, NoRule)
        /\ Moves(s, t, o)
    BY <1>1, RequestSettled
  <1> HIDE DEF t
  <1>4. /\ Settled(u, NoExtra)
        /\ Spares(t, u, r)
        /\ u.own = t.own
    BY <1>2, <1>3, LetGoSettled
  <1> HIDE DEF u
  <1>5. Spares(s, u, r)
    BY <1>3, <1>4, SparesPoints
  <1>6. u.own[o] # r
    BY <1>3, <1>4 DEF Moves
  <1>7. Respects(s, u)
    BY <1>1, <1>5, <1>6, RespectsPoints
  <1> QED
    BY <1>4, <1>7 DEF t, u

\* A route is reaped and drops its reference.
LEMMA DropSettled ==
    ASSUME NEW s \in Whole, Settled(s, NoExtra),
           NEW o \in Owner, NEW r \in Rule, s.own[o] = r
    PROVE  LET t == Drop(s, o) IN
           /\ Settled(t, NoExtra)
           /\ Spares(s, t, r)
           /\ t.own[o] = NoRule
  <1> DEFINE t == Assign(s, o, NoRule)
             d == One(r)
             u == Kick(Unref(t, r))
  <1>1. Good(s, NoExtra, NoRule) /\ NoExtra \in [Rule -> Nat] /\ s \in DaemonType
    BY DEF Whole, NoExtra
  <1>2. Drop(s, o) = u
    BY DEF Drop, Assign
  <1>3. d \in [Rule -> Nat] /\ NoRule \in Rule \union {NoRule} /\ NoRule \notin Rule
    BY OnePoints, Constants
  <1>4. \A q \in Rule : d[q] + One(NoRule)[q] <= NoExtra[q] + One(s.own[o])[q]
    BY Constants DEF One, NoExtra
  <1>5. \A q \in Rule : s.rule[q].laf => d[q] = NoExtra[q]
    <2>1. \A q \in Rule : s.rule[q].laf => q # r
      BY HeldIsFound
    <2> QED
      BY <2>1 DEF One, NoExtra
  <1> HIDE DEF d, t, u
  <1>6. Good(Assign(s, o, NoRule), d, NoRule)
    BY <1>1, <1>3, <1>4, OwnGood
  <1>7. /\ Settled(Assign(s, o, NoRule), d)
        /\ Assign(s, o, NoRule).rule = s.rule
        /\ Assign(s, o, NoRule).kern = s.kern
        /\ Assign(s, o, NoRule).own[o] = NoRule
    BY <1>1, <1>3, <1>5, AssignSettled
  <1>8. Good(t, One(r), NoRule) /\ Settled(t, One(r))
    BY <1>6, <1>7 DEF d, t
  <1>9. t.rule = s.rule /\ t.kern = s.kern /\ t.own[o] = NoRule
    BY <1>7 DEF t
  <1>10. /\ Settled(u, NoExtra)
         /\ Spares(t, u, r)
         /\ u.own = t.own
    BY <1>8, LetGoSettled DEF u
  <1>11. Spares(s, u, r)
    BY <1>9, <1>10, SparesSame, SparesPoints
  <1> QED
    BY <1>2, <1>9, <1>10, <1>11

\* obj_route_delete.
LEMMA DeleteSettled ==
    ASSUME NEW s \in Whole, Settled(s, NoExtra),
           NEW o \in Route, NEW r \in Rule, s.own[o] = r
    PROVE  LET u == IF s.rule[r].have # NoTcr THEN Kick(Uninstall(s, r)) ELSE s
           IN  Settled(Drop(u, o), NoExtra) /\ Respects(s, Drop(u, o))
  <1> DEFINE u == IF s.rule[r].have # NoTcr THEN Kick(Uninstall(s, r)) ELSE s
             t == Drop(u, o)
  <1>1. /\ Good(s, NoExtra, NoRule)
        /\ NoExtra \in [Rule -> Nat]
        /\ o \in Owner
    BY DEF Whole, NoExtra, Owner
  <1>2. Live(s, r)
    BY <1>1, HeldIsLive
  <1>3. u \in Whole /\ u.own[o] = r /\ Settled(u, NoExtra) /\ Spares(s, u, r)
    <2>1. CASE s.rule[r].have = NoTcr
      BY <2>1, SparesPoints
    <2>2. CASE s.rule[r].have # NoTcr
      <3> DEFINE v == Uninstall(s, r)
      <3>1. Good(v, NoExtra, NoRule) /\ Keeps(s, v)
        BY <1>1, <1>2, UninstallGood
      <3>2. ~s.rule[r].laf
        BY <1>1, HeldIsFound
      <3>3. Settled(v, NoExtra) /\ Spares(s, v, r)
        BY <1>1, <1>2, <3>2, UninstallSettled
      <3>4. u = Kick(v)
        BY <2>2
      <3> HIDE DEF v, u
      <3>5. Good(Kick(v), NoExtra, NoRule) /\ Keeps(v, Kick(v))
        BY <1>1, <3>1, KickGood
      <3>6. Settled(Kick(v), NoExtra) /\ Spares(v, Kick(v), NoRule)
        BY <1>1, <3>1, <3>3, KickSettled
      <3>7. Kick(v) \in Whole /\ Kick(v).own[o] = r
        BY <3>1, <3>5 DEF Whole, Good, Keeps
      <3> QED
        BY <3>3, <3>4, <3>6, <3>7, SparesPoints
    <2> QED
      BY <2>1, <2>2
  <1> HIDE DEF u
  <1>4. /\ Settled(t, NoExtra)
        /\ Spares(u, t, r)
        /\ t.own[o] = NoRule
    BY <1>1, <1>3, DropSettled
  <1> HIDE DEF t
  <1>5. Spares(s, t, r) /\ t.own[o] # r
    BY <1>3, <1>4, SparesPoints, Constants
  <1>6. Respects(s, t)
    BY <1>1, <1>5, RespectsPoints
  <1> QED
    BY <1>4, <1>6 DEF t, u

-----------------------------------------------------------------------------
(* The handlers.                                                            *)

\* What a step may never do, see OKStays.
Undisturbed ==
    \A o \in Owner :
        LET r == own[o] IN
        /\ r # NoRule
        /\ own'[o] = r
        /\ rule[r].state = "OK"
        /\ kern[rule[r].slot] = rule[r].have
        => /\ rule'[r].state = "OK"
           /\ kern'[rule[r].slot] = rule[r].have

\* Where a handler ends.
LEMMA EndsAlone ==
    ASSUME IndInv, NEW t \in DaemonType, Becomes(t),
           Settled(t, NoExtra), Respects(Here, t)
    PROVE  AloneInv' /\ Undisturbed
  <1>1. Here' = t
    <2>1. Here' = [rule |-> t.rule, work |-> t.work, current |-> t.current, pin |-> t.pin,
                   kern |-> t.kern, mon |-> t.mon, dump |-> t.dump, chains |-> t.chains,
                   own |-> t.own, fault |-> t.fault]
      BY DEF Here, Becomes
    <2> QED
      BY <2>1 DEF DaemonType
  <1>2. AloneInv'
    <2>1. Settled(Here', NoExtra)
      BY <1>1
    <2> QED
      BY <2>1 DEF AloneInv
  <1>3. /\ Here \in DaemonType
        /\ Here.rule = rule /\ Here.kern = kern /\ Here.own = own /\ Here.pin = pin
    BY Begins
  <1>4. t.rule = rule' /\ t.kern = kern' /\ t.own = own'
    BY DEF Becomes
  <1>5. ASSUME NEW o \in Owner, NEW r, r = own[o],
               r # NoRule, own'[o] = r, rule[r].state = "OK",
               kern[rule[r].slot] = rule[r].have
        PROVE  rule'[r].state = "OK" /\ kern'[rule[r].slot] = rule[r].have
    <2>1. r \in Rule
      <3>1. Here.own \in [Owner -> Rule \union {NoRule}]
        BY <1>3 DEF DaemonType
      <3>2. own[o] \in Rule \union {NoRule}
        BY <1>3, <3>1
      <3> QED
        BY <1>5, <3>2
    <2>2. /\ rule[r].pos
          /\ rule[r].want = rule[r].have
          /\ rule[r].have # NoTcr
      <3>1. Good(Here, NoExtra, NoRule)
        BY DEF IndInv
      <3>2. Sane(rule[r], pin) /\ UpToDate(rule[r])
        BY <1>3, <2>1, <3>1, Constants DEF Good, RulesSane
      <3> QED
        BY <1>5, <3>2 DEF Sane, UpToDate
    <2> DEFINE slot == rule[r].slot
               tcr == rule[r].have
    <2>3. slot \in Slot /\ tcr \in AnyTcr
      <3>1. Here.rule[r].slot \in Slot /\ Here.rule[r].have \in MaybeTcr
        BY <1>3, <2>1, ElementsOf
      <3> QED
        BY <1>3, <2>2, <3>1 DEF MaybeTcr
    <2>4. Serves(Here, r, slot, tcr)
      BY <1>3, <1>5, <2>2 DEF Serves
    <2> HIDE DEF slot, tcr
    <2>5. Serves(t, r, slot, tcr)
      BY <1>3, <1>4, <1>5, <2>1, <2>3, <2>4 DEF Respects
    <2> QED
      BY <1>4, <2>5 DEF Serves, slot, tcr
  <1>6. Undisturbed
    BY <1>5 DEF Undisturbed
  <1> QED
    BY <1>2, <1>6

\* The same for a handler that spares every rule.
LEMMA EndsSettles ==
    ASSUME IndInv, AloneInv, NEW t \in DaemonType, Becomes(t), Settles(Here, t)
    PROVE  AloneInv' /\ Undisturbed
  <1>1. Settled(Here, NoExtra) /\ Settled(t, NoExtra)
    BY DEF AloneInv, Settles
  <1>2. Respects(Here, t)
    BY <1>1, RespectsPoints DEF Settles
  <1> QED
    BY <1>1, <1>2, EndsAlone

\* No search of the lost and found tree follows a null pointer.
LEMMA NoNull ==
    ASSUME NEW s, NEW f, Settled(s, f)
    PROVE  ~LafHasNull(s) /\ ~MayFollowNull(s)
  BY DEF Settled, Unclaimed, LafHasNull, MayFollowNull

\* monitor.c.
LEMMA ReceiveNotificationAlone ==
    ASSUME IndInv, AloneInv, ReceiveNotification
    PROVE  AloneInv' /\ Undisturbed
  <1> DEFINE h == Here
             s == [h EXCEPT !.mon = Tail(@)]
             m == Head(h.mon)
             t == obj_rule_netlink_found(s, m)
  <1>1. h \in Whole /\ h \in DaemonType /\ h.mon = mon
    BY Begins
  <1>2. mon # <<>> /\ (Becomes(t) \/ MayFollowNull(s))
    BY <1>1 DEF ReceiveNotification
  <1>3. Settled(h, NoExtra)
    BY DEF AloneInv
  <1>4. s \in Whole /\ m \in Message
    BY <1>1, <1>2, NotificationTaken
  <1>5. /\ s.rule = h.rule /\ s.work = h.work /\ s.pin = h.pin /\ s.own = h.own
        /\ s.kern = h.kern /\ s.dump = h.dump /\ s.mon = Tail(h.mon)
    BY <1>1 DEF DaemonType
  <1> HIDE DEF s, h, t
  <1>6. Settled(s, NoExtra) /\ Spares(h, s, NoRule) /\ Fits(s, m)
    BY <1>1, <1>2, <1>3, <1>5, NotifiedSettled
  <1> HIDE DEF m
  <1>7. Good(s, NoExtra, NoRule)
    BY <1>4 DEF Whole
  <1>8. Good(t, NoExtra, NoRule)
    BY <1>4, <1>7, FoundGood DEF t
  <1>9. Settled(t, NoExtra) /\ Spares(s, t, NoRule)
    BY <1>4, <1>6, <1>7, FoundSettled DEF t
  <1>10. Settles(h, t)
    BY <1>6, <1>9, SparesPoints DEF Settles
  <1>11. Becomes(t)
    BY <1>2, <1>6, NoNull
  <1>12. t \in DaemonType
    BY <1>8 DEF Good
  <1> QED
    BY <1>10, <1>11, <1>12, EndsSettles DEF h

\* nl_receive_cb, in a dump.
LEMMA ReceiveFilterAlone ==
    ASSUME IndInv, AloneInv, ReceiveFilter
    PROVE  AloneInv' /\ Undisturbed
  <1> DEFINE h == Here
             s == [h EXCEPT !.dump = Tail(@)]
             m == [op |-> "NEW", slot |-> Head(h.dump).slot, tcr |-> Head(h.dump).tcr]
             t == obj_rule_netlink_found(s, m)
  <1>1. h \in Whole /\ h \in DaemonType /\ h.dump = dump
    BY Begins
  <1>2. dump # <<>> /\ (Becomes(t) \/ MayFollowNull(s))
    BY <1>1 DEF ReceiveFilter
  <1>3. Settled(h, NoExtra)
    BY DEF AloneInv
  <1>4. s \in Whole /\ m \in Message
    BY <1>1, <1>2, FilterTaken
  <1>5. /\ s.rule = h.rule /\ s.work = h.work /\ s.pin = h.pin /\ s.own = h.own
        /\ s.kern = h.kern /\ s.mon = h.mon /\ s.dump = Tail(h.dump)
    BY <1>1 DEF DaemonType
  <1>6. m.op = "NEW" /\ m.slot = Head(h.dump).slot /\ m.tcr = Head(h.dump).tcr
    OBVIOUS
  <1> HIDE DEF s, h, t, m
  <1>7. Settled(s, NoExtra) /\ Spares(h, s, NoRule) /\ Fits(s, m)
    BY <1>1, <1>2, <1>3, <1>4, <1>5, <1>6, DumpedSettled
  <1>8. Good(s, NoExtra, NoRule)
    BY <1>4 DEF Whole
  <1>9. Good(t, NoExtra, NoRule)
    BY <1>4, <1>8, FoundGood DEF t
  <1>10. Settled(t, NoExtra) /\ Spares(s, t, NoRule)
    BY <1>4, <1>7, <1>8, FoundSettled DEF t
  <1>11. Settles(h, t)
    BY <1>7, <1>10, SparesPoints DEF Settles
  <1>12. Becomes(t)
    BY <1>2, <1>7, NoNull
  <1>13. t \in DaemonType
    BY <1>9 DEF Good
  <1> QED
    BY <1>11, <1>12, <1>13, EndsSettles DEF h

\* nl_receive_cb, the last reply.
LEMMA RequestCompletesAlone ==
    ASSUME IndInv, AloneInv, RequestCompletes
    PROVE  AloneInv' /\ Undisturbed
  <1> DEFINE s == [Here EXCEPT !.current = "none"]
  <1>1. /\ Here \in Whole /\ Here \in DaemonType
        /\ Here.dump = dump /\ Here.pin = pin
        /\ pin \in {0, 3}
    BY Begins
  <1>2. /\ dump = <<>>
        /\ \/ current # "routes" /\ Becomes(Kick(advance_scan(s, current, <<>>)))
           \/ \E tcrs \in RouteRequests(s) :
                 current = "routes" /\ Becomes(Kick(advance_scan(s, current, tcrs)))
           \/ Becomes(Fails(s, "freed node"))
    BY DEF RequestCompletes
  <1>3. /\ s \in DaemonType
        /\ s.dump = Here.dump
        /\ s.work = Here.work
        /\ s.rule = Here.rule /\ s.pin = Here.pin
        /\ s.kern = Here.kern /\ s.mon = Here.mon
        /\ s.own = Here.own /\ s.fault = Here.fault
    BY <1>1 DEF DaemonType
  <1> HIDE DEF s
  <1>4. s \in Whole
    <2>1. Good(Here, NoExtra, NoRule)
      BY <1>1 DEF Whole
    <2>2. s.dump = <<>> /\ s.fault # "pre_install"
      BY <1>1, <1>2, <1>3, <2>1 DEF Good
    <2>3. Good(s, NoExtra, NoRule)
      BY <1>3, <2>1, <2>2, SameGood
    <2> QED
      BY <1>3, <2>3 DEF Whole
  <1>5. Settles(Here, s)
    <2>1. Settled(Here, NoExtra)
      BY DEF AloneInv
    <2> QED
      BY <1>3, <2>1, SameSettles
  <1>6. Settled(s, NoExtra) /\ s.pin \in {0, 3}
    BY <1>1, <1>3, <1>5 DEF Settles
  <1>7. ASSUME NEW tcrs, current = "routes" => tcrs \in [Route -> Tcr \union {NoTcr}],
               Becomes(Kick(advance_scan(s, current, tcrs)))
        PROVE  AloneInv' /\ Undisturbed
    <2> DEFINE t == Kick(advance_scan(s, current, tcrs))
    <2>1. t \in Whole
      BY <1>4, <1>6, <1>7, AdvanceGood
    <2>2. Settles(s, t)
      BY <1>4, <1>6, <1>7, AdvanceSettles
    <2>3. Becomes(t)
      BY <1>7
    <2> HIDE DEF t
    <2>4. t \in DaemonType /\ Settles(Here, t)
      BY <1>5, <2>1, <2>2, SettlesPoints DEF Whole
    <2> QED
      BY <2>3, <2>4, EndsSettles
  <1>8. CASE current # "routes" /\ Becomes(Kick(advance_scan(s, current, <<>>)))
    BY <1>7, <1>8
  <1>9. ASSUME NEW tcrs \in RouteRequests(s),
               current = "routes", Becomes(Kick(advance_scan(s, current, tcrs)))
        PROVE  AloneInv' /\ Undisturbed
    BY <1>7, <1>9 DEF RouteRequests
  <1>10. CASE Becomes(Fails(s, "freed node"))
    <2> DEFINE t == Fails(s, "freed node")
    <2>1. Handled(s, t)
      BY <1>4, FailsGood
    <2>2. Settles(s, t)
      BY <1>4, <1>6, FailsSettles
    <2>3. Becomes(t)
      BY <1>10
    <2> HIDE DEF t
    <2>4. t \in DaemonType /\ Settles(Here, t)
      BY <1>5, <2>1, <2>2, SettlesPoints DEF Handled, Whole
    <2> QED
      BY <2>3, <2>4, EndsSettles
  <1> QED
    BY <1>2, <1>8, <1>9, <1>10

\* scan_timeout_cb.
LEMMA ScanTimerAlone ==
    ASSUME IndInv, AloneInv, ScanTimer
    PROVE  AloneInv' /\ Undisturbed
  <1> DEFINE t == Schedule(Here, "filters")
  <1>1. Here \in Whole /\ Settled(Here, NoExtra)
    BY Begins DEF AloneInv
  <1>2. Becomes(t)
    BY DEF ScanTimer
  <1>3. t \in Whole
    BY <1>1, ScheduleGood
  <1>4. Settles(Here, t)
    BY <1>1, ScheduleSettles
  <1> HIDE DEF t
  <1>5. t \in DaemonType
    BY <1>3 DEF Whole
  <1> QED
    BY <1>2, <1>4, <1>5, EndsSettles

\* What the routes do starts from the whole state.
LEMMA EndsOwner ==
    ASSUME IndInv, AloneInv, NEW t \in DaemonType, Becomes(t) \/ MayFollowNull(Here),
           Settled(t, NoExtra), Respects(Here, t)
    PROVE  AloneInv' /\ Undisturbed
  <1>1. Becomes(t)
    BY NoNull DEF AloneInv
  <1> QED
    BY <1>1, EndsAlone

\* obj_route_install, without a rule.
LEMMA RequestAlone ==
    ASSUME IndInv, AloneInv, NEW o \in Route, NEW tcr \in Wants[o], Request(o, tcr)
    PROVE  AloneInv' /\ Undisturbed
  <1> DEFINE t == obj_rule_request(Here, o, tcr)
  <1>1. Here \in Whole /\ Here.own = own /\ Settled(Here, NoExtra)
    BY Begins DEF AloneInv
  <1>2. /\ HasPlace(Here, o, tcr)
        /\ own[o] = NoRule
        /\ Becomes(t) \/ MayFollowNull(Here)
    BY DEF Request
  <1>3. tcr \in Tcr /\ Here.own[o] = NoRule
    BY <1>1, <1>2, WantedTcr
  <1>4. Handled(Here, t)
    BY <1>1, <1>2, <1>3, FirstRuleGood
  <1>5. Settled(t, NoExtra) /\ Respects(Here, t)
    BY <1>1, <1>2, <1>3, FirstRuleSettled
  <1> HIDE DEF t
  <1>6. t \in DaemonType
    BY <1>4 DEF Handled, Whole
  <1> QED
    BY <1>2, <1>5, <1>6, EndsOwner

\* obj_route_install, with a rule.
LEMMA ReplaceAlone ==
    ASSUME IndInv, AloneInv, NEW o \in Route, NEW tcr \in Wants[o], Replace(o, tcr)
    PROVE  AloneInv' /\ Undisturbed
  <1> DEFINE t == Kick(Unref(obj_rule_request(Here, o, tcr), own[o]))
  <1>1. Here \in Whole /\ Here \in DaemonType /\ Here.own = own /\ Settled(Here, NoExtra)
    BY Begins DEF AloneInv
  <1>2. /\ HasPlace(Here, o, tcr)
        /\ own[o] # NoRule
        /\ Becomes(t) \/ MayFollowNull(Here)
    BY DEF Replace
  <1>3. own[o] \in Rule /\ tcr \in Tcr
    BY <1>1, <1>2, WantedTcr DEF DaemonType, Owner
  <1>4. PICK r \in Rule : r = own[o]
    BY <1>3
  <1>5. Here.own[o] = r
    BY <1>1, <1>4
  <1>6. t = Kick(Unref(obj_rule_request(Here, o, tcr), r))
    BY <1>4
  <1> HIDE DEF t
  <1>7. Handled(Here, t)
    BY <1>1, <1>2, <1>3, <1>5, <1>6, NextRuleGood
  <1>8. Settled(t, NoExtra) /\ Respects(Here, t)
    BY <1>1, <1>2, <1>3, <1>5, <1>6, NextRuleSettled
  <1>9. t \in DaemonType
    BY <1>7 DEF Handled, Whole
  <1> QED
    BY <1>2, <1>8, <1>9, EndsOwner

\* obj_route_delete.
LEMMA RouteDeleteAlone ==
    ASSUME IndInv, AloneInv, NEW o \in Route, obj_route_delete(o)
    PROVE  AloneInv' /\ Undisturbed
  <1> DEFINE r == own[o]
             u == IF rule[r].have # NoTcr THEN Kick(Uninstall(Here, r)) ELSE Here
             t == Drop(u, o)
  <1>1. /\ Here \in Whole /\ Here \in DaemonType
        /\ Here.own = own /\ Here.rule = rule
        /\ Settled(Here, NoExtra)
    BY Begins DEF AloneInv
  <1>2. own[o] # NoRule /\ Becomes(t)
    BY DEF obj_route_delete
  <1>3. r \in Rule
    BY <1>1, <1>2 DEF DaemonType, Owner
  <1>4. u = IF Here.rule[r].have # NoTcr THEN Kick(Uninstall(Here, r)) ELSE Here
    BY <1>1
  <1>5. Here.own[o] = r
    BY <1>1
  <1> HIDE DEF r, u
  <1>6. Handled(Here, t)
    BY <1>1, <1>3, <1>4, <1>5, DeleteGood
  <1>7. Settled(t, NoExtra) /\ Respects(Here, t)
    BY <1>1, <1>3, <1>4, <1>5, DeleteSettled
  <1> HIDE DEF t
  <1>8. t \in DaemonType
    BY <1>6 DEF Handled, Whole
  <1> QED
    BY <1>2, <1>7, <1>8, EndsAlone

\* The socket overflows.
LEMMA LoseNotificationAlone ==
    ASSUME IndInv, AloneInv, LoseNotification
    PROVE  AloneInv' /\ Undisturbed
  <1> DEFINE h == Here
             t == [h EXCEPT !.mon = Tail(@)]
  <1>1. /\ h \in Whole /\ h \in DaemonType
        /\ h.rule = rule /\ h.work = work /\ h.current = current
        /\ h.pin = pin /\ h.dump = dump /\ h.chains = chains /\ h.own = own
        /\ h.fault = fault /\ h.kern = kern /\ h.mon = mon
    BY Begins
  <1>2. Outside /\ mon # <<>> /\ mon' = Tail(mon) /\ kern' = kern
    BY DEF LoseNotification
  <1>3. Settled(h, NoExtra)
    BY DEF AloneInv
  <1>4. t \in Whole
    BY <1>1, <1>2, NotificationTaken
  <1>5. /\ t.rule = h.rule /\ t.work = h.work /\ t.current = h.current
        /\ t.pin = h.pin /\ t.dump = h.dump /\ t.own = h.own /\ t.chains = h.chains
        /\ t.kern = h.kern /\ t.fault = h.fault /\ t.mon = Tail(h.mon)
    BY <1>1 DEF DaemonType
  <1> HIDE DEF t, h
  <1>6. Settled(t, NoExtra) /\ Spares(h, t, NoRule)
    BY <1>1, <1>2, <1>3, <1>5, NotifiedSettled
  <1>7. Becomes(t)
    BY <1>1, <1>2, <1>5 DEF Becomes, Outside
  <1>8. t \in DaemonType /\ Settles(h, t)
    BY <1>4, <1>6 DEF Whole, Settles
  <1> QED
    BY <1>7, <1>8, EndsSettles DEF h

-----------------------------------------------------------------------------
(* The theorems.                                                            *)

\* main has stated its static wants and sent the first dump.
LEMMA StartSettled == Init => AloneInv
  <1> SUFFICES ASSUME NEW k \in LeftBehind, Start(k) PROVE AloneInv
    BY DEF Init
  <1> DEFINE h == Here
  <1>1. /\ h.rule = [r \in Rule |-> IF r = 1 /\ WithStatic THEN StaticRule ELSE Freed]
        /\ h.work = <<>> /\ h.kern = k /\ h.mon = <<>>
        /\ h.dump = Filters(k) /\ h.own = [o \in Owner |-> NoRule]
    BY DEF Here, Start
  <1>2. k \in [Slot -> MaybeTcr]
    BY DEF LeftBehind
  <1> HIDE DEF h
  <1>3. \A r \in Rule : h.rule[r].have = NoTcr /\ ~h.rule[r].laf
    BY <1>1 DEF StaticRule, Freed
  <1>4. Len(h.mon) = 0 /\ Len(h.work) = 0
    BY <1>1
  <1>5. MonTrue(h)
    BY <1>4 DEF MonTrue
  <1>6. DumpTrue(h)
    BY <1>1, <1>2, FiltersAreTheTable DEF DumpTrue
  <1>7. OneAtATime(h)
    BY <1>3, <1>4 DEF OneAtATime
  <1>8. RemovalsAwaited(h)
    BY <1>4 DEF RemovalsAwaited
  <1>9. RequestsFit(h)
    BY <1>4, SMTT(30) DEF RequestsFit
  <1>10. Unclaimed(h, NoExtra)
    BY <1>3 DEF Unclaimed
  <1>11. HeldByOne(h)
    BY <1>1 DEF HeldByOne
  <1> QED
    BY <1>5, <1>6, <1>7, <1>8, <1>9, <1>10, <1>11 DEF Settled, AloneInv, h

\* One case for every handler; others do not act.
LEMMA NextAlone ==
    ASSUME MaxExt = 0, IndInv, AloneInv, [Next]_vars
    PROVE  AloneInv' /\ [Undisturbed]_vars
  <1>1. left.ext = 0
    <2>1. left \in Left
      BY Begins
    <2> QED
      BY <2>1 DEF Left
  <1>2. CASE ReceiveNotification
    BY <1>2, ReceiveNotificationAlone
  <1>3. CASE ReceiveFilter
    BY <1>3, ReceiveFilterAlone
  <1>4. CASE RequestCompletes
    BY <1>4, RequestCompletesAlone
  <1>5. CASE ScanTimer
    BY <1>5, ScanTimerAlone
  <1>6. ASSUME NEW o \in Route, NEW tcr \in Wants[o], Request(o, tcr)
        PROVE  AloneInv' /\ Undisturbed
    BY <1>6, RequestAlone
  <1>7. ASSUME NEW o \in Route, NEW tcr \in Wants[o], Replace(o, tcr)
        PROVE  AloneInv' /\ Undisturbed
    BY <1>7, ReplaceAlone
  <1>8. ASSUME NEW o \in Route, obj_route_delete(o)
        PROVE  AloneInv' /\ Undisturbed
    BY <1>8, RouteDeleteAlone
  <1>9. ASSUME NEW slot \in Slot
        PROVE  ~OthersDelete(slot) /\ \A tcr \in Tcr : ~OthersAdd(slot, tcr)
    BY <1>1 DEF OthersDelete, OthersAdd
  <1>10. CASE LoseNotification
    BY <1>10, LoseNotificationAlone
  <1>11. CASE UNCHANGED vars
    <2>1. AloneInv'
      BY <1>11 DEF vars, AloneInv, Here
    <2> QED
      BY <1>11, <2>1
  <1> QED
    BY <1>2, <1>3, <1>4, <1>5, <1>6, <1>7, <1>8, <1>9, <1>10, <1>11
    DEF Next, Program, Owners, Others

\* When nobody else edits the table, its slots and the notifications of them are
\* as AloneInv says.
THEOREM StaysSettled ==
    ASSUME MaxExt = 0
    PROVE  Spec => [](IndInv /\ AloneInv)
  <1>1. Init => IndInv /\ AloneInv
    BY StartGood, StartSettled
  <1>2. IndInv /\ AloneInv /\ [Next]_vars => (IndInv /\ AloneInv)'
    BY NextKeeps, NextAlone
  <1> QED
    BY <1>1, <1>2, PTL DEF Spec

\* obj_rule.c, the lost and found tree: what is in it was found in the kernel and
\* has not been removed, so no search of the tree follows the null pointer of a
\* rule without contents.
THEOREM LostAreFound ==
    ASSUME MaxExt = 0
    PROVE  Spec => []LostAndFound
  <1>1. AloneInv => LostAndFound
    BY NoNull DEF AloneInv, LostAndFound
  <1> QED
    BY <1>1, StaysSettled, PTL

\* A rule that is OK, and whose filter is in the kernel, stays so until its holder
\* lets go: none of obj_rule_netlink_found, the scan, the requests of other routes
\* and the removal of other rules disturbs it.
THEOREM TrafficStays ==
    ASSUME MaxExt = 0
    PROVE  Spec => OKStays
  <1>1. IndInv /\ AloneInv /\ [Next]_vars => [Undisturbed]_vars
    BY NextAlone
  <1>2. [][Undisturbed]_vars => OKStays
    BY PTL DEF OKStays, Undisturbed
  <1> QED
    BY <1>1, <1>2, StaysSettled, PTL DEF Spec
=============================================================================
