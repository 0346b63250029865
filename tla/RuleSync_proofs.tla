-------------------------- MODULE RuleSync_proofs --------------------------
(***************************************************************************)
(* Proofs about RuleSync, for any number of slots, rules, owners and       *)
(* events: the invariant IndInv is inductive, and the safety properties of *)
(* RuleSync that do not depend on who else edits the table follow.         *)
(***************************************************************************)
EXTENDS RuleSync, Facts, FiniteSetTheorems, TLAPS

-----------------------------------------------------------------------------
(* Constants.                                                               *)

\* There are more rules than slots, so a rule with a slot of its own can
\* always be allocated.
LEMMA Constants ==
    /\ Rule \subseteq Nat
    /\ IsFiniteSet(Rule)
    /\ NoRule \notin Rule
    /\ IsFiniteSet(Slot)
    /\ Cardinality(Slot) < Cardinality(Rule)
    /\ IsFiniteSet(Owner)
    /\ 0 \in Slot
    /\ 1 \in Rule
    /\ NoTcr \notin AnyTcr
    /\ AnyTcr \subseteq MaybeTcr
    /\ NoTcr \in MaybeTcr
    /\ Freed \in RuleRecord
  <1>1. Cardinality(Route) \in Nat
    BY OwnerAssumption, FS_CardinalityType
  <1>2. Width + Cardinality(Route) + 1 \in Nat
    BY <1>1, SlotAssumption
  <1>3. IsFiniteSet(Rule) /\ Cardinality(Rule) = Width + Cardinality(Route) + 1
    BY <1>1, <1>2, SlotAssumption, FS_Interval DEF Rule
  <1>4. IsFiniteSet(Slot) /\ Cardinality(Slot) = Width
    BY SlotAssumption, FS_Interval DEF Slot
  <1>5. IsFiniteSet(Owner)
    BY OwnerAssumption, FS_Union DEF Owner
  <1>6. Rule \subseteq Nat /\ NoRule \notin Rule /\ 1 \in Rule
    BY <1>1, SlotAssumption DEF Rule, NoRule
  <1>7. 0 \in Slot
    BY SlotAssumption DEF Slot
  <1>8. NoTcr \notin AnyTcr /\ AnyTcr \subseteq MaybeTcr /\ NoTcr \in MaybeTcr
    BY TcrAssumption DEF AnyTcr, MaybeTcr
  <1>9. Freed \in RuleRecord
    BY <1>7, <1>8 DEF Freed, RuleRecord, RuleState
  <1> QED
    BY <1>1, <1>3, <1>4, <1>5, <1>6, <1>7, <1>8, <1>9, SlotAssumption

-----------------------------------------------------------------------------
(* Changes of one rule.                                                     *)

\* Two rules that agree in every field.
LEMMA SameRecord ==
    ASSUME NEW o \in RuleRecord, NEW p \in RuleRecord,
           o.state = p.state, o.slot = p.slot, o.want = p.want, o.have = p.have,
           o.refs = p.refs, o.inst <=> p.inst, o.static <=> p.static,
           o.pos <=> p.pos, o.laf <=> p.laf
    PROVE  o = p
  BY DEF RuleRecord

\* The state after rule r has become o.
With(s, r, o) == [s EXCEPT !.rule[r] = o]

\* Nothing but the rules differs.
SameButRules(s, t) ==
    /\ t.work = s.work
    /\ t.current = s.current
    /\ t.pin = s.pin
    /\ t.kern = s.kern
    /\ t.mon = s.mon
    /\ t.dump = s.dump
    /\ t.chains = s.chains
    /\ t.own = s.own
    /\ t.fault = s.fault

\* What With does.
LEMMA WithPoints ==
    ASSUME NEW s \in DaemonType, NEW r \in Rule, NEW o \in RuleRecord
    PROVE  /\ With(s, r, o) \in DaemonType
           /\ With(s, r, o).rule[r] = o
           /\ \A q \in Rule : q # r => With(s, r, o).rule[q] = s.rule[q]
           /\ SameButRules(s, With(s, r, o))
  BY DEF With, SameButRules, DaemonType

\* The functions that change a rule, in terms of With.
LEMMA StateIs ==
    ASSUME NEW s \in DaemonType, NEW r \in Rule, NEW st \in RuleState
    PROVE  /\ [s.rule[r] EXCEPT !.state = st] \in RuleRecord
           /\ State(s, r, st) = With(s, r, [s.rule[r] EXCEPT !.state = st])
  <1>1. s.rule[r] \in RuleRecord
    BY DEF DaemonType
  <1> QED
    BY <1>1 DEF State, With, DaemonType, RuleRecord

\* The invariant after a change of one rule: what has to hold of it.
LEMMA RuleChange ==
    ASSUME NEW s, NEW e \in [Rule -> Nat], NEW x, Good(s, e, x),
           NEW r \in Rule, NEW o \in RuleRecord,
           NEW d \in [Rule -> Nat], NEW y,
           x \in {NoRule, r},
           Sane(o, s.pin),
           r # y => UpToDate(o),
           o.pos => \A q \in Rule : q # r /\ s.rule[q].pos => s.rule[q].slot # o.slot,
           o.state = "QUEUED" <=> s.rule[r].state = "QUEUED",
           o.refs >= Cardinality(HoldersOf(s, r)) + QueueHolds(o) + d[r],
           \A q \in Rule : q # r => d[q] = e[q]
    PROVE  Good(With(s, r, o), d, y)
  <1> DEFINE t == With(s, r, o)
  <1>1. s \in DaemonType
    BY DEF Good
  <1>2. /\ t \in DaemonType
        /\ t.rule[r] = o
        /\ \A q \in Rule : q # r => t.rule[q] = s.rule[q]
        /\ SameButRules(s, t)
    BY <1>1, WithPoints
  <1> HIDE DEF t
  <1>3. RulesSane(t, y)
    <2>1. NoRule \notin Rule
      BY Constants
    <2> QED
      BY <1>2, <2>1 DEF Good, RulesSane, SameButRules
  <1>4. Apart(t)
    BY <1>2 DEF Good, Apart
  <1>5. RequestsAgree(t)
    <2>1. /\ t.work = s.work /\ t.fault = s.fault
          /\ \A q \in Rule : t.rule[q].state = "QUEUED" <=> s.rule[q].state = "QUEUED"
      BY <1>2 DEF SameButRules
    <2> QED
      BY <2>1, SMTT(30) DEF Good, RequestsAgree
  <1>6. Counted(t, d)
    <2>1. \A q \in Rule : HoldersOf(t, q) = HoldersOf(s, q)
      BY <1>2 DEF SameButRules, HoldersOf
    <2>2. \A q \in Rule : q # r => /\ QueueHolds(t.rule[q]) = QueueHolds(s.rule[q])
                                   /\ t.rule[q].refs = s.rule[q].refs
      BY <1>2
    <2> QED
      BY <1>2, <2>1, <2>2 DEF Good, Counted
  <1>7. t.current # "filters" => t.dump = <<>>
    BY <1>2 DEF Good, SameButRules
  <1>8. t.fault # "pre_install"
    BY <1>2 DEF Good, SameButRules
  <1> QED
    BY <1>2, <1>3, <1>4, <1>5, <1>6, <1>7, <1>8 DEF Good, t

\* What the functions of a handler keep: the pin, the pointers, and that the
\* daemon hears of every slot it is wrong about.
Keeps(s, t) ==
    /\ t.pin = s.pin
    /\ t.own = s.own
    /\ Informed(s) => Informed(t)

\* One function of a handler after another.
LEMMA KeepsTransitive ==
    ASSUME NEW s, NEW t, NEW u, Keeps(s, t), Keeps(t, u)
    PROVE  Keeps(s, u)
  BY DEF Keeps

\* An early return.
LEMMA KeepsItself == \A s : Keeps(s, s)
  BY DEF Keeps

\* The same beliefs about the same table, and the same news to come.
LEMMA SameBeliefs ==
    ASSUME NEW s, NEW t,
           t.pin = s.pin, t.own = s.own, t.kern = s.kern, t.mon = s.mon, t.dump = s.dump,
           t.fault = "none" => s.fault = "none",
           \A slot \in Slot, tcr \in AnyTcr : HaveIn(t, slot, tcr) <=> HaveIn(s, slot, tcr)
    PROVE  Keeps(s, t)
  <1>1. MonTrue(t) <=> MonTrue(s)
    BY DEF MonTrue, LastWord
  <1>2. DumpTrue(t) <=> DumpTrue(s)
    BY DEF DumpTrue
  <1>3. \A slot \in Slot : Told(t, slot) <=> Told(s, slot)
    BY DEF Told
  <1>4. \A slot \in Slot : Agrees(t, slot) <=> Agrees(s, slot)
    BY DEF Agrees
  <1> QED
    BY <1>1, <1>2, <1>3, <1>4 DEF Keeps, Informed

\* A change of a rule that leaves alone what it has and where.
LEMMA RuleKeeps ==
    ASSUME NEW s \in DaemonType, NEW r \in Rule, NEW o \in RuleRecord,
           \/ /\ o.pos = s.rule[r].pos
              /\ o.slot = s.rule[r].slot
              /\ o.have = s.rule[r].have
           \/ o.have = NoTcr /\ s.rule[r].have = NoTcr
    PROVE  Keeps(s, With(s, r, o))
  <1> DEFINE t == With(s, r, o)
  <1>1. /\ t \in DaemonType
        /\ t.rule[r] = o
        /\ \A q \in Rule : q # r => t.rule[q] = s.rule[q]
        /\ SameButRules(s, t)
    BY WithPoints
  <1> HIDE DEF t
  <1>2. ASSUME NEW slot \in Slot, NEW tcr \in AnyTcr
        PROVE  HaveIn(t, slot, tcr) <=> HaveIn(s, slot, tcr)
    <2>1. tcr # NoTcr
      BY Constants
    <2>2. ASSUME HaveIn(t, slot, tcr) PROVE HaveIn(s, slot, tcr)
      <3>1. PICK q \in Rule : t.rule[q].pos /\ t.rule[q].slot = slot /\ t.rule[q].have = tcr
        BY <2>2 DEF HaveIn
      <3> QED
        BY <1>1, <2>1, <3>1 DEF HaveIn
    <2>3. ASSUME HaveIn(s, slot, tcr) PROVE HaveIn(t, slot, tcr)
      <3>1. PICK q \in Rule : s.rule[q].pos /\ s.rule[q].slot = slot /\ s.rule[q].have = tcr
        BY <2>3 DEF HaveIn
      <3>2. CASE q = r
        BY <1>1, <2>1, <3>1, <3>2 DEF HaveIn
      <3>3. CASE q # r
        BY <1>1, <3>1, <3>3 DEF HaveIn
      <3> QED
        BY <3>2, <3>3
    <2> QED
      BY <2>2, <2>3
  <1> QED
    BY <1>1, <1>2, SameBeliefs DEF SameButRules, t

-----------------------------------------------------------------------------
(* obj_rule_update_state.                                                   *)

\* What the kernel has of every rule is untouched.
SameHave(s, t) == \A q \in Rule : t.rule[q].have = s.rule[q].have

\* A new state other than QUEUED.
LEMMA StateGood ==
    ASSUME NEW s, NEW e \in [Rule -> Nat], NEW x, Good(s, e, x),
           NEW r \in Rule, x \in {NoRule, r},
           s.pin # 0,
           s.rule[r].state \notin {"free", "QUEUED"},
           NEW st \in {"ALIEN", "WANT", "PENDING", "OK", "ZOMBIE"},
           st = "OK" => s.rule[r].want # NoTcr /\ s.rule[r].want = s.rule[r].have
    PROVE  /\ Good(State(s, r, st), e, NoRule)
           /\ Keeps(s, State(s, r, st))
           /\ SameHave(s, State(s, r, st))
           /\ State(s, r, st).rule[r].state = st
           /\ SameButRules(s, State(s, r, st))
  <1> DEFINE o == [s.rule[r] EXCEPT !.state = st]
  <1>1. s \in DaemonType /\ s.rule[r] \in RuleRecord
    BY DEF Good, DaemonType
  <1>2. st \in RuleState
    BY DEF RuleState
  <1>3. o \in RuleRecord /\ State(s, r, st) = With(s, r, o)
    BY <1>1, <1>2, StateIs
  <1>4. /\ o.state = st
        /\ o.pos = s.rule[r].pos
        /\ o.slot = s.rule[r].slot
        /\ o.have = s.rule[r].have
        /\ o.want = s.rule[r].want
        /\ o.inst = s.rule[r].inst
        /\ o.refs = s.rule[r].refs
    BY <1>1 DEF RuleRecord
  <1> HIDE DEF o
  <1>5. Sane(s.rule[r], s.pin) /\ s.rule[r].pos
    BY DEF Good, RulesSane, Sane
  <1>6. Sane(o, s.pin) /\ UpToDate(o)
    BY <1>4, <1>5 DEF Sane, UpToDate
  <1>7. \A q \in Rule : q # r /\ s.rule[q].pos => s.rule[q].slot # o.slot
    BY <1>4, <1>5 DEF Good, Apart
  <1>8. o.refs >= Cardinality(HoldersOf(s, r)) + QueueHolds(o) + e[r]
    BY <1>4 DEF Good, Counted, QueueHolds
  <1>9. Good(With(s, r, o), e, NoRule)
    BY <1>3, <1>4, <1>6, <1>7, <1>8, RuleChange
  <1>10. Keeps(s, With(s, r, o))
    BY <1>1, <1>3, <1>4, RuleKeeps
  <1>11. /\ SameHave(s, With(s, r, o))
         /\ With(s, r, o).rule[r] = o
         /\ SameButRules(s, With(s, r, o))
    BY <1>1, <1>3, <1>4, WithPoints DEF SameHave
  <1> QED
    BY <1>3, <1>4, <1>9, <1>10, <1>11

\* A request of another rule is appended to the queue.
LEMMA QueueGood ==
    ASSUME NEW s, NEW e \in [Rule -> Nat], Good(s, e, NoRule),
           NEW r \in Rule, NEW op \in {"install", "uninstall"},
           s.pin # 0,
           s.rule[r].state \notin {"free", "QUEUED"}
    PROVE  /\ Good(Queue(s, op, r), e, NoRule)
           /\ Keeps(s, Queue(s, op, r))
           /\ SameHave(s, Queue(s, op, r))
  <1> DEFINE t == Queue(s, op, r)
             o == [s.rule[r] EXCEPT !.state = "QUEUED", !.refs = @ + 1]
             w == Change(op, r)
             n == Len(s.work)
  <1>1. s \in DaemonType /\ s.rule[r] \in RuleRecord
    BY DEF Good, DaemonType
  <1>2. /\ o \in RuleRecord
        /\ o.state = "QUEUED"
        /\ o.pos = s.rule[r].pos
        /\ o.slot = s.rule[r].slot
        /\ o.have = s.rule[r].have
        /\ o.want = s.rule[r].want
        /\ o.inst = s.rule[r].inst
        /\ o.refs = s.rule[r].refs + 1
    <2>1. /\ s.rule[r].refs \in Nat
          /\ s.rule[r].refs + 1 \in Nat
          /\ "QUEUED" \in RuleState
      BY <1>1 DEF RuleRecord, RuleState
    <2> QED
      BY <1>1, <2>1 DEF RuleRecord
  <1>3. w \in Work /\ w.rule = r
    BY DEF Change, Work
  <1>4. /\ Append(s.work, w) \in Seq(Work)
        /\ Len(Append(s.work, w)) = n + 1
        /\ \A k \in 1..n : Append(s.work, w)[k] = s.work[k]
        /\ Append(s.work, w)[n + 1] = w
        /\ n \in Nat
    <2>1. s.work \in Seq(Work)
      BY <1>1 DEF DaemonType
    <2> QED
      BY <1>3, <2>1, AppendPoints
  <1>5. /\ t.work = Append(s.work, w)
        /\ t.rule = [s.rule EXCEPT ![r] = o]
        /\ t.current = s.current
        /\ t.pin = s.pin
        /\ t.kern = s.kern
        /\ t.mon = s.mon
        /\ t.dump = s.dump
        /\ t.chains = s.chains
        /\ t.own = s.own
        /\ t.fault = s.fault
    BY <1>1, ZenonT(60) DEF Queue, Ref, DaemonType, RuleRecord
  <1>6. t \in DaemonType
    <2>1. [s.rule EXCEPT ![r] = o] \in [Rule -> RuleRecord]
      BY <1>1, <1>2 DEF DaemonType
    <2> HIDE DEF o, w
    <2> QED
      BY <1>1, <1>4, <2>1, ZenonT(60) DEF Queue, Ref, DaemonType, o, w
  <1>7. t.rule[r] = o /\ \A q \in Rule : q # r => t.rule[q] = s.rule[q]
    BY <1>1, <1>5 DEF DaemonType
  <1> HIDE DEF t, o, w, n
  <1>8. Sane(s.rule[r], s.pin) /\ s.rule[r].pos
    BY DEF Good, RulesSane, Sane
  <1>9. RulesSane(t, NoRule)
    <2>1. Sane(o, t.pin) /\ UpToDate(o)
      BY <1>2, <1>5, <1>8 DEF Sane, UpToDate
    <2> QED
      BY <1>5, <1>7, <2>1 DEF Good, RulesSane
  <1>10. Apart(t)
    BY <1>2, <1>7 DEF Good, Apart
  <1>11. RequestsAgree(t)
    <2>1. \A k \in 1..n : s.work[k].rule # r
      BY DEF Good, RequestsAgree, n
    <2>2. \A k \in 1..(n + 1) : k \in 1..n \/ k = n + 1
      BY <1>4
    <2>3. \A k \in 1..n : k \in 1..(n + 1)
      BY <1>4
    <2>4. ASSUME NEW k \in 1..Len(t.work), t.work[k].rule \in Rule
          PROVE  t.rule[t.work[k].rule].state = "QUEUED"
      BY <1>2, <1>3, <1>4, <1>5, <1>7, <2>1, <2>2, <2>4 DEF Good, RequestsAgree, n
    <2>5. ASSUME NEW j \in 1..Len(t.work), NEW k \in 1..Len(t.work),
                 t.work[j].rule \in Rule, t.work[j].rule = t.work[k].rule
          PROVE  j = k
      BY <1>3, <1>4, <1>5, <2>1, <2>2, <2>5 DEF Good, RequestsAgree, n
    <2>6. ASSUME t.fault = "none", NEW q \in Rule, t.rule[q].state = "QUEUED"
          PROVE  \E k \in 1..Len(t.work) : t.work[k].rule = q
      <3>1. CASE q = r
        <4>1. n + 1 \in 1..Len(t.work) /\ t.work[n + 1].rule = r
          BY <1>3, <1>4, <1>5
        <4> QED
          BY <3>1, <4>1
      <3>2. CASE q # r
        <4>1. PICK k \in 1..n : s.work[k].rule = q
          BY <1>5, <1>7, <2>6, <3>2 DEF Good, RequestsAgree, n
        <4> QED
          BY <1>4, <1>5, <2>3, <4>1
      <3> QED
        BY <3>1, <3>2
    <2> QED
      BY <2>4, <2>5, <2>6 DEF RequestsAgree
  <1>12. Counted(t, e)
    <2>1. \A q \in Rule : HoldersOf(t, q) = HoldersOf(s, q)
      BY <1>5 DEF HoldersOf
    <2>2. /\ QueueHolds(o) = 1 /\ QueueHolds(s.rule[r]) = 0
      BY <1>2 DEF QueueHolds
    <2>3. t.rule[r].refs >= Cardinality(HoldersOf(t, r)) + QueueHolds(t.rule[r]) + e[r]
      <3>1. /\ s.rule[r].refs >= Cardinality(HoldersOf(s, r)) + 0 + e[r]
            /\ s.rule[r].refs \in Nat
        BY <1>1, <2>2 DEF Good, Counted, RuleRecord
      <3>2. Cardinality(HoldersOf(s, r)) \in Nat
        <4>1. HoldersOf(s, r) \subseteq Owner
          BY DEF HoldersOf
        <4> QED
          BY <4>1, Constants, FS_Subset, FS_CardinalityType
      <3>3. e[r] \in Nat
        OBVIOUS
      <3> QED
        BY <1>2, <1>7, <2>1, <2>2, <3>1, <3>2, <3>3
    <2> QED
      BY <1>7, <2>1, <2>3 DEF Good, Counted
  <1>13. Good(t, e, NoRule)
    BY <1>5, <1>6, <1>9, <1>10, <1>11, <1>12 DEF Good
  <1>14. Keeps(s, t)
    <2>1. \A q \in Rule : /\ t.rule[q].pos = s.rule[q].pos
                          /\ t.rule[q].slot = s.rule[q].slot
                          /\ t.rule[q].have = s.rule[q].have
      BY <1>2, <1>7
    <2>2. \A slot \in Slot, tcr \in AnyTcr : HaveIn(t, slot, tcr) <=> HaveIn(s, slot, tcr)
      BY <2>1 DEF HaveIn
    <2> QED
      BY <1>5, <2>2, SameBeliefs
  <1>15. SameHave(s, t)
    BY <1>2, <1>7 DEF SameHave
  <1> QED
    BY <1>13, <1>14, <1>15 DEF t

\* obj_rule_update_state brings the state of a rule up to date.
LEMMA UpdateStateGood ==
    ASSUME NEW s, NEW e \in [Rule -> Nat], NEW x, Good(s, e, x),
           NEW r \in Rule, x \in {NoRule, r}, Live(s, r)
    PROVE  /\ Good(UpdateState(s, r), e, NoRule)
           /\ Keeps(s, UpdateState(s, r))
           /\ SameHave(s, UpdateState(s, r))
  <1> DEFINE t == UpdateState(s, r)
             o == s.rule[r]
  <1>1. s \in DaemonType /\ o \in RuleRecord
    BY DEF Good, DaemonType
  <1>2. Sane(o, s.pin) /\ o.state # "free"
    BY DEF Good, RulesSane, Live
  <1>3. ASSUME UpToDate(o), t = s
        PROVE  Good(t, e, NoRule) /\ Keeps(s, t) /\ SameHave(s, t)
    <2>1. RulesSane(s, NoRule)
      BY <1>3, Constants DEF Good, RulesSane
    <2>2. Good(s, e, NoRule)
      BY <2>1 DEF Good
    <2> QED
      BY <1>3, <2>2, KeepsItself DEF SameHave
  <1>4. CASE s.pin = 0 \/ o.state = "QUEUED"
    <2>1. t = s
      BY <1>4 DEF UpdateState
    <2>2. UpToDate(o)
      BY <1>2, <1>4 DEF Sane, UpToDate
    <2> QED
      BY <1>3, <2>1, <2>2
  <1>5. CASE s.pin # 0 /\ o.state # "QUEUED"
    <2>6. s.rule[r].state \notin {"free", "QUEUED"}
      BY <1>2, <1>5
    <2>7. ASSUME NEW st \in {"ALIEN", "WANT", "PENDING", "OK", "ZOMBIE"},
                 st = "OK" => s.rule[r].want # NoTcr /\ s.rule[r].want = s.rule[r].have
          PROVE  /\ Good(State(s, r, st), e, NoRule)
                 /\ Keeps(s, State(s, r, st))
                 /\ SameHave(s, State(s, r, st))
                 /\ State(s, r, st).rule[r].state = st
                 /\ SameButRules(s, State(s, r, st))
      BY <1>5, <2>6, <2>7, StateGood
    <2>1. CASE o.want = NoTcr /\ o.have = NoTcr /\ o.state = "NEW"
      <3>1. t = s
        BY <1>5, <2>1 DEF UpdateState
      <3>2. UpToDate(o)
        BY <2>1 DEF UpToDate
      <3> QED
        BY <1>3, <3>1, <3>2
    <2>2. CASE o.want = NoTcr /\ o.have = NoTcr /\ o.state # "NEW"
      <3>1. t = State(s, r, "ZOMBIE")
        BY <1>5, <2>2 DEF UpdateState
      <3> QED
        BY <3>1, <2>7
    <2>3. CASE ~(o.want = NoTcr /\ o.have = NoTcr) /\ o.want = o.have
      <3>1. t = State(s, r, "OK")
        BY <1>5, <2>3 DEF UpdateState
      <3> QED
        BY <2>3, <3>1, <2>7
    <2>4. ASSUME NEW st \in {"WANT", "ALIEN"}, NEW op \in {"install", "uninstall"},
                 \/ t = State(s, r, st)
                 \/ t = Queue(State(s, r, st), op, r)
          PROVE  Good(t, e, NoRule) /\ Keeps(s, t) /\ SameHave(s, t)
      <3> DEFINE u == State(s, r, st)
      <3>1. /\ Good(u, e, NoRule)
            /\ Keeps(s, u)
            /\ SameHave(s, u)
            /\ u.rule[r].state = st
            /\ SameButRules(s, u)
        BY <2>7
      <3> HIDE DEF u
      <3>2. u.rule[r].state = st /\ u.pin # 0
        BY <1>1, <1>5, <3>1 DEF RuleRecord, SameButRules
      <3>3. /\ Good(Queue(u, op, r), e, NoRule)
            /\ Keeps(u, Queue(u, op, r))
            /\ SameHave(u, Queue(u, op, r))
        BY <3>1, <3>2, QueueGood
      <3>4. Keeps(s, Queue(u, op, r)) /\ SameHave(s, Queue(u, op, r))
        BY <3>1, <3>3, KeepsTransitive DEF SameHave
      <3> QED
        BY <2>4, <3>1, <3>3, <3>4 DEF u
    <2>5. CASE ~(o.want = NoTcr /\ o.have = NoTcr) /\ o.want # o.have
      <3>1. \E st \in {"WANT", "ALIEN"}, op \in {"install", "uninstall"} :
               t = State(s, r, st) \/ t = Queue(State(s, r, st), op, r)
        BY <1>5, <2>5 DEF UpdateState, QueueInstall, QueueUninstall
      <3> QED
        BY <2>4, <3>1
    <2> QED
      BY <2>1, <2>2, <2>3, <2>5
  <1> QED
    BY <1>4, <1>5

\* A rule that is referred to has not been reaped.
LEMMA HeldIsLive ==
    ASSUME NEW s, NEW e \in [Rule -> Nat], NEW x, Good(s, e, x), NEW r \in Rule
    PROVE  /\ Cardinality(HoldersOf(s, r)) \in Nat
           /\ QueueHolds(s.rule[r]) \in Nat
           /\ s.rule[r].refs \in Nat
           /\ s.rule[r].refs >= Cardinality(HoldersOf(s, r)) + QueueHolds(s.rule[r]) + e[r]
           /\ e[r] > 0 => Live(s, r) /\ s.rule[r].refs > 0
           /\ \A o \in Owner : s.own[o] = r => Live(s, r) /\ s.rule[r].refs > 0
  <1>1. s.rule[r] \in RuleRecord /\ s.rule[r].refs \in Nat
    BY DEF Good, DaemonType, RuleRecord
  <1>2. IsFiniteSet(HoldersOf(s, r)) /\ Cardinality(HoldersOf(s, r)) \in Nat
    <2>1. HoldersOf(s, r) \subseteq Owner
      BY DEF HoldersOf
    <2> QED
      BY <2>1, Constants, FS_Subset, FS_CardinalityType
  <1>3. QueueHolds(s.rule[r]) \in Nat
    BY DEF QueueHolds
  <1>4. s.rule[r].refs >= Cardinality(HoldersOf(s, r)) + QueueHolds(s.rule[r]) + e[r]
    BY DEF Good, Counted
  <1>5. ASSUME s.rule[r].refs > 0 PROVE Live(s, r)
    <2>1. Sane(s.rule[r], s.pin)
      BY DEF Good, RulesSane
    <2>2. ~(Freed.refs > 0)
      BY DEF Freed
    <2> QED
      BY <1>5, <2>1, <2>2 DEF Sane, Live
  <1>6. e[r] \in Nat
    OBVIOUS
  <1>7. e[r] > 0 => Live(s, r) /\ s.rule[r].refs > 0
    BY <1>1, <1>2, <1>3, <1>4, <1>5, <1>6
  <1>8. ASSUME NEW o \in Owner, s.own[o] = r
        PROVE  Live(s, r) /\ s.rule[r].refs > 0
    <2>1. HoldersOf(s, r) # {}
      BY <1>8 DEF HoldersOf
    <2>2. Cardinality(HoldersOf(s, r)) # 0
      BY <1>2, <2>1, FS_EmptySet
    <2> QED
      BY <1>1, <1>2, <1>3, <1>4, <1>5, <1>6, <2>2
  <1> QED
    BY <1>1, <1>2, <1>3, <1>4, <1>7, <1>8

\* obj_rule_uninstall.
LEMMA UninstallGood ==
    ASSUME NEW s, NEW e \in [Rule -> Nat], NEW x, Good(s, e, x),
           NEW r \in Rule, x \in {NoRule, r}, Live(s, r)
    PROVE  /\ Good(Uninstall(s, r), e, NoRule)
           /\ Keeps(s, Uninstall(s, r))
           /\ SameHave(s, Uninstall(s, r))
  <1> DEFINE o == [s.rule[r] EXCEPT !.want = NoTcr]
             t == With(s, r, o)
  <1>1. s \in DaemonType /\ s.rule[r] \in RuleRecord
    BY DEF Good, DaemonType
  <1>2. /\ o \in RuleRecord
        /\ o.state = s.rule[r].state
        /\ o.pos = s.rule[r].pos
        /\ o.slot = s.rule[r].slot
        /\ o.have = s.rule[r].have
        /\ o.inst = s.rule[r].inst
        /\ o.refs = s.rule[r].refs
    BY <1>1, Constants DEF RuleRecord
  <1>3. Uninstall(s, r) = UpdateState(t, r)
    BY DEF Uninstall, With
  <1> HIDE DEF o
  <1>4. Sane(s.rule[r], s.pin) /\ s.rule[r].state # "free" /\ s.rule[r].pos
    BY DEF Good, RulesSane, Live, Sane
  <1>5. Sane(o, s.pin)
    BY <1>2, <1>4 DEF Sane
  <1>6. \A q \in Rule : q # r /\ s.rule[q].pos => s.rule[q].slot # o.slot
    BY <1>2, <1>4 DEF Good, Apart
  <1>7. o.refs >= Cardinality(HoldersOf(s, r)) + QueueHolds(o) + e[r]
    BY <1>2 DEF Good, Counted, QueueHolds
  <1>8. Good(t, e, r)
    BY <1>2, <1>5, <1>6, <1>7, RuleChange
  <1>9. Keeps(s, t)
    BY <1>1, <1>2, RuleKeeps
  <1>10. SameHave(s, t) /\ Live(t, r)
    BY <1>1, <1>2, <1>4, WithPoints, SMTT(30) DEF SameHave, Live
  <1> HIDE DEF t
  <1>11. /\ Good(UpdateState(t, r), e, NoRule)
         /\ Keeps(t, UpdateState(t, r))
         /\ SameHave(t, UpdateState(t, r))
    BY <1>8, <1>10, UpdateStateGood
  <1> QED
    BY <1>3, <1>9, <1>10, <1>11, KeepsTransitive DEF SameHave

\* obj_rule_unref begins by counting one of the references that a handler has
\* down.
LEMMA CountDownGood ==
    ASSUME NEW s, NEW e \in [Rule -> Nat], Good(s, e, NoRule),
           NEW r \in Rule, e[r] > 0,
           NEW d \in [Rule -> Nat], d = [e EXCEPT ![r] = @ - 1]
    PROVE  LET o == [s.rule[r] EXCEPT !.refs = @ - 1]
               t == With(s, r, o)
           IN  /\ o \in RuleRecord
               /\ Good(t, d, NoRule)
               /\ Keeps(s, t)
               /\ Live(t, r)
               /\ t.rule[r] = o
  <1> DEFINE o == [s.rule[r] EXCEPT !.refs = @ - 1]
             t == With(s, r, o)
  <1>1. s \in DaemonType /\ s.rule[r] \in RuleRecord
    BY DEF Good, DaemonType
  <1>2. /\ Cardinality(HoldersOf(s, r)) \in Nat
        /\ QueueHolds(s.rule[r]) \in Nat
        /\ s.rule[r].refs \in Nat
        /\ s.rule[r].refs >= Cardinality(HoldersOf(s, r)) + QueueHolds(s.rule[r]) + e[r]
        /\ Live(s, r)
        /\ s.rule[r].refs > 0
    BY HeldIsLive
  <1>3. /\ o \in RuleRecord
        /\ o.state = s.rule[r].state
        /\ o.pos = s.rule[r].pos
        /\ o.slot = s.rule[r].slot
        /\ o.have = s.rule[r].have
        /\ o.want = s.rule[r].want
        /\ o.inst = s.rule[r].inst
        /\ o.refs = s.rule[r].refs - 1
    <2>1. s.rule[r].refs - 1 \in Nat
      BY <1>2
    <2> QED
      BY <1>1, <2>1 DEF RuleRecord
  <1> HIDE DEF o
  <1>5. Sane(s.rule[r], s.pin) /\ s.rule[r].state # "free" /\ s.rule[r].pos
        /\ UpToDate(s.rule[r])
    BY <1>2, Constants DEF Good, RulesSane, Live, Sane
  <1>6. Sane(o, s.pin) /\ UpToDate(o)
    BY <1>3, <1>5 DEF Sane, UpToDate
  <1>7. \A q \in Rule : q # r /\ s.rule[q].pos => s.rule[q].slot # o.slot
    BY <1>3, <1>5 DEF Good, Apart
  <1>8. d[r] = e[r] - 1 /\ \A q \in Rule : q # r => d[q] = e[q]
    OBVIOUS
  <1>9. o.refs >= Cardinality(HoldersOf(s, r)) + QueueHolds(o) + d[r]
    <2>1. QueueHolds(o) = QueueHolds(s.rule[r])
      BY <1>3 DEF QueueHolds
    <2>2. e[r] \in Nat
      OBVIOUS
    <2> QED
      BY <1>2, <1>3, <1>8, <2>1, <2>2
  <1>10. Good(t, d, NoRule)
    BY <1>3, <1>6, <1>7, <1>8, <1>9, RuleChange
  <1>11. Keeps(s, t)
    BY <1>1, <1>3, RuleKeeps
  <1>12. t.rule[r] = o /\ Live(t, r)
    BY <1>1, <1>3, <1>5, WithPoints DEF Live
  <1> QED
    BY <1>3, <1>10, <1>11, <1>12 DEF o

\* Nobody refers to a rule that is reaped, and the kernel has nothing of it.
LEMMA ReapableIsFree ==
    ASSUME NEW u, NEW d \in [Rule -> Nat], Good(u, d, NoRule),
           NEW r \in Rule, Reapable(u, r)
    PROVE  /\ Cardinality(HoldersOf(u, r)) = 0
           /\ d[r] = 0
           /\ u.rule[r].have = NoTcr
           /\ u.rule[r].state # "QUEUED"
  <1>1. u.rule[r].refs = 0 /\ ~u.rule[r].inst
    BY DEF Reapable
  <1>2. /\ Cardinality(HoldersOf(u, r)) \in Nat
        /\ QueueHolds(u.rule[r]) \in Nat
        /\ u.rule[r].refs >= Cardinality(HoldersOf(u, r)) + QueueHolds(u.rule[r]) + d[r]
    BY HeldIsLive
  <1>3. d[r] \in Nat
    OBVIOUS
  <1>4. Cardinality(HoldersOf(u, r)) = 0 /\ QueueHolds(u.rule[r]) = 0 /\ d[r] = 0
    BY <1>1, <1>2, <1>3
  <1>5. u.rule[r].have = NoTcr /\ u.rule[r].state # "QUEUED"
    BY <1>1, <1>4 DEF Good, RulesSane, Sane, QueueHolds
  <1> QED
    BY <1>4, <1>5

\* obj_rule_unref lets go of one of the references that a handler has.
LEMMA UnrefGood ==
    ASSUME NEW s, NEW e \in [Rule -> Nat], Good(s, e, NoRule),
           NEW r \in Rule, e[r] > 0,
           NEW d \in [Rule -> Nat], d = [e EXCEPT ![r] = @ - 1]
    PROVE  /\ Good(Unref(s, r), d, NoRule)
           /\ Keeps(s, Unref(s, r))
  <1> DEFINE o == [s.rule[r] EXCEPT !.refs = @ - 1]
             t == With(s, r, o)
             u == IF Abandoned(t.rule[r]) THEN Uninstall(t, r) ELSE t
  <1>1. Good(t, d, NoRule) /\ Keeps(s, t) /\ Live(t, r)
    BY CountDownGood
  <1>2. Unref(s, r) = IF Reapable(u, r) THEN Reap(u, r) ELSE u
    BY DEF Unref, CountDown, With
  <1> HIDE DEF t
  <1>3. Good(u, d, NoRule) /\ Keeps(s, u)
    <2>1. /\ Good(Uninstall(t, r), d, NoRule)
          /\ Keeps(t, Uninstall(t, r))
      BY <1>1, UninstallGood
    <2> QED
      BY <1>1, <2>1, KeepsTransitive
  <1> HIDE DEF u
  <1>4. ASSUME Reapable(u, r)
         PROVE  Good(Reap(u, r), d, NoRule) /\ Keeps(s, Reap(u, r))
    <2>1. u \in DaemonType /\ u.rule[r] \in RuleRecord
      BY <1>3 DEF Good, DaemonType
    <2>5. Cardinality(HoldersOf(u, r)) = 0 /\ d[r] = 0
      BY <1>3, <1>4, ReapableIsFree
    <2>6. u.rule[r].have = NoTcr /\ u.rule[r].state # "QUEUED"
      BY <1>3, <1>4, ReapableIsFree
    <2>7. /\ Freed \in RuleRecord
          /\ Freed.state = "free"
          /\ ~Freed.pos
          /\ ~Freed.inst
          /\ Freed.have = NoTcr
          /\ Freed.refs = 0
      BY Constants DEF Freed
    <2>8. Sane(Freed, u.pin) /\ UpToDate(Freed)
      BY <2>7 DEF Sane, UpToDate
    <2>9. Freed.refs >= Cardinality(HoldersOf(u, r)) + QueueHolds(Freed) + d[r]
      BY <2>5, <2>7 DEF QueueHolds
    <2>10. Reap(u, r) = With(u, r, Freed)
      BY DEF Reap, With
    <2>11. Good(With(u, r, Freed), d, NoRule)
      BY <1>3, <2>6, <2>7, <2>8, <2>9, RuleChange
    <2>12. Keeps(u, With(u, r, Freed))
      BY <2>1, <2>6, <2>7, RuleKeeps
    <2> QED
      BY <1>3, <2>10, <2>11, <2>12, KeepsTransitive
  <1> QED
    BY <1>2, <1>3, <1>4

-----------------------------------------------------------------------------
(* The kernel's table and the notification socket.                          *)

\* The rules, the queue and the pointers are as they were.
LEMMA SameGood ==
    ASSUME NEW s, NEW t, NEW e, NEW x, Good(s, e, x),
           t \in DaemonType,
           t.rule = s.rule, t.work = s.work, t.pin = s.pin, t.own = s.own,
           t.fault = "none" => s.fault = "none",
           t.fault # "pre_install",
           t.current # "filters" => t.dump = <<>>
    PROVE  Good(t, e, x)
  <1>1. RulesSane(t, x)
    BY DEF Good, RulesSane
  <1>2. Apart(t)
    BY DEF Good, Apart
  <1>3. RequestsAgree(t)
    BY DEF Good, RequestsAgree
  <1>4. Counted(t, e)
    <2>1. \A r \in Rule : HoldersOf(t, r) = HoldersOf(s, r)
      BY DEF HoldersOf
    <2> QED
      BY <2>1 DEF Good, Counted
  <1> QED
    BY <1>1, <1>2, <1>3, <1>4 DEF Good

\* A change of the table is announced.
Announces(s, t, m) ==
    /\ t.kern = [s.kern EXCEPT ![m.slot] = Effect(m)]
    /\ t.mon = Append(s.mon, m)

\* The last word is true.
LEMMA AnnouncedPoints ==
    ASSUME NEW s \in DaemonType, NEW t, NEW m \in Message, Announces(s, t, m)
    PROVE  LET n == Len(s.mon) IN
           /\ t.kern[m.slot] = Effect(m)
           /\ \A slot \in Slot : slot # m.slot => t.kern[slot] = s.kern[slot]
           /\ n \in Nat
           /\ Len(t.mon) = n + 1
           /\ t.mon[n + 1] = m
           /\ \A k \in 1..n : t.mon[k] = s.mon[k] /\ s.mon[k].slot \in Slot
           /\ \A k \in 1..(n + 1) : k \in 1..n \/ k = n + 1
           /\ \A k \in 1..n : k \in 1..(n + 1) /\ n + 1 > k
           /\ n + 1 \in 1..(n + 1)
           /\ MonTrue(s) => MonTrue(t)
  <1> DEFINE n == Len(s.mon)
  <1>1. /\ m.slot \in Slot
        /\ s.kern \in [Slot -> MaybeTcr]
        /\ s.mon \in Seq(Message)
        /\ t.mon = Append(s.mon, m)
    BY DEF Message, DaemonType, Announces
  <1>2. /\ t.kern[m.slot] = Effect(m)
        /\ \A slot \in Slot : slot # m.slot => t.kern[slot] = s.kern[slot]
    BY <1>1 DEF Announces
  <1>3. /\ Len(t.mon) = n + 1
        /\ \A k \in 1..n : t.mon[k] = s.mon[k]
        /\ t.mon[n + 1] = m
        /\ n \in Nat
    BY <1>1, AppendPoints
  <1>4. \A k \in 1..n : s.mon[k] \in Message /\ s.mon[k].slot \in Slot
    <2>1. \A k \in 1..n : s.mon[k] \in Message
      BY <1>1
    <2> QED
      BY <2>1 DEF Message
  <1> HIDE DEF n
  <1>5. /\ \A k \in 1..(n + 1) : k \in 1..n \/ k = n + 1
        /\ \A k \in 1..n : k \in 1..(n + 1) /\ n + 1 > k
        /\ n + 1 \in 1..(n + 1)
    BY <1>3
  <1>6. ASSUME MonTrue(s) PROVE MonTrue(t)
    <2>1. SUFFICES ASSUME NEW k \in 1..(n + 1), LastWord(t, k)
                   PROVE  t.kern[t.mon[k].slot] = Effect(t.mon[k])
      BY <1>3 DEF MonTrue
    <2>2. CASE k \in 1..n
      <3>1. s.mon[k].slot # m.slot
        BY <1>3, <1>5, <2>1, <2>2 DEF LastWord
      <3>2. LastWord(s, k)
        BY <1>3, <1>5, <2>1, <2>2 DEF LastWord, n
      <3>3. s.kern[s.mon[k].slot] = Effect(s.mon[k])
        BY <1>6, <2>2, <3>2 DEF MonTrue, n
      <3> QED
        BY <1>2, <1>3, <1>4, <2>2, <3>1, <3>3
    <2>3. CASE k = n + 1
      BY <1>2, <1>3, <2>3
    <2> QED
      BY <1>5, <2>2, <2>3
  <1> QED
    BY <1>2, <1>3, <1>4, <1>5, <1>6 DEF n

\* The daemon will hear of the slot.
LEMMA AnnouncedKeeps ==
    ASSUME NEW s \in DaemonType, NEW t, NEW m \in Message,
           s.dump = <<>>,
           t.rule = s.rule, t.pin = s.pin, t.own = s.own, t.dump = s.dump,
           t.fault = s.fault,
           Announces(s, t, m)
    PROVE  Keeps(s, t)
  <1> DEFINE n == Len(s.mon)
  <1>1. /\ t.kern[m.slot] = Effect(m)
        /\ \A slot \in Slot : slot # m.slot => t.kern[slot] = s.kern[slot]
        /\ n \in Nat
        /\ Len(t.mon) = n + 1
        /\ t.mon[n + 1] = m
        /\ \A k \in 1..n : t.mon[k] = s.mon[k] /\ s.mon[k].slot \in Slot
        /\ \A k \in 1..(n + 1) : k \in 1..n \/ k = n + 1
        /\ \A k \in 1..n : k \in 1..(n + 1) /\ n + 1 > k
        /\ n + 1 \in 1..(n + 1)
        /\ MonTrue(s) => MonTrue(t)
    BY AnnouncedPoints
  <1> HIDE DEF n
  <1>2. DumpTrue(t)
    <2>1. ~ \E k \in 1..Len(t.dump) : TRUE
      OBVIOUS
    <2> QED
      BY <2>1 DEF DumpTrue
  <1>3. ASSUME NEW slot \in Slot, Told(s, slot) \/ Agrees(s, slot)
        PROVE  Told(t, slot) \/ Agrees(t, slot)
    <2>1. CASE slot = m.slot
      BY <1>1, <2>1 DEF Told
    <2>2. CASE slot # m.slot
      <3>1. Told(s, slot) => Told(t, slot)
        BY <1>1 DEF Told, n
      <3>2. \A tcr \in AnyTcr : HaveIn(t, slot, tcr) <=> HaveIn(s, slot, tcr)
        BY DEF HaveIn
      <3>3. Agrees(s, slot) => Agrees(t, slot)
        BY <1>1, <2>2, <3>2 DEF Agrees
      <3> QED
        BY <1>3, <3>1, <3>3
    <2> QED
      BY <2>1, <2>2
  <1> QED
    BY <1>1, <1>2, <1>3 DEF Keeps, Informed

\* RTM_NEWTFILTER.
LEMMA KernelGetsKeeps ==
    ASSUME NEW s \in DaemonType, NEW slot \in Slot, NEW tcr \in AnyTcr
    PROVE  LET t == KernelGets(s, slot, tcr) IN
           /\ s.dump = <<>> => Keeps(s, t)
           /\ t \in DaemonType
           /\ t.rule = s.rule
           /\ t.work = s.work
           /\ t.current = s.current
           /\ t.pin = s.pin
           /\ t.own = s.own
           /\ t.dump = s.dump
           /\ t.chains = s.chains
           /\ t.fault = s.fault
  <1> DEFINE t == KernelGets(s, slot, tcr)
             m == [op |-> "NEW", slot |-> slot, tcr |-> tcr]
  <1>1. CASE s.kern[slot] # NoTcr
    BY <1>1, KeepsItself DEF KernelGets
  <1>2. CASE s.kern[slot] = NoTcr
    <2>1. m \in Message /\ m.slot = slot /\ Effect(m) = tcr /\ tcr \in MaybeTcr
      BY Constants DEF Message, Effect
    <2>2. Append(s.mon, m) \in Seq(Message)
      BY <2>1, AppendPoints DEF DaemonType
    <2> DEFINE table == [s.kern EXCEPT ![slot] = tcr]
               news  == Append(s.mon, m)
    <2>3. /\ t = [s EXCEPT !.kern = table, !.mon = news]
          /\ table \in [Slot -> MaybeTcr]
          /\ news \in Seq(Message)
      BY <1>2, <2>1, <2>2 DEF KernelGets, DaemonType
    <2> HIDE DEF m, table, news
    <2>4. /\ t \in DaemonType
          /\ t.rule = s.rule
          /\ t.work = s.work
          /\ t.current = s.current
          /\ t.pin = s.pin
          /\ t.own = s.own
          /\ t.dump = s.dump
          /\ t.chains = s.chains
          /\ t.fault = s.fault
          /\ t.kern = table
          /\ t.mon = news
      BY <2>3 DEF DaemonType
    <2> HIDE DEF t
    <2>5. s.dump = <<>> => Keeps(s, t)
      BY <2>1, <2>4, AnnouncedKeeps DEF table, news, Announces
    <2> QED
      BY <2>4, <2>5 DEF t
  <1> QED
    BY <1>1, <1>2

\* Whatever is read back is contents of a rule.
LEMMA DecodedType == ASSUME NEW tcr \in AnyTcr PROVE Decoded[tcr] \in AnyTcr
  BY DecodedAssumption DEF AnyTcr

\* The filter made from tcr.
LEMMA KernelAddsKeeps ==
    ASSUME NEW s \in DaemonType, NEW slot \in Slot, NEW tcr \in AnyTcr
    PROVE  LET t == KernelAdds(s, slot, tcr) IN
           /\ s.dump = <<>> => Keeps(s, t)
           /\ t \in DaemonType
           /\ t.rule = s.rule
           /\ t.work = s.work
           /\ t.current = s.current
           /\ t.pin = s.pin
           /\ t.own = s.own
           /\ t.dump = s.dump
           /\ t.chains = s.chains
           /\ t.fault = s.fault
  <1> DEFINE back == Decoded[tcr]
  <1>1. back \in AnyTcr
    BY DecodedType
  <1>2. KernelAdds(s, slot, tcr) = KernelGets(s, slot, back)
    BY DEF KernelAdds
  <1> HIDE DEF back
  <1> QED
    BY <1>1, <1>2, KernelGetsKeeps

\* RTM_DELTFILTER.
LEMMA KernelDelsKeeps ==
    ASSUME NEW s \in DaemonType, NEW slot \in Slot
    PROVE  LET t == KernelDels(s, slot) IN
           /\ s.dump = <<>> => Keeps(s, t)
           /\ t \in DaemonType
           /\ t.rule = s.rule
           /\ t.work = s.work
           /\ t.current = s.current
           /\ t.pin = s.pin
           /\ t.own = s.own
           /\ t.dump = s.dump
           /\ t.chains = s.chains
           /\ t.fault = s.fault
  <1> DEFINE t == KernelDels(s, slot)
             m == [op |-> "DEL", slot |-> slot, tcr |-> s.kern[slot]]
  <1>1. CASE s.kern[slot] = NoTcr
    BY <1>1, KeepsItself DEF KernelDels
  <1>2. CASE s.kern[slot] # NoTcr
    <2>1. m \in Message /\ m.slot = slot /\ Effect(m) = NoTcr /\ NoTcr \in MaybeTcr
      BY <1>2, Constants DEF Message, Effect, DaemonType, MaybeTcr
    <2>2. Append(s.mon, m) \in Seq(Message)
      BY <2>1, AppendPoints DEF DaemonType
    <2> DEFINE table == [s.kern EXCEPT ![slot] = NoTcr]
               news  == Append(s.mon, m)
    <2>3. /\ t = [s EXCEPT !.kern = table, !.mon = news]
          /\ table \in [Slot -> MaybeTcr]
          /\ news \in Seq(Message)
      BY <1>2, <2>1, <2>2 DEF KernelDels, DaemonType
    <2> HIDE DEF m, table, news
    <2>4. /\ t \in DaemonType
          /\ t.rule = s.rule
          /\ t.work = s.work
          /\ t.current = s.current
          /\ t.pin = s.pin
          /\ t.own = s.own
          /\ t.dump = s.dump
          /\ t.chains = s.chains
          /\ t.fault = s.fault
          /\ t.kern = table
          /\ t.mon = news
      BY <2>3 DEF DaemonType
    <2> HIDE DEF t
    <2>5. s.dump = <<>> => Keeps(s, t)
      BY <2>1, <2>4, AnnouncedKeeps DEF table, news, Announces
    <2> QED
      BY <2>4, <2>5 DEF t
  <1> QED
    BY <1>1, <1>2

-----------------------------------------------------------------------------
(* The dump of the kernel's table.                                          *)

\* What a dump has of a filter.
Filter == [slot : Slot, tcr : AnyTcr]

\* A dump has every filter there is and no other.
LEMMA FiltersAreTheTable ==
    ASSUME NEW k \in [Slot -> MaybeTcr]
    PROVE  /\ Filters(k) \in Seq(Filter)
           /\ \A i \in 1..Len(Filters(k)) : k[Filters(k)[i].slot] = Filters(k)[i].tcr
           /\ \A slot \in Slot : k[slot] # NoTcr
                                 => \E i \in 1..Len(Filters(k)) : Filters(k)[i].slot = slot
  <1> DEFINE Entry(n) == [slot |-> n - 1, tcr |-> k[n - 1]]
             Body(f) == [n \in 0..Width |->
                            IF n = 0 THEN <<>>
                            ELSE IF k[n - 1] = NoTcr THEN f[n - 1]
                            ELSE Append(f[n - 1], [slot |-> n - 1, tcr |-> k[n - 1]])]
             upTo == CHOOSE f : f = Body(f)
             F == [p \in (1..Width) \X Seq(Filter) |->
                      IF k[p[1] - 1] = NoTcr THEN p[2] ELSE Append(p[2], Entry(p[1]))]
  <1>1. Filters(k) = upTo[Width]
    BY DEF Filters
  <1>2. Width \in Nat /\ 0 \in 0..Width /\ Width \in 0..Width
    BY SlotAssumption
  <1>3. ASSUME NEW n \in 1..Width, k[n - 1] # NoTcr
        PROVE  Entry(n) \in Filter
    <2>1. n - 1 \in Slot
      BY SlotAssumption DEF Slot
    <2>2. k[n - 1] \in AnyTcr
      BY <1>3, <2>1 DEF MaybeTcr
    <2> QED
      BY <2>1, <2>2 DEF Filter
  <1> HIDE DEF Entry
  <1>4. Steps(F, Seq(Filter), Width)
    <2>1. SUFFICES ASSUME NEW n \in 1..Width, NEW f \in Seq(Filter)
                   PROVE  F[<<n, f>>] \in Seq(Filter)
      BY DEF Steps
    <2>2. F[<<n, f>>] = IF k[n - 1] = NoTcr THEN f ELSE Append(f, Entry(n))
      OBVIOUS
    <2>3. k[n - 1] # NoTcr => Append(f, Entry(n)) \in Seq(Filter)
      BY <1>3, AppendPoints
    <2> HIDE DEF F
    <2> QED
      BY <2>2, <2>3
  <1>5. PICK g : Walk(g, F, Seq(Filter), <<>>, Width)
    <2>1. <<>> \in Seq(Filter)
      OBVIOUS
    <2> HIDE DEF F
    <2> QED
      BY <1>2, <1>4, <2>1, Iteration
  <1>6. \A n \in 1..Width : n - 1 \in 0..Width /\ n # 0
    BY <1>2
  <1>7. \A n \in 1..Width : g[n] = IF k[n - 1] = NoTcr THEN g[n - 1]
                                   ELSE Append(g[n - 1], Entry(n))
    <2>1. \A n \in 1..Width : g[n - 1] \in Seq(Filter)
      BY <1>5, <1>6 DEF Walk
    <2> QED
      BY <1>5, <2>1 DEF Walk
  <1> HIDE DEF F
  <1>8. g = Body(g)
    <2>1. \A n \in 0..Width : g[n] = IF n = 0 THEN <<>>
                                     ELSE IF k[n - 1] = NoTcr THEN g[n - 1]
                                     ELSE Append(g[n - 1], [slot |-> n - 1, tcr |-> k[n - 1]])
      <3> TAKE n \in 0..Width
      <3>1. CASE n = 0
        BY <1>5, <3>1 DEF Walk
      <3>2. CASE n # 0
        <4>1. n \in 1..Width
          BY <1>2, <3>2
        <4>2. g[n] = IF k[n - 1] = NoTcr THEN g[n - 1] ELSE Append(g[n - 1], Entry(n))
          BY <1>7, <4>1
        <4> QED
          BY <3>2, <4>2 DEF Entry
      <3> QED
        BY <3>1, <3>2
    <2> QED
      BY <1>5, <2>1 DEF Walk
  <1>9. upTo = Body(upTo)
    <2>1. \E f : f = Body(f)
      BY <1>8
    <2> HIDE DEF Body
    <2> QED
      BY <2>1
  <1> HIDE DEF upTo
  <1>10. /\ upTo[0] = <<>>
         /\ \A n \in 1..Width : upTo[n] = IF k[n - 1] = NoTcr THEN upTo[n - 1]
                                          ELSE Append(upTo[n - 1], Entry(n))
    <2>1. \A n \in 0..Width :
              upTo[n] = IF n = 0 THEN <<>>
                        ELSE IF k[n - 1] = NoTcr THEN upTo[n - 1]
                        ELSE Append(upTo[n - 1], [slot |-> n - 1, tcr |-> k[n - 1]])
      BY <1>9
    <2>2. \A n \in 1..Width : n \in 0..Width /\ n # 0
      BY <1>2
    <2>3. upTo[0] = <<>>
      BY <1>2, <2>1
    <2> QED
      BY <2>1, <2>2, <2>3 DEF Entry
  <1> DEFINE Sound(f) == \A i \in 1..Len(f) : k[f[i].slot] = f[i].tcr
             Full(f, n) == \A slot \in Slot : slot < n /\ k[slot] # NoTcr
                                              => \E i \in 1..Len(f) : f[i].slot = slot
             Right(n) == upTo[n] \in Seq(Filter) /\ Sound(upTo[n]) /\ Full(upTo[n], n)
             Done == {n \in Nat : n <= Width => Right(n)}
  <1>11. 0 \in Done
    <2>1. <<>> \in Seq(Filter) /\ Len(<<>>) = 0
      OBVIOUS
    <2>2. \A slot \in Slot : ~(slot < 0)
      BY SlotAssumption DEF Slot
    <2>3. upTo[0] = <<>>
      BY <1>10
    <2>4. Sound(<<>>)
      BY <2>1
    <2>5. Full(<<>>, 0)
      BY <2>2
    <2> HIDE DEF Sound, Full
    <2> QED
      BY <2>1, <2>3, <2>4, <2>5
  <1>12. ASSUME NEW n \in Nat, n \in Done PROVE n + 1 \in Done
    <2>1. SUFFICES ASSUME n + 1 <= Width PROVE Right(n + 1)
      OBVIOUS
    <2> DEFINE f == upTo[n]
    <2>2. Right(n) /\ n + 1 \in 1..Width
      BY <1>2, <1>12, <2>1
    <2>3. upTo[n + 1] = IF k[n] = NoTcr THEN f ELSE Append(f, Entry(n + 1))
      <3>1. (n + 1) - 1 = n
        OBVIOUS
      <3> QED
        BY <1>10, <2>2, <3>1
    <2>4. \A slot \in Slot : slot < n + 1 => slot < n \/ slot = n
      BY SlotAssumption DEF Slot
    <2>5. CASE k[n] = NoTcr
      BY <2>2, <2>3, <2>4, <2>5
    <2>6. CASE k[n] # NoTcr
      <3> DEFINE h == Append(f, Entry(n + 1))
      <3>1. Entry(n + 1) \in Filter
        BY <1>3, <2>2, <2>6
      <3>2. /\ h \in Seq(Filter)
            /\ Len(h) = Len(f) + 1
            /\ \A i \in 1..Len(f) : h[i] = f[i]
            /\ h[Len(f) + 1] = Entry(n + 1)
            /\ Len(f) \in Nat
        BY <2>2, <3>1, AppendPoints
      <3>3. Entry(n + 1).slot = n /\ Entry(n + 1).tcr = k[n]
        BY DEF Entry
      <3> HIDE DEF h
      <3>4. \A i \in 1..Len(h) : i \in 1..Len(f) \/ i = Len(f) + 1
        BY <3>2
      <3>5. /\ \A i \in 1..Len(f) : i \in 1..Len(h)
            /\ Len(f) + 1 \in 1..Len(h)
        BY <3>2
      <3>6. Sound(h)
        BY <2>2, <3>2, <3>3, <3>4
      <3>7. Full(h, n + 1)
        <4>1. SUFFICES ASSUME NEW slot \in Slot, slot < n + 1, k[slot] # NoTcr
                       PROVE  \E i \in 1..Len(h) : h[i].slot = slot
          OBVIOUS
        <4>2. CASE slot = n
          BY <3>2, <3>3, <3>5, <4>2
        <4>3. CASE slot < n
          <5>1. PICK i \in 1..Len(f) : f[i].slot = slot
            BY <2>2, <4>1, <4>3
          <5> QED
            BY <3>2, <3>5, <5>1
        <4> QED
          BY <2>4, <4>1, <4>2, <4>3
      <3> QED
        BY <2>3, <2>6, <3>2, <3>6, <3>7 DEF h
    <2> QED
      BY <2>5, <2>6
  <1>13. Width \in Done
    <2> HIDE DEF Done
    <2> QED
      BY <1>2, <1>11, <1>12, SetInduction
  <1>14. Right(Width)
    BY <1>2, <1>13
  <1>15. \A slot \in Slot : slot < Width
    BY SlotAssumption DEF Slot
  <1> QED
    BY <1>1, <1>14, <1>15

-----------------------------------------------------------------------------
(* queue_process_loop.                                                      *)

\* The oldest request has been taken off the queue.
LEMMA PopPoints ==
    ASSUME NEW s \in DaemonType, s.work # <<>>
    PROVE  /\ Tail(s.work) \in Seq(Work)
           /\ Len(s.work) \in Nat \ {0}
           /\ Len(Tail(s.work)) = Len(s.work) - 1
           /\ \A k \in 1..Len(Tail(s.work)) : /\ Tail(s.work)[k] = s.work[k + 1]
                                              /\ k + 1 \in 1..Len(s.work)
                                              /\ k + 1 # 1
           /\ \A k \in 1..Len(s.work) : (k = 1 \/ k - 1 \in 1..Len(Tail(s.work))) /\ (k - 1) + 1 = k
           /\ 1 \in 1..Len(s.work)
           /\ Head(s.work) = s.work[1]
           /\ Head(s.work) \in Work
  <1>1. s.work \in Seq(Work)
    BY DEF DaemonType
  <1>2. /\ Tail(s.work) \in Seq(Work)
        /\ Len(s.work) \in Nat \ {0}
        /\ Len(Tail(s.work)) = Len(s.work) - 1
        /\ \A k \in 1..Len(Tail(s.work)) : Tail(s.work)[k] = s.work[k + 1]
        /\ Head(s.work) = s.work[1]
        /\ Head(s.work) \in Work
    BY <1>1, TailPoints
  <1>3. /\ \A k \in 1..(Len(s.work) - 1) : k + 1 \in 1..Len(s.work) /\ k + 1 # 1
        /\ \A k \in 1..Len(s.work) : (k = 1 \/ k - 1 \in 1..(Len(s.work) - 1)) /\ (k - 1) + 1 = k
        /\ 1 \in 1..Len(s.work)
    BY <1>2
  <1> QED
    BY <1>2, <1>3

\* A request that is not about a rule goes on its way, or the daemon stops.
LEMMA PopGood ==
    ASSUME NEW s, NEW e, Good(s, e, NoRule),
           s.work # <<>>,
           NEW t \in DaemonType,
           t.rule = s.rule, t.pin = s.pin, t.own = s.own,
           t.work = Tail(s.work),
           Head(s.work).rule \notin Rule \/ t.fault # "none",
           t.fault = "none" => s.fault = "none",
           t.fault # "pre_install",
           t.current # "filters" => t.dump = <<>>
    PROVE  Good(t, e, NoRule)
  <1>1. RulesSane(t, NoRule)
    BY DEF Good, RulesSane
  <1>2. Apart(t)
    BY DEF Good, Apart
  <1>3. RequestsAgree(t)
    <2>1. s \in DaemonType
      BY DEF Good
    <2>2. ASSUME NEW k \in 1..Len(t.work), t.work[k].rule \in Rule
          PROVE  t.rule[t.work[k].rule].state = "QUEUED"
      BY <2>1, <2>2, PopPoints DEF Good, RequestsAgree
    <2>3. ASSUME NEW j \in 1..Len(t.work), NEW k \in 1..Len(t.work),
                 t.work[j].rule \in Rule, t.work[j].rule = t.work[k].rule
          PROVE  j = k
      <3>1. j + 1 = k + 1
        BY <2>1, <2>3, PopPoints DEF Good, RequestsAgree
      <3> QED
        BY <3>1
    <2>4. ASSUME t.fault = "none", NEW q \in Rule, t.rule[q].state = "QUEUED"
          PROVE  \E k \in 1..Len(t.work) : t.work[k].rule = q
      <3>1. PICK k \in 1..Len(s.work) : s.work[k].rule = q
        BY <2>4 DEF Good, RequestsAgree
      <3>2. k # 1
        BY <2>1, <2>4, <3>1, PopPoints
      <3>3. k - 1 \in 1..Len(t.work) /\ t.work[k - 1].rule = q
        BY <2>1, <3>1, <3>2, PopPoints
      <3> QED
        BY <3>3
    <2> QED
      BY <2>2, <2>3, <2>4 DEF RequestsAgree
  <1>4. Counted(t, e)
    <2>1. \A r \in Rule : HoldersOf(t, r) = HoldersOf(s, r)
      BY DEF HoldersOf
    <2> QED
      BY <2>1 DEF Good, Counted
  <1> QED
    BY <1>1, <1>2, <1>3, <1>4 DEF Good

\* obj_rule_pre_install: the reference of the queue passes to the action.
LEMMA PreInstallGood ==
    ASSUME NEW s, NEW e \in [Rule -> Nat], Good(s, e, NoRule),
           s.work # <<>>,
           NEW r \in Rule, Head(s.work).rule = r,
           NEW t \in DaemonType,
           t.pin = s.pin, t.own = s.own, t.work = Tail(s.work), t.fault = s.fault,
           t.current # "filters" => t.dump = <<>>,
           t.rule[r].state = "PENDING",
           t.rule[r].slot = s.rule[r].slot,
           t.rule[r].pos = s.rule[r].pos,
           t.rule[r].have = s.rule[r].have,
           t.rule[r].inst = s.rule[r].inst,
           t.rule[r].refs = s.rule[r].refs,
           \A q \in Rule : q # r => t.rule[q] = s.rule[q],
           NEW d \in [Rule -> Nat], d = [e EXCEPT ![r] = @ + 1]
    PROVE  Good(t, d, NoRule)
  <1>1. s \in DaemonType
    BY DEF Good
  <1>2. s.rule[r].state = "QUEUED"
    BY <1>1, PopPoints DEF Good, RequestsAgree
  <1>3. RulesSane(t, NoRule)
    <2>1. Sane(s.rule[r], s.pin)
      BY DEF Good, RulesSane
    <2>2. Sane(t.rule[r], t.pin) /\ UpToDate(t.rule[r])
      BY <1>2, <2>1 DEF Sane, UpToDate
    <2> QED
      BY <2>2 DEF Good, RulesSane
  <1>4. Apart(t)
    BY DEF Good, Apart
  <1>5. RequestsAgree(t)
    <2>1. \A k \in 1..Len(t.work) : t.work[k].rule # r
      BY <1>1, PopPoints DEF Good, RequestsAgree
    <2>2. ASSUME NEW k \in 1..Len(t.work), t.work[k].rule \in Rule
          PROVE  t.rule[t.work[k].rule].state = "QUEUED"
      BY <1>1, <2>1, <2>2, PopPoints, SMTT(30) DEF Good, RequestsAgree
    <2>3. ASSUME NEW j \in 1..Len(t.work), NEW k \in 1..Len(t.work),
                 t.work[j].rule \in Rule, t.work[j].rule = t.work[k].rule
          PROVE  j = k
      <3>1. j + 1 = k + 1
        BY <1>1, <2>3, PopPoints DEF Good, RequestsAgree
      <3> QED
        BY <3>1
    <2>4. ASSUME t.fault = "none", NEW q \in Rule, t.rule[q].state = "QUEUED"
          PROVE  \E k \in 1..Len(t.work) : t.work[k].rule = q
      <3>1. q # r
        BY <2>4
      <3>2. PICK k \in 1..Len(s.work) : s.work[k].rule = q
        BY <2>4, <3>1 DEF Good, RequestsAgree
      <3>3. k # 1
        BY <1>1, <3>1, <3>2, PopPoints
      <3>4. k - 1 \in 1..Len(t.work) /\ t.work[k - 1].rule = q
        BY <1>1, <3>2, <3>3, PopPoints
      <3> QED
        BY <3>4
    <2> QED
      BY <2>2, <2>3, <2>4 DEF RequestsAgree
  <1>6. Counted(t, d)
    <2>1. \A q \in Rule : HoldersOf(t, q) = HoldersOf(s, q)
      BY DEF HoldersOf
    <2>2. d[r] = e[r] + 1 /\ \A q \in Rule : q # r => d[q] = e[q]
      OBVIOUS
    <2>3. QueueHolds(s.rule[r]) = 1 /\ QueueHolds(t.rule[r]) = 0
      BY <1>2 DEF QueueHolds
    <2>4. t.rule[r].refs >= Cardinality(HoldersOf(t, r)) + QueueHolds(t.rule[r]) + d[r]
      <3>1. /\ Cardinality(HoldersOf(s, r)) \in Nat
            /\ s.rule[r].refs \in Nat
            /\ s.rule[r].refs >= Cardinality(HoldersOf(s, r)) + 1 + e[r]
        BY <2>3, HeldIsLive
      <3>2. e[r] \in Nat
        OBVIOUS
      <3> QED
        BY <2>1, <2>2, <2>3, <3>1, <3>2
    <2> QED
      BY <2>1, <2>2, <2>4 DEF Good, Counted
  <1> QED
    BY <1>3, <1>4, <1>5, <1>6 DEF Good

\* The rules and their places are as they were, and so is the table; the dump
\* is one of it.
LEMMA DumpKeeps ==
    ASSUME NEW s \in DaemonType, NEW t,
           s.dump = <<>>,
           t.rule = s.rule, t.pin = s.pin, t.own = s.own, t.kern = s.kern,
           t.mon = s.mon, t.fault = s.fault,
           t.dump = Filters(s.kern)
    PROVE  Keeps(s, t)
  <1>1. s.kern \in [Slot -> MaybeTcr]
    BY DEF DaemonType
  <1>2. DumpTrue(t)
    BY <1>1, FiltersAreTheTable DEF DumpTrue
  <1>3. MonTrue(s) => MonTrue(t)
    BY DEF MonTrue, LastWord
  <1>4. ~ \E k \in 1..Len(s.dump) : TRUE
    OBVIOUS
  <1>5. ASSUME NEW slot \in Slot, Told(s, slot) \/ Agrees(s, slot)
        PROVE  Told(t, slot) \/ Agrees(t, slot)
    <2>1. Told(s, slot) => Told(t, slot)
      BY <1>4 DEF Told
    <2>2. Agrees(s, slot) => Agrees(t, slot)
      BY DEF Agrees, HaveIn
    <2> QED
      BY <1>5, <2>1, <2>2
  <1> QED
    BY <1>2, <1>3, <1>5 DEF Keeps, Informed

\* tc_action_execute: the rule is PENDING, the request goes to the kernel, and
\* the reference of the action is given back.
LEMMA ExecuteGood ==
    ASSUME NEW s, NEW e \in [Rule -> Nat], Good(s, e, NoRule),
           s.current = "none", s.work # <<>>,
           NEW r \in Rule, Head(s.work).rule = r,
           NEW op \in {"install", "uninstall"},
           NEW b \in DaemonType,
           b.rule = s.rule, b.work = Tail(s.work), b.current = op, b.pin = s.pin,
           b.kern = s.kern, b.mon = s.mon, b.dump = s.dump, b.own = s.own,
           b.fault = s.fault
    PROVE  /\ Good(tc_action_execute(b, op, r), e, NoRule)
           /\ Keeps(s, tc_action_execute(b, op, r))
  <1> DEFINE t == tc_action_execute(b, op, r)
             p == State(b, r, "PENDING")
             slot == b.rule[r].slot
             d == [e EXCEPT ![r] = @ + 1]
  <1>1. s \in DaemonType /\ s.rule[r] \in RuleRecord
    BY DEF Good, DaemonType
  <1>2. b.rule[r].state = "QUEUED" /\ slot \in Slot
    BY <1>1, PopPoints DEF Good, RequestsAgree, RuleRecord
  <1>3. b.dump = <<>>
    BY DEF Good
  <1>4. d \in [Rule -> Nat] /\ d[r] > 0 /\ e = [d EXCEPT ![r] = @ - 1]
    <2>1. e[r] \in Nat /\ e[r] + 1 \in Nat /\ e[r] + 1 > 0 /\ (e[r] + 1) - 1 = e[r]
      OBVIOUS
    <2> QED
      BY <2>1
  <1>5. /\ p \in DaemonType
        /\ p.rule[r].state = "PENDING"
        /\ p.rule[r].slot = s.rule[r].slot
        /\ p.rule[r].pos = s.rule[r].pos
        /\ p.rule[r].have = s.rule[r].have
        /\ p.rule[r].inst = s.rule[r].inst
        /\ p.rule[r].refs = s.rule[r].refs
        /\ \A q \in Rule : q # r => p.rule[q] = s.rule[q]
        /\ SameButRules(b, p)
    <2>1. "PENDING" \in RuleState
      BY DEF RuleState
    <2> DEFINE o == [b.rule[r] EXCEPT !.state = "PENDING"]
    <2>2. o \in RuleRecord /\ p = With(b, r, o)
      BY <2>1, StateIs
    <2>3. /\ o.state = "PENDING"
          /\ o.slot = s.rule[r].slot
          /\ o.pos = s.rule[r].pos
          /\ o.have = s.rule[r].have
          /\ o.inst = s.rule[r].inst
          /\ o.refs = s.rule[r].refs
      BY <1>1 DEF RuleRecord
    <2> HIDE DEF o
    <2>4. /\ With(b, r, o) \in DaemonType
          /\ With(b, r, o).rule[r] = o
          /\ \A q \in Rule : q # r => With(b, r, o).rule[q] = b.rule[q]
          /\ SameButRules(b, With(b, r, o))
      BY <2>2, WithPoints
    <2> QED
      BY <2>2, <2>3, <2>4
  <1> HIDE DEF p, d
  <1>6. Good(p, d, NoRule)
    <2>1. p.current # "filters" => p.dump = <<>>
      BY <1>3, <1>5 DEF SameButRules
    <2>2. p.pin = s.pin /\ p.own = s.own /\ p.work = Tail(s.work) /\ p.fault = s.fault
      BY <1>5 DEF SameButRules
    <2> QED
      BY <1>4, <1>5, <2>1, <2>2, PreInstallGood DEF d
  <1>7. Keeps(s, p)
    <2>1. \A q \in Rule : /\ p.rule[q].pos = s.rule[q].pos
                          /\ p.rule[q].slot = s.rule[q].slot
                          /\ p.rule[q].have = s.rule[q].have
      BY <1>5
    <2>2. \A c \in Slot, tcr \in AnyTcr : HaveIn(p, c, tcr) <=> HaveIn(s, c, tcr)
      BY <2>1 DEF HaveIn
    <2>3. /\ p.pin = s.pin /\ p.own = s.own /\ p.kern = s.kern
          /\ p.mon = s.mon /\ p.dump = s.dump /\ p.fault = s.fault
      BY <1>5 DEF SameButRules
    <2> QED
      BY <2>2, <2>3, SameBeliefs
  <1>8. ASSUME NEW k \in DaemonType, Keeps(p, k),
               k.rule = p.rule, k.work = p.work, k.current = p.current,
               k.dump = p.dump, k.fault = p.fault
        PROVE  Good(Unref(k, r), e, NoRule) /\ Keeps(s, Unref(k, r))
    <2>1. k.pin = p.pin /\ k.own = p.own
      BY <1>8 DEF Keeps
    <2>2. Good(k, d, NoRule)
      <3>1. k.fault # "pre_install" /\ (k.current # "filters" => k.dump = <<>>)
        BY <1>6, <1>8 DEF Good
      <3> QED
        BY <1>6, <1>8, <2>1, <3>1, SameGood
    <2>3. Good(Unref(k, r), e, NoRule) /\ Keeps(k, Unref(k, r))
      BY <1>4, <2>2, UnrefGood
    <2> QED
      BY <1>7, <1>8, <2>3, KeepsTransitive
  <1>9. p.dump = <<>>
    BY <1>3, <1>5 DEF SameButRules
  <1>10. CASE op = "uninstall"
    <2>1. t = Unref(KernelDels(p, slot), r)
      BY <1>2, <1>10 DEF tc_action_execute, p
    <2>2. /\ Keeps(p, KernelDels(p, slot))
          /\ KernelDels(p, slot) \in DaemonType
          /\ KernelDels(p, slot).rule = p.rule
          /\ KernelDels(p, slot).work = p.work
          /\ KernelDels(p, slot).current = p.current
          /\ KernelDels(p, slot).dump = p.dump
          /\ KernelDels(p, slot).fault = p.fault
      BY <1>2, <1>5, <1>9, KernelDelsKeeps
    <2> QED
      BY <1>8, <2>1, <2>2
  <1>11. CASE op = "install" /\ s.rule[r].want # NoTcr
    <2> DEFINE want == b.rule[r].want
    <2>1. t = Unref(KernelAdds(p, slot, want), r)
      BY <1>2, <1>11 DEF tc_action_execute, p
    <2>2. want \in AnyTcr
      BY <1>1, <1>11 DEF RuleRecord, MaybeTcr
    <2> HIDE DEF want
    <2>3. /\ Keeps(p, KernelAdds(p, slot, want))
          /\ KernelAdds(p, slot, want) \in DaemonType
          /\ KernelAdds(p, slot, want).rule = p.rule
          /\ KernelAdds(p, slot, want).work = p.work
          /\ KernelAdds(p, slot, want).current = p.current
          /\ KernelAdds(p, slot, want).dump = p.dump
          /\ KernelAdds(p, slot, want).fault = p.fault
      BY <1>2, <1>5, <1>9, <2>2, KernelAddsKeeps
    <2> QED
      BY <1>8, <2>1, <2>3
  <1>12. CASE op = "install" /\ s.rule[r].want = NoTcr
    <2>1. t = [b EXCEPT !.fault = "freed want"]
      BY <1>2, <1>12 DEF tc_action_execute, Fails
    <2>2. /\ t \in DaemonType
          /\ t.rule = s.rule
          /\ t.work = Tail(s.work)
          /\ t.pin = s.pin
          /\ t.own = s.own
          /\ t.dump = s.dump
          /\ t.fault = "freed want"
      BY <2>1 DEF DaemonType
    <2> HIDE DEF t
    <2>3. Good(t, e, NoRule)
      BY <1>3, <2>2, PopGood
    <2>4. Keeps(s, t)
      BY <2>2 DEF Keeps, Informed
    <2> QED
      BY <2>3, <2>4 DEF t
  <1> QED
    BY <1>10, <1>11, <1>12

\* queue_process_loop.
LEMMA KickGood ==
    ASSUME NEW s, NEW e \in [Rule -> Nat], Good(s, e, NoRule)
    PROVE  Good(Kick(s), e, NoRule) /\ Keeps(s, Kick(s))
  <1> DEFINE w == Head(s.work)
             b == [s EXCEPT !.work = Tail(@), !.current = w.op]
  <1>1. CASE s.current # "none" \/ s.work = <<>>
    BY <1>1, KeepsItself DEF Kick
  <1>2. CASE s.current = "none" /\ s.work # <<>>
    <2>1. s \in DaemonType /\ s.dump = <<>>
      BY <1>2 DEF Good
    <2>2. w \in Work /\ Tail(s.work) \in Seq(Work)
      BY <1>2, <2>1, PopPoints
    <2>3. /\ w.op \in {"install", "uninstall", "filters", "routes"}
          /\ w.op \in {"install", "uninstall"} => w.rule \in Rule
          /\ w.op \in {"filters", "routes"} => w.rule = NoRule
      BY <2>2 DEF Work
    <2> DEFINE rest == Tail(s.work)
               op == w.op
    <2>4. b = [s EXCEPT !.work = rest, !.current = op]
      OBVIOUS
    <2>5. rest \in Seq(Work) /\ op \in {"none", "install", "uninstall", "filters", "routes"}
      BY <2>2, <2>3
    <2> HIDE DEF b
    <2>6. Kick(s) = CASE op = "filters" -> [b EXCEPT !.dump = Filters(b.kern)]
                      [] op \in {"install", "uninstall"} -> tc_action_execute(b, op, w.rule)
                      [] OTHER -> b
      BY <1>2 DEF Kick, b
    <2> HIDE DEF rest, op, w
    <2>7. /\ b \in DaemonType
          /\ b.rule = s.rule
          /\ b.work = rest
          /\ b.current = op
          /\ b.pin = s.pin
          /\ b.kern = s.kern
          /\ b.mon = s.mon
          /\ b.dump = s.dump
          /\ b.own = s.own
          /\ b.fault = s.fault
      BY <2>1, <2>4, <2>5 DEF DaemonType
    <2>8. s.fault # "pre_install"
      BY DEF Good
    <2>9. CASE op \in {"install", "uninstall"}
      <3>1. Kick(s) = tc_action_execute(b, op, w.rule)
        BY <2>6, <2>9
      <3>2. w.rule \in Rule
        BY <2>3, <2>9 DEF op
      <3>3. /\ Good(tc_action_execute(b, op, w.rule), e, NoRule)
            /\ Keeps(s, tc_action_execute(b, op, w.rule))
        BY <1>2, <2>7, <2>9, <3>2, ExecuteGood DEF w, rest
      <3> QED
        BY <3>1, <3>3
    <2>10. CASE op = "routes"
      <3>1. Kick(s) = b
        BY <2>6, <2>10
      <3>2. w.rule \notin Rule
        BY <2>3, <2>10, Constants DEF op
      <3>3. Good(b, e, NoRule)
        BY <1>2, <2>1, <2>7, <2>8, <3>2, PopGood DEF w, rest
      <3>4. Keeps(s, b)
        <4>1. \A slot \in Slot, tcr \in AnyTcr : HaveIn(b, slot, tcr) <=> HaveIn(s, slot, tcr)
          BY <2>7 DEF HaveIn
        <4> QED
          BY <2>7, <4>1, SameBeliefs
      <3> QED
        BY <3>1, <3>3, <3>4
    <2>11. CASE op = "filters"
      <3> DEFINE t == [b EXCEPT !.dump = Filters(b.kern)]
      <3>1. Kick(s) = t
        BY <2>6, <2>11
      <3>2. Filters(b.kern) \in Seq([slot : Slot, tcr : AnyTcr])
        BY <2>7, FiltersAreTheTable DEF DaemonType, Filter
      <3>3. /\ t \in DaemonType
            /\ t.rule = s.rule
            /\ t.work = rest
            /\ t.current = "filters"
            /\ t.pin = s.pin
            /\ t.kern = s.kern
            /\ t.mon = s.mon
            /\ t.dump = Filters(s.kern)
            /\ t.own = s.own
            /\ t.fault = s.fault
        BY <2>7, <2>11, <3>2 DEF DaemonType
      <3> HIDE DEF t
      <3>4. w.rule \notin Rule
        BY <2>3, <2>11, Constants DEF op
      <3>5. Good(t, e, NoRule)
        BY <1>2, <2>8, <3>3, <3>4, PopGood DEF w, rest
      <3>6. Keeps(s, t)
        BY <2>1, <3>3, DumpKeeps
      <3> QED
        BY <3>1, <3>5, <3>6
    <2>12. op \in {"install", "uninstall"} \/ op = "routes" \/ op = "filters"
      BY <2>3 DEF op
    <2> QED
      BY <2>9, <2>10, <2>11, <2>12
  <1> QED
    BY <1>1, <1>2

\* obj_rule_update_state with the request it makes.
LEMMA UpdateAndKickGood ==
    ASSUME NEW s, NEW e \in [Rule -> Nat], NEW x, Good(s, e, x),
           NEW r \in Rule, x \in {NoRule, r}, Live(s, r)
    PROVE  /\ Good(UpdateAndKick(s, r), e, NoRule)
           /\ Keeps(s, UpdateAndKick(s, r))
  <1>1. Good(UpdateState(s, r), e, NoRule) /\ Keeps(s, UpdateState(s, r))
    BY UpdateStateGood
  <1>2. /\ Good(Kick(UpdateState(s, r)), e, NoRule)
        /\ Keeps(UpdateState(s, r), Kick(UpdateState(s, r)))
    BY <1>1, KickGood
  <1> QED
    BY <1>1, <1>2, KeepsTransitive DEF UpdateAndKick

-----------------------------------------------------------------------------
(* The positional tree.                                                     *)

\* There is always a rule to allocate, because rules have slots of their own.
LEMMA CanAllocate ==
    ASSUME NEW s, NEW e, NEW x, Good(s, e, x)
    PROVE  /\ Unallocated(s) \in Rule
           /\ s.rule[Unallocated(s)] = Freed
  <1> DEFINE Free == {r \in Rule : ~Live(s, r)}
             f == [r \in Rule |-> s.rule[r].slot]
  <1>1. s \in DaemonType
    BY DEF Good
  <1>2. Free # {}
    <2>1. SUFFICES ASSUME \A r \in Rule : Live(s, r) PROVE FALSE
      OBVIOUS
    <2>2. f \in [Rule -> Slot]
      BY <1>1 DEF DaemonType, RuleRecord
    <2>3. PICK q \in Rule, r \in Rule : q # r /\ f[q] = f[r]
      <3> HIDE DEF f
      <3> QED
        BY <2>2, Constants, FS_PigeonHole
    <2>4. s.rule[q].pos /\ s.rule[r].pos
      BY <2>1 DEF Good, RulesSane, Sane, Live
    <2> QED
      BY <2>3, <2>4 DEF Good, Apart
  <1>3. PICK m \in Free : \A r \in Free : m <= r
    <2>1. Free \in SUBSET Nat
      BY Constants
    <2> HIDE DEF Free
    <2> QED
      BY <1>2, <2>1, LeastNumber
  <1>4. m \in Rule /\ ~Live(s, m) /\ \A q \in Rule : q < m => Live(s, q)
    <2>1. Free \subseteq Nat
      BY Constants
    <2>2. \A q \in Free : ~(q < m)
      BY <1>3, <2>1
    <2> QED
      BY <2>2
  <1>5. Unallocated(s) \in Rule /\ ~Live(s, Unallocated(s))
    <2> DEFINE P(r) == ~Live(s, r) /\ \A q \in Rule : q < r => Live(s, q)
    <2>1. \E r \in Rule : P(r)
      BY <1>4
    <2>2. Unallocated(s) = CHOOSE r \in Rule : P(r)
      BY DEF Unallocated
    <2> HIDE DEF P
    <2>3. Unallocated(s) \in Rule /\ P(Unallocated(s))
      BY <2>1, <2>2
    <2> QED
      BY <2>3 DEF P
  <1> QED
    BY <1>5 DEF Good, RulesSane, Sane, Live

\* What a search of the positional tree finds.
LEMMA PosLookup ==
    ASSUME NEW s, NEW slot
    PROVE  LET r == obj_rule_pos_lookup(s, slot) IN
           /\ r = NoRule => \A q \in Rule : ~(s.rule[q].pos /\ s.rule[q].slot = slot)
           /\ r # NoRule => r \in Rule /\ s.rule[r].pos /\ s.rule[r].slot = slot
  <1>1. NoRule \notin InPos(s, slot)
    BY Constants DEF InPos
  <1>2. CASE InPos(s, slot) = {}
    BY <1>2 DEF obj_rule_pos_lookup, OneOf, InPos
  <1>3. CASE InPos(s, slot) # {}
    <2>1. obj_rule_pos_lookup(s, slot) \in InPos(s, slot)
      BY <1>3 DEF obj_rule_pos_lookup, OneOf
    <2> QED
      BY <1>1, <2>1 DEF InPos
  <1> QED
    BY <1>2, <1>3

\* A rule in a tree is one that is there.
LEMMA InTreeIsLive ==
    ASSUME NEW s, NEW e, NEW x, Good(s, e, x), NEW r \in Rule,
           s.rule[r].pos \/ s.rule[r].laf
    PROVE  Live(s, r) /\ s.rule[r].pos
  <1>1. Sane(s.rule[r], s.pin)
    BY DEF Good, RulesSane
  <1>2. ~Freed.pos /\ ~Freed.laf
    BY DEF Freed
  <1> QED
    BY <1>1, <1>2 DEF Sane, Live

\* A rule that is in the lost and found tree is in the positional tree as well:
\* the search of the former finds nothing the search of the latter does not.
LEMMA SubjectIs ==
    ASSUME NEW s, NEW e, NEW x, Good(s, e, x), NEW m
    PROVE  Subject(s, m) = obj_rule_pos_lookup(s, m.slot)
  <1> DEFINE f == obj_rule_laf_lookup(s, m.tcr)
  <1>1. ASSUME obj_rule_pos_lookup(s, m.slot) = NoRule, f # NoRule, s.rule[f].slot = m.slot
        PROVE  FALSE
    <2>1. f \in InLaf(s, m.tcr)
      BY <1>1 DEF obj_rule_laf_lookup, OneOf
    <2>2. f \in Rule /\ s.rule[f].laf
      BY <2>1 DEF InLaf
    <2>3. s.rule[f].pos
      BY <2>2, InTreeIsLive
    <2> QED
      BY <1>1, <2>2, <2>3, PosLookup
  <1> QED
    BY <1>1 DEF Subject

\* What the daemon believes of a slot is what the rule there has.
LEMMA HaveAt ==
    ASSUME NEW s, NEW e, NEW x, Good(s, e, x), NEW slot
    PROVE  /\ \A r \in Rule : s.rule[r].pos /\ s.rule[r].slot = slot
                 => \A tcr : HaveIn(s, slot, tcr) <=> s.rule[r].have = tcr
           /\ (\A r \in Rule : ~(s.rule[r].pos /\ s.rule[r].slot = slot))
                 => \A tcr : ~HaveIn(s, slot, tcr)
  <1>1. Apart(s)
    BY DEF Good
  <1> QED
    BY <1>1 DEF Apart, HaveIn

-----------------------------------------------------------------------------
(* obj_rule_netlink_found.                                                  *)

\* The daemon has received m: unless there is more to come about its slot, m
\* is what the table has there.
InformedBut(s, m) ==
    s.fault = "none" =>
        /\ MonTrue(s)
        /\ DumpTrue(s)
        /\ \A slot \in Slot : slot # m.slot => Told(s, slot) \/ Agrees(s, slot)
        /\ Told(s, m.slot) \/ s.kern[m.slot] = Effect(m)

\* What handling m keeps.
Hears(s, m, t) ==
    /\ t.pin = s.pin
    /\ t.own = s.own
    /\ InformedBut(s, m) => Informed(t)

\* A handler of a message goes on with functions that keep what was heard.
LEMMA HearsThenKeeps ==
    ASSUME NEW s, NEW m, NEW t, NEW u, Hears(s, m, t), Keeps(t, u)
    PROVE  Hears(s, m, u)
  BY DEF Hears, Keeps

\* When the rule in the slot has what m says, the daemon has heard m.
LEMMA HearsRule ==
    ASSUME NEW s, NEW t, NEW m \in Message,
           t.pin = s.pin, t.own = s.own, t.kern = s.kern, t.mon = s.mon, t.dump = s.dump,
           t.fault = s.fault,
           \A slot \in Slot, tcr \in AnyTcr :
               slot # m.slot => (HaveIn(t, slot, tcr) <=> HaveIn(s, slot, tcr)),
           \A tcr \in AnyTcr : HaveIn(t, m.slot, tcr) <=> Effect(m) = tcr
    PROVE  Hears(s, m, t)
  <1>1. MonTrue(t) <=> MonTrue(s)
    BY DEF MonTrue, LastWord
  <1>2. DumpTrue(t) <=> DumpTrue(s)
    BY DEF DumpTrue
  <1>3. \A slot \in Slot : Told(t, slot) <=> Told(s, slot)
    BY DEF Told
  <1>4. \A slot \in Slot : slot # m.slot /\ Agrees(s, slot) => Agrees(t, slot)
    BY DEF Agrees
  <1>5. s.kern[m.slot] = Effect(m) => Agrees(t, m.slot)
    BY DEF Agrees
  <1>6. m.slot \in Slot
    BY DEF Message
  <1> QED
    BY <1>1, <1>2, <1>3, <1>4, <1>5, <1>6 DEF Hears, InformedBut, Informed

\* The change of a rule that does it.
LEMMA HearsWith ==
    ASSUME NEW s, NEW e, NEW x, Good(s, e, x),
           NEW r \in Rule, NEW o \in RuleRecord, NEW m \in Message,
           NEW d, NEW y, Good(With(s, r, o), d, y),
           o.pos, o.slot = m.slot, o.have = Effect(m),
           s.rule[r].slot = m.slot \/ s.rule[r].have = NoTcr
    PROVE  Hears(s, m, With(s, r, o))
  <1> DEFINE t == With(s, r, o)
  <1>1. s \in DaemonType
    BY DEF Good
  <1>2. /\ t.rule[r] = o
        /\ \A q \in Rule : q # r => t.rule[q] = s.rule[q]
        /\ SameButRules(s, t)
    BY <1>1, WithPoints
  <1> HIDE DEF t
  <1>3. \A tcr \in AnyTcr : HaveIn(t, m.slot, tcr) <=> Effect(m) = tcr
    BY <1>2, HaveAt DEF t
  <1>4. ASSUME NEW slot \in Slot, NEW tcr \in AnyTcr, slot # m.slot
        PROVE  HaveIn(t, slot, tcr) <=> HaveIn(s, slot, tcr)
    <2>1. tcr # NoTcr
      BY Constants
    <2>2. \A q \in Rule : s.rule[q].slot = slot /\ s.rule[q].have = tcr => q # r
      BY <1>4, <2>1
    <2>3. \A q \in Rule : t.rule[q].slot = slot => q # r
      BY <1>2, <1>4
    <2> QED
      BY <1>2, <2>2, <2>3 DEF HaveIn
  <1> QED
    BY <1>2, <1>3, <1>4, HearsRule DEF SameButRules, t

\* obj_rule_new: what becomes of rule r when a filter is found in a slot that
\* has no rule.
Discovers(s, m, r, o) ==
    /\ s.rule[r] = Freed
    /\ o.state = "NEW"
    /\ o.slot = m.slot
    /\ o.want = NoTcr
    /\ o.have = m.tcr
    /\ o.refs = 0
    /\ o.inst
    /\ o.pos
    /\ FoundUnknown(s, m) = UpdateAndKick(With(s, r, o), r)
    /\ Good(With(s, r, o), NoExtra, NoRule)
    /\ Live(With(s, r, o), r)

LEMMA Discovered ==
    ASSUME NEW s, Good(s, NoExtra, NoRule), NEW m \in Message, m.op = "NEW",
           obj_rule_pos_lookup(s, m.slot) = NoRule
    PROVE  \E r \in Rule, o \in RuleRecord : Discovers(s, m, r, o)
  <1> DEFINE r  == Unallocated(s)
             a  == Allocate(s, r, m.slot, NoTcr, m.tcr, 0)
             b  == PosInsert(a, r)
             c  == LafInsert(b, r)
             o0 == [state |-> "NEW", slot |-> m.slot, want |-> NoTcr, have |-> m.tcr,
                    refs |-> 0, inst |-> TRUE, static |-> FALSE, pos |-> FALSE, laf |-> FALSE]
             L  == InLaf(b, b.rule[r].have) = {}
             o  == [state |-> "NEW", slot |-> m.slot, want |-> NoTcr, have |-> m.tcr,
                    refs |-> 0, inst |-> TRUE, static |-> FALSE, pos |-> TRUE, laf |-> L]
  <1>1. s \in DaemonType
    BY DEF Good
  <1>2. r \in Rule /\ s.rule[r] = Freed
    BY CanAllocate
  <1> HIDE DEF r
  <1>3. m.slot \in Slot /\ m.tcr \in AnyTcr /\ m.tcr # NoTcr /\ Effect(m) = m.tcr
    BY Constants DEF Message, Effect
  <1>4. o0 \in RuleRecord /\ L \in BOOLEAN /\ o \in RuleRecord
    BY <1>3, Constants DEF RuleRecord, RuleState
  <1>5. a = With(s, r, o0)
    <2> DEFINE inst == m.tcr # NoTcr
               n == [Freed EXCEPT !.state = "NEW", !.slot = m.slot, !.want = NoTcr,
                                  !.have = m.tcr, !.inst = inst, !.refs = 0]
    <2>1. inst = TRUE
      BY <1>3
    <2>2. a = [s EXCEPT !.rule[r] = n]
      BY DEF Allocate
    <2> HIDE DEF inst
    <2>4. Freed \in RuleRecord /\ m.tcr \in MaybeTcr /\ NoTcr \in MaybeTcr
      BY <1>3, Constants
    <2>5. ~Freed.static /\ ~Freed.pos /\ ~Freed.laf
      BY DEF Freed
    <2>6. /\ n \in RuleRecord
          /\ n.state = "NEW"
          /\ n.slot = m.slot
          /\ n.want = NoTcr
          /\ n.have = m.tcr
          /\ n.refs = 0
          /\ n.inst
          /\ ~n.static
          /\ ~n.pos
          /\ ~n.laf
      BY <1>3, <2>1, <2>4, <2>5 DEF RuleRecord, RuleState
    <2> HIDE DEF n
    <2>7. /\ o0.state = "NEW"
          /\ o0.slot = m.slot
          /\ o0.want = NoTcr
          /\ o0.have = m.tcr
          /\ o0.refs = 0
          /\ o0.inst
          /\ ~o0.static
          /\ ~o0.pos
          /\ ~o0.laf
      OBVIOUS
    <2> HIDE DEF o0
    <2>3. n = o0
      BY <1>4, <2>6, <2>7, SameRecord
    <2> HIDE DEF n, o0, a
    <2> QED
      BY <2>2, <2>3 DEF With
  <1>6. \A q \in Rule : ~(s.rule[q].pos /\ s.rule[q].slot = m.slot)
    BY PosLookup
  <1>7. b = [a EXCEPT !.rule[r].pos = TRUE]
    <2>1. a.rule[r] = o0 /\ \A q \in Rule : q # r => a.rule[q] = s.rule[q]
      <3> HIDE DEF o0
      <3> QED
        BY <1>1, <1>2, <1>4, <1>5, WithPoints
    <2>2. a.rule[r].slot = m.slot /\ ~a.rule[r].pos
      BY <2>1
    <2>3. InPos(a, a.rule[r].slot) = {}
      BY <1>6, <2>1, <2>2 DEF InPos
    <2> QED
      BY <2>3 DEF PosInsert
  <1>8. c = [b EXCEPT !.rule[r].laf = L]
    BY DEF LafInsert
  <1>9. c = With(s, r, o)
    <2> HIDE DEF L, a, b, c
    <2> DEFINE n == [[o0 EXCEPT !.pos = TRUE] EXCEPT !.laf = L]
    <2>4. /\ o0.state = o.state
          /\ o0.slot = o.slot
          /\ o0.want = o.want
          /\ o0.have = o.have
          /\ o0.refs = o.refs
          /\ o0.inst = o.inst
          /\ o0.static = o.static
          /\ o.pos = TRUE
          /\ o.laf = L
      OBVIOUS
    <2> HIDE DEF o, o0
    <2>5. /\ n \in RuleRecord
          /\ n.state = o.state
          /\ n.slot = o.slot
          /\ n.want = o.want
          /\ n.have = o.have
          /\ n.refs = o.refs
          /\ n.inst = o.inst
          /\ n.static = o.static
          /\ n.pos = o.pos
          /\ n.laf = o.laf
      BY <1>4, <2>4 DEF RuleRecord
    <2>1. n = o
      <3> HIDE DEF n
      <3> QED
        BY <1>4, <2>5, SameRecord
    <2>2. b = [s EXCEPT !.rule[r] = [o0 EXCEPT !.pos = TRUE]]
      BY <1>1, <1>2, <1>4, <1>5, <1>7 DEF With, DaemonType
    <2>3. c = [s EXCEPT !.rule[r] = n]
      BY <1>1, <1>2, <1>4, <1>8, <2>2 DEF DaemonType
    <2> HIDE DEF n
    <2> QED
      BY <2>1, <2>3 DEF With
  <1>10. /\ o.state = "NEW"
         /\ o.slot = m.slot
         /\ o.want = NoTcr
         /\ o.have = m.tcr
         /\ o.refs = 0
         /\ o.inst
         /\ o.pos
    OBVIOUS
  <1>11. FoundUnknown(s, m) = UpdateAndKick(c, r)
    BY DEF FoundUnknown, r
  <1> HIDE DEF a, b, c, o0, L, o
  <1>12. Good(c, NoExtra, NoRule)
    <2>1. Sane(o, s.pin) /\ UpToDate(o)
      BY <1>3, <1>10 DEF Sane, UpToDate
    <2>2. \A q \in Rule : q # r /\ s.rule[q].pos => s.rule[q].slot # o.slot
      BY <1>6, <1>10
    <2>3. o.state # "QUEUED" /\ s.rule[r].state # "QUEUED"
      BY <1>2, <1>10 DEF Freed
    <2>4. NoExtra \in [Rule -> Nat]
      BY DEF NoExtra
    <2>5. o.refs >= Cardinality(HoldersOf(s, r)) + QueueHolds(o) + NoExtra[r]
      <3>1. s.rule[r].refs >= Cardinality(HoldersOf(s, r)) + QueueHolds(s.rule[r]) + NoExtra[r]
        BY <1>2 DEF Good, Counted
      <3>2. s.rule[r].refs = 0
        BY <1>2 DEF Freed
      <3> QED
        BY <1>10, <2>3, <3>1, <3>2 DEF QueueHolds
    <2> QED
      BY <1>2, <1>4, <1>9, <2>1, <2>2, <2>3, <2>4, <2>5, RuleChange
  <1>13. Live(c, r)
    <2>1. c.rule[r] = o
      BY <1>1, <1>2, <1>4, <1>9, WithPoints
    <2> QED
      BY <1>10, <2>1 DEF Live
  <1>14. Discovers(s, m, r, o)
    BY <1>2, <1>9, <1>10, <1>11, <1>12, <1>13 DEF Discovers
  <1> QED
    BY <1>2, <1>4, <1>14

LEMMA FoundUnknownGood ==
    ASSUME NEW s, Good(s, NoExtra, NoRule), NEW m \in Message, m.op = "NEW",
           obj_rule_pos_lookup(s, m.slot) = NoRule
    PROVE  /\ Good(FoundUnknown(s, m), NoExtra, NoRule)
           /\ Hears(s, m, FoundUnknown(s, m))
  <1>1. PICK r \in Rule, o \in RuleRecord : Discovers(s, m, r, o)
    BY Discovered
  <1>2. FoundUnknown(s, m) = UpdateAndKick(With(s, r, o), r)
    BY <1>1 DEF Discovers
  <1> DEFINE c == With(s, r, o)
  <1>3. Good(c, NoExtra, NoRule) /\ Live(c, r)
    BY <1>1 DEF Discovers
  <1>4. Hears(s, m, c)
    <2>1. Effect(m) = m.tcr
      BY DEF Effect
    <2>2. o.pos /\ o.slot = m.slot /\ o.have = Effect(m) /\ s.rule[r].have = NoTcr
      BY <1>1, <2>1 DEF Discovers, Freed
    <2> QED
      BY <1>3, <2>2, HearsWith
  <1> HIDE DEF c
  <1>5. /\ Good(UpdateAndKick(c, r), NoExtra, NoRule)
        /\ Keeps(c, UpdateAndKick(c, r))
    <2>1. NoExtra \in [Rule -> Nat]
      BY DEF NoExtra
    <2> QED
      BY <1>3, <2>1, UpdateAndKickGood
  <1> QED
    BY <1>2, <1>4, <1>5, HearsThenKeeps DEF c

\* obj_rule_update: what becomes of rule r when another filter than it has, or
\* a first one, is found in its slot.
Learns(s, m, r, o) ==
    /\ o.state = s.rule[r].state
    /\ o.want = s.rule[r].want
    /\ o.refs = s.rule[r].refs
    /\ o.laf = s.rule[r].laf
    /\ o.pos
    /\ o.slot = m.slot
    /\ o.have = m.tcr
    /\ FoundKnown(s, m, r) = UpdateAndKick(With(s, r, o), r)
    /\ Good(With(s, r, o), NoExtra, r)
    /\ Live(With(s, r, o), r)

LEMMA Learned ==
    ASSUME NEW s, Good(s, NoExtra, NoRule), NEW m \in Message, m.op = "NEW",
           NEW r \in Rule, s.rule[r].pos, s.rule[r].slot = m.slot,
           s.rule[r].have # m.tcr
    PROVE  \E o \in RuleRecord : Learns(s, m, r, o)
  <1> DEFINE inst == s.rule[r].inst \/ s.rule[r].have = NoTcr
             o == [s.rule[r] EXCEPT !.have = m.tcr, !.inst = inst]
             t == With(s, r, o)
  <1>1. s \in DaemonType /\ s.rule[r] \in RuleRecord
    BY DEF Good, DaemonType
  <1>2. m.tcr \in MaybeTcr /\ m.tcr # NoTcr
    BY Constants DEF Message
  <1>3. Sane(s.rule[r], s.pin) /\ Live(s, r)
    BY InTreeIsLive DEF Good, RulesSane
  <1>4. inst = TRUE
    BY <1>3 DEF Sane
  <1> HIDE DEF inst
  <1>5. /\ o \in RuleRecord
        /\ o.state = s.rule[r].state
        /\ o.want = s.rule[r].want
        /\ o.laf = s.rule[r].laf
        /\ o.pos
        /\ o.slot = m.slot
        /\ o.have = m.tcr
        /\ o.inst
        /\ o.refs = s.rule[r].refs
    BY <1>1, <1>2, <1>4 DEF RuleRecord
  <1>6. FoundKnown(s, m, r) = UpdateAndKick(t, r)
    <2>1. FoundKnown(s, m, r) = UpdateAndKick([s EXCEPT !.rule[r].have = m.tcr,
                                                        !.rule[r].inst = inst], r)
      BY DEF FoundKnown, inst
    <2>2. [s EXCEPT !.rule[r].have = m.tcr, !.rule[r].inst = inst] = t
      BY <1>1 DEF With, DaemonType, RuleRecord
    <2> HIDE DEF t
    <2> QED
      BY <2>1, <2>2
  <1> HIDE DEF o
  <1>7. Sane(o, s.pin)
    BY <1>2, <1>3, <1>5 DEF Sane, Live
  <1>8. \A q \in Rule : q # r /\ s.rule[q].pos => s.rule[q].slot # o.slot
    BY <1>5 DEF Good, Apart
  <1>9. NoExtra \in [Rule -> Nat]
    BY DEF NoExtra
  <1>10. o.refs >= Cardinality(HoldersOf(s, r)) + QueueHolds(o) + NoExtra[r]
    BY <1>5 DEF Good, Counted, QueueHolds
  <1>11. Good(t, NoExtra, r)
    BY <1>5, <1>7, <1>8, <1>9, <1>10, RuleChange
  <1>12. Live(t, r)
    BY <1>1, <1>3, <1>5, WithPoints DEF Live
  <1>13. Learns(s, m, r, o)
    BY <1>5, <1>6, <1>11, <1>12 DEF Learns
  <1> QED
    BY <1>5, <1>13

\* obj_rule_update: a filter in a slot that has a rule.
LEMMA FoundKnownGood ==
    ASSUME NEW s, Good(s, NoExtra, NoRule), NEW m \in Message, m.op = "NEW",
           NEW r \in Rule, s.rule[r].pos, s.rule[r].slot = m.slot
    PROVE  /\ Good(FoundKnown(s, m, r), NoExtra, NoRule)
           /\ Hears(s, m, FoundKnown(s, m, r))
  <1>1. m.tcr \in AnyTcr /\ Effect(m) = m.tcr
    BY DEF Message, Effect
  <1>2. CASE s.rule[r].have = m.tcr
    <2>1. FoundKnown(s, m, r) = s
      BY <1>2 DEF FoundKnown
    <2>2. \A tcr \in AnyTcr : HaveIn(s, m.slot, tcr) <=> Effect(m) = tcr
      BY <1>1, <1>2, HaveAt
    <2>3. Hears(s, m, s)
      BY <2>2, HearsRule
    <2> QED
      BY <2>1, <2>3
  <1>3. CASE s.rule[r].have # m.tcr
    <2>1. PICK o \in RuleRecord : Learns(s, m, r, o)
      BY <1>3, Learned
    <2>2. FoundKnown(s, m, r) = UpdateAndKick(With(s, r, o), r)
      BY <2>1 DEF Learns
    <2> DEFINE t == With(s, r, o)
    <2>3. Good(t, NoExtra, r) /\ Live(t, r)
      BY <2>1 DEF Learns
    <2>4. Hears(s, m, t)
      <3>1. o.pos /\ o.slot = m.slot /\ o.have = Effect(m)
        BY <1>1, <2>1 DEF Learns
      <3> QED
        BY <2>3, <3>1, HearsWith
    <2> HIDE DEF t
    <2>5. /\ Good(UpdateAndKick(t, r), NoExtra, NoRule)
          /\ Keeps(t, UpdateAndKick(t, r))
      <3>1. NoExtra \in [Rule -> Nat]
        BY DEF NoExtra
      <3> QED
        BY <2>3, <3>1, UpdateAndKickGood
    <2> QED
      BY <2>2, <2>4, <2>5, HearsThenKeeps DEF t
  <1> QED
    BY <1>2, <1>3

\* One reference in the hands of a handler.
One(r) == [q \in Rule |-> IF q = r THEN 1 ELSE 0]

\* One(r) and NoExtra, rule by rule.
LEMMA OnePoints ==
    ASSUME NEW r \in Rule
    PROVE  /\ NoExtra \in [Rule -> Nat]
           /\ One(r) \in [Rule -> Nat]
           /\ One(r)[r] = 1
           /\ \A q \in Rule : q # r => One(r)[q] = 0
           /\ \A q \in Rule : NoExtra[q] = 0
           /\ NoExtra = [One(r) EXCEPT ![r] = @ - 1]
  <1>1. /\ NoExtra \in [Rule -> Nat]
        /\ One(r) \in [Rule -> Nat]
        /\ One(r)[r] = 1
        /\ \A q \in Rule : q # r => One(r)[q] = 0
        /\ \A q \in Rule : NoExtra[q] = 0
    BY DEF NoExtra, One
  <1>2. [One(r) EXCEPT ![r] = @ - 1] = [q \in Rule |-> 0]
    <2>1. \A q \in Rule : [One(r) EXCEPT ![r] = @ - 1][q] = 0
      BY <1>1
    <2> QED
      BY <1>1, <2>1
  <1> QED
    BY <1>1, <1>2 DEF NoExtra

\* obj_rule_delete: what becomes of rule r first, while the handler has a
\* reference.
Forgets(s, r, o) ==
    LET t == With(s, r, o)
        u == IF t.rule[r].want # NoTcr THEN UpdateAndKick(t, r) ELSE t
    IN  /\ o.state = s.rule[r].state
        /\ o.want = s.rule[r].want
        /\ o.laf = s.rule[r].laf
        /\ o.refs = s.rule[r].refs + 1
        /\ o.pos
        /\ o.slot = s.rule[r].slot
        /\ o.have = NoTcr
        /\ ~o.inst
        /\ FoundDeleted(s, r) = Kick(Unref(u, r))
        /\ Good(t, One(r), r) /\ (o.want = NoTcr => Good(t, One(r), NoRule))
        /\ t.rule[r] = o
        /\ Live(t, r)

LEMMA Forgotten ==
    ASSUME NEW s, Good(s, NoExtra, NoRule), NEW r \in Rule, s.rule[r].pos
    PROVE  \E o \in RuleRecord : Forgets(s, r, o)
  <1> DEFINE o == [s.rule[r] EXCEPT !.refs = @ + 1, !.inst = FALSE, !.have = NoTcr]
             t == With(s, r, o)
             u == IF t.rule[r].want # NoTcr THEN UpdateAndKick(t, r) ELSE t
  <1>1. s \in DaemonType /\ s.rule[r] \in RuleRecord /\ s.rule[r].refs \in Nat
    BY DEF Good, DaemonType, RuleRecord
  <1>3. Sane(s.rule[r], s.pin) /\ Live(s, r) /\ UpToDate(s.rule[r])
    BY InTreeIsLive, Constants DEF Good, RulesSane
  <1>4. /\ o \in RuleRecord
        /\ o.state = s.rule[r].state
        /\ o.want = s.rule[r].want
        /\ o.laf = s.rule[r].laf
        /\ o.pos
        /\ o.slot = s.rule[r].slot
        /\ o.have = NoTcr
        /\ ~o.inst
        /\ o.refs = s.rule[r].refs + 1
    <2>1. s.rule[r].refs + 1 \in Nat /\ NoTcr \in MaybeTcr
      BY <1>1, Constants
    <2> QED
      BY <1>1, <2>1 DEF RuleRecord
  <1>5. FoundDeleted(s, r) = Kick(Unref(u, r))
    <2>1. t = [Ref(s, r) EXCEPT !.rule[r].inst = FALSE, !.rule[r].have = NoTcr]
      BY <1>1 DEF Ref, With, DaemonType, RuleRecord
    <2> HIDE DEF t
    <2> QED
      BY <2>1 DEF FoundDeleted
  <1> HIDE DEF o
  <1>6. Sane(o, s.pin)
    BY <1>3, <1>4 DEF Sane, Live
  <1>7. \A q \in Rule : q # r /\ s.rule[q].pos => s.rule[q].slot # o.slot
    BY <1>4 DEF Good, Apart
  <1>8. o.refs >= Cardinality(HoldersOf(s, r)) + QueueHolds(o) + One(r)[r]
    <2>1. /\ s.rule[r].refs >= Cardinality(HoldersOf(s, r)) + QueueHolds(s.rule[r]) + NoExtra[r]
          /\ Cardinality(HoldersOf(s, r)) \in Nat
          /\ QueueHolds(s.rule[r]) \in Nat
      BY OnePoints, HeldIsLive
    <2>2. QueueHolds(o) = QueueHolds(s.rule[r])
      BY <1>4 DEF QueueHolds
    <2> QED
      BY <1>1, <1>4, <2>1, <2>2, OnePoints
  <1>9. Good(t, One(r), r) /\ (o.want = NoTcr => Good(t, One(r), NoRule))
    <2>1. \A q \in Rule : q # r => One(r)[q] = NoExtra[q]
      BY OnePoints
    <2>2. Good(t, One(r), r)
      BY <1>4, <1>6, <1>7, <1>8, <2>1, OnePoints, RuleChange
    <2>3. o.want = NoTcr => UpToDate(o)
      BY <1>3, <1>4 DEF UpToDate
    <2>4. o.want = NoTcr => Good(t, One(r), NoRule)
      BY <1>4, <1>6, <1>7, <1>8, <2>1, <2>3, OnePoints, RuleChange
    <2> QED
      BY <2>2, <2>4
  <1>10. t.rule[r] = o /\ Live(t, r)
    BY <1>1, <1>3, <1>4, WithPoints DEF Live
  <1>11. Forgets(s, r, o)
    BY <1>4, <1>5, <1>9, <1>10 DEF Forgets
  <1> QED
    BY <1>4, <1>11

\* obj_rule_delete.
LEMMA FoundDeletedGood ==
    ASSUME NEW s, Good(s, NoExtra, NoRule), NEW m \in Message, m.op = "DEL",
           NEW r \in Rule, s.rule[r].pos, s.rule[r].slot = m.slot
    PROVE  /\ Good(FoundDeleted(s, r), NoExtra, NoRule)
           /\ Hears(s, m, FoundDeleted(s, r))
  <1>1. PICK o \in RuleRecord : Forgets(s, r, o)
    BY Forgotten
  <1> DEFINE t == With(s, r, o)
             u == IF t.rule[r].want # NoTcr THEN UpdateAndKick(t, r) ELSE t
  <1>2. FoundDeleted(s, r) = Kick(Unref(u, r))
    BY <1>1 DEF Forgets
  <1>3. Good(t, One(r), r) /\ (o.want = NoTcr => Good(t, One(r), NoRule))
    BY <1>1 DEF Forgets
  <1>4. t.rule[r] = o /\ Live(t, r)
    BY <1>1 DEF Forgets
  <1>5. Hears(s, m, t)
    <2>1. o.pos /\ o.slot = m.slot /\ o.have = Effect(m)
      BY <1>1 DEF Forgets, Effect
    <2> QED
      BY <1>3, <2>1, HearsWith
  <1> HIDE DEF t
  <1>6. Good(u, One(r), NoRule) /\ Hears(s, m, u)
    <2>1. /\ Good(UpdateAndKick(t, r), One(r), NoRule)
          /\ Keeps(t, UpdateAndKick(t, r))
      BY <1>3, <1>4, OnePoints, UpdateAndKickGood
    <2> QED
      BY <1>3, <1>4, <1>5, <2>1, HearsThenKeeps
  <1> HIDE DEF u
  <1>7. Good(Unref(u, r), NoExtra, NoRule) /\ Keeps(u, Unref(u, r))
    <2>1. One(r)[r] > 0
      BY OnePoints
    <2> QED
      BY <1>6, <2>1, OnePoints, UnrefGood
  <1>8. /\ Good(Kick(Unref(u, r)), NoExtra, NoRule)
        /\ Keeps(Unref(u, r), Kick(Unref(u, r)))
    BY <1>7, OnePoints, KickGood
  <1> QED
    BY <1>2, <1>6, <1>7, <1>8, HearsThenKeeps

\* obj_rule_netlink_found.
LEMMA FoundGood ==
    ASSUME NEW s, Good(s, NoExtra, NoRule), NEW m \in Message
    PROVE  /\ Good(obj_rule_netlink_found(s, m), NoExtra, NoRule)
           /\ Hears(s, m, obj_rule_netlink_found(s, m))
  <1> DEFINE r == obj_rule_pos_lookup(s, m.slot)
             t == obj_rule_netlink_found(s, m)
  <1>1. Subject(s, m) = r
    BY SubjectIs
  <1>2. m.op \in {"NEW", "DEL"}
    BY DEF Message
  <1>3. CASE r = NoRule /\ m.op = "DEL"
    <2>1. t = s
      BY <1>1, <1>3 DEF obj_rule_netlink_found
    <2>2. Effect(m) = NoTcr
      BY <1>3 DEF Effect
    <2>3. \A tcr \in AnyTcr : HaveIn(s, m.slot, tcr) <=> Effect(m) = tcr
      BY <1>3, <2>2, PosLookup, HaveAt, Constants
    <2>4. Hears(s, m, s)
      BY <2>3, HearsRule
    <2> QED
      BY <2>1, <2>4
  <1>4. CASE r = NoRule /\ m.op = "NEW"
    <2>1. t = FoundUnknown(s, m)
      BY <1>1, <1>4 DEF obj_rule_netlink_found
    <2> QED
      BY <1>4, <2>1, FoundUnknownGood
  <1>5. CASE r # NoRule
    <2>1. r \in Rule /\ s.rule[r].pos /\ s.rule[r].slot = m.slot
      BY <1>5, PosLookup
    <2> HIDE DEF r
    <2>2. CASE m.op = "DEL"
      <3>1. t = FoundDeleted(s, r)
        BY <1>1, <1>5, <2>2 DEF obj_rule_netlink_found
      <3> QED
        BY <2>1, <2>2, <3>1, FoundDeletedGood
    <2>3. CASE m.op = "NEW"
      <3>1. t = FoundKnown(s, m, r)
        BY <1>1, <1>5, <2>3 DEF obj_rule_netlink_found
      <3> QED
        BY <2>1, <2>3, <3>1, FoundKnownGood
    <2> QED
      BY <1>2, <2>2, <2>3
  <1> QED
    BY <1>2, <1>3, <1>4, <1>5

-----------------------------------------------------------------------------
(* obj_rule_request.                                                        *)

\* obj_rule_find_available_prio returns a free slot if there is one.
LEMMA PrioSlotIsFree ==
    ASSUME NEW used \in SUBSET Nat, NEW min \in Nat, NEW width \in Nat,
           ~(min..(width - 1) \subseteq used)
    PROVE  /\ PrioSlot(used, min, width) \in min..(width - 1)
           /\ PrioSlot(used, min, width) \notin used
  <1> DEFINE gaps == GapsAbove(used, min, width)
             free == {f \in min..(width - 1) : f \notin used}
  <1>1. min \in min..(width - 1)
    <2>1. PICK f \in min..(width - 1) : f \notin used
      OBVIOUS
    <2> QED
      BY <2>1
  <1>2. CASE \A p \in used : p > min
    <2>1. PrioSlot(used, min, width) = min
      BY <1>2 DEF PrioSlot
    <2>2. min \notin used
      BY <1>2
    <2> QED
      BY <1>1, <2>1, <2>2
  <1>3. CASE ~(\A p \in used : p > min) /\ gaps # {}
    <2>1. PrioSlot(used, min, width) = Lowest(gaps)
      BY <1>3 DEF PrioSlot, AfterRun
    <2>2. gaps \subseteq (min..(width - 1)) \ used
      BY DEF GapsAbove
    <2> HIDE DEF gaps
    <2>3. gaps \in SUBSET Nat
      BY <2>2
    <2>4. \E p \in gaps : \A q \in gaps : p <= q
      BY <1>3, <2>3, LeastNumber
    <2>5. Lowest(gaps) \in gaps
      BY <2>4 DEF Lowest
    <2> QED
      BY <2>1, <2>2, <2>5
  <1>4. CASE ~(\A p \in used : p > min) /\ gaps = {}
    <2>1. PrioSlot(used, min, width) = min
      BY <1>4 DEF PrioSlot, AfterRun
    <2>2. ASSUME min \in used PROVE FALSE
      <3>1. free \in SUBSET Nat /\ free # {}
        OBVIOUS
      <3>2. PICK f \in free : \A g \in free : f <= g
        <4> HIDE DEF free
        <4> QED
          BY <3>1, LeastNumber
      <3>3. f \in Nat /\ f # min /\ f >= min /\ f < width
        BY <2>2, <3>2
      <3>4. f - 1 \in min..(width - 1) /\ ~(f <= f - 1) /\ (f - 1) + 1 = f
        BY <3>3
      <3>5. f - 1 \in used
        BY <3>2, <3>4
      <3>6. f \in gaps
        BY <3>2, <3>3, <3>4, <3>5 DEF GapsAbove
      <3> QED
        BY <1>4, <3>6
    <2> QED
      BY <1>1, <2>1, <2>2
  <1> QED
    BY <1>2, <1>3, <1>4

\* What differs between two stages of a longer handler does not make the daemon
\* miss anything.
Onward(s, t) == t.pin = s.pin /\ (Informed(s) => Informed(t))

\* Stages follow each other.
LEMMA OnwardPoints ==
    /\ \A s, t : Keeps(s, t) => Onward(s, t)
    /\ \A s : Onward(s, s)
    /\ \A s, t, u : Onward(s, t) /\ Onward(t, u) => Onward(s, u)
  BY DEF Keeps, Onward

\* A pointer changes hands: o points to v from now on.
Assign(s, o, v) == [s EXCEPT !.own[o] = v]

\* The reference of the pointer's new rule was a handler's, that of its old
\* rule becomes one.
LEMMA OwnGood ==
    ASSUME NEW s, NEW e \in [Rule -> Nat], NEW x, Good(s, e, x),
           NEW o \in Owner, NEW v \in Rule \union {NoRule},
           NEW d \in [Rule -> Nat],
           \A q \in Rule : d[q] + One(v)[q] <= e[q] + One(s.own[o])[q]
    PROVE  /\ Good(Assign(s, o, v), d, x)
           /\ Onward(s, Assign(s, o, v))
           /\ Assign(s, o, v).rule = s.rule
           /\ Assign(s, o, v).own[o] = v
  <1> DEFINE old == s.own[o]
             t == Assign(s, o, v)
  <1>1. s \in DaemonType /\ s.own \in [Owner -> Rule \union {NoRule}]
    BY DEF Good, DaemonType
  <1>2. /\ t \in DaemonType
        /\ t.rule = s.rule
        /\ t.work = s.work
        /\ t.current = s.current
        /\ t.pin = s.pin
        /\ t.kern = s.kern
        /\ t.mon = s.mon
        /\ t.dump = s.dump
        /\ t.fault = s.fault
        /\ t.own = [s.own EXCEPT ![o] = v]
    BY <1>1 DEF DaemonType, Assign
  <1> HIDE DEF t
  <1>3. /\ t.own[o] = v
        /\ \A p \in Owner : p # o => t.own[p] = s.own[p]
    BY <1>1, <1>2
  <1>4. ASSUME NEW q \in Rule
        PROVE  Cardinality(HoldersOf(t, q)) + One(old)[q]
                   = Cardinality(HoldersOf(s, q)) + One(v)[q]
    <2> DEFINE H == HoldersOf(s, q)
    <2>1. IsFiniteSet(H) /\ Cardinality(H) \in Nat
      <3>1. H \subseteq Owner
        BY DEF HoldersOf
      <3> QED
        BY <3>1, Constants, FS_Subset, FS_CardinalityType
    <2>2. /\ One(old)[q] = IF q = old THEN 1 ELSE 0
          /\ One(v)[q] = IF q = v THEN 1 ELSE 0
      BY DEF One
    <2>3. o \in H <=> q = old
      BY DEF HoldersOf
    <2>4. CASE q = v
      <3>1. HoldersOf(t, q) = H \union {o}
        BY <1>3, <2>4 DEF HoldersOf
      <3>2. Cardinality(H \union {o}) = IF o \in H THEN Cardinality(H) ELSE Cardinality(H) + 1
        BY <2>1, FS_AddElement
      <3> HIDE DEF H, old
      <3>3. CASE q = old
        <4>1. One(old)[q] = 1 /\ One(v)[q] = 1
          BY <2>2, <2>4, <3>3
        <4>2. o \in H /\ Cardinality(HoldersOf(t, q)) = Cardinality(H)
          BY <2>3, <3>1, <3>2, <3>3
        <4> QED
          BY <4>1, <4>2 DEF H
      <3>4. CASE q # old
        <4>1. One(old)[q] = 0 /\ One(v)[q] = 1
          BY <2>2, <2>4, <3>4
        <4>2. o \notin H /\ Cardinality(HoldersOf(t, q)) = Cardinality(H) + 1
          BY <2>3, <3>1, <3>2, <3>4
        <4> QED
          BY <2>1, <4>1, <4>2 DEF H
      <3> QED
        BY <3>3, <3>4
    <2>5. CASE q # v
      <3>1. HoldersOf(t, q) = H \ {o}
        BY <1>3, <2>5 DEF HoldersOf
      <3>2. Cardinality(H \ {o}) = IF o \in H THEN Cardinality(H) - 1 ELSE Cardinality(H)
        BY <2>1, FS_RemoveElement
      <3> HIDE DEF H, old
      <3>3. CASE q = old
        BY <2>1, <2>2, <2>3, <2>5, <3>1, <3>2, <3>3 DEF H
      <3>4. CASE q # old
        BY <2>1, <2>2, <2>3, <2>5, <3>1, <3>2, <3>4 DEF H
      <3> QED
        BY <3>3, <3>4
    <2> QED
      BY <2>4, <2>5
  <1>5. Counted(t, d)
    <2>1. SUFFICES ASSUME NEW q \in Rule
                   PROVE  t.rule[q].refs >= Cardinality(HoldersOf(t, q))
                                            + QueueHolds(t.rule[q]) + d[q]
      BY DEF Counted
    <2>2. /\ Cardinality(HoldersOf(s, q)) \in Nat
          /\ QueueHolds(s.rule[q]) \in Nat
          /\ s.rule[q].refs \in Nat
          /\ s.rule[q].refs >= Cardinality(HoldersOf(s, q)) + QueueHolds(s.rule[q]) + e[q]
      BY HeldIsLive
    <2>3. Cardinality(HoldersOf(t, q)) \in Nat
      <3>1. HoldersOf(t, q) \subseteq Owner
        BY DEF HoldersOf
      <3> QED
        BY <3>1, Constants, FS_Subset, FS_CardinalityType
    <2>4. One(v)[q] \in Nat /\ One(old)[q] \in Nat /\ d[q] \in Nat /\ e[q] \in Nat
      BY DEF One
    <2>5. d[q] + One(v)[q] <= e[q] + One(old)[q]
      OBVIOUS
    <2> QED
      BY <1>2, <1>4, <2>2, <2>3, <2>4, <2>5
  <1>6. RulesSane(t, x) /\ Apart(t) /\ RequestsAgree(t)
    BY <1>2 DEF Good, RulesSane, Apart, RequestsAgree
  <1>7. Good(t, d, x)
    BY <1>2, <1>5, <1>6 DEF Good
  <1>8. Onward(s, t)
    <2>1. Informed(s) => Informed(t)
      BY <1>2 DEF Informed, MonTrue, LastWord, DumpTrue, Told, Agrees, HaveIn
    <2> QED
      BY <1>2, <2>1 DEF Onward
  <1> QED
    BY <1>2, <1>3, <1>7, <1>8 DEF t

\* A handler may have more references than it accounts for.
LEMMA Weaken ==
    ASSUME NEW s, NEW e \in [Rule -> Nat], NEW x, Good(s, e, x),
           NEW d \in [Rule -> Nat], \A q \in Rule : d[q] <= e[q]
    PROVE  Good(s, d, x)
  <1>1. ASSUME NEW q \in Rule
        PROVE  s.rule[q].refs >= Cardinality(HoldersOf(s, q)) + QueueHolds(s.rule[q]) + d[q]
    <2>1. /\ Cardinality(HoldersOf(s, q)) \in Nat
          /\ QueueHolds(s.rule[q]) \in Nat
          /\ s.rule[q].refs \in Nat
          /\ s.rule[q].refs >= Cardinality(HoldersOf(s, q)) + QueueHolds(s.rule[q]) + e[q]
      BY HeldIsLive
    <2>2. d[q] \in Nat /\ e[q] \in Nat /\ d[q] <= e[q]
      OBVIOUS
    <2> QED
      BY <2>1, <2>2
  <1> QED
    BY <1>1 DEF Good, Counted

\* The place of a new rule is a free priority.
LEMMA PlaceIsFree ==
    ASSUME NEW s, NEW e, NEW x, Good(s, e, x),
           NEW o \in Route, NEW tcr, HasPlace(s, o, tcr), InLaf(s, tcr) = {}
    PROVE  /\ sched_basic_place(s, o) \in Slot
           /\ sched_basic_place(s, o) < ChainBase
           /\ \A q \in Rule : s.rule[q].pos => s.rule[q].slot # sched_basic_place(s, o)
  <1> DEFINE used == {p \in UsedSlots(s) : p < ChainBase}
             slot == PrioSlot(used, MinSlot, ChainBase)
  <1>1. o \notin Target
    BY OwnerAssumption
  <1>2. sched_basic_place(s, o) = slot
    BY <1>1 DEF sched_basic_place
  <1>3. UsedSlots(s) \subseteq Slot
    BY ZenonT(60) DEF UsedSlots, Good, DaemonType, RuleRecord
  <1>4. /\ MinSlot \in Nat /\ ChainBase \in Nat /\ Width \in Nat
        /\ ChainBase <= Width
        /\ Slot \subseteq Nat
    BY SlotAssumption DEF Slot
  <1>5. ~(MinSlot..(ChainBase - 1) \subseteq UsedSlots(s))
    BY <1>1 DEF HasPlace
  <1>6. used \in SUBSET Nat
    BY <1>3, <1>4
  <1>7. ~(MinSlot..(ChainBase - 1) \subseteq used)
    BY <1>5
  <1>8. slot \in MinSlot..(ChainBase - 1) /\ slot \notin used
    <2> HIDE DEF used
    <2> QED
      BY <1>4, <1>6, <1>7, PrioSlotIsFree
  <1> HIDE DEF slot
  <1>9. slot \in Slot /\ slot < ChainBase
    BY <1>4, <1>8 DEF Slot
  <1>10. slot \notin UsedSlots(s)
    BY <1>8, <1>9
  <1> QED
    BY <1>2, <1>9, <1>10 DEF UsedSlots

\* obj_rule_prime_request: rule r becomes n, and o points to it; it was in the
\* lost and found tree, or it is new.  The reference of the rule o had is the
\* caller's.
Primes(s, o, tcr, r, n) ==
    LET t == obj_rule_prime_request(s, o, tcr) IN
    /\ t = Assign(With(s, r, n), o, r)
    /\ Good(t, One(s.own[o]), r)
    /\ Onward(s, t)
    /\ t.rule[r] = n
    /\ t.own[o] = r
    /\ Live(t, r)
    /\ n.want = tcr
    /\ ~n.laf
    /\ \/ /\ s.rule[r].laf
          /\ n.state = s.rule[r].state
          /\ n.pos = s.rule[r].pos
          /\ n.slot = s.rule[r].slot
          /\ n.have = s.rule[r].have
       \/ /\ s.rule[r] = Freed
          /\ n.state = "NEW"
          /\ n.have = NoTcr

\* A rule from the lost and found tree gets two references, one more than the
\* pointer to it.
LEMMA AdoptGood ==
    ASSUME NEW s, Good(s, NoExtra, NoRule),
           NEW o \in Route, NEW tcr \in Tcr, InLaf(s, tcr) # {}
    PROVE  \E r \in Rule, n \in RuleRecord : Primes(s, o, tcr, r, n)
  <1> DEFINE t == obj_rule_prime_request(s, o, tcr)
             r == Requested(s, tcr)
             n == [s.rule[r] EXCEPT !.refs = @ + 2, !.want = tcr, !.laf = FALSE]
             u == With(s, r, n)
             two == [q \in Rule |-> IF q = r THEN 2 ELSE 0]
  <1>1. r \in Rule /\ s.rule[r].laf /\ s.rule[r].have = tcr
    <2>1. r \in InLaf(s, tcr)
      BY DEF Requested, obj_rule_laf_lookup, OneOf
    <2> QED
      BY <2>1 DEF InLaf
  <1>2. s \in DaemonType /\ s.rule[r] \in RuleRecord /\ s.rule[r].refs \in Nat
    BY <1>1 DEF Good, DaemonType, RuleRecord
  <1>3. t = [s EXCEPT !.rule[r].refs = @ + 2, !.rule[r].want = tcr,
                      !.rule[r].laf = FALSE, !.own[o] = r]
    BY DEF obj_rule_prime_request
  <1> HIDE DEF r
  <1>4. o \in Owner /\ tcr \in MaybeTcr /\ s.own[o] \in Rule \union {NoRule}
    BY <1>2 DEF Owner, MaybeTcr, AnyTcr, DaemonType
  <1>5. /\ n \in RuleRecord
        /\ n.state = s.rule[r].state
        /\ n.pos = s.rule[r].pos
        /\ n.slot = s.rule[r].slot
        /\ n.have = s.rule[r].have
        /\ n.inst = s.rule[r].inst
        /\ n.refs = s.rule[r].refs + 2
        /\ n.want = tcr
        /\ ~n.laf
    <2>1. s.rule[r].refs + 2 \in Nat
      BY <1>2
    <2> QED
      BY <1>2, <1>4, <2>1 DEF RuleRecord
  <1>6. t = Assign(u, o, r)
    <2> DEFINE v == [s EXCEPT !.rule[r].refs = @ + 2, !.rule[r].want = tcr,
                              !.rule[r].laf = FALSE]
    <2>1. v = u
      BY <1>1, <1>2, ZenonT(60) DEF With, DaemonType, RuleRecord
    <2>2. t = [v EXCEPT !.own[o] = r]
      BY <1>2, <1>3 DEF DaemonType
    <2> HIDE DEF v, u, t
    <2> QED
      BY <2>1, <2>2 DEF Assign
  <1> HIDE DEF n
  <1>7. Sane(s.rule[r], s.pin) /\ Live(s, r) /\ s.rule[r].pos
    BY <1>1, InTreeIsLive DEF Good, RulesSane
  <1>8. Good(u, two, r)
    <2>1. Sane(n, s.pin)
      BY <1>5, <1>7 DEF Sane, Live
    <2>2. \A q \in Rule : q # r /\ s.rule[q].pos => s.rule[q].slot # n.slot
      BY <1>1, <1>5, <1>7 DEF Good, Apart
    <2>3. two \in [Rule -> Nat] /\ NoExtra \in [Rule -> Nat]
      BY DEF NoExtra
    <2>4. \A q \in Rule : q # r => two[q] = NoExtra[q]
      BY DEF NoExtra
    <2>5. n.refs >= Cardinality(HoldersOf(s, r)) + QueueHolds(n) + two[r]
      <3>1. /\ s.rule[r].refs >= Cardinality(HoldersOf(s, r)) + QueueHolds(s.rule[r]) + NoExtra[r]
            /\ Cardinality(HoldersOf(s, r)) \in Nat
            /\ QueueHolds(s.rule[r]) \in Nat
        BY <1>1, <2>3, HeldIsLive
      <3>2. QueueHolds(n) = QueueHolds(s.rule[r])
        BY <1>5 DEF QueueHolds
      <3>3. NoExtra[r] = 0 /\ two[r] = 2
        BY <1>1 DEF NoExtra
      <3> HIDE DEF two
      <3> QED
        BY <1>2, <1>5, <3>1, <3>2, <3>3
    <2> HIDE DEF two
    <2> QED
      BY <1>1, <1>5, <2>1, <2>2, <2>3, <2>4, <2>5, RuleChange
  <1>9. Onward(s, u)
    BY <1>1, <1>2, <1>5, RuleKeeps, OnwardPoints
  <1>10. Live(u, r) /\ u.own = s.own /\ u.rule[r] = n
    BY <1>1, <1>2, <1>5, <1>7, WithPoints DEF Live, SameButRules
  <1> HIDE DEF u
  <1>11. /\ Good(t, One(s.own[o]), r)
         /\ Onward(u, t)
         /\ t.rule = u.rule
         /\ t.own[o] = r
    <2>1. /\ two \in [Rule -> Nat]
          /\ One(s.own[o]) \in [Rule -> Nat]
      BY DEF One
    <2>2. \A q \in Rule : One(s.own[o])[q] + One(r)[q] <= two[q] + One(u.own[o])[q]
      BY <1>10 DEF One
    <2> DEFINE d == One(s.own[o])
    <2> HIDE DEF two, t, d
    <2>3. /\ Good(Assign(u, o, r), d, r)
          /\ Onward(u, Assign(u, o, r))
          /\ Assign(u, o, r).rule = u.rule
          /\ Assign(u, o, r).own[o] = r
      <3>1. /\ d \in [Rule -> Nat]
            /\ two \in [Rule -> Nat]
            /\ o \in Owner
            /\ r \in Rule \union {NoRule}
            /\ Good(u, two, r)
        BY <1>1, <1>4, <1>8, <2>1 DEF d
      <3>2. \A q \in Rule : d[q] + One(r)[q] <= two[q] + One(u.own[o])[q]
        BY <2>2 DEF d
      <3> QED
        BY <3>1, <3>2, OwnGood
    <2> QED
      BY <1>6, <2>3 DEF d
  <1>12. Onward(s, t)
    BY <1>9, <1>11, OnwardPoints
  <1> HIDE DEF t
  <1>13. Live(t, r) /\ t.rule[r] = n
    BY <1>10, <1>11 DEF Live
  <1>14. t = Assign(With(s, r, n), o, r)
    BY <1>6 DEF u
  <1>15. Primes(s, o, tcr, r, n)
    BY <1>1, <1>5, <1>11, <1>12, <1>13, <1>14 DEF t, Primes
  <1> QED
    BY <1>1, <1>5, <1>15

\* A new rule gets a place of its own.
LEMMA NewRuleGood ==
    ASSUME NEW s, Good(s, NoExtra, NoRule),
           NEW o \in Route, NEW tcr \in Tcr, InLaf(s, tcr) = {}, HasPlace(s, o, tcr)
    PROVE  \E r \in Rule, n \in RuleRecord : Primes(s, o, tcr, r, n)
  <1> DEFINE t == obj_rule_prime_request(s, o, tcr)
             r == Unallocated(s)
             slot == sched_basic_place(s, o)
             n0 == [state |-> "NEW", slot |-> slot, want |-> tcr, have |-> NoTcr,
                    refs |-> 1, inst |-> FALSE, static |-> FALSE, pos |-> FALSE,
                    laf |-> FALSE]
             n  == [state |-> "NEW", slot |-> slot, want |-> tcr, have |-> NoTcr,
                    refs |-> 1, inst |-> FALSE, static |-> FALSE, pos |-> TRUE,
                    laf |-> FALSE]
             h  == [s EXCEPT !.own[o] = r]
             a  == Allocate(h, r, slot, tcr, NoTcr, 1)
             u  == With(s, r, n)
  <1>1. s \in DaemonType
    BY DEF Good
  <1>2. r \in Rule /\ s.rule[r] = Freed
    BY CanAllocate
  <1>3. /\ slot \in Slot
        /\ slot < ChainBase
        /\ \A q \in Rule : s.rule[q].pos => s.rule[q].slot # slot
    BY PlaceIsFree
  <1>4. t = PosInsert(a, r)
    BY <1>3 DEF obj_rule_prime_request, ReserveChain, Requested
  <1> HIDE DEF r, slot
  <1>5. o \in Owner /\ tcr \in MaybeTcr /\ NoTcr \in MaybeTcr
        /\ s.own[o] \in Rule \union {NoRule}
    BY <1>1 DEF Owner, MaybeTcr, AnyTcr, DaemonType
  <1>6. n0 \in RuleRecord /\ n \in RuleRecord
    BY <1>3, <1>5 DEF RuleRecord, RuleState
  <1>7. a = [h EXCEPT !.rule[r] = n0]
    <2> DEFINE inst == NoTcr # NoTcr
               f == [Freed EXCEPT !.state = "NEW", !.slot = slot, !.want = tcr,
                                  !.have = NoTcr, !.inst = inst, !.refs = 1]
    <2>1. inst = FALSE
      OBVIOUS
    <2>2. a = [h EXCEPT !.rule[r] = f]
      BY DEF Allocate
    <2> HIDE DEF inst, a
    <2>3. Freed \in RuleRecord
      BY Constants
    <2>4. ~Freed.static /\ ~Freed.pos /\ ~Freed.laf
      BY DEF Freed
    <2>5. /\ f \in RuleRecord
          /\ f.state = "NEW"
          /\ f.slot = slot
          /\ f.want = tcr
          /\ f.have = NoTcr
          /\ f.refs = 1
          /\ ~f.inst
          /\ ~f.static
          /\ ~f.pos
          /\ ~f.laf
      BY <1>3, <1>5, <2>1, <2>3, <2>4 DEF RuleRecord, RuleState
    <2> HIDE DEF f
    <2>6. /\ n0.state = "NEW"
          /\ n0.slot = slot
          /\ n0.want = tcr
          /\ n0.have = NoTcr
          /\ n0.refs = 1
          /\ ~n0.inst
          /\ ~n0.static
          /\ ~n0.pos
          /\ ~n0.laf
      OBVIOUS
    <2> HIDE DEF n0
    <2>7. f = n0
      BY <1>6, <2>5, <2>6, SameRecord
    <2> QED
      BY <2>2, <2>7
  <1>8. n0.slot = slot /\ ~n0.pos
    OBVIOUS
  <1>9. [n0 EXCEPT !.pos = TRUE] = n
    <2> DEFINE f == [n0 EXCEPT !.pos = TRUE]
    <2>1. /\ n0.state = n.state
          /\ n0.slot = n.slot
          /\ n0.want = n.want
          /\ n0.have = n.have
          /\ n0.refs = n.refs
          /\ n0.inst = n.inst
          /\ n0.static = n.static
          /\ n.pos = TRUE
          /\ n0.laf = n.laf
      OBVIOUS
    <2> HIDE DEF n, n0
    <2>2. /\ f \in RuleRecord
          /\ f.state = n.state
          /\ f.slot = n.slot
          /\ f.want = n.want
          /\ f.have = n.have
          /\ f.refs = n.refs
          /\ f.inst = n.inst
          /\ f.static = n.static
          /\ f.pos = n.pos
          /\ f.laf = n.laf
      BY <1>6, <2>1 DEF RuleRecord
    <2> HIDE DEF f
    <2>3. f = n
      BY <1>6, <2>2, SameRecord
    <2> QED
      BY <2>3 DEF f
  <1>10. /\ n.state = "NEW"
         /\ n.slot = slot
         /\ n.want = tcr
         /\ n.have = NoTcr
         /\ n.refs = 1
         /\ ~n.inst
         /\ n.pos
         /\ ~n.laf
    OBVIOUS
  <1> HIDE DEF n0, n
  <1>11. t = Assign(u, o, r)
    <2> HIDE DEF a, t
    <2>1. a.rule = [s.rule EXCEPT ![r] = n0]
      BY <1>1, <1>2, <1>6, <1>7 DEF DaemonType
    <2>2. InPos(a, a.rule[r].slot) = {}
      <3>1. a.rule[r] = n0 /\ \A q \in Rule : q # r => a.rule[q] = s.rule[q]
        BY <1>1, <1>2, <2>1 DEF DaemonType
      <3> QED
        BY <1>3, <1>8, <3>1 DEF InPos
    <2>3. t = [a EXCEPT !.rule[r].pos = TRUE]
      BY <1>4, <2>2 DEF PosInsert
    <2> DEFINE n2 == [n0 EXCEPT !.pos = TRUE]
    <2>4. t = [a EXCEPT !.rule[r] = n2]
      BY <1>1, <1>2, <1>7, <2>1, <2>3 DEF DaemonType
    <2> HIDE DEF n2
    <2>5. t = [s EXCEPT !.rule[r] = n2, !.own[o] = r]
      BY <1>1, <1>2, <1>5, <1>6, <1>7, <2>4 DEF DaemonType
    <2>6. n2 = n
      BY <1>9 DEF n2
    <2> QED
      BY <1>1, <1>2, <1>5, <1>6, <2>5, <2>6 DEF With, Assign, DaemonType
  <1> HIDE DEF t, u
  <1>12. Good(u, One(r), NoRule)
    <2>1. Sane(n, s.pin) /\ UpToDate(n)
      BY <1>10 DEF Sane, UpToDate
    <2>2. \A q \in Rule : q # r /\ s.rule[q].pos => s.rule[q].slot # n.slot
      BY <1>3, <1>10
    <2>3. n.state # "QUEUED" /\ s.rule[r].state # "QUEUED"
      BY <1>2, <1>10 DEF Freed
    <2>4. n.refs >= Cardinality(HoldersOf(s, r)) + QueueHolds(n) + One(r)[r]
      <3>1. /\ s.rule[r].refs >= Cardinality(HoldersOf(s, r)) + QueueHolds(s.rule[r]) + NoExtra[r]
            /\ Cardinality(HoldersOf(s, r)) \in Nat
            /\ QueueHolds(s.rule[r]) \in Nat
        BY <1>2, OnePoints, HeldIsLive
      <3>2. s.rule[r].refs = 0
        BY <1>2 DEF Freed
      <3>3. QueueHolds(n) = 0
        BY <2>3 DEF QueueHolds
      <3> QED
        BY <1>2, <1>10, <3>1, <3>2, <3>3, OnePoints
    <2>5. \A q \in Rule : q # r => One(r)[q] = NoExtra[q]
      BY <1>2, OnePoints
    <2> QED
      BY <1>2, <1>6, <2>1, <2>2, <2>3, <2>4, <2>5, OnePoints, RuleChange DEF u
  <1>13. Onward(s, u)
    <2>1. s.rule[r].have = NoTcr
      BY <1>2 DEF Freed
    <2> QED
      BY <1>1, <1>2, <1>6, <1>10, <2>1, RuleKeeps, OnwardPoints DEF u
  <1>14. Live(u, r) /\ u.own = s.own /\ u.rule[r] = n
    BY <1>1, <1>2, <1>6, <1>10, WithPoints DEF Live, SameButRules, u
  <1>15. /\ Good(t, One(s.own[o]), NoRule)
         /\ Onward(u, t)
         /\ t.rule = u.rule
         /\ t.own[o] = r
    <2>1. One(r) \in [Rule -> Nat] /\ One(s.own[o]) \in [Rule -> Nat]
      BY DEF One
    <2>2. \A q \in Rule : One(s.own[o])[q] + One(r)[q] <= One(r)[q] + One(u.own[o])[q]
      BY <1>14 DEF One
    <2> DEFINE d == One(s.own[o])
               e == One(r)
    <2>3. /\ d \in [Rule -> Nat]
          /\ e \in [Rule -> Nat]
          /\ r \in Rule \union {NoRule}
          /\ Good(u, e, NoRule)
          /\ \A q \in Rule : d[q] + One(r)[q] <= e[q] + One(u.own[o])[q]
      BY <1>2, <1>12, <2>1, <2>2
    <2> HIDE DEF d, e
    <2>4. /\ Good(Assign(u, o, r), d, NoRule)
          /\ Onward(u, Assign(u, o, r))
          /\ Assign(u, o, r).rule = u.rule
          /\ Assign(u, o, r).own[o] = r
      BY <1>5, <2>3, OwnGood
    <2> QED
      BY <1>11, <2>4 DEF d
  <1>16. Good(t, One(s.own[o]), r)
    <2> DEFINE d == One(s.own[o])
    <2>1. Good(t, d, NoRule)
      BY <1>15
    <2> HIDE DEF d, h, a
    <2>2. RulesSane(t, r)
      BY <1>2, <2>1, Constants DEF Good, RulesSane
    <2>3. Good(t, d, r)
      BY <2>1, <2>2 DEF Good
    <2> QED
      BY <2>3 DEF d
  <1>17. Onward(s, t)
    BY <1>13, <1>15, OnwardPoints
  <1>18. Live(t, r) /\ t.rule[r] = n
    BY <1>14, <1>15 DEF Live
  <1>19. t = Assign(With(s, r, n), o, r)
    BY <1>11 DEF u
  <1>20. Primes(s, o, tcr, r, n)
    BY <1>2, <1>10, <1>15, <1>16, <1>17, <1>18, <1>19 DEF t, Primes
  <1> QED
    BY <1>2, <1>6, <1>20

\* obj_rule_prime_request.
LEMMA RequestPrimes ==
    ASSUME NEW s, Good(s, NoExtra, NoRule),
           NEW o \in Route, NEW tcr \in Tcr, HasPlace(s, o, tcr)
    PROVE  \E r \in Rule, n \in RuleRecord : Primes(s, o, tcr, r, n)
  BY AdoptGood, NewRuleGood

\* obj_rule_request.  The reference of the pointer's earlier rule is the
\* caller's from then on.
LEMMA RequestGood ==
    ASSUME NEW s, Good(s, NoExtra, NoRule),
           NEW o \in Route, NEW tcr \in Tcr, HasPlace(s, o, tcr)
    PROVE  /\ Good(obj_rule_request(s, o, tcr), One(s.own[o]), NoRule)
           /\ Onward(s, obj_rule_request(s, o, tcr))
  <1> DEFINE t == obj_rule_prime_request(s, o, tcr)
             d == One(s.own[o])
  <1>1. \E r \in Rule : Good(t, d, r) /\ Onward(s, t) /\ t.own[o] = r /\ Live(t, r)
    BY RequestPrimes DEF Primes
  <1>2. d \in [Rule -> Nat]
    BY DEF One
  <1>3. obj_rule_request(s, o, tcr) = UpdateAndKick(t, t.own[o])
    BY DEF obj_rule_request
  <1> HIDE DEF t, d
  <1>4. PICK r \in Rule : Good(t, d, r) /\ Onward(s, t) /\ t.own[o] = r /\ Live(t, r)
    BY <1>1
  <1>5. Good(UpdateAndKick(t, r), d, NoRule) /\ Keeps(t, UpdateAndKick(t, r))
    BY <1>2, <1>4, UpdateAndKickGood
  <1>6. Onward(s, UpdateAndKick(t, r))
    BY <1>4, <1>5, OnwardPoints
  <1> QED
    BY <1>3, <1>4, <1>5, <1>6 DEF d

-----------------------------------------------------------------------------
(* The walk over the positional tree and the removal of the pin.            *)

\* What a handler begins and ends with.
Whole == {s \in DaemonType : Good(s, NoExtra, NoRule)}

\* One rule of the walk.
LEMMA UpdateSlotGood ==
    ASSUME NEW s \in Whole, NEW slot
    PROVE  UpdateSlot(s, slot) \in Whole /\ Onward(s, UpdateSlot(s, slot))
  <1> DEFINE r == obj_rule_pos_lookup(s, slot)
  <1>1. Good(s, NoExtra, NoRule)
    BY DEF Whole
  <1>2. NoExtra \in [Rule -> Nat]
    BY DEF NoExtra
  <1>3. CASE r = NoRule
    <2>1. UpdateSlot(s, slot) = s
      BY <1>3 DEF UpdateSlot
    <2> QED
      BY <2>1, OnwardPoints
  <1>4. CASE r # NoRule
    <2>1. UpdateSlot(s, slot) = UpdateAndKick(s, r)
      BY <1>4 DEF UpdateSlot
    <2>2. r \in Rule /\ s.rule[r].pos
      BY <1>4, PosLookup
    <2> HIDE DEF r
    <2>3. Live(s, r)
      BY <1>1, <2>2, InTreeIsLive
    <2>4. Good(UpdateAndKick(s, r), NoExtra, NoRule) /\ Keeps(s, UpdateAndKick(s, r))
      BY <1>1, <1>2, <2>2, <2>3, UpdateAndKickGood
    <2>5. UpdateAndKick(s, r) \in DaemonType
      BY <2>4 DEF Good
    <2> QED
      BY <2>1, <2>4, <2>5, OnwardPoints DEF Whole
  <1> QED
    BY <1>3, <1>4

\* A walk each step of which is good ends well.
LEMMA WalkGood ==
    ASSUME NEW m \in Nat, NEW w, \A n \in 0..m : w[n] \in Whole,
           \A n \in 1..m : Onward(w[n - 1], w[n])
    PROVE  w[m] \in Whole /\ Onward(w[0], w[m])
  <1> DEFINE Far == {n \in Nat : n <= m => Onward(w[0], w[n])}
  <1>1. 0 \in Far
    BY OnwardPoints
  <1>2. ASSUME NEW n \in Nat, n \in Far PROVE n + 1 \in Far
    <2>1. SUFFICES ASSUME n + 1 <= m PROVE Onward(w[0], w[n + 1])
      OBVIOUS
    <2>2. Onward(w[0], w[n])
      BY <1>2, <2>1
    <2>3. n + 1 \in 1..m /\ (n + 1) - 1 = n
      BY <2>1
    <2>4. Onward(w[n], w[n + 1])
      BY <2>3
    <2> QED
      BY <2>2, <2>4, OnwardPoints
  <1>3. m \in Far
    <2> HIDE DEF Far
    <2> QED
      BY <1>1, <1>2, SetInduction
  <1>4. m \in 0..m
    OBVIOUS
  <1> QED
    BY <1>3, <1>4

\* The states the walk goes through: w[n] when the slots below n are done.
UpdatePath(s, w) ==
    /\ w[0] = s
    /\ \A n \in 0..Width : w[n] \in Whole
    /\ \A n \in 1..Width : w[n] = UpdateSlot(w[n - 1], n - 1)
    /\ UpdateAll(s) = w[Width]

\* The walk passes through all of the tree.
LEMMA UpdateAllWalks ==
    ASSUME NEW s \in Whole
    PROVE  \E w : UpdatePath(s, w)
  <1> DEFINE Body(f) == [n \in 0..Width |->
                            IF n = 0 THEN s ELSE UpdateSlot(f[n - 1], n - 1)]
             walked == CHOOSE f : f = Body(f)
             F == [p \in (1..Width) \X Whole |-> UpdateSlot(p[2], p[1] - 1)]
  <1>1. Width \in Nat
    BY SlotAssumption
  <1>2. UpdateAll(s) = walked[Width]
    BY DEF UpdateAll
  <1>3. \A n \in 1..Width, t \in Whole : F[<<n, t>>] = UpdateSlot(t, n - 1)
    OBVIOUS
  <1> HIDE DEF F
  <1>4. \A n \in 1..Width, t \in Whole : F[<<n, t>>] \in Whole /\ Onward(t, F[<<n, t>>])
    BY <1>3, UpdateSlotGood
  <1>5. Steps(F, Whole, Width)
    BY <1>4 DEF Steps
  <1>6. PICK g : Walk(g, F, Whole, s, Width)
    BY <1>1, <1>5, Iteration
  <1>7. g = Body(g)
    <2>1. g = [n \in 0..Width |-> g[n]]
      BY <1>6 DEF Walk
    <2>2. ASSUME NEW n \in 0..Width
          PROVE  g[n] = IF n = 0 THEN s ELSE UpdateSlot(g[n - 1], n - 1)
      <3>1. CASE n = 0
        BY <1>6, <3>1 DEF Walk
      <3>2. CASE n # 0
        <4>1. n \in 1..Width /\ n - 1 \in 0..Width
          BY <1>1, <3>2
        <4>2. g[n] = F[<<n, g[n - 1]>>] /\ g[n - 1] \in Whole
          BY <1>6, <4>1 DEF Walk
        <4> QED
          BY <1>3, <3>2, <4>1, <4>2
      <3> QED
        BY <3>1, <3>2
    <2> QED
      BY <2>1, <2>2
  <1>8. walked = Body(walked)
    <2> HIDE DEF Body
    <2> QED
      BY <1>7
  <1> HIDE DEF walked
  <1>9. walked[0] = s
    BY <1>1, <1>8
  <1>10. \A n \in 1..Width : walked[n] = UpdateSlot(walked[n - 1], n - 1)
    BY <1>1, <1>8
  <1>11. \A n \in 0..Width : walked[n] \in Whole
    <2> DEFINE In == {n \in Nat : n <= Width => walked[n] \in Whole}
    <2>1. 0 \in In
      BY <1>9
    <2>2. ASSUME NEW n \in Nat, n \in In PROVE n + 1 \in In
      <3>1. SUFFICES ASSUME n + 1 <= Width PROVE walked[n + 1] \in Whole
        OBVIOUS
      <3>2. walked[n] \in Whole
        BY <1>1, <2>2, <3>1
      <3>3. n + 1 \in 1..Width /\ (n + 1) - 1 = n
        BY <1>1, <3>1
      <3> QED
        BY <1>10, <3>2, <3>3, UpdateSlotGood
    <2>3. \A n \in Nat : n \in In
      <3> HIDE DEF In
      <3> QED
        BY <2>1, <2>2, SetInduction
    <2> QED
      BY <1>1, <2>3
  <1> QED
    BY <1>2, <1>9, <1>10, <1>11 DEF UpdatePath

\* The walk.
LEMMA UpdateAllGood ==
    ASSUME NEW s \in Whole
    PROVE  UpdateAll(s) \in Whole /\ Onward(s, UpdateAll(s))
  <1>1. PICK w : UpdatePath(s, w)
    BY UpdateAllWalks
  <1>2. Width \in Nat
    BY SlotAssumption
  <1>3. \A n \in 0..Width : w[n] \in Whole
    BY <1>1 DEF UpdatePath
  <1>4. ASSUME NEW n \in 1..Width PROVE Onward(w[n - 1], w[n])
    <2>1. n - 1 \in 0..Width
      BY <1>2
    <2>2. w[n] = UpdateSlot(w[n - 1], n - 1) /\ w[n - 1] \in Whole
      BY <1>1, <2>1 DEF UpdatePath
    <2> QED
      BY <2>2, UpdateSlotGood
  <1>5. w[Width] \in Whole /\ Onward(w[0], w[Width])
    BY <1>2, <1>3, <1>4, WalkGood
  <1> QED
    BY <1>1, <1>5 DEF UpdatePath

\* One route is asked for its rule.
LEMMA RouteRequestGood ==
    ASSUME NEW s \in Whole, NEW o \in Route, NEW tcr \in Tcr \union {NoTcr}
    PROVE  RouteRequest(s, o, tcr) \in Whole /\ Onward(s, RouteRequest(s, o, tcr))
  <1>1. Good(s, NoExtra, NoRule)
    BY DEF Whole
  <1>2. CASE ~(tcr # NoTcr /\ HasPlace(s, o, tcr))
    <2>1. RouteRequest(s, o, tcr) = s
      BY <1>2 DEF RouteRequest
    <2> QED
      BY <2>1, OnwardPoints
  <1>3. CASE tcr # NoTcr /\ HasPlace(s, o, tcr)
    <2> DEFINE t == obj_rule_request(s, o, tcr)
               d == One(s.own[o])
    <2>1. RouteRequest(s, o, tcr) = t
      BY <1>3 DEF RouteRequest
    <2>2. Good(t, d, NoRule) /\ Onward(s, t)
      BY <1>1, <1>3, RequestGood
    <2>3. d \in [Rule -> Nat] /\ NoExtra \in [Rule -> Nat] /\ \A q \in Rule : NoExtra[q] <= d[q]
      BY DEF One, NoExtra
    <2> HIDE DEF t, d
    <2>4. Good(t, NoExtra, NoRule)
      BY <2>2, <2>3, Weaken
    <2>5. t \in DaemonType
      BY <2>4 DEF Good
    <2> QED
      BY <2>1, <2>2, <2>4, <2>5 DEF Whole
  <1> QED
    BY <1>2, <1>3

\* The routes, one after the other.
LEMMA RoutesInSequence ==
    \A k \in 1..Cardinality(Route) : SetToSeq(Route)[k] \in Route
  <1> DEFINE P == [1..Cardinality(Route) -> Route]
  <1>1. \E f \in P : IsInjective(f)
    <2>1. PICK n \in Nat : n = Cardinality(Route) /\ ExistsBijection(1..n, Route)
      BY OwnerAssumption, FS_CardinalityType
    <2>2. PICK f \in Bijection(1..n, Route) : TRUE
      BY <2>1 DEF ExistsBijection
    <2>3. f \in P
      BY <2>1, <2>2 DEF Bijection, Injection
    <2>4. DOMAIN f = 1..n
      BY <2>1, <2>3
    <2>5. IsInjective(f)
      BY <2>2, <2>4 DEF Bijection, Injection, IsInjective
    <2> QED
      BY <2>3, <2>5
  <1>2. SetToSeq(Route) = CHOOSE f \in P : IsInjective(f)
    BY DEF SetToSeq
  <1> HIDE DEF P
  <1>3. SetToSeq(Route) \in P
    BY <1>1, <1>2
  <1> QED
    BY <1>3 DEF P

\* The states between the routes: w[n] when n of them have been asked.
RequestPath(s, tcrs, w) ==
    /\ w[0] = s
    /\ \A n \in 0..Cardinality(Route) : w[n] \in Whole
    /\ \A n \in 1..Cardinality(Route) :
          w[n] = RouteRequest(w[n - 1], SetToSeq(Route)[n], tcrs[SetToSeq(Route)[n]])
    /\ RoutesRequest(s, tcrs) = w[Cardinality(Route)]

\* All the routes are asked.
LEMMA RoutesRequestWalks ==
    ASSUME NEW s \in Whole, NEW tcrs \in [Route -> Tcr \union {NoTcr}]
    PROVE  \E w : RequestPath(s, tcrs, w)
  <1> DEFINE M == Cardinality(Route)
             To(n) == SetToSeq(Route)[n]
             Body(f) == [n \in 0..M |->
                            IF n = 0 THEN s
                            ELSE LET o == SetToSeq(Route)[n]
                                 IN  RouteRequest(f[n - 1], o, tcrs[o])]
             asked == CHOOSE f : f = Body(f)
             F == [p \in (1..M) \X Whole |-> RouteRequest(p[2], To(p[1]), tcrs[To(p[1])])]
  <1>1. M \in Nat
    BY OwnerAssumption, FS_CardinalityType
  <1>2. RoutesRequest(s, tcrs) = asked[M]
    BY DEF RoutesRequest
  <1>3. \A n \in 1..M, t \in Whole : F[<<n, t>>] = RouteRequest(t, To(n), tcrs[To(n)])
    OBVIOUS
  <1> HIDE DEF F
  <1>4. \A n \in 1..M, t \in Whole :
           /\ RouteRequest(t, To(n), tcrs[To(n)]) \in Whole
           /\ Onward(t, RouteRequest(t, To(n), tcrs[To(n)]))
    <2>1. \A n \in 1..M : To(n) \in Route /\ tcrs[To(n)] \in Tcr \union {NoTcr}
      BY RoutesInSequence
    <2> HIDE DEF To, M
    <2> QED
      BY <2>1, RouteRequestGood
  <1>5. \A n \in 1..M, t \in Whole : F[<<n, t>>] \in Whole /\ Onward(t, F[<<n, t>>])
    <2> HIDE DEF To, M
    <2> QED
      BY <1>3, <1>4
  <1>6. Steps(F, Whole, M)
    BY <1>5 DEF Steps
  <1>7. PICK g : Walk(g, F, Whole, s, M)
    BY <1>1, <1>6, Iteration
  <1>8. \A f : Body(f) = [n \in 0..M |-> IF n = 0 THEN s
                                        ELSE RouteRequest(f[n - 1], To(n), tcrs[To(n)])]
    OBVIOUS
  <1> HIDE DEF M, To, Body
  <1>9. g = Body(g)
    <2>1. g = [n \in 0..M |-> g[n]]
      BY <1>7 DEF Walk
    <2>2. ASSUME NEW n \in 0..M
          PROVE  g[n] = IF n = 0 THEN s ELSE RouteRequest(g[n - 1], To(n), tcrs[To(n)])
      <3>1. CASE n = 0
        BY <1>7, <3>1 DEF Walk
      <3>2. CASE n # 0
        <4>1. n \in 1..M /\ n - 1 \in 0..M
          BY <1>1, <3>2
        <4>2. g[n] = F[<<n, g[n - 1]>>] /\ g[n - 1] \in Whole
          BY <1>7, <4>1 DEF Walk
        <4> QED
          BY <1>3, <3>2, <4>1, <4>2
      <3> QED
        BY <3>1, <3>2
    <2> QED
      BY <1>8, <2>1, <2>2
  <1>10. asked = Body(asked)
    BY <1>9
  <1> HIDE DEF asked
  <1>11. asked[0] = s
    BY <1>1, <1>8, <1>10
  <1>12. \A n \in 1..M : asked[n] = RouteRequest(asked[n - 1], To(n), tcrs[To(n)])
    BY <1>1, <1>8, <1>10
  <1>13. \A n \in 0..M : asked[n] \in Whole
    <2> DEFINE In == {n \in Nat : n <= M => asked[n] \in Whole}
    <2>1. 0 \in In
      BY <1>11
    <2>2. ASSUME NEW n \in Nat, n \in In PROVE n + 1 \in In
      <3>1. SUFFICES ASSUME n + 1 <= M PROVE asked[n + 1] \in Whole
        OBVIOUS
      <3>2. asked[n] \in Whole
        BY <1>1, <2>2, <3>1
      <3>3. n + 1 \in 1..M /\ (n + 1) - 1 = n
        BY <1>1, <3>1
      <3> QED
        BY <1>4, <1>12, <3>2, <3>3
    <2>3. \A n \in Nat : n \in In
      <3> HIDE DEF In
      <3> QED
        BY <2>1, <2>2, SetInduction
    <2> QED
      BY <1>1, <2>3
  <1> QED
    BY <1>2, <1>11, <1>12, <1>13 DEF RequestPath, M, To

\* obj_target_notify_routes, for all the targets that are OK.
LEMMA RoutesRequestGood ==
    ASSUME NEW s \in Whole, NEW tcrs \in [Route -> Tcr \union {NoTcr}]
    PROVE  RoutesRequest(s, tcrs) \in Whole /\ Onward(s, RoutesRequest(s, tcrs))
  <1> DEFINE M == Cardinality(Route)
             To(n) == SetToSeq(Route)[n]
  <1>1. PICK w : RequestPath(s, tcrs, w)
    BY RoutesRequestWalks
  <1>2. M \in Nat
    BY OwnerAssumption, FS_CardinalityType
  <1>3. \A n \in 1..M : To(n) \in Route /\ tcrs[To(n)] \in Tcr \union {NoTcr}
    BY RoutesInSequence
  <1>4. /\ \A n \in 0..M : w[n] \in Whole
        /\ \A n \in 1..M : w[n] = RouteRequest(w[n - 1], To(n), tcrs[To(n)])
        /\ w[0] = s
        /\ RoutesRequest(s, tcrs) = w[M]
    BY <1>1 DEF RequestPath
  <1> HIDE DEF To, M
  <1>5. ASSUME NEW n \in 1..M PROVE Onward(w[n - 1], w[n])
    <2>1. n - 1 \in 0..M
      BY <1>2
    <2>2. w[n] = RouteRequest(w[n - 1], To(n), tcrs[To(n)]) /\ w[n - 1] \in Whole
      BY <1>4, <2>1
    <2> QED
      BY <1>3, <2>2, RouteRequestGood
  <1>6. w[M] \in Whole /\ Onward(w[0], w[M])
    BY <1>2, <1>4, <1>5, WalkGood
  <1> QED
    BY <1>4, <1>6

\* obj_rule_pin_changes = i.
SetPin(s, i) == [s EXCEPT !.pin = i]

LEMMA SetPinGood ==
    ASSUME NEW s \in Whole, NEW i \in 0..3, i = 0 => s.pin = 0
    PROVE  LET p == SetPin(s, i) IN
           /\ p \in Whole
           /\ p.pin = i
           /\ p.rule = s.rule /\ p.work = s.work /\ p.kern = s.kern
           /\ p.mon = s.mon /\ p.dump = s.dump /\ p.own = s.own
           /\ p.fault = s.fault
  <1> DEFINE p == SetPin(s, i)
  <1>1. s \in DaemonType /\ Good(s, NoExtra, NoRule)
    BY DEF Whole
  <1>2. /\ p \in DaemonType
        /\ p.pin = i
        /\ p.rule = s.rule /\ p.work = s.work /\ p.current = s.current
        /\ p.kern = s.kern /\ p.mon = s.mon /\ p.dump = s.dump
        /\ p.own = s.own /\ p.fault = s.fault
    BY <1>1 DEF SetPin, DaemonType
  <1> HIDE DEF p
  <1>3. RulesSane(p, NoRule)
    BY <1>1, <1>2 DEF Good, RulesSane, Sane
  <1>4. Apart(p)
    BY <1>1, <1>2 DEF Good, Apart
  <1>5. RequestsAgree(p)
    BY <1>1, <1>2 DEF Good, RequestsAgree
  <1>6. Counted(p, NoExtra)
    BY <1>1, <1>2 DEF Good, Counted, HoldersOf
  <1>7. p \in Whole
    BY <1>1, <1>2, <1>3, <1>4, <1>5, <1>6 DEF Good, Whole
  <1> QED
    BY <1>2, <1>7 DEF p

\* One step of the pin, and the walk after it.
LEMMA PinnedGood ==
    ASSUME NEW s \in Whole, NEW i \in 0..3, i = 0 => s.pin = 0
    PROVE  LET t == UpdateAll(SetPin(s, i)) IN
           t \in Whole /\ t.pin = i /\ (Informed(s) => Informed(t))
  <1> DEFINE p == SetPin(s, i)
  <1>1. /\ p \in Whole
        /\ p.pin = i
        /\ p.rule = s.rule /\ p.kern = s.kern /\ p.mon = s.mon /\ p.dump = s.dump
        /\ p.fault = s.fault
    BY SetPinGood
  <1> HIDE DEF p
  <1>2. Informed(s) => Informed(p)
    <2>1. (MonTrue(s) => MonTrue(p)) /\ (DumpTrue(s) => DumpTrue(p))
      BY <1>1 DEF MonTrue, LastWord, DumpTrue
    <2>2. \A slot \in Slot : (Told(s, slot) => Told(p, slot))
                             /\ (Agrees(s, slot) => Agrees(p, slot))
      BY <1>1 DEF Told, Agrees, HaveIn
    <2> QED
      BY <1>1, <2>1, <2>2 DEF Informed
  <1>3. UpdateAll(p) \in Whole /\ Onward(p, UpdateAll(p))
    BY <1>1, UpdateAllGood
  <1> QED
    BY <1>1, <1>2, <1>3 DEF Onward, p

\* obj_rule_remove_pin.
LEMMA RemovePinGood ==
    ASSUME NEW s \in Whole, s.pin \in {0, 3},
           NEW tcrs \in [Route -> Tcr \union {NoTcr}]
    PROVE  LET t == obj_rule_remove_pin(s, tcrs) IN
           t \in Whole /\ t.pin = 3 /\ (Informed(s) => Informed(t))
  <1> DEFINE Pinned(t, i) == UpdateAll(SetPin(t, i))
             a == Pinned(s, 0)
             b == Pinned(a, 1)
             c == RoutesRequest(b, tcrs)
             d == Pinned(c, 2)
             f == Pinned(d, 3)
  <1>1. CASE s.pin = 3
    <2>1. obj_rule_remove_pin(s, tcrs) = s
      BY <1>1 DEF obj_rule_remove_pin
    <2> QED
      BY <1>1, <2>1
  <1>2. CASE s.pin = 0
    <2>1. obj_rule_remove_pin(s, tcrs) = f
      BY <1>2 DEF obj_rule_remove_pin, SetPin
    <2>2. a \in Whole /\ a.pin = 0 /\ (Informed(s) => Informed(a))
      BY <1>2, PinnedGood
    <2> HIDE DEF a
    <2>3. b \in Whole /\ b.pin = 1 /\ (Informed(a) => Informed(b))
      BY <2>2, PinnedGood
    <2> HIDE DEF b
    <2>4. c \in Whole /\ Onward(b, c)
      BY <2>3, RoutesRequestGood
    <2> HIDE DEF c
    <2>5. d \in Whole /\ d.pin = 2 /\ (Informed(c) => Informed(d))
      BY <2>4, PinnedGood
    <2> HIDE DEF d
    <2>6. f \in Whole /\ f.pin = 3 /\ (Informed(d) => Informed(f))
      BY <2>5, PinnedGood
    <2> HIDE DEF f
    <2> QED
      BY <2>1, <2>2, <2>3, <2>4, <2>5, <2>6 DEF Onward
  <1> QED
    BY <1>1, <1>2

-----------------------------------------------------------------------------
(* The scan.                                                                *)

\* A request that is not about a rule is appended.
Appended(s, op) == [s EXCEPT !.work = Append(@, Change(op, NoRule))]

LEMMA AppendedGood ==
    ASSUME NEW s \in Whole, NEW op \in {"filters", "routes"}
    PROVE  LET t == Appended(s, op)
               w == Change(op, NoRule)
           IN  /\ t \in Whole
               /\ Keeps(s, t)
               /\ t.rule = s.rule /\ t.pin = s.pin /\ t.kern = s.kern
               /\ t.mon = s.mon /\ t.dump = s.dump /\ t.own = s.own
               /\ \A k \in 1..Len(t.work) : \/ k \in 1..Len(s.work) /\ t.work[k] = s.work[k]
                                            \/ t.work[k] = w
               /\ w.op = op
  <1> DEFINE w == Change(op, NoRule)
             t == Appended(s, op)
             n == Len(s.work)
  <1>1. s \in DaemonType /\ Good(s, NoExtra, NoRule) /\ s.work \in Seq(Work)
    BY DEF Whole, DaemonType
  <1>2. w \in Work /\ w.rule = NoRule /\ w.op = op
    BY DEF Work, Change
  <1>0. t = [s EXCEPT !.work = Append(@, w)]
    BY DEF Appended
  <1> HIDE DEF w, t
  <1>3. /\ Append(s.work, w) \in Seq(Work)
        /\ Len(Append(s.work, w)) = n + 1
        /\ \A k \in 1..n : Append(s.work, w)[k] = s.work[k]
        /\ Append(s.work, w)[n + 1] = w
        /\ n \in Nat
    BY <1>1, <1>2, AppendPoints
  <1>4. /\ t \in DaemonType
        /\ t.work = Append(s.work, w)
        /\ t.rule = s.rule /\ t.pin = s.pin /\ t.current = s.current
        /\ t.kern = s.kern /\ t.mon = s.mon /\ t.dump = s.dump
        /\ t.own = s.own /\ t.fault = s.fault
    BY <1>0, <1>1, <1>3 DEF DaemonType
  <1>6. /\ Len(t.work) = n + 1
        /\ \A k \in 1..(n + 1) : k \in 1..n \/ k = n + 1
        /\ \A k \in 1..n : k \in 1..(n + 1) /\ t.work[k] = s.work[k]
        /\ t.work[n + 1].rule \notin Rule
    BY <1>2, <1>3, <1>4, Constants
  <1>7. RequestsAgree(t)
    <2>1. RequestsAgree(s)
      BY <1>1 DEF Good
    <2>2. \A k \in 1..(n + 1) : t.work[k].rule \in Rule => k \in 1..n
      BY <1>6
    <2>3. \A k \in 1..(n + 1) : t.work[k].rule \in Rule => t.rule[t.work[k].rule].state = "QUEUED"
      BY <1>4, <1>6, <2>1, <2>2 DEF RequestsAgree
    <2>4. \A j, k \in 1..(n + 1) :
             t.work[j].rule \in Rule /\ t.work[j].rule = t.work[k].rule => j = k
      BY <1>6, <2>1, <2>2 DEF RequestsAgree
    <2>5. t.fault = "none" => \A r \in Rule : t.rule[r].state = "QUEUED"
                                 => \E k \in 1..(n + 1) : t.work[k].rule = r
      <3> SUFFICES ASSUME t.fault = "none", NEW r \in Rule, t.rule[r].state = "QUEUED"
                   PROVE  \E k \in 1..(n + 1) : t.work[k].rule = r
        OBVIOUS
      <3>1. PICK k \in 1..n : s.work[k].rule = r
        BY <1>4, <2>1 DEF RequestsAgree
      <3> QED
        BY <1>6, <3>1
    <2> QED
      BY <1>6, <2>3, <2>4, <2>5 DEF RequestsAgree
  <1>8. RulesSane(t, NoRule) /\ Apart(t) /\ Counted(t, NoExtra)
    BY <1>1, <1>4, ZenonT(60) DEF Good, RulesSane, Apart, Counted, HoldersOf
  <1>9. Good(t, NoExtra, NoRule)
    BY <1>1, <1>4, <1>7, <1>8 DEF Good
  <1>10. Keeps(s, t)
    <2>1. \A slot \in Slot, tcr \in AnyTcr : HaveIn(t, slot, tcr) <=> HaveIn(s, slot, tcr)
      BY <1>4 DEF HaveIn
    <2> QED
      BY <1>4, <2>1, SameBeliefs
  <1> HIDE DEF n
  <1>11. \A k \in 1..Len(t.work) : \/ k \in 1..n /\ t.work[k] = s.work[k]
                                   \/ t.work[k] = w
    BY <1>3, <1>4, <1>6
  <1> QED
    BY <1>2, <1>4, <1>9, <1>10, <1>11 DEF Whole, t, w, n

\* What a handler does to the daemon, as far as the invariant goes.
Handled(s, t) == t \in Whole /\ Onward(s, t)

\* queue_process_loop at the end of a handler.
LEMMA KickWhole ==
    ASSUME NEW s \in Whole
    PROVE  Handled(s, Kick(s))
  <1>1. Good(s, NoExtra, NoRule) /\ NoExtra \in [Rule -> Nat]
    BY DEF Whole, NoExtra
  <1>2. Good(Kick(s), NoExtra, NoRule) /\ Keeps(s, Kick(s))
    BY <1>1, KickGood
  <1>3. Kick(s) \in DaemonType
    BY <1>2 DEF Good
  <1> QED
    BY <1>2, <1>3, OnwardPoints DEF Whole, Handled

\* The queue is kicked when the request has been appended.
LEMMA ScheduleGood ==
    ASSUME NEW s \in Whole, NEW op \in {"filters", "routes"}
    PROVE  Schedule(s, op) \in Whole /\ Onward(s, Schedule(s, op))
  <1> DEFINE t == Appended(s, op)
  <1>1. t \in Whole /\ Keeps(s, t)
    BY AppendedGood
  <1>2. Schedule(s, op) = Kick(t)
    BY DEF Schedule, Appended
  <1> HIDE DEF t
  <1>3. Handled(t, Kick(t))
    BY <1>1, KickWhole
  <1> QED
    BY <1>1, <1>2, <1>3, OnwardPoints DEF Handled

\* filter_got_chain.
LEMMA ChainsFoundGood ==
    ASSUME NEW s \in Whole
    PROVE  Handled(s, ChainsFound(s))
  <1> DEFINE t == ChainsFound(s)
             found == {c \in ChainBase..(Width - 1) : s.kern[c] # NoTcr}
  <1>1. s \in DaemonType /\ Good(s, NoExtra, NoRule)
    BY DEF Whole
  <1>2. found \subseteq ChainBase..(Width - 1)
    OBVIOUS
  <1>3. t = [s EXCEPT !.chains = @ \union found]
    BY DEF ChainsFound
  <1> HIDE DEF found, t
  <1>4. /\ t \in DaemonType
        /\ t.work = s.work
        /\ t.rule = s.rule /\ t.pin = s.pin /\ t.current = s.current
        /\ t.kern = s.kern /\ t.mon = s.mon /\ t.dump = s.dump
        /\ t.own = s.own /\ t.fault = s.fault
    BY <1>1, <1>2, <1>3 DEF DaemonType
  <1>5. Good(t, NoExtra, NoRule)
    <2>1. (t.current # "filters" => t.dump = <<>>) /\ t.fault # "pre_install"
      BY <1>1, <1>4 DEF Good
    <2> QED
      BY <1>1, <1>4, <2>1, SameGood
  <1>6. Keeps(s, t)
    <2>1. \A slot \in Slot, tcr \in AnyTcr : HaveIn(t, slot, tcr) <=> HaveIn(s, slot, tcr)
      BY <1>4 DEF HaveIn
    <2> QED
      BY <1>4, <2>1, SameBeliefs
  <1> QED
    BY <1>4, <1>5, <1>6, OnwardPoints DEF Whole, Handled, t

\* advance_scan, and the queue goes on.
LEMMA AdvanceGood ==
    ASSUME NEW s \in Whole, s.pin \in {0, 3},
           NEW op, NEW tcrs, op = "routes" => tcrs \in [Route -> Tcr \union {NoTcr}]
    PROVE  LET t == Kick(advance_scan(s, op, tcrs)) IN
           t \in Whole /\ t.pin \in {0, 3} /\ (Informed(s) => Informed(t))
  <1> DEFINE a == advance_scan(s, op, tcrs)
  <1>1. a \in Whole /\ a.pin \in {0, 3} /\ (Informed(s) => Informed(a))
    <2>1. CASE op = "filters"
      <3>1. a = Schedule(ChainsFound(s), "routes")
        BY <2>1 DEF advance_scan
      <3>2. Handled(s, ChainsFound(s))
        BY ChainsFoundGood
      <3>3. /\ Schedule(ChainsFound(s), "routes") \in Whole
            /\ Onward(ChainsFound(s), Schedule(ChainsFound(s), "routes"))
        BY <3>2, ScheduleGood DEF Handled
      <3> HIDE DEF a
      <3> QED
        BY <3>1, <3>2, <3>3 DEF Handled, Onward
    <2>2. CASE op = "routes"
      <3>1. a = obj_rule_remove_pin(s, tcrs)
        BY <2>2 DEF advance_scan
      <3> HIDE DEF a
      <3> QED
        BY <2>2, <3>1, RemovePinGood
    <2>3. CASE op \notin {"filters", "routes"}
      <3>1. a = s
        BY <2>3 DEF advance_scan
      <3> HIDE DEF a
      <3> QED
        BY <3>1
    <2> QED
      BY <2>1, <2>2, <2>3
  <1> HIDE DEF a
  <1>2. Handled(a, Kick(a))
    BY <1>1, KickWhole
  <1> QED
    BY <1>1, <1>2 DEF Handled, Onward, a

\* The daemon crashes: nothing is claimed of it any more but its shape.
LEMMA FailsGood ==
    ASSUME NEW s \in Whole, NEW why \in {"laf null", "freed node"}
    PROVE  Handled(s, Fails(s, why))
  <1> DEFINE t == Fails(s, why)
  <1>1. s \in DaemonType /\ Good(s, NoExtra, NoRule)
    BY DEF Whole
  <1>2. /\ t \in DaemonType
        /\ t.work = s.work
        /\ t.rule = s.rule /\ t.pin = s.pin /\ t.current = s.current
        /\ t.dump = s.dump /\ t.own = s.own /\ t.fault = why
    BY <1>1 DEF DaemonType, Fails
  <1> HIDE DEF t
  <1>3. why # "none" /\ why # "pre_install"
    OBVIOUS
  <1>4. t.current # "filters" => t.dump = <<>>
    BY <1>1, <1>2 DEF Good
  <1>5. Good(t, NoExtra, NoRule)
    BY <1>1, <1>2, <1>3, <1>4, SameGood
  <1>6. Informed(t)
    BY <1>2, <1>3 DEF Informed
  <1> QED
    BY <1>2, <1>5, <1>6 DEF Whole, Handled, Onward, t

-----------------------------------------------------------------------------
(* The routes.                                                              *)

\* A reference that nothing points from any more is dropped.
LEMMA LetGoGood ==
    ASSUME NEW t, NEW r \in Rule, Good(t, One(r), NoRule)
    PROVE  Handled(t, Kick(Unref(t, r)))
  <1> DEFINE e == One(r)
             u == Unref(t, r)
  <1>1. /\ e \in [Rule -> Nat]
        /\ e[r] > 0
        /\ NoExtra \in [Rule -> Nat]
        /\ NoExtra = [e EXCEPT ![r] = @ - 1]
        /\ Good(t, e, NoRule)
    BY OnePoints
  <1> HIDE DEF e
  <1>2. Good(u, NoExtra, NoRule) /\ Keeps(t, u)
    BY <1>1, UnrefGood
  <1> HIDE DEF u
  <1>3. u \in Whole
    BY <1>2 DEF Whole, Good
  <1>4. Handled(u, Kick(u))
    BY <1>3, KickWhole
  <1> QED
    BY <1>2, <1>4, OnwardPoints DEF Handled, u

\* A route is reaped and drops its reference.
LEMMA DropGood ==
    ASSUME NEW s \in Whole, NEW o \in Owner, NEW r \in Rule, s.own[o] = r
    PROVE  Handled(s, Drop(s, o))
  <1> DEFINE t == Assign(s, o, NoRule)
             d == One(r)
             u == Kick(Unref(t, r))
  <1>1. Good(s, NoExtra, NoRule) /\ NoExtra \in [Rule -> Nat]
    BY DEF Whole, NoExtra
  <1>2. Drop(s, o) = u
    BY DEF Drop, Assign
  <1>3. d \in [Rule -> Nat] /\ NoRule \in Rule \union {NoRule}
    BY OnePoints
  <1>4. \A q \in Rule : d[q] + One(NoRule)[q] <= NoExtra[q] + One(s.own[o])[q]
    BY Constants DEF One, NoExtra
  <1> HIDE DEF d, t
  <1>5. Good(Assign(s, o, NoRule), d, NoRule) /\ Onward(s, Assign(s, o, NoRule))
    BY <1>1, <1>3, <1>4, OwnGood
  <1>6. Good(t, One(r), NoRule)
    BY <1>5 DEF d, t
  <1>7. Handled(t, u)
    BY <1>6, LetGoGood
  <1> HIDE DEF u
  <1> QED
    BY <1>2, <1>5, <1>7, OnwardPoints DEF Handled, t

\* Request: a first rule.
LEMMA FirstRuleGood ==
    ASSUME NEW s \in Whole, NEW o \in Route, NEW tcr \in Tcr, HasPlace(s, o, tcr)
    PROVE  Handled(s, obj_rule_request(s, o, tcr))
  <1> DEFINE t == obj_rule_request(s, o, tcr)
  <1>1. Good(s, NoExtra, NoRule)
    BY DEF Whole
  <1>2. Good(t, One(s.own[o]), NoRule) /\ Onward(s, t)
    BY <1>1, RequestGood
  <1> HIDE DEF t
  <1>3. /\ One(s.own[o]) \in [Rule -> Nat]
        /\ NoExtra \in [Rule -> Nat]
        /\ \A q \in Rule : NoExtra[q] <= One(s.own[o])[q]
    BY DEF One, NoExtra
  <1> DEFINE e == One(s.own[o])
  <1>4. Good(t, e, NoRule) /\ e \in [Rule -> Nat] /\ \A q \in Rule : NoExtra[q] <= e[q]
    BY <1>2, <1>3
  <1> HIDE DEF e
  <1>5. Good(t, NoExtra, NoRule)
    BY <1>3, <1>4, Weaken
  <1> QED
    BY <1>2, <1>5 DEF Whole, Handled, Good, t

\* Replace: the new rule first, then the old one is let go.
LEMMA NextRuleGood ==
    ASSUME NEW s \in Whole, NEW o \in Route, NEW tcr \in Tcr, HasPlace(s, o, tcr),
           NEW r \in Rule, s.own[o] = r
    PROVE  Handled(s, Kick(Unref(obj_rule_request(s, o, tcr), r)))
  <1> DEFINE t == obj_rule_request(s, o, tcr)
  <1>1. Good(s, NoExtra, NoRule)
    BY DEF Whole
  <1>2. Good(t, One(r), NoRule) /\ Onward(s, t)
    BY <1>1, RequestGood
  <1> HIDE DEF t
  <1>3. Handled(t, Kick(Unref(t, r)))
    BY <1>2, LetGoGood
  <1> QED
    BY <1>2, <1>3, OnwardPoints DEF Handled, t

\* obj_route_delete.
LEMMA DeleteGood ==
    ASSUME NEW s \in Whole, NEW o \in Route, NEW r \in Rule, s.own[o] = r
    PROVE  LET u == IF s.rule[r].have # NoTcr THEN Kick(Uninstall(s, r)) ELSE s
           IN  Handled(s, Drop(u, o))
  <1> DEFINE u == IF s.rule[r].have # NoTcr THEN Kick(Uninstall(s, r)) ELSE s
  <1>1. /\ Good(s, NoExtra, NoRule)
        /\ NoExtra \in [Rule -> Nat]
        /\ o \in Owner
    BY DEF Whole, NoExtra, Owner
  <1>2. Live(s, r)
    BY <1>1, HeldIsLive
  <1>3. u \in Whole /\ Keeps(s, u)
    <2>1. CASE s.rule[r].have = NoTcr
      BY <2>1, KeepsItself
    <2>2. CASE s.rule[r].have # NoTcr
      <3> DEFINE v == Uninstall(s, r)
      <3>1. Good(v, NoExtra, NoRule) /\ Keeps(s, v)
        BY <1>1, <1>2, UninstallGood
      <3>2. u = Kick(v)
        BY <2>2
      <3> HIDE DEF v, u
      <3>3. Good(Kick(v), NoExtra, NoRule) /\ Keeps(v, Kick(v))
        BY <1>1, <3>1, KickGood
      <3>4. Kick(v) \in DaemonType
        BY <3>3 DEF Good
      <3> QED
        BY <3>1, <3>2, <3>3, <3>4, KeepsTransitive DEF Whole
    <2> QED
      BY <2>1, <2>2
  <1> HIDE DEF u
  <1>4. u.own[o] = r
    BY <1>3 DEF Keeps
  <1>5. Handled(u, Drop(u, o))
    BY <1>1, <1>3, <1>4, DropGood
  <1> QED
    BY <1>3, <1>5, OnwardPoints DEF Handled, u

-----------------------------------------------------------------------------
(* The handlers: every one takes the invariant to the next state.           *)

\* What is left of the bounds.
Left == [ops : 0..MaxOps, ext : 0..MaxExt, lost : 0..MaxLost, scans : 0..MaxScans]

\* Where a handler starts from.
LEMMA Begins ==
    ASSUME IndInv
    PROVE  /\ Here \in Whole
           /\ Here \in DaemonType
           /\ pin \in {0, 3}
           /\ left \in Left
           /\ torn \in BOOLEAN
           /\ ~torn => Informed(Here)
           /\ Here.rule = rule /\ Here.work = work /\ Here.current = current
           /\ Here.pin = pin /\ Here.kern = kern /\ Here.mon = mon
           /\ Here.dump = dump /\ Here.chains = chains /\ Here.own = own
           /\ Here.fault = fault
  <1>1. Good(Here, NoExtra, NoRule)
    BY DEF IndInv
  <1>2. Here \in DaemonType
    BY <1>1 DEF Good
  <1>3. Here \in Whole
    BY <1>1, <1>2 DEF Whole
  <1>4. /\ pin \in {0, 3}
        /\ left \in Left
        /\ torn \in BOOLEAN
        /\ ~torn => Informed(Here)
    BY DEF IndInv, Left
  <1> QED
    BY <1>2, <1>3, <1>4 DEF Here

\* Where it ends.
LEMMA Ends ==
    ASSUME NEW s \in Whole, Becomes(s), s.pin \in {0, 3},
           left' \in Left, torn' \in BOOLEAN,
           ~torn' => Informed(s)
    PROVE  IndInv'
  <1>1. s \in DaemonType /\ Good(s, NoExtra, NoRule)
    BY DEF Whole
  <1>2. Here' = s
    <2>1. Here' = [rule |-> s.rule, work |-> s.work, current |-> s.current, pin |-> s.pin,
                   kern |-> s.kern, mon |-> s.mon, dump |-> s.dump, chains |-> s.chains,
                   own |-> s.own, fault |-> s.fault]
      BY DEF Here, Becomes
    <2> QED
      BY <1>1, <2>1 DEF DaemonType
  <1>3. pin' \in {0, 3}
    BY DEF Becomes
  <1>4. Good(Here', NoExtra, NoRule) /\ (~torn' => Informed(Here'))
    BY <1>1, <1>2
  <1> QED
    BY <1>3, <1>4 DEF IndInv, Left

\* The bounds of the outside world and the history are left alone.
LEMMA EndsHandled ==
    ASSUME IndInv, NEW s \in Whole, NEW t, Handled(s, t), s.pin = pin,
           ~torn => Informed(s),
           Becomes(t), left' \in Left, torn' = torn
    PROVE  IndInv'
  <1>1. pin \in {0, 3} /\ torn \in BOOLEAN
    BY Begins
  <1>2. t \in Whole /\ t.pin \in {0, 3} /\ (~torn => Informed(t))
    BY <1>1 DEF Handled, Onward
  <1> QED
    BY <1>1, <1>2, Ends

\* A search of the lost and found tree fails.
LEMMA EndsInFault ==
    ASSUME IndInv, NEW s \in Whole, s.pin = pin, ~torn => Informed(s),
           MayFollowNull(s), left' \in Left, torn' = torn
    PROVE  IndInv'
  <1>1. Becomes(Fails(s, "laf null"))
    BY DEF MayFollowNull
  <1>2. Handled(s, Fails(s, "laf null"))
    BY FailsGood
  <1> QED
    BY <1>1, <1>2, EndsHandled

\* What a message leads to, when nothing but it was wrong.
LEMMA EndsHeard ==
    ASSUME IndInv, NEW s \in Whole, s.pin = pin, NEW m \in Message,
           ~torn => InformedBut(s, m),
           Becomes(obj_rule_netlink_found(s, m)), left' = left, torn' = torn
    PROVE  IndInv'
  <1> DEFINE t == obj_rule_netlink_found(s, m)
  <1>1. Good(s, NoExtra, NoRule)
    BY DEF Whole
  <1>2. Good(t, NoExtra, NoRule) /\ Hears(s, m, t)
    BY <1>1, FoundGood
  <1>3. Becomes(t)
    OBVIOUS
  <1> HIDE DEF t
  <1>4. t \in Whole
    BY <1>2 DEF Whole, Good
  <1>5. pin \in {0, 3} /\ left' \in Left /\ torn' \in BOOLEAN
    BY Begins
  <1>6. t.pin \in {0, 3} /\ (~torn' => Informed(t))
    BY <1>2, <1>5 DEF Hears
  <1> QED
    BY <1>3, <1>4, <1>5, <1>6, Ends

\* When the fault of a crash is all that is left, the belief is no matter.
LEMMA EndsMessageInFault ==
    ASSUME IndInv, NEW s \in Whole, s.pin = pin,
           MayFollowNull(s), left' = left, torn' = torn
    PROVE  IndInv'
  <1> DEFINE t == Fails(s, "laf null")
  <1>1. Becomes(t)
    BY DEF MayFollowNull
  <1>2. Handled(s, t)
    BY FailsGood
  <1>3. t.fault = "laf null"
    <2>1. s \in DaemonType
      BY DEF Whole
    <2> QED
      BY <2>1 DEF Fails, DaemonType
  <1> HIDE DEF t
  <1>4. Informed(t)
    BY <1>3 DEF Informed
  <1>5. pin \in {0, 3} /\ left' \in Left /\ torn' \in BOOLEAN
    BY Begins
  <1>6. t \in Whole /\ t.pin \in {0, 3}
    BY <1>2, <1>5 DEF Handled, Onward
  <1> QED
    BY <1>1, <1>4, <1>5, <1>6, Ends

\* A notification is taken off the socket; the others are what they were.
LEMMA NotificationTaken ==
    ASSUME NEW h \in Whole, h.mon # <<>>
    PROVE  LET s == [h EXCEPT !.mon = Tail(@)]
               m == Head(h.mon)
           IN  /\ s \in Whole
               /\ s.pin = h.pin
               /\ m \in Message
               /\ h.fault = "none" /\ Informed(h) => InformedBut(s, m)
  <1> DEFINE s == [h EXCEPT !.mon = Tail(@)]
             m == Head(h.mon)
  <1>1. h \in DaemonType /\ Good(h, NoExtra, NoRule) /\ h.mon \in Seq(Message)
    BY DEF Whole, DaemonType
  <1>2. /\ Tail(h.mon) \in Seq(Message)
        /\ Len(h.mon) \in Nat \ {0}
        /\ Len(Tail(h.mon)) = Len(h.mon) - 1
        /\ \A k \in 1..Len(Tail(h.mon)) : Tail(h.mon)[k] = h.mon[k + 1]
        /\ m = h.mon[1]
        /\ m \in Message
    BY <1>1, TailPoints
  <1>3. /\ s \in DaemonType
        /\ s.mon = Tail(h.mon)
        /\ s.work = h.work
        /\ s.rule = h.rule /\ s.pin = h.pin /\ s.current = h.current
        /\ s.kern = h.kern /\ s.dump = h.dump
        /\ s.own = h.own /\ s.fault = h.fault
    BY <1>1, <1>2 DEF DaemonType
  <1> HIDE DEF s, m
  <1>4. Good(s, NoExtra, NoRule)
    <2>1. (s.current # "filters" => s.dump = <<>>) /\ s.fault # "pre_install"
      BY <1>1, <1>3 DEF Good
    <2> QED
      BY <1>1, <1>3, <2>1, SameGood
  <1>5. /\ Len(s.mon) = Len(h.mon) - 1
        /\ \A k \in 1..Len(s.mon) : k + 1 \in 1..Len(h.mon) /\ s.mon[k] = h.mon[k + 1]
        /\ \A k \in 1..Len(h.mon) :
              k # 1 => (k - 1 \in 1..Len(s.mon) /\ s.mon[k - 1] = h.mon[k])
        /\ 1 \in 1..Len(h.mon)
    <2>1. \A k \in 1..Len(h.mon) :
             k # 1 => (k - 1 \in 1..(Len(h.mon) - 1) /\ (k - 1) + 1 = k)
      BY <1>2
    <2> QED
      BY <1>2, <1>3, <2>1
  <1>6. ASSUME h.fault = "none", Informed(h) PROVE InformedBut(s, m)
    <2>1. MonTrue(h) /\ DumpTrue(h) /\ \A slot \in Slot : Told(h, slot) \/ Agrees(h, slot)
      BY <1>6 DEF Informed
    <2>2. MonTrue(s)
      <3> SUFFICES ASSUME NEW k \in 1..Len(s.mon), LastWord(s, k)
                   PROVE  s.kern[s.mon[k].slot] = Effect(s.mon[k])
        BY DEF MonTrue
      <3>1. LastWord(h, k + 1)
        <4> SUFFICES ASSUME NEW j \in 1..Len(h.mon), j > k + 1
                     PROVE  h.mon[j].slot # h.mon[k + 1].slot
          BY DEF LastWord
        <4>1. j - 1 \in 1..Len(s.mon) /\ j - 1 > k /\ s.mon[j - 1] = h.mon[j]
          BY <1>2, <1>5
        <4> QED
          BY <1>5, <4>1 DEF LastWord
      <3> QED
        BY <1>3, <1>5, <2>1, <3>1 DEF MonTrue
    <2>3. DumpTrue(s)
      BY <1>3, <2>1 DEF DumpTrue
    <2>4. ASSUME NEW slot \in Slot, slot # m.slot PROVE Told(s, slot) \/ Agrees(s, slot)
      <3>1. Agrees(h, slot) => Agrees(s, slot)
        BY <1>3 DEF Agrees, HaveIn
      <3>2. Told(h, slot) => Told(s, slot)
        BY <1>2, <1>3, <1>5, <2>4, SMTT(30) DEF Told
      <3> QED
        BY <2>1, <3>1, <3>2
    <2>5. Told(s, m.slot) \/ s.kern[m.slot] = Effect(m)
      <3> SUFFICES ASSUME ~Told(s, m.slot) PROVE s.kern[m.slot] = Effect(m)
        OBVIOUS
      <3>1. LastWord(h, 1)
        <4> SUFFICES ASSUME NEW j \in 1..Len(h.mon), j > 1
                     PROVE  h.mon[j].slot # h.mon[1].slot
          BY DEF LastWord
        <4>1. j - 1 \in 1..Len(s.mon) /\ s.mon[j - 1] = h.mon[j]
          BY <1>5
        <4> QED
          BY <1>2, <4>1 DEF Told
      <3> QED
        BY <1>2, <1>3, <1>5, <2>1, <3>1 DEF MonTrue
    <2> QED
      BY <2>2, <2>3, <2>4, <2>5 DEF InformedBut
  <1> QED
    BY <1>2, <1>3, <1>4, <1>6 DEF Whole, s, m

\* A filter of the dump is received; its slot still has it.
LEMMA FilterTaken ==
    ASSUME NEW h \in Whole, h.dump # <<>>
    PROVE  LET s == [h EXCEPT !.dump = Tail(@)]
               m == [op |-> "NEW", slot |-> Head(h.dump).slot, tcr |-> Head(h.dump).tcr]
           IN  /\ s \in Whole
               /\ s.pin = h.pin
               /\ m \in Message
               /\ h.fault = "none" /\ Informed(h) => InformedBut(s, m)
  <1> DEFINE s == [h EXCEPT !.dump = Tail(@)]
             m == [op |-> "NEW", slot |-> Head(h.dump).slot, tcr |-> Head(h.dump).tcr]
             Answer == [slot : Slot, tcr : AnyTcr]
  <1>1. h \in DaemonType /\ Good(h, NoExtra, NoRule) /\ h.dump \in Seq(Answer)
    BY DEF Whole, DaemonType
  <1>2. /\ Tail(h.dump) \in Seq(Answer)
        /\ Len(h.dump) \in Nat \ {0}
        /\ Len(Tail(h.dump)) = Len(h.dump) - 1
        /\ \A k \in 1..Len(Tail(h.dump)) : Tail(h.dump)[k] = h.dump[k + 1]
        /\ Head(h.dump) = h.dump[1]
        /\ Head(h.dump) \in Answer
    <2> HIDE DEF Answer
    <2> QED
      BY <1>1, TailPoints
  <1>3. /\ s \in DaemonType
        /\ s.dump = Tail(h.dump)
        /\ s.work = h.work
        /\ s.rule = h.rule /\ s.pin = h.pin /\ s.current = h.current
        /\ s.kern = h.kern /\ s.mon = h.mon
        /\ s.own = h.own /\ s.fault = h.fault
    BY <1>1, <1>2 DEF DaemonType
  <1>4. /\ m \in Message
        /\ m.slot = h.dump[1].slot
        /\ Effect(m) = h.dump[1].tcr
    BY <1>2 DEF Message, Effect
  <1> HIDE DEF s, m
  <1>5. Good(s, NoExtra, NoRule)
    <2>1. (s.current # "filters" => s.dump = <<>>) /\ s.fault # "pre_install"
      BY <1>1, <1>3 DEF Good
    <2> QED
      BY <1>1, <1>3, <2>1, SameGood
  <1>6. /\ \A k \in 1..Len(s.dump) : k + 1 \in 1..Len(h.dump) /\ s.dump[k] = h.dump[k + 1]
        /\ \A k \in 1..Len(h.dump) :
              k # 1 => (k - 1 \in 1..Len(s.dump) /\ s.dump[k - 1] = h.dump[k])
        /\ 1 \in 1..Len(h.dump)
    <2>1. \A k \in 1..Len(h.dump) :
             k # 1 => (k - 1 \in 1..(Len(h.dump) - 1) /\ (k - 1) + 1 = k)
      BY <1>2
    <2> QED
      BY <1>2, <1>3, <2>1
  <1>7. ASSUME h.fault = "none", Informed(h) PROVE InformedBut(s, m)
    <2>1. MonTrue(h) /\ DumpTrue(h) /\ \A slot \in Slot : Told(h, slot) \/ Agrees(h, slot)
      BY <1>7 DEF Informed
    <2>2. MonTrue(s)
      BY <1>3, <2>1 DEF MonTrue, LastWord
    <2>3. DumpTrue(s)
      BY <1>3, <1>6, <2>1 DEF DumpTrue
    <2>4. ASSUME NEW slot \in Slot, slot # m.slot PROVE Told(s, slot) \/ Agrees(s, slot)
      <3>1. Agrees(h, slot) => Agrees(s, slot)
        BY <1>3 DEF Agrees, HaveIn
      <3>2. Told(h, slot) => Told(s, slot)
        BY <1>3, <1>4, <1>6, <2>4, ZenonT(60) DEF Told
      <3> QED
        BY <2>1, <3>1, <3>2
    <2>5. s.kern[m.slot] = Effect(m)
      BY <1>3, <1>4, <1>6, <2>1 DEF DumpTrue
    <2> QED
      BY <2>2, <2>3, <2>4, <2>5 DEF InformedBut
  <1> QED
    BY <1>3, <1>4, <1>5, <1>7 DEF Whole, s, m

\* monitor.c.
LEMMA ReceiveNotificationKeeps == IndInv /\ ReceiveNotification => IndInv'
  <1> SUFFICES ASSUME IndInv, ReceiveNotification PROVE IndInv'
    OBVIOUS
  <1> DEFINE s == [Here EXCEPT !.mon = Tail(@)]
             m == Head(mon)
  <1>1. /\ Here \in Whole /\ Here.mon = mon /\ Here.pin = pin /\ Here.fault = fault
        /\ torn \in BOOLEAN
        /\ ~torn => Informed(Here)
    BY Begins
  <1>2. /\ fault = "none"
        /\ mon # <<>>
        /\ \/ Becomes(obj_rule_netlink_found(s, m))
           \/ MayFollowNull(s)
        /\ left' = left
        /\ torn' = torn
    BY DEF ReceiveNotification, Running
  <1>3. /\ s \in Whole
        /\ s.pin = pin
        /\ m \in Message
        /\ ~torn => InformedBut(s, m)
    BY <1>1, <1>2, NotificationTaken
  <1> HIDE DEF s, m
  <1>4. CASE Becomes(obj_rule_netlink_found(s, m))
    BY <1>2, <1>3, <1>4, EndsHeard
  <1>5. CASE MayFollowNull(s)
    BY <1>2, <1>3, <1>5, EndsMessageInFault
  <1> QED
    BY <1>2, <1>4, <1>5

\* nl_receive_cb, in a dump.
LEMMA ReceiveFilterKeeps == IndInv /\ ReceiveFilter => IndInv'
  <1> SUFFICES ASSUME IndInv, ReceiveFilter PROVE IndInv'
    OBVIOUS
  <1> DEFINE s == [Here EXCEPT !.dump = Tail(@)]
             m == [op |-> "NEW", slot |-> Head(dump).slot, tcr |-> Head(dump).tcr]
  <1>1. /\ Here \in Whole /\ Here.dump = dump /\ Here.pin = pin /\ Here.fault = fault
        /\ torn \in BOOLEAN
        /\ ~torn => Informed(Here)
    BY Begins
  <1>2. /\ fault = "none"
        /\ dump # <<>>
        /\ \/ Becomes(obj_rule_netlink_found(s, m))
           \/ MayFollowNull(s)
        /\ left' = left
        /\ torn' = torn
    BY DEF ReceiveFilter, Running
  <1>3. /\ s \in Whole
        /\ s.pin = pin
        /\ m \in Message
        /\ ~torn => InformedBut(s, m)
    BY <1>1, <1>2, FilterTaken
  <1> HIDE DEF s, m
  <1>4. CASE Becomes(obj_rule_netlink_found(s, m))
    BY <1>2, <1>3, <1>4, EndsHeard
  <1>5. CASE MayFollowNull(s)
    BY <1>2, <1>3, <1>5, EndsMessageInFault
  <1> QED
    BY <1>2, <1>4, <1>5

\* The last reply to a request.
LEMMA RequestCompletesKeeps == IndInv /\ RequestCompletes => IndInv'
  <1> SUFFICES ASSUME IndInv, RequestCompletes PROVE IndInv'
    OBVIOUS
  <1> DEFINE s == [Here EXCEPT !.current = "none"]
  <1>1. /\ Here \in Whole /\ Here \in DaemonType
        /\ Here.dump = dump /\ Here.pin = pin
        /\ pin \in {0, 3}
        /\ left \in Left
        /\ torn \in BOOLEAN
        /\ ~torn => Informed(Here)
    BY Begins
  <1>2. /\ dump = <<>>
        /\ \/ current # "routes" /\ Becomes(Kick(advance_scan(s, current, <<>>)))
           \/ \E tcrs \in RouteRequests(s) :
                 current = "routes" /\ Becomes(Kick(advance_scan(s, current, tcrs)))
           \/ Becomes(Fails(s, "freed node"))
        /\ left' = left
        /\ torn' = torn
    BY DEF RequestCompletes
  <1>3. /\ s \in DaemonType
        /\ s.dump = Here.dump
        /\ s.work = Here.work
        /\ s.rule = Here.rule /\ s.pin = Here.pin
        /\ s.kern = Here.kern /\ s.mon = Here.mon
        /\ s.own = Here.own /\ s.fault = Here.fault
    BY <1>1 DEF DaemonType
  <1> HIDE DEF s
  <1>4. s \in Whole
    <2>1. Good(Here, NoExtra, NoRule)
      BY <1>1 DEF Whole
    <2>2. s.dump = <<>> /\ s.fault # "pre_install"
      BY <1>1, <1>2, <1>3, <2>1 DEF Good
    <2>3. Good(s, NoExtra, NoRule)
      BY <1>3, <2>1, <2>2, SameGood
    <2> QED
      BY <1>3, <2>3 DEF Whole
  <1>5. Keeps(Here, s)
    <2>1. \A slot \in Slot, tcr \in AnyTcr : HaveIn(s, slot, tcr) <=> HaveIn(Here, slot, tcr)
      BY <1>3 DEF HaveIn
    <2> QED
      BY <1>3, <2>1, SameBeliefs
  <1>6. s.pin = pin /\ (~torn => Informed(s))
    BY <1>1, <1>3, <1>5 DEF Keeps
  <1>7. ASSUME NEW tcrs, current = "routes" => tcrs \in [Route -> Tcr \union {NoTcr}],
               Becomes(Kick(advance_scan(s, current, tcrs)))
        PROVE  IndInv'
    <2> DEFINE t == Kick(advance_scan(s, current, tcrs))
    <2>1. t \in Whole /\ t.pin \in {0, 3} /\ (Informed(s) => Informed(t))
      BY <1>1, <1>4, <1>6, <1>7, AdvanceGood
    <2>2. Becomes(t)
      BY <1>7
    <2> HIDE DEF t
    <2> QED
      BY <1>1, <1>2, <1>6, <2>1, <2>2, Ends
  <1>8. CASE current # "routes" /\ Becomes(Kick(advance_scan(s, current, <<>>)))
    BY <1>7, <1>8
  <1>9. ASSUME NEW tcrs \in RouteRequests(s),
               current = "routes", Becomes(Kick(advance_scan(s, current, tcrs)))
        PROVE  IndInv'
    BY <1>7, <1>9 DEF RouteRequests
  <1>10. CASE Becomes(Fails(s, "freed node"))
    <2>1. Handled(s, Fails(s, "freed node"))
      BY <1>4, FailsGood
    <2> QED
      BY <1>1, <1>2, <1>4, <1>6, <1>10, <2>1, EndsHandled
  <1> QED
    BY <1>2, <1>8, <1>9, <1>10

\* scan_timeout_cb.
LEMMA ScanTimerKeeps == IndInv /\ ScanTimer => IndInv'
  <1> SUFFICES ASSUME IndInv, ScanTimer PROVE IndInv'
    OBVIOUS
  <1>1. /\ Here \in Whole /\ Here.pin = pin
        /\ left \in Left
        /\ ~torn => Informed(Here)
    BY Begins
  <1>2. /\ left.scans > 0
        /\ left' = [left EXCEPT !.scans = @ - 1]
        /\ Becomes(Schedule(Here, "filters"))
        /\ torn' = torn
    BY DEF ScanTimer
  <1>3. left' \in Left
    BY <1>1, <1>2, BoundAssumption DEF Left
  <1>4. Handled(Here, Schedule(Here, "filters"))
    BY <1>1, ScheduleGood DEF Handled
  <1> QED
    BY <1>1, <1>2, <1>3, <1>4, EndsHandled

-----------------------------------------------------------------------------
(* What the routes do, and what happens outside.                            *)

\* What the actions of the routes have in common.
LEMMA OwnerActsPoints ==
    ASSUME IndInv, OwnerActs
    PROVE  left' \in Left /\ torn' = torn
  <1>1. left \in Left /\ left.ops > 0
    BY Begins DEF OwnerActs
  <1> QED
    BY <1>1, BoundAssumption DEF OwnerActs, Left

\* A route's wants are contents of dynamic rules.
LEMMA WantedTcr == \A o \in Route : Wants[o] \subseteq Tcr
  BY OwnerAssumption

\* obj_route_install, without a rule.
LEMMA RequestKeeps ==
    ASSUME IndInv, NEW o \in Route, NEW tcr \in Wants[o], Request(o, tcr)
    PROVE  IndInv'
  <1> DEFINE t == obj_rule_request(Here, o, tcr)
  <1>1. Here \in Whole /\ Here.pin = pin /\ (~torn => Informed(Here))
    BY Begins
  <1>2. left' \in Left /\ torn' = torn
    BY OwnerActsPoints DEF Request
  <1>3. HasPlace(Here, o, tcr) /\ (Becomes(t) \/ MayFollowNull(Here))
    BY DEF Request
  <1>4. Handled(Here, t)
    BY <1>1, <1>3, WantedTcr, FirstRuleGood
  <1> HIDE DEF t
  <1>5. CASE Becomes(t)
    BY <1>1, <1>2, <1>4, <1>5, EndsHandled
  <1>6. CASE MayFollowNull(Here)
    BY <1>1, <1>2, <1>6, EndsInFault
  <1> QED
    BY <1>3, <1>5, <1>6

\* obj_route_install, with a rule.
LEMMA ReplaceKeeps ==
    ASSUME IndInv, NEW o \in Route, NEW tcr \in Wants[o], Replace(o, tcr)
    PROVE  IndInv'
  <1> DEFINE t == Kick(Unref(obj_rule_request(Here, o, tcr), own[o]))
  <1>1. /\ Here \in Whole /\ Here \in DaemonType
        /\ Here.pin = pin /\ Here.own = own
        /\ ~torn => Informed(Here)
    BY Begins
  <1>2. left' \in Left /\ torn' = torn
    BY OwnerActsPoints DEF Replace
  <1>3. /\ HasPlace(Here, o, tcr)
        /\ own[o] # NoRule
        /\ Becomes(t) \/ MayFollowNull(Here)
    BY DEF Replace
  <1>4. own[o] \in Rule
    BY <1>1, <1>3 DEF DaemonType, Owner
  <1>5. Handled(Here, t)
    <2>1. PICK r \in Rule : r = own[o]
      BY <1>4
    <2>2. Here.own[o] = r
      BY <1>1, <2>1
    <2>3. t = Kick(Unref(obj_rule_request(Here, o, tcr), r))
      BY <2>1
    <2> HIDE DEF t
    <2> QED
      BY <1>1, <1>3, <2>2, <2>3, WantedTcr, NextRuleGood
  <1> HIDE DEF t
  <1>6. CASE Becomes(t)
    BY <1>1, <1>2, <1>5, <1>6, EndsHandled
  <1>7. CASE MayFollowNull(Here)
    BY <1>1, <1>2, <1>7, EndsInFault
  <1> QED
    BY <1>3, <1>6, <1>7

\* obj_route_delete.
LEMMA RouteDeleteKeeps ==
    ASSUME IndInv, NEW o \in Route, obj_route_delete(o)
    PROVE  IndInv'
  <1> DEFINE r == own[o]
             u == IF rule[r].have # NoTcr THEN Kick(Uninstall(Here, r)) ELSE Here
             t == Drop(u, o)
  <1>1. /\ Here \in Whole /\ Here \in DaemonType
        /\ Here.pin = pin /\ Here.own = own /\ Here.rule = rule
        /\ ~torn => Informed(Here)
    BY Begins
  <1>2. left' \in Left /\ torn' = torn
    BY OwnerActsPoints DEF obj_route_delete
  <1>3. own[o] # NoRule /\ Becomes(t)
    BY DEF obj_route_delete
  <1>4. r \in Rule
    BY <1>1, <1>3 DEF DaemonType, Owner
  <1>5. u = IF Here.rule[r].have # NoTcr THEN Kick(Uninstall(Here, r)) ELSE Here
    BY <1>1
  <1>6. Here.own[o] = r
    BY <1>1
  <1> HIDE DEF r, u
  <1>7. Handled(Here, t)
    BY <1>1, <1>4, <1>5, <1>6, DeleteGood
  <1> HIDE DEF t
  <1> QED
    BY <1>1, <1>2, <1>3, <1>7, EndsHandled

\* Whatever the kernel does, the daemon's own state is as good as it was.
LEMMA OutsideGood ==
    ASSUME NEW t \in DaemonType,
           t.rule = Here.rule, t.work = Here.work, t.current = Here.current,
           t.pin = Here.pin, t.dump = Here.dump, t.own = Here.own, t.fault = Here.fault,
           Here \in Whole
    PROVE  t \in Whole
  <1> DEFINE h == Here
  <1>1. Good(h, NoExtra, NoRule)
    BY DEF Whole
  <1>2. /\ t.rule = h.rule /\ t.work = h.work /\ t.current = h.current
        /\ t.pin = h.pin /\ t.dump = h.dump /\ t.own = h.own /\ t.fault = h.fault
    OBVIOUS
  <1> HIDE DEF h
  <1>3. (t.current # "filters" => t.dump = <<>>) /\ t.fault # "pre_install"
    BY <1>1, <1>2 DEF Good
  <1>4. Good(t, NoExtra, NoRule)
    BY <1>1, <1>2, <1>3, SameGood
  <1> QED
    BY <1>4 DEF Whole

\* Somebody else changed the table: it is announced, or it may have changed
\* under a dump.
LEMMA TableChanged ==
    ASSUME IndInv, NEW t \in DaemonType,
           Here.dump = <<>> => Keeps(Here, t),
           t.rule = Here.rule, t.work = Here.work, t.current = Here.current,
           t.pin = Here.pin, t.dump = Here.dump, t.own = Here.own, t.fault = Here.fault,
           t.chains = Here.chains,
           Outside, kern' = t.kern, mon' = t.mon,
           torn' = (torn \/ dump # <<>>), left' \in Left
    PROVE  IndInv'
  <1>1. /\ Here \in Whole /\ pin \in {0, 3} /\ torn \in BOOLEAN
        /\ ~torn => Informed(Here)
        /\ Here.rule = rule /\ Here.work = work /\ Here.current = current
        /\ Here.pin = pin /\ Here.dump = dump /\ Here.chains = chains /\ Here.own = own
        /\ Here.fault = fault
    BY Begins
  <1>2. t \in Whole
    BY <1>1, OutsideGood
  <1>3. Becomes(t)
    BY <1>1 DEF Becomes, Outside
  <1>4. t.pin \in {0, 3}
    BY <1>1
  <1>5. torn' \in BOOLEAN /\ (~torn' => ~torn /\ dump = <<>>)
    BY <1>1
  <1>6. ~torn' => Informed(t)
    BY <1>1, <1>5 DEF Keeps
  <1> QED
    BY <1>2, <1>3, <1>4, <1>5, <1>6, Ends

\* Somebody adds a filter.
LEMMA OthersAddKeeps ==
    ASSUME IndInv, NEW slot \in Slot, NEW tcr \in Tcr, OthersAdd(slot, tcr)
    PROVE  IndInv'
  <1> DEFINE t == KernelAdds(Here, slot, tcr)
  <1>1. Here \in DaemonType /\ left \in Left /\ tcr \in AnyTcr
    BY Begins DEF AnyTcr
  <1>2. /\ Outside
        /\ left.ext > 0
        /\ left' = [left EXCEPT !.ext = @ - 1]
        /\ kern' = t.kern
        /\ mon' = t.mon
        /\ torn' = (torn \/ dump # <<>>)
    BY DEF OthersAdd
  <1>3. left' \in Left
    BY <1>1, <1>2, BoundAssumption DEF Left
  <1>4. /\ t \in DaemonType
        /\ Here.dump = <<>> => Keeps(Here, t)
        /\ t.rule = Here.rule /\ t.work = Here.work /\ t.current = Here.current
        /\ t.pin = Here.pin /\ t.dump = Here.dump /\ t.own = Here.own
        /\ t.fault = Here.fault /\ t.chains = Here.chains
    BY <1>1, KernelAddsKeeps
  <1> HIDE DEF t
  <1> QED
    BY <1>2, <1>3, <1>4, TableChanged

\* Somebody deletes one.
LEMMA OthersDeleteKeeps ==
    ASSUME IndInv, NEW slot \in Slot, OthersDelete(slot)
    PROVE  IndInv'
  <1> DEFINE t == KernelDels(Here, slot)
  <1>1. Here \in DaemonType /\ left \in Left
    BY Begins
  <1>2. /\ Outside
        /\ left.ext > 0
        /\ left' = [left EXCEPT !.ext = @ - 1]
        /\ kern' = t.kern
        /\ mon' = t.mon
        /\ torn' = (torn \/ dump # <<>>)
    BY DEF OthersDelete
  <1>3. left' \in Left
    BY <1>1, <1>2, BoundAssumption DEF Left
  <1>4. /\ t \in DaemonType
        /\ Here.dump = <<>> => Keeps(Here, t)
        /\ t.rule = Here.rule /\ t.work = Here.work /\ t.current = Here.current
        /\ t.pin = Here.pin /\ t.dump = Here.dump /\ t.own = Here.own
        /\ t.fault = Here.fault /\ t.chains = Here.chains
    BY <1>1, KernelDelsKeeps
  <1> HIDE DEF t
  <1> QED
    BY <1>2, <1>3, <1>4, TableChanged

\* The socket overflows.
LEMMA LoseNotificationKeeps ==
    ASSUME IndInv, LoseNotification
    PROVE  IndInv'
  <1> DEFINE t == [Here EXCEPT !.mon = Tail(mon)]
  <1>1. /\ Here \in Whole /\ Here \in DaemonType /\ pin \in {0, 3} /\ left \in Left
        /\ Here.rule = rule /\ Here.work = work /\ Here.current = current
        /\ Here.pin = pin /\ Here.dump = dump /\ Here.chains = chains /\ Here.own = own
        /\ Here.fault = fault /\ Here.kern = kern /\ Here.mon = mon
    BY Begins
  <1>2. /\ Outside
        /\ left.lost > 0
        /\ mon # <<>>
        /\ left' = [left EXCEPT !.lost = @ - 1]
        /\ mon' = Tail(mon)
        /\ kern' = kern
        /\ torn' = TRUE
    BY DEF LoseNotification
  <1>3. left' \in Left
    BY <1>1, <1>2, BoundAssumption, SMTT(30) DEF Left
  <1>4. Tail(mon) \in Seq(Message)
    <2>1. mon \in Seq(Message)
      BY <1>1 DEF DaemonType
    <2> QED
      BY <1>2, <2>1, TailPoints
  <1>5. /\ t \in DaemonType
        /\ t.mon = Tail(mon)
        /\ t.rule = Here.rule /\ t.work = Here.work /\ t.current = Here.current
        /\ t.pin = Here.pin /\ t.dump = Here.dump /\ t.own = Here.own
        /\ t.fault = Here.fault /\ t.chains = Here.chains /\ t.kern = Here.kern
    BY <1>1, <1>4 DEF DaemonType
  <1> HIDE DEF t
  <1>6. t \in Whole
    BY <1>1, <1>5, OutsideGood
  <1>7. Becomes(t)
    BY <1>1, <1>2, <1>5 DEF Becomes, Outside
  <1>8. t.pin \in {0, 3}
    BY <1>1, <1>5
  <1> QED
    BY <1>2, <1>3, <1>6, <1>7, <1>8, Ends

-----------------------------------------------------------------------------
(* The theorems.                                                            *)

\* main has stated its static wants and sent the first dump.
LEMMA StartGood == Init => IndInv
  <1> SUFFICES ASSUME NEW k \in LeftBehind, Start(k) PROVE IndInv
    BY DEF Init
  <1> DEFINE h == Here
  <1>1. /\ h.rule = [r \in Rule |-> IF r = 1 /\ WithStatic THEN StaticRule ELSE Freed]
        /\ h.work = <<>> /\ h.current = "filters" /\ h.pin = 0 /\ h.kern = k /\ h.mon = <<>>
        /\ h.dump = Filters(k) /\ h.chains = {} /\ h.own = [o \in Owner |-> NoRule]
        /\ h.fault = "none"
    BY DEF Here, Start
  <1>2. /\ StaticRule.state = "NEW"
        /\ StaticRule.slot = 0
        /\ StaticRule.want = StaticTcr
        /\ StaticRule.have = NoTcr
        /\ StaticRule.refs = 0
        /\ ~StaticRule.inst
        /\ StaticRule.pos
        /\ StaticRule \in RuleRecord
    BY Constants DEF StaticRule, Freed, RuleRecord, RuleState, MaybeTcr, AnyTcr
  <1>3. /\ Freed \in RuleRecord
        /\ Freed.state = "free"
        /\ Freed.have = NoTcr
        /\ Freed.refs = 0
        /\ ~Freed.inst
        /\ ~Freed.pos
    BY Constants DEF Freed
  <1>4. \A r \in Rule : h.rule[r] = Freed \/ (r = 1 /\ h.rule[r] = StaticRule)
    BY <1>1
  <1>5. k \in [Slot -> MaybeTcr]
    BY DEF LeftBehind
  <1>6. /\ Filters(k) \in Seq(Filter)
        /\ \A i \in 1..Len(Filters(k)) : k[Filters(k)[i].slot] = Filters(k)[i].tcr
        /\ \A slot \in Slot : k[slot] # NoTcr
                              => \E i \in 1..Len(Filters(k)) : Filters(k)[i].slot = slot
    BY <1>5, FiltersAreTheTable
  <1>7. h \in DaemonType
    <2>1. h.rule \in [Rule -> RuleRecord]
      BY <1>1, <1>2, <1>3
    <2>2. h.work \in Seq(Work) /\ h.mon \in Seq(Message)
      BY <1>1
    <2>3. h.dump \in Seq([slot : Slot, tcr : AnyTcr])
      BY <1>1, <1>6 DEF Filter
    <2>4. h.own \in [Owner -> Rule \union {NoRule}]
      BY <1>1
    <2>5. h.current \in {"none", "install", "uninstall", "filters", "routes"}
          /\ h.fault \in {"none", "pre_install", "freed want", "laf null", "freed node"}
          /\ h.chains \in SUBSET (ChainBase..(Width - 1))
          /\ h.pin \in 0..3
          /\ h.kern \in [Slot -> MaybeTcr]
      BY <1>1, <1>5
    <2>6. h = [rule |-> h.rule, work |-> h.work, current |-> h.current, pin |-> h.pin,
               kern |-> h.kern, mon |-> h.mon, dump |-> h.dump, chains |-> h.chains,
               own |-> h.own, fault |-> h.fault]
      BY DEF Here
    <2> HIDE DEF h
    <2> QED
      BY <2>1, <2>2, <2>3, <2>4, <2>5, <2>6 DEF DaemonType
  <1> HIDE DEF h
  <1>8. RulesSane(h, NoRule)
    BY <1>1, <1>2, <1>3, <1>4 DEF RulesSane, Sane, UpToDate
  <1>9. Apart(h)
    BY <1>3, <1>4 DEF Apart
  <1>10. RequestsAgree(h)
    BY <1>1, <1>2, <1>3, <1>4 DEF RequestsAgree
  <1>11. Counted(h, NoExtra)
    <2>1. \A r \in Rule : HoldersOf(h, r) = {}
      BY <1>1, Constants DEF HoldersOf
    <2>2. \A r \in Rule : h.rule[r].refs = 0 /\ QueueHolds(h.rule[r]) = 0 /\ NoExtra[r] = 0
      BY <1>2, <1>3, <1>4 DEF QueueHolds, NoExtra
    <2>3. Cardinality({}) = 0
      BY FS_EmptySet
    <2> QED
      BY <2>1, <2>2, <2>3 DEF Counted
  <1>12. Good(h, NoExtra, NoRule)
    BY <1>1, <1>7, <1>8, <1>9, <1>10, <1>11 DEF Good
  <1>13. Informed(h)
    <2>1. MonTrue(h)
      BY <1>1 DEF MonTrue
    <2>2. DumpTrue(h)
      BY <1>1, <1>6 DEF DumpTrue
    <2>3. ASSUME NEW slot \in Slot PROVE Told(h, slot) \/ Agrees(h, slot)
      <3>1. CASE k[slot] # NoTcr
        BY <1>1, <1>6, <3>1 DEF Told
      <3>2. CASE k[slot] = NoTcr
        <4>1. \A tcr \in AnyTcr : tcr # NoTcr
          BY Constants
        <4>2. \A tcr \in AnyTcr : ~HaveIn(h, slot, tcr)
          BY <1>2, <1>3, <1>4, <4>1 DEF HaveIn
        <4> QED
          BY <1>1, <3>2, <4>1, <4>2 DEF Agrees
      <3> QED
        BY <3>1, <3>2
    <2> QED
      BY <2>1, <2>2, <2>3 DEF Informed
  <1>14. /\ pin \in {0, 3}
         /\ left \in [ops : 0..MaxOps, ext : 0..MaxExt, lost : 0..MaxLost, scans : 0..MaxScans]
         /\ torn \in BOOLEAN
    <2>1. MaxOps \in Nat /\ MaxExt \in Nat /\ MaxLost \in Nat /\ MaxScans \in Nat
      BY BoundAssumption
    <2>2. MaxOps \in 0..MaxOps /\ MaxExt \in 0..MaxExt
          /\ MaxLost \in 0..MaxLost /\ MaxScans \in 0..MaxScans
      BY <2>1
    <2> QED
      BY <2>2 DEF Start
  <1> QED
    BY <1>12, <1>13, <1>14 DEF IndInv, h

\* The invariant is inductive: one case for every handler, and one for every
\* event outside.
LEMMA NextKeeps == IndInv /\ [Next]_vars => IndInv'
  <1> SUFFICES ASSUME IndInv, [Next]_vars PROVE IndInv'
    OBVIOUS
  <1>1. CASE ReceiveNotification
    BY <1>1, ReceiveNotificationKeeps
  <1>2. CASE ReceiveFilter
    BY <1>2, ReceiveFilterKeeps
  <1>3. CASE RequestCompletes
    BY <1>3, RequestCompletesKeeps
  <1>4. CASE ScanTimer
    BY <1>4, ScanTimerKeeps
  <1>5. ASSUME NEW o \in Route, NEW tcr \in Wants[o], Request(o, tcr)
        PROVE  IndInv'
    BY <1>5, RequestKeeps
  <1>6. ASSUME NEW o \in Route, NEW tcr \in Wants[o], Replace(o, tcr)
        PROVE  IndInv'
    BY <1>6, ReplaceKeeps
  <1>7. ASSUME NEW o \in Route, obj_route_delete(o)
        PROVE  IndInv'
    BY <1>7, RouteDeleteKeeps
  <1>8. ASSUME NEW slot \in Slot, OthersDelete(slot)
        PROVE  IndInv'
    BY <1>8, OthersDeleteKeeps
  <1>9. ASSUME NEW slot \in Slot, NEW tcr \in Tcr, OthersAdd(slot, tcr)
        PROVE  IndInv'
    BY <1>9, OthersAddKeeps
  <1>10. CASE LoseNotification
    BY <1>10, LoseNotificationKeeps
  <1>11. CASE UNCHANGED vars
    <2>1. /\ Here \in Whole /\ Here.pin \in {0, 3}
          /\ left \in Left /\ torn \in BOOLEAN
          /\ ~torn => Informed(Here)
          /\ Here.rule = rule /\ Here.work = work /\ Here.current = current
          /\ Here.pin = pin /\ Here.kern = kern /\ Here.mon = mon
          /\ Here.dump = dump /\ Here.chains = chains /\ Here.own = own
          /\ Here.fault = fault
      BY Begins
    <2>2. left' = left /\ torn' = torn /\ Becomes(Here)
      BY <1>11, <2>1 DEF vars, Becomes
    <2> QED
      BY <2>1, <2>2, Ends
  <1> QED
    BY <1>1, <1>2, <1>3, <1>4, <1>5, <1>6, <1>7, <1>8, <1>9, <1>10, <1>11
    DEF Next, Program, Owners, Others

\* The invariant holds in every state of the daemon, whatever the routes, the
\* kernel and others do: see Good and Informed in RuleSync.
THEOREM Inductive == Spec => []IndInv
  <1>1. Init => IndInv
    BY StartGood
  <1>2. IndInv /\ [Next]_vars => IndInv'
    BY NextKeeps
  <1> QED
    BY <1>1, <1>2, PTL DEF Spec

\* The variables have their types: the heap of obj_rule.c holds well-formed
\* rules, queue.c's work is about rules of it, the pin is one of its four values.
THEOREM Typed == Spec => []TypeOK
  <1>1. IndInv => TypeOK
    <2> SUFFICES ASSUME IndInv PROVE TypeOK
      OBVIOUS
    <2>1. /\ Here \in DaemonType /\ left \in Left /\ torn \in BOOLEAN
          /\ Here.rule = rule /\ Here.work = work /\ Here.current = current
          /\ Here.pin = pin /\ Here.kern = kern /\ Here.mon = mon
          /\ Here.dump = dump /\ Here.chains = chains /\ Here.own = own
          /\ Here.fault = fault
      BY Begins
    <2>2. /\ Here.rule \in [Rule -> RuleRecord]
          /\ Here.work \in Seq(Work)
          /\ Here.current \in {"none", "install", "uninstall", "filters", "routes"}
          /\ Here.pin \in 0..3
          /\ Here.kern \in [Slot -> MaybeTcr]
          /\ Here.mon \in Seq(Message)
          /\ Here.dump \in Seq([slot : Slot, tcr : AnyTcr])
          /\ Here.chains \in SUBSET (ChainBase..(Width - 1))
          /\ Here.own \in [Owner -> Rule \union {NoRule}]
          /\ Here.fault \in {"none", "pre_install", "freed want", "laf null", "freed node"}
      BY <2>1 DEF DaemonType
    <2> QED
      BY <2>1, <2>2 DEF TypeOK, Left
  <1> QED
    BY <1>1, Inductive, PTL

\* A rule is QUEUED exactly while one request for it waits: the assertion of
\* obj_rule_pre_install never fails, and no rule is queued twice, whatever
\* calls obj_rule_update_state and in whichever order.
THEOREM NeverQueuedTwice == Spec => []QueuedOnce
  <1>1. IndInv => QueuedOnce
    <2> SUFFICES ASSUME IndInv PROVE QueuedOnce
      OBVIOUS
    <2>1. Here \in Whole /\ Here \in DaemonType /\ Here.work = work /\ Here.rule = rule
          /\ Here.fault = fault
      BY Begins
    <2>2. RequestsAgree(Here) /\ fault # "pre_install"
      BY <2>1 DEF Whole, Good
    <2>3. ASSUME Running, NEW r \in Rule
          PROVE  Cardinality(Requests(r)) = IF rule[r].state = "QUEUED" THEN 1 ELSE 0
      <3>1. CASE rule[r].state = "QUEUED"
        <4>1. PICK k \in 1..Len(work) : work[k].rule = r
          BY <2>1, <2>2, <2>3, <3>1 DEF RequestsAgree, Running
        <4>2. \A j \in 1..Len(work) : work[j].rule = r => j = k
          BY <2>1, <2>2, <4>1 DEF RequestsAgree
        <4>3. Requests(r) = {k}
          BY <4>1, <4>2 DEF Requests
        <4> QED
          BY <3>1, <4>3, FS_Singleton
      <3>2. CASE rule[r].state # "QUEUED"
        <4>1. Requests(r) = {}
          BY <2>1, <2>2, <3>2 DEF RequestsAgree, Requests
        <4> QED
          BY <3>2, <4>1, FS_EmptySet
      <3> QED
        BY <3>1, <3>2
    <2> QED
      BY <2>2, <2>3 DEF QueuedOnce
  <1> QED
    BY <1>1, Inductive, PTL

\* Reference counting: what a pointer of an owner or a queued action refers to
\* has not been reaped by obj_rule_unref, and its count covers all of them.
THEOREM NothingDangles == Spec => []RefsCovered
  <1>1. IndInv /\ QueuedOnce => RefsCovered
    <2> SUFFICES ASSUME IndInv, QueuedOnce, Running, NEW r \in Rule
                 PROVE  /\ rule[r].refs >= Cardinality(Holders(r)) + Cardinality(Requests(r))
                        /\ rule[r].state = "free" => Holders(r) = {} /\ Requests(r) = {}
      BY DEF RefsCovered
    <2>1. /\ Here \in Whole /\ Here.own = own /\ Here.rule = rule
          /\ Here.work = work /\ Here.fault = fault
      BY Begins
    <2>2. Good(Here, NoExtra, NoRule) /\ NoExtra \in [Rule -> Nat] /\ NoExtra[r] = 0
      BY <2>1 DEF Whole, NoExtra
    <2>3. Holders(r) = HoldersOf(Here, r)
      BY <2>1 DEF Holders, HoldersOf
    <2>4. Cardinality(Requests(r)) = QueueHolds(rule[r])
      BY DEF QueuedOnce, QueueHolds
    <2>5. /\ Cardinality(HoldersOf(Here, r)) \in Nat
          /\ QueueHolds(rule[r]) \in Nat
          /\ rule[r].refs >= Cardinality(HoldersOf(Here, r)) + QueueHolds(rule[r]) + NoExtra[r]
          /\ \A o \in Owner : own[o] = r => rule[r].state # "free"
      BY <2>1, <2>2, HeldIsLive DEF Live
    <2>6. rule[r].refs >= Cardinality(Holders(r)) + Cardinality(Requests(r))
      <3>1. /\ rule[r].refs \in Nat
            /\ rule[r].refs >= Cardinality(HoldersOf(Here, r)) + QueueHolds(rule[r]) + 0
        BY <2>1, <2>2, <2>5, HeldIsLive
      <3> QED
        BY <2>3, <2>4, <2>5, <3>1
    <2>7. ASSUME rule[r].state = "free" PROVE Holders(r) = {} /\ Requests(r) = {}
      <3>1. Holders(r) = {}
        BY <2>5, <2>7 DEF Holders
      <3>2. RequestsAgree(Here)
        BY <2>2 DEF Good
      <3>3. Requests(r) = {}
        BY <2>1, <2>7, <3>2 DEF Requests, RequestsAgree
      <3> QED
        BY <3>1, <3>3
    <2> QED
      BY <2>6, <2>7
  <1> QED
    BY <1>1, Inductive, NeverQueuedTwice, PTL

\* A rule that obj_rule.c calls OK is wanted, and what was found in the kernel
\* is what is wanted.
THEOREM OKIsInstalled == Spec => []OKMeansInstalled
  <1>1. IndInv => OKMeansInstalled
    <2> SUFFICES ASSUME IndInv, NEW r \in Rule, rule[r].state = "OK"
                 PROVE  rule[r].want # NoTcr /\ rule[r].want = rule[r].have
      BY DEF OKMeansInstalled
    <2>1. Here \in Whole /\ Here.rule = rule
      BY Begins
    <2>2. RulesSane(Here, NoRule)
      BY <2>1 DEF Whole, Good
    <2> QED
      BY <2>1, <2>2, Constants DEF RulesSane, UpToDate
  <1> QED
    BY <1>1, Inductive, PTL

\* Dumps, notifications and requests do not get in each other's way: when
\* nothing is in flight, what obj_rule.c believes is in the kernel is what is
\* there, unless a notification was lost or the table changed under a dump.
THEOREM BeliefIsTrue == Spec => []Coherent
  <1>1. IndInv => Coherent
    <2> SUFFICES ASSUME IndInv, Running, Quiet, ~torn, NEW slot \in Slot
                 PROVE  kern[slot] = IF obj_rule_pos_lookup(Here, slot) = NoRule
                                     THEN NoTcr
                                     ELSE rule[obj_rule_pos_lookup(Here, slot)].have
      BY DEF Coherent
    <2> DEFINE r == obj_rule_pos_lookup(Here, slot)
    <2>1. /\ Here \in Whole /\ Here \in DaemonType
          /\ Here.rule = rule /\ Here.kern = kern /\ Here.mon = mon /\ Here.dump = dump
          /\ Here.current = current /\ Here.fault = fault
          /\ Informed(Here)
      BY Begins
    <2>2. Good(Here, NoExtra, NoRule)
      BY <2>1 DEF Whole
    <2>3. mon = <<>> /\ dump = <<>>
      BY <2>1, <2>2 DEF Quiet, Good
    <2>4. ~Told(Here, slot)
      BY <2>1, <2>3 DEF Told
    <2>5. Agrees(Here, slot)
      BY <2>1, <2>4 DEF Informed, Running
    <2>6. \A tcr \in AnyTcr : kern[slot] = tcr <=> HaveIn(Here, slot, tcr)
      BY <2>1, <2>5 DEF Agrees
    <2>7. kern[slot] \in MaybeTcr
      BY <2>1 DEF DaemonType
    <2>8. /\ r = NoRule => \A q \in Rule : ~(rule[q].pos /\ rule[q].slot = slot)
          /\ r # NoRule => r \in Rule /\ rule[r].pos /\ rule[r].slot = slot
      BY <2>1, PosLookup
    <2> HIDE DEF r
    <2>9. CASE r = NoRule
      <3>1. \A tcr \in AnyTcr : ~HaveIn(Here, slot, tcr)
        BY <2>1, <2>8, <2>9 DEF HaveIn
      <3>2. kern[slot] = NoTcr
        BY <2>6, <2>7, <3>1 DEF MaybeTcr
      <3> QED
        BY <2>9, <3>2 DEF r
    <2>10. CASE r # NoRule
      <3>1. \A tcr : HaveIn(Here, slot, tcr) <=> rule[r].have = tcr
        BY <2>1, <2>2, <2>8, <2>10, HaveAt
      <3>2. rule[r].have \in MaybeTcr
        BY <2>1, <2>8, <2>10 DEF DaemonType, RuleRecord
      <3>3. kern[slot] = rule[r].have
        BY <2>6, <2>7, <3>1, <3>2 DEF MaybeTcr
      <3> QED
        BY <2>10, <3>3 DEF r
    <2> QED
      BY <2>9, <2>10
  <1> QED
    BY <1>1, Inductive, PTL
=============================================================================
