------------------------- MODULE SlotSearch_proofs -------------------------
(***************************************************************************)
(* For every integer width, minimum and set of used slots, the searches    *)
(* return a free slot unless the last value of the type is in use.         *)
(***************************************************************************)
EXTENDS SlotSearch, TLAPS

\* (p + 1) % Width: the successor, or 0 for the last value.
LEMMA Successor ==
    ASSUME NEW p \in Slot
    PROVE  /\ (p + 1) % Width \in Slot
           /\ p # Width - 1 => (p + 1) % Width = p + 1
           /\ p = Width - 1 => (p + 1) % Width = 0
  <1>1. CASE p = Width - 1
    BY <1>1, WidthAssumption DEF Slot
  <1>2. CASE p # Width - 1
    <2>1. p + 1 \in 0..(Width - 1)
      BY <1>2, WidthAssumption DEF Slot
    <2> QED
      BY <1>2, <2>1, WidthAssumption DEF Slot
  <1> QED
    BY <1>1, <1>2

\* The walk starts at rb_first with the candidate 0.
LEMMA SearchInit == Init => IndInv
  <1> SUFFICES ASSUME Init PROVE IndInv
    OBVIOUS
  <1>1. 0 \in Slot
    BY WidthAssumption DEF Slot
  <1>2. TypeOK
    BY <1>1 DEF Init, TypeOK
  <1>3. WalkInv /\ SlotIsFree
    BY DEF Init, WalkInv, SlotIsFree
  <1> QED
    BY <1>2, <1>3 DEF IndInv

\* A node that extends the run, or lies below the minimum.
LEMMA AdvanceInv ==
    ASSUME IndInv, ~found, NEW p \in rest, IsNext(p), Advance(p)
    PROVE  IndInv'
  <1> USE DEF IndInv
  <1>1. p \in Slot /\ p \in used /\ rest' = rest \ {p} /\ used' = used
        /\ found' = found /\ kind' = kind
    BY DEF TypeOK, Advance
  <1>2. ret' = (p + 1) % Width
    BY DEF Advance
  <1>3. TypeOK'
    BY <1>1, <1>2, Successor DEF TypeOK
  <1>4. \A q \in used' \ rest' : q = p \/ q \in used \ rest
    BY <1>1
  <1>5. \A q \in used' \ rest', t \in rest' : q < t
    <2>1. \A t \in rest' : t \in rest /\ t # p /\ p <= t /\ t \in Slot
      BY <1>1 DEF IsNext, TypeOK
    <2>2. \A t \in rest' : p < t
      BY <1>1, <2>1, WidthAssumption DEF Slot
    <2> QED
      BY <1>4, <2>1, <2>2 DEF WalkInv
  <1>6. \/ ret' = 0 /\ Width - 1 \in used' \ rest'
        \/ ret' - 1 \in used' \ rest' /\ \A q \in used' \ rest' : q < ret'
    <2>1. CASE p = Width - 1
      BY <1>1, <1>2, <2>1, Successor
    <2>2. CASE p # Width - 1
      <3>1. ret' = p + 1
        BY <1>1, <1>2, <2>2, Successor
      <3>2. \A q \in used' \ rest' : q \in Slot /\ (q = p \/ q < p)
        BY <1>1, <1>4 DEF WalkInv, TypeOK
      <3>3. ret' - 1 = p /\ \A q \in used' \ rest' : q < ret'
        BY <1>1, <3>1, <3>2, WidthAssumption DEF Slot
      <3> QED
        BY <1>1, <3>3
    <2> QED
      BY <2>1, <2>2
  <1>7. ~found'
    BY <1>1
  <1> QED
    BY <1>3, <1>5, <1>6, <1>7 DEF WalkInv, SlotIsFree

\* The walk is over: what is returned is free.
LEMMA ReturnInv ==
    ASSUME IndInv, ~found, Return,
           \/ rest = {}
           \/ \E p \in rest : IsNext(p) /\ NothingBelow(p)
           \/ \E p \in rest : IsNext(p) /\ p # ret /\ ret >= MinSlot
    PROVE  IndInv'
  <1> USE DEF IndInv
  <1>1. /\ used' = used /\ rest' = rest /\ kind' = kind /\ found'
        /\ ret' = IF ret < MinSlot THEN MinSlot ELSE ret
    BY DEF Return
  <1>2. MinSlot \in Slot /\ ret \in Slot /\ ret' \in Slot
    BY <1>1, MinSlotAssumption, WidthAssumption DEF TypeOK, Slot
  <1>3. used \subseteq Slot /\ rest \subseteq used
    BY DEF TypeOK
  <1>4. TypeOK'
    BY <1>1, <1>2 DEF TypeOK
  <1>5. ret' >= MinSlot
    BY <1>1, <1>2, WidthAssumption, MinSlotAssumption DEF Slot
  <1>6. ASSUME ret' \in used, Width - 1 \notin used
        PROVE  FALSE
    <2>1. \A q \in used \ rest : q < ret \/ ret = 0
      BY DEF WalkInv
    <2>2. ret = 0 => used = rest
      BY <1>3, <1>6, WidthAssumption DEF WalkInv, Slot
    <2>3. CASE rest = {}
      <3>1. ret # 0
        BY <1>1, <1>6, <2>2, <2>3
      <3>2. \A q \in used : q < ret /\ q \in Slot
        BY <1>3, <2>1, <2>3, <3>1
      <3>3. ret' < ret
        BY <1>6, <3>2
      <3> QED
        BY <1>1, <1>2, <3>3, WidthAssumption, MinSlotAssumption DEF Slot
    <2>4. CASE \E p \in rest : IsNext(p) /\ NothingBelow(p)
      <3>1. PICK p \in rest : IsNext(p) /\ NothingBelow(p)
        BY <2>4
      <3>2. ret = 0 /\ p > MinSlot /\ ret' = MinSlot /\ used = rest
        BY <1>1, <2>2, <3>1, MinSlotAssumption, WidthAssumption DEF NothingBelow
      <3>3. p <= ret' /\ p \in Slot
        BY <1>3, <1>6, <3>1, <3>2 DEF IsNext
      <3> QED
        BY <1>2, <3>2, <3>3, WidthAssumption DEF Slot
    <2>5. CASE \E p \in rest : IsNext(p) /\ p # ret /\ ret >= MinSlot
      <3>1. PICK p \in rest : IsNext(p) /\ p # ret /\ ret >= MinSlot
        BY <2>5
      <3>2. ret' = ret /\ ret # 0
        BY <1>1, <1>2, <3>1, MinSlotAssumption, WidthAssumption DEF Slot
      <3>3. ret - 1 \in used \ rest /\ \A q \in used \ rest : q < ret
        BY <3>2 DEF WalkInv
      <3>4. ret - 1 < p /\ p \in Slot
        BY <1>3, <3>1, <3>3 DEF WalkInv
      <3>5. ret \in rest
        BY <1>2, <1>6, <3>2, <3>3, WidthAssumption DEF Slot
      <3>6. p <= ret
        BY <3>1, <3>5 DEF IsNext
      <3> QED
        BY <1>2, <3>1, <3>4, <3>6, WidthAssumption DEF Slot
    <2> QED
      BY <2>3, <2>4, <2>5
  <1>7. ret' \in used => ret' = MinSlot /\ Width - 1 \in used
    <2>1. ASSUME ret' \in used, Width - 1 \in used
          PROVE  ret' = MinSlot
      <3>1. SUFFICES ASSUME ret' # MinSlot PROVE FALSE
        OBVIOUS
      <3>2. ret' = ret /\ ret > MinSlot /\ ret # 0
        BY <1>1, <1>2, <3>1, MinSlotAssumption, WidthAssumption DEF Slot
      <3>3. ret - 1 \in used \ rest /\ \A q \in used \ rest : q < ret
        BY <3>2 DEF WalkInv
      <3>4. ret \in rest
        BY <1>2, <2>1, <3>2, <3>3, WidthAssumption DEF Slot
      <3>5. PICK p \in rest : IsNext(p) /\ p # ret
        BY <3>2, <3>4 DEF NothingBelow
      <3>6. p <= ret /\ ret - 1 < p /\ p \in Slot
        BY <1>3, <3>3, <3>4, <3>5 DEF IsNext, WalkInv
      <3> QED
        BY <1>2, <3>5, <3>6, WidthAssumption DEF Slot
    <2> QED
      BY <1>6, <2>1
  <1>8. WalkInv'
    BY <1>1 DEF WalkInv
  <1> QED
    BY <1>1, <1>4, <1>5, <1>7, <1>8 DEF SlotIsFree

\* Every iteration, and the end of the loop, keeps IndInv.
LEMMA SearchNext == IndInv /\ [Step]_vars => IndInv'
  <1> SUFFICES ASSUME IndInv, [Step]_vars PROVE IndInv'
    OBVIOUS
  <1>1. CASE Step
    <2>1. ~found
      BY <1>1 DEF Step
    <2>2. CASE \E p \in rest : IsNext(p) /\ ~NothingBelow(p) /\ Advance(p)
      BY <2>1, <2>2, AdvanceInv
    <2>3. CASE /\ Return
               /\ \/ rest = {}
                  \/ \E p \in rest : IsNext(p) /\ NothingBelow(p)
                  \/ \E p \in rest : IsNext(p) /\ p # ret /\ ret >= MinSlot
      BY <2>1, <2>3, ReturnInv
    <2> QED
      BY <1>1, <2>2, <2>3 DEF Step
  <1>2. CASE UNCHANGED vars
    BY <1>2 DEF vars, IndInv, TypeOK, WalkInv, SlotIsFree
  <1> QED
    BY <1>1, <1>2

\* Types of the search's variables.
THEOREM SearchTypes == Spec => []TypeOK
  <1>1. IndInv => TypeOK
    BY DEF IndInv
  <1> QED
    BY <1>1, SearchInit, SearchNext, PTL DEF Spec

\* The slot handed to a new rule or chain is not one that is in use, unless
\* the last priority (chain number) is taken.
THEOREM SearchFindsFree == Spec => []SlotIsFree
  <1>1. IndInv => SlotIsFree
    BY DEF IndInv
  <1> QED
    BY <1>1, SearchInit, SearchNext, PTL DEF Spec

-----------------------------------------------------------------------------
(* The loops compute the functions of module Slots.                         *)

\* The least element is what Lowest chooses.
LEMMA LowestIs ==
    ASSUME NEW S \in SUBSET Nat, NEW m \in S, \A q \in S : m <= q
    PROVE  Lowest(S) = m
  <1>1. \E p \in S : \A q \in S : p <= q
    OBVIOUS
  <1>2. Lowest(S) \in S /\ \A q \in S : Lowest(S) <= q
    BY <1>1, Zenon DEF Lowest
  <1>3. Lowest(S) \in Nat /\ m \in Nat /\ Lowest(S) <= m /\ m <= Lowest(S)
    BY <1>2
  <1> QED
    BY <1>3

\* Going on to the next key keeps RunInv.
LEMMA AdvanceRun ==
    ASSUME IndInv, RunInv, ~found, NEW p \in rest, IsNext(p), ~NothingBelow(p),
           Advance(p)
    PROVE  RunInv'
  <1> USE DEF IndInv
  <1>1. /\ rest' = rest \ {p} /\ used' = used /\ kind' = kind /\ found' = found
        /\ ret' = (p + 1) % Width /\ (p = ret \/ ret < MinSlot)
    BY DEF Advance
  <1>2. p \in used /\ p \in Slot /\ used \subseteq Slot /\ ret \in Slot
    BY DEF TypeOK
  <1>3. ASSUME NEW q \in used' \ rest', q + 1 >= MinSlot, q + 1 < Width
        PROVE  q + 1 \in used' \/ q + 1 = ret'
    <2>1. q \in Slot /\ (q = p \/ q \in used \ rest)
      BY <1>1, <1>2, <1>3
    <2>2. CASE q = p
      <3>1. p # Width - 1
        BY <1>2, <1>3, <2>2, WidthAssumption DEF Slot
      <3> QED
        BY <1>1, <1>2, <2>2, <3>1, Successor
    <2>3. CASE q \in used \ rest
      <3>1. q + 1 \in used \/ q + 1 = ret
        BY <1>3, <2>3 DEF RunInv
      <3>2. q + 1 = ret => p = ret
        BY <1>1, <1>2, <1>3, <2>1, WidthAssumption, MinSlotAssumption DEF Slot
      <3> QED
        BY <1>1, <1>2, <3>1, <3>2
    <2> QED
      BY <2>1, <2>2, <2>3
  <1>4. ASSUME kind' = "prio", used' # rest'
        PROVE  \E q \in used' : q <= MinSlot
    <2>1. CASE p <= MinSlot
      BY <1>1, <1>2, <2>1
    <2>2. CASE ~(p <= MinSlot)
      <3>1. ret # 0
        BY <1>1, <1>2, <1>4, <2>2, WidthAssumption, MinSlotAssumption
        DEF NothingBelow, Slot
      <3>2. used # rest
        BY <3>1 DEF WalkInv
      <3> QED
        BY <1>1, <1>4, <3>2 DEF RunInv
    <2> QED
      BY <2>1, <2>2
  <1> QED
    BY <1>3, <1>4 DEF RunInv

\* When the walk ends with a candidate, that is the only gap or the lowest.
LEMMA CandidateIsLowest ==
    ASSUME IndInv, RunInv, ~found, ret >= MinSlot,
           rest = {} \/ \E p \in rest : IsNext(p) /\ p # ret
    PROVE  AfterRun(used, MinSlot, Width) = ret
  <1> USE DEF IndInv
  <1>1. used \subseteq Slot /\ rest \subseteq used /\ ret \in Slot
    BY DEF TypeOK
  <1>2. ret # 0 /\ ret - 1 \in used \ rest /\ \A p \in used \ rest : p < ret
    BY <1>1, WidthAssumption, MinSlotAssumption DEF WalkInv, Slot
  <1>3. \A q \in rest : q > ret
    <2>1. CASE rest = {}
      BY <2>1
    <2>2. CASE \E p \in rest : IsNext(p) /\ p # ret
      <3>1. PICK p \in rest : IsNext(p) /\ p # ret
        BY <2>2
      <3>2. p > ret /\ p \in Slot
        BY <1>1, <1>2, <3>1, WidthAssumption DEF WalkInv, Slot
      <3>3. \A q \in rest : p <= q /\ q \in Slot
        BY <1>1, <3>1 DEF IsNext
      <3> QED
        BY <1>1, <3>2, <3>3, WidthAssumption DEF Slot
    <2> QED
      BY <2>1, <2>2
  <1>4. ret \notin used
    BY <1>1, <1>2, <1>3, WidthAssumption DEF Slot
  <1> DEFINE Gaps == GapsAbove(used, MinSlot, Width)
  <1>5. ret \in Gaps
    <2>1. ret = (ret - 1) + 1 /\ ret < Width
      BY <1>1, WidthAssumption DEF Slot
    <2> QED
      BY <1>2, <1>4, <2>1 DEF GapsAbove
  <1>6. ASSUME NEW g \in Gaps
        PROVE  ret <= g /\ g \in Nat
    <2>1. PICK q \in used : g = q + 1 /\ q + 1 >= MinSlot /\ q + 1 < Width /\ g \notin used
      BY DEF GapsAbove
    <2>2. q \in Slot
      BY <1>1
    <2>3. CASE q \in rest
      BY <1>1, <1>3, <2>1, <2>2, <2>3, WidthAssumption DEF Slot
    <2>4. CASE q \notin rest
      <3>1. g = ret
        BY <2>1, <2>4 DEF RunInv
      <3> QED
        BY <1>1, <2>1, <2>2, <3>1, WidthAssumption DEF Slot
    <2> QED
      BY <2>3, <2>4
  <1>7. Lowest(Gaps) = ret
    BY <1>5, <1>6, LowestIs
  <1> QED
    BY <1>5, <1>7 DEF AfterRun

\* When it ends without one, there is no gap to be found.
LEMMA NoCandidate ==
    ASSUME IndInv, RunInv, ~found, ret < MinSlot, rest = {}
    PROVE  AfterRun(used, MinSlot, Width) = MinSlot
  <1>1. used \subseteq Slot
    BY DEF IndInv, TypeOK
  <1>2. ASSUME NEW q \in used, q + 1 >= MinSlot, q + 1 < Width
        PROVE  q + 1 \in used
    <2>1. q \in Slot /\ (q + 1 \in used \/ q + 1 = ret)
      BY <1>1, <1>2 DEF RunInv
    <2> QED
      BY <1>2, <2>1, WidthAssumption, MinSlotAssumption DEF Slot
  <1>3. GapsAbove(used, MinSlot, Width) = {}
    BY <1>2 DEF GapsAbove
  <1> QED
    BY <1>3 DEF AfterRun

\* The value returned.
LEMMA ReturnsClosedForm ==
    ASSUME IndInv, RunInv, ~found, Return,
           \/ rest = {}
           \/ \E p \in rest : IsNext(p) /\ NothingBelow(p)
           \/ \E p \in rest : IsNext(p) /\ p # ret /\ ret >= MinSlot
    PROVE  ComputesClosedForm'
  <1> USE DEF IndInv
  <1>1. /\ used' = used /\ kind' = kind /\ kind \in {"prio", "chain"}
        /\ ret' = IF ret < MinSlot THEN MinSlot ELSE ret
    BY DEF Return, TypeOK
  <1>2. used \subseteq Slot /\ rest \subseteq used /\ ret \in Slot /\ MinSlot \in Slot
        /\ 0 < MinSlot
    BY WidthAssumption, MinSlotAssumption DEF TypeOK, Slot
  <1>3. ret # 0 => ret - 1 \in used \ rest
    BY DEF WalkInv
  <1>4. CASE \E p \in rest : IsNext(p) /\ NothingBelow(p)
    <2>1. PICK p \in rest : IsNext(p) /\ NothingBelow(p)
      BY <1>4
    <2>2. kind = "prio" /\ ret = 0 /\ p > MinSlot
      BY <2>1 DEF NothingBelow
    <2>3. used = rest
      <3>1. p \in Slot
        BY <1>2
      <3>2. Width - 1 \notin used \ rest
        BY <3>1, WidthAssumption DEF WalkInv, Slot
      <3>3. ret - 1 \notin used
        BY <1>2, <2>2, WidthAssumption DEF Slot
      <3> QED
        BY <3>2, <3>3 DEF WalkInv
    <2>4. \A q \in used : q > MinSlot
      BY <1>2, <2>1, <2>2, <2>3, WidthAssumption DEF IsNext, Slot
    <2>5. ret' = MinSlot
      BY <1>1, <1>2, <2>2
    <2> QED
      BY <1>1, <2>2, <2>4, <2>5 DEF ComputesClosedForm, PrioSlot
  <1>5. CASE rest = {} \/ \E p \in rest : IsNext(p) /\ p # ret /\ ret >= MinSlot
    <2>1. ret' = AfterRun(used, MinSlot, Width)
      <3>1. CASE ret >= MinSlot
        BY <1>1, <1>2, <1>5, <3>1, CandidateIsLowest, WidthAssumption DEF Slot
      <3>2. CASE ~(ret >= MinSlot)
        BY <1>1, <1>2, <1>5, <3>2, NoCandidate, WidthAssumption DEF Slot
      <3> QED
        BY <3>1, <3>2
    <2>2. ASSUME kind = "prio", \A q \in used : q > MinSlot
          PROVE  ret' = MinSlot
      <3>1. used = rest
        BY <1>2, <2>2, WidthAssumption DEF RunInv, Slot
      <3>2. ret = 0
        BY <1>3, <3>1
      <3> QED
        BY <1>1, <1>2, <3>2
    <2> QED
      BY <1>1, <2>1, <2>2 DEF ComputesClosedForm, PrioSlot, ChainSlot
  <1> QED
    BY <1>4, <1>5

\* obj_rule_find_available_prio and filter_find_available_chain_no return
\* what Slots says, whatever is in use: RuleSync and ObjGraph may use the
\* functions in place of the loops.
THEOREM SearchComputes == Spec => []ComputesClosedForm
  <1> DEFINE Inv == IndInv /\ RunInv /\ ComputesClosedForm
  <1>1. Init => Inv
    <2>1. Init => RunInv /\ ComputesClosedForm
      BY DEF Init, RunInv, ComputesClosedForm
    <2> QED
      BY <2>1, SearchInit
  <1>2. Inv /\ [Step]_vars => Inv'
    <2> SUFFICES ASSUME Inv, [Step]_vars PROVE (RunInv /\ ComputesClosedForm)'
      BY SearchNext
    <2>1. CASE \E p \in rest : ~found /\ IsNext(p) /\ ~NothingBelow(p) /\ Advance(p)
      <3>1. ~found'
        BY <2>1 DEF Advance
      <3> QED
        BY <2>1, <3>1, AdvanceRun DEF ComputesClosedForm
    <2>2. CASE /\ ~found /\ Return
               /\ \/ rest = {}
                  \/ \E p \in rest : IsNext(p) /\ NothingBelow(p)
                  \/ \E p \in rest : IsNext(p) /\ p # ret /\ ret >= MinSlot
      <3>1. found'
        BY <2>2 DEF Return
      <3> QED
        BY <2>2, <3>1, ReturnsClosedForm DEF RunInv
    <2>3. CASE UNCHANGED vars
      BY <2>3 DEF vars, RunInv, ComputesClosedForm
    <2> QED
      BY <2>1, <2>2, <2>3 DEF Step
  <1>3. Inv => ComputesClosedForm
    OBVIOUS
  <1> HIDE DEF Inv
  <1> QED
    BY <1>1, <1>2, <1>3, PTL DEF Spec
=============================================================================
