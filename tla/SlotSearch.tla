----------------------------- MODULE SlotSearch -----------------------------
(***************************************************************************)
(* The loops of obj_rule_find_available_prio (src/src/obj_rule.c) and      *)
(* filter_find_available_chain_no (src/src/nl_filter.c), one step per      *)
(* node of the red-black tree they walk in ascending order.  The candidate *)
(* `ret' is an unsigned integer: ret = prio + 1 wraps at Width (2^16 for   *)
(* priorities, 2^32 for chains).                                           *)
(***************************************************************************)
EXTENDS Integers, Slots

CONSTANTS Width,  \* the unsigned type has the values 0 .. Width - 1
          MinSlot \* min_prio or min_chain_no

ASSUME WidthAssumption == Width \in Nat \ {0}
ASSUME MinSlotAssumption == MinSlot \in 1..(Width - 1)

VARIABLES kind,  \* which of the two functions runs
          used,  \* the keys in the tree (of the chain that is searched)
          rest,  \* the keys the walk has not come to
          ret,   \* the candidate
          found  \* the function has returned ret

vars == <<kind, used, rest, ret, found>>

Slot == 0..(Width - 1)

Init ==
    /\ kind \in {"prio", "chain"}
    /\ used \in SUBSET Slot
    /\ rest = used
    /\ ret = 0
    /\ found = FALSE

\* rb_first / rb_next
IsNext(p) == p \in rest /\ \A q \in rest : p <= q

\* Mutant: the first break of obj_rule_find_available_prio is missing.
NothingBelow_Never(p) == FALSE

\* obj_rule_find_available_prio stops at once when nothing precedes min_prio.
NothingBelow(p) == kind = "prio" /\ ret = 0 /\ p > MinSlot

\* Mutant: the candidate is the node's own key.
Advance_NoIncrement(p) ==
    /\ p = ret \/ ret < MinSlot
    /\ ret' = p
    /\ rest' = rest \ {p}
    /\ UNCHANGED <<kind, used, found>>

\* if (key == ret || ret < min) ret = key + 1;
Advance(p) ==
    /\ p = ret \/ ret < MinSlot
    /\ ret' = (p + 1) % Width
    /\ rest' = rest \ {p}
    /\ UNCHANGED <<kind, used, found>>

\* What follows the loop: if (ret < min) ret = min;
Return ==
    /\ ret' = IF ret < MinSlot THEN MinSlot ELSE ret
    /\ found' = TRUE
    /\ UNCHANGED <<kind, used, rest>>

\* One iteration, or the end of the loop: nothing left, nothing below min,
\* or a gap.
Step ==
    /\ ~found
    /\ \/ rest = {} /\ Return
       \/ \E p \in rest : IsNext(p) /\ NothingBelow(p) /\ Return
       \/ \E p \in rest : IsNext(p) /\ ~NothingBelow(p) /\ Advance(p)
       \/ \E p \in rest : /\ IsNext(p)
                          /\ ~NothingBelow(p)
                          /\ p # ret /\ ret >= MinSlot
                          /\ Return

Spec == Init /\ [][Step]_vars

-----------------------------------------------------------------------------

\* Types; SearchTypes of SlotSearch_proofs says that this holds.
TypeOK ==
    /\ kind \in {"prio", "chain"}
    /\ used \in SUBSET Slot
    /\ rest \in SUBSET used
    /\ ret \in Slot
    /\ found \in BOOLEAN

\* The function returns a slot at or above the minimum that no rule or chain
\* uses; only when the highest value of the integer type is itself in use may
\* it fall back on a minimum that is taken.
SlotIsFree ==
    found => /\ ret >= MinSlot
             /\ ret \in used => (ret = MinSlot /\ Width - 1 \in used)

\* The loop computes PrioSlot or ChainSlot.
ComputesClosedForm ==
    found => ret = IF kind = "prio" THEN PrioSlot(used, MinSlot, Width)
                                    ELSE ChainSlot(used, MinSlot, Width)

-----------------------------------------------------------------------------

\* The inductive invariant behind SlotIsFree: what has been visited is below
\* what has not, and the candidate is the successor of the last key visited.
WalkInv ==
    /\ \A p \in used \ rest, q \in rest : p < q
    /\ ~found => \/ ret = 0 /\ (used = rest \/ Width - 1 \in used \ rest)
                 \/ /\ ret - 1 \in used \ rest
                    /\ \A p \in used \ rest : p < ret

IndInv == TypeOK /\ WalkInv /\ SlotIsFree

\* The one behind ComputesClosedForm: every run of used keys that has been
\* visited goes on, but for the one that the candidate follows; and only
\* below the minimum does obj_rule_find_available_prio begin to walk.
RunInv ==
    ~found =>
        /\ \A p \in used \ rest :
              p + 1 >= MinSlot /\ p + 1 < Width => p + 1 \in used \/ p + 1 = ret
        /\ kind = "prio" /\ used # rest => \E p \in used : p <= MinSlot
=============================================================================
