------------------------------- MODULE Slots -------------------------------
(***************************************************************************)
(* What the searches for a free priority (obj_rule_find_available_prio,    *)
(* src/src/obj_rule.c) and a free chain (filter_find_available_chain_no,   *)
(* src/src/nl_filter.c) return, without their loops.  SlotSearch checks    *)
(* that the loops compute these functions.                                 *)
(***************************************************************************)
EXTENDS Naturals

\* The free slots right after a used one, from min up.
GapsAbove(used, min, width) ==
    {p + 1 : p \in {q \in used : q + 1 >= min /\ q + 1 < width}} \ used

Lowest(S) == CHOOSE p \in S : \A q \in S : p <= q

\* Both loops look for the end of a run of used slots.  When there is none
\* (every slot after `min' is taken up to the last one) they fall back on min.
AfterRun(used, min, width) ==
    IF GapsAbove(used, min, width) = {}
    THEN min
    ELSE Lowest(GapsAbove(used, min, width))

\* obj_rule_find_available_prio: when nothing is used up to min, min itself.
PrioSlot(used, min, width) ==
    IF \A p \in used : p > min THEN min ELSE AfterRun(used, min, width)

\* filter_find_available_chain_no has no such case: with only higher chains
\* known it returns the one after the first run, and min stays unused.
ChainSlot(used, min, width) == AfterRun(used, min, width)
=============================================================================
