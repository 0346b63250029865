------------------------------- MODULE TcRule -------------------------------
(***************************************************************************)
(* How a rule becomes a flower filter and a filter a rule: tc_rule.c,      *)
(* tc_encode.c, tc_decode.c and build_af_addr, and between them what the   *)
(* kernel makes of a filter it is given.  The daemon knows that a rule is  *)
(* installed by nothing else than memcmp: what it decodes from a dump has  *)
(* to be, byte for byte, what it asked for.                                *)
(*                                                                         *)
(* Addresses and link layer addresses are sequences of cells of two bytes, *)
(* masks are sequences of octets, and a filter has the attributes that     *)
(* tc_encode.c writes and tc_decode.c reads.                               *)
(***************************************************************************)
EXTENDS Integers, Sequences, FiniteSets, SequencesExt

AF == {4, 6}

\* Two byte cells of an address, and the longest mask.
AddrCells(af) == IF af = 4 THEN 2 ELSE 8
MaxMask(af)   == IF af = 4 THEN 32 ELSE 128

\* A piece of zeroed memory with cells copied to its start.
Copied(cells, n) == [i \in 1..n |-> IF i <= Len(cells) THEN cells[i] ELSE 0]

Traits == {"AF", "IP", "GOTO", "TRAP", "TTL_CHECK", "TTL_DEC", "LLADDR", "VLAN_MOD"}
Types  == {"UNSPEC", "ALIEN", "FORWARD", "ROUTE_TRAP", "ROUTE_GOTO", "TTL_CHECK"}

type_traits ==
    [FORWARD        |-> {"AF", "LLADDR", "TTL_DEC", "VLAN_MOD"},
     TTL_CHECK      |-> {"AF", "TTL_CHECK", "TRAP"},
     ROUTE_GOTO     |-> {"AF", "IP", "GOTO"},
     ROUTE_DFT_GOTO |-> {"AF", "GOTO"},
     ROUTE_TRAP     |-> {"AF", "IP", "TRAP"}]

-----------------------------------------------------------------------------
(* Rules.                                                                   *)

\* struct af_addr.  `pad' is the gap between mask_len and the address, which
\* is aligned to four bytes.
Addr(af, mask_len, cells) ==
    [af |-> af, mask_len |-> mask_len, pad |-> 0, in |-> Copied(cells, 8)]

NoAddr == Addr(0, 0, <<>>)

\* struct tc_rule, zeroed.
Zeroed ==
    [type |-> "UNSPEC", vlan_id |-> 0, flower_flags |-> {}, goto_target |-> 0,
     traits |-> {}, af_addr |-> NoAddr, lladdr |-> Copied(<<>>, 6)]

\* tc_rule_init.
tc_rule_init(flags) == [Zeroed EXCEPT !.flower_flags = flags]

\* tc_rule_set_type: once an alien, always an alien.
tc_rule_set_type(rule, type) ==
    IF rule.type = "ALIEN" THEN rule ELSE [rule EXCEPT !.type = type]

tc_rule_set_type_and_traits(rule, type) ==
    [tc_rule_set_type(rule, type) EXCEPT
        !.traits = IF @ = {} THEN type_traits[type] ELSE @]

tc_rule_mark_alien(rule) == tc_rule_set_type(rule, "ALIEN")

\* Mutant: a default route stays what its traits say.
tc_rule_detect_NoDefault(rule) ==
    LET found == {t \in DOMAIN type_traits : type_traits[t] = rule.traits}
    IN  IF found = {} THEN tc_rule_set_type(rule, "ALIEN")
        ELSE tc_rule_set_type(rule, CHOOSE t \in found : TRUE)

\* tc_rule_detect, and the type its caller sets.
tc_rule_detect(rule) ==
    LET found == {t \in DOMAIN type_traits : type_traits[t] = rule.traits}
    IN  IF found = {} THEN tc_rule_set_type(rule, "ALIEN")
        ELSE IF found = {"ROUTE_DFT_GOTO"}
             THEN tc_rule_set_type([rule EXCEPT !.traits = type_traits["ROUTE_GOTO"]],
                                   "ROUTE_GOTO")
        ELSE tc_rule_set_type(rule, CHOOSE t \in found : TRUE)

-----------------------------------------------------------------------------
(* Encoding.                                                                *)

\* The mask of n octets that starts with len ones.
tce_build_mask(n, len) ==
    [i \in 1..n |->
        LET host == 8 * i - len
        IN  IF host >= 8 THEN 0 ELSE IF host <= 0 THEN 255 ELSE (255 * 2^host) % 256]

NoDst == [addr |-> <<>>, mask |-> <<>>]

tce_match_prefix(rule) ==
    LET a == rule.af_addr
        n == AddrCells(a.af)
    IN  [addr |-> SubSeq(a.in, 1, n), mask |-> tce_build_mask(2 * n, a.mask_len)]

Gact(action)     == [kind |-> "gact", action |-> action]
Vlan(op, id)     == [kind |-> "vlan", action |-> op, id |-> id]
Pedit(keys)      == [kind |-> "pedit", keys |-> keys]
Mirred(op)       == [kind |-> "mirred", action |-> op]
Csum             == [kind |-> "csum"]
Key(htype, cmd, off, val) == [htype |-> htype, cmd |-> cmd, off |-> off, val |-> val]

\* The three words of the link layer addresses, then the decrement of the TTL
\* or hop limit.
tce_pedit_action(rule) ==
    Pedit([i \in 1..3 |-> Key("ETH", "set", 4 * (i - 1),
                              SubSeq(rule.lladdr, 2 * i - 1, 2 * i))]
          \o <<IF rule.af_addr.af = 4 THEN Key("IP4", "add", 8, <<65280, 0>>)
                                      ELSE Key("IP6", "add", 4, <<0, 255>>)>>)

tce_add_ip_forward_rule(rule) ==
    <<Vlan("modify", rule.vlan_id), tce_pedit_action(rule)>>
        \o (IF rule.af_addr.af = 4 THEN <<Csum>> ELSE <<>>)
        \o <<Mirred("redirect")>>

Actions(rule) ==
    CASE rule.type = "FORWARD"    -> tce_add_ip_forward_rule(rule)
      [] rule.type = "ROUTE_TRAP" -> <<Gact(<<"trap">>)>>
      [] rule.type = "ROUTE_GOTO" -> <<Gact(<<"goto", rule.goto_target>>)>>
      [] rule.type = "TTL_CHECK"  -> <<Gact(<<"trap">>)>>

\* A filter: `ttl' 0 is no match on the TTL.
tc_encode_rule(rule) ==
    [kind  |-> "flower",
     flags |-> rule.flower_flags \ {"IN_HW"},
     eth_type |-> "8021Q",
     vlan_eth_type |-> rule.af_addr.af,
     ttl   |-> IF rule.type = "TTL_CHECK" THEN 1 ELSE 0,
     dst   |-> IF rule.type \in {"ROUTE_TRAP", "ROUTE_GOTO"}
               THEN tce_match_prefix(rule) ELSE NoDst,
     acts  |-> Actions(rule)]

-----------------------------------------------------------------------------
(* The kernel (external): the outer type is dumped as the inner one (the    *)
(* comment in tce_flower_set_eth_type), a key without a mask is left out,   *)
(* and the flags tell whether the hardware took the filter.                 *)

Dumped(f) ==
    [f EXCEPT !.eth_type = IF @ = "8021Q" THEN f.vlan_eth_type ELSE @,
              !.dst   = IF \A i \in DOMAIN @.mask : @.mask[i] = 0 THEN NoDst ELSE @,
              !.flags = @ \union {IF "SKIP_HW" \in @ THEN "NOT_IN_HW" ELSE "IN_HW"}]

-----------------------------------------------------------------------------
(* Decoding.                                                                *)

\* decode_nlattr_tc_act_gact_cb: any other action is passed over.
gact(rule, act) ==
    CASE act.action[1] = "goto" ->
            [rule EXCEPT !.traits = @ \union {"GOTO"}, !.goto_target = act.action[2]]
      [] act.action[1] = "trap" -> [rule EXCEPT !.traits = @ \union {"TRAP"}]
      [] OTHER -> rule

\* Mutant: every operation on a tag is taken for a modification.
vlan_AnyOp(rule, act) ==
    IF act.id = 0 THEN rule
    ELSE [rule EXCEPT !.traits = @ \union {"VLAN_MOD"}, !.vlan_id = act.id]

\* decode_nlattr_tc_act_vlan_cb.
vlan(rule, act) ==
    LET r == IF act.action = "modify" THEN rule ELSE tc_rule_mark_alien(rule)
    IN  IF act.id = 0 THEN r
        ELSE [r EXCEPT !.traits = @ \union {"VLAN_MOD"}, !.vlan_id = act.id]

\* The keys of a pedit action that are understood.
KnownKey(key) ==
    \/ key.htype = "ETH" /\ key.cmd = "set" /\ key.off \in {0, 4, 8}
    \/ key.htype \in {"IP4", "IP6"} /\ key.cmd = "add"

\* Keys write whole words, as those of tc_encode.c do: their mask, which would
\* keep some of what was there, is 0.
pedit_key(rule, key) ==
    IF key.htype = "ETH"
    THEN [rule EXCEPT !.traits = @ \union {"LLADDR"},
                      !.lladdr[key.off \div 2 + 1] = key.val[1],
                      !.lladdr[key.off \div 2 + 2] = key.val[2]]
    ELSE [rule EXCEPT !.traits = @ \union {"TTL_DEC"}]

\* decode_nlattr_tc_act_pedit_cb: the first key that is not understood ends
\* the loop, and so does having none.
pedit(rule, act) ==
    LET bad  == {i \in DOMAIN act.keys : ~KnownKey(act.keys[i])}
        good == {i \in DOMAIN act.keys : \A j \in bad : i < j}
        read[n \in 0..Cardinality(good)] ==
            IF n = 0 THEN rule ELSE pedit_key(read[n - 1], act.keys[n])
        r    == read[Cardinality(good)]
    IN  IF bad # {} \/ act.keys = <<>> THEN tc_rule_mark_alien(r) ELSE r

\* decode_nlattr_tc_act_mirred_cb: the interface is only printed.
mirred(rule, act) ==
    IF act.action = "redirect" THEN rule ELSE tc_rule_mark_alien(rule)

\* decode_nlattr_tc_act_cb: a kind without helper, and csum, change nothing.
decode_act(rule, act) ==
    CASE act.kind = "gact"   -> gact(rule, act)
      [] act.kind = "vlan"   -> vlan(rule, act)
      [] act.kind = "pedit"  -> pedit(rule, act)
      [] act.kind = "mirred" -> mirred(rule, act)
      [] OTHER -> rule

\* The attribute with the actions in decode_flower: each in its order, or there
\* is none.
decode_acts(acts) ==
    LET read[n \in 0..Len(acts)] ==
            IF n = 0 THEN Zeroed ELSE decode_act(read[n - 1], acts[n])
    IN  IF acts = <<>> THEN tc_rule_mark_alien(Zeroed) ELSE read[Len(acts)]

\* count_ones: the octets after the first that is not full are not read.
LeadingFull(mask) == Cardinality({i \in DOMAIN mask : \A j \in 1..i : mask[j] = 255})

OnesOf(octet) == {n \in 0..7 : octet = (255 * 2^(8 - n)) % 256}

IsMask(mask) ==
    \/ LeadingFull(mask) = Len(mask)
    \/ OnesOf(mask[LeadingFull(mask) + 1]) # {}

count_ones(mask) ==
    LET n == LeadingFull(mask)
    IN  IF n = Len(mask) \/ ~IsMask(mask)
        THEN IF IsMask(mask) THEN 8 * n ELSE 0
        ELSE 8 * n + CHOOSE k \in OnesOf(mask[n + 1]) : TRUE

\* The destination in decode_flower, with build_af_addr.
decode_dst(rule, f) ==
    LET af == f.vlan_eth_type
        r  == [rule EXCEPT !.traits = @ \union {"AF"}, !.af_addr.af = af]
        d  == [r EXCEPT !.traits = @ \union {"IP"},
                        !.af_addr = Addr(af, count_ones(f.dst.mask), f.dst.addr)]
    IN  IF f.vlan_eth_type \notin AF \/ f.eth_type # f.vlan_eth_type
        THEN tc_rule_mark_alien(rule)
        ELSE IF f.dst = NoDst THEN r
        ELSE IF IsMask(f.dst.mask) THEN d ELSE tc_rule_mark_alien(d)

decode_ttl(rule, f) ==
    CASE f.ttl = 0 -> rule
      [] f.ttl = 1 -> [rule EXCEPT !.traits = @ \union {"TTL_CHECK"}]
      [] OTHER -> tc_rule_mark_alien(rule)

decode_flower(f) ==
    LET flags == [decode_acts(f.acts) EXCEPT !.flower_flags = f.flags]
    IN  decode_dst(decode_ttl(flags, f), f)

\* try_decode_filter, of a filter that is there.
decode_filter(f) ==
    tc_rule_detect(IF f.kind = "flower" THEN decode_flower(f)
                   ELSE tc_rule_mark_alien(Zeroed))
=============================================================================
