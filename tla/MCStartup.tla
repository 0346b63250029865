----------------------------- MODULE MCStartup -----------------------------
(* Prefixes, files and filters for Startup. *)
EXTENDS Startup

Written(af, cells, mask) == [af |-> af, cells |-> cells, mask |-> mask]

\* 10.0.0.0/8, 192.0.2.1, 0.0.0.0/0, 2001:db8::/48, 2002::/16, and three that
\* are refused.
Ten   == Written(4, <<2560, 0>>, 8)
Host  == Written(4, <<49152, 513>>, -1)
All   == Written(4, <<0, 0>>, 0)
Doc6  == Written(6, <<8193, 3512, 0, 0, 0, 0, 0, 0>>, 48)
SixTo == Written(6, <<8194, 0, 0, 0, 0, 0, 0, 0>>, 16)
Long  == Written(4, <<2560, 0>>, 33)
Word  == Written(6, <<8194, 0, 0, 0, 0, 0, 0, 0>>, -2)
Typo  == Written(4, <<>>, -1)

Texts == {Ten, All, Doc6, Long, Word}

Files == {<< <<>>, <<Host>>, <<Doc6>> >>, << <<SixTo>>, <<>>, <<Ten>>, <<Ten>> >>,
          << <<Ten>>, <<Typo>> >>}

Lladdr == <<1, 2, 3, 4, 5, 6>>
Forwards == {[af |-> 4, vlan |-> 7, lladdr |-> Lladdr], [af |-> 6, vlan |-> 7, lladdr |-> Lladdr]}

\* 198.51.100.0/24 and ::/0.
Dests == {[af |-> 4, mask_len |-> 24, cells |-> <<50739, 25600>>],
          [af |-> 6, mask_len |-> 0, cells |-> <<>>]}

-----------------------------------------------------------------------------
(* Filters of the daemon, and others in their places.                       *)

Hw == {"SKIP_SW", "IN_HW"}
Filter(af, acts) ==
    [kind |-> "flower", flags |-> Hw, eth_type |-> af, vlan_eth_type |-> af,
     ttl |-> 0, dst |-> NoDst, acts |-> acts]
At(filters, places) == [place : places, filter : filters]

Sort4 == Filter(4, <<Gact(<<"goto", 1>>)>>)
Sort6 == [Filter(6, <<Gact(<<"goto", 2>>)>>) EXCEPT
             !.dst = [addr |-> <<8192, 0, 0, 0, 0, 0, 0, 0>>, mask |-> tce_build_mask(16, 3)]]
Ttl4 == [Filter(4, <<Gact(<<"trap">>)>>) EXCEPT !.ttl = 1]
Words == [i \in 1..3 |-> Key("ETH", "set", 4 * (i - 1), <<2 * i - 1, 2 * i>>)]
Less  == Key("IP4", "add", 8, <<65280, 0>>)
Moves(keys) == Filter(4, <<Vlan("modify", 7), Pedit(keys), Csum, Mirred("redirect")>>)
Fwd4 == Moves(Words \o <<Less>>)

Sorters4 ==
    {Sort4, [Sort4 EXCEPT !.flags = {"IN_HW"}], [Sort4 EXCEPT !.kind = "u32"],
     [Sort4 EXCEPT !.acts = <<Gact(<<"goto", 2>>)>>],
     [Sort4 EXCEPT !.acts = <<>>],
     [Sort4 EXCEPT !.acts = <<Gact(<<"drop">>)>>],
     [Sort4 EXCEPT !.acts = @ \o <<Gact(<<"trap">>)>>],
     [Sort4 EXCEPT !.acts = <<Gact(<<"goto", 2>>)>> \o @],
     [Sort4 EXCEPT !.acts = @ \o <<Gact(<<"goto", 2>>)>>],
     [Sort4 EXCEPT !.acts = <<Gact(<<"drop">>)>> \o @],
     [Sort4 EXCEPT !.acts = <<Vlan("modify", 7)>> \o @],
     [Sort4 EXCEPT !.eth_type = 6],
     [Sort4 EXCEPT !.ttl = 2],
     [Sort4 EXCEPT !.dst = [addr |-> <<2560, 0>>, mask |-> tce_build_mask(4, 8)]]}

Sorters6 ==
    {Sort6, [Sort6 EXCEPT !.dst.mask = tce_build_mask(16, 4)],
     [Sort6 EXCEPT !.dst.mask[1] = 208],
     [Sort6 EXCEPT !.dst.addr[8] = 1]}

Forwarders ==
    {Fwd4, Moves(Words), Moves(<<Less>>), Moves(<<>>),
     Moves(<<Words[1], Words[3], Words[2], Less>>),
     Moves(Words \o <<Less, Key("TCP", "set", 0, <<0, 0>>)>>),
     Moves(Words \o <<[Less EXCEPT !.cmd = "set"]>>),
     Moves([Words EXCEPT ![2].val = <<3, 9>>] \o <<Less>>),
     Moves([Words EXCEPT ![2].off = 12] \o <<Less>>),
     Moves(<<[Words[2] EXCEPT !.val = <<3, 9>>]>> \o Words \o <<Less>>),
     Moves(Words \o <<[Words[2] EXCEPT !.val = <<3, 9>>], Less>>),
     Moves(Words \o <<Less, Less>>),
     Moves(Words \o <<[Less EXCEPT !.htype = "IP6"]>>),
     [Fwd4 EXCEPT !.acts = <<Pedit(Words)>> \o @],
     [Fwd4 EXCEPT !.acts[3] = Pedit(<<>>)],
     [Fwd4 EXCEPT !.acts[3] = Vlan("modify", 8)],
     [Fwd4 EXCEPT !.acts[3] = Vlan("modify", 0)],
     [Fwd4 EXCEPT !.acts = <<Vlan("modify", 8)>> \o @],
     [Fwd4 EXCEPT !.acts[1] = Vlan("push", 7)],
     [Fwd4 EXCEPT !.acts[1] = Vlan("modify", 8)],
     [Fwd4 EXCEPT !.acts[1] = Vlan("modify", 0)],
     [Fwd4 EXCEPT !.acts[4] = Mirred("mirror")],
     [Fwd4 EXCEPT !.acts[3] = Mirred("redirect")]}

Others ==
    At(Sorters4, {<<0, 1>>}) \union At(Sorters6, {<<0, 2>>})
        \union At({Ttl4, [Ttl4 EXCEPT !.ttl = 0], [Ttl4 EXCEPT !.ttl = 64]}, {<<1, 1>>})
        \union At({Sort4}, {<<1, 11>>, <<5, 2>>})
        \union At(Forwarders, {<<5, 1>>})
=============================================================================
