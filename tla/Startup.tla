------------------------------- MODULE Startup -------------------------------
(***************************************************************************)
(* The daemon from its command line to its filters: options_parse          *)
(* (options.c) and the prefix lists it fills (onload.c), the rules that    *)
(* sched_basic wants (sched_basic.c), and what becomes of them and of a    *)
(* filter that was there before when rules are encoded, dumped by the      *)
(* kernel, decoded and compared (TcRule).  What happens to requests on     *)
(* their way is the subject of RuleSync: here all that has to be done is   *)
(* done at once.                                                           *)
(***************************************************************************)
EXTENDS TcRule, Slots

CONSTANTS
    Text,        \* prefixes as they are written, see TextRecord
    File,        \* what -P may name: a sequence of lines, or NoFile
    NoFile,      \* a file that cannot be opened
    ListName,    \* names of prefix lists; "onload" is the one that is used
    Catalogue,   \* filters left in the kernel by somebody else, by place
    Forward,     \* what targets may want: [af, vlan, lladdr]
    Dest,        \* what routes may want: [af, mask_len, cells]
    Width,       \* bound: priorities are below
    TrapBase,    \* sched_basic_place_prefix_list: 10
    RouteBase,   \* sched_basic_place: 100
    ChainBase,   \* sched_basic_place: 5
    MaxOptions   \* bound: options on the command line

ASSUME BasesAssumption ==
    /\ {TrapBase, RouteBase, ChainBase, Width} \subseteq Nat
    /\ 1 < TrapBase /\ TrapBase < RouteBase /\ RouteBase < Width

Cell == 0..65535

\* A prefix as text: `cells' of the address, <<>> when inet_pton refuses it;
\* `mask' is -1 without a slash and -2 when it is no number.
TextRecord == {t \in [af : AF, cells : Seq(Cell), mask : Int] :
                  Len(t.cells) \in {0, AddrCells(t.af)}}

\* What a target may want: an address and a tag are known.  What a route may
\* want: the kernel leaves no host bits in a destination.
ForwardRecord == [af : AF, vlan : 1..4095, lladdr : [1..6 -> Cell]]
DestRecord == {d \in [af : AF, mask_len : 0..128, cells : Seq(Cell)] :
                  /\ d.mask_len <= MaxMask(d.af) /\ Len(d.cells) <= AddrCells(d.af)
                  /\ d.mask_len = 0 => \A i \in DOMAIN d.cells : d.cells[i] = 0}

\* onload_fread_prefix: a line is <<>> when it is passed over (blank, a comment,
\* or something after the prefix), else it holds a prefix; the first that is
\* wrong ends the file.
PrefixLines(file) == FlattenSeq(file)

ASSUME InputAssumption ==
    /\ Text \subseteq TextRecord
    /\ \A file \in File : PrefixLines(file) \in Seq(TextRecord)
    /\ Forward \subseteq ForwardRecord /\ Dest \subseteq DestRecord
    /\ \A c \in Catalogue : c.place \in Nat \X Nat

VARIABLES
    phase,    \* "options", "running", or how the program ended
    parsed,   \* options read so far
    config,   \* struct config, without its lists
    mode,     \* run_mode of options_parse
    lists,    \* config->prefix_list_head: lists in order, entries in order
    given,    \* history: what the lists were to hold
    want,     \* wanted rules by place <<chain, prio>>
    have,     \* decoded rules by place
    kernel,   \* filters by place
    own       \* history: places of filters that the daemon wrote

vars == <<phase, parsed, config, mode, lists, given, want, have, kernel, own>>
rules == <<want, have, kernel, own>>
options == <<config, mode, lists, given>>

-----------------------------------------------------------------------------
(* Prefixes (onload.c).                                                     *)

\* Mutant: no upper bound on the mask.
Parses_AnyMask(t) == t.cells # <<>> /\ t.mask >= -1

Parses(t) == t.cells # <<>> /\ t.mask \in -1..MaxMask(t.af)

\* onload_add_prefix: the address is stored at &pfx.addr, the start of struct
\* af_addr.  Family and mask, set later, replace its first cell, the second
\* fills the padding, and what is left is found two cells early.
Parsed(t) ==
    [af |-> t.af,
     mask_len |-> IF t.mask = -1 THEN MaxMask(t.af) ELSE t.mask,
     pad |-> t.cells[2],
     in |-> Copied(SubSeq(t.cells, 3, Len(t.cells)), 8)]

\* lookup_prefix_list: the position of a list, after the last when unknown.
Lookup(ls, name) ==
    LET known == {i \in DOMAIN ls : ls[i].name = name}
    IN  IF known = {} THEN Len(ls) + 1 ELSE Lowest(known)

\* Mutant: the new entry becomes the head.
Stored_AtHead(ls, name, pfx) ==
    LET i == Lookup(ls, name) IN
    IF i > Len(ls) THEN Append(ls, [name |-> name, entries |-> <<pfx>>])
    ELSE [ls EXCEPT ![i].entries = <<pfx>> \o @]

\* onload_store_prefix, get_or_create_prefix_list.
Stored(ls, name, pfx) ==
    LET i == Lookup(ls, name) IN
    IF i > Len(ls) THEN Append(ls, [name |-> name, entries |-> <<pfx>>])
    ELSE [ls EXCEPT ![i].entries = Append(@, pfx)]

Bad(file) == {i \in DOMAIN PrefixLines(file) : ~Parses(PrefixLines(file)[i])}

StoredAll(ls, name, texts) ==
    LET stored[n \in 0..Len(texts)] ==
            IF n = 0 THEN ls ELSE Stored(stored[n - 1], name, Parsed(texts[n]))
    IN  stored[Len(texts)]

-----------------------------------------------------------------------------
(* Options (options.c).                                                     *)

More == phase = "options" /\ parsed < MaxOptions

\* The case of the switch in options_parse is through.
Next_option == parsed' = parsed + 1 /\ UNCHANGED <<phase, rules>>

\* bail: usage on stderr, exit(EXIT_FAILURE).
Bail == phase' = "failure" /\ UNCHANGED <<parsed, options, rules>>

Given(name, texts) ==
    given \o [i \in DOMAIN texts |-> [list |-> name, text |-> texts[i]]]

\* -t: a table that is unknown, or 0, or named twice is refused.
OptTable(known) ==
    /\ More
    /\ IF config.table \/ ~known THEN Bail
       ELSE /\ config' = [config EXCEPT !.table = TRUE]
            /\ UNCHANGED <<mode, lists, given>>
            /\ Next_option

\* -i, likewise.
OptIface(known) ==
    /\ More
    /\ IF config.iface \/ ~known THEN Bail
       ELSE /\ config' = [config EXCEPT !.iface = TRUE]
            /\ UNCHANGED <<mode, lists, given>>
            /\ Next_option

\* -p <list> <prefix>.
OptAddPrefix(name, t) ==
    /\ More
    /\ IF ~Parses(t) THEN Bail
       ELSE /\ lists' = Stored(lists, name, Parsed(t))
            /\ given' = Given(name, <<t>>)
            /\ UNCHANGED <<config, mode>>
            /\ Next_option

\* -P <list> <file>: only -EINVAL is an error, a file that cannot be opened
\* is passed over.
OptLoadPrefix(name, file) ==
    /\ More
    /\ CASE file = NoFile -> Next_option /\ UNCHANGED options
         [] file # NoFile /\ Bad(file) # {} -> Bail
         [] file # NoFile /\ Bad(file) = {} ->
              /\ lists' = StoredAll(lists, name, PrefixLines(file))
              /\ given' = Given(name, PrefixLines(file))
              /\ UNCHANGED <<config, mode>>
              /\ Next_option

\* Anything that ends in bail whatever was there before: -s and -T out of
\* bounds, -p and -P with one argument, an unknown option, a stray argument.
OptWrong == More /\ Bail

\* -1, -h and --version: the last one counts.
OptMode(m) ==
    /\ More
    /\ mode' = m
    /\ UNCHANGED <<config, lists, given>>
    /\ Next_option

\* --skip-hw.
OptSkipHw ==
    /\ More
    /\ config' = [config EXCEPT !.flower_flags = {"SKIP_HW"}]
    /\ UNCHANGED <<mode, lists, given>>
    /\ Next_option

\* The end of the arguments, for --help and --version and without -t or -i.
OptEnd ==
    /\ phase = "options"
    /\ mode \in {"help", "version"} \/ ~config.table \/ ~config.iface
    /\ phase' = IF mode \in {"help", "version"} THEN "success" ELSE "failure"
    /\ UNCHANGED <<parsed, options, rules>>

-----------------------------------------------------------------------------
(* Wanted rules (sched_basic.c).                                            *)

get_af_chain(af) == IF af = 4 THEN 1 ELSE 2

\* request_af_goto_rule: mlx5_core cannot match on ::/0, hence 2000::/3.
AfGoto(af) ==
    tc_rule_set_type_and_traits(
        [tc_rule_init(config.flower_flags) EXCEPT
            !.goto_target = get_af_chain(af),
            !.af_addr = IF af = 4 THEN Addr(4, 0, <<>>) ELSE Addr(6, 3, <<8192>>)],
        "ROUTE_GOTO")

\* request_ttl_check.
TtlCheck(af) ==
    tc_rule_set_type_and_traits(
        [tc_rule_init(config.flower_flags) EXCEPT !.af_addr.af = af], "TTL_CHECK")

\* request_onload_rule: a copy of the entry, padding included.
OnloadTrap(pfx) ==
    tc_rule_set_type_and_traits(
        [tc_rule_init(config.flower_flags) EXCEPT !.af_addr = pfx], "ROUTE_TRAP")

\* Priorities of a chain in the positional tree: wanted or found.
UsedPrios(w, chain) == {p[2] : p \in {q \in DOMAIN w \union DOMAIN have : q[1] = chain}}

AvailablePrio(w, af, base) == PrioSlot(UsedPrios(w, get_af_chain(af)), base, Width)

\* obj_rule_pos_insert: no effect when taken.
Placed(w, place, rule) ==
    [p \in DOMAIN w \union {place} |-> IF p \in DOMAIN w THEN w[p] ELSE rule]

\* sched_basic_place_prefix_list, one entry.
PlacedEntry(w, pfx) ==
    Placed(w, <<get_af_chain(pfx.af), AvailablePrio(w, pfx.af, TrapBase)>>, OnloadTrap(pfx))

Entries(name) ==
    LET i == Lookup(lists, name)
    IN  IF i > Len(lists) THEN <<>> ELSE lists[i].entries

Nothing == [p \in {} |-> Zeroed]

\* sched_basic_initial_requests.
InitialWants ==
    LET entries == Entries("onload")
        gotos  == Placed(Placed(Nothing, <<0, 1>>, AfGoto(4)), <<0, 2>>, AfGoto(6))
        checks == Placed(Placed(gotos, <<1, 1>>, TtlCheck(4)), <<2, 1>>, TtlCheck(6))
        placed[n \in 0..Len(entries)] ==
            IF n = 0 THEN checks ELSE PlacedEntry(placed[n - 1], entries[n])
    IN  placed[Len(entries)]

\* main: the arguments are fine and the scheduler is set up.  One filter may
\* be left in the kernel from somebody else.
OptDone ==
    /\ phase = "options"
    /\ mode \notin {"help", "version"} /\ config.table /\ config.iface
    /\ phase' = "running"
    /\ want' = InitialWants
    /\ kernel' \in {Nothing} \union {[p \in {c.place} |-> c.filter] : c \in Catalogue}
    /\ UNCHANGED <<parsed, options, have, own>>

Wanted(type) == {p \in DOMAIN want : want[p].type = type}

\* obj_target_prepare_rule, placed by sched_basic_place in a chain without
\* rules; which one is the subject of RuleSync and SlotSearch.
NewTarget(t, chain) ==
    /\ phase = "running"
    /\ Wanted("FORWARD") = {}
    /\ \A p \in DOMAIN want \union DOMAIN have : p[1] # chain
    /\ want' = Placed(want, <<chain, 1>>, tc_rule_set_type_and_traits(
                  [tc_rule_init(config.flower_flags) EXCEPT
                      !.vlan_id = t.vlan, !.lladdr = t.lladdr, !.af_addr.af = t.af],
                  "FORWARD"))
    /\ UNCHANGED <<phase, parsed, options, have, kernel, own>>

\* Mutant: any priority will do.
RoutePlace_AnyPrio(d) == <<get_af_chain(d.af), AvailablePrio(want, d.af, 1)>>

\* sched_basic_place for a route.
RoutePlace(d) == <<get_af_chain(d.af), AvailablePrio(want, d.af, RouteBase)>>

\* obj_route_prepare_rule: a route to a target whose rule is OK.
NewRoute(d, t) ==
    /\ phase = "running"
    /\ Wanted("ROUTE_GOTO") \ {<<0, 1>>, <<0, 2>>} = {}
    /\ t \in Wanted("FORWARD") /\ t \in DOMAIN have /\ have[t] = want[t]
    /\ want' = Placed(want, RoutePlace(d), tc_rule_set_type_and_traits(
                  [tc_rule_init(config.flower_flags) EXCEPT
                      !.goto_target = t[1],
                      !.af_addr = Addr(d.af, d.mask_len, d.cells)],
                  "ROUTE_GOTO"))
    /\ UNCHANGED <<phase, parsed, options, have, kernel, own>>

-----------------------------------------------------------------------------
(* Filters: obj_rule_netlink_found and obj_rule_update_state for all rules. *)

Without(f, places) == [p \in DOMAIN f \ places |-> f[p]]

\* Every filter is announced or dumped, and decoded.
Found ==
    /\ phase = "running"
    /\ have' = [p \in DOMAIN kernel |-> decode_filter(kernel[p])]
    /\ UNCHANGED <<phase, parsed, options, want, kernel, own>>

\* Rules that are ALIEN: nobody wants them, or not like this.
Aliens == {p \in DOMAIN have : p \notin DOMAIN want \/ want[p] # have[p]}

Uninstall ==
    /\ phase = "running"
    /\ Aliens # {}
    /\ kernel' = Without(kernel, Aliens)
    /\ have' = Without(have, Aliens)
    /\ own' = own \ Aliens
    /\ UNCHANGED <<phase, parsed, options, want>>

\* Rules that are WANTed.  NLM_F_EXCL: the kernel keeps what it has.
Missing == (DOMAIN want \ DOMAIN have) \ DOMAIN kernel

Install ==
    /\ phase = "running"
    /\ Missing # {}
    /\ kernel' = [p \in DOMAIN kernel \union Missing |->
                     IF p \in Missing THEN Dumped(tc_encode_rule(want[p])) ELSE kernel[p]]
    /\ own' = own \union Missing
    /\ UNCHANGED <<phase, parsed, options, want, have>>

-----------------------------------------------------------------------------

\* config_init.
Init ==
    /\ phase = "options" /\ parsed = 0
    /\ config = [table |-> FALSE, iface |-> FALSE, flower_flags |-> {"SKIP_SW", "IN_HW"}]
    /\ mode = "daemon" /\ lists = <<>> /\ given = <<>>
    /\ want = Nothing /\ have = Nothing /\ kernel = Nothing /\ own = {}

ReadOption ==
    \/ \E known \in BOOLEAN : OptTable(known) \/ OptIface(known)
    \/ \E name \in ListName, t \in Text : OptAddPrefix(name, t)
    \/ \E name \in ListName, file \in File \union {NoFile} : OptLoadPrefix(name, file)
    \/ \E m \in {"once", "help", "version"} : OptMode(m)
    \/ OptSkipHw
    \/ OptWrong
    \/ OptEnd
    \/ OptDone

Next ==
    \/ ReadOption
    \/ \E t \in Forward, chain \in ChainBase..(ChainBase + 1) : NewTarget(t, chain)
    \/ \E d \in Dest, t \in Wanted("FORWARD") : NewRoute(d, t)
    \/ Found
    \/ Uninstall
    \/ Install

Spec == Init /\ [][Next]_vars

-----------------------------------------------------------------------------
(* Properties.                                                              *)

IsAddr(a) ==
    /\ a.af \in AF \union {0}
    /\ a.mask_len \in 0..(IF a.af = 4 THEN 32 ELSE 128)
    /\ a.pad \in 0..65535 /\ a.in \in [1..8 -> 0..65535]

IsRule(r) ==
    /\ r.type \in Types /\ r.traits \subseteq Traits
    /\ IsAddr(r.af_addr) /\ r.lladdr \in [1..6 -> 0..65535]
    /\ r.goto_target \in Nat /\ r.vlan_id \in 0..4095

\* Values are of their types, and masks fit their address: what the command
\* line let through can be encoded (options_parse, onload_add_prefix).
StartupTypeOK ==
    /\ phase \in {"options", "running", "success", "failure"}
    /\ parsed \in 0..MaxOptions
    /\ mode \in {"daemon", "once", "help", "version"}
    /\ \A i \in DOMAIN lists : \A j \in DOMAIN lists[i].entries : IsAddr(lists[i].entries[j])
    /\ \A p \in DOMAIN want : IsRule(want[p]) /\ want[p].type \notin {"UNSPEC", "ALIEN"}
    /\ \A p \in DOMAIN have : IsRule(have[p]) /\ have[p].type # "UNSPEC"
    /\ own \subseteq DOMAIN kernel

\* What the user gave for the traps of a family, by position, and the priority
\* that is due to each.
Asked(af) == {i \in DOMAIN given : given[i].list = "onload" /\ given[i].text.af = af}

Due(i) ==
    LET af == given[i].text.af
    IN  <<get_af_chain(af), TrapBase + Cardinality({j \in Asked(af) : j < i})>>

\* The traps of a family are those the user asked for in "onload", whether on
\* the command line or in files, none lost and none twice, at consecutive
\* priorities in the order they were given, and routes added later do not take
\* their places (onload_store_prefix, sched_basic_place_prefix_list).
TrapsInOrder ==
    phase = "running" =>
        \A af \in AF :
            /\ {p \in Wanted("ROUTE_TRAP") : p[1] = get_af_chain(af)} = {Due(i) : i \in Asked(af)}
            /\ \A i \in Asked(af) : want[Due(i)].af_addr = Parsed(given[i].text)

\* However many traps there are, packets meet all of them before any route of
\* their family, and the TTL check before the traps (sched_basic_place).
TrapsFirst ==
    \A t \in Wanted("ROUTE_TRAP") :
        /\ <<t[1], 1>> \in Wanted("TTL_CHECK") /\ 1 < t[2]
        /\ \A r \in Wanted("ROUTE_GOTO") : r[1] = t[1] => t[2] < r[2]

\* Rules that are not read back as they were written: all of them with
\* --skip-hw (the kernel adds NOT_IN_HW), a trap for everything (it decodes to
\* a rule without address), and a prefix with something in the padding.
Unreadable(rule) ==
    \/ "SKIP_HW" \in rule.flower_flags
    \/ rule.type = "ROUTE_TRAP" /\ (rule.af_addr.mask_len = 0 \/ rule.af_addr.pad # 0)

\* With those exceptions a filter that the daemon wrote is recognized ever
\* after: it is not taken for an alien and written again
\* (tc_encode_rule, decode_filter, obj_rule_update_state).
OwnIsRecognized ==
    [][\A p \in own : p \in own' \/ Unreadable(want[p])]_vars

\* The actions of a filter, in their order, a pedit action as its keys.
Parts(f) ==
    FlattenSeq([i \in DOMAIN f.acts |->
        LET a == f.acts[i] IN IF a.kind = "pedit" /\ a.keys # <<>> THEN a.keys ELSE <<a>>])

IsKey(part)    == "htype" \in DOMAIN part
TtlKey         == Key("IP", "add", 0, <<0, 0>>)
WritesTtl(part) == IsKey(part) /\ part.htype \in {"IP4", "IP6"} /\ KnownKey(part)

\* The member of struct tc_rule that a part is written to, over what was there.
Member(part) ==
    CASE IsKey(part) /\ part.htype = "ETH" /\ KnownKey(part) -> <<"lladdr", part.off>>
      [] ~IsKey(part) /\ part.kind = "gact" /\ part.action[1] = "goto" -> <<"goto_target">>
      [] ~IsKey(part) /\ part.kind = "vlan" /\ part.action = "modify" /\ part.id # 0 -> <<"vlan_id">>
      [] OTHER -> <<>>

\* Parts that the decoder looks at: trap and goto of the gact actions, a change
\* of the tag unless to 0, all keys, and no redirect.
LookedAt(part) ==
    \/ IsKey(part)
    \/ part.kind = "gact" /\ part.action[1] \in {"trap", "goto"}
    \/ part.kind = "vlan" /\ (part.action # "modify" \/ part.id # 0)
    \/ part.kind = "pedit"
    \/ part.kind = "mirred" /\ part.action # "redirect"

\* What is read of a filter: the parts that are looked at, of those for the same
\* member the last.  Not read are where a redirect goes to, the checksum, actions
\* without a helper, the order of what is read, how and how often the TTL
\* changes, and of the mask of an address what follows its first octet that is
\* not full.  (Nor are the mask of a word or of the TTL, the priority of a tag
\* and what else a filter may match; filters here are without.)
Seen(f) ==
    LET parts == Parts(f)
        stays(i) == \A j \in DOMAIN parts : j > i => Member(parts[j]) # Member(parts[i])
        seen == {i \in DOMAIN parts : LookedAt(parts[i]) /\ (Member(parts[i]) = <<>> \/ stays(i))}
    IN  [f EXCEPT !.acts = {IF WritesTtl(parts[i]) THEN TtlKey ELSE parts[i] : i \in seen},
                  !.dst.mask = [i \in DOMAIN @ |-> IF i > LeadingFull(@) + 1 THEN 0 ELSE @[i]]]

\* A filter that is left in place as the one that is wanted is that one in
\* everything the decoder reads (Seen): another address, flag, link layer address
\* or tag is noticed, and so are a trap too many and operations on the tag or the
\* packet that no rule has (decode_filter).  Of several gotos, tags or words for
\* the same place it is the last that has to be right, since each is written over
\* the one before (goto_target, tc_decode.c:130).  Kept are therefore also filters
\* that packets do not leave as they should: those with a goto to another chain,
\* or a drop, in front of the right goto, and those that set the tag to 0 at last.
NothingOverlooked ==
    \A p \in DOMAIN want \intersect DOMAIN have :
        p \in DOMAIN kernel /\ have[p] = want[p]
            => Seen(kernel[p]) = Seen(Dumped(tc_encode_rule(want[p])))

\* Each prefix that was given for "onload" is trapped: the wanted rule has its
\* address.  The README's "add static prefix" (-p), README.md:81.
PrefixesTrapped ==
    phase = "running" =>
        \A af \in AF : \A i \in Asked(af) :
            want[Due(i)].af_addr.in = Copied(given[i].text.cells, 8)

-----------------------------------------------------------------------------
(* The inductive invariant of Startup_proofs, for TrapsFirst.               *)

Prefix == {t \in TextRecord : Parses(t)}

PrefixEntry == {Parsed(t) : t \in Prefix}
PrefixLists == Seq([name : ListName, entries : Seq(PrefixEntry)])

Traps(w) == {p \in DOMAIN w : w[p].type = "ROUTE_TRAP"}

\* In both chains of a family the TTL is checked first.
Checked(w) ==
    \A c \in {1, 2} : <<c, 1>> \in DOMAIN w /\ w[<<c, 1>>].type = "TTL_CHECK"

\* No priority is left out below a trap, so none is left there for a route.
Contiguous(w) ==
    \A t \in Traps(w) : /\ t[1] \in {1, 2} /\ t[2] >= TrapBase
                        /\ \A k \in TrapBase..t[2] : <<t[1], k>> \in Traps(w)

RoutesBehind(w) ==
    \A t \in Traps(w), r \in DOMAIN w :
        w[r].type = "ROUTE_GOTO" /\ r[1] = t[1] => t[2] < r[2]

OrderInv ==
    /\ DOMAIN want \union DOMAIN have \union DOMAIN kernel \subseteq Nat \X Nat
    /\ IF phase = "running" THEN Checked(want) ELSE want = Nothing /\ have = Nothing
    /\ Contiguous(want)
    /\ RoutesBehind(want)

-----------------------------------------------------------------------------
(* The inductive invariant of Startup_proofs, for OwnIsRecognized.          *)

\* A rule that decode_filter returns as tc_encode_rule got it.
ReadBack(rule) == decode_filter(Dumped(tc_encode_rule(rule))) = rule

\* Nothing but the rules of Unreadable is changed on the way through the
\* kernel; what is decoded is what the kernel has; and what the daemon wrote is
\* still there, and still what it wants.
OwnInv ==
    /\ config \in [table : BOOLEAN, iface : BOOLEAN,
                   flower_flags : {{"SKIP_SW", "IN_HW"}, {"SKIP_HW"}}]
    /\ phase # "running" => have = Nothing /\ own = {}
    /\ \A p \in DOMAIN want : ReadBack(want[p]) \/ Unreadable(want[p])
    /\ \A p \in DOMAIN have : p \in DOMAIN kernel /\ have[p] = decode_filter(kernel[p])
    /\ \A p \in own : /\ p \in DOMAIN want /\ p \in DOMAIN kernel
                      /\ kernel[p] = Dumped(tc_encode_rule(want[p]))
=============================================================================
