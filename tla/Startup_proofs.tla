--------------------------- MODULE Startup_proofs ---------------------------
(***************************************************************************)
(* Proofs about Startup, for any command line, any prefix lists, any width *)
(* of priorities and any filters in the kernel: packets meet the check of  *)
(* the TTL before the traps, and the traps before the routes; and what the *)
(* daemon wrote is read back as it was written, save for the rules of      *)
(* Unreadable.                                                             *)
(***************************************************************************)
EXTENDS Startup, Facts, SequenceTheorems, FunctionTheorems, FiniteSetTheorems, TLAPS

-----------------------------------------------------------------------------
(* Prefix lists. *)

LEMMA LowestIsIn ==
    ASSUME NEW S \in SUBSET Nat, S # {}
    PROVE  Lowest(S) \in S
  BY LeastNumber DEF Lowest

\* lookup_prefix_list.
LEMMA LookupTypes ==
    ASSUME NEW ls \in PrefixLists, NEW name
    PROVE  /\ Lookup(ls, name) \in 1..(Len(ls) + 1)
           /\ Lookup(ls, name) <= Len(ls) => Lookup(ls, name) \in DOMAIN ls
  <1> DEFINE known == {i \in DOMAIN ls : ls[i].name = name}
  <1>1. Len(ls) \in Nat /\ DOMAIN ls = 1..Len(ls)
    BY DEF PrefixLists
  <1>2. CASE known = {}
    BY <1>1, <1>2 DEF Lookup
  <1>3. CASE known # {}
    <2>1. known \in SUBSET Nat
      BY <1>1
    <2> HIDE DEF known
    <2>2. Lowest(known) \in known
      BY <1>3, <2>1, LowestIsIn
    <2> USE DEF known
    <2>3. Lookup(ls, name) \in DOMAIN ls
      BY <1>3, <2>2 DEF Lookup
    <2> QED
      BY <1>1, <2>3
  <1> QED
    BY <1>2, <1>3

\* onload_store_prefix.
LEMMA StoredTypes ==
    ASSUME NEW ls \in PrefixLists, NEW name \in ListName, NEW pfx \in PrefixEntry
    PROVE  Stored(ls, name, pfx) \in PrefixLists
  <1> DEFINE i == Lookup(ls, name)
             List == [name : ListName, entries : Seq(PrefixEntry)]
             more == Append(ls[i].entries, pfx)
  <1>1. Len(ls) \in Nat /\ DOMAIN ls = 1..Len(ls) /\ ls \in Seq(List)
    BY DEF PrefixLists
  <1>2. CASE i > Len(ls)
    <2>1. <<pfx>> \in Seq(PrefixEntry)
      OBVIOUS
    <2>2. [name |-> name, entries |-> <<pfx>>] \in List
      BY <2>1
    <2>3. Append(ls, [name |-> name, entries |-> <<pfx>>]) \in Seq(List)
      BY <1>1, <2>2, AppendPoints
    <2> QED
      BY <1>2, <2>3 DEF Stored, PrefixLists
  <1>3. CASE ~(i > Len(ls))
    <2>1. i \in 1..Len(ls)
      BY <1>1, <1>3, LookupTypes
    <2> HIDE DEF i
    <2>2. ls[i] \in List
      <3> HIDE DEF List
      <3> QED
        BY <1>1, <2>1
    <2>3. more \in Seq(PrefixEntry)
      BY <2>2, AppendPoints
    <2> HIDE DEF more
    <2> DEFINE list == [ls[i] EXCEPT !.entries = more]
    <2>4. list \in List
      BY <2>2, <2>3
    <2> HIDE DEF List, list
    <2>5. [ls EXCEPT ![i] = list] \in Seq(List)
      BY <1>1, <2>1, <2>4, ExceptSeq, Zenon
    <2>6. Stored(ls, name, pfx) = [ls EXCEPT ![i] = list]
      BY <1>1, <1>3, <2>1 DEF Stored, i, more, list
    <2> QED
      BY <2>5, <2>6 DEF PrefixLists, List
  <1> QED
    BY <1>2, <1>3

\* The entries of the list that is used.
Held(ls) ==
    LET i == Lookup(ls, "onload")
    IN  IF i > Len(ls) THEN <<>> ELSE ls[i].entries

LEMMA HeldTypes ==
    ASSUME NEW ls \in PrefixLists
    PROVE  Held(ls) \in Seq(PrefixEntry)
  <1> DEFINE i == Lookup(ls, "onload")
             List == [name : ListName, entries : Seq(PrefixEntry)]
  <1>1. i \in 1..(Len(ls) + 1) /\ (i <= Len(ls) => i \in DOMAIN ls)
    BY LookupTypes
  <1>2. Held(ls) = IF i > Len(ls) THEN <<>> ELSE ls[i].entries
    BY DEF Held
  <1> HIDE DEF i
  <1>3. Len(ls) \in Nat /\ ls \in Seq(List)
    BY DEF PrefixLists
  <1>4. CASE i > Len(ls)
    BY <1>2, <1>4
  <1>5. CASE ~(i > Len(ls))
    <2>1. i \in 1..Len(ls)
      BY <1>1, <1>3, <1>5
    <2>2. ls[i] \in List
      <3> HIDE DEF List
      <3> QED
        BY <1>3, <2>1
    <2> QED
      BY <1>2, <1>5, <2>2
  <1> QED
    BY <1>4, <1>5

\* The names of the lists tell which one is found.
LEMMA LookupByName ==
    ASSUME NEW ls \in PrefixLists, NEW ks \in PrefixLists, NEW name,
           Len(ks) = Len(ls), \A i \in 1..Len(ls) : ks[i].name = ls[i].name
    PROVE  Lookup(ks, name) = Lookup(ls, name)
  <1> DEFINE Known(l) == {i \in DOMAIN l : l[i].name = name}
  <1>1. DOMAIN ls = 1..Len(ls) /\ DOMAIN ks = 1..Len(ks)
    BY DEF PrefixLists
  <1>2. Known(ks) = Known(ls)
    BY <1>1
  <1>3. /\ Lookup(ks, name) = IF Known(ks) = {} THEN Len(ks) + 1 ELSE Lowest(Known(ks))
        /\ Lookup(ls, name) = IF Known(ls) = {} THEN Len(ls) + 1 ELSE Lowest(Known(ls))
    BY DEF Lookup
  <1> HIDE DEF Known
  <1> QED
    BY <1>2, <1>3

\* onload_store_prefix: the list that is named gets one entry more, at its end.
LEMMA StoredHeld ==
    ASSUME NEW ls \in PrefixLists, NEW name \in ListName, NEW pfx \in PrefixEntry
    PROVE  Held(Stored(ls, name, pfx)) =
               IF name = "onload" THEN Append(Held(ls), pfx) ELSE Held(ls)
  <1> DEFINE i == Lookup(ls, name)
             h == Lookup(ls, "onload")
             ks == Stored(ls, name, pfx)
             List == [name : ListName, entries : Seq(PrefixEntry)]
  <1>1. Len(ls) \in Nat /\ DOMAIN ls = 1..Len(ls) /\ ls \in Seq(List)
    BY DEF PrefixLists
  <1>2. /\ i \in 1..(Len(ls) + 1) /\ h \in 1..(Len(ls) + 1)
        /\ ks \in PrefixLists
    BY LookupTypes, StoredTypes
  <1>3. CASE i > Len(ls)
    <2> DEFINE new == [name |-> name, entries |-> <<pfx>>]
    <2>1. new \in List
      OBVIOUS
    <2>2. ks = Append(ls, new)
      BY <1>3 DEF Stored
    <2> HIDE DEF new, List
    <2>3. /\ Len(ks) = Len(ls) + 1 /\ DOMAIN ks = 1..(Len(ls) + 1)
          /\ \A k \in 1..Len(ls) : ks[k] = ls[k]
          /\ ks[Len(ls) + 1] = new
      BY <1>1, <2>1, <2>2, AppendPoints
    <2> USE DEF new
    <2>4. \A k \in 1..Len(ls) : ls[k].name # name
      <3> DEFINE known == {k \in DOMAIN ls : ls[k].name = name}
      <3>1. known # {} => Lowest(known) \in known
        <4>1. known \in SUBSET Nat
          BY <1>1
        <4> HIDE DEF known
        <4> QED
          BY <4>1, LowestIsIn
      <3>2. i = IF known = {} THEN Len(ls) + 1 ELSE Lowest(known)
        BY DEF Lookup
      <3> HIDE DEF i
      <3>3. known = {}
        BY <1>1, <1>3, <3>1, <3>2
      <3> QED
        BY <1>1, <3>3
    <2> HIDE DEF ks, i, h
    <2> DEFINE known(l) == {k \in DOMAIN l : l[k].name = "onload"}
    <2>5. /\ Lookup(ks, "onload") = IF known(ks) = {} THEN Len(ks) + 1 ELSE Lowest(known(ks))
          /\ h = IF known(ls) = {} THEN Len(ls) + 1 ELSE Lowest(known(ls))
      BY DEF Lookup, h
    <2>6. CASE name = "onload"
      <3>1. known(ls) = {} /\ known(ks) = {Len(ls) + 1}
        <4>1. known(ls) = {}
          BY <1>1, <2>4, <2>6
        <4>2. \A k \in DOMAIN ks : ks[k].name = "onload" <=> k = Len(ls) + 1
          BY <1>1, <2>3, <2>4, <2>6
        <4>3. Len(ls) + 1 \in DOMAIN ks
          BY <1>1, <2>3
        <4> QED
          BY <4>1, <4>2, <4>3
      <3> HIDE DEF known
      <3>2. Lowest({Len(ls) + 1}) = Len(ls) + 1
        BY <1>1 DEF Lowest
      <3>3. Lookup(ks, "onload") = Len(ls) + 1 /\ h = Len(ls) + 1
        BY <2>5, <3>1, <3>2
      <3>4. Held(ks) = <<pfx>>
        BY <1>1, <2>3, <3>3 DEF Held
      <3>5. Held(ls) = <<>>
        BY <1>1, <3>3 DEF Held, h
      <3>6. Append(<<>>, pfx) = <<pfx>>
        OBVIOUS
      <3> QED
        BY <2>6, <3>4, <3>5, <3>6 DEF ks
    <2>7. CASE name # "onload"
      <3>1. known(ks) = known(ls)
        BY <1>1, <2>3, <2>7
      <3> HIDE DEF known
      <3>2. CASE known(ls) = {}
        <4>1. Lookup(ks, "onload") = Len(ls) + 2 /\ h = Len(ls) + 1
          BY <1>1, <2>3, <2>5, <3>1, <3>2
        <4>2. Held(ks) = <<>> /\ Held(ls) = <<>>
          BY <1>1, <2>3, <4>1 DEF Held, h
        <4> QED
          BY <2>7, <4>2 DEF ks
      <3>3. CASE known(ls) # {}
        <4>1. Lookup(ks, "onload") = h
          BY <2>5, <3>1, <3>3
        <4>2. h \in 1..Len(ls)
          <5>1. known(ls) \in SUBSET Nat /\ known(ls) \subseteq 1..Len(ls)
            BY <1>1 DEF known
          <5>2. Lowest(known(ls)) \in known(ls)
            BY <3>3, <5>1, LowestIsIn
          <5> QED
            BY <2>5, <3>3, <5>1, <5>2
        <4>3. Held(ks) = Held(ls)
          BY <1>1, <2>3, <4>1, <4>2 DEF Held, h
        <4> QED
          BY <2>7, <4>3 DEF ks
      <3> QED
        BY <3>2, <3>3
    <2> QED
      BY <2>6, <2>7
  <1>4. CASE ~(i > Len(ls))
    <2>1. i \in 1..Len(ls)
      BY <1>1, <1>2, <1>4
    <2>2. ks = [ls EXCEPT ![i].entries = Append(ls[i].entries, pfx)]
      BY <1>4 DEF Stored
    <2> HIDE DEF ks, i, h
    <2>3. /\ Len(ks) = Len(ls)
          /\ \A k \in 1..Len(ls) : k # i => ks[k] = ls[k]
          /\ ks[i] = [ls[i] EXCEPT !.entries = Append(ls[i].entries, pfx)]
      BY <1>1, <2>1, <2>2
    <2>4. ls[i] \in List
      <3> HIDE DEF List
      <3> QED
        BY <1>1, <2>1
    <2>5. ks[i].name = ls[i].name /\ ks[i].entries = Append(ls[i].entries, pfx)
      BY <2>3, <2>4
    <2>6. Lookup(ks, "onload") = h
      BY <1>2, <2>3, <2>5, LookupByName DEF h
    <2>7. ls[i].name = name
      <3> DEFINE known == {k \in DOMAIN ls : ls[k].name = name}
      <3>1. known # {} => Lowest(known) \in known
        <4>1. known \in SUBSET Nat
          BY <1>1
        <4> HIDE DEF known
        <4> QED
          BY <4>1, LowestIsIn
      <3>2. i = IF known = {} THEN Len(ls) + 1 ELSE Lowest(known)
        BY DEF Lookup, i
      <3>3. known # {}
        BY <1>1, <2>1, <3>2
      <3> QED
        BY <3>1, <3>2, <3>3
    <2>8. CASE name = "onload"
      <3>1. h = i
        BY <2>8 DEF h, i
      <3>2. Held(ks) = ks[i].entries
        <4>1. Lookup(ks, "onload") = i /\ ~(i > Len(ks))
          <5>1. Len(ls) \in Nat /\ Len(ks) = Len(ls)
            BY <1>1, <2>3
          <5>2. ~(i > Len(ls))
            BY <2>1, <5>1
          <5> QED
            BY <2>6, <3>1, <5>1, <5>2
        <4> QED
          BY <4>1 DEF Held
      <3>3. Held(ls) = ls[i].entries
        BY <1>1, <2>1, <3>1 DEF Held, h
      <3> QED
        BY <2>5, <2>8, <3>2, <3>3 DEF ks
    <2>9. CASE name # "onload"
      <3>1. CASE h > Len(ls)
        BY <2>3, <2>6, <2>9, <3>1 DEF Held, h, ks
      <3>2. CASE ~(h > Len(ls))
        <4>1. h \in 1..Len(ls)
          BY <1>1, <1>2, <3>2
        <4>2. ls[h].name = "onload"
          <5> DEFINE known == {k \in DOMAIN ls : ls[k].name = "onload"}
          <5>1. known # {} => Lowest(known) \in known
            <6>1. known \in SUBSET Nat
              BY <1>1
            <6> HIDE DEF known
            <6> QED
              BY <6>1, LowestIsIn
          <5>2. h = IF known = {} THEN Len(ls) + 1 ELSE Lowest(known)
            BY DEF Lookup, h
          <5>3. known # {}
            BY <1>1, <4>1, <5>2
          <5> QED
            BY <5>1, <5>2, <5>3
        <4>3. h # i
          BY <2>7, <2>9, <4>2
        <4> QED
          BY <2>3, <2>6, <2>9, <4>1, <4>3 DEF Held, h, ks
      <3> QED
        BY <3>1, <3>2
    <2> QED
      BY <2>8, <2>9
  <1> QED
    BY <1>3, <1>4

-----------------------------------------------------------------------------
(* The lists hold what was given. *)

Gift == [list : ListName, text : Prefix]

Asks(g) == {i \in DOMAIN g : g[i].list = "onload"}

\* One after the other, in order, and none left out.
Follows(h, e, g) ==
    /\ h \in [1..Len(e) -> Asks(g)]
    /\ \A j \in 1..Len(e) : e[j] = Parsed(g[h[j]].text)
    /\ \A j, k \in 1..Len(e) : j < k => h[j] < h[k]
    /\ \A i \in Asks(g) : \E j \in 1..Len(e) : h[j] = i

Matches(ls, g) == \E h : Follows(h, Held(ls), g)

\* onload_store_prefix keeps the order.
LEMMA StoredMatches ==
    ASSUME NEW ls \in PrefixLists, NEW g \in Seq(Gift), Matches(ls, g),
           NEW name \in ListName, NEW t \in Prefix,
           NEW q \in Seq(Gift), Len(q) = Len(g) + 1, \A i \in 1..Len(g) : q[i] = g[i],
           q[Len(g) + 1] = [list |-> name, text |-> t]
    PROVE  Matches(Stored(ls, name, Parsed(t)), q)
  <1> DEFINE pfx == Parsed(t)
             e == Held(ls)
             f == Held(Stored(ls, name, pfx))
             n == Len(g) + 1
  <1>1. pfx \in PrefixEntry
    BY DEF PrefixEntry
  <1>2. f = IF name = "onload" THEN Append(e, pfx) ELSE e
    BY <1>1, StoredHeld
  <1>3. e \in Seq(PrefixEntry)
    BY HeldTypes
  <1>4. PICK h : Follows(h, e, g)
    BY DEF Matches
  <1>5. /\ Len(g) \in Nat /\ DOMAIN g = 1..Len(g) /\ DOMAIN q = 1..n
        /\ n = Len(g) + 1
    <2> HIDE DEF Gift
    <2> QED
      OBVIOUS
  <1>6. Len(e) \in Nat
    BY <1>3
  <1>7. q[n].list = name /\ q[n].text = t
    OBVIOUS
  <1> HIDE DEF e, f, n
  <1>8. Asks(q) = IF name = "onload" THEN Asks(g) \union {n} ELSE Asks(g)
    <2>1. \A i \in 1..Len(g) : i \in Asks(q) <=> i \in Asks(g)
      BY <1>5 DEF Asks
    <2>2. n \in Asks(q) <=> name = "onload"
      BY <1>5, <1>7 DEF Asks
    <2>3. Asks(g) \subseteq 1..Len(g) /\ Asks(q) \subseteq 1..n
      BY <1>5 DEF Asks
    <2>4. \A i \in 1..n : i \in 1..Len(g) \/ i = n
      BY <1>5
    <2>5. CASE name = "onload"
      <3>1. \A i : i \in Asks(q) <=> i \in Asks(g) \/ i = n
        BY <2>1, <2>2, <2>3, <2>4, <2>5
      <3> QED
        BY <2>5, <3>1
    <2>6. CASE name # "onload"
      <3>1. \A i : i \in Asks(q) => i \in 1..Len(g)
        BY <2>2, <2>3, <2>4, <2>6
      <3>2. \A i : i \in Asks(q) <=> i \in Asks(g)
        BY <2>1, <2>3, <3>1
      <3> QED
        BY <2>6, <3>2
    <2> QED
      BY <2>5, <2>6
  <1>9. CASE name # "onload"
    <2>1. \A i \in Asks(g) : q[i] = g[i]
      BY <1>5 DEF Asks
    <2>2. Follows(h, f, q)
      BY <1>2, <1>4, <1>8, <1>9, <2>1 DEF Follows
    <2> QED
      BY <2>2 DEF Matches, f
  <1>10. CASE name = "onload"
    <2>1. /\ Len(f) = Len(e) + 1
          /\ \A j \in 1..Len(e) : f[j] = e[j]
          /\ f[Len(e) + 1] = pfx
      BY <1>1, <1>2, <1>3, <1>10, AppendPoints
    <2> DEFINE k == [j \in 1..Len(f) |-> IF j = Len(f) THEN n ELSE h[j]]
    <2>2. \A j \in 1..Len(f) : j = Len(f) \/ j \in 1..Len(e)
      BY <1>6, <2>1
    <2>3. \A j \in 1..Len(e) : j \in 1..Len(f) /\ j # Len(f) /\ k[j] = h[j]
      BY <1>6, <2>1
    <2>4. Len(f) \in 1..Len(f) /\ k[Len(f)] = n
      BY <1>6, <2>1
    <2> HIDE DEF k
    <2>5. \A j \in 1..Len(e) : h[j] \in Asks(g) /\ h[j] \in 1..Len(g)
      BY <1>4, <1>5 DEF Follows, Asks
    <2>6. k \in [1..Len(f) -> Asks(q)]
      <3>1. \A j \in 1..Len(f) : k[j] \in Asks(q)
        BY <1>8, <1>10, <2>2, <2>3, <2>4, <2>5
      <3> QED
        BY <3>1 DEF k
    <2>7. \A j \in 1..Len(f) : f[j] = Parsed(q[k[j]].text)
      <3>1. SUFFICES ASSUME NEW j \in 1..Len(f) PROVE f[j] = Parsed(q[k[j]].text)
        OBVIOUS
      <3>2. CASE j = Len(f)
        BY <1>7, <2>1, <2>4, <3>2
      <3>3. CASE j \in 1..Len(e)
        <4>1. e[j] = Parsed(g[h[j]].text)
          BY <1>4, <3>3 DEF Follows
        <4> QED
          BY <2>1, <2>3, <2>5, <3>3, <4>1
      <3> QED
        BY <2>2, <3>2, <3>3
    <2>8. \A i, j \in 1..Len(f) : i < j => k[i] < k[j]
      <3>1. SUFFICES ASSUME NEW i \in 1..Len(f), NEW j \in 1..Len(f), i < j
                     PROVE  k[i] < k[j]
        OBVIOUS
      <3>2. i \in 1..Len(e)
        BY <1>6, <2>1, <3>1
      <3>3. CASE j = Len(f)
        BY <1>5, <2>3, <2>4, <2>5, <3>2, <3>3
      <3>4. CASE j \in 1..Len(e)
        BY <1>4, <2>3, <3>1, <3>2, <3>4 DEF Follows
      <3> QED
        BY <2>2, <3>3, <3>4
    <2>9. \A i \in Asks(q) : \E j \in 1..Len(f) : k[j] = i
      <3>1. SUFFICES ASSUME NEW i \in Asks(q) PROVE \E j \in 1..Len(f) : k[j] = i
        OBVIOUS
      <3>2. CASE i = n
        BY <2>4, <3>2
      <3>3. CASE i \in Asks(g)
        <4>1. PICK j \in 1..Len(e) : h[j] = i
          BY <1>4, <3>3 DEF Follows
        <4> QED
          BY <2>3, <4>1
      <3> QED
        BY <1>8, <1>10, <3>2, <3>3
    <2>10. Follows(k, f, q)
      BY <2>6, <2>7, <2>8, <2>9 DEF Follows
    <2> QED
      BY <2>10 DEF Matches, f
  <1> QED
    BY <1>9, <1>10

\* What has been given when n of the texts have been stored.
Gave(g, name, texts, n) == g \o [i \in 1..n |-> [list |-> name, text |-> texts[i]]]

LEMMA GavePoints ==
    ASSUME NEW g \in Seq(Gift), NEW name \in ListName, NEW texts \in Seq(Prefix),
           NEW n \in 0..Len(texts)
    PROVE  /\ Gave(g, name, texts, n) \in Seq(Gift)
           /\ Len(Gave(g, name, texts, n)) = Len(g) + n
           /\ \A i \in 1..Len(g) : Gave(g, name, texts, n)[i] = g[i]
           /\ \A i \in 1..n : Gave(g, name, texts, n)[Len(g) + i]
                                  = [list |-> name, text |-> texts[i]]
  <1> DEFINE more == [i \in 1..n |-> [list |-> name, text |-> texts[i]]]
  <1>1. n \in Nat /\ \A i \in 1..n : texts[i] \in Prefix
    <2> HIDE DEF Prefix
    <2> QED
      OBVIOUS
  <1>2. \A i \in 1..n : more[i] \in Gift
    BY <1>1 DEF Gift
  <1>3. more \in Seq(Gift) /\ Len(more) = n
    <2> HIDE DEF Gift
    <2> QED
      BY <1>1, <1>2
  <1>4. \A i \in 1..n : more[i] = [list |-> name, text |-> texts[i]]
    OBVIOUS
  <1> HIDE DEF more
  <1>5. Gave(g, name, texts, n) = g \o more
    BY DEF Gave, more
  <1>6. /\ g \o more \in Seq(Gift) /\ Len(g \o more) = Len(g) + n
        /\ \A i \in 1..Len(g) : (g \o more)[i] = g[i]
        /\ \A i \in 1..n : (g \o more)[Len(g) + i] = more[i]
    <2> DEFINE S == Gift
               all == g \o more
    <2>1. g \in Seq(S) /\ more \in Seq(S)
      BY <1>3
    <2> HIDE DEF S
    <2>2. /\ all \in Seq(S) /\ Len(all) = Len(g) + Len(more)
          /\ \A i \in 1..Len(g) : all[i] = g[i]
          /\ \A i \in 1..Len(more) : all[Len(g) + i] = more[i]
      BY <2>1, ConcatPoints
    <2> QED
      BY <1>3, <2>2 DEF S
  <1> QED
    BY <1>4, <1>5, <1>6

\* onload_fread_prefix, line by line.
LEMMA StoredAllMatches ==
    ASSUME NEW ls \in PrefixLists, NEW name \in ListName, NEW texts \in Seq(Prefix),
           NEW g \in Seq(Gift), Matches(ls, g)
    PROVE  /\ StoredAll(ls, name, texts) \in PrefixLists
           /\ Matches(StoredAll(ls, name, texts), Gave(g, name, texts, Len(texts)))
  <1> DEFINE m == Len(texts)
             Body(f) == [n \in 0..m |->
                            IF n = 0 THEN ls ELSE Stored(f[n - 1], name, Parsed(texts[n]))]
             stored == CHOOSE f : f = Body(f)
             F == [p \in (1..m) \X PrefixLists |-> Stored(p[2], name, Parsed(texts[p[1]]))]
  <1>1. StoredAll(ls, name, texts) = stored[m]
    BY DEF StoredAll
  <1>2. m \in Nat
    OBVIOUS
  <1>3. ASSUME NEW n \in 1..m
        PROVE  texts[n] \in Prefix /\ Parsed(texts[n]) \in PrefixEntry
    <2>1. texts[n] \in Prefix
      <3> HIDE DEF Prefix
      <3> QED
        OBVIOUS
    <2> QED
      BY <2>1 DEF PrefixEntry
  <1>4. \A n \in 1..m, l \in PrefixLists : F[<<n, l>>] = Stored(l, name, Parsed(texts[n]))
    OBVIOUS
  <1> HIDE DEF F
  <1>5. Steps(F, PrefixLists, m)
    BY <1>3, <1>4, StoredTypes DEF Steps
  <1>6. PICK w : Walk(w, F, PrefixLists, ls, m)
    <2> HIDE DEF m
    <2> QED
      BY <1>2, <1>5, Iteration
  <1>7. ASSUME NEW n \in 0..m
        PROVE  w[n] = IF n = 0 THEN ls ELSE Stored(w[n - 1], name, Parsed(texts[n]))
    <2>1. CASE n = 0
      BY <1>6, <2>1 DEF Walk
    <2>2. CASE n # 0
      <3>1. n \in 1..m /\ n - 1 \in 0..m
        BY <1>2, <2>2
      <3>2. w[n - 1] \in PrefixLists /\ w[n] = F[<<n, w[n - 1]>>]
        BY <1>6, <3>1 DEF Walk
      <3> QED
        BY <1>4, <2>2, <3>1, <3>2
    <2> QED
      BY <2>1, <2>2
  <1>8. w = Body(w)
    <2>1. w = [n \in 0..m |-> w[n]]
      BY <1>6 DEF Walk
    <2> QED
      BY <1>7, <2>1
  <1>9. stored = Body(stored)
    <2> HIDE DEF Body
    <2> QED
      BY <1>8
  <1> HIDE DEF stored
  <1>10. ASSUME NEW n \in 0..m
         PROVE  stored[n] = IF n = 0 THEN ls ELSE Stored(stored[n - 1], name, Parsed(texts[n]))
    BY <1>9, Zenon
  <1> HIDE DEF Body
  <1> DEFINE In == {n \in Nat : n <= m => /\ stored[n] \in PrefixLists
                                          /\ Matches(stored[n], Gave(g, name, texts, n))}
  <1>11. 0 \in In
    <2>1. 0 \in 0..m
      BY <1>2
    <2>2. stored[0] = ls
      BY <1>10, <2>1
    <2> DEFINE q == Gave(g, name, texts, 0)
    <2>3. q \in Seq(Gift) /\ Len(q) = Len(g) /\ \A i \in 1..Len(g) : q[i] = g[i]
      BY <2>1, GavePoints
    <2> HIDE DEF q
    <2>4. DOMAIN q = 1..Len(g) /\ DOMAIN g = 1..Len(g)
      <3> HIDE DEF Gift
      <3> QED
        BY <2>3
    <2>5. Asks(q) = Asks(g) /\ Asks(g) \subseteq 1..Len(g)
      BY <2>3, <2>4 DEF Asks
    <2>6. PICK h : Follows(h, Held(ls), g)
      BY DEF Matches
    <2>7. Follows(h, Held(ls), q)
      BY <2>3, <2>5, <2>6 DEF Follows
    <2>8. Matches(ls, q)
      BY <2>7 DEF Matches
    <2> QED
      BY <2>2, <2>8 DEF q
  <1>12. ASSUME NEW n \in Nat, n \in In PROVE n + 1 \in In
    <2>1. SUFFICES ASSUME n + 1 <= m
                   PROVE  /\ stored[n + 1] \in PrefixLists
                          /\ Matches(stored[n + 1], Gave(g, name, texts, n + 1))
      OBVIOUS
    <2>2. /\ n + 1 \in 0..m /\ n + 1 \in 1..m /\ n + 1 # 0 /\ (n + 1) - 1 = n
          /\ n <= m /\ n \in 0..m
      BY <1>2, <2>1
    <2>3. stored[n] \in PrefixLists /\ Matches(stored[n], Gave(g, name, texts, n))
      BY <1>12, <2>2
    <2>4. stored[n + 1] = Stored(stored[n], name, Parsed(texts[n + 1]))
      BY <1>10, <2>2
    <2>5. texts[n + 1] \in Prefix /\ Parsed(texts[n + 1]) \in PrefixEntry
      BY <1>3, <2>2
    <2> DEFINE p == Gave(g, name, texts, n)
               q == Gave(g, name, texts, n + 1)
    <2>6. /\ p \in Seq(Gift) /\ Len(p) = Len(g) + n
          /\ \A i \in 1..Len(g) : p[i] = g[i]
          /\ \A i \in 1..n : p[Len(g) + i] = [list |-> name, text |-> texts[i]]
      BY <2>2, GavePoints
    <2>7. /\ q \in Seq(Gift) /\ Len(q) = Len(g) + (n + 1)
          /\ \A i \in 1..Len(g) : q[i] = g[i]
          /\ \A i \in 1..(n + 1) : q[Len(g) + i] = [list |-> name, text |-> texts[i]]
      <3> DEFINE k == n + 1
      <3>1. k \in 0..Len(texts) /\ q = Gave(g, name, texts, k)
        BY <2>2
      <3> HIDE DEF k, q
      <3>2. /\ q \in Seq(Gift) /\ Len(q) = Len(g) + k
            /\ \A i \in 1..Len(g) : q[i] = g[i]
            /\ \A i \in 1..k : q[Len(g) + i] = [list |-> name, text |-> texts[i]]
        BY <3>1, GavePoints
      <3> QED
        BY <3>2 DEF k
    <2> HIDE DEF p, q
    <2>8. Len(g) \in Nat
      <3> HIDE DEF Gift
      <3> QED
        OBVIOUS
    <2>9. Len(q) = Len(p) + 1
      BY <2>6, <2>7, <2>8
    <2>10. q[Len(p) + 1] = [list |-> name, text |-> texts[n + 1]]
      <3>1. Len(p) + 1 = Len(g) + (n + 1) /\ n + 1 \in 1..(n + 1)
        BY <2>6, <2>8
      <3> QED
        BY <2>7, <3>1
    <2>11. ASSUME NEW i \in 1..Len(p) PROVE q[i] = p[i]
      <3>1. CASE i <= Len(g)
        <4>1. i \in 1..Len(g)
          BY <2>6, <2>8, <3>1
        <4> QED
          BY <2>6, <2>7, <4>1
      <3>2. CASE ~(i <= Len(g))
        <4>1. i - Len(g) \in 1..n /\ i - Len(g) \in 1..(n + 1) /\ Len(g) + (i - Len(g)) = i
          BY <2>6, <2>8, <3>2
        <4> QED
          BY <2>6, <2>7, <4>1
      <3> QED
        BY <3>1, <3>2
    <2>12. Matches(stored[n], p)
      BY <2>3 DEF p
    <2>13. Matches(Stored(stored[n], name, Parsed(texts[n + 1])), q)
      <3> HIDE DEF m
      <3> QED
        BY <2>3, <2>5, <2>6, <2>7, <2>9, <2>10, <2>11, <2>12, StoredMatches
    <2>14. stored[n + 1] \in PrefixLists
      BY <2>3, <2>4, <2>5, StoredTypes
    <2> QED
      BY <2>4, <2>13, <2>14 DEF q
  <1>13. m \in In
    <2> HIDE DEF In, m
    <2> QED
      BY <1>2, <1>11, <1>12, SetInduction
  <1> QED
    BY <1>1, <1>2, <1>13

-----------------------------------------------------------------------------
(* Places. *)

\* obj_rule_find_available_prio returns nothing below the base.
LEMMA PrioIsAbove ==
    ASSUME NEW used \in SUBSET Nat, NEW base \in Nat
    PROVE  LET p == PrioSlot(used, base, Width) IN
           /\ p \in Nat /\ p >= base
           /\ p = base \/ p - 1 \in used
  <1> DEFINE gaps == GapsAbove(used, base, Width)
             p == PrioSlot(used, base, Width)
  <1>1. p = base \/ (gaps # {} /\ p = Lowest(gaps))
    BY DEF PrioSlot, AfterRun
  <1>2. \A g \in gaps : g \in Nat /\ g >= base /\ g - 1 \in used
    BY DEF GapsAbove
  <1> HIDE DEF gaps, p
  <1>3. CASE gaps # {} /\ p = Lowest(gaps)
    <2>1. gaps \in SUBSET Nat
      BY <1>2
    <2>2. p \in gaps
      BY <1>3, <2>1, LowestIsIn
    <2> QED
      BY <1>2, <2>2 DEF p
  <1> QED
    BY <1>1, <1>3 DEF p
-----------------------------------------------------------------------------
(* What is wanted. *)

LEMMA TypesOfWants ==
    /\ \A af \in AF : AfGoto(af).type = "ROUTE_GOTO" /\ TtlCheck(af).type = "TTL_CHECK"
    /\ \A pfx : OnloadTrap(pfx).type = "ROUTE_TRAP"
  BY DEF AfGoto, TtlCheck, OnloadTrap, tc_rule_set_type_and_traits, tc_rule_set_type,
         tc_rule_init, Zeroed

\* Used priorities are numbers.
LEMMA UsedNumbers ==
    ASSUME NEW w, NEW chain, DOMAIN w \union DOMAIN have \subseteq Nat \X Nat
    PROVE  UsedPrios(w, chain) \in SUBSET Nat
  BY DEF UsedPrios

\* What is in the chains of the families before there are routes.
OnlyTraps(w) ==
    \A p \in DOMAIN w : p[1] \in {1, 2} /\ p[2] # 1 => w[p].type = "ROUTE_TRAP"

Sorted(w) == /\ DOMAIN w \subseteq Nat \X Nat
             /\ Checked(w) /\ Contiguous(w) /\ OnlyTraps(w)
             /\ \A p \in DOMAIN w : w[p].type = "ROUTE_GOTO" => p[1] = 0

\* sched_basic_place_prefix_list, one entry: the trap follows those before it.
LEMMA EntrySorted ==
    ASSUME have = Nothing, NEW w, Sorted(w), NEW pfx
    PROVE  Sorted(PlacedEntry(w, pfx))
  <1> DEFINE c == get_af_chain(pfx.af)
             k == AvailablePrio(w, pfx.af, TrapBase)
             v == PlacedEntry(w, pfx)
  <1>1. c \in {1, 2}
    BY DEF get_af_chain
  <1>2. /\ k \in Nat /\ k >= TrapBase
        /\ k = TrapBase \/ k - 1 \in UsedPrios(w, c)
    <2>1. UsedPrios(w, c) \in SUBSET Nat
      BY UsedNumbers DEF Sorted, Nothing
    <2> QED
      BY <2>1, PrioIsAbove, BasesAssumption DEF AvailablePrio
  <1>3. /\ DOMAIN v = DOMAIN w \union {<<c, k>>}
        /\ \A p \in DOMAIN w : v[p] = w[p]
        /\ <<c, k>> \notin DOMAIN w => v[<<c, k>>].type = "ROUTE_TRAP"
    <2>1. v = Placed(w, <<c, k>>, OnloadTrap(pfx)) /\ OnloadTrap(pfx).type = "ROUTE_TRAP"
      BY TypesOfWants DEF PlacedEntry
    <2> HIDE DEF c, k, v
    <2>2. /\ DOMAIN v = DOMAIN w \union {<<c, k>>}
          /\ \A p \in DOMAIN w : v[p] = w[p]
          /\ <<c, k>> \notin DOMAIN w => v[<<c, k>>] = OnloadTrap(pfx)
      BY <2>1 DEF Placed
    <2> QED
      BY <2>1, <2>2
  <1>4. ASSUME k - 1 \in UsedPrios(w, c) PROVE <<c, k - 1>> \in DOMAIN w
    <2> HIDE DEF c, k
    <2>1. PICK p \in DOMAIN w \union DOMAIN have : p[1] = c /\ p[2] = k - 1
      BY <1>4 DEF UsedPrios
    <2>2. DOMAIN have = {}
      BY DEF Nothing
    <2>3. p \in DOMAIN w /\ p \in Nat \X Nat
      BY <2>1, <2>2 DEF Sorted
    <2>4. p = <<p[1], p[2]>>
      BY <2>3
    <2> QED
      BY <2>1, <2>3, <2>4
  <1> HIDE DEF c, k, v
  <1>5. CASE <<c, k>> \in DOMAIN w
    <2>1. DOMAIN v = DOMAIN w /\ \A p \in DOMAIN v : v[p] = w[p]
      BY <1>3, <1>5
    <2>2. Traps(v) = Traps(w)
      BY <2>1 DEF Traps
    <2> QED
      BY <2>1, <2>2 DEF Sorted, Checked, Contiguous, OnlyTraps, v
  <1>6. CASE <<c, k>> \notin DOMAIN w
    <2>1. DOMAIN v \subseteq Nat \X Nat
      BY <1>1, <1>2, <1>3 DEF Sorted
    <2>2. Checked(v)
      BY <1>3 DEF Sorted, Checked
    <2>3. Traps(v) = Traps(w) \union {<<c, k>>}
      BY <1>3, <1>6 DEF Traps
    <2>4. \A i \in TrapBase..k : <<c, i>> \in Traps(v)
      <3>1. CASE k = TrapBase
        <4>1. \A i \in TrapBase..k : i = k
          BY <3>1, BasesAssumption
        <4> QED
          BY <2>3, <4>1
      <3>2. CASE k # TrapBase
        <4>1. <<c, k - 1>> \in DOMAIN w /\ k - 1 \in Nat /\ k - 1 >= TrapBase /\ k - 1 # 1
          BY <1>2, <1>4, <3>2, BasesAssumption
        <4>2. <<c, k - 1>>[1] = c /\ <<c, k - 1>>[2] = k - 1
          OBVIOUS
        <4>3. <<c, k - 1>> \in Traps(w)
          BY <1>1, <4>1, <4>2 DEF Sorted, OnlyTraps, Traps
        <4>4. \A i \in TrapBase..(k - 1) : <<c, i>> \in Traps(w)
          BY <4>2, <4>3 DEF Sorted, Contiguous
        <4>5. \A i \in TrapBase..k : i = k \/ i \in TrapBase..(k - 1)
          BY <1>2, BasesAssumption
        <4> QED
          BY <2>3, <4>4, <4>5
      <3> QED
        BY <3>1, <3>2
    <2>5. Contiguous(v)
      <3>1. SUFFICES ASSUME NEW t \in Traps(v)
                     PROVE  /\ t[1] \in {1, 2} /\ t[2] >= TrapBase
                            /\ \A i \in TrapBase..t[2] : <<t[1], i>> \in Traps(v)
        BY DEF Contiguous
      <3>2. CASE t \in Traps(w)
        BY <2>3, <3>2 DEF Sorted, Contiguous
      <3>3. CASE t = <<c, k>>
        BY <1>1, <1>2, <2>4, <3>3
      <3> QED
        BY <2>3, <3>1, <3>2, <3>3
    <2>6. OnlyTraps(v)
      BY <1>3, <1>6 DEF Sorted, OnlyTraps
    <2>7. \A p \in DOMAIN v : v[p].type = "ROUTE_GOTO" => p[1] = 0
      BY <1>3, <1>6 DEF Sorted
    <2> QED
      BY <2>1, <2>2, <2>5, <2>6, <2>7 DEF Sorted, v
  <1> QED
    BY <1>5, <1>6
-----------------------------------------------------------------------------
(* Every entry has the priority that is due to it. *)

Earlier(e, n, af) == {k \in 1..n : e[k].af = af}

Rank(e, n, af) == Cardinality(Earlier(e, n, af))

EntryDue(e, j) == <<get_af_chain(e[j].af), TrapBase + Rank(e, j - 1, e[j].af)>>

\* There are priorities enough.
Fit(e) == \A j \in 1..Len(e) : TrapBase + Rank(e, j - 1, e[j].af) < Width

Prios(w, c) == {p[2] : p \in {q \in Traps(w) : q[1] = c}}

\* The first n entries have their traps, and nothing else has one.
Ranked(w, e, n) ==
    /\ Traps(w) = {EntryDue(e, j) : j \in 1..n}
    /\ \A j \in 1..n : w[EntryDue(e, j)].af_addr = e[j]
    /\ \A af \in AF : Prios(w, get_af_chain(af)) = TrapBase..(TrapBase + Rank(e, n, af) - 1)

LEMMA RankGrows ==
    ASSUME NEW e, NEW n \in Nat \ {0}, NEW af
    PROVE  /\ Rank(e, n - 1, af) \in Nat
           /\ Rank(e, n, af) = IF e[n].af = af THEN Rank(e, n - 1, af) + 1
                                               ELSE Rank(e, n - 1, af)
  <1> DEFINE S == Earlier(e, n - 1, af)
  <1>1. IsFiniteSet(S)
    <2>1. IsFiniteSet(1..(n - 1))
      BY FS_Interval
    <2>2. S \in SUBSET (1..(n - 1))
      BY DEF Earlier
    <2> HIDE DEF S
    <2> QED
      BY <2>1, <2>2, FS_Subset
  <1>2. n \notin S
    BY DEF Earlier
  <1>3. Earlier(e, n, af) = IF e[n].af = af THEN S \union {n} ELSE S
    <2>1. \A k : k \in 1..n <=> k \in 1..(n - 1) \/ k = n
      OBVIOUS
    <2>2. CASE e[n].af = af
      <3>1. \A k : k \in Earlier(e, n, af) <=> k \in S \/ k = n
        BY <2>1, <2>2 DEF Earlier
      <3> HIDE DEF S
      <3> QED
        BY <2>2, <3>1
    <2>3. CASE e[n].af # af
      <3>1. \A k : k \in Earlier(e, n, af) <=> k \in S
        BY <2>1, <2>3 DEF Earlier
      <3> HIDE DEF S
      <3> QED
        BY <2>3, <3>1
    <2> QED
      BY <2>2, <2>3
  <1> HIDE DEF S
  <1>4. Cardinality(S) \in Nat
    BY <1>1, FS_CardinalityType
  <1>5. Cardinality(S \union {n}) = Cardinality(S) + 1
    BY <1>1, <1>2, FS_AddElement
  <1> QED
    BY <1>3, <1>4, <1>5 DEF Rank, S

\* obj_rule_find_available_prio behind a TTL check and a row of traps.
LEMMA NextPrio ==
    ASSUME NEW used, NEW k \in Nat, TrapBase <= k, k < Width,
           used = {1} \union TrapBase..(k - 1)
    PROVE  PrioSlot(used, TrapBase, Width) = k
  <1> DEFINE gaps == GapsAbove(used, TrapBase, Width)
  <1>1. TrapBase \in Nat /\ 1 < TrapBase /\ Width \in Nat
    BY BasesAssumption
  <1>2. PrioSlot(used, TrapBase, Width) = IF gaps = {} THEN TrapBase ELSE Lowest(gaps)
    <2>1. 1 \in used /\ ~(1 > TrapBase)
      BY <1>1
    <2> HIDE DEF gaps
    <2> QED
      BY <2>1 DEF PrioSlot, AfterRun, gaps
  <1>3. \A g : g \in gaps <=> (\E q \in used : g = q + 1 /\ q + 1 >= TrapBase /\ q + 1 < Width)
                              /\ g \notin used
    BY DEF GapsAbove
  <1> HIDE DEF gaps
  <1>4. \A q : q \in used <=> q = 1 \/ q \in TrapBase..(k - 1)
    OBVIOUS
  <1>5. \A g \in gaps : g = k
    <2>1. SUFFICES ASSUME NEW g \in gaps PROVE g = k
      OBVIOUS
    <2>2. PICK q \in used : g = q + 1 /\ q + 1 >= TrapBase /\ q + 1 < Width
      BY <1>3
    <2>3. g \notin used
      BY <1>3
    <2>4. CASE q = 1
      <3>1. g = TrapBase
        BY <1>1, <2>2, <2>4
      <3>2. ~(TrapBase \in TrapBase..(k - 1))
        BY <1>4, <2>3, <3>1
      <3> QED
        BY <1>1, <3>1, <3>2
    <2>5. CASE q \in TrapBase..(k - 1)
      <3>1. ~(q + 1 \in TrapBase..(k - 1)) /\ q \in Int /\ q <= k - 1 /\ q >= TrapBase
        BY <1>1, <1>4, <2>2, <2>3, <2>5
      <3> QED
        BY <1>1, <2>2, <3>1
    <2> QED
      BY <1>4, <2>2, <2>4, <2>5
  <1>6. CASE gaps = {}
    <2>1. k = TrapBase
      <3>1. SUFFICES ASSUME k # TrapBase PROVE FALSE
        OBVIOUS
      <3>2. k - 1 \in used /\ (k - 1) + 1 = k /\ k \notin used /\ k >= TrapBase
        BY <1>1, <1>4, <3>1
      <3>3. k \in gaps
        BY <1>3, <3>2
      <3> QED
        BY <1>6, <3>3
    <2> QED
      BY <1>2, <1>6, <2>1
  <1>7. CASE gaps # {}
    <2>1. gaps = {k}
      BY <1>5, <1>7
    <2>2. Lowest({k}) = k
      BY DEF Lowest
    <2> QED
      BY <1>2, <1>7, <2>1, <2>2
  <1> QED
    BY <1>6, <1>7

\* sched_basic_place_prefix_list, one entry.
LEMMA EntryRanked ==
    ASSUME have = Nothing, NEW e \in Seq(PrefixEntry), NEW n \in 1..Len(e),
           NEW w, Sorted(w), Ranked(w, e, n - 1),
           TrapBase + Rank(e, n - 1, e[n].af) < Width
    PROVE  Ranked(PlacedEntry(w, e[n]), e, n)
  <1> DEFINE af == e[n].af
             c == get_af_chain(af)
             k == TrapBase + Rank(e, n - 1, af)
             v == PlacedEntry(w, e[n])
  <1>1. /\ n \in Nat \ {0} /\ \A i : i \in 1..n <=> i \in 1..(n - 1) \/ i = n
        /\ n \notin 1..(n - 1)
    OBVIOUS
  <1>2. af \in AF
    <2>1. e[n] \in PrefixEntry
      OBVIOUS
    <2> QED
      BY <2>1 DEF PrefixEntry, Prefix, TextRecord, Parsed
  <1>3. TrapBase \in Nat /\ 1 < TrapBase
    BY BasesAssumption
  <1>4. /\ Rank(e, n - 1, af) \in Nat
        /\ Rank(e, n, af) = Rank(e, n - 1, af) + 1
    BY <1>1, RankGrows
  <1>5. \A other \in AF : other # af => Rank(e, n, other) = Rank(e, n - 1, other)
    BY <1>1, RankGrows
  <1>6. k \in Nat /\ TrapBase <= k /\ k < Width
    BY <1>3, <1>4
  <1>7. c \in {1, 2}
    BY DEF get_af_chain
  <1>8. Prios(w, c) = TrapBase..(k - 1)
    <2>1. \A a \in AF : Prios(w, get_af_chain(a)) = TrapBase..(TrapBase + Rank(e, n - 1, a) - 1)
      BY DEF Ranked
    <2> HIDE DEF af
    <2>2. Prios(w, c) = TrapBase..(TrapBase + Rank(e, n - 1, af) - 1)
      BY <1>2, <2>1, Zenon
    <2>3. TrapBase + Rank(e, n - 1, af) - 1 = k - 1
      BY <1>3, <1>4
    <2> QED
      BY <2>2, <2>3, Zenon
  <1>9. UsedPrios(w, c) = {1} \union TrapBase..(k - 1)
    <2> HIDE DEF c, k, af, v
    <2>1. \A p \in DOMAIN w : p = <<p[1], p[2]>>
      BY DEF Sorted
    <2>2. \A x : x \in UsedPrios(w, c) <=> \E p \in DOMAIN w : p[1] = c /\ p[2] = x
      <3>1. DOMAIN have = {}
        BY DEF Nothing
      <3> QED
        BY <3>1 DEF UsedPrios
    <2>3. <<c, 1>> \in DOMAIN w /\ <<c, 1>>[1] = c /\ <<c, 1>>[2] = 1
      BY <1>7 DEF Sorted, Checked
    <2>4. \A x : x \in Prios(w, c) <=> \E p \in Traps(w) : p[1] = c /\ p[2] = x
      BY DEF Prios
    <2>5. \A p \in DOMAIN w : p[1] = c => p[2] = 1 \/ p \in Traps(w)
      BY <1>7 DEF Sorted, OnlyTraps, Traps
    <2>6. Traps(w) \subseteq DOMAIN w
      BY DEF Traps
    <2>7. \A x : x \in UsedPrios(w, c) <=> x = 1 \/ x \in Prios(w, c)
      BY <2>2, <2>3, <2>4, <2>5, <2>6
    <2> QED
      BY <1>8, <2>7
  <1>10. AvailablePrio(w, af, TrapBase) = k
    <2> HIDE DEF k, af
    <2> QED
      BY <1>6, <1>9, NextPrio DEF AvailablePrio
  <1>11. /\ v = Placed(w, <<c, k>>, OnloadTrap(e[n]))
         /\ OnloadTrap(e[n]).type = "ROUTE_TRAP" /\ OnloadTrap(e[n]).af_addr = e[n]
    <2>1. OnloadTrap(e[n]).type = "ROUTE_TRAP" /\ OnloadTrap(e[n]).af_addr = e[n]
      BY DEF OnloadTrap, tc_rule_set_type_and_traits, tc_rule_set_type, tc_rule_init, Zeroed
    <2>2. v = Placed(w, <<c, k>>, OnloadTrap(e[n]))
      <3> HIDE DEF k
      <3> QED
        BY <1>10 DEF PlacedEntry
    <2> QED
      BY <2>1, <2>2
  <1>12. EntryDue(e, n) = <<c, k>>
    BY DEF EntryDue
  <1> HIDE DEF c, k, af, v
  <1>13. <<c, k>> \notin DOMAIN w
    <2>1. SUFFICES ASSUME <<c, k>> \in DOMAIN w PROVE FALSE
      OBVIOUS
    <2>2. k \in UsedPrios(w, c)
      <3>1. <<c, k>>[1] = c /\ <<c, k>>[2] = k
        OBVIOUS
      <3> QED
        BY <2>1, <3>1 DEF UsedPrios
    <2> QED
      BY <1>3, <1>6, <1>9, <2>2
  <1>14. /\ DOMAIN v = DOMAIN w \union {<<c, k>>}
         /\ \A p \in DOMAIN w : v[p] = w[p]
         /\ v[<<c, k>>].type = "ROUTE_TRAP" /\ v[<<c, k>>].af_addr = e[n]
    <2>1. v[<<c, k>>] = OnloadTrap(e[n])
      BY <1>11, <1>13 DEF Placed
    <2> QED
      BY <1>11, <2>1 DEF Placed
  <1>15. Traps(v) = Traps(w) \union {<<c, k>>}
    BY <1>13, <1>14 DEF Traps
  <1>16. Traps(v) = {EntryDue(e, j) : j \in 1..n}
    <2>1. Traps(w) = {EntryDue(e, j) : j \in 1..(n - 1)}
      BY DEF Ranked
    <2>2. \A x : x \in {EntryDue(e, j) : j \in 1..n}
                     <=> x \in {EntryDue(e, j) : j \in 1..(n - 1)} \/ x = EntryDue(e, n)
      BY <1>1
    <2> QED
      BY <1>12, <1>15, <2>1, <2>2
  <1>17. \A j \in 1..n : v[EntryDue(e, j)].af_addr = e[j]
    <2>1. SUFFICES ASSUME NEW j \in 1..n PROVE v[EntryDue(e, j)].af_addr = e[j]
      OBVIOUS
    <2>2. CASE j = n
      BY <1>12, <1>14, <2>2
    <2>3. CASE j \in 1..(n - 1)
      <3>1. EntryDue(e, j) \in Traps(w) /\ w[EntryDue(e, j)].af_addr = e[j]
        BY <2>3 DEF Ranked
      <3>2. EntryDue(e, j) \in DOMAIN w
        BY <3>1 DEF Traps
      <3> QED
        BY <1>14, <3>1, <3>2
    <2> QED
      BY <1>1, <2>2, <2>3
  <1>18. ASSUME NEW a \in AF
         PROVE  Prios(v, get_af_chain(a)) = TrapBase..(TrapBase + Rank(e, n, a) - 1)
    <2>1. \A d, x : x \in Prios(v, d) <=> \E p \in Traps(v) : p[1] = d /\ p[2] = x
      BY DEF Prios
    <2>2. \A d, x : x \in Prios(w, d) <=> \E p \in Traps(w) : p[1] = d /\ p[2] = x
      BY DEF Prios
    <2>3. <<c, k>>[1] = c /\ <<c, k>>[2] = k
      OBVIOUS
    <2>4. \A d, x : x \in Prios(v, d) <=> x \in Prios(w, d) \/ (d = c /\ x = k)
      <3>1. \A q : q \in Traps(v) <=> q \in Traps(w) \/ q = <<c, k>>
        BY <1>15
      <3>2. ASSUME NEW d, NEW x, x \in Prios(v, d)
            PROVE  x \in Prios(w, d) \/ (d = c /\ x = k)
        <4>1. PICK p \in Traps(v) : p[1] = d /\ p[2] = x
          BY <2>1, <3>2
        <4>2. CASE p = <<c, k>>
          BY <2>3, <4>1, <4>2
        <4>3. CASE p \in Traps(w)
          BY <2>2, <4>1, <4>3
        <4> QED
          BY <3>1, <4>1, <4>2, <4>3
      <3>3. ASSUME NEW d, NEW x, x \in Prios(w, d) PROVE x \in Prios(v, d)
        BY <2>1, <2>2, <3>1, <3>3
      <3>4. k \in Prios(v, c)
        BY <2>1, <2>3, <3>1
      <3> QED
        BY <3>2, <3>3, <3>4
    <2>5. CASE a = af
      <3>1. get_af_chain(a) = c /\ TrapBase + Rank(e, n, a) - 1 = k
        BY <1>3, <1>4, <2>5 DEF c, k
      <3>2. \A x : x \in TrapBase..k <=> x \in TrapBase..(k - 1) \/ x = k
        BY <1>3, <1>6
      <3>3. \A x : x \in Prios(v, c) <=> x \in TrapBase..k
        BY <1>8, <2>4, <3>2
      <3> QED
        BY <3>1, <3>3
    <2>6. CASE a # af
      <3>1. get_af_chain(a) # c
        BY <1>2, <2>6 DEF get_af_chain, AF, c
      <3>2. \A x : x \in Prios(v, get_af_chain(a)) <=> x \in Prios(w, get_af_chain(a))
        BY <2>4, <3>1
      <3>3. Prios(w, get_af_chain(a)) = TrapBase..(TrapBase + Rank(e, n - 1, a) - 1)
        BY DEF Ranked
      <3> QED
        BY <1>5, <2>6, <3>2, <3>3
    <2> QED
      BY <2>5, <2>6
  <1> QED
    BY <1>16, <1>17, <1>18 DEF Ranked, v

\* sched_basic_initial_requests, before the prefix list.
LEMMA ChecksSorted ==
    ASSUME NEW gotos, NEW checks,
           gotos = Placed(Placed(Nothing, <<0, 1>>, AfGoto(4)), <<0, 2>>, AfGoto(6)),
           checks = Placed(Placed(gotos, <<1, 1>>, TtlCheck(4)), <<2, 1>>, TtlCheck(6))
    PROVE  /\ Sorted(checks) /\ Traps(checks) = {}
           /\ \A p \in DOMAIN checks : \E af \in AF : checks[p] \in {AfGoto(af), TtlCheck(af)}
  <1>1. DOMAIN Nothing = {}
    BY DEF Nothing
  <1>2. /\ DOMAIN gotos = {<<0, 1>>, <<0, 2>>}
        /\ \A p \in DOMAIN gotos : gotos[p].type = "ROUTE_GOTO"
        /\ gotos[<<0, 1>>] = AfGoto(4) /\ gotos[<<0, 2>>] = AfGoto(6)
    <2> DEFINE first == Placed(Nothing, <<0, 1>>, AfGoto(4))
    <2>1. DOMAIN first = {<<0, 1>>} /\ first[<<0, 1>>] = AfGoto(4)
      BY <1>1 DEF Placed
    <2> HIDE DEF first
    <2>2. gotos = Placed(first, <<0, 2>>, AfGoto(6)) /\ <<0, 2>> \notin DOMAIN first
      BY <2>1 DEF first
    <2>3. /\ DOMAIN gotos = {<<0, 1>>, <<0, 2>>}
          /\ gotos[<<0, 1>>] = AfGoto(4) /\ gotos[<<0, 2>>] = AfGoto(6)
      BY <2>1, <2>2 DEF Placed
    <2> QED
      BY <2>3, TypesOfWants DEF AF
  <1>3. /\ DOMAIN checks = {<<0, 1>>, <<0, 2>>, <<1, 1>>, <<2, 1>>}
        /\ \A p \in {<<0, 1>>, <<0, 2>>} : checks[p].type = "ROUTE_GOTO"
        /\ \A p \in {<<1, 1>>, <<2, 1>>} : checks[p].type = "TTL_CHECK"
        /\ checks[<<0, 1>>] = AfGoto(4) /\ checks[<<0, 2>>] = AfGoto(6)
        /\ checks[<<1, 1>>] = TtlCheck(4) /\ checks[<<2, 1>>] = TtlCheck(6)
    <2> DEFINE third == Placed(gotos, <<1, 1>>, TtlCheck(4))
    <2>1. /\ DOMAIN third = {<<0, 1>>, <<0, 2>>, <<1, 1>>} /\ third[<<1, 1>>] = TtlCheck(4)
          /\ \A p \in {<<0, 1>>, <<0, 2>>} : third[p] = gotos[p]
      <3>1. <<1, 1>> \notin DOMAIN gotos
        BY <1>2
      <3> QED
        BY <1>2, <3>1 DEF Placed
    <2> HIDE DEF third
    <2>2. checks = Placed(third, <<2, 1>>, TtlCheck(6)) /\ <<2, 1>> \notin DOMAIN third
      BY <2>1 DEF third
    <2>3. /\ DOMAIN checks = {<<0, 1>>, <<0, 2>>, <<1, 1>>, <<2, 1>>}
          /\ checks[<<1, 1>>] = TtlCheck(4) /\ checks[<<2, 1>>] = TtlCheck(6)
          /\ \A p \in {<<0, 1>>, <<0, 2>>} : checks[p] = gotos[p]
      BY <2>1, <2>2 DEF Placed
    <2> QED
      BY <1>2, <2>3, TypesOfWants DEF AF
  <1>4. Traps(checks) = {}
    BY <1>3 DEF Traps
  <1>5. DOMAIN checks \subseteq Nat \X Nat
    BY <1>3
  <1>6. Checked(checks)
    BY <1>3 DEF Checked
  <1>7. OnlyTraps(checks)
    <2>1. \A p \in DOMAIN checks : p[1] \in {1, 2} => p[2] = 1
      BY <1>3
    <2> QED
      BY <2>1 DEF OnlyTraps
  <1>8. \A p \in DOMAIN checks : checks[p].type = "ROUTE_GOTO" => p[1] = 0
    BY <1>3
  <1>9. \A p \in DOMAIN checks : \E af \in AF : checks[p] \in {AfGoto(af), TtlCheck(af)}
    BY <1>3 DEF AF
  <1>10. Sorted(checks)
    BY <1>4, <1>5, <1>6, <1>7, <1>8 DEF Sorted, Contiguous
  <1> QED
    BY <1>4, <1>9, <1>10

LEMMA EntriesTypes ==
    ASSUME lists \in PrefixLists, NEW name
    PROVE  Entries(name) \in Seq(PrefixEntry)
  <1> DEFINE i == Lookup(lists, name)
  <1>1. /\ i \in 1..(Len(lists) + 1)
        /\ i <= Len(lists) => i \in DOMAIN lists
    BY LookupTypes
  <1>2. Entries(name) = IF i > Len(lists) THEN <<>> ELSE lists[i].entries
    BY DEF Entries
  <1> HIDE DEF i
  <1>3. Len(lists) \in Nat
    BY DEF PrefixLists
  <1>4. CASE i > Len(lists)
    BY <1>2, <1>4
  <1>5. CASE ~(i > Len(lists))
    <2>1. i \in 1..Len(lists)
      BY <1>1, <1>3, <1>5
    <2> DEFINE List == [name : ListName, entries : Seq(PrefixEntry)]
    <2>2. lists \in Seq(List)
      BY DEF PrefixLists
    <2>3. lists[i] \in List
      <3> HIDE DEF List
      <3> QED
        BY <2>1, <2>2
    <2> QED
      BY <1>2, <1>5, <2>3
  <1> QED
    BY <1>4, <1>5
\* sched_basic_initial_requests: the walk over the prefix list.
LEMMA InitialSorted ==
    ASSUME have = Nothing, lists \in PrefixLists
    PROVE  /\ Sorted(InitialWants)
           /\ Fit(Entries("onload")) =>
                  Ranked(InitialWants, Entries("onload"), Len(Entries("onload")))
           /\ \A p \in DOMAIN InitialWants :
                  \/ \E af \in AF : InitialWants[p] \in {AfGoto(af), TtlCheck(af)}
                  \/ \E pfx \in PrefixEntry : InitialWants[p] = OnloadTrap(pfx)
  <1> DEFINE entries == Entries("onload")
             gotos == Placed(Placed(Nothing, <<0, 1>>, AfGoto(4)), <<0, 2>>, AfGoto(6))
             checks == Placed(Placed(gotos, <<1, 1>>, TtlCheck(4)), <<2, 1>>, TtlCheck(6))
             m == Len(entries)
             R == {checks[p] : p \in DOMAIN checks}
                  \union {OnloadTrap(entries[i]) : i \in 1..m}
             S == {w \in UNION {[D -> R] : D \in SUBSET (Nat \X Nat)} : Sorted(w)}
             Body(f) == [n \in 0..m |->
                            IF n = 0 THEN checks ELSE PlacedEntry(f[n - 1], entries[n])]
             placed == CHOOSE f : f = Body(f)
             F == [p \in (1..m) \X S |-> PlacedEntry(p[2], entries[p[1]])]
  <1>1. InitialWants = placed[m]
    BY DEF InitialWants
  <1>2. m \in Nat
    BY EntriesTypes
  <1>3. /\ Sorted(checks) /\ Traps(checks) = {}
        /\ \A p \in DOMAIN checks : \E af \in AF : checks[p] \in {AfGoto(af), TtlCheck(af)}
    BY ChecksSorted
  <1>4. checks \in S
    <2>1. checks \in [DOMAIN checks -> R]
      <3>1. checks = [p \in DOMAIN checks |-> checks[p]]
        BY DEF Placed
      <3> HIDE DEF checks
      <3> QED
        BY <3>1
    <2>2. DOMAIN checks \in SUBSET (Nat \X Nat)
      BY <1>3 DEF Sorted
    <2> HIDE DEF checks, R
    <2> QED
      BY <1>3, <2>1, <2>2
  <1> HIDE DEF checks
  <1>5. ASSUME NEW n \in 1..m, NEW w \in S
        PROVE  PlacedEntry(w, entries[n]) \in S
    <2> DEFINE pfx == entries[n]
               place == <<get_af_chain(pfx.af), AvailablePrio(w, pfx.af, TrapBase)>>
               v == PlacedEntry(w, pfx)
    <2>1. Sorted(v)
      BY EntrySorted
    <2>2. v = [p \in DOMAIN w \union {place} |-> IF p \in DOMAIN w THEN w[p] ELSE OnloadTrap(pfx)]
      BY DEF PlacedEntry, Placed
    <2>3. DOMAIN v \in SUBSET (Nat \X Nat)
      BY <2>1 DEF Sorted
    <2>4. OnloadTrap(pfx) \in R
      OBVIOUS
    <2> HIDE DEF pfx, place, R, v, entries, m
    <2>5. PICK D \in SUBSET (Nat \X Nat) : w \in [D -> R]
      OBVIOUS
    <2>6. DOMAIN v = DOMAIN w \union {place}
      BY <2>2
    <2>7. \A p \in DOMAIN v : v[p] \in R
      BY <2>2, <2>4, <2>5
    <2>8. v = [p \in DOMAIN v |-> v[p]]
      BY <2>2, <2>6
    <2>9. v \in [DOMAIN v -> R]
      BY <2>7, <2>8
    <2> QED
      BY <2>1, <2>3, <2>9 DEF v, pfx
  <1> HIDE DEF R, S
  <1>6. \A n \in 1..m, w \in S : F[<<n, w>>] = PlacedEntry(w, entries[n])
    OBVIOUS
  <1> HIDE DEF F
  <1>7. Steps(F, S, m)
    BY <1>5, <1>6 DEF Steps
  <1>8. PICK g : Walk(g, F, S, checks, m)
    <2> HIDE DEF m
    <2> QED
      BY <1>2, <1>4, <1>7, Iteration
  <1> HIDE DEF entries
  <1>9. ASSUME NEW n \in 0..m
        PROVE  g[n] = IF n = 0 THEN checks ELSE PlacedEntry(g[n - 1], entries[n])
    <2>1. CASE n = 0
      BY <1>8, <2>1 DEF Walk
    <2>2. CASE n # 0
      <3>1. n \in 1..m /\ n - 1 \in 0..m
        BY <1>2, <2>2
      <3>2. g[n - 1] \in S /\ g[n] = F[<<n, g[n - 1]>>]
        BY <1>8, <3>1 DEF Walk
      <3> QED
        BY <1>6, <2>2, <3>1, <3>2
    <2> QED
      BY <2>1, <2>2
  <1>10. g = Body(g)
    <2>1. g = [n \in 0..m |-> g[n]]
      BY <1>8 DEF Walk
    <2> HIDE DEF m
    <2> QED
      BY <1>9, <2>1
  <1>11. placed = Body(placed)
    <2> HIDE DEF Body
    <2> QED
      BY <1>10
  <1> HIDE DEF placed, m
  <1>12. ASSUME NEW n \in 0..m
         PROVE  placed[n] = IF n = 0 THEN checks ELSE PlacedEntry(placed[n - 1], entries[n])
    BY <1>11, Zenon
  <1> HIDE DEF Body
  <1> DEFINE In == {n \in Nat : n <= m => /\ placed[n] \in S
                                          /\ Fit(entries) => Ranked(placed[n], entries, n)}
  <1>13. 0 \in In
    <2>1. 0 \in 0..m
      BY <1>2
    <2>2. placed[0] = checks
      BY <1>12, <2>1
    <2>3. Ranked(checks, entries, 0)
      <3>1. \A af \in AF : TrapBase..(TrapBase + Rank(entries, 0, af) - 1) = {}
        <4>1. \A af \in AF : Earlier(entries, 0, af) = {}
          BY DEF Earlier
        <4>2. \A af \in AF : Rank(entries, 0, af) = 0
          BY <4>1, FS_EmptySet DEF Rank
        <4> QED
          BY <4>2, BasesAssumption
      <3>2. \A c : Prios(checks, c) = {}
        BY <1>3 DEF Prios
      <3>3. Traps(checks) = {EntryDue(entries, j) : j \in 1..0}
        BY <1>3
      <3>4. \A af \in AF : Prios(checks, get_af_chain(af))
                            = TrapBase..(TrapBase + Rank(entries, 0, af) - 1)
        BY <3>1, <3>2, Zenon
      <3> QED
        BY <3>3, <3>4 DEF Ranked
    <2> QED
      BY <1>4, <2>2, <2>3
  <1>14. ASSUME NEW n \in Nat, n \in In PROVE n + 1 \in In
    <2>1. SUFFICES ASSUME n + 1 <= m
                   PROVE  /\ placed[n + 1] \in S
                          /\ Fit(entries) => Ranked(placed[n + 1], entries, n + 1)
      OBVIOUS
    <2>2. n + 1 \in 0..m /\ n + 1 \in 1..m /\ n + 1 # 0 /\ (n + 1) - 1 = n /\ n <= m
      BY <1>2, <2>1
    <2>3. placed[n] \in S /\ (Fit(entries) => Ranked(placed[n], entries, n))
      BY <1>14, <2>2
    <2> HIDE DEF In
    <2>4. placed[n + 1] = PlacedEntry(placed[n], entries[n + 1])
      BY <1>12, <2>2
    <2>5. ASSUME Fit(entries) PROVE Ranked(placed[n + 1], entries, n + 1)
      <3> DEFINE k == n + 1
      <3>1. k \in 1..Len(entries) /\ k - 1 = n
        BY <2>2 DEF m
      <3> HIDE DEF k
      <3>2. Sorted(placed[n]) /\ Ranked(placed[n], entries, k - 1)
        BY <2>3, <2>5, <3>1 DEF S
      <3>3. TrapBase + Rank(entries, k - 1, entries[k].af) < Width
        BY <2>5, <3>1 DEF Fit
      <3>4. entries \in Seq(PrefixEntry)
        BY EntriesTypes DEF entries
      <3>5. Ranked(PlacedEntry(placed[n], entries[k]), entries, k)
        BY <3>1, <3>2, <3>3, <3>4, EntryRanked
      <3> QED
        BY <2>4, <3>5 DEF k
    <2> QED
      BY <1>5, <2>2, <2>3, <2>4, <2>5
  <1>15. m \in In
    <2> HIDE DEF In
    <2> QED
      BY <1>2, <1>13, <1>14, SetInduction
  <1>16. placed[m] \in S /\ (Fit(entries) => Ranked(placed[m], entries, m))
    BY <1>2, <1>15
  <1>17. Sorted(placed[m])
    BY <1>16 DEF S
  <1>18. \A i \in 1..m : entries[i] \in PrefixEntry
    BY EntriesTypes DEF m, entries
  <1>19. ASSUME NEW p \in DOMAIN placed[m]
         PROVE  \/ \E af \in AF : placed[m][p] \in {AfGoto(af), TtlCheck(af)}
                \/ \E pfx \in PrefixEntry : placed[m][p] = OnloadTrap(pfx)
    <2>1. placed[m][p] \in R
      BY <1>16 DEF S
    <2> QED
      BY <1>3, <1>18, <2>1 DEF R
  <1> QED
    BY <1>1, <1>16, <1>17, <1>19 DEF m, entries
-----------------------------------------------------------------------------
(* What was given, in its order. *)

AskedIn(g, af) == {i \in DOMAIN g : g[i].list = "onload" /\ g[i].text.af = af}

DueIn(g, i) ==
    LET af == g[i].text.af
    IN  <<get_af_chain(af), TrapBase + Cardinality({j \in AskedIn(g, af) : j < i})>>

Ordered(w, g) ==
    \A af \in AF :
        /\ {p \in Traps(w) : p[1] = get_af_chain(af)} = {DueIn(g, i) : i \in AskedIn(g, af)}
        /\ \A i \in AskedIn(g, af) : w[DueIn(g, i)].af_addr = Parsed(g[i].text)

\* What is behind a gift in what was given is as far behind in the list.
LEMMA SameRank ==
    ASSUME NEW g \in Seq(Gift), NEW e \in Seq(PrefixEntry), NEW h, Follows(h, e, g),
           NEW j \in 1..Len(e)
    PROVE  /\ h[j] \in Asks(g) /\ g[h[j]].text.af = e[j].af
           /\ Cardinality({i \in AskedIn(g, e[j].af) : i < h[j]}) = Rank(e, j - 1, e[j].af)
           /\ Rank(e, j - 1, e[j].af) < Len(g)
  <1> DEFINE af == e[j].af
             S == Earlier(e, j - 1, af)
             T == {i \in AskedIn(g, af) : i < h[j]}
             b == [k \in S |-> h[k]]
  <1>1. Len(g) \in Nat /\ DOMAIN g = 1..Len(g) /\ Asks(g) \subseteq 1..Len(g)
    BY DEF Asks
  <1>2. \A k \in 1..Len(e) : h[k] \in Asks(g) /\ h[k] \in 1..Len(g)
    BY <1>1 DEF Follows
  <1>3. \A k \in 1..Len(e) : g[h[k]].text.af = e[k].af
    <2>1. \A k \in 1..Len(e) : e[k] = Parsed(g[h[k]].text)
      BY DEF Follows
    <2>2. \A t : Parsed(t).af = t.af
      BY DEF Parsed
    <2> QED
      BY <2>1, <2>2
  <1>4. \A k, l \in 1..Len(e) : k < l <=> h[k] < h[l]
    <2>1. SUFFICES ASSUME NEW k \in 1..Len(e), NEW l \in 1..Len(e)
                   PROVE  k < l <=> h[k] < h[l]
      OBVIOUS
    <2>2. /\ k < l => h[k] < h[l]
          /\ l < k => h[l] < h[k]
      BY DEF Follows
    <2>3. k = l => h[k] = h[l]
      OBVIOUS
    <2>4. h[k] \in Nat /\ h[l] \in Nat /\ k \in Nat /\ l \in Nat
      BY <1>1, <1>2
    <2> QED
      BY <2>2, <2>3, <2>4
  <1>5. \A k \in S : k \in 1..Len(e) /\ k < j /\ e[k].af = af
    BY DEF Earlier
  <1>6. IsFiniteSet(S)
    <2>1. IsFiniteSet(1..(j - 1))
      BY FS_Interval
    <2>2. S \in SUBSET (1..(j - 1))
      BY DEF Earlier
    <2> HIDE DEF S
    <2> QED
      BY <2>1, <2>2, FS_Subset
  <1>7. ASSUME NEW k \in S PROVE h[k] \in T
    BY <1>2, <1>3, <1>4, <1>5 DEF AskedIn, Asks
  <1>8. ASSUME NEW i \in T PROVE \E k \in S : h[k] = i
    <2>1. i \in Asks(g) /\ g[i].text.af = af /\ i < h[j]
      BY DEF AskedIn, Asks
    <2>2. PICK k \in 1..Len(e) : h[k] = i
      BY <2>1 DEF Follows
    <2>3. k < j /\ e[k].af = af
      BY <1>3, <1>4, <2>1, <2>2
    <2>4. k \in S
      BY <2>3 DEF Earlier
    <2> QED
      BY <2>2, <2>4
  <1>9. \A k, l \in S : h[k] = h[l] => k = l
    <2>1. SUFFICES ASSUME NEW k \in S, NEW l \in S, h[k] = h[l] PROVE k = l
      OBVIOUS
    <2>2. ~(h[k] < h[l]) /\ ~(h[l] < h[k])
      BY <1>1, <1>2, <1>5, <2>1
    <2>3. ~(k < l) /\ ~(l < k) /\ k \in Nat /\ l \in Nat
      BY <1>4, <1>5, <2>2
    <2> QED
      BY <2>3
  <1> HIDE DEF S, T
  <1>10. b \in Bijection(S, T)
    <2>1. b \in [S -> T]
      BY <1>7
    <2>2. \A k, l \in S : b[k] = b[l] => k = l
      BY <1>9
    <2>3. \A i \in T : \E k \in S : b[k] = i
      BY <1>8
    <2> HIDE DEF b
    <2> QED
      BY <2>1, <2>2, <2>3, Fun_IsBij
  <1>11. Cardinality(T) = Cardinality(S)
    <2>1. ExistsBijection(S, T)
      BY <1>10 DEF ExistsBijection
    <2> QED
      BY <1>6, <2>1, FS_Bijection
  <1>12. Cardinality(T) < Len(g)
    <2>1. h[j] \in 1..Len(g)
      BY <1>2
    <2>2. h[j] - 1 \in Int /\ 1 \in Int
      BY <1>1, <2>1
    <2>3. IsFiniteSet(1..(h[j] - 1)) /\ Cardinality(1..(h[j] - 1)) = h[j] - 1
      <3>1. /\ IsFiniteSet(1..(h[j] - 1))
            /\ Cardinality(1..(h[j] - 1)) = IF 1 > h[j] - 1 THEN 0 ELSE (h[j] - 1) - 1 + 1
        BY <2>2, FS_Interval
      <3> QED
        BY <1>1, <2>1, <3>1
    <2>4. T \in SUBSET (1..(h[j] - 1))
      BY <1>1, <2>1 DEF T, AskedIn
    <2>5. Cardinality(T) <= Cardinality(1..(h[j] - 1))
      BY <2>3, <2>4, FS_Subset
    <2>6. Cardinality(T) \in Nat
      BY <1>6, <1>11, FS_CardinalityType
    <2> QED
      BY <1>1, <2>1, <2>3, <2>5, <2>6
  <1> QED
    BY <1>2, <1>3, <1>11, <1>12 DEF S, T, Rank

\* sched_basic_place_prefix_list: the traps are in the order that was given.
LEMMA RankedIsOrdered ==
    ASSUME NEW g \in Seq(Gift), NEW e \in Seq(PrefixEntry), NEW h, Follows(h, e, g),
           NEW w, Ranked(w, e, Len(e))
    PROVE  Ordered(w, g)
  <1>1. ASSUME NEW j \in 1..Len(e)
        PROVE  /\ h[j] \in AskedIn(g, e[j].af) /\ DueIn(g, h[j]) = EntryDue(e, j)
               /\ e[j] = Parsed(g[h[j]].text)
    <2>1. /\ h[j] \in Asks(g) /\ g[h[j]].text.af = e[j].af
          /\ Cardinality({i \in AskedIn(g, e[j].af) : i < h[j]}) = Rank(e, j - 1, e[j].af)
      BY SameRank
    <2>2. e[j] = Parsed(g[h[j]].text)
      BY DEF Follows
    <2>3. DueIn(g, h[j]) = EntryDue(e, j)
      BY <2>1 DEF DueIn, EntryDue
    <2> QED
      BY <2>1, <2>2, <2>3 DEF AskedIn, Asks
  <1>2. SUFFICES ASSUME NEW af \in AF
                 PROVE  /\ {p \in Traps(w) : p[1] = get_af_chain(af)}
                               = {DueIn(g, i) : i \in AskedIn(g, af)}
                        /\ \A i \in AskedIn(g, af) : w[DueIn(g, i)].af_addr = Parsed(g[i].text)
    BY DEF Ordered
  <1>3. ASSUME NEW i \in AskedIn(g, af)
        PROVE  \E j \in 1..Len(e) : h[j] = i /\ e[j].af = af
    <2>1. i \in Asks(g) /\ g[i].text.af = af
      BY DEF AskedIn, Asks
    <2>2. PICK j \in 1..Len(e) : h[j] = i
      BY <2>1 DEF Follows
    <2>3. g[h[j]].text.af = e[j].af
      BY SameRank
    <2> QED
      BY <2>1, <2>2, <2>3
  <1>4. Traps(w) = {EntryDue(e, j) : j \in 1..Len(e)}
    BY DEF Ranked
  <1>5. ASSUME NEW i \in AskedIn(g, af)
        PROVE  /\ DueIn(g, i) \in Traps(w) /\ DueIn(g, i)[1] = get_af_chain(af)
               /\ w[DueIn(g, i)].af_addr = Parsed(g[i].text)
    <2>1. PICK j \in 1..Len(e) : h[j] = i /\ e[j].af = af
      BY <1>3
    <2>2. DueIn(g, i) = EntryDue(e, j) /\ e[j] = Parsed(g[i].text)
      BY <1>1, <2>1
    <2>3. EntryDue(e, j)[1] = get_af_chain(af)
      BY <2>1 DEF EntryDue
    <2>4. w[EntryDue(e, j)].af_addr = e[j]
      BY DEF Ranked
    <2> QED
      BY <1>4, <2>2, <2>3, <2>4
  <1>6. ASSUME NEW p \in Traps(w), p[1] = get_af_chain(af)
        PROVE  p \in {DueIn(g, i) : i \in AskedIn(g, af)}
    <2>1. PICK j \in 1..Len(e) : p = EntryDue(e, j)
      BY <1>4
    <2>2. e[j].af \in AF
      <3>1. e[j] \in PrefixEntry
        OBVIOUS
      <3> QED
        BY <3>1 DEF PrefixEntry, Prefix, TextRecord, Parsed
    <2>3. e[j].af = af
      BY <1>6, <2>1, <2>2 DEF EntryDue, get_af_chain, AF
    <2>4. h[j] \in AskedIn(g, af) /\ DueIn(g, h[j]) = p
      BY <1>1, <2>1, <2>3
    <2> QED
      BY <2>4
  <1> QED
    BY <1>5, <1>6

-----------------------------------------------------------------------------
(* The invariant. *)

Told == lists \in PrefixLists /\ given \in Seq(Gift) /\ Matches(lists, given)

IInv == Told /\ OrderInv

LEMMA ToldStays ==
    ASSUME Told, UNCHANGED <<lists, given>>
    PROVE  Told'
  BY DEF Told

LEMMA NothingIsWanted ==
    ASSUME NEW w, w = Nothing
    PROVE  DOMAIN w = {} /\ Contiguous(w) /\ RoutesBehind(w)
  BY DEF Nothing, Contiguous, RoutesBehind, Traps

LEMMA InitOrder ==
    ASSUME Init
    PROVE  IInv
  <1>1. Told
    <2> DEFINE List == [name : ListName, entries : Seq(PrefixEntry)]
    <2>1. lists = <<>> /\ given = <<>>
      BY DEF Init
    <2>2. lists \in PrefixLists /\ given \in Seq(Gift)
      <3> HIDE DEF List
      <3>1. <<>> \in Seq(List) /\ <<>> \in Seq(Gift)
        OBVIOUS
      <3> QED
        BY <2>1, <3>1 DEF PrefixLists, List
    <2>3. Held(lists) = <<>>
      <3>1. Lookup(lists, "onload") = 1 /\ Len(lists) = 0
        BY <2>1 DEF Lookup
      <3> QED
        BY <3>1 DEF Held
    <2>4. Asks(given) = {}
      BY <2>1 DEF Asks
    <2> DEFINE h == [j \in {} |-> 0]
    <2>5. Follows(h, <<>>, given)
      BY <2>4 DEF Follows
    <2> QED
      BY <2>2, <2>3, <2>5 DEF Told, Matches
  <1>2. /\ want = Nothing /\ have = Nothing /\ kernel = Nothing
        /\ phase # "running"
    BY DEF Init
  <1>3. OrderInv
    BY <1>2, NothingIsWanted DEF OrderInv
  <1> QED
    BY <1>1, <1>3 DEF IInv

\* options_parse: nothing but the lists changes that matters here.
LEMMA OptionOrder ==
    ASSUME IInv, UNCHANGED rules, phase # "running", phase' # "running", Told'
    PROVE  IInv'
  BY DEF IInv, OrderInv, rules, Checked, Contiguous, RoutesBehind, Traps, Nothing

LEMMA OptionsOrder ==
    ASSUME IInv,
           \/ \E known \in BOOLEAN : OptTable(known) \/ OptIface(known)
           \/ \E name \in ListName, t \in Text : OptAddPrefix(name, t)
           \/ \E name \in ListName, file \in File \union {NoFile} : OptLoadPrefix(name, file)
           \/ \E m \in {"once", "help", "version"} : OptMode(m)
           \/ OptSkipHw
           \/ OptWrong
           \/ OptEnd
    PROVE  IInv'
  <1>1. Told
    BY DEF IInv
  <1>2. CASE \E known \in BOOLEAN : OptTable(known) \/ OptIface(known)
    BY <1>1, <1>2, ToldStays, OptionOrder
       DEF OptTable, OptIface, More, Bail, Next_option, options
  <1>3. ASSUME NEW name \in ListName, NEW t \in Text, OptAddPrefix(name, t)
        PROVE  IInv'
    <2>2. CASE Parses(t)
      <3>0. t \in Prefix /\ Parsed(t) \in PrefixEntry
        <4>1. t \in TextRecord
          BY InputAssumption
        <4> QED
          BY <2>2, <4>1 DEF Prefix, PrefixEntry
      <3>1. lists' = Stored(lists, name, Parsed(t)) /\ given' = Given(name, <<t>>)
        BY <1>3, <2>2 DEF OptAddPrefix
      <3>2. Given(name, <<t>>) = Gave(given, name, <<t>>, 1)
        <4>1. DOMAIN <<t>> = 1..1
          OBVIOUS
        <4> QED
          BY <4>1 DEF Given, Gave
      <3>3. <<t>> \in Seq(Prefix) /\ 1 \in 0..Len(<<t>>)
        <4> HIDE DEF Prefix
        <4> QED
          BY <3>0
      <3>4. /\ given' \in Seq(Gift) /\ Len(given') = Len(given) + 1
            /\ \A i \in 1..Len(given) : given'[i] = given[i]
            /\ given'[Len(given) + 1] = [list |-> name, text |-> t]
        <4> DEFINE texts == <<t>>
                   q == Gave(given, name, texts, 1)
        <4>1. texts \in Seq(Prefix) /\ 1 \in 0..Len(texts) /\ texts[1] = t
          BY <3>3
        <4>2. given' = q
          BY <3>1, <3>2
        <4> HIDE DEF texts, q
        <4>3. /\ q \in Seq(Gift) /\ Len(q) = Len(given) + 1
              /\ \A i \in 1..Len(given) : q[i] = given[i]
              /\ \A i \in 1..1 : q[Len(given) + i] = [list |-> name, text |-> texts[i]]
          BY <1>1, <4>1, GavePoints DEF Told, q
        <4>4. q[Len(given) + 1] = [list |-> name, text |-> t]
          BY <4>1, <4>3
        <4> QED
          BY <4>2, <4>3, <4>4
      <3>5. Matches(lists', given')
        BY <1>1, <3>0, <3>1, <3>4, StoredMatches DEF Told
      <3>6. Told'
        <4>1. lists' \in PrefixLists
          BY <1>1, <3>0, <3>1, StoredTypes DEF Told
        <4>2. Told' <=> lists' \in PrefixLists /\ given' \in Seq(Gift) /\ Matches(lists', given')
          BY DEF Told
        <4> QED
          BY <3>4, <3>5, <4>1, <4>2
      <3> QED
        BY <1>3, <2>2, <3>6, OptionOrder DEF OptAddPrefix, More, Next_option
    <2>3. CASE ~Parses(t)
      BY <1>1, <1>3, <2>3, ToldStays, OptionOrder DEF OptAddPrefix, More, Bail, options
    <2> QED
      BY <2>2, <2>3
  <1>4. ASSUME NEW name \in ListName, NEW file \in File \union {NoFile}, OptLoadPrefix(name, file)
        PROVE  IInv'
    <2> DEFINE texts == PrefixLines(file)
    <2>1. CASE file = NoFile
      BY <1>1, <1>4, <2>1, ToldStays, OptionOrder DEF OptLoadPrefix, More, Next_option, options
    <2>2. CASE file # NoFile /\ Bad(file) # {}
      BY <1>1, <1>4, <2>2, ToldStays, OptionOrder DEF OptLoadPrefix, More, Bail, options
    <2>3. CASE file # NoFile /\ Bad(file) = {}
      <3>1. lists' = StoredAll(lists, name, texts) /\ given' = Given(name, texts)
        BY <1>4, <2>3 DEF OptLoadPrefix
      <3>2. texts \in Seq(Prefix)
        <4>1. file \in File /\ texts \in Seq(TextRecord)
          BY <2>3, InputAssumption
        <4>2. \A i \in DOMAIN texts : Parses(texts[i])
          BY <2>3 DEF Bad
        <4> HIDE DEF texts
        <4>3. \A i \in 1..Len(texts) : texts[i] \in TextRecord
          <5> HIDE DEF TextRecord
          <5> QED
            BY <4>1
        <4>4. \A i \in 1..Len(texts) : texts[i] \in Prefix
          BY <4>1, <4>2, <4>3 DEF Prefix
        <4> HIDE DEF Prefix, TextRecord
        <4> QED
          BY <4>1, <4>4
      <3> HIDE DEF texts
      <3>3. DOMAIN texts = 1..Len(texts) /\ Len(texts) \in 0..Len(texts)
        <4> HIDE DEF Prefix
        <4> QED
          BY <3>2
      <3>4. given' = Gave(given, name, texts, Len(texts))
        BY <3>1, <3>3 DEF Given, Gave
      <3>5. given' \in Seq(Gift)
        BY <1>1, <3>2, <3>3, <3>4, GavePoints DEF Told
      <3>6. lists' \in PrefixLists /\ Matches(lists', given')
        BY <1>1, <3>1, <3>2, <3>4, StoredAllMatches DEF Told
      <3>7. Told'
        <4>1. Told' <=> lists' \in PrefixLists /\ given' \in Seq(Gift) /\ Matches(lists', given')
          BY DEF Told
        <4> QED
          BY <3>5, <3>6, <4>1
      <3> QED
        BY <1>4, <2>3, <3>7, OptionOrder DEF OptLoadPrefix, More, Next_option
    <2> QED
      BY <2>1, <2>2, <2>3
  <1>5. CASE \E m \in {"once", "help", "version"} : OptMode(m)
    BY <1>1, <1>5, ToldStays, OptionOrder DEF OptMode, More, Next_option
  <1>6. CASE OptSkipHw
    BY <1>1, <1>6, ToldStays, OptionOrder DEF OptSkipHw, More, Next_option
  <1>7. CASE OptWrong
    BY <1>1, <1>7, ToldStays, OptionOrder DEF OptWrong, More, Bail, options
  <1>8. CASE OptEnd
    BY <1>1, <1>8, ToldStays, OptionOrder DEF OptEnd, options
  <1> QED
    BY <1>2, <1>3, <1>4, <1>5, <1>6, <1>7, <1>8

\* sched_init: the traps are in place before there is any route.
LEMMA DoneOrder ==
    ASSUME IInv, OptDone
    PROVE  IInv'
  <1>1. have = Nothing /\ lists \in PrefixLists /\ phase = "options"
    BY DEF IInv, Told, OrderInv, OptDone
  <1>2. Sorted(InitialWants)
    BY <1>1, InitialSorted
  <1>3. want' = InitialWants /\ have' = Nothing /\ phase' = "running" /\ Told'
    BY <1>1, ToldStays DEF IInv, OptDone, options
  <1>4. DOMAIN kernel' \subseteq Nat \X Nat
    <2>1. kernel' \in {Nothing} \union {[p \in {c.place} |-> c.filter] : c \in Catalogue}
      BY DEF OptDone
    <2>2. CASE kernel' = Nothing
      BY <2>2 DEF Nothing
    <2>3. CASE kernel' \in {[p \in {c.place} |-> c.filter] : c \in Catalogue}
      <3>1. PICK c \in Catalogue : kernel' = [p \in {c.place} |-> c.filter]
        BY <2>3
      <3>2. c.place \in Nat \X Nat
        BY InputAssumption
      <3>3. DOMAIN kernel' = {c.place}
        BY <3>1
      <3> QED
        BY <3>2, <3>3
    <2> QED
      BY <2>1, <2>2, <2>3
  <1>5. RoutesBehind(want')
    <2>1. SUFFICES ASSUME NEW t \in Traps(want'), NEW r \in DOMAIN want',
                          want'[r].type = "ROUTE_GOTO", r[1] = t[1]
                   PROVE  FALSE
      BY DEF RoutesBehind
    <2>2. r[1] = 0 /\ t[1] \in {1, 2}
      BY <1>2, <1>3, <2>1 DEF Sorted, Contiguous
    <2> QED
      BY <2>1, <2>2
  <1>6. Checked(want') /\ Contiguous(want') /\ DOMAIN want' \subseteq Nat \X Nat
    BY <1>2, <1>3 DEF Sorted
  <1>7. DOMAIN have' = {}
    BY <1>3 DEF Nothing
  <1> QED
    BY <1>1, <1>3, <1>4, <1>5, <1>6, <1>7 DEF IInv, OrderInv

\* A rule that is neither a trap nor a route, in a place of its own.
LEMMA TargetOrder ==
    ASSUME IInv, NEW t \in Forward, NEW chain \in ChainBase..(ChainBase + 1),
           NewTarget(t, chain)
    PROVE  IInv'
  <1> DEFINE place == <<chain, 1>>
             rule == tc_rule_set_type_and_traits(
                         [tc_rule_init(config.flower_flags) EXCEPT
                             !.vlan_id = t.vlan, !.lladdr = t.lladdr, !.af_addr.af = t.af],
                         "FORWARD")
  <1>1. rule.type = "FORWARD"
    BY DEF tc_rule_set_type_and_traits, tc_rule_set_type, tc_rule_init, Zeroed
  <1>2. /\ want' = Placed(want, place, rule) /\ phase = "running"
        /\ UNCHANGED <<phase, lists, given, have, kernel>>
        /\ place \notin DOMAIN want
    BY DEF NewTarget, options
  <1> HIDE DEF rule
  <1>3. place \in Nat \X Nat
    BY InputAssumption, BasesAssumption
  <1>4. /\ DOMAIN want' = DOMAIN want \union {place}
        /\ \A p \in DOMAIN want : want'[p] = want[p]
        /\ want'[place].type = "FORWARD"
    BY <1>1, <1>2 DEF Placed
  <1> HIDE DEF place
  <1>5. Traps(want') = Traps(want)
    BY <1>2, <1>4 DEF Traps
  <1>6. Checked(want')
    BY <1>2, <1>4 DEF IInv, OrderInv, Checked
  <1>7. Contiguous(want')
    BY <1>5 DEF IInv, OrderInv, Contiguous
  <1>8. RoutesBehind(want')
    BY <1>2, <1>4, <1>5 DEF IInv, OrderInv, RoutesBehind
  <1>9. Told'
    BY <1>2, ToldStays DEF IInv
  <1> QED
    BY <1>2, <1>3, <1>4, <1>6, <1>7, <1>8, <1>9 DEF IInv, OrderInv
\* sched_basic_place: no priority below the last trap is free.
LEMMA RouteOrder ==
    ASSUME IInv, NEW d \in Dest, NEW t, NewRoute(d, t)
    PROVE  IInv'
  <1> DEFINE c == get_af_chain(d.af)
             k == AvailablePrio(want, d.af, RouteBase)
             rule == tc_rule_set_type_and_traits(
                         [tc_rule_init(config.flower_flags) EXCEPT
                             !.goto_target = t[1],
                             !.af_addr = Addr(d.af, d.mask_len, d.cells)],
                         "ROUTE_GOTO")
  <1>1. rule.type = "ROUTE_GOTO"
    BY DEF tc_rule_set_type_and_traits, tc_rule_set_type, tc_rule_init, Zeroed
  <1>2. /\ want' = Placed(want, <<c, k>>, rule) /\ phase = "running"
        /\ UNCHANGED <<phase, lists, given, have, kernel>>
    BY DEF NewRoute, RoutePlace, options
  <1> HIDE DEF rule
  <1>3. c \in {1, 2} /\ Told'
    BY <1>2, ToldStays DEF get_af_chain, IInv
  <1>4. k \in Nat /\ k >= RouteBase
    <2>1. UsedPrios(want, c) \in SUBSET Nat
      BY UsedNumbers DEF IInv, OrderInv
    <2> QED
      BY <2>1, PrioIsAbove, BasesAssumption DEF AvailablePrio
  <1> HIDE DEF c, k
  <1>5. CASE <<c, k>> \in DOMAIN want
    <2>1. DOMAIN want' = DOMAIN want /\ \A p \in DOMAIN want : want'[p] = want[p]
      BY <1>2, <1>5 DEF Placed
    <2>2. Traps(want') = Traps(want)
      BY <2>1 DEF Traps
    <2>3. Checked(want')
      BY <1>2, <2>1 DEF IInv, OrderInv, Checked
    <2>4. Contiguous(want') /\ RoutesBehind(want')
      BY <2>1, <2>2 DEF IInv, OrderInv, Contiguous, RoutesBehind
    <2> QED
      BY <1>2, <1>3, <2>1, <2>3, <2>4 DEF IInv, OrderInv
  <1>6. CASE <<c, k>> \notin DOMAIN want
    <2>1. /\ DOMAIN want' = DOMAIN want \union {<<c, k>>}
          /\ \A p \in DOMAIN want : want'[p] = want[p]
          /\ want'[<<c, k>>].type = "ROUTE_GOTO"
      BY <1>1, <1>2, <1>6 DEF Placed
    <2>2. Traps(want') = Traps(want)
      BY <1>6, <2>1 DEF Traps
    <2>3. Checked(want')
      BY <1>2, <2>1 DEF IInv, OrderInv, Checked
    <2>4. Contiguous(want')
      BY <2>2 DEF IInv, OrderInv, Contiguous
    <2>5. ASSUME NEW u \in Traps(want'), u[1] = c PROVE u[2] < k
      <3>1. SUFFICES ASSUME ~(u[2] < k) PROVE FALSE
        OBVIOUS
      <3>2. u \in DOMAIN want /\ u[2] \in Nat
        BY <2>2 DEF Traps, IInv, OrderInv
      <3>3. k \in TrapBase..u[2]
        BY <1>4, <3>1, <3>2, BasesAssumption
      <3>4. <<c, k>> \in Traps(want)
        BY <2>2, <2>5, <3>3 DEF IInv, OrderInv, Contiguous
      <3> QED
        BY <1>6, <3>4 DEF Traps
    <2>6. RoutesBehind(want')
      <3>1. SUFFICES ASSUME NEW u \in Traps(want'), NEW r \in DOMAIN want',
                            want'[r].type = "ROUTE_GOTO", r[1] = u[1]
                     PROVE  u[2] < r[2]
        BY DEF RoutesBehind
      <3>2. CASE r = <<c, k>>
        BY <2>5, <3>1, <3>2
      <3>3. CASE r \in DOMAIN want
        BY <2>1, <2>2, <3>1, <3>3 DEF IInv, OrderInv, RoutesBehind
      <3> QED
        BY <2>1, <3>2, <3>3
    <2>7. DOMAIN want' \subseteq Nat \X Nat
      BY <1>3, <1>4, <2>1 DEF IInv, OrderInv
    <2> QED
      BY <1>2, <1>3, <2>3, <2>4, <2>6, <2>7 DEF IInv, OrderInv
  <1> QED
    BY <1>5, <1>6

\* What is found, installed or uninstalled does not change what is wanted.
LEMMA FilterOrder ==
    ASSUME IInv, Found \/ Uninstall \/ Install
    PROVE  IInv'
  <1>1. want' = want /\ phase = "running" /\ phase' = phase /\ Told'
    BY ToldStays DEF IInv, Found, Uninstall, Install, options
  <1>2. DOMAIN have' \union DOMAIN kernel' \subseteq Nat \X Nat
    <2>1. DOMAIN want \union DOMAIN have \union DOMAIN kernel \subseteq Nat \X Nat
      BY DEF IInv, OrderInv
    <2>2. CASE Found
      BY <2>1, <2>2 DEF Found
    <2>3. CASE Uninstall
      BY <2>1, <2>3 DEF Uninstall, Without
    <2>4. CASE Install
      BY <2>1, <2>4 DEF Install, Missing
    <2> QED
      BY <2>2, <2>3, <2>4
  <1>3. Checked(want') /\ Contiguous(want') /\ RoutesBehind(want')
    BY <1>1 DEF IInv, OrderInv
  <1> QED
    BY <1>1, <1>2, <1>3 DEF IInv, OrderInv

LEMMA NextOrder ==
    ASSUME IInv, [Next]_vars
    PROVE  IInv'
  <1>1. CASE ReadOption
    BY <1>1, OptionsOrder, DoneOrder DEF ReadOption
  <1>2. CASE \E t \in Forward, chain \in ChainBase..(ChainBase + 1) : NewTarget(t, chain)
    BY <1>2, TargetOrder
  <1>3. CASE \E d \in Dest, t \in Wanted("FORWARD") : NewRoute(d, t)
    BY <1>3, RouteOrder
  <1>4. CASE Found \/ Uninstall \/ Install
    BY <1>4, FilterOrder
  <1>5. CASE UNCHANGED vars
    BY <1>5, ToldStays DEF vars, IInv, OrderInv, Checked, Contiguous, RoutesBehind, Traps
  <1> QED
    BY <1>1, <1>2, <1>3, <1>4, <1>5 DEF Next

\* sched_basic.c: in every chain of a family the TTL check comes first, then the
\* traps, without a gap, and then the routes, however many there are of each,
\* whatever was in the kernel and in whatever order options were given.
THEOREM OrderInvariance == Spec => []OrderInv
  <1>1. Init => IInv
    BY InitOrder
  <1>2. IInv /\ [Next]_vars => IInv'
    BY NextOrder
  <1>3. IInv => OrderInv
    BY DEF IInv
  <1> QED
    BY <1>1, <1>2, <1>3, PTL DEF Spec

\* sched_basic_place: packets meet all traps before any route of their family,
\* and the TTL check before the traps.
THEOREM TrapsStayFirst == Spec => []TrapsFirst
  <1>1. OrderInv => TrapsFirst
    <2>1. SUFFICES ASSUME OrderInv, NEW t \in Wanted("ROUTE_TRAP")
                   PROVE  /\ <<t[1], 1>> \in Wanted("TTL_CHECK") /\ 1 < t[2]
                          /\ \A r \in Wanted("ROUTE_GOTO") : r[1] = t[1] => t[2] < r[2]
      BY DEF TrapsFirst
    <2>2. t \in Traps(want) /\ t \in DOMAIN want /\ t[2] \in Nat
      BY <2>1 DEF Wanted, Traps, OrderInv
    <2>3. t[1] \in {1, 2} /\ t[2] >= TrapBase
      BY <2>1, <2>2 DEF OrderInv, Contiguous
    <2>4. phase = "running"
      BY <2>1, <2>2 DEF OrderInv, Nothing
    <2>5. <<t[1], 1>> \in Wanted("TTL_CHECK")
      BY <2>1, <2>3, <2>4 DEF OrderInv, Checked, Wanted
    <2>6. \A r \in Wanted("ROUTE_GOTO") : r[1] = t[1] => t[2] < r[2]
      BY <2>1, <2>2 DEF OrderInv, RoutesBehind, Wanted
    <2> QED
      BY <2>2, <2>3, <2>5, <2>6, BasesAssumption
  <1> QED
    BY <1>1, OrderInvariance, PTL
-----------------------------------------------------------------------------
(* The order of the traps. *)

\* There are as many priorities as prefixes: 65526 of them.
Fits == TrapBase + Len(given) <= Width

InOrder == phase = "running" /\ Fits => Ordered(want, given)

\* What is added and is no trap leaves the traps alone.
LEMMA PlacedKeepsTraps ==
    ASSUME NEW w, NEW place, NEW rule, rule.type # "ROUTE_TRAP"
    PROVE  LET v == Placed(w, place, rule) IN
           Traps(v) = Traps(w) /\ \A p \in Traps(w) : v[p] = w[p]
  <1> DEFINE v == Placed(w, place, rule)
  <1>1. /\ DOMAIN v = DOMAIN w \union {place}
        /\ \A p \in DOMAIN w : v[p] = w[p]
        /\ place \notin DOMAIN w => v[place] = rule
    BY DEF Placed
  <1> HIDE DEF v
  <1>2. Traps(v) = Traps(w)
    BY <1>1 DEF Traps
  <1>3. \A p \in Traps(w) : v[p] = w[p]
    BY <1>1 DEF Traps
  <1> QED
    BY <1>2, <1>3 DEF v

LEMMA OrderedStays ==
    ASSUME NEW w, NEW v, NEW g, Ordered(w, g),
           Traps(v) = Traps(w), \A p \in Traps(w) : v[p] = w[p]
    PROVE  Ordered(v, g)
  <1>1. ASSUME NEW af \in AF, NEW i \in AskedIn(g, af)
        PROVE  v[DueIn(g, i)] = w[DueIn(g, i)]
    <2>1. DueIn(g, i) \in Traps(w)
      BY DEF Ordered
    <2> QED
      BY <2>1
  <1> QED
    BY <1>1 DEF Ordered

LEMMA DoneInOrder ==
    ASSUME IInv, OptDone
    PROVE  InOrder'
  <1>1. /\ have = Nothing /\ lists \in PrefixLists /\ given \in Seq(Gift)
        /\ Matches(lists, given)
    BY DEF IInv, Told, OrderInv, OptDone
  <1>2. want' = InitialWants /\ given' = given
    BY DEF OptDone, options
  <1> DEFINE e == Entries("onload")
  <1>3. e = Held(lists) /\ e \in Seq(PrefixEntry)
    BY <1>1, EntriesTypes DEF Entries, Held
  <1> HIDE DEF e
  <1>4. PICK h : Follows(h, e, given)
    BY <1>1, <1>3 DEF Matches
  <1>5. SUFFICES ASSUME Fits PROVE Ordered(InitialWants, given)
    <2>1. Ordered(want, given)' <=> Ordered(InitialWants, given)
      BY <1>2
    <2> QED
      BY <1>2, <1>5, <2>1 DEF InOrder, Fits
  <1>6. Fit(e)
    <2>1. SUFFICES ASSUME NEW j \in 1..Len(e)
                   PROVE  TrapBase + Rank(e, j - 1, e[j].af) < Width
      BY DEF Fit
    <2>2. Rank(e, j - 1, e[j].af) < Len(given)
      BY <1>1, <1>3, <1>4, SameRank
    <2>3. Rank(e, j - 1, e[j].af) \in Nat
      <3>1. j \in Nat \ {0}
        BY <1>3
      <3> HIDE DEF Rank
      <3> QED
        BY <3>1, RankGrows
    <2>4. Len(given) \in Nat
      BY <1>1
    <2> QED
      BY <1>5, <2>2, <2>3, <2>4, BasesAssumption DEF Fits
  <1>7. Ranked(InitialWants, e, Len(e))
    BY <1>1, <1>6, InitialSorted DEF e
  <1> QED
    BY <1>1, <1>3, <1>4, <1>7, RankedIsOrdered

LEMMA NextInOrder ==
    ASSUME IInv, InOrder, [Next]_vars
    PROVE  InOrder'
  <1>1. ASSUME Traps(want') = Traps(want), \A p \in Traps(want) : want'[p] = want[p],
               phase' = phase, given' = given
        PROVE  InOrder'
    <2>1. Ordered(want, given) => Ordered(want', given)
      BY <1>1, OrderedStays
    <2>2. Ordered(want, given)' <=> Ordered(want', given)
      BY <1>1
    <2> QED
      BY <1>1, <2>1, <2>2 DEF InOrder, Fits
  <1>2. CASE OptDone
    BY <1>2, DoneInOrder
  <1>3. CASE ReadOption /\ ~OptDone
    <2>1. phase' # "running"
      BY <1>3 DEF ReadOption, OptTable, OptIface, OptAddPrefix, OptLoadPrefix, OptMode,
                  OptSkipHw, OptWrong, OptEnd, More, Bail, Next_option
    <2> QED
      BY <2>1 DEF InOrder
  <1>4. CASE \E t \in Forward, chain \in ChainBase..(ChainBase + 1) : NewTarget(t, chain)
    <2>1. PICK t \in Forward, chain \in ChainBase..(ChainBase + 1) : NewTarget(t, chain)
      BY <1>4
    <2> DEFINE rule == tc_rule_set_type_and_traits(
                           [tc_rule_init(config.flower_flags) EXCEPT
                               !.vlan_id = t.vlan, !.lladdr = t.lladdr, !.af_addr.af = t.af],
                           "FORWARD")
    <2>2. rule.type # "ROUTE_TRAP"
      BY DEF tc_rule_set_type_and_traits, tc_rule_set_type, tc_rule_init, Zeroed
    <2>3. want' = Placed(want, <<chain, 1>>, rule) /\ phase' = phase /\ given' = given
      BY <2>1 DEF NewTarget, options
    <2> HIDE DEF rule
    <2> QED
      BY <1>1, <2>2, <2>3, PlacedKeepsTraps
  <1>5. CASE \E d \in Dest, t \in Wanted("FORWARD") : NewRoute(d, t)
    <2>1. PICK d \in Dest, t \in Wanted("FORWARD") : NewRoute(d, t)
      BY <1>5
    <2> DEFINE rule == tc_rule_set_type_and_traits(
                           [tc_rule_init(config.flower_flags) EXCEPT
                               !.goto_target = t[1],
                               !.af_addr = Addr(d.af, d.mask_len, d.cells)],
                           "ROUTE_GOTO")
    <2>2. rule.type # "ROUTE_TRAP"
      BY DEF tc_rule_set_type_and_traits, tc_rule_set_type, tc_rule_init, Zeroed
    <2>3. want' = Placed(want, RoutePlace(d), rule) /\ phase' = phase /\ given' = given
      BY <2>1 DEF NewRoute, options
    <2> HIDE DEF rule
    <2> QED
      BY <1>1, <2>2, <2>3, PlacedKeepsTraps
  <1>6. CASE Found \/ Uninstall \/ Install \/ UNCHANGED vars
    <2>1. want' = want /\ phase' = phase /\ given' = given
      BY <1>6 DEF Found, Uninstall, Install, options, vars
    <2>2. Traps(want') = Traps(want)
      BY <2>1
    <2> QED
      BY <1>1, <2>1, <2>2
  <1> QED
    BY <1>2, <1>3, <1>4, <1>5, <1>6 DEF Next

\* onload_store_prefix, sched_basic_place_prefix_list: as long as there are
\* priorities for them, the traps are those the user asked for, in the order of
\* the command line and the files, and they stay so whatever comes later.
THEOREM TrapsKeepOrder == Spec => [](Fits => TrapsInOrder)
  <1>1. Init => IInv /\ InOrder
    <2>1. Init => phase # "running"
      BY DEF Init
    <2> QED
      BY <2>1, InitOrder DEF InOrder
  <1>2. IInv /\ InOrder /\ [Next]_vars => (IInv /\ InOrder)'
    BY NextOrder, NextInOrder
  <1>3. InOrder => (Fits => TrapsInOrder)
    <2>1. \A af : AskedIn(given, af) = Asked(af)
      BY DEF AskedIn, Asked
    <2>2. \A i : DueIn(given, i) = Due(i)
      BY <2>1 DEF DueIn, Due
    <2>3. Traps(want) = Wanted("ROUTE_TRAP")
      BY DEF Traps, Wanted
    <2> QED
      BY <2>1, <2>2, <2>3 DEF InOrder, Ordered, TrapsInOrder
  <1> QED
    BY <1>1, <1>2, <1>3, PTL DEF Spec
-----------------------------------------------------------------------------
(* Rules, field by field. *)

\* A rule by its fields.
Fields(type, vlan_id, flags, goto, traits, addr, lladdr) ==
    [type |-> type, vlan_id |-> vlan_id, flower_flags |-> flags, goto_target |-> goto,
     traits |-> traits, af_addr |-> addr, lladdr |-> lladdr]

NoLladdr == Copied(<<>>, 6)

LEMMA NoLladdrIsZero == NoLladdr = [i \in 1..6 |-> 0]
  <1>1. Len(<<>>) = 0
    OBVIOUS
  <1> DEFINE none == <<>>
  <1>2. NoLladdr = [i \in 1..6 |-> IF i <= Len(none) THEN none[i] ELSE 0]
    BY DEF NoLladdr, Copied
  <1>3. \A i \in 1..6 : ~(i <= Len(none))
    BY <1>1
  <1> HIDE DEF none
  <1> QED
    BY <1>2, <1>3

LEMMA NoLladdrFits == NoLladdr \in [1..6 -> Cell]
  <1>1. 0 \in Cell
    BY DEF Cell
  <1> HIDE DEF Cell
  <1>2. [i \in 1..6 |-> 0] \in [1..6 -> Cell]
    BY <1>1
  <1> QED
    BY <1>2, NoLladdrIsZero

LEMMA FieldsAre ==
    ASSUME NEW type, NEW vid, NEW flags, NEW goto, NEW traits, NEW addr, NEW lladdr
    PROVE  LET r == Fields(type, vid, flags, goto, traits, addr, lladdr)
           IN  /\ r.type = type /\ r.vlan_id = vid /\ r.flower_flags = flags
               /\ r.goto_target = goto /\ r.traits = traits /\ r.af_addr = addr
               /\ r.lladdr = lladdr
  BY DEF Fields

\* Changes that the decoder makes.
OfType(r, type)         == [r EXCEPT !.type = type]
Flagged(r, flags)       == [r EXCEPT !.flower_flags = flags]
With(r, traits)         == [r EXCEPT !.traits = traits]
AfSet(a, af)            == [a EXCEPT !.af = af]
WithAf(r, traits, af)   == [r EXCEPT !.traits = traits, !.af_addr.af = af]
WithAddr(r, traits, a)  == [r EXCEPT !.traits = traits, !.af_addr = a]
WithGoto(r, traits, to) == [r EXCEPT !.traits = traits, !.goto_target = to]
WithCells(r, traits, i, x, j, y) ==
    [r EXCEPT !.traits = traits, !.lladdr[i] = x, !.lladdr[j] = y]
WithVlan(r, traits, id) == [r EXCEPT !.traits = traits, !.vlan_id = id]

LEMMA OneFieldChanges ==
    ASSUME NEW type, NEW vid, NEW flags, NEW goto, NEW traits, NEW addr, NEW lladdr, NEW new
    PROVE  LET r == Fields(type, vid, flags, goto, traits, addr, lladdr)
           IN  /\ OfType(r, new) = Fields(new, vid, flags, goto, traits, addr, lladdr)
               /\ Flagged(r, new) = Fields(type, vid, new, goto, traits, addr, lladdr)
               /\ With(r, new) = Fields(type, vid, flags, goto, new, addr, lladdr)
  BY DEF Fields, OfType, Flagged, With

LEMMA TwoFieldsChange ==
    ASSUME NEW type, NEW vid, NEW flags, NEW goto, NEW traits, NEW addr, NEW lladdr,
           NEW new, NEW a
    PROVE  LET r == Fields(type, vid, flags, goto, traits, addr, lladdr)
           IN  /\ WithAddr(r, new, a) = Fields(type, vid, flags, goto, new, a, lladdr)
               /\ WithAf(r, new, a)
                      = Fields(type, vid, flags, goto, new, AfSet(addr, a), lladdr)
               /\ WithGoto(r, new, a) = Fields(type, vid, flags, a, new, addr, lladdr)
               /\ WithVlan(r, new, a) = Fields(type, a, flags, goto, new, addr, lladdr)
  <1> DEFINE r == Fields(type, vid, flags, goto, traits, addr, lladdr)
             q == Fields(type, vid, flags, goto, new, addr, lladdr)
  <1>1. [r EXCEPT !.traits = new] = q
    BY DEF Fields
  <1>2. /\ [q EXCEPT !.af_addr = a] = Fields(type, vid, flags, goto, new, a, lladdr)
        /\ [q EXCEPT !.af_addr.af = a]
               = Fields(type, vid, flags, goto, new, [addr EXCEPT !.af = a], lladdr)
        /\ [q EXCEPT !.goto_target = a] = Fields(type, vid, flags, a, new, addr, lladdr)
        /\ [q EXCEPT !.vlan_id = a] = Fields(type, a, flags, goto, new, addr, lladdr)
    BY DEF Fields
  <1> HIDE DEF r, q
  <1>3. /\ WithAddr(r, new, a) = [[r EXCEPT !.traits = new] EXCEPT !.af_addr = a]
        /\ WithAf(r, new, a) = [[r EXCEPT !.traits = new] EXCEPT !.af_addr.af = a]
        /\ WithGoto(r, new, a) = [[r EXCEPT !.traits = new] EXCEPT !.goto_target = a]
        /\ WithVlan(r, new, a) = [[r EXCEPT !.traits = new] EXCEPT !.vlan_id = a]
    BY DEF WithAddr, WithAf, WithGoto, WithVlan
  <1> QED
    BY <1>1, <1>2, <1>3 DEF r, AfSet

LEMMA CellsChange ==
    ASSUME NEW type, NEW vid, NEW flags, NEW goto, NEW traits, NEW addr, NEW lladdr,
           NEW new, NEW i, NEW x, NEW j, NEW y
    PROVE  WithCells(Fields(type, vid, flags, goto, traits, addr, lladdr), new, i, x, j, y)
               = Fields(type, vid, flags, goto, new, addr, [lladdr EXCEPT ![i] = x, ![j] = y])
  <1> DEFINE r == Fields(type, vid, flags, goto, traits, addr, lladdr)
             q == Fields(type, vid, flags, goto, new, addr, lladdr)
             one == [lladdr EXCEPT ![i] = x]
             two == [one EXCEPT ![j] = y]
             p == Fields(type, vid, flags, goto, new, addr, one)
  <1>1. [r EXCEPT !.traits = new] = q
    BY DEF Fields
  <1>2. [q EXCEPT !.lladdr = one] = p /\ q.lladdr = lladdr
    BY DEF Fields
  <1>3. [p EXCEPT !.lladdr = two] = Fields(type, vid, flags, goto, new, addr, two) /\ p.lladdr = one
    BY DEF Fields
  <1>4. [lladdr EXCEPT ![i] = x, ![j] = y] = two
    OBVIOUS
  <1> HIDE DEF r, q, p
  <1>5. WithCells(r, new, i, x, j, y)
            = [[[r EXCEPT !.traits = new] EXCEPT !.lladdr[i] = x] EXCEPT !.lladdr[j] = y]
    BY DEF WithCells
  <1>6. [q EXCEPT !.lladdr[i] = x] = [q EXCEPT !.lladdr = [q.lladdr EXCEPT ![i] = x]]
    OBVIOUS
  <1>7. [p EXCEPT !.lladdr[j] = y] = [p EXCEPT !.lladdr = [p.lladdr EXCEPT ![j] = y]]
    OBVIOUS
  <1>8. [q EXCEPT !.lladdr[i] = x] = p
    BY <1>2, <1>6
  <1>9. [p EXCEPT !.lladdr[j] = y] = Fields(type, vid, flags, goto, new, addr, two)
    BY <1>3, <1>7
  <1> QED
    BY <1>1, <1>4, <1>5, <1>8, <1>9 DEF r

LEMMA OctetValues ==
    /\ (255 * 2^8) % 256 = 0 /\ (255 * 2^7) % 256 = 128 /\ (255 * 2^6) % 256 = 192
    /\ (255 * 2^5) % 256 = 224 /\ (255 * 2^4) % 256 = 240 /\ (255 * 2^3) % 256 = 248
    /\ (255 * 2^2) % 256 = 252 /\ (255 * 2^1) % 256 = 254
  OBVIOUS

LEMMA MatchedTraits ==
    ASSUME NEW t \in DOMAIN type_traits
    PROVE  {u \in DOMAIN type_traits : type_traits[u] = type_traits[t]} = {t}
  BY DEF type_traits

\* One action, or one key, after others.
LEMMA Joined ==
    ASSUME NEW S, NEW s \in Seq(S), NEW e \in S
    PROVE  /\ s \o <<e>> \in Seq(S)
           /\ Len(s \o <<e>>) = Len(s) + 1
           /\ \A k \in 1..Len(s) : (s \o <<e>>)[k] = s[k]
           /\ (s \o <<e>>)[Len(s) + 1] = e
  <1> DEFINE t == <<e>>
  <1>1. t \in Seq(S) /\ Len(t) = 1 /\ t[1] = e
    OBVIOUS
  <1>2. t \in Seq(S)
    BY <1>1
  <1> HIDE DEF t
  <1>3. /\ s \o t \in Seq(S) /\ Len(s \o t) = Len(s) + Len(t)
        /\ \A k \in 1..Len(s) : (s \o t)[k] = s[k]
        /\ \A k \in 1..Len(t) : (s \o t)[Len(s) + k] = t[k]
    BY <1>2, ConcatPoints
  <1>4. Len(s) \in Nat
    OBVIOUS
  <1>5. /\ s \o t \in Seq(S)
        /\ Len(s \o t) = Len(s) + 1
        /\ \A k \in 1..Len(s) : (s \o t)[k] = s[k]
        /\ (s \o t)[Len(s) + 1] = e
    BY <1>1, <1>3, <1>4
  <1> QED
    BY <1>5 DEF t

\* A sequence of four.
LEMMA FourLong ==
    ASSUME NEW S, NEW s \in Seq(S), Len(s) = 4
    PROVE  DOMAIN s = 1..4 /\ s # <<>>
  <1>1. DOMAIN s = 1..4
    OBVIOUS
  <1>2. 1 \in DOMAIN s
    BY <1>1
  <1>3. DOMAIN <<>> = {}
    OBVIOUS
  <1>4. s # <<>>
    BY <1>2, <1>3
  <1> QED
    BY <1>1, <1>4

\* What decode_flower makes of the actions, when every step is known.
LEMMA ActsRead ==
    ASSUME NEW acts, NEW n \in Nat \ {0}, Len(acts) = n, acts # <<>>, NEW w,
           w[0] = Zeroed, \A i \in 1..n : w[i] = decode_act(w[i - 1], acts[i])
    PROVE  decode_acts(acts) = w[n]
  <1> DEFINE Body(f) == [i \in 0..Len(acts) |->
                            IF i = 0 THEN Zeroed ELSE decode_act(f[i - 1], acts[i])]
             read == CHOOSE f : f = Body(f)
             g == [i \in 0..n |-> w[i]]
  <1>1. decode_acts(acts) = read[n]
    BY DEF decode_acts
  <1>2. g = Body(g)
    <2>1. \A i \in 0..n : g[i] = IF i = 0 THEN Zeroed ELSE decode_act(g[i - 1], acts[i])
      <3>1. \A i \in 0..n : i = 0 \/ (i \in 1..n /\ i - 1 \in 0..n)
        OBVIOUS
      <3> QED
        BY <3>1
    <2>2. g = [i \in 0..n |-> g[i]]
      OBVIOUS
    <2> HIDE DEF g
    <2> QED
      BY <2>1, <2>2
  <1>3. read = Body(read)
    <2> HIDE DEF Body, g
    <2> QED
      BY <1>2
  <1> HIDE DEF read
  <1>4. \A i \in 0..n : read[i] = IF i = 0 THEN Zeroed ELSE decode_act(read[i - 1], acts[i])
    BY <1>3, Zenon
  <1> HIDE DEF Body
  <1> DEFINE In == {i \in Nat : i <= n => read[i] = w[i]}
  <1>5. 0 \in In
    <2>1. 0 \in 0..n
      OBVIOUS
    <2> QED
      BY <1>4, <2>1
  <1>6. ASSUME NEW i \in Nat, i \in In PROVE i + 1 \in In
    <2>1. SUFFICES ASSUME i + 1 <= n PROVE read[i + 1] = w[i + 1]
      OBVIOUS
    <2>2. i + 1 \in 0..n /\ i + 1 \in 1..n /\ i + 1 # 0 /\ (i + 1) - 1 = i /\ i <= n
      BY <2>1
    <2>3. read[i] = w[i]
      BY <1>6, <2>2
    <2> QED
      BY <1>4, <2>2, <2>3
  <1>7. n \in In
    <2> HIDE DEF In
    <2> QED
      BY <1>5, <1>6, SetInduction
  <1> QED
    BY <1>1, <1>7

\* What decode_nlattr_tc_act_pedit_cb makes of keys it all understands.
LEMMA KeysRead ==
    ASSUME NEW rule, NEW act, NEW n \in Nat \ {0}, DOMAIN act.keys = 1..n, act.keys # <<>>, NEW w,
           \A i \in 1..n : KnownKey(act.keys[i]),
           w[0] = rule, \A i \in 1..n : w[i] = pedit_key(w[i - 1], act.keys[i])
    PROVE  pedit(rule, act) = w[n]
  <1> DEFINE bad  == {i \in DOMAIN act.keys : ~KnownKey(act.keys[i])}
             good == {i \in DOMAIN act.keys : \A j \in bad : i < j}
             Body(f) == [i \in 0..Cardinality(good) |->
                            IF i = 0 THEN rule ELSE pedit_key(f[i - 1], act.keys[i])]
             read == CHOOSE f : f = Body(f)
             g == [i \in 0..n |-> w[i]]
  <1>1. bad = {} /\ good = 1..n
    OBVIOUS
  <1>2. Cardinality(good) = n
    <2>1. Cardinality(1..n) = n
      BY FS_Interval
    <2> QED
      BY <1>1, <2>1
  <1>3. pedit(rule, act) = read[n]
    <2>2. pedit(rule, act) = IF bad # {} \/ act.keys = <<>>
                             THEN tc_rule_mark_alien(read[Cardinality(good)])
                             ELSE read[Cardinality(good)]
      BY DEF pedit
    <2> HIDE DEF bad, good, read
    <2> QED
      BY <1>1, <1>2, <2>2
  <1> HIDE DEF bad, good
  <1>4. g = Body(g)
    <2>1. \A i \in 0..n : g[i] = IF i = 0 THEN rule ELSE pedit_key(g[i - 1], act.keys[i])
      <3>1. \A i \in 0..n : i = 0 \/ (i \in 1..n /\ i - 1 \in 0..n)
        OBVIOUS
      <3> QED
        BY <3>1
    <2>2. g = [i \in 0..n |-> g[i]]
      OBVIOUS
    <2> HIDE DEF g
    <2> QED
      BY <1>2, <2>1, <2>2
  <1>5. read = Body(read)
    <2> HIDE DEF Body, g
    <2> QED
      BY <1>4
  <1> HIDE DEF read
  <1>6. \A i \in 0..n : read[i] = IF i = 0 THEN rule ELSE pedit_key(read[i - 1], act.keys[i])
    BY <1>2, <1>5, Zenon
  <1> HIDE DEF Body
  <1> DEFINE In == {i \in Nat : i <= n => read[i] = w[i]}
  <1>7. 0 \in In
    <2>1. 0 \in 0..n
      OBVIOUS
    <2> QED
      BY <1>6, <2>1
  <1>8. ASSUME NEW i \in Nat, i \in In PROVE i + 1 \in In
    <2>1. SUFFICES ASSUME i + 1 <= n PROVE read[i + 1] = w[i + 1]
      OBVIOUS
    <2>2. i + 1 \in 0..n /\ i + 1 \in 1..n /\ i + 1 # 0 /\ (i + 1) - 1 = i /\ i <= n
      BY <2>1
    <2>3. read[i] = w[i]
      BY <1>8, <2>2
    <2> QED
      BY <1>6, <2>2, <2>3
  <1>9. n \in In
    <2> HIDE DEF In
    <2> QED
      BY <1>7, <1>8, SetInduction
  <1> QED
    BY <1>3, <1>9

-----------------------------------------------------------------------------
(* Masks. *)

\* An octet with k ones in front.
Octet(k) == (255 * 2^(8 - k)) % 256

LEMMA Octets ==
    /\ Octet(0) = 0 /\ Octet(1) = 128 /\ Octet(2) = 192 /\ Octet(3) = 224
    /\ Octet(4) = 240 /\ Octet(5) = 248 /\ Octet(6) = 252 /\ Octet(7) = 254
  <1>1. /\ 8 - 0 = 8 /\ 8 - 1 = 7 /\ 8 - 2 = 6 /\ 8 - 3 = 5
        /\ 8 - 4 = 4 /\ 8 - 5 = 3 /\ 8 - 6 = 2 /\ 8 - 7 = 1
    OBVIOUS
  <1> QED
    BY <1>1, OctetValues DEF Octet

LEMMA OctetsDiffer ==
    ASSUME NEW j \in 0..7, NEW k \in 0..7, Octet(j) = Octet(k)
    PROVE  j = k
  <1>1. /\ j \in {0, 1, 2, 3, 4, 5, 6, 7} /\ k \in {0, 1, 2, 3, 4, 5, 6, 7}
    OBVIOUS
  <1> QED
    BY <1>1, Octets

LEMMA OctetBounds ==
    ASSUME NEW k \in 0..7
    PROVE  Octet(k) # 255 /\ (Octet(k) = 0 => k = 0) /\ OnesOf(Octet(k)) = {k}
  <1>1. k \in {0, 1, 2, 3, 4, 5, 6, 7}
    OBVIOUS
  <1>2. Octet(k) # 255 /\ (Octet(k) = 0 => k = 0)
    BY <1>1, Octets
  <1>3. OnesOf(Octet(k)) = {j \in 0..7 : Octet(k) = Octet(j)}
    BY DEF OnesOf, Octet
  <1>4. \A j \in 0..7 : Octet(k) = Octet(j) => j = k
    BY OctetsDiffer
  <1> QED
    BY <1>2, <1>3, <1>4

MaskOf(mask, n, len) ==
    /\ IsMask(mask) /\ count_ones(mask) = len /\ DOMAIN mask = 1..n
    /\ (\A i \in 1..n : mask[i] = 0) <=> len = 0

\* count_ones reads back what tce_build_mask writes.
LEMMA MaskRead ==
    ASSUME NEW n \in {4, 16}, NEW len \in 0..(8 * n)
    PROVE  MaskOf(tce_build_mask(n, len), n, len)
  <1> DEFINE mask == tce_build_mask(n, len)
  <1>1. PICK q \in 0..n, r \in 0..7 : len = 8 * q + r /\ (q = n => r = 0)
    <2>1. \E q \in 0..16, r \in 0..7 : len = 8 * q + r
      OBVIOUS
    <2> QED
      BY <2>1
  <1>2. ASSUME NEW i \in 1..n
        PROVE  mask[i] = IF i <= q THEN 255 ELSE IF i = q + 1 THEN Octet(r) ELSE 0
    <2> DEFINE host == 8 * i - len
    <2>1. mask[i] = IF host >= 8 THEN 0 ELSE IF host <= 0 THEN 255 ELSE (255 * 2^host) % 256
      BY DEF tce_build_mask
    <2>2. CASE i <= q
      BY <1>1, <2>1, <2>2
    <2>3. CASE i = q + 1 /\ r = 0
      <3>1. host >= 8
        BY <1>1, <2>3
      <3> QED
        BY <2>1, <2>3, <3>1, Octets
    <2>4. CASE i = q + 1 /\ r # 0
      <3>1. host = 8 - r /\ ~(host >= 8) /\ ~(host <= 0)
        BY <1>1, <2>4
      <3> HIDE DEF host
      <3>2. mask[i] = (255 * 2^host) % 256
        BY <2>1, <3>1
      <3> QED
        BY <1>1, <2>4, <3>1, <3>2 DEF Octet
    <2>5. CASE i > q + 1
      <3>1. host >= 8
        BY <1>1, <2>5
      <3> QED
        BY <1>1, <2>1, <2>5, <3>1
    <2> QED
      BY <1>1, <2>2, <2>3, <2>4, <2>5
  <1>3. DOMAIN mask = 1..n
    BY DEF tce_build_mask
  <1>4. Len(mask) = n
    <2> HIDE DEF mask
    <2> QED
      BY <1>3
  <1> HIDE DEF mask
  <1>5. \A i \in 1..n : (\A j \in 1..i : mask[j] = 255) <=> i <= q
    BY <1>1, <1>2, OctetBounds
  <1>6. LeadingFull(mask) = q
    <2>1. {i \in DOMAIN mask : \A j \in 1..i : mask[j] = 255} = 1..q
      BY <1>1, <1>3, <1>5
    <2>2. Cardinality(1..q) = q
      BY <1>1, FS_Interval
    <2> QED
      BY <2>1, <2>2 DEF LeadingFull
  <1>7. (\A i \in 1..n : mask[i] = 0) <=> len = 0
    BY <1>1, <1>2, OctetBounds, Octets
  <1>8. CASE q = n
    <2>1. IsMask(mask) /\ count_ones(mask) = 8 * q
      BY <1>1, <1>4, <1>6, <1>8 DEF IsMask, count_ones
    <2> QED
      BY <1>1, <1>3, <1>7, <1>8, <2>1 DEF mask, MaskOf
  <1>9. CASE q # n
    <2>1. q + 1 \in 1..n /\ mask[q + 1] = Octet(r)
      BY <1>1, <1>2, <1>9
    <2>2. OnesOf(mask[q + 1]) = {r}
      BY <1>1, <2>1, OctetBounds
    <2>3. IsMask(mask)
      BY <1>6, <2>2 DEF IsMask
    <2>4. count_ones(mask) = 8 * q + CHOOSE k \in {r} : TRUE
      BY <1>4, <1>6, <1>9, <2>2, <2>3 DEF count_ones
    <2>5. (CHOOSE k \in {r} : TRUE) = r
      OBVIOUS
    <2> QED
      BY <1>1, <1>3, <1>7, <2>3, <2>4, <2>5 DEF mask, MaskOf
  <1> QED
    BY <1>8, <1>9

-----------------------------------------------------------------------------
(* Rules there and back. *)

LEMMA Detected ==
    ASSUME NEW r, NEW t \in {"FORWARD", "TTL_CHECK", "ROUTE_GOTO", "ROUTE_TRAP"},
           r.traits = type_traits[t]
    PROVE  tc_rule_detect(r) = tc_rule_set_type(r, t)
  <1> DEFINE found == {u \in DOMAIN type_traits : type_traits[u] = r.traits}
  <1>1. t \in DOMAIN type_traits /\ t # "ROUTE_DFT_GOTO"
    BY DEF type_traits
  <1>2. found = {t}
    BY <1>1, MatchedTraits
  <1>3. (CHOOSE u \in {t} : TRUE) = t
    OBVIOUS
  <1> QED
    BY <1>1, <1>2, <1>3 DEF tc_rule_detect

LEMMA DetectedDefault ==
    ASSUME NEW r, r.traits = type_traits["ROUTE_DFT_GOTO"]
    PROVE  tc_rule_detect(r) = tc_rule_set_type([r EXCEPT !.traits = type_traits["ROUTE_GOTO"]],
                                                "ROUTE_GOTO")
  <1> DEFINE t == "ROUTE_DFT_GOTO"
             found == {u \in DOMAIN type_traits : type_traits[u] = r.traits}
  <1>1. t \in DOMAIN type_traits
    BY DEF type_traits
  <1>2. found = {t}
    BY <1>1, MatchedTraits
  <1> QED
    BY <1>2 DEF tc_rule_detect

Hw == {"SKIP_SW", "IN_HW"}

LEMMA DumpedFields ==
    ASSUME NEW r, r.flower_flags = Hw
    PROVE  LET f == Dumped(tc_encode_rule(r))
               g == tc_encode_rule(r)
           IN  /\ f.kind = "flower" /\ f.flags = Hw
               /\ f.eth_type = r.af_addr.af /\ f.vlan_eth_type = r.af_addr.af
               /\ f.ttl = IF r.type = "TTL_CHECK" THEN 1 ELSE 0
               /\ f.acts = Actions(r)
               /\ f.dst = IF \A i \in DOMAIN g.dst.mask : g.dst.mask[i] = 0 THEN NoDst ELSE g.dst
  <1> DEFINE g == tc_encode_rule(r)
             f == Dumped(g)
  <1>1. /\ g.kind = "flower" /\ g.flags = Hw \ {"IN_HW"} /\ g.eth_type = "8021Q"
        /\ g.vlan_eth_type = r.af_addr.af /\ g.acts = Actions(r)
        /\ g.ttl = IF r.type = "TTL_CHECK" THEN 1 ELSE 0
        /\ DOMAIN g = {"kind", "flags", "eth_type", "vlan_eth_type", "ttl", "dst", "acts"}
    BY DEF tc_encode_rule
  <1> HIDE DEF g
  <1>2. /\ f.kind = "flower" /\ f.eth_type = r.af_addr.af /\ f.vlan_eth_type = r.af_addr.af
        /\ f.ttl = g.ttl /\ f.acts = Actions(r)
    BY <1>1 DEF Dumped
  <1>3. f.dst = IF \A i \in DOMAIN g.dst.mask : g.dst.mask[i] = 0 THEN NoDst ELSE g.dst
    BY <1>1 DEF Dumped
  <1>4. f.flags = Hw
    BY <1>1 DEF Dumped, Hw
  <1> QED
    BY <1>1, <1>2, <1>3, <1>4 DEF g

LEMMA ZeroedFields == Zeroed = Fields("UNSPEC", 0, {}, 0, {}, NoAddr, NoLladdr)
  BY DEF Zeroed, Fields, NoLladdr

\* A filter with one action.
LEMMA OneAct ==
    ASSUME NEW act
    PROVE  decode_acts(<<act>>) = decode_act(Zeroed, act)
  <1> DEFINE acts == <<act>>
             w == [i \in 0..1 |-> IF i = 0 THEN Zeroed ELSE decode_act(Zeroed, act)]
  <1>1. Len(acts) = 1 /\ acts # <<>> /\ acts[1] = act
    OBVIOUS
  <1>2. w[0] = Zeroed /\ w[1] = decode_act(Zeroed, act)
    OBVIOUS
  <1>3. 1..1 = {1} /\ 1 - 1 = 0
    OBVIOUS
  <1> DEFINE n == 1
  <1> HIDE DEF acts, w
  <1>4. \A i \in 1..n : w[i] = decode_act(w[i - 1], acts[i])
    BY <1>1, <1>2, <1>3
  <1>5. n \in Nat \ {0} /\ Len(acts) = n /\ acts # <<>> /\ w[0] = Zeroed
    BY <1>1, <1>2
  <1> HIDE DEF n
  <1>6. decode_acts(acts) = w[n]
    BY <1>4, <1>5, ActsRead
  <1> QED
    BY <1>2, <1>6 DEF acts, n

\* An address without a destination.
OnlyAf(af) == AfSet(NoAddr, af)

\* decode_filter of a rule that has been read as its traits say.
LEMMA ReadAs ==
    ASSUME NEW f, f.kind = "flower", NEW type \in {"FORWARD", "TTL_CHECK", "ROUTE_GOTO", "ROUTE_TRAP"},
           NEW vid, NEW flags, NEW goto, NEW addr, NEW lladdr,
           decode_flower(f) = Fields("UNSPEC", vid, flags, goto, type_traits[type], addr, lladdr)
    PROVE  decode_filter(f) = Fields(type, vid, flags, goto, type_traits[type], addr, lladdr)
  <1> DEFINE d == decode_flower(f)
  <1>1. d.traits = type_traits[type] /\ d.type = "UNSPEC"
    BY FieldsAre
  <1>2. decode_filter(f) = tc_rule_detect(d)
    BY DEF decode_filter
  <1>3. tc_rule_detect(d) = OfType(d, type)
    <2> HIDE DEF d
    <2> QED
      BY <1>1, Detected DEF tc_rule_set_type, OfType
  <1> QED
    BY <1>2, <1>3, OneFieldChanges

\* request_ttl_check's rule.
LEMMA CheckReadBack ==
    ASSUME NEW af \in AF, NEW r,
           r = Fields("TTL_CHECK", 0, Hw, 0, type_traits["TTL_CHECK"], OnlyAf(af), NoLladdr)
    PROVE  decode_filter(Dumped(tc_encode_rule(r))) = r
  <1> DEFINE f == Dumped(tc_encode_rule(r))
  <1>1. /\ r.flower_flags = Hw /\ r.type = "TTL_CHECK" /\ r.af_addr = OnlyAf(af)
    BY FieldsAre
  <1>2. r.af_addr.af = af
    BY <1>1 DEF OnlyAf, AfSet, NoAddr, Addr
  <1>3. tc_encode_rule(r).dst = NoDst
    BY <1>1 DEF tc_encode_rule
  <1>4. /\ f.kind = "flower" /\ f.flags = Hw /\ f.eth_type = af /\ f.vlan_eth_type = af
        /\ f.ttl = 1 /\ f.acts = <<Gact(<<"trap">>)>> /\ f.dst = NoDst
    <2>1. Actions(r) = <<Gact(<<"trap">>)>>
      BY <1>1 DEF Actions
    <2> QED
      BY <1>1, <1>2, <1>3, <2>1, DumpedFields
  <1> HIDE DEF f
  <1> DEFINE z == Fields("UNSPEC", 0, {}, 0, {"TRAP"}, NoAddr, NoLladdr)
             a == Fields("UNSPEC", 0, Hw, 0, {"TRAP"}, NoAddr, NoLladdr)
             b == Fields("UNSPEC", 0, Hw, 0, {"TRAP", "TTL_CHECK"}, NoAddr, NoLladdr)
             e == Fields("UNSPEC", 0, Hw, 0, type_traits["TTL_CHECK"], OnlyAf(af), NoLladdr)
  <1>5. decode_acts(f.acts) = z
    <2>1. decode_act(Zeroed, Gact(<<"trap">>)) = With(Zeroed, Zeroed.traits \union {"TRAP"})
      BY DEF decode_act, gact, Gact, With
    <2>2. Zeroed.traits \union {"TRAP"} = {"TRAP"}
      BY DEF Zeroed
    <2> QED
      BY <1>4, <2>1, <2>2, OneAct, ZeroedFields, OneFieldChanges
  <1>6. Flagged(z, f.flags) = a /\ b = With(a, a.traits \union {"TTL_CHECK"})
    <2>1. a.traits \union {"TTL_CHECK"} = {"TRAP", "TTL_CHECK"}
      BY DEF Fields
    <2> QED
      BY <1>4, <2>1, OneFieldChanges
  <1>7. e = WithAf(b, b.traits \union {"AF"}, af)
    <2> DEFINE more == b.traits \union {"AF"}
    <2>1. more = type_traits["TTL_CHECK"]
      <3>1. b.traits = {"TRAP", "TTL_CHECK"}
        BY FieldsAre
      <3> QED
        BY <3>1 DEF type_traits
    <2> HIDE DEF more
    <2>2. WithAf(b, more, af) = e
      BY <2>1, TwoFieldsChange DEF OnlyAf
    <2> QED
      BY <2>2 DEF more
  <1> HIDE DEF z, a, b, e
  <1>8. decode_flower(f) = e
    <2>1. [decode_acts(f.acts) EXCEPT !.flower_flags = f.flags] = a
      BY <1>5, <1>6 DEF Flagged
    <2>2. decode_ttl(a, f) = b
      BY <1>4, <1>6 DEF decode_ttl, With
    <2>3. decode_dst(b, f) = e
      BY <1>4, <1>7 DEF decode_dst, WithAf
    <2> QED
      BY <2>1, <2>2, <2>3 DEF decode_flower
  <1> QED
    BY <1>4, <1>8, ReadAs DEF e, f


\* Destinations that are wanted.
Dst == {a \in [af : AF, mask_len : 0..128, pad : Cell, in : [1..8 -> Cell]] :
           /\ a.mask_len <= MaxMask(a.af)
           /\ \A i \in 1..8 : i > AddrCells(a.af) => a.in[i] = 0}

\* A piece of memory is a sequence, and so is its start.
LEMMA Memory ==
    ASSUME NEW S, NEW f \in [1..8 -> S], NEW n \in 1..8
    PROVE  /\ SubSeq(f, 1, n) \in Seq(S) /\ Len(SubSeq(f, 1, n)) = n
           /\ \A i \in 1..n : SubSeq(f, 1, n)[i] = f[i]
  <1>1. \A i \in 1..n : f[i] \in S
    OBVIOUS
  <1> QED
    BY <1>1, SubSeqProperties

\* The address and its mask, there and back.
LEMMA DstReadBack ==
    ASSUME NEW a \in Dst, a.pad = 0, a.mask_len # 0, NEW r, r.af_addr = a
    PROVE  LET d == tce_match_prefix(r)
           IN  /\ d # NoDst /\ ~(\A i \in DOMAIN d.mask : d.mask[i] = 0)
               /\ IsMask(d.mask)
               /\ Addr(a.af, count_ones(d.mask), d.addr) = a
  <1> DEFINE n == AddrCells(a.af)
             d == tce_match_prefix(r)
             len == a.mask_len
             cells == SubSeq(a.in, 1, n)
  <1>1. /\ a.af \in AF /\ n \in 1..8 /\ 2 * n \in {4, 16} /\ len \in 0..(8 * (2 * n))
        /\ a.in \in [1..8 -> Cell] /\ \A i \in 1..8 : i > n => a.in[i] = 0
    BY DEF Dst, AF, AddrCells, MaxMask
  <1>2. a = [af |-> a.af, mask_len |-> len, pad |-> 0, in |-> a.in]
    BY DEF Dst
  <1>3. d = [addr |-> cells, mask |-> tce_build_mask(2 * n, len)]
    BY DEF tce_match_prefix
  <1>4. /\ Len(cells) = n
        /\ \A i \in 1..n : cells[i] = a.in[i]
    <2> DEFINE in == a.in
    <2>1. n \in 1..8 /\ in \in [1..8 -> Cell]
      BY <1>1
    <2> HIDE DEF in, n, Cell
    <2>2. Len(SubSeq(in, 1, n)) = n /\ \A i \in 1..n : SubSeq(in, 1, n)[i] = in[i]
      BY <2>1, Memory
    <2> QED
      BY <2>2 DEF in
  <1> DEFINE mask == tce_build_mask(2 * n, len)
             m == 2 * n
  <1>5. /\ IsMask(mask) /\ count_ones(mask) = len /\ DOMAIN mask = 1..m
        /\ (\A i \in 1..m : mask[i] = 0) <=> len = 0
    <2>1. m \in {4, 16} /\ len \in 0..(8 * m) /\ mask = tce_build_mask(m, len)
      BY <1>1
    <2> HIDE DEF m, mask, len, n
    <2>2. MaskOf(tce_build_mask(m, len), m, len)
      BY <2>1, MaskRead
    <2> QED
      BY <2>1, <2>2 DEF MaskOf
  <1> HIDE DEF n, d, cells, mask, m
  <1>6. mask # <<>>
    <2>1. 1 \in DOMAIN mask
      BY <1>1, <1>5 DEF m
    <2> QED
      BY <2>1
  <1>7. d.addr = cells /\ d.mask = mask
    BY <1>3 DEF mask
  <1>8. d # NoDst
    BY <1>6, <1>7 DEF NoDst
  <1>9. Copied(cells, 8) = a.in
    <2>1. \A i \in 1..8 : (IF i <= Len(cells) THEN cells[i] ELSE 0) = a.in[i]
      BY <1>1, <1>4
    <2> QED
      BY <1>1, <2>1 DEF Copied
  <1>10. Addr(a.af, count_ones(d.mask), d.addr) = a
    BY <1>2, <1>5, <1>7, <1>9 DEF Addr
  <1> QED
    BY <1>5, <1>7, <1>8, <1>10 DEF d

\* A rule with a destination and one action, which has the trait `has'.
LEMMA DstRuleReadBack ==
    ASSUME NEW a \in Dst, a.pad = 0, a.mask_len # 0,
           NEW type \in {"ROUTE_TRAP", "ROUTE_GOTO"}, NEW goto, NEW act, NEW has,
           NEW r, r = Fields(type, 0, Hw, goto, type_traits[type], a, NoLladdr),
           Actions(r) = <<act>>,
           decode_act(Zeroed, act) = Fields("UNSPEC", 0, {}, goto, {has}, NoAddr, NoLladdr),
           type_traits[type] = {"AF", "IP", has}
    PROVE  decode_filter(Dumped(tc_encode_rule(r))) = r
  <1> DEFINE f == Dumped(tc_encode_rule(r))
             dst == tce_match_prefix(r)
  <1>1. r.flower_flags = Hw /\ r.type = type /\ r.af_addr = a
    BY FieldsAre
  <1>2. /\ dst # NoDst /\ ~(\A i \in DOMAIN dst.mask : dst.mask[i] = 0) /\ IsMask(dst.mask)
        /\ Addr(a.af, count_ones(dst.mask), dst.addr) = a
    BY <1>1, DstReadBack
  <1>3. tc_encode_rule(r).dst = dst
    BY <1>1 DEF tc_encode_rule
  <1>4. a.af \in AF
    BY DEF Dst
  <1>5. /\ f.kind = "flower" /\ f.flags = Hw /\ f.eth_type = a.af /\ f.vlan_eth_type = a.af
        /\ f.ttl = 0 /\ f.acts = <<act>> /\ f.dst = dst
    <2> HIDE DEF dst
    <2> QED
      BY <1>1, <1>2, <1>3, DumpedFields
  <1> HIDE DEF f, dst
  <1> DEFINE z == Fields("UNSPEC", 0, {}, goto, {has}, NoAddr, NoLladdr)
             b == Fields("UNSPEC", 0, Hw, goto, {has}, NoAddr, NoLladdr)
             both == {has, "AF"}
             c == Fields("UNSPEC", 0, Hw, goto, both, OnlyAf(a.af), NoLladdr)
             e == Fields("UNSPEC", 0, Hw, goto, type_traits[type], a, NoLladdr)
  <1>6. decode_acts(f.acts) = z
    BY <1>5, OneAct
  <1>7. Flagged(z, f.flags) = b
    BY <1>5, OneFieldChanges
  <1>8. c = WithAf(b, b.traits \union {"AF"}, a.af)
    <2> DEFINE more == b.traits \union {"AF"}
    <2>1. more = both
      <3>1. b.traits = {has}
        BY FieldsAre
      <3> QED
        BY <3>1
    <2> HIDE DEF more, both
    <2>2. WithAf(b, more, a.af) = c
      BY <2>1, TwoFieldsChange DEF OnlyAf
    <2> QED
      BY <2>2 DEF more
  <1>9. e = WithAddr(c, c.traits \union {"IP"}, a)
    <2> DEFINE more == c.traits \union {"IP"}
    <2>1. more = type_traits[type]
      <3>1. c.traits = {has, "AF"}
        BY FieldsAre
      <3> QED
        BY <3>1
    <2> HIDE DEF more, both
    <2>2. WithAddr(c, more, a) = e
      BY <2>1, TwoFieldsChange
    <2> QED
      BY <2>2 DEF more
  <1> HIDE DEF z, b, c, e
  <1>10. decode_flower(f) = e
    <2>1. [decode_acts(f.acts) EXCEPT !.flower_flags = f.flags] = b
      BY <1>6, <1>7 DEF Flagged
    <2>2. decode_ttl(b, f) = b
      BY <1>5 DEF decode_ttl
    <2>3. decode_dst(b, f) = e
      <3>1. decode_dst(b, f) = [c EXCEPT !.traits = c.traits \union {"IP"}, !.af_addr = a]
        BY <1>2, <1>4, <1>5, <1>8 DEF decode_dst, WithAf
      <3> QED
        BY <1>9, <3>1 DEF WithAddr
    <2> QED
      BY <2>1, <2>2, <2>3 DEF decode_flower
  <1> QED
    BY <1>5, <1>10, ReadAs DEF e, f

LEMMA TrapReadBack ==
    ASSUME NEW a \in Dst, a.pad = 0, a.mask_len # 0,
           NEW r, r = Fields("ROUTE_TRAP", 0, Hw, 0, type_traits["ROUTE_TRAP"], a, NoLladdr)
    PROVE  decode_filter(Dumped(tc_encode_rule(r))) = r
  <1> DEFINE act == Gact(<<"trap">>)
             new == Zeroed.traits \union {"TRAP"}
             one == {"TRAP"}
  <1>1. r.type = "ROUTE_TRAP"
    BY FieldsAre
  <1>2. Actions(r) = <<act>>
    BY <1>1 DEF Actions
  <1>3. decode_act(Zeroed, act) = With(Zeroed, new)
    BY DEF decode_act, gact, Gact, With
  <1>4. new = one
    BY DEF Zeroed
  <1>5. decode_act(Zeroed, act) = Fields("UNSPEC", 0, {}, 0, one, NoAddr, NoLladdr)
    <2> HIDE DEF act, new, one
    <2> QED
      BY <1>3, <1>4, ZeroedFields, OneFieldChanges
  <1>6. type_traits["ROUTE_TRAP"] = {"AF", "IP", "TRAP"}
    BY DEF type_traits
  <1> HIDE DEF act
  <1> QED
    BY <1>2, <1>5, <1>6, DstRuleReadBack

LEMMA GotoActs ==
    ASSUME NEW r, r.type = "ROUTE_GOTO"
    PROVE  /\ Actions(r) = <<Gact(<<"goto", r.goto_target>>)>>
           /\ decode_act(Zeroed, Gact(<<"goto", r.goto_target>>))
                  = Fields("UNSPEC", 0, {}, r.goto_target, {"GOTO"}, NoAddr, NoLladdr)
  <1> DEFINE to == r.goto_target
             act == Gact(<<"goto", to>>)
             new == Zeroed.traits \union {"GOTO"}
             one == {"GOTO"}
  <1>2. Actions(r) = <<act>>
    BY DEF Actions
  <1>3. decode_act(Zeroed, act) = WithGoto(Zeroed, new, to)
    BY DEF decode_act, gact, Gact, WithGoto
  <1>4. new = one
    BY DEF Zeroed
  <1>5. decode_act(Zeroed, act) = Fields("UNSPEC", 0, {}, to, one, NoAddr, NoLladdr)
    <2> HIDE DEF act, new, one
    <2> QED
      BY <1>3, <1>4, ZeroedFields, TwoFieldsChange
  <1> QED
    BY <1>2, <1>5

\* A default route has no destination in its filter, and tc_rule_detect knows.
LEMMA DefaultReadBack ==
    ASSUME NEW af \in AF, NEW goto,
           NEW r, r = Fields("ROUTE_GOTO", 0, Hw, goto, type_traits["ROUTE_GOTO"],
                             OnlyAf(af), NoLladdr)
    PROVE  decode_filter(Dumped(tc_encode_rule(r))) = r
  <1> DEFINE f == Dumped(tc_encode_rule(r))
             dst == tce_match_prefix(r)
             act == Gact(<<"goto", goto>>)
  <1>1. r.flower_flags = Hw /\ r.type = "ROUTE_GOTO" /\ r.af_addr = OnlyAf(af) /\ r.goto_target = goto
    BY FieldsAre
  <1>2. r.af_addr.af = af /\ r.af_addr.mask_len = 0
    BY <1>1 DEF OnlyAf, AfSet, NoAddr, Addr
  <1>3. tc_encode_rule(r).dst = dst
    BY <1>1 DEF tc_encode_rule
  <1>4. \A i \in DOMAIN dst.mask : dst.mask[i] = 0
    <2> DEFINE m == 2 * AddrCells(af)
               len == 0
    <2>1. m \in {4, 16} /\ len \in 0..(8 * m)
      BY DEF AF, AddrCells
    <2>2. dst.mask = tce_build_mask(m, len)
      BY <1>2 DEF tce_match_prefix
    <2> HIDE DEF m, len
    <2>3. MaskOf(dst.mask, m, len)
      BY <2>1, <2>2, MaskRead
    <2> QED
      BY <2>3 DEF MaskOf, len
  <1>5. Actions(r) = <<act>> /\ decode_act(Zeroed, act)
                                    = Fields("UNSPEC", 0, {}, goto, {"GOTO"}, NoAddr, NoLladdr)
    BY <1>1, GotoActs
  <1>6. /\ f.kind = "flower" /\ f.flags = Hw /\ f.eth_type = af /\ f.vlan_eth_type = af
        /\ f.ttl = 0 /\ f.acts = <<act>> /\ f.dst = NoDst
    <2> HIDE DEF dst, act
    <2> QED
      BY <1>1, <1>2, <1>3, <1>4, <1>5, DumpedFields
  <1> HIDE DEF f, dst, act
  <1> DEFINE one == {"GOTO"}
             z == Fields("UNSPEC", 0, {}, goto, one, NoAddr, NoLladdr)
             b == Fields("UNSPEC", 0, Hw, goto, one, NoAddr, NoLladdr)
             e == Fields("UNSPEC", 0, Hw, goto, type_traits["ROUTE_DFT_GOTO"], OnlyAf(af), NoLladdr)
             g == Fields("UNSPEC", 0, Hw, goto, type_traits["ROUTE_GOTO"], OnlyAf(af), NoLladdr)
  <1>7. decode_acts(f.acts) = z
    BY <1>5, <1>6, OneAct
  <1>8. Flagged(z, f.flags) = b
    BY <1>6, OneFieldChanges
  <1>9. e = WithAf(b, b.traits \union {"AF"}, af)
    <2> DEFINE more == b.traits \union {"AF"}
    <2>1. more = type_traits["ROUTE_DFT_GOTO"]
      <3>1. b.traits = {"GOTO"}
        BY FieldsAre
      <3> QED
        BY <3>1 DEF type_traits
    <2> HIDE DEF more, one
    <2>2. WithAf(b, more, af) = e
      BY <2>1, TwoFieldsChange DEF OnlyAf
    <2> QED
      BY <2>2 DEF more
  <1>10. e.traits = type_traits["ROUTE_DFT_GOTO"]
    BY FieldsAre
  <1>11. With(e, type_traits["ROUTE_GOTO"]) = g /\ g.type = "UNSPEC" /\ OfType(g, "ROUTE_GOTO") = r
    BY OneFieldChanges, FieldsAre
  <1> HIDE DEF z, b, e, g
  <1>12. decode_flower(f) = e
    <2>1. [decode_acts(f.acts) EXCEPT !.flower_flags = f.flags] = b
      BY <1>7, <1>8 DEF Flagged
    <2>2. decode_ttl(b, f) = b
      BY <1>6 DEF decode_ttl
    <2>3. decode_dst(b, f) = e
      BY <1>6, <1>9 DEF decode_dst, WithAf
    <2> QED
      BY <2>1, <2>2, <2>3 DEF decode_flower
  <1>13. decode_filter(f) = tc_rule_detect(e)
    BY <1>6, <1>12 DEF decode_filter
  <1>14. tc_rule_detect(e) = tc_rule_set_type(With(e, type_traits["ROUTE_GOTO"]), "ROUTE_GOTO")
    BY <1>10, DetectedDefault DEF With
  <1> QED
    BY <1>11, <1>13, <1>14 DEF tc_rule_set_type, OfType, f

LEMMA GotoReadBack ==
    ASSUME NEW a \in Dst, a.pad = 0, a.mask_len = 0 => a.in = Copied(<<>>, 8), NEW goto,
           NEW r, r = Fields("ROUTE_GOTO", 0, Hw, goto, type_traits["ROUTE_GOTO"], a, NoLladdr)
    PROVE  decode_filter(Dumped(tc_encode_rule(r))) = r
  <1>1. r.type = "ROUTE_GOTO" /\ r.goto_target = goto
    BY FieldsAre
  <1>2. CASE a.mask_len # 0
    <2> DEFINE act == Gact(<<"goto", goto>>)
    <2>1. /\ Actions(r) = <<act>>
          /\ decode_act(Zeroed, act) = Fields("UNSPEC", 0, {}, goto, {"GOTO"}, NoAddr, NoLladdr)
      BY <1>1, GotoActs
    <2>2. type_traits["ROUTE_GOTO"] = {"AF", "IP", "GOTO"}
      BY DEF type_traits
    <2> HIDE DEF act
    <2> QED
      BY <1>2, <2>1, <2>2, DstRuleReadBack
  <1>3. CASE a.mask_len = 0
    <2>1. a.af \in AF /\ a = [af |-> a.af, mask_len |-> 0, pad |-> 0, in |-> Copied(<<>>, 8)]
      BY <1>3 DEF Dst
    <2>2. a = OnlyAf(a.af)
      BY <2>1 DEF OnlyAf, AfSet, NoAddr, Addr
    <2> QED
      BY <2>1, <2>2, DefaultReadBack
  <1> QED
    BY <1>2, <1>3

-----------------------------------------------------------------------------
(* Rules of targets. *)

EthWord(r, i) == Key("ETH", "set", 4 * (i - 1), SubSeq(r.lladdr, 2 * i - 1, 2 * i))

\* The four keys that tce_pedit_action writes.
LEMMA KeysWritten ==
    ASSUME NEW r
    PROVE  /\ tce_pedit_action(r).kind = "pedit"
           /\ DOMAIN tce_pedit_action(r).keys = 1..4 /\ tce_pedit_action(r).keys # <<>>
           /\ \A i \in 1..3 : tce_pedit_action(r).keys[i] = EthWord(r, i)
           /\ tce_pedit_action(r).keys[4].htype \in {"IP4", "IP6"}
           /\ tce_pedit_action(r).keys[4].cmd = "add"
  <1> DEFINE words == [i \in 1..3 |-> EthWord(r, i)]
             last == IF r.af_addr.af = 4 THEN Key("IP4", "add", 8, <<65280, 0>>)
                                         ELSE Key("IP6", "add", 4, <<0, 255>>)
             keys == words \o <<last>>
             S == {EthWord(r, i) : i \in 1..3} \union {last}
  <1>1. tce_pedit_action(r).kind = "pedit" /\ tce_pedit_action(r).keys = keys
    BY DEF tce_pedit_action, Pedit, EthWord
  <1>2. last.htype \in {"IP4", "IP6"} /\ last.cmd = "add"
    BY DEF Key
  <1>3. \A i \in 1..3 : words[i] = EthWord(r, i)
    OBVIOUS
  <1>4. \A i \in 1..3 : words[i] \in S
    OBVIOUS
  <1>5. last \in S
    OBVIOUS
  <1>6. words = [i \in 1..3 |-> words[i]]
    OBVIOUS
  <1> HIDE DEF last, S, words
  <1>7. words \in Seq(S) /\ Len(words) = 3
    BY <1>4, <1>6
  <1>8. /\ keys \in Seq(S) /\ Len(keys) = 4 /\ keys[4] = last
        /\ \A k \in 1..3 : keys[k] = words[k]
    <2>1. words \in Seq(S)
      BY <1>7
    <2>2. /\ words \o <<last>> \in Seq(S)
          /\ Len(words \o <<last>>) = Len(words) + 1
          /\ \A k \in 1..Len(words) : (words \o <<last>>)[k] = words[k]
          /\ (words \o <<last>>)[Len(words) + 1] = last
      BY <1>5, <2>1, Joined
    <2> QED
      BY <1>7, <2>2
  <1> HIDE DEF keys
  <1>9. DOMAIN keys = 1..4 /\ keys # <<>>
    <2>1. keys \in Seq(S) /\ Len(keys) = 4
      BY <1>8
    <2>2. keys \in Seq(S)
      BY <2>1
    <2> QED
      BY <2>1, <2>2, FourLong
  <1> QED
    BY <1>1, <1>2, <1>3, <1>8, <1>9

\* The three words of the link layer address come back in their places.
LEMMA WordRead ==
    ASSUME NEW S, NEW f \in [1..6 -> S], NEW i \in {1, 3, 5}
    PROVE  SubSeq(f, i, i + 1)[1] = f[i] /\ SubSeq(f, i, i + 1)[2] = f[i + 1]
  <1>1. \A k \in i..(i + 1) : f[k] \in S
    OBVIOUS
  <1>2. i \in Int /\ i + 1 \in Int
    OBVIOUS
  <1>3. \A k \in 1..(i + 1) - i + 1 : SubSeq(f, i, i + 1)[k] = f[i + k - 1]
    BY <1>1, <1>2, SubSeqProperties
  <1>4. 1 \in 1..(i + 1) - i + 1 /\ 2 \in 1..(i + 1) - i + 1 /\ i + 1 - 1 = i /\ i + 2 - 1 = i + 1
    OBVIOUS
  <1> QED
    BY <1>3, <1>4

\* What is known of a rule while its actions are read.
Partly(vid, traits, lladdr) == Fields("UNSPEC", vid, {}, 0, traits, NoAddr, lladdr)

LEMMA EthKeyRead ==
    ASSUME NEW vid, NEW old, NEW new, old \union {"LLADDR"} = new, NEW l, NEW key,
           key.htype = "ETH", NEW i, key.off \div 2 + 1 = i, NEW j, key.off \div 2 + 2 = j,
           NEW x, key.val[1] = x, NEW y, key.val[2] = y
    PROVE  pedit_key(Partly(vid, old, l), key) = Partly(vid, new, [l EXCEPT ![i] = x, ![j] = y])
  <1> DEFINE q == Partly(vid, old, l)
             more == q.traits \union {"LLADDR"}
  <1>1. q.traits = old
    BY FieldsAre DEF Partly
  <1>2. more = new
    BY <1>1
  <1> HIDE DEF q
  <1>3. pedit_key(q, key) = WithCells(q, more, i, x, j, y)
    BY DEF pedit_key, WithCells
  <1> HIDE DEF more
  <1>4. WithCells(q, new, i, x, j, y) = Partly(vid, new, [l EXCEPT ![i] = x, ![j] = y])
    BY CellsChange DEF q, Partly
  <1> QED
    BY <1>2, <1>3, <1>4 DEF q

LEMMA TtlKeyRead ==
    ASSUME NEW vid, NEW old, NEW new, old \union {"TTL_DEC"} = new, NEW l, NEW key,
           key.htype # "ETH"
    PROVE  pedit_key(Partly(vid, old, l), key) = Partly(vid, new, l)
  <1> DEFINE q == Partly(vid, old, l)
             more == q.traits \union {"TTL_DEC"}
  <1>1. q.traits = old
    BY FieldsAre DEF Partly
  <1>2. more = new
    BY <1>1
  <1> HIDE DEF q
  <1>3. pedit_key(q, key) = With(q, more)
    BY DEF pedit_key, With
  <1> HIDE DEF more
  <1>4. With(q, new) = Partly(vid, new, l)
    BY OneFieldChanges DEF q, Partly
  <1> QED
    BY <1>2, <1>3, <1>4 DEF q

\* The words, as the decoder finds them.
LEMMA EthWords ==
    ASSUME NEW ll \in [1..6 -> Cell], NEW r, r.lladdr = ll
    PROVE  /\ \A i \in 1..3 : KnownKey(EthWord(r, i)) /\ EthWord(r, i).htype = "ETH"
           /\ EthWord(r, 1).off = 0 /\ EthWord(r, 2).off = 4 /\ EthWord(r, 3).off = 8
           /\ EthWord(r, 1).val[1] = ll[1] /\ EthWord(r, 1).val[2] = ll[2]
           /\ EthWord(r, 2).val[1] = ll[3] /\ EthWord(r, 2).val[2] = ll[4]
           /\ EthWord(r, 3).val[1] = ll[5] /\ EthWord(r, 3).val[2] = ll[6]
  <1>1. /\ \A i \in 1..3 : EthWord(r, i).htype = "ETH" /\ EthWord(r, i).cmd = "set"
        /\ EthWord(r, 1).off = 0 /\ EthWord(r, 2).off = 4 /\ EthWord(r, 3).off = 8
    BY DEF EthWord, Key
  <1>2. \A i \in 1..3 : KnownKey(EthWord(r, i))
    <2>1. \A i \in 1..3 : i \in {1, 2, 3}
      OBVIOUS
    <2> QED
      BY <1>1, <2>1 DEF KnownKey
  <1>3. /\ EthWord(r, 1).val = SubSeq(ll, 1, 1 + 1) /\ EthWord(r, 2).val = SubSeq(ll, 3, 3 + 1)
        /\ EthWord(r, 3).val = SubSeq(ll, 5, 5 + 1)
    BY DEF EthWord, Key
  <1>4. /\ SubSeq(ll, 1, 1 + 1)[1] = ll[1] /\ SubSeq(ll, 1, 1 + 1)[2] = ll[1 + 1]
        /\ SubSeq(ll, 3, 3 + 1)[1] = ll[3] /\ SubSeq(ll, 3, 3 + 1)[2] = ll[3 + 1]
        /\ SubSeq(ll, 5, 5 + 1)[1] = ll[5] /\ SubSeq(ll, 5, 5 + 1)[2] = ll[5 + 1]
    <2>1. 1 \in {1, 3, 5} /\ 3 \in {1, 3, 5} /\ 5 \in {1, 3, 5}
      OBVIOUS
    <2> HIDE DEF Cell
    <2>2. \A i \in {1, 3, 5} : SubSeq(ll, i, i + 1)[1] = ll[i] /\ SubSeq(ll, i, i + 1)[2] = ll[i + 1]
      BY WordRead
    <2> QED
      BY <2>1, <2>2
  <1>5. 1 + 1 = 2 /\ 3 + 1 = 4 /\ 5 + 1 = 6
    OBVIOUS
  <1> QED
    BY <1>1, <1>2, <1>3, <1>4, <1>5

\* Three words make the address.
LEMMA WordsFill ==
    ASSUME NEW S, NEW zero \in [1..6 -> S], NEW ll \in [1..6 -> S]
    PROVE  [[[zero EXCEPT ![1] = ll[1], ![2] = ll[2]]
                   EXCEPT ![3] = ll[3], ![4] = ll[4]]
                   EXCEPT ![5] = ll[5], ![6] = ll[6]] = ll
  OBVIOUS

\* decode_nlattr_tc_act_pedit_cb of what tce_pedit_action wrote.
LEMMA PeditRead ==
    ASSUME NEW ll \in [1..6 -> Cell], NEW r, r.lladdr = ll, NEW vid
    PROVE  decode_act(Partly(vid, {"VLAN_MOD"}, NoLladdr), tce_pedit_action(r))
               = Partly(vid, {"VLAN_MOD", "LLADDR", "TTL_DEC"}, ll)
  <1> DEFINE act == tce_pedit_action(r)
             t0 == {"VLAN_MOD"}
             t1 == {"VLAN_MOD", "LLADDR"}
             t2 == {"VLAN_MOD", "LLADDR", "TTL_DEC"}
             L1 == [NoLladdr EXCEPT ![1] = ll[1], ![2] = ll[2]]
             L2 == [L1 EXCEPT ![3] = ll[3], ![4] = ll[4]]
             L3 == [L2 EXCEPT ![5] = ll[5], ![6] = ll[6]]
             w0 == Partly(vid, t0, NoLladdr)
             w1 == Partly(vid, t1, L1)
             w2 == Partly(vid, t1, L2)
             w3 == Partly(vid, t1, L3)
             w4 == Partly(vid, t2, L3)
             w == [i \in 0..4 |-> IF i = 0 THEN w0 ELSE IF i = 1 THEN w1 ELSE
                                  IF i = 2 THEN w2 ELSE IF i = 3 THEN w3 ELSE w4]
  <1>1. /\ act.kind = "pedit" /\ DOMAIN act.keys = 1..4 /\ act.keys # <<>>
        /\ \A i \in 1..3 : act.keys[i] = EthWord(r, i)
        /\ act.keys[4].htype \in {"IP4", "IP6"} /\ act.keys[4].cmd = "add"
    BY KeysWritten
  <1> HIDE DEF act
  <1>2. t0 \union {"LLADDR"} = t1 /\ t1 \union {"LLADDR"} = t1 /\ t1 \union {"TTL_DEC"} = t2
    OBVIOUS
  <1>3. L3 = ll
    <2>1. NoLladdr \in [1..6 -> Cell]
      BY NoLladdrFits
    <2> HIDE DEF Cell
    <2> QED
      BY <2>1, WordsFill
  <1> HIDE DEF t0, t1, t2
  <1>4. pedit_key(w0, EthWord(r, 1)) = w1
    <2>1. 0 \div 2 + 1 = 1 /\ 0 \div 2 + 2 = 2
      OBVIOUS
    <2>2. /\ EthWord(r, 1).htype = "ETH" /\ EthWord(r, 1).off = 0
          /\ EthWord(r, 1).val[1] = ll[1] /\ EthWord(r, 1).val[2] = ll[2]
      BY EthWords
    <2> QED
      BY <1>2, <2>1, <2>2, EthKeyRead
  <1>5. pedit_key(w1, EthWord(r, 2)) = w2
    <2>1. 4 \div 2 + 1 = 3 /\ 4 \div 2 + 2 = 4
      OBVIOUS
    <2>2. /\ EthWord(r, 2).htype = "ETH" /\ EthWord(r, 2).off = 4
          /\ EthWord(r, 2).val[1] = ll[3] /\ EthWord(r, 2).val[2] = ll[4]
      BY EthWords
    <2> HIDE DEF L1
    <2> QED
      BY <1>2, <2>1, <2>2, EthKeyRead
  <1>6. pedit_key(w2, EthWord(r, 3)) = w3
    <2>1. 8 \div 2 + 1 = 5 /\ 8 \div 2 + 2 = 6
      OBVIOUS
    <2>2. /\ EthWord(r, 3).htype = "ETH" /\ EthWord(r, 3).off = 8
          /\ EthWord(r, 3).val[1] = ll[5] /\ EthWord(r, 3).val[2] = ll[6]
      BY EthWords
    <2> HIDE DEF L2
    <2> QED
      BY <1>2, <2>1, <2>2, EthKeyRead
  <1>7. pedit_key(w3, act.keys[4]) = w4
    <2>1. act.keys[4].htype # "ETH"
      BY <1>1
    <2> HIDE DEF L3
    <2> QED
      BY <1>2, <2>1, TtlKeyRead
  <1> HIDE DEF w0, w1, w2, w3, w4
  <1>8. w[0] = w0 /\ w[1] = w1 /\ w[2] = w2 /\ w[3] = w3 /\ w[4] = w4
    OBVIOUS
  <1> HIDE DEF w
  <1>9. \A i \in 1..4 : i \in {1, 2, 3, 4}
    OBVIOUS
  <1>10. \A i \in 1..4 : KnownKey(act.keys[i])
    <2>1. \A i \in 1..3 : KnownKey(act.keys[i])
      BY <1>1, EthWords
    <2>2. KnownKey(act.keys[4])
      BY <1>1 DEF KnownKey
    <2> QED
      BY <1>9, <2>1, <2>2
  <1>11. \A i \in 1..4 : w[i] = pedit_key(w[i - 1], act.keys[i])
    <2>1. 1 - 1 = 0 /\ 2 - 1 = 1 /\ 3 - 1 = 2 /\ 4 - 1 = 3
      OBVIOUS
    <2> QED
      BY <1>1, <1>4, <1>5, <1>6, <1>7, <1>8, <1>9, <2>1
  <1>12. pedit(w0, act) = w[4]
    <2>1. 4 \in Nat \ {0}
      OBVIOUS
    <2> DEFINE n == 4
    <2>2. /\ n \in Nat \ {0} /\ DOMAIN act.keys = 1..n /\ act.keys # <<>>
          /\ \A i \in 1..n : KnownKey(act.keys[i])
          /\ \A i \in 1..n : w[i] = pedit_key(w[i - 1], act.keys[i])
      BY <1>1, <1>10, <1>11, <2>1
    <2> HIDE DEF n, L1, L2, L3
    <2>3. n \in Nat \ {0} /\ w[0] = w0
      BY <1>8, <2>2
    <2>4. pedit(w0, act) = w[n]
      BY <2>2, <2>3, KeysRead
    <2> QED
      BY <2>4 DEF n
  <1>13. decode_act(w0, act) = pedit(w0, act)
    BY <1>1 DEF decode_act
  <1>14. decode_act(w0, act) = w4
    BY <1>8, <1>12, <1>13
  <1> HIDE DEF L3
  <1> QED
    BY <1>3, <1>14 DEF w0, w4, t0, t2, act

LEMMA ThreeActs ==
    ASSUME NEW a, NEW b, NEW c
    PROVE  LET s == <<a, b>> \o <<>> \o <<c>>
           IN  Len(s) = 3 /\ s # <<>> /\ s[1] = a /\ s[2] = b /\ s[3] = c
  OBVIOUS

LEMMA FourActs ==
    ASSUME NEW a, NEW b, NEW c, NEW d
    PROVE  LET s == <<a, b>> \o <<c>> \o <<d>>
           IN  Len(s) = 4 /\ s # <<>> /\ s[1] = a /\ s[2] = b /\ s[3] = c /\ s[4] = d
  OBVIOUS

\* decode_nlattr_tc_act_vlan_cb of the tag that is modified.
LEMMA VlanRead ==
    ASSUME NEW vid, vid # 0
    PROVE  decode_act(Zeroed, Vlan("modify", vid)) = Partly(vid, {"VLAN_MOD"}, NoLladdr)
  <1> DEFINE act == Vlan("modify", vid)
             more == Zeroed.traits \union {"VLAN_MOD"}
             one == {"VLAN_MOD"}
  <1>1. act.kind = "vlan" /\ act.action = "modify" /\ act.id = vid
    BY DEF Vlan
  <1> HIDE DEF act
  <1>2. decode_act(Zeroed, act) = WithVlan(Zeroed, more, vid)
    BY <1>1 DEF decode_act, vlan, WithVlan
  <1>3. more = one
    BY DEF Zeroed
  <1> HIDE DEF more, one
  <1>4. WithVlan(Zeroed, one, vid) = Partly(vid, one, NoLladdr)
    BY ZeroedFields, TwoFieldsChange DEF Partly
  <1> QED
    BY <1>2, <1>3, <1>4 DEF act, one

\* The checksum and the redirect say nothing of the rule.
LEMMA RestRead ==
    ASSUME NEW r
    PROVE  decode_act(r, Csum) = r /\ decode_act(r, Mirred("redirect")) = r
  BY DEF decode_act, Csum, Mirred, mirred

LEMMA ForwardActsRead ==
    ASSUME NEW r, r.type = "FORWARD", NEW vid, r.vlan_id = vid, vid # 0,
           NEW ll \in [1..6 -> Cell], r.lladdr = ll
    PROVE  decode_acts(Actions(r)) = Partly(vid, {"VLAN_MOD", "LLADDR", "TTL_DEC"}, ll)
  <1> DEFINE act1 == Vlan("modify", vid)
             act2 == tce_pedit_action(r)
             last == Mirred("redirect")
             w1 == Partly(vid, {"VLAN_MOD"}, NoLladdr)
             w2 == Partly(vid, {"VLAN_MOD", "LLADDR", "TTL_DEC"}, ll)
             w == [i \in 0..4 |-> IF i = 0 THEN Zeroed ELSE IF i = 1 THEN w1 ELSE w2]
             acts == Actions(r)
  <1>1. decode_act(Zeroed, act1) = w1
    BY VlanRead
  <1>2. decode_act(w1, act2) = w2
    BY PeditRead
  <1>3. decode_act(w2, Csum) = w2 /\ decode_act(w2, last) = w2
    BY RestRead
  <1>4. acts = <<act1, act2>> \o (IF r.af_addr.af = 4 THEN <<Csum>> ELSE <<>>) \o <<last>>
    BY DEF Actions, tce_add_ip_forward_rule
  <1> HIDE DEF acts, act1, act2, last, w1, w2
  <1>5. w[0] = Zeroed /\ w[1] = w1 /\ w[2] = w2 /\ w[3] = w2 /\ w[4] = w2
    OBVIOUS
  <1> HIDE DEF w
  <1>6. 1 - 1 = 0 /\ 2 - 1 = 1 /\ 3 - 1 = 2 /\ 4 - 1 = 3
    OBVIOUS
  <1>7. CASE r.af_addr.af = 4
    <2> DEFINE n == 4
    <2>1. acts = <<act1, act2>> \o <<Csum>> \o <<last>>
      BY <1>4, <1>7
    <2>2. /\ Len(acts) = 4 /\ acts # <<>>
          /\ acts[1] = act1 /\ acts[2] = act2 /\ acts[3] = Csum /\ acts[4] = last
      BY <2>1, FourActs
    <2>3. \A i \in 1..4 : i \in {1, 2, 3, 4}
      OBVIOUS
    <2>4. \A i \in 1..n : w[i] = decode_act(w[i - 1], acts[i])
      BY <1>1, <1>2, <1>3, <1>5, <1>6, <2>2, <2>3
    <2>5. n \in Nat \ {0} /\ Len(acts) = n /\ acts # <<>> /\ w[0] = Zeroed
      BY <1>5, <2>2
    <2> HIDE DEF n
    <2>6. decode_acts(acts) = w[n]
      BY <2>4, <2>5, ActsRead
    <2> QED
      BY <1>5, <2>6 DEF n, acts, w2
  <1>8. CASE r.af_addr.af # 4
    <2> DEFINE n == 3
    <2>1. acts = <<act1, act2>> \o <<>> \o <<last>>
      BY <1>4, <1>8
    <2>2. Len(acts) = 3 /\ acts # <<>> /\ acts[1] = act1 /\ acts[2] = act2 /\ acts[3] = last
      BY <2>1, ThreeActs
    <2>3. \A i \in 1..3 : i \in {1, 2, 3}
      OBVIOUS
    <2>4. \A i \in 1..n : w[i] = decode_act(w[i - 1], acts[i])
      BY <1>1, <1>2, <1>3, <1>5, <1>6, <2>2, <2>3
    <2>5. n \in Nat \ {0} /\ Len(acts) = n /\ acts # <<>> /\ w[0] = Zeroed
      BY <1>5, <2>2
    <2> HIDE DEF n
    <2>6. decode_acts(acts) = w[n]
      BY <2>4, <2>5, ActsRead
    <2> QED
      BY <1>5, <2>6 DEF n, acts, w2
  <1> QED
    BY <1>7, <1>8

\* obj_target_prepare_rule's rule.
LEMMA ForwardReadBack ==
    ASSUME NEW af \in AF, NEW vid, vid # 0, NEW ll \in [1..6 -> Cell],
           NEW r, r = Fields("FORWARD", vid, Hw, 0, type_traits["FORWARD"], OnlyAf(af), ll)
    PROVE  decode_filter(Dumped(tc_encode_rule(r))) = r
  <1> DEFINE f == Dumped(tc_encode_rule(r))
  <1>1. /\ r.flower_flags = Hw /\ r.type = "FORWARD" /\ r.af_addr = OnlyAf(af)
        /\ r.vlan_id = vid /\ r.lladdr = ll
    BY FieldsAre
  <1>2. r.af_addr.af = af
    BY <1>1 DEF OnlyAf, AfSet, NoAddr, Addr
  <1>3. tc_encode_rule(r).dst = NoDst
    BY <1>1 DEF tc_encode_rule
  <1>4. /\ f.kind = "flower" /\ f.flags = Hw /\ f.eth_type = af /\ f.vlan_eth_type = af
        /\ f.ttl = 0 /\ f.acts = Actions(r) /\ f.dst = NoDst
    BY <1>1, <1>2, <1>3, DumpedFields
  <1> HIDE DEF f
  <1> DEFINE three == {"VLAN_MOD", "LLADDR", "TTL_DEC"}
             z == Partly(vid, three, ll)
             a == Fields("UNSPEC", vid, Hw, 0, three, NoAddr, ll)
             e == Fields("UNSPEC", vid, Hw, 0, type_traits["FORWARD"], OnlyAf(af), ll)
  <1>5. decode_acts(f.acts) = z
    BY <1>1, <1>4, ForwardActsRead
  <1>6. Flagged(z, f.flags) = a
    BY <1>4, OneFieldChanges DEF Partly
  <1>7. e = WithAf(a, a.traits \union {"AF"}, af)
    <2> DEFINE more == a.traits \union {"AF"}
    <2>1. more = type_traits["FORWARD"]
      <3>1. a.traits = {"VLAN_MOD", "LLADDR", "TTL_DEC"}
        BY FieldsAre
      <3> QED
        BY <3>1 DEF type_traits
    <2> HIDE DEF more, three
    <2>2. WithAf(a, more, af) = e
      BY <2>1, TwoFieldsChange DEF OnlyAf
    <2> QED
      BY <2>2 DEF more
  <1> HIDE DEF z, a, e
  <1>8. decode_flower(f) = e
    <2>1. [decode_acts(f.acts) EXCEPT !.flower_flags = f.flags] = a
      BY <1>5, <1>6 DEF Flagged
    <2>2. decode_ttl(a, f) = a
      BY <1>4 DEF decode_ttl
    <2>3. decode_dst(a, f) = e
      BY <1>4, <1>7 DEF decode_dst, WithAf
    <2> QED
      BY <2>1, <2>2, <2>3 DEF decode_flower
  <1> QED
    BY <1>4, <1>8, ReadAs DEF e, f
-----------------------------------------------------------------------------
(* What the daemon wrote. *)

WithGotoAddr(r, goto, addr) == [r EXCEPT !.goto_target = goto, !.af_addr = addr]
WithTarget(r, id, l, af) == [r EXCEPT !.vlan_id = id, !.lladdr = l, !.af_addr.af = af]
WithFamily(r, af) == [r EXCEPT !.af_addr.af = af]
WithEntry(r, pfx) == [r EXCEPT !.af_addr = pfx]

Fresh(vid, goto, addr, lladdr) ==
    Fields("UNSPEC", vid, config.flower_flags, goto, {}, addr, lladdr)

LEMMA FreshFields ==
    tc_rule_init(config.flower_flags) = Fresh(0, 0, NoAddr, NoLladdr)
  <1>1. tc_rule_init(config.flower_flags) = Flagged(Zeroed, config.flower_flags)
    BY DEF tc_rule_init, Flagged
  <1> QED
    BY <1>1, ZeroedFields, OneFieldChanges DEF Fresh

\* What the rules are filled with.
LEMMA FreshFilled ==
    ASSUME NEW goto, NEW addr, NEW id, NEW l, NEW af
    PROVE  LET r == tc_rule_init(config.flower_flags)
           IN  /\ WithGotoAddr(r, goto, addr) = Fresh(0, goto, addr, NoLladdr)
               /\ WithTarget(r, id, l, af) = Fresh(id, 0, OnlyAf(af), l)
               /\ WithFamily(r, af) = Fresh(0, 0, OnlyAf(af), NoLladdr)
               /\ WithEntry(r, addr) = Fresh(0, 0, addr, NoLladdr)
  <1> DEFINE r == Fresh(0, 0, NoAddr, NoLladdr)
             g == Fresh(0, goto, NoAddr, NoLladdr)
             v == Fresh(id, 0, NoAddr, NoLladdr)
             t == Fresh(id, 0, NoAddr, l)
  <1>1. /\ [r EXCEPT !.goto_target = goto] = g
        /\ [r EXCEPT !.vlan_id = id] = v
        /\ [r EXCEPT !.af_addr.af = af] = Fresh(0, 0, [NoAddr EXCEPT !.af = af], NoLladdr)
        /\ [r EXCEPT !.af_addr = addr] = Fresh(0, 0, addr, NoLladdr)
    BY DEF Fresh, Fields
  <1>2. [g EXCEPT !.af_addr = addr] = Fresh(0, goto, addr, NoLladdr)
    BY DEF Fresh, Fields
  <1>3. [v EXCEPT !.lladdr = l] = t
    BY DEF Fresh, Fields
  <1>4. [t EXCEPT !.af_addr.af = af] = Fresh(id, 0, [NoAddr EXCEPT !.af = af], l)
    BY DEF Fresh, Fields
  <1> HIDE DEF r, g, v, t
  <1>5. /\ WithGotoAddr(r, goto, addr) = [[r EXCEPT !.goto_target = goto] EXCEPT !.af_addr = addr]
        /\ WithTarget(r, id, l, af)
               = [[[r EXCEPT !.vlan_id = id] EXCEPT !.lladdr = l] EXCEPT !.af_addr.af = af]
        /\ WithFamily(r, af) = [r EXCEPT !.af_addr.af = af]
        /\ WithEntry(r, addr) = [r EXCEPT !.af_addr = addr]
    BY DEF WithGotoAddr, WithTarget, WithFamily, WithEntry
  <1>6. tc_rule_init(config.flower_flags) = r
    BY FreshFields DEF r
  <1>7. OnlyAf(af) = [NoAddr EXCEPT !.af = af]
    BY DEF OnlyAf, AfSet
  <1> QED
    BY <1>1, <1>2, <1>3, <1>4, <1>5, <1>6, <1>7

\* tc_rule_set_type_and_traits of a rule that has neither.
LEMMA TypeGiven ==
    ASSUME NEW type, NEW vid, NEW goto, NEW addr, NEW l
    PROVE  tc_rule_set_type_and_traits(Fresh(vid, goto, addr, l), type)
               = Fields(type, vid, config.flower_flags, goto, type_traits[type], addr, l)
  <1> DEFINE r == Fresh(vid, goto, addr, l)
             q == Fields(type, vid, config.flower_flags, goto, {}, addr, l)
             new == type_traits[type]
  <1>1. r.type = "UNSPEC"
    BY FieldsAre DEF Fresh
  <1>2. OfType(r, type) = q /\ q.traits = {} /\ With(q, new)
            = Fields(type, vid, config.flower_flags, goto, new, addr, l)
    BY OneFieldChanges, FieldsAre DEF Fresh
  <1> HIDE DEF r, q, new
  <1>3. tc_rule_set_type(r, type) = q
    BY <1>1, <1>2 DEF tc_rule_set_type, OfType
  <1>4. tc_rule_set_type_and_traits(r, type) = With(q, IF q.traits = {} THEN new ELSE q.traits)
    BY <1>3 DEF tc_rule_set_type_and_traits, With, new
  <1>5. (IF q.traits = {} THEN new ELSE q.traits) = new
    BY <1>2
  <1> QED
    BY <1>2, <1>4, <1>5 DEF r, new

Fine(rule) == ReadBack(rule) \/ Unreadable(rule)

FlagsKnown == config.flower_flags \in {Hw, {"SKIP_HW"}}

\* Without the hardware nothing is read back.
LEMMA SkippedIsFine ==
    ASSUME NEW type, NEW vid, NEW goto, NEW traits, NEW addr, NEW l,
           config.flower_flags = {"SKIP_HW"}
    PROVE  Fine(Fields(type, vid, config.flower_flags, goto, traits, addr, l))
  <1> DEFINE r == Fields(type, vid, config.flower_flags, goto, traits, addr, l)
  <1>1. r.flower_flags = {"SKIP_HW"}
    BY FieldsAre
  <1> HIDE DEF r
  <1>2. Unreadable(r)
    BY <1>1 DEF Unreadable
  <1> QED
    BY <1>2 DEF Fine, r

\* request_ttl_check.
LEMMA CheckIsFine ==
    ASSUME FlagsKnown, NEW af \in AF
    PROVE  Fine(TtlCheck(af))
  <1> DEFINE r == Fields("TTL_CHECK", 0, config.flower_flags, 0, type_traits["TTL_CHECK"],
                         OnlyAf(af), NoLladdr)
  <1>1. TtlCheck(af) = r
    BY FreshFilled, TypeGiven DEF TtlCheck, WithFamily
  <1>2. CASE config.flower_flags = Hw
    <2>1. ReadBack(r)
      BY <1>2, CheckReadBack DEF ReadBack
    <2> QED
      BY <1>1, <2>1 DEF Fine
  <1>3. CASE config.flower_flags = {"SKIP_HW"}
    BY <1>1, <1>3, SkippedIsFine
  <1> QED
    BY <1>2, <1>3 DEF FlagsKnown

\* request_af_goto_rule and obj_route_prepare_rule.
LEMMA GotoIsFine ==
    ASSUME FlagsKnown, NEW a \in Dst, a.pad = 0, a.mask_len = 0 => a.in = Copied(<<>>, 8),
           NEW goto
    PROVE  Fine(tc_rule_set_type_and_traits(
                    WithGotoAddr(tc_rule_init(config.flower_flags), goto, a), "ROUTE_GOTO"))
  <1> DEFINE r == Fields("ROUTE_GOTO", 0, config.flower_flags, goto, type_traits["ROUTE_GOTO"],
                         a, NoLladdr)
  <1>1. tc_rule_set_type_and_traits(
            WithGotoAddr(tc_rule_init(config.flower_flags), goto, a), "ROUTE_GOTO") = r
    BY FreshFilled, TypeGiven
  <1>2. CASE config.flower_flags = Hw
    <2>1. ReadBack(r)
      BY <1>2, GotoReadBack DEF ReadBack
    <2> QED
      BY <1>1, <2>1 DEF Fine
  <1>3. CASE config.flower_flags = {"SKIP_HW"}
    BY <1>1, <1>3, SkippedIsFine
  <1> QED
    BY <1>2, <1>3 DEF FlagsKnown

\* request_onload_rule.
LEMMA TrapIsFine ==
    ASSUME FlagsKnown, NEW a \in Dst
    PROVE  Fine(OnloadTrap(a))
  <1> DEFINE r == Fields("ROUTE_TRAP", 0, config.flower_flags, 0, type_traits["ROUTE_TRAP"],
                         a, NoLladdr)
  <1>1. OnloadTrap(a) = r
    BY FreshFilled, TypeGiven DEF OnloadTrap, WithEntry
  <1>2. r.type = "ROUTE_TRAP" /\ r.af_addr = a
    BY FieldsAre
  <1>3. CASE config.flower_flags = Hw
    <2>1. CASE a.pad = 0 /\ a.mask_len # 0
      <3>1. ReadBack(r)
        BY <1>3, <2>1, TrapReadBack DEF ReadBack
      <3> QED
        BY <1>1, <3>1 DEF Fine
    <2>2. CASE ~(a.pad = 0 /\ a.mask_len # 0)
      <3> HIDE DEF r
      <3>1. Unreadable(r)
        BY <1>2, <2>2 DEF Unreadable
      <3> QED
        BY <1>1, <3>1 DEF Fine
    <2> QED
      BY <2>1, <2>2
  <1>4. CASE config.flower_flags = {"SKIP_HW"}
    BY <1>1, <1>4, SkippedIsFine
  <1> QED
    BY <1>3, <1>4 DEF FlagsKnown

\* obj_target_prepare_rule.
LEMMA ForwardIsFine ==
    ASSUME FlagsKnown, NEW t \in ForwardRecord
    PROVE  Fine(tc_rule_set_type_and_traits(
                    WithTarget(tc_rule_init(config.flower_flags), t.vlan, t.lladdr, t.af),
                    "FORWARD"))
  <1> DEFINE af == t.af
             vid == t.vlan
             ll == t.lladdr
             r == Fields("FORWARD", vid, config.flower_flags, 0, type_traits["FORWARD"],
                         OnlyAf(af), ll)
             q == WithTarget(tc_rule_init(config.flower_flags), vid, ll, af)
  <1>1. af \in AF /\ vid # 0 /\ ll \in [1..6 -> Cell]
    <2>1. af \in AF /\ vid \in 1..4095 /\ ll \in [1..6 -> Cell]
      BY DEF ForwardRecord
    <2>2. vid \in 1..4095
      BY <2>1
    <2> HIDE DEF vid
    <2>3. vid # 0
      BY <2>2
    <2> QED
      BY <2>1, <2>3
  <1> HIDE DEF af, vid, ll
  <1>2. tc_rule_set_type_and_traits(q, "FORWARD") = r
    BY FreshFilled, TypeGiven
  <1>3. CASE config.flower_flags = Hw
    <2>1. ReadBack(r)
      BY <1>1, <1>3, ForwardReadBack DEF ReadBack
    <2> QED
      BY <1>2, <2>1 DEF Fine, af, vid, ll
  <1>4. CASE config.flower_flags = {"SKIP_HW"}
    BY <1>2, <1>4, SkippedIsFine DEF af, vid, ll
  <1> QED
    BY <1>3, <1>4 DEF FlagsKnown

\* The addresses of entries and of destinations are such that tce_build_mask
\* and build_af_addr understand each other.
LEMMA CopiedCells ==
    ASSUME NEW s \in Seq(Cell), NEW n \in 1..8, Len(s) <= n
    PROVE  /\ Copied(s, 8) \in [1..8 -> Cell]
           /\ \A i \in 1..8 : i > n => Copied(s, 8)[i] = 0
  <1>1. 0 \in Cell
    BY DEF Cell
  <1> HIDE DEF Cell
  <1>2. \A i \in 1..8 : i <= Len(s) => s[i] \in Cell
    OBVIOUS
  <1>3. \A i \in 1..8 : Copied(s, 8)[i] = IF i <= Len(s) THEN s[i] ELSE 0
    BY DEF Copied
  <1>4. Copied(s, 8) = [i \in 1..8 |-> IF i <= Len(s) THEN s[i] ELSE 0]
    BY DEF Copied
  <1>5. Len(s) \in Nat
    OBVIOUS
  <1> QED
    BY <1>1, <1>2, <1>3, <1>4, <1>5

LEMMA EntryInDst ==
    ASSUME NEW pfx \in PrefixEntry
    PROVE  pfx \in Dst
  <1>1. PICK t \in Prefix : pfx = Parsed(t)
    BY DEF PrefixEntry
  <1> DEFINE s == t.cells
             n == AddrCells(t.af)
             rest == SubSeq(s, 3, Len(s))
             len == IF t.mask = -1 THEN MaxMask(t.af) ELSE t.mask
  <1>2. /\ t.af \in AF /\ s \in Seq(Cell) /\ Len(s) \in {0, n} /\ s # <<>>
        /\ t.mask \in -1..MaxMask(t.af)
    BY DEF Prefix, TextRecord, Parses
  <1>3. n \in {2, 8} /\ MaxMask(t.af) \in {32, 128} /\ MaxMask(t.af) = 16 * n
    BY <1>2 DEF AF, AddrCells, MaxMask
  <1>4. Len(s) = n
    <2>1. Len(s) # 0
      <3> HIDE DEF s, n, Cell
      <3> QED
        BY <1>2
    <2> QED
      BY <1>2, <2>1
  <1>5. len \in 0..128 /\ len <= MaxMask(t.af)
    <2> DEFINE m == t.mask
               most == MaxMask(t.af)
    <2>1. most \in {32, 128} /\ m \in -1..most
      BY <1>2, <1>3
    <2> HIDE DEF m, most
    <2>2. (IF m = -1 THEN most ELSE m) \in 0..128 /\ (IF m = -1 THEN most ELSE m) <= most
      BY <2>1
    <2> QED
      BY <2>2 DEF m, most
  <1> HIDE DEF s, n, len
  <1>6. s[2] \in Cell /\ rest \in Seq(Cell) /\ Len(rest) <= n
    <2>1. s[2] \in Cell
      <3>1. 2 \in 1..Len(s)
        BY <1>3, <1>4
      <3> HIDE DEF Cell
      <3> QED
        BY <1>2, <3>1
    <2>2. \A i \in 3..Len(s) : s[i] \in Cell
      <3>1. \A i \in 3..Len(s) : i \in 1..Len(s)
        BY <1>3, <1>4
      <3> HIDE DEF Cell
      <3> QED
        BY <1>2, <3>1
    <2> HIDE DEF Cell
    <2>3. 3 \in Int /\ Len(s) \in Int
      BY <1>3, <1>4
    <2>4. rest \in Seq(Cell) /\ Len(rest) = IF 3 <= Len(s) THEN Len(s) - 3 + 1 ELSE 0
      BY <2>2, <2>3, SubSeqProperties
    <2> QED
      BY <1>3, <1>4, <2>1, <2>4
  <1> HIDE DEF rest
  <1>7. n \in 1..8
    BY <1>3
  <1>8. /\ Copied(rest, 8) \in [1..8 -> Cell]
        /\ \A i \in 1..8 : i > n => Copied(rest, 8)[i] = 0
    BY <1>6, <1>7, CopiedCells
  <1>9. pfx = [af |-> t.af, mask_len |-> len, pad |-> s[2], in |-> Copied(rest, 8)]
    BY <1>1 DEF Parsed, s, len, rest
  <1> QED
    BY <1>2, <1>5, <1>6, <1>8, <1>9 DEF Dst, n

LEMMA AddrInDst ==
    ASSUME NEW d \in DestRecord
    PROVE  LET a == Addr(d.af, d.mask_len, d.cells)
           IN  a \in Dst /\ a.pad = 0 /\ (a.mask_len = 0 => a.in = Copied(<<>>, 8))
  <1> DEFINE a == Addr(d.af, d.mask_len, d.cells)
             s == d.cells
             n == AddrCells(d.af)
  <1>1. /\ d.af \in AF /\ d.mask_len \in 0..128 /\ s \in Seq(Cell)
        /\ d.mask_len <= MaxMask(d.af) /\ Len(s) <= n
        /\ d.mask_len = 0 => \A i \in DOMAIN s : s[i] = 0
    BY DEF DestRecord
  <1>2. n \in 1..8
    BY <1>1 DEF AF, AddrCells
  <1> HIDE DEF n, s
  <1>3. /\ Copied(s, 8) \in [1..8 -> Cell]
        /\ \A i \in 1..8 : i > n => Copied(s, 8)[i] = 0
    BY <1>1, <1>2, CopiedCells
  <1>4. a = [af |-> d.af, mask_len |-> d.mask_len, pad |-> 0, in |-> Copied(s, 8)]
    BY DEF Addr, s
  <1>5. 0 \in Cell
    BY DEF Cell
  <1>6. a \in Dst
    BY <1>1, <1>3, <1>4, <1>5 DEF Dst, n
  <1>7. ASSUME d.mask_len = 0 PROVE Copied(s, 8) = Copied(<<>>, 8)
    <2>1. Len(s) \in Nat /\ DOMAIN s = 1..Len(s)
      <3> HIDE DEF Cell
      <3> QED
        BY <1>1
    <2>2. \A i \in 1..8 : (IF i <= Len(s) THEN s[i] ELSE 0) = 0
      BY <1>1, <1>7, <2>1
    <2>3. Copied(s, 8) = [i \in 1..8 |-> 0]
      BY <2>2 DEF Copied
    <2> DEFINE none == <<>>
    <2>4. \A i \in 1..8 : ~(i <= Len(none))
      OBVIOUS
    <2> HIDE DEF none
    <2>5. Copied(none, 8) = [i \in 1..8 |-> 0]
      BY <2>4 DEF Copied
    <2> QED
      BY <2>3, <2>5 DEF none
  <1> QED
    BY <1>4, <1>6, <1>7

\* request_af_goto_rule.
LEMMA AfGotoIsFine ==
    ASSUME FlagsKnown, NEW af \in AF
    PROVE  Fine(AfGoto(af))
  <1> DEFINE four == [af |-> 4, mask_len |-> 0, cells |-> <<>>]
             six == [af |-> 6, mask_len |-> 3, cells |-> <<8192>>]
             d == IF af = 4 THEN four ELSE six
             a == Addr(d.af, d.mask_len, d.cells)
             goto == get_af_chain(af)
  <1>1. d \in DestRecord
    <2>1. four \in DestRecord
      <3>1. <<>> \in Seq(Cell) /\ Len(<<>>) = 0 /\ DOMAIN <<>> = {}
        OBVIOUS
      <3> QED
        BY <3>1 DEF DestRecord, AF, AddrCells, MaxMask
    <2>2. six \in DestRecord
      <3> DEFINE s == <<8192>>
      <3>1. s \in Seq(Cell) /\ Len(s) = 1
        <4>1. 8192 \in Cell
          BY DEF Cell
        <4> HIDE DEF Cell
        <4> QED
          BY <4>1
      <3>2. six = [af |-> 6, mask_len |-> 3, cells |-> s]
        OBVIOUS
      <3> HIDE DEF s, six
      <3>3. 6 \in AF /\ 3 \in 0..128 /\ 3 <= MaxMask(6) /\ Len(s) <= AddrCells(6)
        BY <3>1 DEF AF, AddrCells, MaxMask
      <3>4. six \in [af : AF, mask_len : 0..128, cells : Seq(Cell)]
        <4>1. s \in Seq(Cell)
          BY <3>1
        <4> QED
          BY <3>2, <3>3, <4>1
      <3>5. six.af = 6 /\ six.mask_len = 3 /\ six.cells = s
        BY <3>2
      <3> QED
        BY <3>3, <3>4, <3>5 DEF DestRecord
    <2> QED
      BY <2>1, <2>2
  <1>2. AfGoto(af) = tc_rule_set_type_and_traits(
                         WithGotoAddr(tc_rule_init(config.flower_flags), goto, a), "ROUTE_GOTO")
    <2>1. a = IF af = 4 THEN Addr(4, 0, <<>>) ELSE Addr(6, 3, <<8192>>)
      OBVIOUS
    <2> HIDE DEF a
    <2> QED
      BY <2>1 DEF AfGoto, WithGotoAddr
  <1> HIDE DEF d, goto
  <1>3. a \in Dst /\ a.pad = 0 /\ (a.mask_len = 0 => a.in = Copied(<<>>, 8))
    BY <1>1, AddrInDst
  <1> HIDE DEF a
  <1> QED
    BY <1>2, <1>3, GotoIsFine

Configs ==
    [table : BOOLEAN, iface : BOOLEAN, flower_flags : {{"SKIP_SW", "IN_HW"}, {"SKIP_HW"}}]

LEMMA FlagsAreKnown ==
    ASSUME OwnInv
    PROVE  FlagsKnown
  BY DEF OwnInv, FlagsKnown, Hw

\* options_parse: only --skip-hw changes flags, and there are no rules yet.
LEMMA OptionsOwn ==
    ASSUME OwnInv,
           \/ \E known \in BOOLEAN : OptTable(known) \/ OptIface(known)
           \/ \E name \in ListName, t \in Text : OptAddPrefix(name, t)
           \/ \E name \in ListName, file \in File \union {NoFile} : OptLoadPrefix(name, file)
           \/ \E m \in {"once", "help", "version"} : OptMode(m)
           \/ OptSkipHw
           \/ OptWrong
           \/ OptEnd
    PROVE  OwnInv'
  <1>1. UNCHANGED rules /\ phase # "running"
    BY DEF OptTable, OptIface, OptAddPrefix, OptLoadPrefix, OptMode, OptSkipHw, OptWrong, OptEnd,
           More, Bail, Next_option
  <1>2. config' \in Configs
    <2>0. config \in Configs
      BY DEF OwnInv, Configs
    <2>1. CASE config' = config
      BY <2>0, <2>1
    <2>2. CASE \E known \in BOOLEAN : OptTable(known) \/ OptIface(known)
      BY <2>0, <2>2 DEF OptTable, OptIface, Bail, options, Configs
    <2>3. CASE OptSkipHw
      BY <2>0, <2>3 DEF OptSkipHw, Configs
    <2>4. CASE \/ \E name \in ListName, t \in Text : OptAddPrefix(name, t)
               \/ \E name \in ListName, file \in File \union {NoFile} : OptLoadPrefix(name, file)
               \/ \E m \in {"once", "help", "version"} : OptMode(m)
               \/ OptWrong
               \/ OptEnd
      <3>1. config' = config
        BY <2>4 DEF OptAddPrefix, OptLoadPrefix, OptMode, OptWrong, OptEnd, Bail, options
      <3> QED
        BY <2>1, <3>1
    <2> QED
      BY <2>2, <2>3, <2>4
  <1> QED
    BY <1>1, <1>2 DEF OwnInv, rules, Configs

\* A rule that is placed is read back if it can be.
LEMMA PlacedIsFine ==
    ASSUME NEW w, \A p \in DOMAIN w : Fine(w[p]), NEW place, NEW rule, Fine(rule)
    PROVE  /\ \A p \in DOMAIN Placed(w, place, rule) : Fine(Placed(w, place, rule)[p])
           /\ DOMAIN w \subseteq DOMAIN Placed(w, place, rule)
           /\ \A p \in DOMAIN w : Placed(w, place, rule)[p] = w[p]
  <1> DEFINE v == Placed(w, place, rule)
  <1>1. /\ DOMAIN v = DOMAIN w \union {place}
        /\ \A p \in DOMAIN v : v[p] = IF p \in DOMAIN w THEN w[p] ELSE rule
    BY DEF Placed
  <1> HIDE DEF v
  <1> QED
    BY <1>1 DEF v

\* sched_basic_initial_requests.
LEMMA DoneOwn ==
    ASSUME IInv, OwnInv, OptDone
    PROVE  OwnInv'
  <1>1. have = Nothing /\ own = {} /\ lists \in PrefixLists /\ FlagsKnown
    BY FlagsAreKnown DEF IInv, Told, OwnInv, OptDone
  <1>2. ASSUME NEW p \in DOMAIN InitialWants PROVE Fine(InitialWants[p])
    <2>1. \/ \E af \in AF : InitialWants[p] \in {AfGoto(af), TtlCheck(af)}
          \/ \E pfx \in PrefixEntry : InitialWants[p] = OnloadTrap(pfx)
      BY <1>1, InitialSorted
    <2>2. CASE \E af \in AF : InitialWants[p] \in {AfGoto(af), TtlCheck(af)}
      BY <1>1, <2>2, AfGotoIsFine, CheckIsFine
    <2>3. CASE \E pfx \in PrefixEntry : InitialWants[p] = OnloadTrap(pfx)
      BY <1>1, <2>3, EntryInDst, TrapIsFine
    <2> QED
      BY <2>1, <2>2, <2>3
  <1>3. want' = InitialWants /\ have' = Nothing /\ own' = {} /\ phase' = "running"
        /\ config' = config
    BY <1>1 DEF OptDone, options
  <1>4. DOMAIN have' = {}
    BY <1>3 DEF Nothing
  <1> QED
    BY <1>2, <1>3, <1>4 DEF OwnInv, Fine

\* obj_target_prepare_rule, obj_route_prepare_rule: what is wanted is left alone.
LEMMA WantOwn ==
    ASSUME OwnInv, phase = "running", NEW place, NEW rule, Fine(rule),
           want' = Placed(want, place, rule), UNCHANGED <<phase, config, have, kernel, own>>
    PROVE  OwnInv'
  <1>1. /\ \A p \in DOMAIN want' : Fine(want'[p])
        /\ \A p \in DOMAIN want : p \in DOMAIN want' /\ want'[p] = want[p]
    <2>1. \A p \in DOMAIN want : Fine(want[p])
      BY DEF OwnInv, Fine
    <2> QED
      BY <2>1, PlacedIsFine
  <1> QED
    BY <1>1 DEF OwnInv, Fine

LEMMA TargetOwn ==
    ASSUME OwnInv, NEW t \in Forward, NEW chain, NewTarget(t, chain)
    PROVE  OwnInv'
  <1> DEFINE rule == tc_rule_set_type_and_traits(
                         WithTarget(tc_rule_init(config.flower_flags), t.vlan, t.lladdr, t.af),
                         "FORWARD")
  <1>1. Fine(rule)
    BY FlagsAreKnown, ForwardIsFine, InputAssumption
  <1>2. want' = Placed(want, <<chain, 1>>, rule)
    BY DEF NewTarget, WithTarget
  <1>3. phase = "running" /\ UNCHANGED <<phase, config, have, kernel, own>>
    BY DEF NewTarget, options
  <1> HIDE DEF rule
  <1> QED
    BY <1>1, <1>2, <1>3, WantOwn

LEMMA RouteOwn ==
    ASSUME OwnInv, NEW d \in Dest, NEW t, NewRoute(d, t)
    PROVE  OwnInv'
  <1> DEFINE a == Addr(d.af, d.mask_len, d.cells)
             goto == t[1]
             rule == tc_rule_set_type_and_traits(
                         WithGotoAddr(tc_rule_init(config.flower_flags), goto, a), "ROUTE_GOTO")
             place == RoutePlace(d)
  <1>1. Fine(rule)
    <2>1. d \in DestRecord
      BY InputAssumption
    <2>2. a \in Dst /\ a.pad = 0 /\ (a.mask_len = 0 => a.in = Copied(<<>>, 8))
      BY <2>1, AddrInDst
    <2> HIDE DEF a, goto
    <2> QED
      BY <2>2, FlagsAreKnown, GotoIsFine
  <1>2. want' = Placed(want, place, rule)
    BY DEF NewRoute, WithGotoAddr
  <1>3. phase = "running" /\ UNCHANGED <<phase, config, have, kernel, own>>
    BY DEF NewRoute, options
  <1> HIDE DEF rule, place
  <1> QED
    BY <1>1, <1>2, <1>3, WantOwn

\* obj_rule_netlink_found and obj_rule_update_state.
LEMMA FilterOwn ==
    ASSUME OwnInv, Found \/ Uninstall \/ Install
    PROVE  OwnInv'
  <1>1. UNCHANGED <<phase, config, want>> /\ phase = "running"
    BY DEF Found, Uninstall, Install, options
  <1>2. CASE Found
    <2>1. /\ DOMAIN have' = DOMAIN kernel
          /\ \A p \in DOMAIN kernel : have'[p] = decode_filter(kernel[p])
          /\ UNCHANGED <<kernel, own>>
      BY <1>2 DEF Found
    <2> QED
      BY <1>1, <2>1 DEF OwnInv
  <1>3. CASE Uninstall
    <2>1. /\ kernel' = Without(kernel, Aliens) /\ have' = Without(have, Aliens)
          /\ own' = own \ Aliens
      BY <1>3 DEF Uninstall
    <2>2. /\ DOMAIN kernel' = DOMAIN kernel \ Aliens
          /\ \A p \in DOMAIN kernel' : kernel'[p] = kernel[p]
          /\ DOMAIN have' = DOMAIN have \ Aliens
          /\ \A p \in DOMAIN have' : have'[p] = have[p]
      BY <2>1 DEF Without
    <2> QED
      BY <1>1, <2>1, <2>2 DEF OwnInv
  <1>4. CASE Install
    <2>1. /\ DOMAIN kernel' = DOMAIN kernel \union Missing
          /\ \A p \in DOMAIN kernel' :
                 kernel'[p] = IF p \in Missing THEN Dumped(tc_encode_rule(want[p])) ELSE kernel[p]
          /\ own' = own \union Missing /\ have' = have
      BY <1>4 DEF Install
    <2>2. Missing \subseteq DOMAIN want /\ Missing \intersect DOMAIN kernel = {}
      BY DEF Missing
    <2> QED
      BY <1>1, <2>1, <2>2 DEF OwnInv
  <1> QED
    BY <1>2, <1>3, <1>4

LEMMA NextOwn ==
    ASSUME IInv, OwnInv, [Next]_vars
    PROVE  OwnInv'
  <1>1. CASE ReadOption
    BY <1>1, OptionsOwn, DoneOwn DEF ReadOption
  <1>2. CASE \E t \in Forward, chain \in ChainBase..(ChainBase + 1) : NewTarget(t, chain)
    BY <1>2, TargetOwn
  <1>3. CASE \E d \in Dest, t \in Wanted("FORWARD") : NewRoute(d, t)
    BY <1>3, RouteOwn
  <1>4. CASE Found \/ Uninstall \/ Install
    BY <1>4, FilterOwn
  <1>5. CASE UNCHANGED vars
    BY <1>5 DEF vars, OwnInv
  <1> QED
    BY <1>1, <1>2, <1>3, <1>4, <1>5 DEF Next

LEMMA InitOwn ==
    ASSUME Init
    PROVE  OwnInv
  <1>1. DOMAIN Nothing = {}
    BY DEF Nothing
  <1> QED
    BY <1>1 DEF Init, OwnInv

\* Only what is an alien leaves the filters of the daemon, and a rule that is read
\* back is none.
LEMMA OwnStays ==
    ASSUME OwnInv, [Next]_vars, NEW p \in own, p \notin own'
    PROVE  Unreadable(want[p])
  <1>1. Uninstall
    <2>1. ~ReadOption
      <3>1. ReadOption => own' = own
        BY DEF ReadOption, OptTable, OptIface, OptAddPrefix, OptLoadPrefix, OptMode, OptSkipHw,
               OptWrong, OptEnd, OptDone, More, Bail, Next_option, rules
      <3> QED
        BY <3>1
    <2>2. /\ ~(\E t \in Forward, chain \in ChainBase..(ChainBase + 1) : NewTarget(t, chain))
          /\ ~(\E d \in Dest, t \in Wanted("FORWARD") : NewRoute(d, t))
      BY DEF NewTarget, NewRoute
    <2>3. ~Found /\ ~Install /\ ~UNCHANGED vars
      BY DEF Found, Install, vars
    <2> QED
      BY <2>1, <2>2, <2>3 DEF Next
  <1>2. p \in Aliens
    BY <1>1 DEF Uninstall
  <1>3. p \in DOMAIN have /\ p \in DOMAIN want /\ want[p] # have[p]
    BY <1>2 DEF OwnInv, Aliens
  <1>4. have[p] = decode_filter(Dumped(tc_encode_rule(want[p])))
    BY <1>3 DEF OwnInv
  <1>5. ~ReadBack(want[p])
    BY <1>3, <1>4 DEF ReadBack
  <1> QED
    BY <1>3, <1>5 DEF OwnInv

\* tc_encode_rule, decode_filter: what the daemon has written is still there and
\* still wanted, and every wanted rule but those of Unreadable comes back from the
\* kernel as it was written, whatever addresses, masks, tags and link layer
\* addresses it has.
THEOREM OwnInvariance == Spec => []OwnInv
  <1> DEFINE Both == IInv /\ OwnInv
  <1>1. Init => Both
    BY InitOrder, InitOwn
  <1>2. Both /\ [Next]_vars => Both'
    BY NextOrder, NextOwn
  <1>3. Both => OwnInv
    OBVIOUS
  <1> QED
    BY <1>1, <1>2, <1>3, PTL DEF Spec

\* obj_rule_update_state: with the exceptions of Unreadable a filter that the
\* daemon wrote is recognized ever after, and not replaced.
THEOREM OwnStaysRecognized == Spec => OwnIsRecognized
  <1>1. OwnInv /\ [Next]_vars => \A p \in own : p \in own' \/ Unreadable(want[p])
    BY OwnStays
  <1> DEFINE Step == \A p \in own : p \in own' \/ Unreadable(want[p])
  <1>2. OwnInv /\ [Next]_vars => [Step]_vars
    BY <1>1
  <1>3. Spec => [][Step]_vars
    <2> HIDE DEF Step
    <2> QED
      BY <1>2, OwnInvariance, PTL DEF Spec
  <1> QED
    BY <1>3 DEF OwnIsRecognized
=============================================================================
