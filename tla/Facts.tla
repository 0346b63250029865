------------------------------- MODULE Facts -------------------------------
(***************************************************************************)
(* Facts about sequences and numbers that the proofs of several modules    *)
(* use: the queue, the sockets and the C stack are sequences that grow at  *)
(* one end.                                                                *)
(***************************************************************************)
EXTENDS Integers, Sequences, WellFoundedInduction, TLAPS

-----------------------------------------------------------------------------
(* Sequences, element by element. *)

\* Appending keeps the elements and adds one: queue_schedule and Push.
LEMMA AppendPoints ==
    ASSUME NEW S, NEW s \in Seq(S), NEW e \in S
    PROVE  /\ Append(s, e) \in Seq(S)
           /\ Len(Append(s, e)) = Len(s) + 1
           /\ \A k \in 1..Len(s) : Append(s, e)[k] = s[k]
           /\ Append(s, e)[Len(s) + 1] = e
           /\ Append(s, e) # <<>>
  OBVIOUS

\* Removing the head shifts the rest: queue_pop and recvfrom.
LEMMA TailPoints ==
    ASSUME NEW S, NEW s \in Seq(S), s # <<>>
    PROVE  /\ Tail(s) \in Seq(S)
           /\ Len(s) \in Nat \ {0}
           /\ Len(Tail(s)) = Len(s) - 1
           /\ \A k \in 1..Len(Tail(s)) : Tail(s)[k] = s[k + 1]
           /\ Head(s) = s[1]
           /\ Head(s) \in S
  OBVIOUS

\* Dropping the last element keeps the others: Pop.
LEMMA FrontPoints ==
    ASSUME NEW S, NEW s \in Seq(S), s # <<>>
    PROVE  /\ SubSeq(s, 1, Len(s) - 1) \in Seq(S)
           /\ Len(SubSeq(s, 1, Len(s) - 1)) = Len(s) - 1
           /\ \A k \in 1..(Len(s) - 1) : SubSeq(s, 1, Len(s) - 1)[k] = s[k]
  <1>1. \A n \in Nat : n # 0 => n = 1 \/ n > 1
    OBVIOUS
  <1>2. Len(s) \in Nat /\ Len(s) # 0
    OBVIOUS
  <1>3. CASE Len(s) = 1
    <2>1. SubSeq(s, 1, Len(s) - 1) = <<>>
      BY <1>3
    <2> QED
      BY <2>1, <1>3
  <1>4. CASE Len(s) > 1
    BY <1>4
  <1>5. Len(SubSeq(s, 1, Len(s) - 1)) = Len(s) - 1
    BY <1>1, <1>2, <1>3, <1>4, Zenon
  <1>6. SubSeq(s, 1, Len(s) - 1) \in Seq(S)
    OBVIOUS
  <1>7. \A k \in 1..(Len(s) - 1) : SubSeq(s, 1, Len(s) - 1)[k] = s[k]
    OBVIOUS
  <1> QED
    BY <1>5, <1>6, <1>7

\* What is appended is kept behind what is there: sockets.
LEMMA ConcatPoints ==
    ASSUME NEW S, NEW s \in Seq(S), NEW t \in Seq(S)
    PROVE  /\ s \o t \in Seq(S)
           /\ Len(s \o t) = Len(s) + Len(t)
           /\ \A k \in 1..Len(s) : (s \o t)[k] = s[k]
           /\ \A k \in 1..Len(t) : (s \o t)[Len(s) + k] = t[k]
  OBVIOUS

-----------------------------------------------------------------------------
(* Numbers. *)

\* Every nonempty set of numbers has a least element.
LEMMA LeastNumber ==
    ASSUME NEW S \in SUBSET Nat, S # {}
    PROVE  \E m \in S : \A n \in S : m <= n
  <1> DEFINE R == OpToRel(<, Nat)
  <1>1. IsWellFoundedOn(R, Nat)
    BY NatLessThanWellFounded
  <1>2. \E m \in S : \A n \in S : <<n, m>> \notin R
    <2> HIDE DEF R
    <2> QED
      BY <1>1, WFMin
  <1>3. \A n, m \in S : n < m => <<n, m>> \in R
    BY DEF OpToRel
  <1> HIDE DEF R
  <1>4. PICK m \in S : \A n \in S : <<n, m>> \notin R
    BY <1>2
  <1>5. \A n \in S : ~(n < m)
    BY <1>3, <1>4
  <1>6. \A n \in S : m <= n
    BY <1>5
  <1> QED
    BY <1>6

\* Induction over the natural numbers, for a set of numbers.
LEMMA SetInduction ==
    ASSUME NEW S, 0 \in S, \A n \in Nat : n \in S => n + 1 \in S
    PROVE  \A n \in Nat : n \in S
  <1> DEFINE Out == Nat \ S
  <1>1. SUFFICES ASSUME Out # {} PROVE FALSE
    OBVIOUS
  <1>2. PICK m \in Out : \A n \in Out : m <= n
    BY <1>1, LeastNumber
  <1>3. m - 1 \in Nat /\ m - 1 \notin Out
    BY <1>2
  <1>4. (m - 1) + 1 = m
    BY <1>2
  <1> QED
    BY <1>2, <1>3, <1>4

\* A walk of m steps from s, step n of which is F[<<n, _>>].
Steps(F, S, m) == \A n \in 1..m, t \in S : F[<<n, t>>] \in S

Walk(g, F, S, s, m) == /\ g \in [0..m -> S]
                       /\ g[0] = s
                       /\ \A n \in 1..m : g[n] = F[<<n, g[n - 1]>>]

\* What a recursive function over 0..m computes exists.
LEMMA Iteration ==
    ASSUME NEW m \in Nat, NEW S, NEW s \in S, NEW F, Steps(F, S, m)
    PROVE  \E g : Walk(g, F, S, s, m)
  <1> DEFINE Far == {i \in Nat : i <= m => \E g : Walk(g, F, S, s, i)}
  <1>1. 0 \in Far
    <2> DEFINE g == [n \in 0..0 |-> s]
    <2>1. Walk(g, F, S, s, 0)
      BY DEF Walk
    <2> QED
      BY <2>1
  <1>2. ASSUME NEW i \in Nat, i \in Far PROVE i + 1 \in Far
    <2>1. SUFFICES ASSUME i + 1 <= m PROVE \E g : Walk(g, F, S, s, i + 1)
      OBVIOUS
    <2>2. PICK f : Walk(f, F, S, s, i)
      BY <1>2, <2>1
    <2> DEFINE g == [n \in 0..(i + 1) |-> IF n = i + 1 THEN F[<<n, f[i]>>] ELSE f[n]]
    <2>3. i \in 0..i /\ i + 1 \in 1..m /\ f[i] \in S
      BY <2>1, <2>2 DEF Walk
    <2>4. F[<<i + 1, f[i]>>] \in S
      BY <2>3 DEF Steps
    <2>5. \A n \in 0..(i + 1) : n = i + 1 \/ n \in 0..i
      OBVIOUS
    <2>6. g \in [0..(i + 1) -> S]
      BY <2>2, <2>4, <2>5 DEF Walk
    <2>7. g[0] = s
      BY <2>2 DEF Walk
    <2>8. ASSUME NEW n \in 1..(i + 1) PROVE g[n] = F[<<n, g[n - 1]>>]
      <3>1. CASE n = i + 1
        BY <3>1
      <3>2. CASE n # i + 1
        <4>1. n \in 1..i /\ n - 1 \in 0..i /\ n - 1 # i + 1
          BY <3>2
        <4>2. g[n] = f[n] /\ g[n - 1] = f[n - 1]
          BY <3>2, <4>1
        <4>3. f[n] = F[<<n, f[n - 1]>>]
          BY <2>2, <4>1 DEF Walk
        <4> QED
          BY <4>2, <4>3
      <3> QED
        BY <3>1, <3>2
    <2>9. Walk(g, F, S, s, i + 1)
      BY <2>6, <2>7, <2>8 DEF Walk
    <2> QED
      BY <2>9
  <1>3. m \in Far
    <2> HIDE DEF Far
    <2> QED
      BY <1>1, <1>2, SetInduction
  <1> QED
    BY <1>3
=============================================================================
