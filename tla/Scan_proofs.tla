---------------------------- MODULE Scan_proofs ----------------------------
(***************************************************************************)
(* Proofs about Scan, for every set of chains and every bound: the         *)
(* invariant IndInv is inductive, and the safety properties of Scan follow.*)
(***************************************************************************)
EXTENDS Scan, Facts, FiniteSetTheorems, TLAPS

-----------------------------------------------------------------------------
(* What is on the C stack and in the queue when they change.                *)

\* Nothing is on an empty stack, and nothing in an empty queue.
LEMMA OnEmpty ==
    /\ \A e : ~On(<<>>, e)
    /\ \A T : Once(<<>>, T)
    /\ \A d, e : Before(<<>>, d, e)
    /\ Nested(<<>>)
  BY DEF On, Once, Before, Nested

\* A call, or an item that is linked at the end of the queue.
LEMMA OnAppend ==
    ASSUME NEW S, NEW s \in Seq(S), NEW x \in S
    PROVE  /\ Append(s, x) \in Seq(S)
           /\ Append(s, x) # <<>>
           /\ Append(s, x)[Len(Append(s, x))] = x
           /\ Head(Append(s, x)) = IF s = <<>> THEN x ELSE Head(s)
           /\ \A e : On(Append(s, x), e) <=> On(s, e) \/ e = x
           /\ \A T : /\ Once(s, T)
                     /\ x \in T => \A e \in T : ~On(s, e)
                     => Once(Append(s, x), T)
           /\ \A d, e : /\ Before(s, d, e)
                        /\ d # e
                        /\ x = d => ~On(s, e)
                        => Before(Append(s, x), d, e)
           /\ /\ Nested(s)
              /\ ~On(s, "advance")
              /\ s = <<>> \/ s[Len(s)] \notin MovePlaces \/ x = "test"
              => Nested(Append(s, x))
  <1> DEFINE t == Append(s, x)
             n == Len(s)
  <1>1. /\ t \in Seq(S) /\ Len(t) = n + 1 /\ t # <<>> /\ t[n + 1] = x
        /\ \A k \in 1..n : t[k] = s[k]
        /\ n \in Nat
    BY AppendPoints
  <1>2. Head(t) = IF s = <<>> THEN x ELSE Head(s)
    OBVIOUS
  <1>3. s = <<>> <=> n = 0
    OBVIOUS
  <1> HIDE DEF t, n
  <1>4. \A k \in 1..Len(t) : k \in 1..n \/ k = n + 1
    BY <1>1
  <1>5. \A e : On(t, e) <=> On(s, e) \/ e = x
    <2>1. ASSUME NEW e, On(t, e) PROVE On(s, e) \/ e = x
      BY <1>1, <1>4, <2>1 DEF On, n
    <2>2. ASSUME NEW e, On(s, e) PROVE On(t, e)
      BY <1>1, <2>2 DEF On, n
    <2>3. On(t, x)
      BY <1>1 DEF On
    <2> QED
      BY <2>1, <2>2, <2>3
  <1>6. ASSUME NEW T, Once(s, T), x \in T => \A e \in T : ~On(s, e)
        PROVE  Once(t, T)
    <2>1. SUFFICES ASSUME NEW j \in 1..Len(t), NEW k \in 1..Len(t),
                          t[j] \in T, t[k] \in T
                   PROVE  j = k
      BY DEF Once
    <2>2. CASE j \in 1..n /\ k \in 1..n
      BY <1>1, <1>6, <2>1, <2>2 DEF Once, n
    <2>3. CASE j \in 1..n /\ k = n + 1
      BY <1>1, <1>6, <2>1, <2>3 DEF On, n
    <2>4. CASE j = n + 1 /\ k \in 1..n
      BY <1>1, <1>6, <2>1, <2>4 DEF On, n
    <2> QED
      BY <1>4, <2>2, <2>3, <2>4
  <1>7. ASSUME NEW d, NEW e, Before(s, d, e), d # e, x = d => ~On(s, e)
        PROVE  Before(t, d, e)
    <2>1. SUFFICES ASSUME NEW j \in 1..Len(t), NEW k \in 1..Len(t),
                          t[j] = d, t[k] = e
                   PROVE  j < k
      BY DEF Before
    <2>2. CASE j \in 1..n /\ k \in 1..n
      BY <1>1, <1>7, <2>1, <2>2 DEF Before, n
    <2>3. CASE j \in 1..n /\ k = n + 1
      BY <1>1, <2>3
    <2>4. CASE j = n + 1
      BY <1>1, <1>4, <1>7, <2>1, <2>4 DEF On, n
    <2> QED
      BY <1>4, <2>2, <2>3, <2>4
  <1>8. ASSUME Nested(s), ~On(s, "advance"),
               s = <<>> \/ s[n] \notin MovePlaces \/ x = "test"
        PROVE  Nested(t)
    <2>1. \A k \in 1..(Len(t) - 1) : t[k] # "advance"
      BY <1>1, <1>8 DEF On, n
    <2>2. ASSUME NEW k \in 1..(Len(t) - 1), t[k] \in MovePlaces
          PROVE  t[k + 1] = "test"
      <3>1. CASE k \in 1..(n - 1)
        <4>1. k + 1 \in 1..n /\ k \in 1..n
          BY <1>1, <3>1
        <4> QED
          BY <1>1, <1>8, <2>2, <3>1, <4>1 DEF Nested, n
      <3>2. CASE k = n
        <4>1. n # 0 /\ s # <<>>
          BY <1>1, <1>3, <3>2
        <4> QED
          BY <1>1, <1>8, <2>2, <3>2, <4>1
      <3> QED
        BY <1>1, <3>1, <3>2
    <2> QED
      BY <2>1, <2>2 DEF Nested
  <1> QED
    BY <1>1, <1>2, <1>5, <1>6, <1>7, <1>8 DEF t, n

\* The item at the head leaves the queue.
LEMMA OnTail ==
    ASSUME NEW S, NEW s \in Seq(S), s # <<>>
    PROVE  /\ Tail(s) \in Seq(S)
           /\ Head(s) \in S
           /\ \A e : On(s, e) <=> e = Head(s) \/ On(Tail(s), e)
           /\ \A T : Once(s, T) => /\ Once(Tail(s), T)
                                   /\ Head(s) \in T => \A e \in T : ~On(Tail(s), e)
           /\ \A d, e : Before(s, d, e) => /\ Before(Tail(s), d, e)
                                           /\ Head(s) = e => ~On(s, d)
  <1> DEFINE t == Tail(s)
             h == Head(s)
             n == Len(t)
  <1>1. /\ t \in Seq(S) /\ h \in S /\ h = s[1] /\ n \in Nat /\ Len(s) = n + 1
        /\ \A k \in 1..n : t[k] = s[k + 1]
    BY TailPoints
  <1> HIDE DEF t, h, n
  <1>2. \A k \in 1..Len(s) : k = 1 \/ k - 1 \in 1..n
    BY <1>1
  <1>3. \A k \in 1..n : k + 1 \in 1..Len(s) /\ k + 1 # 1
    BY <1>1
  <1>4. \A e : On(s, e) <=> e = h \/ On(t, e)
    <2>1. ASSUME NEW e, On(s, e) PROVE e = h \/ On(t, e)
      <3>1. PICK k \in 1..Len(s) : s[k] = e
        BY <2>1 DEF On
      <3>2. CASE k = 1
        BY <1>1, <3>1, <3>2
      <3>3. CASE k - 1 \in 1..n
        <4>1. t[k - 1] = e
          BY <1>1, <3>1, <3>3
        <4> QED
          BY <3>3, <4>1 DEF On, n
      <3> QED
        BY <1>2, <3>2, <3>3
    <2>2. ASSUME NEW e, On(t, e) PROVE On(s, e)
      BY <1>1, <1>3, <2>2 DEF On, n
    <2>3. On(s, h)
      BY <1>1 DEF On
    <2> QED
      BY <2>1, <2>2, <2>3
  <1>5. ASSUME NEW T, Once(s, T)
        PROVE  Once(t, T) /\ (h \in T => \A e \in T : ~On(t, e))
    <2>1. ASSUME NEW j \in 1..n, NEW k \in 1..n, t[j] \in T, t[k] \in T
          PROVE  j = k
      <3>1. j + 1 = k + 1
        BY <1>1, <1>3, <1>5, <2>1 DEF Once
      <3> QED
        BY <1>1, <3>1
    <2>2. ASSUME h \in T, NEW k \in 1..n, t[k] \in T
          PROVE  FALSE
      <3>1. 1 = k + 1
        BY <1>1, <1>3, <1>5, <2>2 DEF Once
      <3> QED
        BY <1>1, <3>1
    <2> QED
      BY <2>1, <2>2 DEF Once, On, n
  <1>6. ASSUME NEW d, NEW e, Before(s, d, e)
        PROVE  Before(t, d, e) /\ (h = e => ~On(s, d))
    <2>1. ASSUME NEW j \in 1..n, NEW k \in 1..n, t[j] = d, t[k] = e
          PROVE  j < k
      <3>1. j + 1 < k + 1
        BY <1>1, <1>3, <1>6, <2>1 DEF Before
      <3> QED
        BY <1>1, <3>1
    <2>2. ASSUME h = e, NEW j \in 1..Len(s), s[j] = d
          PROVE  FALSE
      <3>1. 1 \in 1..Len(s) /\ s[1] = e
        BY <1>1, <2>2
      <3>2. j < 1
        BY <1>6, <2>2, <3>1 DEF Before
      <3> QED
        BY <3>2
    <2> QED
      BY <2>1, <2>2 DEF Before, On, n
  <1> QED
    BY <1>1, <1>4, <1>5, <1>6 DEF t, h

\* The innermost activation, and those below it.
LEMMA OnCallers ==
    ASSUME stack \in Seq(Places), stack # <<>>
    PROVE  /\ Callers \in Seq(Places)
           /\ stack[Len(stack)] \in Places
           /\ \A e : On(stack, e) <=> On(Callers, e) \/ e = stack[Len(stack)]
           /\ \A T : Once(stack, T) =>
                 /\ Once(Callers, T)
                 /\ stack[Len(stack)] \in T => \A e \in T : ~On(Callers, e)
           /\ Nested(stack) =>
                 /\ Nested(Callers)
                 /\ ~On(Callers, "advance")
                 /\ Callers # <<>> /\ Callers[Len(Callers)] \in MovePlaces =>
                       stack[Len(stack)] = "test"
  <1> DEFINE n == Len(stack)
  <1>1. /\ n \in Nat \ {0} /\ stack[n] \in Places
        /\ Callers \in Seq(Places) /\ Len(Callers) = n - 1
        /\ \A k \in 1..(n - 1) : Callers[k] = stack[k]
    <2>1. n \in Nat \ {0} /\ stack[n] \in Places
      OBVIOUS
    <2> QED
      BY <2>1, FrontPoints DEF Callers
  <1>2. Callers # <<>> <=> n # 1
    <2>1. Callers = <<>> <=> Len(Callers) = 0
      BY <1>1
    <2> QED
      BY <1>1, <2>1
  <1> HIDE DEF n
  <1>3. \A k \in 1..n : k = n \/ k \in 1..(n - 1)
    BY <1>1
  <1>4. \A e : On(stack, e) <=> On(Callers, e) \/ e = stack[n]
    BY <1>1, <1>3 DEF On, n
  <1>5. ASSUME NEW T, Once(stack, T)
        PROVE  Once(Callers, T) /\ (stack[n] \in T => \A e \in T : ~On(Callers, e))
    <2>1. Once(Callers, T)
      BY <1>1, <1>5 DEF Once, n
    <2>2. ASSUME stack[n] \in T, NEW k \in 1..(n - 1), stack[k] \in T
          PROVE  FALSE
      <3>1. k = n
        BY <1>1, <1>5, <2>2 DEF Once, n
      <3> QED
        BY <1>1, <3>1
    <2> QED
      BY <1>1, <2>1, <2>2 DEF On
  <1>6. ASSUME Nested(stack)
        PROVE  /\ Nested(Callers)
               /\ ~On(Callers, "advance")
               /\ Callers # <<>> /\ Callers[Len(Callers)] \in MovePlaces =>
                     stack[n] = "test"
    <2>1. ~On(Callers, "advance")
      BY <1>1, <1>6 DEF On, Nested, n
    <2>2. Nested(Callers)
      <3>1. \A k \in 1..(Len(Callers) - 1) : k \in 1..(n - 1) /\ k + 1 \in 1..(n - 1)
        BY <1>1
      <3> QED
        BY <1>1, <1>6, <3>1 DEF Nested, n
    <2>3. ASSUME Callers # <<>>, Callers[Len(Callers)] \in MovePlaces
          PROVE  stack[n] = "test"
      <3>1. n - 1 \in 1..(n - 1) /\ n = (n - 1) + 1
        BY <1>1, <1>2, <2>3
      <3>2. stack[n - 1] \in MovePlaces
        BY <1>1, <2>3, <3>1
      <3> QED
        BY <1>6, <3>1, <3>2 DEF Nested, n
    <2> QED
      BY <2>1, <2>2, <2>3
  <1> QED
    BY <1>1, <1>4, <1>5, <1>6 DEF n

\* The innermost activation is in advance_scan: it has the turn, so nobody
\* else has.
LEMMA AtAdvance ==
    ASSUME IndInv, At("advance")
    PROVE  /\ fault = "none" /\ stack # <<>>
           /\ stack[Len(stack)] = "advance"
           /\ Callers \in Seq(Places)
           /\ \A e : On(stack, e) <=> On(Callers, e) \/ e = "advance"
           /\ \A e \in TurnPlaces : ~On(Callers, e)
           /\ \A q \in ScanRequest : ~On(queue, q)
           /\ queue # <<>> => Head(queue) \notin ScanRequest
           /\ Callers # <<>> => Callers[Len(Callers)] \notin MovePlaces
           /\ Nested(Callers)
           /\ Once(stack, MovePlaces) => Once(Callers, MovePlaces)
           /\ ~timer /\ loop \in {"running", "breaking"}
  <1>1. stack \in Seq(Places) /\ stack # <<>> /\ fault = "none"
        /\ stack[Len(stack)] = "advance"
    BY DEF At, IndInv, TypeOK
  <1>2. /\ Callers \in Seq(Places)
        /\ \A e : On(stack, e) <=> On(Callers, e) \/ e = "advance"
        /\ \A T : Once(stack, T) =>
                 /\ Once(Callers, T)
                 /\ "advance" \in T => \A e \in T : ~On(Callers, e)
        /\ Nested(Callers)
        /\ Callers # <<>> => Callers[Len(Callers)] \notin MovePlaces
    BY <1>1, OnCallers DEF IndInv, NestInv
  <1>3. Turn /\ Once(stack, TurnPlaces)
    BY <1>2 DEF Turn, TurnPlaces, IndInv, TurnInv
  <1>4. \A e \in TurnPlaces : ~On(Callers, e)
    BY <1>2, <1>3 DEF TurnPlaces
  <1>5. ~timer /\ \A q \in ScanRequest : ~On(queue, q)
    BY <1>3 DEF IndInv, TurnInv, ScanQueued
  <1>6. loop \in {"running", "breaking"}
    BY <1>1 DEF IndInv, StateInv, TypeOK
  <1>7. queue # <<>> => On(queue, Head(queue))
    BY OnTail DEF IndInv, TypeOK
  <1> QED
    BY <1>1, <1>2, <1>4, <1>5, <1>6, <1>7

\* queue_schedule
LEMMA SchedulePoints ==
    ASSUME TypeOK, NEW q \in Request, NEW frames \in Seq(Places),
           queue_schedule(q, frames)
    PROVE  /\ queue' \in Seq(Request) /\ queue' # <<>> /\ is_busy' = is_busy
           /\ Head(queue') = IF queue = <<>> THEN q ELSE Head(queue)
           /\ \A e : On(queue', e) <=> On(queue, e) \/ e = q
           /\ /\ Once(queue, ScanRequest)
              /\ q \in ScanRequest => \A e \in ScanRequest : ~On(queue, e)
              => Once(queue', ScanRequest)
           /\ /\ Before(queue, "pinned", "break")
              /\ q = "pinned" => ~On(queue, "break")
              => Before(queue', "pinned", "break")
           /\ stack' \in Seq(Places)
           /\ \A e : On(stack', e) <=> On(frames, e) \/ (~is_busy /\ e = "test")
           /\ \A T \in {TurnPlaces, MovePlaces} : Once(frames, T) => Once(stack', T)
           /\ Nested(frames) /\ ~On(frames, "advance") => Nested(stack')
           /\ ~is_busy => stack' # <<>> /\ stack'[Len(stack')] = "test"
           /\ is_busy => stack' = frames
  <1>1. queue \in Seq(Request) /\ "test" \in Places
        /\ "test" \notin TurnPlaces /\ "test" \notin MovePlaces /\ "pinned" # "break"
    BY DEF TypeOK, Places, TurnPlaces, MovePlaces
  <1>2. queue' = Append(queue, q) /\ is_busy' = is_busy
        /\ stack' = IF is_busy THEN frames ELSE Append(frames, "test")
    BY DEF queue_schedule
  <1>3. /\ queue' \in Seq(Request) /\ queue' # <<>>
        /\ Head(queue') = IF queue = <<>> THEN q ELSE Head(queue)
        /\ \A e : On(queue', e) <=> On(queue, e) \/ e = q
        /\ /\ Once(queue, ScanRequest)
           /\ q \in ScanRequest => \A e \in ScanRequest : ~On(queue, e)
           => Once(queue', ScanRequest)
        /\ /\ Before(queue, "pinned", "break")
           /\ q = "pinned" => ~On(queue, "break")
           => Before(queue', "pinned", "break")
    BY <1>1, <1>2, OnAppend
  <1>4. /\ Append(frames, "test") \in Seq(Places)
        /\ Append(frames, "test") # <<>>
        /\ Append(frames, "test")[Len(Append(frames, "test"))] = "test"
        /\ \A e : On(Append(frames, "test"), e) <=> On(frames, e) \/ e = "test"
        /\ \A T \in {TurnPlaces, MovePlaces} :
              Once(frames, T) => Once(Append(frames, "test"), T)
        /\ Nested(frames) /\ ~On(frames, "advance") => Nested(Append(frames, "test"))
    BY <1>1, OnAppend
  <1>5. CASE is_busy
    BY <1>2, <1>3, <1>5
  <1>6. CASE ~is_busy
    BY <1>2, <1>3, <1>4, <1>6
  <1> QED
    BY <1>5, <1>6

\* advance_scan has scheduled q and will go on at p.
LEMMA AdvanceSchedules ==
    ASSUME IndInv, At("advance"), NEW q \in Request, NEW p \in Places,
           p # "advance", queue_schedule(q, Append(Callers, p))
    PROVE  /\ queue' \in Seq(Request) /\ queue' # <<>> /\ is_busy' = is_busy
           /\ Head(queue') = IF queue = <<>> THEN q ELSE Head(queue)
           /\ \A e : On(queue', e) <=> On(queue, e) \/ e = q
           /\ Once(queue', ScanRequest)
           /\ q # "pinned" => Before(queue', "pinned", "break")
           /\ stack' \in Seq(Places) /\ stack' # <<>>
           /\ \A e : On(stack', e) <=>
                        On(Callers, e) \/ e = p \/ (~is_busy /\ e = "test")
           /\ Once(stack', TurnPlaces)
           /\ /\ Once(stack, MovePlaces)
              /\ p \in MovePlaces => \A e \in MovePlaces : ~On(stack, e)
              => Once(stack', MovePlaces)
           /\ Nested(stack')
           /\ stack'[Len(stack')] = IF is_busy THEN p ELSE "test"
  <1> DEFINE f == Append(Callers, p)
  <1>1. /\ Callers \in Seq(Places) /\ Nested(Callers)
        /\ \A e : On(stack, e) <=> On(Callers, e) \/ e = "advance"
        /\ \A e \in TurnPlaces : ~On(Callers, e)
        /\ Callers # <<>> => Callers[Len(Callers)] \notin MovePlaces
        /\ Once(stack, MovePlaces) => Once(Callers, MovePlaces)
        /\ \A e \in ScanRequest : ~On(queue, e)
    BY AtAdvance
  <1>2. Once(Callers, TurnPlaces)
    <2>1. stack \in Seq(Places) /\ stack # <<>> /\ Once(stack, TurnPlaces)
      BY DEF At, IndInv, TypeOK, TurnInv
    <2> QED
      BY <2>1, OnCallers
  <1>3. ~On(Callers, "advance") /\ "advance" \notin MovePlaces
    BY <1>1 DEF TurnPlaces, MovePlaces
  <1>4. /\ f \in Seq(Places) /\ f # <<>> /\ f[Len(f)] = p
        /\ \A e : On(f, e) <=> On(Callers, e) \/ e = p
        /\ Once(f, TurnPlaces)
        /\ /\ Once(Callers, MovePlaces)
           /\ p \in MovePlaces => \A e \in MovePlaces : ~On(Callers, e)
           => Once(f, MovePlaces)
        /\ Nested(f)
    BY <1>1, <1>2, <1>3, OnAppend
  <1>5. ~On(f, "advance")
    BY <1>3, <1>4
  <1> HIDE DEF f
  <1>6. /\ queue' \in Seq(Request) /\ queue' # <<>> /\ is_busy' = is_busy
        /\ Head(queue') = IF queue = <<>> THEN q ELSE Head(queue)
        /\ \A e : On(queue', e) <=> On(queue, e) \/ e = q
        /\ Once(queue', ScanRequest)
        /\ q # "pinned" => Before(queue', "pinned", "break")
        /\ stack' \in Seq(Places)
        /\ \A e : On(stack', e) <=> On(f, e) \/ (~is_busy /\ e = "test")
        /\ \A T \in {TurnPlaces, MovePlaces} : Once(f, T) => Once(stack', T)
        /\ Nested(stack')
        /\ ~is_busy => stack' # <<>> /\ stack'[Len(stack')] = "test"
        /\ is_busy => stack' = f
    <2>1. TypeOK /\ Once(queue, ScanRequest) /\ Before(queue, "pinned", "break")
      BY DEF IndInv, TurnInv, BreakInv
    <2>2. queue_schedule(q, f)
      BY DEF f
    <2> QED
      BY <1>1, <1>4, <1>5, <2>1, <2>2, SchedulePoints
  <1> QED
    BY <1>1, <1>3, <1>4, <1>6

-----------------------------------------------------------------------------
(* The names of the requests, and the chain tree. *)

\* The entries of scan_helpers are different requests, and none of those for
\* chains.
LEMMA HelperNames ==
    /\ Len(scan_helpers) = 6
    /\ scan_helpers[1] = "filters"
    /\ \A k \in 1..6 : /\ scan_helpers[k] \in ScanRequest
                       /\ scan_helpers[k] # "chains" /\ scan_helpers[k] # "chain"
    /\ \A k \in 1..6 : scan_helpers[k] = "filters" => k = 1
    /\ \A j, k \in 1..6 : scan_helpers[j] = scan_helpers[k] => j = k
    /\ \A q \in ScanRequest : \/ q = "chains" \/ q = "chain"
                              \/ \E k \in 1..6 : q = scan_helpers[k]
    /\ {"chains", "chain"} \subseteq ScanRequest
    /\ ScanRequest \subseteq Request
    /\ {"pinned", "rule", "break"} \subseteq Request \ ScanRequest
  <1>1. /\ Len(scan_helpers) = 6 /\ 1..6 = {1, 2, 3, 4, 5, 6}
        /\ scan_helpers[1] = "filters" /\ scan_helpers[2] = "links"
        /\ scan_helpers[3] = "neigh4" /\ scan_helpers[4] = "neigh6"
        /\ scan_helpers[5] = "route4" /\ scan_helpers[6] = "route6"
    BY DEF scan_helpers
  <1>2. ScanRequest = {scan_helpers[k] : k \in 1..6} \union {"chains", "chain"}
    BY <1>1 DEF ScanRequest
  <1>3. ScanRequest = {"filters", "links", "neigh4", "neigh6", "route4", "route6",
                       "chains", "chain"}
    BY <1>1, <1>2
  <1> QED
    BY <1>1, <1>2, <1>3 DEF Request, RuleRequest

\* rb_first and rb_next find the chains in order, and miss none.
LEMMA ChainOrder ==
    ASSUME NEW S \in SUBSET Chain
    PROVE  /\ FirstOf(S) = NoChain <=> S = {}
           /\ S # {} => FirstOf(S) \in S
           /\ FirstOf(S) \in Chain \union {NoChain}
           /\ \A c \in S : FirstOf(S) <= c
  <1>1. S \subseteq Nat /\ \A c \in Chain : c \in Nat /\ c # NoChain
    BY ChainAssumption DEF NoChain
  <1>2. CASE S = {}
    BY <1>2 DEF FirstOf
  <1>3. CASE S # {}
    <2>1. \E c \in S : \A d \in S : c <= d
      BY <1>1, <1>3, LeastNumber
    <2>2. FirstOf(S) \in S /\ \A d \in S : FirstOf(S) <= d
      BY <1>3, <2>1 DEF FirstOf
    <2> QED
      BY <1>1, <1>3, <2>2
  <1> QED
    BY <1>2, <1>3

-----------------------------------------------------------------------------
(* The steps of advance_scan. *)

\* The first call starts with the helpers.
LEMMA scan_newKeeps ==
    ASSUME IndInv, scan_new
    PROVE  IndInv'
  <1>1. /\ state = "NEW" /\ state' = "RUN_HELPERS" /\ At("advance")
        /\ UNCHANGED <<helper_idx, next_chain, q_chain_no, timer, queue, is_busy,
                       chain_tree, pinned, mon, loop, one_off, stack, round,
                       fault, left>>
    BY DEF scan_new, Case, queueVars, worldVars
  <1>2. /\ \A e \in TurnPlaces : ~On(Callers, e)
        /\ \A e : On(stack, e) <=> On(Callers, e) \/ e = "advance"
        /\ \A q \in ScanRequest : ~On(queue, q)
    BY <1>1, AtAdvance
  <1>3. TypeOK' /\ BoundsOK'
    BY <1>1 DEF IndInv, TypeOK, BoundsOK
  <1>4. TurnInv'
    BY <1>1 DEF IndInv, TurnInv, Turn, ScanQueued
  <1>5. StateInv' /\ NestInv'
    BY <1>1, <1>2 DEF IndInv, StateInv, NestInv, TurnInv, Moves, ScanQueued, TurnPlaces, MovePlaces
  <1>6. OrderInv'
    BY <1>1, <1>2, HelperNames
       DEF IndInv, OrderInv, StateInv, HelperInv, ChainsInv, ChainInv, AdvanceInv,
           Moves, AllDumped, ChainsDumped, HelpersDumped, Dumped
  <1>7. BreakInv'
    BY <1>1 DEF IndInv, BreakInv
  <1> QED
    BY <1>3, <1>4, <1>5, <1>6, <1>7 DEF IndInv

\* The next helper is scheduled.
LEMMA run_helperKeeps ==
    ASSUME IndInv, run_helper
    PROVE  IndInv'
  <1> DEFINE h == scan_helpers[helper_idx + 1]
  <1>1. /\ state = "RUN_HELPERS" /\ At("advance")
        /\ helper_idx \in 0..5
        /\ queue_schedule(h, Append(Callers, "helper"))
        /\ UNCHANGED <<state, helper_idx, next_chain, q_chain_no, timer,
                       chain_tree, pinned, mon, loop, one_off, round, fault, left>>
    BY HelperNames DEF run_helper, Case, scanVars, worldVars, IndInv, TypeOK
  <1>2. h \in ScanRequest /\ h \in Request /\ "helper" \in Places
        /\ h \notin {"pinned", "break", "chains", "chain"}
        /\ \A j \in 1..6 : h = scan_helpers[j] => j = helper_idx + 1
    BY <1>1, HelperNames DEF Places
  <1> HIDE DEF h
  <1>3. /\ \A e \in TurnPlaces : ~On(Callers, e)
        /\ \A e : On(stack, e) <=> On(Callers, e) \/ e = "advance"
        /\ \A q \in ScanRequest : ~On(queue, q)
        /\ queue # <<>> => Head(queue) \notin ScanRequest
        /\ fault = "none" /\ ~timer /\ loop \in {"running", "breaking"}
    BY <1>1, AtAdvance
  <1>4. /\ queue' \in Seq(Request) /\ queue' # <<>> /\ is_busy' = is_busy
        /\ Head(queue') = IF queue = <<>> THEN h ELSE Head(queue)
        /\ \A e : On(queue', e) <=> On(queue, e) \/ e = h
        /\ Once(queue', ScanRequest)
        /\ Before(queue', "pinned", "break")
        /\ stack' \in Seq(Places) /\ stack' # <<>>
        /\ \A e : On(stack', e) <=>
                     On(Callers, e) \/ e = "helper" \/ (~is_busy /\ e = "test")
        /\ Once(stack', TurnPlaces)
        /\ (\A e \in MovePlaces : ~On(stack, e)) /\ Once(stack, MovePlaces) =>
              Once(stack', MovePlaces)
        /\ Nested(stack')
        /\ stack'[Len(stack')] = IF is_busy THEN "helper" ELSE "test"
    BY <1>1, <1>2, AdvanceSchedules
  <1>5. TypeOK' /\ BoundsOK'
    BY <1>1, <1>4 DEF IndInv, TypeOK, BoundsOK
  <1>6. ~Turn' /\ ScanQueued'
    BY <1>2, <1>3, <1>4 DEF Turn, ScanQueued, TurnPlaces
  <1>7. TurnInv'
    BY <1>1, <1>3, <1>4, <1>6 DEF TurnInv
  <1>8. StateInv'
    BY <1>1, <1>3, <1>4, <1>6 DEF StateInv, Turn, TurnPlaces
  <1>9. NestInv'
    BY <1>1, <1>3, <1>4, <1>6, HelperNames
       DEF IndInv, NestInv, Moves, MovePlaces, Turn, TurnPlaces
  <1>10. OrderInv'
    <2>1. SUFFICES ASSUME ~round.failed PROVE OrderInv'
      BY <1>1 DEF OrderInv
    <2>2. /\ \A e \in MovePlaces : ~On(stack, e)
          /\ Once(stack, MovePlaces)
          /\ helper_idx = 0 \/ (ChainsDumped /\ HelpersDumped(helper_idx))
      BY <1>1, <1>3, <2>1 DEF IndInv, OrderInv, Moves, AdvanceInv
    <2>3. ~On(stack', "chain") /\ On(stack', "helper")
      BY <1>3, <1>4, <2>2 DEF MovePlaces
    <2>4. HelperInv'
      <3>1. \A j \in 1..6 : On(queue', scan_helpers[j]) => j = helper_idx + 1
        BY <1>2, <1>3, <1>4, HelperNames
      <3>2. ~(is_busy /\ Head(queue') = "filters")
        BY <1>3, <1>4, HelperNames DEF IndInv, StateInv
      <3> QED
        BY <1>1, <2>2, <2>3, <3>1, <3>2, <1>4, HelperNames
           DEF HelperInv, ChainsDumped, HelpersDumped, Dumped
    <2>5. ChainsInv' /\ ChainInv'
      BY <1>2, <1>3, <1>4, HelperNames DEF ChainsInv, ChainInv
    <2>6. AdvanceInv'
      BY <1>6 DEF AdvanceInv, Turn, TurnPlaces
    <2>7. (Moves => ~On(stack, "advance"))'
      BY <1>6 DEF Turn, TurnPlaces
    <2> QED
      BY <1>1, <1>3, <1>4, <1>6, <2>2, <2>4, <2>5, <2>6, <2>7
         DEF OrderInv, Turn, TurnPlaces
  <1>11. BreakInv'
    BY <1>1, <1>2, <1>3, <1>4 DEF IndInv, BreakInv, TurnPlaces
  <1> QED
    BY <1>5, <1>7, <1>8, <1>9, <1>10, <1>11 DEF IndInv

\* The helpers have all been dumped.
LEMMA helpers_doneKeeps ==
    ASSUME IndInv, helpers_done
    PROVE  IndInv'
  <1>1. /\ state = "RUN_HELPERS" /\ state' = "DONE" /\ At("advance")
        /\ helper_idx = 6 /\ helper_idx' = 0
        /\ UNCHANGED <<next_chain, q_chain_no, timer, queue, is_busy,
                       chain_tree, pinned, mon, loop, one_off, stack, round,
                       fault, left>>
    BY HelperNames DEF helpers_done, Case, queueVars, worldVars
  <1>2. /\ \A e \in TurnPlaces : ~On(Callers, e)
        /\ \A e : On(stack, e) <=> On(Callers, e) \/ e = "advance"
        /\ \A q \in ScanRequest : ~On(queue, q)
        /\ ~timer
    BY <1>1, AtAdvance
  <1>3. TypeOK' /\ BoundsOK'
    BY <1>1 DEF IndInv, TypeOK, BoundsOK
  <1>4. TurnInv'
    BY <1>1 DEF IndInv, TurnInv, Turn, ScanQueued
  <1>5. ~Moves
    BY <1>1, <1>2, HelperNames DEF IndInv, NestInv, Moves, MovePlaces
  <1>6. StateInv'
    BY <1>1, <1>2 DEF IndInv, StateInv, TurnPlaces, ScanQueued
  <1>7. NestInv'
    BY <1>1, <1>2, <1>5 DEF IndInv, NestInv, Moves, ScanQueued, MovePlaces
  <1>8. OrderInv'
    <2>1. SUFFICES ASSUME ~round.failed PROVE OrderInv'
      BY <1>1 DEF OrderInv
    <2>2. AllDumped /\ fault = "none" /\ Once(stack, MovePlaces)
      BY <1>1, <1>2, <2>1, HelperNames DEF IndInv, OrderInv, AdvanceInv, AllDumped
    <2>3. HelperInv' /\ ChainsInv' /\ ChainInv'
      BY <1>1, <1>2, HelperNames DEF HelperInv, ChainsInv, ChainInv
    <2>4. AllDumped'
      BY <1>1, <2>2 DEF AllDumped, ChainsDumped, HelpersDumped, Dumped
    <2> QED
      BY <1>1, <1>5, <2>2, <2>3, <2>4 DEF OrderInv, AdvanceInv, Moves
  <1>9. BreakInv'
    BY <1>1 DEF IndInv, BreakInv
  <1> QED
    BY <1>3, <1>4, <1>6, <1>7, <1>8, <1>9 DEF IndInv

\* The list of chains is scheduled.
LEMMA dump_chainsKeeps ==
    ASSUME IndInv, dump_chains
    PROVE  IndInv'
  <1>1. /\ state = "DUMP_CHAINS" /\ state' = "DUMP_EACH_CHAIN_INIT" /\ At("advance")
        /\ queue_schedule("chains", Append(Callers, "return"))
        /\ UNCHANGED <<helper_idx, next_chain, q_chain_no, timer, chain_tree,
                       pinned, mon, loop, one_off, round, fault, left>>
    BY DEF dump_chains, Case, worldVars
  <1>2. "chains" \in Request /\ "return" \in Places
    BY HelperNames DEF Places
  <1>3. /\ \A e \in TurnPlaces : ~On(Callers, e)
        /\ \A e : On(stack, e) <=> On(Callers, e) \/ e = "advance"
        /\ \A q \in ScanRequest : ~On(queue, q)
        /\ fault = "none" /\ ~timer /\ loop \in {"running", "breaking"}
    BY <1>1, AtAdvance
  <1>4. /\ queue' \in Seq(Request) /\ queue' # <<>> /\ is_busy' = is_busy
        /\ \A e : On(queue', e) <=> On(queue, e) \/ e = "chains"
        /\ Once(queue', ScanRequest)
        /\ Before(queue', "pinned", "break")
        /\ stack' \in Seq(Places) /\ stack' # <<>>
        /\ \A e : On(stack', e) <=>
                     On(Callers, e) \/ e = "return" \/ (~is_busy /\ e = "test")
        /\ Once(stack', TurnPlaces)
        /\ Once(stack, MovePlaces) => Once(stack', MovePlaces)
        /\ Nested(stack')
        /\ stack'[Len(stack')] = IF is_busy THEN "return" ELSE "test"
    <2>1. "return" \notin MovePlaces
      BY DEF MovePlaces
    <2> QED
      BY <1>1, <1>2, <2>1, AdvanceSchedules
  <1>5. TypeOK' /\ BoundsOK'
    BY <1>1, <1>4 DEF IndInv, TypeOK, BoundsOK
  <1>6. ~Turn' /\ ScanQueued'
    BY <1>3, <1>4, HelperNames DEF Turn, ScanQueued, TurnPlaces
  <1>7. TurnInv'
    BY <1>1, <1>3, <1>4, <1>6 DEF TurnInv
  <1>8. StateInv'
    BY <1>1, <1>3, <1>4, <1>6 DEF StateInv, Turn, TurnPlaces
  <1>9. NestInv'
    BY <1>1, <1>3, <1>4, <1>6
       DEF IndInv, NestInv, Moves, MovePlaces, Turn, TurnPlaces
  <1>10. OrderInv'
    <2>1. SUFFICES ASSUME ~round.failed PROVE OrderInv'
      BY <1>1 DEF OrderInv
    <2>2. /\ \A e \in MovePlaces : ~On(stack, e)
          /\ Once(stack, MovePlaces)
          /\ helper_idx = 1 /\ Dumped("filters")
      BY <1>1, <1>3, <2>1 DEF IndInv, OrderInv, Moves, AdvanceInv
    <2>3. ~Moves'
      BY <1>3, <1>4, <2>2 DEF Moves, MovePlaces
    <2>4. HelperInv' /\ ChainsInv' /\ ChainInv'
      BY <1>1, <1>3, <1>4, <2>2, <2>3, HelperNames
         DEF HelperInv, ChainsInv, ChainInv, Dumped
    <2> QED
      BY <1>1, <1>3, <1>4, <1>6, <2>2, <2>3, <2>4
         DEF OrderInv, AdvanceInv, Turn, TurnPlaces
  <1>11. BreakInv'
    BY <1>1, <1>3, <1>4 DEF IndInv, BreakInv, TurnPlaces
  <1> QED
    BY <1>5, <1>7, <1>8, <1>9, <1>10, <1>11 DEF IndInv

\* The walk over the chains begins, or there are none.
LEMMA dump_each_chain_initKeeps ==
    ASSUME IndInv, dump_each_chain_init
    PROVE  IndInv'
  <1>1. /\ state = "DUMP_EACH_CHAIN_INIT" /\ At("advance")
        /\ next_chain' = rb_first
        /\ state' = IF rb_first = NoChain THEN "RUN_HELPERS" ELSE "DUMP_EACH_CHAIN"
        /\ round' = [round EXCEPT !.seen = chain_tree]
        /\ UNCHANGED <<helper_idx, q_chain_no, timer, queue, is_busy,
                       chain_tree, pinned, mon, loop, one_off, stack, fault, left>>
    BY DEF dump_each_chain_init, Case, queueVars, worldVars
  <1>2. /\ \A e \in TurnPlaces : ~On(Callers, e)
        /\ \A e : On(stack, e) <=> On(Callers, e) \/ e = "advance"
        /\ \A q \in ScanRequest : ~On(queue, q)
        /\ ~timer
    BY <1>1, AtAdvance
  <1>3. /\ round'.failed = round.failed /\ round'.dumped = round.dumped
        /\ round'.seen = chain_tree
        /\ chain_tree \subseteq Chain
    BY <1>1 DEF IndInv, BoundsOK, TypeOK
  <1>4. /\ rb_first \in Chain \union {NoChain}
        /\ rb_first = NoChain <=> chain_tree = {}
        /\ \A c \in chain_tree : c >= rb_first
    <2>1. \A c \in chain_tree : rb_first <= c
      BY <1>3, ChainOrder DEF rb_first
    <2> QED
      BY <1>3, <2>1, ChainOrder DEF rb_first
  <1>5. TypeOK' /\ BoundsOK'
    BY <1>1, <1>3, <1>4 DEF IndInv, TypeOK, BoundsOK
  <1>6. TurnInv'
    BY <1>1 DEF IndInv, TurnInv, Turn, ScanQueued
  <1>7. StateInv'
    BY <1>1, <1>2 DEF IndInv, StateInv, TurnPlaces, ScanQueued
  <1>8. NestInv'
    BY <1>1, <1>2 DEF IndInv, NestInv, Moves, ScanQueued, MovePlaces
  <1>9. OrderInv'
    <2>1. SUFFICES ASSUME ~round.failed PROVE OrderInv'
      BY <1>3 DEF OrderInv
    <2>2. /\ fault = "none" /\ ~Moves /\ Once(stack, MovePlaces)
          /\ helper_idx = 1 /\ Dumped("filters") /\ Dumped("chains")
      BY <1>1, <1>2, <2>1 DEF IndInv, OrderInv, AdvanceInv
    <2>3. HelperInv' /\ ChainsInv' /\ ChainInv'
      BY <1>1, <1>2, HelperNames DEF HelperInv, ChainsInv, ChainInv
    <2>4. AdvanceInv'
      <3>1. Dumped("filters")' /\ Dumped("chains")' /\ HelpersDumped(1)'
        BY <1>3, <2>2, HelperNames DEF Dumped, HelpersDumped
      <3>2. CASE rb_first = NoChain
        BY <1>1, <1>3, <1>4, <2>2, <3>1, <3>2, HelperNames
           DEF AdvanceInv, ChainsDumped
      <3>3. CASE rb_first # NoChain
        BY <1>1, <1>3, <1>4, <2>2, <3>1, <3>3 DEF AdvanceInv, ToWalk
      <3> QED
        BY <3>2, <3>3
    <2> QED
      BY <1>1, <1>2, <2>2, <2>3, <2>4 DEF OrderInv, Moves, TurnPlaces
  <1>10. BreakInv'
    BY <1>1 DEF IndInv, BreakInv
  <1> QED
    BY <1>5, <1>6, <1>7, <1>8, <1>9, <1>10 DEF IndInv

\* The dump of a chain is scheduled.
LEMMA dump_each_chainKeeps ==
    ASSUME IndInv, dump_each_chain
    PROVE  IndInv'
  <1>1. /\ state = "DUMP_EACH_CHAIN" /\ At("advance")
        /\ next_chain # NoChain /\ q_chain_no' = next_chain
        /\ queue_schedule("chain", Append(Callers, "chain"))
        /\ UNCHANGED <<state, helper_idx, next_chain, timer, chain_tree,
                       pinned, mon, loop, one_off, round, fault, left>>
    BY DEF dump_each_chain, Case, worldVars
  <1>2. "chain" \in Request /\ "chain" \in Places
    BY HelperNames DEF Places
  <1>3. /\ \A e \in TurnPlaces : ~On(Callers, e)
        /\ \A e : On(stack, e) <=> On(Callers, e) \/ e = "advance"
        /\ \A q \in ScanRequest : ~On(queue, q)
        /\ fault = "none" /\ ~timer /\ loop \in {"running", "breaking"}
    BY <1>1, AtAdvance
  <1>4. /\ queue' \in Seq(Request) /\ queue' # <<>> /\ is_busy' = is_busy
        /\ \A e : On(queue', e) <=> On(queue, e) \/ e = "chain"
        /\ Once(queue', ScanRequest)
        /\ Before(queue', "pinned", "break")
        /\ stack' \in Seq(Places) /\ stack' # <<>>
        /\ \A e : On(stack', e) <=>
                     On(Callers, e) \/ e = "chain" \/ (~is_busy /\ e = "test")
        /\ Once(stack', TurnPlaces)
        /\ (\A e \in MovePlaces : ~On(stack, e)) /\ Once(stack, MovePlaces) =>
              Once(stack', MovePlaces)
        /\ Nested(stack')
        /\ stack'[Len(stack')] = IF is_busy THEN "chain" ELSE "test"
    BY <1>1, <1>2, AdvanceSchedules
  <1>5. TypeOK' /\ BoundsOK'
    BY <1>1, <1>4 DEF IndInv, TypeOK, BoundsOK
  <1>6. ~Turn' /\ ScanQueued'
    BY <1>3, <1>4, HelperNames DEF Turn, ScanQueued, TurnPlaces
  <1>7. TurnInv'
    BY <1>1, <1>3, <1>4, <1>6 DEF TurnInv
  <1>8. StateInv'
    BY <1>1, <1>3, <1>4, <1>6 DEF StateInv, Turn, TurnPlaces
  <1>9. NestInv'
    BY <1>1, <1>3, <1>4, <1>6
       DEF IndInv, NestInv, Moves, MovePlaces, Turn, TurnPlaces
  <1>10. OrderInv'
    <2>1. SUFFICES ASSUME ~round.failed PROVE OrderInv'
      BY <1>1 DEF OrderInv
    <2>2. /\ \A e \in MovePlaces : ~On(stack, e)
          /\ Once(stack, MovePlaces)
          /\ helper_idx = 1 /\ Dumped("filters") /\ Dumped("chains")
          /\ round.seen \subseteq chain_tree
          /\ \A c \in round.seen : <<"chain", c>> \in round.dumped \/ ToWalk(c)
      BY <1>1, <1>3, <2>1 DEF IndInv, OrderInv, Moves, AdvanceInv
    <2>3. ~On(stack', "helper")
      BY <1>3, <1>4, <2>2 DEF MovePlaces
    <2>4. HelperInv' /\ ChainsInv'
      BY <1>3, <1>4, HelperNames DEF HelperInv, ChainsInv
    <2>5. ChainInv'
      BY <1>1, <2>2, <2>3 DEF ChainInv, Dumped, ToWalk
    <2> QED
      BY <1>1, <1>3, <1>4, <1>6, <2>2, <2>4, <2>5
         DEF OrderInv, AdvanceInv, Turn, TurnPlaces
  <1>11. BreakInv'
    BY <1>1, <1>3, <1>4 DEF IndInv, BreakInv, TurnPlaces
  <1> QED
    BY <1>5, <1>7, <1>8, <1>9, <1>10, <1>11 DEF IndInv

\* The innermost activation returns.
LEMMA Returns ==
    ASSUME IndInv, stack # <<>>, stack' = Callers
    PROVE  /\ stack' \in Seq(Places)
           /\ \A e : On(stack, e) <=> On(stack', e) \/ e = stack[Len(stack)]
           /\ Once(stack', TurnPlaces)
           /\ stack[Len(stack)] \in TurnPlaces => \A e \in TurnPlaces : ~On(stack', e)
           /\ Once(stack, MovePlaces) =>
                 /\ Once(stack', MovePlaces)
                 /\ stack[Len(stack)] \in MovePlaces => \A e \in MovePlaces : ~On(stack', e)
           /\ Nested(stack') /\ ~On(stack', "advance")
           /\ stack' # <<>> /\ stack'[Len(stack')] \in MovePlaces =>
                 stack[Len(stack)] = "test"
           /\ loop \in {"running", "breaking"}
  <1>1. stack \in Seq(Places) /\ Once(stack, TurnPlaces) /\ Nested(stack)
    BY DEF IndInv, TypeOK, TurnInv, NestInv
  <1>2. loop \in {"running", "breaking"}
    BY DEF IndInv, TypeOK, StateInv
  <1> QED
    BY <1>1, <1>2, OnCallers

\* A helper has been scheduled: the scan moves on to the next one.
LEMMA helper_scheduledKeeps ==
    ASSUME IndInv, helper_scheduled
    PROVE  IndInv'
  <1>1. /\ stack # <<>> /\ stack[Len(stack)] = "helper" /\ stack' = Callers
        /\ helper_idx' = helper_idx + 1 /\ helper_idx' \in Nat
        /\ UNCHANGED <<state, next_chain, q_chain_no, timer, queue, is_busy,
                       chain_tree, pinned, mon, loop, one_off, round, fault, left>>
    BY DEF helper_scheduled, At, queueVars, worldVars, IndInv, TypeOK
  <1>2. /\ stack' \in Seq(Places)
        /\ \A e : On(stack, e) <=> On(stack', e) \/ e = "helper"
        /\ Once(stack', TurnPlaces)
        /\ Once(stack, MovePlaces) =>
              Once(stack', MovePlaces) /\ \A e \in MovePlaces : ~On(stack', e)
        /\ Nested(stack') /\ ~On(stack', "advance")
        /\ ~(stack' # <<>> /\ stack'[Len(stack')] \in MovePlaces)
        /\ loop \in {"running", "breaking"}
    BY <1>1, Returns DEF MovePlaces
  <1>3. is_busy /\ ScanQueued /\ ~Turn /\ ~timer
    <2>1. is_busy /\ Moves /\ ~On(stack, "advance")
      BY <1>1, <1>2 DEF IndInv, NestInv, Moves, MovePlaces
    <2>2. ScanQueued
      BY <2>1 DEF IndInv, NestInv
    <2> QED
      BY <2>1, <2>2 DEF IndInv, TurnInv
  <1>4. TypeOK' /\ BoundsOK'
    BY <1>1, <1>2 DEF IndInv, TypeOK, BoundsOK
  <1>5. ~Turn' /\ ScanQueued'
    BY <1>1, <1>2, <1>3 DEF Turn, ScanQueued, TurnPlaces
  <1>6. TurnInv'
    BY <1>1, <1>2, <1>3, <1>5 DEF IndInv, TurnInv
  <1>7. StateInv'
    BY <1>1, <1>2, <1>3, <1>5 DEF IndInv, StateInv, Turn, TurnPlaces
  <1>8. NestInv'
    BY <1>1, <1>2, <1>3, <1>5 DEF NestInv
  <1>9. OrderInv'
    <2>1. SUFFICES ASSUME ~round.failed PROVE OrderInv'
      BY <1>1 DEF OrderInv
    <2>2. /\ fault = "none" /\ Once(stack', MovePlaces)
          /\ \A e \in MovePlaces : ~On(stack', e)
          /\ HelperInv /\ ChainsInv /\ ChainInv
      BY <1>2, <2>1 DEF IndInv, OrderInv
    <2>3. On(stack, "helper") /\ Moves
      BY <1>2 DEF Moves, MovePlaces
    <2>4. HelperInv'
      BY <1>1, <2>2, <2>3, HelperNames, SMTT(30)
         DEF HelperInv, ChainsDumped, HelpersDumped, Dumped, MovePlaces
    <2>5. ChainsInv' /\ ChainInv'
      BY <1>1, <2>2, <2>3 DEF ChainsInv, ChainInv
    <2> QED
      BY <1>1, <1>2, <1>3, <1>5, <2>2, <2>4, <2>5
         DEF OrderInv, AdvanceInv, Turn, TurnPlaces
  <1>10. BreakInv'
    BY <1>1, <1>2 DEF IndInv, BreakInv
  <1> QED
    BY <1>4, <1>6, <1>7, <1>8, <1>9, <1>10 DEF IndInv

\* The dump of a chain has been scheduled: the walk moves on to the next one.
LEMMA chain_scheduledKeeps ==
    ASSUME IndInv, chain_scheduled
    PROVE  IndInv'
  <1>1. /\ stack # <<>> /\ stack[Len(stack)] = "chain" /\ stack' = Callers
        /\ next_chain # NoChain
        /\ next_chain' = rb_next(next_chain)
        /\ state' = IF next_chain' = NoChain THEN "RUN_HELPERS" ELSE state
        /\ UNCHANGED <<helper_idx, q_chain_no, timer, queue, is_busy,
                       chain_tree, pinned, mon, loop, one_off, round, fault, left>>
    BY DEF chain_scheduled, At, queueVars, worldVars
  <1>2. /\ stack' \in Seq(Places)
        /\ \A e : On(stack, e) <=> On(stack', e) \/ e = "chain"
        /\ Once(stack', TurnPlaces)
        /\ Once(stack, MovePlaces) =>
              Once(stack', MovePlaces) /\ \A e \in MovePlaces : ~On(stack', e)
        /\ Nested(stack') /\ ~On(stack', "advance")
        /\ ~(stack' # <<>> /\ stack'[Len(stack')] \in MovePlaces)
        /\ loop \in {"running", "breaking"}
    BY <1>1, Returns DEF MovePlaces
  <1>3. is_busy /\ ScanQueued /\ ~Turn /\ ~timer
    <2>1. is_busy /\ Moves /\ ~On(stack, "advance")
      BY <1>1, <1>2 DEF IndInv, NestInv, Moves, MovePlaces
    <2>2. ScanQueued
      BY <2>1 DEF IndInv, NestInv
    <2> QED
      BY <2>1, <2>2 DEF IndInv, TurnInv
  <1>4. /\ next_chain' \in Chain \union {NoChain}
        /\ \A c \in chain_tree : c > next_chain => next_chain' # NoChain /\ c >= next_chain'
    <2> DEFINE T == {d \in chain_tree : d > next_chain}
    <2>1. T \in SUBSET Chain /\ next_chain' = FirstOf(T)
      BY <1>1 DEF rb_next, IndInv, TypeOK
    <2>2. /\ FirstOf(T) = NoChain <=> T = {}
          /\ FirstOf(T) \in Chain \union {NoChain}
          /\ \A c \in T : FirstOf(T) <= c
      BY <2>1, ChainOrder
    <2>3. \A c \in chain_tree : c \in Nat
      BY ChainAssumption DEF IndInv, TypeOK
    <2> QED
      BY <2>1, <2>2, <2>3, ChainAssumption DEF NoChain
  <1>5. TypeOK' /\ BoundsOK'
    BY <1>1, <1>2, <1>4 DEF IndInv, TypeOK, BoundsOK
  <1>6. ~Turn' /\ ScanQueued'
    BY <1>1, <1>2, <1>3 DEF Turn, ScanQueued, TurnPlaces
  <1>7. TurnInv'
    BY <1>1, <1>2, <1>3, <1>6 DEF IndInv, TurnInv
  <1>8. StateInv'
    BY <1>1, <1>2, <1>3, <1>6 DEF IndInv, StateInv, Turn, TurnPlaces
  <1>9. NestInv'
    BY <1>1, <1>2, <1>3, <1>6 DEF NestInv
  <1>10. OrderInv'
    <2>1. SUFFICES ASSUME ~round.failed PROVE OrderInv'
      BY <1>1 DEF OrderInv
    <2>2. /\ fault = "none" /\ Once(stack', MovePlaces)
          /\ \A e \in MovePlaces : ~On(stack', e)
          /\ HelperInv /\ ChainsInv /\ ChainInv
      BY <1>2, <2>1 DEF IndInv, OrderInv
    <2>3. On(stack, "chain") /\ Moves
      BY <1>2 DEF Moves, MovePlaces
    <2>4. /\ On(queue, "chain")
          /\ \A q \in ScanRequest : On(queue, q) => q = "chain"
      <3>1. \A q \in ScanRequest : On(queue, q) => q = "chain"
        BY <2>2, <2>3, HelperNames DEF HelperInv, ChainsInv
      <3> QED
        BY <1>3, <3>1 DEF ScanQueued
    <2>5. HelperInv' /\ ChainsInv'
      BY <1>1, <2>4, HelperNames DEF HelperInv, ChainsInv
    <2>6. ChainInv'
      <3>1. /\ helper_idx = 1 /\ state = "DUMP_EACH_CHAIN"
            /\ next_chain = q_chain_no /\ q_chain_no # NoChain
            /\ Dumped("filters") /\ Dumped("chains")
            /\ round.seen \subseteq chain_tree
            /\ \A c \in round.seen : \/ <<"chain", c>> \in round.dumped
                                     \/ c = q_chain_no \/ ToWalk(c)
        BY <1>1, <2>2, <2>3, <2>4 DEF ChainInv
      <3>2. \A c \in round.seen : ToWalk(c) /\ c # q_chain_no => ToWalk(c)'
        <4>1. \A c \in round.seen : c \in chain_tree /\ c \in Nat
          BY <3>1, ChainAssumption DEF IndInv, TypeOK
        <4>2. next_chain \in Nat
          BY <1>1, ChainAssumption DEF IndInv, TypeOK
        <4> QED
          BY <1>4, <3>1, <4>1, <4>2 DEF ToWalk
      <3>3. ~On(stack', "helper") /\ ~On(stack', "chain")
        BY <2>2 DEF MovePlaces
      <3> QED
        BY <1>1, <3>1, <3>2, <3>3 DEF ChainInv, Dumped
    <2> QED
      BY <1>1, <1>2, <1>3, <1>6, <2>2, <2>5, <2>6
         DEF OrderInv, AdvanceInv, Turn, TurnPlaces
  <1>11. BreakInv'
    BY <1>1, <1>2 DEF IndInv, BreakInv
  <1> QED
    BY <1>5, <1>7, <1>8, <1>9, <1>10, <1>11 DEF IndInv

\* advance_scan returns from a case with nothing left to do.
LEMMA scheduled_returnsKeeps ==
    ASSUME IndInv, scheduled_returns
    PROVE  IndInv'
  <1>1. /\ stack # <<>> /\ stack[Len(stack)] = "return" /\ stack' = Callers
        /\ UNCHANGED <<state, helper_idx, next_chain, q_chain_no, timer, queue,
                       is_busy, chain_tree, pinned, mon, loop, one_off, round,
                       fault, left>>
    BY DEF scheduled_returns, At, scanVars, queueVars, worldVars
  <1>2. /\ stack' \in Seq(Places)
        /\ \A e : On(stack, e) <=> On(stack', e) \/ e = "return"
        /\ Once(stack', TurnPlaces)
        /\ Once(stack, MovePlaces) => Once(stack', MovePlaces)
        /\ Nested(stack') /\ ~On(stack', "advance")
        /\ ~(stack' # <<>> /\ stack'[Len(stack')] \in MovePlaces)
        /\ loop \in {"running", "breaking"}
    BY <1>1, Returns
  <1>3. \A e \in TurnPlaces \union MovePlaces : On(stack, e) <=> On(stack', e)
    BY <1>2 DEF TurnPlaces, MovePlaces
  <1>4. TypeOK' /\ BoundsOK'
    BY <1>1, <1>2 DEF IndInv, TypeOK, BoundsOK
  <1>5. (Turn' <=> Turn) /\ (Moves' <=> Moves) /\ (ScanQueued' <=> ScanQueued)
    BY <1>1, <1>3 DEF Turn, Moves, ScanQueued
  <1>6. TurnInv' /\ StateInv'
    BY <1>1, <1>2, <1>3, <1>5 DEF IndInv, TurnInv, StateInv, TurnPlaces
  <1>7. NestInv'
    BY <1>1, <1>2, <1>3, <1>5 DEF IndInv, NestInv, TurnPlaces, MovePlaces
  <1>8. OrderInv'
    BY <1>1, <1>2, <1>3, <1>5
       DEF IndInv, OrderInv, HelperInv, ChainsInv, ChainInv, AdvanceInv, AllDumped,
           ChainsDumped, HelpersDumped, Dumped, ToWalk, TurnPlaces, MovePlaces
  <1>9. BreakInv'
    BY <1>1, <1>3 DEF IndInv, BreakInv, TurnPlaces
  <1> QED
    BY <1>4, <1>6, <1>7, <1>8, <1>9 DEF IndInv

\* A step of advance_scan that holds the turn while it goes on from one place
\* to another.
LEMMA GoesOn ==
    ASSUME IndInv, At("advance"), NEW p \in {"pin", "wait"}
    PROVE  /\ Append(Callers, p) \in Seq(Places)
           /\ Append(Callers, p) # <<>>
           /\ \A e : On(Append(Callers, p), e) <=> On(Callers, e) \/ e = p
           /\ Once(Append(Callers, p), TurnPlaces)
           /\ Once(stack, MovePlaces) => Once(Append(Callers, p), MovePlaces)
           /\ Nested(Append(Callers, p))
           /\ Append(Callers, p)[Len(Append(Callers, p))] = p
  <1>1. /\ Callers \in Seq(Places) /\ Nested(Callers)
        /\ \A e \in TurnPlaces : ~On(Callers, e)
        /\ Callers # <<>> => Callers[Len(Callers)] \notin MovePlaces
        /\ Once(stack, MovePlaces) => Once(Callers, MovePlaces)
    BY AtAdvance
  <1>2. Once(Callers, TurnPlaces)
    <2>1. stack \in Seq(Places) /\ stack # <<>> /\ Once(stack, TurnPlaces)
      BY DEF At, IndInv, TypeOK, TurnInv
    <2> QED
      BY <2>1, OnCallers
  <1>3. /\ p \in Places /\ p \in TurnPlaces /\ p \notin MovePlaces
        /\ "advance" \in TurnPlaces
    BY DEF Places, TurnPlaces, MovePlaces
  <1> QED
    BY <1>1, <1>2, <1>3, OnAppend

\* A round is over: obj_rule_remove_pin is called.
LEMMA scan_doneKeeps ==
    ASSUME IndInv, scan_done
    PROVE  IndInv'
  <1>1. /\ state = "DONE" /\ At("advance") /\ stack' = Append(Callers, "pin")
        /\ UNCHANGED <<state, helper_idx, next_chain, q_chain_no, timer, queue,
                       is_busy, chain_tree, pinned, mon, loop, one_off, round,
                       fault, left>>
    BY DEF scan_done, Case, scanVars, queueVars, worldVars
  <1>2. /\ \A e \in TurnPlaces : ~On(Callers, e)
        /\ \A e : On(stack, e) <=> On(Callers, e) \/ e = "advance"
        /\ \A q \in ScanRequest : ~On(queue, q)
        /\ ~timer /\ loop \in {"running", "breaking"}
    BY <1>1, AtAdvance
  <1>3. /\ stack' \in Seq(Places) /\ stack' # <<>>
        /\ \A e : On(stack', e) <=> On(Callers, e) \/ e = "pin"
        /\ Once(stack', TurnPlaces)
        /\ Once(stack, MovePlaces) => Once(stack', MovePlaces)
        /\ Nested(stack')
        /\ stack'[Len(stack')] = "pin"
    BY <1>1, GoesOn
  <1>4. TypeOK' /\ BoundsOK'
    BY <1>1, <1>3 DEF IndInv, TypeOK, BoundsOK
  <1>5. Turn' /\ ~ScanQueued'
    BY <1>1, <1>2, <1>3 DEF Turn, ScanQueued, TurnPlaces
  <1>6. TurnInv'
    BY <1>1, <1>2, <1>3, <1>5 DEF IndInv, TurnInv
  <1>7. StateInv'
    BY <1>1, <1>2, <1>3, <1>5 DEF IndInv, StateInv, TurnPlaces
  <1>8. ~Moves
    BY <1>1, <1>2 DEF IndInv, NestInv, Moves, MovePlaces
  <1>9. \A e \in MovePlaces : ~On(stack', e)
    BY <1>2, <1>3, <1>8 DEF Moves, MovePlaces
  <1>10. NestInv'
    BY <1>3, <1>9 DEF NestInv, Moves, MovePlaces
  <1>11. OrderInv'
    <2>1. SUFFICES ASSUME ~round.failed PROVE OrderInv'
      BY <1>1 DEF OrderInv
    <2>2. AllDumped /\ fault = "none" /\ Once(stack', MovePlaces)
      BY <1>1, <1>2, <1>3, <2>1 DEF IndInv, OrderInv, AdvanceInv
    <2>3. HelperInv' /\ ChainsInv' /\ ChainInv'
      BY <1>1, <1>2, HelperNames DEF HelperInv, ChainsInv, ChainInv
    <2>4. AllDumped'
      BY <1>1, <2>2 DEF AllDumped, ChainsDumped, HelpersDumped, Dumped
    <2>5. ~On(stack', "advance")
      BY <1>2, <1>3 DEF TurnPlaces
    <2> QED
      BY <1>1, <1>9, <2>2, <2>3, <2>4, <2>5 DEF OrderInv, AdvanceInv, Moves
  <1>12. BreakInv'
    BY <1>1, <1>2, <1>3 DEF IndInv, BreakInv, TurnPlaces
  <1> QED
    BY <1>4, <1>6, <1>7, <1>10, <1>11, <1>12 DEF IndInv

\* obj_rule_remove_pin has the turn of the scan, as has the end of the wait.
LEMMA HasTurn ==
    ASSUME IndInv, NEW p \in {"pin", "wait"}, At(p)
    PROVE  /\ stack \in Seq(Places) /\ stack # <<>> /\ stack[Len(stack)] = p
           /\ fault = "none" /\ loop \in {"running", "breaking"}
           /\ Turn /\ ~ScanQueued /\ ~timer /\ ~Moves
           /\ ~On(stack, "advance")
           /\ \A e : On(stack, e) <=> On(Callers, e) \/ e = p
           /\ \A e \in TurnPlaces : ~On(Callers, e)
           /\ \A e \in MovePlaces : ~On(stack, e)
           /\ On(stack, p)
  <1>1. /\ stack \in Seq(Places) /\ stack # <<>> /\ stack[Len(stack)] = p
        /\ fault = "none" /\ loop \in {"running", "breaking"}
        /\ Once(stack, TurnPlaces) /\ Nested(stack)
    BY DEF At, IndInv, TypeOK, StateInv, TurnInv, NestInv
  <1>2. p \in TurnPlaces /\ p # "advance"
    BY DEF TurnPlaces
  <1>3. /\ \A e : On(stack, e) <=> On(Callers, e) \/ e = p
        /\ \A e \in TurnPlaces : ~On(Callers, e)
        /\ ~On(Callers, "advance")
    BY <1>1, <1>2, OnCallers
  <1>4. Turn /\ ~ScanQueued /\ ~timer
    BY <1>2, <1>3 DEF IndInv, TurnInv, Turn
  <1>5. ~On(stack, "advance")
    BY <1>2, <1>3
  <1>6. ~Moves
    BY <1>4, <1>5 DEF IndInv, NestInv
  <1> QED
    BY <1>1, <1>3, <1>4, <1>5, <1>6 DEF Moves

\* obj_rule_remove_pin makes a request.
LEMMA pin_requestsKeeps ==
    ASSUME IndInv, pin_requests
    PROVE  IndInv'
  <1>1. /\ At("pin") /\ pinned /\ left.rules > 0
        /\ left' = [left EXCEPT !.rules = @ - 1]
        /\ queue_schedule("pinned", stack)
        /\ UNCHANGED <<state, helper_idx, next_chain, q_chain_no, timer,
                       chain_tree, pinned, mon, loop, one_off, round, fault>>
    BY DEF pin_requests, scanVars, worldVars
  <1>2. /\ stack \in Seq(Places) /\ stack # <<>> /\ stack[Len(stack)] = "pin"
        /\ loop \in {"running", "breaking"}
        /\ Turn /\ ~ScanQueued /\ ~timer
        /\ ~On(stack, "advance")
        /\ \A e \in MovePlaces : ~On(stack, e)
    BY <1>1, HasTurn
  <1>3. /\ TypeOK /\ "pinned" \in Request /\ "pinned" \notin ScanRequest
        /\ Once(queue, ScanRequest) /\ Before(queue, "pinned", "break")
        /\ ~On(queue, "break")
        /\ Nested(stack) /\ Once(stack, TurnPlaces)
    BY <1>1, HelperNames DEF IndInv, TurnInv, BreakInv, NestInv
  <1>4. /\ queue' \in Seq(Request) /\ queue' # <<>> /\ is_busy' = is_busy
        /\ \A e : On(queue', e) <=> On(queue, e) \/ e = "pinned"
        /\ Once(queue', ScanRequest)
        /\ Before(queue', "pinned", "break")
        /\ stack' \in Seq(Places)
        /\ \A e : On(stack', e) <=> On(stack, e) \/ (~is_busy /\ e = "test")
        /\ Once(stack', TurnPlaces)
        /\ Once(stack, MovePlaces) => Once(stack', MovePlaces)
        /\ Nested(stack')
        /\ ~is_busy => stack' # <<>> /\ stack'[Len(stack')] = "test"
        /\ is_busy => stack' = stack
    BY <1>1, <1>2, <1>3, SchedulePoints
  <1>5. /\ \A e \in TurnPlaces \union MovePlaces : On(stack', e) <=> On(stack, e)
        /\ \A q \in ScanRequest : On(queue', q) <=> On(queue, q)
        /\ On(queue', "break") <=> On(queue, "break")
    BY <1>3, <1>4 DEF TurnPlaces, MovePlaces
  <1>6. /\ left' \in [rounds : 0..MaxRounds, fails : 0..MaxFails,
                      rules : 0..MaxRules, changes : 0..MaxChanges]
        /\ left'.rounds = left.rounds /\ left'.fails = left.fails
    BY <1>1, BoundAssumption DEF IndInv, BoundsOK
  <1>7. TypeOK' /\ BoundsOK'
    BY <1>1, <1>4, <1>6 DEF IndInv, TypeOK, BoundsOK
  <1>8. Turn' /\ ~ScanQueued' /\ ~Moves'
    BY <1>2, <1>5 DEF Turn, ScanQueued, Moves
  <1>9. TurnInv'
    BY <1>1, <1>2, <1>4, <1>8 DEF TurnInv
  <1>10. StateInv'
    BY <1>1, <1>2, <1>4, <1>5, <1>8 DEF IndInv, StateInv, TurnPlaces
  <1>11. NestInv'
    BY <1>1, <1>2, <1>4, <1>8 DEF NestInv, Moves, MovePlaces
  <1>12. OrderInv'
    <2>1. SUFFICES ASSUME ~round.failed PROVE OrderInv'
      BY <1>1 DEF OrderInv
    <2>2. AllDumped /\ fault = "none" /\ Once(stack, MovePlaces)
      BY <1>1, <2>1, HasTurn DEF IndInv, OrderInv
    <2>3. HelperInv' /\ ChainsInv' /\ ChainInv'
      BY <1>8, HelperNames DEF HelperInv, ChainsInv, ChainInv, ScanQueued
    <2>4. AllDumped'
      BY <1>1, <2>2 DEF AllDumped, ChainsDumped, HelpersDumped, Dumped
    <2>5. ~On(stack', "advance")
      BY <1>2, <1>5 DEF TurnPlaces
    <2> QED
      BY <1>1, <1>4, <1>8, <2>2, <2>3, <2>4, <2>5 DEF OrderInv, AdvanceInv
  <1>13. BreakInv'
    BY <1>1, <1>3, <1>4, <1>5 DEF BreakInv
  <1> QED
    BY <1>7, <1>9, <1>10, <1>11, <1>12, <1>13 DEF IndInv

\* obj_rule_remove_pin returns, and advance_scan goes on to the wait.
LEMMA pin_removedKeeps ==
    ASSUME IndInv, pin_removed
    PROVE  IndInv'
  <1>1. /\ At("pin") /\ pinned' = FALSE /\ state' = "WAIT"
        /\ stack' = Append(Callers, "advance")
        /\ UNCHANGED <<helper_idx, next_chain, q_chain_no, timer, queue, is_busy,
                       chain_tree, mon, loop, one_off, round, fault, left>>
    BY DEF pin_removed, queueVars
  <1>2. /\ stack \in Seq(Places) /\ stack # <<>> /\ stack[Len(stack)] = "pin"
        /\ loop \in {"running", "breaking"}
        /\ Turn /\ ~ScanQueued /\ ~timer
        /\ ~On(stack, "advance") /\ On(stack, "pin")
        /\ \A e : On(stack, e) <=> On(Callers, e) \/ e = "pin"
        /\ \A e \in TurnPlaces : ~On(Callers, e)
        /\ \A e \in MovePlaces : ~On(stack, e)
    BY <1>1, HasTurn
  <1>3. /\ Callers \in Seq(Places) /\ Nested(Callers)
        /\ Callers # <<>> => Callers[Len(Callers)] \notin MovePlaces
        /\ Once(Callers, TurnPlaces)
        /\ Once(stack, MovePlaces) => Once(Callers, MovePlaces)
    BY <1>2, OnCallers DEF IndInv, NestInv, TurnInv
  <1>4. /\ stack' \in Seq(Places) /\ stack' # <<>>
        /\ \A e : On(stack', e) <=> On(Callers, e) \/ e = "advance"
        /\ Once(stack', TurnPlaces)
        /\ Once(stack, MovePlaces) => Once(stack', MovePlaces)
        /\ Nested(stack')
        /\ stack'[Len(stack')] = "advance"
    <2>1. /\ "advance" \in Places /\ "advance" \in TurnPlaces
          /\ "advance" \notin MovePlaces
      BY DEF Places, TurnPlaces, MovePlaces
    <2>2. ~On(Callers, "advance")
      BY <1>2
    <2> QED
      BY <1>1, <1>2, <1>3, <2>1, <2>2, OnAppend
  <1>5. TypeOK' /\ BoundsOK'
    BY <1>1, <1>4 DEF IndInv, TypeOK, BoundsOK
  <1>6. Turn' /\ ~ScanQueued' /\ ~Moves'
    BY <1>1, <1>2, <1>4 DEF Turn, ScanQueued, Moves, TurnPlaces, MovePlaces
  <1>7. TurnInv'
    BY <1>1, <1>2, <1>4, <1>6 DEF IndInv, TurnInv
  <1>8. StateInv'
    BY <1>1, <1>2, <1>4, <1>6 DEF IndInv, StateInv, TurnPlaces
  <1>9. NestInv'
    BY <1>4, <1>6 DEF NestInv, Moves, MovePlaces
  <1>10. OrderInv'
    <2>1. SUFFICES ASSUME ~round.failed PROVE OrderInv'
      BY <1>1 DEF OrderInv
    <2>2. AllDumped /\ fault = "none" /\ Once(stack, MovePlaces)
      BY <1>2, <2>1 DEF IndInv, OrderInv
    <2>3. HelperInv' /\ ChainsInv' /\ ChainInv'
      BY <1>6, HelperNames DEF HelperInv, ChainsInv, ChainInv, ScanQueued
    <2>4. AllDumped'
      BY <1>1, <2>2 DEF AllDumped, ChainsDumped, HelpersDumped, Dumped
    <2> QED
      BY <1>1, <1>4, <1>6, <2>2, <2>3, <2>4 DEF OrderInv, AdvanceInv
  <1>11. BreakInv'
    BY <1>1, <1>2, <1>4 DEF IndInv, BreakInv, TurnPlaces
  <1> QED
    BY <1>5, <1>7, <1>8, <1>9, <1>10, <1>11 DEF IndInv

\* In one-off mode the item that ends the loop is scheduled.
LEMMA scan_waitKeeps ==
    ASSUME IndInv, scan_wait
    PROVE  IndInv'
  <1>1. /\ state = "WAIT" /\ At("advance")
        /\ UNCHANGED <<state, helper_idx, next_chain, q_chain_no, timer,
                       chain_tree, pinned, mon, loop, one_off, round, fault, left>>
    BY DEF scan_wait, Case, scanVars, worldVars
  <1>2. /\ \A e \in TurnPlaces : ~On(Callers, e)
        /\ \A e : On(stack, e) <=> On(Callers, e) \/ e = "advance"
        /\ \A q \in ScanRequest : ~On(queue, q)
        /\ fault = "none" /\ ~timer /\ loop \in {"running", "breaking"}
    BY <1>1, AtAdvance
  <1>3. /\ queue' \in Seq(Request) /\ is_busy' = is_busy
        /\ is_busy => queue' # <<>>
        /\ \A e : e # "break" => (On(queue', e) <=> On(queue, e))
        /\ Once(queue', ScanRequest)
        /\ Before(queue', "pinned", "break")
        /\ stack' \in Seq(Places) /\ stack' # <<>>
        /\ On(stack', "wait")
        /\ \A e : On(stack', e) => On(Callers, e) \/ e = "wait" \/ e = "test"
        /\ Once(stack', TurnPlaces)
        /\ Once(stack, MovePlaces) => Once(stack', MovePlaces)
        /\ Nested(stack')
        /\ stack'[Len(stack')] \in {"wait", "test"}
    <2>1. CASE one_off
      <3>1. queue_schedule("break", Append(Callers, "wait"))
        BY <2>1 DEF scan_wait
      <3>2. "break" \in Request /\ "wait" \in Places /\ "wait" \notin MovePlaces
        BY HelperNames DEF Places, MovePlaces
      <3> QED
        BY <1>1, <3>1, <3>2, AdvanceSchedules
    <2>2. CASE ~one_off
      <3>1. stack' = Append(Callers, "wait") /\ UNCHANGED <<queue, is_busy>>
        BY <2>2 DEF scan_wait, queueVars
      <3>2. /\ queue \in Seq(Request) /\ Once(queue, ScanRequest)
            /\ Before(queue, "pinned", "break") /\ (is_busy => queue # <<>>)
        BY DEF IndInv, TypeOK, TurnInv, BreakInv, StateInv
      <3> QED
        BY <1>1, <3>1, <3>2, GoesOn
    <2> QED
      BY <2>1, <2>2
  <1>4. TypeOK' /\ BoundsOK'
    BY <1>1, <1>3 DEF IndInv, TypeOK, BoundsOK
  <1>5. Turn' /\ ~ScanQueued'
    <2>1. "break" \notin ScanRequest
      BY HelperNames
    <2> QED
      BY <1>2, <1>3, <2>1 DEF Turn, ScanQueued, TurnPlaces
  <1>6. TurnInv'
    BY <1>1, <1>2, <1>3, <1>5 DEF IndInv, TurnInv
  <1>7. StateInv'
    BY <1>1, <1>2, <1>3, <1>5 DEF IndInv, StateInv, TurnPlaces
  <1>8. ~Moves /\ ~Moves'
    <2>1. ~Moves
      BY <1>1, <1>2 DEF IndInv, NestInv, Moves, MovePlaces
    <2> QED
      BY <1>2, <1>3, <2>1 DEF Moves, MovePlaces
  <1>9. NestInv'
    BY <1>3, <1>8 DEF NestInv, Moves, MovePlaces
  <1>10. OrderInv'
    <2>1. SUFFICES ASSUME ~round.failed PROVE OrderInv'
      BY <1>1 DEF OrderInv
    <2>2. AllDumped /\ fault = "none" /\ Once(stack', MovePlaces)
      BY <1>1, <1>2, <1>3, <2>1 DEF IndInv, OrderInv, AdvanceInv
    <2>3. HelperInv' /\ ChainsInv' /\ ChainInv'
      BY <1>5, HelperNames DEF HelperInv, ChainsInv, ChainInv, ScanQueued
    <2>4. AllDumped'
      BY <1>1, <2>2 DEF AllDumped, ChainsDumped, HelpersDumped, Dumped
    <2>5. ~On(stack', "advance")
      BY <1>2, <1>3 DEF TurnPlaces
    <2> QED
      BY <1>1, <1>8, <2>2, <2>3, <2>4, <2>5 DEF OrderInv, AdvanceInv
  <1>11. BreakInv'
    BY <1>1, <1>3 DEF IndInv, BreakInv, StateInv
  <1> QED
    BY <1>4, <1>6, <1>7, <1>9, <1>10, <1>11 DEF IndInv

\* The timer is started, and has the turn from then on.
LEMMA timer_againKeeps ==
    ASSUME IndInv, timer_again
    PROVE  IndInv'
  <1>1. /\ At("wait") /\ timer' = TRUE /\ stack' = Callers
        /\ UNCHANGED <<state, helper_idx, next_chain, q_chain_no, queue, is_busy,
                       chain_tree, pinned, mon, loop, one_off, round, fault, left>>
    BY DEF timer_again, queueVars, worldVars
  <1>2. /\ stack # <<>> /\ stack[Len(stack)] = "wait"
        /\ ~ScanQueued /\ On(stack, "wait") /\ ~On(stack, "advance")
        /\ \A e : On(stack, e) <=> On(Callers, e) \/ e = "wait"
        /\ \A e \in TurnPlaces : ~On(Callers, e)
        /\ \A e \in MovePlaces : ~On(stack, e)
    BY <1>1, HasTurn
  <1>3. /\ stack' \in Seq(Places)
        /\ Once(stack', TurnPlaces)
        /\ Once(stack, MovePlaces) => Once(stack', MovePlaces)
        /\ Nested(stack')
        /\ ~(stack' # <<>> /\ stack'[Len(stack')] \in MovePlaces)
        /\ loop \in {"running", "breaking"}
    BY <1>1, <1>2, Returns
  <1>4. TypeOK' /\ BoundsOK'
    BY <1>1, <1>3 DEF IndInv, TypeOK, BoundsOK
  <1>5. ~Turn' /\ ~ScanQueued' /\ ~Moves'
    BY <1>1, <1>2 DEF Turn, ScanQueued, Moves
  <1>6. TurnInv' /\ StateInv'
    BY <1>1, <1>2, <1>3, <1>5 DEF IndInv, TurnInv, StateInv, Turn, TurnPlaces
  <1>7. NestInv'
    BY <1>3, <1>5 DEF NestInv, Moves, MovePlaces
  <1>8. OrderInv'
    <2>1. SUFFICES ASSUME ~round.failed PROVE OrderInv'
      BY <1>1 DEF OrderInv
    <2>2. AllDumped /\ fault = "none" /\ Once(stack', MovePlaces)
      BY <1>2, <1>3, <2>1 DEF IndInv, OrderInv
    <2>3. HelperInv' /\ ChainsInv' /\ ChainInv'
      BY <1>5, HelperNames DEF HelperInv, ChainsInv, ChainInv, ScanQueued
    <2>4. AllDumped'
      BY <1>1, <2>2 DEF AllDumped, ChainsDumped, HelpersDumped, Dumped
    <2> QED
      BY <1>1, <1>5, <2>2, <2>3, <2>4 DEF OrderInv, AdvanceInv, Turn, TurnPlaces
  <1>9. BreakInv'
    BY <1>1 DEF IndInv, BreakInv
  <1> QED
    BY <1>4, <1>6, <1>7, <1>8, <1>9 DEF IndInv

\* The walk leaves its data only in a round in which a send failed.
LEMMA goes_wrongKeeps ==
    ASSUME IndInv, goes_wrong
    PROVE  IndInv'
  <1>1. /\ Fault # "none"
        /\ UNCHANGED <<state, helper_idx, next_chain, q_chain_no, timer, queue,
                       is_busy, chain_tree, pinned, mon, loop, one_off, stack,
                       round, left>>
    BY DEF goes_wrong, scanVars, queueVars, worldVars
  <1>2. round.failed
    <2>1. SUFFICES ASSUME ~round.failed PROVE FALSE
      OBVIOUS
    <2>2. CASE At("advance")
      <3>1. On(stack, "advance")
        BY <2>2, AtAdvance
      <3>2. At("chain") => FALSE
        BY <2>2 DEF At
      <3>3. Case("RUN_HELPERS") => helper_idx <= 6
        BY <2>1, <3>1, HelperNames DEF Case, IndInv, OrderInv, AdvanceInv
      <3>4. Case("DUMP_EACH_CHAIN") => next_chain # NoChain
        BY <2>1, <3>1 DEF Case, IndInv, OrderInv, AdvanceInv
      <3>5. helper_idx \in Nat
        BY DEF IndInv, TypeOK
      <3> QED
        BY <1>1, <3>2, <3>3, <3>4, <3>5, HelperNames DEF Fault
    <2>3. CASE ~At("advance")
      <3>1. At("chain") /\ next_chain = NoChain
        BY <1>1, <2>3 DEF Fault, Case
      <3>2. /\ stack \in Seq(Places) /\ stack # <<>>
            /\ stack[Len(stack)] = "chain" /\ Nested(stack)
        BY <3>1 DEF At, IndInv, TypeOK, NestInv
      <3>3. On(stack, "chain") /\ ~On(stack, "advance")
        BY <3>2, OnCallers
      <3>4. Moves /\ ScanQueued
        BY <3>3 DEF IndInv, NestInv, Moves, MovePlaces
      <3>5. On(queue, "chain")
        BY <2>1, <3>3, <3>4, HelperNames
           DEF IndInv, OrderInv, HelperInv, ChainsInv, ScanQueued
      <3> QED
        BY <2>1, <3>1, <3>3, <3>5 DEF IndInv, OrderInv, ChainInv
    <2> QED
      BY <2>2, <2>3
  <1>3. TypeOK' /\ BoundsOK' /\ BreakInv'
    BY <1>1 DEF IndInv, TypeOK, BoundsOK, BreakInv
  <1>4. (Turn' <=> Turn) /\ (Moves' <=> Moves) /\ (ScanQueued' <=> ScanQueued)
    BY <1>1 DEF Turn, Moves, ScanQueued
  <1>5. TurnInv' /\ StateInv' /\ NestInv'
    BY <1>1, <1>4 DEF IndInv, TurnInv, StateInv, NestInv
  <1>6. OrderInv'
    BY <1>1, <1>2 DEF OrderInv
  <1> QED
    BY <1>3, <1>5, <1>6 DEF IndInv

-----------------------------------------------------------------------------
(* The steps of the queue. *)

\* At most one request of the scanner is in the queue.
LEMMA OneRequest ==
    ASSUME IndInv, NEW d \in ScanRequest, NEW e \in ScanRequest,
           On(queue, d), On(queue, e)
    PROVE  d = e
  BY DEF IndInv, TurnInv, Once, On

\* The loop of the queue is the innermost activation.
LEMMA AtTest ==
    ASSUME IndInv, At("test")
    PROVE  /\ stack \in Seq(Places) /\ stack # <<>> /\ stack[Len(stack)] = "test"
           /\ fault = "none" /\ loop \in {"running", "breaking"}
           /\ Callers \in Seq(Places) /\ Nested(Callers)
           /\ \A e : On(stack, e) <=> On(Callers, e) \/ e = "test"
           /\ ~On(stack, "advance")
           /\ Once(Callers, TurnPlaces)
           /\ Once(stack, MovePlaces) => Once(Callers, MovePlaces)
           /\ Moves => ScanQueued
  <1>1. /\ stack \in Seq(Places) /\ stack # <<>> /\ stack[Len(stack)] = "test"
        /\ fault = "none" /\ loop \in {"running", "breaking"}
        /\ Once(stack, TurnPlaces) /\ Nested(stack)
    BY DEF At, IndInv, TypeOK, StateInv, TurnInv, NestInv
  <1>2. /\ Callers \in Seq(Places) /\ Nested(Callers)
        /\ \A e : On(stack, e) <=> On(Callers, e) \/ e = "test"
        /\ ~On(Callers, "advance")
        /\ Once(Callers, TurnPlaces)
        /\ Once(stack, MovePlaces) => Once(Callers, MovePlaces)
    BY <1>1, OnCallers
  <1> QED
    BY <1>1, <1>2 DEF IndInv, NestInv

\* execute() sends the request at the head.
LEMMA send_worksKeeps ==
    ASSUME IndInv, send_works
    PROVE  IndInv'
  <1>1. /\ At("test") /\ queue # <<>> /\ ~is_busy /\ Head(queue) # "break"
        /\ state' = IF Head(queue) = "filters" THEN "DUMP_CHAINS" ELSE state
        /\ is_busy' = TRUE /\ stack' = Callers
        /\ UNCHANGED <<helper_idx, next_chain, q_chain_no, timer, queue,
                       chain_tree, pinned, loop, one_off, round, fault>>
    BY DEF send_works, MoreToDo, Executed
  <1>2. /\ mon' \in Nat
        /\ left' \in [rounds : 0..MaxRounds, fails : 0..MaxFails,
                      rules : 0..MaxRules, changes : 0..MaxChanges]
        /\ left'.rounds = left.rounds /\ left'.fails = left.fails
    <2>1. CASE UNCHANGED <<mon, left>>
      BY <2>1 DEF IndInv, TypeOK, BoundsOK
    <2>2. CASE /\ left.rules > 0 /\ mon' = mon + 1
               /\ left' = [left EXCEPT !.rules = @ - 1]
      <3>1. mon \in Nat /\ left \in [rounds : 0..MaxRounds, fails : 0..MaxFails,
                                    rules : 0..MaxRules, changes : 0..MaxChanges]
        BY DEF IndInv, TypeOK, BoundsOK
      <3> QED
        BY <2>2, <3>1, BoundAssumption
    <2> QED
      BY <2>1, <2>2 DEF send_works
  <1>3. /\ stack' \in Seq(Places) /\ Nested(stack')
        /\ \A e : On(stack, e) <=> On(stack', e) \/ e = "test"
        /\ ~On(stack, "advance")
        /\ Once(stack', TurnPlaces)
        /\ Once(stack, MovePlaces) => Once(stack', MovePlaces)
        /\ Moves => ScanQueued
        /\ fault = "none" /\ loop \in {"running", "breaking"}
    BY <1>1, AtTest
  <1>4. \A e \in TurnPlaces \union MovePlaces : On(stack, e) <=> On(stack', e)
    BY <1>3 DEF TurnPlaces, MovePlaces
  <1>5. (Turn' <=> Turn) /\ (Moves' <=> Moves) /\ (ScanQueued' <=> ScanQueued)
    BY <1>1, <1>4 DEF Turn, Moves, ScanQueued
  <1>6. On(queue, Head(queue))
    BY <1>1, OnTail DEF IndInv, TypeOK
  <1>7. Head(queue) = "filters" => ScanQueued
    BY <1>6, HelperNames DEF ScanQueued
  <1>8. TypeOK' /\ BoundsOK'
    BY <1>1, <1>2, <1>3 DEF IndInv, TypeOK, BoundsOK
  <1>9. TurnInv'
    BY <1>1, <1>3, <1>5 DEF IndInv, TurnInv
  <1>10. StateInv'
    BY <1>1, <1>3, <1>4, <1>5, <1>7 DEF IndInv, TurnInv, StateInv, Turn, TurnPlaces
  <1>11. NestInv'
    BY <1>1, <1>3, <1>4, <1>5 DEF NestInv, TurnPlaces
  <1>12. OrderInv'
    <2>1. SUFFICES ASSUME ~round.failed PROVE OrderInv'
      BY <1>1 DEF OrderInv
    <2>2. /\ Once(stack, MovePlaces)
          /\ HelperInv /\ ChainsInv /\ ChainInv
          /\ On(stack, "pin") \/ On(stack, "wait") \/ timer => AllDumped
      BY <2>1 DEF IndInv, OrderInv
    <2>3. /\ \A j \in 1..6 : On(queue, scan_helpers[j]) =>
                 (Head(queue) = "filters" <=> j = 1 /\ Head(queue) = "filters")
          /\ Head(queue) = "filters" => ~On(queue, "chains") /\ ~On(queue, "chain")
      BY <1>6, HelperNames, OneRequest
    <2>4. HelperInv'
      BY <1>1, <1>4, <2>2, <2>3, HelperNames
         DEF HelperInv, ChainsDumped, HelpersDumped, Dumped, MovePlaces
    <2>5. ChainsInv' /\ ChainInv'
      BY <1>1, <1>4, <1>5, <2>2, <2>3
         DEF ChainsInv, ChainInv, Dumped, ToWalk, MovePlaces
    <2>6. ~On(stack', "advance") /\ (AllDumped' <=> AllDumped)
      BY <1>1, <1>3 DEF AllDumped, ChainsDumped, HelpersDumped, Dumped
    <2> QED
      BY <1>1, <1>3, <1>4, <2>2, <2>4, <2>5, <2>6
         DEF OrderInv, AdvanceInv, TurnPlaces
  <1>13. BreakInv'
    BY <1>1, <1>2, <1>4 DEF IndInv, BreakInv, TurnPlaces
  <1> QED
    BY <1>8, <1>9, <1>10, <1>11, <1>12, <1>13 DEF IndInv

\* The loop of the queue ends: it is empty, or a reply is due.
LEMMA loop_endsKeeps ==
    ASSUME IndInv, loop_ends
    PROVE  IndInv'
  <1>1. /\ At("test") /\ (queue = <<>> \/ is_busy) /\ stack' = Callers
        /\ UNCHANGED <<state, helper_idx, next_chain, q_chain_no, timer, queue,
                       is_busy, chain_tree, pinned, mon, loop, one_off, round,
                       fault, left>>
    BY DEF loop_ends, MoreToDo, scanVars, queueVars, worldVars, IndInv, TypeOK
  <1>2. /\ stack' \in Seq(Places) /\ Nested(stack')
        /\ \A e : On(stack, e) <=> On(stack', e) \/ e = "test"
        /\ ~On(stack, "advance")
        /\ Once(stack', TurnPlaces)
        /\ Once(stack, MovePlaces) => Once(stack', MovePlaces)
        /\ Moves => ScanQueued
        /\ fault = "none" /\ loop \in {"running", "breaking"}
    BY <1>1, AtTest
  <1>3. \A e \in TurnPlaces \union MovePlaces : On(stack, e) <=> On(stack', e)
    BY <1>2 DEF TurnPlaces, MovePlaces
  <1>4. TypeOK' /\ BoundsOK'
    BY <1>1, <1>2 DEF IndInv, TypeOK, BoundsOK
  <1>5. (Turn' <=> Turn) /\ (Moves' <=> Moves) /\ (ScanQueued' <=> ScanQueued)
    BY <1>1, <1>3 DEF Turn, Moves, ScanQueued
  <1>6. TurnInv' /\ StateInv'
    BY <1>1, <1>2, <1>3, <1>5 DEF IndInv, TurnInv, StateInv, TurnPlaces
  <1>7. Moves => is_busy
    BY <1>1, <1>2, OnEmpty DEF ScanQueued
  <1>8. stack' # <<>> /\ stack'[Len(stack')] \in MovePlaces => Moves'
    BY <1>2 DEF Moves, On
  <1>9. NestInv'
    BY <1>1, <1>2, <1>3, <1>5, <1>7, <1>8 DEF NestInv, Moves, TurnPlaces, MovePlaces
  <1>10. OrderInv'
    BY <1>1, <1>2, <1>3, <1>5
       DEF IndInv, OrderInv, HelperInv, ChainsInv, ChainInv, AdvanceInv, AllDumped,
           ChainsDumped, HelpersDumped, Dumped, ToWalk, TurnPlaces, MovePlaces
  <1>11. BreakInv'
    BY <1>1, <1>3 DEF IndInv, BreakInv, TurnPlaces
  <1> QED
    BY <1>4, <1>6, <1>9, <1>10, <1>11 DEF IndInv

\* handle_queue_completed: a request of the scanner hands the turn to
\* advance_scan.
LEMMA Completes ==
    ASSUME IndInv, queue # <<>>, NEW frames \in Seq(Places),
           Nested(frames), ~On(frames, "advance"),
           Once(frames, TurnPlaces), \A e \in TurnPlaces : On(frames, e) => On(stack, e),
           handle_queue_completed(frames)
    PROVE  /\ is_busy' = FALSE
           /\ queue' \in Seq(Request) /\ Head(queue) \in Request
           /\ \A e : On(queue, e) <=> On(queue', e) \/ e = Head(queue)
           /\ Once(queue', ScanRequest)
           /\ Head(queue) \in ScanRequest => \A e \in ScanRequest : ~On(queue', e)
           /\ Before(queue', "pinned", "break")
           /\ stack' \in Seq(Places) /\ Nested(stack')
           /\ stack' # <<>> /\ stack'[Len(stack')] \in {"test", "advance"}
           /\ \A e : On(stack', e) <=>
                        \/ On(frames, e) \/ e = "test"
                        \/ e = "advance" /\ Head(queue) \in ScanRequest
           /\ Once(stack', TurnPlaces)
           /\ Once(frames, MovePlaces) => Once(stack', MovePlaces)
  <1>1. /\ queue \in Seq(Request) /\ Once(queue, ScanRequest)
        /\ Before(queue, "pinned", "break") /\ queue' = Tail(queue)
        /\ is_busy' = FALSE
    BY DEF handle_queue_completed, IndInv, TypeOK, TurnInv, BreakInv
  <1>2. /\ queue' \in Seq(Request) /\ Head(queue) \in Request
        /\ \A e : On(queue, e) <=> On(queue', e) \/ e = Head(queue)
        /\ Once(queue', ScanRequest)
        /\ Head(queue) \in ScanRequest => \A e \in ScanRequest : ~On(queue', e)
        /\ Before(queue', "pinned", "break")
    BY <1>1, OnTail
  <1> DEFINE t == Append(frames, "test")
  <1>3. /\ {"test", "advance"} \subseteq Places
        /\ "test" \notin TurnPlaces \union MovePlaces /\ "advance" \notin MovePlaces
    BY DEF Places, TurnPlaces, MovePlaces
  <1>4. /\ t \in Seq(Places) /\ t # <<>> /\ t[Len(t)] = "test"
        /\ \A e : On(t, e) <=> On(frames, e) \/ e = "test"
        /\ Once(t, TurnPlaces) /\ (Once(frames, MovePlaces) => Once(t, MovePlaces))
        /\ Nested(t)
    BY <1>3, OnAppend
  <1>5. CASE Head(queue) \notin ScanRequest
    BY <1>1, <1>2, <1>4, <1>5 DEF handle_queue_completed
  <1>6. CASE Head(queue) \in ScanRequest
    <2>1. stack' = Append(t, "advance")
      BY <1>6 DEF handle_queue_completed
    <2>2. ~Turn
      BY <1>2, <1>6 DEF IndInv, TurnInv, ScanQueued
    <2>3. \A e \in TurnPlaces : ~On(t, e)
      BY <1>3, <1>4, <2>2 DEF Turn
    <2>4. ~On(t, "advance")
      BY <1>4
    <2> HIDE DEF t
    <2>5. /\ stack' \in Seq(Places) /\ stack' # <<>>
          /\ stack'[Len(stack')] = "advance"
          /\ \A e : On(stack', e) <=> On(t, e) \/ e = "advance"
          /\ Once(stack', TurnPlaces)
          /\ Once(t, MovePlaces) => Once(stack', MovePlaces)
          /\ Nested(stack')
      BY <1>3, <1>4, <2>1, <2>3, <2>4, OnAppend
    <2> QED
      BY <1>1, <1>2, <1>4, <1>6, <2>5
  <1> QED
    BY <1>5, <1>6

\* The send of the request at the head fails, which completes it.
LEMMA send_failsKeeps ==
    ASSUME IndInv, send_fails
    PROVE  IndInv'
  <1>1. /\ At("test") /\ queue # <<>> /\ ~is_busy /\ Head(queue) # "break"
        /\ left.fails > 0 /\ left' = [left EXCEPT !.fails = @ - 1]
        /\ state' = IF Head(queue) = "filters" THEN "DUMP_CHAINS" ELSE state
        /\ handle_queue_completed(Callers)
        /\ round' = [round EXCEPT !.failed = @ \/ Head(queue) \in ScanRequest]
        /\ UNCHANGED <<helper_idx, next_chain, q_chain_no, timer,
                       chain_tree, pinned, mon, loop, one_off, fault>>
    BY DEF send_fails, MoreToDo, Executed, worldVars
  <1>2. /\ Callers \in Seq(Places) /\ Nested(Callers) /\ ~On(Callers, "advance")
        /\ \A e : On(stack, e) <=> On(Callers, e) \/ e = "test"
        /\ ~On(stack, "advance")
        /\ Once(Callers, TurnPlaces)
        /\ Once(stack, MovePlaces) => Once(Callers, MovePlaces)
        /\ Moves => ScanQueued
        /\ fault = "none" /\ loop \in {"running", "breaking"}
    BY <1>1, AtTest
  <1>3. /\ is_busy' = FALSE
        /\ queue' \in Seq(Request) /\ Head(queue) \in Request
        /\ \A e : On(queue, e) <=> On(queue', e) \/ e = Head(queue)
        /\ Once(queue', ScanRequest)
        /\ Head(queue) \in ScanRequest => \A e \in ScanRequest : ~On(queue', e)
        /\ Before(queue', "pinned", "break")
        /\ stack' \in Seq(Places) /\ Nested(stack')
        /\ stack' # <<>> /\ stack'[Len(stack')] \in {"test", "advance"}
        /\ \A e : On(stack', e) <=>
                     \/ On(Callers, e) \/ e = "test"
                     \/ e = "advance" /\ Head(queue) \in ScanRequest
        /\ Once(stack', TurnPlaces)
        /\ Once(Callers, MovePlaces) => Once(stack', MovePlaces)
    BY <1>1, <1>2, Completes
  <1>4. /\ left' \in [rounds : 0..MaxRounds, fails : 0..MaxFails,
                      rules : 0..MaxRules, changes : 0..MaxChanges]
        /\ left'.rounds = left.rounds /\ left'.fails < MaxFails
    <2>1. left \in [rounds : 0..MaxRounds, fails : 0..MaxFails,
                    rules : 0..MaxRules, changes : 0..MaxChanges]
      BY DEF IndInv, BoundsOK
    <2> QED
      BY <1>1, <2>1, BoundAssumption
  <1>5. /\ round' \in [failed : BOOLEAN, seen : SUBSET Chain,
                       dumped : SUBSET (Request \X (Chain \union {NoChain}))]
        /\ round'.seen = round.seen /\ round'.dumped = round.dumped
        /\ round'.failed <=> round.failed \/ Head(queue) \in ScanRequest
    BY <1>1 DEF IndInv, BoundsOK
  <1>6. TypeOK' /\ BoundsOK'
    BY <1>1, <1>3, <1>4, <1>5 DEF IndInv, TypeOK, BoundsOK
  <1>7. \A e : e # "advance" => (On(stack, e) <=> On(stack', e))
    BY <1>2, <1>3
  <1>8. Head(queue) = "filters" => Head(queue) \in ScanRequest
    BY HelperNames
  <1>9. CASE Head(queue) \in ScanRequest
    <2>1. ScanQueued /\ ~ScanQueued' /\ ~Turn /\ Turn' /\ ~timer
      BY <1>3, <1>9 DEF IndInv, TurnInv, ScanQueued, Turn, TurnPlaces
    <2>2. TurnInv'
      BY <1>1, <1>3, <2>1 DEF TurnInv
    <2>3. StateInv'
      BY <1>1, <1>2, <1>3, <1>7, <2>1 DEF IndInv, StateInv, Turn, TurnPlaces
    <2>4. NestInv'
      <3>1. On(stack, "chain") => Head(queue) = "chain"
        BY <1>1, <1>3, <1>9 DEF IndInv, NestInv
      <3> QED
        BY <1>1, <1>3, <1>7, <1>9, <2>1, <3>1
           DEF IndInv, NestInv, Moves, MovePlaces, ScanQueued
    <2>5. OrderInv'
      BY <1>5, <1>9 DEF OrderInv
    <2>6. BreakInv'
      BY <1>1, <1>3, <1>4, <1>7 DEF IndInv, BreakInv
    <2> QED
      BY <1>6, <2>2, <2>3, <2>4, <2>5, <2>6 DEF IndInv
  <1>10. CASE Head(queue) \notin ScanRequest
    <2>1. \A e : On(stack, e) <=> On(stack', e)
      BY <1>2, <1>3, <1>10
    <2>2. \A q \in ScanRequest : On(queue, q) <=> On(queue', q)
      BY <1>3, <1>10
    <2>3. (Turn' <=> Turn) /\ (Moves' <=> Moves) /\ (ScanQueued' <=> ScanQueued)
      BY <2>1, <2>2 DEF Turn, Moves, ScanQueued
    <2>4. state' = state
      BY <1>1, <1>8, <1>10
    <2>5. TurnInv' /\ StateInv'
      BY <1>1, <1>2, <1>3, <2>1, <2>3, <2>4 DEF IndInv, TurnInv, StateInv
    <2>6. NestInv'
      BY <1>1, <1>2, <1>3, <2>1, <2>2, <2>3, <2>4 DEF IndInv, NestInv, MovePlaces
    <2>7. OrderInv'
      <3>1. SUFFICES ASSUME ~round.failed PROVE OrderInv'
        BY <1>5 DEF OrderInv
      <3>2. /\ HelperInv /\ ChainsInv /\ ChainInv
            /\ Once(stack', MovePlaces)
            /\ On(stack, "pin") \/ On(stack, "wait") \/ timer => AllDumped
        BY <1>2, <1>3, <3>1 DEF IndInv, OrderInv
      <3>3. HelperInv'
        BY <1>1, <1>3, <1>5, <2>1, <2>2, <2>4, <3>2, HelperNames
           DEF HelperInv, ChainsDumped, HelpersDumped, Dumped
      <3>4. ChainsInv' /\ ChainInv'
        BY <1>1, <1>5, <2>1, <2>2, <2>3, <2>4, <3>2, HelperNames
           DEF ChainsInv, ChainInv, Dumped, ToWalk
      <3>5. AllDumped' <=> AllDumped
        BY <1>5 DEF AllDumped, ChainsDumped, HelpersDumped, Dumped
      <3> QED
        BY <1>1, <1>2, <2>1, <3>2, <3>3, <3>4, <3>5 DEF OrderInv, AdvanceInv
    <2>8. BreakInv'
      BY <1>1, <1>3, <1>4, <2>1 DEF IndInv, BreakInv
    <2> QED
      BY <1>6, <2>5, <2>6, <2>7, <2>8 DEF IndInv
  <1> QED
    BY <1>9, <1>10

\* The item that ends the loop is executed, which completes it.
LEMMA scan_breakKeeps ==
    ASSUME IndInv, scan_break
    PROVE  IndInv'
  <1>1. /\ At("test") /\ queue # <<>> /\ ~is_busy /\ Head(queue) = "break"
        /\ loop' = "breaking"
        /\ handle_queue_completed(Callers)
        /\ UNCHANGED <<state, helper_idx, next_chain, q_chain_no, timer,
                       chain_tree, pinned, mon, one_off, round, fault, left>>
    BY DEF scan_break, MoreToDo, scanVars
  <1>2. /\ Callers \in Seq(Places) /\ Nested(Callers) /\ ~On(Callers, "advance")
        /\ \A e : On(stack, e) <=> On(Callers, e) \/ e = "test"
        /\ ~On(stack, "advance")
        /\ Once(Callers, TurnPlaces)
        /\ Once(stack, MovePlaces) => Once(Callers, MovePlaces)
        /\ Moves => ScanQueued
        /\ fault = "none" /\ loop \in {"running", "breaking"}
    BY <1>1, AtTest
  <1>3. /\ is_busy' = FALSE
        /\ queue' \in Seq(Request)
        /\ \A e : On(queue, e) <=> On(queue', e) \/ e = Head(queue)
        /\ Once(queue', ScanRequest)
        /\ Before(queue', "pinned", "break")
        /\ stack' \in Seq(Places) /\ Nested(stack')
        /\ stack' # <<>> /\ stack'[Len(stack')] \in {"test", "advance"}
        /\ \A e : On(stack', e) <=>
                     \/ On(Callers, e) \/ e = "test"
                     \/ e = "advance" /\ Head(queue) \in ScanRequest
        /\ Once(stack', TurnPlaces)
        /\ Once(Callers, MovePlaces) => Once(stack', MovePlaces)
    BY <1>1, <1>2, Completes
  <1>4. Head(queue) \notin ScanRequest
    BY <1>1, HelperNames
  <1>5. \A e : On(stack, e) <=> On(stack', e)
    BY <1>2, <1>3, <1>4
  <1>6. \A q \in ScanRequest : On(queue, q) <=> On(queue', q)
    BY <1>3, <1>4
  <1>7. (Turn' <=> Turn) /\ (Moves' <=> Moves) /\ (ScanQueued' <=> ScanQueued)
    BY <1>5, <1>6 DEF Turn, Moves, ScanQueued
  <1>8. TypeOK' /\ BoundsOK'
    BY <1>1, <1>3 DEF IndInv, TypeOK, BoundsOK
  <1>9. TurnInv' /\ StateInv'
    BY <1>1, <1>2, <1>3, <1>5, <1>7 DEF IndInv, TurnInv, StateInv
  <1>10. NestInv'
    BY <1>1, <1>2, <1>3, <1>5, <1>6, <1>7 DEF IndInv, NestInv, MovePlaces
  <1>11. OrderInv'
    <2>1. SUFFICES ASSUME ~round.failed PROVE OrderInv'
      BY <1>1 DEF OrderInv
    <2>2. /\ HelperInv /\ ChainsInv /\ ChainInv
          /\ Once(stack', MovePlaces)
          /\ On(stack, "pin") \/ On(stack, "wait") \/ timer => AllDumped
      BY <1>2, <1>3, <2>1 DEF IndInv, OrderInv
    <2>3. HelperInv'
      BY <1>1, <1>3, <1>5, <1>6, <2>2, HelperNames
         DEF HelperInv, ChainsDumped, HelpersDumped, Dumped
    <2>4. ChainsInv' /\ ChainInv'
      BY <1>1, <1>5, <1>6, <1>7, <2>2, HelperNames
         DEF ChainsInv, ChainInv, Dumped, ToWalk
    <2>5. AllDumped' <=> AllDumped
      BY <1>1 DEF AllDumped, ChainsDumped, HelpersDumped, Dumped
    <2> QED
      BY <1>1, <1>2, <1>5, <2>2, <2>3, <2>4, <2>5 DEF OrderInv, AdvanceInv
  <1>12. BreakInv'
    BY <1>1, <1>3, <1>5 DEF IndInv, BreakInv
  <1> QED
    BY <1>8, <1>9, <1>10, <1>11, <1>12 DEF IndInv

\* The reply of a request of the scanner is complete: what it dumped counts
\* for the round, and advance_scan has the turn.
LEMMA queue_is_completeKeeps ==
    ASSUME IndInv, queue_is_complete
    PROVE  IndInv'
  <1>1. /\ stack = <<>> /\ fault = "none" /\ loop \in {"running", "breaking"}
        /\ is_busy /\ queue # <<>>
        /\ handle_queue_completed(<<>>)
        /\ round' = [round EXCEPT !.dumped = @ \union {InFlight}]
        /\ UNCHANGED <<state, helper_idx, next_chain, q_chain_no, timer,
                       chain_tree, pinned, mon, loop, one_off, fault, left>>
    BY DEF queue_is_complete, EventLoop, scanVars, worldVars, IndInv, StateInv
  <1>2. \A e : ~On(stack, e)
    BY <1>1, OnEmpty
  <1>3. /\ is_busy' = FALSE
        /\ queue' \in Seq(Request) /\ Head(queue) \in Request
        /\ \A e : On(queue, e) <=> On(queue', e) \/ e = Head(queue)
        /\ Once(queue', ScanRequest)
        /\ Head(queue) \in ScanRequest => \A e \in ScanRequest : ~On(queue', e)
        /\ Before(queue', "pinned", "break")
        /\ stack' \in Seq(Places) /\ Nested(stack')
        /\ stack' # <<>> /\ stack'[Len(stack')] \in {"test", "advance"}
        /\ \A e : On(stack', e) <=>
                     e = "test" \/ (e = "advance" /\ Head(queue) \in ScanRequest)
        /\ Once(stack', TurnPlaces) /\ Once(stack', MovePlaces)
    <2>1. /\ <<>> \in Seq(Places) /\ Nested(<<>>)
          /\ Once(<<>>, TurnPlaces) /\ Once(<<>>, MovePlaces)
          /\ \A e : ~On(<<>>, e)
      BY OnEmpty
    <2> QED
      BY <1>1, <2>1, Completes
  <1>4. /\ round' \in [failed : BOOLEAN, seen : SUBSET Chain,
                       dumped : SUBSET (Request \X (Chain \union {NoChain}))]
        /\ round'.seen = round.seen /\ round'.failed = round.failed
        /\ round'.dumped = round.dumped \union {InFlight}
    <2>1. InFlight \in Request \X (Chain \union {NoChain})
      BY <1>3 DEF InFlight, IndInv, TypeOK
    <2>2. round \in [failed : BOOLEAN, seen : SUBSET Chain,
                     dumped : SUBSET (Request \X (Chain \union {NoChain}))]
      BY DEF IndInv, BoundsOK
    <2> QED
      BY <1>1, <2>1, <2>2
  <1>5. TypeOK' /\ BoundsOK'
    BY <1>1, <1>3, <1>4 DEF IndInv, TypeOK, BoundsOK
  <1>6. ~Moves' /\ (Turn' <=> Head(queue) \in ScanRequest)
    BY <1>3 DEF Moves, MovePlaces, Turn, TurnPlaces
  <1>7. ScanQueued' <=> ScanQueued /\ Head(queue) \notin ScanRequest
    BY <1>3 DEF ScanQueued
  <1>8. Head(queue) \in ScanRequest => ScanQueued
    BY <1>3 DEF ScanQueued
  <1>9. TurnInv'
    BY <1>1, <1>2, <1>3, <1>6, <1>7, <1>8 DEF IndInv, TurnInv, Turn
  <1>10. StateInv'
    BY <1>1, <1>2, <1>3, <1>7, <1>8 DEF IndInv, TurnInv, StateInv
  <1>11. NestInv'
    BY <1>3, <1>6 DEF NestInv, Moves, MovePlaces
  <1>12. OrderInv'
    <2>1. SUFFICES ASSUME ~round.failed PROVE OrderInv'
      BY <1>4 DEF OrderInv
    <2>2. /\ HelperInv /\ ChainsInv /\ ChainInv
          /\ timer => AllDumped
      BY <2>1 DEF IndInv, OrderInv
    <2>3. /\ \A q : Dumped(q) => Dumped(q)'
          /\ ChainsDumped => ChainsDumped'
          /\ \A n : HelpersDumped(n) => HelpersDumped(n)'
          /\ \A c : <<"chain", c>> \in round.dumped => <<"chain", c>> \in round'.dumped
      BY <1>4 DEF ChainsDumped, HelpersDumped, Dumped
    <2>4. AllDumped => AllDumped'
      BY <2>3 DEF AllDumped
    <2>5. HelperInv' /\ ChainsInv' /\ ChainInv'
      <3>1. \A q \in ScanRequest : On(queue', q) => On(queue, q) /\ Head(queue) \notin ScanRequest
        BY <1>3
      <3>2. HelperInv'
        <4>1. SUFFICES ASSUME NEW j \in 1..6, On(queue', scan_helpers[j])
                       PROVE  /\ ~On(stack', "chain")
                              /\ helper_idx' = j
                              /\ state' = "RUN_HELPERS"
                              /\ j > 1 => ChainsDumped' /\ HelpersDumped(j - 1)'
          BY <1>3, HelperNames DEF HelperInv
        <4>2. /\ On(queue, scan_helpers[j]) /\ Head(queue) # "filters"
          BY <3>1, <4>1, HelperNames
        <4>3. /\ helper_idx = j /\ state = "RUN_HELPERS"
              /\ j > 1 => ChainsDumped /\ HelpersDumped(j - 1)
          BY <1>2, <2>2, <4>2, HelperNames DEF HelperInv
        <4> QED
          BY <1>1, <1>3, <2>3, <4>3
      <3>3. ChainsInv'
        BY <1>1, <1>6, <2>2, <2>3, <3>1, HelperNames DEF ChainsInv
      <3>4. ChainInv'
        BY <1>1, <1>3, <1>4, <2>2, <2>3, <3>1, HelperNames DEF ChainInv, ToWalk
      <3> QED
        BY <3>2, <3>3, <3>4
    <2>6. AdvanceInv'
      <3>1. SUFFICES ASSUME Head(queue) \in ScanRequest PROVE AdvanceInv'
        BY <1>3 DEF AdvanceInv
      <3>2. On(queue, Head(queue))
        BY <1>3
      <3>3. CASE \E j \in 1..6 : Head(queue) = scan_helpers[j]
        <4>1. PICK j \in 1..6 : Head(queue) = scan_helpers[j]
          BY <3>3
        <4>2. /\ helper_idx = j
              /\ state = IF j = 1 THEN "DUMP_CHAINS" ELSE "RUN_HELPERS"
              /\ j > 1 => ChainsDumped /\ HelpersDumped(j - 1)
          BY <1>1, <1>2, <2>2, <3>2, <4>1, HelperNames DEF HelperInv
        <4>3. Dumped(scan_helpers[j])'
          <5>1. InFlight = <<scan_helpers[j], NoChain>>
            BY <4>1, HelperNames DEF InFlight
          <5> QED
            BY <1>4, <5>1 DEF Dumped
        <4>4. j > 1 => ChainsDumped' /\ HelpersDumped(j)'
          <5>1. ASSUME j > 1 PROVE \A k \in 1..j : Dumped(scan_helpers[k])'
            <6>1. \A k \in 1..j : k = j \/ k \in 1..(j - 1)
              OBVIOUS
            <6>2. \A k \in 1..(j - 1) : Dumped(scan_helpers[k])'
              BY <2>3, <4>2, <5>1 DEF HelpersDumped
            <6> QED
              BY <4>3, <6>1, <6>2
          <5> QED
            BY <2>3, <4>2, <5>1 DEF HelpersDumped
        <4> QED
          BY <1>1, <4>2, <4>3, <4>4, HelperNames DEF AdvanceInv
      <3>4. CASE Head(queue) = "chains"
        <4>1. /\ helper_idx = 1 /\ state = "DUMP_EACH_CHAIN_INIT" /\ Dumped("filters")
          BY <2>2, <3>2, <3>4 DEF ChainsInv
        <4>2. Dumped("chains")'
          BY <1>4, <3>4 DEF Dumped, InFlight
        <4> QED
          BY <1>1, <2>3, <4>1, <4>2 DEF AdvanceInv
      <3>5. CASE Head(queue) = "chain"
        <4>1. /\ helper_idx = 1
              /\ state = IF next_chain = NoChain THEN "RUN_HELPERS" ELSE "DUMP_EACH_CHAIN"
              /\ Dumped("filters") /\ Dumped("chains")
              /\ round.seen \subseteq chain_tree
              /\ \A c \in round.seen : \/ <<"chain", c>> \in round.dumped
                                       \/ c = q_chain_no \/ ToWalk(c)
          BY <2>2, <3>2, <3>5 DEF ChainInv
        <4>2. <<"chain", q_chain_no>> \in round'.dumped
          BY <1>4, <3>5 DEF InFlight
        <4>3. \A c \in round'.seen : <<"chain", c>> \in round'.dumped \/ ToWalk(c)'
          BY <1>1, <1>4, <2>3, <4>1, <4>2 DEF ToWalk
        <4>4. CASE next_chain = NoChain
          <5>1. ChainsDumped'
            BY <1>1, <2>3, <4>1, <4>3, <4>4 DEF ChainsDumped, ToWalk
          <5>2. HelpersDumped(1)'
            BY <2>3, <4>1, HelperNames DEF HelpersDumped
          <5> QED
            BY <1>1, <4>1, <4>4, <5>1, <5>2, HelperNames DEF AdvanceInv
        <4>5. CASE next_chain # NoChain
          BY <1>1, <1>4, <2>3, <4>1, <4>3, <4>5 DEF AdvanceInv
        <4> QED
          BY <4>4, <4>5
      <3> QED
        BY <3>1, <3>3, <3>4, <3>5, HelperNames
    <2> QED
      BY <1>1, <1>3, <1>6, <2>2, <2>4, <2>5, <2>6 DEF OrderInv
  <1>13. BreakInv'
    BY <1>1, <1>2, <1>3 DEF IndInv, BreakInv
  <1> QED
    BY <1>5, <1>9, <1>10, <1>11, <1>12, <1>13 DEF IndInv

-----------------------------------------------------------------------------
(* The event handlers. *)

\* A chain is added to the tree: the walks go on as before.
LEMMA filter_got_chainKeeps ==
    ASSUME IndInv, NEW c \in Chain, filter_got_chain(c)
    PROVE  IndInv'
  <1>1. /\ chain_tree' = chain_tree \union {c}
        /\ UNCHANGED <<state, helper_idx, next_chain, q_chain_no, timer, queue,
                       is_busy, pinned, mon, loop, one_off, stack, round, fault,
                       left>>
    BY DEF filter_got_chain, scanVars, queueVars
  <1>2. TypeOK' /\ BoundsOK' /\ BreakInv'
    BY <1>1 DEF IndInv, TypeOK, BoundsOK, BreakInv
  <1>3. (Turn' <=> Turn) /\ (Moves' <=> Moves) /\ (ScanQueued' <=> ScanQueued)
    BY <1>1 DEF Turn, Moves, ScanQueued
  <1>4. TurnInv' /\ StateInv' /\ NestInv'
    BY <1>1, <1>3 DEF IndInv, TurnInv, StateInv, NestInv
  <1>5. OrderInv'
    <2>1. SUFFICES ASSUME ~round.failed PROVE OrderInv'
      BY <1>1 DEF OrderInv
    <2>2. HelperInv' /\ ChainsInv' /\ ChainInv'
      BY <1>1, <1>3, <2>1
         DEF IndInv, OrderInv, HelperInv, ChainsInv, ChainInv, ChainsDumped,
             HelpersDumped, Dumped, ToWalk
    <2>3. AdvanceInv'
      BY <1>1, <2>1
         DEF IndInv, OrderInv, AdvanceInv, AllDumped, ChainsDumped, HelpersDumped,
             Dumped, ToWalk
    <2> QED
      BY <1>1, <1>3, <2>1, <2>2, <2>3
         DEF IndInv, OrderInv, AllDumped, ChainsDumped, HelpersDumped, Dumped
  <1> QED
    BY <1>2, <1>4, <1>5 DEF IndInv

\* Steps that leave the scanner, the queue and the C stack alone: others
\* change something, or the loop is told to end or ends.
LEMMA ElsewhereKeeps ==
    ASSUME IndInv,
           UNCHANGED <<state, helper_idx, next_chain, q_chain_no, timer, queue,
                       is_busy, chain_tree, pinned, one_off, stack, round, fault>>,
           mon' \in Nat,
           left' \in [rounds : 0..MaxRounds, fails : 0..MaxFails,
                      rules : 0..MaxRules, changes : 0..MaxChanges],
           left'.rounds = left.rounds, left'.fails = left.fails,
           \/ loop' = loop
           \/ /\ stack = <<>> /\ loop \in {"running", "breaking"}
              /\ loop' \in {"breaking", "ended"}
    PROVE  IndInv'
  <1>1. TypeOK' /\ BoundsOK' /\ BreakInv'
    BY DEF IndInv, TypeOK, BoundsOK, BreakInv
  <1>2. (Turn' <=> Turn) /\ (Moves' <=> Moves) /\ (ScanQueued' <=> ScanQueued)
    BY DEF Turn, Moves, ScanQueued
  <1>3. TurnInv' /\ StateInv' /\ NestInv'
    BY <1>2 DEF IndInv, TurnInv, StateInv, NestInv
  <1>4. OrderInv'
    BY <1>2
       DEF IndInv, OrderInv, HelperInv, ChainsInv, ChainInv, AdvanceInv, AllDumped,
           ChainsDumped, HelpersDumped, Dumped, ToWalk
  <1> QED
    BY <1>1, <1>3, <1>4 DEF IndInv

\* Somebody else changes something.
LEMMA NotifyKeeps ==
    ASSUME IndInv, Notify
    PROVE  IndInv'
  <1>1. /\ left.changes > 0 /\ left' = [left EXCEPT !.changes = @ - 1]
        /\ mon' = mon + 1
        /\ UNCHANGED <<state, helper_idx, next_chain, q_chain_no, timer, queue,
                       is_busy, chain_tree, pinned, one_off, stack, round, fault,
                       loop>>
    BY DEF Notify, scanVars, queueVars
  <1>2. mon \in Nat /\ left \in [rounds : 0..MaxRounds, fails : 0..MaxFails,
                                rules : 0..MaxRules, changes : 0..MaxChanges]
    BY DEF IndInv, TypeOK, BoundsOK
  <1>3. /\ mon' \in Nat
        /\ left' \in [rounds : 0..MaxRounds, fails : 0..MaxFails,
                      rules : 0..MaxRules, changes : 0..MaxChanges]
        /\ left'.rounds = left.rounds /\ left'.fails = left.fails
    BY <1>1, <1>2, BoundAssumption
  <1> QED
    BY <1>1, <1>3, ElsewhereKeeps

\* --timeout ends the loop.
LEMMA LoopKeeps ==
    ASSUME IndInv, timeout_cb \/ ev_run_returns
    PROVE  IndInv'
  <1>1. /\ stack = <<>> /\ loop \in {"running", "breaking"}
        /\ loop' \in {"breaking", "ended"}
        /\ UNCHANGED <<state, helper_idx, next_chain, q_chain_no, timer, queue,
                       is_busy, chain_tree, pinned, mon, one_off, stack, round,
                       fault, left>>
    BY DEF timeout_cb, ev_run_returns, EventLoop, scanVars, queueVars
  <1>2. mon' \in Nat /\ left' \in [rounds : 0..MaxRounds, fails : 0..MaxFails,
                                  rules : 0..MaxRules, changes : 0..MaxChanges]
    BY <1>1 DEF IndInv, TypeOK, BoundsOK
  <1> QED
    BY <1>1, <1>2, ElsewhereKeeps

\* A rule is requested on behalf of a notification.
LEMMA ReceiveNotificationKeeps ==
    ASSUME IndInv, ReceiveNotification
    PROVE  IndInv'
  <1>1. /\ stack = <<>> /\ fault = "none" /\ loop \in {"running", "breaking"}
        /\ mon > 0 /\ mon' = mon - 1
        /\ UNCHANGED <<state, helper_idx, next_chain, q_chain_no, timer,
                       chain_tree, pinned, loop, one_off, round, fault, left>>
    BY DEF ReceiveNotification, EventLoop, scanVars
  <1>2. mon' \in Nat
    BY <1>1 DEF IndInv, TypeOK
  <1>3. CASE UNCHANGED <<queue, is_busy, stack>>
    <2>1. left' \in [rounds : 0..MaxRounds, fails : 0..MaxFails,
                     rules : 0..MaxRules, changes : 0..MaxChanges]
      BY <1>1 DEF IndInv, BoundsOK
    <2> QED
      BY <1>1, <1>2, <1>3, <2>1, ElsewhereKeeps
  <1>4. CASE queue_schedule("rule", <<>>)
    <2>1. /\ TypeOK /\ "rule" \in Request /\ "rule" \notin ScanRequest
          /\ Once(queue, ScanRequest) /\ Before(queue, "pinned", "break")
          /\ <<>> \in Seq(Places)
      BY HelperNames DEF IndInv, TurnInv, BreakInv
    <2>2. /\ Nested(<<>>) /\ \A e : ~On(<<>>, e)
          /\ Once(<<>>, TurnPlaces) /\ Once(<<>>, MovePlaces)
      BY OnEmpty
    <2>3. /\ queue' \in Seq(Request) /\ queue' # <<>> /\ is_busy' = is_busy
          /\ Head(queue') = IF queue = <<>> THEN "rule" ELSE Head(queue)
          /\ \A e : On(queue', e) <=> On(queue, e) \/ e = "rule"
          /\ Once(queue', ScanRequest)
          /\ Before(queue', "pinned", "break")
          /\ stack' \in Seq(Places) /\ Nested(stack')
          /\ \A e : On(stack', e) <=> ~is_busy /\ e = "test"
          /\ Once(stack', TurnPlaces) /\ Once(stack', MovePlaces)
          /\ ~is_busy => stack' # <<>> /\ stack'[Len(stack')] = "test"
          /\ is_busy => stack' = <<>>
      BY <1>4, <2>1, <2>2, SchedulePoints
    <2>4. /\ \A q \in ScanRequest : On(queue', q) <=> On(queue, q)
          /\ On(queue', "break") <=> On(queue, "break")
      BY <2>1, <2>3
    <2>5. \A e \in TurnPlaces \union MovePlaces : ~On(stack, e) /\ ~On(stack', e)
      BY <1>1, <2>2, <2>3 DEF TurnPlaces, MovePlaces
    <2>6. ~Turn /\ ~Turn' /\ ~Moves' /\ (ScanQueued' <=> ScanQueued)
      BY <2>4, <2>5 DEF Turn, Moves, ScanQueued
    <2>7. TypeOK' /\ BoundsOK'
      BY <1>1, <1>2, <2>3 DEF IndInv, TypeOK, BoundsOK
    <2>8. TurnInv' /\ StateInv'
      BY <1>1, <2>3, <2>5, <2>6 DEF IndInv, TurnInv, StateInv, TurnPlaces
    <2>9. NestInv'
      BY <2>3, <2>5, <2>6 DEF NestInv, MovePlaces
    <2>10. OrderInv'
      <3>1. SUFFICES ASSUME ~round.failed PROVE OrderInv'
        BY <1>1 DEF OrderInv
      <3>2. is_busy' => Head(queue') = Head(queue)
        BY <2>3 DEF IndInv, StateInv
      <3>3. HelperInv' /\ ChainsInv' /\ ChainInv'
        BY <1>1, <2>3, <2>4, <2>5, <2>6, <3>1, <3>2, HelperNames
           DEF IndInv, OrderInv, HelperInv, ChainsInv, ChainInv, ChainsDumped,
               HelpersDumped, Dumped, ToWalk, MovePlaces
      <3> QED
        BY <1>1, <2>3, <2>5, <2>6, <3>1, <3>3
           DEF IndInv, OrderInv, AdvanceInv, AllDumped, ChainsDumped,
               HelpersDumped, Dumped, TurnPlaces
    <2>11. BreakInv'
      BY <1>1, <2>3, <2>4, <2>5 DEF IndInv, BreakInv, TurnPlaces
    <2> QED
      BY <2>7, <2>8, <2>9, <2>10, <2>11 DEF IndInv
  <1> QED
    BY <1>3, <1>4 DEF ReceiveNotification, queueVars

\* The timer of the wait expires: a new round begins.
LEMMA scan_timeout_cbKeeps ==
    ASSUME IndInv, scan_timeout_cb
    PROVE  IndInv'
  <1>1. /\ stack = <<>> /\ fault = "none" /\ loop \in {"running", "breaking"}
        /\ timer /\ timer' = FALSE
        /\ left.rounds > 0 /\ left' = [left EXCEPT !.rounds = @ - 1]
        /\ round' = NewRound
        /\ UNCHANGED <<helper_idx, next_chain, q_chain_no, queue, is_busy,
                       chain_tree, pinned, mon, loop, one_off>>
    BY DEF scan_timeout_cb, EventLoop, queueVars, worldVars
  <1>2. /\ state = "WAIT" /\ helper_idx = 0 /\ ~ScanQueued /\ ~Turn
    BY <1>1 DEF IndInv, TurnInv, StateInv
  <1>3. state' = "RUN_HELPERS" /\ stack' = <<"advance">> /\ fault' = fault
    BY <1>2 DEF scan_timeout_cb
  <1>4. /\ <<"advance">> \in Seq(Places) /\ <<"advance">> # <<>>
        /\ \A e : On(<<"advance">>, e) <=> e = "advance"
        /\ Once(<<"advance">>, TurnPlaces) /\ Once(<<"advance">>, MovePlaces)
        /\ Nested(<<"advance">>)
        /\ <<"advance">>[Len(<<"advance">>)] = "advance"
    BY DEF Places, On, Once, Nested
  <1>5. left' \in [rounds : 0..MaxRounds, fails : 0..MaxFails,
                   rules : 0..MaxRules, changes : 0..MaxChanges]
        /\ left'.rounds < MaxRounds
    <2>1. left \in [rounds : 0..MaxRounds, fails : 0..MaxFails,
                    rules : 0..MaxRules, changes : 0..MaxChanges]
      BY DEF IndInv, BoundsOK
    <2> QED
      BY <1>1, <2>1, BoundAssumption
  <1>6. TypeOK' /\ BoundsOK'
    BY <1>1, <1>3, <1>4, <1>5 DEF IndInv, TypeOK, BoundsOK, NewRound
  <1>7. Turn' /\ ~ScanQueued' /\ ~Moves'
    BY <1>1, <1>2, <1>3, <1>4 DEF Turn, ScanQueued, Moves, TurnPlaces, MovePlaces
  <1>8. TurnInv' /\ StateInv'
    BY <1>1, <1>2, <1>3, <1>4, <1>7 DEF IndInv, TurnInv, StateInv, TurnPlaces
  <1>9. NestInv'
    BY <1>3, <1>4, <1>7 DEF NestInv, MovePlaces
  <1>10. OrderInv'
    <2>1. HelperInv' /\ ChainsInv' /\ ChainInv'
      BY <1>7, HelperNames DEF HelperInv, ChainsInv, ChainInv, ScanQueued
    <2> QED
      BY <1>1, <1>2, <1>3, <1>4, <1>7, <2>1 DEF OrderInv, AdvanceInv
  <1>11. BreakInv'
    BY <1>1, <1>5 DEF IndInv, BreakInv
  <1> QED
    BY <1>6, <1>8, <1>9, <1>10, <1>11 DEF IndInv

\* The daemon stops the timer and drops the queue when it ends.
LEMMA scan_finiKeeps ==
    ASSUME IndInv, scan_fini
    PROVE  IndInv'
  <1>1. /\ loop = "ended" /\ fault = "none" /\ loop' = "finished"
        /\ timer' = FALSE /\ queue' = <<>> /\ is_busy' = FALSE
        /\ UNCHANGED <<state, helper_idx, next_chain, q_chain_no, chain_tree,
                       pinned, mon, one_off, stack, round, fault, left>>
    BY DEF scan_fini
  <1>2. stack = <<>> /\ stack' = <<>>
    BY <1>1 DEF IndInv, StateInv
  <1>3. /\ \A e : ~On(stack', e) /\ ~On(queue', e)
        /\ Once(stack', TurnPlaces) /\ Once(stack', MovePlaces)
        /\ Once(queue', ScanRequest) /\ Before(queue', "pinned", "break")
        /\ Nested(stack')
    BY <1>1, <1>2, OnEmpty
  <1>4. TypeOK' /\ BoundsOK'
    <2>1. <<>> \in Seq(Request) /\ <<>> \in Seq(Places)
      OBVIOUS
    <2> QED
      BY <1>1, <1>2, <2>1 DEF IndInv, TypeOK, BoundsOK
  <1>5. ~Turn' /\ ~ScanQueued' /\ ~Moves'
    BY <1>3 DEF Turn, ScanQueued, Moves
  <1>6. TurnInv' /\ StateInv' /\ NestInv' /\ BreakInv'
    BY <1>1, <1>2, <1>3, <1>5 DEF IndInv, TurnInv, StateInv, NestInv, BreakInv
  <1>7. OrderInv'
    BY <1>1, <1>3, <1>5
       DEF OrderInv, HelperInv, ChainsInv, ChainInv, AdvanceInv
  <1> QED
    BY <1>4, <1>6, <1>7 DEF IndInv

-----------------------------------------------------------------------------
(* The invariant, and the properties that follow from it. *)

\* The daemon starts with advance_scan called for the first time.
LEMMA InitIndInv == Init => IndInv
  <1> SUFFICES ASSUME Init PROVE IndInv
    OBVIOUS
  <1>1. /\ queue = <<>> /\ stack = <<"advance">> /\ stack # <<>>
        /\ stack[Len(stack)] = "advance"
        /\ state = "NEW" /\ helper_idx = 0 /\ timer = FALSE /\ is_busy = FALSE
        /\ loop = "running" /\ fault = "none"
    BY DEF Init
  <1>2. /\ stack \in Seq(Places)
        /\ \A e : On(stack, e) <=> e = "advance"
        /\ Once(stack, TurnPlaces) /\ Once(stack, MovePlaces) /\ Nested(stack)
    BY <1>1 DEF Places, On, Once, Nested
  <1>3. /\ \A e : ~On(queue, e)
        /\ Once(queue, ScanRequest) /\ Before(queue, "pinned", "break")
    BY <1>1, OnEmpty
  <1>4. TypeOK
    <2>1. <<>> \in Seq(Request)
      OBVIOUS
    <2>2. one_off \in BOOLEAN /\ pinned \in BOOLEAN
      BY FlagAssumption DEF Init
    <2>3. /\ next_chain = NoChain /\ q_chain_no = NoChain
          /\ chain_tree \subseteq Chain /\ mon \in Nat
      BY DEF Init
    <2> QED
      BY <1>1, <1>2, <2>1, <2>2, <2>3 DEF TypeOK
  <1>5. BoundsOK
    BY BoundAssumption DEF Init, BoundsOK, NewRound
  <1>6. Turn /\ ~ScanQueued /\ ~Moves
    BY <1>2, <1>3 DEF Turn, ScanQueued, Moves, TurnPlaces, MovePlaces
  <1>7. TurnInv /\ StateInv /\ NestInv /\ BreakInv
    BY <1>1, <1>2, <1>3, <1>6
       DEF TurnInv, StateInv, NestInv, BreakInv, MovePlaces
  <1>8. OrderInv
    BY <1>1, <1>2, <1>3, <1>6
       DEF OrderInv, HelperInv, ChainsInv, ChainInv, AdvanceInv
  <1> QED
    BY <1>4, <1>5, <1>7, <1>8 DEF IndInv

\* Every step of the scanner, the queue and the world keeps the invariant.
LEMMA NextIndInv == IndInv /\ [Next]_vars => IndInv'
  <1> SUFFICES ASSUME IndInv, [Next]_vars PROVE IndInv'
    OBVIOUS
  <1>1. CASE Program
    BY <1>1, scan_newKeeps, run_helperKeeps, helper_scheduledKeeps,
       helpers_doneKeeps, dump_chainsKeeps, dump_each_chain_initKeeps,
       dump_each_chainKeeps, chain_scheduledKeeps, scan_doneKeeps,
       pin_removedKeeps, scan_waitKeeps, timer_againKeeps, scheduled_returnsKeeps,
       goes_wrongKeeps, send_worksKeeps, scan_breakKeeps, loop_endsKeeps,
       queue_is_completeKeeps
       DEF Program
  <1>2. CASE Environment
    BY <1>2, pin_requestsKeeps, send_failsKeeps, filter_got_chainKeeps,
       NotifyKeeps, ReceiveNotificationKeeps, scan_timeout_cbKeeps, LoopKeeps,
       scan_finiKeeps
       DEF Environment
  <1>3. CASE UNCHANGED vars
    <2>1. /\ UNCHANGED <<state, helper_idx, next_chain, q_chain_no, timer, queue,
                         is_busy, chain_tree, pinned, one_off, stack, round, fault,
                         loop, mon, left>>
      BY <1>3 DEF vars, scanVars, queueVars, worldVars
    <2>2. mon \in Nat /\ left \in [rounds : 0..MaxRounds, fails : 0..MaxFails,
                                  rules : 0..MaxRules, changes : 0..MaxChanges]
      BY DEF IndInv, TypeOK, BoundsOK
    <2> QED
      BY <2>1, <2>2, ElsewhereKeeps
  <1> QED
    BY <1>1, <1>2, <1>3 DEF Next

\* One activation, one request or the timer has the turn of advance_scan, and
\* the activations that a failed send nests have moved nothing on.
THEOREM Inductive == Spec => []IndInv
  BY InitIndInv, NextIndInv, PTL DEF Spec

\* Types of the scanner's state and of the C stack.
THEOREM Typed == Spec => []TypeOK
  BY Inductive, PTL DEF IndInv

\* advance_scan has exactly one turn: whenever libev waits, one request of the
\* scanner will call it back, or the timer will, and never both.
THEOREM TurnIsKept == Spec => []OneTurn
  <1>1. IndInv => OneTurn
    <2>1. SUFFICES ASSUME IndInv, EventLoop PROVE
             /\ timer => state = "WAIT"
             /\ Cardinality({k \in 1..Len(queue) : queue[k] \in ScanRequest})
                   = IF timer THEN 0 ELSE 1
      BY DEF OneTurn
    <2> DEFINE K == {k \in 1..Len(queue) : queue[k] \in ScanRequest}
    <2>2. ~Turn /\ loop # "finished"
      BY <2>1, OnEmpty DEF EventLoop, Turn
    <2>3. timer => state = "WAIT" /\ ~ScanQueued
      BY <2>1 DEF IndInv, TurnInv, StateInv
    <2>4. CASE timer
      <3>1. K = {}
        BY <2>3, <2>4 DEF ScanQueued, On
      <3> QED
        BY <2>3, <2>4, <3>1, FS_EmptySet
    <2>5. CASE ~timer
      <3>1. ScanQueued
        BY <2>1, <2>2, <2>5 DEF IndInv, TurnInv
      <3>2. PICK k \in 1..Len(queue) : queue[k] \in ScanRequest
        BY <3>1 DEF ScanQueued, On
      <3>3. K = {k}
        BY <2>1, <3>2 DEF IndInv, TurnInv, Once
      <3> HIDE DEF K
      <3>4. Cardinality(K) = 1
        BY <3>3, FS_Singleton
      <3> QED
        BY <2>5, <3>4 DEF K
    <2> QED
      BY <2>4, <2>5
  <1> QED
    BY <1>1, Inductive, PTL

\* The walks leave scan_helpers or the chain tree, and the assertions fail,
\* only after a send has failed.
THEOREM WalksStayInBounds == Spec => []WalksInBounds
  <1>1. IndInv => WalksInBounds
    BY DEF IndInv, OrderInv, BoundsOK, WalksInBounds
  <1> QED
    BY <1>1, Inductive, PTL

\* In a round whose requests could all be sent: first the qdiscs, then every
\* chain known when the walk began, then links, neighbours and routes; and the
\* pin is removed when all of them have been answered.
THEOREM RoundsAreInOrder == Spec => []RoundInOrder
  <1>1. IndInv => RoundInOrder
    <2>1. SUFFICES ASSUME IndInv, fault = "none", ~round.failed
                   PROVE  /\ is_busy /\ Head(queue) = "chain" => Dumped("chains")
                          /\ \A k \in 2..6 :
                                is_busy /\ Head(queue) = scan_helpers[k] =>
                                   ChainsDumped /\ HelpersDumped(k - 1)
                          /\ At("pin") => ChainsDumped /\ HelpersDumped(6)
      BY HelperNames DEF RoundInOrder
    <2>2. is_busy => On(queue, Head(queue))
      BY <2>1, OnTail DEF IndInv, TypeOK, StateInv
    <2>3. At("pin") => On(stack, "pin")
      BY <2>1, HasTurn
    <2> QED
      BY <2>1, <2>2, <2>3, HelperNames
         DEF IndInv, OrderInv, HelperInv, ChainInv, AllDumped
  <1> QED
    BY <1>1, Inductive, PTL

\* The item that ends the loop is executed after every request that removing
\* the pin made, and not before the first round has been answered.
THEOREM OneOffWaitsForAll == Spec => []OneOffWaits
  <1>1. IndInv => OneOffWaits
    <2>1. SUFFICES ASSUME IndInv, At("test"), queue # <<>>, Head(queue) = "break"
                   PROVE  /\ ~pinned
                          /\ \A k \in 1..Len(queue) : queue[k] # "pinned"
                          /\ left.rounds = MaxRounds /\ ~round.failed =>
                                ChainsDumped /\ HelpersDumped(Len(scan_helpers))
      BY DEF OneOffWaits, MoreToDo
    <2>2. On(queue, "break") /\ ~On(queue, "pinned")
      BY <2>1, OnTail DEF IndInv, TypeOK, BreakInv
    <2>3. \A k \in 1..Len(queue) : queue[k] # "pinned"
      BY <2>2 DEF On
    <2>4. ~pinned /\ (left.rounds = MaxRounds => On(stack, "wait") \/ timer)
      BY <2>1, <2>2 DEF IndInv, BreakInv
    <2> QED
      BY <2>1, <2>3, <2>4 DEF IndInv, OrderInv, AllDumped
  <1> QED
    BY <1>1, Inductive, PTL
=============================================================================
