------------------------ MODULE InformerCacheProofs ------------------------
(***************************************************************************)
(* Proofs about InformerCache, for every set of names, callers and page    *)
(* size and any number of writes.                                          *)
(***************************************************************************)
EXTENDS InformerCache, FiniteSetTheorems, TLAPS

---------------------------------------------------------------------------
(* Least and greatest elements.                                            *)

LEMMA MinIsLeast ==
  ASSUME NEW S \in SUBSET Nat, S # {}
  PROVE  Min(S) \in S /\ \A n \in S : Min(S) <= n
<1> DEFINE Below == {0..n : n \in S}
<1>1. Below \subseteq FiniteSubsetsOf(Nat) /\ Below # {}
  <2>1. \A n \in Nat : IsFiniteSet(0..n) /\ 0..n \in SUBSET Nat
    BY FS_Interval
  <2> QED
    BY <2>1 DEF FiniteSubsetsOf
<1>2. PICK U \in Below : \A V \in Below : <<V, U>> \notin StrictSubsetOrdering(Nat)
  BY <1>1, FS_StrictSubsetOrderingWellFounded, WFMin
<1>3. PICK x \in S : U = 0..x
  OBVIOUS
<1>4. ASSUME NEW y \in S, y < x PROVE FALSE
  <2>1. 0..y \subseteq 0..x /\ x \in 0..x /\ x \notin 0..y
    BY <1>4
  <2>2. <<0..y, 0..x>> \in StrictSubsetOrdering(Nat)
    BY <2>1 DEF StrictSubsetOrdering
  <2> QED
    BY <1>2, <1>3, <2>2
<1>5. \A y \in S : x <= y
  BY <1>4
<1> QED
  BY <1>5 DEF Min

LEMMA RankType ==
  ASSUME NEW S \in SUBSET Nat, IsFiniteSet(S), NEW n \in S
  PROVE  Rank(n, S) \in 1..Cardinality(S)
<1> DEFINE T == {m \in S : m <= n}
<1>1. T \in SUBSET S /\ n \in T
  OBVIOUS
<1>2. IsFiniteSet(T) /\ Cardinality(T) <= Cardinality(S)
  BY <1>1, FS_Subset
<1>3. Cardinality(T) \in Nat /\ Cardinality(T) # 0 /\ Cardinality(S) \in Nat
  BY <1>1, <1>2, FS_CardinalityType, FS_EmptySet
<1> QED
  BY <1>2, <1>3 DEF Rank

LEMMA RankGrows ==
  ASSUME NEW S \in SUBSET Nat, IsFiniteSet(S), NEW n \in S, NEW m \in S, n < m
  PROVE  Rank(n, S) < Rank(m, S)
<1> DEFINE T == {k \in S : k <= n}
           U == {k \in S : k <= m}
<1>1. U \in SUBSET S /\ m \in U /\ m \notin T
  OBVIOUS
<1>2. T \in SUBSET U
  <2> SUFFICES ASSUME NEW k \in S, k <= n PROVE k <= m
    OBVIOUS
  <2>1. k \in Nat /\ n \in Nat /\ m \in Nat
    OBVIOUS
  <2> QED
    BY <2>1
<1>3. IsFiniteSet(U) /\ IsFiniteSet(T)
  BY <1>1, <1>2, FS_Subset
<1>4. Cardinality(T) <= Cardinality(U) /\ Cardinality(T) # Cardinality(U)
  BY <1>1, <1>2, <1>3, FS_Subset
<1>5. Cardinality(T) \in Nat /\ Cardinality(U) \in Nat
  BY <1>3, FS_CardinalityType
<1> QED
  BY <1>4, <1>5 DEF Rank

\* A finite set of numbers has a greatest: the one of the greatest rank.
LEMMA MaxIsGreatest ==
  ASSUME NEW S \in SUBSET Nat, IsFiniteSet(S), S # {}
  PROVE  Max(S) \in S /\ \A n \in S : n <= Max(S)
<1> DEFINE Above == {Cardinality(S) - Rank(n, S) : n \in S}
<1>1. Cardinality(S) \in Nat
  BY FS_CardinalityType
<1>2. ASSUME NEW n \in S PROVE Cardinality(S) - Rank(n, S) \in Nat
  <2>1. Rank(n, S) \in 1..Cardinality(S)
    BY RankType
  <2> QED
    BY <1>1, <2>1
<1>3. Above \in SUBSET Nat /\ Above # {}
  BY <1>2
<1>4. Min(Above) \in Above /\ \A k \in Above : Min(Above) <= k
  <2> HIDE DEF Above
  <2> QED
    BY <1>3, MinIsLeast
<1>5. PICK x \in S : Min(Above) = Cardinality(S) - Rank(x, S)
  BY <1>4
<1>6. ASSUME NEW y \in S, x < y PROVE FALSE
  <2>1. Rank(x, S) < Rank(y, S)
    BY <1>6, RankGrows
  <2>2. Cardinality(S) - Rank(x, S) <= Cardinality(S) - Rank(y, S)
    BY <1>4, <1>5
  <2>3. Rank(x, S) \in 1..Cardinality(S) /\ Rank(y, S) \in 1..Cardinality(S)
    BY RankType
  <2> QED
    BY <1>1, <2>1, <2>2, <2>3
<1>7. \A y \in S : x >= y
  BY <1>6
<1> QED
  BY <1>7 DEF Max

\* InOrder is a list of all of S without repetition.
LEMMA InOrderLists ==
  ASSUME NEW S \in SUBSET Nat, IsFiniteSet(S)
  PROVE  /\ Cardinality(S) \in Nat
         /\ InOrder(S) \in Seq(S)
         /\ Len(InOrder(S)) = Cardinality(S)
         /\ IsInjective(InOrder(S))
         /\ \A n \in S : \E i \in 1..Cardinality(S) : InOrder(S)[i] = n
<1> DEFINE size == Cardinality(S)
           rank == [n \in S |-> Rank(n, S)]
<1>1. size \in Nat
  BY FS_CardinalityType
<1>2. rank \in [S -> 1..size]
  BY RankType
<1>3. \A m, n \in S : Rank(m, S) = Rank(n, S) => m = n
  <2> SUFFICES ASSUME NEW m \in S, NEW n \in S, Rank(m, S) = Rank(n, S), m # n
               PROVE  FALSE
    OBVIOUS
  <2>1. Rank(m, S) \in Nat /\ Rank(n, S) \in Nat
    BY RankType
  <2>2. m < n \/ n < m
    OBVIOUS
  <2> QED
    BY <2>1, <2>2, RankGrows
<1>4. rank \in Injection(S, 1..size)
  BY <1>2, <1>3 DEF Injection, IsInjective
<1>5. IsFiniteSet(1..size) /\ Cardinality(1..size) = size
  BY <1>1, FS_Interval
<1>6. rank \in Surjection(S, 1..size)
  BY <1>4, <1>5, FS_Injection
<1>7. \A i \in 1..size : \E n \in S : Rank(n, S) = i
  BY <1>6 DEF Surjection
<1>8. \A i \in 1..size : InOrder(S)[i] \in S /\ Rank(InOrder(S)[i], S) = i
  BY <1>7 DEF InOrder
<1>9. InOrder(S) \in [1..size -> S]
  BY <1>8 DEF InOrder
<1>10. IsInjective(InOrder(S))
  BY <1>8, <1>9 DEF IsInjective
<1>11. ASSUME NEW n \in S PROVE InOrder(S)[Rank(n, S)] = n
  BY <1>3, <1>8, RankType
<1> QED
  BY <1>1, <1>9, <1>10, <1>11, RankType

---------------------------------------------------------------------------
(* The inductive invariant.                                                *)

\* What etcd holds of an object only grows, but for its deletion.
HistoryFits ==
  /\ Revision <= MaxRevision
  /\ \A t \in Resources, n \in Slots, q \in 0..Revision :
       /\ At(q)[t][n] <= q
       /\ \A p \in 0..q : At(q)[t][n] = 0 \/ At(p)[t][n] <= At(q)[t][n]

\* What a reflector x of t knows: the pages of a list are those up to the
\* token's name at one revision, never older than the last one seen.
ReflectorOf(t, x) ==
  /\ x.rv <= Revision
  /\ ~x.synced => x.rv = 0 /\ x.pc \notin {"watch", "watching"}
  /\ x.pc \in {"page", "replace"} => x.rv <= x.list.at /\ x.list.at <= Revision
  /\ x.pc = "page" => x.list.has = {n \in Items(t, x.list.at) : n <= x.list.from}
  /\ x.pc = "page" /\ x.list.asked = "any" => x.rv = 0
  /\ x.pc = "replace" => x.list.has = Items(t, x.list.at)

ReflectorFits ==
  \A t \in Resources : /\ ReflectorOf(t, reflector[t])
                       /\ t \notin started => reflector[t] = Idle

\* v is a version of n that the reflector of t has seen.
Seen(t, rv, n, v) == \E q \in 0..rv : v = At(q)[t][n]

\* v is n as it was in the list of revision first, or later, or n was deleted
\* since.
Fresh(t, first, n, v) ==
  v >= At(first)[t][n] \/ \E r \in first..Revision : At(r)[t][n] = 0

\* The cache c and the queue f of t, when its reflector is at rv.
QueueOf(t, rv, f, c) ==
  /\ ~f.populated => f = Empty /\ c = [n \in Slots |-> 0]
  /\ f.populated => f.first <= rv
  /\ \A n \in Slots : Seen(t, rv, n, c[n])
  /\ \A i \in 1..Len(f.queue) :
       LET n == f.queue[i] IN
         /\ Seen(t, rv, n, f.items[n])
         /\ f.items[n] = 0 \/ c[n] <= f.items[n]
  /\ f.populated =>
       /\ \A n \in Items(t, f.first) : \/ Fresh(t, f.first, n, c[n])
                                       \/ \E i \in 1..f.initial : f.queue[i] = n
       /\ \A i \in 1..Len(f.queue) :
            LET n == f.queue[i] IN
              n \in Items(t, f.first) => Fresh(t, f.first, n, f.items[n])

QueueFits ==
  \A t \in Resources :
    /\ fifo[t].populated <=> reflector[t].synced
    /\ QueueOf(t, reflector[t].rv, fifo[t], indexer[t])

CallersFit ==
  \A c \in Callers :
    LET x == caller[c] IN
      /\ x.pc # "new" => x.of \in informers
      /\ x.pc \in {"wait", "waiting", "ready"} => x.of \in started
      /\ x.pc = "waiting" => x.of \in x.waits
      /\ x.pc = "ready" => HasSynced(x.of)

IInv == TypeOK /\ HistoryFits /\ ReflectorFits /\ QueueFits /\ CallersFit

---------------------------------------------------------------------------
(* Slots, revisions and queues.                                            *)

LEMMA SlotsFacts ==
  /\ Slots \in SUBSET Nat /\ IsFiniteSet(Slots) /\ Names \in SUBSET Slots
  /\ \A S \in SUBSET Slots : S \in SUBSET Nat /\ IsFiniteSet(S)
<1>1. Slots \in SUBSET Nat /\ Names \in SUBSET Slots
  BY NamesAssumption DEF Slots, GroupKey
<1>2. IsFiniteSet({GroupKey})
  BY FS_Singleton
<1>3. IsFiniteSet(Slots)
  BY <1>2, NamesAssumption, FS_Union DEF Slots
<1> QED
  BY <1>1, <1>3, FS_Subset

LEMMA AtType ==
  ASSUME TypeOK, NEW r \in 0..Revision
  PROVE  At(r) \in [Resources -> [Slots -> 0..MaxRevision]]
<1>1. CASE r = 0
  BY <1>1, MaxRevisionAssumption DEF At, Nowhere
<1>2. CASE r # 0
  BY <1>2 DEF At, TypeOK, Revision
<1> QED
  BY <1>1, <1>2

LEMMA ItemsType ==
  ASSUME NEW t, NEW r
  PROVE  Items(t, r) \in SUBSET Names /\ Items(t, r) \in SUBSET Slots
BY SlotsFacts DEF Items, Listed

\* A queue grows at its end, by the names that are not in it.
Extends(e, q, S) ==
  /\ e \in Seq(Slots) /\ IsInjective(e)
  /\ Len(q) \in Nat /\ Len(e) \in Nat /\ Len(q) <= Len(e)
  /\ \A i \in 1..Len(q) : e[i] = q[i]
  /\ \A i \in (Len(q) + 1)..Len(e) : e[i] \in S
  /\ \A n \in S : \E i \in 1..Len(e) : e[i] = n
  /\ q = << >> => Len(e) = Cardinality(S)

LEMMA EnqueuedIs ==
  ASSUME NEW q \in Seq(Slots), IsInjective(q), NEW S \in SUBSET Slots
  PROVE  Extends(Enqueued(q, S), q, S)
<1> DEFINE N == S \ Range(q)
           a == InOrder(N)
           e == Enqueued(q, S)
<1>1. N \in SUBSET Slots /\ N \in SUBSET Nat /\ IsFiniteSet(N)
  BY SlotsFacts
<1>2. /\ Cardinality(N) \in Nat /\ a \in Seq(N) /\ Len(a) = Cardinality(N)
      /\ IsInjective(a)
      /\ \A n \in N : \E i \in 1..Cardinality(N) : a[i] = n
  <2> HIDE DEF N
  <2> QED
    BY <1>1, InOrderLists
<1>3. a \in Seq(Slots)
  BY <1>1, <1>2
<1>4. e = q \o a
  BY DEF Enqueued
<1>5. /\ e \in Seq(Slots) /\ Len(e) = Len(q) + Len(a)
      /\ \A i \in 1..Len(q) : e[i] = q[i]
      /\ \A i \in 1..Len(a) : e[Len(q) + i] = a[i]
  <2> HIDE DEF a, e
  <2> QED
    BY <1>3, <1>4
<1>6. \A i \in (Len(q) + 1)..Len(e) :
        i - Len(q) \in 1..Len(a) /\ e[i] = a[i - Len(q)] /\ e[i] \in N
  <2> HIDE DEF N, a, e
  <2> TAKE i \in (Len(q) + 1)..Len(e)
  <2>1. i - Len(q) \in 1..Len(a) /\ Len(q) + (i - Len(q)) = i
    BY <1>2, <1>5
  <2>2. a[i - Len(q)] \in N
    BY <1>2, <2>1
  <2> QED
    BY <1>5, <2>1, <2>2
<1>7. \A i \in 1..Len(q) : e[i] \notin N /\ q[i] \in Range(q)
  BY <1>5 DEF Range
<1>8. IsInjective(e)
  <2> HIDE DEF N, a, e
  <2> SUFFICES ASSUME NEW i \in 1..Len(e), NEW j \in 1..Len(e), e[i] = e[j]
               PROVE  i = j
    BY <1>5 DEF IsInjective
  <2>1. CASE i <= Len(q) /\ j <= Len(q)
    BY <2>1, <1>5 DEF IsInjective
  <2>2. CASE i > Len(q) /\ j > Len(q)
    <3>1. i \in (Len(q) + 1)..Len(e) /\ j \in (Len(q) + 1)..Len(e)
      BY <2>2, <1>5
    <3>2. a[i - Len(q)] = a[j - Len(q)]
      BY <3>1, <1>6
    <3>3. i - Len(q) \in DOMAIN a /\ j - Len(q) \in DOMAIN a
      BY <1>3, <1>6, <3>1
    <3>4. i - Len(q) = j - Len(q)
      BY <1>2, <3>2, <3>3 DEF IsInjective
    <3> QED
      BY <3>4
  <2>3. CASE (i <= Len(q)) # (j <= Len(q))
    BY <2>3, <1>5, <1>6, <1>7
  <2> QED
    BY <2>1, <2>2, <2>3
<1>9. ASSUME NEW n \in S PROVE \E i \in 1..Len(e) : e[i] = n
  <2>1. CASE n \in N
    <3>1. PICK i \in 1..Len(a) : a[i] = n
      BY <1>2, <2>1
    <3>2. Len(q) + i \in 1..Len(e) /\ e[Len(q) + i] = n
      <4> HIDE DEF N, a, e
      <4>1. Len(q) \in Nat /\ Len(a) \in Nat
        BY <1>3
      <4> QED
        BY <1>5, <3>1, <4>1
    <3> QED
      BY <3>2
  <2>2. CASE n \in Range(q)
    <3>1. PICK i \in 1..Len(q) : q[i] = n
      BY <2>2 DEF Range
    <3>2. i \in 1..Len(e) /\ e[i] = n
      BY <1>2, <1>5, <3>1
    <3> QED
      BY <3>2
  <2> QED
    BY <2>1, <2>2
<1>10. q = << >> => N = S
  BY DEF Range
<1>11. Len(q) <= Len(e) /\ (q = << >> => Len(e) = Cardinality(S))
  <2> HIDE DEF N, a, e
  <2>1. Len(q) \in Nat /\ Len(a) \in Nat /\ (q = << >> => Len(q) = 0)
    BY <1>3
  <2> QED
    BY <1>2, <1>5, <1>10, <2>1
<1> QED
  <2> HIDE DEF N, a, e
  <2>1. \A i \in (Len(q) + 1)..Len(e) : e[i] \in S
    BY <1>6 DEF N
  <2> QED
    BY <1>3, <1>5, <1>8, <1>9, <1>11, <2>1 DEF e, Extends

---------------------------------------------------------------------------
(* The initial state.                                                      *)

LEMMA IdleType == NoList \in Lists /\ Idle \in Reflectors
BY MaxRevisionAssumption DEF Idle, Reflectors, PCs, Lists, NoList

LEMMA Starts == Init => IInv
<1> SUFFICES ASSUME Init PROVE IInv
  OBVIOUS
<1> USE DEF Init
<1>1. Revision = 0 /\ << >> \in Seq(Slots) /\ IsInjective(<< >>)
  BY DEF Revision, IsInjective
<1>2. Idle \in Reflectors
  BY IdleType
<1>3. Empty \in Queues
  BY <1>1, MaxRevisionAssumption DEF Empty, Queues
<1>4. PICK w \in Wishes :
        caller = [c \in Callers |-> [pc |-> "new", of |-> w[c], waits |-> {}]]
  OBVIOUS
<1>5. \A c \in Callers : w[c] \in Resources
  BY WishesAssumption
<1>6. caller \in [Callers -> [pc : {"new", "start", "wait", "waiting", "ready"},
                              of : Resources, waits : SUBSET Resources]]
  BY <1>4, <1>5
<1>7. indexer \in [Resources -> [Slots -> 0..MaxRevision]]
  BY MaxRevisionAssumption DEF Nowhere
<1>8. TypeOK
  BY <1>1, <1>2, <1>3, <1>6, <1>7 DEF TypeOK, Empty
<1>9. HistoryFits
  BY <1>1, MaxRevisionAssumption DEF HistoryFits, At, Nowhere
<1>10. ReflectorFits
  BY <1>1 DEF ReflectorFits, ReflectorOf, Idle
<1>11. QueueFits
  BY <1>1 DEF QueueFits, QueueOf, Empty, Idle, Seen, At, Nowhere
<1>12. CallersFit
  BY <1>4 DEF CallersFit
<1> QED
  BY <1>8, <1>9, <1>10, <1>11, <1>12 DEF IInv

---------------------------------------------------------------------------
(* Steps of a reflector that leave the cache and its queue alone.          *)

LEMMA QueueStays ==
  ASSUME QueueFits, UNCHANGED <<history, fifo, indexer>>,
         \A s \in Resources : /\ reflector'[s].rv = reflector[s].rv
                              /\ reflector'[s].synced = reflector[s].synced
  PROVE  QueueFits'
<1>1. ASSUME NEW s \in Resources
      PROVE  QueueOf(s, reflector[s].rv, fifo[s], indexer[s])'
  <2>1. QueueOf(s, reflector[s].rv, fifo[s], indexer[s])
    BY DEF QueueFits
  <2>2. \A n, v : Seen(s, reflector[s].rv, n, v) => Seen(s, reflector[s].rv, n, v)'
    BY DEF Seen, At
  <2>3. \A n, v, first : Fresh(s, first, n, v) => Fresh(s, first, n, v)'
    BY DEF Fresh, At, Revision
  <2>4. \A r : Items(s, r)' = Items(s, r)
    BY DEF Items, Listed, At
  <2> QED
    BY <2>1, <2>2, <2>3, <2>4 DEF QueueOf
<1> QED
  BY <1>1 DEF QueueFits

LEMMA ReflectorStep ==
  ASSUME IInv, NEW t \in Resources, t \in started, NEW x \in Reflectors,
         ReflectorOf(t, x),
         x.rv = reflector[t].rv, x.synced = reflector[t].synced,
         reflector' = [reflector EXCEPT ![t] = x],
         UNCHANGED <<history, factory, fifo, indexer>>
  PROVE  IInv'
<1> USE DEF IInv, factory
<1>1. /\ reflector' \in [Resources -> Reflectors]
      /\ \A s \in Resources : /\ reflector'[s].rv = reflector[s].rv
                              /\ reflector'[s].synced = reflector[s].synced
  BY DEF TypeOK
<1>2. TypeOK'
  BY <1>1 DEF TypeOK, Revision
<1>3. HistoryFits'
  BY DEF HistoryFits, Revision, At
<1>4. ReflectorFits'
  BY DEF ReflectorFits, ReflectorOf, Revision, At, Items, Listed, TypeOK
<1>5. QueueFits'
  BY <1>1, QueueStays
<1>6. CallersFit'
  BY DEF CallersFit, HasSynced
<1> QED
  BY <1>2, <1>3, <1>4, <1>5, <1>6

\* Whoever is not idle has been started.
LEMMA NotIdle ==
  ASSUME IInv, NEW t \in Resources, reflector[t].pc # "idle"
  PROVE  t \in started
BY DEF IInv, ReflectorFits, Idle

\* What a list has after a page of S, when S is the rest of it.
LEMMA ContinueFits ==
  ASSUME IInv, NEW t \in Resources, NEW l \in Lists, NEW S \in SUBSET Names,
         NEW limit \in Nat,
         reflector[t].rv <= l.at, l.at <= Revision,
         l.asked = "any" => reflector[t].rv = 0,
         reflector[t].pc \notin {"watch", "watching"},
         l.has \cup S = Items(t, l.at),
         \A n \in S, m \in l.has : m < n
  PROVE  LET x == Continue(t, l, S, limit) IN
           /\ x \in Reflectors /\ ReflectorOf(t, x)
           /\ x.rv = reflector[t].rv /\ x.synced = reflector[t].synced
<1> DEFINE page == IF limit = 0 \/ l.cached THEN S ELSE Smallest(S, limit)
           more == page # S
           list == [l EXCEPT !.has = @ \cup page, !.paged = @ \/ more,
                             !.from = IF more THEN Max(page) ELSE 0]
           x == Continue(t, l, S, limit)
<1>1. S \in SUBSET Nat /\ IsFiniteSet(S)
  BY SlotsFacts
<1>2. page \in SUBSET S
  BY DEF Smallest
<1>3. ASSUME more
      PROVE  /\ Max(page) \in page
             /\ \A n \in S : n \in page <=> n <= Max(page)
  <2>1. page = Smallest(S, limit) /\ limit \in Nat \ {0}
    BY <1>3
  <2>2. S # {}
    BY <1>2, <1>3
  <2>3. PICK k \in S : \A n \in S : k <= n
    BY <1>1, <2>2, MinIsLeast
  <2>4. {m \in S : m <= k} = {k}
    <3>1. \A m \in S : m <= k => m = k
      BY <1>1, <2>3
    <3>2. k <= k
      BY <1>1
    <3> QED
      BY <3>1, <3>2
  <2>5. Rank(k, S) = 1
    BY <2>4, FS_Singleton DEF Rank
  <2>6. k \in page
    BY <2>1, <2>5 DEF Smallest
  <2>7. page \in SUBSET Nat /\ IsFiniteSet(page)
    BY <1>1, <1>2, FS_Subset
  <2>8. Max(page) \in page /\ \A n \in page : n <= Max(page)
    <3> HIDE DEF page
    <3> QED
      BY <2>6, <2>7, MaxIsGreatest
  <2>9. ASSUME NEW n \in S, n <= Max(page) PROVE n \in page
    <3>1. Max(page) \in S /\ Rank(Max(page), S) <= limit
      BY <2>1, <2>8 DEF Smallest
    <3>2. CASE n = Max(page)
      BY <3>2, <2>8
    <3>3. CASE n # Max(page)
      <4>1. n < Max(page)
        <5>1. n \in Nat /\ Max(page) \in Nat
          BY <1>1, <3>1
        <5> QED
          BY <2>9, <3>3, <5>1
      <4>2. Rank(n, S) < Rank(Max(page), S)
        BY <1>1, <3>1, <4>1, RankGrows
      <4>3. Rank(n, S) \in 1..Cardinality(S) /\ Rank(Max(page), S) \in 1..Cardinality(S)
        BY <1>1, <3>1, RankType
      <4>4. Rank(n, S) <= limit
        BY <2>1, <3>1, <4>2, <4>3
      <4> QED
        BY <2>1, <4>4 DEF Smallest
    <3> QED
      BY <3>2, <3>3
  <2> QED
    BY <2>8, <2>9
<1>4. more \in BOOLEAN /\ (more => Max(page) \in Nat)
  BY <1>1, <1>2, <1>3
<1>5. list \in Lists
  <2> HIDE DEF page, more
  <2> QED
    BY <1>2, <1>4 DEF Lists
<1>6. x = [reflector[t] EXCEPT !.pc = IF more THEN "page" ELSE "replace",
                               !.list = list]
  BY DEF Continue
<1>7. reflector[t] \in Reflectors
  BY DEF IInv, TypeOK
<1>8. x \in Reflectors /\ x.rv = reflector[t].rv /\ x.synced = reflector[t].synced
      /\ x.list = list /\ x.pc = IF more THEN "page" ELSE "replace"
  <2> HIDE DEF list, more, x
  <2> QED
    BY <1>5, <1>6, <1>7 DEF Reflectors, PCs
<1>9. list.at = l.at /\ list.asked = l.asked /\ list.has = l.has \cup page
      /\ list.from = IF more THEN Max(page) ELSE 0
  <2> HIDE DEF page, more
  <2> QED
    BY DEF Lists
<1>10. more => list.has = {n \in Items(t, l.at) : n <= Max(page)}
  <2> SUFFICES ASSUME more PROVE list.has = {n \in Items(t, l.at) : n <= Max(page)}
    OBVIOUS
  <2>1. Max(page) \in S /\ \A n \in S : n \in page <=> n <= Max(page)
    BY <1>2, <1>3
  <2>2. l.has \in SUBSET Nat
    BY SlotsFacts DEF Lists
  <2>3. ASSUME NEW m \in l.has PROVE m <= Max(page)
    <3>1. m < Max(page)
      BY <2>1
    <3>2. m \in Nat /\ Max(page) \in Nat
      BY <1>1, <2>1, <2>2
    <3> QED
      BY <3>1, <3>2
  <2> HIDE DEF page, more, list
  <2> QED
    BY <1>2, <1>9, <2>1, <2>3
<1>11. ~more => list.has = Items(t, l.at)
  BY <1>9
<1>12. ReflectorOf(t, x)
  <2>1. ReflectorOf(t, reflector[t])
    BY DEF IInv, ReflectorFits
  <2> HIDE DEF list, more, x, page
  <2> QED
    BY <1>8, <1>9, <1>10, <1>11, <2>1 DEF ReflectorOf
<1> QED
  BY <1>8, <1>12

\* No list is read at an older revision than the last one seen.
LEMMA ServedAtIsNew ==
  ASSUME IInv, NEW t \in Resources, NEW asked, NEW limit, NEW cached,
         asked = "any" => reflector[t].rv = 0,
         asked \in {"any", "last", "latest"},
         NEW r \in ServedAt(t, asked, limit, cached)
  PROVE  r \in 0..Revision /\ reflector[t].rv <= r
<1>1. /\ reflector[t].rv \in Nat /\ Revision \in Nat
      /\ reflector[t].rv <= Revision
  BY DEF IInv, TypeOK, Reflectors, Revision, ReflectorFits, ReflectorOf
<1>2. CASE cached
  <2>1. r \in 0..Revision /\ (asked = "any" \/ reflector[t].rv <= r)
    BY <1>2 DEF ServedAt, ServedByCache
  <2> QED
    BY <1>1, <2>1
<1>3. CASE ~cached
  <2>1. r = reflector[t].rv \/ r = Revision
    BY <1>3 DEF ServedAt, ServedByEtcd
  <2> QED
    BY <1>1, <2>1
<1> QED
  BY <1>2, <1>3

LEMMA StartListIs ==
  ASSUME NEW asked \in {"any", "last", "latest"}, NEW cached \in BOOLEAN,
         NEW r \in 0..MaxRevision
  PROVE  LET l == StartList(asked, cached, r) IN
           l \in Lists /\ l.asked = asked /\ l.at = r /\ l.has = {}
BY MaxRevisionAssumption DEF StartList, Lists, NoList

\* What the reflector asks for; any version only before its first list.
LEMMA AsksIs ==
  ASSUME IInv, NEW t \in Resources
  PROVE  /\ Asks(reflector[t]) \in {"any", "last", "latest"}
         /\ Asks(reflector[t]) = "any" => reflector[t].rv = 0
         /\ Limit(reflector[t]) \in Nat
<1>1. ReflectorOf(t, reflector[t])
  BY DEF IInv, ReflectorFits
<1> QED
  BY <1>1, PageSizeAssumption DEF Asks, Limit, ReflectorOf

\* A list from the start, once its first page is there.
LEMMA StartFits ==
  ASSUME IInv, NEW t \in Resources, reflector[t].pc \in {"list", "page"},
         NEW l \in Lists, l.has = {}, NEW r \in 0..Revision, l.at = r,
         l.asked = "any" => reflector[t].rv = 0, reflector[t].rv <= r,
         NEW limit \in Nat
  PROVE  LET x == Continue(t, l, Items(t, r), limit) IN
           /\ x \in Reflectors /\ ReflectorOf(t, x)
           /\ x.rv = reflector[t].rv /\ x.synced = reflector[t].synced
<1> DEFINE S == Items(t, r)
<1>1. S \in SUBSET Names /\ l.has \cup S = Items(t, l.at)
      /\ \A n \in S, m \in l.has : m < n
  BY ItemsType
<1>2. l.at <= Revision /\ reflector[t].rv <= l.at
      /\ reflector[t].pc \notin {"watch", "watching"}
  BY DEF Revision
<1> HIDE DEF S
<1>3. LET x == Continue(t, l, S, limit) IN
        /\ x \in Reflectors /\ ReflectorOf(t, x)
        /\ x.rv = reflector[t].rv /\ x.synced = reflector[t].synced
  BY <1>1, <1>2, ContinueFits
<1> QED
  BY <1>3 DEF S

LEMMA FirstPageStep ==
  ASSUME IInv, NEW t \in Resources, FirstPage(t)
  PROVE  IInv'
<1> DEFINE asked == Asks(reflector[t])
           limit == Limit(reflector[t])
<1>1. PICK cached \in BOOLEAN : \E r \in ServedAt(t, asked, limit, cached) :
        reflector' = [reflector EXCEPT ![t] =
          Continue(t, StartList(asked, cached, r), Items(t, r), limit)]
  BY DEF FirstPage
<1>2. PICK r \in ServedAt(t, asked, limit, cached) :
        reflector' = [reflector EXCEPT ![t] =
          Continue(t, StartList(asked, cached, r), Items(t, r), limit)]
  BY <1>1
<1> DEFINE x == Continue(t, StartList(asked, cached, r), Items(t, r), limit)
<1>3. /\ asked \in {"any", "last", "latest"} /\ limit \in Nat
      /\ asked = "any" => reflector[t].rv = 0
  BY AsksIs
<1>4. r \in 0..Revision /\ reflector[t].rv <= r
  <2> HIDE DEF asked, limit
  <2> QED
    BY <1>3, ServedAtIsNew
<1>5. reflector[t].pc = "list" /\ t \in started
      /\ UNCHANGED <<history, factory, fifo, indexer>>
  BY NotIdle DEF FirstPage
<1>6. r \in 0..MaxRevision
  BY <1>4, MaxRevisionAssumption DEF IInv, HistoryFits, TypeOK, Revision
<1> HIDE DEF asked, limit
<1>7. /\ x \in Reflectors /\ ReflectorOf(t, x)
      /\ x.rv = reflector[t].rv /\ x.synced = reflector[t].synced
  <2> DEFINE l == StartList(asked, cached, r)
  <2>1. l \in Lists /\ l.asked = asked /\ l.at = r /\ l.has = {}
    BY <1>3, <1>6, StartListIs
  <2> HIDE DEF l
  <2>2. LET y == Continue(t, l, Items(t, r), limit) IN
          /\ y \in Reflectors /\ ReflectorOf(t, y)
          /\ y.rv = reflector[t].rv /\ y.synced = reflector[t].synced
    BY <1>3, <1>4, <1>5, <2>1, StartFits
  <2> QED
    BY <2>2 DEF l
<1> HIDE DEF x
<1> QED
  BY <1>2, <1>5, <1>7, ReflectorStep DEF x

\* The retry of a list whose version is unavailable, or its failure.
LEMMA VersionUnavailableStep ==
  ASSUME IInv, NEW t \in Resources, VersionUnavailable(t)
  PROVE  IInv'
<1> DEFINE z     == reflector[t]
           retry == Continue(t, StartList("latest", FALSE, Revision), Items(t, Revision), Limit(z))
           fails == [z EXCEPT !.pc = "list", !.list = NoList]
<1>1. PICK y \in {retry, fails} :
        reflector' = [reflector EXCEPT ![t] = [y EXCEPT !.unavailable = TRUE]]
  BY DEF VersionUnavailable
<1>2. z.pc \in {"list", "page"} /\ t \in started
      /\ UNCHANGED <<history, factory, fifo, indexer>>
  BY NotIdle DEF VersionUnavailable, Expired, TooLarge
<1>3. /\ z \in Reflectors /\ ReflectorOf(t, z) /\ NoList \in Lists
      /\ Revision \in 0..MaxRevision /\ Revision \in 0..Revision /\ z.rv <= Revision
      /\ Limit(z) \in Nat
  BY IdleType, AsksIs, MaxRevisionAssumption
     DEF IInv, HistoryFits, TypeOK, Revision, ReflectorFits, ReflectorOf
<1>4. /\ y \in Reflectors /\ ReflectorOf(t, y)
      /\ y.rv = z.rv /\ y.synced = z.synced
  <2>1. CASE y = retry
    <3> DEFINE l == StartList("latest", FALSE, Revision)
               limit == Limit(z)
    <3>1. l \in Lists /\ l.asked = "latest" /\ l.at = Revision /\ l.has = {}
      BY <1>3, StartListIs
    <3> HIDE DEF l, limit
    <3>2. LET x == Continue(t, l, Items(t, Revision), limit) IN
            /\ x \in Reflectors /\ ReflectorOf(t, x)
            /\ x.rv = z.rv /\ x.synced = z.synced
      <4>1. limit \in Nat
        BY <1>3 DEF limit
      <4> QED
        BY <1>2, <1>3, <3>1, <4>1, StartFits
    <3> QED
      BY <2>1, <3>2 DEF l, limit
  <2>2. CASE y = fails
    BY <1>2, <1>3, <2>2 DEF Reflectors, ReflectorOf, PCs
  <2> QED
    BY <2>1, <2>2
<1> DEFINE x == [y EXCEPT !.unavailable = TRUE]
<1>5. /\ x \in Reflectors /\ ReflectorOf(t, x)
      /\ x.rv = z.rv /\ x.synced = z.synced
  <2> HIDE DEF z
  <2> QED
    BY <1>4 DEF Reflectors, ReflectorOf
<1> HIDE DEF x
<1> QED
  BY <1>1, <1>2, <1>5, ReflectorStep DEF x

LEMMA NextPageStep ==
  ASSUME IInv, NEW t \in Resources, NextPage(t)
  PROVE  IInv'
<1> DEFINE l == reflector[t].list
           S == After(Items(t, l.at), l.from)
           x == Continue(t, l, S, PageSize)
<1>1. /\ reflector[t].pc = "page" /\ t \in started
      /\ reflector' = [reflector EXCEPT ![t] = x]
  BY NotIdle DEF NextPage, TokenVersion
<1>2. l \in Lists
  BY DEF IInv, TypeOK, Reflectors
<1>3. /\ reflector[t].rv <= l.at /\ l.at <= Revision
      /\ l.asked = "any" => reflector[t].rv = 0
      /\ l.has = {n \in Items(t, l.at) : n <= l.from}
  BY <1>1 DEF IInv, ReflectorFits, ReflectorOf
<1>4. Items(t, l.at) \in SUBSET Names /\ Items(t, l.at) \in SUBSET Nat
  <2>1. Items(t, l.at) \in SUBSET Names
    BY ItemsType
  <2> QED
    BY <2>1, SlotsFacts
<1>5. l.from \in Nat
  BY <1>2 DEF Lists
<1>6. /\ S \in SUBSET Names
      /\ l.has \cup S = Items(t, l.at)
      /\ \A n \in S, m \in l.has : m < n
  <2> HIDE DEF l
  <2> QED
    BY <1>3, <1>4, <1>5 DEF After
<1>7. /\ x \in Reflectors /\ ReflectorOf(t, x)
      /\ x.rv = reflector[t].rv /\ x.synced = reflector[t].synced
  <2> HIDE DEF l, S
  <2> QED
    BY <1>1, <1>2, <1>3, <1>6, PageSizeAssumption, ContinueFits
<1> QED
  <2> HIDE DEF x
  <2> QED
    BY <1>1, <1>7, ReflectorStep DEF NextPage

LEMMA NextPageExpiredStep ==
  ASSUME IInv, NEW t \in Resources, NextPageExpired(t)
  PROVE  IInv'
<1> DEFINE l == reflector[t].list
           from(cached, r) == [StartList(l.asked, cached, r) EXCEPT !.paged = l.paged]
<1>1. PICK cached \in BOOLEAN : \E r \in ServedAt(t, l.asked, 0, cached) :
        reflector' = [reflector EXCEPT ![t] = Continue(t, from(cached, r), Items(t, r), 0)]
  BY DEF NextPageExpired
<1>2. PICK r \in ServedAt(t, l.asked, 0, cached) :
        reflector' = [reflector EXCEPT ![t] = Continue(t, from(cached, r), Items(t, r), 0)]
  BY <1>1
<1>3. reflector[t].pc = "page" /\ t \in started
      /\ UNCHANGED <<history, factory, fifo, indexer>>
  BY NotIdle DEF NextPageExpired
<1>4. /\ l.asked \in {"any", "last", "latest"} /\ l.paged \in BOOLEAN
      /\ l.asked = "any" => reflector[t].rv = 0
  BY <1>3 DEF IInv, TypeOK, Reflectors, Lists, ReflectorFits, ReflectorOf
<1> HIDE DEF l
<1>5. r \in 0..Revision /\ reflector[t].rv <= r
  BY <1>4, ServedAtIsNew
<1> DEFINE x == Continue(t, from(cached, r), Items(t, r), 0)
<1>6. /\ x \in Reflectors /\ ReflectorOf(t, x)
      /\ x.rv = reflector[t].rv /\ x.synced = reflector[t].synced
  <2> DEFINE f == from(cached, r)
  <2>1. r \in 0..MaxRevision
    BY <1>5, MaxRevisionAssumption DEF IInv, HistoryFits, TypeOK, Revision
  <2>2. f \in Lists /\ f.asked = l.asked /\ f.at = r /\ f.has = {}
    <3> DEFINE g == StartList(l.asked, cached, r)
    <3>1. g \in Lists /\ g.asked = l.asked /\ g.at = r /\ g.has = {}
      BY <1>4, <2>1, StartListIs
    <3> HIDE DEF g
    <3>2. /\ [g EXCEPT !.paged = l.paged] \in Lists
          /\ [g EXCEPT !.paged = l.paged].asked = l.asked
          /\ [g EXCEPT !.paged = l.paged].at = r /\ [g EXCEPT !.paged = l.paged].has = {}
      BY <1>4, <3>1 DEF Lists
    <3> QED
      BY <3>2 DEF g
  <2> HIDE DEF f
  <2>3. LET y == Continue(t, f, Items(t, r), 0) IN
          /\ y \in Reflectors /\ ReflectorOf(t, y)
          /\ y.rv = reflector[t].rv /\ y.synced = reflector[t].synced
    BY <1>3, <1>4, <1>5, <2>2, StartFits
  <2> QED
    BY <2>3 DEF f
<1> HIDE DEF x
<1> QED
  BY <1>2, <1>3, <1>6, ReflectorStep DEF x

\* The other steps of a reflector change what it does next, not what it has.
LEMMA FlagStep ==
  ASSUME IInv, NEW t \in Resources,
         \/ ListFails(t)
         \/ OpenWatch(t)
         \/ WatchRefused(t)
         \/ CloseWatch(t)
         \/ BreakWatch(t)
         \/ Compact(t)
  PROVE  IInv'
<1> DEFINE y == reflector[t]
           Moved(x) == /\ x \in Reflectors /\ ReflectorOf(t, x)
                       /\ x.rv = y.rv /\ x.synced = y.synced
<1>1. y \in Reflectors /\ y.list \in Lists /\ ReflectorOf(t, y)
  BY DEF IInv, TypeOK, Reflectors, ReflectorFits
<1>2. ASSUME NEW x, Moved(x), t \in started, reflector' = [reflector EXCEPT ![t] = x],
             UNCHANGED <<history, factory, fifo, indexer>>
      PROVE  IInv'
  BY <1>2, ReflectorStep
<1>3. CASE ListFails(t)
  <2> DEFINE x == [y EXCEPT !.pc = "list", !.list = NoList]
  <2>1. NoList \in Lists
    BY IdleType
  <2>2. Moved(x)
    BY <1>1, <1>3, <2>1 DEF ListFails, Reflectors, ReflectorOf, PCs
  <2>3. t \in started /\ reflector' = [reflector EXCEPT ![t] = x]
    BY <1>3, NotIdle DEF ListFails
  <2> QED
    <3> HIDE DEF x, Moved
    <3> QED
      BY <1>2, <1>3, <2>2, <2>3 DEF ListFails
<1>4. CASE OpenWatch(t)
  <2> DEFINE x == [y EXCEPT !.pc = "watching"]
  <2>1. Moved(x)
    BY <1>1, <1>4 DEF OpenWatch, Reflectors, ReflectorOf, PCs
  <2>2. t \in started /\ reflector' = [reflector EXCEPT ![t] = x]
    BY <1>4, NotIdle DEF OpenWatch
  <2> QED
    <3> HIDE DEF x, Moved
    <3> QED
      BY <1>2, <1>4, <2>1, <2>2 DEF OpenWatch
<1>5. CASE WatchRefused(t) \/ BreakWatch(t)
  <2> DEFINE x == [y EXCEPT !.pc = "list"]
  <2>1. Moved(x)
    BY <1>1, <1>5 DEF WatchRefused, BreakWatch, Reflectors, ReflectorOf, PCs
  <2>2. t \in started /\ reflector' = [reflector EXCEPT ![t] = x]
    BY <1>5, NotIdle DEF WatchRefused, BreakWatch
  <2> QED
    <3> HIDE DEF x, Moved
    <3> QED
      BY <1>2, <1>5, <2>1, <2>2 DEF WatchRefused, BreakWatch
<1>6. CASE CloseWatch(t)
  <2> DEFINE x == [y EXCEPT !.pc = "watch"]
  <2>1. Moved(x)
    BY <1>1, <1>6 DEF CloseWatch, Reflectors, ReflectorOf, PCs
  <2>2. t \in started /\ reflector' = [reflector EXCEPT ![t] = x]
    BY <1>6, NotIdle DEF CloseWatch
  <2> QED
    <3> HIDE DEF x, Moved
    <3> QED
      BY <1>2, <1>6, <2>1, <2>2 DEF CloseWatch
<1>7. CASE Compact(t)
  <2> DEFINE b == y.pc \in {"page", "replace"}
             l == [y.list EXCEPT !.gone = b]
             x == [y EXCEPT !.gone = y.synced, !.list = l]
  <2>0. l \in Lists /\ l.at = y.list.at /\ l.has = y.list.has /\ l.from = y.list.from
       /\ l.asked = y.list.asked
    <3>1. b \in BOOLEAN
      OBVIOUS
    <3> HIDE DEF b, y
    <3> QED
      BY <1>1, <3>1 DEF Lists
  <2>1. x \in Reflectors /\ x.rv = y.rv /\ x.synced = y.synced
        /\ x.pc = y.pc /\ x.list = l
    <3> HIDE DEF l, y
    <3> QED
      BY <1>1, <2>0 DEF Reflectors
  <2>2. Moved(x)
    <3> HIDE DEF x
    <3> QED
      BY <1>1, <2>0, <2>1 DEF ReflectorOf
  <2>3. t \in started
    BY <1>7, NotIdle DEF Compact
  <2>4. reflector' = [reflector EXCEPT ![t] = x]
    BY <1>7 DEF Compact
  <2> QED
    <3> HIDE DEF x, Moved
    <3> QED
      BY <1>2, <1>7, <2>2, <2>3, <2>4 DEF Compact
<1> QED
  BY <1>3, <1>4, <1>5, <1>6, <1>7

---------------------------------------------------------------------------
(* A write does not change what was.                                       *)

LEMMA HistoryStep ==
  ASSUME IInv, NEW H \in [Resources -> [Slots -> 0..MaxRevision]],
         Revision < MaxRevision,
         history' = Append(history, H),
         UNCHANGED <<factory, reflector, fifo, indexer>>,
         \A t \in Resources, n \in Slots : \/ H[t][n] = 0
                                           \/ H[t][n] = At(Revision)[t][n]
                                           \/ H[t][n] = Revision + 1
  PROVE  IInv'
<1> USE DEF IInv, factory
<1>1. Revision \in Nat /\ Revision' = Revision + 1
  BY DEF Revision, TypeOK
<1>2. \A q \in 0..Revision : At(q)' = At(q)
  BY DEF Revision, TypeOK, At, Nowhere
<1>3. \A q \in Nat : q = Revision + 1 => At(q)' = H
  BY DEF Revision, TypeOK, At
<1>4. history' \in Seq([Resources -> [Slots -> 0..MaxRevision]])
  BY DEF TypeOK
<1>5. TypeOK'
  <2>1. \A t \in Resources : fifo[t].first \in Nat
    BY DEF TypeOK, Queues
  <2>2. \A t \in Resources : fifo[t].first <= Revision'
    BY <1>1, <2>1 DEF TypeOK
  <2> QED
    BY <1>4, <2>2 DEF TypeOK
<1>6. \A q \in 0..Revision, t \in Resources, n \in Slots : At(q)[t][n] \in Nat
  <2> TAKE q \in 0..Revision, t \in Resources, n \in Slots
  <2>1. At(q) \in [Resources -> [Slots -> 0..MaxRevision]]
    BY AtType
  <2> QED
    BY <2>1
<1>7. HistoryFits'
  <2>1. Revision' <= MaxRevision
    BY <1>1, MaxRevisionAssumption
  <2>2. ASSUME NEW t \in Resources, NEW n \in Slots, NEW q \in 0..(Revision + 1)
        PROVE  /\ At(q)'[t][n] <= q
               /\ \A p \in 0..q : \/ At(q)'[t][n] = 0
                                  \/ At(p)'[t][n] <= At(q)'[t][n]
    <3>1. CASE q \in 0..Revision
      <4>1. \A p \in 0..q : p \in 0..Revision
        BY <1>1, <3>1
      <4> QED
        BY <1>2, <3>1, <4>1 DEF HistoryFits
    <3>2. CASE q = Revision + 1
      <4>1. H[t][n] \in Nat /\ At(q)'[t][n] = H[t][n]
        BY <1>3, <3>2, MaxRevisionAssumption
      <4>2. Revision \in 0..Revision
        BY <1>1
      <4>3. H[t][n] <= Revision + 1
        BY <1>1, <1>6, <4>1, <4>2 DEF HistoryFits
      <4>4. ASSUME NEW p \in 0..q, H[t][n] # 0 PROVE At(p)'[t][n] <= H[t][n]
        <5>1. CASE p = Revision + 1
          BY <3>2, <4>1, <5>1
        <5>2. CASE p \in 0..Revision
          <6>1. At(p)'[t][n] = At(p)[t][n] /\ At(p)[t][n] \in Nat /\ At(p)[t][n] <= p
            BY <1>2, <1>6, <5>2 DEF HistoryFits
          <6>2. CASE H[t][n] = Revision + 1
            BY <1>1, <5>2, <6>1, <6>2
          <6>3. CASE H[t][n] = At(Revision)[t][n]
            BY <4>2, <4>4, <5>2, <6>1, <6>3 DEF HistoryFits
          <6> QED
            BY <4>4, <6>2, <6>3
        <5> QED
          BY <1>1, <3>2, <5>1, <5>2
      <4> QED
        BY <3>2, <4>1, <4>3, <4>4
    <3> QED
      BY <1>1, <3>1, <3>2
  <2> QED
    BY <1>1, <2>1, <2>2 DEF HistoryFits
<1>8. \A t \in Resources, r \in 0..Revision : Items(t, r)' = Items(t, r)
  BY <1>2 DEF Items, Listed
<1>9. ReflectorFits'
  <2> SUFFICES ASSUME NEW t \in Resources
               PROVE  /\ ReflectorOf(t, reflector[t])'
                      /\ t \notin started => reflector[t] = Idle
    BY DEF ReflectorFits
  <2>1. ReflectorOf(t, reflector[t]) /\ (t \notin started => reflector[t] = Idle)
    BY DEF ReflectorFits
  <2>2. reflector[t].rv \in Nat /\ reflector[t].list.at \in Nat
    BY DEF TypeOK, Reflectors, Lists
  <2>3. ReflectorOf(t, reflector[t])'
    BY <1>1, <1>8, <2>1, <2>2 DEF ReflectorOf
  <2> QED
    BY <2>1, <2>3
<1>10. QueueFits'
  <2> SUFFICES ASSUME NEW s \in Resources
               PROVE  QueueOf(s, reflector[s].rv, fifo[s], indexer[s])'
    BY DEF QueueFits
  <2>1. /\ QueueOf(s, reflector[s].rv, fifo[s], indexer[s])
        /\ reflector[s].rv \in 0..Revision /\ fifo[s].first \in 0..Revision
    BY DEF QueueFits, TypeOK, Queues, Reflectors, ReflectorFits, ReflectorOf
  <2>2. \A n, v : Seen(s, reflector[s].rv, n, v) => Seen(s, reflector[s].rv, n, v)'
    <3>1. \A q \in 0..reflector[s].rv : At(q)' = At(q)
      BY <1>1, <1>2, <2>1
    <3> QED
      BY <3>1 DEF Seen
  <2>3. \A n, v : Fresh(s, fifo[s].first, n, v) => Fresh(s, fifo[s].first, n, v)'
    BY <1>1, <1>2, <2>1 DEF Fresh
  <2>4. Items(s, fifo[s].first)' = Items(s, fifo[s].first)
    BY <1>8, <2>1
  <2> QED
    BY <2>1, <2>2, <2>3, <2>4 DEF QueueOf
<1>11. CallersFit'
  BY DEF CallersFit, HasSynced
<1> QED
  BY <1>5, <1>7, <1>9, <1>10, <1>11

LEMMA WriteStep ==
  ASSUME IInv, NEW t \in Resources, NEW n \in Slots, Write(t, n) \/ Drop(t, n)
  PROVE  IInv'
<1>1. Revision \in Nat /\ Revision < MaxRevision
  BY DEF IInv, TypeOK, Revision, Write, Drop
<1>2. At(Revision) \in [Resources -> [Slots -> 0..MaxRevision]]
  <2>1. Revision \in 0..Revision
    BY <1>1
  <2> QED
    BY <2>1, AtType DEF IInv
<1>3. CASE Write(t, n)
  <2> DEFINE H == [At(Revision) EXCEPT ![t][n] = Revision + 1]
  <2>1. H \in [Resources -> [Slots -> 0..MaxRevision]]
    BY <1>1, <1>2, MaxRevisionAssumption
  <2>2. \A s \in Resources, m \in Slots : H[s][m] = At(Revision)[s][m] \/ H[s][m] = Revision + 1
    BY <1>2
  <2>3. history' = Append(history, H) /\ UNCHANGED <<factory, reflector, fifo, indexer>>
    BY <1>3 DEF Write
  <2> HIDE DEF H
  <2> QED
    BY <1>1, <2>1, <2>2, <2>3, HistoryStep
<1>4. CASE Drop(t, n)
  <2> DEFINE H == [At(Revision) EXCEPT ![t][n] = 0]
  <2>1. H \in [Resources -> [Slots -> 0..MaxRevision]]
    BY <1>1, <1>2, MaxRevisionAssumption
  <2>2. \A s \in Resources, m \in Slots : H[s][m] = At(Revision)[s][m] \/ H[s][m] = 0
    BY <1>2
  <2>3. history' = Append(history, H) /\ UNCHANGED <<factory, reflector, fifo, indexer>>
    BY <1>4 DEF Drop
  <2> HIDE DEF H
  <2> QED
    BY <1>1, <2>1, <2>2, <2>3, HistoryStep
<1> QED
  BY <1>3, <1>4

---------------------------------------------------------------------------
(* Steps of the factory's callers.                                         *)

LEMMA CallerStep ==
  ASSUME IInv, NEW c \in Callers,
         Informer(c) \/ WaitForCacheSync(c) \/ Synced(c)
  PROVE  IInv'
<1> USE DEF IInv
<1>1. /\ UNCHANGED <<history, started, reflector, fifo, indexer>>
      /\ informers' \in SUBSET Resources /\ informers \subseteq informers'
  BY DEF Informer, InformerFor, WaitForCacheSync, Synced, TypeOK
<1>2. /\ caller' \in [Callers -> [pc : {"new", "start", "wait", "waiting", "ready"},
                                  of : Resources, waits : SUBSET Resources]]
      /\ \A d \in Callers \ {c} : caller'[d] = caller[d]
      /\ caller'[c].of = caller[c].of
  <2>1. CASE Informer(c)
    BY <2>1 DEF Informer, TypeOK
  <2>2. CASE WaitForCacheSync(c)
    <3>1. started \in SUBSET Resources
      BY DEF TypeOK
    <3> QED
      BY <2>2, <3>1 DEF WaitForCacheSync, TypeOK
  <2>3. CASE Synced(c)
    BY <2>3 DEF Synced, TypeOK
  <2> QED
    BY <2>1, <2>2, <2>3
<1>3. TypeOK'
  BY <1>1, <1>2 DEF TypeOK, Revision
<1>4. HistoryFits' /\ ReflectorFits'
  BY <1>1 DEF HistoryFits, ReflectorFits, ReflectorOf, Revision, At, Items, Listed
<1>5. QueueFits'
  BY <1>1, QueueStays
<1>6. \A t \in Resources : HasSynced(t)' <=> HasSynced(t)
  BY <1>1 DEF HasSynced
<1>7. CallersFit'
  <2> SUFFICES ASSUME NEW d \in Callers
               PROVE  LET x == caller'[d] IN
                        /\ x.pc # "new" => x.of \in informers'
                        /\ x.pc \in {"wait", "waiting", "ready"} => x.of \in started
                        /\ x.pc = "waiting" => x.of \in x.waits
                        /\ x.pc = "ready" => HasSynced(x.of)
    BY <1>1 DEF CallersFit, HasSynced
  <2>1. /\ caller[d].pc # "new" => caller[d].of \in informers
        /\ caller[d].pc \in {"wait", "waiting", "ready"} => caller[d].of \in started
        /\ caller[d].pc = "waiting" => caller[d].of \in caller[d].waits
        /\ caller[d].pc = "ready" => HasSynced(caller[d].of)
    BY DEF CallersFit
  <2>2. CASE d # c
    BY <1>1, <1>2, <2>1, <2>2
  <2>3. CASE d = c /\ Informer(c)
    BY <1>2, <2>1, <2>3 DEF Informer, InformerFor, TypeOK
  <2>4. CASE d = c /\ WaitForCacheSync(c)
    BY <1>1, <1>2, <2>1, <2>4 DEF WaitForCacheSync, TypeOK
  <2>5. CASE d = c /\ Synced(c)
    BY <1>1, <1>2, <2>1, <2>5 DEF Synced, TypeOK
  <2> QED
    BY <2>2, <2>3, <2>4, <2>5
<1> QED
  BY <1>3, <1>4, <1>5, <1>7

LEMMA StartStep ==
  ASSUME IInv, NEW c \in Callers, Start(c)
  PROVE  IInv'
<1> USE DEF IInv
<1>1. /\ UNCHANGED <<history, informers, fifo, indexer>>
      /\ started' = informers
      /\ reflector' = [t \in Resources |->
           IF t \in informers \ started THEN [Idle EXCEPT !.pc = "list"]
                                        ELSE reflector[t]]
  BY DEF Start
<1>2. /\ caller' \in [Callers -> [pc : {"new", "start", "wait", "waiting", "ready"},
                                  of : Resources, waits : SUBSET Resources]]
      /\ \A d \in Callers : /\ caller'[d].of = caller[d].of
                            /\ caller'[d].waits = caller[d].waits
                            /\ \/ caller'[d].pc = caller[d].pc
                               \/ caller[d].pc = "start" /\ caller'[d].pc = "wait"
  BY DEF Start, TypeOK
<1>3. [Idle EXCEPT !.pc = "list"] \in Reflectors
  BY IdleType DEF Reflectors, PCs
<1>4. ASSUME NEW t \in Resources, t \in informers, t \notin started
      PROVE  reflector[t] = Idle
  BY <1>4 DEF ReflectorFits
<1>5. TypeOK'
  BY <1>1, <1>2, <1>3 DEF TypeOK, Revision
<1>6. HistoryFits'
  BY <1>1 DEF HistoryFits, Revision, At
<1>7. ReflectorFits'
  <2> SUFFICES ASSUME NEW t \in Resources
               PROVE  /\ ReflectorOf(t, reflector[t])'
                      /\ t \notin started' => reflector'[t] = Idle
    BY DEF ReflectorFits
  <2>1. ReflectorOf(t, reflector[t]) /\ (t \notin started => reflector[t] = Idle)
    BY DEF ReflectorFits
  <2>2. CASE t \in informers \ started
    <3>1. reflector'[t] = [Idle EXCEPT !.pc = "list"]
      BY <1>1, <2>2
    <3>2. ReflectorOf(t, [Idle EXCEPT !.pc = "list"])
      BY <2>1, <2>2 DEF ReflectorOf, Idle
    <3> QED
      BY <1>1, <2>2, <3>1, <3>2 DEF ReflectorOf, Revision, At, Items, Listed
  <2>3. CASE t \notin informers \ started
    <3>1. reflector'[t] = reflector[t] /\ (t \notin started' => t \notin started)
      BY <1>1, <2>3 DEF TypeOK
    <3> QED
      BY <1>1, <2>1, <3>1 DEF ReflectorOf, Revision, At, Items, Listed
  <2> QED
    BY <2>2, <2>3
<1>8. \A t \in Resources : /\ reflector'[t].rv = reflector[t].rv
                           /\ reflector'[t].synced = reflector[t].synced
  BY <1>1, <1>4 DEF Idle
<1>9. QueueFits'
  BY <1>1, <1>8, QueueStays
<1>10. CallersFit'
  BY <1>1, <1>2 DEF CallersFit, HasSynced, TypeOK
<1> QED
  BY <1>5, <1>6, <1>7, <1>9, <1>10

LEMMA Stutter ==
  ASSUME IInv, UNCHANGED vars
  PROVE  IInv'
<1> USE DEF IInv, vars
<1>1. TypeOK' /\ HistoryFits' /\ ReflectorFits' /\ CallersFit'
  BY DEF TypeOK, HistoryFits, ReflectorFits, ReflectorOf, CallersFit, HasSynced,
         Revision, At, Items, Listed
<1>2. QueueFits'
  BY QueueStays
<1> QED
  BY <1>1, <1>2

---------------------------------------------------------------------------
(* Steps that fill the queue or the cache.                                 *)

LEMMA QueueStep ==
  ASSUME IInv, NEW t \in Resources, t \in started,
         NEW x \in Reflectors, ReflectorOf(t, x),
         NEW f \in Queues, NEW c \in [Slots -> 0..MaxRevision],
         IsInjective(f.queue), f.initial <= Len(f.queue), f.first <= Revision,
         f.populated <=> x.synced, QueueOf(t, x.rv, f, c),
         HasSynced(t) => f.populated /\ f.initial = 0,
         reflector' = [reflector EXCEPT ![t] = x],
         fifo' = [fifo EXCEPT ![t] = f],
         indexer' = [indexer EXCEPT ![t] = c],
         UNCHANGED <<history, factory>>
  PROVE  IInv'
<1> USE DEF IInv, factory
<1>1. /\ reflector' \in [Resources -> Reflectors]
      /\ fifo' \in [Resources -> Queues]
      /\ indexer' \in [Resources -> [Slots -> 0..MaxRevision]]
      /\ reflector'[t] = x /\ fifo'[t] = f /\ indexer'[t] = c
      /\ \A s \in Resources \ {t} : /\ reflector'[s] = reflector[s]
                                    /\ fifo'[s] = fifo[s]
                                    /\ indexer'[s] = indexer[s]
  BY DEF TypeOK
<1>2. TypeOK'
  BY <1>1 DEF TypeOK, Revision
<1>3. HistoryFits'
  BY DEF HistoryFits, Revision, At
<1>4. ReflectorFits'
  BY <1>1 DEF ReflectorFits, ReflectorOf, Revision, At, Items, Listed
<1>5. ASSUME NEW s \in Resources,
             NEW v, v = reflector'[s].rv, NEW g, g = fifo'[s], NEW d, d = indexer'[s]
      PROVE  QueueOf(s, v, g, d) /\ (g.populated <=> reflector'[s].synced)
  BY <1>1, <1>5 DEF QueueFits
<1>6. \A s, v, g, d : QueueOf(s, v, g, d) => QueueOf(s, v, g, d)'
  BY DEF QueueOf, Seen, Fresh, Items, Listed, At, Revision
<1>7. QueueFits'
  <2> SUFFICES ASSUME NEW s \in Resources
               PROVE  /\ fifo'[s].populated <=> reflector'[s].synced
                      /\ QueueOf(s, reflector[s].rv, fifo[s], indexer[s])'
    BY DEF QueueFits
  <2> QED
    BY <1>5, <1>6
<1>8. CallersFit'
  <2>1. \A s \in Resources : HasSynced(s) => fifo'[s].populated /\ fifo'[s].initial = 0
    BY <1>1 DEF HasSynced
  <2> QED
    BY <2>1 DEF CallersFit, HasSynced, TypeOK
<1> QED
  BY <1>2, <1>3, <1>4, <1>7, <1>8

\* A later version of an object is newer, or its deletion.
LEMMA LaterIsNewer ==
  ASSUME IInv, NEW t \in Resources, NEW n \in Slots,
         NEW r \in 0..Revision, NEW q \in 0..r
  PROVE  /\ At(r)[t][n] = 0 \/ At(q)[t][n] <= At(r)[t][n]
         /\ At(q)[t][n] \in 0..MaxRevision /\ At(r)[t][n] \in 0..MaxRevision
         /\ Fresh(t, q, n, At(r)[t][n])
         /\ At(r)[t][n] = 0 => \A v : Fresh(t, q, n, v)
<1>1. Revision \in Nat
  BY DEF IInv, TypeOK, Revision
<1>2. q \in 0..Revision /\ r \in q..Revision
  BY <1>1
<1>3. At(r)[t][n] = 0 \/ At(q)[t][n] <= At(r)[t][n]
  BY DEF IInv, HistoryFits
<1>4. At(q)[t][n] \in 0..MaxRevision /\ At(r)[t][n] \in 0..MaxRevision
  <2>1. /\ At(q) \in [Resources -> [Slots -> 0..MaxRevision]]
        /\ At(r) \in [Resources -> [Slots -> 0..MaxRevision]]
    BY <1>2, AtType DEF IInv
  <2> QED
    BY <2>1
<1>5. At(q)[t][n] <= At(r)[t][n] => At(r)[t][n] >= At(q)[t][n]
  BY <1>4, MaxRevisionAssumption
<1> QED
  BY <1>2, <1>3, <1>4, <1>5 DEF Fresh

\* What a queued or cached version must be, r a revision of the reflector's.
LEMMA SeenIsOlder ==
  ASSUME IInv, NEW t \in Resources, NEW n \in Slots,
         NEW rv \in Nat, NEW r \in 0..Revision, rv <= r, NEW v, Seen(t, rv, n, v)
  PROVE  Seen(t, r, n, v) /\ (At(r)[t][n] = 0 \/ v <= At(r)[t][n])
<1>1. PICK q \in 0..rv : v = At(q)[t][n]
  BY DEF Seen
<1>2. q \in 0..r
  BY DEF IInv, TypeOK, Revision
<1> QED
  BY <1>1, <1>2, LaterIsNewer DEF Seen

\* The types of what a step of the queue of t reads.
LEMMA QueueFacts ==
  ASSUME IInv, NEW t \in Resources
  PROVE  /\ Revision \in Nat
         /\ reflector[t] \in Reflectors /\ reflector[t].list \in Lists
         /\ reflector[t].rv \in 0..Revision
         /\ ReflectorOf(t, reflector[t])
         /\ fifo[t] \in Queues /\ fifo[t].queue \in Seq(Slots)
         /\ IsInjective(fifo[t].queue)
         /\ fifo[t].initial \in Nat /\ fifo[t].initial <= Len(fifo[t].queue)
         /\ fifo[t].first \in 0..Revision
         /\ indexer[t] \in [Slots -> 0..MaxRevision]
         /\ fifo[t].populated <=> reflector[t].synced
         /\ QueueOf(t, reflector[t].rv, fifo[t], indexer[t])
         /\ ~fifo[t].populated => Len(fifo[t].queue) = 0
<1>1. /\ Revision \in Nat
      /\ reflector[t] \in Reflectors /\ reflector[t].list \in Lists
      /\ reflector[t].rv \in Nat
      /\ fifo[t] \in Queues /\ fifo[t].queue \in Seq(Slots)
      /\ fifo[t].initial \in Nat /\ fifo[t].first \in Nat
      /\ indexer[t] \in [Slots -> 0..MaxRevision]
  BY DEF IInv, TypeOK, Revision, Reflectors, Queues
<1>2. /\ IsInjective(fifo[t].queue)
      /\ fifo[t].initial <= Len(fifo[t].queue)
      /\ fifo[t].first <= Revision
  BY DEF IInv, TypeOK
<1>3. ReflectorOf(t, reflector[t]) /\ reflector[t].rv <= Revision
  BY DEF IInv, ReflectorFits, ReflectorOf
<1>4. /\ fifo[t].populated <=> reflector[t].synced
      /\ QueueOf(t, reflector[t].rv, fifo[t], indexer[t])
  BY DEF IInv, QueueFits
<1>5. ~fifo[t].populated => Len(fifo[t].queue) = 0
  BY <1>4 DEF QueueOf, Empty
<1> QED
  BY <1>1, <1>2, <1>3, <1>4, <1>5

\* A queue without its first element.
LEMMA TailIs ==
  ASSUME NEW q \in Seq(Slots), q # << >>, IsInjective(q)
  PROVE  /\ Len(q) \in Nat /\ Len(q) >= 1 /\ Head(q) = q[1] /\ q[1] \in Slots
         /\ Tail(q) \in Seq(Slots) /\ Len(Tail(q)) = Len(q) - 1
         /\ IsInjective(Tail(q))
         /\ \A i \in 1..(Len(q) - 1) : /\ Tail(q)[i] = q[i + 1]
                                       /\ i + 1 \in 1..Len(q)
                                       /\ q[i + 1] \in Slots
                                       /\ q[i + 1] # Head(q)
<1>1. Len(q) \in Nat /\ Len(q) >= 1 /\ Head(q) = q[1] /\ q[1] \in Slots
  OBVIOUS
<1>2. Tail(q) \in Seq(Slots) /\ Len(Tail(q)) = Len(q) - 1
  BY <1>1
<1>3. ASSUME NEW i \in 1..(Len(q) - 1)
      PROVE  /\ Tail(q)[i] = q[i + 1]
             /\ i + 1 \in 1..Len(q)
             /\ q[i + 1] \in Slots
             /\ q[i + 1] # Head(q)
  <2>1. Tail(q)[i] = q[i + 1]
    OBVIOUS
  <2>2. i + 1 \in 1..Len(q) /\ i + 1 # 1 /\ 1 \in 1..Len(q)
    BY <1>1
  <2>3. DOMAIN q = 1..Len(q)
    OBVIOUS
  <2>4. q[i + 1] # q[1]
    BY <2>2, <2>3 DEF IsInjective
  <2> QED
    BY <1>1, <2>1, <2>2, <2>4
<1>4. IsInjective(Tail(q))
  <2>1. DOMAIN Tail(q) = 1..(Len(q) - 1) /\ DOMAIN q = 1..Len(q)
    BY <1>2
  <2> SUFFICES ASSUME NEW i \in 1..(Len(q) - 1), NEW j \in 1..(Len(q) - 1),
                      Tail(q)[i] = Tail(q)[j]
               PROVE  i = j
    BY <2>1 DEF IsInjective
  <2>2. i + 1 \in DOMAIN q /\ j + 1 \in DOMAIN q /\ q[i + 1] = q[j + 1]
    BY <1>3, <2>1
  <2>3. i + 1 = j + 1
    BY <2>2 DEF IsInjective
  <2> QED
    BY <2>3
<1> QED
  BY <1>1, <1>2, <1>3, <1>4

LEMMA PopStep ==
  ASSUME IInv, NEW t \in Resources, Pop(t)
  PROVE  IInv'
<1> DEFINE x == reflector[t]
           f == fifo[t]
           q == f.queue
           n == Head(q)
           c == indexer[t]
           d == [c EXCEPT ![n] = f.items[n]]
           g == [f EXCEPT !.queue   = Tail(q),
                          !.items   = [f.items EXCEPT ![n] = 0],
                          !.initial = IF f.initial > 0 THEN f.initial - 1 ELSE 0]
<1>1. /\ q # << >>
      /\ indexer' = [indexer EXCEPT ![t] = d]
      /\ fifo' = [fifo EXCEPT ![t] = g]
      /\ UNCHANGED <<history, factory, reflector>>
  BY DEF Pop
<1>2. /\ x \in Reflectors /\ ReflectorOf(t, x)
      /\ f \in Queues /\ q \in Seq(Slots) /\ IsInjective(q)
      /\ f.initial \in Nat /\ f.initial <= Len(q) /\ f.first \in 0..Revision
      /\ f.items \in [Slots -> 0..MaxRevision]
      /\ c \in [Slots -> 0..MaxRevision]
      /\ f.populated <=> x.synced
      /\ QueueOf(t, x.rv, f, c)
  BY QueueFacts DEF Queues
<1>3. f.populated /\ t \in started
  BY <1>1, <1>2 DEF QueueOf, Empty, IInv, ReflectorFits, Idle
<1> HIDE DEF x, f, c
<1>4. Len(q) \in Nat /\ Len(q) >= 1 /\ n = q[1] /\ n \in Slots
  BY <1>1, <1>2, TailIs
<1>5. /\ Tail(q) \in Seq(Slots) /\ Len(Tail(q)) = Len(q) - 1
      /\ \A i \in 1..(Len(q) - 1) : /\ Tail(q)[i] = q[i + 1]
                                    /\ i + 1 \in 1..Len(q)
                                    /\ q[i + 1] \in Slots /\ q[i + 1] # n
  BY <1>1, <1>2, TailIs
<1>6. IsInjective(Tail(q))
  BY <1>1, <1>2, TailIs
<1>7. d \in [Slots -> 0..MaxRevision]
  BY <1>2, <1>4
<1>8. /\ [f.items EXCEPT ![n] = 0] \in [Slots -> 0..MaxRevision]
      /\ (IF f.initial > 0 THEN f.initial - 1 ELSE 0) \in Nat
  BY <1>2, <1>4, MaxRevisionAssumption
<1>9. /\ g \in Queues
      /\ g.queue = Tail(q) /\ g.populated = f.populated /\ g.first = f.first
      /\ g.items = [f.items EXCEPT ![n] = 0]
      /\ g.initial = IF f.initial > 0 THEN f.initial - 1 ELSE 0
  <2> HIDE DEF q, n
  <2> QED
    BY <1>2, <1>5, <1>8 DEF Queues, q
<1>10. g.initial <= Len(g.queue)
  BY <1>2, <1>4, <1>5, <1>9
<1> HIDE DEF g
<1>11. \A i \in 1..Len(g.queue) :
         /\ i + 1 \in 1..Len(q) /\ g.queue[i] = q[i + 1]
         /\ g.items[q[i + 1]] = f.items[q[i + 1]]
         /\ d[q[i + 1]] = c[q[i + 1]]
  BY <1>2, <1>5, <1>9
<1>12. QueueOf(t, x.rv, g, d)
  <2>1. \A m \in Slots : Seen(t, x.rv, m, d[m])
    <3>1. Seen(t, x.rv, n, f.items[n])
      BY <1>2, <1>4 DEF QueueOf
    <3>2. \A m \in Slots : d[m] = IF m = n THEN f.items[n] ELSE c[m]
      BY <1>2
    <3> QED
      BY <1>2, <3>1, <3>2 DEF QueueOf
  <2>2. ASSUME NEW i \in 1..Len(g.queue)
        PROVE  /\ Seen(t, x.rv, g.queue[i], g.items[g.queue[i]])
               /\ g.items[g.queue[i]] = 0 \/ d[g.queue[i]] <= g.items[g.queue[i]]
               /\ g.queue[i] \in Items(t, f.first) =>
                    Fresh(t, f.first, g.queue[i], g.items[g.queue[i]])
    <3> DEFINE m == q[i + 1]
    <3>1. /\ i + 1 \in 1..Len(q) /\ g.queue[i] = m
          /\ g.items[m] = f.items[m] /\ d[m] = c[m]
      BY <1>11
    <3>2. /\ Seen(t, x.rv, m, f.items[m])
          /\ f.items[m] = 0 \/ c[m] <= f.items[m]
          /\ m \in Items(t, f.first) => Fresh(t, f.first, m, f.items[m])
      BY <1>2, <1>3, <3>1 DEF QueueOf
    <3> HIDE DEF m, d
    <3> QED
      BY <3>1, <3>2
  <2>3. ASSUME NEW m \in Items(t, f.first)
        PROVE  \/ Fresh(t, f.first, m, d[m])
               \/ \E i \in 1..g.initial : g.queue[i] = m
    <3>1. m \in Slots
      BY ItemsType
    <3>2. CASE m = n
      <4>1. Fresh(t, f.first, n, f.items[n])
        BY <1>2, <1>3, <1>4, <2>3, <3>2 DEF QueueOf
      <4> QED
        BY <1>2, <3>1, <3>2, <4>1
    <3>3. CASE m # n /\ Fresh(t, f.first, m, c[m])
      BY <1>2, <3>1, <3>3
    <3>4. CASE m # n /\ \E i \in 1..f.initial : q[i] = m
      <4>1. PICK i \in 1..f.initial : q[i] = m
        BY <3>4
      <4>2. i - 1 \in 1..g.initial /\ i - 1 \in 1..(Len(q) - 1) /\ (i - 1) + 1 = i
        BY <1>2, <1>4, <1>9, <3>4, <4>1
      <4>3. g.queue[i - 1] = m
        BY <1>5, <1>9, <4>1, <4>2
      <4> QED
        BY <4>2, <4>3
    <3> QED
      BY <1>2, <1>3, <3>2, <3>3, <3>4 DEF QueueOf
  <2>4. f.first <= x.rv
    BY <1>2, <1>3 DEF QueueOf
  <2> HIDE DEF d
  <2> QED
    BY <1>3, <1>9, <2>1, <2>2, <2>3, <2>4 DEF QueueOf
<1>13. HasSynced(t) => g.populated /\ g.initial = 0
  BY <1>9 DEF HasSynced, f
<1>14. reflector' = [reflector EXCEPT ![t] = x]
  BY <1>1 DEF x, IInv, TypeOK
<1>15. g.first <= Revision /\ IsInjective(g.queue) /\ (g.populated <=> x.synced)
  BY <1>2, <1>6, <1>9
<1> HIDE DEF d
<1> QED
  BY <1>1, <1>2, <1>3, <1>7, <1>9, <1>10, <1>12, <1>13, <1>14, <1>15, QueueStep

LEMMA ReplaceStep ==
  ASSUME IInv, NEW t \in Resources, Replace(t)
  PROVE  IInv' /\ reflector[t].rv <= reflector'[t].rv
<1> DEFINE x == reflector[t]
           f == fifo[t]
           q == f.queue
           c == indexer[t]
           at == x.list.at
           has == x.list.has
           dropped == {n \in Slots : c[n] # 0} \ has
           told == has \cup dropped
           e == Enqueued(q, told)
           items == [n \in Slots |-> IF n \in has     THEN At(at)[t][n]
                                     ELSE IF n \in dropped THEN 0
                                     ELSE f.items[n]]
           g == [queue |-> e, items |-> items, populated |-> TRUE,
                 initial |-> IF f.populated THEN f.initial ELSE Cardinality(told),
                 first   |-> IF f.populated THEN f.first ELSE at]
           y == [Idle EXCEPT !.pc = "watch", !.rv = at, !.synced = TRUE,
                             !.gone = x.list.gone,
                             !.paged = x.paged \/ (x.list.asked = "any" /\ x.list.paged)]
<1>1. /\ x.pc = "replace"
      /\ fifo' = [fifo EXCEPT ![t] = g]
      /\ reflector' = [reflector EXCEPT ![t] = y]
      /\ UNCHANGED <<history, factory, indexer>>
  BY DEF Replace
<1>2. /\ Revision \in Nat
      /\ x \in Reflectors /\ x.list \in Lists /\ x.rv \in 0..Revision
      /\ f \in Queues /\ q \in Seq(Slots) /\ IsInjective(q)
      /\ f.initial \in Nat /\ f.initial <= Len(q) /\ f.first \in 0..Revision
      /\ f.items \in [Slots -> 0..MaxRevision]
      /\ c \in [Slots -> 0..MaxRevision]
      /\ QueueOf(t, x.rv, f, c)
      /\ ~f.populated => Len(q) = 0
  BY QueueFacts DEF Queues
<1>3. t \in started
  BY <1>1, NotIdle
<1>4. /\ at \in Nat /\ x.rv <= at /\ at <= Revision /\ has = Items(t, at)
      /\ at \in 0..Revision /\ at \in 0..MaxRevision
  <2>1. at \in 0..MaxRevision
    BY <1>2 DEF Lists
  <2> QED
    BY <1>1, <1>2, <2>1, QueueFacts DEF ReflectorOf
<1>5. has \in SUBSET Names /\ has \in SUBSET Slots /\ told \in SUBSET Slots
  BY <1>4, ItemsType
<1>6. /\ e \in Seq(Slots) /\ IsInjective(e)
      /\ Len(q) \in Nat /\ Len(e) \in Nat /\ Len(q) <= Len(e)
      /\ \A i \in 1..Len(q) : e[i] = q[i]
      /\ \A i \in (Len(q) + 1)..Len(e) : e[i] \in told
      /\ \A n \in told : \E i \in 1..Len(e) : e[i] = n
      /\ ~f.populated => Len(e) = Cardinality(told)
  <2>1. ~f.populated => q = << >>
    BY <1>2 DEF QueueOf, Empty
  <2>2. Extends(e, q, told)
    <3> HIDE DEF q, told
    <3> QED
      BY <1>2, <1>5, EnqueuedIs
  <2> HIDE DEF e, q, told, f
  <2> QED
    BY <2>1, <2>2 DEF Extends
<1>7. \A n \in Slots : At(at)[t][n] \in 0..MaxRevision
  <2>1. At(at) \in [Resources -> [Slots -> 0..MaxRevision]]
    BY <1>4, AtType DEF IInv
  <2> QED
    BY <2>1
<1>8. items \in [Slots -> 0..MaxRevision]
  <2> HIDE DEF has, dropped, f
  <2> QED
    BY <1>2, <1>7, MaxRevisionAssumption
<1>9. Cardinality(told) \in Nat
  <2>1. IsFiniteSet(told)
    BY <1>5, SlotsFacts
  <2> QED
    BY <2>1, FS_CardinalityType
<1>10. g \in Queues
  <2> HIDE DEF e, items, told, f, at
  <2> QED
    BY <1>2, <1>4, <1>6, <1>8, <1>9 DEF Queues
<1>11. /\ g.queue = e /\ g.items = items /\ g.populated = TRUE
       /\ g.initial = (IF f.populated THEN f.initial ELSE Cardinality(told))
       /\ g.first = (IF f.populated THEN f.first ELSE at)
  OBVIOUS
<1>12. y \in Reflectors /\ y.rv = at /\ y.synced = TRUE /\ y.pc = "watch"
  <2> DEFINE b == x.paged \/ (x.list.asked = "any" /\ x.list.paged)
  <2>1. b \in BOOLEAN /\ x.list.gone \in BOOLEAN
    BY <1>2 DEF Reflectors, Lists
  <2> HIDE DEF b, x, at
  <2> QED
    BY <1>4, <2>1, IdleType DEF Idle, Reflectors, PCs
<1> HIDE DEF x, f, c, at, has, dropped, told, e, items, g, y
<1>13. ReflectorOf(t, y)
  BY <1>4, <1>12 DEF ReflectorOf
<1>14. g.initial <= Len(g.queue) /\ g.first \in 0..at /\ g.first <= Revision
  <2>1. CASE f.populated
    <3>1. f.first <= x.rv
      BY <1>2, <2>1 DEF QueueOf
    <3>2. g.first = f.first /\ g.initial = f.initial
      BY <1>11, <2>1
    <3> HIDE DEF q
    <3> QED
      BY <1>2, <1>4, <1>6, <1>11, <3>1, <3>2
  <2>2. CASE ~f.populated
    <3>1. g.first = at /\ g.initial = Len(e)
      BY <1>6, <1>11, <2>2
    <3> QED
      BY <1>4, <1>6, <1>11, <3>1
  <2> QED
    BY <2>1, <2>2
<1>15. ASSUME NEW n \in Slots PROVE Seen(t, at, n, c[n])
  BY <1>2, <1>4, SeenIsOlder DEF QueueOf
<1>16. ASSUME NEW i \in 1..Len(e)
       PROVE  /\ Seen(t, at, e[i], items[e[i]])
              /\ items[e[i]] = 0 \/ c[e[i]] <= items[e[i]]
              /\ e[i] \in Items(t, g.first) => Fresh(t, g.first, e[i], items[e[i]])
  <2> DEFINE n == e[i]
  <2>1. n \in Slots
    BY <1>6
  <2> HIDE DEF n
  <2>2. CASE n \in has
    <3>1. items[n] = At(at)[t][n]
      BY <2>1, <2>2 DEF items
    <3>2. Seen(t, at, n, items[n])
      BY <1>4, <3>1 DEF Seen
    <3>3. items[n] = 0 \/ c[n] <= items[n]
      BY <1>2, <1>4, <2>1, <3>1, SeenIsOlder DEF QueueOf
    <3>4. Fresh(t, g.first, n, items[n])
      BY <1>4, <1>14, <2>1, <3>1, LaterIsNewer
    <3> QED
      BY <3>2, <3>3, <3>4 DEF n
  <2>3. CASE n \in dropped
    <3>1. items[n] = 0 /\ n \notin has
      BY <2>1, <2>3 DEF items, dropped
    <3>2. Seen(t, at, n, 0)
      <4>1. At(0)[t][n] = 0 /\ 0 \in 0..at
        BY <1>4, <2>1 DEF At, Nowhere
      <4> QED
        BY <4>1 DEF Seen
    <3>3. n \in Items(t, g.first) => Fresh(t, g.first, n, 0)
      <4>1. n \in Items(t, g.first) => At(at)[t][n] = 0
        BY <1>4, <3>1, ItemsType DEF Items, Listed
      <4> QED
        BY <1>4, <1>14, <2>1, <4>1, LaterIsNewer
    <3> QED
      BY <3>1, <3>2, <3>3 DEF n
  <2>4. CASE n \notin told
    <3>1. i \in 1..Len(q) /\ n = q[i] /\ items[n] = f.items[n]
      BY <1>6, <2>1, <2>4 DEF items, n, told
    <3>2. f.populated /\ g.first = f.first
      BY <1>2, <1>11, <3>1
    <3>3. /\ Seen(t, x.rv, n, items[n])
          /\ items[n] = 0 \/ c[n] <= items[n]
          /\ n \in Items(t, g.first) => Fresh(t, g.first, n, items[n])
      BY <1>2, <3>1, <3>2 DEF QueueOf
    <3>4. Seen(t, at, n, items[n])
      BY <1>2, <1>4, <2>1, <3>3, SeenIsOlder
    <3> QED
      BY <3>3, <3>4 DEF n
  <2> QED
    BY <2>2, <2>3, <2>4 DEF told
<1>17. ASSUME NEW n \in Items(t, g.first)
       PROVE  \/ Fresh(t, g.first, n, c[n])
              \/ \E i \in 1..g.initial : e[i] = n
  <2>1. CASE f.populated
    <3>1. g.first = f.first /\ g.initial = f.initial
      BY <1>11, <2>1
    <3>2. \/ Fresh(t, g.first, n, c[n])
          \/ \E i \in 1..g.initial : q[i] = n
      BY <1>2, <2>1, <3>1 DEF QueueOf
    <3>3. \A i \in 1..g.initial : e[i] = q[i]
      BY <1>2, <1>6, <3>1
    <3> QED
      BY <3>2, <3>3
  <2>2. CASE ~f.populated
    <3>1. n \in told /\ g.initial = Len(e)
      BY <1>4, <1>6, <1>11, <2>2 DEF told
    <3> QED
      BY <1>6, <3>1
  <2> QED
    BY <2>1, <2>2
<1>18. QueueOf(t, y.rv, g, c)
  <2>1. g.first <= y.rv
    BY <1>4, <1>12, <1>14
  <2> QED
    BY <1>11, <1>12, <1>15, <1>16, <1>17, <2>1 DEF QueueOf
<1>19. HasSynced(t) => g.populated /\ g.initial = 0
  BY <1>11 DEF HasSynced, f
<1>20. indexer' = [indexer EXCEPT ![t] = c]
  BY <1>1 DEF c, IInv, TypeOK
<1>21. IInv'
  BY <1>1, <1>2, <1>3, <1>6, <1>10, <1>11, <1>12, <1>13, <1>14, <1>18, <1>19, <1>20,
     QueueStep
<1> QED
  BY <1>1, <1>4, <1>12, <1>21 DEF x, IInv, TypeOK

LEMMA DeliverStep ==
  ASSUME IInv, NEW t \in Resources, Deliver(t)
  PROVE  IInv' /\ reflector[t].rv <= reflector'[t].rv
<1> DEFINE x == reflector[t]
           f == fifo[t]
           q == f.queue
           c == indexer[t]
           r == Min(Events(t, x.rv))
           n == CHOOSE m \in Watched(t) : At(r)[t][m] # At(r - 1)[t][m]
           new == At(r)[t][n]
           skip == new = 0 /\ c[n] = 0 /\ n \notin Range(q)
           items == [f.items EXCEPT ![n] = new]
           e == IF skip THEN q ELSE Enqueued(q, {n})
           g == [f EXCEPT !.items = items, !.queue = e]
           y == [x EXCEPT !.rv = r, !.gone = FALSE]
<1>1. /\ x.pc = "watching" /\ Events(t, x.rv) # {}
      /\ fifo' = [fifo EXCEPT ![t] = g]
      /\ reflector' = [reflector EXCEPT ![t] = y]
      /\ UNCHANGED <<history, factory, indexer>>
  BY DEF Deliver
<1>2. /\ Revision \in Nat
      /\ x \in Reflectors /\ x.rv \in 0..Revision
      /\ ReflectorOf(t, x)
      /\ f \in Queues /\ q \in Seq(Slots) /\ IsInjective(q)
      /\ f.initial \in Nat /\ f.initial <= Len(q) /\ f.first \in 0..Revision
      /\ f.items \in [Slots -> 0..MaxRevision]
      /\ c \in [Slots -> 0..MaxRevision]
      /\ f.populated <=> x.synced
      /\ QueueOf(t, x.rv, f, c)
  BY QueueFacts DEF Queues
<1>3. t \in started /\ x.synced /\ f.populated
  BY <1>1, <1>2, NotIdle DEF ReflectorOf
<1>4. r \in Events(t, x.rv)
  <2>1. Events(t, x.rv) \in SUBSET Nat
    BY <1>2 DEF Events
  <2> QED
    BY <1>1, <2>1, MinIsLeast
<1>5. r \in 0..Revision /\ r \in Nat /\ x.rv < r /\ r \in 0..MaxRevision
  <2>1. r \in (x.rv + 1)..Revision
    BY <1>4 DEF Events
  <2> QED
    BY <1>2, <2>1, MaxRevisionAssumption DEF IInv, HistoryFits
<1>6. n \in Watched(t)
  BY <1>4 DEF Events
<1>7. n \in Slots
  BY <1>6, SlotsFacts DEF Watched, Slots
<1>8. new \in 0..MaxRevision
  <2>1. At(r) \in [Resources -> [Slots -> 0..MaxRevision]]
    BY <1>5, AtType DEF IInv
  <2> HIDE DEF r, n
  <2> QED
    BY <1>7, <2>1
<1>9. items \in [Slots -> 0..MaxRevision]
  <2> HIDE DEF new, n
  <2> QED
    BY <1>2, <1>7, <1>8
<1>10. /\ e \in Seq(Slots) /\ IsInjective(e)
       /\ Len(q) \in Nat /\ Len(e) \in Nat /\ Len(q) <= Len(e)
       /\ \A i \in 1..Len(q) : e[i] = q[i]
       /\ \A i \in (Len(q) + 1)..Len(e) : e[i] = n
  <2>1. Len(q) \in Nat
    BY <1>2
  <2>2. CASE skip
    <3>1. e = q
      BY <2>2
    <3> HIDE DEF e, q
    <3>2. Len(e) = Len(q) /\ (Len(q) + 1)..Len(e) = {}
      BY <2>1, <3>1
    <3> QED
      BY <1>2, <2>1, <3>1, <3>2
  <2>3. CASE ~skip
    <3>1. e = Enqueued(q, {n}) /\ {n} \in SUBSET Slots
      BY <1>7, <2>3
    <3> HIDE DEF e, q, n
    <3>2. Extends(e, q, {n})
      BY <1>2, <3>1, EnqueuedIs
    <3> QED
      BY <3>2 DEF Extends
  <2> QED
    BY <2>2, <2>3
<1>11. /\ g \in Queues
       /\ g.queue = e /\ g.items = items /\ g.populated = f.populated
       /\ g.initial = f.initial /\ g.first = f.first
  <2> HIDE DEF e, items, f
  <2> QED
    BY <1>2, <1>9, <1>10 DEF Queues
<1>12. y \in Reflectors /\ y.rv = r /\ y.synced = x.synced /\ y.pc = "watching"
  <2> HIDE DEF x, r
  <2> QED
    BY <1>1, <1>2, <1>5 DEF Reflectors
<1> HIDE DEF x, f, c, r, n, new, e, items, g, y
<1>13. ReflectorOf(t, y)
  BY <1>3, <1>5, <1>12 DEF ReflectorOf
<1>14. f.first <= x.rv /\ f.first \in 0..r
  <2>1. f.first <= x.rv
    BY <1>2, <1>3 DEF QueueOf
  <2> QED
    BY <1>2, <1>5, <2>1
<1>15. ASSUME NEW m \in Slots, NEW v, Seen(t, x.rv, m, v)
       PROVE  Seen(t, r, m, v) /\ (At(r)[t][m] = 0 \/ v <= At(r)[t][m])
  <2>1. x.rv \in Nat /\ x.rv <= r
    BY <1>2, <1>5
  <2> QED
    BY <1>5, <1>15, <2>1, SeenIsOlder
<1>16. ASSUME NEW i \in 1..Len(e)
       PROVE  /\ Seen(t, r, e[i], items[e[i]])
              /\ items[e[i]] = 0 \/ c[e[i]] <= items[e[i]]
              /\ e[i] \in Items(t, f.first) => Fresh(t, f.first, e[i], items[e[i]])
  <2>1. CASE e[i] = n
    <3>1. items[n] = At(r)[t][n]
      BY <1>2, <1>7 DEF items, new
    <3>2. Seen(t, r, n, items[n])
      BY <1>5, <3>1 DEF Seen
    <3>3. items[n] = 0 \/ c[n] <= items[n]
      BY <1>2, <1>7, <1>15, <3>1 DEF QueueOf
    <3>4. Fresh(t, f.first, n, items[n])
      BY <1>5, <1>7, <1>14, <3>1, LaterIsNewer
    <3> QED
      BY <2>1, <3>2, <3>3, <3>4
  <2>2. CASE e[i] # n
    <3>1. i \in 1..Len(q)
      BY <1>10, <2>2
    <3>2. e[i] = q[i] /\ e[i] \in Slots
      BY <1>10, <3>1
    <3>3. items[e[i]] = f.items[q[i]]
      BY <1>2, <2>2, <3>2 DEF items
    <3>4. /\ Seen(t, x.rv, q[i], f.items[q[i]])
          /\ f.items[q[i]] = 0 \/ c[q[i]] <= f.items[q[i]]
          /\ q[i] \in Items(t, f.first) => Fresh(t, f.first, q[i], f.items[q[i]])
      BY <1>2, <1>3, <3>1 DEF QueueOf
    <3> QED
      BY <1>15, <3>2, <3>3, <3>4
  <2> QED
    BY <2>1, <2>2
<1>17. ASSUME NEW m \in Items(t, f.first)
       PROVE  \/ Fresh(t, f.first, m, c[m])
              \/ \E i \in 1..f.initial : e[i] = m
  <2>1. \/ Fresh(t, f.first, m, c[m])
        \/ \E i \in 1..f.initial : q[i] = m
    BY <1>2, <1>3 DEF QueueOf
  <2>2. \A i \in 1..f.initial : e[i] = q[i]
    BY <1>2, <1>10
  <2> QED
    BY <2>1, <2>2
<1>18. QueueOf(t, y.rv, g, c)
  <2>1. f.first <= y.rv
    BY <1>12, <1>14
  <2>2. \A m \in Slots : Seen(t, r, m, c[m])
    BY <1>2, <1>15 DEF QueueOf
  <2> QED
    BY <1>3, <1>11, <1>12, <1>16, <1>17, <2>1, <2>2 DEF QueueOf
<1>19. HasSynced(t) => g.populated /\ g.initial = 0
  BY <1>11 DEF HasSynced, f
<1>20. indexer' = [indexer EXCEPT ![t] = c]
  BY <1>1 DEF c, IInv, TypeOK
<1>21. IsInjective(g.queue) /\ g.initial <= Len(g.queue) /\ g.first <= Revision
  BY <1>2, <1>10, <1>11
<1>22. IInv'
  BY <1>1, <1>2, <1>3, <1>11, <1>12, <1>13, <1>18, <1>19, <1>20, <1>21, QueueStep
<1> QED
  BY <1>1, <1>2, <1>5, <1>12, <1>22 DEF x, IInv, TypeOK

---------------------------------------------------------------------------
(* The theorems.                                                           *)

\* The inductive invariant of the informer: a list under way has what there
\* was at its revision up to the token, and whatever is queued or cached is a
\* version the reflector has seen, newer than the one it will replace.
THEOREM IInvHolds == Spec => []IInv
<1>1. Init => IInv
  BY Starts
<1>2. IInv /\ [Next]_vars => IInv'
  <2> SUFFICES ASSUME IInv, [Next]_vars PROVE IInv'
    OBVIOUS
  <2>1. ASSUME NEW t \in Resources, NEW n \in Slots, Write(t, n) \/ Drop(t, n)
        PROVE  IInv'
    BY <2>1, WriteStep
  <2>2. ASSUME NEW t \in Resources, FirstPage(t) PROVE IInv'
    BY <2>2, FirstPageStep
  <2>3. ASSUME NEW t \in Resources, NextPage(t) PROVE IInv'
    BY <2>3, NextPageStep
  <2>4. ASSUME NEW t \in Resources, NextPageExpired(t) PROVE IInv'
    BY <2>4, NextPageExpiredStep
  <2>5. ASSUME NEW t \in Resources,
               \/ ListFails(t)
               \/ OpenWatch(t)
               \/ WatchRefused(t)
               \/ CloseWatch(t)
               \/ BreakWatch(t)
               \/ Compact(t)
        PROVE  IInv'
    BY <2>5, FlagStep
  <2>6. ASSUME NEW t \in Resources, Replace(t) PROVE IInv'
    BY <2>6, ReplaceStep
  <2>7. ASSUME NEW t \in Resources, Deliver(t) PROVE IInv'
    BY <2>7, DeliverStep
  <2>8. ASSUME NEW t \in Resources, Pop(t) PROVE IInv'
    BY <2>8, PopStep
  <2>9. ASSUME NEW c \in Callers, Informer(c) \/ WaitForCacheSync(c) \/ Synced(c)
        PROVE  IInv'
    BY <2>9, CallerStep
  <2>10. ASSUME NEW c \in Callers, Start(c) PROVE IInv'
    BY <2>10, StartStep
  <2>11. CASE UNCHANGED vars
    BY <2>11, Stutter
  <2>12. ASSUME NEW t \in Resources, VersionUnavailable(t) PROVE IInv'
    BY <2>12, VersionUnavailableStep
  <2> QED
    BY <2>1, <2>2, <2>3, <2>4, <2>5, <2>6, <2>7, <2>8, <2>9, <2>10, <2>11, <2>12 DEF Next
<1> QED
  BY <1>1, <1>2, PTL DEF Spec

\* Every state of the informer is well typed, and no name is queued twice.
THEOREM TypeCorrect == Spec => []TypeOK
<1>1. IInv => TypeOK
  BY DEF IInv
<1> QED
  BY <1>1, IInvHolds, PTL

\* The pages of a list add up to the state at one revision, whatever is
\* written or compacted between them.
THEOREM ListsAreSnapshots == Spec => []ListIsSnapshot
<1>1. IInv => ListIsSnapshot
  BY DEF IInv, ReflectorFits, ReflectorOf, ListIsSnapshot
<1> QED
  BY <1>1, IInvHolds, PTL

\* Who waited for the cache finds in it every object of the first list, in
\* that version or a later one, but for those deleted since.
THEOREM ReadyHasList == Spec => []ReadySeesList
<1>1. IInv => ReadySeesList
  <2> SUFFICES ASSUME IInv, NEW c \in Callers, caller[c].pc = "ready",
                      NEW n \in Items(caller[c].of, fifo[caller[c].of].first)
               PROVE  LET t     == caller[c].of
                          first == fifo[t].first
                      IN \/ Lister(t, n) >= At(first)[t][n]
                         \/ \E r \in first..Revision : At(r)[t][n] = 0
    BY DEF ReadySeesList
  <2> DEFINE t == caller[c].of
  <2>1. t \in Resources /\ HasSynced(t)
    BY DEF IInv, TypeOK, CallersFit
  <2> HIDE DEF t
  <2>2. fifo[t].populated /\ 1..fifo[t].initial = {}
    BY <2>1 DEF HasSynced
  <2>3. QueueOf(t, reflector[t].rv, fifo[t], indexer[t])
    BY <2>1, QueueFacts
  <2>4. Fresh(t, fifo[t].first, n, indexer[t][n])
    BY <2>2, <2>3 DEF QueueOf, t
  <2>5. Lister(t, n) = indexer[t][n]
    BY <2>1, ResourcesAssumption
       DEF Lister, VolumeSnapshotDeltaLister, DriverDiscoveryLister
  <2> QED
    BY <2>4, <2>5 DEF Fresh, t
<1> QED
  BY <1>1, IInvHolds, PTL

\* The cache never goes back to an older version of what it holds, nor the
\* reflector to an older revision.
THEOREM CacheForward == Spec => CacheMovesForward
<1> DEFINE Kept(t) == reflector[t].rv <= reflector'[t].rv
           Newer(t) == \A n \in Slots : \/ indexer'[t][n] = 0
                                        \/ indexer[t][n] <= indexer'[t][n]
<1>1. ASSUME IInv, [Next]_vars PROVE \A t \in Resources : Kept(t) /\ Newer(t)
  <2> USE <1>1
  <2>1. \A t \in Resources : /\ reflector[t].rv \in Nat
                             /\ reflector[t].rv <= reflector[t].rv
    BY DEF IInv, TypeOK, Reflectors
  <2>2. \A t \in Resources, n \in Slots : indexer[t][n] \in Nat
    BY DEF IInv, TypeOK
  <2>3. (\A t \in Resources : indexer'[t] = indexer[t]) => \A t \in Resources : Newer(t)
    BY <2>2
  <2>4. (\A t \in Resources : reflector'[t].rv = reflector[t].rv)
          => \A t \in Resources : Kept(t)
    BY <2>1
  <2>5. ASSUME NEW t \in Resources,
               \/ FirstPage(t)
               \/ VersionUnavailable(t)
               \/ NextPage(t)
               \/ NextPageExpired(t)
               \/ ListFails(t)
               \/ OpenWatch(t)
               \/ WatchRefused(t)
               \/ CloseWatch(t)
               \/ BreakWatch(t)
               \/ Compact(t)
        PROVE  \A s \in Resources : /\ reflector'[s].rv = reflector[s].rv
                                    /\ indexer'[s] = indexer[s]
    <3>1. reflector \in [Resources -> Reflectors]
      BY DEF IInv, TypeOK
    <3>2. \A l, S, limit : Continue(t, l, S, limit).rv = reflector[t].rv
      BY <3>1 DEF Continue, Reflectors
    <3>3. CASE FirstPage(t) \/ NextPage(t) \/ NextPageExpired(t)
      <4>1. \E l, S, limit : reflector' = [reflector EXCEPT ![t] = Continue(t, l, S, limit)]
        BY <3>3 DEF FirstPage, NextPage, NextPageExpired
      <4>2. indexer' = indexer
        BY <3>3 DEF FirstPage, NextPage, NextPageExpired
      <4> QED
        BY <3>1, <3>2, <4>1, <4>2
    <3>4. CASE ListFails(t) \/ OpenWatch(t) \/ WatchRefused(t)
      BY <3>1, <3>4 DEF ListFails, OpenWatch, WatchRefused, Reflectors
    <3>5. CASE CloseWatch(t) \/ BreakWatch(t)
      BY <3>1, <3>5 DEF CloseWatch, BreakWatch, Reflectors
    <3>6. CASE Compact(t)
      <4> DEFINE x == reflector[t]
                 l == [x.list EXCEPT !.gone = x.pc \in {"page", "replace"}]
      <4>1. reflector' = [reflector EXCEPT ![t] = [x EXCEPT !.gone = x.synced, !.list = l]]
            /\ indexer' = indexer
        BY <3>6 DEF Compact
      <4> HIDE DEF l
      <4> QED
        BY <3>1, <4>1 DEF Reflectors
    <3>7. CASE VersionUnavailable(t)
      <4>1. PICK y : /\ reflector' = [reflector EXCEPT ![t] = [y EXCEPT !.unavailable = TRUE]]
                     /\ \/ \E l, S, limit : y = Continue(t, l, S, limit)
                        \/ y = [reflector[t] EXCEPT !.pc = "list", !.list = NoList]
        BY <3>7 DEF VersionUnavailable
      <4>2. [y EXCEPT !.unavailable = TRUE].rv = reflector[t].rv
        <5>1. CASE y = [reflector[t] EXCEPT !.pc = "list", !.list = NoList]
          BY <3>1, <5>1 DEF Reflectors
        <5>2. ASSUME NEW l, NEW S, NEW limit, y = Continue(t, l, S, limit)
              PROVE  [y EXCEPT !.unavailable = TRUE].rv = reflector[t].rv
          BY <3>1, <5>2 DEF Continue, Reflectors
        <5> QED
          BY <4>1, <5>1, <5>2
      <4>3. indexer' = indexer
        BY <3>7 DEF VersionUnavailable
      <4> QED
        BY <3>1, <4>1, <4>2, <4>3
    <3> QED
      BY <2>5, <3>3, <3>4, <3>5, <3>6, <3>7
  <2>6. ASSUME NEW t \in Resources, Replace(t) \/ Deliver(t)
        PROVE  \A s \in Resources : Kept(s) /\ indexer'[s] = indexer[s]
    <3>1. indexer' = indexer /\ \A s \in Resources \ {t} : reflector'[s] = reflector[s]
      BY <2>6 DEF Replace, Deliver, IInv, TypeOK
    <3>2. Kept(t)
      BY <2>6, ReplaceStep, DeliverStep
    <3> QED
      BY <2>1, <3>1, <3>2
  <2>7. ASSUME NEW t \in Resources, Pop(t)
        PROVE  \A s \in Resources : reflector'[s] = reflector[s] /\ Newer(s)
    <3> DEFINE q == fifo[t].queue
               n == Head(q)
    <3>1. reflector' = reflector /\ q # << >>
          /\ indexer' = [indexer EXCEPT ![t] = [indexer[t] EXCEPT ![n] = fifo[t].items[n]]]
      BY <2>7 DEF Pop
    <3>2. q \in Seq(Slots) /\ IsInjective(q)
          /\ QueueOf(t, reflector[t].rv, fifo[t], indexer[t])
      BY QueueFacts
    <3>3. n = q[1] /\ 1 \in 1..Len(q) /\ n \in Slots
      <4> HIDE DEF q
      <4> QED
        BY <3>1, <3>2, TailIs
    <3>4. fifo[t].items[n] = 0 \/ indexer[t][n] <= fifo[t].items[n]
      BY <3>2, <3>3 DEF QueueOf
    <3>5. /\ \A s \in Resources \ {t} : indexer'[s] = indexer[s]
          /\ \A m \in Slots \ {n} : indexer'[t][m] = indexer[t][m]
          /\ indexer'[t][n] = fifo[t].items[n]
      <4> HIDE DEF n
      <4> QED
        BY <3>1, <3>3 DEF IInv, TypeOK
    <3> HIDE DEF n, q
    <3> QED
      BY <2>2, <3>1, <3>4, <3>5
  <2>8. ASSUME NEW c \in Callers, Informer(c) \/ WaitForCacheSync(c) \/ Synced(c)
        PROVE  reflector' = reflector /\ indexer' = indexer
    BY <2>8 DEF Informer, WaitForCacheSync, Synced
  <2>9. ASSUME NEW c \in Callers, Start(c)
        PROVE  \A s \in Resources : /\ reflector'[s].rv = reflector[s].rv
                                    /\ indexer'[s] = indexer[s]
    BY <2>9 DEF Start, IInv, ReflectorFits, Idle
  <2>10. ASSUME NEW t \in Resources, NEW n \in Slots, Write(t, n) \/ Drop(t, n)
         PROVE  reflector' = reflector /\ indexer' = indexer
    BY <2>10 DEF Write, Drop
  <2>11. UNCHANGED vars => reflector' = reflector /\ indexer' = indexer
    BY DEF vars
  <2> HIDE DEF Kept, Newer
  <2> QED
    BY <2>3, <2>4, <2>5, <2>6, <2>7, <2>8, <2>9, <2>10, <2>11 DEF Next
<1>2. IInv /\ [Next]_vars => [MovesForward]_vars
  BY <1>1 DEF MovesForward
<1> QED
  BY <1>2, IInvHolds, PTL DEF Spec, CacheMovesForward
=============================================================================
