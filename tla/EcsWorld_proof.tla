---------------------------- MODULE EcsWorld_proof ----------------------------
(***************************************************************************)
(* The slots, the reservations and the columns of EcsWorld, for any number *)
(* of slots, generations, components, values and systems; and the order of *)
(* the systems of Schedule, for any descriptors.                           *)
(*                                                                         *)
(* SlotInv is the inductive invariant of the slots.  While commands are    *)
(* recorded the pending handles are the top of the free list and the slots *)
(* next to be allocated (Reserving); while they are applied every pending  *)
(* handle finds its slot as it was reserved (Settling); a handle that was  *)
(* returned is pending or its slot has gone past it (Past), which is why   *)
(* none is returned twice.  ColumnInv is that of the columns.              *)
(*                                                                         *)
(* OrderInv is the inductive invariant of the build: what stands before a  *)
(* placed system is all it waits for (EdgesKept), and nobody that could    *)
(* have stood there was registered earlier (Greedy).                       *)
(***************************************************************************)
EXTENDS EcsWorld, Schedule, TLAPS, FiniteSetTheorems, FunctionTheorems, SequenceTheorems,
        WellFoundedInduction

-----------------------------------------------------------------------------
\* A nonempty set of naturals has a least element: the form induction takes here.
LEMMA Least ==
    ASSUME NEW T, T \subseteq Nat, T # {}
    PROVE  \E n \in T : \A m \in T : n <= m
<1>1. PICK x \in T : \A y \in T : ~(<<y, x>> \in OpToRel(<, Nat))
  BY NatLessThanWellFounded, WFMin
<1>2. \A y \in T : ~(y < x)
  BY <1>1 DEF OpToRel
<1>. QED BY <1>2

-----------------------------------------------------------------------------
\* Sequences and finite sets.

\* What FlattenSeq has after each of the first n sequences.
IsRuns(ss, g, n) ==
    /\ DOMAIN g = 1 .. n /\ g[1] = ss[1]
    /\ \A k \in 2 .. n : g[k] = g[k - 1] \o ss[k]

\* Such partial results exist.
LEMMA RunsExist ==
    ASSUME NEW ss, NEW len \in Nat \ {0}
    PROVE  \E g : IsRuns(ss, g, len)
<1>. DEFINE T == {n \in 1 .. len : ~\E g : IsRuns(ss, g, n)}
<1>1. T = {}
  <2>. SUFFICES ASSUME T # {} PROVE FALSE
    OBVIOUS
  <2>1. PICK n \in T : \A m \in T : n <= m
    <3>1. T \subseteq Nat
      OBVIOUS
    <3>. HIDE DEF T
    <3>. QED BY <3>1, Least
  <2>2. n \in 1 .. len /\ ~\E g : IsRuns(ss, g, n)
    OBVIOUS
  <2>3. n # 1
    <3>1. IsRuns(ss, [k \in 1 .. 1 |-> ss[1]], 1)
      BY DEF IsRuns
    <3>. QED BY <2>2, <3>1
  <2>4. n - 1 \in 1 .. len /\ n - 1 \notin T
    BY <2>1, <2>2, <2>3
  <2>5. PICK g : IsRuns(ss, g, n - 1)
    BY <2>4
  <2>. DEFINE h == [k \in 1 .. n |-> IF k = n THEN g[n - 1] \o ss[n] ELSE g[k]]
  <2>6. h[1] = ss[1]
    BY <2>2, <2>3, <2>5 DEF IsRuns
  <2>7. \A k \in 2 .. n : h[k] = h[k - 1] \o ss[k]
    <3>. SUFFICES ASSUME NEW k \in 2 .. n PROVE h[k] = h[k - 1] \o ss[k]
      OBVIOUS
    <3>0. k \in 1 .. n /\ k - 1 \in 1 .. n /\ k - 1 # n
      BY <2>2
    <3>1. h[k - 1] = g[k - 1]
      BY <3>0
    <3>2. CASE k = n
      <4>1. h[k] = g[n - 1] \o ss[n]
        BY <3>0, <3>2
      <4>. QED BY <3>1, <3>2, <4>1
    <3>3. CASE k # n
      <4>1. k \in 2 .. n - 1
        BY <2>2, <3>3
      <4>2. h[k] = g[k]
        BY <3>0, <3>3
      <4>3. g[k] = g[k - 1] \o ss[k]
        BY <2>5, <4>1 DEF IsRuns
      <4>. QED BY <3>1, <4>2, <4>3
    <3>. QED BY <3>2, <3>3
  <2>8. IsRuns(ss, h, n)
    BY <2>6, <2>7 DEF IsRuns
  <2>. QED BY <2>2, <2>8
<1>2. len \in 1 .. len /\ len \notin T
  BY <1>1
<1>. QED BY <1>2

\* FlattenSeq is the last of the running concatenations.
LEMMA FlattenFacts ==
    ASSUME NEW S, NEW ss, NEW len \in Nat \ {0}, ss \in [1 .. len -> Seq(S)]
    PROVE  \E f : IsRuns(ss, f, len) /\ FlattenSeq(ss) = f[len]
<1>. DEFINE Sol(f) == f = [i \in 1 .. len |-> IF i = 1 THEN ss[i] ELSE f[i - 1] \o ss[i]]
            f == CHOOSE x : Sol(x)
<1>1. Len(ss) = len
  OBVIOUS
<1>2. PICK g : IsRuns(ss, g, len)
  BY RunsExist
<1>. DEFINE e == [i \in 1 .. len |-> g[i]]
<1>3. Sol(e)
  <2>. SUFFICES ASSUME NEW i \in 1 .. len
                PROVE  e[i] = IF i = 1 THEN ss[i] ELSE e[i - 1] \o ss[i]
    OBVIOUS
  <2>1. CASE i = 1
    BY <1>2, <2>1 DEF IsRuns
  <2>2. CASE i # 1
    <3>1. i \in 2 .. len /\ i - 1 \in 1 .. len
      BY <2>2
    <3>2. g[i] = g[i - 1] \o ss[i]
      BY <1>2, <3>1 DEF IsRuns
    <3>. QED BY <2>2, <3>1, <3>2
  <2>. QED BY <2>1, <2>2
<1>4. Sol(f)
  <2>. HIDE DEF Sol, e
  <2>. QED BY <1>3
<1>5. FlattenSeq(ss) = f[len]
  BY <1>1 DEF FlattenSeq
<1>. HIDE DEF f
<1>6. DOMAIN f = 1 .. len /\ f[1] = ss[1]
  BY <1>4
<1>7. \A k \in 2 .. len : f[k] = f[k - 1] \o ss[k]
  <2>. SUFFICES ASSUME NEW k \in 2 .. len PROVE f[k] = f[k - 1] \o ss[k]
    OBVIOUS
  <2>1. k \in 1 .. len /\ k # 1
    OBVIOUS
  <2>. DEFINE F(i) == IF i = 1 THEN ss[i] ELSE f[i - 1] \o ss[i]
  <2>2. f = [i \in 1 .. len |-> F(i)]
    BY <1>4
  <2>3. f[k] = F(k)
    <3>. HIDE DEF F
    <3>. QED BY <2>1, <2>2
  <2>. QED BY <2>1, <2>3
<1>. QED BY <1>5, <1>6, <1>7 DEF IsRuns

\* No slot is reserved by two realizes of a sequence.
Once(s) ==
    \A m, n \in DOMAIN s : s[m].kind = SpawnKind /\ s[n].kind = SpawnKind
                           /\ s[m].e.idx = s[n].e.idx => m = n

Within(s, H) == \A n \in DOMAIN s : s[n].e \in H

\* What it is to be reserved by a record of s.
LEMMA SpawnsInMember ==
    ASSUME NEW s, NEW e
    PROVE  e \in SpawnsIn(s) <=> \E n \in DOMAIN s : s[n].kind = SpawnKind /\ s[n].e = e
BY DEF SpawnsIn

\* Where the elements of a concatenation come from.
LEMMA ConcatFacts ==
    ASSUME NEW S, NEW s \in Seq(S), NEW t \in Seq(S)
    PROVE  /\ \A n \in 1 .. Len(s) : n \in DOMAIN (s \o t) /\ (s \o t)[n] = s[n]
           /\ \A n \in 1 .. Len(t) : /\ Len(s) + n \in DOMAIN (s \o t)
                                     /\ (s \o t)[Len(s) + n] = t[n]
           /\ \A n \in DOMAIN (s \o t) : \/ n \in 1 .. Len(s)
                                         \/ n - Len(s) \in 1 .. Len(t)
<1>1. s \o t \in Seq(S) /\ Len(s \o t) = Len(s) + Len(t) /\ Len(s) \in Nat /\ Len(t) \in Nat
  OBVIOUS
<1>2. DOMAIN (s \o t) = 1 .. Len(s) + Len(t)
  BY <1>1
<1>. QED BY <1>1, <1>2

\* Appending one window's records to another's.
LEMMA ConcatSpawns ==
    ASSUME NEW S, NEW s \in Seq(S), NEW t \in Seq(S)
    PROVE  /\ \A e : e \in SpawnsIn(s \o t) <=> e \in SpawnsIn(s) \/ e \in SpawnsIn(t)
           /\ \A H : Within(s, H) /\ Within(t, H) => Within(s \o t, H)
           /\ Once(s) /\ Once(t)
                /\ (\A d \in SpawnsIn(s), e \in SpawnsIn(t) : d.idx # e.idx) => Once(s \o t)
<1>. DEFINE c == s \o t
<1>1. /\ DOMAIN s = 1 .. Len(s) /\ DOMAIN t = 1 .. Len(t) /\ Len(s) \in Nat /\ Len(t) \in Nat
  OBVIOUS
<1>2. /\ \A n \in 1 .. Len(s) : n \in DOMAIN c /\ c[n] = s[n]
      /\ \A n \in 1 .. Len(t) : Len(s) + n \in DOMAIN c /\ c[Len(s) + n] = t[n]
      /\ \A n \in DOMAIN c : n \in 1 .. Len(s) \/ n - Len(s) \in 1 .. Len(t)
  BY ConcatFacts
<1>3. \A n \in DOMAIN c : n \in Int
  <2>1. c \in Seq(S)
    OBVIOUS
  <2>. QED BY <2>1
<1>. HIDE DEF c
<1>4. \A n \in DOMAIN c : \/ n \in DOMAIN s /\ c[n] = s[n]
                          \/ n - Len(s) \in DOMAIN t /\ c[n] = t[n - Len(s)]
  BY <1>1, <1>2, <1>3
<1>5. \A e : e \in SpawnsIn(c) <=> e \in SpawnsIn(s) \/ e \in SpawnsIn(t)
  <2>. TAKE e
  <2>1. e \in SpawnsIn(c) => e \in SpawnsIn(s) \/ e \in SpawnsIn(t)
    BY <1>4, SpawnsInMember
  <2>2. e \in SpawnsIn(s) => e \in SpawnsIn(c)
    BY <1>1, <1>2, SpawnsInMember
  <2>3. e \in SpawnsIn(t) => e \in SpawnsIn(c)
    BY <1>1, <1>2, SpawnsInMember
  <2>. QED BY <2>1, <2>2, <2>3
<1>6. \A H : Within(s, H) /\ Within(t, H) => Within(c, H)
  BY <1>4 DEF Within
<1>7. ASSUME Once(s), Once(t), \A d \in SpawnsIn(s), e \in SpawnsIn(t) : d.idx # e.idx
      PROVE  Once(c)
  <2>. SUFFICES ASSUME NEW m \in DOMAIN c, NEW n \in DOMAIN c,
                       c[m].kind = SpawnKind, c[n].kind = SpawnKind, c[m].e.idx = c[n].e.idx
                PROVE  m = n
    BY DEF Once
  <2>1. CASE m \in DOMAIN s /\ c[m] = s[m] /\ n \in DOMAIN s /\ c[n] = s[n]
    BY <1>7, <2>1 DEF Once
  <2>2. CASE /\ m - Len(s) \in DOMAIN t /\ c[m] = t[m - Len(s)]
             /\ n - Len(s) \in DOMAIN t /\ c[n] = t[n - Len(s)]
    <3>1. m - Len(s) = n - Len(s)
      BY <1>7, <2>2 DEF Once
    <3>. QED BY <1>1, <1>3, <3>1
  <2>3. CASE m \in DOMAIN s /\ c[m] = s[m] /\ n - Len(s) \in DOMAIN t /\ c[n] = t[n - Len(s)]
    <3>1. c[m].e \in SpawnsIn(s) /\ c[n].e \in SpawnsIn(t)
      BY <2>3, SpawnsInMember
    <3>. QED BY <1>7, <3>1
  <2>4. CASE n \in DOMAIN s /\ c[n] = s[n] /\ m - Len(s) \in DOMAIN t /\ c[m] = t[m - Len(s)]
    <3>1. c[n].e \in SpawnsIn(s) /\ c[m].e \in SpawnsIn(t)
      BY <2>4, SpawnsInMember
    <3>. QED BY <1>7, <3>1
  <2>. QED BY <1>4, <2>1, <2>2, <2>3, <2>4
<1>. QED BY <1>5, <1>6, <1>7 DEF c

\* The empty sequence reserves nothing.
LEMMA NoneIn ==
    /\ SpawnsIn(<<>>) = {} /\ Once(<<>>) /\ \A H : Within(<<>>, H)
BY DEF SpawnsIn, Once, Within

\* A single record.
LEMMA OneIn ==
    ASSUME NEW r
    PROVE  /\ \A e : e \in SpawnsIn(<<r>>) <=> r.kind = SpawnKind /\ e = r.e
           /\ Once(<<r>>)
           /\ \A H : Within(<<r>>, H) <=> r.e \in H
<1>1. DOMAIN <<r>> = {1} /\ <<r>>[1] = r
  OBVIOUS
<1>. QED BY <1>1, SpawnsInMember DEF Once, Within

\* Recording one more command.
LEMMA AppendSpawns ==
    ASSUME NEW S, NEW s \in Seq(S), NEW r \in S
    PROVE  /\ Append(s, r) \in Seq(S)
           /\ \A e : e \in SpawnsIn(Append(s, r)) <=>
                        e \in SpawnsIn(s) \/ (r.kind = SpawnKind /\ e = r.e)
           /\ \A H : Within(s, H) /\ r.e \in H => Within(Append(s, r), H)
           /\ Once(s) /\ (r.kind = SpawnKind => \A d \in SpawnsIn(s) : d.idx # r.e.idx)
                 => Once(Append(s, r))
<1>1. Append(s, r) = s \o <<r>> /\ <<r>> \in Seq(S) /\ Append(s, r) \in Seq(S)
  BY AppendIsConcat
<1>2. \A e : e \in SpawnsIn(s \o <<r>>) <=> e \in SpawnsIn(s) \/ e \in SpawnsIn(<<r>>)
  BY <1>1, ConcatSpawns
<1>3. \A H : Within(s, H) /\ Within(<<r>>, H) => Within(s \o <<r>>, H)
  BY <1>1, ConcatSpawns
<1>4. Once(s) /\ Once(<<r>>) /\ (\A d \in SpawnsIn(s), e \in SpawnsIn(<<r>>) : d.idx # e.idx)
        => Once(s \o <<r>>)
  BY <1>1, ConcatSpawns
<1>. QED BY <1>1, <1>2, <1>3, <1>4, OneIn

\* Performing the first command.
LEMMA TailSpawns ==
    ASSUME NEW S, NEW s \in Seq(S), s # <<>>, Once(s)
    PROVE  /\ Head(s) \in S /\ Tail(s) \in Seq(S) /\ Once(Tail(s))
           /\ \A H : Within(s, H) => Head(s).e \in H /\ Within(Tail(s), H)
           /\ Head(s).kind # SpawnKind => \A e : e \in SpawnsIn(Tail(s)) <=> e \in SpawnsIn(s)
           /\ Head(s).kind = SpawnKind =>
                 /\ Head(s).e \in SpawnsIn(s)
                 /\ \A e : e \in SpawnsIn(Tail(s)) <=> e \in SpawnsIn(s) /\ e # Head(s).e
<1>. DEFINE t == Tail(s)
            h == Head(s)
<1>1. /\ h \in S /\ t \in Seq(S) /\ h = s[1] /\ Len(s) \in Nat /\ Len(s) >= 1
      /\ DOMAIN s = 1 .. Len(s) /\ DOMAIN t = 1 .. Len(s) - 1
      /\ \A n \in 1 .. Len(s) - 1 : t[n] = s[n + 1]
  BY HeadTailProperties
<1>. HIDE DEF t, h
<1>2. \A n \in DOMAIN t : n \in Nat /\ n + 1 \in DOMAIN s /\ t[n] = s[n + 1]
  BY <1>1
<1>3. 1 \in DOMAIN s /\ \A n \in DOMAIN s : n = 1 \/ (n - 1 \in DOMAIN t /\ s[n] = t[n - 1])
  BY <1>1
<1>4. Once(t)
  BY <1>2 DEF Once
<1>5. \A H : Within(s, H) => h.e \in H /\ Within(t, H)
  BY <1>1, <1>2, <1>3 DEF Within
<1>6. \A e : e \in SpawnsIn(t) => e \in SpawnsIn(s)
  BY <1>2, SpawnsInMember
<1>7. \A e : e \in SpawnsIn(s) => e \in SpawnsIn(t) \/ (h.kind = SpawnKind /\ h.e = e)
  BY <1>1, <1>3, SpawnsInMember
<1>8. ASSUME h.kind = SpawnKind PROVE h.e \in SpawnsIn(s) /\ h.e \notin SpawnsIn(t)
  <2>1. h.e \in SpawnsIn(s)
    BY <1>1, <1>3, <1>8, SpawnsInMember
  <2>2. ASSUME NEW n \in DOMAIN t, t[n].kind = SpawnKind, t[n].e = h.e PROVE FALSE
    <3>1. n + 1 = 1
      BY <1>1, <1>2, <1>3, <1>8, <2>2 DEF Once
    <3>. QED BY <1>2, <3>1
  <2>. QED BY <2>1, <2>2, SpawnsInMember
<1>9. h.kind # SpawnKind => \A e : e \in SpawnsIn(t) <=> e \in SpawnsIn(s)
  BY <1>6, <1>7
<1>10. h.kind = SpawnKind => \A e : e \in SpawnsIn(t) <=> e \in SpawnsIn(s) /\ e # h.e
  BY <1>6, <1>7, <1>8
<1>. QED BY <1>1, <1>4, <1>5, <1>8, <1>9, <1>10 DEF t, h

\* The barrier hands every chunk's records on.
RunOK(S, H, ss, r, k) ==
    /\ r \in Seq(S) /\ Once(r) /\ Within(r, H)
    /\ \A e : e \in SpawnsIn(r) <=> \E i \in 1 .. k : e \in SpawnsIn(ss[i])

\* Flattening keeps every record of every chunk, and reserves no slot twice.
LEMMA FlattenSpawns ==
    ASSUME NEW S, NEW H, NEW ss, NEW len \in Nat \ {0}, ss \in [1 .. len -> Seq(S)],
           \A i \in 1 .. len : Once(ss[i]) /\ Within(ss[i], H),
           \A i, j \in 1 .. len : \A d \in SpawnsIn(ss[i]), e \in SpawnsIn(ss[j]) :
               d.idx = e.idx => i = j
    PROVE  RunOK(S, H, ss, FlattenSeq(ss), len)
<1>1. PICK f : IsRuns(ss, f, len) /\ FlattenSeq(ss) = f[len]
  BY FlattenFacts
<1>. DEFINE T == {k \in 1 .. len : ~RunOK(S, H, ss, f[k], k)}
<1>2. T = {}
  <2>. SUFFICES ASSUME T # {} PROVE FALSE
    OBVIOUS
  <2>1. PICK k \in T : \A m \in T : k <= m
    <3>1. T \subseteq Nat
      OBVIOUS
    <3>. HIDE DEF T
    <3>. QED BY <3>1, Least
  <2>2. k \in 1 .. len /\ ~RunOK(S, H, ss, f[k], k)
    OBVIOUS
  <2>3. CASE k = 1
    <3>1. f[k] = ss[1] /\ 1 \in 1 .. len
      BY <1>1, <2>3 DEF IsRuns
    <3>2. \A e : e \in SpawnsIn(ss[1]) <=> \E i \in 1 .. 1 : e \in SpawnsIn(ss[i])
      <4>1. \A i \in 1 .. 1 : i = 1
        OBVIOUS
      <4>. QED BY <4>1
    <3>. QED BY <2>2, <2>3, <3>1, <3>2 DEF RunOK
  <2>4. CASE k # 1
    <3>1. k \in 2 .. len /\ k - 1 \in 1 .. len /\ k - 1 \notin T
      BY <2>1, <2>2, <2>4
    <3>2. RunOK(S, H, ss, f[k - 1], k - 1)
      BY <3>1
    <3>3. f[k] = f[k - 1] \o ss[k]
      BY <1>1, <3>1 DEF IsRuns
    <3>4. /\ f[k - 1] \in Seq(S) /\ Once(f[k - 1]) /\ Within(f[k - 1], H)
          /\ ss[k] \in Seq(S) /\ Once(ss[k]) /\ Within(ss[k], H)
      BY <2>2, <3>2 DEF RunOK
    <3>5. \A d \in SpawnsIn(f[k - 1]), e \in SpawnsIn(ss[k]) : d.idx # e.idx
      <4>. SUFFICES ASSUME NEW d \in SpawnsIn(f[k - 1]), NEW e \in SpawnsIn(ss[k]),
                           d.idx = e.idx
                    PROVE  FALSE
        OBVIOUS
      <4>1. PICK i \in 1 .. k - 1 : d \in SpawnsIn(ss[i])
        BY <3>2 DEF RunOK
      <4>2. i \in 1 .. len /\ i # k
        BY <2>2, <3>1
      <4>. QED BY <2>2, <4>1, <4>2
    <3>6. f[k - 1] \o ss[k] \in Seq(S)
      BY <3>4
    <3>7. Once(f[k - 1] \o ss[k]) /\ Within(f[k - 1] \o ss[k], H)
      BY <3>4, <3>5, ConcatSpawns
    <3>8. \A e : e \in SpawnsIn(f[k - 1] \o ss[k]) <=>
                    e \in SpawnsIn(f[k - 1]) \/ e \in SpawnsIn(ss[k])
      BY <3>4, ConcatSpawns
    <3>9. \A e : (\E i \in 1 .. k : e \in SpawnsIn(ss[i])) <=>
                    (\E i \in 1 .. k - 1 : e \in SpawnsIn(ss[i])) \/ e \in SpawnsIn(ss[k])
      <4>1. \A i : i \in 1 .. k <=> i \in 1 .. k - 1 \/ i = k
        BY <2>2
      <4>. QED BY <4>1
    <3>. QED BY <2>2, <3>2, <3>3, <3>6, <3>7, <3>8, <3>9 DEF RunOK
  <2>. QED BY <2>3, <2>4
<1>3. len \in 1 .. len
  OBVIOUS
<1>4. len \notin T
  <2>. HIDE DEF T
  <2>. QED BY <1>2
<1>5. RunOK(S, H, ss, f[len], len)
  BY <1>3, <1>4
<1>. QED BY <1>1, <1>5

\* As many values as places, when no value is repeated.
LEMMA CountImage ==
    ASSUME NEW S, IsFiniteSet(S), NEW f, DOMAIN f = S, \A p, q \in S : f[p] = f[q] => p = q
    PROVE  /\ IsFiniteSet({f[p] : p \in S})
           /\ Cardinality({f[p] : p \in S}) = Cardinality(S)
<1>. DEFINE T == {f[p] : p \in S}
            F == [p \in S |-> f[p]]
<1>1. F \in [S -> T] /\ \A p, q \in S : F[p] = F[q] => p = q
  OBVIOUS
<1>2. \A t \in T : \E p \in S : F[p] = t
  OBVIOUS
<1>. HIDE DEF T, F
<1>3. F \in Surjection(S, T)
  BY <1>1, <1>2, Fun_IsSurj
<1>4. F \in Bijection(S, T)
  BY <1>1, <1>3, Fun_IsBij
<1>5. ExistsBijection(S, T)
  BY <1>4 DEF ExistsBijection
<1>6. IsFiniteSet(T) /\ Cardinality(T) = Cardinality(S)
  BY <1>5, FS_Bijection
<1>. QED BY <1>6 DEF T

\* The same for the first n places of a function.
LEMMA CountRange ==
    ASSUME NEW f, NEW n \in Nat, \A p, q \in 0 .. n - 1 : f[p] = f[q] => p = q,
           NEW T, \A x : x \in T <=> \E p \in 0 .. n - 1 : x = f[p]
    PROVE  IsFiniteSet(T) /\ Cardinality(T) = n
<1>. DEFINE S == 0 .. n - 1
            g == [p \in S |-> f[p]]
<1>1. IsFiniteSet(S) /\ Cardinality(S) = n
  BY FS_Interval
<1>2. DOMAIN g = S /\ \A p, q \in S : g[p] = g[q] => p = q
  OBVIOUS
<1>3. {g[p] : p \in S} = T
  OBVIOUS
<1>4. IsFiniteSet({g[p] : p \in S}) /\ Cardinality({g[p] : p \in S}) = Cardinality(S)
  <2>. HIDE DEF g, S
  <2>. QED BY <1>1, <1>2, CountImage
<1>. QED BY <1>1, <1>3, <1>4

-----------------------------------------------------------------------------
\* Slots, handles and records.

\* Slots are the first MaxIdx + 1 naturals.
LEMMA IdxFacts ==
    /\ MaxIdx \in Nat /\ GenMax \in Nat /\ GenMax >= 2
    /\ Pos = Idx /\ \A i : i \in Idx <=> i \in Nat /\ i <= MaxIdx
    /\ IsFiniteSet(Idx) /\ Cardinality(Idx) = MaxIdx + 1
<1>1. MaxIdx \in Nat /\ GenMax \in Nat /\ GenMax >= 2
  BY EcsBounds
<1>2. IsFiniteSet(0 .. MaxIdx) /\ Cardinality(0 .. MaxIdx) = MaxIdx + 1
  BY <1>1, FS_Interval
<1>. QED BY <1>1, <1>2 DEF Idx, Pos

\* Any set of slots is finite, and at most all of them.
LEMMA SubIdx ==
    ASSUME NEW S, S \subseteq Idx
    PROVE  IsFiniteSet(S) /\ Cardinality(S) \in 0 .. MaxIdx + 1
<1>1. IsFiniteSet(S) /\ Cardinality(S) <= MaxIdx + 1
  BY IdxFacts, FS_Subset
<1>2. Cardinality(S) \in Nat
  BY <1>1, FS_CardinalityType
<1>. QED BY <1>1, <1>2, IdxFacts

\* A handle is its slot and its generation.
LEMMA EntityFacts ==
    /\ \A e \in Entities : e.idx \in Idx /\ e.gen \in 1 .. GenMax
    /\ \A d, e \in Entities : d.idx = e.idx /\ d.gen = e.gen => d = e
    /\ \A i \in Idx, g \in 1 .. GenMax : [idx |-> i, gen |-> g] \in Entities
BY DEF Entities

\* What a record carries.
LEMMA RecordFacts ==
    /\ \A e \in Entities : [kind |-> SpawnKind, e |-> e] \in Records
    /\ \A r \in Records :
          /\ r.e \in Entities
          /\ r.kind \in {"add", "set_field", "remove"} => r.comp \in Comps
          /\ r.kind \in {"add", "set_field"} => r.v \in Values
BY DEF Records, SpawnKind

\* A chunk for each system, and one more.
LEMMA ChunkFacts ==
    /\ Chunks = 1 .. External /\ External \in Nat \ {0} /\ External \in Chunks
    /\ \A i \in Chunks : i # Systems /\ i # External => i + 1 \in Chunks
    /\ 1 \in Chunks
BY EcsBounds DEF Chunks, External

-----------------------------------------------------------------------------
\* The inductive invariant of the slots.

\* The slots below slot_count have been allocated; a free slot is dead, has
\* been used, and is listed once.
SlotMapOK(gn, lv, fr, sc, fc) ==
    /\ gn \in [Idx -> 0 .. GenMax] /\ lv \subseteq Idx /\ fr \in [Pos -> Idx]
    /\ sc \in 0 .. MaxIdx + 1 /\ fc \in 0 .. MaxIdx + 1
    /\ \A i \in Idx : gn[i] # 0 <=> i < sc
    /\ \A i \in lv : i < sc
    /\ \A p \in 0 .. fc - 1 : fr[p] < sc /\ fr[p] \notin lv /\ gn[fr[p]] >= 2
    /\ \A p, q \in 0 .. fc - 1 : fr[p] = fr[q] => p = q

Listed(fr, fc) == {fr[p] : p \in 0 .. fc - 1}

\* Neither live, nor free, nor waiting for its realize: retired for good.
RetiredSlots(lv, fr, sc, fc, taken) ==
    {i \in Idx : i < sc /\ i \notin lv /\ i \notin Listed(fr, fc) /\ i \notin taken}

CountsOK(gn, lv, fr, sc, lc, qc, fc, taken) ==
    /\ lc = Cardinality(lv)
    /\ qc = Cardinality(RetiredSlots(lv, fr, sc, fc, taken))
    /\ \A i \in RetiredSlots(lv, fr, sc, fc, taken) : gn[i] = GenMax

\* A handle whose slot has gone on, or may not be reused.
Past(e, gn, fr, sc, fc) ==
    /\ e.idx < sc /\ e.gen <= gn[e.idx]
    /\ e.gen = gn[e.idx] => e.idx \notin Listed(fr, fc)

PendingSlots == {e.idx : e \in PendingEntities}
PopNext(n) == free[free_count - 1 - n]
ReservedSlots == {PopNext(n) : n \in 0 .. reserved_free - 1}

RecordsOK ==
    /\ todo \in Seq(Records) /\ Once(todo) /\ Within(todo, issued)
    /\ chunks \in [Chunks -> Seq(Records)]
    /\ \A i \in Chunks : Once(chunks[i]) /\ Within(chunks[i], issued)
    /\ \A i, j \in Chunks : \A d \in SpawnsIn(chunks[i]), e \in SpawnsIn(chunks[j]) :
          d.idx = e.idx => i = j

HandlesOK ==
    /\ issued \subseteq Entities /\ realized \subseteq issued
    /\ \A e \in issued : \/ e \in PendingEntities
                         \/ Past(e, gen, free, slot_count, free_count)
    /\ \A e \in realized : Past(e, gen, free, slot_count, free_count)

\* While commands are recorded, the pending handles are the top of the free
\* list and the slots next to be allocated.
Reserving ==
    /\ todo = <<>>
    /\ reserved_free \in 0 .. free_count /\ pending_fresh \in Nat
    /\ slot_count + pending_fresh <= MaxIdx + 1
    /\ \A e \in Entities :
          e \in PendingEntities <=>
              \/ e.idx \in ReservedSlots /\ e.gen = gen[e.idx]
              \/ e.idx \in slot_count .. slot_count + pending_fresh - 1 /\ e.gen = 1

\* While they are applied, each pending handle finds its slot as it was
\* reserved, or still to be allocated with every slot below it.
Settling ==
    /\ \A i \in Chunks : chunks[i] = <<>>
    /\ reserved_free = 0
    /\ pending_fresh = Cardinality({e \in PendingEntities : e.gen = 1})
    /\ \A e \in PendingEntities :
          /\ e.idx \notin live /\ e.idx \notin Listed(free, free_count)
          /\ e.idx < slot_count => gen[e.idx] = e.gen
          /\ e.idx >= slot_count =>
                /\ e.gen = 1
                /\ \A j \in slot_count .. e.idx : [idx |-> j, gen |-> 1] \in PendingEntities

SavedOK ==
    saved # <<>> =>
        LET sc == saved.counts[1]
            fc == saved.counts[4]
        IN
        /\ saved.counts = <<sc, saved.counts[2], saved.counts[3], fc>>
        /\ SlotMapOK(saved.gen, saved.live, saved.free, sc, fc)
        /\ CountsOK(saved.gen, saved.live, saved.free, sc, saved.counts[2], saved.counts[3],
                    fc, {})
        /\ saved.realized \subseteq Entities
        /\ \A e \in saved.realized : Past(e, saved.gen, saved.free, sc, fc)

Recording == pc \in {"record", "domain exhausted"}

SlotsOK ==
    /\ SlotMapOK(gen, live, free, slot_count, free_count)
    /\ CountsOK(gen, live, free, slot_count, live_count, quarantined, free_count, PendingSlots)

ControlOK ==
    /\ window_popped \subseteq Idx /\ running \in Chunks
    /\ pc \in {"record", "apply"} \cup Fatal
    /\ pc = "check failed" => todo # <<>> /\ Head(todo).kind # SpawnKind
    /\ OnlyRecentDestroyIsFatal
    /\ Recording => Reserving
    /\ ~Recording => Settling

SlotInv == SlotsOK /\ RecordsOK /\ HandlesOK /\ SavedOK /\ ControlOK

\* A pending handle is in a record of todo or of some chunk.
LEMMA PendingMember ==
    ASSUME NEW e
    PROVE  e \in PendingEntities <=>
               e \in SpawnsIn(todo) \/ \E i \in Chunks : e \in SpawnsIn(chunks[i])
BY DEF PendingEntities

\* The same after a step.
LEMMA PendingMemberNext ==
    ASSUME NEW e
    PROVE  e \in PendingEntities' <=>
               e \in SpawnsIn(todo') \/ \E i \in Chunks : e \in SpawnsIn(chunks'[i])
BY DEF PendingEntities, SpawnsIn

\* Only handles that were returned are pending.
LEMMA PendingIssued ==
    ASSUME RecordsOK, HandlesOK
    PROVE  PendingEntities \subseteq issued /\ PendingEntities \subseteq Entities
<1>1. \A s : Within(s, issued) => SpawnsIn(s) \subseteq issued
  BY DEF Within, SpawnsIn
<1>. QED BY <1>1, PendingMember DEF RecordsOK, HandlesOK

\* The slots that are free, and those reserved among them.
LEMMA ListedFacts ==
    ASSUME NEW gn, NEW lv, NEW fr, NEW sc, NEW fc, SlotMapOK(gn, lv, fr, sc, fc)
    PROVE  /\ Listed(fr, fc) \subseteq Idx /\ Cardinality(Listed(fr, fc)) = fc
           /\ \A i \in Listed(fr, fc) : i < sc /\ i \notin lv /\ gn[i] >= 2
           /\ \A p \in 0 .. fc - 1 : p \in Pos /\ fr[p] \in Listed(fr, fc)
<1>1. \A p \in 0 .. fc - 1 : p \in Pos /\ fr[p] \in Idx
  BY IdxFacts DEF SlotMapOK
<1>2. fc \in Nat /\ \A p, q \in 0 .. fc - 1 : fr[p] = fr[q] => p = q
  BY IdxFacts DEF SlotMapOK
<1>3. Cardinality(Listed(fr, fc)) = fc
  <2>1. \A x : x \in Listed(fr, fc) <=> \E p \in 0 .. fc - 1 : x = fr[p]
    BY DEF Listed
  <2>. HIDE DEF Listed
  <2>. QED BY <1>2, <2>1, CountRange
<1>. QED BY <1>1, <1>3 DEF SlotMapOK, Listed

\* The reserved slots are the top of the free list.
LEMMA ReservedFacts ==
    ASSUME SlotMapOK(gen, live, free, slot_count, free_count), reserved_free \in 0 .. free_count
    PROVE  /\ \A n \in 0 .. reserved_free - 1 :
                 /\ free_count - 1 - n \in 0 .. free_count - 1 /\ free_count - 1 - n \in Pos
           /\ ReservedSlots \subseteq Listed(free, free_count)
           /\ IsFiniteSet(ReservedSlots) /\ Cardinality(ReservedSlots) = reserved_free
           /\ \A i \in Listed(free, free_count) :
                 i \in ReservedSlots <=> i \notin Listed(free, free_count - reserved_free)
<1>1. /\ free_count \in Nat /\ free_count <= MaxIdx + 1 /\ reserved_free \in Nat
      /\ reserved_free <= free_count
      /\ \A p, q \in 0 .. free_count - 1 : free[p] = free[q] => p = q
  BY IdxFacts DEF SlotMapOK
<1>2. \A n \in 0 .. reserved_free - 1 :
          free_count - 1 - n \in 0 .. free_count - 1 /\ free_count - 1 - n \in Pos
  BY <1>1, IdxFacts DEF Pos
<1>. DEFINE top == [n \in 0 .. reserved_free - 1 |-> PopNext(n)]
<1>3. \A p, q \in 0 .. reserved_free - 1 : top[p] = top[q] => p = q
  BY <1>1, <1>2 DEF PopNext
<1>4. \A i : i \in ReservedSlots <=> \E n \in 0 .. reserved_free - 1 : i = top[n]
  BY DEF ReservedSlots
<1>5. IsFiniteSet(ReservedSlots) /\ Cardinality(ReservedSlots) = reserved_free
  <2>. HIDE DEF top
  <2>. QED BY <1>1, <1>3, <1>4, CountRange
<1>6. \A i \in Listed(free, free_count) :
         i \in ReservedSlots <=> i \notin Listed(free, free_count - reserved_free)
  <2>. SUFFICES ASSUME NEW p \in 0 .. free_count - 1
                PROVE  free[p] \in ReservedSlots
                           <=> free[p] \notin Listed(free, free_count - reserved_free)
    BY DEF Listed
  <2>1. CASE p >= free_count - reserved_free
    <3>1. free_count - 1 - p \in 0 .. reserved_free - 1
          /\ free_count - 1 - (free_count - 1 - p) = p
      BY <1>1, <2>1
    <3>2. free[p] \in ReservedSlots
      BY <3>1 DEF ReservedSlots, PopNext
    <3>3. \A q \in 0 .. free_count - reserved_free - 1 :
             q \in 0 .. free_count - 1 /\ q # p
      BY <1>1, <2>1
    <3>. QED BY <1>1, <3>2, <3>3 DEF Listed
  <2>2. CASE p < free_count - reserved_free
    <3>1. p \in 0 .. free_count - reserved_free - 1
      BY <1>1, <2>2
    <3>2. \A n \in 0 .. reserved_free - 1 : free_count - 1 - n # p
      BY <1>1, <2>2
    <3>3. free[p] \notin ReservedSlots
      BY <1>1, <1>2, <3>2 DEF ReservedSlots, PopNext
    <3>. QED BY <3>1, <3>3 DEF Listed
  <2>. QED BY <1>1, <2>1, <2>2
<1>. QED BY <1>2, <1>4, <1>5, <1>6 DEF ReservedSlots, PopNext, Listed

-----------------------------------------------------------------------------
\* What the steps of the command window do to the records.

slots == <<gen, live, free, counts, issued, realized, saved>>

\* A verb appends to the chunk of the running system.
LEMMA RecordStep ==
    ASSUME RecordsOK, running \in Chunks, NEW r \in Records, Record(r), todo' = todo,
           issued \subseteq issued', r.e \in issued',
           r.kind = SpawnKind => \A d \in PendingEntities : d.idx # r.e.idx
    PROVE  /\ RecordsOK'
           /\ \A e : e \in PendingEntities' <=>
                        e \in PendingEntities \/ (r.kind = SpawnKind /\ e = r.e)
<1>1. /\ chunks \in [Chunks -> Seq(Records)] /\ chunks[running] \in Seq(Records)
      /\ chunks' = [chunks EXCEPT ![running] = Append(chunks[running], r)]
  BY DEF RecordsOK, Record
<1>2. /\ Append(chunks[running], r) \in Seq(Records)
      /\ \A e : e \in SpawnsIn(Append(chunks[running], r)) <=>
                   e \in SpawnsIn(chunks[running]) \/ (r.kind = SpawnKind /\ e = r.e)
      /\ \A H : Within(chunks[running], H) /\ r.e \in H
                   => Within(Append(chunks[running], r), H)
      /\ Once(chunks[running])
            /\ (r.kind = SpawnKind => \A d \in SpawnsIn(chunks[running]) : d.idx # r.e.idx)
            => Once(Append(chunks[running], r))
  BY <1>1, AppendSpawns
<1>3. /\ chunks' \in [Chunks -> Seq(Records)]
      /\ chunks'[running] = Append(chunks[running], r)
      /\ \A i \in Chunks : i # running => chunks'[i] = chunks[i]
  BY <1>1, <1>2
<1>4. \A s : Within(s, issued) => Within(s, issued')
  BY DEF Within
<1>5. \A i \in Chunks : \A d \in SpawnsIn(chunks[i]) : d \in PendingEntities
  BY PendingMember
<1>6. \A i \in Chunks : \A e :
         e \in SpawnsIn(chunks'[i]) <=>
             e \in SpawnsIn(chunks[i]) \/ (i = running /\ r.kind = SpawnKind /\ e = r.e)
  BY <1>2, <1>3
<1>7. \A e : e \in PendingEntities' <=>
                e \in PendingEntities \/ (r.kind = SpawnKind /\ e = r.e)
  BY <1>6, PendingMember, PendingMemberNext
<1>8. todo' \in Seq(Records) /\ Once(todo') /\ Within(todo', issued')
  BY <1>4 DEF RecordsOK
<1>9. \A i \in Chunks : Once(chunks'[i]) /\ Within(chunks'[i], issued')
  <2>. SUFFICES ASSUME NEW i \in Chunks PROVE Once(chunks'[i]) /\ Within(chunks'[i], issued')
    OBVIOUS
  <2>1. Once(chunks[i]) /\ Within(chunks[i], issued')
    BY <1>4 DEF RecordsOK
  <2>2. CASE i # running
    BY <1>3, <2>1, <2>2
  <2>3. CASE i = running
    <3>1. r.kind = SpawnKind => \A d \in SpawnsIn(chunks[running]) : d.idx # r.e.idx
      BY <1>5
    <3>. QED BY <1>2, <1>3, <2>1, <2>3, <3>1
  <2>. QED BY <2>2, <2>3
<1>10. \A i, j \in Chunks : \A d \in SpawnsIn(chunks'[i]), e \in SpawnsIn(chunks'[j]) :
          d.idx = e.idx => i = j
  <2>1. \A i, j \in Chunks : \A d \in SpawnsIn(chunks[i]), e \in SpawnsIn(chunks[j]) :
           d.idx = e.idx => i = j
    BY DEF RecordsOK
  <2>. QED BY <1>5, <1>6, <2>1
<1>. QED BY <1>3, <1>7, <1>8, <1>9, <1>10 DEF RecordsOK, Once, Within, SpawnsIn

\* apply_commands performs the first record.
LEMMA DoneStep ==
    ASSUME RecordsOK, Settling, todo # <<>>, Done, chunks' = chunks, issued' = issued
    PROVE  /\ RecordsOK'
           /\ Head(todo) \in Records /\ Target \in issued
           /\ Head(todo).kind # SpawnKind => PendingEntities' = PendingEntities
           /\ Head(todo).kind = SpawnKind =>
                 /\ Target \in PendingEntities
                 /\ PendingEntities' = PendingEntities \ {Target}
<1>1. todo \in Seq(Records) /\ Once(todo) /\ Within(todo, issued) /\ todo' = Tail(todo)
  BY DEF RecordsOK, Done
<1>2. /\ Head(todo) \in Records /\ Tail(todo) \in Seq(Records) /\ Once(Tail(todo))
      /\ \A H : Within(todo, H) => Head(todo).e \in H /\ Within(Tail(todo), H)
      /\ Head(todo).kind # SpawnKind =>
            \A e : e \in SpawnsIn(Tail(todo)) <=> e \in SpawnsIn(todo)
      /\ Head(todo).kind = SpawnKind =>
            /\ Head(todo).e \in SpawnsIn(todo)
            /\ \A e : e \in SpawnsIn(Tail(todo)) <=> e \in SpawnsIn(todo) /\ e # Head(todo).e
  BY <1>1, TailSpawns
<1>3. \A e : e \in PendingEntities <=> e \in SpawnsIn(todo)
  BY PendingMember, NoneIn DEF Settling
<1>4. \A e : e \in PendingEntities' <=> e \in SpawnsIn(Tail(todo))
  <2>1. \A i \in Chunks : chunks'[i] = <<>>
    BY DEF Settling
  <2>. QED BY <1>1, <2>1, PendingMemberNext, NoneIn
<1>5. RecordsOK'
  BY <1>1, <1>2 DEF RecordsOK, Once, Within, SpawnsIn
<1>. QED BY <1>1, <1>2, <1>3, <1>4, <1>5 DEF Target

\* A step of one of the fatal exits, or of nothing.
LEMMA SameRecords ==
    ASSUME RecordsOK, chunks' = chunks, todo' = todo, issued' = issued
    PROVE  RecordsOK' /\ PendingEntities' = PendingEntities
BY DEF RecordsOK, Once, Within, SpawnsIn, PendingEntities

\* A step that takes no snapshot keeps what is known of the last one.
LEMMA SameSaved ==
    ASSUME SavedOK, saved' = saved
    PROVE  SavedOK'
BY DEF SavedOK, SlotMapOK, CountsOK, RetiredSlots, Past, Listed

\* What does not move a slot keeps what is known of them.
LEMMA SameSlots ==
    ASSUME SlotsOK, HandlesOK, SavedOK, UNCHANGED slots, PendingEntities' = PendingEntities
    PROVE  SlotsOK' /\ HandlesOK' /\ SavedOK'
<1>1. PendingSlots' = PendingSlots
  BY DEF PendingSlots
<1>2. SlotsOK'
  BY <1>1 DEF SlotsOK, slots, counts, SlotMapOK, CountsOK, RetiredSlots, Listed
<1>3. HandlesOK'
  BY DEF HandlesOK, slots, counts, Past, Listed
<1>4. SavedOK'
  BY SameSaved DEF slots
<1>. QED BY <1>2, <1>3, <1>4

\* Reserving and Settling depend on the slots and the reservations only.
LEMMA SameReserving ==
    ASSUME Reserving, UNCHANGED slots, todo' = todo, UNCHANGED <<pending_fresh, reserved_free>>,
           PendingEntities' = PendingEntities
    PROVE  Reserving'
<1>1. ReservedSlots' = ReservedSlots
  BY DEF ReservedSlots, PopNext, slots, counts
<1>. QED BY <1>1 DEF Reserving, slots, counts

LEMMA SameSettling ==
    ASSUME Settling, UNCHANGED slots, chunks' = chunks, UNCHANGED <<pending_fresh, reserved_free>>,
           PendingEntities' = PendingEntities
    PROVE  Settling'
BY DEF Settling, slots, counts, Listed

-----------------------------------------------------------------------------
\* The verbs.

\* A reservation of a slot that nothing pending has: on the free list, or still to be allocated.
LEMMA ReserveStep ==
    ASSUME SlotInv, Recording, NEW e \in Entities, Reserve(e),
           \A d \in PendingEntities : d.idx # e.idx,
           e.idx \in Listed(free, free_count) \/ e.idx >= slot_count
    PROVE  /\ SlotsOK' /\ RecordsOK' /\ HandlesOK' /\ SavedOK'
           /\ \A d : d \in PendingEntities' <=> d \in PendingEntities \/ d = e
<1>. DEFINE r == [kind |-> SpawnKind, e |-> e]
<1>1. r \in Records /\ r.kind = SpawnKind /\ r.e = e
  BY RecordFacts
<1>2. /\ RecordsOK /\ HandlesOK /\ SlotsOK /\ SavedOK /\ running \in Chunks
  BY DEF SlotInv, ControlOK
<1>3. /\ Record(r) /\ todo' = todo /\ issued' = issued \cup {e}
      /\ UNCHANGED <<gen, live, free, counts, saved, realized>>
  BY DEF Reserve, arenas
<1>. HIDE DEF r
<1>4. /\ RecordsOK'
      /\ \A d : d \in PendingEntities' <=> d \in PendingEntities \/ (r.kind = SpawnKind /\ d = r.e)
  BY <1>1, <1>2, <1>3, RecordStep
<1>5. \A d : d \in PendingEntities' <=> d \in PendingEntities \/ d = e
  BY <1>1, <1>4
<1>6. \A i : i \in PendingSlots' <=> i \in PendingSlots \/ i = e.idx
  BY <1>5 DEF PendingSlots
<1>7. RetiredSlots(live', free', slot_count', free_count', PendingSlots') =
         RetiredSlots(live, free, slot_count, free_count, PendingSlots)
  <2>1. /\ live' = live /\ free' = free /\ slot_count' = slot_count
        /\ free_count' = free_count /\ slot_count \in Nat
    BY <1>2, <1>3, IdxFacts DEF counts, SlotsOK, SlotMapOK
  <2>2. \A i \in Idx : i < slot_count /\ i \notin Listed(free, free_count) => i # e.idx
    BY <2>1, EntityFacts, IdxFacts
  <2>. QED BY <1>6, <2>1, <2>2 DEF RetiredSlots
<1>8. SlotsOK'
  BY <1>2, <1>3, <1>7 DEF SlotsOK, counts, SlotMapOK, CountsOK
<1>9. HandlesOK'
  BY <1>2, <1>3, <1>5 DEF HandlesOK, counts, Past, Listed
<1>10. SavedOK'
  BY <1>2, <1>3, SameSaved
<1>. QED BY <1>4, <1>5, <1>8, <1>9, <1>10

\* The next slot on the free list is nobody's handle yet.
LEMMA NextFreeFacts ==
    ASSUME SlotInv, Recording, reserved_free < free_count
    PROVE  LET e == [idx |-> NextFree, gen |-> gen[NextFree]] IN
           /\ e \in Entities /\ e.idx = NextFree /\ e.gen = gen[NextFree]
           /\ NextFree \in Listed(free, free_count) /\ NextFree \notin ReservedSlots
           /\ e \notin issued
           /\ \A d \in PendingEntities : d.idx # NextFree
<1>. DEFINE i == NextFree
            e == [idx |-> i, gen |-> gen[i]]
<1>1. /\ SlotMapOK(gen, live, free, slot_count, free_count) /\ HandlesOK /\ Reserving /\ RecordsOK
  BY DEF SlotInv, ControlOK, SlotsOK
<1>2. /\ reserved_free \in Nat /\ free_count \in Nat /\ slot_count \in Nat /\ pending_fresh \in Nat
      /\ \A p, q \in 0 .. free_count - 1 : free[p] = free[q] => p = q
      /\ gen \in [Idx -> 0 .. GenMax]
  BY <1>1, IdxFacts DEF SlotMapOK, Reserving
<1>3. free_count - 1 - reserved_free \in 0 .. free_count - 1
  BY <1>2
<1>4. i \in Listed(free, free_count)
  BY <1>3 DEF NextFree, Listed
<1>5. i \in Idx /\ i < slot_count /\ gen[i] >= 2
  BY <1>1, <1>4, ListedFacts
<1>6. i \notin ReservedSlots
  <2>1. \A n \in 0 .. reserved_free - 1 : /\ free_count - 1 - n \in 0 .. free_count - 1
                                          /\ free_count - 1 - n # free_count - 1 - reserved_free
    BY <1>2, <1>3
  <2>. QED BY <1>2, <1>3, <2>1 DEF ReservedSlots, PopNext, NextFree
<1>. HIDE DEF i
<1>7. gen[i] \in 1 .. GenMax
  BY <1>2, <1>5, IdxFacts
<1>8. e \in Entities /\ e.idx = i /\ e.gen = gen[i]
  BY <1>5, <1>7, EntityFacts
<1>. HIDE DEF e
<1>9. PendingEntities \subseteq Entities
  BY <1>1, PendingIssued
<1>10. \A d \in PendingEntities : d.idx # i
  BY <1>1, <1>2, <1>5, <1>6, <1>9 DEF Reserving
<1>11. e \notin issued
  BY <1>1, <1>4, <1>8, <1>10 DEF HandlesOK, Past
<1>. QED BY <1>4, <1>6, <1>8, <1>10, <1>11 DEF i, e

LEMMA SpawnReusedInv == SlotInv /\ SpawnReused => SlotInv'
<1>. SUFFICES ASSUME SlotInv, SpawnReused PROVE SlotInv'
  OBVIOUS
<1>. DEFINE i == NextFree
            e == [idx |-> i, gen |-> gen[i]]
<1>1. /\ Recording /\ pc = "record" /\ reserved_free < free_count /\ Reserve(e)
      /\ reserved_free' = reserved_free + 1 /\ pending_fresh' = pending_fresh
  BY DEF SpawnReused, CanRecord, Recording
<1>2. /\ e \in Entities /\ e.idx = i /\ e.gen = gen[i]
      /\ i \in Listed(free, free_count) /\ i \notin ReservedSlots
      /\ \A d \in PendingEntities : d.idx # i
  BY <1>1, NextFreeFacts
<1>3. i = PopNext(reserved_free)
  BY DEF NextFree, PopNext
<1>. HIDE DEF i, e
<1>4. /\ SlotsOK' /\ RecordsOK' /\ HandlesOK' /\ SavedOK'
      /\ \A d : d \in PendingEntities' <=> d \in PendingEntities \/ d = e
  BY <1>1, <1>2, ReserveStep
<1>5. Reserving /\ ControlOK /\ SlotMapOK(gen, live, free, slot_count, free_count)
  BY <1>1 DEF SlotInv, ControlOK, SlotsOK
<1>6. UNCHANGED <<gen, free, free_count, slot_count, window_popped, running, todo, pc>>
  BY <1>1 DEF Reserve, arenas, counts
<1>7. \A j : j \in ReservedSlots' <=> j \in ReservedSlots \/ j = i
  <2>1. reserved_free \in Nat
    BY <1>5, IdxFacts DEF Reserving, SlotMapOK
  <2>2. \A n : n \in 0 .. reserved_free' - 1 <=> n \in 0 .. reserved_free - 1 \/ n = reserved_free
    BY <1>1, <2>1
  <2>3. \A n : free'[free_count' - 1 - n] = PopNext(n)
    BY <1>6 DEF PopNext
  <2>. QED BY <1>3, <2>2, <2>3 DEF ReservedSlots, PopNext
<1>8. Reserving'
  <2>1. todo' = <<>> /\ reserved_free' \in 0 .. free_count' /\ pending_fresh' \in Nat
        /\ slot_count' + pending_fresh' <= MaxIdx + 1
    BY <1>1, <1>5, <1>6, IdxFacts DEF Reserving, SlotMapOK
  <2>2. ASSUME NEW d \in Entities
        PROVE  d \in PendingEntities' <=>
                   \/ d.idx \in ReservedSlots' /\ d.gen = gen'[d.idx]
                   \/ d.idx \in slot_count' .. slot_count' + pending_fresh' - 1 /\ d.gen = 1
    <3>1. d \in PendingEntities <=>
                   \/ d.idx \in ReservedSlots /\ d.gen = gen[d.idx]
                   \/ d.idx \in slot_count .. slot_count + pending_fresh - 1 /\ d.gen = 1
      BY <1>5 DEF Reserving
    <3>2. d = e <=> d.idx = i /\ d.gen = gen[d.idx]
      BY <1>2, EntityFacts
    <3>. QED BY <1>1, <1>4, <1>6, <1>7, <3>1, <3>2
  <2>. QED BY <2>1, <2>2 DEF Reserving
<1>9. ControlOK'
  BY <1>1, <1>5, <1>6, <1>8 DEF ControlOK, Recording, OnlyRecentDestroyIsFatal
<1>. QED BY <1>4, <1>9 DEF SlotInv

\* So is the slot after the last one allocated or promised.
LEMMA FreshFacts ==
    ASSUME SlotInv, Recording, reserved_free >= free_count, slot_count + pending_fresh <= MaxIdx
    PROVE  LET e == [idx |-> slot_count + pending_fresh, gen |-> 1] IN
           /\ e \in Entities /\ e.idx = slot_count + pending_fresh /\ e.gen = 1
           /\ e.idx >= slot_count /\ e \notin issued
           /\ \A d \in PendingEntities : d.idx # e.idx
<1>. DEFINE i == slot_count + pending_fresh
            e == [idx |-> i, gen |-> 1]
<1>1. /\ SlotMapOK(gen, live, free, slot_count, free_count) /\ HandlesOK /\ Reserving /\ RecordsOK
  BY DEF SlotInv, ControlOK, SlotsOK
<1>2. reserved_free \in 0 .. free_count /\ free_count \in Nat /\ slot_count \in Nat /\ pending_fresh \in Nat
  BY <1>1, IdxFacts DEF SlotMapOK, Reserving
<1>3. i \in Idx /\ i >= slot_count
  BY <1>2, IdxFacts
<1>4. e \in Entities /\ e.idx = i /\ e.gen = 1
  BY <1>3, IdxFacts, EntityFacts
<1>5. PendingEntities \subseteq Entities
  BY <1>1, PendingIssued
<1>6. \A j \in ReservedSlots : j < slot_count
  BY <1>1, <1>2, ReservedFacts, ListedFacts
<1>. HIDE DEF e
<1>7. \A d \in PendingEntities : d.idx # i
  BY <1>1, <1>2, <1>5, <1>6 DEF Reserving
<1>8. e \notin issued
  BY <1>1, <1>2, <1>4, <1>7 DEF HandlesOK, Past
<1>. QED BY <1>3, <1>4, <1>7, <1>8 DEF e

LEMMA SpawnFreshInv == SlotInv /\ SpawnFresh => SlotInv'
<1>. SUFFICES ASSUME SlotInv, SpawnFresh PROVE SlotInv'
  OBVIOUS
<1>. DEFINE i == slot_count + pending_fresh
            e == [idx |-> i, gen |-> 1]
<1>1. /\ Recording /\ pc = "record" /\ reserved_free >= free_count /\ Reserve(e)
      /\ slot_count + pending_fresh <= MaxIdx
      /\ reserved_free' = reserved_free /\ pending_fresh' = pending_fresh + 1
  BY DEF SpawnFresh, CanRecord, Recording
<1>2. /\ e \in Entities /\ e.idx = i /\ e.gen = 1 /\ e.idx >= slot_count
      /\ \A d \in PendingEntities : d.idx # e.idx
  BY <1>1, FreshFacts
<1>. HIDE DEF e
<1>4. /\ SlotsOK' /\ RecordsOK' /\ HandlesOK' /\ SavedOK'
      /\ \A d : d \in PendingEntities' <=> d \in PendingEntities \/ d = e
  BY <1>1, <1>2, ReserveStep
<1>5. Reserving /\ ControlOK /\ SlotMapOK(gen, live, free, slot_count, free_count)
  BY <1>1 DEF SlotInv, ControlOK, SlotsOK
<1>6. UNCHANGED <<gen, free, free_count, slot_count, window_popped, running, todo, pc>>
  BY <1>1 DEF Reserve, arenas, counts
<1>7. ReservedSlots' = ReservedSlots
  BY <1>1, <1>6 DEF ReservedSlots, PopNext
<1>8. Reserving'
  <2>1. todo' = <<>> /\ reserved_free' \in 0 .. free_count' /\ pending_fresh' \in Nat
        /\ slot_count' + pending_fresh' <= MaxIdx + 1
    BY <1>1, <1>5, <1>6, IdxFacts DEF Reserving, SlotMapOK
  <2>2. ASSUME NEW d \in Entities
        PROVE  d \in PendingEntities' <=>
                   \/ d.idx \in ReservedSlots' /\ d.gen = gen'[d.idx]
                   \/ d.idx \in slot_count' .. slot_count' + pending_fresh' - 1 /\ d.gen = 1
    <3>1. d \in PendingEntities <=>
                   \/ d.idx \in ReservedSlots /\ d.gen = gen[d.idx]
                   \/ d.idx \in slot_count .. slot_count + pending_fresh - 1 /\ d.gen = 1
      BY <1>5 DEF Reserving
    <3>2. d = e <=> d.idx = i /\ d.gen = 1
      BY <1>2, EntityFacts
    <3>3. /\ slot_count \in Nat /\ pending_fresh \in Nat
          /\ d.idx \in slot_count' .. slot_count' + pending_fresh' - 1 <=>
                d.idx \in slot_count .. slot_count + pending_fresh - 1 \/ d.idx = i
      <4>1. slot_count \in Nat /\ pending_fresh \in Nat /\ d.idx \in Nat
        BY <1>5, IdxFacts, EntityFacts DEF Reserving, SlotMapOK
      <4>2. slot_count' = slot_count /\ pending_fresh' = pending_fresh + 1
        BY <1>1, <1>6
      <4>. QED BY <4>1, <4>2
    <3>. QED BY <1>4, <1>6, <1>7, <3>1, <3>2, <3>3
  <2>. QED BY <2>1, <2>2 DEF Reserving
<1>9. ControlOK'
  BY <1>1, <1>5, <1>6, <1>8 DEF ControlOK, Recording, OnlyRecentDestroyIsFatal
<1>. QED BY <1>4, <1>9 DEF SlotInv

LEMMA SpawnExhaustedInv == SlotInv /\ SpawnExhausted => SlotInv'
<1>. SUFFICES ASSUME SlotInv, SpawnExhausted PROVE SlotInv'
  OBVIOUS
<1>1. /\ pc = "record" /\ pc' = "domain exhausted" /\ UNCHANGED slots
      /\ UNCHANGED <<chunks, todo, window_popped, running, pending_fresh, reserved_free>>
  BY DEF SpawnExhausted, CanRecord, slots, arenas, counts, window, history
<1>2. /\ RecordsOK /\ HandlesOK /\ SlotsOK /\ SavedOK /\ ControlOK /\ Reserving
  BY <1>1 DEF SlotInv, ControlOK, Recording
<1>3. RecordsOK' /\ PendingEntities' = PendingEntities
  BY <1>1, <1>2, SameRecords DEF slots
<1>4. SlotsOK' /\ HandlesOK' /\ SavedOK' /\ Reserving'
  BY <1>1, <1>2, <1>3, SameSlots, SameReserving
<1>5. ControlOK'
  BY <1>1, <1>2, <1>4 DEF ControlOK, Recording, Fatal, OnlyRecentDestroyIsFatal
<1>. QED BY <1>3, <1>4, <1>5 DEF SlotInv

LEMMA RecordVerbInv ==
    ASSUME SlotInv, NEW r \in Records, RecordVerb(r)
    PROVE  SlotInv'
<1>1. /\ pc = "record" /\ pc' = pc /\ UNCHANGED slots /\ r.kind # SpawnKind /\ r.e \in issued
      /\ Record(r)
      /\ UNCHANGED <<todo, window_popped, running, pending_fresh, reserved_free>>
  BY DEF RecordVerb, CanRecord, slots, arenas, counts, history
<1>2. /\ RecordsOK /\ HandlesOK /\ SlotsOK /\ SavedOK /\ ControlOK /\ Reserving
      /\ running \in Chunks
  BY <1>1 DEF SlotInv, ControlOK, Recording
<1>3. /\ RecordsOK'
      /\ \A e : e \in PendingEntities' <=> e \in PendingEntities \/ (r.kind = SpawnKind /\ e = r.e)
  <2>1. issued \subseteq issued' /\ r.e \in issued'
    BY <1>1 DEF slots
  <2>. QED BY <1>1, <1>2, <2>1, RecordStep
<1>4. PendingEntities' = PendingEntities
  BY <1>1, <1>3
<1>5. SlotsOK' /\ HandlesOK' /\ SavedOK' /\ Reserving'
  BY <1>1, <1>2, <1>4, SameSlots, SameReserving
<1>6. ControlOK'
  BY <1>1, <1>2, <1>5 DEF ControlOK, Recording, OnlyRecentDestroyIsFatal
<1>. QED BY <1>3, <1>5, <1>6 DEF SlotInv

LEMMA NextSystemInv == SlotInv /\ NextSystem => SlotInv'
<1>. SUFFICES ASSUME SlotInv, NextSystem PROVE SlotInv'
  OBVIOUS
<1>1. /\ pc = "record" /\ pc' = pc /\ UNCHANGED slots
      /\ running # Systems /\ running' = IF running = External THEN 1 ELSE running + 1
      /\ UNCHANGED <<chunks, todo, window_popped, pending_fresh, reserved_free>>
  BY DEF NextSystem, slots, arenas, counts, window, history
<1>2. /\ RecordsOK /\ HandlesOK /\ SlotsOK /\ SavedOK /\ ControlOK /\ Reserving
      /\ running \in Chunks
  BY <1>1 DEF SlotInv, ControlOK, Recording
<1>3. RecordsOK' /\ PendingEntities' = PendingEntities
  BY <1>1, <1>2, SameRecords DEF slots
<1>4. SlotsOK' /\ HandlesOK' /\ SavedOK' /\ Reserving'
  BY <1>1, <1>2, <1>3, SameSlots, SameReserving
<1>5. running' \in Chunks
  BY <1>1, <1>2, ChunkFacts
<1>6. ControlOK'
  BY <1>1, <1>2, <1>4, <1>5 DEF ControlOK, Recording, OnlyRecentDestroyIsFatal
<1>. QED BY <1>3, <1>4, <1>6 DEF SlotInv

-----------------------------------------------------------------------------
\* apply_commands: taking the window over, and the realizes.

\* The reservations leave the free list; no handle is gained or lost.
LEMMA BeginRecords ==
    ASSUME SlotInv, ApplyBegin
    PROVE  RecordsOK' /\ PendingEntities' = PendingEntities
<1>1. /\ RecordsOK /\ HandlesOK /\ Reserving
      /\ todo' = FlattenSeq(chunks) /\ chunks' = [i \in Chunks |-> <<>>] /\ issued' = issued
  BY DEF SlotInv, ControlOK, Recording, ApplyBegin, history
<1>2. Chunks = 1 .. External /\ External \in Nat \ {0}
  BY ChunkFacts
<1>3. RunOK(Records, issued, chunks, FlattenSeq(chunks), External)
  BY <1>1, <1>2, FlattenSpawns DEF RecordsOK
<1>4. /\ todo' \in Seq(Records) /\ Once(todo') /\ Within(todo', issued')
      /\ \A e : e \in SpawnsIn(todo') <=> \E i \in Chunks : e \in SpawnsIn(chunks[i])
  BY <1>1, <1>2, <1>3 DEF RunOK
<1>5. /\ chunks' \in [Chunks -> Seq(Records)] /\ \A i \in Chunks : chunks'[i] = <<>>
  BY <1>1
<1>6. \A i \in Chunks : /\ SpawnsIn(chunks'[i]) = {}
                        /\ Once(chunks'[i]) /\ Within(chunks'[i], issued')
  BY <1>5, NoneIn
<1>7. RecordsOK'
  BY <1>4, <1>5, <1>6 DEF RecordsOK, Once, Within, SpawnsIn
<1>8. SpawnsIn(todo) = {}
  BY <1>1, NoneIn DEF Reserving
<1>9. \A e : e \in PendingEntities' <=> e \in PendingEntities
  BY <1>4, <1>6, <1>8, PendingMember, PendingMemberNext
<1>. QED BY <1>7, <1>9

\* The fresh reservations are the pending handles of generation 1.
LEMMA FreshCount ==
    ASSUME SlotsOK, HandlesOK, RecordsOK, Reserving
    PROVE  pending_fresh = Cardinality({e \in PendingEntities : e.gen = 1})
<1>. DEFINE f == [n \in 0 .. pending_fresh - 1 |-> [idx |-> slot_count + n, gen |-> 1]]
            T == {e \in PendingEntities : e.gen = 1}
<1>1. /\ pending_fresh \in Nat /\ slot_count \in Nat /\ MaxIdx \in Nat
      /\ slot_count + pending_fresh <= MaxIdx + 1 /\ reserved_free \in 0 .. free_count
  BY IdxFacts DEF Reserving, SlotsOK, SlotMapOK
<1>2. \A p, q \in 0 .. pending_fresh - 1 : f[p] = f[q] => p = q
  BY <1>1
<1>3. PendingEntities \subseteq Entities
  BY PendingIssued
<1>4. \A e \in PendingEntities : e.gen = 1 => e.idx \in slot_count .. slot_count + pending_fresh - 1
  <2>1. \A i \in ReservedSlots : gen[i] >= 2
    BY <1>1, ReservedFacts, ListedFacts DEF SlotsOK
  <2>. QED BY <1>3, <2>1 DEF Reserving
<1>5. \A x : x \in T <=> \E n \in 0 .. pending_fresh - 1 : x = f[n]
  <2>1. ASSUME NEW x \in T PROVE \E n \in 0 .. pending_fresh - 1 : x = f[n]
    <3>1. x \in Entities /\ x.gen = 1 /\ x.idx \in slot_count .. slot_count + pending_fresh - 1
      BY <1>3, <1>4
    <3>2. x.idx - slot_count \in 0 .. pending_fresh - 1 /\ slot_count + (x.idx - slot_count) = x.idx
      BY <1>1, <3>1
    <3>3. x = [idx |-> x.idx, gen |-> 1]
      BY <3>1 DEF Entities
    <3>. QED BY <3>2, <3>3
  <2>2. ASSUME NEW n \in 0 .. pending_fresh - 1 PROVE f[n] \in T
    <3>1. f[n] = [idx |-> slot_count + n, gen |-> 1] /\ slot_count + n \in Idx
          /\ slot_count + n \in slot_count .. slot_count + pending_fresh - 1
      BY <1>1, IdxFacts
    <3>2. f[n] \in Entities /\ f[n].gen = 1 /\ f[n].idx = slot_count + n
      BY <3>1, IdxFacts, EntityFacts
    <3>. HIDE DEF f
    <3>. QED BY <3>1, <3>2 DEF Reserving
  <2>. QED BY <2>1, <2>2
<1>. HIDE DEF f, T
<1>6. Cardinality(T) = pending_fresh
  BY <1>1, <1>2, <1>5, CountRange
<1>. QED BY <1>6 DEF T

LEMMA ApplyBeginInv == SlotInv /\ ApplyBegin => SlotInv'
<1>. SUFFICES ASSUME SlotInv, ApplyBegin PROVE SlotInv'
  OBVIOUS
<1>1. /\ Recording /\ pc = "record" /\ pc' = "apply"
      /\ free_count' = free_count - reserved_free /\ reserved_free' = 0
      /\ window_popped' = ReservedSlots
      /\ \A i \in Chunks : chunks'[i] = <<>>
      /\ running' \in {running, External}
      /\ UNCHANGED <<gen, live, free, slot_count, live_count, quarantined, pending_fresh, saved,
                     issued, realized>>
  BY DEF ApplyBegin, Recording, arenas, history, ReservedSlots, PopNext
<1>2. /\ RecordsOK /\ HandlesOK /\ SlotsOK /\ SavedOK /\ ControlOK /\ Reserving
      /\ SlotMapOK(gen, live, free, slot_count, free_count)
      /\ CountsOK(gen, live, free, slot_count, live_count, quarantined, free_count, PendingSlots)
      /\ reserved_free \in 0 .. free_count /\ reserved_free \in Nat /\ free_count \in Nat
      /\ slot_count \in Nat /\ pending_fresh \in Nat /\ gen \in [Idx -> 0 .. GenMax]
      /\ free_count <= MaxIdx + 1
  BY <1>1, IdxFacts DEF SlotInv, ControlOK, SlotsOK, Reserving, SlotMapOK
<1>3. RecordsOK' /\ PendingEntities' = PendingEntities
  BY BeginRecords
<1>4. PendingSlots' = PendingSlots /\ PendingEntities \subseteq Entities
  BY <1>2, <1>3, PendingIssued DEF PendingSlots
<1>. DEFINE now == Listed(free, free_count)
            next == Listed(free, free_count - reserved_free)
<1>5. /\ next \subseteq now /\ ReservedSlots \subseteq now
      /\ \A i \in now : i \in ReservedSlots <=> i \notin next
  <2>1. next \subseteq now
    BY <1>2 DEF Listed
  <2>. QED BY <1>2, <2>1, ReservedFacts
<1>6. \A i \in now : i \in Idx /\ i < slot_count /\ i \notin live /\ gen[i] >= 2
  BY <1>2, ListedFacts
<1>. HIDE DEF now, next
<1>7. \A i \in ReservedSlots : i \in PendingSlots
  <2>. SUFFICES ASSUME NEW i \in ReservedSlots PROVE i \in PendingSlots
    OBVIOUS
  <2>1. i \in Idx /\ gen[i] \in 1 .. GenMax
    BY <1>2, <1>5, <1>6, IdxFacts
  <2>2. [idx |-> i, gen |-> gen[i]] \in Entities
    BY <2>1, EntityFacts
  <2>3. [idx |-> i, gen |-> gen[i]] \in PendingEntities
    BY <1>2, <2>2 DEF Reserving
  <2>. QED BY <2>3 DEF PendingSlots
<1>8. RetiredSlots(live, free, slot_count, free_count - reserved_free, PendingSlots) =
         RetiredSlots(live, free, slot_count, free_count, PendingSlots)
  BY <1>5, <1>7 DEF RetiredSlots, now, next
<1>9. SlotMapOK(gen, live, free, slot_count, free_count - reserved_free)
  <2>1. /\ free_count - reserved_free \in 0 .. MaxIdx + 1
        /\ \A p \in 0 .. free_count - reserved_free - 1 : p \in 0 .. free_count - 1
    BY <1>2, IdxFacts
  <2>. QED BY <1>2, <2>1 DEF SlotMapOK
<1>10. SlotsOK'
  BY <1>1, <1>2, <1>4, <1>8, <1>9 DEF SlotsOK, SlotMapOK, CountsOK
<1>11. HandlesOK'
  <2>1. \A e : Past(e, gen, free, slot_count, free_count) =>
               Past(e, gen, free, slot_count, free_count - reserved_free)
    BY <1>5 DEF Past, now, next
  <2>. QED BY <1>1, <1>2, <1>3, <2>1 DEF HandlesOK, Past
<1>12. SavedOK'
  BY <1>1, <1>2, SameSaved
<1>13. Settling'
  <2>1. pending_fresh = Cardinality({e \in PendingEntities : e.gen = 1})
    BY <1>2, FreshCount
  <2>2. ASSUME NEW e \in PendingEntities
        PROVE  /\ e.idx \notin live /\ e.idx \notin next
               /\ e.idx < slot_count => gen[e.idx] = e.gen
               /\ e.idx >= slot_count =>
                     /\ e.gen = 1
                     /\ \A j \in slot_count .. e.idx : [idx |-> j, gen |-> 1] \in PendingEntities
    <3>1. e \in Entities
      BY <1>4
    <3>2. CASE e.idx \in ReservedSlots /\ e.gen = gen[e.idx]
      BY <1>2, <1>5, <1>6, <3>2, IdxFacts
    <3>3. CASE e.idx \in slot_count .. slot_count + pending_fresh - 1 /\ e.gen = 1
      <4>1. e.idx \notin live /\ e.idx \notin next /\ e.idx >= slot_count
        BY <1>2, <1>5, <1>6, <3>3, IdxFacts DEF SlotMapOK
      <4>2. \A j \in slot_count .. e.idx : [idx |-> j, gen |-> 1] \in PendingEntities
        <5>. SUFFICES ASSUME NEW j \in slot_count .. e.idx
                      PROVE  [idx |-> j, gen |-> 1] \in PendingEntities
          OBVIOUS
        <5>1. j \in Idx /\ j \in slot_count .. slot_count + pending_fresh - 1
          BY <1>2, <3>1, <3>3, IdxFacts, EntityFacts
        <5>2. [idx |-> j, gen |-> 1] \in Entities
          BY <5>1, IdxFacts, EntityFacts
        <5>. QED BY <1>2, <5>1, <5>2 DEF Reserving
      <4>3. ~(e.idx < slot_count)
        BY <1>2, <3>3
      <4>. QED BY <3>3, <4>1, <4>2, <4>3
    <3>. QED BY <1>2, <3>1, <3>2, <3>3 DEF Reserving
  <2>3. Listed(free, free_count)' = next
    BY <1>1 DEF Listed, next
  <2>. QED BY <1>1, <1>3, <2>1, <2>2, <2>3 DEF Settling
<1>14. ControlOK'
  <2>1. ReservedSlots \subseteq Idx
    BY <1>5, <1>6
  <2>. QED BY <1>1, <1>2, <1>13, <2>1, ChunkFacts
           DEF ControlOK, Recording, Fatal, OnlyRecentDestroyIsFatal
<1>. QED BY <1>3, <1>10, <1>11, <1>12, <1>14 DEF SlotInv

\* The handle of a realize at the head of todo is pending.
LEMMA HeadPending ==
    ASSUME RecordsOK, todo # <<>>, Head(todo).kind = SpawnKind
    PROVE  Target \in PendingEntities
<1>1. Head(todo).e \in SpawnsIn(todo)
  BY TailSpawns DEF RecordsOK
<1>. QED BY <1>1, PendingMember DEF Target

\* Two pending handles are not of one slot.
LEMMA PendingApart ==
    ASSUME Settling, SlotsOK, HandlesOK, RecordsOK
    PROVE  \A d, e \in PendingEntities : d.idx = e.idx => d = e
<1>1. PendingEntities \subseteq Entities /\ slot_count \in Nat
  BY PendingIssued, IdxFacts DEF SlotsOK, SlotMapOK
<1>. SUFFICES ASSUME NEW d \in PendingEntities, NEW e \in PendingEntities, d.idx = e.idx
              PROVE  d = e
  OBVIOUS
<1>2. d.idx \in Nat
  BY <1>1, EntityFacts, IdxFacts
<1>3. d.gen = e.gen
  BY <1>1, <1>2 DEF Settling
<1>. QED BY <1>1, <1>3, EntityFacts

\* There are finitely many of them.
LEMMA FreshFinite ==
    ASSUME Settling, SlotsOK, HandlesOK, RecordsOK
    PROVE  IsFiniteSet({e \in PendingEntities : e.gen = 1}) /\ pending_fresh \in Nat
<1>. DEFINE S == {e \in PendingEntities : e.gen = 1}
            f == [e \in S |-> e.idx]
<1>1. PendingEntities \subseteq Entities
  BY PendingIssued
<1>2. f \in [S -> Idx]
  BY <1>1, EntityFacts
<1>3. \A d, e \in S : f[d] = f[e] => d = e
  BY PendingApart
<1>. HIDE DEF S, f
<1>4. f \in Injection(S, Idx)
  BY <1>2, <1>3, Fun_IsInj
<1>5. IsFiniteSet(S)
  BY <1>4, IdxFacts, FS_Injection
<1>6. pending_fresh = Cardinality(S)
  BY DEF Settling, S
<1>7. Cardinality(S) \in Nat
  BY <1>5, FS_CardinalityType
<1>. QED BY <1>5, <1>6, <1>7 DEF S

\* A realize finds its slot as the reservation left it.
LEMMA SpawnSucceeds ==
    ASSUME SlotInv, ApplySpawn
    PROVE  /\ Target \in PendingEntities /\ Target \in Entities /\ Done
           /\ slot_count' \in Nat /\ slot_count <= slot_count' /\ slot_count' <= MaxIdx + 1
           /\ Target.idx < slot_count'
           /\ slot_count' = slot_count \/ (slot_count' = Target.idx + 1 /\ slot_count <= Target.idx)
           /\ gen' \in [Idx -> 0 .. GenMax] /\ gen'[Target.idx] = Target.gen
           /\ \A i \in Idx : /\ i < slot_count \/ i >= slot_count' => gen'[i] = gen[i]
                             /\ i >= slot_count /\ i < slot_count' => gen'[i] = 1
           /\ Target.idx \notin live /\ Target.idx \notin Listed(free, free_count)
           /\ live' = live \cup {Target.idx} /\ live_count' = live_count + 1
           /\ pending_fresh' = IF Target.gen = 1 THEN pending_fresh - 1 ELSE pending_fresh
           /\ realized' = realized \cup {Target} /\ pc' = pc
<1>1. /\ RecordsOK /\ HandlesOK /\ SlotsOK /\ Settling /\ todo # <<>> /\ Head(todo).kind = SpawnKind
      /\ SlotMapOK(gen, live, free, slot_count, free_count)
  BY DEF SlotInv, ControlOK, SlotsOK, ApplySpawn, Applying, Recording
<1>2. Target \in PendingEntities /\ Target \in Entities
  BY <1>1, HeadPending, PendingIssued
<1>3. /\ slot_count \in Nat /\ slot_count <= MaxIdx + 1 /\ MaxIdx \in Nat
      /\ Target.idx \in Nat /\ Target.idx <= MaxIdx /\ Target.idx \in Idx /\ Target.gen \in 1 .. GenMax
      /\ gen \in [Idx -> 0 .. GenMax]
  BY <1>1, <1>2, IdxFacts, EntityFacts DEF SlotMapOK
<1>4. slot_count' = Allocated(Target)
  BY DEF ApplySpawn
<1>5. /\ slot_count' \in Nat /\ slot_count <= slot_count' /\ slot_count' <= MaxIdx + 1
      /\ Target.idx < slot_count'
      /\ slot_count' = slot_count \/ (slot_count' = Target.idx + 1 /\ slot_count <= Target.idx)
  BY <1>1, <1>2, <1>3, <1>4 DEF Settling, Allocated
<1>6. gen' = [i \in Idx |-> IF i \in slot_count .. slot_count' - 1 THEN 1 ELSE gen[i]]
  BY DEF ApplySpawn
<1>7. /\ gen' \in [Idx -> 0 .. GenMax]
      /\ \A i \in Idx : /\ i < slot_count \/ i >= slot_count' => gen'[i] = gen[i]
                        /\ i >= slot_count /\ i < slot_count' => gen'[i] = 1
  <2>1. \A i \in Idx : i \in slot_count .. slot_count' - 1 <=> i >= slot_count /\ i < slot_count'
    BY <1>3, <1>5, IdxFacts
  <2>2. 1 \in 0 .. GenMax
    BY IdxFacts
  <2>3. \A i \in Idx : gen'[i] = IF i >= slot_count /\ i < slot_count' THEN 1 ELSE gen[i]
    BY <1>6, <2>1
  <2>4. gen' \in [Idx -> 0 .. GenMax]
    BY <1>3, <1>6, <2>2
  <2>5. \A i \in Idx : ~((i < slot_count \/ i >= slot_count') /\ i >= slot_count /\ i < slot_count')
    BY <1>3, <1>5, IdxFacts
  <2>. QED BY <2>3, <2>4, <2>5
<1>8. gen'[Target.idx] = Target.gen
  <2>1. CASE Target.idx < slot_count
    BY <1>1, <1>2, <1>3, <1>7, <2>1 DEF Settling
  <2>2. CASE Target.idx >= slot_count
    BY <1>1, <1>2, <1>3, <1>5, <1>7, <2>2 DEF Settling
  <2>. QED BY <1>3, <2>1, <2>2
<1>9. Target.idx \notin live /\ Target.idx \notin Listed(free, free_count)
  BY <1>1, <1>2 DEF Settling
<1>10. Target.gen = 1 => pending_fresh > 0
  <2>. SUFFICES ASSUME Target.gen = 1 PROVE pending_fresh > 0
    OBVIOUS
  <2>1. Target \in {e \in PendingEntities : e.gen = 1}
    BY <1>2
  <2>2. Cardinality({e \in PendingEntities : e.gen = 1}) # 0
    BY <1>1, <2>1, FreshFinite, FS_EmptySet
  <2>3. pending_fresh # 0 /\ pending_fresh \in Nat
    BY <1>1, <2>2, FreshFinite DEF Settling
  <2>. QED BY <2>3
<1>. QED BY <1>2, <1>5, <1>7, <1>8, <1>9, <1>10 DEF ApplySpawn

LEMMA ApplySpawnInv == SlotInv /\ ApplySpawn => SlotInv'
<1>. SUFFICES ASSUME SlotInv, ApplySpawn PROVE SlotInv'
  OBVIOUS
<1>. DEFINE T == Target
            i0 == T.idx
            sc2 == slot_count'
            listed == Listed(free, free_count)
<1>1. /\ T \in PendingEntities /\ T \in Entities /\ Done
      /\ sc2 \in Nat /\ slot_count <= sc2 /\ sc2 <= MaxIdx + 1 /\ i0 < sc2
      /\ sc2 = slot_count \/ (sc2 = i0 + 1 /\ slot_count <= i0)
      /\ gen' \in [Idx -> 0 .. GenMax] /\ gen'[i0] = T.gen
      /\ \A i \in Idx : /\ i < slot_count \/ i >= sc2 => gen'[i] = gen[i]
                        /\ i >= slot_count /\ i < sc2 => gen'[i] = 1
      /\ i0 \notin live /\ i0 \notin listed
      /\ live' = live \cup {i0} /\ live_count' = live_count + 1
      /\ pending_fresh' = IF T.gen = 1 THEN pending_fresh - 1 ELSE pending_fresh
      /\ realized' = realized \cup {T} /\ pc' = pc
  BY SpawnSucceeds
<1>2. /\ pc = "apply" /\ todo # <<>> /\ Head(todo).kind = SpawnKind
      /\ UNCHANGED <<free, quarantined, free_count, reserved_free, window_popped, chunks, running,
                     saved, issued>>
  BY DEF ApplySpawn, Applying
<1>3. /\ RecordsOK /\ HandlesOK /\ SlotsOK /\ SavedOK /\ ControlOK /\ Settling
      /\ SlotMapOK(gen, live, free, slot_count, free_count)
      /\ CountsOK(gen, live, free, slot_count, live_count, quarantined, free_count, PendingSlots)
      /\ slot_count \in Nat /\ free_count \in Nat /\ i0 \in Nat /\ i0 \in Idx
      /\ PendingEntities \subseteq Entities /\ live \subseteq Idx /\ T \in issued
  BY <1>1, <1>2, IdxFacts, EntityFacts, PendingIssued, SMTT(40)
     DEF SlotInv, ControlOK, SlotsOK, SlotMapOK, Recording
<1>4. RecordsOK' /\ PendingEntities' = PendingEntities \ {T}
  BY <1>1, <1>2, <1>3, DoneStep
<1>. HIDE DEF sc2
<1>5. \A e \in PendingEntities : e # T => e.idx # i0
  BY <1>1, <1>3, PendingApart
<1>. HIDE DEF T, i0
<1>6. /\ i0 \in PendingSlots
      /\ \A i : i # i0 => (i \in PendingSlots <=> i \in PendingSlots')
  BY <1>1, <1>4, <1>5 DEF PendingSlots, i0
<1>7. \A i \in Idx : i \in Nat /\ (i >= slot_count /\ i < sc2 /\ i # i0 => i \in PendingSlots)
  <2>. SUFFICES ASSUME NEW i \in Idx, i >= slot_count, i < sc2, i # i0
                PROVE  i \in PendingSlots
    BY IdxFacts
  <2>1. i \in slot_count .. i0 /\ i0 >= slot_count
    BY <1>1, <1>3, IdxFacts
  <2>2. [idx |-> i, gen |-> 1] \in PendingEntities
    BY <1>1, <1>3, <2>1 DEF Settling, i0
  <2>. QED BY <2>2 DEF PendingSlots
<1>8. \A i \in listed : i \in Idx /\ i < slot_count /\ i # i0
  BY <1>1, <1>3, ListedFacts
<1>9. Listed(free', free_count') = listed
  BY <1>2
<1>10. RetiredSlots(live', free', sc2, free_count', PendingSlots') =
         RetiredSlots(live, free, slot_count, free_count, PendingSlots)
  <2>1. \A i \in Idx : i < slot_count => i < sc2
    BY <1>1, <1>3, IdxFacts
  <2>2. \A i \in Idx : i < sc2 => i < slot_count \/ (i >= slot_count /\ i < sc2)
    BY <1>1, <1>3, IdxFacts
  <2>. QED BY <1>1, <1>6, <1>7, <1>9, <2>1, <2>2 DEF RetiredSlots
<1>11. live_count' = Cardinality(live')
  <2>1. IsFiniteSet(live) /\ Cardinality(live) \in Nat
    <3>1. live \subseteq Idx
      BY <1>3
    <3>. QED BY <3>1, SubIdx
  <2>. QED BY <1>1, <1>3, <2>1, FS_AddElement DEF CountsOK
<1>12. SlotMapOK(gen', live', free', sc2, free_count')
  <2>1. live' \subseteq Idx /\ sc2 \in 0 .. MaxIdx + 1
    BY <1>1, <1>3, IdxFacts
  <2>2. \A i \in Idx : gen'[i] # 0 <=> i < sc2
    BY <1>1, <1>3, IdxFacts DEF SlotMapOK
  <2>3. \A i \in live' : i < sc2
    BY <1>1, <1>3, IdxFacts DEF SlotMapOK
  <2>4. \A p \in 0 .. free_count' - 1 : free'[p] \in listed
    BY <1>9 DEF Listed
  <2>5. \A i \in listed : i < sc2 /\ i \notin live' /\ gen'[i] >= 2
    BY <1>1, <1>3, <1>8, ListedFacts, IdxFacts
  <2>. QED BY <1>1, <1>2, <1>3, <2>1, <2>2, <2>3, <2>4, <2>5 DEF SlotMapOK
<1>13. SlotsOK'
  <2>1. \A i \in RetiredSlots(live, free, slot_count, free_count, PendingSlots) :
           gen'[i] = GenMax
    BY <1>1, <1>3 DEF CountsOK, RetiredSlots
  <2>2. quarantined' = quarantined
    BY <1>2
  <2>3. CountsOK(gen', live', free', sc2, live_count', quarantined', free_count', PendingSlots')
    BY <1>3, <1>10, <1>11, <2>1, <2>2 DEF CountsOK
  <2>. QED BY <1>12, <2>3 DEF SlotsOK, sc2, SlotMapOK, CountsOK
<1>14. HandlesOK'
  <2>1. \A e \in Entities : Past(e, gen, free, slot_count, free_count) =>
                            Past(e, gen', free', sc2, free_count')
    BY <1>1, <1>3, <1>9, EntityFacts, IdxFacts DEF Past
  <2>2. Past(T, gen', free', sc2, free_count')
    BY <1>1, <1>9, EntityFacts, IdxFacts DEF Past, i0
  <2>3. issued' = issued /\ T \in issued
    BY <1>2, <1>3
  <2>4. /\ issued' \subseteq Entities /\ realized' \subseteq issued'
        /\ \A e \in issued' : e \in PendingEntities' \/ Past(e, gen', free', sc2, free_count')
        /\ \A e \in realized' : Past(e, gen', free', sc2, free_count')
    BY <1>1, <1>3, <1>4, <2>1, <2>2, <2>3 DEF HandlesOK
  <2>. QED BY <2>4 DEF HandlesOK, sc2, Past
<1>15. SavedOK'
  BY <1>2, <1>3, SameSaved
<1>16. Settling'
  <2>. DEFINE S == {e \in PendingEntities : e.gen = 1}
              S2 == {e \in PendingEntities' : e.gen = 1}
  <2>1. IsFiniteSet(S) /\ pending_fresh = Cardinality(S)
    BY <1>3, FreshFinite DEF Settling
  <2>2. S2 = S \ {T}
    BY <1>4
  <2>3. T \in S <=> T.gen = 1
    BY <1>1
  <2>. HIDE DEF S
  <2>4. Cardinality(S \ {T}) = IF T \in S THEN Cardinality(S) - 1 ELSE Cardinality(S)
    BY <2>1, FS_RemoveElement
  <2>5. pending_fresh' = Cardinality(S2)
    BY <1>1, <2>1, <2>2, <2>3, <2>4
  <2>6. ASSUME NEW e \in PendingEntities'
        PROVE  /\ e.idx \notin live' /\ e.idx \notin Listed(free', free_count')
               /\ e.idx < sc2 => gen'[e.idx] = e.gen
               /\ e.idx >= sc2 =>
                     /\ e.gen = 1
                     /\ \A j \in sc2 .. e.idx : [idx |-> j, gen |-> 1] \in PendingEntities'
    <3>1. e \in PendingEntities /\ e # T /\ e.idx # i0 /\ e.idx \in Idx /\ e.idx \in Nat
      BY <1>3, <1>4, <1>5, EntityFacts, IdxFacts
    <3>2. /\ e.idx \notin live /\ e.idx \notin listed
          /\ e.idx < slot_count => gen[e.idx] = e.gen
          /\ e.idx >= slot_count =>
                /\ e.gen = 1
                /\ \A j \in slot_count .. e.idx : [idx |-> j, gen |-> 1] \in PendingEntities
      BY <1>3, <3>1 DEF Settling
    <3>3. e.idx < sc2 => gen'[e.idx] = e.gen
      BY <1>1, <1>3, <3>1, <3>2
    <3>4. ASSUME e.idx >= sc2, NEW j \in sc2 .. e.idx
          PROVE  [idx |-> j, gen |-> 1] \in PendingEntities'
      <4>1. j \in slot_count .. e.idx /\ e.idx >= slot_count /\ j # i0
        BY <1>1, <1>3, <3>1, <3>4
      <4>2. [idx |-> j, gen |-> 1] # T
        BY <4>1 DEF i0
      <4>. QED BY <1>4, <3>2, <4>1, <4>2
    <3>5. e.idx >= sc2 => e.idx >= slot_count
      BY <1>1, <1>3, <3>1
    <3>. QED BY <1>1, <1>9, <3>1, <3>2, <3>3, <3>4, <3>5
  <2>7. /\ \A i \in Chunks : chunks'[i] = <<>>
        /\ reserved_free' = 0
    BY <1>2, <1>3 DEF Settling
  <2>. QED BY <2>5, <2>6, <2>7 DEF Settling, sc2
<1>17. ControlOK'
  BY <1>1, <1>2, <1>3, <1>16 DEF ControlOK, Recording, OnlyRecentDestroyIsFatal
<1>. QED BY <1>4, <1>13, <1>14, <1>15, <1>17 DEF SlotInv

-----------------------------------------------------------------------------
\* The other commands.

\* A live slot goes to the end of the free list, or is retired.
LEMMA DestroyFacts ==
    ASSUME SlotInv, ApplyDestroy
    PROVE  LET i0 == Target.idx
               listed == Listed(free, free_count)
               next == Listed(free', free_count')
               retired == RetiredSlots(live, free, slot_count, free_count, PendingSlots)
               after == RetiredSlots(live', free', slot_count', free_count', PendingSlots')
           IN
           /\ RecordsOK' /\ PendingEntities' = PendingEntities /\ Target \in Entities
           /\ i0 \in live /\ i0 < slot_count /\ i0 \notin listed /\ gen[i0] >= 1
           /\ SlotMapOK(gen', live', free', slot_count', free_count')
           /\ \A i \in Idx : i # i0 => gen'[i] = gen[i] /\ (i \in next <=> i \in listed)
           /\ \/ /\ gen[i0] = GenMax /\ gen'[i0] = gen[i0] /\ i0 \notin next
                 /\ after = retired \cup {i0} /\ quarantined' = quarantined + 1
              \/ /\ gen'[i0] = gen[i0] + 1
                 /\ after = retired /\ quarantined' = quarantined
<1>. DEFINE i0 == Target.idx
            listed == Listed(free, free_count)
            next == Listed(free', free_count')
            retired == RetiredSlots(live, free, slot_count, free_count, PendingSlots)
            after == RetiredSlots(live', free', slot_count', free_count', PendingSlots')
<1>1. /\ todo # <<>> /\ Head(todo).kind = "destroy" /\ Done /\ Alive(Target)
      /\ live' = live \ {i0} /\ Retire(i0)
      /\ UNCHANGED <<slot_count, chunks, issued>>
  BY DEF ApplyDestroy, Applying, window, history
<1>2. /\ RecordsOK /\ HandlesOK /\ SlotsOK /\ Settling
      /\ SlotMapOK(gen, live, free, slot_count, free_count)
      /\ slot_count \in Nat /\ free_count \in Nat /\ live \subseteq Idx
      /\ gen \in [Idx -> 0 .. GenMax] /\ free \in [Pos -> Idx] /\ Pos = Idx
  <2>1. ~Recording
    BY DEF ApplyDestroy, Applying, Recording
  <2>2. RecordsOK /\ HandlesOK /\ SlotsOK /\ Settling
    BY <2>1 DEF SlotInv, ControlOK
  <2>3. SlotMapOK(gen, live, free, slot_count, free_count)
    BY <2>2 DEF SlotsOK
  <2>. QED BY <2>2, <2>3, IdxFacts DEF SlotMapOK
<1>3. RecordsOK' /\ PendingEntities' = PendingEntities /\ Target \in Entities
  <2>1. Head(todo).kind # SpawnKind
    BY <1>1 DEF SpawnKind
  <2>. QED BY <1>1, <1>2, <2>1, DoneStep DEF HandlesOK
<1>4. i0 \in live /\ i0 < slot_count /\ gen[i0] = Target.gen
  BY <1>1 DEF Alive
<1>5. i0 \in Idx /\ i0 \in Nat /\ gen[i0] \in 1 .. GenMax
  BY <1>3, <1>4, EntityFacts, IdxFacts
<1>6. \A i \in listed : i \in Idx /\ i < slot_count /\ i \notin live /\ gen[i] >= 2
  BY <1>2, ListedFacts
<1>7. i0 \notin listed
  BY <1>4, <1>6
<1>8. i0 \notin PendingSlots
  <2>1. \A e \in PendingEntities : e.idx \notin live
    BY <1>2 DEF Settling
  <2>. QED BY <1>4, <2>1 DEF PendingSlots
<1>9. PendingSlots' = PendingSlots
  BY <1>3 DEF PendingSlots
<1>10. free_count \in Pos
  <2>1. listed \in SUBSET (Idx \ {i0})
    BY <1>6, <1>7
  <2>2. Cardinality(listed) = free_count
    BY <1>2, ListedFacts
  <2>3. IsFiniteSet(Idx \ {i0}) /\ Cardinality(Idx \ {i0}) = MaxIdx
    <3>1. Cardinality(Idx) - 1 = MaxIdx
      BY IdxFacts
    <3>. QED BY <1>5, <3>1, IdxFacts, FS_RemoveElement
  <2>. HIDE DEF listed
  <2>4. Cardinality(listed) <= MaxIdx
    BY <2>1, <2>3, FS_Subset
  <2>. QED BY <1>2, <2>2, <2>4, IdxFacts
<1>. HIDE DEF i0
<1>11. CASE gen[i0] = GenMax
  <2>1. quarantined' = quarantined + 1 /\ gen' = gen /\ free' = free /\ free_count' = free_count
    BY <1>1, <1>11 DEF Retire
  <2>2. next = listed
    BY <2>1
  <2>3. SlotMapOK(gen', live', free', slot_count', free_count')
    BY <1>1, <1>2, <2>1 DEF SlotMapOK
  <2>4. after = retired \cup {i0}
    BY <1>1, <1>4, <1>5, <1>7, <1>8, <1>9, <2>2 DEF RetiredSlots
  <2>. QED BY <1>3, <1>4, <1>5, <1>7, <1>11, <2>1, <2>2, <2>3, <2>4 DEF i0
<1>12. CASE gen[i0] # GenMax
  <2>1. /\ gen' = [gen EXCEPT ![i0] = gen[i0] + 1] /\ quarantined' = quarantined
        /\ free' = [free EXCEPT ![free_count] = i0] /\ free_count' = free_count + 1
    BY <1>1, <1>12 DEF Retire
  <2>2. /\ free' \in [Pos -> Idx] /\ free'[free_count] = i0
        /\ \A p \in Pos : p # free_count => free'[p] = free[p]
    BY <1>2, <1>5, <1>10, <2>1
  <2>3. /\ gen' \in [Idx -> 0 .. GenMax] /\ gen'[i0] = gen[i0] + 1
        /\ \A i \in Idx : i # i0 => gen'[i] = gen[i]
    <3>1. gen[i0] + 1 \in 0 .. GenMax
      BY <1>5, <1>12, IdxFacts
    <3>2. gen \in [Idx -> 0 .. GenMax]
      BY <1>2
    <3>. QED BY <1>5, <2>1, <3>1, <3>2
  <2>4. \A p : p \in 0 .. free_count' - 1 <=> p \in 0 .. free_count - 1 \/ p = free_count
    BY <1>2, <2>1
  <2>5. \A p \in 0 .. free_count - 1 : p \in Pos /\ p # free_count /\ free[p] \in listed
    BY <1>2, ListedFacts
  <2>6. \A p \in 0 .. free_count - 1 : free'[p] = free[p]
    BY <2>2, <2>5
  <2>7. \A i : i \in next <=> i \in listed \/ i = i0
    BY <2>2, <2>4, <2>6 DEF Listed
  <2>8. SlotMapOK(gen', live', free', slot_count', free_count')
    <3>1. free_count' \in 0 .. MaxIdx + 1
      BY <1>2, <1>10, <2>1, IdxFacts
    <3>2. \A i \in Idx : gen'[i] # 0 <=> i < slot_count'
      BY <1>1, <1>2, <1>4, <1>5, <2>3 DEF SlotMapOK
    <3>3. \A i \in next : i < slot_count' /\ i \notin live' /\ gen'[i] >= 2
      BY <1>1, <1>4, <1>5, <1>6, <2>3, <2>7, IdxFacts
    <3>4. \A p \in 0 .. free_count' - 1 : free'[p] \in next
      BY DEF Listed
    <3>5. \A p, q \in 0 .. free_count' - 1 : free'[p] = free'[q] => p = q
      <4>1. \A p, q \in 0 .. free_count - 1 : free[p] = free[q] => p = q
        BY <1>2 DEF SlotMapOK
      <4>. QED BY <1>7, <2>2, <2>4, <2>5, <2>6, <4>1
    <3>6. live' \subseteq Idx /\ \A i \in live' : i < slot_count'
      BY <1>1, <1>2 DEF SlotMapOK
    <3>7. slot_count' \in 0 .. MaxIdx + 1
      BY <1>1, <1>2 DEF SlotMapOK
    <3>. HIDE DEF next
    <3>. QED BY <2>2, <2>3, <3>1, <3>2, <3>3, <3>4, <3>5, <3>6, <3>7 DEF SlotMapOK
  <2>9. after = retired
    BY <1>1, <1>4, <1>7, <1>9, <2>7 DEF RetiredSlots
  <2>10. \A i \in Idx : i # i0 => gen'[i] = gen[i] /\ (i \in next <=> i \in listed)
    BY <2>3, <2>7
  <2>11. gen[i0] >= 1
    BY <1>5
  <2>. HIDE DEF listed, next, retired, after
  <2>12. /\ RecordsOK' /\ PendingEntities' = PendingEntities /\ Target \in Entities
         /\ i0 \in live /\ i0 < slot_count /\ i0 \notin listed /\ gen[i0] >= 1
         /\ SlotMapOK(gen', live', free', slot_count', free_count')
         /\ \A i \in Idx : i # i0 => gen'[i] = gen[i] /\ (i \in next <=> i \in listed)
         /\ gen'[i0] = gen[i0] + 1 /\ after = retired /\ quarantined' = quarantined
    BY <1>3, <1>4, <1>7, <2>1, <2>3, <2>8, <2>9, <2>10, <2>11
  <2>. QED BY <2>12 DEF i0, listed, next, retired, after
<1>. QED BY <1>11, <1>12

LEMMA ApplyDestroyInv == SlotInv /\ ApplyDestroy => SlotInv'
<1>. SUFFICES ASSUME SlotInv, ApplyDestroy PROVE SlotInv'
  OBVIOUS
<1>. DEFINE i0 == Target.idx
            listed == Listed(free, free_count)
            next == Listed(free', free_count')
            retired == RetiredSlots(live, free, slot_count, free_count, PendingSlots)
            after == RetiredSlots(live', free', slot_count', free_count', PendingSlots')
<1>1. /\ RecordsOK' /\ PendingEntities' = PendingEntities /\ Target \in Entities
      /\ i0 \in live /\ i0 < slot_count /\ i0 \notin listed /\ gen[i0] >= 1
      /\ SlotMapOK(gen', live', free', slot_count', free_count')
      /\ \A i \in Idx : i # i0 => gen'[i] = gen[i] /\ (i \in next <=> i \in listed)
      /\ \/ /\ gen[i0] = GenMax /\ gen'[i0] = gen[i0] /\ i0 \notin next
            /\ after = retired \cup {i0} /\ quarantined' = quarantined + 1
         \/ /\ gen'[i0] = gen[i0] + 1
            /\ after = retired /\ quarantined' = quarantined
  BY DestroyFacts
<1>2. /\ pc = "apply" /\ pc' = pc
      /\ live' = live \ {i0} /\ live_count' = live_count - 1
      /\ UNCHANGED <<slot_count, pending_fresh, reserved_free, window_popped, chunks, running,
                     saved, issued, realized>>
  BY DEF ApplyDestroy, Applying, window, history
<1>3. /\ HandlesOK /\ SlotsOK /\ SavedOK /\ ControlOK /\ Settling /\ RecordsOK
      /\ SlotMapOK(gen, live, free, slot_count, free_count)
      /\ CountsOK(gen, live, free, slot_count, live_count, quarantined, free_count, PendingSlots)
      /\ slot_count \in Nat /\ gen \in [Idx -> 0 .. GenMax] /\ PendingEntities \subseteq Entities
  BY <1>2, IdxFacts, PendingIssued DEF SlotInv, ControlOK, SlotsOK, SlotMapOK, Recording
<1>4. live \subseteq Idx
  BY <1>3 DEF SlotMapOK
<1>5. i0 \in Idx /\ i0 \notin retired /\ retired \subseteq Idx
  BY <1>1, <1>4 DEF RetiredSlots
<1>6. live_count' = Cardinality(live')
  <2>1. IsFiniteSet(live)
    BY <1>4, SubIdx
  <2>2. Cardinality(live \ {i0}) = Cardinality(live) - 1
    BY <1>1, <2>1, FS_RemoveElement
  <2>3. live_count = Cardinality(live)
    BY <1>3 DEF CountsOK
  <2>. QED BY <1>2, <2>2, <2>3
<1>7. quarantined' = Cardinality(after) /\ \A i \in after : gen'[i] = GenMax
  <2>1. quarantined = Cardinality(retired) /\ \A i \in retired : gen[i] = GenMax
    BY <1>3 DEF CountsOK
  <2>. HIDE DEF retired, after, i0
  <2>2. IsFiniteSet(retired)
    BY <1>5, SubIdx
  <2>3. Cardinality(retired \cup {i0}) = Cardinality(retired) + 1
    BY <1>5, <2>2, FS_AddElement
  <2>. QED BY <1>1, <1>5, <2>1, <2>3
<1>8. SlotsOK'
  <2>1. CountsOK(gen', live', free', slot_count', live_count', quarantined', free_count',
                 PendingSlots')
    BY <1>6, <1>7 DEF CountsOK
  <2>. QED BY <1>1, <2>1 DEF SlotsOK, SlotMapOK, CountsOK
<1>. HIDE DEF i0
<1>9. HandlesOK'
  <2>1. ASSUME NEW e \in Entities, Past(e, gen, free, slot_count, free_count)
        PROVE  Past(e, gen', free', slot_count', free_count')
    <3>1. e.idx \in Idx /\ e.gen \in Nat /\ gen[e.idx] \in Nat
      BY <1>3, EntityFacts, IdxFacts
    <3>2. CASE e.idx = i0
      BY <1>1, <1>2, <2>1, <3>1, <3>2 DEF Past
    <3>3. CASE e.idx # i0
      BY <1>1, <1>2, <2>1, <3>1, <3>3 DEF Past
    <3>. QED BY <3>2, <3>3
  <2>2. /\ issued' \subseteq Entities /\ realized' \subseteq issued'
        /\ \A e \in issued' : \/ e \in PendingEntities'
                              \/ Past(e, gen', free', slot_count', free_count')
        /\ \A e \in realized' : Past(e, gen', free', slot_count', free_count')
    BY <1>1, <1>2, <1>3, <2>1 DEF HandlesOK
  <2>. QED BY <2>2 DEF HandlesOK, Past
<1>10. SavedOK'
  BY <1>2, <1>3, SameSaved
<1>11. Settling'
  <2>1. \A e \in PendingEntities : e.idx \in Idx /\ e.idx \notin live /\ e.idx \notin listed /\ e.idx # i0
    BY <1>1, <1>3, EntityFacts DEF Settling
  <2>2. \A e \in PendingEntities : e.idx \notin live' /\ e.idx \notin next /\ gen'[e.idx] = gen[e.idx]
    BY <1>1, <1>2, <2>1
  <2>. HIDE DEF listed, next
  <2>. QED BY <1>1, <1>2, <1>3, <2>2 DEF Settling, next
<1>12. ControlOK'
  BY <1>2, <1>3, <1>11 DEF ControlOK, Recording, OnlyRecentDestroyIsFatal
<1>. QED BY <1>1, <1>8, <1>9, <1>10, <1>12 DEF SlotInv

\* A step that performs a record and moves no slot.
LEMMA QuietStep ==
    ASSUME SlotInv, pc = "apply", todo # <<>>, Head(todo).kind # SpawnKind, Done,
           UNCHANGED slots, UNCHANGED window, running' = running, pc' = pc
    PROVE  SlotInv'
<1>1. /\ RecordsOK /\ HandlesOK /\ SlotsOK /\ SavedOK /\ ControlOK /\ Settling
      /\ chunks' = chunks /\ issued' = issued /\ window_popped' = window_popped
      /\ UNCHANGED <<pending_fresh, reserved_free>>
  BY DEF SlotInv, ControlOK, Recording, slots, window
<1>2. RecordsOK' /\ PendingEntities' = PendingEntities
  BY <1>1, DoneStep
<1>3. SlotsOK' /\ HandlesOK' /\ SavedOK' /\ Settling'
  BY <1>1, <1>2, SameSlots, SameSettling
<1>4. ControlOK'
  BY <1>1, <1>3 DEF ControlOK, Recording, OnlyRecentDestroyIsFatal
<1>. QED BY <1>2, <1>3, <1>4 DEF SlotInv

\* A step that stops the process on a record that is not a realize.
LEMMA FatalStep ==
    ASSUME SlotInv, pc = "apply", todo # <<>>, Head(todo).kind # SpawnKind,
           UNCHANGED slots, UNCHANGED window, running' = running, todo' = todo,
           \/ pc' = "check failed"
           \/ pc' = "destroy of a pending entity" /\ OnlyRecentDestroyIsFatal'
    PROVE  SlotInv'
<1>1. /\ RecordsOK /\ HandlesOK /\ SlotsOK /\ SavedOK /\ ControlOK /\ Settling
      /\ chunks' = chunks /\ issued' = issued /\ window_popped' = window_popped
      /\ UNCHANGED <<pending_fresh, reserved_free>>
  BY DEF SlotInv, ControlOK, Recording, slots, window
<1>2. RecordsOK' /\ PendingEntities' = PendingEntities
  BY <1>1, SameRecords
<1>3. SlotsOK' /\ HandlesOK' /\ SavedOK' /\ Settling'
  BY <1>1, <1>2, SameSlots, SameSettling
<1>4. ControlOK'
  BY <1>1, <1>3 DEF ControlOK, Recording, Fatal, OnlyRecentDestroyIsFatal
<1>. QED BY <1>2, <1>3, <1>4 DEF SlotInv

LEMMA ApplyDestroyDeadInv == SlotInv /\ ApplyDestroyDead => SlotInv'
<1>. SUFFICES ASSUME SlotInv, ApplyDestroyDead PROVE SlotInv'
  OBVIOUS
<1>1. /\ pc = "apply" /\ todo # <<>> /\ Head(todo).kind # SpawnKind
      /\ UNCHANGED slots /\ UNCHANGED window /\ running' = running /\ ~Alive(Target)
  BY DEF ApplyDestroyDead, Applying, slots, history, SpawnKind, arenas
<1>2. CASE ~SpawnPending(Target)
  BY <1>1, <1>2, QuietStep DEF ApplyDestroyDead
<1>3. CASE SpawnPending(Target)
  <2>1. pc' = "destroy of a pending entity" /\ todo' = todo
    BY <1>3 DEF ApplyDestroyDead
  <2>2. /\ RecordsOK /\ HandlesOK /\ SlotsOK /\ Settling
        /\ SlotMapOK(gen, live, free, slot_count, free_count)
        /\ CountsOK(gen, live, free, slot_count, live_count, quarantined, free_count, PendingSlots)
        /\ slot_count \in Nat /\ PendingEntities \subseteq Entities
    BY <1>1, IdxFacts, PendingIssued DEF SlotInv, ControlOK, SlotsOK, SlotMapOK, Recording
  <2>3. Target \in issued /\ Target \in Entities
    <3>1. Head(todo).e \in issued
      BY <1>1, <2>2, TailSpawns DEF RecordsOK
    <3>. QED BY <2>2, <3>1 DEF Target, HandlesOK
  <2>4. ASSUME Target \notin PendingEntities
        PROVE  Target.gen = GenMax /\ Target.idx \in window_popped
    <3>. DEFINE i == Target.idx
    <3>1. i \in Idx /\ i \in Nat
      BY <2>3, EntityFacts, IdxFacts
    <3>2. i < slot_count /\ (Target.gen = gen[i] => i \notin Listed(free, free_count))
      BY <2>2, <2>3, <2>4 DEF HandlesOK, Past
    <3>3. i \notin live /\ gen[i] = Target.gen /\ (Target.gen = 1 \/ i \in window_popped)
      BY <1>3, <2>2, <3>1, <3>2 DEF SpawnPending
    <3>4. i \notin PendingSlots
      <4>1. ASSUME NEW e \in PendingEntities, e.idx = i PROVE FALSE
        <5>1. gen[i] = e.gen
          BY <2>2, <3>2, <4>1 DEF Settling
        <5>2. e = Target
          BY <2>2, <2>3, <3>3, <4>1, <5>1, EntityFacts
        <5>. QED BY <2>4, <5>2
      <4>. QED BY <4>1 DEF PendingSlots
    <3>. HIDE DEF i
    <3>5. i \in RetiredSlots(live, free, slot_count, free_count, PendingSlots)
      BY <3>1, <3>2, <3>3, <3>4 DEF RetiredSlots
    <3>6. gen[i] = GenMax
      BY <2>2, <3>5 DEF CountsOK
    <3>. QED BY <3>3, <3>6, IdxFacts DEF i
  <2>5. PendingEntities' = PendingEntities
    BY <1>1, <2>1 DEF PendingEntities, window
  <2>6. OnlyRecentDestroyIsFatal'
    BY <1>1, <2>1, <2>4, <2>5 DEF OnlyRecentDestroyIsFatal, Target, window
  <2>. QED BY <1>1, <2>1, <2>6, FatalStep
<1>. QED BY <1>2, <1>3

LEMMA ColumnStepsInv == SlotInv /\ (ApplyAdd \/ ApplyRemove \/ ApplySetField) => SlotInv'
<1>. SUFFICES ASSUME SlotInv, ApplyAdd \/ ApplyRemove \/ ApplySetField PROVE SlotInv'
  OBVIOUS
<1>1. /\ pc = "apply" /\ todo # <<>> /\ Head(todo).kind # SpawnKind
      /\ UNCHANGED slots /\ UNCHANGED window /\ running' = running
      /\ (Done /\ pc' = pc) \/ (todo' = todo /\ pc' = "check failed")
  <2>1. CASE ApplyAdd
    BY <2>1 DEF ApplyAdd, Applying, CheckFails, slots, history, arenas, SpawnKind
  <2>2. CASE ApplyRemove
    BY <2>2 DEF ApplyRemove, Applying, CheckFails, slots, history, arenas, SpawnKind
  <2>3. CASE ApplySetField
    BY <2>3 DEF ApplySetField, Applying, CheckFails, slots, history, arenas, SpawnKind
  <2>. QED BY <2>1, <2>2, <2>3
<1>. QED BY <1>1, QuietStep, FatalStep

LEMMA ApplyEndInv == SlotInv /\ ApplyEnd => SlotInv'
<1>. SUFFICES ASSUME SlotInv, ApplyEnd PROVE SlotInv'
  OBVIOUS
<1>1. /\ pc = "apply" /\ todo = <<>> /\ pc' = "record" /\ window_popped' = {} /\ UNCHANGED slots
      /\ UNCHANGED <<pending_fresh, reserved_free, chunks, running, todo>>
  BY DEF ApplyEnd, slots, arenas, history
<1>2. /\ RecordsOK /\ HandlesOK /\ SlotsOK /\ SavedOK /\ ControlOK /\ Settling
  BY <1>1 DEF SlotInv, ControlOK, Recording
<1>3. RecordsOK' /\ PendingEntities' = PendingEntities
  BY <1>1, <1>2, SameRecords DEF slots
<1>4. SlotsOK' /\ HandlesOK' /\ SavedOK'
  BY <1>1, <1>2, <1>3, SameSlots
<1>5. PendingEntities = {}
  BY <1>1, <1>2, PendingMember, NoneIn DEF Settling
<1>6. pending_fresh = 0 /\ reserved_free = 0
  <2>1. {e \in PendingEntities : e.gen = 1} = {}
    BY <1>5
  <2>. QED BY <1>2, <2>1, FS_EmptySet DEF Settling
<1>7. Reserving'
  <2>1. ReservedSlots' = {}
    BY <1>1, <1>6 DEF ReservedSlots
  <2>2. slot_count \in 0 .. MaxIdx + 1 /\ MaxIdx \in Nat /\ free_count \in Nat
    BY <1>2, IdxFacts DEF SlotsOK, SlotMapOK
  <2>3. slot_count' = slot_count /\ free_count' = free_count
    BY <1>1 DEF slots, counts
  <2>. QED BY <1>1, <1>3, <1>5, <1>6, <2>1, <2>2, <2>3 DEF Reserving
<1>8. ControlOK'
  BY <1>1, <1>2, <1>7 DEF ControlOK, Recording, OnlyRecentDestroyIsFatal
<1>. QED BY <1>3, <1>4, <1>8 DEF SlotInv

-----------------------------------------------------------------------------
\* Rollback.

\* What a restore must find in the snapshot: no slot on its free list has
\* reached the last generation.
FreeBelowGenMax ==
    \A p \in 0 .. saved.counts[4] - 1 : saved.gen[saved.free[p]] < GenMax

\* The snapshot finds every slot live, free or retired.
LEMMA SlotsCounted ==
    ASSUME NEW gn, NEW lv, NEW fr, NEW sc, NEW lc, NEW qc, NEW fc,
           SlotMapOK(gn, lv, fr, sc, fc), CountsOK(gn, lv, fr, sc, lc, qc, fc, {})
    PROVE  sc = lc + fc + qc /\ lc \in Nat /\ qc \in Nat
<1>. DEFINE L == Listed(fr, fc)
            R == RetiredSlots(lv, fr, sc, fc, {})
<1>1. /\ sc \in Nat /\ sc <= MaxIdx + 1 /\ MaxIdx \in Nat /\ fc \in Nat /\ lv \subseteq Idx
      /\ \A i \in lv : i < sc
  BY IdxFacts DEF SlotMapOK
<1>2. L \subseteq Idx /\ Cardinality(L) = fc /\ \A i \in L : i < sc /\ i \notin lv
  BY ListedFacts
<1>3. R \subseteq Idx /\ \A i \in Idx : i \in R <=> i < sc /\ i \notin lv /\ i \notin L
  BY DEF RetiredSlots
<1>4. Cardinality(lv) = lc /\ Cardinality(R) = qc
  BY DEF CountsOK
<1>. HIDE DEF L, R
<1>5. IsFiniteSet(L) /\ IsFiniteSet(lv) /\ IsFiniteSet(R)
  BY <1>1, <1>2, <1>3, SubIdx
<1>6. /\ IsFiniteSet(lv \cup L)
      /\ Cardinality(lv \cup L) = Cardinality(lv) + Cardinality(L) - Cardinality(lv \cap L)
  BY <1>5, FS_Union
<1>7. lv \cap L = {} /\ (lv \cup L) \cap R = {}
  BY <1>1, <1>2, <1>3
<1>8. Cardinality((lv \cup L) \cup R) =
         Cardinality(lv \cup L) + Cardinality(R) - Cardinality((lv \cup L) \cap R)
  BY <1>5, <1>6, FS_Union
<1>9. (lv \cup L) \cup R = 0 .. sc - 1
  <2>1. \A i : i \in 0 .. sc - 1 <=> i \in Idx /\ i < sc
    BY <1>1, IdxFacts
  <2>. QED BY <1>1, <1>2, <1>3, <2>1
<1>10. Cardinality(0 .. sc - 1) = sc
  BY <1>1, FS_Interval
<1>11. Cardinality({}) = 0
  BY FS_EmptySet
<1>12. lc \in Nat /\ qc \in Nat
  BY <1>4, <1>5, FS_CardinalityType
<1>13. Cardinality(lv \cup L) = lc + fc
  BY <1>1, <1>2, <1>4, <1>6, <1>7, <1>11, <1>12
<1>14. Cardinality((lv \cup L) \cup R) = lc + fc + qc
  <2>1. Cardinality((lv \cup L) \cap R) = 0
    BY <1>7, <1>11
  <2>. QED BY <1>1, <1>4, <1>8, <1>12, <1>13, <2>1
<1>. QED BY <1>9, <1>10, <1>12, <1>14

\* While commands are recorded a reserved slot is still on the free list, so
\* the reservations take nothing from the count.
LEMMA ReservedCounted ==
    ASSUME SlotsOK, HandlesOK, RecordsOK, Reserving
    PROVE  CountsOK(gen, live, free, slot_count, live_count, quarantined, free_count, {})
<1>1. /\ SlotMapOK(gen, live, free, slot_count, free_count)
      /\ CountsOK(gen, live, free, slot_count, live_count, quarantined, free_count, PendingSlots)
      /\ slot_count \in Nat /\ pending_fresh \in Nat /\ reserved_free \in 0 .. free_count
      /\ PendingEntities \subseteq Entities
  BY IdxFacts, PendingIssued DEF SlotsOK, SlotMapOK, Reserving
<1>2. ReservedSlots \subseteq Listed(free, free_count)
  BY <1>1, ReservedFacts
<1>3. ASSUME NEW i \in PendingSlots, i < slot_count PROVE i \in Listed(free, free_count)
  <2>1. PICK e \in PendingEntities : e.idx = i
    BY DEF PendingSlots
  <2>2. e.idx \in slot_count .. slot_count + pending_fresh - 1 => ~(i < slot_count)
    BY <1>1, <2>1
  <2>. QED BY <1>1, <1>2, <1>3, <2>1, <2>2 DEF Reserving
<1>4. RetiredSlots(live, free, slot_count, free_count, PendingSlots) =
         RetiredSlots(live, free, slot_count, free_count, {})
  BY <1>3 DEF RetiredSlots
<1>. QED BY <1>1, <1>4 DEF CountsOK

LEMMA SaveInv == SlotInv /\ Save => SlotInv'
<1>. SUFFICES ASSUME SlotInv, Save PROVE SlotInv'
  OBVIOUS
<1>1. /\ pc = "record" /\ pc' = pc
      /\ UNCHANGED <<gen, live, free, slot_count, live_count, quarantined, free_count>>
      /\ UNCHANGED <<issued, realized>>
      /\ UNCHANGED <<pending_fresh, reserved_free, window_popped, chunks, running, todo>>
      /\ saved' = [gen |-> gen, live |-> live, free |-> free, comp_count |-> comp_count,
                   rows |-> rows, sparse |-> sparse,
                   counts |-> counts, realized |-> realized, want |-> want]
  BY DEF Save, arenas, counts, window, history
<1>2. /\ RecordsOK /\ HandlesOK /\ SlotsOK /\ ControlOK /\ Reserving
  BY <1>1 DEF SlotInv, ControlOK, Recording
<1>3. RecordsOK' /\ PendingEntities' = PendingEntities
  BY <1>1, <1>2, SameRecords
<1>4. PendingSlots' = PendingSlots
  BY <1>3 DEF PendingSlots
<1>5. SlotsOK'
  BY <1>1, <1>2, <1>4 DEF SlotsOK, SlotMapOK, CountsOK, RetiredSlots, Listed
<1>6. HandlesOK'
  BY <1>1, <1>2, <1>3 DEF HandlesOK, Past, Listed
<1>7. Reserving'
  <2>1. ReservedSlots' = ReservedSlots
    BY <1>1 DEF ReservedSlots, PopNext
  <2>. QED BY <1>1, <1>2, <1>3, <2>1 DEF Reserving
<1>8. SavedOK'
  <2>1. CountsOK(gen, live, free, slot_count, live_count, quarantined, free_count, {})
    BY <1>2, ReservedCounted
  <2>2. SlotMapOK(gen, live, free, slot_count, free_count)
    BY <1>2 DEF SlotsOK
  <2>3. /\ realized \subseteq Entities
        /\ \A e \in realized : Past(e, gen, free, slot_count, free_count)
    BY <1>2 DEF HandlesOK
  <2>4. /\ saved'.gen = gen /\ saved'.live = live /\ saved'.free = free
        /\ saved'.counts = <<slot_count, live_count, quarantined, free_count>>
        /\ saved'.realized = realized
    BY <1>1 DEF counts
  <2>5. /\ saved'.counts[1] = slot_count /\ saved'.counts[2] = live_count
        /\ saved'.counts[3] = quarantined /\ saved'.counts[4] = free_count
    BY <2>4
  <2>. QED BY <2>1, <2>2, <2>3, <2>4, <2>5
           DEF SavedOK, SlotMapOK, CountsOK, RetiredSlots, Past, Listed
<1>9. ControlOK'
  BY <1>1, <1>2, <1>7 DEF ControlOK, Recording, OnlyRecentDestroyIsFatal
<1>. QED BY <1>3, <1>5, <1>6, <1>8, <1>9 DEF SlotInv

\* The counts world_post_restore derives are the ones the snapshot was of.
LEMMA RestoredCounts ==
    ASSUME SlotInv, Restore, FreeBelowGenMax
    PROVE  /\ slot_count' = saved.counts[1] /\ live_count' = saved.counts[2]
           /\ quarantined' = saved.counts[3] /\ free_count' = saved.counts[4]
           /\ counts' = saved.counts /\ PendingEntities' = {}
<1>. DEFINE sc == saved.counts[1]
            lc == saved.counts[2]
            qc == saved.counts[3]
            fc == saved.counts[4]
            retired == RetiredSlots(saved.live, saved.free, sc, fc, {})
<1>1. /\ saved # <<>> /\ pc = "record" /\ gen' = saved.gen /\ live' = saved.live
      /\ slot_count' = SlotCount(saved.gen) /\ live_count' = Cardinality(saved.live)
      /\ quarantined' = Quarantined(saved.gen, saved.live)
      /\ free_count' = slot_count' - live_count' - quarantined'
      /\ todo' = todo /\ \A i \in Chunks : chunks'[i] = <<>>
  BY DEF Restore, CommandsDiscard
<1>2. /\ saved.counts = <<sc, lc, qc, fc>>
      /\ SlotMapOK(saved.gen, saved.live, saved.free, sc, fc)
      /\ CountsOK(saved.gen, saved.live, saved.free, sc, lc, qc, fc, {})
      /\ Reserving
  BY <1>1 DEF SlotInv, SavedOK, ControlOK, Recording
<1>. HIDE DEF sc, lc, qc, fc
<1>3. sc = lc + fc + qc /\ lc \in Nat /\ qc \in Nat
  BY <1>2, SlotsCounted
<1>4. sc \in Nat /\ sc <= MaxIdx + 1 /\ fc \in Nat
  BY <1>2, IdxFacts DEF SlotMapOK
<1>5. SlotCount(saved.gen) = sc
  <2>. DEFINE S == {i \in Idx : \A j \in 0 .. i : saved.gen[j] # 0}
  <2>1. ASSUME NEW i \in Idx PROVE (\A j \in 0 .. i : saved.gen[j] # 0) <=> i < sc
    <3>1. i \in 0 .. i /\ \A j \in 0 .. i : j \in Idx /\ (i < sc => j < sc)
      BY <1>4, IdxFacts
    <3>2. \A j \in Idx : saved.gen[j] # 0 <=> j < sc
      BY <1>2 DEF SlotMapOK
    <3>. QED BY <3>1, <3>2
  <2>2. \A i : i \in 0 .. sc - 1 <=> i \in Idx /\ i < sc
    BY <1>4, IdxFacts
  <2>3. S = 0 .. sc - 1
    BY <2>1, <2>2
  <2>4. Cardinality(0 .. sc - 1) = sc
    BY <1>4, FS_Interval
  <2>. QED BY <2>3, <2>4 DEF SlotCount
<1>6. Quarantined(saved.gen, saved.live) = qc
  <2>. DEFINE S == {i \in 0 .. sc - 1 : i \notin saved.live /\ saved.gen[i] = GenMax}
  <2>1. S = retired
    <3>1. \A i : i \in 0 .. sc - 1 <=> i \in Idx /\ i < sc
      BY <1>4, IdxFacts
    <3>2. \A i \in Listed(saved.free, fc) : saved.gen[i] # GenMax
      <4>1. \A p \in 0 .. fc - 1 : saved.gen[saved.free[p]] < GenMax
        BY DEF FreeBelowGenMax, fc
      <4>. QED BY <4>1, IdxFacts DEF Listed
    <3>3. \A i \in retired : saved.gen[i] = GenMax
      BY <1>2 DEF CountsOK
    <3>. QED BY <3>1, <3>2, <3>3 DEF RetiredSlots
  <2>2. qc = Cardinality(retired)
    BY <1>2 DEF CountsOK
  <2>. QED BY <1>5, <2>1, <2>2 DEF Quarantined
<1>7. /\ slot_count' = sc /\ live_count' = lc /\ quarantined' = qc /\ free_count' = fc
  <2>1. lc = Cardinality(saved.live)
    BY <1>2 DEF CountsOK
  <2>2. slot_count' = sc /\ live_count' = lc /\ quarantined' = qc
    BY <1>1, <1>5, <1>6, <2>1
  <2>3. free_count' = sc - lc - qc
    BY <1>1, <2>2
  <2>. QED BY <1>3, <1>4, <2>2, <2>3
<1>8. counts' = saved.counts
  BY <1>2, <1>7 DEF counts
<1>9. PendingEntities' = {}
  <2>1. todo' = <<>>
    BY <1>1, <1>2 DEF Reserving
  <2>. QED BY <1>1, <2>1, PendingMemberNext, NoneIn
<1>. QED BY <1>7, <1>8, <1>9 DEF sc, lc, qc, fc

LEMMA RestoreInv == SlotInv /\ Restore /\ FreeBelowGenMax => SlotInv'
<1>. SUFFICES ASSUME SlotInv, Restore, FreeBelowGenMax PROVE SlotInv'
  OBVIOUS
<1>1. /\ saved # <<>> /\ pc = "record" /\ pc' = pc /\ saved' = saved
      /\ gen' = saved.gen /\ live' = saved.live /\ free' = saved.free
      /\ todo' = todo /\ chunks' = [i \in Chunks |-> <<>>] /\ running' = running
      /\ pending_fresh' = 0 /\ reserved_free' = 0 /\ window_popped' = {}
      /\ issued' = saved.realized /\ realized' = saved.realized
  BY DEF Restore, CommandsDiscard
<1>2. /\ slot_count' = saved.counts[1] /\ live_count' = saved.counts[2]
      /\ quarantined' = saved.counts[3] /\ free_count' = saved.counts[4]
      /\ PendingEntities' = {}
  BY RestoredCounts
<1>3. SavedOK /\ ControlOK /\ RecordsOK /\ Reserving
  BY <1>1 DEF SlotInv, ControlOK, Recording
<1>4. PendingSlots' = {}
  BY <1>2 DEF PendingSlots
<1>5. SlotsOK'
  BY <1>1, <1>2, <1>3, <1>4 DEF SlotsOK, SavedOK, SlotMapOK, CountsOK, RetiredSlots, Listed
<1>6. RecordsOK'
  <2>1. todo' = <<>> /\ todo' \in Seq(Records)
    BY <1>1, <1>3 DEF Reserving
  <2>2. Once(todo') /\ Within(todo', issued')
    BY <2>1, NoneIn
  <2>3. /\ chunks' \in [Chunks -> Seq(Records)]
        /\ \A i \in Chunks : chunks'[i] = <<>>
    BY <1>1
  <2>4. \A i \in Chunks : /\ Once(chunks'[i]) /\ Within(chunks'[i], issued')
                          /\ SpawnsIn(chunks'[i]) = {}
    BY <2>3, NoneIn
  <2>. QED BY <2>1, <2>2, <2>3, <2>4 DEF RecordsOK, Once, Within, SpawnsIn
<1>7. HandlesOK'
  BY <1>1, <1>2, <1>3 DEF HandlesOK, SavedOK, Past, Listed
<1>8. SavedOK'
  BY <1>1, <1>3, SameSaved
<1>9. Reserving'
  <2>1. ReservedSlots' = {}
    BY <1>1 DEF ReservedSlots
  <2>2. slot_count' \in 0 .. MaxIdx + 1 /\ free_count' \in 0 .. MaxIdx + 1 /\ MaxIdx \in Nat
    BY <1>5, IdxFacts DEF SlotsOK, SlotMapOK
  <2>3. \A i : i \notin slot_count' .. slot_count' + 0 - 1
    BY <2>2
  <2>. QED BY <1>1, <1>2, <1>3, <2>1, <2>2, <2>3 DEF Reserving
<1>10. ControlOK'
  BY <1>1, <1>3, <1>9 DEF ControlOK, Recording, OnlyRecentDestroyIsFatal
<1>. QED BY <1>5, <1>6, <1>7, <1>8, <1>10 DEF SlotInv

-----------------------------------------------------------------------------
\* The invariant holds.

LEMMA InitSlotInv == Init => SlotInv
<1>. SUFFICES ASSUME Init PROVE SlotInv
  OBVIOUS
<1>1. /\ gen = [i \in Idx |-> 0] /\ live = {} /\ free = [p \in Pos |-> 0]
      /\ slot_count = 0 /\ live_count = 0 /\ quarantined = 0 /\ free_count = 0
      /\ pending_fresh = 0 /\ reserved_free = 0 /\ window_popped = {}
      /\ chunks = [i \in Chunks |-> <<>>] /\ running = External
      /\ todo = <<>> /\ pc = "record" /\ saved = <<>> /\ issued = {} /\ realized = {}
  BY DEF Init
<1>2. RecordsOK
  BY <1>1, NoneIn DEF RecordsOK
<1>3. PendingEntities = {} /\ PendingSlots = {}
  <2>1. PendingEntities = {}
    BY <1>1, PendingMember, NoneIn
  <2>. QED BY <2>1 DEF PendingSlots
<1>4. SlotMapOK(gen, live, free, slot_count, free_count)
  BY <1>1, IdxFacts DEF SlotMapOK
<1>5. CountsOK(gen, live, free, slot_count, live_count, quarantined, free_count, PendingSlots)
  <2>1. RetiredSlots(live, free, slot_count, free_count, PendingSlots) = {}
    BY <1>1, IdxFacts DEF RetiredSlots
  <2>. QED BY <1>1, <2>1, FS_EmptySet DEF CountsOK
<1>6. HandlesOK /\ SavedOK
  BY <1>1 DEF HandlesOK, SavedOK
<1>7. Reserving
  <2>1. ReservedSlots = {}
    BY <1>1 DEF ReservedSlots
  <2>. QED BY <1>1, <1>3, <2>1, IdxFacts DEF Reserving
<1>8. ControlOK
  BY <1>1, <1>7, ChunkFacts DEF ControlOK, Recording, OnlyRecentDestroyIsFatal
<1>. QED BY <1>2, <1>4, <1>5, <1>6, <1>8 DEF SlotInv, SlotsOK

\* A step that changes nothing.
LEMMA StutterInv == SlotInv /\ UNCHANGED vars => SlotInv'
<1>. SUFFICES ASSUME SlotInv, UNCHANGED vars PROVE SlotInv'
  OBVIOUS
<1>1. /\ UNCHANGED slots /\ pc' = pc
      /\ UNCHANGED <<pending_fresh, reserved_free, window_popped, chunks, running, todo>>
  BY DEF vars, slots, arenas, window, history
<1>2. /\ RecordsOK /\ HandlesOK /\ SlotsOK /\ SavedOK /\ ControlOK
  BY DEF SlotInv
<1>3. RecordsOK' /\ PendingEntities' = PendingEntities
  BY <1>1, <1>2, SameRecords DEF slots
<1>4. SlotsOK' /\ HandlesOK' /\ SavedOK'
  BY <1>1, <1>2, <1>3, SameSlots
<1>5. (Reserving => Reserving') /\ (Settling => Settling')
  BY <1>1, <1>3, SameReserving, SameSettling
<1>6. Target' = Target
  BY <1>1 DEF Target
<1>7. ControlOK'
  BY <1>1, <1>2, <1>3, <1>5, <1>6 DEF ControlOK, Recording, OnlyRecentDestroyIsFatal
<1>. QED BY <1>3, <1>4, <1>7 DEF SlotInv

\* The inductive step of the slots.
LEMMA NextSlotInv == SlotInv /\ [Next]_vars /\ (Restore => FreeBelowGenMax) => SlotInv'
<1>. SUFFICES ASSUME SlotInv, [Next]_vars, Restore => FreeBelowGenMax PROVE SlotInv'
  OBVIOUS
<1>1. CASE SpawnReused
  BY <1>1, SpawnReusedInv
<1>2. CASE SpawnFresh
  BY <1>2, SpawnFreshInv
<1>3. CASE SpawnExhausted
  BY <1>3, SpawnExhaustedInv
<1>4. ASSUME NEW r \in Records, RecordVerb(r) PROVE SlotInv'
  BY <1>4, RecordVerbInv
<1>5. CASE NextSystem
  BY <1>5, NextSystemInv
<1>6. CASE ApplyBegin
  BY <1>6, ApplyBeginInv
<1>7. CASE ApplySpawn
  BY <1>7, ApplySpawnInv
<1>8. CASE ApplyDestroy
  BY <1>8, ApplyDestroyInv
<1>9. CASE ApplyDestroyDead
  BY <1>9, ApplyDestroyDeadInv
<1>10. CASE ApplyAdd \/ ApplyRemove \/ ApplySetField
  BY <1>10, ColumnStepsInv
<1>11. CASE ApplyEnd
  BY <1>11, ApplyEndInv
<1>12. CASE Save
  BY <1>12, SaveInv
<1>13. CASE Restore
  BY <1>13, RestoreInv
<1>14. CASE UNCHANGED vars
  BY <1>14, StutterInv
<1>. QED BY <1>1, <1>2, <1>3, <1>4, <1>5, <1>6, <1>7, <1>8, <1>9, <1>10, <1>11, <1>12, <1>13, <1>14
         DEF Next, Verb, Apply

-----------------------------------------------------------------------------
\* One column under column_add, column_remove and a write.

Rows == [e : Entities, v : Values]

ColumnOK(r, s, w) ==
    /\ r \in Seq(Rows) /\ s \in [Idx -> Nat \cup {None}]
    /\ \A p \in DOMAIN r : s[r[p].e.idx] = p /\ r[p].v = w[r[p].e]
    /\ \A i \in Idx : s[i] # None => s[i] \in DOMAIN r /\ r[s[i]].e.idx = i

\* A column has entities in its rows, and a row for each entry of its sparse table.
LEMMA ColumnFacts ==
    ASSUME NEW r, NEW s, NEW w, ColumnOK(r, s, w)
    PROVE  /\ Len(r) \in Nat /\ DOMAIN r = 1 .. Len(r) /\ r \in Seq(Rows)
           /\ \A p \in DOMAIN r : /\ r[p] \in Rows /\ r[p].e \in Entities
                                  /\ r[p].e.idx \in Idx /\ p \in Nat /\ p # None
                                  /\ s[r[p].e.idx] = p /\ r[p].v = w[r[p].e]
<1>1. r \in Seq(Rows) /\ \A p \in DOMAIN r : s[r[p].e.idx] = p /\ r[p].v = w[r[p].e]
  BY DEF ColumnOK
<1>2. Len(r) \in Nat /\ DOMAIN r = 1 .. Len(r) /\ \A p \in DOMAIN r : r[p] \in Rows
  BY <1>1
<1>3. \A x \in Rows : x.e \in Entities
  BY DEF Rows
<1>4. \A p \in DOMAIN r : r[p].e \in Entities /\ r[p].e.idx \in Idx
  BY <1>2, <1>3, EntityFacts
<1>5. \A p \in DOMAIN r : p \in Nat /\ p # None
  BY <1>2 DEF None
<1>. QED BY <1>1, <1>2, <1>4, <1>5

\* What each does to the rows, to the sparse table, and to what is wanted.
RowsAdded(r, e, v) == Append(r, [e |-> e, v |-> v])
SparseAdded(r, s, e) == [s EXCEPT ![e.idx] = Len(r) + 1]
RowsRemoved(r, s, e) ==
    [p \in 1 .. Len(r) - 1 |-> IF p = s[e.idx] THEN r[Len(r)] ELSE r[p]]
SparseRemoved(r, s, e) == [s EXCEPT ![r[Len(r)].e.idx] = s[e.idx], ![e.idx] = None]
RowsWritten(r, s, e, v) == [r EXCEPT ![s[e.idx]].v = v]
Written(w, e, v) == [w EXCEPT ![e] = v]

\* What the column is afterwards.
AddedOK(r2, s2, w2, r, s, e) ==
    /\ ColumnOK(r2, s2, w2)
    /\ \A i \in Idx : s2[i] # None <=> s[i] # None \/ i = e.idx
    /\ \A p \in DOMAIN r2 : (\E q \in DOMAIN r : r2[p].e = r[q].e) \/ r2[p].e = e
RemovedOK(r2, s2, w, r, s, e) ==
    /\ ColumnOK(r2, s2, w)
    /\ \A i \in Idx : s2[i] # None <=> s[i] # None /\ i # e.idx
    /\ \A p \in DOMAIN r2 : \E q \in DOMAIN r : r2[p].e = r[q].e
WrittenOK(r2, s, w2, r) ==
    /\ ColumnOK(r2, s, w2)
    /\ DOMAIN r2 = DOMAIN r /\ \A p \in DOMAIN r : r2[p].e = r[p].e

\* The new row goes last.
LEMMA AddedColumn ==
    ASSUME NEW r, NEW s, NEW w, NEW e \in Entities, NEW v \in Values,
           ColumnOK(r, s, w), w \in [Entities -> Values], s[e.idx] = None
    PROVE  AddedOK(RowsAdded(r, e, v), SparseAdded(r, s, e), Written(w, e, v), r, s, e)
<1>. DEFINE r2 == RowsAdded(r, e, v)
            s2 == SparseAdded(r, s, e)
            w2 == Written(w, e, v)
<1>1. /\ Len(r) \in Nat /\ DOMAIN r = 1 .. Len(r) /\ r \in Seq(Rows)
      /\ \A p \in DOMAIN r : r[p].e \in Entities /\ r[p].e.idx \in Idx /\ p \in Nat /\ p # None
  BY ColumnFacts
<1>2. e.idx \in Idx
  BY EntityFacts
<1>3. [e |-> e, v |-> v] \in Rows
  BY DEF Rows
<1>4. /\ r2 \in Seq(Rows) /\ DOMAIN r2 = 1 .. Len(r) + 1
      /\ \A p \in 1 .. Len(r) : r2[p] = r[p]
      /\ r2[Len(r) + 1] = [e |-> e, v |-> v]
  BY <1>1, <1>3 DEF RowsAdded
<1>5. /\ s2 \in [Idx -> Nat \cup {None}] /\ s2[e.idx] = Len(r) + 1
      /\ \A i \in Idx : i # e.idx => s2[i] = s[i]
  BY <1>1, <1>2 DEF ColumnOK, SparseAdded
<1>6. w2[e] = v /\ \A d \in Entities : d # e => w2[d] = w[d]
  BY DEF Written
<1>. HIDE DEF r2, s2, w2
<1>7. \A p \in DOMAIN r2 : p \in DOMAIN r \/ p = Len(r) + 1
  BY <1>1, <1>4
<1>8. \A p \in DOMAIN r : /\ r2[p] = r[p] /\ r[p].e.idx # e.idx /\ r[p].e # e
                          /\ s[r[p].e.idx] = p /\ r[p].v = w[r[p].e]
  BY <1>1, <1>4 DEF ColumnOK
<1>9. ASSUME NEW p \in DOMAIN r2 PROVE s2[r2[p].e.idx] = p /\ r2[p].v = w2[r2[p].e]
  <2>1. CASE p \in DOMAIN r
    BY <1>1, <1>5, <1>6, <1>8, <2>1
  <2>2. CASE p = Len(r) + 1
    BY <1>4, <1>5, <1>6, <2>2
  <2>. QED BY <1>7, <2>1, <2>2
<1>10. ASSUME NEW i \in Idx, s2[i] # None PROVE s2[i] \in DOMAIN r2 /\ r2[s2[i]].e.idx = i
  <2>1. CASE i = e.idx
    BY <1>1, <1>4, <1>5, <2>1
  <2>2. CASE i # e.idx
    <3>1. s2[i] = s[i] /\ s[i] \in DOMAIN r /\ r[s[i]].e.idx = i
      BY <1>5, <1>10, <2>2 DEF ColumnOK
    <3>. QED BY <1>1, <1>4, <3>1
  <2>. QED BY <2>1, <2>2
<1>11. ColumnOK(r2, s2, w2)
  BY <1>4, <1>5, <1>9, <1>10 DEF ColumnOK
<1>12. \A i \in Idx : s2[i] # None <=> s[i] # None \/ i = e.idx
  BY <1>1, <1>5 DEF None
<1>13. \A p \in DOMAIN r2 : (\E q \in DOMAIN r : r2[p].e = r[q].e) \/ r2[p].e = e
  BY <1>4, <1>7, <1>8
<1>14. AddedOK(r2, s2, w2, r, s, e)
  BY <1>11, <1>12, <1>13 DEF AddedOK
<1>. QED BY <1>14 DEF r2, s2, w2

\* The last row moves into the hole.
LEMMA RemovedColumn ==
    ASSUME NEW r, NEW s, NEW w, NEW e \in Entities,
           ColumnOK(r, s, w), s[e.idx] # None, r[s[e.idx]].e = e
    PROVE  RemovedOK(RowsRemoved(r, s, e), SparseRemoved(r, s, e), w, r, s, e)
<1>. DEFINE last == Len(r)
            d == s[e.idx]
            m == r[last].e.idx
            r2 == RowsRemoved(r, s, e)
            s2 == SparseRemoved(r, s, e)
<1>0. /\ r2 = [p \in 1 .. last - 1 |-> IF p = d THEN r[last] ELSE r[p]]
      /\ s2 = [s EXCEPT ![m] = d, ![e.idx] = None]
  BY DEF RowsRemoved, SparseRemoved
<1>1. /\ last \in Nat /\ DOMAIN r = 1 .. last /\ r \in Seq(Rows)
      /\ \A p \in DOMAIN r : /\ r[p] \in Rows /\ r[p].e \in Entities /\ r[p].e.idx \in Idx
                             /\ p \in Nat /\ p # None
                             /\ s[r[p].e.idx] = p /\ r[p].v = w[r[p].e]
  BY ColumnFacts
<1>2. e.idx \in Idx /\ d \in DOMAIN r /\ d \in 1 .. last /\ last \in DOMAIN r
  BY <1>1, EntityFacts DEF ColumnOK
<1>3. m \in Idx /\ s[m] = last
  BY <1>1, <1>2
<1>. HIDE DEF last, d, m, r2, s2
<1>4. /\ r2 \in Seq(Rows) /\ DOMAIN r2 = 1 .. last - 1
      /\ \A p \in 1 .. last - 1 : r2[p] = IF p = d THEN r[last] ELSE r[p]
  <2>1. \A p \in 1 .. last - 1 : (IF p = d THEN r[last] ELSE r[p]) \in Rows
    BY <1>1, <1>2
  <2>2. last - 1 \in Nat
    BY <1>1, <1>2
  <2>. QED BY <1>0, <2>1, <2>2
<1>5. /\ s2 \in [Idx -> Nat \cup {None}] /\ s2[e.idx] = None
      /\ m # e.idx => s2[m] = d
      /\ \A i \in Idx : i # e.idx /\ i # m => s2[i] = s[i]
  BY <1>0, <1>1, <1>2, <1>3 DEF ColumnOK
<1>6. m = e.idx <=> d = last
  BY <1>1, <1>2, <1>3 DEF d, m
<1>7. \A p \in 1 .. last - 1 : p \in DOMAIN r /\ (p # d => r[p].e.idx # e.idx /\ r[p].e.idx # m)
  <2>1. \A p \in 1 .. last - 1 : p \in DOMAIN r /\ p # last
    BY <1>1
  <2>. QED BY <1>1, <1>2, <1>3, <2>1 DEF d
<1>8. ASSUME NEW p \in 1 .. last - 1
      PROVE  s2[r2[p].e.idx] = p /\ r2[p].v = w[r2[p].e]
  <2>1. CASE p = d
    <3>1. d # last /\ r2[p] = r[last] /\ r2[p].e.idx = m
      BY <1>1, <1>4, <1>8, <2>1 DEF m
    <3>2. s2[m] = d
      BY <1>5, <1>6, <3>1
    <3>. QED BY <1>1, <1>2, <2>1, <3>1, <3>2
  <2>2. CASE p # d
    BY <1>1, <1>4, <1>5, <1>7, <2>2
  <2>. QED BY <2>1, <2>2
<1>9. ASSUME NEW i \in Idx, s2[i] # None PROVE s2[i] \in 1 .. last - 1 /\ r2[s2[i]].e.idx = i
  <2>1. i # e.idx
    BY <1>5, <1>9
  <2>2. CASE i = m
    <3>1. d # last /\ s2[i] = d
      BY <1>5, <1>6, <2>1, <2>2
    <3>2. d \in 1 .. last - 1
      BY <1>1, <1>2, <3>1
    <3>. QED BY <1>4, <2>2, <3>1, <3>2 DEF m
  <2>3. CASE i # m
    <3>1. s2[i] = s[i] /\ s[i] \in DOMAIN r /\ r[s[i]].e.idx = i
      BY <1>5, <1>9, <2>1, <2>3 DEF ColumnOK
    <3>2. s[i] # last /\ s[i] # d
      BY <2>1, <2>3, <3>1, <1>2 DEF m, d
    <3>3. s[i] \in 1 .. last - 1
      BY <1>1, <3>1, <3>2
    <3>. QED BY <1>4, <3>1, <3>2, <3>3
  <2>. QED BY <2>2, <2>3
<1>10. ColumnOK(r2, s2, w)
  BY <1>4, <1>5, <1>8, <1>9 DEF ColumnOK
<1>11. \A i \in Idx : s2[i] # None <=> s[i] # None /\ i # e.idx
  <2>1. d # None /\ last # None
    BY <1>1, <1>2
  <2>. QED BY <1>3, <1>5, <2>1
<1>12. \A p \in DOMAIN r2 : \E q \in DOMAIN r : r2[p].e = r[q].e
  BY <1>2, <1>4, <1>7
<1>13. RemovedOK(r2, s2, w, r, s, e)
  BY <1>10, <1>11, <1>12 DEF RemovedOK
<1>. QED BY <1>13 DEF r2, s2

\* A write changes a value, and no row moves.
LEMMA WrittenColumn ==
    ASSUME NEW r, NEW s, NEW w, NEW e \in Entities, NEW v \in Values,
           ColumnOK(r, s, w), w \in [Entities -> Values], s[e.idx] # None, r[s[e.idx]].e = e
    PROVE  WrittenOK(RowsWritten(r, s, e, v), s, Written(w, e, v), r)
<1>. DEFINE d == s[e.idx]
            r2 == RowsWritten(r, s, e, v)
            w2 == Written(w, e, v)
<1>0. r2 = [r EXCEPT ![d].v = v]
  BY DEF RowsWritten
<1>1. /\ Len(r) \in Nat /\ DOMAIN r = 1 .. Len(r) /\ r \in Seq(Rows)
      /\ \A p \in DOMAIN r : /\ r[p] \in Rows /\ r[p].e \in Entities /\ r[p].e.idx \in Idx
                             /\ s[r[p].e.idx] = p /\ r[p].v = w[r[p].e]
  BY ColumnFacts
<1>2. e.idx \in Idx /\ d \in DOMAIN r
  BY EntityFacts DEF ColumnOK
<1>3. w2[e] = v /\ \A b \in Entities : b # e => w2[b] = w[b]
  BY DEF Written
<1>. HIDE DEF d, w2, r2
<1>4. [r[d] EXCEPT !.v = v] = [e |-> e, v |-> v]
  BY <1>1, <1>2 DEF Rows, d
<1>5. /\ DOMAIN r2 = DOMAIN r /\ r2[d] = [e |-> e, v |-> v]
      /\ \A p \in DOMAIN r : p # d => r2[p] = r[p]
  BY <1>0, <1>2, <1>4
<1>6. r2 \in Seq(Rows)
  <2>1. [e |-> e, v |-> v] \in Rows
    BY DEF Rows
  <2>2. \A p \in 1 .. Len(r) : r2[p] \in Rows
    BY <1>1, <1>5, <2>1
  <2>3. r2 = [p \in 1 .. Len(r) |-> r2[p]]
    BY <1>0, <1>1, <1>5
  <2>. QED BY <1>1, <2>2, <2>3
<1>7. \A p \in DOMAIN r : p # d => r[p].e # e
  BY <1>1, <1>2 DEF d
<1>8. \A p \in DOMAIN r : r2[p].e = r[p].e
  BY <1>2, <1>5 DEF d
<1>9. \A p \in DOMAIN r2 : s[r2[p].e.idx] = p /\ r2[p].v = w2[r2[p].e]
  BY <1>1, <1>2, <1>3, <1>5, <1>7, <1>8
<1>10. \A i \in Idx : s[i] # None => s[i] \in DOMAIN r2 /\ r2[s[i]].e.idx = i
  BY <1>5, <1>8 DEF ColumnOK
<1>11. ColumnOK(r2, s, w2)
  BY <1>6, <1>9, <1>10 DEF ColumnOK
<1>12. WrittenOK(r2, s, w2, r)
  BY <1>5, <1>8, <1>11 DEF WrittenOK
<1>. QED BY <1>12 DEF r2, w2

-----------------------------------------------------------------------------
\* The inductive invariant of the columns.

Holding(sp, i) == {c \in Comps : sp[c][i] # None}

ColumnsOK(gn, lv, cc, rw, sp, wt) ==
    /\ rw \in [Comps -> Seq(Rows)] /\ sp \in [Comps -> [Idx -> Nat \cup {None}]]
    /\ wt \in [Comps -> [Entities -> Values]] /\ cc \in [Idx -> Nat]
    /\ \A c \in Comps : ColumnOK(rw[c], sp[c], wt[c])
    /\ \A c \in Comps : \A p \in DOMAIN rw[c] :
          rw[c][p].e.idx \in lv /\ gn[rw[c][p].e.idx] = rw[c][p].e.gen
    /\ \A i \in Idx : cc[i] = Cardinality(Holding(sp, i))

ColumnInv ==
    /\ ColumnsOK(gen, live, comp_count, rows, sparse, want)
    /\ saved # <<>> => ColumnsOK(saved.gen, saved.live, saved.comp_count, saved.rows,
                                 saved.sparse, saved.want)

\* An entity has at most every component.
LEMMA HoldingFacts ==
    ASSUME NEW sp, NEW i
    PROVE  /\ IsFiniteSet(Holding(sp, i)) /\ Cardinality(Holding(sp, i)) \in Nat
           /\ Cardinality(Holding(sp, i)) <= Cardinality(Comps)
<1>1. Holding(sp, i) \in SUBSET Comps /\ IsFiniteSet(Comps)
  BY EcsBounds DEF Holding
<1>2. IsFiniteSet(Holding(sp, i)) /\ Cardinality(Holding(sp, i)) <= Cardinality(Comps)
  BY <1>1, FS_Subset
<1>. QED BY <1>2, FS_CardinalityType

\* A row of the slot of a live handle is a row of that handle.
LEMMA RowOfAlive ==
    ASSUME NEW gn, NEW lv, NEW cc, NEW rw, NEW sp, NEW wt, ColumnsOK(gn, lv, cc, rw, sp, wt),
           NEW c \in Comps, NEW e \in Entities, gn[e.idx] = e.gen, sp[c][e.idx] # None
    PROVE  rw[c][sp[c][e.idx]].e = e
<1>1. e.idx \in Idx /\ ColumnOK(rw[c], sp[c], wt[c])
  BY EntityFacts DEF ColumnsOK
<1>2. sp[c][e.idx] \in DOMAIN rw[c] /\ rw[c][sp[c][e.idx]].e.idx = e.idx
  BY <1>1 DEF ColumnOK
<1>3. rw[c][sp[c][e.idx]].e \in Entities
  BY <1>1, <1>2, ColumnFacts
<1>4. rw[c][sp[c][e.idx]].e.gen = e.gen
  BY <1>2 DEF ColumnsOK
<1>. QED BY <1>2, <1>3, <1>4, EntityFacts

\* A step that takes no snapshot need only keep the columns.
LEMMA SameSavedColumns ==
    ASSUME ColumnInv, saved' = saved,
           ColumnsOK(gen', live', comp_count', rows', sparse', want')
    PROVE  ColumnInv'
<1>1. saved # <<>> => ColumnsOK(saved.gen, saved.live, saved.comp_count, saved.rows,
                                saved.sparse, saved.want)
  BY DEF ColumnInv
<1>. QED BY <1>1 DEF ColumnInv

\* Nothing the columns depend on is disturbed.
LEMMA SameColumns ==
    ASSUME ColumnInv, UNCHANGED <<saved, comp_count, rows, sparse, want>>, live \subseteq live',
           \A i \in live : gen'[i] = gen[i]
    PROVE  ColumnInv'
<1>1. ColumnsOK(gen, live, comp_count, rows, sparse, want)
  BY DEF ColumnInv
<1>2. ColumnsOK(gen', live', comp_count, rows, sparse, want)
  BY <1>1 DEF ColumnsOK
<1>. QED BY <1>2, SameSavedColumns

\* The record to perform, and what a live target is.
LEMMA AliveFacts ==
    ASSUME SlotInv, pc = "apply", todo # <<>>
    PROVE  /\ Head(todo) \in Records /\ Target \in Entities
           /\ Alive(Target) => Target.idx \in live /\ Target.idx \in Idx
                               /\ gen[Target.idx] = Target.gen
<1>1. Head(todo) \in Records
  BY HeadTailProperties DEF SlotInv, RecordsOK
<1>2. Target \in Entities
  BY <1>1, RecordFacts DEF Target
<1>. QED BY <1>1, <1>2, EntityFacts DEF Alive

LEMMA AddColumnInv == SlotInv /\ ColumnInv /\ ApplyAdd => ColumnInv'
<1>. SUFFICES ASSUME SlotInv, ColumnInv, ApplyAdd PROVE ColumnInv'
  OBVIOUS
<1>. DEFINE c == Head(todo).comp
            v == Head(todo).v
            T == Target
            r2 == RowsAdded(rows[c], T, v)
            s2 == SparseAdded(rows[c], sparse[c], T)
            w2 == Written(want[c], T, v)
<1>1. pc = "apply" /\ todo # <<>> /\ Head(todo).kind = "add"
  BY DEF ApplyAdd, Applying
<1>2. CASE ~(Alive(T) /\ sparse[c][T.idx] = None)
  BY <1>2, SameColumns DEF ApplyAdd, CheckFails, arenas, history
<1>3. CASE Alive(T) /\ sparse[c][T.idx] = None
  <2>1. /\ Head(todo) \in Records /\ T \in Entities /\ T.idx \in live /\ T.idx \in Idx
        /\ gen[T.idx] = T.gen
    BY <1>1, <1>3, AliveFacts
  <2>2. c \in Comps /\ v \in Values
    BY <1>1, <2>1, RecordFacts
  <2>3. /\ rows' = [rows EXCEPT ![c] = r2]
        /\ sparse' = [sparse EXCEPT ![c][T.idx] = Len(rows[c]) + 1]
        /\ comp_count' = [comp_count EXCEPT ![T.idx] = comp_count[T.idx] + 1]
        /\ want' = [want EXCEPT ![c][T] = v]
        /\ UNCHANGED <<gen, live, saved>>
    BY <1>3 DEF ApplyAdd, RowsAdded
  <2>4. /\ ColumnsOK(gen, live, comp_count, rows, sparse, want)
        /\ ColumnOK(rows[c], sparse[c], want[c])
        /\ rows \in [Comps -> Seq(Rows)] /\ sparse \in [Comps -> [Idx -> Nat \cup {None}]]
        /\ want \in [Comps -> [Entities -> Values]] /\ comp_count \in [Idx -> Nat]
    BY <2>2 DEF ColumnInv, ColumnsOK
  <2>6. sparse' = [sparse EXCEPT ![c] = s2] /\ want' = [want EXCEPT ![c] = w2]
    BY <2>2, <2>3, <2>4 DEF SparseAdded, Written
  <2>. HIDE DEF c, v, T
  <2>14. sparse[c][T.idx] = None /\ want[c] \in [Entities -> Values]
    BY <1>3, <2>2, <2>4
  <2>5. /\ ColumnOK(r2, s2, w2)
        /\ \A i \in Idx : s2[i] # None <=> sparse[c][i] # None \/ i = T.idx
        /\ \A p \in DOMAIN r2 : (\E q \in DOMAIN rows[c] : r2[p].e = rows[c][q].e) \/ r2[p].e = T
    <3>1. AddedOK(r2, s2, w2, rows[c], sparse[c], T)
      BY <2>1, <2>2, <2>4, <2>14, AddedColumn
    <3>. HIDE DEF r2, s2, w2
    <3>. QED BY <3>1 DEF AddedOK
  <2>. HIDE DEF r2, s2, w2
  <2>7. /\ rows'[c] = r2 /\ sparse'[c] = s2 /\ want'[c] = w2
        /\ \A b \in Comps : b # c => rows'[b] = rows[b] /\ sparse'[b] = sparse[b] /\ want'[b] = want[b]
    BY <2>2, <2>3, <2>4, <2>6
  <2>15. r2 \in Seq(Rows) /\ s2 \in [Idx -> Nat \cup {None}]
    BY <2>5 DEF ColumnOK
  <2>16. rows' \in [Comps -> Seq(Rows)]
    BY <2>3, <2>4, <2>15
  <2>17. sparse' \in [Comps -> [Idx -> Nat \cup {None}]]
    BY <2>4, <2>6, <2>15
  <2>18. comp_count' \in [Idx -> Nat]
    BY <2>1, <2>3, <2>4
  <2>8. /\ rows' \in [Comps -> Seq(Rows)] /\ sparse' \in [Comps -> [Idx -> Nat \cup {None}]]
        /\ comp_count' \in [Idx -> Nat]
    BY <2>16, <2>17, <2>18
  <2>9. want' \in [Comps -> [Entities -> Values]]
    BY <2>2, <2>4, <2>6 DEF w2, Written
  <2>10. \A b \in Comps : ColumnOK(rows'[b], sparse'[b], want'[b])
    BY <2>4, <2>5, <2>7 DEF ColumnsOK
  <2>11. \A b \in Comps : \A p \in DOMAIN rows'[b] :
            rows'[b][p].e.idx \in live /\ gen[rows'[b][p].e.idx] = rows'[b][p].e.gen
    <3>1. \A b \in Comps : \A p \in DOMAIN rows[b] :
             rows[b][p].e.idx \in live /\ gen[rows[b][p].e.idx] = rows[b][p].e.gen
      BY <2>4 DEF ColumnsOK
    <3>2. \A p \in DOMAIN r2 : r2[p].e.idx \in live /\ gen[r2[p].e.idx] = r2[p].e.gen
      BY <2>1, <2>2, <2>5, <3>1
    <3>. QED BY <2>7, <3>1, <3>2
  <2>12. ASSUME NEW i \in Idx PROVE comp_count'[i] = Cardinality(Holding(sparse', i))
    <3>1. comp_count[i] = Cardinality(Holding(sparse, i))
      BY <2>4 DEF ColumnsOK
    <3>2. CASE i = T.idx
      <4>1. Holding(sparse', i) = Holding(sparse, i) \cup {c} /\ c \notin Holding(sparse, i)
        BY <1>3, <2>2, <2>5, <2>7, <3>2 DEF Holding, c, T
      <4>2. Cardinality(Holding(sparse, i) \cup {c}) = Cardinality(Holding(sparse, i)) + 1
        BY <4>1, HoldingFacts, FS_AddElement
      <4>. QED BY <2>3, <2>4, <3>1, <3>2, <4>1, <4>2
    <3>3. CASE i # T.idx
      <4>1. Holding(sparse', i) = Holding(sparse, i)
        BY <2>5, <2>7, <3>3 DEF Holding
      <4>. QED BY <2>3, <2>4, <3>1, <3>3, <4>1
    <3>. QED BY <3>2, <3>3
  <2>13. ColumnsOK(gen', live', comp_count', rows', sparse', want')
    BY <2>3, <2>8, <2>9, <2>10, <2>11, <2>12, ZenonT(60) DEF ColumnsOK
  <2>. QED BY <2>3, <2>13, SameSavedColumns
<1>. QED BY <1>2, <1>3

\* column_remove of the model is that of the lemmas.
LEMMA RemovedHere ==
    ASSUME NEW c, NEW e
    PROVE  /\ RowsWithout(c, e) = RowsRemoved(rows[c], sparse[c], e)
           /\ SparseWithout(c, e) = SparseRemoved(rows[c], sparse[c], e)
BY DEF RowsWithout, SparseWithout, RowsRemoved, SparseRemoved

LEMMA RemoveColumnInv == SlotInv /\ ColumnInv /\ ApplyRemove => ColumnInv'
<1>. SUFFICES ASSUME SlotInv, ColumnInv, ApplyRemove PROVE ColumnInv'
  OBVIOUS
<1>. DEFINE c == Head(todo).comp
            T == Target
            r2 == RowsRemoved(rows[c], sparse[c], T)
            s2 == SparseRemoved(rows[c], sparse[c], T)
<1>1. pc = "apply" /\ todo # <<>> /\ Head(todo).kind = "remove"
  BY DEF ApplyRemove, Applying
<1>2. CASE ~(Alive(T) /\ HasRow(c, T) /\ comp_count[T.idx] > 0)
  BY <1>2, SameColumns DEF ApplyRemove, CheckFails, arenas, history
<1>3. CASE Alive(T) /\ HasRow(c, T) /\ comp_count[T.idx] > 0
  <2>1. /\ Head(todo) \in Records /\ T \in Entities /\ T.idx \in live /\ T.idx \in Idx
        /\ gen[T.idx] = T.gen
    BY <1>1, <1>3, AliveFacts
  <2>2. c \in Comps
    BY <1>1, <2>1, RecordFacts
  <2>3. /\ rows' = [rows EXCEPT ![c] = r2]
        /\ sparse' = [sparse EXCEPT ![c] = s2]
        /\ comp_count' = [comp_count EXCEPT ![T.idx] = comp_count[T.idx] - 1]
        /\ UNCHANGED <<gen, live, saved, want>>
    BY <1>3, RemovedHere DEF ApplyRemove, history
  <2>4. /\ ColumnsOK(gen, live, comp_count, rows, sparse, want)
        /\ ColumnOK(rows[c], sparse[c], want[c])
        /\ rows \in [Comps -> Seq(Rows)] /\ sparse \in [Comps -> [Idx -> Nat \cup {None}]]
        /\ want \in [Comps -> [Entities -> Values]] /\ comp_count \in [Idx -> Nat]
    BY <2>2 DEF ColumnInv, ColumnsOK
  <2>5. sparse[c][T.idx] # None /\ rows[c][sparse[c][T.idx]].e = T
    BY <1>3 DEF HasRow
  <2>7. comp_count[T.idx] > 0
    BY <1>3
  <2>. HIDE DEF c, T
  <2>6. /\ ColumnOK(r2, s2, want[c])
        /\ \A i \in Idx : s2[i] # None <=> sparse[c][i] # None /\ i # T.idx
        /\ \A p \in DOMAIN r2 : \E q \in DOMAIN rows[c] : r2[p].e = rows[c][q].e
    <3>1. RemovedOK(r2, s2, want[c], rows[c], sparse[c], T)
      BY <2>1, <2>4, <2>5, RemovedColumn
    <3>. HIDE DEF r2, s2
    <3>. QED BY <3>1 DEF RemovedOK
  <2>. HIDE DEF r2, s2
  <2>8. /\ rows'[c] = r2 /\ sparse'[c] = s2
        /\ \A b \in Comps : b # c => rows'[b] = rows[b] /\ sparse'[b] = sparse[b]
    BY <2>2, <2>3, <2>4
  <2>9. /\ rows' \in [Comps -> Seq(Rows)] /\ sparse' \in [Comps -> [Idx -> Nat \cup {None}]]
        /\ comp_count' \in [Idx -> Nat]
    BY <2>1, <2>2, <2>3, <2>4, <2>6, <2>7 DEF ColumnOK
  <2>10. \A b \in Comps : ColumnOK(rows'[b], sparse'[b], want[b])
    BY <2>4, <2>6, <2>8 DEF ColumnsOK
  <2>11. \A b \in Comps : \A p \in DOMAIN rows'[b] :
            rows'[b][p].e.idx \in live /\ gen[rows'[b][p].e.idx] = rows'[b][p].e.gen
    <3>1. \A b \in Comps : \A p \in DOMAIN rows[b] :
             rows[b][p].e.idx \in live /\ gen[rows[b][p].e.idx] = rows[b][p].e.gen
      BY <2>4 DEF ColumnsOK
    <3>2. \A p \in DOMAIN r2 : r2[p].e.idx \in live /\ gen[r2[p].e.idx] = r2[p].e.gen
      BY <2>2, <2>6, <3>1
    <3>. QED BY <2>8, <3>1, <3>2
  <2>12. ASSUME NEW i \in Idx PROVE comp_count'[i] = Cardinality(Holding(sparse', i))
    <3>1. comp_count[i] = Cardinality(Holding(sparse, i))
      BY <2>4 DEF ColumnsOK
    <3>2. CASE i = T.idx
      <4>1. Holding(sparse', i) = Holding(sparse, i) \ {c} /\ c \in Holding(sparse, i)
        BY <2>2, <2>5, <2>6, <2>8, <3>2 DEF Holding
      <4>2. Cardinality(Holding(sparse, i) \ {c}) = Cardinality(Holding(sparse, i)) - 1
        BY <4>1, HoldingFacts, FS_RemoveElement
      <4>. QED BY <2>3, <2>4, <3>1, <3>2, <4>1, <4>2
    <3>3. CASE i # T.idx
      <4>1. Holding(sparse', i) = Holding(sparse, i)
        BY <2>6, <2>8, <3>3 DEF Holding
      <4>. QED BY <2>3, <2>4, <3>1, <3>3, <4>1
    <3>. QED BY <3>2, <3>3
  <2>13. ColumnsOK(gen', live', comp_count', rows', sparse', want')
    BY <2>3, <2>4, <2>9, <2>10, <2>11, <2>12, ZenonT(60) DEF ColumnsOK
  <2>. QED BY <2>3, <2>13, SameSavedColumns
<1>. QED BY <1>2, <1>3

LEMMA SetFieldColumnInv == SlotInv /\ ColumnInv /\ ApplySetField => ColumnInv'
<1>. SUFFICES ASSUME SlotInv, ColumnInv, ApplySetField PROVE ColumnInv'
  OBVIOUS
<1>. DEFINE c == Head(todo).comp
            v == Head(todo).v
            T == Target
            r2 == RowsWritten(rows[c], sparse[c], T, v)
            w2 == Written(want[c], T, v)
<1>1. pc = "apply" /\ todo # <<>> /\ Head(todo).kind = "set_field"
  BY DEF ApplySetField, Applying
<1>2. CASE ~(Alive(T) /\ HasRow(c, T))
  BY <1>2, SameColumns DEF ApplySetField, CheckFails, arenas, history
<1>3. CASE Alive(T) /\ HasRow(c, T)
  <2>1. Head(todo) \in Records /\ T \in Entities
    BY <1>1, AliveFacts
  <2>2. c \in Comps /\ v \in Values
    BY <1>1, <2>1, RecordFacts
  <2>3. /\ rows' = [rows EXCEPT ![c][sparse[c][T.idx]].v = v]
        /\ want' = [want EXCEPT ![c][T] = v]
        /\ UNCHANGED <<gen, live, saved, comp_count, sparse>>
    BY <1>3 DEF ApplySetField
  <2>4. /\ ColumnsOK(gen, live, comp_count, rows, sparse, want)
        /\ ColumnOK(rows[c], sparse[c], want[c])
        /\ rows \in [Comps -> Seq(Rows)] /\ want \in [Comps -> [Entities -> Values]]
    BY <2>2 DEF ColumnInv, ColumnsOK
  <2>5. sparse[c][T.idx] # None /\ rows[c][sparse[c][T.idx]].e = T
    BY <1>3 DEF HasRow
  <2>7. rows' = [rows EXCEPT ![c] = r2] /\ want' = [want EXCEPT ![c] = w2]
    BY <2>2, <2>3, <2>4 DEF RowsWritten, Written
  <2>8. want' \in [Comps -> [Entities -> Values]]
    BY <2>2, <2>4, <2>7 DEF Written
  <2>14. want[c] \in [Entities -> Values]
    BY <2>2, <2>4
  <2>. HIDE DEF c, v, T
  <2>6. /\ ColumnOK(r2, sparse[c], w2)
        /\ DOMAIN r2 = DOMAIN rows[c] /\ \A p \in DOMAIN rows[c] : r2[p].e = rows[c][p].e
    <3>1. WrittenOK(r2, sparse[c], w2, rows[c])
      BY <2>1, <2>2, <2>4, <2>5, <2>14, WrittenColumn
    <3>. HIDE DEF r2, w2
    <3>. QED BY <3>1 DEF WrittenOK
  <2>. HIDE DEF r2, w2
  <2>9. /\ rows'[c] = r2 /\ want'[c] = w2
        /\ \A b \in Comps : b # c => rows'[b] = rows[b] /\ want'[b] = want[b]
    BY <2>2, <2>4, <2>7
  <2>10. rows' \in [Comps -> Seq(Rows)]
    BY <2>2, <2>4, <2>6, <2>7 DEF ColumnOK
  <2>11. \A b \in Comps : ColumnOK(rows'[b], sparse[b], want'[b])
    BY <2>4, <2>6, <2>9 DEF ColumnsOK
  <2>12. \A b \in Comps : \A p \in DOMAIN rows'[b] :
            rows'[b][p].e.idx \in live /\ gen[rows'[b][p].e.idx] = rows'[b][p].e.gen
    <3>1. \A b \in Comps : \A p \in DOMAIN rows[b] :
             rows[b][p].e.idx \in live /\ gen[rows[b][p].e.idx] = rows[b][p].e.gen
      BY <2>4 DEF ColumnsOK
    <3>2. \A p \in DOMAIN r2 : r2[p].e.idx \in live /\ gen[r2[p].e.idx] = r2[p].e.gen
      BY <2>2, <2>6, <3>1
    <3>. QED BY <2>9, <3>1, <3>2
  <2>16. /\ sparse \in [Comps -> [Idx -> Nat \cup {None}]] /\ comp_count \in [Idx -> Nat]
         /\ \A i \in Idx : comp_count[i] = Cardinality(Holding(sparse, i))
    BY <2>4 DEF ColumnsOK
  <2>15. ColumnsOK(gen, live, comp_count, rows', sparse, want')
    BY <2>8, <2>10, <2>11, <2>12, <2>16 DEF ColumnsOK
  <2>13. ColumnsOK(gen', live', comp_count', rows', sparse', want')
    BY <2>3, <2>15
  <2>. QED BY <2>3, <2>13, SameSavedColumns
<1>. QED BY <1>2, <1>3

LEMMA DestroyColumnInv == SlotInv /\ ColumnInv /\ ApplyDestroy => ColumnInv'
<1>. SUFFICES ASSUME SlotInv, ColumnInv, ApplyDestroy PROVE ColumnInv'
  OBVIOUS
<1>. DEFINE T == Target
            i0 == Target.idx
<1>1. /\ pc = "apply" /\ todo # <<>> /\ Alive(T)
      /\ rows' = [c \in Comps |-> IF HasRow(c, T) THEN RowsWithout(c, T) ELSE rows[c]]
      /\ sparse' = [c \in Comps |-> IF HasRow(c, T) THEN SparseWithout(c, T) ELSE sparse[c]]
      /\ comp_count' = [comp_count EXCEPT ![i0] = 0]
      /\ live' = live \ {i0} /\ UNCHANGED <<saved, want>>
  BY DEF ApplyDestroy, Applying, history
<1>2. T \in Entities /\ i0 \in live /\ i0 \in Idx /\ gen[i0] = T.gen
  BY <1>1, AliveFacts
<1>3. \A i \in Idx : i # i0 => gen'[i] = gen[i]
  BY DestroyFacts
<1>4. /\ ColumnsOK(gen, live, comp_count, rows, sparse, want)
      /\ want \in [Comps -> [Entities -> Values]] /\ comp_count \in [Idx -> Nat]
  BY DEF ColumnInv, ColumnsOK
<1>5. ASSUME NEW c \in Comps
      PROVE  /\ ColumnOK(rows'[c], sparse'[c], want[c])
             /\ \A i \in Idx : sparse'[c][i] # None <=> sparse[c][i] # None /\ i # i0
             /\ \A p \in DOMAIN rows'[c] : \E q \in DOMAIN rows[c] : rows'[c][p].e = rows[c][q].e
  <2>1. ColumnOK(rows[c], sparse[c], want[c])
    BY <1>4 DEF ColumnsOK
  <2>2. CASE HasRow(c, T)
    <3>1. /\ rows'[c] = RowsRemoved(rows[c], sparse[c], T)
          /\ sparse'[c] = SparseRemoved(rows[c], sparse[c], T)
      BY <1>1, <2>2, RemovedHere
    <3>2. sparse[c][T.idx] # None /\ rows[c][sparse[c][T.idx]].e = T
      BY <2>2 DEF HasRow
    <3>3. RemovedOK(RowsRemoved(rows[c], sparse[c], T), SparseRemoved(rows[c], sparse[c], T),
                    want[c], rows[c], sparse[c], T)
      <4>1. T \in Entities /\ sparse[c][T.idx] # None
        BY <1>2, <3>2
      <4>. HIDE DEF T
      <4>. QED BY <2>1, <3>2, <4>1, RemovedColumn
    <3>4. RemovedOK(rows'[c], sparse'[c], want[c], rows[c], sparse[c], T)
      BY <3>1, <3>3
    <3>. QED BY <3>4 DEF RemovedOK
  <2>3. CASE ~HasRow(c, T)
    <3>1. rows'[c] = rows[c] /\ sparse'[c] = sparse[c]
      BY <1>1, <2>3
    <3>2. sparse[c][i0] = None
      BY <1>2, <1>4, <2>3, RowOfAlive DEF HasRow
    <3>. QED BY <2>1, <3>1, <3>2
  <2>. QED BY <2>2, <2>3
<1>. HIDE DEF i0, T
<1>6. \A c \in Comps : \A p \in DOMAIN rows'[c] :
         rows'[c][p].e.idx \in live' /\ gen'[rows'[c][p].e.idx] = rows'[c][p].e.gen
  <2>. SUFFICES ASSUME NEW c \in Comps, NEW p \in DOMAIN rows'[c]
                PROVE  rows'[c][p].e.idx \in live' /\ gen'[rows'[c][p].e.idx] = rows'[c][p].e.gen
    OBVIOUS
  <2>. DEFINE j == rows'[c][p].e.idx
  <2>1. ColumnOK(rows'[c], sparse'[c], want[c])
    BY <1>5
  <2>2. j \in Idx /\ sparse'[c][j] = p /\ p # None
    BY <2>1, ColumnFacts
  <2>3. j # i0
    BY <1>5, <2>2
  <2>4. j \in live /\ gen[j] = rows'[c][p].e.gen
    BY <1>4, <1>5, ZenonT(60) DEF ColumnsOK
  <2>. QED BY <1>1, <1>3, <2>2, <2>3, <2>4
<1>7. ASSUME NEW i \in Idx PROVE comp_count'[i] = Cardinality(Holding(sparse', i))
  <2>1. CASE i = i0
    <3>1. Holding(sparse', i) = {}
      BY <1>5, <2>1 DEF Holding
    <3>. QED BY <1>1, <1>4, <2>1, <3>1, FS_EmptySet
  <2>2. CASE i # i0
    <3>1. Holding(sparse', i) = Holding(sparse, i)
      BY <1>5, <2>2 DEF Holding
    <3>2. comp_count[i] = Cardinality(Holding(sparse, i))
      BY <1>4 DEF ColumnsOK
    <3>. QED BY <1>1, <1>4, <2>2, <3>1, <3>2
  <2>. QED BY <2>1, <2>2
<1>8. /\ rows' \in [Comps -> Seq(Rows)] /\ sparse' \in [Comps -> [Idx -> Nat \cup {None}]]
      /\ comp_count' \in [Idx -> Nat]
  <2>1. \A c \in Comps : rows'[c] \in Seq(Rows) /\ sparse'[c] \in [Idx -> Nat \cup {None}]
    BY <1>5 DEF ColumnOK
  <2>. QED BY <1>1, <1>4, <2>1
<1>9. ColumnsOK(gen', live', comp_count', rows', sparse', want')
  BY <1>1, <1>4, <1>5, <1>6, <1>7, <1>8 DEF ColumnsOK
<1>. QED BY <1>1, <1>9, SameSavedColumns

LEMMA InitColumnInv == Init => ColumnInv
<1>. SUFFICES ASSUME Init PROVE ColumnInv
  OBVIOUS
<1>1. /\ gen = [i \in Idx |-> 0] /\ live = {} /\ comp_count = [i \in Idx |-> 0]
      /\ rows = [c \in Comps |-> <<>>] /\ sparse = [c \in Comps |-> [i \in Idx |-> None]]
      /\ want = [c \in Comps |-> [e \in Entities |-> Nothing]] /\ saved = <<>>
  BY DEF Init
<1>2. Nothing \in Values
  BY EcsBounds DEF Nothing
<1>3. /\ rows \in [Comps -> Seq(Rows)] /\ sparse \in [Comps -> [Idx -> Nat \cup {None}]]
      /\ want \in [Comps -> [Entities -> Values]] /\ comp_count \in [Idx -> Nat]
  BY <1>1, <1>2
<1>4. \A c \in Comps : ColumnOK(rows[c], sparse[c], want[c])
  BY <1>1 DEF ColumnOK
<1>5. \A i \in Idx : Holding(sparse, i) = {}
  BY <1>1 DEF Holding
<1>6. ColumnsOK(gen, live, comp_count, rows, sparse, want)
  <2>1. \A i \in Idx : comp_count[i] = Cardinality(Holding(sparse, i))
    BY <1>1, <1>5, FS_EmptySet
  <2>2. \A c \in Comps : DOMAIN rows[c] = {}
    BY <1>1
  <2>. QED BY <1>3, <1>4, <2>1, <2>2 DEF ColumnsOK
<1>. QED BY <1>1, <1>6 DEF ColumnInv

\* The inductive step of the columns.
LEMMA NextColumnInv == SlotInv /\ ColumnInv /\ [Next]_vars => ColumnInv'
<1>. SUFFICES ASSUME SlotInv, ColumnInv, [Next]_vars PROVE ColumnInv'
  OBVIOUS
<1>1. CASE Verb \/ NextSystem \/ ApplyBegin \/ ApplyDestroyDead \/ ApplyEnd \/ UNCHANGED vars
  <2>1. UNCHANGED <<gen, live, saved, comp_count, rows, sparse, want>>
    <3>1. CASE Verb
      BY <3>1 DEF Verb, SpawnReused, SpawnFresh, SpawnExhausted, RecordVerb, Reserve, arenas, history
    <3>2. CASE NextSystem \/ ApplyBegin \/ ApplyDestroyDead \/ ApplyEnd \/ UNCHANGED vars
      BY <3>2 DEF NextSystem, ApplyBegin, ApplyDestroyDead, ApplyEnd, vars, arenas, history
    <3>. QED BY <1>1, <3>1, <3>2
  <2>. QED BY <2>1, SameColumns
<1>2. CASE ApplySpawn
  <2>1. UNCHANGED <<saved, comp_count, rows, sparse, want>>
    BY <1>2 DEF ApplySpawn
  <2>2. live \subseteq live'
    BY <1>2, SpawnSucceeds
  <2>3. \A i \in live : i \in Idx /\ i < slot_count
    BY DEF SlotInv, SlotsOK, SlotMapOK
  <2>4. \A i \in live : gen'[i] = gen[i]
    BY <1>2, <2>3, SpawnSucceeds
  <2>. QED BY <2>1, <2>2, <2>4, SameColumns
<1>3. CASE ApplyDestroy
  BY <1>3, DestroyColumnInv
<1>4. CASE ApplyAdd
  BY <1>4, AddColumnInv
<1>5. CASE ApplyRemove
  BY <1>5, RemoveColumnInv
<1>6. CASE ApplySetField
  BY <1>6, SetFieldColumnInv
<1>7. CASE Save
  <2>1. UNCHANGED <<gen, live, comp_count, rows, sparse, want>>
    BY <1>7 DEF Save, arenas, history
  <2>2. /\ saved'.gen = gen /\ saved'.live = live /\ saved'.comp_count = comp_count
        /\ saved'.rows = rows /\ saved'.sparse = sparse /\ saved'.want = want
    BY <1>7 DEF Save
  <2>3. ColumnsOK(gen, live, comp_count, rows, sparse, want)
    BY DEF ColumnInv
  <2>4. ColumnsOK(gen', live', comp_count', rows', sparse', want')
    BY <2>1, <2>3
  <2>5. ColumnsOK(saved'.gen, saved'.live, saved'.comp_count, saved'.rows, saved'.sparse, saved'.want)
    BY <2>2, <2>3
  <2>. QED BY <2>4, <2>5 DEF ColumnInv
<1>8. CASE Restore
  <2>1. /\ saved # <<>> /\ saved' = saved
        /\ gen' = saved.gen /\ live' = saved.live /\ comp_count' = saved.comp_count
        /\ rows' = saved.rows /\ sparse' = saved.sparse /\ want' = saved.want
    BY <1>8 DEF Restore
  <2>2. ColumnsOK(gen', live', comp_count', rows', sparse', want')
    BY <2>1 DEF ColumnInv
  <2>. QED BY <2>1, <2>2, SameSavedColumns
<1>. QED BY <1>1, <1>2, <1>3, <1>4, <1>5, <1>6, <1>7, <1>8 DEF Next, Apply

-----------------------------------------------------------------------------
\* What the two invariants say of the properties.

\* No two pending handles have a slot in common.
LEMMA PendingDistinct ==
    ASSUME SlotInv
    PROVE  \A d, e \in PendingEntities : d.idx = e.idx => d = e
<1>1. /\ SlotsOK /\ HandlesOK /\ RecordsOK /\ PendingEntities \subseteq Entities
      /\ SlotMapOK(gen, live, free, slot_count, free_count)
  BY PendingIssued DEF SlotInv, SlotsOK
<1>2. CASE Reserving
  <2>1. reserved_free \in 0 .. free_count /\ pending_fresh \in Nat /\ slot_count \in Nat
    BY <1>1, <1>2, IdxFacts DEF Reserving, SlotMapOK
  <2>2. \A i \in ReservedSlots : i < slot_count
    BY <1>1, <2>1, ReservedFacts, ListedFacts
  <2>3. ASSUME NEW d \in PendingEntities, NEW e \in PendingEntities, d.idx = e.idx
        PROVE  d.gen = e.gen
    <3>1. CASE d.idx \in ReservedSlots
      <4>1. d.idx \notin slot_count .. slot_count + pending_fresh - 1
        BY <2>1, <2>2, <3>1
      <4>. QED BY <1>1, <1>2, <2>3, <3>1, <4>1 DEF Reserving
    <3>2. CASE d.idx \notin ReservedSlots
      BY <1>1, <1>2, <2>3, <3>2 DEF Reserving
    <3>. QED BY <3>1, <3>2
  <2>. QED BY <1>1, <2>3, EntityFacts
<1>3. CASE Settling
  BY <1>1, <1>3, PendingApart
<1>. QED BY <1>2, <1>3 DEF SlotInv, ControlOK

\* So there are as many of them as of their slots.
LEMMA PendingCounted ==
    ASSUME SlotInv
    PROVE  /\ PendingSlots \subseteq Idx /\ IsFiniteSet(PendingEntities)
           /\ Cardinality(PendingSlots) = Cardinality(PendingEntities)
<1>1. PendingEntities \subseteq Entities
  BY PendingIssued DEF SlotInv
<1>2. PendingSlots \subseteq Idx
  BY <1>1, EntityFacts DEF PendingSlots
<1>. DEFINE f == [i \in PendingSlots |-> CHOOSE e \in PendingEntities : e.idx = i]
<1>3. \A i \in PendingSlots : f[i] \in PendingEntities /\ f[i].idx = i
  BY DEF PendingSlots
<1>4. DOMAIN f = PendingSlots
  OBVIOUS
<1>. HIDE DEF f
<1>5. {f[i] : i \in PendingSlots} = PendingEntities
  <2>1. \A e \in PendingEntities : e.idx \in PendingSlots
    BY DEF PendingSlots
  <2>2. \A e \in PendingEntities : f[e.idx] = e
    BY <1>3, <2>1, PendingDistinct
  <2>. QED BY <1>3, <2>1, <2>2
<1>6. IsFiniteSet(PendingSlots)
  BY <1>2, SubIdx
<1>7. \A i, j \in PendingSlots : f[i] = f[j] => i = j
  BY <1>3
<1>8. /\ IsFiniteSet({f[i] : i \in PendingSlots})
      /\ Cardinality({f[i] : i \in PendingSlots}) = Cardinality(PendingSlots)
  BY <1>4, <1>6, <1>7, CountImage
<1>. QED BY <1>2, <1>5, <1>8

\* The number of slots the window is to allocate never exceeds the table.
LEMMA FreshBounded ==
    ASSUME SlotInv
    PROVE  pending_fresh \in 0 .. MaxIdx + 1 /\ reserved_free \in 0 .. MaxIdx + 1
<1>1. /\ SlotsOK /\ HandlesOK /\ RecordsOK /\ MaxIdx \in Nat
      /\ slot_count \in 0 .. MaxIdx + 1 /\ free_count \in 0 .. MaxIdx + 1
  BY IdxFacts DEF SlotInv, SlotsOK, SlotMapOK
<1>2. CASE Reserving
  BY <1>1, <1>2 DEF Reserving
<1>3. CASE Settling
  <2>. DEFINE F == {e \in PendingEntities : e.gen = 1}
  <2>1. IsFiniteSet(PendingEntities) /\ F \subseteq PendingEntities
    BY PendingCounted
  <2>2. IsFiniteSet(F) /\ Cardinality(F) <= Cardinality(PendingEntities)
    BY <2>1, FS_Subset
  <2>3. Cardinality(PendingEntities) \in 0 .. MaxIdx + 1
    <3>1. Cardinality(PendingSlots) \in 0 .. MaxIdx + 1
      BY PendingCounted, SubIdx
    <3>. QED BY <3>1, PendingCounted
  <2>4. Cardinality(F) \in Nat
    BY <2>2, FS_CardinalityType
  <2>5. pending_fresh = Cardinality(F) /\ reserved_free = 0
    BY <1>3 DEF Settling
  <2>. QED BY <1>1, <2>2, <2>3, <2>4, <2>5
<1>. QED BY <1>2, <1>3 DEF SlotInv, ControlOK

\* The type invariant follows.
LEMMA TypesHold == SlotInv /\ ColumnInv => TypeOK
<1>. SUFFICES ASSUME SlotInv, ColumnInv PROVE TypeOK
  OBVIOUS
<1>1. /\ gen \in [Idx -> 0 .. GenMax] /\ live \subseteq Idx /\ free \in [Pos -> Idx]
      /\ slot_count \in 0 .. MaxIdx + 1 /\ free_count \in 0 .. MaxIdx + 1
  BY DEF SlotInv, SlotsOK, SlotMapOK
<1>2. live_count \in 0 .. MaxIdx + 1 /\ quarantined \in 0 .. MaxIdx + 1
  <2>1. RetiredSlots(live, free, slot_count, free_count, PendingSlots) \subseteq Idx
    BY DEF RetiredSlots
  <2>. QED BY <1>1, <2>1, SubIdx DEF SlotInv, SlotsOK, CountsOK
<1>3. /\ window_popped \subseteq Idx /\ running \in Chunks
      /\ pc \in {"record", "apply"} \cup Fatal
  BY DEF SlotInv, ControlOK
<1>4. todo \in Seq(Records) /\ \A i \in Chunks : chunks[i] \in Seq(Records)
  BY DEF SlotInv, RecordsOK
<1>5. issued \subseteq Entities /\ realized \subseteq issued
  BY DEF SlotInv, HandlesOK
<1>6. /\ rows \in [Comps -> Seq(Rows)] /\ sparse \in [Comps -> [Idx -> Nat \cup {None}]]
      /\ want \in [Comps -> [Entities -> Values]]
  BY DEF ColumnInv, ColumnsOK
<1>7. comp_count \in [Idx -> 0 .. Cardinality(Comps)]
  <2>1. comp_count \in [Idx -> Nat] /\ \A i \in Idx : comp_count[i] = Cardinality(Holding(sparse, i))
    BY DEF ColumnInv, ColumnsOK
  <2>2. Cardinality(Comps) \in Nat
    BY EcsBounds, FS_CardinalityType
  <2>3. \A i \in Idx : comp_count[i] \in Nat /\ comp_count[i] <= Cardinality(Comps)
    BY <2>1, HoldingFacts
  <2>. QED BY <2>1, <2>2, <2>3
<1>8. \A c \in Comps : rows[c] \in Seq([e : Entities, v : Values])
  BY <1>6 DEF Rows
<1>. QED BY <1>1, <1>2, <1>3, <1>4, <1>5, <1>6, <1>7, <1>8, FreshBounded DEF TypeOK

\* Every slot is counted once.
LEMMA PartitionHolds == SlotInv => SlotsPartitioned
<1>. SUFFICES ASSUME SlotInv PROVE SlotsPartitioned
  OBVIOUS
<1>1. /\ SlotsOK /\ HandlesOK /\ RecordsOK /\ PendingEntities \subseteq Entities
      /\ SlotMapOK(gen, live, free, slot_count, free_count)
      /\ CountsOK(gen, live, free, slot_count, live_count, quarantined, free_count, PendingSlots)
  BY PendingIssued DEF SlotInv, SlotsOK
<1>2. FreeSlots = Listed(free, free_count)
  BY DEF FreeSlots, Listed
<1>3. /\ Listed(free, free_count) \subseteq Idx
      /\ Cardinality(Listed(free, free_count)) = free_count
      /\ \A i \in Listed(free, free_count) : i < slot_count /\ i \notin live /\ gen[i] >= 2
  BY <1>1, ListedFacts
<1>4. live_count = Cardinality(live)
  BY <1>1 DEF CountsOK
<1>5. slot_count \in Nat /\ slot_count <= MaxIdx + 1 /\ \A i \in live : i < slot_count
  BY <1>1, IdxFacts DEF SlotMapOK
<1>6. ASSUME Reserving
      PROVE  /\ reserved_free \in Nat /\ pending_fresh \in Nat
             /\ IsFiniteSet(ReservedSlots) /\ Cardinality(ReservedSlots) = reserved_free
             /\ ReservedSlots \subseteq Listed(free, free_count)
             /\ PendingSlots = ReservedSlots \cup slot_count .. slot_count + pending_fresh - 1
  <2>1. /\ reserved_free \in 0 .. free_count /\ pending_fresh \in Nat
        /\ slot_count + pending_fresh <= MaxIdx + 1 /\ free_count \in Nat
    BY <1>1, <1>6, IdxFacts DEF Reserving, SlotMapOK
  <2>2. /\ IsFiniteSet(ReservedSlots) /\ Cardinality(ReservedSlots) = reserved_free
        /\ ReservedSlots \subseteq Listed(free, free_count)
    BY <1>1, <2>1, ReservedFacts
  <2>3. ASSUME NEW i \in ReservedSlots PROVE i \in PendingSlots
    <3>1. i \in Idx /\ gen[i] \in 1 .. GenMax
      BY <1>1, <1>3, <2>2, IdxFacts DEF SlotMapOK
    <3>2. [idx |-> i, gen |-> gen[i]] \in Entities
      BY <3>1, EntityFacts
    <3>3. [idx |-> i, gen |-> gen[i]] \in PendingEntities
      BY <1>6, <2>3, <3>2 DEF Reserving
    <3>. QED BY <3>3 DEF PendingSlots
  <2>4. ASSUME NEW i \in slot_count .. slot_count + pending_fresh - 1 PROVE i \in PendingSlots
    <3>1. i \in Idx /\ 1 \in 1 .. GenMax
      BY <1>5, <2>1, <2>4, IdxFacts
    <3>2. [idx |-> i, gen |-> 1] \in Entities
      BY <3>1, EntityFacts
    <3>3. [idx |-> i, gen |-> 1] \in PendingEntities
      BY <1>6, <2>4, <3>2 DEF Reserving
    <3>. QED BY <3>3 DEF PendingSlots
  <2>5. ASSUME NEW i \in PendingSlots
        PROVE  i \in ReservedSlots \cup slot_count .. slot_count + pending_fresh - 1
    <3>1. PICK e \in PendingEntities : e.idx = i
      BY DEF PendingSlots
    <3>. QED BY <1>1, <1>6, <3>1 DEF Reserving
  <2>. QED BY <2>1, <2>2, <2>3, <2>4, <2>5
<1>7. live \cap (FreeSlots \cup PendingSlots) = {}
  <2>1. CASE Reserving
    <3>1. \A i \in slot_count .. slot_count + pending_fresh - 1 : i \notin live
      BY <1>5, <1>6, <2>1
    <3>. QED BY <1>2, <1>3, <1>6, <2>1, <3>1
  <2>2. CASE Settling
    BY <1>2, <1>3, <2>2 DEF Settling, PendingSlots
  <2>. QED BY <2>1, <2>2 DEF SlotInv, ControlOK
<1>8. ASSUME pc = "record"
      PROVE  /\ FreeSlots \cap PendingSlots = ReservedSlots
             /\ slot_count = live_count + free_count + quarantined
             /\ Cardinality(PendingSlots) = pending_fresh + reserved_free
  <2>1. Reserving
    BY <1>8 DEF SlotInv, ControlOK, Recording
  <2>. DEFINE fresh == slot_count .. slot_count + pending_fresh - 1
  <2>2. \A i \in fresh : i \notin Listed(free, free_count)
    BY <1>3, <1>5, <1>6, <2>1
  <2>3. FreeSlots \cap PendingSlots = ReservedSlots
    BY <1>2, <1>6, <2>1, <2>2
  <2>4. slot_count = live_count + free_count + quarantined
    BY <1>1, <2>1, ReservedCounted, SlotsCounted, <1>5, IdxFacts DEF SlotMapOK
  <2>5. IsFiniteSet(fresh) /\ Cardinality(fresh) = pending_fresh
    <3>1. slot_count \in Int /\ slot_count + pending_fresh - 1 \in Int /\ pending_fresh \in Nat
      BY <1>5, <1>6, <2>1
    <3>2. IsFiniteSet(fresh) /\ Cardinality(fresh) =
             IF slot_count > slot_count + pending_fresh - 1 THEN 0
             ELSE slot_count + pending_fresh - 1 - slot_count + 1
      BY <3>1, FS_Interval
    <3>. HIDE DEF fresh
    <3>. QED BY <3>1, <3>2
  <2>6. ReservedSlots \cap fresh = {}
    BY <1>6, <2>1, <2>2
  <2>. HIDE DEF fresh
  <2>7. Cardinality(ReservedSlots \cup fresh) =
           Cardinality(ReservedSlots) + Cardinality(fresh) - Cardinality(ReservedSlots \cap fresh)
    BY <1>6, <2>1, <2>5, FS_Union
  <2>8. Cardinality(ReservedSlots \cap fresh) = 0
    BY <2>6, FS_EmptySet
  <2>9. PendingSlots = ReservedSlots \cup fresh
    BY <1>6, <2>1 DEF fresh
  <2>10. Cardinality(PendingSlots) = pending_fresh + reserved_free
    BY <1>6, <2>1, <2>5, <2>7, <2>8, <2>9
  <2>. QED BY <2>3, <2>4, <2>10
<1>9. /\ PendingSlots = {e.idx : e \in PendingEntities}
      /\ ReservedSlots = {free[free_count - 1 - n] : n \in 0 .. reserved_free - 1}
  BY DEF PendingSlots, ReservedSlots, PopNext
<1>10. /\ Cardinality(FreeSlots) = free_count
       /\ Cardinality(PendingSlots) = Cardinality(PendingEntities)
  BY <1>2, <1>3, PendingCounted
<1>. HIDE DEF PendingSlots, ReservedSlots
<1>. QED BY <1>4, <1>7, <1>8, <1>9, <1>10 DEF SlotsPartitioned

\* With nothing left to apply nothing is pending.
LEMMA SettleHolds == SlotInv => ReservationsSettle
<1>. SUFFICES ASSUME SlotInv PROVE ReservationsSettle
  OBVIOUS
<1>1. ASSUME pc = "apply", todo = <<>> PROVE pending_fresh = 0 /\ reserved_free = 0
  <2>1. Settling
    BY <1>1 DEF SlotInv, ControlOK, Recording
  <2>2. \A e : e \notin PendingEntities
    BY <1>1, <2>1, PendingMember, NoneIn DEF Settling
  <2>3. {e \in PendingEntities : e.gen = 1} = {}
    BY <2>2
  <2>. QED BY <2>1, <2>3, FS_EmptySet DEF Settling
<1>2. pc = "check failed" => Head(todo).kind # SpawnKind
  BY DEF SlotInv, ControlOK
<1>. QED BY <1>1, <1>2 DEF ReservationsSettle

\* The columns are as the property says.
LEMMA ColumnsHold == SlotInv /\ ColumnInv => ColumnsInv
<1>. SUFFICES ASSUME SlotInv, ColumnInv PROVE ColumnsInv
  OBVIOUS
<1>1. /\ \A c \in Comps : ColumnOK(rows[c], sparse[c], want[c])
      /\ \A c \in Comps : \A p \in DOMAIN rows[c] :
            rows[c][p].e.idx \in live /\ gen[rows[c][p].e.idx] = rows[c][p].e.gen
      /\ \A i \in Idx : comp_count[i] = Cardinality(Holding(sparse, i))
  BY DEF ColumnInv, ColumnsOK
<1>2. \A i \in live : i < slot_count
  BY DEF SlotInv, SlotsOK, SlotMapOK
<1>3. ASSUME NEW c \in Comps
      PROVE  /\ \A p \in RowsOf(c) : Alive(rows[c][p].e) /\ sparse[c][rows[c][p].e.idx] = p
             /\ \A i \in Idx : sparse[c][i] # None => sparse[c][i] \in RowsOf(c)
                                                      /\ rows[c][sparse[c][i]].e.idx = i
             /\ \A p \in RowsOf(c) : rows[c][p].v = want[c][rows[c][p].e]
  <2>1. /\ \A p \in DOMAIN rows[c] : /\ sparse[c][rows[c][p].e.idx] = p
                                     /\ rows[c][p].v = want[c][rows[c][p].e]
        /\ \A i \in Idx : sparse[c][i] # None => sparse[c][i] \in DOMAIN rows[c]
                                                 /\ rows[c][sparse[c][i]].e.idx = i
    BY <1>1 DEF ColumnOK
  <2>2. \A p \in DOMAIN rows[c] : Alive(rows[c][p].e)
    BY <1>1, <1>2 DEF Alive
  <2>. QED BY <2>1, <2>2 DEF RowsOf
<1>4. \A i \in Idx : comp_count[i] = Cardinality({c \in Comps : sparse[c][i] # None})
  BY <1>1 DEF Holding
<1>5. ColumnsConsistent
  BY <1>3, <1>4 DEF ColumnsConsistent
<1>6. RowsHoldLastWrite
  BY <1>3 DEF RowsHoldLastWrite
<1>. QED BY <1>5, <1>6 DEF ColumnsInv

\* Only the two spawns raise the reservations, and what they return is new.
LEMMA NewHandle ==
    SlotInv /\ [Next]_vars =>
        (reserved_free' + pending_fresh' > reserved_free + pending_fresh => issued' # issued)
<1>. SUFFICES ASSUME SlotInv, [Next]_vars,
                     reserved_free' + pending_fresh' > reserved_free + pending_fresh
              PROVE  issued' # issued
  OBVIOUS
<1>1. reserved_free \in Nat /\ pending_fresh \in Nat
  BY FreshBounded, IdxFacts
<1>2. CASE SpawnReused
  <2>1. Recording /\ reserved_free < free_count
        /\ issued' = issued \cup {[idx |-> NextFree, gen |-> gen[NextFree]]}
    BY <1>2 DEF SpawnReused, CanRecord, Recording, Reserve
  <2>2. [idx |-> NextFree, gen |-> gen[NextFree]] \notin issued
    BY <2>1, NextFreeFacts
  <2>. QED BY <2>1, <2>2
<1>3. CASE SpawnFresh
  <2>1. /\ Recording /\ reserved_free >= free_count /\ slot_count + pending_fresh <= MaxIdx
        /\ issued' = issued \cup {[idx |-> slot_count + pending_fresh, gen |-> 1]}
    BY <1>3 DEF SpawnFresh, CanRecord, Recording, Reserve
  <2>2. [idx |-> slot_count + pending_fresh, gen |-> 1] \notin issued
    BY <2>1, FreshFacts
  <2>. QED BY <2>1, <2>2
<1>4. CASE SpawnExhausted \/ (\E r \in Records : RecordVerb(r)) \/ NextSystem
  <2>1. UNCHANGED <<reserved_free, pending_fresh>>
    BY <1>4 DEF SpawnExhausted, RecordVerb, NextSystem, window
  <2>. QED BY <1>1, <2>1
<1>5. CASE ApplyBegin
  BY <1>1, <1>5 DEF ApplyBegin
<1>6. CASE ApplySpawn
  <2>1. reserved_free' = reserved_free
    BY <1>6 DEF ApplySpawn
  <2>2. pending_fresh' = pending_fresh \/ pending_fresh' = pending_fresh - 1
    BY <1>6, SpawnSucceeds
  <2>. QED BY <1>1, <2>1, <2>2
<1>7. CASE ApplyDestroy \/ ApplyDestroyDead \/ ApplyAdd \/ ApplyRemove \/ ApplySetField
  <2>1. UNCHANGED <<reserved_free, pending_fresh>>
    BY <1>7 DEF ApplyDestroy, ApplyDestroyDead, ApplyAdd, ApplyRemove, ApplySetField,
                CheckFails, window
  <2>. QED BY <1>1, <2>1
<1>8. CASE ApplyEnd \/ Save \/ UNCHANGED vars
  <2>1. UNCHANGED <<reserved_free, pending_fresh>>
    BY <1>8 DEF ApplyEnd, Save, vars, window
  <2>. QED BY <1>1, <2>1
<1>9. CASE Restore
  BY <1>1, <1>9 DEF Restore, CommandsDiscard
<1>. QED BY <1>2, <1>3, <1>4, <1>5, <1>6, <1>7, <1>8, <1>9 DEF Next, Verb, Apply

-----------------------------------------------------------------------------
\* The theorems.  A restore of a world whose free list has reached the last
\* generation derives a free_count that is too small (world_post_restore), so
\* they speak of the executions that restore no such snapshot; a world that
\* is never rolled back has no others.
RestoresBelowGenMax == [][Restore => FreeBelowGenMax]_vars

\* Both invariants hold throughout.
LEMMA Invariance == Spec /\ RestoresBelowGenMax => [](SlotInv /\ ColumnInv)
<1>1. Init => SlotInv /\ ColumnInv
  BY InitSlotInv, InitColumnInv
<1>2. SlotInv /\ ColumnInv /\ [Next]_vars /\ [Restore => FreeBelowGenMax]_vars
          => (SlotInv /\ ColumnInv)'
  <2>. SUFFICES ASSUME SlotInv, ColumnInv, [Next]_vars, [Restore => FreeBelowGenMax]_vars
                PROVE  SlotInv' /\ ColumnInv'
    OBVIOUS
  <2>1. ColumnInv'
    BY NextColumnInv
  <2>2. CASE Restore => FreeBelowGenMax
    BY <2>1, <2>2, NextSlotInv
  <2>3. CASE UNCHANGED vars
    BY <2>1, <2>3, StutterInv
  <2>. QED BY <2>2, <2>3
<1>. QED BY <1>1, <1>2, PTL DEF Spec, RestoresBelowGenMax

\* However slots are reserved, reused, retired and restored: every slot is
\* live, pending, free or retired and only one of these, the counts beside the
\* arenas agree with them, and every realize finds its slot as the reservation
\* left it, so apply_commands' assertions hold.
THEOREM EntitiesSound == Spec /\ RestoresBelowGenMax => []EntitiesInv
<1>1. SlotInv /\ ColumnInv => EntitiesInv
  BY TypesHold, PartitionHolds, SettleHolds DEF EntitiesInv
<1>. QED BY <1>1, Invariance, PTL

\* Destroying a dead handle stops the process only when its spawn is still
\* pending, or for the last generation of a slot reissued in this window.
THEOREM DestroySound == Spec /\ RestoresBelowGenMax => []OnlyRecentDestroyIsFatal
<1>1. SlotInv => OnlyRecentDestroyIsFatal
  BY DEF SlotInv, ControlOK
<1>. QED BY <1>1, Invariance, PTL

\* Swap-removes leave dense rows packed and of live entities only, the sparse
\* table and comp_count in agreement with them, and every row with the value
\* last written to its entity.
THEOREM ColumnsSound == Spec /\ RestoresBelowGenMax => []ColumnsInv
<1>1. SlotInv /\ ColumnInv => ColumnsInv
  BY ColumnsHold
<1>. QED BY <1>1, Invariance, PTL

\* world_spawn never returns a handle twice on a timeline, for any number of
\* slots and generations.
THEOREM HandlesAreNew == Spec /\ RestoresBelowGenMax => SpawnIsNew
<1>1. SlotInv /\ [Next]_vars =>
        [reserved_free' + pending_fresh' > reserved_free + pending_fresh => issued' # issued]_vars
  BY NewHandle
<1>. QED BY <1>1, Invariance, PTL DEF Spec, SpawnIsNew

\* world_post_restore rebuilds from the restored bytes the counts the
\* snapshotted world had, and leaves nothing pending.
THEOREM RestoreSound == Spec /\ RestoresBelowGenMax => RestoreIsFaithfulBelowGenMax
<1>1. SlotInv /\ [Next]_vars =>
        [Restore /\ (\A p \in 0 .. saved.counts[4] - 1 : saved.gen[saved.free[p]] < GenMax)
            => counts' = saved.counts /\ PendingEntities' = {}]_vars
  BY RestoredCounts DEF FreeBelowGenMax
<1>. QED BY <1>1, Invariance, PTL DEF Spec, RestoreIsFaithfulBelowGenMax

\* A world that is never rolled back needs no hypothesis.
THEOREM WithoutRollback ==
    ASSUME ~Rollback
    PROVE  Spec => [](EntitiesInv /\ OnlyRecentDestroyIsFatal /\ ColumnsInv) /\ SpawnIsNew
<1>1. [Next]_vars => [Restore => FreeBelowGenMax]_vars
  BY DEF Restore
<1>2. Spec => RestoresBelowGenMax
  BY <1>1, PTL DEF Spec, RestoresBelowGenMax
<1>. QED BY <1>2, EntitiesSound, DestroySound, ColumnsSound, HandlesAreNew, PTL

-----------------------------------------------------------------------------
\* The order of the systems.

\* Everybody that runs before i is among the first n - 1 of the order.
WaitsForNobody(i, n) ==
    \A u \in Registered : Edge(u, i) => \E m \in 1 .. n - 1 : order[m] = u

ScheduleTypeOK ==
    /\ to_register \in Seq(Descriptors) /\ systems \in Seq(Descriptors)
    /\ order \in Seq(Nat) /\ phase_begin \in Seq(Nat)
    /\ stage \in {"register", "MAX_SYSTEMS", "duplicate label", "unresolved label",
                  "build", "built", "cycle"}

LabelsDiffer ==
    \A i, j \in Registered : systems[i].label = systems[j].label => i = j

\* The phases begin one after the other, up to the one that is being placed.
BeginsInv ==
    /\ phase_begin # <<>> /\ phase_begin[1] = 0
    /\ \A q \in DOMAIN phase_begin : phase_begin[q] <= Len(order)
    /\ \A q \in 1 .. Current : phase_begin[q] <= phase_begin[q + 1]
    /\ Current <= PhaseCount
    /\ stage \in {"build", "cycle"} => Current < PhaseCount
    /\ stage = "built" => Current = PhaseCount

\* Every system is placed at most once.
OnceInv ==
    /\ \A n \in DOMAIN order : order[n] \in Registered
    /\ \A m, n \in DOMAIN order : order[m] = order[n] => m = n
    /\ done = {order[n] : n \in DOMAIN order}

\* Where it stands tells its phase, and the phases before the current one are placed.
InPhases ==
    /\ \A n \in DOMAIN order : systems[order[n]].phase <= Current
    /\ \A n \in DOMAIN order : \A q \in DOMAIN phase_begin :
          phase_begin[q] < n <=> systems[order[n]].phase >= q - 1
    /\ \A i \in Registered : systems[i].phase < Current => i \in done

\* A system is counted by the edges from those that are not placed.
DegreesInv ==
    /\ indeg \in [Registered -> Nat]
    /\ \A v \in Registered : indeg[v] = EdgesFrom(Registered \ done, v)

\* Nobody stands before one it waits for, or after a later one that was ready.
EdgesKept == \A n \in DOMAIN order : WaitsForNobody(order[n], n)
Greedy ==
    \A n \in DOMAIN order, i \in Registered :
        /\ systems[i].phase = systems[order[n]].phase
        /\ \A m \in 1 .. n - 1 : order[m] # i
        /\ WaitsForNobody(i, n)
        => order[n] <= i

BuildInv ==
    /\ AllResolve /\ BeginsInv /\ OnceInv /\ InPhases /\ DegreesInv /\ EdgesKept /\ Greedy
    /\ stage = "cycle" => Members(Current) \ done # {} /\ Ready = {}

OrderInv ==
    /\ ScheduleTypeOK /\ LabelsDiffer
    /\ stage \in {"build", "built", "cycle"} => BuildInv

-----------------------------------------------------------------------------
LEMMA DescriptorFacts ==
    ASSUME NEW d \in Descriptors
    PROVE  /\ d.phase \in Nat /\ d.phase < PhaseCount
           /\ d.label \in Labels /\ d.before \subseteq Labels /\ d.after \subseteq Labels
BY ScheduleAssumption DEF Descriptors, Phases

LEMMA RegisteredFacts ==
    ASSUME ScheduleTypeOK
    PROVE  /\ Registered = 1 .. Len(systems) /\ IsFiniteSet(Registered)
           /\ Registered \subseteq Nat
           /\ \A i \in Registered :
                 /\ systems[i] \in Descriptors
                 /\ systems[i].phase \in Nat /\ systems[i].phase < PhaseCount
                 /\ systems[i].phase \in Phases
<1>1. systems \in Seq(Descriptors)
  BY DEF ScheduleTypeOK
<1>2. Registered = 1 .. Len(systems) /\ Len(systems) \in Nat
  BY <1>1 DEF Registered
<1>3. IsFiniteSet(Registered)
  BY <1>2, FS_Interval
<1>4. \A i \in Registered : systems[i] \in Descriptors
  BY <1>1, <1>2
<1>5. \A i \in Registered : systems[i].phase \in Nat /\ systems[i].phase < PhaseCount
  BY <1>4, DescriptorFacts
<1>6. \A i \in Registered : systems[i].phase \in Phases
  BY <1>5, ScheduleAssumption DEF Phases
<1>. QED BY <1>2, <1>3, <1>4, <1>5, <1>6

LEMMA EdgesFromType ==
    ASSUME NEW U, IsFiniteSet(U), NEW v
    PROVE  /\ EdgesFrom(U, v) \in Nat
           /\ EdgesFrom(U, v) = 0 <=> \A u \in U : ~Edge(u, v)
<1>. DEFINE L == {u \in U : AskedLater(u, v)}
            S == {u \in U : AskedSooner(u, v)}
<1>1. IsFiniteSet(L) /\ IsFiniteSet(S)
  BY FS_Subset, L \in SUBSET U, S \in SUBSET U
<1>2. Cardinality(L) \in Nat /\ Cardinality(S) \in Nat
  BY <1>1, FS_CardinalityType
<1>3. (Cardinality(L) = 0 <=> L = {}) /\ (Cardinality(S) = 0 <=> S = {})
  BY <1>1, FS_EmptySet
<1>4. EdgesFrom(U, v) = Cardinality(L) + Cardinality(S)
  BY DEF EdgesFrom
<1>5. EdgesFrom(U, v) = 0 <=> L = {} /\ S = {}
  <2>. HIDE DEF L, S
  <2>. QED BY <1>2, <1>3, <1>4
<1>6. (L = {} /\ S = {}) <=> \A u \in U : ~Edge(u, v)
  BY DEF Edge
<1>7. EdgesFrom(U, v) \in Nat
  <2>. HIDE DEF L, S
  <2>. QED BY <1>2, <1>4
<1>. QED BY <1>5, <1>6, <1>7

\* Those that ask are one fewer when the one that was placed asked.
LEMMA OneFewer ==
    ASSUME NEW A, IsFiniteSet(A), NEW x
    PROVE  Cardinality(A \ {x}) = Cardinality(A) - Cardinality(A \cap {x})
<1>1. Cardinality(A) \in Nat
  BY FS_CardinalityType
<1>2. CASE x \in A
  <2>1. A \cap {x} = {x}
    BY <1>2
  <2>2. Cardinality(A \cap {x}) = 1
    BY <2>1, FS_Singleton
  <2>3. Cardinality(A \ {x}) = Cardinality(A) - 1
    BY <1>2, FS_RemoveElement
  <2>. QED BY <2>2, <2>3
<1>3. CASE x \notin A
  <2>1. A \cap {x} = {} /\ A \ {x} = A
    BY <1>3
  <2>. QED BY <1>1, <2>1, FS_EmptySet
<1>. QED BY <1>2, <1>3

LEMMA EdgesFromRest ==
    ASSUME NEW U, IsFiniteSet(U), NEW x \in U, NEW v
    PROVE  EdgesFrom(U \ {x}, v) = EdgesFrom(U, v) - EdgesFrom({x}, v)
<1>. DEFINE L == {u \in U : AskedLater(u, v)}
            S == {u \in U : AskedSooner(u, v)}
            L1 == {u \in {x} : AskedLater(u, v)}
            S1 == {u \in {x} : AskedSooner(u, v)}
            L2 == {u \in U \ {x} : AskedLater(u, v)}
            S2 == {u \in U \ {x} : AskedSooner(u, v)}
<1>1. IsFiniteSet(L) /\ IsFiniteSet(S)
  BY FS_Subset, L \in SUBSET U, S \in SUBSET U
<1>2. L2 = L \ {x} /\ S2 = S \ {x} /\ L1 = L \cap {x} /\ S1 = S \cap {x}
  OBVIOUS
<1>3. EdgesFrom(U, v) = Cardinality(L) + Cardinality(S)
  BY DEF EdgesFrom
<1>4. EdgesFrom({x}, v) = Cardinality(L1) + Cardinality(S1)
  BY DEF EdgesFrom
<1>5. EdgesFrom(U \ {x}, v) = Cardinality(L2) + Cardinality(S2)
  BY DEF EdgesFrom
<1>. HIDE DEF L, S, L1, S1, L2, S2
<1>6. Cardinality(L2) = Cardinality(L) - Cardinality(L1)
  BY <1>1, <1>2, OneFewer
<1>7. Cardinality(S2) = Cardinality(S) - Cardinality(S1)
  BY <1>1, <1>2, OneFewer
<1>8. IsFiniteSet(L1) /\ IsFiniteSet(S1)
  BY <1>1, <1>2, FS_Intersection
<1>9. Cardinality(L) \in Nat /\ Cardinality(S) \in Nat /\ Cardinality(L1) \in Nat /\ Cardinality(S1) \in Nat
  BY <1>1, <1>8, FS_CardinalityType
<1>. QED BY <1>3, <1>4, <1>5, <1>6, <1>7, <1>9

-----------------------------------------------------------------------------
\* The sequences of a set.
LEMMA SeqsOnto ==
    ASSUME NEW S, IsFiniteSet(S), NEW s \in SetToSeqs(S)
    PROVE  /\ Cardinality(S) \in Nat /\ DOMAIN s = 1 .. Cardinality(S)
           /\ \A n \in DOMAIN s : s[n] \in S
           /\ \A m, n \in DOMAIN s : s[m] = s[n] => m = n
           /\ \A x \in S : \E n \in DOMAIN s : s[n] = x
<1>. DEFINE D == 1 .. Cardinality(S)
<1>1. Cardinality(S) \in Nat
  BY FS_CardinalityType
<1>2. s \in [D -> S] /\ \A m, n \in D : m # n => s[m] # s[n]
  BY DEF SetToSeqs
<1>3. IsFiniteSet(D) /\ Cardinality(D) = Cardinality(S)
  BY <1>1, FS_Interval
<1>. HIDE DEF D
<1>4. s \in Injection(D, S)
  BY <1>2, Fun_IsInj
<1>5. s \in Surjection(D, S)
  BY <1>3, <1>4, FS_Injection
<1>6. \A x \in S : \E n \in D : s[n] = x
  BY <1>5, Fun_SurjectionProperties
<1>7. DOMAIN s = D
  BY <1>2
<1>. QED BY <1>1, <1>2, <1>6, <1>7 DEF D

LEMMA SeqsHave ==
    ASSUME NEW S, NEW k \in Nat, NEW s \in [1 .. k -> S],
           \A m, n \in 1 .. k : s[m] = s[n] => m = n,
           \A x \in S : \E n \in 1 .. k : s[n] = x
    PROVE  s \in SetToSeqs(S)
<1>. DEFINE D == 1 .. k
<1>1. IsFiniteSet(D) /\ Cardinality(D) = k
  BY FS_Interval
<1>2. s \in Injection(D, S)
  BY Fun_IsInj
<1>3. s \in Surjection(D, S)
  BY Fun_IsSurj
<1>4. s \in Bijection(D, S)
  BY <1>2, <1>3 DEF Bijection
<1>5. ExistsBijection(D, S)
  BY <1>4 DEF ExistsBijection
<1>6. Cardinality(S) = k
  <2>. HIDE DEF D
  <2>. QED BY <1>1, <1>5, FS_Bijection
<1>. QED BY <1>6 DEF SetToSeqs

-----------------------------------------------------------------------------
\* Edges are within a phase.
LEMMA EdgesStay ==
    ASSUME ScheduleTypeOK, LabelsDiffer, AllResolve,
           NEW u \in Registered, NEW v \in Registered, Edge(u, v)
    PROVE  systems[u].phase = systems[v].phase
<1>1. CASE AskedLater(u, v)
  <2>1. Resolves(v, systems[u].label)
    BY <1>1 DEF AskedLater, AllResolve
  <2>2. PICK j \in Registered :
          systems[j].label = systems[u].label /\ systems[j].phase = systems[v].phase
    BY <2>1 DEF Resolves
  <2>3. j = u
    BY <2>2 DEF LabelsDiffer
  <2>. QED BY <2>2, <2>3
<1>2. CASE AskedSooner(u, v)
  <2>1. Resolves(u, systems[v].label)
    BY <1>2 DEF AskedSooner, AllResolve
  <2>2. PICK j \in Registered :
          systems[j].label = systems[v].label /\ systems[j].phase = systems[u].phase
    BY <2>1 DEF Resolves
  <2>3. j = v
    BY <2>2 DEF LabelsDiffer
  <2>. QED BY <2>2, <2>3
<1>. QED BY <1>1, <1>2 DEF Edge

LEMMA MembersFacts ==
    ASSUME ScheduleTypeOK, NEW p
    PROVE  /\ Members(p) \subseteq Registered /\ IsFiniteSet(Members(p))
           /\ \A i : i \in Members(p) <=> i \in Registered /\ systems[i].phase = p
<1>1. Members(p) \subseteq Registered
  BY DEF Members
<1>2. IsFiniteSet(Members(p))
  BY <1>1, RegisteredFacts, FS_Subset
<1>. QED BY <1>1, <1>2 DEF Members

\* An order of a phase: each member once, none before one it waits for.
LEMMA OrdersFacts ==
    ASSUME ScheduleTypeOK, NEW p, NEW s \in Orders(p)
    PROVE  /\ \E k \in Nat : DOMAIN s = 1 .. k
           /\ \A n \in DOMAIN s : s[n] \in Members(p)
           /\ \A m, n \in DOMAIN s : s[m] = s[n] => m = n
           /\ \A x \in Members(p) : \E n \in DOMAIN s : s[n] = x
           /\ \A m, n \in DOMAIN s : Edge(s[m], s[n]) => m < n
<1>1. s \in SetToSeqs(Members(p)) /\ \A m, n \in DOMAIN s : Edge(s[m], s[n]) => m < n
  BY DEF Orders
<1>2. IsFiniteSet(Members(p))
  BY MembersFacts
<1>. QED BY <1>1, <1>2, SeqsOnto

\* A phase that nobody begins of those that are left has no order.
LEMMA CycleHasNoOrder ==
    ASSUME ScheduleTypeOK, LabelsDiffer, BuildInv, stage = "cycle"
    PROVE  \E p \in Phases : Orders(p) = {}
<1>1. Members(Current) \ done # {} /\ Ready = {} /\ AllResolve /\ DegreesInv
  BY DEF BuildInv
<1>2. PICK x \in Members(Current) : x \notin done
  BY <1>1
<1>3. Current \in Phases
  <2>1. x \in Registered /\ systems[x].phase = Current
    BY <1>2, MembersFacts
  <2>. QED BY <2>1, RegisteredFacts
<1>4. \A s \in Orders(Current) : FALSE
  <2>. SUFFICES ASSUME NEW s \in Orders(Current) PROVE FALSE
    OBVIOUS
  <2>. DEFINE K == {n \in DOMAIN s : s[n] \notin done}
  <2>1. K \subseteq Nat
    BY OrdersFacts
  <2>2. K # {}
    BY <1>2, OrdersFacts
  <2>3. PICK k \in K : \A m \in K : k <= m
    <3>. HIDE DEF K
    <3>. QED BY <2>1, <2>2, Least
  <2>4. s[k] \in Members(Current) /\ s[k] \notin done
    BY <2>3, OrdersFacts
  <2>5. s[k] \in Registered
    BY <2>4, MembersFacts
  <2>6. indeg[s[k]] # 0
    BY <2>4, <1>1 DEF Ready
  <2>7. EdgesFrom(Registered \ done, s[k]) # 0
    BY <2>5, <2>6, <1>1 DEF DegreesInv
  <2>8. PICK u \in Registered \ done : Edge(u, s[k])
    <3>1. IsFiniteSet(Registered \ done)
      BY RegisteredFacts, FS_Difference
    <3>. QED BY <2>7, <3>1, EdgesFromType
  <2>9. u \in Members(Current)
    BY <2>4, <2>5, <2>8, <1>1, EdgesStay, MembersFacts
  <2>10. PICK j \in DOMAIN s : s[j] = u
    BY <2>9, OrdersFacts
  <2>11. j \in K
    BY <2>8, <2>10
  <2>12. j < k
    BY <2>3, <2>8, <2>10, OrdersFacts
  <2>13. k \in Nat /\ j \in Nat /\ k <= j
    BY <2>1, <2>3, <2>11
  <2>. QED BY <2>12, <2>13
<1>. QED BY <1>3, <1>4

\* What run_phase runs for phase p: k systems, after b of earlier phases.
SliceAt(p, b, k) ==
    /\ b \in Nat /\ k \in Nat
    /\ Slice(p) \in [1 .. k -> Members(p)]
    /\ \A n \in 1 .. k : b + n \in DOMAIN order /\ Slice(p)[n] = order[b + n]
    /\ \A x \in Members(p) : \E n \in 1 .. k : Slice(p)[n] = x
    /\ \A m \in 1 .. b : m \in DOMAIN order /\ systems[order[m]].phase < p

LEMMA SliceExists ==
    ASSUME ScheduleTypeOK, BuildInv, stage = "built", NEW p \in Phases
    PROVE  \E b, k : SliceAt(p, b, k)
<1>1. BeginsInv /\ OnceInv /\ InPhases
  BY DEF BuildInv
<1>2. p \in Nat /\ p < PhaseCount /\ PhaseCount \in Nat
  BY ScheduleAssumption DEF Phases
<1>3. /\ phase_begin \in Seq(Nat) /\ Len(phase_begin) = PhaseCount + 1
      /\ Current = PhaseCount
  BY <1>1, <1>2 DEF BeginsInv, Current, ScheduleTypeOK
<1>4. order \in Seq(Nat) /\ Len(order) \in Nat /\ DOMAIN order = 1 .. Len(order)
  BY DEF ScheduleTypeOK
<1>5. p + 1 \in DOMAIN phase_begin /\ p + 2 \in DOMAIN phase_begin /\ p + 1 \in 1 .. Current
  BY <1>2, <1>3
<1>6. PICK b : b = phase_begin[p + 1]
  OBVIOUS
<1>7. PICK e : e = phase_begin[p + 2]
  OBVIOUS
<1>8. b \in Nat /\ e \in Nat
  BY <1>3, <1>5, <1>6, <1>7
<1>9. b <= e
  <2>1. phase_begin[p + 1] <= phase_begin[(p + 1) + 1]
    BY <1>1, <1>5 DEF BeginsInv
  <2>2. (p + 1) + 1 = p + 2
    BY <1>2
  <2>. QED BY <1>6, <1>7, <2>1, <2>2
<1>10. e <= Len(order)
  BY <1>1, <1>5, <1>7 DEF BeginsInv
<1>11. PICK k : k = e - b
  OBVIOUS
<1>12. k \in Nat
  BY <1>8, <1>9, <1>11
<1>13. \A n \in DOMAIN order :
          /\ order[n] \in Registered /\ systems[order[n]].phase \in Nat
          /\ b < n <=> systems[order[n]].phase >= p
          /\ e < n <=> systems[order[n]].phase >= p + 1
  <2>. SUFFICES ASSUME NEW n \in DOMAIN order
                PROVE  /\ order[n] \in Registered /\ systems[order[n]].phase \in Nat
                       /\ b < n <=> systems[order[n]].phase >= p
                       /\ e < n <=> systems[order[n]].phase >= p + 1
    OBVIOUS
  <2>1. order[n] \in Registered /\ systems[order[n]].phase \in Nat
    BY <1>1, RegisteredFacts DEF OnceInv
  <2>2. phase_begin[p + 1] < n <=> systems[order[n]].phase >= (p + 1) - 1
    BY <1>1, <1>5 DEF InPhases
  <2>3. phase_begin[p + 2] < n <=> systems[order[n]].phase >= (p + 2) - 1
    BY <1>1, <1>5 DEF InPhases
  <2>4. (p + 1) - 1 = p /\ (p + 2) - 1 = p + 1
    BY <1>2
  <2>. QED BY <1>6, <1>7, <2>1, <2>2, <2>3, <2>4
<1>14. \A n \in DOMAIN order : order[n] \in Members(p) <=> b < n /\ n <= e
  <2>. SUFFICES ASSUME NEW n \in DOMAIN order
                PROVE  order[n] \in Members(p) <=> b < n /\ n <= e
    OBVIOUS
  <2>1. order[n] \in Members(p) <=> systems[order[n]].phase = p
    BY <1>13, MembersFacts
  <2>2. systems[order[n]].phase = p <=> b < n /\ ~(e < n)
    BY <1>2, <1>13
  <2>. QED BY <1>4, <1>8, <2>1, <2>2
<1>15. \A n \in 1 .. k : b + n \in DOMAIN order /\ order[b + n] \in Members(p)
  BY <1>4, <1>8, <1>10, <1>11, <1>14
<1>16. /\ Slice(p) \in Seq(Members(p)) /\ Len(Slice(p)) = k
       /\ \A n \in 1 .. k : Slice(p)[n] = order[b + n]
  <2>1. Slice(p) = SubSeq(order, b + 1, e)
    BY <1>6, <1>7 DEF Slice
  <2>2. \A n \in b + 1 .. e : order[n] \in Members(p)
    <3>. SUFFICES ASSUME NEW n \in b + 1 .. e PROVE order[n] \in Members(p)
      OBVIOUS
    <3>1. n \in DOMAIN order /\ b < n /\ n <= e
      BY <1>4, <1>8, <1>10
    <3>. QED BY <1>14, <3>1
  <2>3. /\ SubSeq(order, b + 1, e) \in Seq(Members(p))
        /\ Len(SubSeq(order, b + 1, e)) = IF b + 1 <= e THEN e - (b + 1) + 1 ELSE 0
        /\ \A n \in 1 .. e - (b + 1) + 1 : SubSeq(order, b + 1, e)[n] = order[(b + 1) + n - 1]
    BY <1>8, <2>2, SubSeqProperties, b + 1 \in Int, e \in Int
  <2>. QED BY <1>8, <1>9, <1>11, <2>1, <2>3
<1>17. Slice(p) \in [1 .. k -> Members(p)]
  BY <1>16
<1>18. \A x \in Members(p) : \E n \in 1 .. k : Slice(p)[n] = x
  <2>. SUFFICES ASSUME NEW x \in Members(p) PROVE \E n \in 1 .. k : Slice(p)[n] = x
    OBVIOUS
  <2>1. x \in Registered /\ systems[x].phase = p
    BY MembersFacts
  <2>2. x \in done
    BY <1>1, <1>2, <1>3, <2>1 DEF InPhases
  <2>3. PICK n \in DOMAIN order : order[n] = x
    BY <1>1, <2>2 DEF OnceInv
  <2>4. b < n /\ n <= e /\ n \in Nat
    BY <1>4, <1>14, <2>3
  <2>5. n - b \in 1 .. k /\ b + (n - b) = n
    BY <1>8, <1>11, <2>4
  <2>6. Slice(p)[n - b] = x
    BY <1>16, <2>3, <2>5
  <2>. QED BY <2>5, <2>6
<1>19. \A m \in 1 .. b : m \in DOMAIN order /\ systems[order[m]].phase < p
  <2>. SUFFICES ASSUME NEW m \in 1 .. b PROVE m \in DOMAIN order /\ systems[order[m]].phase < p
    OBVIOUS
  <2>1. m \in DOMAIN order
    BY <1>4, <1>8, <1>9, <1>10
  <2>2. ~(b < m)
    BY <1>8
  <2>. QED BY <1>2, <1>13, <2>1, <2>2
<1>20. SliceAt(p, b, k)
  BY <1>8, <1>12, <1>15, <1>16, <1>17, <1>18, <1>19 DEF SliceAt
<1>. QED BY <1>20

\* It breaks no edge.
LEMMA SliceIsOrder ==
    ASSUME ScheduleTypeOK, BuildInv, stage = "built", NEW p \in Phases
    PROVE  Slice(p) \in Orders(p)
<1>1. PICK b, k : SliceAt(p, b, k)
  BY SliceExists
<1>2. OnceInv /\ EdgesKept
  BY DEF BuildInv
<1>3. /\ b \in Nat /\ k \in Nat
      /\ Slice(p) \in [1 .. k -> Members(p)]
      /\ \A n \in 1 .. k : b + n \in DOMAIN order /\ Slice(p)[n] = order[b + n]
      /\ \A x \in Members(p) : \E n \in 1 .. k : Slice(p)[n] = x
  BY <1>1 DEF SliceAt
<1>4. \A m, n \in 1 .. k : Slice(p)[m] = Slice(p)[n] => m = n
  <2>. SUFFICES ASSUME NEW m \in 1 .. k, NEW n \in 1 .. k, Slice(p)[m] = Slice(p)[n]
                PROVE  m = n
    OBVIOUS
  <2>1. order[b + m] = order[b + n] /\ b + m \in DOMAIN order /\ b + n \in DOMAIN order
    BY <1>3
  <2>2. b + m = b + n
    BY <1>2, <2>1 DEF OnceInv
  <2>. QED BY <1>3, <2>2
<1>5. Slice(p) \in SetToSeqs(Members(p))
  BY <1>3, <1>4, SeqsHave
<1>6. \A m, n \in DOMAIN Slice(p) : Edge(Slice(p)[m], Slice(p)[n]) => m < n
  <2>. SUFFICES ASSUME NEW m \in 1 .. k, NEW n \in 1 .. k, Edge(Slice(p)[m], Slice(p)[n])
                PROVE  m < n
    BY <1>3
  <2>1. Edge(order[b + m], order[b + n]) /\ b + m \in DOMAIN order /\ b + n \in DOMAIN order
    BY <1>3
  <2>2. WaitsForNobody(order[b + n], b + n)
    BY <1>2, <2>1 DEF EdgesKept
  <2>3. order[b + m] \in Registered
    BY <1>2, <2>1 DEF OnceInv
  <2>4. PICK j \in 1 .. (b + n) - 1 : order[j] = order[b + m]
    BY <2>1, <2>2, <2>3 DEF WaitsForNobody
  <2>5. j \in DOMAIN order
    BY <1>3, <2>1 DEF ScheduleTypeOK
  <2>6. j = b + m
    BY <1>2, <2>1, <2>4, <2>5 DEF OnceInv
  <2>. QED BY <1>3, <2>4, <2>6
<1>. QED BY <1>5, <1>6 DEF Orders

\* Of the orders that break none it is the least.
LEMMA SliceIsLeast ==
    ASSUME ScheduleTypeOK, LabelsDiffer, BuildInv, stage = "built", NEW p \in Phases,
           NEW s \in Orders(p)
    PROVE  ~Before(s, Slice(p))
<1>. SUFFICES ASSUME Before(s, Slice(p)) PROVE FALSE
  OBVIOUS
<1>1. PICK b, k : SliceAt(p, b, k)
  BY SliceExists
<1>2. OnceInv /\ Greedy /\ AllResolve
  BY DEF BuildInv
<1>3. /\ b \in Nat /\ k \in Nat
      /\ Slice(p) \in [1 .. k -> Members(p)]
      /\ \A n \in 1 .. k : b + n \in DOMAIN order /\ Slice(p)[n] = order[b + n]
      /\ \A x \in Members(p) : \E n \in 1 .. k : Slice(p)[n] = x
      /\ \A m \in 1 .. b : m \in DOMAIN order /\ systems[order[m]].phase < p
  BY <1>1 DEF SliceAt
<1>4. s \in SetToSeqs(Members(p)) /\ IsFiniteSet(Members(p))
  BY MembersFacts DEF Orders
<1>5. DOMAIN s = 1 .. k
  <2>1. Slice(p) \in SetToSeqs(Members(p))
    BY SliceIsOrder DEF Orders
  <2>2. DOMAIN Slice(p) = 1 .. Cardinality(Members(p)) /\ DOMAIN s = 1 .. Cardinality(Members(p))
    BY <1>4, <2>1, SeqsOnto
  <2>. QED BY <1>3, <2>2
<1>6. PICK n \in 1 .. k : s[n] < Slice(p)[n] /\ \A m \in 1 .. n - 1 : s[m] = Slice(p)[m]
  BY <1>5 DEF Before
<1>7. PICK i : i = s[n]
  OBVIOUS
<1>8. i \in Members(p) /\ i \in Registered /\ systems[i].phase = p
  BY <1>5, <1>7, OrdersFacts, MembersFacts
<1>9. \A m \in 1 .. n - 1 : m \in 1 .. k /\ b + m \in DOMAIN order /\ s[m] = order[b + m]
  BY <1>3, <1>6
<1>10. b + n \in DOMAIN order /\ Slice(p)[n] = order[b + n]
  BY <1>3
<1>11. systems[order[b + n]].phase = p
  BY <1>3, <1>10, MembersFacts
<1>12. \A m \in 1 .. (b + n) - 1 : order[m] # i
  <2>. SUFFICES ASSUME NEW m \in 1 .. (b + n) - 1, order[m] = i PROVE FALSE
    OBVIOUS
  <2>1. m \in 1 .. b \/ m - b \in 1 .. n - 1
    BY <1>3
  <2>2. CASE m \in 1 .. b
    <3>1. systems[i].phase < p
      BY <1>3, <2>2
    <3>. QED BY <3>1, <1>8 DEF Phases
  <2>3. CASE m - b \in 1 .. n - 1
    <3>1. s[m - b] = order[b + (m - b)] /\ m - b \in 1 .. k
      BY <1>9, <2>3
    <3>2. b + (m - b) = m
      BY <1>3
    <3>3. s[m - b] = s[n]
      BY <1>7, <3>1, <3>2
    <3>4. m - b = n
      BY <1>5, <3>1, <3>3, OrdersFacts
    <3>. QED BY <2>3, <3>4
  <2>. QED BY <2>1, <2>2, <2>3
<1>13. WaitsForNobody(i, b + n)
  <2>. SUFFICES ASSUME NEW u \in Registered, Edge(u, i)
                PROVE  \E m \in 1 .. (b + n) - 1 : order[m] = u
    BY DEF WaitsForNobody
  <2>1. systems[u].phase = systems[i].phase
    BY <1>2, <1>8, EdgesStay
  <2>2. u \in Members(p)
    BY <1>8, <2>1, MembersFacts
  <2>3. PICK j \in 1 .. k : s[j] = u
    BY <1>5, <2>2, OrdersFacts
  <2>4. j < n
    <3>1. Edge(s[j], s[n])
      BY <1>7, <2>3
    <3>. QED BY <1>5, <3>1, OrdersFacts
  <2>5. j \in 1 .. n - 1
    BY <2>4
  <2>6. order[b + j] = u /\ b + j \in 1 .. (b + n) - 1
    BY <1>3, <1>9, <2>3, <2>5
  <2>. QED BY <2>6
<1>14. order[b + n] <= i
  BY <1>2, <1>8, <1>10, <1>11, <1>12, <1>13 DEF Greedy
<1>15. i < order[b + n]
  BY <1>6, <1>7, <1>10
<1>16. i \in Nat /\ order[b + n] \in Nat
  BY <1>2, <1>8, <1>10, RegisteredFacts DEF OnceInv
<1>. QED BY <1>14, <1>15, <1>16

LEMMA OrderInvGives == OrderInv => ScheduleInv
<1>. SUFFICES ASSUME OrderInv PROVE ScheduleInv
  OBVIOUS
<1>1. ScheduleTypeOK /\ LabelsDiffer /\ (stage \in {"build", "built", "cycle"} => BuildInv)
  BY DEF OrderInv
<1>2. stage = "built" =>
        \A p \in Phases : Slice(p) \in Orders(p) /\ \A s \in Orders(p) : ~Before(s, Slice(p))
  BY <1>1, SliceIsOrder, SliceIsLeast
<1>3. stage = "cycle" => \E p \in Phases : Orders(p) = {}
  BY <1>1, CycleHasNoOrder
<1>4. stage = "built" => \A i, j \in Registered : Edge(i, j) => systems[i].phase = systems[j].phase
  BY <1>1, EdgesStay DEF BuildInv
<1>. QED BY <1>2, <1>3, <1>4 DEF ScheduleInv

-----------------------------------------------------------------------------
\* The steps.

LEMMA EdgesSame ==
    ASSUME UNCHANGED systems, NEW v
    PROVE  EdgesFrom(Registered \ done, v)' = EdgesFrom(Registered \ done', v)
<1>1. Registered' = Registered
  BY DEF Registered
<1>2. {u \in Registered' \ done' : systems'[u].label \in systems'[v].after}
      = {u \in Registered \ done' : systems[u].label \in systems[v].after}
  BY <1>1
<1>3. {u \in Registered' \ done' : systems'[v].label \in systems'[u].before}
      = {u \in Registered \ done' : systems[v].label \in systems[u].before}
  BY <1>1
<1>. QED BY <1>2, <1>3, Zenon DEF EdgesFrom, AskedLater, AskedSooner

LEMMA ScheduleInitInv == ScheduleInit => OrderInv
<1>. SUFFICES ASSUME NEW program \in Programs, ScheduleOf(program) PROVE OrderInv
  BY DEF ScheduleInit
<1>1. program \in Seq(Descriptors)
  BY ScheduleAssumption
<1>2. ScheduleTypeOK /\ LabelsDiffer /\ stage = "register"
  BY <1>1 DEF ScheduleOf, ScheduleTypeOK, LabelsDiffer, Registered
<1>. QED BY <1>2 DEF OrderInv

LEMMA ScheduleRegisterInv == OrderInv /\ ScheduleRegister => OrderInv'
<1>. SUFFICES ASSUME OrderInv, ScheduleRegister PROVE OrderInv'
  OBVIOUS
<1>1. ScheduleTypeOK /\ LabelsDiffer
  BY DEF OrderInv
<1>2. to_register \in Seq(Descriptors) /\ to_register # <<>> /\ systems \in Seq(Descriptors)
  BY <1>1 DEF ScheduleTypeOK, ScheduleRegister
<1>3. Head(to_register) \in Descriptors /\ Tail(to_register) \in Seq(Descriptors)
  BY <1>2
<1>4. CASE UNCHANGED systems /\ stage' \in {"MAX_SYSTEMS", "duplicate label"}
  <2>1. ScheduleTypeOK'
    BY <1>1, <1>3, <1>4 DEF ScheduleTypeOK, ScheduleRegister
  <2>2. LabelsDiffer'
    BY <1>1, <1>4 DEF LabelsDiffer, Registered
  <2>. QED BY <1>4, <2>1, <2>2 DEF OrderInv
<1>5. CASE /\ systems' = Append(systems, Head(to_register)) /\ UNCHANGED stage
           /\ ~Duplicate(Head(to_register))
  <2>. DEFINE d == Head(to_register)
  <2>1. systems' \in Seq(Descriptors)
    BY <1>2, <1>3, <1>5
  <2>2. ScheduleTypeOK'
    BY <1>1, <1>3, <1>5, <2>1 DEF ScheduleTypeOK, ScheduleRegister
  <2>3. LabelsDiffer'
    <3>. SUFFICES ASSUME NEW i \in Registered', NEW j \in Registered',
                         systems'[i].label = systems'[j].label
                  PROVE  i = j
      BY DEF LabelsDiffer
    <3>1. /\ i \in Registered \/ i = Len(systems) + 1
          /\ j \in Registered \/ j = Len(systems) + 1
      BY <1>2, <1>3, <1>5 DEF Registered
    <3>2. \A n \in Registered : systems'[n] = systems[n]
      BY <1>2, <1>3, <1>5 DEF Registered
    <3>3. systems'[Len(systems) + 1] = d
      BY <1>2, <1>3, <1>5
    <3>4. \A n \in Registered : systems[n].label # d.label
      BY <1>5 DEF Duplicate
    <3>. QED BY <1>1, <3>1, <3>2, <3>3, <3>4 DEF LabelsDiffer
  <2>4. stage' = "register"
    BY <1>5 DEF ScheduleRegister
  <2>. QED BY <2>2, <2>3, <2>4 DEF OrderInv
<1>. QED BY <1>4, <1>5 DEF ScheduleRegister

LEMMA ResolveEdgesInv == OrderInv /\ ResolveEdges => OrderInv'
<1>. SUFFICES ASSUME OrderInv, ResolveEdges PROVE OrderInv'
  OBVIOUS
<1>1. ScheduleTypeOK /\ LabelsDiffer
  BY DEF OrderInv
<1>2. /\ systems' = systems /\ order' = <<>> /\ phase_begin' = <<0>> /\ done' = {}
      /\ to_register' = to_register
  BY DEF ResolveEdges
<1>7. /\ AllResolve => stage' = "build"
      /\ ~AllResolve => stage' = "unresolved label"
  BY DEF ResolveEdges
<1>8. phase_begin' \in Seq(Nat) /\ Len(phase_begin') = 1 /\ phase_begin'[1] = 0
  BY <1>2
<1>9. order' \in Seq(Nat) /\ Len(order') = 0 /\ DOMAIN order' = {}
  BY <1>2
<1>3. ScheduleTypeOK'
  BY <1>1, <1>2, <1>7, <1>8, <1>9 DEF ScheduleTypeOK
<1>4. LabelsDiffer'
  BY <1>1, <1>2 DEF LabelsDiffer, Registered
<1>5. CASE ~AllResolve
  BY <1>3, <1>4, <1>5, <1>7 DEF OrderInv
<1>6. CASE AllResolve
  <2>1. stage' = "build" /\ indeg' = InDegrees
    BY <1>6, <1>7 DEF ResolveEdges
  <2>2. AllResolve'
    BY <1>2, <1>6 DEF AllResolve, Resolves, Registered
  <2>3. BeginsInv'
    <3>1. DOMAIN phase_begin' = 1 .. 1 /\ phase_begin' # <<>>
      <4>1. DOMAIN phase_begin' = 1 .. 1
        BY <1>8
      <4>. QED BY <1>2, <4>1
    <3>2. Current' = 0
      BY <1>8 DEF Current
    <3>. QED BY <1>8, <1>9, <2>1, <3>1, <3>2, ScheduleAssumption DEF BeginsInv
  <2>4. OnceInv' /\ EdgesKept' /\ Greedy'
    BY <1>2, <1>9 DEF OnceInv, EdgesKept, Greedy
  <2>5. InPhases'
    <3>1. \A i \in Registered' : ~(systems'[i].phase < Current')
      <4>1. Current' = 0
        BY <1>8 DEF Current
      <4>2. \A i \in Registered' : systems'[i].phase \in Nat
        BY <1>1, <1>2, RegisteredFacts DEF Registered
      <4>. QED BY <4>1, <4>2
    <3>. QED BY <1>9, <3>1 DEF InPhases
  <2>6. DegreesInv'
    <3>1. Registered' = Registered /\ Registered' \ done' = Registered
      BY <1>2 DEF Registered
    <3>2. \A v \in Registered : EdgesFrom(Registered, v) \in Nat
      BY <1>1, RegisteredFacts, EdgesFromType
    <3>3. indeg' \in [Registered -> Nat]
      BY <2>1, <3>2 DEF InDegrees
    <3>4. \A v \in Registered : indeg'[v] = EdgesFrom(Registered, v)
      BY <2>1 DEF InDegrees
    <3>5. \A v : EdgesFrom(Registered \ done, v)' = EdgesFrom(Registered \ done', v)
      BY <1>2, EdgesSame
    <3>6. \A v \in Registered' : indeg'[v] = EdgesFrom(Registered \ done, v)'
      BY <3>1, <3>4, <3>5
    <3>. QED BY <3>1, <3>3, <3>6 DEF DegreesInv
  <2>. QED BY <1>3, <1>4, <2>1, <2>2, <2>3, <2>4, <2>5, <2>6 DEF OrderInv, BuildInv
<1>. QED BY <1>5, <1>6

\* What a step that registers nobody leaves alone.
LEMMA EdgeSame ==
    ASSUME UNCHANGED systems
    PROVE  /\ Registered' = Registered
           /\ \A u, v : Edge(u, v)' <=> Edge(u, v)
           /\ LabelsDiffer => LabelsDiffer'
           /\ AllResolve => AllResolve'
<1>1. Registered' = Registered
  BY DEF Registered
<1>2. \A u, v : Edge(u, v)' <=> Edge(u, v)
  BY DEF Edge, AskedLater, AskedSooner
<1>3. LabelsDiffer => LabelsDiffer'
  BY <1>1 DEF LabelsDiffer
<1>4. AllResolve => AllResolve'
  BY <1>1 DEF AllResolve, Resolves
<1>. QED BY <1>1, <1>2, <1>3, <1>4

LEMMA LowestFacts ==
    ASSUME NEW S, S \subseteq Nat, S # {}
    PROVE  Lowest(S) \in S /\ \A x \in S : Lowest(S) <= x
<1>1. \E n \in S : \A m \in S : n <= m
  BY Least
<1>. QED BY <1>1 DEF Lowest, Min

LEMMA PickFacts ==
    ASSUME OrderInv, stage = "build", Ready # {}, NEW pick, pick = Lowest(Ready)
    PROVE  /\ pick \in Registered /\ pick \notin done /\ pick \in Nat
           /\ systems[pick].phase = Current
           /\ \A u \in Registered : Edge(u, pick) => u \in done
           /\ \A i \in Registered :
                 /\ systems[i].phase = Current /\ i \notin done
                 /\ \A u \in Registered : Edge(u, i) => u \in done
                 => pick <= i
<1>1. ScheduleTypeOK /\ DegreesInv
  BY DEF OrderInv, BuildInv
<1>2. \A i \in Registered :
        /\ EdgesFrom(Registered \ done, i) = 0
           <=> \A u \in Registered : Edge(u, i) => u \in done
        /\ indeg[i] = EdgesFrom(Registered \ done, i)
  <2>. SUFFICES ASSUME NEW i \in Registered
                PROVE  /\ EdgesFrom(Registered \ done, i) = 0
                          <=> \A u \in Registered : Edge(u, i) => u \in done
                       /\ indeg[i] = EdgesFrom(Registered \ done, i)
    OBVIOUS
  <2>1. IsFiniteSet(Registered \ done)
    BY <1>1, RegisteredFacts, FS_Difference
  <2>2. EdgesFrom(Registered \ done, i) = 0 <=> \A u \in Registered \ done : ~Edge(u, i)
    BY <2>1, EdgesFromType
  <2>. QED BY <1>1, <2>2 DEF DegreesInv
<1>3. \A i : i \in Ready <=> i \in Registered /\ systems[i].phase = Current /\ i \notin done /\ indeg[i] = 0
  BY <1>1, MembersFacts DEF Ready
<1>4. Ready \subseteq Nat
  BY <1>1, <1>3, RegisteredFacts
<1>5. pick \in Ready /\ \A i \in Ready : pick <= i
  <2>1. Lowest(Ready) \in Ready /\ \A x \in Ready : Lowest(Ready) <= x
    BY <1>4, LowestFacts
  <2>. QED BY <2>1
<1>. QED BY <1>2, <1>3, <1>4, <1>5

\* A system is placed next: what Emit does.
LEMMA PlacedInv ==
    ASSUME OrderInv, stage = "build", NEW pick,
           pick \in Registered, pick \notin done, pick \in Nat,
           systems[pick].phase = Current,
           \A u \in Registered : Edge(u, pick) => u \in done,
           \A i \in Registered :
              /\ systems[i].phase = Current /\ i \notin done
              /\ \A u \in Registered : Edge(u, i) => u \in done
              => pick <= i,
           order' = Append(order, pick), done' = done \cup {pick},
           indeg' = [v \in Registered |-> indeg[v] - EdgesFrom({pick}, v)],
           UNCHANGED <<stage, to_register, systems, phase_begin>>
    PROVE  OrderInv'
<1>1. ScheduleTypeOK /\ LabelsDiffer /\ BuildInv
  BY DEF OrderInv
<1>2. AllResolve /\ BeginsInv /\ OnceInv /\ InPhases /\ DegreesInv /\ EdgesKept /\ Greedy
  BY <1>1 DEF BuildInv
<1>3. systems' = systems /\ phase_begin' = phase_begin /\ stage' = "build"
  OBVIOUS
<1>4. Registered' = Registered /\ (\A u, v : Edge(u, v)' <=> Edge(u, v)) /\ LabelsDiffer' /\ AllResolve'
  BY <1>1, <1>2, <1>3, EdgeSame
<1>5. Current' = Current
  BY <1>3 DEF Current
<1>6. PICK N : N = Len(order)
  OBVIOUS
<1>7. /\ order \in Seq(Nat) /\ N \in Nat /\ DOMAIN order = 1 .. N
      /\ order' \in Seq(Nat) /\ Len(order') = N + 1 /\ DOMAIN order' = 1 .. N + 1
      /\ order'[N + 1] = pick
      /\ \A n \in 1 .. N : order'[n] = order[n]
  BY <1>1, <1>6 DEF ScheduleTypeOK
<1>. HIDE <1>6
<1>8. \A i : i \in done <=> \E n \in 1 .. N : order[n] = i
  BY <1>2, <1>7 DEF OnceInv
<1>9. ScheduleTypeOK'
  BY <1>1, <1>3, <1>7 DEF ScheduleTypeOK
<1>10. BeginsInv'
  <2>1. phase_begin \in Seq(Nat) /\ Len(order) = N
    BY <1>1, <1>7 DEF ScheduleTypeOK
  <2>2. \A q \in DOMAIN phase_begin : phase_begin[q] <= N + 1
    BY <1>2, <1>7, <2>1 DEF BeginsInv
  <2>. QED BY <1>2, <1>3, <1>5, <1>7, <2>2 DEF BeginsInv
<1>11. OnceInv'
  <2>1. \A n \in DOMAIN order' : order'[n] \in Registered'
    BY <1>2, <1>4, <1>7 DEF OnceInv
  <2>2. \A m, n \in DOMAIN order' : order'[m] = order'[n] => m = n
    <3>1. \A n \in 1 .. N : order'[n] # pick
      BY <1>7, <1>8
    <3>2. \A m, n \in 1 .. N : order'[m] = order'[n] => m = n
      BY <1>2, <1>7 DEF OnceInv
    <3>. QED BY <1>7, <3>1, <3>2
  <2>3. done' = {order'[n] : n \in DOMAIN order'}
    <3>1. \A i : i \in done' => \E n \in DOMAIN order' : order'[n] = i
      <4>. SUFFICES ASSUME NEW i \in done' PROVE \E n \in DOMAIN order' : order'[n] = i
        OBVIOUS
      <4>1. CASE i = pick
        <5>1. N + 1 \in DOMAIN order' /\ order'[N + 1] = i
          BY <1>7, <4>1
        <5>. QED BY <5>1
      <4>2. CASE i \in done
        <5>1. PICK n \in 1 .. N : order[n] = i
          BY <1>8, <4>2
        <5>2. n \in DOMAIN order' /\ order'[n] = i
          BY <1>7, <5>1
        <5>. QED BY <5>2
      <4>. QED BY <4>1, <4>2
    <3>2. \A n \in DOMAIN order' : order'[n] \in done'
      BY <1>7, <1>8
    <3>. QED BY <3>1, <3>2
  <2>. QED BY <2>1, <2>2, <2>3 DEF OnceInv
<1>12. InPhases'
  <2>1. Current \in Nat \/ Current \in Int
    BY <1>1 DEF Current, ScheduleTypeOK
  <2>2. \A n \in DOMAIN order' : systems'[order'[n]].phase <= Current'
    <3>1. \A n \in 1 .. N : systems[order[n]].phase <= Current
      BY <1>2, <1>7 DEF InPhases
    <3>. QED BY <1>3, <1>5, <1>7, <2>1, <3>1
  <2>3. \A n \in DOMAIN order' : \A q \in DOMAIN phase_begin' :
          phase_begin'[q] < n <=> systems'[order'[n]].phase >= q - 1
    <3>. SUFFICES ASSUME NEW n \in 1 .. N + 1, NEW q \in DOMAIN phase_begin
                  PROVE  phase_begin[q] < n <=> systems[order'[n]].phase >= q - 1
      BY <1>3, <1>7
    <3>1. CASE n \in 1 .. N
      BY <1>2, <1>7, <3>1 DEF InPhases
    <3>2. CASE n = N + 1
      <4>1. phase_begin[q] \in Nat /\ phase_begin[q] <= N
        BY <1>1, <1>2, <1>6 DEF BeginsInv, ScheduleTypeOK
      <4>2. q \in Nat /\ q <= Current + 1
        BY <1>1 DEF Current, ScheduleTypeOK
      <4>. QED BY <1>7, <2>1, <3>2, <4>1, <4>2
    <3>. QED BY <1>7, <3>1, <3>2
  <2>4. \A i \in Registered' : systems'[i].phase < Current' => i \in done'
    BY <1>2, <1>3, <1>4, <1>5 DEF InPhases
  <2>. QED BY <2>2, <2>3, <2>4 DEF InPhases
<1>13. DegreesInv'
  <2>1. IsFiniteSet(Registered \ done) /\ pick \in Registered \ done
    BY <1>1, RegisteredFacts, FS_Difference
  <2>2. Registered \ done' = (Registered \ done) \ {pick}
    OBVIOUS
  <2>3. IsFiniteSet(Registered \ done')
    BY <2>1, <2>2, FS_Difference
  <2>4. \A v \in Registered :
          /\ indeg[v] - EdgesFrom({pick}, v) = EdgesFrom(Registered \ done', v)
          /\ EdgesFrom(Registered \ done', v) \in Nat
    <3>. SUFFICES ASSUME NEW v \in Registered
                  PROVE  /\ indeg[v] - EdgesFrom({pick}, v) = EdgesFrom(Registered \ done', v)
                         /\ EdgesFrom(Registered \ done', v) \in Nat
      OBVIOUS
    <3>1. indeg[v] = EdgesFrom(Registered \ done, v)
      BY <1>2 DEF DegreesInv
    <3>2. EdgesFrom((Registered \ done) \ {pick}, v)
          = EdgesFrom(Registered \ done, v) - EdgesFrom({pick}, v)
      BY <2>1, EdgesFromRest
    <3>3. EdgesFrom(Registered \ done', v) \in Nat
      BY <2>3, EdgesFromType
    <3>. QED BY <2>2, <3>1, <3>2, <3>3
  <2>5. \A v \in Registered : indeg'[v] = EdgesFrom(Registered \ done', v)
    BY <2>4
  <2>6. indeg' \in [Registered -> Nat]
    BY <2>4
  <2>7. \A v : EdgesFrom(Registered \ done, v)' = EdgesFrom(Registered \ done', v)
    BY <1>3, EdgesSame
  <2>8. \A v \in Registered' : indeg'[v] = EdgesFrom(Registered \ done, v)'
    BY <1>4, <2>5, <2>7
  <2>. QED BY <1>4, <2>6, <2>8 DEF DegreesInv
<1>14. \A n \in 1 .. N + 1 : \A m \in 1 .. n - 1 : m \in 1 .. N /\ order'[m] = order[m]
  BY <1>7
<1>15. \A i, n : n \in 1 .. N + 1 =>
          (WaitsForNobody(i, n)' <=>
             \A u \in Registered : Edge(u, i) => \E m \in 1 .. n - 1 : order[m] = u)
  BY <1>4, <1>14 DEF WaitsForNobody
<1>16. \A i : (\A u \in Registered : Edge(u, i) => \E m \in 1 .. (N + 1) - 1 : order[m] = u)
              <=> (\A u \in Registered : Edge(u, i) => u \in done)
  <2>1. (N + 1) - 1 = N
    BY <1>7
  <2>. QED BY <1>8, <2>1
<1>17. EdgesKept'
  <2>. SUFFICES ASSUME NEW n \in 1 .. N + 1
                PROVE  WaitsForNobody(order[n], n)'
    BY <1>7 DEF EdgesKept
  <2>1. CASE n \in 1 .. N
    <3>1. WaitsForNobody(order[n], n)
      BY <1>2, <1>7, <2>1 DEF EdgesKept
    <3>2. \A u \in Registered : Edge(u, order'[n]) => \E m \in 1 .. n - 1 : order[m] = u
      BY <1>7, <2>1, <3>1 DEF WaitsForNobody
    <3>. QED BY <1>15, <3>2
  <2>2. CASE n = N + 1
    <3>1. \A u \in Registered : Edge(u, order'[n]) => u \in done
      BY <1>7, <2>2
    <3>2. \A u \in Registered : Edge(u, order'[n]) => \E m \in 1 .. (N + 1) - 1 : order[m] = u
      BY <1>16, <3>1
    <3>. QED BY <1>15, <2>2, <3>2
  <2>. QED BY <1>7, <2>1, <2>2
<1>18. Greedy'
  <2>. SUFFICES ASSUME NEW n \in DOMAIN order', NEW i \in Registered',
                       systems'[i].phase = systems'[order'[n]].phase,
                       \A m \in 1 .. n - 1 : order'[m] # i,
                       WaitsForNobody(i, n)'
                PROVE  order'[n] <= i
    BY DEF Greedy
  <2>3. n \in 1 .. N + 1 /\ i \in Registered /\ systems[i].phase = systems[order'[n]].phase
    BY <1>3, <1>4, <1>7
  <2>4. \A u \in Registered : Edge(u, i) => \E m \in 1 .. n - 1 : order[m] = u
    BY <1>15, <2>3
  <2>1. CASE n \in 1 .. N
    <3>1. order'[n] = order[n] /\ n \in DOMAIN order
      BY <1>7, <2>1
    <3>2. \A m \in 1 .. n - 1 : order[m] # i
      BY <1>14, <2>3
    <3>3. WaitsForNobody(i, n)
      BY <2>4 DEF WaitsForNobody
    <3>4. order[n] <= i
      BY <1>2, <2>3, <3>1, <3>2, <3>3 DEF Greedy
    <3>. QED BY <3>1, <3>4
  <2>2. CASE n = N + 1
    <3>1. systems[i].phase = Current
      BY <1>7, <2>2, <2>3
    <3>2. i \notin done
      BY <1>7, <1>8, <2>2
    <3>3. \A u \in Registered : Edge(u, i) => u \in done
      BY <1>16, <2>2, <2>4
    <3>. QED BY <1>7, <2>2, <2>3, <3>1, <3>2, <3>3
  <2>. QED BY <1>7, <2>1, <2>2, <2>3
<1>19. BuildInv'
  BY <1>3, <1>4, <1>10, <1>11, <1>12, <1>13, <1>17, <1>18 DEF BuildInv
<1>. QED BY <1>4, <1>9, <1>19 DEF OrderInv

LEMMA EmitInv == OrderInv /\ Emit => OrderInv'
<1>. SUFFICES ASSUME OrderInv, Emit PROVE OrderInv'
  OBVIOUS
<1>1. ScheduleTypeOK /\ LabelsDiffer /\ BuildInv /\ stage = "build"
  BY DEF OrderInv, Emit
<1>2. UNCHANGED <<to_register, systems, phase_begin>>
  BY DEF Emit
<1>3. CASE Ready = {}
  <2>1. stage' = "cycle" /\ UNCHANGED <<order, indeg, done>>
    BY <1>3 DEF Emit
  <2>2. Members(Current) \ done # {}
    BY DEF Emit
  <2>3. Registered' = Registered /\ (\A u, v : Edge(u, v)' <=> Edge(u, v)) /\ LabelsDiffer' /\ AllResolve'
    BY <1>1, <1>2, EdgeSame DEF BuildInv
  <2>4. Current' = Current
    BY <1>2 DEF Current
  <2>5. ScheduleTypeOK'
    BY <1>1, <1>2, <2>1 DEF ScheduleTypeOK
  <2>6. BeginsInv'
    BY <1>1, <1>2, <2>1, <2>4 DEF BeginsInv, BuildInv
  <2>7. OnceInv'
    BY <1>1, <2>1, <2>3 DEF OnceInv, BuildInv
  <2>8. InPhases'
    BY <1>1, <1>2, <2>1, <2>3, <2>4 DEF InPhases, BuildInv
  <2>9. DegreesInv'
    <3>1. \A v : EdgesFrom(Registered \ done, v)' = EdgesFrom(Registered \ done, v)
      <4>1. \A v : EdgesFrom(Registered \ done, v)' = EdgesFrom(Registered \ done', v)
        BY <1>2, EdgesSame
      <4>. QED BY <2>1, <4>1
    <3>. QED BY <1>1, <2>1, <2>3, <3>1 DEF DegreesInv, BuildInv
  <2>10. \A i, n : WaitsForNobody(i, n)' <=> WaitsForNobody(i, n)
    BY <2>1, <2>3 DEF WaitsForNobody
  <2>11. EdgesKept' /\ Greedy'
    BY <1>1, <1>2, <2>1, <2>3, <2>10 DEF EdgesKept, Greedy, BuildInv
  <2>12. Members(Current)' = Members(Current)
    BY <1>2, <2>3, <2>4 DEF Members
  <2>13. Ready' = Ready
    BY <2>1, <2>12 DEF Ready
  <2>. QED BY <1>3, <2>1, <2>2, <2>3, <2>5, <2>6, <2>7, <2>8, <2>9, <2>11, <2>12, <2>13
           DEF OrderInv, BuildInv
<1>4. CASE Ready # {}
  <2>1. PICK pick : pick = Lowest(Ready)
    OBVIOUS
  <2>2. /\ order' = Append(order, pick) /\ done' = done \cup {pick}
        /\ indeg' = [v \in Registered |-> indeg[v] - EdgesFrom({pick}, v)]
        /\ UNCHANGED stage
    BY <1>4, <2>1 DEF Emit
  <2>3. /\ pick \in Registered /\ pick \notin done /\ pick \in Nat
        /\ systems[pick].phase = Current
        /\ \A u \in Registered : Edge(u, pick) => u \in done
        /\ \A i \in Registered :
              /\ systems[i].phase = Current /\ i \notin done
              /\ \A u \in Registered : Edge(u, i) => u \in done
              => pick <= i
    BY <1>1, <1>4, <2>1, PickFacts
  <2>. QED BY <1>1, <1>2, <2>2, <2>3, PlacedInv
<1>. QED BY <1>3, <1>4

LEMMA EndPhaseInv == OrderInv /\ EndPhase => OrderInv'
<1>. SUFFICES ASSUME OrderInv, EndPhase PROVE OrderInv'
  OBVIOUS
<1>1. ScheduleTypeOK /\ LabelsDiffer /\ BuildInv /\ stage = "build"
  BY DEF OrderInv, EndPhase
<1>2. AllResolve /\ BeginsInv /\ OnceInv /\ InPhases /\ DegreesInv /\ EdgesKept /\ Greedy
  BY <1>1 DEF BuildInv
<1>3. /\ Members(Current) \subseteq done /\ phase_begin' = Append(phase_begin, Len(order))
      /\ UNCHANGED <<to_register, systems, order, indeg, done>>
  BY DEF EndPhase
<1>4. /\ Current + 1 = PhaseCount => stage' = "built"
      /\ Current + 1 # PhaseCount => stage' = "build"
  BY <1>1 DEF EndPhase
<1>5. Registered' = Registered /\ (\A u, v : Edge(u, v)' <=> Edge(u, v)) /\ LabelsDiffer' /\ AllResolve'
  BY <1>1, <1>2, <1>3, EdgeSame
<1>6. /\ phase_begin \in Seq(Nat) /\ Len(order) \in Nat /\ Current \in Nat
      /\ Len(phase_begin) = Current + 1 /\ DOMAIN phase_begin = 1 .. Current + 1
  BY <1>1, <1>2 DEF ScheduleTypeOK, Current, BeginsInv
<1>7. /\ phase_begin' \in Seq(Nat) /\ phase_begin' # <<>>
      /\ Len(phase_begin') = Current + 2 /\ DOMAIN phase_begin' = 1 .. Current + 2
      /\ \A q \in 1 .. Current + 1 : phase_begin'[q] = phase_begin[q]
      /\ phase_begin'[Current + 2] = Len(order)
  BY <1>3, <1>6
<1>8. Current' = Current + 1
  BY <1>6, <1>7 DEF Current
<1>9. Current < PhaseCount /\ PhaseCount \in Nat
  BY <1>1, <1>2, ScheduleAssumption DEF BeginsInv
<1>10. ScheduleTypeOK'
  BY <1>1, <1>3, <1>4, <1>7 DEF ScheduleTypeOK
<1>11. BeginsInv'
  <2>1. phase_begin'[1] = 0
    BY <1>2, <1>6, <1>7 DEF BeginsInv
  <2>2. \A q \in DOMAIN phase_begin' : phase_begin'[q] <= Len(order)
    <3>1. \A q \in 1 .. Current + 1 : phase_begin[q] <= Len(order)
      BY <1>2, <1>6 DEF BeginsInv
    <3>. QED BY <1>6, <1>7, <3>1
  <2>3. \A q \in 1 .. Current + 1 : phase_begin'[q] <= phase_begin'[q + 1]
    <3>. SUFFICES ASSUME NEW q \in 1 .. Current + 1 PROVE phase_begin'[q] <= phase_begin'[q + 1]
      OBVIOUS
    <3>1. CASE q \in 1 .. Current
      <4>1. phase_begin[q] <= phase_begin[q + 1]
        BY <1>2, <3>1 DEF BeginsInv
      <4>2. q + 1 \in 1 .. Current + 1
        BY <1>6, <3>1
      <4>. QED BY <1>7, <4>1, <4>2
    <3>2. CASE q = Current + 1
      <4>1. phase_begin'[q + 1] = Len(order)
        <5>1. q + 1 = Current + 2
          BY <1>6, <3>2
        <5>. QED BY <1>7, <5>1
      <4>2. q \in DOMAIN phase_begin'
        BY <1>6, <1>7
      <4>. QED BY <2>2, <4>1, <4>2
    <3>. QED BY <1>6, <3>1, <3>2
  <2>4. Current' <= PhaseCount
    BY <1>6, <1>8, <1>9
  <2>5. /\ stage' \in {"build", "cycle"} => Current' < PhaseCount
        /\ stage' = "built" => Current' = PhaseCount
    BY <1>4, <1>6, <1>8, <1>9
  <2>. QED BY <1>3, <1>7, <1>8, <2>1, <2>2, <2>3, <2>4, <2>5 DEF BeginsInv
<1>12. OnceInv'
  BY <1>2, <1>3, <1>5 DEF OnceInv
<1>13. \A n \in DOMAIN order :
          /\ n \in Nat /\ n <= Len(order) /\ order[n] \in Registered
          /\ systems[order[n]].phase \in Nat /\ systems[order[n]].phase <= Current
  BY <1>1, <1>2, RegisteredFacts DEF OnceInv, InPhases, ScheduleTypeOK
<1>14. InPhases'
  <2>1. \A n \in DOMAIN order' : systems'[order'[n]].phase <= Current'
    BY <1>3, <1>6, <1>8, <1>13
  <2>2. \A n \in DOMAIN order' : \A q \in DOMAIN phase_begin' :
          phase_begin'[q] < n <=> systems'[order'[n]].phase >= q - 1
    <3>. SUFFICES ASSUME NEW n \in DOMAIN order, NEW q \in 1 .. Current + 2
                  PROVE  phase_begin'[q] < n <=> systems[order[n]].phase >= q - 1
      BY <1>3, <1>7
    <3>1. CASE q \in 1 .. Current + 1
      BY <1>2, <1>6, <1>7, <3>1 DEF InPhases
    <3>2. CASE q = Current + 2
      BY <1>6, <1>7, <1>13, <3>2
    <3>. QED BY <1>6, <3>1, <3>2
  <2>3. \A i \in Registered' : systems'[i].phase < Current' => i \in done'
    <3>. SUFFICES ASSUME NEW i \in Registered, systems[i].phase < Current + 1 PROVE i \in done
      BY <1>3, <1>5, <1>8
    <3>1. systems[i].phase \in Nat
      BY <1>1, RegisteredFacts
    <3>2. CASE systems[i].phase < Current
      BY <1>2, <3>2 DEF InPhases
    <3>3. CASE systems[i].phase = Current
      BY <1>1, <1>3, <3>3, MembersFacts
    <3>. QED BY <1>6, <3>1, <3>2, <3>3
  <2>. QED BY <2>1, <2>2, <2>3 DEF InPhases
<1>15. DegreesInv'
  <2>1. \A v : EdgesFrom(Registered \ done, v)' = EdgesFrom(Registered \ done, v)
    <3>1. \A v : EdgesFrom(Registered \ done, v)' = EdgesFrom(Registered \ done', v)
      BY <1>3, EdgesSame
    <3>. QED BY <1>3, <3>1
  <2>. QED BY <1>2, <1>3, <1>5, <2>1 DEF DegreesInv
<1>16. \A i, n : WaitsForNobody(i, n)' <=> WaitsForNobody(i, n)
  BY <1>3, <1>5 DEF WaitsForNobody
<1>17. EdgesKept' /\ Greedy'
  BY <1>2, <1>3, <1>5, <1>16 DEF EdgesKept, Greedy
<1>18. BuildInv'
  BY <1>4, <1>5, <1>11, <1>12, <1>14, <1>15, <1>17 DEF BuildInv
<1>. QED BY <1>5, <1>10, <1>18 DEF OrderInv

LEMMA ScheduleStutter == OrderInv /\ UNCHANGED schedule_vars => OrderInv'
<1>. SUFFICES ASSUME OrderInv, UNCHANGED schedule_vars PROVE OrderInv'
  OBVIOUS
<1>1. UNCHANGED <<to_register, systems, order, phase_begin, indeg, done, stage>>
  BY DEF schedule_vars
<1>2. Registered' = Registered /\ (\A u, v : Edge(u, v)' <=> Edge(u, v)) /\ Current' = Current
      /\ (LabelsDiffer => LabelsDiffer') /\ (AllResolve => AllResolve')
  BY <1>1, EdgeSame DEF Current
<1>3. ScheduleTypeOK => ScheduleTypeOK'
  BY <1>1 DEF ScheduleTypeOK
<1>4. (BeginsInv => BeginsInv') /\ (OnceInv => OnceInv') /\ (InPhases => InPhases')
  BY <1>1, <1>2 DEF BeginsInv, OnceInv, InPhases
<1>5. DegreesInv => DegreesInv'
  <2>1. \A v : EdgesFrom(Registered \ done, v)' = EdgesFrom(Registered \ done', v)
    BY <1>1, EdgesSame
  <2>. QED BY <1>1, <1>2, <2>1 DEF DegreesInv
<1>6. \A i, n : WaitsForNobody(i, n)' <=> WaitsForNobody(i, n)
  BY <1>1, <1>2 DEF WaitsForNobody
<1>7. (EdgesKept => EdgesKept') /\ (Greedy => Greedy')
  BY <1>1, <1>2, <1>6 DEF EdgesKept, Greedy
<1>8. Members(Current)' = Members(Current)
  BY <1>1, <1>2 DEF Members
<1>9. Ready' = Ready
  BY <1>1, <1>8 DEF Ready
<1>. QED BY <1>1, <1>2, <1>3, <1>4, <1>5, <1>7, <1>8, <1>9 DEF OrderInv, BuildInv

\* Of all the orders that break no edge a schedule is the least by registration, phase
\* by phase; none is refused that has one; and no edge crosses phases (schedule_build).
THEOREM OrderIsLeast == ScheduleSpec => []ScheduleInv
<1>1. ScheduleInit => OrderInv
  BY ScheduleInitInv
<1>2. OrderInv /\ [ScheduleNext]_schedule_vars => OrderInv'
  BY ScheduleRegisterInv, ResolveEdgesInv, EmitInv, EndPhaseInv, ScheduleStutter DEF ScheduleNext
<1>3. OrderInv => ScheduleInv
  BY OrderInvGives
<1>. QED BY <1>1, <1>2, <1>3, PTL DEF ScheduleSpec
=============================================================================
