---------------------------- MODULE Memory_proof ----------------------------
(***************************************************************************)
(* Proofs about the vendored libraries' heap (MemPool), for all granules,  *)
(* classes, reserves, budgets and sizes, and about a script virtual machine*)
(* (ScriptVm), for all kinds, tables, pools, budgets and source lengths:   *)
(* between any two calls the heap is sound (HeapInv), and so is the virtual*)
(* machine (VmInv).                                                        *)
(*                                                                         *)
(* The order of the first half: sums over functions; pages and places; the *)
(* inductive invariant, of a pool and the blocks its callers hold; what a  *)
(* carve, a pop, a large carve, a free and a change of title do to it; the *)
(* steps; the theorem. The second half: the reference registry; a call's   *)
(* net effect on it; the inductive invariant; the steps; the theorem.      *)
(***************************************************************************)
EXTENDS MemPool, ScriptVm, FiniteSetTheorems, SequenceTheorems, TLAPS

-----------------------------------------------------------------------------
\* A nonempty set of naturals has a least element: the form induction takes here.
LEMMA Least ==
    ASSUME NEW T, T \subseteq Nat, T # {}
    PROVE  \E n \in T : \A m \in T : n <= m
<1>1. PICK x \in T : \A y \in T : ~(<<y, x>> \in OpToRel(<, Nat))
  BY NatLessThanWellFounded, WFMin
<1>2. \A y \in T : ~(y < x)
  BY <1>1 DEF OpToRel
<1>. QED BY <1>2

-----------------------------------------------------------------------------
(* Sums over functions.                                                    *)

Any(s) == CHOOSE x \in s : TRUE
Body(f, h, s) == IF s = {} THEN 0 ELSE f[Any(s)] + h[s \ {Any(s)}]
Iter(f, D) == CHOOSE h : h = [s \in SUBSET D |-> Body(f, h, s)]

LEMMA AnyFacts == ASSUME NEW s, s # {} PROVE Any(s) \in s
BY DEF Any

LEMMA SumIsIter == ASSUME NEW f PROVE SumFunction(f) = Iter(f, DOMAIN f)[DOMAIN f]
BY DEF SumFunction, SumFunctionOnSet, FoldFunctionOnSet, MapThenFoldSet, Iter, Body, Any

LEMMA Subsets ==
    ASSUME NEW D, IsFiniteSet(D), NEW s \in SUBSET D
    PROVE  /\ IsFiniteSet(s) /\ Cardinality(s) \in Nat
           /\ \A x \in s : Cardinality(s \ {x}) = Cardinality(s) - 1 /\ s \ {x} \in SUBSET D
           /\ s # {} => Cardinality(s) > 0
<1>1. IsFiniteSet(s)
  BY FS_Subset
<1>2. Cardinality(s) \in Nat
  BY <1>1, FS_CardinalityType
<1>3. \A x \in s : Cardinality(s \ {x}) = Cardinality(s) - 1
  BY <1>1, FS_RemoveElement
<1>4. s # {} => Cardinality(s) # 0
  BY <1>1, FS_EmptySet
<1>. QED BY <1>1, <1>2, <1>3, <1>4

\* The fold that SumFunction stands for exists, so it is what its equation says.
LEMMA IterExists ==
    ASSUME NEW f, NEW D, IsFiniteSet(D), \A x \in D : f[x] \in Int
    PROVE  \E h : h = [s \in SUBSET D |-> Body(f, h, s)]
<1>. DEFINE Solves(h, n) == \A s \in SUBSET D : Cardinality(s) <= n => h[s] = Body(f, h, s)
            Solved(n) == \E h : h = [s \in SUBSET D |-> h[s]] /\ Solves(h, n)
            T == {n \in Nat : ~Solved(n)}
<1>1. Solved(0)
  <2>. DEFINE h == [s \in SUBSET D |-> 0]
  <2>1. ASSUME NEW s \in SUBSET D, Cardinality(s) <= 0
        PROVE  h[s] = Body(f, h, s)
    BY <2>1, Subsets DEF Body
  <2>2. h = [s \in SUBSET D |-> h[s]]
    OBVIOUS
  <2>. HIDE DEF h
  <2>. QED BY <2>1, <2>2
<1>2. ASSUME NEW n \in Nat, Solved(n)
      PROVE  Solved(n + 1)
  <2>1. PICK g : g = [s \in SUBSET D |-> g[s]] /\ Solves(g, n)
    BY <1>2
  <2>. DEFINE h == [s \in SUBSET D |-> IF Cardinality(s) <= n THEN g[s] ELSE Body(f, g, s)]
  <2>2. ASSUME NEW s \in SUBSET D, Cardinality(s) <= n + 1
        PROVE  h[s] = Body(f, h, s)
    <3>1. CASE s = {}
      BY <2>1, <3>1, Subsets DEF Body
    <3>2. CASE s # {}
      <4>1. /\ s \ {Any(s)} \in SUBSET D /\ Cardinality(s \ {Any(s)}) = Cardinality(s) - 1
            /\ Cardinality(s) \in Nat
        BY <3>2, AnyFacts, Subsets
      <4>2. Cardinality(s \ {Any(s)}) <= n
        BY <2>2, <4>1
      <4>3. h[s \ {Any(s)}] = g[s \ {Any(s)}]
        BY <4>1, <4>2
      <4>4. h[s] = Body(f, g, s)
        BY <2>1
      <4>. QED BY <4>3, <4>4 DEF Body
    <3>. QED BY <3>1, <3>2
  <2>3. h = [s \in SUBSET D |-> h[s]]
    OBVIOUS
  <2>. HIDE DEF h
  <2>. QED BY <2>2, <2>3
<1>3. \A n \in Nat : Solved(n)
  <2>1. SUFFICES ASSUME T # {}
                 PROVE  FALSE
    OBVIOUS
  <2>2. PICK n \in T : \A m \in T : n <= m
    BY <2>1, Least
  <2>. HIDE DEF Solved
  <2>3. n # 0
    BY <1>1
  <2>4. n - 1 \in Nat /\ Solved(n - 1)
    BY <2>2, <2>3
  <2>. QED BY <1>2, <2>2, <2>4
<1>4. Cardinality(D) \in Nat
  BY FS_CardinalityType
<1>5. PICK h : h = [s \in SUBSET D |-> h[s]] /\ Solves(h, Cardinality(D))
  BY <1>3, <1>4
<1>6. \A s \in SUBSET D : h[s] = Body(f, h, s)
  BY <1>5, FS_Subset
<1>. QED BY <1>5, <1>6

Folds(f, D, h) ==
    /\ h[{}] = 0
    /\ \A s \in SUBSET D : s # {} => h[s] = f[Any(s)] + h[s \ {Any(s)}]
    /\ \A s \in SUBSET D : h[s] \in Int

LEMMA IterFacts ==
    ASSUME NEW f, NEW D, IsFiniteSet(D), \A x \in D : f[x] \in Int
    PROVE  Folds(f, D, Iter(f, D))
<1>. DEFINE h == Iter(f, D)
            T == {n \in Nat : \E s \in SUBSET D : Cardinality(s) = n /\ h[s] \notin Int}
<1>1. h = [s \in SUBSET D |-> Body(f, h, s)]
  BY IterExists DEF Iter
<1>. HIDE DEF h
<1>2. h[{}] = 0
  BY <1>1 DEF Body
<1>3. ASSUME NEW s \in SUBSET D, s # {}
      PROVE  h[s] = f[Any(s)] + h[s \ {Any(s)}]
  BY <1>1, <1>3 DEF Body
<1>4. T = {}
  <2>1. SUFFICES ASSUME T # {}
                 PROVE  FALSE
    OBVIOUS
  <2>2. PICK n \in T : \A m \in T : n <= m
    BY <2>1, Least
  <2>3. PICK s \in SUBSET D : Cardinality(s) = n /\ h[s] \notin Int
    BY <2>2
  <2>4. s # {}
    BY <1>2, <2>3
  <2>5. Any(s) \in s /\ f[Any(s)] \in Int
    BY <2>4, AnyFacts
  <2>6. s \ {Any(s)} \in SUBSET D /\ Cardinality(s \ {Any(s)}) = n - 1 /\ n - 1 \in Nat
    BY <2>3, <2>4, <2>5, Subsets
  <2>7. h[s \ {Any(s)}] \in Int
    BY <2>2, <2>6
  <2>. QED BY <1>3, <2>3, <2>4, <2>5, <2>7
<1>5. \A s \in SUBSET D : h[s] \in Int
  BY <1>4, Subsets
<1>. QED BY <1>2, <1>3, <1>5 DEF h, Folds

\* The order of the elements is of no account.
LEMMA IterDrop ==
    ASSUME NEW f, NEW D, IsFiniteSet(D), \A x \in D : f[x] \in Int,
           NEW s \in SUBSET D, NEW x \in s
    PROVE  Iter(f, D)[s] = f[x] + Iter(f, D)[s \ {x}]
<1>. DEFINE h == Iter(f, D)
            Refutes(r) == \E y \in r : h[r] # f[y] + h[r \ {y}]
            T == {n \in Nat : \E r \in SUBSET D : Cardinality(r) = n /\ Refutes(r)}
<1>0. Folds(f, D, h)
  BY IterFacts
<1>. HIDE DEF h
<1>1. \A r \in SUBSET D : r # {} => h[r] = f[Any(r)] + h[r \ {Any(r)}]
  BY <1>0 DEF Folds
<1>2. \A r \in SUBSET D : h[r] \in Int
  BY <1>0 DEF Folds
<1>3. T = {}
  <2>1. SUFFICES ASSUME T # {}
                 PROVE  FALSE
    OBVIOUS
  <2>2. PICK n \in T : \A m \in T : n <= m
    BY <2>1, Least
  <2>3. PICK r \in SUBSET D : Cardinality(r) = n /\ Refutes(r)
    BY <2>2
  <2>4. PICK y \in r : h[r] # f[y] + h[r \ {y}]
    BY <2>3
  <2>. DEFINE z == Any(r)
  <2>5. z \in r /\ h[r] = f[z] + h[r \ {z}] /\ z # y
    BY <1>1, <2>4, AnyFacts
  <2>. HIDE DEF z
  <2>6. /\ r \ {z} \in SUBSET D /\ Cardinality(r \ {z}) = n - 1
        /\ r \ {y} \in SUBSET D /\ Cardinality(r \ {y}) = n - 1 /\ n - 1 \in Nat
    BY <2>3, <2>4, Subsets, <2>5
  <2>7. ~Refutes(r \ {z}) /\ ~Refutes(r \ {y})
    <3>1. n - 1 \notin T
      BY <2>2, <2>6
    <3>. HIDE DEF Refutes
    <3>. QED BY <2>6, <3>1
  <2>8. h[r \ {z}] = f[y] + h[(r \ {z}) \ {y}]
    BY <2>4, <2>5, <2>7
  <2>9. h[r \ {y}] = f[z] + h[(r \ {y}) \ {z}]
    BY <2>4, <2>5, <2>7
  <2>10. (r \ {z}) \ {y} = (r \ {y}) \ {z}
    OBVIOUS
  <2>11. f[y] \in Int /\ f[z] \in Int /\ h[(r \ {z}) \ {y}] \in Int
    BY <1>2, <2>4, <2>5
  <2>12. h[r \ {y}] = f[z] + h[(r \ {z}) \ {y}]
    BY <2>9, <2>10
  <2>13. h[r] = f[y] + h[r \ {y}]
    BY <2>5, <2>8, <2>11, <2>12
  <2>. QED BY <2>4, <2>13
<1>4. Cardinality(s) \in Nat
  BY Subsets
<1>. QED BY <1>3, <1>4 DEF h

LEMMA IterAgree ==
    ASSUME NEW f, NEW D, IsFiniteSet(D), \A x \in D : f[x] \in Int,
           NEW g, NEW E, E \subseteq D, \A x \in E : g[x] = f[x]
    PROVE  Iter(g, E)[E] = Iter(f, D)[E]
<1>. DEFINE h == Iter(f, D)
            k == Iter(g, E)
            T == {n \in Nat : \E r \in SUBSET E : Cardinality(r) = n /\ h[r] # k[r]}
<1>1. IsFiniteSet(E) /\ \A x \in E : g[x] \in Int
  BY FS_Subset
<1>2. Folds(f, D, h) /\ Folds(g, E, k)
  BY <1>1, IterFacts
<1>. HIDE DEF h, k
<1>3. /\ h[{}] = 0 /\ \A r \in SUBSET E : r # {} => h[r] = f[Any(r)] + h[r \ {Any(r)}]
      /\ k[{}] = 0 /\ \A r \in SUBSET E : r # {} => k[r] = g[Any(r)] + k[r \ {Any(r)}]
  BY <1>2 DEF Folds
<1>4. T = {}
  <2>1. SUFFICES ASSUME T # {}
                 PROVE  FALSE
    OBVIOUS
  <2>2. PICK n \in T : \A m \in T : n <= m
    BY <2>1, Least
  <2>3. PICK r \in SUBSET E : Cardinality(r) = n /\ h[r] # k[r]
    BY <2>2
  <2>4. r # {}
    BY <1>3, <2>3
  <2>5. Any(r) \in r
    BY <2>4, AnyFacts
  <2>6. r \ {Any(r)} \in SUBSET E /\ Cardinality(r \ {Any(r)}) = n - 1 /\ n - 1 \in Nat
    BY <1>1, <2>3, <2>4, <2>5, Subsets
  <2>7. h[r \ {Any(r)}] = k[r \ {Any(r)}]
    BY <2>2, <2>6
  <2>. QED BY <1>3, <2>3, <2>4, <2>5, <2>7
<1>5. Cardinality(E) \in Nat
  BY <1>1, FS_CardinalityType
<1>. QED BY <1>4, <1>5 DEF h, k

\* A function with numbers for values, on finitely many places.
Ledger(f) == f = [x \in DOMAIN f |-> f[x]] /\ IsFiniteSet(DOMAIN f) /\ \A x \in DOMAIN f : f[x] \in Int

LEMMA SumOfNothing == ASSUME NEW f, DOMAIN f = {} PROVE SumFunction(f) = 0
BY SumIsIter, IterFacts, FS_EmptySet DEF Folds

LEMMA SumDrops ==
    ASSUME NEW f, Ledger(f), NEW x \in DOMAIN f
    PROVE  SumFunction(f) = f[x] + SumFunction(Without(f, x)) /\ SumFunction(Without(f, x)) \in Int
<1>. DEFINE D == DOMAIN f
            g == Without(f, x)
<1>1. DOMAIN g = D \ {x} /\ \A y \in DOMAIN g : g[y] = f[y]
  BY DEF Without
<1>. HIDE DEF g
<1>2. Iter(g, DOMAIN g)[DOMAIN g] = Iter(f, D)[D \ {x}]
  BY <1>1, IterAgree DEF Ledger
<1>3. Iter(f, D)[D] = f[x] + Iter(f, D)[D \ {x}]
  BY IterDrop DEF Ledger
<1>4. Iter(f, D)[D \ {x}] \in Int
  BY IterFacts DEF Ledger, Folds
<1>. QED BY <1>2, <1>3, <1>4, SumIsIter DEF g

LEMMA SumAdds ==
    ASSUME NEW f, Ledger(f), NEW x, x \notin DOMAIN f, NEW v \in Int
    PROVE  SumFunction(With(f, x, v)) = SumFunction(f) + v /\ Ledger(With(f, x, v))
<1>. DEFINE g == With(f, x, v)
<1>1. Without(g, x) = f
  BY DEF Without, With, Ledger
<1>2. Ledger(g) /\ x \in DOMAIN g /\ g[x] = v
  BY FS_AddElement DEF With, Ledger
<1>. HIDE DEF g
<1>3. SumFunction(g) = v + SumFunction(f) /\ SumFunction(f) \in Int
  BY <1>1, <1>2, SumDrops
<1>. QED BY <1>2, <1>3 DEF g

LEMMA SumChanges ==
    ASSUME NEW f, Ledger(f), NEW x \in DOMAIN f, NEW v \in Int,
           NEW g, g = [f EXCEPT ![x] = v]
    PROVE  SumFunction(g) = SumFunction(f) - f[x] + v
<1>1. Ledger(g) /\ x \in DOMAIN g /\ g[x] = v
  BY DEF Ledger
<1>2. Without(g, x) = Without(f, x)
  BY DEF Without, Ledger
<1>3. f[x] \in Int
  BY DEF Ledger
<1>4. SumFunction(g) = g[x] + SumFunction(Without(g, x)) /\ SumFunction(Without(g, x)) \in Int
  BY <1>1, SumDrops
<1>5. SumFunction(f) = f[x] + SumFunction(Without(f, x))
  BY SumDrops
<1>. QED BY <1>1, <1>2, <1>3, <1>4, <1>5
-----------------------------------------------------------------------------
(* Pages and places.                                                       *)

LEMMA Granules ==
    /\ CarveGranule \in Nat /\ Header \in 1 .. CarveGranule - 1 /\ CarveGranule > 0
    /\ Base \in Nat /\ HeapReserve \in Nat /\ Budget \in Nat /\ Sizes \subseteq Nat
BY HeapAssumption

LEMMA ClassFacts ==
    ASSUME NEW c \in Classes
    PROVE  /\ ClassSize(c) \in 1 .. CarveGranule
           /\ ClassSize(c) # CarveGranule => ClassSize(c) <= CarveGranule - Header
           /\ PageBytes(c) \in Nat
           /\ IF ClassSize(c) = CarveGranule THEN PageBytes(c) = 2 * CarveGranule
              ELSE PageBytes(c) = CarveGranule
<1>1. ClassSize(c) \in 1 .. CarveGranule - Header \cup {CarveGranule}
  BY HeapAssumption
<1>. QED BY <1>1, Granules DEF PageBytes

LEMMA SmallFits ==
    ASSUME NEW size \in Nat, IsSmall(size)
    PROVE  ClassFor(size) \in Classes /\ size <= ClassSize(ClassFor(size))
<1>. DEFINE T == {c \in Classes : ClassSize(c) >= size}
<1>1. T # {}
  BY HeapAssumption DEF IsSmall
<1>2. T \subseteq Nat
  BY HeapAssumption DEF Classes
<1>3. PICK c \in T : \A d \in T : c <= d
  BY <1>1, <1>2, Least
<1>4. ASSUME NEW d \in 0 .. c - 1
      PROVE  ClassSize(d) < size
  <2>1. c \in 0 .. ClassCount - 1 /\ ClassCount \in Nat
    BY HeapAssumption DEF Classes
  <2>2. d \in Classes /\ d < c
    BY <2>1 DEF Classes
  <2>3. ~(ClassSize(d) >= size)
    BY <1>3, <2>1, <2>2
  <2>4. ClassSize(d) \in Int
    BY <2>2, ClassFacts
  <2>. QED BY <2>3, <2>4
<1>5. c \in Classes /\ ClassSize(c) >= size /\ \A d \in 0 .. c - 1 : ClassSize(d) < size
  BY <1>3, <1>4
<1>6. ClassFor(size) \in Classes /\ ClassSize(ClassFor(size)) >= size
  BY <1>5 DEF ClassFor
<1>7. ClassSize(ClassFor(size)) \in Int
  BY <1>6, ClassFacts
<1>. QED BY <1>6, <1>7

LEMMA Division ==
    ASSUME NEW v \in Nat, NEW g \in Nat \ {0}
    PROVE  /\ v \div g \in Nat
           /\ (v \div g) * g <= v /\ v < (v \div g) * g + g
OBVIOUS

LEMMA DivisionOf ==
    ASSUME NEW m \in Nat, NEW g \in Nat \ {0}, NEW k \in 0 .. g - 1
    PROVE  (m * g + k) \div g = m
<1>. DEFINE v == m * g + k
            d == v \div g
<1>1. v \in Nat /\ m * g \in Nat
  OBVIOUS
<1>2. d \in Nat /\ d * g <= v /\ v < d * g + g
  BY <1>1, Division
<1>3. CASE d < m
  <2>1. (d + 1) * g <= m * g
    BY <1>2, <1>3
  <2>2. (d + 1) * g = d * g + g
    BY <1>2
  <2>. QED BY <1>1, <1>2, <2>1, <2>2
<1>4. CASE m < d
  <2>1. (m + 1) * g <= d * g
    BY <1>2, <1>4
  <2>2. (m + 1) * g = m * g + g
    OBVIOUS
  <2>. QED BY <1>1, <1>2, <2>1, <2>2
<1>. QED BY <1>2, <1>3, <1>4

\* A page begins on a granule's boundary.
IsPage(page) == page \in Nat /\ PageOf(page) = page

LEMMA MultipleIsPage == ASSUME NEW m \in Nat PROVE IsPage(m * CarveGranule)
<1>1. (m * CarveGranule + 0) \div CarveGranule = m
  BY Granules, DivisionOf
<1>2. m * CarveGranule \in Nat
  BY Granules
<1>. QED BY <1>1, <1>2 DEF IsPage, PageOf

LEMMA PagesApart ==
    ASSUME NEW p, IsPage(p), NEW s, IsPage(s), p < s
    PROVE  p + CarveGranule <= s
<1>. DEFINE m == p \div CarveGranule
            n == s \div CarveGranule
<1>1. m \in Nat /\ p = m * CarveGranule /\ n \in Nat /\ s = n * CarveGranule
  BY Granules, Division DEF IsPage, PageOf
<1>. HIDE DEF m, n
<1>2. m < n
  <2>1. SUFFICES ASSUME n <= m
                 PROVE  FALSE
    BY <1>1
  <2>2. n * CarveGranule <= m * CarveGranule
    BY <1>1, <2>1, Granules
  <2>. QED BY <1>1, <2>2, Granules
<1>3. (m + 1) * CarveGranule <= n * CarveGranule /\ (m + 1) * CarveGranule = m * CarveGranule + CarveGranule
  BY <1>1, <1>2, Granules
<1>. QED BY <1>1, <1>3, Granules

LEMMA InsidePage ==
    ASSUME NEW page, IsPage(page), NEW k \in 0 .. CarveGranule - 1
    PROVE  PageOf(page + k) = page /\ page + k \in Nat
<1>. DEFINE m == page \div CarveGranule
<1>1. m \in Nat /\ page = m * CarveGranule
  BY Granules, Division DEF IsPage, PageOf
<1>. HIDE DEF m
<1>2. (m * CarveGranule + k) \div CarveGranule = m
  BY <1>1, Granules, DivisionOf
<1>. QED BY <1>1, <1>2, Granules DEF PageOf, IsPage

LEMMA RoundUpFacts ==
    ASSUME NEW v \in Nat
    PROVE  v <= RoundUp(v, CarveGranule) /\ IsPage(RoundUp(v, CarveGranule))
<1>. DEFINE w == v + CarveGranule - 1
<1>1. w \in Nat
  BY Granules
<1>2. /\ w \div CarveGranule \in Nat
      /\ w < (w \div CarveGranule) * CarveGranule + CarveGranule
      /\ (w \div CarveGranule) * CarveGranule \in Nat
  BY <1>1, Granules, Division
<1>3. RoundUp(v, CarveGranule) = (w \div CarveGranule) * CarveGranule
  BY DEF RoundUp
<1>. HIDE DEF w
<1>4. v <= (w \div CarveGranule) * CarveGranule
  BY <1>2, Granules DEF w
<1>. QED BY <1>2, <1>3, <1>4, MultipleIsPage

LEMMA CarveOfFacts ==
    ASSUME NEW size \in Nat
    PROVE  CarveOf(size) \in Nat /\ Header + size <= CarveOf(size)
BY Granules, RoundUpFacts DEF CarveOf, IsPage

\* Where the blocks of a class page stand.
Places(page, c) == {page + Header + (i - 1) * ClassSize(c) : i \in 1 .. BlocksPerPage(c)}

LEMMA PlaceOffsets ==
    ASSUME NEW c \in Classes, NEW i \in 1 .. BlocksPerPage(c)
    PROVE  /\ (i - 1) * ClassSize(c) \in Nat
           /\ Header + (i - 1) * ClassSize(c) \in 0 .. CarveGranule - 1
           /\ Header + (i - 1) * ClassSize(c) + ClassSize(c) <= PageBytes(c)
<1>. DEFINE s == ClassSize(c)
            room == PageBytes(c) - Header
            n == room \div s
<1>1. s \in Nat \ {0} /\ room \in Nat /\ Header \in Nat
  BY ClassFacts, Granules
<1>2. n \in Nat /\ n * s <= room /\ room < n * s + s
  BY <1>1, Division
<1>3. i \in 1 .. n
  BY DEF BlocksPerPage
<1>. HIDE DEF n
<1>4. i * s <= n * s /\ i * s = (i - 1) * s + s /\ (i - 1) * s \in Nat
  BY <1>1, <1>2, <1>3
<1>5. (i - 1) * s + s <= room
  BY <1>1, <1>2, <1>4
<1>6. Header + (i - 1) * s + s <= PageBytes(c)
  <2>. HIDE DEF s
  <2>. QED BY <1>1, <1>4, <1>5, ClassFacts
<1>7. Header + (i - 1) * s < CarveGranule
  <2>1. CASE s = CarveGranule
    <3>1. room < 2 * s
      BY <2>1, ClassFacts, Granules
    <3>2. n < 2
      <4>1. SUFFICES ASSUME n >= 2
                     PROVE  FALSE
        BY <1>2
      <4>2. n * s >= 2 * s
        BY <1>1, <1>2, <4>1
      <4>. QED BY <1>1, <1>2, <3>1, <4>2
    <3>3. i - 1 = 0
      BY <1>2, <1>3, <3>2
    <3>4. (i - 1) * s = 0
      BY <1>1, <3>3
    <3>. QED BY <3>4, Granules
  <2>2. CASE s # CarveGranule
    <3>1. PageBytes(c) = CarveGranule
      BY <2>2, ClassFacts
    <3>. HIDE DEF s
    <3>. QED BY <1>1, <1>4, <1>6, <3>1, Granules
  <2>. QED BY <2>1, <2>2
<1>. QED BY <1>1, <1>4, <1>6, <1>7, Granules

LEMMA PlaceFacts ==
    ASSUME NEW page, IsPage(page), NEW c \in Classes, NEW q \in Places(page, c)
    PROVE  /\ q \in Nat /\ PageOf(q) = page
           /\ page + Header <= q /\ q + ClassSize(c) <= page + PageBytes(c)
<1>1. PICK i \in 1 .. BlocksPerPage(c) : q = page + Header + (i - 1) * ClassSize(c)
  BY DEF Places
<1>. DEFINE at == (i - 1) * ClassSize(c)
<1>2. /\ at \in Nat /\ Header + at \in 0 .. CarveGranule - 1
      /\ Header + at + ClassSize(c) <= PageBytes(c)
  BY PlaceOffsets
<1>. HIDE DEF at
<1>3. q = page + (Header + at) /\ page \in Nat
  BY <1>1, <1>2, Granules DEF IsPage, at
<1>. QED BY <1>2, <1>3, InsidePage, Granules, ClassFacts

LEMMA PlacesApart ==
    ASSUME NEW page, IsPage(page), NEW c \in Classes,
           NEW q \in Places(page, c), NEW r \in Places(page, c), q < r
    PROVE  q + ClassSize(c) <= r
<1>1. PICK i \in 1 .. BlocksPerPage(c) : q = page + Header + (i - 1) * ClassSize(c)
  BY DEF Places
<1>2. PICK j \in 1 .. BlocksPerPage(c) : r = page + Header + (j - 1) * ClassSize(c)
  BY DEF Places
<1>. DEFINE s == ClassSize(c)
            a == i - 1
            b == j - 1
<1>3. s \in Nat \ {0} /\ page \in Nat /\ Header \in Nat
  BY ClassFacts, Granules DEF IsPage
<1>4. BlocksPerPage(c) \in Int
  BY ClassFacts, Granules DEF BlocksPerPage
<1>5. a \in Nat /\ b \in Nat
  BY <1>4
<1>6. q = page + Header + a * s /\ r = page + Header + b * s
  BY <1>1, <1>2
<1>. HIDE DEF s, a, b
<1>7. a * s < b * s /\ a * s \in Nat /\ b * s \in Nat
  BY <1>3, <1>5, <1>6
<1>8. a < b
  <2>1. SUFFICES ASSUME b <= a
                 PROVE  FALSE
    BY <1>5
  <2>2. b * s <= a * s
    BY <1>3, <1>5, <2>1
  <2>. QED BY <1>7, <2>2
<1>9. (a + 1) * s <= b * s /\ (a + 1) * s = a * s + s
  BY <1>3, <1>5, <1>8
<1>10. q + s <= r
  BY <1>3, <1>6, <1>7, <1>9
<1>. QED BY <1>10 DEF s

LEMMA PageHasPlaces == ASSUME NEW c \in Classes PROVE BlocksPerPage(c) \in Nat /\ BlocksPerPage(c) >= 1
<1>. DEFINE s == ClassSize(c)
            room == PageBytes(c) - Header
            n == room \div s
<1>1. s \in Nat \ {0} /\ room \in Nat /\ s <= room
  BY ClassFacts, Granules
<1>2. n \in Nat /\ room < n * s + s
  BY <1>1, Division
<1>3. n # 0
  <2>. HIDE DEF n
  <2>1. n = 0 => n * s = 0
    BY <1>1
  <2>. QED BY <1>1, <1>2, <2>1
<1>. QED BY <1>2, <1>3 DEF BlocksPerPage
-----------------------------------------------------------------------------
(* The inductive invariant, of what a pool holds: where its arena's mark u *)
(* stands, its carves cv and free lists fl, and its callers' blocks b; and *)
(* of its books.                                                           *)

Headers == [klass : Classes, large : BOOLEAN, live : Nat, size : Nat]
Taken(h) == IF h.large THEN CarveOf(h.size) ELSE h.size
Space(h) == IF h.large THEN h.size ELSE ClassSize(h.klass)
Titled(h) == h \in Headers /\ (~h.large => h.size = PageBytes(h.klass))
Stands(q, page, h) == IF h.large THEN q = page + Header ELSE q \in Places(page, h.klass)

\* Carves lie below the mark, one after another, each with its title.
CarvesOK(u, cv) ==
    /\ u \in Nat
    /\ cv = [p \in DOMAIN cv |-> cv[p]] /\ IsFiniteSet(DOMAIN cv)
    /\ \A p \in DOMAIN cv : IsPage(p) /\ Titled(cv[p]) /\ p + Taken(cv[p]) <= Base + u
    /\ \A p, r \in DOMAIN cv : p < r => p + Taken(cv[p]) <= r

\* A caller's block stands in a carve, and has room for what was asked.
BlocksOK(cv, b) ==
    /\ b = [q \in DOMAIN b |-> b[q]] /\ IsFiniteSet(DOMAIN b)
    /\ \A q \in DOMAIN b :
          /\ q \in Nat /\ PageOf(q) \in DOMAIN cv /\ Stands(q, PageOf(q), cv[PageOf(q)])
          /\ b[q] \in Nat /\ b[q] <= Space(cv[PageOf(q)])

Listed(fl, c) == {fl[c][i] : i \in DOMAIN fl[c]}
IsOfClass(cv, q, c) ==
    /\ q \in Nat /\ PageOf(q) \in DOMAIN cv
    /\ ~cv[PageOf(q)].large /\ cv[PageOf(q)].klass = c /\ q \in Places(PageOf(q), c)

\* A free list holds blocks of its class that nobody holds, each of them once.
FreeOK(cv, fl, b) ==
    /\ fl \in [Classes -> Seq(Nat)]
    /\ \A c \in Classes : \A q \in Listed(fl, c) : q \notin DOMAIN b /\ IsOfClass(cv, q, c)
    /\ \A c \in Classes : \A i, j \in 1 .. Len(fl[c]) : fl[c][i] = fl[c][j] => i = j

HeldOn(b, page) == {q \in DOMAIN b : PageOf(q) = page}
HeldOf(cv, b, c) == {q \in DOMAIN b : ~cv[PageOf(q)].large /\ cv[PageOf(q)].klass = c}
HeldLarge(cv, b) == {q \in DOMAIN b : cv[PageOf(q)].large}
CountsOK(cv, b, lc, n) ==
    /\ lc \in [Classes -> Nat] /\ \A c \in Classes : lc[c] = Cardinality(HeldOf(cv, b, c))
    /\ n = Cardinality(HeldLarge(cv, b))
    /\ \A p \in DOMAIN cv : cv[p].live = Cardinality(HeldOn(b, p))

CarveLedger(cv) == [p \in DOMAIN cv |-> Taken(cv[p])]
RoomLedger(cv, b) == [q \in DOMAIN b |-> Space(cv[PageOf(q)])]
SumsOK(cv, b, cb, lb, pk) ==
    /\ cb = SumFunction(CarveLedger(cv)) /\ cb \in Int /\ cb <= Budget
    /\ lb = SumFunction(RoomLedger(cv, b)) /\ lb \in Int
    /\ pk \in Int /\ lb <= pk

Shape(u, fl, cv, b) == CarvesOK(u, cv) /\ BlocksOK(cv, b) /\ FreeOK(cv, fl, b)

Good(p, b) ==
    /\ Shape(p.used, p.free_list, p.carves, b)
    /\ CountsOK(p.carves, b, p.live_count, p.large_count)
    /\ SumsOK(p.carves, b, p.carved_bytes, p.live_bytes, p.peak_bytes)
    /\ p.fatal = FALSE

IInv == Good(Pool, blocks)

LEMMA TitleFacts ==
    ASSUME NEW h, Titled(h)
    PROVE  /\ Taken(h) \in Nat /\ Taken(h) > 0 /\ Space(h) \in Nat
           /\ h.klass \in Classes /\ h.large \in BOOLEAN /\ h.live \in Nat /\ h.size \in Nat
           /\ h.large => Header + Space(h) <= Taken(h)
           /\ ~h.large => Taken(h) = PageBytes(h.klass) /\ Space(h) = ClassSize(h.klass)
<1>1. h.klass \in Classes /\ h.large \in BOOLEAN /\ h.live \in Nat /\ h.size \in Nat
  BY DEF Titled, Headers
<1>2. CASE h.large
  BY <1>1, <1>2, CarveOfFacts, Granules DEF Taken, Space
<1>3. CASE ~h.large
  BY <1>1, <1>3, ClassFacts, Granules DEF Taken, Space, Titled
<1>. QED BY <1>1, <1>2, <1>3

\* A block that stands in a carve lies in it, above its header.
LEMMA StandsInside ==
    ASSUME NEW page, IsPage(page), NEW h, Titled(h), NEW q, Stands(q, page, h)
    PROVE  /\ q \in Nat /\ PageOf(q) = page
           /\ page + Header <= q /\ q + Space(h) <= page + Taken(h)
<1>1. CASE h.large
  <2>1. q = page + Header
    BY <1>1 DEF Stands
  <2>2. Header \in 0 .. CarveGranule - 1 /\ page \in Nat
    BY Granules DEF IsPage
  <2>. QED BY <1>1, <2>1, <2>2, InsidePage, TitleFacts
<1>2. CASE ~h.large
  <2>1. q \in Places(page, h.klass) /\ h.klass \in Classes
    BY <1>2, TitleFacts DEF Stands
  <2>. QED BY <1>2, <2>1, PlaceFacts, TitleFacts
<1>. QED BY <1>1, <1>2

-----------------------------------------------------------------------------
(* What changes of the carves leave as it is.                              *)

\* Every carve is still there, under the same title.
Alike(cv, dv) ==
    \A p \in DOMAIN cv : p \in DOMAIN dv /\ dv[p].large = cv[p].large
                         /\ dv[p].klass = cv[p].klass /\ dv[p].size = cv[p].size

LEMMA AlikeRoom ==
    ASSUME NEW cv, NEW dv, Alike(cv, dv), NEW p \in DOMAIN cv
    PROVE  /\ Space(dv[p]) = Space(cv[p]) /\ Taken(dv[p]) = Taken(cv[p])
           /\ \A q : Stands(q, p, dv[p]) <=> Stands(q, p, cv[p])
BY DEF Alike, Space, Taken, Stands

LEMMA AlikeKeeps ==
    ASSUME NEW cv, NEW dv, Alike(cv, dv), NEW b, BlocksOK(cv, b), NEW fl, FreeOK(cv, fl, b)
    PROVE  /\ BlocksOK(dv, b) /\ FreeOK(dv, fl, b)
           /\ RoomLedger(dv, b) = RoomLedger(cv, b)
           /\ HeldLarge(dv, b) = HeldLarge(cv, b)
           /\ \A c \in Classes : HeldOf(dv, b, c) = HeldOf(cv, b, c)
<1>1. \A q \in DOMAIN b : PageOf(q) \in DOMAIN cv
  BY DEF BlocksOK
<1>2. \A p \in DOMAIN cv : /\ p \in DOMAIN dv /\ Space(dv[p]) = Space(cv[p])
                           /\ \A q : Stands(q, p, dv[p]) <=> Stands(q, p, cv[p])
                           /\ dv[p].large = cv[p].large /\ dv[p].klass = cv[p].klass
  BY AlikeRoom DEF Alike
<1>3. BlocksOK(dv, b)
  BY <1>2 DEF BlocksOK
<1>4. FreeOK(dv, fl, b)
  BY <1>2 DEF FreeOK, IsOfClass
<1>5. RoomLedger(dv, b) = RoomLedger(cv, b)
  BY <1>1, <1>2 DEF RoomLedger
<1>6. HeldLarge(dv, b) = HeldLarge(cv, b) /\ \A c \in Classes : HeldOf(dv, b, c) = HeldOf(cv, b, c)
  BY <1>1, <1>2 DEF HeldLarge, HeldOf
<1>. QED BY <1>3, <1>4, <1>5, <1>6

\* Another count of the live blocks of a page.
LEMMA Relived ==
    ASSUME NEW u, NEW cv, CarvesOK(u, cv), NEW p \in DOMAIN cv, NEW n \in Nat,
           NEW dv, dv = [cv EXCEPT ![p].live = n]
    PROVE  /\ CarvesOK(u, dv) /\ Alike(cv, dv) /\ CarveLedger(dv) = CarveLedger(cv)
           /\ DOMAIN dv = DOMAIN cv /\ dv[p].live = n
           /\ \A r \in DOMAIN cv : r # p => dv[r] = cv[r]
<1>1. cv[p] \in Headers /\ \A r \in DOMAIN cv : cv[r] \in Headers
  BY DEF CarvesOK, Titled
<1>2. /\ DOMAIN dv = DOMAIN cv /\ dv[p] = [cv[p] EXCEPT !.live = n]
      /\ \A r \in DOMAIN cv : r # p => dv[r] = cv[r]
      /\ dv = [r \in DOMAIN dv |-> dv[r]]
  BY DEF CarvesOK
<1>3. /\ dv[p] \in Headers /\ dv[p].live = n /\ dv[p].large = cv[p].large
      /\ dv[p].klass = cv[p].klass /\ dv[p].size = cv[p].size
  BY <1>1, <1>2 DEF Headers
<1>4. Alike(cv, dv)
  BY <1>2, <1>3 DEF Alike
<1>5. ASSUME NEW r \in DOMAIN cv
      PROVE  Titled(dv[r]) /\ Taken(dv[r]) = Taken(cv[r])
  <2>1. Titled(cv[r])
    BY DEF CarvesOK
  <2>2. CASE r = p
    BY <1>3, <2>1, <2>2 DEF Titled, Taken
  <2>3. CASE r # p
    BY <1>2, <2>1, <2>3
  <2>. QED BY <2>2, <2>3
<1>6. CarvesOK(u, dv)
  BY <1>2, <1>5 DEF CarvesOK
<1>7. CarveLedger(dv) = CarveLedger(cv)
  BY <1>2, <1>5 DEF CarveLedger
<1>. QED BY <1>2, <1>3, <1>4, <1>6, <1>7

LEMMA CarveLedgerIs ==
    ASSUME NEW u, NEW cv, CarvesOK(u, cv)
    PROVE  Ledger(CarveLedger(cv))
BY TitleFacts DEF CarvesOK, CarveLedger, Ledger

LEMMA RoomLedgerIs ==
    ASSUME NEW u, NEW cv, CarvesOK(u, cv), NEW b, BlocksOK(cv, b)
    PROVE  Ledger(RoomLedger(cv, b))
<1>1. \A q \in DOMAIN b : Space(cv[PageOf(q)]) \in Int
  BY TitleFacts DEF CarvesOK, BlocksOK
<1>. QED BY <1>1 DEF RoomLedger, Ledger, BlocksOK

\* A new carve, at the next granule's boundary.
LEMMA NewCarve ==
    ASSUME NEW u, NEW cv, CarvesOK(u, cv), NEW h, Titled(h),
           NEW page, page = RoundUp(Base + u, CarveGranule), NEW dv, dv = With(cv, page, h)
    PROVE  /\ page \notin DOMAIN cv /\ IsPage(page)
           /\ CarvesOK(page - Base + Taken(h), dv) /\ Alike(cv, dv)
           /\ DOMAIN dv = DOMAIN cv \cup {page} /\ dv[page] = h
           /\ \A r \in DOMAIN cv : dv[r] = cv[r]
           /\ SumFunction(CarveLedger(dv)) = SumFunction(CarveLedger(cv)) + Taken(h)
<1>1. u \in Nat /\ Base + u <= page /\ IsPage(page) /\ page \in Nat /\ Base \in Nat
  BY RoundUpFacts, Granules DEF CarvesOK, IsPage
<1>2. \A r \in DOMAIN cv : r \in Nat /\ Taken(cv[r]) \in Nat /\ Taken(cv[r]) > 0
  BY TitleFacts DEF CarvesOK, IsPage
<1>3. \A r \in DOMAIN cv : r + Taken(cv[r]) <= page
  BY <1>1, <1>2 DEF CarvesOK
<1>4. page \notin DOMAIN cv
  BY <1>1, <1>2, <1>3
<1>5. /\ DOMAIN dv = DOMAIN cv \cup {page} /\ dv[page] = h /\ \A r \in DOMAIN cv : dv[r] = cv[r]
      /\ dv = [r \in DOMAIN dv |-> dv[r]]
  BY <1>4 DEF With
<1>6. Taken(h) \in Nat
  BY TitleFacts
<1>7. CarveLedger(dv) = With(CarveLedger(cv), page, Taken(h))
  BY <1>4, <1>5 DEF CarveLedger, With
<1>8. SumFunction(CarveLedger(dv)) = SumFunction(CarveLedger(cv)) + Taken(h)
  <2>1. page \notin DOMAIN CarveLedger(cv)
    BY <1>4 DEF CarveLedger
  <2>. QED BY <1>6, <1>7, <2>1, SumAdds, CarveLedgerIs
<1>9. IsFiniteSet(DOMAIN dv)
  BY <1>5, FS_AddElement DEF CarvesOK
<1>10. ASSUME NEW r \in DOMAIN dv
       PROVE  IsPage(r) /\ Titled(dv[r]) /\ r + Taken(dv[r]) <= page + Taken(h)
  BY <1>1, <1>2, <1>3, <1>5, <1>6 DEF CarvesOK
<1>11. ASSUME NEW r \in DOMAIN dv, NEW s \in DOMAIN dv, r < s
       PROVE  r + Taken(dv[r]) <= s
  <2>1. CASE r \in DOMAIN cv /\ s \in DOMAIN cv
    BY <1>5, <1>11, <2>1 DEF CarvesOK
  <2>2. CASE r \in DOMAIN cv /\ s = page
    BY <1>3, <1>5, <2>2
  <2>3. CASE r = page /\ s \in DOMAIN cv
    BY <1>1, <1>2, <1>3, <1>11, <2>3
  <2>4. CASE r = page /\ s = page
    BY <1>1, <1>11, <2>4
  <2>. QED BY <1>5, <2>1, <2>2, <2>3, <2>4
<1>12. CarvesOK(page - Base + Taken(h), dv)
  <2>1. page - Base + Taken(h) \in Nat /\ Base + (page - Base + Taken(h)) = page + Taken(h)
    BY <1>1, <1>6
  <2>. QED BY <1>5, <1>9, <1>10, <1>11, <2>1 DEF CarvesOK
<1>13. Alike(cv, dv)
  BY <1>5 DEF Alike
<1>. QED BY <1>1, <1>4, <1>5, <1>8, <1>12, <1>13
-----------------------------------------------------------------------------
(* What it does to the books that a caller holds one block more, or less.  *)

LEMMA HeldFinite ==
    ASSUME NEW cv, NEW b, BlocksOK(cv, b), NEW S, S \subseteq DOMAIN b
    PROVE  IsFiniteSet(S) /\ Cardinality(S) \in Nat
BY FS_Subset, FS_CardinalityType DEF BlocksOK

\* A number that counts a set, and the set without x.
LEMMA OneLess ==
    ASSUME NEW S, IsFiniteSet(S), NEW x, NEW R, R = S \ {x}
    PROVE  Cardinality(R) = Cardinality(S) - (IF x \in S THEN 1 ELSE 0)
           /\ Cardinality(R) \in Nat /\ Cardinality(S) \in Nat
<1>1. Cardinality(S) \in Nat /\ IsFiniteSet(R)
  BY FS_CardinalityType, FS_RemoveElement
<1>2. Cardinality(R) \in Nat
  BY <1>1, FS_CardinalityType
<1>3. CASE x \in S
  BY <1>1, <1>2, <1>3, FS_RemoveElement
<1>4. CASE x \notin S
  <2>1. R = S
    BY <1>4
  <2>. QED BY <1>1, <1>4, <2>1
<1>. QED BY <1>1, <1>2, <1>3, <1>4

LEMMA FewerShape ==
    ASSUME NEW cv, NEW b, BlocksOK(cv, b), NEW fl, FreeOK(cv, fl, b), NEW q \in DOMAIN b
    PROVE  BlocksOK(cv, Without(b, q)) /\ FreeOK(cv, fl, Without(b, q))
           /\ DOMAIN Without(b, q) = DOMAIN b \ {q}
<1>. DEFINE d == Without(b, q)
<1>1. /\ DOMAIN d = DOMAIN b \ {q} /\ \A r \in DOMAIN d : d[r] = b[r]
      /\ d = [r \in DOMAIN d |-> d[r]]
  BY DEF Without
<1>. HIDE DEF d
<1>2. BlocksOK(cv, d)
  <2>1. IsFiniteSet(DOMAIN d)
    BY <1>1, FS_RemoveElement DEF BlocksOK
  <2>. QED BY <1>1, <2>1 DEF BlocksOK
<1>3. FreeOK(cv, fl, d)
  BY <1>1 DEF FreeOK
<1>. QED BY <1>1, <1>2, <1>3 DEF d

\* The books of the blocks b, and of the same without q.
Fewer(cv, b, q) ==
    LET d == Without(b, q)
        h == cv[PageOf(q)]
    IN  /\ Cardinality(HeldLarge(cv, d)) = Cardinality(HeldLarge(cv, b)) - (IF h.large THEN 1 ELSE 0)
        /\ \A c \in Classes : Cardinality(HeldOf(cv, d, c)) =
              Cardinality(HeldOf(cv, b, c)) - (IF ~h.large /\ h.klass = c THEN 1 ELSE 0)
        /\ \A p : Cardinality(HeldOn(d, p)) =
              Cardinality(HeldOn(b, p)) - (IF PageOf(q) = p THEN 1 ELSE 0)
        /\ Cardinality(HeldLarge(cv, b)) \in Nat /\ Cardinality(HeldLarge(cv, d)) \in Nat
        /\ \A c \in Classes : Cardinality(HeldOf(cv, b, c)) \in Nat /\ Cardinality(HeldOf(cv, d, c)) \in Nat
        /\ \A p : Cardinality(HeldOn(b, p)) \in Nat /\ Cardinality(HeldOn(d, p)) \in Nat
        /\ SumFunction(RoomLedger(cv, b)) = SumFunction(RoomLedger(cv, d)) + Space(h)
        /\ SumFunction(RoomLedger(cv, d)) \in Int /\ Space(h) \in Nat

LEMMA FewerBooks ==
    ASSUME NEW u, NEW cv, CarvesOK(u, cv), NEW b, BlocksOK(cv, b), NEW fl, FreeOK(cv, fl, b),
           NEW q \in DOMAIN b
    PROVE  Fewer(cv, b, q)
<1>. DEFINE d == Without(b, q)
            h == cv[PageOf(q)]
<1>0. RoomLedger(cv, d) = Without(RoomLedger(cv, b), q)
  BY DEF Without, RoomLedger
<1>1. /\ HeldLarge(cv, d) = HeldLarge(cv, b) \ {q}
      /\ \A c \in Classes : HeldOf(cv, d, c) = HeldOf(cv, b, c) \ {q}
      /\ \A p : HeldOn(d, p) = HeldOn(b, p) \ {q}
  <2>1. DOMAIN d = DOMAIN b \ {q}
    BY DEF Without
  <2>. HIDE DEF d
  <2>2. HeldLarge(cv, d) = HeldLarge(cv, b) \ {q}
    BY <2>1 DEF HeldLarge
  <2>3. \A c \in Classes : HeldOf(cv, d, c) = HeldOf(cv, b, c) \ {q}
    BY <2>1 DEF HeldOf
  <2>4. \A p : HeldOn(d, p) = HeldOn(b, p) \ {q}
    BY <2>1 DEF HeldOn
  <2>. QED BY <2>2, <2>3, <2>4
<1>. HIDE DEF d
<1>2. /\ HeldLarge(cv, b) \subseteq DOMAIN b /\ (q \in HeldLarge(cv, b) <=> h.large)
      /\ \A c \in Classes : HeldOf(cv, b, c) \subseteq DOMAIN b
                            /\ (q \in HeldOf(cv, b, c) <=> ~h.large /\ h.klass = c)
      /\ \A p : HeldOn(b, p) \subseteq DOMAIN b /\ (q \in HeldOn(b, p) <=> PageOf(q) = p)
  BY DEF HeldLarge, HeldOf, HeldOn
<1>3. /\ Cardinality(HeldLarge(cv, d)) = Cardinality(HeldLarge(cv, b)) - (IF h.large THEN 1 ELSE 0)
      /\ Cardinality(HeldLarge(cv, b)) \in Nat /\ Cardinality(HeldLarge(cv, d)) \in Nat
  <2>1. IsFiniteSet(HeldLarge(cv, b))
    BY <1>2, HeldFinite
  <2>. QED BY <1>1, <1>2, <2>1, OneLess
<1>4. ASSUME NEW c \in Classes
      PROVE  /\ Cardinality(HeldOf(cv, d, c)) =
                  Cardinality(HeldOf(cv, b, c)) - (IF ~h.large /\ h.klass = c THEN 1 ELSE 0)
             /\ Cardinality(HeldOf(cv, b, c)) \in Nat /\ Cardinality(HeldOf(cv, d, c)) \in Nat
  <2>1. IsFiniteSet(HeldOf(cv, b, c))
    BY <1>2, HeldFinite
  <2>. QED BY <1>1, <1>2, <2>1, OneLess
<1>5. ASSUME NEW p
      PROVE  /\ Cardinality(HeldOn(d, p)) =
                  Cardinality(HeldOn(b, p)) - (IF PageOf(q) = p THEN 1 ELSE 0)
             /\ Cardinality(HeldOn(b, p)) \in Nat /\ Cardinality(HeldOn(d, p)) \in Nat
  <2>1. IsFiniteSet(HeldOn(b, p))
    BY <1>2, HeldFinite
  <2>. QED BY <1>1, <1>2, <2>1, OneLess
<1>6. /\ SumFunction(RoomLedger(cv, b)) = SumFunction(RoomLedger(cv, d)) + Space(h)
      /\ SumFunction(RoomLedger(cv, d)) \in Int /\ Space(h) \in Nat
  <2>1. q \in DOMAIN RoomLedger(cv, b) /\ RoomLedger(cv, b)[q] = Space(h)
    BY DEF RoomLedger
  <2>2. Space(h) \in Nat
    BY TitleFacts DEF CarvesOK, BlocksOK
  <2>3. SumFunction(RoomLedger(cv, b)) = Space(h) + SumFunction(RoomLedger(cv, d))
        /\ SumFunction(RoomLedger(cv, d)) \in Int
    BY <1>0, <2>1, SumDrops, RoomLedgerIs
  <2>. QED BY <2>2, <2>3
<1>. QED BY <1>3, <1>4, <1>5, <1>6 DEF Fewer, d

\* Adding is taking away, seen from the other side.
IsMore(cv, fl, b, q, d) ==
    BlocksOK(cv, d) /\ FreeOK(cv, fl, d) /\ DOMAIN d = DOMAIN b \cup {q} /\ Without(d, q) = b

\* A block that may be handed out: it has its place and its room, and nobody has it.
Fits(cv, fl, b, q, size) ==
    /\ q \in Nat /\ q \notin DOMAIN b /\ size \in Nat
    /\ PageOf(q) \in DOMAIN cv /\ Stands(q, PageOf(q), cv[PageOf(q)])
    /\ size <= Space(cv[PageOf(q)]) /\ \A c \in Classes : q \notin Listed(fl, c)

LEMMA MoreBlocks ==
    ASSUME NEW cv, NEW b, BlocksOK(cv, b), NEW fl, FreeOK(cv, fl, b),
           NEW q, NEW size, Fits(cv, fl, b, q, size)
    PROVE  IsMore(cv, fl, b, q, With(b, q, size))
<1>. DEFINE d == With(b, q, size)
<1>1. /\ DOMAIN d = DOMAIN b \cup {q} /\ d[q] = size /\ \A r \in DOMAIN b : d[r] = b[r]
      /\ d = [r \in DOMAIN d |-> d[r]]
  BY DEF With, Fits
<1>2. Without(d, q) = b
  BY DEF With, Without, BlocksOK, Fits
<1>. HIDE DEF d
<1>3. IsFiniteSet(DOMAIN d)
  BY <1>1, FS_AddElement DEF BlocksOK
<1>4. BlocksOK(cv, d)
  BY <1>1, <1>3 DEF BlocksOK, Fits
<1>5. FreeOK(cv, fl, d)
  BY <1>1 DEF FreeOK, Fits
<1>. QED BY <1>1, <1>2, <1>4, <1>5 DEF IsMore, d

LEMMA MoreBooks ==
    ASSUME NEW u, NEW cv, CarvesOK(u, cv), NEW b, BlocksOK(cv, b), NEW fl, FreeOK(cv, fl, b),
           NEW q, NEW size, Fits(cv, fl, b, q, size)
    PROVE  Fewer(cv, With(b, q, size), q)
<1>. DEFINE d == With(b, q, size)
<1>1. IsMore(cv, fl, b, q, d)
  BY MoreBlocks
<1>. HIDE DEF d
<1>2. BlocksOK(cv, d) /\ FreeOK(cv, fl, d) /\ q \in DOMAIN d
  BY <1>1 DEF IsMore
<1>3. Fewer(cv, d, q)
  BY <1>2, FewerBooks
<1>. QED BY <1>3 DEF d

-----------------------------------------------------------------------------
(* The operations, on a pool as a record.                                  *)

IsPool(p) ==
    p = [used |-> p.used, carved_bytes |-> p.carved_bytes, free_list |-> p.free_list,
         carves |-> p.carves, live_bytes |-> p.live_bytes, peak_bytes |-> p.peak_bytes,
         live_count |-> p.live_count, large_count |-> p.large_count, fatal |-> p.fatal]

LEMMA PoolDomain ==
    ASSUME NEW p, IsPool(p)
    PROVE  DOMAIN p = {"used", "carved_bytes", "free_list", "carves", "live_bytes", "peak_bytes",
                       "live_count", "large_count", "fatal"}
BY DEF IsPool

LEMMA PoolFields ==
    /\ IsPool(Pool)
    /\ Pool.used = used /\ Pool.carved_bytes = carved_bytes /\ Pool.free_list = free_list
    /\ Pool.carves = carves /\ Pool.live_bytes = live_bytes /\ Pool.peak_bytes = peak_bytes
    /\ Pool.live_count = live_count /\ Pool.large_count = large_count /\ Pool.fatal = pool_fatal
BY DEF Pool, IsPool

LEMMA CountedFields ==
    ASSUME NEW p, IsPool(p), NEW n, NEW r, r = Counted(p, n)
    PROVE  /\ IsPool(r) /\ r.live_bytes = p.live_bytes + n
           /\ r.peak_bytes = Larger(p.peak_bytes, p.live_bytes + n)
           /\ r.used = p.used /\ r.carved_bytes = p.carved_bytes /\ r.free_list = p.free_list
           /\ r.carves = p.carves /\ r.live_count = p.live_count
           /\ r.large_count = p.large_count /\ r.fatal = p.fatal
<1>1. Counted(p, n) = [p EXCEPT !.live_bytes = p.live_bytes + n,
                                !.peak_bytes = Larger(p.peak_bytes, p.live_bytes + n)]
  BY PoolDomain DEF Counted
<1>2. Counted(p, n) =
        [used |-> p.used, carved_bytes |-> p.carved_bytes, free_list |-> p.free_list,
         carves |-> p.carves, live_bytes |-> p.live_bytes + n,
         peak_bytes |-> Larger(p.peak_bytes, p.live_bytes + n),
         live_count |-> p.live_count, large_count |-> p.large_count, fatal |-> p.fatal]
  BY <1>1 DEF IsPool
<1>. QED BY <1>2 DEF IsPool

IsCarved(r, p, h, bytes) ==
    /\ IsPool(r) /\ r.used = CarveEnd(bytes) /\ r.carved_bytes = p.carved_bytes + bytes
    /\ r.carves = With(p.carves, CarveAt, h) /\ r.fatal = FALSE
    /\ r.free_list = p.free_list /\ r.live_bytes = p.live_bytes /\ r.peak_bytes = p.peak_bytes
    /\ r.live_count = p.live_count /\ r.large_count = p.large_count

LEMMA CarvedFields ==
    ASSUME NEW p, IsPool(p), NEW h, NEW bytes, Granted(bytes), CarveEnd(bytes) \in Nat
    PROVE  IsCarved(Carved(p, h, bytes), p, h, bytes)
<1>. DEFINE over == RoundUp(CarveEnd(bytes), CarveGranule) > HeapReserve
            cut == CarveEnd(bytes)
<1>1. over = FALSE
  BY RoundUpFacts, Granules DEF Granted, IsPage
<1>2. Carved(p, h, bytes) =
        [p EXCEPT !.used = cut, !.carved_bytes = p.carved_bytes + bytes,
                  !.carves = With(p.carves, CarveAt, h), !.fatal = over]
  BY PoolDomain DEF Carved
<1>. HIDE DEF over, cut
<1>3. Carved(p, h, bytes) =
        [used |-> cut, carved_bytes |-> p.carved_bytes + bytes,
         free_list |-> p.free_list, carves |-> With(p.carves, CarveAt, h),
         live_bytes |-> p.live_bytes, peak_bytes |-> p.peak_bytes,
         live_count |-> p.live_count, large_count |-> p.large_count, fatal |-> over]
  BY <1>2 DEF IsPool
<1>. QED BY <1>1, <1>3 DEF IsPool, cut, IsCarved

LEMMA PlacesDiffer ==
    ASSUME NEW c \in Classes, NEW i \in Nat, NEW j \in Nat,
           NEW at \in Nat, at + i * ClassSize(c) = at + j * ClassSize(c)
    PROVE  i = j
<1>. DEFINE s == ClassSize(c)
<1>1. s \in Nat \ {0} /\ i * s \in Nat /\ j * s \in Nat
  BY ClassFacts
<1>. HIDE DEF s
<1>2. i * s = j * s
  BY <1>1 DEF s
<1>3. CASE i < j
  <2>1. (i + 1) * s <= j * s /\ (i + 1) * s = i * s + s
    BY <1>1, <1>3
  <2>. QED BY <1>1, <1>2, <2>1
<1>4. CASE j < i
  <2>1. (j + 1) * s <= i * s /\ (j + 1) * s = j * s + s
    BY <1>1, <1>4
  <2>. QED BY <1>1, <1>2, <2>1
<1>. QED BY <1>3, <1>4

\* What a granted carve of title h does to the shape and the books, so long as its
\* caller holds nothing in it.
LEMMA CarveGood ==
    ASSUME Good(Pool, blocks), NEW h, Titled(h), Granted(Taken(h))
    PROVE  LET dv == With(carves, CarveAt, h)
           IN  /\ CarvesOK(CarveEnd(Taken(h)), dv) /\ BlocksOK(dv, blocks)
               /\ FreeOK(dv, free_list, blocks)
               /\ CarveAt \notin DOMAIN carves /\ IsPage(CarveAt) /\ HeldOn(blocks, CarveAt) = {}
               /\ DOMAIN dv = DOMAIN carves \cup {CarveAt} /\ dv[CarveAt] = h
               /\ \A r \in DOMAIN carves : dv[r] = carves[r]
               /\ CarveEnd(Taken(h)) \in Nat /\ carved_bytes + Taken(h) \in Int
               /\ carved_bytes + Taken(h) = SumFunction(CarveLedger(dv))
               /\ carved_bytes + Taken(h) <= Budget
               /\ live_bytes = SumFunction(RoomLedger(dv, blocks))
               /\ large_count = Cardinality(HeldLarge(dv, blocks))
               /\ live_count \in [Classes -> Nat]
               /\ \A c \in Classes : live_count[c] = Cardinality(HeldOf(dv, blocks, c))
               /\ \A p \in DOMAIN carves : dv[p].live = Cardinality(HeldOn(blocks, p))
               /\ \A c \in Classes : \A q \in Listed(free_list, c) : PageOf(q) # CarveAt
<1>. DEFINE dv == With(carves, CarveAt, h)
<1>1. /\ CarvesOK(used, carves) /\ BlocksOK(carves, blocks) /\ FreeOK(carves, free_list, blocks)
      /\ CountsOK(carves, blocks, live_count, large_count)
      /\ SumsOK(carves, blocks, carved_bytes, live_bytes, peak_bytes)
  BY PoolFields DEF Good, Shape
<1>2. /\ CarveAt \notin DOMAIN carves /\ IsPage(CarveAt)
      /\ CarvesOK(CarveEnd(Taken(h)), dv) /\ Alike(carves, dv)
      /\ DOMAIN dv = DOMAIN carves \cup {CarveAt} /\ dv[CarveAt] = h
      /\ \A r \in DOMAIN carves : dv[r] = carves[r]
      /\ SumFunction(CarveLedger(dv)) = SumFunction(CarveLedger(carves)) + Taken(h)
  BY <1>1, NewCarve DEF CarveAt, CarveEnd
<1>. HIDE DEF dv
<1>3. /\ BlocksOK(dv, blocks) /\ FreeOK(dv, free_list, blocks)
      /\ RoomLedger(dv, blocks) = RoomLedger(carves, blocks)
      /\ HeldLarge(dv, blocks) = HeldLarge(carves, blocks)
      /\ \A c \in Classes : HeldOf(dv, blocks, c) = HeldOf(carves, blocks, c)
  BY <1>1, <1>2, AlikeKeeps
<1>4. HeldOn(blocks, CarveAt) = {}
  BY <1>1, <1>2 DEF HeldOn, BlocksOK
<1>5. CarveEnd(Taken(h)) \in Nat
  BY <1>2 DEF CarvesOK
<1>6. /\ carved_bytes + Taken(h) \in Int /\ carved_bytes + Taken(h) <= Budget
      /\ carved_bytes + Taken(h) = SumFunction(CarveLedger(dv))
      /\ live_bytes = SumFunction(RoomLedger(dv, blocks))
  BY <1>1, <1>2, <1>3, TitleFacts DEF SumsOK, Granted
<1>7. /\ large_count = Cardinality(HeldLarge(dv, blocks)) /\ live_count \in [Classes -> Nat]
      /\ \A c \in Classes : live_count[c] = Cardinality(HeldOf(dv, blocks, c))
      /\ \A p \in DOMAIN carves : dv[p].live = Cardinality(HeldOn(blocks, p))
  BY <1>1, <1>2, <1>3 DEF CountsOK
<1>8. \A c \in Classes : \A q \in Listed(free_list, c) : PageOf(q) # CarveAt
  BY <1>1, <1>2 DEF FreeOK, IsOfClass
<1>. QED BY <1>2, <1>3, <1>4, <1>5, <1>6, <1>7, <1>8 DEF dv

\* A page of class c, threaded onto its list.
LEMMA ThreadGood ==
    ASSUME Good(Pool, blocks), NEW c \in Classes, free_list[c] = <<>>, Granted(PageBytes(c))
    PROVE  /\ Good(Threaded(Pool, c), blocks) /\ IsPool(Threaded(Pool, c))
           /\ Threaded(Pool, c).free_list[c] # <<>>
<1>. DEFINE h == [klass |-> c, large |-> FALSE, live |-> 0, size |-> PageBytes(c)]
            dv == With(carves, CarveAt, h)
            n == BlocksPerPage(c)
            list == [i \in 1 .. n |-> CarveAt + Header + (i - 1) * ClassSize(c)]
            fl == [free_list EXCEPT ![c] = list]
            p == Carved(Pool, h, PageBytes(c))
            r == Threaded(Pool, c)
<1>1. Titled(h) /\ Taken(h) = PageBytes(c)
  BY ClassFacts DEF Titled, Headers, Taken
<1>2. /\ CarvesOK(CarveEnd(PageBytes(c)), dv) /\ BlocksOK(dv, blocks)
      /\ FreeOK(dv, free_list, blocks)
      /\ CarveAt \notin DOMAIN carves /\ IsPage(CarveAt) /\ HeldOn(blocks, CarveAt) = {}
      /\ DOMAIN dv = DOMAIN carves \cup {CarveAt} /\ dv[CarveAt] = h
      /\ CarveEnd(PageBytes(c)) \in Nat
      /\ carved_bytes + PageBytes(c) \in Int
      /\ carved_bytes + PageBytes(c) = SumFunction(CarveLedger(dv))
      /\ carved_bytes + PageBytes(c) <= Budget
      /\ live_bytes = SumFunction(RoomLedger(dv, blocks))
      /\ large_count = Cardinality(HeldLarge(dv, blocks))
      /\ live_count \in [Classes -> Nat]
      /\ \A k \in Classes : live_count[k] = Cardinality(HeldOf(dv, blocks, k))
      /\ \A s \in DOMAIN carves : dv[s].live = Cardinality(HeldOn(blocks, s))
      /\ \A k \in Classes : \A q \in Listed(free_list, k) : PageOf(q) # CarveAt
  <2>. HIDE DEF h
  <2>. QED BY <1>1, CarveGood
<1>3. /\ IsPool(p) /\ p.used = CarveEnd(PageBytes(c)) /\ p.carved_bytes = carved_bytes + PageBytes(c)
      /\ p.carves = dv /\ p.fatal = FALSE /\ p.free_list = free_list /\ p.live_bytes = live_bytes
      /\ p.peak_bytes = peak_bytes /\ p.live_count = live_count /\ p.large_count = large_count
  <2>1. IsPool(Pool) /\ Pool.carves = carves /\ CarveEnd(PageBytes(c)) \in Nat
    BY <1>2, PoolFields
  <2>2. IsCarved(p, Pool, h, PageBytes(c))
    <3>. HIDE DEF h
    <3>. QED BY <2>1, CarvedFields
  <2>. HIDE DEF h, p
  <2>. QED BY <2>2, PoolFields DEF IsCarved
<1>4. r = [p EXCEPT !.free_list = fl]
  BY <1>3 DEF Threaded, IsPool
<1>. HIDE DEF p, r
<1>5. /\ IsPool(r) /\ r.used = CarveEnd(PageBytes(c)) /\ r.carved_bytes = carved_bytes + PageBytes(c)
      /\ r.carves = dv /\ r.fatal = FALSE /\ r.free_list = fl /\ r.live_bytes = live_bytes
      /\ r.peak_bytes = peak_bytes /\ r.live_count = live_count /\ r.large_count = large_count
  <2>. HIDE DEF fl, dv
  <2>. QED BY <1>3, <1>4 DEF IsPool
<1>6. n \in Nat /\ n >= 1
  BY PageHasPlaces
<1>7. \A i \in 1 .. n : list[i] \in Places(CarveAt, c)
  BY DEF Places
<1>8. \A q \in Places(CarveAt, c) :
         q \in Nat /\ PageOf(q) = CarveAt /\ IsOfClass(dv, q, c) /\ q \notin DOMAIN blocks
  <2>1. ASSUME NEW q \in Places(CarveAt, c)
        PROVE  q \in Nat /\ PageOf(q) = CarveAt
    BY <1>2, PlaceFacts
  <2>2. \A q \in DOMAIN blocks : PageOf(q) # CarveAt
    BY <1>2 DEF HeldOn
  <2>. HIDE DEF dv
  <2>. QED BY <1>2, <2>1, <2>2 DEF IsOfClass
<1>9. list \in Seq(Nat) /\ Len(list) = n /\ DOMAIN list = 1 .. n
  BY <1>6, <1>7, <1>8
<1>10. \A i, j \in 1 .. n : list[i] = list[j] => i = j
  <2>1. SUFFICES ASSUME NEW i \in 1 .. n, NEW j \in 1 .. n, list[i] = list[j]
                 PROVE  i = j
    OBVIOUS
  <2>2. i - 1 \in Nat /\ j - 1 \in Nat /\ CarveAt + Header \in Nat
    BY <1>2, <1>6, Granules DEF IsPage
  <2>3. (CarveAt + Header) + (i - 1) * ClassSize(c) = (CarveAt + Header) + (j - 1) * ClassSize(c)
    BY <2>1
  <2>4. i - 1 = j - 1
    BY <2>2, <2>3, PlacesDiffer
  <2>. QED BY <1>6, <2>4
<1>. HIDE DEF list, n
<1>11. FreeOK(dv, fl, blocks)
  <2>1. fl \in [Classes -> Seq(Nat)] /\ fl[c] = list /\ \A k \in Classes : k # c => fl[k] = free_list[k]
    BY <1>2, <1>9 DEF FreeOK
  <2>. HIDE DEF fl, dv
  <2>2. ASSUME NEW k \in Classes, NEW q \in Listed(fl, k)
        PROVE  q \notin DOMAIN blocks /\ IsOfClass(dv, q, k)
    <3>1. CASE k = c
      BY <1>7, <1>8, <1>9, <2>1, <2>2, <3>1 DEF Listed
    <3>2. CASE k # c
      BY <1>2, <2>1, <2>2, <3>2 DEF Listed, FreeOK
    <3>. QED BY <3>1, <3>2
  <2>3. ASSUME NEW k \in Classes
        PROVE  \A i, j \in 1 .. Len(fl[k]) : fl[k][i] = fl[k][j] => i = j
    <3>1. CASE k = c
      BY <1>9, <1>10, <2>1, <3>1
    <3>2. CASE k # c
      BY <1>2, <2>1, <3>2 DEF FreeOK
    <3>. QED BY <3>1, <3>2
  <2>. QED BY <2>1, <2>2, <2>3 DEF FreeOK
<1>12. fl[c] # <<>>
  <2>1. fl[c] = list
    BY <1>2 DEF FreeOK
  <2>. QED BY <1>6, <1>9, <2>1
<1>13. CountsOK(dv, blocks, live_count, large_count)
  <2>1. dv[CarveAt].live = 0 /\ Cardinality(HeldOn(blocks, CarveAt)) = 0
    BY <1>2, FS_EmptySet
  <2>. HIDE DEF dv
  <2>. QED BY <1>2, <2>1 DEF CountsOK
<1>14. SumsOK(dv, blocks, carved_bytes + PageBytes(c), live_bytes, peak_bytes)
  <2>1. peak_bytes \in Int /\ live_bytes \in Int /\ live_bytes <= peak_bytes
    BY PoolFields DEF Good, SumsOK
  <2>. HIDE DEF dv
  <2>. QED BY <1>2, <2>1 DEF SumsOK
<1>. HIDE DEF dv, fl
<1>15. Good(r, blocks)
  BY <1>2, <1>5, <1>11, <1>13, <1>14 DEF Good, Shape
<1>. QED BY <1>5, <1>12, <1>15 DEF r
\* Taking from a free list, and putting back.
LEMMA ListPop ==
    ASSUME NEW s \in Seq(Nat), s # <<>>, \A i, j \in 1 .. Len(s) : s[i] = s[j] => i = j
    PROVE  /\ Tail(s) \in Seq(Nat) /\ Head(s) \in Nat /\ Head(s) = s[1] /\ 1 \in DOMAIN s
           /\ \A i \in DOMAIN Tail(s) : \E j \in DOMAIN s : Tail(s)[i] = s[j]
           /\ \A i \in DOMAIN Tail(s) : Tail(s)[i] # Head(s)
           /\ \A i, j \in 1 .. Len(Tail(s)) : Tail(s)[i] = Tail(s)[j] => i = j
<1>1. /\ Tail(s) \in Seq(Nat) /\ Len(Tail(s)) = Len(s) - 1 /\ Len(s) \in Nat /\ Len(s) >= 1
      /\ Head(s) = s[1] /\ s[1] \in Nat /\ DOMAIN s = 1 .. Len(s) /\ DOMAIN Tail(s) = 1 .. Len(Tail(s))
  BY EmptySeq, HeadTailProperties
<1>2. \A i \in 1 .. Len(Tail(s)) : Tail(s)[i] = s[i + 1] /\ i + 1 \in 1 .. Len(s) /\ i + 1 # 1
  BY <1>1, HeadTailProperties
<1>. QED BY <1>1, <1>2, SMTT(40)

LEMMA ListPush ==
    ASSUME NEW s \in Seq(Nat), NEW q \in Nat, \A i \in DOMAIN s : s[i] # q,
           \A i, j \in 1 .. Len(s) : s[i] = s[j] => i = j
    PROVE  /\ <<q>> \o s \in Seq(Nat)
           /\ \A i \in DOMAIN (<<q>> \o s) :
                (<<q>> \o s)[i] = q \/ \E j \in DOMAIN s : (<<q>> \o s)[i] = s[j]
           /\ \A i, j \in 1 .. Len(<<q>> \o s) : (<<q>> \o s)[i] = (<<q>> \o s)[j] => i = j
<1>. DEFINE t == <<q>> \o s
<1>1. /\ t \in Seq(Nat) /\ Len(t) = Len(s) + 1 /\ Len(s) \in Nat /\ DOMAIN s = 1 .. Len(s)
      /\ DOMAIN t = 1 .. Len(t)
  BY ConcatProperties
<1>2. t[1] = q /\ \A i \in 2 .. Len(t) : t[i] = s[i - 1] /\ i - 1 \in 1 .. Len(s)
  BY <1>1, ConcatProperties
<1>. HIDE DEF t
<1>3. \A i \in 1 .. Len(t) : i = 1 \/ i \in 2 .. Len(t)
  BY <1>1
<1>4. \A i \in DOMAIN t : t[i] = q \/ \E j \in DOMAIN s : t[i] = s[j]
  BY <1>1, <1>2, <1>3
<1>5. ASSUME NEW i \in 1 .. Len(t), NEW j \in 1 .. Len(t), t[i] = t[j]
      PROVE  i = j
  <2>0. \A k \in 2 .. Len(t) : t[k] # q
    BY <1>1, <1>2, ZenonT(60)
  <2>1. CASE i = 1 \/ j = 1
    BY <1>2, <1>3, <1>5, <2>0, <2>1
  <2>2. CASE i # 1 /\ j # 1
    <3>1. s[i - 1] = s[j - 1] /\ i - 1 \in 1 .. Len(s) /\ j - 1 \in 1 .. Len(s)
      BY <1>2, <1>3, <1>5, <2>2
    <3>2. i - 1 = j - 1
      BY <3>1
    <3>. QED BY <1>1, <3>2
  <2>. QED BY <2>1, <2>2
<1>. QED BY <1>1, <1>4, <1>5 DEF t

IsPopped(r, p, c) ==
    LET q == Head(p.free_list[c]) IN
    /\ IsPool(r) /\ r.used = p.used /\ r.carved_bytes = p.carved_bytes
    /\ r.free_list = [p.free_list EXCEPT ![c] = Tail(p.free_list[c])]
    /\ r.carves = [p.carves EXCEPT ![PageOf(q)].live = p.carves[PageOf(q)].live + 1]
    /\ r.live_bytes = p.live_bytes + ClassSize(c)
    /\ r.peak_bytes = Larger(p.peak_bytes, p.live_bytes + ClassSize(c))
    /\ r.live_count = [p.live_count EXCEPT ![c] = p.live_count[c] + 1]
    /\ r.large_count = p.large_count /\ r.fatal = p.fatal

LEMMA PoppedFields ==
    ASSUME NEW p, IsPool(p), NEW c, c \in DOMAIN p.free_list, c \in DOMAIN p.live_count,
           PageOf(Head(p.free_list[c])) \in DOMAIN p.carves,
           p.carves[PageOf(Head(p.free_list[c]))] \in Headers
    PROVE  IsPopped(Popped(p, c).pool, p, c) /\ Popped(p, c).block = Head(p.free_list[c])
<1>. DEFINE q == Head(p.free_list[c])
            fl == [p.free_list EXCEPT ![c] = Tail(p.free_list[c])]
            dv == [p.carves EXCEPT ![PageOf(q)].live = p.carves[PageOf(q)].live + 1]
            lc == [p.live_count EXCEPT ![c] = p.live_count[c] + 1]
            m == [p EXCEPT !.free_list[c] = Tail(@), !.carves[PageOf(q)].live = @ + 1,
                           !.live_count[c] = @ + 1]
<1>1. m = [p EXCEPT !.free_list = fl, !.carves = dv, !.live_count = lc]
  BY PoolDomain DEF Headers
<1>2. Popped(p, c) = [pool |-> Counted(m, ClassSize(c)), block |-> q]
  BY DEF Popped
<1>. HIDE DEF m, fl, dv, lc
<1>3. m = [used |-> p.used, carved_bytes |-> p.carved_bytes, free_list |-> fl, carves |-> dv,
           live_bytes |-> p.live_bytes, peak_bytes |-> p.peak_bytes, live_count |-> lc,
           large_count |-> p.large_count, fatal |-> p.fatal]
  BY <1>1 DEF IsPool
<1>4. /\ IsPool(m) /\ m.used = p.used /\ m.carved_bytes = p.carved_bytes /\ m.free_list = fl
      /\ m.carves = dv /\ m.live_bytes = p.live_bytes /\ m.peak_bytes = p.peak_bytes
      /\ m.live_count = lc /\ m.large_count = p.large_count /\ m.fatal = p.fatal
  BY <1>3 DEF IsPool
<1>5. Popped(p, c).pool = Counted(m, ClassSize(c)) /\ Popped(p, c).block = q
  BY <1>2
<1>. QED BY <1>4, <1>5, CountedFields DEF IsPopped, fl, dv, lc

\* A call that hands out a new block leaves the pool good, with one block more.
Hands(r, b, size) ==
    /\ Good(r.pool, With(b, r.block, size)) /\ IsPool(r.pool)
    /\ r.block \in Nat /\ r.block \notin DOMAIN b

\* A block taken from its class's list.
LEMMA PopGood ==
    ASSUME NEW p, IsPool(p), NEW b, Good(p, b), NEW c \in Classes, p.free_list[c] # <<>>,
           NEW size \in Nat, size <= ClassSize(c)
    PROVE  Hands(Popped(p, c), b, size)
<1>. DEFINE fl == p.free_list
            cv == p.carves
            q == Head(fl[c])
            page == PageOf(q)
            gl == [fl EXCEPT ![c] = Tail(fl[c])]
            dv == [cv EXCEPT ![page].live = cv[page].live + 1]
            d == With(b, q, size)
            r == Popped(p, c).pool
            lc == [p.live_count EXCEPT ![c] = p.live_count[c] + 1]
<1>1. /\ CarvesOK(p.used, cv) /\ BlocksOK(cv, b) /\ FreeOK(cv, fl, b)
      /\ CountsOK(cv, b, p.live_count, p.large_count)
      /\ SumsOK(cv, b, p.carved_bytes, p.live_bytes, p.peak_bytes) /\ p.fatal = FALSE
  BY DEF Good, Shape
<1>2. /\ fl[c] \in Seq(Nat) /\ \A i, j \in 1 .. Len(fl[c]) : fl[c][i] = fl[c][j] => i = j
      /\ fl \in [Classes -> Seq(Nat)]
  BY <1>1 DEF FreeOK
<1>. HIDE DEF fl
<1>3. /\ Tail(fl[c]) \in Seq(Nat) /\ q \in Nat /\ q = fl[c][1] /\ 1 \in DOMAIN fl[c]
      /\ \A i \in DOMAIN Tail(fl[c]) : \E j \in DOMAIN fl[c] : Tail(fl[c])[i] = fl[c][j]
      /\ \A i \in DOMAIN Tail(fl[c]) : Tail(fl[c])[i] # q
      /\ \A i, j \in 1 .. Len(Tail(fl[c])) : Tail(fl[c])[i] = Tail(fl[c])[j] => i = j
  BY <1>2, ListPop DEF fl
<1>4. q \notin DOMAIN b /\ IsOfClass(cv, q, c) /\ \A k \in Classes : q \in Listed(fl, k) => k = c
  <2>1. q \in Listed(fl, c)
    BY <1>3 DEF Listed
  <2>. HIDE DEF q
  <2>2. \A k \in Classes : q \in Listed(fl, k) => IsOfClass(cv, q, k) /\ q \notin DOMAIN b
    BY <1>1 DEF FreeOK
  <2>. QED BY <2>1, <2>2 DEF IsOfClass
<1>5. /\ page \in DOMAIN cv /\ ~cv[page].large /\ cv[page].klass = c /\ Titled(cv[page])
      /\ Stands(q, page, cv[page]) /\ cv[page].live \in Nat /\ cv[page] \in Headers
  BY <1>1, <1>4, TitleFacts DEF IsOfClass, Stands, CarvesOK, Titled
<1>6. p.live_count \in [Classes -> Nat]
  BY <1>1 DEF CountsOK
<1>7. IsPopped(r, p, c) /\ Popped(p, c).block = q
  BY <1>2, <1>5, <1>6, PoppedFields DEF fl
<1>. HIDE DEF q, page
<1>8. /\ CarvesOK(p.used, dv) /\ Alike(cv, dv) /\ CarveLedger(dv) = CarveLedger(cv)
      /\ DOMAIN dv = DOMAIN cv /\ dv[page].live = cv[page].live + 1
      /\ \A s \in DOMAIN cv : s # page => dv[s] = cv[s]
  <2>1. cv[page].live + 1 \in Nat
    BY <1>5
  <2>. HIDE DEF cv
  <2>. QED BY <1>1, <1>5, <2>1, Relived
<1>9. /\ BlocksOK(dv, b) /\ FreeOK(dv, fl, b) /\ RoomLedger(dv, b) = RoomLedger(cv, b)
      /\ HeldLarge(dv, b) = HeldLarge(cv, b)
      /\ \A k \in Classes : HeldOf(dv, b, k) = HeldOf(cv, b, k)
  <2>. HIDE DEF dv
  <2>. QED BY <1>1, <1>8, AlikeKeeps DEF fl
<1>10. /\ page = PageOf(q) /\ page \in DOMAIN dv /\ ~dv[page].large /\ dv[page].klass = c
       /\ Stands(q, page, dv[page]) /\ Space(dv[page]) = ClassSize(c)
  <2>1. Space(cv[page]) = ClassSize(c)
    BY <1>5 DEF Space
  <2>. HIDE DEF dv
  <2>. QED BY <1>5, <1>8, <2>1, AlikeRoom DEF Alike, page
<1>. HIDE DEF dv, cv
<1>11. gl \in [Classes -> Seq(Nat)] /\ gl[c] = Tail(fl[c]) /\ \A k \in Classes : k # c => gl[k] = fl[k]
  BY <1>2, <1>3
<1>12. r.free_list = gl /\ r.carves = dv /\ r.live_count = lc
  BY <1>7 DEF IsPopped, fl, cv, dv, q, page
<1>. HIDE DEF gl
<1>13. \A k \in Classes : Listed(gl, k) \subseteq Listed(fl, k) /\ q \notin Listed(gl, k)
  <2>1. Listed(gl, c) = {Tail(fl[c])[i] : i \in DOMAIN Tail(fl[c])}
    BY <1>11 DEF Listed
  <2>0. Listed(gl, c) \subseteq Listed(fl, c) /\ q \notin Listed(gl, c)
    <3>1. \A i \in DOMAIN Tail(fl[c]) : Tail(fl[c])[i] \in Listed(fl, c)
      BY <1>3 DEF Listed
    <3>. QED BY <1>3, <2>1, <3>1
  <2>2. \A k \in Classes : k # c => Listed(gl, k) = Listed(fl, k)
    BY <1>11 DEF Listed
  <2>. QED BY <1>4, <2>0, <2>2
<1>14. FreeOK(dv, gl, b)
  <2>1. ASSUME NEW k \in Classes
        PROVE  \A i, j \in 1 .. Len(gl[k]) : gl[k][i] = gl[k][j] => i = j
    <3>1. CASE k = c
      BY <1>3, <1>11, <3>1, ZenonT(60)
    <3>2. CASE k # c
      BY <1>9, <1>11, <3>2 DEF FreeOK
    <3>. QED BY <3>1, <3>2
  <2>. QED BY <1>9, <1>11, <1>13, <2>1 DEF FreeOK
<1>. HIDE DEF d, lc, r
<1>15. Fits(dv, gl, b, q, size) /\ BlocksOK(dv, b)
  BY <1>3, <1>4, <1>9, <1>10, <1>13 DEF Fits
<1>16. /\ BlocksOK(dv, d) /\ FreeOK(dv, gl, d)
       /\ DOMAIN d = DOMAIN b \cup {q} /\ Without(d, q) = b
       /\ Fewer(dv, d, q)
  <2>1. IsMore(dv, gl, b, q, d)
    BY <1>14, <1>15, MoreBlocks DEF d
  <2>2. Fewer(dv, d, q)
    BY <1>8, <1>14, <1>15, MoreBooks DEF d
  <2>. QED BY <2>1, <2>2 DEF IsMore
<1>17. CountsOK(dv, d, lc, p.large_count)
  <2>1. lc \in [Classes -> Nat] /\ lc[c] = p.live_count[c] + 1
        /\ \A k \in Classes : k # c => lc[k] = p.live_count[k]
    BY <1>6 DEF lc
  <2>2. \A k \in Classes : lc[k] = Cardinality(HeldOf(dv, d, k))
    BY <1>1, <1>6, <1>9, <1>10, <1>16, <1>16, <2>1 DEF Fewer, CountsOK
  <2>3. p.large_count = Cardinality(HeldLarge(dv, d))
    BY <1>1, <1>9, <1>10, <1>16, <1>16 DEF Fewer, CountsOK
  <2>4. \A s \in DOMAIN dv : dv[s].live = Cardinality(HeldOn(d, s))
    <3>1. ASSUME NEW s \in DOMAIN cv
          PROVE  dv[s].live = cv[s].live + (IF s = page THEN 1 ELSE 0) /\ cv[s].live = Cardinality(HeldOn(b, s))
      <4>1. cv[s].live = Cardinality(HeldOn(b, s)) /\ cv[s].live \in Nat
        BY <1>1, TitleFacts DEF CountsOK, CarvesOK
      <4>. QED BY <1>8, <4>1
    <3>. QED BY <1>8, <1>10, <1>16, <1>16, <3>1, SMTT(40) DEF Fewer
  <2>. QED BY <2>1, <2>2, <2>3, <2>4 DEF CountsOK
<1>18. SumsOK(dv, d, p.carved_bytes, r.live_bytes, r.peak_bytes)
  <2>1. /\ p.live_bytes \in Int /\ p.peak_bytes \in Int /\ ClassSize(c) \in Nat
        /\ p.live_bytes = SumFunction(RoomLedger(dv, b))
    BY <1>1, <1>9, ClassFacts DEF SumsOK
  <2>2. SumFunction(RoomLedger(dv, d)) = SumFunction(RoomLedger(dv, b)) + ClassSize(c)
    BY <1>10, <1>16, <1>16 DEF Fewer
  <2>3. r.live_bytes = p.live_bytes + ClassSize(c)
        /\ r.peak_bytes = Larger(p.peak_bytes, p.live_bytes + ClassSize(c))
    BY <1>7 DEF IsPopped
  <2>4. r.peak_bytes \in Int /\ r.live_bytes <= r.peak_bytes
    BY <2>1, <2>3 DEF Larger
  <2>. QED BY <1>1, <1>8, <2>1, <2>2, <2>3, <2>4 DEF SumsOK
<1>19. Good(r, d) /\ IsPool(r)
  BY <1>1, <1>7, <1>8, <1>12, <1>16, <1>17, <1>18 DEF Good, Shape, IsPopped
<1>. QED BY <1>3, <1>4, <1>7, <1>19 DEF r, d, Hands

IsLarge(r, h, size) ==
    /\ IsPool(r) /\ r.used = CarveEnd(CarveOf(size)) /\ r.carved_bytes = carved_bytes + CarveOf(size)
    /\ r.carves = With(carves, CarveAt, h) /\ r.fatal = FALSE /\ r.free_list = free_list
    /\ r.live_bytes = live_bytes + size /\ r.peak_bytes = Larger(peak_bytes, live_bytes + size)
    /\ r.live_count = live_count /\ r.large_count = large_count + 1

LEMMA LargeFields ==
    ASSUME NEW h, NEW size, Granted(CarveOf(size)), CarveEnd(CarveOf(size)) \in Nat
    PROVE  IsLarge(Counted([Carved(Pool, h, CarveOf(size)) EXCEPT !.large_count = @ + 1], size),
                   h, size)
<1>. DEFINE p == Carved(Pool, h, CarveOf(size))
            m == [p EXCEPT !.large_count = @ + 1]
<1>1. IsCarved(p, Pool, h, CarveOf(size))
  BY CarvedFields, PoolFields
<1>. HIDE DEF p
<1>2. IsPool(p)
  BY <1>1 DEF IsCarved
<1>3. m = [p EXCEPT !.large_count = p.large_count + 1]
  BY <1>2, PoolDomain
<1>4. m = [used |-> p.used, carved_bytes |-> p.carved_bytes, free_list |-> p.free_list,
           carves |-> p.carves, live_bytes |-> p.live_bytes, peak_bytes |-> p.peak_bytes,
           live_count |-> p.live_count, large_count |-> p.large_count + 1, fatal |-> p.fatal]
  BY <1>2, <1>3 DEF IsPool
<1>. HIDE DEF m
<1>5. /\ IsPool(m) /\ m.used = p.used /\ m.carved_bytes = p.carved_bytes
      /\ m.free_list = p.free_list /\ m.carves = p.carves /\ m.live_bytes = p.live_bytes
      /\ m.peak_bytes = p.peak_bytes /\ m.live_count = p.live_count
      /\ m.large_count = p.large_count + 1 /\ m.fatal = p.fatal
  BY <1>4 DEF IsPool
<1>6. IsLarge(Counted(m, size), h, size)
  BY <1>1, <1>5, CountedFields, PoolFields DEF IsCarved, IsLarge
<1>. QED BY <1>6 DEF m, p

\* A carve of its own, for a block beyond the largest class.
LEMMA LargeGood ==
    ASSUME Good(Pool, blocks), NEW size \in Nat, size # 0, Granted(CarveOf(size)),
           NEW h, h = [klass |-> 0, large |-> TRUE, live |-> 1, size |-> size],
           NEW r, r = [pool |-> Counted([Carved(Pool, h, CarveOf(size))
                                            EXCEPT !.large_count = @ + 1], size),
                       block |-> CarveAt + Header]
    PROVE  Hands(r, blocks, size)
<1>. DEFINE dv == With(carves, CarveAt, h)
            q == CarveAt + Header
            d == With(blocks, q, size)
<1>1. Titled(h) /\ Taken(h) = CarveOf(size) /\ Space(h) = size /\ h.large /\ h.live = 1
  BY HeapAssumption DEF Titled, Headers, Taken, Space, Classes
<1>2. \A x : Stands(x, CarveAt, h) <=> x = q
  BY <1>1 DEF Stands
<1>. HIDE DEF q
<1>3. /\ CarvesOK(CarveEnd(CarveOf(size)), dv) /\ BlocksOK(dv, blocks)
      /\ FreeOK(dv, free_list, blocks)
      /\ CarveAt \notin DOMAIN carves /\ IsPage(CarveAt) /\ HeldOn(blocks, CarveAt) = {}
      /\ DOMAIN dv = DOMAIN carves \cup {CarveAt} /\ dv[CarveAt] = h
      /\ CarveEnd(CarveOf(size)) \in Nat
      /\ carved_bytes + CarveOf(size) \in Int
      /\ carved_bytes + CarveOf(size) = SumFunction(CarveLedger(dv))
      /\ carved_bytes + CarveOf(size) <= Budget
      /\ live_bytes = SumFunction(RoomLedger(dv, blocks))
      /\ large_count = Cardinality(HeldLarge(dv, blocks))
      /\ live_count \in [Classes -> Nat]
      /\ \A k \in Classes : live_count[k] = Cardinality(HeldOf(dv, blocks, k))
      /\ \A s \in DOMAIN carves : dv[s].live = Cardinality(HeldOn(blocks, s))
      /\ \A k \in Classes : \A x \in Listed(free_list, k) : PageOf(x) # CarveAt
  BY <1>1, CarveGood, ZenonT(60)
<1>. HIDE DEF dv
<1>4. IsLarge(r.pool, h, size) /\ r.block = q
  BY <1>3, LargeFields DEF q
<1>5. q \in Nat /\ PageOf(q) = CarveAt /\ Stands(q, CarveAt, h)
  BY <1>1, <1>2, <1>3, StandsInside
<1>6. q \notin DOMAIN blocks /\ \A k \in Classes : q \notin Listed(free_list, k)
  BY <1>3, <1>5 DEF HeldOn
<1>7. Fits(dv, free_list, blocks, q, size)
  <2>1. PageOf(q) \in DOMAIN dv /\ dv[PageOf(q)] = h
    BY <1>3, <1>5
  <2>2. Stands(q, PageOf(q), dv[PageOf(q)]) /\ size <= Space(dv[PageOf(q)])
    BY <1>1, <1>5, <2>1
  <2>. QED BY <1>5, <1>6, <2>1, <2>2 DEF Fits
<1>8. IsMore(dv, free_list, blocks, q, d) /\ Fewer(dv, d, q)
  BY <1>3, <1>7, MoreBlocks, MoreBooks
<1>. HIDE DEF d
<1>9. /\ BlocksOK(dv, d) /\ FreeOK(dv, free_list, d)
      /\ DOMAIN d = DOMAIN blocks \cup {q} /\ Without(d, q) = blocks
  BY <1>8 DEF IsMore
<1>10. CountsOK(dv, d, live_count, large_count + 1)
  <2>1. \A k \in Classes : live_count[k] = Cardinality(HeldOf(dv, d, k))
    BY <1>1, <1>3, <1>5, <1>8, <1>9 DEF Fewer
  <2>2. large_count + 1 = Cardinality(HeldLarge(dv, d))
    BY <1>1, <1>3, <1>5, <1>8, <1>9 DEF Fewer
  <2>3. ASSUME NEW s \in DOMAIN dv
        PROVE  dv[s].live = Cardinality(HeldOn(d, s))
    <3>1. CASE s = CarveAt
      <4>1. Cardinality(HeldOn(blocks, s)) = 0
        BY <1>3, <3>1, FS_EmptySet
      <4>. QED BY <1>1, <1>3, <1>5, <1>8, <1>9, <3>1, <4>1 DEF Fewer
    <3>2. CASE s # CarveAt
      BY <1>3, <1>5, <1>8, <1>9, <3>2 DEF Fewer
    <3>. QED BY <3>1, <3>2
  <2>. QED BY <1>3, <2>1, <2>2, <2>3 DEF CountsOK
<1>11. SumsOK(dv, d, carved_bytes + CarveOf(size), live_bytes + size,
              Larger(peak_bytes, live_bytes + size))
  <2>1. peak_bytes \in Int /\ live_bytes \in Int
    BY PoolFields DEF Good, SumsOK
  <2>2. SumFunction(RoomLedger(dv, d)) = live_bytes + size
    BY <1>1, <1>3, <1>5, <1>8, <1>9 DEF Fewer
  <2>3. Larger(peak_bytes, live_bytes + size) \in Int
        /\ live_bytes + size <= Larger(peak_bytes, live_bytes + size)
    BY <2>1 DEF Larger
  <2>. QED BY <1>3, <2>1, <2>2, <2>3 DEF SumsOK
<1>12. Good(r.pool, d) /\ IsPool(r.pool)
  BY <1>3, <1>4, <1>9, <1>10, <1>11 DEF Good, Shape, IsLarge, dv
<1>. QED BY <1>4, <1>5, <1>6, <1>12 DEF Hands, d

\* pool_alloc: refused, the pool is as it was; granted, there is one block more.
LEMMA AllocGood ==
    ASSUME IInv, NEW size \in Nat
    PROVE  \/ PoolAlloc(size) = Refused
           \/ PoolAlloc(size).block # Null /\ Hands(PoolAlloc(size), blocks, size)
<1>. DEFINE r == PoolAlloc(size)
            c == ClassFor(size)
            h == [klass |-> 0, large |-> TRUE, live |-> 1, size |-> size]
            big == [pool |-> Counted([Carved(Pool, h, CarveOf(size))
                                         EXCEPT !.large_count = @ + 1], size),
                    block |-> CarveAt + Header]
<1>1. Good(Pool, blocks)
  BY DEF IInv
<1>2. SUFFICES r = Refused \/ Hands(r, blocks, size)
  BY DEF Hands, Null
<1>3. CASE size = 0 \/ size > Budget
  BY <1>3 DEF PoolAlloc
<1>4. CASE ~(size = 0 \/ size > Budget) /\ ~IsSmall(size)
  <2>1. r = IF Granted(CarveOf(size)) THEN big ELSE Refused
    BY <1>4 DEF PoolAlloc
  <2>2. Granted(CarveOf(size)) => Hands(big, blocks, size)
    <3>. HIDE DEF h
    <3>1. size # 0
      BY <1>4
    <3>2. \A k : k = h => Hands([pool |-> Counted([Carved(Pool, k, CarveOf(size))
                                         EXCEPT !.large_count = @ + 1], size),
                                 block |-> CarveAt + Header], blocks, size) \/ ~Granted(CarveOf(size))
      BY <1>1, <3>1, LargeGood DEF h
    <3>. QED BY <3>2
  <2>. HIDE DEF r, big
  <2>. QED BY <2>1, <2>2
<1>5. CASE ~(size = 0 \/ size > Budget) /\ IsSmall(size)
  <2>1. c \in Classes /\ size <= ClassSize(c)
    BY <1>5, SmallFits
  <2>2. r = IF free_list[c] # <<>> THEN Popped(Pool, c)
            ELSE IF Granted(PageBytes(c)) THEN Popped(Threaded(Pool, c), c) ELSE Refused
    BY <1>5 DEF PoolAlloc
  <2>. HIDE DEF r, c
  <2>3. CASE free_list[c] # <<>>
    BY <1>1, <2>1, <2>2, <2>3, PopGood, PoolFields
  <2>4. CASE free_list[c] = <<>> /\ Granted(PageBytes(c))
    BY <1>1, <2>1, <2>2, <2>4, PopGood, ThreadGood
  <2>. QED BY <2>2, <2>3, <2>4
<1>. QED BY <1>3, <1>4, <1>5
-----------------------------------------------------------------------------
(* pool_free.                                                              *)

\* A large carve has one block.
LEMMA LargeAlone ==
    ASSUME NEW cv, NEW b, BlocksOK(cv, b), NEW q \in DOMAIN b, cv[PageOf(q)].large,
           NEW r \in DOMAIN b, PageOf(r) = PageOf(q)
    PROVE  r = q
BY DEF BlocksOK, Stands

\* The carves without one that nobody holds a block of.
IsDropped(u, cv, fl, b, page, dv) ==
    /\ CarvesOK(u, dv) /\ BlocksOK(dv, b) /\ FreeOK(dv, fl, b)
    /\ DOMAIN dv = DOMAIN cv \ {page} /\ \A p \in DOMAIN dv : dv[p] = cv[p]
    /\ SumFunction(CarveLedger(cv)) = SumFunction(CarveLedger(dv)) + Taken(cv[page])
    /\ SumFunction(CarveLedger(dv)) \in Int
    /\ RoomLedger(dv, b) = RoomLedger(cv, b) /\ HeldLarge(dv, b) = HeldLarge(cv, b)
    /\ \A c \in Classes : HeldOf(dv, b, c) = HeldOf(cv, b, c)

LEMMA DropCarve ==
    ASSUME NEW u, NEW cv, CarvesOK(u, cv), NEW b, BlocksOK(cv, b), NEW fl, FreeOK(cv, fl, b),
           NEW page \in DOMAIN cv, cv[page].large, \A q \in DOMAIN b : PageOf(q) # page
    PROVE  IsDropped(u, cv, fl, b, page, Without(cv, page))
<1>. DEFINE dv == Without(cv, page)
<1>1. /\ DOMAIN dv = DOMAIN cv \ {page} /\ \A p \in DOMAIN dv : dv[p] = cv[p]
      /\ dv = [p \in DOMAIN dv |-> dv[p]]
  BY DEF Without
<1>2. CarveLedger(dv) = Without(CarveLedger(cv), page)
  BY DEF Without, CarveLedger
<1>. HIDE DEF dv
<1>3. IsFiniteSet(DOMAIN dv)
  BY <1>1, FS_RemoveElement DEF CarvesOK
<1>4. CarvesOK(u, dv)
  BY <1>1, <1>3 DEF CarvesOK
<1>5. \A q \in DOMAIN b : PageOf(q) \in DOMAIN dv /\ dv[PageOf(q)] = cv[PageOf(q)]
  BY <1>1 DEF BlocksOK
<1>6. BlocksOK(dv, b)
  BY <1>5 DEF BlocksOK
<1>7. FreeOK(dv, fl, b)
  <2>1. \A c \in Classes : \A q \in Listed(fl, c) : IsOfClass(dv, q, c)
    BY <1>1 DEF FreeOK, IsOfClass
  <2>. QED BY <2>1 DEF FreeOK
<1>8. RoomLedger(dv, b) = RoomLedger(cv, b) /\ HeldLarge(dv, b) = HeldLarge(cv, b)
  BY <1>5 DEF RoomLedger, HeldLarge
<1>9. \A c \in Classes : HeldOf(dv, b, c) = HeldOf(cv, b, c)
  BY <1>5 DEF HeldOf
<1>10. SumFunction(CarveLedger(cv)) = SumFunction(CarveLedger(dv)) + Taken(cv[page])
       /\ SumFunction(CarveLedger(dv)) \in Int
  <2>1. page \in DOMAIN CarveLedger(cv) /\ CarveLedger(cv)[page] = Taken(cv[page])
    BY DEF CarveLedger
  <2>2. Taken(cv[page]) \in Int
    BY TitleFacts DEF CarvesOK
  <2>3. SumFunction(CarveLedger(cv)) = Taken(cv[page]) + SumFunction(CarveLedger(dv))
        /\ SumFunction(CarveLedger(dv)) \in Int
    BY <1>2, <2>1, CarveLedgerIs, SumDrops
  <2>. QED BY <2>2, <2>3
<1>. QED BY <1>1, <1>4, <1>6, <1>7, <1>8, <1>9, <1>10 DEF IsDropped, dv

IsFreedLarge(r, p, q) ==
    LET h == p.carves[PageOf(q)] IN
    /\ IsPool(r) /\ r.used = p.used /\ r.carved_bytes = p.carved_bytes - CarveOf(h.size)
    /\ r.free_list = p.free_list /\ r.carves = Without(p.carves, PageOf(q))
    /\ r.live_bytes = p.live_bytes - h.size /\ r.peak_bytes = p.peak_bytes
    /\ r.live_count = p.live_count /\ r.large_count = p.large_count - 1 /\ r.fatal = p.fatal

LEMMA FreedLargeFields ==
    ASSUME NEW p, IsPool(p), NEW q, p.carves[PageOf(q)].large
    PROVE  IsFreedLarge(PoolFree(p, q), p, q)
<1>. DEFINE h == p.carves[PageOf(q)]
            r == PoolFree(p, q)
            cb == p.carved_bytes - CarveOf(h.size)
            dv == Without(p.carves, PageOf(q))
            lb == p.live_bytes - h.size
<1>1. r = [p EXCEPT !.carves = dv, !.carved_bytes = cb, !.large_count = p.large_count - 1,
                    !.live_bytes = lb]
  BY PoolDomain DEF PoolFree
<1>. HIDE DEF r, dv, cb, lb
<1>2. r = [used |-> p.used, carved_bytes |-> cb, free_list |-> p.free_list, carves |-> dv,
           live_bytes |-> lb, peak_bytes |-> p.peak_bytes, live_count |-> p.live_count,
           large_count |-> p.large_count - 1, fatal |-> p.fatal]
  BY <1>1 DEF IsPool
<1>3. /\ IsPool(r) /\ r.used = p.used /\ r.carved_bytes = cb /\ r.free_list = p.free_list
      /\ r.carves = dv /\ r.live_bytes = lb /\ r.peak_bytes = p.peak_bytes
      /\ r.live_count = p.live_count /\ r.large_count = p.large_count - 1 /\ r.fatal = p.fatal
  BY <1>2 DEF IsPool
<1>. QED BY <1>3 DEF IsFreedLarge, r, dv, cb, lb

IsFreedSmall(r, p, q) ==
    LET page == PageOf(q)
        c == p.carves[page].klass
    IN  /\ IsPool(r) /\ r.used = p.used /\ r.carved_bytes = p.carved_bytes
        /\ r.free_list = [p.free_list EXCEPT ![c] = <<q>> \o p.free_list[c]]
        /\ r.carves = [p.carves EXCEPT ![page].live = p.carves[page].live - 1]
        /\ r.live_bytes = p.live_bytes - ClassSize(c) /\ r.peak_bytes = p.peak_bytes
        /\ r.live_count = [p.live_count EXCEPT ![c] = p.live_count[c] - 1]
        /\ r.large_count = p.large_count /\ r.fatal = p.fatal

LEMMA FreedSmallFields ==
    ASSUME NEW p, IsPool(p), NEW q, PageOf(q) \in DOMAIN p.carves, ~p.carves[PageOf(q)].large,
           p.carves[PageOf(q)] \in Headers,
           p.carves[PageOf(q)].klass \in DOMAIN p.free_list,
           p.carves[PageOf(q)].klass \in DOMAIN p.live_count
    PROVE  IsFreedSmall(PoolFree(p, q), p, q)
<1>. DEFINE page == PageOf(q)
            c == p.carves[page].klass
            r == PoolFree(p, q)
            gl == [p.free_list EXCEPT ![c] = <<q>> \o p.free_list[c]]
            dv == [p.carves EXCEPT ![page].live = p.carves[page].live - 1]
            lc == [p.live_count EXCEPT ![c] = p.live_count[c] - 1]
            lb == p.live_bytes - ClassSize(c)
<1>1. r = [p EXCEPT !.carves[page].live = @ - 1, !.live_count[c] = @ - 1,
                    !.free_list[c] = <<q>> \o @, !.live_bytes = @ - ClassSize(c)]
  BY DEF PoolFree
<1>2. r = [p EXCEPT !.carves = dv, !.live_count = lc, !.free_list = gl, !.live_bytes = lb]
  <2>. HIDE DEF r
  <2>. QED BY <1>1, PoolDomain DEF Headers
<1>. HIDE DEF r, gl, dv, lc, lb
<1>3. r = [used |-> p.used, carved_bytes |-> p.carved_bytes, free_list |-> gl, carves |-> dv,
           live_bytes |-> lb, peak_bytes |-> p.peak_bytes, live_count |-> lc,
           large_count |-> p.large_count, fatal |-> p.fatal]
  BY <1>2 DEF IsPool
<1>4. /\ IsPool(r) /\ r.used = p.used /\ r.carved_bytes = p.carved_bytes /\ r.free_list = gl
      /\ r.carves = dv /\ r.live_bytes = lb /\ r.peak_bytes = p.peak_bytes
      /\ r.live_count = lc /\ r.large_count = p.large_count /\ r.fatal = p.fatal
  BY <1>3 DEF IsPool
<1>. QED BY <1>4 DEF IsFreedSmall, r, gl, dv, lc, lb

LEMMA FreeLarge ==
    ASSUME NEW p, IsPool(p), NEW b, Good(p, b), NEW q \in DOMAIN b, p.carves[PageOf(q)].large
    PROVE  Good(PoolFree(p, q), Without(b, q)) /\ IsPool(PoolFree(p, q))
<1>. DEFINE cv == p.carves
            fl == p.free_list
            page == PageOf(q)
            h == cv[page]
            dv == Without(cv, page)
            d == Without(b, q)
            r == PoolFree(p, q)
<1>1. /\ CarvesOK(p.used, cv) /\ BlocksOK(cv, b) /\ FreeOK(cv, fl, b)
      /\ CountsOK(cv, b, p.live_count, p.large_count)
      /\ SumsOK(cv, b, p.carved_bytes, p.live_bytes, p.peak_bytes) /\ p.fatal = FALSE
  BY DEF Good, Shape
<1>2. IsFreedLarge(r, p, q)
  BY FreedLargeFields
<1>3. page \in DOMAIN cv /\ h.large /\ Titled(h) /\ Space(h) = h.size /\ Taken(h) = CarveOf(h.size)
  BY <1>1 DEF BlocksOK, CarvesOK, Space, Taken
<1>. HIDE DEF cv, fl
<1>4. BlocksOK(cv, d) /\ FreeOK(cv, fl, d) /\ DOMAIN d = DOMAIN b \ {q}
  BY <1>1, FewerShape
<1>5. Fewer(cv, b, q)
  BY <1>1, FewerBooks
<1>6. \A x \in DOMAIN d : PageOf(x) # page
  BY <1>1, <1>3, <1>4, LargeAlone
<1>. HIDE DEF d
<1>7. IsDropped(p.used, cv, fl, d, page, dv)
  BY <1>1, <1>3, <1>4, <1>6, DropCarve
<1>. HIDE DEF dv, h, r, page
<1>8. CountsOK(dv, d, p.live_count, p.large_count - 1)
  <2>1. \A k \in Classes : p.live_count[k] = Cardinality(HeldOf(dv, d, k))
    BY <1>1, <1>3, <1>5, <1>7 DEF CountsOK, Fewer, IsDropped, d, h, page
  <2>2. p.large_count - 1 = Cardinality(HeldLarge(dv, d))
    BY <1>1, <1>3, <1>5, <1>7 DEF CountsOK, Fewer, IsDropped, d, h, page
  <2>3. ASSUME NEW s \in DOMAIN dv
        PROVE  dv[s].live = Cardinality(HeldOn(d, s))
    <3>1. dv[s] = cv[s] /\ s \in DOMAIN cv /\ s # page
      BY <1>7 DEF IsDropped
    <3>2. cv[s].live = Cardinality(HeldOn(b, s))
      BY <1>1, <3>1 DEF CountsOK
    <3>. QED BY <1>5, <3>1, <3>2 DEF Fewer, d, page
  <2>. QED BY <1>1, <2>1, <2>2, <2>3 DEF CountsOK
<1>9. SumsOK(dv, d, p.carved_bytes - CarveOf(h.size), p.live_bytes - h.size, p.peak_bytes)
  <2>1. /\ p.peak_bytes \in Int /\ p.live_bytes \in Int /\ p.live_bytes <= p.peak_bytes
        /\ p.carved_bytes \in Int /\ p.carved_bytes <= Budget /\ Budget \in Nat
        /\ p.live_bytes = SumFunction(RoomLedger(cv, b))
        /\ p.carved_bytes = SumFunction(CarveLedger(cv))
    BY <1>1, Granules DEF SumsOK
  <2>2. SumFunction(RoomLedger(cv, b)) = SumFunction(RoomLedger(cv, d)) + h.size
        /\ h.size \in Nat /\ SumFunction(RoomLedger(cv, d)) \in Int
    BY <1>3, <1>5 DEF Fewer, d, h, page
  <2>3. /\ SumFunction(CarveLedger(cv)) = SumFunction(CarveLedger(dv)) + CarveOf(h.size)
        /\ SumFunction(CarveLedger(dv)) \in Int /\ RoomLedger(dv, d) = RoomLedger(cv, d)
    BY <1>3, <1>7 DEF IsDropped, h
  <2>4. CarveOf(h.size) \in Nat
    BY <1>3, TitleFacts
  <2>. QED BY <2>1, <2>2, <2>3, <2>4 DEF SumsOK
<1>10. /\ r.used = p.used /\ r.free_list = fl /\ r.carves = dv /\ r.live_count = p.live_count
       /\ r.large_count = p.large_count - 1 /\ r.carved_bytes = p.carved_bytes - CarveOf(h.size)
       /\ r.live_bytes = p.live_bytes - h.size /\ r.peak_bytes = p.peak_bytes
       /\ r.fatal = p.fatal /\ IsPool(r)
  BY <1>2 DEF IsFreedLarge, fl, cv, dv, h, page
<1>11. Shape(p.used, fl, dv, d)
  BY <1>7 DEF IsDropped, Shape
<1>12. Good(r, d)
  BY <1>1, <1>8, <1>9, <1>10, <1>11 DEF Good
<1>. QED BY <1>10, <1>12 DEF r, d

LEMMA FreeSmall ==
    ASSUME NEW p, IsPool(p), NEW b, Good(p, b), NEW q \in DOMAIN b, ~p.carves[PageOf(q)].large
    PROVE  Good(PoolFree(p, q), Without(b, q)) /\ IsPool(PoolFree(p, q))
<1>. DEFINE cv == p.carves
            fl == p.free_list
            page == PageOf(q)
            h == cv[page]
            c == h.klass
            gl == [fl EXCEPT ![c] = <<q>> \o fl[c]]
            dv == [cv EXCEPT ![page].live = cv[page].live - 1]
            lc == [p.live_count EXCEPT ![c] = p.live_count[c] - 1]
            d == Without(b, q)
            r == PoolFree(p, q)
<1>1. /\ CarvesOK(p.used, cv) /\ BlocksOK(cv, b) /\ FreeOK(cv, fl, b)
      /\ CountsOK(cv, b, p.live_count, p.large_count)
      /\ SumsOK(cv, b, p.carved_bytes, p.live_bytes, p.peak_bytes) /\ p.fatal = FALSE
  BY DEF Good, Shape
<1>2. /\ page \in DOMAIN cv /\ Titled(h) /\ h \in Headers /\ c \in Classes /\ h.live \in Nat
      /\ Space(h) = ClassSize(c) /\ Stands(q, page, h) /\ q \in Nat
      /\ \A x \in DOMAIN cv : cv[x].live \in Nat
  <2>1. page \in DOMAIN cv /\ Titled(h) /\ Stands(q, page, h) /\ q \in Nat
        /\ \A x \in DOMAIN cv : Titled(cv[x])
    BY <1>1 DEF BlocksOK, CarvesOK
  <2>. HIDE DEF cv
  <2>. QED BY <2>1, TitleFacts DEF Titled, Space, cv
<1>3. fl \in [Classes -> Seq(Nat)] /\ p.live_count \in [Classes -> Nat]
  BY <1>1 DEF FreeOK, CountsOK
<1>4. IsFreedSmall(r, p, q)
  BY <1>2, <1>3, FreedSmallFields
<1>5. /\ r.used = p.used /\ r.free_list = gl /\ r.carves = dv /\ r.live_count = lc
      /\ r.large_count = p.large_count /\ r.carved_bytes = p.carved_bytes
      /\ r.live_bytes = p.live_bytes - ClassSize(c) /\ r.peak_bytes = p.peak_bytes
      /\ r.fatal = p.fatal /\ IsPool(r)
  BY <1>4 DEF IsFreedSmall
<1>6. cv[page].live - 1 \in Nat
  <2>1. cv[page].live = Cardinality(HeldOn(b, page)) /\ q \in HeldOn(b, page)
    BY <1>1, <1>2 DEF CountsOK, HeldOn
  <2>2. IsFiniteSet(HeldOn(b, page))
    BY <1>1, HeldFinite DEF HeldOn
  <2>3. Cardinality(HeldOn(b, page)) # 0
    BY <2>1, <2>2, FS_EmptySet
  <2>. QED BY <1>2, <2>1, <2>3
<1>. HIDE DEF cv, fl, r
<1>7. /\ CarvesOK(p.used, dv) /\ Alike(cv, dv) /\ CarveLedger(dv) = CarveLedger(cv)
      /\ DOMAIN dv = DOMAIN cv /\ dv[page].live = cv[page].live - 1
      /\ \A s \in DOMAIN cv : s # page => dv[s] = cv[s]
  BY <1>1, <1>2, <1>6, Relived
<1>. HIDE DEF dv
<1>8. /\ BlocksOK(dv, b) /\ FreeOK(dv, fl, b) /\ RoomLedger(dv, b) = RoomLedger(cv, b)
      /\ HeldLarge(dv, b) = HeldLarge(cv, b)
      /\ \A k \in Classes : HeldOf(dv, b, k) = HeldOf(cv, b, k)
  BY <1>1, <1>7, AlikeKeeps
<1>9. /\ page \in DOMAIN dv /\ ~dv[page].large /\ dv[page].klass = c
      /\ Space(dv[page]) = ClassSize(c) /\ Stands(q, page, dv[page])
  <2>1. Space(dv[page]) = Space(cv[page]) /\ \A x : Stands(x, page, dv[page]) <=> Stands(x, page, cv[page])
    BY <1>2, <1>7, AlikeRoom
  <2>. QED BY <1>2, <1>7, <2>1 DEF Alike, cv
<1>10. BlocksOK(dv, d) /\ FreeOK(dv, fl, d) /\ DOMAIN d = DOMAIN b \ {q}
  BY <1>8, FewerShape
<1>11. Fewer(dv, b, q)
  BY <1>7, <1>8, FewerBooks
<1>12. q \notin DOMAIN d /\ IsOfClass(dv, q, c) /\ \A i \in DOMAIN fl[c] : fl[c][i] # q
  <2>1. q \notin Listed(fl, c)
    BY <1>1, <1>2 DEF FreeOK
  <2>2. IsOfClass(dv, q, c)
    BY <1>2, <1>9 DEF IsOfClass, Stands, page
  <2>. QED BY <1>10, <2>1, <2>2 DEF Listed
<1>. HIDE DEF d, page, c
<1>13. /\ gl[c] = <<q>> \o fl[c] /\ <<q>> \o fl[c] \in Seq(Nat)
       /\ \A i \in DOMAIN (<<q>> \o fl[c]) :
             (<<q>> \o fl[c])[i] = q \/ \E j \in DOMAIN fl[c] : (<<q>> \o fl[c])[i] = fl[c][j]
       /\ \A i, j \in 1 .. Len(<<q>> \o fl[c]) :
             (<<q>> \o fl[c])[i] = (<<q>> \o fl[c])[j] => i = j
  <2>1. fl[c] \in Seq(Nat) /\ \A i, j \in 1 .. Len(fl[c]) : fl[c][i] = fl[c][j] => i = j
    BY <1>1, <1>2, <1>3 DEF FreeOK
  <2>. QED BY <1>2, <1>3, <1>12, <2>1, ListPush
<1>14. gl \in [Classes -> Seq(Nat)] /\ \A k \in Classes : k # c => gl[k] = fl[k]
  <2>. DEFINE t == <<q>> \o fl[c]
  <2>1. t \in Seq(Nat)
    BY <1>13
  <2>. HIDE DEF t
  <2>2. [fl EXCEPT ![c] = t] \in [Classes -> Seq(Nat)]
        /\ \A k \in Classes : k # c => [fl EXCEPT ![c] = t][k] = fl[k]
    BY <1>3, <2>1
  <2>. QED BY <2>2 DEF t
<1>. HIDE DEF gl
<1>15. FreeOK(dv, gl, d)
  <2>1. ASSUME NEW k \in Classes, NEW x \in Listed(gl, k)
        PROVE  x \notin DOMAIN d /\ IsOfClass(dv, x, k)
    <3>1. CASE k = c
      <4>. DEFINE t == <<q>> \o fl[c]
      <4>0. gl[c] = t /\ \A i \in DOMAIN t : t[i] = q \/ \E j \in DOMAIN fl[c] : t[i] = fl[c][j]
        BY <1>13
      <4>. HIDE DEF t
      <4>2. PICK i \in DOMAIN t : x = t[i]
        BY <2>1, <3>1, <4>0 DEF Listed
      <4>1. x = q \/ x \in Listed(fl, c)
        BY <4>0, <4>2 DEF Listed
      <4>. QED BY <1>10, <1>12, <3>1, <4>1 DEF FreeOK
    <3>2. CASE k # c
      BY <1>10, <1>14, <2>1, <3>2 DEF FreeOK, Listed
    <3>. QED BY <3>1, <3>2
  <2>2. ASSUME NEW k \in Classes
        PROVE  \A i, j \in 1 .. Len(gl[k]) : gl[k][i] = gl[k][j] => i = j
    <3>1. CASE k = c
      BY <1>13, <3>1
    <3>2. CASE k # c
      BY <1>10, <1>14, <3>2 DEF FreeOK
    <3>. QED BY <3>1, <3>2
  <2>. QED BY <1>14, <2>1, <2>2 DEF FreeOK
<1>. HIDE DEF lc
<1>16. CountsOK(dv, d, lc, p.large_count)
  <2>1. \A k \in Classes : p.live_count[k] = Cardinality(HeldOf(dv, b, k))
    BY <1>1, <1>8 DEF CountsOK
  <2>2. \A k \in Classes : /\ Cardinality(HeldOf(dv, d, k)) \in Nat
                           /\ Cardinality(HeldOf(dv, d, k)) =
                                p.live_count[k] - (IF k = c THEN 1 ELSE 0)
    BY <1>9, <1>11, <2>1 DEF Fewer, d, page
  <2>3. lc[c] = p.live_count[c] - 1 /\ \A k \in Classes : k # c => lc[k] = p.live_count[k]
    BY <1>2, <1>3 DEF lc
  <2>4. ASSUME NEW k \in Classes
        PROVE  lc[k] = Cardinality(HeldOf(dv, d, k))
    <3>1. p.live_count[k] \in Nat
      BY <1>3
    <3>2. Cardinality(HeldOf(dv, d, k)) = p.live_count[k] - (IF k = c THEN 1 ELSE 0)
      BY <2>2
    <3>3. CASE k = c
      BY <2>3, <3>2, <3>3
    <3>4. CASE k # c
      BY <2>3, <3>1, <3>2, <3>4
    <3>. QED BY <3>3, <3>4
  <2>5. lc \in [Classes -> Nat]
    <3>1. p.live_count[c] - 1 \in Nat
      BY <1>2, <2>2
    <3>. QED BY <1>2, <1>3, <3>1 DEF lc
  <2>6. p.large_count = Cardinality(HeldLarge(dv, d))
    BY <1>1, <1>8, <1>9, <1>11 DEF CountsOK, Fewer, d, page
  <2>7. ASSUME NEW s \in DOMAIN dv
        PROVE  dv[s].live = Cardinality(HeldOn(d, s))
    <3>1. cv[s].live = Cardinality(HeldOn(b, s)) /\ s \in DOMAIN cv /\ cv[s].live \in Nat
      BY <1>1, <1>2, <1>7 DEF CountsOK, cv
    <3>2. dv[s].live = cv[s].live - (IF s = page THEN 1 ELSE 0)
      BY <1>7, <3>1
    <3>3. Cardinality(HeldOn(d, s)) = Cardinality(HeldOn(b, s)) - (IF s = page THEN 1 ELSE 0)
      BY <1>11 DEF Fewer, d, page
    <3>. QED BY <3>1, <3>2, <3>3
  <2>. QED BY <2>4, <2>5, <2>6, <2>7 DEF CountsOK
<1>17. SumsOK(dv, d, p.carved_bytes, p.live_bytes - ClassSize(c), p.peak_bytes)
  <2>1. /\ p.peak_bytes \in Int /\ p.live_bytes \in Int /\ p.live_bytes <= p.peak_bytes
        /\ p.live_bytes = SumFunction(RoomLedger(dv, b))
        /\ p.carved_bytes = SumFunction(CarveLedger(dv)) /\ p.carved_bytes \in Int
        /\ p.carved_bytes <= Budget
    BY <1>1, <1>7, <1>8 DEF SumsOK
  <2>2. SumFunction(RoomLedger(dv, b)) = SumFunction(RoomLedger(dv, d)) + ClassSize(c)
        /\ SumFunction(RoomLedger(dv, d)) \in Int /\ ClassSize(c) \in Nat
    BY <1>9, <1>11 DEF Fewer, d, page
  <2>. QED BY <2>1, <2>2 DEF SumsOK
<1>18. Good(r, d)
  BY <1>1, <1>5, <1>7, <1>10, <1>15, <1>16, <1>17 DEF Good, Shape
<1>. QED BY <1>5, <1>18 DEF r, d

LEMMA FreeGood ==
    ASSUME NEW p, IsPool(p), NEW b, Good(p, b), NEW q \in DOMAIN b
    PROVE  Good(PoolFree(p, q), Without(b, q)) /\ IsPool(PoolFree(p, q))
BY FreeLarge, FreeSmall
-----------------------------------------------------------------------------
(* pool_realloc.                                                           *)

IsRetitled(r, q, size) ==
    LET live == live_bytes - carves[PageOf(q)].size + size IN
    /\ IsPool(r) /\ r.used = used /\ r.carved_bytes = carved_bytes /\ r.free_list = free_list
    /\ r.carves = [carves EXCEPT ![PageOf(q)].size = size] /\ r.live_bytes = live
    /\ r.peak_bytes = Larger(peak_bytes, live) /\ r.live_count = live_count
    /\ r.large_count = large_count /\ r.fatal = pool_fatal

LEMMA RetitledFields == ASSUME NEW q, NEW size PROVE IsRetitled(Retitled(q, size), q, size)
<1>. DEFINE r == Retitled(q, size)
            live == live_bytes - carves[PageOf(q)].size + size
            dv == [carves EXCEPT ![PageOf(q)].size = size]
<1>1. r = [Pool EXCEPT !.carves[PageOf(q)].size = size, !.live_bytes = live,
                       !.peak_bytes = Larger(@, live)]
  BY DEF Retitled
<1>2. r = [Pool EXCEPT !.carves = dv, !.live_bytes = live, !.peak_bytes = Larger(peak_bytes, live)]
  <2>. HIDE DEF r, live
  <2>. QED BY <1>1 DEF Pool
<1>. HIDE DEF r, live, dv
<1>3. r = [used |-> used, carved_bytes |-> carved_bytes, free_list |-> free_list, carves |-> dv,
           live_bytes |-> live, peak_bytes |-> Larger(peak_bytes, live),
           live_count |-> live_count, large_count |-> large_count, fatal |-> pool_fatal]
  BY <1>2 DEF Pool
<1>4. /\ IsPool(r) /\ r.used = used /\ r.carved_bytes = carved_bytes /\ r.free_list = free_list
      /\ r.carves = dv /\ r.live_bytes = live /\ r.peak_bytes = Larger(peak_bytes, live)
      /\ r.live_count = live_count /\ r.large_count = large_count /\ r.fatal = pool_fatal
  BY <1>3 DEF IsPool
<1>. QED BY <1>4 DEF IsRetitled, r, live, dv

\* A large block that keeps its pages: the title and the books are what change.
LEMMA RetitleGood ==
    ASSUME Good(Pool, blocks), NEW q \in DOMAIN blocks, NEW size \in Nat,
           KeepsPages(carves[PageOf(q)], size)
    PROVE  Good(Retitled(q, size), [blocks EXCEPT ![q] = size]) /\ IsPool(Retitled(q, size))
<1>. DEFINE page == PageOf(q)
            h == carves[page]
            dv == [carves EXCEPT ![page].size = size]
            d == [blocks EXCEPT ![q] = size]
            r == Retitled(q, size)
            live == live_bytes - h.size + size
<1>1. /\ CarvesOK(used, carves) /\ BlocksOK(carves, blocks) /\ FreeOK(carves, free_list, blocks)
      /\ CountsOK(carves, blocks, live_count, large_count)
      /\ SumsOK(carves, blocks, carved_bytes, live_bytes, peak_bytes) /\ pool_fatal = FALSE
  BY PoolFields DEF Good, Shape
<1>2. IsRetitled(r, q, size)
  BY RetitledFields
<1>3. /\ page \in DOMAIN carves /\ Titled(h) /\ h.large /\ h \in Headers /\ h.size \in Nat
      /\ CarveOf(size) = CarveOf(h.size) /\ Stands(q, page, h) /\ Space(h) = h.size
  BY <1>1 DEF BlocksOK, CarvesOK, KeepsPages, Titled, Headers, Space
<1>4. \A x \in DOMAIN blocks : x # q => PageOf(x) # page
  BY <1>1, <1>3, LargeAlone
<1>5. /\ DOMAIN dv = DOMAIN carves /\ dv[page] = [h EXCEPT !.size = size]
      /\ \A s \in DOMAIN carves : s # page => dv[s] = carves[s]
      /\ dv = [s \in DOMAIN dv |-> dv[s]]
  BY <1>1, <1>3 DEF CarvesOK
<1>6. /\ dv[page] \in Headers /\ dv[page].large /\ dv[page].size = size
      /\ dv[page].live = h.live /\ dv[page].klass = h.klass
  BY <1>3, <1>5 DEF Headers
<1>7. /\ DOMAIN d = DOMAIN blocks /\ d[q] = size /\ d = [x \in DOMAIN d |-> d[x]]
      /\ \A x \in DOMAIN blocks : x # q => d[x] = blocks[x]
  BY <1>1 DEF BlocksOK
<1>. HIDE DEF dv, d, r, page, live
<1>8. Titled(dv[page]) /\ Taken(dv[page]) = Taken(h) /\ Space(dv[page]) = size
      /\ \A x : Stands(x, page, dv[page]) <=> Stands(x, page, h)
  BY <1>3, <1>6 DEF Titled, Taken, Space, Stands
<1>9. CarvesOK(used, dv) /\ CarveLedger(dv) = CarveLedger(carves)
  <2>1. \A s \in DOMAIN carves : Titled(dv[s]) /\ Taken(dv[s]) = Taken(carves[s])
    BY <1>1, <1>5, <1>8 DEF CarvesOK
  <2>. QED BY <1>1, <1>5, <2>1 DEF CarvesOK, CarveLedger
<1>10. PageOf(q) = page /\ \A x \in DOMAIN blocks : x # q => dv[PageOf(x)] = carves[PageOf(x)]
  BY <1>1, <1>4, <1>5 DEF BlocksOK, page
<1>11. BlocksOK(dv, d)
  <2>1. IsFiniteSet(DOMAIN d)
    BY <1>1, <1>7 DEF BlocksOK
  <2>2. ASSUME NEW x \in DOMAIN d
        PROVE  /\ x \in Nat /\ PageOf(x) \in DOMAIN dv /\ Stands(x, PageOf(x), dv[PageOf(x)])
               /\ d[x] \in Nat /\ d[x] <= Space(dv[PageOf(x)])
    <3>0. x \in DOMAIN blocks /\ x \in Nat /\ PageOf(x) \in DOMAIN carves
      BY <1>1, <1>7 DEF BlocksOK
    <3>1. CASE x = q
      BY <1>3, <1>5, <1>7, <1>8, <1>10, <3>0, <3>1
    <3>2. CASE x # q
      BY <1>1, <1>5, <1>7, <1>10, <3>0, <3>2 DEF BlocksOK
    <3>. QED BY <3>1, <3>2
  <2>. QED BY <1>7, <2>1, <2>2 DEF BlocksOK
<1>12. FreeOK(dv, free_list, d)
  <2>1. \A c \in Classes : \A x \in Listed(free_list, c) : IsOfClass(dv, x, c)
    BY <1>1, <1>3, <1>5 DEF FreeOK, IsOfClass
  <2>. QED BY <1>1, <1>7, <2>1 DEF FreeOK
<1>13. CountsOK(dv, d, live_count, large_count)
  <2>1. HeldLarge(dv, d) = HeldLarge(carves, blocks)
    BY <1>3, <1>6, <1>7, <1>10 DEF HeldLarge
  <2>2. \A c \in Classes : HeldOf(dv, d, c) = HeldOf(carves, blocks, c)
    BY <1>3, <1>6, <1>7, <1>10 DEF HeldOf
  <2>3. \A s : HeldOn(d, s) = HeldOn(blocks, s)
    BY <1>7 DEF HeldOn
  <2>4. \A s \in DOMAIN carves : dv[s].live = carves[s].live
    BY <1>5, <1>6
  <2>. QED BY <1>1, <1>5, <2>1, <2>2, <2>3, <2>4 DEF CountsOK
<1>14. SumsOK(dv, d, carved_bytes, live, Larger(peak_bytes, live))
  <2>1. RoomLedger(dv, d) = [RoomLedger(carves, blocks) EXCEPT ![q] = size]
    BY <1>3, <1>7, <1>8, <1>10 DEF RoomLedger
  <2>2. q \in DOMAIN RoomLedger(carves, blocks) /\ RoomLedger(carves, blocks)[q] = h.size
    BY <1>3, <1>10 DEF RoomLedger
  <2>3. SumFunction(RoomLedger(dv, d)) = SumFunction(RoomLedger(carves, blocks)) - h.size + size
    <3>. DEFINE f == RoomLedger(carves, blocks)
                g == RoomLedger(dv, d)
    <3>1. Ledger(f) /\ size \in Int
      BY <1>1, RoomLedgerIs
    <3>2. q \in DOMAIN f /\ f[q] = h.size /\ g = [f EXCEPT ![q] = size]
      BY <2>1, <2>2
    <3>. HIDE DEF f, g, h
    <3>3. SumFunction(g) = SumFunction(f) - f[q] + size
      BY <3>1, <3>2, SumChanges
    <3>. QED BY <3>2, <3>3 DEF f, g, h
  <2>4. /\ live_bytes = SumFunction(RoomLedger(carves, blocks)) /\ live_bytes \in Int
        /\ peak_bytes \in Int
    BY <1>1 DEF SumsOK
  <2>5. live = SumFunction(RoomLedger(dv, d)) /\ live \in Int
    BY <1>3, <2>3, <2>4 DEF live
  <2>6. Larger(peak_bytes, live) \in Int /\ live <= Larger(peak_bytes, live)
    BY <2>4, <2>5 DEF Larger
  <2>. QED BY <1>1, <1>9, <2>5, <2>6 DEF SumsOK
<1>15. Good(r, d)
  BY <1>1, <1>2, <1>9, <1>11, <1>12, <1>13, <1>14 DEF Good, Shape, IsRetitled, dv, page, live
<1>. QED BY <1>2, <1>15 DEF IsRetitled, r, d

\* A block that keeps its class: only what its caller asked for changes.
LEMMA KeepGood ==
    ASSUME Good(Pool, blocks), NEW q \in DOMAIN blocks, NEW size \in Nat,
           KeepsClass(carves[PageOf(q)], size)
    PROVE  Good(Pool, [blocks EXCEPT ![q] = size])
<1>. DEFINE h == carves[PageOf(q)]
            d == [blocks EXCEPT ![q] = size]
<1>1. /\ CarvesOK(used, carves) /\ BlocksOK(carves, blocks) /\ FreeOK(carves, free_list, blocks)
      /\ CountsOK(carves, blocks, live_count, large_count)
      /\ SumsOK(carves, blocks, carved_bytes, live_bytes, peak_bytes) /\ pool_fatal = FALSE
  BY PoolFields DEF Good, Shape
<1>2. size <= Space(h)
  BY SmallFits DEF KeepsClass, Space
<1>3. /\ DOMAIN d = DOMAIN blocks /\ d[q] = size /\ d = [x \in DOMAIN d |-> d[x]]
      /\ \A x \in DOMAIN blocks : x # q => d[x] = blocks[x]
  BY <1>1 DEF BlocksOK
<1>. HIDE DEF d
<1>4. BlocksOK(carves, d)
  BY <1>1, <1>2, <1>3 DEF BlocksOK
<1>5. FreeOK(carves, free_list, d)
  BY <1>1, <1>3 DEF FreeOK
<1>6. /\ HeldLarge(carves, d) = HeldLarge(carves, blocks)
      /\ \A c \in Classes : HeldOf(carves, d, c) = HeldOf(carves, blocks, c)
      /\ \A s : HeldOn(d, s) = HeldOn(blocks, s)
      /\ RoomLedger(carves, d) = RoomLedger(carves, blocks)
  BY <1>3 DEF HeldLarge, HeldOf, HeldOn, RoomLedger
<1>7. CountsOK(carves, d, live_count, large_count)
  BY <1>1, <1>6 DEF CountsOK
<1>8. SumsOK(carves, d, carved_bytes, live_bytes, peak_bytes)
  BY <1>1, <1>6 DEF SumsOK
<1>. QED BY <1>1, <1>4, <1>5, <1>7, <1>8, PoolFields DEF Good, Shape, d

\* The new block first, then the old one's return.
LEMMA MoveGood ==
    ASSUME NEW r, NEW q \in DOMAIN blocks, NEW size \in Nat, Hands(r, blocks, size),
           blocks = [x \in DOMAIN blocks |-> blocks[x]]
    PROVE  /\ Good(PoolFree(r.pool, q), With(Without(blocks, q), r.block, size))
           /\ IsPool(PoolFree(r.pool, q))
<1>. DEFINE d == With(blocks, r.block, size)
<1>1. Good(r.pool, d) /\ IsPool(r.pool) /\ r.block \notin DOMAIN blocks
  BY DEF Hands
<1>2. q \in DOMAIN d
  BY DEF With
<1>3. Without(d, q) = With(Without(blocks, q), r.block, size)
  BY <1>1 DEF With, Without
<1>. HIDE DEF d
<1>4. Good(PoolFree(r.pool, q), Without(d, q)) /\ IsPool(PoolFree(r.pool, q))
  BY <1>1, <1>2, FreeGood
<1>. QED BY <1>3, <1>4
-----------------------------------------------------------------------------
(* The specification.                                                      *)

LEMMA BecomesIs == ASSUME NEW p, IsPool(p), Becomes(p) PROVE Pool' = p
BY DEF Becomes, Pool, IsPool

LEMMA InitGood == PInit => IInv
<1>. SUFFICES ASSUME PInit
              PROVE  IInv
  OBVIOUS
<1>1. /\ used = 0 /\ carved_bytes = 0 /\ free_list = [c \in Classes |-> <<>>]
      /\ DOMAIN carves = {} /\ DOMAIN blocks = {} /\ pool_fatal = FALSE
      /\ live_bytes = 0 /\ peak_bytes = 0 /\ live_count = [c \in Classes |-> 0] /\ large_count = 0
      /\ carves = [x \in {} |-> 0] /\ blocks = [x \in {} |-> 0]
  BY DEF PInit
<1>2. CarvesOK(used, carves) /\ BlocksOK(carves, blocks)
  BY <1>1, FS_EmptySet DEF CarvesOK, BlocksOK
<1>3. FreeOK(carves, free_list, blocks)
  BY <1>1 DEF FreeOK, Listed
<1>4. CountsOK(carves, blocks, live_count, large_count)
  <2>1. HeldLarge(carves, blocks) = {} /\ \A c \in Classes : HeldOf(carves, blocks, c) = {}
    BY <1>1 DEF HeldLarge, HeldOf
  <2>. QED BY <1>1, <2>1, FS_EmptySet DEF CountsOK
<1>5. SumsOK(carves, blocks, carved_bytes, live_bytes, peak_bytes)
  <2>1. DOMAIN CarveLedger(carves) = {} /\ DOMAIN RoomLedger(carves, blocks) = {}
    BY <1>1 DEF CarveLedger, RoomLedger
  <2>2. SumFunction(CarveLedger(carves)) = 0 /\ SumFunction(RoomLedger(carves, blocks)) = 0
    BY <2>1, SumOfNothing
  <2>. QED BY <1>1, <2>2, Granules DEF SumsOK
<1>. QED BY <1>1, <1>2, <1>3, <1>4, <1>5, PoolFields DEF IInv, Good, Shape

LEMMA NextGood == IInv /\ [PNext]_pool_vars => IInv'
<1>. SUFFICES ASSUME IInv, [PNext]_pool_vars
              PROVE  Good(Pool', blocks')
  BY DEF IInv
<1>0. Good(Pool, blocks) /\ IsPool(Pool) /\ blocks = [x \in DOMAIN blocks |-> blocks[x]]
  BY PoolFields DEF IInv, Good, Shape, BlocksOK
<1>1. ASSUME NEW size \in Sizes, Alloc(size)
      PROVE  Good(Pool', blocks')
  <2>. DEFINE r == PoolAlloc(size)
  <2>1. Becomes(r.pool) /\ blocks' = IF r.block = Null THEN blocks ELSE With(blocks, r.block, size)
    BY <1>1 DEF Alloc
  <2>2. r = Refused \/ (r.block # Null /\ Hands(r, blocks, size))
    BY AllocGood, Granules
  <2>. HIDE DEF r
  <2>3. CASE r = Refused
    <3>1. r.pool = Pool /\ r.block = Null
      BY <2>3 DEF Refused
    <3>2. Pool' = Pool
      BY <1>0, <2>1, <3>1, BecomesIs
    <3>. QED BY <1>0, <2>1, <3>1, <3>2
  <2>4. CASE r.block # Null /\ Hands(r, blocks, size)
    BY <2>1, <2>4, BecomesIs DEF Hands
  <2>. QED BY <2>2, <2>3, <2>4
<1>2. ASSUME NEW q \in DOMAIN blocks, Free(q)
      PROVE  Good(Pool', blocks')
  BY <1>0, <1>2, FreeGood, BecomesIs DEF Free
<1>3. ASSUME NEW q \in DOMAIN blocks, NEW size \in Sizes, ReallocInPlace(q, size)
      PROVE  Good(Pool', blocks')
  <2>1. size \in Nat /\ blocks' = [blocks EXCEPT ![q] = size]
    BY <1>3, Granules DEF ReallocInPlace
  <2>2. CASE KeepsPages(carves[PageOf(q)], size) /\ Becomes(Retitled(q, size))
    BY <1>0, <2>1, <2>2, RetitleGood, BecomesIs
  <2>3. CASE KeepsClass(carves[PageOf(q)], size) /\ Becomes(Pool)
    <3>1. Pool' = Pool
      BY <1>0, <2>3, BecomesIs
    <3>. QED BY <1>0, <2>1, <2>3, <3>1, KeepGood
  <2>. QED BY <1>3, <2>2, <2>3 DEF ReallocInPlace
<1>4. ASSUME NEW q \in DOMAIN blocks, NEW size \in Sizes, ReallocMoves(q, size)
      PROVE  Good(Pool', blocks')
  <2>. DEFINE r == PoolAlloc(size)
  <2>1. IF r.block = Null THEN UNCHANGED pool_vars
        ELSE Becomes(PoolFree(r.pool, q)) /\ blocks' = With(Without(blocks, q), r.block, size)
    BY <1>4 DEF ReallocMoves
  <2>2. size \in Nat /\ (r = Refused \/ (r.block # Null /\ Hands(r, blocks, size)))
    BY AllocGood, Granules
  <2>. HIDE DEF r
  <2>3. CASE r = Refused
    <3>1. UNCHANGED pool_vars
      BY <2>1, <2>3 DEF Refused
    <3>. QED BY <1>0, <3>1 DEF pool_vars, Pool
  <2>4. CASE r.block # Null /\ Hands(r, blocks, size)
    BY <1>0, <2>1, <2>2, <2>4, MoveGood, BecomesIs
  <2>. QED BY <2>2, <2>3, <2>4
<1>5. CASE UNCHANGED pool_vars
  BY <1>0, <1>5 DEF pool_vars, Pool
<1>. QED BY <1>1, <1>2, <1>3, <1>4, <1>5 DEF PNext

\* A free list's block is where its class has its places.
LEMMA BlockIsInside ==
    ASSUME IInv, NEW q \in DOMAIN blocks \cup FreeBlocks
    PROVE  /\ PageOf(q) \in DOMAIN carves /\ Stands(q, PageOf(q), carves[PageOf(q)])
           /\ q \in DOMAIN blocks => q \notin FreeBlocks /\ blocks[q] <= Space(carves[PageOf(q)])
<1>1. BlocksOK(carves, blocks) /\ FreeOK(carves, free_list, blocks)
  BY PoolFields DEF IInv, Good, Shape
<1>2. \A x \in FreeBlocks : \E c \in Classes : x \in Listed(free_list, c)
  BY DEF FreeBlocks, Listed
<1>3. CASE q \in DOMAIN blocks
  <2>1. q \notin FreeBlocks
    BY <1>1, <1>2, <1>3 DEF FreeOK
  <2>. QED BY <1>1, <1>3, <2>1 DEF BlocksOK
<1>4. CASE q \in FreeBlocks
  <2>1. PICK c \in Classes : q \in Listed(free_list, c)
    BY <1>2, <1>4
  <2>2. q \notin DOMAIN blocks /\ IsOfClass(carves, q, c)
    BY <1>1, <2>1 DEF FreeOK
  <2>. QED BY <2>2 DEF IsOfClass, Stands
<1>. QED BY <1>3, <1>4

LEMMA Names ==
    ASSUME NEW q, NEW page
    PROVE  Payload(q) = Space(carves[PageOf(q)]) /\ Carve(page) = Taken(carves[page])
BY DEF Payload, Space, Carve, Taken

LEMMA BlockExtent ==
    ASSUME IInv, NEW q \in DOMAIN blocks \cup FreeBlocks
    PROVE  /\ q \in Nat /\ Payload(q) \in Nat /\ PageOf(q) \in Nat /\ Carve(PageOf(q)) \in Nat
           /\ PageOf(q) + Header <= q /\ q + Payload(q) <= PageOf(q) + Carve(PageOf(q))
<1>1. CarvesOK(used, carves)
  BY PoolFields DEF IInv, Good, Shape
<1>2. PageOf(q) \in DOMAIN carves /\ Stands(q, PageOf(q), carves[PageOf(q)])
  BY BlockIsInside
<1>3. IsPage(PageOf(q)) /\ Titled(carves[PageOf(q)])
  BY <1>1, <1>2 DEF CarvesOK
<1>4. Payload(q) = Space(carves[PageOf(q)]) /\ Carve(PageOf(q)) = Taken(carves[PageOf(q)])
  BY Names
<1>5. PageOf(q) \in Nat
  BY <1>3 DEF IsPage
<1>. QED BY <1>2, <1>3, <1>4, <1>5, StandsInside, TitleFacts

LEMMA HeadersFound == IInv => HeaderIsFound
<1>. SUFFICES ASSUME IInv, NEW q \in DOMAIN blocks \cup FreeBlocks
              PROVE  /\ PageOf(q) \in DOMAIN carves
                     /\ Extent(q, Payload(q)) \subseteq
                           PageOf(q) + Header .. PageOf(q) + Carve(PageOf(q)) - 1
                     /\ q \in DOMAIN blocks => q \notin FreeBlocks /\ blocks[q] <= Payload(q)
  BY DEF HeaderIsFound
<1>1. Extent(q, Payload(q)) \subseteq PageOf(q) + Header .. PageOf(q) + Carve(PageOf(q)) - 1
  BY BlockExtent, Granules DEF Extent
<1>. QED BY <1>1, BlockIsInside, Names

LEMMA CarvesApart ==
    ASSUME IInv, NEW p \in DOMAIN carves, NEW s \in DOMAIN carves, p < s
    PROVE  p + Carve(p) <= s
<1>1. CarvesOK(used, carves)
  BY PoolFields DEF IInv, Good, Shape
<1>. QED BY <1>1, Names DEF CarvesOK

LEMMA BlocksApart ==
    ASSUME IInv, NEW q \in DOMAIN blocks \cup FreeBlocks, NEW r \in DOMAIN blocks \cup FreeBlocks,
           q < r
    PROVE  q + Payload(q) <= r
<1>1. /\ q \in Nat /\ Payload(q) \in Nat /\ PageOf(q) \in Nat /\ Carve(PageOf(q)) \in Nat
      /\ PageOf(q) + Header <= q /\ q + Payload(q) <= PageOf(q) + Carve(PageOf(q))
  BY BlockExtent
<1>2. /\ r \in Nat /\ Payload(r) \in Nat /\ PageOf(r) \in Nat /\ Carve(PageOf(r)) \in Nat
      /\ PageOf(r) + Header <= r /\ r + Payload(r) <= PageOf(r) + Carve(PageOf(r))
  BY BlockExtent
<1>3. PageOf(q) \in DOMAIN carves /\ PageOf(r) \in DOMAIN carves
  BY BlockIsInside
<1>4. CASE PageOf(q) < PageOf(r)
  BY <1>1, <1>2, <1>3, <1>4, CarvesApart, Granules
<1>5. CASE PageOf(r) < PageOf(q)
  <2>1. PageOf(r) + Carve(PageOf(r)) <= PageOf(q)
    BY <1>3, <1>5, CarvesApart
  <2>. QED BY <1>1, <1>2, <2>1, Granules
<1>6. CASE PageOf(q) = PageOf(r)
  <2>. DEFINE page == PageOf(q)
              h == carves[page]
  <2>1. Stands(q, page, h) /\ Stands(r, page, h)
    BY <1>6, BlockIsInside
  <2>2. ~h.large /\ q \in Places(page, h.klass) /\ r \in Places(page, h.klass)
    <3>0. q # r
      BY <1>1, <1>2
    <3>1. ~h.large
      BY <1>6, <2>1, <3>0 DEF Stands
    <3>. QED BY <2>1, <3>1 DEF Stands
  <2>3. IsPage(page) /\ Titled(h)
    BY <1>3, PoolFields DEF IInv, Good, Shape, CarvesOK
  <2>. HIDE DEF page, h
  <2>4. q + ClassSize(h.klass) <= r /\ Space(h) = ClassSize(h.klass)
    BY <2>2, <2>3, PlacesApart, TitleFacts
  <2>. QED BY <2>4, Names DEF page, h
<1>. QED BY <1>1, <1>2, <1>4, <1>5, <1>6

LEMMA NoOverlap == IInv => NothingOverlaps
<1>. SUFFICES ASSUME IInv
              PROVE  NothingOverlaps
  OBVIOUS
<1>1. ASSUME NEW q \in DOMAIN blocks \cup FreeBlocks, NEW r \in DOMAIN blocks \cup FreeBlocks,
             q # r
      PROVE  Extent(q, Payload(q)) \cap Extent(r, Payload(r)) = {}
  <2>1. q \in Nat /\ r \in Nat /\ Payload(q) \in Nat /\ Payload(r) \in Nat
    BY BlockExtent
  <2>2. CASE q < r
    <3>1. q + Payload(q) <= r
      BY <2>2, BlocksApart
    <3>. QED BY <2>1, <3>1 DEF Extent
  <2>3. CASE r < q
    <3>1. r + Payload(r) <= q
      BY <2>3, BlocksApart
    <3>. QED BY <2>1, <3>1 DEF Extent
  <2>. QED BY <1>1, <2>1, <2>2, <2>3
<1>2. ASSUME NEW q \in DOMAIN blocks \cup FreeBlocks, NEW page \in DOMAIN carves
      PROVE  Extent(q, Payload(q)) \cap Extent(page, Header) = {}
  <2>1. /\ q \in Nat /\ Payload(q) \in Nat /\ PageOf(q) \in Nat /\ Carve(PageOf(q)) \in Nat
        /\ PageOf(q) + Header <= q /\ q + Payload(q) <= PageOf(q) + Carve(PageOf(q))
    BY BlockExtent
  <2>2. PageOf(q) \in DOMAIN carves
    BY BlockIsInside
  <2>3. IsPage(page) /\ page \in Nat /\ Titled(carves[page]) /\ Carve(page) = Taken(carves[page])
    BY PoolFields, Names DEF IInv, Good, Shape, CarvesOK, IsPage
  <2>4. CASE page < PageOf(q)
    <3>1. IsPage(PageOf(q))
      BY <2>2, PoolFields DEF IInv, Good, Shape, CarvesOK
    <3>2. page + CarveGranule <= PageOf(q)
      BY <2>3, <2>4, <3>1, PagesApart
    <3>. QED BY <2>1, <2>3, <3>2, Granules DEF Extent
  <2>5. CASE PageOf(q) < page
    <3>1. PageOf(q) + Carve(PageOf(q)) <= page
      BY <2>2, <2>5, CarvesApart
    <3>. QED BY <2>1, <2>3, <3>1, Granules DEF Extent
  <2>6. CASE PageOf(q) = page
    BY <2>1, <2>6, Granules DEF Extent
  <2>. QED BY <2>1, <2>3, <2>4, <2>5, <2>6
<1>. QED BY <1>1, <1>2 DEF NothingOverlaps

LEMMA Books == IInv => BooksBalance
<1>. SUFFICES ASSUME IInv
              PROVE  BooksBalance
  OBVIOUS
<1>1. /\ CountsOK(carves, blocks, live_count, large_count)
      /\ SumsOK(carves, blocks, carved_bytes, live_bytes, peak_bytes)
  BY PoolFields DEF IInv, Good
<1>2. [page \in DOMAIN carves |-> Carve(page)] = CarveLedger(carves)
  BY Names DEF CarveLedger
<1>3. [q \in DOMAIN blocks |-> Payload(q)] = RoomLedger(carves, blocks)
  BY Names DEF RoomLedger
<1>. QED BY <1>1, <1>2, <1>3 DEF BooksBalance, SumsOK, CountsOK, HeldLarge, HeldOf, HeldOn

\* The heap is sound between any two calls: from any block pointer its header is
\* found and its bytes are its own (pool_alloc, pool_free, carve_aligned), the
\* budget and the statistics count what is there, and the arena's limit is never met.
THEOREM HeapIsSound == PSpec => []HeapInv
<1>1. IInv => HeapInv
  <2>1. IInv => NeverFatal
    BY PoolFields DEF IInv, Good, NeverFatal
  <2>. QED BY <2>1, HeadersFound, NoOverlap, Books DEF HeapInv
<1>. QED BY <1>1, InitGood, NextGood, PTL DEF PSpec

-----------------------------------------------------------------------------
(***************************************************************************)
(* A script VM.  What a caller may rely on is VmInv; what keeps it is      *)
(* below: the fields have their types, the registry's free list names      *)
(* free slots and none twice, a sealed VM has nothing left to write, and   *)
(* its names are those of its kind and what a script defined.              *)
(***************************************************************************)

AllNames == SandboxNames("sim") \cup SandboxNames("ui") \cup SandboxNames("data") \cup {"mine"}
AllTables == AllNames \cup {"_G", "fx", "strmt", "string", "table", "mine"}

VmType ==
    [state : {"none", "live", "dead"}, kind : {"sim", "ui", "data"}, reserve : BOOLEAN,
     stack : Int, init_open : BOOLEAN, names : SUBSET AllNames, readonly : SUBSET AllTables,
     left : Int, warned : BOOLEAN, err : BOOLEAN, atoms : Interners \cup {"none"},
     compiled : Int, last_reachable : Int, growth_ticks : Int]

VmTypes ==
    /\ vm \in VmType
    /\ atom_interner \in Interners \cup {"none"} /\ vm_fatal \in BOOLEAN
    /\ tick \in [steps : Nat, raised : Int, late : BOOLEAN]
    /\ answered \in [failed : BOOLEAN, bytes : Int]

\* The registry, its free list and who holds what.
RegistryOK(reg) ==
    /\ reg \in [slots : Seq(Tables \cup {"free"}), free : Seq(Nat)]
    /\ \A i \in 1 .. Len(reg.free) :
          reg.free[i] \in 1 .. Len(reg.slots) /\ reg.slots[reg.free[i]] = "free"
    /\ \A i, j \in 1 .. Len(reg.free) : reg.free[i] = reg.free[j] => i = j
Pinned(reg) ==
    {[ref |-> r, table |-> reg.slots[r]] : r \in {q \in 1 .. Len(reg.slots) : reg.slots[q] \in Tables}}
HoldersOK(reg, told, untold) ==
    /\ Pinned(reg) = told \cup untold
    /\ told \cap untold = {}
RegistryInv == RegistryOK(registry) /\ HoldersOK(registry, held, lost)

PoolInv ==
    /\ cpool \in [carved : Nat, live : Nat] /\ cpool.carved <= PoolBudget
    /\ window \in [live : Int, peak : Int] /\ window.live = 0

SealInv ==
    /\ ~tick.late
    /\ vm.state = "live" =>
          /\ vm.names \subseteq SandboxNames(vm.kind) \cup {"mine"}
          /\ ~vm.init_open => Reachable(vm.names) \subseteq vm.readonly

VmIInv ==
    /\ VmTypes /\ RegistryInv /\ PoolInv /\ SealInv
    /\ CallsBalance /\ BudgetInv /\ AnswersAreFresh /\ OneNumbering

\* ---- the registry ----

\* A sequence longer by one, or with one place overwritten.
LEMMA Longer ==
    ASSUME NEW S, NEW s \in Seq(S), NEW e \in S
    PROVE  /\ Append(s, e) \in Seq(S) /\ Len(Append(s, e)) = Len(s) + 1 /\ Len(s) \in Nat
           /\ Append(s, e)[Len(s) + 1] = e
           /\ \A i \in 1 .. Len(s) : Append(s, e)[i] = s[i]
  BY AppendProperties, LenProperties

LEMMA Overwritten ==
    ASSUME NEW S, NEW s \in Seq(S), NEW e \in S, NEW k \in 1 .. Len(s)
    PROVE  /\ [s EXCEPT ![k] = e] \in Seq(S) /\ Len([s EXCEPT ![k] = e]) = Len(s) /\ Len(s) \in Nat
           /\ [s EXCEPT ![k] = e][k] = e
           /\ \A i \in 1 .. Len(s) : i # k => [s EXCEPT ![k] = e][i] = s[i]
  BY ExceptSeq, LenProperties

\* lua_ref puts the table into a slot that held none and leaves the others.
PinnedAs(reg, new, t) ==
    /\ RegistryOK(new)
    /\ PinnedAt(reg) \in Nat /\ PinnedAt(reg) \in 1 .. Len(new.slots)
    /\ new.slots[PinnedAt(reg)] = t
    /\ ~(PinnedAt(reg) \in 1 .. Len(reg.slots) /\ reg.slots[PinnedAt(reg)] \in Tables)
    /\ \A q \in Nat : q # PinnedAt(reg) =>
          /\ q \in 1 .. Len(new.slots) <=> q \in 1 .. Len(reg.slots)
          /\ q \in 1 .. Len(reg.slots) => new.slots[q] = reg.slots[q]
LEMMA PinFacts ==
    ASSUME NEW reg, RegistryOK(reg), NEW t \in Tables
    PROVE  PinnedAs(reg, Pin(reg, t), t)
<1>. DEFINE S == Tables \cup {"free"}
            n == Len(reg.slots)
<1>1. reg = [slots |-> reg.slots, free |-> reg.free] /\ reg.slots \in Seq(S) /\ reg.free \in Seq(Nat)
      /\ t \in S /\ n \in Nat /\ "free" \notin Tables
  BY VmAssumption, LenProperties DEF RegistryOK
<1>2. CASE reg.free = <<>>
  <2>1. Pin(reg, t) = [slots |-> Append(reg.slots, t), free |-> reg.free] /\ PinnedAt(reg) = n + 1
    BY <1>1, <1>2 DEF Pin, PinnedAt
  <2>. DEFINE s == Append(reg.slots, t)
              new == [slots |-> s, free |-> reg.free]
  <2>2. s \in Seq(S) /\ Len(s) = n + 1 /\ s[n + 1] = t /\ \A i \in 1 .. n : s[i] = reg.slots[i]
    BY <1>1, Longer
  <2>3. Len(reg.free) = 0
    BY <1>2
  <2>. HIDE DEF s, S
  <2>4. new.slots = s /\ new.free = reg.free /\ new \in [slots : Seq(S), free : Seq(Nat)]
    BY <1>1, <2>2
  <2>5. RegistryOK(new)
    BY <1>1, <2>2, <2>3, <2>4 DEF RegistryOK, S
  <2>6. \A q \in Nat : q # n + 1 =>
          /\ q \in 1 .. Len(s) <=> q \in 1 .. n
          /\ q \in 1 .. n => s[q] = reg.slots[q]
    BY <1>1, <2>2
  <2>7. Pin(reg, t) = new
    BY <2>1 DEF s
  <2>8. n + 1 \in Nat /\ n + 1 \in 1 .. Len(s) /\ n + 1 \notin 1 .. n
    BY <1>1, <2>2
  <2>. HIDE DEF new
  <2>. QED BY <2>1, <2>2, <2>4, <2>5, <2>6, <2>7, <2>8 DEF PinnedAs
<1>3. CASE reg.free # <<>>
  <2>. DEFINE k == Head(reg.free)
              s == [reg.slots EXCEPT ![k] = t]
              f == Tail(reg.free)
              new == [slots |-> s, free |-> f]
  <2>1. Pin(reg, t) = new /\ PinnedAt(reg) = k
    BY <1>3 DEF Pin, PinnedAt
  <2>2. /\ f \in Seq(Nat) /\ Len(f) \in Nat /\ Len(reg.free) = Len(f) + 1 /\ k = reg.free[1]
        /\ \A i \in 1 .. Len(f) : f[i] = reg.free[i + 1]
    BY <1>1, <1>3, HeadTailProperties, LenProperties
  <2>3. k \in 1 .. n /\ reg.slots[k] = "free"
    BY <2>2 DEF RegistryOK
  <2>4. s \in Seq(S) /\ Len(s) = n /\ s[k] = t /\ \A i \in 1 .. n : i # k => s[i] = reg.slots[i]
    BY <1>1, <2>3, Overwritten
  <2>. HIDE DEF s, f, k, S
  <2>5. ASSUME NEW i \in 1 .. Len(f)
        PROVE  f[i] \in 1 .. n /\ f[i] # k /\ reg.slots[f[i]] = "free"
    <3>1. i + 1 \in 1 .. Len(reg.free) /\ 1 \in 1 .. Len(reg.free) /\ i + 1 # 1
      BY <2>2
    <3>2. f[i] = reg.free[i + 1] /\ k = reg.free[1]
      BY <2>2
    <3>. QED BY <3>1, <3>2 DEF RegistryOK
  <2>6. ASSUME NEW i \in 1 .. Len(f), NEW j \in 1 .. Len(f), f[i] = f[j] PROVE i = j
    <3>1. i + 1 \in 1 .. Len(reg.free) /\ j + 1 \in 1 .. Len(reg.free)
          /\ f[i] = reg.free[i + 1] /\ f[j] = reg.free[j + 1]
      BY <2>2, SMTT(40)
    <3>2. i + 1 = j + 1
      BY <2>6, <3>1 DEF RegistryOK
    <3>. QED BY <3>2
  <2>7. new.slots = s /\ new.free = f /\ new \in [slots : Seq(S), free : Seq(Nat)]
    BY <2>2, <2>4
  <2>8. RegistryOK(new)
    BY <2>4, <2>5, <2>6, <2>7 DEF RegistryOK, S
  <2>9. \A q \in Nat : q # k =>
          /\ q \in 1 .. Len(s) <=> q \in 1 .. n
          /\ q \in 1 .. n => s[q] = reg.slots[q]
    BY <2>4
  <2>10. k \in Nat /\ k \in 1 .. Len(s)
    BY <1>1, <2>3, <2>4
  <2>11. ~(k \in 1 .. n /\ reg.slots[k] \in Tables)
    BY <1>1, <2>3
  <2>. HIDE DEF new
  <2>12. new.slots[k] = t /\ k \in 1 .. Len(new.slots)
    BY <2>4, <2>7, <2>10
  <2>13. \A q \in Nat : q # k =>
          /\ q \in 1 .. Len(new.slots) <=> q \in 1 .. Len(reg.slots)
          /\ q \in 1 .. Len(reg.slots) => new.slots[q] = reg.slots[q]
    BY <2>7, <2>9
  <2>. QED BY <2>1, <2>8, <2>10, <2>11, <2>12, <2>13, SMTT(40) DEF PinnedAs
<1>. QED BY <1>2, <1>3

\* What is pinned after lua_ref: what was, and the table under its own reference.
LEMMA PinAdds ==
    ASSUME NEW reg, RegistryOK(reg), NEW t \in Tables
    PROVE  /\ RegistryOK(Pin(reg, t))
           /\ Pinned(Pin(reg, t)) = Pinned(reg) \cup {[ref |-> PinnedAt(reg), table |-> t]}
           /\ \A h \in Pinned(reg) : h.ref # PinnedAt(reg)
<1>. DEFINE new == Pin(reg, t)
            a == PinnedAt(reg)
<1>1. PinnedAs(reg, new, t)
  BY PinFacts
<1>. HIDE DEF new, a
<1>2. RegistryOK(new) /\ a \in Nat /\ a \in 1 .. Len(new.slots) /\ new.slots[a] = t
      /\ ~(a \in 1 .. Len(reg.slots) /\ reg.slots[a] \in Tables)
      /\ \A q \in Nat : q # a =>
            /\ q \in 1 .. Len(new.slots) <=> q \in 1 .. Len(reg.slots)
            /\ q \in 1 .. Len(reg.slots) => new.slots[q] = reg.slots[q]
  BY <1>1 DEF PinnedAs, a
<1>3. \A q \in 1 .. Len(reg.slots) : q \in Nat
  BY LenProperties DEF RegistryOK
<1>4. \A q \in 1 .. Len(new.slots) : q \in Nat
  BY <1>2, LenProperties DEF RegistryOK
<1>5. ASSUME NEW h \in Pinned(new) PROVE h \in Pinned(reg) \cup {[ref |-> a, table |-> t]}
  <2>1. PICK q \in 1 .. Len(new.slots) : new.slots[q] \in Tables /\ h = [ref |-> q, table |-> new.slots[q]]
    BY DEF Pinned
  <2>2. CASE q = a
    BY <1>2, <2>1, <2>2
  <2>3. CASE q # a
    BY <1>2, <1>4, <2>1, <2>3 DEF Pinned
  <2>. QED BY <2>2, <2>3
<1>6. ASSUME NEW h \in Pinned(reg) PROVE h \in Pinned(new) /\ h.ref # a
  <2>1. PICK q \in 1 .. Len(reg.slots) : reg.slots[q] \in Tables /\ h = [ref |-> q, table |-> reg.slots[q]]
    BY DEF Pinned
  <2>2. q # a
    BY <1>2, <2>1
  <2>3. q \in 1 .. Len(new.slots) /\ new.slots[q] = reg.slots[q]
    BY <1>2, <1>3, <2>2
  <2>. QED BY <2>1, <2>2, <2>3 DEF Pinned
<1>7. [ref |-> a, table |-> t] \in Pinned(new)
  BY <1>2 DEF Pinned
<1>. QED BY <1>2, <1>5, <1>6, <1>7 DEF new, a

\* lua_unref: the slot is free, and nothing else has changed.
LEMMA UnpinRemoves ==
    ASSUME NEW reg, RegistryOK(reg), NEW r \in 1 .. Len(reg.slots), reg.slots[r] \in Tables
    PROVE  /\ RegistryOK(Unpin(reg, r))
           /\ Pinned(Unpin(reg, r)) = {h \in Pinned(reg) : h.ref # r}
<1>. DEFINE S == Tables \cup {"free"}
            n == Len(reg.slots)
            s == [reg.slots EXCEPT ![r] = "free"]
            f == <<r>> \o reg.free
            new == [slots |-> s, free |-> f]
<1>1. /\ reg.slots \in Seq(S) /\ reg.free \in Seq(Nat) /\ n \in Nat /\ Len(reg.free) \in Nat
      /\ r \in Nat /\ "free" \in S /\ "free" \notin Tables /\ Unpin(reg, r) = new
  BY VmAssumption, LenProperties DEF RegistryOK, Unpin
<1>2. s \in Seq(S) /\ Len(s) = n /\ s[r] = "free" /\ \A i \in 1 .. n : i # r => s[i] = reg.slots[i]
  BY <1>1, Overwritten
<1>3. <<r>> \in Seq(Nat) /\ Len(<<r>>) = 1 /\ <<r>>[1] = r
  BY <1>1
<1>4. /\ f \in Seq(Nat) /\ Len(f) = Len(reg.free) + 1 /\ f[1] = r
      /\ \A i \in 2 .. Len(f) : f[i] = reg.free[i - 1] /\ i - 1 \in 1 .. Len(reg.free)
  BY <1>1, <1>3, ConcatProperties
<1>. HIDE DEF s, f, S
<1>5. ASSUME NEW i \in 1 .. Len(f)
      PROVE  f[i] \in 1 .. n /\ s[f[i]] = "free" /\ (i # 1 => f[i] # r)
  <2>1. CASE i = 1
    BY <1>2, <1>4, <2>1
  <2>2. CASE i # 1
    <3>1. i \in 2 .. Len(f)
      BY <1>1, <1>4, <2>2
    <3>2. i - 1 \in 1 .. Len(reg.free) /\ f[i] = reg.free[i - 1]
      BY <1>4, <3>1
    <3>3. f[i] \in 1 .. n /\ reg.slots[f[i]] = "free"
      BY <3>2 DEF RegistryOK
    <3>4. f[i] # r
      BY <1>1, <3>3
    <3>. QED BY <1>2, <3>3, <3>4
  <2>. QED BY <2>1, <2>2
<1>6. \A i, j \in 1 .. Len(f) : f[i] = f[j] => i = j
  <2>. SUFFICES ASSUME NEW i \in 1 .. Len(f), NEW j \in 1 .. Len(f), f[i] = f[j] PROVE i = j
    OBVIOUS
  <2>2. CASE i = 1 \/ j = 1
    BY <1>4, <1>5, <2>2
  <2>3. CASE i # 1 /\ j # 1
    <3>0. Len(f) \in Nat
      BY <1>1, <1>4
    <3>1. i \in 2 .. Len(f) /\ j \in 2 .. Len(f)
      BY <2>3, <3>0
    <3>2. i - 1 \in 1 .. Len(reg.free) /\ j - 1 \in 1 .. Len(reg.free)
          /\ reg.free[i - 1] = reg.free[j - 1]
      BY <1>4, <3>1
    <3>3. i - 1 = j - 1
      BY <3>2 DEF RegistryOK
    <3>. QED BY <3>0, <3>1, <3>3
  <2>. QED BY <2>2, <2>3
<1>7. new.slots = s /\ new.free = f /\ new \in [slots : Seq(S), free : Seq(Nat)]
  BY <1>2, <1>4
<1>8. RegistryOK(new)
  BY <1>2, <1>5, <1>6, <1>7 DEF RegistryOK, S
<1>9. ASSUME NEW h \in Pinned(new) PROVE h \in Pinned(reg) /\ h.ref # r
  <2>1. PICK q \in 1 .. n : s[q] \in Tables /\ h = [ref |-> q, table |-> s[q]]
    BY <1>2, <1>7 DEF Pinned
  <2>2. q # r /\ s[q] = reg.slots[q]
    BY <1>1, <1>2, <2>1
  <2>. QED BY <2>1, <2>2 DEF Pinned
<1>10. ASSUME NEW h \in Pinned(reg), h.ref # r PROVE h \in Pinned(new)
  <2>1. PICK q \in 1 .. n : reg.slots[q] \in Tables /\ h = [ref |-> q, table |-> reg.slots[q]]
    BY DEF Pinned
  <2>2. s[q] = reg.slots[q]
    BY <1>2, <1>10, <2>1
  <2>. QED BY <1>2, <1>7, <2>1, <2>2 DEF Pinned
<1>. QED BY <1>1, <1>8, <1>9, <1>10

\* Converting a value that is not refused pins it if it is a table.
LEMMA ConvertAdds ==
    ASSUME NEW reg, RegistryOK(reg), NEW v \in Values
    PROVE  /\ RegistryOK(Convert(reg, v))
           /\ Pinned(Convert(reg, v)) = Pinned(reg) \cup Handed(reg, v)
           /\ \A h \in Handed(reg, v) : h.ref = PinnedAt(reg)
           /\ \A h \in Handed(reg, v) : \A g \in Pinned(reg) : g.ref # h.ref
<1>1. CASE v.kind = "table"
  <2>1. v.table \in Tables
    BY <1>1 DEF Values
  <2>2. Convert(reg, v) = Pin(reg, v.table) /\ Handed(reg, v) = {[ref |-> PinnedAt(reg), table |-> v.table]}
    BY <1>1 DEF Convert, Handed
  <2>. QED BY <2>1, <2>2, PinAdds
<1>2. CASE v.kind # "table"
  BY <1>2 DEF Convert, Handed
<1>. QED BY <1>1, <1>2

\* A walk leaves its value pinned, and its key no longer than the call.
LEMMA NextAdds ==
    ASSUME NEW reg, RegistryOK(reg), NEW k \in Values, NEW v \in Values
    PROVE  /\ RegistryOK(NextPins(reg, k, v))
           /\ Pinned(NextPins(reg, k, v)) = Pinned(reg) \cup NextHands(reg, k, v)
           /\ \A h \in NextHands(reg, k, v) : \A g \in Pinned(reg) : g.ref # h.ref
<1>. DEFINE one == Convert(reg, k)
            two == Convert(one, v)
            a == PinnedAt(reg)
            new == Handed(one, v)
<1>1. /\ RegistryOK(one) /\ Pinned(one) = Pinned(reg) \cup Handed(reg, k)
      /\ \A h \in Handed(reg, k) : h.ref = a
      /\ \A h \in Handed(reg, k) : \A g \in Pinned(reg) : g.ref # h.ref
  BY ConvertAdds
<1>. HIDE DEF one
<1>2. /\ RegistryOK(two) /\ Pinned(two) = Pinned(one) \cup new
      /\ \A h \in new : \A g \in Pinned(one) : g.ref # h.ref
  BY <1>1, ConvertAdds
<1>. HIDE DEF two, new, a
<1>3. CASE k.kind = "table"
  <2>1. NextPins(reg, k, v) = Unpin(two, a) /\ NextHands(reg, k, v) = new
        /\ Handed(reg, k) = {[ref |-> a, table |-> k.table]}
    BY <1>3 DEF NextPins, NextHands, Handed, one, two, new, a
  <2>2. [ref |-> a, table |-> k.table] \in Pinned(two)
    BY <1>1, <1>2, <2>1
  <2>3. a \in 1 .. Len(two.slots) /\ two.slots[a] \in Tables
    <3>1. PICK q \in 1 .. Len(two.slots) : two.slots[q] \in Tables
             /\ [ref |-> a, table |-> k.table] = [ref |-> q, table |-> two.slots[q]]
      BY <2>2 DEF Pinned
    <3>2. a = q
      BY <3>1
    <3>. QED BY <3>1, <3>2
  <2>4. RegistryOK(Unpin(two, a)) /\ Pinned(Unpin(two, a)) = {h \in Pinned(two) : h.ref # a}
    BY <1>2, <2>3, UnpinRemoves
  <2>5. \A h \in new : h.ref # a
    BY <1>1, <1>2, <2>1
  <2>6. \A g \in Pinned(reg) : g.ref # a
    BY <1>1, <2>1
  <2>7. {h \in Pinned(two) : h.ref # a} = Pinned(reg) \cup new
    BY <1>1, <1>2, <2>5, <2>6
  <2>8. \A h \in new : \A g \in Pinned(reg) : g.ref # h.ref
    BY <1>1, <1>2
  <2>. QED BY <2>1, <2>4, <2>7, <2>8
<1>4. CASE k.kind # "table"
  <2>1. one = reg
    BY <1>4 DEF Convert, one
  <2>2. NextPins(reg, k, v) = two /\ NextHands(reg, k, v) = new
    BY <1>4, <2>1 DEF NextPins, NextHands, one, two, new
  <2>. QED BY <1>2, <2>1, <2>2
<1>. QED BY <1>3, <1>4

\* ---- running a chunk ----

\* What a call that loads a chunk and runs it does to the VM.
RanFields(o, p) ==
    /\ vm' \in VmType /\ vm'.stack = vm.stack
    /\ vm'.state = vm.state /\ vm'.kind = vm.kind /\ vm'.reserve = vm.reserve
    /\ vm'.init_open = vm.init_open /\ vm'.readonly = vm.readonly /\ vm'.atoms = vm.atoms
    /\ vm'.left = (IF o = "ok" THEN LeftAfter(vm.left, p.safepoints) ELSE vm.left)
    /\ vm'.warned <=>
          (vm.warned \/ (o = "ok" /\ vm.kind = "ui" /\ Trips(vm.left, p.safepoints)))
    /\ vm'.names = (IF o = "ok" /\ Defines(p) THEN vm.names \cup {"mine"} ELSE vm.names)
    /\ vm'.compiled = (IF Compiles(o) THEN window'.peak ELSE vm.compiled)

LEMMA NamesFacts ==
    /\ "mine" \in AllNames /\ AllNames \subseteq AllTables
    /\ \A kind \in {"sim", "ui", "data"} : SandboxNames(kind) \subseteq AllNames
    /\ \A names \in SUBSET AllNames : Reachable(names) \subseteq AllTables
  BY DEF AllNames, AllTables, Reachable

\* The script's own part of it.
LEMMA ScriptFields ==
    ASSUME VmTypes, NEW p \in Scripts, NEW w, w = AfterScript(p)
    PROVE  /\ w \in VmType /\ w.stack = vm.stack
           /\ w.state = vm.state /\ w.kind = vm.kind /\ w.reserve = vm.reserve
           /\ w.init_open = vm.init_open /\ w.readonly = vm.readonly /\ w.atoms = vm.atoms
           /\ w.left = LeftAfter(vm.left, p.safepoints)
           /\ w.warned <=> (vm.warned \/ (vm.kind = "ui" /\ Trips(vm.left, p.safepoints)))
           /\ w.names = (IF Defines(p) THEN vm.names \cup {"mine"} ELSE vm.names)
           /\ w.compiled = vm.compiled /\ w.last_reachable = vm.last_reachable
           /\ w.growth_ticks = vm.growth_ticks
<1>. DEFINE l == LeftAfter(vm.left, p.safepoints)
            m == vm.warned \/ (vm.kind = "ui" /\ Trips(vm.left, p.safepoints))
            ns == IF Defines(p) THEN vm.names \cup {"mine"} ELSE vm.names
<1>1. vm \in VmType /\ p.safepoints \in Int
  BY DEF VmTypes, Scripts
<1>2. l \in Int
  BY <1>1 DEF LeftAfter, VmType
<1>3. m \in BOOLEAN
  BY <1>1 DEF VmType
<1>4. ns \in SUBSET AllNames
  BY <1>1, NamesFacts DEF VmType
<1>5. w = [vm EXCEPT !.left = l, !.warned = m, !.names = ns]
  BY DEF AfterScript
<1>. HIDE DEF l, m, ns
<1>. DEFINE left == [vm EXCEPT !.left = l]
            warned == [left EXCEPT !.warned = m]
<1>6. left \in VmType /\ left.left = l
  BY <1>1, <1>2 DEF VmType
<1>. HIDE DEF left
<1>7. warned \in VmType /\ warned.left = l /\ warned.warned = m
  BY <1>3, <1>6 DEF VmType
<1>. HIDE DEF warned
<1>8. w = [warned EXCEPT !.names = ns]
  BY <1>5 DEF left, warned
<1>9. w \in VmType /\ w.left = l /\ w.warned = m /\ w.names = ns
  BY <1>4, <1>7, <1>8 DEF VmType
<1>10. /\ w.stack = vm.stack
       /\ w.state = vm.state /\ w.kind = vm.kind /\ w.reserve = vm.reserve
       /\ w.init_open = vm.init_open /\ w.readonly = vm.readonly /\ w.atoms = vm.atoms
       /\ w.compiled = vm.compiled /\ w.last_reachable = vm.last_reachable
       /\ w.growth_ticks = vm.growth_ticks
  BY <1>1, <1>5, SMTT(40) DEF VmType
<1>. QED BY <1>9, <1>10 DEF l, m, ns

Relabels(w, b, e, c, net) ==
    /\ w \in VmType /\ w.err = e /\ w.compiled = c /\ w.stack = net
    /\ w.state = b.state /\ w.kind = b.kind /\ w.reserve = b.reserve
    /\ w.init_open = b.init_open /\ w.readonly = b.readonly /\ w.atoms = b.atoms
    /\ w.left = b.left /\ w.warned = b.warned /\ w.names = b.names
LEMMA Relabelled ==
    ASSUME NEW b \in VmType, NEW e \in BOOLEAN, NEW c \in Int, NEW net \in Int
    PROVE  Relabels([b EXCEPT !.err = e, !.compiled = c, !.stack = net], b, e, c, net)
  BY DEF VmType, Relabels

\* Around it, the call's error, compile size and stack.
CallResult(o, p, e, c, net) ==
    /\ c = (IF Compiles(o) THEN window'.peak ELSE vm.compiled)
    /\ vm' = [(IF o = "ok" THEN AfterScript(p) ELSE vm) EXCEPT
                 !.err = e, !.compiled = c, !.stack = net]
    /\ net = vm.stack
LEMMA CallFields ==
    ASSUME VmTypes, NEW p \in Scripts, NEW o, NEW net \in Int, NEW e \in BOOLEAN, NEW c \in Int,
           CallResult(o, p, e, c, net)
    PROVE  RanFields(o, p) /\ vm'.err = e
<1>. DEFINE base == IF o = "ok" THEN AfterScript(p) ELSE vm
<1>0. /\ c = (IF Compiles(o) THEN window'.peak ELSE vm.compiled)
      /\ vm' = [base EXCEPT !.err = e, !.compiled = c, !.stack = net]
      /\ net = vm.stack
  BY DEF CallResult
<1>1. vm \in VmType
  BY DEF VmTypes
<1>2. /\ base \in VmType /\ base.stack = vm.stack
      /\ base.state = vm.state /\ base.kind = vm.kind /\ base.reserve = vm.reserve
      /\ base.init_open = vm.init_open /\ base.readonly = vm.readonly /\ base.atoms = vm.atoms
      /\ base.left = (IF o = "ok" THEN LeftAfter(vm.left, p.safepoints) ELSE vm.left)
      /\ base.warned <=>
            (vm.warned \/ (o = "ok" /\ vm.kind = "ui" /\ Trips(vm.left, p.safepoints)))
      /\ base.names = (IF o = "ok" /\ Defines(p) THEN vm.names \cup {"mine"} ELSE vm.names)
  <2>1. CASE o = "ok"
    <3>1. base = AfterScript(p)
      BY <2>1
    <3>. QED BY <2>1, <3>1, ScriptFields
  <2>2. CASE o # "ok"
    BY <1>1, <2>2
  <2>. QED BY <2>1, <2>2
<1>3. base \in VmType
  BY <1>2
<1>4. Relabels([base EXCEPT !.err = e, !.compiled = c, !.stack = net], base, e, c, net)
  BY <1>3, Relabelled
<1>. HIDE DEF base
<1>5. Relabels(vm', base, e, c, net)
  BY <1>0, <1>4
<1>. QED BY <1>0, <1>2, <1>5 DEF RanFields, Relabels

\* The compiler's window closes with what it opened with, and its carves stay
\* below the budget: what load_chunk lets through is no more than the headroom.
LEMMA WindowFacts ==
    ASSUME PoolInv, vm_fatal = FALSE, NEW staged \in Nat, NEW fresh \in Nat, NEW taken \in Nat,
           NEW len \in Nat, NEW o,
           o # "oom" => cpool.carved + staged <= PoolBudget /\ o \in LoadOutcomes(staged, len),
           fresh <= taken, taken <= Want(len), Window(staged, o, fresh, taken)
    PROVE  /\ PoolInv' /\ vm_fatal' = FALSE
           /\ Compiles(o) => window'.peak = taken
<1>1. /\ cpool \in [carved : Nat, live : Nat] /\ cpool.carved <= PoolBudget /\ PoolBudget \in Nat
      /\ window \in [live : Int, peak : Int] /\ window.live = 0
  BY VmAssumption DEF PoolInv
<1>2. Want(len) \in Nat
  BY VmAssumption DEF Want
<1>3. CASE Compiles(o)
  <2>1. o # "oom" /\ o # "headroom"
    BY <1>3 DEF Compiles
  <2>2. cpool.carved + staged <= PoolBudget /\ ~(Headroom(staged) < Want(len))
    BY <2>1 DEF LoadOutcomes
  <2>3. cpool.carved + staged + fresh <= PoolBudget
    BY <1>1, <1>2, <2>2 DEF Headroom
  <2>4. cpool' = [cpool EXCEPT !.carved = cpool.carved + staged + fresh] /\ window' = Compile(taken)
        /\ vm_fatal' = (cpool.carved + staged + fresh > PoolBudget)
    BY <1>1, <1>3 DEF Window
  <2>5. Compile(taken) = [live |-> 0, peak |-> taken]
    BY DEF Compile, VendorFree, VendorAlloc, Installed
  <2>6. vm_fatal' = FALSE
    <3>. DEFINE over == cpool.carved + staged + fresh > PoolBudget
    <3>1. vm_fatal' = over
      BY <2>4
    <3>2. ~over
      BY <1>1, <2>3
    <3>. HIDE DEF over
    <3>. QED BY <3>1, <3>2
  <2>7. PoolInv'
    BY <1>1, <2>3, <2>4, <2>5 DEF PoolInv
  <2>. QED BY <2>4, <2>5, <2>6, <2>7
<1>4. CASE ~Compiles(o)
  <2>1. UNCHANGED <<window, vm_fatal>>
        /\ cpool' = [cpool EXCEPT !.carved = IF o = "oom" THEN cpool.carved ELSE cpool.carved + staged]
    BY <1>1, <1>4 DEF Window
  <2>2. PoolInv'
    BY <1>1, <2>1 DEF PoolInv
  <2>. QED BY <1>4, <2>1, <2>2
<1>. QED BY <1>3, <1>4

\* The counter of safepoints left is the budget less those passed, until it trips.
LEMMA BudgetKept ==
    ASSUME VmTypes, BudgetInv, vm.state = "live", NEW p \in Scripts, NEW o, RanFields(o, p),
           IF o = "ok" THEN RunsScript(p) ELSE UNCHANGED tick
    PROVE  /\ tick' \in [steps : Nat, raised : Int, late : BOOLEAN]
           /\ BudgetInv'
<1>. DEFINE n == p.safepoints
            B == BudgetSafepoints
            t == tick.steps
            l == vm.left
<1>1. n \in Nat /\ p.catches \in BOOLEAN /\ B \in Nat /\ t \in Nat /\ tick.raised \in Int
      /\ tick \in [steps : Nat, raised : Int, late : BOOLEAN] /\ vm.warned \in BOOLEAN
  BY VmAssumption DEF VmTypes, VmType, Scripts
<1>2. /\ l = (IF t <= B THEN B - t ELSE -1)
      /\ tick.raised = (IF t > B /\ vm.kind # "ui" THEN 1 ELSE 0)
      /\ vm.warned <=> (t > B /\ vm.kind = "ui")
  BY DEF BudgetInv
<1>3. vm'.state = vm.state /\ vm'.kind = vm.kind /\ vm'.warned \in BOOLEAN
  BY DEF RanFields, VmType
<1>4. CASE o # "ok"
  <2>1. tick' = tick /\ vm'.left = l /\ (vm'.warned <=> vm.warned)
    BY <1>4 DEF RanFields
  <2>. HIDE DEF t, B, l
  <2>2. vm'.warned = (t > B /\ vm.kind = "ui")
    BY <1>2, <1>3, <2>1
  <2>. QED BY <1>1, <1>2, <1>3, <2>1, <2>2 DEF BudgetInv, t, B, l
<1>5. CASE o = "ok"
  <2>. DEFINE d == Passed(p)
              up == IF Raises(n) THEN 1 ELSE 0
  <2>1. /\ vm'.left = LeftAfter(l, n)
        /\ vm'.warned <=> (vm.warned \/ (vm.kind = "ui" /\ Trips(l, n)))
    BY <1>5 DEF RanFields
  <2>2. /\ Trips(l, n) <=> (t <= B /\ t + n > B)
        /\ Raises(n) <=> (t <= B /\ t + n > B /\ vm.kind # "ui")
    BY <1>1, <1>2 DEF Trips, Raises
  <2>3. d \in Nat /\ (d = n \/ (d = l + 1 /\ Trips(l, n)))
    BY <1>1, <1>2, <2>2 DEF Passed, Stopped
  <2>4. t + d > B <=> t + n > B
    BY <1>1, <1>2, <2>2, <2>3
  <2>5. ~(t + n > B) => d = n
    BY <2>2, <2>3
  <2>6. tick' = [steps |-> t + d, raised |-> tick.raised + up,
                 late |-> tick.late \/ ((Writes(p) \/ Defines(p)) /\ ~vm.init_open)]
    BY <1>5 DEF RunsScript
  <2>7. up \in Int /\ (up = 1 <=> Raises(n)) /\ (up = 0 <=> ~Raises(n))
    OBVIOUS
  <2>. HIDE DEF d, up
  <2>8. tick'.steps = t + d /\ tick'.raised = tick.raised + up
        /\ tick' \in [steps : Nat, raised : Int, late : BOOLEAN]
    BY <1>1, <2>3, <2>6, <2>7
  <2>9. vm'.left = (IF t + d <= B THEN B - (t + d) ELSE -1)
    <3>1. CASE t > B
      <4>1. l = -1 /\ vm'.left = -1
        BY <1>1, <1>2, <2>1, <3>1 DEF LeftAfter
      <4>. QED BY <1>1, <2>3, <3>1, <4>1
    <3>2. CASE t <= B /\ t + n > B
      <4>1. l = B - t /\ vm'.left = -1
        BY <1>1, <1>2, <2>1, <3>2 DEF LeftAfter
      <4>. QED BY <1>1, <2>3, <2>4, <3>2, <4>1
    <3>3. CASE t + n <= B
      <4>1. l = B - t /\ vm'.left = l - n
        BY <1>1, <1>2, <2>1, <3>3 DEF LeftAfter
      <4>. QED BY <1>1, <2>5, <3>3, <4>1
    <3>. QED BY <1>1, <3>1, <3>2, <3>3
  <2>10. tick.raised + up = (IF t + d > B /\ vm.kind # "ui" THEN 1 ELSE 0)
    BY <1>1, <1>2, <2>2, <2>3, <2>4, <2>7
  <2>11. vm'.warned <=> (t + d > B /\ vm.kind = "ui")
    <3>1. t > B => t + d > B
      BY <1>1, <2>3
    <3>2. t <= B \/ t > B
      BY <1>1
    <3>. QED BY <1>2, <2>1, <2>2, <2>4, <3>1, <3>2
  <2>. HIDE DEF t, B
  <2>12. vm'.warned = (t + d > B /\ vm.kind = "ui")
    BY <1>3, <2>11
  <2>. QED BY <1>3, <2>8, <2>9, <2>10, <2>12 DEF BudgetInv, t, B
<1>. QED BY <1>4, <1>5

\* What a sealed VM lets a chunk write is nothing it can reach.
LEMMA SealKept ==
    ASSUME VmTypes, SealInv, vm.state = "live", NEW p \in Scripts, NEW o, RanFields(o, p),
           IF o = "ok" THEN RunsScript(p) ELSE UNCHANGED tick
    PROVE  SealInv'
<1>1. /\ vm.names \subseteq SandboxNames(vm.kind) \cup {"mine"}
      /\ ~vm.init_open => Reachable(vm.names) \subseteq vm.readonly
      /\ ~tick.late
  BY DEF SealInv
<1>2. ~vm.init_open => ~Writes(p) /\ ~Defines(p)
  BY <1>1 DEF Writes, Defines, Reachable
<1>3. ~tick'.late
  <2>1. CASE o = "ok"
    <3>. DEFINE now == tick.late \/ ((Writes(p) \/ Defines(p)) /\ ~vm.init_open)
    <3>1. tick'.late = now
      BY <2>1 DEF RunsScript
    <3>2. ~now
      BY <1>1, <1>2
    <3>. QED BY <3>1, <3>2
  <2>2. CASE o # "ok"
    BY <1>1, <2>2
  <2>. QED BY <2>1, <2>2
<1>4. /\ vm'.kind = vm.kind /\ vm'.init_open = vm.init_open /\ vm'.readonly = vm.readonly
      /\ vm'.names \in {vm.names, vm.names \cup {"mine"}}
      /\ ~vm.init_open => vm'.names = vm.names
  BY <1>2 DEF RanFields
<1>. HIDE DEF SandboxNames, Reachable
<1>5. vm'.names \subseteq SandboxNames(vm.kind) \cup {"mine"}
  <2>1. CASE vm'.names = vm.names
    BY <1>1, <2>1
  <2>2. CASE vm'.names = vm.names \cup {"mine"}
    BY <1>1, <2>2
  <2>. QED BY <1>4, <2>1, <2>2
<1>6. ~vm'.init_open => Reachable(vm'.names) \subseteq vm'.readonly
  <2>. SUFFICES ASSUME ~vm.init_open PROVE Reachable(vm'.names) \subseteq vm'.readonly
    BY <1>4
  <2>1. vm'.names = vm.names /\ vm'.readonly = vm.readonly
    BY <1>4
  <2>. QED BY <1>1, <2>1
<1>. QED BY <1>3, <1>4, <1>5, <1>6 DEF SealInv

\* ---- the calls ----

LEMMA SourceFields ==
    ASSUME VmTypes, NEW len, NEW o, NEW fresh, NEW taken \in Int, NEW p \in Scripts,
           RunSource(len, o, fresh, taken, p), Compiles(o) => window'.peak \in Int
    PROVE  /\ RanFields(o, p) /\ vm'.err = answered'.failed
           /\ answered' \in [failed : BOOLEAN, bytes : Int]
           /\ answered'.bytes = (IF Compiles(o) THEN taken ELSE answered.bytes)
<1>. DEFINE e == o # "ok" \/ Fails(p)
            c == IF Compiles(o) THEN window'.peak ELSE vm.compiled
            base == IF o = "ok" THEN AfterScript(p) ELSE vm
            net == base.stack + 1 + LoadNet(o) - 1
                     + (IF o = "ok" THEN PcallNet(Fails(p), 0) ELSE 0)
                     + (IF o = "ok" /\ Fails(p) THEN TakeErrorNet ELSE 0)
            b == IF Compiles(o) THEN taken ELSE answered.bytes
<1>1. vm \in VmType /\ vm.stack \in Int /\ vm.compiled \in Int /\ answered.bytes \in Int
  BY DEF VmTypes, VmType
<1>2. c \in Int /\ b \in Int /\ e \in BOOLEAN
  BY <1>1
<1>3. base.stack = vm.stack /\ base.compiled = vm.compiled
  BY ScriptFields
<1>4. net = vm.stack
  <2>1. CASE o = "ok"
    <3>1. LoadNet(o) = 1
      BY <2>1 DEF LoadNet
    <3>. QED BY <1>1, <1>3, <2>1, <3>1 DEF PcallNet, TakeErrorNet
  <2>2. CASE o # "ok"
    <3>1. LoadNet(o) = 0
      BY <2>2 DEF LoadNet, TakeErrorNet
    <3>. QED BY <1>1, <1>3, <2>2, <3>1
  <2>. QED BY <2>1, <2>2
<1>5. vm' = [base EXCEPT !.err = e, !.compiled = c, !.stack = net]
  <2>1. vm' = [base EXCEPT !.err = e,
                           !.compiled = (IF Compiles(o) THEN window'.peak ELSE base.compiled),
                           !.stack = net]
    BY DEF RunSource
  <2>. QED BY <1>3, <2>1
<1>6. answered' = [failed |-> e, bytes |-> b]
  BY DEF RunSource
<1>. HIDE DEF e, net, b, base
<1>7. net \in Int
  BY <1>1, <1>4
<1>8. CallResult(o, p, e, c, net)
  BY <1>4, <1>5 DEF CallResult, base
<1>. HIDE DEF c
<1>10. RanFields(o, p) /\ vm'.err = e
  BY <1>2, <1>7, <1>8, CallFields
<1>9. answered'.failed = e /\ answered'.bytes = b /\ answered' \in [failed : BOOLEAN, bytes : Int]
  BY <1>2, <1>6
<1>. QED BY <1>9, <1>10 DEF b

LEMMA EvalFields ==
    ASSUME VmTypes, NEW len, NEW staged, NEW o, NEW fresh, NEW taken \in Int, NEW p \in Scripts,
           NEW v, NEW want_int, Eval(len, staged, o, fresh, taken, p, v, want_int),
           Compiles(o) => window'.peak \in Int
    PROVE  /\ RanFields(o, p) /\ vm'.err = answered'.failed
           /\ answered' \in [failed : BOOLEAN, bytes : Int]
           /\ answered'.bytes = (IF Compiles(o) THEN taken ELSE answered.bytes)
<1>. DEFINE e == o # "ok" \/ EvalFails(p, v, want_int)
            c == IF Compiles(o) THEN window'.peak ELSE vm.compiled
            base == IF o = "ok" THEN AfterScript(p) ELSE vm
            net == base.stack + 1 + LoadNet(o) - 1
                     + (IF o = "ok" THEN PcallNet(Fails(p), 1) - 1 ELSE 0)
            b == IF Compiles(o) THEN taken ELSE answered.bytes
<1>1. vm \in VmType /\ vm.stack \in Int /\ vm.compiled \in Int /\ answered.bytes \in Int
  BY DEF VmTypes, VmType
<1>2. c \in Int /\ b \in Int /\ e \in BOOLEAN
  BY <1>1
<1>3. base.stack = vm.stack /\ base.compiled = vm.compiled
  BY ScriptFields
<1>4. net = vm.stack
  <2>1. CASE o = "ok"
    <3>1. LoadNet(o) = 1 /\ PcallNet(Fails(p), 1) = 0
      BY <2>1 DEF LoadNet, PcallNet
    <3>. QED BY <1>1, <1>3, <2>1, <3>1
  <2>2. CASE o # "ok"
    <3>1. LoadNet(o) = 0
      BY <2>2 DEF LoadNet, TakeErrorNet
    <3>. QED BY <1>1, <1>3, <2>2, <3>1
  <2>. QED BY <2>1, <2>2
<1>5. vm' = [base EXCEPT !.err = e, !.compiled = c, !.stack = net]
  <2>1. vm' = [base EXCEPT !.err = e,
                           !.compiled = (IF Compiles(o) THEN window'.peak ELSE base.compiled),
                           !.stack = net]
    BY DEF Eval
  <2>. QED BY <1>3, <2>1
<1>6. answered' = [failed |-> e, bytes |-> b]
  BY DEF Eval
<1>. HIDE DEF e, net, b, base
<1>7. net \in Int
  BY <1>1, <1>4
<1>8. CallResult(o, p, e, c, net)
  BY <1>4, <1>5 DEF CallResult, base
<1>. HIDE DEF c
<1>10. RanFields(o, p) /\ vm'.err = e
  BY <1>2, <1>7, <1>8, CallFields
<1>9. answered'.failed = e /\ answered'.bytes = b /\ answered' \in [failed : BOOLEAN, bytes : Int]
  BY <1>2, <1>6
<1>. QED BY <1>9, <1>10 DEF b

\* What either call keeps.
LEMMA RunKeeps ==
    ASSUME VmIInv, Live, NEW o, NEW p \in Scripts, NEW taken,
           RanFields(o, p), IF o = "ok" THEN RunsScript(p) ELSE UNCHANGED tick,
           vm'.err = answered'.failed, answered' \in [failed : BOOLEAN, bytes : Int],
           answered'.bytes = (IF Compiles(o) THEN taken ELSE answered.bytes),
           PoolInv', vm_fatal' = FALSE, Compiles(o) => window'.peak = taken,
           RegistryInv', atom_interner' = atom_interner
    PROVE  VmIInv'
<1>1. VmTypes /\ BudgetInv /\ SealInv /\ CallsBalance /\ AnswersAreFresh /\ OneNumbering
      /\ vm.state = "live" /\ vm_fatal = FALSE
  BY DEF VmIInv, Live, VmTypes
<1>2. tick' \in [steps : Nat, raised : Int, late : BOOLEAN] /\ BudgetInv'
  BY <1>1, BudgetKept
<1>3. SealInv'
  BY <1>1, SealKept
<1>4. VmTypes'
  BY <1>1, <1>2 DEF VmTypes, RanFields
<1>5. CallsBalance'
  BY <1>1 DEF CallsBalance, RanFields
<1>6. vm'.compiled = answered'.bytes
  BY <1>1 DEF AnswersAreFresh, RanFields
<1>7. AnswersAreFresh'
  BY <1>6 DEF AnswersAreFresh
<1>8. OneNumbering'
  BY <1>1 DEF OneNumbering, RanFields
<1>. QED BY <1>2, <1>3, <1>4, <1>5, <1>7, <1>8 DEF VmIInv

LEMMA RunSourceKeeps ==
    ASSUME VmIInv, NEW len \in Nat, NEW o, NEW fresh \in Nat, NEW taken \in Nat, fresh <= taken,
           NEW p \in Scripts, RunSource(len, o, fresh, taken, p), o # "oom"
    PROVE  VmIInv'
<1>1. /\ VmTypes /\ PoolInv /\ RegistryInv /\ Live /\ vm_fatal = FALSE
      /\ o \in LoadOutcomes(0, len) /\ taken <= Want(len) /\ Window(0, o, fresh, taken)
      /\ IF o = "ok" THEN RunsScript(p) ELSE UNCHANGED tick
      /\ UNCHANGED <<registry, atom_interner, held, lost>>
  BY DEF VmIInv, VmTypes, RunSource, Live
<1>2. cpool.carved + 0 <= PoolBudget
  BY <1>1 DEF PoolInv
<1>3. PoolInv' /\ vm_fatal' = FALSE /\ (Compiles(o) => window'.peak = taken)
  BY <1>1, <1>2, WindowFacts
<1>4. /\ RanFields(o, p) /\ vm'.err = answered'.failed
      /\ answered' \in [failed : BOOLEAN, bytes : Int]
      /\ answered'.bytes = (IF Compiles(o) THEN taken ELSE answered.bytes)
  BY <1>1, <1>3, SourceFields
<1>5. RegistryInv' /\ atom_interner' = atom_interner
  BY <1>1 DEF RegistryInv
<1>. QED BY <1>1, <1>3, <1>4, <1>5, RunKeeps

\* What a caller is handed is pinned, under a reference no other caller has.
LEMMA HandedOver ==
    ASSUME RegistryInv, NEW new, NEW more, RegistryOK(new),
           Pinned(new) = Pinned(registry) \cup more,
           \A h \in more : \A g \in Pinned(registry) : g.ref # h.ref, registry' = new,
           \/ held' = held \cup more /\ lost' = lost
           \/ held' = held /\ lost' = lost \cup more
    PROVE  RegistryInv'
<1>1. Pinned(registry) = held \cup lost /\ held \cap lost = {}
  BY DEF RegistryInv, HoldersOK
<1>2. more \cap (held \cup lost) = {}
  BY <1>1
<1>3. Pinned(new) = held' \cup lost' /\ held' \cap lost' = {}
  BY <1>1, <1>2
<1>. QED BY <1>3 DEF RegistryInv, HoldersOK

LEMMA EvalKeeps ==
    ASSUME VmIInv, NEW len \in Nat, NEW staged \in Nat, NEW o, NEW fresh \in Nat,
           NEW taken \in Nat, fresh <= taken, NEW p \in Scripts, NEW v \in Values, NEW want_int,
           Eval(len, staged, o, fresh, taken, p, v, want_int)
    PROVE  VmIInv'
<1>1. /\ VmTypes /\ PoolInv /\ RegistryInv /\ Live /\ vm_fatal = FALSE
      /\ o \in EvalOutcomes(staged, len) /\ taken <= Want(len) /\ Window(staged, o, fresh, taken)
      /\ IF o = "ok" THEN RunsScript(p) ELSE UNCHANGED tick
      /\ UNCHANGED <<atom_interner, lost>>
  BY DEF VmIInv, VmTypes, Eval, Live
<1>2. o # "oom" => cpool.carved + staged <= PoolBudget /\ o \in LoadOutcomes(staged, len)
  BY <1>1 DEF EvalOutcomes
<1>3. PoolInv' /\ vm_fatal' = FALSE /\ (Compiles(o) => window'.peak = taken)
  BY <1>1, <1>2, WindowFacts
<1>4. /\ RanFields(o, p) /\ vm'.err = answered'.failed
      /\ answered' \in [failed : BOOLEAN, bytes : Int]
      /\ answered'.bytes = (IF Compiles(o) THEN taken ELSE answered.bytes)
  BY <1>1, <1>3, EvalFields
<1>5. RegistryInv'
  <2>1. CASE o = "ok" /\ ~Fails(p) /\ ~want_int
    <3>1. registry' = Convert(registry, v) /\ held' = held \cup Handed(registry, v)
      BY <2>1 DEF Eval
    <3>2. RegistryOK(registry)
      BY <1>1 DEF RegistryInv
    <3>3. /\ RegistryOK(Convert(registry, v))
          /\ Pinned(Convert(registry, v)) = Pinned(registry) \cup Handed(registry, v)
          /\ \A h \in Handed(registry, v) : \A g \in Pinned(registry) : g.ref # h.ref
      BY <3>2, ConvertAdds
    <3>. QED BY <1>1, <3>1, <3>3, HandedOver
  <2>2. CASE ~(o = "ok" /\ ~Fails(p) /\ ~want_int)
    <3>1. UNCHANGED <<registry, held>>
      BY <2>2 DEF Eval
    <3>. QED BY <1>1, <3>1 DEF RegistryInv
  <2>. QED BY <2>1, <2>2
<1>. QED BY <1>1, <1>3, <1>4, <1>5, RunKeeps

\* A VM that is not there.
LEMMA NoVmFields ==
    ASSUME NEW st \in {"none", "dead"}, NEW w, w = [NoVm EXCEPT !.state = st]
    PROVE  w \in VmType /\ w.state = st /\ w.stack = 0 /\ w.reserve = FALSE /\ w.atoms = "none"
<1>1. NoVm \in VmType /\ NoVm.stack = 0 /\ NoVm.reserve = FALSE /\ NoVm.atoms = "none"
  BY DEF NoVm, VmType
<1>2. st \in {"none", "live", "dead"}
  OBVIOUS
<1>. HIDE DEF NoVm
<1>. QED BY <1>1, <1>2 DEF VmType

LEMMA EmptyRegistry == RegistryOK(NoRefs) /\ HoldersOK(NoRefs, {}, {})
<1>1. NoRefs = [slots |-> <<>>, free |-> <<>>] /\ NoRefs.slots = <<>> /\ NoRefs.free = <<>>
  BY DEF NoRefs
<1>2. <<>> \in Seq(Tables \cup {"free"}) /\ <<>> \in Seq(Nat) /\ Len(<<>>) = 0
  OBVIOUS
<1>. QED BY <1>1, <1>2 DEF RegistryOK, HoldersOK, Pinned

LEMMA InitVmIInv == SInit => VmIInv
<1>. SUFFICES ASSUME SInit PROVE VmIInv
  OBVIOUS
<1>1. vm = [NoVm EXCEPT !.state = "none"]
  BY DEF SInit, NoVm
<1>2. vm \in VmType /\ vm.state = "none" /\ vm.stack = 0 /\ vm.reserve = FALSE /\ vm.atoms = "none"
  BY <1>1, NoVmFields
<1>3. VmTypes
  <2>1. tick = [steps |-> 0, raised |-> 0, late |-> FALSE]
        /\ answered = [failed |-> FALSE, bytes |-> 0] /\ atom_interner = "none" /\ vm_fatal = FALSE
    BY DEF SInit
  <2>2. tick \in [steps : Nat, raised : Int, late : BOOLEAN]
        /\ answered \in [failed : BOOLEAN, bytes : Int]
    BY <2>1
  <2>. QED BY <1>2, <2>1, <2>2 DEF VmTypes
<1>4. RegistryInv
  BY EmptyRegistry DEF SInit, RegistryInv
<1>5. PoolInv
  BY VmAssumption DEF SInit, PoolInv, Installed
<1>. QED BY <1>2, <1>3, <1>4, <1>5
       DEF SInit, VmIInv, SealInv, CallsBalance, BudgetInv, AnswersAreFresh, OneNumbering

\* Outside a VM's life only its types and the shared state matter.
LEMMA GoneKeeps ==
    ASSUME VmIInv, NEW st \in {"none", "dead"}, vm' = [NoVm EXCEPT !.state = st],
           RegistryInv', atom_interner' \in Interners \cup {"none"}, vm_fatal' \in BOOLEAN,
           answered' \in [failed : BOOLEAN, bytes : Int], UNCHANGED <<cpool, window, tick>>
    PROVE  VmIInv'
<1>1. /\ vm' \in VmType /\ vm'.state = st /\ vm'.stack = 0 /\ vm'.reserve = FALSE
      /\ vm'.atoms = "none"
  BY NoVmFields
<1>2. VmTypes' /\ PoolInv' /\ ~tick'.late
  BY <1>1 DEF VmIInv, VmTypes, PoolInv, SealInv
<1>. QED BY <1>1, <1>2
       DEF VmIInv, SealInv, CallsBalance, BudgetInv, AnswersAreFresh, OneNumbering

LEMMA AtomsFacts ==
    ASSUME VmTypes, NEW in \in Interners \cup {"none"}, InstallAtoms(in)
    PROVE  /\ atom_interner' \in Interners \cup {"none"} /\ vm_fatal' \in BOOLEAN
           /\ in # "none" /\ vm_fatal' = FALSE => atom_interner' = in
<1>. DEFINE two == in # "none" /\ atom_interner \notin {"none", in}
<1>1. atom_interner \in Interners \cup {"none"}
  BY DEF VmTypes
<1>2. vm_fatal' = two
        /\ atom_interner' = (IF in = "none" \/ atom_interner # "none" THEN atom_interner ELSE in)
  BY DEF InstallAtoms
<1>3. two \in BOOLEAN
  OBVIOUS
<1>4. ~two /\ in # "none" => atom_interner' = in
  BY <1>2
<1>5. atom_interner' \in Interners \cup {"none"}
  BY <1>1, <1>2
<1>. HIDE DEF two
<1>. QED BY <1>2, <1>3, <1>4, <1>5

LEMMA DestroyKeeps ==
    ASSUME VmIInv, Destroy
    PROVE  VmIInv'
<1>1. answered' \in [failed : BOOLEAN, bytes : Int] /\ vm_fatal' \in BOOLEAN
      /\ atom_interner' \in Interners \cup {"none"}
  BY DEF Destroy, VmIInv, VmTypes
<1>2. RegistryInv'
  BY EmptyRegistry DEF Destroy, RegistryInv
<1>3. vm' = [NoVm EXCEPT !.state = "dead"] /\ UNCHANGED <<cpool, window, tick>>
  BY DEF Destroy
<1>. QED BY <1>1, <1>2, <1>3, GoneKeeps

LEMMA CreateFailsKeeps ==
    ASSUME VmIInv, NEW step, NEW in \in Interners \cup {"none"}, CreateFails(step, in)
    PROVE  VmIInv'
<1>1. VmTypes
  BY DEF VmIInv
<1>2. answered' \in [failed : BOOLEAN, bytes : Int] /\ UNCHANGED <<cpool, window, tick>>
  BY <1>1 DEF CreateFails, VmTypes
<1>3. RegistryInv'
  BY DEF CreateFails, VmIInv, RegistryInv
<1>4. atom_interner' \in Interners \cup {"none"} /\ vm_fatal' \in BOOLEAN
  <2>1. CASE step = "sandbox"
    BY <1>1, <2>1, AtomsFacts DEF CreateFails
  <2>2. CASE step # "sandbox"
    BY <1>1, <2>2 DEF CreateFails, VmTypes
  <2>. QED BY <2>1, <2>2
<1>5. vm' = [NoVm EXCEPT !.state = "none"]
  <2>. DEFINE kept == ReservedAt(step) /\ ~ReleasedAt(step)
  <2>1. vm' = [NoVm EXCEPT !.reserve = kept]
    BY DEF CreateFails
  <2>2. kept = FALSE
    BY DEF ReservedAt, ReleasedAt
  <2>. HIDE DEF kept
  <2>3. vm' = [state |-> "none", kind |-> "sim", reserve |-> FALSE, stack |-> 0,
               init_open |-> FALSE, names |-> {}, readonly |-> {}, left |-> 0, warned |-> FALSE,
               err |-> FALSE, atoms |-> "none", compiled |-> 0, last_reachable |-> 0,
               growth_ticks |-> 0]
    BY <2>1, <2>2 DEF NoVm
  <2>. QED BY <2>3 DEF NoVm
<1>. QED BY <1>2, <1>3, <1>4, <1>5, GoneKeeps

LEMMA CreateKeeps ==
    ASSUME VmIInv, NEW kind \in Kinds, NEW in \in Interners \cup {"none"}, Create(kind, in)
    PROVE  VmIInv'
<1>1. VmTypes /\ PoolInv /\ kind \in {"sim", "ui", "data"} /\ BudgetSafepoints \in Nat
      /\ InstallAtoms(in)
  BY VmAssumption DEF VmIInv, Create
<1>2. SandboxNames(kind) \in SUBSET AllNames /\ {"fx"} \in SUBSET AllTables
  BY <1>1, NamesFacts DEF AllTables
<1>3. vm' = [NoVm EXCEPT
                !.state = "live", !.kind = kind, !.reserve = TRUE, !.init_open = TRUE,
                !.left = BudgetSafepoints, !.names = SandboxNames(kind), !.readonly = {"fx"},
                !.atoms = in]
  BY DEF Create
<1>. HIDE DEF SandboxNames
<1>4. vm' = [state |-> "live", kind |-> kind, reserve |-> TRUE, stack |-> 0, init_open |-> TRUE,
             names |-> SandboxNames(kind), readonly |-> {"fx"}, left |-> BudgetSafepoints,
             warned |-> FALSE, err |-> FALSE, atoms |-> in, compiled |-> 0,
             last_reachable |-> 0, growth_ticks |-> 0]
  BY <1>3 DEF NoVm
<1>5. /\ vm' \in VmType
      /\ vm'.state = "live" /\ vm'.kind = kind /\ vm'.reserve = TRUE /\ vm'.stack = 0
      /\ vm'.init_open = TRUE /\ vm'.names = SandboxNames(kind) /\ vm'.left = BudgetSafepoints
      /\ vm'.warned = FALSE /\ vm'.err = FALSE /\ vm'.atoms = in /\ vm'.compiled = 0
  BY <1>1, <1>2, <1>4 DEF VmType
<1>6. /\ tick' = [steps |-> 0, raised |-> 0, late |-> FALSE]
      /\ answered' = [answered EXCEPT !.failed = FALSE, !.bytes = 0]
      /\ UNCHANGED <<cpool, window>>
  BY DEF Create
<1>7. /\ answered' \in [failed : BOOLEAN, bytes : Int] /\ answered'.failed = FALSE
      /\ answered'.bytes = 0
  <2>1. answered \in [failed : BOOLEAN, bytes : Int]
    BY <1>1 DEF VmTypes
  <2>2. answered' = [failed |-> FALSE, bytes |-> 0]
    BY <1>6, <2>1
  <2>. QED BY <2>2
<1>8. tick' \in [steps : Nat, raised : Int, late : BOOLEAN] /\ tick'.steps = 0
      /\ tick'.raised = 0 /\ tick'.late = FALSE
  BY <1>6
<1>9. /\ atom_interner' \in Interners \cup {"none"} /\ vm_fatal' \in BOOLEAN
      /\ in # "none" /\ vm_fatal' = FALSE => atom_interner' = in
  BY <1>1, AtomsFacts
<1>10. RegistryInv'
  BY EmptyRegistry DEF Create, RegistryInv
<1>11. VmTypes' /\ PoolInv' /\ SealInv'
  BY <1>1, <1>5, <1>6, <1>7, <1>8, <1>9 DEF VmTypes, PoolInv, SealInv
<1>12. BudgetInv'
  <2>1. 0 <= BudgetSafepoints /\ BudgetSafepoints - 0 = BudgetSafepoints /\ ~(0 > BudgetSafepoints)
    BY <1>1
  <2>. QED BY <1>5, <1>8, <2>1 DEF BudgetInv
<1>13. CallsBalance' /\ AnswersAreFresh' /\ OneNumbering'
  BY <1>5, <1>7, <1>9 DEF CallsBalance, AnswersAreFresh, OneNumbering
<1>. QED BY <1>10, <1>11, <1>12, <1>13 DEF VmIInv

\* A call that leaves budget, names, atoms and what is compiled alone.
LEMMA CallKeeps ==
    ASSUME VmIInv, Live, vm' \in VmType, vm'.state = vm.state, vm'.kind = vm.kind,
           vm'.reserve = vm.reserve, vm'.stack = vm.stack, vm'.left = vm.left,
           vm'.warned = vm.warned, vm'.names = vm.names, vm'.atoms = vm.atoms,
           vm'.compiled = vm.compiled, vm'.err = answered'.failed,
           answered' \in [failed : BOOLEAN, bytes : Int], answered'.bytes = answered.bytes,
           ~vm'.init_open => Reachable(vm'.names) \subseteq vm'.readonly,
           RegistryInv', UNCHANGED <<cpool, window, atom_interner, vm_fatal, tick>>
    PROVE  VmIInv'
<1>1. VmTypes' /\ PoolInv' /\ SealInv'
  BY DEF VmIInv, VmTypes, PoolInv, SealInv, Live
<1>2. BudgetInv'
  BY DEF VmIInv, BudgetInv
<1>3. CallsBalance' /\ AnswersAreFresh' /\ OneNumbering'
  BY DEF VmIInv, CallsBalance, AnswersAreFresh, OneNumbering, Live
<1>. QED BY <1>1, <1>2, <1>3 DEF VmIInv

LEMMA SealKeeps ==
    ASSUME VmIInv, Seal
    PROVE  VmIInv'
<1>1. vm \in VmType /\ VmTypes /\ Live /\ RegistryInv
  BY DEF VmIInv, VmTypes, Seal
<1>2. Frozen(vm.names) \in SUBSET AllTables
  BY <1>1, NamesFacts DEF Frozen, VmType
<1>3. /\ answered' = [answered EXCEPT !.failed = ~vm.init_open]
      /\ UNCHANGED <<registry, cpool, window, atom_interner, vm_fatal, held, lost, tick>>
  BY DEF Seal
<1>4. answered' \in [failed : BOOLEAN, bytes : Int] /\ answered'.bytes = answered.bytes
      /\ (answered'.failed <=> ~vm.init_open)
  BY <1>1, <1>3 DEF VmTypes
<1>5. RegistryInv'
  BY <1>1, <1>3 DEF RegistryInv
<1>6. /\ vm' \in VmType /\ vm'.state = vm.state /\ vm'.kind = vm.kind
      /\ vm'.reserve = vm.reserve /\ vm'.stack = vm.stack /\ vm'.left = vm.left
      /\ vm'.warned = vm.warned /\ vm'.names = vm.names /\ vm'.atoms = vm.atoms
      /\ vm'.compiled = vm.compiled
      /\ (vm'.err <=> ~vm.init_open)
      /\ ~vm'.init_open => Reachable(vm'.names) \subseteq vm'.readonly
  <2>1. CASE ~vm.init_open
    <3>1. vm' = [vm EXCEPT !.err = TRUE]
      BY <2>1 DEF Seal
    <3>2. ~vm.init_open => Reachable(vm.names) \subseteq vm.readonly
      BY <1>1 DEF VmIInv, SealInv, Live
    <3>. QED BY <1>1, <2>1, <3>1, <3>2 DEF VmType
  <2>2. CASE vm.init_open
    <3>. DEFINE ro == vm.readonly \cup Frozen(vm.names)
    <3>1. vm' = [vm EXCEPT !.err = FALSE, !.init_open = FALSE, !.readonly = ro]
      BY <2>2 DEF Seal
    <3>2. ro \in SUBSET AllTables /\ Reachable(vm.names) \subseteq ro
      BY <1>1, <1>2 DEF VmType, Frozen
    <3>. HIDE DEF ro
    <3>3. vm'.readonly = ro /\ vm'.names = vm.names
      BY <1>1, <3>1 DEF VmType
    <3>4. /\ vm' \in VmType /\ vm'.state = vm.state /\ vm'.kind = vm.kind
          /\ vm'.reserve = vm.reserve /\ vm'.stack = vm.stack /\ vm'.left = vm.left
          /\ vm'.warned = vm.warned /\ vm'.atoms = vm.atoms
          /\ vm'.compiled = vm.compiled /\ vm'.err = FALSE
      BY <1>1, <3>1, <3>2 DEF VmType
    <3>. QED BY <2>2, <3>2, <3>3, <3>4
  <2>. QED BY <2>1, <2>2
<1>7. vm'.err = answered'.failed
  <2>1. vm'.err \in BOOLEAN /\ answered'.failed \in BOOLEAN
    BY <1>4, <1>6 DEF VmType
  <2>. QED BY <1>4, <1>6, <2>1
<1>. QED BY <1>1, <1>3, <1>4, <1>5, <1>6, <1>7, CallKeeps

\* A call that moves nothing of the VM but its error.
LEMMA TableCallKeeps ==
    ASSUME VmIInv, Live, NEW e \in BOOLEAN, NEW net \in Int, net = vm.stack,
           vm' = [vm EXCEPT !.err = e, !.stack = net],
           answered' = [answered EXCEPT !.failed = e],
           RegistryInv', UNCHANGED <<cpool, window, atom_interner, vm_fatal, tick>>
    PROVE  VmIInv'
<1>1. vm \in VmType /\ answered \in [failed : BOOLEAN, bytes : Int]
      /\ (~vm.init_open => Reachable(vm.names) \subseteq vm.readonly)
  BY DEF VmIInv, VmTypes, SealInv, Live
<1>2. /\ vm' \in VmType /\ vm'.state = vm.state /\ vm'.kind = vm.kind
      /\ vm'.reserve = vm.reserve /\ vm'.stack = vm.stack /\ vm'.left = vm.left
      /\ vm'.warned = vm.warned /\ vm'.names = vm.names /\ vm'.atoms = vm.atoms
      /\ vm'.compiled = vm.compiled /\ vm'.readonly = vm.readonly
      /\ vm'.init_open = vm.init_open /\ vm'.err = e
  BY <1>1 DEF VmType
<1>3. /\ answered' \in [failed : BOOLEAN, bytes : Int] /\ answered'.failed = e
      /\ answered'.bytes = answered.bytes
  BY <1>1
<1>4. ~vm'.init_open => Reachable(vm'.names) \subseteq vm'.readonly
  BY <1>1, <1>2
<1>. QED BY <1>2, <1>3, <1>4, CallKeeps

LEMMA TableGetKeeps ==
    ASSUME VmIInv, NEW r, NEW v \in Values, TableGet(r, v)
    PROVE  VmIInv'
<1>. DEFINE e == ~IsTable(r) \/ v.kind = "bad"
            net == vm.stack + 1 + (IF IsTable(r) THEN 1 - 2 ELSE -1)
<1>1. /\ vm' = [vm EXCEPT !.err = e, !.stack = net] /\ answered' = [answered EXCEPT !.failed = e]
      /\ Live /\ UNCHANGED <<cpool, window, atom_interner, vm_fatal, lost, tick>>
  BY DEF TableGet
<1>2. e \in BOOLEAN /\ vm.stack \in Int /\ net \in Int /\ net = vm.stack
  BY DEF VmIInv, VmTypes, VmType
<1>3. RegistryInv'
  <2>1. RegistryInv /\ RegistryOK(registry)
    BY DEF VmIInv, RegistryInv
  <2>2. CASE IsTable(r)
    <3>1. registry' = Convert(registry, v) /\ held' = held \cup Handed(registry, v)
      BY <2>2 DEF TableGet
    <3>2. /\ RegistryOK(Convert(registry, v))
          /\ Pinned(Convert(registry, v)) = Pinned(registry) \cup Handed(registry, v)
          /\ \A h \in Handed(registry, v) : \A g \in Pinned(registry) : g.ref # h.ref
      BY <2>1, ConvertAdds
    <3>. QED BY <1>1, <2>1, <3>1, <3>2, HandedOver
  <2>3. CASE ~IsTable(r)
    <3>1. UNCHANGED <<registry, held>>
      BY <2>3 DEF TableGet
    <3>. QED BY <1>1, <2>1, <3>1 DEF RegistryInv
  <2>. QED BY <2>2, <2>3
<1>. HIDE DEF e, net
<1>. QED BY <1>1, <1>2, <1>3, TableCallKeeps

LEMMA TableNextKeeps ==
    ASSUME VmIInv, NEW r, NEW key, NEW more \in BOOLEAN, NEW k \in Values, NEW v \in Values,
           TableNext(r, key, more, k, v)
    PROVE  VmIInv'
<1>. DEFINE e == NextRefused(r, key) \/ (more /\ (k.kind # "plain" \/ v.kind = "bad"))
            net == vm.stack + NextStack(r, key, more)
<1>1. /\ vm' = [vm EXCEPT !.err = e, !.stack = net] /\ answered' = [answered EXCEPT !.failed = e]
      /\ Live /\ UNCHANGED <<cpool, window, atom_interner, vm_fatal, tick>>
  BY DEF TableNext
<1>2. NextStack(r, key, more) = 0
  BY DEF NextStack
<1>3. e \in BOOLEAN /\ vm.stack \in Int /\ net \in Int /\ net = vm.stack
  BY <1>2 DEF VmIInv, VmTypes, VmType
<1>4. RegistryInv'
  <2>1. RegistryInv /\ RegistryOK(registry)
    BY DEF VmIInv, RegistryInv
  <2>2. CASE NextRefused(r, key) \/ ~more
    <3>1. UNCHANGED <<registry, held, lost>>
      BY <2>2 DEF TableNext
    <3>. QED BY <2>1, <3>1 DEF RegistryInv
  <2>3. CASE ~(NextRefused(r, key) \/ ~more)
    <3>1. /\ registry' = NextPins(registry, k, v)
          /\ \/ held' = held \cup NextHands(registry, k, v) /\ lost' = lost
             \/ held' = held /\ lost' = lost \cup NextHands(registry, k, v)
      BY <2>3 DEF TableNext
    <3>2. /\ RegistryOK(NextPins(registry, k, v))
          /\ Pinned(NextPins(registry, k, v)) = Pinned(registry) \cup NextHands(registry, k, v)
          /\ \A h \in NextHands(registry, k, v) : \A g \in Pinned(registry) : g.ref # h.ref
      BY <2>1, NextAdds
    <3>. QED BY <2>1, <3>1, <3>2, HandedOver
  <2>. QED BY <2>2, <2>3
<1>. HIDE DEF e, net
<1>. QED BY <1>1, <1>3, <1>4, TableCallKeeps

\* What changes neither the VM nor the pool.
LEMMA ApartKeeps ==
    ASSUME VmIInv, UNCHANGED <<vm, atom_interner, vm_fatal, tick, answered>>, RegistryInv', PoolInv'
    PROVE  VmIInv'
<1>1. VmTypes' /\ SealInv'
  BY DEF VmIInv, VmTypes, SealInv
<1>2. BudgetInv' /\ CallsBalance' /\ AnswersAreFresh' /\ OneNumbering'
  BY DEF VmIInv, BudgetInv, CallsBalance, AnswersAreFresh, OneNumbering
<1>. QED BY <1>1, <1>2 DEF VmIInv

LEMMA UnrefKeeps ==
    ASSUME VmIInv, NEW h \in held, Unref(h)
    PROVE  VmIInv'
<1>1. RegistryOK(registry) /\ Pinned(registry) = held \cup lost /\ held \cap lost = {}
  BY DEF VmIInv, RegistryInv, HoldersOK
<1>2. h \in Pinned(registry)
  BY <1>1
<1>3. PICK q \in 1 .. Len(registry.slots) :
         registry.slots[q] \in Tables /\ h = [ref |-> q, table |-> registry.slots[q]]
  BY <1>2 DEF Pinned
<1>4. h.ref = q
  BY <1>3
<1>5. RegistryOK(Unpin(registry, q))
      /\ Pinned(Unpin(registry, q)) = {g \in Pinned(registry) : g.ref # q}
  BY <1>1, <1>3, UnpinRemoves
<1>6. \A g \in Pinned(registry) : g.ref = q => g = h
  BY <1>3 DEF Pinned
<1>7. registry' = Unpin(registry, q) /\ held' = held \ {h} /\ lost' = lost
      /\ UNCHANGED <<vm, cpool, window, atom_interner, vm_fatal, tick, answered>>
  BY <1>4 DEF Unref
<1>8. Pinned(Unpin(registry, q)) = (held \ {h}) \cup lost
  BY <1>1, <1>4, <1>5, <1>6
<1>9. RegistryInv'
  BY <1>1, <1>5, <1>7, <1>8 DEF RegistryInv, HoldersOK
<1>10. PoolInv'
  BY <1>7 DEF VmIInv, PoolInv
<1>. QED BY <1>7, <1>9, <1>10, ApartKeeps

LEMMA OthersKeep ==
    ASSUME VmIInv, OthersAllocate(1) \/ OthersFree
    PROVE  VmIInv'
<1>1. RegistryInv' /\ UNCHANGED <<vm, atom_interner, vm_fatal, tick, answered>>
  BY DEF VmIInv, RegistryInv, OthersAllocate, OthersFree
<1>2. PoolInv'
  <2>1. PoolInv
    BY DEF VmIInv
  <2>2. CASE OthersAllocate(1)
    BY <2>1, <2>2 DEF PoolInv, OthersAllocate
  <2>3. CASE OthersFree
    BY <2>1, <2>3 DEF PoolInv, OthersFree
  <2>. QED BY <2>2, <2>3
<1>. QED BY <1>1, <1>2, ApartKeeps

LEMMA TickBeginKeeps ==
    ASSUME VmIInv, TickBegin
    PROVE  VmIInv'
<1>1. /\ vm \in VmType /\ tick \in [steps : Nat, raised : Int, late : BOOLEAN]
      /\ VmTypes /\ Live /\ BudgetSafepoints \in Nat
  BY VmAssumption DEF VmIInv, VmTypes, TickBegin
<1>2. /\ vm' = [vm EXCEPT !.left = BudgetSafepoints, !.warned = FALSE]
      /\ tick' = [tick EXCEPT !.steps = 0, !.raised = 0]
      /\ UNCHANGED <<registry, cpool, window, atom_interner, vm_fatal, held, lost, answered>>
  BY DEF TickBegin
<1>3. /\ vm' \in VmType /\ vm'.left = BudgetSafepoints /\ vm'.warned = FALSE
      /\ vm'.state = vm.state /\ vm'.kind = vm.kind /\ vm'.reserve = vm.reserve
      /\ vm'.stack = vm.stack /\ vm'.names = vm.names /\ vm'.atoms = vm.atoms
      /\ vm'.compiled = vm.compiled /\ vm'.readonly = vm.readonly
      /\ vm'.init_open = vm.init_open /\ vm'.err = vm.err
  <2>. DEFINE B == BudgetSafepoints
  <2>1. B \in Int /\ vm' = [vm EXCEPT !.left = B, !.warned = FALSE]
    BY <1>1, <1>2
  <2>. HIDE DEF B
  <2>2. vm' \in VmType /\ vm'.left = B /\ vm'.warned = FALSE
    BY <1>1, <2>1 DEF VmType
  <2>3. /\ vm'.state = vm.state /\ vm'.kind = vm.kind /\ vm'.reserve = vm.reserve
        /\ vm'.stack = vm.stack /\ vm'.names = vm.names /\ vm'.atoms = vm.atoms
        /\ vm'.compiled = vm.compiled /\ vm'.readonly = vm.readonly
        /\ vm'.init_open = vm.init_open /\ vm'.err = vm.err
    BY <1>1, <2>1 DEF VmType
  <2>. QED BY <2>2, <2>3 DEF B
<1>4. /\ tick' \in [steps : Nat, raised : Int, late : BOOLEAN] /\ tick'.steps = 0
      /\ tick'.raised = 0 /\ tick'.late = tick.late
  <2>1. tick' = [steps |-> 0, raised |-> 0, late |-> tick.late] /\ tick.late \in BOOLEAN
    BY <1>1, <1>2
  <2>. QED BY <2>1
<1>5. VmTypes' /\ PoolInv' /\ RegistryInv'
  BY <1>1, <1>2, <1>3, <1>4 DEF VmIInv, VmTypes, PoolInv, RegistryInv
<1>6. SealInv'
  BY <1>3, <1>4 DEF VmIInv, SealInv
<1>7. BudgetInv'
  <2>1. 0 <= BudgetSafepoints /\ BudgetSafepoints - 0 = BudgetSafepoints /\ ~(0 > BudgetSafepoints)
    BY <1>1
  <2>. QED BY <1>3, <1>4, <2>1 DEF BudgetInv
<1>8. CallsBalance' /\ AnswersAreFresh' /\ OneNumbering'
  BY <1>2, <1>3 DEF VmIInv, CallsBalance, AnswersAreFresh, OneNumbering
<1>. QED BY <1>5, <1>6, <1>7, <1>8 DEF VmIInv

LEMMA TickEndKeeps ==
    ASSUME VmIInv, NEW reachable \in Int, TickEnd(reachable)
    PROVE  VmIInv'
<1>. DEFINE gt == IF reachable > vm.last_reachable THEN vm.growth_ticks + 1 ELSE 0
<1>1. vm \in VmType /\ VmTypes /\ Live
  BY DEF VmIInv, VmTypes, TickEnd
<1>2. /\ vm' = [vm EXCEPT !.growth_ticks = gt, !.last_reachable = reachable]
      /\ UNCHANGED <<registry, cpool, window, atom_interner, vm_fatal, held, lost, tick, answered>>
  BY DEF TickEnd
<1>3. gt \in Int
  BY <1>1 DEF VmType
<1>. HIDE DEF gt
<1>4. /\ vm' \in VmType /\ vm'.left = vm.left /\ vm'.warned = vm.warned
      /\ vm'.state = vm.state /\ vm'.kind = vm.kind /\ vm'.reserve = vm.reserve
      /\ vm'.stack = vm.stack /\ vm'.names = vm.names /\ vm'.atoms = vm.atoms
      /\ vm'.compiled = vm.compiled /\ vm'.readonly = vm.readonly
      /\ vm'.init_open = vm.init_open /\ vm'.err = vm.err
  BY <1>1, <1>2, <1>3 DEF VmType
<1>5. VmTypes' /\ PoolInv' /\ RegistryInv'
  BY <1>1, <1>2, <1>4 DEF VmIInv, VmTypes, PoolInv, RegistryInv
<1>6. SealInv' /\ BudgetInv'
  BY <1>2, <1>4 DEF VmIInv, SealInv, BudgetInv
<1>7. CallsBalance' /\ AnswersAreFresh' /\ OneNumbering'
  BY <1>2, <1>4 DEF VmIInv, CallsBalance, AnswersAreFresh, OneNumbering
<1>. QED BY <1>5, <1>6, <1>7 DEF VmIInv

LEMMA NothingIsScript == Nothing \in Scripts /\ Plain \in Values
  BY VmAssumption DEF Nothing, Scripts, Plain, Values

LEMMA CompilingKeeps ==
    ASSUME VmIInv, Compiling
    PROVE  VmIInv'
<1>1. CASE OthersAllocate(1) \/ OthersFree
  BY <1>1, OthersKeep
<1>2. ASSUME NEW len \in SourceLens, NEW o \in Outcomes, NEW fresh \in {0, 2}, NEW taken \in 1..2,
             fresh <= taken, RunSource(len, o, fresh, taken, Nothing)
      PROVE  VmIInv'
  <2>1. len \in Nat /\ fresh \in Nat /\ taken \in Nat /\ o # "oom"
    BY VmAssumption DEF Outcomes
  <2>. QED BY <1>2, <2>1, NothingIsScript, RunSourceKeeps
<1>3. ASSUME NEW len \in SourceLens, NEW o, NEW staged \in 0..1,
             Eval(len, staged, o, 0, 1, Nothing, Plain, TRUE)
      PROVE  VmIInv'
  <2>1. len \in Nat /\ staged \in Nat /\ 0 \in Nat /\ 1 \in Nat /\ 0 <= 1
    BY VmAssumption
  <2>. QED BY <1>3, <2>1, NothingIsScript, EvalKeeps
<1>. QED BY <1>1, <1>2, <1>3 DEF Compiling

LEMMA TickingKeeps ==
    ASSUME VmIInv, Ticking
    PROVE  VmIInv'
<1>1. CASE TickBegin
  BY <1>1, TickBeginKeeps
<1>2. ASSUME NEW reachable \in 0..2, TickEnd(reachable) PROVE VmIInv'
  BY <1>2, TickEndKeeps
<1>3. ASSUME NEW p \in Scripts, RunSource(1, "ok", 0, 1, p) PROVE VmIInv'
  <2>1. 0 \in Nat /\ 1 \in Nat /\ 0 <= 1 /\ "ok" # "oom"
    OBVIOUS
  <2>. QED BY <1>3, <2>1, RunSourceKeeps
<1>. QED BY <1>1, <1>2, <1>3 DEF Ticking

LEMMA ReadingKeeps ==
    ASSUME VmIInv, Reading
    PROVE  VmIInv'
<1>1. ASSUME NEW p \in Expressions, NEW v \in Values, NEW want_int \in BOOLEAN,
             Eval(1, 0, "ok", 0, 1, p, v, want_int)
      PROVE  VmIInv'
  <2>1. p \in Scripts /\ 0 \in Nat /\ 1 \in Nat /\ 0 <= 1
    BY DEF Expressions
  <2>. QED BY <1>1, <2>1, EvalKeeps
<1>2. ASSUME NEW r, NEW v \in Values, TableGet(r, v) PROVE VmIInv'
  BY <1>2, TableGetKeeps
<1>3. ASSUME NEW r, NEW key, NEW more \in BOOLEAN,
             NEW k \in IF NextRefused(r, key) \/ ~more THEN {Plain} ELSE Values \ {Nil},
             NEW v \in IF NextRefused(r, key) \/ ~more THEN {Plain} ELSE Values \ {Nil},
             TableNext(r, key, more, k, v)
      PROVE  VmIInv'
  <2>1. k \in Values /\ v \in Values
    BY NothingIsScript
  <2>. QED BY <1>3, <2>1, TableNextKeeps
<1>4. ASSUME NEW h \in held, Unref(h) PROVE VmIInv'
  BY <1>4, UnrefKeeps
<1>. QED BY <1>1, <1>2, <1>3, <1>4 DEF Reading

LEMMA NextVmIInv == VmIInv /\ [SNext]_svars => VmIInv'
<1>. SUFFICES ASSUME VmIInv, [SNext]_svars PROVE VmIInv'
  OBVIOUS
<1>1. CASE Lifecycle
  <2>1. CASE Destroy
    BY <2>1, DestroyKeeps
  <2>2. CASE Seal
    BY <2>2, SealKeeps
  <2>3. ASSUME NEW step, NEW in \in Interners \cup {"none"}, CreateFails(step, in) PROVE VmIInv'
    BY <2>3, CreateFailsKeeps
  <2>4. ASSUME NEW kind \in Kinds, NEW in \in Interners \cup {"none"}, Create(kind, in)
        PROVE  VmIInv'
    BY <2>4, CreateKeeps
  <2>. QED BY <1>1, <2>1, <2>2, <2>3, <2>4 DEF Lifecycle
<1>2. CASE Compiling
  BY <1>2, CompilingKeeps
<1>3. CASE Ticking
  BY <1>3, TickingKeeps
<1>4. CASE Reading
  BY <1>4, ReadingKeeps
<1>5. CASE UNCHANGED svars
  <2>1. UNCHANGED <<vm, atom_interner, vm_fatal, tick, answered, registry, held, lost, cpool, window>>
    BY <1>5 DEF svars
  <2>2. RegistryInv' /\ PoolInv'
    BY <2>1 DEF VmIInv, RegistryInv, PoolInv
  <2>. QED BY <2>1, <2>2, ApartKeeps
<1>. QED BY <1>1, <1>2, <1>3, <1>4, <1>5 DEF SNext

\* Pins answer to references: no two of what is held, or lost, share one.
LEMMA PinsAreTold == RegistryInv => PinnedIsHeld
<1>. SUFFICES ASSUME RegistryInv PROVE PinnedIsHeld
  OBVIOUS
<1>1. RegistryOK(registry) /\ Pinned(registry) = held \cup lost /\ held \cap lost = {}
  BY DEF RegistryInv, HoldersOK
<1>2. DOMAIN registry.slots = 1 .. Len(registry.slots)
  BY <1>1, LenProperties DEF RegistryOK
<1>3. {[ref |-> r, table |-> registry.slots[r]] : r \in {q \in DOMAIN registry.slots : IsTable(q)}}
        = Pinned(registry)
  BY <1>2 DEF Pinned, IsTable
<1>4. ASSUME NEW g \in Pinned(registry), NEW h \in Pinned(registry), g.ref = h.ref PROVE g = h
  <2>1. PICK q \in 1 .. Len(registry.slots) : g = [ref |-> q, table |-> registry.slots[q]]
    BY DEF Pinned
  <2>2. PICK r \in 1 .. Len(registry.slots) : h = [ref |-> r, table |-> registry.slots[r]]
    BY DEF Pinned
  <2>3. q = r
    BY <1>4, <2>1, <2>2
  <2>. QED BY <2>1, <2>2, <2>3
<1>. QED BY <1>1, <1>3, <1>4 DEF PinnedIsHeld

LEMMA VmImplies == VmIInv => VmInv
<1>. SUFFICES ASSUME VmIInv PROVE VmInv
  OBVIOUS
<1>1. CallsBalance /\ BudgetInv /\ AnswersAreFresh /\ OneNumbering
  BY DEF VmIInv
<1>2. PinnedIsHeld
  BY PinsAreTold DEF VmIInv
<1>3. SealHolds /\ CompileFits
  BY DEF VmIInv, SealInv, PoolInv, SealHolds, CompileFits
<1>4. NoEntropy
  <2>. SUFFICES ASSUME vm.state = "live" PROVE NoEntropy
    BY DEF NoEntropy
  <2>1. vm.names \subseteq SandboxNames(vm.kind) \cup {"mine"} /\ vm.kind \in {"sim", "ui", "data"}
    BY DEF VmIInv, SealInv, VmTypes, VmType
  <2>2. CASE vm.kind = "sim"
    <3>1. SandboxNames("sim") \cap {"math", "os", "coroutine", "newproxy", "math.random", "pairs",
                                   "next", "table.foreach", "table.foreachi"} = {}
      BY DEF SandboxNames, Kept, Opened, Libraries, Removals
    <3>. QED BY <2>1, <2>2, <3>1 DEF NoEntropy
  <2>3. CASE vm.kind = "data"
    <3>1. SandboxNames("data") \cap {"os", "math.random", "pairs", "next", "table.foreach",
                                    "table.foreachi"} = {}
      BY DEF SandboxNames, Kept, Opened, Libraries, Removals
    <3>. QED BY <2>1, <2>3, <3>1 DEF NoEntropy
  <2>4. CASE vm.kind = "ui"
    BY <2>4 DEF NoEntropy
  <2>. QED BY <2>1, <2>2, <2>3, <2>4
<1>. QED BY <1>1, <1>2, <1>3, <1>4 DEF VmInv

\* A script VM (vm.cpp, sandbox.cpp): calls leave the stack as it was, what is
\* pinned is held, the budget trips once, errors and sizes are the last call's,
\* nothing is written after the seal, a compile fits the pool, nothing that
\* differs between peers can be named, and names have one numbering.
THEOREM VmIsSound == SSpec => []VmInv
<1>. USE DEF SSpec
<1>1. SSpec => []VmIInv
  BY InitVmIInv, NextVmIInv, PTL
<1>. QED BY <1>1, VmImplies, PTL
=============================================================================
