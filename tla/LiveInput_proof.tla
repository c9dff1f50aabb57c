--------------------------- MODULE LiveInput_proof ---------------------------
(***************************************************************************)
(* Proofs about the producers.  The live one: what the ring holds, what    *)
(* the fold knows of the controls, who has an axis, and what the edges     *)
(* tell.  The scripted one: its frames are what the timeline says.         *)
(***************************************************************************)
EXTENDS LiveInput, ScriptInput, TLAPS, FiniteSetTheorems, SequenceTheorems,
        WellFoundedInduction

\* Every nonempty set of naturals has a least element: induction, first order.
LEMMA Least ==
    ASSUME NEW T, T \subseteq Nat, T # {}
    PROVE  \E n \in T : \A m \in T : n <= m
<1>1. PICK x \in T : \A y \in T : ~(<<y, x>> \in OpToRel(<, Nat))
  BY NatLessThanWellFounded, WFMin
<1>2. \A y \in T : ~(y < x)
  BY <1>1 DEF OpToRel
<1>. QED BY <1>2

\* What holds at 0, and at m + 1 when it holds at m, holds everywhere.
LEMMA Climb ==
    ASSUME NEW T, 0 \in T, \A m \in Nat : m \in T => m + 1 \in T
    PROVE  Nat \subseteq T
<1>. DEFINE U == Nat \ T
<1>1. ASSUME U # {} PROVE FALSE
  <2>1. PICK n \in U : \A m \in U : n <= m
    BY <1>1, Least
  <2>2. n # 0 /\ n - 1 \in Nat /\ n - 1 \in T
    BY <2>1
  <2>. QED BY <2>1, <2>2
<1>. QED BY <1>1

-----------------------------------------------------------------------------
(* The ring.                                                               *)

\* What a division leaves is one number: the only one below the divisor.
LEMMA DivisionOf ==
    ASSUME NEW g \in Nat \ {0}, NEW x \in Int
    PROVE  x \div g \in Int /\ x % g \in 0 .. g - 1 /\ x = (x \div g) * g + (x % g)
<1>. DEFINE q == x \div g
<1>1. q \in Int
  OBVIOUS
<1>2. x = g * q + (x % g) /\ (x % g) \in 0 .. g - 1
  OBVIOUS
<1>. HIDE DEF q
<1>3. g * q = q * g
  BY <1>1
<1>. QED BY <1>1, <1>2, <1>3 DEF q

LEMMA NoSmallMultiple ==
    ASSUME NEW g \in Nat \ {0}, NEW m \in Int, m * g < g, -g < m * g
    PROVE  m = 0
<1>1. CASE m >= 1
  <2>1. (m - 1) * g >= 0
    BY <1>1
  <2>2. (m - 1) * g = m * g - g
    OBVIOUS
  <2>. QED BY <2>1, <2>2
<1>2. CASE m <= -1
  <2>1. (-1 - m) * g >= 0
    BY <1>2
  <2>2. (-1 - m) * g = -g - m * g
    OBVIOUS
  <2>. QED BY <2>1, <2>2
<1>. QED BY <1>1, <1>2

LEMMA OneRest ==
    ASSUME NEW g \in Nat \ {0}, NEW p \in Int, NEW r \in 0 .. g - 1
    PROVE  (p * g + r) % g = r
<1>. DEFINE x == p * g + r
            q == x \div g
            t == x % g
<1>1. x \in Int
  OBVIOUS
<1>2. q \in Int /\ t \in 0 .. g - 1 /\ x = q * g + t
  BY <1>1, DivisionOf
<1>3. (q - p) * g = q * g - p * g
  BY <1>2
<1>4. (q - p) * g = r - t
  BY <1>2, <1>3
<1>. HIDE DEF q, t
<1>5. q - p = 0
  BY <1>2, <1>4, NoSmallMultiple
<1>6. r - t = 0
  BY <1>2, <1>4, <1>5
<1>. QED BY <1>2, <1>6 DEF t

LEMMA Shift ==
    ASSUME NEW g \in Nat \ {0}, NEW a \in Int, NEW n \in Int
    PROVE  (a + n * g) % g = a % g
<1>. DEFINE q == a \div g
            r == a % g
<1>1. q \in Int /\ r \in 0 .. g - 1 /\ a = q * g + r
  BY DivisionOf
<1>. HIDE DEF q, r
<1>2. (q + n) * g = q * g + n * g
  BY <1>1
<1>3. a + n * g = (q + n) * g + r
  BY <1>1, <1>2
<1>4. ((q + n) * g + r) % g = r
  BY <1>1, OneRest
<1>. QED BY <1>3, <1>4 DEF r

\* The slot of a cursor is that of the count it stands for.
LEMMA SlotOfCursor ==
    ASSUME NEW a \in Int PROVE (a % CursorMod) % Cap = a % Cap
<1>. DEFINE k == CursorMod \div Cap
            n == a \div CursorMod
            m == a % CursorMod
<1>1. k \in Int /\ CursorMod = k * Cap
  BY DivisionOf, RingAssumption
<1>2. n \in Int /\ m \in Int /\ a = n * CursorMod + m
  BY DivisionOf, RingAssumption
<1>. HIDE DEF k, n, m
<1>3. n * CursorMod = (n * k) * Cap
  BY <1>1, <1>2, RingAssumption
<1>4. a = m + (n * k) * Cap /\ n * k \in Int
  BY <1>1, <1>2, <1>3
<1>5. (m + (n * k) * Cap) % Cap = m % Cap
  BY <1>2, <1>4, Shift, RingAssumption
<1>. QED BY <1>4, <1>5 DEF m

\* Places less than a capacity apart are different slots.
LEMMA Apart ==
    ASSUME NEW a \in Int, NEW b \in Int, a < b, b - a < Cap
    PROVE  a % Cap # b % Cap
<1>. DEFINE p == a \div Cap
            q == b \div Cap
<1>1. /\ p \in Int /\ a % Cap \in Int /\ a = p * Cap + (a % Cap)
      /\ q \in Int /\ b % Cap \in Int /\ b = q * Cap + (b % Cap)
  BY DivisionOf, RingAssumption
<1>. HIDE DEF p, q
<1>2. (q - p) * Cap = q * Cap - p * Cap
  BY <1>1, RingAssumption
<1>3. ASSUME a % Cap = b % Cap PROVE FALSE
  <2>. DEFINE r == a % Cap
              s == b % Cap
              x == p * Cap
              y == q * Cap
  <2>0. r \in Int /\ s = r /\ a = x + r /\ b = y + s /\ x \in Int /\ y \in Int
    BY <1>1, <1>3, RingAssumption
  <2>. HIDE DEF r, s
  <2>1. (q - p) * Cap = b - a
    <3>. HIDE DEF x, y
    <3>1. y - x = b - a
      BY <2>0
    <3>. QED BY <1>2, <3>1 DEF x, y
  <2>2. q - p = 0
    BY <1>1, <2>1, NoSmallMultiple, RingAssumption
  <2>. QED BY <1>1, <2>1, <2>2, RingAssumption
<1>. QED BY <1>3

\* A step of a cursor that was reduced already.
LEMMA StepOfCursor ==
    ASSUME NEW a \in Int, NEW n \in Int
    PROVE  /\ ((a % CursorMod) + n) % CursorMod = (a + n) % CursorMod
           /\ ((a % CursorMod) + n) % Cap = (a + n) % Cap
<1>. DEFINE M == CursorMod
            q == a \div M
            m == a % M
            k == M \div Cap
<1>1. M \in Nat \ {0} /\ Cap \in Nat \ {0} /\ M % Cap = 0
  BY RingAssumption
<1>2. q \in Int /\ m \in Int /\ a = q * M + m
  BY <1>1, DivisionOf
<1>3. k \in Int /\ M = k * Cap
  BY <1>1, DivisionOf
<1>. HIDE DEF M, q, m, k
<1>4. m + n = (a + n) + (-q) * M /\ q * M = (q * k) * Cap
  <2>1. (-q) * M = -(q * M)
    BY <1>1, <1>2
  <2>. QED BY <1>1, <1>2, <1>3, <2>1
<1>5. ((a + n) + (-q) * M) % M = (a + n) % M
  <2>1. a + n \in Int /\ -q \in Int
    BY <1>2
  <2>. QED BY <1>1, <2>1, Shift
<1>6. m + n = (a + n) + (-(q * k)) * Cap
  <2>1. (-(q * k)) * Cap = -((q * k) * Cap)
    BY <1>1, <1>2, <1>3
  <2>. DEFINE x == (q * k) * Cap
  <2>2. x \in Int /\ a = x + m
    BY <1>1, <1>2, <1>3, <1>4
  <2>. HIDE DEF x
  <2>3. m + n = (a + n) + (-x)
    BY <1>2, <2>2
  <2>. QED BY <2>1, <2>3 DEF x
<1>7. -(q * k) \in Int /\ a + n \in Int
  BY <1>2, <1>3
<1>8. ((a + n) + (-(q * k)) * Cap) % Cap = (a + n) % Cap
  BY <1>1, <1>7, Shift
<1>. QED BY <1>4, <1>5, <1>6, <1>8 DEF M, m

\* The ring holds these items, oldest first.
RingHolds(r, items) ==
    /\ r.head \in 0 .. CursorMod - 1 /\ DOMAIN r.data = 0 .. Cap - 1
    /\ Len(items) <= Cap /\ r.tail = (r.head + Len(items)) % CursorMod
    /\ \A i \in 1 .. Len(items) : r.data[(r.head + i - 1) % Cap] = items[i]

LEMMA CountOfRing ==
    ASSUME NEW E, NEW r, NEW items \in Seq(E), RingHolds(r, items)
    PROVE  r.tail \in 0 .. CursorMod - 1 /\ RingCount(r) = Len(items)
<1>. DEFINE M == CursorMod
            h == r.head
            n == Len(items)
            t == r.tail
            q == (h + n) \div M
<1>1. M \in Nat \ {0} /\ h \in 0 .. M - 1 /\ n \in 0 .. M - 1 /\ t = (h + n) % M
  BY RingAssumption DEF RingHolds
<1>2. h + n \in Int
  BY <1>1
<1>3. q \in Int /\ t \in 0 .. M - 1 /\ h + n = q * M + t
  BY <1>1, <1>2, DivisionOf
<1>. HIDE DEF M, h, n, t, q
<1>4. (1 - q) * M = M - q * M
  BY <1>1, <1>3
<1>5. t + M - h = (1 - q) * M + n
  <2>. DEFINE x == q * M
  <2>1. x \in Int /\ h + n = x + t
    BY <1>1, <1>3
  <2>. HIDE DEF x
  <2>2. t + M - h = (M - x) + n
    BY <1>1, <1>3, <2>1
  <2>. QED BY <1>4, <2>2 DEF x
<1>6. ((1 - q) * M + n) % M = n
  <2>1. 1 - q \in Int
    BY <1>3
  <2>. QED BY <1>1, <2>1, OneRest
<1>. QED BY <1>3, <1>5, <1>6 DEF M, h, n, t, RingCount

LEMMA RingHoldsItems ==
    ASSUME NEW E, NEW r, NEW items \in Seq(E), RingHolds(r, items)
    PROVE  RingItems(r) = items
<1>1. RingCount(r) = Len(items)
  BY CountOfRing
<1>2. ASSUME NEW i \in 1 .. Len(items) PROVE RingPeek(r, i - 1) = items[i]
  <2>1. r.head + (i - 1) = r.head + i - 1
    BY RingAssumption DEF RingHolds
  <2>. QED BY <2>1 DEF RingHolds, RingPeek
<1>. QED BY <1>1, <1>2 DEF RingItems

\* What a push leaves of what the ring held.
Pushed(items, e) == IF Len(items) = Cap THEN Append(Tail(items), e) ELSE Append(items, e)

LEMMA PushHolds ==
    ASSUME NEW E, NEW r, NEW items \in Seq(E), NEW e \in E, RingHolds(r, items)
    PROVE  RingHolds(RingPush(r, e), Pushed(items, e))
<1>. DEFINE M == CursorMod
            h == r.head
            n == Len(items)
            t == r.tail
            p == RingPush(r, e)
            full == n = Cap
<1>1. /\ M \in Nat \ {0} /\ Cap \in Nat \ {0} /\ Cap < M
      /\ h \in 0 .. M - 1 /\ n \in 0 .. Cap /\ t = (h + n) % M /\ DOMAIN r.data = 0 .. Cap - 1
      /\ \A i \in 1 .. n : r.data[(h + i - 1) % Cap] = items[i]
  BY RingAssumption DEF RingHolds
<1>2. p = [data |-> [r.data EXCEPT ![t % Cap] = e],
           head |-> IF full THEN (h + 1) % M ELSE h, tail |-> (t + 1) % M]
  BY CountOfRing, RingAssumption DEF RingPush, RingAccepts, RingFull
<1>3. t % Cap = (h + n) % Cap /\ (t + 1) % M = (h + n + 1) % M
  <2>1. h + n \in Int
    BY <1>1
  <2>. DEFINE x == h + n
  <2>2. x \in Int /\ t = x % CursorMod
    BY <1>1, <2>1
  <2>. HIDE DEF x, t
  <2>3. (x % CursorMod) % Cap = x % Cap
    BY <2>2, SlotOfCursor
  <2>4. ((x % CursorMod) + 1) % CursorMod = (x + 1) % CursorMod
    BY <2>2, StepOfCursor
  <2>. QED BY <2>2, <2>3, <2>4 DEF x
<1>4. h + n \in Int /\ (h + n) % Cap \in 0 .. Cap - 1
  <2>1. h + n \in Int
    BY <1>1
  <2>. QED BY <1>1, <2>1, DivisionOf
<1>. HIDE DEF M, h, n, t
<1>5. ASSUME NEW i \in Int, i < h + n, h + n - i < Cap
      PROVE  p.data[i % Cap] = r.data[i % Cap]
  <2>. DEFINE x == h + n
  <2>0. x \in Int /\ i < x /\ x - i < Cap
    BY <1>1, <1>4, <1>5
  <2>. HIDE DEF x
  <2>1. i % Cap # x % Cap
    BY <2>0, Apart
  <2>. QED BY <1>1, <1>2, <1>3, <2>1 DEF x
<1>6. p.data[(h + n) % Cap] = e /\ DOMAIN p.data = 0 .. Cap - 1
  BY <1>1, <1>2, <1>3, <1>4
<1>. HIDE DEF p
<1>7. CASE n < Cap
  <2>. DEFINE s == Append(items, e)
  <2>1. Pushed(items, e) = s /\ Len(s) = n + 1
    BY <1>1, <1>7 DEF Pushed, n
  <2>2. p.head = h /\ p.tail = (h + Len(s)) % M
    BY <1>1, <1>2, <1>3, <1>7, <2>1
  <2>3. ASSUME NEW i \in 1 .. Len(s) PROVE p.data[(h + i - 1) % Cap] = s[i]
    <3>1. CASE i = n + 1
      <4>1. s[i] = e /\ h + i - 1 = h + n
        BY <1>1, <3>1 DEF n
      <4>. QED BY <1>6, <4>1
    <3>2. CASE i \in 1 .. n
      <4>1. h + i - 1 \in Int /\ h + i - 1 < h + n /\ h + n - (h + i - 1) < Cap
        BY <1>1, <1>7, <3>2
      <4>2. p.data[(h + i - 1) % Cap] = r.data[(h + i - 1) % Cap]
        BY <1>5, <4>1
      <4>3. s[i] = items[i]
        BY <3>2 DEF n
      <4>. QED BY <1>1, <3>2, <4>2, <4>3
    <3>. QED BY <1>1, <2>1, <2>3, <3>1, <3>2
  <2>4. Len(s) <= Cap
    BY <1>1, <1>7, <2>1
  <2>. QED BY <1>1, <1>6, <2>1, <2>2, <2>3, <2>4 DEF RingHolds, M, p
<1>8. CASE n = Cap
  <2>. DEFINE s == Append(Tail(items), e)
              g == p.head
  <2>1. Pushed(items, e) = s /\ Len(s) = Cap /\ Tail(items) \in Seq(E) /\ Len(Tail(items)) = n - 1
    BY <1>1, <1>8 DEF Pushed, n
  <2>2. g = (h + 1) % M /\ g \in 0 .. M - 1
    BY <1>1, <1>2, <1>8, SMTT(40)
  <2>3. p.tail = (g + Cap) % M
    <3>1. (((h + 1) % M) + Cap) % M = (h + 1 + Cap) % M
      <4>1. h + 1 \in Int /\ Cap \in Int
        BY <1>1
      <4>. QED BY <4>1, StepOfCursor DEF M
    <3>2. h + n + 1 = h + 1 + Cap
      BY <1>1, <1>8
    <3>. QED BY <1>2, <1>3, <2>2, <3>1, <3>2
  <2>4. ASSUME NEW i \in 1 .. Cap PROVE p.data[(g + i - 1) % Cap] = s[i]
    <3>1. (g + i - 1) % Cap = (h + i) % Cap
      <4>1. (((h + 1) % M) + (i - 1)) % Cap = (h + 1 + (i - 1)) % Cap
        <5>1. h + 1 \in Int /\ i - 1 \in Int
          BY <1>1
        <5>. QED BY <5>1, StepOfCursor DEF M
      <4>2. h + 1 + (i - 1) = h + i /\ g + i - 1 = g + (i - 1)
        BY <1>1, <2>2
      <4>. QED BY <2>2, <4>1, <4>2
    <3>2. CASE i = Cap
      <4>1. s[i] = e
        BY <1>1, <1>8, <2>1, <3>2
      <4>. QED BY <1>6, <1>8, <3>1, <3>2, <4>1
    <3>3. CASE i < Cap
      <4>1. h + i \in Int /\ h + i < h + n /\ h + n - (h + i) < Cap
        BY <1>1, <1>8, <3>3
      <4>2. p.data[(h + i) % Cap] = r.data[(h + i) % Cap]
        BY <1>5, <4>1
      <4>3. i + 1 \in 1 .. n /\ h + (i + 1) - 1 = h + i
        BY <1>1, <1>8, <3>3
      <4>4. r.data[(h + i) % Cap] = items[i + 1]
        BY <1>1, <4>3
      <4>5. s[i] = items[i + 1]
        BY <1>1, <1>8, <2>1, <3>3 DEF n
      <4>. QED BY <3>1, <4>2, <4>4, <4>5
    <3>3a. i < Cap \/ i = Cap
      BY <1>1
    <3>. QED BY <3>2, <3>3, <3>3a
  <2>. HIDE DEF s, g
  <2>5. Len(s) = Cap /\ Cap <= Cap /\ DOMAIN p.data = 0 .. Cap - 1 /\ Pushed(items, e) = s
    BY <1>1, <1>6, <2>1
  <2>6. RingHolds(p, s)
    <3>1. p.head \in 0 .. CursorMod - 1 /\ p.tail = (p.head + Len(s)) % CursorMod
      BY <2>2, <2>3, <2>5 DEF M, g
    <3>2. \A i \in 1 .. Len(s) : p.data[(p.head + i - 1) % Cap] = s[i]
      BY <2>4, <2>5 DEF g
    <3>. QED BY <2>5, <3>1, <3>2 DEF RingHolds
  <2>. QED BY <2>5, <2>6 DEF p
<1>. QED BY <1>1, <1>7, <1>8

-----------------------------------------------------------------------------
(* Folds of sequences, as iterations over the subsets of their domains.    *)

LEMMA MaxFacts ==
    ASSUME NEW n \in Nat, NEW s \in SUBSET (1 .. n), s # {}
    PROVE  Max(s) \in s /\ \A x \in s : x <= Max(s)
<1>. DEFINE T == {n - x : x \in s}
<1>0. \A x \in s : x \in Int /\ x <= n
  OBVIOUS
<1>1. T \subseteq Nat /\ T # {}
  <2>1. T \subseteq Nat
    BY <1>0
  <2>2. PICK x \in s : TRUE
    OBVIOUS
  <2>3. n - x \in T
    BY <2>2
  <2>. QED BY <2>1, <2>3
<1>2. PICK m \in T : \A k \in T : m <= k
  BY <1>1, Least
<1>3. PICK x \in s : m = n - x
  BY <1>2
<1>4. ASSUME NEW y \in s PROVE x >= y
  <2>1. n - y \in T /\ x \in Int /\ y \in Int
    OBVIOUS
  <2>. QED BY <1>2, <1>3, <2>1
<1>5. \E z \in s : \A y \in s : z >= y
  BY <1>4
<1>6. Max(s) \in s /\ \A y \in s : Max(s) >= y
  BY <1>5 DEF Max
<1>. QED BY <1>6

\* A set of subsets that grows by their greatest elements is all of them.
LEMMA SubsetInduction ==
    ASSUME NEW n \in Nat, NEW T, {} \in T,
           \A s \in SUBSET (1 .. n) : s # {} /\ s \ {Max(s)} \in T => s \in T
    PROVE  SUBSET (1 .. n) \subseteq T
<1>. DEFINE Below(m) == \A s \in SUBSET (1 .. n) : (\A x \in s : x <= m) => s \in T
            U == {m \in Nat : Below(m)}
<1>1. 0 \in U
  <2>1. ASSUME NEW s \in SUBSET (1 .. n), \A x \in s : x <= 0 PROVE s \in T
    <3>1. s = {}
      BY <2>1
    <3>. QED BY <3>1
  <2>. QED BY <2>1
<1>2. ASSUME NEW m \in Nat, m \in U PROVE m + 1 \in U
  <2>1. ASSUME NEW s \in SUBSET (1 .. n), \A x \in s : x <= m + 1, s # {} PROVE s \in T
    <3>1. Max(s) \in s /\ \A x \in s : x <= Max(s)
      BY <2>1, MaxFacts
    <3>2. \A x \in s \ {Max(s)} : x <= m
      <4>. DEFINE top == Max(s)
      <4>1. \A x \in s : x \in Int /\ x <= m + 1 /\ x <= top
        BY <2>1, <3>1
      <4>2. top \in Int
        BY <3>1, <4>1
      <4>. HIDE DEF top
      <4>3. \A x \in s \ {top} : x <= m
        BY <4>1, <4>2, <3>1 DEF top
      <4>. QED BY <4>3 DEF top
    <3>3. s \ {Max(s)} \in T
      BY <1>2, <3>2
    <3>. QED BY <2>1, <3>3
  <2>. QED BY <2>1
<1>. HIDE DEF U
<1>3. Nat \subseteq U
  BY <1>1, <1>2, Climb
<1>. QED BY <1>3 DEF U

\* h is the iteration of G over the subsets of a sequence's places, from b.
IsFold(S, G, b, seq, h) ==
    /\ h \in [SUBSET (1 .. Len(seq)) -> S]
    /\ \A s \in SUBSET (1 .. Len(seq)) :
          h[s] = IF s = {} THEN b ELSE G[<<h[s \ {Max(s)}], seq[Max(s)]>>]

FoldsUpto(S, G, b, seq, m) ==
    \E h \in [SUBSET (1 .. m) -> S] : \A s \in SUBSET (1 .. m) :
        h[s] = IF s = {} THEN b ELSE G[<<h[s \ {Max(s)}], seq[Max(s)]>>]

LEMMA FoldExists ==
    ASSUME NEW S, NEW E, NEW G \in [S \X E -> S], NEW b \in S, NEW seq \in Seq(E)
    PROVE  \E h : IsFold(S, G, b, seq, h)
<1>. DEFINE n == Len(seq)
            Upto(m) == FoldsUpto(S, G, b, seq, m)
            T == {m \in Nat : m <= n => Upto(m)}
<1>0. n \in Nat /\ \A i \in 1 .. n : seq[i] \in E
  OBVIOUS
<1>1. 0 \in T
  <2>. DEFINE h == [s \in SUBSET (1 .. 0) |-> b]
  <2>1. h \in [SUBSET (1 .. 0) -> S]
    OBVIOUS
  <2>2. \A s \in SUBSET (1 .. 0) : s = {} /\ h[s] = b
    OBVIOUS
  <2>. HIDE DEF h
  <2>3. Upto(0)
    BY <2>1, <2>2 DEF FoldsUpto
  <2>. QED BY <2>3
<1>2. ASSUME NEW m \in Nat, m \in T PROVE m + 1 \in T
  <2>1. SUFFICES ASSUME m + 1 <= n PROVE Upto(m + 1)
    OBVIOUS
  <2>2. PICK f \in [SUBSET (1 .. m) -> S] : \A s \in SUBSET (1 .. m) :
           f[s] = IF s = {} THEN b ELSE G[<<f[s \ {Max(s)}], seq[Max(s)]>>]
    <3>1. Upto(m)
      BY <1>0, <1>2, <2>1
    <3>. QED BY <3>1 DEF FoldsUpto
  <2>. DEFINE h == [s \in SUBSET (1 .. m + 1) |->
                      IF m + 1 \in s THEN G[<<f[s \ {m + 1}], seq[m + 1]>>] ELSE f[s]]
  <2>3. ASSUME NEW s \in SUBSET (1 .. m + 1)
        PROVE  /\ m + 1 \in s => s \ {m + 1} \in SUBSET (1 .. m)
               /\ m + 1 \notin s => s \in SUBSET (1 .. m)
    OBVIOUS
  <2>4. h \in [SUBSET (1 .. m + 1) -> S]
    <3>1. seq[m + 1] \in E
      BY <1>0, <2>1
    <3>. QED BY <2>3, <3>1
  <2>5. ASSUME NEW s \in SUBSET (1 .. m + 1)
        PROVE  h[s] = IF s = {} THEN b ELSE G[<<h[s \ {Max(s)}], seq[Max(s)]>>]
    <3>1. CASE m + 1 \in s
      <4>1. Max(s) \in s /\ \A x \in s : x <= Max(s)
        <5>1. m + 1 \in Nat /\ s # {}
          BY <3>1
        <5>. QED BY <5>1, MaxFacts
      <4>2. Max(s) = m + 1
        <5>. DEFINE top == Max(s)
        <5>1. \A x \in s : x \in Int /\ x <= m + 1
          OBVIOUS
        <5>2. top \in Int /\ top <= m + 1 /\ m + 1 <= top
          BY <3>1, <4>1, <5>1
        <5>. HIDE DEF top
        <5>3. top = m + 1
          BY <5>2
        <5>. QED BY <5>3 DEF top
      <4>3. s \ {m + 1} \in SUBSET (1 .. m) /\ s \ {m + 1} \in SUBSET (1 .. m + 1) /\ m + 1 \notin s \ {m + 1}
        BY <2>3, <3>1
      <4>4. h[s \ {m + 1}] = f[s \ {m + 1}]
        BY <4>3
      <4>5. h[s] = G[<<f[s \ {m + 1}], seq[m + 1]>>]
        BY <3>1
      <4>. QED BY <3>1, <4>2, <4>4, <4>5
    <3>2. CASE m + 1 \notin s
      <4>1. s \in SUBSET (1 .. m) /\ h[s] = f[s]
        BY <2>3, <3>2
      <4>2. s \ {Max(s)} \in SUBSET (1 .. m) /\ s \ {Max(s)} \in SUBSET (1 .. m + 1) /\ m + 1 \notin s \ {Max(s)}
        BY <3>2, <4>1
      <4>3. h[s \ {Max(s)}] = f[s \ {Max(s)}]
        BY <4>2
      <4>. QED BY <2>2, <4>1, <4>3
    <3>. QED BY <3>1, <3>2
  <2>. HIDE DEF h
  <2>. QED BY <2>4, <2>5 DEF FoldsUpto
<1>. HIDE DEF T
<1>3. Nat \subseteq T
  BY <1>1, <1>2, Climb
<1>4. Upto(n)
  BY <1>0, <1>3 DEF T
<1>. QED BY <1>4 DEF IsFold, FoldsUpto

\* t is seq and e after it; the iteration h over seq is one step behind g over t.
Longer(seq, e, t) ==
    /\ Len(seq) \in Nat /\ Len(t) = Len(seq) + 1 /\ t[Len(seq) + 1] = e
    /\ \A i \in 1 .. Len(seq) : t[i] = seq[i]
OneStep(G, seq, e, h, g) == g[1 .. Len(seq) + 1] = G[<<h[1 .. Len(seq)], e>>]

LEMMA AppendIsLonger == ASSUME NEW E, NEW seq \in Seq(E), NEW e \in E PROVE Longer(seq, e, Append(seq, e))
BY DEF Longer

\* One element more is one step more.
LEMMA FoldAppend ==
    ASSUME NEW S, NEW G, NEW b, NEW seq, NEW e, NEW t, Longer(seq, e, t),
           NEW h, IsFold(S, G, b, seq, h), NEW g, IsFold(S, G, b, t, g)
    PROVE  OneStep(G, seq, e, h, g)
<1>. DEFINE n == Len(seq)
            T == {s \in SUBSET (1 .. n) : g[s] = h[s]}
<1>1. n \in Nat /\ Len(t) = n + 1 /\ t[n + 1] = e /\ \A i \in 1 .. n : t[i] = seq[i]
  BY DEF Longer
<1>2. \A s \in SUBSET (1 .. n) : h[s] = IF s = {} THEN b ELSE G[<<h[s \ {Max(s)}], seq[Max(s)]>>]
  BY DEF IsFold
<1>3. \A s \in SUBSET (1 .. n + 1) : g[s] = IF s = {} THEN b ELSE G[<<g[s \ {Max(s)}], t[Max(s)]>>]
  BY <1>1 DEF IsFold
<1>. HIDE DEF n
<1>4. {} \in T
  BY <1>2, <1>3
<1>5. ASSUME NEW s \in SUBSET (1 .. n), s # {}, s \ {Max(s)} \in T PROVE s \in T
  <2>1. Max(s) \in 1 .. n
    BY <1>1, <1>5, MaxFacts
  <2>2. s \in SUBSET (1 .. n + 1)
    BY <1>1
  <2>. QED BY <1>1, <1>2, <1>3, <1>5, <2>1, <2>2
<1>. HIDE DEF T
<1>6. SUBSET (1 .. n) \subseteq T
  BY <1>1, <1>4, <1>5, SubsetInduction
<1>7. g[1 .. n] = h[1 .. n]
  BY <1>6 DEF T
<1>. DEFINE all == 1 .. n + 1
<1>8. n + 1 \in Nat /\ n + 1 \in all /\ all # {}
  <2>1. n + 1 \in Nat /\ n + 1 \in all
    BY <1>1
  <2>. QED BY <2>1
<1>8a. all \in SUBSET (1 .. n + 1)
  OBVIOUS
<1>9. Max(all) \in all /\ \A x \in all : x <= Max(all)
  BY <1>8, <1>8a, MaxFacts
<1>10. Max(all) = n + 1
  BY <1>1, <1>8, <1>9
<1>11. all \ {n + 1} = 1 .. n
  BY <1>1
<1>. QED BY <1>1, <1>3, <1>7, <1>8, <1>8a, <1>10, <1>11 DEF n, OneStep

-----------------------------------------------------------------------------
(* What the tables, the events and the device state are made of.           *)

Devices(bs) ==
    [down : SUBSET ControlsOf(bs), mods : SUBSET Modifiers, axis : Int, motion : Int,
     prev_down : SUBSET Actions, last_dir : [DOMAIN bs -> -1 .. 1]]

DigitalEvents(bs) ==
    {e \in [kind : DigitalDevices, control : ControlsOf(bs), down : BOOLEAN, mods : SUBSET Modifiers] :
        e.kind = e.control[1]}
ValueEvents == [kind : {"pad_axis", "mouse_move"}, value : Int]
ConnectEvents == [kind : {"pad_connect"}, connected : BOOLEAN]
Events(bs) == DigitalEvents(bs) \cup ValueEvents \cup ConnectEvents

\* What may be lost.
Losable(bs) == ControlsOf(bs) \cup {ModifierBits}

IsKeysAxis(bs, i) == bs[i].dev = "keys_axis"

LEMMA TableFacts ==
    ASSUME NEW bs \in ActionMaps
    PROVE  /\ Len(bs) \in Nat /\ DOMAIN bs = 1 .. Len(bs)
           /\ \A i \in DOMAIN bs : IsBinding(bs[i]) /\ bs[i] \in ToSet(bs)
           /\ \A b \in ToSet(bs) : \E i \in DOMAIN bs : b = bs[i]
<1>1. bs \in Seq(ToSet(bs)) /\ \A i \in DOMAIN bs : IsBinding(bs[i])
  BY MapAssumption
<1>2. Len(bs) \in Nat /\ DOMAIN bs = 1 .. Len(bs)
  BY <1>1
<1>3. ToSet(bs) = {bs[i] : i \in DOMAIN bs}
  BY DEF ToSet
<1>. QED BY <1>1, <1>2, <1>3

LEMMA ControlFacts ==
    ASSUME NEW bs \in ActionMaps
    PROVE  /\ \A c \in ControlsOf(bs) : c[1] \in DigitalDevices /\ c # ModifierBits
           /\ \A i \in DOMAIN bs : IsKeysAxis(bs, i) =>
                 /\ bs[i].neg \in ControlsOf(bs) /\ bs[i].pos \in ControlsOf(bs)
                 /\ bs[i].neg[1] = "key" /\ bs[i].pos[1] = "key"
           /\ \A i \in DOMAIN bs :
                 /\ bs[i].dev \in DigitalDevices => bs[i].pos \in ControlsOf(bs)
                 /\ \A m \in bs[i].modifiers : m \in Modifiers /\ <<"key", m>> \in ControlsOf(bs)
<1>. DEFINE Named(b) ==
        {<<"key", m>> : m \in b.modifiers} \cup
           (IF b.dev = "keys_axis" THEN {b.neg, b.pos}
            ELSE IF b.dev \in DigitalDevices THEN {b.pos} ELSE {})
<1>1. ControlsOf(bs) = UNION {Named(b) : b \in ToSet(bs)}
  BY DEF ControlsOf
<1>2. ASSUME NEW i \in DOMAIN bs PROVE Named(bs[i]) \subseteq ControlsOf(bs)
  BY <1>1, TableFacts
<1>3. ASSUME NEW c \in ControlsOf(bs) PROVE c[1] \in DigitalDevices /\ c # ModifierBits
  <2>1. PICK i \in DOMAIN bs : c \in Named(bs[i]) /\ IsBinding(bs[i])
    BY <1>1, TableFacts
  <2>2. CASE \E m \in bs[i].modifiers : c = <<"key", m>>
    <3>1. PICK m \in Modifiers : c = <<"key", m>>
      BY <2>1, <2>2 DEF IsBinding
    <3>2. m # "mods"
      BY MapAssumption
    <3>. QED BY <3>1, <3>2 DEF DigitalDevices, ModifierBits
  <2>3. CASE c \in {bs[i].neg, bs[i].pos} /\ bs[i].dev = "keys_axis"
    BY <2>1, <2>3 DEF IsBinding, DigitalDevices
  <2>4. CASE c = bs[i].pos /\ bs[i].dev \in DigitalDevices
    BY <2>1, <2>4 DEF IsBinding
  <2>. QED BY <2>1, <2>2, <2>3, <2>4
<1>4. ASSUME NEW i \in DOMAIN bs, IsKeysAxis(bs, i)
      PROVE  /\ bs[i].neg \in ControlsOf(bs) /\ bs[i].pos \in ControlsOf(bs)
             /\ bs[i].neg[1] = "key" /\ bs[i].pos[1] = "key"
  <2>1. IsBinding(bs[i])
    BY TableFacts
  <2>. QED BY <1>2, <1>4, <2>1 DEF IsKeysAxis, IsBinding
<1>5. ASSUME NEW i \in DOMAIN bs
      PROVE  /\ bs[i].dev \in DigitalDevices => bs[i].pos \in ControlsOf(bs)
             /\ \A m \in bs[i].modifiers : m \in Modifiers /\ <<"key", m>> \in ControlsOf(bs)
  <2>1. IsBinding(bs[i])
    BY TableFacts
  <2>2. bs[i].modifiers \subseteq Modifiers
    BY <2>1 DEF IsBinding
  <2>3. bs[i].dev \in DigitalDevices => bs[i].dev # "keys_axis"
    BY DEF DigitalDevices
  <2>4. Named(bs[i]) \subseteq ControlsOf(bs)
    BY <1>2
  <2>. QED BY <2>2, <2>3, <2>4
<1>. HIDE DEF Named
<1>. QED BY <1>3, <1>4, <1>5

-----------------------------------------------------------------------------
(* One step of the fold, and of what it leaves lost.                       *)

\* What becomes of the directions of the axes when a key goes down that was not down.
Turned(bs, d, e) ==
    [i \in DOMAIN bs |->
        IF e.down /\ e.control \notin d.down
        THEN PressedDir(bs[i], d.last_dir[i], e.control) ELSE d.last_dir[i]]

Toggled(d, e) == IF e.down THEN d.down \cup {e.control} ELSE d.down \ {e.control}

KeyFolded(bs, d, e) ==
    [down |-> Toggled(d, e), mods |-> e.mods, axis |-> d.axis, motion |-> d.motion,
     prev_down |-> d.prev_down, last_dir |-> Turned(bs, d, e)]

LEMMA FoldKeyIs == ASSUME NEW bs, NEW d \in Devices(bs), NEW e PROVE FoldKey(bs, d, e) = KeyFolded(bs, d, e)
<1>1. d = [down |-> d.down, mods |-> d.mods, axis |-> d.axis, motion |-> d.motion,
           prev_down |-> d.prev_down, last_dir |-> d.last_dir]
  BY DEF Devices
<1>2. DOMAIN d.last_dir = DOMAIN bs
  BY DEF Devices
<1>. DEFINE t == [i \in DOMAIN d.last_dir |->
                  IF e.down /\ e.control \notin d.down
                  THEN PressedDir(bs[i], d.last_dir[i], e.control) ELSE d.last_dir[i]]
<1>3. t = Turned(bs, d, e)
  BY <1>2 DEF Turned
<1>4. FoldKey(bs, d, e) = [d EXCEPT !.down = Toggled(d, e), !.mods = e.mods, !.last_dir = t]
  BY <1>1 DEF FoldKey, Toggled
<1>. HIDE DEF t
<1>. QED BY <1>1, <1>3, <1>4 DEF KeyFolded

LEMMA TurnedType ==
    ASSUME NEW bs, NEW d \in Devices(bs), NEW e PROVE Turned(bs, d, e) \in [DOMAIN bs -> -1 .. 1]
<1>1. \A i \in DOMAIN bs : d.last_dir[i] \in -1 .. 1
  BY DEF Devices
<1>2. \A i \in DOMAIN bs : PressedDir(bs[i], d.last_dir[i], e.control) \in -1 .. 1
  BY <1>1 DEF PressedDir
<1>. QED BY <1>1, <1>2 DEF Turned

LEMMA FoldEventType ==
    ASSUME NEW bs, NEW d \in Devices(bs), NEW e \in Events(bs)
    PROVE  FoldEvent(bs, d, e) \in Devices(bs) /\ FoldEvent(bs, d, e).prev_down = d.prev_down
<1>0. d = [down |-> d.down, mods |-> d.mods, axis |-> d.axis, motion |-> d.motion,
           prev_down |-> d.prev_down, last_dir |-> d.last_dir]
  BY DEF Devices
<1>1. CASE e \in DigitalEvents(bs)
  <2>1. e.kind \in DigitalDevices /\ e.control \in ControlsOf(bs) /\ e.mods \in SUBSET Modifiers
    BY <1>1 DEF DigitalEvents
  <2>2. Toggled(d, e) \in SUBSET ControlsOf(bs)
    BY <2>1 DEF Toggled, Devices
  <2>3. CASE e.kind = "key"
    <3>1. FoldEvent(bs, d, e) = KeyFolded(bs, d, e)
      BY <2>3, FoldKeyIs DEF FoldEvent
    <3>2. Turned(bs, d, e) \in [DOMAIN bs -> -1 .. 1]
      BY TurnedType
    <3>. QED BY <2>1, <2>2, <3>1, <3>2 DEF Devices, KeyFolded
  <2>4. CASE e.kind \in {"mouse_button", "pad_button"}
    <3>1. FoldEvent(bs, d, e) = [d EXCEPT !.down = Toggled(d, e)]
      BY <1>0, <2>4 DEF FoldEvent, Toggled
    <3>. QED BY <1>0, <2>2, <3>1 DEF Devices
  <2>. QED BY <2>1, <2>3, <2>4 DEF DigitalDevices
<1>2. CASE e \in ValueEvents
  <2>1. e.kind \in {"pad_axis", "mouse_move"} /\ e.value \in Int
    BY <1>2 DEF ValueEvents
  <2>2. CASE e.kind = "pad_axis"
    <3>1. FoldEvent(bs, d, e) = [d EXCEPT !.axis = e.value]
      BY <2>2 DEF FoldEvent
    <3>. QED BY <1>0, <2>1, <3>1 DEF Devices
  <2>3. CASE e.kind = "mouse_move"
    <3>1. FoldEvent(bs, d, e) = [d EXCEPT !.motion = d.motion + e.value]
      BY <1>0, <2>3 DEF FoldEvent
    <3>2. d.motion + e.value \in Int
      BY <2>1 DEF Devices
    <3>. QED BY <1>0, <3>1, <3>2 DEF Devices
  <2>. QED BY <2>1, <2>2, <2>3
<1>3. CASE e \in ConnectEvents
  <2>1. FoldEvent(bs, d, e) = FoldPadConnect(d, e)
    BY <1>3 DEF FoldEvent, ConnectEvents
  <2>. DEFINE rest == {c \in d.down : ~IsPad(c)}
  <2>. DEFINE gone == [d EXCEPT !.axis = 0, !.down = rest]
  <2>2. FoldPadConnect(d, e) = IF e.connected THEN d ELSE gone
    BY <1>0 DEF FoldPadConnect
  <2>3. rest \in SUBSET ControlsOf(bs)
    BY DEF Devices
  <2>. HIDE DEF rest
  <2>4. gone = [down |-> rest, mods |-> d.mods, axis |-> 0, motion |-> d.motion,
                prev_down |-> d.prev_down, last_dir |-> d.last_dir]
    <3>. DEFINE g == [d EXCEPT !.axis = 0]
    <3>1. g = [down |-> d.down, mods |-> d.mods, axis |-> 0, motion |-> d.motion,
               prev_down |-> d.prev_down, last_dir |-> d.last_dir]
      BY <1>0
    <3>2. gone = [g EXCEPT !.down = rest]
      OBVIOUS
    <3>. HIDE DEF g, gone
    <3>. QED BY <3>1, <3>2
  <2>5. gone \in Devices(bs) /\ gone.prev_down = d.prev_down
    BY <2>3, <2>4 DEF Devices
  <2>. HIDE DEF gone
  <2>. QED BY <2>1, <2>2, <2>5
<1>. QED BY <1>1, <1>2, <1>3 DEF Events

LEMMA DeviceStepType ==
    ASSUME NEW bs, NEW w, NEW d \in Devices(bs), NEW e \in Events(bs)
    PROVE  DeviceStep(bs, w, d, e) \in Devices(bs) /\ DeviceStep(bs, w, d, e).prev_down = d.prev_down
BY FoldEventType DEF DeviceStep

LEMMA SubjectsType ==
    ASSUME NEW bs, NEW e \in Events(bs)
    PROVE  Subjects(bs, e) \subseteq Losable(bs) /\ Settles(bs, e) \subseteq Losable(bs)
<1>1. CASE e \in DigitalEvents(bs)
  BY <1>1 DEF DigitalEvents, DigitalDevices, Subjects, Settles, Losable
<1>2. CASE e \in ValueEvents
  BY <1>2 DEF ValueEvents, Subjects, Settles, Losable, DigitalDevices
<1>3. CASE e \in ConnectEvents
  BY <1>3 DEF ConnectEvents, Subjects, Settles, Losable, DigitalDevices
<1>. QED BY <1>1, <1>2, <1>3 DEF Events

LEMMA LostStepType ==
    ASSUME NEW bs, NEW w, NEW l \in SUBSET Losable(bs), NEW e \in Events(bs)
    PROVE  LostStep(bs, w, l, e) \in SUBSET Losable(bs)
BY SubjectsType DEF LostStep

-----------------------------------------------------------------------------
(* The three folds of the module as iterations.                            *)

\* An iteration that is chosen by its equation is the one whose existence was shown.
LEMMA SameIteration ==
    ASSUME NEW n \in Nat, NEW h, NEW g,
           \A s \in SUBSET (1 .. n) :
               (s = {} \/ (Max(s) \in s /\ g[s \ {Max(s)}] = h[s \ {Max(s)}])) => g[s] = h[s]
    PROVE  g[1 .. n] = h[1 .. n]
<1>. DEFINE T == {s \in SUBSET (1 .. n) : g[s] = h[s]}
<1>1. {} \in T
  OBVIOUS
<1>2. ASSUME NEW s \in SUBSET (1 .. n), s # {}, s \ {Max(s)} \in T PROVE s \in T
  BY <1>2, MaxFacts
<1>. HIDE DEF T
<1>3. SUBSET (1 .. n) \subseteq T
  BY <1>1, <1>2, SubsetInduction
<1>. QED BY <1>3 DEF T

FoldedIter(bs, w, d, seq) ==
    CHOOSE g : g = [s \in SUBSET DOMAIN seq |->
        IF s = {} THEN d ELSE DeviceStep(bs, w, g[s \ {Max(s)}], seq[Max(s)])]

LEMMA FoldedUnfolds ==
    ASSUME NEW bs, NEW w, NEW d, NEW seq
    PROVE  Folded(bs, w, d, seq) = FoldedIter(bs, w, d, seq)[DOMAIN seq]
BY DEF Folded, FoldLeft, MapThenFoldSet, FoldedIter

StepTable(bs, w) == [p \in Devices(bs) \X Events(bs) |-> DeviceStep(bs, w, p[1], p[2])]

LEMMA StepTableFacts ==
    ASSUME NEW bs, NEW w
    PROVE  /\ StepTable(bs, w) \in [Devices(bs) \X Events(bs) -> Devices(bs)]
           /\ \A d \in Devices(bs), e \in Events(bs) : StepTable(bs, w)[<<d, e>>] = DeviceStep(bs, w, d, e)
BY DeviceStepType DEF StepTable

LEMMA FoldedIsFold ==
    ASSUME NEW bs, NEW w, NEW d \in Devices(bs), NEW seq \in Seq(Events(bs)), NEW h,
           IsFold(Devices(bs), StepTable(bs, w), d, seq, h)
    PROVE  Folded(bs, w, d, seq) = h[1 .. Len(seq)]
<1>. DEFINE n == Len(seq)
            G == StepTable(bs, w)
            g == FoldedIter(bs, w, d, seq)
<1>1. n \in Nat /\ DOMAIN seq = 1 .. n /\ \A i \in 1 .. n : seq[i] \in Events(bs)
  OBVIOUS
<1>2. /\ h \in [SUBSET (1 .. n) -> Devices(bs)]
      /\ \A s \in SUBSET (1 .. n) : h[s] = IF s = {} THEN d ELSE G[<<h[s \ {Max(s)}], seq[Max(s)]>>]
  BY DEF IsFold
<1>. HIDE DEF n, G
<1>3. ASSUME NEW s \in SUBSET (1 .. n), s # {}
      PROVE  h[s] = DeviceStep(bs, w, h[s \ {Max(s)}], seq[Max(s)])
  <2>1. Max(s) \in 1 .. n
    BY <1>1, <1>3, MaxFacts
  <2>2. h[s \ {Max(s)}] \in Devices(bs) /\ seq[Max(s)] \in Events(bs)
    BY <1>1, <1>2, <2>1
  <2>. QED BY <1>2, <1>3, <2>2, StepTableFacts DEF G
<1>4. h = [s \in SUBSET DOMAIN seq |->
            IF s = {} THEN d ELSE DeviceStep(bs, w, h[s \ {Max(s)}], seq[Max(s)])]
  BY <1>1, <1>2, <1>3
<1>5. g = [s \in SUBSET DOMAIN seq |->
            IF s = {} THEN d ELSE DeviceStep(bs, w, g[s \ {Max(s)}], seq[Max(s)])]
  BY <1>4 DEF FoldedIter
<1>. HIDE DEF g
<1>6. \A s \in SUBSET (1 .. n) :
        g[s] = IF s = {} THEN d ELSE DeviceStep(bs, w, g[s \ {Max(s)}], seq[Max(s)])
  BY <1>1, <1>5
<1>7. \A s \in SUBSET (1 .. n) :
        (s = {} \/ (Max(s) \in s /\ g[s \ {Max(s)}] = h[s \ {Max(s)}])) => g[s] = h[s]
  BY <1>2, <1>3, <1>6
<1>8. g[1 .. n] = h[1 .. n]
  BY <1>1, <1>7, SameIteration
<1>. QED BY <1>1, <1>8, FoldedUnfolds DEF g, n

\* The fold of the device state goes event by event, and stays a device state.
LEMMA FoldedEmpty == ASSUME NEW bs, NEW w, NEW d \in Devices(bs) PROVE Folded(bs, w, d, <<>>) = d
<1>. DEFINE none == <<>>
            G == StepTable(bs, w)
<1>1. none \in Seq(Events(bs)) /\ Len(none) = 0 /\ 1 .. Len(none) = {}
  OBVIOUS
<1>2. G \in [Devices(bs) \X Events(bs) -> Devices(bs)]
  BY StepTableFacts
<1>. HIDE DEF none, G
<1>3. PICK h : IsFold(Devices(bs), G, d, none, h)
  BY <1>1, <1>2, FoldExists
<1>4. Folded(bs, w, d, none) = h[1 .. Len(none)]
  <2>1. none \in Seq(Events(bs))
    BY <1>1
  <2>. QED BY <1>3, <2>1, FoldedIsFold DEF G
<1>5. h[{}] = d
  BY <1>3 DEF IsFold
<1>. QED BY <1>1, <1>4, <1>5 DEF none

LEMMA FoldedAppend ==
    ASSUME NEW bs, NEW w, NEW d \in Devices(bs), NEW seq \in Seq(Events(bs)), NEW e \in Events(bs)
    PROVE  /\ Folded(bs, w, d, seq) \in Devices(bs)
           /\ Folded(bs, w, d, Append(seq, e)) = DeviceStep(bs, w, Folded(bs, w, d, seq), e)
<1>. DEFINE G == StepTable(bs, w)
            t == Append(seq, e)
<1>0. Longer(seq, e, t) /\ t \in Seq(Events(bs)) /\ Len(t) = Len(seq) + 1
  BY AppendIsLonger
<1>. HIDE DEF G, t
<1>1. G \in [Devices(bs) \X Events(bs) -> Devices(bs)] /\ t \in Seq(Events(bs)) /\ Len(t) = Len(seq) + 1
  BY <1>0, StepTableFacts DEF G
<1>2. PICK h : IsFold(Devices(bs), G, d, seq, h)
  BY <1>1, FoldExists
<1>3. PICK g : IsFold(Devices(bs), G, d, t, g)
  BY <1>1, FoldExists
<1>4. Folded(bs, w, d, seq) = h[1 .. Len(seq)] /\ Folded(bs, w, d, t) = g[1 .. Len(t)]
  BY <1>1, <1>2, <1>3, FoldedIsFold DEF G
<1>5. h[1 .. Len(seq)] \in Devices(bs)
  BY <1>2 DEF IsFold
<1>6. OneStep(G, seq, e, h, g)
  BY <1>0, <1>2, <1>3, FoldAppend
<1>7. G[<<h[1 .. Len(seq)], e>>] = DeviceStep(bs, w, h[1 .. Len(seq)], e)
  BY <1>5, StepTableFacts DEF G
<1>. QED BY <1>1, <1>4, <1>5, <1>6, <1>7 DEF t, OneStep

LosingIter(bs, w, l, seq) ==
    CHOOSE g : g = [s \in SUBSET DOMAIN seq |->
        IF s = {} THEN l ELSE LostStep(bs, w, g[s \ {Max(s)}], seq[Max(s)])]

LEMMA LosingUnfolds ==
    ASSUME NEW bs, NEW w, NEW l, NEW seq
    PROVE  Losing(bs, w, l, seq) = LosingIter(bs, w, l, seq)[DOMAIN seq]
BY DEF Losing, FoldLeft, MapThenFoldSet, LosingIter

LossTable(bs, w) == [p \in (SUBSET Losable(bs)) \X Events(bs) |-> LostStep(bs, w, p[1], p[2])]

LEMMA LossTableFacts ==
    ASSUME NEW bs, NEW w
    PROVE  /\ LossTable(bs, w) \in [(SUBSET Losable(bs)) \X Events(bs) -> SUBSET Losable(bs)]
           /\ \A l \in SUBSET Losable(bs), e \in Events(bs) : LossTable(bs, w)[<<l, e>>] = LostStep(bs, w, l, e)
BY LostStepType DEF LossTable

LEMMA LosingIsFold ==
    ASSUME NEW bs, NEW w, NEW l \in SUBSET Losable(bs), NEW seq \in Seq(Events(bs)), NEW h,
           IsFold(SUBSET Losable(bs), LossTable(bs, w), l, seq, h)
    PROVE  Losing(bs, w, l, seq) = h[1 .. Len(seq)]
<1>. DEFINE n == Len(seq)
            G == LossTable(bs, w)
            g == LosingIter(bs, w, l, seq)
<1>1. n \in Nat /\ DOMAIN seq = 1 .. n /\ \A i \in 1 .. n : seq[i] \in Events(bs)
  OBVIOUS
<1>2. /\ h \in [SUBSET (1 .. n) -> SUBSET Losable(bs)]
      /\ \A s \in SUBSET (1 .. n) : h[s] = IF s = {} THEN l ELSE G[<<h[s \ {Max(s)}], seq[Max(s)]>>]
  BY DEF IsFold
<1>. HIDE DEF n, G
<1>3. ASSUME NEW s \in SUBSET (1 .. n), s # {}
      PROVE  h[s] = LostStep(bs, w, h[s \ {Max(s)}], seq[Max(s)])
  <2>1. Max(s) \in 1 .. n
    BY <1>1, <1>3, MaxFacts
  <2>2. h[s \ {Max(s)}] \in SUBSET Losable(bs) /\ seq[Max(s)] \in Events(bs)
    BY <1>1, <1>2, <2>1
  <2>. QED BY <1>2, <1>3, <2>2, LossTableFacts DEF G
<1>4. h = [s \in SUBSET DOMAIN seq |->
            IF s = {} THEN l ELSE LostStep(bs, w, h[s \ {Max(s)}], seq[Max(s)])]
  BY <1>1, <1>2, <1>3
<1>5. g = [s \in SUBSET DOMAIN seq |->
            IF s = {} THEN l ELSE LostStep(bs, w, g[s \ {Max(s)}], seq[Max(s)])]
  BY <1>4 DEF LosingIter
<1>. HIDE DEF g
<1>6. \A s \in SUBSET (1 .. n) :
        g[s] = IF s = {} THEN l ELSE LostStep(bs, w, g[s \ {Max(s)}], seq[Max(s)])
  BY <1>1, <1>5
<1>7. \A s \in SUBSET (1 .. n) :
        (s = {} \/ (Max(s) \in s /\ g[s \ {Max(s)}] = h[s \ {Max(s)}])) => g[s] = h[s]
  BY <1>2, <1>3, <1>6
<1>8. g[1 .. n] = h[1 .. n]
  BY <1>1, <1>7, SameIteration
<1>. QED BY <1>1, <1>8, LosingUnfolds DEF g, n

\* What is lost goes event by event as well.
LEMMA LosingEmpty == ASSUME NEW bs, NEW w, NEW l \in SUBSET Losable(bs) PROVE Losing(bs, w, l, <<>>) = l
<1>. DEFINE none == <<>>
            G == LossTable(bs, w)
<1>1. none \in Seq(Events(bs)) /\ Len(none) = 0 /\ 1 .. Len(none) = {}
  OBVIOUS
<1>2. G \in [(SUBSET Losable(bs)) \X Events(bs) -> SUBSET Losable(bs)]
  BY LossTableFacts
<1>. HIDE DEF none, G
<1>3. PICK h : IsFold(SUBSET Losable(bs), G, l, none, h)
  BY <1>1, <1>2, FoldExists
<1>4. Losing(bs, w, l, none) = h[1 .. Len(none)]
  <2>1. none \in Seq(Events(bs))
    BY <1>1
  <2>. QED BY <1>3, <2>1, LosingIsFold DEF G
<1>5. h[{}] = l
  BY <1>3 DEF IsFold
<1>. QED BY <1>1, <1>4, <1>5 DEF none

LEMMA LosingAppend ==
    ASSUME NEW bs, NEW w, NEW l \in SUBSET Losable(bs), NEW seq \in Seq(Events(bs)), NEW e \in Events(bs)
    PROVE  /\ Losing(bs, w, l, seq) \in SUBSET Losable(bs)
           /\ Losing(bs, w, l, Append(seq, e)) = LostStep(bs, w, Losing(bs, w, l, seq), e)
<1>. DEFINE G == LossTable(bs, w)
            t == Append(seq, e)
<1>0. Longer(seq, e, t) /\ t \in Seq(Events(bs)) /\ Len(t) = Len(seq) + 1
  BY AppendIsLonger
<1>. HIDE DEF G, t
<1>1. G \in [(SUBSET Losable(bs)) \X Events(bs) -> SUBSET Losable(bs)] /\ t \in Seq(Events(bs)) /\ Len(t) = Len(seq) + 1
  BY <1>0, LossTableFacts DEF G
<1>2. PICK h : IsFold(SUBSET Losable(bs), G, l, seq, h)
  BY <1>1, FoldExists
<1>3. PICK g : IsFold(SUBSET Losable(bs), G, l, t, g)
  BY <1>1, FoldExists
<1>4. Losing(bs, w, l, seq) = h[1 .. Len(seq)] /\ Losing(bs, w, l, t) = g[1 .. Len(t)]
  BY <1>1, <1>2, <1>3, LosingIsFold DEF G
<1>5. h[1 .. Len(seq)] \in SUBSET Losable(bs)
  BY <1>2 DEF IsFold
<1>6. OneStep(G, seq, e, h, g)
  BY <1>0, <1>2, <1>3, FoldAppend
<1>7. G[<<h[1 .. Len(seq)], e>>] = LostStep(bs, w, h[1 .. Len(seq)], e)
  BY <1>5, LossTableFacts DEF G
<1>. QED BY <1>1, <1>4, <1>5, <1>6, <1>7 DEF t, OneStep

\* The sum over the bindings.
SummedIter(d, a, seq) ==
    CHOOSE g : g = [s \in SUBSET DOMAIN seq |->
        IF s = {} THEN 0 ELSE SumStep(d, a, g[s \ {Max(s)}], seq[Max(s)])]

Places == [i \in DOMAIN bindings |-> i]

LEMMA SummedUnfolds ==
    ASSUME NEW d, NEW a
    PROVE  Summed(d, a, bindings) = SummedIter(d, a, Places)[DOMAIN Places]
BY DEF Summed, FoldLeft, MapThenFoldSet, SummedIter, Places

SumTable(d, a) == [p \in Int \X (DOMAIN bindings) |-> SumStep(d, a, p[1], p[2])]

\* The iteration's values at the subsets of the bindings.
IsSum(d, a, g) ==
    /\ \A s \in SUBSET (1 .. Len(bindings)) : g[s] \in Int
    /\ g[{}] = 0
    /\ \A s \in SUBSET (1 .. Len(bindings)) : s # {} =>
          g[s] = SumStep(d, a, g[s \ {Max(s)}], Max(s))
    /\ Summed(d, a, bindings) = g[1 .. Len(bindings)]

LEMMA SummedIsSum ==
    ASSUME bindings \in ActionMaps, NEW d, NEW a, \A i \in DOMAIN bindings : AxisValue(d, i) \in Int
    PROVE  \E g : IsSum(d, a, g)
<1>. DEFINE n == Len(bindings)
            D == DOMAIN bindings
            G == SumTable(d, a)
            g == SummedIter(d, a, Places)
<1>1. n \in Nat /\ D = 1 .. n
  BY TableFacts
<1>2. Places \in Seq(D) /\ Len(Places) = n /\ DOMAIN Places = 1 .. n /\ \A i \in 1 .. n : Places[i] = i
  BY <1>1 DEF Places
<1>3. \A x \in Int, i \in D : SumStep(d, a, x, i) \in Int
  BY DEF SumStep
<1>. HIDE DEF n, D
<1>4. /\ G \in [Int \X D -> Int]
      /\ \A x \in Int, i \in D : G[<<x, i>>] = SumStep(d, a, x, i)
  BY <1>3 DEF SumTable, D
<1>. HIDE DEF G
<1>5. PICK h : IsFold(Int, G, 0, Places, h)
  <2>1. 0 \in Int /\ Places \in Seq(D) /\ G \in [Int \X D -> Int]
    BY <1>2, <1>4
  <2>. QED BY <2>1, FoldExists
<1>6. /\ h \in [SUBSET (1 .. n) -> Int]
      /\ \A s \in SUBSET (1 .. n) : h[s] = IF s = {} THEN 0 ELSE G[<<h[s \ {Max(s)}], Places[Max(s)]>>]
  BY <1>2, <1>5 DEF IsFold
<1>7. ASSUME NEW s \in SUBSET (1 .. n), s # {}
      PROVE  /\ Places[Max(s)] = Max(s)
             /\ h[s] = SumStep(d, a, h[s \ {Max(s)}], Places[Max(s)])
  <2>1. Max(s) \in 1 .. n
    BY <1>1, <1>7, MaxFacts
  <2>2. h[s \ {Max(s)}] \in Int /\ Places[Max(s)] \in D /\ Places[Max(s)] = Max(s)
    BY <1>1, <1>2, <1>6, <2>1
  <2>. QED BY <1>4, <1>6, <1>7, <2>2
<1>8. h = [s \in SUBSET DOMAIN Places |->
            IF s = {} THEN 0 ELSE SumStep(d, a, h[s \ {Max(s)}], Places[Max(s)])]
  BY <1>2, <1>6, <1>7
<1>9. g = [s \in SUBSET DOMAIN Places |->
            IF s = {} THEN 0 ELSE SumStep(d, a, g[s \ {Max(s)}], Places[Max(s)])]
  BY <1>8 DEF SummedIter
<1>. HIDE DEF g
<1>10. \A s \in SUBSET (1 .. n) :
        g[s] = IF s = {} THEN 0 ELSE SumStep(d, a, g[s \ {Max(s)}], Places[Max(s)])
  BY <1>2, <1>9
<1>11. \A s \in SUBSET (1 .. n) :
        (s = {} \/ (Max(s) \in s /\ g[s \ {Max(s)}] = h[s \ {Max(s)}])) => g[s] = h[s]
  BY <1>6, <1>7, <1>10
<1>12. g[1 .. n] = h[1 .. n]
  BY <1>1, <1>11, SameIteration
<1>13. Summed(d, a, bindings) = h[1 .. n]
  BY <1>2, <1>12, SummedUnfolds DEF g
<1>14. IsSum(d, a, h)
  BY <1>6, <1>7, <1>13 DEF IsSum, n
<1>. QED BY <1>14

LEMMA SummedType ==
    ASSUME bindings \in ActionMaps, NEW d, NEW a, \A i \in DOMAIN bindings : AxisValue(d, i) \in Int
    PROVE  Summed(d, a, bindings) \in Int
<1>1. PICK g : IsSum(d, a, g)
  BY SummedIsSum
<1>. QED BY <1>1 DEF IsSum

\* Of the sum the only binding that resolves is left.
LEMMA SummedOfOne ==
    ASSUME bindings \in ActionMaps, NEW d, NEW a, \A j \in DOMAIN bindings : AxisValue(d, j) \in Int,
           NEW i \in DOMAIN bindings, \A j \in DOMAIN bindings : Resolves(a, j) => j = i
    PROVE  Summed(d, a, bindings) = IF Resolves(a, i) THEN AxisValue(d, i) ELSE 0
<1>. DEFINE n == Len(bindings)
            v == IF Resolves(a, i) THEN AxisValue(d, i) ELSE 0
<1>1. PICK g : IsSum(d, a, g)
  BY SummedIsSum
<1>2. n \in Nat /\ DOMAIN bindings = 1 .. n /\ i \in 1 .. n /\ v \in Int
  BY TableFacts
<1>. DEFINE T == {s \in SUBSET (1 .. n) : g[s] = IF i \in s THEN v ELSE 0}
<1>3. {} \in T
  BY <1>1 DEF IsSum
<1>4. ASSUME NEW s \in SUBSET (1 .. n), s # {}, s \ {Max(s)} \in T PROVE s \in T
  <2>. DEFINE m == Max(s)
              r == s \ {Max(s)}
              x == IF Resolves(a, m) THEN AxisValue(d, m) ELSE 0
  <2>1. m \in s /\ m \in 1 .. n
    BY <1>2, <1>4, MaxFacts
  <2>2. g[r] = (IF i \in r THEN v ELSE 0) /\ g[s] = SumStep(d, a, g[r], m)
    BY <1>1, <1>4 DEF IsSum
  <2>3. g[r] \in Int /\ x \in Int
    BY <1>2, <2>1, <2>2
  <2>4. SumStep(d, a, g[r], m) = g[r] + x
    BY <2>3 DEF SumStep
  <2>5. m # i => x = 0
    BY <1>2, <2>1
  <2>6. m = i => x = v /\ i \notin r
    OBVIOUS
  <2>7. m # i => (i \in r <=> i \in s)
    OBVIOUS
  <2>. HIDE DEF m, r, v, x
  <2>8. g[s] = IF i \in s THEN v ELSE 0
    BY <1>2, <2>1, <2>2, <2>3, <2>4, <2>5, <2>6, <2>7
  <2>. QED BY <2>8
<1>. HIDE DEF T, v
<1>5. SUBSET (1 .. n) \subseteq T
  BY <1>2, <1>3, <1>4, SubsetInduction
<1>6. g[1 .. n] = v
  BY <1>2, <1>5 DEF T
<1>. QED BY <1>1, <1>6 DEF IsSum, v

-----------------------------------------------------------------------------
(* What a device state knows of the controls, when these are lost: hs are  *)
(* the controls held, bf the order they were pressed in, p the state the   *)
(* fold began with.                                                        *)

IsLast(bs, i) == IsKeysAxis(bs, i) /\ bs[i].socd = "last"
IsFirst(bs, i) == IsKeysAxis(bs, i) /\ bs[i].socd = "first"
Keys(bs, i) == {bs[i].neg, bs[i].pos}
Dir(bs, i, c) == IF bs[i].pos = c THEN 1 ELSE -1
NewestOf(keys, hs, bf) == {c \in keys \cap hs : \A o \in (keys \cap hs) \ {c} : <<o, c>> \in bf}

KnowsControls(bs, d, l, hs) == \A c \in ControlsOf(bs) \ l : c \in d.down <=> c \in hs
KnowsModifiers(d, l, hs) == ModifierBits \notin l => d.mods = ModifiersOf(hs)
\* An axis of which a key is down has a direction.
Taken(bs, d) ==
    \A i \in DOMAIN bs : IsLast(bs, i) /\ Keys(bs, i) \cap d.down # {} => d.last_dir[i] # 0
\* It is that of the key pressed last, or of one that does not hold it any more.
NewestTakes(bs, d, l, hs, bf) ==
    \A i \in DOMAIN bs : IsLast(bs, i) =>
        \A c \in NewestOf(Keys(bs, i), hs, bf) \ l :
            \/ d.last_dir[i] = Dir(bs, i, c)
            \/ \E o \in Keys(bs, i) \ {c} : (o \notin d.down \/ o \in l) /\ d.last_dir[i] = Dir(bs, i, o)
\* Who came first keeps its axis, and the edges wait for the next frame.
Keeps(bs, d, p) ==
    /\ d.prev_down = p.prev_down
    /\ \A i \in DOMAIN bs : IsFirst(bs, i) /\ p.last_dir[i] # 0 => d.last_dir[i] = p.last_dir[i]

Knows(bs, d, l, hs, bf) ==
    /\ d \in Devices(bs) /\ l \in SUBSET Losable(bs)
    /\ KnowsControls(bs, d, l, hs) /\ KnowsModifiers(d, l, hs)
    /\ Taken(bs, d) /\ NewestTakes(bs, d, l, hs, bf)

\* The controls held, in a total order.
Ordered(bs, hs, bf) ==
    /\ hs \subseteq ControlsOf(bs) /\ bf \subseteq hs \X hs
    /\ \A a \in hs : <<a, a>> \notin bf
    /\ \A a, b \in hs : a # b => (<<a, b>> \in bf <=> <<b, a>> \notin bf)

\* The events a fold may still come to see, when the first k of them are lost.
Rest(seq, k) == SubSeq(seq, k + 1, Len(seq))
Gone(bs, l, seq, k) == l \cup UNION {Subjects(bs, seq[j]) : j \in 1 .. k}

FoldsToTheTruth(bs, p, l, seq, hs, bf) ==
    \A w \in SUBSET {"mouse", "keyboard"}, k \in 0 .. Len(seq) :
        LET d == Folded(bs, w, p, Rest(seq, k))
        IN  /\ Knows(bs, d, Losing(bs, w, Gone(bs, l, seq, k), Rest(seq, k)), hs, bf)
            /\ Keeps(bs, d, p)

\* An axis whose frame is not neutral is held by the key the frame says.
FrameIsOfAxis(bs, f, p) ==
    \A i \in DOMAIN bs :
        /\ IsFirst(bs, i) /\ Kind[bs[i].action] = "analog" /\ f[bs[i].action] # 0
        /\ \A j \in DOMAIN bs : bs[j].action = bs[i].action => j = i
        => f[bs[i].action] = p.last_dir[i] * Full

Down == {a \in Actions : frame[a] # 0}

IInv ==
    /\ bindings \in ActionMaps /\ active_context \in Contexts(bindings)
    /\ arrived \in Seq(Events(bindings)) /\ RingHolds(raw_events, arrived)
    /\ lp \in Devices(bindings) /\ lost \in SUBSET Losable(bindings)
    /\ Ordered(bindings, held, before)
    /\ FoldsToTheTruth(bindings, lp, lost, arrived, held, before)
    /\ frame \in [Actions -> -Full .. Full] /\ seen = Down /\ lp.prev_down = Down
    /\ FrameIsOfAxis(bindings, frame, lp)

-----------------------------------------------------------------------------
(* What an event of a control does to the fold, and to what is lost.       *)

Bits(c) == IF c[1] = "key" THEN {ModifierBits} ELSE {}

IsStep(bs, d, c, now, dn, f) ==
    /\ f \in Devices(bs)
    /\ f.down = IF dn THEN d.down \cup {c} ELSE d.down \ {c}
    /\ f.mods = IF c[1] = "key" THEN ModifiersOf(now) ELSE d.mods
    /\ \A i \in DOMAIN bs : IsLast(bs, i) =>
          f.last_dir[i] = IF dn /\ c \notin d.down /\ c \in Keys(bs, i) THEN Dir(bs, i, c)
                          ELSE d.last_dir[i]

LEMMA DigitalIsEvent ==
    ASSUME NEW bs \in ActionMaps, NEW c \in ControlsOf(bs), NEW now, NEW dn \in BOOLEAN
    PROVE  DigitalEvent(c, now, dn) \in DigitalEvents(bs)
<1>1. c[1] \in DigitalDevices
  BY ControlFacts
<1>2. ModifiersOf(now) \in SUBSET Modifiers
  BY DEF ModifiersOf
<1>. QED BY <1>1, <1>2 DEF DigitalEvent, DigitalEvents

LEMMA DigitalStep ==
    ASSUME NEW bs \in ActionMaps, NEW d \in Devices(bs), NEW c \in ControlsOf(bs), NEW now,
           NEW dn \in BOOLEAN, NEW f, f = FoldEvent(bs, d, DigitalEvent(c, now, dn))
    PROVE  IsStep(bs, d, c, now, dn, f)
<1>. DEFINE e == DigitalEvent(c, now, dn)
<1>1. e \in Events(bs) /\ c[1] \in DigitalDevices
  BY DigitalIsEvent, ControlFacts DEF Events
<1>2. e.kind = c[1] /\ e.control = c /\ e.down = dn /\ e.mods = ModifiersOf(now)
  BY DEF DigitalEvent
<1>. HIDE DEF e
<1>3. f \in Devices(bs) /\ f = FoldEvent(bs, d, e)
  BY <1>1, FoldEventType DEF e
<1>4. Toggled(d, e) = IF dn THEN d.down \cup {c} ELSE d.down \ {c}
  BY <1>2 DEF Toggled
<1>5. CASE c[1] = "key"
  <2>1. f = KeyFolded(bs, d, e)
    BY <1>2, <1>3, <1>5, FoldKeyIs DEF FoldEvent
  <2>2. f.down = Toggled(d, e) /\ f.mods = e.mods /\ f.last_dir = Turned(bs, d, e)
    BY <2>1 DEF KeyFolded
  <2>3. ASSUME NEW i \in DOMAIN bs, IsLast(bs, i)
        PROVE  f.last_dir[i] = IF dn /\ c \notin d.down /\ c \in Keys(bs, i) THEN Dir(bs, i, c)
                               ELSE d.last_dir[i]
    <3>1. f.last_dir[i] = IF dn /\ c \notin d.down THEN PressedDir(bs[i], d.last_dir[i], c)
                          ELSE d.last_dir[i]
      BY <1>2, <2>2 DEF Turned
    <3>2. PressedDir(bs[i], d.last_dir[i], c) =
             IF c \in Keys(bs, i) THEN Dir(bs, i, c) ELSE d.last_dir[i]
      BY <2>3 DEF PressedDir, Keys, Dir, IsLast, IsKeysAxis
    <3>. QED BY <3>1, <3>2
  <2>. QED BY <1>2, <1>3, <1>4, <1>5, <2>2, <2>3 DEF IsStep
<1>6. CASE c[1] # "key"
  <2>1. d = [down |-> d.down, mods |-> d.mods, axis |-> d.axis, motion |-> d.motion,
             prev_down |-> d.prev_down, last_dir |-> d.last_dir]
    BY DEF Devices
  <2>2. f = [d EXCEPT !.down = Toggled(d, e)]
    BY <1>1, <1>2, <1>3, <1>6, <2>1 DEF FoldEvent, Toggled, DigitalDevices
  <2>3. f.down = Toggled(d, e) /\ f.mods = d.mods /\ f.last_dir = d.last_dir
    BY <2>1, <2>2
  <2>4. \A i \in DOMAIN bs : IsLast(bs, i) => c \notin Keys(bs, i)
    BY <1>6, ControlFacts DEF IsLast, Keys
  <2>. QED BY <1>3, <1>4, <1>6, <2>3, <2>4 DEF IsStep
<1>. QED BY <1>5, <1>6

LEMMA DigitalSubjects ==
    ASSUME NEW bs \in ActionMaps, NEW c \in ControlsOf(bs), NEW now, NEW dn \in BOOLEAN
    PROVE  /\ Subjects(bs, DigitalEvent(c, now, dn)) = {c} \cup Bits(c)
           /\ Settles(bs, DigitalEvent(c, now, dn)) = IF dn THEN Bits(c) ELSE {c} \cup Bits(c)
<1>. DEFINE e == DigitalEvent(c, now, dn)
<1>1. c[1] \in DigitalDevices /\ c # ModifierBits
  BY ControlFacts
<1>2. e.kind = c[1] /\ e.control = c /\ e.down = dn
  BY DEF DigitalEvent
<1>. HIDE DEF e
<1>3. Subjects(bs, e) = {c} \cup Bits(c)
  BY <1>1, <1>2 DEF Subjects, Bits, DigitalDevices
<1>4. ({c} \cup Bits(c)) \cap {ModifierBits} = Bits(c)
  BY <1>1 DEF Bits
<1>5. Settles(bs, e) = IF dn THEN Bits(c) ELSE {c} \cup Bits(c)
  BY <1>1, <1>2, <1>3, <1>4 DEF Settles
<1>. QED BY <1>3, <1>5 DEF e

\* No event turns an axis of SOCD_FIRST_WINS that has a direction, nor an edge.
LEMMA KeepsStep ==
    ASSUME NEW bs, NEW w, NEW p, NEW d \in Devices(bs), NEW e \in Events(bs), Keeps(bs, d, p)
    PROVE  Keeps(bs, DeviceStep(bs, w, d, e), p)
<1>. DEFINE f == FoldEvent(bs, d, e)
<1>1. f \in Devices(bs) /\ f.prev_down = d.prev_down
  BY FoldEventType
<1>0. d = [down |-> d.down, mods |-> d.mods, axis |-> d.axis, motion |-> d.motion,
           prev_down |-> d.prev_down, last_dir |-> d.last_dir]
  BY DEF Devices
<1>2. ASSUME NEW i \in DOMAIN bs, IsFirst(bs, i), d.last_dir[i] # 0
      PROVE  f.last_dir[i] = d.last_dir[i]
  <2>1. CASE e.kind = "key"
    <3>1. f = KeyFolded(bs, d, e)
      BY <2>1, FoldKeyIs DEF FoldEvent
    <3>2. f.last_dir = Turned(bs, d, e)
      BY <3>1 DEF KeyFolded
    <3>3. PressedDir(bs[i], d.last_dir[i], e.control) = d.last_dir[i]
      BY <1>2 DEF PressedDir, IsFirst
    <3>. QED BY <3>2, <3>3 DEF Turned
  <2>2. CASE e.kind \in {"mouse_button", "pad_button"}
    BY <1>0, <2>2 DEF FoldEvent
  <2>3. CASE e.kind \in {"mouse_move", "pad_axis"}
    BY <1>0, <2>3 DEF FoldEvent
  <2>4. CASE e.kind = "pad_connect"
    BY <1>0, <2>4 DEF FoldEvent, FoldPadConnect
  <2>5. e.kind \in {"key", "mouse_button", "pad_button", "mouse_move", "pad_axis", "pad_connect"}
    BY DEF Events, DigitalEvents, ValueEvents, ConnectEvents, DigitalDevices
  <2>. QED BY <2>1, <2>2, <2>3, <2>4, <2>5
<1>. HIDE DEF f
<1>3. Keeps(bs, f, p)
  BY <1>1, <1>2 DEF Keeps
<1>. QED BY <1>3 DEF DeviceStep, f

-----------------------------------------------------------------------------
(* What is known stays known: one lemma for each thing the player does,    *)
(* for the event folded (f) and for the event lost (d).                    *)

LEMMA KeyFacts ==
    ASSUME NEW bs \in ActionMaps, NEW i \in DOMAIN bs, IsLast(bs, i)
    PROVE  \A k \in Keys(bs, i) :
              /\ k \in ControlsOf(bs) /\ k # ModifierBits /\ k[1] = "key"
              /\ Dir(bs, i, k) \in {-1, 1}
<1>1. \A k \in Keys(bs, i) : k \in ControlsOf(bs) /\ k[1] = "key"
  BY ControlFacts DEF IsLast, Keys
<1>2. \A k \in Keys(bs, i) : k # ModifierBits
  BY <1>1, ControlFacts
<1>. QED BY <1>1, <1>2 DEF Dir

LEMMA KnowsFacts ==
    ASSUME NEW bs \in ActionMaps, NEW hs, NEW bf, Ordered(bs, hs, bf), NEW d, NEW l, Knows(bs, d, l, hs, bf)
    PROVE  /\ d \in Devices(bs) /\ l \in SUBSET Losable(bs) /\ hs \subseteq ControlsOf(bs)
           /\ \A c \in ControlsOf(bs) : c # ModifierBits /\ (c \notin l => (c \in d.down <=> c \in hs))
           /\ ModifierBits \notin l => d.mods = ModifiersOf(hs)
<1>1. \A c \in ControlsOf(bs) : c # ModifierBits
  BY ControlFacts
<1>. QED BY <1>1 DEF Knows, KnowsControls, KnowsModifiers, Ordered

\* To lose more, or to have fewer that are newest, is to know no less of the axes.
LEMMA LosingMore ==
    ASSUME NEW bs, NEW d, NEW l, NEW hs, NEW bf, NewestTakes(bs, d, l, hs, bf),
           NEW l2, l \subseteq l2, NEW hs2, NEW bf2,
           \A i \in DOMAIN bs : IsLast(bs, i) =>
               NewestOf(Keys(bs, i), hs2, bf2) \ l2 \subseteq NewestOf(Keys(bs, i), hs, bf)
    PROVE  NewestTakes(bs, d, l2, hs2, bf2)
<1>1. ASSUME NEW i \in DOMAIN bs, IsLast(bs, i), NEW x \in NewestOf(Keys(bs, i), hs2, bf2) \ l2
      PROVE  \/ d.last_dir[i] = Dir(bs, i, x)
             \/ \E o \in Keys(bs, i) \ {x} : (o \notin d.down \/ o \in l2) /\ d.last_dir[i] = Dir(bs, i, o)
  <2>1. x \in NewestOf(Keys(bs, i), hs, bf) \ l
    BY <1>1
  <2>. QED BY <1>1, <2>1 DEF NewestTakes
<1>. QED BY <1>1 DEF NewestTakes

LEMMA NoKeyNoModifier ==
    ASSUME NEW hs, NEW hs2, NEW cs, \A c \in cs : c[1] # "key", hs \ cs = hs2 \ cs
    PROVE  ModifiersOf(hs) = ModifiersOf(hs2)
<1>1. \A m \in Modifiers : <<"key", m>> \notin cs
  OBVIOUS
<1>. QED BY <1>1 DEF ModifiersOf

LEMMA PressOrders ==
    ASSUME NEW bs, NEW hs, NEW bf, Ordered(bs, hs, bf), NEW c \in ControlsOf(bs) \ hs,
           NEW hs2, hs2 = hs \cup {c}, NEW bf2, bf2 = bf \cup (hs \X {c})
    PROVE  /\ Ordered(bs, hs2, bf2)
           /\ \A keys : c \in keys => NewestOf(keys, hs2, bf2) \subseteq {c}
           /\ \A keys : c \notin keys => NewestOf(keys, hs2, bf2) \subseteq NewestOf(keys, hs, bf)
<1>1. Ordered(bs, hs2, bf2)
  BY DEF Ordered
<1>2. ASSUME NEW keys, c \in keys, NEW x \in NewestOf(keys, hs2, bf2) PROVE x = c
  <2>1. x # c => <<c, x>> \in bf2
    BY <1>2 DEF NewestOf
  <2>2. <<c, x>> \notin bf
    BY DEF Ordered
  <2>3. x # c => <<c, x>> \notin hs \X {c}
    OBVIOUS
  <2>. QED BY <2>1, <2>2, <2>3
<1>3. ASSUME NEW keys, c \notin keys, NEW x \in NewestOf(keys, hs2, bf2)
      PROVE  x \in NewestOf(keys, hs, bf)
  BY <1>3 DEF NewestOf, Ordered
<1>. QED BY <1>1, <1>2, <1>3

LEMMA PressKnows ==
    ASSUME NEW bs \in ActionMaps, NEW hs, NEW bf, Ordered(bs, hs, bf), NEW c \in ControlsOf(bs) \ hs,
           NEW d, NEW l, Knows(bs, d, l, hs, bf),
           NEW hs2, hs2 = hs \cup {c}, NEW bf2, bf2 = bf \cup (hs \X {c}),
           NEW f, IsStep(bs, d, c, hs2, TRUE, f)
    PROVE  /\ Knows(bs, f, l \ Bits(c), hs2, bf2)
           /\ Knows(bs, d, l \cup ({c} \cup Bits(c)), hs2, bf2)
<1>. DEFINE l1 == l \ Bits(c)
            l2 == l \cup ({c} \cup Bits(c))
<1>1. /\ d \in Devices(bs) /\ l \in SUBSET Losable(bs) /\ hs \subseteq ControlsOf(bs)
      /\ \A x \in ControlsOf(bs) : x # ModifierBits /\ (x \notin l => (x \in d.down <=> x \in hs))
      /\ ModifierBits \notin l => d.mods = ModifiersOf(hs)
  BY KnowsFacts
<1>2. /\ f \in Devices(bs) /\ f.down = d.down \cup {c}
      /\ f.mods = IF c[1] = "key" THEN ModifiersOf(hs2) ELSE d.mods
  BY DEF IsStep
<1>3. Bits(c) \subseteq {ModifierBits} /\ (c[1] # "key" => Bits(c) = {}) /\ (c[1] = "key" => ModifierBits \in Bits(c))
  BY DEF Bits
<1>4. c[1] # "key" => ModifiersOf(hs) = ModifiersOf(hs2)
  <2>1. c[1] # "key" => (\A x \in {c} : x[1] # "key") /\ hs \ {c} = hs2 \ {c}
    OBVIOUS
  <2>. QED BY <2>1, NoKeyNoModifier
<1>5. l1 \in SUBSET Losable(bs) /\ l2 \in SUBSET Losable(bs)
  BY <1>1, <1>3 DEF Losable
<1>6. KnowsControls(bs, f, l1, hs2) /\ KnowsControls(bs, d, l2, hs2)
  BY <1>1, <1>2, <1>3 DEF KnowsControls
<1>7. KnowsModifiers(f, l1, hs2) /\ KnowsModifiers(d, l2, hs2)
  BY <1>1, <1>2, <1>3, <1>4 DEF KnowsModifiers
<1>8. Taken(bs, f) /\ Taken(bs, d)
  <2>1. Taken(bs, d)
    BY DEF Knows
  <2>2. ASSUME NEW i \in DOMAIN bs, IsLast(bs, i), Keys(bs, i) \cap f.down # {}
        PROVE  f.last_dir[i] # 0
    <3>1. CASE c \notin d.down /\ c \in Keys(bs, i)
      BY <2>2, <3>1, KeyFacts DEF IsStep
    <3>2. CASE c \in d.down \/ c \notin Keys(bs, i)
      <4>1. f.last_dir[i] = d.last_dir[i] /\ Keys(bs, i) \cap d.down # {}
        BY <1>2, <2>2, <3>2 DEF IsStep
      <4>. QED BY <2>1, <2>2, <4>1 DEF Taken
    <3>. QED BY <3>1, <3>2
  <2>. QED BY <2>1, <2>2 DEF Taken
<1>9. /\ \A keys : c \in keys => NewestOf(keys, hs2, bf2) \subseteq {c}
      /\ \A keys : c \notin keys => NewestOf(keys, hs2, bf2) \subseteq NewestOf(keys, hs, bf)
  BY PressOrders
<1>10. NewestTakes(bs, d, l, hs, bf)
  BY DEF Knows
<1>11. NewestTakes(bs, d, l2, hs2, bf2)
  <2>1. \A i \in DOMAIN bs : NewestOf(Keys(bs, i), hs2, bf2) \ l2 \subseteq NewestOf(Keys(bs, i), hs, bf)
    BY <1>9
  <2>. QED BY <1>10, <2>1, LosingMore
<1>12. NewestTakes(bs, f, l1, hs2, bf2)
  <2>1. ASSUME NEW i \in DOMAIN bs, IsLast(bs, i), NEW x \in NewestOf(Keys(bs, i), hs2, bf2) \ l1
        PROVE  \/ f.last_dir[i] = Dir(bs, i, x)
               \/ \E o \in Keys(bs, i) \ {x} : (o \notin f.down \/ o \in l1) /\ f.last_dir[i] = Dir(bs, i, o)
    <3>1. CASE c \in Keys(bs, i)
      <4>1. x = c /\ c \notin l /\ c \notin d.down
        BY <1>1, <1>3, <1>9, <2>1, <3>1
      <4>. QED BY <2>1, <3>1, <4>1 DEF IsStep
    <3>2. CASE c \notin Keys(bs, i)
      <4>1. x \in NewestOf(Keys(bs, i), hs, bf) /\ x \in Keys(bs, i)
        BY <1>9, <2>1, <3>2 DEF NewestOf
      <4>2. x \notin l /\ f.last_dir[i] = d.last_dir[i]
        BY <1>3, <2>1, <3>2, <4>1, KeyFacts DEF IsStep
      <4>3. \A o \in Keys(bs, i) : (o \notin d.down \/ o \in l) => (o \notin f.down \/ o \in l1)
        BY <1>2, <1>3, <2>1, <3>2, KeyFacts
      <4>. QED BY <1>10, <2>1, <4>1, <4>2, <4>3 DEF NewestTakes
    <3>. QED BY <3>1, <3>2
  <2>. QED BY <2>1 DEF NewestTakes
<1>. QED BY <1>1, <1>2, <1>5, <1>6, <1>7, <1>8, <1>11, <1>12 DEF Knows

\* What is let go of leaves the order of the rest.
Without(bf, cs) == {p \in bf : p[1] \notin cs /\ p[2] \notin cs}

LEMMA LetGoOrders ==
    ASSUME NEW bs, NEW hs, NEW bf, Ordered(bs, hs, bf), NEW cs,
           NEW hs2, hs2 = hs \ cs, NEW bf2, bf2 = Without(bf, cs)
    PROVE  /\ Ordered(bs, hs2, bf2)
           /\ \A keys : keys \cap hs \cap cs = {} => NewestOf(keys, hs2, bf2) \subseteq NewestOf(keys, hs, bf)
           /\ \A keys : \A x \in NewestOf(keys, hs2, bf2) \ NewestOf(keys, hs, bf) :
                 \E o \in keys \cap cs : o # x
<1>1. \A a, b : <<a, b>> \in bf2 <=> <<a, b>> \in bf /\ a \notin cs /\ b \notin cs
  BY DEF Without
<1>2. bf2 \subseteq hs2 \X hs2
  <2>1. \A p \in bf : p \in hs \X hs
    BY DEF Ordered
  <2>. QED BY <2>1 DEF Without
<1>3. Ordered(bs, hs2, bf2)
  BY <1>1, <1>2 DEF Ordered
<1>4. ASSUME NEW keys, NEW x \in NewestOf(keys, hs2, bf2), x \notin NewestOf(keys, hs, bf)
      PROVE  \E o \in keys \cap hs \cap cs : o # x
  <2>1. x \in keys \cap hs2 /\ \A o \in (keys \cap hs2) \ {x} : <<o, x>> \in bf2
    BY DEF NewestOf
  <2>2. x \in keys \cap hs
    BY <2>1
  <2>3. PICK o \in (keys \cap hs) \ {x} : <<o, x>> \notin bf
    BY <1>4, <2>2 DEF NewestOf
  <2>4. o \in cs
    BY <1>1, <2>1, <2>3
  <2>. QED BY <2>3, <2>4
<1>5. ASSUME NEW keys, keys \cap hs \cap cs = {}
      PROVE  NewestOf(keys, hs2, bf2) \subseteq NewestOf(keys, hs, bf)
  BY <1>4, <1>5
<1>6. ASSUME NEW keys, NEW x \in NewestOf(keys, hs2, bf2) \ NewestOf(keys, hs, bf)
      PROVE  \E o \in keys \cap cs : o # x
  BY <1>4
<1>. QED BY <1>3, <1>5, <1>6

LEMMA ReleaseKnows ==
    ASSUME NEW bs \in ActionMaps, NEW hs, NEW bf, Ordered(bs, hs, bf), NEW c \in hs,
           NEW d, NEW l, Knows(bs, d, l, hs, bf),
           NEW hs2, hs2 = hs \ {c}, NEW bf2, bf2 = Without(bf, {c}),
           NEW f, IsStep(bs, d, c, hs2, FALSE, f)
    PROVE  /\ Knows(bs, f, l \ ({c} \cup Bits(c)), hs2, bf2)
           /\ Knows(bs, d, l \cup ({c} \cup Bits(c)), hs2, bf2)
<1>. DEFINE l1 == l \ ({c} \cup Bits(c))
            l2 == l \cup ({c} \cup Bits(c))
<1>1. /\ d \in Devices(bs) /\ l \in SUBSET Losable(bs) /\ hs \subseteq ControlsOf(bs)
      /\ \A x \in ControlsOf(bs) : x # ModifierBits /\ (x \notin l => (x \in d.down <=> x \in hs))
      /\ ModifierBits \notin l => d.mods = ModifiersOf(hs)
  BY KnowsFacts
<1>2. /\ f \in Devices(bs) /\ f.down = d.down \ {c}
      /\ f.mods = IF c[1] = "key" THEN ModifiersOf(hs2) ELSE d.mods
      /\ \A i \in DOMAIN bs : IsLast(bs, i) => f.last_dir[i] = d.last_dir[i]
  BY DEF IsStep
<1>3. Bits(c) \subseteq {ModifierBits} /\ (c[1] # "key" => Bits(c) = {}) /\ (c[1] = "key" => ModifierBits \in Bits(c))
  BY DEF Bits
<1>4. c[1] # "key" => ModifiersOf(hs) = ModifiersOf(hs2)
  <2>1. c[1] # "key" => (\A x \in {c} : x[1] # "key") /\ hs \ {c} = hs2 \ {c}
    OBVIOUS
  <2>. QED BY <2>1, NoKeyNoModifier
<1>5. l1 \in SUBSET Losable(bs) /\ l2 \in SUBSET Losable(bs)
  BY <1>1, <1>3 DEF Losable
<1>6. KnowsControls(bs, f, l1, hs2) /\ KnowsControls(bs, d, l2, hs2)
  BY <1>1, <1>2, <1>3 DEF KnowsControls
<1>7. KnowsModifiers(f, l1, hs2) /\ KnowsModifiers(d, l2, hs2)
  BY <1>1, <1>2, <1>3, <1>4 DEF KnowsModifiers
<1>8. Taken(bs, f) /\ Taken(bs, d)
  BY <1>2 DEF Knows, Taken
<1>9. /\ \A keys : \A x \in NewestOf(keys, hs2, bf2) \ NewestOf(keys, hs, bf) :
            \E o \in keys \cap {c} : o # x
      /\ NewestTakes(bs, d, l, hs, bf)
  BY LetGoOrders DEF Knows
\* Whoever the axis falls to, of the other key the release is known or lost.
<1>10. ASSUME NEW i \in DOMAIN bs, IsLast(bs, i), NEW x \in NewestOf(Keys(bs, i), hs2, bf2), x \notin l
       PROVE  \/ d.last_dir[i] = Dir(bs, i, x)
              \/ \E o \in Keys(bs, i) \ {x} : (o \notin d.down \/ o \in l \/ o = c) /\ d.last_dir[i] = Dir(bs, i, o)
  <2>1. CASE x \in NewestOf(Keys(bs, i), hs, bf)
    BY <1>9, <1>10, <2>1 DEF NewestTakes
  <2>2. CASE x \notin NewestOf(Keys(bs, i), hs, bf)
    <3>1. x \in Keys(bs, i) /\ x \in hs /\ c \in Keys(bs, i) /\ c # x
      <4>1. x \in Keys(bs, i) /\ x \in hs
        BY DEF NewestOf
      <4>2. x \in NewestOf(Keys(bs, i), hs2, bf2) \ NewestOf(Keys(bs, i), hs, bf)
        BY <2>2
      <4>3. \E o \in Keys(bs, i) \cap {c} : o # x
        BY <1>9, <4>2
      <4>. QED BY <4>1, <4>3
    <3>2. x \in d.down
      BY <1>1, <1>10, <3>1, KeyFacts
    <3>3. d.last_dir[i] # 0 /\ d.last_dir[i] \in -1 .. 1
      BY <1>1, <1>10, <3>1, <3>2 DEF Knows, Taken, Devices
    <3>4. Dir(bs, i, x) # Dir(bs, i, c) /\ Dir(bs, i, x) \in {-1, 1} /\ Dir(bs, i, c) \in {-1, 1}
      BY <3>1 DEF Dir, Keys
    <3>5. d.last_dir[i] = Dir(bs, i, x) \/ d.last_dir[i] = Dir(bs, i, c)
      BY <3>3, <3>4
    <3>. QED BY <3>1, <3>5
  <2>. QED BY <2>1, <2>2
<1>11. NewestTakes(bs, d, l2, hs2, bf2)
  <2>1. ASSUME NEW i \in DOMAIN bs, IsLast(bs, i), NEW x \in NewestOf(Keys(bs, i), hs2, bf2) \ l2
        PROVE  \/ d.last_dir[i] = Dir(bs, i, x)
               \/ \E o \in Keys(bs, i) \ {x} : (o \notin d.down \/ o \in l2) /\ d.last_dir[i] = Dir(bs, i, o)
    BY <1>10, <2>1
  <2>. QED BY <2>1 DEF NewestTakes
<1>12. NewestTakes(bs, f, l1, hs2, bf2)
  <2>1. ASSUME NEW i \in DOMAIN bs, IsLast(bs, i), NEW x \in NewestOf(Keys(bs, i), hs2, bf2) \ l1
        PROVE  \/ f.last_dir[i] = Dir(bs, i, x)
               \/ \E o \in Keys(bs, i) \ {x} : (o \notin f.down \/ o \in l1) /\ f.last_dir[i] = Dir(bs, i, o)
    <3>1. x \in Keys(bs, i) /\ x # c /\ x # ModifierBits
      BY <2>1, KeyFacts DEF NewestOf
    <3>2. x \notin l
      BY <1>3, <2>1, <3>1
    <3>3. \A o \in Keys(bs, i) : (o \notin d.down \/ o \in l \/ o = c) => (o \notin f.down \/ o \in l1)
      BY <1>2, <1>3, <2>1, KeyFacts
    <3>. QED BY <1>2, <1>10, <2>1, <3>2, <3>3, SMTT(40)
  <2>. QED BY <2>1 DEF NewestTakes
<1>. QED BY <1>1, <1>2, <1>5, <1>6, <1>7, <1>8, <1>11, <1>12 DEF Knows

LEMMA RepeatKnows ==
    ASSUME NEW bs \in ActionMaps, NEW hs, NEW bf, Ordered(bs, hs, bf), NEW c \in NewestOf(hs, hs, bf),
           NEW d, NEW l, Knows(bs, d, l, hs, bf), NEW f, IsStep(bs, d, c, hs, TRUE, f)
    PROVE  /\ Knows(bs, f, l \ Bits(c), hs, bf)
           /\ Knows(bs, d, l \cup ({c} \cup Bits(c)), hs, bf)
<1>. DEFINE l1 == l \ Bits(c)
            l2 == l \cup ({c} \cup Bits(c))
<1>0. c \in hs /\ c \in ControlsOf(bs) /\ \A o \in hs \ {c} : <<o, c>> \in bf
  BY DEF NewestOf, Ordered
<1>1. /\ d \in Devices(bs) /\ l \in SUBSET Losable(bs) /\ hs \subseteq ControlsOf(bs)
      /\ \A x \in ControlsOf(bs) : x # ModifierBits /\ (x \notin l => (x \in d.down <=> x \in hs))
      /\ ModifierBits \notin l => d.mods = ModifiersOf(hs)
  BY KnowsFacts
<1>2. /\ f \in Devices(bs) /\ f.down = d.down \cup {c}
      /\ f.mods = IF c[1] = "key" THEN ModifiersOf(hs) ELSE d.mods
  BY DEF IsStep
<1>3. Bits(c) \subseteq {ModifierBits} /\ (c[1] # "key" => Bits(c) = {}) /\ (c[1] = "key" => ModifierBits \in Bits(c))
  BY DEF Bits
<1>5. l1 \in SUBSET Losable(bs) /\ l2 \in SUBSET Losable(bs)
  BY <1>0, <1>1, <1>3 DEF Losable
<1>6. KnowsControls(bs, f, l1, hs) /\ KnowsControls(bs, d, l2, hs)
  BY <1>0, <1>1, <1>2, <1>3 DEF KnowsControls
<1>7. KnowsModifiers(f, l1, hs) /\ KnowsModifiers(d, l2, hs)
  BY <1>1, <1>2, <1>3 DEF KnowsModifiers
<1>8. Taken(bs, f) /\ Taken(bs, d)
  <2>1. Taken(bs, d)
    BY DEF Knows
  <2>2. ASSUME NEW i \in DOMAIN bs, IsLast(bs, i), Keys(bs, i) \cap f.down # {}
        PROVE  f.last_dir[i] # 0
    <3>1. CASE c \notin d.down /\ c \in Keys(bs, i)
      BY <2>2, <3>1, KeyFacts DEF IsStep
    <3>2. CASE c \in d.down \/ c \notin Keys(bs, i)
      <4>1. f.last_dir[i] = d.last_dir[i] /\ Keys(bs, i) \cap d.down # {}
        BY <1>2, <2>2, <3>2 DEF IsStep
      <4>. QED BY <2>1, <2>2, <4>1 DEF Taken
    <3>. QED BY <3>1, <3>2
  <2>. QED BY <2>1, <2>2 DEF Taken
<1>9. NewestTakes(bs, d, l, hs, bf)
  BY DEF Knows
<1>10. ASSUME NEW keys, c \in keys, NEW x \in NewestOf(keys, hs, bf) PROVE x = c
  <2>1. x \in hs /\ (x # c => <<c, x>> \in bf /\ <<x, c>> \in bf)
    BY <1>0, <1>10 DEF NewestOf
  <2>. QED BY <1>0, <2>1 DEF Ordered
<1>11. NewestTakes(bs, d, l2, hs, bf)
  BY <1>9, LosingMore
<1>12. NewestTakes(bs, f, l1, hs, bf)
  <2>1. ASSUME NEW i \in DOMAIN bs, IsLast(bs, i), NEW x \in NewestOf(Keys(bs, i), hs, bf) \ l1
        PROVE  \/ f.last_dir[i] = Dir(bs, i, x)
               \/ \E o \in Keys(bs, i) \ {x} : (o \notin f.down \/ o \in l1) /\ f.last_dir[i] = Dir(bs, i, o)
    <3>1. x \in Keys(bs, i) /\ x # ModifierBits /\ x \notin l
      BY <1>3, <2>1, KeyFacts DEF NewestOf
    <3>2. c \in Keys(bs, i) => c \in d.down
      BY <1>0, <1>1, <1>10, <2>1, <3>1
    <3>3. f.last_dir[i] = d.last_dir[i]
      BY <2>1, <3>2 DEF IsStep
    <3>4. \A o \in Keys(bs, i) : (o \notin d.down \/ o \in l) => (o \notin f.down \/ o \in l1)
      BY <1>2, <1>3, <2>1, <3>2, KeyFacts
    <3>. QED BY <1>9, <2>1, <3>1, <3>3, <3>4 DEF NewestTakes
  <2>. QED BY <2>1 DEF NewestTakes
<1>. QED BY <1>1, <1>2, <1>5, <1>6, <1>7, <1>8, <1>11, <1>12 DEF Knows

\* What a pad that went takes with it.
Pads(bs) == {c \in ControlsOf(bs) : IsPad(c)}

LEMMA PadSubjects ==
    ASSUME NEW bs, NEW up \in BOOLEAN
    PROVE  /\ Subjects(bs, PadConnect(up)) = IF up THEN {} ELSE Pads(bs)
           /\ Settles(bs, PadConnect(up)) = IF up THEN {} ELSE Pads(bs)
           /\ PadConnect(up) \in ConnectEvents
BY DEF PadConnect, Subjects, Settles, Pads, DigitalDevices, ConnectEvents

LEMMA PadStep ==
    ASSUME NEW bs, NEW d \in Devices(bs), NEW f, f = FoldEvent(bs, d, PadConnect(FALSE))
    PROVE  /\ f \in Devices(bs) /\ f.mods = d.mods /\ f.last_dir = d.last_dir
           /\ f.down = {c \in d.down : ~IsPad(c)}
<1>. DEFINE e == PadConnect(FALSE)
<1>1. e.kind = "pad_connect" /\ e.connected = FALSE
  BY DEF PadConnect
<1>2. e \in Events(bs)
  BY PadSubjects DEF Events
<1>. HIDE DEF e
<1>3. f = FoldPadConnect(d, e)
  BY <1>1 DEF FoldEvent, e
<1>4. f \in Devices(bs)
  BY <1>2, FoldEventType DEF e
<1>5. d = [down |-> d.down, mods |-> d.mods, axis |-> d.axis, motion |-> d.motion,
           prev_down |-> d.prev_down, last_dir |-> d.last_dir]
  BY DEF Devices
<1>. DEFINE rest == {c \in d.down : ~IsPad(c)}
            g == [d EXCEPT !.axis = 0]
<1>6. g = [down |-> d.down, mods |-> d.mods, axis |-> 0, motion |-> d.motion,
           prev_down |-> d.prev_down, last_dir |-> d.last_dir]
  BY <1>5
<1>7. f = [g EXCEPT !.down = rest]
  BY <1>1, <1>3, <1>5 DEF FoldPadConnect
<1>. HIDE DEF rest, g
<1>8. f.mods = d.mods /\ f.last_dir = d.last_dir /\ f.down = rest
  BY <1>6, <1>7
<1>. QED BY <1>4, <1>8 DEF rest

LEMMA PadKnows ==
    ASSUME NEW bs \in ActionMaps, NEW hs, NEW bf, Ordered(bs, hs, bf),
           NEW d, NEW l, Knows(bs, d, l, hs, bf), NEW cs, cs = {c \in hs : IsPad(c)},
           NEW hs2, hs2 = hs \ cs, NEW bf2, bf2 = Without(bf, cs),
           NEW f, f = FoldEvent(bs, d, PadConnect(FALSE))
    PROVE  /\ Knows(bs, f, l \ Pads(bs), hs2, bf2)
           /\ Knows(bs, d, l \cup Pads(bs), hs2, bf2)
<1>. DEFINE l1 == l \ Pads(bs)
            l2 == l \cup Pads(bs)
<1>1. /\ d \in Devices(bs) /\ l \in SUBSET Losable(bs) /\ hs \subseteq ControlsOf(bs)
      /\ \A x \in ControlsOf(bs) : x # ModifierBits /\ (x \notin l => (x \in d.down <=> x \in hs))
      /\ ModifierBits \notin l => d.mods = ModifiersOf(hs)
  BY KnowsFacts
<1>2. /\ f \in Devices(bs) /\ f.mods = d.mods /\ f.last_dir = d.last_dir
      /\ f.down = {c \in d.down : ~IsPad(c)}
  BY <1>1, PadStep, ZenonT(60)
<1>3. \A c : c \in Pads(bs) <=> c \in ControlsOf(bs) /\ IsPad(c)
  BY DEF Pads
<1>4. ModifiersOf(hs) = ModifiersOf(hs2)
  <2>1. (\A x \in cs : x[1] # "key") /\ hs \ cs = hs2 \ cs
    BY DEF IsPad
  <2>. QED BY <2>1, NoKeyNoModifier
<1>5. ModifierBits \notin Pads(bs) /\ l1 \in SUBSET Losable(bs) /\ l2 \in SUBSET Losable(bs)
  BY <1>1, <1>3 DEF Losable
<1>6. KnowsControls(bs, f, l1, hs2) /\ KnowsControls(bs, d, l2, hs2)
  BY <1>1, <1>2, <1>3 DEF KnowsControls
<1>7. KnowsModifiers(f, l1, hs2) /\ KnowsModifiers(d, l2, hs2)
  BY <1>1, <1>2, <1>4, <1>5 DEF KnowsModifiers
<1>8. Taken(bs, f) /\ Taken(bs, d)
  BY <1>2 DEF Knows, Taken
<1>9. NewestTakes(bs, d, l, hs, bf)
  BY DEF Knows
<1>10. \A i \in DOMAIN bs : IsLast(bs, i) => \A k \in Keys(bs, i) : k \notin Pads(bs) /\ k \notin cs
  BY <1>3, KeyFacts DEF IsPad
<1>11. \A i \in DOMAIN bs : IsLast(bs, i) =>
          NewestOf(Keys(bs, i), hs2, bf2) \subseteq NewestOf(Keys(bs, i), hs, bf)
  <2>1. \A keys : keys \cap hs \cap cs = {} => NewestOf(keys, hs2, bf2) \subseteq NewestOf(keys, hs, bf)
    BY LetGoOrders
  <2>2. \A i \in DOMAIN bs : IsLast(bs, i) => Keys(bs, i) \cap hs \cap cs = {}
    BY <1>10
  <2>. QED BY <2>1, <2>2
<1>12. NewestTakes(bs, d, l2, hs2, bf2)
  BY <1>9, <1>11, LosingMore
<1>13. NewestTakes(bs, f, l1, hs2, bf2)
  <2>1. ASSUME NEW i \in DOMAIN bs, IsLast(bs, i), NEW x \in NewestOf(Keys(bs, i), hs2, bf2) \ l1
        PROVE  \/ f.last_dir[i] = Dir(bs, i, x)
               \/ \E o \in Keys(bs, i) \ {x} : (o \notin f.down \/ o \in l1) /\ f.last_dir[i] = Dir(bs, i, o)
    <3>1. x \in NewestOf(Keys(bs, i), hs, bf) /\ x \in Keys(bs, i)
      BY <1>11, <2>1 DEF NewestOf
    <3>2. x \notin l
      BY <1>10, <2>1, <3>1
    <3>3. \A o \in Keys(bs, i) : (o \notin d.down \/ o \in l) => (o \notin f.down \/ o \in l1)
      BY <1>2, <1>10, <2>1
    <3>. QED BY <1>2, <1>9, <2>1, <3>1, <3>2, <3>3 DEF NewestTakes
  <2>. QED BY <2>1 DEF NewestTakes
<1>. QED BY <1>1, <1>2, <1>5, <1>6, <1>7, <1>8, <1>12, <1>13 DEF Knows

\* An event of no control: a motion, a stick, a pad that comes.
LEMMA QuietKnows ==
    ASSUME NEW bs, NEW hs, NEW bf, NEW d, NEW l, Knows(bs, d, l, hs, bf),
           NEW e, e \in ValueEvents \/ e = PadConnect(TRUE)
    PROVE  /\ Knows(bs, FoldEvent(bs, d, e), l, hs, bf)
           /\ Subjects(bs, e) = {} /\ Settles(bs, e) = {}
<1>. DEFINE f == FoldEvent(bs, d, e)
<1>1. d \in Devices(bs)
  BY DEF Knows
<1>2. d = [down |-> d.down, mods |-> d.mods, axis |-> d.axis, motion |-> d.motion,
           prev_down |-> d.prev_down, last_dir |-> d.last_dir]
  BY <1>1 DEF Devices
<1>3. e \in Events(bs)
  BY PadSubjects DEF Events
<1>4. Subjects(bs, e) = {} /\ Settles(bs, e) = {}
  <2>1. CASE e \in ValueEvents
    BY <2>1 DEF ValueEvents, Subjects, Settles, DigitalDevices
  <2>2. CASE e = PadConnect(TRUE)
    BY <2>2, PadSubjects
  <2>. QED BY <2>1, <2>2
<1>5. f.down = d.down /\ f.mods = d.mods /\ f.last_dir = d.last_dir
  <2>1. CASE e \in ValueEvents
    BY <1>2, <2>1 DEF ValueEvents, FoldEvent
  <2>2. CASE e = PadConnect(TRUE)
    BY <1>2, <2>2 DEF PadConnect, FoldEvent, FoldPadConnect
  <2>. QED BY <2>1, <2>2
<1>6. f \in Devices(bs)
  BY <1>1, <1>3, FoldEventType
<1>. HIDE DEF f
<1>7. Knows(bs, f, l, hs, bf)
  BY <1>5, <1>6 DEF Knows, KnowsControls, KnowsModifiers, Taken, NewestTakes
<1>. QED BY <1>4, <1>7 DEF f

-----------------------------------------------------------------------------
(* What arrives, is overwritten and is folded later.                       *)

\* Whoever knows the controls as they were knows them as they are, be e folded or lost.
Stays(bs, e, hs, bf, hs2, bf2) ==
    \A d \in Devices(bs), l \in SUBSET Losable(bs) : Knows(bs, d, l, hs, bf) =>
        /\ Knows(bs, FoldEvent(bs, d, e), l \ Settles(bs, e), hs2, bf2)
        /\ Knows(bs, d, l \cup Subjects(bs, e), hs2, bf2)

LEMMA RestFacts ==
    ASSUME NEW E, NEW seq \in Seq(E), NEW k \in 0 .. Len(seq)
    PROVE  /\ Rest(seq, k) \in Seq(E) /\ Len(Rest(seq, k)) = Len(seq) - k
           /\ \A j \in 1 .. Len(seq) - k : Rest(seq, k)[j] = seq[k + j]
<1>1. Rest(seq, k) \in Seq(E)
  BY DEF Rest
<1>2. Len(Rest(seq, k)) = Len(seq) - k
  BY DEF Rest
<1>3. ASSUME NEW j \in 1 .. Len(seq) - k PROVE Rest(seq, k)[j] = seq[k + j]
  BY DEF Rest
<1>. QED BY <1>1, <1>2, <1>3

LEMMA RestOfAppend ==
    ASSUME NEW E, NEW seq \in Seq(E), NEW e \in E, NEW k \in 0 .. Len(seq)
    PROVE  Rest(Append(seq, e), k) = Append(Rest(seq, k), e)
<1>. DEFINE t == Append(seq, e)
            r == Rest(seq, k)
            n == Len(seq)
<1>1. t \in Seq(E) /\ Len(t) = n + 1 /\ n \in Nat /\ t[n + 1] = e /\ \A j \in 1 .. n : t[j] = seq[j]
  OBVIOUS
<1>2. r \in Seq(E) /\ Len(r) = n - k /\ \A j \in 1 .. n - k : r[j] = seq[k + j]
  BY RestFacts
<1>. HIDE DEF t, r, n
<1>3. k \in 0 .. n /\ k \in 0 .. Len(t)
  BY <1>1 DEF n
<1>4. Rest(t, k) \in Seq(E) /\ Len(Rest(t, k)) = n + 1 - k /\ \A j \in 1 .. n + 1 - k : Rest(t, k)[j] = t[k + j]
  <2>1. t \in Seq(E)
    BY <1>1
  <2>2. k \in 0 .. Len(t) /\ Len(t) = n + 1
    BY <1>1, <1>3
  <2>3. /\ Rest(t, k) \in Seq(E) /\ Len(Rest(t, k)) = Len(t) - k
        /\ \A j \in 1 .. Len(t) - k : Rest(t, k)[j] = t[k + j]
    BY <2>1, <2>2, RestFacts
  <2>4. Len(t) - k = n + 1 - k
    BY <1>1, <1>3
  <2>. QED BY <2>3, <2>4
<1>5. Append(r, e) \in Seq(E) /\ Len(Append(r, e)) = n + 1 - k
  BY <1>1, <1>2, <1>3
<1>6. ASSUME NEW j \in 1 .. n + 1 - k PROVE Rest(t, k)[j] = Append(r, e)[j]
  <2>1. CASE j = n + 1 - k
    BY <1>1, <1>2, <1>3, <1>4, <2>1
  <2>2. CASE j \in 1 .. n - k
    <3>1. Append(r, e)[j] = r[j]
      BY <1>2, <2>2
    <3>2. k + j \in 1 .. n
      BY <1>1, <1>3, <2>2
    <3>. QED BY <1>1, <1>2, <1>4, <2>2, <3>1, <3>2
  <2>3. j = n + 1 - k \/ j \in 1 .. n - k
    BY <1>1, <1>3
  <2>. QED BY <2>1, <2>2, <2>3
<1>7. Rest(t, k) = Append(r, e)
  BY <1>4, <1>5, <1>6
<1>. QED BY <1>7 DEF t, r

LEMMA RestOfTail ==
    ASSUME NEW E, NEW seq \in Seq(E), Len(seq) > 0, NEW k \in 0 .. Len(seq) - 1
    PROVE  Rest(Tail(seq), k) = Rest(seq, k + 1)
<1>. DEFINE t == Tail(seq)
            n == Len(seq)
<1>0. seq # <<>>
  OBVIOUS
<1>1. t \in Seq(E) /\ Len(t) = n - 1 /\ n \in Nat /\ \A j \in 1 .. n - 1 : t[j] = seq[j + 1]
  BY <1>0
<1>. HIDE DEF t, n
<1>2. k \in 0 .. n - 1 /\ k \in 0 .. Len(t) /\ k + 1 \in 0 .. Len(seq)
  BY <1>1 DEF n
<1>3. /\ Rest(t, k) \in Seq(E) /\ Len(Rest(t, k)) = Len(t) - k
      /\ \A j \in 1 .. Len(t) - k : Rest(t, k)[j] = t[k + j]
  <2>1. t \in Seq(E)
    BY <1>1
  <2>2. k \in 0 .. Len(t)
    BY <1>2
  <2>. QED BY <2>1, <2>2, RestFacts
<1>4. /\ Rest(seq, k + 1) \in Seq(E) /\ Len(Rest(seq, k + 1)) = n - (k + 1)
      /\ \A j \in 1 .. n - (k + 1) : Rest(seq, k + 1)[j] = seq[(k + 1) + j]
  BY <1>1, <1>2, RestFacts DEF n
<1>5. ASSUME NEW j \in 1 .. n - (k + 1) PROVE Rest(t, k)[j] = Rest(seq, k + 1)[j]
  <2>1. j \in 1 .. Len(t) - k /\ k + j \in 1 .. n - 1 /\ (k + j) + 1 = (k + 1) + j
    BY <1>1, <1>2
  <2>. QED BY <1>1, <1>3, <1>4, <2>1
<1>6. Len(Rest(t, k)) = n - (k + 1)
  BY <1>1, <1>2, <1>3
<1>7. Rest(t, k) = Rest(seq, k + 1)
  BY <1>3, <1>4, <1>5, <1>6
<1>. QED BY <1>7 DEF t

LEMMA RestOfAll == ASSUME NEW E, NEW seq \in Seq(E) PROVE Rest(seq, Len(seq)) = <<>>
<1>1. Len(seq) \in 0 .. Len(seq)
  OBVIOUS
<1>2. Rest(seq, Len(seq)) \in Seq(E) /\ Len(Rest(seq, Len(seq))) = 0
  BY <1>1, RestFacts
<1>. QED BY <1>2

LEMMA GoneType ==
    ASSUME NEW bs, NEW l \in SUBSET Losable(bs), NEW seq \in Seq(Events(bs)), NEW k \in 0 .. Len(seq)
    PROVE  Gone(bs, l, seq, k) \in SUBSET Losable(bs)
<1>1. \A j \in 1 .. k : seq[j] \in Events(bs)
  OBVIOUS
<1>. QED BY <1>1, SubjectsType DEF Gone

LEMMA InGone ==
    ASSUME NEW bs, NEW l, NEW seq, NEW k
    PROVE  \A x : x \in Gone(bs, l, seq, k) <=> x \in l \/ \E j \in 1 .. k : x \in Subjects(bs, seq[j])
BY DEF Gone

\* One event more, be it folded, masked or (with all before it) overwritten.
LEMMA OneMoreEvent ==
    ASSUME NEW bs \in ActionMaps, NEW w, NEW p \in Devices(bs), NEW g \in SUBSET Losable(bs),
           NEW r \in Seq(Events(bs)), NEW e \in Events(bs),
           NEW hs, NEW bf, NEW hs2, NEW bf2, Stays(bs, e, hs, bf, hs2, bf2),
           Knows(bs, Folded(bs, w, p, r), Losing(bs, w, g, r), hs, bf),
           Keeps(bs, Folded(bs, w, p, r), p)
    PROVE  /\ Knows(bs, Folded(bs, w, p, Append(r, e)), Losing(bs, w, g, Append(r, e)), hs2, bf2)
           /\ Keeps(bs, Folded(bs, w, p, Append(r, e)), p)
<1>. DEFINE d == Folded(bs, w, p, r)
            l == Losing(bs, w, g, r)
            d2 == Folded(bs, w, p, Append(r, e))
            l2 == Losing(bs, w, g, Append(r, e))
<1>1. d \in Devices(bs) /\ d2 = DeviceStep(bs, w, d, e)
  BY FoldedAppend
<1>2. l \in SUBSET Losable(bs) /\ l2 = LostStep(bs, w, l, e)
  BY LosingAppend
<1>3. Knows(bs, d, l, hs, bf) /\ Keeps(bs, d, p)
  OBVIOUS
<1>. HIDE DEF d, l, d2, l2
<1>4. /\ Knows(bs, FoldEvent(bs, d, e), l \ Settles(bs, e), hs2, bf2)
      /\ Knows(bs, d, l \cup Subjects(bs, e), hs2, bf2)
  BY <1>1, <1>2, <1>3 DEF Stays
<1>5. Knows(bs, d2, l2, hs2, bf2)
  BY <1>1, <1>2, <1>4 DEF DeviceStep, LostStep
<1>6. Keeps(bs, d2, p)
  BY <1>1, <1>3, KeepsStep
<1>. QED BY <1>5, <1>6 DEF d2, l2

\* What a push loses, and what is true of what is then left.
LostBy(bs, l, seq) == IF Len(seq) = Cap THEN l \cup Subjects(bs, Head(seq)) ELSE l
StillTrue(bs, p, l, seq, hs, bf) ==
    /\ seq \in Seq(Events(bs)) /\ l \in SUBSET Losable(bs)
    /\ FoldsToTheTruth(bs, p, l, seq, hs, bf)

LEMMA Arrival ==
    ASSUME NEW bs \in ActionMaps, NEW p \in Devices(bs), NEW l \in SUBSET Losable(bs),
           NEW seq \in Seq(Events(bs)), Len(seq) <= Cap, NEW e \in Events(bs),
           NEW hs, NEW bf, FoldsToTheTruth(bs, p, l, seq, hs, bf),
           NEW hs2, NEW bf2, Stays(bs, e, hs, bf, hs2, bf2),
           NEW seq2, seq2 = Pushed(seq, e),
           NEW l2, l2 = LostBy(bs, l, seq)
    PROVE  StillTrue(bs, p, l2, seq2, hs2, bf2)
<1>. DEFINE n == Len(seq)
            E == Events(bs)
            G(m) == Gone(bs, l, seq, m)
\* The fold of what is left is a fold there was, with e after it; or of nothing.
            Before(k, m) ==
                /\ Rest(seq2, k) = Append(Rest(seq, m), e) /\ Gone(bs, l2, seq2, k) = G(m)
            Nothing(k) == Rest(seq2, k) = <<>> /\ Gone(bs, l2, seq2, k) = G(n) \cup Subjects(bs, e)
<1>0. n \in Nat /\ Cap \in Nat \ {0} /\ e \in E /\ seq \in Seq(E)
  BY RingAssumption
<1>1. seq2 \in Seq(E) /\ l2 \in SUBSET Losable(bs) /\
      \A k \in 0 .. Len(seq2) : Nothing(k) \/ \E m \in 0 .. n : Before(k, m)
  <2>1. CASE n # Cap
    <3>1. seq2 = Append(seq, e) /\ l2 = l /\ Len(seq2) = n + 1 /\ seq2 \in Seq(E)
      BY <1>0, <2>1 DEF Pushed, LostBy
    <3>2. ASSUME NEW k \in 0 .. n PROVE Before(k, k)
      <4>1. Rest(seq2, k) = Append(Rest(seq, k), e)
        BY <1>0, <3>1, RestOfAppend
      <4>2. \A j \in 1 .. k : seq2[j] = seq[j]
        BY <3>1
      <4>3. Gone(bs, l2, seq2, k) = G(k)
        BY <3>1, <4>2 DEF Gone
      <4>. QED BY <4>1, <4>3
    <3>3. Nothing(n + 1)
      <4>1. Rest(seq2, n + 1) = <<>>
        BY <3>1, RestOfAll
      <4>2. \A j \in 1 .. n + 1 : (j \in 1 .. n /\ seq2[j] = seq[j]) \/ (j = n + 1 /\ seq2[j] = e)
        <5>1. \A j \in 1 .. n + 1 : j \in 1 .. n \/ j = n + 1
          BY <1>0
        <5>. QED BY <1>0, <3>1, <5>1
      <4>3. n + 1 \in 1 .. n + 1 /\ seq2[n + 1] = e /\ \A j \in 1 .. n : j \in 1 .. n + 1 /\ seq2[j] = seq[j]
        BY <1>0, <3>1
      <4>4. UNION {Subjects(bs, seq2[j]) : j \in 1 .. n + 1} =
               (UNION {Subjects(bs, seq[j]) : j \in 1 .. n}) \cup Subjects(bs, e)
        BY <4>2, <4>3
      <4>5. Gone(bs, l2, seq2, n + 1) = G(n) \cup Subjects(bs, e)
        BY <3>1, <4>4 DEF Gone
      <4>. QED BY <4>1, <4>5
    <3>4. \A k \in 0 .. Len(seq2) : k \in 0 .. n \/ k = n + 1
      BY <1>0, <3>1
    <3>. HIDE DEF Before, Nothing
    <3>. QED BY <3>1, <3>2, <3>3, <3>4
  <2>2. CASE n = Cap
    <3>0. n > 0 /\ seq # <<>>
      BY <1>0, <2>2
    <3>. DEFINE t == Tail(seq)
    <3>1. t \in Seq(E) /\ Len(t) = n - 1 /\ Head(seq) = seq[1] /\ seq[1] \in E /\ \A j \in 1 .. n - 1 : t[j] = seq[j + 1]
      BY <1>0, <3>0
    <3>2. seq2 = Append(t, e) /\ l2 = l \cup Subjects(bs, seq[1])
      BY <2>2, <3>1 DEF Pushed, LostBy
    <3>. HIDE DEF t
    <3>3. Len(seq2) = n /\ seq2 \in Seq(E) /\ seq2[n] = e /\ \A j \in 1 .. n - 1 : seq2[j] = seq[j + 1]
      BY <1>0, <3>0, <3>1, <3>2
    <3>4. l2 \in SUBSET Losable(bs)
      BY <3>1, <3>2, SubjectsType
    <3>5. ASSUME NEW k \in 0 .. n - 1 PROVE Before(k, k + 1)
      <4>1. Rest(seq2, k) = Append(Rest(t, k), e)
        <5>1. k \in 0 .. Len(t)
          BY <3>1
        <5>. QED BY <1>0, <3>1, <3>2, <5>1, RestOfAppend
      <4>2. Rest(t, k) = Rest(seq, k + 1)
        BY <1>0, <3>0, RestOfTail DEF t
      <4>3. \A j \in 1 .. k : seq2[j] = seq[j + 1] /\ j + 1 \in 1 .. k + 1
        BY <1>0, <3>3
      <4>4. \A j \in 1 .. k + 1 : j = 1 \/ (j - 1 \in 1 .. k /\ seq2[j - 1] = seq[j])
        BY <1>0, <3>3
      <4>5. 1 \in 1 .. k + 1
        OBVIOUS
      <4>6. ASSUME NEW x PROVE x \in Gone(bs, l2, seq2, k) <=> x \in G(k + 1)
        <5>1. ASSUME NEW j \in 1 .. k, x \in Subjects(bs, seq2[j])
              PROVE  \E h \in 1 .. k + 1 : x \in Subjects(bs, seq[h])
          BY <4>3, <5>1
        <5>2. ASSUME NEW j \in 1 .. k + 1, x \in Subjects(bs, seq[j])
              PROVE  x \in Subjects(bs, seq[1]) \/ \E h \in 1 .. k : x \in Subjects(bs, seq2[h])
          BY <4>4, <5>2
        <5>3. x \in Subjects(bs, seq[1]) => \E h \in 1 .. k + 1 : x \in Subjects(bs, seq[h])
          BY <4>5
        <5>4. /\ x \in Gone(bs, l2, seq2, k) <=> x \in l2 \/ \E j \in 1 .. k : x \in Subjects(bs, seq2[j])
              /\ x \in G(k + 1) <=> x \in l \/ \E j \in 1 .. k + 1 : x \in Subjects(bs, seq[j])
          BY InGone
        <5>. QED BY <3>2, <5>1, <5>2, <5>3, <5>4
      <4>7. Gone(bs, l2, seq2, k) = G(k + 1)
        BY <4>6
      <4>. QED BY <4>1, <4>2, <4>7
    <3>6. Nothing(n)
      <4>1. Rest(seq2, n) = <<>>
        BY <3>3, RestOfAll
      <4>2. \A j \in 1 .. n : (j + 1 \in 1 .. n /\ seq2[j] = seq[j + 1]) \/ (j = n /\ seq2[j] = e)
        BY <1>0, <3>3
      <4>3. \A j \in 1 .. n : j = 1 \/ (j - 1 \in 1 .. n /\ seq2[j - 1] = seq[j])
        BY <1>0, <3>3
      <4>4. 1 \in 1 .. n /\ n \in 1 .. n /\ seq2[n] = e
        BY <1>0, <3>0, <3>3
      <4>5. ASSUME NEW x PROVE x \in Gone(bs, l2, seq2, n) <=> x \in G(n) \cup Subjects(bs, e)
        <5>1. ASSUME NEW j \in 1 .. n, x \in Subjects(bs, seq2[j])
              PROVE  x \in Subjects(bs, e) \/ \E h \in 1 .. n : x \in Subjects(bs, seq[h])
          BY <4>2, <5>1
        <5>2. ASSUME NEW j \in 1 .. n, x \in Subjects(bs, seq[j])
              PROVE  x \in Subjects(bs, seq[1]) \/ \E h \in 1 .. n : x \in Subjects(bs, seq2[h])
          BY <4>3, <5>2
        <5>3. /\ x \in Subjects(bs, e) => \E h \in 1 .. n : x \in Subjects(bs, seq2[h])
              /\ x \in Subjects(bs, seq[1]) => \E h \in 1 .. n : x \in Subjects(bs, seq[h])
          BY <4>4
        <5>4. /\ x \in Gone(bs, l2, seq2, n) <=> x \in l2 \/ \E j \in 1 .. n : x \in Subjects(bs, seq2[j])
              /\ x \in G(n) <=> x \in l \/ \E j \in 1 .. n : x \in Subjects(bs, seq[j])
          BY InGone
        <5>. QED BY <3>2, <5>1, <5>2, <5>3, <5>4
      <4>6. Gone(bs, l2, seq2, n) = G(n) \cup Subjects(bs, e)
        BY <4>5
      <4>. QED BY <4>1, <4>6
    <3>7. \A k \in 0 .. Len(seq2) : k = n \/ (k \in 0 .. n - 1 /\ k + 1 \in 0 .. n)
      BY <1>0, <3>3
    <3>. HIDE DEF Before, Nothing
    <3>. QED BY <3>3, <3>4, <3>5, <3>6, <3>7
  <2>. QED BY <2>1, <2>2
<1>2. ASSUME NEW w \in SUBSET {"mouse", "keyboard"}, NEW m \in 0 .. n
      PROVE  /\ Knows(bs, Folded(bs, w, p, Rest(seq, m)), Losing(bs, w, G(m), Rest(seq, m)), hs, bf)
             /\ Keeps(bs, Folded(bs, w, p, Rest(seq, m)), p)
             /\ G(m) \in SUBSET Losable(bs) /\ Rest(seq, m) \in Seq(E)
  <2>1. G(m) \in SUBSET Losable(bs)
    BY GoneType
  <2>2. Rest(seq, m) \in Seq(E)
    BY RestFacts
  <2>. QED BY <2>1, <2>2 DEF FoldsToTheTruth
<1>. HIDE DEF G
<1>3. ASSUME NEW w \in SUBSET {"mouse", "keyboard"}, NEW k \in 0 .. Len(seq2)
      PROVE  /\ Knows(bs, Folded(bs, w, p, Rest(seq2, k)),
                      Losing(bs, w, Gone(bs, l2, seq2, k), Rest(seq2, k)), hs2, bf2)
             /\ Keeps(bs, Folded(bs, w, p, Rest(seq2, k)), p)
  <2>1. CASE Nothing(k)
    <3>0. n \in 0 .. n /\ Rest(seq, n) = <<>>
      BY <1>0, RestOfAll
    <3>1. Folded(bs, w, p, <<>>) = p
      BY FoldedEmpty
    <3>2. G(n) \in SUBSET Losable(bs)
      BY <1>2, <3>0
    <3>3. Losing(bs, w, G(n), <<>>) = G(n)
      BY <3>2, LosingEmpty
    <3>4. Knows(bs, p, G(n), hs, bf) /\ Keeps(bs, p, p)
      BY <1>2, <3>0, <3>1, <3>3
    <3>5. G(n) \cup Subjects(bs, e) \in SUBSET Losable(bs)
      BY <3>2, SubjectsType
    <3>6. Losing(bs, w, G(n) \cup Subjects(bs, e), <<>>) = G(n) \cup Subjects(bs, e)
      BY <3>5, LosingEmpty
    <3>7. Knows(bs, p, G(n) \cup Subjects(bs, e), hs2, bf2)
      BY <3>2, <3>4 DEF Stays
    <3>. QED BY <2>1, <3>1, <3>4, <3>6, <3>7
  <2>2. ASSUME NEW m \in 0 .. n, Before(k, m)
        PROVE  /\ Knows(bs, Folded(bs, w, p, Rest(seq2, k)),
                        Losing(bs, w, Gone(bs, l2, seq2, k), Rest(seq2, k)), hs2, bf2)
               /\ Keeps(bs, Folded(bs, w, p, Rest(seq2, k)), p)
    <3>. DEFINE r == Rest(seq, m)
                g == G(m)
    <3>1. r \in Seq(Events(bs)) /\ g \in SUBSET Losable(bs)
          /\ Knows(bs, Folded(bs, w, p, r), Losing(bs, w, g, r), hs, bf)
          /\ Keeps(bs, Folded(bs, w, p, r), p)
      BY <1>2
    <3>2. Rest(seq2, k) = Append(r, e) /\ Gone(bs, l2, seq2, k) = g
      BY <2>2
    <3>. HIDE DEF r, g
    <3>3. /\ Knows(bs, Folded(bs, w, p, Append(r, e)), Losing(bs, w, g, Append(r, e)), hs2, bf2)
          /\ Keeps(bs, Folded(bs, w, p, Append(r, e)), p)
      BY <3>1, OneMoreEvent
    <3>. QED BY <3>2, <3>3
  <2>. QED BY <1>1, <2>1, <2>2
<1>. HIDE DEF Before, Nothing
<1>4. FoldsToTheTruth(bs, p, l2, seq2, hs2, bf2)
  BY <1>3 DEF FoldsToTheTruth
<1>. QED BY <1>1, <1>4 DEF StillTrue

LEMMA PressStays ==
    ASSUME NEW bs \in ActionMaps, NEW hs, NEW bf, Ordered(bs, hs, bf), NEW c \in ControlsOf(bs) \ hs,
           NEW hs2, hs2 = hs \cup {c}, NEW bf2, bf2 = bf \cup (hs \X {c}),
           NEW e, e = DigitalEvent(c, hs2, TRUE)
    PROVE  Stays(bs, e, hs, bf, hs2, bf2) /\ e \in Events(bs)
<1>1. e \in Events(bs) /\ Subjects(bs, e) = {c} \cup Bits(c) /\ Settles(bs, e) = Bits(c)
  BY DigitalIsEvent, DigitalSubjects DEF Events
<1>2. ASSUME NEW d \in Devices(bs), NEW l \in SUBSET Losable(bs), Knows(bs, d, l, hs, bf)
      PROVE  /\ Knows(bs, FoldEvent(bs, d, e), l \ Settles(bs, e), hs2, bf2)
             /\ Knows(bs, d, l \cup Subjects(bs, e), hs2, bf2)
  <2>. DEFINE f == FoldEvent(bs, d, e)
  <2>1. IsStep(bs, d, c, hs2, TRUE, f)
    BY DigitalStep
  <2>. HIDE DEF f
  <2>2. Knows(bs, f, l \ Bits(c), hs2, bf2) /\ Knows(bs, d, l \cup ({c} \cup Bits(c)), hs2, bf2)
    BY <1>2, <2>1, PressKnows
  <2>. QED BY <1>1, <2>2 DEF f
<1>. QED BY <1>1, <1>2 DEF Stays

LEMMA ReleaseStays ==
    ASSUME NEW bs \in ActionMaps, NEW hs, NEW bf, Ordered(bs, hs, bf), NEW c \in hs,
           NEW hs2, hs2 = hs \ {c}, NEW bf2, bf2 = Without(bf, {c}),
           NEW e, e = DigitalEvent(c, hs2, FALSE)
    PROVE  Stays(bs, e, hs, bf, hs2, bf2) /\ e \in Events(bs)
<1>0. c \in ControlsOf(bs)
  BY DEF Ordered
<1>1. e \in Events(bs) /\ Subjects(bs, e) = {c} \cup Bits(c) /\ Settles(bs, e) = {c} \cup Bits(c)
  BY <1>0, DigitalIsEvent, DigitalSubjects DEF Events
<1>2. ASSUME NEW d \in Devices(bs), NEW l \in SUBSET Losable(bs), Knows(bs, d, l, hs, bf)
      PROVE  /\ Knows(bs, FoldEvent(bs, d, e), l \ Settles(bs, e), hs2, bf2)
             /\ Knows(bs, d, l \cup Subjects(bs, e), hs2, bf2)
  <2>. DEFINE f == FoldEvent(bs, d, e)
  <2>1. IsStep(bs, d, c, hs2, FALSE, f)
    BY <1>0, DigitalStep
  <2>. HIDE DEF f
  <2>2. /\ Knows(bs, f, l \ ({c} \cup Bits(c)), hs2, bf2)
        /\ Knows(bs, d, l \cup ({c} \cup Bits(c)), hs2, bf2)
    BY <1>2, <2>1, ReleaseKnows
  <2>. QED BY <1>1, <2>2 DEF f
<1>. QED BY <1>1, <1>2 DEF Stays

LEMMA RepeatStays ==
    ASSUME NEW bs \in ActionMaps, NEW hs, NEW bf, Ordered(bs, hs, bf), NEW c \in NewestOf(hs, hs, bf),
           NEW e, e = DigitalEvent(c, hs, TRUE)
    PROVE  Stays(bs, e, hs, bf, hs, bf) /\ e \in Events(bs)
<1>0. c \in ControlsOf(bs)
  BY DEF Ordered, NewestOf
<1>1. e \in Events(bs) /\ Subjects(bs, e) = {c} \cup Bits(c) /\ Settles(bs, e) = Bits(c)
  BY <1>0, DigitalIsEvent, DigitalSubjects DEF Events
<1>2. ASSUME NEW d \in Devices(bs), NEW l \in SUBSET Losable(bs), Knows(bs, d, l, hs, bf)
      PROVE  /\ Knows(bs, FoldEvent(bs, d, e), l \ Settles(bs, e), hs, bf)
             /\ Knows(bs, d, l \cup Subjects(bs, e), hs, bf)
  <2>. DEFINE f == FoldEvent(bs, d, e)
  <2>1. IsStep(bs, d, c, hs, TRUE, f)
    BY <1>0, DigitalStep
  <2>. HIDE DEF f
  <2>2. Knows(bs, f, l \ Bits(c), hs, bf) /\ Knows(bs, d, l \cup ({c} \cup Bits(c)), hs, bf)
    BY <1>2, <2>1, RepeatKnows
  <2>. QED BY <1>1, <2>2 DEF f
<1>. QED BY <1>1, <1>2 DEF Stays

LEMMA PadStays ==
    ASSUME NEW bs \in ActionMaps, NEW hs, NEW bf, Ordered(bs, hs, bf), NEW cs, cs = {c \in hs : IsPad(c)},
           NEW hs2, hs2 = hs \ cs, NEW bf2, bf2 = Without(bf, cs), NEW e, e = PadConnect(FALSE)
    PROVE  Stays(bs, e, hs, bf, hs2, bf2) /\ e \in Events(bs)
<1>1. e \in Events(bs) /\ Subjects(bs, e) = Pads(bs) /\ Settles(bs, e) = Pads(bs)
  BY PadSubjects DEF Events
<1>2. ASSUME NEW d \in Devices(bs), NEW l \in SUBSET Losable(bs), Knows(bs, d, l, hs, bf)
      PROVE  /\ Knows(bs, FoldEvent(bs, d, e), l \ Settles(bs, e), hs2, bf2)
             /\ Knows(bs, d, l \cup Subjects(bs, e), hs2, bf2)
  <2>. DEFINE f == FoldEvent(bs, d, e)
  <2>1. f = FoldEvent(bs, d, PadConnect(FALSE))
    OBVIOUS
  <2>. HIDE DEF f
  <2>2. Knows(bs, f, l \ Pads(bs), hs2, bf2) /\ Knows(bs, d, l \cup Pads(bs), hs2, bf2)
    BY <1>2, <2>1, PadKnows
  <2>. QED BY <1>1, <2>2 DEF f
<1>. QED BY <1>1, <1>2 DEF Stays

LEMMA QuietStays ==
    ASSUME NEW bs, NEW hs, NEW bf, NEW e, e \in ValueEvents \/ e = PadConnect(TRUE)
    PROVE  Stays(bs, e, hs, bf, hs, bf) /\ e \in Events(bs)
<1>1. e \in Events(bs)
  BY PadSubjects DEF Events
<1>2. ASSUME NEW d \in Devices(bs), NEW l \in SUBSET Losable(bs), Knows(bs, d, l, hs, bf)
      PROVE  /\ Knows(bs, FoldEvent(bs, d, e), l \ Settles(bs, e), hs, bf)
             /\ Knows(bs, d, l \cup Subjects(bs, e), hs, bf)
  <2>1. Knows(bs, FoldEvent(bs, d, e), l, hs, bf) /\ Subjects(bs, e) = {} /\ Settles(bs, e) = {}
    BY <1>2, QuietKnows
  <2>2. l \ Settles(bs, e) = l /\ l \cup Subjects(bs, e) = l
    BY <2>1
  <2>. QED BY <1>2, <2>1, <2>2
<1>. QED BY <1>1, <1>2 DEF Stays

\* Whatever arrives is folded to the truth, now or once it is drained.
LEMMA ArrivesKeeps ==
    ASSUME IInv, NEW e \in Events(bindings), Arrives(e), Ordered(bindings, held', before'),
           Stays(bindings, e, held, before, held', before')
    PROVE  IInv'
<1>1. /\ bindings' = bindings /\ active_context' = active_context /\ lp' = lp
      /\ frame' = frame /\ seen' = seen
  BY DEF Arrives
<1>2. arrived' = Pushed(arrived, e) /\ raw_events' = RingPush(raw_events, e)
  BY DEF Arrives, Pushed
<1>3. lost' = LostBy(bindings, lost, arrived)
  BY DEF Arrives, LostBy
<1>4. /\ bindings \in ActionMaps /\ lp \in Devices(bindings) /\ lost \in SUBSET Losable(bindings)
      /\ arrived \in Seq(Events(bindings)) /\ RingHolds(raw_events, arrived)
      /\ FoldsToTheTruth(bindings, lp, lost, arrived, held, before)
  BY DEF IInv
<1>5. Len(arrived) <= Cap
  BY <1>4 DEF RingHolds
<1>6. StillTrue(bindings, lp, lost', arrived', held', before')
  <2>1. bindings \in ActionMaps
    BY <1>4
  <2>2. lp \in Devices(bindings)
    BY <1>4
  <2>3. lost \in SUBSET Losable(bindings)
    BY <1>4
  <2>4. arrived \in Seq(Events(bindings))
    BY <1>4
  <2>5. FoldsToTheTruth(bindings, lp, lost, arrived, held, before)
    BY <1>4
  <2>6. arrived' = Pushed(arrived, e)
    BY <1>2
  <2>. QED BY <1>3, <1>5, <2>1, <2>2, <2>3, <2>4, <2>5, <2>6, Arrival
<1>7. RingHolds(raw_events', arrived')
  BY <1>2, <1>4, PushHolds
<1>8. Down' = Down
  BY <1>1 DEF Down
<1>. QED BY <1>1, <1>6, <1>7, <1>8 DEF IInv, StillTrue

LEMMA PressKeeps == ASSUME IInv, NEW c \in Controls, Press(c) PROVE IInv'
<1>1. bindings \in ActionMaps /\ Ordered(bindings, held, before)
  BY DEF IInv
<1>. DEFINE e == DigitalEvent(c, held \cup {c}, TRUE)
<1>2. /\ c \in ControlsOf(bindings) \ held /\ held' = held \cup {c} /\ before' = before \cup (held \X {c})
      /\ Arrives(e)
  BY DEF Press, Controls
<1>3. e = DigitalEvent(c, held', TRUE)
  BY <1>2
<1>. HIDE DEF e
<1>4. Stays(bindings, e, held, before, held', before') /\ e \in Events(bindings)
  BY <1>1, <1>2, <1>3, PressStays
<1>5. Ordered(bindings, held', before')
  BY <1>1, <1>2, PressOrders, SMTT(40)
<1>. QED BY <1>2, <1>4, <1>5, ArrivesKeeps

LEMMA ReleaseKeeps == ASSUME IInv, NEW c, Release(c) PROVE IInv'
<1>1. bindings \in ActionMaps /\ Ordered(bindings, held, before)
  BY DEF IInv
<1>. DEFINE e == DigitalEvent(c, held \ {c}, FALSE)
<1>2. c \in held /\ held' = held \ {c} /\ before' = Without(before, {c}) /\ Arrives(e)
  BY DEF Release, LetGo, Without
<1>3. e = DigitalEvent(c, held', FALSE)
  BY <1>2
<1>. HIDE DEF e
<1>4. Stays(bindings, e, held, before, held', before') /\ e \in Events(bindings)
  BY <1>1, <1>2, <1>3, ReleaseStays
<1>5. Ordered(bindings, held', before')
  BY <1>1, <1>2, LetGoOrders
<1>. QED BY <1>2, <1>4, <1>5, ArrivesKeeps

LEMMA KeyRepeatKeeps == ASSUME IInv, KeyRepeat PROVE IInv'
<1>1. bindings \in ActionMaps /\ Ordered(bindings, held, before)
  BY DEF IInv
<1>2. PICK c \in Newest(held) : Arrives(DigitalEvent(c, held, TRUE))
  BY DEF KeyRepeat
<1>3. c \in NewestOf(held, held, before) /\ held' = held /\ before' = before
  BY <1>2 DEF KeyRepeat, Newest, NewestOf
<1>. DEFINE e == DigitalEvent(c, held, TRUE)
<1>4. Arrives(e) /\ e = DigitalEvent(c, held, TRUE)
  BY <1>2
<1>. HIDE DEF e
<1>5. Stays(bindings, e, held, before, held, before) /\ e \in Events(bindings)
  BY <1>1, <1>3, <1>4, RepeatStays
<1>. QED BY <1>1, <1>3, <1>4, <1>5, ArrivesKeeps

LEMMA PadChangesKeeps == ASSUME IInv, NEW up \in BOOLEAN, PadChanges(up) PROVE IInv'
<1>1. bindings \in ActionMaps /\ Ordered(bindings, held, before)
  BY DEF IInv
<1>. DEFINE e == PadConnect(up)
<1>2. Arrives(e) /\ IF up THEN UNCHANGED <<held, before>> ELSE LetGo({c \in held : IsPad(c)})
  BY DEF PadChanges
<1>3. CASE up
  <2>1. e = PadConnect(TRUE) /\ held' = held /\ before' = before
    BY <1>2, <1>3
  <2>. HIDE DEF e
  <2>2. Stays(bindings, e, held, before, held, before) /\ e \in Events(bindings)
    BY <2>1, QuietStays
  <2>. QED BY <1>1, <1>2, <2>1, <2>2, ArrivesKeeps
<1>4. CASE ~up
  <2>. DEFINE cs == {c \in held : IsPad(c)}
  <2>1. e = PadConnect(FALSE) /\ held' = held \ cs /\ before' = Without(before, cs)
    BY <1>2, <1>4 DEF LetGo, Without
  <2>2. cs = {c \in held : IsPad(c)}
    OBVIOUS
  <2>. HIDE DEF e, cs
  <2>3. Stays(bindings, e, held, before, held', before') /\ e \in Events(bindings)
    BY <1>1, <2>1, <2>2, PadStays
  <2>4. Ordered(bindings, held', before')
    BY <1>1, <2>1, LetGoOrders
  <2>. QED BY <1>2, <2>3, <2>4, ArrivesKeeps
<1>. QED BY <1>3, <1>4

LEMMA MovesKeeps ==
    ASSUME IInv, NEW dev, NEW e \in ValueEvents, Moves(dev, e)
    PROVE  IInv'
<1>1. Ordered(bindings, held, before)
  BY DEF IInv
<1>2. Arrives(e) /\ held' = held /\ before' = before
  BY DEF Moves
<1>3. Stays(bindings, e, held, before, held, before) /\ e \in Events(bindings)
  BY QuietStays
<1>. QED BY <1>1, <1>2, <1>3, ArrivesKeeps

LEMMA ContextKeeps == ASSUME IInv, NEW c \in Contexts(bindings), ActionMapSetContext(c) PROVE IInv'
<1>1. UNCHANGED <<bindings, raw_events, lp, frame, seen, held, before, lost, arrived>> /\ active_context' = c
  BY DEF ActionMapSetContext
<1>2. Down' = Down
  BY <1>1 DEF Down
<1>. QED BY <1>1, <1>2 DEF IInv

-----------------------------------------------------------------------------
(* What a frame is made of.                                                *)

LEMMA RestOfNone ==
    ASSUME NEW bs, NEW l, NEW seq \in Seq(Events(bs))
    PROVE  Rest(seq, 0) = seq /\ Gone(bs, l, seq, 0) = l
<1>1. 0 \in 0 .. Len(seq) /\ Len(seq) \in Nat
  OBVIOUS
<1>2. /\ Rest(seq, 0) \in Seq(Events(bs)) /\ Len(Rest(seq, 0)) = Len(seq) - 0
      /\ \A j \in 1 .. Len(seq) - 0 : Rest(seq, 0)[j] = seq[0 + j]
  BY <1>1, RestFacts
<1>3. Rest(seq, 0) = seq
  BY <1>1, <1>2
<1>4. 1 .. 0 = {}
  OBVIOUS
<1>5. Gone(bs, l, seq, 0) = l
  BY <1>4 DEF Gone
<1>. QED BY <1>3, <1>5

LEMMA DeviceKnows ==
    ASSUME IInv, NEW w \in SUBSET {"mouse", "keyboard"}
    PROVE  /\ Knows(bindings, Device(w), LostNow(w), held, before)
           /\ Keeps(bindings, Device(w), lp)
<1>1. /\ arrived \in Seq(Events(bindings)) /\ RingHolds(raw_events, arrived)
      /\ FoldsToTheTruth(bindings, lp, lost, arrived, held, before)
  BY DEF IInv
<1>2. RingItems(raw_events) = arrived
  BY <1>1, RingHoldsItems
<1>3. Rest(arrived, 0) = arrived /\ Gone(bindings, lost, arrived, 0) = lost
  BY <1>1, RestOfNone
<1>4. 0 \in 0 .. Len(arrived)
  BY <1>1
<1>5. LET d == Folded(bindings, w, lp, Rest(arrived, 0))
      IN  /\ Knows(bindings, d, Losing(bindings, w, Gone(bindings, lost, arrived, 0), Rest(arrived, 0)), held, before)
          /\ Keeps(bindings, d, lp)
  BY <1>1, <1>4 DEF FoldsToTheTruth
<1>. QED BY <1>2, <1>3, <1>5 DEF Device, LostNow

\* A winner that is up gives way to the key that is down.
LEMMA ResolvedFacts ==
    ASSUME NEW d, NEW b, NEW dir \in -1 .. 1, b.socd # "neutral", NEW r, r = ResolvedDir(d, b, dir)
    PROVE  /\ r \in -1 .. 1
           /\ dir = 1 /\ b.pos \in d.down => r = 1
           /\ dir = -1 /\ b.neg \in d.down => r = -1
           /\ dir = 1 /\ b.pos \notin d.down /\ b.neg \in d.down => r = -1
           /\ dir = -1 /\ b.neg \notin d.down /\ b.pos \in d.down => r = 1
           /\ b.pos \notin d.down /\ b.neg \notin d.down => r = 0
BY DEF ResolvedDir

LEMMA ResolvedType ==
    ASSUME NEW d, NEW b, NEW dir \in -1 .. 1 PROVE ResolvedDir(d, b, dir) \in -1 .. 1
BY DEF ResolvedDir

LEMMA ClampType ==
    ASSUME NEW v \in Int
    PROVE  /\ Clamp(v) \in -Full .. Full /\ Clamp(v) \in Int
           /\ v \in -Full .. Full => Clamp(v) = v
BY MapAssumption DEF Clamp

LEMMA DeadzoneType ==
    ASSUME NEW b, IsBinding(b), NEW v \in Int
    PROVE  Deadzone(b, v) \in Int
<1>. DEFINE size == IF v < 0 THEN -v ELSE v
            rest == ((size - b.radius) * Full) \div (Full - b.radius)
<1>1. Full \in Nat \ {0} /\ b.radius \in 0 .. Full - 1 /\ b.dz \in {"none", "axial", "radial", "trigger"}
  BY MapAssumption DEF IsBinding
<1>2. size \in Int /\ Full - b.radius \in Nat \ {0}
  BY <1>1
<1>3. (size - b.radius) * Full \in Int
  BY <1>1, <1>2
<1>4. rest \in Int
  BY <1>2, <1>3
<1>5. Deadzone(b, v) =
        CASE b.dz = "none" -> v
          [] b.dz \in {"axial", "radial"} ->
                IF size < b.radius THEN 0 ELSE Clamp(IF v < 0 THEN -rest ELSE rest)
          [] b.dz = "trigger" -> IF v < b.radius THEN 0 ELSE Clamp(rest)
  BY DEF Deadzone
<1>. HIDE DEF size, rest
<1>6. Clamp(rest) \in Int /\ Clamp(IF v < 0 THEN -rest ELSE rest) \in Int
  BY <1>4, ClampType
<1>. QED BY <1>1, <1>5, <1>6

LEMMA AxisValueType ==
    ASSUME bindings \in ActionMaps, NEW d \in Devices(bindings), NEW i \in DOMAIN bindings
    PROVE  AxisValue(d, i) \in Int
<1>. DEFINE b == bindings[i]
<1>1. IsBinding(b) /\ d.last_dir[i] \in -1 .. 1 /\ d.motion \in Int /\ d.axis \in Int
  BY TableFacts DEF Devices
<1>2. b.sensitivity \in Int /\ Full \in Nat
  BY <1>1, MapAssumption DEF IsBinding
<1>3. AxisValue(d, i) =
        CASE b.dev = "keys_axis" -> ResolvedDir(d, b, d.last_dir[i]) * Full
          [] b.dev = "mouse_axis" -> Deadzone(b, Clamp(d.motion)) * b.sensitivity
          [] b.dev = "pad_axis" -> Deadzone(b, d.axis) * b.sensitivity
          [] OTHER -> 0
  BY DEF AxisValue
<1>. HIDE DEF b
<1>4. ResolvedDir(d, b, d.last_dir[i]) * Full \in Int
  <2>1. ResolvedDir(d, b, d.last_dir[i]) \in -1 .. 1
    BY <1>1, ResolvedType
  <2>. QED BY <1>2, <2>1
<1>5. Deadzone(b, Clamp(d.motion)) * b.sensitivity \in Int
  <2>1. Clamp(d.motion) \in Int
    BY <1>1, ClampType
  <2>2. Deadzone(b, Clamp(d.motion)) \in Int
    BY <1>1, <2>1, DeadzoneType
  <2>. QED BY <1>2, <2>2
<1>6. Deadzone(b, d.axis) * b.sensitivity \in Int
  <2>1. Deadzone(b, d.axis) \in Int
    BY <1>1, DeadzoneType
  <2>. QED BY <1>2, <2>1
<1>. QED BY <1>3, <1>4, <1>5, <1>6

LEMMA ValueType ==
    ASSUME bindings \in ActionMaps, NEW d \in Devices(bindings), NEW a
    PROVE  Value(d, a) \in -Full .. Full
<1>1. Summed(d, a, bindings) \in Int
  BY AxisValueType, SummedType
<1>2. Clamp(Summed(d, a, bindings)) \in -Full .. Full
  BY <1>1, ClampType
<1>. QED BY <1>2, MapAssumption DEF Value

\* The value of an action whose only binding that resolves is an axis of keys.
LEMMA ValueOfOne ==
    ASSUME bindings \in ActionMaps, NEW d \in Devices(bindings), NEW i \in DOMAIN bindings,
           IsKeysAxis(bindings, i), NEW a, Kind[a] = "analog",
           \A j \in DOMAIN bindings : Resolves(a, j) => j = i,
           NEW r, r = ResolvedDir(d, bindings[i], d.last_dir[i])
    PROVE  Value(d, a) = IF Resolves(a, i) THEN r * Full ELSE 0
<1>1. r \in -1 .. 1
  <2>1. d.last_dir[i] \in -1 .. 1
    BY DEF Devices
  <2>. QED BY <2>1, ResolvedType
<1>2. AxisValue(d, i) = r * Full
  BY DEF AxisValue, IsKeysAxis
<1>3. \A j \in DOMAIN bindings : AxisValue(d, j) \in Int
  BY AxisValueType
<1>4. Summed(d, a, bindings) = IF Resolves(a, i) THEN AxisValue(d, i) ELSE 0
  BY <1>3, SummedOfOne
<1>5. r * Full \in -Full .. Full /\ r * Full \in Int /\ 0 \in -Full .. Full
  BY <1>1, MapAssumption
<1>6. Clamp(r * Full) = r * Full /\ Clamp(0) = 0
  BY <1>5, ClampType
<1>7. Kind[a] # "digital"
  OBVIOUS
<1>. QED BY <1>2, <1>4, <1>6, <1>7 DEF Value

\* The directions a frame leaves.
LEMMA DirsKnow ==
    ASSUME bindings \in ActionMaps, NEW hs, NEW bf, Ordered(bindings, hs, bf),
           NEW d, NEW l, Knows(bindings, d, l, hs, bf),
           NEW p \in Devices(bindings), p.down = d.down, p.mods = d.mods, p.last_dir = Dirs(d)
    PROVE  Knows(bindings, p, l, hs, bf)
<1>1. /\ d \in Devices(bindings) /\ l \in SUBSET Losable(bindings) /\ hs \subseteq ControlsOf(bindings)
      /\ \A c \in ControlsOf(bindings) : c # ModifierBits /\ (c \notin l => (c \in d.down <=> c \in hs))
  BY KnowsFacts
<1>2. KnowsControls(bindings, p, l, hs) /\ KnowsModifiers(p, l, hs)
  BY DEF Knows, KnowsControls, KnowsModifiers
<1>3. ASSUME NEW i \in DOMAIN bindings, IsLast(bindings, i)
      PROVE  /\ bindings[i].socd # "neutral" /\ d.last_dir[i] \in -1 .. 1
             /\ \/ p.last_dir[i] = d.last_dir[i]
                \/ p.last_dir[i] = ResolvedDir(d, bindings[i], d.last_dir[i])
             /\ Keys(bindings, i) = {bindings[i].neg, bindings[i].pos}
  BY <1>1, <1>3 DEF Dirs, IsLast, Devices, Keys
<1>4. Taken(bindings, p)
  <2>1. ASSUME NEW i \in DOMAIN bindings, IsLast(bindings, i), Keys(bindings, i) \cap p.down # {}
        PROVE  p.last_dir[i] # 0
    <3>1. d.last_dir[i] # 0
      BY <2>1 DEF Knows, Taken
    <3>. DEFINE r == ResolvedDir(d, bindings[i], d.last_dir[i])
    <3>2. r # 0
      <4>1. d.last_dir[i] \in {-1, 1} /\ bindings[i].socd # "neutral"
        BY <1>3, <2>1, <3>1
      <4>2. bindings[i].pos \in d.down \/ bindings[i].neg \in d.down
        BY <1>3, <2>1
      <4>3. /\ d.last_dir[i] = 1 /\ bindings[i].pos \in d.down => r = 1
            /\ d.last_dir[i] = -1 /\ bindings[i].neg \in d.down => r = -1
            /\ d.last_dir[i] = 1 /\ bindings[i].pos \notin d.down /\ bindings[i].neg \in d.down => r = -1
            /\ d.last_dir[i] = -1 /\ bindings[i].neg \notin d.down /\ bindings[i].pos \in d.down => r = 1
        BY <4>1, ResolvedFacts
      <4>. QED BY <4>1, <4>2, <4>3
    <3>. QED BY <1>3, <2>1, <3>1, <3>2
  <2>. QED BY <2>1 DEF Taken
<1>5. NewestTakes(bindings, p, l, hs, bf)
  <2>1. ASSUME NEW i \in DOMAIN bindings, IsLast(bindings, i), NEW c \in NewestOf(Keys(bindings, i), hs, bf) \ l
        PROVE  \/ p.last_dir[i] = Dir(bindings, i, c)
               \/ \E o \in Keys(bindings, i) \ {c} :
                     (o \notin p.down \/ o \in l) /\ p.last_dir[i] = Dir(bindings, i, o)
    <3>. DEFINE b == bindings[i]
                dir == d.last_dir[i]
                r == ResolvedDir(d, b, dir)
    <3>1. c \in {b.neg, b.pos} /\ c \in d.down
      <4>1. c \in Keys(bindings, i) /\ c \in hs /\ c \notin l
        BY <2>1 DEF NewestOf
      <4>2. c \in ControlsOf(bindings)
        BY <2>1, <4>1, KeyFacts
      <4>. QED BY <1>1, <1>3, <2>1, <4>1, <4>2
    <3>2. \/ dir = Dir(bindings, i, c)
          \/ \E o \in Keys(bindings, i) \ {c} : (o \notin d.down \/ o \in l) /\ dir = Dir(bindings, i, o)
      BY <2>1 DEF Knows, NewestTakes
    <3>3. CASE p.last_dir[i] = dir
      BY <3>2, <3>3
    <3>4. CASE p.last_dir[i] = r
      <4>0. dir \in -1 .. 1 /\ b.socd # "neutral"
        BY <1>3, <2>1
      <4>. HIDE DEF b, dir, r
      <4>1. /\ dir = 1 /\ b.pos \in d.down => r = 1
            /\ dir = -1 /\ b.neg \in d.down => r = -1
            /\ dir = 1 /\ b.pos \notin d.down /\ b.neg \in d.down => r = -1
            /\ dir = -1 /\ b.neg \notin d.down /\ b.pos \in d.down => r = 1
        BY <4>0, ResolvedFacts DEF r
      <4>2. \A o : Dir(bindings, i, o) = IF b.pos = o THEN 1 ELSE -1
        BY DEF Dir, b
      <4>3. Keys(bindings, i) = {b.neg, b.pos}
        BY <1>3, <2>1 DEF b
      <4>4. CASE dir = Dir(bindings, i, c)
        <5>1. r = dir
          BY <3>1, <4>1, <4>2, <4>4
        <5>. QED BY <3>4, <4>4, <5>1
      <4>5. ASSUME NEW o \in Keys(bindings, i) \ {c}, o \notin d.down \/ o \in l, dir = Dir(bindings, i, o)
            PROVE  \/ r = Dir(bindings, i, c)
                   \/ (o \notin d.down \/ o \in l) /\ r = Dir(bindings, i, o)
        <5>1. (o = b.pos /\ c = b.neg /\ b.pos # b.neg) \/ (o = b.neg /\ c = b.pos /\ b.pos # b.neg)
          BY <3>1, <4>3, <4>5
        <5>2. CASE o \in d.down
          BY <4>1, <4>2, <4>5, <5>1, <5>2
        <5>3. CASE o \notin d.down
          BY <3>1, <4>1, <4>2, <4>5, <5>1, <5>3
        <5>. QED BY <5>2, <5>3
      <4>. QED BY <3>2, <3>4, <4>4, <4>5
    <3>. QED BY <1>3, <2>1, <3>3, <3>4
  <2>. QED BY <2>1 DEF NewestTakes
<1>. QED BY <1>1, <1>2, <1>4, <1>5 DEF Knows

LEMMA FrameOfAxis ==
    ASSUME bindings \in ActionMaps, NEW d \in Devices(bindings),
           NEW p, p.last_dir = Dirs(d), NEW f, f = [a \in Actions |-> Value(d, a)]
    PROVE  FrameIsOfAxis(bindings, f, p)
<1>. SUFFICES ASSUME NEW i \in DOMAIN bindings, IsFirst(bindings, i), Kind[bindings[i].action] = "analog",
                     f[bindings[i].action] # 0,
                     \A j \in DOMAIN bindings : bindings[j].action = bindings[i].action => j = i
              PROVE  f[bindings[i].action] = p.last_dir[i] * Full
  BY DEF FrameIsOfAxis
<1>. DEFINE a == bindings[i].action
            r == ResolvedDir(d, bindings[i], d.last_dir[i])
<1>1. a \in Actions
  BY TableFacts DEF IsBinding
<1>2. IsKeysAxis(bindings, i) /\ bindings[i].socd # "neutral"
  BY DEF IsFirst
<1>3. \A j \in DOMAIN bindings : Resolves(a, j) => j = i
  BY DEF Resolves
<1>4. f[a] = IF Resolves(a, i) THEN r * Full ELSE 0
  <2>1. Kind[a] = "analog"
    OBVIOUS
  <2>2. r = ResolvedDir(d, bindings[i], d.last_dir[i])
    OBVIOUS
  <2>. HIDE DEF r
  <2>3. Value(d, a) = IF Resolves(a, i) THEN r * Full ELSE 0
    BY <1>2, <1>3, <2>1, <2>2, ValueOfOne
  <2>. QED BY <1>1, <2>3
<1>5. Resolves(a, i)
  BY <1>4
<1>6. p.last_dir[i] = r
  BY <1>2, <1>5 DEF Dirs, IsKeysAxis
<1>. QED BY <1>4, <1>5, <1>6

LEMMA LiveProduceKeeps == ASSUME IInv, NEW w \in SUBSET Capturable, LiveProduce(w) PROVE IInv'
<1>. DEFINE d == Device(w)
            l == LostNow(w)
            bs == bindings
<1>1. Knows(bs, d, l, held, before) /\ Keeps(bs, d, lp)
  <2>1. w \in SUBSET {"mouse", "keyboard"}
    BY DEF Capturable
  <2>. QED BY <2>1, DeviceKnows
<1>2. /\ bs \in ActionMaps /\ active_context \in Contexts(bs) /\ Ordered(bs, held, before)
      /\ seen = Down /\ lp.prev_down = Down
      /\ arrived \in Seq(Events(bs)) /\ RingHolds(raw_events, arrived)
  BY DEF IInv
<1>3. /\ raw_events' = RingDrain(raw_events, NoEvent) /\ arrived' = <<>> /\ lost' = l
      /\ lp' = [d EXCEPT !.motion = 0, !.last_dir = Dirs(d), !.prev_down = {a \in Actions : Value(d, a) # 0}]
      /\ frame' = [a \in Actions |-> Value(d, a)]
      /\ seen' = {a \in Actions : Pressed(d, a) \/ (a \in seen /\ ~Released(d, a))}
      /\ bindings' = bs /\ active_context' = active_context /\ held' = held /\ before' = before
  BY DEF LiveProduce
<1>. DEFINE downs == {a \in Actions : Value(d, a) # 0}
<1>4. d \in Devices(bs) /\ l \in SUBSET Losable(bs) /\ d.prev_down = Down
  BY <1>1, <1>2 DEF Knows, Keeps
<1>. HIDE DEF d, l, bs
<1>5. Dirs(d) \in [DOMAIN bs -> -1 .. 1]
  <2>1. ASSUME NEW i \in DOMAIN bs PROVE ResolvedDir(d, bindings[i], d.last_dir[i]) \in -1 .. 1 /\ d.last_dir[i] \in -1 .. 1
    <3>1. d.last_dir[i] \in -1 .. 1
      BY <1>4 DEF Devices
    <3>. QED BY <3>1, ResolvedType
  <2>. QED BY <2>1 DEF Dirs, bs
<1>6. /\ lp' \in Devices(bs) /\ lp'.down = d.down /\ lp'.mods = d.mods
      /\ lp'.last_dir = Dirs(d) /\ lp'.prev_down = downs
  <2>1. d = [down |-> d.down, mods |-> d.mods, axis |-> d.axis, motion |-> d.motion,
             prev_down |-> d.prev_down, last_dir |-> d.last_dir]
    BY <1>4 DEF Devices
  <2>. DEFINE dirs == Dirs(d)
  <2>2. dirs \in [DOMAIN bs -> -1 .. 1] /\ downs \in SUBSET Actions
    BY <1>5
  <2>3. lp' = [d EXCEPT !.motion = 0, !.last_dir = dirs, !.prev_down = downs]
    BY <1>3
  <2>. HIDE DEF dirs, downs
  <2>4. lp' = [down |-> d.down, mods |-> d.mods, axis |-> d.axis, motion |-> 0,
               prev_down |-> downs, last_dir |-> dirs]
    BY <2>1, <2>3
  <2>5. lp' \in Devices(bs)
    BY <1>4, <2>2, <2>4 DEF Devices
  <2>. QED BY <2>4, <2>5 DEF dirs
<1>7. frame' \in [Actions -> -Full .. Full]
  <2>1. \A a \in Actions : Value(d, a) \in -Full .. Full
    BY <1>2, <1>4, ValueType DEF bs
  <2>. QED BY <1>3, <2>1
<1>8. Down' = downs
  BY <1>3 DEF Down
\* Whoever followed the edges to the frame before follows them to this one.
<1>9. seen' = downs
  <2>1. ASSUME NEW a \in Actions
        PROVE  (Pressed(d, a) \/ (a \in seen /\ ~Released(d, a))) <=> Value(d, a) # 0
    BY <1>2, <1>4 DEF Pressed, Released
  <2>. QED BY <1>3, <2>1
<1>10. Knows(bs, lp', l, held, before)
  <2>1. bindings \in ActionMaps /\ Ordered(bindings, held, before) /\ Knows(bindings, d, l, held, before)
    BY <1>1, <1>2 DEF bs
  <2>2. lp' \in Devices(bindings)
    BY <1>6 DEF bs
  <2>. QED BY <1>6, <2>1, <2>2, DirsKnow DEF bs
<1>11. FoldsToTheTruth(bs, lp', l, <<>>, held, before)
  <2>. DEFINE none == <<>>
              p == lp'
  <2>1. none \in Seq(Events(bs)) /\ Len(none) = 0 /\ p \in Devices(bs)
    BY <1>6
  <2>2. Rest(none, 0) = none /\ Gone(bs, l, none, 0) = l
    <3>1. none \in Seq(Events(bs))
      BY <2>1
    <3>. HIDE DEF none
    <3>. QED BY <3>1, RestOfNone
  <2>3. ASSUME NEW v \in SUBSET {"mouse", "keyboard"}
        PROVE  Folded(bs, v, p, none) = p /\ Losing(bs, v, l, none) = l
    BY <1>4, <2>1, FoldedEmpty, LosingEmpty
  <2>. HIDE DEF none
  <2>4. Keeps(bs, p, p)
    BY DEF Keeps
  <2>5. \A k \in 0 .. Len(none) : k = 0
    BY <2>1
  <2>6. FoldsToTheTruth(bs, p, l, none, held, before)
    BY <1>10, <2>2, <2>3, <2>4, <2>5 DEF FoldsToTheTruth
  <2>. QED BY <2>6 DEF none
<1>12. RingHolds(raw_events', <<>>)
  <2>1. raw_events.tail \in 0 .. CursorMod - 1
    BY <1>2, CountOfRing
  <2>2. /\ raw_events'.head = raw_events.tail /\ raw_events'.tail = raw_events.tail
        /\ raw_events'.data = [i \in 0 .. Cap - 1 |-> NoEvent]
    BY <1>3 DEF RingDrain, EmptyRing
  <2>3. raw_events.tail = (raw_events.tail + 0) % CursorMod
    BY <2>1, RingAssumption
  <2>4. Len(<<>>) = 0 /\ 0 <= Cap /\ DOMAIN [i \in 0 .. Cap - 1 |-> NoEvent] = 0 .. Cap - 1
    BY RingAssumption
  <2>. QED BY <2>1, <2>2, <2>3, <2>4 DEF RingHolds
<1>13. FrameIsOfAxis(bs, frame', lp')
  BY <1>2, <1>3, <1>4, <1>6, FrameOfAxis DEF bs
<1>14. arrived' \in Seq(Events(bs))
  BY <1>3
<1>. HIDE DEF downs
<1>. QED BY <1>2, <1>3, <1>4, <1>6, <1>7, <1>8, <1>9, <1>11, <1>12, <1>13, <1>14 DEF IInv, bs

-----------------------------------------------------------------------------
(* The invariant holds at the start and whatever happens.                  *)

LEMMA InitHolds == ASSUME Init PROVE IInv
<1>1. /\ bindings \in ActionMaps /\ active_context \in Contexts(bindings)
      /\ raw_events = EmptyRing(NoEvent)
      /\ frame = [a \in Actions |-> 0] /\ seen = {}
      /\ held = {} /\ before = {} /\ lost = {} /\ arrived = <<>>
  BY DEF Init
<1>2. lp = [down |-> {}, mods |-> {}, axis |-> 0, motion |-> 0, prev_down |-> {},
            last_dir |-> [i \in DOMAIN bindings |-> 0]]
  BY DEF Init
<1>3. lp \in Devices(bindings) /\ lp.down = {} /\ lp.mods = {} /\ lp.prev_down = {}
  <2>. DEFINE dirs == [i \in DOMAIN bindings |-> 0]
  <2>1. dirs \in [DOMAIN bindings -> -1 .. 1]
    OBVIOUS
  <2>. HIDE DEF dirs
  <2>. QED BY <1>2, <2>1 DEF Devices, dirs
<1>4. Knows(bindings, lp, {}, {}, {})
  <2>1. KnowsControls(bindings, lp, {}, {})
    BY <1>3 DEF KnowsControls
  <2>2. KnowsModifiers(lp, {}, {})
    BY <1>3 DEF KnowsModifiers, ModifiersOf
  <2>3. Taken(bindings, lp)
    BY <1>3 DEF Taken
  <2>4. NewestTakes(bindings, lp, {}, {}, {})
    BY DEF NewestTakes, NewestOf
  <2>. QED BY <1>3, <2>1, <2>2, <2>3, <2>4 DEF Knows
<1>5. FoldsToTheTruth(bindings, lp, {}, <<>>, {}, {})
  <2>. DEFINE none == <<>>
              l == {}
  <2>1. none \in Seq(Events(bindings)) /\ Len(none) = 0 /\ l \in SUBSET Losable(bindings)
    OBVIOUS
  <2>2. Rest(none, 0) = none /\ Gone(bindings, l, none, 0) = l
    <3>1. none \in Seq(Events(bindings))
      BY <2>1
    <3>. HIDE DEF none
    <3>. QED BY <3>1, RestOfNone
  <2>3. ASSUME NEW v \in SUBSET {"mouse", "keyboard"}
        PROVE  Folded(bindings, v, lp, none) = lp /\ Losing(bindings, v, l, none) = l
    BY <1>3, <2>1, FoldedEmpty, LosingEmpty
  <2>4. Knows(bindings, lp, l, {}, {}) /\ Keeps(bindings, lp, lp)
    BY <1>4 DEF Keeps
  <2>. HIDE DEF none, l
  <2>5. \A k \in 0 .. Len(none) : k = 0
    BY <2>1
  <2>6. FoldsToTheTruth(bindings, lp, l, none, {}, {})
    BY <2>2, <2>3, <2>4, <2>5 DEF FoldsToTheTruth
  <2>. QED BY <2>6 DEF none, l
<1>6. RingHolds(raw_events, <<>>)
  <2>1. /\ raw_events.head = 0 /\ raw_events.tail = 0
        /\ raw_events.data = [i \in 0 .. Cap - 1 |-> NoEvent]
    BY <1>1 DEF EmptyRing
  <2>2. Len(<<>>) = 0 /\ 0 <= Cap /\ DOMAIN [i \in 0 .. Cap - 1 |-> NoEvent] = 0 .. Cap - 1
        /\ 0 = (0 + 0) % CursorMod /\ 0 \in 0 .. CursorMod - 1
    BY RingAssumption
  <2>. QED BY <2>1, <2>2 DEF RingHolds
<1>7. FrameIsOfAxis(bindings, frame, lp)
  <2>1. \A i \in DOMAIN bindings : bindings[i].action \in Actions
    BY <1>1, TableFacts DEF IsBinding
  <2>. QED BY <1>1, <2>1 DEF FrameIsOfAxis
<1>8. Down = {} /\ frame \in [Actions -> -Full .. Full]
  BY <1>1, MapAssumption DEF Down
<1>9. Ordered(bindings, {}, {}) /\ arrived \in Seq(Events(bindings)) /\ lost \in SUBSET Losable(bindings)
  BY <1>1 DEF Ordered
<1>. QED BY <1>1, <1>3, <1>5, <1>6, <1>7, <1>8, <1>9 DEF IInv

LEMMA StepKeeps == ASSUME IInv, [Next]_vars PROVE IInv'
<1>1. ASSUME NEW c \in Controls, Press(c) \/ Release(c) PROVE IInv'
  BY <1>1, PressKeeps, ReleaseKeeps
<1>2. ASSUME KeyRepeat PROVE IInv'
  BY <1>2, KeyRepeatKeeps
<1>3. ASSUME NEW up \in BOOLEAN, PadChanges(up) PROVE IInv'
  BY <1>3, PadChangesKeeps
<1>4. ASSUME NEW v \in Deflections,
             Moves("pad_axis", AxisEvent(v)) \/ Moves("mouse_axis", MotionEvent(v))
      PROVE  IInv'
  <2>1. AxisEvent(v) \in ValueEvents /\ MotionEvent(v) \in ValueEvents
    BY MapAssumption DEF AxisEvent, MotionEvent, ValueEvents
  <2>. QED BY <1>4, <2>1, MovesKeeps
<1>5. ASSUME NEW c \in Contexts(bindings), ActionMapSetContext(c) PROVE IInv'
  BY <1>5, ContextKeeps
<1>6. ASSUME NEW w \in SUBSET Capturable, LiveProduce(w) PROVE IInv'
  BY <1>6, LiveProduceKeeps
<1>7. CASE UNCHANGED vars
  BY <1>7 DEF vars, IInv, Down
<1>. QED BY <1>1, <1>2, <1>3, <1>4, <1>5, <1>6, <1>7 DEF Next

-----------------------------------------------------------------------------
(* What the invariant says of the runs' properties.                        *)

LEMMA TypesHold == ASSUME IInv PROVE TypeOK
<1>1. IsRing(raw_events)
  <2>1. raw_events.tail \in 0 .. CursorMod - 1 /\ RingCount(raw_events) = Len(arrived)
    BY CountOfRing DEF IInv
  <2>. QED BY <2>1 DEF IInv, RingHolds, IsRing
<1>2. /\ lp.down \subseteq Controls /\ lp.mods \subseteq Modifiers
      /\ lp.last_dir \in [DOMAIN bindings -> -1 .. 1] /\ lp.prev_down \subseteq Actions
  BY DEF IInv, Devices, Controls
<1>3. lost \subseteq Controls \cup {ModifierBits}
  BY DEF IInv, Losable, Controls
<1>. QED BY <1>1, <1>2, <1>3 DEF IInv, TypeOK

LEMMA FoldHolds == ASSUME IInv PROVE FoldInv
<1>1. arrived \in Seq(Events(bindings)) /\ RingHolds(raw_events, arrived)
  BY DEF IInv
<1>2. RingItems(raw_events) = arrived
  BY <1>1, RingHoldsItems
<1>3. FoldedStateIsReal
  <2>1. SUFFICES ASSUME IsEmptyRing(raw_events), NEW c \in Controls \ lost
                 PROVE  c \in lp.down <=> c \in held
    BY DEF FoldedStateIsReal
  <2>2. RingCount(raw_events) = Len(arrived) /\ raw_events.tail \in 0 .. CursorMod - 1
    BY <1>1, CountOfRing
  <2>3. RingCount(raw_events) = 0
    <3>1. raw_events.tail + CursorMod - raw_events.head = CursorMod
      BY <2>1, <2>2, RingAssumption DEF IsEmptyRing
    <3>. QED BY <3>1, RingAssumption DEF RingCount
  <2>4. arrived = <<>>
    <3>1. arrived \in Seq(Events(bindings))
      BY <1>1
    <3>2. Len(arrived) = 0
      BY <2>2, <2>3
    <3>. QED BY <3>1, <3>2
  <2>5. lp \in Devices(bindings) /\ lost \in SUBSET Losable(bindings)
    BY DEF IInv
  <2>6. Device({}) = lp /\ LostNow({}) = lost
    <3>1. Folded(bindings, {}, lp, <<>>) = lp
      BY <2>5, FoldedEmpty
    <3>2. Losing(bindings, {}, lost, <<>>) = lost
      BY <2>5, LosingEmpty
    <3>. QED BY <1>2, <2>4, <3>1, <3>2 DEF Device, LostNow
  <2>7. Knows(bindings, Device({}), LostNow({}), held, before)
    BY DeviceKnows
  <2>. QED BY <2>1, <2>6, <2>7 DEF Knows, KnowsControls, Controls
<1>. QED BY <1>2, <1>3, TypesHold DEF FoldInv, RingKeepsNewest

\* A state that knows everything is satisfied by what the player calls for.
LEMMA SatisfiedCalls ==
    ASSUME bindings \in ActionMaps, NEW d, KnowsControls(bindings, d, {}, held), KnowsModifiers(d, {}, held),
           NEW i \in DOMAIN bindings
    PROVE  Satisfied(d, bindings[i]) <=> Calls(bindings[i])
<1>. DEFINE b == bindings[i]
<1>1. b.dev \in DigitalDevices => (b.pos \in d.down <=> b.pos \in held)
  BY ControlFacts DEF KnowsControls
<1>2. \A m \in b.modifiers : m \in Modifiers
  BY ControlFacts
<1>3. d.mods = {m \in Modifiers : <<"key", m>> \in held}
  BY DEF KnowsModifiers, ModifiersOf
<1>4. b.modifiers \subseteq d.mods <=> \A m \in b.modifiers : <<"key", m>> \in held
  BY <1>2, <1>3
<1>. HIDE DEF b
<1>5. Satisfied(d, b) <=> Calls(b)
  BY <1>1, <1>4 DEF Satisfied, Calls
<1>. QED BY <1>5 DEF b

LEMMA FrameHolds == ASSUME IInv PROVE FrameIsWhatIsHeld
<1>. SUFFICES ASSUME NEW w \in SUBSET Capturable, LostNow(w) = {}, NEW a \in Actions, Kind[a] = "digital"
              PROVE  Value(Device(w), a) = 1 <=> \E b \in ToSet(bindings) :
                        /\ b.action = a /\ Calls(b)
                        /\ \A o \in ToSet(bindings) : Calls(o) /\ o.pos = b.pos =>
                              Cardinality(o.modifiers) <= Cardinality(b.modifiers)
  BY DEF FrameIsWhatIsHeld
<1>. DEFINE d == Device(w)
            Size(j) == Cardinality(bindings[j].modifiers)
<1>1. bindings \in ActionMaps
  BY DEF IInv
<1>2. KnowsControls(bindings, d, {}, held) /\ KnowsModifiers(d, {}, held)
  <2>1. w \in SUBSET {"mouse", "keyboard"}
    BY DEF Capturable
  <2>. QED BY <2>1, DeviceKnows DEF Knows
<1>. HIDE DEF d
<1>3. \A j \in DOMAIN bindings : Satisfied(d, bindings[j]) <=> Calls(bindings[j])
  BY <1>1, <1>2, SatisfiedCalls
<1>4. \A j \in DOMAIN bindings : Size(j) \in Nat
  <2>1. ASSUME NEW j \in DOMAIN bindings PROVE Size(j) \in Nat
    <3>1. bindings[j].modifiers \subseteq Modifiers
      BY <1>1, TableFacts DEF IsBinding
    <3>2. IsFiniteSet(bindings[j].modifiers)
      BY <3>1, MapAssumption, FS_Subset
    <3>. QED BY <3>2, FS_CardinalityType
  <2>. QED BY <2>1
<1>5. /\ \A j \in DOMAIN bindings : bindings[j] \in ToSet(bindings)
      /\ \A b \in ToSet(bindings) : \E j \in DOMAIN bindings : b = bindings[j]
  BY <1>1, TableFacts
<1>. DEFINE Most(i) == \A j \in DOMAIN bindings :
                Calls(bindings[j]) /\ bindings[j].pos = bindings[i].pos => Size(j) <= Size(i)
<1>6. ASSUME NEW i \in DOMAIN bindings
      PROVE  i \in ActiveBindings(d) <=> Calls(bindings[i]) /\ Most(i)
  <2>1. ASSUME NEW j \in DOMAIN bindings
        PROVE  ~(Size(j) <= Size(i)) <=> j \in DOMAIN bindings \ {i} /\ Size(j) > Size(i)
    BY <1>4
  <2>. QED BY <1>3, <2>1 DEF ActiveBindings
<1>7. (\E i \in ActiveBindings(d) : bindings[i].action = a)
        <=> \E i \in DOMAIN bindings : bindings[i].action = a /\ Calls(bindings[i]) /\ Most(i)
  BY <1>6 DEF ActiveBindings
<1>8. ASSUME NEW i \in DOMAIN bindings
      PROVE  Most(i) <=> \A o \in ToSet(bindings) : Calls(o) /\ o.pos = bindings[i].pos =>
                            Cardinality(o.modifiers) <= Cardinality(bindings[i].modifiers)
  BY <1>5
<1>9. Value(d, a) = 1 <=> \E i \in ActiveBindings(d) : bindings[i].action = a
  BY DEF Value
<1>. HIDE DEF Most
<1>10. (\E i \in DOMAIN bindings : bindings[i].action = a /\ Calls(bindings[i]) /\ Most(i))
        <=> \E b \in ToSet(bindings) :
              /\ b.action = a /\ Calls(b)
              /\ \A o \in ToSet(bindings) : Calls(o) /\ o.pos = b.pos =>
                    Cardinality(o.modifiers) <= Cardinality(b.modifiers)
  BY <1>5, <1>8
<1>. QED BY <1>7, <1>9, <1>10 DEF d

\* Of two keys in order one is the newest.
LEMMA SomeNewest ==
    ASSUME NEW bs, NEW hs, NEW bf, Ordered(bs, hs, bf), NEW x, NEW y,
           {x, y} \cap hs # {}, y \notin NewestOf({x, y}, hs, bf)
    PROVE  x \in NewestOf({x, y}, hs, bf) /\ x # y
<1>1. \A a, b \in hs : a # b => (<<a, b>> \in bf <=> <<b, a>> \notin bf)
  BY DEF Ordered
<1>2. x \in hs
  BY DEF NewestOf
<1>3. x # y
  BY <1>2 DEF NewestOf
<1>4. CASE y \notin hs
  BY <1>2, <1>4 DEF NewestOf
<1>5. CASE y \in hs
  <2>1. <<x, y>> \notin bf
    BY <1>2, <1>3, <1>5 DEF NewestOf
  <2>2. <<y, x>> \in bf
    BY <1>1, <1>2, <1>3, <1>5, <2>1
  <2>. QED BY <1>2, <2>2 DEF NewestOf
<1>. QED BY <1>3, <1>4, <1>5

LEMMA LastHolds == ASSUME IInv PROVE LastPressWins
<1>. SUFFICES ASSUME NEW w \in SUBSET Capturable, NEW i \in DOMAIN bindings, OnAxis(i, "last"),
                     {bindings[i].neg, bindings[i].pos} \cap LostNow(w) = {}
              PROVE  Value(Device(w), bindings[i].action) =
                        IF {bindings[i].neg, bindings[i].pos} \cap held = {} THEN 0
                        ELSE IF bindings[i].pos \in Newest({bindings[i].neg, bindings[i].pos}) THEN Full ELSE -Full
  BY DEF LastPressWins
<1>. DEFINE b == bindings[i]
            d == Device(w)
            l == LostNow(w)
            dir == d.last_dir[i]
            r == ResolvedDir(d, b, dir)
            newest == NewestOf({b.neg, b.pos}, held, before)
<1>1. bindings \in ActionMaps /\ Ordered(bindings, held, before)
  BY DEF IInv
<1>2. Knows(bindings, d, l, held, before)
  <2>1. w \in SUBSET {"mouse", "keyboard"}
    BY DEF Capturable
  <2>. QED BY <2>1, DeviceKnows
<1>3. /\ IsLast(bindings, i) /\ IsKeysAxis(bindings, i) /\ b.socd # "neutral"
      /\ Kind[b.action] = "analog" /\ Resolves(b.action, i)
      /\ \A j \in DOMAIN bindings : Resolves(b.action, j) => j = i
  BY DEF OnAxis, IsLast, IsKeysAxis, Resolves
<1>4. Newest({b.neg, b.pos}) = newest /\ Keys(bindings, i) = {b.neg, b.pos}
  BY DEF Newest, NewestOf, Keys
<1>5. d \in Devices(bindings) /\ dir \in -1 .. 1
  BY <1>2 DEF Knows, Devices
<1>6. \A c \in {b.neg, b.pos} : c \notin l /\ (c \in d.down <=> c \in held)
  BY <1>1, <1>2, <1>3, KeyFacts DEF Knows, KnowsControls, Keys
<1>. HIDE DEF d, l
<1>7. Value(d, b.action) = r * Full
  <2>1. r = ResolvedDir(d, bindings[i], d.last_dir[i])
    OBVIOUS
  <2>. HIDE DEF r
  <2>2. Value(d, b.action) = IF Resolves(b.action, i) THEN r * Full ELSE 0
    BY <1>1, <1>3, <1>5, <2>1, ValueOfOne
  <2>. QED BY <1>3, <2>2
<1>8. /\ dir = 1 /\ b.pos \in d.down => r = 1
      /\ dir = -1 /\ b.neg \in d.down => r = -1
      /\ dir = 1 /\ b.pos \notin d.down /\ b.neg \in d.down => r = -1
      /\ dir = -1 /\ b.neg \notin d.down /\ b.pos \in d.down => r = 1
      /\ b.pos \notin d.down /\ b.neg \notin d.down => r = 0
  <2>. HIDE DEF b, dir
  <2>. QED BY <1>3, <1>5, ResolvedFacts
<1>9. ASSUME NEW c \in newest
      PROVE  /\ c \in d.down
             /\ \/ dir = Dir(bindings, i, c)
                \/ \E o \in {b.neg, b.pos} \ {c} : o \notin d.down /\ dir = Dir(bindings, i, o)
  <2>1. c \in {b.neg, b.pos} /\ c \in held /\ c \notin l
    BY <1>6 DEF NewestOf
  <2>2. c \in NewestOf(Keys(bindings, i), held, before) \ l
    BY <1>4, <2>1
  <2>3. \/ d.last_dir[i] = Dir(bindings, i, c)
        \/ \E o \in Keys(bindings, i) \ {c} : (o \notin d.down \/ o \in l) /\ d.last_dir[i] = Dir(bindings, i, o)
    BY <1>2, <1>3, <2>2 DEF Knows, NewestTakes
  <2>. QED BY <1>4, <1>6, <2>1, <2>3
<1>10. \A c : Dir(bindings, i, c) = IF b.pos = c THEN 1 ELSE -1
  BY DEF Dir
<1>. HIDE DEF b, dir, r, newest
<1>11. CASE {b.neg, b.pos} \cap held = {}
  BY <1>6, <1>7, <1>8, <1>11, MapAssumption DEF b, d
<1>12. CASE b.pos \in newest
  <2>1. r = 1
    BY <1>8, <1>9, <1>10, <1>12
  <2>2. {b.neg, b.pos} \cap held # {}
    BY <1>12 DEF newest, NewestOf
  <2>. QED BY <1>4, <1>7, <1>12, <2>1, <2>2, MapAssumption DEF b, d
<1>13. CASE {b.neg, b.pos} \cap held # {} /\ b.pos \notin newest
  <2>1. b.neg \in newest /\ b.neg # b.pos
    BY <1>1, <1>13, SomeNewest DEF newest
  <2>2. r = -1
    BY <1>8, <1>9, <1>10, <2>1
  <2>. QED BY <1>4, <1>7, <1>13, <2>2, MapAssumption DEF b, d
<1>. QED BY <1>11, <1>12, <1>13

LEMMA FirstHolds == ASSUME IInv PROVE FirstPressKeeps
<1>. DEFINE Winner(i) == IF frame[bindings[i].action] > 0 THEN bindings[i].pos ELSE bindings[i].neg
<1>. SUFFICES ASSUME NEW w \in SUBSET Capturable, NEW i \in DOMAIN bindings, OnAxis(i, "first"), OnlyBinding(i),
                     frame[bindings[i].action] # 0, Winner(i) \in held \ LostNow(w)
              PROVE  Value(Device(w), bindings[i].action) = frame[bindings[i].action]
  BY DEF FirstPressKeeps
<1>. DEFINE b == bindings[i]
            d == Device(w)
            l == LostNow(w)
            dir == d.last_dir[i]
            r == ResolvedDir(d, b, dir)
            v == frame[b.action]
<1>1. bindings \in ActionMaps /\ FrameIsOfAxis(bindings, frame, lp) /\ lp \in Devices(bindings)
      /\ frame \in [Actions -> -Full .. Full]
  BY DEF IInv
<1>2. Knows(bindings, d, l, held, before) /\ Keeps(bindings, d, lp)
  <2>1. w \in SUBSET {"mouse", "keyboard"}
    BY DEF Capturable
  <2>. QED BY <2>1, DeviceKnows
<1>3. /\ IsFirst(bindings, i) /\ IsKeysAxis(bindings, i) /\ b.socd # "neutral"
      /\ Kind[b.action] = "analog" /\ Resolves(b.action, i)
      /\ \A j \in DOMAIN bindings : Resolves(b.action, j) => j = i
  BY DEF OnAxis, IsFirst, IsKeysAxis, Resolves
<1>4. v = lp.last_dir[i] * Full
  BY <1>1, <1>3 DEF FrameIsOfAxis, OnlyBinding
<1>5. d \in Devices(bindings) /\ dir \in -1 .. 1 /\ lp.last_dir[i] \in -1 .. 1
  BY <1>1, <1>2 DEF Knows, Devices
<1>6. lp.last_dir[i] # 0
  BY <1>4, MapAssumption
<1>7. dir = lp.last_dir[i]
  BY <1>2, <1>3, <1>6 DEF Keeps
<1>8. b.neg \in ControlsOf(bindings) /\ b.pos \in ControlsOf(bindings)
  BY <1>1, <1>3, ControlFacts
<1>9. Winner(i) \in d.down
  BY <1>2, <1>8 DEF Knows, KnowsControls
<1>10. Value(d, b.action) = r * Full
  <2>1. r = ResolvedDir(d, bindings[i], d.last_dir[i])
    OBVIOUS
  <2>. HIDE DEF r, d
  <2>2. Value(d, b.action) = IF Resolves(b.action, i) THEN r * Full ELSE 0
    BY <1>1, <1>3, <1>5, <2>1, ValueOfOne
  <2>. QED BY <1>3, <2>2
<1>11. /\ dir = 1 /\ b.pos \in d.down => r = 1
       /\ dir = -1 /\ b.neg \in d.down => r = -1
  <2>. HIDE DEF b, dir, d
  <2>. QED BY <1>3, <1>5, ResolvedFacts
<1>12. Winner(i) = IF v > 0 THEN b.pos ELSE b.neg
  OBVIOUS
<1>. HIDE DEF Winner, b, d, dir, r, v
<1>13. CASE dir = 1
  <2>1. v > 0
    BY <1>4, <1>7, <1>13, MapAssumption
  <2>. QED BY <1>4, <1>7, <1>9, <1>10, <1>11, <1>12, <1>13, <2>1 DEF v, b, d
<1>14. CASE dir = -1
  <2>1. ~(v > 0)
    BY <1>4, <1>7, <1>14, MapAssumption
  <2>. QED BY <1>4, <1>7, <1>9, <1>10, <1>11, <1>12, <1>14, <2>1 DEF v, b, d
<1>. QED BY <1>5, <1>6, <1>7, <1>13, <1>14

-----------------------------------------------------------------------------
\* live_produce_frame, the action map and the ring: whatever is pressed, lost,
\* masked or overwritten between two frames, every fold of what is left of the
\* ring gives what the player holds, the last frame and its edges agree.
THEOREM FoldIsTrue == Spec => []IInv
<1>1. Init => IInv
  BY InitHolds
<1>2. IInv /\ [Next]_vars => IInv'
  BY StepKeeps
<1>. QED BY <1>1, <1>2, PTL DEF Spec

\* ring.h, live.cpp and action_map.cpp: the ring keeps the newest events in their
\* order, the drained state is what the player holds but for what was lost, and a
\* digital action is down just when a binding calls for it that no chord outdoes.
THEOREM DeviceIsRight == Spec => []DeviceInv
<1>1. IInv => DeviceInv
  BY FoldHolds, FrameHolds DEF DeviceInv
<1>. QED BY <1>1, FoldIsTrue, PTL

\* resolve_keys_axis: with SOCD_LAST_WINS the key pressed last has the axis, however
\* many presses one frame saw, and with SOCD_FIRST_WINS who has it keeps it.
THEOREM AxesFollowPolicy == Spec => []SocdPolicy
<1>1. IInv => SocdPolicy
  BY LastHolds, FirstHolds DEF SocdPolicy
<1>. QED BY <1>1, FoldIsTrue, PTL

\* action_pressed and action_released: the edges alone tell what is down.
THEOREM EdgesAreEnough == Spec => []EdgesTellAll
<1>1. IInv => EdgesTellAll
  BY DEF IInv, Down, EdgesTellAll
<1>. QED BY <1>1, FoldIsTrue, PTL

-----------------------------------------------------------------------------
(* The scripted producer.                                                  *)

\* Seen by the call for tick t: the first that was made at the event's tick or later.
IsSeenAt(i, t) ==
    t \in asked /\ events[i].tick <= t /\ \A o \in asked : events[i].tick <= o => t <= o

LastOn(c, i) == i \in EventsOn(c) /\ \A j \in EventsOn(c) : j <= i

\* Whether the channel is down when the event was the last of it.
Leaves(e, pulsing) ==
    /\ e.op # "HOLD_END"
    /\ e.op = "SET" => e.value # 0
    /\ e.op = "PRESS" => pulsing

ScriptTypes ==
    /\ events \in Seq(ScriptEvent) /\ Len(events) <= MaxEvents
    /\ cursor \in 0 .. Len(events) /\ last_tick \in 0 .. MaxTick
    /\ produced_once \in BOOLEAN
    /\ down \in [Channels -> BOOLEAN] /\ value \in [Channels -> Int]
    /\ pending_release \subseteq Channels
    /\ asked \subseteq 0 .. MaxTick

InOrder == \A i, j \in DOMAIN events : i <= j => events[i].tick <= events[j].tick

\* Nothing has happened before the first call; then the cursor is past what was due.
ReadToHere ==
    /\ ~produced_once =>
          /\ cursor = 0 /\ asked = {} /\ pending_release = {}
          /\ \A c \in Channels : ~down[c] /\ value[c] = 0
    /\ produced_once =>
          /\ last_tick \in asked /\ \A t \in asked : t <= last_tick
          /\ \A i \in DOMAIN events : i <= cursor <=> events[i].tick <= last_tick

\* The channel is as its last event left it, unless a pulse of the same call took it back.
ChannelIs(c) ==
    /\ EventsOn(c) = {} => ~down[c] /\ value[c] = 0 /\ c \notin pending_release
    /\ \A i : LastOn(c, i) =>
          LET on == Leaves(events[i], SeenAt(i) = last_tick)
          IN  /\ down[c] = on /\ value[c] = (IF on THEN events[i].value ELSE 0)
              /\ c \in pending_release <=> events[i].op = "PRESS" /\ SeenAt(i) = last_tick

ChannelsInv == produced_once => \A c \in Channels : ~Overtaken(c) => ChannelIs(c)

OutputIs ==
    produced_once => \A c \in Channels : output[c].down = down[c] /\ output[c].value = value[c]

ScriptIInv == ScriptTypes /\ InOrder /\ ReadToHere /\ ChannelsInv /\ OutputIs

-----------------------------------------------------------------------------
LEMMA ScriptEventFacts ==
    ASSUME ScriptTypes, NEW i \in DOMAIN events
    PROVE  /\ i \in Nat /\ 1 <= i /\ i <= Len(events)
           /\ events[i] \in ScriptEvent /\ events[i].tick \in 0 .. MaxTick /\ events[i].tick \in Nat
           /\ events[i].channel \in Channels /\ events[i].value \in Int
           /\ events[i].op \in {"SET", "PRESS", "HOLD_START", "HOLD_END"}
<1>1. events[i] \in ScriptEvent /\ i \in Nat /\ 1 <= i /\ i <= Len(events)
  BY DEF ScriptTypes
<1>2. /\ events[i].tick \in 0 .. MaxTick /\ events[i].channel \in Channels
      /\ events[i].value \in Strengths \cup {0}
      /\ events[i].op \in {"SET", "PRESS", "HOLD_START", "HOLD_END"}
  BY <1>1 DEF ScriptEvent
<1>3. events[i].tick \in Nat /\ events[i].value \in Int
  <2>1. events[i].tick \in 0 .. MaxTick
    BY <1>2
  <2>2. events[i].value \in Strengths \cup {0}
    BY <1>2
  <2>3. MaxTick \in Nat /\ Strengths \subseteq Int
    BY ScriptAssumption
  <2>4. events[i].tick \in Nat
    BY <2>1, <2>3
  <2>5. events[i].value \in Int
    <3>1. Strengths \cup {0} \subseteq Int
      BY <2>3
    <3>. QED BY <2>2, <3>1, Zenon
  <2>. QED BY <2>4, <2>5
<1>. QED BY <1>1, <1>2, <1>3

\* SeenAt is the one call that saw the event.
LEMMA SeenIs ==
    ASSUME NEW i, NEW t, IsSeenAt(i, t), asked \subseteq Nat
    PROVE  SeenAt(i) = t
<1>1. \A u : IsSeenAt(i, u) => u = t
  BY DEF IsSeenAt
<1>2. SeenAt(i) = CHOOSE u \in asked : events[i].tick <= u /\ \A o \in asked : events[i].tick <= o => u <= o
  BY DEF SeenAt
<1>3. IsSeenAt(i, SeenAt(i))
  BY <1>2 DEF IsSeenAt
<1>. QED BY <1>1, <1>3

LEMMA SeenExists ==
    ASSUME ScriptTypes, ReadToHere, produced_once, NEW i \in DOMAIN events,
           events[i].tick <= last_tick
    PROVE  IsSeenAt(i, SeenAt(i)) /\ SeenAt(i) <= last_tick
<1>. DEFINE T == {t \in asked : events[i].tick <= t}
<1>1. T \subseteq Nat /\ last_tick \in T /\ asked \subseteq Nat /\ \A t \in asked : t <= last_tick
  <2>1. asked \subseteq 0 .. MaxTick
    BY DEF ScriptTypes
  <2>2. asked \subseteq Nat
    BY <2>1, ScriptAssumption
  <2>3. last_tick \in asked /\ \A t \in asked : t <= last_tick
    BY DEF ReadToHere
  <2>. QED BY <2>2, <2>3
<1>2. PICK t \in T : \A u \in T : t <= u
  <2>. HIDE DEF T
  <2>. QED BY <1>1, Least
<1>3. IsSeenAt(i, t)
  BY <1>2 DEF IsSeenAt
<1>4. SeenAt(i) = t
  BY <1>1, <1>3, SeenIs
<1>. QED BY <1>1, <1>2, <1>3, <1>4

\* The loop's end: it reads what is due and nothing else.
LEMMA DueEndIs ==
    ASSUME ScriptTypes, NEW tick
    PROVE  /\ DueEnd(tick) \in cursor .. Len(events)
           /\ \A n \in cursor + 1 .. DueEnd(tick) : events[n].tick <= tick
           /\ DueEnd(tick) < Len(events) => ~(events[DueEnd(tick) + 1].tick <= tick)
<1>. DEFINE T == {n \in cursor .. Len(events) : n = Len(events) \/ ~Due(events[n + 1], tick)}
<1>1. cursor \in Nat /\ Len(events) \in Nat /\ cursor <= Len(events)
  BY DEF ScriptTypes
<1>2. T \subseteq Nat /\ Len(events) \in T
  BY <1>1
<1>3. \E n \in T : \A m \in T : n <= m
  <2>. HIDE DEF T
  <2>. QED BY <1>2, Least
<1>4. DueEnd(tick) \in T /\ \A m \in T : DueEnd(tick) <= m
  <2>1. DueEnd(tick) = Min(T)
    BY DEF DueEnd
  <2>. HIDE DEF T
  <2>. QED BY <1>3, <2>1 DEF Min
<1>5. \A n \in cursor + 1 .. DueEnd(tick) : events[n].tick <= tick
  <2>. SUFFICES ASSUME NEW n \in cursor + 1 .. DueEnd(tick), ~(events[n].tick <= tick)
                PROVE  FALSE
    OBVIOUS
  <2>1. n - 1 \in cursor .. Len(events) /\ (n - 1) + 1 = n /\ ~(DueEnd(tick) <= n - 1)
    BY <1>1, <1>4
  <2>2. n - 1 \in T
    BY <2>1 DEF Due
  <2>. QED BY <1>4, <2>1, <2>2
<1>. QED BY <1>4, <1>5 DEF Due

\* What Run says is well defined.
RunStep(c, r, n) ==
    IF n = cursor THEN AfterPulse(c)
    ELSE IF events[n].channel = c THEN Applied(r[n - 1], events[n])
    ELSE r[n - 1]

RunTo(c, r, m) == DOMAIN r = cursor .. m /\ \A n \in cursor .. m : r[n] = RunStep(c, r, n)

\* A function of the steps from the cursor to m.
Tabled(r, m) == r = [n \in cursor .. m |-> r[n]]

IsRun(c, r) == r = [n \in cursor .. Len(events) |-> RunStep(c, r, n)]

LEMMA RunExists ==
    ASSUME ScriptTypes, NEW c, NEW m \in cursor .. Len(events)
    PROVE  \E r : RunTo(c, r, m) /\ Tabled(r, m)
<1>. DEFINE T == {n \in cursor .. Len(events) : ~\E r : RunTo(c, r, n) /\ Tabled(r, n)}
<1>0. cursor \in Nat /\ Len(events) \in Nat
  BY DEF ScriptTypes
<1>1. T = {}
  <2>. SUFFICES ASSUME T # {} PROVE FALSE
    OBVIOUS
  <2>1. PICK n \in T : \A k \in T : n <= k
    <3>1. T \subseteq Nat
      BY <1>0
    <3>. HIDE DEF T
    <3>. QED BY <3>1, Least
  <2>2. n \in cursor .. Len(events) /\ ~\E r : RunTo(c, r, n) /\ Tabled(r, n)
    OBVIOUS
  <2>3. n # cursor
    <3>. SUFFICES ASSUME n = cursor PROVE FALSE
      OBVIOUS
    <3>1. PICK p : p = AfterPulse(c)
      OBVIOUS
    <3>. DEFINE r == [k \in cursor .. n |-> p]
    <3>2. DOMAIN r = cursor .. n /\ (\A k \in cursor .. n : k = cursor /\ r[k] = p) /\ Tabled(r, n)
      BY <1>0 DEF Tabled
    <3>. HIDE DEF r
    <3>3. RunTo(c, r, n)
      BY <3>1, <3>2 DEF RunTo, RunStep
    <3>. QED BY <2>2, <3>2, <3>3
  <2>4. n - 1 \in cursor .. Len(events) /\ n - 1 \notin T
    BY <1>0, <2>1, <2>2, <2>3
  <2>5. PICK g : RunTo(c, g, n - 1)
    BY <2>4
  <2>6. PICK x : x = RunStep(c, g, n)
    OBVIOUS
  <2>. DEFINE r == [k \in cursor .. n |-> IF k = n THEN x ELSE g[k]]
  <2>7. DOMAIN r = cursor .. n /\ r[n] = x /\ \A k \in cursor .. n - 1 : r[k] = g[k]
    BY <1>0, <2>2
  <2>11. Tabled(r, n)
    BY DEF Tabled
  <2>. HIDE DEF r
  <2>8. \A k \in cursor .. n : RunStep(c, r, k) = RunStep(c, g, k)
    <3>. SUFFICES ASSUME NEW k \in cursor .. n PROVE RunStep(c, r, k) = RunStep(c, g, k)
      OBVIOUS
    <3>1. k = cursor \/ k - 1 \in cursor .. n - 1
      BY <1>0
    <3>. QED BY <2>7, <3>1 DEF RunStep
  <2>9. \A k \in cursor .. n : r[k] = RunStep(c, r, k)
    <3>. SUFFICES ASSUME NEW k \in cursor .. n PROVE r[k] = RunStep(c, r, k)
      OBVIOUS
    <3>1. CASE k = n
      BY <2>6, <2>7, <2>8, <3>1
    <3>2. CASE k \in cursor .. n - 1
      BY <2>5, <2>7, <2>8, <3>2 DEF RunTo
    <3>. QED BY <1>0, <2>2, <3>1, <3>2
  <2>10. RunTo(c, r, n)
    BY <2>7, <2>9 DEF RunTo
  <2>. QED BY <2>2, <2>10, <2>11
<1>. QED BY <1>1

LEMMA RunIs ==
    ASSUME ScriptTypes, NEW c
    PROVE  RunTo(c, Run(c), Len(events))
<1>0. cursor \in Nat /\ Len(events) \in Nat /\ cursor <= Len(events)
  BY DEF ScriptTypes
<1>1. PICK r : RunTo(c, r, Len(events)) /\ Tabled(r, Len(events))
  <2>1. Len(events) \in cursor .. Len(events)
    BY <1>0
  <2>. QED BY <2>1, RunExists
<1>2. IsRun(c, r)
  BY <1>1 DEF RunTo, IsRun, Tabled
<1>3. Run(c) = CHOOSE x : IsRun(c, x)
  BY DEF Run, IsRun, RunStep
<1>4. IsRun(c, Run(c))
  BY <1>2, <1>3
<1>. QED BY <1>4 DEF IsRun, RunTo

-----------------------------------------------------------------------------
\* What a channel has come to after the events from the cursor to n.
NewOn(c, n) == {i \in cursor + 1 .. n : events[i].channel = c}

RunSays(c, n, s) ==
    /\ s.down \in BOOLEAN /\ s.value \in Int /\ s.pulse \in BOOLEAN
    /\ NewOn(c, n) = {} =>
          s.down = AfterPulse(c).down /\ s.value = AfterPulse(c).value /\ ~s.pulse
    /\ \A i \in NewOn(c, n) : (\A j \in NewOn(c, n) : j <= i) =>
          /\ s.down = Leaves(events[i], TRUE)
          /\ s.down => s.value = events[i].value
          /\ ~s.down => s.value = 0
    /\ s.pulse <=> \E i \in NewOn(c, n) : events[i].op = "PRESS"

States == [down : BOOLEAN, value : Int, pulse : BOOLEAN]

\* One event: the channel is left as the event says, and a press raises the pulse.
LEMMA AppliedIs ==
    ASSUME NEW s \in States, NEW e \in ScriptEvent
    PROVE  /\ Applied(s, e) \in States
           /\ Applied(s, e).down = Leaves(e, TRUE)
           /\ Applied(s, e).down => Applied(s, e).value = e.value
           /\ ~Applied(s, e).down => Applied(s, e).value = 0
           /\ Applied(s, e).pulse <=> s.pulse \/ e.op = "PRESS"
<1>1. /\ e.op \in {"SET", "PRESS", "HOLD_START", "HOLD_END"} /\ e.value \in Int
      /\ (e.value # 0) \in BOOLEAN
  <2>1. e.value \in Strengths \cup {0} /\ e.op \in {"SET", "PRESS", "HOLD_START", "HOLD_END"}
    BY DEF ScriptEvent
  <2>2. Strengths \cup {0} \subseteq Int
    BY ScriptAssumption
  <2>3. e.value \in Int
    BY <2>1, <2>2, Zenon
  <2>. QED BY <2>1, <2>3
<1>. DEFINE t == Applied(s, e)
<1>2. CASE e.op = "SET"
  <2>1. t = [s EXCEPT !.down = e.value # 0, !.value = e.value]
    BY <1>2 DEF Applied
  <2>. QED BY <1>1, <1>2, <2>1 DEF States, Leaves
<1>3. CASE e.op = "PRESS"
  <2>1. t = [down |-> TRUE, value |-> e.value, pulse |-> TRUE]
    BY <1>3 DEF Applied
  <2>. QED BY <1>1, <1>3, <2>1 DEF States, Leaves
<1>4. CASE e.op = "HOLD_START"
  <2>1. t = [s EXCEPT !.down = TRUE, !.value = e.value]
    BY <1>4 DEF Applied
  <2>. QED BY <1>1, <1>4, <2>1 DEF States, Leaves
<1>5. CASE e.op = "HOLD_END"
  <2>1. t = [s EXCEPT !.down = FALSE, !.value = 0]
    BY <1>5 DEF Applied
  <2>2. t \in States /\ ~t.down /\ t.value = 0 /\ t.pulse = s.pulse
    <3>1. PICK f \in BOOLEAN : f = FALSE
      OBVIOUS
    <3>2. PICK z \in Int : z = 0
      OBVIOUS
    <3>3. t = [s EXCEPT !.down = f, !.value = z]
      BY <2>1, <3>1, <3>2
    <3>4. t \in States /\ t.down = f /\ t.value = z /\ t.pulse = s.pulse
      BY <3>3 DEF States
    <3>. QED BY <3>1, <3>2, <3>4
  <2>3. ~Leaves(e, TRUE) /\ ~(e.op = "PRESS")
    BY <1>5 DEF Leaves
  <2>4. t.down \in BOOLEAN /\ Leaves(e, TRUE) \in BOOLEAN
    BY <2>2 DEF Leaves, States
  <2>5. t.down = Leaves(e, TRUE)
    BY <2>2, <2>3, <2>4
  <2>. QED BY <2>2, <2>3, <2>5
<1>. QED BY <1>1, <1>2, <1>3, <1>4, <1>5

LEMMA AfterPulseIs ==
    ASSUME ScriptTypes, NEW c \in Channels
    PROVE  /\ AfterPulse(c) \in States /\ ~AfterPulse(c).pulse
           /\ c \in pending_release => ~AfterPulse(c).down /\ AfterPulse(c).value = 0
           /\ c \notin pending_release => AfterPulse(c).down = down[c] /\ AfterPulse(c).value = value[c]
<1>1. down[c] \in BOOLEAN /\ value[c] \in Int
  BY DEF ScriptTypes
<1>2. CASE c \in pending_release
  <2>1. PICK f \in BOOLEAN : f = FALSE
    OBVIOUS
  <2>2. PICK z \in Int : z = 0
    OBVIOUS
  <2>3. AfterPulse(c) = [down |-> f, value |-> z, pulse |-> f]
    BY <1>2, <2>1, <2>2 DEF AfterPulse
  <2>4. AfterPulse(c) \in States /\ AfterPulse(c).down = f /\ AfterPulse(c).value = z /\ AfterPulse(c).pulse = f
    BY <2>3 DEF States
  <2>. QED BY <1>2, <2>1, <2>2, <2>4
<1>3. CASE c \notin pending_release
  <2>1. AfterPulse(c) = [down |-> down[c], value |-> value[c], pulse |-> FALSE]
    BY <1>3 DEF AfterPulse
  <2>. QED BY <1>1, <1>3, <2>1 DEF States
<1>. QED BY <1>2, <1>3

\* The loop, event by event.
LEMMA RunFollows ==
    ASSUME ScriptTypes, NEW c \in Channels, NEW m \in cursor .. Len(events)
    PROVE  Run(c)[m] \in States /\ RunSays(c, m, Run(c)[m])
<1>0. cursor \in Nat /\ Len(events) \in Nat
  BY DEF ScriptTypes
<1>. DEFINE T == {n \in cursor .. Len(events) : ~(Run(c)[n] \in States /\ RunSays(c, n, Run(c)[n]))}
<1>1. T = {}
  <2>. SUFFICES ASSUME T # {} PROVE FALSE
    OBVIOUS
  <2>1. PICK n \in T : \A k \in T : n <= k
    <3>1. T \subseteq Nat
      BY <1>0
    <3>. HIDE DEF T
    <3>. QED BY <3>1, Least
  <2>2. n \in cursor .. Len(events) /\ ~(Run(c)[n] \in States /\ RunSays(c, n, Run(c)[n]))
    OBVIOUS
  <2>3. Run(c)[n] = RunStep(c, Run(c), n)
    BY <1>0, <2>2, RunIs DEF RunTo
  <2>4. n # cursor
    <3>. SUFFICES ASSUME n = cursor PROVE FALSE
      OBVIOUS
    <3>1. Run(c)[n] = AfterPulse(c)
      BY <2>3 DEF RunStep
    <3>2. NewOn(c, n) = {}
      BY <1>0 DEF NewOn
    <3>. QED BY <2>2, <3>1, <3>2, AfterPulseIs DEF RunSays, States
  <2>5. n - 1 \in cursor .. Len(events) /\ n - 1 \notin T /\ n \in DOMAIN events
    BY <1>0, <2>1, <2>2, <2>4
  <2>6. PICK s : s = Run(c)[n - 1]
    OBVIOUS
  <2>7. s \in States /\ RunSays(c, n - 1, s)
    BY <2>5, <2>6
  <2>8. \A i : i \in NewOn(c, n) <=> i \in NewOn(c, n - 1) \/ (i = n /\ events[n].channel = c)
    BY <1>0, <2>2, <2>4 DEF NewOn
  <2>9. \A i \in NewOn(c, n - 1) : i \in Nat /\ i < n
    BY <1>0, <2>2 DEF NewOn
  <2>10. CASE events[n].channel = c
    <3>1. PICK e : e = events[n]
      OBVIOUS
    <3>2. PICK t : t = Applied(s, e)
      OBVIOUS
    <3>3. Run(c)[n] = t
      BY <2>3, <2>4, <2>6, <2>10, <3>1, <3>2 DEF RunStep
    <3>4. /\ t \in States /\ t.down = Leaves(e, TRUE)
          /\ t.down => t.value = e.value
          /\ ~t.down => t.value = 0
          /\ t.pulse <=> s.pulse \/ e.op = "PRESS"
      <4>1. e \in ScriptEvent
        BY <2>5, <3>1, ScriptEventFacts
      <4>. QED BY <2>7, <3>2, <4>1, AppliedIs
    <3>5. n \in NewOn(c, n) /\ \A i \in NewOn(c, n) : i <= n
      BY <1>0, <2>2, <2>8, <2>9, <2>10
    <3>6. \A i \in NewOn(c, n) : (\A j \in NewOn(c, n) : j <= i) => i = n
      BY <2>2, <2>8, <2>9, <3>5
    <3>7. t.pulse <=> \E i \in NewOn(c, n) : events[i].op = "PRESS"
      BY <2>7, <2>8, <2>10, <3>1, <3>4 DEF RunSays
    <3>8. t.down \in BOOLEAN /\ t.value \in Int /\ t.pulse \in BOOLEAN
      BY <3>4 DEF States
    <3>9. RunSays(c, n, t)
      BY <3>1, <3>4, <3>5, <3>6, <3>7, <3>8 DEF RunSays
    <3>. QED BY <2>2, <3>3, <3>4, <3>9
  <2>11. CASE events[n].channel # c
    <3>1. Run(c)[n] = s
      BY <2>3, <2>4, <2>6, <2>11 DEF RunStep
    <3>2. NewOn(c, n) = NewOn(c, n - 1)
      BY <2>8, <2>11
    <3>. QED BY <2>2, <2>7, <3>1, <3>2 DEF RunSays
  <2>. QED BY <2>10, <2>11
<1>. QED BY <1>1

-----------------------------------------------------------------------------
\* A call's tick sees what is newly due; what was seen stays seen by the same call.
LEMMA SeenIsNext ==
    ASSUME NEW i, NEW t, IsSeenAt(i, t)', (asked \subseteq Nat)'
    PROVE  SeenAt(i)' = t
<1>1. \A u : IsSeenAt(i, u)' => u = t
  BY DEF IsSeenAt
<1>2. SeenAt(i)' = CHOOSE u \in asked' : events'[i].tick <= u /\ \A o \in asked' : events'[i].tick <= o => u <= o
  BY DEF SeenAt
<1>3. \E u \in asked' : events'[i].tick <= u /\ \A o \in asked' : events'[i].tick <= o => u <= o
  BY DEF IsSeenAt
<1>4. /\ SeenAt(i)' \in asked' /\ events'[i].tick <= SeenAt(i)'
      /\ \A o \in asked' : events'[i].tick <= o => SeenAt(i)' <= o
  BY <1>2, <1>3
<1>5. /\ t \in asked' /\ events'[i].tick <= t
      /\ \A o \in asked' : events'[i].tick <= o => t <= o
  BY DEF IsSeenAt
<1>6. asked' \subseteq Nat
  OBVIOUS
<1>7. t <= SeenAt(i)' /\ SeenAt(i)' <= t
  BY <1>4, <1>5
<1>8. PICK u \in Nat : u = SeenAt(i)'
  BY <1>4, <1>6
<1>9. t \in Nat /\ t <= u /\ u <= t
  BY <1>5, <1>6, <1>7, <1>8
<1>10. t = u
  BY <1>9
<1>. QED BY <1>8, <1>10

\* What a call does to the reader and the history.
Advances(tick) ==
    /\ produced_once => tick > last_tick
    /\ produced_once' /\ last_tick' = tick /\ asked' = asked \cup {tick} /\ events' = events
    /\ cursor' \in cursor .. Len(events)
    /\ \A i \in DOMAIN events : i <= cursor' <=> events[i].tick <= tick

OldOn(c) == {i \in DOMAIN events : i <= cursor /\ events[i].channel = c}

LEMMA ProduceAdvances ==
    ASSUME ScriptTypes, InOrder, ReadToHere, NEW tick \in 0 .. MaxTick, ScriptProduce(tick)
    PROVE  Advances(tick) /\ cursor' = DueEnd(tick)
<1>1. /\ produced_once => tick > last_tick
      /\ produced_once' /\ last_tick' = tick /\ asked' = asked \cup {tick} /\ events' = events
      /\ cursor' = DueEnd(tick)
  BY DEF ScriptProduce
<1>2. /\ cursor' \in cursor .. Len(events)
      /\ \A n \in cursor + 1 .. cursor' : events[n].tick <= tick
      /\ cursor' < Len(events) => ~(events[cursor' + 1].tick <= tick)
  BY <1>1, DueEndIs
<1>3. cursor \in Nat /\ Len(events) \in Nat /\ DOMAIN events = 1 .. Len(events) /\ last_tick \in Nat /\ tick \in Nat
  BY ScriptAssumption DEF ScriptTypes
<1>4. \A i \in DOMAIN events : events[i].tick \in Nat
  BY ScriptEventFacts
<1>5. ASSUME NEW i \in DOMAIN events, i <= cursor'
      PROVE  events[i].tick <= tick
  <2>1. CASE i <= cursor
    <3>1. produced_once
      BY <1>3, <2>1 DEF ReadToHere
    <3>2. events[i].tick <= last_tick
      BY <2>1, <3>1 DEF ReadToHere
    <3>. QED BY <1>1, <1>3, <1>4, <3>1, <3>2
  <2>2. CASE ~(i <= cursor)
    <3>1. i \in cursor + 1 .. cursor'
      BY <1>2, <1>3, <1>5, <2>2
    <3>. QED BY <1>2, <3>1
  <2>. QED BY <2>1, <2>2
<1>6. ASSUME NEW i \in DOMAIN events, ~(i <= cursor')
      PROVE  ~(events[i].tick <= tick)
  <2>1. cursor' + 1 \in DOMAIN events /\ cursor' + 1 <= i /\ cursor' < Len(events)
    <3>1. cursor' \in Nat /\ i \in 1 .. Len(events)
      BY <1>2, <1>3
    <3>2. cursor' < i
      BY <1>6, <3>1
    <3>3. cursor' < Len(events) /\ cursor' + 1 <= i /\ cursor' + 1 \in 1 .. Len(events)
      <4>1. Len(events) \in Nat
        BY <1>3
      <4>2. i \in Nat /\ i <= Len(events)
        BY <3>1, <4>1
      <4>3. PICK k \in Nat : k = cursor'
        BY <3>1
      <4>4. PICK L \in Nat : L = Len(events)
        BY <4>1
      <4>5. k < L /\ k + 1 <= i /\ k + 1 \in 1 .. L
        <5>1. k < i /\ i <= L /\ i \in Nat
          BY <3>2, <4>2, <4>3, <4>4
        <5>. QED BY <5>1
      <4>. QED BY <4>3, <4>4, <4>5
    <3>. QED BY <1>3, <3>3
  <2>2. events[cursor' + 1].tick <= events[i].tick
    BY <2>1 DEF InOrder
  <2>3. ~(events[cursor' + 1].tick <= tick)
    BY <1>2, <2>1
  <2>4. events[i].tick \in Nat /\ events[cursor' + 1].tick \in Nat
    BY <1>4, <2>1
  <2>. QED BY <1>3, <2>2, <2>3, <2>4
<1>. QED BY <1>1, <1>2, <1>5, <1>6 DEF Advances

LEMMA EventsOnNext ==
    ASSUME ScriptTypes, NEW tick \in 0 .. MaxTick, Advances(tick), NEW c
    PROVE  \A i : i \in EventsOn(c)' <=> i \in OldOn(c) \/ i \in NewOn(c, cursor')
<1>1. cursor \in Nat /\ cursor' \in Nat /\ cursor <= cursor' /\ DOMAIN events = 1 .. Len(events) /\ cursor' <= Len(events)
  BY DEF ScriptTypes, Advances
<1>2. \A i : i \in EventsOn(c)' <=> i \in DOMAIN events /\ events[i].channel = c /\ i <= cursor'
  BY DEF EventsOn, Advances
<1>. QED BY <1>1, <1>2 DEF OldOn, NewOn

LEMMA EventsOnNow ==
    ASSUME ScriptTypes, ReadToHere, produced_once, NEW c
    PROVE  EventsOn(c) = OldOn(c)
BY DEF EventsOn, OldOn, ReadToHere

LEMMA SeenNext ==
    ASSUME ScriptTypes, ReadToHere, NEW tick \in 0 .. MaxTick, Advances(tick),
           NEW i \in DOMAIN events, i <= cursor'
    PROVE  /\ i <= cursor => SeenAt(i)' = SeenAt(i) /\ SeenAt(i) # tick
           /\ ~(i <= cursor) => SeenAt(i)' = tick
<1>1. /\ tick \in Nat /\ asked \subseteq Nat /\ last_tick \in Nat /\ (asked \subseteq Nat)'
      /\ asked' = asked \cup {tick} /\ events' = events /\ events[i].tick \in Nat
  <2>1. tick \in Nat /\ asked \subseteq Nat /\ last_tick \in Nat
    BY ScriptAssumption DEF ScriptTypes
  <2>2. events[i].tick \in Nat
    BY ScriptEventFacts
  <2>. QED BY <2>1, <2>2 DEF Advances
<1>2. events[i].tick <= tick
  BY DEF Advances
<1>3. ASSUME i <= cursor PROVE SeenAt(i)' = SeenAt(i) /\ SeenAt(i) # tick
  <2>1. produced_once
    BY <1>3 DEF ReadToHere, ScriptTypes
  <2>2. events[i].tick <= last_tick /\ tick > last_tick
    BY <1>3, <2>1 DEF ReadToHere, Advances
  <2>3. PICK u : u = SeenAt(i)
    OBVIOUS
  <2>4. IsSeenAt(i, u) /\ u <= last_tick
    BY <2>1, <2>2, <2>3, SeenExists
  <2>5. u \in Nat
    BY <1>1, <2>4 DEF IsSeenAt
  <2>6. IsSeenAt(i, u)'
    BY <1>1, <2>2, <2>4, <2>5 DEF IsSeenAt
  <2>7. SeenAt(i)' = u
    BY <1>1, <2>6, SeenIsNext
  <2>. QED BY <1>1, <2>2, <2>3, <2>4, <2>5, <2>7
<1>4. ASSUME ~(i <= cursor) PROVE SeenAt(i)' = tick
  <2>1. \A o \in asked : ~(events[i].tick <= o)
    <3>1. CASE ~produced_once
      BY <3>1 DEF ReadToHere
    <3>2. CASE produced_once
      <4>1. ~(events[i].tick <= last_tick) /\ \A o \in asked : o <= last_tick
        BY <1>4, <3>2 DEF ReadToHere
      <4>. QED BY <1>1, <4>1
    <3>. QED BY <3>1, <3>2
  <2>2. IsSeenAt(i, tick)'
    BY <1>1, <1>2, <2>1 DEF IsSeenAt
  <2>. QED BY <1>1, <2>2, SeenIsNext
<1>. QED BY <1>3, <1>4

\* A press that was overtaken stays so.
LEMMA OvertakenStays ==
    ASSUME ScriptTypes, ReadToHere, NEW tick \in 0 .. MaxTick, Advances(tick), NEW c,
           produced_once, Overtaken(c)
    PROVE  Overtaken(c)'
<1>1. PICK i, j \in EventsOn(c) : i < j /\ events[i].op = "PRESS" /\ SeenAt(i) = SeenAt(j)
  BY DEF Overtaken
<1>2. i \in OldOn(c) /\ j \in OldOn(c)
  BY <1>1, EventsOnNow
<1>3. i \in EventsOn(c)' /\ j \in EventsOn(c)'
  BY <1>2, EventsOnNext
<1>4. /\ i \in DOMAIN events /\ j \in DOMAIN events /\ i <= cursor /\ j <= cursor
      /\ i <= cursor' /\ j <= cursor' /\ events' = events
  <2>1. /\ i \in DOMAIN events /\ j \in DOMAIN events /\ i <= cursor /\ j <= cursor
    BY <1>2 DEF OldOn
  <2>2. cursor' \in cursor .. Len(events) /\ events' = events /\ cursor \in Nat /\ DOMAIN events = 1 .. Len(events)
    BY DEF Advances, ScriptTypes
  <2>. QED BY <2>1, <2>2
<1>5. SeenAt(i)' = SeenAt(i) /\ SeenAt(j)' = SeenAt(j)
  BY <1>4, SeenNext
<1>6. events'[i].op = "PRESS" /\ SeenAt(i)' = SeenAt(j)' /\ i < j
  BY <1>1, <1>4, <1>5
<1>. QED BY <1>3, <1>6 DEF Overtaken


\* Only the press itself raises the pulse when nothing overtook it in this call.
LEMMA LastPress ==
    ASSUME ScriptTypes, ReadToHere, NEW tick \in 0 .. MaxTick, Advances(tick), NEW c,
           ~Overtaken(c)', NEW i \in NewOn(c, cursor'), \A j \in NewOn(c, cursor') : j <= i
    PROVE  (\E j \in NewOn(c, cursor') : events[j].op = "PRESS") <=> events[i].op = "PRESS"
<1>. SUFFICES ASSUME NEW j \in NewOn(c, cursor'), events[j].op = "PRESS", j # i
              PROVE  FALSE
  OBVIOUS
<1>1. cursor \in Nat /\ cursor' \in Nat /\ cursor' <= Len(events) /\ DOMAIN events = 1 .. Len(events) /\ events' = events
  BY DEF ScriptTypes, Advances
<1>2. /\ i \in cursor + 1 .. cursor' /\ j \in cursor + 1 .. cursor' /\ j <= i
  BY DEF NewOn
<1>3. /\ i \in DOMAIN events /\ j \in DOMAIN events /\ i <= cursor' /\ j <= cursor'
      /\ ~(i <= cursor) /\ ~(j <= cursor) /\ j < i
  BY <1>1, <1>2
<1>4. SeenAt(i)' = tick /\ SeenAt(j)' = tick
  BY <1>3, SeenNext
<1>5. i \in EventsOn(c)' /\ j \in EventsOn(c)'
  BY EventsOnNext
<1>6. events'[j].op = "PRESS" /\ SeenAt(j)' = SeenAt(i)'
  BY <1>1, <1>4
<1>. QED BY <1>3, <1>5, <1>6 DEF Overtaken

\* The channel after a call that had nothing new for it.
LEMMA QuietChannel ==
    ASSUME ScriptTypes, ReadToHere, ChannelsInv, NEW tick \in 0 .. MaxTick, Advances(tick),
           NEW c \in Channels, ~Overtaken(c)', NewOn(c, cursor') = {},
           down'[c] = AfterPulse(c).down, value'[c] = AfterPulse(c).value, c \notin pending_release'
    PROVE  ChannelIs(c)'
<1>1. \A i : i \in EventsOn(c)' <=> i \in OldOn(c)
  BY EventsOnNext
<1>2. CASE ~produced_once
  <2>1. EventsOn(c)' = {}
    <3>1. cursor = 0 /\ DOMAIN events = 1 .. Len(events)
      BY <1>2 DEF ReadToHere, ScriptTypes
    <3>2. OldOn(c) = {}
      BY <3>1 DEF OldOn
    <3>. QED BY <1>1, <3>2
  <2>2. ~down[c] /\ value[c] = 0 /\ c \notin pending_release
    BY <1>2 DEF ReadToHere
  <2>3. ~down'[c] /\ value'[c] = 0
    BY <2>2, AfterPulseIs
  <2>. QED BY <2>1, <2>3 DEF ChannelIs, LastOn
<1>3. CASE produced_once
  <2>1. ChannelIs(c)
    BY <1>3, OvertakenStays DEF ChannelsInv
  <2>2. EventsOn(c)' = EventsOn(c) /\ EventsOn(c) = OldOn(c)
    BY <1>1, <1>3, EventsOnNow
  <2>3. CASE EventsOn(c) = {}
    <3>1. ~down[c] /\ value[c] = 0 /\ c \notin pending_release
      BY <2>1, <2>3 DEF ChannelIs
    <3>2. ~down'[c] /\ value'[c] = 0
      BY <3>1, AfterPulseIs
    <3>. QED BY <2>2, <2>3, <3>2 DEF ChannelIs, LastOn
  <2>4. CASE EventsOn(c) # {}
    <3>. SUFFICES ASSUME NEW i, LastOn(c, i)'
                  PROVE  /\ down'[c] = Leaves(events'[i], SeenAt(i)' = last_tick')
                         /\ value'[c] = (IF Leaves(events'[i], SeenAt(i)' = last_tick') THEN events'[i].value ELSE 0)
                         /\ c \in pending_release' <=> events'[i].op = "PRESS" /\ SeenAt(i)' = last_tick'
      BY <2>2, <2>4 DEF ChannelIs
    <3>1. LastOn(c, i) /\ i \in OldOn(c)
      BY <2>2 DEF LastOn
    <3>2. i \in DOMAIN events /\ i <= cursor /\ i <= cursor' /\ events' = events /\ last_tick' = tick
      <4>1. i \in DOMAIN events /\ i <= cursor
        BY <3>1 DEF OldOn
      <4>2. cursor' \in cursor .. Len(events) /\ events' = events /\ cursor \in Nat /\ DOMAIN events = 1 .. Len(events)
        BY DEF Advances, ScriptTypes
      <4>. QED BY <4>1, <4>2 DEF Advances
    <3>3. SeenAt(i)' # tick
      BY <3>2, SeenNext
    <3>4. PICK e : e = events[i]
      OBVIOUS
    <3>5. PICK on \in BOOLEAN : on = Leaves(e, SeenAt(i) = last_tick)
      BY DEF Leaves
    <3>6. /\ down[c] = on /\ value[c] = (IF on THEN e.value ELSE 0)
          /\ c \in pending_release <=> e.op = "PRESS" /\ SeenAt(i) = last_tick
      BY <2>1, <3>1, <3>4, <3>5 DEF ChannelIs
    <3>7. PICK off \in BOOLEAN : off = Leaves(e, FALSE)
      BY DEF Leaves
    <3>8. down'[c] = off /\ value'[c] = (IF off THEN e.value ELSE 0)
      <4>1. CASE c \in pending_release
        <5>1. ~off
          BY <3>6, <3>7, <4>1 DEF Leaves
        <5>2. ~AfterPulse(c).down /\ AfterPulse(c).value = 0 /\ AfterPulse(c).down \in BOOLEAN
          BY <4>1, AfterPulseIs DEF States
        <5>. QED BY <5>1, <5>2
      <4>2. CASE c \notin pending_release
        <5>1. ~(e.op = "PRESS" /\ SeenAt(i) = last_tick)
          BY <3>6, <4>2
        <5>2. off = on
          BY <3>5, <3>7, <5>1 DEF Leaves
        <5>. QED BY <3>6, <4>2, <5>2, AfterPulseIs
      <4>. QED BY <4>1, <4>2
    <3>9. off = Leaves(events'[i], SeenAt(i)' = last_tick')
      BY <3>2, <3>3, <3>4, <3>7 DEF Leaves
    <3>. QED BY <3>2, <3>3, <3>4, <3>8, <3>9
  <2>. QED BY <2>3, <2>4
<1>. QED BY <1>2, <1>3

\* The channel after a call that had events for it.
LEMMA BusyChannel ==
    ASSUME ScriptTypes, ReadToHere, NEW tick \in 0 .. MaxTick, Advances(tick),
           NEW c \in Channels, ~Overtaken(c)', NewOn(c, cursor') # {}, NEW s,
           RunSays(c, cursor', s),
           down'[c] = s.down, value'[c] = s.value, c \in pending_release' <=> s.pulse
    PROVE  ChannelIs(c)'
<1>1. \A i : i \in EventsOn(c)' <=> i \in OldOn(c) \/ i \in NewOn(c, cursor')
  BY EventsOnNext
<1>2. /\ cursor \in Nat /\ cursor' \in Nat /\ cursor' <= Len(events) /\ DOMAIN events = 1 .. Len(events)
      /\ events' = events /\ last_tick' = tick
  BY DEF ScriptTypes, Advances
<1>3. EventsOn(c)' # {}
  BY <1>1
<1>. SUFFICES ASSUME NEW i, LastOn(c, i)'
              PROVE  /\ down'[c] = Leaves(events'[i], SeenAt(i)' = last_tick')
                     /\ value'[c] = (IF Leaves(events'[i], SeenAt(i)' = last_tick') THEN events'[i].value ELSE 0)
                     /\ c \in pending_release' <=> events'[i].op = "PRESS" /\ SeenAt(i)' = last_tick'
  BY <1>3 DEF ChannelIs
<1>4. i \in EventsOn(c)' /\ \A j \in EventsOn(c)' : j <= i
  BY DEF LastOn
<1>5. i \in NewOn(c, cursor') /\ \A j \in NewOn(c, cursor') : j <= i
  <2>1. PICK j : j \in NewOn(c, cursor')
    OBVIOUS
  <2>2. j <= i /\ j \in cursor + 1 .. cursor'
    BY <1>1, <1>4, <2>1 DEF NewOn
  <2>3. i \notin OldOn(c)
    BY <1>2, <2>2 DEF OldOn
  <2>. QED BY <1>1, <1>4, <2>3
<1>6. i \in DOMAIN events /\ i <= cursor' /\ ~(i <= cursor)
  <2>1. i \in cursor + 1 .. cursor'
    BY <1>5 DEF NewOn
  <2>. QED BY <1>2, <2>1
<1>7. SeenAt(i)' = tick
  BY <1>6, SeenNext
<1>8. PICK e : e = events[i]
  OBVIOUS
<1>9. PICK on \in BOOLEAN : on = Leaves(e, TRUE)
  BY DEF Leaves
<1>10. s.down = on /\ (s.down => s.value = e.value) /\ (~s.down => s.value = 0)
  BY <1>5, <1>8, <1>9 DEF RunSays
<1>11. s.pulse <=> e.op = "PRESS"
  <2>1. s.pulse <=> \E j \in NewOn(c, cursor') : events[j].op = "PRESS"
    BY DEF RunSays
  <2>. QED BY <1>5, <1>8, <2>1, LastPress
<1>12. on = Leaves(events'[i], SeenAt(i)' = last_tick')
  BY <1>2, <1>7, <1>8, <1>9 DEF Leaves
<1>13. value'[c] = (IF on THEN e.value ELSE 0)
  BY <1>10
<1>. QED BY <1>2, <1>7, <1>8, <1>10, <1>11, <1>12, <1>13


LEMMA ProduceStep ==
    ASSUME ScriptIInv, NEW tick \in 0 .. MaxTick, ScriptProduce(tick)
    PROVE  ScriptIInv'
<1>1. ScriptTypes /\ InOrder /\ ReadToHere /\ ChannelsInv
  BY DEF ScriptIInv
<1>2. Advances(tick) /\ cursor' = DueEnd(tick)
  BY <1>1, ProduceAdvances
<1>3. cursor' \in cursor .. Len(events) /\ cursor \in Nat /\ Len(events) \in Nat
  BY <1>1, <1>2 DEF Advances, ScriptTypes
<1>4. PICK at : at = [c \in Channels |-> Run(c)[DueEnd(tick)]]
  OBVIOUS
<1>5. \A c \in Channels : at[c] \in States /\ RunSays(c, cursor', at[c])
  <2>. SUFFICES ASSUME NEW c \in Channels PROVE at[c] \in States /\ RunSays(c, cursor', at[c])
    OBVIOUS
  <2>1. PICK m \in cursor .. Len(events) : m = cursor'
    BY <1>3
  <2>2. Run(c)[m] \in States /\ RunSays(c, m, Run(c)[m])
    BY <1>1, RunFollows
  <2>3. at[c] = Run(c)[m]
    BY <1>2, <1>4, <2>1
  <2>. QED BY <2>1, <2>2, <2>3
<1>6. /\ down' = [c \in Channels |-> at[c].down]
      /\ value' = [c \in Channels |-> at[c].value]
      /\ pending_release' = {c \in Channels : at[c].pulse}
      /\ output' = [c \in Channels |->
             [value |-> at[c].value, down |-> at[c].down,
              pressed |-> at[c].down /\ ~down[c], released |-> ~at[c].down /\ down[c]]]
  BY <1>4 DEF ScriptProduce
<1>7. \A c \in Channels : /\ down'[c] = at[c].down /\ value'[c] = at[c].value
                          /\ c \in pending_release' <=> at[c].pulse
                          /\ output'[c].down = down'[c] /\ output'[c].value = value'[c]
  BY <1>6
<1>8. ScriptTypes'
  <2>1. down' \in [Channels -> BOOLEAN] /\ value' \in [Channels -> Int] /\ pending_release' \subseteq Channels
    BY <1>5, <1>6 DEF States
  <2>2. events' \in Seq(ScriptEvent) /\ Len(events') <= MaxEvents /\ cursor' \in 0 .. Len(events')
    BY <1>1, <1>2, <1>3 DEF Advances, ScriptTypes
  <2>3. last_tick' \in 0 .. MaxTick /\ asked' \subseteq 0 .. MaxTick /\ produced_once' \in BOOLEAN
    <3>1. asked' = asked \cup {tick} /\ last_tick' = tick /\ asked \subseteq 0 .. MaxTick
      BY <1>1, <1>2 DEF Advances, ScriptTypes
    <3>2. produced_once' = TRUE
      BY DEF ScriptProduce
    <3>. QED BY <3>1, <3>2
  <2>. QED BY <2>1, <2>2, <2>3 DEF ScriptTypes
<1>9. InOrder'
  BY <1>1, <1>2 DEF Advances, InOrder
<1>10. ReadToHere'
  <2>1. /\ produced_once' /\ last_tick' = tick /\ asked' = asked \cup {tick} /\ events' = events
        /\ \A i \in DOMAIN events : i <= cursor' <=> events[i].tick <= tick
    BY <1>2 DEF Advances
  <2>2. \A t \in asked : t <= tick
    <3>1. CASE ~produced_once
      BY <1>1, <3>1 DEF ReadToHere
    <3>2. CASE produced_once
      <4>1. tick > last_tick /\ \A t \in asked : t <= last_tick
        BY <1>1, <1>2, <3>2 DEF ReadToHere, Advances
      <4>2. tick \in Nat /\ last_tick \in Nat /\ asked \subseteq Nat
        BY <1>1, ScriptAssumption DEF ScriptTypes
      <4>. QED BY <4>1, <4>2
    <3>. QED BY <3>1, <3>2
  <2>3. tick <= tick
    BY ScriptAssumption
  <2>. QED BY <2>1, <2>2, <2>3 DEF ReadToHere
<1>11. ChannelsInv'
  <2>. SUFFICES ASSUME NEW c \in Channels, ~Overtaken(c)' PROVE ChannelIs(c)'
    BY DEF ChannelsInv
  <2>1. RunSays(c, cursor', at[c])
    BY <1>5
  <2>2. down'[c] = at[c].down /\ value'[c] = at[c].value /\ (c \in pending_release' <=> at[c].pulse)
    BY <1>7
  <2>3. CASE NewOn(c, cursor') # {}
    BY <1>1, <1>2, <2>1, <2>2, <2>3, BusyChannel
  <2>4. CASE NewOn(c, cursor') = {}
    <3>1. at[c].down = AfterPulse(c).down /\ at[c].value = AfterPulse(c).value /\ ~at[c].pulse
      BY <2>1, <2>4 DEF RunSays
    <3>2. down'[c] = AfterPulse(c).down /\ value'[c] = AfterPulse(c).value /\ c \notin pending_release'
      BY <2>2, <3>1
    <3>. QED BY <1>1, <1>2, <2>4, <3>2, QuietChannel
  <2>. QED BY <2>3, <2>4
<1>12. OutputIs'
  BY <1>7 DEF OutputIs
<1>. QED BY <1>8, <1>9, <1>10, <1>11, <1>12 DEF ScriptIInv

\* The timeline grows only before the first call, and in the order of ticks.
LEMMA AddStep ==
    ASSUME ScriptIInv, NEW new \in Seq(ScriptEvent), Len(new) \in 1 .. 2, AddEvents(new),
           new[1].tick <= new[Len(new)].tick
    PROVE  ScriptIInv'
<1>1. ScriptTypes /\ InOrder /\ ReadToHere
  BY DEF ScriptIInv
<1>2. /\ ~produced_once /\ Len(events) + Len(new) <= MaxEvents
      /\ events # <<>> => events[Len(events)].tick <= new[1].tick
      /\ events' = events \o new
      /\ UNCHANGED <<cursor, produced_once, last_tick, down, value, pending_release, output, asked>>
  BY DEF AddEvents
<1>3. PICK N \in Nat : N = Len(events)
  BY <1>1 DEF ScriptTypes
<1>4. PICK K \in 1 .. 2 : K = Len(new)
  OBVIOUS
<1>5. /\ events \in Seq(ScriptEvent) /\ DOMAIN events = 1 .. N
      /\ events' \in Seq(ScriptEvent) /\ Len(events') = N + K /\ DOMAIN events' = 1 .. N + K
  BY <1>1, <1>2, <1>3, <1>4 DEF ScriptTypes
<1>6. /\ \A i \in 1 .. N : events'[i] = events[i]
      /\ \A i \in N + 1 .. N + K : events'[i] = new[i - N]
  <2>1. events \in Seq(ScriptEvent)
    BY <1>5
  <2>2. \A i \in 1 .. Len(events) + Len(new) :
            (events \o new)[i] = IF i <= Len(events) THEN events[i] ELSE new[i - Len(events)]
    BY <2>1, ConcatProperties
  <2>3. \A i \in 1 .. N + K : events'[i] = IF i <= N THEN events[i] ELSE new[i - N]
    BY <1>2, <1>3, <1>4, <2>2
  <2>. QED BY <1>3, <1>4, <2>3
<1>7. \A i \in 1 .. K : new[i].tick \in Nat
  <2>1. \A i \in 1 .. K : new[i] \in ScriptEvent
    BY <1>4
  <2>2. \A e \in ScriptEvent : e.tick \in 0 .. MaxTick
    BY DEF ScriptEvent
  <2>3. MaxTick \in Nat
    BY ScriptAssumption
  <2>. QED BY <2>1, <2>2, <2>3
<1>8. \A i \in 1 .. N : events[i].tick \in Nat
  BY <1>1, <1>5, ScriptEventFacts
<1>9. \A i \in 1 .. N : events[i].tick <= new[1].tick
  <2>. SUFFICES ASSUME NEW i \in 1 .. N PROVE events[i].tick <= new[1].tick
    OBVIOUS
  <2>1. N \in 1 .. N /\ i <= N
    BY <1>3
  <2>2. events[i].tick <= events[N].tick
    BY <1>1, <1>5, <2>1 DEF InOrder
  <2>3. events[N].tick <= new[1].tick
    BY <1>2, <1>3, <1>5, <2>1
  <2>4. events[i].tick \in Nat /\ events[N].tick \in Nat /\ new[1].tick \in Nat
    BY <1>4, <1>7, <1>8, <2>1
  <2>. QED BY <2>2, <2>3, <2>4
<1>10. \A i, j \in 1 .. K : i <= j => new[i].tick <= new[j].tick
  <2>1. new[1].tick <= new[K].tick /\ new[1].tick <= new[1].tick
    BY <1>4, <1>7
  <2>2. new[K].tick <= new[K].tick
    BY <1>4, <1>7
  <2>3. \A i, j \in 1 .. K : i <= j => (i = 1 /\ j = 1) \/ (i = 1 /\ j = K) \/ (i = K /\ j = K)
    BY <1>4
  <2>. QED BY <2>1, <2>2, <2>3
<1>11. ASSUME NEW i \in 1 .. N + K, NEW j \in 1 .. N + K, i <= j
       PROVE  events'[i].tick <= events'[j].tick
  <2>1. CASE j <= N
    <3>1. i \in 1 .. N /\ j \in 1 .. N
      BY <1>3, <1>4, <1>11, <2>1
    <3>2. events[i].tick <= events[j].tick
      BY <1>1, <1>5, <1>11, <3>1 DEF InOrder
    <3>. QED BY <1>6, <3>1, <3>2
  <2>2. CASE i <= N /\ N < j
    <3>1. i \in 1 .. N /\ j \in N + 1 .. N + K /\ j - N \in 1 .. K /\ 1 \in 1 .. K /\ 1 <= j - N
      BY <1>3, <1>4, <2>2
    <3>2. events[i].tick <= new[1].tick /\ new[1].tick <= new[j - N].tick
      BY <1>9, <1>10, <3>1
    <3>3. events[i].tick \in Nat /\ new[1].tick \in Nat /\ new[j - N].tick \in Nat
      BY <1>7, <1>8, <3>1
    <3>4. events[i].tick <= new[j - N].tick
      BY <3>2, <3>3
    <3>. QED BY <1>6, <3>1, <3>4
  <2>3. CASE N < i
    <3>1. i \in N + 1 .. N + K /\ j \in N + 1 .. N + K /\ i - N \in 1 .. K /\ j - N \in 1 .. K /\ i - N <= j - N
      BY <1>3, <1>4, <1>11, <2>3
    <3>2. new[i - N].tick <= new[j - N].tick
      BY <1>10, <3>1
    <3>. QED BY <1>6, <3>1, <3>2
  <2>. QED BY <1>3, <1>4, <1>11, <2>1, <2>2, <2>3
<1>12. InOrder'
  BY <1>5, <1>11 DEF InOrder
<1>13. ScriptTypes'
  <2>1. Len(events') <= MaxEvents /\ cursor' \in 0 .. Len(events')
    <3>1. cursor \in 0 .. N /\ cursor' = cursor /\ N + K <= MaxEvents
      BY <1>1, <1>2, <1>3, <1>4 DEF ScriptTypes
    <3>2. cursor' \in 0 .. N + K
      BY <1>3, <1>4, <3>1
    <3>. QED BY <1>5, <3>1, <3>2
  <2>. QED BY <1>1, <1>2, <1>5, <2>1 DEF ScriptTypes
<1>14. ReadToHere'
  BY <1>1, <1>2 DEF ReadToHere
<1>15. ChannelsInv' /\ OutputIs'
  BY <1>2 DEF ChannelsInv, OutputIs
<1>. QED BY <1>12, <1>13, <1>14, <1>15 DEF ScriptIInv

LEMMA OneEvent ==
    ASSUME ScriptIInv, NEW e \in ScriptEvent, AddEvents(<<e>>)
    PROVE  ScriptIInv'
<1>1. PICK new : new = <<e>>
  OBVIOUS
<1>2. new \in Seq(ScriptEvent) /\ Len(new) = 1 /\ new[1] = e
  BY <1>1
<1>3. Len(new) \in 1 .. 2 /\ AddEvents(new)
  BY <1>1, <1>2
<1>4. new[1].tick <= new[Len(new)].tick
  <2>1. e.tick \in 0 .. MaxTick /\ MaxTick \in Nat
    BY ScriptAssumption DEF ScriptEvent
  <2>. QED BY <1>2, <2>1
<1>. QED BY <1>2, <1>3, <1>4, AddStep

LEMMA TwoEvents ==
    ASSUME ScriptIInv, NEW d \in ScriptEvent, NEW e \in ScriptEvent, d.tick <= e.tick, AddEvents(<<d, e>>)
    PROVE  ScriptIInv'
<1>1. PICK new : new = <<d, e>>
  OBVIOUS
<1>2. new \in Seq(ScriptEvent) /\ Len(new) = 2 /\ new[1] = d /\ new[2] = e
  BY <1>1
<1>3. Len(new) \in 1 .. 2 /\ AddEvents(new)
  BY <1>1, <1>2
<1>4. new[1].tick <= new[Len(new)].tick
  BY <1>2
<1>. QED BY <1>2, <1>3, <1>4, AddStep

LEMMA EventAtType ==
    ASSUME NEW t \in 0 .. MaxTick, NEW c \in Channels, NEW v \in Strengths \cup {0},
           NEW op \in {"SET", "PRESS", "HOLD_START", "HOLD_END"}
    PROVE  EventAt(t, c, v, op) \in ScriptEvent /\ EventAt(t, c, v, op).tick = t
BY DEF EventAt, ScriptEvent

LEMMA ScriptIInvInit == ASSUME ScriptInit PROVE ScriptIInv
<1>1. /\ events = <<>> /\ cursor = 0 /\ ~produced_once /\ last_tick = 0
      /\ down = [c \in Channels |-> FALSE] /\ value = [c \in Channels |-> 0]
      /\ pending_release = {} /\ asked = {} /\ produced_once = FALSE
  BY DEF ScriptInit
<1>2. events \in Seq(ScriptEvent) /\ Len(events) = 0 /\ DOMAIN events = {}
  BY <1>1
<1>3. MaxTick \in Nat /\ MaxEvents \in Nat
  BY ScriptAssumption
<1>4. ScriptTypes
  <2>1. down \in [Channels -> BOOLEAN]
    BY <1>1
  <2>2. value \in [Channels -> Int]
    BY <1>1
  <2>3. /\ Len(events) <= MaxEvents /\ cursor \in 0 .. Len(events) /\ last_tick \in 0 .. MaxTick
        /\ produced_once \in BOOLEAN /\ pending_release \subseteq Channels /\ asked \subseteq 0 .. MaxTick
    <3>1. /\ cursor = 0 /\ last_tick = 0 /\ Len(events) = 0 /\ pending_release = {} /\ asked = {}
          /\ produced_once \in BOOLEAN
      BY <1>1, <1>2
    <3>2. Len(events) <= MaxEvents /\ cursor \in 0 .. Len(events) /\ last_tick \in 0 .. MaxTick
      BY <1>3, <3>1
    <3>. QED BY <3>1, <3>2
  <2>. QED BY <1>2, <2>1, <2>2, <2>3 DEF ScriptTypes
<1>5. InOrder
  BY <1>2 DEF InOrder
<1>6. ReadToHere
  BY <1>1 DEF ReadToHere
<1>7. ChannelsInv /\ OutputIs
  BY <1>1 DEF ChannelsInv, OutputIs
<1>. QED BY <1>4, <1>5, <1>6, <1>7 DEF ScriptIInv

LEMMA ScriptIInvNext == ASSUME ScriptIInv, ScriptNext PROVE ScriptIInv'
<1>1. ASSUME NEW c \in Channels, NEW v \in Strengths \cup {0}, NEW t \in 0 .. MaxTick, ScriptSet(c, v, t)
      PROVE  ScriptIInv'
  <2>1. PICK e : e = EventAt(t, c, v, "SET")
    OBVIOUS
  <2>2. e \in ScriptEvent
    BY <2>1, EventAtType
  <2>3. AddEvents(<<e>>)
    BY <1>1, <2>1 DEF ScriptSet
  <2>. QED BY <2>2, <2>3, OneEvent
<1>2. ASSUME NEW c \in Channels, NEW v \in Strengths \cup {0}, NEW t \in 0 .. MaxTick, ScriptPress(c, v, t)
      PROVE  ScriptIInv'
  <2>1. PICK e : e = EventAt(t, c, v, "PRESS")
    OBVIOUS
  <2>2. e \in ScriptEvent
    BY <2>1, EventAtType
  <2>3. AddEvents(<<e>>)
    BY <1>2, <2>1 DEF ScriptPress
  <2>. QED BY <2>2, <2>3, OneEvent
<1>3. ASSUME NEW c \in Channels, NEW v \in Strengths \cup {0}, NEW t \in 0 .. MaxTick,
             NEW to \in 0 .. MaxTick, ScriptHold(c, v, t, to)
      PROVE  ScriptIInv'
  <2>1. PICK d : d = EventAt(t, c, v, "HOLD_START")
    OBVIOUS
  <2>2. PICK e : e = EventAt(to, c, 0, "HOLD_END")
    OBVIOUS
  <2>3. d \in ScriptEvent /\ d.tick = t
    BY <2>1, EventAtType
  <2>4. e \in ScriptEvent /\ e.tick = to
    BY <2>2, EventAtType
  <2>5. t <= to /\ AddEvents(<<d, e>>)
    BY <1>3, <2>1, <2>2 DEF ScriptHold
  <2>. QED BY <2>3, <2>4, <2>5, TwoEvents
<1>4. \A v \in Strengths : v \in Strengths \cup {0}
  OBVIOUS
<1>5. 0 \in Strengths \cup {0}
  OBVIOUS
<1>. QED BY <1>1, <1>2, <1>3, <1>4, <1>5, ProduceStep DEF ScriptNext

\* Some event of a channel is the last that was due.
LEMMA LastExists ==
    ASSUME ScriptTypes, NEW c, EventsOn(c) # {}
    PROVE  \E i : LastOn(c, i)
<1>1. Len(events) \in Nat /\ EventsOn(c) \subseteq 1 .. Len(events)
  BY DEF ScriptTypes, EventsOn
<1>. DEFINE T == {n \in Nat : \E i \in EventsOn(c) : n = Len(events) - i}
<1>2. T \subseteq Nat /\ T # {}
  <2>1. PICK i : i \in EventsOn(c)
    OBVIOUS
  <2>2. Len(events) - i \in Nat
    BY <1>1, <2>1
  <2>3. Len(events) - i \in T
    BY <2>1, <2>2
  <2>. QED BY <2>3
<1>3. PICK n \in T : \A k \in T : n <= k
  <2>. HIDE DEF T
  <2>. QED BY <1>2, Least
<1>4. PICK i \in EventsOn(c) : n = Len(events) - i
  OBVIOUS
<1>5. \A j \in EventsOn(c) : j <= i
  <2>. SUFFICES ASSUME NEW j \in EventsOn(c) PROVE j <= i
    OBVIOUS
  <2>1. Len(events) - j \in Nat /\ i \in Nat /\ j \in Nat
    BY <1>1
  <2>2. n <= Len(events) - j
    BY <1>3, <2>1
  <2>. QED BY <1>1, <1>4, <2>1, <2>2
<1>. QED BY <1>4, <1>5 DEF LastOn

LEMMA ScriptIInvTells == ASSUME ScriptIInv PROVE ScriptInv
<1>1. ScriptTypes /\ InOrder /\ ChannelsInv /\ OutputIs
  BY DEF ScriptIInv
<1>2. ScriptTypeOK
  <2>1. \A i \in 2 .. Len(events) : events[i - 1].tick <= events[i].tick
    <3>. SUFFICES ASSUME NEW i \in 2 .. Len(events) PROVE events[i - 1].tick <= events[i].tick
      OBVIOUS
    <3>1. Len(events) \in Nat /\ DOMAIN events = 1 .. Len(events)
      BY <1>1 DEF ScriptTypes
    <3>2. i - 1 \in DOMAIN events /\ i \in DOMAIN events /\ i - 1 <= i
      BY <3>1
    <3>. QED BY <1>1, <3>2 DEF InOrder
  <2>. QED BY <1>1, <2>1 DEF ScriptTypes, ScriptTypeOK
<1>3. ASSUME produced_once, NEW c \in Channels, ~Overtaken(c), EventsOn(c) = {}
      PROVE  ~output[c].down
  <2>1. ~down[c] /\ output[c].down = down[c]
    BY <1>1, <1>3 DEF ChannelsInv, ChannelIs, OutputIs
  <2>. QED BY <2>1
<1>4. ASSUME produced_once, NEW c \in Channels, ~Overtaken(c), EventsOn(c) # {},
             NEW i, i = CHOOSE k \in EventsOn(c) : \A j \in EventsOn(c) : j <= k
      PROVE  /\ output[c].down = Leaves(events[i], SeenAt(i) = last_tick)
             /\ output[c].value = (IF Leaves(events[i], SeenAt(i) = last_tick) THEN events[i].value ELSE 0)
  <2>1. \E k \in EventsOn(c) : \A j \in EventsOn(c) : j <= k
    BY <1>1, <1>4, LastExists DEF LastOn
  <2>2. LastOn(c, i)
    BY <1>4, <2>1 DEF LastOn
  <2>3. output[c].down = down[c] /\ output[c].value = value[c]
    BY <1>1, <1>4 DEF OutputIs
  <2>4. ChannelIs(c)
    BY <1>1, <1>4 DEF ChannelsInv
  <2>. QED BY <2>2, <2>3, <2>4 DEF ChannelIs
<1>5. FrameFollowsScript
  BY <1>3, <1>4 DEF FrameFollowsScript, Leaves
<1>. QED BY <1>2, <1>5 DEF ScriptInv

\* The scripted producer's frames are the timeline's, wherever the loop began and
\* whatever ticks it left out (script_produce): the last event that was due decides,
\* and a press only at the first tick that sees it, overtaken presses excepted.
THEOREM FrameIsTheScripts == ScriptSpec => []ScriptInv
<1>1. ScriptInit => ScriptIInv
  BY ScriptIInvInit
<1>2. ScriptIInv /\ [ScriptNext]_script_vars => ScriptIInv'
  <2>. SUFFICES ASSUME ScriptIInv, [ScriptNext]_script_vars PROVE ScriptIInv'
    OBVIOUS
  <2>1. CASE ScriptNext
    BY <2>1, ScriptIInvNext
  <2>2. CASE UNCHANGED script_vars
    <3>1. UNCHANGED <<events, cursor, produced_once, last_tick, down, value, pending_release, output, asked>>
      BY <2>2 DEF script_vars
    <3>2. \A c : EventsOn(c)' = EventsOn(c)
      BY <3>1 DEF EventsOn
    <3>3. \A i : SeenAt(i)' = SeenAt(i)
      BY <3>1 DEF SeenAt
    <3>4. \A c : Overtaken(c)' <=> Overtaken(c)
      BY <3>1, <3>2, <3>3 DEF Overtaken
    <3>5. \A c : ChannelIs(c)' <=> ChannelIs(c)
      BY <3>1, <3>2, <3>3 DEF ChannelIs, LastOn
    <3>6. ChannelsInv'
      BY <3>1, <3>4, <3>5 DEF ScriptIInv, ChannelsInv
    <3>7. ScriptTypes' /\ InOrder' /\ ReadToHere' /\ OutputIs'
      BY <3>1 DEF ScriptIInv, ScriptTypes, InOrder, ReadToHere, OutputIs
    <3>. QED BY <3>6, <3>7 DEF ScriptIInv
  <2>. QED BY <2>1, <2>2
<1>3. ScriptIInv => ScriptInv
  BY ScriptIInvTells
<1>. QED BY <1>1, <1>2, <1>3, PTL DEF ScriptSpec
=============================================================================
