----------------------------- MODULE ListProofs -----------------------------
(***************************************************************************)
(* Lemmas about linked lists: what pushing and popping does to one, and    *)
(* that a loop over it meets each of its blocks once.                      *)
(***************************************************************************)
EXTENDS Lists, FiniteSetTheorems, WellFoundedInduction, TLAPS

\* Every nonempty set of naturals has a least element.
LEMMA LeastNat ==
    ASSUME NEW T, T \subseteq Nat, T # {}
    PROVE  \E d \in T : \A e \in T : d <= e
<1> DEFINE R == {q \in Nat \X Nat : q[1] < q[2]}
<1>1. IsWellFoundedOn(OpToRel(<, Nat), Nat) BY NatLessThanWellFounded
<1>2. OpToRel(<, Nat) = R BY DEF OpToRel
<1>3. PICK x \in T : \A y \in T : ~ (<<y, x>> \in R) BY <1>1, <1>2, WFMin
<1>4. ASSUME NEW y \in T PROVE x <= y
  <2>1. y \in Nat /\ x \in Nat /\ ~ (<<y, x>> \in R) BY <1>3
  <2> QED BY <2>1
<1> QED BY <1>4

\* A step that leaves the links of a list alone.
LEMMA ListFrame ==
    ASSUME NEW null, NEW S, NEW next, NEW next2, NEW head,
           ListOf(S, next, head, null),
           \A x \in S : next2[x] = next[x]
    PROVE  ListOf(S, next2, head, null)
<1>1. PICK q \in [1 .. Cardinality(S) -> S] : IsList(S, next, head, q, null)
  BY DEF ListOf
<1>2. IsList(S, next2, head, q, null) BY <1>1 DEF IsList
<1> QED BY <1>2 DEF ListOf

\* A block that is put in front of a list.
LEMMA ListPush ==
    ASSUME NEW null, NEW S, IsFiniteSet(S), NEW x, x \notin S,
           NEW next, NEW next2, NEW head, ListOf(S, next, head, null),
           \A y \in S : next2[y] = next[y], next2[x] = head
    PROVE  ListOf(S \cup {x}, next2, x, null)
<1> DEFINE k == Cardinality(S)
           T == S \cup {x}
<1>1. k \in Nat /\ Cardinality(T) = k + 1 /\ T # {}
  BY FS_CardinalityType, FS_AddElement
<1>2. k = 0 <=> S = {} BY FS_EmptySet
<1>3. PICK q \in [1 .. k -> S] :
         /\ \A y \in S : \E i \in 1 .. k : q[i] = y
         /\ \A i, j \in 1 .. k : q[i] = q[j] => i = j
         /\ \A i \in 1 .. k : next[q[i]] = IF i = 1 THEN null ELSE q[i-1]
         /\ head = IF S = {} THEN null ELSE q[k]
  BY DEF ListOf, IsList
<1> DEFINE p == [i \in 1 .. k+1 |-> IF i = k+1 THEN x ELSE q[i]]
<1> HIDE DEF k
<1>4. p \in [1 .. k+1 -> T] BY <1>1
<1>5. \A y \in T : \E i \in 1 .. k+1 : p[i] = y
  <2>1. ASSUME NEW y \in S PROVE \E i \in 1 .. k+1 : p[i] = y
    <3>1. PICK i \in 1 .. k : q[i] = y BY <1>3
    <3>2. i \in 1 .. k+1 /\ i # k+1 BY <1>1
    <3> QED BY <3>1, <3>2
  <2>2. k+1 \in 1 .. k+1 /\ p[k+1] = x BY <1>1
  <2> QED BY <2>1, <2>2
<1>6. ASSUME NEW i \in 1 .. k+1, NEW j \in 1 .. k+1, p[i] = p[j]
      PROVE  i = j
  <2>1. \A h \in 1 .. k+1 : h # k+1 => h \in 1 .. k /\ p[h] = q[h] /\ q[h] # x
    BY <1>1, <1>3
  <2>2. p[k+1] = x BY <1>1
  <2> QED BY <1>3, <1>6, <2>1, <2>2
<1>7. ASSUME NEW i \in 1 .. k+1
      PROVE  next2[p[i]] = IF i = 1 THEN null ELSE p[i-1]
  <2>1. CASE i = k+1
    <3>1. next2[p[i]] = head BY <2>1, <1>1
    <3>2. CASE k = 0 BY <3>1, <3>2, <2>1, <1>2, <1>3
    <3>3. CASE k # 0
      <4>1. i-1 = k /\ i # 1 /\ i-1 \in 1 .. k+1 /\ i-1 # k+1
        BY <2>1, <3>3, <1>1
      <4>2. p[i-1] = q[k] BY <4>1
      <4> QED BY <4>1, <4>2, <3>1, <3>3, <1>2, <1>3
    <3> QED BY <3>2, <3>3
  <2>2. CASE i # k+1
    <3>1. i \in 1 .. k /\ p[i] = q[i] /\ q[i] \in S BY <2>2, <1>1, <1>3
    <3>2. i # 1 => i-1 \in 1 .. k+1 /\ i-1 # k+1 BY <3>1, <1>1
    <3>3. i # 1 => p[i-1] = q[i-1] BY <3>2
    <3> QED BY <3>1, <3>3, <1>3
  <2> QED BY <2>1, <2>2
<1>8. p[k+1] = x BY <1>1
<1> HIDE DEF p
<1>9. IsList(T, next2, x, p, null) BY <1>1, <1>5, <1>6, <1>7, <1>8 DEF IsList
<1> QED BY <1>1, <1>4, <1>9 DEF ListOf

\* The first block that is taken from a list.
LEMMA ListPop ==
    ASSUME NEW null, NEW S, IsFiniteSet(S), NEW next, NEW head,
           ListOf(S, next, head, null),
           head # null
    PROVE  head \in S /\ ListOf(S \ {head}, next, next[head], null)
<1> DEFINE k == Cardinality(S)
           T == S \ {head}
<1>1. PICK q \in [1 .. k -> S] :
         /\ \A y \in S : \E i \in 1 .. k : q[i] = y
         /\ \A i, j \in 1 .. k : q[i] = q[j] => i = j
         /\ \A i \in 1 .. k : next[q[i]] = IF i = 1 THEN null ELSE q[i-1]
         /\ head = IF S = {} THEN null ELSE q[k]
  BY DEF ListOf, IsList
<1>2. S # {} /\ head = q[k] BY <1>1
<1>3. k \in Nat /\ k # 0 BY <1>2, FS_CardinalityType, FS_EmptySet
<1>4. k \in 1 .. k /\ head \in S BY <1>1, <1>2, <1>3
<1>5. Cardinality(T) = k - 1 /\ IsFiniteSet(T) BY <1>4, FS_RemoveElement
<1>6. k - 1 = 0 <=> T = {} BY <1>5, FS_EmptySet
<1> DEFINE p == [i \in 1 .. k-1 |-> q[i]]
<1> HIDE DEF k
<1>7. \A i \in 1 .. k-1 : i \in 1 .. k /\ i # k /\ p[i] = q[i] BY <1>3
<1>8. p \in [1 .. k-1 -> T]
  BY <1>1, <1>2, <1>4, <1>7
<1>9. ASSUME NEW y \in T PROVE \E i \in 1 .. k-1 : p[i] = y
  <2>1. PICK i \in 1 .. k : q[i] = y BY <1>1, <1>9
  <2>2. i # k BY <2>1, <1>2, <1>9
  <2>3. i \in 1 .. k-1 BY <2>2, <1>3
  <2> QED BY <2>1, <2>3, <1>7
<1>10. \A i, j \in 1 .. k-1 : p[i] = p[j] => i = j BY <1>1, <1>7
<1>11. \A i \in 1 .. k-1 : next[p[i]] = IF i = 1 THEN null ELSE p[i-1]
  <2> SUFFICES ASSUME NEW i \in 1 .. k-1
               PROVE  next[p[i]] = IF i = 1 THEN null ELSE p[i-1]
    OBVIOUS
  <2>1. i # 1 => i-1 \in 1 .. k-1 BY <1>3
  <2> QED BY <2>1, <1>1, <1>7
<1>12. next[head] = IF T = {} THEN null ELSE p[k-1]
  <2>1. next[head] = IF k = 1 THEN null ELSE q[k-1] BY <1>1, <1>2, <1>4
  <2>2. k # 1 => k-1 \in 1 .. k-1 BY <1>3
  <2> QED BY <2>1, <2>2, <1>3, <1>6, <1>7
<1> HIDE DEF p
<1>13. IsList(T, next, next[head], p, null)
  BY <1>5, <1>9, <1>10, <1>11, <1>12 DEF IsList
<1> QED BY <1>4, <1>5, <1>8, <1>13 DEF ListOf

\* Walking a list from its head meets every block of it once, and ends within
\* as many steps as there are blocks at all.
LEMMA ListWalk ==
    ASSUME NEW null, NEW T, IsFiniteSet(T), null \notin T, NEW S \in SUBSET T,
           NEW next, NEW head, ListOf(S, next, head, null)
    PROVE  \E g \in [0 .. Cardinality(T) -> S \cup {null}] :
              \A d \in 0 .. Cardinality(T) :
                 g[d] = IF d = 0 THEN head
                        ELSE IF g[d-1] = null THEN null ELSE next[g[d-1]]
<1> DEFINE k == Cardinality(S)
           N == Cardinality(T)
<1>1. PICK q \in [1 .. k -> S] :
         /\ \A i \in 1 .. k : next[q[i]] = IF i = 1 THEN null ELSE q[i-1]
         /\ head = IF S = {} THEN null ELSE q[k]
  BY DEF ListOf, IsList
<1>2. k \in Nat /\ N \in Nat /\ k <= N /\ (k = 0 <=> S = {})
  BY FS_Subset, FS_CardinalityType, FS_EmptySet
<1> DEFINE g == [d \in 0 .. N |-> IF d < k THEN q[k-d] ELSE null]
<1> HIDE DEF k, N
<1>3. \A d \in 0 .. N : d < k => k-d \in 1 .. k /\ q[k-d] \in S /\ q[k-d] # null
  BY <1>1, <1>2
<1>4. g \in [0 .. N -> S \cup {null}] BY <1>3
<1>5. ASSUME NEW d \in 0 .. N
      PROVE  g[d] = IF d = 0 THEN head
                    ELSE IF g[d-1] = null THEN null ELSE next[g[d-1]]
  <2>1. CASE d = 0 BY <2>1, <1>1, <1>2
  <2>2. CASE d # 0
    <3>1. d-1 \in 0 .. N BY <2>2, <1>2
    <3>2. CASE d-1 < k
      <4>1. g[d-1] = q[k-(d-1)] /\ g[d-1] # null /\ k-(d-1) \in 1 .. k
        BY <3>1, <3>2, <1>3
      <4>2. next[g[d-1]] = IF k-(d-1) = 1 THEN null ELSE q[k-(d-1)-1]
        BY <4>1, <1>1
      <4>3. k-(d-1)-1 = k-d /\ (k-(d-1) = 1 <=> ~(d < k)) BY <3>2, <1>2
      <4>4. g[d] = IF d < k THEN q[k-d] ELSE null OBVIOUS
      <4> HIDE DEF g
      <4> QED BY <2>2, <4>1, <4>2, <4>3, <4>4
    <3>3. CASE ~(d-1 < k)
      <4>1. g[d-1] = null BY <3>1, <3>3
      <4>2. ~(d < k) BY <3>3, <1>2
      <4> QED BY <2>2, <4>1, <4>2
    <3> QED BY <3>2, <3>3
  <2> QED BY <2>1, <2>2
<1> HIDE DEF g
<1> QED BY <1>4, <1>5 DEF N

LEMMA ListCount ==
    ASSUME NEW null, NEW T, IsFiniteSet(T), null \notin T, NEW S \in SUBSET T,
           NEW next, NEW head, ListOf(S, next, head, null),
           NEW f, f[0] = head,
           \A d \in 0 .. Cardinality(T) : d # 0 =>
              /\ f[d-1] = null => f[d] = null
              /\ f[d-1] \in S => f[d] = next[f[d-1]],
           NEW x, x # null
    PROVE  Cardinality({d \in 0 .. Cardinality(T) : f[d] = x})
              = IF x \in S THEN 1 ELSE 0
<1> DEFINE k == Cardinality(S)
           N == Cardinality(T)
<1>1. PICK q \in [1 .. k -> S] :
         /\ \A y \in S : \E i \in 1 .. k : q[i] = y
         /\ \A i, j \in 1 .. k : q[i] = q[j] => i = j
         /\ \A i \in 1 .. k : next[q[i]] = IF i = 1 THEN null ELSE q[i-1]
         /\ head = IF S = {} THEN null ELSE q[k]
  BY DEF ListOf, IsList
<1>2. k \in Nat /\ N \in Nat /\ k <= N /\ (k = 0 <=> S = {})
  BY FS_Subset, FS_CardinalityType, FS_EmptySet
<1>3. \A d \in 0 .. N : d # 0 => /\ f[d-1] = null => f[d] = null
                                 /\ f[d-1] \in S => f[d] = next[f[d-1]]
  OBVIOUS
<1> DEFINE Fits(d) == f[d] = IF d < k THEN q[k-d] ELSE null
           B == {d \in 0 .. N : ~Fits(d)}
<1> HIDE DEF k, N
<1>4. Fits(0) BY <1>1, <1>2
<1>5. ASSUME NEW d \in 0 .. N, d # 0, Fits(d-1) PROVE Fits(d)
  <2>1. CASE d-1 < k
    <3>1. k-(d-1) \in 1 .. k /\ f[d-1] = q[k-(d-1)] BY <2>1, <1>2, <1>5
    <3>5. q[k-(d-1)] \in S BY <3>1, <1>1
    <3>2. f[d] = next[q[k-(d-1)]] BY <3>1, <3>5, <1>3, <1>5
    <3>3. k-(d-1)-1 = k-d /\ (k-(d-1) = 1 <=> ~(d < k)) BY <2>1, <1>2
    <3>4. next[q[k-(d-1)]] = IF k-(d-1) = 1 THEN null ELSE q[k-(d-1)-1]
      BY <3>1, <1>1
    <3> QED BY <3>2, <3>3, <3>4
  <2>2. CASE ~(d-1 < k)
    <3>1. f[d-1] = null /\ ~(d < k) BY <2>2, <1>2, <1>5
    <3> QED BY <3>1, <1>3, <1>5
  <2> QED BY <2>1, <2>2
<1>6. ASSUME NEW d \in 0 .. N PROVE Fits(d)
  <2>1. ASSUME B # {} PROVE FALSE
    <3>1. B \subseteq Nat BY <1>2
    <3>2. PICK e \in B : \A b \in B : e <= b BY <2>1, <3>1, LeastNat
    <3>3. e # 0 /\ e \in 0 .. N /\ ~Fits(e) BY <3>2, <1>4
    <3>4. e-1 \in 0 .. N /\ e-1 \notin B BY <3>2, <3>3, <1>2
    <3> QED BY <3>3, <3>4, <1>5
  <2> QED BY <2>1
<1> DEFINE C == {d \in 0 .. N : f[d] = x}
<1>7. CASE x \in S
  <2>1. PICK i \in 1 .. k : q[i] = x BY <1>1, <1>7
  <2>2. k-i \in 0 .. N /\ k-i < k /\ k-(k-i) = i BY <1>2
  <2>3. f[k-i] = x BY <2>1, <2>2, <1>6
  <2>4. ASSUME NEW d \in 0 .. N, f[d] = x PROVE d = k-i
    <3>1. d < k /\ f[d] = q[k-d] BY <2>4, <1>6, <1>2
    <3>2. k-d \in 1 .. k BY <3>1, <1>2
    <3>3. k-d = i BY <3>1, <3>2, <2>1, <2>4, <1>1
    <3> QED BY <3>1, <3>3, <1>2
  <2>5. C = {k-i} BY <2>2, <2>3, <2>4
  <2> QED BY <2>5, <1>7, FS_Singleton DEF N
<1>8. CASE x \notin S
  <2>1. ASSUME NEW d \in 0 .. N, f[d] = x PROVE FALSE
    <3>1. d < k /\ f[d] = q[k-d] BY <2>1, <1>6, <1>2
    <3>2. k-d \in 1 .. k BY <3>1, <1>2
    <3> QED BY <3>1, <3>2, <2>1, <1>1, <1>8
  <2>2. C = {} BY <2>1
  <2> QED BY <2>2, <1>8, FS_EmptySet DEF N
<1> QED BY <1>7, <1>8
=============================================================================
