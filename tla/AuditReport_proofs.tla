--------------------------- MODULE AuditReport_proofs ---------------------------
(***************************************************************************)
(* What the calculations make of the results of an audit, for any numbers  *)
(* of results, any durations and any number of endpoints.                  *)
(***************************************************************************)
EXTENDS AuditReport, FiniteSetTheorems, SequenceTheorems, WellFoundedInduction, TLAPS

-----------------------------------------------------------------------------
(***************************************************************************)
(* Sums.  Total is a recursive function on the subsets of a set; a minimal *)
(* counterexample does the work of an induction.                           *)
(***************************************************************************)

\* A set of numbers that is not empty has a least member.
LEMMA LeastNumber ==
  ASSUME NEW S \in SUBSET Nat, S # {}
  PROVE  \E n \in S : \A m \in S : n <= m
<1> DEFINE R == OpToRel(<, Nat)
<1>1. IsWellFoundedOn(R, Nat)
  BY NatLessThanWellFounded
<1>2. ASSUME NEW x \in Nat, NEW y \in Nat, x < y
      PROVE  <<x, y>> \in R
  BY <1>2, Zenon DEF OpToRel
<1> HIDE DEF R
<1>3. PICK x \in S : \A y \in S : ~ (<<y, x>> \in R)
  BY <1>1, WFMin
<1>4. \A y \in S : ~ (y < x)
  BY <1>2, <1>3
<1> QED  BY <1>4

\* A set of finite sets that is not empty has a minimal member.
LEMMA MinimalSet ==
  ASSUME NEW S, IsFiniteSet(S), NEW X \in SUBSET (SUBSET S), X # {}
  PROVE  \E s \in X : IsFiniteSet(s) /\ \A x \in s : s \ {x} \notin X
<1> DEFINE sizes == {Cardinality(s) : s \in X}
<1>1. \A s \in SUBSET S : IsFiniteSet(s) /\ Cardinality(s) \in Nat
  BY FS_Subset, FS_CardinalityType
<1>2. sizes \in SUBSET Nat /\ sizes # {}
  BY <1>1
<1>3. PICK n \in sizes : \A m \in sizes : n <= m
  BY <1>2, LeastNumber
<1>4. PICK s \in X : n = Cardinality(s)
  BY <1>3
<1>5. ASSUME NEW x \in s  PROVE s \ {x} \notin X
  <2>1. Cardinality(s \ {x}) = n - 1
    BY <1>1, <1>4, FS_RemoveElement
  <2>2. n \in Nat
    BY <1>2, <1>3
  <2>3. ~ (n <= n - 1)
    BY <2>2
  <2> QED  BY <1>3, <2>1, <2>3
<1> QED  BY <1>1, <1>4, <1>5

Pick(s) == CHOOSE x \in s : TRUE

\* g sums f over the sets of D.
Sums(g, f, D) ==
  g = [s \in D |-> IF s = {} THEN 0 ELSE f[Pick(s)] + g[s \ {Pick(s)}]]

LEMMA PickType ==
  ASSUME NEW s, s # {}
  PROVE  Pick(s) \in s
BY DEF Pick

LEMMA TotalDefinition ==
  ASSUME NEW f, NEW S
  PROVE  Total(f, S) = (CHOOSE g : Sums(g, f, SUBSET S))[S]
BY DEF Total, MapThenSumSet, MapThenFoldSet, Sums, Pick

LEMMA SumsExist ==
  ASSUME NEW f, NEW S, IsFiniteSet(S)
  PROVE  \E g : Sums(g, f, SUBSET S)
<1> DEFINE Small(n) == {s \in SUBSET S : Cardinality(s) <= n}
           bad == {n \in Nat : ~ \E g : Sums(g, f, Small(n))}
<1>1. \A s \in SUBSET S : IsFiniteSet(s) /\ Cardinality(s) \in Nat
  BY FS_Subset, FS_CardinalityType
<1>2. ASSUME bad # {}  PROVE FALSE
  <2>1. PICK n \in bad : \A m \in bad : n <= m
    BY <1>2, LeastNumber
  <2>2. n \in Nat /\ ~ \E g : Sums(g, f, Small(n))
    BY <2>1
  <2>3. n # 0
    <3> SUFFICES ASSUME n = 0  PROVE FALSE
      OBVIOUS
    <3>1. \A s \in Small(0) : s = {}
      <4> TAKE s \in Small(0)
      <4>1. Cardinality(s) = 0
        BY <1>1
      <4> QED  BY <1>1, <4>1, FS_EmptySet
    <3> DEFINE g == [s \in Small(0) |-> 0]
    <3>2. g = [s \in Small(0) |-> IF s = {} THEN 0 ELSE f[Pick(s)] + g[s \ {Pick(s)}]]
      BY <3>1
    <3>3. Sums(g, f, Small(0))
      BY <3>2 DEF Sums
    <3> QED  BY <2>2, <3>3
  <2>4. n - 1 \in Nat /\ ~ (n <= n - 1)
    BY <2>2, <2>3
  <2>5. PICK h : Sums(h, f, Small(n - 1))
    BY <2>1, <2>4
  <2> DEFINE g == [s \in Small(n) |-> IF s = {} THEN 0 ELSE f[Pick(s)] + h[s \ {Pick(s)}]]
  <2>6. \A s \in Small(n) : s # {} => s \ {Pick(s)} \in Small(n - 1)
    <3> SUFFICES ASSUME NEW s \in Small(n), s # {}
                 PROVE  s \ {Pick(s)} \in Small(n - 1)
      OBVIOUS
    <3>1. Cardinality(s \ {Pick(s)}) = Cardinality(s) - 1
      BY <1>1, PickType, FS_RemoveElement
    <3>2. Cardinality(s) - 1 <= n - 1
      BY <1>1, <2>2
    <3> QED  BY <3>1, <3>2
  <2>7. \A s \in Small(n - 1) : s \in Small(n) /\ h[s] = g[s]
    <3> TAKE s \in Small(n - 1)
    <3>1. s \in Small(n)
      BY <1>1, <2>2
    <3>2. h[s] = IF s = {} THEN 0 ELSE f[Pick(s)] + h[s \ {Pick(s)}]
      BY <2>5 DEF Sums
    <3> QED  BY <3>1, <3>2
  <2>8. g = [s \in Small(n) |-> IF s = {} THEN 0 ELSE f[Pick(s)] + g[s \ {Pick(s)}]]
    BY <2>6, <2>7
  <2>9. Sums(g, f, Small(n))
    BY <2>8 DEF Sums
  <2> QED  BY <2>2, <2>9
<1>3. PICK g : Sums(g, f, Small(Cardinality(S)))
  BY <1>1, <1>2
<1>4. Small(Cardinality(S)) = SUBSET S
  BY FS_Subset
<1> QED  BY <1>3, <1>4

LEMMA SumsAgree ==
  ASSUME NEW f, NEW S, IsFiniteSet(S), NEW T, NEW g, NEW h,
         Sums(g, f, SUBSET S), Sums(h, f, SUBSET T),
         NEW s \in SUBSET S, s \in SUBSET T
  PROVE  g[s] = h[s]
<1> DEFINE X == {t \in SUBSET S : t \in SUBSET T /\ g[t] # h[t]}
<1>1. ASSUME X # {}  PROVE FALSE
  <2>1. PICK t \in X : \A x \in t : t \ {x} \notin X
    BY <1>1, MinimalSet
  <2>2. /\ g[t] = IF t = {} THEN 0 ELSE f[Pick(t)] + g[t \ {Pick(t)}]
        /\ h[t] = IF t = {} THEN 0 ELSE f[Pick(t)] + h[t \ {Pick(t)}]
    BY <2>1 DEF Sums
  <2>3. CASE t = {}
    BY <2>1, <2>2, <2>3
  <2>4. CASE t # {}
    <3>1. t \ {Pick(t)} \notin X
      BY <2>1, <2>4, PickType
    <3>2. t \ {Pick(t)} \in SUBSET S /\ t \ {Pick(t)} \in SUBSET T
      BY <2>1
    <3> HIDE DEF X
    <3>3. g[t \ {Pick(t)}] = h[t \ {Pick(t)}]
      BY <3>1, <3>2 DEF X
    <3>4. g[t] = h[t]
      BY <2>2, <2>4, <3>3
    <3> QED  BY <2>1, <3>4 DEF X
  <2> QED  BY <2>3, <2>4
<1> QED  BY <1>1

LEMMA TotalSums ==
  ASSUME NEW f, NEW S, IsFiniteSet(S)
  PROVE  \E g : Sums(g, f, SUBSET S) /\ \A T \in SUBSET S : Total(f, T) = g[T]
<1> DEFINE g == CHOOSE g : Sums(g, f, SUBSET S)
<1>1. Sums(g, f, SUBSET S)
  BY SumsExist
<1> HIDE DEF g
<1>3. ASSUME NEW T \in SUBSET S  PROVE Total(f, T) = g[T]
  <2> DEFINE h == CHOOSE h : Sums(h, f, SUBSET T)
  <2>1. IsFiniteSet(T)
    BY FS_Subset
  <2>2. Sums(h, f, SUBSET T)
    BY <2>1, SumsExist
  <2>3. Total(f, T) = h[T]
    BY TotalDefinition
  <2> HIDE DEF h
  <2> QED  BY <1>1, <2>2, <2>3, SumsAgree
<1> QED  BY <1>1, <1>3

LEMMA TotalEmpty ==
  ASSUME NEW f
  PROVE  Total(f, {}) = 0
<1>1. IsFiniteSet({})
  BY FS_EmptySet
<1>2. PICK g : Sums(g, f, SUBSET {}) /\ \A T \in SUBSET {} : Total(f, T) = g[T]
  BY <1>1, TotalSums
<1>3. g[{}] = 0
  BY <1>2 DEF Sums
<1> QED  BY <1>2, <1>3

LEMMA TotalPick ==
  ASSUME NEW f, NEW S, IsFiniteSet(S), S # {}
  PROVE  Total(f, S) = f[Pick(S)] + Total(f, S \ {Pick(S)})
<1>1. PICK g : Sums(g, f, SUBSET S) /\ \A T \in SUBSET S : Total(f, T) = g[T]
  BY TotalSums
<1>2. g[S] = f[Pick(S)] + g[S \ {Pick(S)}]
  BY <1>1 DEF Sums
<1> QED  BY <1>1, <1>2

\* The sum of natural numbers is one.
LEMMA TotalType ==
  ASSUME NEW f, NEW S, IsFiniteSet(S), \A x \in S : f[x] \in Nat
  PROVE  Total(f, S) \in Nat
<1> DEFINE X == {s \in SUBSET S : Total(f, s) \notin Nat}
<1>1. ASSUME X # {}  PROVE FALSE
  <2>1. PICK s \in X : IsFiniteSet(s) /\ \A x \in s : s \ {x} \notin X
    BY <1>1, MinimalSet
  <2>2. s # {}
    BY <2>1, TotalEmpty
  <2>3. Pick(s) \in s /\ f[Pick(s)] \in Nat
    BY <2>1, <2>2, PickType
  <2>4. Total(f, s \ {Pick(s)}) \in Nat
    BY <2>1, <2>3
  <2>5. Total(f, s) = f[Pick(s)] + Total(f, s \ {Pick(s)})
    BY <2>1, <2>2, TotalPick
  <2>6. Total(f, s) \in Nat
    BY <2>3, <2>4, <2>5
  <2> QED  BY <2>1, <2>6
<1> QED  BY <1>1

\* Any member may be taken out.
LEMMA TotalRemove ==
  ASSUME NEW f, NEW S, IsFiniteSet(S), \A x \in S : f[x] \in Nat, NEW x \in S
  PROVE  Total(f, S) = f[x] + Total(f, S \ {x})
<1> DEFINE X == {s \in SUBSET S : \E y \in s : Total(f, s) # f[y] + Total(f, s \ {y})}
<1>1. ASSUME X # {}  PROVE FALSE
  <2>1. PICK s \in X : IsFiniteSet(s) /\ \A y \in s : s \ {y} \notin X
    BY <1>1, MinimalSet
  <2>2. PICK y \in s : Total(f, s) # f[y] + Total(f, s \ {y})
    BY <2>1
  <2> DEFINE p == Pick(s)
  <2>3. p \in s /\ Total(f, s) = f[p] + Total(f, s \ {p})
    BY <2>1, <2>2, PickType, TotalPick
  <2> HIDE DEF p
  <2>4. p # y
    BY <2>2, <2>3
  <2>5. s \ {p} \in SUBSET S /\ s \ {y} \in SUBSET S /\ s \ {p} \notin X /\ s \ {y} \notin X
    BY <2>1, <2>2, <2>3
  <2>6. Total(f, s \ {p}) = f[y] + Total(f, (s \ {p}) \ {y})
    BY <2>2, <2>4, <2>5
  <2>7. Total(f, s \ {y}) = f[p] + Total(f, (s \ {y}) \ {p})
    BY <2>3, <2>4, <2>5
  <2>8. (s \ {p}) \ {y} = (s \ {y}) \ {p}
    OBVIOUS
  <2>9. f[p] \in Nat /\ f[y] \in Nat
    BY <2>1, <2>2, <2>3
  <2>10. Total(f, (s \ {p}) \ {y}) \in Nat
    <3>1. (s \ {p}) \ {y} \in SUBSET S
      BY <2>5
    <3>2. IsFiniteSet((s \ {p}) \ {y})
      BY <3>1, FS_Subset
    <3> QED  BY <3>1, <3>2, TotalType
  <2> HIDE DEF X
  <2> DEFINE r == Total(f, (s \ {p}) \ {y})
  <2>11. Total(f, s) = f[p] + (f[y] + r)
    BY <2>3, <2>6
  <2>12. Total(f, s \ {y}) = f[p] + r
    BY <2>7, <2>8
  <2>13. r \in Nat
    BY <2>10
  <2> HIDE DEF r
  <2>14. Total(f, s) = f[y] + (f[p] + r)
    BY <2>9, <2>11, <2>13
  <2> QED  BY <2>2, <2>12, <2>14
<1> QED  BY <1>1

\* A sum depends only on the values that are summed.
LEMMA TotalCong ==
  ASSUME NEW f, NEW g, NEW S, IsFiniteSet(S), \A x \in S : f[x] = g[x]
  PROVE  Total(f, S) = Total(g, S)
<1> DEFINE X == {s \in SUBSET S : Total(f, s) # Total(g, s)}
<1>1. ASSUME X # {}  PROVE FALSE
  <2>1. PICK s \in X : IsFiniteSet(s) /\ \A x \in s : s \ {x} \notin X
    BY <1>1, MinimalSet
  <2>2. s # {}
    BY <2>1, TotalEmpty
  <2>3. Pick(s) \in s /\ f[Pick(s)] = g[Pick(s)]
    BY <2>1, <2>2, PickType
  <2>4. Total(f, s \ {Pick(s)}) = Total(g, s \ {Pick(s)})
    BY <2>1, <2>3
  <2>5. Total(f, s) = Total(g, s)
    BY <2>1, <2>2, <2>3, <2>4, TotalPick
  <2> QED  BY <2>1, <2>5
<1> QED  BY <1>1

\* Sums of larger numbers are larger.
LEMMA TotalMonotone ==
  ASSUME NEW f, NEW g, NEW S, IsFiniteSet(S),
         \A x \in S : f[x] \in Nat /\ g[x] \in Nat /\ f[x] <= g[x]
  PROVE  Total(f, S) <= Total(g, S)
<1> DEFINE X == {s \in SUBSET S : ~ (Total(f, s) <= Total(g, s))}
<1>1. ASSUME X # {}  PROVE FALSE
  <2>1. PICK s \in X : IsFiniteSet(s) /\ \A x \in s : s \ {x} \notin X
    BY <1>1, MinimalSet
  <2>2. s # {}
    BY <2>1, TotalEmpty
  <2> DEFINE p == Pick(s)
             r == s \ {p}
  <2>3. p \in s /\ Total(f, s) = f[p] + Total(f, r) /\ Total(g, s) = g[p] + Total(g, r)
    BY <2>1, <2>2, PickType, TotalPick
  <2>4. r \in SUBSET S /\ r \notin X
    BY <2>1, <2>3
  <2> HIDE DEF p, r
  <2>5. Total(f, r) <= Total(g, r)
    BY <2>4
  <2>6. Total(f, r) \in Nat /\ Total(g, r) \in Nat
    BY <2>4, FS_Subset, TotalType
  <2>7. f[p] \in Nat /\ g[p] \in Nat /\ f[p] <= g[p]
    BY <2>1, <2>3
  <2>8. Total(f, s) <= Total(g, s)
    BY <2>3, <2>5, <2>6, <2>7
  <2> QED  BY <2>1, <2>8
<1> QED  BY <1>1

\* The sum over two sets that share no member.
LEMMA TotalUnion ==
  ASSUME NEW f, NEW S, IsFiniteSet(S), \A x \in S : f[x] \in Nat,
         NEW A \in SUBSET S, NEW B \in SUBSET S, A \cap B = {}
  PROVE  Total(f, A \cup B) = Total(f, A) + Total(f, B)
<1> DEFINE X == {s \in SUBSET S : s \cap B = {} /\ Total(f, s \cup B) # Total(f, s) + Total(f, B)}
<1>0. Total(f, B) \in Nat
  BY FS_Subset, TotalType
<1>1. ASSUME X # {}  PROVE FALSE
  <2>1. PICK s \in X : IsFiniteSet(s) /\ \A x \in s : s \ {x} \notin X
    BY <1>1, MinimalSet
  <2>2. s # {}
    <3> SUFFICES ASSUME s = {}  PROVE FALSE
      OBVIOUS
    <3>1. s \cup B = B /\ Total(f, s) = 0
      BY TotalEmpty
    <3> QED  BY <1>0, <2>1, <3>1
  <2>3. PICK p : p \in s
    BY <2>2
  <2> DEFINE r == s \ {p}
  <2>4. p \in S /\ p \in s \cup B /\ (s \cup B) \ {p} = r \cup B /\ r \cap B = {}
    BY <2>1, <2>3
  <2>5. /\ s \in SUBSET S /\ s \cup B \in SUBSET S /\ r \in SUBSET S /\ r \notin X
        /\ IsFiniteSet(s) /\ IsFiniteSet(s \cup B) /\ IsFiniteSet(r)
    BY <2>1, <2>3, FS_Subset
  <2>6. Total(f, s) = f[p] + Total(f, r)
    BY <2>3, <2>5, TotalRemove
  <2>7. Total(f, s \cup B) = f[p] + Total(f, r \cup B)
    BY <2>4, <2>5, TotalRemove
  <2>8. Total(f, r) \in Nat /\ f[p] \in Nat
    BY <2>4, <2>5, TotalType
  <2>9. Total(f, r \cup B) = Total(f, r) + Total(f, B)
    BY <2>4, <2>5
  <2> HIDE DEF r
  <2>10. Total(f, s \cup B) = Total(f, s) + Total(f, B)
    BY <1>0, <2>6, <2>7, <2>8, <2>9
  <2> QED  BY <2>1, <2>10
<1> QED  BY <1>1

\* The sum over fewer members is smaller.
LEMMA TotalSubset ==
  ASSUME NEW f, NEW S, IsFiniteSet(S), \A x \in S : f[x] \in Nat,
         NEW A \in SUBSET S
  PROVE  Total(f, A) <= Total(f, S) /\ Total(f, S) = Total(f, A) + Total(f, S \ A)
<1>1. A \cup (S \ A) = S /\ A \cap (S \ A) = {}
  OBVIOUS
<1>2. Total(f, S) = Total(f, A) + Total(f, S \ A)
  BY <1>1, TotalUnion
<1>3. Total(f, A) \in Nat /\ Total(f, S \ A) \in Nat
  BY FS_Subset, TotalType
<1> QED  BY <1>2, <1>3

\* A sum is zero when what is summed is.
LEMMA TotalZero ==
  ASSUME NEW f, NEW S, IsFiniteSet(S), \A x \in S : f[x] \in Nat
  PROVE  Total(f, S) = 0 <=> \A x \in S : f[x] = 0
<1>1. ASSUME \A x \in S : f[x] = 0  PROVE Total(f, S) = 0
  <2> DEFINE X == {s \in SUBSET S : Total(f, s) # 0}
  <2>1. ASSUME X # {}  PROVE FALSE
    <3>1. PICK s \in X : IsFiniteSet(s) /\ \A x \in s : s \ {x} \notin X
      BY <2>1, MinimalSet
    <3>2. s # {}
      BY <3>1, TotalEmpty
    <3>3. Pick(s) \in s /\ f[Pick(s)] = 0
      BY <1>1, <3>1, <3>2, PickType
    <3>4. Total(f, s \ {Pick(s)}) = 0
      BY <3>1, <3>3
    <3>5. Total(f, s) = 0
      BY <3>1, <3>2, <3>3, <3>4, TotalPick
    <3> QED  BY <3>1, <3>5
  <2> QED  BY <2>1
<1>2. ASSUME Total(f, S) = 0, NEW x \in S  PROVE f[x] = 0
  <2>1. Total(f, S) = f[x] + Total(f, S \ {x})
    BY TotalRemove
  <2>2. f[x] \in Nat /\ Total(f, S \ {x}) \in Nat
    BY FS_Subset, TotalType
  <2> QED  BY <1>2, <2>1, <2>2
<1> QED  BY <1>1, <1>2

\* Every number times a constant.
LEMMA TotalScaled ==
  ASSUME NEW f, NEW g, NEW c \in Nat, NEW S, IsFiniteSet(S),
         \A x \in S : f[x] \in Nat /\ g[x] = c * f[x]
  PROVE  Total(g, S) = c * Total(f, S)
<1> DEFINE X == {s \in SUBSET S : Total(g, s) # c * Total(f, s)}
<1>1. ASSUME X # {}  PROVE FALSE
  <2>1. PICK s \in X : IsFiniteSet(s) /\ \A x \in s : s \ {x} \notin X
    BY <1>1, MinimalSet
  <2>2. s # {}
    <3> SUFFICES ASSUME s = {}  PROVE FALSE
      OBVIOUS
    <3>1. Total(f, s) = 0 /\ Total(g, s) = 0
      BY TotalEmpty
    <3>2. c * 0 = 0
      OBVIOUS
    <3> QED  BY <2>1, <3>1, <3>2
  <2> DEFINE p == Pick(s)
             r == s \ {p}
  <2>3. p \in s /\ Total(f, s) = f[p] + Total(f, r) /\ Total(g, s) = g[p] + Total(g, r)
    BY <2>1, <2>2, PickType, TotalPick
  <2>4. r \in SUBSET S /\ r \notin X
    BY <2>1, <2>3
  <2> HIDE DEF p, r
  <2>5. Total(g, r) = c * Total(f, r)
    BY <2>4
  <2>6. Total(f, r) \in Nat
    BY <2>4, FS_Subset, TotalType
  <2>7. f[p] \in Nat /\ g[p] = c * f[p]
    BY <2>1, <2>3
  <2>8. Total(g, s) = c * Total(f, s)
    <3>1. c * (f[p] + Total(f, r)) = c * f[p] + c * Total(f, r)
      BY <2>6, <2>7
    <3> QED  BY <2>3, <2>5, <2>7, <3>1
  <2> QED  BY <2>1, <2>8
<1> QED  BY <1>1

\* A constant, once for every member.
LEMMA TotalConstant ==
  ASSUME NEW f, NEW c \in Nat, NEW S, IsFiniteSet(S), \A x \in S : f[x] = c
  PROVE  Total(f, S) = c * Cardinality(S)
<1> DEFINE X == {s \in SUBSET S : Total(f, s) # c * Cardinality(s)}
<1>1. ASSUME X # {}  PROVE FALSE
  <2>1. PICK s \in X : IsFiniteSet(s) /\ \A x \in s : s \ {x} \notin X
    BY <1>1, MinimalSet
  <2>2. s # {}
    <3> SUFFICES ASSUME s = {}  PROVE FALSE
      OBVIOUS
    <3>1. Cardinality(s) = 0 /\ Total(f, s) = 0
      BY TotalEmpty, FS_EmptySet
    <3>2. c * 0 = 0
      OBVIOUS
    <3> QED  BY <2>1, <3>1, <3>2
  <2> DEFINE p == Pick(s)
             r == s \ {p}
  <2>3. p \in s /\ Total(f, s) = f[p] + Total(f, r)
    BY <2>1, <2>2, PickType, TotalPick
  <2>4. r \in SUBSET S /\ r \notin X /\ Cardinality(r) = Cardinality(s) - 1
    BY <2>1, <2>3, FS_RemoveElement
  <2>5. Cardinality(s) \in Nat /\ Cardinality(r) \in Nat
    BY <2>1, <2>4, FS_Subset, FS_CardinalityType
  <2> HIDE DEF p, r
  <2>6. Total(f, r) = c * Cardinality(r) /\ f[p] = c
    BY <2>1, <2>3, <2>4
  <2>7. Total(f, s) = c * Cardinality(s)
    <3>1. \A m \in Nat : c + c * (m - 1) = c * m
      OBVIOUS
    <3> QED  BY <2>3, <2>4, <2>5, <2>6, <3>1
  <2> QED  BY <2>1, <2>7
<1> QED  BY <1>1

-----------------------------------------------------------------------------
(***************************************************************************)
(* Least and greatest numbers of a finite set, and division                *)
(***************************************************************************)

LEMMA FiniteMin ==
  ASSUME NEW S \in SUBSET Int, IsFiniteSet(S), S # {}
  PROVE  Min(S) \in S /\ \A x \in S : Min(S) <= x
<1> DEFINE HasMin(s) == s = {} \/ \E m \in s : \A x \in s : m <= x
           X == {s \in SUBSET S : ~ HasMin(s)}
<1>1. ASSUME X # {}  PROVE FALSE
  <2>1. PICK s \in X : IsFiniteSet(s) /\ \A x \in s : s \ {x} \notin X
    BY <1>1, MinimalSet
  <2>2. PICK p \in s : TRUE
    BY <2>1
  <2>3. s \in SUBSET Int /\ ~ HasMin(s)
    BY <2>1
  <2>4. HasMin(s \ {p})
    BY <2>1, <2>2
  <2>5. CASE s \ {p} = {}
    <3>1. s = {p} /\ p \in Int
      BY <2>2, <2>3, <2>5
    <3> QED  BY <2>3, <3>1
  <2>6. CASE \E m \in s \ {p} : \A x \in s \ {p} : m <= x
    <3>1. PICK m \in s \ {p} : \A x \in s \ {p} : m <= x
      BY <2>6
    <3>2. p \in Int /\ m \in Int
      BY <2>2, <2>3, <3>1
    <3>3. CASE m <= p
      <4>1. \A x \in s : m <= x
        BY <3>1, <3>3
      <4> QED  BY <2>3, <3>1, <4>1
    <3>4. CASE p <= m
      <4>1. \A x \in s : p <= x
        BY <2>3, <3>1, <3>2, <3>4
      <4> QED  BY <2>2, <2>3, <4>1
    <3> QED  BY <3>2, <3>3, <3>4
  <2> QED  BY <2>4, <2>5, <2>6
<1>2. \E m \in S : \A x \in S : m <= x
  BY <1>1
<1> QED  BY <1>2 DEF Min

\* The least and the greatest of two numbers, and the clamp of a rank.
LEMMA MinPair ==
  ASSUME NEW a \in Int, NEW b \in Int
  PROVE  Min({a, b}) = IF a <= b THEN a ELSE b
<1> DEFINE m == IF a <= b THEN a ELSE b
<1>1. m \in {a, b} /\ \A x \in {a, b} : m <= x
  OBVIOUS
<1>2. \A x \in {a, b} : (\A y \in {a, b} : x <= y) => x = m
  OBVIOUS
<1> QED  BY <1>1, <1>2 DEF Min

LEMMA MaxPair ==
  ASSUME NEW a \in Int, NEW b \in Int
  PROVE  Max({a, b}) = IF a <= b THEN b ELSE a
<1> DEFINE m == IF a <= b THEN b ELSE a
<1>1. m \in {a, b} /\ \A x \in {a, b} : m >= x
  OBVIOUS
<1>2. \A x \in {a, b} : (\A y \in {a, b} : x >= y) => x = m
  OBVIOUS
<1> QED  BY <1>1, <1>2 DEF Max

\* What a number divided by another is.
LEMMA Quotient ==
  ASSUME NEW n \in Nat, NEW d \in Nat \ {0}
  PROVE  n \div d \in Nat /\ d * (n \div d) <= n /\ n < d * (n \div d) + d
OBVIOUS

LEMMA HalfUpBounds ==
  ASSUME NEW n \in Nat, NEW d \in Nat \ {0}
  PROVE  /\ HalfUp(n, d) \in Nat
         /\ 2 * d * HalfUp(n, d) <= 2 * n + d
         /\ 2 * n < 2 * d * HalfUp(n, d) + d
<1> DEFINE q == (2 * n + d) \div (2 * d)
<1>1. 2 * n + d \in Nat /\ 2 * d \in Nat \ {0}
  OBVIOUS
<1>2. q \in Nat /\ (2 * d) * q <= 2 * n + d /\ 2 * n + d < (2 * d) * q + 2 * d
  BY <1>1, Quotient
<1> HIDE DEF q
<1>3. (2 * d) * q = 2 * d * q
  OBVIOUS
<1>4. HalfUp(n, d) = q
  BY DEF HalfUp, q
<1>5. d * q \in Nat
  BY <1>2
<1> QED  BY <1>2, <1>3, <1>4, <1>5

\* A rounded quotient lies between the whole numbers the quotient lies between.
LEMMA HalfUpBetween ==
  ASSUME NEW n \in Nat, NEW d \in Nat \ {0}, NEW a \in Nat, NEW b \in Nat,
         a * d <= n, n <= b * d
  PROVE  a <= HalfUp(n, d) /\ HalfUp(n, d) <= b
<1> DEFINE q == HalfUp(n, d)
<1>1. q \in Nat /\ 2 * d * q <= 2 * n + d /\ 2 * n < 2 * d * q + d
  BY HalfUpBounds
<1> HIDE DEF q
<1>2. ASSUME q + 1 <= a  PROVE FALSE
  <2>1. d * (q + 1) <= d * a
    BY <1>1, <1>2
  <2>2. d * q \in Nat /\ d * (q + 1) = d * q + d /\ d * a = a * d
    BY <1>1
  <2> QED  BY <1>1, <2>1, <2>2
<1>3. ASSUME b + 1 <= q  PROVE FALSE
  <2>1. d * (b + 1) <= d * q
    BY <1>1, <1>3
  <2>2. d * b \in Nat /\ d * (b + 1) = d * b + d /\ d * b = b * d
    BY <1>1
  <2> QED  BY <1>1, <2>1, <2>2
<1>4. a <= q /\ q <= b
  BY <1>1, <1>2, <1>3
<1> QED  BY <1>4 DEF q

LEMMA FiniteMax ==
  ASSUME NEW S \in SUBSET Int, IsFiniteSet(S), S # {}
  PROVE  \E m \in S : \A x \in S : x <= m
<1> DEFINE minus == [x \in S |-> -x]
           T == {minus[x] : x \in S}
<1>1. minus \in Surjection(S, T)
  BY DEF Surjection
<1>2. IsFiniteSet(T)
  BY <1>1, FS_Surjection
<1>3. T \in SUBSET Int /\ T # {}
  OBVIOUS
<1>4. Min(T) \in T /\ \A y \in T : Min(T) <= y
  BY <1>2, <1>3, FiniteMin
<1>5. PICK m \in S : Min(T) = -m
  BY <1>4
<1>6. \A x \in S : x <= m
  <2> TAKE x \in S
  <2>1. Min(T) <= -x
    BY <1>4
  <2> QED  BY <1>5, <2>1
<1> QED  BY <1>6

-----------------------------------------------------------------------------
(***************************************************************************)
(* The evidence of an audit                                                *)
(***************************************************************************)

Bags == [Outcomes -> Nat]

LEMMA OutcomesType ==
  IsFiniteSet(Outcomes) /\ \A o \in Outcomes : o.ms \in Int
<1>1. \A o \in RunnerOutcomes : o.ms \in Int
  BY DEF RunnerOutcomes, NotPrepared, NoDuration
<1> QED  BY <1>1, OutcomesAssumption

LEMMA EndpointsType ==
  /\ Len(Order) \in Nat \ {0} /\ Order \in [1 .. Len(Order) -> Endpoints]
  /\ Endpoints \in SUBSET Int /\ IsFiniteSet(Endpoints) /\ Endpoints # {}
<1>1. Order \in Seq(Int) /\ Len(Order) > 0
  BY ConfigAssumption
<1>2. Len(Order) \in Nat \ {0} /\ Order \in [1 .. Len(Order) -> Int]
  BY <1>1
<1>3. Order \in [1 .. Len(Order) -> Endpoints] /\ Endpoints \in SUBSET Int
  BY <1>2 DEF Endpoints, Range
<1>4. Order \in Surjection(1 .. Len(Order), Endpoints)
  BY <1>2, <1>3 DEF Endpoints, Range, Surjection
<1>5. IsFiniteSet(Endpoints)
  BY <1>2, <1>4, FS_Interval, FS_Surjection
<1>6. Order[1] \in Endpoints
  BY <1>2, <1>3
<1> QED  BY <1>2, <1>3, <1>5, <1>6

\* What the configuration fixed, and the numbers of results of every endpoint.
EvidenceType ==
  /\ payload_iterations \in [Endpoints -> Nat \ {0}]
  /\ evidence \in [Endpoints -> Bags]
  /\ runs \in Nat

LEMMA EffectiveCapType ==
  ASSUME NEW sources \in Seq(Nat)
  PROVE  effective_caps(sources) \in Nat \ {0}
<1> DEFINE given == {i \in DOMAIN sources : sources[i] > 0}
<1>1. CASE given = {}
  BY <1>1 DEF effective_caps, MAX_REQUESTS_PER_RUN
<1>2. CASE given # {}
  <2>1. given \in SUBSET (1 .. Len(sources)) /\ Len(sources) \in Nat
    OBVIOUS
  <2> HIDE DEF given
  <2>2. IsFiniteSet(given) /\ given \in SUBSET Int
    <3>1. IsFiniteSet(1 .. Len(sources))
      BY <2>1, FS_Interval
    <3>2. IsFiniteSet(given)
      BY <2>1, <3>1, FS_Subset
    <3> QED  BY <2>1, <3>2
  <2>3. Min(given) \in given
    BY <1>2, <2>2, FiniteMin
  <2>4. sources[Min(given)] \in Nat \ {0}
    BY <2>3 DEF given
  <2> QED  BY <1>2, <2>4 DEF effective_caps, given
<1> QED  BY <1>1, <1>2

LEMMA BurstPlanType ==
  ASSUME NEW mode \in {"manual_fallback", "scheduled_window"}, NEW r \in RequestCounts
  PROVE  resolve_burst_plan(mode, r) \in SUBSET Nat
<1>1. r \in Nat /\ <<AuditCap, EnvironmentCap>> \in Seq(Nat)
  BY ConfigAssumption
<1> DEFINE cap == effective_caps(<<AuditCap, EnvironmentCap>>)
<1>2. cap \in Nat
  BY <1>1, EffectiveCapType
<1> HIDE DEF cap
<1>3. Min({r, cap}) \in Nat
  BY <1>1, <1>2, MinPair
<1>4. CASE mode = "manual_fallback"
  <2>1. resolve_burst_plan(mode, r) = {Min({r, cap})}
    BY <1>4, Zenon DEF resolve_burst_plan, cap
  <2> QED  BY <1>3, <2>1
<1>5. CASE mode = "scheduled_window"
  <2>1. resolve_burst_plan(mode, r) \in {{r} \cap 1 .. cap, {}}
    <3>1. mode # "manual_fallback"
      BY <1>5
    <3>2. CASE ensure_execution_allowed(r)
      BY <1>5, <3>1, <3>2, Zenon DEF resolve_burst_plan, cap
    <3>3. CASE ~ ensure_execution_allowed(r)
      BY <1>5, <3>1, <3>3, Zenon DEF resolve_burst_plan, cap
    <3> QED  BY <3>2, <3>3
  <2> QED  BY <1>1, <2>1
<1> QED  BY <1>4, <1>5

LEMMA BurstShareType ==
  ASSUME NEW n \in Nat
  PROVE  BurstShare(n) \in [Endpoints -> Nat]
<1>1. ASSUME NEW e \in Endpoints
      PROVE  Cardinality({m \in 1 .. n : Order[((m - 1) % Len(Order)) + 1] = e}) \in Nat
  <2> DEFINE share == {m \in 1 .. n : Order[((m - 1) % Len(Order)) + 1] = e}
  <2>1. share \in SUBSET (1 .. n) /\ IsFiniteSet(1 .. n)
    BY FS_Interval
  <2> HIDE DEF share
  <2>2. IsFiniteSet(share)
    BY <2>1, FS_Subset
  <2>3. Cardinality(share) \in Nat
    BY <2>2, FS_CardinalityType
  <2> QED  BY <2>3 DEF share
<1> QED  BY <1>1 DEF BurstShare

LEMMA RecordedType ==
  ASSUME EvidenceType, NEW counts \in [Endpoints -> Nat], NEW outcome
  PROVE  Recorded(counts, outcome) \in [Endpoints -> Bags]
<1>1. \A e \in Endpoints, o \in Outcomes :
        evidence[e][o] + (IF o = outcome[e] THEN counts[e] ELSE 0) \in Nat
  BY DEF EvidenceType, Bags
<1> QED  BY <1>1 DEF Recorded, Bags

(***************************************************************************)
(* Every step adds natural numbers of results (execute_run_definitions).   *)
(***************************************************************************)
THEOREM EvidenceIsCounted == Spec => []EvidenceType
<1>1. Init => EvidenceType
  <2> SUFFICES ASSUME Init  PROVE EvidenceType
    OBVIOUS
  <2>1. payload_iterations \in [Endpoints -> Nat \ {0}]
    BY ConfigAssumption DEF Init, Endpoints
  <2>2. evidence \in [Endpoints -> Bags]
    BY DEF Init, Bags
  <2> QED  BY <2>1, <2>2 DEF Init, EvidenceType
<1>2. EvidenceType /\ [Next]_vars => EvidenceType'
  <2> SUFFICES ASSUME EvidenceType, [Next]_vars  PROVE EvidenceType'
    OBVIOUS
  <2>1. CASE UNCHANGED vars
    BY <2>1 DEF vars, EvidenceType
  <2>2. ASSUME NEW outcome \in [Endpoints -> Outcomes], NEW k \in IterationCounts,
               ExecuteIterations(k, outcome)
        PROVE  EvidenceType'
    <3>1. PICK n \in resolve_schedule_iteration_count(k) :
            evidence' = Recorded([e \in Endpoints |-> n * payload_iterations[e]], outcome)
      BY <2>2 DEF ExecuteIterations
    <3>2. n \in Nat
      BY <3>1 DEF resolve_schedule_iteration_count
    <3>3. [e \in Endpoints |-> n * payload_iterations[e]] \in [Endpoints -> Nat]
      BY <3>2 DEF EvidenceType
    <3>4. evidence' \in [Endpoints -> Bags]
      BY <3>1, <3>3, RecordedType
    <3>5. payload_iterations' = payload_iterations /\ runs' = runs + 1
      BY <2>2 DEF ExecuteIterations
    <3> QED  BY <3>4, <3>5 DEF EvidenceType
  <2>3. ASSUME NEW outcome \in [Endpoints -> Outcomes], NEW r \in RequestCounts,
               NEW mode \in {"manual_fallback", "scheduled_window"},
               ExecuteBurst(mode, r, outcome)
        PROVE  EvidenceType'
    <3>1. PICK n \in resolve_burst_plan(mode, r) : evidence' = Recorded(BurstShare(n), outcome)
      BY <2>3 DEF ExecuteBurst
    <3>2. n \in Nat
      BY <3>1, BurstPlanType
    <3>3. evidence' \in [Endpoints -> Bags]
      BY <3>1, <3>2, BurstShareType, RecordedType
    <3>4. payload_iterations' = payload_iterations /\ runs' = runs + 1
      BY <2>3 DEF ExecuteBurst
    <3> QED  BY <3>3, <3>4 DEF EvidenceType
  <2> QED  BY <2>1, <2>2, <2>3 DEF Next
<1> QED  BY <1>1, <1>2, PTL DEF Spec

-----------------------------------------------------------------------------
(***************************************************************************)
(* Ranks                                                                   *)
(***************************************************************************)

UpTo(v) == {o \in Timed : o.ms <= v}
Under(v) == {o \in Timed : o.ms < v}

LEMMA TimedType ==
  /\ Timed \in SUBSET Outcomes /\ IsFiniteSet(Timed)
  /\ \A o \in Timed : o.ms \in Nat
  /\ \A v : /\ UpTo(v) \in SUBSET Timed /\ IsFiniteSet(UpTo(v))
            /\ Under(v) \in SUBSET Timed /\ IsFiniteSet(Under(v))
<1>1. Timed \in SUBSET Outcomes /\ \A o \in Timed : o.ms \in Nat
  BY OutcomesType DEF Timed
<1>2. IsFiniteSet(Timed)
  BY <1>1, OutcomesType, FS_Subset
<1>3. ASSUME NEW v
      PROVE  /\ UpTo(v) \in SUBSET Timed /\ IsFiniteSet(UpTo(v))
             /\ Under(v) \in SUBSET Timed /\ IsFiniteSet(Under(v))
  <2>1. UpTo(v) \in SUBSET Timed /\ Under(v) \in SUBSET Timed
    BY DEF UpTo, Under
  <2>2. IsFiniteSet(UpTo(v))
    BY <1>2, <2>1, FS_Subset
  <2>3. IsFiniteSet(Under(v))
    BY <1>2, <2>1, FS_Subset
  <2> QED  BY <2>1, <2>2, <2>3
<1> QED  BY <1>1, <1>2, <1>3

\* The sums over sets of results.
LEMMA BagTotals ==
  ASSUME NEW results \in Bags, NEW S \in SUBSET Outcomes
  PROVE  /\ IsFiniteSet(S) /\ Total(results, S) \in Nat
         /\ \A x \in S : results[x] \in Nat
         /\ \A A \in SUBSET S : /\ Total(results, A) \in Nat
                                /\ Total(results, A) <= Total(results, S)
                                /\ Total(results, S) = Total(results, A) + Total(results, S \ A)
<1>1. IsFiniteSet(S) /\ \A x \in S : results[x] \in Nat
  BY OutcomesType, FS_Subset DEF Bags
<1>2. Total(results, S) \in Nat
  BY <1>1, TotalType
<1>3. ASSUME NEW A \in SUBSET S
      PROVE  /\ Total(results, A) \in Nat
             /\ Total(results, A) <= Total(results, S)
             /\ Total(results, S) = Total(results, A) + Total(results, S \ A)
  <2>1. IsFiniteSet(A) /\ \A x \in A : results[x] \in Nat
    BY <1>1, FS_Subset
  <2>2. Total(results, A) \in Nat
    BY <2>1, TotalType
  <2> QED  BY <1>1, <2>2, TotalSubset
<1> QED  BY <1>1, <1>2, <1>3

(***************************************************************************)
(* The result of rank i: at least i results take no longer, and less than  *)
(* i results take less.                                                    *)
(***************************************************************************)
LEMMA RankedProperties ==
  ASSUME NEW results \in Bags, NEW i \in 1 .. Total(results, Timed)
  PROVE  /\ Ranked(results, i) \in Nat
         /\ Total(results, UpTo(Ranked(results, i))) \in Nat
         /\ i <= Total(results, UpTo(Ranked(results, i)))
         /\ Total(results, Under(Ranked(results, i))) \in Nat
         /\ Total(results, Under(Ranked(results, i))) < i
         /\ \A o \in Timed : i <= Total(results, UpTo(o.ms)) => Ranked(results, i) <= o.ms
<1> DEFINE n == Total(results, Timed)
           enough == {p \in Timed : Total(results, {q \in Timed : q.ms <= p.ms}) >= i}
           durations == {o.ms : o \in enough}
           v == Ranked(results, i)
<1>1. n \in Nat /\ i \in Nat /\ 0 < i /\ i <= n
  <2>1. n \in Nat
    BY TimedType, BagTotals
  <2> QED  BY <2>1
<1>2. \A w : Total(results, UpTo(w)) \in Nat /\ Total(results, Under(w)) \in Nat
  BY TimedType, BagTotals
<1>3. \A o \in Timed : o \in enough <=> i <= Total(results, UpTo(o.ms))
  BY <1>1, <1>2 DEF UpTo
<1> DEFINE ms == [o \in Timed |-> o.ms]
<1>4. \A S \in SUBSET Timed : /\ IsFiniteSet({o.ms : o \in S})
                              /\ {o.ms : o \in S} \in SUBSET Int
  <2> TAKE S \in SUBSET Timed
  <2> DEFINE T == {o.ms : o \in S}
             f == [o \in S |-> o.ms]
  <2>1. f \in Surjection(S, T)
    BY DEF Surjection
  <2>2. IsFiniteSet(S)
    BY TimedType, FS_Subset
  <2>3. IsFiniteSet(T)
    BY <2>1, <2>2, FS_Surjection
  <2>4. T \in SUBSET Int
    BY TimedType
  <2> QED  BY <2>3, <2>4
<1>5. Timed # {}
  <2> SUFFICES ASSUME Timed = {}  PROVE FALSE
    OBVIOUS
  <2>1. n = 0
    BY TotalEmpty
  <2> QED  BY <1>1, <2>1
<1>6. enough # {}
  <2> DEFINE all == {o.ms : o \in Timed}
  <2>1. all \in SUBSET Int /\ IsFiniteSet(all) /\ all # {}
    BY <1>4, <1>5
  <2>2. PICK m \in all : \A x \in all : x <= m
    BY <2>1, FiniteMax
  <2>3. PICK p \in Timed : m = p.ms
    BY <2>2
  <2>4. UpTo(p.ms) = Timed
    BY <2>2, <2>3 DEF UpTo
  <2>5. p \in enough
    BY <1>1, <1>3, <2>4
  <2> QED  BY <2>5
<1>7. enough \in SUBSET Timed
  OBVIOUS
<1>8. v = Min(durations)
  BY DEF Ranked
<1> HIDE DEF enough, n, v
<1>9. durations \in SUBSET Int /\ IsFiniteSet(durations) /\ durations # {}
  BY <1>4, <1>6, <1>7
<1>10. v \in durations /\ \A x \in durations : v <= x
  BY <1>8, <1>9, FiniteMin
<1>11. PICK p \in enough : v = p.ms
  BY <1>10
<1>12. v \in Nat /\ i <= Total(results, UpTo(v))
  BY <1>3, <1>7, <1>11, TimedType
<1>13. \A o \in Timed : i <= Total(results, UpTo(o.ms)) => v <= o.ms
  BY <1>3, <1>10
<1>14. Total(results, Under(v)) < i
  <2>1. CASE Under(v) = {}
    <3>1. Total(results, Under(v)) = 0
      BY <2>1, TotalEmpty
    <3> QED  BY <1>1, <3>1
  <2>2. CASE Under(v) # {}
    <3> DEFINE T == {o.ms : o \in Under(v)}
    <3>1. T \in SUBSET Int /\ IsFiniteSet(T) /\ T # {}
      BY <1>4, <2>2, TimedType
    <3>2. PICK m \in T : \A x \in T : x <= m
      BY <3>1, FiniteMax
    <3>3. PICK q \in Under(v) : m = q.ms
      BY <3>2
    <3>4. q \in Timed /\ q.ms \in Nat /\ q.ms < v
      BY <3>3, TimedType DEF Under
    <3>5. \A o \in Timed : o.ms < v <=> o.ms <= q.ms
      <4> TAKE o \in Timed
      <4>1. o.ms \in Nat
        BY TimedType
      <4>2. o.ms < v => o.ms <= q.ms
        BY <3>2, <3>3 DEF Under
      <4> QED  BY <1>12, <3>4, <4>1, <4>2
    <3>6. Under(v) = UpTo(q.ms)
      BY <3>5 DEF Under, UpTo
    <3>7. ~ (i <= Total(results, UpTo(q.ms)))
      BY <1>12, <1>13, <3>4
    <3> QED  BY <1>1, <1>2, <3>6, <3>7
  <2> QED  BY <2>1, <2>2
<1> QED  BY <1>2, <1>12, <1>13, <1>14 DEF v

\* The results are in the order of their ranks.
LEMMA RankedMonotone ==
  ASSUME NEW results \in Bags,
         NEW i \in 1 .. Total(results, Timed), NEW j \in 1 .. Total(results, Timed), i <= j
  PROVE  Ranked(results, i) <= Ranked(results, j)
<1> DEFINE v == Ranked(results, i)
           w == Ranked(results, j)
<1>1. v \in Nat /\ w \in Nat
  BY RankedProperties
<1>2. Total(results, Under(v)) < i /\ Total(results, Under(v)) \in Nat
  BY RankedProperties
<1>3. j <= Total(results, UpTo(w)) /\ Total(results, UpTo(w)) \in Nat
  BY RankedProperties
<1> HIDE DEF v, w
<1>4. ASSUME w < v  PROVE FALSE
  <2>1. UpTo(w) \in SUBSET Under(v) /\ Under(v) \in SUBSET Outcomes
    BY <1>1, <1>4, TimedType DEF UpTo, Under
  <2>2. Total(results, UpTo(w)) <= Total(results, Under(v))
    BY <2>1, BagTotals
  <2> QED  BY <1>2, <1>3, <2>2
<1> QED  BY <1>1, <1>4 DEF v, w

\* Every result that occurs is between the first and the last one.
LEMMA RankedExtremes ==
  ASSUME NEW results \in Bags, NEW n, n = Total(results, Timed), 0 < n,
         NEW o \in Timed, results[o] # 0
  PROVE  Ranked(results, 1) <= o.ms /\ o.ms <= Ranked(results, n)
<1>1. n \in Nat \ {0} /\ 1 \in 1 .. n /\ n \in 1 .. n
  <2>1. n \in Nat
    BY TimedType, BagTotals
  <2> QED  BY <2>1
<1>2. o.ms \in Nat /\ results[o] \in Nat \ {0} /\ o \in Outcomes
  BY TimedType DEF Bags
<1>3. Ranked(results, 1) <= o.ms
  <2>1. o \in UpTo(o.ms) /\ UpTo(o.ms) \in SUBSET Outcomes
    BY <1>2, TimedType DEF UpTo
  <2>2. /\ Total(results, UpTo(o.ms)) = results[o] + Total(results, UpTo(o.ms) \ {o})
    BY <2>1, BagTotals, TotalRemove
  <2>3. Total(results, UpTo(o.ms) \ {o}) \in Nat
    BY <2>1, BagTotals
  <2>4. 1 <= Total(results, UpTo(o.ms))
    BY <1>2, <2>2, <2>3
  <2> QED  BY <1>1, <2>4, RankedProperties
<1>4. ASSUME ~ (o.ms <= Ranked(results, n))  PROVE FALSE
  <2> DEFINE A == UpTo(Ranked(results, n))
  <2>1. A \in SUBSET Timed /\ Timed \in SUBSET Outcomes /\ o \in Timed \ A
    BY <1>4, TimedType DEF UpTo
  <2>2. n <= Total(results, A) /\ Total(results, A) \in Nat
    BY <1>1, RankedProperties
  <2> HIDE DEF A
  <2>3. n = Total(results, A) + Total(results, Timed \ A)
    BY <2>1, BagTotals
  <2>4. Total(results, Timed \ A) = results[o] + Total(results, (Timed \ A) \ {o})
    BY <2>1, BagTotals, TotalRemove
  <2>5. Total(results, (Timed \ A) \ {o}) \in Nat
    BY <2>1, BagTotals
  <2> QED  BY <1>1, <1>2, <2>2, <2>3, <2>4, <2>5
<1> QED  BY <1>3, <1>4

-----------------------------------------------------------------------------
(***************************************************************************)
(* The latency summary                                                     *)
(***************************************************************************)

CeilingRank(percentile, n) == (percentile * n + 99) \div 100

LEMMA CeilingRankBounds ==
  ASSUME NEW percentile \in 1 .. 100, NEW n \in Nat \ {0}
  PROVE  LET c == CeilingRank(percentile, n)
         IN  c \in 1 .. n /\ percentile * n <= 100 * c /\ 100 * (c - 1) < percentile * n
<1> DEFINE m == percentile * n
           c == CeilingRank(percentile, n)
<1>1. m \in Nat /\ n <= m /\ m <= 100 * n
  <2>1. 1 * n <= percentile * n /\ percentile * n <= 100 * n
    OBVIOUS
  <2> QED  BY <2>1
<1>2. c = (m + 99) \div 100
  BY DEF CeilingRank
<1> HIDE DEF m, c
<1>3. c \in Nat /\ 100 * c <= m + 99 /\ m + 99 < 100 * c + 100
  BY <1>1, <1>2
<1>4. c \in 1 .. n /\ m <= 100 * c /\ 100 * (c - 1) < m
  BY <1>1, <1>3
<1> QED  BY <1>4 DEF m, c

LEMMA NearestRankIsRanked ==
  ASSUME NEW results, NEW percentile \in 1 .. 100, NEW n \in Nat \ {0}
  PROVE  nearest_rank(results, percentile, n) = Ranked(results, CeilingRank(percentile, n))
<1> DEFINE c == CeilingRank(percentile, n)
<1>1. c \in 1 .. n
  BY CeilingRankBounds
<1>2. nearest_rank(results, percentile, n) = Ranked(results, Max({1, Min({n, c})}))
  BY DEF nearest_rank, CeilingRank
<1> HIDE DEF c
<1>3. Min({n, c}) = c
  BY <1>1, MinPair
<1>4. Max({1, c}) = c
  BY <1>1, MaxPair
<1> QED  BY <1>2, <1>3, <1>4 DEF c

\* A nearest rank is the percentile that the definition of the rank promises.
LEMMA PercentileOfRank ==
  ASSUME NEW results \in Bags, NEW n, n = Total(results, Timed), 0 < n,
         NEW percentile \in 1 .. 100
  PROVE  IsPercentile(results, 1000 * nearest_rank(results, percentile, n), percentile, n)
<1> DEFINE c == CeilingRank(percentile, n)
           v == Ranked(results, c)
<1>1. n \in Nat \ {0}
  <2>1. n \in Nat
    BY TimedType, BagTotals
  <2> QED  BY <2>1
<1>2. c \in 1 .. n /\ percentile * n <= 100 * c /\ 100 * (c - 1) < percentile * n
  BY <1>1, CeilingRankBounds
<1>3. nearest_rank(results, percentile, n) = v
  BY <1>1, NearestRankIsRanked
<1>4. percentile * n \in Nat
  BY <1>1
<1> HIDE DEF c
<1>5. /\ v \in Nat /\ Total(results, UpTo(v)) \in Nat /\ c <= Total(results, UpTo(v))
      /\ Total(results, Under(v)) \in Nat /\ Total(results, Under(v)) < c
  BY <1>2, RankedProperties
<1> HIDE DEF v
<1>6. {o \in Timed : 1000 * o.ms <= 1000 * v} = UpTo(v)
  <2>1. \A o \in Timed : 1000 * o.ms <= 1000 * v <=> o.ms <= v
    BY <1>5, TimedType
  <2> QED  BY <2>1 DEF UpTo
<1>7. {o \in Timed : 1000 * o.ms < 1000 * v} = Under(v)
  <2>1. \A o \in Timed : 1000 * o.ms < 1000 * v <=> o.ms < v
    BY <1>5, TimedType
  <2> QED  BY <2>1 DEF Under
<1>8. 100 * Total(results, UpTo(v)) >= percentile * n
  BY <1>1, <1>2, <1>4, <1>5
<1>9. 100 * Total(results, Under(v)) < percentile * n
  BY <1>1, <1>2, <1>4, <1>5
<1>10. AtMost(results, 1000 * v) = Total(results, UpTo(v))
  BY <1>6 DEF AtMost
<1>11. Below(results, 1000 * v) = Total(results, Under(v))
  BY <1>7 DEF Below
<1> QED  BY <1>3, <1>8, <1>9, <1>10, <1>11 DEF IsPercentile

\* The mean lies between the shortest and the longest duration.
LEMMA MeanBetween ==
  ASSUME NEW results \in Bags, NEW n, n = Total(results, Timed), 0 < n
  PROVE  LET mean == Thousandths(Total([o \in Timed |-> o.ms * results[o]], Timed), n)
         IN  /\ mean \in Nat
             /\ 1000 * Ranked(results, 1) <= mean /\ mean <= 1000 * Ranked(results, n)
<1> DEFINE f == [o \in Timed |-> o.ms * results[o]]
           a == Ranked(results, 1)
           b == Ranked(results, n)
           low == [o \in Timed |-> a * results[o]]
           high == [o \in Timed |-> b * results[o]]
           sum == Total(f, Timed)
<1>1. n \in Nat \ {0} /\ 1 \in 1 .. n /\ n \in 1 .. n
  <2>1. n \in Nat
    BY TimedType, BagTotals
  <2> QED  BY <2>1
<1>2. a \in Nat /\ b \in Nat
  BY <1>1, RankedProperties
<1>3. \A o \in Timed : o.ms \in Nat /\ results[o] \in Nat
  BY TimedType, BagTotals
<1>4. \A o \in Timed : results[o] # 0 => a <= o.ms /\ o.ms <= b
  BY RankedExtremes
<1> HIDE DEF a, b
<1>5. \A o \in Timed : f[o] \in Nat /\ low[o] \in Nat /\ high[o] \in Nat
  BY <1>2, <1>3
<1>6. \A o \in Timed : low[o] <= f[o] /\ f[o] <= high[o]
  <2> TAKE o \in Timed
  <2> DEFINE k == results[o]
             m == o.ms
  <2>1. k \in Nat /\ m \in Nat /\ (k # 0 => a <= m /\ m <= b)
    BY <1>3, <1>4
  <2>2. low[o] = a * k /\ f[o] = m * k /\ high[o] = b * k
    OBVIOUS
  <2> HIDE DEF k, m, low, f, high
  <2>3. CASE k = 0
    <3>1. a * k = 0 /\ m * k = 0 /\ b * k = 0
      BY <1>2, <2>1, <2>3
    <3> QED  BY <2>2, <3>1
  <2>4. CASE k # 0
    <3>1. a * k <= m * k /\ m * k <= b * k
      BY <1>2, <2>1, <2>4
    <3> QED  BY <2>2, <3>1
  <2> QED  BY <2>3, <2>4
<1>7. Total(low, Timed) <= sum /\ sum <= Total(high, Timed) /\ sum \in Nat
  BY <1>5, <1>6, TimedType, TotalMonotone, TotalType
<1>8. Total(low, Timed) = a * n /\ Total(high, Timed) = b * n
  <2>1. \A o \in Timed : results[o] \in Nat /\ low[o] = a * results[o] /\ high[o] = b * results[o]
    BY <1>3
  <2> HIDE DEF low, high
  <2> QED  BY <1>2, <2>1, TimedType, TotalScaled
<1> HIDE DEF sum, low, high, f
<1>9. (1000 * a) * n <= 1000 * sum /\ 1000 * sum <= (1000 * b) * n
  <2>1. a * n \in Nat /\ b * n \in Nat
    BY <1>1, <1>2
  <2>2. (1000 * a) * n = 1000 * (a * n) /\ (1000 * b) * n = 1000 * (b * n)
    BY <1>1, <1>2
  <2> QED  BY <1>7, <1>8, <2>1, <2>2
<1>10. 1000 * sum \in Nat /\ 1000 * a \in Nat /\ 1000 * b \in Nat
  BY <1>2, <1>7
<1>11. 1000 * a <= HalfUp(1000 * sum, n) /\ HalfUp(1000 * sum, n) <= 1000 * b
  BY <1>1, <1>9, <1>10, HalfUpBetween
<1>12. HalfUp(1000 * sum, n) \in Nat
  BY <1>1, <1>10, HalfUpBounds
<1> QED  BY <1>11, <1>12 DEF Thousandths, a, b, sum, f

LEMMA NoLatencyFields ==
  /\ NoLatency.count = 0 /\ NoLatency.min = 0 /\ NoLatency.max = 0 /\ NoLatency.mean = 0
  /\ NoLatency.median = 0 /\ NoLatency.p95 = 0 /\ NoLatency.p99 = 0
BY DEF NoLatency

(***************************************************************************)
(* What is true of the latency summary of any results (build_latency_      *)
(* summary): the numbers are in order, and the percentiles are what they   *)
(* are called.                                                             *)
(***************************************************************************)
LatencyOf(results, l) ==
  /\ l.count = Total(results, Timed) /\ l.count \in Nat
  /\ l.min \in Nat /\ l.median \in Nat /\ l.p95 \in Nat
  /\ l.p99 \in Nat /\ l.max \in Nat /\ l.mean \in Nat
  /\ l.count > 0 =>
       /\ IsPercentile(results, l.p95, 95, l.count)
       /\ IsPercentile(results, l.p99, 99, l.count)
       /\ l.min <= l.median /\ l.median <= l.p95
       /\ l.p95 <= l.p99 /\ l.p99 <= l.max
       /\ l.min <= l.mean /\ l.mean <= l.max

LEMMA LatencySummary ==
  ASSUME NEW results \in Bags
  PROVE  LatencyOf(results, latency_summary(results))
<1> DEFINE n == Total(results, Timed)
           R(i) == Ranked(results, i)
           l == latency_summary(results)
           mean == Thousandths(Total([o \in Timed |-> o.ms * results[o]], Timed), n)
           median == IF n % 2 = 1
                     THEN 1000 * Ranked(results, n \div 2 + 1)
                     ELSE 500 * (Ranked(results, n \div 2) + Ranked(results, n \div 2 + 1))
           p95 == 1000 * nearest_rank(results, 95, n)
           p99 == 1000 * nearest_rank(results, 99, n)
<1>1. n \in Nat
  BY TimedType, BagTotals
<1>2. CASE n = 0
  <2>1. l = NoLatency
    BY <1>2, Zenon DEF latency_summary
  <2> QED  BY <1>2, <2>1, NoLatencyFields DEF LatencyOf
<1>3. CASE n # 0
  <2>1. l = [count |-> n, min |-> 1000 * R(1), max |-> 1000 * R(n), mean |-> mean,
             median |-> median, p95 |-> p95, p99 |-> p99]
    <3> HIDE DEF mean, median, p95, p99
    <3>1. l = IF n = 0 THEN NoLatency
              ELSE [count |-> n, min |-> 1000 * R(1), max |-> 1000 * R(n), mean |-> mean,
                    median |-> median, p95 |-> p95, p99 |-> p99]
      BY Zenon DEF latency_summary, mean, median, p95, p99
    <3> QED  BY <1>3, <3>1
  <2>2. IsPercentile(results, p95, 95, n) /\ IsPercentile(results, p99, 99, n)
    BY <1>1, <1>3, PercentileOfRank
  <2>3. mean \in Nat /\ 1000 * R(1) <= mean /\ mean <= 1000 * R(n)
    BY <1>1, <1>3, MeanBetween
  <2>4. \A i, j \in 1 .. n : /\ R(i) \in Nat
                             /\ i <= j => R(i) <= R(j)
    BY RankedProperties, RankedMonotone
  <2>a. n \in Nat \ {0}
    BY <1>1, <1>3
  <2>b. p95 = 1000 * R(CeilingRank(95, n)) /\ p99 = 1000 * R(CeilingRank(99, n))
    BY <2>a, NearestRankIsRanked
  <2> HIDE DEF n
  <2> DEFINE c95 == CeilingRank(95, n)
             c99 == CeilingRank(99, n)
             half == n \div 2
  <2>5. p95 = 1000 * R(c95) /\ p99 = 1000 * R(c99)
    BY <2>b
  <2>c. c95 \in 1 .. n /\ 95 * n <= 100 * c95 /\ 100 * (c95 - 1) < 95 * n
    <3>1. 95 \in 1 .. 100
      OBVIOUS
    <3> QED  BY <2>a, <3>1, CeilingRankBounds
  <2>d. c99 \in 1 .. n /\ 99 * n <= 100 * c99 /\ 100 * (c99 - 1) < 99 * n
    <3>1. 99 \in 1 .. 100
      OBVIOUS
    <3> QED  BY <2>a, <3>1, CeilingRankBounds
  <2>6. /\ c95 \in 1 .. n /\ 95 * n <= 100 * c95 /\ 100 * (c95 - 1) < 95 * n
        /\ c99 \in 1 .. n /\ 99 * n <= 100 * c99 /\ 100 * (c99 - 1) < 99 * n
    BY <2>c, <2>d
  <2>7. 1 \in 1 .. n /\ n \in 1 .. n
    BY <2>a
  <2>8. half \in Nat /\ 2 * half <= n /\ n <= 2 * half + 1 /\ (n % 2 # 1 => n = 2 * half)
    BY <1>1
  <2> HIDE DEF R, l, mean, p95, p99, c95, c99, half
  <2>9. c95 <= c99 /\ half + 1 <= c95
    BY <1>1, <1>3, <2>6, <2>8
  <2>10. R(1) <= R(half + 1) /\ R(half + 1) <= R(c95) /\ R(half + 1) \in Nat
    <3>1. half + 1 \in 1 .. n
      BY <1>1, <2>6, <2>8, <2>9
    <3> QED  BY <2>4, <2>6, <2>7, <2>8, <2>9, <3>1
  <2>11. R(c95) <= R(c99) /\ R(c99) <= R(n)
    BY <2>4, <2>6, <2>7, <2>9
  <2>12. /\ R(1) \in Nat /\ R(n) \in Nat /\ R(c95) \in Nat /\ R(c99) \in Nat
    BY <2>4, <2>6, <2>7
  <2>13. median \in Nat /\ 1000 * R(1) <= median /\ median <= 1000 * R(c95)
    <3>1. CASE n % 2 = 1
      <4>1. median = 1000 * R(half + 1)
        BY <3>1 DEF half, R
      <4> HIDE DEF median
      <4> QED  BY <2>10, <2>12, <4>1
    <3>2. CASE n % 2 # 1
      <4>1. median = 500 * (R(half) + R(half + 1))
        BY <3>2 DEF half, R
      <4> HIDE DEF median
      <4>2. half \in 1 .. n /\ half + 1 \in 1 .. n
        BY <1>1, <1>3, <2>6, <2>8, <2>9, <3>2
      <4>3. R(half) \in Nat /\ R(1) <= R(half) /\ R(half) <= R(half + 1)
        BY <2>4, <2>7, <2>8, <4>2
      <4> QED  BY <2>10, <2>12, <4>1, <4>3
    <3> QED  BY <3>1, <3>2
  <2> HIDE DEF median
  <2>14. /\ l.count = n /\ l.min = 1000 * R(1) /\ l.max = 1000 * R(n) /\ l.mean = mean
         /\ l.median = median /\ l.p95 = p95 /\ l.p99 = p99
    BY <2>1
  <2>15. /\ 1000 * R(1) \in Nat /\ 1000 * R(n) \in Nat /\ p95 \in Nat /\ p99 \in Nat
         /\ median <= p95 /\ p95 <= p99 /\ p99 <= 1000 * R(n)
    BY <2>5, <2>11, <2>12, <2>13
  <2>16. l.count = Total(results, Timed)
    BY <2>14 DEF n
  <2>17. LatencyOf(results, l)
    BY <1>1, <2>2, <2>3, <2>13, <2>14, <2>15, <2>16 DEF LatencyOf
  <2> QED  BY <2>17 DEF l
<1> QED  BY <1>2, <1>3

-----------------------------------------------------------------------------
(***************************************************************************)
(* The sections of the report                                              *)
(***************************************************************************)

(***************************************************************************)
(* The endpoints can be put in ascending order: the place of one is the    *)
(* number of endpoints that do not exceed it (assemble_artifact sorts).    *)
(***************************************************************************)
LEMMA AscendingProperties ==
  ASSUME NEW S \in SUBSET Int, IsFiniteSet(S)
  PROVE  /\ Cardinality(S) \in Nat
         /\ Ascending(S) \in [1 .. Cardinality(S) -> S]
         /\ \A j, k \in 1 .. Cardinality(S) : j < k => Ascending(S)[j] < Ascending(S)[k]
         /\ \A x \in S : \E k \in 1 .. Cardinality(S) : Ascending(S)[k] = x
<1> DEFINE c == Cardinality(S)
           Place(x) == {y \in S : y <= x}
           rank == [x \in S |-> Cardinality(Place(x))]
<1>1. IsFiniteSet(S) /\ c \in Nat
  BY FS_CardinalityType
<1>0. S \subseteq Int
  OBVIOUS
<1>2. \A x \in S : /\ IsFiniteSet(Place(x)) /\ Cardinality(Place(x)) \in 1 .. c
  <2> TAKE x \in S
  <2>1. Place(x) \in SUBSET S /\ Place(x) # {}
    OBVIOUS
  <2>2. IsFiniteSet(Place(x)) /\ Cardinality(Place(x)) <= c
    BY <1>1, <2>1, FS_Subset
  <2>3. Cardinality(Place(x)) \in Nat /\ Cardinality(Place(x)) # 0
    BY <2>1, <2>2, FS_CardinalityType, FS_EmptySet
  <2> QED  BY <1>1, <2>2, <2>3
<1>3. \A x, y \in S : x < y => rank[x] < rank[y]
  <2> SUFFICES ASSUME NEW x \in S, NEW y \in S, x < y  PROVE rank[x] < rank[y]
    OBVIOUS
  <2>a. \A z \in S : z <= x => z <= y
    BY <1>0
  <2>b. y <= y /\ ~(y <= x)
    BY <1>0
  <2>1. Place(x) \in SUBSET Place(y) /\ y \in Place(y) /\ y \notin Place(x)
    BY <2>a, <2>b
  <2>2. /\ Cardinality(Place(x)) <= Cardinality(Place(y))
        /\ Cardinality(Place(x)) # Cardinality(Place(y))
    BY <1>2, <2>1, FS_Subset
  <2>3. rank[x] = Cardinality(Place(x)) /\ rank[y] = Cardinality(Place(y))
    OBVIOUS
  <2> HIDE DEF Place, rank
  <2> QED  BY <1>1, <1>2, <2>2, <2>3
<1>4. rank \in [S -> 1 .. c]
  BY <1>2
<1>a. \A x, y \in S : x = y \/ x < y \/ y < x
  OBVIOUS
<1> HIDE DEF rank, Place
<1>5. rank \in Surjection(S, 1 .. c)
  <2>1. \A x, y \in S : rank[x] = rank[y] => x = y
    BY <1>1, <1>3, <1>4, <1>a
  <2>2. rank \in Injection(S, 1 .. c)
    BY <1>4, <2>1 DEF Injection, IsInjective
  <2>3. IsFiniteSet(1 .. c) /\ Cardinality(1 .. c) = c
    BY <1>1, FS_Interval
  <2> QED  BY <2>2, <2>3, FS_Injection
<1> DEFINE s == [k \in 1 .. c |-> CHOOSE x \in S : rank[x] = k]
<1>6. \A k \in 1 .. c : s[k] \in S /\ rank[s[k]] = k
  BY <1>5 DEF Surjection
<1>7. s \in [1 .. c -> S]
  BY <1>6
<1>8. \A j, k \in DOMAIN s : j < k => s[j] < s[k]
  <2> SUFFICES ASSUME NEW j \in 1 .. c, NEW k \in 1 .. c, j < k  PROVE s[j] < s[k]
    OBVIOUS
  <2>1. rank[s[j]] = j /\ rank[s[k]] = k /\ s[j] \in S /\ s[k] \in S
    BY <1>6
  <2> HIDE DEF s
  <2>2. \A x, y \in S : rank[x] < rank[y] => x < y
    BY <1>1, <1>3, <1>4, <1>a
  <2>3. rank[s[j]] < rank[s[k]]
    BY <2>1
  <2> QED  BY <2>1, <2>2, <2>3
<1> HIDE DEF s
<1>9. /\ Ascending(S) \in [1 .. c -> S]
      /\ \A j, k \in DOMAIN Ascending(S) : j < k => Ascending(S)[j] < Ascending(S)[k]
  BY <1>7, <1>8 DEF Ascending
<1> DEFINE a == Ascending(S)
<1>10. a \in [1 .. c -> S] /\ \A j, k \in 1 .. c : j < k => a[j] < a[k]
  BY <1>9
<1> HIDE DEF a
<1>11. \A j, k \in 1 .. c : a[j] = a[k] => j = k
  <2> SUFFICES ASSUME NEW j \in 1 .. c, NEW k \in 1 .. c, a[j] = a[k], j # k  PROVE FALSE
    OBVIOUS
  <2>1. a[j] \in Int /\ a[k] \in Int /\ (j < k \/ k < j)
    <3>1. a[j] \in S /\ a[k] \in S
      BY <1>10
    <3>2. j < k \/ k < j
      BY <1>1
    <3> QED  BY <1>0, <3>1, <3>2
  <2>2. ASSUME j < k  PROVE FALSE
    <3>1. a[j] < a[k]
      BY <1>10, <2>2
    <3> QED  BY <2>1, <3>1
  <2>3. ASSUME k < j  PROVE FALSE
    <3>1. a[k] < a[j]
      BY <1>10, <2>3
    <3> QED  BY <2>1, <3>1
  <2> QED  BY <2>1, <2>2, <2>3
<1>12. a \in Injection(1 .. c, S)
  BY <1>10, <1>11 DEF Injection, IsInjective
<1>13. IsFiniteSet(1 .. c) /\ Cardinality(1 .. c) = c
  BY <1>1, FS_Interval
<1>14. a \in Surjection(1 .. c, S)
  BY <1>1, <1>12, <1>13, FS_Injection
<1>15. \A x \in S : \E k \in 1 .. c : a[k] = x
  BY <1>14 DEF Surjection
<1> QED  BY <1>1, <1>10, <1>15 DEF a

MetricsOf(e) == compute_endpoint_metrics(endpoint_aggregate(evidence[e]))

Entry(e) == endpoint_entry(e, MetricsOf(e))

ScoreOf(e) ==
  LET m == MetricsOf(e)
  IN  compute_endpoint_score(m, compute_stability_analysis(m), compute_burst_analysis(m),
                             compute_consistency_analysis(m))

LEMMA ObservedType ==
  ASSUME EvidenceType
  PROVE  /\ Observed(evidence) \in SUBSET Endpoints /\ IsFiniteSet(Observed(evidence))
         /\ Observed(evidence) \in SUBSET Int
         /\ \A e \in Endpoints : evidence[e] \in Bags /\ Results(e) \in Nat
         /\ \A e \in Observed(evidence) : Results(e) > 0
         /\ \A e \in Endpoints \ Observed(evidence) : Results(e) = 0
<1>1. DOMAIN evidence = Endpoints /\ \A e \in Endpoints : evidence[e] \in Bags
  BY DEF EvidenceType
<1>2. \A e \in Endpoints : Results(e) \in Nat
  BY <1>1, BagTotals DEF Results
<1>3. Observed(evidence) \in SUBSET Endpoints
  BY <1>1 DEF Observed
<1>4. IsFiniteSet(Observed(evidence)) /\ Observed(evidence) \in SUBSET Int
  <2>1. IsFiniteSet(Observed(evidence))
    BY <1>3, EndpointsType, FS_Subset
  <2> QED  BY <1>3, <2>1, EndpointsType
<1>5. \A e \in Endpoints : e \in Observed(evidence) <=> Results(e) > 0
  BY <1>1 DEF Observed, Results
<1>6. \A e \in Endpoints \ Observed(evidence) : Results(e) = 0
  BY <1>2, <1>5
<1> QED  BY <1>1, <1>2, <1>3, <1>4, <1>5, <1>6

(***************************************************************************)
(* The report has one section for every endpoint with results, in the      *)
(* order of their ids, and a score that is the mean of theirs.             *)
(***************************************************************************)
LEMMA ReportShape ==
  ASSUME EvidenceType
  PROVE  LET ids == Observed(evidence)
             order == Ascending(ids)
         IN  /\ report.endpoints = [i \in 1 .. Cardinality(ids) |-> Entry(order[i])]
             /\ Sections = {Entry(e) : e \in ids}
             /\ report.executive_summary.composite_score_value
                  = MeanOf([e \in ids |-> Entry(e).endpoint_score.composite])
             /\ report.executive_summary.score_label
                  = assign_score_label(report.executive_summary.composite_score_value)
             /\ report.executive_summary.endpoint_count = Cardinality(ids)
             /\ report.executive_summary.total_executions = aggregates.request_counts.total
<1> DEFINE ids == Observed(evidence)
           order == Ascending(ids)
           metrics == [e \in ids |-> compute_endpoint_metrics(aggregates.endpoints[e])]
           entries == [e \in ids |-> endpoint_entry(e, metrics[e])]
           scores == [e \in ids |-> entries[e].endpoint_score]
           artifact == assemble_artifact(aggregates)
<1>1. aggregates.endpoints = [e \in ids |-> endpoint_aggregate(evidence[e])]
  BY DEF aggregates, build_aggregates
<1>2. \A e \in ids : metrics[e] = MetricsOf(e) /\ entries[e] = Entry(e)
  BY <1>1 DEF MetricsOf, Entry
<1>3. DOMAIN aggregates.endpoints = ids
  BY <1>1
<1>4. /\ artifact.endpoints = [i \in DOMAIN order |-> entries[order[i]]]
      /\ artifact.composite_score
           = With(compute_audit_score(scores), "aggregate_set_hash", aggregates)
      /\ artifact.audit_reliability_summary = audit_reliability_summary(aggregates)
  BY <1>3 DEF assemble_artifact
<1> HIDE DEF scores, artifact
<1>5. report = build(artifact, "report")
  BY DEF report, artifact
<1>6. /\ report.endpoints = artifact.endpoints
      /\ report.executive_summary = executive_summary(artifact)
  BY <1>5 DEF build
<1>7. \A f \in {"value", "score_label", "endpoint_count"} :
        artifact.composite_score[f] = compute_audit_score(scores)[f]
  BY <1>4, Zenon DEF With, compute_audit_score
<1>8. DOMAIN scores = ids
  BY DEF scores
<1>9. /\ artifact.composite_score.value = MeanOf([e \in ids |-> scores[e].composite])
      /\ artifact.composite_score.endpoint_count = Cardinality(ids)
      /\ artifact.composite_score.score_label = assign_score_label(artifact.composite_score.value)
  BY <1>7, <1>8 DEF compute_audit_score
<1>10. artifact.audit_reliability_summary.total_executions = aggregates.request_counts.total
  BY <1>4 DEF audit_reliability_summary
<1>11. /\ report.executive_summary.composite_score_value = artifact.composite_score.value
       /\ report.executive_summary.score_label = artifact.composite_score.score_label
       /\ report.executive_summary.endpoint_count = artifact.composite_score.endpoint_count
       /\ report.executive_summary.total_executions
            = artifact.audit_reliability_summary.total_executions
  BY <1>6 DEF executive_summary
<1>12. \A e \in ids : scores[e].composite = Entry(e).endpoint_score.composite
  BY <1>2 DEF scores
<1>13. [e \in ids |-> scores[e].composite] = [e \in ids |-> Entry(e).endpoint_score.composite]
  BY <1>12
<1>14. /\ order \in [1 .. Cardinality(ids) -> ids]
       /\ \A e \in ids : \E i \in 1 .. Cardinality(ids) : order[i] = e
  BY ObservedType, AscendingProperties
<1> HIDE DEF order, entries
<1>15. report.endpoints = [i \in 1 .. Cardinality(ids) |-> Entry(order[i])]
  BY <1>2, <1>4, <1>6, <1>14
<1>16. Sections = {Entry(e) : e \in ids}
  BY <1>14, <1>15 DEF Sections, Range
<1> QED  BY <1>9, <1>10, <1>11, <1>13, <1>15, <1>16 DEF order

\* What the section of an endpoint holds.
LEMMA EntryFields ==
  ASSUME NEW e
  PROVE  LET s == Entry(e)
             m == MetricsOf(e)
             l == latency_summary(evidence[e])
         IN  /\ m.execution_count = Results(e)
             /\ m.pass_count = Total(evidence[e], Failing("PASS"))
             /\ m.timeout_count = Total(evidence[e], Failing("TIMEOUT"))
             /\ m.success_rate = Thousandths(m.pass_count, Results(e))
             /\ m.latency = l
             /\ s.endpoint_id = e
             /\ s.reliability_metrics.latency = l
             /\ s.reliability_metrics.execution_count = Results(e)
             /\ s.reliability_metrics.fail_count = Results(e) - m.pass_count
             /\ s.stability_analysis.label.success_rate = success_rate_stability_v1(m)
             /\ s.stability_analysis.label.latency = latency_stability_v1(m)
             /\ s.burst_analysis.label.failure = failure_burst_v1(m)
             /\ s.burst_analysis.label.spike = latency_spike_v1(m)
             /\ s.consistency_analysis.label = outcome_consistency_v1(m)
             /\ s.endpoint_score = With(ScoreOf(e), "score_derivation", "weights")
<1> DEFINE m == MetricsOf(e)
           a == endpoint_aggregate(evidence[e])
           s == Entry(e)
<1>1. /\ a.execution_count = Results(e) /\ a.denominator = Results(e)
      /\ a.numerator = Total(evidence[e], Failing("PASS"))
      /\ a.timeout_count = Total(evidence[e], Failing("TIMEOUT"))
      /\ a.latency = latency_summary(evidence[e])
  BY DEF endpoint_aggregate, request_counts, Results
<1> HIDE DEF a
<1>2. /\ m.execution_count = a.execution_count /\ m.pass_count = a.numerator
      /\ m.timeout_count = a.timeout_count /\ m.latency = a.latency
      /\ m.success_rate = Thousandths(a.numerator, a.denominator)
  BY DEF MetricsOf, compute_endpoint_metrics, a
<1> DEFINE score == With(ScoreOf(e), "score_derivation", "weights")
<1>3. s.endpoint_score = score
  BY DEF Entry, endpoint_entry, ScoreOf
<1> HIDE DEF m, score
<1>4. /\ s.endpoint_id = e
      /\ s.reliability_metrics.latency = m.latency
      /\ s.reliability_metrics.execution_count = m.execution_count
      /\ s.reliability_metrics.fail_count = m.execution_count - m.pass_count
      /\ s.stability_analysis.label = compute_stability_analysis(m)
      /\ s.burst_analysis.label = compute_burst_analysis(m)
      /\ s.consistency_analysis.label = compute_consistency_analysis(m)
  BY DEF Entry, endpoint_entry, m
<1> HIDE DEF s
<1>5. /\ s.stability_analysis.label.success_rate = success_rate_stability_v1(m)
      /\ s.stability_analysis.label.latency = latency_stability_v1(m)
      /\ s.burst_analysis.label.failure = failure_burst_v1(m)
      /\ s.burst_analysis.label.spike = latency_spike_v1(m)
      /\ s.consistency_analysis.label = outcome_consistency_v1(m)
  BY <1>4 DEF compute_stability_analysis, compute_burst_analysis, compute_consistency_analysis
<1> QED  BY <1>1, <1>2, <1>3, <1>4, <1>5 DEF m, s, score

-----------------------------------------------------------------------------
(***************************************************************************)
(* The properties                                                          *)
(***************************************************************************)

(***************************************************************************)
(* The percentiles of a report are the nearest-rank percentiles of the raw *)
(* durations, whatever their number: the definition of a rank, its         *)
(* rounding up and its clamp agree (aggregation/engine.py, _nearest_rank). *)
(***************************************************************************)
THEOREM PercentilesAreAlwaysRanks == Spec => []PercentilesAreRanks
<1>1. EvidenceType => PercentilesAreRanks
  <2> SUFFICES ASSUME EvidenceType, NEW s \in Sections,
                      s.reliability_metrics.latency.count > 0
               PROVE  LET l == s.reliability_metrics.latency
                          results == evidence[s.endpoint_id]
                      IN  /\ IsPercentile(results, l.p95, 95, l.count)
                          /\ IsPercentile(results, l.p99, 99, l.count)
                          /\ l.min <= l.median /\ l.median <= l.p95
                          /\ l.p95 <= l.p99 /\ l.p99 <= l.max
                          /\ l.min <= l.mean /\ l.mean <= l.max
    BY DEF PercentilesAreRanks
  <2>1. PICK e \in Observed(evidence) : s = Entry(e)
    BY ReportShape
  <2>2. s.endpoint_id = e /\ s.reliability_metrics.latency = latency_summary(evidence[e])
    BY <2>1, EntryFields
  <2>3. LatencyOf(evidence[e], latency_summary(evidence[e]))
    BY ObservedType, LatencySummary
  <2> QED  BY <2>2, <2>3 DEF LatencyOf
<1> QED  BY <1>1, EvidenceIsCounted, PTL

\* The passes and the timeouts of an endpoint are different results of it.
LEMMA OutcomesOf ==
  ASSUME NEW results \in Bags
  PROVE  LET total == Total(results, Outcomes)
             passed == Total(results, Failing("PASS"))
             timeouts == Total(results, Failing("TIMEOUT"))
         IN  /\ total \in Nat /\ passed \in Nat /\ timeouts \in Nat
             /\ passed + timeouts <= total
<1> DEFINE P == Failing("PASS")
           T == Failing("TIMEOUT")
<1>1. P \in SUBSET Outcomes /\ T \in SUBSET (Outcomes \ P) /\ T \in SUBSET Outcomes
  BY DEF Failing
<1> HIDE DEF P, T
<1>2. /\ Total(results, Outcomes) \in Nat /\ Total(results, P) \in Nat
      /\ Total(results, T) \in Nat /\ Total(results, Outcomes \ P) \in Nat
      /\ Total(results, Outcomes) = Total(results, P) + Total(results, Outcomes \ P)
  BY <1>1, BagTotals
<1>3. Total(results, T) <= Total(results, Outcomes \ P)
  <2>1. Outcomes \ P \in SUBSET Outcomes
    OBVIOUS
  <2> QED  BY <1>1, <2>1, BagTotals
<1>4. Total(results, P) + Total(results, T) <= Total(results, Outcomes)
  BY <1>2, <1>3
<1> QED  BY <1>2, <1>4 DEF P, T

\* A proportion is between none and all, in thousandths.
LEMMA ProportionType ==
  ASSUME NEW n \in Nat, NEW d \in Nat \ {0}, n <= d
  PROVE  Thousandths(n, d) \in 0 .. 1000
<1>1. 1000 * n \in Nat /\ 0 * d <= 1000 * n /\ 1000 * n <= 1000 * d
  OBVIOUS
<1>2. HalfUp(1000 * n, d) \in Nat /\ HalfUp(1000 * n, d) <= 1000
  BY <1>1, HalfUpBetween, HalfUpBounds
<1> QED  BY <1>2 DEF Thousandths

\* The numbers an endpoint's labels are computed from.
LEMMA MetricsType ==
  ASSUME EvidenceType, NEW e \in Observed(evidence)
  PROVE  LET m == MetricsOf(e)
         IN  /\ m.execution_count \in Nat \ {0} /\ m.execution_count = Results(e)
             /\ m.pass_count \in Nat /\ m.timeout_count \in Nat
             /\ m.pass_count + m.timeout_count <= m.execution_count
             /\ m.success_rate \in 0 .. 1000
             /\ m.success_rate = Thousandths(m.pass_count, m.execution_count)
             /\ LatencyOf(evidence[e], m.latency)
<1>1. evidence[e] \in Bags /\ Results(e) \in Nat \ {0}
  BY ObservedType
<1> DEFINE m == MetricsOf(e)
<1>2. /\ m.execution_count = Results(e)
      /\ m.pass_count = Total(evidence[e], Failing("PASS"))
      /\ m.timeout_count = Total(evidence[e], Failing("TIMEOUT"))
      /\ m.success_rate = Thousandths(m.pass_count, m.execution_count)
      /\ m.latency = latency_summary(evidence[e])
  BY EntryFields
<1> HIDE DEF m
<1>3. /\ m.pass_count \in Nat /\ m.timeout_count \in Nat
      /\ m.pass_count + m.timeout_count <= m.execution_count
  BY <1>1, <1>2, OutcomesOf DEF Results
<1>4. m.pass_count <= m.execution_count
  BY <1>1, <1>2, <1>3
<1>5. m.success_rate \in 0 .. 1000
  <2>1. m.pass_count \in Nat /\ m.execution_count \in Nat \ {0}
    BY <1>1, <1>2, <1>3
  <2>2. Thousandths(m.pass_count, m.execution_count) \in 0 .. 1000
    BY <1>4, <2>1, ProportionType
  <2> QED  BY <1>2, <2>2
<1>6. LatencyOf(evidence[e], m.latency)
  BY <1>1, <1>2, LatencySummary
<1> QED  BY <1>1, <1>2, <1>3, <1>5, <1>6 DEF m

(***************************************************************************)
(* The three analyses of an endpoint agree: each threshold follows from    *)
(* the other ones (stability.py, burst.py, consistency.py).                *)
(***************************************************************************)
THEOREM LabelsAlwaysAgree == Spec => []LabelsAgree
<1>1. EvidenceType => LabelsAgree
  <2> SUFFICES ASSUME EvidenceType, NEW s \in Sections
               PROVE  LET stability == s.stability_analysis.label
                          burst == s.burst_analysis.label
                      IN  /\ stability.success_rate = "STABLE"
                               => s.consistency_analysis.label = "CONSISTENT"
                          /\ burst.failure = "BURST_SUSPECTED"
                               => stability.success_rate = "DEGRADED"
                          /\ burst.spike = "SPIKE_SUSPECTED"
                               /\ s.reliability_metrics.latency.p95 > 0
                               => stability.latency = "DEGRADED"
    BY DEF LabelsAgree
  <2>1. PICK e \in Observed(evidence) : s = Entry(e)
    BY ReportShape
  <2> DEFINE m == MetricsOf(e)
             n == m.execution_count
             l == m.latency
  <2>2. /\ s.stability_analysis.label.success_rate = success_rate_stability_v1(m)
        /\ s.stability_analysis.label.latency = latency_stability_v1(m)
        /\ s.burst_analysis.label.failure = failure_burst_v1(m)
        /\ s.burst_analysis.label.spike = latency_spike_v1(m)
        /\ s.consistency_analysis.label = outcome_consistency_v1(m)
        /\ s.reliability_metrics.latency = l
    BY <2>1, EntryFields
  <2>3. /\ n \in Nat \ {0} /\ m.pass_count \in Nat /\ m.timeout_count \in Nat
        /\ m.pass_count + m.timeout_count <= n
        /\ m.success_rate \in 0 .. 1000
        /\ m.success_rate = Thousandths(m.pass_count, n)
        /\ LatencyOf(evidence[e], l)
    BY MetricsType
  <2> HIDE DEF m
  <2>4. ASSUME success_rate_stability_v1(m) = "STABLE"
        PROVE  outcome_consistency_v1(m) = "CONSISTENT"
    <3>1. n >= 10 /\ m.success_rate >= 950
      BY <2>3, <2>4 DEF success_rate_stability_v1, MIN_EXECUTION_COUNT, STABLE_THRESHOLD
    <3>2. m.success_rate * (1000 - m.success_rate) <= 50000
      <4> DEFINE r == m.success_rate
                 q == 1000 - r
      <4>1. r \in Nat /\ q \in Nat /\ r <= 1000 /\ q <= 50
        BY <2>3, <3>1
      <4> HIDE DEF r, q
      <4>2. r * q <= 1000 * q /\ 1000 * q <= 50000
        BY <4>1
      <4>3. r * q \in Nat
        BY <4>1
      <4>4. r * q <= 50000
        BY <4>1, <4>2, <4>3
      <4> QED  BY <4>4 DEF r, q
    <3> QED  BY <3>1, <3>2, <2>3 DEF outcome_consistency_v1, OutcomeVariance,
                 VARIANCE_CONSISTENT_THRESHOLD, MIN_EXECUTION_COUNT
  <2>5. ASSUME failure_burst_v1(m) = "BURST_SUSPECTED"
        PROVE  success_rate_stability_v1(m) = "DEGRADED"
    <3>1. n >= 10 /\ 5 * m.timeout_count > n
      BY <2>3, <2>5 DEF failure_burst_v1, MIN_EXECUTION_COUNT, TIMEOUT_BURST_DIVISOR
    <3>2. /\ 1000 * m.pass_count \in Nat /\ 1000 * m.pass_count <= 800 * n
          /\ 0 * n <= 1000 * m.pass_count
      BY <2>3, <3>1
    <3>3. m.success_rate <= 800
      BY <2>3, <3>2, HalfUpBetween DEF Thousandths
    <3> QED  BY <2>3, <3>1, <3>3
             DEF success_rate_stability_v1, MIN_EXECUTION_COUNT, STABLE_THRESHOLD
  <2>6. ASSUME latency_spike_v1(m) = "SPIKE_SUSPECTED", l.p95 > 0
        PROVE  latency_stability_v1(m) = "DEGRADED"
    <3>1. /\ l.count \in Nat /\ l.p95 \in Nat /\ l.p99 \in Nat /\ l.max \in Nat
          /\ l.count > 0 => l.p95 <= l.p99
      BY <2>3 DEF LatencyOf
    <3>2. ~ (l.count < 5) /\ l.max > 3 * l.p99
      BY <2>6, <3>1 DEF latency_spike_v1, MIN_LATENCY_COUNT, MAX_P99_RATIO_THRESHOLD
    <3>3. l.max > 2 * l.p95
      BY <2>6, <3>1, <3>2
    <3> QED  BY <2>6, <3>2, <3>3
             DEF latency_stability_v1, MIN_LATENCY_COUNT, MAX_P95_RATIO_THRESHOLD
  <2> QED  BY <2>2, <2>4, <2>5, <2>6
<1> QED  BY <1>1, EvidenceIsCounted, PTL

-----------------------------------------------------------------------------
(***************************************************************************)
(* The audit as the sum of its endpoints                                   *)
(***************************************************************************)

\* The sum of two functions.
LEMMA TotalSum ==
  ASSUME NEW f, NEW g, NEW h, NEW S, IsFiniteSet(S),
         \A x \in S : f[x] \in Nat /\ g[x] \in Nat /\ h[x] = f[x] + g[x]
  PROVE  Total(h, S) = Total(f, S) + Total(g, S)
<1> DEFINE X == {s \in SUBSET S : Total(h, s) # Total(f, s) + Total(g, s)}
<1>1. ASSUME X # {}  PROVE FALSE
  <2>1. PICK s \in X : IsFiniteSet(s) /\ \A x \in s : s \ {x} \notin X
    BY <1>1, MinimalSet
  <2>2. s # {}
    <3> SUFFICES ASSUME s = {}  PROVE FALSE
      OBVIOUS
    <3>1. Total(f, s) = 0 /\ Total(g, s) = 0 /\ Total(h, s) = 0
      BY TotalEmpty
    <3> QED  BY <2>1, <3>1
  <2> DEFINE p == Pick(s)
             r == s \ {p}
  <2>3. /\ p \in s /\ Total(f, s) = f[p] + Total(f, r)
        /\ Total(g, s) = g[p] + Total(g, r) /\ Total(h, s) = h[p] + Total(h, r)
    BY <2>1, <2>2, PickType, TotalPick
  <2>4. r \in SUBSET S /\ r \notin X
    BY <2>1, <2>3
  <2> HIDE DEF p, r
  <2>5. Total(h, r) = Total(f, r) + Total(g, r)
    BY <2>4
  <2>6. Total(f, r) \in Nat /\ Total(g, r) \in Nat
    BY <2>4, FS_Subset, TotalType
  <2>7. f[p] \in Nat /\ g[p] \in Nat /\ h[p] = f[p] + g[p]
    BY <2>1, <2>3
  <2>8. Total(h, s) = Total(f, s) + Total(g, s)
    BY <2>3, <2>5, <2>6, <2>7
  <2> QED  BY <2>1, <2>8
<1> QED  BY <1>1

\* The sums of a table, by columns and by rows.
ByColumns(h, A, B) == Total([b \in B |-> Total([a \in A |-> h[a][b]], A)], B)
ByRows(h, A, B) == Total([a \in A |-> Total(h[a], B)], A)

LEMMA TotalExchange ==
  ASSUME NEW A, IsFiniteSet(A), NEW B, IsFiniteSet(B), NEW h,
         \A a \in A, b \in B : h[a][b] \in Nat
  PROVE  ByColumns(h, A, B) = ByRows(h, A, B)
<1> DEFINE rows == [a \in A |-> Total(h[a], B)]
           col(b) == [a \in A |-> h[a][b]]
           part(s) == [b \in B |-> Total(col(b), s)]
           X == {s \in SUBSET A : Total(part(s), B) # Total(rows, s)}
<1>0. \A s \in SUBSET A : IsFiniteSet(s)
  BY FS_Subset
<1>1. ASSUME NEW s \in SUBSET A, NEW b \in B  PROVE Total(col(b), s) \in Nat
  <2>1. \A a \in s : col(b)[a] \in Nat
    OBVIOUS
  <2> HIDE DEF col
  <2> QED  BY <1>0, <2>1, TotalType
<1>2. ASSUME X # {}  PROVE FALSE
  <2>1. PICK s \in X : IsFiniteSet(s) /\ \A x \in s : s \ {x} \notin X
    BY <1>2, MinimalSet
  <2>2. s # {}
    <3> SUFFICES ASSUME s = {}  PROVE FALSE
      OBVIOUS
    <3>1. \A b \in B : part(s)[b] = 0
      BY TotalEmpty
    <3> HIDE DEF part
    <3>2. Total(part(s), B) = 0
      BY <3>1, TotalZero
    <3>3. Total(rows, s) = 0
      BY TotalEmpty
    <3> QED  BY <2>1, <3>2, <3>3
  <2> DEFINE p == Pick(s)
             r == s \ {p}
  <2>3. p \in s /\ Total(rows, s) = rows[p] + Total(rows, r)
    BY <2>1, <2>2, PickType, TotalPick
  <2>4. p \in A /\ r \in SUBSET A /\ r \notin X /\ s \in SUBSET A
    BY <2>1, <2>3
  <2>5. \A b \in B : Total(col(b), s) = col(b)[p] + Total(col(b), r)
    BY <2>1, <2>2, TotalPick
  <2> HIDE DEF p, r
  <2>6. \A b \in B : /\ part(s)[b] = h[p][b] + part(r)[b]
                     /\ h[p][b] \in Nat /\ part(r)[b] \in Nat
    BY <1>1, <2>4, <2>5
  <2>7. Total(part(r), B) = Total(rows, r)
    BY <2>4
  <2> HIDE DEF part
  <2>8. Total(part(s), B) = Total(h[p], B) + Total(part(r), B)
    BY <2>6, TotalSum
  <2>9. rows[p] = Total(h[p], B)
    BY <2>4
  <2> HIDE DEF rows
  <2> QED  BY <2>1, <2>3, <2>7, <2>8, <2>9
<1>3. Total(part(A), B) = Total(rows, A)
  BY <1>2
<1> QED  BY <1>3 DEF ByColumns, ByRows

LEMMA AllResultsType ==
  ASSUME EvidenceType
  PROVE  AllResults(evidence) \in Bags
<1>1. DOMAIN evidence = Endpoints
  BY DEF EvidenceType
<1>2. ASSUME NEW o \in Outcomes
      PROVE  Total([e \in Endpoints |-> evidence[e][o]], Endpoints) \in Nat
  <2> DEFINE f == [e \in Endpoints |-> evidence[e][o]]
  <2>1. \A e \in Endpoints : f[e] \in Nat
    BY DEF EvidenceType, Bags
  <2> HIDE DEF f
  <2>2. Total(f, Endpoints) \in Nat
    BY <2>1, EndpointsType, TotalType
  <2> QED  BY <2>2 DEF f
<1> QED  BY <1>1, <1>2 DEF AllResults, Bags

\* The results of some kinds are, all together, those of the endpoints.
LEMMA AllResultsTotal ==
  ASSUME EvidenceType, NEW P \in SUBSET Outcomes
  PROVE  /\ \A e \in Endpoints : Total(evidence[e], P) \in Nat
         /\ Total(AllResults(evidence), P)
              = Total([e \in Endpoints |-> Total(evidence[e], P)], Endpoints)
<1>1. DOMAIN evidence = Endpoints /\ IsFiniteSet(P)
  <2>1. IsFiniteSet(P)
    BY OutcomesType, FS_Subset
  <2> QED  BY <2>1 DEF EvidenceType
<1>2. \A e \in Endpoints, o \in P : evidence[e][o] \in Nat
  BY DEF EvidenceType, Bags
<1>3. \A e \in Endpoints : Total(evidence[e], P) \in Nat
  BY BagTotals DEF EvidenceType
<1> DEFINE column == [o \in P |-> Total([e \in Endpoints |-> evidence[e][o]], Endpoints)]
           row == [e \in Endpoints |-> Total(evidence[e], P)]
<1>4. Total(column, P) = Total(row, Endpoints)
  <2>1. ByColumns(evidence, Endpoints, P) = ByRows(evidence, Endpoints, P)
    BY <1>1, <1>2, EndpointsType, TotalExchange
  <2> QED  BY <2>1 DEF ByColumns, ByRows
<1>5. \A o \in P : column[o] = AllResults(evidence)[o]
  BY <1>1 DEF AllResults
<1> HIDE DEF column
<1>6. Total(column, P) = Total(AllResults(evidence), P)
  BY <1>1, <1>5, TotalCong
<1> QED  BY <1>3, <1>4, <1>6

\* An audit has results of some kinds only if an endpoint has.
LEMMA NoneOfKind ==
  ASSUME EvidenceType, NEW P \in SUBSET Outcomes, Total(AllResults(evidence), P) = 0,
         NEW e \in Endpoints
  PROVE  Total(evidence[e], P) = 0
<1> DEFINE f == [d \in Endpoints |-> Total(evidence[d], P)]
<1>1. Total(f, Endpoints) = 0 /\ \A d \in Endpoints : f[d] \in Nat
  BY AllResultsTotal
<1> HIDE DEF f
<1>2. f[e] = 0
  BY <1>1, EndpointsType, TotalZero
<1> QED  BY <1>2 DEF f

LEMMA AggregateCounts ==
  /\ aggregates.request_counts.total = Total(AllResults(evidence), Outcomes)
  /\ aggregates.request_counts.successful = Total(AllResults(evidence), Failing("PASS"))
BY DEF aggregates, build_aggregates, request_counts

-----------------------------------------------------------------------------
(***************************************************************************)
(* The score                                                               *)
(***************************************************************************)

\* The labels of an analysis are worth 0, 500 or 1000.
LEMMA LabelScores ==
  ASSUME EvidenceType, NEW e \in Observed(evidence)
  PROVE  LET m == MetricsOf(e)
         IN  /\ LABEL_TO_SCORE(success_rate_stability_v1(m))
                  = IF Results(e) < 10 THEN 500 ELSE IF m.success_rate >= 950 THEN 1000 ELSE 0
             /\ LABEL_TO_SCORE(latency_stability_v1(m))
                  \in IF m.latency.count < 5 THEN {500} ELSE {0, 1000}
             /\ LABEL_TO_SCORE(failure_burst_v1(m))
                  = IF Results(e) < 10 THEN 500
                    ELSE IF 5 * m.timeout_count > Results(e) THEN 0 ELSE 1000
             /\ LABEL_TO_SCORE(latency_spike_v1(m)) \in
                  IF m.latency.count < 5 THEN {500} ELSE {0, 500, 1000}
             /\ LABEL_TO_SCORE(outcome_consistency_v1(m))
                  = IF Results(e) < 10 THEN 500 ELSE IF OutcomeVariance(m) <= 50000 THEN 1000 ELSE 0
<1> DEFINE m == MetricsOf(e)
<1>1. /\ LABEL_TO_SCORE("STABLE") = 1000 /\ LABEL_TO_SCORE("CONSISTENT") = 1000
      /\ LABEL_TO_SCORE("NO_BURST_DETECTED") = 1000
      /\ LABEL_TO_SCORE("NO_SPIKE_DETECTED") = 1000
      /\ LABEL_TO_SCORE("DEGRADED") = 0 /\ LABEL_TO_SCORE("INCONSISTENT") = 0
      /\ LABEL_TO_SCORE("BURST_SUSPECTED") = 0 /\ LABEL_TO_SCORE("SPIKE_SUSPECTED") = 0
      /\ LABEL_TO_SCORE("INSUFFICIENT_DATA") = 500
  BY DEF LABEL_TO_SCORE
<1>2. m.execution_count = Results(e) /\ Results(e) \in Nat
  BY MetricsType
<1> HIDE DEF m
<1>3. success_rate_stability_v1(m)
        = IF Results(e) < 10 THEN "INSUFFICIENT_DATA"
          ELSE IF m.success_rate >= 950 THEN "STABLE" ELSE "DEGRADED"
  BY <1>2 DEF success_rate_stability_v1, MIN_EXECUTION_COUNT, STABLE_THRESHOLD
<1>4. failure_burst_v1(m)
        = IF Results(e) < 10 THEN "INSUFFICIENT_DATA"
          ELSE IF 5 * m.timeout_count > Results(e) THEN "BURST_SUSPECTED" ELSE "NO_BURST_DETECTED"
  BY <1>2 DEF failure_burst_v1, MIN_EXECUTION_COUNT, TIMEOUT_BURST_DIVISOR
<1>5. outcome_consistency_v1(m)
        = IF Results(e) < 10 THEN "INSUFFICIENT_DATA"
          ELSE IF OutcomeVariance(m) <= 50000 THEN "CONSISTENT" ELSE "INCONSISTENT"
  BY <1>2 DEF outcome_consistency_v1, MIN_EXECUTION_COUNT, VARIANCE_CONSISTENT_THRESHOLD
<1>6. latency_stability_v1(m) \in IF m.latency.count < 5 THEN {"INSUFFICIENT_DATA"}
                                  ELSE {"DEGRADED", "STABLE"}
  BY DEF latency_stability_v1, MIN_LATENCY_COUNT
<1>7. latency_spike_v1(m) \in IF m.latency.count < 5 THEN {"INSUFFICIENT_DATA"}
                              ELSE {"INSUFFICIENT_DATA", "SPIKE_SUSPECTED", "NO_SPIKE_DETECTED"}
  BY DEF latency_spike_v1, MIN_LATENCY_COUNT
<1>8. LABEL_TO_SCORE(latency_stability_v1(m))
        \in IF m.latency.count < 5 THEN {500} ELSE {0, 1000}
  BY <1>1, <1>6
<1>9. LABEL_TO_SCORE(latency_spike_v1(m)) \in
        IF m.latency.count < 5 THEN {500} ELSE {0, 500, 1000}
  BY <1>1, <1>7
<1> QED  BY <1>1, <1>3, <1>4, <1>5, <1>8, <1>9 DEF m

\* The score of an endpoint, from what its labels are worth.
LEMMA EndpointScore ==
  ASSUME EvidenceType, NEW e \in Observed(evidence)
  PROVE  LET m == MetricsOf(e)
             sr == LABEL_TO_SCORE(success_rate_stability_v1(m))
             sl == LABEL_TO_SCORE(latency_stability_v1(m))
             bf == LABEL_TO_SCORE(failure_burst_v1(m))
             bs == LABEL_TO_SCORE(latency_spike_v1(m))
             c == LABEL_TO_SCORE(outcome_consistency_v1(m))
             s == HalfUp(sr + sl, 2)
             b == HalfUp(bf + bs, 2)
         IN  /\ sr \in {0, 500, 1000} /\ sl \in {0, 500, 1000} /\ bf \in {0, 500, 1000}
             /\ bs \in {0, 500, 1000} /\ c \in {0, 500, 1000}
             /\ s \in 0 .. 1000 /\ b \in 0 .. 1000 /\ 2 * s = sr + sl /\ 2 * b = bf + bs
             /\ ScoreOf(e)
                  = [composite |-> HalfUp(50 * m.success_rate + 20 * s + 15 * b + 15 * c, 100),
                     reliability |-> m.success_rate, stability |-> s, burst |-> b,
                     consistency |-> c]
<1> DEFINE m == MetricsOf(e)
           sr == LABEL_TO_SCORE(success_rate_stability_v1(m))
           sl == LABEL_TO_SCORE(latency_stability_v1(m))
           bf == LABEL_TO_SCORE(failure_burst_v1(m))
           bs == LABEL_TO_SCORE(latency_spike_v1(m))
           c == LABEL_TO_SCORE(outcome_consistency_v1(m))
           s == HalfUp(sr + sl, 2)
           b == HalfUp(bf + bs, 2)
<1>1. /\ sr \in {0, 500, 1000} /\ sl \in {0, 500, 1000} /\ bf \in {0, 500, 1000}
      /\ bs \in {0, 500, 1000} /\ c \in {0, 500, 1000}
  BY LabelScores
<1>2. /\ stability_score(compute_stability_analysis(m)) = s
      /\ burst_score(compute_burst_analysis(m)) = b
      /\ consistency_score(compute_consistency_analysis(m)) = c
  BY DEF stability_score, burst_score, consistency_score, compute_stability_analysis,
         compute_burst_analysis, compute_consistency_analysis
<1> HIDE DEF m, sr, sl, bf, bs, c
<1>3. s \in 0 .. 1000 /\ b \in 0 .. 1000 /\ 2 * s = sr + sl /\ 2 * b = bf + bs
  BY <1>1 DEF HalfUp
<1> HIDE DEF s, b
<1>4. ScoreOf(e)
        = [composite |-> HalfUp(50 * m.success_rate + 20 * s + 15 * b + 15 * c, 100),
           reliability |-> m.success_rate, stability |-> s, burst |-> b, consistency |-> c]
  BY <1>2, Zenon DEF ScoreOf, compute_endpoint_score, m
<1> QED  BY <1>1, <1>3, <1>4 DEF m, sr, sl, bf, bs, c, s, b

Composite(r, s, b, c) == HalfUp(50 * r + 20 * s + 15 * b + 15 * c, 100)

\* A composite is a rounded mean of numbers up to 1000.
CompositeWithin(r, s, b, c) ==
  /\ Composite(r, s, b, c) \in 0 .. 1000
  /\ r = 0 /\ s <= 750 => Composite(r, s, b, c) <= 450
  /\ r = 1000 /\ s >= 500 /\ b >= 500 /\ c = 1000 => 825 <= Composite(r, s, b, c)
  /\ s = 500 /\ b = 500 /\ c = 500 => Composite(r, s, b, c) <= 750

LEMMA CompositeBounds ==
  ASSUME NEW r \in Nat, NEW s \in Nat, NEW b \in Nat, NEW c \in Nat,
         r <= 1000, s <= 1000, b <= 1000, c <= 1000
  PROVE  CompositeWithin(r, s, b, c)
BY DEF CompositeWithin, Composite, HalfUp

\* The mean of numbers lies between the bounds of the numbers.
LEMMA MeanBounds ==
  ASSUME NEW S, IsFiniteSet(S), S # {}, NEW values, DOMAIN values = S,
         NEW a \in Nat, NEW b \in Nat,
         \A x \in S : values[x] \in Nat /\ a <= values[x] /\ values[x] <= b
  PROVE  MeanOf(values) \in Nat /\ a <= MeanOf(values) /\ MeanOf(values) <= b
<1> DEFINE n == Cardinality(S)
           sum == Total(values, S)
           low == [x \in S |-> a]
           high == [x \in S |-> b]
<1>1. n \in Nat \ {0}
  BY FS_CardinalityType, FS_EmptySet
<1>2. Total(low, S) = a * n /\ Total(high, S) = b * n
  <2>1. \A x \in S : low[x] = a /\ high[x] = b
    OBVIOUS
  <2> HIDE DEF low, high
  <2> QED  BY <2>1, TotalConstant
<1>3. Total(low, S) <= sum /\ sum <= Total(high, S) /\ sum \in Nat
  <2>1. \A x \in S : low[x] = a /\ high[x] = b
    OBVIOUS
  <2> HIDE DEF low, high
  <2> QED  BY <2>1, TotalMonotone, TotalType
<1> HIDE DEF low, high, n, sum
<1>4. HalfUp(sum, n) \in Nat /\ a <= HalfUp(sum, n) /\ HalfUp(sum, n) <= b
  BY <1>1, <1>2, <1>3, HalfUpBetween, HalfUpBounds
<1>5. MeanOf(values) = HalfUp(sum, n)
  BY DEF MeanOf, sum, n
<1> QED  BY <1>4, <1>5

\* The composite of a section is that of its endpoint.
LEMMA EntryComposite ==
  ASSUME NEW e
  PROVE  Entry(e).endpoint_score.composite = ScoreOf(e).composite
<1>1. "composite" \in DOMAIN ScoreOf(e)
  BY DEF ScoreOf, compute_endpoint_score
<1>2. With(ScoreOf(e), "score_derivation", "weights")["composite"] = ScoreOf(e)["composite"]
  BY <1>1 DEF With
<1> QED  BY <1>2, EntryFields

\* What the score of an endpoint is when its results all go one way.
LEMMA ScoreByOutcome ==
  ASSUME EvidenceType, NEW e \in Observed(evidence)
  PROVE  LET x == ScoreOf(e).composite
             passed == Total(evidence[e], Failing("PASS"))
         IN  /\ x \in 0 .. 1000
             /\ passed = 0 => x <= 450
             /\ passed = Results(e) /\ Results(e) >= 10 => 825 <= x
             /\ Results(e) < 5 => x <= 750
<1> DEFINE m == MetricsOf(e)
           r == m.success_rate
           sr == LABEL_TO_SCORE(success_rate_stability_v1(m))
           sl == LABEL_TO_SCORE(latency_stability_v1(m))
           bf == LABEL_TO_SCORE(failure_burst_v1(m))
           bs == LABEL_TO_SCORE(latency_spike_v1(m))
           c == LABEL_TO_SCORE(outcome_consistency_v1(m))
           s == HalfUp(sr + sl, 2)
           b == HalfUp(bf + bs, 2)
           n == Results(e)
           passed == Total(evidence[e], Failing("PASS"))
<1>1. /\ m.execution_count = n /\ n \in Nat \ {0} /\ m.pass_count = passed
      /\ m.pass_count \in Nat /\ m.timeout_count \in Nat
      /\ m.pass_count + m.timeout_count <= n
      /\ r \in 0 .. 1000 /\ r = Thousandths(passed, n)
      /\ LatencyOf(evidence[e], m.latency)
  BY MetricsType, EntryFields
<1>2. /\ sr \in {0, 500, 1000} /\ sl \in {0, 500, 1000} /\ bf \in {0, 500, 1000}
      /\ bs \in {0, 500, 1000} /\ c \in {0, 500, 1000}
      /\ s \in 0 .. 1000 /\ b \in 0 .. 1000 /\ 2 * s = sr + sl /\ 2 * b = bf + bs
      /\ ScoreOf(e) = [composite |-> HalfUp(50 * r + 20 * s + 15 * b + 15 * c, 100),
                       reliability |-> r, stability |-> s, burst |-> b, consistency |-> c]
  BY EndpointScore
<1>3. /\ sr = IF n < 10 THEN 500 ELSE IF r >= 950 THEN 1000 ELSE 0
      /\ sl \in IF m.latency.count < 5 THEN {500} ELSE {0, 1000}
      /\ bf = IF n < 10 THEN 500 ELSE IF 5 * m.timeout_count > n THEN 0 ELSE 1000
      /\ bs \in IF m.latency.count < 5 THEN {500} ELSE {0, 500, 1000}
      /\ c = IF n < 10 THEN 500 ELSE IF OutcomeVariance(m) <= 50000 THEN 1000 ELSE 0
  BY LabelScores
<1>4. OutcomeVariance(m) = r * (1000 - r)
  BY DEF OutcomeVariance
<1>5. m.latency.count \in Nat /\ m.latency.count <= n
  <2>1. m.latency.count = Total(evidence[e], Timed)
    BY <1>1 DEF LatencyOf
  <2>2. evidence[e] \in Bags /\ Outcomes \in SUBSET Outcomes
    BY ObservedType
  <2>3. n = Total(evidence[e], Outcomes)
    BY DEF Results
  <2> HIDE DEF m, n
  <2>4. Timed \in SUBSET Outcomes
    BY TimedType
  <2>5. /\ Total(evidence[e], Timed) \in Nat
        /\ Total(evidence[e], Timed) <= Total(evidence[e], Outcomes)
    BY <2>2, <2>4, BagTotals
  <2> QED  BY <2>1, <2>3, <2>5
<1> HIDE DEF m, r, sr, sl, bf, bs, c, s, b, n, passed
<1>a. /\ r \in Nat /\ s \in Nat /\ b \in Nat /\ c \in Nat
      /\ r <= 1000 /\ s <= 1000 /\ b <= 1000 /\ c <= 1000
  <2>1. r \in 0 .. 1000
    BY <1>1
  <2>2. s \in 0 .. 1000 /\ b \in 0 .. 1000 /\ c \in {0, 500, 1000}
    BY <1>2
  <2> QED  BY <2>1, <2>2
<1>b. CompositeWithin(r, s, b, c)
  BY <1>a, CompositeBounds
<1> DEFINE x == Composite(r, s, b, c)
<1>6. /\ x \in 0 .. 1000
      /\ r = 0 /\ s <= 750 => x <= 450
      /\ r = 1000 /\ s >= 500 /\ b >= 500 /\ c = 1000 => 825 <= x
      /\ s = 500 /\ b = 500 /\ c = 500 => x <= 750
  BY <1>b DEF CompositeWithin
<1>7. ScoreOf(e).composite = x
  BY <1>2 DEF Composite
<1> HIDE DEF x
<1>8. ASSUME passed = 0  PROVE x <= 450
  <2>1. 1000 * passed \in Nat /\ 0 * n <= 1000 * passed /\ 1000 * passed <= 0 * n
    BY <1>1, <1>8
  <2>2. r = 0
    BY <1>1, <2>1, HalfUpBetween DEF Thousandths
  <2>3. sr <= 500
    BY <1>1, <1>3, <2>2
  <2>4. s <= 750
    BY <1>2, <2>3
  <2> QED  BY <1>6, <2>2, <2>4
<1>9. ASSUME passed = n, n >= 10  PROVE 825 <= x
  <2>1. 1000 * passed \in Nat /\ 1000 * n <= 1000 * passed /\ 1000 * passed <= 1000 * n
    BY <1>1, <1>9
  <2>2. r = 1000
    BY <1>1, <2>1, HalfUpBetween DEF Thousandths
  <2>3. m.timeout_count = 0
    BY <1>1, <1>9
  <2>4. sr = 1000 /\ bf = 1000
    BY <1>1, <1>3, <1>9, <2>2, <2>3
  <2>5. c = 1000
    BY <1>1, <1>3, <1>4, <1>9, <2>2
  <2>6. s >= 500 /\ b >= 500
    BY <1>2, <2>4
  <2> QED  BY <1>6, <2>2, <2>5, <2>6
<1>10. ASSUME n < 5  PROVE x <= 750
  <2>1. m.latency.count < 5 /\ n < 10
    BY <1>1, <1>5, <1>10
  <2>2. sr = 500 /\ sl = 500 /\ bf = 500 /\ bs = 500 /\ c = 500
    BY <1>3, <2>1
  <2>3. s = 500 /\ b = 500
    BY <1>2, <2>2
  <2> QED  BY <1>6, <2>2, <2>3
<1> QED  BY <1>6, <1>7, <1>8, <1>9, <1>10 DEF n, passed

(***************************************************************************)
(* The score of the audit follows what happened, whatever the numbers of   *)
(* endpoints and results (compute_endpoint_score, compute_audit_score).    *)
(***************************************************************************)
THEOREM ScoreAlwaysFollowsOutcome == Spec => []ScoreFollowsOutcome
<1>1. EvidenceType => ScoreFollowsOutcome
  <2> DEFINE ids == Observed(evidence)
             composites == [e \in ids |-> Entry(e).endpoint_score.composite]
             value == report.executive_summary.composite_score_value
             passed == aggregates.request_counts.successful
             P == Failing("PASS")
  <2> SUFFICES ASSUME EvidenceType, ids # {}
               PROVE  LET label == report.executive_summary.score_label
                      IN  /\ passed = 0 => label = "LOW_CONFIDENCE"
                          /\ ( /\ passed = aggregates.request_counts.total
                               /\ \A e \in ids : Results(e) >= MIN_EXECUTION_COUNT )
                               => label = "HIGH_CONFIDENCE"
                          /\ (\A e \in ids : Results(e) < MIN_LATENCY_COUNT)
                               => label # "HIGH_CONFIDENCE"
    BY DEF ScoreFollowsOutcome
  <2>1. /\ value = MeanOf(composites)
        /\ report.executive_summary.score_label = assign_score_label(value)
    BY ReportShape
  <2>2. \A e \in ids : /\ composites[e] \in Nat /\ 0 <= composites[e] /\ composites[e] <= 1000
                       /\ Total(evidence[e], P) = 0 => composites[e] <= 450
                       /\ Total(evidence[e], P) = Results(e) /\ Results(e) >= 10
                            => 825 <= composites[e]
                       /\ Results(e) < 5 => composites[e] <= 750
    <3> TAKE e \in ids
    <3>1. composites[e] = ScoreOf(e).composite
      BY EntryComposite
    <3>2. /\ ScoreOf(e).composite \in 0 .. 1000
          /\ Total(evidence[e], P) = 0 => ScoreOf(e).composite <= 450
          /\ Total(evidence[e], P) = Results(e) /\ Results(e) >= 10
               => 825 <= ScoreOf(e).composite
          /\ Results(e) < 5 => ScoreOf(e).composite <= 750
      BY ScoreByOutcome
    <3> HIDE DEF composites
    <3> QED  BY <3>1, <3>2
  <2>3. IsFiniteSet(ids) /\ ids # {} /\ DOMAIN composites = ids /\ ids \in SUBSET Endpoints
    BY ObservedType
  <2>4. /\ passed = Total(AllResults(evidence), P)
        /\ aggregates.request_counts.total = Total(AllResults(evidence), Outcomes)
    BY AggregateCounts
  <2>5. P \in SUBSET Outcomes /\ Outcomes \ P \in SUBSET Outcomes
    BY DEF Failing
  <2> HIDE DEF composites, value, passed, P
  <2>6. ASSUME passed = 0  PROVE assign_score_label(value) = "LOW_CONFIDENCE"
    <3>1. \A e \in ids : Total(evidence[e], P) = 0
      BY <2>3, <2>4, <2>5, <2>6, NoneOfKind
    <3>2. value \in Nat /\ value <= 450
      BY <2>1, <2>2, <2>3, <3>1, MeanBounds
    <3> QED  BY <3>2 DEF assign_score_label, HIGH_CONFIDENCE_THRESHOLD,
                         MODERATE_CONFIDENCE_THRESHOLD
  <2>7. ASSUME passed = aggregates.request_counts.total,
               \A e \in ids : Results(e) >= MIN_EXECUTION_COUNT
        PROVE  assign_score_label(value) = "HIGH_CONFIDENCE"
    <3>1. Total(AllResults(evidence), Outcomes \ P) = 0
      <4>1. Outcomes \in SUBSET Outcomes
        OBVIOUS
      <4>2. /\ Total(AllResults(evidence), Outcomes)
                 = Total(AllResults(evidence), P) + Total(AllResults(evidence), Outcomes \ P)
            /\ Total(AllResults(evidence), P) \in Nat
            /\ Total(AllResults(evidence), Outcomes \ P) \in Nat
        BY <2>5, <4>1, AllResultsType, BagTotals
      <4> QED  BY <2>4, <2>7, <4>2
    <3>2. ASSUME NEW e \in ids  PROVE Total(evidence[e], P) = Results(e)
      <4>1. Total(evidence[e], Outcomes \ P) = 0
        BY <2>3, <2>5, <3>1, NoneOfKind
      <4>2. evidence[e] \in Bags /\ Outcomes \in SUBSET Outcomes
        BY ObservedType
      <4>3. /\ Total(evidence[e], Outcomes)
                 = Total(evidence[e], P) + Total(evidence[e], Outcomes \ P)
            /\ Total(evidence[e], P) \in Nat
        BY <2>5, <4>2, BagTotals
      <4> QED  BY <4>1, <4>3 DEF Results
    <3>3. \A e \in ids : 825 <= composites[e]
      BY <2>2, <2>7, <3>2 DEF MIN_EXECUTION_COUNT
    <3>4. value \in Nat /\ 825 <= value
      BY <2>1, <2>2, <2>3, <3>3, MeanBounds
    <3> QED  BY <3>4 DEF assign_score_label, HIGH_CONFIDENCE_THRESHOLD,
                         MODERATE_CONFIDENCE_THRESHOLD
  <2>8. ASSUME \A e \in ids : Results(e) < MIN_LATENCY_COUNT
        PROVE  assign_score_label(value) # "HIGH_CONFIDENCE"
    <3>1. \A e \in ids : composites[e] <= 750
      BY <2>2, <2>8 DEF MIN_LATENCY_COUNT
    <3>2. value \in Nat /\ value <= 750
      BY <2>1, <2>2, <2>3, <3>1, MeanBounds
    <3> QED  BY <3>2 DEF assign_score_label, HIGH_CONFIDENCE_THRESHOLD,
                         MODERATE_CONFIDENCE_THRESHOLD
  <2> QED  BY <2>1, <2>6, <2>7, <2>8
<1> QED  BY <1>1, EvidenceIsCounted, PTL

-----------------------------------------------------------------------------
(***************************************************************************)
(* The certification                                                       *)
(***************************************************************************)

\* A sum in another order.
LEMMA TotalReindex ==
  ASSUME NEW D, IsFiniteSet(D), NEW S, NEW a \in [D -> S],
         \A i, j \in D : a[i] = a[j] => i = j,
         \A x \in S : \E i \in D : a[i] = x,
         NEW g, \A x \in S : g[x] \in Nat,
         NEW h, \A i \in D : h[i] = g[a[i]]
  PROVE  Total(h, D) = Total(g, S)
<1> DEFINE Im(s) == {a[i] : i \in s}
           X == {s \in SUBSET D : Total(h, s) # Total(g, Im(s))}
<1>0. \A s \in SUBSET D : Im(s) \in SUBSET S /\ IsFiniteSet(Im(s))
  <2> TAKE s \in SUBSET D
  <2> DEFINE f == [i \in s |-> a[i]]
  <2>1. f \in Surjection(s, Im(s))
    BY DEF Surjection
  <2>2. IsFiniteSet(s)
    BY FS_Subset
  <2>3. IsFiniteSet(Im(s))
    BY <2>1, <2>2, FS_Surjection
  <2> QED  BY <2>3
<1>1. ASSUME X # {}  PROVE FALSE
  <2>1. PICK s \in X : IsFiniteSet(s) /\ \A x \in s : s \ {x} \notin X
    BY <1>1, MinimalSet
  <2>2. s # {}
    <3> SUFFICES ASSUME s = {}  PROVE FALSE
      OBVIOUS
    <3>1. Im(s) = {}
      OBVIOUS
    <3>2. Total(h, s) = 0 /\ Total(g, Im(s)) = 0
      BY <3>1, TotalEmpty
    <3> QED  BY <2>1, <3>2
  <2> DEFINE p == Pick(s)
             r == s \ {p}
  <2>3. p \in s /\ Total(h, s) = h[p] + Total(h, r)
    BY <2>1, <2>2, PickType, TotalPick
  <2>4. p \in D /\ s \in SUBSET D /\ r \in SUBSET D /\ r \notin X
    BY <2>1, <2>3
  <2>5. Im(s) \ {a[p]} = Im(r) /\ a[p] \in Im(s)
    BY <2>3, <2>4
  <2> HIDE DEF p, r
  <2>6. Total(h, r) = Total(g, Im(r))
    BY <2>4
  <2>7. Im(s) \in SUBSET S /\ IsFiniteSet(Im(s))
    BY <1>0, <2>4
  <2> HIDE DEF Im
  <2>8. Total(g, Im(s)) = g[a[p]] + Total(g, Im(s) \ {a[p]})
    BY <2>5, <2>7, TotalRemove
  <2>9. h[p] = g[a[p]]
    BY <2>4
  <2> QED  BY <2>1, <2>3, <2>5, <2>6, <2>8, <2>9
<1>2. Total(h, D) = Total(g, Im(D))
  BY <1>1
<1>3. Im(D) = S
  OBVIOUS
<1> QED  BY <1>2, <1>3

\* The results of all the endpoints are those of the sections.
LEMMA ResultsOfSections ==
  ASSUME EvidenceType
  PROVE  LET ids == Observed(evidence)
         IN  /\ aggregates.request_counts.total = Total([e \in ids |-> Results(e)], ids)
             /\ aggregates.request_counts.total \in Nat
             /\ aggregates.request_counts.successful \in Nat
             /\ aggregates.request_counts.successful <= aggregates.request_counts.total
             /\ aggregates.request_counts.total > 0 <=> ids # {}
<1> DEFINE ids == Observed(evidence)
           all == [e \in Endpoints |-> Total(evidence[e], Outcomes)]
           own == [e \in ids |-> Results(e)]
           total == Total(AllResults(evidence), Outcomes)
<1>1. \A e \in Endpoints : all[e] = Results(e) /\ all[e] \in Nat
  BY ObservedType DEF Results
<1>2. total = Total(all, Endpoints) /\ total \in Nat
  <2>1. Outcomes \in SUBSET Outcomes
    OBVIOUS
  <2> QED  BY <2>1, AllResultsTotal, AllResultsType, BagTotals
<1>3. \A e \in ids : own[e] = Results(e) /\ own[e] = all[e] /\ e \in Endpoints
  BY <1>1, ObservedType
<1> HIDE DEF all, own, total
<1>4. IsFiniteSet(Endpoints) /\ IsFiniteSet(ids) /\ ids \in SUBSET Endpoints
  BY EndpointsType, ObservedType
<1>5. Total(all, Endpoints \ ids) = 0
  <2>1. \A e \in Endpoints \ ids : all[e] = 0 /\ all[e] \in Nat
    BY <1>1, ObservedType
  <2>2. IsFiniteSet(Endpoints \ ids)
    BY <1>4, FS_Subset
  <2> QED  BY <2>1, <2>2, TotalZero
<1>6. Total(all, Endpoints) = Total(all, ids) + Total(all, Endpoints \ ids)
  BY <1>1, <1>4, TotalSubset
<1>7. Total(all, ids) \in Nat
  BY <1>1, <1>4, TotalType
<1>8. Total(all, ids) = Total(own, ids)
  BY <1>3, <1>4, TotalCong
<1>9. total = Total(own, ids)
  BY <1>2, <1>5, <1>6, <1>7, <1>8
<1>10. total > 0 <=> ids # {}
  <2>1. CASE ids = {}
    <3>1. total = 0
      BY <1>9, <2>1, TotalEmpty
    <3> QED  BY <2>1, <3>1
  <2>2. CASE ids # {}
    <3>1. PICK e \in ids : TRUE
      BY <2>2
    <3>2. own[e] \in Nat /\ own[e] # 0
      BY <1>3, <3>1, ObservedType
    <3>3. Total(own, ids) # 0
      BY <1>1, <1>3, <1>4, <3>1, <3>2, TotalZero
    <3> QED  BY <1>2, <1>9, <2>2, <3>3
  <2> QED  BY <2>1, <2>2
<1> DEFINE passed == Total(AllResults(evidence), Failing("PASS"))
<1>11. passed \in Nat /\ passed <= total
  <2>1. Failing("PASS") \in SUBSET Outcomes /\ Outcomes \in SUBSET Outcomes
    BY DEF Failing
  <2> QED  BY <2>1, AllResultsType, BagTotals DEF total
<1> HIDE DEF passed
<1>12. /\ aggregates.request_counts.total = total
       /\ aggregates.request_counts.successful = passed
  BY AggregateCounts DEF total, passed
<1> QED  BY <1>2, <1>9, <1>10, <1>11, <1>12 DEF own

(***************************************************************************)
(* SI-2 as a property of the numbers: every one is within one of the mean, *)
(* rounded either way, exactly when no two differ by more than one.        *)
(***************************************************************************)
LEMMA DensityIsEvenness ==
  ASSUME NEW S, IsFiniteSet(S), S # {}, NEW f, \A x \in S : f[x] \in Nat \ {0}
  PROVE  (\A x \in S : WithinDensity(f[x], Total(f, S), Cardinality(S)))
           <=> \A x, y \in S : f[x] <= f[y] + 1
<1> DEFINE N == Total(f, S)
           k == Cardinality(S)
           low == N \div k
           high == (N + k - 1) \div k
<1>1. N \in Nat /\ k \in Nat \ {0}
  <2>1. N \in Nat
    BY TotalType
  <2> QED  BY <2>1, FS_CardinalityType, FS_EmptySet
<1>2. /\ low \in Nat /\ k * low <= N /\ N < k * low + k
      /\ high \in Nat /\ k * high <= N + k - 1 /\ N + k - 1 < k * high + k
  <2>1. N + k - 1 \in Nat
    BY <1>1
  <2> QED  BY <1>1, <2>1, Quotient
<1>3. \A x \in S : WithinDensity(f[x], N, k) <=> low <= f[x] /\ f[x] <= high
  BY <1>1, <1>2 DEF WithinDensity
<1> HIDE DEF low, high
<1>4. high <= low + 1
  <2>1. SUFFICES ASSUME low + 2 <= high  PROVE FALSE
    BY <1>2
  <2>2. k * (low + 2) <= k * high
    BY <1>1, <1>2, <2>1
  <2>3. k * (low + 2) = k * low + k + k /\ k * low \in Nat /\ k * high \in Nat
    BY <1>1, <1>2
  <2> HIDE DEF N, k
  <2> QED  BY <1>1, <1>2, <2>2, <2>3
<1>5. ASSUME \A x \in S : low <= f[x] /\ f[x] <= high, NEW x \in S, NEW y \in S
      PROVE  f[x] <= f[y] + 1
  <2>1. f[x] \in Nat /\ f[y] \in Nat /\ f[x] <= high /\ low <= f[y]
    BY <1>5
  <2> QED  BY <1>2, <1>4, <2>1
<1>6. ASSUME \A x, y \in S : f[x] <= f[y] + 1, NEW x \in S
      PROVE  low <= f[x] /\ f[x] <= high
  <2> DEFINE R == S \ {x}
             c == f[x]
             above == [y \in R |-> c + 1]
             below == [y \in R |-> c - 1]
  <2>1. IsFiniteSet(R) /\ Cardinality(R) = k - 1 /\ R \in SUBSET S
    BY FS_RemoveElement
  <2>2. N = c + Total(f, R)
    BY TotalRemove
  <2>3. c \in Nat /\ c - 1 \in Nat /\ c + 1 \in Nat
    BY <1>6
  <2>4. \A y \in R : /\ f[y] \in Nat /\ above[y] = c + 1 /\ below[y] = c - 1
                     /\ f[y] <= c + 1 /\ c - 1 <= f[y]
    <3> SUFFICES ASSUME NEW y \in R
                 PROVE  f[y] \in Nat /\ f[y] <= c + 1 /\ c - 1 <= f[y]
      OBVIOUS
    <3>1. f[y] \in Nat /\ f[y] <= f[x] + 1 /\ f[x] <= f[y] + 1
      BY <1>6, <2>1
    <3> QED  BY <2>3, <3>1
  <2> HIDE DEF R, c, above, below
  <2>5. /\ Total(above, R) = (c + 1) * Cardinality(R)
        /\ Total(below, R) = (c - 1) * Cardinality(R)
    BY <2>1, <2>3, <2>4, TotalConstant
  <2>6. /\ Total(below, R) <= Total(f, R) /\ Total(f, R) <= Total(above, R)
        /\ Total(f, R) \in Nat
    <3>1. \A y \in R : /\ f[y] \in Nat /\ above[y] \in Nat /\ below[y] \in Nat
                       /\ f[y] <= above[y] /\ below[y] <= f[y]
      BY <2>3, <2>4
    <3> QED  BY <2>1, <3>1, TotalMonotone, TotalType
  <2> HIDE DEF N, k
  <2>7. /\ (c + 1) * (k - 1) = k * c + k - c - 1
        /\ (c - 1) * (k - 1) = k * c - k - c + 1
        /\ k * c \in Nat
    BY <1>1, <2>3
  <2>8. N <= k * c + k - 1 /\ k * c <= N + k - 1
    BY <1>1, <2>1, <2>2, <2>3, <2>5, <2>6, <2>7
  <2>9. low <= c
    <3> SUFFICES ASSUME c + 1 <= low  PROVE FALSE
      BY <1>2, <2>3
    <3>1. k * (c + 1) <= k * low
      BY <1>1, <1>2, <2>3
    <3>2. k * (c + 1) = k * c + k /\ k * low \in Nat
      BY <1>1, <1>2, <2>3
    <3> QED  BY <1>1, <1>2, <2>7, <2>8, <3>1, <3>2
  <2>10. c <= high
    <3> SUFFICES ASSUME high + 1 <= c  PROVE FALSE
      BY <1>2, <2>3
    <3>1. k * (high + 1) <= k * c
      BY <1>1, <1>2, <2>3
    <3>2. k * (high + 1) = k * high + k /\ k * high \in Nat
      BY <1>1, <1>2, <2>3
    <3> QED  BY <1>1, <1>2, <2>7, <2>8, <3>1, <3>2
  <2> QED  BY <2>9, <2>10 DEF c
<1> QED  BY <1>3, <1>5, <1>6

\* A table of checks has no failing check exactly when every check holds.
LEMMA NoFailures ==
  ASSUME NEW checks
  PROVE  Failures(checks) = {} <=> \A k \in DOMAIN checks : checks[k]
BY DEF Failures

\* What every section of a report holds.
LEMMA SectionIsComplete ==
  ASSUME EvidenceType, NEW e \in Observed(evidence)
  PROVE  LET s == Entry(e)
         IN  /\ ExecutionCount(s) = Results(e) /\ Results(e) \in Nat \ {0}
             /\ s.reliability_metrics.fail_count \in 0 .. ExecutionCount(s)
             /\ HasTraces(s)
             /\ {"execution_count", "pass_count", "fail_count", "success_rate"}
                  \subseteq DOMAIN s.reliability_metrics
             /\ {"endpoint_id", "endpoint_score", "reliability_metrics", "stability_analysis",
                 "burst_analysis", "consistency_analysis"} \subseteq DOMAIN s
             /\ "score_derivation" \in DOMAIN s.endpoint_score
             /\ ScoreFieldsInRange(s)
<1> DEFINE s == Entry(e)
           m == MetricsOf(e)
<1>1. /\ ExecutionCount(s) = Results(e) /\ Results(e) \in Nat \ {0}
      /\ s.reliability_metrics.fail_count = Results(e) - m.pass_count
      /\ s.endpoint_score = With(ScoreOf(e), "score_derivation", "weights")
  BY EntryFields, ObservedType DEF ExecutionCount
<1>2. m.pass_count \in Nat /\ m.pass_count <= Results(e)
  <2>1. /\ m.pass_count \in Nat /\ m.timeout_count \in Nat
        /\ m.pass_count + m.timeout_count <= m.execution_count
        /\ m.execution_count = Results(e)
    BY MetricsType
  <2> HIDE DEF m
  <2> QED  BY <1>1, <2>1
<1>3. s.reliability_metrics.fail_count \in 0 .. ExecutionCount(s)
  <2> HIDE DEF s, m
  <2> QED  BY <1>1, <1>2
<1>4. HasTraces(s)
  BY DEF HasTraces, Entry, endpoint_entry
<1>5. /\ {"execution_count", "pass_count", "fail_count", "success_rate"}
           \subseteq DOMAIN s.reliability_metrics
      /\ {"endpoint_id", "endpoint_score", "reliability_metrics", "stability_analysis",
          "burst_analysis", "consistency_analysis"} \subseteq DOMAIN s
  BY DEF Entry, endpoint_entry
<1> HIDE DEF s
<1>6. "score_derivation" \in DOMAIN s.endpoint_score
  BY <1>1 DEF With
<1>7. ScoreFieldsInRange(s)
  <2>1. \A f \in {"composite", "reliability", "stability", "burst", "consistency"} :
          f \in DOMAIN ScoreOf(e)
    BY DEF ScoreOf, compute_endpoint_score
  <2>2. \A f \in {"composite", "reliability", "stability", "burst", "consistency"} :
          s.endpoint_score[f] = ScoreOf(e)[f]
    BY <1>1, <2>1 DEF With
  <2> DEFINE sr == LABEL_TO_SCORE(success_rate_stability_v1(m))
             sl == LABEL_TO_SCORE(latency_stability_v1(m))
             bf == LABEL_TO_SCORE(failure_burst_v1(m))
             bs == LABEL_TO_SCORE(latency_spike_v1(m))
             co == LABEL_TO_SCORE(outcome_consistency_v1(m))
             st == HalfUp(sr + sl, 2)
             bu == HalfUp(bf + bs, 2)
             x == HalfUp(50 * m.success_rate + 20 * st + 15 * bu + 15 * co, 100)
  <2>3. /\ co \in {0, 500, 1000} /\ st \in 0 .. 1000 /\ bu \in 0 .. 1000
        /\ ScoreOf(e) = [composite |-> x, reliability |-> m.success_rate, stability |-> st,
                         burst |-> bu, consistency |-> co]
    BY EndpointScore
  <2>4. m.success_rate \in 0 .. 1000
    BY MetricsType
  <2>5. ScoreOf(e).composite \in 0 .. 1000
    BY ScoreByOutcome
  <2> HIDE DEF m, sr, sl, bf, bs, co, st, bu, x
  <2>6. \A f \in {"composite", "reliability", "stability", "burst", "consistency"} :
          ScoreOf(e)[f] \in 0 .. 1000
    <3>1. /\ ScoreOf(e).reliability = m.success_rate /\ ScoreOf(e).stability = st
          /\ ScoreOf(e).burst = bu /\ ScoreOf(e).consistency = co
      BY <2>3
    <3>2. co \in 0 .. 1000
      BY <2>3
    <3> QED  BY <2>3, <2>4, <2>5, <3>1, <3>2
  <2> QED  BY <2>2, <2>6 DEF ScoreFieldsInRange, UnitScore
<1> QED  BY <1>1, <1>3, <1>4, <1>5, <1>6, <1>7 DEF s

LEMMA ScoreLabelType ==
  ASSUME NEW score \in Nat
  PROVE  assign_score_label(score) \in ScoreLabels
BY DEF assign_score_label, ScoreLabels, HIGH_CONFIDENCE_THRESHOLD, MODERATE_CONFIDENCE_THRESHOLD

\* What the report holds outside its sections.
LEMMA ReportIsComplete ==
  ASSUME EvidenceType
  PROVE  LET ids == Observed(evidence)
             order == Ascending(ids)
             k == Cardinality(ids)
             total == aggregates.request_counts.total
             summary == report.executive_summary
         IN  /\ k \in Nat /\ (k = 0 <=> ids = {})
             /\ order \in [1 .. k -> ids]
             /\ \A i, j \in 1 .. k : i < j => order[i] < order[j]
             /\ \A e \in ids : \E i \in 1 .. k : order[i] = e
             /\ report.endpoints = [i \in 1 .. k |-> Entry(order[i])]
             /\ Range(report.endpoints) = {Entry(e) : e \in ids}
             /\ DOMAIN report.endpoints = 1 .. k /\ Len(report.endpoints) = k
             /\ summary.endpoint_count = k
             /\ summary.total_executions = total
             /\ summary.audit_success_rate \in 0 .. 1000
             /\ summary.composite_score_value \in 0 .. 1000
             /\ summary.score_label \in ScoreLabels
             /\ summary.score_label_description = SCORE_LABEL_DESCRIPTIONS[summary.score_label]
<1> DEFINE ids == Observed(evidence)
           order == Ascending(ids)
           k == Cardinality(ids)
           total == aggregates.request_counts.total
           summary == report.executive_summary
           rate == summary.audit_success_rate
           value == summary.composite_score_value
<1>1. IsFiniteSet(ids) /\ ids \in SUBSET Int
  BY ObservedType
<1>2. k \in Nat /\ (k = 0 <=> ids = {})
  BY <1>1, FS_CardinalityType, FS_EmptySet
<1>3. /\ order \in [1 .. k -> ids]
      /\ \A i, j \in 1 .. k : i < j => order[i] < order[j]
      /\ \A e \in ids : \E i \in 1 .. k : order[i] = e
  BY <1>1, AscendingProperties
<1>4. /\ report.endpoints = [i \in 1 .. k |-> Entry(order[i])]
      /\ Range(report.endpoints) = {Entry(e) : e \in ids}
      /\ value = MeanOf([e \in ids |-> Entry(e).endpoint_score.composite])
      /\ summary.score_label = assign_score_label(value)
      /\ summary.endpoint_count = k
      /\ summary.total_executions = total
  BY ReportShape DEF Sections
<1>5. DOMAIN report.endpoints = 1 .. k /\ Len(report.endpoints) = k
  BY <1>2, <1>4
<1>6. rate \in 0 .. 1000
  <2>1. rate = IF total > 0 THEN Thousandths(aggregates.request_counts.successful, total) ELSE 0
    BY DEF report, build, executive_summary, assemble_artifact, audit_reliability_summary
  <2>2. /\ total \in Nat /\ aggregates.request_counts.successful \in Nat
        /\ aggregates.request_counts.successful <= total
    BY ResultsOfSections
  <2> HIDE DEF total, rate
  <2>3. CASE total > 0
    <3>1. total \in Nat \ {0}
      BY <2>2, <2>3
    <3>2. Thousandths(aggregates.request_counts.successful, total) \in 0 .. 1000
      BY <2>2, <3>1, ProportionType
    <3> QED  BY <2>1, <2>3, <3>2
  <2>4. CASE ~ (total > 0)
    BY <2>1, <2>4
  <2> QED  BY <2>3, <2>4
<1>7. value \in 0 .. 1000
  <2> DEFINE composites == [e \in ids |-> Entry(e).endpoint_score.composite]
  <2>1. \A e \in ids : /\ composites[e] \in Nat /\ 0 <= composites[e] /\ composites[e] <= 1000
    <3> TAKE e \in ids
    <3>1. composites[e] = ScoreOf(e).composite
      BY EntryComposite
    <3>2. ScoreOf(e).composite \in 0 .. 1000
      BY ScoreByOutcome
    <3> DEFINE x == ScoreOf(e).composite
    <3> HIDE DEF composites, x
    <3>3. x \in Nat /\ 0 <= x /\ x <= 1000
      BY <3>2 DEF x
    <3> QED  BY <3>1, <3>3 DEF x
  <2>2. DOMAIN composites = ids /\ value = MeanOf(composites)
    BY <1>4
  <2> HIDE DEF composites, value
  <2>3. CASE ids = {}
    BY <2>2, <2>3 DEF MeanOf
  <2>4. CASE ids # {}
    <3>1. MeanOf(composites) \in Nat /\ 0 <= MeanOf(composites) /\ MeanOf(composites) <= 1000
      BY <1>1, <2>1, <2>2, <2>4, MeanBounds
    <3> QED  BY <2>2, <3>1
  <2> QED  BY <2>3, <2>4
<1>8. summary.score_label \in ScoreLabels
  <2>1. summary.score_label = assign_score_label(value)
    BY <1>4
  <2> HIDE DEF value
  <2>2. value \in Nat
    BY <1>7
  <2> QED  BY <2>1, <2>2, ScoreLabelType
<1>9. summary.score_label_description = SCORE_LABEL_DESCRIPTIONS[summary.score_label]
  BY DEF report, build, executive_summary
<1> QED  BY <1>2, <1>3, <1>4, <1>5, <1>6, <1>7, <1>8, <1>9

(***************************************************************************)
(* The domains, one by one: what the checks of each ask of a report that   *)
(* the platform made itself.                                               *)
(***************************************************************************)
LEMMA RunnerHealth ==
  ASSUME EvidenceType
  PROVE  check_runner_health(report) = {} <=> Observed(evidence) # {}
<1> DEFINE sections == Range(report.endpoints)
           rh1 == report.executive_summary.total_executions > 0
           rh2 == \A s \in sections : ExecutionCount(s) # 0
           rh3 == \A s \in sections :
                    ExecutionCount(s) > 0
                      => s.reliability_metrics.fail_count \in 0 .. ExecutionCount(s)
           rh4 == \A s \in sections : HasTraces(s)
<1>1. check_runner_health(report) = Failures([RH1 |-> rh1, RH2 |-> rh2, RH3 |-> rh3, RH4 |-> rh4])
  BY DEF check_runner_health
<1>2. rh1 <=> Observed(evidence) # {}
  BY ReportIsComplete, ResultsOfSections
<1>3. sections = {Entry(e) : e \in Observed(evidence)}
  BY ReportIsComplete
<1> HIDE DEF sections
<1>4. rh2 /\ rh3 /\ rh4
  <2> SUFFICES ASSUME NEW s \in sections
               PROVE  /\ ExecutionCount(s) # 0
                      /\ s.reliability_metrics.fail_count \in 0 .. ExecutionCount(s)
                      /\ HasTraces(s)
    OBVIOUS
  <2>1. PICK e \in Observed(evidence) : s = Entry(e)
    BY <1>3
  <2>2. /\ ExecutionCount(Entry(e)) = Results(e) /\ Results(e) \in Nat \ {0}
        /\ Entry(e).reliability_metrics.fail_count \in 0 .. ExecutionCount(Entry(e))
        /\ HasTraces(Entry(e))
    BY SectionIsComplete
  <2> QED  BY <2>1, <2>2
<1> HIDE DEF rh1, rh2, rh3, rh4
<1> DEFINE checks == [RH1 |-> rh1, RH2 |-> rh2, RH3 |-> rh3, RH4 |-> rh4]
<1>5. (\A k \in DOMAIN checks : checks[k]) <=> rh1 /\ rh2 /\ rh3 /\ rh4
  OBVIOUS
<1> HIDE DEF checks
<1>6. check_runner_health(report) = {} <=> \A k \in DOMAIN checks : checks[k]
  BY <1>1, NoFailures DEF checks
<1> QED  BY <1>2, <1>4, <1>5, <1>6

LEMMA EvidenceCompleteness ==
  ASSUME EvidenceType
  PROVE  check_evidence_completeness(report) = {} <=> Observed(evidence) # {}
<1> DEFINE sections == Range(report.endpoints)
           ec1 == report.executive_summary.total_executions > 0
           ec2 == \A s \in sections : ExecutionCount(s) # 0
           ec3 == \A s \in sections :
                    {"execution_count", "pass_count", "fail_count", "success_rate"}
                      \subseteq DOMAIN s.reliability_metrics
           ec4 == report.executive_summary.endpoint_count > 0
<1>1. check_evidence_completeness(report)
        = Failures([EC1 |-> ec1, EC2 |-> ec2, EC3 |-> ec3, EC4 |-> ec4])
  BY DEF check_evidence_completeness
<1>2. (ec1 <=> Observed(evidence) # {}) /\ (ec4 <=> Observed(evidence) # {})
  BY ReportIsComplete, ResultsOfSections
<1>3. sections = {Entry(e) : e \in Observed(evidence)}
  BY ReportIsComplete
<1> HIDE DEF sections
<1>4. ec2 /\ ec3
  <2> SUFFICES ASSUME NEW s \in sections
               PROVE  /\ ExecutionCount(s) # 0
                      /\ {"execution_count", "pass_count", "fail_count", "success_rate"}
                           \subseteq DOMAIN s.reliability_metrics
    OBVIOUS
  <2>1. PICK e \in Observed(evidence) : s = Entry(e)
    BY <1>3
  <2>2. /\ ExecutionCount(Entry(e)) = Results(e) /\ Results(e) \in Nat \ {0}
        /\ {"execution_count", "pass_count", "fail_count", "success_rate"}
             \subseteq DOMAIN Entry(e).reliability_metrics
    BY SectionIsComplete
  <2> QED  BY <2>1, <2>2
<1> HIDE DEF ec1, ec2, ec3, ec4
<1> DEFINE checks == [EC1 |-> ec1, EC2 |-> ec2, EC3 |-> ec3, EC4 |-> ec4]
<1>5. (\A k \in DOMAIN checks : checks[k]) <=> ec1 /\ ec2 /\ ec3 /\ ec4
  OBVIOUS
<1> HIDE DEF checks
<1>6. check_evidence_completeness(report) = {} <=> \A k \in DOMAIN checks : checks[k]
  BY <1>1, NoFailures DEF checks
<1> QED  BY <1>2, <1>4, <1>5, <1>6

LEMMA EvidenceIntegrity ==
  check_evidence_integrity(report, metadata_of(report)) = {}
<1> DEFINE own == metadata_of(report)
           ei1 == own.aggregate_set_hash = own.aggregate_set_hash
           ei2 == own.report_id = own.report_id
           ei3 == own.report_version = own.report_version
           ei4 == own.intelligence_version = own.intelligence_version
           ei5 == own.endpoint_count = own.endpoint_count
           checks == [EI1 |-> ei1, EI2 |-> ei2, EI3 |-> ei3, EI4 |-> ei4, EI5 |-> ei5]
<1>1. check_evidence_integrity(report, own) = Failures(checks)
  BY DEF check_evidence_integrity
<1> HIDE DEF own
<1>2. ei1 /\ ei2 /\ ei3 /\ ei4 /\ ei5
  OBVIOUS
<1> HIDE DEF ei1, ei2, ei3, ei4, ei5
<1>3. \A c \in DOMAIN checks : checks[c]
  BY <1>2
<1> HIDE DEF checks
<1> QED  BY <1>1, <1>3, NoFailures DEF own

LEMMA EvidenceLineage ==
  check_evidence_lineage(report, metadata_of(report)) = {}
<1> DEFINE provenance == report.intelligence_provenance
           metadata == metadata_of(report)
           el1 == /\ "aggregate_set_hash" \in DOMAIN provenance
                  /\ "aggregate_set_hash" \in DOMAIN metadata
           el2 == provenance.aggregate_set_hash = metadata.aggregate_set_hash
           el3 == "intelligence_job_id" \in DOMAIN provenance
           el4 == {"aggregate_set_hash", "aggregation_job_id", "aggregation_version",
                   "aggregate_set_completion_created_at", "endpoint_aggregate_count",
                   "source_raw_result_count", "audit_lineage_manifest_ref"}
                    \subseteq DOMAIN report.input_lineage
           el5 == "intelligence_completed_at" \in DOMAIN provenance
           checks == [EL1 |-> el1, EL2 |-> el2, EL3 |-> el3, EL4 |-> el4, EL5 |-> el5]
<1>1. check_evidence_lineage(report, metadata) = Failures(checks)
  BY DEF check_evidence_lineage
<1>2. el1 /\ el3 /\ el5
  BY DEF report, build, metadata_of
<1>3. el2
  BY DEF metadata_of
<1>4. report.input_lineage = input_lineage(aggregates)
  BY DEF report, build, assemble_artifact
<1>5. el4
  BY <1>4 DEF input_lineage
<1> HIDE DEF el1, el2, el3, el4, el5
<1>6. \A k \in DOMAIN checks : checks[k]
  BY <1>2, <1>3, <1>5
<1> HIDE DEF checks
<1> QED  BY <1>1, <1>6, NoFailures

\* The values h lists in the order a are those that g gives the members of S.
Reorders(h, D, a, g, S) ==
  /\ IsFiniteSet(D)
  /\ a \in [D -> S]
  /\ \A i, j \in D : a[i] = a[j] => i = j
  /\ \A x \in S : \E i \in D : a[i] = x
  /\ \A x \in S : g[x] \in Nat
  /\ \A i \in D : h[i] = g[a[i]]

LEMMA TotalReorders ==
  ASSUME NEW h, NEW D, NEW a, NEW g, NEW S, Reorders(h, D, a, g, S)
  PROVE  Total(h, D) = Total(g, S)
BY TotalReindex DEF Reorders

LEMMA ObservationCoverage ==
  ASSUME EvidenceType
  PROVE  check_observation_coverage(report, metadata_of(report)) = {}
<1> DEFINE ids == Observed(evidence)
           order == Ascending(ids)
           k == Cardinality(ids)
           sections == Range(report.endpoints)
           summary == report.executive_summary
           metadata == metadata_of(report)
           executions == [i \in DOMAIN report.endpoints |-> ExecutionCount(report.endpoints[i])]
           oc1 == \A s \in sections :
                    {"endpoint_score", "reliability_metrics", "stability_analysis",
                     "burst_analysis", "consistency_analysis"} \subseteq DOMAIN s
           oc2 == summary.endpoint_count = Len(report.endpoints)
           oc3 == metadata.endpoint_count = Len(report.endpoints)
           oc4 == UnitScore(summary.audit_success_rate)
           oc5 == summary.total_executions = Total(executions, DOMAIN report.endpoints)
           checks == [OC1 |-> oc1, OC2 |-> oc2, OC3 |-> oc3, OC4 |-> oc4, OC5 |-> oc5]
<1>1. check_observation_coverage(report, metadata) = Failures(checks)
  BY DEF check_observation_coverage
<1>2. /\ k \in Nat /\ order \in [1 .. k -> ids]
      /\ \A i, j \in 1 .. k : i < j => order[i] < order[j]
      /\ \A e \in ids : \E i \in 1 .. k : order[i] = e
      /\ report.endpoints = [i \in 1 .. k |-> Entry(order[i])]
      /\ sections = {Entry(e) : e \in ids}
      /\ DOMAIN report.endpoints = 1 .. k /\ Len(report.endpoints) = k
      /\ summary.endpoint_count = k
      /\ summary.total_executions = aggregates.request_counts.total
      /\ summary.audit_success_rate \in 0 .. 1000
  BY ReportIsComplete
<1>3. oc1
  <2> SUFFICES ASSUME NEW s \in sections
               PROVE  {"endpoint_score", "reliability_metrics", "stability_analysis",
                       "burst_analysis", "consistency_analysis"} \subseteq DOMAIN s
    OBVIOUS
  <2>1. PICK e \in ids : s = Entry(e)
    BY <1>2
  <2>2. {"endpoint_id", "endpoint_score", "reliability_metrics", "stability_analysis",
         "burst_analysis", "consistency_analysis"} \subseteq DOMAIN Entry(e)
    BY SectionIsComplete
  <2> QED  BY <2>1, <2>2
<1>4. oc2 /\ oc4
  BY <1>2 DEF UnitScore
<1>5. oc3
  BY <1>2 DEF metadata_of
<1>6. oc5
  <2> DEFINE own == [e \in ids |-> Results(e)]
  <2>1. summary.total_executions = Total(own, ids)
    BY <1>2, ResultsOfSections
  <2>2. \A i \in 1 .. k : executions[i] = own[order[i]] /\ order[i] \in ids
    <3> TAKE i \in 1 .. k
    <3>1. order[i] \in ids /\ report.endpoints[i] = Entry(order[i])
      BY <1>2
    <3>2. ExecutionCount(Entry(order[i])) = Results(order[i])
      BY <3>1, SectionIsComplete
    <3> QED  BY <1>2, <3>1, <3>2
  <2>3. \A e \in ids : own[e] \in Nat
    BY ObservedType
  <2>4. \A i, j \in 1 .. k : order[i] = order[j] => i = j
    <3> SUFFICES ASSUME NEW i \in 1 .. k, NEW j \in 1 .. k, order[i] = order[j], i # j
                 PROVE  FALSE
      OBVIOUS
    <3>1. order[i] \in Int /\ order[j] \in Int
      BY <1>2, ObservedType
    <3> HIDE DEF order, k
    <3>2. i < j \/ j < i
      BY <1>2
    <3>3. order[i] < order[j] \/ order[j] < order[i]
      BY <1>2, <3>2
    <3> QED  BY <3>1, <3>3
  <2>5. IsFiniteSet(1 .. k)
    BY <1>2, FS_Interval
  <2> HIDE DEF own, executions, order, k
  <2>6. Total(executions, 1 .. k) = Total(own, ids)
    <3>1. order \in [1 .. k -> ids] /\ \A e \in ids : \E i \in 1 .. k : order[i] = e
      BY <1>2
    <3>2. \A i \in 1 .. k : executions[i] = own[order[i]]
      BY <2>2
    <3> HIDE DEF ids
    <3>3. Reorders(executions, 1 .. k, order, own, ids)
      BY <2>3, <2>4, <2>5, <3>1, <3>2 DEF Reorders
    <3> QED  BY <3>3, TotalReorders
  <2> QED  BY <1>2, <2>1, <2>6
<1> HIDE DEF oc1, oc2, oc3, oc4, oc5
<1>7. \A c \in DOMAIN checks : checks[c]
  BY <1>3, <1>4, <1>5, <1>6
<1> HIDE DEF checks
<1> QED  BY <1>1, <1>7, NoFailures

\* No two endpoints differ by more than one in the number of their results.
Even == \A e, f \in Observed(evidence) : Results(e) <= Results(f) + 1

LEMMA SchedulerIntegrity ==
  ASSUME EvidenceType
  PROVE  check_scheduler_integrity(report) = {} <=> Observed(evidence) # {} /\ Even
<1> DEFINE ids == Observed(evidence)
           k == Cardinality(ids)
           sections == Range(report.endpoints)
           summary == report.executive_summary
           own == [e \in ids |-> Results(e)]
           density == \A s \in sections :
                        WithinDensity(ExecutionCount(s), summary.total_executions,
                                      summary.endpoint_count)
           si1 == summary.total_executions > 0
           si2 == /\ summary.endpoint_count > 0 /\ summary.total_executions > 0 /\ density
           si3 == "limitations" \in DOMAIN report.methodology_disclosure
           checks == [SI1 |-> si1, SI2 |-> si2, SI3 |-> si3]
<1>1. check_scheduler_integrity(report) = Failures(checks)
  BY DEF check_scheduler_integrity
<1>2. /\ k \in Nat /\ (k = 0 <=> ids = {})
      /\ sections = {Entry(e) : e \in ids}
      /\ summary.endpoint_count = k
      /\ summary.total_executions = aggregates.request_counts.total
  BY ReportIsComplete
<1>3. /\ summary.total_executions = Total(own, ids)
      /\ summary.total_executions > 0 <=> ids # {}
  BY <1>2, ResultsOfSections
<1>4. si3
  BY DEF report, build, assemble_artifact, build_methodology_disclosure
<1>5. (si1 <=> ids # {}) /\ (summary.endpoint_count > 0 <=> ids # {})
  BY <1>2, <1>3
<1>6. ASSUME ids # {}  PROVE density <=> Even
  <2>1. \A e \in ids : own[e] = Results(e) /\ own[e] \in Nat \ {0}
    BY ObservedType
  <2>2. IsFiniteSet(ids)
    BY ObservedType
  <2>3. \A e \in ids : ExecutionCount(Entry(e)) = own[e]
    <3> TAKE e \in ids
    <3>1. ExecutionCount(Entry(e)) = Results(e)
      BY SectionIsComplete
    <3> QED  BY <2>1, <3>1
  <2> HIDE DEF own
  <2>4. density <=> \A e \in ids : WithinDensity(own[e], Total(own, ids), k)
    BY <1>2, <1>3, <2>3
  <2> HIDE DEF density, k
  <2>5. (\A e \in ids : WithinDensity(own[e], Total(own, ids), Cardinality(ids)))
          <=> \A e, f \in ids : own[e] <= own[f] + 1
    BY <1>6, <2>1, <2>2, DensityIsEvenness
  <2>6. (\A e, f \in ids : own[e] <= own[f] + 1) <=> Even
    BY <2>1 DEF Even
  <2> QED  BY <2>4, <2>5, <2>6 DEF k
<1>7. si2 <=> ids # {} /\ Even
  <2> HIDE DEF density
  <2> QED  BY <1>5, <1>6
<1> HIDE DEF si1, si2, si3
<1>8. (\A c \in DOMAIN checks : checks[c]) <=> si1 /\ si2 /\ si3
  OBVIOUS
<1> HIDE DEF checks
<1>9. check_scheduler_integrity(report) = {} <=> \A c \in DOMAIN checks : checks[c]
  BY <1>1, NoFailures
<1> QED  BY <1>4, <1>5, <1>7, <1>8, <1>9

LEMMA MethodologyCompliance ==
  ASSUME EvidenceType
  PROVE  check_methodology_compliance(report) = {}
<1> DEFINE sections == Range(report.endpoints)
           disclosed == DOMAIN report.methodology_disclosure
           mc1 == "intelligence_version" \in disclosed
           mc2 == DOMAIN build_methodology_disclosure \subseteq disclosed
           mc3 == "limitations" \in disclosed
           mc4 == \A s \in sections : HasTraces(s)
           mc5 == \A s \in sections : "score_derivation" \in DOMAIN s.endpoint_score
           checks == [MC1 |-> mc1, MC2 |-> mc2, MC3 |-> mc3, MC4 |-> mc4, MC5 |-> mc5]
<1>1. check_methodology_compliance(report) = Failures(checks)
  BY DEF check_methodology_compliance
<1>2. report.methodology_disclosure = build_methodology_disclosure
  BY DEF report, build, assemble_artifact
<1>3. mc1 /\ mc2 /\ mc3
  BY <1>2 DEF build_methodology_disclosure
<1>4. sections = {Entry(e) : e \in Observed(evidence)}
  BY ReportIsComplete
<1> HIDE DEF sections
<1>5. mc4 /\ mc5
  <2> SUFFICES ASSUME NEW s \in sections
               PROVE  HasTraces(s) /\ "score_derivation" \in DOMAIN s.endpoint_score
    OBVIOUS
  <2>1. PICK e \in Observed(evidence) : s = Entry(e)
    BY <1>4
  <2>2. HasTraces(Entry(e)) /\ "score_derivation" \in DOMAIN Entry(e).endpoint_score
    BY SectionIsComplete
  <2> QED  BY <2>1, <2>2
<1> HIDE DEF mc1, mc2, mc3, mc4, mc5
<1>6. \A c \in DOMAIN checks : checks[c]
  BY <1>3, <1>5
<1> HIDE DEF checks
<1> QED  BY <1>1, <1>6, NoFailures

LEMMA ReportIntegrity ==
  ASSUME EvidenceType
  PROVE  check_report_integrity(report) = {}
<1> DEFINE ids == Observed(evidence)
           order == Ascending(ids)
           k == Cardinality(ids)
           sections == Range(report.endpoints)
           summary == report.executive_summary
           names == [i \in DOMAIN report.endpoints |-> report.endpoints[i].endpoint_id]
           ri1 == report.identity.report_version = REPORT_VERSION
           ri2 == report.intelligence_provenance.intelligence_version = INTELLIGENCE_VERSION
           ri3 == summary.score_label \in ScoreLabels
           ri4 == UnitScore(summary.composite_score_value)
           ri5 == \A i \in 1 .. Len(names) - 1 : names[i] <= names[i + 1]
           ri6 == Cardinality(Range(names)) = Len(names)
           ri7 == \A s \in sections : "endpoint_id" \in DOMAIN s
           ri8 == \A s \in sections : ScoreFieldsInRange(s)
           ri9 == summary.score_label_description \in Range(SCORE_LABEL_DESCRIPTIONS)
           checks == [RI1 |-> ri1, RI2 |-> ri2, RI3 |-> ri3, RI4 |-> ri4, RI5 |-> ri5,
                      RI6 |-> ri6, RI7 |-> ri7, RI8 |-> ri8, RI9 |-> ri9]
<1>1. check_report_integrity(report) = Failures(checks)
  BY DEF check_report_integrity
<1>2. ri1 /\ ri2
  BY DEF report, build, assemble_artifact
<1>3. /\ k \in Nat /\ order \in [1 .. k -> ids]
      /\ \A i, j \in 1 .. k : i < j => order[i] < order[j]
      /\ \A e \in ids : \E i \in 1 .. k : order[i] = e
      /\ report.endpoints = [i \in 1 .. k |-> Entry(order[i])]
      /\ sections = {Entry(e) : e \in ids}
      /\ DOMAIN report.endpoints = 1 .. k
      /\ summary.composite_score_value \in 0 .. 1000
      /\ summary.score_label \in ScoreLabels
      /\ summary.score_label_description = SCORE_LABEL_DESCRIPTIONS[summary.score_label]
  BY ReportIsComplete
<1>4. ri3 /\ ri4
  BY <1>3 DEF UnitScore
<1>5. names = [i \in 1 .. k |-> order[i]]
  <2>1. \A i \in 1 .. k : report.endpoints[i].endpoint_id = order[i]
    BY <1>3, EntryFields
  <2> QED  BY <1>3, <2>1
<1>6. names = order /\ Len(order) = k
  BY <1>3, <1>5
<1> HIDE DEF names, order, k
<1>7. ri5
  <2>1. \A i \in 1 .. k - 1 : order[i] <= order[i + 1]
    <3> TAKE i \in 1 .. k - 1
    <3>1. i \in 1 .. k /\ i + 1 \in 1 .. k /\ i < i + 1
      BY <1>3
    <3>2. order[i] < order[i + 1] /\ order[i] \in Int /\ order[i + 1] \in Int
      BY <1>3, <3>1, ObservedType
    <3> QED  BY <3>2
  <2> QED  BY <1>6, <2>1
<1>8. ri6
  <2>1. Range(order) = ids
    BY <1>3 DEF Range
  <2> QED  BY <1>6, <2>1 DEF k
<1>9. ri7 /\ ri8
  <2> SUFFICES ASSUME NEW s \in sections
               PROVE  "endpoint_id" \in DOMAIN s /\ ScoreFieldsInRange(s)
    OBVIOUS
  <2>1. PICK e \in ids : s = Entry(e)
    BY <1>3
  <2>2. /\ {"endpoint_id", "endpoint_score", "reliability_metrics", "stability_analysis",
            "burst_analysis", "consistency_analysis"} \subseteq DOMAIN Entry(e)
        /\ ScoreFieldsInRange(Entry(e))
    BY SectionIsComplete
  <2> QED  BY <2>1, <2>2
<1>10. ri9
  <2>1. DOMAIN SCORE_LABEL_DESCRIPTIONS = ScoreLabels
    BY DEF SCORE_LABEL_DESCRIPTIONS
  <2> QED  BY <1>3, <2>1 DEF Range
<1> HIDE DEF ri1, ri2, ri3, ri4, ri5, ri6, ri7, ri8, ri9
<1>11. \A c \in DOMAIN checks : checks[c]
  BY <1>2, <1>4, <1>7, <1>8, <1>9, <1>10
<1> HIDE DEF checks
<1> QED  BY <1>1, <1>11, NoFailures

(***************************************************************************)
(* A report of the platform's own is certified exactly when the evidence   *)
(* is there and even: thirty-nine of the forty checks can find nothing     *)
(* wrong with it but that there are no results, for any configuration, any *)
(* runs and any results (platform_integrity/domains).                      *)
(***************************************************************************)
THEOREM CertifiedAlwaysIffEven == Spec => []CertifiedIffEven
<1>1. EvidenceType => CertifiedIffEven
  <2> SUFFICES ASSUME EvidenceType  PROVE CertifiedIffEven
    OBVIOUS
  <2> DEFINE metadata == metadata_of(report)
             results == DomainResults(report, metadata)
             d1 == check_runner_health(report)
             d2 == check_evidence_completeness(report)
             d3 == check_evidence_integrity(report, metadata)
             d4 == check_evidence_lineage(report, metadata)
             d5 == check_observation_coverage(report, metadata)
             d6 == check_scheduler_integrity(report)
             d7 == check_methodology_compliance(report)
             d8 == check_report_integrity(report)
  <2>1. /\ d1 = {} <=> Observed(evidence) # {}
        /\ d2 = {} <=> Observed(evidence) # {}
        /\ d3 = {} /\ d4 = {} /\ d5 = {}
        /\ d6 = {} <=> Observed(evidence) # {} /\ Even
        /\ d7 = {} /\ d8 = {}
    BY RunnerHealth, EvidenceCompleteness, EvidenceIntegrity, EvidenceLineage,
       ObservationCoverage, SchedulerIntegrity, MethodologyCompliance, ReportIntegrity
  <2>2. results = <<d1, d2, d3, d4, d5, d6, d7, d8>>
    BY DEF DomainResults
  <2> HIDE DEF d1, d2, d3, d4, d5, d6, d7, d8, results
  <2>3. Range(results) = {d1, d2, d3, d4, d5, d6, d7, d8}
    <3>1. DOMAIN results = 1 .. 8
      BY <2>2
    <3>2. /\ results[1] = d1 /\ results[2] = d2 /\ results[3] = d3 /\ results[4] = d4
          /\ results[5] = d5 /\ results[6] = d6 /\ results[7] = d7 /\ results[8] = d8
      BY <2>2
    <3>3. 1 .. 8 = {1, 2, 3, 4, 5, 6, 7, 8}
      OBVIOUS
    <3> QED  BY <3>1, <3>2, <3>3 DEF Range
  <2>4. UNION Range(results) = {} <=> Observed(evidence) # {} /\ Even
    BY <2>1, <2>3
  <2>5. BlockedBy(metadata) = {}
    BY DEF BlockedBy, metadata_of
  <2>6. terminal_state = IF UNION Range(results) # {} THEN "CERTIFICATION_FAILED" ELSE "CERTIFIED"
    BY <2>5 DEF terminal_state, determine_terminal_state, results
  <2> QED  BY <2>4, <2>6 DEF CertifiedIffEven, Even
<1> QED  BY <1>1, EvidenceIsCounted, PTL

=============================================================================
