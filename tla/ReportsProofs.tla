---------------------------- MODULE ReportsProofs ----------------------------
(***************************************************************************)
(* Theorems about Reports, for any finite set of spaces, any local         *)
(* calendar, any histories and payloads, and any number of payloads.       *)
(*                                                                         *)
(* 1. Sums over finite sets and the least and greatest of a finite set, by *)
(*    the smallest set for which the statement fails (Minimal).  The       *)
(*    lemmas on sums open as in SiteTotalsProofs; SumApart and SumByParts  *)
(*    come on top.                                                         *)
(* 2. The script of a request: what it lists, and that it is a sequence of *)
(*    queries (Flattened, Listed, ScriptQueries, Parts).                   *)
(* 3. The inductive invariant IInv: types, a request reads its script in   *)
(*    order (Reading), an undisturbed request has read what the store      *)
(*    holds (Current), and the rows of a disturbed one have only grown     *)
(*    (Grown).                                                             *)
(* 4. Ranks, the calendar, occupancy spans, and with them the properties.  *)
(***************************************************************************)
EXTENDS Reports, FiniteSetTheorems, SequenceTheorems, TLAPS

(* Sums of functions over finite sets. *)

\* What the fold takes first, one unfolding of its recursion on the subsets of S, and
\* what the recursion defines.
Pick(s) == CHOOSE x \in s : TRUE
Body(f, S, g) ==
    [s \in SUBSET S |-> IF s = {} THEN 0 ELSE f[Pick(s)] + g[s \ {Pick(s)}]]
Iter(f, S) == CHOOSE g : g = Body(f, S, g)

\* The library's sum is the value of that recursion at the whole set.
LEMMA SumIsIter ==
  ASSUME NEW f, NEW S
  PROVE SumFunctionOnSet(f, S) = Iter(f, S)[S]
  BY Zenon DEF SumFunctionOnSet, FoldFunctionOnSet, MapThenFoldSet, Iter, Body, Pick

\* A family of subsets of a finite set has a smallest one.
LEMMA Minimal ==
  ASSUME NEW S, IsFiniteSet(S), NEW B \in SUBSET SUBSET S, B # {}
  PROVE  \E T \in B : \A U \in B : U \subseteq T => U = T
<1>1. FiniteSubsetsOf(S) = SUBSET S
  BY FS_FiniteSubsetsOfFinite
<1>2. IsWellFoundedOn(StrictSubsetOrdering(S), SUBSET S)
  BY <1>1, FS_StrictSubsetOrderingWellFounded
<1>3. PICK T \in B : \A U \in B : <<U, T>> \notin StrictSubsetOrdering(S)
  BY <1>2, WFMin
<1>4. \A U \in B : U \subseteq T => U = T
  BY <1>3 DEF StrictSubsetOrdering
<1> QED  BY <1>4

\* Two solutions of the recursion agree where both are defined.
LEMMA Agree ==
  ASSUME NEW f, NEW S, IsFiniteSet(S), NEW U \in SUBSET S,
         NEW g, g = Body(f, S, g), NEW h, h = Body(f, U, h)
  PROVE  \A W \in SUBSET U : g[W] = h[W]
<1> DEFINE B == {W \in SUBSET U : g[W] # h[W]}
<1> SUFFICES ASSUME B # {} PROVE FALSE
  OBVIOUS
<1>1. B \in SUBSET SUBSET S
  OBVIOUS
<1>2. PICK W \in B : \A V \in B : V \subseteq W => V = W
  <2> HIDE DEF B
  <2> QED  BY <1>1, Minimal
<1>3. /\ g[W] = IF W = {} THEN 0 ELSE f[Pick(W)] + g[W \ {Pick(W)}]
      /\ h[W] = IF W = {} THEN 0 ELSE f[Pick(W)] + h[W \ {Pick(W)}]
  BY DEF Body
<1>4. W # {}
  BY <1>3
<1>5. Pick(W) \in W
  BY <1>4 DEF Pick
<1>6. g[W \ {Pick(W)}] = h[W \ {Pick(W)}]
  BY <1>2, <1>5
<1> QED  BY <1>3, <1>4, <1>6

\* The recursion has a solution on every finite set.
LEMMA IterDefined ==
  ASSUME NEW f, NEW S, IsFiniteSet(S)
  PROVE  Iter(f, S) = Body(f, S, Iter(f, S))
<1> DEFINE B == {T \in SUBSET S : ~ \E g : g = Body(f, T, g)}
<1>0. \A T : (\E g : g = Body(f, T, g)) => Iter(f, T) = Body(f, T, Iter(f, T))
  BY DEF Iter
<1> SUFFICES ASSUME B # {} PROVE FALSE
  BY <1>0
<1>1. B \in SUBSET SUBSET S
  OBVIOUS
<1>2. PICK T \in B : \A U \in B : U \subseteq T => U = T
  <2> HIDE DEF B
  <2> QED  BY <1>1, Minimal
<1>3. \A U \in SUBSET T : U # T => Iter(f, U) = Body(f, U, Iter(f, U))
  BY <1>0, <1>2
<1> DEFINE sum(U) == Iter(f, U)[U]
           g == [s \in SUBSET T |-> IF s = {} THEN 0 ELSE f[Pick(s)] + sum(s \ {Pick(s)})]
<1>4. \A U \in SUBSET T : U # T => g[U] = sum(U)
  <2> SUFFICES ASSUME NEW U \in SUBSET T, U # T PROVE g[U] = sum(U)
    OBVIOUS
  <2>1. Iter(f, U) = Body(f, U, Iter(f, U))
    BY <1>3
  <2>2. sum(U) = IF U = {} THEN 0 ELSE f[Pick(U)] + Iter(f, U)[U \ {Pick(U)}]
    BY <2>1 DEF Body
  <2>3. CASE U = {}
    BY <2>2, <2>3
  <2>4. CASE U # {}
    <3> DEFINE V == U \ {Pick(U)}
    <3>1. V \in SUBSET U /\ V \in SUBSET T /\ V # T /\ IsFiniteSet(U)
      BY FS_Subset
    <3>2. Iter(f, V) = Body(f, V, Iter(f, V))
      BY <1>3, <3>1
    <3>3. Iter(f, U)[V] = Iter(f, V)[V]
      <4> HIDE DEF V
      <4>1. \A W \in SUBSET V : Iter(f, U)[W] = Iter(f, V)[W]
        BY <2>1, <3>1, <3>2, Agree
      <4> QED  BY <4>1
    <3>4. g[U] = f[Pick(U)] + sum(V)
      BY <2>4
    <3> QED  BY <2>2, <2>4, <3>3, <3>4
  <2> QED  BY <2>3, <2>4
<1>5. \A s \in SUBSET T : s # {} => g[s \ {Pick(s)}] = sum(s \ {Pick(s)})
  <2> SUFFICES ASSUME NEW s \in SUBSET T, s # {}
               PROVE  g[s \ {Pick(s)}] = sum(s \ {Pick(s)})
    OBVIOUS
  <2>1. Pick(s) \in s
    BY DEF Pick
  <2>2. s \ {Pick(s)} \in SUBSET T /\ s \ {Pick(s)} # T
    BY <2>1
  <2> HIDE DEF g, sum
  <2> QED  BY <1>4, <2>2
<1>6. g = [s \in SUBSET T |-> IF s = {} THEN 0 ELSE f[Pick(s)] + g[s \ {Pick(s)}]]
  <2>1. \A s \in SUBSET T : (IF s = {} THEN 0 ELSE f[Pick(s)] + sum(s \ {Pick(s)}))
                            = (IF s = {} THEN 0 ELSE f[Pick(s)] + g[s \ {Pick(s)}])
    BY <1>5
  <2> QED  BY <2>1, Zenon
<1>7. g = Body(f, T, g)
  BY <1>6, Zenon DEF Body
<1> HIDE DEF g
<1> QED  BY <1>7

\* A sum takes its elements in some order.
LEMMA SumUnfolds ==
  ASSUME NEW f, NEW S, IsFiniteSet(S)
  PROVE  /\ S = {} => SumFunctionOnSet(f, S) = 0
         /\ S # {} => /\ Pick(S) \in S
                      /\ SumFunctionOnSet(f, S)
                            = f[Pick(S)] + SumFunctionOnSet(f, S \ {Pick(S)})
<1>1. Iter(f, S) = Body(f, S, Iter(f, S))
  BY IterDefined
<1>2. Iter(f, S)[S] = IF S = {} THEN 0 ELSE f[Pick(S)] + Iter(f, S)[S \ {Pick(S)}]
  BY <1>1 DEF Body
<1>3. CASE S = {}
  BY <1>2, <1>3, SumIsIter
<1>4. CASE S # {}
  <2> DEFINE V == S \ {Pick(S)}
  <2>1. V \in SUBSET S /\ IsFiniteSet(V)
    BY FS_Subset
  <2> HIDE DEF V
  <2>2. Iter(f, V) = Body(f, V, Iter(f, V))
    BY <2>1, IterDefined
  <2>3. \A W \in SUBSET V : Iter(f, S)[W] = Iter(f, V)[W]
    <3> DEFINE g == Iter(f, S)
               h == Iter(f, V)
    <3>1. g = Body(f, S, g) /\ h = Body(f, V, h)
      BY <1>1, <2>2
    <3> HIDE DEF g, h
    <3>2. \A W \in SUBSET V : g[W] = h[W]
      BY <2>1, <3>1, Agree
    <3> QED  BY <3>2 DEF g, h
  <2>4. Iter(f, S)[V] = SumFunctionOnSet(f, V)
    BY <2>3, SumIsIter
  <2>5. Pick(S) \in S
    BY <1>4 DEF Pick
  <2> QED  BY <1>2, <1>4, <2>4, <2>5, SumIsIter DEF V
<1> QED  BY <1>3, <1>4

\* A sum of naturals is one.
LEMMA SumType ==
  ASSUME NEW S, IsFiniteSet(S), NEW f, \A x \in S : f[x] \in Nat
  PROVE  SumFunctionOnSet(f, S) \in Nat
<1> DEFINE B == {T \in SUBSET S : SumFunctionOnSet(f, T) \notin Nat}
<1> SUFFICES ASSUME B # {} PROVE FALSE
  OBVIOUS
<1>1. B \in SUBSET SUBSET S
  OBVIOUS
<1>2. PICK T \in B : \A U \in B : U \subseteq T => U = T
  <2> HIDE DEF B
  <2> QED  BY <1>1, Minimal
<1>3. IsFiniteSet(T)
  BY FS_Subset
<1>4. T # {}
  <2>1. T = {} => SumFunctionOnSet(f, T) = 0
    BY <1>3, SumUnfolds
  <2> QED  BY <2>1
<1>5. /\ Pick(T) \in T
      /\ SumFunctionOnSet(f, T) = f[Pick(T)] + SumFunctionOnSet(f, T \ {Pick(T)})
  BY <1>3, <1>4, SumUnfolds
<1>6. SumFunctionOnSet(f, T \ {Pick(T)}) \in Nat
  BY <1>2, <1>5
<1> QED  BY <1>5, <1>6

\* Only the values on the set matter.
LEMMA SumSame ==
  ASSUME NEW S, IsFiniteSet(S), NEW f, NEW g, \A x \in S : f[x] = g[x]
  PROVE  SumFunctionOnSet(f, S) = SumFunctionOnSet(g, S)
<1> DEFINE B == {T \in SUBSET S : SumFunctionOnSet(f, T) # SumFunctionOnSet(g, T)}
<1> SUFFICES ASSUME B # {} PROVE FALSE
  OBVIOUS
<1>1. B \in SUBSET SUBSET S
  OBVIOUS
<1>2. PICK T \in B : \A U \in B : U \subseteq T => U = T
  <2> HIDE DEF B
  <2> QED  BY <1>1, Minimal
<1>3. IsFiniteSet(T)
  BY FS_Subset
<1>4. T # {}
  BY <1>3, SumUnfolds
<1>5. /\ Pick(T) \in T
      /\ SumFunctionOnSet(f, T) = f[Pick(T)] + SumFunctionOnSet(f, T \ {Pick(T)})
      /\ SumFunctionOnSet(g, T) = g[Pick(T)] + SumFunctionOnSet(g, T \ {Pick(T)})
  BY <1>3, <1>4, SumUnfolds
<1>6. SumFunctionOnSet(f, T \ {Pick(T)}) = SumFunctionOnSet(g, T \ {Pick(T)})
  BY <1>2, <1>5
<1> QED  BY <1>5, <1>6

\* Any element may be taken first.
LEMMA SumAny ==
  ASSUME NEW S, IsFiniteSet(S), NEW f, \A x \in S : f[x] \in Nat, NEW x \in S
  PROVE  SumFunctionOnSet(f, S) = f[x] + SumFunctionOnSet(f, S \ {x})
<1> DEFINE sum(T) == SumFunctionOnSet(f, T)
           B == {T \in SUBSET S : \E y \in T : sum(T) # f[y] + sum(T \ {y})}
<1> SUFFICES ASSUME B # {} PROVE FALSE
  OBVIOUS
<1>1. B \in SUBSET SUBSET S
  OBVIOUS
<1>2. PICK T \in B : \A U \in B : U \subseteq T => U = T
  <2> HIDE DEF B
  <2> QED  BY <1>1, Minimal
<1>3. PICK y \in T : sum(T) # f[y] + sum(T \ {y})
  OBVIOUS
<1>4. \A U \in SUBSET S : IsFiniteSet(U) /\ sum(U) \in Nat
  BY FS_Subset, SumType
<1> DEFINE p == Pick(T)
<1>5. p \in T /\ sum(T) = f[p] + sum(T \ {p})
  BY <1>4, SumUnfolds
<1>6. y # p
  BY <1>3, <1>5
<1>7. T \ {p} \notin B /\ T \ {y} \notin B
  <2> HIDE DEF B, p
  <2> QED  BY <1>2, <1>5
<1>8. sum(T \ {p}) = f[y] + sum((T \ {p}) \ {y})
  BY <1>5, <1>6, <1>7
<1>9. sum(T \ {y}) = f[p] + sum((T \ {y}) \ {p})
  BY <1>5, <1>6, <1>7
<1>10. (T \ {p}) \ {y} = (T \ {y}) \ {p}
  OBVIOUS
<1>11. f[y] \in Nat /\ f[p] \in Nat /\ sum((T \ {p}) \ {y}) \in Nat
  BY <1>4, <1>5
<1> HIDE DEF sum, p
<1> QED  BY <1>3, <1>5, <1>8, <1>9, <1>10, <1>11

\* One more element adds its value.
LEMMA SumOneMore ==
  ASSUME NEW S, IsFiniteSet(S), NEW x, x \notin S, NEW f, \A y \in S \cup {x} : f[y] \in Nat
  PROVE  SumFunctionOnSet(f, S \cup {x}) = SumFunctionOnSet(f, S) + f[x]
<1>1. IsFiniteSet(S \cup {x}) /\ (S \cup {x}) \ {x} = S
  BY FS_AddElement
<1>2. SumFunctionOnSet(f, S \cup {x}) = f[x] + SumFunctionOnSet(f, S)
  BY <1>1, SumAny
<1>3. SumFunctionOnSet(f, S) \in Nat
  BY SumType
<1> QED  BY <1>2, <1>3

\* Sums over two sets apart add up.
LEMMA SumApart ==
  ASSUME NEW A, NEW B, IsFiniteSet(A), IsFiniteSet(B), A \cap B = {},
         NEW f, \A x \in A \cup B : f[x] \in Nat
  PROVE  SumFunctionOnSet(f, A \cup B) = SumFunctionOnSet(f, A) + SumFunctionOnSet(f, B)
<1> DEFINE sum(T) == SumFunctionOnSet(f, T)
           Bad == {T \in SUBSET B : sum(A \cup T) # sum(A) + sum(T)}
<1> SUFFICES ASSUME Bad # {} PROVE FALSE
  OBVIOUS
<1>1. Bad \in SUBSET SUBSET B
  OBVIOUS
<1>2. PICK T \in Bad : \A U \in Bad : U \subseteq T => U = T
  <2> HIDE DEF Bad
  <2> QED  BY <1>1, Minimal
<1>3. \A U \in SUBSET B : IsFiniteSet(U) /\ IsFiniteSet(A \cup U) /\ sum(U) \in Nat
  <2> SUFFICES ASSUME NEW U \in SUBSET B
               PROVE  IsFiniteSet(U) /\ IsFiniteSet(A \cup U) /\ sum(U) \in Nat
    OBVIOUS
  <2>1. IsFiniteSet(U) /\ IsFiniteSet(A \cup U)
    BY FS_Subset, FS_Union
  <2> QED  BY <2>1, SumType
<1>4. sum(A) \in Nat
  BY SumType
<1>5. T # {}
  <2> SUFFICES ASSUME T = {} PROVE FALSE
    OBVIOUS
  <2>1. sum(T) = 0 /\ A \cup T = A
    BY <1>3, SumUnfolds
  <2> HIDE DEF sum
  <2> QED  BY <2>1, <1>2, <1>4
<1> DEFINE p == Pick(T)
<1>6. p \in T /\ sum(T) = f[p] + sum(T \ {p})
  BY <1>3, <1>5, SumUnfolds
<1>7. sum(A \cup (T \ {p})) = sum(A) + sum(T \ {p})
  <2>1. T \ {p} \in SUBSET B /\ T \ {p} # T
    BY <1>6
  <2>2. T \ {p} \notin Bad
    <3> HIDE DEF Bad
    <3> QED  BY <1>2, <2>1
  <2> QED  BY <2>1, <2>2
<1>8. sum((A \cup (T \ {p})) \cup {p}) = sum(A \cup (T \ {p})) + f[p]
  <2> HIDE DEF p
  <2>1. IsFiniteSet(A \cup (T \ {p})) /\ p \notin A \cup (T \ {p})
    BY <1>3, <1>6
  <2>2. \A y \in (A \cup (T \ {p})) \cup {p} : f[y] \in Nat
    BY <1>6
  <2> QED  BY <2>1, <2>2, SumOneMore
<1>9. (A \cup (T \ {p})) \cup {p} = A \cup T
  BY <1>6
<1>10. f[p] \in Nat /\ sum(T \ {p}) \in Nat
  BY <1>3, <1>6
<1>11. sum(A \cup T) # sum(A) + sum(T)
  OBVIOUS
<1> HIDE DEF sum, p, Bad
<1> QED  BY <1>4, <1>6, <1>7, <1>8, <1>9, <1>10, <1>11

\* Parts of a finite set that have nothing in common, and what is in one of them.
Parted(I, U, part) ==
    /\ IsFiniteSet(I) /\ IsFiniteSet(U) /\ part \in [I -> SUBSET U]
    /\ \A i, j \in I : i # j => part[i] \cap part[j] = {}

Covered(I, U, part) == {x \in U : \E i \in I : x \in part[i]}

\* Each g[i] is the sum of f over a part.
PartSums(I, U, part, f, g) ==
    /\ \A x \in U : f[x] \in Nat
    /\ \A i \in I : g[i] = SumFunctionOnSet(f, part[i])

\* A sum may be taken part by part.
LEMMA SumByParts ==
  ASSUME NEW I, NEW U, NEW part, NEW f, NEW g, Parted(I, U, part), PartSums(I, U, part, f, g)
  PROVE  SumFunctionOnSet(g, I) = SumFunctionOnSet(f, Covered(I, U, part))
<1> USE DEF Parted, Covered, PartSums
<1> DEFINE sum(T) == SumFunctionOnSet(f, T)
           In(J) == {x \in U : \E i \in J : x \in part[i]}
           Bad == {J \in SUBSET I : SumFunctionOnSet(g, J) # sum(In(J))}
<1> SUFFICES ASSUME Bad # {} PROVE FALSE
  OBVIOUS
<1>1. Bad \in SUBSET SUBSET I
  OBVIOUS
<1>2. PICK J \in Bad : \A K \in Bad : K \subseteq J => K = J
  <2> HIDE DEF Bad
  <2> QED  BY <1>1, Minimal
<1>3. IsFiniteSet(J)
  BY FS_Subset
<1>4. J # {}
  <2> SUFFICES ASSUME J = {} PROVE FALSE
    OBVIOUS
  <2>1. In(J) = {}
    OBVIOUS
  <2>2. sum(In(J)) = 0
    BY <2>1, FS_EmptySet, SumUnfolds
  <2>3. SumFunctionOnSet(g, J) = 0
    BY <1>3, SumUnfolds
  <2> QED  BY <2>2, <2>3
<1> DEFINE i == Pick(J)
           K == J \ {i}
<1>5. i \in J /\ SumFunctionOnSet(g, J) = g[i] + SumFunctionOnSet(g, K)
  BY <1>3, <1>4, SumUnfolds
<1>6. SumFunctionOnSet(g, K) = sum(In(K))
  <2>1. K \in SUBSET I /\ K # J
    BY <1>5
  <2>2. K \notin Bad
    <3> HIDE DEF Bad
    <3> QED  BY <1>2, <2>1
  <2> QED  BY <2>1, <2>2
<1>7. g[i] = sum(part[i])
  BY <1>5
<1>8. In(J) = part[i] \cup In(K) /\ part[i] \cap In(K) = {}
  <2>1. i \in I /\ J \subseteq I /\ part[i] \subseteq U
    BY <1>5
  <2>2. \A x \in U : (\E j \in J : x \in part[j]) <=> (x \in part[i] \/ \E j \in K : x \in part[j])
    BY <1>5
  <2>3. \A j \in K : part[i] \cap part[j] = {}
    BY <2>1
  <2> HIDE DEF i, K
  <2> QED  BY <2>1, <2>2, <2>3
<1>9. sum(part[i] \cup In(K)) = sum(part[i]) + sum(In(K))
  <2>1. part[i] \subseteq U /\ In(K) \subseteq U
    BY <1>5
  <2> HIDE DEF i, K, In
  <2>2. IsFiniteSet(part[i]) /\ IsFiniteSet(In(K))
    BY <2>1, FS_Subset
  <2> QED  BY <1>8, <2>1, <2>2, SumApart
<1>10. SumFunctionOnSet(g, J) # sum(In(J))
  OBVIOUS
<1> HIDE DEF i, K, In, sum, Bad
<1> QED  BY <1>5, <1>6, <1>7, <1>8, <1>9, <1>10

-----------------------------------------------------------------------------
(* Numbers and sequences. *)

\* A nonempty set of naturals has a least element.
LEMMA Least ==
  ASSUME NEW S \in SUBSET Nat, S # {}
  PROVE  \E n \in S : \A m \in S : n <= m
<1> DEFINE R == OpToRel(<, Nat)
<1>1. R = {ss \in Nat \X Nat : ss[1] < ss[2]}
  BY DEF OpToRel
<1>2. IsWellFoundedOn(R, Nat)
  BY NatLessThanWellFounded
<1> HIDE DEF R
<1>3. PICK n \in S : \A m \in S : <<m, n>> \notin R
  BY <1>2, WFMin
<1>4. \A m \in S : n <= m
  <2> SUFFICES ASSUME NEW m \in S PROVE n <= m
    OBVIOUS
  <2>1. m \in Nat /\ n \in Nat
    OBVIOUS
  <2>2. m < n => <<m, n>> \in R
    BY <1>1, <2>1
  <2> QED  BY <1>3, <2>1, <2>2
<1> QED  BY <1>4

\* The library's minimum of a nonempty set of naturals is its least element.
LEMMA MinIsLeast ==
  ASSUME NEW S \in SUBSET Nat, S # {}
  PROVE  Min(S) \in S /\ \A m \in S : Min(S) <= m
BY Least DEF Min

\* A nonempty set of naturals with a bound has a greatest element.
LEMMA MaxIsGreatest ==
  ASSUME NEW n \in Nat, NEW S \in SUBSET (0 .. n), S # {}
  PROVE  Max(S) \in S /\ \A m \in S : m <= Max(S)
<1> DEFINE B == {k \in Nat : \A m \in S : m <= k}
<1>1. n \in B
  OBVIOUS
<1>2. PICK k \in B : \A m \in B : k <= m
  BY <1>1, Least
<1>3. k \in S
  <2> SUFFICES ASSUME k \notin S PROVE FALSE
    OBVIOUS
  <2>1. \A m \in S : m \in Nat /\ m <= k /\ m # k
    BY <1>2
  <2>2. k \in Nat /\ k > 0
    <3>1. PICK m \in S : TRUE
      OBVIOUS
    <3> QED  BY <2>1, <3>1
  <2>3. k - 1 \in B
    BY <2>1, <2>2
  <2> QED  BY <1>2, <2>3
<1>4. \E x \in S : \A y \in S : x >= y
  BY <1>2, <1>3
<1> QED  BY <1>4 DEF Max

\* FlattenSeq joins the sequences of a sequence.
LEMMA Flattened ==
  ASSUME NEW S, NEW ss \in Seq(Seq(S)), Len(ss) > 0
  PROVE  /\ FlattenSeq(ss) \in Seq(S)
         /\ \A x : x \in Range(FlattenSeq(ss)) <=> \E i \in 1 .. Len(ss) : x \in Range(ss[i])
<1> DEFINE n == Len(ss)
           Flat(k, f) == [i \in 1 .. k |-> IF i = 1 THEN ss[i] ELSE f[i - 1] \o ss[i]]
           Solved(k) == \E f : f = Flat(k, f)
           flat == CHOOSE f : f = Flat(n, f)
<1>0. FlattenSeq(ss) = IF n = 0 THEN ss ELSE flat[n]
  BY Zenon DEF FlattenSeq
<1>1. /\ n \in Nat /\ n # 0 /\ n \in 1 .. n /\ 1 .. n \subseteq Nat
      /\ \A i \in 1 .. n : ss[i] \in Seq(S)
  BY LenProperties
<1>2. Solved(1)
  <2> DEFINE f == [i \in 1 .. 1 |-> ss[i]]
  <2>1. f = Flat(1, f)
    OBVIOUS
  <2> HIDE DEF f
  <2> QED  BY <2>1
<1>3. ASSUME NEW k \in 1 .. n, k # 1, Solved(k - 1) PROVE Solved(k)
  <2>1. PICK g : g = Flat(k - 1, g)
    BY <1>3
  <2> DEFINE f == [i \in 1 .. k |-> IF i = k THEN g[k - 1] \o ss[k] ELSE g[i]]
  <2>2. /\ k \in Nat /\ k \in 1 .. k /\ k - 1 \in 1 .. k - 1 /\ 1 \in 1 .. k - 1
        /\ \A i \in 1 .. k - 1 : i \in 1 .. k /\ i # k
    BY <1>1, <1>3
  <2>3. \A i \in 1 .. k - 1 : g[i] = IF i = 1 THEN ss[i] ELSE g[i - 1] \o ss[i]
    BY <2>1
  <2>4. f[k] = g[k - 1] \o ss[k] /\ \A i \in 1 .. k - 1 : f[i] = g[i]
    BY <2>2
  <2>5. f = [i \in 1 .. k |-> f[i]]
    OBVIOUS
  <2> HIDE DEF f
  <2>6. ASSUME NEW i \in 1 .. k
        PROVE  f[i] = IF i = 1 THEN ss[i] ELSE f[i - 1] \o ss[i]
    <3>1. CASE i = k
      BY <1>3, <2>2, <2>4, <3>1
    <3>2. CASE i # k
      <4>1. i \in 1 .. k - 1 /\ (i # 1 => i - 1 \in 1 .. k - 1)
        BY <2>2, <2>6, <3>2
      <4> QED  BY <2>3, <2>4, <4>1
    <3> QED  BY <3>1, <3>2
  <2>7. f = Flat(k, f)
    BY <2>5, <2>6
  <2> QED  BY <2>7
<1> HIDE DEF n
<1>4. Solved(n)
  <2> DEFINE B == {k \in 1 .. n : ~ Solved(k)}
  <2> SUFFICES ASSUME B # {} PROVE FALSE
    BY <1>1, Zenon
  <2>1. PICK k \in B : \A m \in B : k <= m
    <3> B \in SUBSET Nat
      BY <1>1, Zenon
    <3> HIDE DEF B
    <3> QED  BY Least
  <2>2. k \in 1 .. n /\ ~ Solved(k)
    OBVIOUS
  <2> HIDE DEF Solved
  <2>3. k # 1
    BY <1>2, <2>2
  <2>4. k - 1 \in 1 .. n /\ ~ (k <= k - 1)
    BY <1>1, <2>2, <2>3
  <2>5. Solved(k - 1)
    BY <2>1, <2>4
  <2> QED  BY <1>3, <2>2, <2>3, <2>5
<1>5. flat = Flat(n, flat)
  <2> HIDE DEF Flat
  <2> QED  BY <1>4
<1> HIDE DEF flat
<1>6. \A i \in 1 .. n : flat[i] = IF i = 1 THEN ss[i] ELSE flat[i - 1] \o ss[i]
  BY <1>5
<1> DEFINE Right(k) == /\ flat[k] \in Seq(S)
                       /\ \A x : x \in Range(flat[k]) <=> \E i \in 1 .. k : x \in Range(ss[i])
<1>7. Right(n)
  <2> DEFINE B == {k \in 1 .. n : ~ Right(k)}
  <2> SUFFICES ASSUME B # {} PROVE FALSE
    BY <1>1, Zenon
  <2>1. PICK k \in B : \A m \in B : k <= m
    <3> B \in SUBSET Nat
      BY <1>1, Zenon
    <3> HIDE DEF B
    <3> QED  BY Least
  <2>2. k \in 1 .. n /\ k \in Nat /\ ~ Right(k)
    BY <1>1
  <2>3. k # 1
    <3>0. 1 \in 1 .. n
      BY <1>1
    <3>1. flat[1] = ss[1]
      BY <1>6, <3>0
    <3>2. 1 .. 1 = {1}
      OBVIOUS
    <3>3. Right(1)
      BY <1>1, <3>0, <3>1, <3>2, Zenon
    <3> QED  BY <2>2, <3>3
  <2>4. k - 1 \in 1 .. n /\ ~ (k <= k - 1)
    BY <1>1, <2>2, <2>3
  <2>5. Right(k - 1)
    BY <2>1, <2>4
  <2>6. flat[k] = flat[k - 1] \o ss[k] /\ flat[k - 1] \in Seq(S) /\ ss[k] \in Seq(S)
    BY <1>1, <1>6, <2>2, <2>3, <2>5
  <2>7. flat[k] \in Seq(S) /\ Range(flat[k]) = Range(flat[k - 1]) \cup Range(ss[k])
    BY <2>6, ConcatProperties, RangeConcatenation
  <2>8. 1 .. k = (1 .. k - 1) \cup {k}
    BY <1>1, <2>2
  <2> QED  BY <2>2, <2>5, <2>7, <2>8, Zenon
<1> QED  BY <1>0, <1>1, <1>7 DEF n

\* SetToSeq lists the elements of a finite set.
LEMMA Listed ==
  ASSUME NEW S, IsFiniteSet(S)
  PROVE  /\ Cardinality(S) \in Nat
         /\ SetToSeq(S) \in [1 .. Cardinality(S) -> S]
         /\ \A x \in S : \E i \in 1 .. Cardinality(S) : SetToSeq(S)[i] = x
<1> DEFINE n == Cardinality(S)
           L == SetToSeq(S)
<1>1. n \in Nat /\ ExistsBijection(1 .. n, S)
  BY FS_CardinalityType
<1>2. \E f \in [1 .. n -> S] : IsInjective(f)
  BY <1>1 DEF ExistsBijection, Bijection, Injection
<1>3. L \in [1 .. n -> S] /\ IsInjective(L)
  BY <1>2 DEF SetToSeq
<1> HIDE DEF L
<1>4. L \in Injection(1 .. n, S)
  BY <1>3 DEF Injection
<1>5. Cardinality(1 .. n) = n
  BY <1>1, FS_Interval
<1>6. L \in Surjection(1 .. n, S)
  BY <1>4, <1>5, FS_Injection
<1> QED  BY <1>1, <1>3, <1>6 DEF Surjection, L

-----------------------------------------------------------------------------
(* The queries of a request. *)

Queries ==
    [part : {"report", "normalized", "day", "norm"}, of : {"self", "people", "peer"},
     space : Spaces, days : Days \X Days, back : 0 .. BaselineWeeks]

\* The queries behind those of build_report itself.
Later == {q \in Queries : q.part # "report"}

\* A period is two days, and each day between them is one.
LEMMA PeriodFacts ==
  ASSUME NEW days \in Periods
  PROVE  /\ days \in Days \X Days /\ days = <<days[1], days[2]>>
         /\ days[1] \in Nat /\ days[2] \in Nat /\ days[1] <= days[2]
         /\ \A d \in days[1] .. days[2] : d \in Days /\ d \in Nat /\ <<d, d>> \in Days \X Days
<1>1. days \in Days \X Days /\ days[1] <= days[2]
  BY ReportsAssumption DEF ReportsAssumption
<1>2. Len(Midnight) \in Nat /\ Days \subseteq Nat
  BY ReportsAssumption DEF ReportsAssumption, Days
<1>3. days = <<days[1], days[2]>> /\ days[1] \in Days /\ days[2] \in Days
  BY <1>1
<1>4. \A d \in days[1] .. days[2] : d \in Days
  BY <1>2, <1>3 DEF Days
<1> QED  BY <1>1, <1>2, <1>3, <1>4

\* The trailing weeks of a part, each of them once a request asks for it.
LEMMA TrailingQueries ==
  ASSUME NEW part \in {"normalized", "day", "norm"}, NEW space \in Spaces,
         NEW days \in Days \X Days
  PROVE  /\ Trailing(part, space, days) \in Seq(Later)
         /\ \A w \in 1 .. BaselineWeeks :
                Query(part, "self", space, days, w) \in Range(Trailing(part, space, days))
<1>1. \A w \in 1 .. BaselineWeeks : Query(part, "self", space, days, w) \in Later
  BY DEF Query, Later, Queries
<1>2. BaselineWeeks \in Nat
  BY ReportsAssumption DEF ReportsAssumption
<1>3. Trailing(part, space, days) \in [1 .. BaselineWeeks -> Later]
  BY <1>1 DEF Trailing
<1>4. Trailing(part, space, days) \in Seq(Later)
  BY <1>2, <1>3, SeqDef
<1>5. \A w \in 1 .. BaselineWeeks :
        Trailing(part, space, days)[w] = Query(part, "self", space, days, w)
  BY DEF Trailing
<1>6. DOMAIN Trailing(part, space, days) = 1 .. BaselineWeeks
  BY DEF Trailing
<1> QED  BY <1>4, <1>5, <1>6 DEF Range

\* What normalize_space asks, for the space and for its peers.
LEMMA NormalizeQueries ==
  ASSUME NEW part \in {"normalized", "norm"}, NEW space \in Spaces, NEW days \in Days \X Days
  PROVE  LET script == Normalize(part, space, days)
         IN  /\ script \in Seq(Later)
             /\ Query(part, "people", space, days, 0) \in Range(script)
             /\ \A w \in 0 .. BaselineWeeks :
                    Query(part, "self", space, days, w) \in Range(script)
             /\ \A s \in Spaces : Query(part, "peer", s, days, 0) \in Range(script)
<1> DEFINE self == Query(part, "self", space, days, 0)
           all == Query(part, "people", space, days, 0)
           n == Cardinality(Spaces)
           own == <<self, all>>
           past == Trailing(part, space, days)
           peers == [i \in 1 .. n |-> Query(part, "peer", SetToSeq(Spaces)[i], days, 0)]
<1>1. /\ n \in Nat /\ SetToSeq(Spaces) \in [1 .. n -> Spaces]
      /\ \A s \in Spaces : \E i \in 1 .. n : SetToSeq(Spaces)[i] = s
  BY ReportsAssumption, Listed DEF ReportsAssumption
<1>2. BaselineWeeks \in Nat
  BY ReportsAssumption DEF ReportsAssumption
<1>3. self \in Later /\ all \in Later
  BY <1>2 DEF Query, Later, Queries
<1>4. own \in Seq(Later) /\ self \in Range(own) /\ all \in Range(own)
  <2>1. own \in Seq(Later) /\ DOMAIN own = 1 .. 2 /\ own[1] = self /\ own[2] = all
    <3> HIDE DEF self, all
    <3> QED  BY <1>3
  <2> HIDE DEF own, self, all
  <2>2. 1 \in 1 .. 2 /\ 2 \in 1 .. 2
    OBVIOUS
  <2> QED  BY <2>1, <2>2, Zenon DEF Range
<1>5. /\ past \in Seq(Later)
      /\ \A w \in 1 .. BaselineWeeks : Query(part, "self", space, days, w) \in Range(past)
  BY TrailingQueries
<1>6. peers \in Seq(Later) /\ \A s \in Spaces : Query(part, "peer", s, days, 0) \in Range(peers)
  <2>1. \A s \in Spaces : Query(part, "peer", s, days, 0) \in Later
    BY <1>2 DEF Query, Later, Queries
  <2>2. peers \in [1 .. n -> Later]
    BY <1>1, <2>1
  <2>3. peers \in Seq(Later)
    BY <1>1, <2>2, SeqDef
  <2>4. \A s \in Spaces : \E i \in DOMAIN peers : peers[i] = Query(part, "peer", s, days, 0)
    BY <1>1
  <2> QED  BY <2>3, <2>4 DEF Range
<1>7. Normalize(part, space, days) = (own \o past) \o peers
  BY DEF Normalize
<1> HIDE DEF own, past, peers
<1>8. own \o past \in Seq(Later) /\ Range(own \o past) = Range(own) \cup Range(past)
  BY <1>4, <1>5, ConcatProperties, RangeConcatenation
<1> DEFINE front == own \o past
<1>9. /\ (own \o past) \o peers \in Seq(Later)
      /\ Range((own \o past) \o peers) = Range(own \o past) \cup Range(peers)
  <2>1. front \in Seq(Later)
    BY <1>8
  <2> HIDE DEF front
  <2>2. front \o peers \in Seq(Later) /\ Range(front \o peers) = Range(front) \cup Range(peers)
    BY <1>6, <2>1, ConcatProperties, RangeConcatenation
  <2> QED  BY <2>2 DEF front
<1>10. \A w \in 0 .. BaselineWeeks : w = 0 \/ w \in 1 .. BaselineWeeks
  BY <1>2
<1> QED  BY <1>4, <1>5, <1>6, <1>7, <1>8, <1>9, <1>10

\* What iter_daily_anomalies asks of each day of the period.
LEMMA DayQueries ==
  ASSUME NEW space \in Spaces, NEW days \in Periods
  PROVE  /\ EachDay(space, days) \in Seq(Later)
         /\ \A d \in days[1] .. days[2], w \in 0 .. BaselineWeeks :
                Query("day", "self", space, <<d, d>>, w) \in Range(EachDay(space, days))
<1> DEFINE n == days[2] - days[1] + 1
           today(d) == <<Query("day", "self", space, <<d, d>>, 0)>>
           day(d) == today(d) \o Trailing("day", space, <<d, d>>)
           ss == [i \in 1 .. n |-> day(days[1] + i - 1)]
<1>1. /\ n \in Nat /\ n > 0
      /\ \A d \in days[1] .. days[2] : /\ <<d, d>> \in Days \X Days
                                       /\ d - days[1] + 1 \in 1 .. n
                                       /\ days[1] + (d - days[1] + 1) - 1 = d
      /\ \A i \in 1 .. n : days[1] + i - 1 \in days[1] .. days[2]
  BY PeriodFacts
<1>2. BaselineWeeks \in Nat
  BY ReportsAssumption DEF ReportsAssumption
<1>3. ASSUME NEW d \in days[1] .. days[2]
      PROVE  /\ day(d) \in Seq(Later)
             /\ \A w \in 0 .. BaselineWeeks :
                    Query("day", "self", space, <<d, d>>, w) \in Range(day(d))
  <2> DEFINE q == Query("day", "self", space, <<d, d>>, 0)
             past == Trailing("day", space, <<d, d>>)
  <2>1. q \in Later
    BY <1>1, <1>2 DEF Query, Later, Queries
  <2>2. <<q>> \in Seq(Later) /\ q \in Range(<<q>>)
    <3>1. <<q>> \in Seq(Later) /\ DOMAIN <<q>> = 1 .. 1 /\ <<q>>[1] = q
      <4> HIDE DEF q
      <4> QED  BY <2>1
    <3>2. 1 \in 1 .. 1
      OBVIOUS
    <3> HIDE DEF q
    <3> QED  BY <3>1, <3>2, Zenon DEF Range
  <2>3. /\ past \in Seq(Later)
        /\ \A w \in 1 .. BaselineWeeks : Query("day", "self", space, <<d, d>>, w) \in Range(past)
    BY <1>1, TrailingQueries
  <2>4. \A w \in 0 .. BaselineWeeks : w = 0 \/ w \in 1 .. BaselineWeeks
    BY <1>2
  <2>5. <<q>> \o past \in Seq(Later) /\ Range(<<q>> \o past) = Range(<<q>>) \cup Range(past)
    <3> DEFINE one == <<q>>
    <3>1. one \in Seq(Later) /\ past \in Seq(Later)
      BY <2>2, <2>3
    <3> HIDE DEF one, past
    <3>2. one \o past \in Seq(Later)
      BY <3>1, ConcatProperties
    <3>3. Range(one \o past) = Range(one) \cup Range(past)
      BY <3>1, RangeConcatenation
    <3> QED  BY <3>2, <3>3 DEF one
  <2>6. \A w \in 0 .. BaselineWeeks :
            Query("day", "self", space, <<d, d>>, w) \in Range(<<q>> \o past)
    <3> HIDE DEF past
    <3> SUFFICES ASSUME NEW w \in 0 .. BaselineWeeks
                 PROVE  Query("day", "self", space, <<d, d>>, w) \in Range(<<q>> \o past)
      OBVIOUS
    <3>1. CASE w = 0
      BY <2>2, <2>5, <3>1
    <3>2. CASE w # 0
      BY <2>3, <2>4, <2>5, <3>2
    <3> QED  BY <3>1, <3>2
  <2> QED  BY <2>5, <2>6
<1> HIDE DEF day
<1>4. /\ ss \in Seq(Seq(Later)) /\ Len(ss) = n /\ Len(ss) > 0
      /\ \A i \in 1 .. n : ss[i] = day(days[1] + i - 1)
  <2>1. ss \in [1 .. n -> Seq(Later)]
    BY <1>1, <1>3
  <2>2. \A i \in 1 .. n : ss[i] = day(days[1] + i - 1)
    OBVIOUS
  <2> HIDE DEF ss, n
  <2>3. ss \in Seq(Seq(Later))
    BY <1>1, <2>1, SeqDef
  <2>4. Len(ss) = n
    BY <1>1, <2>1, <2>3, LenProperties
  <2> QED  BY <1>1, <2>2, <2>3, <2>4
<1>5. EachDay(space, days) = FlattenSeq(ss)
  BY DEF EachDay, day
<1> HIDE DEF ss, n
<1>6. /\ FlattenSeq(ss) \in Seq(Later)
      /\ \A x : x \in Range(FlattenSeq(ss)) <=> \E i \in 1 .. n : x \in Range(ss[i])
  BY <1>4, Flattened
<1>7. ASSUME NEW d \in days[1] .. days[2], NEW w \in 0 .. BaselineWeeks
      PROVE  Query("day", "self", space, <<d, d>>, w) \in Range(FlattenSeq(ss))
  <2>1. ss[d - days[1] + 1] = day(d) /\ d - days[1] + 1 \in 1 .. n
    BY <1>1, <1>4
  <2> QED  BY <1>3, <1>6, <2>1
<1> QED  BY <1>5, <1>6, <1>7

\* Everything a request asks, and the order of the first query.
LEMMA ScriptQueries ==
  ASSUME NEW space \in Spaces, NEW days \in Periods
  PROVE  LET script == Script(space, days)
             report == Query("report", "self", space, days, 0)
         IN  /\ script \in Seq(Queries)
             /\ Len(script) > 0 /\ script[1] = report
             /\ \A i \in 2 .. Len(script) : script[i] # report
             /\ Query("report", "people", space, days, 0) \in Range(script)
             /\ \A part \in {"normalized", "norm"} :
                    /\ Query(part, "people", space, days, 0) \in Range(script)
                    /\ \A w \in 0 .. BaselineWeeks :
                            Query(part, "self", space, days, w) \in Range(script)
                    /\ \A s \in Spaces : Query(part, "peer", s, days, 0) \in Range(script)
             /\ \A d \in days[1] .. days[2], w \in 0 .. BaselineWeeks :
                    Query("day", "self", space, <<d, d>>, w) \in Range(script)
<1> DEFINE report == Query("report", "self", space, days, 0)
           total == Query("report", "people", space, days, 0)
           own == <<report, total>>
           n1 == Normalize("normalized", space, days)
           each == EachDay(space, days)
           n2 == Normalize("norm", space, days)
           s1 == own \o n1
           s2 == s1 \o each
           s3 == s2 \o n2
<1>1. days \in Days \X Days /\ 0 \in 0 .. BaselineWeeks
  BY PeriodFacts, ReportsAssumption DEF ReportsAssumption
<1>2. report \in Queries /\ total \in Queries /\ report # total /\ report \notin Later
  BY <1>1 DEF Query, Queries, Later
<1>3. Seq(Later) \subseteq Seq(Queries)
  <2>1. Later \subseteq Queries
    BY DEF Later
  <2> QED  BY <2>1, SeqMonotonic
<1>4. n1 \in Seq(Later) /\ each \in Seq(Later) /\ n2 \in Seq(Later)
  BY <1>1, NormalizeQueries, DayQueries
<1> DEFINE Good(s) == /\ s \in Seq(Queries) /\ Len(s) > 0 /\ s[1] = report
                      /\ \A i \in 2 .. Len(s) : s[i] # report
<1>5. ASSUME NEW s, Good(s), NEW t \in Seq(Later)
      PROVE  Good(s \o t) /\ Range(s \o t) = Range(s) \cup Range(t)
  <2>1. t \in Seq(Queries) /\ \A i \in 1 .. Len(t) : t[i] # report
    BY <1>2, <1>3, <1>5
  <2> HIDE DEF report
  <2>2. /\ s \o t \in Seq(Queries) /\ Len(s \o t) = Len(s) + Len(t)
        /\ \A i \in 1 .. Len(s) + Len(t) :
                (s \o t)[i] = IF i <= Len(s) THEN s[i] ELSE t[i - Len(s)]
        /\ Range(s \o t) = Range(s) \cup Range(t)
    BY <1>5, <2>1, ConcatProperties, RangeConcatenation
  <2>3. Len(s) \in Nat /\ Len(t) \in Nat
    BY <1>5, <2>1
  <2> QED  BY <1>5, <2>1, <2>2, <2>3
<1>6. Good(own) /\ total \in Range(own)
  <2> HIDE DEF report, total
  <2>1. own \in Seq(Queries) /\ Len(own) = 2 /\ own[1] = report /\ own[2] = total
    BY <1>2
  <2>2. DOMAIN own = 1 .. 2 /\ 2 \in 1 .. 2 /\ 2 .. 2 = {2}
    OBVIOUS
  <2> HIDE DEF own
  <2>3. total \in Range(own)
    BY <2>1, <2>2, Zenon DEF Range
  <2>4. \A i \in 2 .. Len(own) : own[i] # report
    BY <1>2, <2>1, <2>2
  <2> QED  BY <2>1, <2>3, <2>4
<1>7. Script(space, days) = s3
  BY DEF Script
<1> HIDE DEF Good, own
<1>8. Good(s1) /\ Range(s1) = Range(own) \cup Range(n1)
  <2> HIDE DEF n1
  <2> QED  BY <1>4, <1>5, <1>6
<1>9. Good(s2) /\ Range(s2) = Range(s1) \cup Range(each)
  <2> HIDE DEF s1, each
  <2> QED  BY <1>4, <1>5, <1>8
<1>10. Good(s3) /\ Range(s3) = Range(s2) \cup Range(n2)
  <2> HIDE DEF s2, n2
  <2> QED  BY <1>4, <1>5, <1>9
<1>11. \A x : x \in Range(own) \cup Range(n1) \cup Range(each) \cup Range(n2) => x \in Range(s3)
  <2> HIDE DEF n1, each, n2, s1, s2, s3
  <2> QED  BY <1>8, <1>9, <1>10
<1>12. /\ Query("normalized", "people", space, days, 0) \in Range(n1)
       /\ \A w \in 0 .. BaselineWeeks : Query("normalized", "self", space, days, w) \in Range(n1)
       /\ \A s \in Spaces : Query("normalized", "peer", s, days, 0) \in Range(n1)
       /\ Query("norm", "people", space, days, 0) \in Range(n2)
       /\ \A w \in 0 .. BaselineWeeks : Query("norm", "self", space, days, w) \in Range(n2)
       /\ \A s \in Spaces : Query("norm", "peer", s, days, 0) \in Range(n2)
  BY <1>1, NormalizeQueries
<1>13. \A d \in days[1] .. days[2], w \in 0 .. BaselineWeeks :
            Query("day", "self", space, <<d, d>>, w) \in Range(each)
  BY DayQueries
<1> HIDE DEF n1, each, n2, s3, report, total
<1>14. Good(s3) /\ total \in Range(s3)
  BY <1>6, <1>10, <1>11
<1> QED  BY <1>7, <1>11, <1>12, <1>13, <1>14 DEF Good, report, total

-----------------------------------------------------------------------------
(* The inductive invariant. *)

Results == UNION {[D -> RowType] : D \in SUBSET Buckets}
Counts == UNION {[D -> Nat] : D \in SUBSET Buckets}

\* Queries and what they returned; those for a space returned rows.
Reading ==
    /\ todo \in Seq(Queries)
    /\ seen \in Seq([query : Queries, result : Results \cup Counts])
    /\ \A i \in DOMAIN seen : seen[i].query.of # "people" => seen[i].result \in Results

\* Unless a payload wrote what was read, a query would return the same again.
Current == ~moved => \A i \in DOMAIN seen : seen[i].result = Result(seen[i].query)

\* A bucket that had a row has one still, in the table and in every later reading.
Grown ==
    \A i \in DOMAIN seen : seen[i].query.of # "people" =>
        /\ DOMAIN seen[i].result \subseteq DOMAIN Result(seen[i].query)
        /\ \A j \in DOMAIN seen :
                /\ i < j /\ seen[j].query.of # "people"
                /\ seen[j].query.space = seen[i].query.space
                /\ seen[j].query.days = seen[i].query.days
                /\ seen[j].query.back = seen[i].query.back
                => DOMAIN seen[i].result \subseteq DOMAIN seen[j].result

IInv == TypeOK /\ Reading /\ Current /\ Grown

\* What a query returns, and that it finds a row where there is one.
LEMMA ResultFacts ==
  ASSUME TypeOK, NEW q \in Queries
  PROVE  /\ BucketsOf(q) \subseteq Buckets
         /\ Result(q) \in Results \cup Counts
         /\ q.of # "people" =>
                /\ Result(q) \in Results
                /\ DOMAIN Result(q) = {b \in BucketsOf(q) : rows[q.space][b] # None}
<1>1. BucketsOf(q) \subseteq Buckets
  BY DEF BucketsOf, PeriodBuckets, ShiftedBuckets, Between
<1>2. CASE q.of = "people"
  <2>1. Result(q) = [b \in BucketsOf(q) |-> people[b]]
    BY <1>2 DEF Result, Restrict
  <2>2. \A b \in BucketsOf(q) : people[b] \in Nat
    BY <1>1 DEF TypeOK
  <2>3. Result(q) \in [BucketsOf(q) -> Nat]
    BY <2>1, <2>2
  <2> QED  BY <1>1, <1>2, <2>3 DEF Counts
<1>3. CASE q.of # "people"
  <2> DEFINE D == {b \in BucketsOf(q) : rows[q.space][b] # None}
  <2>1. Result(q) = [b \in D |-> rows[q.space][b]]
    BY <1>3 DEF Result, Restrict
  <2>2. \A b \in D : rows[q.space][b] \in RowType
    <3>1. q.space \in Spaces
      BY DEF Queries
    <3> QED  BY <1>1, <3>1 DEF TypeOK
  <2>3. D \subseteq Buckets
    BY <1>1
  <2> HIDE DEF D
  <2>4. Result(q) \in [D -> RowType] /\ DOMAIN Result(q) = D
    BY <2>1, <2>2
  <2>5. Result(q) \in Results
    BY <2>3, <2>4 DEF Results
  <2> QED  BY <1>1, <2>4, <2>5 DEF D
<1> QED  BY <1>2, <1>3

\* An answered query is a query of the program.
LEMMA SeenEntries ==
  ASSUME Reading
  PROVE  /\ DOMAIN seen = 1 .. Len(seen) /\ Len(seen) \in Nat
         /\ \A i \in DOMAIN seen : seen[i].query \in Queries
<1>1. seen \in [1 .. Len(seen) -> [query : Queries, result : Results \cup Counts]]
      /\ Len(seen) \in Nat
  BY LenProperties DEF Reading
<1> QED  BY <1>1

\* Nothing has been asked, and nothing read.
LEMMA InitInv == Init => IInv
<1> SUFFICES ASSUME Init PROVE IInv
  OBVIOUS
<1>1. rows \in [Spaces -> [Buckets -> RowType \cup {None}]]
  BY RowsAssumption DEF Init, RowsAssumption
<1>2. people \in [Buckets -> Nat]
  BY DEF Init
<1>3. excluded \subseteq Days /\ archived \subseteq Spaces /\ ingests \in 0 .. MaxIngests
  BY ReportsAssumption DEF Init, ReportsAssumption
<1>4. asked = None /\ todo = << >> /\ seen = << >> /\ moved = FALSE
  BY DEF Init
<1>5. DOMAIN seen = {} /\ \A S : seen \in Seq(S) /\ todo \in Seq(S)
  BY <1>4
<1>6. TypeOK
  BY <1>1, <1>2, <1>3, <1>4 DEF TypeOK
<1>7. Reading /\ Current /\ Grown
  BY <1>5 DEF Reading, Current, Grown
<1> QED  BY <1>6, <1>7 DEF IInv

\* A payload that touches nothing a query reads does not change its result.
LEMMA Untouched ==
  ASSUME IInv, NEW s \in Spaces, NEW b \in Buckets, NEW p \in Payloads,
         Ingest(s, b, p.row, p.total), NEW q \in Queries, ~ Touches(s, b, p.total, q)
  PROVE  Result(q)' = Result(q)
<1>1. /\ rows' = [rows EXCEPT ![s][b] = p.row]
      /\ people' = [people EXCEPT ![b] = IF p.total = None THEN @ ELSE p.total]
  BY DEF Ingest
<1>2. BucketsOf(q) \subseteq Buckets /\ q.space \in Spaces
  BY ResultFacts DEF IInv, Queries
<1>3. CASE q.of = "people"
  <2>1. \A c \in BucketsOf(q) : people'[c] = people[c]
    BY <1>1, <1>2, <1>3 DEF Touches, IInv, TypeOK
  <2> QED  BY <1>3, <2>1 DEF Result, Restrict
<1>4. CASE q.of # "people"
  <2>1. \A c \in BucketsOf(q) : rows'[q.space][c] = rows[q.space][c]
    BY <1>1, <1>2, <1>4 DEF Touches, IInv, TypeOK
  <2>2. {c \in BucketsOf(q) : rows'[q.space][c] # None} = {c \in BucketsOf(q) : rows[q.space][c] # None}
    BY <2>1
  <2> QED  BY <1>4, <2>1, <2>2 DEF Result, Restrict
<1> QED  BY <1>3, <1>4

\* A payload disturbs a request that has read what it writes, and only adds rows.
LEMMA IngestStep ==
  ASSUME IInv, NEW s \in Spaces, NEW b \in Buckets, NEW p \in Payloads,
         Ingest(s, b, p.row, p.total)
  PROVE  IInv'
<1>1. p.row \in RowType /\ p.row # None /\ p.total \in Nat \cup {None}
  BY RowsAssumption, NoneIsNothing DEF RowsAssumption, NoneIsNothing
<1>2. /\ rows' = [rows EXCEPT ![s][b] = p.row]
      /\ people' = [people EXCEPT ![b] = IF p.total = None THEN @ ELSE p.total]
      /\ ingests' = ingests + 1 /\ ingests < MaxIngests
      /\ excluded' = excluded /\ archived' = archived /\ asked' = asked /\ todo' = todo /\ seen' = seen
      /\ moved' = (moved \/ \E i \in DOMAIN seen : Touches(s, b, p.total, seen[i].query))
  BY DEF Ingest
<1>3. rows' \in [Spaces -> [Buckets -> RowType \cup {None}]]
  BY <1>1, <1>2 DEF IInv, TypeOK
<1>4. people' \in [Buckets -> Nat]
  BY <1>1, <1>2 DEF IInv, TypeOK
<1>5. ingests' \in 0 .. MaxIngests /\ moved' \in BOOLEAN
  BY <1>2, ReportsAssumption DEF IInv, TypeOK, ReportsAssumption
<1>6. TypeOK'
  BY <1>2, <1>3, <1>4, <1>5 DEF IInv, TypeOK
<1>7. Reading'
  BY <1>2 DEF IInv, Reading
<1>8. Current'
  <2> SUFFICES ASSUME ~ moved' PROVE Current'
    BY DEF Current
  <2>1. ~ moved /\ \A i \in DOMAIN seen : ~ Touches(s, b, p.total, seen[i].query)
    BY <1>2, Zenon
  <2>2. \A i \in DOMAIN seen : seen[i].result = Result(seen[i].query) /\ seen[i].query \in Queries
    BY <2>1, SeenEntries DEF IInv, Current
  <2>3. \A i \in DOMAIN seen : seen[i].result = (Result(seen[i].query))'
    <3> SUFFICES ASSUME NEW i \in DOMAIN seen PROVE seen[i].result = (Result(seen[i].query))'
      OBVIOUS
    <3> DEFINE q == seen[i].query
    <3>1. q \in Queries /\ ~ Touches(s, b, p.total, q) /\ q' = q
      BY <1>2, <2>1, <2>2
    <3> QED  BY <2>2, <3>1, Untouched
  <2> QED  BY <1>2, <2>3 DEF Current
<1>9. Grown'
  <2>1. \A i \in DOMAIN seen : seen[i].query \in Queries
    BY SeenEntries DEF IInv
  <2>2. ASSUME NEW q \in Queries, q.of # "people"
        PROVE  DOMAIN Result(q) \subseteq DOMAIN (Result(q)')
    <3>1. DOMAIN Result(q) = {c \in BucketsOf(q) : rows[q.space][c] # None}
      BY <2>2, ResultFacts DEF IInv
    <3>2. DOMAIN (Result(q)') = {c \in BucketsOf(q) : rows'[q.space][c] # None}
      BY <2>2 DEF Result, Restrict
    <3>3. \A c \in BucketsOf(q) : rows[q.space][c] # None => rows'[q.space][c] # None
      <4>1. q.space \in Spaces /\ BucketsOf(q) \subseteq Buckets
        BY ResultFacts DEF Queries, IInv
      <4> QED  BY <1>1, <1>2, <4>1 DEF IInv, TypeOK
    <3> QED  BY <3>1, <3>2, <3>3
  <2>3. \A i \in DOMAIN seen : seen[i].query.of # "people" =>
            DOMAIN seen[i].result \subseteq DOMAIN (Result(seen[i].query)')
    <3> SUFFICES ASSUME NEW i \in DOMAIN seen, seen[i].query.of # "people"
                 PROVE  DOMAIN seen[i].result \subseteq DOMAIN (Result(seen[i].query)')
      OBVIOUS
    <3>1. DOMAIN seen[i].result \subseteq DOMAIN Result(seen[i].query)
      BY DEF IInv, Grown
    <3>2. DOMAIN Result(seen[i].query) \subseteq DOMAIN (Result(seen[i].query)')
      BY <1>2, <2>1, <2>2
    <3> QED  BY <3>1, <3>2
  <2>4. Grown
    BY DEF IInv
  <2> QED  BY <1>2, <2>3, <2>4, Zenon DEF Grown
<1> QED  BY <1>6, <1>7, <1>8, <1>9 DEF IInv

\* A request begins with its script and no reading.
LEMMA AskStep ==
  ASSUME IInv, NEW space \in Spaces, NEW days \in Periods, Ask(space, days)
  PROVE  IInv'
<1>1. /\ asked' = [space |-> space, days |-> days] /\ todo' = Script(space, days)
      /\ seen' = << >> /\ moved' = FALSE
      /\ rows' = rows /\ people' = people /\ excluded' = excluded /\ archived' = archived
      /\ ingests' = ingests
  BY DEF Ask, dbVars
<1>2. asked' \in [space : Spaces, days : Periods] /\ asked' # None
  BY <1>1, NoneIsNothing DEF NoneIsNothing
<1>3. todo' \in Seq(Queries)
  BY <1>1, ScriptQueries
<1>4. DOMAIN seen' = {} /\ \A S : seen' \in Seq(S)
  BY <1>1
<1>5. [i \in DOMAIN seen' |-> seen'[i].query] \o todo' = Script(asked'.space, asked'.days)
  <2>1. [i \in DOMAIN seen' |-> seen'[i].query] = << >>
    BY <1>4
  <2>2. << >> \o todo' = todo'
    BY <1>3, ConcatEmptySeq
  <2>3. asked'.space = space /\ asked'.days = days
    BY <1>1
  <2> QED  BY <1>1, <2>1, <2>2, <2>3
<1>6. TypeOK'
  BY <1>1, <1>2, <1>5 DEF IInv, TypeOK
<1>7. Reading' /\ Current' /\ Grown'
  BY <1>3, <1>4 DEF Reading, Current, Grown
<1> QED  BY <1>6, <1>7 DEF IInv

\* A request that has been answered leaves nothing behind.
LEMMA CloseStep ==
  ASSUME IInv, Close
  PROVE  IInv'
<1>1. /\ asked' = None /\ seen' = << >> /\ moved' = FALSE /\ todo = << >> /\ todo' = todo
      /\ rows' = rows /\ people' = people /\ excluded' = excluded /\ archived' = archived
      /\ ingests' = ingests
  BY DEF Close, dbVars
<1>2. DOMAIN seen' = {} /\ \A S : seen' \in Seq(S) /\ todo' \in Seq(S)
  BY <1>1
<1>3. TypeOK'
  BY <1>1 DEF IInv, TypeOK
<1>4. Reading' /\ Current' /\ Grown'
  BY <1>2 DEF Reading, Current, Grown
<1> QED  BY <1>3, <1>4 DEF IInv

\* One query more: it stands behind those there were, and finds what is there now.
LEMMA ReadStep ==
  ASSUME IInv, ReadNext
  PROVE  IInv'
<1> DEFINE q == Head(todo)
           Entry == [query : Queries, result : Results \cup Counts]
           new == [query |-> q, result |-> Result(q)]
           n == Len(seen)
<1>1. /\ todo # << >> /\ seen' = Append(seen, new) /\ todo' = Tail(todo)
      /\ asked' = asked /\ moved' = moved
      /\ rows' = rows /\ people' = people /\ excluded' = excluded /\ archived' = archived
      /\ ingests' = ingests
  BY DEF ReadNext, dbVars
<1>2. todo \in Seq(Queries) /\ seen \in Seq(Entry) /\ asked # None
  BY <1>1 DEF IInv, TypeOK, Reading
<1>3. q \in Queries /\ Tail(todo) \in Seq(Queries)
  BY <1>1, <1>2, HeadTailProperties
<1>4. /\ Result(q) \in Results \cup Counts /\ new \in Entry
      /\ q.of # "people" => Result(q) \in Results
  BY <1>3, ResultFacts DEF IInv
<1> HIDE DEF new
<1>5. /\ Append(seen, new) \in Seq(Entry) /\ Len(Append(seen, new)) = n + 1 /\ n \in Nat
      /\ \A i \in 1 .. n : Append(seen, new)[i] = seen[i]
      /\ Append(seen, new)[n + 1] = new
  BY <1>2, <1>4, AppendProperties
<1>6. /\ seen' \in Seq(Entry) /\ DOMAIN seen = 1 .. n /\ DOMAIN seen' = 1 .. n + 1
      /\ seen'[n + 1] = new /\ \A i \in 1 .. n : seen'[i] = seen[i]
      /\ \A i \in 1 .. n + 1 : i = n + 1 \/ i \in 1 .. n
      /\ n + 1 \notin 1 .. n
  BY <1>1, <1>2, <1>5
<1>7. new.query = q /\ new.result = Result(q)
  BY DEF new
<1>8. \A r : Result(r)' = Result(r)
  BY <1>1 DEF Result
<1> HIDE DEF n
<1>9. TypeOK'
  <2> DEFINE qs == [i \in DOMAIN seen |-> seen[i].query]
             qt == [i \in DOMAIN seen' |-> seen'[i].query]
  <2>1. qs \o todo = Script(asked.space, asked.days)
    BY <1>2 DEF IInv, TypeOK
  <2>2. qs \in Seq(Queries) /\ qt \in Seq(Queries) /\ Len(qs) = n /\ Len(qt) = n + 1
    <3>1. \A i \in 1 .. n : seen[i].query \in Queries
      BY <1>6, SeenEntries DEF IInv
    <3>2. \A i \in 1 .. n + 1 : seen'[i].query \in Queries
      BY <1>3, <1>6, <1>7, <3>1
    <3>3. qs \in [1 .. n -> Queries] /\ qt \in [1 .. n + 1 -> Queries]
      BY <1>6, <3>1, <3>2
    <3> HIDE DEF qs, qt
    <3>4. n \in Nat /\ n + 1 \in Nat
      BY <1>5
    <3>5. qs \in Seq(Queries) /\ qt \in Seq(Queries)
      BY <3>3, <3>4, SeqDef
    <3> QED  BY <3>3, <3>4, <3>5, LenProperties
  <2>3. qt = Append(qs, q)
    <3>1. \A i \in 1 .. n : qt[i] = qs[i]
      <4>1. \A i \in 1 .. n : i \in DOMAIN seen /\ i \in DOMAIN seen'
        BY <1>5, <1>6
      <4>2. \A i \in DOMAIN seen : qs[i] = seen[i].query
        OBVIOUS
      <4>3. \A i \in DOMAIN seen' : qt[i] = seen'[i].query
        OBVIOUS
      <4> HIDE DEF qs, qt
      <4> QED  BY <1>6, <4>1, <4>2, <4>3
    <3>2. qt[n + 1] = q
      BY <1>5, <1>6, <1>7
    <3> HIDE DEF qs, qt, q
    <3>3. /\ Append(qs, q) \in Seq(Queries) /\ Len(Append(qs, q)) = n + 1
          /\ \A i \in 1 .. n : Append(qs, q)[i] = qs[i]
          /\ Append(qs, q)[n + 1] = q
      BY <1>3, <2>2, AppendProperties
    <3>4. \A i \in 1 .. n + 1 : qt[i] = Append(qs, q)[i]
      BY <1>6, <3>1, <3>2, <3>3
    <3> QED  BY <2>2, <3>3, <3>4, SeqEqual
  <2>4. qt \o todo' = qs \o todo
    <3> HIDE DEF qs, qt, q
    <3>1. <<q>> \in Seq(Queries) /\ qt = qs \o <<q>>
      BY <1>3, <2>2, <2>3, AppendIsConcat
    <3>2. (qs \o <<q>>) \o Tail(todo) = qs \o (<<q>> \o Tail(todo))
      BY <1>3, <2>2, <3>1, ConcatAssociative
    <3>3. <<q>> \o Tail(todo) = todo
      BY <1>1, <1>2, <1>3 DEF q
    <3> QED  BY <1>1, <3>1, <3>2, <3>3
  <2> HIDE DEF qs
  <2>5. [i \in DOMAIN seen' |-> seen'[i].query] \o todo' = Script(asked'.space, asked'.days)
    BY <1>1, <2>1, <2>4
  <2> QED  BY <1>1, <1>2, <2>5 DEF IInv, TypeOK
<1>10. Reading'
  BY <1>1, <1>3, <1>4, <1>6, <1>7 DEF IInv, Reading
<1>11. Current'
  BY <1>1, <1>6, <1>7, <1>8 DEF IInv, Current
<1>12. Grown'
  <2> SUFFICES ASSUME NEW i \in 1 .. n + 1, seen'[i].query.of # "people"
               PROVE  /\ DOMAIN seen'[i].result \subseteq DOMAIN Result(seen'[i].query)
                      /\ \A j \in 1 .. n + 1 :
                            /\ i < j /\ seen'[j].query.of # "people"
                            /\ seen'[j].query.space = seen'[i].query.space
                            /\ seen'[j].query.days = seen'[i].query.days
                            /\ seen'[j].query.back = seen'[i].query.back
                            => DOMAIN seen'[i].result \subseteq DOMAIN seen'[j].result
    BY <1>6, <1>8 DEF Grown
  <2>1. CASE i = n + 1
    <3>1. \A j \in 1 .. n + 1 : ~ (i < j)
      BY <1>5, <2>1
    <3> QED  BY <1>6, <1>7, <2>1, <3>1
  <2>2. CASE i # n + 1
    <3>1. i \in 1 .. n /\ seen'[i] = seen[i] /\ seen[i].query \in Queries
      BY <1>6, <2>2, SeenEntries DEF IInv
    <3>2. DOMAIN seen[i].result \subseteq DOMAIN Result(seen[i].query)
      BY <1>6, <3>1 DEF IInv, Grown
    <3>3. /\ q.of # "people" /\ q.space = seen[i].query.space
          /\ q.days = seen[i].query.days /\ q.back = seen[i].query.back
          => DOMAIN Result(q) = DOMAIN Result(seen[i].query)
      <4> SUFFICES ASSUME q.of # "people", q.space = seen[i].query.space,
                          q.days = seen[i].query.days, q.back = seen[i].query.back
                   PROVE  DOMAIN Result(q) = DOMAIN Result(seen[i].query)
        OBVIOUS
      <4>1. BucketsOf(q) = BucketsOf(seen[i].query)
        BY DEF BucketsOf
      <4> QED  BY <1>3, <3>1, <4>1, ResultFacts DEF IInv
    <3>4. ASSUME NEW j \in 1 .. n + 1, i < j, seen'[j].query.of # "people",
                 seen'[j].query.space = seen[i].query.space,
                 seen'[j].query.days = seen[i].query.days,
                 seen'[j].query.back = seen[i].query.back
          PROVE  DOMAIN seen[i].result \subseteq DOMAIN seen'[j].result
      <4>1. CASE j = n + 1
        BY <1>6, <1>7, <3>2, <3>3, <3>4, <4>1
      <4>2. CASE j # n + 1
        <5>1. j \in 1 .. n /\ seen'[j] = seen[j]
          BY <1>6, <4>2
        <5> QED  BY <1>6, <3>1, <3>4, <5>1 DEF IInv, Grown
      <4> QED  BY <4>1, <4>2
    <3> QED  BY <3>1, <3>2, <3>4
  <2> QED  BY <2>1, <2>2
<1> QED  BY <1>9, <1>10, <1>11, <1>12 DEF IInv

\* The invariant of a request: types, readings in the order of the script, current
\* while no payload came, and of rows that only grow (metrics.py:100-117,
\* ingest.py:59-108).
THEOREM Invariance == Spec => []IInv
<1>1. IInv /\ [Next]_vars => IInv'
  <2> SUFFICES ASSUME IInv, [Next]_vars PROVE IInv'
    OBVIOUS
  <2>1. CASE Next
    BY <2>1, IngestStep, AskStep, ReadStep, CloseStep DEF Next
  <2>2. CASE UNCHANGED vars
    <3>1. /\ rows' = rows /\ people' = people /\ excluded' = excluded /\ archived' = archived
          /\ ingests' = ingests
          /\ asked' = asked /\ todo' = todo /\ seen' = seen /\ moved' = moved
      BY <2>2 DEF vars, dbVars
    <3>2. TypeOK' /\ Reading'
      BY <3>1 DEF IInv, TypeOK, Reading
    <3>3. \A q : Result(q)' = Result(q)
      BY <3>1 DEF Result
    <3>4. Current' /\ Grown'
      BY <3>1, <3>3 DEF IInv, Current, Grown
    <3> QED  BY <3>2, <3>4 DEF IInv
  <2> QED  BY <2>1, <2>2
<1> QED  BY <1>1, InitInv, PTL DEF Spec

\* Type correctness: a request makes the queries of its script, in their order.
THEOREM TypeCorrect == Spec => []TypeOK
<1>1. IInv => TypeOK
  BY DEF IInv
<1> QED  BY <1>1, Invariance, PTL

-----------------------------------------------------------------------------
(* What an answer is made of. *)

\* The local calendar ends, and with it the buckets.
LEMMA BucketsFinite == Buckets \subseteq Nat /\ IsFiniteSet(Buckets)
<1>1. Midnight[Len(Midnight)] \in Nat
  BY ReportsAssumption DEF ReportsAssumption
<1> DEFINE last == Midnight[Len(Midnight)] - 1
<1>2. last \in Int
  BY <1>1
<1>3. Buckets = 0 .. last
  BY DEF Buckets
<1> HIDE DEF last
<1>4. IsFiniteSet(0 .. last) /\ 0 .. last \subseteq Nat
  BY <1>2, FS_Interval
<1> QED  BY <1>3, <1>4

\* A quotient of naturals is one.
LEMMA Division ==
  ASSUME NEW a \in Nat, NEW b \in Nat, b # 0
  PROVE  a \div b \in Nat
OBVIOUS

\* The figures of rows are naturals.
LEMMA FigureTypes ==
  ASSUME NEW rs \in Results
  PROVE  /\ DOMAIN rs \subseteq Buckets /\ IsFiniteSet(DOMAIN rs)
         /\ \A b \in DOMAIN rs : rs[b] \in RowType
         /\ Entries(rs) \in Nat /\ CaptureRate(rs) \in Nat
<1>1. /\ DOMAIN rs \subseteq Buckets
      /\ \A b \in DOMAIN rs : rs[b] \in RowType
  BY DEF Results
<1>2. IsFiniteSet(DOMAIN rs)
  BY <1>1, BucketsFinite, FS_Subset
<1>3. Entries(rs) \in Nat
  <2> DEFINE f == [b \in DOMAIN rs |-> rs[b].entries]
  <2>1. DOMAIN f = DOMAIN rs /\ \A b \in DOMAIN rs : f[b] \in Nat
    BY <1>1 DEF RowType
  <2>2. Entries(rs) = SumFunctionOnSet(f, DOMAIN rs)
    BY <2>1 DEF Entries, SumFunction
  <2> HIDE DEF f
  <2> QED  BY <1>2, <2>1, <2>2, SumType
<1>4. Passersby(rs) \in Nat
  <2> DEFINE f == [b \in DOMAIN rs |-> rs[b].passersby]
  <2>1. DOMAIN f = DOMAIN rs /\ \A b \in DOMAIN rs : f[b] \in Nat
    BY <1>1 DEF RowType
  <2>2. Passersby(rs) = SumFunctionOnSet(f, DOMAIN rs)
    BY <2>1 DEF Passersby, SumFunction
  <2> HIDE DEF f
  <2> QED  BY <1>2, <2>1, <2>2, SumType
<1>5. CaptureRate(rs) \in Nat
  <2> DEFINE e == Entries(rs)
             all == e + Passersby(rs)
  <2>1. CaptureRate(rs) = IF all = 0 THEN 0 ELSE (Scale * e) \div all
    BY DEF CaptureRate
  <2>2. Scale \in Nat
    BY ReportsAssumption DEF ReportsAssumption
  <2>3. Scale * e \in Nat /\ all \in Nat
    <3> HIDE DEF e
    <3> QED  BY <1>3, <1>4, <2>2 DEF e
  <2> HIDE DEF e, all
  <2>4. all # 0 => (Scale * e) \div all \in Nat
    BY <2>3, Division
  <2> QED  BY <2>1, <2>4
<1> QED  BY <1>1, <1>2, <1>3, <1>5

\* A request is about a space and a period, and an answered one has read its script.
LEMMA Request ==
  ASSUME IInv, Answered
  PROVE  /\ asked.space \in Spaces /\ asked.days \in Periods
         /\ DOMAIN seen = 1 .. Len(Script(asked.space, asked.days))
         /\ \A i \in DOMAIN seen : seen[i].query = Script(asked.space, asked.days)[i]
<1>1. asked \in [space : Spaces, days : Periods] /\ todo = << >> /\ asked # None
  BY DEF IInv, TypeOK, Answered
<1>2. asked.space \in Spaces /\ asked.days \in Periods
  BY <1>1
<1> DEFINE qs == [i \in DOMAIN seen |-> seen[i].query]
           n == Len(seen)
<1>3. qs \o todo = Script(asked.space, asked.days)
  BY <1>1 DEF IInv, TypeOK
<1>4. n \in Nat /\ DOMAIN seen = 1 .. n /\ qs \in [1 .. n -> Queries]
  BY SeenEntries DEF IInv
<1> HIDE DEF n
<1>5. \A i \in DOMAIN seen : qs[i] = seen[i].query
  OBVIOUS
<1> HIDE DEF qs
<1>6. qs \in Seq(Queries)
  BY <1>4, SeqDef
<1>7. qs = Script(asked.space, asked.days) /\ Len(qs) = n
  BY <1>1, <1>3, <1>4, <1>6, ConcatEmptySeq, LenProperties
<1> QED  BY <1>2, <1>4, <1>5, <1>7

\* The result of a query of the request: rows or counts, and what the query would
\* return now if no payload came.
LEMMA Answer ==
  ASSUME IInv, Answered, NEW q, q \in Range(Script(asked.space, asked.days))
  PROVE  /\ \E i \in DOMAIN seen : seen[i].query = q /\ Got(q) = seen[i].result
         /\ q.of # "people" => Got(q) \in Results
         /\ ~ moved => Got(q) = Result(q)
<1>1. Script(asked.space, asked.days) \in Seq(Queries)
  BY Request, ScriptQueries
<1>2. \E i \in DOMAIN seen : seen[i].query = q
  BY <1>1, Request DEF Range
<1> DEFINE k == CHOOSE i \in DOMAIN seen : seen[i].query = q
<1>3. k \in DOMAIN seen /\ seen[k].query = q
  BY <1>2
<1>4. Got(q) = seen[k].result
  BY DEF Got
<1> HIDE DEF k
<1>5. q.of # "people" => Got(q) \in Results
  BY <1>3, <1>4 DEF IInv, Reading
<1>6. ~ moved => Got(q) = Result(q)
  BY <1>3, <1>4 DEF IInv, Current
<1> QED  BY <1>3, <1>4, <1>5, <1>6

\* No query about the space and the period finds fewer rows than the first.
LEMMA ReportIsFirst ==
  ASSUME IInv, Answered, NEW q \in Range(Script(asked.space, asked.days)),
         q.of # "people", q.space = asked.space, q.days = asked.days, q.back = 0
  PROVE  DOMAIN Self("report", asked.days, 0) \subseteq DOMAIN Got(q)
<1> DEFINE report == Query("report", "self", asked.space, asked.days, 0)
           script == Script(asked.space, asked.days)
<1>1. /\ script \in Seq(Queries) /\ Len(script) > 0 /\ script[1] = report
      /\ \A i \in 2 .. Len(script) : script[i] # report
  BY Request, ScriptQueries
<1>2. /\ report.of = "self" /\ report.space = asked.space
      /\ report.days = asked.days /\ report.back = 0
  BY DEF Query
<1>3. Self("report", asked.days, 0) = Got(report)
  BY DEF Self
<1>4. /\ DOMAIN seen = 1 .. Len(script) /\ Len(script) \in Nat
      /\ \A i \in DOMAIN seen : seen[i].query = script[i]
  BY <1>1, Request, LenProperties
<1> HIDE DEF report, script
<1>5. report \in Range(script)
  <2>1. 1 \in DOMAIN script
    BY <1>1
  <2> QED  BY <1>1, <2>1 DEF Range
<1>6. PICK i \in DOMAIN seen : seen[i].query = report /\ Got(report) = seen[i].result
  BY <1>5, Answer DEF script
<1>7. PICK j \in DOMAIN seen : seen[j].query = q /\ Got(q) = seen[j].result
  BY Answer
<1>8. i = 1
  BY <1>1, <1>4, <1>6
<1>9. CASE j = i
  BY <1>3, <1>6, <1>7, <1>9
<1>10. CASE j # i
  <2>1. i < j
    BY <1>4, <1>6, <1>7, <1>8, <1>10
  <2>2. seen[i].query.of # "people"
    BY <1>2, <1>6
  <2>3. DOMAIN seen[i].result \subseteq DOMAIN seen[j].result
    BY <1>2, <1>6, <1>7, <2>1, <2>2 DEF IInv, Grown
  <2> QED  BY <1>3, <1>6, <1>7, <2>3
<1> QED  BY <1>9, <1>10

\* What the parts of an answer are about.
LEMMA Parts ==
  ASSUME IInv, Answered, NEW part \in {"normalized", "norm"}
  PROVE  LET script == Script(asked.space, asked.days)
         IN  /\ Query("report", "self", asked.space, asked.days, 0) \in Range(script)
             /\ Query("report", "people", asked.space, asked.days, 0) \in Range(script)
             /\ Query(part, "people", asked.space, asked.days, 0) \in Range(script)
             /\ \A w \in 0 .. BaselineWeeks :
                    Query(part, "self", asked.space, asked.days, w) \in Range(script)
             /\ \A s \in Spaces : Query(part, "peer", s, asked.days, 0) \in Range(script)
             /\ \A d \in asked.days[1] .. asked.days[2], w \in 0 .. BaselineWeeks :
                    Query("day", "self", asked.space, <<d, d>>, w) \in Range(script)
<1> DEFINE script == Script(asked.space, asked.days)
<1>1. asked.space \in Spaces /\ asked.days \in Periods
  BY Request
<1>2. /\ script \in Seq(Queries) /\ Len(script) > 0
      /\ script[1] = Query("report", "self", asked.space, asked.days, 0)
  BY <1>1, ScriptQueries
<1>3. 1 \in DOMAIN script
  <2> HIDE DEF script
  <2> QED  BY <1>2
<1>4. Query("report", "self", asked.space, asked.days, 0) \in Range(script)
  BY <1>2, <1>3 DEF Range
<1> QED  BY <1>1, <1>4, ScriptQueries

\* A space with rows that is not archived is given a place, behind the peers of a better
\* rate and before those of a worse one (normalization.py:183-211).
THEOREM RanksAreEarned == Spec => []RankIsEarned
<1>1. IInv => RankIsEarned
  <2> SUFFICES ASSUME IInv, Answered, NEW part \in {"normalized", "norm"}
               PROVE  /\ asked.space \in archived => Ranks(part) = {}
                      /\ asked.space \notin archived /\ DOMAIN Self("report", asked.days, 0) # {} =>
                            Ranks(part) # {}
                      /\ ~moved =>
                            LET measured(s) == Result(Query(part, "peer", s, asked.days, 0))
                                rate(s) == CaptureRate(measured(s))
                                peers == {s \in Spaces \ archived : DOMAIN measured(s) # {}}
                                better == {s \in peers : rate(s) > rate(asked.space)}
                                worse == {s \in peers : rate(s) < rate(asked.space)}
                            IN  \A rank \in Ranks(part) :
                                    /\ Cardinality(better) < rank
                                    /\ rank <= Cardinality(peers) - Cardinality(worse)
    BY DEF RankIsEarned
  <2> DEFINE me == asked.space
             rate == [s \in Ranked(part) |-> CaptureRate(PeerRows(part, s))]
             above == {s \in Ranked(part) : rate[s] > rate[me]}
             below == {s \in Ranked(part) : rate[s] < rate[me]}
             level == {s \in Ranked(part) \ {me} : rate[s] = rate[me]}
             a == Cardinality(above)
             b == Cardinality(below)
             l == Cardinality(level)
  <2>1. /\ me \in Spaces
        /\ \A s \in Spaces : Query(part, "peer", s, asked.days, 0)
                                \in Range(Script(asked.space, asked.days))
    BY Request, Parts
  <2>2. ASSUME NEW s \in Spaces
        PROVE  /\ PeerRows(part, s) \in Results
               /\ ~moved => PeerRows(part, s) = Result(Query(part, "peer", s, asked.days, 0))
    <3>1. Query(part, "peer", s, asked.days, 0).of # "people"
      BY DEF Query
    <3> QED  BY <2>1, <3>1, Answer DEF PeerRows
  <2>3. IsFiniteSet(Spaces) /\ Ranked(part) \subseteq Spaces \ archived
    BY ReportsAssumption DEF ReportsAssumption, Ranked
  <2>4. \A s \in Ranked(part) : rate[s] \in Nat
    BY <2>2, <2>3, FigureTypes
  <2>5. Ranks(part) = IF me \notin Ranked(part) THEN {} ELSE a + 1 .. a + l + 1
    BY DEF Ranks
  <2>6. /\ IsFiniteSet(above) /\ IsFiniteSet(below) /\ IsFiniteSet(level)
        /\ a \in Nat /\ b \in Nat /\ l \in Nat
    <3>1. /\ above \subseteq Ranked(part) /\ below \subseteq Ranked(part)
          /\ level \subseteq Ranked(part)
      OBVIOUS
    <3> HIDE DEF above, below, level
    <3>2. IsFiniteSet(Ranked(part))
      BY <2>3, FS_Subset
    <3> QED  BY <3>1, <3>2, FS_Subset, FS_CardinalityType
  <2>7. me \in archived => Ranks(part) = {}
    <3> HIDE DEF a, l, me
    <3> QED  BY <2>3, <2>5
  <2>8. me \notin archived /\ DOMAIN Self("report", asked.days, 0) # {} => Ranks(part) # {}
    <3> DEFINE mine == Query(part, "peer", me, asked.days, 0)
    <3>1. mine.of # "people" /\ mine.space = me /\ mine.days = asked.days /\ mine.back = 0
      BY DEF Query
    <3>2. mine \in Range(Script(asked.space, asked.days))
      BY <2>1
    <3>3. PeerRows(part, me) = Got(mine)
      BY DEF PeerRows
    <3> HIDE DEF mine
    <3>4. DOMAIN Self("report", asked.days, 0) \subseteq DOMAIN PeerRows(part, me)
      BY <3>1, <3>2, <3>3, ReportIsFirst
    <3>5. me \notin archived /\ DOMAIN Self("report", asked.days, 0) # {} => me \in Ranked(part)
      BY <2>1, <3>4 DEF Ranked
    <3>6. a + 1 \in a + 1 .. a + l + 1
      <4> HIDE DEF a, l
      <4> QED  BY <2>6
    <3> HIDE DEF a, l, me
    <3> QED  BY <2>5, <3>5, <3>6
  <2>9. me \in Ranked(part) => Cardinality(Ranked(part)) = a + b + l + 1
    <3> SUFFICES ASSUME me \in Ranked(part) PROVE Cardinality(Ranked(part)) = a + b + l + 1
      OBVIOUS
    <3>1. /\ above \cap below = {} /\ (above \cup below) \cap level = {}
          /\ me \notin above \cup below \cup level
          /\ Ranked(part) = above \cup below \cup level \cup {me}
      BY <2>4
    <3> HIDE DEF above, below, level
    <3>2. IsFiniteSet(above \cup below) /\ Cardinality(above \cup below) = a + b
      <4>1. IsFiniteSet(above) /\ IsFiniteSet(below) /\ a \in Nat /\ b \in Nat
        BY <2>6
      <4>2. /\ IsFiniteSet(above \cup below)
            /\ Cardinality(above \cup below) = a + b - Cardinality(above \cap below)
        BY <4>1, FS_Union
      <4>3. Cardinality(above \cap below) = 0
        BY <3>1, FS_EmptySet
      <4> QED  BY <4>1, <4>2, <4>3
    <3>3. /\ IsFiniteSet(above \cup below \cup level)
          /\ Cardinality(above \cup below \cup level) = a + b + l
      BY <2>6, <3>1, <3>2, FS_Union, FS_EmptySet
    <3> QED  BY <3>1, <3>3, FS_AddElement
  <2>10. ASSUME ~moved
         PROVE  LET measured(s) == Result(Query(part, "peer", s, asked.days, 0))
                    now(s) == CaptureRate(measured(s))
                    peers == {s \in Spaces \ archived : DOMAIN measured(s) # {}}
                    better == {s \in peers : now(s) > now(asked.space)}
                    worse == {s \in peers : now(s) < now(asked.space)}
                IN  \A rank \in Ranks(part) :
                        /\ Cardinality(better) < rank
                        /\ rank <= Cardinality(peers) - Cardinality(worse)
    <3> DEFINE measured(s) == Result(Query(part, "peer", s, asked.days, 0))
               now(s) == CaptureRate(measured(s))
               peers == {s \in Spaces \ archived : DOMAIN measured(s) # {}}
               better == {s \in peers : now(s) > now(me)}
               worse == {s \in peers : now(s) < now(me)}
    <3> SUFFICES ASSUME NEW rank \in Ranks(part)
                 PROVE  Cardinality(better) < rank /\ rank <= Cardinality(peers) - Cardinality(worse)
      OBVIOUS
    <3>1. me \in Ranked(part) /\ rank \in a + 1 .. a + l + 1
      <4> HIDE DEF a, l, me
      <4> QED  BY <2>5
    <3>2. \A s \in Spaces : PeerRows(part, s) = measured(s)
      BY <2>2, <2>10
    <3>3. peers = Ranked(part)
      <4> HIDE DEF measured
      <4> QED  BY <3>2 DEF Ranked
    <3>4. \A s \in Ranked(part) : rate[s] = now(s)
      <4> HIDE DEF measured
      <4> QED  BY <2>3, <3>2
    <3>5. better = above /\ worse = below
      <4> HIDE DEF rate, now, peers
      <4> QED  BY <3>1, <3>3, <3>4
    <3>6. Cardinality(better) = a /\ Cardinality(worse) = b
      BY <3>5
    <3>7. Cardinality(peers) = a + b + l + 1
      BY <2>9, <3>1, <3>3
    <3> HIDE DEF a, b, l, better, worse, peers
    <3> QED  BY <2>6, <3>1, <3>6, <3>7
  <2> QED  BY <2>7, <2>8, <2>10
<1> QED  BY <1>1, Invariance, PTL

-----------------------------------------------------------------------------
(* The spans of the occupancy, which the library folds from left to right.  *)

\* One unfolding of the recursion of the fold, on the subsets of S.
Fold(rs, seq, S, g) ==
    [s \in SUBSET S |->
        IF s = {} THEN << >>
        ELSE Joined(g[s \ {Max(s)}], HolderOf(rs, seq[Max(s)]), seq[Max(s)])]

\* The library's fold is the value of that recursion at all days.
LEMMA SpansAreFold ==
  ASSUME NEW rs, NEW days
  PROVE  Spans(rs, days) =
            (CHOOSE g : g = Fold(rs, DaysOf(days), DOMAIN DaysOf(days), g))[DOMAIN DaysOf(days)]
BY Zenon DEF Spans, FoldLeft, MapThenFoldSet, Fold

\* The recursion behind the fold over days has a solution.
LEMMA FoldDefined ==
  ASSUME NEW rs, NEW seq, NEW n \in Nat
  PROVE  \E g : g = Fold(rs, seq, 1 .. n, g)
<1> DEFINE Solved(k) == \E g : g = Fold(rs, seq, 1 .. k, g)
           step(v, k) == Joined(v, HolderOf(rs, seq[k]), seq[k])
<1>1. Solved(0)
  <2> DEFINE g == [s \in SUBSET (1 .. 0) |-> << >>]
  <2>1. \A s \in SUBSET (1 .. 0) : s = {}
    OBVIOUS
  <2>2. g = Fold(rs, seq, 1 .. 0, g)
    BY <2>1 DEF Fold
  <2> HIDE DEF g
  <2> QED  BY <2>2
<1>2. ASSUME NEW k \in Nat \ {0}, Solved(k - 1) PROVE Solved(k)
  <2>1. PICK g : g = Fold(rs, seq, 1 .. k - 1, g)
    BY <1>2
  <2> DEFINE h == [s \in SUBSET (1 .. k) |-> IF k \in s THEN step(g[s \ {k}], k) ELSE g[s]]
  <2>2. \A s \in SUBSET (1 .. k) : k \notin s => s \in SUBSET (1 .. k - 1)
    OBVIOUS
  <2>3. \A s \in SUBSET (1 .. k - 1) :
            g[s] = IF s = {} THEN << >> ELSE step(g[s \ {Max(s)}], Max(s))
    <3> HIDE DEF step
    <3>1. g = [s \in SUBSET (1 .. k - 1) |->
                    IF s = {} THEN << >> ELSE step(g[s \ {Max(s)}], Max(s))]
      BY <2>1 DEF Fold, step
    <3> QED  BY <3>1
  <2>4. /\ \A s \in SUBSET (1 .. k) : k \in s => h[s] = step(g[s \ {k}], k)
        /\ \A s \in SUBSET (1 .. k) : k \notin s => h[s] = g[s]
        /\ h = [s \in SUBSET (1 .. k) |-> h[s]]
    <3> HIDE DEF step
    <3> QED  OBVIOUS
  <2> HIDE DEF h
  <2>5. ASSUME NEW s \in SUBSET (1 .. k)
        PROVE  h[s] = IF s = {} THEN << >> ELSE step(h[s \ {Max(s)}], Max(s))
    <3> HIDE DEF step
    <3>1. CASE k \in s
      <4>1. Max(s) \in s /\ \A m \in s : m <= Max(s)
        <5>1. s \in SUBSET (0 .. k) /\ s # {}
          BY <3>1
        <5> QED  BY <5>1, MaxIsGreatest
      <4>2. Max(s) = k
        <5>1. Max(s) \in 1 .. k /\ k <= Max(s)
          BY <3>1, <4>1
        <5> QED  BY <5>1
      <4>3. s \ {k} \in SUBSET (1 .. k) /\ k \notin s \ {k}
        OBVIOUS
      <4> QED  BY <2>4, <3>1, <4>2, <4>3
    <3>2. CASE k \notin s
      <4>1. s \in SUBSET (1 .. k - 1)
        BY <2>2, <3>2
      <4>2. s \ {Max(s)} \in SUBSET (1 .. k) /\ k \notin s \ {Max(s)}
        BY <3>2
      <4> QED  BY <2>3, <2>4, <3>2, <4>1, <4>2
    <3> QED  BY <3>1, <3>2
  <2>6. h = Fold(rs, seq, 1 .. k, h)
    <3> HIDE DEF step
    <3>1. h = [s \in SUBSET (1 .. k) |->
                    IF s = {} THEN << >> ELSE step(h[s \ {Max(s)}], Max(s))]
      BY <2>4, <2>5
    <3> QED  BY <3>1 DEF Fold, step
  <2> QED  BY <2>6
<1> DEFINE B == {k \in Nat : ~ Solved(k)}
<1> HIDE DEF Solved
<1> SUFFICES ASSUME B # {} PROVE FALSE
  BY DEF Solved
<1>3. PICK k \in B : \A m \in B : k <= m
  <2> B \in SUBSET Nat
    OBVIOUS
  <2> HIDE DEF B
  <2> QED  BY Least
<1>4. k \in Nat /\ ~ Solved(k)
  OBVIOUS
<1>5. k # 0
  BY <1>1, <1>4
<1>6. k - 1 \in Nat /\ ~ (k <= k - 1)
  BY <1>4, <1>5
<1>7. Solved(k - 1)
  BY <1>3, <1>6
<1> QED  BY <1>2, <1>4, <1>5, <1>7

\* The spans after each day, and those of the last day are the occupancy.
LEMMA SpansUnfold ==
  ASSUME NEW rs, NEW days \in Periods
  PROVE  LET n == days[2] - days[1] + 1
         IN  \E F : /\ F[0] = << >>
                    /\ \A k \in 1 .. n : F[k] = Joined(F[k - 1], HolderOf(rs, days[1] + k - 1),
                                                       days[1] + k - 1)
                    /\ Spans(rs, days) = F[n]
<1> DEFINE n == days[2] - days[1] + 1
           seq == DaysOf(days)
           g == CHOOSE g : g = Fold(rs, seq, 1 .. n, g)
           F == [k \in 0 .. n |-> g[1 .. k]]
<1>1. n \in Nat /\ n > 0 /\ DOMAIN seq = 1 .. n /\ \A k \in 1 .. n : seq[k] = days[1] + k - 1
  BY PeriodFacts DEF DaysOf
<1>2. Spans(rs, days) = g[1 .. n]
  BY <1>1, SpansAreFold
<1> HIDE DEF n, seq
<1>3. g = Fold(rs, seq, 1 .. n, g)
  BY <1>1, FoldDefined
<1> HIDE DEF g
<1>4. F[0] = << >>
  <2>1. 1 .. 0 = {} /\ 0 \in 0 .. n
    BY <1>1
  <2>2. g[{}] = << >>
    BY <1>3 DEF Fold
  <2> QED  BY <2>1, <2>2
<1>5. ASSUME NEW k \in 1 .. n
      PROVE  F[k] = Joined(F[k - 1], HolderOf(rs, days[1] + k - 1), days[1] + k - 1)
  <2>1. k \in 0 .. n /\ k - 1 \in 0 .. n /\ k \in Nat
    BY <1>1
  <2>2. Max(1 .. k) = k
    <3>1. 1 .. k \in SUBSET (0 .. k) /\ k \in 1 .. k
      BY <2>1
    <3>2. Max(1 .. k) \in 1 .. k /\ \A m \in 1 .. k : m <= Max(1 .. k)
      BY <2>1, <3>1, MaxIsGreatest
    <3> QED  BY <2>1, <3>1, <3>2
  <2>3. (1 .. k) \ {k} = 1 .. k - 1 /\ 1 .. k # {} /\ 1 .. k \in SUBSET (1 .. n)
    BY <1>1, <2>1
  <2>4. g[1 .. k] = Joined(g[(1 .. k) \ {Max(1 .. k)}], HolderOf(rs, seq[Max(1 .. k)]),
                           seq[Max(1 .. k)])
    BY <1>3, <2>3 DEF Fold
  <2> QED  BY <1>1, <2>1, <2>2, <2>3, <2>4
<1>6. F[n] = g[1 .. n]
  BY <1>1
<1> HIDE DEF F
<1> QED  BY <1>2, <1>4, <1>5, <1>6 DEF n

\* Nobody held more buckets of a day than its holder.
LEMMA HolderHeldMost ==
  ASSUME NEW rs \in Results, NEW d
  PROVE  LET on == {b \in DOMAIN rs : LocalDay(b) = d}
             held(o) == {b \in on : rs[b].occupant = o}
         IN  /\ on = {} => HolderOf(rs, d) = None
             /\ \A b \in on : Cardinality(held(rs[b].occupant))
                                <= Cardinality(held(HolderOf(rs, d)))
<1> DEFINE on == {b \in DOMAIN rs : LocalDay(b) = d}
           held(o) == {b \in on : rs[b].occupant = o}
           most(b) == \A c \in on : Cardinality(held(rs[c].occupant))
                                        <= Cardinality(held(rs[b].occupant))
           best == {b \in on : most(b)}
           counts == {Cardinality(held(rs[b].occupant)) : b \in on}
<1>1. HolderOf(rs, d) = IF on = {} THEN None ELSE rs[Min(best)].occupant
  BY DEF HolderOf
<1>2. on \subseteq Nat /\ IsFiniteSet(on)
  <2>1. on \subseteq DOMAIN rs
    OBVIOUS
  <2> HIDE DEF on
  <2> QED  BY <2>1, FigureTypes, BucketsFinite, FS_Subset
<1>3. \A o : Cardinality(held(o)) \in 0 .. Cardinality(on) /\ Cardinality(on) \in Nat
  <2> SUFFICES ASSUME NEW o
               PROVE  Cardinality(held(o)) \in 0 .. Cardinality(on) /\ Cardinality(on) \in Nat
    OBVIOUS
  <2>1. held(o) \subseteq on
    OBVIOUS
  <2> HIDE DEF on, held
  <2>2. IsFiniteSet(held(o)) /\ Cardinality(held(o)) <= Cardinality(on)
    BY <1>2, <2>1, FS_Subset
  <2> QED  BY <1>2, <2>2, FS_CardinalityType
<1> HIDE DEF held
<1>4. ASSUME on # {} PROVE best # {} /\ best \subseteq Nat
  <2>1. counts \in SUBSET (0 .. Cardinality(on)) /\ counts # {} /\ Cardinality(on) \in Nat
    BY <1>3, <1>4
  <2> HIDE DEF counts
  <2>2. Max(counts) \in counts /\ \A m \in counts : m <= Max(counts)
    BY <2>1, MaxIsGreatest
  <2>3. PICK b \in on : Max(counts) = Cardinality(held(rs[b].occupant))
    BY <2>2 DEF counts
  <2>4. \A c \in on : Cardinality(held(rs[c].occupant)) \in counts
    BY DEF counts
  <2>5. most(b)
    BY <2>2, <2>3, <2>4
  <2> HIDE DEF on
  <2> QED  BY <1>2, <2>5
<1>5. ASSUME on # {} PROVE Min(best) \in best
  <2> HIDE DEF best
  <2> QED  BY <1>4, <1>5, MinIsLeast
<1>6. ASSUME NEW b \in on
      PROVE  Cardinality(held(rs[b].occupant)) <= Cardinality(held(HolderOf(rs, d)))
  <2>1. on # {}
    BY <1>6
  <2>2. most(Min(best))
    BY <1>5, <2>1
  <2>3. HolderOf(rs, d) = rs[Min(best)].occupant
    BY <1>1, <2>1
  <2> HIDE DEF best
  <2> QED  BY <1>6, <2>2, <2>3
<1> QED  BY <1>1, <1>6 DEF held

\* Spans that follow on one another from a first day to a last, each with the holder
\* of its days.
SpanType(rs) == [who : {HolderOf(rs, d) : d \in Int}, from : Int, to : Int]

Tiled(rs, spans, from, to) ==
    /\ spans \in Seq(SpanType(rs)) /\ Len(spans) > 0
    /\ spans[1].from = from /\ spans[Len(spans)].to = to
    /\ \A i \in 1 .. Len(spans) - 1 : /\ spans[i + 1].from = spans[i].to + 1
                                      /\ spans[i + 1].who # spans[i].who
    /\ \A i \in 1 .. Len(spans) : \A d \in spans[i].from .. spans[i].to :
            spans[i].who = HolderOf(rs, d)

\* The first day makes the first span.
LEMMA FirstSpan ==
  ASSUME NEW rs, NEW d \in Int
  PROVE  Tiled(rs, Joined(<< >>, HolderOf(rs, d), d), d, d)
<1> DEFINE e == [who |-> HolderOf(rs, d), from |-> d, to |-> d]
           T == SpanType(rs)
<1>1. e \in T
  BY DEF SpanType
<1>2. e.who = HolderOf(rs, d) /\ e.from = d /\ e.to = d
  OBVIOUS
<1> HIDE DEF e
<1>3. Joined(<< >>, HolderOf(rs, d), d) = <<e>>
  BY DEF Joined, e
<1> HIDE DEF T
<1> DEFINE one == <<e>>
<1>4. one \in Seq(T) /\ Len(one) = 1 /\ one[1] = e
  BY <1>1
<1> HIDE DEF one
<1>5. \A x \in e.from .. e.to : x = d
  BY <1>2
<1>6. \A i \in 1 .. 1 : i = 1
  OBVIOUS
<1>7. \A i \in 1 .. 1 - 1 : FALSE
  OBVIOUS
<1>8. Tiled(rs, one, d, d)
  BY <1>2, <1>4, <1>5, <1>6, <1>7 DEF Tiled, T
<1> QED  BY <1>3, <1>8 DEF one

\* One day more lengthens the last span, or begins another behind it.
LEMMA NextSpan ==
  ASSUME NEW rs, NEW spans, NEW from \in Int, NEW d \in Int, Tiled(rs, spans, from, d - 1)
  PROVE  Tiled(rs, Joined(spans, HolderOf(rs, d), d), from, d)
<1> DEFINE who == HolderOf(rs, d)
           T == SpanType(rs)
           n == Len(spans)
<1>1. /\ spans \in Seq(T) /\ n \in Nat /\ n > 0 /\ DOMAIN spans = 1 .. n
      /\ \A i \in 1 .. n : spans[i] \in T
  BY LenProperties DEF Tiled
<1>2. spans # << >> /\ Last(spans) = spans[n]
  BY <1>1 DEF Last
<1>3. CASE spans[n].who = who
  <2> DEFINE last == [spans[n] EXCEPT !.to = d]
             new == [spans EXCEPT ![n].to = d]
  <2>1. Joined(spans, who, d) = new
    BY <1>2, <1>3 DEF Joined
  <2>2. /\ last \in T /\ last.who = who /\ last.from = spans[n].from /\ last.to = d
    <3>1. spans[n] \in T
      BY <1>1
    <3> QED  BY <1>3, <3>1 DEF SpanType
  <2>3. new = [spans EXCEPT ![n] = last]
    BY <1>1
  <2> HIDE DEF last, T, who
  <2>4. new \in Seq(T) /\ Len(new) = n
    BY <1>1, <2>2, <2>3, ExceptSeq
  <2>5. new[n] = last /\ \A i \in 1 .. n : i # n => new[i] = spans[i]
    BY <1>1, <2>3
  <2> HIDE DEF new, n
  <2>6. new[1].from = from
    <3>1. CASE n = 1
      BY <1>1, <2>2, <2>5, <3>1 DEF Tiled, n
    <3>2. CASE n # 1
      <4>1. 1 \in 1 .. n /\ new[1] = spans[1]
        BY <1>1, <2>5, <3>2
      <4> QED  BY <4>1 DEF Tiled
    <3> QED  BY <3>1, <3>2
  <2>7. ASSUME NEW i \in 1 .. n - 1
        PROVE  new[i + 1].from = new[i].to + 1 /\ new[i + 1].who # new[i].who
    <3>1. spans[i + 1].from = spans[i].to + 1 /\ spans[i + 1].who # spans[i].who
      BY DEF Tiled, n
    <3>2. new[i] = spans[i] /\ i \in 1 .. n /\ i + 1 \in 1 .. n
      BY <1>1, <2>5
    <3>3. new[i + 1].from = spans[i + 1].from /\ new[i + 1].who = spans[i + 1].who
      BY <1>3, <2>2, <2>5, <3>2
    <3> QED  BY <3>1, <3>2, <3>3
  <2>8. ASSUME NEW i \in 1 .. n, NEW x \in new[i].from .. new[i].to
        PROVE  new[i].who = HolderOf(rs, x)
    <3>1. CASE i # n
      BY <2>5, <2>8, <3>1 DEF Tiled, n
    <3>2. CASE i = n
      <4>1. spans[n].from \in Int /\ spans[n].to = d - 1
        <5>1. spans[n] \in T /\ spans[n].to = d - 1
          BY <1>1 DEF Tiled, n
        <5> QED  BY <5>1 DEF T, SpanType
      <4>2. x = d \/ x \in spans[n].from .. spans[n].to
        BY <2>2, <2>5, <2>8, <3>2, <4>1
      <4>3. x \in spans[n].from .. spans[n].to => spans[n].who = HolderOf(rs, x)
        BY <1>1 DEF Tiled, n
      <4> QED  BY <1>3, <2>2, <2>5, <3>2, <4>2, <4>3 DEF who
    <3> QED  BY <3>1, <3>2
  <2> QED  BY <1>1, <2>1, <2>2, <2>4, <2>5, <2>6, <2>7, <2>8 DEF Tiled, T, who
<1>4. CASE spans[n].who # who
  <2> DEFINE e == [who |-> who, from |-> d, to |-> d]
             new == Append(spans, e)
  <2>1. Joined(spans, who, d) = new
    BY <1>2, <1>4 DEF Joined
  <2>2. e \in T /\ e.who = who /\ e.from = d /\ e.to = d
    BY DEF SpanType
  <2> HIDE DEF e, T
  <2>3. /\ new \in Seq(T) /\ Len(new) = n + 1 /\ new[n + 1] = e
        /\ \A i \in 1 .. n : new[i] = spans[i]
    BY <1>1, <2>2, AppendProperties
  <2> HIDE DEF new, n, who
  <2>4. new[1].from = from
    BY <1>1, <2>3 DEF Tiled, n
  <2>5. ASSUME NEW i \in 1 .. n
        PROVE  new[i + 1].from = new[i].to + 1 /\ new[i + 1].who # new[i].who
    <3>1. CASE i = n
      <4>1. spans[n].to = d - 1
        BY DEF Tiled, n
      <4> QED  BY <1>1, <1>4, <2>2, <2>3, <3>1, <4>1
    <3>2. CASE i # n
      <4>1. i \in 1 .. n - 1 /\ i + 1 \in 1 .. n
        BY <1>1, <3>2
      <4>2. spans[i + 1].from = spans[i].to + 1 /\ spans[i + 1].who # spans[i].who
        BY <4>1 DEF Tiled, n
      <4> QED  BY <2>3, <4>1, <4>2
    <3> QED  BY <3>1, <3>2
  <2>6. ASSUME NEW i \in 1 .. n + 1, NEW x \in new[i].from .. new[i].to
        PROVE  new[i].who = HolderOf(rs, x)
    <3>1. CASE i = n + 1
      <4>1. x = d
        BY <2>2, <2>3, <2>6, <3>1
      <4> QED  BY <2>2, <2>3, <3>1, <4>1 DEF who
    <3>2. CASE i # n + 1
      <4>1. i \in 1 .. n /\ new[i] = spans[i]
        BY <1>1, <2>3, <3>2
      <4> QED  BY <2>6, <4>1 DEF Tiled, n
    <3> QED  BY <3>1, <3>2
  <2>7. (n + 1) - 1 = n
    BY <1>1
  <2> QED  BY <1>1, <2>1, <2>2, <2>3, <2>4, <2>5, <2>6, <2>7 DEF Tiled, T, who
<1> QED  BY <1>3, <1>4

\* So the spans tile the period.
LEMMA SpansAreTiled ==
  ASSUME NEW rs, NEW days \in Periods
  PROVE  Tiled(rs, Spans(rs, days), days[1], days[2])
<1> DEFINE n == days[2] - days[1] + 1
<1>1. PICK F : /\ F[0] = << >>
               /\ \A k \in 1 .. n : F[k] = Joined(F[k - 1], HolderOf(rs, days[1] + k - 1),
                                                  days[1] + k - 1)
               /\ Spans(rs, days) = F[n]
  BY SpansUnfold
<1>2. /\ n \in Nat /\ n > 0 /\ days[1] \in Int /\ days[1] + n - 1 = days[2]
  BY PeriodFacts
<1> HIDE DEF n
<1> DEFINE Done(k) == Tiled(rs, F[k], days[1], days[1] + k - 1)
           B == {k \in Nat : k \in 1 .. n /\ ~ Done(k)}
<1>3. B = {}
  <2> SUFFICES ASSUME B # {} PROVE FALSE
    OBVIOUS
  <2>1. PICK k \in B : \A m \in B : k <= m
    <3> B \in SUBSET Nat
      OBVIOUS
    <3> HIDE DEF B
    <3> QED  BY Least
  <2>2. k \in 1 .. n /\ k \in Nat /\ ~ Done(k)
    OBVIOUS
  <2> DEFINE d == days[1] + k - 1
  <2>3. d \in Int /\ F[k] = Joined(F[k - 1], HolderOf(rs, d), d)
    BY <1>1, <1>2, <2>2
  <2>4. CASE k = 1
    <3>1. d = days[1] /\ F[k - 1] = << >>
      BY <1>1, <1>2, <2>4
    <3>2. Tiled(rs, F[k], d, d)
      BY <2>3, <3>1, FirstSpan
    <3> QED  BY <2>2, <3>1, <3>2
  <2>5. CASE k # 1
    <3>1. k - 1 \in 1 .. n /\ k - 1 \in Nat /\ ~ (k <= k - 1) /\ days[1] + (k - 1) - 1 = d - 1
      BY <1>2, <2>2, <2>5
    <3>2. Done(k - 1)
      BY <2>1, <3>1
    <3>3. Tiled(rs, F[k - 1], days[1], d - 1)
      BY <3>1, <3>2
    <3>4. Tiled(rs, F[k], days[1], d)
      <4> HIDE DEF d
      <4> QED  BY <1>2, <2>3, <3>3, NextSpan
    <3> QED  BY <2>2, <3>4
  <2> QED  BY <2>4, <2>5
<1>4. Done(n)
  <2>1. n \in 1 .. n
    BY <1>2
  <2> HIDE DEF Done
  <2> QED  BY <1>2, <1>3, <2>1
<1> QED  BY <1>1, <1>2, <1>4

\* The occupancy of a report covers its period without gap or overlap, and says of
\* every day what most of its rows say (report.py:214-234).
THEOREM SpansTileThePeriod == Spec => []SpansTile
<1>1. IInv => SpansTile
  <2> DEFINE rs == Self("report", asked.days, 0)
             spans == Spans(rs, asked.days)
             on(d) == {b \in DOMAIN rs : LocalDay(b) = d}
             held(d, o) == {b \in on(d) : rs[b].occupant = o}
  <2> SUFFICES ASSUME IInv, Answered
               PROVE  /\ spans # << >> /\ spans[1].from = asked.days[1]
                      /\ Last(spans).to = asked.days[2]
                      /\ \A i \in 1 .. Len(spans) - 1 :
                            /\ spans[i + 1].from = spans[i].to + 1
                            /\ spans[i + 1].who # spans[i].who
                      /\ \A i \in DOMAIN spans : \A d \in spans[i].from .. spans[i].to :
                            /\ on(d) = {} => spans[i].who = None
                            /\ \A b \in on(d) : Cardinality(held(d, rs[b].occupant))
                                                    <= Cardinality(held(d, spans[i].who))
    BY DEF SpansTile
  <2>1. rs \in Results
    <3> DEFINE q == Query("report", "self", asked.space, asked.days, 0)
    <3>1. q \in Range(Script(asked.space, asked.days))
      BY Parts
    <3>2. q.of # "people" /\ rs = Got(q)
      BY DEF Query, Self
    <3> HIDE DEF q
    <3> QED  BY <3>1, <3>2, Answer
  <2>2. Tiled(rs, spans, asked.days[1], asked.days[2])
    BY Request, SpansAreTiled
  <2> HIDE DEF rs, spans
  <2>3. /\ spans # << >> /\ Last(spans) = spans[Len(spans)]
        /\ DOMAIN spans = 1 .. Len(spans)
    BY <2>2, LenProperties DEF Tiled, Last
  <2>4. ASSUME NEW i \in DOMAIN spans, NEW d \in spans[i].from .. spans[i].to
        PROVE  /\ on(d) = {} => spans[i].who = None
               /\ \A b \in on(d) : Cardinality(held(d, rs[b].occupant))
                                        <= Cardinality(held(d, spans[i].who))
    <3>1. spans[i].who = HolderOf(rs, d)
      BY <2>2, <2>3 DEF Tiled
    <3>2. /\ on(d) = {} => HolderOf(rs, d) = None
          /\ \A b \in on(d) : Cardinality(held(d, rs[b].occupant))
                                <= Cardinality(held(d, HolderOf(rs, d)))
      BY <2>1, HolderHeldMost
    <3> QED  BY <3>1, <3>2
  <2> QED  BY <2>2, <2>3, <2>4 DEF Tiled
<1> QED  BY <1>1, Invariance, PTL

-----------------------------------------------------------------------------
(* The calendar. *)

\* Local days begin one after the other.
LEMMA DaysBegin ==
  /\ \A d \in Days : d \in Nat /\ Begins(d) \in Nat /\ Begins(d + 1) \in Nat
                     /\ Begins(d + 1) <= Midnight[Len(Midnight)]
  /\ \A d, e \in Days : d < e => Begins(d + 1) <= Begins(e)
  /\ \A d \in Int : d < 0 => Begins(d) = 0 /\ Begins(d + 1) = 0
  /\ Begins(0) = 0 /\ Len(Midnight) \in Nat /\ Len(Midnight) - 2 \in Days
<1> DEFINE n == Len(Midnight)
<1>1. /\ n \in Nat /\ n > 1 /\ Midnight[1] = 0
      /\ \A i \in 1 .. n : Midnight[i] \in Nat
      /\ \A i, j \in 1 .. n : i < j => Midnight[i] < Midnight[j]
  BY ReportsAssumption DEF ReportsAssumption
<1>2. Days = 0 .. n - 2
  BY DEF Days
<1> HIDE DEF n
<1>3. \A i, j \in 1 .. n : i <= j => Midnight[i] <= Midnight[j]
  <2> SUFFICES ASSUME NEW i \in 1 .. n, NEW j \in 1 .. n, i <= j
               PROVE  Midnight[i] <= Midnight[j]
    OBVIOUS
  <2>1. CASE i = j
    BY <1>1, <2>1
  <2>2. CASE i # j
    <3>1. i < j
      BY <1>1, <2>2
    <3>2. Midnight[i] \in Nat /\ Midnight[j] \in Nat /\ Midnight[i] < Midnight[j]
      BY <1>1, <3>1
    <3> QED  BY <3>2
  <2> QED  BY <2>1, <2>2
<1>4. \A d \in Days : /\ d \in Nat /\ d + 1 \in 1 .. n /\ (d + 1) + 1 \in 1 .. n
                      /\ Begins(d) = Midnight[d + 1] /\ Begins(d + 1) = Midnight[(d + 1) + 1]
  BY <1>1, <1>2 DEF Begins
<1>5. \A d \in Days : Begins(d) \in Nat /\ Begins(d + 1) \in Nat /\ Begins(d + 1) <= Midnight[n]
  <2> SUFFICES ASSUME NEW d \in Days
               PROVE  Begins(d) \in Nat /\ Begins(d + 1) \in Nat /\ Begins(d + 1) <= Midnight[n]
    OBVIOUS
  <2>1. n \in 1 .. n /\ (d + 1) + 1 <= n
    BY <1>1, <1>4
  <2> QED  BY <1>1, <1>3, <1>4, <2>1
<1>6. \A d, e \in Days : d < e => Begins(d + 1) <= Begins(e)
  <2> SUFFICES ASSUME NEW d \in Days, NEW e \in Days, d < e PROVE Begins(d + 1) <= Begins(e)
    OBVIOUS
  <2>1. (d + 1) + 1 <= e + 1
    BY <1>4
  <2> QED  BY <1>3, <1>4, <2>1
<1>7. \A d \in Int : d < 0 => Begins(d) = 0 /\ Begins(d + 1) = 0
  <2> SUFFICES ASSUME NEW d \in Int, d < 0 PROVE Begins(d) = 0 /\ Begins(d + 1) = 0
    OBVIOUS
  <2>1. d + 1 < 0 \/ d + 1 = 0
    OBVIOUS
  <2>2. Begins(0) = 0
    BY <1>1 DEF Begins
  <2> QED  BY <2>1, <2>2 DEF Begins
<1>8. Begins(0) = 0
  BY <1>1 DEF Begins
<1>9. n - 2 \in Days
  BY <1>1, <1>2
<1> QED  BY <1>1, <1>4, <1>5, <1>6, <1>7, <1>8, <1>9 DEF n

\* A bucket is in one local day, between its two midnights.
LEMMA BucketsDay ==
  ASSUME NEW b \in Buckets
  PROVE  /\ LocalDay(b) \in Days
         /\ Begins(LocalDay(b)) <= b /\ b < Begins(LocalDay(b) + 1)
<1> DEFINE B == {d \in Days : b < Begins(d + 1)}
           n == Len(Midnight)
<1>1. b \in Nat /\ n - 2 \in Days /\ b < Begins((n - 2) + 1)
  <2>1. b \in 0 .. Midnight[n] - 1 /\ Midnight[n] \in Nat
    BY ReportsAssumption DEF Buckets, ReportsAssumption
  <2>2. n - 2 \in Days /\ n \in Nat /\ n > 1
    BY ReportsAssumption, DaysBegin DEF ReportsAssumption
  <2>3. Begins((n - 2) + 1) = Midnight[n]
    <3>1. ~ ((n - 2) + 1 < 0) /\ ((n - 2) + 1) + 1 = n
      BY <2>2
    <3> HIDE DEF n
    <3> QED  BY <3>1, Zenon DEF Begins
  <2> QED  BY <2>1, <2>2, <2>3
<1>2. B \in SUBSET Nat /\ B # {}
  BY <1>1, DaysBegin
<1> HIDE DEF B
<1>3. PICK d \in B : \A e \in B : d <= e
  BY <1>2, Least
<1>4. d \in Days /\ d \in Nat /\ b < Begins(d + 1)
  BY <1>2, <1>3 DEF B
<1>5. Begins(d) <= b
  <2>1. CASE d = 0
    BY <1>1, <2>1, DaysBegin
  <2>2. CASE d # 0
    <3>1. d - 1 \in Days /\ ~ (d <= d - 1) /\ (d - 1) + 1 = d
      BY <1>4, <2>2, DaysBegin DEF Days
    <3>2. d - 1 \notin B
      BY <1>3, <3>1
    <3>3. ~ (b < Begins(d)) /\ Begins(d) \in Nat
      BY <1>4, <3>1, <3>2, DaysBegin DEF B
    <3> QED  BY <1>1, <3>3
  <2> QED  BY <2>1, <2>2
<1>6. \E e \in Days : Begins(e) <= b /\ b < Begins(e + 1)
  BY <1>4, <1>5
<1> QED  BY <1>6 DEF LocalDay

\* The local day of a bucket is the day whose midnights it is between.
LEMMA DayOfBucket ==
  ASSUME NEW b \in Buckets, NEW d \in Int, d <= Len(Midnight) - 2
  PROVE  (Begins(d) <= b /\ b < Begins(d + 1)) <=> LocalDay(b) = d
<1> DEFINE e == LocalDay(b)
<1>1. /\ e \in Days /\ e \in Nat /\ b \in Nat
      /\ Begins(e) <= b /\ b < Begins(e + 1) /\ Begins(e) \in Nat /\ Begins(e + 1) \in Nat
  BY BucketsDay, BucketsFinite, DaysBegin
<1> HIDE DEF e
<1>2. CASE d < 0
  BY <1>1, <1>2, DaysBegin DEF e
<1>3. CASE d >= 0
  <2>1. d \in Days /\ Begins(d) \in Nat /\ Begins(d + 1) \in Nat
    BY <1>3, DaysBegin DEF Days
  <2>2. d < e => Begins(d + 1) <= Begins(e)
    BY <1>1, <2>1, DaysBegin
  <2>3. e < d => Begins(e + 1) <= Begins(d)
    BY <1>1, <2>1, DaysBegin
  <2>4. d = e \/ d < e \/ e < d
    BY <1>1
  <2> QED  BY <1>1, <2>1, <2>2, <2>3, <2>4 DEF e
<1> QED  BY <1>2, <1>3

\* A period is the buckets of its days.
LEMMA PeriodIsDays ==
  ASSUME NEW days, days[1] \in Days, days[2] \in Days, days[1] <= days[2]
  PROVE  PeriodBuckets(days) = {b \in Buckets : LocalDay(b) \in days[1] .. days[2]}
<1> DEFINE first == days[1]
           end == days[2]
<1>1. /\ first \in Nat /\ end \in Nat /\ first \in Days /\ end \in Days
      /\ Begins(first) \in Nat /\ Begins(end + 1) \in Nat
  BY DaysBegin
<1> HIDE DEF first, end
<1> SUFFICES ASSUME NEW b \in Buckets
             PROVE  (Begins(first) <= b /\ b < Begins(end + 1)) <=> LocalDay(b) \in first .. end
  BY DEF PeriodBuckets, Between, first, end
<1> DEFINE e == LocalDay(b)
<1>2. /\ e \in Days /\ e \in Nat /\ b \in Nat
      /\ Begins(e) <= b /\ b < Begins(e + 1) /\ Begins(e) \in Nat /\ Begins(e + 1) \in Nat
  BY BucketsDay, BucketsFinite, DaysBegin
<1> HIDE DEF e
<1>3. /\ e < first => Begins(e + 1) <= Begins(first)
      /\ first < e => Begins(first + 1) <= Begins(e)
      /\ end < e => Begins(end + 1) <= Begins(e)
      /\ e < end => Begins(e + 1) <= Begins(end)
  BY <1>1, <1>2, DaysBegin
<1>4. Begins(first) <= Begins(first + 1) /\ Begins(end) <= Begins(end + 1)
      /\ Begins(first + 1) \in Nat /\ Begins(end) \in Nat
  <2>1. \A d \in Days : Begins(d) \in Nat /\ Begins(d + 1) \in Nat /\ Begins(d) <= Begins(d + 1)
    <3> SUFFICES ASSUME NEW d \in Days
                 PROVE Begins(d) \in Nat /\ Begins(d + 1) \in Nat /\ Begins(d) <= Begins(d + 1)
      OBVIOUS
    <3>1. d \in Nat /\ d + 1 \in 1 .. Len(Midnight) /\ (d + 1) + 1 \in 1 .. Len(Midnight)
      BY DaysBegin DEF Days
    <3>2. Begins(d) = Midnight[d + 1] /\ Begins(d + 1) = Midnight[(d + 1) + 1]
      BY <3>1 DEF Begins
    <3>3. Begins(d) \in Nat /\ Begins(d + 1) \in Nat
      BY DaysBegin
    <3>4. Midnight[d + 1] < Midnight[(d + 1) + 1]
      BY <3>1, ReportsAssumption DEF ReportsAssumption
    <3> QED  BY <3>2, <3>3, <3>4
  <2> QED  BY <1>1, <2>1
<1> QED  BY <1>1, <1>2, <1>3, <1>4 DEF e

\* Different numbers of weeks are different numbers of days.
LEMMA Weeks ==
  ASSUME NEW w \in 1 .. BaselineWeeks
  PROVE  /\ w * Week \in Nat
         /\ \A v \in 1 .. BaselineWeeks : w # v => w * Week # v * Week
<1>1. Week \in Nat \ {0} /\ BaselineWeeks \in Nat
  BY ReportsAssumption DEF ReportsAssumption
<1>2. \A a, b \in Nat : a < b => a * Week < b * Week
  <2> SUFFICES ASSUME NEW a \in Nat, NEW b \in Nat, a < b PROVE a * Week < b * Week
    OBVIOUS
  <2>1. b * Week = a * Week + (b - a) * Week
    BY <1>1
  <2>2. (b - a) * Week > 0 /\ a * Week \in Nat /\ (b - a) * Week \in Int
    BY <1>1
  <2> QED  BY <2>1, <2>2
<1>3. w * Week \in Nat
  BY <1>1
<1>4. ASSUME NEW v \in 1 .. BaselineWeeks, w # v PROVE w * Week # v * Week
  <2>1. w \in Nat /\ v \in Nat /\ (w < v \/ v < w)
    BY <1>1, <1>4
  <2>2. w * Week \in Nat /\ v * Week \in Nat
    BY <1>1, <2>1
  <2> QED  BY <1>2, <2>1, <2>2
<1> QED  BY <1>3, <1>4

\* A day some weeks earlier is the same weekday there, however long the days between.
LEMMA EarlierDay ==
  ASSUME NEW d \in Days, NEW w \in 1 .. BaselineWeeks
  PROVE  /\ ShiftedBuckets(<<d, d>>, w) = {b \in Buckets : LocalDay(b) = d - w * Week}
         /\ Shifted(<<d, d>>, w)[1] = d - w * Week
<1> DEFINE k == d - w * Week
<1>1. k \in Int /\ k <= Len(Midnight) - 2
  <2>1. w * Week \in Nat /\ d \in Nat /\ d <= Len(Midnight) - 2 /\ Len(Midnight) \in Nat
    BY Weeks, DaysBegin DEF Days
  <2> QED  BY <2>1
<1>2. Shifted(<<d, d>>, w) = <<k, k>>
  BY DEF Shifted
<1> HIDE DEF k
<1>3. ShiftedBuckets(<<d, d>>, w) = {b \in Buckets : Begins(k) <= b /\ b < Begins(k + 1)}
  BY <1>2 DEF ShiftedBuckets, Between
<1>4. \A b \in Buckets : (Begins(k) <= b /\ b < Begins(k + 1)) <=> LocalDay(b) = k
  BY <1>1, DayOfBucket
<1> QED  BY <1>2, <1>3, <1>4 DEF k

-----------------------------------------------------------------------------
(* Answers put together without a payload in between. *)

\* The rows of the space asked about in some buckets.
RowsIn(S) == Restrict(rows[asked.space], {b \in S : rows[asked.space][b] # None})

\* Without a payload in between every part reads the same rows.
LEMMA PartsAgree ==
  ASSUME IInv, Answered, ~moved, NEW part \in {"normalized", "norm"}
  PROVE  /\ Self("report", asked.days, 0) = RowsIn(PeriodBuckets(asked.days))
         /\ Self(part, asked.days, 0) = RowsIn(PeriodBuckets(asked.days))
         /\ \A w \in 1 .. BaselineWeeks :
                Self(part, asked.days, w) = RowsIn(ShiftedBuckets(asked.days, w))
         /\ \A d \in asked.days[1] .. asked.days[2] :
                /\ Self("day", <<d, d>>, 0) = RowsIn(PeriodBuckets(<<d, d>>))
                /\ \A w \in 1 .. BaselineWeeks :
                        Self("day", <<d, d>>, w) = RowsIn(ShiftedBuckets(<<d, d>>, w))
         /\ People(part) = People("report")
         /\ \A s \in Spaces : PeerRows(part, s) = PeerRows("norm", s)
<1> DEFINE script == Script(asked.space, asked.days)
<1>1. ASSUME NEW p, NEW days, NEW w \in 0 .. BaselineWeeks,
             Query(p, "self", asked.space, days, w) \in Range(script)
      PROVE  Self(p, days, w)
                = RowsIn(IF w = 0 THEN PeriodBuckets(days) ELSE ShiftedBuckets(days, w))
  <2> DEFINE q == Query(p, "self", asked.space, days, w)
  <2>1. q.of = "self" /\ q.space = asked.space /\ q.days = days /\ q.back = w
    BY DEF Query
  <2>2. Self(p, days, w) = Got(q)
    BY DEF Self
  <2> HIDE DEF q
  <2>3. Got(q) = Result(q)
    BY <1>1, <2>2, Answer DEF q
  <2>4. Result(q) = RowsIn(BucketsOf(q))
    BY <2>1 DEF Result, RowsIn
  <2>5. BucketsOf(q) = IF w = 0 THEN PeriodBuckets(days) ELSE ShiftedBuckets(days, w)
    BY <2>1 DEF BucketsOf
  <2> QED  BY <2>2, <2>3, <2>4, <2>5
<1> HIDE DEF script
<1>2. /\ 0 \in 0 .. BaselineWeeks
      /\ \A w \in 1 .. BaselineWeeks : w \in 0 .. BaselineWeeks /\ w # 0
  BY ReportsAssumption DEF ReportsAssumption
<1>3. Self("report", asked.days, 0) = RowsIn(PeriodBuckets(asked.days))
  <2>1. Query("report", "self", asked.space, asked.days, 0) \in Range(script)
    BY Parts DEF script
  <2> QED  BY <1>1, <1>2, <2>1
<1>4. \A w \in 0 .. BaselineWeeks : Query(part, "self", asked.space, asked.days, w) \in Range(script)
  BY Parts DEF script
<1>5. Self(part, asked.days, 0) = RowsIn(PeriodBuckets(asked.days))
  BY <1>1, <1>2, <1>4
<1>6. \A w \in 1 .. BaselineWeeks :
            Self(part, asked.days, w) = RowsIn(ShiftedBuckets(asked.days, w))
  <2> SUFFICES ASSUME NEW w \in 1 .. BaselineWeeks
               PROVE  Self(part, asked.days, w) = RowsIn(ShiftedBuckets(asked.days, w))
    OBVIOUS
  <2>1. w \in 0 .. BaselineWeeks /\ w # 0
    BY <1>2
  <2>2. Query(part, "self", asked.space, asked.days, w) \in Range(script)
    BY <1>4, <2>1
  <2> QED  BY <1>1, <2>1, <2>2
<1>7. ASSUME NEW d \in asked.days[1] .. asked.days[2]
      PROVE  /\ Self("day", <<d, d>>, 0) = RowsIn(PeriodBuckets(<<d, d>>))
             /\ \A w \in 1 .. BaselineWeeks :
                    Self("day", <<d, d>>, w) = RowsIn(ShiftedBuckets(<<d, d>>, w))
  <2> DEFINE one == <<d, d>>
  <2>1. \A w \in 0 .. BaselineWeeks : Query("day", "self", asked.space, one, w) \in Range(script)
    BY Parts DEF script
  <2> HIDE DEF one
  <2>2. Self("day", one, 0) = RowsIn(PeriodBuckets(one))
    BY <1>1, <1>2, <2>1
  <2>3. ASSUME NEW w \in 1 .. BaselineWeeks
        PROVE  Self("day", one, w) = RowsIn(ShiftedBuckets(one, w))
    <3>1. w \in 0 .. BaselineWeeks /\ w # 0
      BY <1>2
    <3>2. Query("day", "self", asked.space, one, w) \in Range(script)
      BY <2>1, <3>1
    <3> QED  BY <1>1, <3>1, <3>2
  <2> QED  BY <2>2, <2>3 DEF one
<1>8. People(part) = People("report")
  <2> DEFINE q(p) == Query(p, "people", asked.space, asked.days, 0)
  <2>1. q(part) \in Range(script) /\ q("report") \in Range(script)
    BY Parts DEF script
  <2>2. \A p : q(p).of = "people" /\ q(p).back = 0 /\ q(p).days = asked.days
    BY DEF Query
  <2>3. People(part) = Got(q(part)) /\ People("report") = Got(q("report"))
    BY DEF People
  <2> HIDE DEF q
  <2>4. Got(q(part)) = Result(q(part)) /\ Got(q("report")) = Result(q("report"))
    BY <2>1, Answer DEF script
  <2>5. Result(q(part)) = Result(q("report"))
    BY <2>2 DEF Result, BucketsOf
  <2> QED  BY <2>3, <2>4, <2>5
<1>9. ASSUME NEW s \in Spaces PROVE PeerRows(part, s) = PeerRows("norm", s)
  <2> DEFINE q(p) == Query(p, "peer", s, asked.days, 0)
  <2>1. q(part) \in Range(script) /\ q("norm") \in Range(script)
    BY Parts DEF script
  <2>2. \A p : q(p).of = "peer" /\ q(p).space = s /\ q(p).back = 0 /\ q(p).days = asked.days
    BY DEF Query
  <2>3. PeerRows(part, s) = Got(q(part)) /\ PeerRows("norm", s) = Got(q("norm"))
    BY DEF PeerRows
  <2> HIDE DEF q
  <2>4. Got(q(part)) = Result(q(part)) /\ Got(q("norm")) = Result(q("norm"))
    BY <2>1, Answer DEF script
  <2>5. Result(q(part)) = Result(q("norm"))
    BY <2>2 DEF Result, BucketsOf
  <2> QED  BY <2>3, <2>4, <2>5
<1> QED  BY <1>3, <1>5, <1>6, <1>7, <1>8, <1>9

\* A comparison depends on the rows it reads only.
LEMMA Judgement ==
  ASSUME NEW p, NEW q, NEW days,
         \A w \in 0 .. BaselineWeeks : Self(p, days, w) = Self(q, days, w)
  PROVE  IsAnomaly(p, days) <=> IsAnomaly(q, days)
<1>1. /\ 0 \in 0 .. BaselineWeeks
      /\ \A w \in 1 .. BaselineWeeks : w \in 0 .. BaselineWeeks
  BY ReportsAssumption DEF ReportsAssumption
<1>2. Self(p, days, 0) = Self(q, days, 0)
  BY <1>1
<1>3. \A w \in 1 .. BaselineWeeks : Self(p, days, w) = Self(q, days, w)
  BY <1>1
<1>4. Baseline(p, days) = Baseline(q, days)
  BY <1>3 DEF Baseline
<1>5. /\ [w \in 1 .. BaselineWeeks |-> Entries(Self(p, days, w))]
            = [w \in 1 .. BaselineWeeks |-> Entries(Self(q, days, w))]
      /\ [w \in 1 .. BaselineWeeks |-> CaptureRate(Self(p, days, w))]
            = [w \in 1 .. BaselineWeeks |-> CaptureRate(Self(q, days, w))]
  BY <1>3
<1>6. EntriesVsSelf(p, days) = EntriesVsSelf(q, days)
  BY <1>2, <1>4, <1>5, Zenon DEF EntriesVsSelf, AgainstItself
<1>7. CaptureVsSelf(p, days) = CaptureVsSelf(q, days)
  BY <1>2, <1>4, <1>5, Zenon DEF CaptureVsSelf, AgainstItself
<1> QED  BY <1>6, <1>7, Zenon DEF IsAnomaly

\* A comparison is about the value of the period itself.
LEMMA ComparedValue ==
  ASSUME NEW part, NEW days
  PROVE  /\ EntriesVsSelf(part, days).value = Entries(Self(part, days, 0))
         /\ CaptureVsSelf(part, days).value = CaptureRate(Self(part, days, 0))
BY DEF EntriesVsSelf, CaptureVsSelf, AgainstItself, Compare

\* The entries of some days of a period, added up day by day.
LEMMA DaySums ==
  ASSUME IInv, Answered, ~moved,
         NEW I \in SUBSET (asked.days[1] .. asked.days[2])
  PROVE  LET report == Self("report", asked.days, 0)
             ofDay == [d \in asked.days[1] .. asked.days[2] |->
                            EntriesVsSelf("day", <<d, d>>).value]
         IN  SumFunctionOnSet(ofDay, I)
                = SumFunctionOnSet([b \in DOMAIN report |-> report[b].entries],
                                   {b \in DOMAIN report : LocalDay(b) \in I})
<1> DEFINE days == asked.days[1] .. asked.days[2]
           report == Self("report", asked.days, 0)
           ofDay == [d \in days |-> EntriesVsSelf("day", <<d, d>>).value]
           U == DOMAIN report
           f == [b \in U |-> report[b].entries]
           on == [d \in I |-> {b \in U : LocalDay(b) = d}]
<1>1. /\ asked.space \in Spaces /\ asked.days \in Periods
      /\ asked.days[1] \in Days /\ asked.days[2] \in Days /\ asked.days[1] <= asked.days[2]
      /\ days \subseteq Days /\ days \subseteq Nat /\ IsFiniteSet(days)
  <2>1. asked.space \in Spaces /\ asked.days \in Periods
    BY Request
  <2>2. /\ asked.days[1] \in Nat /\ asked.days[2] \in Nat /\ asked.days[1] <= asked.days[2]
        /\ \A d \in days : d \in Days /\ d \in Nat
        /\ asked.days[1] \in days /\ asked.days[2] \in days
    <3>1. /\ asked.days[1] \in Nat /\ asked.days[2] \in Nat /\ asked.days[1] <= asked.days[2]
          /\ \A d \in asked.days[1] .. asked.days[2] : d \in Days /\ d \in Nat
      BY <2>1, PeriodFacts
    <3>2. asked.days[1] \in days /\ asked.days[2] \in days
      BY <3>1
    <3> QED  BY <3>1, <3>2
  <2>3. IsFiniteSet(days)
    <3> DEFINE a == asked.days[1]
               b == asked.days[2]
    <3>1. a \in Int /\ b \in Int
      BY <2>2
    <3> HIDE DEF a, b
    <3>2. IsFiniteSet(a .. b)
      BY <3>1, FS_Interval
    <3> QED  BY <3>2 DEF a, b
  <2> HIDE DEF days
  <2> QED  BY <2>1, <2>2, <2>3
<1>2. /\ report = RowsIn(PeriodBuckets(asked.days))
      /\ \A d \in days : Self("day", <<d, d>>, 0) = RowsIn(PeriodBuckets(<<d, d>>))
  BY PartsAgree
<1>3. report \in Results
  <2> DEFINE q == Query("report", "self", asked.space, asked.days, 0)
  <2>1. q \in Range(Script(asked.space, asked.days))
    BY Parts
  <2>2. q.of # "people" /\ report = Got(q)
    BY DEF Query, Self
  <2> HIDE DEF q, report
  <2> QED  BY <2>1, <2>2, Answer
<1>4. /\ U \subseteq Buckets /\ IsFiniteSet(U) /\ DOMAIN f = U
      /\ \A b \in U : f[b] \in Nat /\ f[b] = report[b].entries
  <2> HIDE DEF report
  <2> QED  BY <1>3, FigureTypes DEF RowType
<1>5. /\ U = {b \in Buckets : LocalDay(b) \in days /\ rows[asked.space][b] # None}
      /\ \A b \in U : report[b] = rows[asked.space][b]
  <2>1. PeriodBuckets(asked.days) = {b \in Buckets : LocalDay(b) \in days}
    BY <1>1, PeriodIsDays
  <2> HIDE DEF report, days
  <2> QED  BY <1>2, <2>1 DEF RowsIn, Restrict
<1>6. \A d \in days :
        LET rs == Self("day", <<d, d>>, 0)
        IN  /\ DOMAIN rs = {b \in U : LocalDay(b) = d}
            /\ \A b \in DOMAIN rs : rs[b] = report[b]
  <2> SUFFICES ASSUME NEW d \in days
               PROVE  LET rs == RowsIn(PeriodBuckets(<<d, d>>))
                      IN  /\ DOMAIN rs = {b \in U : LocalDay(b) = d}
                          /\ \A b \in DOMAIN rs : rs[b] = report[b]
    BY <1>2
  <2> DEFINE one == <<d, d>>
  <2>0. one[1] = d /\ one[2] = d /\ d \in Days /\ d <= d
    BY <1>1
  <2> HIDE DEF one
  <2>1. PeriodBuckets(one) = {b \in Buckets : LocalDay(b) \in d .. d}
    BY <2>0, PeriodIsDays
  <2>2. \A x : x \in d .. d <=> x = d
    BY <1>1
  <2>3. PeriodBuckets(one) = {b \in Buckets : LocalDay(b) = d}
    BY <2>1, <2>2
  <2> HIDE DEF report, U, days
  <2>4. /\ DOMAIN RowsIn(PeriodBuckets(one))
              = {b \in Buckets : LocalDay(b) = d /\ rows[asked.space][b] # None}
        /\ \A b \in DOMAIN RowsIn(PeriodBuckets(one)) :
                RowsIn(PeriodBuckets(one))[b] = rows[asked.space][b]
    BY <2>3 DEF RowsIn, Restrict
  <2>5. {b \in Buckets : LocalDay(b) = d /\ rows[asked.space][b] # None}
            = {b \in U : LocalDay(b) = d}
    BY <1>5
  <2> QED  BY <1>5, <2>4, <2>5 DEF one
<1> HIDE DEF U, f, report
<1>7. \A d \in I : ofDay[d] = SumFunctionOnSet(f, on[d])
  <2> SUFFICES ASSUME NEW d \in I PROVE ofDay[d] = SumFunctionOnSet(f, on[d])
    OBVIOUS
  <2> DEFINE rs == Self("day", <<d, d>>, 0)
             g == [b \in DOMAIN rs |-> rs[b].entries]
  <2>1. DOMAIN rs = on[d] /\ \A b \in DOMAIN rs : rs[b] = report[b]
    BY <1>6
  <2>2. ofDay[d] = Entries(rs)
    BY ComparedValue
  <2>3. Entries(rs) = SumFunctionOnSet(g, on[d])
    <3>1. DOMAIN g = on[d]
      BY <2>1
    <3> HIDE DEF on, rs
    <3> QED  BY <3>1 DEF Entries, SumFunction
  <2>4. on[d] \subseteq U
    OBVIOUS
  <2> HIDE DEF rs
  <2>5. \A b \in on[d] : g[b] = f[b]
    BY <1>4, <2>1, <2>4
  <2> HIDE DEF g, on, ofDay
  <2>6. IsFiniteSet(on[d])
    BY <1>4, <2>4, FS_Subset
  <2> QED  BY <2>2, <2>3, <2>5, <2>6, SumSame
<1>8. /\ on \in [I -> SUBSET U]
      /\ \A d, e \in I : d # e => on[d] \cap on[e] = {}
      /\ {b \in U : \E d \in I : b \in on[d]} = {b \in U : LocalDay(b) \in I}
  OBVIOUS
<1>9. IsFiniteSet(I)
  <2> HIDE DEF days
  <2> QED  BY <1>1, FS_Subset DEF days
<1> HIDE DEF on, ofDay
<1>10. SumFunctionOnSet(ofDay, I) = SumFunctionOnSet(f, {b \in U : LocalDay(b) \in I})
  <2> DEFINE W == {b \in U : LocalDay(b) \in I}
  <2>1. W = Covered(I, U, on)
    BY <1>8 DEF Covered
  <2>2. \A b \in U : f[b] \in Nat
    BY <1>4
  <2>3. Parted(I, U, on)
    BY <1>4, <1>8, <1>9 DEF Parted
  <2>4. PartSums(I, U, on, f, ofDay)
    BY <1>7, <2>2 DEF PartSums
  <2> HIDE DEF W, days
  <2>5. SumFunctionOnSet(ofDay, I) = SumFunctionOnSet(f, Covered(I, U, on))
    BY <2>3, <2>4, SumByParts
  <2>6. SumFunctionOnSet(ofDay, I) = SumFunctionOnSet(f, W)
    BY <2>1, <2>5
  <2> QED  BY <2>6 DEF W
<1> QED  BY <1>10 DEF f, U, report, ofDay

\* Without a payload in between the four readings behind an answer are one story
\* (report.py:101-114, routes.py:168-191, metrics.py:62-90).
THEOREM AnswersAgree == Spec => []DetailAgrees
<1>1. IInv => DetailAgrees
  <2> DEFINE report == Self("report", asked.days, 0)
             days == asked.days[1] .. asked.days[2]
             ofDay == [d \in days |-> EntriesVsSelf("day", <<d, d>>).value]
             Share(part) == TrafficShare(Self(part, asked.days, 0), People(part))
  <2> SUFFICES ASSUME IInv, Answered, ~moved
               PROVE  /\ \A part \in {"normalized", "norm"} :
                            /\ EntriesVsSelf(part, asked.days).value = Entries(report)
                            /\ CaptureVsSelf(part, asked.days).value = CaptureRate(report)
                            /\ Share(part) = Share("report")
                            /\ Ranks(part) = Ranks("norm")
                      /\ SumFunction(ofDay) = Entries(report)
                      /\ \A wd \in 0 .. Week - 1 :
                            Daily(report)[wd]
                                = SumFunctionOnSet(ofDay, {d \in days : d % Week = wd})
                      /\ Cardinality(days) = 1 =>
                            (AnomalyDays # {}) = IsAnomaly("norm", asked.days)
    BY DEF DetailAgrees
  <2>1. ASSUME NEW part \in {"normalized", "norm"}
        PROVE  /\ EntriesVsSelf(part, asked.days).value = Entries(report)
               /\ CaptureVsSelf(part, asked.days).value = CaptureRate(report)
               /\ Share(part) = Share("report")
               /\ Ranks(part) = Ranks("norm")
    <3>1. Self(part, asked.days, 0) = report
      BY PartsAgree
    <3>2. People(part) = People("report")
      BY PartsAgree
    <3>3. \A s \in Spaces : PeerRows(part, s) = PeerRows("norm", s)
      BY PartsAgree
    <3>4. Ranked(part) = Ranked("norm") /\ Ranked(part) \subseteq Spaces
      BY <3>3 DEF Ranked
    <3>5. [s \in Ranked(part) |-> CaptureRate(PeerRows(part, s))]
            = [s \in Ranked("norm") |-> CaptureRate(PeerRows("norm", s))]
      BY <3>3, <3>4
    <3>6. Ranks(part) = Ranks("norm")
      BY <3>4, <3>5, Zenon DEF Ranks
    <3> HIDE DEF report
    <3> QED  BY <3>1, <3>2, <3>6, ComparedValue DEF report
  <2>2. /\ report \in Results
        /\ \A b \in DOMAIN report : LocalDay(b) \in days
    <3>1. report = RowsIn(PeriodBuckets(asked.days))
      BY PartsAgree
    <3>2. asked.days[1] \in Days /\ asked.days[2] \in Days /\ asked.days[1] <= asked.days[2]
      BY Request, PeriodFacts
    <3>3. PeriodBuckets(asked.days) = {b \in Buckets : LocalDay(b) \in days}
      BY <3>2, PeriodIsDays
    <3> DEFINE q == Query("report", "self", asked.space, asked.days, 0)
    <3>4. q \in Range(Script(asked.space, asked.days))
      BY Parts
    <3>5. q.of # "people" /\ report = Got(q)
      BY DEF Query, Self
    <3> HIDE DEF q, report, days
    <3>6. report \in Results
      BY <3>4, <3>5, Answer
    <3> QED  BY <3>1, <3>3, <3>6 DEF RowsIn, Restrict
  <2> DEFINE f == [b \in DOMAIN report |-> report[b].entries]
             sum(I) == SumFunctionOnSet(f, {b \in DOMAIN report : LocalDay(b) \in I})
  <2>3. \A I \in SUBSET days : SumFunctionOnSet(ofDay, I) = sum(I)
    BY DaySums
  <2>4. SumFunction(ofDay) = Entries(report)
    <3>1. SumFunction(ofDay) = SumFunctionOnSet(ofDay, days)
      BY DEF SumFunction
    <3>2. Entries(report) = SumFunctionOnSet(f, DOMAIN report)
      BY DEF Entries, SumFunction
    <3>3. {b \in DOMAIN report : LocalDay(b) \in days} = DOMAIN report
      BY <2>2
    <3> HIDE DEF ofDay, f, report
    <3> QED  BY <2>3, <3>1, <3>2, <3>3
  <2>5. ASSUME NEW wd \in 0 .. Week - 1
        PROVE  Daily(report)[wd] = SumFunctionOnSet(ofDay, {d \in days : d % Week = wd})
    <3> DEFINE I == {d \in days : d % Week = wd}
               S == {b \in DOMAIN report : LocalDay(b) % Week = wd}
               g == [b \in S |-> report[b].entries]
    <3>1. SumFunctionOnSet(ofDay, I) = sum(I)
      <4> I \in SUBSET days
        OBVIOUS
      <4> HIDE DEF I, ofDay, sum
      <4> QED  BY <2>3
    <3> HIDE DEF ofDay
    <3>2. {b \in DOMAIN report : LocalDay(b) \in I} = S
      <4> HIDE DEF report, days
      <4> QED  BY <2>2
    <3>3. Daily(report)[wd] = SumFunctionOnSet(g, S)
      <4> HIDE DEF report
      <4>1. Daily(report)[wd] = SumFunction(g)
        BY DEF Daily
      <4> QED  BY <4>1 DEF SumFunction
    <3>4. S \subseteq DOMAIN report /\ IsFiniteSet(S)
      <4>1. S \subseteq DOMAIN report
        OBVIOUS
      <4> HIDE DEF report, S
      <4> QED  BY <2>2, <4>1, FigureTypes, FS_Subset
    <3>5. \A b \in S : g[b] = f[b]
      <4> HIDE DEF report
      <4> QED  OBVIOUS
    <3> HIDE DEF S, g, f, I, report
    <3>6. SumFunctionOnSet(g, S) = SumFunctionOnSet(f, S)
      BY <3>4, <3>5, SumSame
    <3> QED  BY <3>1, <3>2, <3>3, <3>6 DEF I
  <2>6. ASSUME Cardinality(days) = 1
        PROVE  (AnomalyDays # {}) = IsAnomaly("norm", asked.days)
    <3> DEFINE d == asked.days[1]
    <3>1. /\ asked.days = <<asked.days[1], asked.days[2]>>
          /\ asked.days[1] \in Nat /\ asked.days[2] \in Nat /\ asked.days[1] <= asked.days[2]
      BY Request, PeriodFacts
    <3>2. Cardinality(days) = asked.days[2] - asked.days[1] + 1
      BY <3>1, FS_Interval
    <3>3. asked.days[2] = d /\ asked.days = <<d, d>>
      BY <2>6, <3>1, <3>2
    <3>4. days = {d}
      BY <3>1, <3>3
    <3>5. AnomalyDays # {} <=> IsAnomaly("day", asked.days)
      <4>1. AnomalyDays = {e \in {d} : IsAnomaly("day", <<e, e>>)}
        BY <3>4 DEF AnomalyDays
      <4> HIDE DEF d
      <4>2. AnomalyDays # {} <=> IsAnomaly("day", <<d, d>>)
        BY <4>1, Zenon
      <4> QED  BY <3>3, <4>2, Zenon
    <3>6. ASSUME NEW w \in 0 .. BaselineWeeks
          PROVE  Self("day", asked.days, w) = Self("norm", asked.days, w)
      <4>1. w = 0 \/ w \in 1 .. BaselineWeeks
        BY ReportsAssumption DEF ReportsAssumption
      <4>2. d \in days
        BY <3>4
      <4> HIDE DEF d
      <4>3. CASE w = 0
        <5>1. Self("day", <<d, d>>, 0) = RowsIn(PeriodBuckets(<<d, d>>))
          BY <4>2, PartsAgree
        <5>2. Self("norm", asked.days, 0) = RowsIn(PeriodBuckets(asked.days))
          BY PartsAgree
        <5> QED  BY <3>3, <4>3, <5>1, <5>2, Zenon
      <4>4. CASE w \in 1 .. BaselineWeeks
        <5>1. Self("day", <<d, d>>, w) = RowsIn(ShiftedBuckets(<<d, d>>, w))
          BY <4>2, <4>4, PartsAgree
        <5>2. Self("norm", asked.days, w) = RowsIn(ShiftedBuckets(asked.days, w))
          BY <4>4, PartsAgree
        <5> QED  BY <3>3, <5>1, <5>2, Zenon
      <4> QED  BY <4>1, <4>3, <4>4
    <3>7. IsAnomaly("day", asked.days) <=> IsAnomaly("norm", asked.days)
      BY <3>6, Judgement
    <3> QED  BY <3>5, <3>7 DEF IsAnomaly
  <2> QED  BY <2>1, <2>4, <2>5, <2>6
<1> QED  BY <1>1, Invariance, PTL

\* The baseline of a day is the rows of the same weekday in the trailing weeks, all of
\* them and no others, however long the local days between are
\* (normalization.py:81-97, 214-226).
THEOREM BaselinesAreClean == Spec => []BaselineClean
<1>1. IInv => BaselineClean
  <2> SUFFICES ASSUME IInv, Answered, ~moved, NEW d \in asked.days[1] .. asked.days[2]
               PROVE  LET then(w) == {b \in Buckets : /\ LocalDay(b) = d - w * Week
                                                      /\ rows[asked.space][b] # None}
                          weeks == {w \in 1 .. BaselineWeeks :
                                        then(w) # {} /\ d - w * Week \notin excluded}
                          all == {b \in Buckets : \E w \in weeks : b \in then(w)}
                          judged == EntriesVsSelf("day", <<d, d>>)
                      IN  /\ judged.n = Cardinality(weeks)
                          /\ judged.sum = SumFunction([b \in all |-> rows[asked.space][b].entries])
    BY DEF BaselineClean
  <2> DEFINE own == rows[asked.space]
             then(w) == {b \in Buckets : LocalDay(b) = d - w * Week /\ own[b] # None}
             weeks == {w \in 1 .. BaselineWeeks : then(w) # {} /\ d - w * Week \notin excluded}
             all == {b \in Buckets : \E w \in weeks : b \in then(w)}
             past(w) == Self("day", <<d, d>>, w)
             U == {b \in Buckets : own[b] # None}
             f == [b \in U |-> own[b].entries]
             g == [w \in 1 .. BaselineWeeks |-> Entries(past(w))]
             part == [w \in weeks |-> then(w)]
  <2>1. d \in Days /\ asked.space \in Spaces
    BY Request, PeriodFacts
  <2>2. \A w \in 1 .. BaselineWeeks :
            /\ DOMAIN past(w) = then(w)
            /\ \A b \in then(w) : past(w)[b] = own[b]
            /\ Shifted(<<d, d>>, w)[1] = d - w * Week
    <3> SUFFICES ASSUME NEW w \in 1 .. BaselineWeeks
                 PROVE  /\ DOMAIN past(w) = then(w)
                        /\ \A b \in then(w) : past(w)[b] = own[b]
                        /\ Shifted(<<d, d>>, w)[1] = d - w * Week
      OBVIOUS
    <3>1. past(w) = RowsIn(ShiftedBuckets(<<d, d>>, w))
      BY PartsAgree
    <3>2. /\ ShiftedBuckets(<<d, d>>, w) = {b \in Buckets : LocalDay(b) = d - w * Week}
          /\ Shifted(<<d, d>>, w)[1] = d - w * Week
      BY <2>1, EarlierDay
    <3> HIDE DEF past
    <3> QED  BY <3>1, <3>2 DEF RowsIn, Restrict
  <2> HIDE DEF past, then
  <2>3. Baseline("day", <<d, d>>) = weeks
    BY <2>2 DEF Baseline, past
  <2>4. /\ EntriesVsSelf("day", <<d, d>>).n = Cardinality(weeks)
        /\ EntriesVsSelf("day", <<d, d>>).sum = SumFunctionOnSet(g, weeks)
    <3>1. EntriesVsSelf("day", <<d, d>>) = Compare(Entries(past(0)), weeks, g)
      BY <2>3 DEF EntriesVsSelf, AgainstItself, past
    <3> HIDE DEF weeks, g
    <3> QED  BY <3>1 DEF Compare
  <2>5. /\ U \subseteq Buckets /\ IsFiniteSet(U) /\ DOMAIN f = U
        /\ \A b \in U : f[b] \in Nat /\ f[b] = own[b].entries
    <3>1. U \subseteq Buckets /\ \A b \in U : own[b] \in RowType
      BY <2>1 DEF IInv, TypeOK
    <3> HIDE DEF U
    <3>2. IsFiniteSet(U)
      BY <3>1, BucketsFinite, FS_Subset
    <3> QED  BY <3>1, <3>2 DEF RowType
  <2>6. \A w \in 1 .. BaselineWeeks : then(w) \subseteq U
    BY DEF then
  <2> HIDE DEF U, f, own
  <2>7. \A w \in weeks : g[w] = SumFunctionOnSet(f, part[w])
    <3> SUFFICES ASSUME NEW w \in weeks PROVE g[w] = SumFunctionOnSet(f, then(w))
      OBVIOUS
    <3> DEFINE h == [b \in DOMAIN past(w) |-> past(w)[b].entries]
    <3>1. w \in 1 .. BaselineWeeks /\ g[w] = Entries(past(w))
      OBVIOUS
    <3>2. Entries(past(w)) = SumFunctionOnSet(h, then(w))
      <4>1. DOMAIN h = then(w)
        BY <2>2, <3>1
      <4> QED  BY <4>1 DEF Entries, SumFunction
    <3> HIDE DEF weeks
    <3>3. \A b \in then(w) : h[b] = f[b]
      BY <2>2, <2>5, <2>6, <3>1
    <3>4. IsFiniteSet(then(w))
      BY <2>5, <2>6, <3>1, FS_Subset
    <3> HIDE DEF g, h
    <3> QED  BY <3>1, <3>2, <3>3, <3>4, SumSame
  <2>8. \A v, w \in weeks : v # w => part[v] \cap part[w] = {}
    <3> SUFFICES ASSUME NEW v \in weeks, NEW w \in weeks, v # w
                 PROVE  then(v) \cap then(w) = {}
      OBVIOUS
    <3>1. v * Week \in Nat /\ w * Week \in Nat /\ v * Week # w * Week
      BY Weeks
    <3>2. d \in Nat
      BY <2>1, DaysBegin
    <3>3. d - v * Week # d - w * Week
      BY <3>1, <3>2
    <3> HIDE DEF weeks
    <3> QED  BY <3>3 DEF then
  <2>9. IsFiniteSet(weeks)
    <3>1. weeks \subseteq 1 .. BaselineWeeks
      OBVIOUS
    <3>2. IsFiniteSet(1 .. BaselineWeeks)
      BY FS_Interval, ReportsAssumption DEF ReportsAssumption
    <3> HIDE DEF weeks
    <3> QED  BY <3>1, <3>2, FS_Subset
  <2>10. /\ weeks \subseteq 1 .. BaselineWeeks
         /\ part \in [weeks -> SUBSET U]
         /\ {b \in U : \E w \in weeks : b \in part[w]} = all
         /\ all \subseteq U
    <3>1. weeks \subseteq 1 .. BaselineWeeks
      OBVIOUS
    <3> HIDE DEF weeks
    <3> QED  BY <2>5, <2>6, <3>1
  <2> HIDE DEF weeks, part, g, all
  <2>11. SumFunctionOnSet(g, weeks) = SumFunctionOnSet(f, all)
    <3>1. all = Covered(weeks, U, part) /\ Parted(weeks, U, part)
      BY <2>5, <2>8, <2>9, <2>10 DEF Covered, Parted
    <3>2. PartSums(weeks, U, part, f, g)
      BY <2>5, <2>7 DEF PartSums
    <3> QED  BY <3>1, <3>2, SumByParts
  <2>12. SumFunctionOnSet(f, all) = SumFunction([b \in all |-> own[b].entries])
    <3> DEFINE h == [b \in all |-> own[b].entries]
    <3>1. SumFunction(h) = SumFunctionOnSet(h, all)
      BY DEF SumFunction
    <3>2. \A b \in all : f[b] = h[b]
      BY <2>5, <2>10
    <3>3. IsFiniteSet(all)
      BY <2>5, <2>10, FS_Subset
    <3> HIDE DEF h
    <3>4. SumFunctionOnSet(f, all) = SumFunctionOnSet(h, all)
      BY <3>2, <3>3, SumSame, Zenon
    <3> HIDE DEF h
    <3>5. SumFunctionOnSet(f, all) = SumFunction(h)
      BY <3>1, <3>4
    <3> QED  BY <3>5 DEF h
  <2> QED  BY <2>4, <2>11, <2>12 DEF weeks, all, then, own
<1> QED  BY <1>1, Invariance, PTL

===============================================================================
