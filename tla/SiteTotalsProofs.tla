--------------------------- MODULE SiteTotalsProofs ---------------------------
(***************************************************************************)
(* Theorems about SiteTotals, for any finite set of zones, any cameras and *)
(* any number of buckets, entries and processes.                           *)
(*                                                                         *)
(* The site total is a sum, which the library defines by a recursion over  *)
(* subsets.  The first part proves what the rest needs of such sums: the   *)
(* induction it takes is an argument about the smallest set for which the  *)
(* statement fails (Minimal).                                              *)
(*                                                                         *)
(* The second part is the inductive invariant: the bookkeeping of the      *)
(* process is the sum of its rows (Tallied), what has been written is the  *)
(* bookkeeping (Settled), and no runner still has to hand over a bucket    *)
(* whose total is written (Behind), because some runner was two buckets    *)
(* ahead when it was (Ahead) and no two are that far apart; close, where   *)
(* runners leave without going on, may break that for the buckets it finds *)
(* them apart by (Ending), and for no other.                               *)
(***************************************************************************)
EXTENDS SiteTotals, Functions, FiniteSetTheorems, TLAPS

(* Sums of functions over finite sets. *)

\* What the fold takes first, one unfolding of its recursion on the subsets of S, and
\* what the recursion defines.
Pick(s) == CHOOSE x \in s : TRUE
Body(f, S, g) ==
    [s \in SUBSET S |-> IF s = {} THEN 0 ELSE f[Pick(s)] + g[s \ {Pick(s)}]]
Iter(f, S) == CHOOSE g : g = Body(f, S, g)

\* The library's sum is the value of that recursion at the whole set.
LEMMA SumIsIter ==
  ASSUME NEW f, NEW S
  PROVE SumFunctionOnSet(f, S) = Iter(f, S)[S]
  BY Zenon DEF SumFunctionOnSet, FoldFunctionOnSet, MapThenFoldSet, Iter, Body, Pick

\* A family of subsets of a finite set has a smallest one.
LEMMA Minimal ==
  ASSUME NEW S, IsFiniteSet(S), NEW B \in SUBSET SUBSET S, B # {}
  PROVE  \E T \in B : \A U \in B : U \subseteq T => U = T
<1>1. FiniteSubsetsOf(S) = SUBSET S
  BY FS_FiniteSubsetsOfFinite
<1>2. IsWellFoundedOn(StrictSubsetOrdering(S), SUBSET S)
  BY <1>1, FS_StrictSubsetOrderingWellFounded
<1>3. PICK T \in B : \A U \in B : <<U, T>> \notin StrictSubsetOrdering(S)
  BY <1>2, WFMin
<1>4. \A U \in B : U \subseteq T => U = T
  BY <1>3 DEF StrictSubsetOrdering
<1> QED  BY <1>4

\* Two solutions of the recursion agree where both are defined.
LEMMA Agree ==
  ASSUME NEW f, NEW S, IsFiniteSet(S), NEW U \in SUBSET S,
         NEW g, g = Body(f, S, g), NEW h, h = Body(f, U, h)
  PROVE  \A W \in SUBSET U : g[W] = h[W]
<1> DEFINE B == {W \in SUBSET U : g[W] # h[W]}
<1> SUFFICES ASSUME B # {} PROVE FALSE
  OBVIOUS
<1>1. B \in SUBSET SUBSET S
  OBVIOUS
<1>2. PICK W \in B : \A V \in B : V \subseteq W => V = W
  <2> HIDE DEF B
  <2> QED  BY <1>1, Minimal
<1>3. /\ g[W] = IF W = {} THEN 0 ELSE f[Pick(W)] + g[W \ {Pick(W)}]
      /\ h[W] = IF W = {} THEN 0 ELSE f[Pick(W)] + h[W \ {Pick(W)}]
  BY DEF Body
<1>4. W # {}
  BY <1>3
<1>5. Pick(W) \in W
  BY <1>4 DEF Pick
<1>6. g[W \ {Pick(W)}] = h[W \ {Pick(W)}]
  BY <1>2, <1>5
<1> QED  BY <1>3, <1>4, <1>6

\* The recursion has a solution on every finite set.
LEMMA IterDefined ==
  ASSUME NEW f, NEW S, IsFiniteSet(S)
  PROVE  Iter(f, S) = Body(f, S, Iter(f, S))
<1> DEFINE B == {T \in SUBSET S : ~ \E g : g = Body(f, T, g)}
<1>0. \A T : (\E g : g = Body(f, T, g)) => Iter(f, T) = Body(f, T, Iter(f, T))
  BY DEF Iter
<1> SUFFICES ASSUME B # {} PROVE FALSE
  BY <1>0
<1>1. B \in SUBSET SUBSET S
  OBVIOUS
<1>2. PICK T \in B : \A U \in B : U \subseteq T => U = T
  <2> HIDE DEF B
  <2> QED  BY <1>1, Minimal
<1>3. \A U \in SUBSET T : U # T => Iter(f, U) = Body(f, U, Iter(f, U))
  BY <1>0, <1>2
<1> DEFINE sum(U) == Iter(f, U)[U]
           g == [s \in SUBSET T |-> IF s = {} THEN 0 ELSE f[Pick(s)] + sum(s \ {Pick(s)})]
<1>4. \A U \in SUBSET T : U # T => g[U] = sum(U)
  <2> SUFFICES ASSUME NEW U \in SUBSET T, U # T PROVE g[U] = sum(U)
    OBVIOUS
  <2>1. Iter(f, U) = Body(f, U, Iter(f, U))
    BY <1>3
  <2>2. sum(U) = IF U = {} THEN 0 ELSE f[Pick(U)] + Iter(f, U)[U \ {Pick(U)}]
    BY <2>1 DEF Body
  <2>3. CASE U = {}
    BY <2>2, <2>3
  <2>4. CASE U # {}
    <3> DEFINE V == U \ {Pick(U)}
    <3>1. V \in SUBSET U /\ V \in SUBSET T /\ V # T /\ IsFiniteSet(U)
      BY FS_Subset
    <3>2. Iter(f, V) = Body(f, V, Iter(f, V))
      BY <1>3, <3>1
    <3>3. Iter(f, U)[V] = Iter(f, V)[V]
      <4> HIDE DEF V
      <4>1. \A W \in SUBSET V : Iter(f, U)[W] = Iter(f, V)[W]
        BY <2>1, <3>1, <3>2, Agree
      <4> QED  BY <4>1
    <3>4. g[U] = f[Pick(U)] + sum(V)
      BY <2>4
    <3> QED  BY <2>2, <2>4, <3>3, <3>4
  <2> QED  BY <2>3, <2>4
<1>5. \A s \in SUBSET T : s # {} => g[s \ {Pick(s)}] = sum(s \ {Pick(s)})
  <2> SUFFICES ASSUME NEW s \in SUBSET T, s # {}
               PROVE  g[s \ {Pick(s)}] = sum(s \ {Pick(s)})
    OBVIOUS
  <2>1. Pick(s) \in s
    BY DEF Pick
  <2>2. s \ {Pick(s)} \in SUBSET T /\ s \ {Pick(s)} # T
    BY <2>1
  <2> HIDE DEF g, sum
  <2> QED  BY <1>4, <2>2
<1>6. g = [s \in SUBSET T |-> IF s = {} THEN 0 ELSE f[Pick(s)] + g[s \ {Pick(s)}]]
  <2>1. \A s \in SUBSET T : (IF s = {} THEN 0 ELSE f[Pick(s)] + sum(s \ {Pick(s)}))
                            = (IF s = {} THEN 0 ELSE f[Pick(s)] + g[s \ {Pick(s)}])
    BY <1>5
  <2> QED  BY <2>1, Zenon
<1>7. g = Body(f, T, g)
  BY <1>6, Zenon DEF Body
<1> HIDE DEF g
<1> QED  BY <1>7

\* A sum takes its elements in some order.
LEMMA SumUnfolds ==
  ASSUME NEW f, NEW S, IsFiniteSet(S)
  PROVE  /\ S = {} => SumFunctionOnSet(f, S) = 0
         /\ S # {} => /\ Pick(S) \in S
                      /\ SumFunctionOnSet(f, S)
                            = f[Pick(S)] + SumFunctionOnSet(f, S \ {Pick(S)})
<1>1. Iter(f, S) = Body(f, S, Iter(f, S))
  BY IterDefined
<1>2. Iter(f, S)[S] = IF S = {} THEN 0 ELSE f[Pick(S)] + Iter(f, S)[S \ {Pick(S)}]
  BY <1>1 DEF Body
<1>3. CASE S = {}
  BY <1>2, <1>3, SumIsIter
<1>4. CASE S # {}
  <2> DEFINE V == S \ {Pick(S)}
  <2>1. V \in SUBSET S /\ IsFiniteSet(V)
    BY FS_Subset
  <2> HIDE DEF V
  <2>2. Iter(f, V) = Body(f, V, Iter(f, V))
    BY <2>1, IterDefined
  <2>3. \A W \in SUBSET V : Iter(f, S)[W] = Iter(f, V)[W]
    <3> DEFINE g == Iter(f, S)
               h == Iter(f, V)
    <3>1. g = Body(f, S, g) /\ h = Body(f, V, h)
      BY <1>1, <2>2
    <3> HIDE DEF g, h
    <3>2. \A W \in SUBSET V : g[W] = h[W]
      BY <2>1, <3>1, Agree
    <3> QED  BY <3>2 DEF g, h
  <2>4. Iter(f, S)[V] = SumFunctionOnSet(f, V)
    BY <2>3, SumIsIter
  <2>5. Pick(S) \in S
    BY <1>4 DEF Pick
  <2> QED  BY <1>2, <1>4, <2>4, <2>5, SumIsIter DEF V
<1> QED  BY <1>3, <1>4

\* A sum of naturals is one.
LEMMA SumType ==
  ASSUME NEW S, IsFiniteSet(S), NEW f, \A x \in S : f[x] \in Nat
  PROVE  SumFunctionOnSet(f, S) \in Nat
<1> DEFINE B == {T \in SUBSET S : SumFunctionOnSet(f, T) \notin Nat}
<1> SUFFICES ASSUME B # {} PROVE FALSE
  OBVIOUS
<1>1. B \in SUBSET SUBSET S
  OBVIOUS
<1>2. PICK T \in B : \A U \in B : U \subseteq T => U = T
  <2> HIDE DEF B
  <2> QED  BY <1>1, Minimal
<1>3. IsFiniteSet(T)
  BY FS_Subset
<1>4. T # {}
  <2>1. T = {} => SumFunctionOnSet(f, T) = 0
    BY <1>3, SumUnfolds
  <2> QED  BY <2>1
<1>5. /\ Pick(T) \in T
      /\ SumFunctionOnSet(f, T) = f[Pick(T)] + SumFunctionOnSet(f, T \ {Pick(T)})
  BY <1>3, <1>4, SumUnfolds
<1>6. SumFunctionOnSet(f, T \ {Pick(T)}) \in Nat
  BY <1>2, <1>5
<1> QED  BY <1>5, <1>6

\* Only the values on the set matter.
LEMMA SumSame ==
  ASSUME NEW S, IsFiniteSet(S), NEW f, NEW g, \A x \in S : f[x] = g[x]
  PROVE  SumFunctionOnSet(f, S) = SumFunctionOnSet(g, S)
<1> DEFINE B == {T \in SUBSET S : SumFunctionOnSet(f, T) # SumFunctionOnSet(g, T)}
<1> SUFFICES ASSUME B # {} PROVE FALSE
  OBVIOUS
<1>1. B \in SUBSET SUBSET S
  OBVIOUS
<1>2. PICK T \in B : \A U \in B : U \subseteq T => U = T
  <2> HIDE DEF B
  <2> QED  BY <1>1, Minimal
<1>3. IsFiniteSet(T)
  BY FS_Subset
<1>4. T # {}
  BY <1>3, SumUnfolds
<1>5. /\ Pick(T) \in T
      /\ SumFunctionOnSet(f, T) = f[Pick(T)] + SumFunctionOnSet(f, T \ {Pick(T)})
      /\ SumFunctionOnSet(g, T) = g[Pick(T)] + SumFunctionOnSet(g, T \ {Pick(T)})
  BY <1>3, <1>4, SumUnfolds
<1>6. SumFunctionOnSet(f, T \ {Pick(T)}) = SumFunctionOnSet(g, T \ {Pick(T)})
  BY <1>2, <1>5
<1> QED  BY <1>5, <1>6

\* Any element may be taken first.
LEMMA SumAny ==
  ASSUME NEW S, IsFiniteSet(S), NEW f, \A x \in S : f[x] \in Nat, NEW x \in S
  PROVE  SumFunctionOnSet(f, S) = f[x] + SumFunctionOnSet(f, S \ {x})
<1> DEFINE sum(T) == SumFunctionOnSet(f, T)
           B == {T \in SUBSET S : \E y \in T : sum(T) # f[y] + sum(T \ {y})}
<1> SUFFICES ASSUME B # {} PROVE FALSE
  OBVIOUS
<1>1. B \in SUBSET SUBSET S
  OBVIOUS
<1>2. PICK T \in B : \A U \in B : U \subseteq T => U = T
  <2> HIDE DEF B
  <2> QED  BY <1>1, Minimal
<1>3. PICK y \in T : sum(T) # f[y] + sum(T \ {y})
  OBVIOUS
<1>4. \A U \in SUBSET S : IsFiniteSet(U) /\ sum(U) \in Nat
  BY FS_Subset, SumType
<1> DEFINE p == Pick(T)
<1>5. p \in T /\ sum(T) = f[p] + sum(T \ {p})
  BY <1>4, SumUnfolds
<1>6. y # p
  BY <1>3, <1>5
<1>7. T \ {p} \notin B /\ T \ {y} \notin B
  <2> HIDE DEF B, p
  <2> QED  BY <1>2, <1>5
<1>8. sum(T \ {p}) = f[y] + sum((T \ {p}) \ {y})
  BY <1>5, <1>6, <1>7
<1>9. sum(T \ {y}) = f[p] + sum((T \ {y}) \ {p})
  BY <1>5, <1>6, <1>7
<1>10. (T \ {p}) \ {y} = (T \ {y}) \ {p}
  OBVIOUS
<1>11. f[y] \in Nat /\ f[p] \in Nat /\ sum((T \ {p}) \ {y}) \in Nat
  BY <1>4, <1>5
<1> HIDE DEF sum, p
<1> QED  BY <1>3, <1>5, <1>8, <1>9, <1>10, <1>11

\* One more element adds its value.
LEMMA SumOneMore ==
  ASSUME NEW S, IsFiniteSet(S), NEW x, x \notin S, NEW f, \A y \in S \cup {x} : f[y] \in Nat
  PROVE  SumFunctionOnSet(f, S \cup {x}) = SumFunctionOnSet(f, S) + f[x]
<1>1. IsFiniteSet(S \cup {x}) /\ (S \cup {x}) \ {x} = S
  BY FS_AddElement
<1>2. SumFunctionOnSet(f, S \cup {x}) = f[x] + SumFunctionOnSet(f, S)
  BY <1>1, SumAny
<1>3. SumFunctionOnSet(f, S) \in Nat
  BY SumType
<1> QED  BY <1>2, <1>3

-----------------------------------------------------------------------------
(* The inductive invariant. *)

Running == phase \in {"idle", "frame"}

\* Nothing is later than the clock.
Past ==
    /\ frame <= clock
    /\ \A r \in Runners : at[r] # None => at[r] <= clock
    /\ \A r \in Runners, b \in Buckets : rows[r][b] # None => b <= clock

\* A runner has no row of the bucket it is in, nor of a later one, among the buckets
\* this process saw begin.
Fresh ==
    \A r \in Runners, b \in Buckets :
        /\ b > born
        /\ IF at[r] = None THEN Running ELSE at[r] <= b
        => rows[r][b] = None

Row(b) == [r \in Runners |-> rows[r][b]]

\* The bookkeeping adds up the rows.
Tallied ==
    \A b \in Buckets : b > born =>
        /\ siteEntries[b] = SumFunctionOnSet(Row(b), Producers(b))
        /\ siteCameras[b] = {CameraOf[r] : r \in Producers(b)}

\* What is written is what the bookkeeping says now.
Settled ==
    \A b \in siteWritten :
        /\ totals[b] # None
        /\ even /\ b > born /\ b \notin split
            => totals[b] = [people |-> siteEntries[b], cameras |-> siteCameras[b]]

\* Who has a bucket in progress is past those written or about to be.
Behind ==
    even => \A r \in Runners : at[r] # None =>
        /\ \A b \in siteWritten \ split : b < at[r]
        /\ \A b \in Buckets \ split : b < before => b < at[r]

\* A total is written because some runner is two buckets ahead.
Ahead ==
    Running =>
        /\ \A b \in siteWritten : \E s \in Runners : at[s] # None /\ at[s] >= b + 2
        /\ before > 0 => \E s \in Runners : at[s] # None /\ at[s] > before

\* close reaches every runner, knows the buckets they are apart by, and writes what
\* is left.
Ending ==
    /\ Running => split = {}
    /\ phase = "closing" => todo = {r \in Runners : at[r] # None}
    /\ phase = "closing" =>
            \A r, s \in todo, b \in Buckets : at[r] <= b /\ b < at[s] => b \in split
    /\ phase = "down" => Known \subseteq siteWritten

IInv == TypeOK /\ Past /\ Fresh /\ Tallied /\ Settled /\ Behind /\ Ahead /\ Ending

\* A bucket is a number, and never None.
LEMMA BucketFacts ==
  /\ Buckets \subseteq Nat /\ 0 \in Buckets /\ None \notin Nat /\ None \notin Buckets
  /\ \A b \in Buckets : b <= MaxBucket /\ \A c \in Nat : c <= b => c \in Buckets
BY SiteAssumption DEF SiteAssumption, Buckets

\* Min of a set of buckets is one of them.
LEMMA MinOfBuckets ==
  ASSUME NEW S \in SUBSET Buckets, S # {}
  PROVE  Min(S) \in S
<1> DEFINE R == OpToRel(<, Nat)
<1>1. R = {ss \in Nat \X Nat : ss[1] < ss[2]}
  BY DEF OpToRel
<1>2. IsWellFoundedOn(R, Nat)
  BY NatLessThanWellFounded
<1>3. S \subseteq Nat
  BY BucketFacts
<1> HIDE DEF R
<1>4. PICK x \in S : \A y \in S : <<y, x>> \notin R
  BY <1>2, <1>3, WFMin
<1>5. \A y \in S : x <= y
  <2> SUFFICES ASSUME NEW y \in S PROVE x <= y
    OBVIOUS
  <2>1. x \in Nat /\ y \in Nat
    BY <1>3
  <2>2. y < x => <<y, x>> \in R
    BY <1>1, <2>1
  <2> QED  BY <1>4, <2>1, <2>2
<1> QED  BY <1>5 DEF Min

\* A step writes one total, or hands one bucket over, or starts a process, or counts
\* a frame, or leaves the bookkeeping and the store alone.
Writes(b) ==
    /\ b \in Known \ siteWritten
    /\ WriteTotal(b) /\ before' = before
    /\ b < before \/ (phase = "closing" /\ todo = {})

Quiet ==
    /\ UNCHANGED <<runs, memory, rows, totals, born>>
    /\ before' \in {before, 0}
    /\ clock' \in Nat /\ clock <= clock' /\ clock' \in Buckets

LEMMA StepKinds ==
  ASSUME IInv, [Next]_vars
  PROVE  \/ \E r \in Runners : Roll(r) \/ CloseRunner(r) \/ \E n \in 0 .. MaxEntries : Count(r, n)
         \/ \E b \in Buckets : Writes(b)
         \/ Restart
         \/ /\ Quiet
            /\ \/ /\ UNCHANGED <<phase, frame, todo, even, split, looked>>
               \/ \E c \in Cameras, b \in Buckets : TakeFrame(c, b)
               \/ EndFrame
               \/ BeginClose
               \/ CloseTotals /\ phase' = "down" /\ Known \subseteq siteWritten
<1>1. CASE \E r \in Runners : Roll(r) \/ CloseRunner(r) \/ \E n \in 0 .. MaxEntries : Count(r, n)
  BY <1>1
<1>2. CASE Restart
  BY <1>2
<1>0. /\ clock \in Buckets /\ clock \in Nat /\ Buckets \subseteq Nat /\ Known \subseteq Buckets
      /\ Due \subseteq Known \ siteWritten /\ \A b \in Due : b < before
  BY BucketFacts DEF IInv, TypeOK, Known, Due
<1>3. CASE Tick
  <2>1. clock + 1 \in Buckets
    BY <1>0, <1>3, SiteAssumption DEF Tick, Buckets, SiteAssumption
  <2>2. Quiet /\ UNCHANGED <<phase, frame, todo, even, split, looked>>
    BY <1>0, <1>3, <2>1 DEF Tick, Quiet
  <2> QED  BY <2>2
<1>4. CASE \E c \in Cameras, b \in Buckets : TakeFrame(c, b)
  <2>1. Quiet
    BY <1>0, <1>4 DEF TakeFrame, Quiet
  <2> QED  BY <1>4, <2>1
<1>5. CASE EndFrame
  <2>1. Quiet
    BY <1>0, <1>5 DEF EndFrame, Quiet
  <2> QED  BY <1>5, <2>1
<1>6. CASE BeginClose
  <2>1. Quiet
    BY <1>0, <1>6 DEF BeginClose, Quiet
  <2> QED  BY <1>6, <2>1
<1>7. CASE WriteDue
  <2>1. CASE Due # {} /\ WriteTotal(Min(Due)) /\ UNCHANGED before
    <3>1. Min(Due) \in Due
      BY <1>0, <2>1, MinOfBuckets
    <3>2. Writes(Min(Due))
      BY <1>0, <2>1, <3>1 DEF Writes
    <3> QED  BY <1>0, <3>1, <3>2
  <2>2. CASE ~(Due # {} /\ WriteTotal(Min(Due)) /\ UNCHANGED before)
    <3>1. Quiet /\ UNCHANGED <<phase, frame, todo, even, split, looked>>
      BY <1>0, <1>7, <2>2 DEF WriteDue, Quiet
    <3> QED  BY <3>1
  <2> QED  BY <2>1, <2>2
<1>8. CASE CloseTotals
  <2>1. CASE Known \ siteWritten # {} /\ WriteTotal(Min(Known \ siteWritten)) /\ UNCHANGED before
    <3> DEFINE m == Min(Known \ siteWritten)
    <3>1. m \in Known \ siteWritten
      BY <1>0, <2>1, MinOfBuckets
    <3>2. Writes(m)
      BY <1>8, <2>1, <3>1 DEF Writes, CloseTotals
    <3> HIDE DEF m
    <3> QED  BY <1>0, <3>1, <3>2
  <2>2. CASE ~(Known \ siteWritten # {} /\ WriteTotal(Min(Known \ siteWritten)) /\ UNCHANGED before)
    <3>1. Quiet /\ phase' = "down" /\ Known \subseteq siteWritten
      BY <1>0, <1>8, <2>2 DEF CloseTotals, Quiet
    <3> QED  BY <1>8, <3>1
  <2> QED  BY <2>1, <2>2
<1>9. CASE UNCHANGED vars
  <2>1. Quiet /\ UNCHANGED <<phase, frame, todo, even, split, looked>>
    BY <1>0, <1>9 DEF vars, Quiet
  <2> QED  BY <2>1
<1> QED  BY <1>1, <1>2, <1>3, <1>4, <1>5, <1>6, <1>7, <1>8, <1>9 DEF Next

LEMMA InitInv == Init => IInv
<1> SUFFICES ASSUME Init PROVE IInv
  OBVIOUS
<1>1. TypeOK
  BY BucketFacts, SiteAssumption DEF SiteAssumption, Init, TypeOK
<1>2. /\ \A r \in Runners : at[r] = None
      /\ \A r \in Runners, b \in Buckets : rows[r][b] = None
      /\ \A b \in Buckets : siteEntries[b] = 0 /\ siteCameras[b] = {} /\ Producers(b) = {}
      /\ siteWritten = {} /\ phase = "idle" /\ frame = 0 /\ clock = 0 /\ before = 0
  BY DEF Init, Producers
<1>3. Tallied
  BY <1>2, FS_EmptySet, SumUnfolds DEF Tallied
<1>4. Past /\ Fresh /\ Settled /\ Behind /\ Ahead /\ Ending
  <2>1. split = {}
    BY DEF Init
  <2> QED  BY <1>2, <2>1 DEF Past, Fresh, Settled, Behind, Ahead, Ending
<1> QED  BY <1>1, <1>3, <1>4 DEF IInv

LEMMA TypeStep == IInv /\ [Next]_vars => TypeOK'
<1> SUFFICES ASSUME IInv, [Next]_vars PROVE TypeOK'
  OBVIOUS
<1>0. TypeOK
  BY DEF IInv
<1>1. ASSUME NEW r \in Runners, NEW next \in Buckets \cup {None}, at[r] \in Buckets, HandOver(r, next)
      PROVE  /\ at' \in [Runners -> Buckets \cup {None}] /\ cur' \in [Runners -> 0 .. MaxEntries]
             /\ siteEntries' \in [Buckets -> Nat] /\ siteCameras' \in [Buckets -> SUBSET Cameras]
             /\ rows' \in [Runners -> [Buckets -> Nat \cup {None}]] /\ before' \in Buckets
             /\ UNCHANGED <<clock, runs, phase, frame, siteWritten, totals, looked, born>>
  <2>1. /\ at' \in [Runners -> Buckets \cup {None}]
        /\ before' \in Buckets
        /\ UNCHANGED <<clock, runs, phase, frame, siteWritten, totals, looked, born>>
    BY <1>0, <1>1 DEF HandOver, TypeOK
  <2>2. cur' \in [Runners -> 0 .. MaxEntries]
    BY <1>0, <1>1, SiteAssumption DEF HandOver, TypeOK, SiteAssumption
  <2>3. cur[r] \in Nat /\ CameraOf[r] \in Cameras
    BY <1>0, SiteAssumption DEF TypeOK, SiteAssumption
  <2>4. siteEntries' \in [Buckets -> Nat] /\ siteCameras' \in [Buckets -> SUBSET Cameras]
    BY <1>0, <1>1, <2>3 DEF HandOver, TypeOK
  <2>5. rows' \in [Runners -> [Buckets -> Nat \cup {None}]]
    <3> DEFINE row == [rows[r] EXCEPT ![at[r]] = cur[r]]
    <3>1. rows[r] \in [Buckets -> Nat \cup {None}]
      BY <1>0 DEF TypeOK
    <3>2. row \in [Buckets -> Nat \cup {None}]
      BY <1>1, <2>3, <3>1
    <3>3. rows' = [rows EXCEPT ![r] = row]
      BY <1>0, <1>1 DEF HandOver, TypeOK
    <3> HIDE DEF row
    <3> QED  BY <1>0, <3>2, <3>3 DEF TypeOK
  <2> QED  BY <2>1, <2>2, <2>4, <2>5
<1>2. ASSUME NEW r \in Runners, Roll(r) PROVE TypeOK'
  <2>0. at[r] \in Buckets /\ frame \in Buckets /\ at[r] < frame
    BY <1>0, <1>2 DEF Roll, TypeOK
  <2>1. /\ at[r] \in Buckets /\ at[r] + 1 \in Buckets /\ HandOver(r, at[r] + 1)
        /\ todo' = todo /\ split' = split
    BY <1>2, <2>0, SiteAssumption DEF Roll, Buckets, SiteAssumption
  <2>2. even' \in BOOLEAN
    BY <1>0, <1>2, Zenon DEF Roll, TypeOK, OneBehind
  <2> QED  BY <1>0, <1>1, <2>1, <2>2 DEF TypeOK
<1>3. ASSUME NEW r \in Runners, CloseRunner(r) PROVE TypeOK'
  <2>1. at[r] \in Buckets
    BY <1>0, <1>3 DEF CloseRunner, IInv, Ending, TypeOK
  <2>2. HandOver(r, None) /\ todo' \subseteq Runners /\ even' = even /\ split' = split
    BY <1>0, <1>3 DEF CloseRunner, TypeOK
  <2> QED  BY <1>0, <1>1, <2>1, <2>2 DEF TypeOK
<1>4. ASSUME NEW r \in Runners, NEW n \in 0 .. MaxEntries, Count(r, n) PROVE TypeOK'
  <2>1. at' \in [Runners -> Buckets \cup {None}]
    BY <1>0, <1>4 DEF Count, TypeOK
  <2>2. cur' \in [Runners -> 0 .. MaxEntries]
    <3>1. cur[r] \in 0 .. MaxEntries /\ cur[r] + n \in 0 .. MaxEntries
      BY <1>0, <1>4, SiteAssumption DEF Count, TypeOK, SiteAssumption
    <3> QED  BY <1>0, <1>4, <3>1 DEF Count, TypeOK
  <2>3. even' \in BOOLEAN
    BY <1>0, <1>4, Zenon DEF Count, TypeOK, OneBehind
  <2> QED  BY <1>0, <1>4, <2>1, <2>2, <2>3 DEF Count, TypeOK
<1>5. ASSUME NEW b \in Buckets, Writes(b) PROVE TypeOK'
  <2>1. [people |-> siteEntries[b], cameras |-> siteCameras[b]] \in Total
    BY <1>0 DEF TypeOK, Total
  <2>2. totals' \in [Buckets -> Total \cup {None}]
    BY <1>0, <1>5, <2>1 DEF Writes, WriteTotal, TypeOK
  <2> QED  BY <1>0, <1>5, <2>2 DEF Writes, WriteTotal, TypeOK
<1>6. CASE Restart
  <2>1. runs' \in 1 .. MaxRuns /\ born' \in Int
    BY <1>0, <1>6, BucketFacts, SiteAssumption DEF Restart, TypeOK, SiteAssumption
  <2>2. /\ at' \in [Runners -> Buckets \cup {None}] /\ cur' \in [Runners -> 0 .. MaxEntries]
        /\ siteEntries' \in [Buckets -> Nat] /\ siteCameras' \in [Buckets -> SUBSET Cameras]
    BY <1>6, SiteAssumption DEF Restart, Empty, SiteAssumption
  <2> QED  BY <1>0, <1>6, <2>1, <2>2, BucketFacts DEF Restart, Empty, TypeOK
<1>7. ASSUME Quiet, UNCHANGED <<phase, frame, todo, even, split, looked>>
             \/ (\E c \in Cameras, b \in Buckets : TakeFrame(c, b)) \/ EndFrame \/ BeginClose
             \/ (CloseTotals /\ phase' = "down" /\ Known \subseteq siteWritten)
      PROVE  TypeOK'
  <2>1. /\ before' \in Buckets /\ clock' \in Buckets
        /\ UNCHANGED <<runs, at, cur, siteEntries, siteCameras, siteWritten, rows, totals, born>>
    BY <1>0, <1>7, BucketFacts DEF Quiet, memory, TypeOK
  <2>2. /\ phase' \in {"idle", "frame", "closing", "down"} /\ frame' \in Buckets
        /\ todo' \subseteq Runners /\ even' \in BOOLEAN /\ split' \subseteq Buckets
        /\ looked' \in [Cameras -> SUBSET Buckets]
    <3>1. CASE UNCHANGED <<phase, frame, todo, even, split, looked>>
      BY <1>0, <3>1 DEF TypeOK
    <3>2. CASE \E c \in Cameras, b \in Buckets : TakeFrame(c, b)
      BY <1>0, <3>2 DEF TypeOK, TakeFrame
    <3>3. CASE EndFrame
      BY <1>0, <3>3, BucketFacts DEF TypeOK, EndFrame
    <3>4. CASE BeginClose
      BY <1>0, <3>4 DEF TypeOK, BeginClose
    <3>5. CASE CloseTotals /\ phase' = "down" /\ Known \subseteq siteWritten
      BY <1>0, <3>5 DEF TypeOK, CloseTotals, WriteTotal
    <3> QED  BY <1>7, <3>1, <3>2, <3>3, <3>4, <3>5
  <2> QED  BY <1>0, <2>1, <2>2 DEF TypeOK
<1> QED  BY <1>2, <1>3, <1>4, <1>5, <1>6, <1>7, StepKinds

\* What a step does to the phase when it leaves the bookkeeping alone.
LEMMA QuietPhase ==
  ASSUME IInv, Quiet,
         \/ UNCHANGED <<phase, frame, todo, even, split, looked>>
         \/ \E c \in Cameras, b \in Buckets : TakeFrame(c, b)
         \/ EndFrame
         \/ BeginClose
         \/ CloseTotals /\ phase' = "down" /\ Known \subseteq siteWritten
  PROVE  /\ frame' <= clock'
         /\ Running' => Running
         /\ even' => even
         /\ split' = split \/ BeginClose
         /\ phase' = "closing" => \/ phase = "closing" /\ UNCHANGED <<todo, split>>
                                  \/ BeginClose
         /\ phase' = "down" => phase = "down" \/ Known \subseteq siteWritten
<1>0. /\ clock \in Nat /\ clock' \in Nat /\ clock <= clock' /\ frame \in Nat /\ frame <= clock
      /\ even \in BOOLEAN
  BY BucketFacts DEF Quiet, IInv, TypeOK, Past
<1>1. CASE UNCHANGED <<phase, frame, todo, even, split, looked>>
  BY <1>0, <1>1 DEF Running
<1>2. CASE \E c \in Cameras, b \in Buckets : TakeFrame(c, b)
  BY <1>0, <1>2 DEF TakeFrame, Running
<1>3. CASE EndFrame
  BY <1>0, <1>3 DEF EndFrame, Running
<1>4. CASE BeginClose
  BY <1>0, <1>4 DEF BeginClose, Running
<1>5. CASE CloseTotals /\ phase' = "down" /\ Known \subseteq siteWritten
  BY <1>0, <1>5 DEF CloseTotals, WriteTotal, Running
<1> QED  BY <1>1, <1>2, <1>3, <1>4, <1>5

\* A bucket handed over: the row, its count and the runner's next bucket.
LEMMA HandsOver ==
  ASSUME IInv, NEW r \in Runners, Roll(r) \/ CloseRunner(r)
  PROVE  /\ at[r] \in Buckets /\ cur[r] \in Nat /\ before = 0 /\ before' = at[r]
         /\ at'[r] = IF phase = "frame" THEN at[r] + 1 ELSE None
         /\ phase = "frame" => at[r] < frame
         /\ phase \in {"frame", "closing"}
         /\ \A s \in Runners : s # r => at'[s] = at[s]
         /\ rows'[r][at[r]] = cur[r]
         /\ \A s \in Runners, b \in Buckets : s # r \/ b # at[r] => rows'[s][b] = rows[s][b]
         /\ siteEntries'[at[r]] = siteEntries[at[r]] + cur[r]
         /\ siteCameras'[at[r]] = siteCameras[at[r]] \cup {CameraOf[r]}
         /\ \A b \in Buckets : b # at[r] => /\ siteEntries'[b] = siteEntries[b]
                                            /\ siteCameras'[b] = siteCameras[b]
         /\ UNCHANGED <<clock, runs, phase, frame, siteWritten, totals, split, born>>
         /\ even' => even
<1>0. TypeOK /\ cur[r] \in Nat
  BY DEF IInv, TypeOK
<1>1. \E next : /\ next = IF phase = "frame" THEN at[r] + 1 ELSE None
                /\ HandOver(r, next) /\ at[r] \in Buckets
                /\ phase = "frame" => at[r] < frame
                /\ phase \in {"frame", "closing"}
  <2>1. CASE Roll(r)
    BY <1>0, <2>1 DEF Roll, TypeOK
  <2>2. CASE CloseRunner(r)
    BY <1>0, <2>2 DEF CloseRunner, IInv, Ending, TypeOK
  <2> QED  BY <2>1, <2>2
<1>2. PICK next : /\ next = IF phase = "frame" THEN at[r] + 1 ELSE None
                  /\ HandOver(r, next) /\ at[r] \in Buckets
                  /\ phase = "frame" => at[r] < frame
                  /\ phase \in {"frame", "closing"}
  BY <1>1
<1>3. /\ at'[r] = next /\ before = 0 /\ before' = at[r]
      /\ \A s \in Runners : s # r => at'[s] = at[s]
      /\ UNCHANGED <<clock, runs, phase, frame, siteWritten, totals, born>>
  BY <1>0, <1>2 DEF HandOver, TypeOK
<1>4. /\ rows'[r][at[r]] = cur[r]
      /\ \A s \in Runners, b \in Buckets : s # r \/ b # at[r] => rows'[s][b] = rows[s][b]
  BY <1>0, <1>2 DEF HandOver, TypeOK
<1>5. /\ siteEntries'[at[r]] = siteEntries[at[r]] + cur[r]
      /\ siteCameras'[at[r]] = siteCameras[at[r]] \cup {CameraOf[r]}
      /\ \A b \in Buckets : b # at[r] => /\ siteEntries'[b] = siteEntries[b]
                                         /\ siteCameras'[b] = siteCameras[b]
  BY <1>0, <1>2 DEF HandOver, TypeOK
<1>6. (even' => even) /\ split' = split
  <2>1. CASE Roll(r)
    BY <2>1, Zenon DEF Roll
  <2>2. CASE CloseRunner(r)
    BY <2>2 DEF CloseRunner
  <2> QED  BY <2>1, <2>2
<1> QED  BY <1>0, <1>2, <1>3, <1>4, <1>5, <1>6

LEMMA PastStep == IInv /\ [Next]_vars => Past'
<1> SUFFICES ASSUME IInv, [Next]_vars PROVE Past'
  OBVIOUS
<1>0. /\ TypeOK /\ Past /\ clock \in Nat /\ frame \in Nat /\ Buckets \subseteq Nat
      /\ None \notin Nat /\ None \notin Buckets
  BY BucketFacts DEF IInv, TypeOK
<1>1. ASSUME NEW r \in Runners, Roll(r) \/ CloseRunner(r) PROVE Past'
  <2>0. /\ at[r] \in Buckets /\ at[r] \in Nat /\ at[r] # None /\ phase \in {"frame", "closing"}
        /\ at'[r] = IF phase = "frame" THEN at[r] + 1 ELSE None
        /\ phase = "frame" => at[r] < frame
    BY <1>0, <1>1, HandsOver
  <2>1. /\ at[r] <= clock
        /\ at'[r] # None => at'[r] <= clock
    BY <1>0, <2>0 DEF Past
  <2>2. /\ \A s \in Runners : s # r => at'[s] = at[s]
        /\ \A s \in Runners, b \in Buckets : s # r \/ b # at[r] => rows'[s][b] = rows[s][b]
        /\ clock' = clock /\ frame' = frame
    BY <1>1, HandsOver
  <2> QED  BY <1>0, <2>0, <2>1, <2>2 DEF Past
<1>2. ASSUME NEW r \in Runners, NEW n \in 0 .. MaxEntries, Count(r, n) PROVE Past'
  <2>1. at' = [at EXCEPT ![r] = frame] /\ UNCHANGED <<clock, frame, rows>>
    BY <1>2 DEF Count
  <2> QED  BY <1>0, <2>1 DEF Past, TypeOK
<1>3. ASSUME NEW b \in Buckets, Writes(b) PROVE Past'
  BY <1>0, <1>3 DEF Writes, WriteTotal, Past
<1>4. CASE Restart
  <2>1. /\ clock' = clock /\ frame' = 0 /\ rows' = rows
        /\ \A r \in Runners : at'[r] = None
    BY <1>4 DEF Restart, Empty
  <2> QED  BY <1>0, <2>1 DEF Past
<1>5. ASSUME Quiet, UNCHANGED <<phase, frame, todo, even, split, looked>>
             \/ (\E c \in Cameras, b \in Buckets : TakeFrame(c, b)) \/ EndFrame \/ BeginClose
             \/ (CloseTotals /\ phase' = "down" /\ Known \subseteq siteWritten)
      PROVE  Past'
  <2>1. frame' <= clock'
    BY <1>5, QuietPhase
  <2>2. at' = at /\ rows' = rows /\ clock' \in Nat /\ clock <= clock'
    BY <1>5 DEF Quiet, memory
  <2>3. \A n \in Nat : n <= clock => n <= clock'
    BY <1>0, <2>2
  <2>4. \A r \in Runners : at[r] # None => at[r] \in Nat
    BY <1>0 DEF TypeOK
  <2> QED  BY <1>0, <2>1, <2>2, <2>3, <2>4 DEF Past
<1> QED  BY <1>1, <1>2, <1>3, <1>4, <1>5, StepKinds

LEMMA FreshStep == IInv /\ [Next]_vars => Fresh'
<1> SUFFICES ASSUME IInv, [Next]_vars PROVE Fresh'
  OBVIOUS
<1>0. /\ TypeOK /\ Fresh /\ Past /\ clock \in Nat /\ frame \in Nat /\ Buckets \subseteq Nat
      /\ None \notin Nat /\ born \in Int
  BY BucketFacts DEF IInv, TypeOK
<1>1. ASSUME NEW r \in Runners, Roll(r) \/ CloseRunner(r) PROVE Fresh'
  <2>1. /\ at[r] \in Nat /\ at[r] # None
        /\ at'[r] = IF phase = "frame" THEN at[r] + 1 ELSE None
        /\ phase \in {"frame", "closing"}
        /\ \A s \in Runners : s # r => at'[s] = at[s]
        /\ \A s \in Runners, b \in Buckets : s # r \/ b # at[r] => rows'[s][b] = rows[s][b]
        /\ phase' = phase /\ born' = born
    BY <1>0, <1>1, HandsOver
  <2> SUFFICES ASSUME NEW s \in Runners, NEW b \in Buckets, b > born,
                      IF at'[s] = None THEN Running' ELSE at'[s] <= b
               PROVE  rows'[s][b] = None
    BY <2>1 DEF Fresh
  <2>2. CASE s # r
    BY <1>0, <2>1, <2>2 DEF Fresh, Running
  <2>3. CASE s = r
    <3>1. phase = "frame" /\ at[r] + 1 <= b
      BY <1>0, <2>1, <2>3 DEF Running
    <3>2. b # at[r] /\ at[r] <= b
      BY <1>0, <2>1, <3>1
    <3> QED  BY <1>0, <2>1, <2>3, <3>2 DEF Fresh
  <2> QED  BY <2>2, <2>3
<1>2. ASSUME NEW r \in Runners, NEW n \in 0 .. MaxEntries, Count(r, n) PROVE Fresh'
  <2>1. /\ at' = [at EXCEPT ![r] = frame] /\ UNCHANGED <<born, phase, rows>>
        /\ phase = "frame" /\ (at[r] = None \/ at[r] = frame)
    BY <1>2 DEF Count
  <2> QED  BY <1>0, <2>1 DEF Fresh, TypeOK, Running
<1>3. ASSUME NEW b \in Buckets, Writes(b) PROVE Fresh'
  BY <1>0, <1>3 DEF Writes, WriteTotal, Fresh, Running
<1>4. CASE Restart
  <2>1. born' = clock /\ rows' = rows
    BY <1>4 DEF Restart
  <2> QED  BY <1>0, <2>1 DEF Past, Fresh, TypeOK
<1>5. ASSUME Quiet, UNCHANGED <<phase, frame, todo, even, split, looked>>
             \/ (\E c \in Cameras, b \in Buckets : TakeFrame(c, b)) \/ EndFrame \/ BeginClose
             \/ (CloseTotals /\ phase' = "down" /\ Known \subseteq siteWritten)
      PROVE  Fresh'
  <2>1. Running' => Running
    BY <1>5, QuietPhase
  <2>2. at' = at /\ rows' = rows /\ born' = born
    BY <1>5 DEF Quiet, memory
  <2> QED  BY <1>0, <2>1, <2>2 DEF Fresh
<1> QED  BY <1>1, <1>2, <1>3, <1>4, <1>5, StepKinds

LEMMA TalliedStep == IInv /\ [Next]_vars => Tallied'
<1> SUFFICES ASSUME IInv, [Next]_vars PROVE Tallied'
  OBVIOUS
<1>0. /\ TypeOK /\ Tallied /\ Fresh /\ None \notin Nat /\ IsFiniteSet(Runners)
      /\ Buckets \subseteq Nat /\ clock \in Nat
  BY BucketFacts, SiteAssumption DEF SiteAssumption, IInv, TypeOK
<1>1. ASSUME NEW r \in Runners, Roll(r) \/ CloseRunner(r) PROVE Tallied'
  <2>1. /\ at[r] \in Buckets /\ cur[r] \in Nat /\ at[r] # None /\ born' = born
        /\ rows'[r][at[r]] = cur[r]
        /\ \A s \in Runners, c \in Buckets : s # r \/ c # at[r] => rows'[s][c] = rows[s][c]
        /\ siteEntries'[at[r]] = siteEntries[at[r]] + cur[r]
        /\ siteCameras'[at[r]] = siteCameras[at[r]] \cup {CameraOf[r]}
        /\ \A c \in Buckets : c # at[r] => /\ siteEntries'[c] = siteEntries[c]
                                           /\ siteCameras'[c] = siteCameras[c]
    BY <1>0, <1>1, HandsOver
  <2> SUFFICES ASSUME NEW b \in Buckets, b > born
               PROVE  /\ siteEntries'[b] = SumFunctionOnSet(Row(b)', Producers(b)')
                      /\ siteCameras'[b] = {CameraOf[s] : s \in Producers(b)'}
    BY <2>1 DEF Tallied
  <2>2. CASE b # at[r]
    <3>1. Row(b)' = Row(b) /\ Producers(b)' = Producers(b)
      BY <2>1, <2>2 DEF Row, Producers
    <3> QED  BY <1>0, <2>1, <2>2, <3>1 DEF Tallied
  <2>3. CASE b = at[r]
    <3> DEFINE P == Producers(b)
               f == Row(b)
               g == Row(b)'
    <3>1. rows[r][b] = None
      BY <1>0, <2>1, <2>3 DEF Fresh
    <3>2. r \notin P /\ P \in SUBSET Runners /\ IsFiniteSet(P)
      BY <1>0, <3>1, FS_Subset DEF Producers
    <3>3. Producers(b)' = P \cup {r}
      BY <1>0, <2>1, <2>3 DEF Producers
    <3>4. /\ \A s \in P : f[s] = g[s] /\ f[s] \in Nat /\ g[s] \in Nat
          /\ g[r] = cur[r]
      BY <1>0, <2>1, <2>3, <3>2 DEF Row, Producers, TypeOK
    <3>5. siteEntries[b] = SumFunctionOnSet(f, P) /\ siteCameras[b] = {CameraOf[s] : s \in P}
      BY <1>0 DEF Tallied
    <3> HIDE DEF P, f, g
    <3>6. SumFunctionOnSet(g, P \cup {r}) = SumFunctionOnSet(g, P) + g[r]
      <4>1. \A s \in P \cup {r} : g[s] \in Nat
        BY <2>1, <3>4
      <4> QED  BY <3>2, <4>1, SumOneMore
    <3>7. SumFunctionOnSet(g, P) = SumFunctionOnSet(f, P)
      BY <3>2, <3>4, SumSame
    <3>8. siteEntries'[b] = SumFunctionOnSet(g, Producers(b)')
      BY <2>1, <2>3, <3>3, <3>4, <3>5, <3>6, <3>7
    <3>9. siteCameras'[b] = {CameraOf[s] : s \in Producers(b)'}
      BY <2>1, <2>3, <3>3, <3>5
    <3> QED  BY <3>8, <3>9 DEF g
  <2> QED  BY <2>2, <2>3
<1>2. ASSUME UNCHANGED <<rows, siteEntries, siteCameras, born>> PROVE Tallied'
  BY <1>0, <1>2 DEF Tallied, Row, Producers
<1>3. CASE Restart
  <2>1. /\ born' = clock /\ rows' = rows
        /\ \A b \in Buckets : siteEntries'[b] = 0 /\ siteCameras'[b] = {}
    BY <1>3 DEF Restart, Empty
  <2> SUFFICES ASSUME NEW b \in Buckets, b > clock
               PROVE  /\ siteEntries'[b] = SumFunctionOnSet(Row(b)', Producers(b)')
                      /\ siteCameras'[b] = {CameraOf[s] : s \in Producers(b)'}
    BY <2>1 DEF Tallied
  <2>2. Producers(b)' = {}
    <3>1. ~(b <= clock)
      BY <1>0
    <3> QED  BY <2>1, <3>1 DEF IInv, Past, Producers
  <2>3. SumFunctionOnSet(Row(b)', {}) = 0
    BY FS_EmptySet, SumUnfolds
  <2> QED  BY <2>1, <2>2, <2>3
<1>4. \A r \in Runners, n \in 0 .. MaxEntries :
          Count(r, n) => UNCHANGED <<rows, siteEntries, siteCameras, born>>
  BY DEF Count
<1>5. \A b \in Buckets : Writes(b) => UNCHANGED <<rows, siteEntries, siteCameras, born>>
  BY DEF Writes, WriteTotal
<1>6. Quiet => UNCHANGED <<rows, siteEntries, siteCameras, born>>
  BY DEF Quiet, memory
<1> QED  BY <1>1, <1>2, <1>3, <1>4, <1>5, <1>6, StepKinds

LEMMA SettledStep == IInv /\ [Next]_vars => Settled'
<1> SUFFICES ASSUME IInv, [Next]_vars PROVE Settled'
  OBVIOUS
<1>0. TypeOK /\ Settled /\ Behind /\ Buckets \subseteq Nat
  BY BucketFacts DEF IInv
<1>1. ASSUME NEW r \in Runners, Roll(r) \/ CloseRunner(r) PROVE Settled'
  <2>1. /\ \A c \in Buckets : c # at[r] => /\ siteEntries'[c] = siteEntries[c]
                                           /\ siteCameras'[c] = siteCameras[c]
        /\ UNCHANGED <<siteWritten, totals, split, born>>
    BY <1>1, HandsOver
  <2>2. at[r] \in Buckets /\ (even' => even)
    BY <1>1, HandsOver
  <2>3. even => at[r] \notin siteWritten \ split
    <3>1. at[r] \in Nat /\ at[r] # None
      BY <2>2, BucketFacts
    <3>2. ~(at[r] < at[r])
      BY <3>1
    <3> QED  BY <1>0, <3>1, <3>2 DEF Behind
  <2> QED  BY <1>0, <2>1, <2>2, <2>3 DEF Settled, TypeOK
<1>2. ASSUME UNCHANGED <<siteEntries, siteCameras, siteWritten, totals, born>>, even' => even,
             split \subseteq split'
      PROVE  Settled'
  BY <1>0, <1>2 DEF Settled
<1>3. ASSUME NEW b \in Buckets, Writes(b) PROVE Settled'
  <2> DEFINE t == [people |-> siteEntries[b], cameras |-> siteCameras[b]]
  <2>1. t \in Total /\ t # None
    BY <1>0, NoneIsNoTotal DEF TypeOK, Total
  <2>2. /\ totals' = [totals EXCEPT ![b] = t] /\ siteWritten' = siteWritten \cup {b}
        /\ UNCHANGED <<siteEntries, siteCameras, born, even, split>>
    BY <1>3 DEF Writes, WriteTotal
  <2>3. totals'[b] = t /\ \A c \in siteWritten : c # b => totals'[c] = totals[c]
    BY <1>0, <2>2 DEF TypeOK
  <2> QED  BY <1>0, <2>1, <2>2, <2>3 DEF Settled
<1>4. CASE Restart
  BY <1>4 DEF Restart, Empty, Settled
<1>5. \A r \in Runners, n \in 0 .. MaxEntries :
          Count(r, n) => /\ UNCHANGED <<siteEntries, siteCameras, siteWritten, totals, born>>
                         /\ even' => even
                         /\ split' = split
  BY Zenon DEF Count
<1>6. ASSUME Quiet, UNCHANGED <<phase, frame, todo, even, split, looked>>
             \/ (\E c \in Cameras, b \in Buckets : TakeFrame(c, b)) \/ EndFrame \/ BeginClose
             \/ (CloseTotals /\ phase' = "down" /\ Known \subseteq siteWritten)
      PROVE  Settled'
  <2>1. even' => even
    BY <1>6, QuietPhase
  <2>2. split \subseteq split'
    <3>1. BeginClose => split = {}
      BY DEF BeginClose, IInv, Ending, Running
    <3> QED  BY <1>6, <3>1, QuietPhase
  <2> QED  BY <1>2, <1>6, <2>1, <2>2 DEF Quiet, memory
<1> QED  BY <1>1, <1>2, <1>3, <1>4, <1>5, <1>6, StepKinds

LEMMA BehindStep == IInv /\ [Next]_vars => Behind'
<1> SUFFICES ASSUME IInv, [Next]_vars, even' PROVE Behind'
  BY DEF Behind
<1>0. /\ TypeOK /\ Behind /\ Ahead /\ Ending /\ Buckets \subseteq Nat /\ None \notin Nat
      /\ siteWritten \subseteq Nat /\ before \in Nat /\ frame \in Nat
      /\ \A s \in Runners : at[s] # None => at[s] \in Nat
  BY BucketFacts DEF IInv, TypeOK
<1>1. ASSUME NEW r \in Runners, Roll(r) PROVE Behind'
  <2>1. /\ at[r] \in Nat /\ at[r] # None /\ before' = at[r] /\ siteWritten' = siteWritten
        /\ \A s \in Runners : s # r => at'[s] = at[s]
        /\ even /\ split' = split /\ split = {}
    BY <1>0, <1>1, HandsOver DEF Roll, Ending, Running
  <2>2. at'[r] = at[r] + 1 /\ OneBehind(at')
    <3>1. at' = [at EXCEPT ![r] = at[r] + 1]
      BY <1>1 DEF Roll, HandOver
    <3>2. OneBehind([at EXCEPT ![r] = @ + 1])
      BY <1>1, Zenon DEF Roll
    <3>3. [at EXCEPT ![r] = @ + 1] = [at EXCEPT ![r] = at[r] + 1]
      OBVIOUS
    <3>4. at'[r] = at[r] + 1
      BY <1>0, <3>1 DEF TypeOK
    <3> QED  BY <3>1, <3>2, <3>3, <3>4
  <2>3. at'[r] # None
    BY <1>0, <2>1, <2>2
  <2>4. \A s \in Runners : s # r /\ at[s] # None => at[r] <= at[s]
    <3> SUFFICES ASSUME NEW s \in Runners, s # r, at[s] # None PROVE at[r] <= at[s]
      OBVIOUS
    <3>1. (at[r] + 1) - at[s] <= 1 /\ at[s] \in Nat
      BY <1>0, <2>1, <2>2, <2>3 DEF OneBehind
    <3> QED  BY <2>1, <3>1
  <2>5. \A b \in siteWritten : b < at[r]
    BY <1>0, <2>1 DEF Behind
  <2>6. /\ \A b \in siteWritten : b < at[r] + 1
        /\ \A b \in Buckets : b < at[r] => b < at[r] + 1
        /\ \A s \in Runners, b \in Buckets : s # r /\ at[s] # None /\ b < at[r] => b < at[s]
    <3>1. \A b \in Nat, n \in Nat : b < at[r] /\ at[r] <= n => b < n
      BY <2>1
    <3> QED  BY <1>0, <2>1, <2>4, <2>5, <3>1
  <2> QED  BY <1>0, <2>1, <2>2, <2>4, <2>6 DEF Behind
<1>2. ASSUME NEW r \in Runners, CloseRunner(r) PROVE Behind'
  <2>1. /\ at[r] \in Nat /\ at[r] # None /\ before' = at[r] /\ siteWritten' = siteWritten
        /\ at'[r] = None /\ phase = "closing" /\ even /\ split' = split
        /\ \A s \in Runners : s # r => at'[s] = at[s]
    BY <1>0, <1>2, HandsOver DEF CloseRunner
  <2>2. ASSUME NEW s \in Runners, at[s] # None, NEW b \in Buckets \ split, b < at[r]
        PROVE  b < at[s]
    <3>1. r \in todo /\ s \in todo
      BY <1>0, <2>1, <2>2 DEF Ending
    <3>2. ~(at[s] <= b)
      BY <1>0, <2>1, <2>2, <3>1 DEF Ending
    <3> QED  BY <1>0, <2>2, <3>2
  <2> QED  BY <1>0, <2>1, <2>2 DEF Behind
<1>3. ASSUME NEW r \in Runners, NEW n \in 0 .. MaxEntries, Count(r, n) PROVE Behind'
  <2>1. /\ at' = [at EXCEPT ![r] = frame] /\ UNCHANGED <<siteWritten, before, split>>
        /\ phase = "frame" /\ before = 0 /\ (at[r] = None \/ at[r] = frame)
    BY <1>3 DEF Count
  <2>2. even /\ OneBehind(at')
    BY <1>3, <2>1, Zenon DEF Count
  <2>3. at'[r] = frame /\ at'[r] # None /\ \A s \in Runners : s # r => at'[s] = at[s]
    BY <1>0, <2>1 DEF TypeOK
  <2>4. \A b \in siteWritten : b < frame
    <3> SUFFICES ASSUME NEW b \in siteWritten PROVE b < frame
      OBVIOUS
    <3>1. PICK s \in Runners : at[s] # None /\ at[s] >= b + 2
      BY <1>0, <2>1 DEF Ahead, Running
    <3>2. at'[s] = at[s]
      BY <2>1, <2>3, <3>1
    <3>3. at[s] - frame <= 1
      BY <2>2, <2>3, <3>1, <3>2 DEF OneBehind
    <3> QED  BY <1>0, <3>1, <3>3
  <2>5. \A b \in Buckets : ~(b < before)
    BY <1>0, <2>1
  <2> QED  BY <1>0, <2>1, <2>2, <2>3, <2>4, <2>5 DEF Behind
<1>4. ASSUME NEW b \in Buckets, Writes(b) PROVE Behind'
  <2>1. /\ siteWritten' = siteWritten \cup {b} /\ UNCHANGED <<at, before, even, split>>
        /\ b < before \/ (phase = "closing" /\ todo = {})
        /\ b \in Nat
    BY <1>0, <1>4 DEF Writes, WriteTotal
  <2>2. CASE b < before
    <3>1. b \in split \/ \A s \in Runners : at[s] # None => b < at[s]
      BY <1>0, <1>4, <2>1, <2>2 DEF Behind
    <3> QED  BY <1>0, <2>1, <3>1 DEF Behind
  <2>3. CASE phase = "closing" /\ todo = {}
    <3>1. \A s \in Runners : at[s] = None
      BY <1>0, <2>3 DEF Ending
    <3> QED  BY <2>1, <3>1 DEF Behind
  <2> QED  BY <2>1, <2>2, <2>3
<1>5. CASE Restart
  BY <1>5 DEF Restart, Empty, Behind
<1>6. ASSUME Quiet, UNCHANGED <<phase, frame, todo, even, split, looked>>
             \/ (\E c \in Cameras, b \in Buckets : TakeFrame(c, b)) \/ EndFrame \/ BeginClose
             \/ (CloseTotals /\ phase' = "down" /\ Known \subseteq siteWritten)
      PROVE  Behind'
  <2>1. even
    BY <1>6, QuietPhase
  <2>2. UNCHANGED <<at, siteWritten>> /\ before' \in {before, 0}
    BY <1>6 DEF Quiet, memory
  <2>3. split \subseteq split'
    <3>1. BeginClose => split = {}
      BY <1>0 DEF BeginClose, Ending, Running
    <3> QED  BY <1>6, <3>1, QuietPhase
  <2>4. \A b \in Buckets : b < before' => b < before
    BY <1>0, <2>2
  <2> QED  BY <1>0, <2>1, <2>2, <2>3, <2>4 DEF Behind
<1> QED  BY <1>1, <1>2, <1>3, <1>4, <1>5, <1>6, StepKinds

LEMMA AheadStep == IInv /\ [Next]_vars => Ahead'
<1> SUFFICES ASSUME IInv, [Next]_vars, Running' PROVE Ahead'
  BY DEF Ahead
<1>0. /\ TypeOK /\ Ahead /\ Buckets \subseteq Nat /\ None \notin Nat
      /\ siteWritten \subseteq Nat /\ before \in Nat /\ frame \in Nat
      /\ \A s \in Runners : at[s] # None => at[s] \in Nat
  BY BucketFacts DEF IInv, TypeOK
<1>1. ASSUME NEW r \in Runners, Roll(r) \/ CloseRunner(r) PROVE Ahead'
  <2>1. /\ at[r] \in Nat /\ before' = at[r] /\ siteWritten' = siteWritten
        /\ at'[r] = IF phase = "frame" THEN at[r] + 1 ELSE None
        /\ phase \in {"frame", "closing"} /\ phase' = phase
        /\ \A s \in Runners : s # r => at'[s] = at[s]
    BY <1>0, <1>1, HandsOver
  <2>2. phase = "frame" /\ at'[r] = at[r] + 1 /\ at'[r] # None /\ Running
    BY <1>0, <2>1 DEF Running
  <2>3. ASSUME NEW b \in siteWritten
        PROVE  \E s \in Runners : at'[s] # None /\ at'[s] >= b + 2
    <3>1. PICK s \in Runners : at[s] # None /\ at[s] >= b + 2
      BY <1>0, <2>2 DEF Ahead
    <3>2. CASE s = r
      <4>1. at'[r] >= b + 2
        BY <1>0, <2>1, <2>2, <3>1, <3>2
      <4> QED  BY <2>2, <4>1
    <3>3. CASE s # r
      BY <2>1, <3>1, <3>3
    <3> QED  BY <3>2, <3>3
  <2>4. at'[r] > before'
    BY <2>1, <2>2
  <2> QED  BY <2>1, <2>2, <2>3, <2>4 DEF Ahead
<1>2. ASSUME NEW r \in Runners, NEW n \in 0 .. MaxEntries, Count(r, n) PROVE Ahead'
  <2>1. /\ at' = [at EXCEPT ![r] = frame] /\ UNCHANGED <<siteWritten, before>>
        /\ phase = "frame" /\ before = 0 /\ (at[r] = None \/ at[r] = frame)
    BY <1>2 DEF Count
  <2>2. \A s \in Runners : at[s] # None => at'[s] = at[s]
    BY <1>0, <2>1 DEF TypeOK
  <2> QED  BY <1>0, <2>1, <2>2 DEF Ahead, Running
<1>3. ASSUME NEW b \in Buckets, Writes(b) PROVE Ahead'
  <2>1. /\ siteWritten' = siteWritten \cup {b} /\ UNCHANGED <<at, before, phase>>
        /\ b < before \/ phase = "closing"
    BY <1>3 DEF Writes, WriteTotal
  <2>2. b < before /\ b \in Nat /\ Running
    BY <1>0, <2>1 DEF Running
  <2>3. PICK s \in Runners : at[s] # None /\ at[s] > before
    BY <1>0, <2>2 DEF Ahead
  <2>4. at[s] >= b + 2
    BY <1>0, <2>2, <2>3
  <2> QED  BY <1>0, <2>1, <2>2, <2>3, <2>4 DEF Ahead
<1>4. CASE Restart
  BY <1>4 DEF Restart, Empty, Ahead
<1>5. ASSUME Quiet, UNCHANGED <<phase, frame, todo, even, split, looked>>
             \/ (\E c \in Cameras, b \in Buckets : TakeFrame(c, b)) \/ EndFrame \/ BeginClose
             \/ (CloseTotals /\ phase' = "down" /\ Known \subseteq siteWritten)
      PROVE  Ahead'
  <2>1. Running
    BY <1>5, QuietPhase
  <2>2. UNCHANGED <<at, siteWritten>> /\ before' \in {before, 0}
    BY <1>5 DEF Quiet, memory
  <2> QED  BY <1>0, <2>1, <2>2 DEF Ahead
<1> QED  BY <1>1, <1>2, <1>3, <1>4, <1>5, StepKinds

LEMMA EndingStep == IInv /\ [Next]_vars => Ending'
<1> SUFFICES ASSUME IInv, [Next]_vars PROVE Ending'
  OBVIOUS
<1>0. TypeOK /\ Ending
  BY DEF IInv
<1>1. ASSUME NEW r \in Runners, Roll(r) PROVE Ending'
  <2>1. phase = "frame" /\ phase' = "frame" /\ split' = split
    BY <1>1 DEF Roll, HandOver
  <2> QED  BY <1>0, <2>1 DEF Ending, Running
<1>2. ASSUME NEW r \in Runners, CloseRunner(r) PROVE Ending'
  <2>1. /\ at' = [at EXCEPT ![r] = None] /\ todo' = todo \ {r}
        /\ phase = "closing" /\ phase' = phase /\ split' = split
    BY <1>2 DEF CloseRunner, HandOver
  <2>2. \A s \in Runners : s # r => at'[s] = at[s]
    BY <1>0, <2>1 DEF TypeOK
  <2>3. todo' = {s \in Runners : at'[s] # None}
    BY <1>0, <2>1 DEF Ending, TypeOK
  <2> QED  BY <1>0, <2>1, <2>2, <2>3 DEF Ending, Running
<1>3. ASSUME NEW r \in Runners, NEW n \in 0 .. MaxEntries, Count(r, n) PROVE Ending'
  <2>1. phase = "frame" /\ phase' = "frame" /\ split' = split
    BY <1>3 DEF Count
  <2> QED  BY <1>0, <2>1 DEF Ending, Running
<1>4. ASSUME NEW b \in Buckets, Writes(b) PROVE Ending'
  BY <1>0, <1>4 DEF Writes, WriteTotal, Ending, Known, Running
<1>5. CASE Restart
  <2>1. phase' = "idle" /\ split' = {}
    BY <1>5 DEF Restart, Empty
  <2> QED  BY <2>1 DEF Ending
<1>6. ASSUME Quiet, UNCHANGED <<phase, frame, todo, even, split, looked>>
             \/ (\E c \in Cameras, b \in Buckets : TakeFrame(c, b)) \/ EndFrame \/ BeginClose
             \/ (CloseTotals /\ phase' = "down" /\ Known \subseteq siteWritten)
      PROVE  Ending'
  <2>1. /\ phase' = "closing" => \/ phase = "closing" /\ UNCHANGED <<todo, split>>
                                 \/ BeginClose
        /\ Running' => Running
        /\ split' = split \/ BeginClose
        /\ phase' = "down" => phase = "down" \/ Known \subseteq siteWritten
    BY <1>6, QuietPhase
  <2>2. UNCHANGED <<at, siteCameras, siteWritten>>
    BY <1>6 DEF Quiet, memory
  <2>3. CASE phase' = "closing" /\ BeginClose
    <3>1. todo' = {r \in Runners : at[r] # None}
      BY <2>3 DEF BeginClose
    <3>2. \A r, s \in todo', b \in Buckets : at[r] <= b /\ b < at[s] => b \in split'
      BY <2>3 DEF BeginClose
    <3> QED  BY <2>2, <2>3, <3>1, <3>2 DEF Ending, Running
  <2>4. CASE phase' = "closing" /\ phase = "closing" /\ UNCHANGED <<todo, split>>
    BY <1>0, <2>2, <2>4 DEF Ending, Running
  <2>5. CASE phase' # "closing"
    <3>1. Running' => split' = {}
      BY <1>0, <2>1, <2>5 DEF Ending, BeginClose
    <3> QED  BY <1>0, <2>1, <2>2, <2>5, <3>1 DEF Ending, Known
  <2> QED  BY <2>1, <2>3, <2>4, <2>5
<1> QED  BY <1>1, <1>2, <1>3, <1>4, <1>5, <1>6, StepKinds

THEOREM Invariance == Spec => []IInv
<1>1. IInv /\ [Next]_vars => IInv'
  BY TypeStep, PastStep, FreshStep, TalliedStep, SettledStep, BehindStep, AheadStep, EndingStep
  DEF IInv
<1> QED  BY <1>1, InitInv, PTL DEF Spec

\* Type correctness of the pipeline's bookkeeping and of the store.
THEOREM TypeCorrect == Spec => []TypeOK
<1>1. IInv => TypeOK
  BY DEF IInv
<1> QED  BY <1>1, Invariance, PTL

\* As long as no runner is left two buckets behind, a total that is written is the sum
\* of the rows and the cameras that produced them, however many zones and cameras
\* there are and whatever they counted; through a shutdown too, but for the buckets it
\* finds some runners in and others past (pipeline.py:235-256, 343-351).
THEOREM PunctualTotalsAreExact == Spec => []PunctualTotalsExact
<1>1. IInv => PunctualTotalsExact
  <2> SUFFICES ASSUME IInv, even, NEW b \in siteWritten \ split, b > born
               PROVE  totals[b] = [people |-> SumFunctionOnSet(Row(b), Producers(b)),
                                   cameras |-> {CameraOf[r] : r \in Producers(b)}]
    BY DEF PunctualTotalsExact, Summed, Row
  <2>1. totals[b] = [people |-> siteEntries[b], cameras |-> siteCameras[b]] /\ b \in Buckets
    BY DEF IInv, Settled, TypeOK
  <2>2. /\ siteEntries[b] = SumFunctionOnSet(Row(b), Producers(b))
        /\ siteCameras[b] = {CameraOf[r] : r \in Producers(b)}
    BY <2>1 DEF IInv, Tallied
  <2> QED  BY <2>1, <2>2
<1> QED  BY <1>1, Invariance, PTL

\* A process that stops in good order has written a total for each bucket of its own
\* that has a row (pipeline.py:343-351).
THEOREM ShutdownIsComplete == Spec => []ShutdownCompletes
<1>1. IInv => ShutdownCompletes
  <2> SUFFICES ASSUME IInv, phase = "down", NEW b \in Buckets, b > born, Producers(b) # {}
               PROVE  totals[b] # None
    BY DEF ShutdownCompletes
  <2>1. siteCameras[b] # {}
    BY DEF IInv, Tallied
  <2>2. b \in siteWritten
    BY <2>1 DEF IInv, Ending, Known
  <2> QED  BY <2>2 DEF IInv, Settled
<1> QED  BY <1>1, Invariance, PTL

\* No total is written twice by one process (pipeline.py:241-247).
THEOREM TotalsWrittenOnce == Spec => TotalWrittenOnce
<1>1. IInv /\ [Next]_vars => [\A b \in siteWritten : runs' = runs => totals'[b] = totals[b]]_vars
  <2> SUFFICES ASSUME IInv, [Next]_vars, NEW b \in siteWritten, runs' = runs
               PROVE  totals'[b] = totals[b]
    OBVIOUS
  <2>1. ASSUME NEW c \in Buckets, Writes(c) PROVE totals'[b] = totals[b]
    BY <2>1 DEF Writes, WriteTotal, IInv, TypeOK
  <2>2. \A r \in Runners : Roll(r) \/ CloseRunner(r) => totals' = totals
    BY DEF Roll, CloseRunner, HandOver
  <2>3. \A r \in Runners, n \in 0 .. MaxEntries : Count(r, n) => totals' = totals
    BY DEF Count
  <2>4. Restart \/ Quiet => totals' = totals
    BY DEF Restart, Quiet
  <2> QED  BY <2>1, <2>2, <2>3, <2>4, StepKinds
<1> QED  BY <1>1, Invariance, PTL DEF Spec, TotalWrittenOnce

\* Within a process each row is written once: a runner has no row of the bucket it is in,
\* and none is in a bucket it has handed over (aggregate.py:159-192).
THEOREM RowsWrittenOnce == Spec => RowWrittenOnce
<1>1. IInv /\ [Next]_vars =>
        \A r \in Runners, b \in Buckets : b > born /\ rows[r][b] # None => rows'[r][b] = rows[r][b]
  <2> SUFFICES ASSUME IInv, [Next]_vars, NEW s \in Runners, NEW b \in Buckets,
                      b > born, rows[s][b] # None
               PROVE  rows'[s][b] = rows[s][b]
    OBVIOUS
  <2>1. ASSUME NEW r \in Runners, Roll(r) \/ CloseRunner(r) PROVE rows'[s][b] = rows[s][b]
    <3>1. at[r] \in Buckets /\ (s # r \/ b # at[r] => rows'[s][b] = rows[s][b])
      BY <2>1, HandsOver
    <3>2. at[r] # b \/ s # r
      BY <3>1, BucketFacts DEF IInv, Fresh
    <3> QED  BY <3>1, <3>2
  <2>2. \A c \in Buckets : Writes(c) => rows' = rows
    BY DEF Writes, WriteTotal
  <2>3. \A r \in Runners, n \in 0 .. MaxEntries : Count(r, n) => rows' = rows
    BY DEF Count
  <2>4. Restart \/ Quiet => rows' = rows
    BY DEF Restart, Quiet
  <2> QED  BY <2>1, <2>2, <2>3, <2>4, StepKinds
<1> QED  BY <1>1, Invariance, PTL DEF Spec, RowWrittenOnce

\* A share of a total that was written in time is one: no zone has more entries than the
\* site in a bucket this process saw begin, while no runner is two buckets behind and
\* but for the buckets a shutdown finds some runners in and others past.
PunctualShareIsAShare ==
    even => \A r \in Runners, b \in siteWritten \ split :
        b > born /\ rows[r][b] # None => rows[r][b] <= totals[b].people

\* What cloud/tests/test_metrics.py:88 says of shares holds where ShareIsAShare does not
\* fail by a row that comes too late (pipeline.py:235-256, 343-351).
THEOREM PunctualSharesAreShares == Spec => []PunctualShareIsAShare
<1>1. IInv /\ PunctualTotalsExact => PunctualShareIsAShare
  <2> SUFFICES ASSUME IInv, PunctualTotalsExact, even, NEW r \in Runners, NEW b \in siteWritten \ split,
                      b > born, rows[r][b] # None
               PROVE  rows[r][b] <= totals[b].people
    BY DEF PunctualShareIsAShare
  <2> DEFINE others == SumFunctionOnSet(Row(b), Producers(b) \ {r})
  <2>1. b \in Buckets /\ rows \in [Runners -> [Buckets -> Nat \cup {None}]]
    BY DEF IInv, TypeOK
  <2>2. totals[b].people = SumFunctionOnSet(Row(b), Producers(b))
    <3>1. totals[b] = [people |-> SumFunctionOnSet([s \in Runners |-> rows[s][b]], Producers(b)),
                       cameras |-> {CameraOf[s] : s \in Producers(b)}]
      BY DEF PunctualTotalsExact, Summed
    <3> QED  BY <3>1 DEF Row
  <2>3. /\ r \in Producers(b) /\ IsFiniteSet(Producers(b))
        /\ \A s \in Producers(b) : Row(b)[s] \in Nat
    <3>1. Producers(b) \subseteq Runners /\ \A s \in Producers(b) : rows[s][b] # None
      BY DEF Producers
    <3>2. \A s \in Runners : rows[s][b] \in Nat \cup {None} /\ Row(b)[s] = rows[s][b]
      BY <2>1 DEF Row
    <3>3. r \in Producers(b)
      BY DEF Producers
    <3>4. IsFiniteSet(Producers(b))
      BY <3>1, FS_Subset, SiteAssumption
    <3> QED  BY <3>1, <3>2, <3>3, <3>4
  <2>4. SumFunctionOnSet(Row(b), Producers(b)) = Row(b)[r] + others
    BY <2>3, SumAny
  <2>5. others \in Nat
    BY <2>3, FS_Subset, SumType
  <2>6. Row(b)[r] = rows[r][b] /\ Row(b)[r] \in Nat
    BY <2>3 DEF Row
  <2> HIDE DEF others
  <2> QED  BY <2>2, <2>4, <2>5, <2>6
<1> QED  BY <1>1, Invariance, PunctualTotalsAreExact, PTL
===============================================================================
