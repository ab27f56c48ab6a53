---------------------------- MODULE SumTheorems ----------------------------
(***************************************************************************)
(* What SumFunctionOnSet gives for a function of integers and any finite   *)
(* set.  It is a fold, the solution of a recursion over the subsets; that  *)
(* there is one, and what it is, is shown with a smallest counterexample   *)
(* (SmallestSet) in the place of an induction.                             *)
(***************************************************************************)
EXTENDS Integers, FiniteSets, Functions, FiniteSetTheorems, WellFoundedInduction, TLAPS

(* The element a fold takes from a set, and the recursion it solves *)
Pick(s) == CHOOSE y \in s : TRUE

IsIter(f, S, g) ==
  g = [s \in SUBSET S |-> IF s = {} THEN 0 ELSE f[Pick(s)] + g[s \ {Pick(s)}]]

Iter(f, S) == CHOOSE g : IsIter(f, S, g)

(* Among subsets of a finite set there is a smallest one. *)
LEMMA SmallestSet ==
  ASSUME NEW S, IsFiniteSet(S), NEW B, B \subseteq SUBSET S, B # {}
  PROVE  \E T \in B : \A U \in SUBSET T : U # T => U \notin B
<1>1. IsWellFoundedOn(StrictSubsetOrdering(S), FiniteSubsetsOf(S))
  BY FS_StrictSubsetOrderingWellFounded
<1>2. B \subseteq FiniteSubsetsOf(S)
  BY FS_Subset DEF FiniteSubsetsOf
<1>3. PICK T \in B : \A U \in B : ~ (<<U, T>> \in StrictSubsetOrdering(S))
  BY <1>1, <1>2, WFMin
<1>4. QED BY <1>3 DEF StrictSubsetOrdering

LEMMA PickIsElement == \A s : s # {} => Pick(s) \in s
BY DEF Pick

(* Two solutions agree on the subsets that both are defined for. *)
LEMMA IterUnique ==
  ASSUME NEW f, NEW S, NEW T, NEW g, NEW h, IsIter(f, S, g), IsIter(f, T, h),
         NEW s, IsFiniteSet(s), s \subseteq S, s \subseteq T
  PROVE  g[s] = h[s]
<1> DEFINE B == {u \in SUBSET s : g[u] # h[u]}
<1>1. SUFFICES ASSUME B # {} PROVE FALSE
  OBVIOUS
<1>2. PICK u \in B : \A v \in SUBSET u : v # u => v \notin B
  <2> HIDE DEF B
  <2>1. B \subseteq SUBSET s
    BY DEF B
  <2> QED BY <1>1, <2>1, SmallestSet
<1>3. /\ g[u] = IF u = {} THEN 0 ELSE f[Pick(u)] + g[u \ {Pick(u)}]
      /\ h[u] = IF u = {} THEN 0 ELSE f[Pick(u)] + h[u \ {Pick(u)}]
  <2>1. u \in SUBSET S /\ u \in SUBSET T
    OBVIOUS
  <2> QED BY <2>1 DEF IsIter
<1>4. u # {} => g[u \ {Pick(u)}] = h[u \ {Pick(u)}]
  BY <1>2, PickIsElement
<1>5. QED BY <1>3, <1>4

LEMMA IterExists ==
  ASSUME NEW f, NEW S, IsFiniteSet(S)
  PROVE  IsIter(f, S, Iter(f, S))
<1> DEFINE B == {T \in SUBSET S : ~ \E g : IsIter(f, T, g)}
<1>1. SUFFICES ASSUME B # {} PROVE FALSE
  <2>1. B = {} => \E g : IsIter(f, S, g)
    OBVIOUS
  <2> QED BY <2>1 DEF Iter
<1>2. PICK T \in B : \A U \in SUBSET T : U # T => U \notin B
  <2> HIDE DEF B
  <2>1. B \subseteq SUBSET S
    BY DEF B
  <2> QED BY <1>1, <2>1, SmallestSet
<1>3. \A U \in SUBSET T : U # T => IsIter(f, U, Iter(f, U))
  BY <1>2 DEF Iter
<1> DEFINE Rest(s) == s \ {Pick(s)}
           G == [s \in SUBSET T |-> IF s = {} THEN 0 ELSE f[Pick(s)] + Iter(f, Rest(s))[Rest(s)]]
<1>4. ASSUME NEW s \in SUBSET T, s # {}
      PROVE  G[Rest(s)] = Iter(f, Rest(s))[Rest(s)]
  <2> DEFINE u == Rest(s)
             v == Rest(u)
  <2>1. u \in SUBSET T /\ u # T
    BY <1>4, PickIsElement
  <2>2. G[u] = IF u = {} THEN 0 ELSE f[Pick(u)] + Iter(f, v)[v]
    BY <2>1
  <2>3. Iter(f, u)[u] = IF u = {} THEN 0 ELSE f[Pick(u)] + Iter(f, u)[v]
    <3>1. IsIter(f, u, Iter(f, u))
      BY <1>3, <2>1
    <3> HIDE DEF u
    <3> QED BY <3>1 DEF IsIter
  <2>4. ASSUME u # {} PROVE Iter(f, u)[v] = Iter(f, v)[v]
    <3>1. v \in SUBSET T /\ v # T /\ v \subseteq u
      BY <2>1
    <3>2. IsFiniteSet(v)
      BY <3>1, FS_Subset
    <3>3. IsIter(f, u, Iter(f, u)) /\ IsIter(f, v, Iter(f, v))
      BY <1>3, <2>1, <3>1
    <3> HIDE DEF u, v
    <3> QED BY <3>1, <3>2, <3>3, IterUnique
  <2> QED BY <2>2, <2>3, <2>4
<1>5. IsIter(f, T, G)
  <2>1. G = [s \in SUBSET T |-> IF s = {} THEN 0 ELSE f[Pick(s)] + G[Rest(s)]]
    BY <1>4
  <2> QED BY <2>1 DEF IsIter
<1>6. QED BY <1>5

----------------------------------------------------------------------------

LEMMA SumIsIter == \A f, S : SumFunctionOnSet(f, S) = Iter(f, S)[S]
BY DEF SumFunctionOnSet, FoldFunctionOnSet, MapThenFoldSet, Iter, IsIter, Pick

LEMMA SumUnfolds ==
  ASSUME NEW f, NEW S, IsFiniteSet(S), S # {}
  PROVE  SumFunctionOnSet(f, S) = f[Pick(S)] + SumFunctionOnSet(f, S \ {Pick(S)})
<1> DEFINE R == S \ {Pick(S)}
<1>1. Iter(f, S)[S] = f[Pick(S)] + Iter(f, S)[R]
  <2>1. IsIter(f, S, Iter(f, S))
    BY IterExists
  <2> QED BY <2>1 DEF IsIter
<1>2. IsFiniteSet(R)
  BY FS_Subset
<1>3. Iter(f, S)[R] = Iter(f, R)[R]
  <2>1. IsIter(f, S, Iter(f, S)) /\ IsIter(f, R, Iter(f, R))
    BY <1>2, IterExists
  <2>2. R \subseteq S
    OBVIOUS
  <2> HIDE DEF R
  <2> QED BY <1>2, <2>1, <2>2, IterUnique
<1>4. QED BY <1>1, <1>3, SumIsIter

(* The empty sum is zero. *)
THEOREM SumEmpty == \A f : SumFunctionOnSet(f, {}) = 0
<1> TAKE f
<1>1. IsIter(f, {}, Iter(f, {}))
  BY IterExists, FS_EmptySet
<1>2. Iter(f, {})[{}] = 0
  BY <1>1 DEF IsIter
<1>3. QED BY <1>2, SumIsIter

(* A sum of integers is one. *)
THEOREM SumInt ==
  ASSUME NEW f, NEW S, IsFiniteSet(S), \A x \in S : f[x] \in Int
  PROVE  SumFunctionOnSet(f, S) \in Int
<1> DEFINE B == {T \in SUBSET S : SumFunctionOnSet(f, T) \notin Int}
<1>1. SUFFICES ASSUME B # {} PROVE FALSE
  OBVIOUS
<1>2. PICK T \in B : \A U \in SUBSET T : U # T => U \notin B
  <2> HIDE DEF B
  <2>1. B \subseteq SUBSET S
    BY DEF B
  <2> QED BY <1>1, <2>1, SmallestSet
<1>3. T # {}
  BY SumEmpty
<1>4. Pick(T) \in T
  BY <1>3, PickIsElement
<1>5. SumFunctionOnSet(f, T \ {Pick(T)}) \in Int
  BY <1>2, <1>4
<1>6. SumFunctionOnSet(f, T) = f[Pick(T)] + SumFunctionOnSet(f, T \ {Pick(T)})
  BY <1>3, FS_Subset, SumUnfolds
<1>7. QED BY <1>4, <1>5, <1>6

(* Any element can be taken out of a sum. *)
THEOREM SumRemove ==
  ASSUME NEW f, NEW S, IsFiniteSet(S), \A x \in S : f[x] \in Int, NEW x \in S
  PROVE  SumFunctionOnSet(f, S) = f[x] + SumFunctionOnSet(f, S \ {x})
<1> DEFINE Sum(T) == SumFunctionOnSet(f, T)
           B == {T \in SUBSET S : \E y \in T : Sum(T) # f[y] + Sum(T \ {y})}
<1>1. SUFFICES ASSUME B # {} PROVE FALSE
  OBVIOUS
<1>2. PICK T \in B : \A U \in SUBSET T : U # T => U \notin B
  <2> HIDE DEF B
  <2>1. B \subseteq SUBSET S
    BY DEF B
  <2> QED BY <1>1, <2>1, SmallestSet
<1>3. PICK y \in T : Sum(T) # f[y] + Sum(T \ {y})
  OBVIOUS
<1> DEFINE p == Pick(T)
<1>4. p \in T /\ T \in SUBSET S
  BY PickIsElement
<1>5. \A U \in SUBSET S : IsFiniteSet(U) /\ Sum(U) \in Int
  BY FS_Subset, SumInt
<1>6. Sum(T) = f[p] + Sum(T \ {p})
  BY <1>4, <1>5, SumUnfolds
<1>7. y # p
  BY <1>3, <1>6
<1>8. Sum(T \ {p}) = f[y] + Sum((T \ {p}) \ {y})
  BY <1>2, <1>4, <1>7
<1>9. Sum(T \ {y}) = f[p] + Sum((T \ {y}) \ {p})
  BY <1>2, <1>4, <1>7
<1>10. Sum((T \ {p}) \ {y}) = Sum((T \ {y}) \ {p})
  <2>1. (T \ {p}) \ {y} = (T \ {y}) \ {p}
    OBVIOUS
  <2> QED BY <2>1
<1>11. /\ f[p] \in Int /\ f[y] \in Int /\ Sum((T \ {y}) \ {p}) \in Int
  BY <1>4, <1>5
<1> HIDE DEF Sum, p, B
<1>12. Sum(T) = f[y] + Sum(T \ {y})
  BY <1>6, <1>8, <1>9, <1>10, <1>11
<1>13. QED BY <1>3, <1>12

(* A new element adds its value. *)
THEOREM SumAdd ==
  ASSUME NEW f, NEW S, IsFiniteSet(S), NEW x, x \notin S, \A y \in S \cup {x} : f[y] \in Int
  PROVE  SumFunctionOnSet(f, S \cup {x}) = SumFunctionOnSet(f, S) + f[x]
<1>1. IsFiniteSet(S \cup {x})
  BY FS_AddElement
<1>2. (S \cup {x}) \ {x} = S
  OBVIOUS
<1>3. SumFunctionOnSet(f, S \cup {x}) = f[x] + SumFunctionOnSet(f, S)
  BY <1>1, <1>2, SumRemove
<1>4. SumFunctionOnSet(f, S) \in Int
  BY SumInt
<1>5. QED BY <1>3, <1>4

(* Only the values on the set matter. *)
THEOREM SumSame ==
  ASSUME NEW f, NEW g, NEW S, IsFiniteSet(S), \A x \in S : f[x] = g[x]
  PROVE  SumFunctionOnSet(f, S) = SumFunctionOnSet(g, S)
<1> DEFINE B == {T \in SUBSET S : SumFunctionOnSet(f, T) # SumFunctionOnSet(g, T)}
<1>1. SUFFICES ASSUME B # {} PROVE FALSE
  OBVIOUS
<1>2. PICK T \in B : \A U \in SUBSET T : U # T => U \notin B
  <2> HIDE DEF B
  <2>1. B \subseteq SUBSET S
    BY DEF B
  <2> QED BY <1>1, <2>1, SmallestSet
<1>3. T # {} /\ IsFiniteSet(T)
  BY SumEmpty, FS_Subset
<1>4. Pick(T) \in T
  BY <1>3, PickIsElement
<1>5. SumFunctionOnSet(f, T \ {Pick(T)}) = SumFunctionOnSet(g, T \ {Pick(T)})
  BY <1>2, <1>4
<1>6. /\ SumFunctionOnSet(f, T) = f[Pick(T)] + SumFunctionOnSet(f, T \ {Pick(T)})
      /\ SumFunctionOnSet(g, T) = g[Pick(T)] + SumFunctionOnSet(g, T \ {Pick(T)})
  BY <1>3, SumUnfolds
<1>7. QED BY <1>4, <1>5, <1>6

(* A changed value changes the sum by the difference. *)
THEOREM SumChange ==
  ASSUME NEW f, NEW g, NEW S, IsFiniteSet(S), NEW x \in S,
         \A y \in S : f[y] \in Int /\ g[y] \in Int, \A y \in S \ {x} : g[y] = f[y]
  PROVE  SumFunctionOnSet(g, S) = SumFunctionOnSet(f, S) + g[x] - f[x]
<1>1. IsFiniteSet(S \ {x})
  BY FS_Subset
<1>2. SumFunctionOnSet(f, S \ {x}) = SumFunctionOnSet(g, S \ {x})
  BY <1>1, SumSame
<1>3. SumFunctionOnSet(f, S) = f[x] + SumFunctionOnSet(f, S \ {x})
  BY SumRemove
<1>4. SumFunctionOnSet(g, S) = g[x] + SumFunctionOnSet(g, S \ {x})
  BY SumRemove
<1>5. SumFunctionOnSet(f, S \ {x}) \in Int
  BY <1>1, SumInt
<1>6. QED BY <1>2, <1>3, <1>4, <1>5

(* Fewer natural numbers have a smaller sum. *)
THEOREM SumMonotone ==
  ASSUME NEW f, NEW S, IsFiniteSet(S), \A x \in S : f[x] \in Nat, NEW T \in SUBSET S
  PROVE  0 <= SumFunctionOnSet(f, T) /\ SumFunctionOnSet(f, T) <= SumFunctionOnSet(f, S)
<1> DEFINE Sum(U) == SumFunctionOnSet(f, U)
<1>1. \A U \in SUBSET S : IsFiniteSet(U) /\ Sum(U) \in Int
  BY FS_Subset, SumInt
<1>2. \A V \in SUBSET S : \A x \in V : Sum(V) = f[x] + Sum(V \ {x})
  <2> TAKE V \in SUBSET S
  <2> TAKE x \in V
  <2> QED BY <1>1, SumRemove
<1> DEFINE B == {V \in SUBSET S : \E U \in SUBSET V : Sum(U) > Sum(V)}
<1>3. B = {}
  <2>1. SUFFICES ASSUME B # {} PROVE FALSE
    OBVIOUS
  <2>2. PICK V \in B : \A W \in SUBSET V : W # V => W \notin B
    <3> HIDE DEF B
    <3>1. B \subseteq SUBSET S
      BY DEF B
    <3> QED BY <2>1, <3>1, SmallestSet
  <2>3. PICK U \in SUBSET V : Sum(U) > Sum(V)
    OBVIOUS
  <2>4. U # V /\ V \in SUBSET S
    BY <1>1, <2>3
  <2>5. PICK x \in V : x \notin U
    BY <2>4
  <2>6. Sum(U) <= Sum(V \ {x})
    <3>1. V \ {x} \in SUBSET V /\ V \ {x} # V /\ V \ {x} \in SUBSET S /\ U \in SUBSET (V \ {x})
      BY <2>4, <2>5
    <3>2. ~ (Sum(U) > Sum(V \ {x}))
      BY <2>2, <3>1
    <3>3. Sum(U) \in Int /\ Sum(V \ {x}) \in Int
      BY <1>1, <2>4, <3>1
    <3> HIDE DEF Sum
    <3> QED BY <3>2, <3>3
  <2>7. Sum(V) = f[x] + Sum(V \ {x})
    BY <1>2, <2>4, <2>5
  <2>8. f[x] \in Nat /\ Sum(U) \in Int /\ Sum(V) \in Int /\ Sum(V \ {x}) \in Int
    BY <1>1, <2>4, <2>5
  <2> HIDE DEF Sum
  <2>9. QED BY <2>3, <2>6, <2>7, <2>8
<1>4. \A V \in SUBSET S : \A U \in SUBSET V : Sum(U) <= Sum(V)
  <2> TAKE V \in SUBSET S
  <2> TAKE U \in SUBSET V
  <2>1. ~ (Sum(U) > Sum(V))
    BY <1>3
  <2>2. Sum(U) \in Int /\ Sum(V) \in Int
    BY <1>1
  <2> HIDE DEF Sum, B
  <2> QED BY <2>1, <2>2
<1>5. Sum({}) = 0
  BY SumEmpty
<1>6. Sum({}) <= Sum(T)
  BY <1>4
<1>7. QED BY <1>4, <1>5, <1>6

(* One more element adds its value, when the others keep theirs. *)
THEOREM SumExtended ==
  ASSUME NEW f, NEW g, NEW S, IsFiniteSet(S), NEW x, x \notin S,
         \A y \in S \cup {x} : g[y] \in Int, \A y \in S : f[y] = g[y]
  PROVE  SumFunctionOnSet(g, S \cup {x}) = SumFunctionOnSet(f, S) + g[x]
<1>1. SumFunctionOnSet(f, S) = SumFunctionOnSet(g, S)
  BY SumSame
<1>2. QED BY <1>1, SumAdd

(* A sum of zeros *)
THEOREM SumZero ==
  ASSUME NEW f, NEW S, IsFiniteSet(S), \A x \in S : f[x] = 0
  PROVE  SumFunctionOnSet(f, S) = 0
<1> DEFINE B == {T \in SUBSET S : SumFunctionOnSet(f, T) # 0}
<1>1. SUFFICES ASSUME B # {} PROVE FALSE
  OBVIOUS
<1>2. PICK T \in B : \A U \in SUBSET T : U # T => U \notin B
  <2> HIDE DEF B
  <2>1. B \subseteq SUBSET S
    BY DEF B
  <2> QED BY <1>1, <2>1, SmallestSet
<1>3. PICK x \in T : TRUE
  BY SumEmpty
<1>4. SumFunctionOnSet(f, T \ {x}) = 0
  BY <1>2
<1>5. IsFiniteSet(T) /\ f[x] = 0 /\ \A y \in T : f[y] \in Int
  BY FS_Subset
<1>6. SumFunctionOnSet(f, T) = f[x] + SumFunctionOnSet(f, T \ {x})
  BY <1>5, SumRemove
<1>7. QED BY <1>4, <1>5, <1>6

(* One element less takes its value away. *)
THEOREM SumReduced ==
  ASSUME NEW f, NEW g, NEW S, NEW T, IsFiniteSet(S), NEW x, x \in S, T = S \ {x},
         \A y \in S : f[y] \in Int, \A y \in T : g[y] = f[y]
  PROVE  SumFunctionOnSet(g, T) = SumFunctionOnSet(f, S) - f[x]
<1>1. IsFiniteSet(T)
  BY FS_Subset
<1>2. SumFunctionOnSet(g, T) = SumFunctionOnSet(f, T)
  BY <1>1, SumSame
<1>3. SumFunctionOnSet(f, S) = f[x] + SumFunctionOnSet(f, S \ {x})
  BY SumRemove
<1>4. SumFunctionOnSet(f, T) \in Int /\ f[x] \in Int
  BY <1>1, SumInt
<1>5. QED BY <1>2, <1>3, <1>4
=============================================================================
