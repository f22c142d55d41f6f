----------------------------- MODULE CreditProofs -----------------------------
(***************************************************************************)
(* The two books of a pack's credits.  Those of its refunds, for any       *)
(* number of commands, workers and letters: they agree with the commands   *)
(* in every state, and where the dashboard's refunds are kept apart, money *)
(* goes back once.  Those of its lots, for any number of sends, packs and  *)
(* disputes: nothing is spent, returned or made good that was not bought.  *)
(*                                                                         *)
(* The first part is about sums over finite sets.  What a sum is, and that *)
(* its order does not matter, comes by induction over the subsets of a     *)
(* finite set: a smallest subset of which the claim fails would be one of  *)
(* which it holds.                                                         *)
(***************************************************************************)
EXTENDS PackRefunds, CreditLedger, FiniteSetTheorems, WellFoundedInduction, TLAPS

-----------------------------------------------------------------------------
(* Sums. *)

\* Induction over the subsets of a finite set, as a fact about the set of those it holds of.
LEMMA SetInduction ==
    ASSUME NEW S, IsFiniteSet(S), NEW Q,
           \A T \in SUBSET S : (\A U \in SUBSET T : U # T => U \in Q) => T \in Q
    PROVE  \A T \in SUBSET S : T \in Q
<1> DEFINE Bad == {T \in SUBSET S : T \notin Q}
<1>1. SUFFICES ASSUME Bad # {} PROVE FALSE
  OBVIOUS
<1>2. FiniteSubsetsOf(S) = SUBSET S
  BY FS_FiniteSubsetsOfFinite
<1>3. IsWellFoundedOn(StrictSubsetOrdering(S), SUBSET S)
  BY <1>2, FS_StrictSubsetOrderingWellFounded
<1>4. PICK T \in Bad : \A U \in Bad : <<U, T>> \notin StrictSubsetOrdering(S)
  <2>1. Bad \subseteq SUBSET S
    OBVIOUS
  <2> HIDE DEF Bad
  <2> QED BY <1>1, <1>3, <2>1, WFMin
<1>5. \A U \in SUBSET T : U # T => U \in Q
  BY <1>4 DEF StrictSubsetOrdering
<1> QED BY <1>4, <1>5

IterIs(f, g, S) ==
    g = [s \in SUBSET S |-> IF s = {} THEN 0
                            ELSE LET x == CHOOSE x \in s : TRUE IN f[x] + g[s \ {x}]]

Iter(f, S) == CHOOSE g : IterIs(f, g, S)

\* A sum is the last value of the recursive function its definition chooses.
LEMMA SumIs == ASSUME NEW f, NEW S PROVE SumFunctionOnSet(f, S) = Iter(f, S)[S]
BY DEF SumFunctionOnSet, FoldFunctionOnSet, MapThenFoldSet, Iter, IterIs

LEMMA IterAt ==
    ASSUME NEW f, NEW g, NEW S, IterIs(f, g, S), NEW T \in SUBSET S
    PROVE  /\ T = {} => g[T] = 0
           /\ T # {} => \E x \in T : x = (CHOOSE y \in T : TRUE) /\ g[T] = f[x] + g[T \ {x}]
<1>1. g[T] = IF T = {} THEN 0 ELSE LET x == CHOOSE x \in T : TRUE IN f[x] + g[T \ {x}]
  BY SMTT(30) DEF IterIs
<1> QED BY <1>1

\* Two such functions agree where both are defined.
LEMMA IterAgrees ==
    ASSUME NEW f, NEW g, NEW h, NEW S, NEW T \in SUBSET S, IsFiniteSet(T),
           IterIs(f, g, S), IterIs(f, h, T)
    PROVE  \A U \in SUBSET T : g[U] = h[U]
<1> DEFINE Q == {U \in SUBSET T : g[U] = h[U]}
<1>1. ASSUME NEW U \in SUBSET T, \A V \in SUBSET U : V # U => V \in Q
      PROVE  U \in Q
  <2>1. CASE U = {}
    <3>1. g[U] = 0
      BY <2>1, IterAt
    <3>2. h[U] = 0
      BY <2>1, IterAt
    <3> QED BY <3>1, <3>2
  <2>2. CASE U # {}
    <3>0. U \in SUBSET S
      OBVIOUS
    <3>1. PICK x \in U : x = (CHOOSE y \in U : TRUE) /\ g[U] = f[x] + g[U \ {x}]
      BY <2>2, <3>0, IterAt
    <3>2. PICK z \in U : z = (CHOOSE y \in U : TRUE) /\ h[U] = f[z] + h[U \ {z}]
      BY <2>2, IterAt
    <3>3. U \ {x} \in Q
      BY <1>1, <3>1
    <3> QED BY <3>1, <3>2, <3>3
  <2> QED BY <2>1, <2>2
<1>2. \A U \in SUBSET T : U \in Q
  <2> HIDE DEF Q
  <2> QED BY <1>1, SetInduction
<1> QED BY <1>2

\* There is one, over any finite set.
LEMMA IterExists == ASSUME NEW f, NEW S, IsFiniteSet(S) PROVE IterIs(f, Iter(f, S), S)
<1> DEFINE Q == {T \in SUBSET S : \E g : IterIs(f, g, T)}
<1>1. ASSUME NEW T \in SUBSET S, \A U \in SUBSET T : U # T => U \in Q
      PROVE  T \in Q
  <2> DEFINE h == [U \in SUBSET T |-> IF U = {} THEN 0
                     ELSE LET x == CHOOSE x \in U : TRUE IN f[x] + Iter(f, U \ {x})[U \ {x}]]
  <2>1. ASSUME NEW U \in SUBSET T, U # T PROVE IterIs(f, Iter(f, U), U)
    <3>1. \E g : IterIs(f, g, U)
      BY <1>1, <2>1
    <3> QED BY <3>1 DEF Iter
  <2>2. ASSUME NEW U \in SUBSET T, U # T PROVE h[U] = Iter(f, U)[U]
    <3>1. CASE U = {}
      BY <2>1, <2>2, <3>1, IterAt
    <3>2. CASE U # {}
      <4> DEFINE y == CHOOSE y \in U : TRUE
      <4>1. y \in U
        BY <3>2
      <4>2. h[U] = f[y] + Iter(f, U \ {y})[U \ {y}]
        BY <3>2
      <4>3. Iter(f, U)[U] = f[y] + Iter(f, U)[U \ {y}]
        <5>1. IterIs(f, Iter(f, U), U) /\ U \in SUBSET U
          BY <2>1, <2>2
        <5>2. \E x \in U : x = (CHOOSE z \in U : TRUE) /\ Iter(f, U)[U] = f[x] + Iter(f, U)[U \ {x}]
          BY ONLY <3>2, <5>1, IterAt
        <5> QED BY <5>2
      <4> HIDE DEF y, h
      <4>4. U \ {y} \in SUBSET T /\ U \ {y} # T /\ U \ {y} \in SUBSET U
        BY <2>2, <4>1
      <4>5. IterIs(f, Iter(f, U \ {y}), U \ {y}) /\ IterIs(f, Iter(f, U), U)
        BY <2>1, <2>2, <4>4
      <4>6. IsFiniteSet(U \ {y})
        BY FS_Subset
      <4>7. Iter(f, U)[U \ {y}] = Iter(f, U \ {y})[U \ {y}]
        BY <4>4, <4>5, <4>6, IterAgrees
      <4> QED BY <4>2, <4>3, <4>7
    <3> QED BY <3>1, <3>2
  <2>3. ASSUME NEW U \in SUBSET T
        PROVE  h[U] = IF U = {} THEN 0 ELSE LET x == CHOOSE x \in U : TRUE IN f[x] + h[U \ {x}]
    <3>1. CASE U = {}
      BY <3>1
    <3>2. CASE U # {}
      <4> DEFINE y == CHOOSE y \in U : TRUE
      <4>1. y \in U
        BY <3>2
      <4>2. h[U] = f[y] + Iter(f, U \ {y})[U \ {y}]
        BY <3>2
      <4> HIDE DEF h, y
      <4>3. h[U \ {y}] = Iter(f, U \ {y})[U \ {y}]
        BY <2>2, <4>1
      <4> QED BY <3>2, <4>2, <4>3 DEF y
    <3> QED BY <3>1, <3>2
  <2>4. h = [U \in SUBSET T |-> h[U]]
    OBVIOUS
  <2>5. IterIs(f, h, T)
    <3> HIDE DEF h
    <3> QED BY <2>3, <2>4 DEF IterIs
  <2> QED BY <2>5
<1>2. \A T \in SUBSET S : T \in Q
  <2> HIDE DEF Q
  <2> QED BY <1>1, SetInduction
<1>3. \E g : IterIs(f, g, S)
  BY <1>2
<1> QED BY <1>3 DEF Iter

\* A sum over nothing is zero; over anything else it is one value and the sum of the rest.
LEMMA SumUnfolds ==
    ASSUME NEW f, NEW S, IsFiniteSet(S)
    PROVE  /\ S = {} => SumFunctionOnSet(f, S) = 0
           /\ S # {} => \E x \in S : SumFunctionOnSet(f, S) = f[x] + SumFunctionOnSet(f, S \ {x})
<1>1. IterIs(f, Iter(f, S), S)
  BY IterExists
<1>2. CASE S = {}
  BY <1>1, <1>2, IterAt, SumIs
<1>3. CASE S # {}
  <2>1. PICK x \in S : Iter(f, S)[S] = f[x] + Iter(f, S)[S \ {x}]
    BY <1>1, <1>3, IterAt
  <2>2. IsFiniteSet(S \ {x}) /\ S \ {x} \in SUBSET S
    BY FS_Subset
  <2>3. IterIs(f, Iter(f, S \ {x}), S \ {x})
    BY <2>2, IterExists
  <2>4. Iter(f, S)[S \ {x}] = Iter(f, S \ {x})[S \ {x}]
    BY <1>1, <2>2, <2>3, IterAgrees
  <2> QED BY <1>3, <2>1, <2>4, SumIs
<1> QED BY <1>2, <1>3

LEMMA SumTypes ==
    ASSUME NEW D, NEW f \in [D -> Nat], NEW S \in SUBSET D, IsFiniteSet(S)
    PROVE  SumFunctionOnSet(f, S) \in Nat
<1> DEFINE Q == {T \in SUBSET S : SumFunctionOnSet(f, T) \in Nat}
<1>1. ASSUME NEW T \in SUBSET S, \A U \in SUBSET T : U # T => U \in Q
      PROVE  T \in Q
  <2>0. IsFiniteSet(T)
    BY FS_Subset
  <2>1. CASE T = {}
    BY <2>0, <2>1, SumUnfolds
  <2>2. CASE T # {}
    <3>1. PICK x \in T : SumFunctionOnSet(f, T) = f[x] + SumFunctionOnSet(f, T \ {x})
      BY <2>0, <2>2, SumUnfolds
    <3>2. SumFunctionOnSet(f, T \ {x}) \in Nat
      BY <1>1
    <3>3. f[x] \in Nat
      OBVIOUS
    <3> QED BY <3>1, <3>2, <3>3
  <2> QED BY <2>1, <2>2
<1>2. \A T \in SUBSET S : T \in Q
  <2> HIDE DEF Q
  <2> QED BY <1>1, SetInduction
<1> QED BY <1>2

\* The order of the sum does not matter: any value can be the one set apart.
LEMMA SumTakes ==
    ASSUME NEW D, NEW f \in [D -> Nat], NEW S \in SUBSET D, IsFiniteSet(S), NEW x \in S
    PROVE  SumFunctionOnSet(f, S) = f[x] + SumFunctionOnSet(f, S \ {x})
<1> DEFINE Holds(T, y) == SumFunctionOnSet(f, T) = f[y] + SumFunctionOnSet(f, T \ {y})
           Q == {T \in SUBSET S : \A y \in T : Holds(T, y)}
<1>1. ASSUME NEW T \in SUBSET S, \A U \in SUBSET T : U # T => U \in Q
      PROVE  T \in Q
  <2>1. SUFFICES ASSUME NEW y \in T PROVE Holds(T, y)
    OBVIOUS
  <2>2. IsFiniteSet(T)
    BY FS_Subset
  <2>3. PICK z \in T : SumFunctionOnSet(f, T) = f[z] + SumFunctionOnSet(f, T \ {z})
    BY <2>2, SumUnfolds
  <2>4. CASE y = z
    BY <2>3, <2>4
  <2>5. CASE y # z
    <3>1. Holds(T \ {z}, y) /\ Holds(T \ {y}, z)
      <4>1. T \ {z} \in Q /\ T \ {y} \in Q
        BY <1>1
      <4> QED BY <2>5, <4>1
    <3>2. (T \ {z}) \ {y} = (T \ {y}) \ {z}
      OBVIOUS
    <3>3. SumFunctionOnSet(f, (T \ {y}) \ {z}) \in Nat
      <4>1. IsFiniteSet((T \ {y}) \ {z}) /\ (T \ {y}) \ {z} \in SUBSET D
        BY <2>2, FS_Subset
      <4> QED BY <4>1, SumTypes
    <3>4. f[y] \in Nat /\ f[z] \in Nat
      OBVIOUS
    <3> DEFINE s == SumFunctionOnSet(f, (T \ {y}) \ {z})
    <3>5. /\ SumFunctionOnSet(f, T) = f[z] + (f[y] + s)
          /\ SumFunctionOnSet(f, T \ {y}) = f[z] + s
      BY <2>3, <3>1, <3>2
    <3> HIDE DEF s
    <3>6. s \in Nat
      BY <3>3 DEF s
    <3> QED BY <3>4, <3>5, <3>6
  <2> QED BY <2>4, <2>5
<1>2. \A T \in SUBSET S : T \in Q
  <2> HIDE DEF Q
  <2> QED BY <1>1, SetInduction
<1> QED BY <1>2

\* A sum no value of which is above the two of two others is not above theirs.
LEMMA SumSplits ==
    ASSUME NEW D, NEW f \in [D -> Nat], NEW g \in [D -> Nat], NEW h \in [D -> Nat],
           NEW S \in SUBSET D, IsFiniteSet(S), \A x \in S : f[x] <= g[x] + h[x]
    PROVE  SumFunctionOnSet(f, S) <= SumFunctionOnSet(g, S) + SumFunctionOnSet(h, S)
<1> DEFINE Q == {T \in SUBSET S :
                   SumFunctionOnSet(f, T) <= SumFunctionOnSet(g, T) + SumFunctionOnSet(h, T)}
<1>1. ASSUME NEW T \in SUBSET S, \A U \in SUBSET T : U # T => U \in Q
      PROVE  T \in Q
  <2>1. IsFiniteSet(T)
    BY FS_Subset
  <2>2. CASE T = {}
    <3>1. SumFunctionOnSet(f, T) = 0 /\ SumFunctionOnSet(g, T) = 0 /\ SumFunctionOnSet(h, T) = 0
      BY <2>1, <2>2, SumUnfolds
    <3> QED BY <3>1
  <2>3. CASE T # {}
    <3>1. PICK x \in T : TRUE
      BY <2>3
    <3> DEFINE sf == SumFunctionOnSet(f, T \ {x})
               sg == SumFunctionOnSet(g, T \ {x})
               sh == SumFunctionOnSet(h, T \ {x})
    <3>2. /\ SumFunctionOnSet(f, T) = f[x] + sf
          /\ SumFunctionOnSet(g, T) = g[x] + sg
          /\ SumFunctionOnSet(h, T) = h[x] + sh
      <4>1. T \in SUBSET D /\ x \in T
        BY <3>1
      <4> QED BY <2>1, <4>1, SumTakes
    <3>3. sf \in Nat /\ sg \in Nat /\ sh \in Nat
      <4>1. IsFiniteSet(T \ {x}) /\ T \ {x} \in SUBSET D
        BY <2>1, FS_Subset
      <4> QED BY <4>1, SumTypes
    <3>4. sf <= sg + sh
      <4>1. T \ {x} \in Q
        BY <1>1, <3>1
      <4> QED BY <4>1
    <3>5. f[x] \in Nat /\ g[x] \in Nat /\ h[x] \in Nat /\ f[x] <= g[x] + h[x]
      BY <3>1
    <3> HIDE DEF sf, sg, sh
    <3>6. f[x] + sf <= (g[x] + sg) + (h[x] + sh)
      BY <3>3, <3>4, <3>5
    <3> QED BY <3>2, <3>6
  <2> QED BY <2>2, <2>3
<1>2. \A T \in SUBSET S : T \in Q
  <2> HIDE DEF Q
  <2> QED BY <1>1, SetInduction
<1> QED BY <1>2

\* Functions that agree on a set have one sum over it.
LEMMA SumAgrees ==
    ASSUME NEW D, NEW f \in [D -> Nat], NEW g \in [D -> Nat],
           NEW S \in SUBSET D, IsFiniteSet(S), \A x \in S : f[x] = g[x]
    PROVE  SumFunctionOnSet(f, S) = SumFunctionOnSet(g, S)
<1> DEFINE Q == {T \in SUBSET S : SumFunctionOnSet(f, T) = SumFunctionOnSet(g, T)}
<1>1. ASSUME NEW T \in SUBSET S, \A U \in SUBSET T : U # T => U \in Q
      PROVE  T \in Q
  <2>1. IsFiniteSet(T)
    BY FS_Subset
  <2>2. CASE T = {}
    BY <2>1, <2>2, SumUnfolds
  <2>3. CASE T # {}
    <3>1. PICK x \in T : TRUE
      BY <2>3
    <3>2. /\ SumFunctionOnSet(f, T) = f[x] + SumFunctionOnSet(f, T \ {x})
          /\ SumFunctionOnSet(g, T) = g[x] + SumFunctionOnSet(g, T \ {x})
      BY <2>1, <3>1, SumTakes
    <3>3. T \ {x} \in Q
      BY <1>1, <3>1
    <3> QED BY <3>1, <3>2, <3>3
  <2> QED BY <2>2, <2>3
<1>2. \A T \in SUBSET S : T \in Q
  <2> HIDE DEF Q
  <2> QED BY <1>1, SetInduction
<1> QED BY <1>2

\* When one value changes, the sum changes as much.
LEMMA SumTurns ==
    ASSUME NEW D, NEW f \in [D -> Nat], NEW g \in [D -> Nat], IsFiniteSet(D), NEW x \in D,
           \A y \in D : y # x => f[y] = g[y]
    PROVE  SumFunctionOnSet(g, D) - g[x] = SumFunctionOnSet(f, D) - f[x]
<1>1. IsFiniteSet(D \ {x}) /\ D \ {x} \in SUBSET D /\ D \in SUBSET D
  BY FS_Subset
<1> DEFINE sf == SumFunctionOnSet(f, D \ {x})
           sg == SumFunctionOnSet(g, D \ {x})
<1>2. SumFunctionOnSet(f, D) = f[x] + sf /\ SumFunctionOnSet(g, D) = g[x] + sg
  BY <1>1, SumTakes
<1>3. sf = sg
  <2>1. \A y \in D \ {x} : f[y] = g[y]
    OBVIOUS
  <2> QED BY <1>1, <2>1, SumAgrees
<1>4. sf \in Nat /\ sg \in Nat
  BY <1>1, SumTypes
<1>5. f[x] \in Nat /\ g[x] \in Nat
  OBVIOUS
<1> HIDE DEF sf, sg
<1> QED BY <1>2, <1>3, <1>4, <1>5

\* A sum over a part is one over the whole in which the rest counts for nothing.
LEMMA SumFilters ==
    ASSUME NEW D, NEW f \in [D -> Nat], IsFiniteSet(D), NEW X \in SUBSET D
    PROVE  SumFunctionOnSet(f, X) = SumFunctionOnSet([x \in D |-> IF x \in X THEN f[x] ELSE 0], D)
<1> DEFINE g == [x \in D |-> IF x \in X THEN f[x] ELSE 0]
           Q == {T \in SUBSET D : SumFunctionOnSet(f, T \cap X) = SumFunctionOnSet(g, T)}
<1>0. g \in [D -> Nat]
  OBVIOUS
<1>1. ASSUME NEW T \in SUBSET D, \A U \in SUBSET T : U # T => U \in Q
      PROVE  T \in Q
  <2>1. IsFiniteSet(T) /\ IsFiniteSet(T \cap X) /\ T \cap X \in SUBSET D
    BY FS_Subset
  <2>2. CASE T = {}
    <3>1. T \cap X = {}
      BY <2>2
    <3> HIDE DEF g
    <3>2. SumFunctionOnSet(f, T \cap X) = 0 /\ SumFunctionOnSet(g, T) = 0
      BY <2>1, <2>2, <3>1, SumUnfolds
    <3> QED BY <3>2
  <2>3. CASE T # {}
    <3>1. PICK x \in T : TRUE
      BY <2>3
    <3>2. SumFunctionOnSet(g, T) = g[x] + SumFunctionOnSet(g, T \ {x})
      <4> HIDE DEF g
      <4> QED BY <1>0, <2>1, <3>1, SumTakes
    <3>3. SumFunctionOnSet(f, (T \ {x}) \cap X) = SumFunctionOnSet(g, T \ {x})
      <4>1. T \ {x} \in Q
        BY <1>1, <3>1
      <4> QED BY <4>1
    <3>4. CASE x \in X
      <4>1. SumFunctionOnSet(f, T \cap X) = f[x] + SumFunctionOnSet(f, (T \cap X) \ {x})
        BY <2>1, <3>1, <3>4, SumTakes
      <4>2. (T \cap X) \ {x} = (T \ {x}) \cap X /\ g[x] = f[x]
        BY <3>4
      <4> QED BY <3>2, <3>3, <4>1, <4>2
    <3>5. CASE x \notin X
      <4>1. T \cap X = (T \ {x}) \cap X /\ g[x] = 0
        BY <3>1, <3>5
      <4>2. SumFunctionOnSet(f, T \cap X) \in Nat
        BY <2>1, SumTypes
      <4>3. SumFunctionOnSet(f, T \cap X) = SumFunctionOnSet(g, T \ {x})
        BY ONLY <3>3, <4>1
      <4> DEFINE s == SumFunctionOnSet(g, T \ {x})
      <4>4. SumFunctionOnSet(g, T) = 0 + s
        <5> HIDE DEF g
        <5> QED BY <3>2, <4>1
      <4> QED BY ONLY <4>2, <4>3, <4>4
    <3> QED BY <3>4, <3>5
  <2> QED BY <2>2, <2>3
<1>2. \A T \in SUBSET D : T \in Q
  <2> HIDE DEF Q
  <2> QED BY <1>1, SetInduction
<1>3. D \cap X = X
  OBVIOUS
<1> QED BY <1>2, <1>3

\* Where the values two of one sum add up to are never above those of another, nor are the sums.
LEMMA SumJoins ==
    ASSUME NEW D, NEW f \in [D -> Nat], NEW g \in [D -> Nat], NEW h \in [D -> Nat],
           NEW S \in SUBSET D, IsFiniteSet(S), \A x \in S : f[x] + g[x] <= h[x]
    PROVE  SumFunctionOnSet(f, S) + SumFunctionOnSet(g, S) <= SumFunctionOnSet(h, S)
<1> DEFINE Q == {T \in SUBSET S :
                   SumFunctionOnSet(f, T) + SumFunctionOnSet(g, T) <= SumFunctionOnSet(h, T)}
<1>1. ASSUME NEW T \in SUBSET S, \A U \in SUBSET T : U # T => U \in Q
      PROVE  T \in Q
  <2>1. IsFiniteSet(T)
    BY FS_Subset
  <2>2. CASE T = {}
    <3>1. SumFunctionOnSet(f, T) = 0 /\ SumFunctionOnSet(g, T) = 0 /\ SumFunctionOnSet(h, T) = 0
      BY <2>1, <2>2, SumUnfolds
    <3> QED BY <3>1
  <2>3. CASE T # {}
    <3>1. PICK x \in T : TRUE
      BY <2>3
    <3> DEFINE sf == SumFunctionOnSet(f, T \ {x})
               sg == SumFunctionOnSet(g, T \ {x})
               sh == SumFunctionOnSet(h, T \ {x})
    <3>2. /\ SumFunctionOnSet(f, T) = f[x] + sf
          /\ SumFunctionOnSet(g, T) = g[x] + sg
          /\ SumFunctionOnSet(h, T) = h[x] + sh
      <4>1. T \in SUBSET D /\ x \in T
        BY <3>1
      <4> QED BY <2>1, <4>1, SumTakes
    <3>3. sf \in Nat /\ sg \in Nat /\ sh \in Nat
      <4>1. IsFiniteSet(T \ {x}) /\ T \ {x} \in SUBSET D
        BY <2>1, FS_Subset
      <4> QED BY <4>1, SumTypes
    <3>4. sf + sg <= sh
      <4>1. T \ {x} \in Q
        BY <1>1, <3>1
      <4> QED BY <4>1
    <3>5. f[x] \in Nat /\ g[x] \in Nat /\ h[x] \in Nat /\ f[x] + g[x] <= h[x]
      BY <3>1
    <3> HIDE DEF sf, sg, sh
    <3>6. (f[x] + sf) + (g[x] + sg) <= h[x] + sh
      BY <3>3, <3>4, <3>5
    <3> QED BY <3>2, <3>6
  <2> QED BY <2>2, <2>3
<1>2. \A T \in SUBSET S : T \in Q
  <2> HIDE DEF Q
  <2> QED BY <1>1, SetInduction
<1> QED BY <1>2

\* A sum whose values are each matched by one of another's, no two by the same, is not above it.
LEMMA SumBelow ==
    ASSUME NEW D, NEW f \in [D -> Nat], NEW S \in SUBSET D, IsFiniteSet(S),
           NEW E, NEW g \in [E -> Nat], NEW T \in SUBSET E, IsFiniteSet(T), NEW m,
           \A x \in S : f[x] # 0 =>
              /\ m[x] \in T /\ f[x] <= g[m[x]]
              /\ \A y \in S : f[y] # 0 /\ m[y] = m[x] => y = x
    PROVE  SumFunctionOnSet(f, S) <= SumFunctionOnSet(g, T)
<1> DEFINE Into(U, V) == \A x \in U : f[x] # 0 => m[x] \in V
           Q == {U \in SUBSET S : \A V \in SUBSET T :
                   Into(U, V) => SumFunctionOnSet(f, U) <= SumFunctionOnSet(g, V)}
<1>1. ASSUME NEW U \in SUBSET S, \A W \in SUBSET U : W # U => W \in Q
      PROVE  U \in Q
  <2>1. SUFFICES ASSUME NEW V \in SUBSET T, Into(U, V)
                 PROVE  SumFunctionOnSet(f, U) <= SumFunctionOnSet(g, V)
    OBVIOUS
  <2>2. IsFiniteSet(U) /\ IsFiniteSet(V) /\ V \in SUBSET E /\ U \in SUBSET D
    BY FS_Subset
  <2>3. SumFunctionOnSet(g, V) \in Nat
    BY <2>2, SumTypes
  <2>4. CASE U = {}
    <3>1. SumFunctionOnSet(f, U) = 0
      BY <2>2, <2>4, SumUnfolds
    <3> QED BY <2>3, <3>1
  <2>5. CASE U # {}
    <3>1. PICK x \in U : TRUE
      BY <2>5
    <3>2. SumFunctionOnSet(f, U) = f[x] + SumFunctionOnSet(f, U \ {x})
      BY <2>2, <3>1, SumTakes
    <3>3. SumFunctionOnSet(f, U \ {x}) \in Nat
      <4>1. IsFiniteSet(U \ {x}) /\ U \ {x} \in SUBSET D
        BY <2>2, FS_Subset
      <4> QED BY <4>1, SumTypes
    <3>4. U \ {x} \in Q
      BY <1>1, <3>1
    <3>5. CASE f[x] = 0
      <4>1. Into(U \ {x}, V)
        BY <2>1
      <4>2. SumFunctionOnSet(f, U \ {x}) <= SumFunctionOnSet(g, V)
        BY <3>4, <4>1
      <4> QED BY <3>2, <3>3, <3>5, <4>2
    <3>6. CASE f[x] # 0
      <4>1. m[x] \in V /\ f[x] <= g[m[x]]
        BY <2>1, <3>1, <3>6
      <4>2. Into(U \ {x}, V \ {m[x]})
        BY <2>1, <3>1, <3>6
      <4>3. SumFunctionOnSet(f, U \ {x}) <= SumFunctionOnSet(g, V \ {m[x]})
        <5>1. V \ {m[x]} \in SUBSET T
          OBVIOUS
        <5> QED BY <3>4, <4>2, <5>1
      <4>4. SumFunctionOnSet(g, V) = g[m[x]] + SumFunctionOnSet(g, V \ {m[x]})
        BY <2>2, <4>1, SumTakes
      <4>5. SumFunctionOnSet(g, V \ {m[x]}) \in Nat
        <5>1. IsFiniteSet(V \ {m[x]}) /\ V \ {m[x]} \in SUBSET E
          BY <2>2, FS_Subset
        <5> QED BY <5>1, SumTypes
      <4>6. f[x] \in Nat /\ g[m[x]] \in Nat
        BY <4>1, <2>2
      <4> DEFINE a == SumFunctionOnSet(f, U \ {x})
                 b == SumFunctionOnSet(g, V \ {m[x]})
      <4>7. a \in Nat /\ b \in Nat /\ a <= b
        BY <3>3, <4>3, <4>5
      <4>8. SumFunctionOnSet(f, U) = f[x] + a /\ SumFunctionOnSet(g, V) = g[m[x]] + b
        BY <3>2, <4>4
      <4> HIDE DEF a, b
      <4>9. f[x] + a <= g[m[x]] + b
        BY <4>1, <4>6, <4>7
      <4> QED BY <4>8, <4>9
    <3> QED BY <3>5, <3>6
  <2> QED BY <2>4, <2>5
<1>2. \A U \in SUBSET S : U \in Q
  <2> HIDE DEF Q
  <2> QED BY <1>1, SetInduction
<1>3. Into(S, T)
  OBVIOUS
<1> QED BY <1>2, <1>3

\* The same where each value is matched by the one of its own index.
LEMMA SumWithin ==
    ASSUME NEW D, NEW f \in [D -> Nat], NEW S \in SUBSET D, IsFiniteSet(S),
           NEW E, NEW g \in [E -> Nat], NEW T \in SUBSET E, IsFiniteSet(T),
           \A x \in S : f[x] # 0 => x \in T /\ f[x] <= g[x]
    PROVE  SumFunctionOnSet(f, S) <= SumFunctionOnSet(g, T)
<1> DEFINE m == [x \in S |-> x]
<1>1. \A x \in S : m[x] = x
  OBVIOUS
<1> HIDE DEF m
<1> QED BY <1>1, SumBelow

\* A sum of nothing but zeros.
LEMMA SumOfNone ==
    ASSUME NEW D, NEW f \in [D -> Nat], NEW S \in SUBSET D, IsFiniteSet(S), \A x \in S : f[x] = 0
    PROVE  SumFunctionOnSet(f, S) = 0
<1>1. IsFiniteSet({}) /\ {} \in SUBSET D
  BY FS_EmptySet
<1>2. SumFunctionOnSet(f, S) <= SumFunctionOnSet(f, {})
  BY <1>1, SumWithin
<1>3. SumFunctionOnSet(f, {}) = 0
  BY <1>1, SumUnfolds
<1>4. SumFunctionOnSet(f, S) \in Nat
  BY SumTypes
<1> QED BY <1>2, <1>3, <1>4

\* A sum with one value that is not zero.
LEMMA SumOfOne ==
    ASSUME NEW D, NEW f \in [D -> Nat], NEW S \in SUBSET D, IsFiniteSet(S), NEW x \in S,
           \A y \in S : y # x => f[y] = 0
    PROVE  SumFunctionOnSet(f, S) = f[x]
<1>1. SumFunctionOnSet(f, S) = f[x] + SumFunctionOnSet(f, S \ {x})
  BY SumTakes
<1>2. IsFiniteSet(S \ {x}) /\ S \ {x} \in SUBSET D
  BY FS_Subset
<1>3. SumFunctionOnSet(f, S \ {x}) = 0
  <2>1. \A y \in S \ {x} : f[y] = 0
    OBVIOUS
  <2> QED BY <1>2, <2>1, SumOfNone
<1>4. f[x] \in Nat
  OBVIOUS
<1> QED BY <1>1, <1>3, <1>4

\* The sum over two sets with nothing in common.
LEMMA SumParts ==
    ASSUME NEW D, NEW f \in [D -> Nat], NEW X \in SUBSET D, NEW Y \in SUBSET D,
           IsFiniteSet(X), IsFiniteSet(Y), X \cap Y = {}
    PROVE  SumFunctionOnSet(f, X \cup Y) = SumFunctionOnSet(f, X) + SumFunctionOnSet(f, Y)
<1> DEFINE Q == {T \in SUBSET Y :
                   SumFunctionOnSet(f, X \cup T) = SumFunctionOnSet(f, X) + SumFunctionOnSet(f, T)}
<1>0. SumFunctionOnSet(f, X) \in Nat
  BY SumTypes
<1>1. ASSUME NEW T \in SUBSET Y, \A U \in SUBSET T : U # T => U \in Q
      PROVE  T \in Q
  <2>1. IsFiniteSet(T) /\ IsFiniteSet(X \cup T)
    BY FS_Subset, FS_Union
  <2>2. CASE T = {}
    <3>1. X \cup T = X
      BY <2>2
    <3>2. SumFunctionOnSet(f, T) = 0
      BY <2>1, <2>2, SumUnfolds
    <3> QED BY <1>0, <3>1, <3>2
  <2>3. CASE T # {}
    <3>1. PICK x \in T : TRUE
      BY <2>3
    <3>2. SumFunctionOnSet(f, T) = f[x] + SumFunctionOnSet(f, T \ {x})
      BY <2>1, <3>1, SumTakes
    <3>3. SumFunctionOnSet(f, X \cup T) = f[x] + SumFunctionOnSet(f, (X \cup T) \ {x})
      <4>1. X \cup T \in SUBSET D /\ x \in X \cup T
        BY <3>1
      <4> QED BY <2>1, <4>1, SumTakes
    <3>4. (X \cup T) \ {x} = X \cup (T \ {x})
      BY <3>1
    <3>5. SumFunctionOnSet(f, X \cup (T \ {x})) = SumFunctionOnSet(f, X) + SumFunctionOnSet(f, T \ {x})
      <4>1. T \ {x} \in Q
        BY <1>1, <3>1
      <4> QED BY <4>1
    <3>6. SumFunctionOnSet(f, T \ {x}) \in Nat /\ f[x] \in Nat
      <4>1. IsFiniteSet(T \ {x}) /\ T \ {x} \in SUBSET D
        BY <2>1, FS_Subset
      <4> QED BY <3>1, <4>1, SumTypes
    <3> DEFINE a == SumFunctionOnSet(f, X)
               b == SumFunctionOnSet(f, T \ {x})
    <3>7. /\ SumFunctionOnSet(f, X \cup T) = f[x] + (a + b)
          /\ SumFunctionOnSet(f, T) = f[x] + b
      BY <3>2, <3>3, <3>4, <3>5
    <3>8. a \in Nat /\ b \in Nat /\ f[x] \in Nat
      BY <1>0, <3>6
    <3> HIDE DEF a, b
    <3>9. f[x] + (a + b) = a + (f[x] + b)
      BY <3>8
    <3>10. SumFunctionOnSet(f, X) = a
      BY DEF a
    <3> QED BY <3>7, <3>9, <3>10
  <2> QED BY <2>2, <2>3
<1>2. \A T \in SUBSET Y : T \in Q
  <2> HIDE DEF Q
  <2> QED BY <1>1, SetInduction
<1> QED BY <1>2

\* A finite set in some order has a last element.
LEMMA LastOf ==
    ASSUME NEW S, IsFiniteSet(S), S # {}, NEW R,
           \A x, y \in S : x = y \/ <<x, y>> \in R \/ <<y, x>> \in R,
           \A x, y, z \in S : <<x, y>> \in R /\ <<y, z>> \in R => <<x, z>> \in R
    PROVE  \E x \in S : \A y \in S : y = x \/ <<y, x>> \in R
<1> DEFINE Q == {T \in SUBSET S : T = {} \/ \E x \in T : \A y \in T : y = x \/ <<y, x>> \in R}
<1>1. ASSUME NEW T \in SUBSET S, \A U \in SUBSET T : U # T => U \in Q
      PROVE  T \in Q
  <2>1. SUFFICES ASSUME NEW x \in T
                 PROVE  \E z \in T : \A y \in T : y = z \/ <<y, z>> \in R
    OBVIOUS
  <2>2. T \ {x} \in Q
    BY <1>1
  <2>3. CASE T \ {x} = {}
    BY <2>3
  <2>4. CASE T \ {x} # {}
    <3>1. PICK z \in T \ {x} : \A y \in T \ {x} : y = z \/ <<y, z>> \in R
      BY <2>2, <2>4
    <3>2. CASE <<x, z>> \in R
      BY <3>1, <3>2
    <3>3. CASE <<z, x>> \in R
      <4>1. \A y \in T \ {x} : <<y, x>> \in R
        BY <3>1, <3>3
      <4> QED BY <4>1
    <3> QED BY <3>1, <3>2, <3>3
  <2> QED BY <2>3, <2>4
<1>2. \A T \in SUBSET S : T \in Q
  <2> HIDE DEF Q
  <2> QED BY <1>1, SetInduction
<1> QED BY <1>2

\* Paying a cost from purses in some order, from each what the ones before it left to pay, pays
\* all of it, or all there is.
LEMMA GreedyPays ==
    ASSUME NEW S, IsFiniteSet(S), NEW R, NEW purse \in [S -> Nat], NEW take \in [S -> Nat], NEW cost \in Nat,
           \A x \in S : <<x, x>> \notin R,
           \A x, y \in S : x = y \/ <<x, y>> \in R \/ <<y, x>> \in R,
           \A x, y, z \in S : <<x, y>> \in R /\ <<y, z>> \in R => <<x, z>> \in R,
           \A x \in S :
              \/ take[x] = purse[x]
              \/ cost <= SumFunctionOnSet(purse, {y \in S : <<y, x>> \in R})
              \/ take[x] = cost - SumFunctionOnSet(purse, {y \in S : <<y, x>> \in R})
    PROVE  SumFunctionOnSet(purse, S) >= cost => SumFunctionOnSet(take, S) >= cost
<1> DEFINE First(T) == \A x \in T : \A y \in S : <<y, x>> \in R => y \in T
           Paid(T) == SumFunctionOnSet(take, T) >= cost \/ SumFunctionOnSet(take, T) = SumFunctionOnSet(purse, T)
           Q == {T \in SUBSET S : First(T) => Paid(T)}
<1>1. ASSUME NEW T \in SUBSET S, \A U \in SUBSET T : U # T => U \in Q
      PROVE  T \in Q
  <2>1. SUFFICES ASSUME First(T) PROVE Paid(T)
    OBVIOUS
  <2>2. IsFiniteSet(T)
    BY FS_Subset
  <2>3. CASE T = {}
    <3>1. SumFunctionOnSet(take, T) = 0 /\ SumFunctionOnSet(purse, T) = 0
      BY <2>2, <2>3, SumUnfolds
    <3> QED BY <3>1
  <2>4. CASE T # {}
    <3>1. PICK x \in T : \A y \in T : y = x \/ <<y, x>> \in R
      BY <2>2, <2>4, LastOf
    <3>2. {y \in S : <<y, x>> \in R} = T \ {x}
      BY <2>1, <3>1
    <3>3. Paid(T \ {x})
      <4>1. First(T \ {x})
        <5> SUFFICES ASSUME NEW z \in T \ {x}, NEW y \in S, <<y, z>> \in R PROVE y \in T \ {x}
          OBVIOUS
        <5>1. y \in T
          BY <2>1
        <5>2. y # x
          <6>1. <<z, x>> \in R
            BY <3>1
          <6> QED BY <6>1
        <5> QED BY <5>1, <5>2
      <4>2. T \ {x} \in Q
        BY <1>1, <3>1
      <4> QED BY <4>1, <4>2
    <3> DEFINE a == SumFunctionOnSet(take, T \ {x})
               b == SumFunctionOnSet(purse, T \ {x})
    <3>4. /\ SumFunctionOnSet(take, T) = take[x] + a
          /\ SumFunctionOnSet(purse, T) = purse[x] + b
      BY <2>2, <3>1, SumTakes
    <3>5. a \in Nat /\ b \in Nat
      <4>1. IsFiniteSet(T \ {x}) /\ T \ {x} \in SUBSET S
        BY <2>2, FS_Subset
      <4> QED BY <4>1, SumTypes
    <3>6. a >= cost \/ a = b
      BY <3>3
    <3>7. take[x] = purse[x] \/ cost <= b \/ take[x] = cost - b
      BY <3>1, <3>2
    <3>8. take[x] \in Nat /\ purse[x] \in Nat
      BY <3>1
    <3> HIDE DEF a, b
    <3>9. take[x] + a >= cost \/ take[x] + a = purse[x] + b
      BY <3>5, <3>6, <3>7, <3>8
    <3> QED BY <3>4, <3>9
  <2> QED BY <2>3, <2>4
<1>2. \A T \in SUBSET S : T \in Q
  <2> HIDE DEF Q
  <2> QED BY <1>1, SetInduction
<1>3. First(S)
  OBVIOUS
<1>4. Paid(S)
  <2>1. S \in SUBSET S
    OBVIOUS
  <2> HIDE DEF First, Paid
  <2> QED BY <1>2, <1>3, <2>1
<1> QED BY <1>4

Rising(s) == \A a, b \in DOMAIN s : a < b => s[a] < s[b]

\* A finite set of numbers can be told in its order.
LEMMA InOrder ==
    ASSUME NEW S \in SUBSET Nat, IsFiniteSet(S)
    PROVE  \E s \in [1..Cardinality(S) -> S] : Rising(s)
<1> DEFINE Q == {T \in SUBSET S : \E s \in [1..Cardinality(T) -> T] : Rising(s)}
<1>1. ASSUME NEW T \in SUBSET S, \A U \in SUBSET T : U # T => U \in Q
      PROVE  T \in Q
  <2>1. IsFiniteSet(T)
    BY FS_Subset
  <2>2. CASE T = {}
    <3>1. Cardinality(T) = 0
      BY <2>2, FS_EmptySet
    <3> DEFINE s == [k \in 1..Cardinality(T) |-> 0]
    <3>2. s \in [1..Cardinality(T) -> T] /\ Rising(s)
      BY <3>1 DEF Rising
    <3> QED BY <3>2
  <2>3. CASE T # {}
    <3> DEFINE R == {p \in T \X T : p[1] < p[2]}
    <3>1. PICK x \in T : \A y \in T : y = x \/ <<y, x>> \in R
      <4>1. \A y, z \in T : y = z \/ <<y, z>> \in R \/ <<z, y>> \in R
        OBVIOUS
      <4>2. \A y, z, w \in T : <<y, z>> \in R /\ <<z, w>> \in R => <<y, w>> \in R
        OBVIOUS
      <4> HIDE DEF R
      <4> QED BY <2>1, <2>3, <4>1, <4>2, LastOf
    <3>2. T \ {x} \in Q
      BY <1>1, <3>1
    <3> DEFINE n == Cardinality(T \ {x})
    <3>3. PICK s \in [1..n -> T \ {x}] : Rising(s)
      BY <3>2
    <3>4. n \in Nat /\ Cardinality(T) = n + 1
      <4>1. IsFiniteSet(T \ {x}) /\ n = Cardinality(T) - 1
        BY <2>1, <3>1, FS_RemoveElement
      <4>2. n \in Nat /\ Cardinality(T) \in Nat
        BY <2>1, <4>1, FS_CardinalityType
      <4> QED BY <4>1, <4>2
    <3> DEFINE t == [k \in 1..(n + 1) |-> IF k = n + 1 THEN x ELSE s[k]]
    <3> HIDE DEF n
    <3>5. \A k \in 1..n : s[k] \in T /\ s[k] < x
      BY <3>1
    <3>6. t \in [1..Cardinality(T) -> T]
      BY <3>1, <3>4, <3>5
    <3>7. Rising(t)
      <4> SUFFICES ASSUME NEW a \in 1..(n + 1), NEW b \in 1..(n + 1), a < b PROVE t[a] < t[b]
        BY DEF Rising
      <4>1. a \in 1..n /\ t[a] = s[a]
        BY <3>4
      <4>2. CASE b = n + 1
        BY <3>5, <4>1, <4>2
      <4>3. CASE b # n + 1
        <5>1. b \in 1..n /\ t[b] = s[b]
          BY <3>4, <4>3
        <5> QED BY <3>3, <4>1, <5>1 DEF Rising
      <4> QED BY <4>2, <4>3
    <3> QED BY <3>6, <3>7
  <2> QED BY <2>2, <2>3
<1>2. \A T \in SUBSET S : T \in Q
  <2> HIDE DEF Q
  <2> QED BY <1>1, SetInduction
<1> QED BY <1>2

\* Told so, it is told once and to the end.
LEMMA TellsAll ==
    ASSUME NEW S \in SUBSET Nat, IsFiniteSet(S), NEW s \in [1..Cardinality(S) -> S], Rising(s)
    PROVE  /\ \A a, b \in 1..Cardinality(S) : s[a] = s[b] => a = b
           /\ \A x \in S : \E a \in 1..Cardinality(S) : s[a] = x
<1>0. Cardinality(S) \in Nat
  BY FS_CardinalityType
<1>1. \A a, b \in 1..Cardinality(S) : s[a] = s[b] => a = b
  <2> SUFFICES ASSUME NEW a \in 1..Cardinality(S), NEW b \in 1..Cardinality(S), s[a] = s[b], a # b
               PROVE  FALSE
    OBVIOUS
  <2>1. a < b \/ b < a
    BY <1>0
  <2>2. s[a] < s[b] \/ s[b] < s[a]
    BY <2>1 DEF Rising
  <2>3. s[a] \in Nat /\ s[b] \in Nat
    OBVIOUS
  <2> QED BY <2>2, <2>3
<1>2. s \in Injection(1..Cardinality(S), S)
  BY <1>1 DEF Injection, IsInjective
<1>3. Cardinality(1..Cardinality(S)) = Cardinality(S)
  BY <1>0, FS_Interval
<1>4. s \in Surjection(1..Cardinality(S), S)
  BY <1>2, <1>3, FS_Injection
<1> QED BY <1>1, <1>4 DEF Surjection

-----------------------------------------------------------------------------
(* The invariant. *)

Row == [status : RowStatus, letters : 0..PackLetters,
        refund : Refunds \cup {NoRefund}, attempts : 0..AttemptLimit]

\* The letters of a command that was issued and not made good are off the lots.
Taken == UnderWay \cup {"succeeded", "failed"}

Counts(f, c, S) == IF f[c].status \in S THEN f[c].letters ELSE 0
Count(f, S) == SumFunctionOnSet([c \in Commands |-> Counts(f, c, S)], Commands)

RowsType ==
    /\ order \in {"fulfilled", "disputed", "refunded"}
    /\ left \in 0..PackLetters /\ spent \in 0..PackLetters /\ taken \in 0..PackLetters
    /\ back \in 0..PackLetters /\ money \in 0..PackLetters
    /\ row \in [Commands -> Row]
    /\ alert \subseteq Commands \X {"unconfirmed", "failed", "both", "withheld"}
    /\ unmatched \in BOOLEAN /\ aged \subseteq Commands

\* Each letter is in one place, and the order counts as refunded what its commands took.
\* In money it counts what they refunded, and at least that much once more has happened.
BookInv ==
    /\ left + spent + taken + back = PackLetters
    /\ back = Count(row, Taken)
    /\ Count(row, {"succeeded"}) <= money
    /\ order = "fulfilled" => money = Count(row, {"succeeded"})

\* Letters are withheld under a dispute only; Stripe holds refunds of issued commands only;
\* a row that has an answer has the refund it is about.
RowInv ==
    \A c \in Commands :
        /\ row[c].status = "failed" => order # "fulfilled"
        /\ had[<<c, 1>>] # {} => row[c].status # "none"
        /\ row[c].status \in {"stripe_pending", "succeeded"} => row[c].refund \in RefundsOf(c)

\* Where the dashboard's refunds are kept apart, they and the commands' are of one payment;
\* once that is all refunded, no letter is left beside the ones they stand for.
CapInv ==
    OneRefunder =>
        /\ rest + back <= PackLetters
        /\ order = "refunded" => left + rest + back <= PackLetters

RowsInv == RowsType /\ BookInv /\ RowInv /\ CapInv

\* A command's second refund never comes to be.
StripeInv ==
    /\ had \in [Refunds -> SUBSET {"pending", "succeeded", "failed"}]
    /\ key \in [Commands -> Refunds \cup {NoRefund}] /\ rest \in 0..PackLetters
    /\ \A c \in Commands : had[<<c, 2>>] = {} /\ key[c] \in {NoRefund, <<c, 1>>}

Work == [pc : {"idle", "creating", "answered", "refused", "unclear", "giving up", "unlisted"},
         c : Commands \cup {"none"}, r : Refunds \cup {NoRefund},
         status : {"none", "pending", "succeeded", "failed", "at limit"}]

\* Whoever asks for a refund does so for a command that was issued, and has its key or
\* knows that it has no refund; whoever has an answer has one about that command's refund.
Sound(k) ==
    k.pc # "idle" =>
        /\ k.c \in Commands /\ row[k.c].status # "none"
        /\ k.pc = "creating" /\ key[k.c] = NoRefund => had[<<k.c, 1>>] = {}
        /\ k.pc = "answered" => k.r \in RefundsOf(k.c)

AskInv == worker \in [Workers -> Work] /\ \A w \in Workers : Sound(worker[w])

IInv == RowsInv /\ StripeInv /\ AskInv

-----------------------------------------------------------------------------
(* Counting commands. *)

LEMMA CountType ==
    ASSUME NEW f \in [Commands -> Row], NEW S
    PROVE  /\ [c \in Commands |-> Counts(f, c, S)] \in [Commands -> Nat]
           /\ Count(f, S) \in Nat
<1>0. IsFiniteSet(Commands)
  BY PackRefundAssumption
<1>1. \A c \in Commands : Counts(f, c, S) \in Nat
  <2> SUFFICES ASSUME NEW c \in Commands PROVE Counts(f, c, S) \in Nat
    OBVIOUS
  <2>1. f[c].letters \in 0..PackLetters
    BY DEF Row
  <2> QED BY <2>1, PackRefundAssumption DEF Counts
<1>2. [c \in Commands |-> Counts(f, c, S)] \in [Commands -> Nat]
  BY <1>1
<1> QED BY <1>0, <1>2, SumTypes DEF Count

Turned(f, g, c, S) == Count(g, S) - Counts(g, c, S) = Count(f, S) - Counts(f, c, S)

LEMMA CountTurns ==
    ASSUME NEW f \in [Commands -> Row], NEW g \in [Commands -> Row], NEW c \in Commands, NEW S,
           \A d \in Commands \ {c} : g[d] = f[d]
    PROVE  Turned(f, g, c, S)
<1> DEFINE F == [d \in Commands |-> Counts(f, d, S)]
           G == [d \in Commands |-> Counts(g, d, S)]
<1>1. F \in [Commands -> Nat] /\ G \in [Commands -> Nat]
  BY CountType
<1>2. \A d \in Commands : d # c => F[d] = G[d]
  BY DEF Counts
<1>3. F[c] = Counts(f, c, S) /\ G[c] = Counts(g, c, S)
  OBVIOUS
<1>4. SumFunctionOnSet(G, Commands) - G[c] = SumFunctionOnSet(F, Commands) - F[c]
  <2> HIDE DEF F, G
  <2> QED BY <1>1, <1>2, PackRefundAssumption, SumTurns
<1> QED BY <1>3, <1>4 DEF Turned, Count

\* The same of rows that differ in nothing the count reads.
LEMMA CountAgrees ==
    ASSUME NEW f, NEW g, NEW S,
           \A c \in Commands : g[c].status = f[c].status /\ g[c].letters = f[c].letters
    PROVE  Count(g, S) = Count(f, S)
<1>1. \A c \in Commands : Counts(g, c, S) = Counts(f, c, S)
  BY DEF Counts
<1>2. [c \in Commands |-> Counts(g, c, S)] = [c \in Commands |-> Counts(f, c, S)]
  BY <1>1
<1> QED BY <1>2 DEF Count

\* What the order's figures add up is such a count.
CountIsSum(S) == SumLetters({c \in Commands : row[c].status \in S}) = Count(row, S)

LEMMA CountIs == ASSUME row \in [Commands -> Row], NEW S PROVE CountIsSum(S)
<1> DEFINE f == [c \in Commands |-> Letters(c)]
           X == {c \in Commands : row[c].status \in S}
<1>1. f \in [Commands -> Nat]
  <2> SUFFICES ASSUME NEW c \in Commands PROVE Letters(c) \in Nat
    OBVIOUS
  <2>1. row[c].letters \in 0..PackLetters
    BY DEF Row
  <2> QED BY <2>1, PackRefundAssumption DEF Letters
<1>2. [c \in Commands |-> IF c \in X THEN f[c] ELSE 0] = [c \in Commands |-> Counts(row, c, S)]
  BY DEF Counts, Letters
<1>3. SumFunctionOnSet(f, X) = SumFunctionOnSet([c \in Commands |-> IF c \in X THEN f[c] ELSE 0], Commands)
  <2>1. X \in SUBSET Commands
    OBVIOUS
  <2> HIDE DEF f, X
  <2> QED BY <1>1, <2>1, PackRefundAssumption, SumFilters
<1> QED BY <1>2, <1>3 DEF CountIsSum, SumLetters, Count

-----------------------------------------------------------------------------
(* What settling a row does to the books. *)

StillIssued == \A c \in Commands : row[c].status # "none" => row'[c].status # "none"

AlertsGrow == alert' \subseteq Commands \X {"unconfirmed", "failed", "both", "withheld"}

\* The row of an issued command goes to the status s; its letters come back with a
\* compensation, and its money is counted with a success.
Move(c, s) ==
    /\ row[c].status \in Taken /\ s \in Taken \cup {"compensated"}
    /\ row' \in [Commands -> Row]
    /\ row'[c].status = s /\ row'[c].letters = row[c].letters
    /\ \A d \in Commands \ {c} : row'[d] = row[d]
    /\ s \in {"stripe_pending", "succeeded"} => row'[c].refund \in RefundsOf(c)
    /\ s = "failed" => order # "fulfilled"
    /\ IF s = "compensated" THEN left' = left + row[c].letters /\ back' = back - row[c].letters
                            ELSE left' = left /\ back' = back
    /\ money' \in Int /\ money' <= PackLetters
    /\ \/ money' = money + Counts(row', c, {"succeeded"}) - Counts(row, c, {"succeeded"})
       \/ order # "fulfilled" /\ money' = money /\ s # "succeeded"
    /\ AlertsGrow
    /\ UNCHANGED <<order, spent, taken, unmatched>>

LEMMA CountsAre ==
    ASSUME IInv, NEW c \in Commands, NEW s, Move(c, s)
    PROVE  /\ Counts(row, c, Taken) = row[c].letters
           /\ Counts(row', c, Taken) = IF s = "compensated" THEN 0 ELSE row[c].letters
           /\ Counts(row, c, {"succeeded"}) = IF row[c].status = "succeeded" THEN row[c].letters ELSE 0
           /\ Counts(row', c, {"succeeded"}) = IF s = "succeeded" THEN row[c].letters ELSE 0
           /\ row[c].letters \in Nat
<1>1. row[c].letters \in Nat
  BY PackRefundAssumption DEF IInv, RowsInv, RowsType, Row
<1>2. "compensated" \notin Taken
  BY DEF Taken, UnderWay
<1> QED BY <1>1, <1>2 DEF Move, Counts

LEMMA CountsMove ==
    ASSUME IInv, NEW c \in Commands, NEW s, Move(c, s)
    PROVE  /\ Count(row', Taken) = back'
           /\ Count(row', {"succeeded"}) <= money'
           /\ order = "fulfilled" => money' = Count(row', {"succeeded"})
           /\ back' \in Nat /\ Count(row', {"succeeded"}) \in Nat
<1>1. row \in [Commands -> Row] /\ row' \in [Commands -> Row]
      /\ \A d \in Commands \ {c} : row'[d] = row[d]
  BY DEF IInv, RowsInv, RowsType, Move
<1>2. Turned(row, row', c, Taken) /\ Turned(row, row', c, {"succeeded"})
  BY <1>1, CountTurns
<1> DEFINE a == Count(row, Taken)
           b == Count(row', Taken)
           x == Count(row, {"succeeded"})
           y == Count(row', {"succeeded"})
           u == Counts(row, c, {"succeeded"})
           v == Counts(row', c, {"succeeded"})
           l == row[c].letters
<1>3. a \in Nat /\ b \in Nat /\ x \in Nat /\ y \in Nat
  BY <1>1, CountType
<1>4. b - (IF s = "compensated" THEN 0 ELSE l) = a - l /\ y - v = x - u
  BY <1>2, CountsAre DEF Turned
<1>5. l \in Nat /\ u \in {0, l} /\ v \in {0, l} /\ (s # "succeeded" => v = 0)
  BY CountsAre
<1>6. back = a /\ x <= money /\ money \in Nat /\ (order = "fulfilled" => money = x)
  BY PackRefundAssumption DEF IInv, RowsInv, RowsType, BookInv
<1>7. /\ IF s = "compensated" THEN back' = back - l ELSE back' = back
      /\ money' = money + v - u \/ (order # "fulfilled" /\ money' = money /\ s # "succeeded")
      /\ money' \in Int
  BY DEF Move
<1> HIDE DEF a, b, x, y, u, v, l
<1>8. b = back' /\ back' \in Nat
  BY <1>3, <1>4, <1>5, <1>6, <1>7
<1>9. y <= money' /\ (order = "fulfilled" => money' = y)
  <2>1. CASE money' = money + v - u
    BY <2>1, <1>3, <1>4, <1>5, <1>6
  <2>2. CASE order # "fulfilled" /\ money' = money /\ s # "succeeded"
    BY <2>2, <1>3, <1>4, <1>5, <1>6
  <2> QED BY <1>7, <2>1, <2>2
<1> QED BY <1>3, <1>8, <1>9 DEF b, y

LEMMA Moves ==
    ASSUME IInv, NEW c \in Commands, NEW s, Move(c, s), UNCHANGED <<aged, stripe>>
    PROVE  RowsInv' /\ StillIssued
<1>1. UNCHANGED <<order, spent, taken, unmatched, aged, had, rest>>
  BY DEF Move, stripe
<1> DEFINE l == row[c].letters
<1>2. l \in Nat /\ (IF s = "compensated" THEN left' = left + l /\ back' = back - l
                                         ELSE left' = left /\ back' = back)
  BY CountsAre DEF Move
<1>3. /\ left \in Nat /\ spent \in Nat /\ taken \in Nat /\ back \in Nat /\ money \in Nat
      /\ PackLetters \in Nat /\ rest \in Nat
      /\ left + spent + taken + back = PackLetters
  BY PackRefundAssumption DEF IInv, RowsInv, RowsType, BookInv, StripeInv
<1>4. back' \in Nat
  BY CountsMove
<1> DEFINE m == left'
           b == back'
<1>5. m \in Nat /\ b \in Nat /\ b <= back /\ m + b = left + back
  <2>1. IF s = "compensated" THEN m = left + l /\ b = back - l ELSE m = left /\ b = back
    BY <1>2
  <2> HIDE DEF l, m
  <2> QED BY <1>2, <1>3, <1>4, <2>1
<1>a. /\ m + spent + taken + b = PackLetters /\ m \in 0..PackLetters /\ b \in 0..PackLetters
      /\ rest + back <= PackLetters => rest + b <= PackLetters
      /\ left + rest + back <= PackLetters => m + rest + b <= PackLetters
  <2> HIDE DEF l, m, b
  <2> QED BY <1>3, <1>5
<1> HIDE DEF l
<1>6. RowsType'
  <2>1. left' \in 0..PackLetters /\ back' \in 0..PackLetters
    BY <1>a
  <2>2. money' \in 0..PackLetters
    <3>1. Count(row', {"succeeded"}) <= money' /\ Count(row', {"succeeded"}) \in Nat
      BY CountsMove
    <3>2. money' \in Int /\ money' <= PackLetters
      BY DEF Move
    <3> QED BY <1>3, <3>1, <3>2
  <2>3. row' \in [Commands -> Row] /\ AlertsGrow
    BY DEF Move
  <2>4. RowsType
    BY DEF IInv, RowsInv
  <2> QED BY ONLY <1>1, <2>1, <2>2, <2>3, <2>4 DEF RowsType, AlertsGrow, Row
<1>7. BookInv'
  <2>1. left' + spent' + taken' + back' = PackLetters
    BY <1>1, <1>a
  <2>2. /\ Count(row', Taken) = back' /\ Count(row', {"succeeded"}) <= money'
        /\ order = "fulfilled" => money' = Count(row', {"succeeded"})
    BY CountsMove
  <2> QED BY ONLY <1>1, <2>1, <2>2 DEF BookInv, Count, Counts, Taken, UnderWay
<1>8. RowInv'
  <2> SUFFICES ASSUME NEW d \in Commands
               PROVE  /\ row'[d].status = "failed" => order # "fulfilled"
                      /\ had[<<d, 1>>] # {} => row'[d].status # "none"
                      /\ row'[d].status \in {"stripe_pending", "succeeded"} => row'[d].refund \in RefundsOf(d)
    BY <1>1 DEF RowInv, RefundsOf
  <2>1. CASE d = c
    BY <2>1 DEF Move, Taken, UnderWay
  <2>2. CASE d # c
    <3>1. row'[d] = row[d]
      BY <2>2 DEF Move
    <3> QED BY <3>1 DEF IInv, RowsInv, RowInv
  <2> QED BY <2>1, <2>2
<1>9. CapInv'
  <2>1. CapInv
    BY DEF IInv, RowsInv
  <2> QED BY <1>1, <1>a, <2>1 DEF CapInv
<1>10. StillIssued
  <2> SUFFICES ASSUME NEW d \in Commands, row[d].status # "none" PROVE row'[d].status # "none"
    BY DEF StillIssued
  <2> QED BY DEF Move, Taken, UnderWay
<1> QED BY <1>6, <1>7, <1>8, <1>9, <1>10 DEF RowsInv

\* When rows, letters and money stay, only alerts may.
Keeps == AlertsGrow /\ unmatched' \in BOOLEAN
         /\ UNCHANGED <<order, left, spent, taken, back, money, row>>

LEMMA KeepsRows ==
    ASSUME IInv, Keeps, UNCHANGED <<aged, stripe>>
    PROVE  RowsInv' /\ StillIssued
<1>1. RowsType'
  BY DEF IInv, RowsInv, RowsType, Keeps, AlertsGrow, Row
<1>2. BookInv'
  BY DEF IInv, RowsInv, BookInv, Keeps, Count, Counts
<1>3. RowInv'
  BY DEF IInv, RowsInv, RowInv, Keeps, stripe, RefundsOf
<1>4. CapInv'
  BY DEF IInv, RowsInv, CapInv, Keeps, stripe
<1> QED BY <1>1, <1>2, <1>3, <1>4 DEF RowsInv, Keeps, StillIssued

-----------------------------------------------------------------------------
(* Steps on the rows, after which workers' questions and answers stand. *)

LEMMA IdleIsSound == Idle \in Work /\ Sound(Idle)
BY DEF Idle, Work, Sound

EndsTurn == worker' = worker \/ \E w \in Workers : worker' = [worker EXCEPT ![w] = Idle]

LEMMA Stands ==
    ASSUME IInv, RowsInv', StillIssued, UNCHANGED stripe, EndsTurn
    PROVE  IInv'
<1>1. StripeInv'
  BY DEF IInv, StripeInv, stripe
<1>2. worker' \in [Workers -> Work] /\ \A w \in Workers : worker'[w] \in {worker[w], Idle}
  BY IdleIsSound DEF IInv, AskInv, EndsTurn
<1>3. AskInv'
  <2> SUFFICES ASSUME NEW w \in Workers PROVE Sound(worker[w])'
    BY <1>2 DEF AskInv, Work
  <2>1. CASE worker'[w] = Idle
    BY <2>1 DEF Idle, Sound
  <2>2. CASE worker'[w] = worker[w]
    <3>1. Sound(worker[w])
      BY DEF IInv, AskInv
    <3> QED BY <2>2, <3>1 DEF Sound, StillIssued, stripe, RefundsOf
  <2> QED BY <1>2, <2>1, <2>2
<1> QED BY <1>1, <1>3 DEF IInv

LEMMA FiguresAre ==
    ASSUME IInv
    PROVE  /\ left \in Nat /\ spent \in Nat /\ taken \in Nat /\ back \in Nat /\ money \in Nat
           /\ PackLetters \in Nat /\ rest \in Nat /\ money <= PackLetters /\ rest <= PackLetters
           /\ row \in [Commands -> Row] /\ \A c \in Commands : row[c].letters \in Nat
<1>1. row \in [Commands -> Row]
  BY DEF IInv, RowsInv, RowsType
<1>2. \A c \in Commands : row[c].letters \in Nat
  BY <1>1, PackRefundAssumption DEF Row
<1> QED BY <1>1, <1>2, PackRefundAssumption DEF IInv, RowsInv, RowsType, StripeInv

\* The rows after one of them is written.
RowWritten(c, s, r) ==
    row' = [row EXCEPT ![c].status = s, ![c].refund = IF r = NoRefund THEN @ ELSE r]

LEMMA Writes ==
    ASSUME IInv, NEW c \in Commands, NEW r \in RefundsOf(c) \cup {NoRefund},
           NEW s \in RowStatus, RowWritten(c, s, r)
    PROVE  /\ row' \in [Commands -> Row] /\ row'[c].status = s /\ row'[c].letters = row[c].letters
           /\ row'[c].refund = IF r = NoRefund THEN row[c].refund ELSE r
           /\ \A d \in Commands \ {c} : row'[d] = row[d]
<1>1. row \in [Commands -> Row] /\ r \in Refunds \cup {NoRefund}
  BY FiguresAre DEF RefundsOf, Refunds
<1>2. row' = [row EXCEPT ![c] = [row[c] EXCEPT !.status = s, !.refund = IF r = NoRefund THEN row[c].refund ELSE r]]
  BY <1>1 DEF RowWritten, Row
<1>3. [row[c] EXCEPT !.status = s, !.refund = IF r = NoRefund THEN row[c].refund ELSE r] \in Row
  BY <1>1 DEF Row
<1> QED BY <1>1, <1>2, <1>3 DEF Row

LEMMA AlertsOf ==
    ASSUME IInv, NEW c \in Commands
    PROVE  /\ Resolved(c) \subseteq Commands \X {"unconfirmed", "failed", "both", "withheld"}
           /\ \A k \in {"unconfirmed", "failed", "both", "withheld"} :
                  alert \cup {<<c, k>>} \subseteq Commands \X {"unconfirmed", "failed", "both", "withheld"}
           /\ Resolved(c) \cup {<<c, "failed">>} \subseteq Commands \X {"unconfirmed", "failed", "both", "withheld"}
BY DEF IInv, RowsInv, RowsType, Resolved

LEMMA Compensated ==
    ASSUME IInv, NEW c \in Commands, NEW r \in RefundsOf(c) \cup {NoRefund},
           row[c].status \in Taken, Compensate(c, r), UNCHANGED <<order, spent, taken, unmatched>>
    PROVE  \E s \in RowStatus : Move(c, s)
<1>1. CASE order = "disputed"
  <2>1. RowWritten(c, "failed", r) /\ AlertsGrow /\ UNCHANGED <<left, back, money>>
    BY <1>1, AlertsOf DEF Compensate, RowWritten, AlertsGrow
  <2>2. /\ row' \in [Commands -> Row] /\ row'[c].status = "failed" /\ row'[c].letters = row[c].letters
        /\ \A d \in Commands \ {c} : row'[d] = row[d]
    BY <2>1, Writes DEF RowStatus
  <2>3. money' \in Int /\ money' <= PackLetters
    BY <2>1, FiguresAre
  <2>4. Move(c, "failed")
    BY <1>1, <2>1, <2>2, <2>3 DEF Move, Taken, UnderWay
  <2> QED BY <2>4 DEF RowStatus
<1>2. CASE order # "disputed"
  <2>1. /\ RowWritten(c, "compensated", r) /\ AlertsGrow
        /\ left' = left + row[c].letters /\ back' = back - row[c].letters
        /\ money' = IF row[c].status = "succeeded" THEN money - row[c].letters ELSE money
    BY <1>2, AlertsOf DEF Compensate, RowWritten, AlertsGrow, Letters
  <2>2. /\ row' \in [Commands -> Row] /\ row'[c].status = "compensated" /\ row'[c].letters = row[c].letters
        /\ \A d \in Commands \ {c} : row'[d] = row[d]
    BY <2>1, Writes DEF RowStatus
  <2>3. /\ money' \in Int /\ money' <= PackLetters
        /\ money' = money + Counts(row', c, {"succeeded"}) - Counts(row, c, {"succeeded"})
    <3>1. Counts(row', c, {"succeeded"}) = 0
      BY <2>2 DEF Counts
    <3>2. row[c].letters \in Nat /\ money \in Nat /\ PackLetters \in Nat /\ money <= PackLetters
      BY FiguresAre
    <3>3. CASE row[c].status = "succeeded"
      <4>1. Counts(row, c, {"succeeded"}) = row[c].letters
        BY <3>3 DEF Counts
      <4> DEFINE l == row[c].letters
      <4>2. l \in Nat /\ money - l \in Int /\ money - l <= PackLetters /\ money - l = money + 0 - l
        <5>1. l \in Nat
          BY <3>2
        <5> HIDE DEF l
        <5> QED BY <3>2, <5>1
      <4> QED BY <2>1, <3>1, <3>3, <4>1, <4>2
    <3>4. CASE row[c].status # "succeeded"
      <4>1. Counts(row, c, {"succeeded"}) = 0
        BY <3>4 DEF Counts
      <4>2. money \in Int /\ money = money + 0 - 0
        BY <3>2
      <4> QED BY <2>1, <3>1, <3>2, <3>4, <4>1, <4>2
    <3> QED BY <3>3, <3>4
  <2>4. Move(c, "compensated")
    BY <2>1, <2>2, <2>3 DEF Move
  <2> QED BY <2>4 DEF RowStatus
<1> QED BY <1>1, <1>2

\* Settling a row moves it, or leaves the books as they are.
LEMMA Settles ==
    ASSUME IInv, NEW c \in Commands, NEW r \in RefundsOf(c), NEW s,
           row[c].status # "none", Settle(c, r, s)
    PROVE  Keeps \/ \E t \in RowStatus : Move(c, t)
<1>0. UNCHANGED <<order, spent, taken, unmatched>> /\ unmatched \in BOOLEAN
      /\ row[c].status \in RowStatus /\ alert \subseteq Commands \X {"unconfirmed", "failed", "both", "withheld"}
  BY DEF Settle, IInv, RowsInv, RowsType, Row
<1>1. CASE UNCHANGED <<row, left, back, money>> /\ AlertsGrow
  BY <1>0, <1>1 DEF Keeps
<1>2. CASE SettleSuccess(c, r)
  <2>1. CASE row[c].status \in UnderWay
    <3>1. /\ money + row[c].letters <= PackLetters /\ money' = money + row[c].letters
          /\ row' = [row EXCEPT ![c].status = "succeeded", ![c].refund = r]
          /\ AlertsGrow /\ UNCHANGED <<left, back>>
      BY <1>2, <2>1, AlertsOf DEF SettleSuccess, Letters, AlertsGrow
    <3>2. r # NoRefund
      BY PackRefundAssumption DEF RefundsOf, NoRefund
    <3>3. RowWritten(c, "succeeded", r)
      BY <3>1, <3>2 DEF RowWritten
    <3>4. /\ row' \in [Commands -> Row] /\ row'[c].status = "succeeded" /\ row'[c].letters = row[c].letters
          /\ row'[c].refund = r /\ \A d \in Commands \ {c} : row'[d] = row[d]
      BY <3>2, <3>3, Writes DEF RowStatus
    <3>5. /\ money' = money + Counts(row', c, {"succeeded"}) - Counts(row, c, {"succeeded"})
          /\ money' \in Int /\ money' <= PackLetters
      <4>1. Counts(row', c, {"succeeded"}) = row[c].letters /\ Counts(row, c, {"succeeded"}) = 0
        BY <2>1, <3>4 DEF Counts, UnderWay
      <4> DEFINE l == row[c].letters
      <4>2. l \in Nat /\ money \in Nat
        BY FiguresAre
      <4>3. money + l \in Int /\ money + l = money + l - 0
        <5> HIDE DEF l
        <5> QED BY <4>2
      <4> QED BY <3>1, <4>1, <4>3
    <3>6. Move(c, "succeeded")
      BY <1>0, <2>1, <3>1, <3>4, <3>5 DEF Move, Taken
    <3> QED BY <3>6 DEF RowStatus
  <2>2. CASE row[c].status \notin UnderWay
    <3>1. UNCHANGED <<row, left, back, money>> /\ AlertsGrow
      BY <1>0, <1>2, <2>2, AlertsOf DEF SettleSuccess, AlertsGrow
    <3> QED BY <1>1, <3>1
  <2> QED BY <2>1, <2>2
<1>3. CASE SettleFailure(c, r)
  <2>1. CASE row[c].status \in {"failed", "compensated"}
    BY <1>0, <1>1, <1>3, <2>1 DEF SettleFailure, AlertsGrow
  <2>2. CASE row[c].status \notin {"failed", "compensated"}
    <3>1. row[c].status \in Taken /\ Compensate(c, r)
      BY <1>0, <1>3, <2>2 DEF SettleFailure, Taken, RowStatus, UnderWay
    <3> QED BY <1>0, <3>1, Compensated
  <2> QED BY <2>1, <2>2
<1>4. CASE SettlePending(c, r)
  <2>1. CASE row[c].status = "letters_revoked"
    <3>1. /\ row' = [row EXCEPT ![c].status = "stripe_pending", ![c].refund = r]
          /\ AlertsGrow /\ UNCHANGED <<left, back, money>>
      BY <1>4, <2>1, AlertsOf DEF SettlePending, AlertsGrow
    <3>2. r # NoRefund
      BY PackRefundAssumption DEF RefundsOf, NoRefund
    <3>3. RowWritten(c, "stripe_pending", r)
      BY <3>1, <3>2 DEF RowWritten
    <3>4. /\ row' \in [Commands -> Row] /\ row'[c].status = "stripe_pending" /\ row'[c].letters = row[c].letters
          /\ row'[c].refund = r /\ \A d \in Commands \ {c} : row'[d] = row[d]
      BY <3>2, <3>3, Writes DEF RowStatus
    <3>5. Counts(row', c, {"succeeded"}) = 0 /\ Counts(row, c, {"succeeded"}) = 0
      BY <2>1, <3>4 DEF Counts
    <3>6. money' \in Int /\ money' <= PackLetters /\ money' = money + 0 - 0
      BY <3>1, FiguresAre
    <3>7. Move(c, "stripe_pending")
      BY <1>0, <2>1, <3>1, <3>4, <3>5, <3>6 DEF Move, Taken, UnderWay
    <3> QED BY <3>7 DEF RowStatus
  <2>2. CASE row[c].status # "letters_revoked"
    BY <1>0, <1>1, <1>4, <2>2 DEF SettlePending, AlertsGrow
  <2> QED BY <2>1, <2>2
<1>5. CASE UNCHANGED <<row, left, back, money, alert>>
  BY <1>0, <1>1, <1>5 DEF AlertsGrow
<1> QED BY <1>2, <1>3, <1>4, <1>5 DEF Settle

\* Either way the invariant stands, once the worker is done.
LEMMA SettledStands ==
    ASSUME IInv, NEW c \in Commands, Keeps \/ \E t \in RowStatus : Move(c, t),
           UNCHANGED <<aged, stripe>>, EndsTurn
    PROVE  IInv'
<1>1. RowsInv' /\ StillIssued
  BY KeepsRows, Moves
<1> QED BY <1>1, Stands

LEMMA FinalizeStep == ASSUME IInv, NEW w \in Workers, Finalize(w) PROVE IInv'
<1>1. worker[w].c \in Commands /\ row[worker[w].c].status # "none" /\ worker[w].r \in RefundsOf(worker[w].c)
  BY DEF Finalize, IInv, AskInv, Sound
<1>2. Keeps \/ \E t \in RowStatus : Move(worker[w].c, t)
  BY <1>1, Settles DEF Finalize
<1>3. UNCHANGED <<aged, stripe>> /\ EndsTurn
  BY DEF Finalize, EndsTurn
<1> QED BY <1>1, <1>2, <1>3, SettledStands

LEMMA CompensateIfWaitingStep ==
    ASSUME IInv, NEW w \in Workers, worker[w].pc # "idle", CompensateIfWaiting(w)
    PROVE  IInv'
<1> DEFINE c == worker[w].c
<1>1. c \in Commands
  BY DEF IInv, AskInv, Sound
<1>2. UNCHANGED <<order, spent, taken, unmatched, aged, stripe>> /\ EndsTurn
  BY DEF CompensateIfWaiting, EndsTurn
<1>3. CASE row[c].status = "letters_revoked"
  <2>1. Compensate(c, NoRefund) /\ row[c].status \in Taken
    BY <1>3 DEF CompensateIfWaiting, Taken, UnderWay
  <2>2. \E t \in RowStatus : Move(c, t)
    <3> HIDE DEF c
    <3> QED BY <1>1, <1>2, <2>1, Compensated
  <2> QED BY <1>1, <1>2, <2>2, SettledStands
<1>4. CASE row[c].status # "letters_revoked"
  <2>1. UNCHANGED <<row, left, back, money, alert>>
    BY <1>4 DEF CompensateIfWaiting
  <2>2. Keeps
    BY <1>2, <2>1 DEF Keeps, AlertsGrow, IInv, RowsInv, RowsType
  <2> QED BY <1>1, <1>2, <2>2, SettledStands
<1> QED BY <1>3, <1>4

LEMMA HandleUnclearStep == ASSUME IInv, NEW w \in Workers, HandleUnclear(w) PROVE IInv'
<1> DEFINE c == worker[w].c
<1>1. c \in Commands
  BY DEF HandleUnclear, IInv, AskInv, Sound
<1>2. UNCHANGED <<order, left, spent, taken, back, money, alert, unmatched, aged, stripe>> /\ EndsTurn
  BY DEF HandleUnclear, EndsTurn
<1>3. CASE row[c].status = "letters_revoked" /\ row[c].attempts < AttemptLimit
  <2>0. row \in [Commands -> Row]
    BY FiguresAre
  <2>1. row' = [row EXCEPT ![c] = [row[c] EXCEPT !.attempts = row[c].attempts + 1]]
    BY <1>3, <2>0 DEF HandleUnclear, Row
  <2>2. row[c].attempts + 1 \in 0..AttemptLimit
    <3>1. row[c].attempts \in 0..AttemptLimit
      BY <1>1, <2>0 DEF Row
    <3> DEFINE a == row[c].attempts
    <3> HIDE DEF a
    <3> QED BY <1>3, <3>1, PackRefundAssumption DEF a
  <2>3. [row[c] EXCEPT !.attempts = row[c].attempts + 1] \in Row
    BY <1>1, <2>0, <2>2 DEF Row
  <2>4. /\ row' \in [Commands -> Row] /\ row'[c].status = row[c].status /\ row'[c].letters = row[c].letters
        /\ \A d \in Commands \ {c} : row'[d] = row[d]
    BY <1>1, <2>0, <2>1, <2>3 DEF Row
  <2>5. Counts(row', c, {"succeeded"}) = 0 /\ Counts(row, c, {"succeeded"}) = 0
    BY <1>3, <2>4 DEF Counts
  <2>6. money' \in Int /\ money' <= PackLetters /\ money' = money + 0 - 0
    BY <1>2, FiguresAre
  <2>7. AlertsGrow
    BY <1>2 DEF AlertsGrow, IInv, RowsInv, RowsType
  <2>8. Move(c, "letters_revoked")
    BY <1>2, <1>3, <2>4, <2>5, <2>6, <2>7 DEF Move, Taken, UnderWay
  <2>9. \E t \in RowStatus : Move(c, t)
    BY <2>8 DEF RowStatus
  <2> QED BY <1>1, <1>2, <2>9, SettledStands
<1>4. CASE ~(row[c].status = "letters_revoked" /\ row[c].attempts < AttemptLimit)
  <2>1. row' = row
    BY <1>4 DEF HandleUnclear
  <2>2. Keeps
    BY <1>2, <2>1 DEF Keeps, AlertsGrow, IInv, RowsInv, RowsType
  <2> QED BY <1>1, <1>2, <2>2, SettledStands
<1> QED BY <1>3, <1>4

LEMMA SweepWaitsStep == ASSUME IInv, NEW w \in Workers, SweepWaits(w) PROVE IInv'
<1>1. worker[w].c \in Commands
  BY DEF SweepWaits, IInv, AskInv, Sound
<1>2. UNCHANGED <<order, left, spent, taken, back, money, row, unmatched, aged, stripe>> /\ EndsTurn
  BY DEF SweepWaits, EndsTurn
<1>3. Keeps
  BY <1>1, <1>2, AlertsOf DEF SweepWaits, Keeps, AlertsGrow, IInv, RowsInv, RowsType
<1> QED BY <1>1, <1>2, <1>3, SettledStands

LEMMA RefundEventStep ==
    ASSUME IInv, NEW c \in Commands, NEW r \in Refunds, NEW s, RefundEvent(c, r, s)
    PROVE  IInv'
<1>1. r \in RefundsOf(c) /\ had[r] # {} /\ UNCHANGED <<aged, stripe>> /\ EndsTurn
  BY DEF RefundEvent, EndsTurn
<1>2. row[c].status # "none"
  <2>1. r = <<c, 1>>
    BY <1>1 DEF RefundsOf, IInv, StripeInv
  <2> QED BY <1>1, <2>1 DEF IInv, RowsInv, RowInv
<1>3. CASE OtherRefund(c, r)
  <2>1. Keeps
    BY <1>3 DEF RefundEvent, Keeps, AlertsGrow, IInv, RowsInv, RowsType
  <2> QED BY <1>1, <2>1, SettledStands
<1>4. CASE ~OtherRefund(c, r)
  <2>1. Settle(c, r, s)
    BY <1>4 DEF RefundEvent
  <2> QED BY <1>1, <1>2, <2>1, Settles, SettledStands
<1> QED BY <1>3, <1>4

-----------------------------------------------------------------------------
(* Events that leave the rows as they are. *)

\* Letters leave the lots for good, or the whole payment is closed.
LEMMA RowsStay ==
    ASSUME IInv, UNCHANGED <<back, row, alert, unmatched, aged, stripe, worker>>,
           left' \in 0..PackLetters, spent' \in 0..PackLetters, taken' \in 0..PackLetters,
           left' + spent' + taken' + back = PackLetters, left' <= left,
           \/ order' = order /\ money' = money
           \/ order' = "refunded" /\ money' = PackLetters /\ left' = 0
           \/ order' = "disputed" /\ money' = money
    PROVE  IInv'
<1>1. Count(row, {"succeeded"}) <= money /\ Count(row, {"succeeded"}) \in Nat
  BY FiguresAre, CountType DEF IInv, RowsInv, BookInv
<1>3. RowsType'
  BY FiguresAre DEF IInv, RowsInv, RowsType, Row
<1>4. BookInv'
  <2>1. Count(row, {"succeeded"}) <= money' /\ (order' = "fulfilled" => money' = Count(row, {"succeeded"}))
    <3> DEFINE x == Count(row, {"succeeded"})
    <3>1. x \in Nat /\ x <= money /\ money \in Nat /\ PackLetters \in Nat /\ money <= PackLetters
      BY <1>1, FiguresAre
    <3>2. order = "fulfilled" => money = x
      BY DEF IInv, RowsInv, BookInv
    <3>3. x <= PackLetters
      <4> HIDE DEF x
      <4> QED BY <3>1
    <3> HIDE DEF x
    <3> QED BY <3>1, <3>2, <3>3 DEF x
  <2>2. Count(row', {"succeeded"}) = Count(row, {"succeeded"}) /\ Count(row', Taken) = back'
    BY DEF IInv, RowsInv, BookInv
  <2> QED BY <2>1, <2>2 DEF BookInv, Count, Counts, Taken, UnderWay
<1>5. RowInv'
  <2>1. order' = "fulfilled" => order = "fulfilled"
    OBVIOUS
  <2> QED BY <2>1 DEF IInv, RowsInv, RowInv, stripe, RefundsOf
<1>6. CapInv'
  <2>1. CapInv /\ rest' = rest
    BY DEF IInv, RowsInv, stripe
  <2> DEFINE m == left'
  <2>2. /\ rest \in Nat /\ back \in Nat /\ left \in Nat /\ PackLetters \in Nat
        /\ m \in 0..PackLetters /\ m <= left
    BY FiguresAre
  <2>3. /\ left + rest + back <= PackLetters => m + rest + back <= PackLetters
        /\ m = 0 => (rest + back <= PackLetters => m + rest + back <= PackLetters)
    <3> HIDE DEF m
    <3> QED BY <2>2
  <2> QED BY <2>1, <2>3 DEF CapInv
<1>7. StillIssued /\ EndsTurn /\ UNCHANGED stripe
  BY DEF StillIssued, EndsTurn
<1>8. RowsInv'
  BY <1>3, <1>4, <1>5, <1>6 DEF RowsInv
<1> QED BY <1>7, <1>8, Stands

LEMMA LettersAre ==
    ASSUME IInv
    PROVE  /\ left \in Nat /\ spent \in Nat /\ taken \in Nat /\ back \in Nat /\ PackLetters \in Nat
           /\ left + spent + taken + back = PackLetters
           /\ taken + left \in 0..PackLetters /\ 0 \in 0..PackLetters
           /\ left \in 0..PackLetters /\ spent \in 0..PackLetters /\ taken \in 0..PackLetters
           /\ 0 + spent + (taken + left) + back = PackLetters
<1>1. left \in Nat /\ spent \in Nat /\ taken \in Nat /\ back \in Nat /\ PackLetters \in Nat
  BY FiguresAre
<1>2. left + spent + taken + back = PackLetters
  BY DEF IInv, RowsInv, BookInv
<1> QED BY <1>1, <1>2

LEMMA AllStays ==
    ASSUME IInv, UNCHANGED <<order, left, spent, taken, back, money, row, alert, unmatched, aged, stripe, worker>>
    PROVE  IInv'
<1>1. left' + spent' + taken' + back = PackLetters /\ left' <= left
  BY LettersAre
<1> QED BY <1>1, LettersAre, RowsStay

LEMMA CompleteRefundStep ==
    ASSUME IInv, CompleteRefund, UNCHANGED <<aged, stripe, worker>> PROVE IInv'
<1>1. CASE order = "refunded"
  BY <1>1, AllStays DEF CompleteRefund, rows
<1>2. CASE order # "refunded"
  <2>1. /\ order' = "refunded" /\ money' = PackLetters /\ taken' = taken + left /\ left' = 0
        /\ UNCHANGED <<spent, back, row, alert, unmatched>>
    BY <1>2 DEF CompleteRefund
  <2>2. left' + spent' + taken' + back = PackLetters /\ left' <= left
    BY <2>1, LettersAre
  <2> QED BY <2>1, <2>2, LettersAre, RowsStay
<1> QED BY <1>1, <1>2

LEMMA AlertUnmatchedStep ==
    ASSUME IInv, AlertUnmatched, UNCHANGED <<aged, stripe, worker>> PROVE IInv'
<1>1. Keeps
  BY DEF AlertUnmatched, Keeps, AlertsGrow, IInv, RowsInv, RowsType
<1>2. RowsInv' /\ StillIssued
  BY <1>1, KeepsRows
<1> QED BY <1>2, Stands DEF EndsTurn

LEMMA RestEventStep == ASSUME IInv, RestEvent PROVE IInv'
<1>1. (CompleteRefund \/ AlertUnmatched) /\ UNCHANGED <<aged, stripe, worker>>
  BY DEF RestEvent
<1> QED BY <1>1, CompleteRefundStep, AlertUnmatchedStep

LEMMA ChargeEventStep == ASSUME IInv, NEW S, NEW all, ChargeEvent(S, all) PROVE IInv'
<1>1. (CompleteRefund \/ AlertUnmatched \/ UNCHANGED rows) /\ UNCHANGED <<aged, stripe, worker>>
  BY DEF ChargeEvent
<1> QED BY <1>1, CompleteRefundStep, AlertUnmatchedStep, AllStays DEF rows

LEMMA DisputeStep == ASSUME IInv, Dispute PROVE IInv'
<1>1. /\ order' = "disputed" /\ taken' = taken + left /\ left' = 0
      /\ UNCHANGED <<spent, back, money, row, alert, unmatched, aged, stripe, worker>>
  BY DEF Dispute
<1>2. left' + spent' + taken' + back = PackLetters /\ left' <= left
  BY <1>1, LettersAre
<1> QED BY <1>1, <1>2, LettersAre, RowsStay

LEMMA SendStep == ASSUME IInv, Send PROVE IInv'
<1>1. /\ left > 0 /\ left' = left - 1 /\ spent' = spent + 1
      /\ UNCHANGED <<order, taken, back, money, row, alert, unmatched, aged, stripe, worker>>
  BY DEF Send
<1>2. /\ left - 1 \in 0..PackLetters /\ spent + 1 \in 0..PackLetters /\ left - 1 <= left
      /\ (left - 1) + (spent + 1) + taken + back = PackLetters
  BY <1>1, LettersAre
<1>3. left' + spent' + taken' + back = PackLetters /\ left' <= left
  BY <1>1, <1>2
<1> QED BY <1>1, <1>2, <1>3, LettersAre, RowsStay

-----------------------------------------------------------------------------
(* Workers and Stripe. *)

\* A worker turns to something sound, and nothing else moves.
LEMMA Turns ==
    ASSUME IInv, UNCHANGED <<rows, stripe>>, aged' \subseteq Commands,
           worker' = worker
           \/ \E w \in Workers, k \in Work : worker' = [worker EXCEPT ![w] = k] /\ Sound(k)
    PROVE  IInv'
<1>1. RowsInv'
  <2>1. UNCHANGED <<order, left, spent, taken, back, money, row, alert, unmatched, had, rest>>
    BY DEF rows, stripe
  <2>2. RowsType' /\ CapInv' /\ RowInv'
    BY <2>1 DEF IInv, RowsInv, RowsType, CapInv, RowInv, Row, RefundsOf
  <2>3. BookInv'
    BY <2>1 DEF IInv, RowsInv, BookInv, Count, Counts
  <2> QED BY <2>2, <2>3 DEF RowsInv
<1>2. StripeInv'
  BY DEF IInv, StripeInv, stripe
<1>3. worker' \in [Workers -> Work] /\ \A w \in Workers : Sound(worker'[w])
  BY DEF IInv, AskInv
<1>4. AskInv'
  <2> SUFFICES ASSUME NEW w \in Workers PROVE Sound(worker[w])'
    BY <1>3 DEF AskInv, Work
  <2> QED BY <1>3 DEF Sound, rows, stripe, RefundsOf
<1> QED BY <1>1, <1>2, <1>4 DEF IInv

LEMMA DoingIs ==
    ASSUME IInv, NEW c \in Commands, row[c].status # "none",
           NEW pc \in {"creating", "giving up", "unlisted"}, NEW s \in {"none", "at limit"},
           pc = "creating" => (key[c] = NoRefund => had[<<c, 1>>] = {})
    PROVE  LET k == [Doing(pc, c) EXCEPT !.status = s] IN k \in Work /\ Sound(k)
BY DEF Doing, Idle, Work, Sound

LEMMA PlainDoing ==
    ASSUME IInv, NEW c \in Commands, row[c].status # "none", NEW pc \in {"creating", "giving up"},
           pc = "creating" => (key[c] = NoRefund => had[<<c, 1>>] = {})
    PROVE  Doing(pc, c) \in Work /\ Sound(Doing(pc, c))
BY DEF Doing, Idle, Work, Sound

LEMMA ToldIs ==
    ASSUME IInv, NEW c \in Commands, row[c].status # "none", NEW r \in RefundsOf(c),
           NEW s \in {"none", "pending", "succeeded", "failed"}
    PROVE  Told(c, r, s) \in Work /\ Sound(Told(c, r, s))
<1>1. r \in Refunds
  BY DEF RefundsOf, Refunds
<1>2. Told(c, r, s) \in Work
  BY <1>1 DEF Told, Work
<1>3. Sound(Told(c, r, s))
  BY DEF Told, Sound
<1> QED BY <1>2, <1>3

LEMMA StripeRepeatsStep == ASSUME IInv, NEW w \in Workers, StripeRepeats(w) PROVE IInv'
<1> DEFINE c == worker[w].c
<1>1. /\ worker[w].pc = "creating" /\ key[c] # NoRefund
      /\ worker' = [worker EXCEPT ![w] = Told(c, key[c], BornAs(key[c]))]
      /\ UNCHANGED <<rows, aged, stripe>>
  BY DEF StripeRepeats
<1>2. c \in Commands /\ row[c].status # "none"
  BY <1>1 DEF IInv, AskInv, Sound
<1>3. key[c] \in RefundsOf(c)
  BY <1>1, <1>2 DEF IInv, StripeInv, RefundsOf
<1> HIDE DEF c
<1>4. BornAs(key[c]) \in {"none", "pending", "succeeded", "failed"}
  BY DEF BornAs
<1>5. Told(c, key[c], BornAs(key[c])) \in Work /\ Sound(Told(c, key[c], BornAs(key[c])))
  BY <1>2, <1>3, <1>4, ToldIs
<1>6. aged' \subseteq Commands
  BY <1>1 DEF IInv, RowsInv, RowsType
<1> QED BY <1>1, <1>5, <1>6, Turns

LEMMA StripeFailsStep ==
    ASSUME IInv, NEW w \in Workers, NEW how \in {"refused", "unclear"}, StripeFails(w, how)
    PROVE  IInv'
<1> DEFINE k == [worker[w] EXCEPT !.pc = how]
<1>1. worker \in [Workers -> Work] /\ Sound(worker[w]) /\ worker[w].pc = "creating"
  BY DEF IInv, AskInv, StripeFails
<1>2. k \in Work /\ Sound(k)
  <2>1. worker[w] \in Work
    BY <1>1
  <2> QED BY <1>1, <2>1 DEF Work, Sound
<1>3. worker' = [worker EXCEPT ![w] = k] /\ UNCHANGED <<rows, aged, stripe>>
  BY <1>1 DEF StripeFails
<1>4. aged' \subseteq Commands
  BY <1>3 DEF IInv, RowsInv, RowsType
<1> HIDE DEF k
<1> QED BY <1>2, <1>3, <1>4, Turns

LEMMA CrashStep == ASSUME IInv, NEW w \in Workers, Crash(w) PROVE IInv'
<1>1. aged' \subseteq Commands
  BY DEF Crash, IInv, RowsInv, RowsType
<1> QED BY <1>1, IdleIsSound, Turns DEF Crash

LEMMA DayPassesStep == ASSUME IInv, NEW c \in Commands, DayPasses(c) PROVE IInv'
<1>1. aged' \subseteq Commands
  BY DEF DayPasses, IInv, RowsInv, RowsType
<1> QED BY <1>1, Turns DEF DayPasses

\* Refunds a listing shows are the command's.
LEMMA BestIsOne ==
    ASSUME IInv, NEW c \in Commands, AtStripe(c) # {}
    PROVE  BestOf(AtStripe(c)) \in RefundsOf(c)
<1>1. AtStripe(c) = {<<c, 1>>}
  BY DEF AtStripe, Exists, RefundsOf, IInv, StripeInv
<1>2. \A P \in SUBSET {<<c, 1>>} : P # {} => (CHOOSE r \in P : \A q \in P : q[2] <= r[2]) = <<c, 1>>
  <2> SUFFICES ASSUME NEW P \in SUBSET {<<c, 1>>}, P # {}
               PROVE  (CHOOSE r \in P : \A q \in P : q[2] <= r[2]) = <<c, 1>>
    OBVIOUS
  <2>1. P = {<<c, 1>>}
    OBVIOUS
  <2>2. <<c, 1>>[2] <= <<c, 1>>[2]
    OBVIOUS
  <2>3. \E r \in P : \A q \in P : q[2] <= r[2]
    BY <2>1, <2>2
  <2>4. (CHOOSE r \in P : \A q \in P : q[2] <= r[2]) \in P
    BY <2>3
  <2> QED BY <2>1, <2>4
<1> DEFINE ok(s) == {r \in AtStripe(c) : NowStatus(r) \in s}
<1>3. ok({"succeeded"}) \in SUBSET {<<c, 1>>} /\ ok({"pending"}) \in SUBSET {<<c, 1>>}
  BY <1>1
<1>4. BestOf(AtStripe(c)) = <<c, 1>>
  <2>1. CASE ok({"succeeded"}) # {}
    BY <1>2, <1>3, <2>1 DEF BestOf
  <2>2. CASE ok({"succeeded"}) = {} /\ ok({"pending"}) # {}
    BY <1>2, <1>3, <2>2 DEF BestOf
  <2>3. CASE ok({"succeeded"}) = {} /\ ok({"pending"}) = {}
    BY <1>1, <1>2, <2>3 DEF BestOf
  <2> QED BY <2>1, <2>2, <2>3
<1> QED BY <1>4 DEF RefundsOf

LEMMA SweepListsStep == ASSUME IInv, NEW w \in Workers, NEW c \in Commands, SweepLists(w, c) PROVE IInv'
<1>1. row[c].status # "none" /\ UNCHANGED <<rows, aged, stripe>>
  BY DEF SweepLists
<1>2. aged' \subseteq Commands
  BY <1>1 DEF IInv, RowsInv, RowsType
<1>3. CASE AtStripe(c) # {}
  <2> DEFINE r == BestOf(AtStripe(c))
             k == Told(c, r, NowStatus(r))
  <2>1. NowStatus(r) \in {"none", "pending", "succeeded", "failed"}
    BY DEF NowStatus
  <2>2. r \in RefundsOf(c)
    BY <1>3, BestIsOne
  <2>3. worker' = [worker EXCEPT ![w] = k]
    BY <1>3 DEF SweepLists
  <2> HIDE DEF r
  <2>4. k \in Work /\ Sound(k)
    BY <1>1, <2>1, <2>2, ToldIs
  <2> HIDE DEF k
  <2> QED BY <1>1, <1>2, <2>3, <2>4, Turns
<1>4. CASE AtStripe(c) = {}
  <2>1. had[<<c, 1>>] = {}
    BY <1>4 DEF AtStripe, Exists, RefundsOf
  <2>2. \A pc \in {"creating", "giving up"} : Doing(pc, c) \in Work /\ Sound(Doing(pc, c))
    BY <1>1, <2>1, PlainDoing
  <2>3. \/ worker' = [worker EXCEPT ![w] = Doing("giving up", c)]
        \/ worker' = [worker EXCEPT ![w] = Doing("creating", c)]
    BY <1>4 DEF SweepLists
  <2> QED BY <1>1, <1>2, <2>2, <2>3, Turns
<1> QED BY <1>3, <1>4

LEMMA SweepCannotListStep ==
    ASSUME IInv, NEW w \in Workers, NEW c \in Commands, SweepCannotList(w, c) PROVE IInv'
<1> DEFINE s == IF row[c].attempts >= AttemptLimit THEN "at limit" ELSE "none"
           k == [Doing("unlisted", c) EXCEPT !.status = s]
<1>1. row[c].status # "none" /\ UNCHANGED <<rows, aged, stripe>> /\ worker' = [worker EXCEPT ![w] = k]
  BY DEF SweepCannotList
<1>2. s \in {"none", "at limit"}
  OBVIOUS
<1>3. aged' \subseteq Commands
  BY <1>1 DEF IInv, RowsInv, RowsType
<1> HIDE DEF s
<1>4. k \in Work /\ Sound(k)
  BY <1>1, <1>2, DoingIs
<1> HIDE DEF k
<1> QED BY <1>1, <1>3, <1>4, Turns

LEMMA SweepPendingStep ==
    ASSUME IInv, NEW w \in Workers, NEW c \in Commands, SweepPending(w, c) PROVE IInv'
<1> DEFINE r == row[c].refund
           k == Told(c, r, NowStatus(r))
<1>1. row[c].status = "stripe_pending" /\ UNCHANGED <<rows, aged, stripe>> /\ worker' = [worker EXCEPT ![w] = k]
  BY DEF SweepPending
<1>2. r \in RefundsOf(c)
  BY <1>1 DEF IInv, RowsInv, RowInv
<1>3. NowStatus(r) \in {"none", "pending", "succeeded", "failed"}
  BY DEF NowStatus
<1>4. aged' \subseteq Commands
  BY <1>1 DEF IInv, RowsInv, RowsType
<1> HIDE DEF r
<1>5. k \in Work /\ Sound(k)
  BY <1>1, <1>2, <1>3, ToldIs
<1> HIDE DEF k
<1> QED BY <1>1, <1>4, <1>5, Turns

\* What Stripe does to refunds and keys leaves the books alone.
LEMMA StripeTurns ==
    ASSUME IInv, UNCHANGED <<rows, aged, rest>>, StripeInv', AskInv',
           \A c \in Commands : had'[<<c, 1>>] # {} => row[c].status # "none"
    PROVE  IInv'
<1>1. UNCHANGED <<order, left, spent, taken, back, money, row, alert, unmatched>>
  BY DEF rows
<1>2. RowsType' /\ CapInv' /\ RowInv'
  BY <1>1 DEF IInv, RowsInv, RowsType, CapInv, RowInv, Row, RefundsOf
<1>3. BookInv'
  BY <1>1 DEF IInv, RowsInv, BookInv, Count, Counts
<1> QED BY <1>2, <1>3 DEF IInv, RowsInv

LEMMA StripeMakesStep ==
    ASSUME IInv, NEW w \in Workers, NEW r \in Refunds, NEW s \in {"pending", "succeeded"},
           NEW heard \in BOOLEAN, StripeMakes(w, r, s, heard)
    PROVE  IInv'
<1> DEFINE c == worker[w].c
           k == IF heard THEN Told(c, r, s) ELSE Doing("unclear", c)
<1>1. /\ worker[w].pc = "creating" /\ CanMake(c, r)
      /\ had' = [had EXCEPT ![r] = {s}] /\ key' = [key EXCEPT ![c] = r]
      /\ worker' = [worker EXCEPT ![w] = k]
      /\ UNCHANGED <<rows, aged, rest>>
  BY DEF StripeMakes
<1>2. c \in Commands /\ row[c].status # "none" /\ key[c] = NoRefund /\ had[<<c, 1>>] = {}
  BY <1>1 DEF IInv, AskInv, Sound, CanMake
<1> HIDE DEF c
<1>3. r = <<c, 1>>
  <2>1. AtStripe(c) = {}
    BY <1>2 DEF AtStripe, RefundsOf, Exists, IInv, StripeInv
  <2>2. r[2] = 0 + 1 /\ r \in {<<c, 1>>, <<c, 2>>}
    BY <1>1, <2>1, FS_EmptySet DEF CanMake, RefundsOf
  <2> QED BY <2>2
<1>4. <<c, 1>> \in Refunds /\ <<c, 1>> # NoRefund
  BY <1>2, PackRefundAssumption DEF Refunds, NoRefund
<1>5. had \in [Refunds -> SUBSET {"pending", "succeeded", "failed"}] /\ key \in [Commands -> Refunds \cup {NoRefund}]
      /\ \A d \in Commands : had[<<d, 2>>] = {} /\ key[d] \in {NoRefund, <<d, 1>>}
  BY DEF IInv, StripeInv
<1>6. \A d \in Commands : /\ had'[<<d, 1>>] = IF d = c THEN {s} ELSE had[<<d, 1>>]
                          /\ had'[<<d, 2>>] = had[<<d, 2>>]
                          /\ key'[d] = IF d = c THEN <<c, 1>> ELSE key[d]
  <2> SUFFICES ASSUME NEW d \in Commands
               PROVE  /\ had'[<<d, 1>>] = IF d = c THEN {s} ELSE had[<<d, 1>>]
                      /\ had'[<<d, 2>>] = had[<<d, 2>>]
                      /\ key'[d] = IF d = c THEN <<c, 1>> ELSE key[d]
    OBVIOUS
  <2>1. <<d, 1>> \in Refunds /\ <<d, 2>> \in Refunds
    BY DEF Refunds
  <2>2. <<d, 2>> # <<c, 1>> /\ (d # c => <<d, 1>> # <<c, 1>>)
    OBVIOUS
  <2>3. \A q \in Refunds : had'[q] = IF q = <<c, 1>> THEN {s} ELSE had[q]
    BY <1>1, <1>3, <1>5
  <2>4. key'[d] = IF d = c THEN <<c, 1>> ELSE key[d]
    BY <1>1, <1>3, <1>5
  <2>5. had'[<<d, 2>>] = had[<<d, 2>>]
    BY ONLY <2>1, <2>2, <2>3
  <2>6. had'[<<d, 1>>] = IF d = c THEN {s} ELSE had[<<d, 1>>]
    BY ONLY <2>1, <2>2, <2>3
  <2> QED BY <2>4, <2>5, <2>6
<1>7. StripeInv'
  <2>1. had' \in [Refunds -> SUBSET {"pending", "succeeded", "failed"}]
        /\ key' \in [Commands -> Refunds \cup {NoRefund}] /\ rest' \in 0..PackLetters
    BY <1>1, <1>3, <1>4, <1>5 DEF IInv, StripeInv
  <2>2. \A d \in Commands : had'[<<d, 2>>] = {} /\ key'[d] \in {NoRefund, <<d, 1>>}
    BY <1>5, <1>6
  <2> QED BY <2>1, <2>2 DEF StripeInv, Refunds, NoRefund
<1>8. k \in Work /\ k.pc # "creating" /\ k.c = c /\ (k.pc = "answered" => k.r = r)
  <2>1. Told(c, r, s) \in Work /\ Told(c, r, s).pc = "answered" /\ Told(c, r, s).c = c /\ Told(c, r, s).r = r
    BY <1>2, <1>3, <1>4 DEF Told, Work
  <2>2. Doing("unclear", c) \in Work /\ Doing("unclear", c).pc = "unclear" /\ Doing("unclear", c).c = c
    BY <1>2 DEF Doing, Idle, Work
  <2> QED BY <2>1, <2>2
<1> HIDE DEF k
<1>9. AskInv'
  <2>1. worker \in [Workers -> Work] /\ row' = row /\ \A v \in Workers : Sound(worker[v])
    BY <1>1 DEF IInv, AskInv, rows
  <2>2. worker' \in [Workers -> Work]
    BY <1>1, <1>8, <2>1
  <2>3. ASSUME NEW v \in Workers PROVE Sound(worker[v])'
    <3>1. CASE v = w
      <4>1. worker'[v] = k
        BY <1>1, <2>1, <3>1
      <4> QED BY <1>2, <1>3, <1>8, <2>1, <4>1 DEF Sound, RefundsOf
    <3>2. CASE v # w
      <4>1. worker'[v] = worker[v] /\ Sound(worker[v])
        BY <1>1, <2>1, <3>2
      <4>2. \A d \in Commands : key'[d] = NoRefund => key[d] = NoRefund /\ had'[<<d, 1>>] = had[<<d, 1>>]
        BY ONLY <1>4, <1>6
      <4> QED BY ONLY <2>1, <4>1, <4>2 DEF Sound, RefundsOf
    <3> QED BY <3>1, <3>2
  <2> QED BY <2>2, <2>3 DEF AskInv, Work, Refunds, NoRefund
<1>10. \A d \in Commands : had'[<<d, 1>>] # {} => row[d].status # "none"
  BY <1>2, <1>6 DEF IInv, RowsInv, RowInv
<1> QED BY <1>1, <1>7, <1>9, <1>10, StripeTurns

LEMMA StripeMovesStep ==
    ASSUME IInv, NEW r \in Refunds, NEW s \in {"succeeded", "failed"}, StripeMoves(r, s)
    PROVE  IInv'
<1>1. had[r] # {} /\ had' = [had EXCEPT ![r] = had[r] \cup {s}] /\ UNCHANGED <<rows, aged, key, rest, worker>>
  BY DEF StripeMoves, NowStatus
<1>2. had \in [Refunds -> SUBSET {"pending", "succeeded", "failed"}]
  BY DEF IInv, StripeInv
<1>3. \A q \in Refunds : had'[q] = {} <=> had[q] = {}
  BY <1>1, <1>2
<1>4. \A c \in Commands : <<c, 1>> \in Refunds /\ <<c, 2>> \in Refunds
  BY DEF Refunds
<1>5. \A c \in Commands : (had'[<<c, 1>>] = {} <=> had[<<c, 1>>] = {}) /\ (had'[<<c, 2>>] = {} <=> had[<<c, 2>>] = {})
  BY <1>3, <1>4
<1>6. StripeInv'
  BY <1>1, <1>2, <1>5 DEF IInv, StripeInv, Refunds, NoRefund
<1>7. AskInv'
  <2> SUFFICES ASSUME NEW w \in Workers PROVE Sound(worker[w])'
    BY <1>1 DEF IInv, AskInv, Work, Refunds, NoRefund
  <2>1. Sound(worker[w])
    BY DEF IInv, AskInv
  <2> QED BY <1>1, <1>5, <2>1 DEF Sound, rows, RefundsOf
<1>8. \A c \in Commands : had'[<<c, 1>>] # {} => row[c].status # "none"
  BY <1>5 DEF IInv, RowsInv, RowInv
<1> QED BY <1>1, <1>6, <1>7, <1>8, StripeTurns

\* A key is forgotten when nobody is at its command.
LEMMA KeyExpiresStep == ASSUME IInv, NEW c \in Commands, KeyExpires(c) PROVE IInv'
<1>1. /\ \A w \in Workers : worker[w].c # c
      /\ key' = [key EXCEPT ![c] = NoRefund] /\ UNCHANGED <<rows, aged, had, rest, worker>>
  BY DEF KeyExpires
<1>2. key \in [Commands -> Refunds \cup {NoRefund}]
  BY DEF IInv, StripeInv
<1>3. \A d \in Commands : key'[d] = IF d = c THEN NoRefund ELSE key[d]
  BY <1>1, <1>2
<1>4. StripeInv'
  BY <1>1, <1>2, <1>3 DEF IInv, StripeInv, Refunds, NoRefund
<1>5. AskInv'
  <2> SUFFICES ASSUME NEW w \in Workers PROVE Sound(worker[w])'
    BY <1>1 DEF IInv, AskInv, Work, Refunds, NoRefund
  <2>1. Sound(worker[w])
    BY DEF IInv, AskInv
  <2> QED BY <1>1, <1>3, <2>1 DEF Sound, rows, RefundsOf
<1>6. \A d \in Commands : had'[<<d, 1>>] # {} => row[d].status # "none"
  BY <1>1 DEF IInv, RowsInv, RowInv
<1> QED BY <1>1, <1>4, <1>5, <1>6, StripeTurns

-----------------------------------------------------------------------------
(* A command is issued. *)

LEMMA RefundPackLettersStep ==
    ASSUME IInv, NEW w \in Workers, NEW c \in Commands, NEW n \in 1..PackLetters, RefundPackLetters(w, c, n)
    PROVE  IInv'
<1>1. /\ row[c].status = "none" /\ order = "fulfilled" /\ n <= left
      /\ OneRefunder => rest = 0
      /\ row' = [row EXCEPT ![c].status = "letters_revoked", ![c].letters = n]
      /\ left' = left - n /\ back' = back + n
      /\ worker' = [worker EXCEPT ![w] = Doing("creating", c)]
      /\ UNCHANGED <<order, spent, taken, money, alert, unmatched, aged, stripe>>
  BY DEF RefundPackLetters
<1>2. row \in [Commands -> Row]
  BY FiguresAre
<1>3. /\ row' \in [Commands -> Row] /\ row'[c].status = "letters_revoked" /\ row'[c].letters = n
      /\ \A d \in Commands \ {c} : row'[d] = row[d]
  <2> DEFINE x == [row[c] EXCEPT !.status = "letters_revoked", !.letters = n]
  <2>1. row' = [row EXCEPT ![c] = x]
    BY <1>1, <1>2 DEF Row
  <2>2. x \in Row /\ x.status = "letters_revoked" /\ x.letters = n
    <3>1. n \in 0..PackLetters
      BY PackRefundAssumption
    <3> QED BY <1>2, <3>1 DEF Row, RowStatus
  <2> HIDE DEF x
  <2> QED BY <1>2, <2>1, <2>2
<1>4. left - n \in 0..PackLetters /\ back + n \in 0..PackLetters
      /\ (left - n) + spent + taken + (back + n) = PackLetters
  BY <1>1, LettersAre
<1>5. Count(row', Taken) = back + n /\ Count(row', {"succeeded"}) = Count(row, {"succeeded"})
  <2>1. Turned(row, row', c, Taken) /\ Turned(row, row', c, {"succeeded"})
    BY <1>2, <1>3, CountTurns
  <2>2. /\ Counts(row, c, Taken) = 0 /\ Counts(row', c, Taken) = n
        /\ Counts(row, c, {"succeeded"}) = 0 /\ Counts(row', c, {"succeeded"}) = 0
    BY <1>1, <1>3 DEF Counts, Taken, UnderWay
  <2> DEFINE a == Count(row, Taken)
             b == Count(row', Taken)
             x == Count(row, {"succeeded"})
             y == Count(row', {"succeeded"})
  <2>3. a \in Nat /\ b \in Nat /\ x \in Nat /\ y \in Nat
    BY <1>2, <1>3, CountType
  <2>4. b - n = a - 0 /\ y - 0 = x - 0
    BY <2>1, <2>2 DEF Turned
  <2>5. back = a
    BY DEF IInv, RowsInv, BookInv
  <2> HIDE DEF a, b, x, y
  <2>6. b = back + n /\ y = x
    BY <2>3, <2>4, <2>5
  <2> QED BY <2>6 DEF b, x, y
<1>6. RowsType'
  BY <1>1, <1>3, <1>4 DEF IInv, RowsInv, RowsType, Row
<1>7. BookInv'
  BY <1>1, <1>4, <1>5 DEF IInv, RowsInv, BookInv, Count, Counts, Taken, UnderWay
<1>8. RowInv'
  <2> SUFFICES ASSUME NEW d \in Commands
               PROVE  /\ row'[d].status = "failed" => order' # "fulfilled"
                      /\ had'[<<d, 1>>] # {} => row'[d].status # "none"
                      /\ row'[d].status \in {"stripe_pending", "succeeded"} => row'[d].refund \in RefundsOf(d)
    BY DEF RowInv, RefundsOf
  <2>1. CASE d = c
    BY <1>3, <2>1
  <2>2. CASE d # c
    <3>1. row'[d] = row[d]
      BY <1>3, <2>2
    <3> QED BY <1>1, <3>1 DEF IInv, RowsInv, RowInv, stripe
  <2> QED BY <2>1, <2>2
<1>9. CapInv'
  <2>1. OneRefunder => 0 + (back + n) <= PackLetters
    BY <1>4
  <2> QED BY <1>1, <2>1 DEF CapInv, stripe
<1>10. StripeInv'
  BY <1>1 DEF IInv, StripeInv, stripe
<1>11. AskInv'
  <2>1. worker \in [Workers -> Work] /\ \A v \in Workers : Sound(worker[v])
    BY DEF IInv, AskInv
  <2>2. Doing("creating", c) \in Work /\ Doing("creating", c).pc = "creating" /\ Doing("creating", c).c = c
    BY DEF Doing, Idle, Work
  <2>3. worker' \in [Workers -> Work]
    BY <1>1, <2>1, <2>2
  <2>4. ASSUME NEW v \in Workers PROVE Sound(worker[v])'
    <3>1. CASE v = w
      <4>1. worker'[v] = Doing("creating", c)
        BY <1>1, <2>1, <3>1
      <4>2. had[<<c, 1>>] = {}
        BY <1>1 DEF IInv, RowsInv, RowInv
      <4> QED BY <1>1, <1>3, <2>2, <4>1, <4>2 DEF Sound, stripe
    <3>2. CASE v # w
      <4>1. worker'[v] = worker[v] /\ Sound(worker[v])
        BY <1>1, <2>1, <3>2
      <4>2. \A d \in Commands : row[d].status # "none" => row'[d].status # "none"
        BY <1>3
      <4> QED BY <1>1, <4>1, <4>2 DEF Sound, stripe, RefundsOf
    <3> QED BY <3>1, <3>2
  <2> QED BY <2>3, <2>4 DEF AskInv, Work
<1> QED BY <1>6, <1>7, <1>8, <1>9, <1>10, <1>11 DEF IInv, RowsInv

-----------------------------------------------------------------------------
(* What is left of the payment. *)

LEMMA SumZero ==
    ASSUME NEW D, IsFiniteSet(D)
    PROVE  SumFunctionOnSet([x \in D |-> 0], D) = 0
<1> DEFINE f == [x \in D |-> 0]
<1>1. f \in [D -> Nat] /\ [x \in D |-> IF x \in {} THEN f[x] ELSE 0] = f
  OBVIOUS
<1>2. SumFunctionOnSet(f, {}) = 0
  BY FS_EmptySet, SumUnfolds
<1> HIDE DEF f
<1>3. SumFunctionOnSet(f, {}) = SumFunctionOnSet([x \in D |-> IF x \in {} THEN f[x] ELSE 0], D)
  BY <1>1, SumFilters
<1>4. SumFunctionOnSet(f, D) = 0
  BY <1>1, <1>2, <1>3
<1> QED BY <1>4 DEF f

\* What each command's live refund is worth.
Paid == [c \in Commands |-> IF IsLive(<<c, 1>>) THEN row[c].letters ELSE 0]

LEMMA PaidIs ==
    ASSUME IInv
    PROVE  /\ Paid \in [Commands -> Nat]
           /\ Unrefunded = PackLetters - rest - SumFunctionOnSet(Paid, Commands)
           /\ SumFunctionOnSet(Paid, Commands) \in Nat
           /\ \A c \in Commands : IsLive(<<c, 1>>) => row[c].status \in Taken \cup {"compensated"}
           /\ \A c \in Commands : ~IsLive(<<c, 2>>)
<1>1. \A c \in Commands : row[c].letters \in Nat /\ row[c].status \in RowStatus
  BY FiguresAre DEF Row
<1>2. Paid \in [Commands -> Nat]
  BY <1>1 DEF Paid
<1>3. \A c \in Commands : had[<<c, 2>>] = {}
  BY DEF IInv, StripeInv
<1>4. \A c \in Commands : ~IsLive(<<c, 2>>)
  BY <1>3 DEF IsLive, NowStatus
<1>5. ASSUME NEW c \in Commands
      PROVE  Letters(c) * Cardinality({r \in RefundsOf(c) : IsLive(r)})
               = IF IsLive(<<c, 1>>) THEN row[c].letters ELSE 0
  <2> DEFINE l == row[c].letters
  <2>0. l \in Nat
    BY <1>1
  <2>1. CASE IsLive(<<c, 1>>)
    <3>1. {r \in RefundsOf(c) : IsLive(r)} = {<<c, 1>>}
      BY <1>4, <2>1 DEF RefundsOf
    <3>2. Cardinality({r \in RefundsOf(c) : IsLive(r)}) = 1
      BY <3>1, FS_Singleton
    <3>3. l * 1 = l
      <4> HIDE DEF l
      <4> QED BY <2>0
    <3> QED BY <2>1, <3>2, <3>3 DEF Letters
  <2>2. CASE ~IsLive(<<c, 1>>)
    <3>1. {r \in RefundsOf(c) : IsLive(r)} = {}
      BY <1>4, <2>2 DEF RefundsOf
    <3>2. Cardinality({r \in RefundsOf(c) : IsLive(r)}) = 0
      BY <3>1, FS_EmptySet
    <3>3. l * 0 = 0
      <4> HIDE DEF l
      <4> QED BY <2>0
    <3> QED BY <2>2, <3>2, <3>3 DEF Letters
  <2> QED BY <2>1, <2>2
<1>6. [c \in Commands |-> Letters(c) * Cardinality({r \in RefundsOf(c) : IsLive(r)})] = Paid
  BY <1>5 DEF Paid
<1>7. Unrefunded = PackLetters - rest - SumFunctionOnSet(Paid, Commands)
  BY <1>6 DEF Unrefunded
<1>8. SumFunctionOnSet(Paid, Commands) \in Nat
  BY <1>2, PackRefundAssumption, SumTypes
<1>9. ASSUME NEW c \in Commands, IsLive(<<c, 1>>) PROVE row[c].status \in Taken \cup {"compensated"}
  <2>1. had[<<c, 1>>] # {}
    BY <1>9 DEF IsLive, NowStatus
  <2>2. row[c].status # "none"
    BY <2>1 DEF IInv, RowsInv, RowInv
  <2> QED BY <1>1, <2>2 DEF RowStatus, Taken, UnderWay
<1> QED BY <1>2, <1>4, <1>7, <1>8, <1>9

\* The dashboard refunds what is left when each command not made good is paid.
LEMMA RefundRestStep == ASSUME IInv, RefundRest PROVE IInv'
<1>1. /\ rest = 0 /\ Unrefunded > 0 /\ rest' = Unrefunded
      /\ UNCHANGED <<rows, aged, had, key, worker>>
  BY DEF RefundRest
<1> DEFINE s == SumFunctionOnSet(Paid, Commands)
           p == rest'
<1>2. s \in Nat /\ PackLetters \in Nat /\ p = PackLetters - 0 - s /\ p > 0
  BY <1>1, PaidIs, FiguresAre
<1>3. p \in 0..PackLetters
  <2> HIDE DEF s, p
  <2> QED BY <1>2
<1>4. UNCHANGED <<order, left, spent, taken, back, money, row, alert, unmatched>>
  BY <1>1 DEF rows
<1>5. OneRefunder => rest' + back <= PackLetters /\ order # "refunded"
  <2> SUFFICES ASSUME OneRefunder PROVE rest' + back <= PackLetters /\ order # "refunded"
    OBVIOUS
  <2>1. /\ order = "fulfilled" /\ \A c \in Commands : row[c].status \notin UnderWay
        /\ \A c \in Commands : row[c].status = "succeeded" => IsLive(row[c].refund)
    BY DEF RefundRest
  <2> DEFINE f == [c \in Commands |-> Counts(row, c, Taken)]
             z == [c \in Commands |-> 0]
  <2>2. \A c \in Commands : f[c] <= Paid[c] + z[c]
    <3> SUFFICES ASSUME NEW c \in Commands PROVE Counts(row, c, Taken) <= Paid[c] + 0
      OBVIOUS
    <3>1. row[c].letters \in Nat /\ Paid[c] \in Nat
      BY FiguresAre, PaidIs
    <3>2. CASE row[c].status \in Taken
      <4>1. row[c].status = "succeeded"
        BY <2>1, <3>2 DEF Taken, IInv, RowsInv, RowInv
      <4>2. row[c].refund = <<c, 1>>
        BY <2>1, <4>1, PaidIs DEF IInv, RowsInv, RowInv, RefundsOf
      <4>3. Paid[c] = row[c].letters
        BY <2>1, <4>1, <4>2 DEF Paid
      <4> QED BY <3>1, <3>2, <4>3 DEF Counts
    <3>3. CASE row[c].status \notin Taken
      BY <3>1, <3>3 DEF Counts
    <3> QED BY <3>2, <3>3
  <2>3. SumFunctionOnSet(f, Commands) <= s + SumFunctionOnSet(z, Commands)
    <3>1. f \in [Commands -> Nat] /\ z \in [Commands -> Nat] /\ Paid \in [Commands -> Nat]
      BY FiguresAre, PaidIs, CountType
    <3> HIDE DEF f, z
    <3> QED BY <2>2, <3>1, PackRefundAssumption, SumSplits
  <2>4. SumFunctionOnSet(z, Commands) = 0
    BY PackRefundAssumption, SumZero
  <2>5. back = SumFunctionOnSet(f, Commands)
    BY DEF IInv, RowsInv, BookInv, Count
  <2>6. back <= s + 0 /\ back \in Nat
    BY <2>3, <2>4, <2>5, FiguresAre
  <2>7. p + back <= PackLetters
    <3> HIDE DEF s, p
    <3> QED BY <1>2, <2>6
  <2> QED BY <2>1, <2>7
<1>6. CapInv'
  BY <1>4, <1>5 DEF CapInv
<1>7. RowsType' /\ RowInv'
  BY <1>1, <1>4 DEF IInv, RowsInv, RowsType, RowInv, Row, RefundsOf
<1>8. BookInv'
  BY <1>4 DEF IInv, RowsInv, BookInv, Count, Counts
<1>9. StripeInv'
  BY <1>1, <1>3 DEF IInv, StripeInv, Refunds, NoRefund
<1>10. AskInv'
  <2> SUFFICES ASSUME NEW w \in Workers PROVE Sound(worker[w])'
    BY <1>1 DEF IInv, AskInv, Work, Refunds, NoRefund
  <2>1. Sound(worker[w])
    BY DEF IInv, AskInv
  <2> QED BY <1>1, <1>4, <2>1 DEF Sound, RefundsOf
<1> QED BY <1>6, <1>7, <1>8, <1>9, <1>10 DEF IInv, RowsInv

-----------------------------------------------------------------------------
LEMMA InitInv == Init => IInv
<1> SUFFICES ASSUME Init PROVE IInv
  OBVIOUS
<1>1. PackLetters \in Nat /\ 0 \in 0..PackLetters /\ PackLetters \in 0..PackLetters /\ 0 \in 0..AttemptLimit
      /\ PackLetters + 0 + 0 + 0 = PackLetters
  BY PackRefundAssumption
<1>2. row \in [Commands -> Row] /\ \A c \in Commands : row[c].status = "none"
  BY <1>1 DEF Init, Row, RowStatus, NoRefund
<1>3. ASSUME NEW S, "none" \notin S PROVE Count(row, S) = 0
  <2>1. [c \in Commands |-> Counts(row, c, S)] = [c \in Commands |-> 0]
    BY <1>2, <1>3 DEF Counts
  <2> QED BY <2>1, PackRefundAssumption, SumZero DEF Count
<1>4. Count(row, Taken) = 0 /\ Count(row, {"succeeded"}) = 0
  BY <1>3 DEF Taken, UnderWay
<1>5. RowsType
  BY <1>1, <1>2 DEF Init, RowsType
<1>6. BookInv
  BY <1>1, <1>4 DEF Init, BookInv
<1>7. RowInv
  <2>1. \A c \in Commands : had[<<c, 1>>] = {}
    BY DEF Init, Refunds
  <2> QED BY <1>2, <2>1 DEF RowInv
<1>8. CapInv
  BY <1>1 DEF Init, CapInv
<1>9. StripeInv
  BY <1>1 DEF Init, StripeInv, Refunds
<1>10. AskInv
  BY DEF Init, AskInv, Idle, Work, Sound
<1> QED BY <1>5, <1>6, <1>7, <1>8, <1>9, <1>10 DEF IInv, RowsInv

LEMMA NextInv == IInv /\ [Next]_vars => IInv'
<1> SUFFICES ASSUME IInv, [Next]_vars PROVE IInv'
  OBVIOUS
<1>1. CASE \E w \in Workers : WorkerStep(w)
  <2>1. PICK w \in Workers : WorkerStep(w)
    BY <1>1
  <2>2. CASE \E r \in Refunds, s \in {"pending", "succeeded"}, heard \in BOOLEAN : StripeMakes(w, r, s, heard)
    BY <2>2, StripeMakesStep
  <2>3. CASE StripeRepeats(w)
    BY <2>3, StripeRepeatsStep
  <2>4. CASE \E how \in {"refused", "unclear"} : StripeFails(w, how)
    BY <2>4, StripeFailsStep
  <2>5. CASE Finalize(w)
    BY <2>5, FinalizeStep
  <2>6. CASE HandleRefusal(w) \/ SweepGivesUp(w)
    BY <2>6, CompensateIfWaitingStep DEF HandleRefusal, SweepGivesUp
  <2>7. CASE HandleUnclear(w)
    BY <2>7, HandleUnclearStep
  <2>8. CASE SweepWaits(w)
    BY <2>8, SweepWaitsStep
  <2> QED BY <2>1, <2>2, <2>3, <2>4, <2>5, <2>6, <2>7, <2>8 DEF WorkerStep
<1>2. CASE \E w \in Workers : Crash(w)
  BY <1>2, CrashStep
<1>3. CASE \E w \in Workers, c \in Commands : Sweep(w, c)
  BY <1>3, SweepListsStep, SweepCannotListStep, SweepPendingStep DEF Sweep
<1>4. CASE \E w \in Workers, c \in Commands, n \in 1..PackLetters : RefundPackLetters(w, c, n)
  BY <1>4, RefundPackLettersStep
<1>5. CASE \E c \in Commands, r \in Refunds, s \in {"pending", "succeeded", "failed"} : RefundEvent(c, r, s)
  BY <1>5, RefundEventStep
<1>6. CASE \E S \in SUBSET Refunds, all \in BOOLEAN : ChargeEvent(S, all)
  BY <1>6, ChargeEventStep
<1>7. CASE RestEvent \/ Dispute \/ Send \/ RefundRest
  BY <1>7, RestEventStep, DisputeStep, SendStep, RefundRestStep
<1>8. CASE \E r \in Refunds, s \in {"succeeded", "failed"} : StripeMoves(r, s)
  BY <1>8, StripeMovesStep
<1>9. CASE \E c \in Commands : KeyExpires(c) \/ DayPasses(c)
  BY <1>9, KeyExpiresStep, DayPassesStep
<1>10. CASE UNCHANGED vars
  <2>1. UNCHANGED <<rows, aged, stripe, worker>>
    BY <1>10 DEF vars, rows, stripe
  <2>2. aged' \subseteq Commands
    BY <2>1 DEF IInv, RowsInv, RowsType
  <2> QED BY <2>1, <2>2, Turns
<1> QED BY <1>1, <1>2, <1>3, <1>4, <1>5, <1>6, <1>7, <1>8, <1>9, <1>10 DEF Next

LEMMA Invariant == Spec => []IInv
BY InitInv, NextInv, PTL DEF Spec

-----------------------------------------------------------------------------
LEMMA BooksFollow == IInv => BooksAgree
<1> SUFFICES ASSUME IInv PROVE BooksAgree
  OBVIOUS
<1>1. row \in [Commands -> Row]
  BY FiguresAre
<1>2. TypeOK
  BY <1>1 DEF IInv, RowsInv, RowsType, StripeInv, AskInv, Work, Row, TypeOK
<1>3. SumLetters({c \in Commands : row[c].status \in Taken}) = Count(row, Taken)
      /\ SumLetters({c \in Commands : row[c].status \in {"succeeded"}}) = Count(row, {"succeeded"})
  <2>1. CountIsSum(Taken) /\ CountIsSum({"succeeded"})
    BY <1>1, CountIs
  <2> QED BY <2>1 DEF CountIsSum
<1>4. {c \in Commands : row[c].status \in Taken} = {c \in Commands : row[c].status \notin {"none", "compensated"}}
  <2>1. \A c \in Commands : row[c].status \in RowStatus
    BY <1>1 DEF Row
  <2> QED BY <2>1 DEF RowStatus, Taken, UnderWay
<1>5. {c \in Commands : row[c].status \in {"succeeded"}} = {c \in Commands : row[c].status = "succeeded"}
  OBVIOUS
<1>6. LettersAddUp
  BY <1>3, <1>4 DEF LettersAddUp, IInv, RowsInv, BookInv
<1>7. MoneyAddsUp
  BY <1>3, <1>5 DEF MoneyAddsUp, IInv, RowsInv, BookInv
<1> QED BY <1>2, <1>6, <1>7 DEF BooksAgree

\* In every state each letter of the pack is in one place, and the order counts as refunded,
\* in letters and in money, exactly what its commands took and paid: for any number of
\* commands, whatever the order of answers, webhooks, disputes and crashes.
THEOREM BooksAlwaysAgree == Spec => []BooksAgree
BY Invariant, BooksFollow, PTL

\* Stripe pays no command twice, whoever uses the dashboard: a request is repeated only under
\* the key of the first, or when Stripe holds no refund of the command.
THEOREM NoCommandPaysTwice == Spec => []PaidOnce
<1>1. IInv => PaidOnce
  BY PaidIs DEF PaidOnce
<1> QED BY <1>1, Invariant, PTL

LEMMA NothingTwice == IInv /\ OneRefunder => MoneyOrLetters
<1> SUFFICES ASSUME IInv, OneRefunder PROVE MoneyOrLetters
  OBVIOUS
<1>1. PaidOnce
  BY PaidIs DEF PaidOnce
<1>2. NeverBoth
  <2> DEFINE both == {c \in Commands : row[c].status = "compensated" /\ \E r \in RefundsOf(c) : IsLive(r)}
             f == [c \in Commands |-> Counts(row, c, Taken)]
             l == [c \in Commands |-> Letters(c)]
             g == [c \in Commands |-> IF c \in both THEN l[c] ELSE 0]
             s == SumFunctionOnSet(Paid, Commands)
             t == SumFunctionOnSet(f, Commands)
             u == SumFunctionOnSet(g, Commands)
  <2> SUFFICES ASSUME order = "refunded" PROVE left <= Unrefunded + SumLetters(both)
    BY DEF NeverBoth
  <2>1. f \in [Commands -> Nat] /\ l \in [Commands -> Nat] /\ Paid \in [Commands -> Nat]
    BY FiguresAre, PaidIs, CountType DEF Letters
  <2>2. g \in [Commands -> Nat]
    <3> HIDE DEF l, both
    <3> QED BY <2>1
  <2>3. \A c \in Commands : Paid[c] <= f[c] + g[c]
    <3> SUFFICES ASSUME NEW c \in Commands PROVE Paid[c] <= f[c] + g[c]
      OBVIOUS
    <3>1. row[c].letters \in Nat /\ f[c] \in Nat /\ g[c] \in Nat
      BY <2>1, <2>2, FiguresAre
    <3>2. CASE ~IsLive(<<c, 1>>)
      <4>1. Paid[c] = 0
        BY <3>2 DEF Paid
      <4> HIDE DEF f, g
      <4> QED BY <3>1, <4>1
    <3>3. CASE IsLive(<<c, 1>>) /\ row[c].status \in Taken
      <4>1. Paid[c] = row[c].letters /\ f[c] = row[c].letters
        BY <3>3 DEF Paid, Counts
      <4> HIDE DEF f, g
      <4> QED BY <3>1, <4>1
    <3>4. CASE IsLive(<<c, 1>>) /\ row[c].status = "compensated"
      <4>1. c \in both
        BY <3>4 DEF RefundsOf
      <4>2. Paid[c] = row[c].letters /\ g[c] = row[c].letters
        BY <3>4, <4>1 DEF Paid, Letters
      <4> HIDE DEF f, g
      <4> QED BY <3>1, <4>2
    <3> QED BY <3>2, <3>3, <3>4, PaidIs
  <2>4. s <= t + u
    <3> HIDE DEF f, g
    <3> QED BY <2>1, <2>2, <2>3, PackRefundAssumption, SumSplits
  <2>5. back = t
    BY DEF IInv, RowsInv, BookInv, Count
  <2>6. SumLetters(both) = u
    <3>1. both \in SUBSET Commands
      OBVIOUS
    <3>2. SumFunctionOnSet(l, both) =
            SumFunctionOnSet([c \in Commands |-> IF c \in both THEN l[c] ELSE 0], Commands)
      <4> HIDE DEF l, both
      <4> QED BY <2>1, <3>1, PackRefundAssumption, SumFilters
    <3> QED BY <3>2 DEF SumLetters
  <2>7. s \in Nat /\ t \in Nat /\ u \in Nat
    <3> HIDE DEF f, g
    <3> QED BY <2>1, <2>2, PackRefundAssumption, SumTypes
  <2>8. left + rest + back <= PackLetters
    BY DEF IInv, RowsInv, CapInv
  <2>9. Unrefunded = PackLetters - rest - s
    BY PaidIs
  <2> DEFINE o == SumLetters(both)
  <2>10. o = u
    BY <2>6
  <2> HIDE DEF s, t, u, o
  <2>11. left \in Nat /\ rest \in Nat /\ PackLetters \in Nat
    BY FiguresAre
  <2>12. left <= (PackLetters - rest - s) + u
    BY <2>4, <2>5, <2>7, <2>8, <2>11
  <2> QED BY <2>9, <2>10, <2>12 DEF o
<1> QED BY <1>1, <1>2 DEF MoneyOrLetters

\* Where operators keep the dashboard's refunds apart from the commands', money goes back
\* once: no command pays twice, and no letter of a payment that all went back is left to
\* spend but those of refunds the bank returned and of commands that are told as both.
THEOREM MoneyGoesBackOnce == ASSUME OneRefunder PROVE Spec => []MoneyOrLetters
<1>1. IInv => MoneyOrLetters
  BY NothingTwice
<1> QED BY <1>1, Invariant, PTL

-----------------------------------------------------------------------------
(* The ledger.  Its sums are those above. *)

LEMMA SameSum == ASSUME NEW f, NEW S PROVE SumOf(f, S) = SumFunctionOnSet(f, S)
BY DEF SumOf

Lot == [remaining : Nat, pack : Packs \cup {NoPack}, source : Source, expires : Nat, from : Nat,
        letter : Sends \cup {NoLetter}, status : LotStatus,
        takenBy : Disputes \cup {"refund", NoDispute}, held : Nat]

LedgerTypes ==
    /\ lots \in Seq(Lot) /\ Len(lots) <= MaxLots
    /\ credits \in Nat /\ unfixed \in Nat \cup {NothingRead}
    /\ send \in [Sends -> [state : SendState, took : [1..MaxLots -> 0..Cost]]]
    /\ orders \in [Packs -> OrderStatus]
    /\ refundedAt \subseteq Packs
    /\ dispute \in [Disputes -> DisputeStatus]
    /\ clock \in 0..Never

\* What a lot's columns say of each other, and of its pack's order.
LotInv(i) ==
    /\ lots[i].from < i
    /\ (lots[i].status \in {"revoked", "depleted"}) <=> (lots[i].remaining = 0)
    /\ lots[i].held # 0 => lots[i].status = "revoked"
    /\ lots[i].status = "expired" => Past(lots[i])
    /\ lots[i].expires = (IF lots[i].pack = NoPack THEN PromoExpiry ELSE PackExpiry)
    /\ lots[i].letter # NoLetter => lots[i].source = "send_failed"
    /\ lots[i].takenBy \in Disputes => lots[i].pack = DisputedPack[lots[i].takenBy]
    /\ lots[i].pack # NoPack => /\ orders[lots[i].pack] # "paid"
                                /\ orders[lots[i].pack] = "refunded" => lots[i].status = "revoked"

LotsInv == \A i \in LotIds : LotInv(i)

\* Deductions name lots there are.
TookInv == \A l \in Sends, i \in 1..MaxLots : send[l].took[i] # 0 => i \in LotIds

\* What a lot still stands for: what is left on it, or was when it was taken, until made good.
Owed(i) == IF \E j \in LotIds : lots[j].from = i /\ lots[j].source = "dispute_won" THEN 0 ELSE lots[i].held

Worth(p) == [i \in LotIds |-> IF lots[i].pack = p THEN lots[i].remaining + Owed(i) ELSE 0]

\* What a letter took of a pack and did not get back.
TookOf(l, p) ==
    [i \in LotIds |-> IF lots[i].pack = p /\ ~\E j \in LotIds : lots[j].from = i /\ lots[j].letter = l
                      THEN send[l].took[i] ELSE 0]

Outside(p) == [l \in Sends |-> SumFunctionOnSet(TookOf(l, p), LotIds)]

Bought(p) == SumFunctionOnSet(Worth(p), LotIds) + SumFunctionOnSet(Outside(p), Sends) <= PackCredits

LedgerInv == LedgerTypes /\ LotsInv /\ TookInv /\ \A p \in Packs : Bought(p)

LotsTyped ==
    /\ LotIds = 1..Len(lots) /\ Len(lots) \in Nat /\ IsFiniteSet(LotIds)
    /\ \A i \in LotIds : lots[i] \in Lot

LEMMA LotFacts == LedgerTypes => LotsTyped
<1> SUFFICES ASSUME LedgerTypes PROVE LotsTyped
  OBVIOUS
<1>1. LotIds = 1..Len(lots) /\ Len(lots) \in Nat /\ \A i \in LotIds : lots[i] \in Lot
  BY DEF LedgerTypes, LotIds
<1>2. IsFiniteSet(1..Len(lots))
  BY <1>1, FS_Interval
<1> QED BY <1>1, <1>2 DEF LotsTyped

LEMMA ConstantFacts ==
    /\ IsFiniteSet(Sends)
    /\ "none" \notin Sends \cup Packs \cup Disputes /\ "refund" \notin Disputes
    /\ DisputedPack \in [Disputes -> Packs]
    /\ PackCredits \in Nat /\ PackCredits > 0 /\ PromoCredits \in Nat /\ PromoCredits > 0
    /\ Cost \in Nat /\ Cost > 0 /\ MaxLots \in Nat /\ MaxLots > 0
    /\ Never \in Nat /\ Never > 0
    /\ PackExpiry \in 1..Never /\ PromoExpiry \in 1..Never
BY LedgerAssumption

Valued(p) ==
    /\ Worth(p) \in [LotIds -> Nat] /\ \A l \in Sends : TookOf(l, p) \in [LotIds -> Nat]
    /\ Outside(p) \in [Sends -> Nat]

LEMMA ValuesAre == LedgerTypes => \A p \in Packs : Valued(p)
<1> SUFFICES ASSUME LedgerTypes, NEW p \in Packs PROVE Valued(p)
  OBVIOUS
<1>1. /\ LotIds = 1..Len(lots) /\ Len(lots) \in Nat /\ IsFiniteSet(LotIds)
      /\ \A i \in LotIds : lots[i] \in Lot
  BY LotFacts DEF LotsTyped
<1>2. Worth(p) \in [LotIds -> Nat]
  <2>1. \A i \in LotIds : lots[i].remaining \in Nat /\ lots[i].held \in Nat
    BY <1>1 DEF Lot
  <2>2. \A i \in LotIds : Owed(i) \in Nat
    BY <2>1 DEF Owed
  <2>3. \A i \in LotIds : (IF lots[i].pack = p THEN lots[i].remaining + Owed(i) ELSE 0) \in Nat
    BY <2>1, <2>2
  <2> QED BY <2>3 DEF Worth
<1>3. ASSUME NEW l \in Sends PROVE TookOf(l, p) \in [LotIds -> Nat]
  <2>1. \A i \in LotIds : send[l].took[i] \in Nat
    <3>1. MaxLots \in Nat /\ Cost \in Nat
      BY ConstantFacts
    <3>2. send[l].took \in [1..MaxLots -> 0..Cost]
      BY DEF LedgerTypes
    <3>3. \A i \in LotIds : i \in 1..MaxLots
      BY <1>1, <3>1 DEF LedgerTypes
    <3> QED BY <3>1, <3>2, <3>3
  <2> QED BY <2>1 DEF TookOf
<1>4. \A l \in Sends : SumFunctionOnSet(TookOf(l, p), LotIds) \in Nat
  BY <1>1, <1>3, SumTypes
<1> QED BY <1>2, <1>3, <1>4 DEF Outside, Valued

\* The same of the next state.
LEMMA NextFacts ==
    ASSUME LedgerTypes'
    PROVE  LotsTyped' /\ \A p \in Packs : Valued(p)'
<1>1. LedgerTypes' => LotsTyped'
  BY LotFacts, PTL
<1>2. LedgerTypes' => (\A p \in Packs : Valued(p))'
  BY ValuesAre, PTL
<1> QED BY <1>1, <1>2

\* What a step that makes no pack worth more does to what was bought.
LEMMA BoughtFalls ==
    ASSUME LedgerTypes, LedgerTypes', NEW p \in Packs, Bought(p),
           \A i \in LotIds' : Worth(p)'[i] # 0 => i \in LotIds /\ Worth(p)'[i] <= Worth(p)[i],
           \A l \in Sends : Outside(p)'[l] <= Outside(p)[l]
    PROVE  Bought(p)'
<1>1. LotsTyped /\ LotsTyped' /\ Valued(p) /\ Valued(p)'
  BY LotFacts, ValuesAre, NextFacts
<1>2. IsFiniteSet(Sends) /\ PackCredits \in Nat
  BY ConstantFacts
<1> DEFINE w == Worth(p)
           v == Worth(p)'
           o == Outside(p)
           n == Outside(p)'
           D == LotIds
           E == LotIds'
<1>3. /\ w \in [D -> Nat] /\ v \in [E -> Nat] /\ o \in [Sends -> Nat] /\ n \in [Sends -> Nat]
      /\ IsFiniteSet(D) /\ IsFiniteSet(E)
  BY <1>1 DEF Valued, LotsTyped
<1>4. /\ \A i \in E : v[i] # 0 => i \in D /\ v[i] <= w[i]
      /\ \A l \in Sends : n[l] <= o[l]
  OBVIOUS
<1>5. SumFunctionOnSet(w, D) + SumFunctionOnSet(o, Sends) <= PackCredits
  BY DEF Bought
<1> HIDE DEF w, v, o, n, D, E
<1>6. SumFunctionOnSet(v, E) <= SumFunctionOnSet(w, D)
  BY <1>3, <1>4, SumWithin
<1>7. SumFunctionOnSet(n, Sends) <= SumFunctionOnSet(o, Sends)
  BY <1>2, <1>3, <1>4, SumWithin
<1>8. /\ SumFunctionOnSet(w, D) \in Nat /\ SumFunctionOnSet(v, E) \in Nat
      /\ SumFunctionOnSet(o, Sends) \in Nat /\ SumFunctionOnSet(n, Sends) \in Nat
  BY <1>2, <1>3, SumTypes
<1>9. SumFunctionOnSet(v, E) + SumFunctionOnSet(n, Sends) <= PackCredits
  BY <1>2, <1>5, <1>6, <1>7, <1>8
<1> QED BY <1>9 DEF Bought, v, n, E

\* Lots are never deleted, nor told of another pack, letter or origin.
LotsStay ==
    \A i \in LotIds : /\ i \in LotIds'
                      /\ lots'[i].pack = lots[i].pack /\ lots'[i].letter = lots[i].letter
                      /\ lots'[i].from = lots[i].from /\ lots'[i].source = lots[i].source

LEMMA OutsideFalls ==
    ASSUME LedgerTypes, LedgerTypes', TookInv, LotsStay,
           NEW p \in Packs, NEW l \in Sends, send'[l].took = send[l].took
    PROVE  Outside(p)'[l] <= Outside(p)[l]
<1>1. LotsTyped /\ LotsTyped' /\ Valued(p) /\ Valued(p)'
  BY LotFacts, ValuesAre, NextFacts
<1>2. ASSUME NEW i \in LotIds', TookOf(l, p)'[i] # 0
      PROVE  i \in LotIds /\ TookOf(l, p)'[i] <= TookOf(l, p)[i]
  <2>1. /\ lots'[i].pack = p /\ TookOf(l, p)'[i] = send'[l].took[i]
        /\ ~\E j \in LotIds' : lots'[j].from = i /\ lots'[j].letter = l
    BY <1>2 DEF TookOf
  <2>2. i \in LotIds
    <3>1. i \in 1..MaxLots
      <4>1. MaxLots \in Nat /\ Len(lots') <= MaxLots
        BY ConstantFacts DEF LedgerTypes
      <4> QED BY <1>1, <4>1 DEF LotsTyped
    <3>2. send[l].took[i] # 0
      BY <1>2, <2>1
    <3> QED BY <3>1, <3>2 DEF TookInv
  <2>3. lots[i].pack = p /\ ~\E j \in LotIds : lots[j].from = i /\ lots[j].letter = l
    BY <2>1, <2>2 DEF LotsStay
  <2>4. TookOf(l, p)[i] = send[l].took[i]
    BY <2>2, <2>3 DEF TookOf
  <2>5. TookOf(l, p)[i] \in Nat
    BY <1>1, <2>2 DEF Valued
  <2> QED BY <2>1, <2>2, <2>4, <2>5
<1> DEFINE f == TookOf(l, p)'
           g == TookOf(l, p)
           D == LotIds
           E == LotIds'
<1>3. /\ f \in [E -> Nat] /\ g \in [D -> Nat] /\ IsFiniteSet(D) /\ IsFiniteSet(E)
  BY <1>1 DEF Valued, LotsTyped
<1>4. \A i \in E : f[i] # 0 => i \in D /\ f[i] <= g[i]
  BY <1>2
<1>5. SumFunctionOnSet(f, E) <= SumFunctionOnSet(g, D)
  <2> HIDE DEF f, g, D, E
  <2> QED BY <1>3, <1>4, SumWithin
<1> QED BY <1>5 DEF Outside

OrdersAdvance ==
    \A p \in Packs : /\ orders'[p] = "paid" => orders[p] = "paid"
                     /\ orders'[p] = "refunded" => orders[p] = "refunded"

\* Time and the orders move on, and a lot is as sound as it was.
LEMMA LotStays ==
    ASSUME LedgerTypes, LedgerTypes', NEW i \in LotIds, LotInv(i), lots'[i] = lots[i],
           clock' >= clock, OrdersAdvance
    PROVE  LotInv(i)'
<1>1. lots[i] \in Lot /\ clock \in Nat /\ clock' \in Nat
  BY LotFacts, ConstantFacts DEF LotsTyped, LedgerTypes
<1>2. Past(lots[i]) => Past(lots[i])'
  <2>1. lots[i].expires \in Nat
    BY <1>1 DEF Lot
  <2> QED BY <1>1, <2>1 DEF Past
<1>3. lots[i].pack # NoPack => lots[i].pack \in Packs
  BY <1>1 DEF Lot
<1> QED BY <1>2, <1>3 DEF LotInv, OrdersAdvance, Past

\* A step about no lot and no deduction.
LEMMA LedgerStays ==
    ASSUME LedgerInv, LedgerTypes', UNCHANGED lots, clock' >= clock, OrdersAdvance,
           \A l \in Sends : send'[l].took = send[l].took
    PROVE  LedgerInv'
<1>1. LedgerTypes /\ LotsTyped /\ LotsTyped'
  BY LotFacts, NextFacts DEF LedgerInv
<1>2. LotsStay /\ LotIds' = LotIds
  BY DEF LotsStay, LotIds
<1>3. LotsInv'
  <2> SUFFICES ASSUME NEW i \in LotIds PROVE LotInv(i)'
    BY <1>2 DEF LotsInv
  <2> QED BY <1>1, LotStays DEF LedgerInv, LotsInv
<1>4. TookInv'
  BY <1>2 DEF LedgerInv, TookInv
<1>5. ASSUME NEW p \in Packs PROVE Bought(p)'
  <2>1. \A l \in Sends : Outside(p)'[l] <= Outside(p)[l]
    BY <1>1, <1>2, OutsideFalls DEF LedgerInv
  <2>2. Worth(p)' = Worth(p)
    BY <1>2 DEF Worth, Owed, LotIds
  <2>3. \A i \in LotIds' : Worth(p)'[i] # 0 => i \in LotIds /\ Worth(p)'[i] <= Worth(p)[i]
    <3>1. \A i \in LotIds : Worth(p)[i] \in Nat
      BY <1>1, ValuesAre DEF Valued
    <3> QED BY <1>2, <2>2, <3>1
  <2> QED BY <1>1, <2>1, <2>3, BoughtFalls DEF LedgerInv
<1> QED BY <1>3, <1>4, <1>5 DEF LedgerInv

LEMMA FunctionIsSequence == ASSUME NEW T, NEW n \in Nat, NEW f \in [1..n -> T] PROVE f \in Seq(T) /\ Len(f) = n
OBVIOUS

LEMMA InPlace ==
    ASSUME LotsTyped, lots' = [i \in LotIds |-> lots'[i]], \A i \in LotIds : lots'[i] \in Lot
    PROVE  LotIds' = LotIds /\ lots' \in Seq(Lot) /\ Len(lots') = Len(lots)
<1> DEFINE n == Len(lots)
           f == lots'
<1>1. LotIds = 1..n /\ n \in Nat
  BY DEF LotsTyped
<1>2. f = [i \in 1..n |-> f[i]] /\ \A i \in 1..n : f[i] \in Lot
  BY <1>1
<1>3. LotIds' = DOMAIN f
  BY DEF LotIds
<1> HIDE DEF n, f
<1>4. f \in [1..n -> Lot]
  BY <1>2
<1>5. f \in Seq(Lot) /\ Len(f) = n
  BY <1>1, <1>4, FunctionIsSequence
<1>6. DOMAIN f = 1..n
  BY <1>4
<1> QED BY <1>1, <1>3, <1>5, <1>6 DEF f, n

LEMMA RemainingIs ==
    ASSUME LedgerTypes PROVE Remaining \in [LotIds -> Nat] /\ \A i \in LotIds : Remaining[i] = lots[i].remaining
BY LotFacts DEF LotsTyped, Remaining, Lot

\* What a deduction takes.
LEMMA TakeIs ==
    ASSUME LedgerTypes, NEW i \in LotIds
    PROVE  /\ Take(i) \in 0..Cost /\ Take(i) <= lots[i].remaining
           /\ Take(i) # 0 => IsSpendable(i)
<1> DEFINE earlier == {j \in LotIds : IsSpendable(j) /\ Before(j, i)}
           paid == SumFunctionOnSet(Remaining, earlier)
<1>1. paid \in Nat
  <2>1. IsFiniteSet(earlier) /\ earlier \in SUBSET LotIds
    BY LotFacts, FS_Subset DEF LotsTyped
  <2> QED BY <2>1, RemainingIs, SumTypes
<1>2. SumOf(Remaining, earlier) = paid
  BY SameSum
<1>3. lots[i].remaining \in Nat /\ Cost \in Nat
  BY LotFacts, ConstantFacts DEF LotsTyped, Lot
<1>4. Take(i) = IF ~IsSpendable(i) \/ Cost - paid <= 0 THEN 0
                ELSE IF Cost - paid < lots[i].remaining THEN Cost - paid ELSE lots[i].remaining
  BY <1>2 DEF Take
<1> HIDE DEF earlier, paid
<1> QED BY <1>1, <1>3, <1>4

\* A step that rewrites lots in place, and no deduction.
LEMMA RewriteStep ==
    ASSUME LedgerInv, LedgerTypes', LotIds' = LotIds,
           \A l \in Sends : send'[l].took = send[l].took,
           LotsStay, LotsInv',
           \A i \in LotIds : lots'[i].remaining + lots'[i].held <= lots[i].remaining + lots[i].held,
           \A i \in LotIds : lots'[i].held # lots[i].held => lots[i].held = 0
    PROVE  LedgerInv'
<1>1. LedgerTypes /\ LotsTyped /\ LotsTyped'
  BY LotFacts, NextFacts DEF LedgerInv
<1>2. TookInv'
  BY DEF LedgerInv, TookInv
<1>3. ASSUME NEW p \in Packs PROVE Bought(p)'
  <2>1. \A l \in Sends : Outside(p)'[l] <= Outside(p)[l]
    BY <1>1, OutsideFalls DEF LedgerInv
  <2>2. ASSUME NEW i \in LotIds PROVE Worth(p)'[i] <= Worth(p)[i]
    <3>1. /\ lots[i].remaining \in Nat /\ lots[i].held \in Nat
          /\ lots'[i].remaining \in Nat /\ lots'[i].held \in Nat
      BY <1>1 DEF LotsTyped, Lot
    <3>2. (Owed(i) = 0 /\ Owed(i)' = 0) \/ (Owed(i) = lots[i].held /\ Owed(i)' = lots'[i].held)
      BY DEF Owed, LotsStay
    <3>3. lots'[i].remaining + Owed(i)' <= lots[i].remaining + Owed(i)
      BY <3>1, <3>2
    <3>4. lots'[i].pack = lots[i].pack
      BY DEF LotsStay
    <3> QED BY <3>3, <3>4 DEF Worth
  <2> QED BY <1>1, <2>1, <2>2, BoughtFalls DEF LedgerInv
<1> QED BY <1>2, <1>3 DEF LedgerInv

LEMMA MarkExpiredStep == ASSUME LedgerInv, MarkExpired PROVE LedgerInv'
<1>1. LedgerTypes /\ LotsTyped
  BY LotFacts DEF LedgerInv
<1> DEFINE Marked(i) == lots[i].status = "active" /\ Past(lots[i]) /\ lots[i].remaining > 0
<1>2. /\ lots' = [i \in LotIds |-> IF Marked(i) THEN [lots[i] EXCEPT !.status = "expired"] ELSE lots[i]]
      /\ UNCHANGED <<refundedAt, credits, send, orders, dispute, clock, unfixed>>
  BY DEF MarkExpired
<1>3. \A i \in LotIds : /\ lots'[i] \in Lot /\ lots'[i].remaining = lots[i].remaining
                        /\ lots'[i].held = lots[i].held /\ lots'[i].takenBy = lots[i].takenBy
                        /\ lots'[i].pack = lots[i].pack /\ lots'[i].letter = lots[i].letter
                        /\ lots'[i].from = lots[i].from /\ lots'[i].source = lots[i].source
                        /\ lots'[i].expires = lots[i].expires
                        /\ ~Marked(i) => lots'[i] = lots[i]
                        /\ Marked(i) => lots'[i].status = "expired"
  BY <1>1, <1>2 DEF LotsTyped, Lot, LotStatus
<1>m. \A i \in LotIds : Marked(i) => lots[i].status = "active" /\ Past(lots[i]) /\ lots[i].remaining > 0
  OBVIOUS
<1> HIDE DEF Marked
<1>4. LotIds' = LotIds /\ lots' \in Seq(Lot) /\ Len(lots') = Len(lots)
  <2>1. lots' = [i \in LotIds |-> lots'[i]]
    BY <1>2
  <2>2. \A i \in LotIds : lots'[i] \in Lot
    BY <1>3
  <2> QED BY <1>1, <2>1, <2>2, InPlace
<1>n. LotIds' = LotIds
  BY <1>4
<1>5. LedgerTypes'
  BY <1>1, <1>2, <1>4 DEF LedgerTypes
<1>6. LotsStay
  BY <1>3, <1>n DEF LotsStay
<1>7. LotsInv'
  <2> SUFFICES ASSUME NEW i \in LotIds PROVE LotInv(i)'
    BY <1>4 DEF LotsInv
  <2>1. LotInv(i)
    BY DEF LedgerInv, LotsInv
  <2>2. Past(lots[i])' <=> Past(lots[i])
    BY <1>2, <1>3 DEF Past
  <2>3. CASE Marked(i)
    <3>1. lots'[i].status = "expired" /\ lots[i].status = "active" /\ Past(lots[i])
      BY <1>3, <1>m, <2>3
    <3>2. /\ lots'[i].remaining = lots[i].remaining /\ lots'[i].held = lots[i].held
          /\ lots'[i].takenBy = lots[i].takenBy /\ lots'[i].expires = lots[i].expires
          /\ lots'[i].pack = lots[i].pack /\ lots'[i].letter = lots[i].letter
          /\ lots'[i].from = lots[i].from /\ lots'[i].source = lots[i].source
      BY <1>3
    <3>3. orders' = orders
      BY <1>2
    <3> QED BY <2>1, <2>2, <3>1, <3>2, <3>3 DEF LotInv
  <2>4. CASE ~Marked(i)
    BY <1>2, <1>3, <2>1, <2>2, <2>4 DEF LotInv
  <2> QED BY <2>3, <2>4
<1>8. /\ \A l \in Sends : send'[l].took = send[l].took
      /\ \A i \in LotIds : lots'[i].remaining + lots'[i].held <= lots[i].remaining + lots[i].held
      /\ \A i \in LotIds : lots'[i].held # lots[i].held => lots[i].held = 0
  BY <1>1, <1>2, <1>3 DEF LotsTyped, Lot
<1> QED BY <1>4, <1>5, <1>6, <1>7, <1>8, RewriteStep

\* Taking a pack back moves what was left on its lots to what they held, for whoever took it.
LEMMA RevokeStep ==
    ASSUME LedgerInv, NEW p \in Packs, NEW by \in Disputes \cup {"refund"},
           by \in Disputes => p = DisputedPack[by],
           RevokeWholePack(p, by), orders[p] # "paid",
           NEW s \in {"refunded", "disputed"}, orders' = [orders EXCEPT ![p] = s],
           refundedAt' \subseteq Packs, dispute' \in [Disputes -> DisputeStatus],
           UNCHANGED <<send, clock, unfixed>>
    PROVE  LedgerInv'
<1>1. LedgerTypes /\ LotsTyped
  BY LotFacts DEF LedgerInv
<1>2. lots' = [i \in LotIds |-> IF i \in LotsOf(p)
                                THEN [lots[i] EXCEPT !.remaining = 0, !.status = "revoked", !.takenBy = by,
                                                     !.held = lots[i].remaining]
                                ELSE lots[i]]
  BY DEF RevokeWholePack
<1>3. ASSUME NEW i \in LotIds
      PROVE  /\ i \in LotsOf(p) => /\ lots'[i].remaining = 0 /\ lots'[i].held = lots[i].remaining
                                    /\ lots'[i].status = "revoked" /\ lots'[i].takenBy = by
             /\ i \notin LotsOf(p) => lots'[i] = lots[i]
             /\ lots'[i].pack = lots[i].pack /\ lots'[i].letter = lots[i].letter
             /\ lots'[i].from = lots[i].from /\ lots'[i].source = lots[i].source
             /\ lots'[i].expires = lots[i].expires /\ lots'[i] \in Lot
  <2> DEFINE x == lots[i]
             y == lots'[i]
  <2>1. /\ x \in Lot
        /\ i \in LotsOf(p) => y = [x EXCEPT !.remaining = 0, !.status = "revoked", !.takenBy = by,
                                            !.held = x.remaining]
        /\ i \notin LotsOf(p) => y = x
    BY <1>1, <1>2 DEF LotsTyped
  <2> HIDE DEF x, y
  <2>2. CASE i \in LotsOf(p)
    <3>1. y = [x EXCEPT !.remaining = 0, !.status = "revoked", !.takenBy = by, !.held = x.remaining]
      BY <2>1, <2>2
    <3>2. /\ y.remaining = 0 /\ y.held = x.remaining /\ y.status = "revoked" /\ y.takenBy = by
          /\ y.pack = x.pack /\ y.letter = x.letter /\ y.from = x.from /\ y.source = x.source
          /\ y.expires = x.expires /\ y \in Lot
      BY ONLY <2>1, <3>1, by \in Disputes \cup {"refund"} DEF Lot, LotStatus
    <3> QED BY <2>2, <3>2 DEF x, y
  <2>3. CASE i \notin LotsOf(p)
    BY <2>1, <2>3 DEF x, y
  <2> QED BY <2>2, <2>3
<1>4. LotIds' = LotIds /\ lots' \in Seq(Lot) /\ Len(lots') = Len(lots)
  <2>1. lots' = [i \in LotIds |-> lots'[i]]
    BY <1>2
  <2>2. \A i \in LotIds : lots'[i] \in Lot
    BY <1>3
  <2> QED BY <1>1, <2>1, <2>2, InPlace
<1>n. LotIds' = LotIds
  BY <1>4
<1>5. LedgerTypes'
  <2>1. credits' \in Nat
    <3>1. credits' = Floor(credits - SumOf(Remaining, LotsOf(p)))
      BY DEF RevokeWholePack
    <3>2. IsFiniteSet(LotsOf(p)) /\ LotsOf(p) \in SUBSET LotIds
      BY <1>1, FS_Subset DEF LotsTyped, LotsOf
    <3>3. SumOf(Remaining, LotsOf(p)) \in Nat
      BY <1>1, <3>2, RemainingIs, SameSum, SumTypes
    <3>4. credits \in Nat
      BY <1>1 DEF LedgerTypes
    <3> QED BY <3>1, <3>3, <3>4 DEF Floor
  <2>2. orders' \in [Packs -> OrderStatus]
    BY <1>1 DEF LedgerTypes, OrderStatus
  <2> QED BY <1>1, <1>4, <2>1, <2>2 DEF LedgerTypes
<1>6. LotsStay
  BY <1>3, <1>n DEF LotsStay
<1>7. LotsInv'
  <2> SUFFICES ASSUME NEW i \in LotIds PROVE LotInv(i)'
    BY <1>n DEF LotsInv
  <2>1. LotInv(i) /\ lots[i] \in Lot
    BY <1>1 DEF LedgerInv, LotsInv, LotsTyped
  <2>2. Past(lots[i])' <=> Past(lots[i])
    BY <1>3 DEF Past
  <2>3. \A q \in Packs : orders'[q] = IF q = p THEN s ELSE orders[q]
    BY <1>1 DEF LedgerTypes
  <2>4. p # NoPack
    BY ConstantFacts DEF NoPack
  <2>5. CASE i \in LotsOf(p)
    <3>1. /\ lots'[i].remaining = 0 /\ lots'[i].status = "revoked" /\ lots'[i].takenBy = by
          /\ lots'[i].pack = lots[i].pack /\ lots'[i].letter = lots[i].letter
          /\ lots'[i].from = lots[i].from /\ lots'[i].source = lots[i].source
          /\ lots'[i].expires = lots[i].expires /\ lots[i].pack = p
      BY <1>3, <2>5 DEF LotsOf
    <3>2. orders'[p] # "paid"
      BY <2>3
    <3> QED BY <2>1, <3>1, <3>2 DEF LotInv
  <2>6. CASE i \notin LotsOf(p)
    <3>1. lots'[i] = lots[i] /\ (lots[i].pack = p => lots[i].status = "revoked")
      BY <1>3, <2>6 DEF LotsOf
    <3>2. lots[i].pack # NoPack => lots[i].pack \in Packs
      BY <2>1 DEF Lot
    <3> QED BY <2>1, <2>2, <2>3, <3>1, <3>2 DEF LotInv
  <2> QED BY <2>5, <2>6
<1>8. \A l \in Sends : send'[l].took = send[l].took
  OBVIOUS
<1>9. ASSUME NEW i \in LotIds
      PROVE  /\ lots'[i].remaining + lots'[i].held <= lots[i].remaining + lots[i].held
             /\ lots'[i].held # lots[i].held => lots[i].held = 0
  <2>1. LotInv(i) /\ lots[i].remaining \in Nat /\ lots[i].held \in Nat
    BY <1>1 DEF LedgerInv, LotsInv, LotsTyped, Lot
  <2>2. CASE i \in LotsOf(p)
    <3>1. lots[i].status # "revoked"
      BY <2>2 DEF LotsOf
    <3>2. lots[i].held = 0
      BY <2>1, <3>1 DEF LotInv
    <3>3. lots'[i].remaining = 0 /\ lots'[i].held = lots[i].remaining
      BY <1>3, <2>2
    <3> QED BY <2>1, <3>2, <3>3
  <2>3. CASE i \notin LotsOf(p)
    BY <1>3, <2>1, <2>3
  <2> QED BY <2>2, <2>3
<1> QED BY <1>n, <1>5, <1>6, <1>7, <1>8, <1>9, RewriteStep

LEMMA DeductStep == ASSUME LedgerInv, NEW l \in Sends, Deduct(l) PROVE LedgerInv'
<1>1. LedgerTypes /\ LotsTyped
  BY LotFacts DEF LedgerInv
<1> DEFINE took == [i \in 1..MaxLots |-> IF i \in LotIds THEN Take(i) ELSE 0]
<1>2. /\ lots' = [i \in LotIds |->
                    IF Take(i) = 0 THEN lots[i]
                    ELSE [lots[i] EXCEPT !.remaining = @ - Take(i),
                                         !.status = IF Take(i) = lots[i].remaining THEN "depleted" ELSE @]]
      /\ send' = [send EXCEPT ![l] = [state |-> "sent", took |-> took]]
      /\ credits >= Cost /\ credits' = credits - Cost
      /\ UNCHANGED <<refundedAt, orders, dispute, clock, unfixed>>
  BY DEF Deduct
<1>3. \A i \in LotIds : /\ Take(i) \in Nat /\ Take(i) <= Cost /\ Take(i) <= lots[i].remaining
                        /\ Take(i) # 0 => lots[i].status = "active" /\ lots[i].remaining > 0
                        /\ lots[i].remaining \in Nat
  <2> SUFFICES ASSUME NEW i \in LotIds
               PROVE  /\ Take(i) \in Nat /\ Take(i) <= Cost /\ Take(i) <= lots[i].remaining
                      /\ Take(i) # 0 => lots[i].status = "active" /\ lots[i].remaining > 0
                      /\ lots[i].remaining \in Nat
    OBVIOUS
  <2>1. /\ Take(i) \in 0..Cost /\ Take(i) <= lots[i].remaining
        /\ Take(i) # 0 => IsSpendable(i)
    BY <1>1, TakeIs
  <2>2. Cost \in Nat /\ lots[i].remaining \in Nat
    BY <1>1, ConstantFacts DEF LotsTyped, Lot
  <2> QED BY <2>1, <2>2 DEF IsSpendable
<1>4. ASSUME NEW i \in LotIds
      PROVE  /\ lots'[i].remaining = lots[i].remaining - Take(i)
             /\ lots'[i].status = IF Take(i) # 0 /\ Take(i) = lots[i].remaining
                                  THEN "depleted" ELSE lots[i].status
             /\ lots'[i].pack = lots[i].pack /\ lots'[i].letter = lots[i].letter
             /\ lots'[i].from = lots[i].from /\ lots'[i].source = lots[i].source
             /\ lots'[i].expires = lots[i].expires /\ lots'[i].held = lots[i].held
             /\ lots'[i].takenBy = lots[i].takenBy /\ lots'[i] \in Lot
  <2>1. lots[i] \in Lot /\ Take(i) \in Nat /\ Take(i) <= lots[i].remaining
    BY <1>1, <1>3 DEF LotsTyped
  <2>2. lots'[i] = IF Take(i) = 0 THEN lots[i]
                   ELSE [lots[i] EXCEPT !.remaining = @ - Take(i),
                                        !.status = IF Take(i) = lots[i].remaining THEN "depleted" ELSE @]
    BY <1>2
  <2> DEFINE t == Take(i)
             x == lots[i]
             y == lots'[i]
  <2>3. x \in Lot /\ t \in Nat /\ t <= x.remaining
        /\ y = IF t = 0 THEN x
               ELSE [x EXCEPT !.remaining = @ - t, !.status = IF t = x.remaining THEN "depleted" ELSE @]
    BY <2>1, <2>2
  <2> HIDE DEF t, x, y
  <2>4. /\ y.remaining = x.remaining - t
        /\ y.status = IF t # 0 /\ t = x.remaining THEN "depleted" ELSE x.status
        /\ y.pack = x.pack /\ y.letter = x.letter /\ y.from = x.from /\ y.source = x.source
        /\ y.expires = x.expires /\ y.held = x.held /\ y.takenBy = x.takenBy /\ y \in Lot
    <3>1. CASE t = 0
      BY <2>3, <3>1 DEF Lot
    <3>2. CASE t # 0
      <4> DEFINE r == x.remaining - t
                 s == IF t = x.remaining THEN "depleted" ELSE x.status
      <4>1. r \in Nat
        BY <2>3 DEF Lot
      <4>2. s \in LotStatus
        BY <2>3 DEF Lot, LotStatus
      <4>3. y = [x EXCEPT !.remaining = r, !.status = s]
        BY <2>3, <3>2
      <4>4. s = IF t # 0 /\ t = x.remaining THEN "depleted" ELSE x.status
        BY <3>2
      <4>5. r = x.remaining - t
        OBVIOUS
      <4> HIDE DEF r, s
      <4>6. /\ y.remaining = r /\ y.status = s
            /\ y.pack = x.pack /\ y.letter = x.letter /\ y.from = x.from /\ y.source = x.source
            /\ y.expires = x.expires /\ y.held = x.held /\ y.takenBy = x.takenBy /\ y \in Lot
        BY ONLY <2>3, <4>1, <4>2, <4>3 DEF Lot
      <4> QED BY <4>4, <4>5, <4>6
    <3> QED BY <3>1, <3>2
  <2> QED BY <2>4 DEF t, x, y
<1>5. LotIds' = LotIds /\ lots' \in Seq(Lot) /\ Len(lots') = Len(lots)
  <2>1. lots' = [i \in LotIds |-> lots'[i]]
    BY <1>2
  <2>2. \A i \in LotIds : lots'[i] \in Lot
    BY <1>4
  <2> QED BY <1>1, <2>1, <2>2, InPlace
<1>n. LotIds' = LotIds
  BY <1>5
<1>t. took \in [1..MaxLots -> 0..Cost] /\ \A i \in LotIds : i \in 1..MaxLots /\ took[i] = Take(i)
  <2>1. Cost \in Nat /\ MaxLots \in Nat /\ Len(lots) <= MaxLots
    BY <1>1, ConstantFacts DEF LedgerTypes
  <2>2. \A i \in LotIds : i \in 1..MaxLots
    BY <1>1, <2>1 DEF LotsTyped
  <2>3. \A i \in LotIds : Take(i) \in 0..Cost
    BY <1>3, <2>1
  <2> QED BY <2>1, <2>2, <2>3
<1> HIDE DEF took
<1>s. send'[l].took = took /\ \A k \in Sends : k # l => send'[k] = send[k]
  BY <1>1, <1>2 DEF LedgerTypes
<1>6. LedgerTypes'
  <2>1. credits' \in Nat
    <3>1. credits \in Nat /\ Cost \in Nat
      BY <1>1, ConstantFacts DEF LedgerTypes
    <3>2. credits >= Cost /\ credits' = credits - Cost
      BY <1>2
    <3> DEFINE m == credits'
    <3>3. m = credits - Cost
      BY <3>2
    <3> HIDE DEF m
    <3>4. m \in Nat
      BY ONLY <3>1, <3>2, <3>3
    <3> QED BY <3>4 DEF m
  <2>2. send' \in [Sends -> [state : SendState, took : [1..MaxLots -> 0..Cost]]]
    BY <1>1, <1>2, <1>t DEF LedgerTypes, SendState
  <2> QED BY <1>1, <1>2, <1>5, <2>1, <2>2 DEF LedgerTypes
<1>7. LotsStay
  BY <1>4, <1>n DEF LotsStay
<1>8. LotsInv'
  <2> SUFFICES ASSUME NEW i \in LotIds PROVE LotInv(i)'
    BY <1>n DEF LotsInv
  <2>1. LotInv(i) /\ lots[i] \in Lot
    BY <1>1 DEF LedgerInv, LotsInv, LotsTyped
  <2>2. Past(lots[i])' <=> Past(lots[i])
    BY <1>2, <1>4 DEF Past
  <2>3. /\ Take(i) \in Nat /\ Take(i) <= lots[i].remaining /\ lots[i].remaining \in Nat
        /\ Take(i) # 0 => lots[i].status = "active" /\ lots[i].remaining > 0
    BY <1>3
  <2>4. lots'[i].status \in {"revoked", "depleted"} <=> lots'[i].remaining = 0
    <3>1. lots[i].status \in {"revoked", "depleted"} <=> lots[i].remaining = 0
      BY <2>1 DEF LotInv
    <3>2. CASE Take(i) = 0
      <4>1. lots'[i].status = lots[i].status /\ lots'[i].remaining = lots[i].remaining
        BY <1>4, <2>3, <3>2
      <4> QED BY <3>1, <4>1
    <3>3. CASE Take(i) # 0
      <4>1. lots'[i].remaining = lots[i].remaining - Take(i)
        BY <1>4
      <4>2. lots'[i].remaining = 0 <=> Take(i) = lots[i].remaining
        BY <2>3, <4>1
      <4>3. lots'[i].status = IF Take(i) = lots[i].remaining THEN "depleted" ELSE "active"
        BY <1>4, <2>3, <3>3
      <4> QED BY <4>2, <4>3
    <3> QED BY <3>2, <3>3
  <2>5. /\ lots'[i].status \in {lots[i].status, "depleted"}
        /\ lots[i].status = "revoked" => lots'[i].status = "revoked"
    BY <1>4, <2>3
  <2>6. orders' = orders
    BY <1>2
  <2> QED BY <1>4, <2>1, <2>2, <2>4, <2>5, <2>6 DEF LotInv
<1>9. TookInv'
  <2> SUFFICES ASSUME NEW k \in Sends, NEW i \in 1..MaxLots, send'[k].took[i] # 0
               PROVE  i \in LotIds
    BY <1>n DEF TookInv
  <2>1. CASE k = l
    BY <1>s, <2>1 DEF took
  <2>2. CASE k # l
    BY <1>s, <2>2 DEF LedgerInv, TookInv
  <2> QED BY <2>1, <2>2
<1>10. ASSUME NEW p \in Packs PROVE Bought(p)'
  <2>1. LotsTyped' /\ Valued(p) /\ Valued(p)'
    BY <1>1, <1>6, ValuesAre, NextFacts
  <2> DEFINE D == LotIds
             w == Worth(p)
             v == Worth(p)'
             x == [i \in LotIds |-> IF lots[i].pack = p THEN Take(i) ELSE 0]
             o == Outside(p)
             n == Outside(p)'
             y == [k \in Sends |-> IF k = l THEN SumFunctionOnSet(x, D) ELSE 0]
  <2>2. /\ w \in [D -> Nat] /\ v \in [D -> Nat] /\ x \in [D -> Nat]
        /\ o \in [Sends -> Nat] /\ n \in [Sends -> Nat] /\ IsFiniteSet(D) /\ IsFiniteSet(Sends)
        /\ PackCredits \in Nat
    <3>1. x \in [D -> Nat]
      BY <1>3
    <3> QED BY <1>1, <1>n, <2>1, <3>1, ConstantFacts DEF Valued, LotsTyped
  <2>3. \A i \in D : v[i] + x[i] <= w[i]
    <3> SUFFICES ASSUME NEW i \in LotIds PROVE v[i] + x[i] <= w[i]
      OBVIOUS
    <3>1. Owed(i)' = Owed(i)
      BY <1>4, <1>n DEF Owed
    <3>2. lots'[i].pack = lots[i].pack /\ lots'[i].remaining = lots[i].remaining - Take(i)
      BY <1>4
    <3>3. Owed(i) \in Nat /\ lots[i].remaining \in Nat /\ Take(i) \in Nat
      BY <1>1, <1>3 DEF LotsTyped, Lot, Owed
    <3>4. CASE lots[i].pack = p
      <4>1. v[i] = (lots[i].remaining - Take(i)) + Owed(i) /\ w[i] = lots[i].remaining + Owed(i) /\ x[i] = Take(i)
        BY <1>n, <3>1, <3>2, <3>4 DEF Worth
      <4> QED BY <3>3, <4>1
    <3>5. CASE lots[i].pack # p
      BY <1>n, <3>2, <3>5 DEF Worth
    <3> QED BY <3>4, <3>5
  <2>4. \A k \in Sends : k # l => n[k] <= o[k]
    <3> SUFFICES ASSUME NEW k \in Sends, k # l PROVE n[k] <= o[k]
      OBVIOUS
    <3>1. send'[k].took = send[k].took
      BY <1>s
    <3> QED BY <1>1, <1>6, <1>7, <3>1, OutsideFalls DEF LedgerInv
  <2>5. n[l] <= SumFunctionOnSet(x, D)
    <3> DEFINE f == TookOf(l, p)'
    <3>1. f \in [D -> Nat] /\ n[l] = SumFunctionOnSet(f, D)
      BY <1>n, <2>1 DEF Valued, Outside
    <3>2. \A i \in D : f[i] # 0 => i \in D /\ f[i] <= x[i]
      <4> SUFFICES ASSUME NEW i \in LotIds, f[i] # 0 PROVE f[i] <= x[i]
        OBVIOUS
      <4>1. lots'[i].pack = p /\ f[i] = send'[l].took[i]
        BY <1>n DEF TookOf
      <4>2. x[i] = Take(i) /\ f[i] = Take(i)
        BY <1>4, <1>s, <1>t, <4>1
      <4> QED BY <1>3, <4>2
    <3> HIDE DEF f, x, D, n
    <3> QED BY <2>2, <3>1, <3>2, SumWithin
  <2> HIDE DEF w, v, x, o, n, D
  <2>6. SumFunctionOnSet(v, D) + SumFunctionOnSet(x, D) <= SumFunctionOnSet(w, D)
    BY <2>2, <2>3, SumJoins
  <2>7. /\ SumFunctionOnSet(w, D) \in Nat /\ SumFunctionOnSet(v, D) \in Nat /\ SumFunctionOnSet(x, D) \in Nat
        /\ SumFunctionOnSet(o, Sends) \in Nat /\ SumFunctionOnSet(n, Sends) \in Nat
    BY <2>2, SumTypes
  <2>8. y \in [Sends -> Nat] /\ y[l] = SumFunctionOnSet(x, D) /\ \A k \in Sends : k # l => y[k] = 0
    BY <2>7
  <2> HIDE DEF y
  <2>9. \A k \in Sends : n[k] <= o[k] + y[k]
    <3> SUFFICES ASSUME NEW k \in Sends PROVE n[k] <= o[k] + y[k]
      OBVIOUS
    <3>1. n[k] \in Nat /\ o[k] \in Nat /\ y[k] \in Nat
      BY <2>2, <2>8
    <3> QED BY <2>4, <2>5, <2>8, <3>1
  <2>10. SumFunctionOnSet(n, Sends) <= SumFunctionOnSet(o, Sends) + SumFunctionOnSet(y, Sends)
    BY <2>2, <2>8, <2>9, SumSplits
  <2>11. SumFunctionOnSet(y, Sends) = SumFunctionOnSet(x, D)
    BY <2>2, <2>8, SumOfOne
  <2>12. SumFunctionOnSet(w, D) + SumFunctionOnSet(o, Sends) <= PackCredits
    BY DEF LedgerInv, Bought, w, o, D
  <2>13. SumFunctionOnSet(v, D) + SumFunctionOnSet(n, Sends) <= PackCredits
    BY <2>2, <2>6, <2>7, <2>10, <2>11, <2>12
  <2> QED BY <1>n, <2>13 DEF Bought, v, n, D
<1> QED BY <1>6, <1>8, <1>9, <1>10 DEF LedgerInv

LEMMA OrderedIs ==
    ASSUME NEW S \in SUBSET Nat, IsFiniteSet(S)
    PROVE  /\ Cardinality(S) \in Nat /\ Ordered(S) \in [1..Cardinality(S) -> S]
           /\ \A a, b \in 1..Cardinality(S) : Ordered(S)[a] = Ordered(S)[b] => a = b
           /\ \A x \in S : \E a \in 1..Cardinality(S) : Ordered(S)[a] = x
<1>1. \E s \in [1..Cardinality(S) -> S] : Rising(s)
  BY InOrder
<1>2. Ordered(S) = CHOOSE s \in [1..Cardinality(S) -> S] : Rising(s)
  BY DEF Ordered, Rising
<1>3. Ordered(S) \in [1..Cardinality(S) -> S] /\ Rising(Ordered(S))
  BY <1>1, <1>2
<1> QED BY <1>3, TellsAll, FS_CardinalityType

\* Lots are appended.
LEMMA Appended ==
    ASSUME LotsTyped, NEW n \in Nat, NEW t \in [1..n -> Lot], lots' = lots \o t, lots \in Seq(Lot)
    PROVE  /\ LotIds' = 1..(Len(lots) + n) /\ Len(lots') = Len(lots) + n /\ lots' \in Seq(Lot)
           /\ \A i \in LotIds : i \in LotIds' /\ lots'[i] = lots[i]
           /\ \A k \in 1..n : lots'[Len(lots) + k] = t[k]
<1>1. t \in Seq(Lot) /\ Len(t) = n
  BY FunctionIsSequence
<1>2. Len(lots) \in Nat /\ LotIds = 1..Len(lots)
  BY DEF LotsTyped
<1>3. lots' \in Seq(Lot) /\ Len(lots') = Len(lots) + n
  <2>1. lots \o t \in Seq(Lot) /\ Len(lots \o t) = Len(lots) + Len(t)
    BY ONLY lots \in Seq(Lot), <1>1
  <2> QED BY <1>1, <2>1
<1>4. LotIds' = 1..(Len(lots) + n)
  BY <1>3 DEF LotIds
<1>5. \A i \in 1..Len(lots) : lots'[i] = lots[i]
  BY <1>1, <1>2
<1>6. \A k \in 1..n : lots'[Len(lots) + k] = t[k]
  BY <1>1, <1>2
<1> QED BY <1>2, <1>3, <1>4, <1>5, <1>6

\* Appended to, the lots there were are as sound as they were.
LEMMA AppendKeeps ==
    ASSUME LedgerInv, LedgerTypes', NEW n \in Nat,
           LotIds' = 1..(Len(lots) + n), \A i \in LotIds : lots'[i] = lots[i],
           clock' = clock, OrdersAdvance, send' = send,
           \A j \in (Len(lots) + 1)..(Len(lots) + n) : LotInv(j)'
    PROVE  LotsInv' /\ TookInv' /\ LotsStay
<1>1. LedgerTypes /\ LotsTyped /\ Len(lots) \in Nat /\ LotIds = 1..Len(lots)
  BY LotFacts DEF LedgerInv, LotsTyped
<1>2. \A i \in LotIds : i \in LotIds'
  BY <1>1
<1>3. LotsStay
  BY <1>2 DEF LotsStay
<1>4. TookInv'
  BY <1>2 DEF LedgerInv, TookInv
<1>5. ASSUME NEW i \in LotIds' PROVE LotInv(i)'
  <2>1. CASE i \in LotIds
    <3>1. clock' >= clock
      BY <1>1, ConstantFacts DEF LedgerTypes
    <3> QED BY <1>1, <2>1, <3>1, LotStays DEF LedgerInv, LotsInv
  <2>2. CASE i \notin LotIds
    <3>1. i \in (Len(lots) + 1)..(Len(lots) + n)
      BY <1>1, <2>2
    <3> QED BY <3>1
  <2> QED BY <2>1, <2>2
<1> QED BY <1>3, <1>4, <1>5 DEF LotsInv

\* What the lots S give back of a pack.
Share(S, amount, p) == [i \in LotIds |-> IF i \in S /\ lots[i].pack = p THEN amount[i] ELSE 0]

\* New lots that give back what others stood for are worth no more than those give.
LEMMA GivenBack ==
    ASSUME LedgerInv, LedgerTypes', NEW p \in Packs, NEW S \in SUBSET LotIds,
           NEW amount \in [LotIds -> Nat], NEW n \in Nat, NEW given \in [1..n -> S],
           \A a, b \in 1..n : given[a] = given[b] => a = b,
           LotIds' = 1..(Len(lots) + n),
           \A k \in 1..n : /\ lots'[Len(lots) + k].pack = lots[given[k]].pack
                           /\ lots'[Len(lots) + k].remaining = amount[given[k]]
                           /\ lots'[Len(lots) + k].held = 0
    PROVE  /\ Share(S, amount, p) \in [LotIds -> Nat]
           /\ SumFunctionOnSet(Worth(p)', LotIds') <=
                SumFunctionOnSet(Worth(p)', LotIds) + SumFunctionOnSet(Share(S, amount, p), LotIds)
<1>1. /\ LotsTyped /\ LotsTyped' /\ Valued(p)' /\ Len(lots) \in Nat /\ LotIds = 1..Len(lots)
      /\ IsFiniteSet(LotIds)
  BY LotFacts, NextFacts DEF LedgerInv, LotsTyped
<1> DEFINE D == LotIds
           E == LotIds'
           N == (Len(lots) + 1)..(Len(lots) + n)
           v == Worth(p)'
           x == Share(S, amount, p)
           m == [j \in N |-> given[j - Len(lots)]]
<1>2. x \in [D -> Nat]
  BY DEF Share
<1>3. E = D \cup N /\ D \cap N = {} /\ D \in SUBSET E /\ N \in SUBSET E
  BY <1>1
<1>4. v \in [E -> Nat] /\ IsFiniteSet(D) /\ IsFiniteSet(N)
  <2>1. Len(lots) + 1 \in Int /\ Len(lots) + n \in Int
    BY <1>1
  <2>2. IsFiniteSet(N)
    BY ONLY <2>1, FS_Interval
  <2> QED BY <1>1, <2>2 DEF Valued
<1>5. \A j \in N : /\ m[j] \in D /\ v[j] <= x[m[j]]
                   /\ \A i \in N : m[i] = m[j] => i = j
  <2> SUFFICES ASSUME NEW j \in N
               PROVE  /\ m[j] \in D /\ v[j] <= x[m[j]]
                      /\ \A i \in N : m[i] = m[j] => i = j
    OBVIOUS
  <2> DEFINE k == j - Len(lots)
  <2>1. k \in 1..n /\ j = Len(lots) + k /\ m[j] = given[k]
    BY <1>1
  <2>2. \A i \in N : m[i] = m[j] => i = j
    <3> SUFFICES ASSUME NEW i \in N, m[i] = m[j] PROVE i = j
      OBVIOUS
    <3>1. i - Len(lots) \in 1..n /\ m[i] = given[i - Len(lots)]
      BY <1>1
    <3>2. i - Len(lots) = k
      BY <2>1, <3>1
    <3> QED BY <1>1, <3>2
  <2> HIDE DEF k
  <2>3. j \in LotIds'
    BY <1>3
  <2>4. /\ lots'[j].pack = lots[given[k]].pack /\ lots'[j].remaining = amount[given[k]]
        /\ lots'[j].held = 0
    BY <2>1
  <2>5. Owed(j)' = 0
    BY <2>4 DEF Owed
  <2>6. v[j] = IF lots[given[k]].pack = p THEN amount[given[k]] ELSE 0
    <3>1. v[j] = IF lots'[j].pack = p THEN lots'[j].remaining + Owed(j)' ELSE 0
      BY <2>3 DEF Worth
    <3>2. amount[given[k]] \in Nat
      BY <2>1
    <3> QED BY <2>4, <2>5, <3>1, <3>2
  <2>7. given[k] \in S /\ given[k] \in LotIds
    BY <2>1
  <2>8. x[given[k]] = v[j] /\ v[j] \in Nat
    <3>1. x[given[k]] = v[j]
      BY <2>6, <2>7 DEF Share
    <3> QED BY <1>2, <2>7, <3>1
  <2> QED BY <2>1, <2>2, <2>7, <2>8
<1> HIDE DEF D, E, N, v, x, m
<1>6. SumFunctionOnSet(v, N) <= SumFunctionOnSet(x, D)
  <2>1. \A j \in N : v[j] # 0 => /\ m[j] \in D /\ v[j] <= x[m[j]]
                                 /\ \A i \in N : v[i] # 0 /\ m[i] = m[j] => i = j
    BY <1>5
  <2>2. N \in SUBSET E /\ D \in SUBSET D
    BY <1>3
  <2> QED BY ONLY <1>2, <1>4, <2>1, <2>2, SumBelow
<1>7. SumFunctionOnSet(v, E) = SumFunctionOnSet(v, D) + SumFunctionOnSet(v, N)
  BY <1>3, <1>4, SumParts
<1>8. /\ SumFunctionOnSet(v, D) \in Nat /\ SumFunctionOnSet(v, N) \in Nat
      /\ SumFunctionOnSet(x, D) \in Nat
  BY <1>2, <1>3, <1>4, SumTypes
<1>9. SumFunctionOnSet(v, E) <= SumFunctionOnSet(v, D) + SumFunctionOnSet(x, D)
  BY <1>6, <1>7, <1>8
<1> QED BY <1>2, <1>9 DEF D, E, v, x

\* The lot of a paid pack is its first.
LEMMA GrantStep == ASSUME LedgerInv, NEW p \in Packs, Grant(p) PROVE LedgerInv'
<1>1. LedgerTypes /\ LotsTyped /\ Len(lots) \in Nat /\ LotIds = 1..Len(lots) /\ IsFiniteSet(LotIds)
  BY LotFacts DEF LedgerInv, LotsTyped
<1> DEFINE new == NewLot(PackCredits, p, "grant", PackExpiry, 0, NoLetter, "active")
           t == [k \in 1..1 |-> new]
<1>j. PICK j \in Nat : j = Len(lots) + 1
  BY <1>1
<1>2. /\ orders[p] = "paid" /\ Len(lots) + 1 <= MaxLots
      /\ orders' = [orders EXCEPT ![p] = "fulfilled"]
      /\ lots' = Append(lots, new) /\ credits' = credits + PackCredits
      /\ UNCHANGED <<refundedAt, send, dispute, clock, unfixed>>
  BY DEF Grant, Room
<1>3. new \in Lot /\ new.pack = p /\ new.remaining = PackCredits /\ new.held = 0
  BY ConstantFacts DEF NewLot, Lot, NoLetter, NoPack, NoDispute, Source, LotStatus
<1> HIDE DEF new
<1>4. t \in [1..1 -> Lot] /\ lots' = lots \o t
  <2>1. t \in [1..1 -> Lot]
    BY <1>3
  <2>2. t = <<new>>
    OBVIOUS
  <2>3. lots \in Seq(Lot)
    BY <1>1 DEF LedgerTypes
  <2>4. Append(lots, new) = lots \o <<new>>
    BY ONLY <1>3, <2>3
  <2> QED BY <1>2, <2>1, <2>2, <2>4
<1>5. t[1] = new
  OBVIOUS
<1> HIDE DEF t
<1>6. /\ LotIds' = 1..(Len(lots) + 1) /\ Len(lots') = Len(lots) + 1 /\ lots' \in Seq(Lot)
      /\ \A i \in LotIds : i \in LotIds' /\ lots'[i] = lots[i]
      /\ lots'[j] = new
  <2>1. lots \in Seq(Lot) /\ 1 \in Nat
    BY <1>1 DEF LedgerTypes
  <2>2. /\ LotIds' = 1..(Len(lots) + 1) /\ Len(lots') = Len(lots) + 1 /\ lots' \in Seq(Lot)
        /\ \A i \in LotIds : i \in LotIds' /\ lots'[i] = lots[i]
        /\ \A k \in 1..1 : lots'[Len(lots) + k] = t[k]
    BY ONLY <1>1, <1>4, <2>1, Appended
  <2> QED BY <1>5, <1>j, <2>2
<1>7. LedgerTypes'
  <2>1. credits' \in Nat
    <3>1. credits \in Nat /\ PackCredits \in Nat
      BY <1>1, ConstantFacts DEF LedgerTypes
    <3> QED BY <1>2, <3>1
  <2>2. orders' \in [Packs -> OrderStatus]
    BY <1>1, <1>2 DEF LedgerTypes, OrderStatus
  <2>3. Len(lots') <= MaxLots
    BY <1>2, <1>6
  <2> QED BY <1>1, <1>2, <1>6, <2>1, <2>2, <2>3 DEF LedgerTypes
<1>8. OrdersAdvance /\ orders'[p] = "fulfilled"
  BY <1>1, <1>2 DEF OrdersAdvance, LedgerTypes
<1>9. LotInv(j)'
  <2>1. /\ lots'[j] = new /\ orders'[p] = "fulfilled" /\ p # NoPack /\ j \in Nat /\ j > 0
    BY <1>1, <1>j, <1>6, <1>8, ConstantFacts DEF NoPack
  <2>2. /\ new.from = 0 /\ new.status = "active" /\ new.remaining # 0 /\ new.held = 0
        /\ new.expires = PackExpiry /\ new.letter = NoLetter /\ new.takenBy \notin Disputes
        /\ new.pack = p
    BY ConstantFacts DEF new, NewLot, NoDispute
  <2> QED BY <2>1, <2>2 DEF LotInv
<1>10. LotsInv' /\ TookInv' /\ LotsStay
  <2>1. \A k \in (Len(lots) + 1)..(Len(lots) + 1) : LotInv(k)'
    BY <1>1, <1>j, <1>9
  <2> QED BY <1>2, <1>6, <1>7, <1>8, <2>1, AppendKeeps
<1>11. ASSUME NEW q \in Packs PROVE Bought(q)'
  <2>1. \A l \in Sends : Outside(q)'[l] <= Outside(q)[l]
    BY <1>1, <1>2, <1>7, <1>10, OutsideFalls DEF LedgerInv
  <2>2. \A i \in LotIds : Owed(i)' = Owed(i) \/ Owed(i)' = 0
    BY <1>6 DEF Owed
  <2>3. Valued(q) /\ Valued(q)' /\ LotsTyped'
    BY <1>1, <1>7, ValuesAre, NextFacts
  <2>4. \A i \in LotIds : Worth(q)'[i] <= Worth(q)[i]
    <3> SUFFICES ASSUME NEW i \in LotIds PROVE Worth(q)'[i] <= Worth(q)[i]
      OBVIOUS
    <3>1. lots'[i] = lots[i] /\ i \in LotIds'
      BY <1>6
    <3>2. lots[i].remaining \in Nat /\ Owed(i) \in Nat
      BY <1>1 DEF LotsTyped, Lot, Owed
    <3>3. Worth(q)'[i] = IF lots[i].pack = q THEN lots[i].remaining + Owed(i)' ELSE 0
      BY <3>1 DEF Worth
    <3>4. Worth(q)[i] = IF lots[i].pack = q THEN lots[i].remaining + Owed(i) ELSE 0
      BY DEF Worth
    <3>5. Owed(i)' = Owed(i) \/ Owed(i)' = 0
      BY <2>2
    <3> QED BY <3>2, <3>3, <3>4, <3>5
  <2>5. CASE q # p
    <3>1. \A i \in LotIds' : Worth(q)'[i] # 0 => i \in LotIds /\ Worth(q)'[i] <= Worth(q)[i]
      <4> SUFFICES ASSUME NEW i \in LotIds', Worth(q)'[i] # 0 PROVE i \in LotIds
        BY <2>4
      <4>1. lots'[i].pack = q
        BY DEF Worth
      <4>2. i # j
        BY <1>3, <1>6, <2>5, <4>1
      <4> QED BY <1>1, <1>j, <1>6, <4>2
    <3> QED BY <1>1, <1>7, <2>1, <3>1, BoughtFalls DEF LedgerInv
  <2>6. CASE q = p
    <3>1. \A i \in LotIds : lots[i].pack # p
      <4>1. p # NoPack
        BY ConstantFacts DEF NoPack
      <4> QED BY <1>2, <4>1 DEF LedgerInv, LotsInv, LotInv
    <3>2. \A i \in LotIds' : Worth(q)'[i] = IF i = j THEN PackCredits ELSE 0
      <4> SUFFICES ASSUME NEW i \in LotIds' PROVE Worth(q)'[i] = IF i = j THEN PackCredits ELSE 0
        OBVIOUS
      <4>1. Worth(q)'[i] = IF lots'[i].pack = q THEN lots'[i].remaining + Owed(i)' ELSE 0
        BY DEF Worth
      <4>2. CASE i = j
        <5>1. lots'[i].pack = p /\ lots'[i].remaining = PackCredits /\ lots'[i].held = 0
          BY <1>3, <1>6, <4>2
        <5>2. Owed(i)' = 0
          BY <5>1 DEF Owed
        <5> QED BY <2>6, <4>1, <4>2, <5>1, <5>2, ConstantFacts
      <4>3. CASE i # j
        <5>1. i \in LotIds
          BY <1>1, <1>j, <1>6, <4>3
        <5>2. lots'[i].pack # p
          BY <1>6, <3>1, <5>1
        <5> QED BY <2>6, <4>1, <4>3, <5>2
      <4> QED BY <4>2, <4>3
    <3> DEFINE v == Worth(q)'
               n == Outside(q)'
               E == LotIds'
    <3>3. SumFunctionOnSet(v, E) = PackCredits
      <4>1. /\ v \in [E -> Nat] /\ IsFiniteSet(E) /\ j \in E /\ v[j] = PackCredits
            /\ \A i \in E : i # j => v[i] = 0
        <5>1. j \in E
          BY <1>1, <1>j, <1>6
        <5> QED BY <2>3, <3>2, <5>1 DEF Valued, LotsTyped
      <4> HIDE DEF v, E
      <4>2. SumFunctionOnSet(v, E) = v[j]
        BY <4>1, SumOfOne
      <4> QED BY <4>1, <4>2
    <3>4. \A l \in Sends : n[l] = 0
      <4> SUFFICES ASSUME NEW l \in Sends PROVE n[l] = 0
        OBVIOUS
      <4> DEFINE f == TookOf(l, q)
      <4>1. f \in [LotIds -> Nat] /\ \A i \in LotIds : f[i] = 0
        <5>1. \A i \in LotIds : f[i] = 0
          BY <2>6, <3>1 DEF TookOf
        <5> QED BY <2>3, <5>1 DEF Valued
      <4> HIDE DEF f
      <4>2. SumFunctionOnSet(f, LotIds) = 0
        <5>1. LotIds \in SUBSET LotIds
          OBVIOUS
        <5> QED BY <1>1, <4>1, <5>1, SumOfNone
      <4>4. Outside(q)[l] = SumFunctionOnSet(f, LotIds)
        BY DEF Outside, f
      <4>5. Outside(q)'[l] <= Outside(q)[l] /\ Outside(q)'[l] \in Nat /\ Outside(q)[l] \in Nat
        BY <2>1, <2>3 DEF Valued
      <4> QED BY <4>2, <4>4, <4>5
    <3>5. SumFunctionOnSet(n, Sends) = 0
      <4>1. n \in [Sends -> Nat] /\ IsFiniteSet(Sends) /\ Sends \in SUBSET Sends
        BY <2>3, ConstantFacts DEF Valued
      <4> HIDE DEF n
      <4> QED BY <3>4, <4>1, SumOfNone
    <3> HIDE DEF v, n, E
    <3>6. SumFunctionOnSet(v, E) + SumFunctionOnSet(n, Sends) <= PackCredits
      BY <3>3, <3>5, ConstantFacts
    <3> QED BY <3>6 DEF Bought, v, n, E
  <2> QED BY <2>5, <2>6
<1> QED BY <1>7, <1>10, <1>11 DEF LedgerInv

\* New lots, one for each of S and in their order, after the lots there were.
Repaid(S, fresh, n, given) ==
    /\ n \in Nat /\ given \in [1..n -> S] /\ Len(Ordered(S)) = n
    /\ \A a, b \in 1..n : given[a] = given[b] => a = b
    /\ \A x \in S : \E a \in 1..n : given[a] = x
    /\ LotIds' = 1..(Len(lots) + n) /\ Len(lots') = Len(lots) + n /\ lots' \in Seq(Lot)
    /\ \A i \in LotIds : i \in LotIds' /\ lots'[i] = lots[i]
    /\ \A k \in 1..n : lots'[Len(lots) + k] = fresh[given[k]]

LEMMA Repays ==
    ASSUME LotsTyped, lots \in Seq(Lot), NEW S \in SUBSET LotIds, NEW fresh \in [S -> Lot],
           lots' = lots \o [k \in DOMAIN Ordered(S) |-> fresh[Ordered(S)[k]]]
    PROVE  \E n, given : Repaid(S, fresh, n, given)
<1>1. IsFiniteSet(S) /\ S \in SUBSET Nat
  <2>1. IsFiniteSet(LotIds) /\ LotIds \in SUBSET Nat
    BY DEF LotsTyped
  <2>2. IsFiniteSet(S)
    BY ONLY <2>1, S \in SUBSET LotIds, FS_Subset
  <2> QED BY <2>1, <2>2
<1>2. PICK n : n = Cardinality(S)
  OBVIOUS
<1>3. PICK given : given = Ordered(S)
  OBVIOUS
<1>4. /\ n \in Nat /\ given \in [1..n -> S] /\ \A a, b \in 1..n : given[a] = given[b] => a = b
      /\ \A x \in S : \E a \in 1..n : given[a] = x
  BY <1>1, <1>2, <1>3, OrderedIs
<1>5. Len(given) = n /\ DOMAIN given = 1..n
  BY <1>4, FunctionIsSequence
<1>6. PICK t : t = [k \in 1..n |-> fresh[given[k]]]
  OBVIOUS
<1>7. t \in [1..n -> Lot] /\ \A k \in 1..n : t[k] = fresh[given[k]]
  BY <1>4, <1>6
<1>8. lots' = lots \o t
  BY <1>3, <1>5, <1>6
<1>9. /\ LotIds' = 1..(Len(lots) + n) /\ Len(lots') = Len(lots) + n /\ lots' \in Seq(Lot)
      /\ \A i \in LotIds : i \in LotIds' /\ lots'[i] = lots[i]
      /\ \A k \in 1..n : lots'[Len(lots) + k] = t[k]
  BY ONLY LotsTyped, lots \in Seq(Lot), <1>4, <1>7, <1>8, Appended
<1>10. Repaid(S, fresh, n, given)
  <2>1. \A k \in 1..n : lots'[Len(lots) + k] = fresh[given[k]]
    BY <1>7, <1>9
  <2>2. Len(Ordered(S)) = n
    BY <1>3, <1>5
  <2> QED BY ONLY <1>4, <1>9, <2>1, <2>2 DEF Repaid
<1> QED BY <1>10

\* The lots a failed send gives back.
ReturnRow(l) ==
    [i \in Returnable(l) |->
       NewLot(send[l].took[i], lots[i].pack, "send_failed", lots[i].expires, i, l,
              IF Past(lots[i]) THEN "expired" ELSE "active")]

LEMMA ReturnRepays ==
    ASSUME LedgerInv, NEW l \in Sends, Return(l)
    PROVE  /\ Returnable(l) \in SUBSET LotIds /\ \A i \in LotIds : send[l].took[i] \in Nat
           /\ \A i \in Returnable(l) :
                 LET new == ReturnRow(l)[i] IN
                 /\ new.pack = lots[i].pack /\ new.remaining = send[l].took[i] /\ new.held = 0
                 /\ new.from = i /\ new.letter = l /\ new.source = "send_failed"
                 /\ new.status = (IF Past(lots[i]) THEN "expired" ELSE "active")
                 /\ new.expires = lots[i].expires /\ new.takenBy = NoDispute
           /\ \E n, given : Repaid(Returnable(l), ReturnRow(l), n, given)
<1>1. LedgerTypes /\ LotsTyped
  BY LotFacts DEF LedgerInv
<1>2. PICK S : S = Returnable(l)
  OBVIOUS
<1>3. S \in SUBSET LotIds /\ LotIds \in SUBSET Nat
  BY <1>1, <1>2 DEF Returnable, LotsTyped
<1>4. \A i \in LotIds : send[l].took[i] \in Nat
  <2>1. MaxLots \in Nat /\ Cost \in Nat
    BY ConstantFacts
  <2>2. send[l].took \in [1..MaxLots -> 0..Cost] /\ Len(lots) <= MaxLots
    BY <1>1 DEF LedgerTypes
  <2>3. \A i \in LotIds : i \in 1..MaxLots
    BY <1>1, <2>1, <2>2 DEF LotsTyped
  <2> QED BY <2>1, <2>2, <2>3
<1> DEFINE status(i) == IF Past(lots[i]) THEN "expired" ELSE "active"
<1>5. PICK fresh : fresh = [i \in S |-> NewLot(send[l].took[i], lots[i].pack, "send_failed", lots[i].expires,
                                           i, l, status(i))]
  OBVIOUS
<1>6. fresh = ReturnRow(l)
  BY <1>2, <1>5 DEF ReturnRow
<1>7. \A i \in S : status(i) \in {"expired", "active"}
  OBVIOUS
<1> HIDE DEF status
<1>8. ASSUME NEW i \in S
      PROVE  /\ fresh[i] \in Lot /\ fresh[i].pack = lots[i].pack /\ fresh[i].remaining = send[l].took[i]
             /\ fresh[i].held = 0 /\ fresh[i].from = i /\ fresh[i].letter = l /\ fresh[i].source = "send_failed"
             /\ fresh[i].status = status(i) /\ fresh[i].expires = lots[i].expires
             /\ fresh[i].takenBy = NoDispute
  <2>1. lots[i] \in Lot /\ send[l].took[i] \in Nat /\ i \in Nat /\ status(i) \in LotStatus
    BY <1>1, <1>3, <1>4, <1>7 DEF LotsTyped, LotStatus
  <2> QED BY <1>5, <2>1 DEF NewLot, Lot, Source, NoDispute
<1>9. fresh \in [S -> Lot]
  BY <1>5, <1>8
<1>10. lots' = lots \o [k \in DOMAIN Ordered(S) |-> fresh[Ordered(S)[k]]]
  <2>1. DOMAIN Ordered(S) = 1..Cardinality(S) /\ \A k \in 1..Cardinality(S) : Ordered(S)[k] \in S
    <3>1. IsFiniteSet(S) /\ S \in SUBSET Nat
      BY <1>1, <1>3, FS_Subset DEF LotsTyped
    <3> QED BY <3>1, OrderedIs
  <2>2. lots' = lots \o [k \in DOMAIN Ordered(S) |->
                           NewLot(send[l].took[Ordered(S)[k]], lots[Ordered(S)[k]].pack, "send_failed",
                                  lots[Ordered(S)[k]].expires, Ordered(S)[k], l, status(Ordered(S)[k]))]
    BY <1>2 DEF Return, status
  <2> QED BY <1>5, <2>1, <2>2
<1>11. \E n, given : Repaid(S, fresh, n, given)
  BY <1>1, <1>3, <1>9, <1>10, Repays DEF LedgerTypes
<1> QED BY <1>2, <1>3, <1>4, <1>6, <1>8, <1>11 DEF status

\* The lots a dispute that is won makes good.
Repayable(d) == IF NotRefunded(DisputedPack[d]) THEN Compensable(d) ELSE {}

WonRow(d) ==
    [i \in Repayable(d) |->
       NewLot(lots[i].held, lots[i].pack, "dispute_won", lots[i].expires, i, NoLetter, "active")]

LEMMA WonRepays ==
    ASSUME LedgerInv, NEW d \in Disputes, Won(d)
    PROVE  /\ Repayable(d) \in SUBSET LotIds
           /\ \A i \in Repayable(d) :
                 LET new == WonRow(d)[i] IN
                 /\ new.pack = lots[i].pack /\ new.remaining = lots[i].held /\ new.held = 0
                 /\ new.from = i /\ new.letter = NoLetter /\ new.source = "dispute_won"
                 /\ new.status = "active" /\ new.expires = lots[i].expires /\ new.takenBy = NoDispute
           /\ \E n, given : Repaid(Repayable(d), WonRow(d), n, given)
<1>1. LedgerTypes /\ LotsTyped
  BY LotFacts DEF LedgerInv
<1>2. PICK S : S = Repayable(d)
  OBVIOUS
<1>3. S \in SUBSET LotIds /\ LotIds \in SUBSET Nat
  BY <1>1, <1>2 DEF Repayable, Compensable, LotsTyped
<1>4. PICK fresh : fresh = [i \in S |-> NewLot(lots[i].held, lots[i].pack, "dispute_won", lots[i].expires,
                                           i, NoLetter, "active")]
  OBVIOUS
<1>5. fresh = WonRow(d)
  BY <1>2, <1>4 DEF WonRow
<1>6. ASSUME NEW i \in S
      PROVE  /\ fresh[i] \in Lot /\ fresh[i].pack = lots[i].pack /\ fresh[i].remaining = lots[i].held
             /\ fresh[i].held = 0 /\ fresh[i].from = i /\ fresh[i].letter = NoLetter
             /\ fresh[i].source = "dispute_won" /\ fresh[i].status = "active"
             /\ fresh[i].expires = lots[i].expires /\ fresh[i].takenBy = NoDispute
  <2>1. lots[i] \in Lot /\ i \in Nat
    BY <1>1, <1>3 DEF LotsTyped
  <2> QED BY <1>4, <2>1 DEF NewLot, Lot, Source, NoDispute, LotStatus
<1>7. fresh \in [S -> Lot]
  BY <1>4, <1>6
<1>8. lots' = lots \o [k \in DOMAIN Ordered(S) |-> fresh[Ordered(S)[k]]]
  <2>1. DOMAIN Ordered(S) = 1..Cardinality(S) /\ \A k \in 1..Cardinality(S) : Ordered(S)[k] \in S
    <3>1. IsFiniteSet(S) /\ S \in SUBSET Nat
      BY <1>1, <1>3, FS_Subset DEF LotsTyped
    <3> QED BY <3>1, OrderedIs
  <2>2. lots' = lots \o [k \in DOMAIN Ordered(S) |->
                           NewLot(lots[Ordered(S)[k]].held, lots[Ordered(S)[k]].pack, "dispute_won",
                                  lots[Ordered(S)[k]].expires, Ordered(S)[k], NoLetter, "active")]
    BY <1>2 DEF Won, Repayable
  <2> QED BY <1>4, <2>1, <2>2
<1>9. \E n, given : Repaid(S, fresh, n, given)
  BY <1>1, <1>3, <1>7, <1>8, Repays DEF LedgerTypes
<1> QED BY <1>2, <1>3, <1>5, <1>6, <1>9

\* A send that failed gives back what it took.
LEMMA ReturnStep == ASSUME LedgerInv, NEW l \in Sends, Return(l) PROVE LedgerInv'
<1>1. LedgerTypes /\ LotsTyped /\ Len(lots) \in Nat /\ LotIds = 1..Len(lots) /\ IsFiniteSet(LotIds)
  BY LotFacts DEF LedgerInv, LotsTyped
<1>2. PICK S, fresh : S = Returnable(l) /\ fresh = ReturnRow(l)
  OBVIOUS
<1>3. S \in SUBSET LotIds /\ IsFiniteSet(S)
  <2>1. S \in SUBSET LotIds
    BY <1>2, ReturnRepays
  <2> QED BY ONLY <1>1, <2>1, FS_Subset
<1>4. PICK n, given : Repaid(S, fresh, n, given)
  BY <1>2, ReturnRepays
<1>6. /\ n \in Nat /\ given \in [1..n -> S] /\ \A a, b \in 1..n : given[a] = given[b] => a = b
      /\ \A x \in S : \E a \in 1..n : given[a] = x
  BY <1>4 DEF Repaid
<1> DEFINE status(i) == IF Past(lots[i]) THEN "expired" ELSE "active"
           usable == [i \in LotIds |-> IF Past(lots[i]) THEN 0 ELSE send[l].took[i]]
<1>8. /\ n + Len(lots) <= MaxLots /\ ~HasReturned(l)
      /\ credits' = credits + SumOf(usable, S)
      /\ UNCHANGED <<refundedAt, send, orders, dispute, clock, unfixed>>
  <2>1. Len(Ordered(Returnable(l))) = n
    BY <1>2, <1>4 DEF Repaid
  <2> QED BY <1>1, <1>2, <1>6, <2>1 DEF Return, Room
<1>9. \A i \in LotIds : send[l].took[i] \in Nat
  BY ReturnRepays
<1>10. ASSUME NEW i \in S
       PROVE  /\ fresh[i].pack = lots[i].pack /\ fresh[i].remaining = send[l].took[i]
              /\ fresh[i].held = 0 /\ fresh[i].from = i /\ fresh[i].letter = l /\ fresh[i].source = "send_failed"
              /\ fresh[i].status = status(i) /\ fresh[i].expires = lots[i].expires
              /\ fresh[i].takenBy = NoDispute
  BY <1>2, ReturnRepays
<1>13. /\ LotIds' = 1..(Len(lots) + n) /\ Len(lots') = Len(lots) + n /\ lots' \in Seq(Lot)
       /\ \A i \in LotIds : i \in LotIds' /\ lots'[i] = lots[i]
       /\ \A k \in 1..n : lots'[Len(lots) + k] = fresh[given[k]]
  BY <1>4 DEF Repaid
<1>14. LedgerTypes'
  <2>1. SumOf(usable, S) \in Nat
    <3>1. usable \in [LotIds -> Nat]
      BY <1>9
    <3> HIDE DEF usable
    <3> QED BY <1>3, <3>1, SameSum, SumTypes
  <2>2. credits' \in Nat
    <3>1. credits \in Nat
      BY <1>1 DEF LedgerTypes
    <3> HIDE DEF usable
    <3> QED BY <1>8, <2>1, <3>1
  <2>3. Len(lots') <= MaxLots
    BY <1>1, <1>6, <1>8, <1>13
  <2> QED BY <1>1, <1>8, <1>13, <2>2, <2>3 DEF LedgerTypes
<1> HIDE DEF usable
<1>15. OrdersAdvance
  BY <1>8 DEF OrdersAdvance
<1>16. ASSUME NEW j \in (Len(lots) + 1)..(Len(lots) + n)
       PROVE  /\ j \in LotIds' /\ \E i \in S : lots'[j] = fresh[i]
              /\ LotInv(j)'
  <2>1. PICK k \in 1..n : j = Len(lots) + k
    <3>1. j - Len(lots) \in 1..n /\ j = Len(lots) + (j - Len(lots))
      BY <1>1, <1>6
    <3> QED BY <3>1
  <2>2. PICK i \in S : lots'[j] = fresh[i]
    BY <1>6, <1>13, <2>1
  <2>3. LotInv(i) /\ i \in LotIds /\ i < j
    BY <1>1, <1>3 DEF LedgerInv, LotsInv
  <2>4. /\ lots'[j].from = i /\ lots'[j].remaining = send[l].took[i] /\ lots'[j].held = 0
        /\ lots'[j].status = status(i) /\ lots'[j].expires = lots[i].expires
        /\ lots'[j].letter = l /\ lots'[j].source = "send_failed" /\ lots'[j].takenBy = "none"
        /\ lots'[j].pack = lots[i].pack
    BY <1>10, <2>2 DEF NoDispute
  <2>5. send[l].took[i] \in Nat /\ send[l].took[i] # 0 /\ lots[i].status # "revoked"
    <3>1. send[l].took[i] > 0 /\ lots[i].status # "revoked"
      BY <1>2 DEF Returnable
    <3> QED BY <1>9, <2>3, <3>1
  <2>6. (Past(lots[j])' <=> Past(lots[i])) /\ orders' = orders
    BY <1>8, <2>4 DEF Past
  <2>7. status(i) \in {"expired", "active"} /\ (status(i) = "expired" => Past(lots[i]))
    OBVIOUS
  <2> HIDE DEF status
  <2>8. "none" \notin Disputes
    BY ConstantFacts
  <2>9. LotInv(j)'
    BY <2>3, <2>4, <2>5, <2>6, <2>7, <2>8 DEF LotInv
  <2> QED BY <1>1, <1>6, <1>13, <2>1, <2>2, <2>9
<1>17. LotsInv' /\ TookInv' /\ LotsStay
  BY <1>6, <1>8, <1>13, <1>14, <1>15, <1>16, AppendKeeps
<1>18. ASSUME NEW p \in Packs PROVE Bought(p)'
  <2>1. Valued(p) /\ Valued(p)' /\ LotsTyped' /\ IsFiniteSet(Sends) /\ PackCredits \in Nat
    BY <1>1, <1>14, ValuesAre, NextFacts, ConstantFacts
  <2>2. PICK amount \in [LotIds -> Nat] : amount = [i \in LotIds |-> send[l].took[i]]
    BY <1>9
  <2> DEFINE D == LotIds
             E == LotIds'
             w == Worth(p)
             v == Worth(p)'
             x == Share(S, amount, p)
             o == Outside(p)
             m == Outside(p)'
             y == [k \in Sends |-> IF k = l THEN SumFunctionOnSet(x, D) ELSE 0]
  <2>3. x \in [D -> Nat] /\ SumFunctionOnSet(v, E) <= SumFunctionOnSet(v, D) + SumFunctionOnSet(x, D)
    <3>1. \A k \in 1..n : /\ lots'[Len(lots) + k].pack = lots[given[k]].pack
                          /\ lots'[Len(lots) + k].remaining = amount[given[k]]
                          /\ lots'[Len(lots) + k].held = 0
      <4> SUFFICES ASSUME NEW k \in 1..n
                   PROVE  /\ lots'[Len(lots) + k].pack = lots[given[k]].pack
                          /\ lots'[Len(lots) + k].remaining = amount[given[k]]
                          /\ lots'[Len(lots) + k].held = 0
        OBVIOUS
      <4>1. given[k] \in S /\ given[k] \in LotIds /\ lots'[Len(lots) + k] = fresh[given[k]]
        BY <1>3, <1>6, <1>13
      <4> QED BY <1>10, <2>2, <4>1
    <3>2. LotIds' = 1..(Len(lots) + n)
      BY <1>13
    <3> QED BY <1>3, <1>6, <1>14, <3>1, <3>2, GivenBack
  <2>4. \A i \in D : v[i] <= w[i]
    <3> SUFFICES ASSUME NEW i \in LotIds PROVE v[i] <= w[i]
      OBVIOUS
    <3>1. lots'[i] = lots[i] /\ i \in LotIds' /\ (Owed(i)' = Owed(i) \/ Owed(i)' = 0)
      BY <1>13 DEF Owed
    <3>2. lots[i].remaining \in Nat /\ Owed(i) \in Nat
      BY <1>1 DEF LotsTyped, Lot, Owed
    <3>3. v[i] = IF lots[i].pack = p THEN lots[i].remaining + Owed(i)' ELSE 0
      BY <3>1 DEF Worth
    <3>4. w[i] = IF lots[i].pack = p THEN lots[i].remaining + Owed(i) ELSE 0
      BY DEF Worth
    <3> HIDE DEF v, w
    <3> QED BY <3>1, <3>2, <3>3, <3>4
  <2>5. \A k \in Sends : m[k] <= o[k]
    BY <1>1, <1>8, <1>14, <1>17, OutsideFalls DEF LedgerInv
  <2>6. m[l] + SumFunctionOnSet(x, D) <= o[l]
    <3> DEFINE f == TookOf(l, p)'
               g == TookOf(l, p)
               h == [i \in D |-> f[i]]
    <3>1. f \in [E -> Nat] /\ g \in [D -> Nat]
      BY <2>1 DEF Valued
    <3>2. D \in SUBSET E /\ IsFiniteSet(D) /\ IsFiniteSet(E)
      BY <1>1, <1>13, <2>1 DEF LotsTyped
    <3>3. \A i \in E : f[i] # 0 => i \in D
      <4> SUFFICES ASSUME NEW i \in LotIds', f[i] # 0 PROVE i \in LotIds
        OBVIOUS
      <4>1. send'[l].took[i] # 0
        BY DEF TookOf
      <4>2. i \in 1..MaxLots
        <5>1. MaxLots \in Nat /\ Len(lots') <= MaxLots
          BY <1>14, ConstantFacts DEF LedgerTypes
        <5> QED BY <2>1, <5>1 DEF LotsTyped
      <4> QED BY <1>8, <4>1, <4>2 DEF LedgerInv, TookInv
    <3>4. \A i \in D : f[i] + x[i] <= g[i]
      <4> SUFFICES ASSUME NEW i \in LotIds PROVE f[i] + x[i] <= g[i]
        OBVIOUS
      <4>1. i \in LotIds' /\ lots'[i] = lots[i] /\ send' = send /\ send[l].took[i] \in Nat
        BY <1>8, <1>9, <1>13
      <4>2. CASE i \in S /\ lots[i].pack = p
        <5>1. PICK k \in 1..n : given[k] = i
          BY <1>6, <4>2
        <5>2. /\ Len(lots) + k \in LotIds' /\ lots'[Len(lots) + k].from = i
              /\ lots'[Len(lots) + k].letter = l
          <6>1. Len(lots) + k \in LotIds' /\ lots'[Len(lots) + k] = fresh[i]
            BY <1>1, <1>6, <1>13, <5>1
          <6>2. fresh[i].from = i /\ fresh[i].letter = l
            BY <1>10, <4>2
          <6> QED BY ONLY <6>1, <6>2
        <5>3. f[i] = 0
          BY <4>1, <5>2 DEF TookOf
        <5>4. ~\E j \in LotIds : lots[j].letter = l
          <6>1. ASSUME NEW j \in LotIds, lots[j].letter = l PROVE FALSE
            <7>1. LotInv(j) /\ l # NoLetter
              BY ConstantFacts DEF LedgerInv, LotsInv, NoLetter
            <7> QED BY <1>8, <6>1, <7>1 DEF LotInv, HasReturned
          <6> QED BY <6>1
        <5>5. g[i] = send[l].took[i]
          BY <4>2, <5>4 DEF TookOf
        <5>6. x[i] = send[l].took[i]
          BY <2>2, <4>2 DEF Share
        <5> QED BY <4>1, <5>3, <5>5, <5>6
      <4>3. CASE ~(i \in S /\ lots[i].pack = p)
        <5>1. x[i] = 0
          BY <4>3 DEF Share
        <5>2. f[i] = g[i] \/ f[i] = 0
          BY <1>13, <4>1 DEF TookOf
        <5>3. f[i] \in Nat /\ g[i] \in Nat
          BY <3>1, <4>1
        <5> HIDE DEF f, g, x
        <5> QED BY <5>1, <5>2, <5>3
      <4> QED BY <4>2, <4>3
    <3>5. m[l] = SumFunctionOnSet(f, E) /\ o[l] = SumFunctionOnSet(g, D)
      BY DEF Outside
    <3> HIDE DEF f, g, x, D, E, m, o
    <3>6. h \in [D -> Nat] /\ \A i \in D : h[i] = f[i]
      BY <3>1, <3>2
    <3> HIDE DEF h
    <3>7. SumFunctionOnSet(f, E) <= SumFunctionOnSet(h, D)
      <4>1. \A i \in E : f[i] # 0 => i \in D /\ f[i] <= h[i]
        BY <3>1, <3>3, <3>6
      <4> QED BY <3>1, <3>2, <3>6, <4>1, SumWithin
    <3>8. SumFunctionOnSet(h, D) + SumFunctionOnSet(x, D) <= SumFunctionOnSet(g, D)
      <4>1. \A i \in D : h[i] + x[i] <= g[i]
        BY <3>4, <3>6
      <4> QED BY <2>3, <3>1, <3>2, <3>6, <4>1, SumJoins
    <3>9. /\ SumFunctionOnSet(f, E) \in Nat /\ SumFunctionOnSet(h, D) \in Nat
          /\ SumFunctionOnSet(x, D) \in Nat /\ SumFunctionOnSet(g, D) \in Nat
      BY <2>3, <3>1, <3>2, <3>6, SumTypes
    <3>10. SumFunctionOnSet(f, E) + SumFunctionOnSet(x, D) <= SumFunctionOnSet(g, D)
      BY <3>7, <3>8, <3>9
    <3> QED BY <3>5, <3>10
  <2>7. /\ w \in [D -> Nat] /\ v \in [E -> Nat] /\ o \in [Sends -> Nat] /\ m \in [Sends -> Nat]
        /\ IsFiniteSet(D) /\ D \in SUBSET E /\ IsFiniteSet(E)
    BY <1>1, <1>13, <2>1 DEF Valued, LotsTyped
  <2>8. SumFunctionOnSet(w, D) + SumFunctionOnSet(o, Sends) <= PackCredits
    BY DEF LedgerInv, Bought
  <2> HIDE DEF w, v, x, o, m, D, E
  <2>9. SumFunctionOnSet(v, D) <= SumFunctionOnSet(w, D)
    <3>1. \A i \in D : v[i] # 0 => i \in D /\ v[i] <= w[i]
      BY <2>4
    <3>2. D \in SUBSET D
      OBVIOUS
    <3> QED BY <2>7, <3>1, <3>2, SumWithin
  <2>10. /\ SumFunctionOnSet(w, D) \in Nat /\ SumFunctionOnSet(v, D) \in Nat /\ SumFunctionOnSet(v, E) \in Nat
         /\ SumFunctionOnSet(x, D) \in Nat
         /\ SumFunctionOnSet(o, Sends) \in Nat /\ SumFunctionOnSet(m, Sends) \in Nat
    BY <2>1, <2>3, <2>7, SumTypes
  <2>11. y \in [Sends -> Nat] /\ y[l] = SumFunctionOnSet(x, D) /\ \A k \in Sends : k # l => y[k] = 0
    BY <2>10
  <2> HIDE DEF y
  <2>12. SumFunctionOnSet(m, Sends) + SumFunctionOnSet(y, Sends) <= SumFunctionOnSet(o, Sends)
    <3>1. \A k \in Sends : m[k] + y[k] <= o[k]
      <4> SUFFICES ASSUME NEW k \in Sends PROVE m[k] + y[k] <= o[k]
        OBVIOUS
      <4>1. m[k] \in Nat /\ o[k] \in Nat /\ m[k] <= o[k]
        BY <2>5, <2>7
      <4>2. CASE k = l
        BY <2>6, <2>11, <4>2
      <4>3. CASE k # l
        BY <2>11, <4>1, <4>3
      <4> QED BY <4>2, <4>3
    <3> QED BY <2>1, <2>7, <2>11, <3>1, SumJoins
  <2>13. SumFunctionOnSet(y, Sends) = SumFunctionOnSet(x, D)
    BY <2>1, <2>11, SumOfOne
  <2>14. SumFunctionOnSet(v, E) + SumFunctionOnSet(m, Sends) <= PackCredits
    BY <2>1, <2>3, <2>8, <2>9, <2>10, <2>12, <2>13
  <2> QED BY <2>14 DEF Bought, v, m, E
<1> QED BY <1>14, <1>17, <1>18 DEF LedgerInv

\* A dispute that is won makes good the lots it took.
LEMMA WonStep == ASSUME LedgerInv, NEW d \in Disputes, Won(d) PROVE LedgerInv'
<1>1. LedgerTypes /\ LotsTyped /\ Len(lots) \in Nat /\ LotIds = 1..Len(lots) /\ IsFiniteSet(LotIds)
  BY LotFacts DEF LedgerInv, LotsTyped
<1>2. PICK S, fresh : S = Repayable(d) /\ fresh = WonRow(d)
  OBVIOUS
<1>3. S \in SUBSET LotIds /\ IsFiniteSet(S)
  <2>1. S \in SUBSET LotIds
    BY <1>2, WonRepays
  <2> QED BY ONLY <1>1, <2>1, FS_Subset
<1>4. PICK n, given : Repaid(S, fresh, n, given)
  BY <1>2, WonRepays
<1>6. /\ n \in Nat /\ given \in [1..n -> S] /\ \A a, b \in 1..n : given[a] = given[b] => a = b
      /\ \A x \in S : \E a \in 1..n : given[a] = x
  BY <1>4 DEF Repaid
<1> DEFINE held == [i \in LotIds |-> lots[i].held]
<1>8. /\ n + Len(lots) <= MaxLots /\ orders[DisputedPack[d]] # "paid"
      /\ credits' = credits + SumOf(held, S)
      /\ dispute' = [dispute EXCEPT ![d] = "won"]
      /\ orders' = [orders EXCEPT ![DisputedPack[d]] = "disputed"]
      /\ UNCHANGED <<refundedAt, send, clock, unfixed>>
  <2>1. Len(Ordered(Repayable(d))) = n
    BY <1>2, <1>4 DEF Repaid
  <2>2. n + Len(lots) <= MaxLots
    <3>1. Room(Len(Ordered(Repayable(d))))
      BY DEF Won, Repayable
    <3> QED BY <1>1, <1>6, <2>1, <3>1 DEF Room
  <2>3. credits' = credits + SumOf(held, S)
    BY <1>2 DEF Won, Repayable
  <2> QED BY <2>2, <2>3 DEF Won
<1>9. held \in [LotIds -> Nat]
  <2>1. \A i \in LotIds : lots[i].held \in Nat
    BY <1>1 DEF LotsTyped, Lot
  <2> QED BY <2>1
<1>10. ASSUME NEW i \in S
       PROVE  /\ fresh[i].pack = lots[i].pack /\ fresh[i].remaining = lots[i].held
              /\ fresh[i].held = 0 /\ fresh[i].from = i /\ fresh[i].letter = NoLetter
              /\ fresh[i].source = "dispute_won" /\ fresh[i].status = "active"
              /\ fresh[i].expires = lots[i].expires /\ fresh[i].takenBy = NoDispute
  BY <1>2, WonRepays
<1> HIDE DEF held
<1>13. /\ LotIds' = 1..(Len(lots) + n) /\ Len(lots') = Len(lots) + n /\ lots' \in Seq(Lot)
       /\ \A i \in LotIds : i \in LotIds' /\ lots'[i] = lots[i]
       /\ \A k \in 1..n : lots'[Len(lots) + k] = fresh[given[k]]
  BY <1>4 DEF Repaid
<1>p. DisputedPack[d] \in Packs
  BY ConstantFacts
<1>14. LedgerTypes'
  <2>1. SumOf(held, S) \in Nat
    BY <1>3, <1>9, SameSum, SumTypes
  <2>2. credits' \in Nat
    <3>1. credits \in Nat
      BY <1>1 DEF LedgerTypes
    <3> QED BY <1>8, <2>1, <3>1
  <2>3. Len(lots') <= MaxLots
    BY <1>1, <1>6, <1>8, <1>13
  <2>4. orders' \in [Packs -> OrderStatus] /\ dispute' \in [Disputes -> DisputeStatus]
    BY <1>1, <1>8, <1>p DEF LedgerTypes, OrderStatus, DisputeStatus
  <2> QED BY <1>1, <1>8, <1>13, <2>2, <2>3, <2>4 DEF LedgerTypes
<1>15. OrdersAdvance /\ orders'[DisputedPack[d]] = "disputed"
  BY <1>1, <1>8, <1>p DEF OrdersAdvance, LedgerTypes
<1>s. ASSUME NEW i \in S
      PROVE  lots[i].pack = DisputedPack[d] /\ lots[i].held \in Nat /\ lots[i].held # 0
             /\ ~\E j \in LotIds : lots[j].from = i /\ lots[j].source = "dispute_won"
  <2>1. i \in Compensable(d)
    BY <1>2 DEF Repayable
  <2>2. lots[i].held \in Nat
    BY <1>1, <1>3 DEF LotsTyped, Lot
  <2> QED BY <2>1, <2>2 DEF Compensable
<1>16. ASSUME NEW j \in (Len(lots) + 1)..(Len(lots) + n)
       PROVE  LotInv(j)'
  <2>1. PICK k \in 1..n : j = Len(lots) + k
    <3>1. j - Len(lots) \in 1..n /\ j = Len(lots) + (j - Len(lots))
      BY <1>1, <1>6
    <3> QED BY <3>1
  <2>2. PICK i \in S : lots'[j] = fresh[i]
    BY <1>6, <1>13, <2>1
  <2>3. LotInv(i) /\ i \in LotIds /\ i < j
    BY <1>1, <1>3 DEF LedgerInv, LotsInv
  <2>4. /\ lots'[j].from = i /\ lots'[j].remaining = lots[i].held /\ lots'[j].held = 0
        /\ lots'[j].status = "active" /\ lots'[j].expires = lots[i].expires
        /\ lots'[j].letter = NoLetter /\ lots'[j].source = "dispute_won" /\ lots'[j].takenBy = "none"
        /\ lots'[j].pack = lots[i].pack
    BY <1>10, <2>2 DEF NoDispute
  <2>5. lots[i].held \in Nat /\ lots[i].held # 0 /\ orders'[lots[i].pack] = "disputed"
    BY <1>15, <1>s
  <2>6. "none" \notin Disputes
    BY ConstantFacts
  <2> QED BY <2>3, <2>4, <2>5, <2>6 DEF LotInv
<1>17. LotsInv' /\ TookInv' /\ LotsStay
  BY <1>6, <1>8, <1>13, <1>14, <1>15, <1>16, AppendKeeps
<1>18. ASSUME NEW p \in Packs PROVE Bought(p)'
  <2>1. Valued(p) /\ Valued(p)' /\ LotsTyped' /\ IsFiniteSet(Sends) /\ PackCredits \in Nat
    BY <1>1, <1>14, ValuesAre, NextFacts, ConstantFacts
  <2> DEFINE D == LotIds
             E == LotIds'
             w == Worth(p)
             v == Worth(p)'
             x == Share(S, held, p)
             o == Outside(p)
             m == Outside(p)'
  <2>3. x \in [D -> Nat] /\ SumFunctionOnSet(v, E) <= SumFunctionOnSet(v, D) + SumFunctionOnSet(x, D)
    <3>1. \A k \in 1..n : /\ lots'[Len(lots) + k].pack = lots[given[k]].pack
                          /\ lots'[Len(lots) + k].remaining = held[given[k]]
                          /\ lots'[Len(lots) + k].held = 0
      <4> SUFFICES ASSUME NEW k \in 1..n
                   PROVE  /\ lots'[Len(lots) + k].pack = lots[given[k]].pack
                          /\ lots'[Len(lots) + k].remaining = held[given[k]]
                          /\ lots'[Len(lots) + k].held = 0
        OBVIOUS
      <4>1. given[k] \in S /\ given[k] \in LotIds /\ lots'[Len(lots) + k] = fresh[given[k]]
        BY <1>3, <1>6, <1>13
      <4> QED BY <1>10, <4>1 DEF held
    <3>2. LotIds' = 1..(Len(lots) + n)
      BY <1>13
    <3> QED BY <1>3, <1>6, <1>9, <1>14, <3>1, <3>2, GivenBack
  <2>4. \A i \in D : v[i] + x[i] <= w[i]
    <3> SUFFICES ASSUME NEW i \in LotIds PROVE v[i] + x[i] <= w[i]
      OBVIOUS
    <3>1. lots'[i] = lots[i] /\ i \in LotIds' /\ (Owed(i)' = Owed(i) \/ Owed(i)' = 0)
      BY <1>13 DEF Owed
    <3>2. lots[i].remaining \in Nat /\ Owed(i) \in Nat /\ lots[i].held \in Nat
      BY <1>1 DEF LotsTyped, Lot, Owed
    <3>3. v[i] = IF lots[i].pack = p THEN lots[i].remaining + Owed(i)' ELSE 0
      BY <3>1 DEF Worth
    <3>4. w[i] = IF lots[i].pack = p THEN lots[i].remaining + Owed(i) ELSE 0
      BY DEF Worth
    <3>5. x[i] = IF i \in S /\ lots[i].pack = p THEN lots[i].held ELSE 0
      BY DEF Share, held
    <3>6. i \in S => Owed(i)' = 0 /\ Owed(i) = lots[i].held
      <4> SUFFICES ASSUME i \in S PROVE Owed(i)' = 0 /\ Owed(i) = lots[i].held
        OBVIOUS
      <4>1. PICK k \in 1..n : given[k] = i
        BY <1>6
      <4>2. /\ Len(lots) + k \in LotIds' /\ lots'[Len(lots) + k].from = i
            /\ lots'[Len(lots) + k].source = "dispute_won"
        <5>1. Len(lots) + k \in LotIds' /\ lots'[Len(lots) + k] = fresh[i]
          BY <1>1, <1>6, <1>13, <4>1
        <5>2. fresh[i].from = i /\ fresh[i].source = "dispute_won"
          BY <1>10
        <5> QED BY ONLY <5>1, <5>2
      <4> QED BY <1>s, <4>2 DEF Owed
    <3> HIDE DEF v, w, x
    <3> QED BY <3>1, <3>2, <3>3, <3>4, <3>5, <3>6
  <2>5. \A k \in Sends : m[k] <= o[k]
    BY <1>1, <1>8, <1>14, <1>17, OutsideFalls DEF LedgerInv
  <2>7. /\ w \in [D -> Nat] /\ v \in [E -> Nat] /\ o \in [Sends -> Nat] /\ m \in [Sends -> Nat]
        /\ IsFiniteSet(D) /\ D \in SUBSET E /\ IsFiniteSet(E)
    BY <1>1, <1>13, <2>1 DEF Valued, LotsTyped
  <2>8. SumFunctionOnSet(w, D) + SumFunctionOnSet(o, Sends) <= PackCredits
    BY DEF LedgerInv, Bought
  <2> HIDE DEF w, v, x, o, m, D, E
  <2>9. SumFunctionOnSet(v, D) + SumFunctionOnSet(x, D) <= SumFunctionOnSet(w, D)
    <3> DEFINE u == [i \in D |-> v[i]]
    <3>1. u \in [D -> Nat] /\ \A i \in D : u[i] = v[i]
      BY <2>7
    <3> HIDE DEF u
    <3>2. SumFunctionOnSet(u, D) + SumFunctionOnSet(x, D) <= SumFunctionOnSet(w, D)
      <4>1. \A i \in D : u[i] + x[i] <= w[i]
        BY <2>4, <3>1
      <4> QED BY <2>3, <2>7, <3>1, <4>1, SumJoins
    <3>3. SumFunctionOnSet(v, D) <= SumFunctionOnSet(u, D)
      <4>1. \A i \in D : v[i] # 0 => i \in D /\ v[i] <= u[i]
        BY <2>7, <3>1
      <4>2. D \in SUBSET D
        OBVIOUS
      <4> QED BY <2>7, <3>1, <4>1, <4>2, SumWithin
    <3>4. /\ SumFunctionOnSet(v, D) \in Nat /\ SumFunctionOnSet(u, D) \in Nat
          /\ SumFunctionOnSet(x, D) \in Nat /\ SumFunctionOnSet(w, D) \in Nat
      BY <2>3, <2>7, <3>1, SumTypes
    <3> QED BY <3>2, <3>3, <3>4
  <2>10. SumFunctionOnSet(m, Sends) <= SumFunctionOnSet(o, Sends)
    <3>1. \A k \in Sends : m[k] # 0 => k \in Sends /\ m[k] <= o[k]
      BY <2>5
    <3>2. Sends \in SUBSET Sends
      OBVIOUS
    <3> QED BY <2>1, <2>7, <3>1, <3>2, SumWithin
  <2>11. /\ SumFunctionOnSet(w, D) \in Nat /\ SumFunctionOnSet(v, D) \in Nat /\ SumFunctionOnSet(v, E) \in Nat
         /\ SumFunctionOnSet(x, D) \in Nat
         /\ SumFunctionOnSet(o, Sends) \in Nat /\ SumFunctionOnSet(m, Sends) \in Nat
    BY <2>1, <2>3, <2>7, SumTypes
  <2>12. SumFunctionOnSet(v, E) + SumFunctionOnSet(m, Sends) <= PackCredits
    BY <2>1, <2>3, <2>8, <2>9, <2>10, <2>11
  <2> QED BY <2>12 DEF Bought, v, m, E
<1> QED BY <1>14, <1>17, <1>18 DEF LedgerInv

LEMMA AvailableIs ==
    ASSUME LedgerTypes
    PROVE  /\ IsFiniteSet({i \in LotIds : IsSpendable(i)})
           /\ Available = SumFunctionOnSet(Remaining, {i \in LotIds : IsSpendable(i)})
           /\ Available \in Nat
<1>1. IsFiniteSet({i \in LotIds : IsSpendable(i)})
  BY LotFacts, FS_Subset DEF LotsTyped
<1>2. Available = SumFunctionOnSet(Remaining, {i \in LotIds : IsSpendable(i)})
  BY SameSum DEF Available
<1>3. {i \in LotIds : IsSpendable(i)} \in SUBSET LotIds
  OBVIOUS
<1> HIDE DEF IsSpendable
<1> QED BY <1>1, <1>2, <1>3, RemainingIs, SumTypes

\* The steps that touch no lot: the orders', the letters', time and the daily task.
LEMMA QuietSteps ==
    ASSUME LedgerInv,
           \/ \E p \in Packs : RefundPending(p)
           \/ \E l \in Sends : Mailed(l)
           \/ \E d \in Disputes : Inquiry(d)
           \/ Tick \/ ReconcileReads \/ ReconcileWrites \/ ReconcileDies \/ UNCHANGED ledgerVars
    PROVE  LedgerInv' /\ UNCHANGED lots
<1>1. LedgerTypes /\ Available \in Nat /\ Never \in Nat
  BY AvailableIs, ConstantFacts DEF LedgerInv
<1> DEFINE Quiet == /\ LedgerTypes' /\ UNCHANGED lots /\ clock' >= clock /\ OrdersAdvance
                    /\ \A l \in Sends : send'[l].took = send[l].took
<1>c. clock \in Nat /\ clock >= clock
  BY <1>1 DEF LedgerTypes
<1>2. ASSUME NEW p \in Packs, RefundPending(p) PROVE Quiet
  BY <1>1, <1>2, <1>c DEF RefundPending, LedgerTypes, OrderStatus, OrdersAdvance
<1>3. ASSUME NEW l \in Sends, Mailed(l) PROVE Quiet
  <2>1. /\ send' = [send EXCEPT ![l].state = "mailed"]
        /\ UNCHANGED <<refundedAt, lots, credits, orders, dispute, clock, unfixed>>
    BY <1>3 DEF Mailed
  <2>2. /\ send' \in [Sends -> [state : SendState, took : [1..MaxLots -> 0..Cost]]]
        /\ \A k \in Sends : send'[k].took = send[k].took
    BY <1>1, <2>1 DEF LedgerTypes, SendState
  <2> QED BY <1>1, <1>c, <2>1, <2>2 DEF LedgerTypes, OrdersAdvance
<1>4. ASSUME NEW d \in Disputes, Inquiry(d) PROVE Quiet
  <2>1. DisputedPack[d] \in Packs
    BY ConstantFacts
  <2> QED BY <1>1, <1>4, <1>c, <2>1 DEF Inquiry, LedgerTypes, OrderStatus, DisputeStatus, OrdersAdvance
<1>5. ASSUME Tick PROVE Quiet
  BY <1>1, <1>5, <1>c DEF Tick, LedgerTypes, OrdersAdvance
<1>6. ASSUME ReconcileReads \/ ReconcileWrites \/ ReconcileDies \/ UNCHANGED ledgerVars PROVE Quiet
  <2>1. credits' \in Nat /\ unfixed' \in Nat \cup {NothingRead}
    BY <1>1, <1>6 DEF ReconcileReads, ReconcileWrites, ReconcileDies, ledgerVars, LedgerTypes
  <2>2. UNCHANGED <<refundedAt, lots, send, orders, dispute, clock>>
    BY <1>6 DEF ReconcileReads, ReconcileWrites, ReconcileDies, ledgerVars
  <2> QED BY <1>1, <1>c, <2>1, <2>2 DEF LedgerTypes, OrdersAdvance
<1>7. Quiet
  BY <1>2, <1>3, <1>4, <1>5, <1>6
<1> QED BY <1>7, LedgerStays

\* The steps that take a pack back.
Reversal(p, by, s) ==
    /\ by \in Disputes => p = DisputedPack[by]
    /\ RevokeWholePack(p, by) /\ orders[p] # "paid"
    /\ orders' = [orders EXCEPT ![p] = s]
    /\ refundedAt' \subseteq Packs /\ dispute' \in [Disputes -> DisputeStatus]
    /\ UNCHANGED <<send, clock, unfixed>>

LEMMA ReversalSteps ==
    ASSUME LedgerTypes,
           \/ \E p \in Packs : RefundSucceeds(p)
           \/ \E d \in Disputes : Loss(d) \/ Lost(d)
    PROVE  \E p \in Packs, by \in Disputes \cup {"refund"}, s \in {"refunded", "disputed"} : Reversal(p, by, s)
<1>1. "refund" \notin Disputes /\ \A d \in Disputes : DisputedPack[d] \in Packs
  BY ConstantFacts
<1>2. ASSUME NEW p \in Packs, RefundSucceeds(p) PROVE Reversal(p, "refund", "refunded")
  BY <1>1, <1>2 DEF RefundSucceeds, Reversal, LedgerTypes
<1>3. ASSUME NEW d \in Disputes, Loss(d) \/ Lost(d) PROVE Reversal(DisputedPack[d], d, "disputed")
  <2>1. dispute' \in [Disputes -> DisputeStatus]
    BY <1>3 DEF Loss, Lost, LedgerTypes, DisputeStatus
  <2>2. /\ RevokeWholePack(DisputedPack[d], d) /\ orders[DisputedPack[d]] # "paid"
        /\ orders' = [orders EXCEPT ![DisputedPack[d]] = "disputed"]
        /\ UNCHANGED <<refundedAt, send, clock, unfixed>>
    BY <1>3 DEF Loss, Lost
  <2> QED BY <2>1, <2>2 DEF Reversal, LedgerTypes
<1>4. ASSUME NEW p \in Packs, RefundSucceeds(p)
      PROVE  \E q \in Packs, by \in Disputes \cup {"refund"}, s \in {"refunded", "disputed"} : Reversal(q, by, s)
  BY <1>2, <1>4
<1>5. ASSUME NEW d \in Disputes, Loss(d) \/ Lost(d)
      PROVE  \E q \in Packs, by \in Disputes \cup {"refund"}, s \in {"refunded", "disputed"} : Reversal(q, by, s)
  BY <1>1, <1>3, <1>5
<1> QED BY <1>4, <1>5

LEMMA LedgerInitially == ASSUME LedgerInit PROVE LedgerInv
<1> DEFINE new == NewLot(PromoCredits, NoPack, "grant", PromoExpiry, 0, NoLetter, "active")
<1>1. new \in Lot
  BY ConstantFacts DEF NewLot, Lot, NoLetter, NoPack, NoDispute, Source, LotStatus
<1>2. lots = <<new>> /\ LotIds = {1} /\ lots[1] = new
  BY DEF LedgerInit, LotIds
<1>3. /\ new.pack = NoPack /\ new.remaining = PromoCredits /\ new.held = 0 /\ new.from = 0
      /\ new.status = "active" /\ new.expires = PromoExpiry /\ new.letter = NoLetter
      /\ new.takenBy = "none"
  BY DEF NewLot, NoDispute
<1> HIDE DEF new
<1>4. LedgerTypes
  <2>1. lots \in Seq(Lot) /\ Len(lots) = 1
    BY <1>1, <1>2
  <2>2. send \in [Sends -> [state : SendState, took : [1..MaxLots -> 0..Cost]]]
    BY ConstantFacts DEF LedgerInit, SendState
  <2>3. credits \in Nat /\ MaxLots >= 1 /\ clock \in 0..Never
    BY ConstantFacts DEF LedgerInit
  <2> QED BY <2>1, <2>2, <2>3 DEF LedgerInit, LedgerTypes, OrderStatus, DisputeStatus
<1>5. LotsInv
  <2>1. LotInv(1)
    BY <1>2, <1>3, ConstantFacts DEF LotInv
  <2> QED BY <1>2, <2>1 DEF LotsInv
<1>6. TookInv
  BY DEF LedgerInit, TookInv
<1>7. ASSUME NEW p \in Packs PROVE Bought(p)
  <2>1. Valued(p) /\ IsFiniteSet(LotIds) /\ IsFiniteSet(Sends) /\ PackCredits \in Nat
    BY <1>4, ValuesAre, LotFacts, ConstantFacts DEF LotsTyped
  <2> DEFINE w == Worth(p)
             o == Outside(p)
             D == LotIds
  <2>2. /\ w \in [D -> Nat] /\ o \in [Sends -> Nat] /\ IsFiniteSet(D)
        /\ D \in SUBSET D /\ Sends \in SUBSET Sends
    BY <2>1 DEF Valued
  <2>3. p # NoPack
    BY ConstantFacts DEF NoPack
  <2>4. \A i \in D : w[i] = 0
    BY <1>2, <1>3, <2>3 DEF Worth
  <2>5. \A l \in Sends : o[l] = 0
    <3> SUFFICES ASSUME NEW l \in Sends PROVE o[l] = 0
      OBVIOUS
    <3> DEFINE f == TookOf(l, p)
    <3>1. f \in [D -> Nat] /\ \A i \in D : f[i] = 0
      <4>1. \A i \in D : f[i] = 0
        BY <1>2, <1>3, <2>3 DEF TookOf
      <4> QED BY <2>1, <4>1 DEF Valued
    <3>2. o[l] = SumFunctionOnSet(f, D)
      BY DEF Outside
    <3> HIDE DEF f, D, o
    <3> QED BY <2>2, <3>1, <3>2, SumOfNone
  <2> HIDE DEF w, o, D
  <2>6. SumFunctionOnSet(w, D) = 0 /\ SumFunctionOnSet(o, Sends) = 0
    BY <2>1, <2>2, <2>4, <2>5, SumOfNone
  <2>7. SumFunctionOnSet(w, D) + SumFunctionOnSet(o, Sends) <= PackCredits
    BY <2>1, <2>6
  <2> QED BY <2>7 DEF Bought, w, o, D
<1> QED BY <1>4, <1>5, <1>6, <1>7 DEF LedgerInv

LEMMA LedgerKeeps == ASSUME LedgerInv, [LedgerNext]_ledgerVars PROVE LedgerInv'
<1>1. ASSUME NEW p \in Packs, Grant(p) PROVE LedgerInv'
  BY <1>1, GrantStep
<1>2. ASSUME NEW l \in Sends, Deduct(l) PROVE LedgerInv'
  BY <1>2, DeductStep
<1>3. ASSUME NEW l \in Sends, Return(l) PROVE LedgerInv'
  BY <1>3, ReturnStep
<1>4. ASSUME NEW d \in Disputes, Won(d) PROVE LedgerInv'
  BY <1>4, WonStep
<1>5. ASSUME \/ \E p \in Packs : RefundSucceeds(p)
             \/ \E d \in Disputes : Loss(d) \/ Lost(d)
      PROVE  LedgerInv'
  <2>1. PICK p \in Packs, by \in Disputes \cup {"refund"}, s \in {"refunded", "disputed"} : Reversal(p, by, s)
    BY <1>5, ReversalSteps DEF LedgerInv
  <2> QED BY <2>1, RevokeStep DEF Reversal
<1>6. ASSUME MarkExpired PROVE LedgerInv'
  BY <1>6, MarkExpiredStep
<1>7. ASSUME \/ \E p \in Packs : RefundPending(p)
             \/ \E l \in Sends : Mailed(l)
             \/ \E d \in Disputes : Inquiry(d)
             \/ Tick \/ ReconcileReads \/ ReconcileWrites \/ ReconcileDies \/ UNCHANGED ledgerVars
      PROVE  LedgerInv'
  BY <1>7, QuietSteps
<1> QED BY <1>1, <1>2, <1>3, <1>4, <1>5, <1>6, <1>7 DEF LedgerNext

LEMMA LedgerIsSound == LedgerSpec => []LedgerInv
<1>1. LedgerInit => LedgerInv
  BY LedgerInitially
<1>2. LedgerInv /\ [LedgerNext]_ledgerVars => LedgerInv'
  BY LedgerKeeps
<1> QED BY <1>1, <1>2, PTL DEF LedgerSpec

LEMMA LedgerTyped == ASSUME LedgerInv PROVE LedgerTypeOK
<1>1. LedgerTypes /\ LotsTyped
  BY LotFacts DEF LedgerInv
<1>2. ASSUME NEW i \in LotIds
      PROVE  /\ lots[i].remaining \in Nat /\ lots[i].held \in Nat
             /\ lots[i].pack \in Packs \cup {NoPack}
             /\ lots[i].source \in Source /\ lots[i].status \in LotStatus
             /\ lots[i].from \in 0..(i - 1) /\ lots[i].letter \in Sends \cup {NoLetter}
             /\ lots[i].takenBy \in Disputes \cup {"refund", NoDispute}
             /\ lots[i].status \in {"revoked", "depleted"} <=> lots[i].remaining = 0
  <2>1. lots[i] \in Lot /\ LotInv(i) /\ i \in Nat
    BY <1>1 DEF LotsTyped, LedgerInv, LotsInv
  <2>2. lots[i].from \in Nat /\ lots[i].from < i
    BY <2>1 DEF Lot, LotInv
  <2>3. lots[i].from \in 0..(i - 1)
    BY <2>1, <2>2
  <2> QED BY <2>1, <2>3 DEF Lot, LotInv
<1> QED BY <1>1, <1>2 DEF LedgerTypeOK, LedgerTypes

LEMMA LedgerConserves == ASSUME LedgerInv PROVE NothingFromNothing
<1>1. LedgerTypes /\ LotsTyped /\ IsFiniteSet(LotIds) /\ IsFiniteSet(Sends) /\ PackCredits \in Nat
  BY LotFacts, ConstantFacts DEF LedgerInv, LotsTyped
<1>2. SUFFICES ASSUME NEW p \in Packs
               PROVE  SumOf(Remaining, {i \in LotIds : lots[i].pack = p})
                        + SumOf([l \in Sends |-> Unreturned(l, p)], Sends) <= PackCredits
  BY DEF NothingFromNothing
<1> DEFINE D == LotIds
           S == {i \in LotIds : lots[i].pack = p}
           w == Worth(p)
           o == Outside(p)
           r == Remaining
<1>3. [l \in Sends |-> Unreturned(l, p)] = o
  BY SameSum DEF Unreturned, Outside, TookOf
<1>4. \A i \in S : r[i] # 0 => i \in D /\ r[i] <= w[i]
  <2> SUFFICES ASSUME NEW i \in LotIds, lots[i].pack = p PROVE r[i] <= w[i]
    OBVIOUS
  <2>1. lots[i].remaining \in Nat /\ Owed(i) \in Nat
    BY <1>1 DEF LotsTyped, Lot, Owed
  <2>2. r[i] = lots[i].remaining /\ w[i] = lots[i].remaining + Owed(i)
    BY DEF Remaining, Worth
  <2> QED BY <2>1, <2>2
<1>5. /\ r \in [D -> Nat] /\ w \in [D -> Nat] /\ o \in [Sends -> Nat]
      /\ S \in SUBSET D /\ IsFiniteSet(S) /\ D \in SUBSET D
  <2>1. S \in SUBSET D
    OBVIOUS
  <2> QED BY <1>1, <2>1, RemainingIs, ValuesAre, FS_Subset DEF Valued
<1>6. SumFunctionOnSet(w, D) + SumFunctionOnSet(o, Sends) <= PackCredits
  BY DEF LedgerInv, Bought
<1>7. SumOf(r, S) = SumFunctionOnSet(r, S) /\ SumOf(o, Sends) = SumFunctionOnSet(o, Sends)
  BY SameSum
<1> HIDE DEF D, S, w, o, r
<1>8. SumFunctionOnSet(r, S) <= SumFunctionOnSet(w, D)
  BY <1>1, <1>4, <1>5, SumWithin DEF D
<1>9. /\ SumFunctionOnSet(r, S) \in Nat /\ SumFunctionOnSet(w, D) \in Nat
      /\ SumFunctionOnSet(o, Sends) \in Nat
  <2>1. IsFiniteSet(D) /\ Sends \in SUBSET Sends
    BY <1>1 DEF D
  <2> QED BY <1>1, <1>5, <2>1, SumTypes
<1>10. SumFunctionOnSet(r, S) + SumFunctionOnSet(o, Sends) <= PackCredits
  BY <1>1, <1>6, <1>8, <1>9
<1> QED BY <1>3, <1>7, <1>10 DEF S, r

\* However sends fail and are paid back, and disputes open, are won and open again, the lots of a
\* pack and its sends that did not come back hold no more than the pack granted: LotsAreSound.
\* revokeWholePack, compensateDisputedPacks and returnConsumedCreditsForLetter.
THEOREM LedgerHoldsWhatWasBought == LedgerSpec => []LotsAreSound
<1>1. LedgerInv => LotsAreSound
  BY LedgerTyped, LedgerConserves DEF LotsAreSound
<1> QED BY <1>1, LedgerIsSound, PTL

\* A refunded pack's lots are revoked, those too that a failed send or a dispute won gave it
\* later: RefundedPackIsEmpty, until a second dispute changes the status of its order.
THEOREM RefundTakesThePack == LedgerSpec => []RefundedPackIsEmpty
<1>1. LedgerInv => RefundedPackIsEmpty
  <2> SUFFICES ASSUME LedgerInv, NEW p \in Packs, orders[p] = "refunded",
                      NEW i \in LotIds, lots[i].pack = p
               PROVE  lots[i].remaining = 0
    BY DEF RefundedPackIsEmpty
  <2>1. LotInv(i) /\ p # NoPack
    BY ConstantFacts DEF LedgerInv, LotsInv, NoPack
  <2> QED BY <2>1 DEF LotInv
<1> QED BY <1>1, LedgerIsSound, PTL

MadeGood(d) ==
    NotRefunded(DisputedPack[d]) =>
       \A i \in LotIds : lots[i].takenBy = d /\ lots[i].held > 0 =>
          \E j \in DOMAIN lots' : lots'[j].from = i /\ lots'[j].source = "dispute_won"

LEMMA WonMakesGood == ASSUME LedgerInv, NEW d \in Disputes, Won(d) PROVE MadeGood(d)
<1> SUFFICES ASSUME NotRefunded(DisputedPack[d]), NEW i \in LotIds, lots[i].takenBy = d, lots[i].held > 0
             PROVE  \E j \in DOMAIN lots' : lots'[j].from = i /\ lots'[j].source = "dispute_won"
  BY DEF MadeGood
<1>1. PICK n, given : Repaid(Repayable(d), WonRow(d), n, given)
  BY WonRepays
<1>2. lots[i].pack = DisputedPack[d]
  BY DEF LedgerInv, LotsInv, LotInv
<1>3. CASE \E j \in LotIds : lots[j].from = i /\ lots[j].source = "dispute_won"
  BY <1>1, <1>3 DEF Repaid, LotIds
<1>4. CASE ~\E j \in LotIds : lots[j].from = i /\ lots[j].source = "dispute_won"
  <2>1. i \in Repayable(d)
    BY <1>2, <1>4 DEF Repayable, Compensable
  <2>2. PICK k \in 1..n : given[k] = i
    BY <1>1, <2>1 DEF Repaid
  <2>3. lots'[Len(lots) + k] = WonRow(d)[i] /\ Len(lots) + k \in LotIds'
    <3>1. Len(lots) \in Nat
      BY LotFacts DEF LedgerInv, LotsTyped
    <3> QED BY <1>1, <2>2, <3>1 DEF Repaid
  <2>4. WonRow(d)[i].from = i /\ WonRow(d)[i].source = "dispute_won"
    BY <2>1, WonRepays
  <2> QED BY <2>3, <2>4 DEF LotIds
<1> QED BY <1>3, <1>4

\* A dispute that is won makes good every lot it took, unless the payment is being refunded:
\* WonGivesBack of compensateDisputedPacks.
THEOREM WonDisputeGivesBack == LedgerSpec => WonGivesBack
<1>1. ASSUME LedgerInv, [LedgerNext]_ledgerVars, NEW d \in Disputes, dispute[d] # "won", dispute'[d] = "won"
      PROVE  MadeGood(d)
  <2>1. Won(d)
    <3>1. dispute \in [Disputes -> DisputeStatus]
      BY <1>1 DEF LedgerInv, LedgerTypes
    <3>2. dispute' # dispute
      BY <1>1
    <3>3. PICK e \in Disputes : Inquiry(e) \/ Loss(e) \/ Lost(e) \/ Won(e)
      BY <1>1, <3>2 DEF LedgerNext, ledgerVars, Grant, RefundPending, RefundSucceeds, Deduct, Mailed, Return,
                        Tick,
                        MarkExpired, ReconcileReads, ReconcileWrites, ReconcileDies
    <3>4. PICK s : dispute' = [dispute EXCEPT ![e] = s] /\ (s = "won" => Won(e))
      BY <3>3 DEF Inquiry, Loss, Lost, Won
    <3>5. e = d /\ s = "won"
      BY <1>1, <3>1, <3>4
    <3> QED BY <3>4, <3>5
  <2> QED BY <1>1, <2>1, WonMakesGood
<1>2. LedgerInv /\ [LedgerNext]_ledgerVars =>
        [\A d \in Disputes : dispute[d] # "won" /\ dispute'[d] = "won" /\ NotRefunded(DisputedPack[d]) =>
           \A i \in LotIds : lots[i].takenBy = d /\ lots[i].held > 0 =>
              \E j \in DOMAIN lots' : lots'[j].from = i /\ lots'[j].source = "dispute_won"]_ledgerVars
  BY <1>1 DEF MadeGood
<1> QED BY <1>2, LedgerIsSound, PTL DEF LedgerSpec, WonGivesBack

\* A sum over more: what there is more of is each matched by a value of another sum.
LEMMA SumGrows ==
    ASSUME NEW D, NEW N, IsFiniteSet(D), IsFiniteSet(N), D \cap N = {},
           NEW f \in [D -> Nat], NEW g \in [D \cup N -> Nat], \A i \in D : g[i] <= f[i],
           NEW E, NEW amount \in [E -> Nat], NEW S \in SUBSET E, IsFiniteSet(S), NEW m,
           \A j \in N : /\ m[j] \in S /\ g[j] <= amount[m[j]]
                        /\ \A i \in N : m[i] = m[j] => i = j
    PROVE  SumFunctionOnSet(g, D \cup N) <= SumFunctionOnSet(f, D) + SumFunctionOnSet(amount, S)
<1>1. D \in SUBSET (D \cup N) /\ N \in SUBSET (D \cup N) /\ D \in SUBSET D
  OBVIOUS
<1>2. SumFunctionOnSet(g, D \cup N) = SumFunctionOnSet(g, D) + SumFunctionOnSet(g, N)
  BY <1>1, SumParts
<1>3. SumFunctionOnSet(g, D) <= SumFunctionOnSet(f, D)
  <2>1. \A i \in D : g[i] # 0 => i \in D /\ g[i] <= f[i]
    OBVIOUS
  <2> QED BY <1>1, <2>1, SumWithin
<1>4. SumFunctionOnSet(g, N) <= SumFunctionOnSet(amount, S)
  <2>1. \A j \in N : g[j] # 0 => /\ m[j] \in S /\ g[j] <= amount[m[j]]
                                 /\ \A i \in N : g[i] # 0 /\ m[i] = m[j] => i = j
    OBVIOUS
  <2> QED BY <1>1, <2>1, SumBelow
<1>5. /\ SumFunctionOnSet(g, D) \in Nat /\ SumFunctionOnSet(g, N) \in Nat
      /\ SumFunctionOnSet(f, D) \in Nat /\ SumFunctionOnSet(amount, S) \in Nat
  BY <1>1, SumTypes
<1> QED BY <1>2, <1>3, <1>4, <1>5

\* What a lot can be spent for.
Purse == [i \in LotIds |-> IF IsSpendable(i) THEN lots[i].remaining ELSE 0]

Purses ==
    /\ LotIds = 1..Len(lots) /\ Len(lots) \in Nat /\ IsFiniteSet(LotIds)
    /\ Purse \in [LotIds -> Nat]
    /\ Available = SumFunctionOnSet(Purse, LotIds) /\ Available \in Nat

LEMMA PursesSum == LedgerTypes => Purses
<1> SUFFICES ASSUME LedgerTypes PROVE Purses
  OBVIOUS
<1>1. LotsTyped
  BY LotFacts
<1> DEFINE D == LotIds
           S == {i \in LotIds : IsSpendable(i)}
           r == Remaining
           f == Purse
<1>2. \A i \in D : r[i] \in Nat /\ f[i] = (IF i \in S THEN r[i] ELSE 0)
  <2> SUFFICES ASSUME NEW i \in LotIds
               PROVE  r[i] \in Nat /\ f[i] = (IF i \in S THEN r[i] ELSE 0)
    OBVIOUS
  <2>1. lots[i].remaining \in Nat /\ r[i] = lots[i].remaining
    BY <1>1 DEF LotsTyped, Lot, Remaining
  <2>2. f[i] = IF IsSpendable(i) THEN lots[i].remaining ELSE 0
    BY DEF Purse
  <2>3. i \in S <=> IsSpendable(i)
    OBVIOUS
  <2> HIDE DEF S, f, r
  <2> QED BY <2>1, <2>2, <2>3
<1>3. r \in [D -> Nat] /\ IsFiniteSet(D) /\ S \in SUBSET D /\ IsFiniteSet(S) /\ D \in SUBSET D
  <2>1. r \in [D -> Nat]
    BY RemainingIs
  <2>2. S \in SUBSET D /\ IsFiniteSet(D)
    BY <1>1 DEF LotsTyped
  <2>3. IsFiniteSet(S)
    BY AvailableIs
  <2> QED BY <2>1, <2>2, <2>3
<1>4. f = [i \in D |-> f[i]]
  BY DEF Purse
<1>5. Available = SumFunctionOnSet(r, S) /\ Available \in Nat
  BY AvailableIs
<1> HIDE DEF D, S, r, f
<1>6. f \in [D -> Nat]
  <2>1. \A i \in D : f[i] \in Nat
    BY <1>2
  <2> QED BY ONLY <1>4, <2>1
<1>7. SumFunctionOnSet(r, S) <= SumFunctionOnSet(f, D)
  <2>1. \A i \in S : r[i] # 0 => i \in D /\ r[i] <= f[i]
    BY <1>2, <1>3
  <2> QED BY ONLY <1>3, <1>6, <2>1, SumWithin
<1>8. SumFunctionOnSet(f, D) <= SumFunctionOnSet(r, S)
  <2>1. \A i \in D : f[i] # 0 => i \in S /\ f[i] <= r[i]
    BY <1>2
  <2> QED BY ONLY <1>3, <1>6, <2>1, SumWithin
<1>9. SumFunctionOnSet(f, D) \in Nat /\ SumFunctionOnSet(r, S) \in Nat
  BY <1>3, <1>6, SumTypes
<1>10. Available = SumFunctionOnSet(f, D)
  BY <1>5, <1>7, <1>8, <1>9
<1> QED BY <1>1, <1>5, <1>6, <1>10 DEF Purses, LotsTyped, D, f

\* Of the next state too.
LEMMA NextPurses == LedgerTypes' => Purses'
BY PursesSum, PTL

\* Where no lot can be spent for more, and those there are more of for no more than some amounts,
\* what is available grows by those at most.
LEMMA AvailableGrows ==
    ASSUME LedgerTypes, LedgerTypes', NEW n \in Nat, LotIds' = 1..(Len(lots) + n),
           \A i \in LotIds : Purse'[i] <= Purse[i],
           NEW E, NEW amount \in [E -> Nat], NEW S \in SUBSET E, IsFiniteSet(S),
           NEW given \in [1..n -> S], \A a, b \in 1..n : given[a] = given[b] => a = b,
           \A k \in 1..n : Purse'[Len(lots) + k] <= amount[given[k]]
    PROVE  Available' <= Available + SumFunctionOnSet(amount, S)
<1>1. Purses /\ Purses' /\ Len(lots) \in Nat /\ LotIds = 1..Len(lots)
  BY PursesSum, NextPurses DEF Purses
<1> DEFINE D == LotIds
           C == LotIds'
           N == (Len(lots) + 1)..(Len(lots) + n)
           f == Purse
           g == Purse'
           m == [j \in N |-> given[j - Len(lots)]]
<1>2. C = D \cup N /\ D \cap N = {} /\ D \in SUBSET C /\ N \in SUBSET C /\ D \in SUBSET D
  BY <1>1
<1>3. f \in [D -> Nat] /\ g \in [C -> Nat] /\ IsFiniteSet(D) /\ IsFiniteSet(N)
  <2>1. IsFiniteSet(N)
    BY <1>1, FS_Interval
  <2> QED BY <1>1, <2>1 DEF Purses
<1>4. \A j \in N : /\ m[j] \in S /\ g[j] <= amount[m[j]]
                   /\ \A i \in N : m[i] = m[j] => i = j
  <2> SUFFICES ASSUME NEW j \in N
               PROVE  /\ m[j] \in S /\ g[j] <= amount[m[j]]
                      /\ \A i \in N : m[i] = m[j] => i = j
    OBVIOUS
  <2> DEFINE k == j - Len(lots)
  <2>1. k \in 1..n /\ j = Len(lots) + k /\ m[j] = given[k]
    BY <1>1
  <2>2. \A i \in N : m[i] = m[j] => i = j
    <3> SUFFICES ASSUME NEW i \in N, m[i] = m[j] PROVE i = j
      OBVIOUS
    <3>1. i - Len(lots) \in 1..n /\ m[i] = given[i - Len(lots)]
      BY <1>1
    <3>2. i - Len(lots) = k
      BY <2>1, <3>1
    <3> QED BY <1>1, <3>2
  <2> HIDE DEF k
  <2>3. g[Len(lots) + k] <= amount[given[k]]
    BY <2>1
  <2> HIDE DEF m, g, N
  <2> QED BY <2>1, <2>2, <2>3
<1>5. \A i \in D : g[i] <= f[i]
  OBVIOUS
<1>6. Available = SumFunctionOnSet(f, D) /\ Available' = SumFunctionOnSet(g, C)
  BY <1>1 DEF Purses
<1> HIDE DEF D, C, N, f, g, m
<1>11. SumFunctionOnSet(g, C) <= SumFunctionOnSet(f, D) + SumFunctionOnSet(amount, S)
  <2>1. g \in [D \cup N -> Nat]
    BY <1>2, <1>3
  <2>2. SumFunctionOnSet(g, D \cup N) <= SumFunctionOnSet(f, D) + SumFunctionOnSet(amount, S)
    BY ONLY <1>2, <1>3, <1>4, <1>5, <2>1, amount \in [E -> Nat], S \in SUBSET E, IsFiniteSet(S), SumGrows
  <2> QED BY <1>2, <2>2
<1> QED BY <1>6, <1>11

\* Where each lot can be spent for so much less, what is available falls by all of it.
LEMMA AvailableFalls ==
    ASSUME LedgerTypes, LedgerTypes', LotIds' = LotIds, NEW x \in [LotIds -> Nat],
           \A i \in LotIds : Purse'[i] + x[i] <= Purse[i]
    PROVE  Available' + SumFunctionOnSet(x, LotIds) <= Available
<1>1. Purses /\ Purses'
  BY PursesSum, NextPurses
<1> DEFINE D == LotIds
           f == Purse
           g == Purse'
<1>2. f \in [D -> Nat] /\ g \in [D -> Nat] /\ IsFiniteSet(D) /\ D \in SUBSET D /\ x \in [D -> Nat]
  BY <1>1 DEF Purses
<1>3. \A i \in D : g[i] + x[i] <= f[i]
  OBVIOUS
<1>4. Available = SumFunctionOnSet(f, D) /\ Available' = SumFunctionOnSet(g, D)
  BY <1>1 DEF Purses
<1>5. SumFunctionOnSet(g, D) + SumFunctionOnSet(x, D) <= SumFunctionOnSet(f, D)
  <2> HIDE DEF D, f, g
  <2> QED BY ONLY <1>2, <1>3, SumJoins
<1> QED BY <1>4, <1>5

\* The cover of the spendable lots by the cached balance, action by action.
LEMMA GrantCovers ==
    ASSUME LedgerInv, LedgerInv', NEW p \in Packs, Grant(p), BalanceCoversSpendable
    PROVE  BalanceCoversSpendable'
<1>1. LedgerTypes /\ LedgerTypes' /\ Purses /\ Purses' /\ PackCredits \in Nat
  BY PursesSum, NextPurses, ConstantFacts DEF LedgerInv
<1>2. PICK j \in Nat : j = Len(lots) + 1
  BY <1>1 DEF Purses
<1>3. PICK new : new = NewLot(PackCredits, p, "grant", PackExpiry, 0, NoLetter, "active")
  OBVIOUS
<1>4. lots' = Append(lots, new) /\ credits' = credits + PackCredits /\ clock' = clock
  BY <1>3 DEF Grant
<1>5. LotIds' = 1..(Len(lots) + 1) /\ lots'[j] = new /\ \A i \in LotIds : lots'[i] = lots[i]
  <2>1. lots \in Seq(Lot) /\ LotIds = 1..Len(lots) /\ Len(lots) \in Nat
    BY <1>1 DEF LedgerTypes, Purses
  <2>2. /\ DOMAIN Append(lots, new) = 1..(Len(lots) + 1) /\ Append(lots, new)[Len(lots) + 1] = new
        /\ \A i \in 1..Len(lots) : Append(lots, new)[i] = lots[i]
    BY ONLY <2>1
  <2> QED BY <1>2, <1>4, <2>1, <2>2 DEF LotIds
<1>6. \A i \in LotIds : Purse'[i] <= Purse[i]
  <2> SUFFICES ASSUME NEW i \in LotIds PROVE Purse'[i] <= Purse[i]
    OBVIOUS
  <2>1. i \in LotIds' /\ lots'[i] = lots[i]
    BY <1>1, <1>5 DEF Purses
  <2>2. Purse'[i] = Purse[i] /\ Purse[i] \in Nat
    BY <1>1, <1>4, <2>1 DEF Purse, IsSpendable, Past, Purses
  <2> QED BY <2>2
<1>7. PICK amount \in [{1} -> Nat] : amount[1] = PackCredits
  <2>1. [x \in {1} |-> PackCredits] \in [{1} -> Nat] /\ [x \in {1} |-> PackCredits][1] = PackCredits
    BY <1>1
  <2> QED BY <2>1
<1>8. PICK given \in [1..1 -> {1}] : given[1] = 1
  <2>1. [x \in 1..1 |-> 1] \in [1..1 -> {1}] /\ [x \in 1..1 |-> 1][1] = 1
    OBVIOUS
  <2> QED BY <2>1
<1>9. \A k \in 1..1 : Purse'[Len(lots) + k] <= amount[given[k]]
  <2>1. Purse'[j] \in {0, PackCredits}
    <3>1. j \in LotIds' /\ lots'[j].remaining = PackCredits
      BY <1>1, <1>2, <1>3, <1>5 DEF NewLot, Purses
    <3> QED BY <3>1 DEF Purse
  <2> QED BY <1>1, <1>2, <1>7, <1>8, <2>1
<1>10. SumFunctionOnSet(amount, {1}) = PackCredits
  <2>1. IsFiniteSet({1}) /\ {1} \in SUBSET {1} /\ 1 \in {1} /\ \A y \in {1} : y # 1 => amount[y] = 0
    BY FS_Singleton
  <2>2. SumFunctionOnSet(amount, {1}) = amount[1]
    BY ONLY <1>7, <2>1, SumOfOne
  <2> QED BY <1>7, <2>2
<1>11. Available' <= Available + PackCredits
  <2>1. 1 \in Nat /\ {1} \in SUBSET {1} /\ IsFiniteSet({1})
    BY ONLY FS_Singleton
  <2>2. \A a, b \in 1..1 : a = b
    BY ONLY SMT
  <2>3. \A a, b \in 1..1 : given[a] = given[b] => a = b
    BY ONLY <2>2
  <2>4. Available' <= Available + SumFunctionOnSet(amount, {1})
    BY ONLY <1>1, <1>5, <1>6, <1>7, <1>8, <1>9, <2>1, <2>3, AvailableGrows
  <2> QED BY <1>10, <2>4
<1> DEFINE m == credits'
           b == Available'
<1>12. m = credits + PackCredits /\ b <= Available + PackCredits
  BY <1>4, <1>11
<1>13. credits \in Nat /\ Available \in Nat /\ b \in Nat /\ credits >= Available /\ PackCredits \in Nat
  BY <1>1 DEF LedgerTypes, Purses, BalanceCoversSpendable
<1> HIDE DEF m, b
<1>14. m >= b
  BY <1>12, <1>13
<1> QED BY <1>14 DEF BalanceCoversSpendable, m, b

\* Giving back lots S, and the same to the balance, for what of it is not past.
LEMMA RepaidCovers ==
    ASSUME LedgerTypes, LedgerTypes', NEW S \in SUBSET LotIds, NEW fresh, NEW n, NEW given,
           Repaid(S, fresh, n, given), clock' = clock,
           NEW amount \in [LotIds -> Nat], credits' = credits + SumOf(amount, S),
           \A i \in S : fresh[i].expires = lots[i].expires /\ (~Past(lots[i]) => fresh[i].remaining = amount[i]),
           BalanceCoversSpendable
    PROVE  BalanceCoversSpendable'
<1>1. Purses /\ Purses' /\ IsFiniteSet(S)
  <2>1. Purses /\ Purses'
    BY PursesSum, NextPurses
  <2> QED BY <2>1, FS_Subset DEF Purses
<1>2. /\ n \in Nat /\ given \in [1..n -> S] /\ \A a, b \in 1..n : given[a] = given[b] => a = b
      /\ LotIds' = 1..(Len(lots) + n)
      /\ \A i \in LotIds : i \in LotIds' /\ lots'[i] = lots[i]
      /\ \A k \in 1..n : lots'[Len(lots) + k] = fresh[given[k]]
  BY DEF Repaid
<1>3. \A i \in LotIds : Purse'[i] <= Purse[i]
  <2> SUFFICES ASSUME NEW i \in LotIds PROVE Purse'[i] <= Purse[i]
    OBVIOUS
  <2>1. i \in LotIds' /\ lots'[i] = lots[i]
    BY <1>2
  <2>2. Purse'[i] = Purse[i] /\ Purse[i] \in Nat
    BY <1>1, <2>1 DEF Purse, IsSpendable, Past, Purses
  <2> QED BY <2>2
<1>4. \A k \in 1..n : Purse'[Len(lots) + k] <= amount[given[k]]
  <2> SUFFICES ASSUME NEW k \in 1..n PROVE Purse'[Len(lots) + k] <= amount[given[k]]
    OBVIOUS
  <2>1. PICK j : j = Len(lots) + k
    OBVIOUS
  <2>2. PICK i \in S : i = given[k]
    BY <1>2
  <2>3. j \in LotIds' /\ lots'[j] = fresh[i]
    <3>1. Len(lots) \in Nat
      BY <1>1 DEF Purses
    <3>2. j \in 1..(Len(lots) + n)
      BY ONLY <1>2, <2>1, <3>1, k \in 1..n
    <3> QED BY <1>2, <2>1, <2>2, <3>2
  <2>4. amount[i] \in Nat
    BY <2>2
  <2>5. Purse'[j] = 0 \/ (~Past(lots[i]) /\ Purse'[j] = fresh[i].remaining)
    <3>1. Past(lots[j])' <=> Past(lots[i])
      <4>1. lots'[j].expires = lots[i].expires /\ clock' = clock
        BY <2>3
      <4> QED BY ONLY <4>1 DEF Past
    <3>2. Purse'[j] = IF IsSpendable(j)' THEN lots'[j].remaining ELSE 0
      BY <2>3 DEF Purse
    <3>3. IsSpendable(j)' => ~Past(lots[j])'
      BY DEF IsSpendable
    <3> QED BY ONLY <2>3, <3>1, <3>2, <3>3
  <2>6. Purse'[j] = 0 \/ Purse'[j] = amount[i]
    BY <2>2, <2>5
  <2> QED BY <2>1, <2>2, <2>4, <2>6
<1>5. Available' <= Available + SumFunctionOnSet(amount, S)
  BY ONLY <1>1, <1>2, <1>3, <1>4, LedgerTypes, LedgerTypes', S \in SUBSET LotIds,
          amount \in [LotIds -> Nat], AvailableGrows
<1>6. SumOf(amount, S) = SumFunctionOnSet(amount, S) /\ SumFunctionOnSet(amount, S) \in Nat
  BY <1>1, SameSum, SumTypes
<1> DEFINE m == credits'
           b == Available'
           s == SumFunctionOnSet(amount, S)
<1>7. m = credits + s /\ b <= Available + s
  BY <1>5, <1>6
<1>8. credits \in Nat /\ Available \in Nat /\ b \in Nat /\ credits >= Available /\ s \in Nat
  BY <1>1, <1>6 DEF LedgerTypes, Purses, BalanceCoversSpendable
<1> HIDE DEF m, b, s
<1>9. m >= b
  BY <1>7, <1>8
<1> QED BY <1>9 DEF BalanceCoversSpendable, m, b

LEMMA ReturnCovers ==
    ASSUME LedgerInv, LedgerInv', NEW l \in Sends, Return(l), BalanceCoversSpendable
    PROVE  BalanceCoversSpendable'
<1>1. LedgerTypes /\ LedgerTypes'
  BY DEF LedgerInv
<1>2. PICK S, fresh : S = Returnable(l) /\ fresh = ReturnRow(l)
  OBVIOUS
<1>3. PICK n, given : Repaid(S, fresh, n, given)
  BY <1>2, ReturnRepays
<1>4. S \in SUBSET LotIds /\ \A i \in LotIds : send[l].took[i] \in Nat
  BY <1>2, ReturnRepays
<1>5. PICK amount : amount = [i \in LotIds |-> IF Past(lots[i]) THEN 0 ELSE send[l].took[i]]
  OBVIOUS
<1>6. amount \in [LotIds -> Nat]
  BY <1>4, <1>5
<1>7. credits' = credits + SumOf(amount, S) /\ clock' = clock
  BY <1>2, <1>5 DEF Return
<1>8. \A i \in S : fresh[i].expires = lots[i].expires /\ fresh[i].remaining = send[l].took[i]
  BY <1>2, ReturnRepays
<1>9. \A i \in S : fresh[i].expires = lots[i].expires /\ (~Past(lots[i]) => fresh[i].remaining = amount[i])
  BY <1>4, <1>5, <1>8
<1> QED BY ONLY <1>1, <1>3, <1>4, <1>6, <1>7, <1>9, BalanceCoversSpendable, RepaidCovers

LEMMA WonCovers ==
    ASSUME LedgerInv, LedgerInv', NEW d \in Disputes, Won(d), BalanceCoversSpendable
    PROVE  BalanceCoversSpendable'
<1>1. LedgerTypes /\ LedgerTypes' /\ LotsTyped
  BY LotFacts DEF LedgerInv
<1>2. PICK S, fresh : S = Repayable(d) /\ fresh = WonRow(d)
  OBVIOUS
<1>3. PICK n, given : Repaid(S, fresh, n, given)
  BY <1>2, WonRepays
<1>4. S \in SUBSET LotIds
  BY <1>2, WonRepays
<1>5. PICK amount : amount = [i \in LotIds |-> lots[i].held]
  OBVIOUS
<1>6. amount \in [LotIds -> Nat]
  <2>1. \A i \in LotIds : lots[i].held \in Nat
    BY <1>1 DEF LotsTyped, Lot
  <2> QED BY <1>5, <2>1
<1>7. credits' = credits + SumOf(amount, S) /\ clock' = clock
  BY <1>2, <1>5 DEF Won, Repayable
<1>8. \A i \in S : fresh[i].expires = lots[i].expires /\ fresh[i].remaining = lots[i].held
  BY <1>2, WonRepays
<1>9. \A i \in S : fresh[i].expires = lots[i].expires /\ (~Past(lots[i]) => fresh[i].remaining = amount[i])
  BY <1>4, <1>5, <1>8
<1> QED BY ONLY <1>1, <1>3, <1>4, <1>6, <1>7, <1>9, BalanceCoversSpendable, RepaidCovers

\* A deduction takes at least the letter's price, off what is spendable.
LEMMA TakeMeets ==
    ASSUME LedgerTypes, Available >= Cost
    PROVE  /\ [i \in LotIds |-> Take(i)] \in [LotIds -> Nat]
           /\ SumFunctionOnSet([i \in LotIds |-> Take(i)], LotIds) >= Cost
<1>1. Purses /\ LotsTyped /\ Cost \in Nat
  BY PursesSum, LotFacts, ConstantFacts
<1>2. PICK take : take = [i \in LotIds |-> Take(i)]
  OBVIOUS
<1>3. PICK R : R = {p \in LotIds \X LotIds : Before(p[1], p[2])}
  OBVIOUS
<1>4. \A x, y \in LotIds : <<x, y>> \in R <=> Before(x, y)
  BY <1>3
<1>5. \A x \in LotIds : lots[x].expires \in Nat /\ x \in Nat
  BY <1>1 DEF LotsTyped, Lot
<1>6. /\ \A x \in LotIds : <<x, x>> \notin R
      /\ \A x, y \in LotIds : x = y \/ <<x, y>> \in R \/ <<y, x>> \in R
      /\ \A x, y, z \in LotIds : <<x, y>> \in R /\ <<y, z>> \in R => <<x, z>> \in R
  BY <1>4, <1>5 DEF Before
<1>7. take \in [LotIds -> Nat]
  <2>1. \A i \in LotIds : Take(i) \in Nat
    BY <1>1, TakeIs
  <2> QED BY <1>2, <2>1
<1>8. ASSUME NEW x \in LotIds
      PROVE  \/ take[x] = Purse[x]
             \/ Cost <= SumFunctionOnSet(Purse, {y \in LotIds : <<y, x>> \in R})
             \/ take[x] = Cost - SumFunctionOnSet(Purse, {y \in LotIds : <<y, x>> \in R})
  <2> DEFINE earlier == {j \in LotIds : IsSpendable(j) /\ Before(j, x)}
             B == {y \in LotIds : <<y, x>> \in R}
             r == Remaining
             f == Purse
             D == LotIds
  <2>1. r \in [D -> Nat] /\ f \in [D -> Nat] /\ B \in SUBSET D /\ earlier \in SUBSET D /\ IsFiniteSet(D)
    BY <1>1, RemainingIs DEF Purses
  <2>2. \A i \in D : f[i] = (IF IsSpendable(i) THEN r[i] ELSE 0)
    BY DEF Purse, Remaining
  <2>3. \A i \in D : i \in earlier <=> IsSpendable(i) /\ i \in B
    BY <1>4
  <2>4. Take(x) = IF ~IsSpendable(x) \/ Cost - SumFunctionOnSet(r, earlier) <= 0 THEN 0
                  ELSE IF Cost - SumFunctionOnSet(r, earlier) < lots[x].remaining
                       THEN Cost - SumFunctionOnSet(r, earlier) ELSE lots[x].remaining
    <3>1. SumOf(Remaining, earlier) = SumFunctionOnSet(r, earlier)
      BY SameSum
    <3> QED BY <3>1 DEF Take
  <2>5. take[x] = Take(x) /\ r[x] = lots[x].remaining
    BY <1>2 DEF Remaining
  <2> HIDE DEF earlier, B, r, f, D
  <2>6. IsFiniteSet(B) /\ IsFiniteSet(earlier)
    BY <2>1, FS_Subset
  <2>7. SumFunctionOnSet(r, earlier) <= SumFunctionOnSet(f, B)
    <3>1. \A i \in earlier : r[i] # 0 => i \in B /\ r[i] <= f[i]
      BY <2>1, <2>2, <2>3
    <3> QED BY ONLY <2>1, <2>6, <3>1, SumWithin
  <2>8. SumFunctionOnSet(f, B) <= SumFunctionOnSet(r, earlier)
    <3>1. \A i \in B : f[i] # 0 => i \in earlier /\ f[i] <= r[i]
      BY <2>1, <2>2, <2>3
    <3> QED BY ONLY <2>1, <2>6, <3>1, SumWithin
  <2>9. SumFunctionOnSet(f, B) \in Nat /\ SumFunctionOnSet(r, earlier) \in Nat
    BY <2>1, <2>6, SumTypes
  <2>10. r[x] \in Nat /\ f[x] \in Nat /\ x \in D
    BY <2>1 DEF D
  <2> DEFINE paid == SumFunctionOnSet(f, B)
  <2>11. paid = SumFunctionOnSet(r, earlier) /\ paid \in Nat
    BY <2>7, <2>8, <2>9
  <2>12. take[x] = IF ~IsSpendable(x) \/ Cost - paid <= 0 THEN 0
                   ELSE IF Cost - paid < r[x] THEN Cost - paid ELSE r[x]
    BY <2>4, <2>5, <2>11
  <2>13. f[x] = IF IsSpendable(x) THEN r[x] ELSE 0
    BY <2>2, <2>10
  <2> HIDE DEF paid
  <2>14. take[x] = f[x] \/ Cost <= paid \/ take[x] = Cost - paid
    BY <1>1, <2>10, <2>11, <2>12, <2>13
  <2> QED BY <2>14 DEF paid, f, B
<1>9. SumFunctionOnSet(Purse, LotIds) >= Cost => SumFunctionOnSet(take, LotIds) >= Cost
  <2>1. Purse \in [LotIds -> Nat] /\ IsFiniteSet(LotIds)
    BY <1>1 DEF Purses
  <2> QED BY ONLY <1>1, <1>6, <1>7, <1>8, <2>1, GreedyPays
<1> QED BY <1>1, <1>2, <1>7, <1>9 DEF Purses

LEMMA DeductCovers ==
    ASSUME LedgerInv, LedgerInv', NEW l \in Sends, Deduct(l), BalanceCoversSpendable
    PROVE  BalanceCoversSpendable'
<1>1. LedgerTypes /\ LedgerTypes' /\ LotsTyped /\ Purses /\ Purses'
  BY PursesSum, NextPurses, LotFacts DEF LedgerInv
<1>2. /\ Available >= Cost /\ credits >= Cost /\ credits' = credits - Cost /\ clock' = clock
      /\ lots' = [i \in LotIds |->
                    IF Take(i) = 0 THEN lots[i]
                    ELSE [lots[i] EXCEPT !.remaining = @ - Take(i),
                                         !.status = IF Take(i) = lots[i].remaining THEN "depleted" ELSE @]]
  BY DEF Deduct
<1>3. LotIds' = LotIds
  BY <1>2 DEF LotIds
<1>4. PICK x : x = [i \in LotIds |-> Take(i)]
  OBVIOUS
<1>5. x \in [LotIds -> Nat] /\ SumFunctionOnSet(x, LotIds) >= Cost
  BY <1>1, <1>2, <1>4, TakeMeets
<1>6. ASSUME NEW i \in LotIds PROVE Purse'[i] + x[i] <= Purse[i]
  <2>1. /\ x[i] = Take(i) /\ x[i] \in Nat /\ x[i] <= lots[i].remaining
        /\ x[i] # 0 => IsSpendable(i)
        /\ lots[i] \in Lot
    BY <1>1, <1>4, <1>5, TakeIs DEF LotsTyped
  <2>2. Purse[i] = (IF IsSpendable(i) THEN lots[i].remaining ELSE 0) /\ lots[i].remaining \in Nat
    BY <2>1 DEF Purse, Lot
  <2>3. Purse'[i] = IF IsSpendable(i)' THEN lots'[i].remaining ELSE 0
    BY <1>3 DEF Purse
  <2>4. CASE x[i] = 0
    <3>1. lots'[i] = lots[i] /\ clock' = clock
      BY <1>2, <2>1, <2>4
    <3>2. IsSpendable(i)' <=> IsSpendable(i)
      BY ONLY <3>1 DEF IsSpendable, Past
    <3> QED BY <2>1, <2>2, <2>3, <2>4, <3>1, <3>2
  <2>5. CASE x[i] # 0
    <3> DEFINE t == Take(i)
               v == lots[i]
               w == lots'[i]
    <3>1. w = [v EXCEPT !.remaining = @ - t, !.status = IF t = v.remaining THEN "depleted" ELSE @]
      BY <1>2, <2>1, <2>5
    <3>2. v \in Lot
      BY <2>1
    <3> HIDE DEF t, v, w
    <3>3. w.remaining = v.remaining - t
      BY ONLY <3>1, <3>2 DEF Lot
    <3>4. Purse'[i] = 0 \/ Purse'[i] = lots[i].remaining - x[i]
      BY <2>1, <2>3, <3>3 DEF t, v, w
    <3> DEFINE a == Purse'[i]
               b == Purse[i]
               y == x[i]
               r == lots[i].remaining
    <3>5. a \in {0, r - y} /\ b = r /\ r \in Nat /\ y \in Nat /\ y <= r
      BY <2>1, <2>2, <2>5, <3>4
    <3> HIDE DEF a, b, y, r
    <3>6. a + y <= b
      BY ONLY <3>5
    <3> QED BY <3>6 DEF a, b, y
  <2> QED BY <2>4, <2>5
<1>7. Available' + SumFunctionOnSet(x, LotIds) <= Available
  BY ONLY <1>1, <1>3, <1>5, <1>6, AvailableFalls
<1> DEFINE m == credits'
           b == Available'
           s == SumFunctionOnSet(x, LotIds)
<1>8. m = credits - Cost /\ b + s <= Available /\ s >= Cost
  BY <1>2, <1>5, <1>7
<1>9. credits \in Nat /\ Available \in Nat /\ b \in Nat /\ credits >= Available /\ s \in Nat /\ Cost \in Nat
  <2>1. s \in Nat
    BY <1>1, <1>5, SumTypes DEF Purses
  <2> QED BY <1>1, <2>1, ConstantFacts DEF LedgerTypes, Purses, BalanceCoversSpendable
<1> HIDE DEF m, b, s
<1>10. m >= b
  BY <1>8, <1>9
<1> QED BY <1>10 DEF BalanceCoversSpendable, m, b

\* Where no lot can be spent for more and the balance stays.
LEMMA QuietCovers ==
    ASSUME LedgerTypes, LedgerTypes', LotIds' = LotIds, credits' >= credits,
           \A i \in LotIds : lots'[i].remaining = lots[i].remaining /\ (IsSpendable(i)' => IsSpendable(i)),
           BalanceCoversSpendable
    PROVE  BalanceCoversSpendable'
<1>1. Purses /\ Purses' /\ LotsTyped
  BY PursesSum, NextPurses, LotFacts
<1>2. PICK x : x = [i \in LotIds |-> 0]
  OBVIOUS
<1>3. x \in [LotIds -> Nat] /\ \A i \in LotIds : x[i] = 0
  BY <1>2
<1>4. ASSUME NEW i \in LotIds PROVE Purse'[i] + x[i] <= Purse[i]
  <2>1. /\ Purse[i] = (IF IsSpendable(i) THEN lots[i].remaining ELSE 0) /\ lots[i].remaining \in Nat
        /\ Purse'[i] = IF IsSpendable(i)' THEN lots'[i].remaining ELSE 0
    BY <1>1 DEF Purse, Lot, LotsTyped
  <2>2. (Purse'[i] = 0 \/ Purse'[i] = Purse[i]) /\ Purse[i] \in Nat
    BY <2>1
  <2> QED BY <1>3, <2>2
<1>5. Available' + SumFunctionOnSet(x, LotIds) <= Available
  BY <1>3, <1>4, AvailableFalls
<1> DEFINE m == credits'
           b == Available'
           s == SumFunctionOnSet(x, LotIds)
<1>6. b + s <= Available /\ m >= credits
  BY <1>5
<1>7. credits \in Nat /\ m \in Nat /\ Available \in Nat /\ b \in Nat /\ credits >= Available /\ s \in Nat
  <2>1. s \in Nat
    BY <1>1, <1>3, SumTypes DEF Purses
  <2> QED BY <1>1, <2>1 DEF LedgerTypes, Purses, BalanceCoversSpendable
<1> HIDE DEF m, b, s
<1>8. m >= b
  BY <1>6, <1>7
<1> QED BY <1>8 DEF BalanceCoversSpendable, m, b

LEMMA MarkExpiredCovers ==
    ASSUME LedgerInv, LedgerInv', MarkExpired, BalanceCoversSpendable
    PROVE  BalanceCoversSpendable'
<1>1. LedgerTypes /\ LedgerTypes' /\ LotsTyped /\ credits \in Nat
  BY LotFacts DEF LedgerInv, LedgerTypes
<1>2. /\ credits' = credits /\ clock' = clock
      /\ lots' = [i \in LotIds |->
                    IF lots[i].status = "active" /\ Past(lots[i]) /\ lots[i].remaining > 0
                    THEN [lots[i] EXCEPT !.status = "expired"] ELSE lots[i]]
  BY DEF MarkExpired
<1>3. LotIds' = LotIds
  BY <1>2 DEF LotIds
<1>4. ASSUME NEW i \in LotIds
      PROVE  lots'[i].remaining = lots[i].remaining /\ (IsSpendable(i)' => IsSpendable(i))
  <2>1. lots[i] \in Lot /\ (lots'[i] = [lots[i] EXCEPT !.status = "expired"] \/ lots'[i] = lots[i])
    BY <1>1, <1>2 DEF LotsTyped
  <2>2. /\ lots'[i].remaining = lots[i].remaining /\ lots'[i].expires = lots[i].expires
        /\ lots'[i].status = "expired" \/ lots'[i].status = lots[i].status
    BY ONLY <2>1 DEF Lot
  <2> QED BY <1>2, <2>2 DEF IsSpendable, Past
<1>5. credits' >= credits
  BY <1>1, <1>2
<1> QED BY <1>1, <1>3, <1>4, <1>5, QuietCovers

\* Taking a pack back, where no lot outlives it: either nothing is spendable any more, or all that
\* was left on the pack's lots was.
LEMMA ReversalCovers ==
    ASSUME PromoExpiry <= PackExpiry, LedgerInv, LedgerInv',
           NEW p \in Packs, NEW by, NEW s, Reversal(p, by, s), BalanceCoversSpendable
    PROVE  BalanceCoversSpendable'
<1>1. LedgerTypes /\ LedgerTypes' /\ LotsTyped /\ Purses /\ Purses'
  BY PursesSum, NextPurses, LotFacts DEF LedgerInv
<1>2. /\ clock' = clock /\ credits' = Floor(credits - SumOf(Remaining, LotsOf(p)))
      /\ lots' = [i \in LotIds |->
                    IF i \in LotsOf(p)
                    THEN [lots[i] EXCEPT !.remaining = 0, !.status = "revoked", !.takenBy = by,
                                         !.held = lots[i].remaining]
                    ELSE lots[i]]
  BY DEF Reversal, RevokeWholePack
<1>3. LotIds' = LotIds
  BY <1>2 DEF LotIds
<1>4. ASSUME NEW i \in LotIds
      PROVE  /\ i \in LotsOf(p) => Purse'[i] = 0
             /\ i \notin LotsOf(p) => Purse'[i] = Purse[i]
  <2>1. Purse'[i] = IF IsSpendable(i)' THEN lots'[i].remaining ELSE 0
    BY <1>3 DEF Purse
  <2>2. CASE i \in LotsOf(p)
    <3>1. lots[i] \in Lot /\ lots'[i] = [lots[i] EXCEPT !.remaining = 0, !.status = "revoked", !.takenBy = by,
                                                        !.held = lots[i].remaining]
      BY <1>1, <1>2, <2>2 DEF LotsTyped
    <3>2. lots'[i].remaining = 0
      BY ONLY <3>1 DEF Lot
    <3> QED BY <2>1, <2>2, <3>2
  <2>3. CASE i \notin LotsOf(p)
    <3>1. lots'[i] = lots[i]
      BY <1>2, <2>3
    <3>2. IsSpendable(i)' <=> IsSpendable(i)
      BY ONLY <1>2, <3>1 DEF IsSpendable, Past
    <3> QED BY <2>1, <2>3, <3>1, <3>2 DEF Purse
  <2> QED BY <2>2, <2>3
<1>5. PICK x : x = [i \in LotIds |-> IF i \in LotsOf(p) THEN lots[i].remaining ELSE 0]
  OBVIOUS
<1>6. x \in [LotIds -> Nat] /\ \A i \in LotIds : lots[i].remaining \in Nat
  BY <1>1, <1>5 DEF LotsTyped, Lot
<1>7. SumOf(Remaining, LotsOf(p)) = SumFunctionOnSet(x, LotIds)
  <2> DEFINE D == LotIds
             S == LotsOf(p)
             r == Remaining
  <2>1. r \in [D -> Nat] /\ S \in SUBSET D /\ IsFiniteSet(D) /\ D \in SUBSET D /\ x \in [D -> Nat]
    BY <1>1, <1>6, RemainingIs DEF LotsOf, Purses
  <2>2. \A i \in D : x[i] = IF i \in S THEN r[i] ELSE 0
    BY <1>5 DEF Remaining
  <2>3. SumOf(Remaining, LotsOf(p)) = SumFunctionOnSet(r, S)
    BY SameSum
  <2> HIDE DEF D, S, r
  <2>4. IsFiniteSet(S)
    BY <2>1, FS_Subset
  <2>5. SumFunctionOnSet(r, S) <= SumFunctionOnSet(x, D)
    <3>1. \A i \in S : r[i] # 0 => i \in D /\ r[i] <= x[i]
      BY <2>1, <2>2
    <3> QED BY ONLY <2>1, <2>4, <3>1, SumWithin
  <2>6. SumFunctionOnSet(x, D) <= SumFunctionOnSet(r, S)
    <3>1. \A i \in D : x[i] # 0 => i \in S /\ x[i] <= r[i]
      BY <2>1, <2>2
    <3> QED BY ONLY <2>1, <2>4, <3>1, SumWithin
  <2>7. SumFunctionOnSet(x, D) \in Nat /\ SumFunctionOnSet(r, S) \in Nat
    BY <2>1, <2>4, SumTypes
  <2>8. SumFunctionOnSet(r, S) = SumFunctionOnSet(x, D)
    BY <2>5, <2>6, <2>7
  <2> QED BY <2>3, <2>8 DEF D
<1>8. SumFunctionOnSet(x, LotIds) \in Nat
  BY <1>1, <1>6, SumTypes DEF Purses
<1>9. /\ PackExpiry \in 1..Never /\ PromoExpiry \in 1..Never /\ Never \in Nat /\ clock \in Nat
      /\ \A i \in LotIds : lots[i].expires \in {PackExpiry, PromoExpiry}
      /\ \A i \in LotIds : lots[i].pack = p => lots[i].expires = PackExpiry
  <2>1. /\ PackExpiry \in 1..Never /\ PromoExpiry \in 1..Never /\ Never \in Nat /\ clock \in Nat
        /\ p # NoPack
    BY <1>1, ConstantFacts DEF LedgerTypes, NoPack
  <2>2. \A i \in LotIds : lots[i].expires = (IF lots[i].pack = NoPack THEN PromoExpiry ELSE PackExpiry)
    BY DEF LedgerInv, LotsInv, LotInv
  <2> QED BY <2>1, <2>2
<1> DEFINE m == credits'
           b == Available'
           t == SumFunctionOnSet(x, LotIds)
<1>10. m = Floor(credits - t) /\ t \in Nat
  BY <1>2, <1>7, <1>8
<1>11. credits \in Nat /\ Available \in Nat /\ b \in Nat /\ credits >= Available
  BY <1>1 DEF LedgerTypes, Purses, BalanceCoversSpendable
<1>12. CASE PackExpiry # Never /\ PackExpiry <= clock
  <2>1. \A i \in LotIds : Past(lots[i])
    BY <1>9, <1>12 DEF Past
  <2>2. \A i \in LotIds : Purse'[i] = 0
    <3> SUFFICES ASSUME NEW i \in LotIds PROVE Purse'[i] = 0
      OBVIOUS
    <3>1. Purse[i] = 0
      BY <2>1 DEF Purse, IsSpendable
    <3> QED BY <1>4, <3>1
  <2>3. b = 0
    <3> DEFINE f == Purse'
               D == LotIds
    <3>1. f \in [D -> Nat] /\ IsFiniteSet(D) /\ D \in SUBSET D /\ \A i \in D : f[i] = 0
      BY <1>1, <1>3, <2>2 DEF Purses
    <3>2. b = SumFunctionOnSet(f, D)
      BY <1>1, <1>3 DEF Purses
    <3> HIDE DEF f, D, b
    <3>3. SumFunctionOnSet(f, D) = 0
      BY ONLY <3>1, SumOfNone
    <3> QED BY <3>2, <3>3
  <2> HIDE DEF m, b, t
  <2>4. m >= b
    BY <1>10, <1>11, <2>3 DEF Floor
  <2> QED BY <2>4 DEF BalanceCoversSpendable, m, b
<1>13. CASE ~(PackExpiry # Never /\ PackExpiry <= clock)
  <2>1. ASSUME NEW i \in LotIds PROVE Purse'[i] + x[i] <= Purse[i]
    <3>1. Purse[i] \in Nat /\ x[i] = IF i \in LotsOf(p) THEN lots[i].remaining ELSE 0
      BY <1>1, <1>5 DEF Purses
    <3>2. CASE i \in LotsOf(p)
      <4>1. lots[i].pack = p /\ lots[i].status # "revoked"
        BY <3>2 DEF LotsOf
      <4>2. ~Past(lots[i])
        BY <1>9, <1>13, <4>1 DEF Past
      <4>3. lots[i].remaining = 0 \/ IsSpendable(i)
        <5>1. LotInv(i) /\ lots[i] \in Lot
          BY <1>1 DEF LedgerInv, LotsInv, LotsTyped
        <5>2. lots[i].remaining = 0 \/ lots[i].status = "active"
          BY <4>1, <4>2, <5>1 DEF LotInv, Lot, LotStatus
        <5> QED BY <1>6, <4>2, <5>2 DEF IsSpendable
      <4>4. Purse'[i] = 0 /\ x[i] = lots[i].remaining /\ x[i] \in Nat
        BY <1>4, <1>6, <3>1, <3>2
      <4>5. x[i] = 0 \/ Purse[i] = x[i]
        BY <4>3, <4>4 DEF Purse
      <4> QED BY <3>1, <4>4, <4>5
    <3>3. CASE i \notin LotsOf(p)
      <4>1. Purse'[i] = Purse[i] /\ x[i] = 0
        BY <1>4, <3>1, <3>3
      <4> QED BY <3>1, <4>1
    <3> QED BY <3>2, <3>3
  <2>2. b + t <= Available
    BY <1>1, <1>3, <1>6, <2>1, AvailableFalls
  <2> HIDE DEF m, b, t
  <2>3. m >= b
    BY <1>10, <1>11, <2>2 DEF Floor
  <2> QED BY <2>3 DEF BalanceCoversSpendable, m, b
<1> QED BY <1>12, <1>13

LEMMA CoverStep ==
    ASSUME PromoExpiry <= PackExpiry, LedgerInv, LedgerInv', [LedgerNext]_ledgerVars,
           BalanceCoversSpendable
    PROVE  BalanceCoversSpendable' \/ (unfixed # NothingRead /\ credits' = unfixed)
<1>1. ASSUME NEW p \in Packs, Grant(p) PROVE BalanceCoversSpendable'
  BY <1>1, GrantCovers
<1>2. ASSUME NEW l \in Sends, Deduct(l) PROVE BalanceCoversSpendable'
  BY <1>2, DeductCovers
<1>3. ASSUME NEW l \in Sends, Return(l) PROVE BalanceCoversSpendable'
  BY <1>3, ReturnCovers
<1>4. ASSUME NEW d \in Disputes, Won(d) PROVE BalanceCoversSpendable'
  BY <1>4, WonCovers
<1>5. ASSUME \/ \E p \in Packs : RefundSucceeds(p)
             \/ \E d \in Disputes : Loss(d) \/ Lost(d)
      PROVE  BalanceCoversSpendable'
  <2>1. PICK p \in Packs, by \in Disputes \cup {"refund"}, s \in {"refunded", "disputed"} : Reversal(p, by, s)
    BY <1>5, ReversalSteps DEF LedgerInv
  <2> QED BY <2>1, ReversalCovers
<1>6. ASSUME MarkExpired PROVE BalanceCoversSpendable'
  BY <1>6, MarkExpiredCovers
<1>7. ASSUME \/ \E p \in Packs : RefundPending(p)
             \/ \E l \in Sends : Mailed(l)
             \/ \E d \in Disputes : Inquiry(d)
             \/ Tick \/ ReconcileReads \/ ReconcileDies \/ UNCHANGED ledgerVars
      PROVE  BalanceCoversSpendable'
  <2>1. LedgerTypes /\ LedgerTypes' /\ LotsTyped /\ credits \in Nat /\ clock \in Nat /\ clock' \in Nat
    <3>1. LedgerTypes /\ LedgerTypes'
      BY DEF LedgerInv
    <3> QED BY <3>1, LotFacts, ConstantFacts DEF LedgerTypes
  <2>2. lots' = lots /\ credits' = credits /\ (clock' = clock \/ clock' = clock + 1)
    BY <1>7 DEF RefundPending, Mailed, Inquiry, Tick, ReconcileReads, ReconcileDies, ledgerVars
  <2>3. LotIds' = LotIds /\ credits' >= credits
    BY <2>1, <2>2 DEF LotIds
  <2>4. ASSUME NEW i \in LotIds
        PROVE  lots'[i].remaining = lots[i].remaining /\ (IsSpendable(i)' => IsSpendable(i))
    <3>1. lots[i].expires \in Nat
      BY <2>1 DEF LotsTyped, Lot
    <3>2. Past(lots[i]) => Past(lots[i])'
      BY ONLY <2>1, <2>2, <3>1 DEF Past
    <3> QED BY <2>2, <3>2 DEF IsSpendable
  <2> QED BY <2>1, <2>3, <2>4, QuietCovers
<1>8. ASSUME ReconcileWrites PROVE unfixed # NothingRead /\ credits' = unfixed
  BY <1>8 DEF ReconcileWrites
<1> QED BY <1>1, <1>2, <1>3, <1>4, <1>5, <1>6, <1>7, <1>8 DEF LedgerNext

\* Where no other credits outlive the packs, nothing but the write of reconcileBalances takes the
\* cached balance below what the ledger would spend: CoverIsKept of the grants, the deductions, the
\* returns, the expiry, the revocations and the compensations, each of which changes both.
THEOREM OnlyTheTaskUncovers ==
    ASSUME PromoExpiry <= PackExpiry
    PROVE  LedgerSpec => CoverIsKept
<1>1. LedgerInv /\ LedgerInv' /\ [LedgerNext]_ledgerVars =>
        [BalanceCoversSpendable =>
           BalanceCoversSpendable' \/ (unfixed # NothingRead /\ credits' = unfixed)]_ledgerVars
  BY CoverStep
<1> QED BY <1>1, LedgerIsSound, PTL DEF LedgerSpec, CoverIsKept

=============================================================================
