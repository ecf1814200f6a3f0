--------------------------- MODULE PaymentsProofs ---------------------------
(***************************************************************************)
(* What is proved about Payments for every value of its constants: types,  *)
(* payments that resolve and receipts that are credited; then the ledger.  *)
(***************************************************************************)
EXTENDS Payments, FiniteSetTheorems, TLAPS

-----------------------------------------------------------------------------
(* Laws of SumFunctionOnSet and SumFunction, the sums in which the ledger  *)
(* computes balances.  The library defines a sum by recursion over the     *)
(* subsets of its index set; the laws are proved by minimal                *)
(* counterexamples among those subsets.                                    *)

(* A non-empty collection of subsets of a finite set has a minimal one.    *)
LEMMA MinimalSubset ==
  ASSUME NEW S, IsFiniteSet(S), NEW B, B \subseteq SUBSET S, B # {}
  PROVE  \E T \in B : \A U \in B : U \subseteq T => U = T
<1>1. IsWellFoundedOn(StrictSubsetOrdering(S), SUBSET S)
  BY FS_StrictSubsetOrderingWellFounded, FS_FiniteSubsetsOfFinite
<1>2. PICK T \in B : \A U \in B : ~(<<U, T>> \in StrictSubsetOrdering(S))
  BY <1>1, WFMin, Zenon
<1>3. \A U \in B : U \subseteq T /\ U # T => <<U, T>> \in StrictSubsetOrdering(S)
  BY DEF StrictSubsetOrdering
<1>4. \A U \in B : U \subseteq T => U = T
  BY <1>2, <1>3
<1> QED
  BY <1>4

Pick(s) == CHOOSE x \in s : TRUE

(* The equation of the library's recursive function.                       *)
SumsOf(g, f, S) ==
  g = [s \in SUBSET S |-> IF s = {} THEN 0 ELSE f[Pick(s)] + g[s \ {Pick(s)}]]

(* A sum is the value at S of a function that the equation describes.      *)
LEMMA SumUnfolded ==
  ASSUME NEW f, NEW S
  PROVE  SumFunctionOnSet(f, S) = (CHOOSE g : SumsOf(g, f, S))[S]
BY DEF SumFunctionOnSet, FoldFunctionOnSet, MapThenFoldSet, SumsOf, Pick

(* A chosen element is an element.                                         *)
LEMMA PickIn == ASSUME NEW s, s # {} PROVE Pick(s) \in s
BY DEF Pick

(* The equation has at most one solution.                                  *)
LEMMA SumsUnique ==
  ASSUME NEW S, IsFiniteSet(S), NEW f, NEW g, NEW h, SumsOf(g, f, S), SumsOf(h, f, S)
  PROVE  g = h
<1> DEFINE B == {s \in SUBSET S : g[s] # h[s]}
<1>1. ASSUME B # {} PROVE FALSE
  <2>1. PICK T \in B : \A U \in B : U \subseteq T => U = T
    <3>1. B \subseteq SUBSET S
      OBVIOUS
    <3> HIDE DEF B
    <3> QED
      BY <1>1, <3>1, MinimalSubset
  <2>2. T # {}
    BY <2>1 DEF SumsOf
  <2>3. Pick(T) \in T /\ T \ {Pick(T)} \in SUBSET S /\ T \ {Pick(T)} # T
    BY <2>1, <2>2, PickIn
  <2>4. g[T \ {Pick(T)}] = h[T \ {Pick(T)}]
    BY <2>1, <2>3
  <2> QED
    BY <2>1, <2>2, <2>4 DEF SumsOf
<1> QED
  BY <1>1 DEF SumsOf

(* A solution for S is one for each of its subsets.                        *)
LEMMA SumsRestricted ==
  ASSUME NEW S, NEW T \in SUBSET S, NEW f, NEW g, SumsOf(g, f, S)
  PROVE  SumsOf([s \in SUBSET T |-> g[s]], f, T)
<1> DEFINE h == [s \in SUBSET T |-> g[s]]
<1>1. \A s \in SUBSET T : s # {} => s \ {Pick(s)} \in SUBSET T
  OBVIOUS
<1>2. \A s \in SUBSET T : h[s] = IF s = {} THEN 0 ELSE f[Pick(s)] + h[s \ {Pick(s)}]
  BY <1>1 DEF SumsOf
<1> QED
  BY <1>2 DEF SumsOf

(* The equation has a solution.                                            *)
LEMMA SumsExist ==
  ASSUME NEW S, IsFiniteSet(S), NEW f
  PROVE  \E g : SumsOf(g, f, S)
<1> DEFINE B == {T \in SUBSET S : ~\E g : SumsOf(g, f, T)}
<1>1. ASSUME B # {} PROVE FALSE
  <2>1. PICK T \in B : \A U \in B : U \subseteq T => U = T
    <3>1. B \subseteq SUBSET S
      OBVIOUS
    <3> HIDE DEF B
    <3> QED
      BY <1>1, <3>1, MinimalSubset
  <2> DEFINE G(s) == CHOOSE g : SumsOf(g, f, s)
             h0 == [s \in SUBSET T |-> G(s)[s]]
             h == [s \in SUBSET T |-> IF s = T /\ T # {} THEN f[Pick(T)] + h0[T \ {Pick(T)}]
                                     ELSE h0[s]]
  <2>2. \A s \in SUBSET T : s # T => SumsOf(G(s), f, s)
    <3>1. \A s \in SUBSET T : s # T => \E g : SumsOf(g, f, s)
      BY <2>1
    <3> QED
      BY <3>1
  <2>3. \A s \in SUBSET T : IsFiniteSet(s)
    BY FS_Subset, <2>1
  <2>4. ASSUME NEW s \in SUBSET T, s # T, NEW t \in SUBSET s
        PROVE  G(s)[t] = h0[t]
    <3>1. SumsOf(G(s), f, s) /\ SumsOf(G(t), f, t)
      BY <2>2, <2>4
    <3>2. SumsOf([r \in SUBSET t |-> G(s)[r]], f, t)
      <4> HIDE DEF G
      <4> QED
        BY <3>1, SumsRestricted
    <3> HIDE DEF G
    <3>3. [r \in SUBSET t |-> G(s)[r]] = G(t)
      BY <2>3, <3>1, <3>2, SumsUnique
    <3> QED
      BY <3>3
  <2>5. ASSUME NEW s \in SUBSET T
        PROVE  h[s] = IF s = {} THEN 0 ELSE f[Pick(s)] + h[s \ {Pick(s)}]
    <3> HIDE DEF G
    <3>1. CASE s # {} /\ s # T
      <4>1. /\ Pick(s) \in s /\ s \ {Pick(s)} \in SUBSET s /\ s \ {Pick(s)} # T
        BY <3>1, PickIn
      <4>2. G(s)[s] = f[Pick(s)] + G(s)[s \ {Pick(s)}]
        BY <2>2, <3>1 DEF SumsOf
      <4> QED
        BY <2>4, <3>1, <4>1, <4>2
    <3>2. CASE s = T /\ T # {}
      <4>1. Pick(T) \in T /\ T \ {Pick(T)} # T /\ T \ {Pick(T)} \in SUBSET T
        BY <3>2, PickIn
      <4> QED
        BY <3>2, <4>1
    <3>3. CASE s = {}
      <4>1. h[s] = G(s)[s]
        BY <3>3
      <4>2. SumsOf(G({}), f, {})
        <5>1. SumsOf([r \in SUBSET {} |-> 0], f, {})
          BY DEF SumsOf
        <5> QED
          BY <5>1 DEF G
      <4> QED
        BY <3>3, <4>1, <4>2 DEF SumsOf
    <3> QED
      BY <3>1, <3>2, <3>3
  <2>6. SumsOf(h, f, T)
    <3> HIDE DEF G, h0
    <3> QED
      BY <2>5 DEF SumsOf
  <2> QED
    BY <2>1, <2>6
<1> QED
  BY <1>1

-----------------------------------------------------------------------------
(* Induction over a finite set, with the induction hypothesis as a set.    *)
LEMMA SetInduction ==
  ASSUME NEW S, IsFiniteSet(S), NEW A, {} \in A,
         \A T \in SUBSET S : \A x \in S \ T : T \in A => T \cup {x} \in A
  PROVE  S \in A
<1> DEFINE B == (SUBSET S) \ A
<1>1. ASSUME B # {} PROVE FALSE
  <2>1. PICK T \in B : \A U \in B : U \subseteq T => U = T
    <3>1. B \subseteq SUBSET S
      OBVIOUS
    <3> HIDE DEF B
    <3> QED
      BY <1>1, <3>1, MinimalSubset
  <2>2. PICK x \in T : TRUE
    BY <2>1
  <2>3. T \ {x} \in SUBSET S /\ T \ {x} \subseteq T /\ T \ {x} # T /\ x \in S \ (T \ {x})
    BY <2>1, <2>2
  <2>4. T \ {x} \in A
    BY <2>1, <2>3
  <2>5. (T \ {x}) \cup {x} = T
    BY <2>2
  <2> QED
    BY <2>1, <2>3, <2>4, <2>5
<1> QED
  BY <1>1

(* The sum over no index is 0, over others it takes out a chosen index.    *)
LEMMA SumChosen ==
  ASSUME NEW S, IsFiniteSet(S), NEW f
  PROVE  /\ SumFunctionOnSet(f, {}) = 0
         /\ S # {} => SumFunctionOnSet(f, S) =
                        f[Pick(S)] + SumFunctionOnSet(f, S \ {Pick(S)})
<1> DEFINE G(s) == CHOOSE g : SumsOf(g, f, s)
<1>1. \A s \in SUBSET S : SumsOf(G(s), f, s) /\ SumFunctionOnSet(f, s) = G(s)[s]
  <2>1. \A s \in SUBSET S : IsFiniteSet(s)
    BY FS_Subset
  <2>2. \A s \in SUBSET S : \E g : SumsOf(g, f, s)
    BY <2>1, SumsExist
  <2> QED
    BY <2>2, SumUnfolded
<1> HIDE DEF G
<1>2. SumFunctionOnSet(f, {}) = 0
  BY <1>1 DEF SumsOf
<1>3. ASSUME S # {} PROVE SumFunctionOnSet(f, S) =
                            f[Pick(S)] + SumFunctionOnSet(f, S \ {Pick(S)})
  <2> DEFINE t == S \ {Pick(S)}
  <2>1. t \in SUBSET S /\ IsFiniteSet(t)
    BY FS_RemoveElement
  <2>a. SumsOf(G(S), f, S)
    BY <1>1
  <2>2. SumsOf([r \in SUBSET t |-> G(S)[r]], f, t)
    <3> HIDE DEF t
    <3> QED
      BY <2>a, <2>1, SumsRestricted
  <2>3. [r \in SUBSET t |-> G(S)[r]] = G(t)
    BY <1>1, <2>1, <2>2, SumsUnique
  <2>4. G(S)[t] = G(t)[t]
    BY <2>3
  <2>5. G(S)[S] = f[Pick(S)] + G(S)[t]
    BY <1>1, <1>3 DEF SumsOf
  <2> QED
    BY <1>1, <2>1, <2>4, <2>5
<1> QED
  BY <1>2, <1>3

(* Integers have an integer sum, and any index may be taken out of it.     *)
LEMMA SumRemove ==
  ASSUME NEW S, IsFiniteSet(S), NEW f, \A x \in S : f[x] \in Int
  PROVE  /\ SumFunctionOnSet(f, S) \in Int
         /\ \A x \in S : SumFunctionOnSet(f, S) = f[x] + SumFunctionOnSet(f, S \ {x})
<1> DEFINE Sum(s) == SumFunctionOnSet(f, s)
           Good(T) == /\ Sum(T) \in Int
                      /\ \A x \in T : Sum(T) = f[x] + Sum(T \ {x})
           B == {T \in SUBSET S : ~Good(T)}
<1>f. \A T \in SUBSET S : IsFiniteSet(T)
  BY FS_Subset
<1>c. /\ Sum({}) = 0
      /\ \A T \in SUBSET S : T # {} => Sum(T) = f[Pick(T)] + Sum(T \ {Pick(T)})
  BY <1>f, SumChosen
<1> HIDE DEF Sum
<1>1. ASSUME B # {} PROVE FALSE
  <2>1. PICK T \in B : \A U \in B : U \subseteq T => U = T
    <3>1. B \subseteq SUBSET S
      OBVIOUS
    <3> HIDE DEF B
    <3> QED
      BY <1>1, <3>1, MinimalSubset
  <2>2. \A U \in SUBSET T : U # T => Good(U)
    BY <2>1
  <2>3. T # {}
    <3>1. Good({})
      BY <1>c
    <3> HIDE DEF Good
    <3> QED
      BY <2>1, <3>1
  <2> DEFINE p == Pick(T)
  <2>4. p \in T /\ Sum(T) = f[p] + Sum(T \ {p}) /\ f[p] \in Int
    BY <2>1, <2>3, <1>c, PickIn
  <2> HIDE DEF p
  <2>5. Good(T \ {p})
    BY <2>2, <2>4
  <2>6. Sum(T) \in Int
    BY <2>4, <2>5
  <2>7. ASSUME NEW x \in T PROVE Sum(T) = f[x] + Sum(T \ {x})
    <3>1. CASE x = p
      BY <3>1, <2>4
    <3>2. CASE x # p
      <4>1. Sum(T \ {p}) = f[x] + Sum((T \ {p}) \ {x})
        BY <2>5, <3>2
      <4>2. Good(T \ {x}) /\ p \in T \ {x}
        BY <2>2, <2>4, <3>2
      <4>3. Sum(T \ {x}) = f[p] + Sum((T \ {x}) \ {p})
        BY <4>2
      <4>4. (T \ {p}) \ {x} = (T \ {x}) \ {p}
        OBVIOUS
      <4>5. Good((T \ {x}) \ {p})
        <5>1. (T \ {x}) \ {p} \in SUBSET T /\ (T \ {x}) \ {p} # T
          BY <2>4
        <5> HIDE DEF Good
        <5> QED
          BY <2>2, <5>1
      <4>6. f[x] \in Int /\ f[p] \in Int /\ Sum((T \ {x}) \ {p}) \in Int
        BY <2>1, <2>4, <4>5
      <4>7. Sum((T \ {p}) \ {x}) = Sum((T \ {x}) \ {p})
        BY <4>4
      <4> HIDE DEF Good, B
      <4> QED
        BY <2>4, <4>1, <4>3, <4>6, <4>7
    <3> QED
      BY <3>1, <3>2
  <2> QED
    BY <2>1, <2>6, <2>7
<1> QED
  BY <1>1 DEF Sum

(* An index that is added adds its term.                                   *)
LEMMA SumAddIndex ==
  ASSUME NEW S, IsFiniteSet(S), NEW f, \A x \in S : f[x] \in Int,
         NEW T \in SUBSET S, NEW x \in S \ T
  PROVE  /\ SumFunctionOnSet(f, T) \in Int
         /\ SumFunctionOnSet(f, T \cup {x}) = f[x] + SumFunctionOnSet(f, T)
<1>1. IsFiniteSet(T) /\ IsFiniteSet(T \cup {x})
  BY FS_Subset, FS_AddElement
<1>2. (T \cup {x}) \ {x} = T
  OBVIOUS
<1>3. SumFunctionOnSet(f, T) \in Int
  BY <1>1, SumRemove
<1>4. SumFunctionOnSet(f, T \cup {x}) = f[x] + SumFunctionOnSet(f, (T \cup {x}) \ {x})
  BY <1>1, SumRemove
<1> QED
  BY <1>2, <1>3, <1>4

(* Larger terms have a larger sum; equal terms an equal one.               *)
LEMMA SumMonotoneOnSet ==
  ASSUME NEW S, IsFiniteSet(S), NEW f, NEW g,
         \A x \in S : f[x] \in Int /\ g[x] \in Int /\ f[x] <= g[x]
  PROVE  SumFunctionOnSet(f, S) <= SumFunctionOnSet(g, S)
<1> DEFINE A == {T \in SUBSET S : SumFunctionOnSet(f, T) <= SumFunctionOnSet(g, T)}
<1>1. {} \in A
  BY FS_EmptySet, SumChosen
<1>2. ASSUME NEW T \in SUBSET S, NEW x \in S \ T, T \in A PROVE T \cup {x} \in A
  <2>1. /\ SumFunctionOnSet(f, T) \in Int
        /\ SumFunctionOnSet(f, T \cup {x}) = f[x] + SumFunctionOnSet(f, T)
        /\ SumFunctionOnSet(g, T) \in Int
        /\ SumFunctionOnSet(g, T \cup {x}) = g[x] + SumFunctionOnSet(g, T)
    BY SumAddIndex
  <2>2. SumFunctionOnSet(f, T) <= SumFunctionOnSet(g, T) /\ T \cup {x} \in SUBSET S
    BY <1>2
  <2>3. f[x] \in Int /\ g[x] \in Int /\ f[x] <= g[x]
    OBVIOUS
  <2>4. SumFunctionOnSet(f, T \cup {x}) <= SumFunctionOnSet(g, T \cup {x})
    BY <2>1, <2>2, <2>3
  <2> QED
    BY <2>2, <2>4
<1>3. S \in A
  <2> HIDE DEF A
  <2> QED
    BY <1>1, <1>2, SetInduction
<1> QED
  BY <1>3

(* The sum of a sum is the sum of the sums.                                *)
LEMMA SumAddOnSet ==
  ASSUME NEW S, IsFiniteSet(S), NEW f, NEW g, NEW h,
         \A x \in S : f[x] \in Int /\ g[x] \in Int /\ h[x] = f[x] + g[x]
  PROVE  SumFunctionOnSet(h, S) = SumFunctionOnSet(f, S) + SumFunctionOnSet(g, S)
<1> DEFINE A == {T \in SUBSET S : SumFunctionOnSet(h, T) =
                   SumFunctionOnSet(f, T) + SumFunctionOnSet(g, T)}
<1>0. \A x \in S : f[x] \in Int /\ g[x] \in Int /\ h[x] \in Int /\ h[x] = f[x] + g[x]
  OBVIOUS
<1>1. {} \in A
  <2>1. /\ SumFunctionOnSet(f, {}) = 0 /\ SumFunctionOnSet(g, {}) = 0
        /\ SumFunctionOnSet(h, {}) = 0
    BY FS_EmptySet, SumChosen
  <2> QED
    BY <2>1
<1>2. ASSUME NEW T \in SUBSET S, NEW x \in S \ T, T \in A PROVE T \cup {x} \in A
  <2>1. /\ SumFunctionOnSet(f, T) \in Int
        /\ SumFunctionOnSet(f, T \cup {x}) = f[x] + SumFunctionOnSet(f, T)
        /\ SumFunctionOnSet(g, T) \in Int
        /\ SumFunctionOnSet(g, T \cup {x}) = g[x] + SumFunctionOnSet(g, T)
        /\ SumFunctionOnSet(h, T) \in Int
        /\ SumFunctionOnSet(h, T \cup {x}) = h[x] + SumFunctionOnSet(h, T)
    <3>1. /\ \A y \in S : f[y] \in Int
          /\ \A y \in S : g[y] \in Int
          /\ \A y \in S : h[y] \in Int
      BY <1>0
    <3> HIDE DEF A
    <3>2. /\ SumFunctionOnSet(f, T) \in Int
          /\ SumFunctionOnSet(f, T \cup {x}) = f[x] + SumFunctionOnSet(f, T)
      BY <3>1, SumAddIndex
    <3>3. /\ SumFunctionOnSet(g, T) \in Int
          /\ SumFunctionOnSet(g, T \cup {x}) = g[x] + SumFunctionOnSet(g, T)
      BY <3>1, SumAddIndex
    <3>4. /\ SumFunctionOnSet(h, T) \in Int
          /\ SumFunctionOnSet(h, T \cup {x}) = h[x] + SumFunctionOnSet(h, T)
      BY <3>1, SumAddIndex
    <3> QED
      BY <3>2, <3>3, <3>4
  <2>2. /\ SumFunctionOnSet(h, T) = SumFunctionOnSet(f, T) + SumFunctionOnSet(g, T)
        /\ T \cup {x} \in SUBSET S
    BY <1>2
  <2>3. f[x] \in Int /\ g[x] \in Int /\ h[x] = f[x] + g[x]
    OBVIOUS
  <2>4. SumFunctionOnSet(h, T \cup {x}) =
          SumFunctionOnSet(f, T \cup {x}) + SumFunctionOnSet(g, T \cup {x})
    BY <2>1, <2>2, <2>3
  <2> QED
    BY <2>2, <2>4
<1>3. S \in A
  <2> HIDE DEF A
  <2> QED
    BY <1>1, <1>2, SetInduction
<1> QED
  BY <1>3

-----------------------------------------------------------------------------
(* The same laws for the sum of a whole function.                          *)

(* The sum of integers is one, of naturals a natural, of zeros zero.       *)
LEMMA SumType ==
  ASSUME NEW D, IsFiniteSet(D), NEW f \in [D -> Int]
  PROVE  /\ SumFunction(f) \in Int
         /\ (\A x \in D : f[x] >= 0) => SumFunction(f) >= 0
         /\ (\A x \in D : f[x] = 0) => SumFunction(f) = 0
<1> DEFINE z == [x \in D |-> 0]
           A == {T \in SUBSET D : SumFunctionOnSet(z, T) = 0}
<1>0. SumFunction(f) = SumFunctionOnSet(f, D)
  BY DEF SumFunction
<1>1. SumFunctionOnSet(f, D) \in Int
  BY SumRemove
<1>2. SumFunctionOnSet(z, D) = 0
  <2>1. {} \in A
    BY FS_EmptySet, SumChosen
  <2>2. ASSUME NEW T \in SUBSET D, NEW x \in D \ T, T \in A PROVE T \cup {x} \in A
    <3>1. SumFunctionOnSet(z, T \cup {x}) = z[x] + SumFunctionOnSet(z, T)
      BY SumAddIndex
    <3> QED
      BY <2>2, <3>1
  <2>3. D \in A
    <3> HIDE DEF A
    <3> QED
      BY <2>1, <2>2, SetInduction
  <2> QED
    BY <2>3
<1>3. (\A x \in D : f[x] >= 0) => SumFunctionOnSet(z, D) <= SumFunctionOnSet(f, D)
  BY SumMonotoneOnSet
<1>4. (\A x \in D : f[x] = 0) => f = z
  OBVIOUS
<1> HIDE DEF z
<1> QED
  BY <1>0, <1>1, <1>2, <1>3, <1>4

(* Larger terms have a larger sum.                                         *)
LEMMA SumMonotone ==
  ASSUME NEW D, IsFiniteSet(D), NEW f \in [D -> Int], NEW g \in [D -> Int],
         \A x \in D : f[x] <= g[x]
  PROVE  SumFunction(f) <= SumFunction(g)
BY SumMonotoneOnSet DEF SumFunction

(* Sums are added term by term.                                            *)
LEMMA SumAdd ==
  ASSUME NEW D, IsFiniteSet(D), NEW f \in [D -> Int], NEW g \in [D -> Int],
         NEW h \in [D -> Int], \A x \in D : h[x] = f[x] + g[x]
  PROVE  SumFunction(h) = SumFunction(f) + SumFunction(g)
<1>1. \A x \in D : f[x] \in Int /\ g[x] \in Int /\ h[x] = f[x] + g[x]
  OBVIOUS
<1>2. DOMAIN h = D /\ DOMAIN f = D /\ DOMAIN g = D
  OBVIOUS
<1>3. SumFunctionOnSet(h, D) = SumFunctionOnSet(f, D) + SumFunctionOnSet(g, D)
  BY <1>1, SumAddOnSet
<1> QED
  BY <1>2, <1>3 DEF SumFunction

(* One term changes: the sum changes by as much.                           *)
LEMMA SumUpdate ==
  ASSUME NEW D, IsFiniteSet(D), NEW f \in [D -> Int], NEW g \in [D -> Int],
         NEW x \in D, \A y \in D : y # x => g[y] = f[y]
  PROVE  SumFunction(g) = SumFunction(f) - f[x] + g[x]
<1> DEFINE R == D \ {x}
<1>1. IsFiniteSet(R) /\ \A y \in R : g[y] = f[y] /\ f[y] \in Int
  BY FS_RemoveElement
<1>2. /\ SumFunctionOnSet(f, R) <= SumFunctionOnSet(g, R)
      /\ SumFunctionOnSet(g, R) <= SumFunctionOnSet(f, R)
  BY <1>1, SumMonotoneOnSet
<1>3. SumFunctionOnSet(f, R) \in Int /\ SumFunctionOnSet(g, R) \in Int
  BY <1>1, SumRemove
<1>4. /\ SumFunctionOnSet(f, D) = f[x] + SumFunctionOnSet(f, R)
      /\ SumFunctionOnSet(g, D) = g[x] + SumFunctionOnSet(g, R)
  BY SumRemove
<1>5. SumFunction(f) = SumFunctionOnSet(f, D) /\ SumFunction(g) = SumFunctionOnSet(g, D)
  BY DEF SumFunction
<1>6. f[x] \in Int /\ g[x] \in Int
  OBVIOUS
<1> HIDE DEF R
<1> QED
  BY <1>2, <1>3, <1>4, <1>5, <1>6

(* part[u] has the terms of u, and total[u] is their sum.                  *)
PartsOf(part, a, owner, D, U) ==
  /\ part \in [U -> [D -> Int]]
  /\ \A u \in U, x \in D : part[u][x] = IF owner[x] = u THEN a[x] ELSE 0

TotalsOf(total, part, U) == total = [u \in U |-> SumFunction(part[u])]

(* Terms grouped by their owners: the owners' sums add up to the sum of    *)
(* all terms, if every term that is not 0 has an owner.                    *)
LEMMA SumByOwner ==
  ASSUME NEW D, IsFiniteSet(D), NEW U, IsFiniteSet(U), NEW owner,
         NEW a \in [D -> Int], \A x \in D : a[x] = 0 \/ owner[x] \in U,
         NEW part, PartsOf(part, a, owner, D, U), NEW total, TotalsOf(total, part, U)
  PROVE  SumFunction(total) = SumFunction(a)
<1> DEFINE m(u) == part[u]
           F(T) == [u \in U |-> SumFunctionOnSet(m(u), T)]
           A == {T \in SUBSET D : SumFunction(F(T)) = SumFunctionOnSet(a, T)}
<1>m. \A u \in U : /\ m(u) \in [D -> Int] /\ DOMAIN m(u) = D
                   /\ \A x \in D : m(u)[x] = IF owner[x] = u THEN a[x] ELSE 0
  BY DEF PartsOf
<1> HIDE DEF m
<1>t. \A T \in SUBSET D : F(T) \in [U -> Int]
  <2>1. \A T \in SUBSET D : IsFiniteSet(T)
    BY FS_Subset
  <2>2. ASSUME NEW T \in SUBSET D, NEW u \in U PROVE SumFunctionOnSet(m(u), T) \in Int
    BY <1>m, <2>1, SumRemove
  <2> QED
    BY <2>2
<1>1. {} \in A
  <2>1. SumFunctionOnSet(a, {}) = 0 /\ \A u \in U : SumFunctionOnSet(m(u), {}) = 0
    BY FS_EmptySet, SumChosen
  <2>2. F({}) \in [U -> Int] /\ \A u \in U : F({})[u] = 0
    BY <1>t, <2>1
  <2>3. SumFunction(F({})) = 0
    <3> HIDE DEF F
    <3> QED
      BY <2>2, SumType
  <2> QED
    BY <2>1, <2>3
<1>2. ASSUME NEW T \in SUBSET D, NEW x \in D \ T, T \in A PROVE T \cup {x} \in A
  <2> DEFINE T2 == T \cup {x}
  <2>1. /\ SumFunctionOnSet(a, T) \in Int
        /\ SumFunctionOnSet(a, T2) = a[x] + SumFunctionOnSet(a, T)
    BY SumAddIndex
  <2>2. \A u \in U : /\ SumFunctionOnSet(m(u), T) \in Int
                     /\ SumFunctionOnSet(m(u), T2) = m(u)[x] + SumFunctionOnSet(m(u), T)
    <3>1. ASSUME NEW u \in U
          PROVE  /\ SumFunctionOnSet(m(u), T) \in Int
                 /\ SumFunctionOnSet(m(u), T2) = m(u)[x] + SumFunctionOnSet(m(u), T)
      <4>1. \A y \in D : m(u)[y] \in Int
        BY <1>m
      <4> HIDE DEF F, A
      <4>2. ASSUME NEW f, \A y \in D : f[y] \in Int
            PROVE  /\ SumFunctionOnSet(f, T) \in Int
                   /\ SumFunctionOnSet(f, T2) = f[x] + SumFunctionOnSet(f, T)
        BY <4>2, SumAddIndex
      <4> QED
        BY <4>1, <4>2
    <3> QED
      BY <3>1
  <2>3. T2 \in SUBSET D /\ a[x] \in Int
    OBVIOUS
  <2> HIDE DEF T2
  <2>4. F(T) \in [U -> Int] /\ F(T2) \in [U -> Int]
    BY <1>t, <2>3
  <2>5. \A u \in U : F(T2)[u] = (IF owner[x] = u THEN a[x] ELSE 0) + F(T)[u]
    BY <1>m, <2>2
  <2>6. SumFunction(F(T2)) = a[x] + SumFunction(F(T))
    <3> HIDE DEF F
    <3>0. SumFunction(F(T)) \in Int
      BY <2>4, SumType
    <3>1. CASE owner[x] \in U
      <4>1. \A u \in U : u # owner[x] => F(T2)[u] = F(T)[u]
        BY <2>4, <2>5
      <4>2. F(T2)[owner[x]] = a[x] + F(T)[owner[x]] /\ F(T)[owner[x]] \in Int
        BY <2>4, <2>5, <3>1
      <4>3. SumFunction(F(T2)) = SumFunction(F(T)) - F(T)[owner[x]] + F(T2)[owner[x]]
        BY <2>4, <3>1, <4>1, SumUpdate
      <4> QED
        BY <2>3, <3>0, <4>2, <4>3
    <3>2. CASE owner[x] \notin U
      <4>1. a[x] = 0 /\ F(T2) = F(T)
        BY <2>4, <2>5, <3>2
      <4> QED
        BY <3>0, <4>1
    <3> QED
      BY <3>1, <3>2
  <2>7. SumFunction(F(T)) = SumFunctionOnSet(a, T)
    BY <1>2
  <2>8. T2 \in A
    <3>1. SumFunction(F(T2)) = SumFunctionOnSet(a, T2)
      BY <2>1, <2>6, <2>7
    <3> QED
      BY <2>3, <3>1
  <2> QED
    BY <2>8 DEF T2
<1>3. D \in A
  <2> HIDE DEF A
  <2> QED
    BY <1>1, <1>2, SetInduction
<1>4. F(D) = [u \in U |-> SumFunction(m(u))] /\ SumFunction(a) = SumFunctionOnSet(a, D)
  BY <1>m DEF SumFunction
<1>5. total = [u \in U |-> SumFunction(m(u))]
  BY DEF m, TotalsOf
<1>6. SumFunction(F(D)) = SumFunctionOnSet(a, D)
  BY <1>3
<1> HIDE DEF F
<1> QED
  BY <1>4, <1>5, <1>6

(* No term of a sum of non-negative terms exceeds the sum.                 *)
LEMMA SumMember ==
  ASSUME NEW D, IsFiniteSet(D), NEW f \in [D -> Int], \A y \in D : f[y] >= 0, NEW x \in D
  PROVE  f[x] <= SumFunction(f)
<1> DEFINE g == [y \in D |-> IF y = x THEN 0 ELSE f[y]]
<1>1. /\ g \in [D -> Int] /\ g[x] = 0 /\ \A y \in D : g[y] >= 0
      /\ \A y \in D : y # x => g[y] = f[y]
  OBVIOUS
<1> HIDE DEF g
<1>2. SumFunction(g) = SumFunction(f) - f[x] + g[x]
  BY <1>1, SumUpdate
<1>3. SumFunction(g) \in Int /\ SumFunction(g) >= 0
  BY <1>1, SumType
<1>4. SumFunction(f) \in Int /\ f[x] \in Int
  BY SumType
<1> QED
  BY <1>1, <1>2, <1>3, <1>4

(* Terms that are zero do not matter.                                      *)
LEMMA SumExtend ==
  ASSUME NEW E, IsFiniteSet(E), NEW D \in SUBSET E, NEW f \in [D -> Int],
         NEW g \in [E -> Int],
         \A x \in E : IF x \in D THEN g[x] = f[x] ELSE g[x] = 0
  PROVE  SumFunction(g) = SumFunction(f)
<1> DEFINE S == E \ D
           A == {T \in SUBSET S : SumFunctionOnSet(g, D \cup T) = SumFunctionOnSet(f, D)}
<1>0. IsFiniteSet(D) /\ IsFiniteSet(S)
  BY FS_Subset
<1>1. {} \in A
  <2>1. \A x \in D : f[x] \in Int /\ g[x] \in Int /\ f[x] <= g[x] /\ g[x] <= f[x]
    OBVIOUS
  <2>2. SumFunctionOnSet(f, D) <= SumFunctionOnSet(g, D)
    BY <1>0, <2>1, SumMonotoneOnSet
  <2>3. SumFunctionOnSet(g, D) <= SumFunctionOnSet(f, D)
    BY <1>0, <2>1, SumMonotoneOnSet
  <2>4. SumFunctionOnSet(f, D) \in Int
    BY <1>0, <2>1, SumRemove
  <2>5. SumFunctionOnSet(g, D) \in Int
    BY <1>0, <2>1, SumRemove
  <2>6. D \cup {} = D
    OBVIOUS
  <2> QED
    BY <2>2, <2>3, <2>4, <2>5, <2>6
<1>2. ASSUME NEW T \in SUBSET S, NEW x \in S \ T, T \in A PROVE T \cup {x} \in A
  <2> DEFINE P == D \cup T
             Q == D \cup (T \cup {x})
  <2>1. P \in SUBSET E /\ x \in E \ P /\ g[x] = 0 /\ Q = P \cup {x}
    OBVIOUS
  <2>2. SumFunctionOnSet(g, P) = SumFunctionOnSet(f, D) /\ \A y \in E : g[y] \in Int
    BY <1>2
  <2>3. SumFunctionOnSet(g, Q) = SumFunctionOnSet(f, D)
    <3> HIDE DEF P, Q
    <3>1. /\ SumFunctionOnSet(g, P) \in Int
          /\ SumFunctionOnSet(g, P \cup {x}) = g[x] + SumFunctionOnSet(g, P)
      BY <2>1, <2>2, SumAddIndex
    <3> QED
      BY <2>1, <2>2, <3>1
  <2>4. T \cup {x} \in SUBSET S
    OBVIOUS
  <2> HIDE DEF S
  <2> QED
    BY <2>3, <2>4
<1>3. S \in A
  <2> HIDE DEF A, S
  <2> QED
    BY <1>0, <1>1, <1>2, SetInduction
<1>4. D \cup S = E
  OBVIOUS
<1> QED
  BY <1>3, <1>4 DEF SumFunction

-----------------------------------------------------------------------------
(* The facts the inductive invariants add.                                 *)

(* An id that has not been drawn yet occurs nowhere.                       *)
FreshUnused ==
  \A id \in Ids : id > minted =>
    /\ send[id] = NULL /\ receive[id] = NULL
    /\ invoice[id] = NULL /\ offer[id] = NULL
    /\ out[id] = NULL /\ claimed[id] = NULL
    /\ rpc # NULL => rpc.id # id

(* A payment the node received pays a request in our tables.               *)
ClaimsKnown ==
  \A id \in Ids : claimed[id] # NULL =>
    invoice[claimed[id].to] # NULL \/ offer[claimed[id].to] # NULL

(* A queued receipt belongs to a payment the node received.                *)
ReceiptsQueued ==
  \A i \in 1..Len(events) : events[i].type = "received" =>
    events[i].id \in Ids /\ claimed[events[i].id] # NULL

(* The event loop holds an event, and between the two UPDATEs it alone has *)
(* the connection and the row is not pending any more.                     *)
LoopSound ==
  /\ handler # "idle" => events # <<>>
  /\ handler = "fee" =>
       /\ rpc = NULL
       /\ events[1].type \in Outcomes
       /\ send[events[1].id] # NULL
       /\ send[events[1].id].status # "pending"

Base == TypeOK /\ FreshUnused /\ ClaimsKnown /\ ReceiptsQueued /\ LoopSound

-----------------------------------------------------------------------------
(* The fee check_send computes is an amount.                               *)
LEMMA FeeType ==
  ASSUME NEW a \in Nat
  PROVE  fee_msat(a) \in Nat
<1>1. fee_ppm \in Nat /\ base_fee_msat \in Nat
  BY PaymentsConstants
<1>2. a * fee_ppm \in Nat
  BY <1>1
<1>3. (a * fee_ppm) \div 1000000 \in Nat
  BY <1>2
<1> QED
  BY <1>1, <1>3 DEF fee_msat

(* Drawing an id keeps the count of ids in range, and the ids that are     *)
(* still to be drawn were so before.                                       *)
LEMMA FreshType ==
  ASSUME minted \in 0..MaxIds, CanMint
  PROVE  /\ Fresh \in Ids /\ Fresh \in SendIds
         /\ Fresh \in 0..MaxIds /\ Fresh > minted
         /\ \A id \in Ids : id > Fresh => id > minted /\ id # Fresh
BY PaymentsConstants DEF CanMint, Fresh, Ids, SendIds

(* Every part of Base holds initially.                                     *)
LEMMA BaseInit == Init => Base
<1> SUFFICES ASSUME Init PROVE Base
  OBVIOUS
<1>1. 0 \in 0..MaxIds /\ 0 \in 0..MaxRetries /\ 0 \in 0..MaxCrashes
  BY PaymentsConstants
<1>2. balanceFeed = [u \in Users |-> balanceFeed[u]]
  BY DEF Init
<1>3. TypeOK
  BY <1>1, <1>2 DEF Init, TypeOK
<1>4. FreshUnused /\ ClaimsKnown
  BY DEF Init, FreshUnused, ClaimsKnown, Ids, SendIds
<1>5. ReceiptsQueued /\ LoopSound
  BY DEF Init, ReceiptsQueued, LoopSound
<1> QED
  BY <1>3, <1>4, <1>5 DEF Base

(* A transfer inside the database preserves Base.                          *)
LEMMA BaseTransfer ==
  ASSUME Base, DbFree, NEW from \in Users, NEW to \in Users, NEW amount \in Int,
         NEW fee \in Nat, create_internal_transfer(from, to, amount, fee)
  PROVE  Base'
<1> USE DEF Base
<1>1. /\ Fresh \in Ids /\ Fresh \in SendIds
      /\ Fresh \in 0..MaxIds /\ Fresh > minted
      /\ \A id \in Ids : id > Fresh => id > minted /\ id # Fresh
  BY FreshType DEF TypeOK, create_internal_transfer
<1>2. TypeOK'
  <2>1. balanceFeed' = [u \in Users |-> balanceFeed'[u]]
    BY DEF create_internal_transfer, PublishBalances
  <2>2. [user |-> from, amount |-> amount, fee |-> fee, status |-> "successful"]
          \in SendRow
    BY DEF SendRow
  <2>3. [user |-> to, amount |-> amount] \in ReceiveRow
    BY DEF ReceiveRow
  <2>4. send' \in [SendIds -> SendRow \cup {NULL}]
    BY <1>1, <2>2 DEF TypeOK, create_internal_transfer, SendIds
  <2>5. receive' \in [Ids -> ReceiveRow \cup {NULL}]
    BY <1>1, <2>3 DEF TypeOK, create_internal_transfer
  <2>6. sendFeed' \in [SendIds -> SendRow \cup {NULL}]
    BY <1>1, <2>4 DEF TypeOK, create_internal_transfer, SendIds
  <2> QED
    BY <1>1, <2>1, <2>4, <2>5, <2>6
       DEF TypeOK, create_internal_transfer, node, counters
<1>3. FreshUnused'
  BY <1>1 DEF FreshUnused, create_internal_transfer, TypeOK, node, SendIds
<1>4. ClaimsKnown' /\ ReceiptsQueued' /\ LoopSound'
  BY <1>1 DEF ClaimsKnown, ReceiptsQueued, LoopSound, create_internal_transfer, node, DbFree
<1> QED
  BY <1>2, <1>3, <1>4

(* A handler whose payment the node accepts, under a new id or under the   *)
(* hash of an external invoice, preserves Base.                            *)
LEMMA BaseAccept ==
  ASSUME Base, DbFree, NEW id \in SendIds, NEW u \in Users, NEW amount \in Nat,
         NEW fee \in Nat, NEW rowStatus \in {"pending", "successful"},
         NEW outStatus \in {"inflight", "broadcast"}, NEW paid \in Nat,
         NEW described \in BOOLEAN,
         NodeAccepts(id, u, amount, fee, rowStatus, outStatus, paid, described),
         retries' \in 0..MaxRetries, minted' \in 0..MaxIds,
         \A i \in Ids : i > minted' => i > minted /\ i # id
  PROVE  Base'
<1> USE DEF Base
<1>1. TypeOK'
  <2>1. out' \in [SendIds -> OutPayment \cup {NULL}]
    <3>1. [user |-> u, amount |-> amount, fee |-> paid, status |-> outStatus]
            \in OutPayment
      BY DEF OutPayment
    <3> QED
      BY <3>1 DEF TypeOK, NodeAccepts
  <2>2. rpc' \in Task
    <3>1. [user |-> u, amount |-> amount, fee |-> fee, status |-> rowStatus]
            \in SendRow
      BY DEF SendRow
    <3> QED
      BY <3>1 DEF NodeAccepts, Task
  <2> QED
    BY <2>1, <2>2 DEF TypeOK, NodeAccepts, tables, feed
<1>2. FreshUnused'
  BY DEF FreshUnused, NodeAccepts, TypeOK, tables, SendIds
<1>3. ClaimsKnown' /\ ReceiptsQueued' /\ LoopSound'
  BY DEF ClaimsKnown, ReceiptsQueued, LoopSound, NodeAccepts, tables, DbFree
<1> QED
  BY <1>1, <1>2, <1>3

(* Each client handler preserves Base.                                     *)
LEMMA BaseClient ==
  ASSUME Base, NEW u \in Users, ClientSends(u) \/ ClientReceives(u) \/ Recovery(u)
  PROVE  Base'
<1> USE DEF Base
<1>a. CanMint => /\ Fresh \in Ids /\ Fresh \in SendIds
                 /\ Fresh \in 0..MaxIds /\ Fresh > minted
                 /\ \A id \in Ids : id > Fresh => id > minted /\ id # Fresh
  BY FreshType DEF TypeOK
<1>b. retries \in 0..MaxRetries /\ minted \in 0..MaxIds
  BY DEF TypeOK
<1>c. SendAmounts \subseteq Nat /\ OnchainSats \subseteq Nat /\ OnchainFees \subseteq Nat
      /\ onchain_base_fee_msat \in Nat /\ OfferDescribed \subseteq BOOLEAN
      /\ InvoiceAmounts \subseteq Nat /\ ReceiveAmounts \subseteq Nat /\ MaxRetries \in Nat
  BY PaymentsConstants
<1>1. ASSUME NEW a \in SendAmounts, NEW inv \in Ids, bolt11_send_internal(u, inv, a)
      PROVE  Base'
  <2>1. invoice[inv].user \in Users /\ a \in Int /\ 1000 \in Nat
    BY <1>1, <1>c DEF bolt11_send_internal, TypeOK, InvoiceRow
  <2>2. DbFree /\ create_internal_transfer(u, invoice[inv].user, a, 1000)
    BY <1>1 DEF bolt11_send_internal
  <2> HIDE DEF Base
  <2> QED
    BY <2>1, <2>2, BaseTransfer
<1>2. ASSUME NEW a \in SendAmounts, NEW off \in Ids, bolt12_send_internal(u, off, a)
      PROVE  Base'
  <2>1. offer[off].user \in Users /\ a \in Int /\ 1000 \in Nat
    BY <1>2, <1>c DEF bolt12_send_internal, TypeOK, OfferRow
  <2> QED
    BY <1>2, <2>1, BaseTransfer DEF bolt12_send_internal
<1>3. ASSUME NEW a \in SendAmounts, NEW pr \in ExtInvoices, bolt11_send_external(u, pr, a)
      PROVE  Base'
  <2>1. pr \in SendIds /\ a \in Nat /\ fee_msat(a) \in Nat
    BY <1>c, FeeType DEF SendIds
  <2>2. retries' \in 0..MaxRetries
    BY <1>3, <1>b, <1>c DEF bolt11_send_external
  <2>3. minted' \in 0..MaxIds /\ \A i \in Ids : i > minted' => i > minted /\ i # pr
    BY <1>3, <1>b, PaymentsConstants DEF bolt11_send_external, Ids
  <2> QED
    BY <1>3, <2>1, <2>2, <2>3, BaseAccept DEF bolt11_send_external
<1>4. ASSUME NEW a \in SendAmounts, NEW d \in OfferDescribed, bolt12_send_external(u, a, d)
      PROVE  Base'
  <2>1. a \in Nat /\ fee_msat(a) \in Nat /\ d \in BOOLEAN
    BY <1>c, FeeType
  <2> QED
    BY <1>4, <1>a, <1>b, <2>1, BaseAccept DEF bolt12_send_external
<1>5. ASSUME NEW s \in OnchainSats, NEW f \in OnchainFees, onchain_send(u, s, f)
      PROVE  Base'
  <2>1. s * 1000 \in Nat /\ f \in Nat /\ onchain_base_fee_msat \in Nat
    BY <1>c
  <2>2. NodeAccepts(Fresh, u, s * 1000, onchain_base_fee_msat, "successful",
                    "broadcast", f, TRUE)
    BY <1>5 DEF onchain_send, NodeAccepts
  <2>3. /\ DbFree /\ Fresh \in SendIds /\ retries' \in 0..MaxRetries /\ minted' \in 0..MaxIds
        /\ \A i \in Ids : i > minted' => i > minted /\ i # Fresh
    BY <1>5, <1>a, <1>b DEF onchain_send
  <2> HIDE DEF Base
  <2>4. ASSUME NEW m \in Nat,
               NodeAccepts(Fresh, u, m, onchain_base_fee_msat, "successful",
                           "broadcast", f, TRUE)
        PROVE  Base'
    BY <2>1, <2>3, <2>4, BaseAccept, ZenonT(30)
  <2> QED
    BY <2>1, <2>2, <2>4, ZenonT(30)
<1>6. ASSUME NEW a \in InvoiceAmounts, bolt11_receive(u, a)
      PROVE  Base'
  <2>1. [user |-> u, amount |-> a] \in InvoiceRow
    BY <1>c DEF InvoiceRow
  <2>2. TypeOK'
    BY <1>6, <1>a, <2>1 DEF TypeOK, bolt11_receive, node, feed, counters
  <2>3. FreshUnused'
    BY <1>6, <1>a DEF FreshUnused, bolt11_receive, TypeOK, node, feed, counters
  <2>4. ClaimsKnown' /\ ReceiptsQueued' /\ LoopSound'
    BY <1>6, <1>a, <2>1, NullIsNoRecord
       DEF ClaimsKnown, ReceiptsQueued, LoopSound, bolt11_receive, TypeOK, node, InPayment
  <2> QED
    BY <2>2, <2>3, <2>4
<1>7. ASSUME bolt12_receive(u)
      PROVE  Base'
  <2>1. [user |-> u] \in OfferRow
    BY DEF OfferRow
  <2>2. TypeOK'
    BY <1>7, <1>a, <2>1 DEF TypeOK, bolt12_receive, node, feed, counters
  <2>3. FreshUnused'
    BY <1>7, <1>a DEF FreshUnused, bolt12_receive, TypeOK, node, feed, counters
  <2>4. ClaimsKnown' /\ ReceiptsQueued' /\ LoopSound'
    BY <1>7, <1>a, <2>1, NullIsNoRecord
       DEF ClaimsKnown, ReceiptsQueued, LoopSound, bolt12_receive, TypeOK, node, InPayment
  <2> QED
    BY <2>2, <2>3, <2>4
<1>8. ASSUME create_recovery(u) \/ RecoveryExpires(u)
      PROVE  Base'
  BY <1>8 DEF create_recovery, RecoveryExpires, TypeOK, FreshUnused, ClaimsKnown,
              ReceiptsQueued, LoopSound, node, feed, counters
<1>9. ASSUME NEW v \in Users, recover(u, v)
      PROVE  Base'
  <2>1. AsI64(user_balance(v)) \in Int /\ 0 \in Nat
    BY <1>9, PaymentsConstants DEF recover, AsI64
  <2> QED
    BY <1>9, <2>1, BaseTransfer DEF recover
<1> QED
  BY <1>1, <1>2, <1>3, <1>4, <1>5, <1>6, <1>7, <1>8, <1>9
     DEF ClientSends, ClientReceives, Recovery

(* The second half of a handler, finished or not, preserves Base.          *)
LEMMA BaseHandlerEnds ==
  ASSUME Base, HandlerEnds
  PROVE  Base'
<1> USE DEF Base
<1>1. ASSUME create_send_payment PROVE Base'
  <2>1. rpc.id \in SendIds /\ rpc.row \in SendRow /\ handler # "fee"
    BY <1>1 DEF create_send_payment, TypeOK, Task, LoopSound
  <2>2. TypeOK'
    <3>1. balanceFeed' = [u \in Users |-> balanceFeed'[u]]
      BY <1>1 DEF create_send_payment, PublishBalances
    <3> QED
      BY <1>1, <2>1, <3>1 DEF create_send_payment, TypeOK, node, counters
  <2>3. FreshUnused'
    BY <1>1, <2>1 DEF create_send_payment, FreshUnused, TypeOK, node, SendIds
  <2>4. ClaimsKnown' /\ ReceiptsQueued' /\ LoopSound'
    BY <1>1, <2>1 DEF create_send_payment, ClaimsKnown, ReceiptsQueued, LoopSound, node
  <2> QED
    BY <2>2, <2>3, <2>4
<1>2. ASSUME HandlerPanics PROVE Base'
  BY <1>2 DEF HandlerPanics, TypeOK, FreshUnused, ClaimsKnown, ReceiptsQueued,
              LoopSound, tables, node, feed, counters
<1> QED
  BY <1>1, <1>2 DEF HandlerEnds

(* The head of a non-empty queue is an event, and what is left after it is *)
(* taken are the later ones.                                               *)
LEMMA QueueTail ==
  ASSUME events \in Seq(Event), events # <<>>
  PROVE  /\ events[1] \in Event /\ 1 \in 1..Len(events)
         /\ Tail(events) \in Seq(Event)
         /\ Len(Tail(events)) = Len(events) - 1
         /\ \A i \in 1..Len(Tail(events)) :
              Tail(events)[i] = events[i + 1] /\ i + 1 \in 1..Len(events)
OBVIOUS

(* Appending an event keeps the others in place.                           *)
LEMMA QueueAppend ==
  ASSUME events \in Seq(Event), NEW e \in Event
  PROVE  /\ Append(events, e) \in Seq(Event)
         /\ Append(events, e) # <<>>
         /\ Len(Append(events, e)) = Len(events) + 1
         /\ Append(events, e)[Len(events) + 1] = e
         /\ \A i \in 1..Len(events) : Append(events, e)[i] = events[i]
         /\ events # <<>> => Append(events, e)[1] = events[1]
BY SMTT(30)

(* Each step of the event loop preserves Base.                             *)
LEMMA BaseLoop ==
  ASSUME Base, process_ldk_events
  PROVE  Base'
<1> USE DEF Base
<1>1. ASSUME payment_received PROVE Base'
  <2> DEFINE id == NextEvent.id
             payee == PayeeRow(claimed[id].to).user
  <2>1. id \in Ids /\ claimed[id] # NULL
    BY <1>1, QueueTail DEF payment_received, Deliver, NextEvent, ReceiptsQueued, TypeOK
  <2>2. payee \in Users /\ claimed[id].amount \in Int
    BY <2>1 DEF PayeeRow, ClaimsKnown, TypeOK, InPayment, InvoiceRow, OfferRow
  <2>3. [user |-> payee, amount |-> claimed[id].amount] \in ReceiveRow
    BY <2>2 DEF ReceiveRow
  <2> HIDE DEF payee
  <2>4. /\ receive' = [receive EXCEPT ![id] =
              IF @ = NULL THEN [user |-> payee, amount |-> claimed[id].amount] ELSE @]
        /\ balanceFeed' = [u \in Users |-> IF u \in {payee} THEN user_balance(u)'
                                                            ELSE balanceFeed[u]]
    BY <1>1 DEF payment_received, create_receive_payment, PublishBalances, payee
  <2>5. TypeOK'
    <3>1. receive' \in [Ids -> ReceiveRow \cup {NULL}]
      BY <2>1, <2>3, <2>4 DEF TypeOK
    <3>2. balanceFeed' = [u \in Users |-> balanceFeed'[u]]
      BY <2>4
    <3> QED
      BY <1>1, <3>1, <3>2 DEF payment_received, TypeOK, node, counters
  <2>6. FreshUnused'
    BY <1>1, <2>1, <2>4 DEF payment_received, FreshUnused, TypeOK, node
  <2>7. ClaimsKnown' /\ ReceiptsQueued' /\ LoopSound'
    BY <1>1 DEF payment_received, Deliver, ClaimsKnown, ReceiptsQueued, LoopSound, node
  <2> QED
    BY <2>5, <2>6, <2>7
<1>2. ASSUME update_send_status PROVE Base'
  <2>1. /\ events # <<>> /\ NextEvent \in Event /\ NextEvent.type \in Outcomes
        /\ NextEvent.id \in SendIds /\ send[NextEvent.id] \in SendRow
    BY <1>2, QueueTail DEF update_send_status, Deliver, NextEvent, TypeOK, Event, Outcomes
  <2>2. [send[NextEvent.id] EXCEPT !.status = NextEvent.type] \in SendRow
    BY <2>1 DEF SendRow, Outcomes
  <2>3. send' = [send EXCEPT ![NextEvent.id] =
                   [send[NextEvent.id] EXCEPT !.status = NextEvent.type]]
    BY <1>2 DEF update_send_status
  <2>4. send'[NextEvent.id].status = NextEvent.type /\ send'[NextEvent.id] # NULL
    BY <2>1, <2>2, <2>3, NullIsNoRecord DEF TypeOK, SendRow
  <2>5. TypeOK'
    BY <1>2, <2>1, <2>2, <2>3 DEF update_send_status, TypeOK, node, feed, counters
  <2>6. FreshUnused'
    BY <1>2, <2>1, <2>3 DEF update_send_status, FreshUnused, TypeOK, node, SendIds
  <2>7. ClaimsKnown' /\ ReceiptsQueued'
    BY <1>2 DEF update_send_status, ClaimsKnown, ReceiptsQueued, node
  <2>8. LoopSound'
    BY <1>2, <2>1, <2>4 DEF update_send_status, LoopSound, NextEvent, DbFree, Outcomes
  <2> QED
    BY <2>5, <2>6, <2>7, <2>8
<1>3. ASSUME update_send_fee PROVE Base'
  <2>1. /\ events # <<>> /\ NextEvent \in Event /\ NextEvent.fee \in Nat
        /\ NextEvent.id \in SendIds /\ send[NextEvent.id] \in SendRow
    BY <1>3, QueueTail DEF update_send_fee, LoopSound, NextEvent, TypeOK, Event
  <2>2. [send[NextEvent.id] EXCEPT !.fee = NextEvent.fee] \in SendRow
    BY <2>1 DEF SendRow
  <2>3. send' = [send EXCEPT ![NextEvent.id] =
                   [send[NextEvent.id] EXCEPT !.fee = NextEvent.fee]]
    BY <1>3 DEF update_send_fee, FeeRecorded
  <2>4. send' \in [SendIds -> SendRow \cup {NULL}]
    BY <2>1, <2>2, <2>3 DEF TypeOK
  <2>5. TypeOK'
    <3>1. balanceFeed' = [u \in Users |-> balanceFeed'[u]]
      BY <1>3 DEF update_send_fee, PublishBalances
    <3>2. sendFeed' \in [SendIds -> SendRow \cup {NULL}]
      BY <1>3, <2>1, <2>4 DEF update_send_fee, TypeOK
    <3> QED
      BY <1>3, <2>4, <3>1, <3>2 DEF update_send_fee, TypeOK, node, counters
  <2>6. FreshUnused'
    BY <1>3, <2>1, <2>3, NullIsNoRecord
       DEF update_send_fee, FreshUnused, TypeOK, node, SendIds
  <2>7. ClaimsKnown' /\ ReceiptsQueued' /\ LoopSound'
    BY <1>3 DEF update_send_fee, ClaimsKnown, ReceiptsQueued, LoopSound, node
  <2> QED
    BY <2>5, <2>6, <2>7
<1>4. ASSUME payment_not_found PROVE Base'
  BY <1>4 DEF payment_not_found, Deliver, TypeOK, FreshUnused, ClaimsKnown,
              ReceiptsQueued, LoopSound, tables, node, feed, counters
<1>5. ASSUME event_handled PROVE Base'
  <2>1. /\ Tail(events) \in Seq(Event)
        /\ \A i \in 1..Len(Tail(events)) :
             Tail(events)[i] = events[i + 1] /\ i + 1 \in 1..Len(events)
    BY <1>5, QueueTail DEF event_handled, LoopSound, TypeOK
  <2>2. TypeOK' /\ FreshUnused' /\ ClaimsKnown'
    BY <1>5, <2>1 DEF event_handled, TypeOK, FreshUnused, ClaimsKnown, tables, node,
                      feed, counters
  <2>3. ReceiptsQueued' /\ LoopSound'
    BY <1>5, <2>1 DEF event_handled, ReceiptsQueued, LoopSound, tables, node
  <2> QED
    BY <2>2, <2>3
<1> QED
  BY <1>1, <1>2, <1>3, <1>4, <1>5 DEF process_ldk_events, process_ldk_event

(* Each step of the node, the clock and a crash preserves Base.            *)
LEMMA BaseNode ==
  ASSUME Base,
         \/ \E id \in SendIds : NodeSettles(id)
         \/ \E id \in Ids : NodeReceives(id) \/ InvoiceExpires(id)
         \/ Crash
  PROVE  Base'
<1> USE DEF Base
<1>c. RoutingFees \subseteq Nat /\ ReceiveAmounts \subseteq Nat /\ MaxCrashes \in Nat
  BY PaymentsConstants
<1>1. ASSUME NEW id \in SendIds, NodeSettles(id) PROVE Base'
  <2>1. PICK e \in Event : events' = Append(events, e) /\ e.type \in Outcomes
    <3>1. ASSUME NodeGivesUp(id)
          PROVE  \E e \in Event : events' = Append(events, e) /\ e.type \in Outcomes
      BY <3>1 DEF NodeGivesUp, Emit, Event, Outcomes
    <3>2. ASSUME NEW f \in RoutingFees, NodePays(id, f)
          PROVE  \E e \in Event : events' = Append(events, e) /\ e.type \in Outcomes
      BY <3>2, <1>c DEF NodePays, Emit, Event, Outcomes
    <3> QED
      BY <1>1, <3>1, <3>2 DEF NodeSettles
  <2>2. PICK p \in OutPayment : out[id] # NULL /\ out' = [out EXCEPT ![id] = p]
    <3>1. out[id] # NULL => out[id] \in OutPayment
      BY DEF TypeOK
    <3>2. ASSUME NodeGivesUp(id)
          PROVE  \E p \in OutPayment : out[id] # NULL /\ out' = [out EXCEPT ![id] = p]
      <4>1. [out[id] EXCEPT !.status = "failed"] \in OutPayment
        BY <3>1, <3>2 DEF NodeGivesUp, OutPayment
      <4> QED
        BY <3>2, <4>1 DEF NodeGivesUp
    <3>3. ASSUME NEW f \in RoutingFees, NodePays(id, f)
          PROVE  \E p \in OutPayment : out[id] # NULL /\ out' = [out EXCEPT ![id] = p]
      <4>1. [out[id] EXCEPT !.status = "succeeded", !.fee = f] \in OutPayment
        BY <3>1, <3>3, <1>c DEF NodePays, OutPayment
      <4>2. out' = [out EXCEPT ![id] = [out[id] EXCEPT !.status = "succeeded", !.fee = f]]
        BY <3>1, <3>3 DEF NodePays, TypeOK, OutPayment
      <4> QED
        BY <3>3, <4>1, <4>2 DEF NodePays
    <3> QED
      BY <1>1, <3>2, <3>3 DEF NodeSettles
  <2>3. UNCHANGED <<send, receive, invoice, offer, recovery, expired, minted, claimed,
                    rpc, handler, balanceFeed, sendFeed, retries, crashes>>
    BY <1>1 DEF NodeSettles, NodeGivesUp, NodePays, tables, feed, counters
  <2>4. /\ events' \in Seq(Event) /\ events' # <<>> /\ Len(events') = Len(events) + 1
        /\ events'[Len(events) + 1] = e
        /\ \A i \in 1..Len(events) : events'[i] = events[i]
        /\ events # <<>> => events'[1] = events[1]
    BY <2>1, QueueAppend DEF TypeOK
  <2>5. TypeOK'
    BY <2>2, <2>3, <2>4 DEF TypeOK
  <2>6. FreshUnused' /\ ClaimsKnown'
    BY <2>2, <2>3 DEF FreshUnused, ClaimsKnown, TypeOK, SendIds
  <2>7. ReceiptsQueued'
    <3>1. \A i \in 1..Len(events') : i \in 1..Len(events) \/ i = Len(events) + 1
      BY <2>4 DEF TypeOK
    <3> QED
      BY <2>1, <2>3, <2>4, <3>1 DEF ReceiptsQueued, Outcomes
  <2>8. LoopSound'
    BY <2>3, <2>4 DEF LoopSound
  <2> QED
    BY <2>5, <2>6, <2>7, <2>8
<1>2. ASSUME NEW off \in Ids, NodeReceives(off) PROVE Base'
  <2>1. PICK a \in ReceiveAmounts : NodeReceivesInvoice(off, a) \/ NodeReceivesOffer(off, a)
    BY <1>2 DEF NodeReceives
  <2>a. CanMint => /\ Fresh \in Ids /\ Fresh \in SendIds
                   /\ Fresh \in 0..MaxIds /\ Fresh > minted
                   /\ \A id \in Ids : id > Fresh => id > minted /\ id # Fresh
    BY FreshType DEF TypeOK
  <2>2. PICK id \in Ids :
          /\ claimed' = [claimed EXCEPT ![id] = [to |-> off, amount |-> a]]
          /\ events' = Append(events, [type |-> "received", id |-> id, fee |-> 0])
          /\ minted' \in 0..MaxIds
          /\ \A i \in Ids : i > minted' => i > minted /\ i # id
    <3>1. CASE NodeReceivesInvoice(off, a)
      <4>1. minted' = minted /\ minted \in 0..MaxIds /\ ~(off > minted)
        BY <3>1 DEF NodeReceivesInvoice, FreshUnused, TypeOK
      <4> QED
        BY <3>1, <4>1 DEF NodeReceivesInvoice, Emit
    <3>2. CASE NodeReceivesOffer(off, a)
      BY <3>2, <2>a DEF NodeReceivesOffer, Emit
    <3> QED
      BY <2>1, <3>1, <3>2
  <2>3. UNCHANGED <<send, receive, invoice, offer, recovery, expired, out,
                    rpc, handler, balanceFeed, sendFeed, retries, crashes>>
        /\ (invoice[off] # NULL \/ offer[off] # NULL)
    BY <2>1 DEF NodeReceivesInvoice, NodeReceivesOffer, tables, feed, counters
  <2> DEFINE e == [type |-> "received", id |-> id, fee |-> 0]
  <2>4. e \in Event /\ e.type = "received" /\ e.id = id
    BY DEF Event, SendIds
  <2> HIDE DEF e
  <2>5. /\ events' \in Seq(Event) /\ events' # <<>> /\ Len(events') = Len(events) + 1
        /\ events'[Len(events) + 1] = e
        /\ \A i \in 1..Len(events) : events'[i] = events[i]
        /\ events # <<>> => events'[1] = events[1]
    BY <2>2, <2>4, QueueAppend DEF TypeOK, e
  <2>6. [to |-> off, amount |-> a] \in InPayment /\ [to |-> off, amount |-> a] # NULL
    BY <1>c, NullIsNoRecord DEF InPayment
  <2>7. TypeOK'
    BY <2>2, <2>3, <2>5, <2>6 DEF TypeOK
  <2>8. FreshUnused'
    BY <2>2, <2>3 DEF FreshUnused, TypeOK
  <2>9. ClaimsKnown'
    BY <2>2, <2>3, <2>6 DEF ClaimsKnown, TypeOK
  <2>10. ReceiptsQueued'
    <3>1. \A i \in 1..Len(events') : i \in 1..Len(events) \/ i = Len(events) + 1
      BY <2>5 DEF TypeOK
    <3> QED
      BY <2>2, <2>4, <2>5, <2>6, <3>1 DEF ReceiptsQueued, TypeOK
  <2>11. LoopSound'
    BY <2>3, <2>5 DEF LoopSound
  <2> QED
    BY <2>7, <2>8, <2>9, <2>10, <2>11
<1>3. ASSUME NEW inv \in Ids, InvoiceExpires(inv) PROVE Base'
  BY <1>3 DEF InvoiceExpires, TypeOK, FreshUnused, ClaimsKnown, ReceiptsQueued,
              LoopSound, node, feed, counters
<1>4. ASSUME Crash PROVE Base'
  <2>1. balanceFeed' = [u \in Users |-> balanceFeed'[u]]
    BY <1>4 DEF Crash
  <2> QED
    BY <1>4, <1>c, <2>1 DEF Crash, TypeOK, FreshUnused, ClaimsKnown, ReceiptsQueued,
                            LoopSound, tables, node
<1> QED
  BY <1>1, <1>2, <1>3, <1>4

(* Base is inductive.                                                      *)
LEMMA BaseStep == Base /\ [Next]_vars => Base'
<1> SUFFICES ASSUME Base, [Next]_vars PROVE Base'
  OBVIOUS
<1>1. CASE UNCHANGED vars
  BY <1>1 DEF vars, Base, TypeOK, FreshUnused, ClaimsKnown, ReceiptsQueued, LoopSound
<1>2. CASE Next
  BY <1>2, BaseClient, BaseHandlerEnds, BaseLoop, BaseNode DEF Next
<1> QED
  BY <1>1, <1>2

(* Base holds throughout.                                                  *)
LEMMA BaseInvariant == Spec => []Base
BY BaseInit, BaseStep, PTL DEF Spec

(* Type correctness: every table, queue and counter keeps its shape; in    *)
(* particular every payment credited by the event loop has an owner, and   *)
(* the event loop never looks up an id that is no payment.                 *)
THEOREM TypeCorrect == Spec => []TypeOK
BY BaseInvariant, PTL DEF Base

-----------------------------------------------------------------------------
(* No payment stays pending with nothing left to settle it.                *)

(* The same must hold of the handler that is about to insert the row.      *)
TaskResolving == rpc # NULL /\ rpc.row.status = "pending" => Resolving(rpc.id)

Tracked == PendingHasOutcome /\ TaskResolving

(* What resolves a payment is kept by every step that leaves the node's    *)
(* payments, its queue and the event loop alone.                           *)
LEMMA ResolvingKept ==
  ASSUME UNCHANGED <<out, events, handler>>, NEW id, Resolving(id)
  PROVE  Resolving(id)'
BY DEF Resolving, Awaiting

(* It is kept when the queue grows and the node does not change its mind   *)
(* about this payment.                                                     *)
LEMMA ResolvingGrows ==
  ASSUME TypeOK, NEW e \in Event, events' = Append(events, e), handler' = handler,
         NEW id, out'[id] = out[id], Resolving(id)
  PROVE  Resolving(id)'
<1>1. /\ Len(events') = Len(events) + 1
      /\ \A i \in 1..Len(events) : events'[i] = events[i]
  BY QueueAppend DEF TypeOK
<1>2. \A i \in 1..Len(events) : i \in 1..Len(events')
  BY <1>1 DEF TypeOK
<1> QED
  BY <1>1, <1>2 DEF Resolving, Awaiting

(* A payment the node settles has its outcome queued, behind the event     *)
(* being applied if there is one.                                          *)
LEMMA SettledQueued ==
  ASSUME Base, NEW e \in Event, events' = Append(events, e), handler' = handler,
         e.type \in Outcomes
  PROVE  Resolving(e.id)'
<1>1. /\ Len(events') = Len(events) + 1
      /\ events'[Len(events) + 1] = e
  BY QueueAppend DEF Base, TypeOK
<1>2. Len(events) + 1 \in 1..Len(events')
  BY <1>1 DEF Base, TypeOK
<1>3. ~(Len(events) + 1 = 1 /\ handler = "applied")
  BY DEF Base, LoopSound, TypeOK
<1> QED
  BY <1>1, <1>2, <1>3 DEF Resolving, Awaiting

(* Each client handler preserves Tracked.                                  *)
LEMMA TrackedClient ==
  ASSUME Base, Tracked, NEW u \in Users,
         ClientSends(u) \/ ClientReceives(u) \/ Recovery(u)
  PROVE  Tracked'
<1>a. CanMint => Fresh \in Ids /\ Fresh \in SendIds /\ Fresh > minted
  BY FreshType DEF Base, TypeOK
<1>1. ASSUME NEW from, NEW to, NEW amount, NEW fee,
             create_internal_transfer(from, to, amount, fee)
      PROVE  Tracked'
  <2>1. \A id \in SendIds : id = Fresh \/ send'[id] = send[id]
    BY <1>1, <1>a DEF create_internal_transfer, Base, TypeOK
  <2>2. send'[Fresh].status = "successful"
    BY <1>1, <1>a DEF create_internal_transfer, Base, TypeOK
  <2>3. UNCHANGED <<out, events, handler, rpc>>
    BY <1>1 DEF create_internal_transfer, node
  <2> QED
    BY <2>1, <2>2, <2>3, ResolvingKept DEF Tracked, PendingHasOutcome, TaskResolving
<1>2. ASSUME NEW id \in SendIds, NEW amount \in Nat, NEW fee, NEW paid \in Nat,
             NEW described,
             NodeAccepts(id, u, amount, fee, "pending", "inflight", paid, described)
      PROVE  Tracked'
  <2>1. Resolving(id)'
    <3>1. [user |-> u, amount |-> amount, fee |-> paid, status |-> "inflight"] # NULL
      BY NullIsNoRecord DEF OutPayment
    <3> QED
      BY <1>2, <3>1 DEF NodeAccepts, Resolving, Base, TypeOK
  <2>2. \A j \in SendIds : j # id /\ Resolving(j) => Resolving(j)'
    BY <1>2 DEF NodeAccepts, Resolving, Awaiting, Base, TypeOK
  <2>3. send' = send /\ rpc'.id = id
    BY <1>2 DEF NodeAccepts, tables
  <2> QED
    BY <2>1, <2>2, <2>3 DEF Tracked, PendingHasOutcome, TaskResolving
<1>3. ASSUME NEW s \in OnchainSats, NEW f \in OnchainFees, onchain_send(u, s, f)
      PROVE  Tracked'
  <2>1. /\ send' = send /\ events' = events /\ handler' = handler
        /\ rpc'.row.status = "successful"
        /\ \A j \in SendIds : j # Fresh => out'[j] = out[j]
    BY <1>3, <1>a DEF onchain_send, NodeAccepts, tables, Base, TypeOK
  <2>2. send[Fresh] = NULL
    BY <1>3, <1>a DEF onchain_send, Base, FreshUnused
  <2>3. \A j \in SendIds : j # Fresh /\ Resolving(j) => Resolving(j)'
    BY <2>1 DEF Resolving, Awaiting
  <2> QED
    BY <2>1, <2>2, <2>3 DEF Tracked, PendingHasOutcome, TaskResolving
<1>4. ASSUME ClientReceives(u) \/ create_recovery(u) \/ RecoveryExpires(u)
      PROVE  Tracked'
  <2>1. UNCHANGED <<send, out, events, handler, rpc>>
    BY <1>4 DEF ClientReceives, bolt11_receive, bolt12_receive, create_recovery,
                RecoveryExpires, node
  <2> QED
    BY <2>1, ResolvingKept DEF Tracked, PendingHasOutcome, TaskResolving
<1>5. ASSUME NEW a \in SendAmounts, NEW pr \in ExtInvoices, bolt11_send_external(u, pr, a)
      PROVE  Tracked'
  <2>1. a \in Nat /\ 0 \in Nat /\ pr \in SendIds
    BY PaymentsConstants DEF SendIds
  <2> QED
    BY <1>2, <1>5, <2>1 DEF bolt11_send_external
<1>6. ASSUME NEW a \in SendAmounts, NEW d \in OfferDescribed, bolt12_send_external(u, a, d)
      PROVE  Tracked'
  <2>1. a \in Nat /\ 0 \in Nat /\ Fresh \in SendIds
    BY <1>6, <1>a, PaymentsConstants DEF bolt12_send_external
  <2> QED
    BY <1>2, <1>6, <2>1 DEF bolt12_send_external
<1>7. ASSUME NEW a \in SendAmounts, NEW r \in Ids,
             bolt11_send_internal(u, r, a) \/ bolt12_send_internal(u, r, a)
      PROVE  Tracked'
  BY <1>1, <1>7 DEF bolt11_send_internal, bolt12_send_internal
<1>8. ASSUME NEW v \in Users, recover(u, v) PROVE Tracked'
  BY <1>1, <1>8 DEF recover
<1> QED
  BY <1>3, <1>4, <1>5, <1>6, <1>7, <1>8 DEF ClientSends, Recovery

(* The second half of a handler preserves Tracked: the row it inserts is   *)
(* that of a payment known to be resolving.                                *)
LEMMA TrackedHandlerEnds ==
  ASSUME Base, Tracked, HandlerEnds
  PROVE  Tracked'
<1>1. UNCHANGED <<out, events, handler>> /\ rpc' = NULL
  BY DEF HandlerEnds, create_send_payment, HandlerPanics, node
<1>2. \A id \in SendIds :
        \/ send'[id] = send[id]
        \/ rpc # NULL /\ id = rpc.id /\ send'[id] = rpc.row
  <2>1. send \in [SendIds -> SendRow \cup {NULL}]
    BY DEF Base, TypeOK
  <2>2. CASE create_send_payment
    BY <2>1, <2>2 DEF create_send_payment
  <2>3. CASE HandlerPanics
    BY <2>3 DEF HandlerPanics, tables
  <2> QED
    BY <2>2, <2>3 DEF HandlerEnds
<1> QED
  BY <1>1, <1>2, ResolvingKept DEF Tracked, PendingHasOutcome, TaskResolving

(* The event loop preserves Tracked: it takes an outcome off the queue     *)
(* only once the row it belongs to is not pending, and it does so only     *)
(* while no handler holds the connection.                                  *)
LEMMA TrackedLoop ==
  ASSUME Base, Tracked, process_ldk_events
  PROVE  Tracked'
<1>q. events # <<>> => /\ events[1] \in Event /\ 1 \in 1..Len(events)
                       /\ Len(Tail(events)) = Len(events) - 1
                       /\ \A i \in 1..Len(Tail(events)) :
                            Tail(events)[i] = events[i + 1] /\ i + 1 \in 1..Len(events)
  BY QueueTail DEF Base, TypeOK
<1>1. ASSUME payment_received PROVE Tracked'
  <2>1. /\ UNCHANGED <<send, out, events, rpc>>
        /\ events # <<>> /\ events[1].type \notin Outcomes
    BY <1>1 DEF payment_received, Deliver, NextEvent, node, Outcomes
  <2>2. \A id : Resolving(id) => Resolving(id)'
    BY <2>1 DEF Resolving, Awaiting
  <2> QED
    BY <2>1, <2>2 DEF Tracked, PendingHasOutcome, TaskResolving
<1>2. ASSUME update_send_status PROVE Tracked'
  <2>1. /\ UNCHANGED <<out, events, rpc>> /\ rpc = NULL /\ handler' = "fee"
        /\ \A id \in SendIds : id # events[1].id => send'[id] = send[id]
    BY <1>2 DEF update_send_status, DbFree, NextEvent, node, Base, TypeOK
  <2>2. send'[events[1].id].status # "pending"
    BY <1>2, BaseLoop DEF process_ldk_events, process_ldk_event, update_send_status, Base, LoopSound
  <2>3. \A id : Resolving(id) => Resolving(id)'
    BY <2>1 DEF Resolving, Awaiting
  <2> QED
    BY <2>1, <2>2, <2>3 DEF Tracked, PendingHasOutcome, TaskResolving
<1>3. ASSUME update_send_fee PROVE Tracked'
  <2>1. /\ UNCHANGED <<out, events, rpc>> /\ rpc = NULL /\ handler = "fee"
        /\ \A id \in SendIds : id # events[1].id => send'[id] = send[id]
        /\ events[1].id \in SendIds /\ send[events[1].id] \in SendRow
    BY <1>3, <1>q DEF update_send_fee, NextEvent, node, Base, LoopSound, TypeOK, Event
  <2>2. send'[events[1].id].status # "pending"
    BY <1>3, <2>1 DEF update_send_fee, NextEvent, Base, LoopSound, TypeOK, SendRow
  <2>3. \A id : id # events[1].id /\ Resolving(id) => Resolving(id)'
    BY <2>1 DEF Resolving, Awaiting
  <2> QED
    BY <2>1, <2>2, <2>3 DEF Tracked, PendingHasOutcome, TaskResolving
<1>4. ASSUME payment_not_found PROVE Tracked'
  <2>1. /\ UNCHANGED <<send, out, events, rpc>> /\ rpc = NULL
        /\ send[events[1].id] = NULL
    BY <1>4 DEF payment_not_found, DbFree, NextEvent, tables, node
  <2>2. \A id : id # events[1].id /\ Resolving(id) => Resolving(id)'
    BY <2>1 DEF Resolving, Awaiting
  <2> QED
    BY <2>1, <2>2 DEF Tracked, PendingHasOutcome, TaskResolving
<1>5. ASSUME event_handled PROVE Tracked'
  <2>1. /\ UNCHANGED <<send, out, rpc>> /\ events' = Tail(events)
        /\ handler = "applied" /\ handler' = "idle" /\ events # <<>>
    BY <1>5 DEF event_handled, tables, node, Base, LoopSound
  <2>2. \A i \in 1..Len(events) : i # 1 =>
          i - 1 \in 1..Len(events') /\ events'[i - 1] = events[i]
    BY <2>1, <1>q DEF Base, TypeOK
  <2>3. \A id : Resolving(id) => Resolving(id)'
    BY <2>1, <2>2 DEF Resolving, Awaiting
  <2> QED
    BY <2>1, <2>3 DEF Tracked, PendingHasOutcome, TaskResolving
<1> QED
  BY <1>1, <1>2, <1>3, <1>4, <1>5 DEF process_ldk_events, process_ldk_event

(* The node, the clock and a crash preserve Tracked.                       *)
LEMMA TrackedNode ==
  ASSUME Base, Tracked,
         \/ \E id \in SendIds : NodeSettles(id)
         \/ \E id \in Ids : NodeReceives(id) \/ InvoiceExpires(id)
         \/ Crash
  PROVE  Tracked'
<1>t. rpc # NULL => rpc.id \in SendIds
  BY DEF Base, TypeOK, Task
<1>1. ASSUME NEW id \in SendIds, NodeSettles(id) PROVE Tracked'
  <2>1. PICK e \in Event :
          events' = Append(events, e) /\ e.type \in Outcomes /\ e.id = id
    <3>1. ASSUME NodeGivesUp(id)
          PROVE  \E e \in Event : events' = Append(events, e) /\ e.type \in Outcomes /\ e.id = id
      BY <3>1 DEF NodeGivesUp, Emit, Event, Outcomes
    <3>2. ASSUME NEW f \in RoutingFees, NodePays(id, f)
          PROVE  \E e \in Event : events' = Append(events, e) /\ e.type \in Outcomes /\ e.id = id
      BY <3>2, PaymentsConstants, SMTT(30) DEF NodePays, Emit, Event, Outcomes
    <3> QED
      BY <1>1, <3>1, <3>2 DEF NodeSettles
  <2>2. /\ UNCHANGED <<send, rpc, handler>>
        /\ \A j \in SendIds : j # id => out'[j] = out[j]
    BY <1>1 DEF NodeSettles, NodeGivesUp, NodePays, tables, Base, TypeOK
  <2>3. Resolving(id)'
    BY <2>1, <2>2, SettledQueued
  <2>4. \A j \in SendIds : j # id /\ Resolving(j) => Resolving(j)'
    BY <2>1, <2>2, ResolvingGrows DEF Base
  <2> QED
    BY <1>t, <2>2, <2>3, <2>4 DEF Tracked, PendingHasOutcome, TaskResolving
<1>2. ASSUME NEW off \in Ids, NodeReceives(off) PROVE Tracked'
  <2>1. PICK e \in Event : events' = Append(events, e)
    <3>1. ASSUME NEW a \in ReceiveAmounts, NodeReceivesInvoice(off, a)
          PROVE  \E e \in Event : events' = Append(events, e)
      BY <3>1 DEF NodeReceivesInvoice, Emit, Event, SendIds
    <3>2. ASSUME NEW a \in ReceiveAmounts, NodeReceivesOffer(off, a)
          PROVE  \E e \in Event : events' = Append(events, e)
      BY <3>2, FreshType DEF NodeReceivesOffer, Emit, Event, Base, TypeOK
    <3> QED
      BY <1>2, <3>1, <3>2 DEF NodeReceives
  <2>2. UNCHANGED <<send, out, rpc, handler>>
    BY <1>2 DEF NodeReceives, NodeReceivesInvoice, NodeReceivesOffer, tables
  <2>3. \A j \in SendIds : Resolving(j) => Resolving(j)'
    BY <2>1, <2>2, ResolvingGrows DEF Base
  <2> QED
    BY <1>t, <2>2, <2>3 DEF Tracked, PendingHasOutcome, TaskResolving
<1>3. ASSUME NEW inv \in Ids, InvoiceExpires(inv) PROVE Tracked'
  BY <1>3, ResolvingKept DEF InvoiceExpires, node, Tracked, PendingHasOutcome, TaskResolving
<1>4. ASSUME Crash PROVE Tracked'
  <2>1. UNCHANGED <<send, out, events>> /\ rpc' = NULL /\ handler' = "idle"
    BY <1>4 DEF Crash, tables, node
  <2>2. \A j : Resolving(j) => Resolving(j)'
    BY <2>1 DEF Resolving, Awaiting
  <2> QED
    BY <2>1, <2>2 DEF Tracked, PendingHasOutcome, TaskResolving
<1> QED
  BY <1>1, <1>2, <1>3, <1>4

(* Tracked is inductive relative to Base.                                  *)
LEMMA TrackedStep == Base /\ Tracked /\ [Next]_vars => Tracked'
<1> SUFFICES ASSUME Base, Tracked, [Next]_vars PROVE Tracked'
  OBVIOUS
<1>1. CASE UNCHANGED vars
  BY <1>1, ResolvingKept DEF vars, Tracked, PendingHasOutcome, TaskResolving
<1>2. CASE Next
  BY <1>2, TrackedClient, TrackedHandlerEnds, TrackedLoop, TrackedNode DEF Next
<1> QED
  BY <1>1, <1>2

(* Tracked is an invariant.                                                *)
LEMMA TrackedInvariant == Spec => []Tracked
<1>1. Init => Tracked
  BY DEF Init, Tracked, PendingHasOutcome, TaskResolving
<1> QED
  BY <1>1, BaseInvariant, TrackedStep, PTL DEF Spec

(* A pending row always has a payment in flight or an outcome still to be  *)
(* applied, whatever the interleaving of handlers, settlements, redelivery *)
(* and crashes, and whatever retries and panics occur.                     *)
THEOREM PendingAlwaysResolves == Spec => []PendingHasOutcome
BY TrackedInvariant, PTL DEF Tracked

-----------------------------------------------------------------------------
(* No receipt is lost or credited twice.                                   *)

(* A receive row with the id of an invoice is a payment of that invoice:   *)
(* internal transfers never take an invoice's id.                          *)
InvoiceReceipts ==
  \A id \in Ids : invoice[id] # NULL /\ receive[id] # NULL => claimed[id] # NULL

Credited == ReceiptsCredited /\ InvoiceReceipts

(* Client handlers preserve Credited: they write receive, invoice and      *)
(* offer rows only under ids not used before.                              *)
LEMMA CreditedClient ==
  ASSUME Base, Credited, NEW u \in Users,
         ClientSends(u) \/ ClientReceives(u) \/ Recovery(u)
  PROVE  Credited'
<1>1. UNCHANGED <<claimed, events, handler>>
  BY DEF ClientSends, ClientReceives, Recovery, bolt11_send_internal,
         bolt12_send_internal, bolt11_send_external, bolt12_send_external,
         onchain_send, bolt11_receive, bolt12_receive, create_recovery,
         RecoveryExpires, recover, create_internal_transfer, NodeAccepts, node
<1>2. CASE UNCHANGED <<receive, invoice, offer>>
  BY <1>1, <1>2 DEF Credited, ReceiptsCredited, InvoiceReceipts, Awaiting, PayeeRow
<1>3. CASE /\ Fresh \in Ids /\ Fresh > minted
           /\ \/ \E row : receive' = [receive EXCEPT ![Fresh] = row]
                          /\ UNCHANGED <<invoice, offer>>
              \/ \E row : invoice' = [invoice EXCEPT ![Fresh] = row]
                          /\ UNCHANGED <<receive, offer>>
              \/ \E row : offer' = [offer EXCEPT ![Fresh] = row]
                          /\ UNCHANGED <<receive, invoice>>
  <2>1. /\ claimed[Fresh] = NULL /\ receive[Fresh] = NULL
        /\ invoice[Fresh] = NULL /\ offer[Fresh] = NULL
    BY <1>3 DEF Base, FreshUnused
  <2>2. \A id \in Ids : id # Fresh =>
          receive'[id] = receive[id] /\ invoice'[id] = invoice[id] /\ offer'[id] = offer[id]
    BY <1>3 DEF Base, TypeOK
  <2>3. \A id \in Ids : claimed[id] # NULL =>
          claimed[id].to \in Ids /\ claimed[id].to # Fresh
    BY <2>1 DEF Base, ClaimsKnown, TypeOK, InPayment
  <2>4. \A id \in Ids : claimed[id] # NULL =>
          PayeeRow(claimed[id].to)' = PayeeRow(claimed[id].to)
    BY <1>1, <2>2, <2>3 DEF PayeeRow
  <2>5. ReceiptsCredited'
    BY <1>1, <2>1, <2>2, <2>4 DEF Credited, ReceiptsCredited, Awaiting
  <2>6. InvoiceReceipts'
    <3>1. invoice'[Fresh] = NULL \/ receive'[Fresh] = NULL
      BY <1>3, <2>1 DEF Base, TypeOK
    <3> QED
      BY <1>1, <2>2, <3>1 DEF Credited, InvoiceReceipts
  <2> QED
    BY <2>5, <2>6 DEF Credited
<1>a. CanMint => Fresh \in Ids /\ Fresh > minted
  BY FreshType DEF Base, TypeOK
<1>4. ASSUME NEW from, NEW to, NEW amount, NEW fee,
             create_internal_transfer(from, to, amount, fee)
      PROVE  Credited'
  BY <1>3, <1>4, <1>a DEF create_internal_transfer
<1>5. ASSUME NEW a \in InvoiceAmounts, bolt11_receive(u, a) PROVE Credited'
  BY <1>3, <1>5, <1>a DEF bolt11_receive
<1>6. ASSUME bolt12_receive(u) PROVE Credited'
  BY <1>3, <1>6, <1>a DEF bolt12_receive
<1>7. ASSUME NEW a \in SendAmounts, NEW r \in Ids,
             bolt11_send_internal(u, r, a) \/ bolt12_send_internal(u, r, a)
      PROVE  Credited'
  BY <1>4, <1>7 DEF bolt11_send_internal, bolt12_send_internal
<1>8. ASSUME NEW v \in Users, recover(u, v) PROVE Credited'
  BY <1>4, <1>8 DEF recover
<1>9. ASSUME \/ create_recovery(u) \/ RecoveryExpires(u)
             \/ \E a \in SendAmounts, pr \in ExtInvoices : bolt11_send_external(u, pr, a)
             \/ \E a \in SendAmounts, d \in OfferDescribed : bolt12_send_external(u, a, d)
             \/ \E s \in OnchainSats, f \in OnchainFees : onchain_send(u, s, f)
      PROVE  Credited'
  BY <1>2, <1>9 DEF create_recovery, RecoveryExpires, bolt11_send_external,
                    bolt12_send_external, onchain_send, NodeAccepts, tables
<1> QED
  BY <1>5, <1>6, <1>7, <1>8, <1>9 DEF ClientSends, ClientReceives, Recovery

(* The event loop preserves Credited: it credits a receipt before it takes *)
(* the event off the queue, and a redelivered event changes nothing.       *)
LEMMA CreditedLoop ==
  ASSUME Base, Credited, process_ldk_events
  PROVE  Credited'
<1>q. events # <<>> => /\ events[1] \in Event /\ 1 \in 1..Len(events)
                       /\ Len(Tail(events)) = Len(events) - 1
                       /\ \A i \in 1..Len(Tail(events)) :
                            Tail(events)[i] = events[i + 1] /\ i + 1 \in 1..Len(events)
  BY QueueTail DEF Base, TypeOK
<1>1. ASSUME payment_received PROVE Credited'
  <2> DEFINE id == NextEvent.id
             row == [user |-> PayeeRow(claimed[id].to).user,
                     amount |-> claimed[id].amount]
  <2>1. id = events[1].id /\ id \in Ids /\ claimed[id] # NULL
    BY <1>1, <1>q DEF payment_received, Deliver, NextEvent, Base, ReceiptsQueued
  <2>2. /\ receive' = [receive EXCEPT ![id] = IF @ = NULL THEN row ELSE @]
        /\ UNCHANGED <<invoice, offer, claimed, events>>
    BY <1>1 DEF payment_received, create_receive_payment, node
  <2>3. receive'[id] = row
    BY <2>1, <2>2 DEF Credited, ReceiptsCredited, Base, TypeOK
  <2>4. \A j \in Ids : j # id => receive'[j] = receive[j]
    BY <2>2 DEF Base, TypeOK
  <2>5. \A j : PayeeRow(j)' = PayeeRow(j)
    BY <2>2 DEF PayeeRow
  <2>6. \A j \in Ids : j # id /\ Awaiting(j, {"received"}) => Awaiting(j, {"received"})'
    BY <2>1, <2>2 DEF Awaiting
  <2> HIDE DEF id
  <2>7. ReceiptsCredited'
    BY <2>1, <2>2, <2>3, <2>4, <2>5, <2>6 DEF Credited, ReceiptsCredited
  <2>8. InvoiceReceipts'
    BY <2>1, <2>2, <2>4 DEF Credited, InvoiceReceipts
  <2> QED
    BY <2>7, <2>8 DEF Credited
<1>2. ASSUME update_send_status \/ update_send_fee \/ payment_not_found PROVE Credited'
  <2>1. UNCHANGED <<receive, invoice, offer, claimed, events>>
    BY <1>2 DEF update_send_status, update_send_fee, payment_not_found, tables, node
  <2>2. events # <<>> /\ events[1].type # "received"
    BY <1>2 DEF update_send_status, update_send_fee, payment_not_found, Deliver,
                NextEvent, Base, LoopSound, Outcomes
  <2>3. \A j : Awaiting(j, {"received"}) => Awaiting(j, {"received"})'
    BY <2>1, <2>2 DEF Awaiting
  <2> QED
    BY <2>1, <2>3 DEF Credited, ReceiptsCredited, InvoiceReceipts, PayeeRow
<1>3. ASSUME event_handled PROVE Credited'
  <2>1. /\ UNCHANGED <<receive, invoice, offer, claimed>> /\ events' = Tail(events)
        /\ handler = "applied" /\ handler' = "idle" /\ events # <<>>
    BY <1>3 DEF event_handled, tables, node, Base, LoopSound
  <2>2. \A i \in 1..Len(events) : i # 1 =>
          i - 1 \in 1..Len(events') /\ events'[i - 1] = events[i]
    BY <2>1, <1>q DEF Base, TypeOK
  <2>3. \A j : Awaiting(j, {"received"}) => Awaiting(j, {"received"})'
    BY <2>1, <2>2 DEF Awaiting
  <2> QED
    BY <2>1, <2>3 DEF Credited, ReceiptsCredited, InvoiceReceipts, PayeeRow
<1> QED
  BY <1>1, <1>2, <1>3 DEF process_ldk_events, process_ldk_event

(* The node, the clock, a crash and the end of a handler preserve          *)
(* Credited: a payment the node claims has its event queued.               *)
LEMMA CreditedNode ==
  ASSUME Base, Credited,
         \/ HandlerEnds
         \/ \E id \in SendIds : NodeSettles(id)
         \/ \E id \in Ids : NodeReceives(id) \/ InvoiceExpires(id)
         \/ Crash
  PROVE  Credited'
<1>1. ASSUME HandlerEnds \/ (\E id \in Ids : InvoiceExpires(id)) PROVE Credited'
  <2>1. UNCHANGED <<receive, invoice, offer, claimed, events, handler>>
    BY <1>1 DEF HandlerEnds, create_send_payment, HandlerPanics, InvoiceExpires, tables, node
  <2> QED
    BY <2>1 DEF Credited, ReceiptsCredited, InvoiceReceipts, Awaiting, PayeeRow
<1>2. ASSUME Crash PROVE Credited'
  <2>1. UNCHANGED <<receive, invoice, offer, claimed, events>> /\ handler' = "idle"
    BY <1>2 DEF Crash, tables, node
  <2>2. \A j : Awaiting(j, {"received"}) => Awaiting(j, {"received"})'
    BY <2>1 DEF Awaiting
  <2> QED
    BY <2>1, <2>2 DEF Credited, ReceiptsCredited, InvoiceReceipts, PayeeRow
<1>3. ASSUME NEW e \in Event, events' = Append(events, e), handler' = handler, NEW j
      PROVE  /\ Awaiting(j, {"received"}) => Awaiting(j, {"received"})'
             /\ e.type = "received" /\ e.id = j => Awaiting(j, {"received"})'
  <2>1. /\ Len(events') = Len(events) + 1 /\ events'[Len(events) + 1] = e
        /\ \A i \in 1..Len(events) : events'[i] = events[i]
    BY <1>3, QueueAppend DEF Base, TypeOK
  <2>2. /\ Len(events) + 1 \in 1..Len(events')
        /\ \A i \in 1..Len(events) : i \in 1..Len(events')
    BY <2>1 DEF Base, TypeOK
  <2>3. ~(Len(events) + 1 = 1 /\ handler = "applied")
    BY DEF Base, LoopSound, TypeOK
  <2> QED
    BY <1>3, <2>1, <2>2, <2>3 DEF Awaiting
<1>4. ASSUME NEW id \in SendIds, NodeSettles(id) PROVE Credited'
  <2>1. PICK e \in Event : events' = Append(events, e)
    <3>1. ASSUME NodeGivesUp(id) PROVE \E e \in Event : events' = Append(events, e)
      BY <3>1 DEF NodeGivesUp, Emit, Event
    <3>2. ASSUME NEW f \in RoutingFees, NodePays(id, f)
          PROVE  \E e \in Event : events' = Append(events, e)
      BY <3>2, PaymentsConstants DEF NodePays, Emit, Event
    <3> QED
      BY <1>4, <3>1, <3>2 DEF NodeSettles
  <2>2. UNCHANGED <<receive, invoice, offer, claimed, handler>>
    BY <1>4 DEF NodeSettles, NodeGivesUp, NodePays, tables
  <2> QED
    BY <1>3, <2>1, <2>2 DEF Credited, ReceiptsCredited, InvoiceReceipts, PayeeRow
<1>5. ASSUME NEW off \in Ids, NodeReceives(off) PROVE Credited'
  <2>1. PICK a \in ReceiveAmounts : NodeReceivesInvoice(off, a) \/ NodeReceivesOffer(off, a)
    BY <1>5 DEF NodeReceives
  <2>2. PICK id \in Ids :
          /\ claimed[id] = NULL /\ receive[id] = NULL
          /\ claimed' = [claimed EXCEPT ![id] = [to |-> off, amount |-> a]]
          /\ events' = Append(events, [type |-> "received", id |-> id, fee |-> 0])
    <3>1. CASE NodeReceivesInvoice(off, a)
      <4>1. receive[off] = NULL
        BY <3>1 DEF NodeReceivesInvoice, Credited, InvoiceReceipts
      <4> QED
        BY <3>1, <4>1 DEF NodeReceivesInvoice, Emit
    <3>2. CASE NodeReceivesOffer(off, a)
      <4>1. Fresh \in Ids /\ Fresh > minted
        BY <3>2, FreshType DEF NodeReceivesOffer, Base, TypeOK
      <4>2. claimed[Fresh] = NULL /\ receive[Fresh] = NULL
        BY <4>1 DEF Base, FreshUnused
      <4> QED
        BY <3>2, <4>1, <4>2 DEF NodeReceivesOffer, Emit
    <3> QED
      BY <2>1, <3>1, <3>2
  <2>3. UNCHANGED <<receive, invoice, offer, handler>>
    BY <2>1 DEF NodeReceivesInvoice, NodeReceivesOffer, tables
  <2> DEFINE e == [type |-> "received", id |-> id, fee |-> 0]
  <2>4. e \in Event /\ e.type = "received" /\ e.id = id
    BY DEF Event, SendIds
  <2>5. /\ Awaiting(id, {"received"})'
        /\ \A j \in Ids : Awaiting(j, {"received"}) => Awaiting(j, {"received"})'
    BY <1>3, <2>2, <2>3, <2>4
  <2>6. \A j \in Ids : j # id => claimed'[j] = claimed[j]
    BY <2>2 DEF Base, TypeOK
  <2>7. ReceiptsCredited'
    BY <2>2, <2>3, <2>5, <2>6 DEF Credited, ReceiptsCredited, PayeeRow
  <2>8. InvoiceReceipts'
    BY <2>2, <2>3, <2>6 DEF Credited, InvoiceReceipts
  <2> QED
    BY <2>7, <2>8 DEF Credited
<1> QED
  BY <1>1, <1>2, <1>4, <1>5

(* Credited is an invariant.                                               *)
LEMMA CreditedInvariant == Spec => []Credited
<1>1. Init => Credited
  BY DEF Init, Credited, ReceiptsCredited, InvoiceReceipts
<1>2. Base /\ Credited /\ [Next]_vars => Credited'
  <2> SUFFICES ASSUME Base, Credited, [Next]_vars PROVE Credited'
    OBVIOUS
  <2>1. CASE UNCHANGED vars
    BY <2>1 DEF vars, Credited, ReceiptsCredited, InvoiceReceipts, Awaiting, PayeeRow
  <2>2. CASE Next
    BY <2>2, CreditedClient, CreditedLoop, CreditedNode DEF Next
  <2> QED
    BY <2>1, <2>2
<1> QED
  BY <1>1, <1>2, BaseInvariant, PTL DEF Spec

(* Every payment the node receives is credited to its owner exactly once,  *)
(* or its event is still to be applied.                                    *)
THEOREM ReceiptsAlwaysCredited == Spec => []ReceiptsCredited
BY CreditedInvariant, PTL DEF Credited

-----------------------------------------------------------------------------
(* The ledger: transfers are paired, and what clients were last shown is   *)
(* what is stored.  The proofs go through the steps by what they do to the *)
(* ledger.  Many actions do the same to it: StepCases, proved once, sorts  *)
(* the actions into the cases below.                                       *)

(* An internal transfer, of an amount check_send let pass and at a fee of  *)
(* 1000 msat, or of the whole balance by a recovery.                       *)
TransferStep(u, v, amount, fee) ==
  /\ DbFree
  /\ u # v
  /\ \/ amount \in SendAmounts /\ fee = 1000 /\ check_send(u, amount)
     \/ /\ amount = AsI64(user_balance(u)) /\ fee = 0
        /\ user_balance(u) \in 1..(U64 - 1)
  /\ create_internal_transfer(u, v, amount, fee)

(* The id of a payment the node accepts is new, or the hash of an external *)
(* invoice it does not know or failed to pay.                              *)
AcceptedId(id) ==
  \/ id = Fresh /\ CanMint /\ minted' = Fresh
  \/ /\ id \in ExtInvoices /\ UNCHANGED minted
     /\ out[id] # NULL => out[id].status = "failed" /\ retries < MaxRetries

(* The node accepts a Lightning payment, or broadcasts a withdrawal, that  *)
(* the balance covers.                                                     *)
AcceptStep(id, u, amount, fee, rowStatus, outStatus, paid) ==
  /\ DbFree
  /\ AcceptedId(id)
  /\ user_balance(u) >= amount + fee
  /\ \/ /\ amount \in SendAmounts /\ fee = fee_msat(amount) /\ paid = 0
        /\ rowStatus = "pending" /\ outStatus = "inflight"
     \/ /\ paid \in OnchainFees /\ fee = onchain_base_fee_msat
        /\ rowStatus = "successful" /\ outStatus = "broadcast"
  /\ \E described \in {TRUE} \cup OfferDescribed :
       NodeAccepts(id, u, amount, fee, rowStatus, outStatus, paid, described)

(* No money and no payment changes; a new invoice or offer has a new id.   *)
RequestStep ==
  /\ UNCHANGED <<send, receive, claimed, out, events, rpc, handler,
                 balanceFeed, sendFeed, crashes>>
  /\ \A id \in Ids : /\ invoice'[id] # NULL => invoice[id] # NULL \/ id > minted
                     /\ offer'[id] # NULL => offer[id] # NULL \/ id > minted

(* The node settles a payment and queues the outcome.                      *)
SettleStep(id, e) ==
  /\ out[id] # NULL /\ out[id].status = "inflight"
  /\ e.id = id /\ events' = Append(events, e)
  /\ \/ /\ e.type = "successful" /\ e.fee \in RoutingFees
        /\ out' = [out EXCEPT ![id] = [out[id] EXCEPT !.status = "succeeded",
                                                      !.fee = e.fee]]
     \/ /\ e.type = "failed" /\ e.fee = 0
        /\ out' = [out EXCEPT ![id] = [out[id] EXCEPT !.status = "failed"]]
  /\ UNCHANGED <<send, receive, invoice, offer, claimed, rpc, handler,
                 balanceFeed, sendFeed, crashes>>

(* The node receives a payment of one of our requests.                     *)
ReceiptStep(id, e, off, a) ==
  /\ claimed[id] = NULL
  /\ invoice[id] # NULL \/ id > minted
  /\ claimed' = [claimed EXCEPT ![id] = [to |-> off, amount |-> a]]
  /\ e.type = "received" /\ e.id = id /\ events' = Append(events, e)
  /\ UNCHANGED <<send, receive, invoice, offer, out, rpc, handler,
                 balanceFeed, sendFeed, crashes>>

LedgerStep ==
  \/ \E u, v \in Users, amount \in Int, fee \in Nat : TransferStep(u, v, amount, fee)
  \/ \E id \in SendIds, u \in Users, amount, fee, paid \in Nat,
        rowStatus \in {"pending", "successful"}, outStatus \in {"inflight", "broadcast"} :
       AcceptStep(id, u, amount, fee, rowStatus, outStatus, paid)
  \/ RequestStep
  \/ create_send_payment \/ HandlerPanics
  \/ payment_received \/ update_send_status \/ update_send_fee
  \/ payment_not_found \/ event_handled
  \/ \E id \in SendIds, e \in Event : SettleStep(id, e)
  \/ \E id \in Ids, e \in Event, off \in Ids, a \in ReceiveAmounts :
       ReceiptStep(id, e, off, a)
  \/ Crash

(* What a handler of a client does to the ledger.                          *)
LEMMA ClientCases ==
  ASSUME Base, NEW u \in Users, ClientSends(u) \/ ClientReceives(u) \/ Recovery(u)
  PROVE  LedgerStep
<1>a. CanMint => Fresh \in Ids /\ Fresh \in SendIds /\ Fresh > minted
  BY FreshType DEF Base, TypeOK
<1>c. SendAmounts \subseteq Nat /\ OnchainSats \subseteq Nat /\ OnchainFees \subseteq Nat
      /\ onchain_base_fee_msat \in Nat /\ OfferDescribed \subseteq BOOLEAN
  BY PaymentsConstants
<1>1. ASSUME NEW a \in SendAmounts, NEW inv \in Ids, bolt11_send_internal(u, inv, a)
      PROVE  LedgerStep
  <2>1. TransferStep(u, invoice[inv].user, a, 1000)
    BY <1>1 DEF bolt11_send_internal, TransferStep
  <2>2. invoice[inv].user \in Users /\ a \in Int /\ 1000 \in Nat
    BY <1>1, <1>c DEF bolt11_send_internal, Base, TypeOK, InvoiceRow
  <2> QED
    BY <2>1, <2>2 DEF LedgerStep
<1>2. ASSUME NEW a \in SendAmounts, NEW off \in Ids, bolt12_send_internal(u, off, a)
      PROVE  LedgerStep
  <2>1. TransferStep(u, offer[off].user, a, 1000)
    BY <1>2 DEF bolt12_send_internal, TransferStep
  <2>2. offer[off].user \in Users /\ a \in Int /\ 1000 \in Nat
    BY <1>2, <1>c DEF bolt12_send_internal, Base, TypeOK, OfferRow
  <2> QED
    BY <2>1, <2>2 DEF LedgerStep
<1>3. ASSUME NEW a \in SendAmounts, NEW pr \in ExtInvoices, bolt11_send_external(u, pr, a)
      PROVE  LedgerStep
  <2>1. pr \in SendIds /\ a \in Nat /\ fee_msat(a) \in Nat
    BY <1>c, FeeType DEF SendIds
  <2>2. AcceptedId(pr)
    BY <1>3 DEF bolt11_send_external, AcceptedId
  <2>3. AcceptStep(pr, u, a, fee_msat(a), "pending", "inflight", 0)
    BY <1>3, <2>2 DEF bolt11_send_external, AcceptStep, check_send
  <2> QED
    BY <2>1, <2>3 DEF LedgerStep
<1>4. ASSUME NEW a \in SendAmounts, NEW d \in OfferDescribed, bolt12_send_external(u, a, d)
      PROVE  LedgerStep
  <2>1. a \in Nat /\ fee_msat(a) \in Nat /\ d \in BOOLEAN /\ Fresh \in SendIds
    BY <1>4, <1>a, <1>c, FeeType DEF bolt12_send_external
  <2>2. AcceptedId(Fresh)
    BY <1>4 DEF bolt12_send_external, AcceptedId
  <2>3. AcceptStep(Fresh, u, a, fee_msat(a), "pending", "inflight", 0)
    BY <1>4, <2>2 DEF bolt12_send_external, AcceptStep, check_send
  <2> QED
    BY <2>1, <2>3 DEF LedgerStep
<1>5. ASSUME NEW s \in OnchainSats, NEW f \in OnchainFees, onchain_send(u, s, f)
      PROVE  LedgerStep
  <2>1. s * 1000 \in Nat /\ f \in Nat /\ onchain_base_fee_msat \in Nat /\ Fresh \in SendIds
    BY <1>5, <1>a, <1>c DEF onchain_send
  <2>2. AcceptedId(Fresh)
    BY <1>5 DEF onchain_send, AcceptedId
  <2>3. AcceptStep(Fresh, u, s * 1000, onchain_base_fee_msat, "successful",
                   "broadcast", f)
    <3>1. NodeAccepts(Fresh, u, s * 1000, onchain_base_fee_msat, "successful",
                      "broadcast", f, TRUE)
      BY <1>5 DEF onchain_send, NodeAccepts
    <3>2. DbFree /\ user_balance(u) >= s * 1000 + onchain_base_fee_msat
      BY <1>5 DEF onchain_send
    <3> QED
      BY <2>2, <3>1, <3>2, ZenonT(30) DEF AcceptStep
  <2>4. ASSUME NEW m \in Nat,
               AcceptStep(Fresh, u, m, onchain_base_fee_msat, "successful",
                          "broadcast", f)
        PROVE  LedgerStep
    BY <2>1, <2>4 DEF LedgerStep
  <2> QED
    BY <2>1, <2>3, <2>4, ZenonT(30)
<1>6. ASSUME NEW a \in InvoiceAmounts, bolt11_receive(u, a) PROVE LedgerStep
  BY <1>6, <1>a DEF bolt11_receive, LedgerStep, RequestStep, node, feed, counters, Base, TypeOK
<1>7. ASSUME bolt12_receive(u) PROVE LedgerStep
  BY <1>7, <1>a DEF bolt12_receive, LedgerStep, RequestStep, node, feed, counters, Base, TypeOK
<1>8. ASSUME create_recovery(u) \/ RecoveryExpires(u) PROVE LedgerStep
  BY <1>8 DEF create_recovery, RecoveryExpires, LedgerStep, RequestStep, node, feed, counters
<1>9. ASSUME NEW v \in Users, recover(u, v) PROVE LedgerStep
  <2>1. AsI64(user_balance(v)) \in Int /\ 0 \in Nat
    BY <1>9, PaymentsConstants DEF recover, AsI64
  <2>2. TransferStep(v, u, AsI64(user_balance(v)), 0)
    BY <1>9 DEF recover, TransferStep, MayRecover
  <2> QED
    BY <2>1, <2>2 DEF LedgerStep
<1> QED
  BY <1>1, <1>2, <1>3, <1>4, <1>5, <1>6, <1>7, <1>8, <1>9
     DEF ClientSends, ClientReceives, Recovery

(* What a step of the node does to the ledger.                             *)
LEMMA NodeCases ==
  ASSUME Base,
         \/ \E id \in SendIds : NodeSettles(id)
         \/ \E id \in Ids : NodeReceives(id) \/ InvoiceExpires(id)
  PROVE  LedgerStep
<1>a. CanMint => Fresh \in Ids /\ Fresh \in SendIds /\ Fresh > minted
  BY FreshType DEF Base, TypeOK
<1>1. ASSUME NEW id \in SendIds, NodeGivesUp(id) PROVE LedgerStep
  <2> DEFINE e == [type |-> "failed", id |-> id, fee |-> 0]
  <2>1. e \in Event
    BY DEF Event
  <2>2. SettleStep(id, e)
    BY <1>1 DEF NodeGivesUp, Emit, SettleStep, tables, feed, counters
  <2> QED
    BY <2>1, <2>2 DEF LedgerStep
<1>2. ASSUME NEW id \in SendIds, NEW f \in RoutingFees, NodePays(id, f) PROVE LedgerStep
  <2> DEFINE e == [type |-> "successful", id |-> id, fee |-> f]
  <2>1. e \in Event
    BY PaymentsConstants DEF Event
  <2>3. out[id] \in OutPayment /\ id \in DOMAIN out
    BY <1>2 DEF NodePays, Base, TypeOK
  <2>4. out' = [out EXCEPT ![id] = [out[id] EXCEPT !.status = "succeeded", !.fee = f]]
    BY <1>2, <2>3 DEF NodePays, OutPayment, Base, TypeOK
  <2>2. SettleStep(id, e)
    BY <1>2, <2>4 DEF NodePays, Emit, SettleStep, tables, feed, counters
  <2> QED
    BY <2>1, <2>2 DEF LedgerStep
<1>3. ASSUME NEW inv \in Ids, NEW a \in ReceiveAmounts, NodeReceivesInvoice(inv, a)
      PROVE  LedgerStep
  <2> DEFINE e == [type |-> "received", id |-> inv, fee |-> 0]
  <2>1. e \in Event
    BY DEF Event, SendIds
  <2>2. ReceiptStep(inv, e, inv, a)
    BY <1>3 DEF NodeReceivesInvoice, Emit, ReceiptStep, tables, feed, counters
  <2> QED
    BY <2>1, <2>2 DEF LedgerStep
<1>4. ASSUME NEW off \in Ids, NEW a \in ReceiveAmounts, NodeReceivesOffer(off, a)
      PROVE  LedgerStep
  <2> DEFINE e == [type |-> "received", id |-> Fresh, fee |-> 0]
  <2>1. Fresh \in Ids /\ Fresh > minted /\ claimed[Fresh] = NULL
    BY <1>4, <1>a DEF NodeReceivesOffer, Base, FreshUnused
  <2>2. e \in Event
    BY <2>1 DEF Event, SendIds
  <2>3. ReceiptStep(Fresh, e, off, a)
    BY <1>4, <2>1 DEF NodeReceivesOffer, Emit, ReceiptStep, tables, feed, counters
  <2> QED
    BY <2>1, <2>2, <2>3 DEF LedgerStep
<1>5. ASSUME NEW inv \in Ids, InvoiceExpires(inv) PROVE LedgerStep
  BY <1>5 DEF InvoiceExpires, LedgerStep, RequestStep, node, feed, counters
<1> QED
  BY <1>1, <1>2, <1>3, <1>4, <1>5 DEF NodeSettles, NodeReceives

(* Every step of the daemon and the node, a stuttering step included, is   *)
(* one of the cases.                                                       *)
LEMMA StepCases == Base /\ [Next]_vars => LedgerStep
<1> SUFFICES ASSUME Base, [Next]_vars PROVE LedgerStep
  OBVIOUS
<1>1. CASE UNCHANGED vars
  BY <1>1 DEF vars, LedgerStep, RequestStep
<1>2. CASE HandlerEnds \/ process_ldk_events \/ Crash
  BY <1>2 DEF HandlerEnds, process_ldk_events, process_ldk_event, LedgerStep
<1> QED
  BY <1>1, <1>2, ClientCases, NodeCases DEF Next

-----------------------------------------------------------------------------
(* Transfers are paired.                                                   *)

(* An id has one use: the hash of an own invoice or of a receipt is never  *)
(* that of an outgoing payment, and a receive row never has the id of a    *)
(* payment of the node.                                                    *)
OneUse ==
  \A id \in Ids :
    /\ invoice[id] # NULL \/ claimed[id] # NULL => send[id] = NULL /\ out[id] = NULL
    /\ out[id] # NULL => receive[id] = NULL

(* Whoever waits for a payment of the node waits for one it accepted.      *)
NodeKnows ==
  /\ rpc # NULL => out[rpc.id] # NULL
  /\ \A i \in 1..Len(events) :
       events[i].type \in Outcomes => out[events[i].id] # NULL

IdUse == OneUse /\ NodeKnows

(* An id drawn now was not used before.                                    *)
LEMMA FreshNew ==
  ASSUME Base, CanMint
  PROVE  /\ Fresh \in Ids /\ Fresh \in SendIds /\ Fresh > minted
         /\ send[Fresh] = NULL /\ receive[Fresh] = NULL /\ invoice[Fresh] = NULL
         /\ out[Fresh] = NULL /\ claimed[Fresh] = NULL
         /\ rpc # NULL => rpc.id # Fresh
BY FreshType DEF Base, TypeOK, FreshUnused

(* What is queued after a step that queues an event, one that takes the    *)
(* head off the queue, or one that leaves the queue alone.                 *)
LEMMA QueueMembers ==
  ASSUME Base,
         \/ events' = events
         \/ events' = Tail(events) /\ events # <<>>
         \/ \E e \in Event : events' = Append(events, e)
  PROVE  /\ events' \in Seq(Event)
         /\ \A i \in 1..Len(events') :
              \/ \E j \in 1..Len(events) : events'[i] = events[j]
              \/ \E e \in Event : events' = Append(events, e) /\ events'[i] = e
<1>1. events \in Seq(Event)
  BY DEF Base, TypeOK
<1>2. CASE events' = events
  BY <1>1, <1>2
<1>3. CASE events' = Tail(events) /\ events # <<>>
  BY <1>1, <1>3, QueueTail
<1>4. ASSUME NEW e \in Event, events' = Append(events, e)
      PROVE  /\ events' \in Seq(Event)
             /\ \A i \in 1..Len(events') :
                  \/ \E j \in 1..Len(events) : events'[i] = events[j]
                  \/ events'[i] = e
  BY <1>1, <1>4, QueueAppend
<1> QED
  BY <1>2, <1>3, <1>4

(* What is queued.                                                         *)
LEMMA QueueType ==
  ASSUME Base
  PROVE  \A i \in 1..Len(events) : /\ events[i] \in Event
                                   /\ events[i].id \in SendIds
                                   /\ events[i].fee \in Nat
<1>1. \A i \in 1..Len(events) : events[i] \in Event
  BY DEF Base, TypeOK
<1> QED
  BY <1>1 DEF Event

(* The event the loop works on.                                            *)
LEMMA HeadEvent ==
  ASSUME Base, events # <<>>
  PROVE  NextEvent \in Event /\ 1 \in 1..Len(events) /\ NextEvent = events[1]
BY QueueTail DEF Base, TypeOK, NextEvent

(* What the node knows of a payment it settles.                            *)
LEMMA SettledPayment ==
  ASSUME Base, NEW id \in SendIds, NEW e \in Event, SettleStep(id, e)
  PROVE  /\ out[id] \in OutPayment /\ out[id].status = "inflight"
         /\ out'[id] \in OutPayment /\ out'[id] # NULL
         /\ out'[id].user = out[id].user /\ out'[id].amount = out[id].amount
         /\ \/ /\ e.type = "successful" /\ e.fee \in RoutingFees
               /\ out'[id].status = "succeeded" /\ out'[id].fee = e.fee
            \/ /\ e.type = "failed" /\ e.fee = 0
               /\ out'[id].status = "failed" /\ out'[id].fee = out[id].fee
         /\ \A j \in SendIds : j # id => out'[j] = out[j]
<1>1. out \in [SendIds -> OutPayment \cup {NULL}] /\ NULL \notin OutPayment
  BY NullIsNoRecord DEF Base, TypeOK
<1>2. out[id] \in OutPayment /\ out[id].status = "inflight"
  BY <1>1 DEF SettleStep
<1>3. CASE e.type = "successful"
  <2> DEFINE p == [out[id] EXCEPT !.status = "succeeded", !.fee = e.fee]
  <2>1. e.fee \in RoutingFees /\ e.fee \in Nat /\ out' = [out EXCEPT ![id] = p]
    BY <1>3, PaymentsConstants DEF SettleStep
  <2>2. /\ p \in OutPayment /\ p.user = out[id].user /\ p.amount = out[id].amount
        /\ p.status = "succeeded" /\ p.fee = e.fee
    BY <1>2, <2>1 DEF OutPayment
  <2> HIDE DEF p
  <2> QED
    BY <1>1, <1>2, <1>3, <2>1, <2>2
<1>4. CASE e.type # "successful"
  <2> DEFINE p == [out[id] EXCEPT !.status = "failed"]
  <2>1. e.type = "failed" /\ e.fee = 0 /\ out' = [out EXCEPT ![id] = p]
    BY <1>4 DEF SettleStep
  <2>2. /\ p \in OutPayment /\ p.user = out[id].user /\ p.amount = out[id].amount
        /\ p.status = "failed" /\ p.fee = out[id].fee
    BY <1>2 DEF OutPayment
  <2> HIDE DEF p
  <2> QED
    BY <1>1, <1>2, <2>1, <2>2
<1> QED
  BY <1>3, <1>4

(* A step keeps ids to one use.                                            *)
LEMMA IdUseStep ==
  ASSUME Base, IdUse, LedgerStep
  PROVE  IdUse'
<1> USE DEF IdUse
<1>t. /\ send \in [SendIds -> SendRow \cup {NULL}] /\ receive \in [Ids -> ReceiveRow \cup {NULL}]
      /\ out \in [SendIds -> OutPayment \cup {NULL}] /\ claimed \in [Ids -> InPayment \cup {NULL}]
      /\ \A id \in Ids : id \in SendIds
  BY DEF Base, TypeOK, SendIds
<1>n. NULL \notin OutPayment /\ NULL \notin SendRow
  BY NullIsNoRecord
<1>1. ASSUME NEW u \in Users, NEW v \in Users, NEW amount \in Int, NEW fee \in Nat,
             TransferStep(u, v, amount, fee)
      PROVE  IdUse'
  <2>1. /\ CanMint /\ UNCHANGED <<invoice, claimed, out, events, rpc>>
        /\ \A id \in SendIds : id # Fresh => send'[id] = send[id]
        /\ \A id \in Ids : id # Fresh => receive'[id] = receive[id]
    BY <1>1, <1>t DEF TransferStep, create_internal_transfer, node
  <2>2. OneUse'
    BY <1>t, <2>1, FreshNew DEF OneUse
  <2>3. NodeKnows'
    BY <2>1 DEF NodeKnows
  <2> QED
    BY <2>2, <2>3
<1>2. ASSUME NEW id \in SendIds, NEW u \in Users, NEW amount \in Nat, NEW fee \in Nat,
             NEW paid \in Nat, NEW rowStatus \in {"pending", "successful"},
             NEW outStatus \in {"inflight", "broadcast"},
             AcceptStep(id, u, amount, fee, rowStatus, outStatus, paid)
      PROVE  IdUse'
  <2> DEFINE p == [user |-> u, amount |-> amount, fee |-> paid, status |-> outStatus]
  <2>1. /\ out' = [out EXCEPT ![id] = p] /\ rpc'.id = id
        /\ UNCHANGED <<send, receive, invoice, claimed, events>>
    BY <1>2 DEF AcceptStep, NodeAccepts, tables
  <2>2. p # NULL
    BY <1>n DEF OutPayment
  <2> HIDE DEF p
  <2>3. out'[id] # NULL /\ \A j \in SendIds : j # id => out'[j] = out[j]
    BY <2>1, <2>2, <1>t
  <2>4. id \in Ids => receive[id] = NULL /\ invoice[id] = NULL /\ claimed[id] = NULL
    BY <1>2, FreshNew, PaymentsConstants DEF AcceptStep, AcceptedId, Ids
  <2>5. OneUse'
    BY <1>t, <2>1, <2>3, <2>4 DEF OneUse
  <2>6. NodeKnows'
    BY <2>1, <2>3 DEF NodeKnows, Base, TypeOK, Event
  <2> QED
    BY <2>5, <2>6
<1>3. ASSUME RequestStep PROVE IdUse'
  BY <1>3 DEF RequestStep, OneUse, NodeKnows, Base, FreshUnused
<1>4. ASSUME create_send_payment PROVE IdUse'
  <2>1. /\ rpc # NULL /\ rpc' = NULL /\ rpc.id \in SendIds
        /\ \A id \in SendIds : id # rpc.id => send'[id] = send[id]
        /\ UNCHANGED <<receive, invoice, claimed, out, events>>
    BY <1>4, <1>t DEF create_send_payment, node, Base, TypeOK, Task
  <2> QED
    BY <1>t, <2>1 DEF OneUse, NodeKnows
<1>5. ASSUME HandlerPanics \/ payment_not_found \/ Crash PROVE IdUse'
  <2>1. /\ rpc' = rpc \/ rpc' = NULL
        /\ UNCHANGED <<send, receive, invoice, claimed, out, events>>
    BY <1>5 DEF HandlerPanics, payment_not_found, Crash, tables, node
  <2> QED
    BY <2>1 DEF OneUse, NodeKnows
<1>6. ASSUME payment_received PROVE IdUse'
  <2>1. /\ NextEvent.id \in Ids /\ claimed[NextEvent.id] # NULL
        /\ UNCHANGED <<send, invoice, claimed, out, events, rpc>>
        /\ \A id \in Ids : id # NextEvent.id => receive'[id] = receive[id]
    BY <1>6, <1>t, HeadEvent DEF payment_received, create_receive_payment, Deliver, node,
                                 Base, ReceiptsQueued
  <2> QED
    BY <2>1 DEF OneUse, NodeKnows
<1>7. ASSUME update_send_status \/ update_send_fee PROVE IdUse'
  <2>1. /\ events # <<>> /\ NextEvent.type \in Outcomes
        /\ UNCHANGED <<receive, invoice, claimed, out, events, rpc>>
        /\ \A id \in SendIds : id # NextEvent.id => send'[id] = send[id]
    BY <1>7, <1>t DEF update_send_status, update_send_fee, Deliver, Outcomes, node,
                      Base, LoopSound, NextEvent
  <2>2. out[NextEvent.id] # NULL
    BY <2>1, HeadEvent DEF NodeKnows
  <2> QED
    BY <1>t, <2>1, <2>2 DEF OneUse, NodeKnows
<1>8. ASSUME event_handled PROVE IdUse'
  <2>1. /\ UNCHANGED <<send, receive, invoice, claimed, out, rpc>>
        /\ events' = Tail(events) /\ events # <<>>
    BY <1>8 DEF event_handled, tables, node, Base, LoopSound
  <2>2. \A i \in 1..Len(events') : \E j \in 1..Len(events) : events'[i] = events[j]
    BY <2>1, QueueTail DEF Base, TypeOK
  <2> QED
    BY <2>1, <2>2 DEF OneUse, NodeKnows
<1>9. ASSUME NEW id \in SendIds, NEW e \in Event, SettleStep(id, e) PROVE IdUse'
  <2>1. /\ UNCHANGED <<send, receive, invoice, claimed, rpc>> /\ e.id = id
        /\ events' = Append(events, e) /\ out[id] # NULL
    BY <1>9 DEF SettleStep
  <2>2. \A j \in SendIds : out[j] # NULL <=> out'[j] # NULL
    BY <1>9, <2>1, SettledPayment
  <2>3. \A i \in 1..Len(events') :
          (\E j \in 1..Len(events) : events'[i] = events[j]) \/ events'[i] = e
    BY <2>1, QueueAppend DEF Base, TypeOK
  <2>4. OneUse'
    BY <1>t, <2>1, <2>2 DEF OneUse
  <2>5. \A i \in 1..Len(events) : events[i].id \in SendIds
    BY QueueType
  <2>6. rpc # NULL => rpc.id \in SendIds
    BY DEF Base, TypeOK, Task
  <2>7. NodeKnows'
    <3>1. ASSUME NEW i \in 1..Len(events'), events'[i].type \in Outcomes
          PROVE  out'[events'[i].id] # NULL
      <4>1. CASE events'[i] = e
        BY <2>1, <2>2, <4>1
      <4>2. CASE \E j \in 1..Len(events) : events'[i] = events[j]
        BY <3>1, <2>2, <2>5, <4>2 DEF NodeKnows
      <4> QED
        BY <2>3, <4>1, <4>2
    <3> QED
      BY <2>1, <2>2, <2>6, <3>1 DEF NodeKnows
  <2> QED
    BY <2>4, <2>7
<1>10. ASSUME NEW id \in Ids, NEW e \in Event, NEW off \in Ids, NEW a \in ReceiveAmounts,
              ReceiptStep(id, e, off, a)
       PROVE  IdUse'
  <2>1. /\ UNCHANGED <<send, receive, invoice, out, rpc>> /\ e.type = "received"
        /\ events' = Append(events, e) /\ \A j \in Ids : j # id => claimed'[j] = claimed[j]
    BY <1>10, <1>t DEF ReceiptStep
  <2>2. send[id] = NULL /\ out[id] = NULL
    BY <1>10 DEF ReceiptStep, OneUse, Base, FreshUnused
  <2>3. \A i \in 1..Len(events') :
          (\E j \in 1..Len(events) : events'[i] = events[j]) \/ events'[i] = e
    BY <2>1, QueueAppend DEF Base, TypeOK
  <2>4. OneUse'
    BY <2>1, <2>2 DEF OneUse
  <2>5. NodeKnows'
    BY <2>1, <2>3 DEF NodeKnows, Outcomes
  <2> QED
    BY <2>4, <2>5
<1> QED
  BY <1>1, <1>2, <1>3, <1>4, <1>5, <1>6, <1>7, <1>8, <1>9, <1>10 DEF LedgerStep

(* The rows a transfer writes.                                             *)
LEMMA TransferRows ==
  ASSUME Base, NEW u \in Users, NEW v \in Users, NEW amount \in Int, NEW fee \in Nat,
         create_internal_transfer(u, v, amount, fee)
  PROVE  /\ CanMint /\ UNCHANGED <<invoice, offer, claimed, out, events, rpc, handler, crashes>>
         /\ send'[Fresh] # NULL
         /\ send'[Fresh] = [user |-> u, amount |-> amount, fee |-> fee,
                            status |-> "successful"]
         /\ \A id \in SendIds : id # Fresh => send'[id] = send[id]
         /\ receive'[Fresh] # NULL
         /\ receive'[Fresh] = [user |-> v, amount |-> amount]
         /\ \A id \in Ids : id # Fresh => receive'[id] = receive[id]
<1>1. [user |-> u, amount |-> amount, fee |-> fee, status |-> "successful"] # NULL
  BY NullIsNoRecord DEF SendRow
<1>2. [user |-> v, amount |-> amount] # NULL
  BY NullIsNoRecord DEF ReceiveRow
<1>3. Fresh \in Ids /\ Fresh \in SendIds
  BY FreshNew DEF create_internal_transfer
<1> QED
  BY <1>1, <1>2, <1>3 DEF create_internal_transfer, node, counters, Base, TypeOK

(* The row the event loop updates: a row of a payment of the node.         *)
LEMMA UpdatedRow ==
  ASSUME Base, IdUse, update_send_status \/ update_send_fee
  PROVE  /\ events # <<>> /\ NextEvent \in Event /\ NextEvent = events[1]
         /\ NextEvent.type \in Outcomes /\ NextEvent.id \in SendIds /\ NextEvent.fee \in Nat
         /\ out[NextEvent.id] # NULL
         /\ send[NextEvent.id] \in SendRow /\ send'[NextEvent.id] \in SendRow
         /\ send'[NextEvent.id].user = send[NextEvent.id].user
         /\ send'[NextEvent.id].amount = send[NextEvent.id].amount
         /\ update_send_status => /\ send'[NextEvent.id].status = NextEvent.type
                                  /\ send'[NextEvent.id].fee = send[NextEvent.id].fee
         /\ update_send_fee => /\ send'[NextEvent.id].status = send[NextEvent.id].status
                               /\ send'[NextEvent.id].fee = NextEvent.fee
         /\ \A id \in SendIds : id # NextEvent.id => send'[id] = send[id]
         /\ UNCHANGED <<receive, invoice, offer, claimed, out, events, rpc, crashes>>
<1>1. events # <<>> /\ NextEvent.type \in Outcomes /\ send[NextEvent.id] # NULL
  BY DEF update_send_status, update_send_fee, Deliver, Outcomes, Base, LoopSound, NextEvent
<1>2. /\ NextEvent \in Event /\ NextEvent = events[1] /\ NextEvent.id \in SendIds
      /\ NextEvent.fee \in Nat /\ out[NextEvent.id] # NULL
  BY <1>1, HeadEvent, QueueType DEF IdUse, NodeKnows
<1>3. send \in [SendIds -> SendRow \cup {NULL}] /\ send[NextEvent.id] \in SendRow
  BY <1>1, <1>2 DEF Base, TypeOK
<1>4. UNCHANGED <<receive, invoice, offer, claimed, out, events, rpc, crashes>>
  BY DEF update_send_status, update_send_fee, node, counters
<1>5. CASE update_send_status
  <2> DEFINE row == [send[NextEvent.id] EXCEPT !.status = NextEvent.type]
  <2>1. send' = [send EXCEPT ![NextEvent.id] = row]
    BY <1>5 DEF update_send_status
  <2>2. /\ row \in SendRow /\ row.user = send[NextEvent.id].user
        /\ row.amount = send[NextEvent.id].amount /\ row.status = NextEvent.type
        /\ row.fee = send[NextEvent.id].fee
    BY <1>1, <1>3 DEF SendRow, Outcomes
  <2>3. ~update_send_fee
    BY <1>5 DEF update_send_status, update_send_fee, DbFree
  <2> HIDE DEF row
  <2> QED
    BY <1>1, <1>2, <1>3, <1>4, <1>5, <2>1, <2>2, <2>3
<1>6. CASE update_send_fee
  <2> DEFINE row == [send[NextEvent.id] EXCEPT !.fee = NextEvent.fee]
  <2>1. send' = [send EXCEPT ![NextEvent.id] = row]
    BY <1>6 DEF update_send_fee, FeeRecorded
  <2>2. /\ row \in SendRow /\ row.user = send[NextEvent.id].user
        /\ row.amount = send[NextEvent.id].amount /\ row.status = send[NextEvent.id].status
        /\ row.fee = NextEvent.fee
    BY <1>2, <1>3 DEF SendRow
  <2>3. ~update_send_status
    BY <1>6 DEF update_send_status, update_send_fee, DbFree
  <2> HIDE DEF row
  <2> QED
    BY <1>1, <1>2, <1>3, <1>4, <1>6, <2>1, <2>2, <2>3
<1> QED
  BY <1>5, <1>6

(* A step keeps transfers paired.                                          *)
LEMMA PairedStep ==
  ASSUME Base, IdUse, TransfersPaired, LedgerStep
  PROVE  TransfersPaired'
<1>t. /\ send \in [SendIds -> SendRow \cup {NULL}] /\ receive \in [Ids -> ReceiveRow \cup {NULL}]
      /\ out \in [SendIds -> OutPayment \cup {NULL}] /\ claimed \in [Ids -> InPayment \cup {NULL}]
      /\ \A id \in Ids : id \in SendIds
  BY DEF Base, TypeOK, SendIds
<1>n. NULL \notin OutPayment /\ NULL \notin SendRow
  BY NullIsNoRecord
<1>1. ASSUME NEW u \in Users, NEW v \in Users, NEW amount \in Int, NEW fee \in Nat,
             TransferStep(u, v, amount, fee)
      PROVE  TransfersPaired'
  <2>1. create_internal_transfer(u, v, amount, fee) /\ u # v
    BY <1>1 DEF TransferStep
  <2> QED
    <3>1. CanMint /\ Fresh \in Ids /\ Fresh \in SendIds
      BY <2>1, FreshNew DEF create_internal_transfer
    <3>2. /\ UNCHANGED <<claimed, out>>
          /\ send'[Fresh] # NULL /\ receive'[Fresh] # NULL
          /\ send'[Fresh].status = "successful"
          /\ send'[Fresh].amount = receive'[Fresh].amount
          /\ send'[Fresh].user # receive'[Fresh].user
          /\ \A id \in SendIds : id # Fresh => send'[id] = send[id]
          /\ \A id \in Ids : id # Fresh => receive'[id] = receive[id]
      <4>1. /\ UNCHANGED <<claimed, out>>
            /\ send'[Fresh] # NULL
            /\ send'[Fresh] = [user |-> u, amount |-> amount, fee |-> fee,
                               status |-> "successful"]
            /\ receive'[Fresh] # NULL
            /\ receive'[Fresh] = [user |-> v, amount |-> amount]
            /\ \A id \in SendIds : id # Fresh => send'[id] = send[id]
            /\ \A id \in Ids : id # Fresh => receive'[id] = receive[id]
        BY <2>1, TransferRows, Zenon
      <4> QED
        BY <2>1, <4>1
    <3>3. ASSUME NEW id \in Ids, receive'[id] # NULL, claimed'[id] = NULL
          PROVE  /\ send'[id] # NULL
                 /\ send'[id].status = "successful"
                 /\ send'[id].amount = receive'[id].amount
                 /\ send'[id].user # receive'[id].user
      <4>1. CASE id # Fresh
        <5>1. send'[id] = send[id] /\ receive'[id] = receive[id] /\ claimed[id] = NULL
          BY <1>t, <3>2, <3>3, <4>1
        <5> QED
          BY <3>3, <5>1 DEF TransfersPaired
      <4> QED
        BY <3>2, <4>1
    <3>4. ASSUME NEW id \in SendIds, send'[id] # NULL, out'[id] = NULL
          PROVE  id \in Ids /\ receive'[id] # NULL
      <4>1. CASE id # Fresh
        <5>1. send'[id] = send[id] /\ out[id] = NULL
          BY <3>2, <3>4, <4>1
        <5> QED
          BY <3>2, <3>4, <4>1, <5>1 DEF TransfersPaired
      <4> QED
        BY <3>1, <3>2, <4>1
    <3> QED
      BY <3>3, <3>4 DEF TransfersPaired
<1>2. ASSUME NEW id \in SendIds, NEW u \in Users, NEW amount \in Nat, NEW fee \in Nat,
             NEW paid \in Nat, NEW rowStatus \in {"pending", "successful"},
             NEW outStatus \in {"inflight", "broadcast"},
             AcceptStep(id, u, amount, fee, rowStatus, outStatus, paid)
      PROVE  TransfersPaired'
  <2>1. /\ UNCHANGED <<send, receive, claimed>>
        /\ \A j \in SendIds : j # id => out'[j] = out[j]
        /\ out'[id] = [user |-> u, amount |-> amount, fee |-> paid, status |-> outStatus]
    BY <1>2, <1>t DEF AcceptStep, NodeAccepts, tables
  <2>2. out'[id] # NULL
    BY <1>n, <2>1 DEF OutPayment
  <2> QED
    BY <1>t, <2>1, <2>2 DEF TransfersPaired
<1>3. ASSUME RequestStep \/ HandlerPanics \/ payment_not_found \/ event_handled \/ Crash
      PROVE  TransfersPaired'
  BY <1>3 DEF RequestStep, HandlerPanics, payment_not_found, event_handled, Crash, tables,
              node, TransfersPaired
<1>4. ASSUME create_send_payment PROVE TransfersPaired'
  <2>1. /\ out[rpc.id] # NULL /\ rpc.id \in SendIds
        /\ \A id \in SendIds : id # rpc.id => send'[id] = send[id]
        /\ UNCHANGED <<receive, claimed, out>>
    BY <1>4, <1>t DEF create_send_payment, node, Base, TypeOK, Task, IdUse, NodeKnows
  <2> QED
    BY <1>t, <2>1 DEF TransfersPaired, IdUse, OneUse
<1>5. ASSUME payment_received PROVE TransfersPaired'
  <2>1. /\ NextEvent.id \in Ids /\ claimed[NextEvent.id] # NULL
        /\ UNCHANGED <<send, claimed, out>>
        /\ \A id \in Ids : id # NextEvent.id => receive'[id] = receive[id]
    BY <1>5, <1>t, HeadEvent DEF payment_received, create_receive_payment, Deliver, node,
                                 Base, ReceiptsQueued
  <2> QED
    BY <1>t, <2>1 DEF TransfersPaired, IdUse, OneUse
<1>6. ASSUME update_send_status \/ update_send_fee PROVE TransfersPaired'
  BY <1>6, <1>t, UpdatedRow DEF TransfersPaired, IdUse, OneUse
<1>7. ASSUME NEW id \in SendIds, NEW e \in Event, SettleStep(id, e) PROVE TransfersPaired'
  <2>1. UNCHANGED <<send, receive, claimed>> /\ out[id] # NULL
    BY <1>7 DEF SettleStep
  <2> QED
    BY <1>7, <1>t, <2>1, SettledPayment DEF TransfersPaired
<1>8. ASSUME NEW id \in Ids, NEW e \in Event, NEW off \in Ids, NEW a \in ReceiveAmounts,
             ReceiptStep(id, e, off, a)
      PROVE  TransfersPaired'
  <2>1. /\ UNCHANGED <<send, receive, out>> /\ claimed[id] = NULL
        /\ \A j \in Ids : j # id => claimed'[j] = claimed[j]
        /\ claimed'[id] = [to |-> off, amount |-> a]
    BY <1>8, <1>t DEF ReceiptStep
  <2>2. claimed'[id] # NULL
    BY <2>1, NullIsNoRecord, PaymentsConstants DEF InPayment
  <2> QED
    BY <1>t, <2>1, <2>2 DEF TransfersPaired
<1> QED
  BY <1>1, <1>2, <1>3, <1>4, <1>5, <1>6, <1>7, <1>8 DEF LedgerStep

(* IdUse is an invariant.                                                  *)
LEMMA IdUseInvariant == Spec => []IdUse
<1>1. Init => IdUse
  BY DEF Init, IdUse, OneUse, NodeKnows, SendIds
<1>2. Base /\ IdUse /\ [Next]_vars => IdUse'
  BY StepCases, IdUseStep
<1> QED
  BY <1>1, <1>2, BaseInvariant, PTL DEF Spec

(* Credit has a source and debit a destination, for any number of users,   *)
(* payments and crashes: what is not a payment of the node is a transfer   *)
(* with both of its rows.                                                  *)
THEOREM TransfersAlwaysPaired == Spec => []TransfersPaired
<1>1. Init => TransfersPaired
  BY DEF Init, TransfersPaired
<1>2. Base /\ IdUse /\ TransfersPaired /\ [Next]_vars => TransfersPaired'
  BY StepCases, PairedStep
<1> QED
  BY <1>1, <1>2, BaseInvariant, IdUseInvariant, PTL DEF Spec

-----------------------------------------------------------------------------
(* What clients are shown.                                                 *)

(* The terms of the two sums user_balance queries.                         *)
CreditTerms(u) ==
  [id \in Ids |->
     IF receive[id] # NULL /\ receive[id].user = u THEN receive[id].amount ELSE 0]

DebitTerms(u) ==
  [id \in SendIds |->
     IF send[id] # NULL /\ send[id].user = u /\ Counts(send[id])
     THEN Charge(send[id]) ELSE 0]

(* The feed lags behind only between the two UPDATEs, and only for the     *)
(* payment that is being settled and its user.                             *)
FeedFollows ==
  /\ \A u \in Users :
       \/ balanceFeed[u] = user_balance(u)
       \/ handler = "fee" /\ u = send[events[1].id].user
  /\ \A id \in SendIds :
       \/ sendFeed[id] = send[id]
       \/ handler = "fee" /\ id = events[1].id

(* Equal terms make equal balances.                                        *)
LEMMA SameTerms ==
  ASSUME NEW u, CreditTerms(u)' = CreditTerms(u), DebitTerms(u)' = DebitTerms(u)
  PROVE  RawBalance(u)' = RawBalance(u) /\ user_balance(u)' = user_balance(u)
<1>1. Credits(u) = SumFunction(CreditTerms(u)) /\ Credits(u)' = SumFunction(CreditTerms(u)')
  BY DEF Credits, CreditTerms
<1>2. Debits(u) = SumFunction(DebitTerms(u)) /\ Debits(u)' = SumFunction(DebitTerms(u)')
  BY DEF Debits, DebitTerms
<1>3. RawBalance(u)' = RawBalance(u)
  BY <1>1, <1>2 DEF RawBalance
<1> QED
  BY <1>3 DEF user_balance

(* A user's balance is a function of the rows of that user alone.          *)
LEMMA BalanceKept ==
  ASSUME NEW u,
         \A id \in Ids :
           \/ receive'[id] = receive[id]
           \/ /\ receive[id] # NULL => receive[id].user # u
              /\ receive'[id] # NULL => receive'[id].user # u,
         \A id \in SendIds :
           \/ send'[id] = send[id]
           \/ /\ send[id] # NULL => send[id].user # u
              /\ send'[id] # NULL => send'[id].user # u
  PROVE  RawBalance(u)' = RawBalance(u) /\ user_balance(u)' = user_balance(u)
<1>1. CreditTerms(u)' = CreditTerms(u)
  BY DEF CreditTerms
<1>2. DebitTerms(u)' = DebitTerms(u)
  BY DEF DebitTerms, Counts, Charge
<1> QED
  BY <1>1, <1>2, SameTerms

(* Balances are kept where no row changes.                                 *)
LEMMA BalancesUnchanged ==
  ASSUME UNCHANGED <<send, receive>>, NEW u
  PROVE  RawBalance(u)' = RawBalance(u) /\ user_balance(u)' = user_balance(u)
BY BalanceKept

(* Publishing the balances of the users whose rows changed brings the feed *)
(* up to date.                                                             *)
LEMMA Published ==
  ASSUME NEW S, PublishBalances(S),
         \A u \in Users : u \notin S => /\ balanceFeed[u] = user_balance(u)
                                        /\ user_balance(u)' = user_balance(u)
  PROVE  \A u \in Users : balanceFeed'[u] = user_balance(u)'
<1> SUFFICES ASSUME NEW u \in Users PROVE balanceFeed'[u] = user_balance(u)'
  OBVIOUS
<1>1. balanceFeed'[u] = IF u \in S THEN user_balance(u)' ELSE balanceFeed[u]
  BY DEF PublishBalances
<1> QED
  BY <1>1

(* A step that changes neither rows nor feed nor the place of the loop.    *)
LEMMA FeedUntouched ==
  ASSUME Base, FeedFollows,
         UNCHANGED <<send, receive, balanceFeed, sendFeed>>,
         handler = "fee" => handler' = "fee" /\ events'[1] = events[1]
  PROVE  FeedFollows'
<1>1. \A u \in Users : user_balance(u)' = user_balance(u)
  BY BalancesUnchanged
<1> QED
  BY <1>1 DEF FeedFollows

(* A step keeps the feed following the tables.                             *)
LEMMA FeedStep ==
  ASSUME Base, IdUse, FeedFollows, LedgerStep
  PROVE  FeedFollows'
<1>t. /\ send \in [SendIds -> SendRow \cup {NULL}] /\ receive \in [Ids -> ReceiveRow \cup {NULL}]
      /\ sendFeed \in [SendIds -> SendRow \cup {NULL}]
      /\ \A id \in Ids : id \in SendIds
  BY DEF Base, TypeOK, SendIds
<1>f. handler # "fee" => /\ \A u \in Users : balanceFeed[u] = user_balance(u)
                         /\ \A id \in SendIds : sendFeed[id] = send[id]
  BY DEF FeedFollows
<1>1. ASSUME NEW u \in Users, NEW v \in Users, NEW amount \in Int, NEW fee \in Nat,
             TransferStep(u, v, amount, fee)
      PROVE  FeedFollows'
  <2>1. /\ create_internal_transfer(u, v, amount, fee) /\ handler # "fee"
        /\ Fresh \in Ids /\ Fresh \in SendIds /\ send[Fresh] = NULL /\ receive[Fresh] = NULL
    BY <1>1, FreshNew DEF TransferStep, DbFree, create_internal_transfer
  <2>2. /\ send'[Fresh] = [user |-> u, amount |-> amount, fee |-> fee,
                           status |-> "successful"]
        /\ receive'[Fresh] = [user |-> v, amount |-> amount]
        /\ \A id \in SendIds : id # Fresh => send'[id] = send[id]
        /\ \A id \in Ids : id # Fresh => receive'[id] = receive[id]
    BY <2>1, TransferRows, Zenon
  <2>3. send'[Fresh].user = u /\ receive'[Fresh].user = v
    BY <2>2
  <2>4. ASSUME NEW w \in Users, w \notin {u, v} PROVE user_balance(w)' = user_balance(w)
    BY <2>1, <2>2, <2>3, <2>4, BalanceKept
  <2>5. PublishBalances({u, v}) /\ sendFeed' = [sendFeed EXCEPT ![Fresh] = send'[Fresh]]
    BY <2>1 DEF create_internal_transfer, TransferAudience
  <2>6. \A w \in Users : balanceFeed'[w] = user_balance(w)'
    BY <1>f, <2>1, <2>4, <2>5, Published
  <2>7. \A id \in SendIds : sendFeed'[id] = send'[id]
    BY <1>f, <1>t, <2>1, <2>2, <2>5
  <2> QED
    BY <2>6, <2>7 DEF FeedFollows
<1>2. ASSUME NEW id \in SendIds, NEW u \in Users, NEW amount \in Nat, NEW fee \in Nat,
             NEW paid \in Nat, NEW rowStatus \in {"pending", "successful"},
             NEW outStatus \in {"inflight", "broadcast"},
             AcceptStep(id, u, amount, fee, rowStatus, outStatus, paid)
      PROVE  FeedFollows'
  BY <1>2, FeedUntouched DEF AcceptStep, NodeAccepts, tables, feed
<1>3. ASSUME RequestStep \/ HandlerPanics PROVE FeedFollows'
  BY <1>3, FeedUntouched DEF RequestStep, HandlerPanics, tables, feed
<1>4. ASSUME payment_not_found \/ event_handled PROVE FeedFollows'
  BY <1>4, FeedUntouched DEF payment_not_found, event_handled, DbFree, tables, feed
<1>5. ASSUME create_send_payment PROVE FeedFollows'
  <2>1. /\ rpc # NULL /\ handler # "fee" /\ send[rpc.id] = NULL /\ rpc.id \in SendIds
        /\ rpc.row \in SendRow
        /\ send' = [send EXCEPT ![rpc.id] = rpc.row] /\ receive' = receive
        /\ sendFeed' = [sendFeed EXCEPT ![rpc.id] = rpc.row]
        /\ PublishBalances({rpc.row.user})
    BY <1>5 DEF create_send_payment, Panics, Base, LoopSound, TypeOK, Task
  <2>2. ASSUME NEW w \in Users, w \notin {rpc.row.user}
        PROVE user_balance(w)' = user_balance(w)
    BY <1>t, <2>1, <2>2, BalanceKept
  <2>3. \A w \in Users : balanceFeed'[w] = user_balance(w)'
    BY <1>f, <2>1, <2>2, Published
  <2>4. \A id \in SendIds : sendFeed'[id] = send'[id]
    BY <1>f, <1>t, <2>1
  <2> QED
    BY <2>3, <2>4 DEF FeedFollows
<1>6. ASSUME payment_received PROVE FeedFollows'
  <2> DEFINE id == NextEvent.id
             payee == PayeeRow(claimed[id].to).user
             row == [user |-> payee, amount |-> claimed[id].amount]
  <2>1. /\ handler # "fee" /\ id \in Ids /\ UNCHANGED <<send, sendFeed>>
        /\ PublishBalances({payee}) /\ handler' = "applied"
        /\ receive' = [receive EXCEPT ![id] = IF @ = NULL THEN row ELSE @]
    BY <1>6, HeadEvent DEF payment_received, create_receive_payment, DbFree, Deliver,
                           Base, ReceiptsQueued
  <2>2. row.user = payee
    OBVIOUS
  <2> HIDE DEF id, payee, row
  <2>3. ASSUME NEW w \in Users, w \notin {payee} PROVE user_balance(w)' = user_balance(w)
    <3>1. \A j \in Ids : \/ receive'[j] = receive[j]
                         \/ receive[j] = NULL /\ receive'[j] = row
      BY <1>t, <2>1
    <3> QED
      BY <2>1, <2>2, <2>3, <3>1, BalanceKept
  <2>4. \A w \in Users : balanceFeed'[w] = user_balance(w)'
    BY <1>f, <2>1, <2>3, Published
  <2> QED
    BY <1>f, <2>1, <2>4 DEF FeedFollows
<1>7. ASSUME update_send_status PROVE FeedFollows'
  <2>1. /\ handler # "fee" /\ handler' = "fee" /\ UNCHANGED <<balanceFeed, sendFeed>>
    BY <1>7 DEF update_send_status, DbFree, feed
  <2>2. ASSUME NEW w \in Users, w # send'[NextEvent.id].user
        PROVE user_balance(w)' = user_balance(w)
    BY <1>7, <2>2, UpdatedRow, BalanceKept
  <2>3. NextEvent = events'[1] /\ \A j \in SendIds : j # NextEvent.id => send'[j] = send[j]
    BY <1>7, UpdatedRow
  <2> QED
    BY <1>f, <2>1, <2>2, <2>3 DEF FeedFollows
<1>8. ASSUME update_send_fee PROVE FeedFollows'
  <2>1. /\ handler = "fee" /\ handler' = "applied"
        /\ sendFeed' = [sendFeed EXCEPT ![NextEvent.id] = send'[NextEvent.id]]
        /\ PublishBalances({send[NextEvent.id].user})
    BY <1>8 DEF update_send_fee
  <2>2. ASSUME NEW w \in Users, w \notin {send[NextEvent.id].user}
        PROVE  balanceFeed[w] = user_balance(w) /\ user_balance(w)' = user_balance(w)
    <3>1. balanceFeed[w] = user_balance(w)
      BY <1>8, <2>2, UpdatedRow DEF FeedFollows
    <3> QED
      BY <1>8, <2>2, <3>1, UpdatedRow, BalanceKept
  <2>3. \A w \in Users : balanceFeed'[w] = user_balance(w)'
    BY <2>1, <2>2, Published
  <2>4. \A j \in SendIds : sendFeed'[j] = send'[j]
    BY <1>8, <1>t, <2>1, UpdatedRow DEF FeedFollows
  <2> QED
    BY <2>3, <2>4 DEF FeedFollows
<1>9. ASSUME NEW e \in Event, events' = Append(events, e),
             UNCHANGED <<send, receive, balanceFeed, sendFeed, handler>>
      PROVE  FeedFollows'
  <2>1. handler = "fee" => events'[1] = events[1]
    BY <1>9, QueueAppend DEF Base, TypeOK, LoopSound
  <2> QED
    BY <1>9, <2>1, FeedUntouched
<1>10. ASSUME \/ \E id \in SendIds, e \in Event : SettleStep(id, e)
              \/ \E id \in Ids, e \in Event, off \in Ids, a \in ReceiveAmounts :
                   ReceiptStep(id, e, off, a)
       PROVE  FeedFollows'
  BY <1>9, <1>10 DEF SettleStep, ReceiptStep
<1>11. ASSUME Crash PROVE FeedFollows'
  <2>1. /\ UNCHANGED <<send, receive>> /\ sendFeed' = send
        /\ \A u \in Users : balanceFeed'[u] = user_balance(u)
    BY <1>11 DEF Crash, tables
  <2>2. \A u \in Users : user_balance(u)' = user_balance(u)
    BY <2>1, BalancesUnchanged
  <2> QED
    BY <2>1, <2>2 DEF FeedFollows
<1> QED
  BY <1>1, <1>2, <1>3, <1>4, <1>5, <1>6, <1>7, <1>8, <1>10, <1>11 DEF LedgerStep

(* The tables have finitely many ids.                                      *)
LEMMA IdsFinite == IsFiniteSet(Ids) /\ IsFiniteSet(SendIds) /\ IsFiniteSet(Users)
<1>1. IsFiniteSet(1..MaxIds)
  BY PaymentsConstants, FS_Interval
<1> QED
  BY <1>1, PaymentsConstants, FS_Union DEF Ids, SendIds

(* Nobody has money to begin with.                                         *)
LEMMA NothingAtFirst ==
  ASSUME Init, NEW u
  PROVE  RawBalance(u) = 0 /\ user_balance(u) = 0
<1>1. /\ CreditTerms(u) \in [Ids -> Int] /\ \A id \in Ids : CreditTerms(u)[id] = 0
      /\ DebitTerms(u) \in [SendIds -> Int] /\ \A id \in SendIds : DebitTerms(u)[id] = 0
  BY DEF Init, CreditTerms, DebitTerms
<1>2. SumFunction(CreditTerms(u)) = 0
  BY <1>1, IdsFinite, SumType
<1>3. SumFunction(DebitTerms(u)) = 0
  BY <1>1, IdsFinite, SumType
<1>4. RawBalance(u) = 0
  BY <1>2, <1>3 DEF RawBalance, Credits, Debits, CreditTerms, DebitTerms
<1>5. 0 % U64 = 0
  BY PaymentsConstants
<1> QED
  BY <1>4, <1>5 DEF user_balance

(* Whenever the connection is free, every user was last told the balance   *)
(* the tables give and shown every payment as it is stored, whatever the   *)
(* order of handlers, events and crashes.                                  *)
THEOREM FeedAlwaysCurrent == Spec => []FeedCurrent
<1>1. Init => FeedFollows
  <2> SUFFICES ASSUME Init PROVE FeedFollows
    OBVIOUS
  <2>1. \A u \in Users : balanceFeed[u] = user_balance(u)
    BY NothingAtFirst DEF Init
  <2> QED
    BY <2>1 DEF Init, FeedFollows
<1>2. Base /\ IdUse /\ FeedFollows /\ [Next]_vars => FeedFollows'
  BY StepCases, FeedStep
<1>3. Base /\ FeedFollows => FeedCurrent
  BY DEF Base, TypeOK, FeedFollows, FeedCurrent, DbFree
<1> QED
  BY <1>1, <1>2, <1>3, BaseInvariant, IdUseInvariant, PTL DEF Spec
=============================================================================
