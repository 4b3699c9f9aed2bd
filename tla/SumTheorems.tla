---------------------------- MODULE SumTheorems ----------------------------
(***************************************************************************)
(* Sums over the domain of a function, as SumFunction of the community      *)
(* modules defines them: by a recursive function on sets that removes an    *)
(* arbitrary element.  The lemmas say that the choice does not matter, and  *)
(* what sums do when their functions are added, compared or changed.        *)
(***************************************************************************)
EXTENDS Functions, FiniteSetTheorems, WellFoundedInduction, TLAPS

(* A family of finite sets that holds the empty set, and with a subset of S *)
(* each one that has an element more, holds S.                              *)
LEMMA FamilyInduction ==
    ASSUME NEW S, IsFiniteSet(S), NEW F, {} \in F,
           ASSUME NEW T \in SUBSET S, T # {}, \A x \in T : T \ {x} \in F PROVE T \in F
    PROVE  \A T \in SUBSET S : T \in F
<1> SUFFICES ASSUME \E T \in SUBSET S : T \notin F PROVE FALSE
  OBVIOUS
<1> DEFINE B == {T \in SUBSET S : T \notin F}
<1>1. B \subseteq FiniteSubsetsOf(S) /\ B # {}
  BY FS_FiniteSubsetsOfFinite
<1>2. PICK T \in B : \A U \in B : ~(<<U, T>> \in StrictSubsetOrdering(S))
  <2> HIDE DEF B
  <2> QED BY <1>1, FS_StrictSubsetOrderingWellFounded, WFMin, Zenon
<1>3. T # {}
  OBVIOUS
<1>4. \A x \in T : T \ {x} \in F
  <2> SUFFICES ASSUME NEW x \in T, T \ {x} \notin F PROVE FALSE
    OBVIOUS
  <2> DEFINE U == T \ {x}
  <2>1. U \in B /\ T \in SUBSET S /\ U \subseteq T /\ U # T
    OBVIOUS
  <2> HIDE DEF U, B
  <2>2. <<U, T>> \in StrictSubsetOrdering(S)
    <3>1. U \in SUBSET S
      BY <2>1
    <3> QED BY <2>1, <3>1 DEF StrictSubsetOrdering
  <2> QED BY <1>2, <2>1, <2>2
<1> QED BY <1>3, <1>4

-----------------------------------------------------------------------------
(* h sums f on the subsets of S, one element after the other.               *)
Chosen(T) == CHOOSE x \in T : TRUE
Sums(h, f, S) ==
    h = [T \in SUBSET S |-> IF T = {} THEN 0 ELSE f[Chosen(T)] + h[T \ {Chosen(T)}]]

(* The sum of the community modules is such an h.                           *)
LEMMA SumDefinition ==
    ASSUME NEW f, NEW S
    PROVE  SumFunctionOnSet(f, S) = (CHOOSE h : Sums(h, f, S))[S]
BY DEF SumFunctionOnSet, FoldFunctionOnSet, MapThenFoldSet, Sums, Chosen

(* Two that do agree where both do.                                         *)
LEMMA SumsAgree ==
    ASSUME NEW f, NEW S, IsFiniteSet(S), NEW R \in SUBSET S,
           NEW h, Sums(h, f, S), NEW k, Sums(k, f, R)
    PROVE  \A T \in SUBSET R : h[T] = k[T]
<1> DEFINE F == {T \in SUBSET R : h[T] = k[T]}
<1>1. IsFiniteSet(R)
  BY FS_Subset
<1>2. \A T \in SUBSET S :
        h[T] = IF T = {} THEN 0 ELSE f[Chosen(T)] + h[T \ {Chosen(T)}]
  BY DEF Sums
<1>3. \A T \in SUBSET R :
        k[T] = IF T = {} THEN 0 ELSE f[Chosen(T)] + k[T \ {Chosen(T)}]
  BY DEF Sums
<1>4. {} \in F
  BY <1>2, <1>3
<1>5. ASSUME NEW T \in SUBSET R, T # {}, \A x \in T : T \ {x} \in F PROVE T \in F
  <2>1. Chosen(T) \in T
    BY <1>5 DEF Chosen
  <2>2. h[T \ {Chosen(T)}] = k[T \ {Chosen(T)}]
    BY <1>5, <2>1
  <2> QED BY <1>2, <1>3, <1>5, <2>2
<1>6. \A T \in SUBSET R : T \in F
  <2> HIDE DEF F
  <2> QED BY <1>1, <1>4, <1>5, FamilyInduction
<1> QED BY <1>6

(* One exists: it is built on the sets of at most n elements, and on more   *)
(* from that.                                                               *)
LEMMA SumsExists ==
    ASSUME NEW f, NEW S, IsFiniteSet(S) PROVE \E h : Sums(h, f, S)
<1> DEFINE Upto(T) == SUBSET T
           F == {T \in SUBSET S : \E h : Sums(h, f, T)}
<1>1. {} \in F
  <2> DEFINE h == [T \in SUBSET {} |-> 0]
  <2>1. Sums(h, f, {})
    <3>1. h = [T \in SUBSET {} |-> IF T = {} THEN 0 ELSE f[Chosen(T)] + h[T \ {Chosen(T)}]]
      OBVIOUS
    <3> QED BY <3>1 DEF Sums
  <2> QED BY <2>1
<1>2. ASSUME NEW T \in SUBSET S, T # {}, \A x \in T : T \ {x} \in F PROVE T \in F
  <2>1. \A x \in T : \E h : Sums(h, f, T \ {x})
    BY <1>2
  \* The sum of a proper subset, in any of the functions that reach it.
  <2> DEFINE below(x) == CHOOSE h : Sums(h, f, T \ {x})
             of(U) == LET x == CHOOSE x \in T : x \notin U IN below(x)[U]
             g == [U \in SUBSET T |->
                     IF U # T THEN of(U) ELSE f[Chosen(T)] + of(T \ {Chosen(T)})]
  <2>2. \A x \in T : Sums(below(x), f, T \ {x})
    BY <2>1
  <2> HIDE DEF below
  <2>3. ASSUME NEW U \in SUBSET T, NEW x \in T, x \notin U PROVE of(U) = below(x)[U]
    <3> DEFINE y == CHOOSE z \in T : z \notin U
    <3>1. y \in T /\ y \notin U
      BY <2>3
    <3> HIDE DEF y
    <3> DEFINE R == T \ {x, y}
    <3>2. Sums(below(x), f, T \ {x}) /\ Sums(below(y), f, T \ {y})
      BY <2>2, <3>1
    <3>3. IsFiniteSet(T \ {x}) /\ IsFiniteSet(T \ {y})
      BY FS_Subset
    <3>4. \E k : Sums(k, f, R)
      <4> DEFINE k == [V \in SUBSET R |-> below(x)[V]]
      <4>1. \A V \in SUBSET R : k[V] = IF V = {} THEN 0 ELSE f[Chosen(V)] + k[V \ {Chosen(V)}]
        <5> SUFFICES ASSUME NEW V \in SUBSET R
                     PROVE  k[V] = IF V = {} THEN 0 ELSE f[Chosen(V)] + k[V \ {Chosen(V)}]
          OBVIOUS
        <5>1. V \in SUBSET (T \ {x}) /\ V \ {Chosen(V)} \in SUBSET R
          OBVIOUS
        <5>2. below(x)[V] = IF V = {} THEN 0 ELSE f[Chosen(V)] + below(x)[V \ {Chosen(V)}]
          BY <3>2, <5>1 DEF Sums
        <5> QED BY <5>1, <5>2
      <4>2. Sums(k, f, R)
        <5>1. k = [V \in SUBSET R |-> IF V = {} THEN 0 ELSE f[Chosen(V)] + k[V \ {Chosen(V)}]]
          <6>1. k = [V \in SUBSET R |-> k[V]]
            OBVIOUS
          <6> HIDE DEF k
          <6> QED BY <4>1, <6>1
        <5> HIDE DEF k
        <5> QED BY <5>1 DEF Sums
      <4> QED BY <4>2
    <3>5. PICK k : Sums(k, f, R)
      BY <3>4
    <3>6. R \in SUBSET (T \ {x}) /\ R \in SUBSET (T \ {y}) /\ U \in SUBSET R
      BY <2>3, <3>1
    <3> HIDE DEF R
    <3>7. below(x)[U] = k[U]
      BY <3>2, <3>3, <3>5, <3>6, SumsAgree
    <3>8. below(y)[U] = k[U]
      BY <3>2, <3>3, <3>5, <3>6, SumsAgree
    <3> QED BY <3>7, <3>8 DEF y
  <2> HIDE DEF of
  <2>4. \A U \in SUBSET T : g[U] = IF U = {} THEN 0 ELSE f[Chosen(U)] + g[U \ {Chosen(U)}]
    <3> SUFFICES ASSUME NEW U \in SUBSET T
                 PROVE  g[U] = IF U = {} THEN 0 ELSE f[Chosen(U)] + g[U \ {Chosen(U)}]
      OBVIOUS
    <3>1. CASE U = T
      <4>1. Chosen(T) \in T
        BY <1>2 DEF Chosen
      <4> QED BY <1>2, <3>1, <4>1
    <3>2. CASE U # T
      <4>1. PICK x \in T : x \notin U
        BY <3>2
      <4>2. Sums(below(x), f, T \ {x}) /\ U \in SUBSET (T \ {x})
        BY <2>2, <4>1
      <4>3. below(x)[U] = IF U = {} THEN 0 ELSE f[Chosen(U)] + below(x)[U \ {Chosen(U)}]
        BY <4>2 DEF Sums
      <4>4. of(U) = below(x)[U]
        BY <2>3, <4>1
      <4>5. of(U \ {Chosen(U)}) = below(x)[U \ {Chosen(U)}]
        BY <2>3, <4>1
      <4>6. U \ {Chosen(U)} # T /\ U \ {Chosen(U)} \in SUBSET T
        BY <4>1
      <4> QED BY <3>2, <4>3, <4>4, <4>5, <4>6
    <3> QED BY <3>1, <3>2
  <2>5. Sums(g, f, T)
    <3>1. g = [U \in SUBSET T |-> g[U]]
      OBVIOUS
    <3> HIDE DEF g
    <3>2. g = [U \in SUBSET T |-> IF U = {} THEN 0 ELSE f[Chosen(U)] + g[U \ {Chosen(U)}]]
      BY <2>4, <3>1
    <3> QED BY <3>2 DEF Sums
  <2> QED BY <2>5
<1>3. \A T \in SUBSET S : T \in F
  <2> HIDE DEF F
  <2> QED BY <1>1, <1>2, FamilyInduction
<1>4. S \in F
  <2> HIDE DEF F
  <2> QED BY <1>3
<1> QED BY <1>4

-----------------------------------------------------------------------------
(* The sum over nothing, and the sum that removes the element chosen.       *)
LEMMA SumEmpty == ASSUME NEW f PROVE SumFunctionOnSet(f, {}) = 0
<1> DEFINE h == CHOOSE k : Sums(k, f, {})
<1>1. Sums(h, f, {})
  BY FS_EmptySet, SumsExists
<1> HIDE DEF h
<1>2. h[{}] = 0
  BY <1>1 DEF Sums
<1> QED BY <1>2, SumDefinition DEF h

(* A sum is a chosen term and the sum of the others.                        *)
LEMMA SumChosen ==
    ASSUME NEW f, NEW S, IsFiniteSet(S), S # {}
    PROVE  /\ Chosen(S) \in S
           /\ SumFunctionOnSet(f, S) = f[Chosen(S)] + SumFunctionOnSet(f, S \ {Chosen(S)})
<1> DEFINE R == S \ {Chosen(S)}
           h == CHOOSE k : Sums(k, f, S)
           k == CHOOSE l : Sums(l, f, R)
<1>1. IsFiniteSet(R) /\ R \in SUBSET S
  BY FS_Subset
<1>2. Sums(h, f, S)
  BY SumsExists
<1>3. Sums(k, f, R)
  <2> HIDE DEF R
  <2> QED BY <1>1, SumsExists
<1>4. SumFunctionOnSet(f, S) = h[S] /\ SumFunctionOnSet(f, R) = k[R]
  BY SumDefinition
<1> HIDE DEF h, k
<1>5. h[S] = f[Chosen(S)] + h[R]
  BY <1>2 DEF Sums
<1>6. h[R] = k[R]
  <2> HIDE DEF R
  <2>1. R \in SUBSET R
    OBVIOUS
  <2> QED BY <1>1, <1>2, <1>3, <2>1, SumsAgree
<1>7. Chosen(S) \in S
  BY DEF Chosen
<1> QED BY <1>4, <1>5, <1>6, <1>7

(* A sum of integers is one.                                                *)
LEMMA SumType ==
    ASSUME NEW S, IsFiniteSet(S), NEW f, \A x \in S : f[x] \in Int
    PROVE  \A T \in SUBSET S : SumFunctionOnSet(f, T) \in Int
<1> DEFINE F == {T \in SUBSET S : SumFunctionOnSet(f, T) \in Int}
<1>1. {} \in F
  BY SumEmpty
<1>2. ASSUME NEW T \in SUBSET S, T # {}, \A x \in T : T \ {x} \in F PROVE T \in F
  <2>1. IsFiniteSet(T)
    BY FS_Subset
  <2>2. /\ Chosen(T) \in T
        /\ SumFunctionOnSet(f, T) = f[Chosen(T)] + SumFunctionOnSet(f, T \ {Chosen(T)})
    BY <1>2, <2>1, SumChosen
  <2>3. f[Chosen(T)] \in Int /\ SumFunctionOnSet(f, T \ {Chosen(T)}) \in Int
    BY <1>2, <2>2
  <2> QED BY <2>2, <2>3
<1>3. \A T \in SUBSET S : T \in F
  <2> HIDE DEF F
  <2> QED BY <1>1, <1>2, FamilyInduction
<1> QED BY <1>3

(* Any element can be taken first.                                          *)
LEMMA SumRemove ==
    ASSUME NEW S, IsFiniteSet(S), NEW f, \A x \in S : f[x] \in Int
    PROVE  \A T \in SUBSET S : \A x \in T :
             SumFunctionOnSet(f, T) = f[x] + SumFunctionOnSet(f, T \ {x})
<1> DEFINE F == {T \in SUBSET S : \A x \in T :
                   SumFunctionOnSet(f, T) = f[x] + SumFunctionOnSet(f, T \ {x})}
<1>1. {} \in F
  OBVIOUS
<1>2. ASSUME NEW T \in SUBSET S, T # {}, \A x \in T : T \ {x} \in F PROVE T \in F
  <2> DEFINE c == Chosen(T)
  <2>1. IsFiniteSet(T)
    BY FS_Subset
  <2>2. c \in T /\ SumFunctionOnSet(f, T) = f[c] + SumFunctionOnSet(f, T \ {c})
    BY <1>2, <2>1, SumChosen
  <2> HIDE DEF c
  <2> SUFFICES ASSUME NEW x \in T, x # c
               PROVE  SumFunctionOnSet(f, T) = f[x] + SumFunctionOnSet(f, T \ {x})
    BY <2>2
  <2> DEFINE R == (T \ {x}) \ {c}
  <2>3. SumFunctionOnSet(f, T \ {x}) = f[c] + SumFunctionOnSet(f, R)
    BY <1>2, <2>2
  <2>4. SumFunctionOnSet(f, T \ {c}) = f[x] + SumFunctionOnSet(f, R)
    <3>1. (T \ {c}) \ {x} = R
      OBVIOUS
    <3>2. T \ {c} \in F /\ x \in T \ {c}
      BY <1>2, <2>2
    <3> HIDE DEF R
    <3> QED BY <3>1, <3>2
  <2>5. f[c] \in Int /\ f[x] \in Int /\ SumFunctionOnSet(f, R) \in Int
    <3>1. R \in SUBSET S
      OBVIOUS
    <3> HIDE DEF R
    <3> QED BY <2>2, <3>1, SumType
  <2> HIDE DEF R
  <2> QED BY <2>2, <2>3, <2>4, <2>5
<1>3. \A T \in SUBSET S : T \in F
  <2> HIDE DEF F
  <2> QED BY <1>1, <1>2, FamilyInduction
<1> QED BY <1>3

(* A sum of what two functions add up to.                                   *)
LEMMA SumAdd ==
    ASSUME NEW S, IsFiniteSet(S), NEW f, NEW g, NEW h,
           \A x \in S : f[x] \in Int /\ g[x] \in Int /\ h[x] = f[x] + g[x]
    PROVE  SumFunctionOnSet(h, S) = SumFunctionOnSet(f, S) + SumFunctionOnSet(g, S)
<1> DEFINE F == {T \in SUBSET S :
                  SumFunctionOnSet(h, T) = SumFunctionOnSet(f, T) + SumFunctionOnSet(g, T)}
<1>1. {} \in F
  BY SumEmpty
<1>2. ASSUME NEW T \in SUBSET S, T # {}, \A x \in T : T \ {x} \in F PROVE T \in F
  <2>1. PICK x \in T : TRUE
    BY <1>2
  <2> DEFINE R == T \ {x}
  <2>2. R \in F /\ R \in SUBSET S
    BY <1>2
  <2>3. \A y \in S : h[y] \in Int
    OBVIOUS
  <2>4. /\ SumFunctionOnSet(f, T) = f[x] + SumFunctionOnSet(f, R)
        /\ SumFunctionOnSet(g, T) = g[x] + SumFunctionOnSet(g, R)
        /\ SumFunctionOnSet(h, T) = h[x] + SumFunctionOnSet(h, R)
    BY <2>3, SumRemove
  <2> HIDE DEF R
  <2>5. /\ SumFunctionOnSet(f, R) \in Int /\ SumFunctionOnSet(g, R) \in Int
        /\ SumFunctionOnSet(h, R) = SumFunctionOnSet(f, R) + SumFunctionOnSet(g, R)
    BY <2>2, SumType
  <2>6. f[x] \in Int /\ g[x] \in Int /\ h[x] = f[x] + g[x]
    OBVIOUS
  <2>7. SumFunctionOnSet(h, T) = SumFunctionOnSet(f, T) + SumFunctionOnSet(g, T)
    BY <2>4, <2>5, <2>6
  <2> QED BY <2>7
<1>3. S \in F
  <2> HIDE DEF F
  <2>1. \A T \in SUBSET S : T \in F
    BY <1>1, <1>2, FamilyInduction
  <2> QED BY <2>1
<1> QED BY <1>3

(* No element more, no sum more.                                            *)
LEMMA SumMonotone ==
    ASSUME NEW S, IsFiniteSet(S), NEW f, NEW g,
           \A x \in S : f[x] \in Int /\ g[x] \in Int /\ f[x] <= g[x]
    PROVE  SumFunctionOnSet(f, S) <= SumFunctionOnSet(g, S)
<1> DEFINE F == {T \in SUBSET S : SumFunctionOnSet(f, T) <= SumFunctionOnSet(g, T)}
<1>1. {} \in F
  BY SumEmpty
<1>2. ASSUME NEW T \in SUBSET S, T # {}, \A x \in T : T \ {x} \in F PROVE T \in F
  <2>1. PICK x \in T : TRUE
    BY <1>2
  <2> DEFINE R == T \ {x}
  <2>2. R \in F /\ R \in SUBSET S
    BY <1>2
  <2>3. /\ SumFunctionOnSet(f, T) = f[x] + SumFunctionOnSet(f, R)
        /\ SumFunctionOnSet(g, T) = g[x] + SumFunctionOnSet(g, R)
    BY SumRemove
  <2> HIDE DEF R
  <2>4. /\ SumFunctionOnSet(f, R) \in Int /\ SumFunctionOnSet(g, R) \in Int
        /\ SumFunctionOnSet(f, R) <= SumFunctionOnSet(g, R)
    BY <2>2, SumType
  <2>5. f[x] \in Int /\ g[x] \in Int /\ f[x] <= g[x]
    OBVIOUS
  <2>6. SumFunctionOnSet(f, T) <= SumFunctionOnSet(g, T)
    BY <2>3, <2>4, <2>5
  <2> QED BY <2>6
<1>3. S \in F
  <2> HIDE DEF F
  <2>1. \A T \in SUBSET S : T \in F
    BY <1>1, <1>2, FamilyInduction
  <2> QED BY <2>1
<1> QED BY <1>3

(* A sum is that of its values.                                             *)
LEMMA SumSame ==
    ASSUME NEW S, IsFiniteSet(S), NEW f, NEW g,
           \A x \in S : f[x] \in Int /\ f[x] = g[x]
    PROVE  SumFunctionOnSet(f, S) = SumFunctionOnSet(g, S)
<1>1. SumFunctionOnSet(f, S) <= SumFunctionOnSet(g, S)
  BY SumMonotone
<1>2. SumFunctionOnSet(g, S) <= SumFunctionOnSet(f, S)
  <2>1. \A x \in S : g[x] \in Int /\ f[x] \in Int /\ g[x] <= f[x]
    OBVIOUS
  <2> QED BY <2>1, SumMonotone
<1>3. SumFunctionOnSet(f, S) \in Int /\ SumFunctionOnSet(g, S) \in Int
  <2>1. \A x \in S : g[x] \in Int
    OBVIOUS
  <2> QED BY <2>1, SumType
<1> QED BY <1>1, <1>2, <1>3

(* The sum over nothing but zeros.                                          *)
LEMMA SumZero ==
    ASSUME NEW S, IsFiniteSet(S), NEW f, \A x \in S : f[x] = 0
    PROVE  SumFunctionOnSet(f, S) = 0
<1>1. SumFunctionOnSet(f, S) = SumFunctionOnSet(f, S) + SumFunctionOnSet(f, S)
  <2>1. \A x \in S : f[x] \in Int /\ f[x] \in Int /\ f[x] = f[x] + f[x]
    OBVIOUS
  <2> QED BY <2>1, SumAdd
<1>2. SumFunctionOnSet(f, S) \in Int
  BY SumType
<1> DEFINE sum == SumFunctionOnSet(f, S)
<1> HIDE DEF sum
<1>3. sum \in Int /\ sum = sum + sum => sum = 0
  OBVIOUS
<1> QED BY <1>1, <1>2, <1>3 DEF sum

(* A sum over a part of S is the sum of a function that is 0 elsewhere.     *)
LEMMA SumOnPart ==
    ASSUME NEW S, IsFiniteSet(S), NEW T \in SUBSET S, NEW f, NEW g,
           \A x \in T : f[x] \in Int /\ g[x] = f[x], \A x \in S \ T : g[x] = 0
    PROVE  SumFunctionOnSet(f, T) = SumFunctionOnSet(g, S)
<1> DEFINE F == {U \in SUBSET S : SumFunctionOnSet(g, U) = SumFunctionOnSet(g, U \cap T)}
<1>1. {} \in F
  OBVIOUS
<1>2. ASSUME NEW U \in SUBSET S, U # {}, \A x \in U : U \ {x} \in F PROVE U \in F
  <2>1. PICK x \in U : TRUE
    BY <1>2
  <2>2. \A y \in S : g[y] \in Int
    OBVIOUS
  <2>3. SumFunctionOnSet(g, U) = g[x] + SumFunctionOnSet(g, U \ {x})
    BY <2>2, SumRemove
  <2>4. SumFunctionOnSet(g, U \ {x}) = SumFunctionOnSet(g, (U \ {x}) \cap T)
    BY <1>2
  <2>5. CASE x \in T
    <3>1. SumFunctionOnSet(g, U \cap T) = g[x] + SumFunctionOnSet(g, (U \cap T) \ {x})
      BY <2>2, <2>5, SumRemove
    <3>2. (U \cap T) \ {x} = (U \ {x}) \cap T
      OBVIOUS
    <3> QED BY <2>3, <2>4, <3>1, <3>2
  <2>6. CASE x \notin T
    <3>1. (U \ {x}) \cap T = U \cap T /\ g[x] = 0
      BY <2>6
    <3>2. U \cap T \in SUBSET S
      OBVIOUS
    <3>3. SumFunctionOnSet(g, U \cap T) \in Int
      BY <2>2, <3>2, SumType
    <3>4. SumFunctionOnSet(g, U \ {x}) = SumFunctionOnSet(g, U \cap T)
      BY <2>4, <3>1
    <3>5. SumFunctionOnSet(g, U) = 0 + SumFunctionOnSet(g, U \cap T)
      BY <2>3, <3>1, <3>4
    <3>6. SumFunctionOnSet(g, U) = SumFunctionOnSet(g, U \cap T)
      <4> DEFINE sum == SumFunctionOnSet(g, U \cap T)
      <4> HIDE DEF sum
      <4>1. sum \in Int => 0 + sum = sum
        OBVIOUS
      <4> QED BY <3>3, <3>5, <4>1 DEF sum
    <3> QED BY <3>6
  <2> QED BY <2>5, <2>6
<1>3. S \in F
  <2> HIDE DEF F
  <2>1. \A U \in SUBSET S : U \in F
    BY <1>1, <1>2, FamilyInduction
  <2> QED BY <2>1
<1>4. S \cap T = T
  OBVIOUS
<1>5. SumFunctionOnSet(f, T) = SumFunctionOnSet(g, T)
  BY FS_Subset, SumSame
<1> QED BY <1>3, <1>4, <1>5

(* A function changed at one place.                                         *)
LEMMA SumUpdate ==
    ASSUME NEW S, IsFiniteSet(S), NEW f, NEW g, NEW x \in S,
           \A y \in S : f[y] \in Int /\ g[y] \in Int,
           \A y \in S \ {x} : f[y] = g[y]
    PROVE  SumFunctionOnSet(g, S) = SumFunctionOnSet(f, S) - f[x] + g[x]
<1> DEFINE R == S \ {x}
<1>1. IsFiniteSet(R) /\ R \in SUBSET S
  BY FS_Subset
<1>2. /\ SumFunctionOnSet(f, S) = f[x] + SumFunctionOnSet(f, R)
      /\ SumFunctionOnSet(g, S) = g[x] + SumFunctionOnSet(g, R)
  BY SumRemove
<1>3. SumFunctionOnSet(f, R) = SumFunctionOnSet(g, R)
  BY <1>1, SumSame
<1>4. SumFunctionOnSet(f, R) \in Int
  BY <1>1, SumType
<1> HIDE DEF R
<1> QED BY <1>2, <1>3, <1>4

(* A sum of naturals is one.                                                *)
LEMMA SumNat ==
    ASSUME NEW S, IsFiniteSet(S), NEW f, \A x \in S : f[x] \in Nat
    PROVE  SumFunctionOnSet(f, S) \in Nat
<1> DEFINE z == [x \in S |-> 0]
<1>1. SumFunctionOnSet(z, S) = 0
  BY SumZero
<1>2. SumFunctionOnSet(z, S) <= SumFunctionOnSet(f, S)
  <2>1. \A x \in S : z[x] \in Int /\ f[x] \in Int /\ z[x] <= f[x]
    OBVIOUS
  <2> HIDE DEF z
  <2> QED BY <2>1, SumMonotone
<1>3. SumFunctionOnSet(f, S) \in Int
  BY SumType
<1> HIDE DEF z
<1> QED BY <1>1, <1>2, <1>3

-----------------------------------------------------------------------------
(* The same for the sum of a whole function.                                *)
LEMMA TotalIsSum ==
    ASSUME NEW S, NEW f, DOMAIN f = S PROVE SumFunction(f) = SumFunctionOnSet(f, S)
BY DEF SumFunction

(* The sum of integers is an integer.                                       *)
LEMMA TotalType ==
    ASSUME NEW S, IsFiniteSet(S), NEW f \in [S -> Int] PROVE SumFunction(f) \in Int
<1>1. DOMAIN f = S /\ \A x \in S : f[x] \in Int
  OBVIOUS
<1>2. SumFunctionOnSet(f, S) \in Int
  BY <1>1, SumType
<1> QED BY <1>1, <1>2, TotalIsSum

(* The sum of naturals is a natural.                                        *)
LEMMA TotalNat ==
    ASSUME NEW S, IsFiniteSet(S), NEW f \in [S -> Nat] PROVE SumFunction(f) \in Nat
<1>1. DOMAIN f = S /\ \A x \in S : f[x] \in Nat
  OBVIOUS
<1> QED BY <1>1, SumNat, TotalIsSum

(* Zeros sum to 0.                                                          *)
LEMMA TotalZero ==
    ASSUME NEW S, IsFiniteSet(S), NEW f \in [S -> {0}] PROVE SumFunction(f) = 0
<1>1. DOMAIN f = S /\ \A x \in S : f[x] = 0
  OBVIOUS
<1> QED BY <1>1, SumZero, TotalIsSum

(* The sum of pointwise sums is the sum of the sums.                        *)
LEMMA TotalAdd ==
    ASSUME NEW S, IsFiniteSet(S), NEW f \in [S -> Int], NEW g \in [S -> Int],
           NEW h \in [S -> Int], \A x \in S : h[x] = f[x] + g[x]
    PROVE  SumFunction(h) = SumFunction(f) + SumFunction(g)
<1>1. DOMAIN f = S /\ DOMAIN g = S /\ DOMAIN h = S
  OBVIOUS
<1>2. \A x \in S : f[x] \in Int /\ g[x] \in Int /\ h[x] = f[x] + g[x]
  OBVIOUS
<1>3. SumFunctionOnSet(h, S) = SumFunctionOnSet(f, S) + SumFunctionOnSet(g, S)
  BY <1>2, SumAdd
<1> QED BY <1>1, <1>3, TotalIsSum

(* Larger terms have no smaller sum.                                        *)
LEMMA TotalMonotone ==
    ASSUME NEW S, IsFiniteSet(S), NEW f \in [S -> Int], NEW g \in [S -> Int],
           \A x \in S : f[x] <= g[x]
    PROVE  SumFunction(f) <= SumFunction(g)
<1>1. DOMAIN f = S /\ DOMAIN g = S
  OBVIOUS
<1>2. \A x \in S : f[x] \in Int /\ g[x] \in Int /\ f[x] <= g[x]
  OBVIOUS
<1>3. SumFunctionOnSet(f, S) <= SumFunctionOnSet(g, S)
  BY <1>2, SumMonotone
<1> QED BY <1>1, <1>3, TotalIsSum

(* A function changed at one point: the sum changes by as much.             *)
LEMMA TotalUpdate ==
    ASSUME NEW S, IsFiniteSet(S), NEW f \in [S -> Int], NEW g \in [S -> Int], NEW x \in S,
           \A y \in S \ {x} : f[y] = g[y]
    PROVE  SumFunction(g) = SumFunction(f) - f[x] + g[x]
<1>1. DOMAIN f = S /\ DOMAIN g = S /\ \A y \in S : f[y] \in Int /\ g[y] \in Int
  OBVIOUS
<1>2. SumFunctionOnSet(g, S) = SumFunctionOnSet(f, S) - f[x] + g[x]
  BY <1>1, SumUpdate
<1> QED BY <1>1, <1>2, TotalIsSum

(* The sum over a part is that of the function that is 0 outside of it.     *)
LEMMA TotalOnPart ==
    ASSUME NEW S, IsFiniteSet(S), NEW T \in SUBSET S, NEW f, NEW g \in [S -> Int],
           \A x \in T : g[x] = f[x], \A x \in S \ T : g[x] = 0
    PROVE  SumFunctionOnSet(f, T) = SumFunction(g)
<1>1. DOMAIN g = S /\ \A x \in T : f[x] \in Int /\ g[x] = f[x]
  OBVIOUS
<1>2. SumFunctionOnSet(f, T) = SumFunctionOnSet(g, S)
  BY <1>1, SumOnPart
<1> QED BY <1>1, <1>2, TotalIsSum
=============================================================================
