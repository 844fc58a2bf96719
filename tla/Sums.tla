-------------------------------- MODULE Sums --------------------------------
(***************************************************************************)
(* Facts about sums over finite sets, as MapThenSumSet and the other folds *)
(* of the community modules compute them: one element after the other, in  *)
(* the order in which CHOOSE takes them.  F[x] is what x counts.           *)
(***************************************************************************)
EXTENDS Integers, FiniteSets, Functions, FiniteSetTheorems, WellFoundedInduction, TLAPS

Chosen(s) == CHOOSE x \in s : TRUE

\* What is added up for s when I holds it for the smaller sets.
Added(F, I, s) == IF s = {} THEN 0 ELSE F[Chosen(s)] + I[s \ {Chosen(s)}]

AddsUp(F, S, I) == I = [s \in SUBSET S |-> Added(F, I, s)]

SumOf(F, S) == (CHOOSE I : AddsUp(F, S, I))[S]

---------------------------------------------------------------------------
\* A nonempty set of naturals has a least one.
LEMMA LeastOf ==
    ASSUME NEW B \in SUBSET Nat, B # {}
    PROVE  \E m \in B : \A k \in B : m <= k
  <1>1. PICK m \in B : \A k \in B : <<k, m>> \notin OpToRel(<, Nat)
    BY NatLessThanWellFounded, WFMin, Zenon
  <1>2. \A k \in B : ~(k < m)
    BY <1>1, Zenon DEF OpToRel
  <1> QED BY <1>2

LEMMA Smaller ==
    ASSUME NEW s, IsFiniteSet(s), NEW x \in s
    PROVE  /\ IsFiniteSet(s \ {x})
           /\ Cardinality(s) \in Nat /\ Cardinality(s \ {x}) \in Nat
           /\ Cardinality(s \ {x}) = Cardinality(s) - 1
  BY FS_RemoveElement, FS_CardinalityType

LEMMA ChosenIsIn ==
    ASSUME NEW s, s # {}
    PROVE  Chosen(s) \in s
  BY DEF Chosen

\* The recursion is one: up to every size there is a function that adds up.
LEMMA SumExists ==
    ASSUME NEW F, NEW S, IsFiniteSet(S)
    PROVE  \E I : AddsUp(F, S, I)
  <1> DEFINE Upto(n, I) == \A s \in SUBSET S : Cardinality(s) <= n => I[s] = Added(F, I, s)
             B == {n \in Nat : ~ \E I : Upto(n, I)}
  <1>1. \A s \in SUBSET S : IsFiniteSet(s) /\ Cardinality(s) \in Nat
    BY FS_Subset, FS_CardinalityType
  <1>2. B = {}
    <2> SUFFICES ASSUME B # {} PROVE FALSE
      OBVIOUS
    <2>1. PICK m \in B : \A k \in B : m <= k
      BY LeastOf
    <2>2. CASE m = 0
      <3>1. Upto(0, [s \in SUBSET S |-> 0])
        BY <1>1, FS_EmptySet DEF Added
      <3> QED BY <2>1, <2>2, <3>1
    <2>3. CASE m # 0
      <3>1. m - 1 \in Nat /\ m - 1 \notin B
        BY <2>1, <2>3
      <3>2. PICK J : Upto(m - 1, J)
        BY <3>1
      <3> DEFINE I == [s \in SUBSET S |-> Added(F, J, s)]
      <3>3. ASSUME NEW s \in SUBSET S, Cardinality(s) <= m
            PROVE  I[s] = Added(F, I, s)
        <4>1. CASE s = {}
          BY <4>1 DEF Added
        <4>2. CASE s # {}
          <5>1. Chosen(s) \in s /\ s \ {Chosen(s)} \in SUBSET S
            BY <4>2, ChosenIsIn
          <5>2. Cardinality(s \ {Chosen(s)}) = Cardinality(s) - 1
            BY <1>1, <5>1, Smaller
          <5>3. Cardinality(s \ {Chosen(s)}) <= m - 1
            BY <1>1, <3>3, <5>1, <5>2, <2>1
          <5>4. J[s \ {Chosen(s)}] = I[s \ {Chosen(s)}]
            BY <3>2, <5>1, <5>3
          <5> QED BY <4>2, <5>4 DEF Added
        <4> QED BY <4>1, <4>2
      <3>4. Upto(m, I)
        BY <3>3
      <3> QED BY <2>1, <3>4
    <2> QED BY <2>2, <2>3
  <1>3. PICK J : Upto(Cardinality(S), J)
    BY <1>1, <1>2
  <1>4. \A s \in SUBSET S : J[s] = Added(F, J, s)
    BY <1>1, <1>3, FS_Subset
  <1> DEFINE I == [s \in SUBSET S |-> J[s]]
  <1>5. ASSUME NEW s \in SUBSET S
        PROVE  I[s] = Added(F, I, s)
    <2>1. s # {} => s \ {Chosen(s)} \in SUBSET S
      OBVIOUS
    <2> QED BY <1>4, <2>1 DEF Added
  <1>6. I = [s \in SUBSET S |-> Added(F, I, s)]
    BY <1>5
  <1> QED BY <1>6 DEF AddsUp

\* Functions that add up for two sets agree on what both have.
LEMMA SumIsOne ==
    ASSUME NEW F, NEW S, NEW T \in SUBSET S, IsFiniteSet(S),
           NEW I, AddsUp(F, S, I), NEW J, AddsUp(F, T, J)
    PROVE  J[T] = I[T]
  <1> DEFINE B == {n \in Nat : \E s \in SUBSET T : Cardinality(s) = n /\ I[s] # J[s]}
  <1>1. \A s \in SUBSET T : IsFiniteSet(s) /\ Cardinality(s) \in Nat
    BY FS_Subset, FS_CardinalityType
  <1>2. \A s \in SUBSET T : I[s] = Added(F, I, s) /\ J[s] = Added(F, J, s)
    BY DEF AddsUp
  <1>3. B = {}
    <2> SUFFICES ASSUME B # {} PROVE FALSE
      OBVIOUS
    <2>1. PICK m \in B : \A k \in B : m <= k
      BY LeastOf
    <2>2. PICK s \in SUBSET T : Cardinality(s) = m /\ I[s] # J[s]
      BY <2>1
    <2>3. s # {}
      BY <1>2, <2>2 DEF Added
    <2>4. Chosen(s) \in s /\ s \ {Chosen(s)} \in SUBSET T
      BY <2>3, ChosenIsIn
    <2>5. Cardinality(s \ {Chosen(s)}) \in Nat /\ Cardinality(s \ {Chosen(s)}) < m
      BY <1>1, <2>2, <2>4, Smaller
    <2>6. I[s \ {Chosen(s)}] = J[s \ {Chosen(s)}]
      BY <2>1, <2>4, <2>5
    <2> QED BY <1>2, <2>2, <2>3, <2>6 DEF Added
  <1> QED BY <1>1, <1>3

\* What the folds compute is the sum: any function that adds up gives it.
LEMMA SumIs ==
    ASSUME NEW F, NEW S, IsFiniteSet(S), NEW I, AddsUp(F, S, I)
    PROVE  SumOf(F, S) = I[S]
  <1> DEFINE C == CHOOSE J : AddsUp(F, S, J)
  <1>1. AddsUp(F, S, C)
    BY Zenon
  <1> HIDE DEF C
  <1>2. C[S] = I[S]
    BY <1>1, SumIsOne
  <1> QED BY <1>2 DEF SumOf, C

LEMMA SumOfNone ==
    ASSUME NEW F
    PROVE  SumOf(F, {}) = 0
  <1>1. PICK I : AddsUp(F, {}, I)
    BY SumExists, FS_EmptySet
  <1>2. I[{}] = 0
    BY <1>1 DEF AddsUp, Added
  <1> QED BY <1>1, <1>2, SumIs, FS_EmptySet

LEMMA SumOfChosen ==
    ASSUME NEW F, NEW S, IsFiniteSet(S), S # {}
    PROVE  SumOf(F, S) = F[Chosen(S)] + SumOf(F, S \ {Chosen(S)})
  <1> DEFINE T == S \ {Chosen(S)}
  <1>1. PICK I : AddsUp(F, S, I)
    BY SumExists
  <1>2. IsFiniteSet(T) /\ T \in SUBSET S
    BY FS_Subset
  <1>3. PICK J : AddsUp(F, T, J)
    BY <1>2, SumExists
  <1>4. J[T] = I[T]
    BY <1>1, <1>2, <1>3, SumIsOne
  <1>5. I[S] = F[Chosen(S)] + I[T]
    BY <1>1 DEF AddsUp, Added
  <1> QED BY <1>1, <1>2, <1>3, <1>4, <1>5, SumIs

\* The sum is a natural number, and the order does not matter: any element can
\* be taken first.
THEOREM SumRemove ==
    ASSUME NEW S, IsFiniteSet(S), NEW F, \A x \in S : F[x] \in Nat
    PROVE  /\ SumOf(F, S) \in Nat
           /\ \A x \in S : SumOf(F, S) = F[x] + SumOf(F, S \ {x})
  <1> DEFINE Good(s) == /\ SumOf(F, s) \in Nat
                        /\ \A x \in s : SumOf(F, s) = F[x] + SumOf(F, s \ {x})
             B == {n \in Nat : \E s \in SUBSET S : Cardinality(s) = n /\ ~Good(s)}
  <1>1. \A s \in SUBSET S : IsFiniteSet(s) /\ Cardinality(s) \in Nat
    BY FS_Subset, FS_CardinalityType
  <1>2. B = {}
    <2> SUFFICES ASSUME B # {} PROVE FALSE
      OBVIOUS
    <2>1. PICK m \in B : \A k \in B : m <= k
      BY LeastOf
    <2>2. PICK s \in SUBSET S : Cardinality(s) = m /\ ~Good(s)
      BY <2>1
    <2>3. ASSUME NEW x \in s
          PROVE  Good(s \ {x})
      <3>1. s \ {x} \in SUBSET S
        OBVIOUS
      <3>2. Cardinality(s \ {x}) \in Nat /\ Cardinality(s \ {x}) < m
        BY <1>1, <2>2, Smaller
      <3> HIDE DEF Good
      <3>3. Cardinality(s \ {x}) \notin B
        BY <2>1, <3>2
      <3> QED BY <3>1, <3>2, <3>3
    <2>4. s # {}
      <3>1. SumOf(F, {}) \in Nat
        BY SumOfNone
      <3>2. Good({})
        BY <3>1
      <3> HIDE DEF Good
      <3> QED BY <2>2, <3>2
    <2> DEFINE c == Chosen(s)
               rest == s \ {c}
    <2>5. c \in s
      BY <2>4, ChosenIsIn
    <2> HIDE DEF c
    <2>6. SumOf(F, s) = F[c] + SumOf(F, rest)
      BY <1>1, <2>4, SumOfChosen DEF c
    <2>7. F[c] \in Nat /\ SumOf(F, rest) \in Nat
      BY <2>3, <2>5
    <2>8. ASSUME NEW x \in s, x # c
          PROVE  SumOf(F, s) = F[x] + SumOf(F, s \ {x})
      <3>1. SumOf(F, rest) = F[x] + SumOf(F, rest \ {x})
        BY <2>3, <2>5, <2>8
      <3>2. SumOf(F, s \ {x}) = F[c] + SumOf(F, (s \ {x}) \ {c})
        BY <2>3, <2>5, <2>8
      <3>3. rest \ {x} = (s \ {x}) \ {c}
        OBVIOUS
      <3>4. F[x] \in Nat
        OBVIOUS
      <3>5. SumOf(F, rest \ {x}) \in Nat
        <4>1. Good(rest) /\ x \in rest
          BY <2>3, <2>5, <2>8
        <4>2. rest \ {x} \in SUBSET S /\ IsFiniteSet(rest) /\ IsFiniteSet(s)
          BY <1>1
        <4>3. Cardinality(rest \ {x}) \in Nat /\ Cardinality(rest \ {x}) < m
          <5>1. Cardinality(rest) \in Nat /\ Cardinality(rest) < m
            BY <2>2, <2>5, <4>2, Smaller
          <5>2. Cardinality(rest \ {x}) \in Nat /\ Cardinality(rest \ {x}) = Cardinality(rest) - 1
            <6> HIDE DEF rest
            <6> QED BY <4>1, <4>2, Smaller
          <5>3. m \in Nat
            BY <2>1
          <5> QED BY <5>1, <5>2, <5>3
        <4>4. Good(rest \ {x})
          <5> HIDE DEF Good, rest
          <5> QED BY <2>1, <4>2, <4>3
        <4> QED BY <4>4
      <3>6. SumOf(F, (s \ {x}) \ {c}) \in Nat
        BY <3>3, <3>5, Zenon
      <3>7. SumOf(F, rest) = F[x] + SumOf(F, (s \ {x}) \ {c})
        BY <3>1, <3>3, Zenon
      <3> HIDE DEF rest
      <3> QED BY <2>6, <2>7, <3>2, <3>4, <3>6, <3>7
    <2>9. Good(s)
      BY <2>6, <2>7, <2>8
    <2> QED BY <2>2, <2>9
  <1> QED BY <1>1, <1>2

---------------------------------------------------------------------------
(***************************************************************************)
(* Induction over a finite set, with the subsets it holds of as a set: it  *)
(* holds of {} and of a set if it holds of it without each one element.    *)
(***************************************************************************)
THEOREM InductionOnAll ==
    ASSUME NEW S, IsFiniteSet(S), NEW G, {} \in G,
           \A s \in SUBSET S : s # {} /\ (\A x \in s : s \ {x} \in G) => s \in G
    PROVE  S \in G
  <1> DEFINE B == {n \in Nat : \E s \in SUBSET S : Cardinality(s) = n /\ s \notin G}
  <1>1. \A s \in SUBSET S : IsFiniteSet(s) /\ Cardinality(s) \in Nat
    BY FS_Subset, FS_CardinalityType
  <1>2. B = {}
    <2> SUFFICES ASSUME B # {} PROVE FALSE
      OBVIOUS
    <2>1. PICK m \in B : \A k \in B : m <= k
      BY LeastOf
    <2>2. PICK s \in SUBSET S : Cardinality(s) = m /\ s \notin G
      BY <2>1
    <2>3. m \in Nat /\ \A k \in Nat : k < m => k \notin B
      <3> HIDE DEF B
      <3>1. B \in SUBSET Nat
        BY DEF B
      <3> QED BY <2>1, <3>1
    <2>4. ASSUME NEW x \in s
          PROVE  s \ {x} \in G
      <3>1. s \ {x} \in SUBSET S
        OBVIOUS
      <3>2. Cardinality(s) = m /\ IsFiniteSet(s)
        BY <1>1, <2>2
      <3>3. /\ Cardinality(s) \in Nat /\ Cardinality(s \ {x}) \in Nat
            /\ Cardinality(s \ {x}) = Cardinality(s) - 1
        BY <3>2, Smaller, Zenon
      <3>4. Cardinality(s \ {x}) \in Nat /\ Cardinality(s \ {x}) < m
        BY <3>2, <3>3
      <3> QED BY <2>3, <3>1, <3>4
    <2> QED BY <2>2, <2>4
  <1> QED BY <1>1, <1>2

\* The same where one element is enough.
THEOREM Induction ==
    ASSUME NEW S, IsFiniteSet(S), NEW G, {} \in G,
           \A s \in SUBSET S : \A x \in s : s \ {x} \in G => s \in G
    PROVE  S \in G
  <1>1. ASSUME NEW s \in SUBSET S, s # {}, \A x \in s : s \ {x} \in G
        PROVE  s \in G
    <2>1. PICK x \in s : TRUE
      BY <1>1
    <2> QED BY <1>1, <2>1
  <1> QED BY <1>1, InductionOnAll

\* What a function gives for a finite set is finite.
LEMMA ImageIsFinite ==
    ASSUME NEW S, IsFiniteSet(S), NEW F,
           NEW T, \A y \in T : \E x \in S : y = F[x]
    PROVE  IsFiniteSet(T)
  <1> DEFINE Image(s) == {F[x] : x \in s}
             G == {s \in SUBSET S : IsFiniteSet(Image(s))}
  <1>1. {} \in G
    BY FS_EmptySet
  <1>2. ASSUME NEW s \in SUBSET S, NEW x \in s, s \ {x} \in G
        PROVE  s \in G
    <2>1. Image(s) = Image(s \ {x}) \cup {F[x]}
      OBVIOUS
    <2>2. IsFiniteSet(Image(s \ {x}))
      BY <1>2
    <2>3. IsFiniteSet(Image(s))
      <3> HIDE DEF Image, G
      <3>1. IsFiniteSet(Image(s \ {x}) \cup {F[x]})
        BY <2>2, FS_AddElement
      <3> QED BY <2>1, <3>1, Zenon
    <2> QED BY <2>3
  <1>3. S \in G
    <2> HIDE DEF G
    <2> QED BY <1>1, <1>2, Induction
  <1>4. T \in SUBSET Image(S)
    OBVIOUS
  <1>5. IsFiniteSet(Image(S))
    BY <1>3
  <1> HIDE DEF Image, G
  <1> QED BY <1>4, <1>5, FS_Subset

\* A nonempty finite set of naturals has a greatest one.
LEMMA GreatestOf ==
    ASSUME NEW S \in SUBSET Nat, IsFiniteSet(S), S # {}
    PROVE  \E m \in S : \A k \in S : k <= m
  <1> DEFINE Topped(s) == s = {} \/ \E m \in s : \A k \in s : k <= m
             G == {s \in SUBSET S : Topped(s)}
  <1>1. {} \in G
    OBVIOUS
  <1>2. ASSUME NEW s \in SUBSET S, NEW x \in s, s \ {x} \in G
        PROVE  s \in G
    <2>1. CASE s \ {x} = {}
      <3>1. \A k \in s : k <= x
        BY <2>1
      <3> QED BY <3>1
    <2>2. CASE s \ {x} # {}
      <3>1. PICK m \in s \ {x} : \A k \in s \ {x} : k <= m
        BY <1>2, <2>2
      <3>2. m \in Nat /\ x \in Nat
        OBVIOUS
      <3>3. CASE m <= x
        <4>1. \A k \in s : k \in Nat /\ k <= x
          BY <3>1, <3>2, <3>3
        <4> QED BY <4>1
      <3>4. CASE x <= m
        <4>1. \A k \in s : k <= m
          BY <3>1, <3>4
        <4> QED BY <4>1
      <3> QED BY <3>2, <3>3, <3>4
    <2> QED BY <2>1, <2>2
  <1> HIDE DEF G
  <1>3. S \in G
    BY <1>1, <1>2, Induction
  <1> QED BY <1>3 DEF G

\* Only what is counted for the elements matters.
LEMMA SumAgrees ==
    ASSUME NEW S, IsFiniteSet(S), NEW F, NEW H,
           \A x \in S : F[x] \in Nat /\ H[x] = F[x]
    PROVE  SumOf(H, S) = SumOf(F, S)
  <1> DEFINE G == {s \in SUBSET S : SumOf(H, s) = SumOf(F, s)}
  <1>1. {} \in G
    BY SumOfNone
  <1>2. ASSUME NEW s \in SUBSET S, NEW x \in s, s \ {x} \in G
        PROVE  s \in G
    <2>1. IsFiniteSet(s) /\ \A y \in s : F[y] \in Nat /\ H[y] \in Nat /\ H[y] = F[y]
      BY FS_Subset
    <2>2. SumOf(F, s) = F[x] + SumOf(F, s \ {x}) /\ SumOf(H, s) = H[x] + SumOf(H, s \ {x})
      BY <2>1, SumRemove
    <2> QED BY <1>2, <2>1, <2>2
  <1>3. S \in G
    <2> HIDE DEF G
    <2> QED BY <1>1, <1>2, Induction
  <1> QED BY <1>3

\* Who never counts more does not add up to more, and to as much only if he
\* always counts as much.
LEMMA SumLess ==
    ASSUME NEW S, IsFiniteSet(S), NEW F, NEW H,
           \A x \in S : F[x] \in Nat /\ H[x] \in Nat /\ F[x] <= H[x]
    PROVE  /\ SumOf(F, S) <= SumOf(H, S)
           /\ SumOf(F, S) = SumOf(H, S) => \A x \in S : F[x] = H[x]
  <1> DEFINE Less(s) == /\ SumOf(F, s) <= SumOf(H, s)
                        /\ SumOf(F, s) = SumOf(H, s) => \A y \in s : F[y] = H[y]
             G == {s \in SUBSET S : Less(s)}
  <1>1. {} \in G
    BY SumOfNone
  <1>2. ASSUME NEW s \in SUBSET S, NEW x \in s, s \ {x} \in G
        PROVE  s \in G
    <2>1. /\ IsFiniteSet(s) /\ IsFiniteSet(s \ {x})
          /\ \A y \in s : F[y] \in Nat /\ H[y] \in Nat /\ F[y] <= H[y]
      BY FS_Subset
    <2>2. SumOf(F, s) = F[x] + SumOf(F, s \ {x}) /\ SumOf(H, s) = H[x] + SumOf(H, s \ {x})
      BY <2>1, SumRemove
    <2>3. SumOf(F, s \ {x}) \in Nat /\ SumOf(H, s \ {x}) \in Nat
      BY <2>1, SumRemove
    <2>4. SumOf(F, s) <= SumOf(H, s)
      BY <1>2, <2>1, <2>2, <2>3
    <2>5. ASSUME SumOf(F, s) = SumOf(H, s)
          PROVE  F[x] = H[x] /\ SumOf(F, s \ {x}) = SumOf(H, s \ {x})
      BY <1>2, <2>1, <2>2, <2>3, <2>5
    <2>6. ASSUME SumOf(F, s) = SumOf(H, s), NEW y \in s
          PROVE  F[y] = H[y]
      BY <1>2, <2>5, <2>6
    <2> QED BY <2>4, <2>6
  <1>3. S \in G
    <2> HIDE DEF G
    <2> QED BY <1>1, <1>2, Induction
  <1> QED BY <1>3

\* A set and the rest of it.
LEMMA SumSplit ==
    ASSUME NEW S, IsFiniteSet(S), NEW F, \A x \in S : F[x] \in Nat,
           NEW T \in SUBSET S
    PROVE  SumOf(F, S) = SumOf(F, T) + SumOf(F, S \ T)
  <1> DEFINE R == S \ T
             G == {s \in SUBSET T : SumOf(F, s \cup R) = SumOf(F, s) + SumOf(F, R)}
  <1>1. \A s \in SUBSET S : /\ IsFiniteSet(s) /\ SumOf(F, s) \in Nat
                            /\ \A x \in s : SumOf(F, s) = F[x] + SumOf(F, s \ {x})
    <2> TAKE s \in SUBSET S
    <2>1. IsFiniteSet(s) /\ \A x \in s : F[x] \in Nat
      BY FS_Subset
    <2> QED BY <2>1, SumRemove
  <1>2. {} \in G
    <2>1. SumOf(F, {}) = 0 /\ {} \cup R = R /\ SumOf(F, R) \in Nat
      BY <1>1, SumOfNone
    <2> QED BY <2>1
  <1>3. ASSUME NEW s \in SUBSET T, NEW x \in s, s \ {x} \in G
        PROVE  s \in G
    <2>1. (s \cup R) \ {x} = (s \ {x}) \cup R /\ x \in s \cup R
      OBVIOUS
    <2>2. s \in SUBSET S /\ s \ {x} \in SUBSET S /\ s \cup R \in SUBSET S /\ R \in SUBSET S
      OBVIOUS
    <2>3. SumOf(F, s \cup R) = F[x] + SumOf(F, (s \ {x}) \cup R)
      BY <1>1, <2>1, <2>2
    <2>4. SumOf(F, s) = F[x] + SumOf(F, s \ {x})
      BY <1>1, <2>2
    <2>5. SumOf(F, (s \ {x}) \cup R) = SumOf(F, s \ {x}) + SumOf(F, R)
      BY <1>3
    <2>6. F[x] \in Nat /\ SumOf(F, s \ {x}) \in Nat /\ SumOf(F, R) \in Nat
      BY <1>1, <2>2
    <2>7. SumOf(F, s \cup R) = SumOf(F, s) + SumOf(F, R)
      <3> HIDE DEF R
      <3> QED BY <2>3, <2>4, <2>5, <2>6
    <2> QED BY <2>7
  <1>4. IsFiniteSet(T)
    BY FS_Subset
  <1>5. T \in G
    <2> HIDE DEF G
    <2> QED BY <1>2, <1>3, <1>4, Induction
  <1>6. T \cup R = S
    OBVIOUS
  <1> QED BY <1>5, <1>6

\* Counting one for each is the cardinality.
LEMMA SumOfOnes ==
    ASSUME NEW S, IsFiniteSet(S), NEW F, \A x \in S : F[x] = 1
    PROVE  SumOf(F, S) = Cardinality(S)
  <1> DEFINE G == {s \in SUBSET S : SumOf(F, s) = Cardinality(s)}
  <1>1. {} \in G
    BY SumOfNone, FS_EmptySet
  <1>2. ASSUME NEW s \in SUBSET S, NEW x \in s, s \ {x} \in G
        PROVE  s \in G
    <2>1. IsFiniteSet(s) /\ \A y \in s : F[y] \in Nat
      BY FS_Subset
    <2>2. SumOf(F, s) = F[x] + SumOf(F, s \ {x}) /\ F[x] = 1
      BY <2>1, SumRemove
    <2>3. Cardinality(s) \in Nat /\ Cardinality(s \ {x}) = Cardinality(s) - 1
      BY <2>1, Smaller
    <2> QED BY <1>2, <2>2, <2>3
  <1>3. S \in G
    <2> HIDE DEF G
    <2> QED BY <1>1, <1>2, Induction
  <1> QED BY <1>3

\* Counting nothing for each is nothing.
LEMMA SumOfZeros ==
    ASSUME NEW S, IsFiniteSet(S), NEW F, \A x \in S : F[x] = 0
    PROVE  SumOf(F, S) = 0
  <1> DEFINE G == {s \in SUBSET S : SumOf(F, s) = 0}
  <1>1. {} \in G
    BY SumOfNone
  <1>2. ASSUME NEW s \in SUBSET S, NEW x \in s, s \ {x} \in G
        PROVE  s \in G
    <2>1. IsFiniteSet(s) /\ \A y \in s : F[y] \in Nat
      BY FS_Subset
    <2>2. SumOf(F, s) = F[x] + SumOf(F, s \ {x}) /\ F[x] = 0
      BY <2>1, SumRemove
    <2> QED BY <1>2, <2>2
  <1>3. S \in G
    <2> HIDE DEF G
    <2> QED BY <1>1, <1>2, Induction
  <1> QED BY <1>3

\* A sum is linear in what is counted.
LEMMA SumScaled ==
    ASSUME NEW S, IsFiniteSet(S), NEW F, NEW H, NEW c \in Nat,
           \A x \in S : F[x] \in Nat /\ H[x] = c * F[x]
    PROVE  SumOf(H, S) = c * SumOf(F, S)
  <1> DEFINE G == {s \in SUBSET S : SumOf(H, s) = c * SumOf(F, s)}
  <1>1. {} \in G
    BY SumOfNone
  <1>2. ASSUME NEW s \in SUBSET S, NEW x \in s, s \ {x} \in G
        PROVE  s \in G
    <2>1. IsFiniteSet(s) /\ IsFiniteSet(s \ {x}) /\ \A y \in s : F[y] \in Nat /\ H[y] \in Nat
      BY FS_Subset
    <2>2. SumOf(F, s) = F[x] + SumOf(F, s \ {x}) /\ SumOf(H, s) = H[x] + SumOf(H, s \ {x})
      BY <2>1, SumRemove
    <2>3. SumOf(F, s \ {x}) \in Nat /\ F[x] \in Nat /\ H[x] = c * F[x]
      BY <2>1, SumRemove
    <2>4. SumOf(H, s) = c * F[x] + c * SumOf(F, s \ {x})
      BY <1>2, <2>2, <2>3
    <2> HIDE DEF G
    <2>5. c * (F[x] + SumOf(F, s \ {x})) = c * F[x] + c * SumOf(F, s \ {x})
      BY <2>3
    <2> QED BY <2>2, <2>4, <2>5 DEF G
  <1>3. S \in G
    <2> HIDE DEF G
    <2> QED BY <1>1, <1>2, Induction
  <1> QED BY <1>3

\* Parts that share nothing, added up one by one, are the whole.
THEOREM SumOfParts ==
    ASSUME NEW K, IsFiniteSet(K), NEW S, IsFiniteSet(S),
           NEW P, \A k \in K : P[k] \in SUBSET S,
           \A j, k \in K : j # k => P[j] \cap P[k] = {},
           NEW F, \A x \in S : F[x] \in Nat,
           NEW H, \A k \in K : H[k] = SumOf(F, P[k])
    PROVE  SumOf(H, K) = SumOf(F, UNION {P[k] : k \in K})
  <1> DEFINE All(s) == UNION {P[k] : k \in s}
             G == {s \in SUBSET K : SumOf(H, s) = SumOf(F, All(s))}
  <1>1. \A T \in SUBSET S : IsFiniteSet(T) /\ SumOf(F, T) \in Nat
    <2> TAKE T \in SUBSET S
    <2>1. IsFiniteSet(T) /\ \A x \in T : F[x] \in Nat
      BY FS_Subset
    <2> QED BY <2>1, SumRemove
  <1>2. {} \in G
    <2>1. All({}) = {}
      OBVIOUS
    <2> HIDE DEF All
    <2> QED BY <2>1, SumOfNone
  <1>3. ASSUME NEW s \in SUBSET K, NEW k \in s, s \ {k} \in G
        PROVE  s \in G
    <2>1. IsFiniteSet(s) /\ \A j \in s : H[j] \in Nat
      BY <1>1, FS_Subset
    <2>2. SumOf(H, s) = H[k] + SumOf(H, s \ {k})
      BY <2>1, SumRemove
    <2>3. All(s) \in SUBSET S /\ P[k] \in SUBSET All(s)
      OBVIOUS
    <2>4. All(s) \ P[k] = All(s \ {k})
      OBVIOUS
    <2> HIDE DEF All
    <2>5. SumOf(F, All(s)) = SumOf(F, P[k]) + SumOf(F, All(s \ {k}))
      <3>1. IsFiniteSet(All(s)) /\ \A x \in All(s) : F[x] \in Nat
        BY <1>1, <2>3
      <3>2. SumOf(F, All(s)) = SumOf(F, P[k]) + SumOf(F, All(s) \ P[k])
        BY <2>3, <3>1, SumSplit
      <3> QED BY <2>4, <3>2
    <2> QED BY <1>3, <2>2, <2>5 DEF All
  <1>4. K \in G
    <2> HIDE DEF G
    <2> QED BY <1>2, <1>3, Induction
  <1> QED BY <1>4

\* Parts that share nothing, counted one by one, are the whole.
LEMMA CountOfParts ==
    ASSUME NEW K, IsFiniteSet(K), NEW S, IsFiniteSet(S),
           NEW P, \A k \in K : P[k] \in SUBSET S,
           \A j, k \in K : j # k => P[j] \cap P[k] = {},
           NEW H, \A k \in K : H[k] = Cardinality(P[k])
    PROVE  SumOf(H, K) = Cardinality(UNION {P[k] : k \in K})
  <1> DEFINE One == [x \in S |-> 1]
             All == UNION {P[k] : k \in K}
  <1>1. \A x \in S : One[x] = 1 /\ One[x] \in Nat
    OBVIOUS
  <1> HIDE DEF One
  <1>2. ASSUME NEW T \in SUBSET S
        PROVE  SumOf(One, T) = Cardinality(T)
    <2>1. IsFiniteSet(T) /\ \A x \in T : One[x] = 1
      BY <1>1, FS_Subset
    <2> QED BY <2>1, SumOfOnes
  <1>3. \A k \in K : H[k] = SumOf(One, P[k])
    BY <1>2
  <1>4. SumOf(H, K) = SumOf(One, All)
    BY <1>1, <1>3, SumOfParts
  <1>5. All \in SUBSET S
    OBVIOUS
  <1> HIDE DEF All
  <1>6. SumOf(H, K) = Cardinality(All)
    BY <1>2, <1>4, <1>5
  <1> QED BY <1>6 DEF All

\* The sum of a function's values, as the community modules compute it.
LEMMA FunctionSum ==
    ASSUME NEW F, NEW S, IsFiniteSet(S)
    PROVE  SumFunctionOnSet(F, S) = SumOf(F, S)
  <1> DEFINE Body(I) == [s \in SUBSET S |-> IF s = {} THEN 0
                            ELSE F[Chosen(s)] + I[s \ {Chosen(s)}]]
             C == CHOOSE I : I = Body(I)
  <1>1. SumFunctionOnSet(F, S) = C[S]
    BY DEF SumFunctionOnSet, FoldFunctionOnSet, MapThenFoldSet, Chosen
  <1>2. ASSUME NEW I
        PROVE  Body(I) = [s \in SUBSET S |-> Added(F, I, s)]
    BY DEF Added
  <1>3. PICK I : AddsUp(F, S, I)
    BY SumExists
  <1> HIDE DEF Body
  <1>4. I = Body(I)
    BY <1>2, <1>3 DEF AddsUp
  <1>5. C = Body(C)
    BY <1>4, Zenon
  <1> HIDE DEF C
  <1>6. AddsUp(F, S, C)
    BY <1>2, <1>5 DEF AddsUp
  <1> QED BY <1>1, <1>6, SumIs

LEMMA WholeFunctionSum ==
    ASSUME NEW F, NEW S, IsFiniteSet(S), DOMAIN F = S
    PROVE  SumFunction(F) = SumOf(F, S)
  BY FunctionSum DEF SumFunction

---------------------------------------------------------------------------
(***************************************************************************)
(* A fold whose steps stand in a function: Step[<<x, v>>] is what becomes  *)
(* of v at x, and Pick[s] is the element of s the fold comes to last.      *)
(***************************************************************************)
Folded(Step, base, Pick, I, s) ==
    IF s = {} THEN base ELSE Step[<<Pick[s], I[s \ {Pick[s]}]>>]

Folds(Step, base, Pick, S, I) == I = [s \in SUBSET S |-> Folded(Step, base, Pick, I, s)]

LEMMA FoldExists ==
    ASSUME NEW S, IsFiniteSet(S), NEW Step, NEW base, NEW Pick,
           \A s \in SUBSET S : s # {} => Pick[s] \in s
    PROVE  \E I : Folds(Step, base, Pick, S, I)
  <1> DEFINE Upto(n, I) == \A s \in SUBSET S :
                 Cardinality(s) <= n => I[s] = Folded(Step, base, Pick, I, s)
             B == {n \in Nat : ~ \E I : Upto(n, I)}
  <1>1. \A s \in SUBSET S : IsFiniteSet(s) /\ Cardinality(s) \in Nat
    BY FS_Subset, FS_CardinalityType
  <1>2. B = {}
    <2> SUFFICES ASSUME B # {} PROVE FALSE
      OBVIOUS
    <2>1. PICK m \in B : \A k \in B : m <= k
      BY LeastOf
    <2>2. CASE m = 0
      <3>1. \A s \in SUBSET S : Cardinality(s) <= 0 => s = {}
        BY <1>1, FS_EmptySet
      <3>2. Upto(0, [s \in SUBSET S |-> base])
        BY <3>1 DEF Folded
      <3> QED BY <2>1, <2>2, <3>2
    <2>3. CASE m # 0
      <3>1. m - 1 \in Nat /\ m - 1 \notin B
        BY <2>1, <2>3
      <3>2. PICK J : Upto(m - 1, J)
        BY <3>1
      <3> DEFINE I == [s \in SUBSET S |-> Folded(Step, base, Pick, J, s)]
      <3>3. ASSUME NEW s \in SUBSET S, Cardinality(s) <= m
            PROVE  I[s] = Folded(Step, base, Pick, I, s)
        <4>1. CASE s = {}
          BY <4>1 DEF Folded
        <4>2. CASE s # {}
          <5>1. Pick[s] \in s /\ s \ {Pick[s]} \in SUBSET S
            BY <4>2
          <5>2. Cardinality(s \ {Pick[s]}) = Cardinality(s) - 1
            BY <1>1, <5>1, Smaller
          <5>3. Cardinality(s \ {Pick[s]}) <= m - 1
            BY <1>1, <3>3, <5>1, <5>2, <2>1
          <5>4. J[s \ {Pick[s]}] = I[s \ {Pick[s]}]
            BY <3>2, <5>1, <5>3
          <5> QED BY <4>2, <5>4 DEF Folded
        <4> QED BY <4>1, <4>2
      <3>4. Upto(m, I)
        BY <3>3
      <3> QED BY <2>1, <3>4
    <2> QED BY <2>2, <2>3
  <1>3. PICK J : Upto(Cardinality(S), J)
    BY <1>1, <1>2
  <1>4. \A s \in SUBSET S : J[s] = Folded(Step, base, Pick, J, s)
    BY <1>1, <1>3, FS_Subset
  <1> DEFINE I == [s \in SUBSET S |-> J[s]]
  <1>5. ASSUME NEW s \in SUBSET S
        PROVE  I[s] = Folded(Step, base, Pick, I, s)
    <2>1. s # {} => s \ {Pick[s]} \in SUBSET S
      OBVIOUS
    <2> QED BY <1>4, <2>1 DEF Folded
  <1>6. I = [s \in SUBSET S |-> Folded(Step, base, Pick, I, s)]
    BY <1>5
  <1> QED BY <1>6 DEF Folds
=============================================================================
