----------------------------- MODULE ViewsProofs -----------------------------
(***************************************************************************)
(* What the screens and the reports may say, for every answer of the       *)
(* cluster to their lists, and the change trail for every history of a     *)
(* deployment.                                                             *)
(***************************************************************************)
EXTENDS Views, Sums

(***************************************************************************)
(* The health score.                                                       *)
(***************************************************************************)
LEMMA RoundOrdered ==
    ASSUME NEW a \in Nat, NEW b \in Nat, NEW c \in Nat \ {0}, a <= b
    PROVE  /\ Round(a, c) \in Nat /\ Round(a, c) <= Round(b, c)
           /\ b <= 100 * c => Round(b, c) <= 100
  <1>1. Round(a, c) \in Nat /\ Round(a, c) <= Round(b, c)
    BY DEF Round
  <1>2. (201 * c) \div (2 * c) = 100
    OBVIOUS
  <1>3. ASSUME b <= 100 * c
        PROVE  Round(b, c) <= 100
    <2>1. 2 * b + c \in Nat /\ 201 * c \in Nat /\ 2 * c \in Nat \ {0} /\ 2 * b + c <= 201 * c
      BY <1>3
    <2>2. \A m, n \in Nat, d \in Nat \ {0} : m <= n => m \div d <= n \div d
      OBVIOUS
    <2> QED BY <1>2, <2>1, <2>2 DEF Round
  <1> QED BY <1>1, <1>3

\* A signal is drawn from something, and counts for something.
SignalFormed(s) == s.of \in Int /\ s.out \in Nat \ {0} /\ s.weight \in Nat \ {0}

LEMMA SignalScored ==
    ASSUME NEW s, SignalFormed(s)
    PROVE  SignalScore(s) \in 0 .. 100
  <1> DEFINE of == IF s.of < 0 THEN 0 ELSE IF s.of > s.out THEN s.out ELSE s.of
  <1>1. s.out \in Nat \ {0} /\ of \in Nat /\ of <= s.out
    BY DEF SignalFormed
  <1>2. SignalScore(s) = Round(100 * of, s.out)
    BY DEF SignalScore
  <1> HIDE DEF of
  <1>3. 100 * of \in Nat /\ 100 * of <= 100 * s.out
    BY <1>1
  <1>4. Round(100 * of, s.out) \in Nat /\ Round(100 * of, s.out) <= 100
    BY <1>1, <1>3, RoundOrdered
  <1> QED BY <1>2, <1>4

LEMMA SignalsOrdered ==
    ASSUME NEW s, NEW t, SignalFormed(s), SignalFormed(t), s.out = t.out, t.of <= s.of
    PROVE  SignalScore(t) <= SignalScore(s)
  <1> DEFINE Of(x) == IF x.of < 0 THEN 0 ELSE IF x.of > x.out THEN x.out ELSE x.of
  <1>1. /\ s.out \in Nat \ {0} /\ Of(s) \in Nat /\ Of(t) \in Nat
        /\ Of(t) <= Of(s)
    BY DEF SignalFormed
  <1>2. SignalScore(s) = Round(100 * Of(s), s.out) /\ SignalScore(t) = Round(100 * Of(t), s.out)
    BY DEF SignalScore
  <1> HIDE DEF Of
  <1>3. 100 * Of(s) \in Nat /\ 100 * Of(t) \in Nat /\ 100 * Of(t) <= 100 * Of(s)
    BY <1>1
  <1> QED BY <1>1, <1>2, <1>3, RoundOrdered

\* What the signals of a set count together, and what they would at their best.
Points(S) == [s \in S |-> SignalScore(s) * s.weight]
Weights(S) == [s \in S |-> s.weight]

LEMMA PointsSum ==
    ASSUME NEW S, IsFiniteSet(S)
    PROVE  MapThenSumSet(LAMBDA s : SignalScore(s) * s.weight, S) = SumOf(Points(S), S)
  <1> DEFINE Body(I) == [s \in SUBSET S |-> IF s = {} THEN 0
                            ELSE SignalScore(Chosen(s)) * Chosen(s).weight
                                     + I[s \ {Chosen(s)}]]
             C == CHOOSE I : I = Body(I)
  <1>1. ASSUME NEW I
        PROVE  Body(I) = [s \in SUBSET S |-> Added(Points(S), I, s)]
    BY ChosenIsIn DEF Added, Points
  <1>2. MapThenSumSet(LAMBDA s : SignalScore(s) * s.weight, S) = C[S]
    BY DEF MapThenSumSet, MapThenFoldSet, Chosen
  <1>3. PICK I : AddsUp(Points(S), S, I)
    BY SumExists
  <1> HIDE DEF Body
  <1>4. I = Body(I)
    BY <1>1, <1>3 DEF AddsUp
  <1>5. C = Body(C)
    BY <1>4, Zenon
  <1> HIDE DEF C
  <1>6. AddsUp(Points(S), S, C)
    BY <1>1, <1>5 DEF AddsUp
  <1> QED BY <1>2, <1>6, SumIs

LEMMA WeightsSum ==
    ASSUME NEW S, IsFiniteSet(S)
    PROVE  MapThenSumSet(LAMBDA s : s.weight, S) = SumOf(Weights(S), S)
  <1> DEFINE Body(I) == [s \in SUBSET S |-> IF s = {} THEN 0
                            ELSE Chosen(s).weight + I[s \ {Chosen(s)}]]
             C == CHOOSE I : I = Body(I)
  <1>1. ASSUME NEW I
        PROVE  Body(I) = [s \in SUBSET S |-> Added(Weights(S), I, s)]
    BY ChosenIsIn DEF Added, Weights
  <1>2. MapThenSumSet(LAMBDA s : s.weight, S) = C[S]
    BY DEF MapThenSumSet, MapThenFoldSet, Chosen
  <1>3. PICK I : AddsUp(Weights(S), S, I)
    BY SumExists
  <1> HIDE DEF Body
  <1>4. I = Body(I)
    BY <1>1, <1>3 DEF AddsUp
  <1>5. C = Body(C)
    BY <1>4, Zenon
  <1> HIDE DEF C
  <1>6. AddsUp(Weights(S), S, C)
    BY <1>1, <1>5 DEF AddsUp
  <1> QED BY <1>2, <1>6, SumIs

\* The score of some signals, each of them there once.
SignalsFormed(S) == IsFiniteSet(S) /\ NamedOnce(S) /\ \A s \in S : SignalFormed(s)

ScoreOf(S) == IF S = {} THEN 0 ELSE Round(SumOf(Points(S), S), SumOf(Weights(S), S))

LEMMA ScoreIs ==
    ASSUME IsFiniteSet(Signals)
    PROVE  Score = ScoreOf(Signals)
  BY PointsSum, WeightsSum DEF Score, ScoreOf

\* By their names, whatever is counted for them.
LEMMA CountedByName ==
    ASSUME NEW S, IsFiniteSet(S), NamedOnce(S), NEW F, \A s \in S : F[s] \in Nat,
           NEW H, \A s \in S : H[s.name] = F[s]
    PROVE  SumOf(H, Names(S)) = SumOf(F, S) /\ IsFiniteSet(Names(S))
  <1> DEFINE N == Names(S)
             P == [n \in N |-> {s \in S : s.name = n}]
             G == [s \in S |-> s.name]
  <1>1. IsFiniteSet(N)
    <2>1. \A n \in N : \E s \in S : n = G[s]
      BY DEF Names
    <2> HIDE DEF N, G
    <2> QED BY <2>1, ImageIsFinite
  <1>2. \A n \in N : P[n] \in SUBSET S
    OBVIOUS
  <1>3. \A m, n \in N : m # n => P[m] \cap P[n] = {}
    OBVIOUS
  <1>4. UNION {P[n] : n \in N} = S
    <2>1. \A s \in S : s.name \in N /\ s \in P[s.name]
      BY DEF Names
    <2> HIDE DEF P, N
    <2> QED BY <1>2, <2>1
  <1>5. ASSUME NEW n \in N
        PROVE  H[n] = SumOf(F, P[n])
    <2>1. PICK s \in S : s.name = n
      BY DEF Names
    <2>2. P[n] = {s}
      BY <2>1 DEF NamedOnce
    <2>3. IsFiniteSet({s}) /\ {s} \ {s} = {} /\ F[s] \in Nat
      BY FS_Singleton
    <2>4. SumOf(F, {s}) = F[s] + SumOf(F, {s} \ {s})
      BY <2>3, SumRemove
    <2>5. SumOf(F, {s}) = F[s]
      BY <2>3, <2>4, SumOfNone
    <2> QED BY <2>1, <2>2, <2>5
  <1> HIDE DEF N, P, G
  <1>6. SumOf(H, N) = SumOf(F, UNION {P[n] : n \in N})
    BY <1>1, <1>2, <1>3, <1>5, SumOfParts
  <1> QED BY <1>1, <1>4, <1>6, Zenon DEF N

\* Signals are at most as good as others of the same names.
Lower(T, S) ==
    /\ \A t \in T : \E s \in S : /\ s.name = t.name /\ s.weight = t.weight
                                 /\ SignalScore(t) <= SignalScore(s)
    /\ Names(S) \subseteq Names(T)

LEMMA ProductsOrdered ==
    ASSUME NEW a \in Nat, NEW b \in Nat, NEW c \in Nat, a <= b
    PROVE  a * c \in Nat /\ b * c \in Nat /\ a * c <= b * c
  OBVIOUS

LEMMA PointsTyped ==
    ASSUME NEW S, SignalsFormed(S)
    PROVE  /\ \A s \in S : /\ Points(S)[s] \in Nat /\ Weights(S)[s] \in Nat \ {0}
                           /\ Points(S)[s] <= 100 * Weights(S)[s]
                           /\ Points(S)[s] = SignalScore(s) * s.weight
                           /\ Weights(S)[s] = s.weight
           /\ SumOf(Points(S), S) \in Nat /\ SumOf(Weights(S), S) \in Nat
           /\ SumOf(Points(S), S) <= 100 * SumOf(Weights(S), S)
           /\ S # {} => SumOf(Weights(S), S) # 0
  <1>1. IsFiniteSet(S)
    BY DEF SignalsFormed
  <1>2. ASSUME NEW s \in S
        PROVE  /\ Points(S)[s] \in Nat /\ Weights(S)[s] \in Nat \ {0}
               /\ Points(S)[s] <= 100 * Weights(S)[s]
               /\ Points(S)[s] = SignalScore(s) * s.weight
               /\ Weights(S)[s] = s.weight
    <2>1. s.weight \in Nat \ {0} /\ SignalScore(s) \in 0 .. 100
      BY SignalScored DEF SignalsFormed, SignalFormed
    <2>2. SignalScore(s) * s.weight \in Nat /\ SignalScore(s) * s.weight <= 100 * s.weight
      BY <2>1, ProductsOrdered
    <2> QED BY <2>1, <2>2 DEF Points, Weights
  <1>3. SumOf(Points(S), S) \in Nat /\ SumOf(Weights(S), S) \in Nat
    BY <1>1, <1>2, SumRemove
  <1>4. SumOf(Points(S), S) <= 100 * SumOf(Weights(S), S)
    <2> DEFINE H == [s \in S |-> 100 * Weights(S)[s]]
    <2>1. \A s \in S : H[s] = 100 * Weights(S)[s] /\ H[s] \in Nat /\ Weights(S)[s] \in Nat
                       /\ Points(S)[s] \in Nat /\ Points(S)[s] <= H[s]
      BY <1>2
    <2> HIDE DEF H
    <2>2. SumOf(H, S) = 100 * SumOf(Weights(S), S)
      BY <1>1, <2>1, SumScaled
    <2>3. SumOf(Points(S), S) <= SumOf(H, S)
      BY <1>1, <2>1, SumLess
    <2> QED BY <2>2, <2>3
  <1>5. ASSUME NEW s \in S
        PROVE  SumOf(Weights(S), S) # 0
    <2>1. /\ SumOf(Weights(S), S) = Weights(S)[s] + SumOf(Weights(S), S \ {s})
          /\ Weights(S)[s] \in Nat \ {0}
      BY <1>1, <1>2, SumRemove
    <2>2. IsFiniteSet(S \ {s}) /\ \A x \in S \ {s} : Weights(S)[x] \in Nat
      BY <1>1, <1>2, FS_Subset
    <2>3. SumOf(Weights(S), S \ {s}) \in Nat
      BY <2>2, SumRemove
    <2> QED BY <2>1, <2>3
  <1> QED BY <1>2, <1>3, <1>4, <1>5

LEMMA ScoreTyped ==
    ASSUME NEW S, SignalsFormed(S)
    PROVE  ScoreOf(S) \in 0 .. 100
  <1>1. CASE S = {}
    BY <1>1 DEF ScoreOf
  <1>2. CASE S # {}
    <2> DEFINE a == SumOf(Points(S), S)
               c == SumOf(Weights(S), S)
    <2>1. a \in Nat /\ c \in Nat \ {0} /\ a <= 100 * c
      BY <1>2, PointsTyped
    <2> HIDE DEF a, c
    <2>2. Round(a, c) \in Nat /\ Round(a, c) <= 100
      BY <2>1, RoundOrdered
    <2> QED BY <1>2, <2>2 DEF ScoreOf, a, c
  <1> QED BY <1>1, <1>2

\* Signals that are lower make a score that is no higher.
LEMMA LowerScores ==
    ASSUME NEW S, NEW T, SignalsFormed(S), SignalsFormed(T), Lower(T, S)
    PROVE  ScoreOf(T) <= ScoreOf(S)
  <1> DEFINE N == Names(S)
             Of(R, n) == CHOOSE r \in R : r.name = n
             PointsOf(R) == [n \in N |-> Points(R)[Of(R, n)]]
             WeightsOf(R) == [n \in N |-> Weights(R)[Of(R, n)]]
  <1>1. Names(T) = N
    BY DEF Lower, Names
  <1>2. ASSUME NEW n \in N
        PROVE  /\ Of(S, n) \in S /\ Of(S, n).name = n /\ Of(T, n) \in T /\ Of(T, n).name = n
    BY <1>1 DEF Names
  <1>3. ASSUME NEW R, R = S \/ R = T
        PROVE  /\ SumOf(PointsOf(R), N) = SumOf(Points(R), R)
               /\ SumOf(WeightsOf(R), N) = SumOf(Weights(R), R)
               /\ IsFiniteSet(N)
    <2>1. /\ IsFiniteSet(R) /\ NamedOnce(R) /\ Names(R) = N
          /\ \A r \in R : Points(R)[r] \in Nat /\ Weights(R)[r] \in Nat
      BY <1>1, <1>3, PointsTyped DEF SignalsFormed
    <2>2. \A r \in R : r.name \in N /\ Of(R, r.name) = r
      <3> TAKE r \in R
      <3>1. r.name \in N
        BY <2>1 DEF Names
      <3>2. Of(R, r.name) \in R /\ Of(R, r.name).name = r.name
        BY <1>2, <1>3, <3>1
      <3> HIDE DEF Of
      <3> QED BY <2>1, <3>1, <3>2 DEF NamedOnce
    <2>3. \A r \in R : PointsOf(R)[r.name] = Points(R)[r]
      BY <2>2
    <2>4. \A r \in R : WeightsOf(R)[r.name] = Weights(R)[r]
      BY <2>2
    <2> HIDE DEF N, Of, PointsOf, WeightsOf
    <2>5. SumOf(PointsOf(R), Names(R)) = SumOf(Points(R), R) /\ IsFiniteSet(Names(R))
      BY <2>1, <2>3, CountedByName
    <2>6. SumOf(WeightsOf(R), Names(R)) = SumOf(Weights(R), R)
      BY <2>1, <2>4, CountedByName
    <2> QED BY <2>1, <2>5, <2>6
  <1>4. ASSUME NEW n \in N
        PROVE  /\ PointsOf(S)[n] \in Nat /\ PointsOf(T)[n] \in Nat
               /\ PointsOf(T)[n] <= PointsOf(S)[n]
               /\ WeightsOf(S)[n] \in Nat /\ WeightsOf(T)[n] = WeightsOf(S)[n]
    <2> DEFINE s == Of(S, n)
               t == Of(T, n)
    <2>1. s \in S /\ t \in T /\ s.name = n /\ t.name = n
      BY <1>2
    <2>2. /\ PointsOf(S)[n] = Points(S)[s] /\ PointsOf(T)[n] = Points(T)[t]
          /\ WeightsOf(S)[n] = Weights(S)[s] /\ WeightsOf(T)[n] = Weights(T)[t]
      OBVIOUS
    <2> HIDE DEF s, t, Of, PointsOf, WeightsOf
    <2>3. s.weight = t.weight /\ SignalScore(t) <= SignalScore(s)
      <3>1. PICK r \in S : r.name = t.name /\ r.weight = t.weight
                           /\ SignalScore(t) <= SignalScore(r)
        BY <2>1 DEF Lower
      <3>2. r = s
        BY <2>1, <3>1 DEF SignalsFormed, NamedOnce
      <3> QED BY <3>1, <3>2
    <2>4. /\ Points(S)[s] \in Nat /\ Points(S)[s] = SignalScore(s) * s.weight
          /\ Points(T)[t] \in Nat /\ Points(T)[t] = SignalScore(t) * t.weight
          /\ Weights(S)[s] = s.weight /\ Weights(T)[t] = t.weight /\ s.weight \in Nat
      BY <2>1, PointsTyped
    <2>5. SignalScore(s) \in Nat /\ SignalScore(t) \in Nat
      BY <2>1, SignalScored DEF SignalsFormed
    <2>6. SignalScore(t) * s.weight <= SignalScore(s) * s.weight
      BY <2>3, <2>4, <2>5, ProductsOrdered
    <2> QED BY <2>2, <2>3, <2>4, <2>6
  <1> HIDE DEF Of, PointsOf, WeightsOf
  <1>5. /\ SumOf(PointsOf(T), N) <= SumOf(PointsOf(S), N)
        /\ SumOf(WeightsOf(T), N) = SumOf(WeightsOf(S), N)
    <2> HIDE DEF N
    <2>1. IsFiniteSet(N)
      BY <1>3
    <2>2. SumOf(PointsOf(T), N) <= SumOf(PointsOf(S), N)
      BY <1>4, <2>1, SumLess
    <2>3. SumOf(WeightsOf(T), N) = SumOf(WeightsOf(S), N)
      BY <1>4, <2>1, SumAgrees
    <2> QED BY <2>2, <2>3
  <1>6. S = {} <=> T = {}
    BY <1>1 DEF Names
  <1> DEFINE a == SumOf(Points(T), T)
             b == SumOf(Points(S), S)
             c == SumOf(Weights(S), S)
  <1>7. a <= b /\ SumOf(Weights(T), T) = c
    BY <1>3, <1>5
  <1>8. a \in Nat /\ b \in Nat /\ c \in Nat /\ (S # {} => c # 0)
    BY PointsTyped
  <1>9. CASE S # {}
    <2>1. ScoreOf(S) = Round(b, c) /\ ScoreOf(T) = Round(a, c)
      BY <1>6, <1>7, <1>9 DEF ScoreOf
    <2> HIDE DEF a, b, c
    <2> QED BY <1>7, <1>8, <1>9, <2>1, RoundOrdered
  <1>10. CASE S = {}
    BY <1>6, <1>10 DEF ScoreOf
  <1> QED BY <1>9, <1>10

---------------------------------------------------------------------------
(***************************************************************************)
(* The signals of each kind, by the counts they are made of.               *)
(***************************************************************************)
\* Of all nodes: those ready, those without a condition, those aligned.
OfNodes(ready, well, aligned, all, known) ==
    IF all = 0 THEN {}
    ELSE {Signal("Node readiness", ready, all, 25), Signal("Node conditions", well, all, 10)}
         \cup IF known THEN {Signal("Version alignment", aligned, all, 5)} ELSE {}

\* Of the pods to be scheduled: those ready; and the critical ones.
OfPods(ready, critical, all, any) ==
    IF any THEN {Signal("Pod readiness", ready, all, 25),
                 Signal("Container stability", all - 4 * critical, all, 15)}
    ELSE {}

OfWorkloads(well, all) ==
    IF all = 0 THEN {} ELSE {Signal("Workload availability", well, all, 5)}

LEMMA Twice ==
    ASSUME NEW a, NEW b
    PROVE  IsFiniteSet({a, b}) /\ IsFiniteSet({a}) /\ IsFiniteSet({})
  <1>1. IsFiniteSet({}) /\ IsFiniteSet({a})
    BY FS_EmptySet, FS_Singleton
  <1>2. IsFiniteSet({a} \cup {b})
    BY <1>1, FS_AddElement
  <1>3. {a} \cup {b} = {a, b}
    OBVIOUS
  <1> QED BY <1>1, <1>2, <1>3, Zenon

LEMMA OfNodesFormed ==
    ASSUME NEW r \in Nat, NEW w \in Nat, NEW a \in Nat, NEW all \in Nat, NEW known \in BOOLEAN
    PROVE  /\ SignalsFormed(OfNodes(r, w, a, all, known))
           /\ Names(OfNodes(r, w, a, all, known)) \subseteq
                 {"Node readiness", "Node conditions", "Version alignment"}
  <1> DEFINE S == OfNodes(r, w, a, all, known)
             x == Signal("Node readiness", r, all, 25)
             y == Signal("Node conditions", w, all, 10)
             z == Signal("Version alignment", a, all, 5)
  <1>1. S = {} \/ (all \in Nat \ {0} /\ (S = {x, y} \/ S = {x, y} \cup {z}))
    BY DEF OfNodes
  <1>2. IsFiniteSet(S)
    <2>1. IsFiniteSet({x, y}) /\ IsFiniteSet({})
      BY Twice
    <2>2. IsFiniteSet({x, y} \cup {z})
      BY <2>1, FS_AddElement
    <2> HIDE DEF x, y, z, S
    <2> QED BY <1>1, <2>1, <2>2
  <1>3. /\ x.name = "Node readiness" /\ y.name = "Node conditions" /\ z.name = "Version alignment"
        /\ all # 0 => SignalFormed(x) /\ SignalFormed(y) /\ SignalFormed(z)
    BY DEF Signal, SignalFormed
  <1> HIDE DEF x, y, z, S
  <1>4. /\ NamedOnce(S) /\ (\A s \in S : SignalFormed(s))
        /\ Names(S) \subseteq {"Node readiness", "Node conditions", "Version alignment"}
    BY <1>1, <1>3 DEF NamedOnce, Names
  <1> QED BY <1>2, <1>4 DEF SignalsFormed, S

LEMMA OfPodsFormed ==
    ASSUME NEW r \in Nat, NEW c \in Nat, NEW all \in Nat \ {0}, NEW any \in BOOLEAN
    PROVE  /\ SignalsFormed(OfPods(r, c, all, any))
           /\ Names(OfPods(r, c, all, any)) \subseteq {"Pod readiness", "Container stability"}
  <1> DEFINE S == OfPods(r, c, all, any)
             x == Signal("Pod readiness", r, all, 25)
             y == Signal("Container stability", all - 4 * c, all, 15)
  <1>1. S = {} \/ S = {x, y}
    BY DEF OfPods
  <1>2. IsFiniteSet(S)
    BY <1>1, Twice
  <1>3. /\ x.name = "Pod readiness" /\ y.name = "Container stability"
        /\ SignalFormed(x) /\ SignalFormed(y)
    BY DEF Signal, SignalFormed
  <1> HIDE DEF x, y, S
  <1>4. /\ NamedOnce(S) /\ (\A s \in S : SignalFormed(s))
        /\ Names(S) \subseteq {"Pod readiness", "Container stability"}
    BY <1>1, <1>3 DEF NamedOnce, Names
  <1> QED BY <1>2, <1>4 DEF SignalsFormed, S

LEMMA OneFormed ==
    ASSUME NEW S, NEW s, S = {} \/ (S = {s} /\ SignalFormed(s))
    PROVE  SignalsFormed(S) /\ Names(S) \subseteq {s.name}
  BY Twice DEF SignalsFormed, NamedOnce, Names

\* Less that is well, and more that is critical, make lower signals.
LowerOne(t, s) ==
    t.name = s.name /\ t.weight = s.weight /\ SignalScore(t) <= SignalScore(s)

LEMMA LowerPair ==
    ASSUME NEW name, NEW r \in Int, NEW q \in Int, q <= r, NEW all \in Nat \ {0},
           NEW weight \in Nat \ {0},
           NEW x, x = Signal(name, q, all, weight), NEW y, y = Signal(name, r, all, weight)
    PROVE  x.name = name /\ y.name = name /\ LowerOne(x, y)
  <1>1. /\ SignalFormed(x) /\ SignalFormed(y) /\ x.out = y.out /\ x.of <= y.of
        /\ x.name = name /\ y.name = name /\ x.weight = y.weight
    BY DEF SignalFormed, Signal
  <1>2. SignalScore(x) <= SignalScore(y)
    BY <1>1, SignalsOrdered
  <1> QED BY <1>1, <1>2 DEF LowerOne

LEMMA LowerEach ==
    ASSUME NEW r \in Int, NEW q \in Int, q <= r, NEW all \in Nat \ {0}
    PROVE  /\ LowerOne(Signal("Node readiness", q, all, 25),
                       Signal("Node readiness", r, all, 25))
           /\ LowerOne(Signal("Node conditions", q, all, 10),
                       Signal("Node conditions", r, all, 10))
           /\ LowerOne(Signal("Version alignment", q, all, 5),
                       Signal("Version alignment", r, all, 5))
           /\ LowerOne(Signal("Pod readiness", q, all, 25),
                       Signal("Pod readiness", r, all, 25))
           /\ LowerOne(Signal("Container stability", q, all, 15),
                       Signal("Container stability", r, all, 15))
           /\ LowerOne(Signal("Workload availability", q, all, 5),
                       Signal("Workload availability", r, all, 5))
  <1> DEFINE n1 == "Node readiness"
             n2 == "Node conditions"
             n3 == "Version alignment"
             n4 == "Pod readiness"
             n5 == "Container stability"
             n6 == "Workload availability"
             w5 == 5
             w10 == 10
             w15 == 15
             w25 == 25
  <1>1. w5 \in Nat \ {0} /\ w10 \in Nat \ {0} /\ w15 \in Nat \ {0} /\ w25 \in Nat \ {0}
    OBVIOUS
  <1> HIDE DEF n1, n2, n3, n4, n5, n6, w5, w10, w15, w25
  <1>2. LowerOne(Signal(n1, q, all, w25), Signal(n1, r, all, w25))
    BY <1>1, LowerPair
  <1>3. LowerOne(Signal(n2, q, all, w10), Signal(n2, r, all, w10))
    BY <1>1, LowerPair
  <1>4. LowerOne(Signal(n3, q, all, w5), Signal(n3, r, all, w5))
    BY <1>1, LowerPair
  <1>5. LowerOne(Signal(n4, q, all, w25), Signal(n4, r, all, w25))
    BY <1>1, LowerPair
  <1>6. LowerOne(Signal(n5, q, all, w15), Signal(n5, r, all, w15))
    BY <1>1, LowerPair
  <1>7. LowerOne(Signal(n6, q, all, w5), Signal(n6, r, all, w5))
    BY <1>1, LowerPair
  <1> QED BY <1>2, <1>3, <1>4, <1>5, <1>6, <1>7
          DEF n1, n2, n3, n4, n5, n6, w5, w10, w15, w25

LEMMA OfNodesLower ==
    ASSUME NEW r \in Nat, NEW w \in Nat, NEW a \in Nat, NEW all \in Nat, NEW known \in BOOLEAN,
           NEW q \in Nat, NEW v \in Nat, q <= r, v <= w
    PROVE  Lower(OfNodes(q, v, a, all, known), OfNodes(r, w, a, all, known))
  <1> DEFINE Ready(n) == Signal("Node readiness", n, all, 25)
             Well(n) == Signal("Node conditions", n, all, 10)
             z == Signal("Version alignment", a, all, 5)
  <1>1. CASE all = 0
    BY <1>1 DEF OfNodes, Lower, Names
  <1>2. CASE all # 0
    <2>0. all \in Nat \ {0} /\ {q, r, v, w, a} \subseteq Int /\ a <= a
      BY <1>2
    <2>1. LowerOne(Ready(q), Ready(r)) /\ LowerOne(Well(v), Well(w))
      BY <2>0, LowerEach
    <2>2. LowerOne(z, z)
      BY <2>0, LowerEach
    <2>3. /\ OfNodes(q, v, a, all, known) = {Ready(q), Well(v)} \cup IF known THEN {z} ELSE {}
          /\ OfNodes(r, w, a, all, known) = {Ready(r), Well(w)} \cup IF known THEN {z} ELSE {}
      BY <1>2 DEF OfNodes
    <2> HIDE DEF Ready, Well, z
    <2> QED BY <2>1, <2>2, <2>3 DEF Lower, LowerOne, Names
  <1> QED BY <1>1, <1>2

LEMMA OfPodsLower ==
    ASSUME NEW r \in Nat, NEW c \in Nat, NEW all \in Nat \ {0}, NEW any \in BOOLEAN,
           NEW q \in Nat, NEW d \in Nat, q <= r, c <= d
    PROVE  Lower(OfPods(q, d, all, any), OfPods(r, c, all, any))
  <1> DEFINE Ready(n) == Signal("Pod readiness", n, all, 25)
             Stable(n) == Signal("Container stability", all - 4 * n, all, 15)
  <1>0. {q, r} \subseteq Int
    OBVIOUS
  <1>1. LowerOne(Ready(q), Ready(r))
    BY <1>0, LowerEach
  <1>2. all - 4 * d \in Int /\ all - 4 * c \in Int /\ all - 4 * d <= all - 4 * c
    OBVIOUS
  <1>3. LowerOne(Stable(d), Stable(c))
    BY <1>2, LowerEach
  <1>4. /\ OfPods(q, d, all, any) = IF any THEN {Ready(q), Stable(d)} ELSE {}
        /\ OfPods(r, c, all, any) = IF any THEN {Ready(r), Stable(c)} ELSE {}
    BY DEF OfPods
  <1> HIDE DEF Ready, Stable
  <1> QED BY <1>1, <1>3, <1>4 DEF Lower, LowerOne, Names

LEMMA OfWorkloadsLower ==
    ASSUME NEW w \in Nat, NEW v \in Nat, NEW all \in Nat, v <= w
    PROVE  Lower(OfWorkloads(v, all), OfWorkloads(w, all))
  <1> DEFINE Well(n) == Signal("Workload availability", n, all, 5)
  <1>1. CASE all # 0
    <2>0. all \in Nat \ {0} /\ {v, w} \subseteq Int
      BY <1>1
    <2>1. LowerOne(Well(v), Well(w))
      BY <2>0, LowerEach
    <2>2. OfWorkloads(v, all) = {Well(v)} /\ OfWorkloads(w, all) = {Well(w)}
      BY <1>1 DEF OfWorkloads
    <2> HIDE DEF Well
    <2> QED BY <2>1, <2>2 DEF Lower, LowerOne, Names
  <1>2. CASE all = 0
    BY <1>2 DEF OfWorkloads, Lower, Names
  <1> QED BY <1>1, <1>2

LEMMA SameIsLower ==
    ASSUME NEW S, SignalsFormed(S)
    PROVE  Lower(S, S)
  <1>1. \A s \in S : SignalScore(s) <= SignalScore(s)
    BY SignalScored DEF SignalsFormed
  <1> QED BY <1>1 DEF Lower

LEMMA LowerTogether ==
    ASSUME NEW S1, NEW T1, NEW S2, NEW T2, Lower(T1, S1), Lower(T2, S2)
    PROVE  Lower(T1 \cup T2, S1 \cup S2)
  BY DEF Lower, Names

\* Signals of other names make more of them.
LEMMA FormedTogether ==
    ASSUME NEW S, NEW T, SignalsFormed(S), SignalsFormed(T), Names(S) \cap Names(T) = {}
    PROVE  SignalsFormed(S \cup T) /\ Names(S \cup T) = Names(S) \cup Names(T)
  <1>1. IsFiniteSet(S \cup T)
    BY FS_Union DEF SignalsFormed
  <1>2. NamedOnce(S \cup T)
    BY DEF SignalsFormed, NamedOnce, Names
  <1> QED BY <1>1, <1>2 DEF SignalsFormed, Names

---------------------------------------------------------------------------
(***************************************************************************)
(* The change trail.  The template that runs has the newest revision, and  *)
(* the one before it the next, for as long as there is any other: clean-up *)
(* takes the oldest.                                                       *)
(***************************************************************************)
Older(u, t) == sets[u].revision < sets[t].revision

Ordered ==
    /\ ran.now \in Made
    /\ \A u \in Made \ {ran.now} : Older(u, ran.now)
    /\ Made # {ran.now} =>
          /\ ran.before \in Made \ {ran.now}
          /\ \A u \in Made \ {ran.now, ran.before} : Older(u, ran.before)

TrailInv == TrailTypeOK /\ Ordered

USE TrailAssumption

---------------------------------------------------------------------------
LEMMA TrailTypes ==
    ASSUME TrailTypeOK
    PROVE  /\ ran.now \in Templates /\ ran.before \in Templates
           /\ \A t \in Made : /\ t \in Templates /\ sets[t].revision \in 1 .. LastRevision
                              /\ sets[t].created \in 0 .. LastTick
  BY DEF TrailTypeOK, Made

LEMMA TrailStarts == TrailInit => TrailInv
  <1> SUFFICES ASSUME TrailInit PROVE TrailInv
    OBVIOUS
  <1>1. PICK t \in Templates :
          /\ sets = [u \in Templates |->
                        IF u = t THEN [revision |-> 1, created |-> 0] ELSE Unmade]
          /\ clock = 0
          /\ ran = [now |-> t, before |-> t, at |-> 0]
    BY DEF TrailInit
  <1>2. [revision |-> 1, created |-> 0] \in [revision : 1 .. LastRevision, created : 0 .. LastTick]
    OBVIOUS
  <1>3. TrailTypeOK
    BY <1>1, <1>2 DEF TrailTypeOK
  <1>4. Unmade # [revision |-> 1, created |-> 0]
    OBVIOUS
  <1>5. Made = {t}
    BY <1>1, <1>4 DEF Made
  <1> QED BY <1>1, <1>3, <1>5 DEF TrailInv, Ordered

LEMMA RolloutKeeps ==
    ASSUME TrailInv, NEW t \in Templates, Rollout(t)
    PROVE  TrailInv'
  <1> DEFINE next == 1 + sets[ran.now].revision
             made == [revision |-> next, created |-> IF t \in Made THEN sets[t].created ELSE clock]
  <1>1. /\ t # ran.now /\ sets[ran.now].revision < LastRevision
        /\ sets' = [sets EXCEPT ![t] = made]
        /\ ran' = [now |-> t, before |-> ran.now, at |-> clock]
        /\ clock' = clock
    BY DEF Rollout
  <1>2. next \in 1 .. LastRevision /\ next \in Nat /\ sets[ran.now].revision < next
    BY <1>1, TrailTypes DEF TrailInv, Ordered
  <1>3. made \in [revision : 1 .. LastRevision, created : 0 .. LastTick] /\ made.revision = next
    BY <1>2, TrailTypes DEF TrailInv, TrailTypeOK
  <1> HIDE DEF made, next
  <1>4. made # Unmade
    BY <1>3
  <1>5. TrailTypeOK'
    BY <1>1, <1>3, TrailTypes DEF TrailInv, TrailTypeOK
  <1>6. /\ DOMAIN sets = Templates /\ sets'[t] = made
        /\ \A u \in Templates \ {t} : sets'[u] = sets[u]
    BY <1>1 DEF TrailInv, TrailTypeOK
  <1>7. Made' = Made \cup {t}
    BY <1>4, <1>6 DEF Made
  <1>8. \A u \in Made : sets[u].revision \in Nat /\ u \in Templates
    BY TrailTypes DEF TrailInv
  <1>9. \A u \in Made : sets[u].revision <= sets[ran.now].revision
    BY <1>8 DEF TrailInv, Ordered, Older
  <1>10. ran.now \in Made /\ ran.now \in Templates
    BY TrailTypes DEF TrailInv, Ordered
  <1>11. \A u \in Made' \ {t} : u \in Made /\ sets'[u] = sets[u]
    BY <1>6, <1>7, <1>8
  <1>12. \A u \in Made' \ {t} : sets'[u].revision < sets'[t].revision
    BY <1>2, <1>3, <1>6, <1>8, <1>9, <1>10, <1>11
  <1>13. ran'.now = t /\ ran'.before = ran.now
    BY <1>1
  <1>14. \A u \in Made' \ {t, ran.now} : sets'[u].revision < sets'[ran.now].revision
    BY <1>1, <1>6, <1>10, <1>11 DEF TrailInv, Ordered, Older
  <1>15. Ordered'
    BY <1>1, <1>7, <1>10, <1>12, <1>13, <1>14 DEF Ordered, Older
  <1> QED BY <1>5, <1>15 DEF TrailInv

LEMMA CleanUpKeeps ==
    ASSUME TrailInv, NEW t \in Templates, CleanUp(t)
    PROVE  TrailInv'
  <1>1. /\ t \in Made \ {ran.now} /\ \A u \in Made : sets[t].revision <= sets[u].revision
        /\ sets' = [sets EXCEPT ![t] = Unmade] /\ clock' = clock /\ ran' = ran
    BY DEF CleanUp
  <1>2. TrailTypeOK'
    BY <1>1 DEF TrailInv, TrailTypeOK
  <1>3. /\ sets'[t] = Unmade
        /\ \A u \in Templates \ {t} : sets'[u] = sets[u]
    BY <1>1 DEF TrailInv, TrailTypeOK
  <1>4. Made' = Made \ {t}
    BY <1>3 DEF Made
  <1>5. \A u \in Made : sets[u].revision \in Nat /\ u \in Templates
    BY TrailTypes DEF TrailInv
  <1>6. \A u \in Made' : u \in Made /\ u \in Templates /\ sets'[u] = sets[u]
    BY <1>3, <1>4, <1>5
  <1>7. t = ran.before => Made' = {ran.now}
    <2> SUFFICES ASSUME t = ran.before, NEW u \in Made' \ {ran.now} PROVE FALSE
      BY <1>1, <1>4 DEF TrailInv, Ordered
    <2>1. u \in Made \ {ran.now, ran.before}
      BY <1>4
    <2>2. Older(u, t)
      BY <2>1 DEF TrailInv, Ordered
    <2> QED BY <1>1, <1>5, <2>1, <2>2 DEF Older
  <1>8. Ordered'
    BY <1>1, <1>4, <1>6, <1>7 DEF TrailInv, Ordered, Older
  <1> QED BY <1>2, <1>8 DEF TrailInv

THEOREM TrailInvariant == TrailSpec => []TrailInv
  <1>1. TrailInv /\ [TrailNext]_trailVars => TrailInv'
    <2> SUFFICES ASSUME TrailInv, [TrailNext]_trailVars PROVE TrailInv'
      OBVIOUS
    <2>1. CASE UNCHANGED trailVars
      BY <2>1 DEF trailVars, TrailInv, TrailTypeOK, Ordered, Older, Made
    <2>2. CASE Tick
      BY <2>2 DEF Tick, TrailInv, TrailTypeOK, Ordered, Older, Made
    <2>3. ASSUME NEW t \in Templates, Rollout(t) \/ CleanUp(t)
          PROVE  TrailInv'
      BY <2>3, RolloutKeeps, CleanUpKeeps
    <2> QED BY <2>1, <2>2, <2>3 DEF TrailNext
  <1> QED BY <1>1, TrailStarts, PTL DEF TrailSpec

---------------------------------------------------------------------------
\* NewestOf finds it, since no two revisions are the same.
LEMMA NewestFound ==
    ASSUME TrailInv, NEW s \in SUBSET Made, NEW t \in s, \A u \in s \ {t} : Older(u, t)
    PROVE  NewestOf(s) = t
  <1>1. \A u \in s : sets[u].revision \in Nat
    BY TrailTypes DEF TrailInv
  <1>2. \A u \in s : sets[u].revision <= sets[t].revision
    BY <1>1 DEF Older
  <1>3. \A v \in s : (\A u \in s : sets[u].revision <= sets[v].revision) => v = t
    BY <1>1 DEF Older
  <1> QED BY <1>2, <1>3 DEF NewestOf

\* Of a container that either template has, DescribeChanges tells what
\* became of it, and nothing else.
LEMMA ChangesTold ==
    ASSUME NEW old, NEW new, NEW c \in DOMAIN old \cup DOMAIN new
    PROVE  /\ <<c, "added">> \in DescribeChanges(old, new) <=> c \notin DOMAIN old
           /\ <<c, "removed">> \in DescribeChanges(old, new) <=> c \notin DOMAIN new
           /\ c \in DOMAIN old \cap DOMAIN new =>
                 (old[c] # new[c] <=>
                     <<c, old[c].tail, new[c].tail>> \in DescribeChanges(old, new))
  <1> DEFINE both == DOMAIN old \cap DOMAIN new
             replaced == {<<d, old[d].tail, new[d].tail>> : d \in {e \in both : old[e] # new[e]}}
             added == {<<d, "added">> : d \in DOMAIN new \ DOMAIN old}
             removed == {<<d, "removed">> : d \in DOMAIN old \ DOMAIN new}
             changes == replaced \cup added \cup removed
             told == DescribeChanges(old, new)
  <1>1. told = IF changes = {} THEN {<<"no image change">>} ELSE changes
    BY DEF DescribeChanges
  <1>2. \A x, y, z : <<x, y, z>> \notin added /\ <<x, y, z>> \notin removed
                     /\ <<x, y, z>> # <<"no image change">>
    OBVIOUS
  <1>3. \A x, y : <<x, y>> \notin replaced /\ <<x, y>> # <<"no image change">>
    OBVIOUS
  <1>4. <<c, "added">> \in added <=> c \in DOMAIN new \ DOMAIN old
    OBVIOUS
  <1>5. <<c, "removed">> \in removed <=> c \in DOMAIN old \ DOMAIN new
    OBVIOUS
  <1>6. <<c, "added">> \notin removed /\ <<c, "removed">> \notin added
    OBVIOUS
  <1>7. c \in both => (old[c] # new[c] <=> <<c, old[c].tail, new[c].tail>> \in replaced)
    OBVIOUS
  <1>8. \A x, y : <<x, y>> \in told <=> <<x, y>> \in added \cup removed
    <2> HIDE DEF told, replaced, added, removed
    <2> QED BY <1>1, <1>3
  <1>9. \A x, y, z : <<x, y, z>> \in told <=> <<x, y, z>> \in replaced
    <2> HIDE DEF told, replaced, added, removed
    <2> QED BY <1>1, <1>2
  <1>10. <<c, "added">> \in told <=> c \notin DOMAIN old
    <2> HIDE DEF told, replaced, added, removed
    <2> QED BY <1>4, <1>6, <1>8
  <1>11. <<c, "removed">> \in told <=> c \notin DOMAIN new
    <2> HIDE DEF told, replaced, added, removed
    <2> QED BY <1>5, <1>6, <1>8
  <1> QED BY <1>7, <1>9, <1>10, <1>11

\* A row of change_trail is about the template that runs and compares it with
\* the one that ran before, through every rollout, rollback and clean-up.
THEOREM TrailIsTrue == TrailSpec => []TrailTrue
  <1>1. TrailInv => TrailTrue
    <2> SUFFICES ASSUME TrailInv PROVE TrailTrue
      OBVIOUS
    <2>1. Current = ran.now
      BY NewestFound DEF TrailInv, Ordered, Current
    <2>2. ASSUME HasPrevious
          PROVE  Changed = DescribeChanges(Images[ran.before], Images[ran.now])
      <3>1. Made \ {ran.now} \in SUBSET Made /\ ran.before \in Made \ {ran.now}
        BY <2>1, <2>2 DEF HasPrevious, TrailInv, Ordered
      <3>2. \A u \in (Made \ {ran.now}) \ {ran.before} : Older(u, ran.before)
        BY <2>1, <2>2 DEF HasPrevious, TrailInv, Ordered
      <3>3. Previous = ran.before
        BY <2>1, <3>1, <3>2, NewestFound DEF Previous
      <3> QED BY <2>1, <2>2, <3>3 DEF Changed
    <2> QED BY <2>1, <2>2, ChangesTold DEF TrailTrue
  <1> QED BY <1>1, TrailInvariant, PTL

(***************************************************************************)
(* The storage and the configuration screen and the reports.               *)
(***************************************************************************)
LEMMA StorageTitles ==
    \A t \in {StillBilled, NoVolume, VolumeLost, MoreThanAsked, ManyDefaults, NoDefault} :
        t # Unmounted
  BY DEF StillBilled, NoVolume, VolumeLost, MoreThanAsked, ManyDefaults, NoDefault, Unmounted

LEMMA FindingMade ==
    ASSUME NEW severity, NEW title, NEW targets, NEW x \in targets
    PROVE  /\ [severity |-> severity, title |-> title, targets |-> targets]
                  \in Finding(severity, title, targets)
  BY DEF Finding

\* The claims called unmounted, and nothing else, once the pods are known.
LEMMA UnmountedNamed ==
    NamedBy(StorageFindings, Unmounted) =
        IF Known("pods") THEN Names({c \in Got("claims") : c.phase = "Bound" /\ ~Mounted(c)})
        ELSE {}
  <1> DEFINE accused == Names({c \in Got("claims") : c.phase = "Bound" /\ ~Mounted(c)})
             made == [severity |-> "warning", title |-> Unmounted, targets |-> accused]
  <1>1. ASSUME NEW f \in BuildStorageFindings, f.title = Unmounted
        PROVE  f.targets = accused
    <2> HIDE DEF accused
    <2> QED BY <1>1, StorageTitles DEF BuildStorageFindings, Finding, accused
  <1>2. ASSUME NEW x \in accused
        PROVE  made \in BuildStorageFindings
    BY FindingMade DEF BuildStorageFindings
  <1>3. made.title = Unmounted /\ made.targets = accused
    OBVIOUS
  <1> HIDE DEF accused, made
  <1>4. Known("pods") => NamedBy(StorageFindings, Unmounted) = accused
    BY <1>1, <1>2, <1>3 DEF NamedBy, StorageFindings
  <1>5. ~Known("pods") => NamedBy(StorageFindings, Unmounted) = {}
    BY DEF NamedBy, StorageFindings
  <1> QED BY <1>4, <1>5 DEF accused

LEMMA ConfigTitles ==
    /\ \A t \in {NoEvictions, HookBroken, QuotaFull, Ceiling} : t # Unreferenced
    /\ \A t \in {HookBroken, QuotaFull, Ceiling, Unreferenced} : t # NoEvictions
  BY DEF NoEvictions, HookBroken, QuotaFull, Ceiling, Unreferenced

\* The config maps and secrets called unreferenced, and the budgets that allow
\* no evictions.
LEMMA UnreferencedNamed ==
    NamedBy(ConfigFindings, Unreferenced) =
        IF Known("pods") THEN Names(OrphanMaps \cup OrphanSecrets) ELSE {}
  <1> DEFINE accused == Names(OrphanMaps \cup OrphanSecrets)
             made == [severity |-> "warning", title |-> Unreferenced, targets |-> accused]
  <1>1. ASSUME NEW f \in BuildConfigFindings, f.title = Unreferenced
        PROVE  f.targets = accused
    <2> HIDE DEF accused
    <2> QED BY <1>1, ConfigTitles DEF BuildConfigFindings, Finding, accused
  <1>2. ASSUME NEW x \in accused
        PROVE  made \in BuildConfigFindings
    BY FindingMade DEF BuildConfigFindings
  <1>3. made.title = Unreferenced /\ made.targets = accused
    OBVIOUS
  <1> HIDE DEF accused, made
  <1>4. Known("pods") => NamedBy(ConfigFindings, Unreferenced) = accused
    BY <1>1, <1>2, <1>3 DEF NamedBy, ConfigFindings
  <1>5. ~Known("pods") => NamedBy(ConfigFindings, Unreferenced) = {}
    BY DEF NamedBy, ConfigFindings
  <1> QED BY <1>4, <1>5 DEF accused

LEMMA NoEvictionsNamed ==
    NamedBy(ConfigFindings, NoEvictions) = Names({b \in Got("budgets") : b.allowed = 0})
  <1> DEFINE blocking == Names({b \in Got("budgets") : b.allowed = 0})
             made == [severity |-> "serious", title |-> NoEvictions, targets |-> blocking]
  <1>1. ASSUME NEW f \in BuildConfigFindings, f.title = NoEvictions
        PROVE  f.targets = blocking
    <2> HIDE DEF blocking
    <2> QED BY <1>1, ConfigTitles DEF BuildConfigFindings, Finding, blocking
  <1>2. ASSUME NEW x \in blocking
        PROVE  made \in BuildConfigFindings
    BY FindingMade DEF BuildConfigFindings
  <1>3. made.title = NoEvictions /\ made.targets = blocking
    OBVIOUS
  <1>4. NoEvictions # Unreferenced
    BY ConfigTitles
  <1> HIDE DEF blocking, made
  <1>5. NamedBy(ConfigFindings, NoEvictions) = blocking
    BY <1>1, <1>2, <1>3, <1>4 DEF NamedBy, ConfigFindings
  <1> QED BY <1>5 DEF blocking

---------------------------------------------------------------------------
\* What is seen is nothing, or an answer.
USE AnswersAssumption

LEMMA SeenFormed == ReadsSpec => []WellFormed(seen)
  <1>1. ReadsInit => WellFormed(seen)
    BY DEF ReadsInit, WellFormed, Lists
  <1>2. WellFormed(seen) /\ [Load]_seen => WellFormed(seen)'
    <2>1. Load => \E i \in DOMAIN Answers : seen' \in Answers[i]
      BY DEF Load
    <2>2. \A a, b : a = b => (WellFormed(a) => WellFormed(b))
      BY Zenon
    <2>3. Load => WellFormed(seen')
      BY <2>1
    <2> QED BY <2>3 DEF WellFormed
  <1> QED BY <1>1, <1>2, PTL DEF ReadsSpec

\* What a listed pod uses, in one of the places that are walked, is used.
LEMMA UsesCollected ==
    ASSUME WellFormed(seen), NEW p \in Got("pods"), NEW u \in p.uses,
           u.place \in Walked
    PROVE  u.name \in UsedByPods(u.kind)
  BY DEF UsedByPods

\* No answer of the cluster, with whatever lists refused, makes Storage or
\* Configuration accuse what a listed pod uses in a place they walk, or judge a
\* volume or a webhook by a list that is not there.
THEOREM NeverAccusesBlindly == ReadsSpec => []UnknownIsNotMissing
  <1>1. WellFormed(seen) => UnknownIsNotMissing
    <2> SUFFICES ASSUME WellFormed(seen) PROVE UnknownIsNotMissing
      OBVIOUS
    <2> DEFINE unmounted == NamedBy(StorageFindings, Unmounted)
               unreferenced == NamedBy(ConfigFindings, Unreferenced)
    <2>1. unmounted \cup unreferenced # {} => Known("pods")
      BY UnmountedNamed, UnreferencedNamed
    <2>2. ASSUME NEW p \in Got("pods"), NEW u \in p.uses, u.place \in Walked
          PROVE  /\ u.kind = "claim" => u.name \notin unmounted
                 /\ u.kind = "map" => u.name \notin Names(OrphanMaps)
                 /\ u.kind = "secret" => u.name \notin Names(OrphanSecrets)
      <3>1. u.name \in UsedByPods(u.kind)
        BY <2>2, UsesCollected
      <3>2. u.kind = "claim" => u.name \notin unmounted
        BY <3>1, UnmountedNamed DEF Names, Mounted
      <3>3. u.kind = "map" => u.name \notin Names(OrphanMaps)
        BY <3>1 DEF Names, OrphanMaps, ReadByPods
      <3>4. u.kind = "secret" => u.name \notin Names(OrphanSecrets)
        BY <3>1 DEF Names, OrphanSecrets, ReadByPods
      <3> QED BY <3>2, <3>3, <3>4
    <2>3. ASSUME NEW v \in Got("volumes"), v.phase = "Bound", VolumeHealth(v) = "critical"
          PROVE  Known("everyClaim") /\ v.claim \notin seen["everyClaim"]
      BY <2>3 DEF VolumeHealth, ClaimExists
    <2>4. ASSUME NEW h \in Hooks
          PROVE  /\ ~Known("everyService") => HookHealth(h) = "unknown"
                 /\ HookHealth(h) = "critical" => h.service \notin seen["everyService"]
      BY DEF HookHealth, Judged
    <2> HIDE DEF unmounted, unreferenced
    <2> QED BY <2>1, <2>2, <2>3, <2>4 DEF UnknownIsNotMissing, unmounted, unreferenced
  <1> QED BY <1>1, SeenFormed, PTL

---------------------------------------------------------------------------
\* The rows of one kind.
LEMMA InRows ==
    \A kind, names, severity : \A r \in Rows(kind, names, severity) :
        r.kind = kind /\ r.name \in names
  BY DEF Rows, Row

\* The two walks over what pods name come to the same.
LEMMA WalksAgree == \A kind : UsedInReport(kind) = UsedByPods(kind)
  <1>1. {"pull secret", "volume", "projected"} \cup PodContainers = Walked
    BY DEF PodContainers, Walked
  <1> QED BY <1>1 DEF UsedInReport, UsedByPods

LEMMA IdleClaims ==
    Names({r \in IdleRows : r.kind = "PersistentVolumeClaim"}) =
        Names({c \in Got("claims") : c.phase = "Bound"}) \ UsedInReport("claim")
  <1> DEFINE idle == Names({c \in Got("claims") : c.phase = "Bound"}) \ UsedInReport("claim")
             Said(x) == Row("PersistentVolumeClaim", x, "serious")
  <1>1. ASSUME NEW r \in IdleRows, r.kind = "PersistentVolumeClaim"
        PROVE  r.name \in idle
    BY <1>1, InRows DEF IdleRows
  <1>2. ASSUME NEW x \in idle
        PROVE  Said(x) \in IdleRows
    BY DEF IdleRows, Rows
  <1>3. \A x : Said(x).name = x /\ Said(x).kind = "PersistentVolumeClaim"
    BY DEF Row
  <1> HIDE DEF idle, Said
  <1>4. Names({r \in IdleRows : r.kind = "PersistentVolumeClaim"}) = idle
    BY <1>1, <1>2, <1>3 DEF Names
  <1> QED BY <1>4 DEF idle

LEMMA IdleObjects ==
    Names({r \in IdleRows : r.kind \in {"ConfigMap", "Secret"}}) =
        Names(OrphanMaps \cup OrphanSecrets)
  <1> DEFINE maps == Names(Got("maps")) \ ({"kube-root-ca.crt"} \cup UsedInReport("map"))
             secrets == Names({s \in Got("secrets") :
                                  s.type \notin {ServiceAccountToken, HelmRelease}})
                            \ UsedInReport("secret")
             Said(kind, x) == Row(kind, x, "warning")
  <1>1. ASSUME NEW r \in IdleRows, r.kind \in {"ConfigMap", "Secret"}
        PROVE  r.name \in maps \cup secrets
    BY <1>1, InRows DEF IdleRows
  <1>2. ASSUME NEW x \in maps
        PROVE  Said("ConfigMap", x) \in IdleRows
    BY DEF IdleRows, Rows
  <1>3. ASSUME NEW x \in secrets
        PROVE  Said("Secret", x) \in IdleRows
    BY DEF IdleRows, Rows
  <1>4. \A kind, x : Said(kind, x).name = x /\ Said(kind, x).kind = kind
    BY DEF Row
  <1>5. maps = Names(OrphanMaps) /\ secrets = Names(OrphanSecrets)
    BY WalksAgree DEF Names, OrphanMaps, OrphanSecrets, ReadByPods
  <1> HIDE DEF maps, secrets, Said
  <1>6. Names({r \in IdleRows : r.kind \in {"ConfigMap", "Secret"}}) = maps \cup secrets
    BY <1>1, <1>2, <1>3, <1>4 DEF Names
  <1>7. Names(OrphanMaps \cup OrphanSecrets) = Names(OrphanMaps) \cup Names(OrphanSecrets)
    BY DEF Names
  <1> QED BY <1>5, <1>6, <1>7

LEMMA IdleVolumes ==
    Names({r \in IdleRows : r.kind = "PersistentVolume"}) \subseteq
        Names({v \in Got("volumes") : v.phase = "Released" /\ v.reclaim = "Retain"})
  <1> DEFINE released == {v \in Got("volumes") : v.phase = "Released" /\ v.reclaim = "Retain"
                                                 /\ v.claim # Nobody /\ v.claim[1] = "here"}
  <1>1. ASSUME NEW r \in IdleRows, r.kind = "PersistentVolume"
        PROVE  r.name \in Names(released)
    BY <1>1, InRows DEF IdleRows
  <1> QED BY <1>1 DEF Names

LEMMA BlockingBudgets ==
    Names({r \in UpgradeRows : r.kind = "PodDisruptionBudget"}) =
        Names({b \in Got("budgets") : b.allowed = 0})
  <1> DEFINE blocking == Names({b \in Got("budgets") : b.allowed = 0})
             Said(x) == Row("PodDisruptionBudget", x, "critical")
  <1>1. ASSUME NEW r \in UpgradeRows, r.kind = "PodDisruptionBudget"
        PROVE  r.name \in blocking
    BY <1>1, InRows DEF UpgradeRows
  <1>2. ASSUME NEW x \in blocking
        PROVE  Said(x) \in UpgradeRows
    BY DEF UpgradeRows, Rows
  <1>3. \A x : Said(x).name = x /\ Said(x).kind = "PodDisruptionBudget"
    BY DEF Row
  <1> HIDE DEF blocking, Said
  <1>4. Names({r \in UpgradeRows : r.kind = "PodDisruptionBudget"}) = blocking
    BY <1>1, <1>2, <1>3 DEF Names
  <1> QED BY <1>4 DEF blocking

\* The idle report accuses what the Storage and the Configuration screen do,
\* the upgrade report blocks on the budgets the Configuration screen names, and
\* the security and the hygiene report agree on what an unpinned image is, for
\* every answer of the cluster.
THEOREM SayTheSame == ReadsSpec => []ReportsAgree
  <1>1. ASSUME Known("pods")
        PROVE  /\ Names({r \in IdleRows : r.kind = "PersistentVolumeClaim"}) =
                      NamedBy(StorageFindings, Unmounted)
               /\ Names({r \in IdleRows : r.kind \in {"ConfigMap", "Secret"}}) =
                      NamedBy(ConfigFindings, Unreferenced)
    <2>1. Names({c \in Got("claims") : c.phase = "Bound"}) \ UsedInReport("claim") =
            Names({c \in Got("claims") : c.phase = "Bound" /\ ~Mounted(c)})
      BY WalksAgree DEF Names, Mounted
    <2> QED BY <1>1, <2>1, IdleClaims, IdleObjects, UnmountedNamed, UnreferencedNamed
  <1>2. Names({r \in IdleRows : r.kind = "PersistentVolume"}) \subseteq
            NamedBy(StorageFindings, StillBilled)
    <2> DEFINE billed == Names({v \in Got("volumes") : v.phase = "Released" /\ v.reclaim = "Retain"})
               made == [severity |-> "serious", title |-> StillBilled, targets |-> billed]
    <2>1. ASSUME NEW x \in billed
          PROVE  made \in BuildStorageFindings
      BY FindingMade DEF BuildStorageFindings
    <2>2. made.title = StillBilled /\ made.targets = billed /\ StillBilled # Unmounted
      BY StorageTitles
    <2>3. Names({r \in IdleRows : r.kind = "PersistentVolume"}) \subseteq billed
      BY IdleVolumes
    <2> HIDE DEF made, billed
    <2> QED BY <2>1, <2>2, <2>3 DEF NamedBy, StorageFindings
  <1>3. Names({r \in UpgradeRows : r.kind = "PodDisruptionBudget"}) =
            NamedBy(ConfigFindings, NoEvictions)
    BY BlockingBudgets, NoEvictionsNamed
  <1>4. ASSUME NEW r \in HygieneRows
        PROVE  /\ Unpinned(r.image) => r.severity = "serious"
               /\ r.severity = "serious" =>
                     Unpinned(r.image) \/ r.image.port \/ r.image.tag = "latest-alpine"
    <2>1. PICK i, n : r = [image |-> i, severity |-> ImageSeverity(i), pods |-> n]
      BY <1>4, Zenon DEF HygieneRows
    <2> QED BY <2>1 DEF ImageSeverity, Unpinned
  <1>5. ReportsAgree
    BY <1>1, <1>2, <1>3, <1>4 DEF ReportsAgree, Lists
  <1> QED BY <1>5, PTL

(***************************************************************************)
(* The network screen.                                                     *)
(***************************************************************************)
USE SlicesAssumption

SlicesFormed == \A s \in Got("slices") : s.ends \in Ends

LEMMA SlicesSeen == ReadsSpec => [](WellFormed(seen) /\ SlicesFormed)
  <1>1. ReadsInit => SlicesFormed
    BY DEF ReadsInit, SlicesFormed, Got, Known, Lists
  <1>2. SlicesFormed /\ [Load]_seen => SlicesFormed'
    BY DEF SlicesFormed, Got, Known, Load
  <1> QED BY <1>1, <1>2, SeenFormed, PTL DEF ReadsSpec

\* The two folds are sums.
LEMMA ReadySum ==
    ASSUME NEW S, IsFiniteSet(S)
    PROVE  MapThenSumSet(SliceReady, S) = SumOf([s \in S |-> SliceReady(s)], S)
  <1> DEFINE F == [s \in S |-> SliceReady(s)]
             Body(I) == [s \in SUBSET S |-> IF s = {} THEN 0
                            ELSE SliceReady(Chosen(s)) + I[s \ {Chosen(s)}]]
             C == CHOOSE I : I = Body(I)
  <1>1. ASSUME NEW I
        PROVE  Body(I) = [s \in SUBSET S |-> Added(F, I, s)]
    BY ChosenIsIn DEF Added
  <1>2. MapThenSumSet(SliceReady, S) = C[S]
    BY DEF MapThenSumSet, MapThenFoldSet, Chosen
  <1>3. PICK I : AddsUp(F, S, I)
    BY SumExists
  <1> HIDE DEF Body, F
  <1>4. I = Body(I)
    BY <1>1, <1>3 DEF AddsUp
  <1>5. C = Body(C)
    BY <1>4, Zenon
  <1> HIDE DEF C
  <1>6. AddsUp(F, S, C)
    BY <1>1, <1>5 DEF AddsUp
  <1> QED BY <1>2, <1>6, SumIs DEF F

LEMMA TotalSum ==
    ASSUME NEW S, IsFiniteSet(S)
    PROVE  MapThenSumSet(SliceTotal, S) = SumOf([s \in S |-> SliceTotal(s)], S)
  <1> DEFINE F == [s \in S |-> SliceTotal(s)]
             Body(I) == [s \in SUBSET S |-> IF s = {} THEN 0
                            ELSE SliceTotal(Chosen(s)) + I[s \ {Chosen(s)}]]
             C == CHOOSE I : I = Body(I)
  <1>1. ASSUME NEW I
        PROVE  Body(I) = [s \in SUBSET S |-> Added(F, I, s)]
    BY ChosenIsIn DEF Added
  <1>2. MapThenSumSet(SliceTotal, S) = C[S]
    BY DEF MapThenSumSet, MapThenFoldSet, Chosen
  <1>3. PICK I : AddsUp(F, S, I)
    BY SumExists
  <1> HIDE DEF Body, F
  <1>4. I = Body(I)
    BY <1>1, <1>3 DEF AddsUp
  <1>5. C = Body(C)
    BY <1>4, Zenon
  <1> HIDE DEF C
  <1>6. AddsUp(F, S, C)
    BY <1>1, <1>5 DEF AddsUp
  <1> QED BY <1>2, <1>6, SumIs DEF F

\* A service with something ready has a slice with something ready, and one
\* with nothing short has no slice with anything short.
LEMMA EndpointsCounted ==
    ASSUME WellFormed(seen), SlicesFormed, NEW svc
    PROVE  /\ ReadyEndpoints(svc) \in Nat /\ TotalEndpoints(svc) \in Nat
           /\ ReadyEndpoints(svc) <= TotalEndpoints(svc)
           /\ ReadyEndpoints(svc) # 0 => \E s \in SlicesOf(svc) : SliceReady(s) > 0
           /\ ReadyEndpoints(svc) >= TotalEndpoints(svc) =>
                 \A s \in SlicesOf(svc) : s.ends.unready = 0
  <1> DEFINE S == SlicesOf(svc)
             F == [s \in S |-> SliceReady(s)]
             H == [s \in S |-> SliceTotal(s)]
  <1>1. IsFiniteSet(Got("slices"))
    BY FS_EmptySet DEF WellFormed, Got, Known, Lists
  <1>2. IsFiniteSet(S)
    BY <1>1, FS_Subset DEF SlicesOf
  <1>3. \A s \in S : s \in Got("slices") /\ s.ends \in Ends
    BY DEF SlicesOf, SlicesFormed
  <1> HIDE DEF S
  <1>4. \A s \in S : /\ F[s] \in Nat /\ H[s] \in Nat /\ F[s] <= H[s]
                     /\ F[s] = SliceReady(s)
                     /\ F[s] = H[s] => s.ends.unready = 0
    BY <1>3 DEF Ends, SliceReady, SliceTotal
  <1>5. ReadyEndpoints(svc) = SumOf(F, S) /\ TotalEndpoints(svc) = SumOf(H, S)
    BY <1>2, ReadySum, TotalSum DEF ReadyEndpoints, TotalEndpoints, S
  <1> HIDE DEF F, H
  <1>6. SumOf(F, S) \in Nat /\ SumOf(H, S) \in Nat
    BY <1>2, <1>4, SumRemove
  <1>7. SumOf(F, S) # 0 => \E s \in S : F[s] # 0
    BY <1>2, SumOfZeros
  <1>8. /\ SumOf(F, S) <= SumOf(H, S)
        /\ SumOf(F, S) = SumOf(H, S) => \A s \in S : F[s] = H[s]
    BY <1>2, <1>4, SumLess
  <1>9. SumOf(F, S) # 0 => \E s \in S : SliceReady(s) > 0
    BY <1>4, <1>7
  <1>10. SumOf(F, S) >= SumOf(H, S) => \A s \in S : s.ends.unready = 0
    BY <1>4, <1>6, <1>8
  <1> QED BY <1>5, <1>6, <1>8, <1>9, <1>10 DEF S

LEMMA NetworkTitles ==
    \A t \in {NothingReady, ReducedCapacity, NoBalancer, RouteBroken, NoAddress} :
        t # AllClear
  BY DEF NothingReady, ReducedCapacity, NoBalancer, RouteBroken, NoAddress, AllClear

\* The all-clear is given when nothing is wrong, and the services are known.
LEMMA AllClearGiven ==
    ASSUME AllClear \in {f.title : f \in NetworkFindings}
    PROVE  /\ Known("services")
           /\ WithHealth("critical") = {} /\ WithHealth("serious") = {}
           /\ \A i \in Got("ingresses") : Broken(i) = {}
  <1>1. PICK f \in NetworkFindings : f.title = AllClear
    OBVIOUS
  <1>2. Known("services")
    BY <1>1 DEF NetworkFindings
  <1>3. \A g \in NetworkFaults : g.title # AllClear
    BY NetworkTitles DEF NetworkFaults, Finding
  <1>4. NetworkFaults = {}
    BY <1>1, <1>2, <1>3 DEF NetworkFindings
  <1>5. ASSUME NEW x \in Names(WithHealth("critical"))
        PROVE  FALSE
    BY <1>4, FindingMade DEF NetworkFaults
  <1>6. ASSUME NEW x \in Names(WithHealth("serious"))
        PROVE  FALSE
    BY <1>4, FindingMade DEF NetworkFaults
  <1>7. ASSUME NEW x \in Names(UNION {Broken(i) : i \in Got("ingresses")})
        PROVE  FALSE
    BY <1>4, FindingMade DEF NetworkFaults
  <1>8. WithHealth("critical") = {}
    <2> SUFFICES ASSUME NEW o \in WithHealth("critical") PROVE FALSE
      OBVIOUS
    <2>1. o.name \in Names(WithHealth("critical"))
      BY DEF Names
    <2> QED BY <1>5, <2>1
  <1>9. WithHealth("serious") = {}
    <2> SUFFICES ASSUME NEW o \in WithHealth("serious") PROVE FALSE
      OBVIOUS
    <2>1. o.name \in Names(WithHealth("serious"))
      BY DEF Names
    <2> QED BY <1>6, <2>1
  <1>10. ASSUME NEW i \in Got("ingresses"), NEW r \in Broken(i)
         PROVE  FALSE
    <2> DEFINE U == UNION {Broken(j) : j \in Got("ingresses")}
    <2>1. r \in U
      OBVIOUS
    <2> HIDE DEF U
    <2>2. r.name \in Names(U)
      BY <2>1 DEF Names
    <2> QED BY <1>7, <2>2 DEF U
  <1> QED BY <1>2, <1>8, <1>9, <1>10

\* Whatever lists answer, the all-clear of the Network screen is not given
\* over a route that cannot serve or a service with an endpoint missing.
THEOREM AllClearMeansServing == ReadsSpec => []AllClearServes
  <1>1. WellFormed(seen) /\ SlicesFormed => AllClearServes
    <2> SUFFICES ASSUME WellFormed(seen), SlicesFormed,
                        AllClear \in {f.title : f \in NetworkFindings}
                 PROVE  /\ \A i \in Got("ingresses") : \A r \in i.rules :
                              \E svc \in seen["services"],
                                 p \in UNION {s.ports : s \in seen["services"]} :
                                  /\ svc.name = r.service
                                  /\ p \in svc.ports /\ (r.port = p.name \/ r.port = p.number)
                                  /\ \/ svc.type = "ExternalName"
                                     \/ \E s \in Got("slices") :
                                           s.service = svc.name /\ s.ends.ready + s.ends.unsaid > 0
                        /\ \A svc \in seen["services"] : svc.selects /\ svc.type # "ExternalName" =>
                              /\ \E s \in Got("slices") : s.service = svc.name /\ SliceReady(s) > 0
                              /\ \A s \in Got("slices") : s.service = svc.name => s.ends.unready = 0
      BY DEF AllClearServes
    <2>1. Known("services") /\ Got("services") = seen["services"]
      BY AllClearGiven DEF Got
    <2>2. ASSUME NEW i \in Got("ingresses"), NEW r \in i.rules
          PROVE  \E svc \in seen["services"],
                    p \in UNION {s.ports : s \in seen["services"]} :
                    /\ svc.name = r.service
                    /\ p \in svc.ports /\ (r.port = p.name \/ r.port = p.number)
                    /\ \/ svc.type = "ExternalName"
                       \/ \E s \in Got("slices") :
                             s.service = svc.name /\ s.ends.ready + s.ends.unsaid > 0
      <3>1. ~Problem(r)
        BY AllClearGiven DEF Broken
      <3>2. PICK svc \in Got("services") :
              /\ svc.name = r.service
              /\ Exposes(svc, r.port)
              /\ ReadyEndpoints(svc) > 0 \/ svc.type = "ExternalName"
        BY <3>1 DEF Problem
      <3>3. PICK p \in svc.ports : r.port = p.name \/ r.port = p.number
        BY <3>2 DEF Exposes
      <3>4. svc.type = "ExternalName" \/ \E s \in SlicesOf(svc) : SliceReady(s) > 0
        BY <3>2, EndpointsCounted
      <3>5. svc.type = "ExternalName" \/
              \E s \in Got("slices") : s.service = svc.name /\ s.ends.ready + s.ends.unsaid > 0
        BY <3>4 DEF SlicesOf, SliceReady
      <3> QED BY <2>1, <3>2, <3>3, <3>5
    <2>3. ASSUME NEW svc \in Got("services"), svc.selects, svc.type # "ExternalName"
          PROVE  /\ \E s \in SlicesOf(svc) : SliceReady(s) > 0
                 /\ \A s \in SlicesOf(svc) : s.ends.unready = 0
      <3>1. ServiceHealth(svc) # "critical" /\ ServiceHealth(svc) # "serious"
        BY AllClearGiven DEF WithHealth
      <3>2. ReadyEndpoints(svc) # 0 /\ ~(ReadyEndpoints(svc) < TotalEndpoints(svc))
        BY <2>3, <3>1 DEF ServiceHealth
      <3> QED BY <3>2, EndpointsCounted
    <2> QED BY <2>1, <2>2, <2>3 DEF SlicesOf
  <1> QED BY <1>1, SlicesSeen, PTL

(***************************************************************************)
(* The overview of a cluster, also while things break in it.               *)
(***************************************************************************)
USE PodsAssumption, ContainersAssumption, LimitAssumption

\* What is seen, formed as answers are.
Formed(a) ==
    /\ WellFormed(a) /\ PodsFormed(a) /\ ContainersFormed(a)
    /\ NodesFormed(a) /\ WorkloadsFormed(a) /\ EventsFormed(a)

ClusterInv == Formed(seen) /\ SlicesFormed

LEMMA ListsNamed ==
    /\ Kinds \subseteq Lists
    /\ {"pods", "nodes", "events", "slices", "version", "services"} \subseteq Lists \ Kinds
  BY DEF Lists, Kinds

\* What breaks stays a pod, a node or a deployment of its list.
LEMMA CrashedIsFormed ==
    ASSUME NEW p, PodFormed(p),
           NEW worse, worse = [p EXCEPT !.ready = FALSE, !.states = <<"CrashLoopBackOff">>]
    PROVE  /\ PodFormed(worse) /\ DOMAIN worse = DOMAIN p
           /\ worse.states = <<"CrashLoopBackOff">> /\ worse.ready = FALSE
           /\ worse.name = p.name /\ worse.restarts = p.restarts /\ worse.uses = p.uses
           /\ worse.main = p.main /\ worse.inits = p.inits /\ worse.node = p.node
           /\ worse.phase = p.phase
           /\ "containers" \in DOMAIN p => worse.containers = p.containers
  <1>1. DOMAIN <<"CrashLoopBackOff">> \subseteq Nat \ {0}
    OBVIOUS
  <1>2. {"name", "restarts", "states", "uses", "main", "inits", "node", "ns", "phase",
         "ready", "reason"} \subseteq DOMAIN p
    BY DEF PodFormed
  <1>3. /\ DOMAIN worse = DOMAIN p
        /\ worse.name = p.name /\ worse.restarts = p.restarts /\ worse.uses = p.uses
        /\ worse.main = p.main /\ worse.inits = p.inits /\ worse.node = p.node
        /\ worse.phase = p.phase
        /\ worse.states = <<"CrashLoopBackOff">> /\ worse.ready = FALSE
        /\ "containers" \in DOMAIN p => worse.containers = p.containers
    BY <1>2
  <1>4. PodFormed(worse)
    BY <1>1, <1>2, <1>3 DEF PodFormed
  <1> QED BY <1>3, <1>4

\* One object of a list was replaced.
LEMMA Replaced ==
    ASSUME ClusterInv, NEW l \in Lists, NEW o, NEW worse,
           Known(l), Becomes(l, o, worse)
    PROVE  /\ DOMAIN seen' = Lists
           /\ seen'[l] = (seen[l] \ {o}) \cup {worse}
           /\ \A k \in Lists \ {l} : seen'[k] = seen[k]
           /\ \A k \in Lists : seen'[k] = Refused \/ IsFiniteSet(seen'[k])
           /\ seen'[l] # Refused
  <1>1. /\ DOMAIN seen' = Lists
        /\ seen'[l] = (seen[l] \ {o}) \cup {worse}
        /\ \A k \in Lists \ {l} : seen'[k] = seen[k]
    BY DEF Becomes, ClusterInv, Formed, WellFormed
  <1>2. IsFiniteSet(seen[l])
    BY DEF ClusterInv, Formed, WellFormed, Known
  <1>3. IsFiniteSet(seen[l] \ {o})
    BY <1>2, FS_RemoveElement
  <1>4. IsFiniteSet(seen'[l])
    BY <1>1, <1>3, FS_AddElement
  <1> QED BY <1>1, <1>4 DEF ClusterInv, Formed, WellFormed, Becomes, Known

\* It goes by its own name still, so every object is there once.
LEMMA StillNamedOnce ==
    ASSUME NEW S, NamedOnce(S), NEW o \in S, NEW worse, worse.name = o.name,
           NEW T, T = (S \ {o}) \cup {worse}
    PROVE  NamedOnce(T)
  BY DEF NamedOnce

LEMMA CrashKeeps ==
    ASSUME ClusterInv, NEW p \in Got("pods"), Crash(p)
    PROVE  ClusterInv'
  <1> DEFINE worse == [p EXCEPT !.ready = FALSE, !.states = <<"CrashLoopBackOff">>]
  <1>1. "pods" \in Lists /\ Known("pods") /\ p \in seen["pods"] /\ Becomes("pods", p, worse)
    BY DEF Got, Known, Lists, Crash
  <1>2. /\ \A q \in seen["pods"] : /\ PodFormed(q) /\ \A u \in q.uses : u.place \in Places
                                   /\ "containers" \in DOMAIN q /\ IsFiniteSet(q.containers)
        /\ NamedOnce(seen["pods"])
    BY <1>1 DEF ClusterInv, Formed, WellFormed, PodsFormed, ContainersFormed, ContainersOf, Known
  <1>3. /\ worse.uses = p.uses /\ PodFormed(worse) /\ worse.name = p.name
        /\ DOMAIN worse = DOMAIN p /\ worse.containers = p.containers
    BY <1>1, <1>2, CrashedIsFormed
  <1> HIDE DEF worse
  <1>4. /\ DOMAIN seen' = Lists
        /\ seen'["pods"] = (seen["pods"] \ {p}) \cup {worse}
        /\ \A k \in Lists \ {"pods"} : seen'[k] = seen[k]
        /\ \A k \in Lists : seen'[k] = Refused \/ IsFiniteSet(seen'[k])
        /\ seen'["pods"] # Refused
    BY <1>1, Replaced
  <1>5. /\ \A q \in seen'["pods"] : /\ PodFormed(q) /\ \A u \in q.uses : u.place \in Places
                                    /\ "containers" \in DOMAIN q /\ IsFiniteSet(q.containers)
        /\ NamedOnce(seen'["pods"])
    BY <1>1, <1>2, <1>3, <1>4, StillNamedOnce
  <1>6. WellFormed(seen') /\ PodsFormed(seen') /\ ContainersFormed(seen')
    BY <1>4, <1>5 DEF WellFormed, PodsFormed, ContainersFormed, ContainersOf
  <1>7. NodesFormed(seen') /\ WorkloadsFormed(seen') /\ EventsFormed(seen') /\ SlicesFormed'
    BY <1>4, ListsNamed
       DEF ClusterInv, Formed, NodesFormed, WorkloadsFormed, EventsFormed, SlicesFormed, Got, Known
  <1> QED BY <1>6, <1>7 DEF ClusterInv, Formed

\* A node that is down or cordoned keeps the rest of what it was.
LEMMA NodeHarmed ==
    ASSUME NEW n, NodeFormed(n), NodeDown(n) \/ CordonNode(n)
    PROVE  \E worse : /\ Becomes("nodes", n, worse) /\ NodeFormed(worse)
                      /\ worse.name = n.name /\ worse.has = n.has /\ worse.zone = n.zone
                      /\ worse.minor = n.minor /\ worse.pressure = n.pressure
                      /\ worse.ready => n.ready
                      /\ n.cordoned => worse.cordoned
  <1>1. /\ {"name", "zone", "has", "ready", "cordoned", "pressure", "minor"} \subseteq DOMAIN n
        /\ n.has \in Asks
    BY DEF NodeFormed
  <1>2. CASE NodeDown(n)
    <2> DEFINE worse == [n EXCEPT !.ready = FALSE]
    <2>1. /\ NodeFormed(worse)
          /\ worse.name = n.name /\ worse.has = n.has /\ worse.zone = n.zone
          /\ worse.minor = n.minor /\ worse.pressure = n.pressure
          /\ worse.ready = FALSE /\ worse.cordoned = n.cordoned
      BY <1>1 DEF NodeFormed
    <2> QED BY <1>2, <2>1 DEF NodeDown
  <1>3. CASE CordonNode(n)
    <2> DEFINE worse == [n EXCEPT !.cordoned = TRUE]
    <2>1. /\ NodeFormed(worse)
          /\ worse.name = n.name /\ worse.has = n.has /\ worse.zone = n.zone
          /\ worse.minor = n.minor /\ worse.pressure = n.pressure
          /\ worse.ready = n.ready /\ worse.cordoned = TRUE
      BY <1>1 DEF NodeFormed
    <2> QED BY <1>3, <2>1 DEF CordonNode
  <1> QED BY <1>2, <1>3

LEMMA NodeHarmKeeps ==
    ASSUME ClusterInv, NEW n \in Got("nodes"), NodeDown(n) \/ CordonNode(n)
    PROVE  ClusterInv'
  <1>1. "nodes" \in Lists /\ Known("nodes") /\ n \in seen["nodes"]
    BY DEF Got, Known, Lists
  <1>2. (\A m \in seen["nodes"] : NodeFormed(m)) /\ NamedOnce(seen["nodes"])
    BY <1>1 DEF ClusterInv, Formed, NodesFormed, Known
  <1>3. PICK worse : Becomes("nodes", n, worse) /\ NodeFormed(worse) /\ worse.name = n.name
    BY <1>1, <1>2, NodeHarmed
  <1>4. /\ DOMAIN seen' = Lists
        /\ seen'["nodes"] = (seen["nodes"] \ {n}) \cup {worse}
        /\ \A k \in Lists \ {"nodes"} : seen'[k] = seen[k]
        /\ \A k \in Lists : seen'[k] = Refused \/ IsFiniteSet(seen'[k])
    BY <1>1, <1>3, Replaced
  <1>5. (\A m \in seen'["nodes"] : NodeFormed(m)) /\ NamedOnce(seen'["nodes"])
    BY <1>1, <1>2, <1>3, <1>4, StillNamedOnce
  <1>6. NodesFormed(seen')
    BY <1>5 DEF NodesFormed
  <1>7. WellFormed(seen') /\ PodsFormed(seen') /\ ContainersFormed(seen')
    BY <1>4, ListsNamed DEF ClusterInv, Formed, WellFormed, PodsFormed, ContainersFormed
  <1>8. WorkloadsFormed(seen') /\ EventsFormed(seen') /\ SlicesFormed'
    BY <1>4, ListsNamed
       DEF ClusterInv, Formed, WorkloadsFormed, EventsFormed, SlicesFormed, Got, Known
  <1> QED BY <1>6, <1>7, <1>8 DEF ClusterInv, Formed

\* So does a deployment that has lost a replica.
LEMMA LossHarmed ==
    ASSUME NEW w, WorkloadFormed(w), LoseReplica(w)
    PROVE  \E worse : /\ Becomes("deployments", w, worse) /\ WorkloadFormed(worse)
                      /\ worse.name = w.name /\ worse.replicas = w.replicas
                      /\ worse.ready < w.ready
  <1> DEFINE worse == [w EXCEPT !.ready = @ - 1]
  <1>1. w.ready > 0 /\ Becomes("deployments", w, worse)
    BY DEF LoseReplica
  <1>2. {"name", "replicas", "ready"} \subseteq DOMAIN w /\ w.replicas \in Nat /\ w.ready \in Nat
    BY DEF WorkloadFormed
  <1>3. /\ DOMAIN worse = DOMAIN w /\ worse.name = w.name /\ worse.replicas = w.replicas
        /\ worse.ready = w.ready - 1
    BY <1>2
  <1> HIDE DEF worse
  <1> QED BY <1>1, <1>2, <1>3 DEF WorkloadFormed

LEMMA LossKeeps ==
    ASSUME ClusterInv, NEW w \in Got("deployments"), LoseReplica(w)
    PROVE  ClusterInv'
  <1>1. /\ "deployments" \in Kinds \cap Lists /\ Known("deployments")
        /\ w \in seen["deployments"]
    BY DEF Got, Known, Lists, Kinds
  <1> DEFINE listed == {k \in Kinds : seen[k] # Refused}
             later == {k \in Kinds : seen'[k] # Refused}
  <1>2. /\ \A k \in listed : \A v \in seen[k] : WorkloadFormed(v)
        /\ \A k, l \in listed : \A u \in seen[k], v \in seen[l] :
              u.name = v.name => k = l /\ u = v
    BY DEF ClusterInv, Formed, WorkloadsFormed
  <1>3. WorkloadFormed(w)
    BY <1>1, <1>2 DEF Known
  <1>4. PICK worse : /\ Becomes("deployments", w, worse) /\ WorkloadFormed(worse)
                     /\ worse.name = w.name
    BY <1>3, LossHarmed
  <1>5. /\ DOMAIN seen' = Lists
        /\ seen'["deployments"] = (seen["deployments"] \ {w}) \cup {worse}
        /\ \A k \in Lists \ {"deployments"} : seen'[k] = seen[k]
        /\ \A k \in Lists : seen'[k] = Refused \/ IsFiniteSet(seen'[k])
        /\ seen'["deployments"] # Refused
    BY <1>1, <1>4, Replaced
  <1>6. WorkloadsFormed(seen')
    <2>1. later = listed /\ "deployments" \in listed /\ listed \subseteq Lists
      BY <1>1, <1>5, ListsNamed DEF Known
    <2>2. \A k \in listed : \A v \in seen'[k] :
             /\ WorkloadFormed(v)
             /\ \E u \in seen[k] : u.name = v.name /\ (v = u \/ (k = "deployments" /\ v = worse /\ u = w))
      BY <1>1, <1>2, <1>4, <1>5, <2>1
    <2>3. ASSUME NEW k \in listed, NEW l \in listed, NEW u \in seen'[k], NEW v \in seen'[l],
                 u.name = v.name
          PROVE  k = l /\ u = v
      <3>1. PICK a \in seen[k] : a.name = u.name
                /\ (u = a \/ (k = "deployments" /\ u = worse /\ a = w))
        BY <2>2
      <3>2. PICK b \in seen[l] : b.name = v.name
                /\ (v = b \/ (l = "deployments" /\ v = worse /\ b = w))
        BY <2>2
      <3>3. k = l /\ a = b
        BY <1>2, <2>3, <3>1, <3>2
      <3>4. u = a /\ a = w /\ k = "deployments" => a = worse
        BY <1>5, <3>1
      <3> QED BY <3>1, <3>2, <3>3, <3>4, <1>5
    <2> HIDE DEF listed, later
    <2>4. \A k \in later : \A v \in seen'[k] : WorkloadFormed(v)
      BY <2>1, <2>2
    <2>5. \A k, l \in later : \A u \in seen'[k], v \in seen'[l] :
              u.name = v.name => k = l /\ u = v
      BY <2>1, <2>3
    <2> QED BY <2>4, <2>5 DEF WorkloadsFormed, later
  <1>7. WellFormed(seen') /\ PodsFormed(seen') /\ ContainersFormed(seen')
    BY <1>5, ListsNamed DEF ClusterInv, Formed, WellFormed, PodsFormed, ContainersFormed, Kinds
  <1>8. NodesFormed(seen') /\ EventsFormed(seen') /\ SlicesFormed'
    BY <1>5, ListsNamed
       DEF ClusterInv, Formed, NodesFormed, EventsFormed, SlicesFormed, Got, Known, Kinds
  <1> QED BY <1>6, <1>7, <1>8 DEF ClusterInv, Formed

THEOREM ClusterInvariant == ClusterSpec => []ClusterInv
  <1>1. ReadsInit => ClusterInv
    BY ListsNamed DEF ReadsInit, ClusterInv, Formed, PodsFormed, NodesFormed, WellFormed,
       ContainersFormed, WorkloadsFormed, EventsFormed, SlicesFormed, Got, Known, Lists
  <1>2. ClusterInv /\ [ClusterNext]_seen => ClusterInv'
    <2> SUFFICES ASSUME ClusterInv, [ClusterNext]_seen PROVE ClusterInv'
      OBVIOUS
    <2>1. CASE UNCHANGED seen
      BY <2>1 DEF ClusterInv, Formed, SlicesFormed, Got, Known
    <2>2. CASE Load
      <3>1. PICK i \in DOMAIN Answers : seen' \in Answers[i]
        BY <2>2 DEF Load
      <3>2. Formed(seen')
        BY <3>1 DEF Formed
      <3>3. SlicesFormed'
        BY <3>1 DEF SlicesFormed, Got, Known
      <3> QED BY <3>2, <3>3 DEF ClusterInv
    <2>3. ASSUME NEW p \in Got("pods"), Crash(p)
          PROVE  ClusterInv'
      BY <2>3, CrashKeeps
    <2>4. ASSUME NEW n \in Got("nodes"), NodeDown(n) \/ CordonNode(n)
          PROVE  ClusterInv'
      BY <2>4, NodeHarmKeeps
    <2>5. ASSUME NEW w \in Got("deployments"), LoseReplica(w)
          PROVE  ClusterInv'
      BY <2>5, LossKeeps
    <2> QED BY <2>1, <2>2, <2>3, <2>4, <2>5 DEF ClusterNext, Harm
  <1> QED BY <1>1, <1>2, PTL DEF ClusterSpec

---------------------------------------------------------------------------
\* Every pod has a severity, and being worse is an order.
LEMMA SeveritiesRanked ==
    \A p : Badness[ProblemSeverity(p)] \in 1 .. 3
           /\ (Badness[ProblemSeverity(p)] = 3 <=> ProblemSeverity(p) = "critical")
  BY DEF Badness, ProblemSeverity, ReasonSeverity

LEMMA WorseIsAnOrder ==
    ASSUME NEW p, NEW q, NEW r, PodFormed(p), PodFormed(q), PodFormed(r)
    PROVE  /\ ~WorseThan(p, p)
           /\ WorseThan(p, q) /\ WorseThan(q, r) => WorseThan(p, r)
           /\ Badness[ProblemSeverity(p)] > Badness[ProblemSeverity(q)] => WorseThan(p, q)
  <1> DEFINE Weight(x) == Badness[ProblemSeverity(x)]
  <1>1. \A x \in {p, q, r} : Weight(x) \in Nat /\ x.name \in Nat /\ x.restarts \in Nat
    <2>1. \A x : PodFormed(x) => x.name \in Nat /\ x.restarts \in Nat
      BY DEF PodFormed
    <2> QED BY <2>1, SeveritiesRanked
  <1>2. \A x, y : WorseThan(x, y) <=>
                    \/ Weight(x) > Weight(y)
                    \/ Weight(x) = Weight(y) /\ x.restarts > y.restarts
                    \/ Weight(x) = Weight(y) /\ x.restarts = y.restarts /\ x.name < y.name
    BY DEF WorseThan
  <1> HIDE DEF Weight
  <1>3. WorseThan(p, q) /\ WorseThan(q, r) => WorseThan(p, r)
    BY <1>1, <1>2
  <1>4. ~WorseThan(p, p) /\ (Weight(p) > Weight(q) => WorseThan(p, q))
    BY <1>1, <1>2
  <1> QED BY <1>3, <1>4 DEF Weight

\* The pods worse than one: few for the worst.
Worse(p) == {q \in Problems : WorseThan(q, p)}

LEMMA WorseCounted ==
    ASSUME ClusterInv
    PROVE  /\ IsFiniteSet(Problems)
           /\ \A p \in Problems : /\ PodFormed(p)
                                  /\ IsFiniteSet(Worse(p)) /\ Cardinality(Worse(p)) \in Nat
           /\ \A p, q \in Problems : WorseThan(q, p) => Cardinality(Worse(q)) < Cardinality(Worse(p))
  <1>1. IsFiniteSet(Got("pods")) /\ \A p \in Got("pods") : PodFormed(p)
    BY FS_EmptySet DEF ClusterInv, Formed, WellFormed, PodsFormed, Got, Known, Lists
  <1>2. IsFiniteSet(Problems) /\ \A p \in Problems : PodFormed(p)
    BY <1>1, FS_Subset DEF Problems
  <1>3. \A p : IsFiniteSet(Worse(p)) /\ Cardinality(Worse(p)) \in Nat
    BY <1>2, FS_Subset, FS_CardinalityType DEF Worse
  <1>4. ASSUME NEW p \in Problems, NEW q \in Problems, WorseThan(q, p)
        PROVE  Cardinality(Worse(q)) < Cardinality(Worse(p))
    <2>1. Worse(q) \in SUBSET Worse(p) /\ q \in Worse(p) /\ q \notin Worse(q)
      BY <1>2, <1>4, WorseIsAnOrder DEF Worse
    <2> QED BY <1>3, <2>1, FS_Subset
  <1> QED BY <1>2, <1>3, <1>4

\* A problem with nothing worse is there, and it is shown.
LEMMA WorstShown ==
    ASSUME ClusterInv, NEW p \in Problems, ProblemSeverity(p) = "critical"
    PROVE  CriticalShown # {}
  <1> DEFINE B == {Cardinality(Worse(q)) : q \in Problems}
  <1>1. B \in SUBSET Nat /\ B # {}
    BY WorseCounted
  <1>2. PICK w \in Problems : \A q \in Problems : Cardinality(Worse(w)) <= Cardinality(Worse(q))
    <2>1. PICK m \in B : \A k \in B : m <= k
      <3> HIDE DEF B
      <3> QED BY <1>1, LeastOf
    <2> QED BY <2>1
  <1>3. Worse(w) = {}
    <2> SUFFICES ASSUME NEW q \in Worse(w) PROVE FALSE
      OBVIOUS
    <2>1. q \in Problems /\ WorseThan(q, w)
      BY DEF Worse
    <2>2. Cardinality(Worse(q)) < Cardinality(Worse(w))
      BY <2>1, WorseCounted
    <2> QED BY <1>2, <2>1, <2>2, WorseCounted
  <1>4. w \in ShownProblems
    BY <1>3, FS_EmptySet DEF ShownProblems, Worse
  <1>5. ~WorseThan(p, w)
    BY <1>3 DEF Worse
  <1>6. ~(Badness[ProblemSeverity(p)] > Badness[ProblemSeverity(w)])
    BY <1>5, WorseCounted, WorseIsAnOrder
  <1>7. ProblemSeverity(w) = "critical"
    BY <1>6, SeveritiesRanked
  <1> QED BY <1>4, <1>7 DEF CriticalShown

\* A pod whose first blocking state is a crash loop is a critical problem.
LEMMA CrashLoopIsCritical ==
    ASSUME ClusterInv, NEW p \in Got("pods"), NEW i \in DOMAIN p.states,
           p.states[i] = "CrashLoopBackOff",
           \A j \in 1 .. i - 1 : p.states[j] \notin Blocking
    PROVE  p \in Problems /\ ProblemSeverity(p) = "critical"
  <1> DEFINE blocked == {j \in DOMAIN p.states : p.states[j] \in Blocking}
  <1>1. PodFormed(p)
    BY DEF ClusterInv, Formed, PodsFormed, Got, Known
  <1>2. \A j \in DOMAIN p.states : j \in Nat \ {0}
    BY <1>1 DEF PodFormed
  <1>3. i \in blocked /\ \A j \in blocked : i <= j
    BY <1>2 DEF Blocking
  <1>4. \A k \in blocked : (\A j \in blocked : k <= j) => k = i
    BY <1>2, <1>3
  <1> HIDE DEF blocked
  <1>5. Min(blocked) = i
    BY <1>3, <1>4 DEF Min
  <1>6. ProblemReason(p) = "CrashLoopBackOff"
    BY <1>3, <1>5 DEF ProblemReason, blocked
  <1> QED BY <1>6 DEF Problems, HasProblem, ProblemSeverity, ReasonSeverity

\* However many pods have a problem, and whatever breaks meanwhile, the cut of
\* the list of problem pods hides none that is worse than one it shows, and a
\* pod that crash-loops makes its finding.
THEOREM WorstIsShown == ClusterSpec => []WorstNeverHidden
  <1>1. ClusterInv => WorstNeverHidden
    <2> SUFFICES ASSUME ClusterInv, Answered PROVE WorstNeverHidden
      BY DEF WorstNeverHidden
    <2>1. ASSUME NEW p \in ShownProblems, NEW q \in Problems \ ShownProblems
          PROVE  Badness[ProblemSeverity(p)] >= Badness[ProblemSeverity(q)]
      <3>1. /\ p \in Problems /\ Cardinality(Worse(p)) < ProblemPodLimit
            /\ ~(Cardinality(Worse(q)) < ProblemPodLimit)
        BY DEF ShownProblems, Worse
      <3>2. ~WorseThan(q, p)
        BY <3>1, WorseCounted
      <3>3. ~(Badness[ProblemSeverity(q)] > Badness[ProblemSeverity(p)])
        BY <3>1, <3>2, WorseCounted, WorseIsAnOrder
      <3> QED BY <3>3, SeveritiesRanked
    <2>2. ASSUME NEW p \in Got("pods"), NEW i \in DOMAIN p.states,
                 p.states[i] = "CrashLoopBackOff",
                 \A j \in 1 .. i - 1 : p.states[j] \notin Blocking
          PROVE  \E f \in ClusterFindings : f.title = CrashLooping
      <3>1. PICK x : x \in CriticalShown
        BY <2>2, CrashLoopIsCritical, WorstShown
      <3>2. x.name \in Names(CriticalShown)
        BY <3>1 DEF Names
      <3> DEFINE made == [severity |-> "critical", title |-> CrashLooping,
                          targets |-> Names(CriticalShown)]
      <3>3. made \in ClusterFaults
        BY <3>2, FindingMade DEF ClusterFaults
      <3>4. made.title = CrashLooping
        OBVIOUS
      <3> HIDE DEF made
      <3> QED BY <3>3, <3>4 DEF ClusterFindings
    <2> QED BY <2>1, <2>2 DEF WorstNeverHidden
  <1> QED BY <1>1, ClusterInvariant, PTL

(***************************************************************************)
(* What is requested and what there is.                                    *)
(***************************************************************************)
\* What an init container asks for, which of them are sidecars, and the one
\* that comes last of some.
InitAsks(p, axis) == [k \in DOMAIN p.inits |-> p.inits[k].asks[axis]]
Sidecars(p) == {k \in DOMAIN p.inits : p.inits[k].sidecar}

LEMMA MainAsks ==
    ASSUME NEW asks \in Seq(Asks), NEW axis \in Axes
    PROVE  Sum(asks, axis) \in Nat
  <1> DEFINE F == [i \in DOMAIN asks |-> asks[i][axis]]
  <1>1. IsFiniteSet(DOMAIN asks)
    BY FS_Interval
  <1>2. \A i \in DOMAIN asks : F[i] \in Nat
    BY DEF Asks
  <1>3. DOMAIN F = DOMAIN asks
    OBVIOUS
  <1>4. Sum(asks, axis) = SumFunctionOnSet(F, DOMAIN asks)
    BY <1>3 DEF Sum, SumFunction
  <1> HIDE DEF F
  <1> QED BY <1>1, <1>2, <1>4, FunctionSum, SumRemove

LEMMA LastOf ==
    ASSUME NEW s \in SUBSET Nat, IsFiniteSet(s), s # {}
    PROVE  Max(s) \in s
  BY GreatestOf DEF Max

\* The fold of PodResources is the recursion it is meant to be.
Next1(p, axis, I, s) ==
    IF p.inits[Max(s)].sidecar THEN I[s \ {Max(s)}] + p.inits[Max(s)].asks[axis]
    ELSE IF I[s \ {Max(s)}] < p.inits[Max(s)].asks[axis] THEN p.inits[Max(s)].asks[axis]
    ELSE I[s \ {Max(s)}]

LEMMA ResourcesFolded ==
    ASSUME NEW p, PodFormed(p), NEW axis \in Axes
    PROVE  \E I : /\ PodResources(p, axis) = I[DOMAIN p.inits]
                  /\ I[{}] = Sum(p.main, axis)
                  /\ \A s \in SUBSET DOMAIN p.inits :
                        s # {} => Max(s) \in s /\ I[s] = Next1(p, axis, I, s)
  <1> DEFINE D == DOMAIN p.inits
             base == Sum(p.main, axis)
             Body(I) == [s \in SUBSET D |-> IF s = {} THEN base
                  ELSE IF p.inits[Max(s)].sidecar
                         THEN I[s \ {Max(s)}] + p.inits[Max(s)].asks[axis]
                       ELSE IF I[s \ {Max(s)}] < p.inits[Max(s)].asks[axis]
                         THEN p.inits[Max(s)].asks[axis]
                       ELSE I[s \ {Max(s)}]]
             C == CHOOSE I : I = Body(I)
  <1>1. PodResources(p, axis) = C[D]
    BY DEF PodResources, FoldLeft, MapThenFoldSet
  <1>2. p.main \in Seq(Asks) /\ p.inits \in Seq([sidecar : BOOLEAN, asks : Asks])
    BY DEF PodFormed
  <1>3. base \in Nat
    BY <1>2, MainAsks
  <1>4. /\ IsFiniteSet(D) /\ D \in SUBSET Nat
        /\ \A k \in D : p.inits[k].asks[axis] \in Nat
    <2>1. Len(p.inits) \in Nat /\ D = 1 .. Len(p.inits)
      BY <1>2
    <2> DEFINE R == [sidecar : BOOLEAN, asks : Asks]
    <2>2. \A k \in 1 .. Len(p.inits) : p.inits[k] \in R
      <3> HIDE DEF R
      <3>1. p.inits \in Seq(R)
        BY <1>2 DEF R
      <3> QED BY <3>1
    <2>3. \A i \in R : i.asks \in [Axes -> Nat]
      BY DEF Asks
    <2>4. \A a \in [Axes -> Nat] : a[axis] \in Nat
      OBVIOUS
    <2>5. \A n \in Nat : IsFiniteSet(1 .. n)
      BY FS_Interval
    <2> HIDE DEF D, R
    <2>6. IsFiniteSet(D) /\ D \in SUBSET Nat
      BY <2>1, <2>5
    <2> QED BY <2>1, <2>2, <2>3, <2>4, <2>6
  <1> HIDE DEF D, base
  <1>5. ASSUME NEW s \in SUBSET D, s # {}
        PROVE  Max(s) \in s
    BY <1>4, <1>5, LastOf, FS_Subset
  <1> DEFINE Step == [x \in D \X Nat |->
                  IF p.inits[x[1]].sidecar THEN x[2] + p.inits[x[1]].asks[axis]
                  ELSE IF x[2] < p.inits[x[1]].asks[axis] THEN p.inits[x[1]].asks[axis]
                  ELSE x[2]]
             Pick == [s \in SUBSET D |-> Max(s)]
  <1>6. \A x \in D \X Nat : Step[x] \in Nat
    <2> TAKE x \in D \X Nat
    <2>1. x[1] \in D /\ x[2] \in Nat /\ p.inits[x[1]].asks[axis] \in Nat
      BY <1>4
    <2> QED BY <2>1
  <1>7. PICK I : Folds(Step, base, Pick, D, I)
    <2>1. \A s \in SUBSET D : s # {} => Pick[s] \in s
      BY <1>5
    <2> HIDE DEF Step, Pick
    <2> QED BY <1>4, <2>1, FoldExists
  <1>8. \A s \in SUBSET D : I[s] = Folded(Step, base, Pick, I, s)
    <2> HIDE DEF Step, Pick
    <2> QED BY <1>7 DEF Folds
  <1>9. \A s \in SUBSET D : I[s] \in Nat
    <2> DEFINE G == {s \in SUBSET D : I[s] \in Nat}
    <2>1. {} \in G
      BY <1>3, <1>8 DEF Folded
    <2>2. ASSUME NEW s \in SUBSET D, s # {}, \A x \in s : s \ {x} \in G
          PROVE  s \in G
      <3>1. Max(s) \in s /\ Pick[s] = Max(s)
        BY <1>5, <2>2
      <3>2. <<Max(s), I[s \ {Max(s)}]>> \in D \X Nat
        BY <2>2, <3>1
      <3>3. I[s] = Step[<<Max(s), I[s \ {Max(s)}]>>]
        BY <1>8, <2>2, <3>1 DEF Folded
      <3> HIDE DEF Step
      <3> QED BY <1>6, <3>2, <3>3
    <2>3. ASSUME NEW t \in SUBSET D
          PROVE  t \in G
      <3> DEFINE H == {s \in SUBSET t : s \in G}
      <3>1. IsFiniteSet(t) /\ {} \in H
        BY <1>4, <2>1, FS_Subset
      <3>2. \A s \in SUBSET t : s # {} /\ (\A x \in s : s \ {x} \in H) => s \in H
        <4> HIDE DEF G
        <4> QED BY <2>2
      <3>3. t \in H
        <4> HIDE DEF H
        <4> QED BY <3>1, <3>2, InductionOnAll
      <3> QED BY <3>3
    <2> QED BY <2>3
  <1>10. ASSUME NEW s \in SUBSET D
         PROVE  I[s] = Body(I)[s]
    <2>1. CASE s = {}
      BY <1>8, <2>1 DEF Folded
    <2>2. CASE s # {}
      <3>1. Max(s) \in s /\ Pick[s] = Max(s)
        BY <1>5, <2>2
      <3>2. <<Max(s), I[s \ {Max(s)}]>> \in D \X Nat
        BY <1>9, <3>1
      <3>3. I[s] = Step[<<Max(s), I[s \ {Max(s)}]>>]
        BY <1>8, <2>2, <3>1 DEF Folded
      <3> QED BY <2>2, <3>2, <3>3
    <2> QED BY <2>1, <2>2
  <1>11. I = Body(I)
    <2> HIDE DEF Step, Pick
    <2>1. I = [s \in SUBSET D |-> I[s]]
      BY <1>7 DEF Folds
    <2>2. [s \in SUBSET D |-> I[s]] = [s \in SUBSET D |-> Body(I)[s]]
      BY <1>10
    <2> QED BY <2>1, <2>2
  <1> HIDE DEF Body
  <1>12. C = Body(C)
    BY <1>11, Zenon
  <1> HIDE DEF C
  <1>13. \A s \in SUBSET D : C[s] = IF s = {} THEN base ELSE Next1(p, axis, C, s)
    BY <1>12 DEF Body, Next1
  <1> QED BY <1>1, <1>5, <1>13 DEF D, base

\* After some of the init containers, the last of them last, the fold is at
\* least what runs together and what each of the others asks, and at most one
\* of these with all sidecars on top.
Covered(p, axis, s, v) ==
    LET A == InitAsks(p, axis)
        together == Sum(p.main, axis) + SumOf(A, s \cap Sidecars(p))
    IN  /\ v \in Nat /\ v >= together
        /\ \A k \in s \ Sidecars(p) : v >= A[k]
        /\ \/ v <= together
           \/ \E k \in s \ Sidecars(p) : v <= A[k] + SumOf(A, s \cap Sidecars(p))

LEMMA InitTypes ==
    ASSUME NEW p, PodFormed(p), NEW axis \in Axes
    PROVE  /\ Sum(p.main, axis) \in Nat
           /\ IsFiniteSet(DOMAIN p.inits) /\ DOMAIN p.inits \in SUBSET Nat
           /\ \A k \in DOMAIN p.inits : InitAsks(p, axis)[k] \in Nat
           /\ \A s \in SUBSET DOMAIN p.inits :
                 /\ IsFiniteSet(s) /\ SumOf(InitAsks(p, axis), s) \in Nat
                 /\ \A k \in s : SumOf(InitAsks(p, axis), s) =
                                   InitAsks(p, axis)[k] + SumOf(InitAsks(p, axis), s \ {k})
  <1> DEFINE R == [sidecar : BOOLEAN, asks : Asks]
  <1>1. p.main \in Seq(Asks) /\ p.inits \in Seq(R)
    BY DEF PodFormed
  <1>2. \A i \in R : i.asks \in [Axes -> Nat]
    BY DEF Asks
  <1>3. \A a \in [Axes -> Nat] : a[axis] \in Nat
    OBVIOUS
  <1>4. \A n \in Nat : IsFiniteSet(1 .. n)
    BY FS_Interval
  <1> HIDE DEF R
  <1>5. /\ Len(p.inits) \in Nat /\ DOMAIN p.inits = 1 .. Len(p.inits)
        /\ \A k \in 1 .. Len(p.inits) : p.inits[k] \in R
    BY <1>1
  <1>6. \A k \in DOMAIN p.inits : InitAsks(p, axis)[k] \in Nat
    BY <1>2, <1>3, <1>5 DEF InitAsks
  <1>7. IsFiniteSet(DOMAIN p.inits) /\ DOMAIN p.inits \in SUBSET Nat
    BY <1>4, <1>5
  <1>8. ASSUME NEW s \in SUBSET DOMAIN p.inits
        PROVE  /\ IsFiniteSet(s) /\ SumOf(InitAsks(p, axis), s) \in Nat
               /\ \A k \in s : SumOf(InitAsks(p, axis), s) =
                                 InitAsks(p, axis)[k] + SumOf(InitAsks(p, axis), s \ {k})
    <2>1. IsFiniteSet(s) /\ \A k \in s : InitAsks(p, axis)[k] \in Nat
      BY <1>6, <1>7, FS_Subset
    <2> QED BY <2>1, SumRemove
  <1>9. Sum(p.main, axis) \in Nat
    BY <1>1, MainAsks
  <1> QED BY <1>6, <1>7, <1>8, <1>9

LEMMA NextCovers ==
    ASSUME NEW p, PodFormed(p), NEW axis \in Axes, NEW s \in SUBSET DOMAIN p.inits,
           NEW m \in s, NEW u, Covered(p, axis, s \ {m}, u), NEW v,
           v = IF p.inits[m].sidecar THEN u + p.inits[m].asks[axis]
               ELSE IF u < p.inits[m].asks[axis] THEN p.inits[m].asks[axis] ELSE u
    PROVE  Covered(p, axis, s, v)
  <1> DEFINE A == InitAsks(p, axis)
             b == Sum(p.main, axis)
             S == s \cap Sidecars(p)
             T == (s \ {m}) \cap Sidecars(p)
  <1>1. A[m] = p.inits[m].asks[axis] /\ (m \in Sidecars(p) <=> p.inits[m].sidecar = TRUE)
    BY DEF InitAsks, Sidecars
  <1>2. /\ b \in Nat /\ SumOf(A, S) \in Nat /\ SumOf(A, T) \in Nat
        /\ \A k \in s : A[k] \in Nat
        /\ \A k \in S : SumOf(A, S) = A[k] + SumOf(A, S \ {k})
    BY InitTypes
  <1>3. /\ u \in Nat /\ u >= b + SumOf(A, T)
        /\ \A k \in (s \ {m}) \ Sidecars(p) : u >= A[k]
    BY DEF Covered
  <1>4. u <= b + SumOf(A, T)
              \/ \E k \in (s \ {m}) \ Sidecars(p) : u <= A[k] + SumOf(A, T)
    BY DEF Covered
  <1>5. CASE m \in Sidecars(p)
    <2>1. m \in S /\ S \ {m} = T
      BY <1>5
    <2>2. SumOf(A, S) = A[m] + SumOf(A, T)
      BY <1>2, <2>1
    <2>3. v = u + A[m] /\ A[m] \in Nat
      BY <1>1, <1>2, <1>5
    <2> HIDE DEF A, b, S, T
    <2>4. v \in Nat /\ v >= b + SumOf(A, S) /\ v >= u
      BY <1>2, <1>3, <2>2, <2>3
    <2>5. \A k \in s \ Sidecars(p) : k # m /\ A[k] \in Nat /\ u >= A[k]
      BY <1>2, <1>3, <1>5
    <2>6. \A k \in s \ Sidecars(p) : v >= A[k]
      BY <1>3, <2>4, <2>5
    <2>7. v <= b + SumOf(A, S) \/ \E k \in s \ Sidecars(p) : v <= A[k] + SumOf(A, S)
      <3>1. CASE u <= b + SumOf(A, T)
        BY <1>2, <1>3, <2>2, <2>3, <3>1
      <3>2. CASE \E k \in (s \ {m}) \ Sidecars(p) : u <= A[k] + SumOf(A, T)
        <4>1. PICK k \in (s \ {m}) \ Sidecars(p) : u <= A[k] + SumOf(A, T)
          BY <3>2
        <4>2. v <= A[k] + SumOf(A, S) /\ k \in s \ Sidecars(p)
          BY <1>2, <1>3, <2>2, <2>3, <2>5, <4>1
        <4> QED BY <4>2
      <3> QED BY <1>4, <3>1, <3>2
    <2> QED BY <2>4, <2>6, <2>7 DEF Covered, A, b, S
  <1>6. CASE m \notin Sidecars(p)
    <2>1. S = T
      BY <1>6
    <2>2. v = (IF u < A[m] THEN A[m] ELSE u) /\ A[m] \in Nat
      BY <1>1, <1>2, <1>6
    <2> HIDE DEF A, b, S, T
    <2>3. v \in Nat /\ v >= u /\ v >= A[m] /\ (v = u \/ v = A[m])
      BY <1>3, <2>2
    <2>4. v >= b + SumOf(A, S)
      BY <1>2, <1>3, <2>1, <2>3
    <2>5. \A k \in s \ Sidecars(p) : v >= A[k]
      <3> TAKE k \in s \ Sidecars(p)
      <3>1. k # m => u >= A[k]
        BY <1>3
      <3> QED BY <1>2, <1>3, <2>3, <3>1
    <2>6. v <= b + SumOf(A, S) \/ \E k \in s \ Sidecars(p) : v <= A[k] + SumOf(A, S)
      <3>1. CASE v = u
        BY <1>4, <2>1, <3>1
      <3>2. CASE v = A[m]
        <4>1. m \in s \ Sidecars(p) /\ v <= A[m] + SumOf(A, S)
          BY <1>2, <1>6, <2>2, <3>2
        <4> QED BY <4>1
      <3> QED BY <2>3, <3>1, <3>2
    <2> QED BY <2>3, <2>4, <2>5, <2>6 DEF Covered, A, b, S
  <1> QED BY <1>5, <1>6

LEMMA ResourcesCover ==
    ASSUME NEW p, PodFormed(p), NEW axis \in Axes
    PROVE  Covered(p, axis, DOMAIN p.inits, PodResources(p, axis))
  <1> DEFINE D == DOMAIN p.inits
  <1>1. PICK I : /\ PodResources(p, axis) = I[D]
                 /\ I[{}] = Sum(p.main, axis)
                 /\ \A s \in SUBSET D : s # {} => Max(s) \in s /\ I[s] = Next1(p, axis, I, s)
    BY ResourcesFolded
  <1> DEFINE G == {s \in SUBSET D : Covered(p, axis, s, I[s])}
  <1>2. {} \in G
    <2>1. {} \cap Sidecars(p) = {} /\ SumOf(InitAsks(p, axis), {}) = 0
      BY SumOfNone
    <2>2. Sum(p.main, axis) \in Nat
      BY InitTypes
    <2>3. Covered(p, axis, {}, Sum(p.main, axis))
      BY <2>1, <2>2 DEF Covered
    <2> QED BY <1>1, <2>3
  <1>3. ASSUME NEW s \in SUBSET D, s # {}, \A x \in s : s \ {x} \in G
        PROVE  s \in G
    <2>1. Max(s) \in s /\ I[s] = Next1(p, axis, I, s)
      BY <1>1, <1>3
    <2>2. Covered(p, axis, s \ {Max(s)}, I[s \ {Max(s)}])
      BY <1>3, <2>1
    <2>3. Covered(p, axis, s, I[s])
      BY <2>1, <2>2, NextCovers DEF Next1
    <2> QED BY <2>3
  <1>4. IsFiniteSet(D)
    BY InitTypes
  <1>5. D \in G
    <2> HIDE DEF G
    <2> QED BY <1>2, <1>3, <1>4, InductionOnAll
  <1> QED BY <1>1, <1>5

LEMMA PodsShown ==
    ASSUME ClusterInv
    PROVE  /\ IsFiniteSet(Got("pods")) /\ IsFiniteSet(Got("nodes"))
           /\ \A p \in Got("pods") : PodFormed(p)
           /\ \A m, n \in Got("nodes") : m.name = n.name => m = n
           /\ \A n \in Got("nodes") : n.has \in Asks
  <1>1. "pods" \in Lists /\ "nodes" \in Lists
    BY DEF Lists
  <1> QED BY <1>1, FS_EmptySet
          DEF ClusterInv, Formed, WellFormed, PodsFormed, NodesFormed, NodeFormed, NamedOnce, Got, Known

\* Whatever a pod's containers are, in whatever order its init containers and
\* sidecars stand, what it is counted with covers what runs together and each
\* init container alone, and is at most the larger of the containers and one
\* init container with every sidecar on top.
THEOREM PodsAreCovered == ClusterSpec => []RequestsCoverPods
  <1>1. ClusterInv => RequestsCoverPods
    <2> SUFFICES ASSUME ClusterInv, NEW p \in Got("pods"), NEW axis \in Axes
                 PROVE  LET sidecars == Sidecars(p)
                            solo == {p.inits[k].asks[axis] : k \in DOMAIN p.inits \ sidecars}
                            beside == SumFunction([k \in sidecars |-> p.inits[k].asks[axis]])
                        IN  /\ \A a \in solo \cup {Sum(p.main, axis) + beside} :
                                  PodResources(p, axis) >= a
                            /\ \E a \in solo \cup {Sum(p.main, axis)} :
                                  PodResources(p, axis) <= a + beside
      BY DEF RequestsCoverPods, Sidecars
    <2> DEFINE A == InitAsks(p, axis)
               S == Sidecars(p)
               F == [k \in S |-> p.inits[k].asks[axis]]
    <2>1. PodFormed(p)
      BY PodsShown
    <2>2. S \in SUBSET DOMAIN p.inits /\ DOMAIN p.inits \cap S = S /\ DOMAIN F = S
      BY DEF Sidecars
    <2>3. /\ IsFiniteSet(S) /\ \A k \in S : A[k] \in Nat
      BY <2>1, <2>2, InitTypes
    <2>4. \A k \in S : F[k] = A[k]
      BY <2>2 DEF InitAsks
    <2>5. SumFunction(F) = SumOf(A, S)
      <3>1. SumFunction(F) = SumFunctionOnSet(F, S)
        BY <2>2 DEF SumFunction
      <3> HIDE DEF F, A, S
      <3>2. SumFunctionOnSet(F, S) = SumOf(F, S)
        BY <2>3, FunctionSum
      <3>3. SumOf(F, S) = SumOf(A, S)
        BY <2>3, <2>4, SumAgrees
      <3> QED BY <3>1, <3>2, <3>3
    <2>6. Covered(p, axis, DOMAIN p.inits, PodResources(p, axis))
      BY <2>1, ResourcesCover
    <2>7. \A k \in DOMAIN p.inits : A[k] = p.inits[k].asks[axis]
      BY DEF InitAsks
    <2> DEFINE v == PodResources(p, axis)
               solo == {p.inits[k].asks[axis] : k \in DOMAIN p.inits \ S}
               main == Sum(p.main, axis)
               beside == SumFunction(F)
    <2>8. /\ v >= main + beside /\ \A k \in DOMAIN p.inits \ S : v >= A[k]
          /\ v <= main + beside \/ \E k \in DOMAIN p.inits \ S : v <= A[k] + beside
      BY <2>2, <2>5, <2>6 DEF Covered
    <2>9. solo = {A[k] : k \in DOMAIN p.inits \ S}
      BY <2>7
    <2>10. /\ \A a \in solo \cup {main + beside} : v >= a
           /\ \E a \in solo \cup {main} : v <= a + beside
      <3> HIDE DEF v, main, beside, A, S, solo
      <3> QED BY <2>8, <2>9
    <2> QED BY <2>10
  <1> QED BY <1>1, ClusterInvariant, PTL

\* What the pods of a set are counted with.
Counts(axis) == [p \in Got("pods") |-> PodResources(p, axis)]
LiveOn(n) == {p \in PodsOn(n) : ~Terminal(p)}

LEMMA CountsFor ==
    ASSUME ClusterInv, NEW axis \in Axes, NEW S \in SUBSET Got("pods")
    PROVE  /\ SumFunction([p \in S |-> PodResources(p, axis)]) = SumOf(Counts(axis), S)
           /\ \A p \in S : Counts(axis)[p] \in Nat
  <1> DEFINE F == [p \in S |-> PodResources(p, axis)]
  <1>1. IsFiniteSet(S) /\ DOMAIN F = S
    BY PodsShown, FS_Subset
  <1>2. \A p \in S : F[p] = Counts(axis)[p]
    BY DEF Counts
  <1>3. \A p \in S : Counts(axis)[p] \in Nat
    <2> TAKE p \in S
    <2>1. PodFormed(p)
      BY PodsShown
    <2>2. PodResources(p, axis) \in Nat
      BY <2>1, ResourcesCover DEF Covered
    <2> QED BY <2>2 DEF Counts
  <1> HIDE DEF F
  <1>4. SumFunction(F) = SumOf(F, S)
    BY <1>1, WholeFunctionSum
  <1>5. SumOf(F, S) = SumOf(Counts(axis), S)
    BY <1>1, <1>2, <1>3, SumAgrees
  <1> QED BY <1>3, <1>4, <1>5 DEF F

\* From the nodes to the cluster: what the pods on them that live ask for.
LEMMA RequestsAddUp ==
    ASSUME ClusterInv, NEW axis \in Axes,
           NEW L, L = {p \in Got("pods") : p.node \in Names(Got("nodes")) /\ ~Terminal(p)}
    PROVE  TotalRequested(axis) = SumOf(Counts(axis), L)
  <1> DEFINE K == Got("nodes")
             H == [n \in K |-> Requested(n, axis)]
             P == [n \in K |-> LiveOn(n)]
             S == Got("pods")
  <1>1. IsFiniteSet(K) /\ IsFiniteSet(S) /\ DOMAIN H = K
    BY PodsShown
  <1>2. \A n \in K : P[n] = LiveOn(n) /\ P[n] \in SUBSET S
    BY DEF LiveOn, PodsOn
  <1>3. \A m, n \in K : m # n => P[m] \cap P[n] = {}
    BY <1>2, PodsShown DEF LiveOn, PodsOn
  <1>4. \A n \in K : H[n] = SumOf(Counts(axis), P[n])
    BY <1>2, CountsFor DEF Requested, LiveOn
  <1>5. \A p \in S : Counts(axis)[p] \in Nat
    BY CountsFor
  <1>6. UNION {P[n] : n \in K} = L
    BY <1>2 DEF LiveOn, PodsOn, Names
  <1> HIDE DEF K, H, P, S
  <1>7. SumOf(H, K) = SumOf(Counts(axis), UNION {P[n] : n \in K})
    BY <1>1, <1>2, <1>3, <1>4, <1>5, SumOfParts
  <1>8. SumFunction(H) = SumOf(H, K)
    BY <1>1, WholeFunctionSum
  <1> QED BY <1>6, <1>7, <1>8 DEF TotalRequested, H, K

LEMMA SlotsAddUp ==
    ASSUME ClusterInv
    PROVE  SlotsUsed = Cardinality({p \in Got("pods") : p.node \in Names(Got("nodes"))})
  <1> DEFINE K == Got("nodes")
             H == [n \in K |-> Cardinality(PodsOn(n))]
             P == [n \in K |-> PodsOn(n)]
             S == Got("pods")
  <1>1. IsFiniteSet(K) /\ IsFiniteSet(S) /\ DOMAIN H = K
    BY PodsShown
  <1>2. \A n \in K : P[n] = PodsOn(n) /\ P[n] \in SUBSET S /\ H[n] = Cardinality(P[n])
    BY DEF PodsOn
  <1>3. \A m, n \in K : m # n => P[m] \cap P[n] = {}
    BY <1>2, PodsShown DEF PodsOn
  <1>4. UNION {P[n] : n \in K} = {p \in S : p.node \in Names(K)}
    BY <1>2 DEF PodsOn, Names
  <1> HIDE DEF K, H, P, S
  <1>5. SumOf(H, K) = Cardinality(UNION {P[n] : n \in K})
    BY <1>1, <1>2, <1>3, CountOfParts
  <1>6. SumFunction(H) = SumOf(H, K)
    BY <1>1, WholeFunctionSum
  <1> QED BY <1>4, <1>5, <1>6 DEF SlotsUsed, H, K, S

LEMMA ZonesAddUp ==
    ASSUME ClusterInv
    PROVE  SumFunction([z \in Zones |-> Cardinality({n \in Got("nodes") : n.zone = z})])
               = Cardinality(Got("nodes"))
  <1> DEFINE S == Got("nodes")
             P == [z \in Zones |-> {n \in S : n.zone = z}]
             H == [z \in Zones |-> Cardinality({n \in S : n.zone = z})]
  <1>1. IsFiniteSet(S) /\ DOMAIN H = Zones
    BY PodsShown
  <1>2. IsFiniteSet(Zones)
    <2> DEFINE F == [n \in S |-> n.zone]
    <2>1. \A z \in Zones : \E n \in S : z = F[n]
      BY DEF Zones
    <2> HIDE DEF F, S, H, P
    <2> QED BY <1>1, <2>1, ImageIsFinite
  <1>3. /\ \A z \in Zones : P[z] \in SUBSET S /\ H[z] = Cardinality(P[z])
        /\ \A y, z \in Zones : y # z => P[y] \cap P[z] = {}
    OBVIOUS
  <1>4. UNION {P[z] : z \in Zones} = S
    <2>1. \A n \in S : n.zone \in Zones /\ n \in P[n.zone]
      BY DEF Zones
    <2>2. \A z \in Zones : P[z] \in SUBSET S
      BY <1>3
    <2> HIDE DEF P, S, H
    <2> QED BY <2>1, <2>2
  <1> HIDE DEF H, P, S
  <1>5. SumOf(H, Zones) = Cardinality(UNION {P[z] : z \in Zones})
    BY <1>1, <1>2, <1>3, CountOfParts
  <1>6. SumFunction(H) = SumOf(H, Zones)
    BY <1>1, <1>2, WholeFunctionSum
  <1> QED BY <1>4, <1>5, <1>6 DEF H, S

LEMMA BucketsAddUp ==
    ASSUME ClusterInv,
           NEW buckets, buckets = RankedBuckets(ByNamespace, TopListLimit)
    PROVE  Cardinality({p \in Got("pods") : p.ns \in buckets.shown}) + buckets.other
               = Cardinality(Got("pods"))
  <1> DEFINE S == Got("pods")
             D == DOMAIN ByNamespace
             cut == D \ buckets.shown
             T == {p \in S : p.ns \in buckets.shown}
             P == [a \in cut |-> {p \in S : p.ns = a}]
  <1>1. IsFiniteSet(S) /\ D = {p.ns : p \in S}
    BY PodsShown DEF ByNamespace
  <1>2. IsFiniteSet(D) /\ IsFiniteSet(cut)
    <2> DEFINE F == [p \in S |-> p.ns]
    <2>1. \A a \in D : \E p \in S : a = F[p]
      BY <1>1
    <2>2. IsFiniteSet(D)
      <3> HIDE DEF F, S, D
      <3> QED BY <1>1, <2>1, ImageIsFinite
    <2> QED BY <2>2, FS_Subset
  <1>3. buckets.other = SumFunctionOnSet(ByNamespace, cut)
    BY DEF RankedBuckets
  <1>4. /\ \A a \in cut : P[a] \in SUBSET S /\ ByNamespace[a] = Cardinality(P[a])
        /\ \A a, b \in cut : a # b => P[a] \cap P[b] = {}
    BY DEF ByNamespace
  <1>5. UNION {P[a] : a \in cut} = S \ T
    <2>1. \A p \in S \ T : p.ns \in cut /\ p \in P[p.ns]
      BY <1>1
    <2>2. \A a \in cut : P[a] \in SUBSET (S \ T)
      OBVIOUS
    <2> HIDE DEF P, cut, S, T
    <2> QED BY <2>1, <2>2
  <1>6. T \in SUBSET S /\ S \ T \in SUBSET S
    OBVIOUS
  <1> HIDE DEF S, D, cut, T, P
  <1>7. SumOf(ByNamespace, cut) = Cardinality(S \ T)
    <2>1. /\ IsFiniteSet(cut) /\ IsFiniteSet(S)
          /\ \A k \in cut : P[k] \in SUBSET S
          /\ \A j, k \in cut : j # k => P[j] \cap P[k] = {}
          /\ \A k \in cut : ByNamespace[k] = Cardinality(P[k])
      BY <1>1, <1>2, <1>4
    <2>2. SumOf(ByNamespace, cut) = Cardinality(UNION {P[k] : k \in cut})
      BY <2>1, CountOfParts
    <2> QED BY <1>5, <2>2, Zenon
  <1>8. buckets.other = Cardinality(S \ T)
    BY <1>2, <1>3, <1>7, FunctionSum
  <1>9. Cardinality(T) + Cardinality(S \ T) = Cardinality(S)
    <2>1. IsFiniteSet(T) /\ IsFiniteSet(S \ T) /\ T \cap (S \ T) = {} /\ T \cup (S \ T) = S
      BY <1>1, <1>6, FS_Subset
    <2>2. Cardinality(T \cup (S \ T)) =
              Cardinality(T) + Cardinality(S \ T) - Cardinality(T \cap (S \ T))
      BY <2>1, FS_Union
    <2>3. Cardinality(T \cap (S \ T)) = 0
      BY <2>1, FS_EmptySet
    <2>4. Cardinality(S) = Cardinality(T) + Cardinality(S \ T) - Cardinality(T \cap (S \ T))
      BY <2>1, <2>2, Zenon
    <2>5. Cardinality(T) \in Nat /\ Cardinality(S \ T) \in Nat
      BY <2>1, FS_CardinalityType
    <2> QED BY <2>3, <2>4, <2>5
  <1>10. Cardinality(T) + buckets.other = Cardinality(S)
    BY <1>8, <1>9
  <1> QED BY <1>10 DEF S, T

\* For every cluster, also while things break in it: the requests, slots, zones
\* and namespaces of the overview are those of its nodes and pods, each once.
THEOREM CapacityIsExact == ClusterSpec => []CapacityAddsUp
  <1>1. ClusterInv => CapacityAddsUp
    <2> SUFFICES ASSUME ClusterInv PROVE CapacityAddsUp
      OBVIOUS
    <2> DEFINE placed == {p \in Got("pods") : p.node \in Names(Got("nodes"))}
               L == {p \in placed : p.phase \notin {"Succeeded", "Failed"}}
    <2>1. ASSUME NEW axis \in Axes
          PROVE  TotalRequested(axis) = SumFunction([p \in L |-> PodResources(p, axis)])
      <3>1. L = {p \in Got("pods") : p.node \in Names(Got("nodes")) /\ ~Terminal(p)}
        BY DEF Terminal
      <3>2. L \in SUBSET Got("pods")
        OBVIOUS
      <3> HIDE DEF L
      <3> QED BY <3>1, <3>2, RequestsAddUp, CountsFor
    <2>2. SlotsUsed = Cardinality(placed)
      BY SlotsAddUp
    <2> QED BY <2>1, <2>2, ZonesAddUp, BucketsAddUp DEF CapacityAddsUp
  <1> QED BY <1>1, ClusterInvariant, PTL

---------------------------------------------------------------------------
(***************************************************************************)
(* The pods at the head of the list of those with a critical problem.      *)
(***************************************************************************)
Before(C, p) == {q \in C : WorseThan(q, p)}
FirstOf(C, k) == {p \in C : Cardinality(Before(C, p)) < k}

\* What stands in the place of another counts as one too.
LEMMA SwapCounts ==
    ASSUME NEW A, IsFiniteSet(A), NEW o \in A, NEW w, w \notin A \ {o},
           NEW B, B = (A \ {o}) \cup {w}
    PROVE  IsFiniteSet(B) /\ Cardinality(B) = Cardinality(A)
  <1>1. /\ IsFiniteSet(A \ {o}) /\ Cardinality(A) \in Nat
        /\ Cardinality(A \ {o}) = Cardinality(A) - 1
    BY Smaller
  <1>2. IsFiniteSet(B) /\ Cardinality(B) = Cardinality(A \ {o}) + 1
    BY <1>1, FS_AddElement
  <1> QED BY <1>1, <1>2

\* No two pods of different names stand in the same place.
LEMMA WorseIsTotal ==
    ASSUME NEW p, NEW q, PodFormed(p), PodFormed(q), p.name # q.name
    PROVE  WorseThan(p, q) \/ WorseThan(q, p)
  <1>1. /\ p.name \in Nat /\ q.name \in Nat /\ p.restarts \in Nat /\ q.restarts \in Nat
    BY DEF PodFormed
  <1>2. Badness[ProblemSeverity(p)] \in 1 .. 3 /\ Badness[ProblemSeverity(q)] \in 1 .. 3
    BY SeveritiesRanked
  <1> QED BY <1>1, <1>2 DEF WorseThan

LEMMA BeforeCounted ==
    ASSUME NEW C, IsFiniteSet(C), \A p \in C : PodFormed(p), NEW p, PodFormed(p)
    PROVE  /\ IsFiniteSet(Before(C, p)) /\ Cardinality(Before(C, p)) \in Nat
           /\ \A q \in C : WorseThan(q, p) => Cardinality(Before(C, q)) < Cardinality(Before(C, p))
  <1>1. \A x : IsFiniteSet(Before(C, x)) /\ Cardinality(Before(C, x)) \in Nat
    BY FS_Subset, FS_CardinalityType DEF Before
  <1>2. ASSUME NEW q \in C, WorseThan(q, p)
        PROVE  Cardinality(Before(C, q)) < Cardinality(Before(C, p))
    <2>1. Before(C, q) \in SUBSET Before(C, p) /\ q \in Before(C, p) /\ q \notin Before(C, q)
      BY <1>2, WorseIsAnOrder DEF Before
    <2> QED BY <1>1, <2>1, FS_Subset
  <1> QED BY <1>1, <1>2

\* One that is no worse and no better in the place of another, of the same name.
LEMMA FirstSwapped ==
    ASSUME NEW C, IsFiniteSet(C), \A q \in C : PodFormed(q), NamedOnce(C), NEW k \in Nat,
           NEW p \in C, NEW w, PodFormed(w), w.name = p.name, w.restarts = p.restarts,
           ProblemSeverity(w) = ProblemSeverity(p),
           NEW D, D = (C \ {p}) \cup {w}
    PROVE  Cardinality(FirstOf(D, k)) = Cardinality(FirstOf(C, k))
  <1>1. w \notin C \ {p}
    BY DEF NamedOnce
  <1>2. \A q : /\ WorseThan(w, q) <=> WorseThan(p, q)
               /\ WorseThan(q, w) <=> WorseThan(q, p)
    BY DEF WorseThan
  <1>3. ASSUME NEW q, PodFormed(q)
        PROVE  Cardinality(Before(D, q)) = Cardinality(Before(C, q))
    <2>1. IsFiniteSet(Before(C, q))
      BY <1>3, BeforeCounted
    <2>2. CASE p \in Before(C, q)
      <3>1. Before(D, q) = (Before(C, q) \ {p}) \cup {w}
        BY <1>2, <2>2 DEF Before
      <3>2. w \notin Before(C, q) \ {p}
        BY <1>1 DEF Before
      <3> DEFINE B == Before(C, q)
                 E == (B \ {p}) \cup {w}
      <3>3. IsFiniteSet(B) /\ p \in B /\ w \notin B \ {p} /\ E = (B \ {p}) \cup {w}
        BY <2>1, <2>2, <3>2
      <3> HIDE DEF B, E
      <3>4. Cardinality(E) = Cardinality(B)
        BY <3>3, SwapCounts
      <3> QED BY <3>1, <3>4, Zenon DEF B, E
    <2>3. CASE p \notin Before(C, q)
      <3>1. Before(D, q) = Before(C, q)
        BY <1>2, <2>3 DEF Before
      <3> QED BY <3>1, Zenon
    <2> QED BY <2>2, <2>3
  <1>4. Before(D, w) = Before(D, p)
    BY <1>2 DEF Before
  <1>5. IsFiniteSet(FirstOf(C, k))
    BY FS_Subset DEF FirstOf
  <1>6. CASE p \in FirstOf(C, k)
    <2>1. FirstOf(D, k) = (FirstOf(C, k) \ {p}) \cup {w}
      BY <1>3, <1>4, <1>6 DEF FirstOf
    <2>2. w \notin FirstOf(C, k) \ {p}
      BY <1>1 DEF FirstOf
    <2> DEFINE B == FirstOf(C, k)
               E == (B \ {p}) \cup {w}
    <2>3. IsFiniteSet(B) /\ p \in B /\ w \notin B \ {p} /\ E = (B \ {p}) \cup {w}
      BY <1>5, <1>6, <2>2
    <2> HIDE DEF B, E
    <2>4. Cardinality(E) = Cardinality(B)
      BY <2>3, SwapCounts
    <2> QED BY <2>1, <2>4, Zenon DEF B, E
  <1>7. CASE p \notin FirstOf(C, k)
    <2>1. FirstOf(D, k) = FirstOf(C, k)
      BY <1>3, <1>4, <1>7 DEF FirstOf
    <2> QED BY <2>1, Zenon
  <1> QED BY <1>6, <1>7

\* One more: it pushes out at most one, and then it is there itself.
LEMMA FirstAdded ==
    ASSUME NEW C, IsFiniteSet(C), \A q \in C : PodFormed(q), NEW k \in Nat,
           NEW w, PodFormed(w), \A q \in C : q.name # w.name, NamedOnce(C),
           NEW D, D = C \cup {w}
    PROVE  Cardinality(FirstOf(C, k)) <= Cardinality(FirstOf(D, k))
  <1>1. IsFiniteSet(D) /\ (\A q \in D : PodFormed(q)) /\ w \notin C
    BY FS_AddElement
  <1>2. /\ IsFiniteSet(FirstOf(C, k)) /\ IsFiniteSet(FirstOf(D, k))
        /\ Cardinality(FirstOf(C, k)) \in Nat /\ Cardinality(FirstOf(D, k)) \in Nat
    BY <1>1, FS_Subset, FS_CardinalityType DEF FirstOf
  <1>3. ASSUME NEW q \in C
        PROVE  /\ Before(D, q) = Before(C, q) \cup IF WorseThan(w, q) THEN {w} ELSE {}
               /\ IsFiniteSet(Before(C, q)) /\ Cardinality(Before(C, q)) \in Nat
               /\ Cardinality(Before(D, q)) \in Nat
               /\ WorseThan(w, q) => Cardinality(Before(D, q)) = Cardinality(Before(C, q)) + 1
               /\ ~WorseThan(w, q) => Cardinality(Before(D, q)) = Cardinality(Before(C, q))
    <2>1. Before(D, q) = Before(C, q) \cup IF WorseThan(w, q) THEN {w} ELSE {}
      BY DEF Before
    <2>2. /\ IsFiniteSet(Before(C, q)) /\ Cardinality(Before(C, q)) \in Nat
          /\ Cardinality(Before(D, q)) \in Nat
      BY <1>1, BeforeCounted
    <2>3. w \notin Before(C, q)
      BY <1>1 DEF Before
    <2>4. ASSUME WorseThan(w, q)
          PROVE  Cardinality(Before(D, q)) = Cardinality(Before(C, q)) + 1
      <3>1. Before(D, q) = Before(C, q) \cup {w}
        BY <2>1, <2>4
      <3> QED BY <2>2, <2>3, <3>1, FS_AddElement
    <2>5. ASSUME ~WorseThan(w, q)
          PROVE  Cardinality(Before(D, q)) = Cardinality(Before(C, q))
      <3>1. Before(D, q) = Before(C, q)
        BY <2>1, <2>5
      <3> QED BY <3>1, Zenon
    <2> QED BY <2>1, <2>2, <2>4, <2>5
  <1>4. Before(D, w) = Before(C, w) /\ Cardinality(Before(C, w)) \in Nat
    <2>1. Before(D, w) = Before(C, w)
      BY WorseIsAnOrder DEF Before
    <2> QED BY <2>1, BeforeCounted
  <1>5. CASE w \notin FirstOf(D, k)
    <2>1. ASSUME NEW q \in FirstOf(C, k)
          PROVE  q \in FirstOf(D, k)
      <3>1. q \in C /\ Cardinality(Before(C, q)) < k /\ PodFormed(q)
        BY DEF FirstOf
      <3>2. ~(Cardinality(Before(D, w)) < k)
        BY <1>5 DEF FirstOf
      <3>3. ~WorseThan(w, q)
        <4> SUFFICES ASSUME WorseThan(w, q) PROVE FALSE
          OBVIOUS
        <4>1. Before(C, w) \in SUBSET Before(C, q)
          BY <3>1, WorseIsAnOrder DEF Before
        <4>2. IsFiniteSet(Before(C, q)) /\ Cardinality(Before(C, q)) \in Nat
          BY <1>3, <3>1
        <4>3. Cardinality(Before(C, w)) <= Cardinality(Before(C, q))
          BY <4>1, <4>2, FS_Subset
        <4> QED BY <1>4, <3>1, <3>2, <4>2, <4>3
      <3>4. Cardinality(Before(D, q)) < k
        BY <1>3, <3>1, <3>3
      <3> QED BY <3>1, <3>4 DEF FirstOf
    <2>2. FirstOf(C, k) \in SUBSET FirstOf(D, k)
      BY <2>1
    <2> QED BY <1>2, <2>2, FS_Subset
  <1>6. CASE w \in FirstOf(D, k)
    <2> DEFINE out == FirstOf(C, k) \ FirstOf(D, k)
    <2>1. \A q \in out : q \in C /\ PodFormed(q) /\ Cardinality(Before(C, q)) = k - 1
      <3> TAKE q \in out
      <3>1. /\ q \in C /\ PodFormed(q) /\ Cardinality(Before(C, q)) < k
            /\ ~(Cardinality(Before(D, q)) < k)
        BY DEF FirstOf
      <3> QED BY <1>3, <3>1
    <2>2. \A p, q \in out : p = q
      <3> SUFFICES ASSUME NEW p \in out, NEW q \in out, p # q PROVE FALSE
        OBVIOUS
      <3>1. /\ p \in C /\ PodFormed(p) /\ Cardinality(Before(C, p)) = k - 1
            /\ q \in C /\ PodFormed(q) /\ Cardinality(Before(C, q)) = k - 1
        BY <2>1
      <3>2. p.name # q.name
        BY <3>1 DEF NamedOnce
      <3>3. WorseThan(p, q) \/ WorseThan(q, p)
        BY <3>1, <3>2, WorseIsTotal
      <3>4. /\ WorseThan(p, q) => Cardinality(Before(C, p)) < Cardinality(Before(C, q))
            /\ WorseThan(q, p) => Cardinality(Before(C, q)) < Cardinality(Before(C, p))
        BY <3>1, BeforeCounted
      <3> QED BY <3>1, <3>3, <3>4
    <2> HIDE DEF out
    <2>3. CASE out = {}
      <3>1. FirstOf(C, k) \in SUBSET FirstOf(D, k)
        BY <2>3 DEF out
      <3> QED BY <1>2, <3>1, FS_Subset
    <2>4. CASE out # {}
      <3>1. PICK o \in out : TRUE
        BY <2>4
      <3>2. o \in FirstOf(C, k) /\ \A q \in FirstOf(C, k) : q = o \/ q \in FirstOf(D, k)
        BY <2>2, <3>1 DEF out
      <3> DEFINE E == (FirstOf(C, k) \ {o}) \cup {w}
      <3>3. E \in SUBSET FirstOf(D, k)
        BY <1>6, <3>2
      <3>4. w \notin FirstOf(C, k) \ {o}
        BY <1>1 DEF FirstOf
      <3>5. IsFiniteSet(E) /\ Cardinality(E) = Cardinality(FirstOf(C, k))
        BY <1>2, <3>2, <3>4, SwapCounts
      <3> HIDE DEF E
      <3>6. Cardinality(E) <= Cardinality(FirstOf(D, k))
        BY <1>2, <3>3, FS_Subset
      <3> QED BY <3>5, <3>6
    <2> QED BY <2>3, <2>4
  <1> QED BY <1>5, <1>6

---------------------------------------------------------------------------
(***************************************************************************)
(* What the signals count, of pods, nodes or workloads S.                  *)
(***************************************************************************)
ReadyOf(S) == {o \in S : o.ready}
WellOf(S) == {n \in S : n.pressure = {} /\ ~n.cordoned}
SkewedOf(S) == {n \in S : n.minor = "other"}
ToSchedule(S) == {p \in S : p.phase # "Succeeded"}
CriticalOf(S) == {p \in S : HasProblem(p) /\ ProblemSeverity(p) = "critical"}
ServingOf(S) == {w \in S : ~(w.ready < w.replicas)}
PlacedOf(S, names) == {p \in S : p.node \in names /\ ~Terminal(p)}
CountsOf(S, axis) == [p \in S |-> PodResources(p, axis)]
GivesOf(S, axis) == [n \in S |-> n.has[axis]]

OneOr(n) == IF n = 0 THEN 1 ELSE n

\* The headroom of the axis under the larger pressure: of what there is, ac and
\* am, what is requested, rc and rm.
OfCapacity(ac, am, rc, rm) ==
    LET cpu == Signal("Scheduling headroom", 4 * (ac - rc), ac, 15)
        memory == Signal("Scheduling headroom", 4 * (am - rm), am, 15)
    IN IF ac = 0 THEN {}
       ELSE {IF am = 0 \/ SignalScore(cpu) <= SignalScore(memory) THEN cpu ELSE memory}

LEMMA OfCapacityFormed ==
    ASSUME NEW ac \in Nat, NEW am \in Nat, NEW rc \in Nat, NEW rm \in Nat
    PROVE  /\ SignalsFormed(OfCapacity(ac, am, rc, rm))
           /\ Names(OfCapacity(ac, am, rc, rm)) \subseteq {"Scheduling headroom"}
  <1> DEFINE S == OfCapacity(ac, am, rc, rm)
             cpu == Signal("Scheduling headroom", 4 * (ac - rc), ac, 15)
             memory == Signal("Scheduling headroom", 4 * (am - rm), am, 15)
  <1>1. S = {} \/ (ac # 0 /\ S = {cpu}) \/ (am # 0 /\ S = {memory})
    <2> HIDE DEF cpu, memory
    <2> QED BY DEF OfCapacity, cpu, memory
  <1>2. /\ cpu.name = "Scheduling headroom" /\ memory.name = "Scheduling headroom"
        /\ ac # 0 => SignalFormed(cpu)
        /\ am # 0 => SignalFormed(memory)
    BY DEF SignalFormed, Signal
  <1> HIDE DEF S, cpu, memory
  <1>3. \E s : /\ S = {} \/ (S = {s} /\ SignalFormed(s))
               /\ s.name = "Scheduling headroom"
    BY <1>1, <1>2
  <1>4. SignalsFormed(S) /\ Names(S) \subseteq {"Scheduling headroom"}
    BY <1>3, OneFormed
  <1> QED BY <1>4 DEF S

\* A pod that crash-loops is a critical problem.
LEMMA CrashedIsCritical ==
    ASSUME NEW w, w.states = <<"CrashLoopBackOff">>
    PROVE  HasProblem(w) /\ ProblemSeverity(w) = "critical"
  <1> DEFINE blocked == {j \in DOMAIN w.states : w.states[j] \in Blocking}
  <1>1. blocked = {1} /\ w.states[1] = "CrashLoopBackOff"
    BY DEF Blocking
  <1> HIDE DEF blocked
  <1>2. Min(blocked) = 1
    BY <1>1 DEF Min
  <1>3. ProblemReason(w) = "CrashLoopBackOff"
    BY <1>1, <1>2 DEF ProblemReason, blocked
  <1> QED BY <1>3 DEF HasProblem, ProblemSeverity, ReasonSeverity

LEMMA MoreAreCounted ==
    ASSUME NEW B, IsFiniteSet(B), NEW A \in SUBSET B
    PROVE  /\ IsFiniteSet(A) /\ Cardinality(A) \in Nat /\ Cardinality(B) \in Nat
           /\ Cardinality(A) <= Cardinality(B)
  BY FS_Subset, FS_CardinalityType

\* A sum does not see that one element stands for another that counts as much.
LEMMA SwapSums ==
    ASSUME NEW A, IsFiniteSet(A), NEW o \in A, NEW w, w \notin A \ {o},
           NEW F, \A x \in A : F[x] \in Nat, NEW H, H[w] = F[o],
           \A x \in A \ {o} : H[x] = F[x],
           NEW B, B = (A \ {o}) \cup {w}
    PROVE  SumOf(H, B) = SumOf(F, A)
  <1> DEFINE R == A \ {o}
  <1>1. IsFiniteSet(R) /\ IsFiniteSet(B)
    BY FS_RemoveElement, FS_AddElement
  <1>2. SumOf(F, A) = F[o] + SumOf(F, R)
    BY SumRemove
  <1>3. B \ {w} = R /\ w \in B /\ \A x \in B : H[x] \in Nat
    OBVIOUS
  <1>4. SumOf(H, B) = H[w] + SumOf(H, B \ {w})
    BY <1>1, <1>3, SumRemove
  <1>5. SumOf(H, R) = SumOf(F, R)
    BY <1>1, SumAgrees
  <1> HIDE DEF R
  <1> QED BY <1>2, <1>3, <1>4, <1>5

\* What becomes of a pod that crash-loops, and of what is counted of the pods.
CrashedTo(p, w) ==
    /\ PodFormed(w) /\ w.states = <<"CrashLoopBackOff">> /\ w.ready = FALSE
    /\ w.name = p.name /\ w.restarts = p.restarts /\ w.main = p.main
    /\ w.inits = p.inits /\ w.node = p.node /\ w.phase = p.phase

WorsePods(T, S, k) ==
    /\ Cardinality(ReadyOf(T)) <= Cardinality(ReadyOf(S))
    /\ Cardinality(ToSchedule(T)) = Cardinality(ToSchedule(S))
    /\ Cardinality(FirstOf(CriticalOf(S), k)) <= Cardinality(FirstOf(CriticalOf(T), k))
    /\ \A names : \A axis \in Axes :
          SumOf(CountsOf(T, axis), PlacedOf(T, names)) =
              SumOf(CountsOf(S, axis), PlacedOf(S, names))

LEMMA CrashCounts ==
    ASSUME NEW S, IsFiniteSet(S), \A q \in S : PodFormed(q), NamedOnce(S),
           NEW p \in S, ~Terminal(p), NEW w, CrashedTo(p, w),
           NEW T, T = (S \ {p}) \cup {w}, NEW k \in Nat
    PROVE  WorsePods(T, S, k)
  <1>0. /\ PodFormed(w) /\ w.states = <<"CrashLoopBackOff">> /\ w.ready = FALSE
        /\ w.name = p.name /\ w.restarts = p.restarts /\ w.main = p.main
        /\ w.inits = p.inits /\ w.node = p.node /\ w.phase = p.phase
    BY DEF CrashedTo
  <1>1. w \notin S \ {p} /\ HasProblem(w) /\ ProblemSeverity(w) = "critical"
    BY <1>0, CrashedIsCritical DEF NamedOnce
  <1>2. Cardinality(ReadyOf(T)) <= Cardinality(ReadyOf(S))
    <2>1. ReadyOf(T) \in SUBSET ReadyOf(S) /\ ReadyOf(S) \in SUBSET S
      BY <1>0 DEF ReadyOf
    <2>2. IsFiniteSet(ReadyOf(S))
      BY <2>1, FS_Subset
    <2> QED BY <2>1, <2>2, MoreAreCounted
  <1>3. Cardinality(ToSchedule(T)) = Cardinality(ToSchedule(S))
    <2> DEFINE A == ToSchedule(S)
               B == ToSchedule(T)
    <2>1. p \in A /\ w \notin A \ {p} /\ A \in SUBSET S
      BY <1>0, <1>1 DEF ToSchedule, Terminal
    <2>2. B = (A \ {p}) \cup {w}
      BY <1>0, <2>1 DEF ToSchedule
    <2> HIDE DEF A, B
    <2>3. IsFiniteSet(A)
      BY <2>1, FS_Subset
    <2>4. Cardinality(B) = Cardinality(A)
      BY <2>1, <2>2, <2>3, SwapCounts
    <2> QED BY <2>4 DEF A, B
  <1>4. Cardinality(FirstOf(CriticalOf(S), k)) <= Cardinality(FirstOf(CriticalOf(T), k))
    <2> DEFINE C == CriticalOf(S)
               D == CriticalOf(T)
    <2>1. /\ C \in SUBSET S /\ IsFiniteSet(C) /\ NamedOnce(C) /\ \A q \in C : PodFormed(q)
      BY FS_Subset DEF CriticalOf, NamedOnce
    <2>2. IsFiniteSet(FirstOf(C, k))
      BY <2>1, FS_Subset DEF FirstOf
    <2>3. Cardinality(FirstOf(C, k)) \in Nat
      BY <2>2, FS_CardinalityType
    <2>4. CASE p \in C
      <3>1. D = (C \ {p}) \cup {w} /\ ProblemSeverity(w) = ProblemSeverity(p)
        BY <1>1, <2>4 DEF CriticalOf
      <3> HIDE DEF C, D
      <3>2. Cardinality(FirstOf(D, k)) = Cardinality(FirstOf(C, k))
        BY <1>0, <2>1, <2>4, <3>1, FirstSwapped
      <3> QED BY <2>3, <3>2 DEF C, D
    <2>5. CASE p \notin C
      <3>1. D = C \cup {w}
        BY <1>1, <2>5 DEF CriticalOf
      <3>2. \A q \in C : q.name # w.name
        BY <1>0, <2>1, <2>5 DEF NamedOnce, CriticalOf
      <3> HIDE DEF C, D
      <3>3. Cardinality(FirstOf(C, k)) <= Cardinality(FirstOf(D, k))
        BY <1>0, <2>1, <3>1, <3>2, FirstAdded
      <3> QED BY <3>3 DEF C, D
    <2> QED BY <2>4, <2>5
  <1>5. ASSUME NEW names, NEW axis \in Axes
        PROVE  SumOf(CountsOf(T, axis), PlacedOf(T, names)) =
                   SumOf(CountsOf(S, axis), PlacedOf(S, names))
    <2> DEFINE A == PlacedOf(S, names)
               B == PlacedOf(T, names)
               F == CountsOf(S, axis)
               H == CountsOf(T, axis)
    <2>1. A \in SUBSET S /\ IsFiniteSet(A)
      BY FS_Subset DEF PlacedOf
    <2>2. \A x \in S : PodResources(x, axis) \in Nat
      BY ResourcesCover DEF Covered
    <2>3. /\ \A x \in A : F[x] \in Nat
          /\ \A x \in A \ {p} : H[x] = F[x]
      BY <2>1, <2>2 DEF CountsOf
    <2>4. H[w] = F[p] /\ Terminal(w) = Terminal(p)
      <3>1. PodResources(w, axis) = PodResources(p, axis)
        BY <1>0 DEF PodResources
      <3> QED BY <1>0, <3>1 DEF CountsOf, Terminal
    <2>5. CASE p \in A
      <3>1. B = (A \ {p}) \cup {w} /\ w \notin A \ {p}
        BY <1>0, <1>1, <2>1, <2>4, <2>5 DEF PlacedOf
      <3> HIDE DEF A, B, F, H
      <3>2. SumOf(H, B) = SumOf(F, A)
        BY <2>1, <2>3, <2>4, <2>5, <3>1, SwapSums
      <3> QED BY <3>2 DEF A, B, F, H
    <2>6. CASE p \notin A
      <3>1. B = A /\ A \ {p} = A
        BY <1>0, <2>4, <2>6 DEF PlacedOf
      <3> HIDE DEF A, B, F, H
      <3>2. SumOf(H, A) = SumOf(F, A)
        BY <2>1, <2>3, <3>1, SumAgrees
      <3> QED BY <3>1, <3>2 DEF A, B, F, H
    <2> QED BY <2>5, <2>6
  <1> QED BY <1>2, <1>3, <1>4, <1>5 DEF WorsePods

\* What it counts of its nodes when one of them is down or cordoned.
LEMMA NodeCounts ==
    ASSUME NEW S, IsFiniteSet(S), \A m \in S : NodeFormed(m), NamedOnce(S),
           NEW n \in S, NEW w, w.name = n.name, w.has = n.has, w.minor = n.minor,
           w.pressure = n.pressure, w.ready => n.ready, n.cordoned => w.cordoned,
           NEW T, T = (S \ {n}) \cup {w}
    PROVE  /\ Cardinality(ReadyOf(T)) <= Cardinality(ReadyOf(S))
           /\ Cardinality(WellOf(T)) <= Cardinality(WellOf(S))
           /\ Cardinality(SkewedOf(T)) = Cardinality(SkewedOf(S))
           /\ Cardinality(T) = Cardinality(S)
           /\ Names(T) = Names(S)
           /\ \A axis \in Axes : SumOf(GivesOf(T, axis), T) = SumOf(GivesOf(S, axis), S)
  <1>1. w \notin S \ {n}
    BY DEF NamedOnce
  <1>2. Cardinality(T) = Cardinality(S)
    BY <1>1, SwapCounts
  <1>3. ASSUME NEW A \in SUBSET S, NEW B, B \in SUBSET ((A \ {n}) \cup {w}),
               w \in B => n \in A
        PROVE  /\ Cardinality(B) <= Cardinality(A)
               /\ (n \in A => w \in B) /\ A \ {n} \in SUBSET B => Cardinality(B) = Cardinality(A)
    <2>1. IsFiniteSet(A)
      BY FS_Subset
    <2>2. CASE w \in B
      <3> DEFINE E == (A \ {n}) \cup {w}
      <3>1. w \notin A \ {n} /\ n \in A
        BY <1>1, <1>3, <2>2
      <3>2. IsFiniteSet(E) /\ Cardinality(E) = Cardinality(A)
        BY <2>1, <3>1, SwapCounts
      <3>3. B \in SUBSET E /\ (A \ {n} \in SUBSET B => B = E)
        BY <1>3, <2>2
      <3> HIDE DEF E
      <3> QED BY <3>2, <3>3, MoreAreCounted
    <2>3. CASE w \notin B
      <3>1. B \in SUBSET A /\ (n \notin A /\ A \ {n} \in SUBSET B => B = A)
        BY <1>3, <2>3
      <3> QED BY <2>1, <2>3, <3>1, MoreAreCounted
    <2> QED BY <2>2, <2>3
  <1>4. Cardinality(ReadyOf(T)) <= Cardinality(ReadyOf(S))
    <2>1. /\ ReadyOf(S) \in SUBSET S /\ ReadyOf(T) \in SUBSET ((ReadyOf(S) \ {n}) \cup {w})
          /\ w \in ReadyOf(T) => n \in ReadyOf(S)
      BY DEF ReadyOf
    <2> QED BY <1>3, <2>1
  <1>5. Cardinality(WellOf(T)) <= Cardinality(WellOf(S))
    <2>1. /\ WellOf(S) \in SUBSET S /\ WellOf(T) \in SUBSET ((WellOf(S) \ {n}) \cup {w})
          /\ w \in WellOf(T) => n \in WellOf(S)
      BY DEF WellOf
    <2> QED BY <1>3, <2>1
  <1>6. Cardinality(SkewedOf(T)) = Cardinality(SkewedOf(S))
    <2>1. /\ SkewedOf(S) \in SUBSET S /\ SkewedOf(T) \in SUBSET ((SkewedOf(S) \ {n}) \cup {w})
          /\ (w \in SkewedOf(T) <=> n \in SkewedOf(S))
          /\ SkewedOf(S) \ {n} \in SUBSET SkewedOf(T)
      BY DEF SkewedOf
    <2> QED BY <1>3, <2>1
  <1>7. Names(T) = Names(S)
    BY DEF Names
  <1>8. ASSUME NEW axis \in Axes
        PROVE  SumOf(GivesOf(T, axis), T) = SumOf(GivesOf(S, axis), S)
    <2> DEFINE F == GivesOf(S, axis)
               H == GivesOf(T, axis)
    <2>1. /\ \A x \in S : F[x] \in Nat
          /\ \A x \in S \ {n} : H[x] = F[x]
          /\ H[w] = F[n]
      BY DEF GivesOf, NodeFormed, Asks
    <2> HIDE DEF F, H
    <2>2. SumOf(H, T) = SumOf(F, S)
      BY <1>1, <2>1, SwapSums
    <2> QED BY <2>2 DEF F, H
  <1> QED BY <1>2, <1>4, <1>5, <1>6, <1>7, <1>8

\* And of its workloads when a deployment loses a replica.
LEMMA LossCounts ==
    ASSUME NEW S, IsFiniteSet(S), \A v \in S : WorkloadFormed(v), NamedOnce(S),
           NEW o \in S, NEW w, WorkloadFormed(w), w.name = o.name,
           w.replicas = o.replicas, w.ready < o.ready,
           NEW T, T = (S \ {o}) \cup {w}
    PROVE  /\ Cardinality(T) = Cardinality(S)
           /\ Cardinality(ServingOf(T)) <= Cardinality(ServingOf(S))
  <1>1. w \notin S \ {o}
    BY DEF NamedOnce
  <1>2. Cardinality(T) = Cardinality(S)
    BY <1>1, SwapCounts
  <1> DEFINE A == ServingOf(S)
             B == ServingOf(T)
             E == (A \ {o}) \cup {w}
  <1>3. A \in SUBSET S /\ IsFiniteSet(A)
    BY FS_Subset DEF ServingOf
  <1>4. w.ready \in Nat /\ o.ready \in Nat /\ w.replicas \in Nat /\ o.replicas \in Nat
    BY DEF WorkloadFormed
  <1>5. w \in B => o \in A
    BY <1>4 DEF ServingOf
  <1>6. B \in SUBSET ((A \ {o}) \cup {w})
    BY DEF ServingOf
  <1> HIDE DEF A, B, E
  <1>7. CASE w \in B
    <2>1. w \notin A \ {o} /\ o \in A /\ E = (A \ {o}) \cup {w}
      BY <1>1, <1>3, <1>5, <1>7 DEF E
    <2>2. IsFiniteSet(E) /\ Cardinality(E) = Cardinality(A)
      BY <1>3, <2>1, SwapCounts
    <2>3. B \in SUBSET E
      BY <1>6, <2>1
    <2> QED BY <1>2, <2>2, <2>3, MoreAreCounted DEF A, B
  <1>8. CASE w \notin B
    <2>1. B \in SUBSET A
      BY <1>6, <1>8
    <2> QED BY <1>2, <1>3, <2>1, MoreAreCounted DEF A, B
  <1> QED BY <1>7, <1>8

---------------------------------------------------------------------------
(***************************************************************************)
(* What the score is drawn from.                                           *)
(***************************************************************************)
\* The counts are of finite sets.
Counted ==
    /\ IsFiniteSet(Got("pods")) /\ NamedOnce(Got("pods"))
    /\ \A p \in Got("pods") : PodFormed(p)
    /\ IsFiniteSet(Got("nodes")) /\ NamedOnce(Got("nodes"))
    /\ \A n \in Got("nodes") : NodeFormed(n)
    /\ IsFiniteSet(Workloads) /\ NamedOnce(Workloads)
    /\ \A w \in Workloads : WorkloadFormed(w)

LEMMA CountedThen == ClusterInv => Counted
  <1> SUFFICES ASSUME ClusterInv PROVE Counted
    OBVIOUS
  <1>1. \A l \in Lists : IsFiniteSet(Got(l))
    BY FS_EmptySet DEF ClusterInv, Formed, WellFormed, Got, Known
  <1>2. /\ NamedOnce(Got("pods")) /\ \A p \in Got("pods") : PodFormed(p)
    BY DEF ClusterInv, Formed, PodsFormed, Got, Known, NamedOnce
  <1>3. /\ NamedOnce(Got("nodes")) /\ \A n \in Got("nodes") : NodeFormed(n)
    BY DEF ClusterInv, Formed, NodesFormed, Got, Known, NamedOnce
  <1> DEFINE listed == {k \in Kinds : seen[k] # Refused}
  <1>4. /\ \A k \in listed : \A w \in seen[k] : WorkloadFormed(w)
        /\ \A k, l \in listed : \A v \in seen[k], w \in seen[l] :
              v.name = w.name => k = l /\ v = w
    BY DEF ClusterInv, Formed, WorkloadsFormed
  <1>5. \A w \in Workloads : \E k \in listed : w \in seen[k]
    BY DEF Workloads, Got, Known, Kinds
  <1>6. NamedOnce(Workloads) /\ \A w \in Workloads : WorkloadFormed(w)
    <2> HIDE DEF listed
    <2> QED BY <1>4, <1>5 DEF NamedOnce
  <1>7. IsFiniteSet(Workloads)
    <2>1. IsFiniteSet(Got("deployments") \cup Got("statefulSets"))
      BY <1>1, ListsNamed, FS_Union DEF Kinds
    <2> QED BY <1>1, <2>1, ListsNamed, FS_Union DEF Workloads, Kinds
  <1> QED BY <1>1, <1>2, <1>3, <1>6, <1>7, ListsNamed DEF Counted

LEMMA CountsTyped ==
    ASSUME Counted
    PROVE  LET pods == Got("pods")
               nodes == Got("nodes")
               first == FirstOf(CriticalOf(pods), ProblemPodLimit)
           IN  /\ \A S \in {pods, ReadyOf(pods), ToSchedule(pods), CriticalOf(pods), first,
                            nodes, ReadyOf(nodes), WellOf(nodes), SkewedOf(nodes),
                            Workloads, ServingOf(Workloads)} :
                     IsFiniteSet(S) /\ Cardinality(S) \in Nat
               /\ Cardinality(SkewedOf(nodes)) <= Cardinality(nodes)
  <1>1. /\ IsFiniteSet(Got("pods")) /\ IsFiniteSet(Got("nodes")) /\ IsFiniteSet(Workloads)
    BY DEF Counted
  <1>2. \A S : /\ ReadyOf(S) \in SUBSET S /\ ToSchedule(S) \in SUBSET S
               /\ CriticalOf(S) \in SUBSET S /\ WellOf(S) \in SUBSET S
               /\ SkewedOf(S) \in SUBSET S /\ ServingOf(S) \in SUBSET S
               /\ FirstOf(S, ProblemPodLimit) \in SUBSET S
    BY DEF ReadyOf, ToSchedule, CriticalOf, WellOf, SkewedOf, ServingOf, FirstOf
  <1>3. FirstOf(CriticalOf(Got("pods")), ProblemPodLimit) \in SUBSET Got("pods")
    <2>1. \A A, B, C : A \in SUBSET B /\ B \in SUBSET C => A \in SUBSET C
      OBVIOUS
    <2> QED BY <1>2, <2>1
  <1> QED BY <1>1, <1>2, <1>3, MoreAreCounted

\* The critical pods that are shown are the first of them.
LEMMA CriticalIsFirst ==
    CriticalShown = FirstOf(CriticalOf(Got("pods")), ProblemPodLimit)
  <1> DEFINE C == CriticalOf(Got("pods"))
  <1>1. \A p : p \in C <=> p \in Problems /\ ProblemSeverity(p) = "critical"
    BY DEF CriticalOf, Problems
  <1>2. ASSUME NEW p \in C
        PROVE  {q \in Problems : WorseThan(q, p)} = Before(C, p)
    <2>1. ASSUME NEW q, WorseThan(q, p)
          PROVE  ProblemSeverity(q) = "critical"
      <3>1. Badness[ProblemSeverity(p)] = 3 /\ Badness[ProblemSeverity(q)] \in 1 .. 3
        BY <1>1, SeveritiesRanked
      <3>2. Badness[ProblemSeverity(q)] = 3
        BY <2>1, <3>1 DEF WorseThan
      <3> QED BY <3>2, SeveritiesRanked
    <2> HIDE DEF C
    <2> QED BY <1>1, <2>1 DEF Before
  <1> HIDE DEF C
  <1>3. CriticalShown = FirstOf(C, ProblemPodLimit)
    BY <1>1, <1>2 DEF CriticalShown, ShownProblems, FirstOf
  <1> QED BY <1>3 DEF C

LEMMA OneOrIs ==
    ASSUME NEW c \in Nat
    PROVE  Max({1, c}) = OneOr(c) /\ OneOr(c) \in Nat \ {0}
  <1> DEFINE m == OneOr(c)
  <1>1. m \in {1, c} /\ m \in Nat \ {0} /\ \A y \in {1, c} : y <= m
    BY DEF OneOr
  <1>2. \A x \in {1, c} : (\A y \in {1, c} : y <= x) => x = m
    BY <1>1
  <1> HIDE DEF m
  <1>3. Max({1, c}) = m
    BY <1>1, <1>2 DEF Max
  <1> QED BY <1>1, <1>3 DEF m

\* What there is and what is requested, added up.
AddedUp ==
    \A axis \in Axes :
        /\ Allocatable(axis) = SumOf(GivesOf(Got("nodes"), axis), Got("nodes"))
        /\ Allocatable(axis) \in Nat
        /\ TotalRequested(axis) = SumOf(CountsOf(Got("pods"), axis),
                                        PlacedOf(Got("pods"), Names(Got("nodes"))))
        /\ TotalRequested(axis) \in Nat

LEMMA AddedUpThen == ClusterInv => AddedUp
  <1> SUFFICES ASSUME ClusterInv, NEW axis \in Axes
               PROVE  /\ Allocatable(axis) = SumOf(GivesOf(Got("nodes"), axis), Got("nodes"))
                      /\ Allocatable(axis) \in Nat
                      /\ TotalRequested(axis) = SumOf(CountsOf(Got("pods"), axis),
                                        PlacedOf(Got("pods"), Names(Got("nodes"))))
                      /\ TotalRequested(axis) \in Nat
    BY DEF AddedUp
  <1>1. /\ IsFiniteSet(Got("pods")) /\ IsFiniteSet(Got("nodes"))
        /\ \A n \in Got("nodes") : n.has \in Asks
    BY PodsShown
  <1> DEFINE K == Got("nodes")
             F == GivesOf(K, axis)
             L == PlacedOf(Got("pods"), Names(K))
  <1>2. DOMAIN F = K /\ \A n \in K : F[n] \in Nat
    BY <1>1 DEF GivesOf, Asks
  <1>3. Allocatable(axis) = SumFunction(F)
    BY DEF Allocatable, GivesOf
  <1>4. Counts(axis) = CountsOf(Got("pods"), axis)
    BY DEF Counts, CountsOf
  <1>5. L = {p \in Got("pods") : p.node \in Names(K) /\ ~Terminal(p)}
    BY DEF PlacedOf
  <1>6. IsFiniteSet(L) /\ L \in SUBSET Got("pods")
    BY <1>1, <1>5, FS_Subset
  <1> HIDE DEF F, L
  <1>7. SumFunction(F) = SumOf(F, K) /\ SumOf(F, K) \in Nat
    BY <1>1, <1>2, WholeFunctionSum, SumRemove
  <1>8. TotalRequested(axis) = SumOf(Counts(axis), L)
    BY <1>5, RequestsAddUp
  <1>9. SumOf(Counts(axis), L) \in Nat
    <2>1. \A p \in L : Counts(axis)[p] \in Nat
      BY <1>6, CountsFor
    <2> QED BY <1>6, <2>1, SumRemove
  <1> QED BY <1>3, <1>4, <1>7, <1>8, <1>9 DEF F, L

\* The signals, by what is counted for them.
Drawn ==
    /\ NodeSignals =
          OfNodes(Cardinality(ReadyOf(Got("nodes"))), Cardinality(WellOf(Got("nodes"))),
                  Cardinality(Got("nodes")) - Cardinality(SkewedOf(Got("nodes"))),
                  Cardinality(Got("nodes")), Known("version"))
    /\ PodSignals =
          OfPods(Cardinality(ReadyOf(Got("pods"))),
                 Cardinality(FirstOf(CriticalOf(Got("pods")), ProblemPodLimit)),
                 OneOr(Cardinality(ToSchedule(Got("pods")))), Got("pods") # {})
    /\ CapacitySignals =
          OfCapacity(Allocatable("cpu"), Allocatable("memory"),
                     TotalRequested("cpu"), TotalRequested("memory"))
    /\ WorkloadSignals =
          OfWorkloads(Cardinality(ServingOf(Workloads)), Cardinality(Workloads))

LEMMA DrawnThen == Counted => Drawn
  <1> SUFFICES ASSUME Counted PROVE Drawn
    OBVIOUS
  <1> DEFINE nodes == Got("nodes")
             pods == Got("pods")
  <1>1. /\ Cardinality(nodes) = 0 <=> nodes = {}
        /\ Cardinality(Workloads) = 0 <=> Workloads = {}
    BY FS_EmptySet DEF Counted
  <1>2. NodeSignals = OfNodes(Cardinality(ReadyOf(nodes)), Cardinality(WellOf(nodes)),
                  Cardinality(nodes) - Cardinality(SkewedOf(nodes)),
                  Cardinality(nodes), Known("version"))
    <2>1. CASE nodes = {}
      BY <1>1, <2>1 DEF NodeSignals, OfNodes
    <2>2. CASE nodes # {}
      <3> DEFINE x == Signal("Node readiness", Cardinality(ReadyOf(nodes)), Cardinality(nodes), 25)
                 y == Signal("Node conditions", Cardinality(WellOf(nodes)), Cardinality(nodes), 10)
                 z(n) == Signal("Version alignment", Cardinality(nodes) - n, Cardinality(nodes), 5)
      <3>1. Known("version") => Skewed = SkewedOf(nodes)
        BY DEF Skewed, SkewedOf
      <3>2. NodeSignals = {x, y} \cup {z(Cardinality(Skewed)) :
                                          l \in {"version"} \cap {k \in Lists : Known(k)}}
        BY <2>2 DEF NodeSignals, ReadyOf, WellOf
      <3>3. {"version"} \cap {k \in Lists : Known(k)} = IF Known("version") THEN {"version"} ELSE {}
        BY DEF Lists
      <3>4. NodeSignals = {x, y} \cup IF Known("version") THEN {z(Cardinality(Skewed))} ELSE {}
        <4> HIDE DEF x, y, z
        <4> QED BY <3>2, <3>3
      <3>5. NodeSignals = {x, y} \cup IF Known("version") THEN {z(Cardinality(SkewedOf(nodes)))} ELSE {}
        <4> HIDE DEF x, y, z
        <4> QED BY <3>1, <3>4
      <3> QED BY <1>1, <2>2, <3>5 DEF OfNodes
    <2> QED BY <2>1, <2>2
  <1>3. PodSignals = OfPods(Cardinality(ReadyOf(pods)),
                            Cardinality(FirstOf(CriticalOf(pods), ProblemPodLimit)),
                            OneOr(Cardinality(ToSchedule(pods))), pods # {})
    <2>1. Schedulable = OneOr(Cardinality(ToSchedule(pods)))
      BY CountsTyped, OneOrIs DEF Schedulable, ToSchedule
    <2>2. CriticalShown = FirstOf(CriticalOf(pods), ProblemPodLimit)
      BY CriticalIsFirst
    <2> QED BY <2>1, <2>2 DEF PodSignals, OfPods, ReadyOf
  <1>4. CapacitySignals = OfCapacity(Allocatable("cpu"), Allocatable("memory"),
                     TotalRequested("cpu"), TotalRequested("memory"))
    BY DEF CapacitySignals, OfCapacity, Signal
  <1>5. WorkloadSignals = OfWorkloads(Cardinality(ServingOf(Workloads)), Cardinality(Workloads))
    <2>1. Workloads \ Degraded = ServingOf(Workloads)
      BY DEF Degraded, ServingOf
    <2> QED BY <1>1, <2>1 DEF WorkloadSignals, OfWorkloads
  <1> QED BY <1>2, <1>3, <1>4, <1>5 DEF Drawn

---------------------------------------------------------------------------
\* Each signal is there once, so the score is of 0 to 100.
Sound ==
    /\ SignalsFormed(NodeSignals) /\ SignalsFormed(PodSignals)
    /\ SignalsFormed(CapacitySignals) /\ SignalsFormed(WorkloadSignals)
    /\ SignalsFormed(Signals)
    /\ Score = ScoreOf(Signals)

LEMMA SoundThen == Counted /\ Drawn /\ AddedUp => Sound
  <1> SUFFICES ASSUME Counted, Drawn, AddedUp PROVE Sound
    OBVIOUS
  <1> DEFINE nodes == Got("nodes")
             pods == Got("pods")
             first == FirstOf(CriticalOf(pods), ProblemPodLimit)
  <1>1. /\ SignalsFormed(NodeSignals)
        /\ Names(NodeSignals) \subseteq
              {"Node readiness", "Node conditions", "Version alignment"}
    <2> DEFINE r == Cardinality(ReadyOf(nodes))
               w == Cardinality(WellOf(nodes))
               a == Cardinality(nodes) - Cardinality(SkewedOf(nodes))
               all == Cardinality(nodes)
               known == Known("version")
    <2>1. r \in Nat /\ w \in Nat /\ a \in Nat /\ all \in Nat
      BY CountsTyped
    <2>2. known \in BOOLEAN
      BY DEF Known
    <2>3. NodeSignals = OfNodes(r, w, a, all, known)
      BY DEF Drawn
    <2> HIDE DEF r, w, a, all, known
    <2> QED BY <2>1, <2>2, <2>3, OfNodesFormed
  <1>2. /\ SignalsFormed(PodSignals)
        /\ Names(PodSignals) \subseteq {"Pod readiness", "Container stability"}
    <2> DEFINE r == Cardinality(ReadyOf(pods))
               c == Cardinality(first)
               all == OneOr(Cardinality(ToSchedule(pods)))
               any == pods # {}
    <2>1. r \in Nat /\ c \in Nat /\ all \in Nat \ {0} /\ any \in BOOLEAN
      BY CountsTyped, OneOrIs
    <2>2. PodSignals = OfPods(r, c, all, any)
      BY DEF Drawn
    <2> HIDE DEF r, c, all, any
    <2> QED BY <2>1, <2>2, OfPodsFormed
  <1>3. /\ SignalsFormed(CapacitySignals)
        /\ Names(CapacitySignals) \subseteq {"Scheduling headroom"}
    <2>1. /\ Allocatable("cpu") \in Nat /\ Allocatable("memory") \in Nat
          /\ TotalRequested("cpu") \in Nat /\ TotalRequested("memory") \in Nat
      BY DEF AddedUp, Axes
    <2> QED BY <2>1, OfCapacityFormed DEF Drawn
  <1>4. /\ SignalsFormed(WorkloadSignals)
        /\ Names(WorkloadSignals) \subseteq {"Workload availability"}
    <2> DEFINE w == Cardinality(ServingOf(Workloads))
               all == Cardinality(Workloads)
               s == Signal("Workload availability", w, all, 5)
    <2>1. w \in Nat /\ all \in Nat
      BY CountsTyped
    <2>2. WorkloadSignals = OfWorkloads(w, all)
      BY DEF Drawn
    <2> HIDE DEF w, all
    <2>3. WorkloadSignals = {} \/ (all # 0 /\ WorkloadSignals = {s})
      BY <2>2 DEF OfWorkloads
    <2>4. s.name = "Workload availability" /\ (all # 0 => SignalFormed(s))
      BY <2>1 DEF Signal, SignalFormed
    <2> HIDE DEF s
    <2>5. WorkloadSignals = {} \/ (WorkloadSignals = {s} /\ SignalFormed(s))
      BY <2>3, <2>4
    <2> QED BY <2>4, <2>5, OneFormed
  <1> DEFINE two == NodeSignals \cup PodSignals
             three == two \cup CapacitySignals
  <1>5. /\ SignalsFormed(two)
        /\ Names(two) = Names(NodeSignals) \cup Names(PodSignals)
    <2>1. Names(NodeSignals) \cap Names(PodSignals) = {}
      BY <1>1, <1>2
    <2> QED BY <1>1, <1>2, <2>1, FormedTogether
  <1>6. /\ SignalsFormed(three)
        /\ Names(three) = Names(two) \cup Names(CapacitySignals)
    <2>1. Names(two) \cap Names(CapacitySignals) = {}
      BY <1>1, <1>2, <1>3, <1>5
    <2> HIDE DEF two
    <2> QED BY <1>3, <1>5, <2>1, FormedTogether
  <1>7. SignalsFormed(three \cup WorkloadSignals)
    <2>1. Names(three) \cap Names(WorkloadSignals) = {}
      BY <1>1, <1>2, <1>3, <1>4, <1>5, <1>6
    <2> HIDE DEF three
    <2> QED BY <1>4, <1>6, <2>1, FormedTogether
  <1>8. Signals = three \cup WorkloadSignals
    BY DEF Signals
  <1>9. SignalsFormed(Signals)
    BY <1>7, <1>8
  <1>10. Score = ScoreOf(Signals)
    BY <1>9, ScoreIs DEF SignalsFormed
  <1> QED BY <1>1, <1>2, <1>3, <1>4, <1>9, <1>10 DEF Sound

Overview == Counted /\ AddedUp /\ Drawn /\ Sound

LEMMA OverviewThen == ClusterInv => Overview
  BY CountedThen, AddedUpThen, DrawnThen, SoundThen DEF Overview

\* Lower signals of each kind make a score that is no higher.
LEMMA ScoreFalls ==
    ASSUME Overview, Overview',
           Lower(NodeSignals', NodeSignals), Lower(PodSignals', PodSignals),
           Lower(CapacitySignals', CapacitySignals),
           Lower(WorkloadSignals', WorkloadSignals)
    PROVE  Score' <= Score
  <1>1. Lower(NodeSignals' \cup PodSignals', NodeSignals \cup PodSignals)
    BY LowerTogether
  <1>2. Lower((NodeSignals' \cup PodSignals') \cup CapacitySignals',
              (NodeSignals \cup PodSignals) \cup CapacitySignals)
    BY <1>1, LowerTogether
  <1>3. Lower(((NodeSignals' \cup PodSignals') \cup CapacitySignals') \cup WorkloadSignals',
              ((NodeSignals \cup PodSignals) \cup CapacitySignals) \cup WorkloadSignals)
    BY <1>2, LowerTogether
  <1>4. Lower(Signals', Signals)
    BY <1>3 DEF Signals
  <1>5. SignalsFormed(Signals) /\ SignalsFormed(Signals')
    BY DEF Overview, Sound
  <1>6. ScoreOf(Signals') <= ScoreOf(Signals)
    BY <1>4, <1>5, LowerScores
  <1> QED BY <1>6 DEF Overview, Sound

\* A list that did not change, and what is drawn from it.
LEMMA SameNodes ==
    ASSUME Overview, Overview', Got("nodes")' = Got("nodes"), Known("version")' = Known("version")
    PROVE  Lower(NodeSignals', NodeSignals)
  <1>1. NodeSignals' = NodeSignals
    BY DEF Overview, Drawn
  <1> QED BY <1>1, SameIsLower DEF Overview, Sound

LEMMA SamePods ==
    ASSUME Overview, Overview', Got("pods")' = Got("pods")
    PROVE  Lower(PodSignals', PodSignals)
  <1>1. PodSignals' = PodSignals
    BY DEF Overview, Drawn
  <1> QED BY <1>1, SameIsLower DEF Overview, Sound

LEMMA SameWorkloads ==
    ASSUME Overview, Overview', Workloads' = Workloads
    PROVE  Lower(WorkloadSignals', WorkloadSignals)
  <1>1. WorkloadSignals' = WorkloadSignals
    BY DEF Overview, Drawn
  <1> QED BY <1>1, SameIsLower DEF Overview, Sound

LEMMA SameCapacity ==
    ASSUME Overview, Overview',
           \A axis \in Axes : /\ Allocatable(axis)' = Allocatable(axis)
                              /\ TotalRequested(axis)' = TotalRequested(axis)
    PROVE  Lower(CapacitySignals', CapacitySignals)
  <1>1. "cpu" \in Axes /\ "memory" \in Axes
    BY DEF Axes
  <1>2. CapacitySignals' = CapacitySignals
    BY <1>1 DEF Overview, Drawn
  <1> QED BY <1>2, SameIsLower DEF Overview, Sound

---------------------------------------------------------------------------
\* The other lists answer as they did.
LEMMA OthersAsBefore ==
    ASSUME ClusterInv, NEW l \in Lists, NEW o \in Got(l), NEW worse, Becomes(l, o, worse)
    PROVE  /\ Got(l)' = (Got(l) \ {o}) \cup {worse}
           /\ \A k \in Lists \ {l} : Got(k)' = Got(k) /\ Known(k)' = Known(k)
  <1>1. Known(l)
    BY DEF Got
  <1>2. /\ seen'[l] = (seen[l] \ {o}) \cup {worse} /\ seen'[l] # Refused
        /\ \A k \in Lists \ {l} : seen'[k] = seen[k]
    BY <1>1, Replaced
  <1> QED BY <1>1, <1>2 DEF Got, Known

LEMMA CrashLowers ==
    ASSUME ClusterInv, Overview, Overview', NEW p \in Got("pods"), Crash(p)
    PROVE  Score' <= Score
  <1> DEFINE w == [p EXCEPT !.ready = FALSE, !.states = <<"CrashLoopBackOff">>]
             S == Got("pods")
             T == Got("pods")'
             k == ProblemPodLimit
  <1>1. "pods" \in Lists /\ ~Terminal(p) /\ Becomes("pods", p, w)
    BY ListsNamed DEF Crash
  <1>2. IsFiniteSet(S) /\ NamedOnce(S) /\ (\A q \in S : PodFormed(q)) /\ k \in Nat
    BY DEF Overview, Counted
  <1>3. CrashedTo(p, w)
    BY <1>2, CrashedIsFormed DEF CrashedTo
  <1> HIDE DEF w
  <1>4. /\ T = (S \ {p}) \cup {w}
        /\ \A l \in Lists \ {"pods"} : Got(l)' = Got(l) /\ Known(l)' = Known(l)
    BY <1>1, OthersAsBefore
  <1>5. /\ Got("nodes")' = Got("nodes") /\ Known("version")' = Known("version")
        /\ Workloads' = Workloads
    BY <1>4, ListsNamed DEF Workloads, Kinds
  <1>6. WorsePods(T, S, k)
    <2>1. p \in S
      OBVIOUS
    <2> HIDE DEF S, T, k
    <2> QED BY <1>1, <1>2, <1>3, <1>4, <2>1, CrashCounts
  <1>7. Lower(PodSignals', PodSignals)
    <2> DEFINE r == Cardinality(ReadyOf(S))
               q == Cardinality(ReadyOf(T))
               c == Cardinality(FirstOf(CriticalOf(S), k))
               d == Cardinality(FirstOf(CriticalOf(T), k))
               all == OneOr(Cardinality(ToSchedule(S)))
    <2>1. /\ r \in Nat /\ c \in Nat /\ all \in Nat \ {0}
      BY CountsTyped, OneOrIs DEF Overview
    <2>2. q \in Nat /\ d \in Nat
      <3> DEFINE C == CriticalOf(T)
                 F == FirstOf(C, k)
      <3>1. IsFiniteSet(T)
        BY DEF Overview, Counted
      <3>2. ReadyOf(T) \in SUBSET T /\ C \in SUBSET T /\ F \in SUBSET C
        BY DEF ReadyOf, CriticalOf, FirstOf
      <3> HIDE DEF T, C, F
      <3>3. IsFiniteSet(C)
        BY <3>1, <3>2, FS_Subset
      <3>4. Cardinality(ReadyOf(T)) \in Nat /\ Cardinality(F) \in Nat
        BY <3>1, <3>2, <3>3, MoreAreCounted
      <3> QED BY <3>4 DEF C, F
    <2>3. PodSignals = OfPods(r, c, all, S # {})
      BY DEF Overview, Drawn
    <2>4. PodSignals' = OfPods(q, d, all, T # {})
      <3>1. PodSignals' = OfPods(q, d, OneOr(Cardinality(ToSchedule(T))), T # {})
        BY DEF Overview, Drawn
      <3> QED BY <1>6, <3>1 DEF WorsePods
    <2>5. S # {} /\ T # {} /\ TRUE \in BOOLEAN
      BY <1>4
    <2>6. PodSignals = OfPods(r, c, all, TRUE) /\ PodSignals' = OfPods(q, d, all, TRUE)
      <3> HIDE DEF r, q, c, d, all, S, T, k
      <3> QED BY <2>3, <2>4, <2>5 DEF OfPods
    <2>7. q <= r /\ c <= d
      BY <1>6 DEF WorsePods
    <2> HIDE DEF r, q, c, d, all, S, T, k
    <2>8. Lower(OfPods(q, d, all, TRUE), OfPods(r, c, all, TRUE))
      BY <2>1, <2>2, <2>5, <2>7, OfPodsLower
    <2> QED BY <2>6, <2>8
  <1>8. \A axis \in Axes : /\ Allocatable(axis)' = Allocatable(axis)
                           /\ TotalRequested(axis)' = TotalRequested(axis)
    BY <1>5, <1>6 DEF Overview, AddedUp, WorsePods
  <1> QED BY <1>5, <1>7, <1>8, SameNodes, SameCapacity, SameWorkloads, ScoreFalls

LEMMA NodeHarmLowers ==
    ASSUME ClusterInv, Overview, Overview', NEW n \in Got("nodes"), NodeDown(n) \/ CordonNode(n)
    PROVE  Score' <= Score
  <1> DEFINE S == Got("nodes")
             T == Got("nodes")'
  <1>1. IsFiniteSet(S) /\ NamedOnce(S) /\ (\A m \in S : NodeFormed(m))
    BY DEF Overview, Counted
  <1>2. PICK w : /\ Becomes("nodes", n, w)
                 /\ w.name = n.name /\ w.has = n.has /\ w.minor = n.minor
                 /\ w.pressure = n.pressure /\ (w.ready => n.ready)
                 /\ (n.cordoned => w.cordoned)
    BY <1>1, NodeHarmed
  <1>3. /\ T = (S \ {n}) \cup {w}
        /\ \A l \in Lists \ {"nodes"} : Got(l)' = Got(l) /\ Known(l)' = Known(l)
    BY <1>2, ListsNamed, OthersAsBefore
  <1>4. /\ Got("pods")' = Got("pods") /\ Known("version")' = Known("version")
        /\ Workloads' = Workloads
    BY <1>3, ListsNamed DEF Workloads, Kinds
  <1>5. /\ Cardinality(ReadyOf(T)) <= Cardinality(ReadyOf(S))
        /\ Cardinality(WellOf(T)) <= Cardinality(WellOf(S))
        /\ Cardinality(SkewedOf(T)) = Cardinality(SkewedOf(S))
        /\ Cardinality(T) = Cardinality(S)
        /\ Names(T) = Names(S)
        /\ \A axis \in Axes : SumOf(GivesOf(T, axis), T) = SumOf(GivesOf(S, axis), S)
    <2> HIDE DEF S, T
    <2> QED BY <1>1, <1>2, <1>3, NodeCounts DEF S
  <1>6. Lower(NodeSignals', NodeSignals)
    <2> DEFINE r == Cardinality(ReadyOf(S))
               q == Cardinality(ReadyOf(T))
               w0 == Cardinality(WellOf(S))
               v == Cardinality(WellOf(T))
               a == Cardinality(S) - Cardinality(SkewedOf(S))
               all == Cardinality(S)
               known == Known("version")
    <2>1. r \in Nat /\ w0 \in Nat /\ a \in Nat /\ all \in Nat /\ known \in BOOLEAN
      BY CountsTyped DEF Overview, Known
    <2>2. q \in Nat /\ v \in Nat
      <3>1. IsFiniteSet(T)
        BY DEF Overview, Counted
      <3>2. ReadyOf(T) \in SUBSET T /\ WellOf(T) \in SUBSET T
        BY DEF ReadyOf, WellOf
      <3> HIDE DEF T
      <3> QED BY <3>1, <3>2, MoreAreCounted
    <2>3. NodeSignals = OfNodes(r, w0, a, all, known)
      BY DEF Overview, Drawn
    <2>4. NodeSignals' = OfNodes(q, v, a, all, known)
      <3>1. NodeSignals' = OfNodes(q, v, Cardinality(T) - Cardinality(SkewedOf(T)),
                                   Cardinality(T), Known("version")')
        BY DEF Overview, Drawn
      <3> QED BY <1>4, <1>5, <3>1
    <2>5. q <= r /\ v <= w0
      BY <1>5
    <2> HIDE DEF r, q, w0, v, a, all, known
    <2>6. Lower(OfNodes(q, v, a, all, known), OfNodes(r, w0, a, all, known))
      BY <2>1, <2>2, <2>5, OfNodesLower
    <2> QED BY <2>3, <2>4, <2>6
  <1>7. \A axis \in Axes : /\ Allocatable(axis)' = Allocatable(axis)
                           /\ TotalRequested(axis)' = TotalRequested(axis)
    BY <1>4, <1>5 DEF Overview, AddedUp
  <1> QED BY <1>4, <1>6, <1>7, SamePods, SameCapacity, SameWorkloads, ScoreFalls

LEMMA LossLowers ==
    ASSUME ClusterInv, Overview, Overview', NEW o \in Got("deployments"), LoseReplica(o)
    PROVE  Score' <= Score
  <1> DEFINE S == Workloads
             T == Workloads'
  <1>1. /\ IsFiniteSet(S) /\ NamedOnce(S) /\ (\A v \in S : WorkloadFormed(v)) /\ o \in S
    BY DEF Overview, Counted, Workloads
  <1>2. PICK w : /\ Becomes("deployments", o, w) /\ WorkloadFormed(w)
                 /\ w.name = o.name /\ w.replicas = o.replicas /\ w.ready < o.ready
    BY <1>1, LossHarmed
  <1>3. /\ Got("deployments")' = (Got("deployments") \ {o}) \cup {w}
        /\ \A l \in Lists \ {"deployments"} : Got(l)' = Got(l) /\ Known(l)' = Known(l)
    BY <1>2, ListsNamed, OthersAsBefore DEF Kinds
  <1>4. /\ Got("pods")' = Got("pods") /\ Got("nodes")' = Got("nodes")
        /\ Known("version")' = Known("version")
        /\ Got("statefulSets")' = Got("statefulSets") /\ Got("daemonSets")' = Got("daemonSets")
    BY <1>3, ListsNamed DEF Kinds
  <1>5. T = (S \ {o}) \cup {w}
    <2>1. o \notin Got("statefulSets") /\ o \notin Got("daemonSets")
      <3> DEFINE listed == {k \in Kinds : seen[k] # Refused}
      <3>1. \A k, l \in listed : \A u \in seen[k], v \in seen[l] : u.name = v.name => k = l
        BY DEF ClusterInv, Formed, WorkloadsFormed
      <3>2. "deployments" \in listed /\ o \in seen["deployments"]
        BY DEF Got, Known, Kinds
      <3>3. \A k \in Kinds : o \in Got(k) => k \in listed /\ o \in seen[k]
        BY DEF Got, Known
      <3> HIDE DEF listed
      <3>4. \A k \in Kinds : o \in Got(k) => k = "deployments"
        BY <3>1, <3>2, <3>3
      <3> QED BY <3>4 DEF Kinds
    <2> QED BY <1>3, <1>4, <2>1 DEF Workloads
  <1>6. Cardinality(T) = Cardinality(S) /\ Cardinality(ServingOf(T)) <= Cardinality(ServingOf(S))
    <2> HIDE DEF S, T
    <2> QED BY <1>1, <1>2, <1>5, LossCounts
  <1>7. Lower(WorkloadSignals', WorkloadSignals)
    <2> DEFINE x == Cardinality(ServingOf(S))
               v == Cardinality(ServingOf(T))
               all == Cardinality(S)
    <2>1. x \in Nat /\ all \in Nat
      BY CountsTyped DEF Overview
    <2>2. v \in Nat
      <3>1. IsFiniteSet(T) /\ ServingOf(T) \in SUBSET T
        BY DEF Overview, Counted, ServingOf
      <3> HIDE DEF T
      <3> QED BY <3>1, MoreAreCounted
    <2>3. WorkloadSignals = OfWorkloads(x, all)
      BY DEF Overview, Drawn
    <2>4. WorkloadSignals' = OfWorkloads(v, all)
      <3>1. WorkloadSignals' = OfWorkloads(v, Cardinality(T))
        BY DEF Overview, Drawn
      <3> QED BY <1>6, <3>1
    <2>5. v <= x
      BY <1>6
    <2> HIDE DEF x, v, all
    <2>6. Lower(OfWorkloads(v, all), OfWorkloads(x, all))
      BY <2>1, <2>2, <2>5, OfWorkloadsLower
    <2> QED BY <2>3, <2>4, <2>6
  <1>8. \A axis \in Axes : /\ Allocatable(axis)' = Allocatable(axis)
                           /\ TotalRequested(axis)' = TotalRequested(axis)
    BY <1>4 DEF Overview, AddedUp
  <1> QED BY <1>4, <1>7, <1>8, SameNodes, SamePods, SameCapacity, ScoreFalls

\* For every cluster, and whichever of its pods crash-loops, of its nodes is
\* down or cordoned or of its deployments loses a replica, in whatever order:
\* the health score is never higher after it than before, also when the pod
\* changes its place in the list of problem pods or enters it.
THEOREM HarmLowersScore == ClusterSpec => HarmNeverHelps
  <1>1. ClusterInv /\ Overview /\ Overview' /\ [ClusterNext]_seen => [Harm => Score' <= Score]_seen
    BY CrashLowers, NodeHarmLowers, LossLowers DEF Harm
  <1>2. ClusterInv => Overview
    BY OverviewThen
  <1> QED BY <1>1, <1>2, ClusterInvariant, PTL DEF ClusterSpec, HarmNeverHelps

---------------------------------------------------------------------------
(***************************************************************************)
(* What the screens and reports say is what they know to say.              *)
(***************************************************************************)
LEMMA FindingSays ==
    ASSUME NEW severity, NEW title, NEW targets, NEW f \in Finding(severity, title, targets)
    PROVE  f.severity = severity /\ f.targets # {}
  BY DEF Finding

LEMMA ListsAreFinite ==
    ASSUME ClusterInv, NEW l \in Lists
    PROVE  IsFiniteSet(Got(l))
  BY FS_EmptySet DEF ClusterInv, Formed, WellFormed, Got, Known

LEMMA StorageTyped == ClusterInv => StorageHealthOK
  <1> SUFFICES ASSUME ClusterInv PROVE StorageHealthOK
    OBVIOUS
  <1>1. ASSUME NEW c \in Got("claims")
        PROVE  ClaimHealth(c) \in Severities
    BY DEF ClaimHealth, Severities
  <1>2. ASSUME NEW v \in Got("volumes")
        PROVE  VolumeHealth(v) \in Severities
    BY DEF VolumeHealth, Severities
  <1>3. ASSUME NEW k \in Got("classes")
        PROVE  ClassHealth(k) \in Severities /\ ClaimsUsing(k) \in Nat
    <2>1. IsFiniteSet(Got("claims"))
      BY ListsAreFinite DEF Lists
    <2>2. ClaimsUsing(k) \in Nat
      BY <2>1, MoreAreCounted DEF ClaimsUsing
    <2> QED BY <2>2 DEF ClassHealth, Severities
  <1>4. ASSUME NEW f \in StorageFindings
        PROVE  f.severity \in Severities /\ f.targets # {}
    <2>1. f \in BuildStorageFindings
      BY DEF StorageFindings
    <2>2. f.severity \in {"critical", "serious", "warning"} /\ f.targets # {}
      BY <2>1, FindingSays DEF BuildStorageFindings
    <2> QED BY <2>2 DEF Severities
  <1> QED BY <1>1, <1>2, <1>3, <1>4 DEF StorageHealthOK

\* Of some severities one is the worst.
LEMMA WorstIsOne ==
    ASSUME NEW S \in SUBSET Severities
    PROVE  WorstOf(S) \in Severities
  <1>1. CASE S = {}
    BY <1>1 DEF WorstOf, Severities
  <1>2. CASE S # {}
    <2> DEFINE worst == IF "critical" \in S THEN "critical"
                        ELSE IF "serious" \in S THEN "serious"
                        ELSE IF "warning" \in S THEN "warning"
                        ELSE IF "unknown" \in S THEN "unknown"
                        ELSE "good"
    <2>1. worst \in S
      BY <1>2 DEF Severities
    <2>2. \A g \in S : Rank[g] <= Rank[worst]
      BY DEF Rank, Severities
    <2> HIDE DEF worst
    <2>3. WorstOf(S) \in S
      BY <1>2, <2>1, <2>2 DEF WorstOf
    <2> QED BY <2>3
  <1> QED BY <1>1, <1>2

LEMMA ConfigTyped == ConfigHealthOK
  <1>1. ASSUME NEW q \in Got("quotas")
        PROVE  WorstOf({QuotaHealth(e) : e \in q.entries}) \in Severities
    <2>1. \A e : QuotaHealth(e) \in Severities
      BY DEF QuotaHealth, Severities
    <2> QED BY <2>1, WorstIsOne
  <1>2. ASSUME NEW a \in Got("autoscalers")
        PROVE  AutoscalerHealth(a) \in Severities
    BY DEF AutoscalerHealth, Severities
  <1>3. ASSUME NEW b \in Got("budgets")
        PROVE  BudgetHealth(b) \in Severities
    BY DEF BudgetHealth, Severities
  <1>4. ASSUME NEW l \in Got("leases")
        PROVE  LeaseHealth(l) \in Severities
    BY DEF LeaseHealth, Severities
  <1>5. ASSUME NEW h \in Hooks
        PROVE  HookHealth(h) \in Severities
    BY DEF HookHealth, Judged, Severities
  <1>6. ASSUME NEW f \in ConfigFindings
        PROVE  f.severity \in Severities /\ f.targets # {}
    <2>1. f \in BuildConfigFindings
      BY DEF ConfigFindings
    <2>2. f.severity \in {"critical", "serious", "warning"} /\ f.targets # {}
      BY <2>1, FindingSays DEF BuildConfigFindings
    <2> QED BY <2>2 DEF Severities
  <1> QED BY <1>1, <1>2, <1>3, <1>4, <1>5, <1>6 DEF ConfigHealthOK

LEMMA NetworkTyped == ClusterInv => NetworkHealthOK
  <1> SUFFICES ASSUME ClusterInv PROVE NetworkHealthOK
    OBVIOUS
  <1>1. ASSUME NEW s \in Got("slices")
        PROVE  SliceHealth(s) \in Severities
    BY DEF SliceHealth, Severities
  <1>2. ASSUME NEW svc \in Got("services")
        PROVE  /\ ServiceHealth(svc) \in Severities
               /\ ReadyEndpoints(svc) <= TotalEndpoints(svc)
    <2>1. ReadyEndpoints(svc) <= TotalEndpoints(svc)
      BY EndpointsCounted DEF ClusterInv, Formed
    <2> QED BY <2>1 DEF ServiceHealth, Severities
  <1>3. ASSUME NEW i \in Got("ingresses")
        PROVE  IngressHealth(i) \in Severities
    BY DEF IngressHealth, Severities
  <1>4. ASSUME NEW p \in Got("policies")
        PROVE  Denies(p) \subseteq p.types /\ AppliesToAll(p) \in BOOLEAN
    BY DEF Denies, AppliesToAll
  <1>5. ASSUME NEW f \in NetworkFindings
        PROVE  f.severity \in Severities
    <2>1. f \in NetworkFaults \/ f.severity = "good"
      BY DEF NetworkFindings
    <2>2. f \in NetworkFaults => f.severity \in {"critical", "serious", "warning"}
      BY FindingSays DEF NetworkFaults
    <2> QED BY <2>1, <2>2 DEF Severities
  <1> QED BY <1>1, <1>2, <1>3, <1>4, <1>5 DEF NetworkHealthOK

\* A row of a kind has the severity of that kind.
LEMMA RowSays ==
    \A kind, names, severity : \A r \in Rows(kind, names, severity) : r.severity = severity
  BY DEF Rows, Row

LEMMA RowsAreFinite ==
    ASSUME NEW kind, NEW severity, NEW S, IsFiniteSet(S), NEW T \in SUBSET S
    PROVE  IsFiniteSet(Rows(kind, Names(T), severity))
  <1> DEFINE F == [o \in T |-> Row(kind, o.name, severity)]
             R == Rows(kind, Names(T), severity)
  <1>1. IsFiniteSet(T)
    BY FS_Subset
  <1>2. \A r \in R : \E o \in T : r = F[o]
    BY DEF Rows, Names
  <1> HIDE DEF F, R
  <1>3. IsFiniteSet(R)
    BY <1>1, <1>2, ImageIsFinite
  <1> QED BY <1>3 DEF R

LEMMA RowsRated ==
    /\ Rated(IdleRows) /\ Rated(UpgradeRows) /\ Rated(SecurityRows)
    /\ Rated(DeployedRows) /\ Rated(HygieneRows)
  <1> DEFINE known == {"critical", "serious", "warning", "good"}
  <1>1. ASSUME NEW r \in IdleRows
        PROVE  r.severity \in known
    BY RowSays DEF IdleRows
  <1>2. ASSUME NEW r \in UpgradeRows
        PROVE  r.severity \in known
    BY RowSays DEF UpgradeRows
  <1>3. ASSUME NEW r \in SecurityRows
        PROVE  r.severity \in known
    <2> DEFINE host == Rows("hostNetwork", Names({p \in Got("pods") : "network" \in p.host}),
                            "critical")
               pid == Rows("hostPID", Names({p \in Got("pods") : "pid" \in p.host}), "critical")
               ipc == Rows("hostIPC", Names({p \in Got("pods") : "ipc" \in p.host}), "serious")
               token == Rows("token", Names({p \in Got("pods") : p.token}), "warning")
               path == Rows("hostPath volume", Names({p \in Got("pods") : p.hostPath}), "critical")
               privileged == Rows("Privileged", Names({c \in AllContainers : c.privileged}),
                                  "critical")
               escalation == Rows("Escalation", Names({c \in AllContainers : c.escalates}),
                                  "warning")
               root == Rows("Root", UNION {Names({c \in ContainersOf(p) : MayRunAsRoot(p, c)}) :
                                              p \in Got("pods")}, "serious")
               added == Rows("Capabilities", Names({c \in AllContainers : c.adds # {}}), "serious")
               unpinned == Rows("Unpinned image",
                                Names({c \in AllContainers : Unpinned(c.image)}), "serious")
               unguarded == IF Known("policies") /\ Got("policies") = {}
                              THEN {Row("No network policy", Nobody, "serious")} ELSE {}
    <2>1. SecurityRows = UNION {host, pid, ipc, token, path, privileged, escalation, root, added,
                                unpinned, unguarded}
      BY Zenon DEF SecurityRows
    <2>2. /\ \A x \in host : x.severity \in known
          /\ \A x \in pid : x.severity \in known
          /\ \A x \in ipc : x.severity \in known
          /\ \A x \in token : x.severity \in known
          /\ \A x \in path : x.severity \in known
      BY RowSays
    <2>3. /\ \A x \in privileged : x.severity \in known
          /\ \A x \in escalation : x.severity \in known
          /\ \A x \in root : x.severity \in known
          /\ \A x \in added : x.severity \in known
          /\ \A x \in unpinned : x.severity \in known
      BY RowSays
    <2>4. ASSUME r \in unguarded PROVE r.severity \in known
      <3>1. \A kind, name, severity : Row(kind, name, severity).severity = severity
        BY DEF Row
      <3>2. r = Row("No network policy", Nobody, "serious")
        BY <2>4, Zenon
      <3> QED BY <3>1, <3>2
    <2> HIDE DEF host, pid, ipc, token, path, privileged, escalation, root, added, unpinned,
             unguarded, known
    <2> QED BY <2>1, <2>2, <2>3, <2>4
  <1>4. ASSUME NEW r \in DeployedRows
        PROVE  r.severity \in known
    <2>1. \A kind, name, severity : Row(kind, name, severity).severity = severity
      BY DEF Row
    <2>2. \A w : /\ ReplicaHealth(w) \in known /\ JobHealth(w) \in known
                 /\ CronHealth(w) \in known /\ WorkflowHealth(w) \in known
      BY DEF ReplicaHealth, JobHealth, CronHealth, WorkflowHealth
    <2> QED BY <2>1, <2>2 DEF DeployedRows
  <1>5. ASSUME NEW r \in HygieneRows
        PROVE  r.severity \in known
    <2>1. PICK i, n : r = [image |-> i, severity |-> ImageSeverity(i), pods |-> n]
      BY Zenon DEF HygieneRows
    <2> QED BY <2>1 DEF ImageSeverity
  <1>6. known \subseteq Severities
    BY DEF Severities
  <1> HIDE DEF known
  <1> QED BY <1>1, <1>2, <1>3, <1>4, <1>5, <1>6 DEF Rated

LEMMA ContainersAreFinite ==
    ASSUME ClusterInv
    PROVE  IsFiniteSet(Got("pods")) /\ IsFiniteSet(AllContainers)
  <1>1. IsFiniteSet(Got("pods"))
    BY PodsShown
  <1>2. \A p \in Got("pods") : IsFiniteSet(ContainersOf(p))
    BY DEF ClusterInv, Formed, ContainersFormed, Got, Known
  <1> DEFINE F == [p \in Got("pods") |-> ContainersOf(p)]
             All == {ContainersOf(p) : p \in Got("pods")}
  <1>3. \A c \in All : \E p \in Got("pods") : c = F[p]
    OBVIOUS
  <1>4. \A c \in All : IsFiniteSet(c)
    BY <1>2
  <1> HIDE DEF F, All
  <1>5. IsFiniteSet(All)
    BY <1>1, <1>3, ImageIsFinite
  <1>6. IsFiniteSet(UNION All)
    BY <1>4, <1>5, FS_UNION
  <1> QED BY <1>1, <1>6 DEF All, AllContainers

\* An image is in the hygiene report because something runs it.
LEMMA ImagesRun ==
    ASSUME ClusterInv, NEW r \in HygieneRows
    PROVE  r.pods > 0
  <1> DEFINE Running(i) == {u \in Got("pods") \X AllContainers :
                               u[2] \in ContainersOf(u[1]) /\ u[2].image = i}
  <1>1. PICK c \in AllContainers :
          r = [image |-> c.image, severity |-> ImageSeverity(c.image),
               pods |-> Cardinality(Running(c.image))]
    BY DEF HygieneRows
  <1>2. r.pods = Cardinality(Running(c.image))
    BY <1>1
  <1>3. PICK p \in Got("pods") : c \in ContainersOf(p)
    BY DEF AllContainers
  <1>4. <<p, c>> \in Running(c.image)
    BY <1>3
  <1>5. IsFiniteSet(Got("pods") \X AllContainers)
    BY ContainersAreFinite, FS_Product
  <1>6. Running(c.image) \in SUBSET (Got("pods") \X AllContainers)
    OBVIOUS
  <1> HIDE DEF Running
  <1>7. IsFiniteSet(Running(c.image)) /\ Cardinality(Running(c.image)) \in Nat
    BY <1>5, <1>6, MoreAreCounted
  <1>8. Cardinality(Running(c.image)) # 0
    BY <1>4, <1>7, FS_EmptySet
  <1> QED BY <1>2, <1>7, <1>8

LEMMA BlockersCounted ==
    ASSUME ClusterInv
    PROVE  Blockers <= Cardinality(UpgradeRows)
  <1>1. \A l \in Lists : IsFiniteSet(Got(l))
    BY ListsAreFinite
  <1> DEFINE bare == {p \in Got("pods") : p.owner = Nobody}
             paths == {p \in Got("pods") : p.hostPath}
             budgets == {b \in Got("budgets") : b.allowed = 0}
             single == {d \in Got("deployments") : d.replicas = 1}
             more == {d \in Got("deployments") : d.replicas > 1}
             sets1 == {s \in Got("statefulSets") : s.replicas = 1}
             down == {n \in Got("nodes") : ~n.ready}
             cordoned == {n \in Got("nodes") : n.ready /\ n.cordoned}
             R1 == Rows("bare", Names(bare), "critical")
             R2 == Rows("hostPath", Names(paths), "serious")
             R3 == Rows("PodDisruptionBudget", Names(budgets), "critical")
             R4 == Rows("single", Names(single), "serious")
             R5 == Rows("nopdb", Names(more), "warning")
             R6 == Rows("single-sts", Names(sets1), "serious")
             R7 == Rows("node", Names(down), "critical")
             R8 == Rows("cordoned", Names(cordoned), "warning")
  <1>2. /\ {"pods", "budgets", "deployments", "statefulSets", "nodes"} \subseteq Lists
    BY DEF Lists
  <1>3. /\ IsFiniteSet(Got("pods")) /\ IsFiniteSet(Got("budgets"))
        /\ IsFiniteSet(Got("deployments")) /\ IsFiniteSet(Got("statefulSets"))
        /\ IsFiniteSet(Got("nodes"))
    BY <1>1, <1>2
  <1>4. /\ bare \in SUBSET Got("pods") /\ paths \in SUBSET Got("pods")
        /\ budgets \in SUBSET Got("budgets")
        /\ single \in SUBSET Got("deployments") /\ more \in SUBSET Got("deployments")
        /\ sets1 \in SUBSET Got("statefulSets")
        /\ down \in SUBSET Got("nodes") /\ cordoned \in SUBSET Got("nodes")
    OBVIOUS
  <1>5. UpgradeRows \in SUBSET UNION {R1, R2, R3, R4, R5, R6, R7, R8}
    <2>1. UpgradeRows = UNION {R1, R2, R3, R4, IF BudgetsPresent THEN {} ELSE R5, R6, R7, R8}
      BY DEF UpgradeRows
    <2> HIDE DEF R1, R2, R3, R4, R5, R6, R7, R8
    <2> QED BY <2>1
  <1> HIDE DEF bare, paths, budgets, single, more, sets1, down, cordoned
  <1>6. /\ IsFiniteSet(R1) /\ IsFiniteSet(R2) /\ IsFiniteSet(R3) /\ IsFiniteSet(R4)
        /\ IsFiniteSet(R5) /\ IsFiniteSet(R6) /\ IsFiniteSet(R7) /\ IsFiniteSet(R8)
    BY <1>3, <1>4, RowsAreFinite
  <1> HIDE DEF R1, R2, R3, R4, R5, R6, R7, R8
  <1>7. IsFiniteSet({R1, R2, R3, R4, R5, R6, R7, R8})
    <2>1. IsFiniteSet({R1} \cup {R2})
      BY FS_AddElement, FS_Singleton
    <2>2. IsFiniteSet(({R1} \cup {R2}) \cup {R3})
      BY <2>1, FS_AddElement
    <2>3. IsFiniteSet((({R1} \cup {R2}) \cup {R3}) \cup {R4})
      BY <2>2, FS_AddElement
    <2>4. IsFiniteSet(((({R1} \cup {R2}) \cup {R3}) \cup {R4}) \cup {R5})
      BY <2>3, FS_AddElement
    <2>5. IsFiniteSet((((({R1} \cup {R2}) \cup {R3}) \cup {R4}) \cup {R5}) \cup {R6})
      BY <2>4, FS_AddElement
    <2>6. IsFiniteSet(((((({R1} \cup {R2}) \cup {R3}) \cup {R4}) \cup {R5}) \cup {R6}) \cup {R7})
      BY <2>5, FS_AddElement
    <2>7. IsFiniteSet((((((({R1} \cup {R2}) \cup {R3}) \cup {R4}) \cup {R5}) \cup {R6}) \cup {R7})
                      \cup {R8})
      BY <2>6, FS_AddElement
    <2>8. (((((({R1} \cup {R2}) \cup {R3}) \cup {R4}) \cup {R5}) \cup {R6}) \cup {R7}) \cup {R8}
              = {R1, R2, R3, R4, R5, R6, R7, R8}
      OBVIOUS
    <2> QED BY <2>7, <2>8
  <1>8. IsFiniteSet(UNION {R1, R2, R3, R4, R5, R6, R7, R8})
    BY <1>6, <1>7, FS_UNION
  <1>9. IsFiniteSet(UpgradeRows)
    BY <1>5, <1>8, FS_Subset
  <1> QED BY <1>9, MoreAreCounted DEF Blockers

LEMMA ReportsTyped == ClusterInv => ReportsOK
  BY RowsRated, ImagesRun, BlockersCounted DEF ReportsOK

\* Event by event, each counts for as often as it was seen, and at least once.
LEMMA EventsCounted ==
    ASSUME ClusterInv
    PROVE  WarningCount >= Cardinality(Got("events"))
  <1> DEFINE S == Got("events")
             K == {e.reason : e \in S}
             Times == [e \in S |-> IF e.count > 1 THEN e.count ELSE 1]
             One == [e \in S |-> 1]
             P == [r \in K |-> {e \in S : e.reason = r}]
             Of(r) == [e \in {x \in S : x.reason = r} |-> IF e.count > 1 THEN e.count ELSE 1]
  <1>1. IsFiniteSet(S)
    BY ListsAreFinite DEF Lists
  <1>2. \A e \in S : Times[e] \in Nat /\ One[e] = 1 /\ One[e] <= Times[e]
    BY DEF ClusterInv, Formed, EventsFormed, Got, Known
  <1>3. IsFiniteSet(K)
    <2> DEFINE F == [e \in S |-> e.reason]
    <2>1. \A r \in K : \E e \in S : r = F[e]
      OBVIOUS
    <2> HIDE DEF F, S, K
    <2> QED BY <1>1, <2>1, ImageIsFinite
  <1>4. /\ \A r \in K : P[r] \in SUBSET S
        /\ \A q, r \in K : q # r => P[q] \cap P[r] = {}
    OBVIOUS
  <1>5. UNION {P[r] : r \in K} = S
    <2>1. \A e \in S : e.reason \in K /\ e \in P[e.reason]
      OBVIOUS
    <2> HIDE DEF P, S, K
    <2> QED BY <1>4, <2>1
  <1>6. DOMAIN ByReason = K /\ \A r \in K : ByReason[r] = SumFunction(Of(r))
    BY DEF ByReason
  <1>7. \A r \in K : /\ DOMAIN Of(r) = P[r]
                     /\ \A e \in P[r] : Of(r)[e] = Times[e]
    OBVIOUS
  <1> HIDE DEF S, K, Times, One, P, Of
  <1>8. \A r \in K : ByReason[r] = SumOf(Times, P[r])
    <2> TAKE r \in K
    <2>1. IsFiniteSet(P[r]) /\ \A e \in P[r] : Times[e] \in Nat /\ Of(r)[e] = Times[e]
      BY <1>1, <1>2, <1>4, <1>7, FS_Subset
    <2>2. SumFunction(Of(r)) = SumOf(Of(r), P[r])
      BY <1>7, <2>1, WholeFunctionSum
    <2>3. SumOf(Of(r), P[r]) = SumOf(Times, P[r])
      BY <2>1, SumAgrees
    <2> QED BY <1>6, <2>2, <2>3
  <1>9. SumOf(ByReason, K) = SumOf(Times, S)
    <2>1. SumOf(ByReason, K) = SumOf(Times, UNION {P[r] : r \in K})
      BY <1>1, <1>2, <1>3, <1>4, <1>8, SumOfParts
    <2> QED BY <1>5, <2>1, Zenon
  <1>10. SumFunction(ByReason) = SumOf(ByReason, K)
    BY <1>3, <1>6, WholeFunctionSum
  <1>11. SumOf(One, S) <= SumOf(Times, S)
    <2>1. \A e \in S : One[e] \in Nat /\ Times[e] \in Nat /\ One[e] <= Times[e]
      BY <1>2
    <2> QED BY <1>1, <2>1, SumLess
  <1>12. SumOf(One, S) = Cardinality(S)
    BY <1>1, <1>2, SumOfOnes
  <1>13. SumOf(One, S) \in Nat /\ SumOf(Times, S) \in Nat
    <2>1. \A e \in S : One[e] \in Nat /\ Times[e] \in Nat
      BY <1>2
    <2> QED BY <1>1, <2>1, SumRemove
  <1> QED BY <1>9, <1>10, <1>11, <1>12, <1>13 DEF WarningCount, S

LEMMA ClusterFindingsSay ==
    ASSUME NEW f \in ClusterFindings
    PROVE  f.severity \in Severities
  <1> DEFINE known == {"critical", "serious", "warning", "good"}
             nodes == Got("nodes")
             down == Finding("critical", "Nodes are not Ready", Names({n \in nodes : ~n.ready}))
             pressed == Finding("serious", "Nodes report resource pressure",
                                Names({n \in nodes : n.pressure # {}}))
             cordoned == Finding("warning", "Nodes are cordoned",
                                 Names({n \in nodes : n.cordoned}))
             crashing == Finding("critical", CrashLooping, Names(CriticalShown))
             pending == Finding("serious", "Pods are stuck in Pending",
                                Names({p \in ShownProblems : p.phase = "Pending"}))
             tight == IF Tight(95) THEN "serious" ELSE "warning"
             headroom == Finding(tight, "Scheduling headroom is low",
                                 IF Tight(85) THEN {0} ELSE {})
             busy == Finding("warning", "Live CPU utilisation is high",
                             IF Known("nodeMetrics") /\ AtLeast(Used, Allocatable("cpu"), 85)
                               THEN {0} ELSE {})
             short == Finding("serious", "Workloads are below desired replicas",
                              Names(Degraded))
             skewed == Finding("warning", "Kubelet version skew", Names(Skewed))
             zoned == Finding("warning", "All ready nodes are in one Availability Zone",
                              IF /\ Cardinality({z \in Zones : ReadyNodesOf(z) # {}}) = 1
                                 /\ Cardinality(nodes) > 1 THEN Zones ELSE {})
             spot == Finding("warning", "The fleet is almost entirely Spot",
                             IF AtLeast(Cardinality({n \in nodes : n.spot}),
                                        Cardinality(nodes), 80)
                               THEN {0} ELSE {})
             warned == Finding("warning", "Warning events are being emitted", DOMAIN ByReason)
  <1>0. \A severity, title, targets :
           \A x \in Finding(severity, title, targets) : x.severity = severity
    BY DEF Finding
  <1>1. ClusterFaults = UNION {down, pressed, cordoned, crashing, pending, headroom, busy, short,
                               skewed, zoned, spot, warned}
    BY Zenon DEF ClusterFaults
  <1>2. /\ \A x \in down : x.severity \in known
        /\ \A x \in pressed : x.severity \in known
        /\ \A x \in cordoned : x.severity \in known
        /\ \A x \in crashing : x.severity \in known
        /\ \A x \in pending : x.severity \in known
    BY <1>0
  <1>3. \A x \in headroom : x.severity \in known
    <2>1. tight \in known
      OBVIOUS
    <2> HIDE DEF tight, known
    <2>2. \A x \in headroom : x.severity = tight
      BY <1>0
    <2> QED BY <2>1, <2>2
  <1>4. /\ \A x \in busy : x.severity \in known
        /\ \A x \in short : x.severity \in known
        /\ \A x \in skewed : x.severity \in known
        /\ \A x \in zoned : x.severity \in known
        /\ \A x \in spot : x.severity \in known
        /\ \A x \in warned : x.severity \in known
    BY <1>0
  <1>5. f \in ClusterFaults \/ f.severity \in known
    BY DEF ClusterFindings
  <1>6. known \subseteq Severities
    BY DEF Severities
  <1> HIDE DEF down, pressed, cordoned, crashing, pending, headroom, busy, short, skewed, zoned,
           spot, warned, nodes, known
  <1> QED BY <1>1, <1>2, <1>3, <1>4, <1>5, <1>6

LEMMA ClusterTyped == ClusterInv => ClusterHealthOK
  <1> SUFFICES ASSUME ClusterInv PROVE ClusterHealthOK
    OBVIOUS
  <1>1. ASSUME NEW n \in Got("nodes")
        PROVE  NodeHealth(n) \in Severities
    BY DEF NodeHealth, Severities
  <1>2. ASSUME NEW p \in Problems
        PROVE  ProblemSeverity(p) \in Severities
    BY DEF ProblemSeverity, ReasonSeverity, Severities
  <1>3. Score \in 0 .. 100
    <2>1. SignalsFormed(Signals) /\ Score = ScoreOf(Signals)
      BY OverviewThen DEF Overview, Sound
    <2> QED BY <2>1, ScoreTyped
  <1>4. Grade \in {"Healthy", "Attention", "Degraded", "Critical"}
    BY DEF Grade
  <1>5. WarningCount >= Cardinality(Got("events"))
    BY EventsCounted
  <1>6. EventsTruncated \in BOOLEAN
    BY DEF EventsTruncated
  <1>7. \A f \in ClusterFindings : f.severity \in Severities
    BY ClusterFindingsSay
  <1> QED BY <1>1, <1>2, <1>3, <1>4, <1>5, <1>6, <1>7 DEF ClusterHealthOK

\* Whatever the cluster answers and whatever then breaks in it, each screen and
\* each report gives every row and every finding a severity the front end has a
\* colour for and a rank that sorts it; the score is one of 0 to 100, no more
\* endpoints are ready than there are, no more reasons block an upgrade than it
\* has rows, no image is reported that nothing runs, and the events count at
\* least once each; the history of the deployment stays one of its replica sets.
THEOREM ScreensAreTyped == ViewsSpec => []ViewsTypeOK
  <1>1. ClusterInv /\ TrailInv => ViewsTypeOK
    BY StorageTyped, ConfigTyped, NetworkTyped, ReportsTyped, ClusterTyped
       DEF ViewsTypeOK, TrailInv
  <1>2. ViewsSpec => ClusterSpec /\ TrailSpec
    BY DEF ViewsSpec
  <1> QED BY <1>1, <1>2, ClusterInvariant, TrailInvariant, PTL
=============================================================================
