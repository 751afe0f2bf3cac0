---------------------------- MODULE CountProofs ----------------------------
(***************************************************************************)
(* Theorems about what the service counts: the views of the stored reports *)
(* (Statistics), what is concluded from them (Insight) and the lookups     *)
(* behind an SPF record (DnsHealth).  All of them rest on a theory of sums *)
(* over finite sets, in which induction is done by a smallest              *)
(* counterexample.                                                         *)
(***************************************************************************)
EXTENDS DnsHealth, Insight, TLAPS, FiniteSetTheorems, WellFoundedInduction

(***************************************************************************)
(* Sums over finite sets.                                                  *)
(***************************************************************************)

\* A set of subsets of a finite set, not empty, has a smallest member: the
\* form in which the proofs below do induction on finite sets.
LEMMA SmallestSet ==
  ASSUME NEW S, IsFiniteSet(S), NEW Bad, Bad \subseteq SUBSET S, Bad # {}
  PROVE  \E s \in Bad : \A t \in SUBSET s : t # s => t \notin Bad
<1>1. IsWellFoundedOn(StrictSubsetOrdering(S), SUBSET S)
  BY FS_StrictSubsetOrderingWellFounded, FS_FiniteSubsetsOfFinite
<1>2. PICK s \in Bad : \A t \in Bad : <<t, s>> \notin StrictSubsetOrdering(S)
  <2>. HIDE DEF StrictSubsetOrdering
  <2>. QED
    BY <1>1, WFMin
<1>3. ASSUME NEW t \in Bad, t \subseteq s, t # s PROVE FALSE
  BY <1>2, <1>3 DEF StrictSubsetOrdering
<1>. QED
  BY <1>2, <1>3

\* The recursion of MapThenSumSet, for the weights w of the elements.
First(s) == CHOOSE x \in s : TRUE
Adds(w, S, g) == g = [s \in SUBSET S |-> IF s = {} THEN 0 ELSE w[First(s)] + g[s \ {First(s)}]]
Sum(w, S) == (CHOOSE g : Adds(w, S, g))[S]

LEMMA FirstIsIn ==
  ASSUME NEW s, s # {}
  PROVE  First(s) \in s
BY DEF First

LEMMA AddsStep ==
  ASSUME NEW w, NEW S, NEW g, Adds(w, S, g), NEW s \in SUBSET S
  PROVE  g[s] = IF s = {} THEN 0 ELSE w[First(s)] + g[s \ {First(s)}]
BY DEF Adds

\* Two solutions agree where both are defined.
LEMMA AddsAgree ==
  ASSUME NEW w, NEW A, NEW B, NEW g, NEW h, Adds(w, A, g), Adds(w, B, h),
         NEW S, S \subseteq A, S \subseteq B, IsFiniteSet(S)
  PROVE  g[S] = h[S]
<1>. DEFINE Bad == {s \in SUBSET S : g[s] # h[s]}
<1>1. SUFFICES ASSUME g[S] # h[S] PROVE FALSE
  OBVIOUS
<1>2. PICK s \in Bad : \A t \in SUBSET s : t # s => t \notin Bad
  <2>1. Bad \subseteq SUBSET S /\ Bad # {}
    BY <1>1
  <2>. HIDE DEF Bad
  <2>. QED
    BY <2>1, SmallestSet
<1>3. s \in SUBSET A /\ s \in SUBSET B /\ s \in SUBSET S
  OBVIOUS
<1>4. CASE s = {}
  <2>1. g[s] = 0 /\ h[s] = 0
    BY <1>3, <1>4, AddsStep
  <2>. QED
    BY <2>1
<1>5. CASE s # {}
  <2>1. First(s) \in s
    BY <1>5, FirstIsIn
  <2>2. s \ {First(s)} \notin Bad /\ s \ {First(s)} \in SUBSET S
    BY <1>2, <1>3, <2>1
  <2>3. g[s \ {First(s)}] = h[s \ {First(s)}]
    BY <2>2
  <2>. HIDE DEF Bad
  <2>4. g[s] = w[First(s)] + g[s \ {First(s)}]
    BY <1>3, <1>5, AddsStep
  <2>5. h[s] = w[First(s)] + h[s \ {First(s)}]
    BY <1>3, <1>5, AddsStep
  <2>6. s \in Bad => g[s] # h[s]
    BY DEF Bad
  <2>. QED
    BY <1>2, <2>3, <2>4, <2>5, <2>6
<1>. QED
  BY <1>4, <1>5

\* A finite set has a solution.
LEMMA SumExists ==
  ASSUME NEW w, NEW S, IsFiniteSet(S)
  PROVE  \E g : Adds(w, S, g)
<1>. DEFINE Bad == {s \in SUBSET S : ~\E g : Adds(w, s, g)}
<1>1. SUFFICES ASSUME ~\E g : Adds(w, S, g) PROVE FALSE
  OBVIOUS
<1>2. PICK s \in Bad : \A t \in SUBSET s : t # s => t \notin Bad
  <2>1. Bad \subseteq SUBSET S /\ Bad # {}
    BY <1>1
  <2>. HIDE DEF Bad
  <2>. QED
    BY <2>1, SmallestSet
<1>3. s \in SUBSET S /\ ~\E g : Adds(w, s, g)
  OBVIOUS
<1>4. \A t \in SUBSET s : t # s => \E g : Adds(w, t, g)
  BY <1>2, <1>3
<1>. HIDE DEF Bad
<1>. DEFINE sol(t) == CHOOSE g : Adds(w, t, g)
            G == [t \in SUBSET s |-> IF t = {} THEN 0 ELSE w[First(t)] + sol(t \ {First(t)})[t \ {First(t)}]]
<1>5. \A t \in SUBSET s : t # s => Adds(w, t, sol(t))
  BY <1>4
<1>6. ASSUME NEW t \in SUBSET s, t # s PROVE G[t] = sol(t)[t]
  <2>1. Adds(w, t, sol(t)) /\ IsFiniteSet(t)
    BY <1>3, <1>5, <1>6, FS_Subset
  <2>2. CASE t = {}
    BY <2>1, <2>2, AddsStep
  <2>3. CASE t # {}
    <3>. DEFINE u == t \ {First(t)}
    <3>1. u \in SUBSET s /\ u # s /\ u \subseteq t /\ IsFiniteSet(u) /\ First(t) \in t
      BY <2>1, <2>3, FirstIsIn, FS_Subset
    <3>2. Adds(w, u, sol(u))
      BY <1>5, <3>1
    <3>. HIDE DEF sol
    <3>3. sol(t)[t] = w[First(t)] + sol(t)[u]
      BY <2>1, <2>3, AddsStep
    <3>4. sol(t)[u] = sol(u)[u]
      BY <2>1, <3>1, <3>2, AddsAgree
    <3>. QED
      BY <2>3, <3>3, <3>4
  <2>. QED
    BY <2>2, <2>3
<1>7. ASSUME NEW t \in SUBSET s, t # {}
      PROVE  sol(t \ {First(t)})[t \ {First(t)}] = G[t \ {First(t)}]
  <2>1. First(t) \in t
    BY <1>7, FirstIsIn
  <2>2. t \ {First(t)} \in SUBSET s /\ t \ {First(t)} # s
    BY <2>1
  <2>. HIDE DEF sol, G
  <2>. QED
    BY <1>6, <2>2
<1>8. Adds(w, s, G)
  <2>1. G = [t \in SUBSET s |-> IF t = {} THEN 0 ELSE w[First(t)] + G[t \ {First(t)}]]
    <3>2. ASSUME NEW t \in SUBSET s
          PROVE  (IF t = {} THEN 0 ELSE w[First(t)] + sol(t \ {First(t)})[t \ {First(t)}])
                   = (IF t = {} THEN 0 ELSE w[First(t)] + G[t \ {First(t)}])
      <4>. HIDE DEF sol, G
      <4>. QED
        BY <1>7
    <3>. DEFINE A(t) == IF t = {} THEN 0 ELSE w[First(t)] + sol(t \ {First(t)})[t \ {First(t)}]
                B(t) == IF t = {} THEN 0 ELSE w[First(t)] + G[t \ {First(t)}]
    <3>3. \A t \in SUBSET s : A(t) = B(t)
      BY <3>2
    <3>4. G = [t \in SUBSET s |-> A(t)]
      OBVIOUS
    <3>5. [t \in SUBSET s |-> A(t)] = [t \in SUBSET s |-> B(t)]
      <4>. HIDE DEF A, B
      <4>. QED
        BY <3>3
    <3>6. G = [t \in SUBSET s |-> B(t)]
      BY <3>4, <3>5
    <3>. QED
      BY <3>6
  <2>. QED
    BY <2>1 DEF Adds
<1>. QED
  BY <1>3, <1>8

LEMMA SumIsSolution ==
  ASSUME NEW w, NEW S, IsFiniteSet(S), NEW g, Adds(w, S, g)
  PROVE  Sum(w, S) = g[S]
<1>. DEFINE it == CHOOSE h : Adds(w, S, h)
<1>1. Adds(w, S, it)
  OBVIOUS
<1>2. Sum(w, S) = it[S]
  BY DEF Sum
<1>. HIDE DEF it
<1>3. it[S] = g[S]
  BY <1>1, AddsAgree
<1>. QED
  BY <1>2, <1>3

LEMMA SumEmpty ==
  ASSUME NEW w
  PROVE  Sum(w, {}) = 0
<1>1. IsFiniteSet({})
  BY FS_EmptySet
<1>2. PICK g : Adds(w, {}, g)
  BY <1>1, SumExists
<1>3. g[{}] = 0
  BY <1>2, AddsStep
<1>. QED
  BY <1>1, <1>2, <1>3, SumIsSolution

LEMMA SumStep ==
  ASSUME NEW w, NEW S, IsFiniteSet(S), S # {}
  PROVE  Sum(w, S) = w[First(S)] + Sum(w, S \ {First(S)})
<1>. DEFINE T == S \ {First(S)}
<1>1. IsFiniteSet(T)
  BY FS_Subset
<1>2. PICK g : Adds(w, S, g)
  BY SumExists
<1>3. PICK h : Adds(w, T, h)
  BY <1>1, SumExists
<1>4. g[S] = w[First(S)] + g[T]
  BY <1>2, AddsStep
<1>5. g[T] = h[T]
  <2>1. T \subseteq S /\ T \subseteq T
    OBVIOUS
  <2>. HIDE DEF T
  <2>. QED
    BY <1>1, <1>2, <1>3, <2>1, AddsAgree
<1>6. Sum(w, S) = g[S] /\ Sum(w, T) = h[T]
  BY <1>1, <1>2, <1>3, SumIsSolution
<1>. QED
  BY <1>4, <1>5, <1>6

\* Weights that are numbers add up to a number.
Weights(w, S) == \A x \in S : w[x] \in Nat

LEMMA SumNat ==
  ASSUME NEW w, NEW S, IsFiniteSet(S), Weights(w, S)
  PROVE  Sum(w, S) \in Nat
<1>. DEFINE Bad == {s \in SUBSET S : Sum(w, s) \notin Nat}
<1>1. SUFFICES ASSUME Sum(w, S) \notin Nat PROVE FALSE
  OBVIOUS
<1>2. PICK s \in Bad : \A t \in SUBSET s : t # s => t \notin Bad
  <2>1. Bad \subseteq SUBSET S /\ Bad # {}
    BY <1>1
  <2>. HIDE DEF Bad
  <2>. QED
    BY <2>1, SmallestSet
<1>3. s \in SUBSET S /\ Sum(w, s) \notin Nat
  OBVIOUS
<1>4. \A t \in SUBSET s : t # s => Sum(w, t) \in Nat
  BY <1>2, <1>3
<1>. HIDE DEF Bad
<1>5. s # {}
  BY <1>3, SumEmpty
<1>6. First(s) \in s /\ IsFiniteSet(s)
  BY <1>3, <1>5, FirstIsIn, FS_Subset
<1>7. Sum(w, s) = w[First(s)] + Sum(w, s \ {First(s)})
  BY <1>5, <1>6, SumStep
<1>8. w[First(s)] \in Nat /\ Sum(w, s \ {First(s)}) \in Nat
  BY <1>3, <1>4, <1>6 DEF Weights
<1>. QED
  BY <1>3, <1>7, <1>8

\* The order does not matter: any element may be taken first.
LEMMA SumAny ==
  ASSUME NEW w, NEW S, IsFiniteSet(S), Weights(w, S), NEW y \in S
  PROVE  Sum(w, S) = w[y] + Sum(w, S \ {y})
<1>. DEFINE Bad == {s \in SUBSET S : \E x \in s : Sum(w, s) # w[x] + Sum(w, s \ {x})}
<1>1. SUFFICES ASSUME Sum(w, S) # w[y] + Sum(w, S \ {y}) PROVE FALSE
  OBVIOUS
<1>2. PICK s \in Bad : \A t \in SUBSET s : t # s => t \notin Bad
  <2>1. Bad \subseteq SUBSET S /\ Bad # {}
    BY <1>1
  <2>. HIDE DEF Bad
  <2>. QED
    BY <2>1, SmallestSet
<1>3. s \in SUBSET S /\ \E x \in s : Sum(w, s) # w[x] + Sum(w, s \ {x})
  OBVIOUS
<1>4. \A t \in SUBSET s : t # s => \A x \in t : Sum(w, t) = w[x] + Sum(w, t \ {x})
  BY <1>2, <1>3
<1>. HIDE DEF Bad
<1>5. PICK x \in s : Sum(w, s) # w[x] + Sum(w, s \ {x})
  BY <1>3
<1>6. PICK f : f = First(s)
  OBVIOUS
<1>7. f \in s /\ IsFiniteSet(s) /\ Sum(w, s) = w[f] + Sum(w, s \ {f})
  BY <1>3, <1>6, FirstIsIn, SumStep, FS_Subset
<1>8. x # f
  BY <1>5, <1>7
<1>9. Sum(w, s \ {f}) = w[x] + Sum(w, (s \ {f}) \ {x})
  BY <1>4, <1>7, <1>8
<1>10. Sum(w, s \ {x}) = w[f] + Sum(w, (s \ {x}) \ {f})
  BY <1>4, <1>7, <1>8
<1>11. (s \ {x}) \ {f} = (s \ {f}) \ {x}
  OBVIOUS
<1>12. w[x] \in Nat /\ w[f] \in Nat /\ Sum(w, (s \ {f}) \ {x}) \in Nat
  <2>1. IsFiniteSet((s \ {f}) \ {x}) /\ Weights(w, (s \ {f}) \ {x})
    BY <1>3, <1>7, FS_Subset DEF Weights
  <2>. QED
    BY <1>3, <1>7, <2>1, SumNat DEF Weights
<1>. QED
  BY <1>5, <1>7, <1>9, <1>10, <1>11, <1>12

\* A sum depends on the weights of its elements only.
LEMMA SumSame ==
  ASSUME NEW w, NEW v, NEW S, IsFiniteSet(S), \A x \in S : w[x] = v[x]
  PROVE  Sum(w, S) = Sum(v, S)
<1>. DEFINE Bad == {s \in SUBSET S : Sum(w, s) # Sum(v, s)}
<1>1. SUFFICES ASSUME Sum(w, S) # Sum(v, S) PROVE FALSE
  OBVIOUS
<1>2. PICK s \in Bad : \A t \in SUBSET s : t # s => t \notin Bad
  <2>1. Bad \subseteq SUBSET S /\ Bad # {}
    BY <1>1
  <2>. HIDE DEF Bad
  <2>. QED
    BY <2>1, SmallestSet
<1>3. s \in SUBSET S /\ Sum(w, s) # Sum(v, s)
  OBVIOUS
<1>4. \A t \in SUBSET s : t # s => Sum(w, t) = Sum(v, t)
  BY <1>2, <1>3
<1>. HIDE DEF Bad
<1>5. s # {}
  BY <1>3, SumEmpty
<1>6. First(s) \in s /\ IsFiniteSet(s)
  BY <1>3, <1>5, FirstIsIn, FS_Subset
<1>7. Sum(w, s) = w[First(s)] + Sum(w, s \ {First(s)})
  BY <1>5, <1>6, SumStep
<1>8. Sum(v, s) = v[First(s)] + Sum(v, s \ {First(s)})
  BY <1>5, <1>6, SumStep
<1>9. Sum(w, s \ {First(s)}) = Sum(v, s \ {First(s)}) /\ w[First(s)] = v[First(s)]
  BY <1>3, <1>4, <1>6
<1>. QED
  BY <1>3, <1>7, <1>8, <1>9

LEMMA SumSplit ==
  ASSUME NEW w, NEW A, NEW B, IsFiniteSet(A), IsFiniteSet(B), A \cap B = {},
         Weights(w, A), Weights(w, B)
  PROVE  Sum(w, A \cup B) = Sum(w, A) + Sum(w, B)
<1>. DEFINE Bad == {s \in SUBSET A : Sum(w, s \cup B) # Sum(w, s) + Sum(w, B)}
<1>1. SUFFICES ASSUME Sum(w, A \cup B) # Sum(w, A) + Sum(w, B) PROVE FALSE
  OBVIOUS
<1>2. PICK s \in Bad : \A t \in SUBSET s : t # s => t \notin Bad
  <2>1. Bad \subseteq SUBSET A /\ Bad # {}
    BY <1>1
  <2>. HIDE DEF Bad
  <2>. QED
    BY <2>1, SmallestSet
<1>3. s \in SUBSET A /\ Sum(w, s \cup B) # Sum(w, s) + Sum(w, B)
  OBVIOUS
<1>4. \A t \in SUBSET s : t # s => Sum(w, t \cup B) = Sum(w, t) + Sum(w, B)
  BY <1>2, <1>3
<1>. HIDE DEF Bad
<1>5. Sum(w, B) \in Nat /\ IsFiniteSet(s) /\ Weights(w, s)
  BY <1>3, SumNat, FS_Subset DEF Weights
<1>6. s # {}
  <2>1. SUFFICES ASSUME s = {} PROVE FALSE
    OBVIOUS
  <2>2. s \cup B = B
    BY <2>1
  <2>. QED
    BY <1>3, <1>5, <2>1, <2>2, SumEmpty
<1>7. PICK x \in s : TRUE
  BY <1>6
<1>8. Sum(w, s) = w[x] + Sum(w, s \ {x})
  BY <1>5, <1>7, SumAny
<1>9. Sum(w, s \cup B) = w[x] + Sum(w, (s \cup B) \ {x})
  <2>1. IsFiniteSet(s \cup B) /\ Weights(w, s \cup B)
    BY <1>5, FS_Union DEF Weights
  <2>. QED
    BY <1>7, <2>1, SumAny
<1>10. (s \cup B) \ {x} = (s \ {x}) \cup B
  BY <1>3, <1>7
<1>11. Sum(w, (s \ {x}) \cup B) = Sum(w, s \ {x}) + Sum(w, B)
  BY <1>4, <1>7
<1>12. w[x] \in Nat /\ Sum(w, s \ {x}) \in Nat
  <2>1. IsFiniteSet(s \ {x}) /\ Weights(w, s \ {x})
    BY <1>5, FS_Subset DEF Weights
  <2>. QED
    BY <1>5, <1>7, <2>1, SumNat DEF Weights
<1>13. Sum(w, s \cup B) = w[x] + (Sum(w, s \ {x}) + Sum(w, B))
  BY <1>9, <1>10, <1>11, Zenon
<1>. QED
  BY <1>3, <1>5, <1>8, <1>12, <1>13

\* More elements never add up to less.
LEMMA SumWithin ==
  ASSUME NEW w, NEW A, NEW B, IsFiniteSet(B), A \subseteq B, Weights(w, B)
  PROVE  Sum(w, A) <= Sum(w, B)
<1>1. IsFiniteSet(A) /\ IsFiniteSet(B \ A) /\ Weights(w, A) /\ Weights(w, B \ A)
  BY FS_Subset DEF Weights
<1>2. Sum(w, A \cup (B \ A)) = Sum(w, A) + Sum(w, B \ A)
  BY <1>1, SumSplit
<1>3. A \cup (B \ A) = B
  OBVIOUS
<1>4. Sum(w, A) \in Nat /\ Sum(w, B \ A) \in Nat
  BY <1>1, SumNat
<1>5. Sum(w, B) = Sum(w, A) + Sum(w, B \ A)
  BY <1>2, <1>3, Zenon
<1>. QED
  BY <1>4, <1>5

LEMMA SumSingle ==
  ASSUME NEW w, NEW x, w[x] \in Nat
  PROVE  Sum(w, {x}) = w[x]
<1>1. IsFiniteSet({x}) /\ {x} # {} /\ {x} \ {x} = {}
  BY FS_Singleton
<1>2. Sum(w, {x}) = w[x] + Sum(w, {x} \ {x})
  BY <1>1, SumAny DEF Weights
<1>. QED
  BY <1>1, <1>2, SumEmpty

\* No element weighs more than the sum.
LEMMA SumHolds ==
  ASSUME NEW w, NEW S, IsFiniteSet(S), Weights(w, S), NEW x \in S
  PROVE  w[x] <= Sum(w, S)
<1>1. Sum(w, {x}) = w[x]
  BY SumSingle DEF Weights
<1>2. Sum(w, {x}) <= Sum(w, S)
  BY SumWithin
<1>. QED
  BY <1>1, <1>2

LEMMA SumZero ==
  ASSUME NEW w, NEW S, IsFiniteSet(S), \A x \in S : w[x] = 0
  PROVE  Sum(w, S) = 0
<1>. DEFINE Bad == {s \in SUBSET S : Sum(w, s) # 0}
<1>1. SUFFICES ASSUME Sum(w, S) # 0 PROVE FALSE
  OBVIOUS
<1>2. PICK s \in Bad : \A t \in SUBSET s : t # s => t \notin Bad
  <2>1. Bad \subseteq SUBSET S /\ Bad # {}
    BY <1>1
  <2>. HIDE DEF Bad
  <2>. QED
    BY <2>1, SmallestSet
<1>3. s \in SUBSET S /\ Sum(w, s) # 0
  OBVIOUS
<1>4. \A t \in SUBSET s : t # s => Sum(w, t) = 0
  BY <1>2, <1>3
<1>. HIDE DEF Bad
<1>5. s # {}
  BY <1>3, SumEmpty
<1>6. First(s) \in s /\ IsFiniteSet(s)
  BY <1>3, <1>5, FirstIsIn, FS_Subset
<1>7. Sum(w, s) = w[First(s)] + Sum(w, s \ {First(s)})
  BY <1>5, <1>6, SumStep
<1>8. w[First(s)] = 0 /\ Sum(w, s \ {First(s)}) = 0
  BY <1>3, <1>4, <1>6
<1>. QED
  BY <1>3, <1>7, <1>8

\* Greater weights, greater sums.
LEMMA SumLess ==
  ASSUME NEW w, NEW v, NEW S, IsFiniteSet(S), Weights(w, S), Weights(v, S),
         \A x \in S : w[x] <= v[x]
  PROVE  Sum(w, S) <= Sum(v, S)
<1>. DEFINE Bad == {s \in SUBSET S : ~(Sum(w, s) <= Sum(v, s))}
<1>1. SUFFICES ASSUME ~(Sum(w, S) <= Sum(v, S)) PROVE FALSE
  OBVIOUS
<1>2. PICK s \in Bad : \A t \in SUBSET s : t # s => t \notin Bad
  <2>1. Bad \subseteq SUBSET S /\ Bad # {}
    BY <1>1
  <2>. HIDE DEF Bad
  <2>. QED
    BY <2>1, SmallestSet
<1>3. s \in SUBSET S /\ IsFiniteSet(s) /\ Weights(w, s) /\ Weights(v, s)
  BY FS_Subset DEF Weights
<1>4. s # {}
  <2>1. Sum(w, {}) = 0 /\ Sum(v, {}) = 0
    BY SumEmpty
  <2>. QED
    BY <2>1
<1>5. PICK x \in s : TRUE
  BY <1>4
<1>6. Sum(w, s) = w[x] + Sum(w, s \ {x}) /\ Sum(v, s) = v[x] + Sum(v, s \ {x})
  BY <1>3, SumAny
<1>7. IsFiniteSet(s \ {x}) /\ Weights(w, s \ {x}) /\ Weights(v, s \ {x})
  BY <1>3, FS_Subset DEF Weights
<1>8. Sum(w, s \ {x}) \in Nat /\ Sum(v, s \ {x}) \in Nat
  BY <1>7, SumNat
<1>9. Sum(w, s \ {x}) <= Sum(v, s \ {x})
  <2>1. s \ {x} \in SUBSET s /\ s \ {x} # s /\ s \ {x} \in SUBSET S
    BY <1>3
  <2>. QED
    BY <1>2, <2>1
<1>10. w[x] \in Nat /\ v[x] \in Nat /\ w[x] <= v[x]
  BY <1>3 DEF Weights
<1>11. Sum(w, s) <= Sum(v, s)
  BY <1>6, <1>8, <1>9, <1>10
<1>. QED
  BY <1>11

\* Weights that are added up.
LEMMA SumPlus ==
  ASSUME NEW u, NEW w, NEW v, NEW S, IsFiniteSet(S), Weights(w, S), Weights(v, S),
         \A x \in S : u[x] = w[x] + v[x]
  PROVE  Sum(u, S) = Sum(w, S) + Sum(v, S)
<1>. DEFINE Bad == {s \in SUBSET S : Sum(u, s) # Sum(w, s) + Sum(v, s)}
<1>1. SUFFICES ASSUME Sum(u, S) # Sum(w, S) + Sum(v, S) PROVE FALSE
  OBVIOUS
<1>2. PICK s \in Bad : \A t \in SUBSET s : t # s => t \notin Bad
  <2>1. Bad \subseteq SUBSET S /\ Bad # {}
    BY <1>1
  <2>. HIDE DEF Bad
  <2>. QED
    BY <2>1, SmallestSet
<1>3. s \in SUBSET S /\ IsFiniteSet(s) /\ Weights(w, s) /\ Weights(v, s) /\ Weights(u, s)
  BY FS_Subset DEF Weights
<1>4. s # {}
  <2>1. Sum(w, {}) = 0 /\ Sum(v, {}) = 0 /\ Sum(u, {}) = 0
    BY SumEmpty
  <2>. QED
    BY <2>1
<1>5. PICK x \in s : TRUE
  BY <1>4
<1>6. /\ Sum(w, s) = w[x] + Sum(w, s \ {x}) /\ Sum(v, s) = v[x] + Sum(v, s \ {x})
      /\ Sum(u, s) = u[x] + Sum(u, s \ {x})
  BY <1>3, SumAny
<1>7. IsFiniteSet(s \ {x}) /\ Weights(w, s \ {x}) /\ Weights(v, s \ {x})
  BY <1>3, FS_Subset DEF Weights
<1>8. Sum(w, s \ {x}) \in Nat /\ Sum(v, s \ {x}) \in Nat
  BY <1>7, SumNat
<1>9. Sum(u, s \ {x}) = Sum(w, s \ {x}) + Sum(v, s \ {x})
  <2>1. s \ {x} \in SUBSET s /\ s \ {x} # s /\ s \ {x} \in SUBSET S
    BY <1>3
  <2>. QED
    BY <1>2, <2>1
<1>10. w[x] \in Nat /\ v[x] \in Nat /\ u[x] = w[x] + v[x]
  BY <1>3 DEF Weights
<1>11. Sum(u, s) = Sum(w, s) + Sum(v, s)
  BY <1>6, <1>8, <1>9, <1>10
<1>. QED
  BY <1>11

\* Sets that overlap count together at most what they count apart.
LEMMA UnionWithin ==
  ASSUME NEW w, NEW A, NEW B, IsFiniteSet(A), IsFiniteSet(B), Weights(w, A), Weights(w, B)
  PROVE  Sum(w, A \cup B) <= Sum(w, A) + Sum(w, B)
<1>1. PICK C : C = B \ A
  OBVIOUS
<1>2. IsFiniteSet(C) /\ Weights(w, C) /\ A \cap C = {} /\ A \cup C = A \cup B /\ C \subseteq B
  BY <1>1, FS_Subset DEF Weights
<1>3. Sum(w, A \cup C) = Sum(w, A) + Sum(w, C)
  BY <1>2, SumSplit
<1>4. Sum(w, C) <= Sum(w, B)
  BY <1>2, SumWithin
<1>5. Sum(w, A) \in Nat /\ Sum(w, B) \in Nat /\ Sum(w, C) \in Nat
  BY <1>2, SumNat
<1>6. Sum(w, A \cup B) = Sum(w, A) + Sum(w, C)
  BY <1>2, <1>3
<1>. QED
  BY <1>4, <1>5, <1>6

LEMMA UnionsWithin ==
  ASSUME NEW w, NEW N, IsFiniteSet(N), Weights(w, N), NEW J, IsFiniteSet(J),
         NEW P, \A j \in J : P[j] \subseteq N,
         NEW q, Weights(q, J), \A j \in J : Sum(w, P[j]) <= q[j]
  PROVE  Sum(w, UNION {P[j] : j \in J}) <= Sum(q, J)
<1>. DEFINE Parts(s) == UNION {P[j] : j \in s}
            Bad == {s \in SUBSET J : ~(Sum(w, Parts(s)) <= Sum(q, s))}
<1>1. SUFFICES ASSUME ~(Sum(w, Parts(J)) <= Sum(q, J)) PROVE FALSE
  OBVIOUS
<1>2. PICK s \in Bad : \A t \in SUBSET s : t # s => t \notin Bad
  <2>1. Bad \subseteq SUBSET J /\ Bad # {}
    BY <1>1
  <2>. HIDE DEF Bad
  <2>. QED
    BY <2>1, SmallestSet
<1>3. s \in SUBSET J /\ IsFiniteSet(s) /\ Weights(q, s)
  BY FS_Subset DEF Weights
<1>4. s # {}
  <2>1. Sum(w, {}) = 0 /\ Sum(q, {}) = 0
    BY SumEmpty
  <2>2. Parts({}) = {}
    OBVIOUS
  <2>3. s \in Bad => ~(Sum(w, Parts(s)) <= Sum(q, s))
    BY Zenon
  <2>. HIDE DEF Parts, Bad
  <2>4. s = {} => Sum(w, Parts(s)) = 0 /\ Sum(q, s) = 0
    BY <2>1, <2>2, Zenon
  <2>. QED
    BY <2>3, <2>4
<1>5. PICK j \in s : TRUE
  BY <1>4
<1>6. PICK t : t = s \ {j}
  OBVIOUS
<1>7. t \in SUBSET s /\ t # s /\ t \in SUBSET J /\ IsFiniteSet(t) /\ Weights(q, t)
  BY <1>3, <1>6, FS_Subset DEF Weights
<1>8. Parts(s) = P[j] \cup Parts(t)
  BY <1>5, <1>6
<1>9. Parts(t) \subseteq N /\ P[j] \subseteq N
  BY <1>3, <1>7
<1>10. Sum(w, Parts(t)) <= Sum(q, t)
  BY <1>2, <1>7
<1>. HIDE DEF Parts, Bad
<1>11. PICK A, B : A = P[j] /\ B = Parts(t)
  OBVIOUS
<1>12. IsFiniteSet(A) /\ IsFiniteSet(B) /\ Weights(w, A) /\ Weights(w, B)
  BY <1>9, <1>11, FS_Subset DEF Weights
<1>13. Sum(w, A \cup B) <= Sum(w, A) + Sum(w, B) /\ Sum(w, A) \in Nat /\ Sum(w, B) \in Nat
  BY <1>12, UnionWithin, SumNat
<1>14. q[j] \in Nat /\ Sum(w, A) <= q[j] /\ Sum(q, s) = q[j] + Sum(q, t) /\ Sum(q, t) \in Nat
  <2>1. Sum(q, s) = q[j] + Sum(q, s \ {j})
    BY <1>3, SumAny
  <2>2. Sum(q, t) \in Nat
    BY <1>7, SumNat
  <2>. QED
    BY <1>3, <1>6, <1>11, <2>1, <2>2 DEF Weights
<1>15. Sum(w, A \cup B) <= Sum(q, s)
  <2>1. Sum(w, B) <= Sum(q, t)
    BY <1>10, <1>11
  <2>2. Sum(w, A \cup B) \in Nat
    <3>1. IsFiniteSet(A \cup B) /\ Weights(w, A \cup B)
      BY <1>12, FS_Union DEF Weights
    <3>. QED
      BY <3>1, SumNat
  <2>. QED
    BY <1>13, <1>14, <2>1, <2>2
<1>16. Sum(w, Parts(s)) <= Sum(q, s)
  BY <1>8, <1>11, <1>15
<1>. QED
  BY <1>16 DEF Bad

\* Elements sorted by a key into groups: the sums of the groups add up to the
\* sum of the elements whose keys are looked at.
Fibre(S, key, k) == {x \in S : key[x] = k}
KeyIn(S, key, K) == {x \in S : key[x] \in K}

LEMMA SumFibres ==
  ASSUME NEW w, NEW S, IsFiniteSet(S), Weights(w, S), NEW key, NEW K, IsFiniteSet(K),
         NEW f, \A k \in K : f[k] = Sum(w, Fibre(S, key, k))
  PROVE  Sum(f, K) = Sum(w, KeyIn(S, key, K))
<1>. DEFINE Bad == {s \in SUBSET K : Sum(f, s) # Sum(w, KeyIn(S, key, s))}
<1>1. SUFFICES ASSUME Sum(f, K) # Sum(w, KeyIn(S, key, K)) PROVE FALSE
  OBVIOUS
<1>2. PICK s \in Bad : \A t \in SUBSET s : t # s => t \notin Bad
  <2>1. Bad \subseteq SUBSET K /\ Bad # {}
    BY <1>1
  <2>. HIDE DEF Bad
  <2>. QED
    BY <2>1, SmallestSet
<1>3. s \in SUBSET K /\ Sum(f, s) # Sum(w, KeyIn(S, key, s))
  OBVIOUS
<1>4. \A t \in SUBSET s : t # s => Sum(f, t) = Sum(w, KeyIn(S, key, t))
  BY <1>2, <1>3
<1>. HIDE DEF Bad
<1>5. s # {}
  <2>1. KeyIn(S, key, {}) = {}
    BY DEF KeyIn
  <2>. QED
    BY <1>3, <2>1, SumEmpty
<1>6. PICK k \in s : k = First(s)
  BY <1>5, FirstIsIn
<1>7. Sum(f, s) = f[k] + Sum(f, s \ {k})
  BY <1>3, <1>5, <1>6, SumStep, FS_Subset
<1>8. Sum(f, s \ {k}) = Sum(w, KeyIn(S, key, s \ {k}))
  BY <1>4, <1>6
<1>9. f[k] = Sum(w, Fibre(S, key, k))
  BY <1>3, <1>6
<1>10. Sum(w, Fibre(S, key, k) \cup KeyIn(S, key, s \ {k}))
         = Sum(w, Fibre(S, key, k)) + Sum(w, KeyIn(S, key, s \ {k}))
  <2>1. /\ Fibre(S, key, k) \subseteq S /\ KeyIn(S, key, s \ {k}) \subseteq S
        /\ Fibre(S, key, k) \cap KeyIn(S, key, s \ {k}) = {}
    BY DEF Fibre, KeyIn
  <2>2. /\ IsFiniteSet(Fibre(S, key, k)) /\ IsFiniteSet(KeyIn(S, key, s \ {k}))
        /\ Weights(w, Fibre(S, key, k)) /\ Weights(w, KeyIn(S, key, s \ {k}))
    BY <2>1, FS_Subset DEF Weights
  <2>. HIDE DEF Fibre, KeyIn
  <2>3. PICK A : A = Fibre(S, key, k)
    OBVIOUS
  <2>4. PICK B : B = KeyIn(S, key, s \ {k})
    OBVIOUS
  <2>5. /\ IsFiniteSet(A) /\ IsFiniteSet(B) /\ A \cap B = {}
        /\ Weights(w, A) /\ Weights(w, B)
    BY <2>1, <2>2, <2>3, <2>4
  <2>6. Sum(w, A \cup B) = Sum(w, A) + Sum(w, B)
    BY <2>5, SumSplit
  <2>. QED
    BY <2>3, <2>4, <2>6
<1>11. Fibre(S, key, k) \cup KeyIn(S, key, s \ {k}) = KeyIn(S, key, s)
  BY <1>6 DEF Fibre, KeyIn
<1>. QED
  BY <1>3, <1>7, <1>8, <1>9, <1>10, <1>11

----------------------------------------------------------------------------
(***************************************************************************)
(* The sums of the modules are sums of weights.                            *)
(***************************************************************************)

CountOf(rows) == [row \in rows |-> Rec(row).count]
TotalOf(f, K) == [k \in K |-> f[k].total]
PassOf(f, K) == [k \in K |-> f[k].pass]

LEMMA VolumeIs ==
  ASSUME NEW rows, IsFiniteSet(rows)
  PROVE  Volume(rows) = Sum(CountOf(rows), rows)
<1>. DEFINE w == CountOf(rows)
            Eq(g) == g = [s \in SUBSET rows |-> IF s = {} THEN 0 ELSE
                            Rec(CHOOSE x \in s : TRUE).count + g[s \ {CHOOSE x \in s : TRUE}]]
            it == CHOOSE g : Eq(g)
<1>1. Volume(rows) = it[rows]
  BY DEF Volume, MapThenSumSet, MapThenFoldSet
<1>2. ASSUME NEW g PROVE Adds(w, rows, g) <=> Eq(g)
  <2>. DEFINE A(s) == IF s = {} THEN 0 ELSE w[First(s)] + g[s \ {First(s)}]
              B(s) == IF s = {} THEN 0 ELSE
                        Rec(CHOOSE x \in s : TRUE).count + g[s \ {CHOOSE x \in s : TRUE}]
  <2>1. ASSUME NEW s \in SUBSET rows PROVE A(s) = B(s)
    <3>1. CASE s = {}
      BY <3>1
    <3>2. CASE s # {}
      <4>1. First(s) \in s /\ First(s) = CHOOSE x \in s : TRUE
        BY <3>2, FirstIsIn DEF First
      <4>2. w[First(s)] = Rec(First(s)).count
        BY <4>1 DEF CountOf
      <4>. HIDE DEF w
      <4>. QED
        BY <3>2, <4>1, <4>2
    <3>. QED
      BY <3>1, <3>2
  <2>2. [s \in SUBSET rows |-> A(s)] = [s \in SUBSET rows |-> B(s)]
    <3>. HIDE DEF A, B
    <3>. QED
      BY <2>1
  <2>. QED
    BY <2>2 DEF Adds
<1>3. \E g : Adds(w, rows, g)
  BY SumExists
<1>4. Eq(it)
  <2>. HIDE DEF Eq
  <2>1. \E g : Eq(g)
    BY <1>2, <1>3
  <2>. QED
    BY <2>1
<1>. HIDE DEF Eq, it
<1>5. Adds(w, rows, it)
  BY <1>2, <1>4
<1>. QED
  BY <1>1, <1>5, SumIsSolution

LEMMA TotalsIs ==
  ASSUME NEW f, NEW K, IsFiniteSet(K)
  PROVE  Totals(f, K) = Sum(TotalOf(f, K), K)
<1>. DEFINE w == TotalOf(f, K)
            Eq(g) == g = [s \in SUBSET K |-> IF s = {} THEN 0 ELSE
                            f[CHOOSE x \in s : TRUE].total + g[s \ {CHOOSE x \in s : TRUE}]]
            it == CHOOSE g : Eq(g)
<1>1. Totals(f, K) = it[K]
  BY DEF Totals, MapThenSumSet, MapThenFoldSet
<1>2. ASSUME NEW g PROVE Adds(w, K, g) <=> Eq(g)
  <2>. DEFINE A(s) == IF s = {} THEN 0 ELSE w[First(s)] + g[s \ {First(s)}]
              B(s) == IF s = {} THEN 0 ELSE
                        f[CHOOSE x \in s : TRUE].total + g[s \ {CHOOSE x \in s : TRUE}]
  <2>1. ASSUME NEW s \in SUBSET K PROVE A(s) = B(s)
    <3>1. CASE s = {}
      BY <3>1
    <3>2. CASE s # {}
      <4>1. First(s) \in s /\ First(s) = CHOOSE x \in s : TRUE
        BY <3>2, FirstIsIn DEF First
      <4>2. w[First(s)] = f[First(s)].total
        BY <4>1 DEF TotalOf
      <4>. HIDE DEF w
      <4>. QED
        BY <3>2, <4>1, <4>2
    <3>. QED
      BY <3>1, <3>2
  <2>2. [s \in SUBSET K |-> A(s)] = [s \in SUBSET K |-> B(s)]
    <3>. HIDE DEF A, B
    <3>. QED
      BY <2>1
  <2>. QED
    BY <2>2 DEF Adds
<1>3. \E g : Adds(w, K, g)
  BY SumExists
<1>4. Eq(it)
  <2>. HIDE DEF Eq
  <2>1. \E g : Eq(g)
    BY <1>2, <1>3
  <2>. QED
    BY <2>1
<1>. HIDE DEF Eq, it
<1>5. Adds(w, K, it)
  BY <1>2, <1>4
<1>. QED
  BY <1>1, <1>5, SumIsSolution

LEMMA PassesIs ==
  ASSUME NEW f, NEW K, IsFiniteSet(K)
  PROVE  Passes(f, K) = Sum(PassOf(f, K), K)
<1>. DEFINE w == PassOf(f, K)
            Eq(g) == g = [s \in SUBSET K |-> IF s = {} THEN 0 ELSE
                            f[CHOOSE x \in s : TRUE].pass + g[s \ {CHOOSE x \in s : TRUE}]]
            it == CHOOSE g : Eq(g)
<1>1. Passes(f, K) = it[K]
  BY DEF Passes, MapThenSumSet, MapThenFoldSet
<1>2. ASSUME NEW g PROVE Adds(w, K, g) <=> Eq(g)
  <2>. DEFINE A(s) == IF s = {} THEN 0 ELSE w[First(s)] + g[s \ {First(s)}]
              B(s) == IF s = {} THEN 0 ELSE
                        f[CHOOSE x \in s : TRUE].pass + g[s \ {CHOOSE x \in s : TRUE}]
  <2>1. ASSUME NEW s \in SUBSET K PROVE A(s) = B(s)
    <3>1. CASE s = {}
      BY <3>1
    <3>2. CASE s # {}
      <4>1. First(s) \in s /\ First(s) = CHOOSE x \in s : TRUE
        BY <3>2, FirstIsIn DEF First
      <4>2. w[First(s)] = f[First(s)].pass
        BY <4>1 DEF PassOf
      <4>. HIDE DEF w
      <4>. QED
        BY <3>2, <4>1, <4>2
    <3>. QED
      BY <3>1, <3>2
  <2>2. [s \in SUBSET K |-> A(s)] = [s \in SUBSET K |-> B(s)]
    <3>. HIDE DEF A, B
    <3>. QED
      BY <2>1
  <2>. QED
    BY <2>2 DEF Adds
<1>3. \E g : Adds(w, K, g)
  BY SumExists
<1>4. Eq(it)
  <2>. HIDE DEF Eq
  <2>1. \E g : Eq(g)
    BY <1>2, <1>3
  <2>. QED
    BY <2>1
<1>. HIDE DEF Eq, it
<1>5. Adds(w, K, it)
  BY <1>2, <1>4
<1>. QED
  BY <1>1, <1>5, SumIsSolution

----------------------------------------------------------------------------
(***************************************************************************)
(* Rows, tallies and groups.                                               *)
(***************************************************************************)

\* Rows of finitely many reports that count messages.
GoodRows(rows) == IsFiniteSet(rows) /\ \A row \in rows : Rec(row).count \in Nat

LEMMA RowsWithin ==
  ASSUME NEW rows, GoodRows(rows), NEW some, some \subseteq rows
  PROVE  GoodRows(some)
BY FS_Subset DEF GoodRows

LEMMA WeightsOfRows ==
  ASSUME NEW rows, GoodRows(rows)
  PROVE  Weights(CountOf(rows), rows)
BY DEF Weights, GoodRows, CountOf

\* The volume of some of the rows, by the weights of all of them.
LEMMA VolumeOfSome ==
  ASSUME NEW rows, GoodRows(rows), NEW some, some \subseteq rows
  PROVE  Volume(some) = Sum(CountOf(rows), some) /\ Volume(some) \in Nat
<1>1. GoodRows(some) /\ IsFiniteSet(some)
  BY RowsWithin DEF GoodRows
<1>2. Volume(some) = Sum(CountOf(some), some)
  BY <1>1, VolumeIs
<1>3. \A row \in some : CountOf(some)[row] = CountOf(rows)[row]
  BY DEF CountOf
<1>4. Sum(CountOf(some), some) = Sum(CountOf(rows), some)
  BY <1>1, <1>3, SumSame
<1>5. Sum(CountOf(some), some) \in Nat
  BY <1>1, SumNat, WeightsOfRows
<1>. QED
  BY <1>2, <1>4, <1>5

LEMMA TallyIs ==
  ASSUME NEW rows, GoodRows(rows)
  PROVE  /\ Tally(rows).total = Volume(rows) /\ Tally(rows).total \in Nat
         /\ Tally(rows).pass = Volume({row \in rows : Aligned(row)}) /\ Tally(rows).pass \in Nat
         /\ Tally(rows).fail = Volume({row \in rows : ~Aligned(row)}) /\ Tally(rows).fail \in Nat
         /\ Tally(rows).total = Tally(rows).pass + Tally(rows).fail
<1>. DEFINE good == {row \in rows : Aligned(row)}
            bad == {row \in rows : ~Aligned(row)}
            w == CountOf(rows)
<1>1. /\ Tally(rows).total = Volume(rows) /\ Tally(rows).pass = Volume(good)
      /\ Tally(rows).fail = Volume(bad)
  BY DEF Tally
<1>2. good \subseteq rows /\ bad \subseteq rows /\ good \cap bad = {} /\ good \cup bad = rows
  OBVIOUS
<1>. HIDE DEF good, bad
<1>3. /\ Volume(rows) = Sum(w, rows) /\ Volume(rows) \in Nat
      /\ Volume(good) = Sum(w, good) /\ Volume(good) \in Nat
      /\ Volume(bad) = Sum(w, bad) /\ Volume(bad) \in Nat
  BY <1>2, VolumeOfSome
<1>4. Sum(w, good \cup bad) = Sum(w, good) + Sum(w, bad)
  <2>1. IsFiniteSet(good) /\ IsFiniteSet(bad) /\ Weights(w, good) /\ Weights(w, bad)
    BY <1>2, RowsWithin, WeightsOfRows DEF GoodRows, Weights
  <2>. QED
    BY <1>2, <2>1, SumSplit
<1>5. Volume(rows) = Volume(good) + Volume(bad)
  BY <1>2, <1>3, <1>4, Zenon
<1>. QED
  BY <1>1, <1>3, <1>5 DEF good, bad

\* Rows grouped by the keys that a function gives them.
Groups(rows, key) == [k \in {key[row] : row \in rows} |-> Tally(Fibre(rows, key, k))]

LEMMA KeysAreFinite ==
  ASSUME NEW rows, IsFiniteSet(rows), NEW key
  PROVE  IsFiniteSet({key[row] : row \in rows})
<1>. DEFINE K == {key[row] : row \in rows}
            f == [row \in rows |-> key[row]]
<1>1. f \in [rows -> K] /\ \A k \in K : \E row \in rows : f[row] = k
  OBVIOUS
<1>2. f \in Surjection(rows, K)
  BY <1>1 DEF Surjection
<1>. QED
  BY <1>2, FS_Surjection

\* The groups of the keys in K have as many messages as the rows they are of.
LEMMA GroupsAddUp ==
  ASSUME NEW rows, GoodRows(rows), NEW key, NEW f, NEW K, IsFiniteSet(K),
         \A k \in K : f[k].total = Volume(Fibre(rows, key, k))
  PROVE  Totals(f, K) = Volume(KeyIn(rows, key, K))
<1>1. \A k \in K : TotalOf(f, K)[k] = Sum(CountOf(rows), Fibre(rows, key, k))
  <2>1. \A k \in K : Fibre(rows, key, k) \subseteq rows
    BY DEF Fibre
  <2>. QED
    BY <2>1, VolumeOfSome DEF TotalOf
<1>2. Sum(TotalOf(f, K), K) = Sum(CountOf(rows), KeyIn(rows, key, K))
  BY <1>1, SumFibres, WeightsOfRows DEF GoodRows
<1>3. KeyIn(rows, key, K) \subseteq rows
  BY DEF KeyIn
<1>. QED
  BY <1>2, <1>3, TotalsIs, VolumeOfSome

LEMMA PassesAddUp ==
  ASSUME NEW rows, GoodRows(rows), NEW key, NEW f, NEW K, IsFiniteSet(K),
         \A k \in K : f[k].pass = Volume({row \in Fibre(rows, key, k) : Aligned(row)})
  PROVE  Passes(f, K) = Volume({row \in KeyIn(rows, key, K) : Aligned(row)})
<1>. DEFINE good == {row \in rows : Aligned(row)}
<1>1. GoodRows(good)
  BY RowsWithin
<1>2. \A k \in K : {row \in Fibre(rows, key, k) : Aligned(row)} = Fibre(good, key, k)
  BY DEF Fibre
<1>3. {row \in KeyIn(rows, key, K) : Aligned(row)} = KeyIn(good, key, K)
  BY DEF KeyIn
<1>. HIDE DEF good
<1>4. \A k \in K : PassOf(f, K)[k] = Sum(CountOf(good), Fibre(good, key, k))
  <2>1. \A k \in K : Fibre(good, key, k) \subseteq good
    BY DEF Fibre
  <2>2. \A k \in K : f[k].pass = Volume(Fibre(good, key, k))
    BY <1>2
  <2>. QED
    BY <1>1, <2>1, <2>2, VolumeOfSome DEF PassOf
<1>5. Sum(PassOf(f, K), K) = Sum(CountOf(good), KeyIn(good, key, K))
  BY <1>1, <1>4, SumFibres, WeightsOfRows DEF GoodRows
<1>6. KeyIn(good, key, K) \subseteq good
  BY DEF KeyIn
<1>. QED
  BY <1>1, <1>3, <1>5, <1>6, PassesIs, VolumeOfSome

\* Groups that leave no row out, and may have empty ones, agree with the rows.
LEMMA GroupsAgree ==
  ASSUME NEW rows, GoodRows(rows), NEW key, NEW f, IsFiniteSet(DOMAIN f),
         \A row \in rows : key[row] \in DOMAIN f,
         \A k \in DOMAIN f : /\ f[k].total = Tally(Fibre(rows, key, k)).total
                             /\ f[k].pass = Tally(Fibre(rows, key, k)).pass
  PROVE  Agrees(f, Tally(rows))
<1>1. KeyIn(rows, key, DOMAIN f) = rows
  BY DEF KeyIn
<1>2. \A k \in DOMAIN f : GoodRows(Fibre(rows, key, k))
  <2>1. \A k \in DOMAIN f : Fibre(rows, key, k) \subseteq rows
    BY DEF Fibre
  <2>. QED
    BY <2>1, RowsWithin
<1>3. \A k \in DOMAIN f : f[k].total = Volume(Fibre(rows, key, k))
  BY <1>2, TallyIs
<1>4. \A k \in DOMAIN f : f[k].pass = Volume({row \in Fibre(rows, key, k) : Aligned(row)})
  BY <1>2, TallyIs
<1>5. Totals(f, DOMAIN f) = Volume(rows)
  BY <1>1, <1>3, GroupsAddUp
<1>6. Passes(f, DOMAIN f) = Volume({row \in KeyIn(rows, key, DOMAIN f) : Aligned(row)})
  BY <1>4, PassesAddUp
<1>7. Passes(f, DOMAIN f) = Volume({row \in rows : Aligned(row)})
  BY <1>1, <1>6
<1>. QED
  BY <1>5, <1>7, TallyIs DEF Agrees

LEMMA AllGroupsAgree ==
  ASSUME NEW rows, GoodRows(rows), NEW key
  PROVE  Agrees(Groups(rows, key), Tally(rows))
<1>. DEFINE f == Groups(rows, key)
            K == {key[row] : row \in rows}
<1>1. DOMAIN f = K /\ \A k \in K : f[k] = Tally(Fibre(rows, key, k))
  BY DEF Groups
<1>2. IsFiniteSet(K)
  BY KeysAreFinite DEF GoodRows
<1>3. \A row \in rows : key[row] \in K
  OBVIOUS
<1>. HIDE DEF f, K
<1>4. IsFiniteSet(DOMAIN f) /\ \A row \in rows : key[row] \in DOMAIN f
  BY <1>1, <1>2, <1>3
<1>5. \A k \in DOMAIN f : /\ f[k].total = Tally(Fibre(rows, key, k)).total
                          /\ f[k].pass = Tally(Fibre(rows, key, k)).pass
  BY <1>1
<1>6. Agrees(f, Tally(rows))
  BY <1>4, <1>5, GroupsAgree
<1>. QED
  BY <1>6 DEF f

\* The reports of a state, and the rows of some of them.
StatInv ==
  /\ reports \subseteq Candidates /\ IsFiniteSet(reports)
  /\ now \in Int /\ \A r \in reports : r.end <= now

LEMMA RowIs ==
  ASSUME NEW S, NEW row
  PROVE  row \in RowsOf(S) <=> \E r \in S : \E i \in DOMAIN r.records : row = <<r, i>>
BY DEF RowsOf

LEMMA RowsAreGood ==
  ASSUME NEW S, IsFiniteSet(S), S \subseteq Candidates
  PROVE  GoodRows(RowsOf(S))
<1>. DEFINE part == [r \in S |-> {r} \X DOMAIN r.records]
            parts == {part[r] : r \in S}
<1>1. RowsOf(S) = UNION parts
  BY DEF RowsOf
<1>2. IsFiniteSet(parts)
  <2>1. part \in [S -> parts] /\ \A p \in parts : \E r \in S : part[r] = p
    OBVIOUS
  <2>2. part \in Surjection(S, parts)
    BY <2>1 DEF Surjection
  <2>. QED
    BY <2>2, FS_Surjection
<1>3. ASSUME NEW r \in S PROVE IsFiniteSet(part[r])
  <2>1. r.records \in Seq(Range(r.records))
    BY ReportsAssumption
  <2>2. DOMAIN r.records = 1..Len(r.records) /\ Len(r.records) \in Nat
    BY <2>1
  <2>3. IsFiniteSet(DOMAIN r.records) /\ IsFiniteSet({r})
    <3>1. 1 \in Int /\ Len(r.records) \in Int
      BY <2>2
    <3>2. IsFiniteSet(1..Len(r.records))
      BY <3>1, FS_Interval
    <3>. QED
      BY <2>2, <3>2, FS_Singleton
  <2>4. IsFiniteSet({r} \X DOMAIN r.records)
    BY <2>3, FS_Product
  <2>. QED
    BY <2>4
<1>4. IsFiniteSet(UNION parts)
  <2>1. \A p \in parts : IsFiniteSet(p)
    BY <1>3
  <2>. HIDE DEF parts
  <2>. QED
    BY <1>2, <2>1, FS_UNION
<1>5. \A row \in RowsOf(S) : Rec(row).count \in Nat
  BY RowIs, ReportsAssumption DEF Rec
<1>. QED
  BY <1>1, <1>4, <1>5 DEF GoodRows

LEMMA RowsForAreGood ==
  ASSUME StatInv, NEW t, NEW D, NEW days
  PROVE  GoodRows(RowsFor(t, D, days))
<1>. DEFINE S == {r \in Selected(D, days) : TenantOf[r.domain] = t}
<1>1. IsFiniteSet(S) /\ S \subseteq Candidates
  BY FS_Subset DEF StatInv, Selected
<1>. HIDE DEF S
<1>2. GoodRows(RowsOf(S))
  BY <1>1, RowsAreGood
<1>. QED
  BY <1>2 DEF RowsFor, S
----------------------------------------------------------------------------
(***************************************************************************)
(* The charts agree.                                                       *)
(***************************************************************************)

LEMMA SeriesAgrees ==
  ASSUME StatInv, NEW t, NEW D, NEW days
  PROVE  Agrees(DailySeries(t, D, days), DomainTotals(t, D, days))
<1>. DEFINE rows == RowsFor(t, D, days)
            key == [row \in rows |-> BeginDay(row)]
<1>1. DailySeries(t, D, days) = Groups(rows, key)
  BY DEF DailySeries, Grouped, Groups, Fibre
<1>2. GoodRows(rows)
  BY RowsForAreGood
<1>. HIDE DEF rows, key
<1>3. Agrees(Groups(rows, key), Tally(rows))
  BY <1>2, AllGroupsAgree
<1>. QED
  BY <1>1, <1>3 DEF DomainTotals, rows

LEMMA BreakdownAgrees ==
  ASSUME StatInv, NEW t, NEW D, NEW days
  PROVE  Agrees(SenderBreakdown(t, D, days), DomainTotals(t, D, days))
<1>. DEFINE rows == RowsFor(t, D, days)
            top == Largest(Grouped(rows, LabelOfRow), TopSenders)
            key == [row \in rows |-> IF LabelOfRow(row) \in top THEN LabelOfRow(row) ELSE Other]
<1>1. SenderBreakdown(t, D, days) = Groups(rows, key)
  BY DEF SenderBreakdown, Grouped, Groups, Fibre
<1>2. GoodRows(rows)
  BY RowsForAreGood
<1>. HIDE DEF rows, key
<1>3. Agrees(Groups(rows, key), Tally(rows))
  BY <1>2, AllGroupsAgree
<1>. QED
  BY <1>1, <1>3 DEF DomainTotals, rows

LEMMA StackAgrees ==
  ASSUME StatInv, NEW t, NEW D, NEW days
  PROVE  Agrees(DailyStack(t, D, days), DomainTotals(t, D, days))
<1>. DEFINE rows == RowsFor(t, D, days)
            top == Largest(Grouped(rows, LabelOfRow), TopSenders)
            key == [row \in rows |->
                      <<BeginDay(row), IF LabelOfRow(row) \in top THEN LabelOfRow(row) ELSE Other>>]
<1>1. DailyStack(t, D, days) = Groups(rows, key)
  BY DEF DailyStack, Grouped, Groups, Fibre
<1>2. GoodRows(rows)
  BY RowsForAreGood
<1>. HIDE DEF rows, key
<1>3. Agrees(Groups(rows, key), Tally(rows))
  BY <1>2, AllGroupsAgree
<1>. QED
  BY <1>1, <1>3 DEF DomainTotals, rows

LEMMA LeastOfTwo ==
  ASSUME NEW m \in Nat, NEW n \in Nat
  PROVE  Min({m, n}) = IF m <= n THEN m ELSE n
<1>1. Min({m, n}) \in {m, n} /\ \A y \in {m, n} : Min({m, n}) <= y
  <2>1. \E x \in {m, n} : \A y \in {m, n} : x <= y
    OBVIOUS
  <2>. QED
    BY <2>1 DEF Min
<1>. QED
  BY <1>1

\* A table with room for all groups shows all of them.
LEMMA AllAreLargest ==
  ASSUME NEW f, NEW n \in Nat, IsFiniteSet(DOMAIN f), Cardinality(DOMAIN f) <= n
  PROVE  Largest(f, n) = DOMAIN f
<1>. DEFINE larger(k) == {j \in DOMAIN f : f[j].total > f[k].total}
            Top(S) == /\ Cardinality(S) = Min({n, Cardinality(DOMAIN f)})
                      /\ \A k \in S : larger(k) \subseteq S
<1>1. Cardinality(DOMAIN f) \in Nat
  BY FS_CardinalityType
<1>2. Min({n, Cardinality(DOMAIN f)}) = Cardinality(DOMAIN f)
  BY <1>1, LeastOfTwo
<1>3. Top(DOMAIN f)
  BY <1>2
<1>4. Largest(f, n) = CHOOSE S \in SUBSET DOMAIN f : Top(S)
  BY DEF Largest
<1>5. Largest(f, n) \in SUBSET DOMAIN f /\ Top(Largest(f, n))
  <2>1. \E S \in SUBSET DOMAIN f : Top(S)
    BY <1>3
  <2>. HIDE DEF Top
  <2>. QED
    BY <1>4, <2>1
<1>6. Cardinality(Largest(f, n)) = Cardinality(DOMAIN f)
  BY <1>2, <1>5
<1>. QED
  BY <1>5, <1>6, FS_Subset

LEMMA SourcesAgree ==
  ASSUME StatInv, NEW t, NEW D, NEW days,
         Cardinality({IpOf(row) : row \in RowsFor(t, D, days)}) <= 10
  PROVE  Agrees(TopSources(t, D, days, 10), DomainTotals(t, D, days))
<1>. DEFINE rows == RowsFor(t, D, days)
            key == [row \in rows |-> IpOf(row)]
            f == Grouped(rows, IpOf)
<1>1. f = Groups(rows, key)
  BY DEF Grouped, Groups, Fibre
<1>2. GoodRows(rows)
  BY RowsForAreGood
<1>3. DOMAIN f = {IpOf(row) : row \in rows} /\ {key[row] : row \in rows} = {IpOf(row) : row \in rows}
  BY DEF Grouped
<1>4. IsFiniteSet(DOMAIN f)
  <2>1. IsFiniteSet(rows)
    BY <1>2 DEF GoodRows
  <2>. HIDE DEF rows, key, f
  <2>2. IsFiniteSet({key[row] : row \in rows})
    BY <2>1, KeysAreFinite
  <2>. QED
    BY <1>3, <2>2
<1>5. Largest(f, 10) = DOMAIN f
  <2>1. Cardinality(DOMAIN f) <= 10
    BY <1>3
  <2>. HIDE DEF f
  <2>. QED
    BY <1>4, <2>1, AllAreLargest
<1>6. TopSources(t, D, days, 10) = [k \in DOMAIN f |-> f[k]]
  BY <1>5 DEF TopSources, Restrict
<1>7. f = [k \in DOMAIN f |-> f[k]]
  BY DEF Grouped
<1>. HIDE DEF rows, key
<1>8. Agrees(Groups(rows, key), Tally(rows))
  BY <1>2, AllGroupsAgree
<1>9. Agrees(TopSources(t, D, days, 10), Tally(rows))
  BY <1>1, <1>6, <1>7, <1>8
<1>. QED
  BY <1>9 DEF DomainTotals, rows

LEMMA EmptyTally == Tally({}) = [total |-> 0, pass |-> 0, fail |-> 0]
<1>1. IsFiniteSet({}) /\ {row \in {} : Aligned(row)} = {} /\ {row \in {} : ~Aligned(row)} = {}
  BY FS_EmptySet
<1>2. Volume({}) = 0
  BY <1>1, VolumeIs, SumEmpty
<1>. QED
  BY <1>1, <1>2 DEF Tally

\* The grid of the heatmap has a cell for every report it is about.
LEMMA HeatmapAgrees ==
  ASSUME StatInv, NEW t, NEW D, NEW days \in Nat
  PROVE  Agrees(Heatmap(t, D, days), DomainTotals(t, D, days))
<1>. DEFINE rows == RowsFor(t, D, days)
            key == [row \in rows |-> BeginDay(row)]
            groups == Grouped(rows, BeginDay)
            today == now \div Day
            f == Heatmap(t, D, days)
<1>1. GoodRows(rows)
  BY RowsForAreGood
<1>2. /\ DOMAIN groups = {BeginDay(row) : row \in rows}
      /\ \A k \in DOMAIN groups : groups[k] = Tally(Fibre(rows, key, k))
  BY DEF Grouped, Fibre
<1>3. now \in Int /\ today \in Int
  BY DEF StatInv, Day
<1>4. DOMAIN f = today - days .. today /\ IsFiniteSet(DOMAIN f)
  <2>1. DOMAIN f = today - days .. today
    BY DEF Heatmap
  <2>2. today - days \in Int
    BY <1>3
  <2>. QED
    BY <1>3, <2>1, <2>2, FS_Interval
<1>5. ASSUME NEW row \in rows PROVE key[row] \in DOMAIN f
  <2>1. PICK r \in reports : row[1] = r /\ (days = Always \/ r.begin >= From(days))
    BY RowIs DEF RowsFor, Selected
  <2>2. r.begin \in Int /\ r.begin <= now /\ r.begin >= now - days * 4
    <3>1. r.begin \in Int /\ r.end \in Int /\ r.begin <= r.end /\ r.end <= now
      BY <2>1, ReportsAssumption DEF StatInv
    <3>. QED
      BY <1>3, <2>1, <3>1 DEF From, Always, Day
  <2>3. BeginDay(row) = r.begin \div 4 /\ today = now \div 4
    BY <2>1 DEF BeginDay, Day
  <2>4. \A m, n \in Int : m <= n /\ m >= n - days * 4 => m \div 4 \in (n \div 4) - days .. n \div 4
    OBVIOUS
  <2>. QED
    BY <1>3, <1>4, <2>2, <2>3, <2>4
<1>6. ASSUME NEW k \in DOMAIN f
      PROVE  /\ f[k].total = Tally(Fibre(rows, key, k)).total
             /\ f[k].pass = Tally(Fibre(rows, key, k)).pass
  <2>1. CASE k \in DOMAIN groups
    <3>1. f[k].total = groups[k].total /\ f[k].pass = groups[k].pass
      <4>. HIDE DEF groups
      <4>. QED
        BY <1>4, <2>1 DEF Heatmap, groups
    <3>. QED
      BY <1>2, <2>1, <3>1
  <2>2. CASE k \notin DOMAIN groups
    <3>1. f[k].total = 0 /\ f[k].pass = 0
      BY <1>4, <2>2 DEF Heatmap
    <3>2. Fibre(rows, key, k) = {}
      BY <1>2, <2>2 DEF Fibre
    <3>. QED
      BY <3>1, <3>2, EmptyTally
  <2>. QED
    BY <2>1, <2>2
<1>. HIDE DEF rows, key, f, groups
<1>7. Agrees(f, Tally(rows))
  BY <1>1, <1>4, <1>5, <1>6, GroupsAgree
<1>. QED
  BY <1>7 DEF DomainTotals, rows, f

\* Groups whose keys name a thing of the row at some place.
LEMMA ReachIs ==
  ASSUME NEW rows, GoodRows(rows), NEW key, NEW place, NEW thing, NEW a,
         \A row \in rows : key[row][place] = thing[row]
  PROVE  Reach(Groups(rows, key), place, a) = Volume({row \in rows : thing[row] = a})
<1>. DEFINE f == Groups(rows, key)
            K == {k \in DOMAIN f : k[place] = a}
<1>1. DOMAIN f = {key[row] : row \in rows} /\ \A k \in DOMAIN f : f[k] = Tally(Fibre(rows, key, k))
  BY DEF Groups
<1>. HIDE DEF f
<1>2. IsFiniteSet(DOMAIN f) /\ IsFiniteSet(K)
  <2>1. IsFiniteSet(DOMAIN f)
    BY <1>1, KeysAreFinite DEF GoodRows
  <2>. QED
    BY <2>1, FS_Subset
<1>3. \A k \in K : f[k].total = Volume(Fibre(rows, key, k))
  <2>1. \A k \in K : GoodRows(Fibre(rows, key, k))
    <3>1. \A k \in K : Fibre(rows, key, k) \subseteq rows
      BY DEF Fibre
    <3>. QED
      BY <3>1, RowsWithin
  <2>. QED
    BY <1>1, <2>1, TallyIs
<1>4. KeyIn(rows, key, K) = {row \in rows : thing[row] = a}
  BY <1>1 DEF KeyIn
<1>. HIDE DEF K
<1>5. Totals(f, K) = Volume(KeyIn(rows, key, K))
  BY <1>2, <1>3, GroupsAddUp
<1>. QED
  BY <1>4, <1>5 DEF f, K, Reach

\* Rows about no message change no volume.
LEMMA EmptyRowsCountNothing ==
  ASSUME NEW rows, GoodRows(rows), NEW some, some \subseteq rows,
         \A row \in rows \ some : Rec(row).count = 0
  PROVE  Volume(some) = Volume(rows)
<1>. DEFINE w == CountOf(rows)
<1>1. /\ IsFiniteSet(some) /\ IsFiniteSet(rows \ some)
      /\ Weights(w, some) /\ Weights(w, rows \ some)
  BY FS_Subset, WeightsOfRows DEF GoodRows, Weights
<1>2. Sum(w, some \cup (rows \ some)) = Sum(w, some) + Sum(w, rows \ some)
  BY <1>1, SumSplit
<1>3. some \cup (rows \ some) = rows
  OBVIOUS
<1>4. Sum(w, rows) = Sum(w, some) + Sum(w, rows \ some)
  BY <1>2, <1>3, Zenon
<1>5. Sum(w, rows \ some) = 0
  <2>1. \A row \in rows \ some : w[row] = 0
    BY DEF CountOf
  <2>. QED
    BY <1>1, <2>1, SumZero
<1>6. Volume(rows) = Sum(w, rows) /\ Volume(some) = Sum(w, some) /\ Volume(some) \in Nat
  BY VolumeOfSome
<1>. QED
  BY <1>4, <1>5, <1>6

LEMMA FlowsAgree ==
  ASSUME StatInv, NEW t, NEW D, NEW days
  PROVE  LET flows == Sankey(t, D, days)
         IN /\ Reach(flows.first, 2, "Aligned") = DomainTotals(t, D, days).pass
            /\ \A a \in Alignments : Reach(flows.first, 2, a) = Reach(flows.second, 1, a)
<1>. DEFINE all == RowsFor(t, D, days)
            rows == {row \in all : Rec(row).count > 0}
            top == Largest(Grouped(rows, LabelOfRow), TopSenders)
            node(row) == IF LabelOfRow(row) \in top THEN LabelOfRow(row) ELSE Other
            first == [row \in rows |-> <<node(row), AlignmentOf(row)>>]
            second == [row \in rows |-> <<AlignmentOf(row), DispositionOf(row)>>]
            thing == [row \in rows |-> AlignmentOf(row)]
            flows == Sankey(t, D, days)
<1>1. flows.first = Groups(rows, first) /\ flows.second = Groups(rows, second)
  BY DEF Sankey, Grouped, Groups, Fibre
<1>2. GoodRows(all)
  BY RowsForAreGood
<1>3. rows \subseteq all /\ \A row \in all \ rows : ~(Rec(row).count > 0)
  OBVIOUS
<1>4. \A row \in rows : first[row][2] = thing[row] /\ second[row][1] = thing[row]
  OBVIOUS
<1>5. {row \in rows : thing[row] = "Aligned"} = {row \in rows : Aligned(row)}
  BY DEF AlignmentOf
<1>. HIDE DEF all, first, second, thing, flows
<1>6. ASSUME NEW a
      PROVE  /\ Reach(flows.first, 2, a) = Volume({row \in rows : thing[row] = a})
             /\ Reach(flows.second, 1, a) = Volume({row \in rows : thing[row] = a})
  <2>1. GoodRows(rows)
    BY <1>2, <1>3, RowsWithin
  <2>. HIDE DEF rows
  <2>2. Reach(Groups(rows, first), 2, a) = Volume({row \in rows : thing[row] = a})
    BY <1>4, <2>1, ReachIs
  <2>3. Reach(Groups(rows, second), 1, a) = Volume({row \in rows : thing[row] = a})
    BY <1>4, <2>1, ReachIs
  <2>. QED
    BY <1>1, <2>2, <2>3
<1>7. Volume({row \in rows : Aligned(row)}) = Volume({row \in all : Aligned(row)})
  <2>. DEFINE good == {row \in all : Aligned(row)}
              some == {row \in rows : Aligned(row)}
  <2>1. GoodRows(good) /\ some \subseteq good
    BY <1>2, RowsWithin
  <2>2. \A row \in good \ some : Rec(row).count = 0
    BY <1>2 DEF GoodRows
  <2>. HIDE DEF good, some
  <2>3. Volume(some) = Volume(good)
    BY <2>1, <2>2, EmptyRowsCountNothing
  <2>. QED
    BY <2>3 DEF good, some
<1>8. DomainTotals(t, D, days).pass = Volume({row \in all : Aligned(row)})
  BY <1>2, TallyIs DEF DomainTotals, all
<1>. HIDE DEF rows
<1>9. Reach(flows.first, 2, "Aligned") = DomainTotals(t, D, days).pass
  BY <1>5, <1>6, <1>7, <1>8
<1>. QED
  BY <1>6, <1>9 DEF flows

\* All charts of a dashboard.
LEMMA ChartsKept ==
  ASSUME StatInv
  PROVE  ChartsAgree
<1>. SUFFICES ASSUME NEW t \in Tenants, NEW days \in {7, 30}, NEW D \in Scopes(t)
              PROVE  DashboardAgrees(t, D, days)
  BY Zenon DEF ChartsAgree
<1>1. DomainTotals(t, D, days).total = DomainTotals(t, D, days).pass + DomainTotals(t, D, days).fail
  BY RowsForAreGood, TallyIs DEF DomainTotals
<1>2. days \in Nat
  OBVIOUS
<1>3. Agrees(DailySeries(t, D, days), DomainTotals(t, D, days))
  BY SeriesAgrees
<1>4. Agrees(Heatmap(t, D, days), DomainTotals(t, D, days))
  BY <1>2, HeatmapAgrees
<1>5. Agrees(SenderBreakdown(t, D, days), DomainTotals(t, D, days))
  BY BreakdownAgrees
<1>6. Agrees(DailyStack(t, D, days), DomainTotals(t, D, days))
  BY StackAgrees
<1>7. Cardinality({IpOf(row) : row \in RowsFor(t, D, days)}) <= 10
        => Agrees(TopSources(t, D, days, 10), DomainTotals(t, D, days))
  BY SourcesAgree
<1>. QED
  BY <1>1, <1>3, <1>4, <1>5, <1>6, <1>7, FlowsAgree DEF DashboardAgrees

----------------------------------------------------------------------------
(***************************************************************************)
(* The console of a reseller adds up.                                      *)
(***************************************************************************)

\* Groups by a key that all rows have among K add up to the whole.
LEMMA PartsAddUp ==
  ASSUME NEW rows, GoodRows(rows), NEW key, NEW K, IsFiniteSet(K), \A row \in rows : key[row] \in K,
         NEW f, DOMAIN f = K, \A k \in K : f[k] = Tally(Fibre(rows, key, k))
  PROVE  Tally(rows).total = Totals(f, DOMAIN f)
<1>1. Agrees(f, Tally(rows))
  <2>1. IsFiniteSet(DOMAIN f) /\ \A row \in rows : key[row] \in DOMAIN f
    OBVIOUS
  <2>2. \A k \in DOMAIN f : /\ f[k].total = Tally(Fibre(rows, key, k)).total
                            /\ f[k].pass = Tally(Fibre(rows, key, k)).pass
    OBVIOUS
  <2>. QED
    BY <2>1, <2>2, GroupsAgree
<1>. QED
  BY <1>1 DEF Agrees

LEMMA RollupsKept ==
  ASSUME StatInv
  PROVE  RollupsAgree
<1>. DEFINE mine == CustomerReports(30)
            rows == RowsOf(mine)
            overview == ResellerOverview(30)
            tenants == overview.tenants
            domains == overview.domains
            tenant == [row \in rows |-> TenantOf[row[1].domain]]
            domain == [row \in rows |-> row[1].domain]
            theirs == {d \in Domains : TenantOf[d] \in ResellerTenants}
<1>1. \A r \in mine : r \in reports /\ r.domain \in Domains /\ TenantOf[r.domain] \in ResellerTenants
  BY DEF CustomerReports, Selected
<1>2. mine = {r \in reports : /\ r.domain \in Domains /\ r.begin >= From(30)
                              /\ TenantOf[r.domain] \in ResellerTenants}
  BY DEF CustomerReports, Selected, Always
<1>3. GoodRows(rows)
  <2>1. IsFiniteSet(mine) /\ mine \subseteq Candidates
    BY <1>1, FS_Subset DEF StatInv
  <2>. HIDE DEF mine
  <2>. QED
    BY <2>1, RowsAreGood
<1>4. \A row \in rows : row[1] \in mine
  BY RowIs
<1>5. overview.whole = Tally(rows)
  BY DEF ResellerOverview
<1>6. DOMAIN tenants = ResellerTenants /\ \A k \in ResellerTenants : tenants[k] = Tally(Fibre(rows, tenant, k))
  <2>1. DOMAIN tenants = ResellerTenants
    BY DEF ResellerOverview
  <2>2. ASSUME NEW k \in ResellerTenants, k \in {tenant[row] : row \in rows}
        PROVE  tenants[k] = Tally(Fibre(rows, tenant, k))
    <3>. HIDE DEF mine
    <3>. QED
      BY <2>2 DEF ResellerOverview, Grouped, Fibre, mine
  <2>3. ASSUME NEW k \in ResellerTenants, k \notin {tenant[row] : row \in rows}
        PROVE  tenants[k] = Tally({}) /\ Fibre(rows, tenant, k) = {}
    <3>. HIDE DEF mine
    <3>. QED
      BY <2>3 DEF ResellerOverview, Grouped, Fibre, mine
  <2>. QED
    BY <2>1, <2>2, <2>3
<1>7. DOMAIN domains = theirs /\ \A k \in theirs : domains[k] = Tally(Fibre(rows, domain, k))
  <2>1. DOMAIN domains = theirs
    BY DEF ResellerOverview
  <2>2. ASSUME NEW k \in theirs, k \in {domain[row] : row \in rows}
        PROVE  domains[k] = Tally(Fibre(rows, domain, k))
    <3>. HIDE DEF mine
    <3>. QED
      BY <2>2 DEF ResellerOverview, Grouped, Fibre, mine
  <2>3. ASSUME NEW k \in theirs, k \notin {domain[row] : row \in rows}
        PROVE  domains[k] = Tally({}) /\ Fibre(rows, domain, k) = {}
    <3>. HIDE DEF mine
    <3>. QED
      BY <2>3 DEF ResellerOverview, Grouped, Fibre, mine
  <2>. QED
    BY <2>1, <2>2, <2>3
<1>8. IsFiniteSet(ResellerTenants) /\ IsFiniteSet(theirs)
  BY ReportsAssumption, FS_Subset
<1>9. \A row \in rows : tenant[row] \in ResellerTenants /\ domain[row] \in theirs
  BY <1>1, <1>4
<1>10. ASSUME NEW t \in ResellerTenants PROVE tenants[t] = DomainTotals(t, Domains, 30)
  <2>1. Fibre(rows, tenant, t) = RowsFor(t, Domains, 30)
    <3>1. RowsFor(t, Domains, 30) = RowsOf({r \in mine : TenantOf[r.domain] = t})
      <4>1. {r \in Selected(Domains, 30) : TenantOf[r.domain] = t} = {r \in mine : TenantOf[r.domain] = t}
        BY DEF CustomerReports
      <4>. QED
        BY <4>1 DEF RowsFor
    <3>. HIDE DEF mine
    <3>2. \A row : row \in Fibre(rows, tenant, t) <=> row \in rows /\ TenantOf[row[1].domain] = t
      BY DEF Fibre
    <3>3. \A row : row \in RowsOf({r \in mine : TenantOf[r.domain] = t})
                     <=> row \in rows /\ TenantOf[row[1].domain] = t
      BY RowIs
    <3>. QED
      BY <3>1, <3>2, <3>3
  <2>. QED
    BY <1>6, <2>1 DEF DomainTotals
<1>11. ASSUME NEW t \in ResellerTenants, NEW d \in DOMAIN DomainSummaries(t, 30)
       PROVE  domains[d] = DomainSummaries(t, 30)[d].tally
  <2>1. d \in Domains /\ TenantOf[d] = t /\ DomainSummaries(t, 30)[d].tally = DomainTotals(t, {d}, 30)
    BY DEF DomainSummaries
  <2>2. Fibre(rows, domain, d) = RowsFor(t, {d}, 30)
    <3>1. RowsFor(t, {d}, 30) = RowsOf({r \in mine : r.domain = d})
      <4>1. {r \in Selected({d}, 30) : TenantOf[r.domain] = t} = {r \in mine : r.domain = d}
        BY <2>1 DEF CustomerReports, Selected
      <4>. QED
        BY <4>1 DEF RowsFor
    <3>. HIDE DEF mine
    <3>2. \A row : row \in Fibre(rows, domain, d) <=> row \in rows /\ row[1].domain = d
      BY DEF Fibre
    <3>3. \A row : row \in RowsOf({r \in mine : r.domain = d}) <=> row \in rows /\ row[1].domain = d
      BY RowIs
    <3>. QED
      BY <3>1, <3>2, <3>3
  <2>. QED
    BY <1>7, <2>1, <2>2 DEF DomainTotals
<1>. HIDE DEF rows, tenant, domain, theirs, overview
<1>12. Tally(rows).total = Totals(tenants, DOMAIN tenants)
  <2>. HIDE DEF tenants
  <2>. QED
    BY <1>3, <1>6, <1>8, <1>9, PartsAddUp
<1>13. Tally(rows).total = Totals(domains, DOMAIN domains)
  <2>. HIDE DEF domains
  <2>. QED
    BY <1>3, <1>7, <1>8, <1>9, PartsAddUp
<1>. QED
  BY <1>5, <1>10, <1>11, <1>12, <1>13 DEF RollupsAgree, overview

----------------------------------------------------------------------------
(***************************************************************************)
(* The list of reports agrees with the pages behind it.                    *)
(***************************************************************************)

\* Of finitely many things with a weight one is the heaviest.
LEMMA Heaviest ==
  ASSUME NEW S, IsFiniteSet(S), S # {}, NEW w, \A x \in S : w[x] \in Int
  PROVE  \E m \in S : \A x \in S : w[x] <= w[m]
<1>. DEFINE Bad == {s \in SUBSET S : s # {} /\ ~\E m \in s : \A x \in s : w[x] <= w[m]}
<1>1. SUFFICES ASSUME ~\E m \in S : \A x \in S : w[x] <= w[m] PROVE FALSE
  OBVIOUS
<1>2. PICK s \in Bad : \A t \in SUBSET s : t # s => t \notin Bad
  <2>1. Bad \subseteq SUBSET S /\ Bad # {}
    BY <1>1
  <2>. HIDE DEF Bad
  <2>. QED
    BY <2>1, SmallestSet
<1>3. s \in SUBSET S /\ s # {} /\ ~\E m \in s : \A x \in s : w[x] <= w[m]
  OBVIOUS
<1>4. \A t \in SUBSET s : t # s /\ t # {} => \E m \in t : \A x \in t : w[x] <= w[m]
  BY <1>2, <1>3
<1>. HIDE DEF Bad
<1>5. PICK y \in s : TRUE
  BY <1>3
<1>6. CASE s \ {y} = {}
  <2>1. \A x \in s : x = y
    BY <1>6
  <2>2. w[y] \in Int
    BY <1>3
  <2>. QED
    BY <1>3, <2>1, <2>2
<1>7. CASE s \ {y} # {}
  <2>1. PICK m \in s \ {y} : \A x \in s \ {y} : w[x] <= w[m]
    <3>1. PICK t : t = s \ {y}
      OBVIOUS
    <3>2. t \in SUBSET s /\ t # s /\ t # {}
      BY <1>5, <1>7, <3>1
    <3>3. \E m \in t : \A x \in t : w[x] <= w[m]
      BY <1>4, <3>2
    <3>. QED
      BY <3>1, <3>3
  <2>2. \A x \in s : w[x] \in Int
    BY <1>3
  <2>3. CASE w[y] <= w[m]
    BY <1>3, <2>1, <2>3
  <2>4. CASE ~(w[y] <= w[m])
    <3>1. \A x \in s : w[x] <= w[y]
      BY <2>1, <2>2, <2>4
    <3>. QED
      BY <1>3, <3>1
  <2>. QED
    BY <2>3, <2>4
<1>. QED
  BY <1>6, <1>7

LEMMA Lightest ==
  ASSUME NEW S, IsFiniteSet(S), S # {}, NEW w, \A x \in S : w[x] \in Int
  PROVE  \E m \in S : \A x \in S : w[m] <= w[x]
<1>. DEFINE v == [x \in S |-> -w[x]]
<1>1. \A x \in S : v[x] = -w[x] /\ v[x] \in Int
  OBVIOUS
<1>. HIDE DEF v
<1>2. PICK m \in S : \A x \in S : v[x] <= v[m]
  BY <1>1, Heaviest
<1>3. \A x \in S : w[m] <= w[x]
  BY <1>1, <1>2
<1>. QED
  BY <1>3

\* The largest groups, as Largest asks for them.
Larger(f, k) == {j \in DOMAIN f : f[j].total > f[k].total}
Top(f, n, S) ==
  /\ Cardinality(S) = Min({n, Cardinality(DOMAIN f)})
  /\ \A k \in S : Larger(f, k) \subseteq S

\* There are n largest groups: of the sets that hold n groups or more, and
\* with each group all larger ones, a smallest one has no more than n.
LEMMA LargestIs ==
  ASSUME NEW f, NEW n \in Nat, IsFiniteSet(DOMAIN f), \A k \in DOMAIN f : f[k].total \in Nat
  PROVE  Largest(f, n) \in SUBSET DOMAIN f /\ Top(f, n, Largest(f, n))
<1>. DEFINE D == DOMAIN f
            size == Min({n, Cardinality(D)})
            Closed == {S \in SUBSET D : Cardinality(S) >= size /\ \A k \in S : Larger(f, k) \subseteq S}
<1>1. size \in Nat /\ size <= Cardinality(D) /\ Cardinality(D) \in Nat
  BY FS_CardinalityType, LeastOfTwo
<1>2. PICK S \in Closed : \A t \in SUBSET S : t # S => t \notin Closed
  <2>1. D \in Closed
    BY <1>1 DEF Larger
  <2>2. Closed \subseteq SUBSET D /\ Closed # {}
    BY <2>1
  <2>. HIDE DEF D, Closed
  <2>. QED
    BY <2>2, SmallestSet DEF D
<1>3. S \in SUBSET D /\ Cardinality(S) >= size /\ \A k \in S : Larger(f, k) \subseteq S
  BY <1>2
<1>4. IsFiniteSet(S) /\ Cardinality(S) \in Nat
  BY <1>3, FS_Subset, FS_CardinalityType
<1>5. Cardinality(S) = size
  <2>. SUFFICES ASSUME Cardinality(S) # size PROVE FALSE
    OBVIOUS
  <2>. HIDE DEF size
  <2>1. Cardinality(S) >= size + 1 /\ S # {}
    BY <1>1, <1>3, <1>4, FS_EmptySet
  <2>. DEFINE w == [k \in S |-> f[k].total]
  <2>2. \A k \in S : w[k] = f[k].total /\ w[k] \in Int
    BY <1>3
  <2>. HIDE DEF w
  <2>3. PICK m \in S : \A k \in S : w[m] <= w[k]
    BY <1>4, <2>1, <2>2, Lightest
  <2>4. Cardinality(S \ {m}) = Cardinality(S) - 1
    BY <1>4, FS_RemoveElement
  <2>5. \A k \in S \ {m} : Larger(f, k) \subseteq S \ {m}
    BY <1>3, <2>2, <2>3 DEF Larger
  <2>6. Cardinality(S \ {m}) >= size
    BY <1>1, <1>4, <2>1, <2>4
  <2>7. S \ {m} \in Closed
    BY <1>3, <2>5, <2>6
  <2>. QED
    BY <1>2, <2>7
<1>6. Top(f, n, S)
  BY <1>3, <1>5 DEF Top
<1>7. Largest(f, n) = CHOOSE T \in SUBSET DOMAIN f : Top(f, n, T)
  BY DEF Largest, Top, Larger
<1>. QED
  BY <1>3, <1>6, <1>7

\* A report with a failed row about a message has failed messages.
LEMMA FailedRowShows ==
  ASSUME StatInv, NEW r \in reports, NEW i \in DOMAIN r.records, ~Aligned(<<r, i>>),
         r.records[i].count # 0
  PROVE  ReportDetail(r).fail > 0
<1>. DEFINE rows == RowsOf({r})
            bad == {row \in rows : ~Aligned(row)}
<1>1. GoodRows(rows)
  <2>1. IsFiniteSet({r}) /\ {r} \subseteq Candidates
    BY FS_Singleton DEF StatInv
  <2>. QED
    BY <2>1, RowsAreGood
<1>2. <<r, i>> \in bad
  BY RowIs
<1>3. Rec(<<r, i>>).count \in Nat /\ Rec(<<r, i>>).count # 0
  BY <1>1, <1>2 DEF GoodRows, Rec
<1>4. ReportDetail(r).fail = Volume(bad)
  BY <1>1, TallyIs DEF ReportDetail
<1>5. GoodRows(bad)
  BY <1>1, RowsWithin
<1>. HIDE DEF bad
<1>6. Volume(bad) = Sum(CountOf(bad), bad) /\ Volume(bad) \in Nat
  BY <1>5, VolumeOfSome
<1>7. CountOf(bad)[<<r, i>>] <= Sum(CountOf(bad), bad)
  BY <1>2, <1>5, SumHolds, WeightsOfRows DEF GoodRows
<1>8. CountOf(bad)[<<r, i>>] = Rec(<<r, i>>).count
  BY <1>2 DEF CountOf
<1>. QED
  BY <1>3, <1>4, <1>6, <1>7, <1>8

LEMMA NothingFailedShows ==
  ASSUME StatInv, NEW r \in reports, \A i \in DOMAIN r.records : Aligned(<<r, i>>)
  PROVE  ReportDetail(r).fail = 0
<1>. DEFINE rows == RowsOf({r})
<1>1. GoodRows(rows)
  <2>1. IsFiniteSet({r}) /\ {r} \subseteq Candidates
    BY FS_Singleton DEF StatInv
  <2>. QED
    BY <2>1, RowsAreGood
<1>2. {row \in rows : ~Aligned(row)} = {}
  BY RowIs
<1>3. Volume({}) = 0
  BY EmptyTally DEF Tally
<1>. QED
  BY <1>1, <1>2, <1>3, TallyIs DEF ReportDetail

\* A source that is listed has the messages that its own page shows.
LEMMA SourcePageAgrees ==
  ASSUME StatInv, NEW t, NEW ip \in DOMAIN TopSources(t, Domains, Always, 10)
  PROVE  IpDetail(t, ip).whole = TopSources(t, Domains, Always, 10)[ip]
<1>. DEFINE rows == RowsFor(t, Domains, Always)
            key == [row \in rows |-> IpOf(row)]
            f == Grouped(rows, IpOf)
            top == Largest(f, 10)
<1>1. GoodRows(rows)
  BY RowsForAreGood
<1>2. /\ DOMAIN f = {key[row] : row \in rows}
      /\ \A k \in DOMAIN f : f[k] = Tally({row \in rows : IpOf(row) = k})
  BY DEF Grouped
<1>3. \A k \in DOMAIN f : f[k].total \in Nat
  <2>1. \A k \in DOMAIN f : GoodRows({row \in rows : IpOf(row) = k})
    BY <1>1, RowsWithin
  <2>. QED
    BY <1>2, <2>1, TallyIs
<1>4. TopSources(t, Domains, Always, 10) = [k \in top |-> f[k]]
  BY DEF TopSources, Restrict
<1>. HIDE DEF rows, key, f
<1>5. IsFiniteSet(DOMAIN f)
  BY <1>1, <1>2, KeysAreFinite DEF GoodRows
<1>6. top \subseteq DOMAIN f
  BY <1>3, <1>5, LargestIs
<1>7. ip \in top /\ TopSources(t, Domains, Always, 10)[ip] = f[ip]
  BY <1>4
<1>. QED
  BY <1>2, <1>6, <1>7 DEF IpDetail, rows

LEMMA ListKept ==
  ASSUME StatInv
  PROVE  ListAgrees
<1>1. ASSUME NEW t \in Tenants, NEW r \in Listed(t, "fail", 30)
      PROVE  ReportDetail(r).fail > 0 \/ \E i \in DOMAIN r.records : r.records[i].count = 0
  <2>1. r \in reports /\ HasFailure(r)
    BY DEF Listed, Selected
  <2>2. PICK i \in DOMAIN r.records : ~Aligned(<<r, i>>)
    BY <2>1 DEF HasFailure, DiffersFromPass, Aligned, Rec
  <2>. QED
    BY <2>1, <2>2, FailedRowShows
<1>2. ASSUME NEW t \in Tenants, NEW r \in Listed(t, "pass", 30)
      PROVE  ReportDetail(r).fail = 0 \/ \E i \in DOMAIN r.records :
                                            None \in {r.records[i].dkim, r.records[i].spf}
  <2>1. r \in reports /\ ~HasFailure(r)
    BY DEF Listed, Selected
  <2>2. SUFFICES ASSUME ~\E i \in DOMAIN r.records : None \in {r.records[i].dkim, r.records[i].spf}
                 PROVE  ReportDetail(r).fail = 0
    OBVIOUS
  <2>3. \A i \in DOMAIN r.records : Aligned(<<r, i>>)
    BY <2>1, <2>2 DEF HasFailure, DiffersFromPass, Aligned, Rec
  <2>. QED
    BY <2>1, <2>3, NothingFailedShows
<1>. QED
  BY <1>1, <1>2, SourcePageAgrees DEF ListAgrees

----------------------------------------------------------------------------
LEMMA StatStart == StatInit => StatInv
BY FS_EmptySet DEF StatInit, StatInv

LEMMA StatStep == StatInv /\ [ReportNext \/ SourceNext]_<<statVars, insightVars>> => StatInv'
<1>. SUFFICES ASSUME StatInv, [ReportNext \/ SourceNext]_<<statVars, insightVars>> PROVE StatInv'
  OBVIOUS
<1>1. ASSUME NEW r \in Candidates, Store(r) PROVE StatInv'
  <2>1. IsFiniteSet(reports \cup {r})
    BY FS_AddElement DEF StatInv
  <2>. QED
    BY <1>1, <2>1 DEF Store, StatInv
<1>2. ASSUME NEW r \in Candidates, DeleteReport(r) PROVE StatInv'
  <2>1. IsFiniteSet(reports \ {r})
    BY FS_RemoveElement DEF StatInv
  <2>. QED
    BY <1>2, <2>1 DEF DeleteReport, StatInv
<1>3. ASSUME Advance PROVE StatInv'
  <2>1. PICK j \in Nat : now' = now + j /\ UNCHANGED reports
    BY <1>3, ReportsAssumption DEF Advance
  <2>2. \A r \in reports : r.end \in Int
    BY ReportsAssumption DEF StatInv
  <2>. QED
    BY <2>1, <2>2 DEF StatInv
<1>4. ASSUME UNCHANGED statVars PROVE StatInv'
  BY <1>4 DEF statVars, StatInv
<1>. QED
  BY <1>1, <1>2, <1>3, <1>4 DEF ReportNext, SourceNext, Import

\* Whatever reports are imported and deleted, and whenever the pages are looked
\* at, the charts, the console of a reseller, the list of reports and the pages
\* of reports and sources show the same messages.
THEOREM ViewsAlwaysAgree == InsightSpec => []ViewsAgree
<1>1. InsightSpec => []StatInv
  <2>1. StatInit => StatInv
    BY StatStart
  <2>2. StatInv /\ [ReportNext \/ SourceNext]_<<statVars, insightVars>> => StatInv'
    BY StatStep
  <2>. QED
    BY <2>1, <2>2, PTL DEF InsightSpec
<1>2. StatInv => ViewsAgree
  BY ChartsKept, RollupsKept, ListKept DEF ViewsAgree
<1>. QED
  BY <1>1, <1>2, PTL
----------------------------------------------------------------------------
(***************************************************************************)
(* What is concluded follows from what the pages show.                     *)
(***************************************************************************)

\* A jump of the fail rate needs failed messages.
LEMMA JumpNeedsFailures ==
  ASSUME NEW a \in Nat, NEW b \in Nat, NEW c \in Nat, NEW d \in Nat,
         a >= SpikeVolume, b >= SpikeVolume,
         100 * (c * b - d * a) >= SpikeThreshold * a * b
  PROVE  c # 0
<1>. SUFFICES ASSUME c = 0 PROVE FALSE
  OBVIOUS
<1>1. a >= 1 /\ b >= 1 /\ SpikeThreshold \in Nat /\ SpikeThreshold >= 1
  BY InsightAssumption
<1>2. c * b = 0 /\ d * a >= 0 /\ d * a \in Nat
  <2>1. \A m, n \in Nat : m * n \in Nat
    OBVIOUS
  <2>. QED
    BY <2>1
<1>3. 100 * (c * b - d * a) <= 0
  BY <1>2
<1>4. SpikeThreshold * a * b >= 1
  <2>1. \A m, n \in Nat : m >= 1 /\ n >= 1 => m * n >= 1 /\ m * n \in Nat
    OBVIOUS
  <2>2. SpikeThreshold * a >= 1 /\ SpikeThreshold * a \in Nat
    BY <1>1, <2>1
  <2>. QED
    BY <1>1, <2>1, <2>2
<1>5. SpikeThreshold * a * b \in Nat /\ 100 * (c * b - d * a) \in Int
  BY <1>1, <1>2
<1>. QED
  BY <1>3, <1>4, <1>5

LEMMA RateIs ==
  ASSUME NEW rows, GoodRows(rows)
  PROVE  /\ Rate(rows).total \in Nat /\ Rate(rows).fail \in Nat
         /\ Rate(rows).fail # 0 => \E row \in rows : ~Aligned(row)
<1>. DEFINE bad == {row \in rows : ~Aligned(row)}
<1>1. Rate(rows).total = Volume(rows) /\ Rate(rows).fail = Volume(bad)
  BY DEF Rate
<1>2. Volume(rows) \in Nat /\ Volume(bad) \in Nat
  BY VolumeOfSome
<1>3. Volume({}) = 0
  BY EmptyTally DEF Tally
<1>. QED
  BY <1>1, <1>2, <1>3

LEMMA SpikesAreOwn ==
  ASSUME NEW S, IsFiniteSet(S), S \subseteq Candidates, NEW d, Spike(S, d)
  PROVE  OwnFailures(S, d)
<1>. DEFINE recent == {r \in S : r.domain = d /\ r.begin >= now - Day /\ r.begin < now}
            before == {r \in S : r.domain = d /\ r.begin >= now - 8 * Day /\ r.begin < now - Day}
            cur == Rate(RowsOf(recent))
            prev == Rate(RowsOf(before))
<1>1. Jumped(cur, prev)
  BY DEF Spike, Between
<1>2. /\ IsFiniteSet(recent) /\ recent \subseteq Candidates
      /\ IsFiniteSet(before) /\ before \subseteq Candidates
      /\ \A r \in recent : r \in S /\ r.domain = d
  BY FS_Subset
<1>. HIDE DEF recent, before
<1>3. GoodRows(RowsOf(recent)) /\ GoodRows(RowsOf(before))
  BY <1>2, RowsAreGood
<1>4. /\ cur.total \in Nat /\ cur.fail \in Nat /\ prev.total \in Nat /\ prev.fail \in Nat
      /\ cur.fail # 0 => \E row \in RowsOf(recent) : ~Aligned(row)
  BY <1>3, RateIs
<1>. HIDE DEF cur, prev
<1>5. cur.fail # 0
  BY <1>1, <1>4, JumpNeedsFailures DEF Jumped
<1>6. PICK row \in RowsOf(recent) : ~Aligned(row)
  BY <1>4, <1>5
<1>7. row \in RowsOf({r \in S : r.domain = d})
  BY <1>2, <1>6, RowIs
<1>. QED
  BY <1>6, <1>7 DEF OwnFailures

LEMMA SpikeStep ==
  StatInv /\ SpikeIsOwn /\ [ReportNext \/ SourceNext]_<<statVars, insightVars>> => SpikeIsOwn'
<1>. SUFFICES ASSUME StatInv, SpikeIsOwn, [ReportNext \/ SourceNext]_<<statVars, insightVars>>
              PROVE  SpikeIsOwn'
  OBVIOUS
<1>1. ASSUME NEW r \in Candidates, Import(r) PROVE SpikeIsOwn'
  <2>1. PICK S : S = reports'
    OBVIOUS
  <2>2. IsFiniteSet(S) /\ S \subseteq Candidates
    <3>1. S = reports \cup {r}
      BY <1>1, <2>1 DEF Import, Store
    <3>. QED
      BY <3>1, FS_AddElement DEF StatInv
  <2>3. Spike(S, r.domain) => OwnFailures(S, r.domain)
    BY <2>2, SpikesAreOwn
  <2>4. alerts' = IF Spike(S, r.domain)
                    THEN alerts \cup {[domain |-> r.domain, own |-> OwnFailures(S, r.domain)]} ELSE alerts
    BY <1>1, <2>1 DEF Import
  <2>5. \A a \in alerts' : a \in alerts \/ a.own
    <3>1. CASE Spike(S, r.domain)
      <4>1. [domain |-> r.domain, own |-> OwnFailures(S, r.domain)].own
        BY <2>3, <3>1
      <4>. QED
        BY <2>4, <3>1, <4>1
    <3>2. CASE ~Spike(S, r.domain)
      BY <2>4, <3>2
    <3>. QED
      BY <3>1, <3>2
  <2>. QED
    BY <2>5 DEF SpikeIsOwn
<1>2. ASSUME UNCHANGED insightVars \/ UNCHANGED alerts PROVE SpikeIsOwn'
  BY <1>2 DEF insightVars, SpikeIsOwn
<1>. QED
  BY <1>1, <1>2 DEF ReportNext, SourceNext

\* The policy in force is that of a report than which none ends later.
LEMMA CurrentPolicyIs ==
  ASSUME StatInv, NEW d, NEW q \in reports, q.domain = d
  PROVE  \E r \in reports : /\ r.domain = d /\ \A p \in reports : p.domain = d => p.end <= r.end
                            /\ CurrentPolicy(d) = r.policy
<1>. DEFINE mine == {r \in reports : r.domain = d}
            latest == CHOOSE r \in mine : \A p \in mine : p.end <= r.end
            w == [r \in mine |-> r.end]
<1>1. IsFiniteSet(mine) /\ mine # {} /\ \A r \in mine : w[r] = r.end /\ w[r] \in Int
  BY FS_Subset, ReportsAssumption DEF StatInv
<1>2. CurrentPolicy(d) = latest.policy
  BY <1>1 DEF CurrentPolicy
<1>3. \E r \in mine : \A p \in mine : p.end <= r.end
  <2>. HIDE DEF mine, w
  <2>1. PICK r \in mine : \A p \in mine : w[p] <= w[r]
    BY <1>1, Heaviest
  <2>. QED
    BY <1>1, <2>1
<1>4. latest \in mine /\ \A p \in mine : p.end <= latest.end
  <2>. HIDE DEF mine
  <2>. QED
    BY <1>3
<1>. QED
  BY <1>2, <1>4

\* What the advisor asks for before it calls a domain ready.
Ready == {"ready for quarantine", "ready for reject"}

LEMMA ReadyNeeds ==
  ASSUME NEW d, Advice(d) \cap Ready # {}
  PROVE  LET month == Tally(RowsOf(Selected({d}, 30)))
         IN /\ month.total # 0 /\ ~(month.total < 100) /\ 100 * month.pass >= 99 * month.total
            /\ \/ CurrentPolicy(d) = "none" /\ Advice(d) \cap Ready = {"ready for quarantine"}
               \/ CurrentPolicy(d) = "quarantine" /\ Advice(d) \cap Ready = {"ready for reject"}
<1>. DEFINE month == Tally(RowsOf(Selected({d}, 30)))
            policy == CurrentPolicy(d)
<1>1. month.total # 0
  BY DEF Advice, Ready
<1>2. Advice(d) \cap Ready = PolicyAdvice(month, policy) \cap Ready
  <2>. HIDE DEF month, policy
  <2>. QED
    BY <1>1 DEF Advice, Ready, month, policy
<1>. HIDE DEF month, policy
<1>3. ~(month.total < 100)
  BY <1>2 DEF PolicyAdvice, Ready
<1>4. PolicyAdvice(month, policy) \cap Ready
        = {a \in {"ready for quarantine"} : 100 * month.pass >= 99 * month.total /\ policy = "none"}
            \cup {a \in {"ready for reject"} : 100 * month.pass >= 99 * month.total /\ policy = "quarantine"}
  BY <1>3 DEF PolicyAdvice, Ready
<1>5. \/ policy = "none" /\ Advice(d) \cap Ready = {"ready for quarantine"}
      \/ policy = "quarantine" /\ Advice(d) \cap Ready = {"ready for reject"}
  BY <1>2, <1>4
<1>6. 100 * month.pass >= 99 * month.total
  BY <1>2, <1>4
<1>. QED
  BY <1>1, <1>3, <1>5, <1>6 DEF month, policy

LEMMA ReadyKept ==
  ASSUME StatInv
  PROVE  ReadyIsEarned
<1>. SUFFICES ASSUME NEW d \in Domains, Advice(d) \cap Ready # {}
              PROVE  LET shown == DomainTotals(TenantOf[d], {d}, 30)
                         ready == Advice(d) \cap Ready
                         final == {r \in reports : r.domain = d /\ \A q \in reports : q.domain = d => q.end <= r.end}
                     IN /\ shown.total >= 100 /\ 100 * shown.pass >= 99 * shown.total
                        /\ Cardinality(ready) = 1
                        /\ \E r \in final : <<r.policy, ready>> \in
                             {<<"none", {"ready for quarantine"}>>, <<"quarantine", {"ready for reject"}>>}
  BY DEF ReadyIsEarned, Ready
<1>. DEFINE rows == RowsOf(Selected({d}, 30))
            month == Tally(rows)
            ready == Advice(d) \cap Ready
<1>1. DomainTotals(TenantOf[d], {d}, 30) = month
  <2>1. {r \in Selected({d}, 30) : TenantOf[r.domain] = TenantOf[d]} = Selected({d}, 30)
    BY DEF Selected
  <2>. QED
    BY <2>1 DEF DomainTotals, RowsFor
<1>2. /\ month.total # 0 /\ ~(month.total < 100) /\ 100 * month.pass >= 99 * month.total
      /\ \/ CurrentPolicy(d) = "none" /\ ready = {"ready for quarantine"}
         \/ CurrentPolicy(d) = "quarantine" /\ ready = {"ready for reject"}
  BY ReadyNeeds
<1>3. GoodRows(rows)
  <2>1. IsFiniteSet(Selected({d}, 30)) /\ Selected({d}, 30) \subseteq Candidates
    BY FS_Subset DEF Selected, StatInv
  <2>. QED
    BY <2>1, RowsAreGood
<1>4. month.total \in Nat /\ month.total = Volume(rows)
  BY <1>3, TallyIs
<1>5. PICK q \in reports : q.domain = d
  <2>1. rows # {}
    <3>1. Volume({}) = 0
      BY EmptyTally DEF Tally
    <3>. QED
      BY <1>2, <1>4, <3>1
  <2>2. PICK row \in rows : TRUE
    BY <2>1
  <2>3. PICK q \in Selected({d}, 30) : \E i \in DOMAIN q.records : row = <<q, i>>
    BY <2>2, RowIs
  <2>. QED
    BY <2>3 DEF Selected
<1>6. PICK r \in reports : /\ r.domain = d /\ \A p \in reports : p.domain = d => p.end <= r.end
                           /\ CurrentPolicy(d) = r.policy
  BY <1>5, CurrentPolicyIs
<1>. HIDE DEF month, ready
<1>7. Cardinality(ready) = 1
  <2>1. IsFiniteSet(ready) /\ \E x : ready = {x}
    BY <1>2, FS_Singleton
  <2>. QED
    BY <2>1, FS_Singleton
<1>8. <<r.policy, ready>> \in {<<"none", {"ready for quarantine"}>>, <<"quarantine", {"ready for reject"}>>}
  BY <1>2, <1>6
<1>9. month.total >= 100
  <2>1. \A n \in Nat : ~(n < 100) => n >= 100
    OBVIOUS
  <2>. QED
    BY <1>2, <1>4, <2>1
<1>. QED
  BY <1>1, <1>2, <1>6, <1>7, <1>8, <1>9 DEF ready

\* A spike mail is caused by the domain's own failures, for any threshold and
\* volume the settings take, and a domain is called ready for the next policy
\* only by what its own dashboard and its latest report show.
THEOREM ConclusionsAlwaysEarned == InsightSpec => []ConclusionsAreEarned
<1>1. StatInit /\ InsightInit => StatInv /\ SpikeIsOwn
  BY StatStart DEF InsightInit, SpikeIsOwn
<1>2. StatInv /\ [ReportNext \/ SourceNext]_<<statVars, insightVars>> => StatInv'
  BY StatStep
<1>3. StatInv /\ SpikeIsOwn /\ [ReportNext \/ SourceNext]_<<statVars, insightVars>> => SpikeIsOwn'
  BY SpikeStep
<1>4. StatInv /\ SpikeIsOwn => ConclusionsAreEarned
  BY ReadyKept DEF ConclusionsAreEarned
<1>. QED
  BY <1>1, <1>2, <1>3, <1>4, PTL DEF InsightSpec

----------------------------------------------------------------------------
(***************************************************************************)
(* Recursion on numbers, for what DnsHealth defines by it.                 *)
(***************************************************************************)

LEMMA SmallestNumber ==
  ASSUME NEW Bad, Bad \subseteq Nat, Bad # {}
  PROVE  \E n \in Bad : \A m \in Bad : n <= m
<1>. DEFINE R == {ss \in Nat \X Nat : ss[1] < ss[2]}
<1>1. IsWellFoundedOn(R, Nat)
  BY NatLessThanWellFounded DEF OpToRel
<1>2. \A a, b \in Nat : a < b => <<a, b>> \in R
  OBVIOUS
<1>. HIDE DEF R
<1>3. PICK n \in Bad : \A m \in Bad : <<m, n>> \notin R
  BY <1>1, WFMin
<1>4. \A m \in Bad : n \in Nat /\ m \in Nat /\ ~(m < n)
  BY <1>2, <1>3
<1>5. \A m \in Bad : n <= m
  BY <1>4
<1>. QED
  BY <1>5

\* What holds of zero, and of each successor, holds of all numbers.
LEMMA Counting ==
  ASSUME NEW Good, 0 \in Good, \A n \in Nat : n \in Good => n + 1 \in Good
  PROVE  Nat \subseteq Good
<1>. DEFINE Bad == {n \in Nat : n \notin Good}
<1>. SUFFICES ASSUME Bad # {} PROVE FALSE
  OBVIOUS
<1>1. Bad \subseteq Nat
  OBVIOUS
<1>. HIDE DEF Bad
<1>2. PICK n \in Bad : \A m \in Bad : n <= m
  BY <1>1, SmallestNumber
<1>3. n \in Nat /\ n \notin Good /\ n # 0
  BY DEF Bad
<1>4. n - 1 \in Nat /\ n - 1 < n /\ (n - 1) + 1 = n
  BY <1>3
<1>5. n - 1 \in Good
  <2>1. n - 1 \notin Bad
    BY <1>2, <1>4
  <2>. QED
    BY <1>4, <2>1 DEF Bad
<1>. QED
  BY <1>3, <1>4, <1>5

Recursive(f, a, g) == g = [i \in Nat |-> IF i = 0 THEN a ELSE f[g[i - 1]]]
UpTo(n, f, a, g) == g = [i \in 0..n |-> IF i = 0 THEN a ELSE f[g[i - 1]]]

LEMMA UpToStep ==
  ASSUME NEW n \in Nat, NEW f, NEW a, NEW g, UpTo(n, f, a, g), NEW i \in 0..n
  PROVE  g[i] = IF i = 0 THEN a ELSE f[g[i - 1]]
BY DEF UpTo

LEMMA UpToExists ==
  ASSUME NEW f, NEW a
  PROVE  \A n \in Nat : \E g : UpTo(n, f, a, g)
<1>. DEFINE Good == {n \in Nat : \E g : UpTo(n, f, a, g)}
<1>1. 0 \in Good
  <2>. DEFINE g == [i \in {0} |-> a]
  <2>1. g = [i \in 0..0 |-> IF i = 0 THEN a ELSE f[g[i - 1]]]
    OBVIOUS
  <2>. QED
    BY <2>1 DEF UpTo
<1>2. ASSUME NEW n \in Nat, n \in Good PROVE n + 1 \in Good
  <2>1. PICK g : UpTo(n, f, a, g)
    BY <1>2
  <2>. DEFINE h == [i \in 0..n + 1 |-> IF i <= n THEN g[i] ELSE f[g[n]]]
  <2>2. ASSUME NEW i \in 0..n + 1 PROVE h[i] = IF i = 0 THEN a ELSE f[h[i - 1]]
    <3>1. CASE i = 0
      <4>1. 0 \in 0..n /\ h[0] = g[0]
        OBVIOUS
      <4>2. g[0] = a
        BY <2>1, <4>1, UpToStep
      <4>. QED
        BY <3>1, <4>1, <4>2
    <3>2. CASE i \in 1..n
      <4>1. i \in 0..n /\ i - 1 \in 0..n /\ i # 0
        BY <3>2
      <4>2. h[i] = g[i] /\ h[i - 1] = g[i - 1]
        BY <4>1
      <4>3. g[i] = f[g[i - 1]]
        <5>. HIDE DEF h
        <5>. QED
          BY <2>1, <4>1, UpToStep
      <4>. QED
        BY <4>1, <4>2, <4>3
    <3>3. CASE i = n + 1
      BY <3>3
    <3>. QED
      BY <3>1, <3>2, <3>3
  <2>. DEFINE B(i) == IF i = 0 THEN a ELSE f[h[i - 1]]
  <2>3. h = [i \in 0..n + 1 |-> h[i]]
    OBVIOUS
  <2>4. [i \in 0..n + 1 |-> h[i]] = [i \in 0..n + 1 |-> B(i)]
    <3>1. \A i \in 0..n + 1 : h[i] = B(i)
      BY <2>2
    <3>. HIDE DEF h, B
    <3>. QED
      BY <3>1
  <2>5. h = [i \in 0..n + 1 |-> B(i)]
    BY <2>3, <2>4
  <2>6. UpTo(n + 1, f, a, h)
    BY <2>5 DEF UpTo
  <2>. QED
    BY <2>6
<1>. HIDE DEF Good
<1>3. Nat \subseteq Good
  BY <1>1, <1>2, Counting
<1>. QED
  BY <1>3 DEF Good

LEMMA UpToAgree ==
  ASSUME NEW f, NEW a, NEW m \in Nat, NEW n \in Nat, NEW g, NEW h,
         UpTo(m, f, a, g), UpTo(n, f, a, h), m <= n
  PROVE  \A i \in 0..m : g[i] = h[i]
<1>. DEFINE Good == {i \in Nat : i \in 0..m => g[i] = h[i]}
<1>1. 0 \in Good
  <2>1. 0 \in 0..m /\ 0 \in 0..n
    OBVIOUS
  <2>2. g[0] = a /\ h[0] = a
    BY <2>1, UpToStep
  <2>. QED
    BY <2>2
<1>2. ASSUME NEW i \in Nat, i \in Good PROVE i + 1 \in Good
  <2>. SUFFICES ASSUME i + 1 \in 0..m PROVE g[i + 1] = h[i + 1]
    OBVIOUS
  <2>1. i \in 0..m /\ i + 1 \in 0..n /\ i + 1 # 0 /\ (i + 1) - 1 = i
    OBVIOUS
  <2>2. g[i] = h[i]
    BY <1>2, <2>1
  <2>. HIDE DEF Good
  <2>3. g[i + 1] = f[g[(i + 1) - 1]]
    BY <2>1, UpToStep
  <2>4. h[i + 1] = f[h[(i + 1) - 1]]
    BY <2>1, UpToStep
  <2>. QED
    BY <2>1, <2>2, <2>3, <2>4
<1>. HIDE DEF Good
<1>3. Nat \subseteq Good
  BY <1>1, <1>2, Counting
<1>4. \A i \in 0..m : i \in Nat
  OBVIOUS
<1>. QED
  BY <1>3, <1>4 DEF Good

LEMMA RecursionExists ==
  ASSUME NEW f, NEW a
  PROVE  \E g : Recursive(f, a, g)
<1>. DEFINE sol(n) == CHOOSE g : UpTo(n, f, a, g)
            G == [i \in Nat |-> sol(i)[i]]
<1>1. \A n \in Nat : UpTo(n, f, a, sol(n))
  BY UpToExists
<1>. HIDE DEF sol
<1>2. ASSUME NEW i \in Nat PROVE sol(i)[i] = IF i = 0 THEN a ELSE f[G[i - 1]]
  <2>1. i \in 0..i
    OBVIOUS
  <2>2. sol(i)[i] = IF i = 0 THEN a ELSE f[sol(i)[i - 1]]
    BY <1>1, <2>1, UpToStep
  <2>3. CASE i # 0
    <3>1. i - 1 \in Nat /\ i - 1 <= i /\ i - 1 \in 0..i - 1
      BY <2>3
    <3>2. sol(i - 1)[i - 1] = sol(i)[i - 1]
      <4>1. PICK m \in Nat : m = i - 1
        BY <3>1
      <4>2. \A k \in 0..m : sol(m)[k] = sol(i)[k]
        BY <1>1, <3>1, <4>1, UpToAgree
      <4>. QED
        BY <3>1, <4>1, <4>2
    <3>3. G[i - 1] = sol(i - 1)[i - 1]
      BY <3>1
    <3>. QED
      BY <2>2, <2>3, <3>2, <3>3
  <2>. QED
    BY <2>2, <2>3
<1>. DEFINE B(i) == IF i = 0 THEN a ELSE f[G[i - 1]]
<1>3. [i \in Nat |-> sol(i)[i]] = [i \in Nat |-> B(i)]
  <2>1. \A i \in Nat : sol(i)[i] = B(i)
    BY <1>2
  <2>. HIDE DEF G, B
  <2>. QED
    BY <2>1
<1>4. G = [i \in Nat |-> B(i)]
  BY <1>3
<1>5. Recursive(f, a, G)
  BY <1>4 DEF Recursive
<1>. QED
  BY <1>5

----------------------------------------------------------------------------
(***************************************************************************)
(* The names behind an SPF record.                                         *)
(***************************************************************************)

SpfOK == spf \in [Names -> Records \cup {NoRecord}] /\ spf[Root] # NoRecord

\* A name that has a record refers to names, and the record has a cost.
LEMMA RecordIs ==
  ASSUME SpfOK, NEW n \in Names, spf[n] # NoRecord
  PROVE  Links(spf[n]) \in Seq(Names) /\ spf[n].plain \in Nat
<1>1. spf[n] \in Records
  BY DEF SpfOK
<1>2. spf[n].includes \in Seq(Names) /\ spf[n].redirects \in Seq(Names) /\ spf[n].plain \in Nat
  BY <1>1, DnsAssumption
<1>. QED
  BY <1>2 DEF Links

LEMMA TargetIs ==
  ASSUME NEW S, NEW x
  PROVE  x \in Targets(S) <=> \E n \in S : /\ spf[n] # NoRecord
                                           /\ \E i \in 1..Len(Links(spf[n])) : x = Links(spf[n])[i]
BY DEF Targets

LEMMA TargetsAreNames ==
  ASSUME SpfOK, NEW S, S \subseteq Names
  PROVE  Targets(S) \subseteq Names
<1>. SUFFICES ASSUME NEW x \in Targets(S) PROVE x \in Names
  OBVIOUS
<1>1. PICK n \in S : /\ spf[n] # NoRecord
                     /\ \E i \in 1..Len(Links(spf[n])) : x = Links(spf[n])[i]
  BY TargetIs
<1>2. Links(spf[n]) \in Seq(Names)
  BY <1>1, RecordIs
<1>. QED
  BY <1>1, <1>2

\* The steps that Reached is defined by.
LEMMA ReachedBySteps ==
  ASSUME SpfOK
  PROVE  \E step : /\ Reached = step[Cardinality(Names)] /\ step[0] = {Root}
                   /\ \A i \in Nat : step[i] \subseteq Names /\ step[i + 1] = step[i] \cup Targets(step[i])
<1>. DEFINE F == [X \in SUBSET Names |-> X \cup Targets(X)]
            Eq(f) == f = [i \in Nat |-> IF i = 0 THEN {Root} ELSE f[i - 1] \cup Targets(f[i - 1])]
            step == CHOOSE f : Eq(f)
<1>1. Reached = step[Cardinality(Names)]
  BY DEF Reached
<1>2. PICK g : Recursive(F, {Root}, g)
  <2>. HIDE DEF F
  <2>. QED
    BY RecursionExists
<1>3. \A X \in SUBSET Names : F[X] \in SUBSET Names /\ F[X] = X \cup Targets(X)
  BY TargetsAreNames
<1>. HIDE DEF F
<1>4. \A i \in Nat : g[i] = IF i = 0 THEN {Root} ELSE F[g[i - 1]]
  BY <1>2 DEF Recursive
<1>5. \A i \in Nat : g[i] \in SUBSET Names
  <2>. DEFINE Good == {i \in Nat : g[i] \in SUBSET Names}
  <2>1. 0 \in Good
    BY <1>4, DnsAssumption
  <2>2. ASSUME NEW i \in Nat, i \in Good PROVE i + 1 \in Good
    <3>1. g[i + 1] = F[g[i]]
      <4>1. i + 1 \in Nat /\ i + 1 # 0 /\ (i + 1) - 1 = i
        OBVIOUS
      <4>. QED
        BY <1>4, <4>1
    <3>. QED
      BY <1>3, <2>2, <3>1
  <2>. HIDE DEF Good
  <2>3. Nat \subseteq Good
    BY <2>1, <2>2, Counting
  <2>. QED
    BY <2>3 DEF Good
<1>6. Eq(g)
  <2>. DEFINE A(i) == IF i = 0 THEN {Root} ELSE F[g[i - 1]]
              B(i) == IF i = 0 THEN {Root} ELSE g[i - 1] \cup Targets(g[i - 1])
  <2>1. ASSUME NEW i \in Nat PROVE A(i) = B(i)
    <3>1. i # 0 => i - 1 \in Nat
      OBVIOUS
    <3>. QED
      BY <1>3, <1>5, <3>1
  <2>2. g = [i \in Nat |-> A(i)]
    BY <1>2 DEF Recursive
  <2>3. [i \in Nat |-> A(i)] = [i \in Nat |-> B(i)]
    <3>. HIDE DEF A, B
    <3>. QED
      BY <2>1
  <2>4. g = [i \in Nat |-> B(i)]
    BY <2>2, <2>3
  <2>. QED
    BY <2>4
<1>7. Eq(step)
  <2>1. \E f : Eq(f)
    BY <1>6
  <2>. HIDE DEF Eq
  <2>. QED
    BY <2>1
<1>8. \A i \in Nat : step[i] = IF i = 0 THEN {Root} ELSE step[i - 1] \cup Targets(step[i - 1])
  <2>. HIDE DEF step
  <2>. QED
    BY <1>7
<1>. HIDE DEF step, Eq
<1>9. step[0] = {Root} /\ \A i \in Nat : step[i + 1] = step[i] \cup Targets(step[i])
  <2>1. \A i \in Nat : i + 1 \in Nat /\ i + 1 # 0 /\ (i + 1) - 1 = i
    OBVIOUS
  <2>2. ASSUME NEW i \in Nat PROVE step[i + 1] = step[i] \cup Targets(step[i])
    BY <1>8, <2>1
  <2>. QED
    BY <1>8, <2>2
<1>10. \A i \in Nat : step[i] \subseteq Names
  <2>. DEFINE Good == {i \in Nat : step[i] \subseteq Names}
  <2>1. 0 \in Good
    BY <1>9, DnsAssumption
  <2>2. ASSUME NEW i \in Nat, i \in Good PROVE i + 1 \in Good
    BY <1>9, <2>2, TargetsAreNames
  <2>. HIDE DEF Good
  <2>3. Nat \subseteq Good
    BY <2>1, <2>2, Counting
  <2>. QED
    BY <2>3 DEF Good
<1>. QED
  BY <1>1, <1>9, <1>10

\* Sets of names that grow with each step unless they are closed are closed
\* after as many steps as there are names.
LEMMA GrowsUntilClosed ==
  ASSUME NEW step, \A i \in Nat : step[i] \subseteq Names /\ step[i] \subseteq step[i + 1],
         NEW Closed, \A i \in Nat : step[i] \notin Closed => step[i + 1] # step[i],
         \A i \in Nat : step[i] \in Closed => step[i + 1] \in Closed,
         Names \in Closed
  PROVE  step[Cardinality(Names)] \in Closed
<1>. DEFINE Good == {i \in Nat : step[i] \in Closed \/ Cardinality(step[i]) >= i}
<1>1. \A i \in Nat : IsFiniteSet(step[i]) /\ Cardinality(step[i]) \in Nat
  BY FS_Subset, FS_CardinalityType, DnsAssumption
<1>2. 0 \in Good
  <2>1. 0 \in Nat /\ Cardinality(step[0]) \in Nat
    BY <1>1
  <2>. QED
    BY <2>1
<1>3. ASSUME NEW i \in Nat, i \in Good PROVE i + 1 \in Good
  <2>1. CASE step[i] \in Closed
    BY <2>1
  <2>2. CASE step[i] \notin Closed
    <3>1. Cardinality(step[i]) >= i
      BY <1>3, <2>2
    <3>2. PICK A : A = step[i]
      OBVIOUS
    <3>3. PICK B : B = step[i + 1]
      OBVIOUS
    <3>4. A \subseteq B /\ A # B /\ IsFiniteSet(B) /\ i + 1 \in Nat
      BY <1>1, <2>2, <3>2, <3>3
    <3>5. Cardinality(A) <= Cardinality(B) /\ Cardinality(A) # Cardinality(B)
      BY <3>4, FS_Subset
    <3>6. Cardinality(A) \in Nat /\ Cardinality(B) \in Nat
      BY <1>1, <3>2, <3>3, <3>4
    <3>7. Cardinality(B) >= i + 1
      BY <3>1, <3>2, <3>5, <3>6
    <3>. QED
      BY <3>3, <3>4, <3>7
  <2>. QED
    BY <2>1, <2>2
<1>. HIDE DEF Good
<1>4. Nat \subseteq Good
  BY <1>2, <1>3, Counting
<1>5. PICK c \in Nat : c = Cardinality(Names)
  BY FS_CardinalityType, DnsAssumption
<1>6. step[c] \in Closed \/ Cardinality(step[c]) >= c
  BY <1>4 DEF Good
<1>7. CASE step[c] \notin Closed
  <2>1. Cardinality(step[c]) <= c /\ Cardinality(step[c]) \in Nat /\ step[c] \in SUBSET Names
    BY <1>1, <1>5, FS_Subset, DnsAssumption
  <2>2. Cardinality(step[c]) = c
    BY <1>6, <1>7, <2>1
  <2>3. step[c] = Names
    BY <1>5, <2>1, <2>2, FS_Subset, DnsAssumption
  <2>. QED
    BY <1>7, <2>3
<1>. QED
  BY <1>5, <1>7

\* Reached is the least set with the domain in it that the records in it do
\* not lead out of.
LEMMA ReachedIs ==
  ASSUME SpfOK
  PROVE  /\ Reached \subseteq Names /\ Root \in Reached /\ Targets(Reached) \subseteq Reached
         /\ \A X : Root \in X /\ Targets(X) \subseteq X => Reached \subseteq X
<1>1. PICK step : /\ Reached = step[Cardinality(Names)] /\ step[0] = {Root}
                  /\ \A i \in Nat : step[i] \subseteq Names /\ step[i + 1] = step[i] \cup Targets(step[i])
  BY ReachedBySteps
<1>2. PICK c \in Nat : c = Cardinality(Names)
  BY FS_CardinalityType, DnsAssumption
<1>3. Targets(Reached) \subseteq Reached
  <2>. DEFINE Closed == {X \in SUBSET Names : Targets(X) \subseteq X}
  <2>1. \A i \in Nat : step[i] \subseteq Names /\ step[i] \subseteq step[i + 1]
    BY <1>1
  <2>2. \A i \in Nat : step[i] \notin Closed => step[i + 1] # step[i]
    BY <1>1
  <2>3. \A i \in Nat : step[i] \in Closed => step[i + 1] \in Closed
    <3>1. \A i \in Nat : step[i] \in Closed => step[i + 1] = step[i]
      BY <1>1
    <3>. QED
      BY <3>1
  <2>4. Names \in Closed
    BY TargetsAreNames
  <2>. HIDE DEF Closed
  <2>5. step[Cardinality(Names)] \in Closed
    BY <2>1, <2>2, <2>3, <2>4, GrowsUntilClosed
  <2>. QED
    BY <1>1, <2>5 DEF Closed
<1>4. Root \in Reached
  <2>. DEFINE Good == {i \in Nat : Root \in step[i]}
  <2>1. 0 \in Good
    BY <1>1
  <2>2. \A i \in Nat : i \in Good => i + 1 \in Good
    BY <1>1
  <2>. HIDE DEF Good
  <2>3. Nat \subseteq Good
    BY <2>1, <2>2, Counting
  <2>. QED
    BY <1>1, <1>2, <2>3 DEF Good
<1>5. ASSUME NEW X, Root \in X, Targets(X) \subseteq X PROVE Reached \subseteq X
  <2>. DEFINE Good == {i \in Nat : step[i] \subseteq X}
  <2>1. 0 \in Good
    BY <1>1, <1>5
  <2>2. ASSUME NEW i \in Nat, i \in Good PROVE i + 1 \in Good
    <3>1. Targets(step[i]) \subseteq Targets(X)
      BY <2>2, TargetIs
    <3>. QED
      BY <1>1, <1>5, <2>2, <3>1
  <2>. HIDE DEF Good
  <2>3. Nat \subseteq Good
    BY <2>1, <2>2, Counting
  <2>. QED
    BY <1>1, <1>2, <2>3 DEF Good
<1>. QED
  BY <1>1, <1>2, <1>3, <1>4, <1>5

----------------------------------------------------------------------------
(***************************************************************************)
(* Each term is counted once.                                              *)
(***************************************************************************)

CostOf == [n \in Names |-> Cost(n)]

LEMMA CostIs ==
  ASSUME NEW K, IsFiniteSet(K), K \subseteq Names
  PROVE  MapThenSumSet(Cost, K) = Sum(CostOf, K)
<1>. DEFINE w == CostOf
            Eq(g) == g = [s \in SUBSET K |-> IF s = {} THEN 0 ELSE
                            Cost(CHOOSE x \in s : TRUE) + g[s \ {CHOOSE x \in s : TRUE}]]
            it == CHOOSE g : Eq(g)
<1>1. MapThenSumSet(Cost, K) = it[K]
  BY DEF MapThenSumSet, MapThenFoldSet
<1>2. ASSUME NEW g PROVE Adds(w, K, g) <=> Eq(g)
  <2>. DEFINE A(s) == IF s = {} THEN 0 ELSE w[First(s)] + g[s \ {First(s)}]
              B(s) == IF s = {} THEN 0 ELSE
                        Cost(CHOOSE x \in s : TRUE) + g[s \ {CHOOSE x \in s : TRUE}]
  <2>1. ASSUME NEW s \in SUBSET K PROVE A(s) = B(s)
    <3>1. CASE s = {}
      BY <3>1
    <3>2. CASE s # {}
      <4>1. First(s) \in s /\ First(s) = CHOOSE x \in s : TRUE
        BY <3>2, FirstIsIn DEF First
      <4>2. w[First(s)] = Cost(First(s))
        BY <4>1 DEF CostOf
      <4>. HIDE DEF w
      <4>. QED
        BY <3>2, <4>1, <4>2
    <3>. QED
      BY <3>1, <3>2
  <2>2. [s \in SUBSET K |-> A(s)] = [s \in SUBSET K |-> B(s)]
    <3>. HIDE DEF A, B
    <3>. QED
      BY <2>1
  <2>. QED
    BY <2>2 DEF Adds
<1>3. \E g : Adds(w, K, g)
  BY SumExists
<1>4. Eq(it)
  <2>. HIDE DEF Eq
  <2>1. \E g : Eq(g)
    BY <1>2, <1>3
  <2>. QED
    BY <2>1
<1>. HIDE DEF Eq, it
<1>5. Adds(w, K, it)
  BY <1>2, <1>4
<1>. QED
  BY <1>1, <1>5, SumIsSolution

LEMMA CostIsNat ==
  ASSUME SpfOK
  PROVE  \A n \in Names : CostOf[n] = Cost(n) /\ Cost(n) \in Nat
<1>. SUFFICES ASSUME NEW n \in Names PROVE Cost(n) \in Nat
  BY DEF CostOf
<1>1. CASE spf[n] = NoRecord
  BY <1>1 DEF Cost
<1>2. CASE spf[n] # NoRecord
  BY <1>2, RecordIs DEF Cost
<1>. QED
  BY <1>1, <1>2

Call == [name : Names, todo : Seq(Names)]

\* Terms still to follow: how many, and which names they refer to.
LengthsOf(calls) == [i \in 1..Len(calls) |-> Len(calls[i].todo)]
Pending(calls) == Sum(LengthsOf(calls), 1..Len(calls))
Wanted(calls, x) == \E i \in 1..Len(calls) : \E j \in 1..Len(calls[i].todo) : calls[i].todo[j] = x

LEMMA LengthsAre ==
  ASSUME NEW calls \in Seq(Call)
  PROVE  /\ IsFiniteSet(1..Len(calls)) /\ Len(calls) \in Nat
         /\ Weights(LengthsOf(calls), 1..Len(calls)) /\ Pending(calls) \in Nat
<1>1. Len(calls) \in Nat /\ 1 \in Int
  OBVIOUS
<1>2. IsFiniteSet(1..Len(calls))
  BY <1>1, FS_Interval
<1>3. \A i \in 1..Len(calls) : LengthsOf(calls)[i] \in Nat
  <2>1. \A i \in 1..Len(calls) : calls[i] \in Call
    OBVIOUS
  <2>2. \A i \in 1..Len(calls) : Len(calls[i].todo) \in Nat
    BY <2>1 DEF Call
  <2>. QED
    BY <2>2 DEF LengthsOf
<1>. QED
  BY <1>1, <1>2, <1>3, SumNat DEF Weights, Pending

\* The last call and the ones before it.
LEMMA PendingOfLast ==
  ASSUME NEW calls \in Seq(Call), calls # <<>>, NEW front \in Seq(Call),
         Len(front) = Len(calls) - 1, \A i \in 1..Len(front) : front[i] = calls[i]
  PROVE  Pending(calls) = Len(calls[Len(calls)].todo) + Pending(front)
<1>. DEFINE n == Len(calls)
            w == LengthsOf(calls)
<1>1. n \in Nat /\ n >= 1 /\ n \in 1..n /\ (1..n) \ {n} = 1..n - 1
  OBVIOUS
<1>3. IsFiniteSet(1..n) /\ Weights(w, 1..n)
  BY LengthsAre
<1>4. Sum(w, 1..n) = w[n] + Sum(w, (1..n) \ {n})
  <2>1. PICK m : m = n
    OBVIOUS
  <2>2. PICK all : all = 1..n
    OBVIOUS
  <2>3. m \in all /\ IsFiniteSet(all) /\ Weights(w, all)
    BY <1>1, <1>3, <2>1, <2>2
  <2>. HIDE DEF n, w
  <2>4. Sum(w, all) = w[m] + Sum(w, all \ {m})
    BY <2>3, SumAny
  <2>. QED
    BY <2>1, <2>2, <2>4
<1>5. w[n] = Len(calls[n].todo)
  BY <1>1 DEF LengthsOf
<1>6. Sum(w, 1..n - 1) = Pending(front)
  <2>1. IsFiniteSet(1..n - 1)
    BY LengthsAre
  <2>2. \A i \in 1..n - 1 : w[i] = LengthsOf(front)[i]
    BY <1>1 DEF LengthsOf
  <2>. HIDE DEF w
  <2>3. Sum(w, 1..n - 1) = Sum(LengthsOf(front), 1..n - 1)
    BY <2>1, <2>2, SumSame
  <2>. QED
    BY <2>3 DEF Pending
<1>7. Sum(w, 1..n) = w[n] + Sum(w, 1..n - 1)
  <2>. HIDE DEF n, w
  <2>. QED
    BY <1>1, <1>4
<1>. QED
  BY <1>5, <1>6, <1>7 DEF Pending

LEMMA PendingEmpty == Pending(<<>>) = 0
<1>1. 1..Len(<<>>) = {}
  OBVIOUS
<1>. QED
  BY <1>1, SumEmpty DEF Pending

LEMMA PendingAppend ==
  ASSUME NEW calls \in Seq(Call), NEW call \in Call
  PROVE  Pending(Append(calls, call)) = Len(call.todo) + Pending(calls)
<1>. DEFINE more == Append(calls, call)
<1>1. /\ more \in Seq(Call) /\ more # <<>> /\ more[Len(more)] = call
      /\ Len(calls) = Len(more) - 1 /\ \A i \in 1..Len(calls) : calls[i] = more[i]
  OBVIOUS
<1>. HIDE DEF more
<1>2. Pending(more) = Len(more[Len(more)].todo) + Pending(calls)
  BY <1>1, PendingOfLast
<1>. QED
  BY <1>1, <1>2 DEF more

\* A list of calls without the last one.
LEMMA FrontIs ==
  ASSUME NEW calls \in Seq(Call), calls # <<>>
  PROVE  LET front == SubSeq(calls, 1, Len(calls) - 1)
         IN /\ front \in Seq(Call) /\ Len(front) = Len(calls) - 1
            /\ \A i \in 1..Len(front) : front[i] = calls[i]
<1>. DEFINE k == Len(calls) - 1
<1>1. Len(calls) \in Nat /\ Len(calls) >= 1
  OBVIOUS
<1>2. k \in Nat /\ k <= Len(calls)
  BY <1>1
<1>3. \A i \in 1..k : i \in 1..Len(calls) /\ calls[i] \in Call
  BY <1>1
<1>. HIDE DEF k
<1>4. SubSeq(calls, 1, k) \in Seq(Call)
  BY <1>2, <1>3
<1>5. Len(SubSeq(calls, 1, k)) = k /\ \A i \in 1..k : SubSeq(calls, 1, k)[i] = calls[i]
  BY <1>1, <1>2
<1>. QED
  BY <1>4, <1>5 DEF k

\* The last call once its first term is followed.
LEMMA TermFollowed ==
  ASSUME NEW calls \in Seq(Call), calls # <<>>, calls[Len(calls)].todo # <<>>
  PROVE  LET rest == [calls EXCEPT ![Len(calls)].todo = Tail(@)]
             n == Head(calls[Len(calls)].todo)
         IN /\ rest \in Seq(Call) /\ Len(rest) = Len(calls) /\ n \in Names
            /\ Pending(calls) = Pending(rest) + 1
            /\ \A x : Wanted(calls, x) => x = n \/ Wanted(rest, x)
            /\ \A x : Wanted(rest, x) => Wanted(calls, x)
            /\ Wanted(calls, n)
<1>. DEFINE k == Len(calls)
            top == calls[k]
            todo == top.todo
            less == [top EXCEPT !.todo = Tail(todo)]
            rest == [calls EXCEPT ![k].todo = Tail(@)]
            n == Head(todo)
            front == SubSeq(calls, 1, k - 1)
<1>1. k \in Nat /\ k >= 1 /\ k \in 1..k /\ top \in Call
  OBVIOUS
<1>2. todo \in Seq(Names) /\ todo # <<>>
  BY <1>1 DEF Call
<1>3. /\ n \in Names /\ Tail(todo) \in Seq(Names) /\ Len(Tail(todo)) = Len(todo) - 1 /\ Len(todo) \in Nat
      /\ Len(todo) >= 1 /\ n = todo[1] /\ \A j \in 1..Len(todo) - 1 : Tail(todo)[j] = todo[j + 1]
  <2>. HIDE DEF todo
  <2>. QED
    BY <1>2
<1>4. less \in Call /\ less.todo = Tail(todo)
  BY <1>1, <1>3 DEF Call
<1>5. rest = [calls EXCEPT ![k] = less]
  OBVIOUS
<1>6. /\ rest \in Seq(Call) /\ Len(rest) = k /\ rest[k] = less
      /\ \A i \in 1..k : i # k => rest[i] = calls[i]
  <2>. HIDE DEF less, rest
  <2>. QED
    BY <1>1, <1>4, <1>5
<1>7. Pending(calls) = Len(todo) + Pending(front)
  BY FrontIs, PendingOfLast
<1>8. Pending(rest) = Len(Tail(todo)) + Pending(front)
  <2>1. front \in Seq(Call) /\ Len(front) = k - 1 /\ \A i \in 1..Len(front) : front[i] = calls[i]
    BY FrontIs
  <2>2. \A i \in 1..Len(front) : front[i] = rest[i]
    BY <1>1, <1>6, <2>1
  <2>3. rest # <<>>
    BY <1>1, <1>6
  <2>. HIDE DEF rest, front, less
  <2>4. Pending(rest) = Len(rest[Len(rest)].todo) + Pending(front)
    BY <1>6, <2>1, <2>2, <2>3, PendingOfLast
  <2>. QED
    BY <1>4, <1>6, <2>4
<1>9. Pending(front) \in Nat
  BY FrontIs, LengthsAre
<1>10. Pending(calls) = Pending(rest) + 1
  <2>. HIDE DEF rest, front, todo
  <2>. QED
    BY <1>3, <1>7, <1>8, <1>9
<1>11. ASSUME NEW x, Wanted(calls, x) PROVE x = n \/ Wanted(rest, x)
  <2>1. PICK i \in 1..k : \E j \in 1..Len(calls[i].todo) : calls[i].todo[j] = x
    BY <1>11 DEF Wanted
  <2>2. CASE i # k
    <3>1. rest[i] = calls[i]
      BY <1>6, <2>2
    <3>. HIDE DEF rest
    <3>. QED
      BY <1>6, <2>1, <3>1 DEF Wanted
  <2>3. CASE i = k
    <3>1. PICK j \in 1..Len(todo) : todo[j] = x
      BY <2>1, <2>3
    <3>2. CASE j = 1
      BY <1>3, <3>1, <3>2
    <3>3. CASE j # 1
      <4>1. j - 1 \in 1..Len(todo) - 1 /\ (j - 1) + 1 = j
        BY <1>3, <3>3
      <4>2. Tail(todo)[j - 1] = x /\ j - 1 \in 1..Len(Tail(todo))
        BY <1>3, <3>1, <4>1
      <4>. HIDE DEF rest, less, todo
      <4>. QED
        BY <1>1, <1>4, <1>6, <4>2 DEF Wanted
    <3>. QED
      BY <3>2, <3>3
  <2>. QED
    BY <2>2, <2>3
<1>12. ASSUME NEW x, Wanted(rest, x) PROVE Wanted(calls, x)
  <2>1. PICK i \in 1..k : \E j \in 1..Len(rest[i].todo) : rest[i].todo[j] = x
    BY <1>6, <1>12 DEF Wanted
  <2>2. CASE i # k
    <3>1. rest[i] = calls[i]
      BY <1>6, <2>2
    <3>. HIDE DEF rest
    <3>. QED
      BY <1>6, <2>1, <3>1 DEF Wanted
  <2>3. CASE i = k
    <3>1. PICK j \in 1..Len(Tail(todo)) : Tail(todo)[j] = x
      BY <1>4, <1>6, <2>1, <2>3
    <3>2. j + 1 \in 1..Len(todo) /\ todo[j + 1] = x
      BY <1>3, <3>1
    <3>. QED
      BY <1>1, <3>2 DEF Wanted
  <2>. QED
    BY <2>2, <2>3
<1>13. Wanted(calls, n)
  <2>1. 1 \in 1..Len(todo) /\ todo[1] = n
    BY <1>3
  <2>. QED
    BY <1>1, <2>1 DEF Wanted
<1>. HIDE DEF rest
<1>. QED
  BY <1>3, <1>6, <1>10, <1>11, <1>12, <1>13 DEF rest

\* A call that is added adds the names it refers to.
LEMMA WantedAppend ==
  ASSUME NEW calls \in Seq(Call), NEW call \in Call, NEW x
  PROVE  Wanted(Append(calls, call), x) <=>
           Wanted(calls, x) \/ \E j \in 1..Len(call.todo) : call.todo[j] = x
<1>. DEFINE more == Append(calls, call)
<1>1. /\ Len(calls) \in Nat /\ Len(more) = Len(calls) + 1 /\ more[Len(calls) + 1] = call
      /\ \A i \in 1..Len(calls) : more[i] = calls[i]
  OBVIOUS
<1>. HIDE DEF more
<1>2. ASSUME Wanted(calls, x) PROVE Wanted(more, x)
  <2>1. PICK i \in 1..Len(calls) : \E j \in 1..Len(calls[i].todo) : calls[i].todo[j] = x
    BY <1>2 DEF Wanted
  <2>2. i \in 1..Len(more) /\ more[i] = calls[i]
    BY <1>1
  <2>. QED
    BY <2>1, <2>2 DEF Wanted
<1>3. ASSUME NEW j \in 1..Len(call.todo), call.todo[j] = x PROVE Wanted(more, x)
  <2>1. Len(calls) + 1 \in 1..Len(more)
    BY <1>1
  <2>. QED
    BY <1>1, <1>3, <2>1 DEF Wanted
<1>4. ASSUME Wanted(more, x)
      PROVE  Wanted(calls, x) \/ \E j \in 1..Len(call.todo) : call.todo[j] = x
  <2>1. PICK i \in 1..Len(more) : \E j \in 1..Len(more[i].todo) : more[i].todo[j] = x
    BY <1>4 DEF Wanted
  <2>2. CASE i \in 1..Len(calls)
    BY <1>1, <2>1, <2>2 DEF Wanted
  <2>3. CASE i \notin 1..Len(calls)
    <3>1. i = Len(calls) + 1
      BY <1>1, <2>3
    <3>. QED
      BY <1>1, <2>1, <3>1
  <2>. QED
    BY <2>2, <2>3
<1>. QED
  BY <1>2, <1>3, <1>4 DEF more

\* What is counted and what is still to be counted is the cost of the names
\* visited; unless a call was refused, a name that one of them refers to is
\* visited or still to follow.
DnsInv ==
  /\ SpfOK /\ stack \in Seq(Call) /\ seen \subseteq Names /\ Root \in seen
  /\ count \in Nat /\ cut \in BOOLEAN
  /\ count + Pending(stack) = Sum(CostOf, seen)
  /\ seen \subseteq Reached /\ \A x : Wanted(stack, x) => x \in Reached
  /\ ~cut => \A x \in Targets(seen) : x \in seen \/ Wanted(stack, x)

LEMMA DnsStart == DnsInit => DnsInv
<1>. SUFFICES ASSUME DnsInit PROVE DnsInv
  OBVIOUS
<1>. DEFINE call == [name |-> Root, todo |-> Links(spf[Root])]
<1>1. SpfOK /\ Root \in Names /\ spf[Root] # NoRecord
  BY DnsAssumption DEF DnsInit, SpfOK
<1>2. Links(spf[Root]) \in Seq(Names) /\ spf[Root].plain \in Nat
  BY <1>1, RecordIs
<1>3. call \in Call /\ call.todo = Links(spf[Root])
  BY <1>1, <1>2 DEF Call
<1>4. <<>> \in Seq(Call) /\ stack = Append(<<>>, call) /\ stack \in Seq(Call)
  <2>1. stack = <<call>>
    BY DEF DnsInit
  <2>. HIDE DEF call
  <2>. QED
    BY <1>3, <2>1
<1>5. seen = {Root} /\ count = spf[Root].plain /\ cut = FALSE
  BY DEF DnsInit
<1>. HIDE DEF call
<1>6. Pending(stack) = Len(Links(spf[Root]))
  <2>1. Pending(Append(<<>>, call)) = Len(call.todo) + Pending(<<>>)
    BY <1>3, <1>4, PendingAppend
  <2>2. Len(call.todo) \in Nat
    BY <1>2, <1>3
  <2>. QED
    BY <1>3, <1>4, <2>1, <2>2, PendingEmpty
<1>7. Sum(CostOf, {Root}) = Cost(Root)
  <2>1. CostOf[Root] = Cost(Root) /\ Cost(Root) \in Nat
    BY <1>1, CostIsNat
  <2>. QED
    BY <2>1, SumSingle
<1>8. count + Pending(stack) = Sum(CostOf, seen)
  BY <1>1, <1>5, <1>6, <1>7 DEF Cost
<1>9. \A x : Wanted(stack, x) <=> x \in Targets({Root})
  <2>. SUFFICES ASSUME NEW x PROVE Wanted(stack, x) <=> x \in Targets({Root})
    OBVIOUS
  <2>1. ~Wanted(<<>>, x)
    BY DEF Wanted
  <2>2. Wanted(stack, x) <=> \E j \in 1..Len(call.todo) : call.todo[j] = x
    <3>1. Wanted(Append(<<>>, call), x) <=>
            Wanted(<<>>, x) \/ \E j \in 1..Len(call.todo) : call.todo[j] = x
      <4>1. PICK none : none = <<>>
        OBVIOUS
      <4>2. none \in Seq(Call) /\ call \in Call
        BY <1>3, <1>4, <4>1
      <4>. HIDE DEF Call
      <4>3. Wanted(Append(none, call), x) <=>
              Wanted(none, x) \/ \E j \in 1..Len(call.todo) : call.todo[j] = x
        BY <4>2, WantedAppend
      <4>. QED
        BY <4>1, <4>3, Zenon
    <3>. QED
      BY <1>3, <1>4, <2>1, <3>1, Zenon
  <2>3. x \in Targets({Root}) <=> \E i \in 1..Len(Links(spf[Root])) : x = Links(spf[Root])[i]
    BY <1>1, TargetIs
  <2>. QED
    BY <1>3, <2>2, <2>3
<1>10. Root \in Reached /\ Targets(Reached) \subseteq Reached
  BY <1>1, ReachedIs
<1>11. Targets({Root}) \subseteq Targets(Reached)
  BY <1>10, TargetIs
<1>. QED
  BY <1>1, <1>2, <1>4, <1>5, <1>8, <1>9, <1>10, <1>11 DEF DnsInv

\* One more name.
LEMMA SumOneMore ==
  ASSUME SpfOK, NEW S, S \subseteq Names, NEW n \in Names, n \notin S
  PROVE  /\ Sum(CostOf, S \cup {n}) = Cost(n) + Sum(CostOf, S)
         /\ Sum(CostOf, S) \in Nat
<1>1. PICK more : more = S \cup {n}
  OBVIOUS
<1>2. IsFiniteSet(more) /\ IsFiniteSet(S)
  BY <1>1, FS_Subset, DnsAssumption
<1>3. Weights(CostOf, more) /\ Weights(CostOf, S) /\ CostOf[n] = Cost(n)
  BY <1>1, CostIsNat DEF Weights
<1>4. n \in more /\ more \ {n} = S
  BY <1>1
<1>5. Sum(CostOf, more) = CostOf[n] + Sum(CostOf, more \ {n})
  BY <1>2, <1>3, <1>4, SumAny
<1>. QED
  BY <1>1, <1>2, <1>3, <1>4, <1>5, SumNat, Zenon

\* The notions above depend on nothing but the records.
LEMMA SameRecords ==
  ASSUME UNCHANGED spf
  PROVE  /\ SpfOK' <=> SpfOK
         /\ CostOf' = CostOf /\ Reached' = Reached
         /\ \A S : Targets(S)' = Targets(S)
<1>1. \A n : Cost(n)' = Cost(n)
  BY DEF Cost
<1>2. CostOf' = CostOf
  BY <1>1 DEF CostOf
<1>3. Reached' = Reached
  BY DEF Reached, Targets
<1>. QED
  BY <1>2, <1>3 DEF SpfOK, Targets

\* What following a term leaves of the terms to follow, before a record is read.
LEMMA FollowParts ==
  ASSUME DnsInv, FollowLink
  PROVE  \E n \in Names, rest \in Seq(Call) :
           /\ Pending(stack) = Pending(rest) + 1
           /\ \A x : Wanted(stack, x) => x = n \/ Wanted(rest, x)
           /\ \A x : Wanted(rest, x) => x \in Reached
           /\ n \in Reached
           /\ count' = count + CostOfLink(n)
           /\ seen' = IF Visits(n) THEN seen \cup {n} ELSE seen
           /\ cut' = (cut \/ (n \notin seen /\ TooDeep))
           /\ stack' = IF Visits(n) /\ spf[n] # NoRecord
                         THEN Append(rest, [name |-> n, todo |-> Links(spf[n])]) ELSE rest
<1>. DEFINE n == Head(stack[Len(stack)].todo)
            rest == [stack EXCEPT ![Len(stack)].todo = Tail(@)]
<1>1. stack \in Seq(Call) /\ stack # <<>> /\ stack[Len(stack)].todo # <<>>
  BY DEF DnsInv, FollowLink
<1>2. /\ count' = count + CostOfLink(n)
      /\ seen' = IF Visits(n) THEN seen \cup {n} ELSE seen
      /\ cut' = (cut \/ (n \notin seen /\ TooDeep))
      /\ stack' = IF Visits(n) /\ spf[n] # NoRecord
                    THEN Append(rest, [name |-> n, todo |-> Links(spf[n])]) ELSE rest
  BY Zenon DEF FollowLink
<1>3. /\ rest \in Seq(Call) /\ n \in Names
      /\ Pending(stack) = Pending(rest) + 1
      /\ \A x : Wanted(stack, x) => x = n \/ Wanted(rest, x)
      /\ \A x : Wanted(rest, x) => Wanted(stack, x)
      /\ Wanted(stack, n)
  BY <1>1, TermFollowed, Zenon
<1>4. n \in Reached /\ \A x : Wanted(rest, x) => x \in Reached
  BY <1>3, Zenon DEF DnsInv
<1>. HIDE DEF n, rest
<1>. QED
  BY <1>2, <1>3, <1>4, Zenon

LEMMA FollowKeeps == DnsInv /\ FollowLink => DnsInv'
<1>. SUFFICES ASSUME DnsInv, FollowLink PROVE DnsInv'
  OBVIOUS
<1>. DEFINE call(m) == [name |-> m, todo |-> Links(spf[m])]
<1>1. PICK n \in Names, rest \in Seq(Call) :
           /\ Pending(stack) = Pending(rest) + 1
           /\ \A x : Wanted(stack, x) => x = n \/ Wanted(rest, x)
           /\ \A x : Wanted(rest, x) => x \in Reached
           /\ n \in Reached
           /\ count' = count + CostOfLink(n)
           /\ seen' = IF Visits(n) THEN seen \cup {n} ELSE seen
           /\ cut' = (cut \/ (n \notin seen /\ TooDeep))
           /\ stack' = IF Visits(n) /\ spf[n] # NoRecord THEN Append(rest, call(n)) ELSE rest
  BY FollowParts
<1>2. /\ SpfOK /\ seen \subseteq Names /\ Root \in seen /\ count \in Nat /\ cut \in BOOLEAN
      /\ count + Pending(stack) = Sum(CostOf, seen) /\ seen \subseteq Reached
      /\ ~cut => \A x \in Targets(seen) : x \in seen \/ Wanted(stack, x)
  BY DEF DnsInv
<1>3. SpfOK' /\ CostOf' = CostOf /\ Reached' = Reached /\ \A S : Targets(S)' = Targets(S)
  <2>1. UNCHANGED spf
    BY DEF FollowLink
  <2>. QED
    BY <1>2, <2>1, SameRecords
<1>4. CASE Visits(n) /\ spf[n] # NoRecord
  <2>1. Links(spf[n]) \in Seq(Names) /\ spf[n].plain \in Nat
    BY <1>2, <1>4, RecordIs
  <2>2. call(n) \in Call /\ call(n).todo = Links(spf[n])
    BY <1>1, <2>1 DEF Call
  <2>3. /\ count' = count + (1 + spf[n].plain) /\ seen' = seen \cup {n} /\ n \notin seen
        /\ cut' = cut /\ stack' = Append(rest, call(n))
    <3>1. CostOfLink(n) = 1 + spf[n].plain
      BY <1>4 DEF CostOfLink
    <3>2. n \notin seen /\ ~TooDeep
      BY <1>4 DEF Visits
    <3>. HIDE DEF call
    <3>. QED
      BY <1>1, <1>2, <1>4, <3>1, <3>2
  <2>. HIDE DEF call
  <2>4. Pending(stack') = Len(Links(spf[n])) + Pending(rest) /\ Pending(rest) \in Nat
    BY <1>1, <2>2, <2>3, PendingAppend, LengthsAre
  <2>5. \A x : Wanted(stack', x) <=> Wanted(rest, x) \/ x \in Targets({n})
    <3>. SUFFICES ASSUME NEW x PROVE Wanted(stack', x) <=> Wanted(rest, x) \/ x \in Targets({n})
      OBVIOUS
    <3>1. Wanted(stack', x) <=> Wanted(rest, x) \/ \E j \in 1..Len(call(n).todo) : call(n).todo[j] = x
      BY <1>1, <2>2, <2>3, WantedAppend
    <3>2. x \in Targets({n}) <=> \E i \in 1..Len(Links(spf[n])) : x = Links(spf[n])[i]
      BY <1>4, TargetIs
    <3>. QED
      BY <2>2, <3>1, <3>2
  <2>6. Sum(CostOf, seen') = Cost(n) + Sum(CostOf, seen)
    BY <1>1, <1>2, <2>3, SumOneMore
  <2>7. Sum(CostOf, seen) \in Nat
    BY <1>1, <1>2, SumOneMore, <2>3
  <2>8. Cost(n) = spf[n].plain + Len(Links(spf[n])) /\ Len(Links(spf[n])) \in Nat
    BY <1>4, <2>1 DEF Cost
  <2>9. count' + Pending(stack') = Sum(CostOf, seen') /\ count' \in Nat
    <3>1. PICK p, q : p = Pending(stack) /\ q = Pending(stack')
      OBVIOUS
    <3>2. PICK r \in Nat : r = Pending(rest)
      BY <2>4
    <3>3. PICK l \in Nat : l = Len(Links(spf[n]))
      BY <2>8
    <3>4. PICK c \in Nat : c = spf[n].plain
      BY <2>1
    <3>5. PICK t \in Nat : t = Sum(CostOf, seen)
      BY <2>7
    <3>6. p = r + 1 /\ q = l + r /\ count + p = t
      BY <1>1, <1>2, <2>4, <3>1, <3>2, <3>3, <3>5
    <3>7. count' = count + (1 + c) /\ Sum(CostOf, seen') = (c + l) + t
      BY <2>3, <2>6, <2>8, <3>3, <3>4, <3>5
    <3>8. count' + q = (c + l) + t /\ count' \in Nat
      BY <1>2, <3>6, <3>7
    <3>. QED
      BY <3>1, <3>7, <3>8
  <2>10. stack' \in Seq(Call)
    BY <1>1, <2>2, <2>3
  <2>11. \A x : Wanted(stack', x) => x \in Reached
    <3>1. Targets({n}) \subseteq Reached
      BY <1>1, <1>2, ReachedIs, TargetIs
    <3>. QED
      BY <1>1, <2>5, <3>1
  <2>12. ~cut' => \A x \in Targets(seen') : x \in seen' \/ Wanted(stack', x)
    <3>1. \A x \in Targets(seen') : x \in Targets(seen) \/ x \in Targets({n})
      BY <2>3, TargetIs
    <3>. QED
      BY <1>1, <1>2, <2>3, <2>5, <3>1
  <2>. QED
    BY <1>1, <1>2, <1>3, <2>3, <2>9, <2>10, <2>11, <2>12 DEF DnsInv
<1>5. CASE Visits(n) /\ spf[n] = NoRecord
  <2>1. /\ count' = count + 1 /\ seen' = seen \cup {n} /\ n \notin seen
        /\ cut' = cut /\ stack' = rest
    BY <1>1, <1>2, <1>5 DEF Visits, CostOfLink
  <2>2. Pending(rest) \in Nat
    BY <1>1, LengthsAre
  <2>3. Sum(CostOf, seen') = Cost(n) + Sum(CostOf, seen) /\ Sum(CostOf, seen) \in Nat
    BY <1>1, <1>2, <2>1, SumOneMore
  <2>4. Cost(n) = 0
    BY <1>5 DEF Cost
  <2>5. count' + Pending(stack') = Sum(CostOf, seen') /\ count' \in Nat
    BY <1>1, <1>2, <2>1, <2>2, <2>3, <2>4
  <2>6. ~cut' => \A x \in Targets(seen') : x \in seen' \/ Wanted(stack', x)
    <3>1. \A x \in Targets(seen') : x \in Targets(seen)
      BY <1>5, <2>1, TargetIs
    <3>. QED
      BY <1>1, <1>2, <2>1, <3>1
  <2>. QED
    BY <1>1, <1>2, <1>3, <2>1, <2>5, <2>6 DEF DnsInv
<1>6. CASE ~Visits(n)
  <2>1. count' = count + 1 /\ seen' = seen /\ stack' = rest
    BY <1>1, <1>6 DEF CostOfLink
  <2>2. Pending(rest) \in Nat
    BY <1>1, LengthsAre
  <2>3. count' + Pending(stack') = Sum(CostOf, seen') /\ count' \in Nat
    <3>1. PICK p : p = Pending(stack)
      OBVIOUS
    <3>2. PICK r \in Nat : r = Pending(rest)
      BY <2>2
    <3>3. p = r + 1 /\ count + p = Sum(CostOf, seen)
      BY <1>1, <1>2, <3>1, <3>2
    <3>4. count' + r = count + p /\ count' \in Nat
      BY <1>2, <2>1, <3>3
    <3>. QED
      BY <2>1, <3>2, <3>3, <3>4
  <2>4. ~cut' => ~cut /\ n \in seen
    BY <1>1, <1>2, <1>6 DEF Visits
  <2>5. ~cut' => \A x \in Targets(seen') : x \in seen' \/ Wanted(stack', x)
    BY <1>1, <1>2, <2>1, <2>4
  <2>6. cut' \in BOOLEAN
    BY <1>1
  <2>. QED
    BY <1>1, <1>2, <1>3, <2>1, <2>3, <2>5, <2>6 DEF DnsInv
<1>. QED
  BY <1>4, <1>5, <1>6

LEMMA ReturnKeeps == DnsInv /\ ReturnCall => DnsInv'
<1>. SUFFICES ASSUME DnsInv, ReturnCall PROVE DnsInv'
  OBVIOUS
<1>1. /\ stack \in Seq(Call) /\ stack # <<>> /\ stack[Len(stack)].todo = <<>>
      /\ stack' = SubSeq(stack, 1, Len(stack) - 1)
      /\ UNCHANGED <<spf, seen, count, cut>>
  BY DEF DnsInv, ReturnCall
<1>2. PICK front \in Seq(Call) : /\ front = SubSeq(stack, 1, Len(stack) - 1)
                                 /\ Len(front) = Len(stack) - 1
                                 /\ \A i \in 1..Len(front) : front[i] = stack[i]
  BY <1>1, FrontIs
<1>3. Pending(stack) = Pending(front)
  <2>1. Pending(stack) = Len(stack[Len(stack)].todo) + Pending(front)
    BY <1>1, <1>2, PendingOfLast
  <2>2. Len(stack[Len(stack)].todo) = 0 /\ Pending(front) \in Nat
    BY <1>1, <1>2, LengthsAre
  <2>. QED
    BY <2>1, <2>2
<1>4. \A x : Wanted(stack, x) <=> Wanted(front, x)
  <2>. SUFFICES ASSUME NEW x PROVE Wanted(stack, x) <=> Wanted(front, x)
    OBVIOUS
  <2>1. Len(stack) \in Nat /\ Len(stack) >= 1
    BY <1>1
  <2>2. ASSUME Wanted(stack, x) PROVE Wanted(front, x)
    <3>1. PICK i \in 1..Len(stack) : \E j \in 1..Len(stack[i].todo) : stack[i].todo[j] = x
      BY <2>2 DEF Wanted
    <3>2. i # Len(stack)
      <4>1. 1..Len(<<>>) = {}
        OBVIOUS
      <4>. QED
        BY <1>1, <3>1, <4>1
    <3>3. i \in 1..Len(front) /\ front[i] = stack[i]
      BY <1>2, <2>1, <3>2
    <3>. QED
      BY <3>1, <3>3 DEF Wanted
  <2>3. ASSUME Wanted(front, x) PROVE Wanted(stack, x)
    <3>1. PICK i \in 1..Len(front) : \E j \in 1..Len(front[i].todo) : front[i].todo[j] = x
      BY <2>3 DEF Wanted
    <3>2. i \in 1..Len(stack) /\ front[i] = stack[i]
      BY <1>2, <2>1
    <3>. QED
      BY <3>1, <3>2 DEF Wanted
  <2>. QED
    BY <2>2, <2>3
<1>5. SpfOK' /\ CostOf' = CostOf /\ Reached' = Reached /\ \A S : Targets(S)' = Targets(S)
  BY <1>1, SameRecords DEF DnsInv
<1>6. stack' = front /\ seen' = seen /\ count' = count /\ cut' = cut
  BY <1>1, <1>2
<1>. QED
  BY <1>2, <1>3, <1>4, <1>5, <1>6 DEF DnsInv

LEMMA DnsKept == DnsInv /\ [DnsNext]_dnsVars => DnsInv'
<1>. SUFFICES ASSUME DnsInv, [DnsNext]_dnsVars PROVE DnsInv'
  OBVIOUS
<1>1. CASE FollowLink
  BY <1>1, FollowKeeps
<1>2. CASE ReturnCall
  BY <1>2, ReturnKeeps
<1>3. CASE UNCHANGED dnsVars
  <2>1. SpfOK' /\ CostOf' = CostOf /\ Reached' = Reached /\ \A S : Targets(S)' = Targets(S)
    BY <1>3, SameRecords DEF DnsInv, dnsVars
  <2>. QED
    BY <1>3, <2>1 DEF DnsInv, dnsVars
<1>. QED
  BY <1>1, <1>2, <1>3 DEF DnsNext

LEMMA TermsCountedOnce == DnsInv => EachTermOnce
<1>. SUFFICES ASSUME DnsInv, stack = <<>>
              PROVE  count = MapThenSumSet(Cost, seen) /\ (~cut => seen = Reached)
  BY DEF EachTermOnce, Counted
<1>1. IsFiniteSet(seen) /\ seen \subseteq Names
  BY FS_Subset, DnsAssumption DEF DnsInv
<1>2. count = Sum(CostOf, seen)
  BY PendingEmpty DEF DnsInv
<1>3. \A x : ~Wanted(stack, x)
  BY DEF Wanted
<1>4. ASSUME ~cut PROVE seen = Reached
  <2>1. Targets(seen) \subseteq seen
    BY <1>3, <1>4 DEF DnsInv
  <2>. QED
    BY <2>1, ReachedIs DEF DnsInv
<1>. QED
  BY <1>1, <1>2, <1>4, CostIs

LEMMA PointsAre ==
  ASSUME NEW rec, NEW n \in Nat
  PROVE  SpfPoints(rec, n) \in {0, 15, 25} /\ (n > 10 => SpfPoints(rec, n) = 0)
<1>1. n > 10 => "over limit" \in SpfIssues(rec, n)
  BY DEF SpfIssues
<1>2. n > 10 => SpfIssues(rec, n) # {}
  BY <1>1
<1>. QED
  BY <1>2 DEF SpfPoints

LEMMA DmarcPointsAre ==
  ASSUME NEW f \in Facts
  PROVE  DmarcPoints(f.dmarc) \in {0, 10, 18, 30} /\ (f.dmarc = NoRecord => DmarcPoints(f.dmarc) = 0)
<1>1. f.dmarc = NoRecord => DmarcPoints(f.dmarc) = 0
  BY DEF DmarcPoints
<1>2. CASE f.dmarc # NoRecord
  <2>1. f.dmarc.policy \in {"missing", "none", "quarantine", "reject"} /\ f.dmarc.rua \in BOOLEAN
    BY <1>2 DEF Facts
  <2>. QED
    BY <1>2, <2>1 DEF DmarcPoints
<1>. QED
  BY <1>1, <1>2

LEMMA OverflowFails == DnsInv => OverflowIsFailed
<1>. SUFFICES ASSUME DnsInv PROVE OverflowIsFailed
  OBVIOUS
<1>1. count \in Nat
  BY DEF DnsInv
<1>2. ASSUME NEW f \in Facts, Grade(Health(f, spf[Root], count)) = "A"
      PROVE  f.dmarc # NoRecord /\ f.dkim /\ count <= 10
  <2>1. PICK s \in {0, 15, 25} : s = SpfPoints(spf[Root], count) /\ (count > 10 => s = 0)
    BY <1>1, PointsAre
  <2>2. PICK d \in {0, 10, 18, 30} : d = DmarcPoints(f.dmarc) /\ (f.dmarc = NoRecord => d = 0)
    BY DmarcPointsAre
  <2>3. PICK m \in {0, 5} : m = IF f.mx THEN 5 ELSE 0
    OBVIOUS
  <2>4. PICK k \in {0, 25} : k = (IF f.dkim THEN 25 ELSE 0) /\ (~f.dkim => k = 0)
    OBVIOUS
  <2>5. PICK x \in 0..3 : x = f.extras
    BY DEF Facts
  <2>6. Health(f, spf[Root], count) = m + s + d + k + 5 * x
    BY <2>1, <2>2, <2>3, <2>4, <2>5 DEF Health
  <2>7. m + s + d + k + 5 * x >= 85
    <3>. DEFINE t == m + s + d + k + 5 * x
    <3>1. t \in Nat /\ Grade(t) = "A"
      BY <1>2, <2>6
    <3>. HIDE DEF t
    <3>2. t >= 85
      BY <3>1 DEF Grade
    <3>. QED
      BY <3>2 DEF t
  <2>8. s # 0 /\ d # 0 /\ k # 0
    BY <2>7
  <2>. QED
    BY <1>1, <2>1, <2>2, <2>4, <2>8
<1>. QED
  BY <1>1, <1>2, PointsAre DEF OverflowIsFailed

----------------------------------------------------------------------------
(***************************************************************************)
(* The cost of evaluating each reference anew.                             *)
(***************************************************************************)

TermsOf(n) == IF spf[n] = NoRecord THEN {} ELSE 1..Len(Links(spf[n]))
Shares(cost, n) == [j \in TermsOf(n) |-> cost[Links(spf[n])[j]]]
Costs == [Names -> Nat]

LEMMA SharesAre ==
  ASSUME SpfOK, NEW n \in Names, NEW cost \in Costs
  PROVE  /\ IsFiniteSet(TermsOf(n)) /\ Weights(Shares(cost, n), TermsOf(n))
         /\ Sum(Shares(cost, n), TermsOf(n)) \in Nat
         /\ \A j \in TermsOf(n) : /\ Links(spf[n])[j] \in Names
                                  /\ Shares(cost, n)[j] = cost[Links(spf[n])[j]]
<1>1. IsFiniteSet(TermsOf(n)) /\ \A j \in TermsOf(n) : Links(spf[n])[j] \in Names
  <2>1. CASE spf[n] = NoRecord
    BY <2>1, FS_EmptySet DEF TermsOf
  <2>2. CASE spf[n] # NoRecord
    <3>1. Links(spf[n]) \in Seq(Names)
      BY <2>2, RecordIs
    <3>2. Len(Links(spf[n])) \in Nat /\ 1 \in Int
      BY <3>1
    <3>3. TermsOf(n) = 1..Len(Links(spf[n]))
      BY <2>2 DEF TermsOf
    <3>4. IsFiniteSet(1..Len(Links(spf[n])))
      BY <3>2, FS_Interval
    <3>. QED
      BY <3>1, <3>3, <3>4
  <2>. QED
    BY <2>1, <2>2
<1>2. \A j \in TermsOf(n) : Shares(cost, n)[j] = cost[Links(spf[n])[j]]
  BY DEF Shares
<1>3. Weights(Shares(cost, n), TermsOf(n))
  BY <1>1, <1>2 DEF Weights, Costs
<1>. QED
  BY <1>1, <1>2, <1>3, SumNat

LEMMA BehindIs ==
  ASSUME SpfOK, NEW n \in Names, spf[n] # NoRecord, NEW cost \in Costs
  PROVE  Behind(cost, n) = Sum(Shares(cost, n), TermsOf(n))
<1>. DEFINE w == Shares(cost, n)
            K == 1..Len(Links(spf[n]))
            Eq(g) == g = [s \in SUBSET K |-> IF s = {} THEN 0 ELSE
                            cost[Links(spf[n])[CHOOSE x \in s : TRUE]] + g[s \ {CHOOSE x \in s : TRUE}]]
            it == CHOOSE g : Eq(g)
<1>0. K = TermsOf(n)
  BY DEF TermsOf
<1>1. Behind(cost, n) = it[K]
  BY DEF Behind, MapThenSumSet, MapThenFoldSet
<1>2. ASSUME NEW g PROVE Adds(w, K, g) <=> Eq(g)
  <2>. DEFINE A(s) == IF s = {} THEN 0 ELSE w[First(s)] + g[s \ {First(s)}]
              B(s) == IF s = {} THEN 0 ELSE
                        cost[Links(spf[n])[CHOOSE x \in s : TRUE]] + g[s \ {CHOOSE x \in s : TRUE}]
  <2>1. ASSUME NEW s \in SUBSET K PROVE A(s) = B(s)
    <3>1. CASE s = {}
      BY <3>1
    <3>2. CASE s # {}
      <4>1. First(s) \in s /\ First(s) = CHOOSE x \in s : TRUE
        BY <3>2, FirstIsIn DEF First
      <4>2. w[First(s)] = cost[Links(spf[n])[First(s)]]
        BY <1>0, <4>1, SharesAre
      <4>. HIDE DEF w
      <4>. QED
        BY <3>2, <4>1, <4>2
    <3>. QED
      BY <3>1, <3>2
  <2>2. [s \in SUBSET K |-> A(s)] = [s \in SUBSET K |-> B(s)]
    <3>. HIDE DEF A, B
    <3>. QED
      BY <2>1
  <2>. QED
    BY <2>2 DEF Adds
<1>3. \E g : Adds(w, K, g)
  <2>1. IsFiniteSet(K)
    BY <1>0, SharesAre
  <2>. HIDE DEF K, w
  <2>. QED
    BY <2>1, SumExists
<1>4. Eq(it)
  <2>. HIDE DEF Eq
  <2>1. \E g : Eq(g)
    BY <1>2, <1>3
  <2>. QED
    BY <2>1
<1>. HIDE DEF Eq, it
<1>5. Adds(w, K, it)
  BY <1>2, <1>4
<1>6. it[K] = Sum(w, K)
  <2>1. IsFiniteSet(K)
    BY <1>0, SharesAre
  <2>. HIDE DEF K, w
  <2>. QED
    BY <1>5, <2>1, SumIsSolution
<1>. QED
  BY <1>0, <1>1, <1>6

\* The costs that Evaluated is defined by, up to each depth.
Evaluates(e) ==
  /\ \A n \in Names : e[0][n] = 0
  /\ \A i \in Nat : e[i] \in Costs
  /\ \A i \in Nat, n \in Names :
       e[i + 1][n] = Cost(n) + Sum(Shares(e[i], n), TermsOf(n))

LEMMA EvaluatedBySteps ==
  ASSUME SpfOK
  PROVE  \E e : Evaluated = e[Cardinality(Names)][Root] /\ Evaluates(e)
<1>. DEFINE none == [n \in Names |-> 0]
            Next1(cost) == [n \in Names |-> IF spf[n] = NoRecord THEN 0 ELSE Cost(n) + Behind(cost, n)]
            F == [cost \in Costs |-> Next1(cost)]
            Eq(f) == f = [i \in Nat |->
                            IF i = 0 THEN [n \in Names |-> 0]
                            ELSE [n \in Names |-> IF spf[n] = NoRecord THEN 0
                                                  ELSE Cost(n) + Behind(f[i - 1], n)]]
            e == CHOOSE f : Eq(f)
<1>1. Evaluated = e[Cardinality(Names)][Root]
  BY DEF Evaluated
<1>2. ASSUME NEW cost \in Costs, NEW n \in Names
      PROVE  Next1(cost)[n] = Cost(n) + Sum(Shares(cost, n), TermsOf(n)) /\ Next1(cost)[n] \in Nat
  <2>1. Cost(n) \in Nat /\ Sum(Shares(cost, n), TermsOf(n)) \in Nat
    BY CostIsNat, SharesAre
  <2>2. CASE spf[n] = NoRecord
    <3>1. Cost(n) = 0
      BY <2>2 DEF Cost
    <3>2. TermsOf(n) = {}
      BY <2>2 DEF TermsOf
    <3>3. Sum(Shares(cost, n), TermsOf(n)) = 0
      BY <3>2, SumEmpty
    <3>. QED
      BY <2>2, <3>1, <3>3
  <2>3. CASE spf[n] # NoRecord
    <3>1. Behind(cost, n) = Sum(Shares(cost, n), TermsOf(n))
      BY <2>3, BehindIs
    <3>. QED
      BY <2>1, <2>3, <3>1
  <2>. QED
    BY <2>2, <2>3
<1>3. \A cost \in Costs : F[cost] = Next1(cost) /\ F[cost] \in Costs
  BY <1>2 DEF Costs
<1>4. PICK g : Recursive(F, none, g)
  <2>. HIDE DEF F, none
  <2>. QED
    BY RecursionExists
<1>. HIDE DEF F, Next1
<1>5. \A i \in Nat : g[i] = IF i = 0 THEN none ELSE F[g[i - 1]]
  BY <1>4 DEF Recursive
<1>6. \A i \in Nat : g[i] \in Costs
  <2>. DEFINE Good == {i \in Nat : g[i] \in Costs}
  <2>1. 0 \in Good
    BY <1>5 DEF Costs
  <2>2. ASSUME NEW i \in Nat, i \in Good PROVE i + 1 \in Good
    <3>1. i + 1 \in Nat /\ i + 1 # 0 /\ (i + 1) - 1 = i
      OBVIOUS
    <3>2. g[i + 1] = F[g[i]]
      BY <1>5, <3>1
    <3>. QED
      BY <1>3, <2>2, <3>2
  <2>. HIDE DEF Good
  <2>3. Nat \subseteq Good
    BY <2>1, <2>2, Counting
  <2>. QED
    BY <2>3 DEF Good
<1>7. Eq(g)
  <2>. DEFINE A(i) == IF i = 0 THEN none ELSE F[g[i - 1]]
              B(i) == IF i = 0 THEN none ELSE Next1(g[i - 1])
  <2>1. ASSUME NEW i \in Nat PROVE A(i) = B(i)
    <3>1. i # 0 => i - 1 \in Nat
      OBVIOUS
    <3>. QED
      BY <1>3, <1>6, <3>1
  <2>2. g = [i \in Nat |-> A(i)]
    BY <1>4 DEF Recursive
  <2>3. [i \in Nat |-> A(i)] = [i \in Nat |-> B(i)]
    <3>. HIDE DEF A, B
    <3>. QED
      BY <2>1
  <2>4. g = [i \in Nat |-> B(i)]
    BY <2>2, <2>3
  <2>. QED
    BY <2>4, Zenon DEF Next1
<1>8. Eq(e)
  <2>1. \E f : Eq(f)
    BY <1>7
  <2>. HIDE DEF Eq
  <2>. QED
    BY <2>1
<1>9. \A i \in Nat : e[i] = IF i = 0 THEN none ELSE Next1(e[i - 1])
  <2>. HIDE DEF e
  <2>1. e = [i \in Nat |-> IF i = 0 THEN none ELSE Next1(e[i - 1])]
    BY <1>8, Zenon DEF Next1
  <2>. QED
    BY <2>1
<1>. HIDE DEF e, Eq
<1>10. e[0] = none /\ \A i \in Nat : e[i + 1] = Next1(e[i])
  <2>1. \A i \in Nat : i + 1 \in Nat /\ i + 1 # 0 /\ (i + 1) - 1 = i
    OBVIOUS
  <2>. HIDE DEF none
  <2>2. ASSUME NEW i \in Nat PROVE e[i + 1] = Next1(e[i])
    BY <1>9, <2>1
  <2>. QED
    BY <1>9, <2>2
<1>11. \A i \in Nat : e[i] \in Costs
  <2>. DEFINE Good == {i \in Nat : e[i] \in Costs}
  <2>1. 0 \in Good
    BY <1>10 DEF Costs
  <2>2. ASSUME NEW i \in Nat, i \in Good PROVE i + 1 \in Good
    BY <1>3, <1>10, <2>2
  <2>. HIDE DEF Good
  <2>3. Nat \subseteq Good
    BY <2>1, <2>2, Counting
  <2>. QED
    BY <2>3 DEF Good
<1>12. ASSUME NEW i \in Nat, NEW n \in Names
       PROVE  e[i + 1][n] = Cost(n) + Sum(Shares(e[i], n), TermsOf(n))
  BY <1>2, <1>10, <1>11
<1>13. \A n \in Names : e[0][n] = 0
  BY <1>10
<1>. QED
  BY <1>1, <1>11, <1>12, <1>13 DEF Evaluates

\* A greater depth, a greater cost.
LEMMA CostsGrow ==
  ASSUME SpfOK, NEW e, Evaluates(e)
  PROVE  \A i \in Nat : \A n \in Names : e[i][n] <= e[i + 1][n]
<1>. DEFINE Good == {i \in Nat : \A n \in Names : e[i][n] <= e[i + 1][n]}
<1>1. 0 \in Good
  <2>1. ASSUME NEW n \in Names PROVE e[0][n] <= e[1][n]
    <3>1. 1 \in Nat /\ e[1] \in Costs
      BY DEF Evaluates
    <3>2. e[1][n] \in Nat
      BY <3>1 DEF Costs
    <3>. QED
      BY <3>2 DEF Evaluates
  <2>. QED
    BY <2>1
<1>2. ASSUME NEW i \in Nat, i \in Good PROVE i + 1 \in Good
  <2>1. PICK k \in Nat : k = i + 1
    OBVIOUS
  <2>2. ASSUME NEW n \in Names PROVE e[k][n] <= e[k + 1][n]
    <3>1. e[i] \in Costs /\ e[k] \in Costs
      BY DEF Evaluates
    <3>2. PICK w, v, S : w = Shares(e[i], n) /\ v = Shares(e[k], n) /\ S = TermsOf(n)
      OBVIOUS
    <3>3. IsFiniteSet(S) /\ Weights(w, S) /\ Weights(v, S)
      BY <3>1, <3>2, SharesAre
    <3>4. \A j \in S : w[j] <= v[j]
      <4>1. ASSUME NEW j \in S PROVE w[j] <= v[j]
        <5>1. /\ Links(spf[n])[j] \in Names
              /\ w[j] = e[i][Links(spf[n])[j]] /\ v[j] = e[k][Links(spf[n])[j]]
          BY <3>1, <3>2, SharesAre
        <5>. QED
          BY <1>2, <2>1, <5>1
      <4>. QED
        BY <4>1
    <3>5. Sum(w, S) <= Sum(v, S) /\ Sum(w, S) \in Nat /\ Sum(v, S) \in Nat
      BY <3>3, <3>4, SumLess, SumNat
    <3>6. Cost(n) \in Nat
      BY CostIsNat
    <3>7. e[k][n] = Cost(n) + Sum(w, S) /\ e[k + 1][n] = Cost(n) + Sum(v, S)
      BY <2>1, <3>2 DEF Evaluates
    <3>. QED
      BY <3>5, <3>6, <3>7
  <2>. QED
    BY <2>1, <2>2
<1>. HIDE DEF Good
<1>3. Nat \subseteq Good
  BY <1>1, <1>2, Counting
<1>. QED
  BY <1>3 DEF Good

\* The names met on the way to each depth.
Walks(W) ==
  /\ \A n \in Names : W[0][n] = {}
  /\ \A i \in Nat : W[i] \in [Names -> SUBSET Names]
  /\ \A i \in Nat, n \in Names :
       W[i + 1][n] = {n} \cup UNION {W[i][Links(spf[n])[j]] : j \in TermsOf(n)}

LEMMA TermIsName ==
  ASSUME SpfOK, NEW n \in Names, NEW j \in TermsOf(n)
  PROVE  Links(spf[n])[j] \in Names
<1>1. [m \in Names |-> 0] \in Costs
  BY DEF Costs
<1>. QED
  BY <1>1, SharesAre

LEMMA WalksExist ==
  ASSUME SpfOK
  PROVE  \E W : Walks(W)
<1>. DEFINE Sets == [Names -> SUBSET Names]
            none == [n \in Names |-> {}]
            Next1(X) == [n \in Names |-> {n} \cup UNION {X[Links(spf[n])[j]] : j \in TermsOf(n)}]
            F == [X \in Sets |-> Next1(X)]
<1>1. \A X \in Sets : Next1(X) \in Sets
  <2>. SUFFICES ASSUME NEW X \in Sets, NEW n \in Names
                PROVE  {n} \cup UNION {X[Links(spf[n])[j]] : j \in TermsOf(n)} \subseteq Names
    OBVIOUS
  <2>. QED
    BY TermIsName
<1>2. PICK W : Recursive(F, none, W)
  <2>. HIDE DEF F, none
  <2>. QED
    BY RecursionExists
<1>3. \A X \in Sets : F[X] = Next1(X)
  OBVIOUS
<1>. HIDE DEF F, Next1
<1>4. \A i \in Nat : W[i] = IF i = 0 THEN none ELSE F[W[i - 1]]
  BY <1>2 DEF Recursive
<1>5. W[0] = none /\ \A i \in Nat : W[i + 1] = F[W[i]]
  <2>1. \A i \in Nat : i + 1 \in Nat /\ i + 1 # 0 /\ (i + 1) - 1 = i
    OBVIOUS
  <2>. HIDE DEF none
  <2>2. ASSUME NEW i \in Nat PROVE W[i + 1] = F[W[i]]
    BY <1>4, <2>1
  <2>. QED
    BY <1>4, <2>2
<1>6. \A i \in Nat : W[i] \in Sets
  <2>. DEFINE Good == {i \in Nat : W[i] \in Sets}
  <2>1. 0 \in Good
    BY <1>5
  <2>2. ASSUME NEW i \in Nat, i \in Good PROVE i + 1 \in Good
    BY <1>1, <1>3, <1>5, <2>2
  <2>. HIDE DEF Good
  <2>3. Nat \subseteq Good
    BY <2>1, <2>2, Counting
  <2>. QED
    BY <2>3 DEF Good
<1>7. \A i \in Nat : W[i + 1] = Next1(W[i])
  BY <1>3, <1>5, <1>6
<1>8. \A i \in Nat, n \in Names :
        W[i + 1][n] = {n} \cup UNION {W[i][Links(spf[n])[j]] : j \in TermsOf(n)}
  BY <1>7 DEF Next1
<1>9. \A n \in Names : W[0][n] = {}
  BY <1>5
<1>10. Walks(W)
  BY <1>6, <1>8, <1>9, Zenon DEF Walks
<1>. QED
  BY <1>10

\* Names do not get lost on the way, nor do the names they refer to.
LEMMA WalksGrow ==
  ASSUME SpfOK, NEW W, Walks(W)
  PROVE  \A i \in Nat : \A n \in Names :
           /\ W[i][n] \subseteq W[i + 1][n]
           /\ \A x \in W[i][n] : Targets({x}) \subseteq W[i + 1][n]
<1>. DEFINE Good == {i \in Nat : \A n \in Names :
                       /\ W[i][n] \subseteq W[i + 1][n]
                       /\ \A x \in W[i][n] : Targets({x}) \subseteq W[i + 1][n]}
<1>1. 0 \in Good
  BY DEF Walks
<1>2. ASSUME NEW i \in Nat, i \in Good PROVE i + 1 \in Good
  <2>1. PICK k \in Nat : k = i + 1
    OBVIOUS
  <2>2. ASSUME NEW n \in Names
        PROVE  /\ W[k][n] \subseteq W[k + 1][n]
               /\ \A x \in W[k][n] : Targets({x}) \subseteq W[k + 1][n]
    <3>1. /\ W[k][n] = {n} \cup UNION {W[i][Links(spf[n])[j]] : j \in TermsOf(n)}
          /\ W[k + 1][n] = {n} \cup UNION {W[k][Links(spf[n])[j]] : j \in TermsOf(n)}
      BY <2>1 DEF Walks
    <3>2. ASSUME NEW j \in TermsOf(n), NEW x \in W[i][Links(spf[n])[j]]
          PROVE  x \in W[k + 1][n] /\ Targets({x}) \subseteq W[k + 1][n]
      <4>1. Links(spf[n])[j] \in Names
        BY TermIsName
      <4>2. x \in W[k][Links(spf[n])[j]] /\ Targets({x}) \subseteq W[k][Links(spf[n])[j]]
        BY <1>2, <2>1, <3>2, <4>1
      <4>3. W[k][Links(spf[n])[j]] \subseteq W[k + 1][n]
        BY <3>1
      <4>. QED
        BY <4>2, <4>3
    <3>3. Targets({n}) \subseteq W[k + 1][n]
      <4>. SUFFICES ASSUME NEW y \in Targets({n}) PROVE y \in W[k + 1][n]
        OBVIOUS
      <4>1. spf[n] # NoRecord /\ \E j \in 1..Len(Links(spf[n])) : y = Links(spf[n])[j]
        BY TargetIs
      <4>2. PICK j \in TermsOf(n) : y = Links(spf[n])[j]
        BY <4>1 DEF TermsOf
      <4>3. y \in Names
        BY <4>2, TermIsName
      <4>4. y \in W[k][y]
        BY <2>1, <4>3 DEF Walks
      <4>. QED
        BY <3>1, <4>2, <4>4
    <3>4. ASSUME NEW x \in W[k][n] PROVE x \in W[k + 1][n] /\ Targets({x}) \subseteq W[k + 1][n]
      <4>1. CASE x = n
        BY <3>1, <3>3, <4>1
      <4>2. CASE x # n
        <5>1. \E j \in TermsOf(n) : x \in W[i][Links(spf[n])[j]]
          BY <3>1, <4>2
        <5>. QED
          BY <3>2, <5>1
      <4>. QED
        BY <4>1, <4>2
    <3>. QED
      BY <3>4
  <2>. QED
    BY <2>1, <2>2
<1>. HIDE DEF Good
<1>3. Nat \subseteq Good
  BY <1>1, <1>2, Counting
<1>. QED
  BY <1>3 DEF Good

LEMMA WalksStayIn ==
  ASSUME SpfOK, NEW W, Walks(W), NEW X, X \subseteq Names, Targets(X) \subseteq X
  PROVE  \A i \in Nat : \A n \in X : W[i][n] \subseteq X
<1>. DEFINE Good == {i \in Nat : \A n \in X : W[i][n] \subseteq X}
<1>1. 0 \in Good
  BY DEF Walks
<1>2. ASSUME NEW i \in Nat, i \in Good PROVE i + 1 \in Good
  <2>1. ASSUME NEW n \in X PROVE W[i + 1][n] \subseteq X
    <3>1. \A j \in TermsOf(n) : Links(spf[n])[j] \in X
      BY TargetIs DEF TermsOf
    <3>2. W[i + 1][n] = {n} \cup UNION {W[i][Links(spf[n])[j]] : j \in TermsOf(n)}
      BY DEF Walks
    <3>3. \A j \in TermsOf(n) : W[i][Links(spf[n])[j]] \subseteq X
      BY <1>2, <3>1
    <3>. QED
      BY <3>2, <3>3
  <2>. QED
    BY <2>1
<1>. HIDE DEF Good
<1>3. Nat \subseteq Good
  BY <1>1, <1>2, Counting
<1>. QED
  BY <1>3 DEF Good

\* After as many steps as there are names every name behind the domain is met.
LEMMA WalksMeetAll ==
  ASSUME SpfOK, NEW W, Walks(W)
  PROVE  Reached \subseteq W[Cardinality(Names)][Root]
<1>. DEFINE step == [i \in Nat |-> W[i][Root]]
            Closed == {X \in SUBSET Names : Root \in X /\ Targets(X) \subseteq X}
<1>1. Root \in Names
  BY DnsAssumption
<1>2. ASSUME NEW i \in Nat
      PROVE  /\ step[i] = W[i][Root] /\ step[i + 1] = W[i + 1][Root]
             /\ step[i] \subseteq Names /\ step[i] \subseteq step[i + 1]
             /\ Root \in step[i + 1] /\ \A x \in step[i] : Targets({x}) \subseteq step[i + 1]
  <2>1. step[i] = W[i][Root] /\ step[i + 1] = W[i + 1][Root]
    OBVIOUS
  <2>2. W[i][Root] \subseteq Names /\ Root \in W[i + 1][Root]
    BY <1>1 DEF Walks
  <2>3. /\ W[i][Root] \subseteq W[i + 1][Root]
        /\ \A x \in W[i][Root] : Targets({x}) \subseteq W[i + 1][Root]
    BY <1>1, WalksGrow
  <2>. HIDE DEF step
  <2>. QED
    BY <2>1, <2>2, <2>3
<1>. HIDE DEF step
<1>3. \A i \in Nat : step[i] \notin Closed => step[i + 1] # step[i]
  <2>. SUFFICES ASSUME NEW i \in Nat, step[i + 1] = step[i] PROVE step[i] \in Closed
    OBVIOUS
  <2>1. Root \in step[i] /\ step[i] \subseteq Names
    BY <1>2
  <2>2. Targets(step[i]) \subseteq step[i]
    <3>. SUFFICES ASSUME NEW y \in Targets(step[i]) PROVE y \in step[i]
      OBVIOUS
    <3>1. PICK x \in step[i] : /\ spf[x] # NoRecord
                               /\ \E j \in 1..Len(Links(spf[x])) : y = Links(spf[x])[j]
      BY TargetIs
    <3>2. y \in Targets({x})
      BY <3>1, TargetIs
    <3>. QED
      BY <1>2, <3>1, <3>2
  <2>. QED
    BY <2>1, <2>2
<1>4. \A i \in Nat : step[i] \in Closed => step[i + 1] \in Closed
  <2>. SUFFICES ASSUME NEW i \in Nat, step[i] \in Closed PROVE step[i + 1] \in Closed
    OBVIOUS
  <2>1. Root \in step[i] /\ step[i] \subseteq Names /\ Targets(step[i]) \subseteq step[i]
    OBVIOUS
  <2>2. W[i + 1][Root] \subseteq step[i]
    BY <2>1, WalksStayIn
  <2>3. step[i + 1] = step[i]
    BY <1>2, <2>2
  <2>. QED
    BY <2>3
<1>5. Names \in Closed
  BY <1>1, TargetsAreNames
<1>6. step[Cardinality(Names)] \in Closed
  <2>1. \A i \in Nat : step[i] \subseteq Names /\ step[i] \subseteq step[i + 1]
    BY <1>2
  <2>. HIDE DEF Closed
  <2>. QED
    BY <1>3, <1>4, <1>5, <2>1, GrowsUntilClosed
<1>7. Cardinality(Names) \in Nat
  BY FS_CardinalityType, DnsAssumption
<1>8. step[Cardinality(Names)] = W[Cardinality(Names)][Root]
  BY <1>2, <1>7
<1>9. Reached \subseteq step[Cardinality(Names)]
  BY <1>6, ReachedIs
<1>. QED
  BY <1>8, <1>9

\* The names met cost at most what their evaluation costs.
LEMMA WalksCost ==
  ASSUME SpfOK, NEW W, Walks(W), NEW e, Evaluates(e)
  PROVE  \A i \in Nat : \A n \in Names : Sum(CostOf, W[i][n]) <= e[i][n]
<1>. DEFINE Good == {i \in Nat : \A n \in Names : Sum(CostOf, W[i][n]) <= e[i][n]}
<1>1. 0 \in Good
  <2>1. ASSUME NEW n \in Names PROVE Sum(CostOf, W[0][n]) <= e[0][n]
    <3>1. W[0][n] = {} /\ e[0][n] = 0
      BY DEF Walks, Evaluates
    <3>2. Sum(CostOf, W[0][n]) = 0
      BY <3>1, SumEmpty
    <3>. QED
      BY <3>1, <3>2
  <2>. QED
    BY <2>1
<1>2. ASSUME NEW i \in Nat, i \in Good PROVE i + 1 \in Good
  <2>1. ASSUME NEW n \in Names PROVE Sum(CostOf, W[i + 1][n]) <= e[i + 1][n]
    <3>. DEFINE J == TermsOf(n)
                P == [j \in J |-> W[i][Links(spf[n])[j]]]
                q == Shares(e[i], n)
                U == UNION {P[j] : j \in J}
    <3>1. IsFiniteSet(Names) /\ Weights(CostOf, Names)
      BY DnsAssumption, CostIsNat DEF Weights
    <3>2. e[i] \in Costs /\ W[i] \in [Names -> SUBSET Names]
      BY DEF Evaluates, Walks
    <3>3. IsFiniteSet(J) /\ Weights(q, J) /\ Sum(q, J) \in Nat
      BY <3>2, SharesAre
    <3>4. ASSUME NEW j \in J
          PROVE  P[j] = W[i][Links(spf[n])[j]] /\ P[j] \subseteq Names /\ Sum(CostOf, P[j]) <= q[j]
      <4>1. Links(spf[n])[j] \in Names /\ q[j] = e[i][Links(spf[n])[j]]
        BY <3>2, SharesAre
      <4>2. P[j] = W[i][Links(spf[n])[j]]
        OBVIOUS
      <4>. HIDE DEF P, q
      <4>. QED
        BY <1>2, <3>2, <4>1, <4>2
    <3>. HIDE DEF P, q, J
    <3>5. Sum(CostOf, U) <= Sum(q, J)
      BY <3>1, <3>3, <3>4, UnionsWithin
    <3>6. W[i + 1][n] = {n} \cup U
      <4>1. W[i + 1][n] = {n} \cup UNION {W[i][Links(spf[n])[j]] : j \in J}
        BY DEF Walks, J
      <4>2. {W[i][Links(spf[n])[j]] : j \in J} = {P[j] : j \in J}
        BY <3>4
      <4>. QED
        BY <4>1, <4>2
    <3>7. U \subseteq Names
      BY <3>4
    <3>. HIDE DEF U
    <3>8. PICK A : A = {n}
      OBVIOUS
    <3>9. IsFiniteSet(A) /\ IsFiniteSet(U) /\ Weights(CostOf, A) /\ Weights(CostOf, U)
      BY <3>1, <3>7, <3>8, FS_Subset, FS_Singleton DEF Weights
    <3>10. /\ Sum(CostOf, A \cup U) <= Sum(CostOf, A) + Sum(CostOf, U)
           /\ Sum(CostOf, A) \in Nat /\ Sum(CostOf, U) \in Nat
      BY <3>9, UnionWithin, SumNat
    <3>11. Sum(CostOf, A) = Cost(n)
      <4>1. CostOf[n] = Cost(n) /\ Cost(n) \in Nat
        BY CostIsNat
      <4>. QED
        BY <3>8, <4>1, SumSingle
    <3>12. Sum(CostOf, A \cup U) \in Nat
      <4>1. IsFiniteSet(A \cup U) /\ Weights(CostOf, A \cup U)
        BY <3>9, FS_Union DEF Weights
      <4>. QED
        BY <4>1, SumNat
    <3>13. Sum(CostOf, A \cup U) <= Cost(n) + Sum(q, J)
      BY <3>3, <3>5, <3>10, <3>11, <3>12
    <3>14. e[i + 1][n] = Cost(n) + Sum(q, J)
      BY DEF Evaluates, q, J
    <3>. QED
      BY <3>6, <3>8, <3>13, <3>14
  <2>. QED
    BY <2>1
<1>. HIDE DEF Good
<1>3. Nat \subseteq Good
  BY <1>1, <1>2, Counting
<1>. QED
  BY <1>3 DEF Good

LEMMA EvaluatedIsMore ==
  ASSUME SpfOK
  PROVE  Sum(CostOf, Reached) <= Evaluated
<1>1. PICK e : Evaluated = e[Cardinality(Names)][Root] /\ Evaluates(e)
  BY EvaluatedBySteps
<1>2. PICK W : Walks(W)
  BY WalksExist
<1>3. PICK c \in Nat : c = Cardinality(Names)
  BY FS_CardinalityType, DnsAssumption
<1>4. PICK met : met = W[c][Root]
  OBVIOUS
<1>5. Reached \subseteq met /\ met \subseteq Names
  BY <1>2, <1>3, <1>4, WalksMeetAll, DnsAssumption DEF Walks
<1>6. IsFiniteSet(met) /\ Weights(CostOf, met) /\ IsFiniteSet(Reached) /\ Weights(CostOf, Reached)
  BY <1>5, FS_Subset, DnsAssumption, CostIsNat DEF Weights
<1>7. Sum(CostOf, Reached) <= Sum(CostOf, met) /\ Sum(CostOf, met) \in Nat /\ Sum(CostOf, Reached) \in Nat
  BY <1>5, <1>6, SumWithin, SumNat
<1>8. Sum(CostOf, met) <= e[c][Root]
  BY <1>1, <1>2, <1>4, WalksCost, DnsAssumption
<1>9. e[c][Root] \in Nat
  BY <1>1, DnsAssumption DEF Evaluates, Costs
<1>. QED
  BY <1>1, <1>3, <1>7, <1>8, <1>9

TermCounts(n) == [m \in Reached |-> Cardinality(TermsTo(m, n))]

LEMMA TermsToAre ==
  ASSUME SpfOK, NEW m \in Names, NEW n
  PROVE  /\ TermsTo(m, n) = {j \in TermsOf(m) : Links(spf[m])[j] = n}
         /\ IsFiniteSet(TermsTo(m, n)) /\ Cardinality(TermsTo(m, n)) \in Nat
<1>1. TermsTo(m, n) = {j \in TermsOf(m) : Links(spf[m])[j] = n}
  BY DEF TermsTo, TermsOf
<1>2. [x \in Names |-> 0] \in Costs
  BY DEF Costs
<1>3. IsFiniteSet(TermsOf(m))
  BY <1>2, SharesAre
<1>4. IsFiniteSet(TermsTo(m, n))
  BY <1>1, <1>3, FS_Subset
<1>. QED
  BY <1>1, <1>4, FS_CardinalityType

LEMMA ReferencesIs ==
  ASSUME SpfOK, NEW n
  PROVE  References(n) = Sum(TermCounts(n), Reached)
<1>. DEFINE w == TermCounts(n)
            Eq(g) == g = [s \in SUBSET Reached |-> IF s = {} THEN 0 ELSE
                            Cardinality(TermsTo(CHOOSE x \in s : TRUE, n)) + g[s \ {CHOOSE x \in s : TRUE}]]
            it == CHOOSE g : Eq(g)
<1>0. IsFiniteSet(Reached)
  BY ReachedIs, FS_Subset, DnsAssumption
<1>1. References(n) = it[Reached]
  BY DEF References, MapThenSumSet, MapThenFoldSet
<1>2. ASSUME NEW g PROVE Adds(w, Reached, g) <=> Eq(g)
  <2>. DEFINE A(s) == IF s = {} THEN 0 ELSE w[First(s)] + g[s \ {First(s)}]
              B(s) == IF s = {} THEN 0 ELSE
                        Cardinality(TermsTo(CHOOSE x \in s : TRUE, n)) + g[s \ {CHOOSE x \in s : TRUE}]
  <2>1. ASSUME NEW s \in SUBSET Reached PROVE A(s) = B(s)
    <3>1. CASE s = {}
      BY <3>1
    <3>2. CASE s # {}
      <4>1. First(s) \in s /\ First(s) = CHOOSE x \in s : TRUE
        BY <3>2, FirstIsIn DEF First
      <4>2. w[First(s)] = Cardinality(TermsTo(First(s), n))
        BY <4>1 DEF TermCounts
      <4>. HIDE DEF w
      <4>. QED
        BY <3>2, <4>1, <4>2
    <3>. QED
      BY <3>1, <3>2
  <2>2. [s \in SUBSET Reached |-> A(s)] = [s \in SUBSET Reached |-> B(s)]
    <3>. HIDE DEF A, B
    <3>. QED
      BY <2>1
  <2>. QED
    BY <2>2 DEF Adds
<1>3. \E g : Adds(w, Reached, g)
  BY <1>0, SumExists
<1>4. Eq(it)
  <2>. HIDE DEF Eq
  <2>1. \E g : Eq(g)
    BY <1>2, <1>3
  <2>. QED
    BY <2>1
<1>. HIDE DEF Eq, it
<1>5. Adds(w, Reached, it)
  BY <1>2, <1>4
<1>. QED
  BY <1>0, <1>1, <1>5, SumIsSolution

\* A name referred to once is the target of one term of one record.
LEMMA OneReference ==
  ASSUME SpfOK, NEW n, References(n) <= 1,
         NEW m \in Reached, NEW j \in TermsTo(m, n), NEW k \in Reached, NEW l \in TermsTo(k, n)
  PROVE  m = k /\ j = l /\ References(n) = 1
<1>1. Reached \subseteq Names /\ IsFiniteSet(Reached)
  BY ReachedIs, FS_Subset, DnsAssumption
<1>. DEFINE w == TermCounts(n)
<1>2. \A x \in Reached : /\ w[x] = Cardinality(TermsTo(x, n)) /\ w[x] \in Nat
                         /\ IsFiniteSet(TermsTo(x, n))
  BY <1>1, TermsToAre DEF TermCounts
<1>3. Weights(w, Reached)
  BY <1>2 DEF Weights
<1>4. ASSUME NEW x \in Reached, NEW y \in TermsTo(x, n) PROVE w[x] >= 1
  <2>1. Cardinality(TermsTo(x, n)) # 0
    BY <1>2, FS_EmptySet
  <2>. QED
    BY <1>2, <2>1
<1>. HIDE DEF w
<1>5. w[m] >= 1 /\ w[k] >= 1 /\ w[m] \in Nat /\ w[k] \in Nat
  BY <1>2, <1>4
<1>6. References(n) = Sum(w, Reached) /\ Sum(w, Reached) \in Nat
  BY <1>1, <1>3, ReferencesIs, SumNat DEF w
<1>7. Sum(w, Reached) = w[m] + Sum(w, Reached \ {m})
  BY <1>1, <1>3, SumAny
<1>8. PICK others : others = Reached \ {m}
  OBVIOUS
<1>9. IsFiniteSet(others) /\ Weights(w, others) /\ Sum(w, others) \in Nat
  <2>1. IsFiniteSet(others) /\ Weights(w, others)
    BY <1>1, <1>3, <1>8, FS_Subset DEF Weights
  <2>. QED
    BY <2>1, SumNat
<1>10. w[m] = 1 /\ Sum(w, others) = 0 /\ References(n) = 1
  BY <1>5, <1>6, <1>7, <1>8, <1>9
<1>11. m = k
  <2>1. SUFFICES ASSUME m # k PROVE FALSE
    OBVIOUS
  <2>2. w[k] <= Sum(w, others)
    BY <1>8, <1>9, <2>1, SumHolds
  <2>. QED
    BY <1>5, <1>10, <2>2
<1>12. j = l
  <2>1. Cardinality(TermsTo(m, n)) = 1 /\ IsFiniteSet(TermsTo(m, n))
    BY <1>2, <1>10
  <2>2. \E x : TermsTo(m, n) = {x}
    BY <2>1, FS_Singleton
  <2>. QED
    BY <1>11, <2>2
<1>. QED
  BY <1>10, <1>11, <1>12

\* The terms of the records behind the domain, each with its record.
Pairs == {p \in Reached \X UNION {TermsOf(m) : m \in Reached} : p[2] \in TermsOf(p[1])}
RecordOf == [p \in Pairs |-> p[1]]
TermOf == [p \in Pairs |-> p[2]]
GoalOf == [p \in Pairs |-> Links(spf[p[1]])[p[2]]]
PairCosts(cost) == [p \in Pairs |-> cost[GoalOf[p]]]

LEMMA PairsAre ==
  ASSUME SpfOK, NEW cost \in Costs
  PROVE  /\ IsFiniteSet(Pairs) /\ Weights(PairCosts(cost), Pairs)
         /\ \A p \in Pairs : /\ RecordOf[p] \in Reached /\ TermOf[p] \in TermsOf(RecordOf[p])
                             /\ GoalOf[p] = Links(spf[RecordOf[p]])[TermOf[p]]
                             /\ GoalOf[p] \in Reached /\ p = <<RecordOf[p], TermOf[p]>>
                             /\ PairCosts(cost)[p] = cost[GoalOf[p]]
         /\ \A m \in Reached : \A j \in TermsOf(m) :
              /\ <<m, j>> \in Pairs /\ RecordOf[<<m, j>>] = m /\ TermOf[<<m, j>>] = j
              /\ GoalOf[<<m, j>>] = Links(spf[m])[j]
<1>1. Reached \subseteq Names /\ IsFiniteSet(Reached) /\ Targets(Reached) \subseteq Reached
  BY ReachedIs, FS_Subset, DnsAssumption
<1>2. \A m \in Reached : IsFiniteSet(TermsOf(m))
  BY <1>1, SharesAre
<1>3. IsFiniteSet(UNION {TermsOf(m) : m \in Reached})
  <2>. DEFINE f == [m \in Reached |-> TermsOf(m)]
              K == {TermsOf(m) : m \in Reached}
  <2>1. f \in [Reached -> K] /\ \A k \in K : \E m \in Reached : f[m] = k
    OBVIOUS
  <2>2. f \in Surjection(Reached, K)
    BY <2>1 DEF Surjection
  <2>3. \A k \in K : IsFiniteSet(k)
    BY <1>2
  <2>. HIDE DEF f, K
  <2>4. IsFiniteSet(K)
    BY <1>1, <2>2, FS_Surjection
  <2>5. IsFiniteSet(UNION K)
    BY <2>3, <2>4, FS_UNION
  <2>. QED
    BY <2>5 DEF K
<1>4. IsFiniteSet(Pairs)
  <2>1. PICK all : all = Reached \X UNION {TermsOf(m) : m \in Reached}
    OBVIOUS
  <2>2. IsFiniteSet(all)
    BY <1>1, <1>3, <2>1, FS_Product
  <2>3. Pairs \subseteq all
    BY <2>1 DEF Pairs
  <2>. QED
    BY <2>2, <2>3, FS_Subset
<1>5. ASSUME NEW m \in Reached, NEW j \in TermsOf(m)
      PROVE  /\ <<m, j>> \in Pairs /\ RecordOf[<<m, j>>] = m /\ TermOf[<<m, j>>] = j
             /\ GoalOf[<<m, j>>] = Links(spf[m])[j]
  <2>1. <<m, j>> \in Pairs
    BY DEF Pairs
  <2>. QED
    BY <2>1 DEF RecordOf, TermOf, GoalOf
<1>6. ASSUME NEW p \in Pairs
      PROVE  /\ RecordOf[p] \in Reached /\ TermOf[p] \in TermsOf(RecordOf[p])
             /\ GoalOf[p] = Links(spf[RecordOf[p]])[TermOf[p]]
             /\ GoalOf[p] \in Reached /\ p = <<RecordOf[p], TermOf[p]>>
             /\ PairCosts(cost)[p] = cost[GoalOf[p]]
  <2>1. p \in Reached \X UNION {TermsOf(m) : m \in Reached} /\ p[2] \in TermsOf(p[1])
    BY DEF Pairs
  <2>2. p[1] \in Reached /\ p = <<p[1], p[2]>>
    BY <2>1
  <2>3. RecordOf[p] = p[1] /\ TermOf[p] = p[2] /\ GoalOf[p] = Links(spf[p[1]])[p[2]]
    BY DEF RecordOf, TermOf, GoalOf
  <2>4. Links(spf[p[1]])[p[2]] \in Targets(Reached)
    BY <2>1, <2>2, TargetIs DEF TermsOf
  <2>5. PairCosts(cost)[p] = cost[GoalOf[p]]
    BY DEF PairCosts
  <2>. QED
    BY <1>1, <2>1, <2>2, <2>3, <2>4, <2>5
<1>7. Weights(PairCosts(cost), Pairs)
  BY <1>1, <1>6 DEF Weights, Costs
<1>. QED
  BY <1>4, <1>5, <1>6, <1>7

\* What a record refers to costs what its terms cost.
LEMMA SharesByPairs ==
  ASSUME SpfOK, NEW cost \in Costs, NEW m \in Reached
  PROVE  Sum(Shares(cost, m), TermsOf(m)) = Sum(PairCosts(cost), Fibre(Pairs, RecordOf, m))
<1>. DEFINE w == PairCosts(cost)
            S == Fibre(Pairs, RecordOf, m)
            K == TermsOf(m)
            f == Shares(cost, m)
<1>0. m \in Names
  BY ReachedIs
<1>1. IsFiniteSet(Pairs) /\ Weights(w, Pairs)
  BY PairsAre
<1>2. S \subseteq Pairs
  BY DEF Fibre
<1>3. IsFiniteSet(S) /\ Weights(w, S) /\ IsFiniteSet(K)
  <2>1. IsFiniteSet(K)
    BY <1>0, SharesAre
  <2>2. IsFiniteSet(S)
    BY <1>1, <1>2, FS_Subset
  <2>. HIDE DEF w, S
  <2>. QED
    BY <1>1, <1>2, <2>1, <2>2 DEF Weights
<1>4. ASSUME NEW j \in K PROVE f[j] = Sum(w, Fibre(S, TermOf, j))
  <2>1. PICK p : p = <<m, j>>
    OBVIOUS
  <2>2. /\ p \in Pairs /\ RecordOf[p] = m /\ TermOf[p] = j
        /\ GoalOf[p] = Links(spf[m])[j]
    BY <2>1, PairsAre
  <2>3. Fibre(S, TermOf, j) = {p}
    <3>1. ASSUME NEW q \in Fibre(S, TermOf, j) PROVE q = p
      <4>1. q \in Pairs /\ RecordOf[q] = m /\ TermOf[q] = j
        BY DEF Fibre
      <4>2. q = <<RecordOf[q], TermOf[q]>>
        BY <4>1, PairsAre
      <4>. QED
        BY <2>1, <4>1, <4>2
    <3>2. p \in Fibre(S, TermOf, j)
      BY <2>2 DEF Fibre
    <3>. QED
      BY <3>1, <3>2
  <2>4. w[p] = cost[Links(spf[m])[j]] /\ w[p] \in Nat
    <3>1. w[p] = cost[GoalOf[p]] /\ w[p] \in Nat
      BY <2>2, PairsAre DEF Weights
    <3>. HIDE DEF w
    <3>. QED
      BY <2>2, <3>1
  <2>5. Sum(w, {p}) = w[p]
    BY <2>4, SumSingle
  <2>6. f[j] = cost[Links(spf[m])[j]]
    BY <1>0, SharesAre
  <2>. HIDE DEF w, f, S
  <2>. QED
    BY <2>3, <2>4, <2>5, <2>6
<1>5. KeyIn(S, TermOf, K) = S
  BY PairsAre DEF KeyIn, Fibre
<1>. HIDE DEF w, f, S, K
<1>6. Sum(f, K) = Sum(w, KeyIn(S, TermOf, K))
  BY <1>3, <1>4, SumFibres
<1>7. Sum(f, K) = Sum(w, S)
  BY <1>5, <1>6
<1>. QED
  BY <1>7 DEF w, f, S, K

Tree == References(Root) = 0 /\ \A n \in Reached \ {Root} : References(n) = 1

\* In a tree, one step deeper costs every name's own terms and, but for the
\* domain itself, what every name cost before.
LEMMA TreeStep ==
  ASSUME SpfOK, Tree, NEW e, Evaluates(e), NEW i \in Nat
  PROVE  Sum(e[i + 1], Reached) <= Sum(CostOf, Reached) + Sum(e[i], Reached \ {Root})
<1>. DEFINE cost == e[i]
            next == e[i + 1]
            R == Reached
            w == PairCosts(cost)
            b == [m \in R |-> Sum(Shares(cost, m), TermsOf(m))]
            f == [x \in R |-> Sum(w, Fibre(Pairs, GoalOf, x))]
            g == [x \in R |-> IF x = Root THEN 0 ELSE cost[x]]
<1>1. cost \in Costs /\ next \in Costs /\ \A n \in Names : next[n] = Cost(n) + Sum(Shares(cost, n), TermsOf(n))
  BY DEF Evaluates
<1>. HIDE DEF cost, next
<1>2. R \subseteq Names /\ IsFiniteSet(R) /\ Root \in R
  BY ReachedIs, FS_Subset, DnsAssumption
<1>3. IsFiniteSet(Pairs) /\ Weights(w, Pairs)
  BY <1>1, PairsAre
<1>4. Weights(CostOf, R) /\ Weights(b, R) /\ \A m \in R : next[m] = CostOf[m] + b[m]
  <2>1. \A m \in R : CostOf[m] = Cost(m) /\ CostOf[m] \in Nat
    BY <1>2, CostIsNat
  <2>2. \A m \in R : b[m] = Sum(Shares(cost, m), TermsOf(m)) /\ b[m] \in Nat
    BY <1>1, <1>2, SharesAre
  <2>. HIDE DEF b, R
  <2>. QED
    BY <1>1, <1>2, <2>1, <2>2 DEF Weights
<1>5. Sum(next, R) = Sum(CostOf, R) + Sum(b, R)
  <2>. HIDE DEF b, R
  <2>. QED
    BY <1>2, <1>4, SumPlus
<1>6. Sum(b, R) = Sum(w, Pairs)
  <2>1. \A m \in R : b[m] = Sum(w, Fibre(Pairs, RecordOf, m))
    BY <1>1, SharesByPairs
  <2>2. KeyIn(Pairs, RecordOf, R) = Pairs
    BY <1>1, PairsAre DEF KeyIn
  <2>. HIDE DEF b, w, R
  <2>3. Sum(b, R) = Sum(w, KeyIn(Pairs, RecordOf, R))
    BY <1>2, <1>3, <2>1, SumFibres
  <2>. QED
    BY <2>2, <2>3
<1>7. Sum(f, R) = Sum(w, Pairs)
  <2>1. \A x \in R : f[x] = Sum(w, Fibre(Pairs, GoalOf, x))
    OBVIOUS
  <2>2. KeyIn(Pairs, GoalOf, R) = Pairs
    BY <1>1, PairsAre DEF KeyIn
  <2>. HIDE DEF f, w, R
  <2>3. Sum(f, R) = Sum(w, KeyIn(Pairs, GoalOf, R))
    BY <1>2, <1>3, <2>1, SumFibres
  <2>. QED
    BY <2>2, <2>3
<1>8. ASSUME NEW x \in R PROVE f[x] \in Nat /\ g[x] \in Nat /\ f[x] <= g[x]
  <2>. DEFINE S == Fibre(Pairs, GoalOf, x)
  <2>1. f[x] = Sum(w, S)
    OBVIOUS
  <2>2. g[x] = IF x = Root THEN 0 ELSE cost[x]
    OBVIOUS
  <2>3. x \in Names /\ cost[x] \in Nat
    BY <1>1, <1>2 DEF Costs
  <2>4. g[x] \in Nat
    BY <2>2, <2>3
  <2>5. References(x) <= 1 /\ (x = Root => References(x) = 0)
    <3>1. References(Root) = 0 /\ (x # Root => References(x) = 1)
      BY DEF Tree
    <3>. QED
      BY <3>1
  <2>6. \A p \in S : p \in Pairs /\ RecordOf[p] \in Reached /\ TermOf[p] \in TermsTo(RecordOf[p], x)
    <3>. SUFFICES ASSUME NEW p \in S
                  PROVE  p \in Pairs /\ RecordOf[p] \in Reached /\ TermOf[p] \in TermsTo(RecordOf[p], x)
      OBVIOUS
    <3>1. p \in Pairs /\ GoalOf[p] = x
      BY DEF Fibre
    <3>2. /\ RecordOf[p] \in Reached /\ TermOf[p] \in TermsOf(RecordOf[p])
          /\ GoalOf[p] = Links(spf[RecordOf[p]])[TermOf[p]]
      BY <1>1, <3>1, PairsAre
    <3>3. RecordOf[p] \in Names
      BY <1>2, <3>2
    <3>4. TermsTo(RecordOf[p], x) = {j \in TermsOf(RecordOf[p]) : Links(spf[RecordOf[p]])[j] = x}
      BY <3>3, TermsToAre
    <3>. QED
      BY <3>1, <3>2, <3>4
  <2>. HIDE DEF S, f, g
  <2>7. CASE S = {}
    <3>1. Sum(w, S) = 0
      BY <2>7, SumEmpty
    <3>. QED
      BY <2>1, <2>4, <3>1
  <2>8. CASE S # {}
    <3>1. PICK p \in S : TRUE
      BY <2>8
    <3>2. \A q \in S : RecordOf[q] = RecordOf[p] /\ TermOf[q] = TermOf[p] /\ References(x) = 1
      BY <2>5, <2>6, OneReference
    <3>3. S = {p}
      <4>1. \A q \in S : q = <<RecordOf[q], TermOf[q]>>
        BY <1>1, <2>6, PairsAre
      <4>. QED
        BY <3>1, <3>2, <4>1
    <3>4. x # Root
      BY <2>5, <3>1, <3>2
    <3>5. w[p] = cost[x]
      <4>1. GoalOf[p] = x
        BY <3>1 DEF S, Fibre
      <4>2. w[p] = cost[GoalOf[p]]
        BY <1>1, <2>6, <3>1, PairsAre
      <4>. HIDE DEF w
      <4>. QED
        BY <4>1, <4>2
    <3>. HIDE DEF w
    <3>6. Sum(w, {p}) = w[p]
      BY <2>3, <3>5, SumSingle
    <3>7. f[x] = cost[x] /\ g[x] = cost[x]
      BY <2>1, <2>2, <3>3, <3>4, <3>5, <3>6
    <3>. QED
      BY <2>3, <3>7
  <2>. QED
    BY <2>7, <2>8
<1>9. Weights(f, R) /\ Weights(g, R)
  <2>. HIDE DEF f, g, R
  <2>. QED
    BY <1>8 DEF Weights
<1>10. Sum(f, R) <= Sum(g, R)
  <2>. HIDE DEF f, g, R
  <2>. QED
    BY <1>2, <1>8, <1>9, SumLess
<1>11. Sum(g, R) = Sum(cost, R \ {Root})
  <2>1. g[Root] = 0 /\ \A x \in R \ {Root} : g[x] = cost[x]
    BY <1>2
  <2>. HIDE DEF g, R
  <2>2. PICK others : others = R \ {Root}
    OBVIOUS
  <2>3. IsFiniteSet(others) /\ Weights(g, others)
    BY <1>2, <1>9, <2>2, FS_Subset DEF Weights
  <2>4. Sum(g, R) = g[Root] + Sum(g, others)
    BY <1>2, <1>9, <2>2, SumAny
  <2>5. Sum(g, others) = Sum(cost, others) /\ Sum(g, others) \in Nat
    BY <2>1, <2>2, <2>3, SumSame, SumNat
  <2>. QED
    BY <2>1, <2>2, <2>4, <2>5
<1>12. Sum(f, R) \in Nat /\ Sum(g, R) \in Nat /\ Sum(CostOf, R) \in Nat
  <2>. HIDE DEF f, g, R
  <2>. QED
    BY <1>2, <1>4, <1>9, SumNat
<1>13. Sum(next, R) <= Sum(CostOf, R) + Sum(cost, R \ {Root})
  <2>. HIDE DEF f, g, w, b, R
  <2>. QED
    BY <1>5, <1>6, <1>7, <1>10, <1>11, <1>12
<1>. QED
  BY <1>13 DEF cost, next

LEMMA TreeIsExact ==
  ASSUME SpfOK, Tree
  PROVE  Evaluated <= Sum(CostOf, Reached)
<1>1. PICK e : Evaluated = e[Cardinality(Names)][Root] /\ Evaluates(e)
  BY EvaluatedBySteps
<1>2. PICK i \in Nat : i = Cardinality(Names)
  BY FS_CardinalityType, DnsAssumption
<1>3. PICK last, deeper : last = e[i] /\ deeper = e[i + 1]
  OBVIOUS
<1>4. PICK others : others = Reached \ {Root}
  OBVIOUS
<1>5. Reached \subseteq Names /\ IsFiniteSet(Reached) /\ Root \in Reached /\ IsFiniteSet(others)
  BY <1>4, ReachedIs, FS_Subset, DnsAssumption
<1>6. last \in Costs /\ deeper \in Costs
  BY <1>1, <1>3 DEF Evaluates
<1>7. /\ Weights(last, Reached) /\ Weights(deeper, Reached) /\ Weights(CostOf, Reached)
      /\ Weights(last, others)
  BY <1>4, <1>5, <1>6, CostIsNat DEF Weights, Costs
<1>8. Sum(last, Reached) <= Sum(deeper, Reached)
  <2>1. \A n \in Reached : last[n] <= deeper[n]
    BY <1>1, <1>3, <1>5, CostsGrow
  <2>. QED
    BY <1>5, <1>7, <2>1, SumLess
<1>9. Sum(deeper, Reached) <= Sum(CostOf, Reached) + Sum(last, others)
  BY <1>1, <1>3, <1>4, TreeStep
<1>10. Sum(last, Reached) = last[Root] + Sum(last, others)
  BY <1>4, <1>5, <1>7, SumAny
<1>11. /\ Sum(last, others) \in Nat /\ Sum(deeper, Reached) \in Nat /\ Sum(CostOf, Reached) \in Nat
       /\ last[Root] \in Nat
  BY <1>5, <1>7, SumNat DEF Weights
<1>12. last[Root] <= Sum(CostOf, Reached)
  BY <1>8, <1>9, <1>10, <1>11
<1>. QED
  BY <1>1, <1>2, <1>3, <1>12

LEMMA TreesExact == DnsInv => TreesAreExact
<1>. SUFFICES ASSUME DnsInv, Counted, ~cut
              PROVE  count <= Evaluated /\ (Tree => count = Evaluated)
  BY DEF TreesAreExact, Tree
<1>1. SpfOK /\ seen = Reached /\ count = MapThenSumSet(Cost, seen)
  BY TermsCountedOnce DEF DnsInv, EachTermOnce
<1>2. Reached \subseteq Names /\ IsFiniteSet(Reached)
  BY <1>1, ReachedIs, FS_Subset, DnsAssumption
<1>3. count = Sum(CostOf, Reached)
  BY <1>1, <1>2, CostIs
<1>4. count <= Evaluated
  BY <1>1, <1>3, EvaluatedIsMore
<1>5. Tree => Evaluated <= count
  BY <1>1, <1>3, TreeIsExact
<1>6. count \in Nat /\ Evaluated \in Nat
  <2>1. PICK e : Evaluated = e[Cardinality(Names)][Root] /\ Evaluates(e)
    BY <1>1, EvaluatedBySteps
  <2>2. Cardinality(Names) \in Nat
    BY FS_CardinalityType, DnsAssumption
  <2>. QED
    BY <2>1, <2>2, DnsAssumption DEF Evaluates, Costs, DnsInv
<1>. QED
  BY <1>4, <1>5, <1>6

\* The recursive count of the DNS lookups behind an SPF record reads each
\* record behind the domain once and counts each of its terms once, never
\* exceeds what a receiver needs and meets it when no name is referred to
\* twice; a record over the limit gets no points (LookupsAreCounted).
THEOREM LookupsAlwaysCounted == DnsSpec => []LookupsAreCounted
<1>1. DnsInit => DnsInv
  BY DnsStart
<1>2. DnsInv /\ [DnsNext]_dnsVars => DnsInv'
  BY DnsKept
<1>3. DnsInv => LookupsAreCounted
  BY TermsCountedOnce, TreesExact, OverflowFails DEF LookupsAreCounted
<1>. QED
  BY <1>1, <1>2, <1>3, PTL DEF DnsSpec
=============================================================================
