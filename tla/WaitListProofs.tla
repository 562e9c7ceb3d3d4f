--------------------------- MODULE WaitListProofs ---------------------------
(***************************************************************************)
(* Proofs about WaitList for every set of workers and updaters, every      *)
(* number of nodes and every threshold: types, a waiting sleeper has one   *)
(* live node, and no live node is ever handed out again.                   *)
(***************************************************************************)
EXTENDS WaitList, FiniteSetTheorems, TLAPS

---------------------------------------------------------------------------
(* Induction over numbers, from the order on finite sets *)

LEMMA LeastNumber ==
  ASSUME NEW T, T \subseteq Nat, T # {}
  PROVE  \E x \in T : \A y \in T : x <= y
<1> DEFINE R == StrictSubsetOrdering(Nat)
           S == FiniteSubsetsOf(Nat)
           D == {0 .. n : n \in T}
<1>1. IsWellFoundedOn(R, S)
  BY FS_StrictSubsetOrderingWellFounded
<1>2. D \subseteq S /\ D # {}
  <2>1. ASSUME NEW n \in T PROVE 0 .. n \in S
    <3>1. IsFiniteSet(0 .. n) /\ 0 .. n \subseteq Nat
      BY FS_Interval
    <3>2. QED
      BY <3>1 DEF FiniteSubsetsOf
  <2>2. QED
    BY <2>1
<1>3. PICK d \in D : \A e \in D : <<e, d>> \notin R
  <2> HIDE DEF R, S, D
  <2> QED BY <1>1, <1>2, WFMin
<1>4. PICK x \in T : d = 0 .. x
  OBVIOUS
<1>5. ASSUME NEW y \in T, y < x PROVE FALSE
  <2>1. 0 .. y \in D /\ 0 .. y \subseteq 0 .. x /\ 0 .. y # 0 .. x
    <3>1. x \in 0 .. x /\ x \notin 0 .. y
      BY <1>5
    <3>2. 0 .. y \subseteq 0 .. x
      BY <1>5
    <3> QED BY <3>1, <3>2
  <2>2. <<0 .. y, d>> \in R
    BY <2>1, <1>2, <1>3, <1>4 DEF StrictSubsetOrdering, FiniteSubsetsOf
  <2>3. QED
    BY <2>1, <2>2, <1>3
<1>6. QED
  BY <1>5

LEMMA NatIsInductive ==
  ASSUME NEW T, 0 \in T, \A n \in Nat : n \in T => n + 1 \in T
  PROVE  Nat \subseteq T
<1>1. SUFFICES ASSUME ~(Nat \subseteq T) PROVE FALSE
  OBVIOUS
<1> DEFINE S == {n \in Nat : n \notin T}
<1>2. PICK x \in S : \A y \in S : x <= y
  BY <1>1, LeastNumber
<1>3. x # 0 /\ x - 1 \in Nat
  BY <1>2
<1>4. x - 1 \in T
  BY <1>2, <1>3
<1>5. QED
  BY <1>2, <1>3, <1>4

---------------------------------------------------------------------------
(* Follow(f, n, last) is the least set that holds n and, of each node but  *)
(* last, the one after it                                                  *)

Ptrs == [Nodes -> Nodes \cup {Nil}]
Ends == Nodes \cup {Nil}

\* S holds n and what follows each of its nodes but last.
Walks(f, S, n, last) ==
    /\ n \in S \cup {Nil}
    /\ \A m \in (S \cap Nodes) \ {last} : f[m] \in S \cup {Nil}

Grow(f, last, S) == S \cup {IF m = Nil THEN Nil ELSE f[m] : m \in S \ {last}}

NilIsNoNode == Nil \notin Nodes

LEMMA NilApart == NilIsNoNode /\ MaxNodes \in Nat
  BY WaitListAssumption DEF NilIsNoNode

Reaches(g, f, n, last, N) ==
    g = [k \in 0 .. N |-> IF k = 0 THEN {n} ELSE Grow(f, last, g[k - 1])]

LEMMA ReachBuilt ==
  ASSUME NEW f, NEW n, NEW last, NEW N \in Nat, NEW g, g = [k \in 0 .. N |-> g[k]],
         \A k \in 0 .. N : g[k] = IF k = 0 THEN {n} ELSE Grow(f, last, g[k - 1])
  PROVE  Reaches(g, f, n, last, N)
  BY Zenon DEF Reaches

\* The recursive function that Follow defines has its equation.
LEMMA ReachDefined ==
  ASSUME NEW f, NEW n, NEW last, NEW N \in Nat
  PROVE  \E g : Reaches(g, f, n, last, N)
<1> DEFINE T == {k \in Nat : \E g : Reaches(g, f, n, last, k)}
<1>1. 0 \in T
  <2> DEFINE h == [j \in 0 .. 0 |-> {n}]
  <2>1. Reaches(h, f, n, last, 0)
    <3>1. h = [j \in 0 .. 0 |-> h[j]] /\ \A j \in 0 .. 0 : j = 0 /\ h[j] = {n}
      OBVIOUS
    <3> HIDE DEF h
    <3>2. QED
      <4>1. \A j \in 0 .. 0 : h[j] = IF j = 0 THEN {n} ELSE Grow(f, last, h[j - 1])
        BY <3>1, Zenon
      <4>2. QED
        BY <3>1, <4>1, ReachBuilt, 0 \in Nat, Zenon
  <2>2. QED
    BY <2>1
<1>2. ASSUME NEW k \in Nat, k \in T PROVE k + 1 \in T
  <2>1. PICK g : Reaches(g, f, n, last, k)
    BY <1>2
  <2>0. \A j \in 0 .. k : g[j] = IF j = 0 THEN {n} ELSE Grow(f, last, g[j - 1])
    BY <2>1, Zenon DEF Reaches
  <2> DEFINE h == [j \in 0 .. k + 1 |-> IF j = k + 1 THEN Grow(f, last, g[k]) ELSE g[j]]
  <2>2. ASSUME NEW j \in 0 .. k + 1
        PROVE  h[j] = IF j = 0 THEN {n} ELSE Grow(f, last, h[j - 1])
    <3>1. CASE j = k + 1
      <4>1. j # 0 /\ j - 1 = k /\ k \in 0 .. k + 1 /\ k # k + 1
        BY <3>1
      <4>2. h[j] = Grow(f, last, g[k]) /\ h[k] = g[k]
        BY <3>1, <4>1
      <4>3. QED
        BY <4>1, <4>2
    <3>2. CASE j = 0
      <4>1. h[j] = g[0] /\ 0 \in 0 .. k
        BY <3>2
      <4>2. g[0] = {n}
        BY <2>0, <4>1
      <4>3. QED
        BY <3>2, <4>1, <4>2
    <3>3. CASE j \in 1 .. k
      <4>1. h[j] = g[j] /\ h[j - 1] = g[j - 1] /\ j \in 0 .. k /\ j # 0
        BY <3>3
      <4>2. g[j] = Grow(f, last, g[j - 1])
        BY <2>0, <4>1
      <4>3. QED
        BY <4>1, <4>2
    <3>4. QED
      BY <3>1, <3>2, <3>3
  <2>3. Reaches(h, f, n, last, k + 1)
    <3>1. DOMAIN h = 0 .. k + 1 /\ h = [j \in 0 .. k + 1 |-> h[j]]
      OBVIOUS
    <3> HIDE DEF h
    <3>2. QED
      BY <2>2, <3>1, ReachBuilt, k + 1 \in Nat, Zenon
  <2>4. QED
    BY <2>3
<1>3. N \in T
  <2> HIDE DEF T
  <2> QED BY <1>1, <1>2, NatIsInductive
<1>4. QED
  BY <1>3

\* The sets that g goes through make up Follow.
Spans(g, f, n, last) ==
    /\ g[0] = {n}
    /\ \A k \in 1 .. MaxNodes : g[k] = Grow(f, last, g[k - 1])
    /\ Follow(f, n, last) = g[MaxNodes] \ {Nil}

LEMMA FollowReach ==
  ASSUME NEW f, NEW n, NEW last
  PROVE  \E g : Spans(g, f, n, last)
<1> DEFINE g == CHOOSE h : h = [k \in 0 .. Cardinality(Nodes) |->
                                  IF k = 0 THEN {n} ELSE Grow(f, last, h[k - 1])]
<1>1. Cardinality(Nodes) = MaxNodes /\ Cardinality(Nodes) \in Nat
  BY NilApart, FS_Interval DEF Nodes
<1>2. Follow(f, n, last) = g[Cardinality(Nodes)] \ {Nil}
  BY Zenon DEF Follow, Grow
<1>3. Reaches(g, f, n, last, Cardinality(Nodes))
  <2>1. \E h : Reaches(h, f, n, last, Cardinality(Nodes))
    BY <1>1, ReachDefined
  <2>2. QED
    BY <2>1, Zenon DEF Reaches
<1> HIDE DEF g
<1>4. \A k \in 0 .. MaxNodes : g[k] = IF k = 0 THEN {n} ELSE Grow(f, last, g[k - 1])
  <2>1. \A k \in 0 .. Cardinality(Nodes) :
            g[k] = IF k = 0 THEN {n} ELSE Grow(f, last, g[k - 1])
    BY <1>3, Zenon DEF Reaches
  <2>2. QED
    BY <1>1, <2>1, Zenon
<1>5. Spans(g, f, n, last)
  BY <1>1, <1>2, <1>4, NilApart DEF Spans
<1>6. QED
  BY <1>5

\* What the steps of Follow reach: nodes only, only what every set that walks
\* from n holds, and a new node at each step until nothing is missing.
LEMMA ReachStep ==
  ASSUME NEW f \in Ptrs, NEW last, NEW S \in SUBSET Ends
  PROVE  /\ S \subseteq Grow(f, last, S) /\ Grow(f, last, S) \subseteq Ends
         /\ \A n : Walks(f, S \ {Nil}, n, last) => Grow(f, last, S) \subseteq S \cup {Nil}
         /\ \A n, R : /\ Walks(f, R, n, last) /\ S \subseteq R \cup {Nil}
                      => Grow(f, last, S) \subseteq R \cup {Nil}
  BY NilApart DEF Ptrs, Ends, Grow, Walks, NilIsNoNode

LEMMA ReachMore ==
  ASSUME NEW f \in Ptrs, NEW last, NEW S \in SUBSET Ends, NEW n \in S,
         ~ Walks(f, S \ {Nil}, n, last)
  PROVE  Cardinality(Grow(f, last, S) \ {Nil}) >= Cardinality(S \ {Nil}) + 1
<1>1. PICK m \in (S \cap Nodes) \ {last} : f[m] \notin S \cup {Nil}
  BY NilApart DEF Walks, Ends, NilIsNoNode
<1>2. f[m] \in Nodes /\ f[m] \in Grow(f, last, S) \ {Nil} /\ m # Nil
  BY <1>1, NilApart DEF Grow, Ptrs, NilIsNoNode
<1>3. IsFiniteSet(Nodes)
  BY NilApart, FS_Interval DEF Nodes
<1>4. /\ Grow(f, last, S) \ {Nil} \subseteq Nodes
      /\ S \ {Nil} \subseteq Grow(f, last, S) \ {Nil}
  BY ReachStep DEF Ends
<1>5. IsFiniteSet(Grow(f, last, S) \ {Nil}) /\ IsFiniteSet(S \ {Nil})
  <2>1. IsFiniteSet(Grow(f, last, S) \ {Nil})
    BY <1>3, <1>4, FS_Subset
  <2>2. QED
    BY <2>1, <1>4, FS_Subset
<1> DEFINE A == S \ {Nil}
           B == Grow(f, last, S) \ {Nil}
<1>6. f[m] \notin A /\ A \cup {f[m]} \subseteq B
  BY <1>1, <1>2, <1>4
<1>7. Cardinality(A \cup {f[m]}) = Cardinality(A) + 1 /\ IsFiniteSet(A \cup {f[m]})
  BY <1>5, <1>6, FS_AddElement
<1>8. Cardinality(A \cup {f[m]}) <= Cardinality(B)
  BY <1>5, <1>6, FS_Subset
<1>9. QED
  BY <1>5, <1>7, <1>8, FS_CardinalityType

\* What the k-th of these sets is.
Reached(S, f, n, last, k) ==
    /\ S \in SUBSET Ends /\ n \in S
    /\ \/ Walks(f, S \ {Nil}, n, last)
       \/ Cardinality(S \ {Nil}) >= k + 1
    /\ \A R : Walks(f, R, n, last) => S \subseteq R \cup {Nil}

LEMMA ReachedFirst ==
  ASSUME NEW f, NEW n \in Ends, NEW last
  PROVE  Reached({n}, f, n, last, 0)
<1>1. {n} \in SUBSET Ends /\ n \in {n}
  OBVIOUS
<1>2. Walks(f, {n} \ {Nil}, n, last) \/ Cardinality({n} \ {Nil}) >= 0 + 1
  <2>1. CASE n = Nil
    BY <2>1 DEF Walks
  <2>2. CASE n # Nil
    <3>1. {n} \ {Nil} = {n}
      BY <2>2
    <3>2. Cardinality({n}) = 1
      BY FS_Singleton
    <3>3. QED
      BY <3>1, <3>2
  <2>3. QED
    BY <2>1, <2>2
<1>3. \A R : Walks(f, R, n, last) => {n} \subseteq R \cup {Nil}
  BY DEF Walks
<1>4. QED
  BY <1>1, <1>2, <1>3 DEF Reached

LEMMA ReachedNext ==
  ASSUME NEW f \in Ptrs, NEW n \in Ends, NEW last, NEW S, NEW k \in Nat,
         Reached(S, f, n, last, k)
  PROVE  Reached(Grow(f, last, S), f, n, last, k + 1)
<1> DEFINE B == Grow(f, last, S)
<1>1. /\ S \in SUBSET Ends /\ n \in S
      /\ Walks(f, S \ {Nil}, n, last) \/ Cardinality(S \ {Nil}) >= k + 1
      /\ \A R : Walks(f, R, n, last) => S \subseteq R \cup {Nil}
  BY DEF Reached
<1>2. S \subseteq B /\ B \subseteq Ends /\ n \in B
  BY <1>1, ReachStep
<1>3. Walks(f, B \ {Nil}, n, last) \/ Cardinality(B \ {Nil}) >= (k + 1) + 1
  <2>1. CASE Walks(f, S \ {Nil}, n, last)
    <3>1. B \ {Nil} = S \ {Nil}
      BY <1>1, <1>2, <2>1, ReachStep
    <3>2. QED
      BY <2>1, <3>1
  <2>2. CASE ~ Walks(f, S \ {Nil}, n, last)
    <3>1. Cardinality(B \ {Nil}) >= Cardinality(S \ {Nil}) + 1
      BY <1>1, <2>2, ReachMore
    <3> HIDE DEF B
    <3>2. IsFiniteSet(S \ {Nil}) /\ IsFiniteSet(B \ {Nil})
      <4>1. S \ {Nil} \subseteq Nodes /\ B \ {Nil} \subseteq Nodes
        BY <1>1, <1>2 DEF Ends
      <4>2. IsFiniteSet(Nodes)
        BY NilApart, FS_Interval DEF Nodes
      <4>3. QED
        BY <4>1, <4>2, FS_Subset
    <3>3. Cardinality(S \ {Nil}) \in Nat /\ Cardinality(B \ {Nil}) \in Nat
      BY <3>2, FS_CardinalityType
    <3>4. QED
      BY <1>1, <2>2, <3>1, <3>3
  <2>3. QED
    BY <2>1, <2>2
<1>4. \A R : Walks(f, R, n, last) => B \subseteq R \cup {Nil}
  BY <1>1, ReachStep
<1> HIDE DEF B
<1>5. Reached(B, f, n, last, k + 1)
  BY <1>2, <1>3, <1>4 DEF Reached
<1>6. QED
  BY <1>5 DEF B

LEMMA FollowIs ==
  ASSUME NEW f \in Ptrs, NEW n \in Ends, NEW last
  PROVE  /\ Follow(f, n, last) \subseteq Nodes
         /\ Walks(f, Follow(f, n, last), n, last)
         /\ \A R : Walks(f, R, n, last) => Follow(f, n, last) \subseteq R
<1>1. PICK g : Spans(g, f, n, last)
  BY FollowReach
<1> DEFINE T == {k \in Nat : k <= MaxNodes => Reached(g[k], f, n, last, k)}
<1>2. 0 \in T
  <2>1. g[0] = {n}
    BY <1>1 DEF Spans
  <2>2. Reached(g[0], f, n, last, 0)
    BY <2>1, ReachedFirst
  <2>3. QED
    BY <2>2
<1>3. ASSUME NEW k \in Nat, k \in T, k + 1 <= MaxNodes
      PROVE  Reached(g[k + 1], f, n, last, k + 1)
  <2>1. k <= MaxNodes /\ k + 1 \in 1 .. MaxNodes /\ (k + 1) - 1 = k
    BY <1>3, NilApart
  <2>2. g[k + 1] = Grow(f, last, g[k])
    BY <1>1, <2>1 DEF Spans
  <2>3. Reached(g[k], f, n, last, k)
    BY <1>3, <2>1
  <2>4. QED
    BY <2>2, <2>3, ReachedNext
<1>4. \A k \in Nat : k \in T => k + 1 \in T
  BY <1>3
<1>5. MaxNodes \in T
  <2> HIDE DEF T
  <2> QED BY <1>2, <1>4, NatIsInductive, NilApart
<1>6. Reached(g[MaxNodes], f, n, last, MaxNodes) /\ MaxNodes \in Nat
  BY <1>5, NilApart
<1> DEFINE F == g[MaxNodes] \ {Nil}
<1>7. Follow(f, n, last) = F
  BY <1>1 DEF Spans
<1>8. F \subseteq Nodes
  BY <1>6 DEF Reached, Ends
<1>9. Walks(f, F, n, last)
  <2>1. Cardinality(F) <= MaxNodes /\ Cardinality(F) \in Nat
    <3>1. IsFiniteSet(Nodes) /\ Cardinality(Nodes) = MaxNodes
      BY NilApart, FS_Interval DEF Nodes
    <3> HIDE DEF F
    <3>2. IsFiniteSet(F) /\ Cardinality(F) <= Cardinality(Nodes)
      BY <1>8, <3>1, FS_Subset
    <3>3. QED
      BY <3>1, <3>2, FS_CardinalityType
  <2>2. Walks(f, F, n, last) \/ Cardinality(F) >= MaxNodes + 1
    BY <1>6 DEF Reached
  <2> HIDE DEF F
  <2>3. QED
    BY <1>6, <2>1, <2>2
<1>10. \A R : Walks(f, R, n, last) => F \subseteq R
  BY <1>6 DEF Reached
<1> HIDE DEF F
<1>11. QED
  BY <1>7, <1>8, <1>9, <1>10

LEMMA FollowNil ==
  ASSUME NEW f \in Ptrs, NEW last
  PROVE  Follow(f, Nil, last) = {}
<1>1. Walks(f, {}, Nil, last)
  BY DEF Walks
<1>2. QED
  BY <1>1, FollowIs DEF Ends

LEMMA FollowOwn ==
  ASSUME NEW f \in Ptrs, NEW n \in Ends, NEW last
  PROVE  Follow(f, n, last) \subseteq Nodes /\ (n # Nil => n \in Follow(f, n, last))
  BY FollowIs DEF Walks

\* The first node, then the chain of the one after it.
LEMMA FollowStep ==
  ASSUME NEW f \in Ptrs, NEW n \in Nodes, NEW last, n # last
  PROVE  Follow(f, n, last) = {n} \cup Follow(f, f[n], last)
<1> DEFINE F == Follow(f, n, last)
           G == Follow(f, f[n], last)
<1>1. n \in Ends /\ f[n] \in Ends /\ n # Nil
  BY NilApart DEF Ends, Ptrs, NilIsNoNode
<1>2. /\ Walks(f, F, n, last) /\ F \subseteq Nodes
      /\ Walks(f, G, f[n], last) /\ G \subseteq Nodes
  BY <1>1, FollowIs
<1>3. Walks(f, {n} \cup G, n, last)
  BY <1>1, <1>2 DEF Walks
<1>4. F \subseteq {n} \cup G
  BY <1>1, <1>3, FollowIs
<1>5. Walks(f, F, f[n], last) /\ n \in F
  BY <1>1, <1>2 DEF Walks
<1>6. G \subseteq F
  BY <1>1, <1>5, FollowIs
<1>7. QED
  BY <1>4, <1>5, <1>6

\* Pointers of other nodes, and the pointer of last, do not matter.
LEMMA FollowFrame ==
  ASSUME NEW f \in Ptrs, NEW g \in Ptrs, NEW n \in Ends, NEW last,
         \A m \in Follow(f, n, last) \ {last} : g[m] = f[m]
  PROVE  Follow(g, n, last) = Follow(f, n, last)
<1> DEFINE F == Follow(f, n, last)
           G == Follow(g, n, last)
<1>1. /\ Walks(f, F, n, last) /\ F \subseteq Nodes
      /\ Walks(g, G, n, last) /\ G \subseteq Nodes
  BY FollowIs
<1>2. Walks(g, F, n, last)
  BY <1>1 DEF Walks
<1>3. G \subseteq F
  BY <1>2, FollowIs
<1>4. Walks(f, G, n, last)
  BY <1>1, <1>3 DEF Walks
<1>5. F \subseteq G
  BY <1>4, FollowIs
<1>6. QED
  BY <1>3, <1>5

\* The last node of a chain that ends is one to stop at.
LEMMA FollowEnd ==
  ASSUME NEW f \in Ptrs, NEW n \in Ends, NEW last \in Nodes, f[last] = Nil
  PROVE  Follow(f, n, last) = Follow(f, n, Nil)
<1> DEFINE F == Follow(f, n, last)
           G == Follow(f, n, Nil)
<1>1. Walks(f, F, n, last) /\ Walks(f, G, n, Nil)
  BY FollowIs
<1>2. Walks(f, F, n, Nil) /\ Walks(f, G, n, last)
  BY <1>1, NilApart DEF Walks, NilIsNoNode
<1>3. F \subseteq G
  BY <1>2, FollowIs
<1>4. G \subseteq F
  BY <1>2, FollowIs
<1>5. QED
  BY <1>3, <1>4

\* Linking the last node of one chain to the first of another joins them.
LEMMA FollowJoin ==
  ASSUME NEW f \in Ptrs, NEW n \in Ends, NEW h \in Ends, NEW t \in Nodes,
         t \in Follow(f, n, t), t \notin Follow(f, h, Nil)
  PROVE  Follow([f EXCEPT ![t] = h], n, Nil) = Follow(f, n, t) \cup Follow(f, h, Nil)
<1> DEFINE g == [f EXCEPT ![t] = h]
           A == Follow(f, n, t)
           B == Follow(f, h, Nil)
           G == Follow(g, n, Nil)
<1>1. g \in Ptrs /\ g[t] = h /\ \A m \in Nodes \ {t} : g[m] = f[m]
  BY DEF Ptrs, Ends
<1> HIDE DEF g
<1>2. /\ Walks(f, A, n, t) /\ A \subseteq Nodes
      /\ Walks(f, B, h, Nil) /\ B \subseteq Nodes
      /\ Walks(g, G, n, Nil) /\ G \subseteq Nodes
  BY <1>1, FollowIs
<1>3. Walks(g, A \cup B, n, Nil)
  BY <1>1, <1>2 DEF Walks
<1>4. G \subseteq A \cup B
  BY <1>1, <1>3, FollowIs
<1>5. Walks(f, G, n, t)
  BY <1>1, <1>2, NilApart DEF Walks, NilIsNoNode
<1>6. A \subseteq G
  BY <1>5, FollowIs
<1>7. Walks(f, G \cap B, h, Nil)
  <2>1. h \in G \cup {Nil}
    BY <1>1, <1>2, <1>6, NilApart DEF Walks, NilIsNoNode
  <2>2. ASSUME NEW m \in (G \cap B \cap Nodes) \ {Nil} PROVE f[m] \in (G \cap B) \cup {Nil}
    BY <1>1, <1>2 DEF Walks
  <2>3. QED
    BY <1>2, <2>1, <2>2 DEF Walks
<1>8. B \subseteq G
  BY <1>7, FollowIs
<1>9. QED
  BY <1>4, <1>6, <1>8 DEF g

\* No node of the chain comes again after itself.
Straight(f, n, last) ==
    \A m \in Follow(f, n, last) \ {last} : m \notin Follow(f, f[m], last)

LEMMA FollowSub ==
  ASSUME NEW f \in Ptrs, NEW n \in Ends, NEW last, NEW m \in Follow(f, n, last) \ {last}
  PROVE  /\ m \in Nodes /\ f[m] \in Ends
         /\ Follow(f, f[m], last) \subseteq Follow(f, n, last)
<1> DEFINE F == Follow(f, n, last)
<1>1. Walks(f, F, n, last) /\ F \subseteq Nodes
  BY FollowIs
<1>2. m \in Nodes /\ f[m] \in Ends
  BY <1>1 DEF Ptrs, Ends
<1>3. Walks(f, F, f[m], last)
  BY <1>1, <1>2 DEF Walks
<1>4. QED
  BY <1>2, <1>3, FollowIs

LEMMA StraightStep ==
  ASSUME NEW f \in Ptrs, NEW n \in Nodes, NEW last, n # last, Straight(f, n, last)
  PROVE  n \notin Follow(f, f[n], last) /\ Straight(f, f[n], last)
<1>1. Follow(f, n, last) = {n} \cup Follow(f, f[n], last)
  BY FollowStep
<1>2. QED
  BY <1>1 DEF Straight

LEMMA StraightFrame ==
  ASSUME NEW f \in Ptrs, NEW g \in Ptrs, NEW n \in Ends, NEW last, Straight(f, n, last),
         \A m \in Follow(f, n, last) \ {last} : g[m] = f[m]
  PROVE  Straight(g, n, last)
<1>1. Follow(g, n, last) = Follow(f, n, last)
  BY FollowFrame
<1>2. ASSUME NEW m \in Follow(f, n, last) \ {last}
      PROVE  m \notin Follow(g, g[m], last)
  <2>1. f[m] \in Ends /\ Follow(f, f[m], last) \subseteq Follow(f, n, last) /\ g[m] = f[m]
    BY FollowSub
  <2>2. \A k \in Follow(f, f[m], last) \ {last} : g[k] = f[k]
    BY <2>1
  <2>3. Follow(g, f[m], last) = Follow(f, f[m], last)
    BY <2>1, <2>2, FollowFrame
  <2>4. QED
    BY <2>1, <2>3 DEF Straight
<1>3. QED
  BY <1>1, <1>2 DEF Straight

LEMMA StraightEnd ==
  ASSUME NEW f \in Ptrs, NEW n \in Ends, NEW last \in Nodes, f[last] = Nil,
         Straight(f, n, Nil)
  PROVE  Straight(f, n, last)
<1>1. Follow(f, n, last) = Follow(f, n, Nil)
  BY FollowEnd
<1>2. ASSUME NEW m \in Follow(f, n, last) \ {last}
      PROVE  m \notin Follow(f, f[m], last)
  <2>1. f[m] \in Ends /\ m # Nil
    BY FollowSub, NilApart DEF NilIsNoNode
  <2>2. Follow(f, f[m], last) = Follow(f, f[m], Nil)
    BY <2>1, FollowEnd
  <2>3. QED
    BY <1>1, <2>1, <2>2 DEF Straight
<1>3. QED
  BY <1>2 DEF Straight

LEMMA StraightPush ==
  ASSUME NEW f \in Ptrs, NEW x \in Nodes, NEW h \in Ends, Straight(f, h, Nil),
         x \notin Follow(f, h, Nil)
  PROVE  /\ Straight([f EXCEPT ![x] = h], x, Nil)
         /\ Follow([f EXCEPT ![x] = h], x, Nil) = {x} \cup Follow(f, h, Nil)
<1> DEFINE g == [f EXCEPT ![x] = h]
<1>1. g \in Ptrs /\ g[x] = h /\ x # Nil /\ \A m \in Nodes \ {x} : g[m] = f[m]
  BY NilApart DEF Ptrs, Ends, NilIsNoNode
<1> HIDE DEF g
<1>2. \A m \in Follow(f, h, Nil) \ {Nil} : g[m] = f[m]
  BY <1>1, FollowOwn
<1>3. Follow(g, h, Nil) = Follow(f, h, Nil) /\ Straight(g, h, Nil)
  BY <1>1, <1>2, FollowFrame, StraightFrame
<1>4. Follow(g, x, Nil) = {x} \cup Follow(g, h, Nil)
  BY <1>1, FollowStep
<1>5. Straight(g, x, Nil)
  BY <1>1, <1>3, <1>4 DEF Straight
<1>6. QED
  BY <1>3, <1>4, <1>5 DEF g

LEMMA StraightJoin ==
  ASSUME NEW f \in Ptrs, NEW n \in Ends, NEW h \in Ends, NEW t \in Nodes,
         t \in Follow(f, n, t), Follow(f, n, t) \cap Follow(f, h, Nil) = {},
         Straight(f, n, t), Straight(f, h, Nil)
  PROVE  Straight([f EXCEPT ![t] = h], n, Nil)
<1> DEFINE g == [f EXCEPT ![t] = h]
           A == Follow(f, n, t)
           B == Follow(f, h, Nil)
<1>1. g \in Ptrs /\ g[t] = h /\ \A m \in Nodes \ {t} : g[m] = f[m]
  BY DEF Ptrs, Ends
<1>2. Follow(g, n, Nil) = A \cup B
  BY FollowJoin
<1> HIDE DEF g
<1>3. A \subseteq Nodes /\ B \subseteq Nodes /\ t \notin B
  BY FollowOwn
<1>4. \A m \in B \ {Nil} : g[m] = f[m]
  BY <1>1, <1>3
<1>5. Follow(g, h, Nil) = B /\ Straight(g, h, Nil)
  BY <1>1, <1>4, FollowFrame, StraightFrame
<1>6. ASSUME NEW m \in A \ {t} PROVE m \notin Follow(g, g[m], Nil)
  <2>1. m \in Nodes /\ f[m] \in Ends /\ g[m] = f[m] /\ m \notin B
    BY <1>1, <1>3, FollowSub
  <2> DEFINE C == Follow(f, f[m], t)
  <2>2. m \notin C
    BY DEF Straight
  <2>3. Walks(f, C, f[m], t) /\ C \subseteq Nodes /\ Walks(f, B, h, Nil)
    BY <2>1, FollowIs
  <2>4. Walks(g, C \cup B, f[m], Nil)
    BY <1>1, <1>3, <2>3 DEF Walks
  <2>5. Follow(g, f[m], Nil) \subseteq C \cup B
    BY <1>1, <2>1, <2>4, FollowIs
  <2>6. QED
    BY <2>1, <2>2, <2>5
<1>7. t \notin Follow(g, g[t], Nil)
  BY <1>1, <1>3, <1>5
<1>8. \A m \in B \ {Nil} : m \notin Follow(g, g[m], Nil)
  BY <1>5 DEF Straight
<1>9. QED
  BY <1>2, <1>6, <1>7, <1>8 DEF Straight, g

---------------------------------------------------------------------------
(* The invariant: every node is in one place *)

\* A process holds a node exactly while it inserts it; an updater has a chain
\* exactly while it is not idle.
Busy ==
    /\ \A p \in Procs : pc[p] = "insert" <=> node[p] # Nil
    /\ \A w \in Workers : pc[w] \in {"idle", "insert"}
    /\ \A u \in Updaters :
          /\ pc[u] = "idle" <=> curr[u] = Nil
          /\ pc[u] = "idle" => nxt[u] = Nil
          /\ pc[u] \in {"walk", "splice"} => tail[u] \in Ahead(u)
          /\ pc[u] \in {"update", "insert"} => count[u] < THRESHOLD

\* The nodes of the free stack are different ones and are nowhere else.
FreeApart ==
    /\ \A i, j \in DOMAIN free : free[i] = free[j] => i = j
    /\ \A n \in Free :
          /\ n \notin Public
          /\ \A u \in Updaters : n \notin Ahead(u) /\ n # curr[u]
          /\ \A p \in Procs : n # node[p]

\* So are those of the public list, of each updater and of each insertion.
PublicApart ==
    \A n \in Public :
        /\ \A u \in Updaters : n \notin Ahead(u) /\ n # curr[u]
        /\ \A p \in Procs : n # node[p]

AheadApart ==
    \A u \in Updaters :
        /\ \A v \in Updaters : curr[v] \notin Ahead(u)
        /\ \A v \in Updaters \ {u} : Ahead(u) \cap Ahead(v) = {}
        /\ \A p \in Procs : node[p] \notin Ahead(u)

HandsApart ==
    /\ \A u, v \in Updaters : curr[u] = curr[v] => u = v \/ curr[u] = Nil
    /\ \A p, q \in Procs : node[p] = node[q] => p = q \/ node[p] = Nil
    /\ \A u \in Updaters, p \in Procs : curr[u] = node[p] => curr[u] = Nil

\* The chains end.
Acyclic ==
    /\ Straight(next, head, Nil)
    /\ \A u \in Updaters : Straight(next, nxt[u], End(u))

\* Each live node has a worker, and each waiting sleeper one live node.
Live == {n \in Nodes : n \in Public \/ (\E u \in Updaters : n \in Rest(u))
                                    \/ \E p \in Procs : node[p] = n}

Waits ==
    /\ \A n \in Live : item[n] \in Workers
    /\ \A w \in Sleepers :
          IF state[w] = "waiting" THEN \E n \in Live : item[n] = w
                                  ELSE \A n \in Live : item[n] # w
    /\ \A n, m \in Live : item[n] = item[m] => n = m \/ item[n] \notin Sleepers

\* TypeOK without the length of the stack.
Types ==
    /\ head \in Ends /\ next \in Ptrs
    /\ item \in [Nodes -> Workers \cup {Nil}]
    /\ free \in Seq(Nodes)
    /\ state \in [Workers -> {"running", "waiting"}]
    /\ over \in [Workers -> BOOLEAN]
    /\ pauses \in [Workers -> 0 .. MaxPauses]
    /\ pc \in [Procs -> {"idle", "insert", "update", "advance", "walk", "splice"}]
    /\ node \in [Procs -> Ends] /\ oldHead \in [Procs -> Ends]
    /\ curr \in [Updaters -> Ends] /\ nxt \in [Updaters -> Ends] /\ tail \in [Updaters -> Ends]
    /\ count \in [Updaters -> 0 .. THRESHOLD]

Apart == FreeApart /\ PublicApart /\ AheadApart /\ HandsApart
IInv == Types /\ Busy /\ Apart /\ Acyclic /\ Waits

LEMMA IInvInit == Init => IInv
<1> SUFFICES ASSUME Init PROVE IInv
  OBVIOUS
<1> USE WaitListAssumption, NilApart DEF NilIsNoNode, Ends, Ptrs
<1>1. Types
  BY DEF Init, Types, Nodes
<1>2. Public = {} /\ \A u \in Updaters : Ahead(u) = {}
  BY <1>1, FollowNil DEF Init, Public, Ahead, Procs
<1>3. Busy
  BY DEF Init, Busy, Procs, Nodes
<1>4. Free = Nodes /\ \A i, j \in DOMAIN free : free[i] = free[j] => i = j
  BY DEF Init, Free
<1>5. Apart
  BY <1>2, <1>4 DEF Init, Apart, FreeApart, PublicApart, AheadApart, HandsApart, Procs
<1>6. Live = {}
  BY <1>2 DEF Init, Live, Rest, Procs
<1>7. Waits
  BY <1>6 DEF Init, Waits, Workers
<1>8. Acyclic
  BY <1>2 DEF Acyclic, Straight, Public, Ahead
<1>9. QED
  BY <1>1, <1>3, <1>5, <1>7, <1>8 DEF IInv

---------------------------------------------------------------------------
(* What an action does to the places of the nodes *)

\* A node is taken from the stack.
LEMMA FreePop ==
  ASSUME free \in Seq(Nodes), free # <<>>, FreeApart, free' = Tail(free)
  PROVE  /\ Head(free) \in Free /\ Head(free) \in Nodes /\ Free' = Free \ {Head(free)}
         /\ \A i, j \in DOMAIN free' : free'[i] = free'[j] => i = j
         /\ free' \in Seq(Nodes)
<1>1. Head(free) = free[1] /\ 1 \in DOMAIN free /\ Len(free) >= 1 /\ Len(free) \in Nat
  OBVIOUS
<1>2. /\ free' \in Seq(Nodes) /\ Len(free') = Len(free) - 1 /\ DOMAIN free' = 1 .. Len(free) - 1
      /\ \A i \in DOMAIN free' : free'[i] = free[i + 1]
  BY <1>1
<1>3. \A i, j \in DOMAIN free : free[i] = free[j] => i = j
  BY DEF FreeApart
<1>4. \A i, j \in DOMAIN free' : free'[i] = free'[j] => i = j
  BY <1>1, <1>2, <1>3
<1>5. Free' \subseteq Free \ {Head(free)}
  <2>1. ASSUME NEW i \in DOMAIN free' PROVE free'[i] \in Free \ {Head(free)}
    BY <1>1, <1>2, <1>3 DEF Free
  <2>2. QED
    BY <2>1 DEF Free
<1>6. Free \ {Head(free)} \subseteq Free'
  <2>1. ASSUME NEW i \in DOMAIN free, free[i] # free[1] PROVE free[i] \in Free'
    <3>1. i - 1 \in DOMAIN free' /\ free'[i - 1] = free[i]
      BY <1>1, <1>2, <2>1
    <3>2. QED
      BY <3>1 DEF Free
  <2>2. QED
    BY <1>1, <2>1 DEF Free
<1>7. Head(free) \in Free /\ Head(free) \in Nodes
  BY <1>1 DEF Free
<1>8. QED
  BY <1>2, <1>4, <1>5, <1>6, <1>7

\* A node is put on the stack.
LEMMA FreePush ==
  ASSUME free \in Seq(Nodes), NEW x \in Nodes, x \notin Free, free' = <<x>> \o free,
         \A i, j \in DOMAIN free : free[i] = free[j] => i = j
  PROVE  /\ Free' = Free \cup {x} /\ free' \in Seq(Nodes)
         /\ \A i, j \in DOMAIN free' : free'[i] = free'[j] => i = j
<1>1. /\ free' \in Seq(Nodes) /\ DOMAIN free' = 1 .. Len(free) + 1 /\ Len(free) \in Nat
      /\ free'[1] = x /\ \A i \in DOMAIN free : i + 1 \in DOMAIN free' /\ free'[i + 1] = free[i]
      /\ \A i \in DOMAIN free' \ {1} : i - 1 \in DOMAIN free /\ free'[i] = free[i - 1]
  OBVIOUS
<1>2. \A i \in DOMAIN free : free[i] # x
  BY DEF Free
<1>3. \A i, j \in DOMAIN free' : free'[i] = free'[j] => i = j
  BY <1>1, <1>2
<1>4. Free' = Free \cup {x}
  <2>1. \A i \in DOMAIN free' : free'[i] \in Free \cup {x}
    BY <1>1 DEF Free
  <2>2. \A i \in DOMAIN free : free[i] \in Free'
    BY <1>1 DEF Free
  <2>3. x \in Free'
    BY <1>1 DEF Free
  <2>4. Free' \subseteq Free \cup {x}
    BY <2>1 DEF Free
  <2>5. Free \subseteq Free'
    BY <2>2 DEF Free
  <2>6. QED
    BY <2>3, <2>4, <2>5
<1>5. QED
  BY <1>1, <1>3, <1>4

\* Chains do not change when neither pointers nor their first nodes do.
LEMMA AheadKept ==
  ASSUME NEW u \in Updaters, next' = next, nxt'[u] = nxt[u], tail'[u] = tail[u],
         pc'[u] = "splice" <=> pc[u] = "splice"
  PROVE  Ahead(u)' = Ahead(u)
  BY DEF Ahead, End

LEMMA PublicKept ==
  ASSUME next' = next, head' = head
  PROVE  Public' = Public
  BY DEF Public

\* The pointer of a node that is not in them does not matter to chains.
LEMMA AheadFrame ==
  ASSUME Types, NEW u \in Updaters, NEW x \in Nodes, NEW y \in Ends,
         next' = [next EXCEPT ![x] = y],
         x \notin Ahead(u) \/ (pc[u] = "splice" /\ x = tail[u]),
         nxt'[u] = nxt[u], tail'[u] = tail[u], pc'[u] = "splice" <=> pc[u] = "splice"
  PROVE  Ahead(u)' = Ahead(u)
<1> DEFINE last == End(u)
<1>1. next \in Ptrs /\ next' \in Ptrs /\ nxt[u] \in Ends
  BY DEF Types, Ptrs, Ends
<1>2. \A m \in Follow(next, nxt[u], last) \ {last} : next'[m] = next[m]
  <2>1. Follow(next, nxt[u], last) \subseteq Nodes
    BY <1>1, FollowOwn
  <2>2. QED
    BY <1>1, <2>1 DEF Ahead, End, Ptrs
<1>3. Follow(next', nxt[u], last) = Follow(next, nxt[u], last)
  <2> HIDE DEF last
  <2>1. ASSUME NEW g \in Ptrs, \A m \in Follow(next, nxt[u], last) \ {last} : g[m] = next[m]
        PROVE  Follow(g, nxt[u], last) = Follow(next, nxt[u], last)
    BY <1>1, <2>1, FollowFrame
  <2>2. QED
    BY ONLY <1>1, <1>2, <2>1
<1>4. QED
  BY <1>3 DEF Ahead, End

LEMMA PublicFrame ==
  ASSUME Types, NEW x \in Nodes \ Public, NEW y \in Ends, next' = [next EXCEPT ![x] = y]
  PROVE  Follow(next', head, Nil) = Public
<1>1. next \in Ptrs /\ next' \in Ptrs /\ head \in Ends
  BY DEF Types, Ptrs, Ends
<1>2. \A m \in Follow(next, head, Nil) \ {Nil} : next'[m] = next[m]
  <2>1. Follow(next, head, Nil) \subseteq Nodes
    BY <1>1, FollowOwn
  <2>2. QED
    BY <1>1, <2>1 DEF Ptrs, Public
<1>3. Follow(next', head, Nil) = Follow(next, head, Nil)
  <2>1. ASSUME NEW g \in Ptrs, \A m \in Follow(next, head, Nil) \ {Nil} : g[m] = next[m]
        PROVE  Follow(g, head, Nil) = Follow(next, head, Nil)
    BY <1>1, <2>1, FollowFrame
  <2>2. QED
    BY ONLY <1>1, <1>2, <2>1
<1>4. QED
  BY <1>3 DEF Public

\* Neither does the order of a chain.
LEMMA AcyclicKept ==
  ASSUME Acyclic, next' = next, head' = head, nxt' = nxt, tail' = tail,
         \A u \in Updaters : pc'[u] = "splice" <=> pc[u] = "splice"
  PROVE  Acyclic'
  BY DEF Acyclic, End

LEMMA StraightAhead ==
  ASSUME Types, Acyclic, NEW u \in Updaters, NEW x \in Nodes, NEW y \in Ends,
         next' = [next EXCEPT ![x] = y],
         x \notin Ahead(u) \/ (pc[u] = "splice" /\ x = tail[u]),
         nxt'[u] = nxt[u], tail'[u] = tail[u], pc'[u] = "splice" <=> pc[u] = "splice"
  PROVE  Straight(next, nxt[u], End(u))'
<1>1. next \in Ptrs /\ next' \in Ptrs /\ nxt[u] \in Ends /\ Straight(next, nxt[u], End(u))
  BY DEF Types, Ptrs, Ends, Acyclic
<1>2. \A m \in Follow(next, nxt[u], End(u)) \ {End(u)} : next'[m] = next[m]
  <2>1. Follow(next, nxt[u], End(u)) \subseteq Nodes
    BY <1>1, FollowOwn
  <2>2. QED
    BY <1>1, <2>1 DEF Ahead, End, Ptrs
<1>3. Straight(next', nxt[u], End(u))
  BY <1>1, <1>2, StraightFrame
<1>4. End(u)' = End(u)
  BY DEF End
<1>5. QED
  BY <1>3, <1>4

LEMMA Places ==
  ASSUME Types
  PROVE  /\ Public \subseteq Nodes /\ (head # Nil => head \in Public) /\ (head = Nil => Public = {})
         /\ \A u \in Updaters : /\ Ahead(u) \subseteq Nodes
                                /\ nxt[u] # Nil => nxt[u] \in Ahead(u)
                                /\ nxt[u] = Nil => Ahead(u) = {}
  BY FollowOwn, FollowNil DEF Types, Public, Ahead

---------------------------------------------------------------------------
(* The actions *)

\* A node for an insertion leaves the stack for the hands of p.
LEMMA StartInsertStep ==
  ASSUME IInv, NEW p \in Procs, NEW w \in Workers, StartInsert(p, w), node[p] = Nil,
         pc[p] # "splice", UNCHANGED <<head, next, curr, nxt, tail>>
  PROVE  /\ Head(free) \in Nodes /\ Head(free) \notin Live
         /\ free' \in Seq(Nodes) /\ Public' = Public
         /\ \A u \in Updaters : Ahead(u)' = Ahead(u)
         /\ Apart'
<1>1. Types /\ Busy /\ Apart
  BY DEF IInv
<1>2. FreeApart /\ PublicApart /\ AheadApart /\ HandsApart
  BY <1>1 DEF Apart
<1> DEFINE x == Head(free)
<1>3. /\ x \in Free /\ x \in Nodes /\ Free' = Free \ {x} /\ free' \in Seq(Nodes)
      /\ \A i, j \in DOMAIN free' : free'[i] = free'[j] => i = j
  BY <1>1, <1>2, FreePop DEF StartInsert, Types
<1>4. /\ node' = [node EXCEPT ![p] = x] /\ curr' = curr
      /\ pc' = [pc EXCEPT ![p] = "insert"] /\ x # Nil
  BY <1>3, NilApart DEF StartInsert, Goto, NilIsNoNode
<1>5. Public' = Public
  BY PublicKept
<1>6. \A u \in Updaters : Ahead(u)' = Ahead(u)
  <2>1. \A u \in Updaters : pc'[u] = "splice" <=> pc[u] = "splice"
    BY <1>1, <1>4 DEF Types, Procs
  <2>2. QED
    BY <2>1, AheadKept
<1>7. node'[p] = x /\ \A q \in Procs \ {p} : node'[q] = node[q]
  BY <1>1, <1>4 DEF Types
<1> HIDE DEF x
<1>8. /\ x \notin Public
      /\ \A u \in Updaters : x \notin Ahead(u) /\ x # curr[u]
      /\ \A q \in Procs : x # node[q]
  BY <1>2, <1>3 DEF FreeApart
<1>9. FreeApart'
  BY <1>2, <1>3, <1>4, <1>5, <1>6, <1>7 DEF FreeApart
<1>10. PublicApart'
  BY <1>2, <1>4, <1>5, <1>6, <1>7, <1>8 DEF PublicApart
<1>11. AheadApart'
  BY <1>2, <1>4, <1>6, <1>7, <1>8 DEF AheadApart
<1>12. HandsApart'
  BY <1>2, <1>4, <1>7, <1>8 DEF HandsApart
<1>13. x \notin Live
  BY <1>8 DEF Live, Rest
<1>14. QED
  BY <1>3, <1>5, <1>6, <1>9, <1>10, <1>11, <1>12, <1>13 DEF Apart, x

LEMMA SleepStep ==
  ASSUME IInv, NEW w \in Workers, Sleep(w)
  PROVE  IInv'
<1> USE DEF Procs, Workers
<1>1. Types /\ Busy /\ Apart /\ Acyclic /\ Waits
  BY DEF IInv
<1> DEFINE x == Head(free)
<1>2. node[w] = Nil /\ pc[w] = "idle" /\ w \in Sleepers /\ state[w] = "running"
  BY <1>1 DEF Sleep, Busy
<1>3. /\ x \in Nodes /\ x \notin Live /\ free' \in Seq(Nodes) /\ Public' = Public
      /\ \A u \in Updaters : Ahead(u)' = Ahead(u)
      /\ Apart'
  BY <1>2, StartInsertStep DEF Sleep
<1> HIDE DEF x
<1>4. /\ node' = [node EXCEPT ![w] = x] /\ item' = [item EXCEPT ![x] = w]
      /\ oldHead' = [oldHead EXCEPT ![w] = head]
      /\ pc' = [pc EXCEPT ![w] = "insert"] /\ state' = [state EXCEPT ![w] = "waiting"]
      /\ over' = [over EXCEPT ![w] = FALSE] /\ pauses' = [pauses EXCEPT ![w] = @ + 1]
      /\ pauses[w] < MaxPauses
      /\ UNCHANGED <<head, next, curr, nxt, tail, count>>
  BY DEF Sleep, StartInsert, Goto, x
<1>5. w \notin Updaters
  BY WaitListAssumption
<1>6. Types'
  <2>1. pauses' \in [Workers -> 0 .. MaxPauses]
    BY <1>1, <1>4, WaitListAssumption DEF Types
  <2>2. QED
    BY <1>1, <1>3, <1>4, <2>1 DEF Types, Ends
<1>7. node'[w] = x /\ x # Nil /\ \A q \in Procs \ {w} : node'[q] = node[q]
  BY <1>1, <1>3, <1>4, NilApart DEF Types, NilIsNoNode
<1>8. Busy'
  BY <1>1, <1>3, <1>4, <1>5, <1>7 DEF Busy, Types
<1>9. \A u \in Updaters : Rest(u)' = Rest(u)
  BY <1>1, <1>3, <1>4, <1>5 DEF Rest, Types
<1>10. Live' = Live \cup {x}
  BY <1>2, <1>3, <1>7, <1>9, NilApart DEF Live, NilIsNoNode
<1>11. item'[x] = w /\ \A n \in Live : item'[n] = item[n]
  BY <1>1, <1>3, <1>4 DEF Types, Live
<1>12. Waits'
  <2>1. \A n \in Live : item[n] # w
    BY <1>1, <1>2 DEF Waits
  <2>2. state'[w] = "waiting" /\ \A v \in Sleepers \ {w} : state'[v] = state[v]
    BY <1>1, <1>4 DEF Types
  <2>3. QED
    BY <1>1, <1>2, <1>10, <1>11, <2>1, <2>2 DEF Waits
<1>13. Acyclic'
  <2>1. \A u \in Updaters : pc'[u] = "splice" <=> pc[u] = "splice"
    BY <1>1, <1>4, <1>5 DEF Types
  <2>2. QED
    BY <1>1, <1>4, <2>1, AcyclicKept
<1>14. QED
  BY <1>3, <1>6, <1>8, <1>12, <1>13 DEF IInv

\* Nothing moves between places.
LEMMA ApartKept ==
  ASSUME Apart, free' = free, Public' = Public, \A u \in Updaters : Ahead(u)' = Ahead(u),
         curr' = curr, node' = node
  PROVE  Apart'
  BY DEF Apart, FreeApart, PublicApart, AheadApart, HandsApart, Free

\* The same nodes are live, for the same workers.
LEMMA WaitsKept ==
  ASSUME Waits, Live' = Live, item' = item, \A w \in Sleepers : state'[w] = state[w]
  PROVE  Waits'
  BY DEF Waits

LEMMA PauseStep ==
  ASSUME IInv, NEW w \in Workers, PauseForPages(w) \/ Elapse(w)
  PROVE  IInv'
<1> USE DEF Procs, Workers
<1>1. Types /\ Busy /\ Apart /\ Acyclic /\ Waits
  BY DEF IInv
<1>2. /\ UNCHANGED <<head, next, item, free, pc, node, oldHead, curr, nxt, tail, count>>
      /\ state' = state \/ (w \in Allocators /\ state' = [state EXCEPT ![w] = "waiting"])
      /\ over' = [over EXCEPT ![w] = FALSE] \/ over' = [over EXCEPT ![w] = TRUE]
      /\ pauses' = pauses \/ (pauses[w] < MaxPauses /\ pauses' = [pauses EXCEPT ![w] = @ + 1])
  BY DEF PauseForPages, Elapse
<1>3. Types'
  <2>1. pauses' \in [Workers -> 0 .. MaxPauses]
    <3>1. CASE pauses' = pauses
      BY <1>1, <3>1 DEF Types
    <3>2. CASE pauses[w] < MaxPauses /\ pauses' = [pauses EXCEPT ![w] = @ + 1]
      BY <1>1, <3>2, WaitListAssumption DEF Types
    <3>3. QED
      BY <1>2, <3>1, <3>2
  <2>2. state' \in [Workers -> {"running", "waiting"}] /\ over' \in [Workers -> BOOLEAN]
    BY <1>1, <1>2 DEF Types
  <2>3. QED
    BY <1>1, <1>2, <2>1, <2>2 DEF Types
<1>4. Public' = Public /\ \A u \in Updaters : Ahead(u)' = Ahead(u) /\ Rest(u)' = Rest(u)
  BY <1>2 DEF Public, Ahead, Rest, End
<1>5. Busy' /\ Live' = Live
  BY <1>1, <1>2, <1>4 DEF Busy, Live
<1>6. \A v \in Sleepers : state'[v] = state[v]
  BY <1>1, <1>2, WaitListAssumption DEF Types
<1>7. Acyclic'
  BY <1>1, <1>2, AcyclicKept
<1>8. QED
  BY <1>1, <1>2, <1>3, <1>4, <1>5, <1>6, <1>7, ApartKept, WaitsKept DEF IInv

LEMMA TakeAllStep ==
  ASSUME IInv, NEW u \in Updaters, TakeAll(u)
  PROVE  IInv'
<1> USE DEF Procs
<1>1. Types /\ Busy /\ Apart /\ Acyclic /\ Waits
  BY DEF IInv
<1>2. FreeApart /\ PublicApart /\ AheadApart /\ HandsApart
  BY <1>1 DEF Apart
<1>3. /\ pc[u] = "idle" /\ head # Nil /\ head' = Nil
      /\ curr' = [curr EXCEPT ![u] = head] /\ nxt' = [nxt EXCEPT ![u] = next[head]]
      /\ count' = [count EXCEPT ![u] = 0] /\ pc' = [pc EXCEPT ![u] = "update"]
      /\ UNCHANGED <<next, item, free, state, over, pauses, node, oldHead, tail>>
  BY DEF TakeAll, Goto
<1>4. head \in Nodes /\ next[head] \in Ends
  BY <1>1, <1>3 DEF Types, Ends, Ptrs
<1>5. Types'
  BY <1>1, <1>3, <1>4, NilApart, WaitListAssumption DEF Types, Ends
<1>6. /\ curr'[u] = head /\ nxt'[u] = next[head] /\ pc'[u] = "update" /\ count'[u] = 0
      /\ \A v \in Updaters \ {u} : /\ curr'[v] = curr[v] /\ nxt'[v] = nxt[v] /\ pc'[v] = pc[v]
                                   /\ count'[v] = count[v]
      /\ \A p \in Procs \ {u} : pc'[p] = pc[p]
  BY <1>1, <1>3 DEF Types
<1>7. curr[u] = Nil /\ nxt[u] = Nil /\ Ahead(u) = {} /\ node[u] = Nil
  BY <1>1, <1>3, Places DEF Busy
<1>8. Public' = {}
  BY <1>3, <1>5, FollowNil DEF Public, Types
<1>9. Ahead(u)' = Follow(next, next[head], Nil)
  BY <1>3, <1>6 DEF Ahead, End
<1>10. Public = {head} \cup Ahead(u)'
  BY <1>1, <1>3, <1>4, <1>9, FollowStep DEF Public, Types
<1>11. head \notin Ahead(u)' /\ Straight(next, next[head], Nil)
  BY <1>1, <1>3, <1>4, <1>9, NilApart, StraightStep DEF Types, Acyclic, NilIsNoNode
<1>12. \A v \in Updaters \ {u} : Ahead(v)' = Ahead(v) /\ End(v)' = End(v)
  BY <1>3, <1>6 DEF Ahead, End
<1>13. head # Nil /\ Ahead(u)' \subseteq Public /\ head \in Public
  BY <1>3, <1>10
<1>14. FreeApart'
  <2>1. Free' = Free
    BY <1>3 DEF Free
  <2>2. QED
    BY <1>2, <1>3, <1>6, <1>8, <1>12, <1>13, <2>1 DEF FreeApart
<1>15. PublicApart'
  BY <1>8 DEF PublicApart
<1>16. AheadApart'
  <2>1. ASSUME NEW v \in Updaters, NEW z \in Updaters PROVE curr'[z] \notin Ahead(v)'
    <3>1. CASE v = u
      BY <1>2, <1>6, <1>11, <1>13, <3>1 DEF PublicApart
    <3>2. CASE v # u
      BY <1>2, <1>6, <1>12, <1>13, <3>2 DEF PublicApart, AheadApart
    <3>3. QED
      BY <3>1, <3>2
  <2>2. ASSUME NEW v \in Updaters, NEW z \in Updaters \ {v} PROVE Ahead(v)' \cap Ahead(z)' = {}
    BY <1>2, <1>12, <1>13 DEF PublicApart, AheadApart
  <2>3. ASSUME NEW v \in Updaters, NEW p \in Procs PROVE node'[p] \notin Ahead(v)'
    BY <1>2, <1>3, <1>12, <1>13 DEF PublicApart, AheadApart
  <2>4. QED
    BY <2>1, <2>2, <2>3 DEF AheadApart
<1>17. HandsApart'
  BY <1>2, <1>3, <1>6, <1>13 DEF PublicApart, HandsApart
<1>18. Acyclic'
  <2>1. Straight(next, nxt[u], End(u))'
    BY <1>3, <1>6, <1>11 DEF End
  <2>2. Straight(next, head, Nil)'
    BY <1>8 DEF Straight, Public
  <2>3. QED
    BY <1>1, <1>3, <1>6, <1>12, <2>1, <2>2 DEF Acyclic
<1>19. Busy'
  BY <1>1, <1>3, <1>4, <1>6, <1>7, <1>12, NilApart, WaitListAssumption DEF Busy, NilIsNoNode
<1>20. Live' = Live
  <2>1. Rest(u)' = Public
    BY <1>6, <1>10 DEF Rest
  <2>2. Rest(u) = {} /\ \A v \in Updaters \ {u} : Rest(v)' = Rest(v)
    BY <1>3, <1>6, <1>7, <1>12 DEF Rest
  <2>3. QED
    BY <1>3, <1>8, <2>1, <2>2 DEF Live
<1>21. QED
  BY <1>1, <1>3, <1>5, <1>14, <1>15, <1>16, <1>17, <1>18, <1>19, <1>20, WaitsKept DEF IInv, Apart

\* The worker of the current node goes on: the node is live no more.
LEMMA ResumeStep ==
  ASSUME IInv, NEW u \in Updaters, pc[u] = "update",
         state' = [state EXCEPT ![item[curr[u]]] = "running"],
         count' = [count EXCEPT ![u] = @ + 1], Goto(u, "advance"),
         UNCHANGED <<head, next, item, free, over, pauses, node, oldHead, curr, nxt, tail>>
  PROVE  IInv'
<1> USE DEF Procs
<1>1. Types /\ Busy /\ Apart /\ Acyclic /\ Waits
  BY DEF IInv
<1>2. FreeApart /\ PublicApart /\ AheadApart /\ HandsApart
  BY <1>1 DEF Apart
<1> DEFINE c == curr[u]
           w == item[c]
<1>3. c \in Nodes /\ c \in Rest(u) /\ c \in Live
  BY <1>1 DEF Types, Busy, Rest, Live, Ends
<1>4. w \in Workers
  BY <1>1, <1>3 DEF Waits
<1>5. count[u] < THRESHOLD
  BY <1>1 DEF Busy
<1> HIDE DEF c, w
<1>6. /\ pc' = [pc EXCEPT ![u] = "advance"] /\ state' = [state EXCEPT ![w] = "running"]
      /\ pc[u] = "update" /\ count' = [count EXCEPT ![u] = @ + 1]
      /\ UNCHANGED <<head, next, item, free, over, pauses, node, oldHead, curr, nxt, tail>>
  BY DEF Goto, c, w
<1>7. Types'
  <2>1. count' \in [Updaters -> 0 .. THRESHOLD]
    BY <1>1, <1>5, <1>6, WaitListAssumption DEF Types
  <2>2. QED
    BY <1>1, <1>4, <1>6, <2>1 DEF Types
<1>8. pc'[u] = "advance" /\ \A p \in Procs \ {u} : pc'[p] = pc[p]
  BY <1>1, <1>6 DEF Types
<1>9. Public' = Public /\ \A v \in Updaters : Ahead(v)' = Ahead(v)
  BY <1>6, <1>8, AheadKept, PublicKept
<1>10. Apart' /\ Acyclic'
  BY <1>1, <1>6, <1>8, <1>9, ApartKept, AcyclicKept
<1>11. Busy'
  <2>1. u \notin Workers
    BY WaitListAssumption
  <2>2. \A v \in Updaters \ {u} : count'[v] = count[v]
    BY <1>1, <1>6 DEF Types
  <2>3. QED
    BY <1>1, <1>6, <1>8, <1>9, <2>1, <2>2 DEF Busy
<1>12. Live' = Live \ {c}
  <2>1. Rest(u)' = Rest(u) \ {c} /\ \A v \in Updaters \ {u} : Rest(v)' = Rest(v)
    BY <1>2, <1>6, <1>8, <1>9 DEF Rest, AheadApart, c
  <2>2. c \notin Public /\ \A v \in Updaters \ {u} : c \notin Rest(v)
    BY <1>2, <1>3, NilApart DEF PublicApart, AheadApart, HandsApart, Rest, NilIsNoNode, c
  <2>3. \A p \in Procs : node[p] # c
    BY <1>2, <1>3, NilApart DEF HandsApart, NilIsNoNode, c
  <2>4. QED
    BY <1>6, <1>9, <2>1, <2>2, <2>3 DEF Live
<1>13. Waits'
  <2>1. item[c] = w /\ state'[w] = "running" /\ \A v \in Sleepers \ {w} : state'[v] = state[v]
    BY <1>1, <1>4, <1>6 DEF Types, Workers, w
  <2>2. \A n \in Live \ {c} : item[n] = w => w \notin Sleepers
    BY <1>1, <1>3, <2>1 DEF Waits
  <2>3. QED
    BY <1>1, <1>6, <1>12, <2>1, <2>2 DEF Waits
<1>14. QED
  BY <1>7, <1>10, <1>11, <1>13 DEF IInv

\* The worker of the current node waits again, in another node.
LEMMA RewaitStep ==
  ASSUME IInv, NEW u \in Updaters, pc[u] = "update", StartInsert(u, item[curr[u]]),
         UNCHANGED <<head, next, state, over, pauses, curr, nxt, tail, count>>
  PROVE  IInv'
<1> USE DEF Procs
<1>1. Types /\ Busy /\ Apart /\ Acyclic /\ Waits
  BY DEF IInv
<1>2. FreeApart /\ PublicApart /\ AheadApart /\ HandsApart
  BY <1>1 DEF Apart
<1> DEFINE c == curr[u]
           w == item[c]
           x == Head(free)
<1>3. c \in Nodes /\ c \in Rest(u) /\ c \in Live
  BY <1>1 DEF Types, Busy, Rest, Live, Ends
<1>4. w \in Workers
  BY <1>1, <1>3 DEF Waits
<1>5. node[u] = Nil
  BY <1>1 DEF Busy
<1>6. /\ x \in Nodes /\ x \notin Live /\ free' \in Seq(Nodes) /\ Public' = Public
      /\ \A v \in Updaters : Ahead(v)' = Ahead(v)
      /\ Apart'
  BY <1>4, <1>5, StartInsertStep
<1> HIDE DEF c, w, x
<1>7. /\ node' = [node EXCEPT ![u] = x] /\ item' = [item EXCEPT ![x] = w]
      /\ oldHead' = [oldHead EXCEPT ![u] = head]
      /\ pc' = [pc EXCEPT ![u] = "insert"] /\ pc[u] = "update"
      /\ UNCHANGED <<head, next, state, over, pauses, curr, nxt, tail, count>>
  BY DEF StartInsert, Goto, c, w, x
<1>8. Types'
  BY <1>1, <1>4, <1>6, <1>7 DEF Types, Ends
<1>9. /\ node'[u] = x /\ x # Nil /\ \A q \in Procs \ {u} : node'[q] = node[q]
      /\ pc'[u] = "insert" /\ \A q \in Procs \ {u} : pc'[q] = pc[q]
  BY <1>1, <1>6, <1>7, NilApart DEF Types, NilIsNoNode
<1>10. Busy'
  <2>1. u \notin Workers
    BY WaitListAssumption
  <2>2. QED
    BY <1>1, <1>6, <1>7, <1>9, <2>1 DEF Busy
<1>11. Acyclic'
  BY <1>1, <1>7, <1>9, AcyclicKept
<1>12. Live' = (Live \ {c}) \cup {x}
  <2>1. Rest(u)' = Rest(u) \ {c} /\ \A v \in Updaters \ {u} : Rest(v)' = Rest(v)
    BY <1>2, <1>6, <1>7, <1>9 DEF Rest, AheadApart, c
  <2>2. c \notin Public /\ \A v \in Updaters \ {u} : c \notin Rest(v)
    BY <1>2, <1>3, NilApart DEF PublicApart, AheadApart, HandsApart, Rest, NilIsNoNode, c
  <2>3. \A p \in Procs : node[p] # c
    BY <1>2, <1>3, NilApart DEF HandsApart, NilIsNoNode, c
  <2>4. \A n \in Nodes : (\E p \in Procs : node'[p] = n) <=> n = x \/ \E p \in Procs : node[p] = n
    BY <1>5, <1>9, NilApart DEF NilIsNoNode
  <2>5. QED
    BY <1>6, <2>1, <2>2, <2>3, <2>4 DEF Live
<1>13. Waits'
  <2>1. item'[x] = w /\ item[c] = w /\ \A n \in Live : item'[n] = item[n]
    BY <1>1, <1>6, <1>7 DEF Types, Live, w
  <2>2. \A n \in Live \ {c} : item[n] = w => w \notin Sleepers
    BY <1>1, <1>3, <2>1 DEF Waits
  <2>3. w \in Sleepers => state[w] = "waiting"
    BY <1>1, <1>3, <2>1 DEF Waits
  <2>4. QED
    BY <1>1, <1>3, <1>4, <1>7, <1>12, <2>1, <2>2, <2>3 DEF Waits
<1>14. QED
  BY <1>6, <1>8, <1>10, <1>11, <1>13 DEF IInv

LEMMA UpdateStep ==
  ASSUME IInv, NEW u \in Updaters, Update(u)
  PROVE  IInv'
<1>1. pc[u] = "update"
  BY DEF Update
<1>2. CASE over[item[curr[u]]]
  BY <1>1, <1>2, ResumeStep DEF Update
<1>3. CASE ~ over[item[curr[u]]]
  BY <1>1, <1>3, RewaitStep DEF Update
<1>4. QED
  BY <1>2, <1>3

\* The node in the hands of p becomes the head of the list.
LEMMA InsertedStep ==
  ASSUME IInv, NEW p \in Procs, Insert(p), head = oldHead[p]
  PROVE  IInv'
<1> USE DEF Procs
<1>1. Types /\ Busy /\ Apart /\ Acyclic /\ Waits
  BY DEF IInv
<1>2. FreeApart /\ PublicApart /\ AheadApart /\ HandsApart
  BY <1>1 DEF Apart
<1> DEFINE x == node[p]
<1>3. /\ pc[p] = "insert" /\ next' = [next EXCEPT ![x] = head] /\ head' = x
      /\ node' = [node EXCEPT ![p] = Nil]
      /\ pc' = [pc EXCEPT ![p] = IF p \in Updaters THEN "advance" ELSE "idle"]
      /\ oldHead' = [oldHead EXCEPT ![p] = Nil]
      /\ UNCHANGED <<item, free, state, over, pauses, curr, nxt, tail, count>>
  BY DEF Insert, Goto
<1>4. x \in Nodes /\ x # Nil /\ head \in Ends
  BY <1>1, <1>3 DEF Types, Busy, Ends
<1>5. /\ x \notin Public
      /\ \A u \in Updaters : x \notin Ahead(u) /\ (x = curr[u] => x = Nil)
      /\ \A q \in Procs \ {p} : x # node[q]
      /\ x \notin Free
  BY <1>2, <1>4 DEF PublicApart, AheadApart, HandsApart, FreeApart
<1>6. node'[p] = Nil /\ \A q \in Procs \ {p} : node'[q] = node[q]
  BY <1>1, <1>3 DEF Types
<1> HIDE DEF x
<1>7. Types'
  BY <1>1, <1>3, <1>4 DEF Types, Ptrs, Ends
<1>8. \A q \in Procs : pc'[q] = "splice" <=> pc[q] = "splice"
  BY <1>1, <1>3 DEF Types
<1>9. \A u \in Updaters : Ahead(u)' = Ahead(u)
  BY <1>1, <1>3, <1>4, <1>5, <1>8, AheadFrame
<1>10. Public' = {x} \cup Public /\ Straight(next, head, Nil)'
  BY <1>1, <1>3, <1>4, <1>5, StraightPush DEF Public, Types, Acyclic
<1>11. Acyclic'
  <2>1. \A u \in Updaters : Straight(next, nxt[u], End(u))'
    BY <1>1, <1>3, <1>4, <1>5, <1>8, StraightAhead
  <2>2. QED
    BY <1>10, <2>1 DEF Acyclic
<1>12. FreeApart'
  <2>1. Free' = Free
    BY <1>3 DEF Free
  <2>2. ASSUME NEW n \in Free PROVE n # Nil
    BY <1>1, NilApart, <2>2 DEF Types, Free, NilIsNoNode
  <2>3. QED
    BY <1>2, <1>3, <1>5, <1>6, <1>9, <1>10, <2>1, <2>2 DEF FreeApart
<1>13. \A u \in Updaters : Nil \notin Ahead(u)
  BY <1>1, Places, NilApart DEF NilIsNoNode
<1>14. \A n \in Public : n # Nil
  BY <1>1, Places, NilApart DEF NilIsNoNode
<1>15. PublicApart'
  BY <1>2, <1>3, <1>4, <1>5, <1>6, <1>9, <1>10, <1>14 DEF PublicApart
<1>16. AheadApart'
  BY <1>2, <1>3, <1>6, <1>9, <1>13 DEF AheadApart
<1>17. HandsApart'
  BY <1>2, <1>3, <1>6 DEF HandsApart
<1>18. Busy'
  <2>1. pc'[p] # "insert" /\ \A q \in Procs \ {p} : pc'[q] = pc[q]
    BY <1>1, <1>3 DEF Types
  <2>2. /\ p \in Updaters => pc'[p] = "advance"
        /\ p \in Workers => pc'[p] = "idle"
    BY <1>1, <1>3, WaitListAssumption DEF Types
  <2>3. QED
    BY <1>1, <1>3, <1>6, <1>9, <2>1, <2>2 DEF Busy
<1>19. Live' = Live
  <2>1. \A u \in Updaters : Rest(u)' = Rest(u)
    BY <1>1, <1>3, <1>9 DEF Rest, Types
  <2>2. \A n \in Nodes : (\E q \in Procs : node[q] = n) <=> n = x \/ \E q \in Procs : node'[q] = n
    BY <1>4, <1>6, NilApart DEF x, NilIsNoNode
  <2>3. QED
    BY <1>10, <2>1, <2>2 DEF Live
<1>20. QED
  BY <1>1, <1>3, <1>7, <1>11, <1>12, <1>15, <1>16, <1>17, <1>18, <1>19, WaitsKept
     DEF IInv, Apart

\* The list has changed since the head was loaded: another try.
LEMMA RetryInsertStep ==
  ASSUME IInv, NEW p \in Procs, Insert(p), head # oldHead[p]
  PROVE  IInv'
<1> USE DEF Procs
<1>1. Types /\ Busy /\ Apart /\ Acyclic /\ Waits
  BY DEF IInv
<1>2. PublicApart /\ AheadApart
  BY <1>1 DEF Apart
<1> DEFINE x == node[p]
<1>3. /\ pc[p] = "insert" /\ next' = [next EXCEPT ![x] = oldHead[p]]
      /\ oldHead' = [oldHead EXCEPT ![p] = head]
      /\ UNCHANGED <<head, node, pc, item, free, state, over, pauses, curr, nxt, tail, count>>
  BY DEF Insert
<1>4. x \in Nodes /\ oldHead[p] \in Ends
  BY <1>1, <1>3 DEF Types, Busy, Ends
<1>5. x \in Nodes \ Public /\ \A u \in Updaters : x \notin Ahead(u)
  BY <1>2, <1>4 DEF PublicApart, AheadApart
<1> HIDE DEF x
<1>6. Types'
  BY <1>1, <1>3, <1>4 DEF Types, Ptrs, Ends
<1>7. \A u \in Updaters : Ahead(u)' = Ahead(u) /\ Straight(next, nxt[u], End(u))'
  BY <1>1, <1>3, <1>4, <1>5, AheadFrame, StraightAhead
<1>8. Public' = Public
  BY <1>1, <1>3, <1>4, <1>5, PublicFrame DEF Public
<1>9. Straight(next, head, Nil)'
  <2>1. \A m \in Follow(next, head, Nil) \ {Nil} : next'[m] = next[m]
    BY <1>1, <1>3, <1>5, Places DEF Public, Types, Ptrs
  <2>2. QED
    BY <1>1, <1>3, <1>6, <2>1, StraightFrame DEF Types, Acyclic
<1>10. Apart' /\ Acyclic'
  BY <1>1, <1>3, <1>7, <1>8, <1>9, ApartKept DEF Acyclic
<1>11. Busy' /\ Live' = Live
  BY <1>1, <1>3, <1>7, <1>8 DEF Busy, Live, Rest
<1>12. QED
  BY <1>1, <1>3, <1>6, <1>10, <1>11, WaitsKept DEF IInv

LEMMA InsertStep ==
  ASSUME IInv, NEW p \in Procs, Insert(p)
  PROVE  IInv'
  BY InsertedStep, RetryInsertStep

\* Enough workers were resumed: the rest of the chain is walked.
LEMMA AdvanceToWalkStep ==
  ASSUME IInv, NEW u \in Updaters, pc[u] = "advance", nxt[u] # Nil,
         tail' = [tail EXCEPT ![u] = nxt[u]], Goto(u, "walk"),
         UNCHANGED <<head, next, item, free, state, over, pauses, node, oldHead, curr, nxt, count>>
  PROVE  IInv'
<1> USE DEF Procs
<1>1. Types /\ Busy /\ Apart /\ Acyclic /\ Waits
  BY DEF IInv
<1>2. pc' = [pc EXCEPT ![u] = "walk"]
  BY DEF Goto
<1>3. Types'
  BY <1>1, <1>2 DEF Types
<1>4. /\ pc'[u] = "walk" /\ tail'[u] = nxt[u] /\ \A p \in Procs \ {u} : pc'[p] = pc[p]
      /\ \A v \in Updaters \ {u} : tail'[v] = tail[v]
  BY <1>1, <1>2 DEF Types
<1>5. \A v \in Updaters : Ahead(v)' = Ahead(v) /\ End(v)' = End(v)
  BY <1>4 DEF Ahead, End
<1>6. Public' = Public
  BY PublicKept
<1>7. Apart' /\ Acyclic'
  BY <1>1, <1>5, <1>6, ApartKept DEF Acyclic
<1>8. Busy'
  <2>1. u \notin Workers /\ nxt[u] \in Ahead(u)
    BY <1>1, WaitListAssumption, Places
  <2>2. QED
    BY <1>1, <1>4, <1>5, <2>1 DEF Busy
<1>9. Live' = Live
  <2>1. \A v \in Updaters : Rest(v)' = Rest(v)
    BY <1>4, <1>5 DEF Rest
  <2>2. QED
    BY <1>6, <2>1 DEF Live
<1>10. QED
  BY <1>1, <1>3, <1>7, <1>8, <1>9, WaitsKept DEF IInv

\* The current node is freed; the next one, if any, becomes current.
LEMMA AdvanceFreeStep ==
  ASSUME IInv, NEW u \in Updaters, pc[u] = "advance",
         ~ (count[u] >= THRESHOLD /\ nxt[u] # Nil),
         free' = <<curr[u]>> \o free,
         curr' = [curr EXCEPT ![u] = nxt[u]], nxt' = [nxt EXCEPT ![u] = After(nxt[u])],
         Goto(u, IF nxt[u] = Nil THEN "idle" ELSE "update"),
         UNCHANGED <<head, next, item, state, over, pauses, node, oldHead, tail, count>>
  PROVE  IInv'
<1> USE DEF Procs
<1>1. Types /\ Busy /\ Apart /\ Acyclic /\ Waits
  BY DEF IInv
<1>2. FreeApart /\ PublicApart /\ AheadApart /\ HandsApart
  BY <1>1 DEF Apart
<1> DEFINE c == curr[u]
           y == nxt[u]
<1>3. c \in Nodes /\ c # Nil /\ y \in Ends
  BY <1>1 DEF Types, Busy, Ends
<1>4. /\ c \notin Public /\ \A v \in Updaters : c \notin Ahead(v)
      /\ \A p \in Procs : c # node[p] /\ c \notin Free
      /\ \A v \in Updaters \ {u} : c # curr[v]
  BY <1>2, <1>3 DEF PublicApart, AheadApart, HandsApart, FreeApart
<1>5. /\ Free' = Free \cup {c} /\ free' \in Seq(Nodes)
      /\ \A i, j \in DOMAIN free' : free'[i] = free'[j] => i = j
  BY <1>1, <1>2, <1>3, <1>4, FreePush DEF Types, FreeApart
<1> DEFINE l == IF y = Nil THEN "idle" ELSE "update"
           a == After(y)
<1>6. a \in Ends /\ (y = Nil => a = Nil) /\ (y # Nil => a = next[y])
  BY <1>1, <1>3 DEF After, Types, Ends, Ptrs
<1>7. /\ pc' = [pc EXCEPT ![u] = l] /\ curr' = [curr EXCEPT ![u] = y]
      /\ nxt' = [nxt EXCEPT ![u] = a] /\ l \in {"idle", "update"}
  BY DEF Goto
<1>8. /\ pc'[u] = l /\ curr'[u] = y /\ nxt'[u] = a
      /\ \A p \in Procs \ {u} : pc'[p] = pc[p]
      /\ \A v \in Updaters \ {u} : curr'[v] = curr[v] /\ nxt'[v] = nxt[v]
  BY <1>1, <1>7 DEF Types
<1>9. y = Nil <=> l = "idle"
  OBVIOUS
<1>10. u \notin Workers /\ count[u] \in Nat /\ THRESHOLD \in Nat
  BY <1>1, WaitListAssumption DEF Types
<1>11. l = "update" => count[u] < THRESHOLD
  BY <1>10
<1> HIDE DEF c, a, l
<1>12. Types'
  BY <1>1, <1>3, <1>5, <1>6, <1>7 DEF Types
<1>13. Public' = Public
  BY PublicKept
<1>14. \A v \in Updaters \ {u} : Ahead(v)' = Ahead(v) /\ End(v)' = End(v)
  BY <1>8 DEF Ahead, End
<1>15. /\ Ahead(u)' = Follow(next, a, Nil) /\ Ahead(u) = Follow(next, y, Nil)
       /\ End(u)' = Nil /\ End(u) = Nil
  BY <1>8, <1>7 DEF Ahead, End
<1>16. /\ Ahead(u) = (IF y = Nil THEN {} ELSE {y}) \cup Ahead(u)' /\ y \notin Ahead(u)'
       /\ Straight(next, a, Nil)
  <2>1. CASE y = Nil
    <3>1. Ahead(u) = {} /\ Ahead(u)' = {}
      BY <1>1, <1>6, <1>15, <2>1, FollowNil DEF Types
    <3>2. QED
      BY <1>15, <2>1, <3>1 DEF Straight
  <2>2. CASE y # Nil
    <3>1. y \in Nodes /\ Straight(next, y, Nil) /\ next \in Ptrs /\ a = next[y]
      BY <1>1, <1>3, <1>6, <1>15, <2>2 DEF Ends, Types, Acyclic
    <3>2. QED
      BY <1>15, <2>2, <3>1, FollowStep, StraightStep
  <2>3. QED
    BY <2>1, <2>2
<1>17. Ahead(u)' \subseteq Ahead(u) /\ (y # Nil => y \in Ahead(u))
  BY <1>16
<1>18. Nil \notin Public /\ \A v \in Updaters : Nil \notin Ahead(v)
  BY <1>1, Places, NilApart DEF NilIsNoNode
<1>19. \A n \in Free : n # Nil
  BY <1>1, NilApart DEF Types, Free, NilIsNoNode
<1>20. FreeApart'
  <2>1. ASSUME NEW n \in Free', NEW v \in Updaters PROVE n \notin Ahead(v)' /\ n # curr'[v]
    <3>1. n \notin Ahead(v) /\ n # Nil
      BY <1>2, <1>3, <1>4, <1>5, <1>19 DEF FreeApart
    <3>2. CASE v = u
      BY <1>8, <1>17, <3>1, <3>2
    <3>3. CASE v # u
      BY <1>2, <1>4, <1>5, <1>8, <1>14, <3>1, <3>3 DEF FreeApart
    <3>4. QED
      BY <3>2, <3>3
  <2>2. ASSUME NEW n \in Free' PROVE n \notin Public' /\ \A p \in Procs : n # node'[p]
    BY <1>2, <1>4, <1>5, <1>13 DEF FreeApart
  <2>3. QED
    BY <1>5, <2>1, <2>2 DEF FreeApart
<1>21. PublicApart'
  <2>1. ASSUME NEW n \in Public, NEW v \in Updaters PROVE n \notin Ahead(v)' /\ n # curr'[v]
    BY <1>2, <1>8, <1>14, <1>17, <1>18 DEF PublicApart
  <2>2. QED
    BY <1>2, <1>13, <2>1 DEF PublicApart
<1>22. AheadApart'
  <2>1. ASSUME NEW v \in Updaters, NEW z \in Updaters PROVE curr'[z] \notin Ahead(v)'
    <3>1. CASE z = u
      BY <1>2, <1>8, <1>14, <1>16, <1>17, <1>18, <3>1 DEF AheadApart
    <3>2. CASE z # u
      BY <1>2, <1>8, <1>14, <1>17, <3>2 DEF AheadApart
    <3>3. QED
      BY <3>1, <3>2
  <2>2. ASSUME NEW v \in Updaters, NEW z \in Updaters \ {v} PROVE Ahead(v)' \cap Ahead(z)' = {}
    BY <1>2, <1>14, <1>17 DEF AheadApart
  <2>3. ASSUME NEW v \in Updaters, NEW p \in Procs PROVE node'[p] \notin Ahead(v)'
    BY <1>2, <1>14, <1>17 DEF AheadApart
  <2>4. QED
    BY <2>1, <2>2, <2>3 DEF AheadApart
<1>23. HandsApart'
  <2>1. \A v \in Updaters \ {u} : curr[v] = y => y = Nil
    BY <1>2, <1>17 DEF AheadApart
  <2>2. \A p \in Procs : node[p] = y => y = Nil
    BY <1>2, <1>17 DEF AheadApart
  <2>3. QED
    BY <1>2, <1>8, <2>1, <2>2 DEF HandsApart
<1>24. Acyclic'
  BY <1>1, <1>8, <1>14, <1>15, <1>16 DEF Acyclic
<1>25. Busy'
  BY <1>1, <1>6, <1>8, <1>7, <1>9, <1>10, <1>11, <1>14 DEF Busy
<1>26. Live' = Live
  <2>1. Rest(u)' = Rest(u)
    BY <1>8, <1>7, <1>9, <1>16 DEF Rest
  <2>2. \A v \in Updaters \ {u} : Rest(v)' = Rest(v)
    BY <1>8, <1>14 DEF Rest
  <2>3. QED
    BY <1>13, <2>1, <2>2 DEF Live
<1>27. QED
  BY <1>1, <1>12, <1>20, <1>21, <1>22, <1>23, <1>24, <1>25, <1>26, WaitsKept DEF IInv, Apart

LEMMA AdvanceStep ==
  ASSUME IInv, NEW u \in Updaters, Advance(u)
  PROVE  IInv'
<1>1. CASE count[u] >= THRESHOLD /\ nxt[u] # Nil
  BY <1>1, AdvanceToWalkStep DEF Advance
<1>2. CASE ~ (count[u] >= THRESHOLD /\ nxt[u] # Nil)
  BY <1>2, AdvanceFreeStep DEF Advance
<1>3. QED
  BY <1>1, <1>2

LEMMA WalkStep ==
  ASSUME IInv, NEW u \in Updaters, Walk(u)
  PROVE  IInv'
<1> USE DEF Procs
<1>1. Types /\ Busy /\ Apart /\ Acyclic /\ Waits
  BY DEF IInv
<1> DEFINE t == tail[u]
<1>2. /\ pc[u] = "walk" /\ t \in Ahead(u) /\ t \in Nodes /\ t # Nil
      /\ End(u) = Nil /\ Ahead(u) = Follow(next, nxt[u], Nil)
  <2>1. pc[u] = "walk" /\ t \in Ahead(u)
    BY <1>1 DEF Walk, Busy
  <2>2. QED
    BY <1>1, <2>1, Places, NilApart DEF End, Ahead, NilIsNoNode
<1>3. UNCHANGED <<head, next, item, free, state, over, pauses, node, curr, nxt, count>>
  BY DEF Walk
<1>4. u \notin Workers
  BY WaitListAssumption
<1>5. Public' = Public
  BY <1>3, PublicKept
<1>6. CASE next[t] # Nil
  <2>1. tail' = [tail EXCEPT ![u] = next[t]] /\ pc' = pc /\ oldHead' = oldHead
    BY <1>6 DEF Walk
  <2>2. next[t] \in Ends
    BY <1>1, <1>2 DEF Types, Ptrs, Ends
  <2>3. Types'
    BY <1>1, <1>3, <2>1, <2>2 DEF Types
  <2>4. tail'[u] = next[t] /\ \A v \in Updaters \ {u} : tail'[v] = tail[v]
    BY <1>1, <2>1 DEF Types
  <2>5. \A v \in Updaters : Ahead(v)' = Ahead(v) /\ End(v)' = End(v)
    BY <1>2, <1>3, <2>1, <2>4 DEF Ahead, End
  <2>6. next[t] \in Ahead(u)
    <3>1. Walks(next, Ahead(u), nxt[u], Nil)
      BY <1>1, <1>2, FollowIs DEF Types
    <3>2. QED
      BY <1>2, <1>6, <3>1 DEF Walks
  <2>7. Apart' /\ Acyclic'
    BY <1>1, <1>3, <1>5, <2>5, ApartKept DEF Acyclic
  <2>8. Busy'
    BY <1>1, <1>3, <1>4, <2>1, <2>4, <2>5, <2>6 DEF Busy
  <2>9. Live' = Live
    <3>1. \A v \in Updaters : Rest(v)' = Rest(v)
      BY <1>3, <2>1, <2>5 DEF Rest
    <3>2. QED
      BY <1>3, <1>5, <3>1 DEF Live
  <2>10. QED
    BY <1>1, <1>3, <2>3, <2>7, <2>8, <2>9, WaitsKept DEF IInv
<1>7. CASE next[t] = Nil
  <2>1. /\ tail' = tail /\ pc' = [pc EXCEPT ![u] = "splice"]
        /\ oldHead' = [oldHead EXCEPT ![u] = head]
    BY <1>7 DEF Walk, Goto
  <2>2. Types'
    BY <1>1, <1>3, <2>1 DEF Types
  <2>3. pc'[u] = "splice" /\ \A p \in Procs \ {u} : pc'[p] = pc[p]
    BY <1>1, <2>1 DEF Types
  <2>4. \A v \in Updaters \ {u} : Ahead(v)' = Ahead(v) /\ End(v)' = End(v)
    BY <1>3, <2>1, <2>3 DEF Ahead, End
  <2>5. End(u)' = t /\ Ahead(u)' = Follow(next, nxt[u], t)
    BY <1>3, <2>1, <2>3 DEF Ahead, End
  <2>6. Ahead(u)' = Ahead(u) /\ Straight(next, nxt[u], t)
    <3>1. next \in Ptrs /\ nxt[u] \in Ends /\ Straight(next, nxt[u], Nil)
      BY <1>1, <1>2 DEF Types, Acyclic
    <3>2. QED
      BY <1>2, <1>7, <2>5, <3>1, FollowEnd, StraightEnd
  <2>7. \A v \in Updaters : Ahead(v)' = Ahead(v)
    BY <2>4, <2>6
  <2>8. Apart'
    BY <1>1, <1>3, <1>5, <2>7, ApartKept
  <2>9. Acyclic'
    BY <1>1, <1>3, <2>4, <2>5, <2>6 DEF Acyclic
  <2>10. Busy'
    BY <1>1, <1>2, <1>3, <1>4, <2>1, <2>3, <2>7 DEF Busy
  <2>11. Live' = Live
    <3>1. \A v \in Updaters : Rest(v)' = Rest(v)
      BY <1>2, <1>3, <2>3, <2>7 DEF Rest
    <3>2. QED
      BY <1>3, <1>5, <3>1 DEF Live
  <2>12. QED
    BY <1>1, <1>3, <2>2, <2>8, <2>9, <2>10, <2>11, WaitsKept DEF IInv
<1>8. QED
  BY <1>6, <1>7

\* The rest of a chain becomes the first part of the list.
LEMMA SplicedStep ==
  ASSUME IInv, NEW u \in Updaters, Splice(u), head = oldHead[u]
  PROVE  IInv'
<1> USE DEF Procs
<1>1. Types /\ Busy /\ Apart /\ Acyclic /\ Waits
  BY DEF IInv
<1>2. FreeApart /\ PublicApart /\ AheadApart /\ HandsApart
  BY <1>1 DEF Apart
<1> DEFINE t == tail[u]
           m == nxt[u]
<1>3. /\ pc[u] = "splice" /\ next' = [next EXCEPT ![t] = head] /\ head' = m
      /\ curr' = [curr EXCEPT ![u] = Nil] /\ nxt' = [nxt EXCEPT ![u] = Nil]
      /\ pc' = [pc EXCEPT ![u] = "idle"]
      /\ tail' = [tail EXCEPT ![u] = Nil] /\ oldHead' = [oldHead EXCEPT ![u] = Nil]
      /\ UNCHANGED <<item, free, state, over, pauses, node, count>>
  BY DEF Splice, Goto
<1>4. /\ t \in Ahead(u) /\ t \in Nodes /\ m \in Ends /\ head \in Ends /\ next \in Ptrs
      /\ u \notin Workers
  BY <1>1, <1>3, Places, WaitListAssumption DEF Types, Busy
<1>5. /\ pc'[u] = "idle" /\ curr'[u] = Nil /\ nxt'[u] = Nil
      /\ \A p \in Procs \ {u} : pc'[p] = pc[p]
      /\ \A v \in Updaters \ {u} : curr'[v] = curr[v] /\ nxt'[v] = nxt[v] /\ tail'[v] = tail[v]
  BY <1>1, <1>3 DEF Types
<1>6. Ahead(u) = Follow(next, m, t) /\ End(u) = t
  BY <1>3 DEF Ahead, End
<1> HIDE DEF t, m
<1>7. Types'
  BY <1>1, <1>3, <1>4 DEF Types, Ptrs, Ends
<1>8. Ahead(u)' = {} /\ End(u)' = Nil
  BY <1>5, <1>7, FollowNil DEF Ahead, End, Types
<1>9. t \notin Public /\ \A v \in Updaters \ {u} : t \notin Ahead(v)
  BY <1>2, <1>4 DEF PublicApart, AheadApart
<1>10. \A v \in Updaters \ {u} : Ahead(v)' = Ahead(v)
  BY <1>1, <1>3, <1>4, <1>5, <1>9, AheadFrame
<1>11. Public' = Ahead(u) \cup Public
  <2>1. t \in Follow(next, m, t) /\ t \notin Follow(next, head, Nil)
    BY <1>4, <1>6, <1>9 DEF Public
  <2>2. Follow([next EXCEPT ![t] = head], m, Nil) = Follow(next, m, t) \cup Follow(next, head, Nil)
    BY <1>4, <2>1, FollowJoin
  <2>3. QED
    BY <1>3, <1>6, <2>2 DEF Public
<1>12. Acyclic'
  <2>1. Ahead(u) \cap Public = {}
    BY <1>2 DEF PublicApart
  <2>2. Straight(next, m, t) /\ Straight(next, head, Nil)
    BY <1>1, <1>6 DEF Acyclic, m
  <2>3. Straight(next, head, Nil)'
    BY <1>3, <1>4, <1>6, <2>1, <2>2, StraightJoin DEF Public
  <2>4. Straight(next, nxt[u], End(u))'
    BY <1>5, <1>8 DEF Straight, Ahead
  <2>5. \A v \in Updaters \ {u} : Straight(next, nxt[v], End(v))'
    BY <1>1, <1>3, <1>4, <1>5, <1>9, StraightAhead
  <2>6. QED
    BY <2>3, <2>4, <2>5 DEF Acyclic
<1>13. Nil \notin Public /\ \A v \in Updaters : Nil \notin Ahead(v)
  BY <1>1, Places, NilApart DEF NilIsNoNode
<1>14. \A n \in Free : n # Nil
  BY <1>1, NilApart DEF Types, Free, NilIsNoNode
<1>15. FreeApart'
  <2>1. Free' = Free
    BY <1>3 DEF Free
  <2>2. ASSUME NEW n \in Free, NEW v \in Updaters PROVE n \notin Ahead(v)' /\ n # curr'[v]
    BY <1>2, <1>5, <1>8, <1>10, <1>14 DEF FreeApart
  <2>3. QED
    BY <1>2, <1>3, <1>11, <2>1, <2>2 DEF FreeApart
<1>16. PublicApart'
  <2>1. ASSUME NEW n \in Public', NEW v \in Updaters PROVE n \notin Ahead(v)' /\ n # curr'[v]
    <3>1. CASE v = u
      BY <1>5, <1>8, <1>11, <1>13, <3>1
    <3>2. CASE v # u
      BY <1>2, <1>5, <1>10, <1>11, <3>2 DEF PublicApart, AheadApart
    <3>3. QED
      BY <3>1, <3>2
  <2>2. ASSUME NEW n \in Public', NEW p \in Procs PROVE n # node'[p]
    BY <1>2, <1>3, <1>11 DEF PublicApart, AheadApart
  <2>3. QED
    BY <2>1, <2>2 DEF PublicApart
<1>17. AheadApart'
  <2>1. ASSUME NEW v \in Updaters, NEW z \in Updaters PROVE curr'[z] \notin Ahead(v)'
    BY <1>2, <1>5, <1>8, <1>10, <1>13 DEF AheadApart
  <2>2. QED
    BY <1>2, <1>3, <1>8, <1>10, <2>1 DEF AheadApart
<1>18. HandsApart'
  BY <1>2, <1>3, <1>5 DEF HandsApart
<1>19. Busy'
  BY <1>1, <1>3, <1>4, <1>5, <1>10 DEF Busy
<1>20. Live' = Live
  <2>1. Rest(u) = Ahead(u) /\ Rest(u)' = {}
    BY <1>3, <1>5, <1>8 DEF Rest
  <2>2. \A v \in Updaters \ {u} : Rest(v)' = Rest(v)
    BY <1>5, <1>10 DEF Rest
  <2>3. QED
    BY <1>3, <1>11, <2>1, <2>2 DEF Live
<1>21. QED
  BY <1>1, <1>3, <1>7, <1>12, <1>15, <1>16, <1>17, <1>18, <1>19, <1>20, WaitsKept
     DEF IInv, Apart

\* The list has changed since the head was loaded: the last node is linked
\* to the old list all the same, which End leaves out of the chain.
LEMMA RetrySpliceStep ==
  ASSUME IInv, NEW u \in Updaters, Splice(u), head # oldHead[u]
  PROVE  IInv'
<1> USE DEF Procs
<1>1. Types /\ Busy /\ Apart /\ Acyclic /\ Waits
  BY DEF IInv
<1>2. PublicApart /\ AheadApart
  BY <1>1 DEF Apart
<1> DEFINE t == tail[u]
<1>3. /\ pc[u] = "splice" /\ next' = [next EXCEPT ![t] = oldHead[u]]
      /\ oldHead' = [oldHead EXCEPT ![u] = head]
      /\ UNCHANGED <<head, curr, nxt, pc, item, free, state, over, pauses, node, tail, count>>
  BY DEF Splice
<1>4. t \in Ahead(u) /\ t \in Nodes /\ oldHead[u] \in Ends
  BY <1>1, <1>3, Places DEF Types, Busy
<1>5. t \in Nodes \ Public /\ \A v \in Updaters \ {u} : t \notin Ahead(v)
  BY <1>2, <1>4 DEF PublicApart, AheadApart
<1>6. \A v \in Updaters : t \notin Ahead(v) \/ (pc[v] = "splice" /\ t = tail[v])
  BY <1>3, <1>5
<1> HIDE DEF t
<1>7. Types'
  BY <1>1, <1>3, <1>4 DEF Types, Ptrs, Ends
<1>8. \A v \in Updaters : Ahead(v)' = Ahead(v) /\ Straight(next, nxt[v], End(v))'
  BY <1>1, <1>3, <1>4, <1>6, AheadFrame, StraightAhead
<1>9. Public' = Public
  BY <1>1, <1>3, <1>4, <1>5, PublicFrame DEF Public
<1>10. Straight(next, head, Nil)'
  <2>1. \A n \in Follow(next, head, Nil) \ {Nil} : next'[n] = next[n]
    BY <1>1, <1>3, <1>5, Places DEF Public, Types, Ptrs
  <2>2. QED
    BY <1>1, <1>3, <1>7, <2>1, StraightFrame DEF Types, Acyclic
<1>11. Apart' /\ Acyclic'
  BY <1>1, <1>3, <1>8, <1>9, <1>10, ApartKept DEF Acyclic
<1>12. Busy' /\ Live' = Live
  BY <1>1, <1>3, <1>8, <1>9 DEF Busy, Live, Rest
<1>13. QED
  BY <1>1, <1>3, <1>7, <1>11, <1>12, WaitsKept DEF IInv

LEMMA SpliceStep ==
  ASSUME IInv, NEW u \in Updaters, Splice(u)
  PROVE  IInv'
  BY SplicedStep, RetrySpliceStep

---------------------------------------------------------------------------
(* The theorems *)

LEMMA IInvStep == IInv /\ [Next]_vars => IInv'
<1> SUFFICES ASSUME IInv, [Next]_vars PROVE IInv'
  OBVIOUS
<1>1. ASSUME NEW u \in Updaters, UpdaterStep(u) PROVE IInv'
  BY <1>1, TakeAllStep, UpdateStep, InsertStep, AdvanceStep, WalkStep, SpliceStep
     DEF UpdaterStep, Procs
<1>2. ASSUME NEW w \in Workers, WorkerStep(w) PROVE IInv'
  BY <1>2, SleepStep, PauseStep, InsertStep DEF WorkerStep, Procs
<1>3. CASE UNCHANGED vars
  <2>1. Types' /\ Free' = Free
    BY <1>3 DEF vars, IInv, Types, Free
  <2>2. Public' = Public /\ \A u \in Updaters : Ahead(u)' = Ahead(u) /\ End(u)' = End(u)
    BY <1>3 DEF vars, Public, Ahead, End
  <2>3. Busy' /\ Live' = Live
    BY <1>3, <2>2 DEF vars, IInv, Busy, Live, Rest
  <2>4. Apart'
    BY <1>3, <2>2, ApartKept DEF vars, IInv
  <2>5. Acyclic' /\ Waits'
    BY <1>3, <2>2, <2>3, WaitsKept DEF vars, IInv, Acyclic
  <2>6. QED
    BY <2>1, <2>3, <2>4, <2>5 DEF IInv
<1>4. QED
  BY <1>1, <1>2, <1>3 DEF Next

LEMMA Invariance == Spec => []IInv
  BY IInvInit, IInvStep, PTL DEF Spec

\* The nodes of the stack are different ones, so there are as many as it is long.
LEMMA FreeCount ==
  ASSUME Types, FreeApart
  PROVE  Cardinality(Free) = Len(free) /\ Len(free) <= MaxNodes
<1>1. /\ Len(free) \in Nat /\ DOMAIN free = 1 .. Len(free) /\ free \in [1 .. Len(free) -> Free]
      /\ Free \subseteq Nodes
  <2>1. free \in Seq(Nodes) /\ free \in [1 .. Len(free) -> Nodes] /\ Len(free) \in Nat
    BY DEF Types
  <2>2. QED
    BY <2>1 DEF Free
<1>2. free \in Bijection(1 .. Len(free), Free)
  BY <1>1 DEF FreeApart, Free, Bijection, Injection, Surjection, IsInjective
<1>3. ExistsBijection(1 .. Len(free), Free)
  BY <1>2 DEF ExistsBijection
<1>4. IsFiniteSet(1 .. Len(free)) /\ Cardinality(1 .. Len(free)) = Len(free)
  BY <1>1, FS_Interval
<1>5. Cardinality(Free) = Len(free)
  BY <1>3, <1>4, FS_Bijection
<1>6. IsFiniteSet(Nodes) /\ Cardinality(Nodes) = MaxNodes
  BY NilApart, FS_Interval DEF Nodes
<1>7. QED
  BY <1>1, <1>5, <1>6, FS_Subset

\* The heads, pointers and nodes held are nodes or null, no node is freed
\* more often than there are nodes, and no updater resumes more workers than
\* THRESHOLD before it gives the rest of its chain back (runtime.c:305-366).
THEOREM WaitListTyping == Spec => []TypeOK
<1>1. IInv => TypeOK
  <2> SUFFICES ASSUME IInv PROVE TypeOK
    OBVIOUS
  <2>1. Types /\ FreeApart
    BY DEF IInv, Apart
  <2>2. Len(free) <= MaxNodes
    BY <2>1, FreeCount
  <2>3. QED
    BY <2>1, <2>2 DEF TypeOK, Types, Ends, Ptrs
<1>2. QED
  BY <1>1, Invariance, PTL

\* Whatever the order of insertions, exchanges, walks and splices, a waiting
\* sleeper is in the list, in a chain or in the hands of an insertion exactly
\* once, and a running one nowhere (allocators.c:91-103, runtime.c:330-363).
THEOREM OneNode == Spec => []OneNodePerWaiter
<1>1. IInv => OneNodePerWaiter
  <2> SUFFICES ASSUME IInv, NEW w \in Sleepers
               PROVE  Cardinality(LiveNodes(w)) = IF state[w] = "waiting" THEN 1 ELSE 0
    BY DEF OneNodePerWaiter
  <2>1. Waits
    BY DEF IInv
  <2>2. LiveNodes(w) = {n \in Live : item[n] = w}
    BY DEF LiveNodes, Live
  <2>3. CASE state[w] = "waiting"
    <3>1. PICK n \in Live : item[n] = w
      BY <2>1, <2>3 DEF Waits
    <3>2. LiveNodes(w) = {n}
      BY <2>1, <2>2, <3>1 DEF Waits
    <3>3. QED
      BY <2>3, <3>2, FS_Singleton
  <2>4. CASE state[w] # "waiting"
    <3>1. LiveNodes(w) = {}
      BY <2>1, <2>2, <2>4 DEF Waits
    <3>2. QED
      BY <2>4, <3>1, FS_EmptySet
  <2>5. QED
    BY <2>3, <2>4
<1>2. QED
  BY <1>1, Invariance, PTL

\* FreeWaitingNode gives back only a node nothing leads to, so what
\* WaitListWorker takes from the free list is in no list, in no chain an
\* updater has yet to walk, and in no other insertion (allocators.c:106-142,
\* runtime.c:362).
THEOREM LiveNotRecycled == Spec => []FreeNodesUnreachable
<1>1. IInv => FreeNodesUnreachable
  <2> SUFFICES ASSUME IInv PROVE FreeNodesUnreachable
    OBVIOUS
  <2>1. Types /\ FreeApart
    BY DEF IInv, Apart
  <2>2. Cardinality(Free) = Len(free)
    BY <2>1, FreeCount
  <2>3. QED
    BY <2>1, <2>2 DEF FreeNodesUnreachable, FreeApart, Rest
<1>2. QED
  BY <1>1, Invariance, PTL

=============================================================================
