----------------------------- MODULE TreeProofs -----------------------------
(***************************************************************************)
(* Theorems about the file tree: it stays a tree, memory and table agree   *)
(* (TreeSound), and what a class gate or a drop box covers stays covered   *)
(* (GatesHold).                                                            *)
(*                                                                         *)
(* What ancestry computes by climbing is described without the climb:      *)
(* Above(N, i) is the least set that has i and the parents of its members. *)
(***************************************************************************)
EXTENDS FileTree, FiniteSetTheorems, NaturalsInduction,
        WellFoundedInduction, TLAPS

---------------------------------------------------------------------------
(* Chains of parents, for any table N of nodes.                            *)

Upward(N, S) == \A a \in S : N[a].up \in DOMAIN N => N[a].up \in S

Above(N, i) ==
  {a \in DOMAIN N :
     \A S \in SUBSET DOMAIN N : i \in S /\ Upward(N, S) => a \in S}

Rooted(N, i) == i \in DOMAIN N /\ 0 \in Above(N, i)

(* The root is there and has no parent.                                    *)
HasRoot(N) ==
  /\ IsFiniteSet(DOMAIN N) /\ DOMAIN N \subseteq Nat
  /\ 0 \in DOMAIN N /\ N[0].up \notin DOMAIN N
  /\ \A i \in DOMAIN N : N[i].up \in Int

(* Above is closed upward, and no smaller set is.                          *)
LEMMA AboveIsLeast ==
  ASSUME NEW N, NEW i \in DOMAIN N
  PROVE  /\ i \in Above(N, i) /\ Above(N, i) \subseteq DOMAIN N
         /\ Upward(N, Above(N, i))
         /\ \A S \in SUBSET DOMAIN N :
              i \in S /\ Upward(N, S) => Above(N, i) \subseteq S
<1>1. i \in Above(N, i) /\ Above(N, i) \subseteq DOMAIN N
  BY DEF Above
<1>2. \A S \in SUBSET DOMAIN N :
        i \in S /\ Upward(N, S) => Above(N, i) \subseteq S
  BY DEF Above
<1>3. Upward(N, Above(N, i))
  BY DEF Above, Upward
<1> QED BY <1>1, <1>2, <1>3

LEMMA AboveTransitive ==
  ASSUME NEW N, NEW i \in DOMAIN N, NEW a \in Above(N, i)
  PROVE  a \in DOMAIN N /\ Above(N, a) \subseteq Above(N, i)
<1>1. a \in DOMAIN N /\ Above(N, i) \in SUBSET DOMAIN N
  BY AboveIsLeast
<1> QED BY <1>1, AboveIsLeast

(* The chain of a node is the node and the chain of its parent.            *)
LEMMA AboveStep ==
  ASSUME NEW N, NEW i \in DOMAIN N
  PROVE  Above(N, i) = {i} \cup (IF N[i].up \in DOMAIN N
                                 THEN Above(N, N[i].up) ELSE {})
<1> DEFINE u == N[i].up
           T == {i} \cup (IF u \in DOMAIN N THEN Above(N, u) ELSE {})
<1>1. T \in SUBSET DOMAIN N /\ i \in T
  BY AboveIsLeast
<1>2. Upward(N, T)
  <2>1. CASE u \in DOMAIN N
    BY <2>1, AboveIsLeast DEF Upward
  <2>2. CASE u \notin DOMAIN N
    BY <2>2 DEF Upward
  <2> QED BY <2>1, <2>2
<1>3. Above(N, i) \subseteq T
  BY <1>1, <1>2, AboveIsLeast
<1>4. T \subseteq Above(N, i)
  <2>1. i \in Above(N, i) /\ (u \in DOMAIN N => u \in Above(N, i))
    BY AboveIsLeast DEF Upward
  <2> QED BY <2>1, AboveTransitive
<1> QED BY <1>3, <1>4

LEMMA AboveRoot ==
  ASSUME NEW N, HasRoot(N)
  PROVE  Above(N, 0) = {0}
<1>1. 0 \in DOMAIN N /\ N[0].up \notin DOMAIN N
  BY DEF HasRoot
<1> QED BY <1>1, AboveStep

(* On the way to the root no node comes twice.                             *)
LEMMA RootedStep ==
  ASSUME NEW N, HasRoot(N), NEW i, Rooted(N, i), i # 0
  PROVE  /\ N[i].up \in DOMAIN N /\ Rooted(N, N[i].up)
         /\ Above(N, i) = {i} \cup Above(N, N[i].up)
         /\ i \notin Above(N, N[i].up)
<1> DEFINE u == N[i].up
<1>1. i \in DOMAIN N /\ 0 \in Above(N, i)
  BY DEF Rooted
<1>2. u \in DOMAIN N /\ Above(N, i) = {i} \cup Above(N, u)
  BY <1>1, AboveStep
<1>3. Rooted(N, u)
  BY <1>1, <1>2 DEF Rooted
<1>4. ASSUME i \in Above(N, u) PROVE FALSE
  <2> DEFINE T == {b \in DOMAIN N \ {0} : i \in Above(N, b)}
  <2>1. T \in SUBSET DOMAIN N /\ i \in T
    BY <1>1, AboveIsLeast
  <2>2. ASSUME NEW b \in T, N[b].up \in DOMAIN N PROVE N[b].up \in T
    <3>1. i \in Above(N, N[b].up)
      BY <2>2, <1>4, AboveStep
    <3>2. N[b].up # 0
      BY <3>1, AboveRoot
    <3> QED BY <2>2, <3>1, <3>2
  <2>3. Upward(N, T)
    BY <2>2 DEF Upward
  <2>4. 0 \notin T
    OBVIOUS
  <2> HIDE DEF T
  <2>5. Above(N, i) \subseteq T
    BY <1>1, <2>1, <2>3, AboveIsLeast
  <2> QED BY ONLY <1>1, <2>4, <2>5
<1> QED BY <1>2, <1>3, <1>4

LEMMA RootedAbove ==
  ASSUME NEW N, HasRoot(N), NEW i, Rooted(N, i), NEW a \in Above(N, i)
  PROVE  Rooted(N, a)
<1> DEFINE T == {b \in Above(N, i) : 0 \in Above(N, b)}
<1>1. i \in DOMAIN N /\ 0 \in Above(N, i)
  BY DEF Rooted
<1>2. T \in SUBSET DOMAIN N /\ i \in T
  BY <1>1, AboveIsLeast
<1>3. ASSUME NEW b \in T, N[b].up \in DOMAIN N PROVE N[b].up \in T
  <2>1. N[b].up \in Above(N, i)
    BY <1>1, <1>3, AboveIsLeast DEF Upward
  <2>2. b # 0
    BY <1>3 DEF HasRoot
  <2>3. 0 \in Above(N, N[b].up)
    BY <1>2, <1>3, <2>2, AboveStep
  <2> QED BY <2>1, <2>3
<1>4. Above(N, i) \subseteq T
  BY <1>1, <1>2, <1>3, AboveIsLeast DEF Upward
<1> QED BY <1>2, <1>4 DEF Rooted

(* Two nodes that are above each other are one.                            *)
LEMMA AboveAntisymmetric ==
  ASSUME NEW N, HasRoot(N), NEW i, Rooted(N, i), NEW a \in Above(N, i),
         i \in Above(N, a)
  PROVE  a = i
<1>1. CASE i = 0
  BY <1>1, AboveRoot
<1>2. ASSUME i # 0, a # i PROVE FALSE
  <2>1. a \in Above(N, N[i].up) /\ N[i].up \in DOMAIN N
    BY <1>2, RootedStep
  <2> QED BY <1>2, <2>1, AboveTransitive, RootedStep
<1> QED BY <1>1, <1>2

LEMMA ChainsFinite ==
  ASSUME NEW N, HasRoot(N), NEW i \in DOMAIN N
  PROVE  /\ IsFiniteSet(Above(N, i)) /\ Cardinality(Above(N, i)) \in Nat
         /\ Cardinality(Above(N, i)) <= Cardinality(DOMAIN N)
         /\ Cardinality(Above(N, i)) >= 1
<1>1. Above(N, i) \in SUBSET DOMAIN N /\ Above(N, i) # {}
  BY AboveIsLeast
<1>2. /\ IsFiniteSet(Above(N, i))
      /\ Cardinality(Above(N, i)) <= Cardinality(DOMAIN N)
  BY <1>1, FS_Subset DEF HasRoot
<1>3. Cardinality(Above(N, i)) \in Nat /\ Cardinality(Above(N, i)) # 0
  BY <1>1, <1>2, FS_EmptySet, FS_CardinalityType
<1> QED BY <1>2, <1>3

(* A node is one deeper than its parent.                                   *)
LEMMA OneDeeper ==
  ASSUME NEW N, HasRoot(N), NEW i, Rooted(N, i)
  PROVE  Cardinality(Above(N, i)) =
           IF i = 0 THEN 1 ELSE Cardinality(Above(N, N[i].up)) + 1
<1>1. CASE i = 0
  BY <1>1, AboveRoot, FS_Singleton
<1>2. CASE i # 0
  <2>1. /\ N[i].up \in DOMAIN N
        /\ Above(N, i) = Above(N, N[i].up) \cup {i}
        /\ i \notin Above(N, N[i].up)
    BY <1>2, RootedStep
  <2> QED BY <1>2, <2>1, ChainsFinite, FS_AddElement
<1> QED BY <1>1, <1>2

(* A table that says the same of the nodes on a chain has the same chain.  *)
LEMMA ChainAgrees ==
  ASSUME NEW N, HasRoot(N), NEW M, HasRoot(M), NEW i, Rooted(N, i),
         \A a \in Above(N, i) : a \in DOMAIN M /\ M[a].up = N[a].up
  PROVE  Rooted(M, i) /\ Above(M, i) = Above(N, i)
<1>1. i \in DOMAIN N /\ i \in Above(N, i) /\ i \in DOMAIN M
  BY AboveIsLeast DEF Rooted
<1>2. Above(N, i) \in SUBSET DOMAIN M
  OBVIOUS
<1>3. Upward(M, Above(N, i))
  <2>1. ASSUME NEW a \in Above(N, i), M[a].up \in DOMAIN M
        PROVE  M[a].up \in Above(N, i)
    <3>1. a # 0 /\ Rooted(N, a)
      BY <2>1, RootedAbove DEF HasRoot
    <3>2. N[a].up \in DOMAIN N /\ M[a].up = N[a].up
      BY <3>1, RootedStep
    <3> QED BY <1>1, <3>2, AboveIsLeast DEF Upward
  <2> QED BY <2>1 DEF Upward
<1>4. Above(M, i) \subseteq Above(N, i)
  BY <1>1, <1>2, <1>3, AboveIsLeast
<1>5. Upward(N, Above(M, i))
  <2>1. ASSUME NEW a \in Above(M, i), N[a].up \in DOMAIN N
        PROVE  N[a].up \in Above(M, i)
    <3>1. a \in Above(N, i) /\ M[a].up = N[a].up
      BY <1>4
    <3>2. N[a].up \in Above(N, i)
      BY <1>1, <2>1, <3>1, AboveIsLeast DEF Upward
    <3> QED BY <1>1, <3>1, <3>2, AboveIsLeast DEF Upward
  <2> QED BY <2>1 DEF Upward
<1>6. i \in Above(M, i) /\ Above(M, i) \in SUBSET DOMAIN N
  BY <1>1, <1>4, AboveIsLeast
<1>7. Above(N, i) \subseteq Above(M, i)
  BY <1>1, <1>5, <1>6, AboveIsLeast
<1> QED BY <1>1, <1>4, <1>7 DEF Rooted

(* A node put below another hangs from the root like it.                   *)
LEMMA ChainGrows ==
  ASSUME NEW M, HasRoot(M), NEW i \in DOMAIN M, i # 0, Rooted(M, M[i].up)
  PROVE  /\ Rooted(M, i)
         /\ Above(M, i) = {i} \cup Above(M, M[i].up)
         /\ Cardinality(Above(M, i)) = Cardinality(Above(M, M[i].up)) + 1
<1>1. M[i].up \in DOMAIN M
  BY DEF Rooted
<1>2. Above(M, i) = {i} \cup Above(M, M[i].up)
  BY <1>1, AboveStep
<1>3. Rooted(M, i)
  BY <1>2 DEF Rooted
<1> QED BY <1>2, <1>3, OneDeeper

---------------------------------------------------------------------------
(* What ancestry computes.                                                 *)

ClimbIn(N) ==
  LET climb[n \in Nat] ==
        [k \in Int |->
           IF n = 0 \/ k \notin DOMAIN N THEN {Nowhere}
           ELSE IF k = 0 THEN {0} ELSE {k} \cup climb[n - 1][N[k].up]]
  IN climb

AncestryIn(N, i) ==
  LET chain == ClimbIn(N)[Cardinality(DOMAIN N)][i]
  IN IF Nowhere \in chain THEN {} ELSE chain

(* The model's operator, before and after a step, as one of a table.       *)
LEMMA AncestryOfTree ==
  ASSUME NEW i
  PROVE  /\ Ancestry(i) = AncestryIn(tree.nodes, i)
         /\ Ancestry(i)' = AncestryIn(tree'.nodes, i)
<1>1. Ancestry(i) = AncestryIn(tree.nodes, i)
  BY DEF Ancestry, AncestryIn, ClimbIn, Alive, NodeAt
<1>2. Ancestry(i)' = AncestryIn(tree'.nodes, i)
  BY DEF Ancestry, AncestryIn, ClimbIn, Alive, NodeAt
<1> QED BY <1>1, <1>2

(* Every non-empty set of naturals has a least member.                     *)
LEMMA LeastNumber ==
  ASSUME NEW T \in SUBSET Nat, T # {}
  PROVE  \E m \in T : \A n \in T : m <= n
<1> DEFINE R == {s \in Nat \X Nat : s[1] < s[2]}
<1>1. IsWellFoundedOn(R, Nat)
  BY NatLessThanWellFounded DEF OpToRel
<1>2. PICK m \in T : \A y \in T : ~(<<y, m>> \in R)
  <2> HIDE DEF R
  <2> QED BY <1>1, WFMin
<1>3. \A y \in T : m \in Nat /\ y \in Nat /\ <<y, m>> \in Nat \X Nat
  OBVIOUS
<1>4. \A y \in T : ~(y < m)
  BY <1>2, <1>3
<1> QED BY <1>3, <1>4

(* A function can be applied any number of times.                          *)
LEMMA Iterates ==
  ASSUME NEW D, NEW G \in [D -> D], NEW x \in D
  PROVE  \E c \in [Nat -> D] :
           c[0] = x /\ \A n \in Nat \ {0} : c[n] = G[c[n - 1]]
<1> DEFINE Run(f, n) == /\ f \in [0 .. n -> D] /\ f[0] = x
                        /\ \A k \in 1 .. n : f[k] = G[f[k - 1]]
           Missing == {n \in Nat : ~ \E f : Run(f, n)}
           Apart == {k \in Nat : \E n, m \in Nat : \E f, g :
                       /\ Run(f, n) /\ Run(g, m) /\ k <= n /\ k <= m
                       /\ f[k] # g[k]}
<1>1. Missing = {}
  <2>1. SUFFICES ASSUME Missing # {} PROVE FALSE
    OBVIOUS
  <2>2. PICK n \in Missing : \A m \in Missing : n <= m
    <3>1. Missing \in SUBSET Nat
      OBVIOUS
    <3> HIDE DEF Missing
    <3> QED BY <2>1, <3>1, LeastNumber
  <2>3. n # 0
    <3>1. Run([k \in 0 .. 0 |-> x], 0)
      OBVIOUS
    <3> HIDE DEF Run
    <3>2. 0 \notin Missing
      BY <3>1
    <3> QED BY <2>2, <3>2
  <2>4. n - 1 \in Nat /\ n - 1 \notin Missing
    <3>1. n \in Nat
      OBVIOUS
    <3> HIDE DEF Missing
    <3> QED BY <2>2, <2>3, <3>1
  <2>5. PICK f : Run(f, n - 1)
    BY <2>4
  <2> DEFINE g == [k \in 0 .. n |-> IF k < n THEN f[k] ELSE G[f[n - 1]]]
  <2>6. g \in [0 .. n -> D]
    BY <2>4, <2>5
  <2>7. g[0] = x
    BY <2>3, <2>4, <2>5
  <2>8. ASSUME NEW k \in 1 .. n PROVE g[k] = G[g[k - 1]]
    BY <2>4, <2>5, <2>8
  <2>9. Run(g, n)
    BY <2>6, <2>7, <2>8
  <2> QED BY <2>2, <2>9
<1>2. Apart = {}
  <2>1. SUFFICES ASSUME Apart # {} PROVE FALSE
    OBVIOUS
  <2>2. PICK k \in Apart : \A m \in Apart : k <= m
    <3>1. Apart \in SUBSET Nat
      OBVIOUS
    <3> HIDE DEF Apart
    <3> QED BY <2>1, <3>1, LeastNumber
  <2>3. PICK n \in Nat, m \in Nat : \E f, g :
          Run(f, n) /\ Run(g, m) /\ k <= n /\ k <= m /\ f[k] # g[k]
    BY <2>2
  <2>3a. PICK f, g :
          Run(f, n) /\ Run(g, m) /\ k <= n /\ k <= m /\ f[k] # g[k]
    BY <2>3
  <2>4. k # 0 /\ k \in Nat
    BY <2>2, <2>3a
  <2>5. k \in 1 .. n /\ k \in 1 .. m
    BY <2>3a, <2>4
  <2>6. f[k] = G[f[k - 1]] /\ g[k] = G[g[k - 1]]
    BY <2>3a, <2>5
  <2>7. k - 1 \in Nat /\ k - 1 <= n /\ k - 1 <= m /\ f[k - 1] # g[k - 1]
    BY <2>3a, <2>4, <2>6
  <2> HIDE DEF Run
  <2> DEFINE j == k - 1
  <2>8. j \in Nat /\ j < k /\ j <= n /\ j <= m /\ f[j] # g[j]
    BY <2>4, <2>7
  <2> HIDE DEF j
  <2>9. j \in Apart
    BY <2>3a, <2>8
  <2>10. k <= j
    BY <2>2, <2>9
  <2> QED BY ONLY <2>4, <2>8, <2>10
<1> DEFINE r == [n \in Nat |-> CHOOSE f : Run(f, n)]
           c == [n \in Nat |-> r[n][n]]
<1>3. ASSUME NEW n \in Nat PROVE Run(r[n], n)
  <2>1. \E f : Run(f, n)
    BY <1>1
  <2> HIDE DEF Run
  <2> QED BY <2>1
<1> HIDE DEF r
<1>4. ASSUME NEW n \in Nat PROVE c[n] \in D
  <2>1. r[n] \in [0 .. n -> D] /\ n \in 0 .. n
    BY <1>3
  <2> QED BY <2>1
<1>5. c[0] = x
  <2>1. r[0][0] = x
    BY <1>3
  <2> QED BY <2>1
<1>6. ASSUME NEW n \in Nat \ {0} PROVE c[n] = G[c[n - 1]]
  <2>1. n \in 1 .. n /\ n - 1 \in Nat /\ n - 1 <= n /\ n - 1 <= n - 1
    OBVIOUS
  <2>2. r[n][n] = G[r[n][n - 1]]
    BY <1>3, <2>1
  <2>3. r[n][n - 1] = r[n - 1][n - 1]
    <3>1. Run(r[n], n) /\ Run(r[n - 1], n - 1)
      BY <1>3, <2>1
    <3> HIDE DEF Run
    <3>2. n - 1 \notin Apart
      BY <1>2
    <3> QED BY <2>1, <3>1, <3>2
  <2> QED BY <2>1, <2>2, <2>3
<1>7. c \in [Nat -> D]
  <2>1. c = [n \in Nat |-> c[n]]
    OBVIOUS
  <2> HIDE DEF c
  <2> QED BY <1>4, <2>1
<1> HIDE DEF c
<1> QED BY <1>5, <1>6, <1>7

(* The recursive function climb is what its definition says: a function    *)
(* that satisfies the equation exists, made by iterating its step.         *)
LEMMA ClimbUnfolds ==
  ASSUME NEW N, HasRoot(N)
  PROVE  ClimbIn(N) =
           [n \in Nat |-> [k \in Int |->
              IF n = 0 \/ k \notin DOMAIN N THEN {Nowhere}
              ELSE IF k = 0 THEN {0}
              ELSE {k} \cup ClimbIn(N)[n - 1][N[k].up]]]
<1> DEFINE Rule(c) == [n \in Nat |-> [k \in Int |->
              IF n = 0 \/ k \notin DOMAIN N THEN {Nowhere}
              ELSE IF k = 0 THEN {0}
              ELSE {k} \cup c[n - 1][N[k].up]]]
           D == [Int -> SUBSET Int]
           x == [k \in Int |-> {Nowhere}]
           G == [h \in D |-> [k \in Int |->
              IF k \notin DOMAIN N THEN {Nowhere}
              ELSE IF k = 0 THEN {0} ELSE {k} \cup h[N[k].up]]]
<1>1. x \in D
  BY DEF Nowhere
<1>2. ASSUME NEW h \in D PROVE G[h] \in D
  <2>1. ASSUME NEW k \in Int
        PROVE  (IF k \notin DOMAIN N THEN {Nowhere}
                ELSE IF k = 0 THEN {0} ELSE {k} \cup h[N[k].up])
                 \in SUBSET Int
    BY DEF HasRoot, Nowhere
  <2> QED BY <2>1
<1>3. G \in [D -> D]
  <2> HIDE DEF D
  <2> QED BY <1>2
<1>4. PICK c \in [Nat -> D] :
        c[0] = x /\ \A n \in Nat \ {0} : c[n] = G[c[n - 1]]
  <2> HIDE DEF D, G, x
  <2> QED BY <1>1, <1>3, Iterates
<1>5. ASSUME NEW n \in Nat PROVE c[n] = Rule(c)[n]
  <2>1. CASE n = 0
    BY <2>1, <1>4
  <2>2. CASE n # 0
    <3>1. n - 1 \in Nat /\ c[n - 1] \in D /\ c[n] = G[c[n - 1]]
      BY <2>2, <1>4
    <3> QED BY <2>2, <3>1
  <2> QED BY <2>1, <2>2
<1>6. c = Rule(c)
  <2>1. Rule(c) = [n \in Nat |-> Rule(c)[n]]
    OBVIOUS
  <2>2. c = [n \in Nat |-> c[n]]
    BY <1>4
  <2> HIDE DEF Rule
  <2> QED BY <1>5, <2>1, <2>2
<1>7. ClimbIn(N) = CHOOSE f : f = Rule(f)
  BY DEF ClimbIn
<1> HIDE DEF Rule
<1>8. ClimbIn(N) = Rule(ClimbIn(N))
  BY <1>6, <1>7
<1> QED BY <1>8 DEF Rule

(* Ancestry gives the whole chain, and only where it ends at the root.     *)
LEMMA AncestryIs ==
  ASSUME NEW N, HasRoot(N), NEW i \in Int
  PROVE  AncestryIn(N, i) = IF Rooted(N, i) THEN Above(N, i) ELSE {}
<1> DEFINE climb == ClimbIn(N)
           Right(n, k) ==
             /\ ~Rooted(N, k) => Nowhere \in climb[n][k]
             /\ Rooted(N, k) /\ Cardinality(Above(N, k)) <= n
                  => climb[n][k] = Above(N, k)
           Wrong == {n \in Nat : \E k \in Int : ~Right(n, k)}
<1>1. ASSUME NEW n \in Nat, NEW k \in Int
      PROVE  climb[n][k] = IF n = 0 \/ k \notin DOMAIN N THEN {Nowhere}
                           ELSE IF k = 0 THEN {0}
                           ELSE {k} \cup climb[n - 1][N[k].up]
  <2> HIDE DEF climb
  <2>1. climb = [m \in Nat |-> [j \in Int |->
              IF m = 0 \/ j \notin DOMAIN N THEN {Nowhere}
              ELSE IF j = 0 THEN {0} ELSE {j} \cup climb[m - 1][N[j].up]]]
    BY ClimbUnfolds DEF climb
  <2>2. climb[n] = [j \in Int |->
              IF n = 0 \/ j \notin DOMAIN N THEN {Nowhere}
              ELSE IF j = 0 THEN {0} ELSE {j} \cup climb[n - 1][N[j].up]]
    BY <2>1
  <2> QED BY <2>2
<1> HIDE DEF climb
<1>2. ASSUME NEW n \in Nat, NEW k \in Int,
             n # 0 => \A j \in Int : Right(n - 1, j)
      PROVE  Right(n, k)
  <2>1. CASE n = 0 \/ k \notin DOMAIN N
    <3>1. climb[n][k] = {Nowhere}
      BY <1>1, <2>1
    <3>2. ~(Rooted(N, k) /\ Cardinality(Above(N, k)) <= n)
      <4>1. ASSUME Rooted(N, k)
            PROVE  Cardinality(Above(N, k)) \in Nat
                     /\ Cardinality(Above(N, k)) >= 1 /\ k \in DOMAIN N
        BY <4>1, ChainsFinite DEF Rooted
      <4> QED BY <2>1, <4>1
    <3> QED BY <3>1, <3>2
  <2>2. CASE n # 0 /\ k = 0
    <3>1. k \in DOMAIN N /\ Above(N, k) = {0} /\ Rooted(N, k)
      BY <2>2, AboveRoot DEF HasRoot, Rooted
    <3>2. climb[n][k] = {0}
      BY <1>1, <2>2, <3>1
    <3> QED BY <3>1, <3>2
  <2>3. CASE n # 0 /\ k \in DOMAIN N /\ k # 0
    <3> DEFINE u == N[k].up
    <3>1. u \in Int /\ n - 1 \in Nat
      BY <2>3 DEF HasRoot
    <3>2. climb[n][k] = {k} \cup climb[n - 1][u]
      BY <1>1, <2>3
    <3>3. Right(n - 1, u)
      BY <1>2, <2>3, <3>1
    <3>4. ASSUME ~Rooted(N, k) PROVE ~Rooted(N, u)
      BY <2>3, <3>4, AboveStep DEF Rooted
    <3>5. ASSUME Rooted(N, k), Cardinality(Above(N, k)) <= n
          PROVE  climb[n][k] = Above(N, k)
      <4>1. /\ Rooted(N, u) /\ u \in DOMAIN N
            /\ Above(N, k) = {k} \cup Above(N, u)
            /\ Cardinality(Above(N, k)) = Cardinality(Above(N, u)) + 1
        BY <2>3, <3>5, RootedStep, OneDeeper
      <4>2. Cardinality(Above(N, u)) <= n - 1
        BY <3>5, <4>1, ChainsFinite
      <4> QED BY <3>2, <3>3, <4>1, <4>2
    <3> QED BY <3>2, <3>3, <3>4, <3>5
  <2> QED BY <2>1, <2>2, <2>3
<1> HIDE DEF Right
<1>3. Wrong = {}
  <2>1. SUFFICES ASSUME Wrong # {} PROVE FALSE
    OBVIOUS
  <2>2. PICK n \in Wrong : \A m \in Wrong : n <= m
    <3>1. Wrong \in SUBSET Nat
      OBVIOUS
    <3> HIDE DEF Wrong
    <3> QED BY <2>1, <3>1, LeastNumber
  <2>3. n \in Nat
    OBVIOUS
  <2>4. ASSUME n # 0 PROVE \A j \in Int : Right(n - 1, j)
    <3>1. n - 1 \in Nat /\ ~(n <= n - 1)
      BY <2>3, <2>4
    <3>2. n - 1 \notin Wrong
      BY <2>2, <3>1
    <3> QED BY <3>1, <3>2
  <2> QED BY <1>2, <2>3, <2>4
<1>4. ASSUME NEW n \in Nat PROVE Right(n, i)
  BY <1>3
<1> DEFINE n == Cardinality(DOMAIN N)
<1>5. n \in Nat
  BY FS_CardinalityType DEF HasRoot
<1> HIDE DEF n
<1>6. CASE Rooted(N, i)
  <2>1. /\ Cardinality(Above(N, i)) <= n
        /\ Nowhere \notin Above(N, i)
    BY <1>6, ChainsFinite, AboveIsLeast DEF Rooted, n, HasRoot, Nowhere
  <2>2. climb[n][i] = Above(N, i)
    BY <1>4, <1>5, <1>6, <2>1 DEF Right
  <2> QED BY <1>6, <2>1, <2>2 DEF AncestryIn, climb, n
<1>7. CASE ~Rooted(N, i)
  <2>1. Nowhere \in climb[n][i]
    BY <1>4, <1>5, <1>7 DEF Right
  <2> QED BY <1>7, <2>1 DEF AncestryIn, climb, n
<1> QED BY <1>6, <1>7

---------------------------------------------------------------------------
(* What edits do to a table of nodes.                                      *)

NodeLike(n) ==
  /\ n = TreeNode(n.up, n.name, n.kind, n.read, n.write, n.owner, n.target)
  /\ n.up \in Int /\ n.read \in Int /\ n.target \in Int

DepthCap(n) == MaxTreeDepth + IF n.kind = "file" THEN 1 ELSE 0

(* The nodes hang together.                                                *)
Sound(N) ==
  /\ HasRoot(N) /\ N[0] = RootNode
  /\ \A i \in DOMAIN N :
       /\ NodeLike(N[i]) /\ Rooted(N, i)
       /\ Cardinality(Above(N, i)) - 1 <= DepthCap(N[i])
       /\ i # 0 => IsFolder(N[N[i].up])
       /\ N[i].target \in DOMAIN N => N[N[i].target].kind # "alias"
  /\ \A i, j \in DOMAIN N \ {0} :
       N[i].up = N[j].up /\ N[i].name = N[j].name => i = j

(* Nodes go, with all below them; targets may be forgotten.                *)
LEMMA Pruned ==
  ASSUME NEW N, Sound(N), NEW E \in SUBSET DOMAIN N, 0 \in E,
         \A i \in E : Above(N, i) \subseteq E,
         NEW M, DOMAIN M = E,
         \A i \in E : \/ M[i] = N[i]
                      \/ M[i] = [N[i] EXCEPT !.target = Nowhere]
  PROVE  Sound(M) /\ \A i \in E : Above(M, i) = Above(N, i)
<1>1. ASSUME NEW i \in E
      PROVE  /\ M[i].up = N[i].up /\ M[i].name = N[i].name
             /\ M[i].kind = N[i].kind /\ M[i].read = N[i].read
             /\ M[i].write = N[i].write /\ M[i].owner = N[i].owner
             /\ M[i].target \in {N[i].target, Nowhere} /\ NodeLike(M[i])
  <2>1. NodeLike(N[i])
    BY DEF Sound
  <2> QED BY <2>1 DEF NodeLike, TreeNode, Nowhere
<1>2. M[0] = RootNode
  <2>1. N[0] = RootNode
    BY DEF Sound
  <2>2. /\ N[0].up = Nowhere /\ N[0].name = RootName /\ N[0].kind = "dir"
        /\ N[0].read = 0 /\ N[0].write = 2 /\ N[0].owner = Nobody
        /\ N[0].target = Nowhere
    BY ONLY <2>1 DEF RootNode, TreeNode
  <2>3. /\ M[0].up = Nowhere /\ M[0].name = RootName /\ M[0].kind = "dir"
        /\ M[0].read = 0 /\ M[0].write = 2 /\ M[0].owner = Nobody
        /\ M[0].target = Nowhere /\ NodeLike(M[0])
    BY ONLY <1>1, <2>2, 0 \in E
  <2> QED BY ONLY <2>3 DEF NodeLike, RootNode
<1>3. HasRoot(N) /\ Nowhere \notin DOMAIN N
  BY DEF Sound, HasRoot, Nowhere
<1>4. HasRoot(M)
  <2>1. IsFiniteSet(E)
    BY <1>3, FS_Subset DEF HasRoot
  <2>2. E \subseteq Nat /\ M[0].up \notin E /\ \A i \in E : M[i].up \in Int
    BY <1>1, <1>3 DEF HasRoot
  <2> QED BY <2>1, <2>2 DEF HasRoot
<1>5. ASSUME NEW i \in E PROVE Rooted(M, i) /\ Above(M, i) = Above(N, i)
  <2>1. Rooted(N, i)
    BY DEF Sound
  <2>2. \A a \in Above(N, i) : a \in DOMAIN M /\ M[a].up = N[a].up
    BY <1>1
  <2> QED BY <1>3, <1>4, <2>1, <2>2, ChainAgrees
<1>6. ASSUME NEW i \in E, i # 0 PROVE IsFolder(M[M[i].up])
  <2>1. N[i].up \in Above(N, i) /\ IsFolder(N[N[i].up])
    <3>1. Rooted(N, i) /\ IsFolder(N[N[i].up])
      BY <1>6 DEF Sound
    <3>2. N[i].up \in DOMAIN N
      BY <1>3, <1>6, <3>1, RootedStep
    <3> QED BY <3>1, <3>2, AboveIsLeast DEF Upward
  <2>2. N[i].up \in E
    BY <2>1
  <2> QED BY <1>1, <2>1, <2>2 DEF IsFolder
<1>7. ASSUME NEW i \in E, M[i].target \in E
      PROVE  M[M[i].target].kind # "alias"
  <2>1. M[i].target = N[i].target
    BY <1>1, <1>3, <1>7
  <2> QED BY <1>1, <1>7, <2>1 DEF Sound
<1>8. ASSUME NEW i \in E
      PROVE  Cardinality(Above(M, i)) - 1 <= DepthCap(M[i])
  BY <1>1, <1>5 DEF Sound, DepthCap
<1>9. \A i, j \in E \ {0} :
        M[i].up = M[j].up /\ M[i].name = M[j].name => i = j
  BY <1>1 DEF Sound
<1>10. Sound(M)
  BY ONLY <1>1, <1>2, <1>4, <1>5, <1>6, <1>7, <1>8, <1>9, DOMAIN M = E
     DEF Sound
<1> QED BY <1>5, <1>10

(* A new node is put into a folder.                                        *)
PlantIn(N, i, n) ==
  [k \in DOMAIN N \cup {i} |-> IF k = i THEN n ELSE N[k]]

(* The tree stays sound if the folder has room and the name is free there. *)
LEMMA Planted ==
  ASSUME NEW N, Sound(N), NEW i \in Nat, i \notin DOMAIN N,
         NEW n, NodeLike(n), n.up \in DOMAIN N, IsFolder(N[n.up]),
         n.target \in DOMAIN N => N[n.target].kind # "alias",
         n.target # i, \A k \in DOMAIN N : N[k].target # i,
         Cardinality(Above(N, n.up)) <= DepthCap(n),
         \A k \in DOMAIN N : N[k].up = n.up => N[k].name # n.name,
         NEW M, M = PlantIn(N, i, n)
  PROVE  /\ Sound(M)
         /\ \A k \in DOMAIN N : Above(M, k) = Above(N, k)
<1>1. DOMAIN M = DOMAIN N \cup {i} /\ M[i] = n
  BY DEF PlantIn
<1>2. \A k \in DOMAIN N : M[k] = N[k] /\ k # i
  BY DEF PlantIn
<1>3. HasRoot(N) /\ 0 \in DOMAIN N /\ i # 0
  BY DEF Sound, HasRoot
<1>4. ASSUME NEW k \in DOMAIN N
      PROVE  NodeLike(N[k]) /\ Rooted(N, k)
  BY DEF Sound
<1>5. HasRoot(M)
  <2>1. IsFiniteSet(DOMAIN M)
    BY <1>1, <1>3, FS_AddElement DEF HasRoot
  <2>2. M[0] = RootNode /\ RootNode.up = -1
    BY <1>2, <1>3 DEF Sound, RootNode, TreeNode, Nowhere
  <2>3. \A k \in DOMAIN M : M[k].up \in Int
    BY <1>1, <1>2, <1>3 DEF HasRoot, NodeLike
  <2> QED BY <1>1, <1>3, <2>1, <2>2, <2>3 DEF HasRoot
<1>6. ASSUME NEW k \in DOMAIN N
      PROVE  Rooted(M, k) /\ Above(M, k) = Above(N, k)
  <2>1. \A a \in Above(N, k) : a \in DOMAIN M /\ M[a].up = N[a].up
    BY <1>1, <1>2, AboveIsLeast
  <2>2. Rooted(N, k)
    BY <1>4
  <2> QED BY ONLY <1>3, <1>5, <2>1, <2>2, ChainAgrees
<1>7. /\ Rooted(M, i)
      /\ Cardinality(Above(M, i)) - 1 = Cardinality(Above(N, n.up))
  <2>1. i \in DOMAIN M /\ Rooted(M, M[i].up)
    BY <1>1, <1>6
  <2>2. /\ Rooted(M, i)
        /\ Cardinality(Above(M, i)) = Cardinality(Above(M, n.up)) + 1
    BY <1>1, <1>3, <1>5, <2>1, ChainGrows
  <2>3. Cardinality(Above(M, n.up)) \in Nat
    BY <1>1, <1>5, ChainsFinite
  <2> QED BY <1>6, <2>2, <2>3
<1>8. ASSUME NEW k \in DOMAIN M
      PROVE  /\ NodeLike(M[k]) /\ Rooted(M, k)
             /\ Cardinality(Above(M, k)) - 1 <= DepthCap(M[k])
             /\ k # 0 => IsFolder(M[M[k].up])
             /\ M[k].target \in DOMAIN M => M[M[k].target].kind # "alias"
  <2>1. CASE k = i
    BY <1>1, <1>2, <1>7, <2>1
  <2>2. CASE k # i
    <3>1. k \in DOMAIN N /\ M[k] = N[k]
      BY <1>1, <1>2, <2>2
    <3>2. Cardinality(Above(M, k)) - 1 <= DepthCap(M[k])
      BY <1>6, <3>1 DEF Sound
    <3>3. k # 0 => IsFolder(M[M[k].up])
      <4>1. k # 0 => N[k].up \in DOMAIN N /\ IsFolder(N[N[k].up])
        BY <1>3, <1>4, <3>1, RootedStep DEF Sound
      <4> QED BY <1>2, <3>1, <4>1
    <3>4. M[k].target \in DOMAIN M => M[M[k].target].kind # "alias"
      BY <1>1, <1>2, <3>1 DEF Sound
    <3> QED BY <1>4, <1>6, <3>1, <3>2, <3>3, <3>4
  <2> QED BY <2>1, <2>2
<1>9. ASSUME NEW k \in DOMAIN M \ {0}, NEW j \in DOMAIN M \ {0},
             M[k].up = M[j].up, M[k].name = M[j].name
      PROVE  k = j
  BY <1>1, <1>2, <1>9 DEF Sound
<1>10. M[0] = RootNode
  BY <1>2, <1>3 DEF Sound
<1>11. Sound(M)
  BY ONLY <1>5, <1>8, <1>9, <1>10 DEF Sound
<1> QED BY ONLY <1>6, <1>11

(* The part of a node's chain that lies within top's subtree.              *)
Within(N, top, i) == {a \in Above(N, i) : top \in Above(N, a)}

(* What a move needs: a folder that is not below the node, room for all    *)
(* that is below the node, and a free name.                                *)
Movable(N, top, into) ==
  /\ top \in DOMAIN N \ {0} /\ into \in DOMAIN N /\ IsFolder(N[into])
  /\ top \notin Above(N, into)
  /\ \A i \in DOMAIN N : top \in Above(N, i) =>
       Cardinality(Above(N, into)) + Cardinality(Above(N, i))
         - Cardinality(Above(N, top)) <= MaxTreeDepth
  /\ into # N[top].up => \A k \in DOMAIN N :
                           N[k].up = into => N[k].name # N[top].name

MovedTo(N, M, top, into) == M = [N EXCEPT ![top].up = into]

(* What a move leaves alone: all but one parent, and all chains that do    *)
(* not pass the node.                                                      *)
LEMMA MovedBeside ==
  ASSUME NEW N, Sound(N), NEW top, NEW into, Movable(N, top, into),
         NEW M, MovedTo(N, M, top, into)
  PROVE  /\ HasRoot(M) /\ DOMAIN M = DOMAIN N
         /\ \A i \in DOMAIN N :
              /\ M[i].up = IF i = top THEN into ELSE N[i].up
              /\ NodeLike(M[i]) /\ M[i].kind = N[i].kind
              /\ M[i].name = N[i].name /\ M[i].target = N[i].target
              /\ M[i].read = N[i].read /\ M[i].owner = N[i].owner
              /\ i # top => M[i] = N[i]
         /\ \A i \in DOMAIN N : top \notin Above(N, i) =>
              Rooted(M, i) /\ Above(M, i) = Above(N, i)
<1>1. HasRoot(N) /\ top \in DOMAIN N \ {0} /\ into \in DOMAIN N
  BY DEF Sound, Movable
<1>2. M = [N EXCEPT ![top].up = into] /\ DOMAIN M = DOMAIN N
  BY DEF MovedTo
<1>3. ASSUME NEW i \in DOMAIN N
      PROVE  /\ M[i].up = IF i = top THEN into ELSE N[i].up
             /\ NodeLike(M[i]) /\ M[i].kind = N[i].kind
             /\ M[i].name = N[i].name /\ M[i].target = N[i].target
             /\ M[i].read = N[i].read /\ M[i].owner = N[i].owner
             /\ i # top => M[i] = N[i]
  <2>1. NodeLike(N[i])
    BY DEF Sound
  <2>2. CASE i # top
    BY <1>2, <2>1, <2>2
  <2>3. CASE i = top
    <3>1. M[i] = [N[i] EXCEPT !.up = into]
      BY <1>2, <2>3
    <3>2. into \in Int
      BY <1>1 DEF HasRoot
    <3> QED BY ONLY <2>1, <2>3, <3>1, <3>2 DEF NodeLike, TreeNode
  <2> QED BY <2>2, <2>3
<1>4. HasRoot(M)
  <2>1. \A i \in DOMAIN M : M[i].up \in Int
    BY <1>2, <1>3 DEF NodeLike
  <2>2. M[0].up \notin DOMAIN M /\ 0 \in DOMAIN M
    BY <1>1, <1>2, <1>3 DEF HasRoot
  <2> QED BY ONLY <1>1, <1>2, <2>1, <2>2 DEF HasRoot
<1>5. ASSUME NEW i \in DOMAIN N, top \notin Above(N, i)
      PROVE  Rooted(M, i) /\ Above(M, i) = Above(N, i)
  <2>1. \A a \in Above(N, i) : a \in DOMAIN M /\ M[a].up = N[a].up
    BY <1>2, <1>3, <1>5, AboveIsLeast
  <2>2. Rooted(N, i)
    BY DEF Sound
  <2> QED BY ONLY <1>1, <1>4, <2>1, <2>2, ChainAgrees
<1> QED BY ONLY <1>2, <1>3, <1>4, <1>5

(* The node takes what is below it along.                                  *)
LEMMA MovedAlong ==
  ASSUME NEW N, Sound(N), NEW top, NEW into, Movable(N, top, into),
         NEW M, MovedTo(N, M, top, into),
         NEW i \in DOMAIN N, top \in Above(N, i)
  PROVE  /\ Rooted(M, i)
         /\ Above(M, i) = Within(N, top, i) \cup Above(N, into)
         /\ Cardinality(Above(M, i)) - 1 <= MaxTreeDepth
<1> DEFINE W == Within(N, top, i)
           B == Above(N, into)
<1>1. /\ HasRoot(N) /\ Rooted(N, i) /\ Rooted(N, into)
      /\ top \in DOMAIN N \ {0} /\ into \in DOMAIN N /\ top \notin B
  BY DEF Sound, Movable
<1>2. HasRoot(M) /\ DOMAIN M = DOMAIN N
  BY MovedBeside
<1>3. \A a \in DOMAIN N : M[a].up = IF a = top THEN into ELSE N[a].up
  BY MovedBeside
<1>4. Rooted(M, into) /\ Above(M, into) = B
  BY <1>1, MovedBeside
<1>5. Above(M, i) \subseteq W \cup B
  <2>1. W \cup B \in SUBSET DOMAIN M /\ i \in W
    BY <1>1, <1>2, AboveIsLeast DEF Within
  <2>2. ASSUME NEW a \in W \cup B, M[a].up \in DOMAIN M
        PROVE  M[a].up \in W \cup B
    <3>1. CASE a \in B
      <4>1. a # top /\ a \in DOMAIN N /\ M[a].up = N[a].up
        BY <1>1, <1>3, <3>1, AboveIsLeast
      <4> QED BY <1>1, <1>2, <2>2, <3>1, <4>1, AboveIsLeast DEF Upward
    <3>2. CASE a \in W /\ a = top
      BY <1>1, <1>3, <3>2, AboveIsLeast
    <3>3. CASE a \in W /\ a # top
      <4>1. a \in Above(N, i) /\ top \in Above(N, a) /\ a \in DOMAIN N
        BY <3>3, AboveIsLeast DEF Within
      <4>2. M[a].up = N[a].up /\ N[a].up \in DOMAIN N
        BY <1>2, <1>3, <2>2, <3>3, <4>1
      <4>3. top \in Above(N, N[a].up)
        BY <3>3, <4>1, <4>2, AboveStep
      <4>4. N[a].up \in Above(N, i)
        BY <4>1, <4>2, AboveIsLeast DEF Upward
      <4> QED BY <4>2, <4>3, <4>4 DEF Within
    <3> QED BY <2>2, <3>1, <3>2, <3>3
  <2> HIDE DEF W, B
  <2>3. Upward(M, W \cup B)
    BY <2>2 DEF Upward
  <2> QED BY <1>2, <2>1, <2>3, AboveIsLeast
<1>6. top \in Above(M, i)
  <2>1. SUFFICES ASSUME top \notin Above(M, i) PROVE FALSE
    OBVIOUS
  <2>2. i \in Above(M, i) /\ Above(M, i) \in SUBSET DOMAIN N
    BY <1>2, AboveIsLeast
  <2>3. Upward(N, Above(M, i))
    <3>1. ASSUME NEW a \in Above(M, i), N[a].up \in DOMAIN N
          PROVE  N[a].up \in Above(M, i)
      <4>1. a # top /\ a \in DOMAIN N
        BY <2>1, <2>2
      <4>2. M[a].up = N[a].up
        BY <1>3, <4>1
      <4> QED BY <1>2, <3>1, <4>2, AboveIsLeast DEF Upward
    <3> QED BY <3>1 DEF Upward
  <2>4. Above(N, i) \subseteq Above(M, i)
    BY <2>2, <2>3, AboveIsLeast
  <2> QED BY <2>1, <2>4
<1>7. B \subseteq Above(M, i)
  <2>1. into \in Above(M, top)
    BY <1>1, <1>2, <1>3, <1>4, AboveStep
  <2>2. B \subseteq Above(M, top)
    BY <1>1, <1>2, <1>4, <2>1, AboveTransitive
  <2> QED BY <1>2, <1>6, <2>2, AboveTransitive
<1>8. W \subseteq Above(M, i)
  <2> DEFINE T == Above(M, i) \cup Above(N, top)
  <2>1. T \in SUBSET DOMAIN N /\ i \in T
    BY <1>1, <1>2, AboveIsLeast
  <2>2. ASSUME NEW a \in T, N[a].up \in DOMAIN N PROVE N[a].up \in T
    <3>1. CASE a \in Above(N, top)
      BY <1>1, <2>2, <3>1, AboveIsLeast DEF Upward
    <3>2. CASE a \in Above(M, i) /\ a # top
      BY <1>2, <1>3, <2>1, <2>2, <3>2, AboveIsLeast DEF Upward
    <3>3. CASE a = top
      BY <1>1, <2>2, <3>3, AboveIsLeast DEF Upward
    <3> QED BY <2>2, <3>1, <3>2, <3>3
  <2>3. Upward(N, T)
    BY <2>2 DEF Upward
  <2>4. Above(N, i) \subseteq T
    <3> HIDE DEF T
    <3> QED BY <2>1, <2>3, AboveIsLeast
  <2>5. ASSUME NEW a \in W PROVE a \in Above(M, i)
    <3>1. a \in T /\ top \in Above(N, a)
      BY <2>4, <2>5 DEF Within
    <3>2. CASE a \in Above(N, top)
      <4>1. Rooted(N, top)
        BY <1>1 DEF Sound
      <4>2. a = top
        BY <1>1, <3>1, <3>2, <4>1, AboveAntisymmetric
      <4> QED BY <1>6, <4>2
    <3> QED BY <3>1, <3>2
  <2> QED BY <2>5
<1>9. Above(M, i) = W \cup B
  BY <1>5, <1>7, <1>8
<1>10. Rooted(M, i)
  BY <1>1, <1>2, <1>9 DEF Rooted
<1>11. Cardinality(W \cup B) - 1 <= MaxTreeDepth
  <2> DEFINE T == Above(N, top)
  <2>1. /\ IsFiniteSet(Above(N, i)) /\ IsFiniteSet(B) /\ IsFiniteSet(T)
        /\ Cardinality(Above(N, i)) \in Nat /\ Cardinality(B) \in Nat
        /\ Cardinality(T) \in Nat
    BY <1>1, ChainsFinite
  <2>2. IsFiniteSet(W) /\ Cardinality(W) \in Nat
    <3>1. W \in SUBSET Above(N, i)
      BY DEF Within
    <3> QED BY <2>1, <3>1, FS_Subset, FS_CardinalityType
  <2>3. W \cap T = {top}
    <3>1. top \in W /\ top \in T
      BY <1>1, AboveIsLeast DEF Within
    <3>2. ASSUME NEW a \in W \cap T PROVE a = top
      <4>1. Rooted(N, top) /\ top \in Above(N, a)
        BY <1>1 DEF Sound, Within
      <4> QED BY <1>1, <4>1, AboveAntisymmetric
    <3> QED BY <3>1, <3>2
  <2>4. W \cup T \in SUBSET Above(N, i)
    BY AboveTransitive DEF Within
  <2> HIDE DEF W, B, T
  <2>5. Cardinality(W) + Cardinality(T) - 1 <= Cardinality(Above(N, i))
    <3>1. Cardinality(W \cup T) <= Cardinality(Above(N, i))
      BY <2>1, <2>4, FS_Subset
    <3>2. Cardinality(W \cup T)
            = Cardinality(W) + Cardinality(T) - Cardinality(W \cap T)
      BY <2>1, <2>2, FS_Union
    <3>3. Cardinality(W \cap T) = 1
      BY <2>3, FS_Singleton
    <3> QED BY <2>1, <2>2, <3>1, <3>2, <3>3
  <2>6. Cardinality(W \cup B) <= Cardinality(W) + Cardinality(B)
    <3>1. Cardinality(W \cup B)
            = Cardinality(W) + Cardinality(B) - Cardinality(W \cap B)
      BY <2>1, <2>2, FS_Union
    <3>2. Cardinality(W \cap B) \in Nat
      <4>1. W \cap B \in SUBSET B
        OBVIOUS
      <4> QED BY <2>1, <4>1, FS_Subset, FS_CardinalityType
    <3> QED BY <2>1, <2>2, <3>1, <3>2
  <2>7. Cardinality(W \cup B) \in Nat
    BY <2>1, <2>2, FS_Union, FS_CardinalityType
  <2>8. Cardinality(B) + Cardinality(Above(N, i)) - Cardinality(T)
          <= MaxTreeDepth
    BY DEF Movable, B, T
  <2>9. MaxTreeDepth \in Nat
    BY TreeConstants
  <2> QED BY <2>1, <2>2, <2>5, <2>6, <2>7, <2>8, <2>9
<1> QED BY <1>9, <1>10, <1>11

(* A move the checks admit keeps the tree sound.                           *)
LEMMA Moved ==
  ASSUME NEW N, Sound(N), NEW top, NEW into, Movable(N, top, into),
         NEW M, MovedTo(N, M, top, into)
  PROVE  Sound(M)
<1>1. /\ HasRoot(N) /\ top \in DOMAIN N \ {0} /\ into \in DOMAIN N
      /\ IsFolder(N[into])
  BY DEF Sound, Movable
<1>2. /\ HasRoot(M) /\ DOMAIN M = DOMAIN N
      /\ \A i \in DOMAIN N :
              /\ M[i].up = IF i = top THEN into ELSE N[i].up
              /\ NodeLike(M[i]) /\ M[i].kind = N[i].kind
              /\ M[i].name = N[i].name /\ M[i].target = N[i].target
              /\ i # top => M[i] = N[i]
  BY MovedBeside
<1>3. ASSUME NEW i \in DOMAIN N
      PROVE  Rooted(M, i) /\ Cardinality(Above(M, i)) - 1 <= DepthCap(M[i])
  <2>1. CASE top \in Above(N, i)
    <3>1. Rooted(M, i) /\ Cardinality(Above(M, i)) - 1 <= MaxTreeDepth
      BY <2>1, MovedAlong
    <3>2. Cardinality(Above(M, i)) \in Nat /\ MaxTreeDepth \in Nat
      BY <1>2, ChainsFinite, TreeConstants
    <3> QED BY <3>1, <3>2 DEF DepthCap
  <2>2. CASE top \notin Above(N, i)
    <3>1. Rooted(M, i) /\ Above(M, i) = Above(N, i)
      BY <2>2, MovedBeside
    <3> QED BY <1>2, <3>1 DEF Sound, DepthCap
  <2> QED BY <2>1, <2>2
<1>4. ASSUME NEW i \in DOMAIN N, i # 0 PROVE IsFolder(M[M[i].up])
  <2>1. Rooted(N, i) /\ IsFolder(N[N[i].up])
    BY <1>4 DEF Sound
  <2>2. N[i].up \in DOMAIN N
    BY <1>1, <1>4, <2>1, RootedStep
  <2> QED BY <1>1, <1>2, <2>1, <2>2 DEF IsFolder
<1>5. ASSUME NEW i \in DOMAIN N, M[i].target \in DOMAIN N
      PROVE  M[M[i].target].kind # "alias"
  BY <1>2, <1>5 DEF Sound
<1>6. ASSUME NEW i \in DOMAIN N \ {0}, NEW j \in DOMAIN N \ {0},
             M[i].up = M[j].up, M[i].name = M[j].name
      PROVE  i = j
  <2>1. into # N[top].up => \A k \in DOMAIN N :
                              N[k].up = into => N[k].name # N[top].name
    BY DEF Movable
  <2>2. \A k \in DOMAIN N : k # top => M[k].up = N[k].up
    BY <1>2
  <2>3. M[top].up = into
    BY <1>1, <1>2
  <2>4. M[i].name = N[i].name /\ M[j].name = N[j].name
    BY <1>2
  <2>5. N[i].up = N[j].up => i = j
    BY <1>6, <2>4 DEF Sound
  <2> QED BY <1>1, <1>6, <2>1, <2>2, <2>3, <2>4, <2>5
<1>7. M[0] = RootNode
  BY <1>1, <1>2 DEF Sound, HasRoot
<1> QED BY ONLY <1>2, <1>3, <1>4, <1>5, <1>6, <1>7 DEF Sound

---------------------------------------------------------------------------
(* The invariant: the nodes in memory are sound; the child lists and the   *)
(* table follow from them (an alias whose target is gone has none in the   *)
(* table); and no number is used twice.                                    *)

KidsOf(N) == [i \in DOMAIN N |-> {k \in DOMAIN N : N[k].up = i}]

RowOf(n, D) == IF n.target \in D THEN n ELSE [n EXCEPT !.target = Nowhere]
RowsOf(N) == [i \in DOMAIN N |-> RowOf(N[i], DOMAIN N)]

Numbered(N, b) ==
  /\ b \in Nat /\ DOMAIN N \subseteq 0 .. b
  /\ \A i \in DOMAIN N : N[i].target <= b

TreeInv ==
  /\ Sound(tree.nodes) /\ tree.kids = KidsOf(tree.nodes)
  /\ rows = RowsOf(tree.nodes) /\ Numbered(tree.nodes, born)

LEMMA AncestryKnown ==
  ASSUME Sound(tree.nodes), NEW i \in DOMAIN tree.nodes
  PROVE  Ancestry(i) = Above(tree.nodes, i)
<1>1. HasRoot(tree.nodes) /\ Rooted(tree.nodes, i) /\ i \in Int
  BY DEF Sound, HasRoot
<1> QED BY <1>1, AncestryIs, AncestryOfTree

LEMMA AncestryKnownNext ==
  ASSUME Sound(tree'.nodes), NEW i \in DOMAIN tree'.nodes
  PROVE  Ancestry(i)' = Above(tree'.nodes, i)
<1>1. HasRoot(tree'.nodes) /\ Rooted(tree'.nodes, i) /\ i \in Int
  BY DEF Sound, HasRoot
<1> QED BY <1>1, AncestryIs, AncestryOfTree

(* A stored node differs from the one in memory in its target at most.     *)
LEMMA RowDiffers ==
  ASSUME NEW n, NodeLike(n), NEW D
  PROVE  LET r == RowOf(n, D) IN
           /\ NodeLike(r) /\ r.up = n.up /\ r.name = n.name
           /\ r.kind = n.kind /\ r.read = n.read /\ r.owner = n.owner
           /\ r.target = IF n.target \in D THEN n.target ELSE Nowhere
           /\ r = [n EXCEPT !.target = r.target]
<1>1. CASE n.target \in D
  BY <1>1 DEF RowOf, NodeLike, TreeNode
<1>2. CASE n.target \notin D
  BY <1>2 DEF RowOf, NodeLike, TreeNode, Nowhere
<1> QED BY <1>1, <1>2

LEMMA TreeInvSound == TreeInv => TreeSound
<1> SUFFICES ASSUME TreeInv PROVE TreeSound
  OBVIOUS
<1> DEFINE N == tree.nodes
<1>1. /\ Sound(N) /\ tree.kids = KidsOf(N) /\ rows = RowsOf(N)
      /\ Numbered(N, born)
  BY DEF TreeInv
<1>2. DOMAIN rows = Alive
  BY <1>1 DEF RowsOf, Alive
<1>3. ASSUME NEW i \in Alive
      PROVE  /\ Ancestry(i) # {}
             /\ Cardinality(Ancestry(i)) - 1 <=
                  MaxTreeDepth + IF NodeAt(i).kind = "file" THEN 1 ELSE 0
  <2>1. i \in DOMAIN N /\ Ancestry(i) = Above(N, i)
    BY <1>1, AncestryKnown DEF Alive
  <2>2. i \in Above(N, i)
    BY <2>1, AboveIsLeast
  <2> QED BY <1>1, <2>1, <2>2 DEF Sound, DepthCap, NodeAt
<1>4. ASSUME NEW i \in Alive
      PROVE  rows[i] = [NodeAt(i) EXCEPT !.target =
                          IF @ \in Alive THEN @ ELSE rows[i].target]
  <2>1. NodeLike(N[i]) /\ rows[i] = RowOf(N[i], DOMAIN N)
    BY <1>1 DEF Alive, Sound, RowsOf
  <2>2. /\ rows[i] = [N[i] EXCEPT !.target = rows[i].target]
        /\ N[i].target \in DOMAIN N => rows[i].target = N[i].target
    BY <2>1, RowDiffers
  <2> QED BY <2>2 DEF NodeAt, Alive
<1>5. ASSUME NEW i \in Alive
      PROVE  tree.kids[i] = {k \in Alive : NodeAt(k).up = i}
  BY <1>1 DEF KidsOf, Alive, NodeAt
<1>6. ASSUME NEW i \in Alive, NEW k \in tree.kids[i]
      PROVE  k \in Alive \ {0} /\ NodeAt(k).up = i /\ IsFolder(NodeAt(i))
  <2>1. k \in DOMAIN N /\ N[k].up = i
    BY <1>5 DEF Alive, NodeAt
  <2>2. k # 0
    BY <1>1, <2>1 DEF Sound, HasRoot, Alive
  <2> QED BY <1>1, <2>1, <2>2 DEF Sound, Alive, NodeAt
<1>7. ASSUME NEW i \in Alive, NEW k \in tree.kids[i] \ {i},
             NEW m \in tree.kids[i], NodeAt(k).name = NodeAt(m).name
      PROVE  k = m
  <2>1. /\ k \in DOMAIN N \ {0} /\ m \in DOMAIN N \ {0}
        /\ N[k].up = N[m].up /\ N[k].name = N[m].name
    BY <1>6, <1>7 DEF Alive, NodeAt
  <2> QED BY ONLY <1>1, <2>1 DEF Sound
<1>8. ASSUME NEW i \in Alive, NodeAt(i).target \in Alive
      PROVE  NodeAt(NodeAt(i).target).kind # "alias"
  BY <1>1, <1>8 DEF Sound, Alive, NodeAt
<1> QED BY <1>2, <1>3, <1>4, <1>5, <1>6, <1>7, <1>8 DEF TreeSound

(* An insert that passed the checks keeps the invariant, and what was      *)
(* there keeps its place.                                                  *)
LEMMA InsertKeeps ==
  ASSUME TreeInv, NEW n, Insert(n), NodeLike(n),
         n.up \in Alive, IsFolder(NodeAt(n.up)),
         n.target \in {Nowhere} \cup Alive,
         n.target \in Alive => NodeAt(n.target).kind # "alias",
         Cardinality(Ancestry(n.up)) <= DepthCap(n),
         ~NameTaken(n.up, n.name)
  PROVE  /\ TreeInv'
         /\ \A k \in Alive : /\ Above(tree'.nodes, k) = Above(tree.nodes, k)
                             /\ k \in Alive' /\ NodeAt(k)' = NodeAt(k)
<1> DEFINE N == tree.nodes
           M == tree'.nodes
           i == born + 1
<1>1. /\ Sound(N) /\ tree.kids = KidsOf(N) /\ rows = RowsOf(N)
      /\ Numbered(N, born)
  BY DEF TreeInv
<1>2. /\ born' = i
      /\ rows' = [k \in DOMAIN rows \cup {i} |-> IF k = i THEN n ELSE rows[k]]
      /\ M = [k \in DOMAIN N \cup {i} |-> IF k = i THEN n ELSE N[k]]
      /\ tree'.kids = [k \in DOMAIN N \cup {i} |->
                          IF k = i THEN {}
                          ELSE IF k = n.up THEN tree.kids[k] \cup {i}
                          ELSE tree.kids[k]]
  BY DEF Insert, Alive, NodeAt
<1>3. /\ i \in Nat /\ i \notin DOMAIN N /\ born \in Nat
      /\ \A k \in DOMAIN N : N[k].target <= born /\ k <= born
      /\ \A k \in DOMAIN N : N[k].target # i
  BY <1>1 DEF Numbered, Sound, NodeLike
<1>4. n.target # i /\ n.target <= born /\ n.up # i /\ n.up \in DOMAIN N
  BY <1>3 DEF Alive, Nowhere
<1>5. \A k \in DOMAIN N : N[k].up = n.up => N[k].name # n.name
  BY <1>1 DEF NameTaken, NodeAt, KidsOf, Alive
<1>6. Cardinality(Above(N, n.up)) <= DepthCap(n)
  BY <1>1, <1>4, AncestryKnown
<1> HIDE DEF i
<1>7. Sound(M) /\ \A k \in DOMAIN N : Above(M, k) = Above(N, k)
  <2>1. IsFolder(N[n.up])
          /\ (n.target \in DOMAIN N => N[n.target].kind # "alias")
    BY DEF Alive, NodeAt
  <2>2. M = PlantIn(N, i, n)
    BY <1>2 DEF PlantIn
  <2> HIDE DEF M, N
  <2> QED BY ONLY <2>2, <1>1, <1>2, <1>3, <1>4, <1>5, <1>6, <2>1, NodeLike(n),
             Planted
<1>8. DOMAIN M = DOMAIN N \cup {i} /\ M[i] = n
        /\ \A k \in DOMAIN N : M[k] = N[k] /\ k # i
  BY <1>2, <1>3
<1>9. tree'.kids = KidsOf(M)
  <2>1. ASSUME NEW k \in DOMAIN M
        PROVE  tree'.kids[k] = {j \in DOMAIN M : M[j].up = k}
    <3>1. CASE k = i
      <4>1. \A j \in DOMAIN N : N[j].up # i
        <5>1. ASSUME NEW j \in DOMAIN N, N[j].up = i PROVE FALSE
          <6>1. Rooted(N, j) /\ HasRoot(N) /\ i # 0
            BY <1>1, <1>3 DEF Sound, i
          <6>2. j # 0
            BY <1>1, <5>1, <6>1, <1>3 DEF Sound, RootNode, TreeNode, Nowhere
          <6> QED BY <1>3, <5>1, <6>1, <6>2, RootedStep
        <5> QED BY <5>1
      <4> QED BY <1>2, <1>4, <1>8, <3>1, <4>1
    <3>2. CASE k # i
      <4>1. k \in DOMAIN N /\ tree.kids[k] = {j \in DOMAIN N : N[j].up = k}
        BY <1>1, <1>8, <3>2 DEF KidsOf
      <4>2. tree'.kids[k] = IF k = n.up THEN tree.kids[k] \cup {i}
                            ELSE tree.kids[k]
        BY <1>2, <3>2, <4>1
      <4> QED BY <1>8, <4>1, <4>2
    <3> QED BY <3>1, <3>2
  <2>2. tree'.kids = [k \in DOMAIN M |-> tree'.kids[k]]
    BY <1>2, <1>8
  <2> QED BY <2>1, <2>2 DEF KidsOf
<1>10. rows' = RowsOf(M)
  <2>1. ASSUME NEW k \in DOMAIN M PROVE rows'[k] = RowOf(M[k], DOMAIN M)
    <3>1. CASE k = i
      <4>1. rows'[k] = n /\ M[k] = n
        BY <1>2, <1>8, <3>1
      <4>2. CASE n.target \in DOMAIN M
        BY <4>1, <4>2 DEF RowOf
      <4>3. CASE n.target \notin DOMAIN M
        <5>1. n.target = Nowhere
          BY <1>8, <4>3 DEF Alive
        <5>2. n = [n EXCEPT !.target = Nowhere]
          BY <5>1 DEF NodeLike, TreeNode
        <5> QED BY <4>1, <4>3, <5>2 DEF RowOf
      <4> QED BY <4>2, <4>3
    <3>2. CASE k # i
      <4>1. k \in DOMAIN N /\ M[k] = N[k] /\ N[k].target # i
        BY <1>3, <1>8, <3>2
      <4>2. rows'[k] = RowOf(N[k], DOMAIN N)
        BY <1>1, <1>2, <3>2, <4>1 DEF RowsOf
      <4>3. N[k].target \in DOMAIN N <=> N[k].target \in DOMAIN M
        BY <1>8, <4>1
      <4> QED BY <4>1, <4>2, <4>3 DEF RowOf
    <3> QED BY <3>1, <3>2
  <2>2. rows' = [k \in DOMAIN M |-> rows'[k]]
    BY <1>1, <1>2, <1>8 DEF RowsOf
  <2> QED BY <2>1, <2>2 DEF RowsOf
<1>11. Numbered(M, born')
  <2>1. born' \in Nat /\ \A k \in 0 .. born : k \in 0 .. born'
    BY <1>2, <1>3 DEF i
  <2>2. i \in 0 .. born'
    BY <1>2, <1>3
  <2>3. ASSUME NEW k \in DOMAIN M PROVE M[k].target <= born'
    <3>1. M[k].target <= born /\ M[k].target \in Int
      BY <1>1, <1>3, <1>4, <1>8 DEF Sound, NodeLike
    <3> QED BY <1>2, <1>3, <3>1 DEF i
  <2> QED BY <1>1, <1>8, <2>1, <2>2, <2>3 DEF Numbered
<1> QED BY <1>7, <1>8, <1>9, <1>10, <1>11 DEF TreeInv, Alive, NodeAt

---------------------------------------------------------------------------
(* Chains once more: two nodes on a chain are one above the other, and all *)
(* but the first are folders that have an entry on it.                     *)

(* Of two nodes on a chain, one is above the other.                        *)
LEMMA ChainLinear ==
  ASSUME NEW N, NEW i \in DOMAIN N, NEW a \in Above(N, i),
         NEW b \in Above(N, i)
  PROVE  a \in Above(N, b) \/ b \in Above(N, a)
<1> DEFINE S == {c \in Above(N, i) : a \in Above(N, c) \/ c \in Above(N, a)}
<1>1. S \in SUBSET DOMAIN N /\ i \in S /\ a \in DOMAIN N
  BY AboveIsLeast
<1>2. ASSUME NEW c \in S, N[c].up \in DOMAIN N PROVE N[c].up \in S
  <2>1. N[c].up \in Above(N, i)
    BY <1>2, AboveIsLeast DEF Upward
  <2>2. CASE a = c \/ c \in Above(N, a)
    <3>1. N[c].up \in Above(N, a)
      BY <1>1, <1>2, <2>2, AboveIsLeast DEF Upward
    <3> QED BY <2>1, <3>1
  <2>3. CASE a # c /\ a \in Above(N, c)
    <3>1. a \in Above(N, N[c].up)
      BY <1>1, <1>2, <2>3, AboveStep
    <3> QED BY <2>1, <3>1
  <2> QED BY <2>2, <2>3
<1>3. Upward(N, S)
  BY <1>2 DEF Upward
<1> HIDE DEF S
<1>4. b \in S
  BY <1>1, <1>3, AboveIsLeast
<1> QED BY <1>4 DEF S

(* Whatever is above a node is a folder with an entry in it.               *)
LEMMA ChainOfFolders ==
  ASSUME NEW N, Sound(N), NEW i \in DOMAIN N, NEW a \in Above(N, i), a # i
  PROVE  IsFolder(N[a]) /\ \E k \in DOMAIN N : N[k].up = a
<1> DEFINE Good(b) == IsFolder(N[b]) /\ \E k \in DOMAIN N : N[k].up = b
           S == {b \in Above(N, i) : b = i \/ Good(b)}
<1>1. S \in SUBSET DOMAIN N /\ i \in S
  BY AboveIsLeast
<1>2. ASSUME NEW b \in S, N[b].up \in DOMAIN N PROVE N[b].up \in S
  <2>1. N[b].up \in Above(N, i)
    BY <1>2, AboveIsLeast DEF Upward
  <2>2. b # 0
    BY <1>2 DEF Sound, HasRoot
  <2>3. Good(N[b].up)
    BY <1>1, <1>2, <2>2 DEF Sound
  <2> QED BY <2>1, <2>3
<1>3. Upward(N, S)
  BY <1>2 DEF Upward
<1> HIDE DEF S
<1>4. a \in S
  BY <1>1, <1>3, AboveIsLeast
<1> QED BY <1>4 DEF S

(* A finite set of numbers has a greatest one.                             *)
LEMMA GreatestNumber ==
  ASSUME NEW T \in SUBSET Int, IsFiniteSet(T), T # {}
  PROVE  \E m \in T : \A x \in T : x <= m
<1> DEFINE HasMax(S) == \E m \in S : \A x \in S : x <= m
           Bad == {n \in Nat : \E S \in SUBSET Int :
                     /\ IsFiniteSet(S) /\ S # {} /\ Cardinality(S) = n
                     /\ ~HasMax(S)}
<1>1. Bad = {}
  <2>1. SUFFICES ASSUME Bad # {} PROVE FALSE
    OBVIOUS
  <2>2. PICK n \in Bad : \A m \in Bad : n <= m
    <3>1. Bad \in SUBSET Nat
      OBVIOUS
    <3> HIDE DEF Bad
    <3> QED BY <2>1, <3>1, LeastNumber
  <2>3. PICK S \in SUBSET Int :
          IsFiniteSet(S) /\ S # {} /\ Cardinality(S) = n /\ ~HasMax(S)
    BY <2>2
  <2>4. PICK x \in S : TRUE
    BY <2>3
  <2> DEFINE R == S \ {x}
  <2>5. IsFiniteSet(R) /\ Cardinality(R) = n - 1 /\ R \in SUBSET Int
    BY <2>3, <2>4, FS_RemoveElement
  <2>6. R # {}
    <3>1. ASSUME R = {} PROVE HasMax(S)
      BY <2>4, <3>1
    <3> QED BY <2>3, <3>1
  <2>7. n - 1 \notin Bad /\ n - 1 \in Nat
    <3>1. n \in Nat /\ n - 1 \in Nat
      BY <2>2, <2>5, FS_CardinalityType
    <3> HIDE DEF Bad
    <3> QED BY <2>2, <3>1
  <2>8. HasMax(R)
    <3> HIDE DEF HasMax, R
    <3> QED BY <2>5, <2>6, <2>7
  <2>9. PICK m \in R : \A y \in R : y <= m
    BY <2>8
  <2>10. HasMax(S)
    <3>1. x \in Int /\ m \in Int /\ m \in S
      BY <2>4, <2>5, <2>9
    <3>2. CASE x <= m
      BY <2>9, <3>1, <3>2
    <3>3. CASE ~(x <= m)
      <4>1. \A y \in S : y <= x
        <5>1. ASSUME NEW y \in S PROVE y <= x
          <6>1. y \in Int /\ (y = x \/ y <= m)
            BY <2>9
          <6> QED BY ONLY <3>1, <3>3, <6>1
        <5> QED BY <5>1
      <4> QED BY <2>4, <4>1
    <3> QED BY <3>2, <3>3
  <2> QED BY <2>3, <2>10
<1>2. Cardinality(T) \in Nat /\ Cardinality(T) \notin Bad
  BY <1>1, FS_CardinalityType
<1> QED BY <1>2

LEMMA GreatestChosen ==
  ASSUME NEW T \in SUBSET Int, IsFiniteSet(T), NEW x \in T
  PROVE  LET m == CHOOSE m \in T : \A y \in T : y <= m
         IN m \in T /\ x <= m
<1>1. \E m \in T : \A y \in T : y <= m
  BY GreatestNumber
<1> QED BY <1>1

---------------------------------------------------------------------------
(* The start.                                                              *)

(* If depths can be given to the nodes, each one more than its parent's,   *)
(* all chains end at the root and the depths are their lengths.            *)
LEMMA DepthsMakeTree ==
  ASSUME NEW N, HasRoot(N), NEW depth \in [DOMAIN N -> Nat], depth[0] = 0,
         \A i \in DOMAIN N \ {0} :
           N[i].up \in DOMAIN N /\ depth[i] = depth[N[i].up] + 1,
         NEW i \in DOMAIN N
  PROVE  Rooted(N, i) /\ Cardinality(Above(N, i)) = depth[i] + 1
<1> DEFINE Right(k) == Rooted(N, k) /\ Cardinality(Above(N, k)) = depth[k] + 1
           Wrong == {d \in Nat : \E k \in DOMAIN N :
                       depth[k] = d /\ ~Right(k)}
<1>1. Wrong = {}
  <2>1. SUFFICES ASSUME Wrong # {} PROVE FALSE
    OBVIOUS
  <2>2. PICK d \in Wrong : \A m \in Wrong : d <= m
    <3>1. Wrong \in SUBSET Nat
      OBVIOUS
    <3> HIDE DEF Wrong
    <3> QED BY <2>1, <3>1, LeastNumber
  <2>3. PICK k \in DOMAIN N : depth[k] = d /\ ~Right(k)
    BY <2>2
  <2>4. k # 0
    <3>1. Rooted(N, 0) /\ Cardinality(Above(N, 0)) = 1
      BY AboveRoot, FS_Singleton DEF Rooted, HasRoot
    <3> QED BY <2>3, <3>1
  <2> DEFINE u == N[k].up
  <2>5. u \in DOMAIN N /\ depth[u] \in Nat /\ d = depth[u] + 1
    BY <2>3, <2>4
  <2>6. Right(u)
    <3>1. depth[u] \notin Wrong
      <4> HIDE DEF Wrong
      <4> QED BY <2>2, <2>5
    <3> HIDE DEF Right
    <3> QED BY <2>5, <3>1
  <2>7. Rooted(N, k) /\ Cardinality(Above(N, k)) = depth[u] + 1 + 1
    BY <2>4, <2>6, ChainGrows
  <2> QED BY <2>3, <2>5, <2>7
<1> HIDE DEF Right
<1> QED BY <1>1 DEF Right

LEMMA TreeInvInit == TreeInit => TreeInv
<1> SUFFICES ASSUME TreeInit PROVE TreeInv
  OBVIOUS
<1>1. PICK s \in Seeds :
        /\ rows = [i \in 0 .. Len(s) |-> IF i = 0 THEN RootNode ELSE s[i]]
        /\ born = Len(s)
  BY DEF TreeInit
<1> DEFINE L == Len(s)
           D == 0 .. L
<1>2. SeedSound(s) /\ tree = Load(rows)
  BY TreeConstants DEF TreeInit
<1>3. L \in Nat /\ MaxTreeDepth \in Nat
  BY <1>2, TreeConstants DEF SeedSound
<1>4. ASSUME NEW i \in 1 .. L
      PROVE  /\ s[i] = TreeNode(s[i].up, s[i].name, s[i].kind, s[i].read,
                                s[i].write, s[i].owner, s[i].target)
             /\ s[i].up \in D /\ s[i].read \in Nat
             /\ s[i].up # 0 => s[s[i].up].kind \in FolderKinds
             /\ s[i].target \in {Nowhere} \cup 1 .. L
             /\ s[i].target # Nowhere => s[s[i].target].kind # "alias"
             /\ \A j \in 1 .. L :
                  s[i].up = s[j].up /\ s[i].name = s[j].name => i = j
  BY <1>2 DEF SeedSound
<1>5. PICK depth \in [D -> 0 .. (MaxTreeDepth + 1)] :
        /\ depth[0] = 0
        /\ \A i \in 1 .. L : /\ depth[i] = depth[s[i].up] + 1
                             /\ depth[i] <= MaxTreeDepth +
                                  IF s[i].kind = "file" THEN 1 ELSE 0
  BY <1>2 DEF SeedSound
<1> DEFINE N == tree.nodes
<1>6. N = rows /\ tree.kids = KidsOf(N)
  BY <1>2 DEF Load, KidsOf
<1> HIDE DEF L, D
<1>7. DOMAIN N = D /\ \A i \in D : N[i] = IF i = 0 THEN RootNode ELSE s[i]
  BY <1>1, <1>6 DEF L, D
<1>8. /\ D \subseteq Nat /\ 0 \in D
      /\ IsFiniteSet(D) /\ Nowhere \notin D
      /\ \A k \in D \ {0} : k \in 1 .. L
      /\ \A k \in 1 .. L : k \in D
  <2>1. IsFiniteSet(0 .. L)
    BY <1>3, FS_Interval DEF D
  <2>2. D \subseteq Nat /\ 0 \in D /\ Nowhere \notin D
    BY <1>3 DEF D, Nowhere
  <2>3. /\ \A i \in D \ {0} : i \in 1 .. L
        /\ \A i \in 1 .. L : i \in D
    BY <1>3 DEF D
  <2> QED BY <2>1, <2>2, <2>3 DEF D
<1> HIDE DEF N
<1>9. /\ RootNode.up = Nowhere /\ RootNode.name = RootName
      /\ RootNode.kind = "dir" /\ RootNode.read = 0 /\ RootNode.write = 2
      /\ RootNode.owner = Nobody /\ RootNode.target = Nowhere
      /\ NodeLike(RootNode) /\ IsFolder(RootNode)
  BY DEF RootNode, TreeNode, NodeLike, Nowhere, IsFolder, FolderKinds
<1>8a. D \subseteq Int
  BY <1>8
<1>10. ASSUME NEW i \in D
       PROVE  /\ NodeLike(N[i]) /\ N[i].target \in {Nowhere} \cup D
              /\ i # 0 => N[i].up \in D
  <2>1. CASE i = 0
    BY <1>7, <1>9, <2>1
  <2>2. CASE i # 0
    <3>1. i \in 1 .. L /\ N[i] = s[i]
      BY <1>7, <1>8, <2>2
    <3>2. N[i].up \in Int /\ N[i].read \in Int /\ N[i].target \in Int
            /\ N[i].target \in {Nowhere} \cup D
      <4>1. s[i].up \in D
        BY <1>4, <3>1
      <4>2. s[i].read \in Int
        BY <1>4, <3>1
      <4>5. N[i].up \in Int /\ N[i].read \in Int
        <5>1. s[i].up \in Int
          BY <1>8a, <4>1
        <5> QED BY <3>1, <4>2, <5>1
      <4>6. s[i].target \in {Nowhere} \cup 1 .. L
        BY <1>4, <3>1
      <4>3. CASE s[i].target = Nowhere
        BY <3>1, <4>5, <4>3 DEF Nowhere
      <4>4. CASE s[i].target \in 1 .. L
        <5>1. s[i].target \in D
          BY <1>8, <4>4
        <5>2. s[i].target \in Int
          BY <1>8a, <5>1
        <5> QED BY <3>1, <4>5, <5>1, <5>2
      <4> QED BY <4>3, <4>4, <4>5, <4>6
    <3> QED BY <1>4, <3>1, <3>2 DEF NodeLike
  <2> QED BY <2>1, <2>2
<1>11. HasRoot(N)
  <2>1. \A i \in D : N[i].up \in Int
    BY <1>10 DEF NodeLike
  <2> QED BY <1>7, <1>8, <1>9, <2>1 DEF HasRoot
<1>12. ASSUME NEW i \in D
       PROVE  Rooted(N, i) /\ Cardinality(Above(N, i)) - 1 = depth[i]
  <2>1. depth \in [DOMAIN N -> Nat] /\ depth[0] = 0
    BY <1>3, <1>5, <1>7
  <2>2. \A k \in DOMAIN N \ {0} :
          N[k].up \in DOMAIN N /\ depth[k] = depth[N[k].up] + 1
    BY <1>5, <1>7, <1>8, <1>10
  <2>3. Rooted(N, i) /\ Cardinality(Above(N, i)) = depth[i] + 1
    BY <1>7, <1>11, <2>1, <2>2, DepthsMakeTree
  <2>4. depth[i] \in Nat
    BY <1>7, <2>1
  <2> QED BY <2>3, <2>4
<1>13. ASSUME NEW i \in D PROVE depth[i] <= DepthCap(N[i])
  BY <1>3, <1>5, <1>7, <1>8, <1>9 DEF DepthCap
<1>14. ASSUME NEW i \in D, i # 0 PROVE IsFolder(N[N[i].up])
  <2>1. i \in 1 .. L /\ N[i] = s[i] /\ s[i].up \in D
    BY <1>7, <1>8, <1>10, <1>14
  <2>2. CASE s[i].up = 0
    BY <1>7, <1>8, <1>9, <2>1, <2>2
  <2>3. CASE s[i].up # 0
    <3>1. N[s[i].up] = s[s[i].up] /\ s[s[i].up].kind \in FolderKinds
      BY <1>4, <1>7, <2>1, <2>3
    <3> QED BY <2>1, <3>1 DEF IsFolder
  <2> QED BY <2>2, <2>3
<1>15. ASSUME NEW i \in D, N[i].target \in D
       PROVE  N[N[i].target].kind # "alias"
  <2>1. i # 0
    BY <1>7, <1>8, <1>9, <1>15
  <2>2. CASE N[i].target = 0
    BY <1>7, <1>8, <1>9, <2>2
  <2>3. CASE N[i].target # 0
    BY <1>4, <1>7, <1>8, <1>15, <2>1, <2>3
  <2> QED BY <2>2, <2>3
<1>16. \A i, j \in D \ {0} :
         N[i].up = N[j].up /\ N[i].name = N[j].name => i = j
  BY <1>4, <1>7, <1>8
<1>17. Sound(N)
  <2>1. ASSUME NEW i \in D
        PROVE  /\ NodeLike(N[i]) /\ Rooted(N, i)
               /\ Cardinality(Above(N, i)) - 1 <= DepthCap(N[i])
               /\ i # 0 => IsFolder(N[N[i].up])
               /\ N[i].target \in D => N[N[i].target].kind # "alias"
    BY ONLY <1>10, <1>12, <1>13, <1>14, <1>15
  <2>2. DOMAIN N = D /\ N[0] = RootNode
    BY ONLY <1>7, <1>8
  <2> QED BY ONLY <1>11, <1>16, <2>1, <2>2 DEF Sound
<1>18. rows = RowsOf(N)
  <2>1. ASSUME NEW i \in D PROVE N[i] = RowOf(N[i], D)
    <3>1. CASE N[i].target \in D
      BY <3>1 DEF RowOf
    <3>2. CASE N[i].target = Nowhere
      <4>1. N[i] = [N[i] EXCEPT !.target = Nowhere]
        BY <1>10, <3>2 DEF NodeLike, TreeNode
      <4> QED BY <1>8, <3>2, <4>1 DEF RowOf
    <3> QED BY <1>10, <3>1, <3>2
  <2>2. N = [i \in D |-> N[i]]
    BY <1>1, <1>6, <1>7
  <2> QED BY <1>6, <1>7, <2>1, <2>2 DEF RowsOf
<1>19. Numbered(N, born)
  <2>1. born = L
    BY <1>1 DEF L
  <2>2. ASSUME NEW i \in D PROVE N[i].target <= born
    BY <1>3, <1>10, <2>1 DEF D, Nowhere
  <2> QED BY <1>3, <1>7, <2>1, <2>2 DEF Numbered, D
<1> QED BY <1>6, <1>17, <1>18, <1>19 DEF TreeInv, N

---------------------------------------------------------------------------
(* Edits.                                                                  *)

(* Room in a folder counts from the folder's own depth.                    *)
LEMMA RoomIs ==
  ASSUME TreeInv, NEW i \in Alive
  PROVE  /\ Ancestry(i) = Above(tree.nodes, i)
         /\ Rooted(tree.nodes, i) /\ NodeLike(NodeAt(i))
         /\ IsFiniteSet(Ancestry(i)) /\ Cardinality(Ancestry(i)) \in Nat
<1>1. Sound(tree.nodes) /\ i \in DOMAIN tree.nodes
  BY DEF TreeInv, Alive
<1>2. /\ Ancestry(i) = Above(tree.nodes, i)
      /\ Rooted(tree.nodes, i) /\ NodeLike(NodeAt(i)) /\ HasRoot(tree.nodes)
  BY <1>1, AncestryKnown DEF Sound, NodeAt
<1> QED BY <1>1, <1>2, ChainsFinite

(* What is above a node that stays, and the node itself, is as before.     *)
Kept(k) == /\ Above(tree'.nodes, k) = Above(tree.nodes, k)
           /\ k \in Alive' /\ NodeAt(k)' = NodeAt(k)

LEMMA CreateFolderKeeps ==
  ASSUME TreeInv, NEW s \in TreeUsers, CreateFolder(s)
  PROVE  TreeInv' /\ \A k \in Alive : Kept(k)
<1> DEFINE Clamp(c) == IF c < ClassOfUser(s) THEN c ELSE ClassOfUser(s)
<1>1. PICK into \in ResolveAs(s), name \in Labels, spec \in FolderSpecs :
        /\ IsFolder(NodeAt(into)) /\ CheckRoom(into, 0)
        /\ ~NameTaken(into, name)
        /\ Insert(TreeNode(into, name, spec.kind, Clamp(spec.read),
                           Clamp(spec.write), spec.owner, Nowhere))
  BY DEF CreateFolder
<1> DEFINE n == TreeNode(into, name, spec.kind, Clamp(spec.read),
                         Clamp(spec.write), spec.owner, Nowhere)
<1>2. into \in Alive /\ into \in Int
  BY DEF ResolveAs, TreeInv, Sound, HasRoot, Alive
<1>3. spec.read \in Nat /\ ClassOfUser(s) \in Nat /\ MaxTreeDepth \in Nat
  BY TreeConstants DEF ClassOfUser
<1>4. /\ n.up = into /\ n.name = name /\ n.target = Nowhere
      /\ n.kind = spec.kind /\ NodeLike(n)
  BY <1>2, <1>3 DEF NodeLike, TreeNode, Nowhere
<1>5. Cardinality(Ancestry(into)) <= DepthCap(n)
  BY <1>1, <1>2, <1>3, RoomIs DEF CheckRoom, DepthCap
<1>6. Nowhere \notin Alive
  BY DEF TreeInv, Sound, HasRoot, Alive, Nowhere
<1>7. Insert(n)
  BY <1>1
<1> HIDE DEF n
<1> QED BY <1>1, <1>2, <1>4, <1>5, <1>6, <1>7, InsertKeeps DEF Kept

LEMMA CreateAliasKeeps ==
  ASSUME TreeInv, NEW s \in TreeUsers, CreateAlias(s)
  PROVE  TreeInv' /\ \A k \in Alive : Kept(k)
<1>1. PICK source \in ResolveAs(s) \ {0}, into \in ResolveAs(s) :
        /\ NodeAt(source).kind # "alias"
        /\ IsFolder(NodeAt(into)) /\ CheckRoom(into, 0)
        /\ ~NameTaken(into, NodeAt(source).name)
        /\ Insert(TreeNode(into, NodeAt(source).name, "alias", 0, 2, Nobody,
                           source))
  BY DEF CreateAlias
<1> DEFINE n == TreeNode(into, NodeAt(source).name, "alias", 0, 2, Nobody,
                         source)
<1>2. /\ into \in Alive /\ into \in Int
      /\ source \in Alive /\ source \in Int
  BY DEF ResolveAs, TreeInv, Sound, HasRoot, Alive
<1>3. MaxTreeDepth \in Nat
  BY TreeConstants
<1>4. /\ n.up = into /\ n.name = NodeAt(source).name /\ n.target = source
      /\ n.kind = "alias" /\ NodeLike(n)
  BY <1>2 DEF NodeLike, TreeNode
<1>5. Cardinality(Ancestry(into)) <= DepthCap(n)
  BY <1>1, <1>2, <1>3, <1>4, RoomIs DEF CheckRoom, DepthCap
<1>6. Insert(n)
  BY <1>1
<1> HIDE DEF n
<1> QED BY <1>1, <1>2, <1>4, <1>5, <1>6, InsertKeeps DEF Kept

LEMMA FileEntryKeeps ==
  ASSUME TreeInv, FileEntry
  PROVE  TreeInv'
<1>1. /\ heading.to \in Alive /\ IsFolder(NodeAt(heading.to))
      /\ \E name \in Labels :
           /\ ~NameTaken(heading.to, name)
           /\ Insert(TreeNode(heading.to, name, "file", 0, 2, Nobody,
                              Nowhere))
  BY DEF FileEntry
<1> DEFINE into == heading.to
<1>2. PICK name \in Labels :
        /\ ~NameTaken(into, name)
        /\ Insert(TreeNode(into, name, "file", 0, 2, Nobody, Nowhere))
  BY <1>1
<1> DEFINE n == TreeNode(into, name, "file", 0, 2, Nobody, Nowhere)
<1>3. into \in Alive /\ into \in Int /\ Nowhere \notin Alive
  BY <1>1 DEF TreeInv, Sound, HasRoot, Alive, Nowhere
<1>4. /\ n.up = into /\ n.name = name /\ n.target = Nowhere
      /\ n.kind = "file" /\ NodeLike(n)
  BY <1>3 DEF NodeLike, TreeNode, Nowhere
<1>5. Cardinality(Ancestry(into)) <= DepthCap(n)
  <2>1. Cardinality(Above(tree.nodes, into)) - 1 <= DepthCap(NodeAt(into))
    BY <1>3 DEF TreeInv, Sound, Alive, NodeAt
  <2>2. NodeAt(into).kind # "file"
    BY <1>1 DEF IsFolder, FolderKinds
  <2> QED BY <1>3, <1>4, <2>1, <2>2, RoomIs, TreeConstants DEF DepthCap
<1>6. Insert(n)
  BY <1>2
<1>7. IsFolder(NodeAt(into))
  BY <1>1
<1> HIDE DEF n, into
<1> QED BY <1>2, <1>3, <1>4, <1>5, <1>6, <1>7, InsertKeeps

(* A delete takes all that is below a node.                                *)
LEMMA DeleteKeeps ==
  ASSUME TreeInv, NEW s \in TreeUsers, Delete(s)
  PROVE  /\ TreeInv'
         /\ \E top \in Alive \ {0} :
              /\ NodeAt(top).up \in Alive
              /\ CheckReadChain(NodeAt(top).up, s) /\ MayDeleteAll(top, s)
              /\ \A k \in Alive : top \notin Above(tree.nodes, k) => Kept(k)
<1> DEFINE N == tree.nodes
<1>1. PICK top \in ResolveAs(s) \ {0} :
        /\ NodeAt(top).up \in Alive
        /\ CheckReadChain(NodeAt(top).up, s) /\ MayDeleteAll(top, s)
        /\ rows' = [i \in DOMAIN rows \ Subtree(top) |->
                      IF rows[i].target \in Subtree(top)
                      THEN [rows[i] EXCEPT !.target = Nowhere] ELSE rows[i]]
        /\ tree' = [nodes |-> [i \in Alive \ Subtree(top) |-> NodeAt(i)],
                    kids |-> [i \in Alive \ Subtree(top) |->
                                tree.kids[i] \ {top}]]
        /\ born' = born
  BY DEF Delete
<1> DEFINE E == Alive \ Subtree(top)
           M == tree'.nodes
<1>2. /\ Sound(N) /\ tree.kids = KidsOf(N) /\ rows = RowsOf(N)
      /\ Numbered(N, born) /\ HasRoot(N) /\ Alive = DOMAIN N
  BY DEF TreeInv, Sound, Alive
<1>3. top \in Alive \ {0} /\ top \in DOMAIN N
  BY <1>2 DEF ResolveAs
<1>4. \A i \in Alive : i \in Subtree(top) <=> top \in Above(N, i)
  BY <1>2, AncestryKnown DEF Subtree
<1>5. /\ M = [i \in E |-> N[i]] /\ DOMAIN M = E
      /\ \A i \in E : M[i] = N[i]
      /\ tree'.kids = [i \in E |-> tree.kids[i] \ {top}]
  BY <1>1 DEF NodeAt
<1>6. E \in SUBSET DOMAIN N /\ 0 \in E
  <2>1. 0 \in Alive /\ Above(N, 0) = {0}
    BY <1>2, AboveRoot DEF HasRoot
  <2> QED BY <1>2, <1>3, <1>4, <2>1
<1>7. ASSUME NEW i \in E PROVE Above(N, i) \subseteq E
  <2>1. ASSUME NEW a \in Above(N, i) PROVE a \in E
    <3>1. a \in DOMAIN N /\ Above(N, a) \subseteq Above(N, i)
      BY <1>6, AboveTransitive
    <3> QED BY <1>2, <1>4, <1>6, <3>1
  <2> QED BY <2>1
<1> HIDE DEF M, E
<1>8. Sound(M) /\ \A i \in E : Above(M, i) = Above(N, i)
  BY <1>2, <1>5, <1>6, <1>7, Pruned
<1>9. tree'.kids = KidsOf(M)
  <2>1. ASSUME NEW i \in E
        PROVE  tree.kids[i] \ {top} = {k \in E : M[k].up = i}
    <3>1. tree.kids[i] = {k \in DOMAIN N : N[k].up = i}
      BY <1>2, <1>6 DEF KidsOf
    <3>2. top \notin E
      BY <1>2, <1>3, <1>4, AboveIsLeast DEF E
    <3>3. ASSUME NEW k \in DOMAIN N, N[k].up = i, k # top PROVE k \in E
      <4>1. Above(N, k) = {k} \cup Above(N, i)
        BY <1>6, <3>3, AboveStep
      <4>2. top \notin Above(N, i)
        BY <1>2, <1>4, <1>6 DEF E
      <4> QED BY <1>2, <1>4, <3>3, <4>1, <4>2 DEF E
    <3> QED BY <1>5, <1>6, <3>1, <3>2, <3>3
  <2> QED BY <1>5, <2>1 DEF KidsOf
<1>10. rows' = RowsOf(M)
  <2>1. DOMAIN rows \ Subtree(top) = E
    BY <1>2 DEF RowsOf, E
  <2>2. ASSUME NEW i \in E
        PROVE  RowOf(M[i], E) = IF rows[i].target \in Subtree(top)
                                THEN [rows[i] EXCEPT !.target = Nowhere]
                                ELSE rows[i]
    <3>1. M[i] = N[i] /\ NodeLike(N[i]) /\ rows[i] = RowOf(N[i], DOMAIN N)
      BY <1>2, <1>5, <1>6 DEF RowsOf, Sound
    <3>2. Nowhere \notin DOMAIN N /\ Nowhere \notin Subtree(top)
      BY <1>2 DEF HasRoot, Nowhere, Subtree
    <3>3. CASE N[i].target \in E
      BY <1>6, <3>1, <3>3 DEF RowOf, E
    <3>4. CASE N[i].target \in Subtree(top)
      <4>1. N[i].target \in DOMAIN N /\ N[i].target \notin E
        BY <1>2, <3>4 DEF E, Subtree
      <4> QED BY <3>1, <3>4, <4>1 DEF RowOf
    <3>5. CASE N[i].target \notin DOMAIN N
      <4>1. rows[i] = [N[i] EXCEPT !.target = Nowhere]
              /\ RowOf(N[i], E) = rows[i]
        BY <1>6, <3>1, <3>5 DEF RowOf
      <4>2. rows[i].target = Nowhere
        BY <3>1, <4>1 DEF NodeLike, TreeNode
      <4> QED BY <3>1, <3>2, <4>1, <4>2
    <3> QED BY <1>2, <3>3, <3>4, <3>5 DEF E
  <2> QED BY <1>1, <1>5, <2>1, <2>2 DEF RowsOf
<1>11. Numbered(M, born')
  BY <1>1, <1>2, <1>5, <1>6 DEF Numbered
<1>12. ASSUME NEW k \in Alive, top \notin Above(N, k) PROVE Kept(k)
  <2>1. k \in E
    BY <1>4, <1>12 DEF E
  <2> QED BY <1>5, <1>8, <2>1 DEF Kept, Alive, NodeAt, M
<1>13. TreeInv'
  BY <1>8, <1>9, <1>10, <1>11 DEF TreeInv, M
<1> QED BY <1>1, <1>3, <1>12, <1>13

(* The room a move asks for is enough for all that is below the node.      *)
LEMMA HeightBounds ==
  ASSUME TreeInv, NEW top \in Alive, NEW i \in Subtree(top)
  PROVE  /\ Height(top) \in Int
         /\ Cardinality(Ancestry(i)) - Cardinality(Ancestry(top))
              <= Height(top)
<1> DEFINE f == [k \in Subtree(top) |->
                   Cardinality(Ancestry(k)) - Cardinality(Ancestry(top))]
           h == {Cardinality(Ancestry(k)) - Cardinality(Ancestry(top)) :
                   k \in Subtree(top)}
<1>1. Subtree(top) \in SUBSET Alive /\ IsFiniteSet(Alive)
  BY DEF Subtree, TreeInv, Sound, HasRoot, Alive
<1>2. IsFiniteSet(Subtree(top))
  BY <1>1, FS_Subset
<1>3. h \in SUBSET Int
  BY <1>1, RoomIs
<1>4. f \in Surjection(Subtree(top), h)
  BY DEF Surjection
<1>5. IsFiniteSet(h)
  BY <1>2, <1>4, FS_Surjection
<1>6. Cardinality(Ancestry(i)) - Cardinality(Ancestry(top)) \in h
  OBVIOUS
<1>7. Height(top) = CHOOSE m \in h : \A y \in h : y <= m
  BY DEF Height
<1> HIDE DEF h
<1> QED BY <1>3, <1>5, <1>6, <1>7, GreatestChosen

LEMMA MoveKeeps ==
  ASSUME TreeInv, NEW s \in TreeUsers, MoveNode(s)
  PROVE  /\ TreeInv'
         /\ \E top \in Alive \ {0}, into \in Alive :
              /\ NodeAt(top).up \in Alive
              /\ CheckReadChain(NodeAt(top).up, s)
              /\ Movable(tree.nodes, top, into)
              /\ MovedTo(tree.nodes, tree'.nodes, top, into)
<1> DEFINE N == tree.nodes
           M == tree'.nodes
<1>1. PICK top \in ResolveAs(s) \ {0}, into \in ResolveAs(s) :
        /\ NodeAt(top).up \in Alive
        /\ CheckReadChain(NodeAt(top).up, s)
        /\ IsFolder(NodeAt(into)) /\ ~WouldCycle(top, into)
        /\ into # NodeAt(top).up => ~NameTaken(into, NodeAt(top).name)
        /\ CheckRoom(into, Height(top))
        /\ rows' = [rows EXCEPT ![top].up = into]
        /\ tree' = [nodes |-> [tree.nodes EXCEPT ![top].up = into],
                    kids |-> [i \in Alive |->
                                IF i = into THEN tree.kids[i] \cup {top}
                                ELSE tree.kids[i] \ {top}]]
        /\ born' = born
  BY DEF MoveNode
<1>2. /\ Sound(N) /\ tree.kids = KidsOf(N) /\ rows = RowsOf(N)
      /\ Numbered(N, born) /\ HasRoot(N) /\ Alive = DOMAIN N
  BY DEF TreeInv, Sound, Alive
<1>3. top \in Alive \ {0} /\ into \in Alive
  BY <1>2 DEF ResolveAs
<1>4. Movable(N, top, into)
  <2>1. top \notin Above(N, into)
    BY <1>1, <1>3, RoomIs DEF WouldCycle
  <2>2. ASSUME NEW i \in DOMAIN N, top \in Above(N, i)
        PROVE  Cardinality(Above(N, into)) + Cardinality(Above(N, i))
                 - Cardinality(Above(N, top)) <= MaxTreeDepth
    <3>1. i \in Alive /\ i \in Subtree(top)
      BY <1>2, <2>2, RoomIs DEF Subtree
    <3>2. /\ Height(top) \in Int
          /\ Cardinality(Ancestry(i)) - Cardinality(Ancestry(top))
               <= Height(top)
      BY <1>3, <3>1, HeightBounds
    <3>3. Cardinality(Ancestry(into)) + Height(top) <= MaxTreeDepth
      BY <1>1 DEF CheckRoom
    <3>4. /\ Ancestry(i) = Above(N, i) /\ Cardinality(Ancestry(i)) \in Nat
          /\ Ancestry(into) = Above(N, into)
          /\ Cardinality(Ancestry(into)) \in Nat
          /\ Ancestry(top) = Above(N, top)
          /\ Cardinality(Ancestry(top)) \in Nat
      BY <1>3, <3>1, RoomIs
    <3> QED BY <3>2, <3>3, <3>4, TreeConstants
  <2>3. into # N[top].up => \A k \in DOMAIN N :
                              N[k].up = into => N[k].name # N[top].name
    BY <1>1, <1>2, <1>3 DEF NameTaken, NodeAt, KidsOf
  <2> QED BY <1>1, <1>2, <1>3, <2>1, <2>2, <2>3 DEF Movable, NodeAt
<1>5. MovedTo(N, M, top, into)
  BY <1>1 DEF MovedTo
<1>6. Sound(M)
  BY <1>2, <1>4, <1>5, Moved
<1>7. /\ DOMAIN M = DOMAIN N
      /\ \A i \in DOMAIN N :
           /\ M[i].up = IF i = top THEN into ELSE N[i].up
           /\ M[i].target = N[i].target /\ NodeLike(M[i])
           /\ i # top => M[i] = N[i]
  BY <1>2, <1>4, <1>5, MovedBeside
<1>8. tree'.kids = KidsOf(M)
  <2>1. tree'.kids = [i \in Alive |->
                        IF i = into THEN tree.kids[i] \cup {top}
                        ELSE tree.kids[i] \ {top}]
    BY <1>1
  <2>2. ASSUME NEW i \in Alive
        PROVE  (IF i = into THEN tree.kids[i] \cup {top}
                ELSE tree.kids[i] \ {top}) = {k \in DOMAIN M : M[k].up = i}
    <3>1. tree.kids[i] = {k \in DOMAIN N : N[k].up = i}
      BY <1>2 DEF KidsOf
    <3> HIDE DEF M, N
    <3> QED BY <1>2, <1>3, <1>7, <3>1
  <2> HIDE DEF M, N
  <2> QED BY <1>2, <1>7, <2>1, <2>2 DEF KidsOf
<1>9. rows' = RowsOf(M)
  <2>1. DOMAIN rows = DOMAIN N
    BY <1>2 DEF RowsOf
  <2>2. rows' = [i \in DOMAIN N |->
                   IF i = top THEN [rows[top] EXCEPT !.up = into]
                   ELSE rows[i]]
    BY <1>1, <1>2, <2>1 DEF RowsOf
  <2>3. ASSUME NEW i \in DOMAIN N
        PROVE  RowOf(M[i], DOMAIN N) =
                 IF i = top THEN [rows[top] EXCEPT !.up = into] ELSE rows[i]
    <3>1. rows[i] = RowOf(N[i], DOMAIN N) /\ NodeLike(N[i])
      BY <1>2 DEF RowsOf, Sound
    <3>2. CASE i # top
      BY <1>7, <3>1, <3>2
    <3>3. CASE i = top
      <4>1. M[i] = [N[i] EXCEPT !.up = into]
        BY <1>2, <1>3, <1>5, <3>3 DEF MovedTo
      <4>2. M[i].target = N[i].target
        BY <1>7
      <4>3. CASE N[i].target \in DOMAIN N
        BY <3>1, <3>3, <4>1, <4>2, <4>3 DEF RowOf
      <4>4. CASE N[i].target \notin DOMAIN N
        <5>1. RowOf(M[i], DOMAIN N)
                = [[N[i] EXCEPT !.up = into] EXCEPT !.target = Nowhere]
          BY <4>1, <4>2, <4>4 DEF RowOf
        <5>2. rows[i] = [N[i] EXCEPT !.target = Nowhere]
          BY <3>1, <4>4 DEF RowOf
        <5> HIDE DEF M
        <5> QED BY <3>1, <3>3, <5>1, <5>2 DEF NodeLike, TreeNode
      <4> QED BY <4>3, <4>4
    <3> QED BY <3>2, <3>3
  <2> QED BY <1>7, <2>2, <2>3 DEF RowsOf
<1>10. Numbered(M, born')
  BY <1>1, <1>2, <1>7 DEF Numbered
<1>11. TreeInv'
  BY <1>6, <1>8, <1>9, <1>10 DEF TreeInv
<1> QED BY <1>1, <1>3, <1>4, <1>5, <1>11

(* A restart takes the nodes from the table, where dangling targets are    *)
(* forgotten.                                                              *)
LEMMA RestartKeeps ==
  ASSUME TreeInv, Restart
  PROVE  TreeInv'
<1> DEFINE N == tree.nodes
<1>1. /\ Sound(N) /\ rows = RowsOf(N) /\ Numbered(N, born)
      /\ HasRoot(N)
  BY DEF TreeInv, Sound
<1>2. /\ tree' = Load(rows) /\ rows' = rows /\ born' = born
      /\ tree'.nodes = rows /\ tree'.kids = KidsOf(rows)
  BY DEF Restart, Load, KidsOf
<1>3. DOMAIN rows = DOMAIN N
        /\ \A i \in DOMAIN N : rows[i] = RowOf(N[i], DOMAIN N)
  BY <1>1 DEF RowsOf
<1>4. \A i \in DOMAIN N : \/ rows[i] = N[i]
                          \/ rows[i] = [N[i] EXCEPT !.target = Nowhere]
  BY <1>3 DEF RowOf
<1> HIDE DEF N
<1>5. Sound(rows)
  <2>1. /\ DOMAIN N \in SUBSET DOMAIN N /\ 0 \in DOMAIN N
        /\ \A i \in DOMAIN N : Above(N, i) \subseteq DOMAIN N
    BY <1>1, AboveIsLeast DEF HasRoot
  <2>2. Sound(N) /\ DOMAIN rows = DOMAIN N
    BY <1>1, <1>3
  <2> QED BY ONLY <1>4, <2>1, <2>2, Pruned
<1>6. Nowhere \notin DOMAIN N /\ \A i \in DOMAIN N : NodeLike(N[i])
  BY <1>1 DEF Sound, HasRoot, Nowhere
<1>7. rows = RowsOf(rows)
  <2>1. ASSUME NEW i \in DOMAIN N PROVE rows[i] = RowOf(rows[i], DOMAIN N)
    <3>1. CASE N[i].target \in DOMAIN N
      BY <1>3, <3>1 DEF RowOf
    <3>2. CASE N[i].target \notin DOMAIN N
      <4>1. rows[i] = [N[i] EXCEPT !.target = Nowhere]
        BY <1>3, <3>2 DEF RowOf
      <4>2. rows[i].target = Nowhere
              /\ rows[i] = [rows[i] EXCEPT !.target = Nowhere]
        BY <1>6, <4>1 DEF NodeLike, TreeNode
      <4> QED BY <1>6, <4>2 DEF RowOf
    <3> QED BY <3>1, <3>2
  <2>2. rows = [i \in DOMAIN N |-> rows[i]]
    BY <1>1, <1>3 DEF RowsOf
  <2> QED BY <1>3, <2>1, <2>2 DEF RowsOf
<1>8. Numbered(rows, born)
  <2>1. ASSUME NEW i \in DOMAIN N PROVE rows[i].target <= born
    <3>1. CASE N[i].target \in DOMAIN N
      BY <1>1, <1>3, <3>1 DEF RowOf, Numbered
    <3>2. CASE N[i].target \notin DOMAIN N
      <4>1. rows[i] = [N[i] EXCEPT !.target = Nowhere]
        BY <1>3, <3>2 DEF RowOf
      <4>2. rows[i].target = Nowhere /\ born \in Nat
        BY <1>1, <1>6, <4>1 DEF NodeLike, TreeNode, Numbered
      <4> QED BY <4>2 DEF Nowhere
    <3> QED BY <3>1, <3>2
  <2> QED BY <1>1, <1>3, <2>1 DEF Numbered
<1> QED BY <1>2, <1>5, <1>7, <1>8 DEF TreeInv

LEMMA TreeInvNext == TreeInv /\ [TreeNext]_treeVars => TreeInv'
<1> SUFFICES ASSUME TreeInv, [TreeNext]_treeVars PROVE TreeInv'
  OBVIOUS
<1>1. ASSUME UNCHANGED <<tree, rows, born>> PROVE TreeInv'
  BY <1>1 DEF TreeInv
<1>2. CASE UNCHANGED treeVars
  BY <1>1, <1>2 DEF treeVars
<1>3. ASSUME NEW s \in TreeUsers, CreateFolder(s) PROVE TreeInv'
  BY <1>3, CreateFolderKeeps
<1>4. ASSUME NEW s \in TreeUsers, CreateAlias(s) PROVE TreeInv'
  BY <1>4, CreateAliasKeeps
<1>5. ASSUME NEW s \in TreeUsers, PrepareUpload(s) PROVE TreeInv'
  BY <1>1, <1>5 DEF PrepareUpload
<1>6. ASSUME NEW s \in TreeUsers, Delete(s) PROVE TreeInv'
  BY <1>6, DeleteKeeps
<1>7. ASSUME NEW s \in TreeUsers, MoveNode(s) PROVE TreeInv'
  BY <1>7, MoveKeeps
<1>8. CASE FileEntry
  BY <1>8, FileEntryKeeps
<1>9. CASE UploadRefused
  BY <1>1, <1>9 DEF UploadRefused
<1>10. CASE Restart
  BY <1>10, RestartKeeps
<1>11. CASE GenerateCatalog
  BY <1>1, <1>11 DEF GenerateCatalog
<1> QED BY <1>2, <1>3, <1>4, <1>5, <1>6, <1>7, <1>8, <1>9, <1>10, <1>11
        DEF TreeNext

LEMMA TreeInvAlways == TreeSpec => []TreeInv
<1> QED BY TreeInvInit, TreeInvNext, PTL DEF TreeSpec

(* TreeSound: whatever order folders, aliases and uploads are made, moved, *)
(* deleted and reloaded in, the nodes are a tree of bounded depth with     *)
(* distinct names in a folder, and memory and table say the same of it     *)
(* (files/tree.rs, kdx-storage/src/file_tree.rs).                          *)
THEOREM TreeStaysATree == TreeSpec => []TreeSound
<1> QED BY TreeInvAlways, TreeInvSound, PTL

---------------------------------------------------------------------------
(* The gates.                                                              *)

Shut == \A s \in TreeUsers : OpenForRead(s) \cap Hidden(s) = {}

(* What the checks ask of a folder is what does not keep a user out.       *)
LEMMA ReadIsNotKept ==
  ASSUME NEW f, NEW s \in TreeUsers, f.read \in Int
  PROVE  CheckRead(f, s) <=> ~Keeps(f, s)
<1>1. ClassOfUser(s) \in Nat
  BY TreeConstants DEF ClassOfUser
<1> QED BY <1>1 DEF CheckRead, Keeps, IsDropBox, OwnerOrAdmin

(* A hidden file is kept by a folder above its own.                        *)
LEMMA HiddenBy ==
  ASSUME TreeInv, NEW s \in TreeUsers, NEW i \in Hidden(s)
  PROVE  /\ i \in Alive \ {0} /\ NodeAt(i).kind = "file"
         /\ NodeAt(i).up \in Alive
         /\ \E a \in Above(tree.nodes, i) \ {i} :
              /\ a \in Above(tree.nodes, NodeAt(i).up)
              /\ a \in Alive /\ ~CheckRead(NodeAt(a), s)
<1> DEFINE N == tree.nodes
<1>1. Sound(N) /\ HasRoot(N) /\ Alive = DOMAIN N
  BY DEF TreeInv, Sound, Alive
<1>2. i \in Alive /\ NodeAt(i).kind = "file"
  BY DEF Hidden
<1>3. PICK a \in Ancestry(i) \ {i} : Keeps(NodeAt(a), s)
  BY DEF Hidden
<1>4. i # 0
  BY <1>1, <1>2 DEF Sound, NodeAt, RootNode, TreeNode
<1>5. a \in Above(N, i) /\ a \in Alive /\ a # i
  BY <1>1, <1>2, <1>3, RoomIs, AboveTransitive
<1>6. /\ NodeAt(i).up \in Alive
      /\ Above(N, i) = {i} \cup Above(N, NodeAt(i).up)
  BY <1>1, <1>2, <1>4, RoomIs, RootedStep DEF NodeAt
<1>7. ~CheckRead(NodeAt(a), s)
  BY <1>3, <1>5, RoomIs, ReadIsNotKept DEF NodeLike
<1> QED BY <1>2, <1>4, <1>5, <1>6, <1>7

(* No path opens a hidden file: the file's folder must be readable all the *)
(* way up.                                                                 *)
LEMMA GatesShut == TreeInv => Shut
<1> SUFFICES ASSUME TreeInv, NEW s \in TreeUsers, NEW i \in OpenForRead(s),
                    i \in Hidden(s)
             PROVE  FALSE
  BY DEF Shut
<1>1. /\ i \in Alive /\ NodeAt(i).kind = "file" /\ NodeAt(i).up \in Alive
      /\ \E a \in Above(tree.nodes, NodeAt(i).up) : ~CheckRead(NodeAt(a), s)
  BY HiddenBy
<1>2. CheckReadChain(NodeAt(i).up, s)
  BY <1>1 DEF OpenForRead, CheckNodeReadable, IsFolder, FolderKinds
<1>3. \A a \in Above(tree.nodes, NodeAt(i).up) : CheckRead(NodeAt(a), s)
  BY <1>1, <1>2, RoomIs DEF CheckReadChain
<1> QED BY <1>1, <1>3

(* An entry of the catalogue has at least the class of every folder above. *)
LEMMA ClassInherited ==
  ASSUME TreeInv, NEW i \in Alive, NEW a \in Ancestry(i),
         IsFolder(NodeAt(a))
  PROVE  InheritedClass(i) \in Int /\ NodeAt(a).read <= InheritedClass(i)
<1> DEFINE F == {x \in Ancestry(i) : IsFolder(NodeAt(x))}
           c == {NodeAt(x).read : x \in F}
           f == [x \in F |-> NodeAt(x).read]
<1>1. Ancestry(i) \subseteq Alive /\ IsFiniteSet(Ancestry(i))
  <2>1. Ancestry(i) = Above(tree.nodes, i) /\ IsFiniteSet(Ancestry(i))
    BY RoomIs
  <2> QED BY <2>1, AboveIsLeast DEF Alive
<1>2. F \in SUBSET Ancestry(i)
  OBVIOUS
<1>3. IsFiniteSet(F)
  BY <1>1, <1>2, FS_Subset
<1>4. c \in SUBSET Int
  BY <1>1, RoomIs DEF NodeLike
<1>5. f \in Surjection(F, c)
  BY DEF Surjection
<1>6. IsFiniteSet(c)
  BY <1>3, <1>5, FS_Surjection
<1>7. NodeAt(a).read \in c
  OBVIOUS
<1>8. InheritedClass(i) = CHOOSE m \in c : \A y \in c : y <= m
  BY DEF InheritedClass
<1> HIDE DEF c
<1>9. InheritedClass(i) \in c /\ NodeAt(a).read <= InheritedClass(i)
  BY <1>4, <1>6, <1>7, <1>8, GreatestChosen
<1> QED BY <1>4, <1>9

(* Nor does a catalogue show one: it is not made in drop boxes.            *)
LEMMA CatalogShut ==
  ASSUME TreeInv, GenerateCatalog, NEW s \in TreeUsers
  PROVE  (Search(s) \cap Hidden(s) = {})'
<1>1. Hidden(s)' = Hidden(s)
  BY DEF GenerateCatalog, Hidden, Ancestry, Alive, NodeAt
<1>2. ASSUME NEW i \in Search(s)', i \in Hidden(s) PROVE FALSE
  <2>1. i \in Alive /\ Indexed(i) /\ ClassOfUser(s) >= InheritedClass(i)
    BY <1>2 DEF GenerateCatalog, Search, ClassOfUser
  <2>2. PICK a \in Above(tree.nodes, i) \ {i} :
          a \in Alive /\ ~CheckRead(NodeAt(a), s)
    BY <1>2, HiddenBy
  <2>3. a \in Ancestry(i) \ {i} /\ NodeLike(NodeAt(a))
    BY <2>1, <2>2, RoomIs
  <2>4. IsFolder(NodeAt(a))
    BY <2>1, <2>2, ChainOfFolders DEF TreeInv, NodeAt, Alive
  <2>5. ~IsDropBox(NodeAt(a))
    BY <2>1, <2>3 DEF Indexed
  <2>6. ~(ClassOfUser(s) >= NodeAt(a).read)
    BY <2>2, <2>5 DEF CheckRead
  <2>7. /\ InheritedClass(i) \in Int
        /\ NodeAt(a).read <= InheritedClass(i)
    BY <2>1, <2>3, <2>4, ClassInherited
  <2>8. ClassOfUser(s) \in Nat /\ NodeAt(a).read \in Int
    BY <2>3, TreeConstants DEF ClassOfUser, NodeLike
  <2> QED BY <2>1, <2>6, <2>7, <2>8
<1>3. (Search(s) \cap Hidden(s))' = Search(s)' \cap Hidden(s)'
  OBVIOUS
<1> QED BY <1>1, <1>2

(* A node that stays, with all above it as before, stays hidden.           *)
LEMMA KeptStaysHidden ==
  ASSUME TreeInv, TreeInv', NEW s \in TreeUsers, NEW i \in Hidden(s),
         \A k \in Above(tree.nodes, i) : Kept(k)
  PROVE  i \in Hidden(s)'
<1>1. i \in Alive /\ NodeAt(i).kind = "file"
  BY DEF Hidden
<1>2. PICK a \in Ancestry(i) \ {i} : Keeps(NodeAt(a), s)
  BY DEF Hidden
<1>3. i \in Above(tree.nodes, i) /\ a \in Above(tree.nodes, i)
  BY <1>1, <1>2, RoomIs, AboveIsLeast DEF Alive
<1>4. /\ i \in Alive' /\ NodeAt(i)' = NodeAt(i) /\ NodeAt(a)' = NodeAt(a)
      /\ Above(tree'.nodes, i) = Above(tree.nodes, i)
  BY <1>3 DEF Kept
<1>5. Ancestry(i)' = Above(tree'.nodes, i)
  BY <1>4, AncestryKnownNext DEF TreeInv, Alive
<1>6. Keeps(NodeAt(a), s)'
  BY <1>2, <1>4 DEF Keeps, IsDropBox, ItemOfNode, ClassOfUser
<1> QED BY <1>1, <1>2, <1>3, <1>4, <1>5, <1>6 DEF Hidden

(* Who deletes can empty every folder in it, so none of them keeps him     *)
(* out; and none above does.                                               *)
LEMMA DeleteTakesNoHidden ==
  ASSUME TreeInv, TreeInv', NEW s \in TreeUsers, Delete(s)
  PROVE  Hidden(s) \subseteq Hidden(s)'
<1> DEFINE N == tree.nodes
<1>1. PICK top \in Alive \ {0} :
        /\ NodeAt(top).up \in Alive
        /\ CheckReadChain(NodeAt(top).up, s) /\ MayDeleteAll(top, s)
        /\ \A k \in Alive : top \notin Above(N, k) => Kept(k)
  BY DeleteKeeps
<1>2. Sound(N) /\ HasRoot(N) /\ Alive = DOMAIN N /\ tree.kids = KidsOf(N)
  BY DEF TreeInv, Sound, Alive
<1>3. ASSUME NEW i \in Hidden(s), top \in Above(N, i) PROVE FALSE
  <2>1. i \in Alive /\ NodeAt(i).kind = "file"
    BY HiddenBy
  <2>2. PICK a \in Above(N, i) \ {i} :
          a \in Alive /\ ~CheckRead(NodeAt(a), s)
    BY <1>3, HiddenBy
  <2>3. CASE top \in Above(N, a)
    <3>1. a \in Subtree(top)
      BY <2>2, <2>3, RoomIs DEF Subtree
    <3>2. IsFolder(NodeAt(a)) /\ tree.kids[a] # {}
      BY <1>2, <2>1, <2>2, ChainOfFolders DEF NodeAt, KidsOf
    <3> QED BY <1>1, <2>2, <3>1, <3>2 DEF MayDeleteAll
  <2>4. CASE a \in Above(N, top) /\ a # top
    <3>1. a \in Above(N, NodeAt(top).up)
      BY <1>1, <1>2, <2>4, AboveStep DEF NodeAt
    <3>2. a \in Ancestry(NodeAt(top).up)
      BY <1>1, <3>1, RoomIs
    <3> QED BY <1>1, <2>2, <3>2 DEF CheckReadChain
  <2>5. top \in Above(N, a) \/ a \in Above(N, top)
    BY <1>2, <1>3, <2>1, <2>2, ChainLinear
  <2>6. top \in Above(N, top)
    BY <1>1, <1>2, AboveIsLeast
  <2> QED BY <2>3, <2>4, <2>5, <2>6
<1>4. ASSUME NEW i \in Hidden(s) PROVE i \in Hidden(s)'
  <2>1. i \in Alive /\ top \notin Above(N, i)
    BY <1>3, <1>4 DEF Hidden
  <2>2. \A k \in Above(N, i) : k \in Alive /\ top \notin Above(N, k)
    BY <1>2, <2>1, AboveTransitive
  <2> QED BY <1>1, <1>4, <2>2, KeptStaysHidden
<1> QED BY <1>4

(* Who moves a node can read all above it, so what keeps him out of a file *)
(* below it moves along.                                                   *)
LEMMA MoveTakesNoHidden ==
  ASSUME TreeInv, TreeInv', NEW s \in TreeUsers, MoveNode(s)
  PROVE  Hidden(s) \subseteq Hidden(s)'
<1> DEFINE N == tree.nodes
           M == tree'.nodes
<1>1. PICK top \in Alive \ {0}, into \in Alive :
        /\ NodeAt(top).up \in Alive
        /\ CheckReadChain(NodeAt(top).up, s)
        /\ Movable(N, top, into) /\ MovedTo(N, M, top, into)
  BY MoveKeeps
<1>2. Sound(N) /\ HasRoot(N) /\ Alive = DOMAIN N /\ Alive' = DOMAIN M
  BY DEF TreeInv, Sound, Alive
<1>3. /\ DOMAIN M = DOMAIN N
      /\ \A i \in DOMAIN N :
           /\ M[i].kind = N[i].kind /\ M[i].name = N[i].name
           /\ M[i].read = N[i].read /\ M[i].owner = N[i].owner
           /\ top \notin Above(N, i) => Above(M, i) = Above(N, i)
  BY <1>1, <1>2, MovedBeside
<1>4. ASSUME NEW i \in Hidden(s) PROVE i \in Hidden(s)'
  <2>1. i \in DOMAIN N /\ N[i].kind = "file"
    BY <1>2, HiddenBy DEF NodeAt
  <2>2. PICK a \in Above(N, i) \ {i} :
          a \in DOMAIN N /\ ~CheckRead(NodeAt(a), s) /\ Keeps(NodeAt(a), s)
    <3>1. PICK b \in Ancestry(i) \ {i} : Keeps(NodeAt(b), s)
      BY DEF Hidden
    <3>2. b \in Above(N, i) \ {i}
      BY <1>2, <2>1, <3>1, RoomIs
    <3>3. b \in DOMAIN N
      BY <2>1, <3>2, AboveTransitive
    <3>4. ~CheckRead(NodeAt(b), s)
      BY <1>2, <3>1, <3>3, RoomIs, ReadIsNotKept DEF NodeLike
    <3> QED BY <3>1, <3>2, <3>3, <3>4
  <2>3. a \in Above(M, i)
    <3>1. CASE top \notin Above(N, i)
      BY <1>3, <2>1, <2>2, <3>1
    <3>2. CASE top \in Above(N, i)
      <4>1. a \notin Above(N, top) \/ a = top
        <5>1. ASSUME a \in Above(N, top), a # top PROVE FALSE
          <6>1. a \in Above(N, NodeAt(top).up)
            BY <1>1, <1>2, <5>1, AboveStep DEF NodeAt
          <6>2. a \in Ancestry(NodeAt(top).up)
            BY <1>1, <6>1, RoomIs
          <6> QED BY <1>1, <2>2, <6>2 DEF CheckReadChain
        <5> QED BY <5>1
      <4>2. top \in Above(N, a)
        <5>1. top \in Above(N, top)
          BY <1>1, <1>2, AboveIsLeast
        <5> QED BY <2>1, <2>2, <3>2, <4>1, <5>1, ChainLinear
      <4>3. a \in Within(N, top, i)
        BY <2>2, <4>2 DEF Within
      <4> QED BY <1>1, <1>2, <2>1, <3>2, <4>3, MovedAlong
    <3> QED BY <3>1, <3>2
  <2>4. Ancestry(i)' = Above(M, i) /\ i \in Alive'
    BY <1>2, <1>3, <2>1, AncestryKnownNext DEF TreeInv
  <2>5. Keeps(NodeAt(a), s)'
    <3>1. /\ NodeAt(a)'.kind = NodeAt(a).kind
          /\ NodeAt(a)'.name = NodeAt(a).name
          /\ NodeAt(a)'.read = NodeAt(a).read
          /\ NodeAt(a)'.owner = NodeAt(a).owner
      BY <1>3, <2>2 DEF NodeAt
    <3> QED BY <2>2, <3>1 DEF Keeps, IsDropBox, ItemOfNode, ClassOfUser
  <2>6. NodeAt(i)'.kind = "file"
    BY <1>3, <2>1 DEF NodeAt
  <2> QED BY <2>2, <2>3, <2>4, <2>5, <2>6 DEF Hidden
<1> QED BY <1>4

GateStep ==
  /\ tree' # tree => \A s \in TreeUsers :
       (OpenForRead(s) \cap Hidden(s) = {})'
  /\ catalog' # catalog => \A s \in TreeUsers :
       (Search(s) \cap Hidden(s) = {})'
  /\ \A s \in TreeUsers : hand' = s => Hidden(s) \subseteq Hidden(s)'

LEMMA GatesKept ==
  TreeInv /\ TreeInv' /\ Shut' /\ [TreeNext]_treeVars => [GateStep]_treeVars
<1> SUFFICES ASSUME TreeInv, TreeInv', Shut', TreeNext PROVE GateStep
  OBVIOUS
<1>1. \A s \in TreeUsers : (OpenForRead(s) \cap Hidden(s) = {})'
  BY DEF Shut
<1>2. ASSUME catalog' # catalog, NEW s \in TreeUsers
      PROVE  (Search(s) \cap Hidden(s) = {})'
  <2>1. GenerateCatalog \/ Restart
    <3>1. \A t : CreateFolder(t) => catalog' = catalog
      BY DEF CreateFolder
    <3>2. \A t : CreateAlias(t) => catalog' = catalog
      BY DEF CreateAlias
    <3>3. \A t : PrepareUpload(t) => catalog' = catalog
      BY DEF PrepareUpload
    <3>4. \A t : Delete(t) => catalog' = catalog
      BY DEF Delete
    <3>5. \A t : MoveNode(t) => catalog' = catalog
      BY DEF MoveNode
    <3>6. FileEntry \/ UploadRefused => catalog' = catalog
      BY DEF FileEntry, UploadRefused
    <3> QED BY <1>2, <3>1, <3>2, <3>3, <3>4, <3>5, <3>6 DEF TreeNext
  <2>2. CASE Restart
    BY <2>2 DEF Restart, Search
  <2> QED BY <2>1, <2>2, CatalogShut
<1>3. ASSUME NEW s \in TreeUsers, hand' = s
      PROVE  Hidden(s) \subseteq Hidden(s)'
  <2>1. s # Nobody
    BY TreeConstants
  <2>2. CreateFolder(s) \/ CreateAlias(s) \/ Delete(s) \/ MoveNode(s)
    <3>1. \A t : CreateFolder(t) => hand' = t
      BY DEF CreateFolder, Edit
    <3>2. \A t : CreateAlias(t) => hand' = t
      BY DEF CreateAlias, Edit
    <3>3. \A t : PrepareUpload(t) => hand' = Nobody
      BY DEF PrepareUpload
    <3>4. \A t : Delete(t) => hand' = t
      BY DEF Delete, Edit
    <3>5. \A t : MoveNode(t) => hand' = t
      BY DEF MoveNode, Edit
    <3>6. FileEntry \/ UploadRefused => hand' = Nobody
      BY DEF FileEntry, Edit, UploadRefused
    <3>7. Restart \/ GenerateCatalog => hand' = Nobody
      BY DEF Restart, GenerateCatalog
    <3> QED BY <1>3, <2>1, <3>1, <3>2, <3>3, <3>4, <3>5, <3>6, <3>7
            DEF TreeNext
  <2>3. ASSUME \A k \in Alive : Kept(k) PROVE Hidden(s) \subseteq Hidden(s)'
    <3>1. \A i \in Hidden(s) : \A k \in Above(tree.nodes, i) : k \in Alive
      BY AboveTransitive DEF Hidden, Alive
    <3> QED BY <2>3, <3>1, KeptStaysHidden
  <2>4. CASE CreateFolder(s)
    BY <2>3, <2>4, CreateFolderKeeps
  <2>5. CASE CreateAlias(s)
    BY <2>3, <2>5, CreateAliasKeeps
  <2> QED BY <2>2, <2>4, <2>5, DeleteTakesNoHidden, MoveTakesNoHidden
<1> QED BY <1>1, <1>2, <1>3 DEF GateStep

(* GatesHold: neither a path nor a fresh catalogue shows a user a file     *)
(* that a class gate or a drop box above it keeps from him, and no edit of *)
(* his deletes such a file or takes it out from under the gate             *)
(* (files/tree.rs, files/acl.rs).                                          *)
THEOREM GatesStayShut == TreeSpec => GatesHold
<1>1. TreeSpec => [][GateStep]_treeVars
  BY TreeInvAlways, GatesShut, GatesKept, PTL DEF TreeSpec
<1> QED BY <1>1 DEF GatesHold, GateStep
=============================================================================
