--------------------------- MODULE ServiceProofs ---------------------------
(***************************************************************************)
(* Theorems about the services of the server that keep a state of their    *)
(* own.                                                                    *)
(***************************************************************************)
EXTENDS AccountPolicy, Pacing, News, FiniteSetTheorems, NaturalsInduction,
        WellFoundedInduction, TLAPS

---------------------------------------------------------------------------
(* Sums over finite sets.                                                  *)

(* A nonempty set of naturals has a least member: the form in which the    *)
(* well-founded order of the naturals serves proofs by induction.          *)
LEMMA LeastNumber ==
  ASSUME NEW T \in SUBSET Nat, T # {}
  PROVE  \E m \in T : \A n \in T : m <= n
<1> DEFINE R == {s \in Nat \X Nat : s[1] < s[2]}
<1>1. IsWellFoundedOn(R, Nat)
  BY NatLessThanWellFounded DEF OpToRel
<1>2. PICK m \in T : \A y \in T : ~(<<y, m>> \in R)
  <2> HIDE DEF R
  <2> QED BY <1>1, WFMin
<1>3. \A y \in T : m \in Nat /\ y \in Nat /\ <<y, m>> \in Nat \X Nat
  OBVIOUS
<1>4. \A y \in T : ~(y < m)
  BY <1>2, <1>3
<1> QED BY <1>3, <1>4

(* The member a fold over a set takes first.                               *)
Chosen(s) == CHOOSE x \in s : TRUE

(* What is summed, unit by unit.                                           *)
UnitsOf(f, S) == UNION {{x} \X (1 .. f[x]) : x \in S}
Countable(f, S) == IsFiniteSet(S) /\ \A x \in S : f[x] \in Nat

LEMMA UnitsFinite ==
  ASSUME NEW f, NEW S, Countable(f, S)
  PROVE  /\ IsFiniteSet(UnitsOf(f, S))
         /\ \A x \in S : Cardinality(UnitsOf(f, S)) =
                           f[x] + Cardinality(UnitsOf(f, S \ {x}))
<1> DEFINE Of(x) == {x} \X (1 .. f[x])
<1>1. ASSUME NEW x \in S
      PROVE  IsFiniteSet(Of(x)) /\ Cardinality(Of(x)) = f[x]
  <2>1. /\ IsFiniteSet({x}) /\ Cardinality({x}) = 1
    BY FS_Singleton
  <2>2. ASSUME NEW n \in Nat
        PROVE  IsFiniteSet(1 .. n) /\ Cardinality(1 .. n) = n
    BY FS_Interval
  <2>3. ASSUME NEW n \in Nat
        PROVE  IsFiniteSet({x} \X (1 .. n)) /\ Cardinality({x} \X (1 .. n)) = n
    <3>1. /\ IsFiniteSet({x} \X (1 .. n))
          /\ Cardinality({x} \X (1 .. n))
               = Cardinality({x}) * Cardinality(1 .. n)
      BY <2>1, <2>2, FS_Product
    <3> QED BY <2>1, <2>2, <3>1
  <2> QED BY <2>3 DEF Countable
<1>2. ASSUME NEW s \in SUBSET S PROVE IsFiniteSet(UnitsOf(f, s))
  <2> DEFINE g == [x \in s |-> Of(x)]
             T == {Of(x) : x \in s}
  <2>1. g \in Surjection(s, T)
    BY DEF Surjection
  <2>2. IsFiniteSet(s)
    BY FS_Subset DEF Countable
  <2>3. IsFiniteSet(T)
    <3> HIDE DEF T, g
    <3> QED BY <2>1, <2>2, FS_Surjection
  <2>4. \A t \in T : IsFiniteSet(t)
    BY <1>1
  <2>5. IsFiniteSet(UNION T)
    <3> HIDE DEF T
    <3> QED BY <2>3, <2>4, FS_UNION
  <2> QED BY <2>5 DEF UnitsOf
<1>3. ASSUME NEW x \in S
      PROVE  Cardinality(UnitsOf(f, S)) =
               f[x] + Cardinality(UnitsOf(f, S \ {x}))
  <2> DEFINE U == UnitsOf(f, S \ {x})
  <2>1. UnitsOf(f, S) = Of(x) \cup U
    BY DEF UnitsOf
  <2>2. Of(x) \cap U = {}
    BY DEF UnitsOf
  <2>3. IsFiniteSet(U) /\ Cardinality(U) \in Nat
    BY <1>2, FS_CardinalityType
  <2>4. IsFiniteSet(Of(x)) /\ Cardinality(Of(x)) = f[x]
    BY <1>1
  <2> HIDE DEF U, Of
  <2>5. Cardinality(Of(x) \cup U)
          = Cardinality(Of(x)) + Cardinality(U) - Cardinality(Of(x) \cap U)
    BY <2>3, <2>4, FS_Union
  <2>6. Cardinality(Of(x) \cap U) = 0
    BY <2>2, FS_EmptySet
  <2>7. f[x] \in Nat
    BY DEF Countable
  <2>8. Cardinality(UnitsOf(f, S)) = f[x] + Cardinality(U)
    BY <2>1, <2>3, <2>4, <2>5, <2>6, <2>7
  <2> QED BY <2>8 DEF U
<1> QED BY <1>2, <1>3

(* The sum is a function that satisfies the fold's recursion, if there is  *)
(* one at all.                                                             *)
LEMMA SumUnfolds ==
  ASSUME NEW f, NEW S, NEW g,
         g = [s \in SUBSET S |-> IF s = {} THEN 0
                                 ELSE f[Chosen(s)] + g[s \ {Chosen(s)}]]
  PROVE  \E h : /\ h = [s \in SUBSET S |->
                          IF s = {} THEN 0
                          ELSE f[Chosen(s)] + h[s \ {Chosen(s)}]]
                /\ SumFunctionOnSet(f, S) = h[S]
<1> DEFINE P(k) == k = [s \in SUBSET S |->
                          IF s = {} THEN 0
                          ELSE f[Chosen(s)] + k[s \ {Chosen(s)}]]
           h == CHOOSE k : P(k)
<1>1. P(h)
  OBVIOUS
<1>2. SumFunctionOnSet(f, S) = h[S]
  BY DEF SumFunctionOnSet, FoldFunctionOnSet, MapThenFoldSet, Chosen
<1> QED BY <1>1, <1>2

(* By induction over the size of the sets it is iterated on: the sum is    *)
(* the number of units.                                                    *)
LEMMA SumCounts ==
  ASSUME NEW f, NEW S, Countable(f, S)
  PROVE  SumFunctionOnSet(f, S) = Cardinality(UnitsOf(f, S))
<1> DEFINE g == [s \in SUBSET S |-> Cardinality(UnitsOf(f, s))]
<1>0. \A s \in SUBSET S : IsFiniteSet(s) /\ Countable(f, s)
  BY FS_Subset DEF Countable
<1>1. ASSUME NEW s \in SUBSET S, s # {}
      PROVE  /\ Chosen(s) \in s
             /\ Cardinality(UnitsOf(f, s)) =
                  f[Chosen(s)] + Cardinality(UnitsOf(f, s \ {Chosen(s)}))
  <2>1. Chosen(s) \in s
    BY <1>1 DEF Chosen
  <2> QED BY <1>0, <2>1, UnitsFinite
<1>2. Cardinality(UnitsOf(f, {})) = 0
  BY FS_EmptySet DEF UnitsOf
<1>3. g = [s \in SUBSET S |-> IF s = {} THEN 0
                              ELSE f[Chosen(s)] + g[s \ {Chosen(s)}]]
  <2>1. ASSUME NEW s \in SUBSET S
        PROVE  g[s] = IF s = {} THEN 0
                      ELSE f[Chosen(s)] + g[s \ {Chosen(s)}]
    <3>1. CASE s = {}
      BY <3>1, <1>2
    <3>2. CASE s # {}
      BY <3>2, <1>1
    <3> QED BY <3>1, <3>2
  <2> QED BY <2>1
<1> HIDE DEF g
<1>4. PICK h : /\ h = [s \in SUBSET S |->
                         IF s = {} THEN 0
                         ELSE f[Chosen(s)] + h[s \ {Chosen(s)}]]
               /\ SumFunctionOnSet(f, S) = h[S]
  BY <1>3, SumUnfolds
<1> DEFINE Bad == {s \in SUBSET S : h[s] # g[s]}
           T == {Cardinality(s) : s \in Bad}
<1>5. Bad = {}
  <2> SUFFICES ASSUME Bad # {} PROVE FALSE
    OBVIOUS
  <2>1. T \in SUBSET Nat /\ T # {}
    BY <1>0, FS_CardinalityType
  <2>2. PICK m \in T : \A n \in T : m <= n
    BY <2>1, LeastNumber
  <2>3. PICK s \in Bad : m = Cardinality(s)
    OBVIOUS
  <2>4. s # {}
    BY <2>3, <1>3, <1>4
  <2>5. Chosen(s) \in s /\ s \ {Chosen(s)} \in SUBSET S
    BY <2>4, <1>1
  <2>6. Cardinality(s \ {Chosen(s)}) = Cardinality(s) - 1
        /\ Cardinality(s) \in Nat
    BY <1>0, <2>5, FS_RemoveElement, FS_CardinalityType
  <2>7. s \ {Chosen(s)} \notin Bad
    <3> SUFFICES ASSUME s \ {Chosen(s)} \in Bad PROVE FALSE
      OBVIOUS
    <3>1. Cardinality(s \ {Chosen(s)}) \in T
      OBVIOUS
    <3>2. m <= Cardinality(s \ {Chosen(s)})
      BY <2>2, <3>1
    <3> HIDE DEF Bad, T
    <3> QED BY <2>3, <2>6, <3>2
  <2> QED BY <2>3, <2>4, <2>5, <2>7, <1>3, <1>4
<1>6. g[S] = Cardinality(UnitsOf(f, S))
  BY DEF g
<1> QED BY <1>4, <1>5, <1>6

LEMMA SumIsNat ==
  ASSUME NEW f, NEW S, Countable(f, S)
  PROVE  SumFunctionOnSet(f, S) \in Nat
  BY SumCounts, UnitsFinite, FS_CardinalityType

LEMMA SumOfNone ==
  ASSUME NEW f, NEW S, Countable(f, S), \A x \in S : f[x] = 0
  PROVE  SumFunctionOnSet(f, S) = 0
<1>1. UnitsOf(f, S) = {}
  BY DEF Countable, UnitsOf
<1> QED BY <1>1, SumCounts, FS_EmptySet

LEMMA SumAgrees ==
  ASSUME NEW f, NEW g, NEW S, Countable(f, S), \A x \in S : f[x] = g[x]
  PROVE  SumFunctionOnSet(f, S) = SumFunctionOnSet(g, S)
<1>1. Countable(g, S) /\ UnitsOf(f, S) = UnitsOf(g, S)
  BY DEF Countable, UnitsOf
<1> QED BY <1>1, SumCounts

LEMMA SumTakesOut ==
  ASSUME NEW f, NEW S, Countable(f, S), NEW x \in S
  PROVE  SumFunctionOnSet(f, S) = f[x] + SumFunctionOnSet(f, S \ {x})
<1>1. Countable(f, S \ {x})
  BY FS_Subset DEF Countable
<1> QED BY <1>1, SumCounts, UnitsFinite

LEMMA SumSplits ==
  ASSUME NEW f, NEW S, NEW T, Countable(f, S), Countable(f, T), S \cap T = {}
  PROVE  SumFunctionOnSet(f, S \cup T)
           = SumFunctionOnSet(f, S) + SumFunctionOnSet(f, T)
<1>1. Countable(f, S \cup T)
  BY FS_Union DEF Countable
<1>2. /\ UnitsOf(f, S \cup T) = UnitsOf(f, S) \cup UnitsOf(f, T)
      /\ UnitsOf(f, S) \cap UnitsOf(f, T) = {}
  BY DEF UnitsOf
<1>3. /\ IsFiniteSet(UnitsOf(f, S)) /\ IsFiniteSet(UnitsOf(f, T))
      /\ Cardinality(UnitsOf(f, S)) \in Nat
      /\ Cardinality(UnitsOf(f, T)) \in Nat
  BY UnitsFinite, FS_CardinalityType
<1>4. Cardinality(UnitsOf(f, S \cup T))
        = Cardinality(UnitsOf(f, S)) + Cardinality(UnitsOf(f, T))
  <2> DEFINE A == UnitsOf(f, S)
             B == UnitsOf(f, T)
  <2>1. IsFiniteSet(A) /\ IsFiniteSet(B) /\ Cardinality(A \cap B) = 0
    BY <1>2, <1>3, FS_EmptySet
  <2>2. Cardinality(A) \in Nat /\ Cardinality(B) \in Nat
    BY <1>3
  <2>3. UnitsOf(f, S \cup T) = A \cup B
    BY <1>2
  <2> HIDE DEF A, B
  <2>4. Cardinality(A \cup B)
          = Cardinality(A) + Cardinality(B) - Cardinality(A \cap B)
    BY <2>1, FS_Union
  <2>5. Cardinality(A \cup B) = Cardinality(A) + Cardinality(B)
    BY <2>1, <2>2, <2>4
  <2> QED BY <2>3, <2>5 DEF A, B
<1> QED BY <1>1, <1>4, SumCounts

LEMMA SumGrows ==
  ASSUME NEW f, NEW S, NEW T, Countable(f, T), S \subseteq T
  PROVE  SumFunctionOnSet(f, S) <= SumFunctionOnSet(f, T)
<1>1. Countable(f, S) /\ Countable(f, T \ S)
  BY FS_Subset DEF Countable
<1>2. S \cup (T \ S) = T
  OBVIOUS
<1>3. SumFunctionOnSet(f, T)
        = SumFunctionOnSet(f, S) + SumFunctionOnSet(f, T \ S)
  BY <1>1, <1>2, SumSplits
<1>4. SumFunctionOnSet(f, S) \in Nat /\ SumFunctionOnSet(f, T \ S) \in Nat
  BY <1>1, SumIsNat
<1> QED BY <1>3, <1>4


---------------------------------------------------------------------------
(* Pacing.                                                                 *)

Charges == [size : Nat, at : Nat]

(* The bytes charged to the transfers in S, and the transfers whose chunk  *)
(* may go by h, after l, and in between.                                   *)
Load(g, S) == SumFunctionOnSet([c \in Carriers |-> g[c].size], S)
Upto(g, h) == {c \in Carriers : g[c].at <= h}
Beyond(g, l) == {c \in Carriers : l < g[c].at}
Between(g, l, h) == {c \in Carriers : l < g[c].at /\ g[c].at <= h}

PacingTyped ==
  /\ tick \in Nat /\ tat \in Nat /\ mark \in Nat /\ passed \in Nat
  /\ sent \in Nat /\ heldBack \in Nat /\ mark <= tick
  /\ gate \in [tokens : Nat, last : Nat] /\ gate.last <= tick
  /\ charged \in [Carriers -> Charges]

(* What passed and what could pass now.                                    *)
GateInv ==
  passed * TokenParts + Refilled(gate) <=
    GateBurst * TokenParts + GateRefill * (tick - mark)

(* The chunks charged for lie one after the other on the virtual clock,    *)
(* each no later than a burst after it may go: so no span of time has more *)
(* of them than its length and a burst, and what went out since the mark   *)
(* and what may still go by any moment is bounded in the same way.         *)
BucketInv ==
  /\ \A l \in Nat : Load(charged, Beyond(charged, l)) <= Higher(tat - l, 0)
  /\ \A l, h \in Nat : l <= h =>
       Load(charged, Between(charged, l, h)) <= (h - l) + ByteBurst
  /\ \A h \in Nat : tick <= h =>
       sent + Load(charged, Upto(charged, h))
         <= (h - mark) + ByteBurst + heldBack
  /\ sent + Load(charged, Carriers) <= (Higher(tat, mark) - mark) + heldBack

PacingInv == PacingTyped /\ GateInv /\ BucketInv

LEMMA LoadIsNat ==
  ASSUME NEW g \in [Carriers -> Charges], NEW S \in SUBSET Carriers
  PROVE  /\ Countable([c \in Carriers |-> g[c].size], S)
         /\ Load(g, S) \in Nat
<1>1. Countable([c \in Carriers |-> g[c].size], S)
  BY PacingAssumption, FS_Subset DEF Countable, Charges
<1> QED BY <1>1, SumIsNat DEF Load

(* One transfer is charged for another chunk, or for none: what the others *)
(* are charged for stays.                                                  *)
LEMMA Recharged ==
  ASSUME NEW g \in [Carriers -> Charges], NEW k \in [Carriers -> Charges],
         NEW c \in Carriers, \A d \in Carriers \ {c} : k[d] = g[d],
         NEW S \in SUBSET Carriers, NEW T \in SUBSET Carriers,
         S \ {c} = T \ {c}
  PROVE  Load(k, T) + (IF c \in S THEN g[c].size ELSE 0)
           = Load(g, S) + (IF c \in T THEN k[c].size ELSE 0)
<1> DEFINE R == S \ {c}
           f == [d \in Carriers |-> g[d].size]
           e == [d \in Carriers |-> k[d].size]
<1>1. /\ f[c] = g[c].size /\ e[c] = k[c].size
      /\ g[c].size \in Nat /\ k[c].size \in Nat
  BY DEF Charges
<1>2. /\ Countable(f, R) /\ Countable(f, S) /\ Countable(e, R)
      /\ Countable(e, T) /\ Load(g, R) \in Nat
  BY <1>1, LoadIsNat
<1>3. SumFunctionOnSet(f, R) = SumFunctionOnSet(e, R)
  <2>1. \A x \in R : f[x] = e[x]
    OBVIOUS
  <2> HIDE DEF f, e, R
  <2> QED BY <1>2, <2>1, SumAgrees
<1>4. Load(g, S) = Load(g, R) + IF c \in S THEN g[c].size ELSE 0
  <2>1. CASE c \in S
    <3>1. SumFunctionOnSet(f, S) = f[c] + SumFunctionOnSet(f, R)
      <4> HIDE DEF f
      <4> QED BY <1>2, <2>1, SumTakesOut
    <3> QED BY <1>1, <1>2, <2>1, <3>1 DEF Load, Charges
  <2>2. CASE c \notin S
    <3>1. R = S
      BY <2>2
    <3> HIDE DEF R
    <3> QED BY <1>2, <2>2, <3>1
  <2> QED BY <2>1, <2>2
<1>5. Load(k, T) = Load(g, R) + IF c \in T THEN k[c].size ELSE 0
  <2>1. CASE c \in T
    <3>1. SumFunctionOnSet(e, T) = e[c] + SumFunctionOnSet(e, R)
      <4>1. T \ {c} = R
        OBVIOUS
      <4> HIDE DEF e, R
      <4> QED BY <1>2, <2>1, <4>1, SumTakesOut
    <3> QED BY <1>1, <1>2, <1>3, <2>1, <3>1 DEF Load, Charges
  <2>2. CASE c \notin T
    <3>1. R = T
      BY <2>2
    <3>2. Load(k, R) = Load(g, R)
      BY <1>3 DEF Load
    <3> HIDE DEF R
    <3> QED BY <1>2, <2>2, <3>1, <3>2
  <2> QED BY <2>1, <2>2
<1> QED BY <1>1, <1>2, <1>4, <1>5

(* A set of transfers is split by when their chunks may go.                *)
LEMMA LoadSplits ==
  ASSUME NEW g \in [Carriers -> Charges], NEW l \in Nat
  PROVE  /\ \A h \in Nat : l <= h =>
              Load(g, Upto(g, h))
                = Load(g, Upto(g, l)) + Load(g, Between(g, l, h))
         /\ Load(g, Carriers) = Load(g, Upto(g, l)) + Load(g, Beyond(g, l))
<1> DEFINE f == [c \in Carriers |-> g[c].size]
<1>1. ASSUME NEW S \in SUBSET Carriers, NEW T \in SUBSET Carriers,
             S \cap T = {}
      PROVE  Load(g, S \cup T) = Load(g, S) + Load(g, T)
  <2>1. Countable(f, S) /\ Countable(f, T)
    BY LoadIsNat
  <2> HIDE DEF f
  <2>2. SumFunctionOnSet(f, S \cup T)
          = SumFunctionOnSet(f, S) + SumFunctionOnSet(f, T)
    BY <1>1, <2>1, SumSplits
  <2> QED BY <2>2 DEF Load, f
<1>2. \A c \in Carriers : g[c].at \in Nat
  BY DEF Charges
<1>3. ASSUME NEW h \in Nat, l <= h
      PROVE  Load(g, Upto(g, h))
               = Load(g, Upto(g, l)) + Load(g, Between(g, l, h))
  <2>1. /\ Upto(g, l) \cup Between(g, l, h) = Upto(g, h)
        /\ Upto(g, l) \cap Between(g, l, h) = {}
        /\ Upto(g, l) \subseteq Carriers /\ Between(g, l, h) \subseteq Carriers
    BY <1>2, <1>3 DEF Upto, Between
  <2> QED BY <1>1, <2>1
<1>4. Load(g, Carriers) = Load(g, Upto(g, l)) + Load(g, Beyond(g, l))
  <2>1. /\ Upto(g, l) \cup Beyond(g, l) = Carriers
        /\ Upto(g, l) \cap Beyond(g, l) = {}
        /\ Upto(g, l) \subseteq Carriers /\ Beyond(g, l) \subseteq Carriers
    BY <1>2 DEF Upto, Beyond
  <2> QED BY <1>1, <2>1
<1> QED BY <1>3, <1>4

(* What is charged after l splits at any later moment; all loads are       *)
(* naturals.                                                               *)
LEMMA LoadsCompare ==
  ASSUME NEW g \in [Carriers -> Charges], NEW l \in Nat, NEW h \in Nat, l <= h
  PROVE  /\ Load(g, Between(g, l, h)) \in Nat /\ Load(g, Beyond(g, l)) \in Nat
         /\ Load(g, Upto(g, h)) \in Nat /\ Load(g, Carriers) \in Nat
         /\ Load(g, Between(g, l, h)) <= Load(g, Beyond(g, l))
         /\ Load(g, Upto(g, h)) <= Load(g, Carriers)
<1>1. /\ Load(g, Between(g, l, h)) \in Nat /\ Load(g, Beyond(g, l)) \in Nat
      /\ Load(g, Upto(g, h)) \in Nat /\ Load(g, Carriers) \in Nat
      /\ Load(g, Beyond(g, h)) \in Nat /\ Load(g, Upto(g, l)) \in Nat
  <2>1. /\ Between(g, l, h) \subseteq Carriers
        /\ Beyond(g, l) \subseteq Carriers
        /\ Upto(g, h) \subseteq Carriers /\ Beyond(g, h) \subseteq Carriers
        /\ Upto(g, l) \subseteq Carriers
    BY DEF Between, Beyond, Upto
  <2> QED BY <2>1, LoadIsNat
<1>2. Load(g, Upto(g, h)) = Load(g, Upto(g, l)) + Load(g, Between(g, l, h))
  BY LoadSplits
<1>3. Load(g, Carriers) = Load(g, Upto(g, l)) + Load(g, Beyond(g, l))
  BY LoadSplits
<1>4. Load(g, Carriers) = Load(g, Upto(g, h)) + Load(g, Beyond(g, h))
  BY LoadSplits
<1> QED BY <1>1, <1>2, <1>3, <1>4

(* A transfer that has nothing more to send is charged for nothing.        *)
LEMMA ChargeDropped ==
  ASSUME NEW g \in [Carriers -> Charges], NEW c \in Carriers,
         NEW k \in [Carriers -> Charges], k[c] = Uncharged,
         \A d \in Carriers \ {c} : k[d] = g[d],
         NEW l \in Nat, NEW h \in Nat, l <= h
  PROVE  /\ Load(k, Beyond(k, l)) <= Load(g, Beyond(g, l))
         /\ Load(k, Between(k, l, h)) <= Load(g, Between(g, l, h))
         /\ Load(k, Upto(k, h)) <= Load(g, Upto(g, h))
         /\ g[c].at <= h =>
              Load(k, Upto(k, h)) + g[c].size = Load(g, Upto(g, h))
         /\ Load(k, Carriers) + g[c].size = Load(g, Carriers)
<1>1. k[c].size = 0 /\ k[c].at = 0
  BY DEF Uncharged
<1>2. ASSUME NEW S \in SUBSET Carriers, NEW T \in SUBSET Carriers,
             S \ {c} = T \ {c}
      PROVE  /\ Load(g, S) \in Nat /\ Load(k, T) \in Nat
             /\ Load(k, T) <= Load(g, S)
             /\ c \in S => Load(k, T) + g[c].size = Load(g, S)
  <2>1. Load(k, T) + (IF c \in S THEN g[c].size ELSE 0)
           = Load(g, S) + (IF c \in T THEN k[c].size ELSE 0)
    BY <1>2, Recharged
  <2>2. g[c].size \in Nat /\ Load(g, S) \in Nat /\ Load(k, T) \in Nat
    BY LoadIsNat DEF Charges
  <2> QED BY <1>1, <2>1, <2>2
<1>3. /\ Beyond(g, l) \ {c} = Beyond(k, l) \ {c}
      /\ Between(g, l, h) \ {c} = Between(k, l, h) \ {c}
      /\ Upto(g, h) \ {c} = Upto(k, h) \ {c}
      /\ Beyond(g, l) \subseteq Carriers /\ Beyond(k, l) \subseteq Carriers
      /\ Between(g, l, h) \subseteq Carriers
      /\ Between(k, l, h) \subseteq Carriers
      /\ Upto(g, h) \subseteq Carriers /\ Upto(k, h) \subseteq Carriers
  BY <1>1 DEF Beyond, Between, Upto
<1>4. Load(k, Beyond(k, l)) <= Load(g, Beyond(g, l))
  BY <1>2, <1>3
<1>5. Load(k, Between(k, l, h)) <= Load(g, Between(g, l, h))
  BY <1>2, <1>3
<1>6. /\ Load(k, Upto(k, h)) <= Load(g, Upto(g, h))
      /\ c \in Upto(g, h) =>
           Load(k, Upto(k, h)) + g[c].size = Load(g, Upto(g, h))
  BY <1>2, <1>3
<1>7. Load(k, Carriers) + g[c].size = Load(g, Carriers)
  BY <1>2
<1>8. g[c].at <= h => c \in Upto(g, h)
  BY DEF Upto
<1> QED BY <1>4, <1>5, <1>6, <1>7, <1>8

---------------------------------------------------------------------------
(* The steps of gates and buckets.                                         *)

LEMMA ProductsOfNat ==
  ASSUME NEW a \in Nat, NEW b \in Nat
  PROVE  /\ a * b \in Nat /\ (a + 1) * b = a * b + b
         /\ b * (a + 1) = b * a + b /\ b * a \in Nat
         /\ 0 * b = 0 /\ b * 0 = 0
OBVIOUS

(* What a gate holds now.                                                  *)
LEMMA RefilledSound ==
  ASSUME PacingTyped
  PROVE  /\ Refilled(gate) \in Nat
         /\ Refilled(gate) <= GateBurst * TokenParts
         /\ GateBurst * TokenParts \in Nat
         /\ (tick - gate.last) * GateRefill \in Nat
<1>1. /\ tick - gate.last \in Nat /\ gate.tokens \in Nat /\ GateRefill \in Nat
      /\ GateBurst \in Nat /\ TokenParts \in Nat
  BY PacingAssumption DEF PacingTyped
<1>2. /\ GateBurst * TokenParts \in Nat
      /\ (tick - gate.last) * GateRefill \in Nat
  BY <1>1, ProductsOfNat
<1> QED BY <1>1, <1>2 DEF Refilled, Lower

(* A gate that was just asked holds what was put into it.                  *)
LEMMA RefilledAtOnce ==
  ASSUME PacingTyped, NEW t \in Nat, t <= GateBurst * TokenParts,
         gate' = [tokens |-> t, last |-> tick], tick' = tick
  PROVE  Refilled(gate)' = t
<1>1. (tick - tick) * GateRefill = 0
  <2>1. tick - tick = 0 /\ GateRefill \in Nat
    BY PacingAssumption DEF PacingTyped
  <2> QED BY <2>1, ProductsOfNat
<1>2. GateBurst * TokenParts \in Nat
  BY RefilledSound
<1>3. Refilled(gate)'
        = Lower(t + (tick - tick) * GateRefill, GateBurst * TokenParts)
  BY DEF Refilled
<1> QED BY <1>1, <1>2, <1>3 DEF Lower

LEMMA AllowKeeps == ASSUME PacingInv, Allow PROVE PacingInv'
<1> DEFINE took == IF Allowed THEN TokenParts ELSE 0
           let == IF Allowed THEN 1 ELSE 0
           full == GateBurst * TokenParts
<1>1. PacingTyped /\ GateInv
  BY DEF PacingInv
<1>2. /\ Refilled(gate) \in Nat /\ Refilled(gate) <= full /\ full \in Nat
  BY <1>1, RefilledSound
<1>3. /\ took \in Nat /\ let \in Nat /\ Refilled(gate) - took \in Nat
      /\ Refilled(gate) - took <= full
  BY <1>2, PacingAssumption DEF Allowed
<1>4. /\ gate' = [tokens |-> Refilled(gate) - took, last |-> tick]
      /\ passed' = passed + let
      /\ UNCHANGED <<tick, tat, charged, mark, sent, heldBack>>
  BY DEF Allow
<1>5. Refilled(gate)' = Refilled(gate) - took
  BY <1>1, <1>3, <1>4, RefilledAtOnce
<1>6. passed' * TokenParts = passed * TokenParts + took
  <2>1. passed \in Nat /\ TokenParts \in Nat
    BY <1>1, PacingAssumption DEF PacingTyped
  <2>2. (passed + 1) * TokenParts = passed * TokenParts + TokenParts
        /\ passed * TokenParts \in Nat
    BY <2>1, ProductsOfNat
  <2>3. CASE Allowed
    BY <1>4, <2>2, <2>3
  <2>4. CASE ~Allowed
    BY <1>4, <2>1, <2>2, <2>4
  <2> QED BY <2>3, <2>4
<1>7. PacingTyped'
  BY <1>1, <1>3, <1>4 DEF PacingTyped
<1>8. GateInv'
  <2>1. passed * TokenParts \in Nat
    BY <1>1, PacingAssumption, ProductsOfNat DEF PacingTyped
  <2>2. passed' * TokenParts + Refilled(gate)'
          = passed * TokenParts + Refilled(gate)
    BY <1>2, <1>3, <1>5, <1>6, <2>1
  <2> QED BY <1>1, <1>4, <2>2 DEF GateInv
<1>9. BucketInv'
  BY <1>4 DEF PacingInv, BucketInv
<1> QED BY <1>7, <1>8, <1>9 DEF PacingInv

LEMMA AskReadyKeeps == ASSUME PacingInv, AskReady PROVE PacingInv'
<1>1. PacingTyped /\ GateInv
  BY DEF PacingInv
<1>2. /\ Refilled(gate) \in Nat
      /\ Refilled(gate) <= GateBurst * TokenParts
  BY <1>1, RefilledSound
<1>3. /\ gate' = [tokens |-> Refilled(gate), last |-> tick]
      /\ UNCHANGED <<tick, tat, charged, mark, passed, sent, heldBack>>
  BY DEF AskReady
<1>4. Refilled(gate)' = Refilled(gate)
  BY <1>1, <1>2, <1>3, RefilledAtOnce
<1>5. PacingTyped'
  BY <1>1, <1>2, <1>3 DEF PacingTyped
<1>6. GateInv'
  BY <1>1, <1>3, <1>4 DEF GateInv
<1>7. BucketInv'
  BY <1>3 DEF PacingInv, BucketInv
<1> QED BY <1>5, <1>6, <1>7 DEF PacingInv

LEMMA TickKeeps == ASSUME PacingInv, Tick PROVE PacingInv'
<1> DEFINE full == GateBurst * TokenParts
<1>1. PacingTyped /\ GateInv /\ BucketInv
  BY DEF PacingInv
<1>2. /\ tick' = tick + 1
      /\ UNCHANGED <<gate, tat, charged, mark, passed, sent, heldBack>>
  BY DEF Tick
<1>3. /\ Refilled(gate) \in Nat /\ full \in Nat
      /\ (tick - gate.last) * GateRefill \in Nat
  BY <1>1, RefilledSound
<1>4. PacingTyped'
  BY <1>1, <1>2 DEF PacingTyped
<1>5. GateInv'
  <2>1. /\ tick - gate.last \in Nat /\ tick - mark \in Nat
        /\ GateRefill \in Nat /\ gate.tokens \in Nat
        /\ passed * TokenParts \in Nat
    BY <1>1, PacingAssumption, ProductsOfNat DEF PacingTyped
  <2>2. /\ (tick - gate.last + 1) * GateRefill
             = (tick - gate.last) * GateRefill + GateRefill
        /\ GateRefill * (tick - mark + 1)
             = GateRefill * (tick - mark) + GateRefill
        /\ GateRefill * (tick - mark) \in Nat
    BY <2>1, ProductsOfNat
  <2>3. /\ tick' - gate'.last = tick - gate.last + 1
        /\ tick' - mark' = tick - mark + 1
    BY <1>1, <1>2 DEF PacingTyped
  <2>4. Refilled(gate)'
          = Lower(gate.tokens + (tick - gate.last) * GateRefill + GateRefill,
                  full)
    BY <1>2, <1>3, <2>1, <2>2, <2>3 DEF Refilled
  <2>5. Refilled(gate)' <= Refilled(gate) + GateRefill
    BY <1>3, <2>1, <2>4 DEF Refilled, Lower
  <2>6. Refilled(gate)' \in Nat
    BY <1>3, <2>1, <2>4 DEF Lower
  <2>7. passed * TokenParts + Refilled(gate)
          <= full + GateRefill * (tick - mark)
    BY <1>1 DEF GateInv
  <2>8. passed' * TokenParts + Refilled(gate)'
          <= full + (GateRefill * (tick - mark) + GateRefill)
    <3> HIDE DEF full
    <3> QED BY <1>2, <1>3, <2>1, <2>2, <2>5, <2>6, <2>7
  <2> QED BY <2>2, <2>3, <2>8 DEF GateInv
<1>6. BucketInv'
  BY <1>1, <1>2 DEF BucketInv, PacingTyped
<1> QED BY <1>4, <1>5, <1>6 DEF PacingInv

LEMMA MarkKeeps == ASSUME PacingInv, Mark PROVE PacingInv'
<1>1. PacingTyped /\ GateInv /\ BucketInv
  BY DEF PacingInv
<1>2. /\ mark' = tick /\ passed' = 0 /\ sent' = 0
      /\ heldBack' = Load(charged, Upto(charged, tick))
      /\ UNCHANGED <<tick, gate, tat, charged>>
  BY DEF Mark, Load, Upto, Ready
<1>3. tick \in Nat /\ tat \in Nat /\ charged \in [Carriers -> Charges]
  BY <1>1 DEF PacingTyped
<1>4. heldBack' \in Nat
  BY <1>2, <1>3, LoadsCompare
<1>5. PacingTyped'
  BY <1>1, <1>2, <1>4 DEF PacingTyped
<1>6. GateInv'
  <2>1. /\ Refilled(gate) \in Nat
        /\ Refilled(gate) <= GateBurst * TokenParts
        /\ GateBurst * TokenParts \in Nat
    BY <1>1, RefilledSound
  <2>2. Refilled(gate)' = Refilled(gate)
    BY <1>2 DEF Refilled
  <2>3. GateRefill * (tick' - mark') = 0 /\ passed' * TokenParts = 0
    <3>1. tick' - mark' = 0 /\ GateRefill \in Nat /\ TokenParts \in Nat
      BY <1>2, <1>3, PacingAssumption
    <3> QED BY <1>2, <3>1, ProductsOfNat
  <2> QED BY <2>1, <2>2, <2>3 DEF GateInv
<1>7. BucketInv'
  <2>1. /\ \A l \in Nat :
             Load(charged, Beyond(charged, l)) <= Higher(tat - l, 0)
        /\ \A l, h \in Nat : l <= h =>
             Load(charged, Between(charged, l, h)) <= (h - l) + ByteBurst
    BY <1>1 DEF BucketInv
  <2>2. ASSUME NEW h \in Nat, tick <= h
        PROVE  Load(charged, Upto(charged, h))
                 <= (h - tick) + ByteBurst + Load(charged, Upto(charged, tick))
    <3>1. Load(charged, Upto(charged, h))
            = Load(charged, Upto(charged, tick))
                + Load(charged, Between(charged, tick, h))
      BY <1>3, <2>2, LoadSplits
    <3>2. /\ Load(charged, Upto(charged, tick)) \in Nat
          /\ Load(charged, Between(charged, tick, h)) \in Nat
      BY <1>3, <2>2, LoadsCompare
    <3> QED BY <1>3, <2>1, <2>2, <3>1, <3>2, PacingAssumption
  <2>3. Load(charged, Carriers)
          <= (Higher(tat, tick) - tick) + Load(charged, Upto(charged, tick))
    <3>1. Load(charged, Carriers)
            = Load(charged, Upto(charged, tick))
                + Load(charged, Beyond(charged, tick))
      BY <1>3, LoadSplits
    <3>2. /\ Load(charged, Upto(charged, tick)) \in Nat
          /\ Load(charged, Beyond(charged, tick)) \in Nat
      BY <1>3, LoadsCompare
    <3>3. Load(charged, Beyond(charged, tick)) <= Higher(tat - tick, 0)
      BY <1>3, <2>1
    <3> QED BY <1>3, <3>1, <3>2, <3>3 DEF Higher
  <2>4. /\ Load(charged, Carriers) \in Nat
        /\ \A h \in Nat : Load(charged, Upto(charged, h)) \in Nat
    BY <1>3, LoadsCompare
  <2>5. \A h \in Nat : tick <= h =>
          0 + Load(charged, Upto(charged, h))
            <= (h - tick) + ByteBurst + Load(charged, Upto(charged, tick))
    BY <2>2, <2>4
  <2>6. 0 + Load(charged, Carriers)
          <= (Higher(tat, tick) - tick) + Load(charged, Upto(charged, tick))
    BY <2>3, <2>4
  <2> QED BY <1>2, <2>1, <2>5, <2>6 DEF BucketInv
<1> QED BY <1>5, <1>6, <1>7 DEF PacingInv

(* A transfer is left with nothing to send, having sent its chunk (it was  *)
(* allowed to by now) or not.                                              *)
LEMMA DropKeeps ==
  ASSUME PacingInv, NEW c \in Carriers, NEW out \in Nat,
         charged' = [charged EXCEPT ![c] = Uncharged],
         sent' = sent + out,
         \/ out = 0
         \/ out = charged[c].size /\ charged[c].at <= tick,
         UNCHANGED <<tick, gate, tat, mark, passed, heldBack>>
  PROVE  PacingInv'
<1>1. PacingTyped /\ GateInv /\ BucketInv
  BY DEF PacingInv
<1>2. Uncharged \in Charges
  BY DEF Uncharged, Charges
<1>3. PacingTyped'
  BY <1>1, <1>2 DEF PacingTyped
<1>4. GateInv'
  BY <1>1 DEF GateInv, Refilled
<1>5. BucketInv'
  <2>1. /\ charged \in [Carriers -> Charges]
        /\ charged' \in [Carriers -> Charges] /\ charged'[c] = Uncharged
        /\ \A d \in Carriers \ {c} : charged'[d] = charged[d]
    BY <1>1, <1>2 DEF PacingTyped
  <2>2. /\ charged[c].size \in Nat /\ charged[c].at \in Nat /\ sent \in Nat
        /\ tick \in Nat /\ tat \in Nat /\ mark \in Nat /\ heldBack \in Nat
        /\ ByteBurst \in Nat /\ mark <= tick
    BY <1>1, PacingAssumption DEF PacingTyped, Charges
  <2>3. ASSUME NEW l \in Nat, NEW h \in Nat, l <= h
        PROVE  /\ Load(charged', Beyond(charged', l))
                    <= Load(charged, Beyond(charged, l))
               /\ Load(charged', Between(charged', l, h))
                    <= Load(charged, Between(charged, l, h))
               /\ Load(charged', Upto(charged', h))
                    <= Load(charged, Upto(charged, h))
               /\ charged[c].at <= h =>
                    Load(charged', Upto(charged', h)) + charged[c].size
                      = Load(charged, Upto(charged, h))
               /\ Load(charged', Carriers) + charged[c].size
                    = Load(charged, Carriers)
    <3> DEFINE k == charged'
    <3>1. /\ k \in [Carriers -> Charges] /\ k[c] = Uncharged
          /\ \A d \in Carriers \ {c} : k[d] = charged[d]
      BY <2>1
    <3> HIDE DEF k
    <3>2. /\ Load(k, Beyond(k, l)) <= Load(charged, Beyond(charged, l))
          /\ Load(k, Between(k, l, h)) <= Load(charged, Between(charged, l, h))
          /\ Load(k, Upto(k, h)) <= Load(charged, Upto(charged, h))
          /\ charged[c].at <= h =>
               Load(k, Upto(k, h)) + charged[c].size
                 = Load(charged, Upto(charged, h))
          /\ Load(k, Carriers) + charged[c].size = Load(charged, Carriers)
      BY <2>1, <2>3, <3>1, ChargeDropped
    <3> QED BY <3>2 DEF k
  <2>4. ASSUME NEW l \in Nat, NEW h \in Nat, l <= h
        PROVE  /\ Load(charged, Beyond(charged, l)) \in Nat
               /\ Load(charged', Beyond(charged', l)) \in Nat
               /\ Load(charged, Between(charged, l, h)) \in Nat
               /\ Load(charged', Between(charged', l, h)) \in Nat
               /\ Load(charged, Upto(charged, h)) \in Nat
               /\ Load(charged', Upto(charged', h)) \in Nat
               /\ Load(charged, Carriers) \in Nat
               /\ Load(charged', Carriers) \in Nat
    BY <2>1, <2>4, LoadsCompare
  <2>5. ASSUME NEW l \in Nat
        PROVE  Load(charged', Beyond(charged', l)) <= Higher(tat - l, 0)
    <3>1. Load(charged, Beyond(charged, l)) <= Higher(tat - l, 0)
      BY <1>1, <2>5 DEF BucketInv
    <3>2. l <= l
      BY <2>5
    <3>3. /\ Load(charged, Beyond(charged, l)) \in Nat
          /\ Load(charged', Beyond(charged', l)) \in Nat
      BY <2>4, <2>5, <3>2
    <3>4. Load(charged', Beyond(charged', l))
            <= Load(charged, Beyond(charged, l))
      <4>1. \A h \in Nat : l <= h =>
              Load(charged', Beyond(charged', l))
                <= Load(charged, Beyond(charged, l))
        BY <2>3, <2>5
      <4> QED BY <2>5, <3>2, <4>1
    <3> QED BY <2>2, <2>5, <3>1, <3>3, <3>4 DEF Higher
  <2>6. ASSUME NEW l \in Nat, NEW h \in Nat, l <= h
        PROVE  Load(charged', Between(charged', l, h)) <= (h - l) + ByteBurst
    <3>1. Load(charged, Between(charged, l, h)) <= (h - l) + ByteBurst
      BY <1>1, <2>6 DEF BucketInv
    <3>2. /\ Load(charged, Between(charged, l, h)) \in Nat
          /\ Load(charged', Between(charged', l, h)) \in Nat
      BY <2>4, <2>6
    <3>3. Load(charged', Between(charged', l, h))
            <= Load(charged, Between(charged, l, h))
      BY <2>3, <2>6
    <3> QED BY <2>2, <2>6, <3>1, <3>2, <3>3
  <2>7. ASSUME NEW h \in Nat, tick <= h
        PROVE  sent' + Load(charged', Upto(charged', h))
                 <= (h - mark) + ByteBurst + heldBack
    <3>1. sent + Load(charged, Upto(charged, h))
            <= (h - mark) + ByteBurst + heldBack
      BY <1>1, <2>7 DEF BucketInv
    <3>2. /\ Load(charged, Upto(charged, h)) \in Nat
          /\ Load(charged', Upto(charged', h)) \in Nat
      BY <2>2, <2>4, <2>7
    <3>3. /\ Load(charged', Upto(charged', h))
               <= Load(charged, Upto(charged, h))
          /\ charged[c].at <= h =>
               Load(charged', Upto(charged', h)) + charged[c].size
                 = Load(charged, Upto(charged, h))
      BY <2>2, <2>3, <2>7
    <3> QED BY <2>2, <2>7, <3>1, <3>2, <3>3
  <2>8. sent' + Load(charged', Carriers)
          <= (Higher(tat, mark) - mark) + heldBack
    <3>1. sent + Load(charged, Carriers)
            <= (Higher(tat, mark) - mark) + heldBack
      BY <1>1 DEF BucketInv
    <3>2. /\ Load(charged', Carriers) + charged[c].size
               = Load(charged, Carriers)
          /\ Load(charged, Carriers) \in Nat /\ Load(charged', Carriers) \in Nat
      <4>1. 0 \in Nat /\ 0 <= 0
        OBVIOUS
      <4> QED BY <2>3, <2>4, <4>1
    <3> QED BY <2>2, <3>1, <3>2 DEF Higher
  <2> QED BY <2>5, <2>6, <2>7, <2>8 DEF BucketInv
<1> QED BY <1>3, <1>4, <1>5 DEF PacingInv

LEMMA SendKeeps ==
  ASSUME PacingInv, NEW c \in Carriers, SendCharged(c) \/ StopCharged(c)
  PROVE  PacingInv'
<1>1. charged[c].size \in Nat /\ charged[c].at \in Nat /\ sent \in Nat
      /\ tick \in Nat
  BY DEF PacingInv, PacingTyped, Charges
<1>2. CASE SendCharged(c)
  BY <1>1, <1>2, DropKeeps DEF SendCharged
<1>3. CASE StopCharged(c)
  <2>1. sent' = sent + 0
    BY <1>1, <1>3 DEF StopCharged
  <2> QED BY <1>3, <2>1, DropKeeps DEF StopCharged
<1> QED BY <1>2, <1>3

LEMMA ReserveKeeps ==
  ASSUME PacingInv, NEW c \in Carriers, Reserve(c) PROVE PacingInv'
<1>1. PacingTyped /\ GateInv /\ BucketInv
  BY DEF PacingInv
<1>2. PICK size \in ChunkSizes :
        /\ charged[c] = Uncharged
        /\ tat' = ChargeFrom + size
        /\ charged' = [charged EXCEPT ![c] =
                         [size |-> size, at |-> Higher(tat' - ByteBurst, tick)]]
        /\ UNCHANGED <<tick, gate, mark, passed, sent, heldBack>>
  BY DEF Reserve
<1> DEFINE at == Higher(tat' - ByteBurst, tick)
<1>3. /\ tick \in Nat /\ tat \in Nat /\ mark \in Nat /\ mark <= tick
      /\ sent \in Nat /\ heldBack \in Nat /\ charged \in [Carriers -> Charges]
      /\ size \in Nat /\ size <= ByteBurst /\ ByteBurst \in Nat
  BY <1>1, PacingAssumption DEF PacingTyped
<1>4. /\ tat' \in Nat /\ tat <= tat' /\ tick <= tat' /\ mark <= tat'
      /\ tat + size <= tat' /\ at \in Nat /\ tick <= at
      /\ tat' <= at + ByteBurst
      /\ \A l \in Nat : l < at => l + size <= tat'
      /\ tat' = Higher(tat, tick) + size
  BY <1>2, <1>3 DEF ChargeFrom, Higher
<1> DEFINE k == charged'
<1>5. /\ k \in [Carriers -> Charges]
      /\ \A d \in Carriers \ {c} : k[d] = charged[d]
      /\ k[c].size = size /\ k[c].at = at
      /\ charged[c].size = 0 /\ charged[c].at = 0
  <2>1. [size |-> size, at |-> at] \in Charges
    BY <1>3, <1>4 DEF Charges
  <2> HIDE DEF at
  <2> QED BY <1>2, <1>3, <2>1 DEF Uncharged, at
<1>6. PacingTyped'
  BY <1>1, <1>2, <1>4, <1>5 DEF PacingTyped
<1>7. GateInv'
  BY <1>1, <1>2 DEF GateInv, Refilled
<1> HIDE DEF at, k
<1>8. ASSUME NEW S \in SUBSET Carriers, NEW T \in SUBSET Carriers,
             S \ {c} = T \ {c}
      PROVE  /\ Load(charged, S) \in Nat /\ Load(k, T) \in Nat
             /\ Load(k, T) = Load(charged, S) + (IF c \in T THEN size ELSE 0)
  <2>1. Load(k, T) + (IF c \in S THEN charged[c].size ELSE 0)
          = Load(charged, S) + (IF c \in T THEN k[c].size ELSE 0)
    BY <1>3, <1>5, <1>8, Recharged
  <2>2. Load(charged, S) \in Nat /\ Load(k, T) \in Nat
    BY <1>3, <1>5, LoadIsNat
  <2> QED BY <1>3, <1>5, <2>1, <2>2
<1>9. ASSUME NEW l \in Nat
      PROVE  Load(k, Beyond(k, l)) <= Higher(tat' - l, 0)
  <2>1. /\ Beyond(charged, l) \ {c} = Beyond(k, l) \ {c}
        /\ Beyond(charged, l) \subseteq Carriers
        /\ Beyond(k, l) \subseteq Carriers
        /\ c \in Beyond(k, l) => l < at
    BY <1>5 DEF Beyond
  <2>2. /\ Load(charged, Beyond(charged, l)) \in Nat
        /\ Load(k, Beyond(k, l)) \in Nat
        /\ Load(k, Beyond(k, l)) = Load(charged, Beyond(charged, l))
             + (IF c \in Beyond(k, l) THEN size ELSE 0)
    BY <1>8, <2>1
  <2>3. Load(charged, Beyond(charged, l)) <= Higher(tat - l, 0)
    BY <1>1, <1>9 DEF BucketInv
  <2>4. c \in Beyond(k, l) => l + size <= tat'
    BY <1>4, <1>9, <2>1
  <2> QED BY <1>3, <1>4, <1>9, <2>2, <2>3, <2>4 DEF Higher
<1>10. ASSUME NEW l \in Nat, NEW h \in Nat, l <= h
       PROVE  Load(k, Between(k, l, h)) <= (h - l) + ByteBurst
  <2>1. /\ Between(charged, l, h) \ {c} = Between(k, l, h) \ {c}
        /\ Between(charged, l, h) \subseteq Carriers
        /\ Between(k, l, h) \subseteq Carriers
        /\ c \in Between(k, l, h) => l < at /\ at <= h
    BY <1>5 DEF Between
  <2>2. /\ Load(charged, Between(charged, l, h)) \in Nat
        /\ Load(k, Between(k, l, h)) \in Nat
        /\ Load(k, Between(k, l, h)) = Load(charged, Between(charged, l, h))
             + (IF c \in Between(k, l, h) THEN size ELSE 0)
    BY <1>8, <2>1
  <2>3. CASE c \in Between(k, l, h)
    <3>1. /\ Load(k, Between(k, l, h)) <= Load(k, Beyond(k, l))
          /\ Load(k, Beyond(k, l)) \in Nat
      BY <1>5, <1>10, LoadsCompare
    <3>2. Load(k, Beyond(k, l)) <= Higher(tat' - l, 0)
      BY <1>9, <1>10
    <3>3. l < at /\ at <= h
      BY <2>1, <2>3
    <3> QED BY <1>3, <1>4, <1>10, <2>2, <3>1, <3>2, <3>3 DEF Higher
  <2>4. CASE c \notin Between(k, l, h)
    <3>1. Load(charged, Between(charged, l, h)) <= (h - l) + ByteBurst
      BY <1>1, <1>10 DEF BucketInv
    <3> QED BY <1>3, <1>10, <2>2, <2>4, <3>1
  <2> QED BY <2>3, <2>4
<1>11. sent + Load(k, Carriers) <= (Higher(tat', mark) - mark) + heldBack
  <2>1. /\ Load(charged, Carriers) \in Nat
        /\ Load(k, Carriers) = Load(charged, Carriers) + size
    BY <1>8
  <2>2. sent + Load(charged, Carriers)
          <= (Higher(tat, mark) - mark) + heldBack
    BY <1>1 DEF BucketInv
  <2> QED BY <1>3, <1>4, <2>1, <2>2 DEF Higher
<1>12. ASSUME NEW h \in Nat, tick <= h
       PROVE  sent + Load(k, Upto(k, h)) <= (h - mark) + ByteBurst + heldBack
  <2>1. /\ Upto(charged, h) \ {c} = Upto(k, h) \ {c}
        /\ Upto(charged, h) \subseteq Carriers /\ Upto(k, h) \subseteq Carriers
        /\ c \in Upto(k, h) => at <= h
    BY <1>5 DEF Upto
  <2>2. /\ Load(charged, Upto(charged, h)) \in Nat
        /\ Load(k, Upto(k, h)) \in Nat
        /\ Load(k, Upto(k, h)) = Load(charged, Upto(charged, h))
             + (IF c \in Upto(k, h) THEN size ELSE 0)
    BY <1>8, <2>1
  <2>3. CASE c \in Upto(k, h)
    <3>1. /\ Load(k, Upto(k, h)) <= Load(k, Carriers)
          /\ Load(k, Carriers) \in Nat
      <4>1. h <= h
        BY <1>12
      <4> QED BY <1>5, <1>12, <4>1, LoadsCompare
    <3>2. at <= h
      BY <2>1, <2>3
    <3> QED BY <1>3, <1>4, <1>11, <1>12, <2>2, <3>1, <3>2 DEF Higher
  <2>4. CASE c \notin Upto(k, h)
    <3>1. sent + Load(charged, Upto(charged, h))
            <= (h - mark) + ByteBurst + heldBack
      BY <1>1, <1>12 DEF BucketInv
    <3> QED BY <1>3, <1>12, <2>2, <2>4, <3>1
  <2> QED BY <2>3, <2>4
<1>13. BucketInv'
  BY <1>2, <1>9, <1>10, <1>11, <1>12 DEF BucketInv, k
<1> QED BY <1>6, <1>7, <1>13 DEF PacingInv

LEMMA PacingStarts == PacingInit => PacingInv
<1> SUFFICES ASSUME PacingInit PROVE PacingInv
  OBVIOUS
<1>1. PacingTyped
  <2>1. GateBurst * TokenParts \in Nat
    BY PacingAssumption, ProductsOfNat
  <2> QED BY <2>1 DEF PacingInit, PacingTyped, Charges, Uncharged
<1>2. GateInv
  <2>1. Refilled(gate) <= GateBurst * TokenParts /\ Refilled(gate) \in Nat
        /\ GateBurst * TokenParts \in Nat
    BY <1>1, RefilledSound
  <2>2. passed * TokenParts = 0 /\ GateRefill * (tick - mark) = 0
    <3>1. tick - mark = 0 /\ passed = 0 /\ GateRefill \in Nat
          /\ TokenParts \in Nat
      BY PacingAssumption DEF PacingInit
    <3> QED BY <3>1, ProductsOfNat
  <2> QED BY <2>1, <2>2 DEF GateInv
<1>3. ASSUME NEW S \in SUBSET Carriers PROVE Load(charged, S) = 0
  <2> DEFINE f == [c \in Carriers |-> charged[c].size]
  <2>1. Countable(f, S)
    BY <1>1, LoadIsNat DEF PacingTyped
  <2>2. \A x \in S : f[x] = 0
    BY DEF PacingInit, Uncharged
  <2> HIDE DEF f
  <2>3. SumFunctionOnSet(f, S) = 0
    BY <2>1, <2>2, SumOfNone
  <2> QED BY <2>3 DEF f, Load
<1>4. BucketInv
  <2>1. /\ \A l \in Nat : Load(charged, Beyond(charged, l)) = 0
        /\ \A l, h \in Nat : Load(charged, Between(charged, l, h)) = 0
        /\ \A h \in Nat : Load(charged, Upto(charged, h)) = 0
        /\ Load(charged, Carriers) = 0
    BY <1>3 DEF Beyond, Between, Upto
  <2>2. ByteBurst \in Nat /\ tick = 0 /\ tat = 0 /\ mark = 0 /\ sent = 0
        /\ heldBack = 0
    BY PacingAssumption DEF PacingInit
  <2> QED BY <2>1, <2>2 DEF BucketInv, Higher
<1> QED BY <1>1, <1>2, <1>4 DEF PacingInv

LEMMA PacedFollows == PacingInv => Paced
<1> SUFFICES ASSUME PacingInv PROVE Paced
  OBVIOUS
<1>1. PacingTyped /\ GateInv /\ BucketInv
  BY DEF PacingInv
<1>2. passed * TokenParts <= GateBurst * TokenParts + GateRefill * (tick - mark)
  <2>1. Refilled(gate) \in Nat /\ GateBurst * TokenParts \in Nat
    BY <1>1, RefilledSound
  <2>2. /\ passed * TokenParts \in Nat
        /\ GateRefill * (tick - mark) \in Nat
    <3>1. tick - mark \in Nat /\ passed \in Nat /\ GateRefill \in Nat
          /\ TokenParts \in Nat
      BY <1>1, PacingAssumption DEF PacingTyped
    <3> QED BY <3>1, ProductsOfNat
  <2> QED BY <1>1, <2>1, <2>2 DEF GateInv
<1>3. sent <= ByteBurst + (tick - mark) + heldBack
  <2>1. /\ tick \in Nat /\ mark \in Nat /\ sent \in Nat /\ heldBack \in Nat
        /\ ByteBurst \in Nat /\ charged \in [Carriers -> Charges]
    BY <1>1, PacingAssumption DEF PacingTyped
  <2>2. tick <= tick
    BY <2>1
  <2>3. sent + Load(charged, Upto(charged, tick))
          <= (tick - mark) + ByteBurst + heldBack
    BY <1>1, <2>1, <2>2 DEF BucketInv
  <2>4. Load(charged, Upto(charged, tick)) \in Nat
    BY <2>1, <2>2, LoadsCompare
  <2> QED BY <2>1, <2>3, <2>4
<1> QED BY <1>2, <1>3 DEF Paced

(* However requests and transfers mix with time, and from whatever moment  *)
(* one counts, gates let no more requests through and the bandwidth bucket *)
(* no more bytes out than the burst, what was earned since and what had    *)
(* been granted before (FloodGate::allow, TokenBucket::reserve).           *)
THEOREM NothingPassesFaster == PacingSpec => []Paced
<1>1. PacingInv /\ [GateNext \/ BucketNext]_pacingVars => PacingInv'
  <2> SUFFICES ASSUME PacingInv, [GateNext \/ BucketNext]_pacingVars
               PROVE  PacingInv'
    OBVIOUS
  <2>1. CASE Allow
    BY <2>1, AllowKeeps
  <2>2. CASE AskReady
    BY <2>2, AskReadyKeeps
  <2>3. CASE Mark
    BY <2>3, MarkKeeps
  <2>4. CASE Tick
    BY <2>4, TickKeeps
  <2>5. ASSUME NEW c \in Carriers, Reserve(c) PROVE PacingInv'
    BY <2>5, ReserveKeeps
  <2>6. ASSUME NEW c \in Carriers, SendCharged(c) \/ StopCharged(c)
        PROVE  PacingInv'
    BY <2>6, SendKeeps
  <2>7. CASE UNCHANGED pacingVars
    BY <2>7 DEF pacingVars, PacingInv, PacingTyped, GateInv, BucketInv,
                Refilled
  <2> QED BY <2>1, <2>2, <2>3, <2>4, <2>5, <2>6, <2>7
          DEF GateNext, BucketNext
<1> QED BY <1>1, PacingStarts, PacedFollows, PTL DEF PacingSpec

---------------------------------------------------------------------------
(* News.                                                                   *)

(* The records of posts have been given an identifier, a reply stands in   *)
(* the group of its parent, and a handler that may moderate is one of a    *)
(* moderator.                                                              *)
Threaded ==
  \A p \in ExistingPosts :
    /\ posts[p].group \in ExistingGroups
    /\ posts[p].parent # NoPost =>
         posts[p].parent \in PostsOf(posts[p].group)
Looked ==
  \A m \in Members :
    asking[m].stage = "delete" => (asking[m].moderate => m \in Moderators)
NewsInv ==
  Threaded /\ ExistingPosts \subseteq spent /\ DOMAIN asking = Members /\ Looked

(* What a cascade takes along is all there is below the post.              *)
LEMMA BeneathIsClosed ==
  ASSUME NEW p, NEW q \in ExistingPosts,
         posts[q].parent \in {p} \cup Beneath(p)
  PROVE  q \in Beneath(p)
BY DEF Beneath

(* A handler that goes on, or answers, leaves those of the others alone.   *)
LEMMA AskingMoves ==
  ASSUME NewsInv, NEW m \in Members, NEW r,
         asking' = [asking EXCEPT ![m] = r],
         r.stage = "delete" => (r.moderate => m \in Moderators)
  PROVE  DOMAIN asking' = Members /\ Looked'
BY DEF NewsInv, Looked

LEMMA Answered ==
  ASSUME NewsInv, NEW m \in Members, Answer(m)
  PROVE  DOMAIN asking' = Members /\ Looked' /\ asking'[m].stage # "delete"
<1>1. Quiet.stage # "delete"
  BY DEF Quiet
<1>2. DOMAIN asking' = Members /\ Looked'
  BY <1>1, AskingMoves DEF Answer
<1>3. asking'[m] = Quiet
  BY DEF Answer, NewsInv
<1> QED BY <1>1, <1>2, <1>3

(* Posts go together with those below them.                                *)
LEMMA ThreadedWithout ==
  ASSUME NewsInv, NEW gone, posts' = Without(gone),
         \A q \in ExistingPosts :
           posts[q].parent # NoPost /\ posts[q].parent \in gone => q \in gone,
         \A q \in ExistingPosts \ gone :
           posts[q].group \in DOMAIN newsgroups'
  PROVE  Threaded' /\ DOMAIN posts' = ExistingPosts \ gone
<1>1. /\ DOMAIN posts' = ExistingPosts \ gone
      /\ \A p \in DOMAIN posts' : posts'[p] = posts[p]
  BY DEF Without
<1>2. SUFFICES ASSUME NEW p \in ExistingPosts \ gone
               PROVE  /\ posts[p].group \in DOMAIN newsgroups'
                      /\ posts[p].parent # NoPost =>
                           /\ posts[p].parent \in ExistingPosts \ gone
                           /\ posts[posts[p].parent].group = posts[p].group
  BY <1>1 DEF Threaded, PostsOf, ExistingPosts, ExistingGroups
<1> QED BY DEF NewsInv, Threaded, PostsOf

LEMMA GroupStepKeeps ==
  ASSUME NewsInv, NEW m \in Members, CreateGroup(m) \/ UpdateGroup(m)
  PROVE  NewsInv'
<1>1. ExistingGroups \subseteq DOMAIN newsgroups'
  BY DEF CreateGroup, UpdateGroup, ExistingGroups
<1>2. UNCHANGED <<posts, spent, asking>>
  BY DEF CreateGroup, UpdateGroup
<1> QED BY <1>1, <1>2 DEF NewsInv, Threaded, Looked, PostsOf, ExistingPosts,
                          ExistingGroups

LEMMA DeleteGroupKeeps ==
  ASSUME NewsInv, NEW m \in Members, DeleteGroup(m)
  PROVE  /\ NewsInv'
         /\ \A p \in ExistingPosts \ DOMAIN posts' :
              posts[p].group \notin DOMAIN newsgroups'
<1>1. PICK g \in ExistingGroups :
        /\ DOMAIN newsgroups' = ExistingGroups \ {g}
        /\ posts' = Without(PostsOf(g))
        /\ UNCHANGED <<groupsMade, spent, asking>>
  BY DEF DeleteGroup
<1>2. \A q \in ExistingPosts :
        posts[q].parent # NoPost /\ posts[q].parent \in PostsOf(g) =>
          q \in PostsOf(g)
  BY DEF NewsInv, Threaded, PostsOf
<1>3. \A q \in ExistingPosts \ PostsOf(g) :
        posts[q].group \in DOMAIN newsgroups'
  BY <1>1 DEF NewsInv, Threaded, PostsOf
<1>4. Threaded' /\ DOMAIN posts' = ExistingPosts \ PostsOf(g)
  BY <1>1, <1>2, <1>3, ThreadedWithout
<1>5. NewsInv'
  BY <1>1, <1>4 DEF NewsInv, Looked, ExistingPosts
<1>6. \A p \in PostsOf(g) : posts[p].group \notin DOMAIN newsgroups'
  BY <1>1 DEF PostsOf
<1> QED BY <1>4, <1>5, <1>6

LEMMA PostCreateKeeps ==
  ASSUME NewsInv, NEW m \in Members, PostCreate(m)
  PROVE  NewsInv'
<1>1. PICK r : r.stage = "post" /\ asking' = [asking EXCEPT ![m] = r]
  BY DEF PostCreate
<1>2. DOMAIN asking' = Members /\ Looked'
  BY <1>1, AskingMoves
<1>3. UNCHANGED <<newsgroups, posts, spent>>
  BY DEF PostCreate
<1> QED BY <1>2, <1>3 DEF NewsInv, Threaded, PostsOf, ExistingPosts,
                          ExistingGroups

LEMMA InsertPostKeeps ==
  ASSUME NewsInv, NEW m \in Members, InsertPost(m)
  PROVE  NewsInv' /\ ExistingPosts \subseteq DOMAIN posts'
<1> DEFINE r == asking[m]
<1>1. PICK p \in PostIds \ spent :
        /\ r.group \in ExistingGroups
        /\ r.parent # NoPost => r.parent \in PostsOf(r.group)
        /\ spent' = spent \cup {p} /\ newsgroups' = newsgroups
        /\ posts' = [q \in ExistingPosts \cup {p} |->
             IF q = p THEN [group |-> r.group, parent |-> r.parent,
                            author |-> m] ELSE posts[q]]
  BY DEF InsertPost, ParentStands
<1>2. DOMAIN asking' = Members /\ Looked'
  BY Answered DEF InsertPost
<1>3. p \notin ExistingPosts
  BY <1>1 DEF NewsInv
<1> HIDE DEF r
<1>4. /\ DOMAIN posts' = ExistingPosts \cup {p}
      /\ posts'[p].group = r.group /\ posts'[p].parent = r.parent
      /\ \A q \in ExistingPosts : posts'[q] = posts[q]
  BY <1>1, <1>3
<1>5. Threaded'
  BY <1>1, <1>4 DEF NewsInv, Threaded, PostsOf, ExistingPosts,
                    ExistingGroups
<1>6. DOMAIN posts' \subseteq spent'
  BY <1>1, <1>4 DEF NewsInv
<1> QED BY <1>2, <1>4, <1>5, <1>6 DEF NewsInv, ExistingPosts

LEMMA AnswerKeeps ==
  ASSUME NewsInv, NEW m \in Members,
         PostRefused(m) \/ PostDelete(m) \/ PostDeleteGroup(m)
  PROVE  NewsInv' /\ posts' = posts
<1>1. UNCHANGED <<newsgroups, groupsMade, posts, spent>>
  BY DEF PostRefused, PostDelete, PostDeleteGroup
<1>2. DOMAIN asking' = Members /\ Looked'
  <2>1. ASSUME Answer(m)
        PROVE  DOMAIN asking' = Members /\ Looked'
    BY <2>1, Answered
  <2>2. ASSUME PostDelete(m)
        PROVE  DOMAIN asking' = Members /\ Looked'
    <3>1. PICK r : r.stage = "group" /\ asking' = [asking EXCEPT ![m] = r]
      BY <2>2 DEF PostDelete
    <3> QED BY <3>1, AskingMoves
  <2>3. ASSUME PostDeleteGroup(m), ~Answer(m)
        PROVE  DOMAIN asking' = Members /\ Looked'
    <3>1. PICK r : /\ r.moderate => m \in Moderators
                   /\ asking' = [asking EXCEPT ![m] = r]
      BY <2>3 DEF PostDeleteGroup
    <3> QED BY <3>1, AskingMoves
  <2> QED BY <2>1, <2>2, <2>3 DEF PostRefused
<1> QED BY <1>1, <1>2 DEF NewsInv, Threaded, PostsOf, ExistingPosts,
                          ExistingGroups

LEMMA DeletePostKeeps ==
  ASSUME NewsInv, NEW m \in Members, DeletePost(m)
  PROVE  /\ NewsInv'
         /\ asking[m].stage = "delete" /\ asking'[m].stage # "delete"
         /\ \A p \in ExistingPosts \ DOMAIN posts' :
              \/ posts[p].author = m
              \/ m \in Moderators /\ asking[m].moderate
<1> DEFINE r == asking[m]
           gone == {r.post} \cup Beneath(r.post)
<1>1. /\ r.stage = "delete" /\ Answer(m)
      /\ UNCHANGED <<newsgroups, groupsMade, spent>>
  BY DEF DeletePost
<1>2. DOMAIN asking' = Members /\ Looked' /\ asking'[m].stage # "delete"
  BY <1>1, Answered
<1>3. CASE posts' = posts
  BY <1>1, <1>2, <1>3 DEF NewsInv, Threaded, PostsOf, ExistingPosts,
                          ExistingGroups
<1>4. CASE /\ r.post \in ExistingPosts /\ posts' = Without(gone)
           /\ \/ r.moderate
              \/ posts[r.post].author = m /\ OnlyOwnWords(r.post, m)
  <2>1. \A q \in ExistingPosts : posts[q].parent \in gone => q \in gone
    BY BeneathIsClosed
  <2>2. \A p \in gone :
          \/ posts[p].author = m
          \/ m \in Moderators /\ r.moderate
    BY <1>1, <1>4 DEF NewsInv, Looked, OnlyOwnWords
  <2>3. \A q \in ExistingPosts : posts[q].group \in DOMAIN newsgroups'
    BY <1>1 DEF NewsInv, Threaded, ExistingGroups
  <2> HIDE DEF gone
  <2>4. Threaded' /\ DOMAIN posts' = ExistingPosts \ gone
    BY <1>4, <2>1, <2>3, ThreadedWithout
  <2>5. NewsInv'
    BY <1>1, <1>2, <2>4 DEF NewsInv, ExistingPosts
  <2> QED BY <1>1, <1>2, <2>2, <2>4, <2>5
<1> QED BY <1>3, <1>4 DEF DeletePost

(* What a step takes away, and that it leaves the threads whole.           *)
Owns(p) ==
  \/ posts[p].group \notin DOMAIN newsgroups'
  \/ \E m \in Members :
       /\ asking[m].stage = "delete" /\ asking'[m].stage # "delete"
       /\ \/ posts[p].author = m
          \/ m \in Moderators /\ asking[m].moderate

LEMMA NewsStep ==
  ASSUME NewsInv, [NewsNext]_newsVars
  PROVE  /\ NewsInv'
         /\ \A p \in ExistingPosts \ DOMAIN posts' : Owns(p)
<1>1. CASE UNCHANGED newsVars
  BY <1>1 DEF newsVars, NewsInv, Threaded, Looked, PostsOf, ExistingPosts,
              ExistingGroups
<1>2. ASSUME NEW m \in Members, CreateGroup(m) \/ UpdateGroup(m)
      PROVE  NewsInv' /\ posts' = posts
  BY <1>2, GroupStepKeeps DEF CreateGroup, UpdateGroup
<1>3. ASSUME NEW m \in Members, PostCreate(m)
      PROVE  NewsInv' /\ posts' = posts
  BY <1>3, PostCreateKeeps DEF PostCreate
<1>4. ASSUME NEW m \in Members, DeletePost(m)
      PROVE  NewsInv' /\ \A p \in ExistingPosts \ DOMAIN posts' : Owns(p)
  BY <1>4, DeletePostKeeps DEF Owns
<1>5. ASSUME NEW m \in Members, DeleteGroup(m)
      PROVE  NewsInv' /\ \A p \in ExistingPosts \ DOMAIN posts' : Owns(p)
  BY <1>5, DeleteGroupKeeps DEF Owns
<1>6. posts' = posts \/ ExistingPosts \subseteq DOMAIN posts' =>
        \A p \in ExistingPosts \ DOMAIN posts' : Owns(p)
  BY DEF ExistingPosts
<1> QED BY <1>1, <1>2, <1>3, <1>4, <1>5, <1>6, InsertPostKeeps, AnswerKeeps
        DEF NewsNext, newsVars

LEMMA NewsHolds == NewsSpec => []NewsInv
<1>1. NewsInit => NewsInv
  BY DEF NewsInit, NewsInv, Threaded, Looked, ExistingPosts, Quiet
<1> QED BY <1>1, NewsStep, PTL DEF NewsSpec

(* However the steps of the handlers fall, a reply stands below a post of  *)
(* its own group and a list names no parent it leaves out (insert_post,    *)
(* ON DELETE CASCADE, recent_posts).                                       *)
THEOREM ThreadsHangTogether == NewsSpec => []ThreadsWhole
<1>1. NewsInv => ThreadsWhole
  <2> SUFFICES ASSUME NewsInv
               PROVE  ThreadsWhole
    OBVIOUS
  <2>1. ASSUME NEW g \in ExistingGroups, NEW e \in ReplyWindow(g),
               e.parent # NoPost
        PROVE  \E f \in ReplyWindow(g) : f.id = e.parent
    <3>1. PICK p \in RecentPosts(g) :
            e = [id |-> p, parent |-> IF posts[p].parent \in RecentPosts(g)
                                      THEN posts[p].parent ELSE NoPost]
      BY <2>1 DEF ReplyWindow
    <3>2. e.parent \in RecentPosts(g)
      BY <2>1, <3>1
    <3> DEFINE Shown(q) == IF posts[q].parent \in RecentPosts(g)
                           THEN posts[q].parent ELSE NoPost
               f == [id |-> e.parent, parent |-> Shown(e.parent)]
    <3>3. f \in ReplyWindow(g)
      BY <3>2 DEF ReplyWindow
    <3> QED BY <3>3
  <2> QED BY <2>1 DEF NewsInv, Threaded, ThreadsWhole
<1> QED BY <1>1, NewsHolds, PTL

(* Nobody but a moderator takes down the words of another, however long    *)
(* ago its handler looked the post and the group up (delete_own_post).     *)
THEOREM NobodySilencesOthers == NewsSpec => OwnWordsOnly
<1>1. NewsInv /\ [NewsNext]_newsVars =>
        [\A p \in ExistingPosts \ DOMAIN posts' : Owns(p)]_newsVars
  BY NewsStep
<1> QED BY <1>1, NewsHolds, PTL DEF NewsSpec, OwnWordsOnly, Owns

---------------------------------------------------------------------------
(* AccountPolicy, for any accounts, people, privileges, roles and requests, *)
(* and any number of them at once.                                         *)

(* An account that administers, without its roles and grants: the class    *)
(* Admin has every privilege, so only a revoke can take a core one away.   *)
Rules(a) == a \in exists /\ class[a] = Admin /\ revoked[a] \cap AdminCore = {}

(* What a handler has been allowed to do is in range, and an update keeps  *)
(* an administrator if it is written now.                                  *)
Pending(k) ==
  LET q == req[k] IN
  pc[k] = "allowed" =>
    /\ lock = k
    /\ q.op \in {"create", "update", "reset", "assign", "unassign"}
         => q.target \in Accounts
    /\ q.op \in {"role_create", "role_update", "assign", "unassign"}
         => q.role \in Roles
    /\ q.op = "create" => q.target \notin exists
    /\ q.op = "update" => KeepsAnAdministrator(q.target, q.input)

(* The inductive invariant.                                                *)
PolicyInv == PolicyTypeOK /\ LastAdmin /\ \A k \in People : Pending(k)

(* Administering is Rules, now and after an update.                        *)
LEMMA AdminsRule ==
  ASSUME PolicyTypeOK, NEW a \in Accounts
  PROVE  /\ Administers(a) <=> Rules(a)
         /\ \A i \in InputType :
              StillAdministers(a, i)
                <=> i.class = Admin /\ i.revoked \cap AdminCore = {}
<1>1. AdminCore \subseteq Privs /\ AdminCore \cap {} = {}
  BY PolicyConstants
<1>2. ASSUME NEW minus \in SUBSET Privs, NEW plus, NEW viaRoles
      PROVE  AdminCore
               \subseteq EffectivePrivileges(Admin, viaRoles, plus, minus)
               <=> minus \cap AdminCore = {}
  BY <1>1 DEF EffectivePrivileges, ClassPrivileges
<1>3. Administers(a) <=> Rules(a)
  <2>1. revoked[a] \in SUBSET Privs
    BY DEF PolicyTypeOK
  <2> QED BY <2>1, <1>2 DEF Administers, Rules, Effective
<1>4. ASSUME NEW i \in InputType
      PROVE  StillAdministers(a, i)
                <=> i.class = Admin /\ i.revoked \cap AdminCore = {}
  <2>1. i.revoked \in SUBSET Privs
    BY DEF InputType
  <2> QED BY <2>1, <1>2 DEF StillAdministers
<1> QED BY <1>3, <1>4

(* A request is what it was put together from.                             *)
LEMMA RequestFields ==
  ASSUME NEW op \in OpNames, NEW a \in Accounts \cup {NoOne},
         NEW r \in Roles \cup {NoOne}, NEW i \in InputType, NEW n \in Nat
  PROVE  LET q == Request(op, a, r, i, n) IN
         q \in RequestType /\ q.op = op /\ q.target = a /\ q.role = r
  BY DEF Request, RequestType, Guest, Admin

(* What a client may ask for is in range.                                  *)
LEMMA RequestsTyped ==
  ASSUME PolicyTypeOK, NEW q \in Requests
  PROVE  /\ q \in RequestType
         /\ q.op \in {"create", "update", "reset", "assign", "unassign"}
              => q.target \in Accounts
         /\ q.op \in {"role_create", "role_update", "assign", "unassign"}
              => q.role \in Roles
<1> USE PolicyConstants
<1>a. server.inputs \subseteq InputType
  BY DEF PolicyTypeOK, ServerType
<1>0. NoInput \in InputType
  BY DEF InputType, NoInput, Grant, Guest, Admin
<1>1. CASE q \in AccountRequests
  BY <1>a, <1>1, RequestFields DEF AccountRequests, OpNames
<1>2. CASE q \in RoleRequests
  <2>1. PICK op \in {"role_create", "role_update"}, r \in Roles,
               i \in server.inputs :
             q = Request(op, NoOne, r, Grant(i.granted), 0)
    BY <1>2 DEF RoleRequests
  <2>2. i.granted \in SUBSET Privs
    BY <1>a DEF InputType
  <2>3. Grant(i.granted) \in InputType
    BY <2>2 DEF InputType, Grant, Guest, Admin
  <2> QED BY <2>1, <2>3, RequestFields DEF OpNames
<1>3. CASE q \in DeleteRequests
  BY <1>0, <1>3, RequestFields DEF DeleteRequests, OpNames
<1>4. CASE q \in AssignRequests
  <2>1. PICK op \in {"assign", "unassign"}, a \in Accounts, r \in Roles :
             q = Request(op, a, r, NoInput, 0)
    BY <1>4 DEF AssignRequests
  <2> QED BY <1>0, <2>1, RequestFields DEF OpNames
<1>5. CASE q \in NameRequests
  BY <1>0, <1>5, RequestFields DEF NameRequests, OpNames
<1>6. CASE q \in BanRequests
  BY <1>0, <1>6, RequestFields DEF BanRequests, OpNames
<1> QED BY <1>1, <1>2, <1>3, <1>4, <1>5, <1>6 DEF Requests

(* The server starts with an administrator and nothing pending.            *)
LEMMA StartsSound == PolicyInit => PolicyInv
<1> SUFFICES ASSUME PolicyInit PROVE PolicyInv
  OBVIOUS
<1> USE DEF PolicyInit
<1>0. /\ server \in ServerType
      /\ \A k \in People : server.own[k] \in server.exists
  BY PolicyConstants
<1>0a. /\ exists \in SUBSET Accounts /\ roles \in SUBSET Roles
       /\ class \in [Accounts -> Guest..Admin]
       /\ granted \in [Accounts -> SUBSET Privs]
       /\ revoked \in [Accounts -> SUBSET Privs]
       /\ holds \in [Accounts -> SUBSET Roles]
       /\ grants \in [Roles -> SUBSET Privs]
  BY <1>0 DEF ServerType
<1>1. \A a \in server.exists : /\ class[a] \in Guest..Admin
                               /\ Effective(a) \in SUBSET Privs
  BY <1>0a DEF Effective, EffectivePrivileges, ClassPrivileges,
     RolePrivileges
<1>2. session \in [People -> [account : Accounts, class : Guest..Admin,
                              privs : SUBSET Privs]]
  BY <1>0, <1>0a, <1>1 DEF Snapshot
<1>3. NoBan \in [until : Nat, by : Accounts \cup {NoOne}, rank : Guest..Admin]
  BY DEF NoBan, Guest, Admin
<1>4. NoRequest \in RequestType
  <2>1. NoInput \in InputType
    BY DEF InputType, NoInput, Grant, Guest, Admin
  <2> QED BY <2>1, RequestFields DEF NoRequest, OpNames
<1>5. PolicyTypeOK
  <2>1. knows \in [People -> SUBSET Accounts]
    BY <1>0, <1>0a
  <2> QED BY <1>0a, <1>2, <1>3, <1>4, <2>1 DEF PolicyTypeOK
<1>6. PICK a \in server.exists :
        server.class[a] = Admin /\ server.revoked[a] \cap AdminCore = {}
  BY PolicyConstants
<1>7. a \in Accounts /\ Rules(a)
  BY <1>0a, <1>6 DEF Rules
<1>8. LastAdmin
  BY <1>5, <1>7, AdminsRule DEF LastAdmin
<1> QED BY <1>5, <1>8 DEF PolicyInv, Pending

(* Where accounts and grants stay in range, so does a login's snapshot.    *)
LEMMA SnapshotTyped ==
  ASSUME PolicyTypeOK, NEW a \in Accounts
  PROVE  Snapshot(a) \in [account : Accounts, class : Guest..Admin,
                          privs : SUBSET Privs]
<1>1. Effective(a) \in SUBSET Privs
  BY DEF Effective, EffectivePrivileges, ClassPrivileges, RolePrivileges,
         PolicyTypeOK
<1> QED BY <1>1 DEF Snapshot, PolicyTypeOK

(* set_ranked stores a ban.                                                *)
LEMMA BanTyped ==
  ASSUME PolicyTypeOK, NEW a \in Accounts \cup {NoOne}, NEW until \in Nat,
         NEW by \in Accounts, NEW rank \in Guest..Admin
  PROVE  SetRanked(a, until, by, rank) \in
           [Accounts -> [until : Nat, by : Accounts \cup {NoOne},
                         rank : Guest..Admin]]
  BY DEF SetRanked, PolicyTypeOK, Guest, Admin

(* A step keeps every variable in range.                                   *)
LEMMA PolicyTypeStep == PolicyInv /\ [PolicyNext]_policyVars => PolicyTypeOK'
<1> SUFFICES ASSUME PolicyInv, [PolicyNext]_policyVars PROVE PolicyTypeOK'
  OBVIOUS
<1> USE DEF PolicyInv
<1> DEFINE Bans == [until : Nat, by : Accounts \cup {NoOne},
                    rank : Guest..Admin]
           Sessions == [account : Accounts, class : Guest..Admin,
                        privs : SUBSET Privs]
<1>0. NoRequest \in RequestType
  <2>1. NoInput \in InputType
    BY DEF InputType, NoInput, Grant, Guest, Admin
  <2> QED BY <2>1, RequestFields DEF NoRequest, OpNames
<1>1. ASSUME NEW k \in People, Finish(k)
      PROVE  /\ pc' \in [People -> {"idle", "allowed", "banning"}]
             /\ req' \in [People -> RequestType]
             /\ lock' \in People \cup {Free}
             /\ session' \in [People -> Sessions]
             /\ now' \in Nat /\ made' \in Nat /\ server' \in Servers
  BY <1>0, <1>1 DEF Finish, PolicyTypeOK
<1>2. ASSUME NEW k \in People, NEW a \in Accounts, LogIn(k, a)
      PROVE  PolicyTypeOK'
  BY <1>2, SnapshotTyped DEF LogIn, accountVars, roleVars, PolicyTypeOK
<1>3. ASSUME NEW k \in People, NEW q \in Requests, Authorize(k, q)
      PROVE  PolicyTypeOK'
  BY <1>3, RequestsTyped DEF Authorize, accountVars, roleVars, PolicyTypeOK
<1>4. ASSUME NEW k \in People, NEW q \in Requests, AuthorizeBan(k, q)
      PROVE  PolicyTypeOK'
  <2>1. Actor(k).class \in Guest..Admin
    BY DEF Actor, PolicyTypeOK
  <2>2. [q EXCEPT !.rank = Actor(k).class] \in RequestType
    BY <2>1, RequestsTyped DEF RequestType
  <2> QED BY <1>4, <2>2 DEF AuthorizeBan, accountVars, roleVars, PolicyTypeOK
<1>5. ASSUME NEW k \in People, WriteAccount(k) PROVE PolicyTypeOK'
  <2>1. /\ req[k].target \in Accounts
        /\ req[k].input \in InputType
    BY <1>5 DEF WriteAccount, Pending, PolicyTypeOK, RequestType
  <2> QED BY <1>1, <1>5, <2>1 DEF WriteAccount, InputType, roleVars,
       PolicyTypeOK
<1>6. ASSUME NEW k \in People, WritePassword(k) PROVE PolicyTypeOK'
  <2>1. knows' \in [People -> SUBSET Accounts]
    BY <1>6 DEF WritePassword, PolicyTypeOK, Pending
  <2> QED BY <1>1, <1>6, <2>1 DEF WritePassword, accountVars, roleVars,
       PolicyTypeOK
<1>7. ASSUME NEW k \in People, WriteRole(k) PROVE PolicyTypeOK'
  <2>1. /\ req[k].role \in Roles
        /\ req[k].input.granted \in SUBSET Privs
    BY <1>7 DEF WriteRole, Pending, PolicyTypeOK, RequestType, InputType
  <2> QED BY <1>1, <1>7, <2>1 DEF WriteRole, accountVars, PolicyTypeOK
<1>8. ASSUME NEW k \in People, DeleteRole(k) PROVE PolicyTypeOK'
  BY <1>1, <1>8 DEF DeleteRole, accountVars, PolicyTypeOK
<1>9. ASSUME NEW k \in People, WriteAssignment(k) PROVE PolicyTypeOK'
  <2>1. req[k].role \in Roles
    BY <1>9 DEF WriteAssignment, Pending
  <2> QED BY <1>1, <1>9, <2>1 DEF WriteAssignment, accountVars, PolicyTypeOK
<1>10. ASSUME NEW k \in People, LiftBan(k) PROVE PolicyTypeOK'
  <2>1. NoBan \in Bans
    BY DEF NoBan, Guest, Admin
  <2>2. ban' \in [Accounts -> Bans]
    BY <1>10, <2>1 DEF LiftBan, PolicyTypeOK
  <2> QED BY <1>1, <1>10, <2>2 DEF LiftBan, accountVars, roleVars, PolicyTypeOK
<1>11. ASSUME NEW k \in People, PlaceBan(k) PROVE PolicyTypeOK'
  <2>1. /\ req[k].target \in Accounts \cup {NoOne}
        /\ req[k].secs \in Nat /\ req[k].rank \in Guest..Admin
        /\ session[k].account \in Accounts
    BY DEF PolicyTypeOK, RequestType
  <2>2. now + req[k].secs \in Nat
    BY <2>1 DEF PolicyTypeOK
  <2>3. ban' \in [Accounts -> Bans]
    BY <1>11, <2>1, <2>2, BanTyped DEF PlaceBan
  <2> QED BY <1>1, <1>11, <2>3 DEF PlaceBan, accountVars, roleVars,
             PolicyTypeOK
<1>12. CASE Pass
  BY <1>12 DEF Pass, accountVars, roleVars, PolicyTypeOK
<1>13. CASE UNCHANGED policyVars
  BY <1>13 DEF policyVars, accountVars, roleVars, PolicyTypeOK
<1> QED
  BY <1>2, <1>3, <1>4, <1>5, <1>6, <1>7, <1>8, <1>9, <1>10, <1>11, <1>12, <1>13
     DEF PolicyNext, PersonStep

(* Rules decides LastAdmin, in this state and in the next.                 *)
SomeoneRules == \E a \in Accounts : Rules(a)

LEMMA RulersAreAdmins == PolicyTypeOK => (LastAdmin <=> SomeoneRules)
  BY AdminsRule DEF LastAdmin, SomeoneRules

(* The same in the next state.                                            *)
LEMMA RulersAreAdminsNext == PolicyTypeOK' => (LastAdmin' <=> SomeoneRules')
  BY RulersAreAdmins, PTL

(* Whether an update keeps an administrator depends on accounts only.      *)
LEMMA KeepsByRule ==
  ASSUME PolicyTypeOK, NEW a \in Accounts, NEW i \in InputType
  PROVE  KeepsAnAdministrator(a, i) <=>
           (Rules(a) /\ ~(i.class = Admin /\ i.revoked \cap AdminCore = {})
              => \E b \in exists \ {a} : Rules(b))
<1>1. (OtherAdministrators(a) # {}) <=> (\E b \in exists \ {a} : Rules(b))
  BY DEF OtherAdministrators, Rules
<1> QED BY <1>1, AdminsRule DEF KeepsAnAdministrator

(* A handler that has been allowed to write is the only one.               *)
LEMMA OneAllowed ==
  ASSUME PolicyInv, NEW k \in People, NEW j \in People,
         pc[k] = "allowed", pc[j] = "allowed"
  PROVE  j = k
  BY DEF PolicyInv, Pending

(* A write of an account leaves an administrator: itself, if it is one     *)
(* afterwards; otherwise the one its check counted, or the one there was.  *)
LEMMA WriteKeepsAdmin ==
  ASSUME PolicyInv, PolicyTypeOK', NEW k \in People, WriteAccount(k)
  PROVE  LastAdmin'
<1> DEFINE q == req[k]
<1>1. /\ q.target \in Accounts /\ q.input \in InputType
      /\ q.op \in {"create", "update"}
      /\ q.op = "create" => q.target \notin exists
      /\ q.op = "update" => KeepsAnAdministrator(q.target, q.input)
  BY DEF PolicyInv, Pending, WriteAccount, PolicyTypeOK, RequestType
<1>2. PICK a \in Accounts : Rules(a)
  BY RulersAreAdmins DEF PolicyInv, SomeoneRules
<1>3. ASSUME NEW b \in Accounts, b # q.target PROVE Rules(b) => Rules(b)'
  BY <1>1, <1>3 DEF Rules, WriteAccount, PolicyInv, PolicyTypeOK
<1>4. CASE a # q.target
  BY <1>2, <1>3, <1>4, RulersAreAdminsNext DEF SomeoneRules
<1>5. CASE a = q.target
  <2>1. q.op = "update"
    BY <1>1, <1>2, <1>5 DEF Rules
  <2>2. CASE q.input.class = Admin /\ q.input.revoked \cap AdminCore = {}
    <3>1. Rules(a)'
      BY <1>1, <1>5, <2>2 DEF Rules, WriteAccount, PolicyInv, PolicyTypeOK
    <3> QED BY <3>1, RulersAreAdminsNext DEF SomeoneRules
  <2>3. CASE ~(q.input.class = Admin /\ q.input.revoked \cap AdminCore = {})
    <3>1. PICK b \in exists \ {a} : Rules(b)
      BY <1>1, <1>2, <1>5, <2>1, <2>3, KeepsByRule DEF PolicyInv
    <3>2. b \in Accounts
      BY DEF PolicyInv, PolicyTypeOK
    <3> QED BY <1>3, <1>5, <3>1, <3>2, RulersAreAdminsNext DEF SomeoneRules
  <2> QED BY <2>2, <2>3
<1> QED BY <1>4, <1>5

(* No step takes the last administrator away.                              *)
LEMMA AdminStep == PolicyInv /\ [PolicyNext]_policyVars => LastAdmin'
<1> SUFFICES ASSUME PolicyInv, [PolicyNext]_policyVars PROVE LastAdmin'
  OBVIOUS
<1>1. PolicyTypeOK'
  BY PolicyTypeStep
<1>2. CASE \E k \in People : WriteAccount(k)
  BY <1>1, <1>2, WriteKeepsAdmin
<1>3. CASE UNCHANGED accountVars
  BY <1>1, <1>3, RulersAreAdmins, RulersAreAdminsNext
     DEF PolicyInv, accountVars, SomeoneRules, Rules
<1> QED
  BY <1>2, <1>3 DEF PolicyNext, PersonStep, LogIn, Authorize, AuthorizeBan,
     WritePassword, WriteRole, DeleteRole, WriteAssignment, LiftBan, PlaceBan,
     Pass, policyVars

(* A step leaves what other handlers may do as it was: only the handler    *)
(* that holds the lock writes accounts.                                    *)
LEMMA PendingStep ==
  PolicyInv /\ [PolicyNext]_policyVars => \A k \in People : Pending(k)'
<1> SUFFICES ASSUME PolicyInv, [PolicyNext]_policyVars,
                        NEW j \in People, pc'[j] = "allowed"
             PROVE  Pending(j)'
  BY DEF Pending
<1>0. PolicyTypeOK' /\ PolicyTypeOK
  BY PolicyTypeStep DEF PolicyInv
<1>1. ASSUME NEW k \in People, NEW q \in Requests, Authorize(k, q)
      PROVE  Pending(j)'
  <2>1. j = k
    BY <1>0, <1>1, PolicyConstants DEF Authorize, PolicyInv, Pending,
       PolicyTypeOK
  <2>2. /\ lock' = k /\ req'[k] = q /\ UNCHANGED <<accountVars, roleVars>>
        /\ Permits(Actor(k), q)
    BY <1>0, <1>1 DEF Authorize, PolicyTypeOK
  <2>3. /\ q.op = "create" => q.target \notin exists
        /\ q.op = "update" => KeepsAnAdministrator(q.target, q.input)
    BY <2>2 DEF Permits, MayCreate, MayUpdate
  <2>4. q.op = "update" => KeepsAnAdministrator(q.target, q.input)'
    BY <2>2, <2>3 DEF KeepsAnAdministrator, Administers, StillAdministers,
       OtherAdministrators, Effective, RolePrivileges, accountVars, roleVars
  <2> QED BY <1>0, <2>1, <2>2, <2>3, <2>4, RequestsTyped DEF Pending,
       accountVars
<1>2. ASSUME NEW k \in People, pc[k] = "allowed", Finish(k)
      PROVE  Pending(j)'
  <2>1. j # k
    BY <1>0, <1>2 DEF Finish, PolicyTypeOK
  <2>2. pc[j] = "allowed"
    BY <1>0, <1>2, <2>1 DEF Finish, PolicyTypeOK
  <2> QED BY <1>2, <2>1, <2>2, OneAllowed
<1>3. ASSUME lock' = lock, UNCHANGED <<accountVars, roleVars>>,
             pc[j] = "allowed",
             req'[j] = req[j]
      PROVE  Pending(j)'
  BY <1>3 DEF Pending, PolicyInv, KeepsAnAdministrator, Administers,
     StillAdministers, OtherAdministrators, Effective, RolePrivileges,
     accountVars, roleVars
<1>4. ASSUME NEW k \in People, PlaceBan(k) PROVE Pending(j)'
  <2>1. j # k /\ pc[j] = "allowed" /\ req'[j] = req[j]
    BY <1>0, <1>4 DEF PlaceBan, Finish, PolicyTypeOK
  <2>2. lock = j
    BY <2>1 DEF PolicyInv, Pending
  <2> QED BY <1>3, <1>4, <2>1, <2>2 DEF PlaceBan, Finish
<1>5. ASSUME NEW k \in People, NEW q \in Requests, AuthorizeBan(k, q)
      PROVE  Pending(j)'
  <2>1. j # k /\ pc[j] = "allowed" /\ req'[j] = req[j]
    BY <1>0, <1>5 DEF AuthorizeBan, PolicyTypeOK
  <2> QED BY <1>3, <1>5, <2>1 DEF AuthorizeBan
<1>6. ASSUME NEW k \in People, NEW a \in Accounts, LogIn(k, a)
      PROVE  Pending(j)'
  BY <1>3, <1>6 DEF LogIn
<1>7. CASE Pass \/ UNCHANGED policyVars
  BY <1>3, <1>7 DEF Pass, policyVars
<1> QED
  BY <1>1, <1>2, <1>4, <1>5, <1>6, <1>7 DEF PolicyNext, PersonStep,
     WriteAccount, WritePassword, WriteRole, DeleteRole, WriteAssignment, LiftBan

(* The invariant is inductive.                                             *)
LEMMA PolicyInvHolds == PolicySpec => []PolicyInv
<1>1. PolicyInv /\ [PolicyNext]_policyVars => PolicyInv'
  BY PolicyTypeStep, AdminStep, PendingStep DEF PolicyInv
<1> QED BY <1>1, StartsSound, PTL DEF PolicySpec

(* policy.rs, "Last admin": whatever is asked for at the same time, there  *)
(* is always an Admin-class account with USER_ADMIN and SERVER_ADMIN.      *)
THEOREM AlwaysAnAdministrator == PolicySpec => []LastAdmin
<1>1. PolicyInv => LastAdmin
  BY DEF PolicyInv
<1> QED BY <1>1, PolicyInvHolds, PTL

(* Accounts, roles, bans and the requests under way keep their types.      *)
THEOREM PolicyTyped == PolicySpec => []PolicyTypeOK
<1>1. PolicyInv => PolicyTypeOK
  BY DEF PolicyInv
<1> QED BY <1>1, PolicyInvHolds, PTL
---------------------------------------------------------------------------
(* Bans.                                                                   *)

(* policy.rs, "a lower rank can never undo a higher rank's ban": remove_ban*)
(* checks the rank of the ban it deletes, and set_ranked shortens one only *)
(* for a higher rank or its own banner.  The rank is the one on record and *)
(* that of the writer, for a new ban the one its request was decided with. *)
THEOREM BansAreRanked == PolicySpec => RankedBans
<1> DEFINE Justified(a) ==
      InForce(a) /\ ban'[a].until < ban[a].until =>
        \E k \in People :
          /\ pc[k] # "idle" /\ pc'[k] = "idle" /\ req[k].target = a
          /\ \/ req[k].op = "unban" /\ Rank(k) = Admin
             \/ Rank(k) > ban[a].rank
             \/ ban[a].by = session[k].account /\ Rank(k) >= ban[a].rank
<1>1. ASSUME PolicyInv, [PolicyNext]_policyVars, NEW a \in Accounts
      PROVE  Justified(a)
  <2> SUFFICES ASSUME InForce(a), ban'[a].until < ban[a].until
               PROVE  Justified(a)
    OBVIOUS
  <2>1. /\ ban \in [Accounts -> [until : Nat, by : Accounts \cup {NoOne},
                                 rank : Guest..Admin]]
        /\ pc \in [People -> {"idle", "allowed", "banning"}]
        /\ now \in Nat
        /\ \A k \in People : Actor(k).class \in Guest..Admin
        /\ \A k \in People : req[k].secs \in Nat /\ req[k].rank \in Guest..Admin
    BY <1>1 DEF PolicyInv, PolicyTypeOK, Actor, RequestType
  <2>2. CASE UNCHANGED ban
    BY <2>1, <2>2
  <2>3. ASSUME NEW k \in People, LiftBan(k) PROVE Justified(a)
    <3>1. pc[k] = "allowed" /\ pc'[k] = "idle" /\ Rank(k) = Actor(k).class
      BY <2>1, <2>3 DEF LiftBan, Finish, Rank
    <3>2. req[k].target = a /\ MayLiftBan(Actor(k), ban[a])
      BY <2>1, <2>3 DEF LiftBan
    <3>3. Actor(k).name = session[k].account
      BY DEF Actor
    <3> QED BY <2>3, <3>1, <3>2, <3>3 DEF MayLiftBan, LiftBan
  <2>4. ASSUME NEW k \in People, PlaceBan(k) PROVE Justified(a)
    <3> DEFINE by == session[k].account
               rank == req[k].rank
               until == now + req[k].secs
               old == ban[a]
    <3>1. pc[k] = "banning" /\ pc'[k] = "idle" /\ Rank(k) = rank
      BY <2>1, <2>4 DEF PlaceBan, Finish, Rank
    <3>2. req[k].target = a
      BY <2>1, <2>4 DEF PlaceBan, SetRanked
    <3>3. ban'[a].until = IF rank > old.rank \/ (by = old.by /\ rank >= old.rank)
                          THEN until
                          ELSE IF old.until > until THEN old.until ELSE until
      BY <1>1, <2>1, <2>4, <3>2 DEF PlaceBan, SetRanked
    <3>4. rank > old.rank \/ (by = old.by /\ rank >= old.rank)
      BY <2>1, <3>3
    <3> QED BY <2>4, <3>1, <3>2, <3>4
  <2>5. ASSUME NEW k \in People, PersonStep(k), ~LiftBan(k), ~PlaceBan(k)
        PROVE  UNCHANGED ban
    BY <2>5 DEF PersonStep, LogIn, Authorize, AuthorizeBan, WriteAccount,
       WritePassword, WriteRole, DeleteRole, WriteAssignment
  <2>6. Pass \/ UNCHANGED policyVars => UNCHANGED ban
    BY DEF Pass, policyVars
  <2> QED BY <1>1, <2>2, <2>3, <2>4, <2>5, <2>6 DEF PolicyNext
<1>2. PolicyInv /\ [PolicyNext]_policyVars
        => [\A a \in Accounts : Justified(a)]_policyVars
  BY <1>1
<1> QED BY <1>2, PolicyInvHolds, PTL DEF PolicySpec, RankedBans

---------------------------------------------------------------------------
(* Delegates.                                                              *)

AtMostSomeone(c) == \E k \in People : c <= server.class[server.own[k]]

(* What an account can do is what it could at the start or what some       *)
(* delegate could, and no override hides more from it; whoever is new or   *)
(* was raised is below somebody.                                           *)
Clean(a) ==
  /\ a \notin exists => holds[a] = {}
  /\ RolePrivileges(a) \cap revoked[a] \subseteq Pool
  /\ a \in exists =>
       /\ a \notin server.exists \/ class[a] > server.class[a]
            => BelowSomeone(class[a])
       /\ a \in server.exists =>
            Effective(a) \subseteq InitialEffective(a) \cup Pool
       /\ a \notin server.exists => Effective(a) \subseteq Pool

(* The accounts people know, and the sessions they have, are theirs to     *)
(* have.                                                                   *)
Known(k, a) ==
  /\ a \in exists /\ AtMostSomeone(class[a]) /\ Effective(a) \subseteq Pool
  /\ a # server.own[k] => BelowSomeone(class[a])

Trusted(k) ==
  /\ AtMostSomeone(session[k].class) /\ session[k].privs \subseteq Pool
  /\ \A a \in knows[k] : Known(k, a)

(* What a delegate was allowed to write gives nobody more than that.       *)
Intends(k) ==
  LET q == req[k] IN
  pc[k] = "allowed" =>
    /\ q.op \in {"create", "update"} =>
         /\ BelowSomeone(q.input.class) /\ q.input.granted \subseteq Pool
         /\ RolePrivileges(q.target) \subseteq Pool
    /\ q.op \in {"role_create", "role_update"} =>
         q.input.granted \subseteq Pool
    /\ q.op = "assign" => q.target \in exists /\ grants[q.role] \subseteq Pool
    /\ q.op = "reset" =>
         /\ q.target \in exists /\ BelowSomeone(class[q.target])
         /\ Effective(q.target) \subseteq Pool

DelegateInv ==
  /\ \A a \in Accounts : Clean(a)
  /\ \A k \in People : Trusted(k) /\ Intends(k)

(* The roles of an account are a union.                                    *)
LEMMA InRoles ==
  ASSUME NEW a, NEW x
  PROVE  x \in RolePrivileges(a) <=> \E r \in holds[a] : x \in grants[r]
  BY DEF RolePrivileges

(* NoOne who is no Admin has the class's privileges.                      *)
LEMMA EffectiveIs ==
  ASSUME NEW a
  PROVE  /\ class[a] # Admin =>
              Effective(a) = (RolePrivileges(a) \cup granted[a]) \ revoked[a]
         /\ RolePrivileges(a) \subseteq
              Effective(a) \cup (RolePrivileges(a) \cap revoked[a])
  BY DEF Effective, EffectivePrivileges, ClassPrivileges

(* Delegates are no Admins.                                                *)
LEMMA NoAdmin ==
  ASSUME PolicyTypeOK, Delegated, NEW c \in Guest..Admin, AtMostSomeone(c)
  PROVE  c # Admin /\ \A d \in Guest..Admin : d < c => BelowSomeone(d)
<1>1. PICK k \in People : c <= server.class[server.own[k]]
  BY DEF AtMostSomeone
<1>2. server.class[server.own[k]] \in Guest..Admin
  BY PolicyConstants DEF PolicyTypeOK, ServerType
<1>3. server.class[server.own[k]] < Admin
  BY DEF Delegated
<1> QED BY <1>1, <1>2, <1>3 DEF BelowSomeone, Guest, Admin

LEMMA BelowIsAtMost ==
  ASSUME PolicyTypeOK, NEW c \in Guest..Admin, BelowSomeone(c)
  PROVE  AtMostSomeone(c)
<1>1. PICK k \in People : c < server.class[server.own[k]]
  BY DEF BelowSomeone
<1>2. server.class[server.own[k]] \in Guest..Admin
  BY PolicyConstants DEF PolicyTypeOK, ServerType
<1> QED BY <1>1, <1>2 DEF AtMostSomeone, Guest, Admin

(* The actor of a delegate's request.                                      *)
LEMMA DelegateActs ==
  ASSUME PolicyTypeOK, Delegated, NEW k \in People, Trusted(k)
  PROVE  /\ Actor(k).class \in Guest..Admin /\ Actor(k).class # Admin
         /\ Actor(k).privs \subseteq Pool
         /\ \A d \in Guest..Admin : d < Actor(k).class => BelowSomeone(d)
<1>1. /\ session[k].class \in Guest..Admin
      /\ class[session[k].account] \in Guest..Admin
  BY DEF PolicyTypeOK
<1>2. /\ Actor(k).class \in Guest..Admin
      /\ Actor(k).class <= session[k].class
      /\ Actor(k).privs \subseteq session[k].privs
  BY <1>1 DEF Actor, Guest, Admin
<1>3. /\ session[k].class # Admin
      /\ \A d \in Guest..Admin : d < session[k].class => BelowSomeone(d)
  BY <1>1, NoAdmin DEF Trusted
<1> QED BY <1>1, <1>2, <1>3 DEF Trusted, Guest, Admin

(* Whom a delegate may manage is below somebody and can do no more than    *)
(* the delegates can.                                                      *)
LEMMA DelegateManages ==
  ASSUME PolicyTypeOK, Delegated, NEW k \in People, Trusted(k),
         NEW a \in Accounts, MayManage(Actor(k), a), Clean(a)
  PROVE  /\ a \in exists /\ BelowSomeone(class[a])
         /\ Effective(a) \subseteq Pool /\ RolePrivileges(a) \subseteq Pool
<1>1. class[a] \in Guest..Admin
  BY DEF PolicyTypeOK
<1>2. BelowSomeone(class[a]) /\ Effective(a) \subseteq Pool
  BY <1>1, DelegateActs DEF MayManage
<1> QED BY <1>2, EffectiveIs DEF MayManage, Clean

(* The server's setup does not change.                                     *)
LEMMA SameServer ==
  ASSUME server' = server
  PROVE  /\ Pool' = Pool /\ (Delegated' <=> Delegated)
         /\ \A c : (BelowSomeone(c) <=> BelowSomeone(c)')
                   /\ (AtMostSomeone(c) <=> AtMostSomeone(c)')
         /\ \A a : InitialEffective(a) = InitialEffective(a)'
  BY DEF Pool, Delegated, BelowSomeone, AtMostSomeone, InitialEffective,
         InitialRolePrivileges

(* Where accounts and roles stay as they are,                              *)
LEMMA Unwritten ==
  ASSUME UNCHANGED <<accountVars, roleVars, server>>
  PROVE  /\ \A a \in Accounts : Clean(a) => Clean(a)'
         /\ \A k \in People, a \in Accounts : Known(k, a) => Known(k, a)'
         /\ \A a : Effective(a)' = Effective(a)
                   /\ RolePrivileges(a)' = RolePrivileges(a)
<1>1. \A a : Effective(a)' = Effective(a) /\ RolePrivileges(a)' = RolePrivileges(a)
  BY DEF Effective, RolePrivileges, accountVars, roleVars
<1> QED BY <1>1, SameServer DEF Clean, Known, accountVars, roleVars

(* or roles only gain what the delegates have,                             *)
LEMMA RolesWithin ==
  ASSUME UNCHANGED <<accountVars, server>>,
         \A a \in Accounts : /\ RolePrivileges(a)' \subseteq RolePrivileges(a) \cup Pool
                             /\ a \notin exists /\ holds[a] = {} => holds'[a] = {}
  PROVE  /\ \A a \in Accounts : Clean(a) => Clean(a)'
         /\ \A k \in People, a \in Accounts : Known(k, a) => Known(k, a)'
<1>1. ASSUME NEW a \in Accounts
      PROVE  Effective(a)' \subseteq Effective(a) \cup Pool
  BY DEF Effective, EffectivePrivileges, accountVars
<1> QED BY <1>1, SameServer DEF Clean, Known, accountVars

(* nothing is lost: the sessions stay, and whoever may still write was     *)
(* allowed to already.                                                     *)
LEMMA StillTrusted ==
  ASSUME PolicyTypeOK, DelegateInv, NEW k \in People,
         server' = server, session'[k] = session[k], knows'[k] \subseteq knows[k],
         \A a \in Accounts : Known(k, a) => Known(k, a)'
  PROVE  Trusted(k)'
<1>1. Trusted(k) /\ knows[k] \subseteq Accounts
  BY DEF DelegateInv, PolicyTypeOK
<1> QED BY <1>1, SameServer DEF Trusted

LEMMA NoneIntends ==
  ASSUME PolicyInv, NEW k \in People, pc[k] = "allowed", Finish(k),
         NEW j \in People
  PROVE  Intends(j)'
<1>1. pc'[j] # "allowed"
  BY OneAllowed DEF Finish, PolicyInv, PolicyTypeOK
<1> QED BY <1>1 DEF Intends

LEMMA StillIntends ==
  ASSUME DelegateInv, UNCHANGED <<accountVars, roleVars, server>>,
         NEW j \in People,
         pc'[j] = "allowed" => pc[j] = "allowed" /\ req'[j] = req[j]
  PROVE  Intends(j)'
<1>1. Intends(j)
  BY DEF DelegateInv
<1>2. \A a : Effective(a)' = Effective(a) /\ RolePrivileges(a)' = RolePrivileges(a)
  BY Unwritten
<1> QED BY <1>1, <1>2, SameServer DEF Intends, accountVars, roleVars

(* A person logs in to an account they know.                               *)
LEMMA LogInWithin ==
  ASSUME PolicyInv, DelegateInv, NEW k \in People, NEW a \in Accounts,
         LogIn(k, a)
  PROVE  DelegateInv'
<1>1. /\ UNCHANGED <<accountVars, roleVars, server>> /\ UNCHANGED <<pc, req, knows>>
      /\ a \in knows[k] /\ session' = [session EXCEPT ![k] = Snapshot(a)]
      /\ PolicyTypeOK
  BY DEF LogIn, PolicyInv
<1>2. Known(k, a)
  BY <1>1 DEF DelegateInv, Trusted
<1>3. Trusted(k)'
  <2>1. session'[k] = Snapshot(a)
    BY <1>1 DEF PolicyTypeOK
  <2>2. AtMostSomeone(session'[k].class) /\ session'[k].privs \subseteq Pool
    BY <1>2, <2>1 DEF Known, Snapshot
  <2>3. Trusted(k) /\ knows[k] \subseteq Accounts
    BY <1>1 DEF DelegateInv, PolicyTypeOK
  <2> QED BY <1>1, <2>2, <2>3, Unwritten, SameServer DEF Trusted
<1>4. ASSUME NEW j \in People PROVE Trusted(j)'
  <2>1. j # k => session'[j] = session[j]
    BY <1>1 DEF PolicyTypeOK
  <2> QED BY <1>1, <1>3, <2>1, Unwritten, StillTrusted
<1>5. ASSUME NEW j \in People PROVE Intends(j)'
  BY <1>1, StillIntends
<1>6. ASSUME NEW b \in Accounts PROVE Clean(b)'
  BY <1>1, Unwritten DEF DelegateInv
<1> QED BY <1>4, <1>5, <1>6 DEF DelegateInv

(* The checks of policy.rs confine what a delegate is allowed to write.    *)
LEMMA AuthorizeWithin ==
  ASSUME PolicyInv, Delegated, DelegateInv, NEW k \in People,
         NEW q \in Requests, Authorize(k, q)
  PROVE  DelegateInv'
<1>1. /\ UNCHANGED <<accountVars, roleVars, server>>
      /\ UNCHANGED <<session, knows>> /\ PolicyTypeOK
      /\ Permits(Actor(k), q) /\ lock = Free
      /\ pc' = [pc EXCEPT ![k] = "allowed"] /\ req' = [req EXCEPT ![k] = q]
  BY DEF Authorize, PolicyInv
<1>2. \A j \in People : pc[j] # "allowed"
  BY <1>1, PolicyConstants DEF PolicyInv, Pending
<1>3. /\ req'[k] = q /\ \A j \in People : pc'[j] = "allowed" => j = k
  BY <1>1, <1>2 DEF PolicyTypeOK
<1>4. /\ Actor(k).class \in Guest..Admin /\ Actor(k).class # Admin
      /\ Actor(k).privs \subseteq Pool
      /\ \A d \in Guest..Admin : d < Actor(k).class => BelowSomeone(d)
      /\ Trusted(k)
  BY <1>1, DelegateActs DEF DelegateInv
<1>5. q \in RequestType /\ q.input.class \in Guest..Admin
  BY <1>1, RequestsTyped DEF RequestType, InputType
<1>6. q.op \in {"create", "update"} =>
        /\ BelowSomeone(q.input.class) /\ q.input.granted \subseteq Pool
        /\ RolePrivileges(q.target) \subseteq Pool
  <2>1. CASE q.op = "create"
    <3>1. MayCreate(Actor(k), q) /\ q.target \in Accounts
      BY <1>1, <2>1, RequestsTyped DEF Permits
    <3>2. holds[q.target] = {}
      BY <3>1 DEF MayCreate, DelegateInv, Clean
    <3>3. RolePrivileges(q.target) = {}
      BY <3>2 DEF RolePrivileges
    <3> QED BY <1>4, <1>5, <3>1, <3>3 DEF MayCreate, MayAssignClass,
                                          CheckOverrides
  <2>2. CASE q.op = "update"
    <3>1. MayUpdate(Actor(k), q) /\ q.target \in Accounts
      BY <1>1, <2>2, RequestsTyped DEF Permits
    <3>2. RolePrivileges(q.target) \subseteq Pool
      BY <1>1, <1>4, <3>1, DelegateManages DEF MayUpdate, DelegateInv
    <3> QED BY <1>4, <1>5, <3>1, <3>2 DEF MayUpdate, MayAssignClass,
                                          CheckOverrides
  <2> QED BY <2>1, <2>2
<1>7. q.op \in {"role_create", "role_update"} => q.input.granted \subseteq Pool
  BY <1>1, <1>4 DEF Permits, MayCreateRole, MayEditRole
<1>8. q.op = "assign" => q.target \in exists /\ grants[q.role] \subseteq Pool
  BY <1>1, <1>4 DEF Permits, MayAssignRole, MayManage
<1>9. q.op = "reset" => /\ q.target \in exists /\ BelowSomeone(class[q.target])
                        /\ Effective(q.target) \subseteq Pool
  <2> SUFFICES ASSUME q.op = "reset"
               PROVE  /\ q.target \in exists /\ BelowSomeone(class[q.target])
                      /\ Effective(q.target) \subseteq Pool
    OBVIOUS
  <2>1. MayManage(Actor(k), q.target) /\ q.target \in Accounts
    BY <1>1, RequestsTyped DEF Permits, MayReset
  <2> QED BY <1>1, <1>4, <2>1, DelegateManages DEF DelegateInv
<1>10. ASSUME NEW j \in People PROVE Intends(j)'
  BY <1>1, <1>3, <1>6, <1>7, <1>8, <1>9, Unwritten, SameServer
     DEF Intends, accountVars, roleVars
<1>11. ASSUME NEW j \in People PROVE Trusted(j)'
  BY <1>1, Unwritten, StillTrusted
<1>12. ASSUME NEW b \in Accounts PROVE Clean(b)'
  BY <1>1, Unwritten DEF DelegateInv
<1> QED BY <1>10, <1>11, <1>12 DEF DelegateInv

LEMMA WriteAccountWithin ==
  ASSUME PolicyInv, Delegated, DelegateInv, PolicyTypeOK', NEW k \in People,
         WriteAccount(k)
  PROVE  DelegateInv'
<1>0. PICK t \in Accounts, i \in InputType :
        t = req[k].target /\ i = req[k].input
  BY DEF WriteAccount, PolicyInv, Pending, PolicyTypeOK, RequestType
<1>1. /\ PolicyTypeOK /\ pc[k] = "allowed"
      /\ UNCHANGED <<roleVars, session, server>> /\ Finish(k)
      /\ exists' = exists \cup {t} /\ class' = [class EXCEPT ![t] = i.class]
      /\ granted' = [granted EXCEPT ![t] = i.granted]
      /\ revoked' = [revoked EXCEPT ![t] = i.revoked]
      /\ \A j \in People : knows'[j] \subseteq knows[j] \cup {t}
  BY <1>0 DEF WriteAccount, PolicyInv, PolicyTypeOK, Finish
<1>2. /\ BelowSomeone(i.class) /\ i.granted \subseteq Pool
      /\ RolePrivileges(t) \subseteq Pool /\ i.class \in Guest..Admin
  BY <1>0, <1>1 DEF DelegateInv, Intends, InputType, WriteAccount
<1>3. /\ class'[t] = i.class /\ granted'[t] = i.granted
      /\ \A a \in Accounts \ {t} :
           /\ class'[a] = class[a] /\ granted'[a] = granted[a]
           /\ revoked'[a] = revoked[a]
  BY <1>1 DEF PolicyTypeOK
<1>4. \A a \in Accounts : RolePrivileges(a)' = RolePrivileges(a)
  BY <1>1 DEF RolePrivileges, roleVars
<1>5. ASSUME NEW a \in Accounts, a # t
      PROVE  Effective(a)' = Effective(a) /\ (Clean(a) => Clean(a)')
             /\ \A j \in People : Known(j, a) => Known(j, a)'
  <2>1. Effective(a)' = Effective(a)
    BY <1>3, <1>4, <1>5 DEF Effective
  <2> QED BY <1>1, <1>3, <1>4, <1>5, <2>1, SameServer
          DEF Clean, Known, roleVars
<1>6. Effective(t)' \subseteq Pool /\ AtMostSomeone(class'[t])
      /\ BelowSomeone(class'[t]) /\ t \in exists'
  <2>1. AtMostSomeone(i.class) /\ i.class # Admin
    BY <1>1, <1>2, BelowIsAtMost, NoAdmin
  <2>2. Effective(t)' \subseteq RolePrivileges(t)' \cup granted'[t]
    BY <1>3, <2>1 DEF Effective, EffectivePrivileges, ClassPrivileges
  <2> QED BY <1>1, <1>2, <1>3, <1>4, <2>1, <2>2
<1>7. Clean(t)' /\ \A j \in People : Known(j, t)'
  BY <1>1, <1>2, <1>4, <1>6, SameServer DEF Clean, Known
<1>8. ASSUME NEW a \in Accounts PROVE Clean(a)'
  BY <1>5, <1>7 DEF DelegateInv
<1>9. ASSUME NEW j \in People PROVE Trusted(j)'
  <2>1. Trusted(j) /\ \A a \in knows'[j] : a \in knows[j] \/ a = t
    BY <1>1 DEF DelegateInv
  <2>2. knows'[j] \subseteq Accounts
    BY DEF PolicyTypeOK
  <2> QED BY <1>1, <1>5, <1>7, <2>1, <2>2, SameServer DEF Trusted
<1>10. ASSUME NEW j \in People PROVE Intends(j)'
  BY <1>1, NoneIntends
<1> QED BY <1>8, <1>9, <1>10 DEF DelegateInv

LEMMA WritePasswordWithin ==
  ASSUME PolicyInv, DelegateInv, NEW k \in People, WritePassword(k)
  PROVE  DelegateInv'
<1> DEFINE t == req[k].target
<1>1. /\ PolicyTypeOK /\ pc[k] = "allowed" /\ req[k].op = "reset"
      /\ UNCHANGED <<accountVars, roleVars, session, server>> /\ Finish(k)
      /\ t \in Accounts
      /\ \A j \in People : knows'[j] \subseteq knows[j] \cup {t}
                           /\ (j # k => knows'[j] \subseteq knows[j])
  BY DEF WritePassword, PolicyInv, Pending, Finish
<1>2. t \in exists /\ BelowSomeone(class[t]) /\ Effective(t) \subseteq Pool
  BY <1>1 DEF DelegateInv, Intends
<1> HIDE DEF t
<1>3. \A j \in People : Known(j, t)
  <2>1. class[t] \in Guest..Admin
    BY <1>1 DEF PolicyTypeOK
  <2> QED BY <1>1, <1>2, <2>1, BelowIsAtMost DEF Known
<1>4. ASSUME NEW j \in People PROVE Trusted(j)'
  <2>1. Trusted(j) /\ knows[j] \subseteq Accounts
    BY <1>1 DEF DelegateInv, PolicyTypeOK
  <2> QED BY <1>1, <1>3, <2>1, Unwritten, SameServer DEF Trusted
<1>5. ASSUME NEW a \in Accounts PROVE Clean(a)'
  BY <1>1, Unwritten DEF DelegateInv
<1>6. ASSUME NEW j \in People PROVE Intends(j)'
  BY <1>1, NoneIntends
<1> QED BY <1>4, <1>5, <1>6 DEF DelegateInv

(* Roles change hands or contents.                                         *)
LEMMA RoleWritesWithin ==
  ASSUME PolicyInv, DelegateInv, NEW k \in People,
         WriteRole(k) \/ DeleteRole(k) \/ WriteAssignment(k)
  PROVE  DelegateInv'
<1> DEFINE q == req[k]
<1>1. /\ PolicyTypeOK /\ pc[k] = "allowed" /\ Finish(k)
      /\ UNCHANGED <<accountVars, session, server, knows>>
  BY DEF WriteRole, DeleteRole, WriteAssignment, PolicyInv, Finish
<1>2. ASSUME NEW a \in Accounts
      PROVE  /\ RolePrivileges(a)' \subseteq RolePrivileges(a) \cup Pool
             /\ a \notin exists /\ holds[a] = {} => holds'[a] = {}
  <2>1. CASE WriteRole(k)
    <3>1. /\ q.input.granted \subseteq Pool /\ UNCHANGED holds
          /\ \A r \in Roles : grants'[r] \subseteq grants[r] \cup Pool
      BY <1>1, <2>1 DEF WriteRole, DelegateInv, Intends, PolicyTypeOK
    <3>2. holds[a] \subseteq Roles
      BY <1>1 DEF PolicyTypeOK
    <3> QED BY <3>1, <3>2 DEF RolePrivileges
  <2>2. CASE DeleteRole(k)
    <3>1. /\ holds'[a] \subseteq holds[a] /\ holds[a] \subseteq Roles
          /\ \A r \in Roles : grants'[r] \subseteq grants[r]
      BY <1>1, <2>2 DEF DeleteRole, PolicyTypeOK
    <3> QED BY <3>1 DEF RolePrivileges
  <2>3. CASE WriteAssignment(k)
    <3>1. /\ UNCHANGED grants
          /\ \/ holds'[a] \subseteq holds[a]
             \/ /\ q.op = "assign" /\ a = q.target
                /\ holds'[a] = holds[a] \cup {q.role}
      BY <1>1, <2>3 DEF WriteAssignment, PolicyTypeOK
    <3>2. q.op = "assign" => q.target \in exists /\ grants[q.role] \subseteq Pool
      BY <1>1 DEF DelegateInv, Intends
    <3> QED BY <3>1, <3>2 DEF RolePrivileges
  <2> QED BY <2>1, <2>2, <2>3
<1>3. ASSUME NEW j \in People PROVE Trusted(j)'
  BY <1>1, <1>2, RolesWithin, StillTrusted
<1>4. ASSUME NEW a \in Accounts PROVE Clean(a)'
  BY <1>1, <1>2, RolesWithin DEF DelegateInv
<1>5. ASSUME NEW j \in People PROVE Intends(j)'
  BY <1>1, NoneIntends
<1> QED BY <1>3, <1>4, <1>5 DEF DelegateInv

(* Bans, the clock and stuttering are beside the point.                    *)
LEMMA OthersWithin ==
  ASSUME PolicyInv, DelegateInv,
         UNCHANGED <<accountVars, roleVars, session, knows, server>>,
         \A j \in People :
           pc'[j] = "allowed" => pc[j] = "allowed" /\ req'[j] = req[j]
  PROVE  DelegateInv'
<1>1. PolicyTypeOK
  BY DEF PolicyInv
<1>2. ASSUME NEW j \in People PROVE Trusted(j)'
  BY <1>1, Unwritten, StillTrusted
<1>3. ASSUME NEW j \in People PROVE Intends(j)'
  BY StillIntends
<1>4. ASSUME NEW a \in Accounts PROVE Clean(a)'
  BY Unwritten DEF DelegateInv
<1> QED BY <1>2, <1>3, <1>4 DEF DelegateInv

LEMMA DelegateStep ==
  ASSUME PolicyInv, Delegated, DelegateInv, [PolicyNext]_policyVars
  PROVE  DelegateInv'
<1>1. PolicyTypeOK /\ PolicyTypeOK'
  BY PolicyTypeStep DEF PolicyInv
<1>2. ASSUME NEW k \in People, LiftBan(k) \/ PlaceBan(k) PROVE DelegateInv'
  <2>1. /\ UNCHANGED <<accountVars, roleVars, session, knows, server>>
        /\ pc' = [pc EXCEPT ![k] = "idle"] /\ req' = [req EXCEPT ![k] = NoRequest]
    BY <1>2 DEF LiftBan, PlaceBan, Finish
  <2>2. \A j \in People :
           pc'[j] = "allowed" => pc[j] = "allowed" /\ req'[j] = req[j]
    BY <1>1, <2>1 DEF PolicyTypeOK
  <2> QED BY <2>1, <2>2, OthersWithin
<1>3. ASSUME NEW k \in People, NEW q \in Requests, AuthorizeBan(k, q)
      PROVE  DelegateInv'
  <2>1. \A j \in People :
           pc'[j] = "allowed" => pc[j] = "allowed" /\ req'[j] = req[j]
    BY <1>1, <1>3 DEF AuthorizeBan, PolicyTypeOK
  <2> QED BY <1>3, <2>1, OthersWithin DEF AuthorizeBan
<1>4. ASSUME NEW k \in People, PersonStep(k) PROVE DelegateInv'
  BY <1>1, <1>2, <1>3, <1>4, LogInWithin, AuthorizeWithin, WriteAccountWithin,
     WritePasswordWithin, RoleWritesWithin DEF PersonStep
<1>5. CASE Pass \/ UNCHANGED policyVars
  BY <1>5, OthersWithin DEF Pass, policyVars
<1> QED BY <1>4, <1>5 DEF PolicyNext

LEMMA DelegateInit ==
  ASSUME PolicyInit, Delegated
  PROVE  DelegateInv
<1>1. /\ PolicyTypeOK /\ server \in ServerType
      /\ \A k \in People : server.own[k] \in server.exists
      /\ \A a \in Accounts \ server.exists : server.holds[a] = {}
  BY StartsSound, PolicyConstants DEF PolicyInv, PolicyInit
<1>2. /\ \A a \in Accounts : /\ Effective(a) = InitialEffective(a)
                             /\ RolePrivileges(a) = InitialRolePrivileges(a)
      /\ exists = server.exists /\ class = server.class
      /\ holds = server.holds /\ revoked = server.revoked
  BY DEF PolicyInit, Effective, InitialEffective, RolePrivileges,
         InitialRolePrivileges
<1>3. ASSUME NEW a \in Accounts PROVE Clean(a)
  <2>1. a \notin exists => RolePrivileges(a) = {}
    BY <1>1, <1>2 DEF RolePrivileges
  <2>2. a \in exists => RolePrivileges(a) \cap revoked[a] = {}
    BY <1>2 DEF Delegated
  <2>3. class[a] \in Guest..Admin
    BY <1>1 DEF PolicyTypeOK
  <2> QED BY <1>1, <1>2, <2>1, <2>2, <2>3 DEF Clean, Guest, Admin
<1>4. ASSUME NEW k \in People PROVE Trusted(k) /\ Intends(k)
  <2> DEFINE a == server.own[k]
  <2>1. /\ a \in Accounts /\ a \in exists /\ Effective(a) \subseteq Pool
        /\ class[a] \in Guest..Admin
    BY <1>1, <1>2 DEF Pool, PolicyTypeOK
  <2>2. AtMostSomeone(class[a])
    BY <1>2, <2>1 DEF AtMostSomeone, Guest, Admin
  <2>3. session[k] = Snapshot(a) /\ knows[k] = {a} /\ pc[k] = "idle"
    BY DEF PolicyInit
  <2> QED BY <2>1, <2>2, <2>3 DEF Trusted, Known, Intends, Snapshot
<1> QED BY <1>3, <1>4 DEF DelegateInv

LEMMA DelegatesHold == PolicySpec => [](Delegated => DelegateInv)
<1>1. PolicyInit => (Delegated => DelegateInv)
  BY DelegateInit
<1>2. PolicyInv /\ (Delegated => DelegateInv) /\ [PolicyNext]_policyVars
        => (Delegated => DelegateInv)'
  <2> SUFFICES ASSUME PolicyInv, Delegated => DelegateInv,
                          [PolicyNext]_policyVars, Delegated'
               PROVE  DelegateInv'
    OBVIOUS
  <2>1. server' = server
    BY DEF PolicyNext, PersonStep, LogIn, Authorize, AuthorizeBan, WriteAccount,
       WritePassword, WriteRole, DeleteRole, WriteAssignment, LiftBan,
       PlaceBan, Finish, Pass, policyVars
  <2>2. Delegated
    BY <2>1, SameServer
  <2> QED BY <2>2, DelegateStep
<1> QED BY <1>1, <1>2, PolicyInvHolds, PTL DEF PolicySpec

(* policy.rs, "No minting power", "No self-escalation": what delegates do  *)
(* to accounts and roles, in any number of requests at once, raises nobody *)
(* to the highest of them and gives nobody a privilege none of them had.   *)
THEOREM PowerIsNotMinted == PolicySpec => []NoMinting
<1>1. (Delegated => DelegateInv) /\ PolicyInv => NoMinting
  BY DEF NoMinting, DelegateInv, Clean, PolicyInv, PolicyTypeOK
<1> QED BY <1>1, DelegatesHold, PolicyInvHolds, PTL

(* policy.rs, "a stronger puppet": no delegate comes to know the password  *)
(* of an account that can do what none of them can, or is not below the    *)
(* highest of them.                                                        *)
THEOREM NoPuppets == PolicySpec => []NoTakeover
<1>1. (Delegated => DelegateInv) => NoTakeover
  BY DEF NoTakeover, DelegateInv, Trusted, Known
<1> QED BY <1>1, DelegatesHold, PTL
=============================================================================
