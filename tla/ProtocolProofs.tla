--------------------------- MODULE ProtocolProofs ---------------------------
(***************************************************************************)
(* Theorems about FrameStream, for every header length, frame size, cap,   *)
(* message length and modulus of the sequence numbers, any number of       *)
(* messages and any cutting of the stream.                                 *)
(***************************************************************************)
EXTENDS FrameStream, FiniteSetTheorems, WellFoundedInduction, TLAPS

---------------------------------------------------------------------------
(* Arithmetic of frames.                                                   *)

(* Every non-empty set of naturals has a least member.                     *)
LEMMA LeastOfNats ==
  ASSUME NEW T \in SUBSET Nat, T # {}
  PROVE  \E m \in T : \A n \in T : m <= n
<1> DEFINE R == {s \in Nat \X Nat : s[1] < s[2]}
<1>1. IsWellFoundedOn(R, Nat)
  BY NatLessThanWellFounded DEF OpToRel
<1>2. PICK m \in T : \A y \in T : ~(<<y, m>> \in R)
  <2> HIDE DEF R
  <2> QED BY <1>1, WFMin
<1>3. \A y \in T : m \in Nat /\ y \in Nat /\ <<y, m>> \in Nat \X Nat
  OBVIOUS
<1>4. \A y \in T : ~(y < m)
  BY <1>2, <1>3
<1> QED BY <1>3, <1>4

(* Rounding up: the least number of pieces of size d that hold x things.   *)
LEMMA Pieces ==
  ASSUME NEW x \in Nat, NEW d \in Nat \ {0}, x > d
  PROVE  LET n == (x + d - 1) \div d
         IN n \in Nat /\ n > 1 /\ (n - 1) * d < x /\ x <= n * d
<1> DEFINE n == (x + d - 1) \div d
<1>1. n \in Int /\ n * d <= x + d - 1 /\ x + d - 1 < n * d + d
  BY SMT
<1> HIDE DEF n
<1>2. (n - 1) * d = n * d - d
  BY <1>1, SMT
<1>3. n > 1
  <2>1. CASE n <= 1
    <3>1. n * d <= 1 * d
      BY <1>1, <2>1, SMT
    <3> QED BY <1>1, <3>1
  <2> QED BY <1>1, <2>1
<1> QED BY <1>1, <1>2, <1>3 DEF n

(* A remainder is known by its quotient.                                   *)
LEMMA RemainderIs ==
  ASSUME NEW q \in Int, NEW m \in Nat \ {0}, NEW r \in 0 .. (m - 1)
  PROVE  (q * m + r) % m = r
<1> DEFINE x == q * m + r
           d == x \div m
           s == x % m
<1>0. q * m \in Int /\ x \in Int
  BY SMT
<1> HIDE DEF x
<1>1. d \in Int /\ s \in 0 .. (m - 1) /\ x = d * m + s
  BY <1>0, SMT
<1> HIDE DEF d, s
<1>2. q * m + r = d * m + s /\ d * m \in Int
  BY <1>1, SMT DEF x
<1>3. CASE q = d
  BY <1>0, <1>1, <1>2, <1>3 DEF s, x
<1>4. CASE q >= d + 1
  <2>1. q * m >= (d + 1) * m
    BY <1>1, <1>4, SMT
  <2>2. (d + 1) * m = d * m + m
    BY <1>1, SMT
  <2> QED BY <1>0, <1>1, <1>2, <2>1, <2>2
<1>5. CASE d >= q + 1
  <2>1. d * m >= (q + 1) * m
    BY <1>1, <1>5, SMT
  <2>2. (q + 1) * m = q * m + m
    BY <1>1, SMT
  <2> QED BY <1>0, <1>1, <1>2, <2>1, <2>2
<1> QED BY <1>1, <1>3, <1>4, <1>5

(* The successor of a remainder.                                           *)
LEMMA NextRemainder ==
  ASSUME NEW x \in Nat, NEW m \in Nat \ {0}
  PROVE  ((x % m) + 1) % m = (x + 1) % m
<1> DEFINE q == x \div m
           r == x % m
<1>1. q \in Int /\ r \in 0 .. (m - 1) /\ x = q * m + r
  BY SMT
<1> HIDE DEF q, r
<1>2. CASE r < m - 1
  <2>1. r + 1 \in 0 .. (m - 1) /\ x + 1 = q * m + (r + 1)
    BY <1>1, <1>2, SMT
  <2>2. (0 * m + (r + 1)) % m = r + 1 /\ (q * m + (r + 1)) % m = r + 1
    BY <1>1, <2>1, RemainderIs
  <2> QED BY <1>1, <2>1, <2>2 DEF r
<1>3. CASE r = m - 1
  <2>1. x + 1 = (q + 1) * m + 0 /\ r + 1 = 1 * m + 0
    BY <1>1, <1>3, SMT
  <2>2. (1 * m + 0) % m = 0 /\ ((q + 1) * m + 0) % m = 0
    BY <1>1, RemainderIs
  <2> QED BY <2>1, <2>2 DEF r
<1> QED BY <1>1, <1>2, <1>3

---------------------------------------------------------------------------
(* Where the bytes of a message stand on the wire.                         *)

Versions == {PROTOCOL_VERSION - 1, PROTOCOL_VERSION}
Bytes == Nat \X Nat
Messages == [type : Types, version : Versions, data : Seq(Bytes)]

(* A full frame; the frames of a message; how many of its bytes the first  *)
(* i of them carry; where the i-th begins.                                 *)
Unit == HeaderLen + MaxPayload
Parts(m) ==
  IF Len(m.data) <= MaxPayload THEN 1
  ELSE (Len(m.data) + MaxPayload - 1) \div MaxPayload
Upto(m, i) == IF i = Parts(m) THEN Len(m.data) ELSE i * MaxPayload
PartLen(m, i) == Upto(m, i) - (i - 1) * MaxPayload
At(i) == (i - 1) * Unit
WireLen(m) == At(Parts(m)) + HeaderLen + PartLen(m, Parts(m))

PartHeader(m, f, i) ==
  [type |-> m.type, frag |-> Len(m.data) > MaxPayload,
   more |-> i < Parts(m),
   seq |-> IF Len(m.data) <= MaxPayload THEN f
           ELSE (f + i - 1) % SequenceMod,
   length |-> PartLen(m, i), version |-> m.version]
PartData(m, i) == SubSeq(m.data, (i - 1) * MaxPayload + 1, Upto(m, i))

(* The cell at offset w of the i-th frame.                                 *)
Cell(m, f, i, w) ==
  IF w < HeaderLen
  THEN [of |-> "header", header |-> PartHeader(m, f, i),
        byte |-> <<0, w + 1>>]
  ELSE [of |-> "payload", header |-> NoHeader,
        byte |-> m.data[(i - 1) * MaxPayload + (w - HeaderLen) + 1]]

(* Every frame but the last is full, and none is longer.                   *)
LEMMA PartBounds ==
  ASSUME NEW m \in Messages, NEW i \in 1 .. Parts(m)
  PROVE  /\ Parts(m) \in Nat \ {0} /\ i \in Nat \ {0}
         /\ (i - 1) * MaxPayload \in Nat /\ i * MaxPayload \in Nat
         /\ i * MaxPayload = (i - 1) * MaxPayload + MaxPayload
         /\ Upto(m, i) \in Nat /\ PartLen(m, i) \in 0 .. MaxPayload
         /\ Upto(m, i) = (i - 1) * MaxPayload + PartLen(m, i)
         /\ i < Parts(m) => PartLen(m, i) = MaxPayload
         /\ Upto(m, i) <= Len(m.data)
         /\ i = Parts(m) => Upto(m, i) = Len(m.data)
         /\ Len(m.data) > MaxPayload => Parts(m) > 1
         /\ At(i) \in Nat /\ At(i + 1) = At(i) + Unit /\ At(1) = 0
<1>1. Len(m.data) \in Nat /\ MaxPayload \in Nat \ {0} /\ HeaderLen \in Nat
  BY FrameAssumption DEF Messages
<1>2. /\ Parts(m) \in Nat \ {0}
      /\ Len(m.data) > MaxPayload =>
           /\ Parts(m) > 1 /\ (Parts(m) - 1) * MaxPayload < Len(m.data)
           /\ Len(m.data) <= Parts(m) * MaxPayload
      /\ Len(m.data) <= MaxPayload => Parts(m) = 1
  <2>1. CASE Len(m.data) <= MaxPayload
    BY <1>1, <2>1 DEF Parts
  <2>2. CASE Len(m.data) > MaxPayload
    <3>1. ~(Len(m.data) <= MaxPayload)
      BY <1>1, <2>2
    <3>2. Parts(m) = (Len(m.data) + MaxPayload - 1) \div MaxPayload
      BY <3>1, Zenon DEF Parts
    <3> DEFINE x == Len(m.data)
               n == (x + MaxPayload - 1) \div MaxPayload
    <3>3. /\ n \in Nat /\ n > 1 /\ (n - 1) * MaxPayload < x
          /\ x <= n * MaxPayload
      BY <1>1, <2>2, Pieces
    <3> HIDE DEF n
    <3>4. Parts(m) = n
      BY <3>2 DEF n
    <3> QED BY <1>1, <2>2, <3>3, <3>4
  <2> QED BY <1>1, <2>1, <2>2
<1>3. i \in Nat \ {0} /\ i <= Parts(m)
  BY <1>2
<1>4. /\ (i - 1) * MaxPayload \in Nat /\ i * MaxPayload \in Nat
      /\ i * MaxPayload = (i - 1) * MaxPayload + MaxPayload
  BY <1>1, <1>3, SMT
<1>5. /\ Upto(m, i) \in Nat /\ PartLen(m, i) \in 0 .. MaxPayload
      /\ i < Parts(m) => PartLen(m, i) = MaxPayload
      /\ Upto(m, i) <= Len(m.data)
  <2>1. CASE i = Parts(m)
    <3>1. Upto(m, i) = Len(m.data)
      BY <2>1 DEF Upto
    <3>2. CASE Len(m.data) <= MaxPayload
      <4>1. i = 1 /\ (i - 1) * MaxPayload = 0
        BY <1>1, <1>2, <2>1, <3>2, SMT
      <4> QED BY <1>1, <2>1, <3>1, <3>2, <4>1 DEF PartLen
    <3>3. CASE Len(m.data) > MaxPayload
      BY <1>1, <1>2, <1>3, <1>4, <2>1, <3>1, <3>3 DEF PartLen
    <3> QED BY <1>1, <3>2, <3>3
  <2>2. CASE i # Parts(m)
    <3>1. Upto(m, i) = i * MaxPayload /\ PartLen(m, i) = MaxPayload
      BY <1>1, <1>4, <2>2 DEF Upto, PartLen
    <3>2. i <= Parts(m) - 1 /\ Len(m.data) > MaxPayload
      BY <1>1, <1>2, <1>3, <2>2
    <3>3. i * MaxPayload <= (Parts(m) - 1) * MaxPayload
      BY <1>1, <1>2, <1>3, <3>2, SMT
    <3>4. (Parts(m) - 1) * MaxPayload \in Int
      BY <1>1, <1>2, SMT
    <3> QED BY <1>1, <1>2, <1>4, <3>1, <3>2, <3>3, <3>4
  <2> QED BY <2>1, <2>2
<1>6. At(i) \in Nat /\ At(i + 1) = At(i) + Unit /\ At(1) = 0
  BY <1>1, <1>3, SMT DEF At, Unit
<1>7. Upto(m, i) = (i - 1) * MaxPayload + PartLen(m, i)
  BY <1>4, <1>5 DEF PartLen
<1>8. i = Parts(m) => Upto(m, i) = Len(m.data)
  BY DEF Upto
<1> QED BY <1>1, <1>2, <1>3, <1>4, <1>5, <1>6, <1>7, <1>8

LEMMA PartsNat ==
  ASSUME NEW m \in Messages PROVE Parts(m) \in Nat \ {0}
<1>1. Len(m.data) \in Nat
  BY DEF Messages
<1>2. CASE Len(m.data) <= MaxPayload
  BY <1>2 DEF Parts
<1>3. CASE ~(Len(m.data) <= MaxPayload)
  <2> DEFINE x == Len(m.data)
             n == (x + MaxPayload - 1) \div MaxPayload
  <2>1. x \in Nat /\ x > MaxPayload /\ MaxPayload \in Nat \ {0}
    BY <1>1, <1>3, FrameAssumption
  <2>2. n \in Nat /\ n > 1
    <3> HIDE DEF x
    <3> QED BY <2>1, Pieces
  <2> HIDE DEF n
  <2>3. Parts(m) = n
    BY <1>3, Zenon DEF Parts, n
  <2> QED BY <2>2, <2>3
<1> QED BY <1>2, <1>3

(* Fragment makes exactly these frames.                                    *)
LEMMA FragmentIs ==
  ASSUME NEW m \in Messages, m.version = version, NEW f \in Nat
  PROVE  Fragment(m, f) =
           [i \in 1 .. Parts(m) |-> [header |-> PartHeader(m, f, i),
                                     data |-> PartData(m, i)]]
<1>1. Len(m.data) \in Nat /\ MaxPayload \in Nat \ {0}
      /\ m.data \in Seq(Bytes)
  BY FrameAssumption DEF Messages
<1>2. CASE Len(m.data) <= MaxPayload
  <2>1. Parts(m) = 1 /\ 1 \in 1 .. Parts(m)
    BY <1>2 DEF Parts
  <2>2. /\ Upto(m, 1) = Len(m.data) /\ (1 - 1) * MaxPayload = 0
        /\ PartLen(m, 1) = Len(m.data)
    <3>1. Upto(m, 1) = Len(m.data)
      BY <2>1 DEF Upto
    <3>2. (1 - 1) * MaxPayload = 0
      BY <1>1, SMT
    <3> QED BY <1>1, <3>1, <3>2 DEF PartLen
  <2>3. PartData(m, 1) = m.data
    BY <1>1, <2>2 DEF PartData
  <2>4. PartHeader(m, f, 1) =
          Header(m.type, FALSE, FALSE, f, Len(m.data))
    <3>1. (Len(m.data) > MaxPayload) = FALSE /\ (1 < Parts(m)) = FALSE
      BY <1>1, <1>2, <2>1
    <3> QED BY <1>2, <2>2, <3>1, Zenon DEF PartHeader, Header
  <2>5. Fragment(m, f) =
          <<[header |-> PartHeader(m, f, 1), data |-> PartData(m, 1)]>>
    BY <1>2, <2>3, <2>4 DEF Fragment
  <2> QED BY <2>1, <2>5
<1>3. CASE Len(m.data) > MaxPayload
  <2>2. ~(Len(m.data) <= MaxPayload)
    BY <1>1, <1>3
  <2>1. Parts(m) = (Len(m.data) + MaxPayload - 1) \div MaxPayload
    BY <2>2, Zenon DEF Parts
  <2>3. Fragment(m, f) =
          [i \in 1 .. Parts(m) |->
             [header |-> Header(m.type, TRUE, i < Parts(m),
                                (f + i - 1) % SequenceMod,
                                Len(PartData(m, i))),
              data |-> PartData(m, i)]]
    BY <2>1, <2>2 DEF Fragment, PartData, Upto
  <2>4. ASSUME NEW i \in 1 .. Parts(m)
        PROVE  Header(m.type, TRUE, i < Parts(m), (f + i - 1) % SequenceMod,
                      Len(PartData(m, i))) = PartHeader(m, f, i)
    <3>1. Len(PartData(m, i)) = PartLen(m, i)
      BY <1>1, PartBounds DEF PartData
    <3> QED BY <1>3, <2>2, <3>1 DEF PartHeader, Header
  <2> QED BY <2>3, <2>4
<1> QED BY <1>1, <1>2, <1>3

Headers ==
  [type : Types \cup {"none"}, frag : BOOLEAN, more : BOOLEAN, seq : Nat,
   length : Nat, version : Versions \cup {0}]
Cells ==
  [of : {"header", "payload"}, header : Headers, byte : Bytes]

LEMMA PartHeaderTyped ==
  ASSUME NEW m \in Messages, NEW f \in Nat, NEW i \in 1 .. Parts(m)
  PROVE  PartHeader(m, f, i) \in Headers
<1>1. PartLen(m, i) \in Nat /\ i \in Nat \ {0}
  BY PartBounds
<1>2. (f + i - 1) % SequenceMod \in Nat
  BY <1>1, FrameAssumption
<1> QED BY <1>1, <1>2 DEF PartHeader, Headers, Messages

(* A sequence is the function of its elements.                             *)
LEMMA SeqIs ==
  ASSUME NEW S, NEW s \in Seq(S)
  PROVE  s = [p \in 1 .. Len(s) |-> s[p]]
OBVIOUS

(* A stretch of a sequence, element by element.                            *)
LEMMA StretchIs ==
  ASSUME NEW S, NEW s \in Seq(S), NEW a \in Nat, NEW l \in Nat,
         a + l <= Len(s)
  PROVE  /\ SubSeq(s, a + 1, a + l) \in Seq(S)
         /\ Len(SubSeq(s, a + 1, a + l)) = l
         /\ SubSeq(s, a + 1, a + l) = [p \in 1 .. l |-> s[a + p]]
<1> DEFINE t == SubSeq(s, a + 1, a + l)
<1>1. t \in Seq(S)
  OBVIOUS
<1>2. Len(t) = l
  OBVIOUS
<1>3. ASSUME NEW p \in 1 .. l PROVE t[p] = s[a + p]
  OBVIOUS
<1> HIDE DEF t
<1>4. t = [p \in 1 .. l |-> t[p]]
  BY <1>1, <1>2, SeqIs
<1>5. t = [p \in 1 .. l |-> s[a + p]]
  BY <1>3, <1>4
<1> QED BY <1>1, <1>2, <1>5 DEF t

(* A concatenation, element by element.                                    *)
LEMMA ConcatIs ==
  ASSUME NEW S, NEW s \in Seq(S), NEW t \in Seq(S)
  PROVE  s \o t = [p \in 1 .. (Len(s) + Len(t)) |->
                     IF p <= Len(s) THEN s[p] ELSE t[p - Len(s)]]
<1>1. s \o t \in Seq(S) /\ Len(s \o t) = Len(s) + Len(t)
  OBVIOUS
<1>2. s \o t = [p \in 1 .. Len(s \o t) |-> (s \o t)[p]]
  <2> DEFINE u == s \o t
  <2>1. u \in Seq(S)
    BY <1>1
  <2> HIDE DEF u
  <2>2. u = [p \in 1 .. Len(u) |-> u[p]]
    BY <2>1, SeqIs
  <2> QED BY <2>2 DEF u
<1>3. ASSUME NEW p \in 1 .. (Len(s) + Len(t))
      PROVE  (s \o t)[p] = IF p <= Len(s) THEN s[p] ELSE t[p - Len(s)]
  BY <1>3
<1> QED BY <1>1, <1>2, <1>3

LEMMA ConcatParts ==
  ASSUME NEW S, NEW s \in Seq(S), NEW t \in Seq(S)
  PROVE  /\ s \o t \in Seq(S) /\ Len(s \o t) = Len(s) + Len(t)
         /\ Len(s) \in Nat /\ Len(t) \in Nat
         /\ \A p \in 1 .. Len(s) : (s \o t)[p] = s[p]
         /\ \A p \in 1 .. Len(t) : (s \o t)[Len(s) + p] = t[p]
OBVIOUS

LEMMA ConcatJoins ==
  \A S : \A s, t, u \in Seq(S) : (s \o t) \o u = s \o (t \o u)
<1> SUFFICES ASSUME NEW S, NEW s \in Seq(S), NEW t \in Seq(S),
                    NEW u \in Seq(S)
             PROVE  (s \o t) \o u = s \o (t \o u)
  OBVIOUS
<1> DEFINE x == (s \o t) \o u
           y == s \o (t \o u)
<1>1. /\ x \in Seq(S) /\ y \in Seq(S) /\ Len(x) = Len(y)
      /\ Len(x) = Len(s) + Len(t) + Len(u)
      /\ Len(s) \in Nat /\ Len(t) \in Nat /\ Len(u) \in Nat
  OBVIOUS
<1>2. ASSUME NEW p \in 1 .. Len(x) PROVE x[p] = y[p]
  BY <1>1
<1> HIDE DEF x, y
<1>3. x = [p \in 1 .. Len(x) |-> x[p]] /\ y = [p \in 1 .. Len(y) |-> y[p]]
  BY <1>1, SeqIs
<1> QED BY <1>1, <1>2, <1>3 DEF x, y

(* A frame on the wire, cell by cell.                                      *)
LEMMA FrameCellsAre ==
  ASSUME NEW m \in Messages, NEW f \in Nat, NEW i \in 1 .. Parts(m)
  PROVE  FrameCells([header |-> PartHeader(m, f, i),
                     data |-> PartData(m, i)]) =
           [p \in 1 .. (HeaderLen + PartLen(m, i)) |->
              Cell(m, f, i, p - 1)]
<1> DEFINE c == FrameCells([header |-> PartHeader(m, f, i),
                            data |-> PartData(m, i)])
<1>1. /\ HeaderLen \in Nat /\ m.data \in Seq(Bytes)
      /\ PartLen(m, i) \in Nat /\ Len(m.data) \in Nat
  BY FrameAssumption, PartBounds DEF Messages
<1> DEFINE a == (i - 1) * MaxPayload
<1>2. /\ a \in Nat /\ Upto(m, i) = a + PartLen(m, i)
      /\ Upto(m, i) <= Len(m.data)
  BY PartBounds
<1> HIDE DEF a
<1>3. /\ PartData(m, i) = SubSeq(m.data, a + 1, Upto(m, i))
      /\ Len(PartData(m, i)) = PartLen(m, i)
      /\ PartData(m, i) \in Seq(Bytes)
      /\ DOMAIN PartData(m, i) = 1 .. PartLen(m, i)
      /\ \A p \in 1 .. PartLen(m, i) : PartData(m, i)[p] = m.data[a + p]
  <2> DEFINE l == PartLen(m, i)
  <2>1. /\ PartData(m, i) = SubSeq(m.data, a + 1, Upto(m, i))
        /\ PartData(m, i) = SubSeq(m.data, a + 1, a + l)
        /\ l \in Nat /\ a + l <= Len(m.data)
    BY <1>1, <1>2 DEF PartData, a
  <2> HIDE DEF l
  <2> DEFINE z == m.data
  <2>6. /\ SubSeq(z, a + 1, a + l) \in Seq(Bytes)
        /\ Len(SubSeq(z, a + 1, a + l)) = l
        /\ SubSeq(z, a + 1, a + l) = [p \in 1 .. l |-> z[a + p]]
    <3>1. z \in Seq(Bytes) /\ a + l <= Len(z) /\ a \in Nat /\ l \in Nat
      BY <1>1, <1>2, <2>1
    <3> HIDE DEF z
    <3> QED BY ONLY <3>1, StretchIs
  <2>2. PartData(m, i) \in Seq(Bytes)
    BY <2>1, <2>6
  <2>3. Len(PartData(m, i)) = PartLen(m, i)
    BY <2>1, <2>6 DEF l
  <2>4. ASSUME NEW p \in 1 .. PartLen(m, i)
        PROVE  PartData(m, i)[p] = m.data[a + p]
    BY <2>1, <2>6 DEF l
  <2>5. DOMAIN PartData(m, i) = 1 .. PartLen(m, i)
    BY <2>2, <2>3
  <2> QED BY <2>1, <2>2, <2>3, <2>4, <2>5
<1> DEFINE h == [p \in 1 .. HeaderLen |->
                   [of |-> "header", header |-> PartHeader(m, f, i),
                    byte |-> <<0, p>>]]
           d == [p \in 1 .. PartLen(m, i) |->
                   [of |-> "payload", header |-> NoHeader,
                    byte |-> PartData(m, i)[p]]]
<1>4. c = h \o d
  BY <1>3 DEF FrameCells
<1>5. Len(h) = HeaderLen /\ Len(d) = PartLen(m, i)
  BY <1>1
<1>6. h \o d = [p \in 1 .. (HeaderLen + PartLen(m, i)) |->
                  IF p <= HeaderLen THEN h[p] ELSE d[p - HeaderLen]]
  <2>1. PartHeader(m, f, i) \in Headers
    BY PartHeaderTyped
  <2>2. h \in Seq(Cells)
    <3>1. ASSUME NEW p \in 1 .. HeaderLen PROVE h[p] \in Cells
      <4>1. <<0, p>> \in Bytes
        BY DEF Bytes
      <4>2. <<0, p>> \in Bytes => h[p] \in Cells
        BY <2>1, Zenon DEF Cells
      <4> QED BY <4>1, <4>2
    <3> HIDE DEF h
    <3>3. h = [p \in 1 .. HeaderLen |-> h[p]]
      BY DEF h
    <3> QED BY <1>1, <3>1, <3>3
  <2>3. d \in Seq(Cells)
    <3>1. NoHeader \in Headers
      BY DEF Headers, NoHeader
    <3>2. ASSUME NEW p \in 1 .. PartLen(m, i) PROVE d[p] \in Cells
      <4>1. PartData(m, i)[p] \in Bytes
        <5> DEFINE q == PartData(m, i)
        <5>1. q \in Seq(Bytes) /\ p \in 1 .. Len(q)
          BY <1>3
        <5> HIDE DEF q
        <5>2. q[p] \in Bytes
          BY <5>1
        <5> QED BY <5>2 DEF q
      <4>2. PartData(m, i)[p] \in Bytes => d[p] \in Cells
        BY <3>1, Zenon DEF Cells
      <4> QED BY <4>1, <4>2
    <3> HIDE DEF d
    <3>3. d = [p \in 1 .. PartLen(m, i) |-> d[p]]
      BY DEF d
    <3> QED BY <1>1, <3>2, <3>3
  <2> HIDE DEF h, d
  <2>4. h \o d = [p \in 1 .. (Len(h) + Len(d)) |->
                    IF p <= Len(h) THEN h[p] ELSE d[p - Len(h)]]
    BY <2>2, <2>3, ConcatIs
  <2> QED BY <1>5, <2>4
<1>7. ASSUME NEW p \in 1 .. (HeaderLen + PartLen(m, i))
      PROVE  (IF p <= HeaderLen THEN h[p] ELSE d[p - HeaderLen])
                = Cell(m, f, i, p - 1)
  <2>1. CASE p <= HeaderLen
    BY <1>1, <2>1 DEF Cell
  <2>2. CASE p > HeaderLen
    <3>1. p - HeaderLen \in 1 .. PartLen(m, i)
      BY <1>1, <2>2
    <3>2. d[p - HeaderLen].byte = m.data[a + (p - HeaderLen)]
      BY <1>3, <3>1
    <3>3. a + ((p - 1) - HeaderLen) + 1 = a + (p - HeaderLen)
      BY <1>1, <1>2
    <3>4. d[p - HeaderLen] = [of |-> "payload", header |-> NoHeader,
                              byte |-> m.data[a + (p - HeaderLen)]]
      BY <1>3, <3>1
    <3>5. Cell(m, f, i, p - 1) = [of |-> "payload", header |-> NoHeader,
                              byte |-> m.data[a + ((p - 1) - HeaderLen) + 1]]
      BY <1>1, <2>2 DEF Cell, a
    <3> HIDE DEF h, d
    <3> QED BY <1>1, <2>2, <3>3, <3>4, <3>5
  <2> QED BY <1>1, <2>1, <2>2
<1> QED BY <1>4, <1>6, <1>7

(* FlattenSeq adds the sequences up from the left.                         *)
FlattenStep(F, c) ==
  [i \in 1 .. Len(F) |-> IF i = 1 THEN F[i] ELSE c[i - 1] \o F[i]]

LEMMA FlattenUnfolds ==
  ASSUME NEW S, NEW F \in Seq(Seq(S)), Len(F) > 0
  PROVE  \E c : c = FlattenStep(F, c) /\ FlattenSeq(F) = c[Len(F)]
<1> DEFINE N == Len(F)
           Run(f, n) ==
             /\ f \in [1 .. n -> Seq(S)] /\ f[1] = F[1]
             /\ \A i \in 2 .. n : f[i] = f[i - 1] \o F[i]
           Missing == {n \in 1 .. N : ~ \E f : Run(f, n)}
<1>1. N \in Nat \ {0} /\ \A i \in 1 .. N : F[i] \in Seq(S)
  OBVIOUS
<1> HIDE DEF N
<1>2. Missing = {}
  <2>1. SUFFICES ASSUME Missing # {} PROVE FALSE
    OBVIOUS
  <2>2. PICK n \in Missing : \A m \in Missing : n <= m
    <3>1. 1 .. N \in SUBSET Nat
      BY <1>1
    <3> HIDE DEF Run
    <3>2. Missing \in SUBSET Nat
      BY <3>1, Zenon
    <3> HIDE DEF Missing
    <3> QED BY <2>1, <3>2, LeastOfNats
  <2>3. n \in 1 .. N /\ ~ \E f : Run(f, n)
    BY <2>2
  <2>4. CASE n = 1
    <3>1. Run([k \in 1 .. 1 |-> F[1]], 1)
      BY <1>1
    <3> HIDE DEF Run
    <3> QED BY <2>3, <2>4, <3>1
  <2>5. CASE n # 1
    <3>1. n - 1 \in 1 .. N /\ n - 1 \notin Missing
      <4> HIDE DEF Missing, Run
      <4> QED BY <1>1, <2>2, <2>3, <2>5
    <3>2. PICK f : Run(f, n - 1)
      <4> HIDE DEF Run
      <4> QED BY <3>1
    <3> DEFINE g == [k \in 1 .. n |->
                       IF k < n THEN f[k] ELSE f[n - 1] \o F[n]]
    <3>3. f[n - 1] \in Seq(S) /\ F[n] \in Seq(S)
      BY <1>1, <2>3, <3>1, <3>2
    <3>4. f[n - 1] \o F[n] \in Seq(S)
      BY <3>3
    <3>5. g \in [1 .. n -> Seq(S)]
      BY <2>3, <2>5, <3>2, <3>4
    <3>6. g[1] = F[1]
      BY <2>3, <2>5, <3>2
    <3>7. ASSUME NEW i \in 2 .. n PROVE g[i] = g[i - 1] \o F[i]
      <4>1. CASE i = n
        <5>1. n - 1 \in 1 .. n /\ n - 1 < n /\ n \in 1 .. n /\ ~(n < n)
          BY <1>1, <2>3, <2>5
        <5>2. g[n] = f[n - 1] \o F[n] /\ g[n - 1] = f[n - 1]
          BY <5>1
        <5> QED BY <4>1, <5>2
      <4>2. CASE i # n
        <5>1. i \in 2 .. (n - 1) /\ i \in 1 .. n /\ i - 1 \in 1 .. n
              /\ i < n /\ i - 1 < n
          BY <1>1, <2>3, <4>2
        <5> QED BY <3>2, <5>1
      <4> QED BY <4>1, <4>2
    <3>8. Run(g, n)
      BY <3>5, <3>6, <3>7
    <3> HIDE DEF Run, g
    <3> QED BY <2>3, <3>8
  <2> QED BY <2>4, <2>5
<1>3. PICK f : Run(f, N)
  <2> HIDE DEF Run
  <2>1. N \in 1 .. N
    BY <1>1
  <2> QED BY <1>2, <2>1
<1>4. f = FlattenStep(F, f)
  <2>1. ASSUME NEW i \in 1 .. N
        PROVE  f[i] = IF i = 1 THEN F[i] ELSE f[i - 1] \o F[i]
    <3>1. CASE i = 1
      BY <1>3, <3>1
    <3>2. CASE i # 1
      <4>1. i \in 2 .. N
        BY <1>1, <3>2
      <4> QED BY <1>3, <3>2, <4>1
    <3> QED BY <3>1, <3>2
  <2>2. f = [i \in 1 .. N |-> f[i]]
    BY <1>3
  <2> HIDE DEF Run
  <2> QED BY <2>1, <2>2 DEF FlattenStep, N
<1> DEFINE c == CHOOSE g : g = FlattenStep(F, g)
<1>5. c = FlattenStep(F, c)
  BY <1>4
<1>6. FlattenSeq(F) = c[Len(F)]
  BY <1>1 DEF FlattenSeq, FlattenStep, N
<1> HIDE DEF c
<1> QED BY <1>5, <1>6

(* The frames of a message on the wire: each at its place, and the next    *)
(* message begins where they end.                                          *)
Wire(m, f) ==
  LET frames == Fragment(m, f)
  IN  FlattenSeq([i \in DOMAIN frames |-> FrameCells(frames[i])])

(* The cells of a frame are cells.                                         *)
LEMMA CellTyped ==
  ASSUME NEW m \in Messages, NEW f \in Nat, NEW i \in 1 .. Parts(m),
         NEW w \in 0 .. (HeaderLen + PartLen(m, i) - 1)
  PROVE  Cell(m, f, i, w) \in Cells
<1>1. PartHeader(m, f, i) \in Headers /\ NoHeader \in Headers
  BY PartHeaderTyped DEF Headers, NoHeader
<1>2. CASE w < HeaderLen
  <2>1. <<0, w + 1>> \in Bytes
    BY DEF Bytes
  <2>2. <<0, w + 1>> \in Bytes => Cell(m, f, i, w) \in Cells
    BY <1>1, <1>2, Zenon DEF Cell, Cells
  <2> QED BY <2>1, <2>2
<1>3. CASE ~(w < HeaderLen)
  <2> DEFINE a == (i - 1) * MaxPayload
             z == m.data
             b == a + (w - HeaderLen) + 1
  <2>1. /\ a \in Nat /\ Upto(m, i) = a + PartLen(m, i)
        /\ Upto(m, i) <= Len(z) /\ PartLen(m, i) \in Nat
    BY PartBounds
  <2>2. z \in Seq(Bytes) /\ HeaderLen \in Nat
    BY FrameAssumption DEF Messages
  <2>3. b \in 1 .. Len(z)
    <3> HIDE DEF a, z
    <3> QED BY <1>3, <2>1, <2>2
  <2>4. z[b] \in Bytes
    <3> HIDE DEF b, z
    <3> QED BY <2>2, <2>3
  <2>5. m.data[(i - 1) * MaxPayload + (w - HeaderLen) + 1] \in Bytes
          => Cell(m, f, i, w) \in Cells
    BY <1>1, <1>3, Zenon DEF Cell, Cells
  <2> QED BY <2>4, <2>5
<1> QED BY <1>2, <1>3

(* FlattenSeq puts the frames of a message on the wire one behind the      *)
(* other.                                                                  *)
LEMMA WireIs ==
  ASSUME NEW m \in Messages, m.version = version, NEW f \in Nat
  PROVE  /\ Wire(m, f) \in Seq(Cells)
         /\ WireLen(m) \in Nat \ {0} /\ Len(Wire(m, f)) = WireLen(m)
         /\ \A i \in 1 .. Parts(m) :
              \A w \in 0 .. (HeaderLen + PartLen(m, i) - 1) :
                /\ At(i) + w + 1 \in 1 .. WireLen(m)
                /\ Wire(m, f)[At(i) + w + 1] = Cell(m, f, i, w)
<1> DEFINE N == Parts(m)
           L(i) == HeaderLen + PartLen(m, i)
           F == [i \in 1 .. N |->
                   [p \in 1 .. L(i) |-> Cell(m, f, i, p - 1)]]
           C(i, w) == Cell(m, f, i, w)
<1>0. N \in Nat \ {0} /\ HeaderLen \in Nat \ {0} /\ MaxPayload \in Nat
  BY PartsNat, FrameAssumption
<1>1. ASSUME NEW i \in 1 .. N
      PROVE  /\ L(i) \in Nat \ {0} /\ At(i) \in Nat
             /\ At(i + 1) = At(i) + Unit
             /\ i < N => L(i) = Unit
  <2>1. /\ PartLen(m, i) \in 0 .. MaxPayload /\ At(i) \in Nat
        /\ At(i + 1) = At(i) + Unit
        /\ i < Parts(m) => PartLen(m, i) = MaxPayload
    BY PartBounds
  <2> QED BY <1>0, <2>1 DEF Unit
<1>2. At(1) = 0
  BY <1>0, SMT DEF At, Unit
<1>3. Wire(m, f) = FlattenSeq(F)
  <2> DEFINE G == [i \in 1 .. N |-> [header |-> PartHeader(m, f, i),
                                     data |-> PartData(m, i)]]
  <2>1. Fragment(m, f) = G
    BY FragmentIs
  <2>2. Wire(m, f) = FlattenSeq([i \in 1 .. N |-> FrameCells(G[i])])
    BY <2>1 DEF Wire
  <2>3. ASSUME NEW i \in 1 .. N
        PROVE  FrameCells(G[i]) = [p \in 1 .. L(i) |-> Cell(m, f, i, p - 1)]
    <3>1. FrameCells([header |-> PartHeader(m, f, i),
                      data |-> PartData(m, i)]) =
            [p \in 1 .. (HeaderLen + PartLen(m, i)) |->
               Cell(m, f, i, p - 1)]
      BY FrameCellsAre
    <3>2. G[i] = [header |-> PartHeader(m, f, i), data |-> PartData(m, i)]
      OBVIOUS
    <3> HIDE DEF G
    <3> QED BY <3>1, <3>2, Zenon
  <2> HIDE DEF G
  <2> QED BY <2>2, <2>3
<1>4. ASSUME NEW i \in 1 .. N, NEW w \in 0 .. (L(i) - 1)
      PROVE  C(i, w) \in Cells
  <2>1. PartLen(m, i) \in Nat
    BY PartBounds
  <2>2. w \in 0 .. (HeaderLen + PartLen(m, i) - 1)
    BY <1>0, <2>1
  <2> QED BY <2>2, CellTyped, Zenon
<1> HIDE DEF L, C
<1>5. ASSUME NEW i \in 1 .. N
      PROVE  /\ F[i] \in Seq(Cells) /\ Len(F[i]) = L(i)
             /\ \A w \in 0 .. (L(i) - 1) : F[i][w + 1] = C(i, w)
  <2> DEFINE s == [p \in 1 .. L(i) |-> C(i, p - 1)]
  <2>1. s \in Seq(Cells) /\ Len(s) = L(i)
    BY <1>1, <1>4
  <2>2. F[i] = s
    BY DEF C
  <2>3. ASSUME NEW w \in 0 .. (L(i) - 1) PROVE s[w + 1] = C(i, w)
    BY <1>1
  <2> QED BY <2>1, <2>2, <2>3
<1>6. F \in Seq(Seq(Cells)) /\ Len(F) = N
  BY <1>0, <1>5
<1> HIDE DEF F, N
<1>7. PICK c : c = FlattenStep(F, c) /\ FlattenSeq(F) = c[Len(F)]
  BY <1>0, <1>6, FlattenUnfolds
<1> DEFINE Good(n) ==
             /\ c[n] \in Seq(Cells) /\ Len(c[n]) = At(n) + L(n)
             /\ \A i \in 1 .. n : \A w \in 0 .. (L(i) - 1) :
                  /\ At(i) + w + 1 \in 1 .. (At(n) + L(n))
                  /\ c[n][At(i) + w + 1] = C(i, w)
           Bad == {n \in 1 .. N : ~Good(n)}
<1>8. Bad = {}
  <2>1. SUFFICES ASSUME Bad # {} PROVE FALSE
    OBVIOUS
  <2>2. PICK n \in Bad : \A k \in Bad : n <= k
    <3>1. 1 .. N \in SUBSET Nat
      BY <1>0
    <3> HIDE DEF Good
    <3>2. Bad \in SUBSET Nat
      BY <3>1, Zenon
    <3> HIDE DEF Bad
    <3> QED BY <2>1, <3>2, LeastOfNats
  <2>3. n \in 1 .. N /\ ~Good(n)
    <3> HIDE DEF Good
    <3> QED BY <2>2
  <2> HIDE DEF Good, Bad
  <2>4. c[n] = IF n = 1 THEN F[n] ELSE c[n - 1] \o F[n]
    <3>1. FlattenStep(F, c)[n] = IF n = 1 THEN F[n] ELSE c[n - 1] \o F[n]
      BY <1>6, <2>3 DEF FlattenStep
    <3> QED BY <1>7, <3>1
  <2>5. /\ F[n] \in Seq(Cells) /\ Len(F[n]) = L(n)
        /\ \A w \in 0 .. (L(n) - 1) : F[n][w + 1] = C(n, w)
        /\ L(n) \in Nat \ {0} /\ At(n) \in Nat
    <3> QED BY <1>1, <1>5, <2>3
  <2>6. CASE n = 1
    <3>1. c[n] = F[n] /\ At(n) = 0
      BY <1>2, <2>4, <2>6
    <3>2. Good(n)
      BY <2>5, <2>6, <3>1 DEF Good
    <3> QED BY <2>3, <3>2
  <2>7. CASE n # 1
    <3>1. n - 1 \in 1 .. N /\ Good(n - 1) /\ n - 1 < N
      <4>1. n - 1 \in 1 .. N /\ n - 1 \notin Bad /\ n - 1 < N
        <5> QED BY <1>0, <2>2, <2>3, <2>7
      <4> QED BY <4>1 DEF Bad
    <3>2. L(n - 1) = Unit /\ At(n) = At(n - 1) + Unit /\ Unit \in Int
      <4>1. (n - 1) + 1 = n
        BY <2>3, <1>0
      <4>2. /\ At((n - 1) + 1) = At(n - 1) + Unit
            /\ n - 1 < N => L(n - 1) = Unit
        <5> DEFINE k == n - 1
        <5>1. k \in 1 .. N
          BY <3>1
        <5> HIDE DEF k
        <5>2. At(k + 1) = At(k) + Unit /\ (k < N => L(k) = Unit)
          BY <1>0, <1>1, <5>1 DEF Unit
        <5> QED BY <5>2 DEF k
      <4> QED BY <1>0, <3>1, <4>1, <4>2 DEF Unit
    <3>3. c[n] = c[n - 1] \o F[n]
      BY <2>4, <2>7
    <3> DEFINE s == c[n - 1]
               t == F[n]
    <3>4. /\ s \in Seq(Cells) /\ Len(s) = At(n)
          /\ t \in Seq(Cells) /\ Len(t) = L(n) /\ c[n] = s \o t
          /\ At(n) \in Nat /\ L(n) \in Nat
      BY <2>5, <3>1, <3>2, <3>3 DEF Good
    <3>5. \A i \in 1 .. (n - 1) : \A w \in 0 .. (L(i) - 1) :
            At(i) + w + 1 \in 1 .. At(n) /\ s[At(i) + w + 1] = C(i, w)
      BY <3>1, <3>2 DEF Good
    <3>6. \A w \in 0 .. (L(n) - 1) : t[w + 1] = C(n, w)
      BY <2>5
    <3> HIDE DEF s, t
    <3>7. /\ c[n] \in Seq(Cells) /\ Len(c[n]) = At(n) + L(n)
      <4>1. s \in Seq(Cells) /\ t \in Seq(Cells)
        BY <3>4
      <4>2. s \o t \in Seq(Cells) /\ Len(s \o t) = Len(s) + Len(t)
        BY ONLY <4>1
      <4> QED BY <3>4, <4>2
    <3>8. ASSUME NEW i \in 1 .. n, NEW w \in 0 .. (L(i) - 1)
          PROVE  /\ At(i) + w + 1 \in 1 .. (At(n) + L(n))
                 /\ c[n][At(i) + w + 1] = C(i, w)
      <4>1. CASE i = n
        <5>0. w \in 0 .. (L(n) - 1)
          BY <4>1
        <5>1. w + 1 \in 1 .. L(n) /\ t[w + 1] = C(n, w) /\ w \in Nat
          BY <3>4, <3>6, <5>0
        <5>2. (s \o t)[At(n) + (w + 1)] = t[w + 1]
          BY <2>5, <3>4, <5>1
        <5>3. At(n) + w + 1 = At(n) + (w + 1)
              /\ At(n) + (w + 1) \in 1 .. (At(n) + L(n))
          BY <3>4, <5>1
        <5>4. c[n][At(n) + (w + 1)] = C(n, w)
          BY <3>4, <5>1, <5>2
        <5> QED BY <4>1, <5>3, <5>4
      <4>2. CASE i # n
        <5>1. i \in 1 .. (n - 1)
          BY <2>3, <1>0, <4>2
        <5>2. At(i) + w + 1 \in 1 .. At(n) /\ s[At(i) + w + 1] = C(i, w)
          BY <3>5, <5>1
        <5>3. (s \o t)[At(i) + w + 1] = s[At(i) + w + 1]
          BY <3>4, <5>2
        <5> QED BY <2>5, <3>4, <5>2, <5>3
      <4> QED BY <4>1, <4>2
    <3>9. Good(n)
      BY <3>7, <3>8 DEF Good
    <3> QED BY <2>3, <3>9
  <2> QED BY <2>6, <2>7
<1>9. Good(N)
  <2>1. N \in 1 .. N
    BY <1>0
  <2> HIDE DEF Good
  <2> QED BY <1>8, <2>1
<1>10. Wire(m, f) = c[N] /\ WireLen(m) = At(N) + L(N)
  <2>1. WireLen(m) = At(N) + HeaderLen + PartLen(m, N)
    BY DEF WireLen, N
  <2>2. At(N) \in Nat /\ PartLen(m, N) \in Nat /\ N \in 1 .. Parts(m)
    BY <1>0, PartBounds DEF N
  <2>3. WireLen(m) = At(N) + L(N)
    BY <1>0, <2>1, <2>2 DEF L
  <2> HIDE DEF Good
  <2> QED BY <1>3, <1>6, <1>7, <2>3
<1>11. WireLen(m) \in Nat \ {0}
  <2>1. N \in 1 .. N
    BY <1>0
  <2> HIDE DEF Good
  <2> QED BY <1>1, <1>10, <2>1
<1>12. \A i \in 1 .. Parts(m) :
         HeaderLen + PartLen(m, i) = L(i) /\ C(i, 0) = C(i, 0)
  BY DEF L
<1>13. ASSUME NEW i \in 1 .. Parts(m),
              NEW w \in 0 .. (HeaderLen + PartLen(m, i) - 1)
       PROVE  /\ At(i) + w + 1 \in 1 .. WireLen(m)
              /\ Wire(m, f)[At(i) + w + 1] = Cell(m, f, i, w)
  <2>1. i \in 1 .. N /\ w \in 0 .. (L(i) - 1) /\ C(i, w) = Cell(m, f, i, w)
    <3>1. i \in 1 .. N
      BY DEF N
    <3>2. w \in 0 .. (L(i) - 1)
      <4>1. PartLen(m, i) \in Nat
        BY PartBounds
      <4> QED BY <1>0, <4>1 DEF L
    <3>3. C(i, w) = Cell(m, f, i, w)
      BY DEF C
    <3> QED BY <3>1, <3>2, <3>3
  <2> QED BY <1>9, <1>10, <2>1
<1> QED BY <1>9, <1>10, <1>11, <1>13

---------------------------------------------------------------------------
(* The ledger of a connection: where each message begins on the wire and   *)
(* the number its frames start from.                                       *)

Placed(out, b) ==
  /\ b \in Seq(Nat) /\ Len(b) = Len(out) + 1
  /\ \A k \in 1 .. Len(out) : b[k + 1] = b[k] + WireLen(out[k])
  /\ \A j, k \in 1 .. (Len(out) + 1) : j <= k => b[j] <= b[k]

(* The cells not yet consumed, `here` of them gone, spell the frames.      *)
Spelled(out, first, b, here, rest) ==
  \A k \in 1 .. Len(out) : \A j \in 1 .. Parts(out[k]) :
    \A w \in 0 .. (HeaderLen + PartLen(out[k], j) - 1) :
      \A p \in 1 .. Len(rest) :
        here + p = b[k] + At(j) + w + 1 =>
          rest[p] = Cell(out[k], first[k], j, w)

(* Before frame i of message m the reassembler holds the frames before it. *)
Grouped(m, f, i, g, buf) ==
  IF i = 1 THEN g = NoGroup
  ELSE /\ g = [open |-> TRUE, type |-> m.type,
               next |-> (f + i - 1) % SequenceMod, max |-> Cap(m.type)]
       /\ buf = SubSeq(m.data, 1, (i - 1) * MaxPayload)

HeaderTaken == IF pending = NoHeader THEN 0 ELSE HeaderLen

Ledger(b, first, i) ==
  LET N == Len(outbox)
      K == Len(inbox) + 1
  IN /\ Placed(outbox, b) /\ first \in Seq(Nat) /\ Len(first) = N
     /\ \A k \in 1 .. Len(inbox) : inbox[k] = outbox[k]
     /\ i \in Nat \ {0}
     /\ K <= N =>
          /\ i \in 1 .. Parts(outbox[K])
          /\ Grouped(outbox[K], first[K], i, group, buffer)
     /\ K = N + 1 => i = 1 /\ pending = NoHeader /\ group = NoGroup
     /\ pending # NoHeader =>
          /\ pending = PartHeader(outbox[K], first[K], i)
          /\ version = PROTOCOL_VERSION
     /\ Len(src) + Len(stream) = b[N + 1] - (b[K] + At(i) + HeaderTaken)
     /\ Spelled(outbox, first, b, b[K] + At(i) + HeaderTaken, src \o stream)

Carried ==
  /\ version \in Versions
  /\ outbox \in Seq(Messages)
  /\ \A k \in 1 .. Len(outbox) : outbox[k].version = version
  /\ seq \in Nat
  /\ stream \in Seq(Cells) /\ src \in Seq(Cells)
  /\ inbox \in Seq(Messages) /\ Len(inbox) <= Len(outbox)

(* What may end a connection, and why.                                     *)
Deserved ==
  /\ fault \in {"none", "timeout", "unsupported_version", "too_large"}
  /\ fault = "unsupported_version" => version # PROTOCOL_VERSION
  /\ fault = "too_large" =>
       /\ Len(inbox) + 1 \in 1 .. Len(outbox)
       /\ ~Accepted(outbox[Len(inbox) + 1])

StreamInv ==
  /\ Carried /\ Deserved
  /\ fault = "none" => \E b, first, i : Ledger(b, first, i)

(* A cell of a message lies between where it begins and where the next one *)
(* does.                                                                   *)
LEMMA PlaceBound ==
  ASSUME NEW m \in Messages, m.version = version, NEW j \in 1 .. Parts(m),
         NEW w \in 0 .. (HeaderLen + PartLen(m, j) - 1)
  PROVE  At(j) + w + 1 \in 1 .. WireLen(m)
BY WireIs

(* What is consumed leaves the rest spelled.                               *)
LEMMA SpelledDrop ==
  ASSUME NEW out, NEW first, NEW b, NEW here \in Nat, NEW n \in Nat,
         NEW rest \in Seq(Cells), NEW left \in Seq(Cells),
         Spelled(out, first, b, here, rest),
         Len(rest) = n + Len(left),
         \A p \in 1 .. Len(left) : left[p] = rest[n + p]
  PROVE  Spelled(out, first, b, here + n, left)
<1> SUFFICES ASSUME NEW k \in 1 .. Len(out), NEW j \in 1 .. Parts(out[k]),
                    NEW w \in 0 .. (HeaderLen + PartLen(out[k], j) - 1),
                    NEW p \in 1 .. Len(left),
                    (here + n) + p = b[k] + At(j) + w + 1
             PROVE  left[p] = Cell(out[k], first[k], j, w)
  BY DEF Spelled
<1>1. n + p \in 1 .. Len(rest) /\ here + (n + p) = (here + n) + p
  OBVIOUS
<1>2. rest[n + p] = Cell(out[k], first[k], j, w)
  BY <1>1 DEF Spelled
<1> QED BY <1>2

(* A message m numbered from f is put behind those of `out`, and its cells  *)
(* behind the `rest` of theirs.                                            *)
Sent(out, m, f, first, b, rest, here) ==
  /\ out \in Seq(Messages) /\ m \in Messages /\ f \in Nat
  /\ m.version = version
  /\ \A k \in 1 .. Len(out) : out[k].version = version
  /\ first \in Seq(Nat) /\ Len(first) = Len(out) /\ Placed(out, b)
  /\ here \in Nat /\ rest \in Seq(Cells)
  /\ Len(rest) = b[Len(out) + 1] - here
  /\ Spelled(out, first, b, here, rest)
Longer(out, m, f, first, b, rest, out2, first2, b2, more) ==
  /\ out2 = Append(out, m) /\ first2 = Append(first, f)
  /\ b2 = Append(b, b[Len(out) + 1] + WireLen(m))
  /\ more = rest \o Wire(m, f)

LEMMA SpelledMore ==
  ASSUME NEW out, NEW m, NEW f, NEW first, NEW b, NEW rest, NEW here,
         Sent(out, m, f, first, b, rest, here),
         NEW out2, NEW first2, NEW b2, NEW more,
         Longer(out, m, f, first, b, rest, out2, first2, b2, more)
  PROVE  /\ Placed(out2, b2) /\ Spelled(out2, first2, b2, here, more)
         /\ first2 \in Seq(Nat) /\ Len(first2) = Len(out2)
         /\ Len(more) = b2[Len(out2) + 1] - here
<1> DEFINE N == Len(out)
           W == Wire(m, f)
<1>0. /\ m \in Messages /\ m.version = version /\ f \in Nat
      /\ out \in Seq(Messages) /\ here \in Nat
  BY DEF Sent
<1>1. /\ W \in Seq(Cells) /\ WireLen(m) \in Nat \ {0} /\ Len(W) = WireLen(m)
      /\ \A j \in 1 .. Parts(m) :
           \A w \in 0 .. (HeaderLen + PartLen(m, j) - 1) :
             /\ At(j) + w + 1 \in 1 .. WireLen(m)
             /\ W[At(j) + w + 1] = Cell(m, f, j, w)
  BY <1>0, WireIs
<1>12. more = rest \o W
  BY DEF Longer
<1> HIDE DEF W
<1>2. /\ N \in Nat /\ Len(out2) = N + 1 /\ out2[N + 1] = m
      /\ \A k \in 1 .. N : out2[k] = out[k] /\ out[k] \in Messages
  BY <1>0 DEF Longer
<1>3. /\ b \in Seq(Nat) /\ Len(b) = N + 1
      /\ \A k \in 1 .. N : b[k + 1] = b[k] + WireLen(out[k])
      /\ \A j, k \in 1 .. (N + 1) : j <= k => b[j] <= b[k]
  BY DEF Sent, Placed
<1>11. first2 \in Seq(Nat) /\ Len(first2) = Len(out2)
  BY <1>0 DEF Sent, Longer
<1>5. /\ first2[N + 1] = f
      /\ \A k \in 1 .. N : first2[k] = first[k]
  BY <1>0 DEF Sent, Longer
<1>13. rest \in Seq(Cells) /\ Len(rest) = b[N + 1] - here
  BY DEF Sent
<1>14. \A k \in 1 .. N : out[k].version = version
  BY DEF Sent
<1>15. b2 = Append(b, b[N + 1] + WireLen(m))
  BY DEF Longer
<1> HIDE DEF N
<1>10. /\ Len(rest) \in Nat /\ Len(more) = Len(rest) + Len(W)
       /\ Len(more) \in Nat
       /\ \A p \in 1 .. Len(rest) : more[p] = rest[p]
       /\ \A p \in 1 .. Len(W) : more[Len(rest) + p] = W[p]
  <2>1. rest \in Seq(Cells) /\ W \in Seq(Cells)
    BY <1>1, <1>13
  <2>2. /\ Len(rest \o W) = Len(rest) + Len(W)
        /\ Len(rest) \in Nat /\ Len(W) \in Nat
        /\ \A p \in 1 .. Len(rest) : (rest \o W)[p] = rest[p]
        /\ \A p \in 1 .. Len(W) : (rest \o W)[Len(rest) + p] = W[p]
    BY ONLY <2>1, ConcatParts
  <2> QED BY <1>12, <2>2
<1>4. /\ b2 \in Seq(Nat) /\ Len(b2) = N + 2
      /\ b2[N + 2] = b[N + 1] + WireLen(m)
      /\ \A k \in 1 .. (N + 1) : b2[k] = b[k] /\ b[k] \in Nat
  <2> DEFINE e == b[N + 1] + WireLen(m)
  <2>1. e \in Nat
    BY <1>1, <1>2, <1>3
  <2>2. b2 = Append(b, e)
    BY <1>15
  <2> HIDE DEF e
  <2>3. b2[N + 2] = e
    BY <1>2, <1>3, <2>1, <2>2
  <2>4. /\ b2 \in Seq(Nat) /\ Len(b2) = N + 2
        /\ \A k \in 1 .. (N + 1) : b2[k] = b[k] /\ b[k] \in Nat
    BY <1>2, <1>3, <2>1, <2>2
  <2> QED BY <2>3, <2>4 DEF e
<1>6. Placed(out2, b2)
  <2>1. ASSUME NEW k \in 1 .. (N + 1)
        PROVE  b2[k + 1] = b2[k] + WireLen(out2[k])
    <3>1. CASE k = N + 1
      BY <1>2, <1>4, <3>1
    <3>2. CASE k # N + 1
      <4>1. k \in 1 .. N /\ k + 1 \in 1 .. (N + 1) /\ k \in 1 .. (N + 1)
        BY <1>2, <3>2
      <4> QED BY <1>2, <1>3, <1>4, <4>1
    <3> QED BY <3>1, <3>2
  <2>2. ASSUME NEW j \in 1 .. (N + 2), NEW k \in 1 .. (N + 2), j <= k
        PROVE  b2[j] <= b2[k]
    <3>1. CASE k <= N + 1
      <4>1. j \in 1 .. (N + 1) /\ k \in 1 .. (N + 1)
        BY <1>2, <2>2, <3>1
      <4> QED BY <1>3, <1>4, <2>2, <4>1
    <3>2. CASE k = N + 2 /\ j = N + 2
      BY <1>2, <1>4, <3>2
    <3>3. CASE k = N + 2 /\ j <= N + 1
      <4>1. j \in 1 .. (N + 1) /\ N + 1 \in 1 .. (N + 1)
        BY <1>2, <3>3
      <4>2. b[j] <= b[N + 1] /\ b[j] \in Nat /\ b[N + 1] \in Nat
        <5>1. j <= N + 1
          BY <3>3
        <5>2. b[j] \in Nat /\ b[N + 1] \in Nat
          BY <1>4, <4>1
        <5>3. \A x, y \in 1 .. (N + 1) : x <= y => b[x] <= b[y]
          BY <1>3
        <5> QED BY <4>1, <5>1, <5>2, <5>3
      <4>3. b2[j] = b[j] /\ b2[k] = b[N + 1] + WireLen(m)
        BY <1>4, <3>3, <4>1
      <4>4. WireLen(m) \in Nat
        BY <1>1
      <4> QED BY <4>2, <4>3, <4>4
    <3> QED BY <1>2, <2>2, <3>1, <3>2, <3>3
  <2>3. Len(out2) + 1 = N + 2
    BY <1>2
  <2> QED BY <1>2, <1>4, <2>1, <2>2, <2>3 DEF Placed
<1>7. ASSUME NEW k \in 1 .. Len(out2), NEW j \in 1 .. Parts(out2[k]),
             NEW w \in 0 .. (HeaderLen + PartLen(out2[k], j) - 1),
             NEW p \in 1 .. Len(more),
             here + p = b2[k] + At(j) + w + 1
      PROVE  more[p] = Cell(out2[k], first2[k], j, w)
  <2> DEFINE o == At(j) + w + 1
  <2>1. CASE k = N + 1
    <3>1. out2[k] = m /\ b2[k] = b[N + 1] /\ first2[k] = f
          /\ b[N + 1] \in Nat
      BY <1>2, <1>4, <1>5, <2>1
    <3>2. o \in 1 .. WireLen(m) /\ W[o] = Cell(m, f, j, w)
      BY <1>1, <3>1
    <3>3. At(j) \in Int
      BY <1>0, <3>1, PartBounds
    <3>4. o = At(j) + w + 1
      OBVIOUS
    <3> HIDE DEF o
    <3>5. w \in Int
      OBVIOUS
    <3>6. p = Len(rest) + o
      <4>1. here + p = b[N + 1] + At(j) + w + 1
        BY <1>7, <3>1
      <4>2. Len(rest) = b[N + 1] - here /\ p \in Int
        BY <1>10, <1>13
      <4> DEFINE bn == b[N + 1]
                 a == At(j)
                 l == Len(rest)
      <4>3. /\ bn \in Nat /\ a \in Int /\ w \in Int /\ here \in Nat
            /\ p \in Int /\ l = bn - here /\ here + p = bn + a + w + 1
            /\ o = a + w + 1
        BY <1>0, <3>1, <3>3, <3>4, <3>5, <4>1, <4>2
      <4> HIDE DEF bn, a, l
      <4>4. p = l + o
        BY ONLY <4>3
      <4> QED BY <4>4 DEF l
    <3>7. more[Len(rest) + o] = W[o]
      BY <1>1, <1>10, <3>2
    <3> QED BY <3>1, <3>2, <3>6, <3>7
  <2>2. CASE k # N + 1
    <3>1. k \in 1 .. N /\ k \in 1 .. (N + 1) /\ k + 1 \in 1 .. (N + 1)
          /\ N + 1 \in 1 .. (N + 1)
      BY <1>2, <2>2
    <3>2. /\ out2[k] = out[k] /\ b2[k] = b[k] /\ first2[k] = first[k]
          /\ out[k] \in Messages /\ out[k].version = version
          /\ b[k] \in Nat /\ b[N + 1] \in Nat /\ b[k + 1] \in Nat
      BY <1>2, <1>4, <1>5, <1>14, <3>1
    <3>3. o \in 1 .. WireLen(out[k])
      BY <3>2, PlaceBound
    <3>4. b[k + 1] = b[k] + WireLen(out[k]) /\ b[k + 1] <= b[N + 1]
          /\ WireLen(out[k]) \in Int
      <4>1. WireLen(out[k]) \in Nat \ {0}
        BY <3>2, WireIs
      <4>2. b[k + 1] = b[k] + WireLen(out[k])
        BY <1>3, <3>1
      <4>3. k + 1 <= N + 1
        BY <1>2, <3>1
      <4>4. \A x, y \in 1 .. (N + 1) : x <= y => b[x] <= b[y]
        BY <1>3
      <4> QED BY <3>1, <4>1, <4>2, <4>3, <4>4
    <3>5. At(j) \in Int /\ w \in Int
      BY <3>2, PartBounds
    <3>6. p <= Len(rest)
      <4>1. here + p = b[k] + At(j) + w + 1
        BY <1>7, <3>2
      <4>2. Len(rest) = b[N + 1] - here /\ p \in Int
        BY <1>10, <1>13
      <4>3. At(j) + w + 1 <= WireLen(out[k])
        BY <3>3, <3>4
      <4> DEFINE bn == b[N + 1]
                 bk == b[k]
                 b1 == b[k + 1]
                 a == At(j)
                 l == Len(rest)
                 x == WireLen(out[k])
      <4>4. /\ bn \in Nat /\ bk \in Nat /\ a \in Int /\ w \in Int
            /\ here \in Nat /\ p \in Int /\ x \in Int /\ b1 \in Int
            /\ l = bn - here /\ here + p = bk + a + w + 1
            /\ a + w + 1 <= x /\ b1 = bk + x /\ b1 <= bn
        BY <1>0, <3>2, <3>4, <3>5, <4>1, <4>2, <4>3
      <4> HIDE DEF bn, bk, b1, a, l, x
      <4>5. p <= l
        BY ONLY <4>4
      <4> QED BY <4>5 DEF l
    <3>7. more[p] = rest[p]
      BY <1>10, <3>6
    <3>8. rest[p] = Cell(out[k], first[k], j, w)
      <4>1. k \in 1 .. Len(out) /\ p \in 1 .. Len(rest)
        BY <3>1, <3>6 DEF N
      <4>2. Spelled(out, first, b, here, rest)
        BY Zenon DEF Sent
      <4> QED BY ONLY <1>7, <3>2, <4>1, <4>2 DEF Spelled
    <3> QED BY <3>2, <3>7, <3>8
  <2> QED BY <2>1, <2>2
<1>8. Spelled(out2, first2, b2, here, more)
  BY <1>7 DEF Spelled
<1>9. Len(more) = b2[Len(out2) + 1] - here
  <2>1. Len(out2) + 1 = N + 2 /\ N + 1 \in 1 .. (N + 1)
    BY <1>2
  <2>2. Len(more) = (b[N + 1] - here) + WireLen(m) /\ b[N + 1] \in Nat
    BY <1>1, <1>4, <1>10, <1>13, <2>1
  <2>3. b2[Len(out2) + 1] = b[N + 1] + WireLen(m) /\ WireLen(m) \in Nat
    BY <1>1, <1>4, <2>1
  <2> QED BY <1>0, <2>2, <2>3
<1> QED BY <1>6, <1>8, <1>9, <1>11

---------------------------------------------------------------------------
(* What the receiver finds at the head of its buffer.                      *)

(* Where the ledger stands.                                                *)
LEMMA LedgerStands ==
  ASSUME Carried, NEW b, NEW first, NEW i, Ledger(b, first, i),
         NEW N, N = Len(outbox), NEW K, K = Len(inbox) + 1
  PROVE  /\ N \in Nat /\ K \in 1 .. (N + 1) /\ i \in Nat \ {0}
         /\ b[K] \in Nat /\ b[N + 1] \in Nat /\ At(i) \in Nat
         /\ HeaderTaken \in 0 .. HeaderLen /\ HeaderLen \in Nat \ {0}
         /\ Len(src) \in Nat /\ Len(stream) \in Nat
         /\ Len(src) + Len(stream) = b[N + 1] - (b[K] + At(i) + HeaderTaken)
         /\ Spelled(outbox, first, b, b[K] + At(i) + HeaderTaken,
                    src \o stream)
         /\ K <= N => /\ outbox[K] \in Messages /\ first[K] \in Nat
                      /\ outbox[K].version = version
                      /\ i \in 1 .. Parts(outbox[K])
                      /\ b[K + 1] = b[K] + WireLen(outbox[K])
                      /\ b[K + 1] \in Nat /\ b[K + 1] <= b[N + 1]
         /\ Len(src) + Len(stream) > 0 => K <= N
<1>1. /\ N \in Nat /\ K \in 1 .. (N + 1) /\ Len(src) \in Nat
      /\ Len(stream) \in Nat
      /\ \A k \in 1 .. N : outbox[k] \in Messages
                           /\ outbox[k].version = version
  BY DEF Carried
<1>2. /\ Placed(outbox, b) /\ first \in Seq(Nat) /\ Len(first) = N
      /\ i \in Nat \ {0}
      /\ K <= N => i \in 1 .. Parts(outbox[K])
      /\ K = N + 1 => i = 1 /\ pending = NoHeader
      /\ Len(src) + Len(stream) = b[N + 1] - (b[K] + At(i) + HeaderTaken)
      /\ Spelled(outbox, first, b, b[K] + At(i) + HeaderTaken, src \o stream)
  BY DEF Ledger
<1>3. /\ b \in Seq(Nat) /\ Len(b) = N + 1
      /\ \A k \in 1 .. N : b[k + 1] = b[k] + WireLen(outbox[k])
      /\ \A j, k \in 1 .. (N + 1) : j <= k => b[j] <= b[k]
  BY <1>2 DEF Placed
<1>4. b[K] \in Nat /\ b[N + 1] \in Nat
  BY <1>1, <1>3
<1>5. HeaderTaken \in 0 .. HeaderLen /\ HeaderLen \in Nat \ {0}
  BY FrameAssumption DEF HeaderTaken
<1>6. At(i) \in Nat /\ At(1) = 0
  <2>1. Unit \in Nat /\ i - 1 \in Nat
    BY <1>2, FrameAssumption DEF Unit
  <2>2. (i - 1) * Unit \in Nat /\ (1 - 1) * Unit = 0
    BY <2>1, SMT
  <2> QED BY <2>2 DEF At
<1>7. ASSUME K <= N
      PROVE  /\ outbox[K] \in Messages /\ first[K] \in Nat
             /\ outbox[K].version = version
             /\ b[K + 1] = b[K] + WireLen(outbox[K])
             /\ b[K + 1] \in Nat /\ b[K + 1] <= b[N + 1]
  <2>1. K \in 1 .. N /\ K + 1 \in 1 .. (N + 1) /\ N + 1 \in 1 .. (N + 1)
        /\ K + 1 <= N + 1
    BY <1>1, <1>7
  <2>2. first[K] \in Nat
    BY <1>2, <2>1
  <2>3. b[K + 1] \in Nat
    BY <1>3, <2>1
  <2>4. b[K + 1] <= b[N + 1]
    <3>1. \A j, k \in 1 .. (N + 1) : j <= k => b[j] <= b[k]
      BY <1>3
    <3> QED BY <2>1, <3>1
  <2> QED BY <1>1, <1>3, <2>1, <2>2, <2>3, <2>4
<1>8. ASSUME Len(src) + Len(stream) > 0 PROVE K <= N
  <2>1. SUFFICES ASSUME K = N + 1 PROVE FALSE
    BY <1>1
  <2>2. At(i) = 0 /\ HeaderTaken = 0
    BY <1>2, <1>6, <2>1 DEF HeaderTaken
  <2> DEFINE x == b[N + 1]
             y == Len(src) + Len(stream)
  <2>3. y = x - (x + 0 + 0) /\ x \in Nat
    BY <1>2, <1>4, <2>1, <2>2
  <2> HIDE DEF x
  <2>4. y = 0
    BY <2>3
  <2> QED BY <1>8, <2>4
<1> QED BY <1>1, <1>2, <1>4, <1>5, <1>6, <1>7, <1>8

(* The first n cells of the buffer are the next n of the current frame.    *)
LEMMA NextCells ==
  ASSUME Carried, NEW b, NEW first, NEW i, Ledger(b, first, i),
         NEW K, K = Len(inbox) + 1, K <= Len(outbox),
         NEW n \in Nat, n <= Len(src),
         HeaderTaken + n <= HeaderLen + PartLen(outbox[K], i),
         NEW p \in 1 .. n
  PROVE  src[p] = Cell(outbox[K], first[K], i, HeaderTaken + p - 1)
<1> DEFINE N == Len(outbox)
           here == b[K] + At(i) + HeaderTaken
           w == HeaderTaken + p - 1
           rest == src \o stream
<1>1. /\ N \in Nat /\ K \in 1 .. (N + 1) /\ b[K] \in Nat /\ At(i) \in Nat
      /\ HeaderTaken \in 0 .. HeaderLen /\ HeaderLen \in Nat \ {0}
      /\ Spelled(outbox, first, b, here, rest)
      /\ outbox[K] \in Messages /\ i \in 1 .. Parts(outbox[K])
  BY LedgerStands
<1>2. PartLen(outbox[K], i) \in Nat
  BY <1>1, PartBounds
<1>3. K \in 1 .. Len(outbox)
  BY <1>1
<1>4. w \in 0 .. (HeaderLen + PartLen(outbox[K], i) - 1)
  <2> DEFINE x == PartLen(outbox[K], i)
             h == HeaderTaken
  <2>1. /\ h + n <= HeaderLen + x /\ x \in Nat /\ h \in Nat /\ n \in Nat
        /\ HeaderLen \in Nat /\ p \in 1 .. n /\ w = h + p - 1
    BY <1>1, <1>2
  <2> HIDE DEF x, h, w
  <2>2. w \in 0 .. (HeaderLen + x - 1)
    BY ONLY <2>1
  <2> QED BY <2>2 DEF x
<1>5. here + p = b[K] + At(i) + w + 1
  <2> DEFINE x == b[K]
             y == At(i)
             h == HeaderTaken
  <2>1. /\ here = x + y + h /\ w = h + p - 1
        /\ x \in Nat /\ y \in Nat /\ h \in Nat /\ p \in Nat
    BY <1>1
  <2> HIDE DEF x, y, h, w, here
  <2>2. here + p = x + y + w + 1
    BY ONLY <2>1
  <2> QED BY <2>2 DEF x, y
<1>6. p \in 1 .. Len(rest) /\ rest[p] = src[p]
  <2>1. src \in Seq(Cells) /\ stream \in Seq(Cells)
    BY DEF Carried
  <2>2. /\ Len(src \o stream) = Len(src) + Len(stream)
        /\ Len(src) \in Nat /\ Len(stream) \in Nat
        /\ \A q \in 1 .. Len(src) : (src \o stream)[q] = src[q]
    BY ONLY <2>1, ConcatParts
  <2> QED BY <2>2
<1> HIDE DEF here, w, rest
<1>7. rest[p] = Cell(outbox[K], first[K], i, w)
  BY ONLY <1>1, <1>3, <1>4, <1>5, <1>6 DEF Spelled
<1> QED BY <1>6, <1>7 DEF w

(* Taking n cells off the buffer.                                          *)
LEMMA Consumed ==
  ASSUME Carried, NEW b, NEW first, NEW here \in Nat,
         Spelled(outbox, first, b, here, src \o stream),
         NEW n \in Nat, n <= Len(src),
         NEW left, left = SubSeq(src, n + 1, Len(src))
  PROVE  /\ left \in Seq(Cells) /\ Len(left) = Len(src) - n
         /\ Spelled(outbox, first, b, here + n, left \o stream)
<1> DEFINE l == Len(src) - n
<1>1. src \in Seq(Cells) /\ stream \in Seq(Cells) /\ l \in Nat
      /\ n + l = Len(src) /\ Len(src) \in Nat
  BY DEF Carried
<1> HIDE DEF l
<1>2. /\ SubSeq(src, n + 1, n + l) \in Seq(Cells)
      /\ Len(SubSeq(src, n + 1, n + l)) = l
      /\ SubSeq(src, n + 1, n + l) = [p \in 1 .. l |-> src[n + p]]
  BY ONLY <1>1, StretchIs, n \in Nat
<1>3. /\ left \in Seq(Cells) /\ Len(left) = l
      /\ \A p \in 1 .. l : left[p] = src[n + p]
  BY <1>1, <1>2
<1>4. /\ src \o stream \in Seq(Cells) /\ left \o stream \in Seq(Cells)
      /\ Len(src \o stream) = Len(src) + Len(stream)
      /\ Len(left \o stream) = Len(left) + Len(stream)
      /\ Len(stream) \in Nat
  BY ONLY <1>1, <1>3, ConcatParts
<1>5. /\ \A p \in 1 .. Len(src) : (src \o stream)[p] = src[p]
      /\ \A p \in 1 .. Len(stream) :
           (src \o stream)[Len(src) + p] = stream[p]
  BY ONLY <1>1, ConcatParts
<1>6. /\ \A p \in 1 .. Len(left) : (left \o stream)[p] = left[p]
      /\ \A p \in 1 .. Len(stream) :
           (left \o stream)[Len(left) + p] = stream[p]
  BY ONLY <1>1, <1>3, ConcatParts
<1> DEFINE new == left \o stream
           old == src \o stream
<1> HIDE DEF new, old
<1>7. ASSUME NEW p \in 1 .. Len(new) PROVE new[p] = old[n + p]
  <2>1. CASE p <= l
    <3>1. p \in 1 .. Len(left) /\ n + p \in 1 .. Len(src)
      BY <1>1, <1>3, <2>1
    <3> QED BY <1>3, <1>5, <1>6, <3>1 DEF new, old
  <2>2. CASE p > l
    <3> DEFINE q == p - l
    <3>1. /\ q \in 1 .. Len(stream) /\ p = Len(left) + q
          /\ n + p = Len(src) + q
      <4> DEFINE ls == Len(stream)
                 ln == Len(new)
      <4>1. ls \in Nat /\ ln = l + ls /\ p \in 1 .. ln
        BY <1>3, <1>4 DEF new
      <4> HIDE DEF ls, ln
      <4>2. q \in 1 .. ls /\ p = l + q /\ n + p = (n + l) + q
        BY <1>1, <2>2, <4>1
      <4> QED BY <1>1, <1>3, <4>2 DEF ls
    <3> HIDE DEF q
    <3> QED BY <1>5, <1>6, <3>1 DEF new, old
  <2> QED BY <1>1, <2>1, <2>2
<1>8. Len(old) = n + Len(new)
  <2>1. /\ Len(old) = Len(src) + Len(stream) /\ Len(new) = l + Len(stream)
        /\ Len(src) = n + l /\ Len(stream) \in Nat /\ l \in Nat
    BY <1>1, <1>3, <1>4 DEF new, old
  <2> DEFINE x == Len(stream)
             y == Len(old)
             z == Len(new)
             u == Len(src)
  <2>2. /\ y = u + x /\ z = l + x /\ u = n + l /\ x \in Nat /\ l \in Nat
        /\ n \in Nat
    BY <2>1
  <2> HIDE DEF x, y, z, u
  <2>3. y = n + z
    BY ONLY <2>2
  <2> QED BY <2>3 DEF y, z
<1>9. old \in Seq(Cells) /\ new \in Seq(Cells)
      /\ Spelled(outbox, first, b, here, old)
  BY <1>4 DEF new, old
<1>10. Spelled(outbox, first, b, here + n, new)
  BY <1>7, <1>8, <1>9, SpelledDrop
<1> QED BY <1>1, <1>3, <1>10 DEF new, l

(* Two neighbouring stretches make one.                                    *)
LEMMA StretchesJoin ==
  ASSUME NEW S, NEW s \in Seq(S), NEW a \in Nat, NEW l \in Nat,
         a + l <= Len(s)
  PROVE  SubSeq(s, 1, a) \o SubSeq(s, a + 1, a + l) = SubSeq(s, 1, a + l)
<1>1. /\ 0 + a <= Len(s) /\ 0 + (a + l) <= Len(s) /\ 0 + a = a
      /\ 0 + (a + l) = a + l /\ 0 + 1 = 1 /\ a + l \in Nat /\ 0 \in Nat
  OBVIOUS
<1>2. /\ SubSeq(s, 0 + 1, 0 + a) \in Seq(S)
      /\ Len(SubSeq(s, 0 + 1, 0 + a)) = a
      /\ SubSeq(s, 0 + 1, 0 + a) = [p \in 1 .. a |-> s[0 + p]]
  BY <1>1, StretchIs
<1>3. /\ SubSeq(s, a + 1, a + l) \in Seq(S)
      /\ Len(SubSeq(s, a + 1, a + l)) = l
      /\ SubSeq(s, a + 1, a + l) = [p \in 1 .. l |-> s[a + p]]
  BY StretchIs
<1>4. /\ SubSeq(s, 0 + 1, 0 + (a + l)) \in Seq(S)
      /\ Len(SubSeq(s, 0 + 1, 0 + (a + l))) = a + l
      /\ SubSeq(s, 0 + 1, 0 + (a + l)) = [p \in 1 .. (a + l) |-> s[0 + p]]
  BY <1>1, StretchIs
<1> DEFINE x == SubSeq(s, 1, a)
           y == SubSeq(s, a + 1, a + l)
           z == SubSeq(s, 1, a + l)
<1>5. /\ x \in Seq(S) /\ Len(x) = a /\ \A p \in 1 .. a : x[p] = s[p]
  BY <1>1, <1>2
<1>6. /\ y \in Seq(S) /\ Len(y) = l /\ \A p \in 1 .. l : y[p] = s[a + p]
  BY <1>3
<1>7. /\ z \in Seq(S) /\ Len(z) = a + l
      /\ \A p \in 1 .. (a + l) : z[p] = s[p]
  BY <1>1, <1>4
<1> HIDE DEF x, y, z
<1>8. x \o y = [p \in 1 .. (Len(x) + Len(y)) |->
                  IF p <= Len(x) THEN x[p] ELSE y[p - Len(x)]]
  <2>1. x \in Seq(S) /\ y \in Seq(S)
    BY <1>5, <1>6
  <2> QED BY ONLY <2>1, ConcatIs
<1>9. z = [p \in 1 .. Len(z) |-> z[p]]
  BY <1>7, SeqIs
<1>10. ASSUME NEW p \in 1 .. (a + l)
       PROVE  (IF p <= a THEN x[p] ELSE y[p - a]) = z[p]
  <2>1. CASE p <= a
    <3>1. p \in 1 .. a
      BY <2>1
    <3> QED BY <1>5, <1>7, <2>1, <3>1
  <2>2. CASE ~(p <= a)
    <3>1. p - a \in 1 .. l /\ a + (p - a) = p
      BY <2>2
    <3> QED BY <1>6, <1>7, <2>2, <3>1
  <2> QED BY <2>1, <2>2
<1>11. x \o y = z
  BY <1>5, <1>6, <1>7, <1>8, <1>9, <1>10
<1> QED BY <1>11 DEF x, y, z

(* Fragments in their order are accepted up to the cap, and the last one   *)
(* yields the message that was sent (Reassembler::push).                   *)
LEMMA PushIs ==
  ASSUME NEW m \in Messages, NEW f \in Nat, NEW i \in 1 .. Parts(m),
         Grouped(m, f, i, group, buffer),
         NEW r, r = Push(PartHeader(m, f, i), PartData(m, i))
  PROVE  \/ /\ r.err = "too_large" /\ r.out = <<>>
            /\ Len(m.data) > MaxPayload /\ Len(m.data) > Cap(m.type)
         \/ /\ i < Parts(m) /\ r.err = "none" /\ r.out = <<>>
            /\ Grouped(m, f, i + 1, r.group, r.buffer)
         \/ /\ i = Parts(m) /\ r.err = "none" /\ r.out = <<m>>
            /\ r.group = NoGroup
            /\ Len(m.data) <= MaxPayload \/ Len(m.data) <= Cap(m.type)
<1> DEFINE h == PartHeader(m, f, i)
           d == PartData(m, i)
           a == (i - 1) * MaxPayload
           all == IF group.open THEN buffer \o d ELSE d
           max == IF group.open THEN group.max ELSE Cap(h.type)
           err(why, g) == [err |-> why, group |-> g, buffer |-> buffer,
                           out |-> <<>>]
<1>1. /\ h.type = m.type /\ h.frag = (Len(m.data) > MaxPayload)
      /\ h.more = (i < Parts(m)) /\ h.version = m.version
      /\ Len(m.data) > MaxPayload => h.seq = (f + i - 1) % SequenceMod
  <2>1. Len(m.data) \in Nat /\ MaxPayload \in Nat
    BY FrameAssumption DEF Messages
  <2> QED BY <2>1 DEF PartHeader
<1>2. /\ m.data \in Seq(Bytes) /\ Len(m.data) \in Nat /\ Cap(m.type) \in Nat
      /\ MaxPayload \in Nat \ {0} /\ m.type \in Types
      /\ m = [type |-> m.type, version |-> m.version, data |-> m.data]
  BY FrameAssumption DEF Messages
<1>3. /\ i \in Nat \ {0} /\ Parts(m) \in Nat \ {0} /\ a \in Nat
      /\ i * MaxPayload = a + MaxPayload
      /\ PartLen(m, i) \in 0 .. MaxPayload
      /\ Upto(m, i) = a + PartLen(m, i) /\ Upto(m, i) <= Len(m.data)
      /\ i < Parts(m) => PartLen(m, i) = MaxPayload
      /\ i = Parts(m) => Upto(m, i) = Len(m.data)
      /\ Len(m.data) > MaxPayload => Parts(m) > 1
      /\ d = SubSeq(m.data, a + 1, Upto(m, i))
  BY PartBounds DEF PartData
<1>4. i = 1 => a = 0
  BY <1>2, SMT
<1>5. Len(m.data) <= MaxPayload => Parts(m) = 1
  BY DEF Parts
<1>6. all = SubSeq(m.data, 1, Upto(m, i))
  <2>1. CASE i = 1
    <3>1. ~group.open /\ a + 1 = 1
      BY <1>4, <2>1 DEF Grouped, NoGroup
    <3> QED BY <1>3, <3>1
  <2>2. CASE i # 1
    <3>1. group.open = TRUE /\ buffer = SubSeq(m.data, 1, a)
      BY <2>2 DEF Grouped
    <3> DEFINE s == m.data
               l == PartLen(m, i)
    <3>2. s \in Seq(Bytes) /\ a \in Nat /\ l \in Nat /\ a + l <= Len(s)
      BY <1>2, <1>3
    <3>3. d = SubSeq(s, a + 1, a + l) /\ buffer = SubSeq(s, 1, a)
          /\ Upto(m, i) = a + l
      BY <1>3, <3>1
    <3> HIDE DEF s, l, a, d
    <3>4. SubSeq(s, 1, a) \o SubSeq(s, a + 1, a + l) = SubSeq(s, 1, a + l)
      BY ONLY <3>2, StretchesJoin
    <3> QED BY <3>1, <3>3, <3>4 DEF s
  <2> QED BY <2>1, <2>2
<1>7. Len(all) = Upto(m, i)
  <2> DEFINE s == m.data
             u == Upto(m, i)
  <2>1. s \in Seq(Bytes) /\ u \in Nat /\ u <= Len(s)
    <3>1. s \in Seq(Bytes)
      BY <1>2
    <3>2. a \in Nat /\ PartLen(m, i) \in 0 .. MaxPayload
          /\ u = a + PartLen(m, i) /\ u <= Len(s) /\ MaxPayload \in Nat
      BY <1>2, <1>3
    <3> HIDE DEF s, u, a
    <3> QED BY <3>1, <3>2
  <2>2. all = SubSeq(s, 1, u)
    BY <1>6
  <2> HIDE DEF s, u, all
  <2>3. Len(SubSeq(s, 1, u)) = u
    BY <2>1
  <2> QED BY <2>2, <2>3 DEF u
<1>8. max = Cap(m.type)
  BY <1>1 DEF Grouped, NoGroup
<1>9. i = Parts(m) => all = m.data
  <2> DEFINE s == m.data
  <2>1. SubSeq(s, 1, Len(s)) = s
    <3>1. s \in Seq(Bytes)
      BY <1>2
    <3> HIDE DEF s
    <3> QED BY <3>1
  <2> QED BY <1>3, <1>6, <2>1
<1>10. r = IF ~h.frag
           THEN IF group.open THEN err("interleaved", group)
                ELSE [err |-> "none", group |-> group, buffer |-> buffer,
                      out |-> <<Whole(h, d)>>]
           ELSE IF group.open /\ h.type # group.type
           THEN err("interleaved", group)
           ELSE IF group.open /\ h.seq # group.next
           THEN err("out_of_order", group)
           ELSE IF Len(all) > max THEN err("too_large", NoGroup)
           ELSE IF h.more
           THEN [err |-> "none", buffer |-> all, out |-> <<>>,
                 group |-> [open |-> TRUE, type |-> h.type, max |-> max,
                            next |-> (h.seq + 1) % SequenceMod]]
           ELSE [err |-> "none", group |-> NoGroup, buffer |-> <<>>,
                 out |-> <<Whole(h, all)>>]
  BY DEF Push
<1> HIDE DEF h, d, all, max, a
<1>11. CASE Len(m.data) <= MaxPayload
  <2>1. i = 1 /\ Parts(m) = 1 /\ group = NoGroup /\ group.open = FALSE
        /\ h.frag = FALSE
    <3>1. i = 1 /\ Parts(m) = 1
      BY <1>3, <1>5, <1>11
    <3>2. group = NoGroup /\ group.open = FALSE
      BY <3>1 DEF Grouped, NoGroup
    <3>3. (Len(m.data) > MaxPayload) = FALSE
      BY <1>2, <1>11
    <3> QED BY <1>1, <3>1, <3>2, <3>3
  <2>2. r = [err |-> "none", group |-> group, buffer |-> buffer,
             out |-> <<Whole(h, d)>>]
    BY <1>10, <2>1
  <2>3. all = d
    BY <2>1 DEF all
  <2>4. Whole(h, d) = m
    BY <1>1, <1>2, <1>9, <2>1, <2>3 DEF Whole
  <2> QED BY <1>11, <2>1, <2>2, <2>4
<1>12. CASE Len(m.data) > MaxPayload
  <2>1. /\ h.frag = TRUE /\ h.seq = (f + i - 1) % SequenceMod
        /\ group.open => h.type = group.type /\ h.seq = group.next
    <3>1. CASE i = 1
      <4>1. group.open = FALSE
        BY <3>1 DEF Grouped, NoGroup
      <4> QED BY <1>1, <1>12, <4>1
    <3>2. CASE i # 1
      <4> DEFINE x == (f + i - 1) % SequenceMod
      <4>1. h.seq = x
        BY <1>1, <1>12
      <4>2. group = [open |-> TRUE, type |-> m.type, next |-> x,
                     max |-> Cap(m.type)]
        BY <3>2 DEF Grouped
      <4> HIDE DEF x
      <4>3. group.type = m.type /\ group.next = x
        BY <4>2
      <4> QED BY <1>1, <1>12, <4>1, <4>3 DEF x
    <3> QED BY <3>1, <3>2
  <2>2. r = IF Len(all) > max THEN err("too_large", NoGroup)
            ELSE IF h.more
            THEN [err |-> "none", buffer |-> all, out |-> <<>>,
                  group |-> [open |-> TRUE, type |-> h.type, max |-> max,
                             next |-> (h.seq + 1) % SequenceMod]]
            ELSE [err |-> "none", group |-> NoGroup, buffer |-> <<>>,
                  out |-> <<Whole(h, all)>>]
    BY <1>10, <2>1
  <2>3. CASE Len(all) > max
    <3>1. r.err = "too_large" /\ r.out = <<>>
      BY <2>2, <2>3
    <3>2. Len(m.data) > Cap(m.type)
      BY <1>2, <1>3, <1>7, <1>8, <2>3
    <3> QED BY <1>12, <3>1, <3>2
  <2>4. CASE ~(Len(all) > max) /\ i < Parts(m)
    <3>1. r = [err |-> "none", buffer |-> all, out |-> <<>>,
               group |-> [open |-> TRUE, type |-> h.type, max |-> max,
                          next |-> (h.seq + 1) % SequenceMod]]
      BY <1>1, <2>2, <2>4
    <3>2. (h.seq + 1) % SequenceMod = (f + (i + 1) - 1) % SequenceMod
      <4> DEFINE x == f + i - 1
      <4>1. x \in Nat /\ SequenceMod \in Nat \ {0} /\ x + 1 = f + (i + 1) - 1
        BY <1>3, FrameAssumption
      <4> HIDE DEF x
      <4>2. ((x % SequenceMod) + 1) % SequenceMod = (x + 1) % SequenceMod
        BY <4>1, NextRemainder
      <4> QED BY <2>1, <4>1, <4>2 DEF x
    <3>3. all = SubSeq(m.data, 1, ((i + 1) - 1) * MaxPayload)
      <4>1. (i + 1) - 1 = i
        BY <1>3
      <4>2. Upto(m, i) = i * MaxPayload
        BY <1>2, <1>3, <2>4
      <4> QED BY <1>6, <4>1, <4>2
    <3>4. i + 1 # 1
      BY <1>3
    <3>5. Grouped(m, f, i + 1, r.group, r.buffer)
      <4> DEFINE x == (h.seq + 1) % SequenceMod
                 y == (f + (i + 1) - 1) % SequenceMod
                 z == SubSeq(m.data, 1, ((i + 1) - 1) * MaxPayload)
      <4>1. /\ r.group = [open |-> TRUE, type |-> h.type, max |-> max,
                          next |-> x]
            /\ r.buffer = all
        BY <3>1
      <4>2. x = y /\ all = z
        BY <3>2, <3>3
      <4>3. Grouped(m, f, i + 1, r.group, r.buffer) =
              (/\ r.group = [open |-> TRUE, type |-> m.type, next |-> y,
                             max |-> Cap(m.type)]
               /\ r.buffer = z)
        BY <3>4 DEF Grouped
      <4> HIDE DEF x, y, z
      <4> QED BY <1>1, <1>8, <4>1, <4>2, <4>3
    <3> QED BY <2>4, <3>1, <3>5
  <2>5. CASE ~(Len(all) > max) /\ ~(i < Parts(m))
    <3>1. i = Parts(m)
      BY <1>3, <2>5
    <3>2. r = [err |-> "none", group |-> NoGroup, buffer |-> <<>>,
               out |-> <<Whole(h, all)>>]
      BY <1>1, <2>2, <2>5
    <3>3. Whole(h, all) = m
      BY <1>1, <1>2, <1>9, <3>1 DEF Whole
    <3>4. Len(m.data) <= Cap(m.type)
      BY <1>2, <1>3, <1>7, <1>8, <2>5, <3>1
    <3> QED BY <3>1, <3>2, <3>3, <3>4
  <2> QED BY <2>3, <2>4, <2>5
<1> QED BY <1>2, <1>11, <1>12

---------------------------------------------------------------------------
(* The invariant.                                                          *)

LEMMA StreamInvInit ==
  ASSUME StreamInit PROVE StreamInv
<1> DEFINE b == <<0>>
           first == <<>>
<1>1. Carried
  BY DEF StreamInit, Carried, Versions
<1>2. /\ outbox = <<>> /\ inbox = <<>> /\ pending = NoHeader
      /\ group = NoGroup /\ src = <<>> /\ stream = <<>>
  BY DEF StreamInit
<1>3. Placed(outbox, b)
  BY <1>2 DEF Placed
<1>4. Spelled(outbox, first, b, b[1] + At(1) + HeaderTaken, src \o stream)
  BY <1>2 DEF Spelled
<1>5. At(1) = 0 /\ HeaderTaken = 0
  <2>1. (1 - 1) * Unit = 0
    BY FrameAssumption, SMT DEF Unit
  <2> QED BY <1>2, <2>1 DEF At, HeaderTaken
<1>6. Len(src) + Len(stream) = b[1] - (b[1] + At(1) + HeaderTaken)
  BY <1>2, <1>5
<1>7. first \in Seq(Nat) /\ Len(first) = 0 /\ Len(outbox) = 0
      /\ Len(inbox) = 0
  BY <1>2
<1> HIDE DEF b, first
<1>8. Ledger(b, first, 1)
  BY <1>2, <1>3, <1>4, <1>6, <1>7 DEF Ledger
<1>9. Deserved
  BY DEF StreamInit, Deserved
<1> QED BY <1>1, <1>8, <1>9 DEF StreamInv

(* A message is sent.                                                      *)
LEMMA SendKeeps ==
  ASSUME StreamInv, NEW t \in Types, NEW n \in Lengths, Send(t, n)
  PROVE  StreamInv'
<1> DEFINE id == Len(outbox) + 1
           m == [type |-> t, version |-> version,
                 data |-> [i \in 1 .. n |-> <<id, i>>]]
<1>1. Carried
  BY DEF StreamInv
<1>2. m \in Messages /\ m.version = version
  <2>1. n \in Nat /\ id \in Nat
    BY <1>1, FrameAssumption DEF Carried
  <2>2. \A i \in 1 .. n : <<id, i>> \in Bytes
    BY <2>1 DEF Bytes
  <2>3. [i \in 1 .. n |-> <<id, i>>] \in Seq(Bytes)
    <3> HIDE DEF id
    <3> QED BY <2>1, <2>2
  <2> QED BY <1>1, <2>3 DEF Messages, Carried
<1>3. seq \in Nat
  BY <1>1 DEF Carried
<1>4. /\ outbox' = Append(outbox, m) /\ stream' = stream \o Wire(m, seq)
      /\ seq' = (seq + Len(Fragment(m, seq))) % SequenceMod
      /\ UNCHANGED <<version, src, pending, group, buffer, inbox, fault>>
  BY DEF Send, Wire
<1> HIDE DEF m
<1>5. /\ Wire(m, seq) \in Seq(Cells) /\ WireLen(m) \in Nat \ {0}
      /\ Len(Wire(m, seq)) = WireLen(m)
  BY <1>2, <1>3, WireIs
<1>6. seq' \in Nat
  <2>1. Len(Fragment(m, seq)) \in Nat
    <3>1. Fragment(m, seq) =
            [i \in 1 .. Parts(m) |-> [header |-> PartHeader(m, seq, i),
                                      data |-> PartData(m, i)]]
      BY <1>2, <1>3, FragmentIs
    <3>2. Parts(m) \in Nat
      BY <1>2, PartsNat
    <3> QED BY <3>1, <3>2
  <2> QED BY <1>3, <1>4, <2>1, FrameAssumption
<1>7. Carried'
  <2>1. stream' \in Seq(Cells) /\ src' \in Seq(Cells)
    BY <1>1, <1>4, <1>5 DEF Carried
  <2>2. outbox' \in Seq(Messages) /\ Len(outbox') = Len(outbox) + 1
    BY <1>1, <1>2, <1>4 DEF Carried
  <2>3. ASSUME NEW k \in 1 .. Len(outbox')
        PROVE  outbox'[k].version = version'
    BY <1>1, <1>2, <1>4 DEF Carried
  <2> QED BY <1>1, <1>4, <1>6, <2>1, <2>2, <2>3 DEF Carried
<1>8. ASSUME fault' = "none"
      PROVE  \E b, first, i : Ledger(b, first, i)'
  <2>1. PICK b, first, i : Ledger(b, first, i)
    BY <1>4, <1>8 DEF StreamInv
  <2> DEFINE N == Len(outbox)
             K == Len(inbox) + 1
             here == b[K] + At(i) + HeaderTaken
             rest == src \o stream
             more == src \o (stream \o Wire(m, seq))
             out2 == Append(outbox, m)
             first2 == Append(first, seq)
             b2 == Append(b, b[Len(outbox) + 1] + WireLen(m))
  <2>2. /\ N \in Nat /\ K \in 1 .. (N + 1) /\ i \in Nat \ {0}
        /\ b[K] \in Nat /\ b[N + 1] \in Nat /\ At(i) \in Nat
        /\ HeaderTaken \in 0 .. HeaderLen /\ HeaderLen \in Nat \ {0}
        /\ Len(src) \in Nat /\ Len(stream) \in Nat
        /\ Len(src) + Len(stream) = b[N + 1] - here
        /\ Spelled(outbox, first, b, here, rest)
    <3> HIDE DEF N, K
    <3>1. N = Len(outbox) /\ K = Len(inbox) + 1
      BY DEF N, K
    <3> QED BY <1>1, <2>1, <3>1, LedgerStands
  <2>3. /\ Placed(outbox, b) /\ first \in Seq(Nat) /\ Len(first) = N
        /\ \A k \in 1 .. Len(inbox) : inbox[k] = outbox[k]
        /\ K <= N => /\ i \in 1 .. Parts(outbox[K])
                     /\ Grouped(outbox[K], first[K], i, group, buffer)
        /\ K = N + 1 => i = 1 /\ pending = NoHeader /\ group = NoGroup
        /\ pending # NoHeader =>
             /\ pending = PartHeader(outbox[K], first[K], i)
             /\ version = PROTOCOL_VERSION
    BY ONLY <2>1 DEF Ledger
  <2>4. /\ rest \in Seq(Cells) /\ Len(rest) = Len(src) + Len(stream)
        /\ more = rest \o Wire(m, seq)
    <3>1. /\ src \in Seq(Cells) /\ stream \in Seq(Cells)
          /\ Wire(m, seq) \in Seq(Cells)
      BY <1>1, <1>5 DEF Carried
    <3>2. rest \in Seq(Cells) /\ Len(rest) = Len(src) + Len(stream)
      BY <3>1
    <3>3. (src \o stream) \o Wire(m, seq) = src \o (stream \o Wire(m, seq))
      <4> DEFINE W == Wire(m, seq)
      <4> HIDE DEF W
      <4>1. src \in Seq(Cells) /\ stream \in Seq(Cells) /\ W \in Seq(Cells)
        BY <3>1 DEF W
      <4>2. \A r, s, u \in Seq(Cells) : (r \o s) \o u = r \o (s \o u)
        BY ONLY ConcatJoins
      <4>3. (src \o stream) \o W = src \o (stream \o W)
        BY ONLY <4>1, <4>2, Zenon
      <4> QED BY <4>3 DEF W
    <3> QED BY <3>2, <3>3
  <2>5. here \in Nat
    BY <2>2
  <2>6. Sent(outbox, m, seq, first, b, rest, here)
    BY <1>1, <1>2, <1>3, <2>2, <2>3, <2>4, <2>5 DEF Sent, Carried
  <2>7. Longer(outbox, m, seq, first, b, rest, out2, first2, b2, more)
    BY <2>4 DEF Longer
  <2>8. /\ Placed(out2, b2) /\ Spelled(out2, first2, b2, here, more)
        /\ first2 \in Seq(Nat) /\ Len(first2) = Len(out2)
        /\ Len(more) = b2[Len(out2) + 1] - here
    <3> HIDE DEF out2, first2, b2, more, rest, here
    <3> QED BY <2>6, <2>7, SpelledMore
  <2>9. /\ Len(out2) = N + 1 /\ out2[N + 1] = m
        /\ \A k \in 1 .. N : out2[k] = outbox[k]
    <3>1. outbox \in Seq(Messages)
      BY <1>1 DEF Carried
    <3> QED BY ONLY <1>2, <3>1
  <2>10. b2[K] = b[K]
    <3>1. b \in Seq(Nat) /\ Len(b) = N + 1
      BY <2>3 DEF Placed
    <3>2. b[N + 1] + WireLen(m) \in Nat
      BY <1>5, <2>2
    <3> DEFINE e == b[N + 1] + WireLen(m)
    <3> HIDE DEF e
    <3> QED BY <2>2, <3>1, <3>2 DEF e
  <2>11. \A k \in 1 .. N : first2[k] = first[k]
    BY <1>3, <2>3
  <2>12. Len(more) = Len(src) + Len(stream')
    BY <1>1, <1>4, <1>5 DEF Carried
  <2>13. /\ HeaderTaken' = HeaderTaken /\ out2 = outbox'
         /\ more = src' \o stream' /\ K = (Len(inbox) + 1)'
    BY <1>4 DEF HeaderTaken
  <2> HIDE DEF out2, first2, b2, more, rest
  <2>14. ASSUME K <= N + 1
         PROVE  /\ i \in 1 .. Parts(out2[K])
                /\ Grouped(out2[K], first2[K], i, group, buffer)
    <3>1. CASE K <= N
      <4>1. K \in 1 .. N
        BY <2>2, <3>1
      <4> QED BY <2>3, <2>9, <2>11, <3>1, <4>1
    <3>2. CASE K = N + 1
      <4>1. i = 1 /\ group = NoGroup /\ out2[K] = m
        BY <2>3, <2>9, <3>2
      <4>2. Parts(m) \in Nat \ {0}
        BY <1>2, PartsNat
      <4> QED BY <4>1, <4>2 DEF Grouped
    <3> QED BY <2>2, <2>14, <3>1, <3>2
  <2>15. ASSUME pending # NoHeader
         PROVE  /\ pending = PartHeader(out2[K], first2[K], i)
                /\ version = PROTOCOL_VERSION
    <3>1. K \in 1 .. N
      BY <2>2, <2>3, <2>15
    <3> QED BY <2>3, <2>9, <2>11, <2>15, <3>1
  <2>16. \A k \in 1 .. Len(inbox) : inbox[k] = out2[k]
    <3>1. \A k \in 1 .. Len(inbox) : k \in 1 .. N
      BY <1>1 DEF Carried
    <3> QED BY <2>3, <2>9, <3>1
  <2>17. PICK bb, ff : bb = b2 /\ ff = first2
    OBVIOUS
  <2>18. Ledger(bb, ff, i)'
    <3>1. K # (N + 1) + 1
      BY <2>2
    <3>2. Len(src) + Len(stream') =
            b2[(N + 1) + 1] - (b2[K] + At(i) + HeaderTaken)
      BY <2>8, <2>9, <2>10, <2>12
    <3>3. Spelled(out2, first2, b2, b2[K] + At(i) + HeaderTaken, more)
      BY <2>8, <2>10
    <3>4. Len(outbox') = N + 1 /\ (Len(inbox) + 1)' = K
      BY <2>9, <2>13
    <3>5. /\ Placed(outbox', b2) /\ first2 \in Seq(Nat)
          /\ Len(first2) = Len(outbox')
          /\ \A k \in 1 .. Len(inbox') : inbox'[k] = outbox'[k]
          /\ i \in Nat \ {0}
      BY <1>4, <2>2, <2>8, <2>13, <2>16
    <3>6. /\ K <= Len(outbox') =>
               /\ i \in 1 .. Parts(outbox'[K])
               /\ Grouped(outbox'[K], first2[K], i, group', buffer')
          /\ K # Len(outbox') + 1
          /\ pending' # NoHeader =>
               /\ pending' = PartHeader(outbox'[K], first2[K], i)
               /\ version' = PROTOCOL_VERSION
      BY <1>4, <2>13, <2>14, <2>15, <3>1, <3>4
    <3>7. /\ Len(src') + Len(stream') =
               b2[Len(outbox') + 1] - (b2[K] + At(i) + HeaderTaken')
          /\ Spelled(outbox', first2, b2, b2[K] + At(i) + HeaderTaken',
                     src' \o stream')
      BY <1>4, <2>13, <3>2, <3>3, <3>4
    <3> HIDE DEF N, K
    <3>8. K = Len(inbox') + 1
      BY <3>4
    <3>9. /\ Placed(outbox', bb) /\ ff \in Seq(Nat)
          /\ Len(ff) = Len(outbox')
          /\ \A k \in 1 .. Len(inbox') : inbox'[k] = outbox'[k]
          /\ i \in Nat \ {0}
          /\ Len(inbox') + 1 <= Len(outbox') =>
               /\ i \in 1 .. Parts(outbox'[Len(inbox') + 1])
               /\ Grouped(outbox'[Len(inbox') + 1], ff[Len(inbox') + 1],
                          i, group', buffer')
          /\ Len(inbox') + 1 = Len(outbox') + 1 =>
               i = 1 /\ pending' = NoHeader /\ group' = NoGroup
          /\ pending' # NoHeader =>
               /\ pending' = PartHeader(outbox'[Len(inbox') + 1],
                                        ff[Len(inbox') + 1], i)
               /\ version' = PROTOCOL_VERSION
          /\ Len(src') + Len(stream') =
               bb[Len(outbox') + 1]
                 - (bb[Len(inbox') + 1] + At(i) + HeaderTaken')
          /\ Spelled(outbox', ff, bb,
                     bb[Len(inbox') + 1] + At(i) + HeaderTaken',
                     src' \o stream')
      BY <2>17, <3>5, <3>6, <3>7, <3>8
    <3> QED BY ONLY <3>9 DEF Ledger
  <2> QED BY <2>18
<1>9. Deserved'
  <2>1. /\ Len(inbox) + 1 \in 1 .. Len(outbox) =>
             /\ Len(inbox) + 1 \in 1 .. Len(outbox')
             /\ outbox'[Len(inbox) + 1] = outbox[Len(inbox) + 1]
    BY <1>1, <1>2, <1>4 DEF Carried
  <2>2. Deserved
    BY DEF StreamInv
  <2> QED BY <1>4, <2>1, <2>2 DEF Deserved, Accepted
<1> QED BY <1>7, <1>8, <1>9 DEF StreamInv

(* Bytes arrive.                                                           *)
LEMMA ArriveKeeps ==
  ASSUME StreamInv, NEW n \in 1 .. Len(stream), Arrive(n)
  PROVE  StreamInv'
<1>1. /\ Carried /\ Deserved /\ fault = "none"
      /\ src \in Seq(Cells) /\ stream \in Seq(Cells)
  BY DEF StreamInv, Arrive, Carried
<1>2. /\ src' = src \o SubSeq(stream, 1, n)
      /\ stream' = SubSeq(stream, n + 1, Len(stream))
      /\ UNCHANGED <<version, outbox, seq, pending, group, buffer, inbox,
                     fault>>
  BY DEF Arrive
<1>3. /\ SubSeq(stream, 1, n) \in Seq(Cells)
      /\ SubSeq(stream, n + 1, Len(stream)) \in Seq(Cells)
      /\ Len(SubSeq(stream, 1, n)) = n
      /\ Len(SubSeq(stream, n + 1, Len(stream))) = Len(stream) - n
      /\ Len(stream) \in Nat /\ Len(src) \in Nat
  BY <1>1
<1>4. SubSeq(stream, 1, n) \o SubSeq(stream, n + 1, Len(stream)) = stream
  <2> DEFINE l == Len(stream) - n
             L == Len(stream)
  <2>1. l \in Nat /\ n + l = L /\ L \in Nat /\ n \in Nat
    BY <1>3
  <2> HIDE DEF l
  <2>2. SubSeq(stream, 1, n) \o SubSeq(stream, n + 1, n + l)
          = SubSeq(stream, 1, n + l)
    BY <1>1, <2>1, StretchesJoin
  <2>3. SubSeq(stream, 1, Len(stream)) = stream
    BY <1>1
  <2> QED BY <2>1, <2>2, <2>3 DEF L
<1>5. src' \o stream' = src \o stream
  <2>0. PICK x, y : /\ x = SubSeq(stream, 1, n)
                    /\ y = SubSeq(stream, n + 1, Len(stream))
    OBVIOUS
  <2>1. x \in Seq(Cells) /\ y \in Seq(Cells) /\ x \o y = stream
    BY <1>3, <1>4, <2>0
  <2>2. src' = src \o x /\ stream' = y
    BY <1>2, <2>0
  <2>3. (src \o x) \o y = src \o (x \o y)
    <3>1. src \in Seq(Cells) /\ x \in Seq(Cells) /\ y \in Seq(Cells)
      BY <1>1, <2>1
    <3>2. \A s, t, u \in Seq(Cells) : (s \o t) \o u = s \o (t \o u)
      BY ONLY ConcatJoins
    <3> QED BY ONLY <3>1, <3>2, Zenon
  <2> QED BY <2>1, <2>2, <2>3
<1>6. /\ src' \in Seq(Cells) /\ stream' \in Seq(Cells)
      /\ Len(src') = Len(src) + n /\ Len(stream') = Len(stream) - n
  BY <1>1, <1>2, <1>3
<1>7. Carried' /\ Deserved'
  BY <1>1, <1>2, <1>6 DEF Carried, Deserved, Accepted
<1>8. PICK b, first, i : Ledger(b, first, i)
  BY <1>1 DEF StreamInv
<1>9. Len(src') + Len(stream') = Len(src) + Len(stream)
  BY <1>3, <1>6
<1>10. HeaderTaken' = HeaderTaken
  BY <1>2 DEF HeaderTaken
<1>11. Ledger(b, first, i)'
  BY <1>2, <1>5, <1>8, <1>9, <1>10 DEF Ledger
<1> QED BY <1>7, <1>11 DEF StreamInv

(* The reassembly deadline runs out.                                       *)
LEMMA TimeoutKeeps ==
  ASSUME StreamInv, ReassemblyTimeout PROVE StreamInv'
<1>1. /\ Carried /\ fault' = "timeout"
      /\ UNCHANGED <<version, outbox, seq, stream, src, pending, inbox>>
  BY DEF StreamInv, ReassemblyTimeout
<1>2. Carried'
  BY <1>1 DEF Carried
<1>3. Deserved'
  BY <1>1, Zenon DEF Deserved
<1> QED BY <1>1, <1>2, <1>3 DEF StreamInv

(* A header is parked, or refused for its version alone: what stands where *)
(* a header is due is always one.                                          *)
LEMMA TakeHeaderKeeps ==
  ASSUME StreamInv, TakeHeader PROVE StreamInv'
<1> DEFINE cells == SubSeq(src, 1, HeaderLen)
           why == HeaderFault(cells)
           left == SubSeq(src, HeaderLen + 1, Len(src))
           K == Len(inbox) + 1
<1>1. /\ Carried /\ Deserved /\ fault = "none" /\ pending = NoHeader
      /\ Len(src) >= HeaderLen
      /\ src \in Seq(Cells) /\ HeaderLen \in Nat \ {0}
  BY FrameAssumption DEF StreamInv, TakeHeader, Carried
<1>2. /\ src' = left
      /\ UNCHANGED <<version, outbox, seq, stream, group, buffer, inbox>>
      /\ why # "none" => fault' = why /\ pending' = pending
      /\ why = "none" => fault' = fault /\ pending' = cells[1].header
  BY DEF TakeHeader, Stop
<1>3. PICK b, first, i : Ledger(b, first, i)
  BY <1>1 DEF StreamInv
<1>4. HeaderTaken = 0
  BY <1>1 DEF HeaderTaken
<1>5. /\ K \in 1 .. Len(outbox) /\ outbox[K] \in Messages
      /\ outbox[K].version = version /\ first[K] \in Nat
      /\ i \in 1 .. Parts(outbox[K])
      /\ b[K] \in Nat /\ At(i) \in Nat
      /\ Len(src) + Len(stream) =
           b[Len(outbox) + 1] - (b[K] + At(i) + HeaderTaken)
      /\ b[Len(outbox) + 1] \in Nat
      /\ Len(src) \in Nat /\ Len(stream) \in Nat
      /\ Spelled(outbox, first, b, b[K] + At(i) + HeaderTaken, src \o stream)
  <2> HIDE DEF K
  <2>1. PICK N : N = Len(outbox)
    OBVIOUS
  <2>2. K = Len(inbox) + 1
    BY DEF K
  <2>3. /\ N \in Nat /\ K \in 1 .. (N + 1)
        /\ b[K] \in Nat /\ b[N + 1] \in Nat /\ At(i) \in Nat
        /\ Len(src) \in Nat /\ Len(stream) \in Nat
        /\ Len(src) + Len(stream) = b[N + 1] - (b[K] + At(i) + HeaderTaken)
        /\ Spelled(outbox, first, b, b[K] + At(i) + HeaderTaken,
                   src \o stream)
        /\ K <= N => /\ outbox[K] \in Messages /\ first[K] \in Nat
                     /\ outbox[K].version = version
                     /\ i \in 1 .. Parts(outbox[K])
        /\ Len(src) + Len(stream) > 0 => K <= N
    BY ONLY <1>1, <1>3, <2>1, <2>2, LedgerStands, SMTT(30)
  <2>4. K <= N
    BY <1>1, <2>3
  <2> QED BY <2>1, <2>3, <2>4
<1>6. PartLen(outbox[K], i) \in 0 .. MaxPayload
  BY <1>5, PartBounds
<1>7. ASSUME NEW p \in 1 .. HeaderLen
      PROVE  src[p] = Cell(outbox[K], first[K], i, p - 1)
  <2> HIDE DEF K
  <2>1. /\ K = Len(inbox) + 1 /\ K <= Len(outbox) /\ HeaderLen <= Len(src)
        /\ HeaderTaken + HeaderLen <= HeaderLen + PartLen(outbox[K], i)
        /\ HeaderTaken + p - 1 = p - 1
    BY <1>1, <1>4, <1>5, <1>6 DEF K
  <2>2. src[p] = Cell(outbox[K], first[K], i, HeaderTaken + p - 1)
    BY <1>1, <1>3, <2>1, NextCells
  <2> QED BY <2>1, <2>2
<1>8. /\ cells = [p \in 1 .. HeaderLen |-> src[p]]
      /\ DOMAIN cells = 1 .. HeaderLen
  <2>1. 0 + HeaderLen <= Len(src) /\ 0 + HeaderLen = HeaderLen
        /\ \A p \in 1 .. HeaderLen : 0 + p = p
    BY <1>1
  <2>2. SubSeq(src, 0 + 1, 0 + HeaderLen)
          = [p \in 1 .. HeaderLen |-> src[0 + p]]
    BY <1>1, <2>1, StretchIs
  <2>3. [p \in 1 .. HeaderLen |-> src[0 + p]]
          = [p \in 1 .. HeaderLen |-> src[p]]
    BY <2>1
  <2>4. 0 + 1 = 1
    OBVIOUS
  <2> QED BY <2>1, <2>2, <2>3, <2>4
<1> HIDE DEF cells, left
<1>9. ASSUME NEW p \in 1 .. HeaderLen
      PROVE  /\ cells[p].byte = <<0, p>>
             /\ cells[p].header = PartHeader(outbox[K], first[K], i)
  <2>1. p - 1 < HeaderLen /\ (p - 1) + 1 = p
    BY <1>1
  <2>2. cells[p] = Cell(outbox[K], first[K], i, p - 1)
    BY <1>7, <1>8
  <2>3. Cell(outbox[K], first[K], i, p - 1) =
          [of |-> "header", header |-> PartHeader(outbox[K], first[K], i),
           byte |-> <<0, (p - 1) + 1>>]
    BY <2>1, Zenon DEF Cell
  <2> QED BY <2>1, <2>2, <2>3
<1>10. /\ cells[1].header = PartHeader(outbox[K], first[K], i)
       /\ cells[1].header.version = version
       /\ cells[1].header.length = PartLen(outbox[K], i)
  <2>1. 1 \in 1 .. HeaderLen
    BY <1>1
  <2>2. cells[1].header = PartHeader(outbox[K], first[K], i)
    BY <1>9, <2>1
  <2>3. /\ PartHeader(outbox[K], first[K], i).version = outbox[K].version
        /\ PartHeader(outbox[K], first[K], i).length = PartLen(outbox[K], i)
    BY DEF PartHeader
  <2> QED BY <1>5, <2>2, <2>3
<1>11. /\ why \in {"none", "unsupported_version"}
       /\ why = "none" => version = PROTOCOL_VERSION
       /\ why # "none" => version # PROTOCOL_VERSION
  <2>1. ~(\E p \in DOMAIN cells : cells[p].byte # <<0, p>>)
    BY <1>8, <1>9
  <2>2. ~(cells[1].header.length > MaxPayload)
    <3> DEFINE x == PartLen(outbox[K], i)
    <3>1. x \in 0 .. MaxPayload /\ MaxPayload \in Nat
      BY <1>6, FrameAssumption
    <3> HIDE DEF x
    <3>2. ~(x > MaxPayload)
      BY <3>1
    <3> QED BY <1>10, <3>2 DEF x
  <2> QED BY <1>10, <2>1, <2>2, Zenon DEF HeaderFault
<1>12. left \in Seq(Cells)
  BY <1>1 DEF left
<1>13. Carried'
  BY <1>1, <1>2, <1>12 DEF Carried
<1>14. Deserved'
  BY <1>1, <1>2, <1>11 DEF Deserved
<1>15. ASSUME fault' = "none"
       PROVE  \E b1, first1, i1 : Ledger(b1, first1, i1)'
  <2>1. /\ why = "none" /\ version = PROTOCOL_VERSION
        /\ pending' = PartHeader(outbox[K], first[K], i)
    BY <1>2, <1>10, <1>11, <1>15
  <2>2. HeaderTaken' = HeaderLen
    <3>1. pending'.version = PROTOCOL_VERSION /\ NoHeader.version = 0
      BY <1>10, <2>1 DEF NoHeader
    <3>2. pending' # NoHeader
      BY <3>1 DEF PROTOCOL_VERSION
    <3> QED BY <3>2 DEF HeaderTaken
  <2> DEFINE here == b[K] + At(i)
  <2>3. here \in Nat /\ b[K] + At(i) + HeaderTaken = here
        /\ here + HeaderLen = b[K] + At(i) + HeaderTaken'
    <3> DEFINE x == b[K]
               y == At(i)
    <3>1. x \in Nat /\ y \in Nat
      BY <1>5
    <3>2. here = x + y
      OBVIOUS
    <3> HIDE DEF x, y, here
    <3>3. here \in Nat /\ x + y + 0 = here
      BY ONLY <3>1, <3>2
    <3> QED BY <1>4, <2>2, <3>2, <3>3 DEF x, y
  <2>4. /\ Len(left) = Len(src) - HeaderLen
        /\ Spelled(outbox, first, b, here + HeaderLen, left \o stream)
    <3> HIDE DEF here
    <3> QED BY <1>1, <1>5, <2>3, Consumed DEF left
  <2>5. Len(left) + Len(stream) = b[Len(outbox) + 1] - (here + HeaderLen)
    <3> DEFINE x == Len(src)
               y == Len(stream)
               z == b[Len(outbox) + 1]
               u == Len(left)
    <3>1. /\ u = x - HeaderLen /\ x + y = z - here
          /\ x \in Nat /\ y \in Nat /\ z \in Nat /\ here \in Nat
          /\ HeaderLen \in Nat
      BY <1>1, <1>5, <2>3, <2>4
    <3> HIDE DEF x, y, z, u, here
    <3>2. u + y = z - (here + HeaderLen)
      BY ONLY <3>1
    <3> QED BY <3>2 DEF y, z, u
  <2>6. /\ Placed(outbox, b) /\ first \in Seq(Nat)
        /\ Len(first) = Len(outbox)
        /\ \A k \in 1 .. Len(inbox) : inbox[k] = outbox[k]
        /\ i \in Nat \ {0}
        /\ Grouped(outbox[K], first[K], i, group, buffer)
        /\ K # Len(outbox) + 1
    BY <1>3, <1>5 DEF Ledger
  <2> HIDE DEF K, here
  <2>7. /\ Placed(outbox', b) /\ first \in Seq(Nat)
        /\ Len(first) = Len(outbox')
        /\ \A k \in 1 .. Len(inbox') : inbox'[k] = outbox'[k]
        /\ i \in Nat \ {0}
        /\ Len(inbox') + 1 # Len(outbox') + 1
        /\ i \in 1 .. Parts(outbox'[Len(inbox') + 1])
        /\ Grouped(outbox'[Len(inbox') + 1], first[Len(inbox') + 1], i,
                   group', buffer')
        /\ pending' = PartHeader(outbox'[Len(inbox') + 1],
                                 first[Len(inbox') + 1], i)
        /\ version' = PROTOCOL_VERSION
        /\ Len(src') + Len(stream') = b[Len(outbox') + 1]
             - (b[Len(inbox') + 1] + At(i) + HeaderTaken')
        /\ Spelled(outbox', first, b,
                   b[Len(inbox') + 1] + At(i) + HeaderTaken',
                   src' \o stream')
    <3>1. K = Len(inbox') + 1
      BY <1>2 DEF K
    <3> QED BY <1>2, <1>5, <2>1, <2>3, <2>4, <2>5, <2>6, <3>1
  <2>8. Ledger(b, first, i)'
    BY ONLY <2>7 DEF Ledger
  <2> QED BY <2>8
<1> QED BY <1>13, <1>14, <1>15 DEF StreamInv

(* The payload of the parked header is the frame's.                        *)
LEMMA PayloadIs ==
  ASSUME Carried, NEW b, NEW first, NEW i, Ledger(b, first, i),
         pending # NoHeader, Len(src) >= pending.length,
         NEW K, K = Len(inbox) + 1
  PROVE  /\ K \in 1 .. Len(outbox) /\ outbox[K] \in Messages
         /\ outbox[K].version = PROTOCOL_VERSION
         /\ first[K] \in Nat /\ i \in 1 .. Parts(outbox[K])
         /\ Grouped(outbox[K], first[K], i, group, buffer)
         /\ pending = PartHeader(outbox[K], first[K], i)
         /\ pending.length = PartLen(outbox[K], i)
         /\ PartLen(outbox[K], i) \in 0 .. MaxPayload
         /\ PartLen(outbox[K], i) <= Len(src)
         /\ HeaderTaken = HeaderLen
         /\ Contents(SubSeq(src, 1, pending.length))
              = PartData(outbox[K], i)
<1> DEFINE m == outbox[K]
           len == PartLen(m, i)
           a == (i - 1) * MaxPayload
<1>1. /\ Len(outbox) \in Nat /\ K \in 1 .. (Len(outbox) + 1)
      /\ K <= Len(outbox) => /\ m \in Messages /\ first[K] \in Nat
                             /\ m.version = version
                             /\ i \in 1 .. Parts(m)
      /\ HeaderLen \in Nat \ {0} /\ Len(src) \in Nat
  <2>1. PICK N : N = Len(outbox)
    OBVIOUS
  <2>2. /\ N \in Nat /\ K \in 1 .. (N + 1) /\ HeaderLen \in Nat \ {0}
        /\ Len(src) \in Nat
        /\ K <= N => /\ outbox[K] \in Messages /\ first[K] \in Nat
                     /\ outbox[K].version = version
                     /\ i \in 1 .. Parts(outbox[K])
    BY <2>1, LedgerStands
  <2> QED BY <2>1, <2>2
<1>2. /\ K <= Len(outbox)
      /\ Grouped(m, first[K], i, group, buffer)
      /\ pending = PartHeader(m, first[K], i) /\ version = PROTOCOL_VERSION
  <2>1. /\ K = Len(outbox) + 1 => pending = NoHeader
        /\ K <= Len(outbox) => Grouped(m, first[K], i, group, buffer)
        /\ pending = PartHeader(m, first[K], i) /\ version = PROTOCOL_VERSION
    BY DEF Ledger
  <2>2. K # Len(outbox) + 1
    BY <2>1
  <2>3. K <= Len(outbox)
    BY ONLY <1>1, <2>2
  <2> QED BY <2>1, <2>3
<1>3. /\ m \in Messages /\ first[K] \in Nat /\ m.version = version
      /\ i \in 1 .. Parts(m)
  BY <1>1, <1>2
<1> HIDE DEF m
<1>4. pending.length = len /\ HeaderTaken = HeaderLen
  BY <1>2 DEF PartHeader, HeaderTaken
<1>5. /\ len \in 0 .. MaxPayload /\ a \in Nat /\ Upto(m, i) = a + len
      /\ Upto(m, i) <= Len(m.data)
  BY <1>3, PartBounds
<1>6. m.data \in Seq(Bytes) /\ src \in Seq(Cells) /\ len <= Len(src)
  BY <1>3, <1>4 DEF Messages, Carried
<1> HIDE DEF len, a
<1>7. PartData(m, i) = [p \in 1 .. len |-> m.data[a + p]]
  <2> DEFINE z == m.data
  <2>1. z \in Seq(Bytes) /\ a \in Nat /\ len \in Nat /\ a + len <= Len(z)
    BY <1>5, <1>6
  <2> HIDE DEF z
  <2>2. SubSeq(z, a + 1, a + len) = [p \in 1 .. len |-> z[a + p]]
    BY ONLY <2>1, StretchIs
  <2> QED BY <1>5, <2>2 DEF z, PartData, a
<1>8. ASSUME NEW p \in 1 .. len
      PROVE  src[p].byte = m.data[a + p]
  <2>1. src[p] = Cell(m, first[K], i, HeaderTaken + p - 1)
    <3>1. /\ len \in Nat /\ len <= Len(src) /\ K <= Len(outbox)
          /\ HeaderTaken + len <= HeaderLen + PartLen(outbox[K], i)
      BY <1>1, <1>2, <1>4, <1>5, <1>6 DEF len, m
    <3> QED BY <3>1, NextCells DEF m
  <2> DEFINE w == HeaderTaken + p - 1
  <2>2. ~(w < HeaderLen) /\ a + (w - HeaderLen) + 1 = a + p
    BY <1>1, <1>4, <1>5
  <2>3. Cell(m, first[K], i, w).byte = m.data[a + (w - HeaderLen) + 1]
    <3> HIDE DEF w
    <3>1. Cell(m, first[K], i, w) =
            [of |-> "payload", header |-> NoHeader,
             byte |-> m.data[a + (w - HeaderLen) + 1]]
      BY <2>2, Zenon DEF Cell, a
    <3> QED BY <3>1
  <2> QED BY <2>1, <2>2, <2>3
<1>9. Contents(SubSeq(src, 1, len)) = [p \in 1 .. len |-> m.data[a + p]]
  <2>1. 0 + len <= Len(src) /\ 0 + len = len /\ 0 + 1 = 1 /\ len \in Nat
        /\ \A p \in 1 .. len : 0 + p = p
    BY <1>5, <1>6
  <2>2. SubSeq(src, 0 + 1, 0 + len) = [p \in 1 .. len |-> src[0 + p]]
    BY <1>6, <2>1, StretchIs
  <2>3. SubSeq(src, 1, len) = [p \in 1 .. len |-> src[p]]
    BY <2>1, <2>2
  <2> QED BY <1>8, <2>3 DEF Contents
<1> QED BY <1>1, <1>2, <1>3, <1>4, <1>5, <1>6, <1>7, <1>9 DEF m, len

(* What taking a payload does to the channel.                              *)
Heard ==
  \/ /\ fault' = "too_large" /\ inbox' = inbox
  \/ /\ fault' = "none" /\ inbox' = inbox
  \/ /\ fault' = "none" /\ Len(inbox) + 1 \in 1 .. Len(outbox)
     /\ Accepted(outbox[Len(inbox) + 1])
     /\ inbox' = Append(inbox, outbox[Len(inbox) + 1])

LEMMA TakePayloadKeeps ==
  ASSUME StreamInv, TakePayload PROVE StreamInv' /\ Heard
<1> DEFINE K == Len(inbox) + 1
           N == Len(outbox)
           m == outbox[K]
           left == SubSeq(src, pending.length + 1, Len(src))
           r == Push(pending, Contents(SubSeq(src, 1, pending.length)))
<1>1. /\ Carried /\ Deserved /\ fault = "none" /\ pending # NoHeader
      /\ Len(src) >= pending.length /\ src \in Seq(Cells)
      /\ Len(inbox) \in Nat /\ inbox \in Seq(Messages)
  BY DEF StreamInv, TakePayload, Carried
<1>2. /\ src' = left /\ pending' = NoHeader
      /\ UNCHANGED <<version, outbox, seq, stream>>
      /\ fault' = r.err /\ group' = r.group /\ buffer' = r.buffer
      /\ inbox' = inbox \o r.out
  BY DEF TakePayload
<1>3. PICK b, first, i : Ledger(b, first, i)
  BY <1>1 DEF StreamInv
<1> DEFINE len == PartLen(m, i)
           f == first[K]
<1>4. /\ K \in 1 .. N /\ m \in Messages /\ m.version = PROTOCOL_VERSION
      /\ f \in Nat /\ i \in 1 .. Parts(m)
      /\ Grouped(m, f, i, group, buffer)
      /\ pending = PartHeader(m, f, i) /\ pending.length = len
      /\ len \in 0 .. MaxPayload /\ len <= Len(src)
      /\ HeaderTaken = HeaderLen
      /\ Contents(SubSeq(src, 1, pending.length)) = PartData(m, i)
  <2> HIDE DEF K
  <2>1. K = Len(inbox) + 1
    BY DEF K
  <2> QED BY ONLY <1>1, <1>3, <2>1, PayloadIs
<1>5. /\ N \in Nat /\ b[K] \in Nat /\ At(i) \in Nat
      /\ HeaderLen \in Nat \ {0} /\ Len(src) \in Nat /\ Len(stream) \in Nat
      /\ Len(src) + Len(stream) = b[N + 1] - (b[K] + At(i) + HeaderTaken)
      /\ Spelled(outbox, first, b, b[K] + At(i) + HeaderTaken, src \o stream)
      /\ b[K + 1] = b[K] + WireLen(m) /\ b[N + 1] \in Nat
      /\ b[K + 1] \in Nat
  <2>0. K = Len(inbox) + 1 /\ N = Len(outbox) /\ K <= N
    BY <1>4
  <2> HIDE DEF K, N
  <2>1. /\ N \in Nat /\ b[K] \in Nat /\ At(i) \in Nat
        /\ HeaderLen \in Nat \ {0} /\ Len(src) \in Nat /\ Len(stream) \in Nat
        /\ Len(src) + Len(stream) = b[N + 1] - (b[K] + At(i) + HeaderTaken)
        /\ Spelled(outbox, first, b, b[K] + At(i) + HeaderTaken,
                   src \o stream)
        /\ b[N + 1] \in Nat
        /\ K <= N => b[K + 1] = b[K] + WireLen(outbox[K]) /\ b[K + 1] \in Nat
    BY ONLY <1>1, <1>3, <2>0, LedgerStands
  <2> QED BY <2>0, <2>1
<1>6. r = Push(PartHeader(m, f, i), PartData(m, i))
  BY <1>4
<1> HIDE DEF r, left, K, N, m, len, f
<1>7. \/ /\ r.err = "too_large" /\ r.out = <<>>
         /\ Len(m.data) > MaxPayload /\ Len(m.data) > Cap(m.type)
      \/ /\ i < Parts(m) /\ r.err = "none" /\ r.out = <<>>
         /\ Grouped(m, f, i + 1, r.group, r.buffer)
      \/ /\ i = Parts(m) /\ r.err = "none" /\ r.out = <<m>>
         /\ r.group = NoGroup
         /\ Len(m.data) <= MaxPayload \/ Len(m.data) <= Cap(m.type)
  BY ONLY <1>4, <1>6, PushIs
<1>8. /\ left \in Seq(Cells) /\ Len(left) = Len(src) - len
      /\ Spelled(outbox, first, b, b[K] + At(i) + HeaderLen + len,
                 left \o stream)
  <2> DEFINE here == b[K] + At(i) + HeaderTaken
  <2>1. /\ here \in Nat /\ len \in Nat /\ len <= Len(src)
        /\ left = SubSeq(src, len + 1, Len(src))
        /\ b[K] + At(i) + HeaderLen + len = here + len
    <3> DEFINE x == b[K]
               y == At(i)
    <3>1. /\ x \in Nat /\ y \in Nat /\ HeaderLen \in Nat
          /\ HeaderTaken = HeaderLen /\ len \in Nat
      BY <1>4, <1>5
    <3>2. here = x + y + HeaderTaken
      OBVIOUS
    <3> HIDE DEF x, y, here
    <3>3. here \in Nat /\ x + y + HeaderLen + len = here + len
      BY ONLY <3>1, <3>2
    <3> QED BY <1>4, <3>1, <3>3 DEF left, x, y
  <2>2. Spelled(outbox, first, b, here, src \o stream)
    BY <1>5
  <2> HIDE DEF here
  <2> QED BY ONLY <1>1, <2>1, <2>2, Consumed
<1>9. /\ inbox' \in Seq(Messages)
      /\ Len(inbox') = Len(inbox) \/ Len(inbox') = Len(inbox) + 1
  <2>1. CASE r.out = <<>>
    <3>1. inbox' = inbox
      BY <1>1, <1>2, <2>1
    <3> QED BY <1>1, <3>1
  <2>2. CASE r.out = <<m>>
    <3>1. inbox' = Append(inbox, m)
      BY <1>1, <1>2, <1>4, <2>2
    <3> QED BY <1>1, <1>4, <3>1
  <2> QED BY <1>7, <2>1, <2>2
<1>10. Carried'
  <2>1. Len(inbox') <= N
    BY <1>1, <1>4, <1>5, <1>9 DEF K
  <2> QED BY <1>1, <1>2, <1>8, <1>9, <2>1 DEF Carried, N
<1>11. Heard /\ Deserved'
  <2>1. CASE r.err = "too_large" /\ r.out = <<>>
             /\ Len(m.data) > MaxPayload /\ Len(m.data) > Cap(m.type)
    <3>1. fault' = "too_large" /\ inbox' = inbox
      BY <1>1, <1>2, <2>1
    <3>2. ~Accepted(m)
      <4> DEFINE x == Len(m.data)
                 c == Cap(m.type)
      <4>1. x \in Nat /\ c \in Nat /\ MaxPayload \in Nat
        BY <1>4, FrameAssumption DEF Messages
      <4>2. x > MaxPayload /\ x > c
        BY <2>1
      <4> HIDE DEF x, c
      <4>3. ~(x <= MaxPayload) /\ ~(x <= c)
        BY <4>1, <4>2
      <4> QED BY <4>3, Zenon DEF Accepted, x, c
    <3>3. ~Accepted(outbox[K]) /\ K \in 1 .. N
      BY <1>4, <3>2 DEF m
    <3>4. Deserved'
      <4>1. /\ Len(inbox') + 1 \in 1 .. Len(outbox')
            /\ ~Accepted(outbox'[Len(inbox') + 1])
        BY <1>2, <3>1, <3>3 DEF K, N, Accepted
      <4>2. Accepted(outbox'[Len(inbox') + 1])
              <=> Accepted(outbox[Len(inbox) + 1])'
        BY DEF Accepted
      <4> QED BY <3>1, <4>1, <4>2 DEF Deserved
    <3> QED BY <3>1, <3>4 DEF Heard
  <2>2. CASE r.err = "none" /\ r.out = <<>>
    <3>1. fault' = "none" /\ inbox' = inbox
      BY <1>1, <1>2, <2>2
    <3> QED BY <3>1 DEF Heard, Deserved
  <2>3. CASE r.err = "none" /\ r.out = <<m>>
             /\ (Len(m.data) <= MaxPayload \/ Len(m.data) <= Cap(m.type))
    <3>1. fault' = "none" /\ inbox' = Append(inbox, m)
      BY <1>1, <1>2, <1>4, <2>3
    <3>2. Accepted(m)
      BY <1>4, <2>3 DEF Accepted
    <3> QED BY <1>4, <3>1, <3>2 DEF Heard, Deserved, K, N, m
  <2> QED BY <1>7, <2>1, <2>2, <2>3
<1>12. /\ HeaderTaken' = 0
       /\ len \in Nat /\ i \in Nat \ {0} /\ Parts(m) \in Nat
       /\ i < Parts(m) => len = MaxPayload
       /\ At(i + 1) = At(i) + Unit /\ At(1) = 0
       /\ i = Parts(m) => b[K + 1] = b[K] + At(i) + HeaderLen + len
       /\ HeaderLen \in Nat /\ MaxPayload \in Nat
  <2>1. /\ i < Parts(m) => len = MaxPayload
        /\ At(i + 1) = At(i) + Unit /\ At(1) = 0
        /\ i \in Nat \ {0} /\ Parts(m) \in Nat
    BY <1>4, PartBounds DEF len
  <2>2. HeaderTaken' = 0
    BY <1>2 DEF HeaderTaken
  <2>3. ASSUME i = Parts(m)
        PROVE  b[K + 1] = b[K] + At(i) + HeaderLen + len
    <3>1. WireLen(m) = At(i) + HeaderLen + len
      BY <2>3 DEF WireLen, len
    <3> DEFINE x == b[K]
               y == At(i)
    <3>2. b[K + 1] = x + (y + HeaderLen + len) /\ x \in Nat /\ y \in Nat
          /\ len \in Nat /\ HeaderLen \in Nat
      BY <1>4, <1>5, <3>1
    <3> HIDE DEF x, y
    <3>3. b[K + 1] = x + y + HeaderLen + len
      BY ONLY <3>2
    <3> QED BY <3>3 DEF x, y
  <2> QED BY <1>4, <2>1, <2>2, <2>3, FrameAssumption
<1>13. Len(left) + Len(stream) =
         b[N + 1] - (b[K] + At(i) + HeaderLen + len)
  <2> DEFINE x == Len(src)
             y == Len(stream)
             z == b[N + 1]
             u == b[K]
             v == At(i)
             l == Len(left)
  <2>1. /\ x + y = z - (u + v + HeaderLen) /\ l = x - len
        /\ x \in Nat /\ y \in Nat /\ z \in Nat /\ u \in Nat /\ v \in Nat
        /\ len \in Nat /\ HeaderLen \in Nat
    BY <1>4, <1>5, <1>8, <1>12
  <2> HIDE DEF x, y, z, u, v, l
  <2>2. l + y = z - (u + v + HeaderLen + len)
    BY ONLY <2>1
  <2> QED BY <2>2 DEF y, z, u, v, l
<1>14. /\ Placed(outbox, b) /\ first \in Seq(Nat) /\ Len(first) = N
       /\ \A k \in 1 .. Len(inbox) : inbox[k] = outbox[k]
  BY <1>3 DEF Ledger, N
<1>15. ASSUME fault' = "none"
       PROVE  \E b1, first1, i1 : Ledger(b1, first1, i1)'
  <2>1. CASE /\ i < Parts(m) /\ r.err = "none" /\ r.out = <<>>
             /\ Grouped(m, f, i + 1, r.group, r.buffer)
    <3>1. inbox' = inbox
      BY <1>1, <1>2, <2>1
    <3>2. b[K] + At(i + 1) + HeaderTaken' = b[K] + At(i) + HeaderLen + len
      <4> DEFINE u == b[K]
                 v == At(i)
                 v1 == At(i + 1)
      <4>1. /\ v1 = v + (HeaderLen + MaxPayload) /\ HeaderTaken' = 0
            /\ len = MaxPayload /\ u \in Nat /\ v \in Nat
            /\ HeaderLen \in Nat /\ MaxPayload \in Nat
        BY <1>5, <1>12, <2>1 DEF Unit
      <4> HIDE DEF u, v, v1
      <4>2. u + v1 + HeaderTaken' = u + v + HeaderLen + len
        BY ONLY <4>1
      <4> QED BY <4>2 DEF u, v, v1
    <3>3. PICK j : j = i + 1
      OBVIOUS
    <3>4. j \in 1 .. Parts(m) /\ j \in Nat \ {0}
      BY <1>12, <2>1, <3>3
    <3>5. K = Len(inbox') + 1 /\ K # Len(outbox') + 1 /\ N = Len(outbox')
      BY <1>2, <1>4, <1>5, <3>1 DEF K, N
    <3>6. m = outbox'[K] /\ f = first[K]
      BY <1>2 DEF m, f
    <3>7. /\ Placed(outbox', b) /\ first \in Seq(Nat)
          /\ Len(first) = Len(outbox')
          /\ \A k \in 1 .. Len(inbox') : inbox'[k] = outbox'[k]
          /\ j \in Nat \ {0}
          /\ Len(inbox') + 1 # Len(outbox') + 1
          /\ j \in 1 .. Parts(outbox'[Len(inbox') + 1])
          /\ Grouped(outbox'[Len(inbox') + 1], first[Len(inbox') + 1], j,
                     group', buffer')
          /\ pending' = NoHeader
          /\ Len(src') + Len(stream') = b[Len(outbox') + 1]
               - (b[Len(inbox') + 1] + At(j) + HeaderTaken')
          /\ Spelled(outbox', first, b,
                     b[Len(inbox') + 1] + At(j) + HeaderTaken',
                     src' \o stream')
      BY <1>2, <1>8, <1>13, <1>14, <2>1, <3>1, <3>2, <3>3, <3>4, <3>5,
         <3>6
    <3>8. Ledger(b, first, j)'
      BY ONLY <3>7 DEF Ledger
    <3> QED BY <3>8
  <2>2. CASE i = Parts(m) /\ r.err = "none" /\ r.out = <<m>>
             /\ r.group = NoGroup
    <3>1. inbox' = Append(inbox, m)
      BY <1>1, <1>2, <1>4, <2>2
    <3>2. /\ K = Len(inbox) + 1 /\ Len(inbox') = K /\ inbox'[K] = m
          /\ \A k \in 1 .. Len(inbox) : inbox'[k] = inbox[k]
          /\ K \in Nat
      BY <1>1, <3>1 DEF K
    <3>3. b[K + 1] + At(1) + HeaderTaken' = b[K] + At(i) + HeaderLen + len
      <4> DEFINE u == b[K + 1]
                 v == b[K] + At(i) + HeaderLen + len
      <4>1. u = v /\ u \in Nat /\ At(1) = 0 /\ HeaderTaken' = 0
        BY <1>5, <1>12, <2>2
      <4> HIDE DEF u, v
      <4>2. u + At(1) + HeaderTaken' = v
        BY ONLY <4>1
      <4> QED BY <4>2 DEF u, v
    <3>4. ASSUME NEW k \in 1 .. Len(inbox') PROVE inbox'[k] = outbox'[k]
      <4>1. CASE k = K
        BY <1>2, <3>2, <4>1 DEF m
      <4>2. CASE k # K
        <5>1. k \in 1 .. Len(inbox)
          BY <1>1, <3>2, <4>2
        <5> QED BY <1>2, <1>14, <3>2, <5>1
      <4> QED BY <4>1, <4>2
    <3>5. ASSUME K + 1 <= N PROVE 1 \in 1 .. Parts(outbox[K + 1])
      <4>1. K + 1 \in 1 .. Len(outbox) /\ outbox \in Seq(Messages)
        BY <1>1, <1>5, <3>2, <3>5 DEF N, Carried
      <4>2. outbox[K + 1] \in Messages
        BY <4>1
      <4> QED BY <4>2, PartsNat
    <3>6. Grouped(outbox[K + 1], first[K + 1], 1, group', buffer')
      BY <1>2, <2>2 DEF Grouped
    <3>7. /\ Placed(outbox', b) /\ first \in Seq(Nat)
          /\ Len(first) = Len(outbox')
          /\ \A k \in 1 .. Len(inbox') : inbox'[k] = outbox'[k]
          /\ Len(inbox') + 1 <= Len(outbox') =>
               1 \in 1 .. Parts(outbox'[Len(inbox') + 1])
          /\ Grouped(outbox'[Len(inbox') + 1], first[Len(inbox') + 1], 1,
                     group', buffer')
          /\ pending' = NoHeader /\ group' = NoGroup
          /\ Len(src') + Len(stream') = b[Len(outbox') + 1]
               - (b[Len(inbox') + 1] + At(1) + HeaderTaken')
          /\ Spelled(outbox', first, b,
                     b[Len(inbox') + 1] + At(1) + HeaderTaken',
                     src' \o stream')
      BY <1>2, <1>8, <1>13, <1>14, <2>2, <3>2, <3>3, <3>4, <3>5, <3>6 DEF N
    <3>8. 1 \in Nat \ {0}
      OBVIOUS
    <3>9. Ledger(b, first, 1)'
      BY ONLY <3>7, <3>8 DEF Ledger
    <3> QED BY <3>9
  <2>3. r.err # "too_large"
    BY <1>2, <1>15
  <2> QED BY <1>7, <2>1, <2>2, <2>3
<1> QED BY <1>10, <1>11, <1>15 DEF StreamInv

LEMMA StreamStep ==
  ASSUME StreamInv, [StreamNext]_streamVars
  PROVE  StreamInv'
<1>1. ASSUME NEW t \in Types, NEW n \in Lengths, Send(t, n)
      PROVE  StreamInv'
  BY <1>1, SendKeeps
<1>2. ASSUME NEW n \in 1 .. Len(stream), Arrive(n)
      PROVE  StreamInv'
  BY <1>2, ArriveKeeps
<1>3. CASE TakeHeader
  BY <1>3, TakeHeaderKeeps
<1>4. CASE TakePayload
  BY <1>4, TakePayloadKeeps
<1>5. CASE ReassemblyTimeout
  BY <1>5, TimeoutKeeps
<1>6. CASE UNCHANGED streamVars
  <2>1. /\ UNCHANGED <<version, outbox, seq, stream, src, pending, group,
                       buffer, inbox, fault>>
        /\ HeaderTaken' = HeaderTaken
    BY <1>6 DEF streamVars, HeaderTaken
  <2>2. Carried' /\ Deserved'
    BY <2>1 DEF StreamInv, Carried, Deserved, Accepted
  <2>3. ASSUME NEW b, NEW first, NEW i, Ledger(b, first, i)
        PROVE  Ledger(b, first, i)'
    BY <2>1, <2>3 DEF Ledger
  <2> QED BY <2>1, <2>2, <2>3 DEF StreamInv
<1> QED BY <1>1, <1>2, <1>3, <1>4, <1>5, <1>6 DEF StreamNext

(* Every connection, of any cap, any frame size and any number of          *)
(* messages, keeps its ledger.                                             *)
LEMMA StreamAlways == StreamSpec => []StreamInv
<1>1. StreamInit => StreamInv
  BY StreamInvInit
<1>2. StreamInv /\ [StreamNext]_streamVars => StreamInv'
  BY StreamStep
<1> QED BY <1>1, <1>2, PTL DEF StreamSpec

(* A connection ends for no fault of the stream: the receiver never takes  *)
(* the wrong bytes for a header, finds a fragment out of order or mixes    *)
(* two messages (KdxCodec::decode, Reassembler::push).                     *)
THEOREM FaultsAreDeserved == StreamSpec => []Deserved
<1>1. StreamInv => Deserved
  BY DEF StreamInv
<1> QED BY <1>1, StreamAlways, PTL

---------------------------------------------------------------------------
(* The stream is a channel of messages.                                    *)

ChannelNext == Channel!Send \/ Channel!Receive \/ Channel!Break
channelVars == <<outbox, inbox, fault # "none">>

LEMMA ChannelStep ==
  ASSUME StreamInv, [StreamNext]_streamVars
  PROVE  [ChannelNext]_channelVars
<1>1. Carried
  BY DEF StreamInv
<1>2. ASSUME NEW t \in Types, NEW n \in Lengths, Send(t, n)
      PROVE  [ChannelNext]_channelVars
  <2>1. PICK m : outbox' = Append(outbox, m)
    BY <1>2 DEF Send
  <2>2. inbox' = inbox /\ fault' = fault
    BY <1>2 DEF Send
  <2>3. outbox \in Seq(Messages)
    BY <1>1 DEF Carried
  <2>4. /\ Len(outbox') = Len(outbox) + 1
        /\ SubSeq(outbox', 1, Len(outbox)) = outbox
    BY <2>1, <2>3
  <2>5. Channel!Send
    BY <2>2, <2>4 DEF Channel!Send
  <2> QED BY <2>5 DEF ChannelNext
<1>3. CASE TakePayload
  <2>1. Heard /\ fault = "none" /\ outbox' = outbox
    BY <1>3, TakePayloadKeeps DEF TakePayload
  <2>2. CASE fault' = "too_large" /\ inbox' = inbox
    BY <2>1, <2>2 DEF ChannelNext, Channel!Break
  <2>3. CASE fault' = "none" /\ inbox' = inbox
    BY <2>1, <2>3 DEF channelVars
  <2>4. CASE /\ fault' = "none" /\ Len(inbox) + 1 \in 1 .. Len(outbox)
             /\ Accepted(outbox[Len(inbox) + 1])
             /\ inbox' = Append(inbox, outbox[Len(inbox) + 1])
    <3>1. Len(inbox) < Len(outbox)
      BY <1>1, <2>4 DEF Carried
    <3>2. Channel!Receive
      BY <2>1, <2>4, <3>1 DEF Channel!Receive
    <3> QED BY <3>2 DEF ChannelNext
  <2> QED BY <2>1, <2>2, <2>3, <2>4 DEF Heard
<1>4. CASE TakeHeader
  <2>1. /\ fault = "none" /\ outbox' = outbox /\ inbox' = inbox
        /\ fault' = "none" \/ fault' # "none"
    BY <1>4 DEF TakeHeader, Stop
  <2>2. CASE fault' = "none"
    BY <2>1, <2>2 DEF channelVars
  <2>3. CASE fault' # "none"
    BY <2>1, <2>3 DEF ChannelNext, Channel!Break
  <2> QED BY <2>2, <2>3
<1>5. CASE ReassemblyTimeout
  BY <1>5 DEF ReassemblyTimeout, ChannelNext, Channel!Break
<1>6. ASSUME NEW n \in 1 .. Len(stream), Arrive(n)
      PROVE  [ChannelNext]_channelVars
  BY <1>6 DEF Arrive, channelVars
<1>7. CASE UNCHANGED streamVars
  BY <1>7 DEF streamVars, channelVars
<1> QED BY <1>2, <1>3, <1>4, <1>5, <1>6, <1>7 DEF StreamNext

(* However the stream cuts the bytes and whatever the sequence numbers     *)
(* wrap to, dispatch receives the messages sent, whole, once and in order, *)
(* and stops at the first one over its cap (KdxCodec::decode,              *)
(* Reassembler::push).                                                     *)
THEOREM StreamRefinesChannel == StreamSpec => StreamIsChannel
<1>1. StreamInit => Channel!Init
  BY DEF StreamInit, Channel!Init
<1>2. StreamInv /\ [StreamNext]_streamVars => [ChannelNext]_channelVars
  BY ChannelStep
<1> QED
  BY <1>1, <1>2, StreamAlways, PTL
     DEF StreamSpec, StreamIsChannel, Channel!Spec, ChannelNext, channelVars

=============================================================================
