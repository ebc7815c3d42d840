---------------------------- MODULE CarryProofs ----------------------------
(***************************************************************************)
(* Theorems about ClientTransfers, for any jobs, sizes of files and of the *)
(* window, versions of the remote file and limits.                         *)
(*                                                                         *)
(* The argument runs over what is on its way between the client and the    *)
(* server: every frame from the server, every one the server has not read  *)
(* yet and the chunk it is writing are matched, in their order, with the   *)
(* debts the client has noted (Linked); an id is told of before it is      *)
(* ended, and the end of every id the server works on, or has ended and    *)
(* not been heard about, is expected: its accept is still on its way, it   *)
(* is the running transfer's, or it was given up (IdsIn, Expected).        *)
(*                                                                         *)
(* What a download leaves needs an invariant over the disk besides.  A job *)
(* whose check began while no other was at work stays the only one, and at *)
(* each of its stations it is known which chunks are right; the partial is *)
(* neither the destination nor a file that a job writes to (Lone, Apart).  *)
(***************************************************************************)
EXTENDS ClientTransfers, FiniteSetTheorems, WellFoundedInduction, TLAPS

---------------------------------------------------------------------------
(* Transfers of a client: what is on its way, and what is owed for it.     *)

Ways == {"upload", "download"}
FromServer ==
  [type : {"Accept", "End"}, id : Nat, n : Nat, ver : 0..MaxVersions]
    \cup [type : {"Data"}, id : Nat, n : Pieces, ver : 0..MaxVersions]
    \cup [type : {"Pong", "Error"}]
FromClient ==
  [type : {"Start"}, way : Ways, have : SUBSET Pieces]
    \cup [type : {"Data", "End"}, id : Nat, n : Nat, ver : 0..MaxVersions]
    \cup [type : {"Ping"}]
Debts == [is : {"plain", "chunk", "start"}, gen : 0..Len(Jobs), n : Nat,
          error : BOOLEAN]

(* What is owed has numbers of its own, from b + 1 on.  The debt `at` of   *)
(* what the client is owed is for a request, or a barrier.                 *)
IsStart(ow, b, at) == at - b \in 1..Len(ow) /\ ow[at - b].is = "start"
IsBarrier(ow, b, at) == at - b \in 1..Len(ow) /\ ow[at - b].is # "start"

(* A frame from the server answers the debt x, and leaves y as the next;   *)
(* way tells what each job is, ups are the ids of uploads.                 *)
AnswerFits(m, ow, b, x, y, way, ups) ==
  /\ m.type = "Accept" =>
       /\ IsStart(ow, b, x) /\ y = x + 1
       /\ m.id \in ups <=> way[ow[x - b].gen] = "upload"
       /\ m.id \notin ups => m.ver \in 1..MaxVersions
  /\ m.type = "Pong" => IsBarrier(ow, b, x) /\ y = x + 1
  /\ m.type = "Error" => \/ IsStart(ow, b, x) /\ y = x + 1
                         \/ IsBarrier(ow, b, x) /\ y = x
  /\ m.type \in {"Data", "End"} => y = x

(* So will the answer to a frame from the client.                          *)
AskFits(m, ow, b, x, y, way) ==
  /\ m.type = "Start" => /\ IsStart(ow, b, x) /\ y = x + 1
                         /\ m.way = way[ow[x - b].gen]
  /\ m.type = "Ping" => IsBarrier(ow, b, x) /\ y = x + 1
  /\ m.type \in {"Data", "End"} => IsBarrier(ow, b, x) /\ y = x

Rising(f, n) == \A i, j \in 1..n : i <= j => f[i] <= f[j]

Unclosed(tc, ts, ow, w, way, ups, b, c, s, e) ==
  /\ Rising(c, Len(tc) + 1) /\ Rising(s, Len(ts) + 1)
  /\ c[1] = b + 1 /\ s[1] = c[Len(tc) + 1] /\ s[Len(ts) + 1] = e
  /\ \A k \in 1..Len(tc) :
       AnswerFits(tc[k], ow, b, c[k], c[k + 1], way, ups)
  /\ \A k \in 1..Len(ts) : AskFits(ts[k], ow, b, s[k], s[k + 1], way)
  /\ w # 0 => IsBarrier(ow, b, s[1])

Chained(tc, ts, ow, w, way, ups, b, c, s) ==
  Unclosed(tc, ts, ow, w, way, ups, b, c, s, b + Len(ow) + 1)

Linked(tc, ts, ow, w, way, ups) ==
  \E b \in Nat, c, s \in [Nat -> Nat] :
    Chained(tc, ts, ow, w, way, ups, b, c, s)

WayTable == [0..Len(Jobs) -> Ways]

(* Less is owed: a debt settled, one marked.                               *)
LEMMA DebtShift ==
  ASSUME NEW ow \in Seq(Debts), ow # <<>>, NEW b \in Nat, NEW x \in Nat,
         x # b + 1
  PROVE  /\ IsStart(ow, b, x) => IsStart(Tail(ow), b + 1, x)
         /\ IsBarrier(ow, b, x) => IsBarrier(Tail(ow), b + 1, x)
         /\ x - b \in 1..Len(ow) => ow[x - b] = Tail(ow)[x - (b + 1)]
  BY DEF IsStart, IsBarrier

(* More is owed.                                                            *)
LEMMA DebtGrows ==
  ASSUME NEW ow \in Seq(Debts), NEW d \in Debts, NEW b \in Nat, NEW x \in Nat
  PROVE  /\ IsStart(ow, b, x) => IsStart(Append(ow, d), b, x)
         /\ IsBarrier(ow, b, x) => IsBarrier(Append(ow, d), b, x)
         /\ x - b \in 1..Len(ow) => ow[x - b] = Append(ow, d)[x - b]
  BY DEF IsStart, IsBarrier

(* What fits one debt fits it in the new numbers.                          *)
LEMMA FitShift ==
  ASSUME NEW ow \in Seq(Debts), ow # <<>>, NEW b \in Nat, NEW x \in Nat,
         NEW y \in Nat, NEW way, NEW ups, NEW m, x # b + 1
  PROVE  /\ AnswerFits(m, ow, b, x, y, way, ups)
              => AnswerFits(m, Tail(ow), b + 1, x, y, way, ups)
         /\ AskFits(m, ow, b, x, y, way)
              => AskFits(m, Tail(ow), b + 1, x, y, way)
  BY DebtShift DEF AnswerFits, AskFits, IsStart

(* Nor does a new debt change what fitted.                                  *)
LEMMA FitGrows ==
  ASSUME NEW ow \in Seq(Debts), NEW d \in Debts, NEW b \in Nat,
         NEW x \in Nat, NEW y \in Nat, NEW way, NEW ups, NEW m
  PROVE  /\ AnswerFits(m, ow, b, x, y, way, ups)
              => AnswerFits(m, Append(ow, d), b, x, y, way, ups)
         /\ AskFits(m, ow, b, x, y, way)
              => AskFits(m, Append(ow, d), b, x, y, way)
  BY DebtGrows DEF AnswerFits, AskFits, IsStart

(* A rising function without its first value; with one value more.         *)
LEMMA RiseShift ==
  ASSUME NEW c \in [Nat -> Nat], NEW n \in Nat, Rising(c, n + 2)
  PROVE  \E d \in [Nat -> Nat] :
           /\ \A k \in Nat : d[k] = c[k + 1]
           /\ Rising(d, n + 1)
           /\ \A k \in 1..(n + 1) : d[k] \in Nat /\ c[2] <= d[k]
<1> DEFINE d == [k \in Nat |-> c[k + 1]]
<1>1. d \in [Nat -> Nat] /\ \A k \in Nat : d[k] = c[k + 1]
  OBVIOUS
<1> HIDE DEF d
<1>2. Rising(d, n + 1)
  BY <1>1 DEF Rising
<1>3. \A k \in 1..(n + 1) : d[k] \in Nat /\ c[2] <= d[k]
  BY <1>1 DEF Rising
<1> QED BY <1>1, <1>2, <1>3

(* A rising function is nowhere below its first value.                      *)
LEMMA RiseFrom ==
  ASSUME NEW s \in [Nat -> Nat], NEW m \in Nat, Rising(s, m + 1)
  PROVE  \A k \in 1..(m + 1) : s[k] \in Nat /\ s[1] <= s[k]
  BY DEF Rising

Extend(g, n, v) == [k \in Nat |-> IF k = n THEN v ELSE g[k]]
(* With one value more at its end it rises still.                           *)
LEMMA RiseMore ==
  ASSUME NEW g \in [Nat -> Nat], NEW z \in Nat, NEW v \in Nat,
         Rising(g, z + 1), g[z + 1] <= v
  PROVE  /\ Extend(g, z + 2, v) \in [Nat -> Nat]
         /\ Extend(g, z + 2, v)[z + 2] = v
         /\ Rising(Extend(g, z + 2, v), z + 2)
         /\ \A k \in 1..(z + 1) : Extend(g, z + 2, v)[k] = g[k]
<1> DEFINE h == [k \in Nat |-> IF k = z + 2 THEN v ELSE g[k]]
<1>1. /\ h \in [Nat -> Nat] /\ h[z + 2] = v
      /\ \A k \in 1..(z + 1) : h[k] = g[k]
  OBVIOUS
<1>e. h = Extend(g, z + 2, v)
  BY DEF Extend
<1> HIDE DEF h
<1>2. \A k \in 1..(z + 1) : g[k] <= v /\ g[k] \in Nat
  BY DEF Rising
<1>3. ASSUME NEW i \in 1..(z + 2), NEW j \in 1..(z + 2), i <= j
      PROVE  h[i] <= h[j]
  <2>1. CASE j = z + 2
    BY <1>1, <1>2, <2>1
  <2>2. CASE j \in 1..(z + 1)
    <3>1. i \in 1..(z + 1)
      BY <1>3, <2>2
    <3> QED BY <1>1, <1>3, <2>2, <3>1 DEF Rising
  <2> QED BY <2>1, <2>2
<1>4. Rising(h, z + 2)
  BY <1>3 DEF Rising
<1> QED BY <1>1, <1>4, <1>e

(* Facts of sequences, by name: the provers look them up one at a time.     *)
LEMMA TailIs ==
  ASSUME NEW S, NEW tc \in Seq(S), tc # <<>>
  PROVE  /\ Tail(tc) \in Seq(S) /\ Len(tc) \in Nat \ {0}
         /\ Len(Tail(tc)) = Len(tc) - 1
         /\ Head(tc) = tc[1] /\ Head(tc) \in S
         /\ \A k \in 1..Len(Tail(tc)) : Tail(tc)[k] = tc[k + 1]
  OBVIOUS

(* Where every debt is a later one, all that fitted fits.                  *)
LEMMA AnswersShift ==
  ASSUME NEW f, NEW n \in Nat, NEW d \in [Nat -> Nat], NEW ow \in Seq(Debts),
         ow # <<>>, NEW b \in Nat, NEW way, NEW ups,
         \A k \in 1..n : d[k] # b + 1,
         \A k \in 1..n : AnswerFits(f[k], ow, b, d[k], d[k + 1], way, ups)
  PROVE  \A k \in 1..n :
           AnswerFits(f[k], Tail(ow), b + 1, d[k], d[k + 1], way, ups)
<1> SUFFICES ASSUME NEW k \in 1..n
             PROVE  AnswerFits(f[k], Tail(ow), b + 1, d[k], d[k + 1],
                               way, ups)
  OBVIOUS
<1>1. d[k] \in Nat /\ d[k + 1] \in Nat /\ d[k] # b + 1
  OBVIOUS
<1>2. PICK x \in Nat, y \in Nat : x = d[k] /\ y = d[k + 1]
  BY <1>1
<1>3. AnswerFits(f[k], ow, b, x, y, way, ups)
  BY <1>2
<1> QED BY <1>1, <1>2, <1>3, FitShift

(* The same for the frames from the client.                                 *)
LEMMA AsksShift ==
  ASSUME NEW f, NEW n \in Nat, NEW d \in [Nat -> Nat], NEW ow \in Seq(Debts),
         ow # <<>>, NEW b \in Nat, NEW way,
         \A k \in 1..n : d[k] # b + 1,
         \A k \in 1..n : AskFits(f[k], ow, b, d[k], d[k + 1], way)
  PROVE  \A k \in 1..n : AskFits(f[k], Tail(ow), b + 1, d[k], d[k + 1], way)
<1> SUFFICES ASSUME NEW k \in 1..n
             PROVE  AskFits(f[k], Tail(ow), b + 1, d[k], d[k + 1], way)
  OBVIOUS
<1>1. d[k] \in Nat /\ d[k + 1] \in Nat /\ d[k] # b + 1
  OBVIOUS
<1>2. PICK x \in Nat, y \in Nat : x = d[k] /\ y = d[k + 1]
  BY <1>1
<1>3. AskFits(f[k], ow, b, x, y, way)
  BY <1>2
<1> QED BY <1>1, <1>2, <1>3, FitShift

(* Reading a frame that settles the first debt.                            *)
LEMMA SettledLinks ==
  ASSUME NEW tc \in Seq(FromServer), tc # <<>>, NEW ts \in Seq(FromClient),
         NEW ow \in Seq(Debts), NEW w, NEW way, NEW ups, NEW b \in Nat,
         NEW c \in [Nat -> Nat], NEW s \in [Nat -> Nat],
         Chained(tc, ts, ow, w, way, ups, b, c, s), ow # <<>>, c[2] = c[1] + 1
  PROVE  Linked(Tail(tc), ts, Tail(ow), w, way, ups)
<1>1. Len(Tail(tc)) \in Nat /\ Len(tc) = Len(Tail(tc)) + 1
  BY TailIs
<1>2. PICK n \in Nat : n = Len(Tail(tc)) /\ Len(tc) = n + 1
  BY ONLY <1>1
<1>3. \A k \in 1..Len(Tail(tc)) : Tail(tc)[k] = tc[k + 1]
  BY TailIs
<1>4. Len(ts) \in Nat
  OBVIOUS
<1>5. PICK m \in Nat : m = Len(ts)
  BY ONLY <1>4
<1>6. Len(ow) = Len(Tail(ow)) + 1 /\ Len(Tail(ow)) \in Nat
  BY TailIs
<1>7. /\ Chained(tc, ts, ow, w, way, ups, b, c, s) /\ c \in [Nat -> Nat]
      /\ s \in [Nat -> Nat] /\ b \in Nat /\ n \in Nat /\ m \in Nat
      /\ c[2] = c[1] + 1 /\ ow \in Seq(Debts) /\ ow # <<>>
  OBVIOUS
<1>8. /\ Rising(c, n + 2) /\ Rising(s, m + 1)
      /\ c[1] = b + 1 /\ s[1] = c[n + 2] /\ s[m + 1] = b + Len(ow) + 1
      /\ w # 0 => IsBarrier(ow, b, s[1])
      /\ \A k \in 1..(n + 1) :
           AnswerFits(tc[k], ow, b, c[k], c[k + 1], way, ups)
      /\ \A k \in 1..m : AskFits(ts[k], ow, b, s[k], s[k + 1], way)
  <2>1. Len(tc) + 1 = n + 2
    BY ONLY <1>2, <1>7
  <2> QED BY ONLY <1>2, <1>5, <1>7, <2>1 DEF Chained, Unclosed
<1>9. PICK d \in [Nat -> Nat] :
        /\ \A k \in Nat : d[k] = c[k + 1]
        /\ Rising(d, n + 1)
        /\ \A k \in 1..(n + 1) : d[k] \in Nat /\ c[2] <= d[k]
  BY ONLY <1>7, <1>8, RiseShift
<1>10. \A k \in 1..(m + 1) : s[k] \in Nat /\ s[1] <= s[k]
  BY ONLY <1>7, <1>8, RiseFrom
<1>11. c[2] = b + 2 /\ d[n + 1] = s[1] /\ d[1] = b + 2
  BY ONLY <1>7, <1>8, <1>9
<1>12. \A k \in 1..(n + 1) : d[k] # b + 1
  BY ONLY <1>7, <1>9, <1>11
<1>13. c[2] <= d[n + 1] /\ d[n + 1] \in Nat
  BY ONLY <1>7, <1>9
<1>14. \A k \in 1..(m + 1) : s[k] # b + 1
  BY ONLY <1>7, <1>10, <1>11, <1>13
<1>15. \A k \in 1..n :
         AnswerFits(tc[k + 1], ow, b, d[k], d[k + 1], way, ups)
  BY ONLY <1>7, <1>8, <1>9
<1>16. \A k \in 1..n :
         AnswerFits(Tail(tc)[k], ow, b, d[k], d[k + 1], way, ups)
  BY ONLY <1>2, <1>3, <1>7, <1>15
<1>17. \A k \in 1..n :
         AnswerFits(Tail(tc)[k], Tail(ow), b + 1, d[k], d[k + 1], way, ups)
  <2>1. \A k \in 1..n : d[k] # b + 1
    BY ONLY <1>7, <1>12
  <2>2. PICK f : f = Tail(tc)
    OBVIOUS
  <2> QED BY ONLY <1>7, <1>9, <1>16, <2>1, <2>2, AnswersShift
<1>18. \A k \in 1..m : AskFits(ts[k], Tail(ow), b + 1, s[k], s[k + 1], way)
  <2>1. \A k \in 1..m : s[k] # b + 1
    BY ONLY <1>7, <1>14
  <2> QED BY ONLY <1>7, <1>8, <2>1, AsksShift
<1>19. w # 0 => IsBarrier(Tail(ow), b + 1, s[1])
  <2>1. PICK x \in Nat : x = s[1]
    BY ONLY <1>7
  <2>2. x # b + 1
    BY ONLY <1>7, <1>14, <2>1
  <2> QED BY ONLY <1>7, <1>8, <2>1, <2>2, DebtShift
<1>20. /\ d[1] = (b + 1) + 1 /\ s[1] = d[n + 1]
       /\ s[m + 1] = (b + 1) + Len(Tail(ow)) + 1
  BY ONLY <1>6, <1>7, <1>8, <1>11
<1>21. Chained(Tail(tc), ts, Tail(ow), w, way, ups, b + 1, d, s)
  BY ONLY <1>2, <1>5, <1>8, <1>9, <1>17, <1>18, <1>19, <1>20
     DEF Chained, Unclosed
<1>22. b + 1 \in Nat
  BY ONLY <1>7
<1> QED BY ONLY <1>7, <1>9, <1>21, <1>22 DEF Linked

(* Reading one that settles none.                                          *)
LEMMA ReadLinks ==
  ASSUME NEW tc \in Seq(FromServer), tc # <<>>, NEW ts \in Seq(FromClient),
         NEW ow \in Seq(Debts), NEW w, NEW way, NEW ups, NEW b \in Nat,
         NEW c \in [Nat -> Nat], NEW s \in [Nat -> Nat],
         Chained(tc, ts, ow, w, way, ups, b, c, s), c[2] = c[1]
  PROVE  Linked(Tail(tc), ts, ow, w, way, ups)
<1>1. Len(Tail(tc)) \in Nat /\ Len(tc) = Len(Tail(tc)) + 1
  BY TailIs
<1>2. PICK n \in Nat : n = Len(Tail(tc)) /\ Len(tc) = n + 1
  BY ONLY <1>1
<1>3. \A k \in 1..Len(Tail(tc)) : Tail(tc)[k] = tc[k + 1]
  BY TailIs
<1>4. /\ Chained(tc, ts, ow, w, way, ups, b, c, s) /\ c \in [Nat -> Nat]
      /\ s \in [Nat -> Nat] /\ b \in Nat /\ n \in Nat /\ c[2] = c[1]
  OBVIOUS
<1>5. /\ Rising(c, n + 2) /\ c[1] = b + 1 /\ s[1] = c[n + 2]
      /\ \A k \in 1..(n + 1) :
           AnswerFits(tc[k], ow, b, c[k], c[k + 1], way, ups)
  <2>1. Len(tc) + 1 = n + 2
    BY ONLY <1>2, <1>4
  <2> QED BY ONLY <1>2, <1>4, <2>1 DEF Chained, Unclosed
<1>6. PICK d \in [Nat -> Nat] :
        /\ \A k \in Nat : d[k] = c[k + 1]
        /\ Rising(d, n + 1)
  BY ONLY <1>4, <1>5, RiseShift
<1>7. \A k \in 1..n :
        AnswerFits(tc[k + 1], ow, b, d[k], d[k + 1], way, ups)
  BY ONLY <1>4, <1>5, <1>6
<1>8. \A k \in 1..n :
        AnswerFits(Tail(tc)[k], ow, b, d[k], d[k + 1], way, ups)
  BY ONLY <1>2, <1>3, <1>4, <1>7
<1>9. d[1] = b + 1 /\ s[1] = d[n + 1]
  BY ONLY <1>4, <1>5, <1>6
<1>10. Chained(Tail(tc), ts, ow, w, way, ups, b, d, s)
  BY ONLY <1>2, <1>4, <1>6, <1>8, <1>9 DEF Chained, Unclosed
<1> QED BY ONLY <1>4, <1>6, <1>10 DEF Linked

(* Reading a frame from the server.                                        *)
LEMMA HeadLinks ==
  ASSUME NEW tc \in Seq(FromServer), tc # <<>>, NEW ts \in Seq(FromClient),
         NEW ow \in Seq(Debts), NEW w, NEW way, NEW ups,
         Linked(tc, ts, ow, w, way, ups)
  PROVE  /\ Head(tc).type \in {"Data", "End"}
              => Linked(Tail(tc), ts, ow, w, way, ups)
         /\ Head(tc).type = "Accept" =>
              /\ ow # <<>> /\ ow[1].is = "start"
              /\ Head(tc).id \in ups <=> way[ow[1].gen] = "upload"
              /\ Head(tc).id \notin ups => Head(tc).ver \in 1..MaxVersions
              /\ Linked(Tail(tc), ts, Tail(ow), w, way, ups)
         /\ Head(tc).type = "Pong" =>
              /\ ow # <<>> /\ ow[1].is # "start"
              /\ Linked(Tail(tc), ts, Tail(ow), w, way, ups)
         /\ Head(tc).type = "Error" =>
              /\ ow # <<>>
              /\ IF ow[1].is = "start"
                 THEN Linked(Tail(tc), ts, Tail(ow), w, way, ups)
                 ELSE Linked(Tail(tc), ts, ow, w, way, ups)
<1>1. PICK b \in Nat, c \in [Nat -> Nat], s \in [Nat -> Nat] :
        Chained(tc, ts, ow, w, way, ups, b, c, s)
  BY DEF Linked
<1>2. /\ c[1] = b + 1 /\ c[2] \in Nat
      /\ AnswerFits(Head(tc), ow, b, c[1], c[2], way, ups)
  <2>1. tc[1] = Head(tc) /\ 1 \in 1..Len(tc)
    BY TailIs
  <2>2. \A k \in 1..Len(tc) :
          AnswerFits(tc[k], ow, b, c[k], c[k + 1], way, ups)
    BY <1>1 DEF Chained, Unclosed
  <2>3. AnswerFits(tc[1], ow, b, c[1], c[1 + 1], way, ups)
    BY <2>1, <2>2
  <2> QED BY <1>1, <2>1, <2>3 DEF Chained, Unclosed
<1>3. /\ IsStart(ow, b, b + 1) => ow # <<>> /\ ow[1].is = "start"
      /\ IsBarrier(ow, b, b + 1) => ow # <<>> /\ ow[1].is # "start"
      /\ b + 1 - b = 1
  <2>1. b \in Nat
    OBVIOUS
  <2>2. b + 1 - b = 1
    BY ONLY <2>1
  <2>3. 1 \in 1..Len(ow) => ow # <<>>
    OBVIOUS
  <2>4. /\ IsStart(ow, b, b + 1) => 1 \in 1..Len(ow) /\ ow[1].is = "start"
        /\ IsBarrier(ow, b, b + 1) => 1 \in 1..Len(ow) /\ ow[1].is # "start"
    BY ONLY <2>2 DEF IsStart, IsBarrier
  <2> QED BY <2>2, <2>3, <2>4
<1>4. Head(tc).type \in {"Data", "End"} => c[2] = c[1]
  BY <1>2 DEF AnswerFits
<1>5. Head(tc).type = "Accept" =>
        /\ ow # <<>> /\ ow[1].is = "start" /\ c[2] = c[1] + 1
        /\ Head(tc).id \in ups <=> way[ow[1].gen] = "upload"
        /\ Head(tc).id \notin ups => Head(tc).ver \in 1..MaxVersions
  BY <1>2, <1>3 DEF AnswerFits
<1>6. Head(tc).type = "Pong" =>
        ow # <<>> /\ ow[1].is # "start" /\ c[2] = c[1] + 1
  BY <1>2, <1>3 DEF AnswerFits
<1>7. Head(tc).type = "Error" =>
        \/ ow # <<>> /\ ow[1].is = "start" /\ c[2] = c[1] + 1
        \/ ow # <<>> /\ ow[1].is # "start" /\ c[2] = c[1]
  BY <1>2, <1>3 DEF AnswerFits
<1>8. c[2] = c[1] => Linked(Tail(tc), ts, ow, w, way, ups)
  BY <1>1, ReadLinks
<1>9. ow # <<>> /\ c[2] = c[1] + 1
        => Linked(Tail(tc), ts, Tail(ow), w, way, ups)
  BY <1>1, SettledLinks
<1> QED BY <1>4, <1>5, <1>6, <1>7, <1>8, <1>9

(* A debt may be marked; what a frame answers stays.                       *)
LEMMA MarkLinks ==
  ASSUME NEW tc, NEW ts, NEW ow, NEW ow2, NEW w, NEW way, NEW ups,
         Len(ow2) = Len(ow),
         \A k \in 1..Len(ow) : /\ ow2[k].is = ow[k].is
                               /\ ow2[k].gen = ow[k].gen,
         Linked(tc, ts, ow, w, way, ups)
  PROVE  Linked(tc, ts, ow2, w, way, ups)
<1>1. PICK b \in Nat, c \in [Nat -> Nat], s \in [Nat -> Nat] :
        Chained(tc, ts, ow, w, way, ups, b, c, s)
  BY DEF Linked
<1>2. \A x : /\ IsStart(ow, b, x) <=> IsStart(ow2, b, x)
             /\ IsBarrier(ow, b, x) <=> IsBarrier(ow2, b, x)
             /\ IsStart(ow, b, x) => ow2[x - b].gen = ow[x - b].gen
  BY DEF IsStart, IsBarrier
<1>3. \A m, x, y : /\ AnswerFits(m, ow, b, x, y, way, ups)
                        => AnswerFits(m, ow2, b, x, y, way, ups)
                   /\ AskFits(m, ow, b, x, y, way)
                        => AskFits(m, ow2, b, x, y, way)
  BY ONLY <1>2 DEF AnswerFits, AskFits
<1>4. Chained(tc, ts, ow2, w, way, ups, b, c, s)
  BY <1>1, <1>2, <1>3 DEF Chained, Unclosed
<1> QED BY <1>1, <1>4 DEF Linked

(* A job's way is set before anything is asked for it; ids are handed out  *)
(* before anything tells of them.                                          *)
LEMMA NewNamesLink ==
  ASSUME NEW tc, NEW ts, NEW ow, NEW w, NEW way, NEW ups, NEW way2, NEW ups2,
         \A k \in 1..Len(ow) : way2[ow[k].gen] = way[ow[k].gen],
         \A k \in 1..Len(tc) :
           tc[k].type = "Accept" => (tc[k].id \in ups2 <=> tc[k].id \in ups),
         Linked(tc, ts, ow, w, way, ups)
  PROVE  Linked(tc, ts, ow, w, way2, ups2)
<1>1. PICK b \in Nat, c \in [Nat -> Nat], s \in [Nat -> Nat] :
        Chained(tc, ts, ow, w, way, ups, b, c, s)
  BY DEF Linked
<1>2. \A x : IsStart(ow, b, x) => way2[ow[x - b].gen] = way[ow[x - b].gen]
  BY DEF IsStart
<1>3. \A k \in 1..Len(tc) :
        AnswerFits(tc[k], ow, b, c[k], c[k + 1], way2, ups2)
  BY <1>1, <1>2 DEF AnswerFits, Chained, Unclosed
<1>4. \A k \in 1..Len(ts) : AskFits(ts[k], ow, b, s[k], s[k + 1], way2)
  BY <1>1, <1>2 DEF AskFits, Chained, Unclosed
<1>5. Chained(tc, ts, ow, w, way2, ups2, b, c, s)
  BY <1>1, <1>3, <1>4 DEF Chained, Unclosed
<1> QED BY <1>1, <1>5 DEF Linked

(* An appended sequence, element by element.                                *)
LEMMA AppendIs ==
  ASSUME NEW S, NEW q \in Seq(S), NEW e \in S
  PROVE  /\ Append(q, e) \in Seq(S) /\ Len(q) \in Nat
         /\ Len(Append(q, e)) = Len(q) + 1
         /\ Append(q, e)[Len(q) + 1] = e
         /\ \A k \in 1..Len(q) : Append(q, e)[k] = q[k]
  OBVIOUS

(* More is owed, and one more frame is on its way to the server.           *)
LEMMA DebtAdded ==
  ASSUME NEW tc, NEW ts, NEW ow \in Seq(Debts), NEW d \in Debts, NEW w,
         NEW way, NEW ups, NEW b \in Nat, NEW c \in [Nat -> Nat],
         NEW s \in [Nat -> Nat], NEW e, NEW n \in Nat, NEW m \in Nat,
         n = Len(tc), m = Len(ts),
         Unclosed(tc, ts, ow, w, way, ups, b, c, s, e)
  PROVE  Unclosed(tc, ts, Append(ow, d), w, way, ups, b, c, s, e)
<1> DEFINE ow2 == Append(ow, d)
<1>1. \A x, y \in Nat :
        /\ \A f : /\ AnswerFits(f, ow, b, x, y, way, ups)
                       => AnswerFits(f, ow2, b, x, y, way, ups)
                  /\ AskFits(f, ow, b, x, y, way)
                       => AskFits(f, ow2, b, x, y, way)
        /\ IsBarrier(ow, b, x) => IsBarrier(ow2, b, x)
  BY FitGrows, DebtGrows
<1>2. /\ c \in [Nat -> Nat] /\ s \in [Nat -> Nat] /\ n \in Nat /\ m \in Nat
      /\ n = Len(tc) /\ m = Len(ts)
      /\ Unclosed(tc, ts, ow, w, way, ups, b, c, s, e)
  OBVIOUS
<1> HIDE DEF ow2
<1>3. \A k \in 1..n : /\ c[k] \in Nat /\ c[k + 1] \in Nat
                      /\ AnswerFits(tc[k], ow, b, c[k], c[k + 1], way, ups)
  BY ONLY <1>2 DEF Unclosed
<1>4. \A k \in 1..m : /\ s[k] \in Nat /\ s[k + 1] \in Nat
                      /\ AskFits(ts[k], ow, b, s[k], s[k + 1], way)
  BY ONLY <1>2 DEF Unclosed
<1>5. \A k \in 1..n : AnswerFits(tc[k], ow2, b, c[k], c[k + 1], way, ups)
  BY ONLY <1>1, <1>3
<1>6. \A k \in 1..m : AskFits(ts[k], ow2, b, s[k], s[k + 1], way)
  BY ONLY <1>1, <1>4
<1>7. s[1] \in Nat /\ (w # 0 => IsBarrier(ow, b, s[1]))
  BY ONLY <1>2 DEF Unclosed
<1>8. w # 0 => IsBarrier(ow2, b, s[1])
  BY ONLY <1>1, <1>7
<1>9. Unclosed(tc, ts, ow2, w, way, ups, b, c, s, e)
  BY ONLY <1>2, <1>5, <1>6, <1>8 DEF Unclosed
<1> QED BY <1>9 DEF ow2

(* A frame from the client that settles as many debts as its answer will.   *)
LEMMA FrameAdded ==
  ASSUME NEW tc, NEW ts, NEW q, NEW f, NEW m \in Nat, m = Len(ts),
         m + 1 = Len(q), q[m + 1] = f, \A k \in 1..m : q[k] = ts[k],
         NEW ow, NEW w, NEW way, NEW ups, NEW b \in Nat,
         NEW c \in [Nat -> Nat], NEW s \in [Nat -> Nat], NEW e \in Nat,
         NEW e2 \in Nat, e <= e2,
         Unclosed(tc, ts, ow, w, way, ups, b, c, s, e),
         AskFits(f, ow, b, e, e2, way)
  PROVE  \E t \in [Nat -> Nat] :
           Unclosed(tc, q, ow, w, way, ups, b, c, t, e2)
<1>1. /\ s \in [Nat -> Nat] /\ m \in Nat /\ e2 \in Nat /\ e \in Nat
      /\ e <= e2
  OBVIOUS
<1>2. /\ Unclosed(tc, ts, ow, w, way, ups, b, c, s, e)
      /\ m = Len(ts) /\ m + 1 = Len(q)
  OBVIOUS
<1>3. AskFits(f, ow, b, e, e2, way) /\ q[m + 1] = f
  OBVIOUS
<1>4. \A k \in 1..m : q[k] = ts[k]
  OBVIOUS
<1>5. /\ Rising(s, m + 1) /\ s[m + 1] = e
      /\ \A k \in 1..m : AskFits(ts[k], ow, b, s[k], s[k + 1], way)
  BY ONLY <1>2 DEF Unclosed
<1>6. Rising(s, m + 1) /\ s[m + 1] <= e2
  BY ONLY <1>1, <1>5
<1>7. PICK t \in [Nat -> Nat] :
        /\ t[m + 2] = e2 /\ Rising(t, m + 2)
        /\ \A k \in 1..(m + 1) : t[k] = s[k]
  <2> DEFINE u == Extend(s, m + 2, e2)
  <2>1. /\ u \in [Nat -> Nat] /\ u[m + 2] = e2 /\ Rising(u, m + 2)
        /\ \A k \in 1..(m + 1) : u[k] = s[k]
    BY ONLY <1>1, <1>6, RiseMore
  <2> QED BY ONLY <2>1
<1>8. \A k \in 1..(m + 1) : AskFits(q[k], ow, b, t[k], t[k + 1], way)
  <2>1. \A k \in 1..m : k \in 1..(m + 1) /\ k + 1 \in 1..(m + 1)
    BY ONLY <1>1
  <2>2. \A k \in 1..m : AskFits(q[k], ow, b, t[k], t[k + 1], way)
    BY ONLY <1>4, <1>5, <1>7, <2>1
  <2>3. m + 1 + 1 = m + 2 /\ m + 1 \in 1..(m + 1) /\ 1 \in 1..(m + 1)
    BY ONLY <1>1
  <2>4. AskFits(q[m + 1], ow, b, t[m + 1], t[m + 1 + 1], way)
    BY ONLY <1>3, <1>5, <1>7, <2>3
  <2>5. \A k \in 1..(m + 1) : k \in 1..m \/ k = m + 1
    BY ONLY <1>1
  <2> QED BY ONLY <2>2, <2>4, <2>5
<1>9. t[1] = s[1] /\ m + 1 + 1 = m + 2
  BY ONLY <1>1, <1>7
<1>10. Unclosed(tc, q, ow, w, way, ups, b, c, t, e2)
  BY ONLY <1>2, <1>7, <1>8, <1>9 DEF Unclosed
<1> QED BY <1>10

(* Where the numbers of the debts end.                                      *)
LEMMA Ends ==
  ASSUME NEW b \in Nat, NEW n \in Nat, NEW e, e = b + n + 1
  PROVE  /\ e \in Nat /\ e - b = n + 1 /\ e + 1 \in Nat /\ e <= e + 1
         /\ e + 1 = b + (n + 1) + 1 /\ e - b \in 1..(n + 1) /\ e <= e
  OBVIOUS

(* A length is a number.                                                    *)
LEMMA LenIs ==
  ASSUME NEW S, NEW q \in Seq(S)
  PROVE  Len(q) \in Nat
  OBVIOUS

(* The client asks: what it asks with, and the debt.                       *)
LEMMA AskLinks ==
  ASSUME NEW tc \in Seq(FromServer), NEW ts \in Seq(FromClient),
         NEW f \in FromClient, NEW ow \in Seq(Debts), NEW d \in Debts,
         NEW w, NEW way, NEW ups,
         Linked(tc, ts, ow, w, way, ups),
         \/ f.type = "Start" /\ d.is = "start" /\ f.way = way[d.gen]
         \/ f.type = "Ping" /\ d.is # "start"
  PROVE  /\ Linked(tc, Append(ts, f), Append(ow, d), w, way, ups)
         /\ d.is # "start" =>
              \A g \in FromClient : g.type \in {"Data", "End"} =>
                Linked(tc, Append(Append(ts, g), f), Append(ow, d), w, way,
                       ups)
<1>1. PICK b \in Nat, c \in [Nat -> Nat], s \in [Nat -> Nat] :
        Chained(tc, ts, ow, w, way, ups, b, c, s)
  BY DEF Linked
<1> DEFINE e == b + Len(ow) + 1
<1>2. /\ Len(ow) \in Nat /\ Append(ow, d) \in Seq(Debts)
      /\ Len(Append(ow, d)) = Len(ow) + 1
      /\ Append(ow, d)[Len(ow) + 1] = d
  BY AppendIs
<1>3. /\ e \in Nat /\ e - b = Len(ow) + 1 /\ e + 1 \in Nat /\ e <= e + 1
      /\ e + 1 = b + Len(Append(ow, d)) + 1
      /\ e - b \in 1..Len(Append(ow, d)) /\ e <= e
  <2>1. b \in Nat
    OBVIOUS
  <2>2. e = b + Len(ow) + 1
    OBVIOUS
  <2> HIDE DEF e
  <2>3. PICK n \in Nat : n = Len(ow)
    BY ONLY <1>2
  <2>4. e = b + n + 1 /\ n \in Nat
    BY ONLY <2>2, <2>3
  <2>5. /\ e \in Nat /\ e - b = n + 1 /\ e + 1 \in Nat /\ e <= e + 1
        /\ e + 1 = b + (n + 1) + 1 /\ e - b \in 1..(n + 1) /\ e <= e
    BY ONLY <2>1, <2>4, Ends
  <2>6. Len(Append(ow, d)) = n + 1
    BY ONLY <1>2, <2>3
  <2> QED BY ONLY <2>3, <2>5, <2>6
<1>t. tc \in Seq(FromServer) /\ ts \in Seq(FromClient)
  OBVIOUS
<1>4. Len(tc) \in Nat /\ Len(ts) \in Nat
  BY ONLY <1>t, LenIs
<1>5. Unclosed(tc, ts, ow, w, way, ups, b, c, s, e)
  BY <1>1 DEF Chained
<1> HIDE DEF e
<1>6. Unclosed(tc, ts, Append(ow, d), w, way, ups, b, c, s, e)
  BY <1>4, <1>5, DebtAdded
<1> DEFINE o == Append(ow, d)
<1>k. /\ f \in FromClient
      /\ \/ f.type = "Start" /\ d.is = "start" /\ f.way = way[d.gen]
         \/ f.type = "Ping" /\ d.is # "start"
  OBVIOUS
<1>7. AskFits(f, o, b, e, e + 1, way)
  <2>1. o[e - b] = d /\ e - b \in 1..Len(o)
    BY ONLY <1>2, <1>3
  <2> HIDE DEF o
  <2> QED BY ONLY <1>k, <2>1 DEF AskFits, IsStart, IsBarrier
<1>8. ASSUME NEW g \in FromClient, g.type \in {"Data", "End"}, d.is # "start"
      PROVE  AskFits(g, o, b, e, e, way)
  <2>1. o[e - b] = d /\ e - b \in 1..Len(o)
    BY ONLY <1>2, <1>3
  <2> HIDE DEF o
  <2> QED BY ONLY <1>8, <2>1 DEF AskFits, IsStart, IsBarrier
<1>9. ASSUME NEW q \in Seq(FromClient), NEW t \in [Nat -> Nat],
             Unclosed(tc, q, o, w, way, ups, b, c, t, e)
      PROVE  Linked(tc, Append(q, f), o, w, way, ups)
  <2>1. \E u \in [Nat -> Nat] :
          Unclosed(tc, Append(q, f), o, w, way, ups, b, c, u, e + 1)
    <3>1. /\ Len(q) \in Nat /\ Len(Append(q, f)) = Len(q) + 1
          /\ Append(q, f)[Len(q) + 1] = f
          /\ \A k \in 1..Len(q) : Append(q, f)[k] = q[k]
      BY ONLY <1>k, <1>9, AppendIs
    <3> HIDE DEF o
    <3> QED BY <1>3, <1>7, <1>9, <3>1, FrameAdded
  <2> QED BY <1>3, <2>1 DEF Linked, Chained
<1>10. Linked(tc, Append(ts, f), o, w, way, ups)
  BY <1>6, <1>9
<1>11. ASSUME NEW g \in FromClient, g.type \in {"Data", "End"}, d.is # "start"
       PROVE  Linked(tc, Append(Append(ts, g), f), o, w, way, ups)
  <2>1. PICK t \in [Nat -> Nat] :
          Unclosed(tc, Append(ts, g), o, w, way, ups, b, c, t, e)
    <3>1. AskFits(g, o, b, e, e, way)
      BY <1>8, <1>11
    <3>2. Unclosed(tc, ts, o, w, way, ups, b, c, s, e)
      BY <1>6
    <3>3. /\ Len(ts) \in Nat /\ Len(Append(ts, g)) = Len(ts) + 1
          /\ Append(ts, g)[Len(ts) + 1] = g
          /\ \A k \in 1..Len(ts) : Append(ts, g)[k] = ts[k]
      BY ONLY <1>t, <1>11, AppendIs
    <3> HIDE DEF o
    <3> QED BY <1>3, <3>1, <3>2, <3>3, FrameAdded
  <2>2. Append(ts, g) \in Seq(FromClient)
    BY AppendIs
  <2> QED BY <1>9, <2>1, <2>2
<1> QED BY <1>10, <1>11

(* The server says something more.                                         *)
AnswerReady(tc, q, a, n, ow, way, ups, b, c, v) ==
  /\ n \in Nat /\ v \in Nat /\ c \in [Nat -> Nat]
  /\ q[n + 1] = a /\ \A k \in 1..n : q[k] = tc[k]
  /\ Rising(c, n + 1) /\ c[n + 1] <= v
  /\ \A k \in 1..n : AnswerFits(tc[k], ow, b, c[k], c[k + 1], way, ups)
  /\ AnswerFits(a, ow, b, c[n + 1], v, way, ups)

(* A frame from the server after the others.                                *)
LEMMA AnswerAdded ==
  ASSUME NEW tc, NEW q, NEW a, NEW n, NEW ow, NEW way, NEW ups, NEW b,
         NEW c, NEW v, AnswerReady(tc, q, a, n, ow, way, ups, b, c, v)
  PROVE  LET d == Extend(c, n + 2, v)
         IN /\ d \in [Nat -> Nat] /\ Rising(d, n + 2) /\ d[1] = c[1]
            /\ d[n + 2] = v
            /\ \A k \in 1..(n + 1) :
                 AnswerFits(q[k], ow, b, d[k], d[k + 1], way, ups)
<1>0. AnswerReady(tc, q, a, n, ow, way, ups, b, c, v)
  OBVIOUS
<1>1. c \in [Nat -> Nat] /\ n \in Nat /\ v \in Nat
  BY ONLY <1>0 DEF AnswerReady
<1>2. Rising(c, n + 1) /\ c[n + 1] <= v
  BY ONLY <1>0 DEF AnswerReady
<1>3. /\ \A k \in 1..n : q[k] = tc[k]
      /\ \A k \in 1..n :
           AnswerFits(tc[k], ow, b, c[k], c[k + 1], way, ups)
  BY ONLY <1>0 DEF AnswerReady
<1>4. q[n + 1] = a /\ AnswerFits(a, ow, b, c[n + 1], v, way, ups)
  BY ONLY <1>0 DEF AnswerReady
<1> DEFINE d == Extend(c, n + 2, v)
<1>5. /\ d \in [Nat -> Nat] /\ d[n + 2] = v /\ Rising(d, n + 2)
      /\ \A k \in 1..(n + 1) : d[k] = c[k]
  BY ONLY <1>1, <1>2, RiseMore
<1> HIDE DEF d
<1>6. \A k \in 1..(n + 1) :
        AnswerFits(q[k], ow, b, d[k], d[k + 1], way, ups)
  <2>1. \A k \in 1..n : k \in 1..(n + 1) /\ k + 1 \in 1..(n + 1)
    BY ONLY <1>1
  <2>2. \A k \in 1..n : AnswerFits(q[k], ow, b, d[k], d[k + 1], way, ups)
    BY ONLY <1>3, <1>5, <2>1
  <2>3. n + 1 + 1 = n + 2 /\ n + 1 \in 1..(n + 1) /\ 1 \in 1..(n + 1)
    BY ONLY <1>1
  <2>4. AnswerFits(q[n + 1], ow, b, d[n + 1], d[n + 1 + 1], way, ups)
    BY ONLY <1>4, <1>5, <2>3
  <2>5. \A k \in 1..(n + 1) : k \in 1..n \/ k = n + 1
    BY ONLY <1>1
  <2> QED BY ONLY <2>2, <2>4, <2>5
<1>7. d[1] = c[1]
  <2>1. 1 \in 1..(n + 1)
    BY ONLY <1>1
  <2> QED BY ONLY <1>5, <2>1
<1> QED BY <1>5, <1>6, <1>7 DEF d

(* Something unasked for, or the refusal of the chunk being written.       *)
LEMMA ToldLinks ==
  ASSUME NEW tc \in Seq(FromServer), NEW ts \in Seq(FromClient),
         NEW a \in FromServer, NEW ow \in Seq(Debts), NEW w, NEW way, NEW ups,
         Linked(tc, ts, ow, w, way, ups),
         a.type \in {"Data", "End"} \/ (a.type = "Error" /\ w # 0)
  PROVE  Linked(Append(tc, a), ts, ow, w, way, ups)
<1>1. PICK b \in Nat, c \in [Nat -> Nat], s \in [Nat -> Nat] :
        Chained(tc, ts, ow, w, way, ups, b, c, s)
  BY DEF Linked
<1>2. tc \in Seq(FromServer) /\ a \in FromServer
  OBVIOUS
<1>3. /\ Len(tc) \in Nat /\ Len(Append(tc, a)) = Len(tc) + 1
      /\ Append(tc, a)[Len(tc) + 1] = a
      /\ \A k \in 1..Len(tc) : Append(tc, a)[k] = tc[k]
  BY ONLY <1>2, AppendIs
<1>4. PICK n \in Nat : n = Len(tc)
  BY ONLY <1>3
<1>5. PICK q : q = Append(tc, a)
  OBVIOUS
<1>6. q[n + 1] = a /\ (\A k \in 1..n : q[k] = tc[k]) /\ Len(q) = n + 1
  BY ONLY <1>3, <1>4, <1>5
<1>7. PICK v \in Nat : v = s[1]
  OBVIOUS
<1>8. /\ Rising(c, n + 1) /\ c[n + 1] = v /\ c[1] = b + 1
      /\ \A k \in 1..n : AnswerFits(tc[k], ow, b, c[k], c[k + 1], way, ups)
      /\ w # 0 => IsBarrier(ow, b, v)
  BY ONLY <1>1, <1>4, <1>7 DEF Chained, Unclosed
<1>9. AnswerFits(a, ow, b, v, v, way, ups)
  <2>1. \/ a.type \in {"Data", "End"}
        \/ (a.type = "Error" /\ IsBarrier(ow, b, v))
    BY ONLY <1>8, a.type \in {"Data", "End"} \/ (a.type = "Error" /\ w # 0)
  <2>2. a.type = "Error" => a.type \notin {"Data", "End", "Accept", "Pong"}
    OBVIOUS
  <2>3. a.type \in {"Data", "End"} => a.type \notin {"Error", "Accept", "Pong"}
    OBVIOUS
  <2> QED BY ONLY <2>1, <2>2, <2>3 DEF AnswerFits
<1>10. c[n + 1] <= v /\ AnswerFits(a, ow, b, c[n + 1], v, way, ups)
  BY ONLY <1>7, <1>8, <1>9
<1>11. b \in Nat /\ c \in [Nat -> Nat] /\ v \in Nat /\ n \in Nat
  OBVIOUS
<1> DEFINE d == Extend(c, n + 2, v)
<1>12. /\ d \in [Nat -> Nat] /\ Rising(d, n + 2) /\ d[1] = c[1]
       /\ d[n + 2] = v
       /\ \A k \in 1..(n + 1) :
            AnswerFits(q[k], ow, b, d[k], d[k + 1], way, ups)
  <2>1. AnswerReady(tc, q, a, n, ow, way, ups, b, c, v)
    BY ONLY <1>6, <1>8, <1>10, <1>11 DEF AnswerReady
  <2> QED BY ONLY <2>1, AnswerAdded
<1> HIDE DEF d
<1>13. Len(q) + 1 = n + 2
  BY ONLY <1>6, <1>11
<1>14. Chained(q, ts, ow, w, way, ups, b, d, s)
  BY ONLY <1>1, <1>6, <1>7, <1>8, <1>12, <1>13 DEF Chained, Unclosed
<1> QED BY <1>5, <1>12, <1>14 DEF Linked

(* The chunk is written, and nothing follows from it.                      *)
LEMMA WrittenLinks ==
  ASSUME NEW tc, NEW ts, NEW ow, NEW w, NEW way, NEW ups,
         Linked(tc, ts, ow, w, way, ups)
  PROVE  Linked(tc, ts, ow, 0, way, ups)
  BY DEF Linked, Chained, Unclosed

(* The server takes a frame, and says what belongs to it or nothing.       *)
LEMMA ServedLinks ==
  ASSUME NEW tc \in Seq(FromServer), NEW ts \in Seq(FromClient), ts # <<>>,
         NEW a \in FromServer, NEW ow \in Seq(Debts), NEW w, NEW way, NEW ups,
         Linked(tc, ts, ow, 0, way, ups)
  PROVE  /\ \/ Head(ts).type = "Ping" /\ a.type = "Pong"
            \/ Head(ts).type \in {"Start", "Data", "End"} /\ a.type = "Error"
            \/ /\ Head(ts).type = "Start" /\ a.type = "Accept"
               /\ a.id \in ups <=> Head(ts).way = "upload"
               /\ a.id \notin ups => a.ver \in 1..MaxVersions
           => Linked(Append(tc, a), Tail(ts), ow, 0, way, ups)
         /\ Head(ts).type \in {"Data", "End"}
              => Linked(tc, Tail(ts), ow, w, way, ups)
<1>1. PICK b \in Nat, c \in [Nat -> Nat], s \in [Nat -> Nat] :
        Chained(tc, ts, ow, 0, way, ups, b, c, s)
  BY DEF Linked
<1>2. /\ tc \in Seq(FromServer) /\ a \in FromServer /\ ts \in Seq(FromClient)
      /\ ts # <<>>
  OBVIOUS
<1>3. /\ Len(tc) \in Nat /\ Len(Append(tc, a)) = Len(tc) + 1
      /\ Append(tc, a)[Len(tc) + 1] = a
      /\ \A k \in 1..Len(tc) : Append(tc, a)[k] = tc[k]
  BY ONLY <1>2, AppendIs
<1>4. PICK n \in Nat : n = Len(tc)
  BY ONLY <1>3
<1>5. PICK q : q = Append(tc, a)
  OBVIOUS
<1>6. q[n + 1] = a /\ (\A k \in 1..n : q[k] = tc[k]) /\ Len(q) = n + 1
  BY ONLY <1>3, <1>4, <1>5
<1>7. PICK x \in Nat, y \in Nat : x = s[1] /\ y = s[2]
  OBVIOUS
<1>8. /\ Tail(ts) \in Seq(FromClient) /\ Len(Tail(ts)) \in Nat
      /\ Len(Tail(ts)) = Len(ts) - 1 /\ Len(ts) \in Nat
      /\ Head(ts) = ts[1] /\ Head(ts) \in FromClient
      /\ \A k \in 1..Len(Tail(ts)) : Tail(ts)[k] = ts[k + 1]
  <2>1. /\ Tail(ts) \in Seq(FromClient) /\ Len(ts) \in Nat \ {0}
        /\ Len(Tail(ts)) = Len(ts) - 1
        /\ Head(ts) = ts[1] /\ Head(ts) \in FromClient
        /\ \A k \in 1..Len(Tail(ts)) : Tail(ts)[k] = ts[k + 1]
    BY ONLY <1>2, TailIs
  <2>2. Len(Tail(ts)) \in Nat
    BY ONLY <2>1, LenIs
  <2> QED BY ONLY <2>1, <2>2
<1>9. PICK m \in Nat : m = Len(Tail(ts)) /\ Len(ts) = m + 1
  <2>1. /\ Len(Tail(ts)) \in Nat /\ Len(Tail(ts)) = Len(ts) - 1
        /\ Len(ts) \in Nat
    BY ONLY <1>8
  <2>2. Len(ts) = Len(Tail(ts)) + 1
    BY ONLY <2>1
  <2> QED BY ONLY <2>1, <2>2
<1>10. /\ b \in Nat /\ c \in [Nat -> Nat] /\ s \in [Nat -> Nat]
       /\ x \in Nat /\ y \in Nat /\ n \in Nat /\ m \in Nat
  OBVIOUS
<1>11. Len(ts) + 1 = m + 2 /\ Len(Tail(ts)) + 1 = m + 1
  BY ONLY <1>9, <1>10
<1>12. /\ Rising(c, n + 1) /\ c[n + 1] = x /\ c[1] = b + 1
       /\ \A k \in 1..n : AnswerFits(tc[k], ow, b, c[k], c[k + 1], way, ups)
       /\ Rising(s, m + 2) /\ s[m + 2] = b + Len(ow) + 1
       /\ \A k \in 1..(m + 1) : AskFits(ts[k], ow, b, s[k], s[k + 1], way)
  BY ONLY <1>1, <1>4, <1>7, <1>9, <1>11 DEF Chained, Unclosed
<1>13. PICK u \in [Nat -> Nat] :
         /\ \A k \in Nat : u[k] = s[k + 1]
         /\ Rising(u, m + 1)
         /\ \A k \in 1..(m + 1) : u[k] \in Nat /\ s[2] <= u[k]
  BY ONLY <1>10, <1>12, RiseShift
<1>14. AskFits(Head(ts), ow, b, x, y, way) /\ x <= y
  <2>1. 1 \in 1..(m + 1) /\ 1 + 1 = 2 /\ 1 \in 1..(m + 2) /\ 2 \in 1..(m + 2)
    BY ONLY <1>10
  <2>2. AskFits(ts[1], ow, b, s[1], s[1 + 1], way)
    BY ONLY <1>12, <2>1
  <2>3. s[1] <= s[2]
    BY ONLY <1>12, <2>1 DEF Rising
  <2> QED BY ONLY <1>7, <1>8, <2>1, <2>2, <2>3
<1>15. \A k \in 1..m :
         AskFits(Tail(ts)[k], ow, b, u[k], u[k + 1], way)
  <2>1. \A k \in 1..m : /\ k + 1 \in 1..(m + 1) /\ k \in Nat /\ k + 1 \in Nat
                        /\ k \in 1..Len(Tail(ts))
    BY ONLY <1>9, <1>10
  <2>2. \A k \in 1..m : AskFits(ts[k + 1], ow, b, s[k + 1], s[k + 1 + 1], way)
    BY ONLY <1>12, <2>1
  <2> QED BY ONLY <1>8, <1>13, <2>1, <2>2
<1>16. /\ u[1] = y /\ u[m + 1] = b + Len(ow) + 1
  <2>1. 1 + 1 = 2 /\ m + 1 + 1 = m + 2 /\ m + 1 \in Nat
    BY ONLY <1>10
  <2> QED BY ONLY <1>7, <1>12, <1>13, <2>1
<1>17. ASSUME AnswerFits(a, ow, b, x, y, way, ups)
       PROVE  Linked(Append(tc, a), Tail(ts), ow, 0, way, ups)
  <2>1. c[n + 1] <= y /\ AnswerFits(a, ow, b, c[n + 1], y, way, ups)
    BY ONLY <1>12, <1>14, <1>17
  <2> DEFINE d == Extend(c, n + 2, y)
  <2>2. /\ d \in [Nat -> Nat] /\ Rising(d, n + 2) /\ d[1] = c[1]
        /\ d[n + 2] = y
        /\ \A k \in 1..(n + 1) :
             AnswerFits(q[k], ow, b, d[k], d[k + 1], way, ups)
    <3>1. AnswerReady(tc, q, a, n, ow, way, ups, b, c, y)
      BY ONLY <1>6, <1>10, <1>12, <2>1 DEF AnswerReady
    <3> QED BY ONLY <3>1, AnswerAdded
  <2> HIDE DEF d
  <2>3. Len(q) + 1 = n + 2
    BY ONLY <1>6, <1>10
  <2>4. Chained(q, Tail(ts), ow, 0, way, ups, b, d, u)
    BY ONLY <1>6, <1>9, <1>12, <1>13, <1>15, <1>16, <2>2, <2>3
       DEF Chained, Unclosed
  <2> QED BY <1>5, <2>2, <2>4 DEF Linked
<1>18. ASSUME Head(ts).type \in {"Data", "End"}
       PROVE  Linked(tc, Tail(ts), ow, w, way, ups)
  <2>1. IsBarrier(ow, b, x) /\ y = x
    BY ONLY <1>14, <1>18 DEF AskFits
  <2>2. Len(tc) + 1 = n + 1
    BY ONLY <1>4
  <2>3. Chained(tc, Tail(ts), ow, w, way, ups, b, c, u)
    BY ONLY <1>4, <1>9, <1>12, <1>13, <1>15, <1>16, <2>1, <2>2
       DEF Chained, Unclosed
  <2> QED BY <2>3 DEF Linked
<1>19. ASSUME \/ Head(ts).type = "Ping" /\ a.type = "Pong"
              \/ Head(ts).type \in {"Start", "Data", "End"} /\ a.type = "Error"
              \/ /\ Head(ts).type = "Start" /\ a.type = "Accept"
                 /\ a.id \in ups <=> Head(ts).way = "upload"
                 /\ a.id \notin ups => a.ver \in 1..MaxVersions
       PROVE  AnswerFits(a, ow, b, x, y, way, ups)
  <2>1. CASE Head(ts).type = "Ping" /\ a.type = "Pong"
    BY ONLY <1>14, <2>1 DEF AskFits, AnswerFits
  <2>2. CASE Head(ts).type \in {"Start", "Data", "End"} /\ a.type = "Error"
    BY ONLY <1>14, <2>2 DEF AskFits, AnswerFits
  <2>3. CASE /\ Head(ts).type = "Start" /\ a.type = "Accept"
             /\ a.id \in ups <=> Head(ts).way = "upload"
             /\ a.id \notin ups => a.ver \in 1..MaxVersions
    BY ONLY <1>14, <2>3 DEF AskFits, AnswerFits
  <2> QED BY <1>19, <2>1, <2>2, <2>3
<1> QED BY <1>17, <1>18, <1>19

---------------------------------------------------------------------------
(* Types.                                                                  *)
Outcomes == {"idle", "busy", "open", "ok", "failed", "cancelled", "timeout",
             "changed", "confused", "refused", "gone"}
Sidecars == [ver : 0..MaxVersions, have : SUBSET Pieces]
Contents == Seq(0..MaxVersions)
Stations == {"queued", "trim", "read", "source", "temp", "place", "named",
             "right", "wrong", "error"}
PoolJobs == [kind : {"prepare", "verify", "publish"}, gen : DOMAIN Jobs,
             ver : 0..MaxVersions, at : Stations, src : Nat, out : Nat,
             n : Nat, good : BOOLEAN, alone : BOOLEAN]
Xfers == [gen : 0..Len(Jobs), way : Ways \cup {"none"},
          stage : {"none", "preparing", "awaiting", "running", "verifying"},
          id : Nat, accepted : BOOLEAN, round : Nat, ver : 0..MaxVersions,
          have : SUBSET Pieces, file : Nat,
          next : Nat, flying : Int, resume : Sidecars]
Hosts == [up : Nat, left : SUBSET Pieces, writing : Nat, finishing : Nat,
          ended : Nat, filed : SUBSET Nat, down : Nat, ver : 0..MaxVersions,
          todo : SUBSET Pieces, ids : Nat]
DiskRecords ==
  [files : Seq(Contents), data : Nat, dest : Nat, side : Sidecars]
Disks ==
  {d \in DiskRecords : d.data <= Len(d.files) /\ d.dest <= Len(d.files)}
AtWork == {"trim", "read", "source", "temp", "place"}
Held(j, n) == /\ j.src \in 0..n /\ j.out \in 0..n
              /\ j.at \in AtWork => j.src # 0
Opened(d, t) == \A j \in t : Held(j, Len(d.files))

CarryTyped ==
  /\ asked \in [DOMAIN Jobs -> Outcomes]
  /\ xfer \in Xfers /\ task \subseteq PoolJobs /\ saving \in Sidecars
  /\ owes \in Seq(Debts) /\ gaveUp \in Seq(Nat)
  /\ tosrv \in Seq(FromClient) /\ tocli \in Seq(FromServer)
  /\ host \in Hosts /\ shelf \in 1..MaxVersions /\ disk \in Disks
  /\ Opened(disk, task) /\ upsets \in Nat

(* Jobs are numbered; there is at least one version.                        *)
LEMMA JobNumbers ==
  /\ DOMAIN Jobs = 1..Len(Jobs) /\ Len(Jobs) \in Nat
  /\ MaxVersions \in Nat \ {0} /\ NumChunks \in Nat
  /\ Jobs \in [1..Len(Jobs) -> SUBSET Ways]
  BY CarryConstants DEF Ways

(* The frames the two sides build are frames.                               *)
LEMMA FramesTyped ==
  /\ \A t \in {"Accept", "End"}, i, n \in Nat, v \in 0..MaxVersions :
       Message(t, i, n, v) \in FromServer
  /\ \A i \in Nat, n \in Pieces, v \in 0..MaxVersions :
       Message("Data", i, n, v) \in FromServer
  /\ [type |-> "Pong"] \in FromServer /\ [type |-> "Error"] \in FromServer
  /\ \A w \in Ways, h \in SUBSET Pieces : StartFrame(w, h) \in FromClient
  /\ \A t \in {"Data", "End"}, i, n \in Nat, v \in 0..MaxVersions :
       Message(t, i, n, v) \in FromClient
  /\ PingFrame \in FromClient
  BY JobNumbers DEF Message, FromServer, FromClient, StartFrame, PingFrame,
     Pieces

(* What is noted for a frame sent is a debt.                                *)
LEMMA BarrierTyped ==
  \A k \in {"plain", "chunk", "start"}, g \in 0..Len(Jobs), n \in Nat :
    Barrier(k, g, n) \in Debts
  BY DEF Barrier, Debts

(* A sequence is a function; and one more element.                         *)
LEMMA SeqIs ==
  ASSUME NEW S, NEW q \in Seq(S)
  PROVE  Len(q) \in Nat /\ q \in [1..Len(q) -> S]
  OBVIOUS

LEMMA SeqMore ==
  ASSUME NEW S, NEW q \in Seq(S), NEW e \in S
  PROVE  Append(q, e) \in Seq(S) /\ Len(Append(q, e)) = Len(q) + 1
  OBVIOUS

(* Sidecars, and what becomes of the contents of files.                     *)
LEMMA FileTyped ==
  /\ NoSidecar \in Sidecars
  /\ \A x \in Xfers : SidecarOf(x) \in Sidecars
  /\ \A f \in Contents, n \in Nat : Cut(f, n) \in Contents
  /\ \A f \in Contents, n \in Nat, v \in 0..MaxVersions :
       Written(f, n, v) \in Contents
<1>1. NoSidecar \in Sidecars
  BY JobNumbers DEF NoSidecar, Sidecars
<1>2. \A x \in Xfers : SidecarOf(x) \in Sidecars
  BY DEF SidecarOf, Sidecars, Xfers
<1>3. ASSUME NEW f \in Contents, NEW n \in Nat
      PROVE  Cut(f, n) \in Contents
  <2>1. \A i \in 1..n : (IF i <= Len(f) THEN f[i] ELSE 0) \in 0..MaxVersions
    BY JobNumbers DEF Contents
  <2> QED BY <2>1 DEF Cut, Contents
<1>4. ASSUME NEW f \in Contents, NEW n \in Nat, NEW v \in 0..MaxVersions
      PROVE  Written(f, n, v) \in Contents
  <2>1. (IF n > Len(f) THEN n ELSE Len(f)) \in Nat
    BY DEF Contents
  <2>2. PICK g \in Contents :
          g = Cut(f, IF n > Len(f) THEN n ELSE Len(f))
    BY ONLY <1>3, <2>1, f \in Contents
  <2>3. [g EXCEPT ![n] = v] \in Contents
    <3>1. PICK m \in Nat : m = Len(g) /\ g \in [1..m -> 0..MaxVersions]
      BY ONLY <2>2, SeqIs DEF Contents
    <3>2. [g EXCEPT ![n] = v] \in [1..m -> 0..MaxVersions]
      BY ONLY <3>1, v \in 0..MaxVersions
    <3> QED BY ONLY <3>1, <3>2 DEF Contents
  <2> QED BY ONLY <2>2, <2>3 DEF Written
<1> QED BY <1>1, <1>2, <1>3, <1>4

(* One file among the others, changed.                                      *)
LEMMA FileChanged ==
  ASSUME NEW fs \in Seq(Contents), NEW k, NEW f,
         k \in DOMAIN fs => f \in Contents
  PROVE  /\ [fs EXCEPT ![k] = f] \in Seq(Contents)
         /\ Len([fs EXCEPT ![k] = f]) = Len(fs)
<1>1. PICK n \in Nat : n = Len(fs) /\ fs \in [1..n -> Contents]
  OBVIOUS
<1>2. [fs EXCEPT ![k] = f] \in [1..n -> Contents]
  BY ONLY <1>1, k \in DOMAIN fs => f \in Contents
<1>3. PICK g \in [1..n -> Contents] : g = [fs EXCEPT ![k] = f]
  BY ONLY <1>2
<1>4. g \in Seq(Contents) /\ Len(g) = n
  BY ONLY <1>1
<1> QED BY ONLY <1>1, <1>3, <1>4

(* What a disk is.                                                          *)
LEMMA DiskIs ==
  ASSUME NEW d \in Disks
  PROVE  /\ d \in DiskRecords
         /\ d.files \in Seq(Contents) /\ Len(d.files) \in Nat
         /\ d.data \in Nat /\ d.data <= Len(d.files)
         /\ d.dest \in Nat /\ d.dest <= Len(d.files)
         /\ d.side \in Sidecars
  BY DEF Disks, DiskRecords

(* Records with their names within the files are disks.                    *)
LEMMA DiskMade ==
  ASSUME NEW e \in DiskRecords, e.data <= Len(e.files),
         e.dest <= Len(e.files)
  PROVE  e \in Disks
  BY DEF Disks

(* Another sidecar.                                                         *)
LEMMA DiskNotes ==
  ASSUME NEW d \in Disks, NEW s \in Sidecars
  PROVE  /\ [d EXCEPT !.side = s] \in Disks
         /\ [d EXCEPT !.side = s].files = d.files
<1>1. PICK e : e = [d EXCEPT !.side = s]
  OBVIOUS
<1>2. /\ d \in DiskRecords /\ d.data <= Len(d.files)
      /\ d.dest <= Len(d.files)
  BY DiskIs
<1>3. /\ e \in DiskRecords /\ e.files = d.files /\ e.data = d.data
      /\ e.dest = d.dest
  BY ONLY <1>1, <1>2, s \in Sidecars DEF DiskRecords
<1> QED BY <1>1, <1>2, <1>3, DiskMade

(* Another sidecar, and no partial.                                         *)
LEMMA DiskForgets ==
  ASSUME NEW d \in Disks, NEW s \in Sidecars
  PROVE  /\ [d EXCEPT !.side = s, !.data = 0] \in Disks
         /\ [d EXCEPT !.side = s, !.data = 0].files = d.files
<1>1. PICK e : e = [d EXCEPT !.side = s, !.data = 0]
  OBVIOUS
<1>2. d \in DiskRecords /\ Len(d.files) \in Nat /\ d.dest <= Len(d.files)
  BY DiskIs
<1>3. /\ e \in DiskRecords /\ e.files = d.files /\ e.data = 0
      /\ e.dest = d.dest
  BY ONLY <1>1, <1>2, s \in Sidecars DEF DiskRecords
<1>4. e.data <= Len(e.files) /\ e.dest <= Len(e.files)
  BY ONLY <1>2, <1>3
<1> QED BY <1>1, <1>3, <1>4, DiskMade

(* A name goes, or stands for what the partial's does.                     *)
LEMMA DiskLoses ==
  ASSUME NEW d \in Disks
  PROVE  /\ [d EXCEPT !.data = 0] \in Disks
         /\ [d EXCEPT !.data = 0].files = d.files
         /\ [d EXCEPT !.dest = 0] \in Disks
         /\ [d EXCEPT !.dest = 0].files = d.files
         /\ [d EXCEPT !.dest = d.data, !.data = 0] \in Disks
         /\ [d EXCEPT !.dest = d.data, !.data = 0].files = d.files
<1>1. /\ d \in DiskRecords /\ Len(d.files) \in Nat
      /\ d.data <= Len(d.files) /\ d.dest <= Len(d.files)
      /\ d.data \in Nat /\ d.dest \in Nat
  BY DiskIs
<1>2. ASSUME NEW e,
             e \in {[d EXCEPT !.data = 0], [d EXCEPT !.dest = 0],
                    [d EXCEPT !.dest = d.data, !.data = 0]}
      PROVE  e \in Disks /\ e.files = d.files
  <2>1. /\ e \in DiskRecords /\ e.files = d.files
        /\ e.data \in {0, d.data} /\ e.dest \in {0, d.dest, d.data}
    <3>1. CASE e = [d EXCEPT !.data = 0]
      BY ONLY <1>1, <3>1 DEF DiskRecords
    <3>2. CASE e = [d EXCEPT !.dest = 0]
      BY ONLY <1>1, <3>2 DEF DiskRecords
    <3>3. CASE e = [d EXCEPT !.dest = d.data, !.data = 0]
      BY ONLY <1>1, <3>3 DEF DiskRecords
    <3> QED BY ONLY <1>2, <3>1, <3>2, <3>3
  <2>2. e.data <= Len(e.files) /\ e.dest <= Len(e.files)
    BY ONLY <1>1, <2>1
  <2> QED BY ONLY <2>1, <2>2, DiskMade
<1> QED BY <1>2

(* The destination's name stands for another file.                         *)
LEMMA DiskNames ==
  ASSUME NEW d \in Disks, NEW b \in Nat, b <= Len(d.files)
  PROVE  /\ [d EXCEPT !.dest = b] \in Disks
         /\ [d EXCEPT !.dest = b].files = d.files
<1>1. PICK e : e = [d EXCEPT !.dest = b]
  OBVIOUS
<1>2. d \in DiskRecords /\ d.data <= Len(d.files)
  BY DiskIs
<1>3. /\ e \in DiskRecords /\ e.files = d.files /\ e.dest = b
      /\ e.data = d.data
  BY ONLY <1>1, <1>2, b \in Nat DEF DiskRecords
<1> QED BY <1>1, <1>2, <1>3, DiskMade

(* Other contents, or one file more, perhaps with a name.                   *)
LEMMA DiskRewritten ==
  ASSUME NEW d \in Disks, NEW fs \in Seq(Contents),
         Len(d.files) <= Len(fs)
  PROVE  /\ [d EXCEPT !.files = fs] \in Disks
         /\ [d EXCEPT !.files = fs].files = fs
<1>1. PICK e : e = [d EXCEPT !.files = fs]
  OBVIOUS
<1>2. /\ d \in DiskRecords /\ Len(fs) \in Nat /\ Len(d.files) \in Nat
      /\ d.data \in Nat /\ d.data <= Len(d.files)
      /\ d.dest \in Nat /\ d.dest <= Len(d.files)
  BY DiskIs
<1>3. d.data <= Len(fs) /\ d.dest <= Len(fs)
  BY ONLY <1>2, Len(d.files) <= Len(fs)
<1>4. /\ e \in DiskRecords /\ e.files = fs /\ e.data = d.data
      /\ e.dest = d.dest
  BY ONLY <1>1, <1>2, fs \in Seq(Contents) DEF DiskRecords
<1> QED BY <1>1, <1>3, <1>4, DiskMade

LEMMA DestinationAdded ==
  ASSUME NEW d \in Disks, NEW fs \in Seq(Contents), NEW b \in Nat,
         Len(d.files) <= Len(fs), b <= Len(fs)
  PROVE  /\ [d EXCEPT !.files = fs, !.dest = b] \in Disks
         /\ [d EXCEPT !.files = fs, !.dest = b].files = fs
<1>1. PICK e : e = [d EXCEPT !.files = fs, !.dest = b]
  OBVIOUS
<1>2. /\ d \in DiskRecords /\ Len(fs) \in Nat /\ Len(d.files) \in Nat
      /\ d.data \in Nat /\ d.data <= Len(d.files)
      /\ d.dest \in Nat /\ d.dest <= Len(d.files)
  BY DiskIs
<1>3. d.data <= Len(fs) /\ d.dest <= Len(fs)
  BY ONLY <1>2, Len(d.files) <= Len(fs)
<1>4. /\ e \in DiskRecords /\ e.files = fs /\ e.data = d.data
      /\ e.dest = b
  BY ONLY <1>1, <1>2, b \in Nat, fs \in Seq(Contents) DEF DiskRecords
<1> QED BY <1>1, <1>3, <1>4, DiskMade

LEMMA PartialAdded ==
  ASSUME NEW d \in Disks, NEW fs \in Seq(Contents), NEW b \in Nat,
         Len(d.files) <= Len(fs), b <= Len(fs)
  PROVE  /\ [d EXCEPT !.data = b, !.files = fs] \in Disks
         /\ [d EXCEPT !.data = b, !.files = fs].files = fs
<1>1. PICK e : e = [d EXCEPT !.data = b, !.files = fs]
  OBVIOUS
<1>2. /\ d \in DiskRecords /\ Len(fs) \in Nat /\ Len(d.files) \in Nat
      /\ d.data \in Nat /\ d.data <= Len(d.files)
      /\ d.dest \in Nat /\ d.dest <= Len(d.files)
  BY DiskIs
<1>3. d.data <= Len(fs) /\ d.dest <= Len(fs)
  BY ONLY <1>2, Len(d.files) <= Len(fs)
<1>4. /\ e \in DiskRecords /\ e.files = fs /\ e.data = b
      /\ e.dest = d.dest
  BY ONLY <1>1, <1>2, b \in Nat, fs \in Seq(Contents) DEF DiskRecords
<1> QED BY <1>1, <1>3, <1>4, DiskMade

(* There are only more files: what was open is, and names stand for them.  *)
LEMMA HeldMore ==
  ASSUME NEW j \in PoolJobs, NEW n \in Nat, NEW m \in Nat, n <= m, Held(j, n)
  PROVE  Held(j, m)
  BY DEF Held, PoolJobs

LEMMA FilesGrow ==
  ASSUME NEW d \in Disks, NEW e \in Disks, NEW t, Opened(d, t),
         t \subseteq PoolJobs, Len(d.files) <= Len(e.files)
  PROVE  Opened(e, t)
<1>1. PICK n \in Nat, m \in Nat :
        n = Len(d.files) /\ m = Len(e.files) /\ n <= m
  BY DiskIs
<1> QED BY <1>1, HeldMore DEF Opened

(* No transfer is a transfer, too.                                          *)
LEMMA IdleTyped == Idle \in Xfers
  BY FileTyped, JobNumbers DEF Idle, Xfers

(* Two frames sent are one after the other.                                 *)
LEMMA PairIs ==
  ASSUME NEW S, NEW q \in Seq(S), NEW e \in S, NEW f \in S
  PROVE  q \o <<e, f>> = Append(Append(q, e), f)
  OBVIOUS

---------------------------------------------------------------------------
(* Ids: the server hands them out, and who knows of them.                  *)
Live(h) == {h.up, h.finishing, h.down} \ {0}
Told(tc, i) == \E k \in 1..Len(tc) : tc[k].type = "Accept" /\ tc[k].id = i
Ended(tc, i) == \E k \in 1..Len(tc) : tc[k].type = "End" /\ tc[k].id = i
Whole(tc, i) ==
  \E k \in 1..Len(tc) : tc[k].type = "End" /\ tc[k].n = 1 /\ tc[k].id = i
GivenUp(g, i) == \E k \in 1..Len(g) : g[k] = i

(* Ids are told of after they are handed out, and ended once, after they   *)
(* were told of, when the server is through with them.                     *)
IdsIn(tc, h) ==
  /\ \A k \in 1..Len(tc) :
       /\ tc[k].type \in {"Accept", "End"} => tc[k].id \in 1..h.ids
       /\ tc[k].type = "End" => tc[k].id \notin Live(h)
  /\ \A k, l \in 1..Len(tc) :
       tc[k].type = "End" /\ tc[k].id = tc[l].id =>
         /\ tc[l].type = "End" => k = l
         /\ tc[l].type = "Accept" => l < k

HostSane(h) ==
  /\ Live(h) \subseteq 1..h.ids
  /\ h.up = 0 \/ h.finishing = 0
  /\ h.down # 0 => h.down \notin {h.up, h.finishing}
  /\ h.writing # 0 => h.up # 0

(* The client waits for the end of whatever the server has accepted.       *)
Expected(tc, h, x, g) ==
  \A i \in Nat : i \in Live(h) \/ Ended(tc, i) =>
    Told(tc, i) \/ (x.stage = "running" /\ x.id = i) \/ GivenUp(g, i)

DataNamed(ts) == \A k \in 1..Len(ts) : ts[k].type = "Data" => ts[k].id # 0

(* What each side takes an id, a debt and the active transfer for.         *)
Ledger(way, ups, tc, ts, ow, h, x) ==
  /\ Linked(tc, ts, ow, h.writing, way, ups)
  /\ ups \subseteq 1..h.ids
  /\ {h.up, h.finishing} \subseteq ups \cup {0} /\ h.down \notin ups
  /\ \A i \in ups : Whole(tc, i) => i \in h.filed
  /\ x.gen # 0 => way[x.gen] = x.way
  /\ x.way = "upload" /\ x.stage = "running" => x.id \in ups

LinkInv(tc, ts, ow, h, x, g) ==
  /\ \E way \in WayTable, ups \in SUBSET (1..h.ids) :
       Ledger(way, ups, tc, ts, ow, h, x)
  /\ IdsIn(tc, h) /\ HostSane(h) /\ Expected(tc, h, x, g) /\ DataNamed(ts)

(* What was read is no longer there; what is said is.                      *)
LEMMA TailTells ==
  ASSUME NEW S, NEW tc \in Seq(S), tc # <<>>, NEW i
  PROVE  /\ Told(tc, i) <=> \/ Head(tc).type = "Accept" /\ Head(tc).id = i
                            \/ Told(Tail(tc), i)
         /\ Ended(tc, i) <=> \/ Head(tc).type = "End" /\ Head(tc).id = i
                             \/ Ended(Tail(tc), i)
         /\ Whole(tc, i) <=>
              \/ Head(tc).type = "End" /\ Head(tc).n = 1 /\ Head(tc).id = i
              \/ Whole(Tail(tc), i)
<1>0. tc \in Seq(S) /\ tc # <<>>
  OBVIOUS
<1>1. PICK n \in Nat : /\ Len(tc) = n + 1 /\ Len(Tail(tc)) = n
                       /\ Head(tc) = tc[1]
                       /\ \A k \in 1..n : Tail(tc)[k] = tc[k + 1]
  <2>1. /\ Len(tc) \in Nat \ {0} /\ Len(Tail(tc)) = Len(tc) - 1
        /\ Head(tc) = tc[1]
        /\ \A k \in 1..Len(Tail(tc)) : Tail(tc)[k] = tc[k + 1]
    BY ONLY <1>0, TailIs
  <2>2. Len(tc) - 1 \in Nat /\ Len(tc) = (Len(tc) - 1) + 1
    BY ONLY <2>1
  <2> QED BY ONLY <2>1, <2>2
<1>2. PICK q : q = Tail(tc)
  OBVIOUS
<1>3. \A k \in 1..(n + 1) : k = 1 \/ (k - 1 \in 1..n /\ tc[k] = q[k - 1])
  <2>1. \A k \in 1..(n + 1) : k = 1 \/ (k - 1 \in 1..n /\ k - 1 + 1 = k)
    BY ONLY <1>1
  <2> QED BY ONLY <1>1, <1>2, <2>1
<1>4. \A k \in 1..n : k + 1 \in 1..(n + 1) /\ q[k] = tc[k + 1]
  BY ONLY <1>1, <1>2
<1>5. 1 \in 1..(n + 1) /\ Len(tc) = n + 1 /\ Len(q) = n /\ Head(tc) = tc[1]
  BY ONLY <1>1, <1>2
<1>6. \A t : (\E k \in 1..Len(tc) : tc[k].type = t /\ tc[k].id = i)
               <=> \/ Head(tc).type = t /\ Head(tc).id = i
                   \/ \E k \in 1..Len(q) : q[k].type = t /\ q[k].id = i
  <2>1. ASSUME NEW t, NEW k \in 1..Len(tc), tc[k].type = t, tc[k].id = i
        PROVE  \/ Head(tc).type = t /\ Head(tc).id = i
               \/ \E l \in 1..Len(q) : q[l].type = t /\ q[l].id = i
    <3>1. k = 1 \/ (k - 1 \in 1..n /\ tc[k] = q[k - 1])
      BY ONLY <1>3, <1>5, k \in 1..Len(tc)
    <3> QED BY ONLY <1>5, <2>1, <3>1
  <2>2. ASSUME NEW t, NEW k \in 1..Len(q), q[k].type = t, q[k].id = i
        PROVE  \E l \in 1..Len(tc) : tc[l].type = t /\ tc[l].id = i
    <3>1. k + 1 \in 1..Len(tc) /\ q[k] = tc[k + 1]
      BY ONLY <1>4, <1>5, k \in 1..Len(q)
    <3> QED BY ONLY <2>2, <3>1
  <2>3. 1 \in 1..Len(tc) /\ Head(tc) = tc[1]
    BY ONLY <1>5
  <2> QED BY ONLY <2>1, <2>2, <2>3
<1>7. (\E k \in 1..Len(tc) : tc[k].type = "End" /\ tc[k].n = 1 /\ tc[k].id = i)
        <=> \/ Head(tc).type = "End" /\ Head(tc).n = 1 /\ Head(tc).id = i
            \/ \E k \in 1..Len(q) :
                 q[k].type = "End" /\ q[k].n = 1 /\ q[k].id = i
  <2>1. ASSUME NEW k \in 1..Len(tc),
               tc[k].type = "End" /\ tc[k].n = 1 /\ tc[k].id = i
        PROVE  \/ Head(tc).type = "End" /\ Head(tc).n = 1 /\ Head(tc).id = i
               \/ \E l \in 1..Len(q) :
                    q[l].type = "End" /\ q[l].n = 1 /\ q[l].id = i
    <3>1. k = 1 \/ (k - 1 \in 1..n /\ tc[k] = q[k - 1])
      BY ONLY <1>3, <1>5, k \in 1..Len(tc)
    <3> QED BY ONLY <1>5, <2>1, <3>1
  <2>2. ASSUME NEW k \in 1..Len(q),
               q[k].type = "End" /\ q[k].n = 1 /\ q[k].id = i
        PROVE  \E l \in 1..Len(tc) :
                 tc[l].type = "End" /\ tc[l].n = 1 /\ tc[l].id = i
    <3>1. k + 1 \in 1..Len(tc) /\ q[k] = tc[k + 1]
      BY ONLY <1>4, <1>5, k \in 1..Len(q)
    <3> QED BY ONLY <2>2, <3>1
  <2>3. 1 \in 1..Len(tc) /\ Head(tc) = tc[1]
    BY ONLY <1>5
  <2> QED BY ONLY <2>1, <2>2, <2>3
<1>8. Told(tc, i) <=> \/ Head(tc).type = "Accept" /\ Head(tc).id = i
                      \/ Told(q, i)
  BY ONLY <1>6 DEF Told
<1>9. Ended(tc, i) <=> \/ Head(tc).type = "End" /\ Head(tc).id = i
                       \/ Ended(q, i)
  BY ONLY <1>6 DEF Ended
<1>10. Whole(tc, i)
         <=> \/ Head(tc).type = "End" /\ Head(tc).n = 1 /\ Head(tc).id = i
             \/ Whole(q, i)
  BY ONLY <1>7 DEF Whole
<1> QED BY ONLY <1>2, <1>8, <1>9, <1>10

(* A frame more says what it says, and nothing else.                        *)
LEMMA AddTells ==
  ASSUME NEW S, NEW tc \in Seq(S), NEW a \in S, NEW i
  PROVE  /\ Told(Append(tc, a), i)
              <=> Told(tc, i) \/ (a.type = "Accept" /\ a.id = i)
         /\ Ended(Append(tc, a), i)
              <=> Ended(tc, i) \/ (a.type = "End" /\ a.id = i)
         /\ Whole(Append(tc, a), i)
              <=> Whole(tc, i) \/ (a.type = "End" /\ a.n = 1 /\ a.id = i)
<1>0. tc \in Seq(S) /\ a \in S
  OBVIOUS
<1>l. Len(tc) \in Nat
  BY ONLY <1>0, LenIs
<1>q. PICK q : q = Append(tc, a)
  OBVIOUS
<1>1. PICK n \in Nat : /\ Len(tc) = n /\ Len(q) = n + 1
                       /\ q = Append(tc, a) /\ q[n + 1] = a
                       /\ \A k \in 1..n : q[k] = tc[k]
  <2>1. /\ Len(Append(tc, a)) = Len(tc) + 1 /\ Append(tc, a)[Len(tc) + 1] = a
        /\ \A k \in 1..Len(tc) : Append(tc, a)[k] = tc[k]
    BY ONLY <1>0, AppendIs
  <2> QED BY ONLY <1>l, <1>q, <2>1
<1>2. \A k \in 1..(n + 1) : k = n + 1 \/ k \in 1..n
  BY ONLY <1>1
<1>3. \A k \in 1..n : k \in 1..(n + 1)
  BY ONLY <1>1
<1>4. n + 1 \in 1..(n + 1)
  BY ONLY <1>1
<1>5. \A t : (\E k \in 1..Len(q) : q[k].type = t /\ q[k].id = i)
               <=> \/ a.type = t /\ a.id = i
                   \/ \E k \in 1..Len(tc) : tc[k].type = t /\ tc[k].id = i
  BY ONLY <1>1, <1>2, <1>3, <1>4
<1>6. (\E k \in 1..Len(q) : q[k].type = "End" /\ q[k].n = 1 /\ q[k].id = i)
        <=> \/ a.type = "End" /\ a.n = 1 /\ a.id = i
            \/ \E k \in 1..Len(tc) :
                 tc[k].type = "End" /\ tc[k].n = 1 /\ tc[k].id = i
  BY ONLY <1>1, <1>2, <1>3, <1>4
<1> QED BY ONLY <1>1, <1>5, <1>6 DEF Told, Ended, Whole

(* One id more is given up.                                                 *)
LEMMA AddGivenUp ==
  ASSUME NEW g \in Seq(Nat), NEW e \in Nat, NEW i
  PROVE  GivenUp(Append(g, e), i) <=> GivenUp(g, i) \/ e = i
<1>0. g \in Seq(Nat) /\ e \in Nat
  OBVIOUS
<1>l. Len(g) \in Nat
  BY ONLY <1>0, LenIs
<1>q. PICK q : q = Append(g, e)
  OBVIOUS
<1>1. PICK n \in Nat : /\ Len(g) = n /\ Len(q) = n + 1
                       /\ q = Append(g, e) /\ q[n + 1] = e
                       /\ \A k \in 1..n : q[k] = g[k]
  <2>1. /\ Len(Append(g, e)) = Len(g) + 1 /\ Append(g, e)[Len(g) + 1] = e
        /\ \A k \in 1..Len(g) : Append(g, e)[k] = g[k]
    BY ONLY <1>0, AppendIs
  <2> QED BY ONLY <1>l, <1>q, <2>1
<1>2. \A k \in 1..(n + 1) : k = n + 1 \/ k \in 1..n
  BY ONLY <1>1
<1>3. n + 1 \in 1..(n + 1) /\ \A k \in 1..n : k \in 1..(n + 1)
  BY ONLY <1>1
<1> QED BY ONLY <1>1, <1>2, <1>3 DEF GivenUp

(* IdsIn survives a read, and the frame read ends no id that is live.       *)
LEMMA TailIds ==
  ASSUME NEW S, NEW tc \in Seq(S), tc # <<>>, NEW h, IdsIn(tc, h)
  PROVE  /\ IdsIn(Tail(tc), h)
         /\ Head(tc).type \in {"Accept", "End"} => Head(tc).id \in 1..h.ids
         /\ Head(tc).type = "End" =>
              /\ Head(tc).id \notin Live(h)
              /\ ~Told(Tail(tc), Head(tc).id) /\ ~Ended(Tail(tc), Head(tc).id)
<1>0. tc \in Seq(S) /\ tc # <<>>
  OBVIOUS
<1>1. PICK n \in Nat : /\ Len(tc) = n + 1 /\ Len(Tail(tc)) = n
                       /\ Head(tc) = tc[1]
                       /\ \A k \in 1..n : Tail(tc)[k] = tc[k + 1]
  <2>1. /\ Len(tc) \in Nat \ {0} /\ Len(Tail(tc)) = Len(tc) - 1
        /\ Head(tc) = tc[1]
        /\ \A k \in 1..Len(Tail(tc)) : Tail(tc)[k] = tc[k + 1]
    BY ONLY <1>0, TailIs
  <2>2. Len(tc) - 1 \in Nat /\ Len(tc) = (Len(tc) - 1) + 1
    BY ONLY <2>1
  <2> QED BY ONLY <2>1, <2>2
<1>2. PICK q : q = Tail(tc)
  OBVIOUS
<1>3. \A k \in 1..n : k + 1 \in 1..(n + 1) /\ q[k] = tc[k + 1]
  BY ONLY <1>1, <1>2
<1>4. /\ \A k \in 1..(n + 1) :
           /\ tc[k].type \in {"Accept", "End"} => tc[k].id \in 1..h.ids
           /\ tc[k].type = "End" => tc[k].id \notin Live(h)
      /\ \A k, l \in 1..(n + 1) :
           tc[k].type = "End" /\ tc[k].id = tc[l].id =>
             /\ tc[l].type = "End" => k = l
             /\ tc[l].type = "Accept" => l < k
  BY ONLY <1>1, IdsIn(tc, h) DEF IdsIn
<1>5. \A k \in 1..n :
        /\ q[k].type \in {"Accept", "End"} => q[k].id \in 1..h.ids
        /\ q[k].type = "End" => q[k].id \notin Live(h)
  BY ONLY <1>3, <1>4
<1>6. \A k, l \in 1..n :
        q[k].type = "End" /\ q[k].id = q[l].id =>
          /\ q[l].type = "End" => k = l
          /\ q[l].type = "Accept" => l < k
  <2>1. \A k, l \in 1..n : k + 1 \in 1..(n + 1) /\ l + 1 \in 1..(n + 1)
                           /\ (k + 1 = l + 1 => k = l)
                           /\ (l + 1 < k + 1 => l < k)
    BY ONLY <1>1
  <2>2. ASSUME NEW k \in 1..n, NEW l \in 1..n,
               q[k].type = "End", q[k].id = q[l].id
        PROVE  /\ q[l].type = "End" => k = l
               /\ q[l].type = "Accept" => l < k
    <3>1. PICK kk \in 1..(n + 1), ll \in 1..(n + 1) :
            /\ q[k] = tc[kk] /\ q[l] = tc[ll] /\ (kk = ll => k = l)
            /\ (ll < kk => l < k)
      BY ONLY <1>3, <2>1, k \in 1..n, l \in 1..n
    <3> QED BY ONLY <1>4, <2>2, <3>1
  <2> QED BY ONLY <2>2
<1>7. IdsIn(Tail(tc), h)
  BY ONLY <1>1, <1>2, <1>5, <1>6 DEF IdsIn
<1>8. ASSUME Head(tc).type = "End", NEW k \in 1..n, q[k].id = Head(tc).id
      PROVE  q[k].type \notin {"End", "Accept"}
  <2>1. k + 1 \in 1..(n + 1) /\ 1 \in 1..(n + 1) /\ k + 1 # 1
        /\ ~(k + 1 < 1)
    BY ONLY <1>1, k \in 1..n
  <2>2. q[k] = tc[k + 1] /\ Head(tc) = tc[1]
    BY ONLY <1>1, <1>3, k \in 1..n
  <2>3. PICK kk \in 1..(n + 1) : q[k] = tc[kk] /\ kk # 1 /\ ~(kk < 1)
    BY ONLY <2>1, <2>2
  <2> QED BY ONLY <1>4, <1>8, <2>1, <2>2, <2>3
<1>9. Head(tc).type = "End" =>
        ~Told(Tail(tc), Head(tc).id) /\ ~Ended(Tail(tc), Head(tc).id)
  BY ONLY <1>1, <1>2, <1>8 DEF Told, Ended
<1>10. /\ Head(tc).type \in {"Accept", "End"} => Head(tc).id \in 1..h.ids
       /\ Head(tc).type = "End" => Head(tc).id \notin Live(h)
  <2>1. 1 \in 1..(n + 1)
    BY ONLY <1>1
  <2> QED BY ONLY <1>1, <1>4, <2>1
<1> QED BY <1>7, <1>9, <1>10

(* Something is said; the server goes on.                                  *)
LEMMA NextIds ==
  ASSUME NEW tc, NEW h, NEW h2, IdsIn(tc, h), h.ids \in Nat, h2.ids \in Nat,
         h.ids <= h2.ids, \A i \in 1..h.ids : Ended(tc, i) => i \notin Live(h2)
  PROVE  IdsIn(tc, h2)
<1>1. 1..h.ids \subseteq 1..h2.ids
  OBVIOUS
<1>2. \A k \in 1..Len(tc) : tc[k].type = "End" => tc[k].id \notin Live(h2)
  BY DEF IdsIn, Ended
<1> QED BY <1>1, <1>2 DEF IdsIn

(* It survives a frame more, of an id that fits.                            *)
LEMMA AddIds ==
  ASSUME NEW S, NEW tc \in Seq(S), NEW a \in S, NEW h, IdsIn(tc, h),
         a.type \in {"Accept", "End"} =>
           /\ a.id \in 1..h.ids
           /\ ~Ended(tc, a.id)
           /\ a.type = "End" => a.id \notin Live(h)
  PROVE  IdsIn(Append(tc, a), h)
<1>0. tc \in Seq(S) /\ a \in S
  OBVIOUS
<1>l. Len(tc) \in Nat
  BY ONLY <1>0, LenIs
<1>q. PICK q : q = Append(tc, a)
  OBVIOUS
<1>1. PICK n \in Nat : /\ Len(tc) = n /\ Len(q) = n + 1
                       /\ q = Append(tc, a) /\ q[n + 1] = a
                       /\ \A k \in 1..n : q[k] = tc[k]
  <2>1. /\ Len(Append(tc, a)) = Len(tc) + 1 /\ Append(tc, a)[Len(tc) + 1] = a
        /\ \A k \in 1..Len(tc) : Append(tc, a)[k] = tc[k]
    BY ONLY <1>0, AppendIs
  <2> QED BY ONLY <1>l, <1>q, <2>1
<1>2. \A k \in 1..(n + 1) : (k = n + 1 /\ q[k] = a)
                            \/ (k \in 1..n /\ q[k] = tc[k] /\ k < n + 1)
  <2>1. \A k \in 1..(n + 1) : k = n + 1 \/ (k \in 1..n /\ k < n + 1)
    BY ONLY <1>1
  <2> QED BY ONLY <1>1, <2>1
<1>3. /\ \A k \in 1..n :
           /\ tc[k].type \in {"Accept", "End"} => tc[k].id \in 1..h.ids
           /\ tc[k].type = "End" => tc[k].id \notin Live(h)
      /\ \A k, l \in 1..n :
           tc[k].type = "End" /\ tc[k].id = tc[l].id =>
             /\ tc[l].type = "End" => k = l
             /\ tc[l].type = "Accept" => l < k
  BY ONLY <1>1, IdsIn(tc, h) DEF IdsIn
<1>4. /\ a.type \in {"Accept", "End"} => a.id \in 1..h.ids
      /\ a.type = "End" => a.id \notin Live(h)
      /\ a.type \in {"Accept", "End"} =>
           \A k \in 1..n : tc[k].type = "End" => tc[k].id # a.id
  BY ONLY <1>1, a.type \in {"Accept", "End"} =>
           /\ a.id \in 1..h.ids
           /\ ~Ended(tc, a.id)
           /\ a.type = "End" => a.id \notin Live(h)
     DEF Ended
<1>5. \A k \in 1..(n + 1) :
        /\ q[k].type \in {"Accept", "End"} => q[k].id \in 1..h.ids
        /\ q[k].type = "End" => q[k].id \notin Live(h)
  BY ONLY <1>2, <1>3, <1>4
<1>6. \A k, l \in 1..(n + 1) :
        q[k].type = "End" /\ q[k].id = q[l].id =>
          /\ q[l].type = "End" => k = l
          /\ q[l].type = "Accept" => l < k
  <2>1. ASSUME NEW k \in 1..(n + 1), NEW l \in 1..(n + 1),
               q[k].type = "End", q[k].id = q[l].id
        PROVE  /\ q[l].type = "End" => k = l
               /\ q[l].type = "Accept" => l < k
    <3>2. CASE k = n + 1 /\ q[k] = a
      <4>1. CASE l = n + 1 /\ q[l] = a
        BY ONLY <2>1, <3>2, <4>1
      <4>2. CASE l \in 1..n /\ q[l] = tc[l] /\ l < n + 1
        BY ONLY <1>4, <2>1, <3>2, <4>2
      <4> QED BY ONLY <1>2, <4>1, <4>2, l \in 1..(n + 1)
    <3>3. CASE k \in 1..n /\ q[k] = tc[k]
      <4>1. CASE l = n + 1 /\ q[l] = a
        BY ONLY <1>4, <2>1, <3>3, <4>1
      <4>2. CASE l \in 1..n /\ q[l] = tc[l]
        BY ONLY <1>3, <2>1, <3>3, <4>2
      <4> QED BY ONLY <1>2, <4>1, <4>2, l \in 1..(n + 1)
    <3> QED BY ONLY <1>2, <3>2, <3>3, k \in 1..(n + 1)
  <2> QED BY ONLY <2>1
<1>7. IdsIn(q, h)
  BY ONLY <1>1, <1>5, <1>6 DEF IdsIn
<1> QED BY ONLY <1>q, <1>7

(* Chunks on their way keep naming an upload.                               *)
LEMMA NamedData ==
  ASSUME NEW S, NEW ts \in Seq(S), DataNamed(ts)
  PROVE  /\ ts # <<>> => /\ DataNamed(Tail(ts))
                         /\ Head(ts).type = "Data" => Head(ts).id # 0
         /\ \A a \in S : (a.type = "Data" => a.id # 0)
                            => DataNamed(Append(ts, a))
<1>0. ts \in Seq(S) /\ DataNamed(ts)
  OBVIOUS
<1>1. ASSUME ts # <<>>
      PROVE  /\ DataNamed(Tail(ts))
             /\ Head(ts).type = "Data" => Head(ts).id # 0
  <2>1. /\ Len(ts) \in Nat \ {0} /\ Len(Tail(ts)) = Len(ts) - 1
        /\ Head(ts) = ts[1]
        /\ \A k \in 1..Len(Tail(ts)) : Tail(ts)[k] = ts[k + 1]
    BY ONLY <1>0, <1>1, TailIs
  <2>2. /\ \A k \in 1..(Len(ts) - 1) : k + 1 \in 1..Len(ts)
        /\ 1 \in 1..Len(ts)
    BY ONLY <2>1
  <2>3. \A k \in 1..Len(ts) : ts[k].type = "Data" => ts[k].id # 0
    BY ONLY <1>0 DEF DataNamed
  <2> QED BY ONLY <2>1, <2>2, <2>3 DEF DataNamed
<1>2. ASSUME NEW a \in S, a.type = "Data" => a.id # 0
      PROVE  DataNamed(Append(ts, a))
  <2>1. /\ Len(ts) \in Nat /\ Len(Append(ts, a)) = Len(ts) + 1
        /\ Append(ts, a)[Len(ts) + 1] = a
        /\ \A k \in 1..Len(ts) : Append(ts, a)[k] = ts[k]
    <3>1. ts \in Seq(S) /\ a \in S
      OBVIOUS
    <3> QED BY ONLY <3>1, AppendIs, LenIs
  <2>2. \A k \in 1..(Len(ts) + 1) : k = Len(ts) + 1 \/ k \in 1..Len(ts)
    BY ONLY <2>1
  <2>3. \A k \in 1..Len(ts) : ts[k].type = "Data" => ts[k].id # 0
    BY ONLY <1>0 DEF DataNamed
  <2> QED BY ONLY <1>2, <2>1, <2>2, <2>3 DEF DataNamed
<1> QED BY <1>1, <1>2

LinkTyped(tc, ts, ow, h, x, g) ==
  /\ tc \in Seq(FromServer) /\ ts \in Seq(FromClient) /\ ow \in Seq(Debts)
  /\ h \in Hosts /\ x \in Xfers /\ g \in Seq(Nat)

(* What is read leaves the rest as it was expected.                        *)
LEMMA TailLinked ==
  ASSUME NEW tc, NEW ts, NEW ow, NEW h, NEW x, NEW g,
         LinkTyped(tc, ts, ow, h, x, g), tc # <<>>
  PROVE  /\ \A i : /\ Told(tc, i) <=>
                        \/ Head(tc).type = "Accept" /\ Head(tc).id = i
                        \/ Told(Tail(tc), i)
                   /\ Ended(tc, i) <=>
                        \/ Head(tc).type = "End" /\ Head(tc).id = i
                        \/ Ended(Tail(tc), i)
                   /\ Whole(tc, i) <=>
                        \/ /\ Head(tc).type = "End" /\ Head(tc).n = 1
                           /\ Head(tc).id = i
                        \/ Whole(Tail(tc), i)
         /\ Tail(tc) \in Seq(FromServer) /\ Head(tc) \in FromServer
<1>1. tc \in Seq(FromServer) /\ tc # <<>>
  BY DEF LinkTyped
<1> QED BY ONLY <1>1, TailTells, TailIs

(* An accept: its request was owed, and whoever takes it knows of its end. *)
LEMMA AcceptHeard ==
  ASSUME NEW tc, NEW ts, NEW ow, NEW h, NEW x, NEW g,
         LinkTyped(tc, ts, ow, h, x, g), LinkInv(tc, ts, ow, h, x, g),
         tc # <<>>, Head(tc).type = "Accept"
  PROVE  /\ ow # <<>> /\ ow[1].is = "start" /\ Head(tc).id \in Nat \ {0}
         /\ LinkInv(Tail(tc), ts, Tail(ow), h, x, Append(g, Head(tc).id))
         /\ x.gen # 0 /\ x.gen = ow[1].gen /\ x.stage # "running" =>
              /\ x.way = "download" => Head(tc).ver \in 1..MaxVersions
              /\ \A y : y.gen = x.gen /\ y.way = x.way /\ y.stage = "running"
                        /\ y.id = Head(tc).id
                          => LinkInv(Tail(tc), ts, Tail(ow), h, y, g)
<1>1. PICK way \in WayTable, ups \in SUBSET (1..h.ids) :
        Ledger(way, ups, tc, ts, ow, h, x)
  BY DEF LinkInv
<1>2. /\ tc \in Seq(FromServer) /\ ts \in Seq(FromClient) /\ ow \in Seq(Debts)
      /\ g \in Seq(Nat) /\ h.ids \in Nat /\ tc # <<>>
  BY DEF LinkTyped, Hosts
<1>3. Linked(tc, ts, ow, h.writing, way, ups)
  BY ONLY <1>1 DEF Ledger
<1> DEFINE m == Head(tc)
           q == Tail(tc)
<1>4. /\ ow # <<>> /\ ow[1].is = "start"
      /\ m.id \in ups <=> way[ow[1].gen] = "upload"
      /\ m.id \notin ups => m.ver \in 1..MaxVersions
      /\ Linked(q, ts, Tail(ow), h.writing, way, ups)
  BY ONLY <1>2, <1>3, m.type = "Accept", HeadLinks
<1>5. \A i : /\ Told(tc, i) <=> m.id = i \/ Told(q, i)
             /\ Ended(tc, i) <=> Ended(q, i)
             /\ Whole(tc, i) <=> Whole(q, i)
  BY TailLinked
<1>6. IdsIn(q, h) /\ m.id \in 1..h.ids
  BY ONLY <1>2, m.type = "Accept", LinkInv(tc, ts, ow, h, x, g), TailIds
     DEF LinkInv
<1>7. m.id \in Nat \ {0}
  BY ONLY <1>2, <1>6
<1>8. \A i : GivenUp(Append(g, m.id), i) <=> GivenUp(g, i) \/ m.id = i
  BY ONLY <1>2, <1>7, AddGivenUp
<1> HIDE DEF m, q
<1>9. Expected(tc, h, x, g) /\ HostSane(h) /\ DataNamed(ts)
  BY DEF LinkInv
<1>10. LinkInv(q, ts, Tail(ow), h, x, Append(g, m.id))
  <2>1. Expected(q, h, x, Append(g, m.id))
    BY ONLY <1>5, <1>8, <1>9 DEF Expected
  <2>2. Ledger(way, ups, q, ts, Tail(ow), h, x)
    BY ONLY <1>1, <1>4, <1>5 DEF Ledger
  <2> QED BY ONLY <1>1, <1>6, <1>9, <2>1, <2>2 DEF LinkInv
<1>11. ASSUME x.gen # 0, x.gen = ow[1].gen, x.stage # "running",
              NEW y, y.gen = x.gen, y.way = x.way, y.stage = "running",
              y.id = m.id
       PROVE  LinkInv(q, ts, Tail(ow), h, y, g)
  <2>1. Expected(q, h, y, g)
    BY ONLY <1>5, <1>9, <1>11 DEF Expected
  <2>2. Ledger(way, ups, q, ts, Tail(ow), h, y)
    BY ONLY <1>1, <1>4, <1>5, <1>11 DEF Ledger
  <2> QED BY ONLY <1>1, <1>6, <1>9, <2>1, <2>2 DEF LinkInv
<1>12. ASSUME x.gen # 0, x.gen = ow[1].gen, x.way = "download"
       PROVE  m.ver \in 1..MaxVersions
  BY ONLY <1>1, <1>4, <1>12 DEF Ledger
<1> QED BY <1>4, <1>7, <1>10, <1>11, <1>12 DEF m, q

(* An end: of the transfer that runs, or of one given up.                  *)
LEMMA EndHeard ==
  ASSUME NEW tc, NEW ts, NEW ow, NEW h, NEW x, NEW g,
         LinkTyped(tc, ts, ow, h, x, g), LinkInv(tc, ts, ow, h, x, g),
         tc # <<>>, Head(tc).type = "End"
  PROVE  /\ \/ GivenUp(g, Head(tc).id)
            \/ x.stage = "running" /\ x.id = Head(tc).id
         /\ \A g2 : (\A i : i # Head(tc).id /\ GivenUp(g, i) => GivenUp(g2, i))
                      => LinkInv(Tail(tc), ts, ow, h, x, g2)
         /\ x.stage = "running" /\ x.id = Head(tc).id =>
              /\ x.way = "upload" /\ Head(tc).n = 1
                   => Head(tc).id \in h.filed
              /\ \A y : y.gen \in {0, x.gen} /\ (y.gen # 0 => y.way = x.way)
                        /\ y.stage # "running"
                          => LinkInv(Tail(tc), ts, ow, h, y, g)
<1>1. PICK way \in WayTable, ups \in SUBSET (1..h.ids) :
        Ledger(way, ups, tc, ts, ow, h, x)
  BY DEF LinkInv
<1>2. /\ tc \in Seq(FromServer) /\ ts \in Seq(FromClient) /\ ow \in Seq(Debts)
      /\ g \in Seq(Nat) /\ h.ids \in Nat /\ tc # <<>>
  BY DEF LinkTyped, Hosts
<1>3. Linked(tc, ts, ow, h.writing, way, ups)
  BY ONLY <1>1 DEF Ledger
<1> DEFINE m == Head(tc)
           q == Tail(tc)
<1>4. Linked(q, ts, ow, h.writing, way, ups)
  BY ONLY <1>2, <1>3, m.type = "End", HeadLinks
<1>5. \A i : /\ Told(tc, i) <=> Told(q, i)
             /\ Ended(tc, i) <=> m.id = i \/ Ended(q, i)
             /\ Whole(tc, i) <=> (m.n = 1 /\ m.id = i) \/ Whole(q, i)
  BY TailLinked
<1>6. /\ IdsIn(q, h) /\ m.id \in 1..h.ids /\ m.id \notin Live(h)
      /\ ~Told(q, m.id) /\ ~Ended(q, m.id)
  BY ONLY <1>2, m.type = "End", LinkInv(tc, ts, ow, h, x, g), TailIds
     DEF LinkInv
<1>7. m.id \in Nat \ {0}
  BY ONLY <1>2, <1>6
<1> HIDE DEF m, q
<1>9. Expected(tc, h, x, g) /\ HostSane(h) /\ DataNamed(ts)
  BY DEF LinkInv
<1>10. GivenUp(g, m.id) \/ (x.stage = "running" /\ x.id = m.id)
  BY ONLY <1>5, <1>6, <1>7, <1>9 DEF Expected
<1>11. ASSUME NEW g2, \A i : i # m.id /\ GivenUp(g, i) => GivenUp(g2, i)
       PROVE  LinkInv(q, ts, ow, h, x, g2)
  <2>1. Expected(q, h, x, g2)
    BY ONLY <1>5, <1>6, <1>9, <1>11 DEF Expected
  <2>2. Ledger(way, ups, q, ts, ow, h, x)
    BY ONLY <1>1, <1>4, <1>5 DEF Ledger
  <2> QED BY ONLY <1>1, <1>6, <1>9, <2>1, <2>2 DEF LinkInv
<1>12. ASSUME x.id = m.id, NEW y, y.gen \in {0, x.gen},
              y.gen # 0 => y.way = x.way, y.stage # "running"
       PROVE  LinkInv(q, ts, ow, h, y, g)
  <2>1. Expected(q, h, y, g)
    BY ONLY <1>5, <1>6, <1>9, <1>12 DEF Expected
  <2>2. Ledger(way, ups, q, ts, ow, h, y)
    BY ONLY <1>1, <1>4, <1>5, <1>12 DEF Ledger
  <2> QED BY ONLY <1>1, <1>6, <1>9, <2>1, <2>2 DEF LinkInv
<1>13. ASSUME x.stage = "running", x.id = m.id, x.way = "upload", m.n = 1
       PROVE  m.id \in h.filed
  BY ONLY <1>1, <1>5, <1>13 DEF Ledger
<1> QED BY <1>10, <1>11, <1>12, <1>13 DEF m, q

(* A chunk, the answer to a barrier, a refusal.                            *)
LEMMA OtherHeard ==
  ASSUME NEW tc, NEW ts, NEW ow, NEW h, NEW x, NEW g,
         LinkTyped(tc, ts, ow, h, x, g), LinkInv(tc, ts, ow, h, x, g),
         tc # <<>>
  PROVE  /\ Head(tc).type = "Data" => LinkInv(Tail(tc), ts, ow, h, x, g)
         /\ Head(tc).type = "Pong" =>
              /\ ow # <<>> /\ ow[1].is # "start"
              /\ LinkInv(Tail(tc), ts, Tail(ow), h, x, g)
         /\ Head(tc).type = "Error" =>
              /\ ow # <<>>
              /\ IF ow[1].is = "start"
                 THEN LinkInv(Tail(tc), ts, Tail(ow), h, x, g)
                 ELSE LinkInv(Tail(tc), ts, ow, h, x, g)
<1>1. PICK way \in WayTable, ups \in SUBSET (1..h.ids) :
        Ledger(way, ups, tc, ts, ow, h, x)
  BY DEF LinkInv
<1>2. /\ tc \in Seq(FromServer) /\ ts \in Seq(FromClient) /\ ow \in Seq(Debts)
      /\ tc # <<>>
  BY DEF LinkTyped
<1>3. Linked(tc, ts, ow, h.writing, way, ups)
  BY ONLY <1>1 DEF Ledger
<1> DEFINE m == Head(tc)
           q == Tail(tc)
<1>4. /\ m.type = "Data" => Linked(q, ts, ow, h.writing, way, ups)
      /\ m.type = "Pong" => /\ ow # <<>> /\ ow[1].is # "start"
                            /\ Linked(q, ts, Tail(ow), h.writing, way, ups)
      /\ m.type = "Error" =>
           /\ ow # <<>>
           /\ IF ow[1].is = "start"
              THEN Linked(q, ts, Tail(ow), h.writing, way, ups)
              ELSE Linked(q, ts, ow, h.writing, way, ups)
  BY ONLY <1>2, <1>3, HeadLinks
<1>5. m.type \in {"Data", "Pong", "Error"} =>
        \A i : /\ Told(tc, i) <=> Told(q, i)
               /\ Ended(tc, i) <=> Ended(q, i)
               /\ Whole(tc, i) <=> Whole(q, i)
  BY TailLinked
<1>6. IdsIn(q, h)
  BY ONLY <1>2, LinkInv(tc, ts, ow, h, x, g), TailIds DEF LinkInv
<1> HIDE DEF m, q
<1>9. Expected(tc, h, x, g) /\ HostSane(h) /\ DataNamed(ts)
  BY DEF LinkInv
<1>10. ASSUME NEW o, Linked(q, ts, o, h.writing, way, ups),
              m.type \in {"Data", "Pong", "Error"}
       PROVE  LinkInv(q, ts, o, h, x, g)
  <2>1. Expected(q, h, x, g)
    BY ONLY <1>5, <1>9, <1>10 DEF Expected
  <2>2. Ledger(way, ups, q, ts, o, h, x)
    BY ONLY <1>1, <1>10, <1>5 DEF Ledger
  <2> QED BY ONLY <1>1, <1>6, <1>9, <2>1, <2>2 DEF LinkInv
<1> QED BY <1>4, <1>10 DEF m, q

(* Only what the client takes for its own changes.                         *)
LEMMA ClaimsChange ==
  ASSUME NEW tc, NEW ts, NEW ow, NEW h, NEW x, NEW g, NEW y, NEW g2,
         LinkInv(tc, ts, ow, h, x, g),
         y.gen # 0 => y.gen = x.gen /\ y.way = x.way,
         y.stage = "running" =>
           x.stage = "running" /\ y.id = x.id /\ y.way = x.way,
         \A i : GivenUp(g, i) => GivenUp(g2, i),
         x.stage = "running" =>
           (y.stage = "running" /\ y.id = x.id) \/ GivenUp(g2, x.id)
  PROVE  LinkInv(tc, ts, ow, h, y, g2)
<1>1. PICK way \in WayTable, ups \in SUBSET (1..h.ids) :
        Ledger(way, ups, tc, ts, ow, h, x)
  BY DEF LinkInv
<1>2. Expected(tc, h, y, g2)
  BY DEF LinkInv, Expected
<1>3. Ledger(way, ups, tc, ts, ow, h, y)
  BY <1>1 DEF Ledger
<1>4. IdsIn(tc, h) /\ HostSane(h) /\ DataNamed(ts)
  BY DEF LinkInv
<1> QED BY ONLY <1>1, <1>2, <1>3, <1>4 DEF LinkInv

(* A refused barrier is marked and still owed.                              *)
LEMMA DebtMarked ==
  ASSUME NEW tc, NEW ts, NEW ow, NEW h, NEW x, NEW g, NEW ow2,
         LinkInv(tc, ts, ow, h, x, g), Len(ow2) = Len(ow),
         \A k \in 1..Len(ow) : ow2[k].is = ow[k].is /\ ow2[k].gen = ow[k].gen
  PROVE  LinkInv(tc, ts, ow2, h, x, g)
<1>1. PICK way \in WayTable, ups \in SUBSET (1..h.ids) :
        Ledger(way, ups, tc, ts, ow, h, x)
  BY DEF LinkInv
<1>2. Linked(tc, ts, ow2, h.writing, way, ups)
  <2>1. Linked(tc, ts, ow, h.writing, way, ups)
    BY ONLY <1>1 DEF Ledger
  <2> QED BY <2>1, MarkLinks
<1>3. Ledger(way, ups, tc, ts, ow2, h, x)
  BY ONLY <1>1, <1>2 DEF Ledger
<1> QED BY <1>1, <1>3 DEF LinkInv

(* The client asks for its transfer, or sends a barrier after what it      *)
(* sends.                                                                  *)
LEMMA AskedFor ==
  ASSUME NEW tc, NEW ts, NEW ow, NEW h, NEW x, NEW g, NEW f, NEW d,
         LinkTyped(tc, ts, ow, h, x, g), LinkInv(tc, ts, ow, h, x, g),
         f \in FromClient, d \in Debts, d.is = "start", f.type = "Start",
         d.gen = x.gen, x.gen # 0, f.way = x.way
  PROVE  LinkInv(tc, Append(ts, f), Append(ow, d), h, x, g)
<1>1. PICK way \in WayTable, ups \in SUBSET (1..h.ids) :
        Ledger(way, ups, tc, ts, ow, h, x)
  BY DEF LinkInv
<1>2. /\ tc \in Seq(FromServer) /\ ts \in Seq(FromClient) /\ ow \in Seq(Debts)
      /\ f \in FromClient /\ d \in Debts /\ d.is = "start" /\ f.type = "Start"
  BY DEF LinkTyped
<1>3. /\ Linked(tc, ts, ow, h.writing, way, ups) /\ f.way = way[d.gen]
  BY <1>1 DEF Ledger
<1>4. Linked(tc, Append(ts, f), Append(ow, d), h.writing, way, ups)
  BY ONLY <1>2, <1>3, AskLinks
<1>5. Ledger(way, ups, tc, Append(ts, f), Append(ow, d), h, x)
  BY ONLY <1>1, <1>4 DEF Ledger
<1>6. DataNamed(Append(ts, f))
  <2>1. f.type # "Data" /\ DataNamed(ts)
    BY <1>2 DEF LinkInv
  <2> QED BY ONLY <1>2, <2>1, NamedData
<1> QED BY <1>1, <1>5, <1>6 DEF LinkInv

(* A frame that needs no answer goes out with a barrier after it.           *)
LEMMA BarrierSent ==
  ASSUME NEW tc, NEW ts, NEW ow, NEW h, NEW x, NEW g, NEW f, NEW d,
         LinkTyped(tc, ts, ow, h, x, g), LinkInv(tc, ts, ow, h, x, g),
         f \in FromClient, d \in Debts, d.is # "start",
         f.type \in {"Data", "End"}, f.type = "Data" => f.id # 0
  PROVE  LinkInv(tc, ts \o <<f, PingFrame>>, Append(ow, d), h, x, g)
<1>1. PICK way \in WayTable, ups \in SUBSET (1..h.ids) :
        Ledger(way, ups, tc, ts, ow, h, x)
  BY DEF LinkInv
<1>2. /\ tc \in Seq(FromServer) /\ ts \in Seq(FromClient) /\ ow \in Seq(Debts)
      /\ f \in FromClient /\ d \in Debts /\ d.is # "start"
      /\ f.type \in {"Data", "End"}
  BY DEF LinkTyped
<1>p. PingFrame \in FromClient /\ PingFrame.type = "Ping"
  BY FramesTyped DEF PingFrame
<1>3. Linked(tc, ts, ow, h.writing, way, ups)
  BY ONLY <1>1 DEF Ledger
<1> DEFINE t == Append(Append(ts, f), PingFrame)
<1>4. Linked(tc, t, Append(ow, d), h.writing, way, ups)
  BY ONLY <1>2, <1>3, <1>p, AskLinks
<1>5. Ledger(way, ups, tc, t, Append(ow, d), h, x)
  BY ONLY <1>1, <1>4 DEF Ledger
<1>6. DataNamed(t)
  <2>1. DataNamed(ts) /\ (f.type = "Data" => f.id # 0)
    BY DEF LinkInv
  <2>2. DataNamed(Append(ts, f)) /\ Append(ts, f) \in Seq(FromClient)
    BY ONLY <1>2, <2>1, NamedData, AppendIs
  <2>3. PingFrame.type = "Data" => PingFrame.id # 0
    BY <1>p
  <2> QED BY ONLY <1>p, <2>2, <2>3, NamedData
<1>7. ts \o <<f, PingFrame>> = t
  BY ONLY <1>2, <1>p, PairIs
<1>8. LinkInv(tc, t, Append(ow, d), h, x, g)
  BY <1>1, <1>5, <1>6 DEF LinkInv
<1> QED BY ONLY <1>7, <1>8

(* A job nobody has asked anything for becomes the active transfer.        *)
LEMMA JobBegins ==
  ASSUME NEW tc, NEW ts, NEW ow, NEW h, NEW x, NEW g, NEW y, NEW c, NEW w,
         LinkInv(tc, ts, ow, h, x, g), x.stage # "running",
         c \in 1..Len(Jobs), w \in Ways,
         \A k \in 1..Len(ow) : ow[k].gen # c,
         y.gen = c, y.way = w, y.stage # "running"
  PROVE  LinkInv(tc, ts, ow, h, y, g)
<1>1. PICK way \in WayTable, ups \in SUBSET (1..h.ids) :
        Ledger(way, ups, tc, ts, ow, h, x)
  BY DEF LinkInv
<1> DEFINE v == [way EXCEPT ![c] = w]
<1>2. c \in 0..Len(Jobs)
  BY JobNumbers
<1>3. v \in WayTable /\ v[c] = w /\ \A k : k # c => v[k] = way[k]
  BY <1>2 DEF WayTable
<1> HIDE DEF v
<1>4. Linked(tc, ts, ow, h.writing, way, ups)
  BY ONLY <1>1 DEF Ledger
<1>5. Linked(tc, ts, ow, h.writing, v, ups)
  <2>1. \A k \in 1..Len(ow) : v[ow[k].gen] = way[ow[k].gen]
    BY <1>3
  <2> QED BY <1>4, <2>1, NewNamesLink
<1>6. Ledger(v, ups, tc, ts, ow, h, y)
  BY <1>1, <1>3, <1>5 DEF Ledger
<1>7. Expected(tc, h, y, g)
  BY DEF LinkInv, Expected
<1>8. IdsIn(tc, h) /\ HostSane(h) /\ DataNamed(ts)
  BY DEF LinkInv
<1> QED BY ONLY <1>1, <1>3, <1>6, <1>7, <1>8 DEF LinkInv

(* A new connection: nothing is on its way, nothing is owed.               *)
LEMMA NewLink ==
  ASSUME NEW h, NEW x, h.up = 0, h.finishing = 0, h.down = 0, h.writing = 0,
         h.ids \in Nat, x.gen = 0, x.stage # "running"
  PROVE  LinkInv(<<>>, <<>>, <<>>, h, x, <<>>)
<1> DEFINE way == [k \in 0..Len(Jobs) |-> "upload"]
<1>1. way \in WayTable
  BY DEF WayTable, Ways
<1> HIDE DEF way
<1>2. Linked(<<>>, <<>>, <<>>, h.writing, way, {})
  <2> DEFINE c == [k \in Nat |-> 1]
  <2>1. c \in [Nat -> Nat] /\ c[1] = 1 /\ 0 \in Nat /\ Rising(c, 1)
    BY DEF Rising
  <2> HIDE DEF c
  <2>2. Len(<<>>) = 0 /\ \A k \in 1..0 : FALSE
    OBVIOUS
  <2>3. Chained(<<>>, <<>>, <<>>, h.writing, way, {}, 0, c, c)
    <3>1. Len(<<>>) + 1 = 1 /\ 0 + 1 = 1 /\ 0 + Len(<<>>) + 1 = 1
      BY <2>2
    <3> QED BY <2>1, <2>2, <3>1 DEF Chained, Unclosed
  <2> QED BY <2>1, <2>3 DEF Linked
<1>3. \A i : ~Told(<<>>, i) /\ ~Ended(<<>>, i) /\ ~Whole(<<>>, i)
  BY DEF Told, Ended, Whole
<1>4. Live(h) = {}
  BY DEF Live
<1>5. /\ IdsIn(<<>>, h) /\ HostSane(h) /\ Expected(<<>>, h, x, <<>>)
      /\ DataNamed(<<>>)
  BY <1>3, <1>4 DEF IdsIn, HostSane, Expected, DataNamed
<1>6. Ledger(way, {}, <<>>, <<>>, <<>>, h, x)
  BY <1>2 DEF Ledger
<1> QED BY <1>1, <1>5, <1>6 DEF LinkInv

(* The server goes on with fewer ids, or the same.                         *)
LEMMA HostGoesOn ==
  ASSUME NEW tc, NEW ts, NEW ow, NEW h, NEW x, NEW g, NEW h2,
         LinkInv(tc, ts, ow, h, x, g), h2.ids = h.ids, HostSane(h2),
         Live(h2) \subseteq Live(h), h2.down \in {h.down, 0},
         {h2.up, h2.finishing} \subseteq {h.up, h.finishing, 0},
         h.filed \subseteq h2.filed, h2.writing \in {0, h.writing}
  PROVE  LinkInv(tc, ts, ow, h2, x, g)
<1>1. PICK way \in WayTable, ups \in SUBSET (1..h.ids) :
        Ledger(way, ups, tc, ts, ow, h, x)
  BY DEF LinkInv
<1>2. Linked(tc, ts, ow, h2.writing, way, ups)
  <2>1. Linked(tc, ts, ow, h.writing, way, ups)
    BY ONLY <1>1 DEF Ledger
  <2>2. Linked(tc, ts, ow, 0, way, ups)
    BY <2>1, WrittenLinks
  <2> QED BY <2>1, <2>2
<1>3. h.down \notin ups /\ {h.up, h.finishing} \subseteq ups \cup {0}
  BY <1>1 DEF Ledger
<1>4. 0 \notin ups
  <2>1. 0 \notin 1..h.ids
    OBVIOUS
  <2> QED BY <2>1
<1>5. Ledger(way, ups, tc, ts, ow, h2, x)
  BY <1>1, <1>2, <1>3, <1>4 DEF Ledger
<1>6. IdsIn(tc, h2)
  BY DEF LinkInv, IdsIn
<1>7. Expected(tc, h2, x, g)
  BY DEF LinkInv, Expected
<1>8. DataNamed(ts)
  BY DEF LinkInv
<1> QED BY <1>1, <1>5, <1>6, <1>7, <1>8 DEF LinkInv

(* It says something of its own accord: a chunk, the refusal of the chunk  *)
(* it was writing, or the end of an id it is through with.                 *)
LEMMA HostSays ==
  ASSUME NEW tc, NEW ts, NEW ow, NEW h, NEW x, NEW g, NEW a,
         LinkTyped(tc, ts, ow, h, x, g), LinkInv(tc, ts, ow, h, x, g),
         a \in FromServer,
         a.type = "Data" \/ (a.type = "Error" /\ h.writing # 0)
  PROVE  LinkInv(Append(tc, a), ts, ow, h, x, g)
<1>1. PICK way \in WayTable, ups \in SUBSET (1..h.ids) :
        Ledger(way, ups, tc, ts, ow, h, x)
  BY DEF LinkInv
<1>2. /\ tc \in Seq(FromServer) /\ ts \in Seq(FromClient) /\ ow \in Seq(Debts)
      /\ a \in FromServer
      /\ a.type \in {"Data", "End"} \/ (a.type = "Error" /\ h.writing # 0)
      /\ a.type \notin {"Accept", "End"}
  BY DEF LinkTyped
<1>3. Linked(tc, ts, ow, h.writing, way, ups)
  BY ONLY <1>1 DEF Ledger
<1> DEFINE q == Append(tc, a)
<1>4. Linked(q, ts, ow, h.writing, way, ups)
  BY ONLY <1>2, <1>3, ToldLinks
<1>5. \A i : /\ Told(q, i) <=> Told(tc, i)
             /\ Ended(q, i) <=> Ended(tc, i)
             /\ Whole(q, i) <=> Whole(tc, i)
  BY ONLY <1>2, AddTells
<1>6. IdsIn(q, h)
  BY ONLY <1>2, LinkInv(tc, ts, ow, h, x, g), AddIds DEF LinkInv
<1> HIDE DEF q
<1>9. Expected(tc, h, x, g) /\ HostSane(h) /\ DataNamed(ts)
  BY DEF LinkInv
<1>10. Expected(q, h, x, g)
  BY ONLY <1>5, <1>9 DEF Expected
<1>11. Ledger(way, ups, q, ts, ow, h, x)
  BY ONLY <1>1, <1>4, <1>5 DEF Ledger
<1>12. LinkInv(q, ts, ow, h, x, g)
  BY ONLY <1>1, <1>6, <1>9, <1>10, <1>11 DEF LinkInv
<1> QED BY <1>12 DEF q

(* The end of an id it is through with.                                     *)
LEMMA HostEnds ==
  ASSUME NEW tc, NEW ts, NEW ow, NEW h, NEW x, NEW g, NEW a, NEW h2,
         LinkTyped(tc, ts, ow, h, x, g), LinkInv(tc, ts, ow, h, x, g),
         a \in FromServer, a.type = "End", a.id \in Live(h),
         a.n = 1 => a.id = h.down \/ a.id \in h2.filed,
         h2.ids = h.ids, HostSane(h2), Live(h2) \subseteq Live(h) \ {a.id},
         h2.down \in {h.down, 0},
         {h2.up, h2.finishing} \subseteq {h.up, h.finishing, 0},
         h.filed \subseteq h2.filed, h2.writing \in {0, h.writing}
  PROVE  LinkInv(Append(tc, a), ts, ow, h2, x, g)
<1>1. LinkInv(tc, ts, ow, h2, x, g)
  BY HostGoesOn
<1>2. PICK way \in WayTable, ups \in SUBSET (1..h.ids) :
        Ledger(way, ups, tc, ts, ow, h, x)
  BY DEF LinkInv
<1>3. /\ tc \in Seq(FromServer) /\ ts \in Seq(FromClient) /\ ow \in Seq(Debts)
      /\ a \in FromServer /\ a.type \in {"Data", "End"}
      /\ a.type = "End" /\ h2.ids = h.ids
  BY DEF LinkTyped
<1>4. Linked(tc, ts, ow, h2.writing, way, ups)
  <2>1. Linked(tc, ts, ow, h.writing, way, ups)
    BY ONLY <1>2 DEF Ledger
  <2>2. Linked(tc, ts, ow, 0, way, ups)
    BY <2>1, WrittenLinks
  <2> QED BY <2>1, <2>2
<1> DEFINE q == Append(tc, a)
<1>5. Linked(q, ts, ow, h2.writing, way, ups)
  BY ONLY <1>3, <1>4, ToldLinks
<1>6. \A i : /\ Told(q, i) <=> Told(tc, i)
             /\ Ended(q, i) <=> Ended(tc, i) \/ a.id = i
             /\ Whole(q, i) <=> Whole(tc, i) \/ (a.n = 1 /\ a.id = i)
  BY ONLY <1>3, AddTells
<1>7. ~Ended(tc, a.id) /\ a.id \in 1..h.ids /\ a.id \notin Live(h2)
  BY DEF LinkInv, IdsIn, HostSane, Ended
<1>8. IdsIn(q, h2)
  <2>1. IdsIn(tc, h2)
    BY <1>1 DEF LinkInv
  <2> QED BY ONLY <1>3, <1>7, <2>1, AddIds
<1> HIDE DEF q
<1>9. Expected(tc, h, x, g) /\ Expected(tc, h2, x, g) /\ DataNamed(ts)
  BY <1>1 DEF LinkInv
<1>10. Expected(q, h2, x, g)
  BY ONLY <1>6, <1>9, a.id \in Live(h) DEF Expected
<1>11. h.down \notin ups /\ {h.up, h.finishing} \subseteq ups \cup {0}
  BY <1>2 DEF Ledger
<1>12. 0 \notin ups
  <2>1. 0 \notin 1..h.ids
    OBVIOUS
  <2> QED BY <2>1
<1>13. \A i \in ups : Whole(q, i) => i \in h2.filed
  BY <1>2, <1>6, <1>11 DEF Ledger
<1>14. Ledger(way, ups, q, ts, ow, h2, x)
  BY <1>2, <1>5, <1>11, <1>12, <1>13 DEF Ledger
<1>15. LinkInv(q, ts, ow, h2, x, g)
  BY <1>2, <1>3, <1>8, <1>9, <1>10, <1>14 DEF LinkInv
<1> QED BY <1>15 DEF q

(* It answers a barrier, or refuses; it takes what needs no answer.        *)
LEMMA HostAnswers ==
  ASSUME NEW tc, NEW ts, NEW ow, NEW h, NEW x, NEW g, NEW a,
         LinkTyped(tc, ts, ow, h, x, g), LinkInv(tc, ts, ow, h, x, g),
         ts # <<>>, h.writing = 0, a \in FromServer,
         \/ Head(ts).type = "Ping" /\ a.type = "Pong"
         \/ Head(ts).type \in {"Start", "Data", "End"} /\ a.type = "Error"
  PROVE  LinkInv(Append(tc, a), Tail(ts), ow, h, x, g)
<1>1. PICK way \in WayTable, ups \in SUBSET (1..h.ids) :
        Ledger(way, ups, tc, ts, ow, h, x)
  BY DEF LinkInv
<1>2. /\ tc \in Seq(FromServer) /\ ts \in Seq(FromClient) /\ ow \in Seq(Debts)
      /\ a \in FromServer /\ a.type \notin {"Accept", "End"}
      /\ ts # <<>> /\ h.writing = 0
      /\ \/ Head(ts).type = "Ping" /\ a.type = "Pong"
         \/ Head(ts).type \in {"Start", "Data", "End"} /\ a.type = "Error"
  BY DEF LinkTyped
<1>3. Linked(tc, ts, ow, 0, way, ups)
  BY ONLY <1>1, <1>2 DEF Ledger
<1> DEFINE q == Append(tc, a)
<1>4. Linked(q, Tail(ts), ow, 0, way, ups)
  BY ONLY <1>2, <1>3, ServedLinks
<1>5. \A i : /\ Told(q, i) <=> Told(tc, i)
             /\ Ended(q, i) <=> Ended(tc, i)
             /\ Whole(q, i) <=> Whole(tc, i)
  BY ONLY <1>2, AddTells
<1>6. IdsIn(q, h)
  BY ONLY <1>2, LinkInv(tc, ts, ow, h, x, g), AddIds DEF LinkInv
<1>7. DataNamed(Tail(ts))
  BY ONLY <1>2, LinkInv(tc, ts, ow, h, x, g), NamedData DEF LinkInv
<1> HIDE DEF q
<1>9. Expected(tc, h, x, g) /\ HostSane(h)
  BY DEF LinkInv
<1>10. Expected(q, h, x, g)
  BY ONLY <1>5, <1>9 DEF Expected
<1>11. Ledger(way, ups, q, Tail(ts), ow, h, x)
  BY ONLY <1>1, <1>2, <1>4, <1>5 DEF Ledger
<1>12. LinkInv(q, Tail(ts), ow, h, x, g)
  BY ONLY <1>1, <1>6, <1>7, <1>9, <1>10, <1>11 DEF LinkInv
<1> QED BY <1>12 DEF q

(* It takes what needs no answer: a chunk, an end.                          *)
LEMMA HostTakes ==
  ASSUME NEW tc, NEW ts, NEW ow, NEW h, NEW x, NEW g, NEW h2,
         LinkTyped(tc, ts, ow, h, x, g), LinkInv(tc, ts, ow, h, x, g),
         ts # <<>>, h.writing = 0, Head(ts).type \in {"Data", "End"},
         h2.ids = h.ids, HostSane(h2),
         Live(h2) \subseteq Live(h), h2.down \in {h.down, 0},
         {h2.up, h2.finishing} \subseteq {h.up, h.finishing, 0},
         h.filed \subseteq h2.filed
  PROVE  LinkInv(tc, Tail(ts), ow, h2, x, g)
<1>1. PICK way \in WayTable, ups \in SUBSET (1..h.ids) :
        Ledger(way, ups, tc, ts, ow, h, x)
  BY DEF LinkInv
<1>2. /\ tc \in Seq(FromServer) /\ ts \in Seq(FromClient) /\ ow \in Seq(Debts)
      /\ ts # <<>> /\ h.writing = 0 /\ Head(ts).type \in {"Data", "End"}
  BY DEF LinkTyped
<1>3. Linked(tc, ts, ow, 0, way, ups)
  BY ONLY <1>1, <1>2 DEF Ledger
<1>p. PingFrame \in FromClient /\ [type |-> "Pong"] \in FromServer
  BY FramesTyped
<1>4. Linked(tc, Tail(ts), ow, h2.writing, way, ups)
  BY ONLY <1>2, <1>3, <1>p, ServedLinks
<1>5. h.down \notin ups /\ {h.up, h.finishing} \subseteq ups \cup {0}
  BY <1>1 DEF Ledger
<1>6. 0 \notin ups
  <2>1. 0 \notin 1..h.ids
    OBVIOUS
  <2> QED BY <2>1
<1>7. Ledger(way, ups, tc, Tail(ts), ow, h2, x)
  BY <1>1, <1>4, <1>5, <1>6 DEF Ledger
<1>8. IdsIn(tc, h2) /\ Expected(tc, h2, x, g)
  BY DEF LinkInv, IdsIn, Expected
<1>9. DataNamed(Tail(ts))
  BY ONLY <1>2, LinkInv(tc, ts, ow, h, x, g), NamedData DEF LinkInv
<1> QED BY <1>1, <1>7, <1>8, <1>9 DEF LinkInv

(* It accepts: a new id, of an upload or of a download.                    *)
LEMMA HostAccepts ==
  ASSUME NEW tc, NEW ts, NEW ow, NEW h, NEW x, NEW g, NEW a, NEW h2,
         LinkTyped(tc, ts, ow, h, x, g), LinkInv(tc, ts, ow, h, x, g),
         ts # <<>>, h.writing = 0, Head(ts).type = "Start",
         a \in FromServer, a.type = "Accept", a.id = h.ids + 1,
         h2.ids = h.ids + 1, h2.writing = 0, h2.filed = h.filed,
         h2.finishing = h.finishing,
         \/ /\ Head(ts).way = "download" /\ h2.down = a.id /\ h2.up = h.up
            /\ a.ver \in 1..MaxVersions
         \/ /\ Head(ts).way = "upload" /\ h2.up = a.id /\ h2.down = h.down
            /\ h.finishing = 0 /\ h.up = 0
  PROVE  LinkInv(Append(tc, a), Tail(ts), ow, h2, x, g)
<1>1. PICK way \in WayTable, ups \in SUBSET (1..h.ids) :
        Ledger(way, ups, tc, ts, ow, h, x)
  BY DEF LinkInv
<1>2. /\ tc \in Seq(FromServer) /\ ts \in Seq(FromClient) /\ ow \in Seq(Debts)
      /\ a \in FromServer /\ a.type = "Accept" /\ ts # <<>>
      /\ Head(ts).type = "Start" /\ h.ids \in Nat
  BY DEF LinkTyped, Hosts
<1>3. a.id \notin 1..h.ids /\ a.id \in 1..h2.ids /\ a.id # 0
      /\ 1..h.ids \subseteq 1..h2.ids /\ 0 \notin 1..h.ids /\ h2.ids \in Nat
      /\ h.ids <= h2.ids
  BY <1>2
<1> DEFINE u == IF Head(ts).way = "upload" THEN ups \cup {a.id} ELSE ups
<1>4. /\ u \in SUBSET (1..h2.ids)
      /\ \A i \in 1..h.ids : i \in u <=> i \in ups
      /\ a.id \in u <=> Head(ts).way = "upload"
  BY <1>3
<1>5. \A k \in 1..Len(tc) :
        tc[k].type = "Accept" => (tc[k].id \in u <=> tc[k].id \in ups)
  BY <1>4 DEF LinkInv, IdsIn
<1> HIDE DEF u
<1>6. Linked(tc, ts, ow, 0, way, ups)
  BY <1>1 DEF Ledger
<1>7. Linked(tc, ts, ow, 0, way, u)
  BY <1>5, <1>6, NewNamesLink
<1>8. /\ a.id \in u <=> Head(ts).way = "upload"
      /\ a.id \notin u => a.ver \in 1..MaxVersions
  BY <1>4
<1> DEFINE q == Append(tc, a)
<1>9. Linked(q, Tail(ts), ow, 0, way, u)
  BY ONLY <1>2, <1>7, <1>8, ServedLinks
<1>10. \A i : /\ Told(q, i) <=> Told(tc, i) \/ a.id = i
              /\ Ended(q, i) <=> Ended(tc, i)
              /\ Whole(q, i) <=> Whole(tc, i)
  BY ONLY <1>2, AddTells
<1>11. Live(h2) \subseteq Live(h) \cup {a.id} /\ Live(h) \subseteq 1..h.ids
  BY DEF Live, LinkInv, HostSane
<1>12. \A i : Ended(tc, i) => i \in 1..h.ids /\ i \notin Live(h)
  BY DEF LinkInv, IdsIn, Ended
<1>13. IdsIn(q, h2)
  <2>1. IdsIn(tc, h2)
    <3>1. IdsIn(tc, h) /\ \A i \in 1..h.ids : Ended(tc, i) => i \notin Live(h2)
      BY <1>3, <1>11, <1>12 DEF LinkInv
    <3> QED BY ONLY <1>2, <1>3, <3>1, NextIds
  <2>2. ~Ended(tc, a.id)
    BY <1>3, <1>12
  <2> QED BY ONLY <1>2, <1>3, <2>1, <2>2, AddIds
<1> HIDE DEF q
<1>14. Expected(q, h2, x, g)
  <2>1. Expected(tc, h, x, g)
    BY DEF LinkInv
  <2> QED BY ONLY <1>10, <1>11, <2>1 DEF Expected
<1>15. HostSane(h2)
  <2>1. HostSane(h)
    BY DEF LinkInv
  <2>2. h.up \in 1..h.ids \cup {0} /\ h.finishing \in 1..h.ids \cup {0}
        /\ h.down \in 1..h.ids \cup {0}
    BY <2>1 DEF HostSane, Live
  <2>3. Live(h2) \subseteq 1..h2.ids
    BY ONLY <1>3, <1>11
  <2> QED BY <1>3, <2>1, <2>2, <2>3 DEF HostSane
<1>16. DataNamed(Tail(ts))
  BY ONLY <1>2, LinkInv(tc, ts, ow, h, x, g), NamedData DEF LinkInv
<1>17. Ledger(way, u, q, Tail(ts), ow, h2, x)
  <2>1. /\ {h.up, h.finishing} \subseteq ups \cup {0} /\ h.down \notin ups
        /\ \A i \in ups : Whole(tc, i) => i \in h.filed
        /\ x.gen # 0 => way[x.gen] = x.way
        /\ x.way = "upload" /\ x.stage = "running" => x.id \in ups
    BY <1>1 DEF Ledger
  <2>2. ups \subseteq u /\ u \subseteq ups \cup {a.id}
        /\ (Head(ts).way = "download" => u = ups)
    BY DEF u
  <2>3. {h2.up, h2.finishing} \subseteq u \cup {0} /\ h2.down \notin u
    <3>1. CASE Head(ts).way = "download"
      BY <1>3, <2>1, <2>2, <3>1
    <3>2. CASE Head(ts).way = "upload"
      <4>1. h.down \in 1..h.ids \cup {0}
        BY DEF LinkInv, HostSane, Live
      <4> QED BY <1>3, <1>8, <2>1, <2>2, <3>2, <4>1
    <3> QED BY <3>1, <3>2
  <2>4. \A i \in u : Whole(q, i) => i \in h2.filed
    <3>1. \A i : Whole(tc, i) => Ended(tc, i)
      BY DEF Whole, Ended
    <3> QED BY <1>3, <1>10, <1>12, <2>1, <2>2, <3>1
  <2>5. u \subseteq 1..h2.ids /\ (x.way = "upload" /\ x.stage = "running"
                                    => x.id \in u)
    BY <1>4, <2>1, <2>2
  <2>6. Linked(q, Tail(ts), ow, h2.writing, way, u)
    BY <1>9
  <2> QED BY ONLY <2>1, <2>3, <2>4, <2>5, <2>6 DEF Ledger
<1>18. LinkInv(q, Tail(ts), ow, h2, x, g)
  BY ONLY <1>1, <1>4, <1>13, <1>14, <1>15, <1>16, <1>17 DEF LinkInv
<1> QED BY <1>18 DEF q

---------------------------------------------------------------------------
(* The inductive invariant.  The active transfer, by its stage.            *)
XShape(x) ==
  /\ x.gen = 0 => x = Idle
  /\ x.gen # 0 => x.way \in Ways /\ x.stage # "none"
  /\ x.stage = "running" => x.id # 0 /\ (x.way = "download" => x.accepted)
  /\ x.accepted => x.way = "download" /\ x.ver # 0
  /\ x.stage = "verifying" => x.accepted

(* A job in the pool: the one its transfer waits for, or one left detached.*)
JobFits(j, a, x) ==
  /\ a[j.gen] # "idle"
  /\ j.kind = "prepare" =>
       /\ j.at = "queued"
       /\ x.gen = j.gen /\ x.stage = "preparing" /\ x.way = "upload"
  /\ j.kind # "prepare" =>
       j.ver # 0 /\ (x.gen = j.gen => x.stage = "verifying")

(* A debt is for a job that was asked for.                                 *)
OwedAsked(a, ow) ==
  \A k \in 1..Len(ow) : ow[k].gen # 0 => a[ow[k].gen] # "idle"

(* The client's own part.                                                  *)
DeskInv(a, ow, x, t) ==
  /\ OwedAsked(a, ow) /\ XShape(x) /\ (x.gen # 0 => a[x.gen] = "open")
  /\ \A j \in t : JobFits(j, a, x)
  /\ \A i, j \in t : i.gen = j.gen => i = j

(* All of it: the types, the link, the client.                             *)
CarryInv ==
  /\ CarryTyped /\ EndsAreExpected
  /\ LinkInv(tocli, tosrv, owes, host, xfer, gaveUp)
  /\ DeskInv(asked, owes, xfer, task)

(* The premise.  An id that falls off the full list of those given up      *)
(* (MAX_ABANDONED) is over: the server is through with it, and whatever    *)
(* end it sent for it has been heard.                                      *)
Over(i) == i \notin Live(host) /\ ~Ended(tocli, i)
Remembers ==
  gaveUp' # gaveUp /\ Len(gaveUp') = Len(gaveUp) => Over(Head(gaveUp))

(* What the client has yet to hear, before it takes a frame or after.      *)
Unheard(tc) == \A i : Ended(tc, i) => Ended(tocli, i)

LEMMA StillUnheard ==
  ASSUME tocli \in Seq(FromServer)
  PROVE  Unheard(tocli) /\ (tocli # <<>> => Unheard(Tail(tocli)))
  BY TailTells DEF Unheard

LEMMA TailGivenUp ==
  ASSUME NEW g \in Seq(Nat), g # <<>>, NEW i, GivenUp(g, i)
  PROVE  i = Head(g) \/ GivenUp(Tail(g), i)
<1>1. PICK n \in Nat : /\ Len(g) = n + 1 /\ Len(Tail(g)) = n
                       /\ Head(g) = g[1]
                       /\ \A k \in 1..n : Tail(g)[k] = g[k + 1]
  <2>0. g \in Seq(Nat) /\ g # <<>>
    OBVIOUS
  <2>1. /\ Len(g) \in Nat \ {0} /\ Len(Tail(g)) = Len(g) - 1
        /\ Head(g) = g[1]
        /\ \A k \in 1..Len(Tail(g)) : Tail(g)[k] = g[k + 1]
    BY ONLY <2>0, TailIs
  <2>2. Len(g) - 1 \in Nat /\ Len(g) = (Len(g) - 1) + 1
    BY ONLY <2>1
  <2> QED BY ONLY <2>1, <2>2
<1>2. PICK k \in 1..(n + 1) : g[k] = i
  BY ONLY <1>1, GivenUp(g, i) DEF GivenUp
<1>3. k = 1 \/ (k - 1 \in 1..n /\ k - 1 + 1 = k)
  BY ONLY <1>1, <1>2
<1>4. CASE k - 1 \in 1..n /\ k - 1 + 1 = k
  <2>1. Tail(g)[k - 1] = i
    BY ONLY <1>1, <1>2, <1>4
  <2> QED BY ONLY <1>1, <1>4, <2>1 DEF GivenUp
<1> QED BY <1>1, <1>2, <1>3, <1>4

(* One id more is given up, the oldest may be dropped for it.              *)
LEMMA ForgetsPast ==
  ASSUME gaveUp \in Seq(Nat), NEW id \in Nat, NEW tc, NEW ts, NEW ow, NEW x,
         LinkInv(tc, ts, ow, host, x, Append(gaveUp, id)),
         Unheard(tc), Remembers,
         gaveUp' = Append(IF Len(gaveUp) >= MaxAbandoned THEN Tail(gaveUp)
                          ELSE gaveUp, id)
  PROVE  gaveUp' \in Seq(Nat) /\ LinkInv(tc, ts, ow, host, x, gaveUp')
<1>0. /\ gaveUp \in Seq(Nat) /\ id \in Nat /\ Len(gaveUp) \in Nat
      /\ MaxAbandoned \in Nat \ {0}
  BY CarryConstants
<1>1. CASE ~(Len(gaveUp) >= MaxAbandoned)
  <2>1. gaveUp' = Append(gaveUp, id)
    BY <1>1
  <2> QED BY <1>0, <2>1
<1>2. CASE Len(gaveUp) >= MaxAbandoned
  <2>1. gaveUp # <<>>
    BY <1>0, <1>2
  <2>2. gaveUp' = Append(Tail(gaveUp), id)
    BY <1>2
  <2>3. /\ Tail(gaveUp) \in Seq(Nat) /\ Len(Tail(gaveUp)) = Len(gaveUp) - 1
    BY ONLY <1>0, <2>1, TailIs
  <2>4. gaveUp' \in Seq(Nat) /\ Len(gaveUp') = Len(gaveUp)
    <3>1. gaveUp' \in Seq(Nat) /\ Len(gaveUp') = Len(Tail(gaveUp)) + 1
      BY ONLY <1>0, <2>2, <2>3, AppendIs
    <3> QED BY ONLY <1>0, <2>3, <3>1
  <2>5. \A i : /\ GivenUp(Append(gaveUp, id), i)
                    <=> GivenUp(gaveUp, i) \/ id = i
               /\ GivenUp(gaveUp', i) <=> GivenUp(Tail(gaveUp), i) \/ id = i
               /\ GivenUp(gaveUp, i)
                    => i = Head(gaveUp) \/ GivenUp(Tail(gaveUp), i)
    BY ONLY <1>0, <2>1, <2>2, <2>3, AddGivenUp, TailGivenUp
  <2>6. Expected(tc, host, x, Append(gaveUp, id))
    BY DEF LinkInv
  <2>7. Expected(tc, host, x, gaveUp')
    <3>1. CASE gaveUp' = gaveUp
      BY ONLY <2>5, <2>6, <3>1 DEF Expected
    <3>2. CASE gaveUp' # gaveUp
      <4>1. Over(Head(gaveUp))
        BY <2>4, <3>2 DEF Remembers
      <4>2. \A i : i \in Live(host) \/ Ended(tc, i) => i # Head(gaveUp)
        BY <4>1 DEF Over, Unheard
      <4> QED BY ONLY <2>5, <2>6, <4>2 DEF Expected
    <3> QED BY <3>1, <3>2
  <2> QED BY <2>4, <2>7 DEF LinkInv
<1> QED BY <1>1, <1>2

(* Without a transfer.                                                      *)
LEMMA IdleIs == /\ Idle.gen = 0 /\ Idle.way = "none" /\ Idle.stage = "none"
                /\ ~Idle.accepted /\ XShape(Idle)
  BY DEF Idle, XShape, Ways

(* Every debt is for a job asked for: less and more of it.                  *)
LEMMA OwedShift ==
  ASSUME NEW ow \in Seq(Debts), NEW a, OwedAsked(a, ow)
  PROVE  /\ ow # <<>> => OwedAsked(a, Tail(ow)) /\ Tail(ow) \in Seq(Debts)
         /\ \A d \in Debts : (d.gen # 0 => a[d.gen] # "idle")
              => OwedAsked(a, Append(ow, d)) /\ Append(ow, d) \in Seq(Debts)
<1>0. ow \in Seq(Debts)
  OBVIOUS
<1>l. Len(ow) \in Nat
  BY ONLY <1>0, LenIs
<1>1. ASSUME ow # <<>>
      PROVE  OwedAsked(a, Tail(ow)) /\ Tail(ow) \in Seq(Debts)
  <2>1. /\ Len(Tail(ow)) = Len(ow) - 1 /\ Tail(ow) \in Seq(Debts)
        /\ \A k \in 1..Len(Tail(ow)) : Tail(ow)[k] = ow[k + 1]
    BY ONLY <1>0, <1>1, TailIs
  <2>2. \A k \in 1..Len(Tail(ow)) : k + 1 \in 1..Len(ow)
    BY ONLY <1>l, <2>1
  <2> QED BY ONLY <2>1, <2>2, OwedAsked(a, ow) DEF OwedAsked
<1>2. ASSUME NEW d \in Debts, d.gen # 0 => a[d.gen] # "idle"
      PROVE  OwedAsked(a, Append(ow, d)) /\ Append(ow, d) \in Seq(Debts)
  <2>1. /\ Len(Append(ow, d)) = Len(ow) + 1 /\ Append(ow, d) \in Seq(Debts)
        /\ Append(ow, d)[Len(ow) + 1] = d
        /\ \A k \in 1..Len(ow) : Append(ow, d)[k] = ow[k]
    BY ONLY <1>0, d \in Debts, AppendIs
  <2>2. \A k \in 1..(Len(ow) + 1) : k = Len(ow) + 1 \/ k \in 1..Len(ow)
    BY ONLY <1>l
  <2> QED BY ONLY <1>2, <2>1, <2>2, OwedAsked(a, ow) DEF OwedAsked
<1> QED BY <1>1, <1>2

(* An outcome only makes more jobs asked for.                              *)
LEMMA StillAsked ==
  ASSUME NEW a \in [DOMAIN Jobs -> Outcomes], NEW c, NEW why,
         why # "idle", NEW ow, OwedAsked(a, ow)
  PROVE  OwedAsked([a EXCEPT ![c] = why], ow)
  BY DEF OwedAsked

(* send_abort: the server is told, and its end is expected.                *)
LEMMA Abandoned ==
  ASSUME CarryTyped, NEW id \in Nat, NEW ow \in Seq(Debts), NEW x \in Xfers,
         NEW tc \in Seq(FromServer), Unheard(tc), NEW a, OwedAsked(a, ow),
         Remembers,
         LinkInv(tc, tosrv, ow, host, x, Append(gaveUp, id)), Abandon(id, ow)
  PROVE  /\ LinkInv(tc, tosrv', owes', host, x, gaveUp')
         /\ gaveUp' \in Seq(Nat) /\ tosrv' \in Seq(FromClient)
         /\ owes' \in Seq(Debts) /\ OwedAsked(a, owes')
<1> DEFINE d == Barrier("plain", 0, 0)
           f == Message("End", id, 0, 0)
<1>1. d \in Debts /\ d.is = "plain" /\ d.gen = 0
  <2>1. 0 \in 0..Len(Jobs)
    BY JobNumbers
  <2> QED BY <2>1, BarrierTyped DEF Barrier
<1>2. f \in FromClient /\ f.type = "End" /\ PingFrame \in FromClient
  <2>1. 0 \in 0..MaxVersions
    BY JobNumbers
  <2> QED BY <2>1, FramesTyped DEF Message
<1>3. /\ gaveUp \in Seq(Nat) /\ tosrv \in Seq(FromClient) /\ host \in Hosts
      /\ Len(gaveUp) \in Nat
  BY DEF CarryTyped
<1>4. tosrv' = tosrv \o <<f, PingFrame>> /\ owes' = Append(ow, d)
  BY DEF Abandon
<1> HIDE DEF d, f
<1>5. /\ gaveUp' \in Seq(Nat)
      /\ LinkInv(tc, tosrv, ow, host, x, gaveUp')
  <2>1. gaveUp' = Append(IF Len(gaveUp) >= MaxAbandoned THEN Tail(gaveUp)
                         ELSE gaveUp, id)
    BY DEF Abandon
  <2> QED BY <1>3, <2>1, ForgetsPast
<1>6. LinkTyped(tc, tosrv, ow, host, x, gaveUp')
  BY <1>3, <1>5 DEF LinkTyped
<1>7. LinkInv(tc, tosrv', owes', host, x, gaveUp')
  <2>1. d.is # "start" /\ f.type \in {"Data", "End"}
        /\ (f.type = "Data" => f.id # 0)
    BY ONLY <1>1, <1>2
  <2> QED BY ONLY <1>1, <1>2, <1>4, <1>5, <1>6, <2>1, BarrierSent
<1>8. tosrv' \in Seq(FromClient)
  BY ONLY <1>2, <1>3, <1>4, PairIs, AppendIs
<1>9. owes' \in Seq(Debts) /\ OwedAsked(a, owes')
  BY ONLY <1>1, <1>4, ow \in Seq(Debts), OwedAsked(a, ow), OwedShift
<1> QED BY <1>5, <1>7, <1>8, <1>9

(* fail_transfer, with the transfer x and the debts ow.                    *)
LEMMA TransferFails ==
  ASSUME CarryTyped, NEW x \in Xfers, NEW why \in Outcomes \ {"idle"},
         NEW cleanup, NEW ow \in Seq(Debts), NEW tc \in Seq(FromServer),
         Unheard(tc),
         DeskInv(asked, owes, xfer, task), OwedAsked(asked, ow),
         x.stage = "running" /\ x.way # "upload"
           => x.way = "download" /\ x.accepted,
         LinkInv(tc, tosrv, ow, host, x, gaveUp), Remembers,
         FailTransfer(x, why, cleanup, ow)
  PROVE  /\ asked' = [asked EXCEPT ![x.gen] = why]
         /\ asked' \in [DOMAIN Jobs -> Outcomes] /\ xfer' = Idle
         /\ task' \subseteq PoolJobs /\ saving' = NoSidecar
         /\ owes' \in Seq(Debts) /\ gaveUp' \in Seq(Nat)
         /\ tosrv' \in Seq(FromClient) /\ disk' \in Disks
         /\ Opened(disk', task')
         /\ LinkInv(tc, tosrv', owes', host, xfer', gaveUp')
         /\ DeskInv(asked', owes', xfer', task')
<1>1. /\ asked \in [DOMAIN Jobs -> Outcomes] /\ task \subseteq PoolJobs
      /\ disk \in Disks /\ gaveUp \in Seq(Nat) /\ tosrv \in Seq(FromClient)
  BY DEF CarryTyped
<1>2. /\ asked' = [asked EXCEPT ![x.gen] = why] /\ xfer' = Idle
      /\ task' = {j \in task : j.kind # "prepare" /\ j.at \notin Spent}
      /\ saving' = NoSidecar
  BY DEF FailTransfer, StillAtWork
<1>3. asked' \in [DOMAIN Jobs -> Outcomes] /\ task' \subseteq PoolJobs
  BY ONLY <1>1, <1>2, why \in Outcomes \ {"idle"}
<1>4. disk' \in Disks /\ Opened(disk', task')
  <2>1. SidecarOf(x) \in Sidecars /\ NoSidecar \in Sidecars
    BY FileTyped
  <2>2. disk' \in {disk, [disk EXCEPT !.side = SidecarOf(x)],
                   [disk EXCEPT !.side = NoSidecar, !.data = 0]}
    BY DEF FailTransfer
  <2>3. disk' \in Disks /\ disk'.files = disk.files
    <3>1. CASE disk' = disk
      BY ONLY <1>1, <3>1
    <3>2. CASE disk' = [disk EXCEPT !.side = SidecarOf(x)]
      BY ONLY <1>1, <2>1, <3>2, DiskNotes
    <3>3. CASE disk' = [disk EXCEPT !.side = NoSidecar, !.data = 0]
      BY ONLY <1>1, <2>1, <3>3, DiskForgets
    <3> QED BY ONLY <2>2, <3>1, <3>2, <3>3
  <2>4. Opened(disk, task) /\ task' \subseteq task
    BY <1>2 DEF CarryTyped
  <2> QED BY ONLY <2>3, <2>4 DEF Opened
<1>5. OwedAsked(asked', ow)
  BY ONLY <1>1, <1>2, OwedAsked(asked, ow), why \in Outcomes \ {"idle"},
     StillAsked
<1>6. /\ owes' \in Seq(Debts) /\ gaveUp' \in Seq(Nat)
      /\ tosrv' \in Seq(FromClient) /\ OwedAsked(asked', owes')
      /\ LinkInv(tc, tosrv', owes', host, Idle, gaveUp')
  <2>1. CASE \/ x.way = "upload" /\ x.stage = "running"
             \/ x.way = "download" /\ x.accepted /\ x.stage # "verifying"
    <3>1. Abandon(x.id, ow)
      BY <2>1 DEF FailTransfer
    <3>2. x.id \in Nat
      BY DEF Xfers
    <3>3. \A i : GivenUp(Append(gaveUp, x.id), i)
                   <=> GivenUp(gaveUp, i) \/ x.id = i
      BY ONLY <1>1, <3>2, AddGivenUp
    <3>4. LinkInv(tc, tosrv, ow, host, Idle, Append(gaveUp, x.id))
      <4>1. LinkInv(tc, tosrv, ow, host, x, gaveUp)
        OBVIOUS
      <4> QED BY ONLY <3>3, <4>1, IdleIs, ClaimsChange
    <3> QED BY <1>5, <3>1, <3>2, <3>4, Abandoned, IdleTyped
  <2>2. CASE ~(\/ x.way = "upload" /\ x.stage = "running"
               \/ x.way = "download" /\ x.accepted /\ x.stage # "verifying")
    <3>1. owes' = ow /\ gaveUp' = gaveUp /\ tosrv' = tosrv
      BY <2>2 DEF FailTransfer
    <3>2. x.stage # "running"
      BY <2>2
    <3>3. LinkInv(tc, tosrv, ow, host, Idle, gaveUp)
      <4>1. LinkInv(tc, tosrv, ow, host, x, gaveUp)
        OBVIOUS
      <4> QED BY ONLY <3>2, <4>1, IdleIs, ClaimsChange
    <3> QED BY <1>1, <1>5, <3>1, <3>3
  <2> QED BY <2>1, <2>2
<1>7. \A j \in task' : JobFits(j, asked', Idle)
  <2>1. \A j \in task : /\ j.gen # 0 /\ asked[j.gen] # "idle"
                        /\ j.kind # "prepare" => j.ver # 0
    <3>1. \A j \in task : j.gen \in 1..Len(Jobs)
      BY <1>1, JobNumbers DEF PoolJobs
    <3> QED BY <3>1, JobNumbers DEF DeskInv, JobFits
  <2>2. \A j \in task' : j \in task /\ j.kind # "prepare"
    BY <1>2
  <2>3. \A c : asked[c] # "idle" => asked'[c] # "idle"
    BY <1>1, <1>2
  <2> QED BY ONLY <2>1, <2>2, <2>3, IdleIs DEF JobFits
<1>8. DeskInv(asked', owes', Idle, task')
  <2>1. \A i, j \in task' : i.gen = j.gen => i = j
    BY <1>2 DEF DeskInv
  <2> QED BY ONLY <1>6, <1>7, <2>1, IdleIs DEF DeskInv
<1> QED BY <1>2, <1>3, <1>4, <1>6, <1>8

(* A job asked for, that was not before, disturbs nothing.                  *)
LEMMA MoreAsked ==
  ASSUME NEW a \in [DOMAIN Jobs -> Outcomes], NEW c, a[c] = "idle",
         NEW why, why # "idle", NEW ow, NEW x, NEW t, NEW d,
         DeskInv(a, ow, x, t)
  PROVE  /\ DeskInv([a EXCEPT ![c] = why], ow, x, t)
         /\ x.gen # 0 => x.gen # c
<1> DEFINE b == [a EXCEPT ![c] = why]
<1>1. /\ \A k : a[k] # "idle" => b[k] # "idle"
      /\ \A k : k # c => b[k] = a[k]
  OBVIOUS
<1> HIDE DEF b
<1>2. x.gen # 0 => x.gen # c
  BY DEF DeskInv
<1>3. DeskInv(b, ow, x, t)
  BY <1>1, <1>2 DEF DeskInv, OwedAsked, JobFits
<1> QED BY <1>2, <1>3 DEF b

(* What the invariant says, in the form the steps use it.                   *)
LEMMA CarryFacts ==
  ASSUME CarryInv
  PROVE  /\ asked \in [DOMAIN Jobs -> Outcomes] /\ xfer \in Xfers
         /\ task \subseteq PoolJobs /\ saving \in Sidecars
         /\ owes \in Seq(Debts) /\ gaveUp \in Seq(Nat)
         /\ tosrv \in Seq(FromClient) /\ tocli \in Seq(FromServer)
         /\ host \in Hosts /\ shelf \in 1..MaxVersions /\ disk \in Disks
         /\ Opened(disk, task) /\ upsets \in Nat /\ EndsAreExpected
         /\ LinkTyped(tocli, tosrv, owes, host, xfer, gaveUp)
         /\ LinkInv(tocli, tosrv, owes, host, xfer, gaveUp)
         /\ DeskInv(asked, owes, xfer, task)
         /\ OwedAsked(asked, owes) /\ XShape(xfer)
         /\ xfer.gen # 0 =>
              asked[xfer.gen] = "open" /\ xfer.gen \in DOMAIN Jobs
  BY JobNumbers DEF CarryInv, CarryTyped, LinkTyped, DeskInv, Xfers

(* How an outcome other than "confused" leaves the requests.               *)
LEMMA StillExpected ==
  ASSUME EndsAreExpected, asked \in [DOMAIN Jobs -> Outcomes], NEW c,
         NEW why, why # "confused", asked' = [asked EXCEPT ![c] = why]
  PROVE  EndsAreExpected'
  BY DEF EndsAreExpected

(* A transfer that fails outside of the handling of a frame.                *)
LEMMA FailsKeeps ==
  ASSUME CarryInv, Remembers, NEW why \in Outcomes \ {"idle", "confused"},
         NEW cleanup, Fails(xfer, why, cleanup, owes), UNCHANGED tocli,
         upsets' \in Nat
  PROVE  CarryInv'
<1>1. /\ asked \in [DOMAIN Jobs -> Outcomes] /\ xfer \in Xfers
      /\ owes \in Seq(Debts) /\ tocli \in Seq(FromServer)
      /\ host \in Hosts /\ shelf \in 1..MaxVersions /\ EndsAreExpected
      /\ LinkInv(tocli, tosrv, owes, host, xfer, gaveUp)
      /\ DeskInv(asked, owes, xfer, task)
      /\ OwedAsked(asked, owes) /\ XShape(xfer) /\ CarryTyped
  BY CarryFacts DEF CarryInv
<1>2. FailTransfer(xfer, why, cleanup, owes) /\ UNCHANGED <<host, shelf>>
  BY DEF Fails
<1>3. xfer.stage = "running" /\ xfer.way # "upload"
        => xfer.way = "download" /\ xfer.accepted
  BY <1>1, IdleIs DEF XShape, Ways
<1>4. /\ asked' = [asked EXCEPT ![xfer.gen] = why]
      /\ asked' \in [DOMAIN Jobs -> Outcomes] /\ xfer' = Idle
      /\ task' \subseteq PoolJobs /\ saving' = NoSidecar
      /\ owes' \in Seq(Debts) /\ gaveUp' \in Seq(Nat)
      /\ tosrv' \in Seq(FromClient) /\ disk' \in Disks
      /\ Opened(disk', task')
      /\ LinkInv(tocli, tosrv', owes', host, xfer', gaveUp')
      /\ DeskInv(asked', owes', xfer', task')
  BY <1>1, <1>2, <1>3, StillUnheard, TransferFails
<1>5. EndsAreExpected'
  BY <1>1, <1>4, StillExpected
<1>6. CarryTyped'
  BY <1>1, <1>2, <1>4, IdleTyped, FileTyped DEF CarryTyped
<1> QED BY <1>1, <1>2, <1>4, <1>5, <1>6 DEF CarryInv

(* The steps of the client that hear nothing.                               *)
LEMMA BusyKeeps ==
  ASSUME CarryInv, NEW c \in DOMAIN Jobs, Busy(c)
  PROVE  CarryInv'
<1>1. /\ asked[c] = "idle" /\ asked' = [asked EXCEPT ![c] = "busy"]
      /\ UNCHANGED <<xfer, task, saving, owes, gaveUp, tosrv, tocli, host,
                     shelf, disk, upsets>>
  BY DEF Busy, Asks
<1>2. asked' \in [DOMAIN Jobs -> Outcomes]
  BY <1>1, CarryFacts DEF Outcomes
<1>3. DeskInv(asked', owes, xfer, task)
  BY <1>1, CarryFacts, MoreAsked
<1>4. EndsAreExpected'
  BY <1>1, CarryFacts, StillExpected
<1>5. CarryTyped'
  BY <1>1, <1>2 DEF CarryInv, CarryTyped
<1> QED BY <1>1, <1>3, <1>4, <1>5 DEF CarryInv

LEMMA StartUploadKeeps ==
  ASSUME CarryInv, NEW c \in DOMAIN Jobs, StartUpload(c)
  PROVE  CarryInv'
<1> DEFINE y == [Idle EXCEPT !.gen = c, !.way = "upload",
                   !.stage = "preparing"]
           j == Job("prepare", c, 0, FALSE)
<1>1. /\ asked[c] = "idle" /\ asked' = [asked EXCEPT ![c] = "open"]
      /\ xfer = Idle /\ xfer' = y /\ task' = task \cup {j}
      /\ UNCHANGED <<saving, owes, gaveUp, tosrv, tocli, host, shelf, disk,
                     upsets>>
  BY DEF StartUpload, Asks
<1>2. asked' \in [DOMAIN Jobs -> Outcomes] /\ c \in 1..Len(Jobs)
  BY <1>1, CarryFacts, JobNumbers DEF Outcomes
<1>3. /\ y \in Xfers /\ y.gen = c /\ y.way = "upload"
      /\ y.stage = "preparing" /\ ~y.accepted
  <2>1. c \in 0..Len(Jobs) /\ Idle \in Xfers /\ ~Idle.accepted
    BY <1>2, JobNumbers, IdleTyped, IdleIs
  <2> QED BY ONLY <2>1 DEF Xfers, Ways
<1>4. /\ j \in PoolJobs /\ j.gen = c /\ j.kind = "prepare" /\ c # 0
      /\ j.at = "queued" /\ j.src = 0 /\ j.out = 0
  BY <1>2, JobNumbers DEF PoolJobs, Job, Stations
<1> HIDE DEF y, j
<1>5. DeskInv(asked', owes, Idle, task) /\ asked'[c] = "open"
  BY <1>1, CarryFacts, MoreAsked
<1>6. \A k \in 1..Len(owes) : owes[k].gen # c
  BY <1>1, <1>4, CarryFacts DEF OwedAsked
<1>7. \A i \in task : i.gen # c
  BY <1>1, CarryFacts DEF DeskInv, JobFits
<1>8. DeskInv(asked', owes, y, task')
  <2>1. OwedAsked(asked', owes) /\ XShape(y)
    BY <1>3, <1>4, <1>5 DEF DeskInv, XShape, Ways
  <2>2. \A i \in task : JobFits(i, asked', y)
    <3>1. \A i \in task : i.gen # 0 /\ JobFits(i, asked', Idle)
      <4>1. \A i \in task : i.gen \in 1..Len(Jobs)
        BY CarryFacts, JobNumbers DEF PoolJobs
      <4> QED BY <1>5, <4>1, JobNumbers DEF DeskInv
    <3> QED BY ONLY <1>3, <1>7, <3>1, IdleIs DEF JobFits
  <2>3. JobFits(j, asked', y)
    BY <1>3, <1>4, <1>5 DEF JobFits
  <2>4. \A i, k \in task' : i.gen = k.gen => i = k
    BY <1>1, <1>4, <1>5, <1>7 DEF DeskInv
  <2> QED BY <1>1, <1>3, <1>5, <2>1, <2>2, <2>3, <2>4 DEF DeskInv
<1>9. LinkInv(tocli, tosrv, owes, host, y, gaveUp)
  <2>1. LinkInv(tocli, tosrv, owes, host, Idle, gaveUp)
    BY <1>1, CarryFacts
  <2>2. "upload" \in Ways
    BY DEF Ways
  <2> QED BY ONLY <1>2, <1>3, <1>6, <2>1, <2>2, IdleIs, JobBegins
<1>10. EndsAreExpected'
  BY <1>1, CarryFacts, StillExpected
<1>11. CarryTyped'
  <2>1. disk \in Disks /\ Opened(disk, task)
    BY CarryFacts
  <2>2. Len(disk.files) \in Nat
    BY ONLY <2>1, DiskIs
  <2>3. Opened(disk, task \cup {j})
    BY ONLY <1>4, <2>1, <2>2 DEF Opened, Held, AtWork
  <2> QED BY <1>1, <1>2, <1>3, <1>4, <2>3 DEF CarryInv, CarryTyped
<1> QED BY <1>1, <1>8, <1>9, <1>10, <1>11 DEF CarryInv

LEMMA StartDownloadKeeps ==
  ASSUME CarryInv, NEW c \in DOMAIN Jobs, StartDownload(c)
  PROVE  CarryInv'
<1> DEFINE sc == IF disk.data = 0 THEN NoSidecar ELSE disk.side
           y == [Idle EXCEPT !.gen = c, !.way = "download",
                   !.stage = "awaiting", !.resume = sc]
           f == StartFrame("download", sc.have)
           d == Barrier("start", c, 0)
<1>1. /\ asked[c] = "idle" /\ asked' = [asked EXCEPT ![c] = "open"]
      /\ xfer = Idle /\ xfer' = y /\ tosrv' = Append(tosrv, f)
      /\ owes' = Append(owes, d)
      /\ UNCHANGED <<task, saving, gaveUp, tocli, host, shelf, disk, upsets>>
  BY DEF StartDownload, Asks
<1>2. asked' \in [DOMAIN Jobs -> Outcomes] /\ c \in 1..Len(Jobs) /\ c # 0
  BY <1>1, CarryFacts, JobNumbers DEF Outcomes
<1>s. sc \in Sidecars /\ sc.have \in SUBSET Pieces
  BY CarryFacts, FileTyped, DiskIs DEF Sidecars
<1>3. /\ y \in Xfers /\ y.gen = c /\ y.way = "download"
      /\ y.stage = "awaiting" /\ ~y.accepted
  <2>1. c \in 0..Len(Jobs) /\ Idle \in Xfers /\ ~Idle.accepted
    BY <1>2, JobNumbers, IdleTyped, IdleIs
  <2> HIDE DEF sc
  <2> QED BY ONLY <1>s, <2>1 DEF Xfers, Ways
<1>4. d \in Debts /\ d.is = "start" /\ d.gen = c
  BY <1>2, BarrierTyped DEF Barrier
<1>5. f \in FromClient /\ f.type = "Start" /\ f.way = "download"
  BY <1>s, FramesTyped DEF StartFrame, Ways
<1> HIDE DEF sc, y, f, d
<1>6. DeskInv(asked', owes, Idle, task) /\ asked'[c] = "open"
  BY <1>1, CarryFacts, MoreAsked
<1>7. \A k \in 1..Len(owes) : owes[k].gen # c
  BY <1>1, <1>2, CarryFacts DEF OwedAsked
<1>8. \A i \in task : i.gen # c
  BY <1>1, CarryFacts DEF DeskInv, JobFits
<1>9. /\ owes \in Seq(Debts) /\ tosrv \in Seq(FromClient)
      /\ LinkTyped(tocli, tosrv, owes, host, y, gaveUp)
  BY <1>3, CarryFacts DEF LinkTyped
<1>10. /\ owes' \in Seq(Debts) /\ OwedAsked(asked', owes')
       /\ tosrv' \in Seq(FromClient)
  <2>1. OwedAsked(asked', owes)
    BY <1>6 DEF DeskInv
  <2> QED BY ONLY <1>1, <1>4, <1>5, <1>6, <1>9, <2>1, OwedShift, AppendIs
<1>11. DeskInv(asked', owes', y, task)
  <2>1. XShape(y)
    BY <1>2, <1>3 DEF XShape, Ways
  <2>2. \A i \in task : JobFits(i, asked', y)
    <3>1. \A i \in task : i.gen # 0 /\ JobFits(i, asked', Idle)
      <4>1. \A i \in task : i.gen \in 1..Len(Jobs)
        BY CarryFacts, JobNumbers DEF PoolJobs
      <4> QED BY <1>6, <4>1, JobNumbers DEF DeskInv
    <3> QED BY ONLY <1>3, <1>8, <3>1, IdleIs DEF JobFits
  <2> QED BY ONLY <1>3, <1>6, <1>10, <2>1, <2>2 DEF DeskInv
<1>12. LinkInv(tocli, tosrv', owes', host, y, gaveUp)
  <2>1. LinkInv(tocli, tosrv, owes, host, Idle, gaveUp)
    BY <1>1, CarryFacts
  <2>2. "download" \in Ways
    BY DEF Ways
  <2>3. LinkInv(tocli, tosrv, owes, host, y, gaveUp)
    BY ONLY <1>2, <1>3, <1>7, <2>1, <2>2, IdleIs, JobBegins
  <2> QED BY ONLY <1>1, <1>2, <1>3, <1>4, <1>5, <1>9, <2>3, AskedFor
<1>13. EndsAreExpected'
  BY <1>1, CarryFacts, StillExpected
<1>14. CarryTyped'
  BY <1>1, <1>2, <1>3, <1>10 DEF CarryInv, CarryTyped
<1> QED BY <1>1, <1>11, <1>12, <1>13, <1>14 DEF CarryInv

LEMMA CancelKeeps ==
  ASSUME CarryInv, Remembers, Cancel \/ AcceptDeadline
  PROVE  CarryInv'
<1>1. PICK why \in {"cancelled", "timeout"} :
        /\ Fails(xfer, why, "keep", owes) /\ UNCHANGED tocli
        /\ upsets' = upsets + 1
  BY DEF Cancel, AcceptDeadline, Upset
<1>2. upsets' \in Nat /\ why \in Outcomes \ {"idle", "confused"}
  BY <1>1, CarryFacts DEF Outcomes
<1> QED BY <1>1, <1>2, FailsKeeps

LEMMA PreparedKeeps ==
  ASSUME CarryInv, Remembers, Prepared
  PROVE  CarryInv'
<1>1. PICK j \in task :
        /\ j.kind = "prepare" /\ UNCHANGED upsets
        /\ \/ /\ task' = task \ {j}
              /\ xfer' = [xfer EXCEPT !.stage = "awaiting"]
              /\ tosrv' = Append(tosrv, StartFrame("upload", {}))
              /\ owes' = Append(owes, Barrier("start", j.gen, 0))
              /\ UNCHANGED <<asked, saving, gaveUp, tocli, host, shelf, disk>>
           \/ Fails(xfer, "failed", "keep", owes) /\ UNCHANGED tocli
  BY DEF Prepared, Calm
<1>2. CASE Fails(xfer, "failed", "keep", owes) /\ UNCHANGED tocli
  <2>1. upsets' \in Nat /\ "failed" \in Outcomes \ {"idle", "confused"}
    BY <1>1, CarryFacts DEF Outcomes
  <2> QED BY <1>2, <2>1, FailsKeeps
<1>3. CASE /\ task' = task \ {j}
           /\ xfer' = [xfer EXCEPT !.stage = "awaiting"]
           /\ tosrv' = Append(tosrv, StartFrame("upload", {}))
           /\ owes' = Append(owes, Barrier("start", j.gen, 0))
           /\ UNCHANGED <<asked, saving, gaveUp, tocli, host, shelf, disk>>
  <2> DEFINE y == [xfer EXCEPT !.stage = "awaiting"]
             f == StartFrame("upload", {})
             d == Barrier("start", j.gen, 0)
  <2>1. /\ xfer.gen = j.gen /\ xfer.stage = "preparing"
        /\ xfer.way = "upload" /\ asked[j.gen] # "idle"
    BY <1>1, CarryFacts DEF DeskInv, JobFits
  <2>2. j.gen \in 0..Len(Jobs) /\ j.gen # 0 /\ j.gen \in DOMAIN Jobs
    BY <1>1, CarryFacts, JobNumbers DEF PoolJobs
  <2>3. /\ y \in Xfers /\ y.gen = xfer.gen /\ y.way = "upload"
        /\ y.stage = "awaiting" /\ y.accepted = xfer.accepted
        /\ y.ver = xfer.ver
    <3>1. xfer \in Xfers
      BY CarryFacts
    <3> QED BY ONLY <2>1, <3>1 DEF Xfers
  <2>4. d \in Debts /\ d.is = "start" /\ d.gen = y.gen
    BY <2>1, <2>2, <2>3, BarrierTyped DEF Barrier
  <2>5. f \in FromClient /\ f.type = "Start" /\ f.way = "upload"
    BY FramesTyped DEF StartFrame, Ways
  <2>c. /\ xfer' = y /\ tosrv' = Append(tosrv, f) /\ owes' = Append(owes, d)
        /\ task' = task \ {j}
        /\ UNCHANGED <<asked, saving, gaveUp, tocli, host, shelf, disk>>
    BY <1>3
  <2> HIDE DEF y, f, d
  <2>6. LinkTyped(tocli, tosrv, owes, host, y, gaveUp)
    BY <2>3, CarryFacts DEF LinkTyped
  <2>7. LinkInv(tocli, tosrv, owes, host, y, gaveUp)
    <3>1. LinkInv(tocli, tosrv, owes, host, xfer, gaveUp)
      BY CarryFacts
    <3> QED BY ONLY <2>1, <2>3, <3>1, ClaimsChange
  <2>8. LinkInv(tocli, tosrv', owes', host, y, gaveUp)
    BY ONLY <2>1, <2>2, <2>3, <2>4, <2>5, <2>6, <2>7, <2>c, AskedFor
  <2>9. /\ owes' \in Seq(Debts) /\ OwedAsked(asked, owes')
        /\ tosrv' \in Seq(FromClient)
    <3>1. /\ owes \in Seq(Debts) /\ OwedAsked(asked, owes)
          /\ tosrv \in Seq(FromClient)
      BY CarryFacts
    <3> QED BY ONLY <2>1, <2>3, <2>4, <2>5, <2>c, <3>1, OwedShift, AppendIs
  <2>10. \A i \in task \ {j} : i.gen # xfer.gen
    BY <1>1, <2>1, CarryFacts DEF DeskInv
  <2>11. DeskInv(asked', owes', y, task')
    <3>1. XShape(y)
      <4>1. XShape(xfer)
        BY CarryFacts
      <4> QED BY ONLY <2>1, <2>2, <2>3, <4>1 DEF XShape, Ways
    <3>2. \A i \in task' : JobFits(i, asked, y)
      BY <2>3, <2>10, <2>c, CarryFacts DEF DeskInv, JobFits
    <3> QED BY <2>3, <2>9, <2>c, <3>1, <3>2, CarryFacts DEF DeskInv
  <2>12. CarryTyped'
    <3>1. Opened(disk, task \ {j})
      BY CarryFacts DEF Opened
    <3> QED BY <1>1, <2>3, <2>9, <2>c, <3>1 DEF CarryInv, CarryTyped
  <2>13. EndsAreExpected'
    BY <2>c, CarryFacts DEF EndsAreExpected
  <2> QED BY <2>8, <2>11, <2>12, <2>13, <2>c DEF CarryInv
<1> QED BY <1>1, <1>2, <1>3

(* A download's job that fails.                                             *)
LEMMA VerifyFailsKeeps ==
  ASSUME CarryInv, Remembers, NEW j, VerifyFails(j), UNCHANGED tocli,
         UNCHANGED upsets
  PROVE  CarryInv'
<1>1. \E cl \in {"keep", "discard"} : Fails(xfer, "failed", cl, owes)
  BY DEF VerifyFails
<1>2. upsets' \in Nat /\ "failed" \in Outcomes \ {"idle", "confused"}
  BY CarryFacts DEF Outcomes
<1> QED BY <1>1, <1>2, FailsKeeps

LEMMA VerifiedKeeps ==
  ASSUME CarryInv, Remembers, Verified
  PROVE  CarryInv'
<1>1. PICK j \in task :
        /\ Done(j, "verify") /\ UNCHANGED upsets
        /\ \/ /\ task' = (task \ {j})
                           \cup {Job("publish", j.gen, j.ver, j.alone)}
              /\ saving' = NoSidecar
              /\ disk' = [disk EXCEPT !.side = IF saving = NoSidecar THEN @
                                               ELSE saving]
              /\ UNCHANGED <<asked, xfer, owes, gaveUp, tosrv, tocli, host,
                             shelf>>
           \/ VerifyFails(j) /\ UNCHANGED tocli
  BY DEF Verified, Calm
<1>2. CASE VerifyFails(j) /\ UNCHANGED tocli
  BY <1>1, <1>2, VerifyFailsKeeps
<1> DEFINE p == Job("publish", j.gen, j.ver, j.alone)
<1>3. CASE /\ task' = (task \ {j}) \cup {p}
           /\ saving' = NoSidecar
           /\ disk' = [disk EXCEPT !.side = IF saving = NoSidecar THEN @
                                            ELSE saving]
           /\ UNCHANGED <<asked, xfer, owes, gaveUp, tosrv, tocli, host,
                          shelf>>
  <2>1. /\ xfer.gen = j.gen /\ xfer.stage = "verifying"
        /\ asked[j.gen] # "idle" /\ j.ver # 0
    BY <1>1, CarryFacts DEF DeskInv, JobFits, Done, Current
  <2>2. /\ p \in PoolJobs /\ p.kind = "publish" /\ p.gen = j.gen
        /\ p.ver = j.ver /\ p.src = 0 /\ p.out = 0 /\ p.at = "queued"
    BY <1>1, CarryFacts DEF PoolJobs, Job, Stations
  <2> HIDE DEF p
  <2>3. disk' \in Disks /\ disk'.files = disk.files
    <3>1. disk \in Disks /\ saving \in Sidecars
      BY CarryFacts
    <3>2. disk.side \in Sidecars
      BY ONLY <3>1, DiskIs
    <3>3. PICK s \in Sidecars :
            s = IF saving = NoSidecar THEN disk.side ELSE saving
      BY ONLY <3>1, <3>2
    <3>4. disk' = [disk EXCEPT !.side = s]
      BY ONLY <1>3, <3>3
    <3> QED BY ONLY <3>1, <3>4, DiskNotes
  <2>4. \A i \in task' : JobFits(i, asked, xfer)
    <3>1. \A i \in task : JobFits(i, asked, xfer)
      BY CarryFacts DEF DeskInv
    <3>2. JobFits(p, asked, xfer)
      BY <2>1, <2>2 DEF JobFits
    <3> QED BY <1>3, <3>1, <3>2
  <2>5. \A i, k \in task' : i.gen = k.gen => i = k
    BY <1>1, <1>3, <2>2, CarryFacts DEF DeskInv
  <2>6. DeskInv(asked', owes', xfer', task')
    BY <1>3, <2>4, <2>5, CarryFacts DEF DeskInv
  <2>7. CarryTyped'
    <3>1. disk \in Disks /\ Opened(disk, task)
      BY CarryFacts
    <3>2. Len(disk.files) \in Nat
      BY ONLY <3>1, DiskIs
    <3>3. Opened(disk', task')
      BY ONLY <1>3, <2>2, <2>3, <3>1, <3>2 DEF Opened, Held, AtWork
    <3> QED BY <1>1, <1>3, <2>2, <2>3, <3>3, FileTyped
            DEF CarryInv, CarryTyped
  <2>8. EndsAreExpected'
    BY <1>3, CarryFacts DEF EndsAreExpected
  <2> QED BY <1>3, <2>6, <2>7, <2>8, CarryFacts DEF CarryInv
<1> QED BY <1>1, <1>2, <1>3

(* A published download is over, with nothing of it left on the server.    *)
LEMMA PublishedKeeps ==
  ASSUME CarryInv, Remembers, Published
  PROVE  CarryInv'
<1>1. PICK j \in task :
        /\ Done(j, "publish") /\ UNCHANGED upsets
        /\ \/ /\ task' = task \ {j}
              /\ asked' = [asked EXCEPT ![j.gen] = "ok"] /\ xfer' = Idle
              /\ disk' = [disk EXCEPT !.side = NoSidecar]
              /\ UNCHANGED <<saving, owes, gaveUp, tosrv, tocli, host, shelf>>
           \/ VerifyFails(j) /\ UNCHANGED tocli
  BY DEF Published, Calm
<1>2. CASE VerifyFails(j) /\ UNCHANGED tocli
  BY <1>1, <1>2, VerifyFailsKeeps
<1>3. CASE /\ task' = task \ {j}
           /\ asked' = [asked EXCEPT ![j.gen] = "ok"] /\ xfer' = Idle
           /\ disk' = [disk EXCEPT !.side = NoSidecar]
           /\ UNCHANGED <<saving, owes, gaveUp, tosrv, tocli, host, shelf>>
  <2>1. xfer.gen = j.gen /\ xfer.stage = "verifying"
    BY <1>1, CarryFacts DEF DeskInv, JobFits, Done, Current
  <2>2. asked' \in [DOMAIN Jobs -> Outcomes]
    BY <1>3, CarryFacts DEF Outcomes
  <2>3. LinkInv(tocli, tosrv, owes, host, Idle, gaveUp)
    <3>1. LinkInv(tocli, tosrv, owes, host, xfer, gaveUp)
      BY CarryFacts
    <3> QED BY ONLY <2>1, <3>1, IdleIs, ClaimsChange
  <2>4. \A i \in task' : i.gen # xfer.gen /\ i \in task
    BY <1>1, <1>3, <2>1, CarryFacts DEF DeskInv
  <2>5. \A i \in task' : i.gen # 0
    BY <2>4, CarryFacts, JobNumbers DEF PoolJobs
  <2>6. DeskInv(asked', owes, Idle, task')
    <3>1. OwedAsked(asked', owes)
      BY <1>3, CarryFacts, StillAsked
    <3>2. \A c : asked[c] # "idle" => asked'[c] # "idle"
      BY <1>3, CarryFacts
    <3>3. \A i \in task : JobFits(i, asked, xfer)
      BY CarryFacts DEF DeskInv
    <3>4. \A i \in task' : JobFits(i, asked', Idle)
      BY ONLY <2>4, <2>5, <3>2, <3>3, IdleIs DEF JobFits
    <3>5. \A i, k \in task' : i.gen = k.gen => i = k
      BY <2>4, CarryFacts DEF DeskInv
    <3> QED BY ONLY <3>1, <3>4, <3>5, IdleIs DEF DeskInv
  <2>7. EndsAreExpected'
    BY <1>3, CarryFacts, StillExpected
  <2>8. disk' \in Disks /\ Opened(disk', task')
    <3>1. disk \in Disks /\ Opened(disk, task) /\ NoSidecar \in Sidecars
      BY CarryFacts, FileTyped
    <3>2. disk' \in Disks /\ disk'.files = disk.files
      BY ONLY <1>3, <3>1, DiskForgets, DiskNotes
    <3> QED BY ONLY <2>4, <3>1, <3>2 DEF Opened
  <2>9. CarryTyped'
    BY <1>1, <1>3, <2>2, <2>8, IdleTyped DEF CarryInv, CarryTyped
  <2> QED BY <1>3, <2>3, <2>6, <2>7, <2>9 DEF CarryInv
<1> QED BY <1>1, <1>2, <1>3

LEMMA SidecarLandsKeeps ==
  ASSUME CarryInv, SidecarLands
  PROVE  CarryInv'
<1>1. /\ disk' = [disk EXCEPT !.side = saving] /\ saving' = NoSidecar
      /\ UNCHANGED <<asked, xfer, task, owes, gaveUp, tosrv, tocli, host,
                     shelf, upsets>>
  BY DEF SidecarLands, Calm
<1>2. disk' \in Disks /\ Opened(disk', task)
  <2>1. disk \in Disks /\ saving \in Sidecars /\ Opened(disk, task)
    BY CarryFacts
  <2>2. disk' \in Disks /\ disk'.files = disk.files
    BY ONLY <1>1, <2>1, DiskNotes
  <2> QED BY ONLY <2>1, <2>2 DEF Opened
<1>3. CarryTyped'
  BY <1>1, <1>2, FileTyped DEF CarryInv, CarryTyped
<1>4. EndsAreExpected'
  BY <1>1, CarryFacts DEF EndsAreExpected
<1> QED BY <1>1, <1>3, <1>4, CarryFacts DEF CarryInv

(* A job that goes on stays the job it is, or is forgotten.                 *)
LEMMA JobMoves ==
  ASSUME CarryInv, NEW j \in task, NEW k \in PoolJobs, k.kind = j.kind,
         k.gen = j.gen, k.ver = j.ver, j.kind # "prepare",
         NEW d \in Disks, Len(disk.files) <= Len(d.files), Opened(d, {k}),
         JobGoes(j, k, d)
  PROVE  CarryInv'
<1>1. /\ disk' = d /\ task' \subseteq (task \ {j}) \cup {k}
      /\ UNCHANGED <<asked, xfer, saving, owes, gaveUp, tosrv, tocli, host,
                     shelf, upsets>>
  BY DEF JobGoes, Calm
<1>2. /\ \A i \in task : JobFits(i, asked, xfer)
      /\ \A i, l \in task : i.gen = l.gen => i = l
  BY CarryFacts DEF DeskInv
<1>3. JobFits(k, asked, xfer)
  <2>1. JobFits(j, asked, xfer)
    BY <1>2
  <2> QED BY ONLY <2>1, k.kind = j.kind, k.gen = j.gen, k.ver = j.ver,
             j.kind # "prepare" DEF JobFits
<1>4. \A i, l \in task' : i.gen = l.gen => i = l
  BY <1>1, <1>2
<1>5. DeskInv(asked, owes, xfer, task')
  BY <1>1, <1>2, <1>3, <1>4, CarryFacts DEF DeskInv
<1>6. Opened(d, task')
  <2>1. Opened(d, task)
    BY CarryFacts, FilesGrow
  <2> QED BY <1>1, <2>1 DEF Opened
<1>7. CarryTyped'
  BY <1>1, <1>6 DEF CarryInv, CarryTyped
<1>8. EndsAreExpected'
  BY <1>1, CarryFacts DEF EndsAreExpected
<1> QED BY <1>1, <1>5, <1>7, <1>8, CarryFacts DEF CarryInv

(* What a job at work is, and the disk it works on.                         *)
LEMMA JobFacts ==
  ASSUME CarryInv, NEW j \in task
  PROVE  /\ j \in PoolJobs /\ j.gen \in 1..Len(Jobs)
         /\ disk \in Disks /\ disk.files \in Seq(Contents)
         /\ disk.data \in 0..Len(disk.files)
         /\ disk.dest \in 0..Len(disk.files) /\ Len(disk.files) \in Nat
         /\ j.src \in 0..Len(disk.files) /\ j.out \in 0..Len(disk.files)
         /\ j.at # "queued" => j.kind # "prepare"
         /\ j.at \in AtWork => j.src \in 1..Len(disk.files)
         /\ j.kind # "prepare" => /\ j.ver \in 1..MaxVersions
                                  /\ Size[j.ver] \in 0..NumChunks
<1>1. j \in PoolJobs /\ j.gen \in 1..Len(Jobs) /\ JobFits(j, asked, xfer)
  BY CarryFacts, JobNumbers DEF PoolJobs, DeskInv
<1>2. /\ disk \in Disks /\ disk.files \in Seq(Contents)
      /\ disk.data \in 0..Len(disk.files)
      /\ disk.dest \in 0..Len(disk.files) /\ Len(disk.files) \in Nat
  <2>1. disk \in Disks
    BY CarryFacts
  <2>2. /\ disk.files \in Seq(Contents) /\ Len(disk.files) \in Nat
        /\ disk.data \in Nat /\ disk.data <= Len(disk.files)
        /\ disk.dest \in Nat /\ disk.dest <= Len(disk.files)
    BY ONLY <2>1, DiskIs
  <2> QED BY ONLY <2>1, <2>2
<1>3. /\ j.src \in 0..Len(disk.files) /\ j.out \in 0..Len(disk.files)
      /\ j.at \in AtWork => j.src # 0
  BY CarryFacts DEF Opened, Held
<1>4. j.at # "queued" => j.kind # "prepare"
  BY <1>1 DEF JobFits
<1>5. j.kind # "prepare" => j.ver # 0
  BY <1>1 DEF JobFits
<1>6. j.ver \in 0..MaxVersions
  BY <1>1 DEF PoolJobs
<1>7. j.at \in AtWork => j.src \in 1..Len(disk.files)
  BY ONLY <1>2, <1>3
<1> QED BY <1>1, <1>2, <1>3, <1>4, <1>5, <1>6, <1>7, JobNumbers,
           CarryConstants

LEMMA PoolWorkKeeps ==
  ASSUME CarryInv, PoolWork
  PROVE  CarryInv'
<1>1. PICK j \in task :
        \/ VerifyOpens(j) \/ Trims(j) \/ Renames(j) \/ OpensSource(j)
        \/ OpensTarget(j) \/ ReadsChunk(j) \/ ReadsAll(j)
        \/ RemovesPartial(j) \/ TooShort(j) \/ Breaks(j)
  BY DEF PoolWork
<1> DEFINE S == Size[j.ver]
<1>2. /\ j \in PoolJobs /\ disk \in Disks /\ disk.files \in Seq(Contents)
      /\ disk.data \in 0..Len(disk.files)
      /\ disk.dest \in 0..Len(disk.files) /\ Len(disk.files) \in Nat
      /\ j.src \in 0..Len(disk.files) /\ j.out \in 0..Len(disk.files)
      /\ j.at # "queued" => j.kind # "prepare"
      /\ j.at \in AtWork => j.src \in 1..Len(disk.files)
      /\ j.kind # "prepare" => S \in Nat
  BY JobFacts, JobNumbers
<1> HIDE DEF S
\* A job on the same files, perhaps with other names for them.
<1>3. ASSUME NEW k \in PoolJobs, NEW d, JobGoes(j, k, d), k.kind = j.kind,
             k.gen = j.gen, k.ver = j.ver, j.kind # "prepare",
             k.src \in 0..Len(disk.files), k.out = j.out,
             k.at \in AtWork => k.src # 0,
             d \in {disk, [disk EXCEPT !.dest = 0],
                    [disk EXCEPT !.dest = j.out],
                    [disk EXCEPT !.data = 0],
                    [disk EXCEPT !.dest = disk.data, !.data = 0]}
      PROVE  CarryInv'
  <2>1. d \in Disks /\ d.files = disk.files
    <3>1. /\ Len(disk.files) \in Nat /\ 0 <= Len(disk.files)
          /\ j.out \in Nat /\ j.out <= Len(disk.files)
      BY ONLY <1>2
    <3>2. CASE d = disk
      BY ONLY <1>2, <3>2
    <3>3. CASE d = [disk EXCEPT !.dest = j.out]
      BY ONLY <1>2, <3>1, <3>3, DiskNames
    <3>4. CASE d \in {[disk EXCEPT !.dest = 0], [disk EXCEPT !.data = 0],
                     [disk EXCEPT !.dest = disk.data, !.data = 0]}
      BY ONLY <1>2, <3>4, DiskLoses
    <3> QED BY ONLY <1>3, <3>2, <3>3, <3>4
  <2>2. Opened(d, {k}) /\ Len(disk.files) <= Len(d.files)
    BY ONLY <1>2, <1>3, <2>1 DEF Opened, Held
  <2> QED BY <1>3, <2>1, <2>2, JobMoves
\* A job gone on to the station at.
<1>4. ASSUME NEW at \in Stations, NEW d, JobGoes(j, [j EXCEPT !.at = at], d),
             j.kind # "prepare", at \in AtWork => j.src # 0,
             d \in {disk, [disk EXCEPT !.dest = 0],
                    [disk EXCEPT !.dest = j.out],
                    [disk EXCEPT !.data = 0],
                    [disk EXCEPT !.dest = disk.data, !.data = 0]}
      PROVE  CarryInv'
  <2> DEFINE k == [j EXCEPT !.at = at]
  <2>1. /\ k \in PoolJobs /\ k.kind = j.kind /\ k.gen = j.gen /\ k.at = at
        /\ k.ver = j.ver /\ k.src = j.src /\ k.out = j.out
    BY ONLY <1>2, at \in Stations DEF PoolJobs
  <2>2. JobGoes(j, k, d)
    BY <1>4
  <2> HIDE DEF k
  <2> QED BY <1>2, <1>3, <1>4, <2>1, <2>2
<1>l. LeftBehind(j) \in {disk, [disk EXCEPT !.dest = 0]}
  BY DEF LeftBehind
<1>a. CASE VerifyOpens(j)
  <2>1. PICK at \in {"wrong", "read", "trim"} :
          /\ JobGoes(j, [j EXCEPT !.src = disk.data, !.at = at], disk)
          /\ j.kind = "verify" /\ disk.data # 0
    <3> DEFINE len == Len(disk.files[disk.data])
    <3>1. /\ JobGoes(j, [j EXCEPT !.src = disk.data,
                           !.at = CASE len < S -> "wrong"
                                    [] len = S -> "read"
                                    [] len > S -> "trim"], disk)
          /\ j.kind = "verify" /\ disk.data # 0
      BY <1>a DEF VerifyOpens, S
    <3>2. len \in Nat
      BY <1>2, <3>1 DEF Contents
    <3>3. len < S \/ len = S \/ len > S
      BY <1>2, <3>1, <3>2
    <3> HIDE DEF len
    <3> QED BY <3>1, <3>3
  <2> DEFINE k == [j EXCEPT !.src = disk.data, !.at = at]
  <2>2. /\ k \in PoolJobs /\ k.kind = j.kind /\ k.gen = j.gen
        /\ k.ver = j.ver /\ k.src = disk.data /\ k.out = j.out
    <3>1. disk.data \in Nat
      BY ONLY <1>2
    <3> QED BY ONLY <1>2, <2>1, <3>1 DEF PoolJobs, Stations
  <2>3. JobGoes(j, k, disk)
    BY <2>1
  <2> HIDE DEF k
  <2> QED BY <1>2, <1>3, <2>1, <2>2, <2>3
<1>b. CASE Trims(j)
  <2>1. /\ j.at = "trim" /\ j.src \in 1..Len(disk.files)
        /\ j.kind # "prepare"
    BY <1>2, <1>b DEF Trims, AtWork
  <2>2. PICK w \in Contents : w = Cut(disk.files[j.src], S)
    BY <1>2, <2>1, FileTyped
  <2>3. PICK fs : /\ fs = [disk.files EXCEPT ![j.src] = w]
                  /\ fs \in Seq(Contents) /\ Len(fs) = Len(disk.files)
    BY ONLY <1>2, <2>2, FileChanged
  <2> DEFINE k == [j EXCEPT !.at = "read"]
             d == [disk EXCEPT !.files = fs]
  <2>4. JobGoes(j, k, d)
    BY <1>b, <2>2, <2>3 DEF Trims, S
  <2>5. /\ k \in PoolJobs /\ k.kind = j.kind /\ k.gen = j.gen
        /\ k.ver = j.ver /\ k.src = j.src /\ k.out = j.out
    BY ONLY <1>2 DEF PoolJobs, Stations
  <2>6. d \in Disks /\ d.files = fs
    <3>1. Len(disk.files) <= Len(fs)
      BY ONLY <1>2, <2>3
    <3> QED BY ONLY <1>2, <2>3, <3>1, DiskRewritten
  <2> HIDE DEF k, d
  <2>7. Opened(d, {k}) /\ Len(disk.files) <= Len(d.files)
    BY ONLY <1>2, <2>1, <2>3, <2>5, <2>6 DEF Opened, Held
  <2> QED BY <2>1, <2>4, <2>5, <2>6, <2>7, JobMoves
<1>c. CASE Renames(j)
  BY <1>4, <1>c DEF Renames, Stations, AtWork
<1>d. CASE OpensSource(j)
  <2> DEFINE k == [j EXCEPT !.at = "source", !.src = disk.data]
  <2>1. JobGoes(j, k, disk) /\ j.kind # "prepare" /\ disk.data # 0
    BY <1>d DEF OpensSource
  <2>2. /\ k \in PoolJobs /\ k.kind = j.kind /\ k.gen = j.gen
        /\ k.ver = j.ver /\ k.src = disk.data /\ k.out = j.out
    <3>1. disk.data \in Nat
      BY ONLY <1>2
    <3> QED BY ONLY <1>2, <3>1 DEF PoolJobs, Stations
  <2> HIDE DEF k
  <2> QED BY <1>2, <1>3, <2>1, <2>2
<1>e. CASE OpensTarget(j)
  <2>1. j.at = "source" /\ j.kind # "prepare" /\ j.src # 0
    BY <1>2, <1>e DEF OpensTarget, AtWork
  <2>2. ASSUME NEW at \in {"temp", "place"}, NEW o \in Nat, NEW d \in Disks,
               JobGoes(j, [j EXCEPT !.at = at, !.out = o], d),
               Len(disk.files) <= Len(d.files), o <= Len(d.files)
        PROVE  CarryInv'
    <3> DEFINE k == [j EXCEPT !.at = at, !.out = o]
    <3>1. /\ k \in PoolJobs /\ k.kind = j.kind /\ k.gen = j.gen
          /\ k.ver = j.ver /\ k.src = j.src /\ k.out = o
      BY ONLY <1>2, o \in Nat, at \in {"temp", "place"}
         DEF PoolJobs, Stations
    <3>2. JobGoes(j, k, d)
      BY <2>2
    <3> HIDE DEF k
    <3>3. Len(d.files) \in Nat
      BY DiskIs
    <3>4. Opened(d, {k})
      <4>1. o \in 0..Len(d.files) /\ j.src \in 0..Len(d.files)
        BY ONLY <1>2, <2>2, <3>3
      <4> QED BY ONLY <2>1, <3>1, <4>1 DEF Opened, Held
    <3> QED BY <2>1, <2>2, <3>1, <3>2, <3>4, JobMoves
  <2>3. <<>> \in Contents
    BY DEF Contents
  <2>4. PICK n \in Nat, fs \in Seq(Contents) :
          /\ n = Len(disk.files) + 1 /\ fs = Append(disk.files, <<>>)
          /\ Len(fs) = n
    <3>1. /\ Append(disk.files, <<>>) \in Seq(Contents)
          /\ Len(Append(disk.files, <<>>)) = Len(disk.files) + 1
      BY ONLY <1>2, <2>3, SeqMore
    <3>2. Len(disk.files) + 1 \in Nat
      BY ONLY <1>2
    <3> QED BY ONLY <3>1, <3>2
  <2>l. Len(disk.files) <= Len(fs) /\ n <= Len(fs)
    BY ONLY <1>2, <2>4
  <2>5. CASE JobGoes(j, [j EXCEPT !.at = "temp", !.out = n],
                     [disk EXCEPT !.files = fs])
    <3>1. [disk EXCEPT !.files = fs] \in Disks
      BY ONLY <1>2, <2>4, <2>l, DiskRewritten
    <3>2. [disk EXCEPT !.files = fs].files = fs
      BY ONLY <1>2, <2>4, <2>l, DiskRewritten
    <3> QED BY ONLY <2>2, <2>4, <2>5, <2>l, <3>1, <3>2
  <2>6. CASE JobGoes(j, [j EXCEPT !.at = "place", !.out = n],
                     [disk EXCEPT !.files = fs, !.dest = n])
    <3>1. [disk EXCEPT !.files = fs, !.dest = n] \in Disks
      BY ONLY <1>2, <2>4, <2>l, DestinationAdded
    <3>2. [disk EXCEPT !.files = fs, !.dest = n].files = fs
      BY ONLY <1>2, DiskIs DEF DiskRecords
    <3> QED BY ONLY <2>2, <2>4, <2>6, <2>l, <3>1, <3>2
  <2>7. PICK gs \in Seq(Contents) :
          /\ gs = [disk.files EXCEPT ![disk.dest] = <<>>]
          /\ Len(gs) = Len(disk.files)
    BY ONLY <1>2, <2>3, FileChanged
  <2>8. CASE JobGoes(j, [j EXCEPT !.at = "place", !.out = disk.dest],
                     [disk EXCEPT !.files = gs])
    <3>l. Len(disk.files) <= Len(gs)
      BY ONLY <1>2, <2>7
    <3>1. [disk EXCEPT !.files = gs] \in Disks
      BY ONLY <1>2, <2>7, <3>l, DiskRewritten
    <3>2. [disk EXCEPT !.files = gs].files = gs
      BY ONLY <1>2, <2>7, <3>l, DiskRewritten
    <3>3. disk.dest \in Nat
      BY <1>2
    <3>4. disk.dest <= Len(gs)
      BY ONLY <1>2, <2>7
    <3> QED BY ONLY <2>2, <2>8, <3>l, <3>1, <3>2, <3>3, <3>4
  <2> QED BY <1>e, <2>4, <2>5, <2>6, <2>7, <2>8 DEF OpensTarget
<1>f. CASE ReadsChunk(j)
  <2>1. /\ j.at \in {"read", "temp", "place"} /\ j.kind # "prepare"
        /\ j.src \in 1..Len(disk.files) /\ j.n < Len(disk.files[j.src])
        /\ j.n \in Nat
    BY <1>2, <1>f DEF ReadsChunk, Reading, AtWork, PoolJobs
  <2>2. PICK v \in 0..MaxVersions : v = disk.files[j.src][j.n + 1]
    <3>1. PICK f \in Contents : f = disk.files[j.src]
      BY ONLY <1>2, <2>1
    <3>2. Len(f) \in Nat /\ f \in [1..Len(f) -> 0..MaxVersions]
      BY ONLY <3>1, SeqIs DEF Contents
    <3>3. j.n + 1 \in 1..Len(f)
      BY ONLY <2>1, <3>1, <3>2
    <3> QED BY ONLY <3>1, <3>2, <3>3
  <2>3. PICK w : w = Written(disk.files[j.out], j.n + 1, v)
    OBVIOUS
  <2>4. j.out \in DOMAIN disk.files => w \in Contents
    <3>1. j.out \in DOMAIN disk.files => disk.files[j.out] \in Contents
      BY ONLY <1>2
    <3>2. j.n + 1 \in Nat
      BY ONLY <2>1
    <3> QED BY <2>2, <2>3, <3>1, <3>2, FileTyped
  <2>5. PICK fs : /\ fs = [disk.files EXCEPT ![j.out] = w]
                  /\ fs \in Seq(Contents) /\ Len(fs) = Len(disk.files)
    BY ONLY <1>2, <2>4, FileChanged
  <2> DEFINE k == [j EXCEPT !.n = @ + 1, !.good = @ /\ v = j.ver]
             d == IF j.at = "read" THEN disk ELSE [disk EXCEPT !.files = fs]
  <2>6. JobGoes(j, k, d)
    BY <1>f, <2>2, <2>3, <2>5 DEF ReadsChunk
  <2>7. /\ k \in PoolJobs /\ k.kind = j.kind /\ k.gen = j.gen
        /\ k.ver = j.ver /\ k.src = j.src /\ k.out = j.out
    <3>1. PICK n \in Nat, g \in BOOLEAN :
            n = j.n + 1 /\ g = (j.good /\ v = j.ver)
      <4>1. j.n + 1 \in Nat
        BY ONLY <2>1
      <4>2. (j.good /\ v = j.ver) \in BOOLEAN
        OBVIOUS
      <4> QED BY ONLY <4>1, <4>2
    <3>2. k = [j EXCEPT !.n = n, !.good = g]
      BY ONLY <3>1
    <3> HIDE DEF k
    <3> QED BY ONLY <1>2, <3>1, <3>2 DEF PoolJobs
  <2>8. d \in Disks /\ Len(d.files) = Len(disk.files)
    <3>1. [disk EXCEPT !.files = fs] \in Disks
          /\ [disk EXCEPT !.files = fs].files = fs
      <4>1. Len(disk.files) <= Len(fs)
        BY ONLY <1>2, <2>5
      <4> QED BY ONLY <1>2, <2>5, <4>1, DiskRewritten
    <3> QED BY ONLY <1>2, <2>5, <3>1
  <2> HIDE DEF k, d
  <2>9. Opened(d, {k}) /\ Len(disk.files) <= Len(d.files)
    BY ONLY <1>2, <2>1, <2>7, <2>8 DEF Opened, Held
  <2> QED BY <2>1, <2>6, <2>7, <2>8, <2>9, JobMoves
<1>g. CASE ReadsAll(j)
  <2>1. j.kind # "prepare"
    BY <1>2, <1>g DEF ReadsAll, Reading
  <2>2. \E at \in {"wrong", "right", "named"} :
          \E d \in {disk, [disk EXCEPT !.dest = 0],
                   [disk EXCEPT !.dest = j.out]} :
            JobGoes(j, [j EXCEPT !.at = at], d)
    BY <1>g, <1>l DEF ReadsAll
  <2> QED BY <1>4, <2>1, <2>2 DEF Stations, AtWork
<1>h. CASE RemovesPartial(j)
  <2>1. j.kind # "prepare"
    BY <1>2, <1>h DEF RemovesPartial
  <2>2. PICK left \in {0, disk.data} :
          JobGoes(j, [j EXCEPT !.at = "right"], [disk EXCEPT !.data = left])
    BY <1>h DEF RemovesPartial
  <2>3. [disk EXCEPT !.data = disk.data] = disk
    BY ONLY <1>2, DiskIs DEF DiskRecords
  <2> QED BY <1>4, <2>1, <2>2, <2>3 DEF Stations, AtWork
<1>i. CASE TooShort(j)
  <2>1. j.kind # "prepare"
    BY <1>2, <1>i DEF TooShort, Reading
  <2> QED BY <1>4, <1>i, <1>l, <2>1 DEF TooShort, Stations, AtWork
<1>j. CASE Breaks(j)
  BY <1>4, <1>j, <1>l DEF Breaks, Stations, AtWork
<1> QED BY <1>1, <1>a, <1>b, <1>c, <1>d, <1>e, <1>f, <1>g, <1>h, <1>i, <1>j

(* No blocking job is the active transfer's while it waits or runs.        *)
LEMMA OthersFit ==
  ASSUME CarryInv, xfer.stage \notin {"preparing", "verifying"},
         NEW a2, \A c : asked[c] # "idle" => a2[c] # "idle",
         NEW y, y.gen \in {0, xfer.gen}
  PROVE  \A i \in task : JobFits(i, a2, y) /\ i.gen # xfer.gen
<1>1. \A i \in task : i.gen # 0 /\ JobFits(i, asked, xfer)
  BY CarryFacts, JobNumbers DEF PoolJobs, DeskInv
<1>2. \A i \in task : /\ i.gen # 0 /\ i.gen # xfer.gen /\ i.kind # "prepare"
                      /\ asked[i.gen] # "idle" /\ i.ver # 0
  BY ONLY <1>1, xfer.stage \notin {"preparing", "verifying"} DEF JobFits
<1> QED BY ONLY <1>2, \A c : asked[c] # "idle" => a2[c] # "idle",
          y.gen \in {0, xfer.gen}
     DEF JobFits

(* A download that got its accept again fails, and the server is told.     *)
LEMMA OnAcceptKeeps ==
  ASSUME CarryInv, Remembers, ~OpenMayFail, OnAccept
  PROVE  CarryInv'
<1> DEFINE m == Head(tocli)
           q == Tail(tocli)
           o == Tail(owes)
           c == xfer.gen
<1>1. /\ tocli # <<>> /\ m.type = "Accept" /\ tocli' = q
      /\ UNCHANGED <<host, shelf>>
  BY DEF OnAccept, Heard
<1>2. /\ asked \in [DOMAIN Jobs -> Outcomes] /\ xfer \in Xfers
      /\ owes \in Seq(Debts) /\ tocli \in Seq(FromServer)
      /\ disk \in Disks /\ gaveUp \in Seq(Nat) /\ upsets \in Nat
      /\ LinkTyped(tocli, tosrv, owes, host, xfer, gaveUp)
      /\ LinkInv(tocli, tosrv, owes, host, xfer, gaveUp)
      /\ XShape(xfer) /\ OwedAsked(asked, owes) /\ CarryTyped
      /\ DeskInv(asked, owes, xfer, task) /\ EndsAreExpected
  BY CarryFacts DEF CarryInv
<1>3. /\ owes # <<>> /\ owes[1].is = "start" /\ m.id \in Nat \ {0}
      /\ LinkInv(q, tosrv, o, host, xfer, Append(gaveUp, m.id))
      /\ xfer.gen # 0 /\ xfer.gen = owes[1].gen /\ xfer.stage # "running" =>
           /\ xfer.way = "download" => m.ver \in 1..MaxVersions
           /\ \A y : y.gen = xfer.gen /\ y.way = xfer.way
                     /\ y.stage = "running" /\ y.id = m.id
                       => LinkInv(q, tosrv, o, host, y, gaveUp)
  BY <1>1, <1>2, AcceptHeard
<1>4. q \in Seq(FromServer) /\ o \in Seq(Debts) /\ OwedAsked(asked, o)
  BY ONLY <1>1, <1>2, <1>3, OwedShift, TailIs
<1>5. Head(owes) = owes[1] /\ Unheard(q)
  BY <1>1, <1>2, <1>3, StillUnheard
<1> HIDE DEF m, q, o
<1>6. CASE Calm /\ OnAcceptLate(m.id)
  <2>1. /\ Abandon(m.id, o)
        /\ UNCHANGED <<asked, xfer, task, saving, disk, upsets>>
    BY <1>6 DEF OnAcceptLate, Calm, o
  <2>2. /\ LinkInv(q, tosrv', owes', host, xfer, gaveUp')
        /\ gaveUp' \in Seq(Nat) /\ tosrv' \in Seq(FromClient)
        /\ owes' \in Seq(Debts) /\ OwedAsked(asked, owes')
    BY <1>2, <1>3, <1>4, <1>5, <2>1, Abandoned
  <2>3. DeskInv(asked', owes', xfer', task')
    BY <1>2, <2>1, <2>2 DEF DeskInv
  <2>4. CarryTyped'
    BY <1>1, <1>2, <1>4, <2>1, <2>2 DEF CarryTyped
  <2>5. EndsAreExpected'
    BY <1>2, <2>1 DEF EndsAreExpected
  <2> QED BY <1>1, <2>1, <2>2, <2>3, <2>4, <2>5 DEF CarryInv
<1>7. ASSUME Current(Head(owes).gen), xfer.stage = "awaiting"
      PROVE  /\ c # 0 /\ c = owes[1].gen /\ xfer.stage # "running"
             /\ xfer.stage \notin {"preparing", "verifying"}
             /\ c \in DOMAIN Jobs /\ asked[c] = "open"
  BY <1>2, <1>5, <1>7, CarryFacts DEF Current
<1>8. ASSUME Current(Head(owes).gen), xfer.stage = "awaiting",
             NEW y \in Xfers, y.gen = c, y.way = xfer.way,
             y.stage = "running", y.id = m.id, XShape(y),
             xfer' = y, owes' = o, disk' \in Disks, Opened(disk', task),
             saving' \in Sidecars,
             UNCHANGED <<asked, task, gaveUp, tosrv, upsets>>
      PROVE  CarryInv'
  <2>1. LinkInv(q, tosrv, o, host, y, gaveUp)
    BY <1>3, <1>7, <1>8
  <2>2. DeskInv(asked, o, y, task)
    <3>1. \A i \in task : JobFits(i, asked, y)
      BY <1>7, <1>8, OthersFit
    <3> QED BY <1>2, <1>4, <1>7, <1>8, <3>1 DEF DeskInv
  <2>3. CarryTyped'
    BY <1>1, <1>2, <1>4, <1>8 DEF CarryTyped
  <2>4. EndsAreExpected'
    BY <1>2, <1>8 DEF EndsAreExpected
  <2> QED BY <1>1, <1>8, <2>1, <2>2, <2>3, <2>4 DEF CarryInv
<1>9. CASE /\ Current(Head(owes).gen) /\ xfer.stage = "awaiting"
           /\ xfer.way = "upload" /\ Calm /\ UploadAccepted(m.id)
  <2> DEFINE y == [xfer EXCEPT !.stage = "running", !.id = m.id]
  <2>1. /\ xfer' = y /\ owes' = o
        /\ UNCHANGED <<asked, task, saving, gaveUp, tosrv, disk, upsets>>
    BY <1>9 DEF UploadAccepted, Calm, o
  <2>2. /\ y \in Xfers /\ y.gen = c /\ y.way = xfer.way
        /\ y.stage = "running" /\ y.id = m.id /\ y.accepted = xfer.accepted
    BY ONLY <1>2, <1>3 DEF Xfers
  <2> HIDE DEF y
  <2>3. XShape(y)
    BY <1>2, <1>3, <1>7, <1>9, <2>2 DEF XShape, Ways
  <2>4. disk' \in Disks /\ Opened(disk', task) /\ saving' \in Sidecars
    BY <1>2, <2>1 DEF CarryTyped
  <2> QED BY <1>8, <1>9, <2>1, <2>2, <2>3, <2>4
<1>10. CASE /\ Current(Head(owes).gen) /\ xfer.stage = "awaiting"
            /\ xfer.way = "download" /\ DownloadAccepted(m.id, m.ver)
  <2> DEFINE x == [xfer EXCEPT !.id = m.id, !.stage = "running"]
             have == KeptFrom(xfer.resume, m.ver)
             old == disk.data
             fn == IF old = 0 THEN Len(disk.files) + 1 ELSE old
             first == [x EXCEPT !.accepted = TRUE, !.ver = m.ver,
                         !.have = have, !.file = fn,
                         !.resume = NoSidecar]
  <2>1. /\ x \in Xfers /\ x.gen = c /\ x.way = xfer.way
        /\ x.stage = "running" /\ x.id = m.id /\ x.accepted = xfer.accepted
        /\ x.ver = xfer.ver
    BY ONLY <1>2, <1>3 DEF Xfers
  <2>2. m.ver \in 1..MaxVersions /\ upsets' \in Nat
    <3>1. m.ver \in 1..MaxVersions
      BY <1>3, <1>7, <1>10
    <3>2. UNCHANGED upsets
      BY <1>10, CarryConstants DEF DownloadAccepted, Calm, OpenFails
    <3> QED BY <1>2, <3>1, <3>2
  <2>3. ASSUME NEW why \in {"failed", "changed"}, NEW cl,
               FailTransfer(x, why, cl, o), xfer.accepted
        PROVE  CarryInv'
    <3>1. LinkInv(q, tosrv, o, host, x, gaveUp)
      BY <1>3, <1>7, <1>10, <2>1
    <3>2. why \in Outcomes \ {"idle"} /\ why # "confused"
      BY DEF Outcomes
    <3>3. x.stage = "running" /\ x.way # "upload"
            => x.way = "download" /\ x.accepted
      BY <1>10, <2>1, <2>3
    <3> HIDE DEF x
    <3>4. /\ asked' = [asked EXCEPT ![x.gen] = why]
          /\ asked' \in [DOMAIN Jobs -> Outcomes] /\ xfer' = Idle
          /\ task' \subseteq PoolJobs /\ saving' = NoSidecar
          /\ owes' \in Seq(Debts) /\ gaveUp' \in Seq(Nat)
          /\ tosrv' \in Seq(FromClient) /\ disk' \in Disks
          /\ Opened(disk', task')
          /\ LinkInv(q, tosrv', owes', host, xfer', gaveUp')
          /\ DeskInv(asked', owes', xfer', task')
      BY <1>2, <1>4, <1>5, <2>1, <2>3, <3>1, <3>2, <3>3, TransferFails
    <3>5. CarryTyped'
      BY <1>1, <1>2, <1>4, <2>2, <3>4, IdleTyped, FileTyped DEF CarryTyped
    <3>6. EndsAreExpected'
      BY <1>2, <3>2, <3>4, StillExpected
    <3> QED BY <1>1, <3>4, <3>5, <3>6 DEF CarryInv
  <2>4. CASE \/ DownloadOpens(m.id, m.ver) /\ xfer.accepted
                  /\ xfer.ver # m.ver
             \/ WrongSize(m.id) /\ xfer.accepted
    <3>1. \E why \in {"failed", "changed"}, cl \in {"keep", "discard"} :
            FailTransfer(x, why, cl, o)
      BY <2>4 DEF DownloadOpens, WrongSize, o
    <3> QED BY <2>3, <2>4, <3>1
  <2>5. CASE DownloadOpens(m.id, m.ver) /\ xfer.accepted /\ xfer.ver = m.ver
                /\ Calm
    <3>1. /\ xfer' = x /\ owes' = o
          /\ UNCHANGED <<asked, task, saving, gaveUp, tosrv, disk, upsets>>
      BY <2>5 DEF DownloadOpens, Calm, o
    <3>2. XShape(x)
      <4> HIDE DEF x
      <4> QED BY <1>2, <1>3, <1>7, <1>10, <2>1, <2>5 DEF XShape, Ways
    <3>3. disk' \in Disks /\ Opened(disk', task) /\ saving' \in Sidecars
      BY <1>2, <3>1 DEF CarryTyped
    <3> HIDE DEF x
    <3> QED BY <1>8, <1>10, <2>1, <3>1, <3>2, <3>3
  <2>6. CASE DownloadOpens(m.id, m.ver) /\ ~xfer.accepted /\ Calm
    <3>1. /\ xfer' = first /\ owes' = o
          /\ \E fs : /\ disk' = [disk EXCEPT !.data = fn, !.files = fs]
                     /\ \/ old = 0 /\ fs = Append(disk.files, <<>>)
                        \/ old # 0 /\ fs = [disk.files EXCEPT ![old] = <<>>]
                        \/ old # 0 /\ fs = disk.files
          /\ saving' = SidecarOf(first)
          /\ UNCHANGED <<asked, task, gaveUp, tosrv, upsets>>
      BY <2>6 DEF DownloadOpens, Calm, o
    <3>2. have \in SUBSET Pieces
      BY <1>2 DEF KeptFrom, Xfers, Sidecars
    <3>3. /\ first \in Xfers /\ first.gen = c /\ first.way = xfer.way
          /\ first.stage = "running" /\ first.id = m.id /\ first.accepted
          /\ first.ver = m.ver
      <4>1. /\ NoSidecar \in Sidecars /\ m.ver \in 0..MaxVersions
            /\ fn \in Nat
        BY <1>2, <2>2, FileTyped, DiskIs
      <4> HIDE DEF x, have, fn
      <4> QED BY ONLY <2>1, <3>2, <4>1 DEF Xfers
    <3>4. disk' \in Disks /\ Opened(disk', task)
      <4>1. PICK fs : /\ disk' = [disk EXCEPT !.data = fn, !.files = fs]
                      /\ \/ old = 0 /\ fs = Append(disk.files, <<>>)
                         \/ old # 0 /\ fs = [disk.files EXCEPT ![old] = <<>>]
                         \/ old # 0 /\ fs = disk.files
        BY <3>1
      <4>2. /\ disk.files \in Seq(Contents) /\ Len(disk.files) \in Nat
            /\ old \in 0..Len(disk.files) /\ disk.dest \in 0..Len(disk.files)
            /\ <<>> \in Contents
        BY <1>2, DiskIs DEF Contents
      <4>3. fs \in Seq(Contents) /\ Len(fs) >= Len(disk.files)
            /\ fn \in 0..Len(fs)
        <5>1. CASE old = 0 /\ fs = Append(disk.files, <<>>)
          BY ONLY <4>2, <5>1
        <5>2. CASE old # 0 /\ fs = [disk.files EXCEPT ![old] = <<>>]
          <6>1. fs \in Seq(Contents) /\ Len(fs) = Len(disk.files)
            BY ONLY <4>2, <5>2, FileChanged
          <6> QED BY ONLY <4>2, <5>2, <6>1
        <5>3. CASE old # 0 /\ fs = disk.files
          BY ONLY <4>2, <5>3
        <5> QED BY ONLY <4>1, <5>1, <5>2, <5>3
      <4>4. disk' \in Disks /\ disk'.files = fs
        <5>1. Len(disk.files) <= Len(fs) /\ fn \in Nat /\ fn <= Len(fs)
          BY ONLY <4>2, <4>3
        <5>2. disk \in Disks
          BY <1>2
        <5> QED BY ONLY <4>1, <4>3, <5>1, <5>2, PartialAdded
      <4> QED BY <1>2, <4>2, <4>3, <4>4, CarryFacts, FilesGrow
    <3>5. XShape(first)
      <4>1. m.ver # 0
        BY <2>2
      <4> HIDE DEF first
      <4> QED BY <1>3, <1>7, <1>10, <3>3, <4>1 DEF XShape, Ways
    <3>6. saving' \in Sidecars
      BY <3>1, <3>3, FileTyped
    <3> HIDE DEF first
    <3> QED BY <1>8, <1>10, <3>1, <3>3, <3>4, <3>5, <3>6
  <2>7. CASE WrongSize(m.id) /\ ~xfer.accepted /\ Calm
    <3>1. /\ Abandon(m.id, o) /\ asked' = [asked EXCEPT ![c] = "failed"]
          /\ xfer' = Idle /\ UNCHANGED <<task, saving, disk, upsets>>
      BY <2>7 DEF WrongSize, Calm, o
    <3>2. asked' \in [DOMAIN Jobs -> Outcomes]
      BY <1>2, <3>1 DEF Outcomes
    <3>3. OwedAsked(asked', o)
      BY <1>2, <1>4, <3>1, StillAsked
    <3>4. LinkInv(q, tosrv, o, host, Idle, Append(gaveUp, m.id))
      <4>1. xfer.stage # "running"
        BY <1>7, <1>10
      <4> QED BY ONLY <1>3, <4>1, IdleIs, ClaimsChange
    <3>5. /\ LinkInv(q, tosrv', owes', host, Idle, gaveUp')
          /\ gaveUp' \in Seq(Nat) /\ tosrv' \in Seq(FromClient)
          /\ owes' \in Seq(Debts) /\ OwedAsked(asked', owes')
      BY <1>2, <1>3, <1>4, <1>5, <3>1, <3>3, <3>4, Abandoned, IdleTyped
    <3>6. DeskInv(asked', owes', Idle, task)
      <4>1. \A k : asked[k] # "idle" => asked'[k] # "idle"
        BY <1>2, <3>1
      <4>2. \A i \in task : JobFits(i, asked', Idle)
        BY <1>7, <1>10, <4>1, OthersFit, IdleIs
      <4> QED BY <1>2, <3>5, <4>2, IdleIs DEF DeskInv
    <3>7. CarryTyped'
      BY <1>1, <1>2, <1>4, <3>1, <3>2, <3>5, IdleTyped DEF CarryTyped
    <3>8. EndsAreExpected'
      BY <1>2, <3>1, StillExpected
    <3> QED BY <1>1, <3>1, <3>5, <3>6, <3>7, <3>8 DEF CarryInv
  <2>8. \/ Calm /\ DownloadOpens(m.id, m.ver)
        \/ Calm /\ (~xfer.accepted \/ xfer.ver # m.ver) /\ WrongSize(m.id)
    BY <1>10 DEF DownloadAccepted, OpenFails
  <2> QED BY <2>4, <2>5, <2>6, <2>7, <2>8
<1>11. \/ Calm /\ OnAcceptLate(m.id)
       \/ /\ Current(Head(owes).gen) /\ xfer.stage = "awaiting"
          /\ xfer.way = "upload" /\ Calm /\ UploadAccepted(m.id)
       \/ /\ Current(Head(owes).gen) /\ xfer.stage = "awaiting"
          /\ xfer.way # "upload" /\ DownloadAccepted(m.id, m.ver)
  BY DEF OnAccept, m
<1>12. Current(Head(owes).gen) /\ xfer.way # "upload"
         => xfer.way = "download"
  BY <1>2 DEF Current, XShape, Ways
<1> QED BY <1>6, <1>9, <1>10, <1>11, <1>12

(* A nonempty set of numbers has a least one.                               *)
LEMMA LeastOfNats ==
  ASSUME NEW T \in SUBSET Nat, T # {}
  PROVE  \E m \in T : \A n \in T : m <= n
<1> DEFINE R == {s \in Nat \X Nat : s[1] < s[2]}
<1>1. IsWellFoundedOn(R, Nat)
  BY NatLessThanWellFounded DEF OpToRel
<1>2. PICK m \in T : \A y \in T : ~(<<y, m>> \in R)
  <2> HIDE DEF R
  <2> QED BY <1>1, WFMin
<1>3. \A y \in T : m \in Nat /\ y \in Nat /\ <<y, m>> \in Nat \X Nat
  OBVIOUS
<1>4. \A y \in T : ~(y < m)
  BY <1>2, <1>3
<1> QED BY <1>3, <1>4

(* The first of what was given up under an id is taken out; other ids stay. *)
LEMMA ForgetOne ==
  ASSUME NEW g \in Seq(Nat), NEW e, GivenUp(g, e)
  PROVE  LET old == {i \in DOMAIN g : g[i] = e}
             first == CHOOSE i \in old : \A k \in old : i <= k
             rest == [i \in 1..(Len(g) - 1) |->
                        IF i < first THEN g[i] ELSE g[i + 1]]
         IN /\ old # {} /\ rest \in Seq(Nat)
            /\ \A i : i # e /\ GivenUp(g, i) => GivenUp(rest, i)
<1> DEFINE old == {i \in DOMAIN g : g[i] = e}
           first == CHOOSE i \in old : \A k \in old : i <= k
           rest == [i \in 1..(Len(g) - 1) |->
                      IF i < first THEN g[i] ELSE g[i + 1]]
<1>1. DOMAIN g = 1..Len(g) /\ Len(g) \in Nat
      /\ \A i \in 1..Len(g) : g[i] \in Nat
  OBVIOUS
<1>2. old # {} /\ old \in SUBSET Nat
  BY <1>1 DEF GivenUp
<1>3. first \in old
  <2> HIDE DEF old
  <2> QED BY <1>2, LeastOfNats
<1>4. first \in 1..Len(g) /\ g[first] = e
  BY <1>1, <1>3
<1> HIDE DEF old, first
<1>5. Len(g) - 1 \in Nat
  BY <1>1, <1>4
<1>6. \A i \in 1..(Len(g) - 1) : i \in 1..Len(g) /\ i + 1 \in 1..Len(g)
  BY <1>1
<1>7. rest \in [1..(Len(g) - 1) -> Nat]
  BY <1>1, <1>6
<1>8. rest \in Seq(Nat) /\ Len(rest) = Len(g) - 1
  BY <1>5, <1>7
<1>9. ASSUME NEW i, i # e, NEW k \in 1..Len(g), g[k] = i
      PROVE  \E n \in 1..(Len(g) - 1) : rest[n] = i
  <2>1. k # first
    BY <1>4, <1>9
  <2>2. CASE k < first
    <3>1. k \in 1..(Len(g) - 1)
      BY <1>1, <1>4, <2>2
    <3>2. rest[k] = g[k]
      BY <2>2, <3>1
    <3> QED BY <1>9, <3>1, <3>2
  <2>3. CASE k > first
    <3>1. k - 1 \in 1..(Len(g) - 1) /\ ~(k - 1 < first) /\ k - 1 + 1 = k
      BY <1>1, <1>4, <2>3
    <3>2. rest[k - 1] = g[k]
      BY <3>1
    <3> QED BY <1>9, <3>1, <3>2
  <2> QED BY <1>4, <2>1, <2>2, <2>3
<1> HIDE DEF rest
<1>10. \A i : i # e /\ GivenUp(g, i) => GivenUp(rest, i)
  BY <1>8, <1>9 DEF GivenUp
<1> QED BY <1>2, <1>8, <1>10 DEF old, first, rest

(* A frame after which the transfer fails.                                 *)
LEMMA HeardFails ==
  ASSUME CarryInv, Remembers, NEW why \in Outcomes \ {"idle", "confused"},
         NEW cl, NEW x \in Xfers, NEW o \in Seq(Debts),
         NEW q \in Seq(FromServer), Unheard(q),
         OwedAsked(asked, o), LinkInv(q, tosrv, o, host, x, gaveUp),
         x.stage = "running" /\ x.way # "upload"
           => x.way = "download" /\ x.accepted,
         FailTransfer(x, why, cl, o), tocli' = q,
         UNCHANGED <<host, shelf, upsets>>
  PROVE  CarryInv'
<1>1. /\ asked \in [DOMAIN Jobs -> Outcomes] /\ EndsAreExpected /\ CarryTyped
      /\ DeskInv(asked, owes, xfer, task)
  BY CarryFacts DEF CarryInv
<1>2. why \in Outcomes \ {"idle"}
  OBVIOUS
<1>3. /\ asked' = [asked EXCEPT ![x.gen] = why]
      /\ asked' \in [DOMAIN Jobs -> Outcomes] /\ xfer' = Idle
      /\ task' \subseteq PoolJobs /\ saving' = NoSidecar
      /\ owes' \in Seq(Debts) /\ gaveUp' \in Seq(Nat)
      /\ tosrv' \in Seq(FromClient) /\ disk' \in Disks
      /\ Opened(disk', task')
      /\ LinkInv(q, tosrv', owes', host, xfer', gaveUp')
      /\ DeskInv(asked', owes', xfer', task')
  BY <1>1, <1>2, TransferFails
<1>4. EndsAreExpected'
  BY <1>1, <1>3, StillExpected
<1>5. CarryTyped'
  BY <1>1, <1>3, IdleTyped, FileTyped DEF CarryTyped
<1> QED BY <1>3, <1>4, <1>5 DEF CarryInv

(* A chunk of the download, or of none.                                     *)
LEMMA OnDataKeeps ==
  ASSUME CarryInv, Remembers, OnData
  PROVE  CarryInv'
<1> DEFINE m == Head(tocli)
           q == Tail(tocli)
           mine == xfer.way = "download" /\ xfer.stage = "running"
                     /\ m.id = xfer.id
           x == [xfer EXCEPT !.have = @ \cup {m.n}]
<1>1. /\ tocli # <<>> /\ m.type = "Data" /\ tocli' = q
      /\ UNCHANGED <<host, shelf, upsets>>
  BY DEF OnData, Heard, Calm
<1>2. /\ xfer \in Xfers /\ owes \in Seq(Debts) /\ tocli \in Seq(FromServer)
      /\ disk \in Disks /\ saving \in Sidecars
      /\ LinkTyped(tocli, tosrv, owes, host, xfer, gaveUp)
      /\ LinkInv(tocli, tosrv, owes, host, xfer, gaveUp)
      /\ XShape(xfer) /\ OwedAsked(asked, owes) /\ CarryTyped
      /\ DeskInv(asked, owes, xfer, task) /\ EndsAreExpected
  BY CarryFacts DEF CarryInv
<1>u. Unheard(q)
  BY <1>1, <1>2, StillUnheard
<1>3. LinkInv(q, tosrv, owes, host, xfer, gaveUp)
  BY <1>1, <1>2, OtherHeard
<1>4. q \in Seq(FromServer) /\ m \in FromServer
  BY ONLY <1>1, <1>2, TailIs
<1>5. m.n \in Pieces /\ m.ver \in 0..MaxVersions
  <2> HIDE DEF m
  <2> QED BY <1>1, <1>4 DEF FromServer
<1>6. \/ /\ mine /\ xfer' = x
         /\ disk' = [disk EXCEPT !.files[xfer.file] =
                                    Written(@, m.n, m.ver)]
         /\ saving' \in {saving, IF saving = NoSidecar THEN SidecarOf(x)
                                 ELSE saving}
         /\ UNCHANGED <<asked, task, owes, gaveUp, tosrv>>
      \/ mine /\ FailTransfer(xfer, "failed", "keep", owes)
      \/ UNCHANGED <<asked, xfer, task, saving, owes, gaveUp, tosrv, disk>>
  BY DEF OnData
<1> HIDE DEF m, q
<1>7. CASE /\ mine /\ xfer' = x
           /\ disk' = [disk EXCEPT !.files[xfer.file] =
                                    Written(@, m.n, m.ver)]
           /\ saving' \in {saving, IF saving = NoSidecar THEN SidecarOf(x)
                                   ELSE saving}
           /\ UNCHANGED <<asked, task, owes, gaveUp, tosrv>>
  <2>1. /\ x \in Xfers /\ x.gen = xfer.gen /\ x.way = xfer.way
        /\ x.stage = xfer.stage /\ x.id = xfer.id
        /\ x.accepted = xfer.accepted /\ x.ver = xfer.ver
    BY ONLY <1>2, <1>5 DEF Xfers
  <2>2. xfer.gen # 0
    BY <1>2, <1>7, IdleIs DEF XShape
  <2>3. saving' \in Sidecars
    BY <1>2, <1>7, <2>1, FileTyped
  <2> HIDE DEF x
  <2>4. LinkInv(q, tosrv, owes, host, x, gaveUp)
    BY ONLY <1>3, <2>1, ClaimsChange
  <2>5. XShape(x)
    BY ONLY <1>2, <2>1, <2>2 DEF XShape
  <2>6. \A i \in task : JobFits(i, asked, x)
    BY <1>7, <2>1, OthersFit
  <2>7. DeskInv(asked, owes, x, task)
    BY ONLY <1>2, <2>1, <2>5, <2>6 DEF DeskInv
  <2>8. disk' \in Disks /\ Opened(disk', task)
    <3>1. xfer.file \in DOMAIN disk.files
            => Written(disk.files[xfer.file], m.n, m.ver) \in Contents
      <4>1. disk.files \in Seq(Contents) /\ m.n \in Nat
        BY <1>2, <1>5, DiskIs DEF Pieces
      <4> QED BY <1>5, <4>1, FileTyped
    <3>2. disk.files \in Seq(Contents) /\ Len(disk.files) \in Nat
      BY <1>2, DiskIs
    <3>3. PICK w : w = Written(disk.files[xfer.file], m.n, m.ver)
      OBVIOUS
    <3>4. PICK fs : /\ fs = [disk.files EXCEPT ![xfer.file] = w]
                    /\ fs \in Seq(Contents) /\ Len(fs) = Len(disk.files)
      BY ONLY <3>1, <3>2, <3>3, FileChanged
    <3>5. disk' = [disk EXCEPT !.files = fs]
      BY <1>7, <3>3, <3>4
    <3>6. disk' \in Disks /\ disk'.files = fs
      <4>1. Len(disk.files) <= Len(fs)
        BY ONLY <3>2, <3>4
      <4> QED BY ONLY <1>2, <3>4, <3>5, <4>1, DiskRewritten
    <3> QED BY <1>2, <3>2, <3>4, <3>6, CarryFacts, FilesGrow
  <2>9. CarryTyped'
    BY <1>1, <1>2, <1>4, <1>7, <2>1, <2>3, <2>8 DEF CarryTyped
  <2>10. EndsAreExpected'
    BY <1>2, <1>7 DEF EndsAreExpected
  <2> QED BY <1>1, <1>7, <2>4, <2>7, <2>9, <2>10 DEF CarryInv
<1>8. CASE mine /\ FailTransfer(xfer, "failed", "keep", owes)
  <2>1. "failed" \in Outcomes \ {"idle", "confused"}
    BY DEF Outcomes
  <2>2. xfer.stage = "running" /\ xfer.way # "upload"
          => xfer.way = "download" /\ xfer.accepted
    BY <1>2, <1>8 DEF XShape
  <2> QED BY <1>1, <1>u, <1>2, <1>3, <1>4, <1>8, <2>1, <2>2, HeardFails
<1>9. CASE UNCHANGED <<asked, xfer, task, saving, owes, gaveUp, tosrv, disk>>
  <2>1. CarryTyped'
    BY <1>1, <1>2, <1>4, <1>9 DEF CarryTyped
  <2>2. EndsAreExpected'
    BY <1>2, <1>9 DEF EndsAreExpected
  <2> QED BY <1>1, <1>2, <1>3, <1>9, <2>1, <2>2 DEF CarryInv
<1> QED BY <1>6, <1>7, <1>8, <1>9

(* A barrier answered.                                                      *)
LEMMA OnPongKeeps ==
  ASSUME CarryInv, OnPongT
  PROVE  CarryInv'
<1> DEFINE q == Tail(tocli)
           x == [xfer EXCEPT !.flying = @ - 1]
<1>1. /\ tocli # <<>> /\ Head(tocli).type = "Pong" /\ tocli' = q
      /\ owes' = Tail(owes) /\ xfer' \in {xfer, x}
      /\ (xfer' # xfer => Current(Head(owes).gen))
      /\ UNCHANGED <<asked, task, saving, gaveUp, tosrv, host, shelf, disk,
                     upsets>>
  BY DEF OnPongT, Heard, Calm
<1>2. /\ xfer \in Xfers /\ owes \in Seq(Debts) /\ tocli \in Seq(FromServer)
      /\ LinkTyped(tocli, tosrv, owes, host, xfer, gaveUp)
      /\ LinkInv(tocli, tosrv, owes, host, xfer, gaveUp)
      /\ XShape(xfer) /\ OwedAsked(asked, owes) /\ CarryTyped
      /\ DeskInv(asked, owes, xfer, task) /\ EndsAreExpected
  BY CarryFacts DEF CarryInv
<1>3. owes # <<>> /\ LinkInv(q, tosrv, Tail(owes), host, xfer, gaveUp)
  BY <1>1, <1>2, OtherHeard
<1>4. /\ q \in Seq(FromServer) /\ Tail(owes) \in Seq(Debts)
      /\ OwedAsked(asked, Tail(owes))
  BY ONLY <1>1, <1>2, <1>3, OwedShift, TailIs
<1>5. /\ x \in Xfers /\ x.gen = xfer.gen /\ x.way = xfer.way
      /\ x.stage = xfer.stage /\ x.id = xfer.id
      /\ x.accepted = xfer.accepted /\ x.ver = xfer.ver
  <2>1. xfer.flying \in Int /\ xfer \in Xfers
    BY <1>2 DEF Xfers
  <2>2. PICK n \in Int : n = xfer.flying - 1
    BY ONLY <2>1
  <2>3. x = [xfer EXCEPT !.flying = n]
    BY ONLY <2>2
  <2> HIDE DEF x
  <2> QED BY ONLY <2>1, <2>2, <2>3 DEF Xfers
<1> HIDE DEF q, x
<1>6. /\ xfer' \in Xfers /\ xfer'.gen = xfer.gen /\ xfer'.way = xfer.way
      /\ xfer'.stage = xfer.stage /\ xfer'.id = xfer.id
      /\ xfer'.accepted = xfer.accepted /\ xfer'.ver = xfer.ver
      /\ xfer.gen = 0 => xfer' = xfer
  BY <1>1, <1>2, <1>5 DEF Current
<1>7. LinkInv(q, tosrv, Tail(owes), host, xfer', gaveUp)
  BY ONLY <1>3, <1>6, ClaimsChange
<1>8. DeskInv(asked, Tail(owes), xfer', task)
  <2>1. XShape(xfer')
    BY ONLY <1>2, <1>6 DEF XShape
  <2> QED BY ONLY <1>2, <1>4, <1>6, <2>1 DEF DeskInv, JobFits
<1>9. CarryTyped'
  BY <1>1, <1>2, <1>4, <1>6 DEF CarryTyped
<1>10. EndsAreExpected'
  BY <1>1, <1>2 DEF EndsAreExpected
<1> QED BY <1>1, <1>7, <1>8, <1>9, <1>10 DEF CarryInv

(* A refusal heard.                                                         *)
LEMMA OnErrorKeeps ==
  ASSUME CarryInv, Remembers, OnErrorT
  PROVE  CarryInv'
<1> DEFINE q == Tail(tocli)
           p == Head(owes)
           o == [owes EXCEPT ![1].error = TRUE]
<1>1. /\ tocli # <<>> /\ Head(tocli).type = "Error" /\ tocli' = q
      /\ UNCHANGED <<host, shelf, upsets>>
  BY DEF OnErrorT, Heard, Calm
<1>2. /\ xfer \in Xfers /\ owes \in Seq(Debts) /\ tocli \in Seq(FromServer)
      /\ LinkTyped(tocli, tosrv, owes, host, xfer, gaveUp)
      /\ LinkInv(tocli, tosrv, owes, host, xfer, gaveUp)
      /\ XShape(xfer) /\ OwedAsked(asked, owes) /\ CarryTyped
      /\ DeskInv(asked, owes, xfer, task) /\ EndsAreExpected
  BY CarryFacts DEF CarryInv
<1>u. Unheard(q)
  BY <1>1, <1>2, StillUnheard
<1>3. /\ owes # <<>>
      /\ owes[1].is = "start"
           => LinkInv(q, tosrv, Tail(owes), host, xfer, gaveUp)
      /\ owes[1].is # "start"
           => LinkInv(q, tosrv, owes, host, xfer, gaveUp)
  BY <1>1, <1>2, OtherHeard
<1>4. /\ q \in Seq(FromServer) /\ Tail(owes) \in Seq(Debts)
      /\ OwedAsked(asked, Tail(owes)) /\ p = owes[1]
  BY ONLY <1>1, <1>2, <1>3, OwedShift, TailIs
<1>5. /\ o \in Seq(Debts) /\ Len(o) = Len(owes)
      /\ \A k \in 1..Len(owes) : o[k].is = owes[k].is
                                 /\ o[k].gen = owes[k].gen
  <2>1. \A d \in Debts : /\ [d EXCEPT !.error = TRUE] \in Debts
                         /\ [d EXCEPT !.error = TRUE].is = d.is
                         /\ [d EXCEPT !.error = TRUE].gen = d.gen
    BY DEF Debts
  <2>2. owes \in Seq(Debts) /\ owes # <<>>
    BY <1>2, <1>3
  <2>3. \A k \in 1..Len(owes) : owes[k] \in Debts
    BY ONLY <2>2
  <2>4. PICK e : e = [owes[1] EXCEPT !.error = TRUE]
    OBVIOUS
  <2>5. e \in Debts /\ e.is = owes[1].is /\ e.gen = owes[1].gen
    <3>1. 1 \in 1..Len(owes)
      BY ONLY <2>2
    <3> QED BY ONLY <2>1, <2>3, <2>4, <3>1
  <2>6. o = [owes EXCEPT ![1] = e]
    BY ONLY <2>2, <2>4
  <2> HIDE DEF o
  <2>7. /\ o \in Seq(Debts) /\ Len(o) = Len(owes)
        /\ \A k \in 1..Len(owes) : o[k] = IF k = 1 THEN e ELSE owes[k]
    BY ONLY <2>2, <2>5, <2>6
  <2> QED BY ONLY <2>5, <2>7
<1>6. \/ /\ p.is = "start" /\ Current(p.gen)
         /\ FailTransfer(xfer, "refused", "keep", Tail(owes))
      \/ /\ p.is = "start" /\ owes' = Tail(owes)
         /\ UNCHANGED <<asked, xfer, task, saving, gaveUp, tosrv, disk>>
      \/ /\ p.is # "start" /\ FailTransfer(xfer, "refused", "keep", o)
      \/ /\ p.is # "start" /\ owes' = o
         /\ UNCHANGED <<asked, xfer, task, saving, gaveUp, tosrv, disk>>
  <2>1. p.is = "chunk" => p.is # "start"
    OBVIOUS
  <2> QED BY <2>1 DEF OnErrorT
<1> HIDE DEF q, p, o
<1>7. OwedAsked(asked, o)
  BY ONLY <1>2, <1>5 DEF OwedAsked
<1>8. owes[1].is # "start" => LinkInv(q, tosrv, o, host, xfer, gaveUp)
  BY ONLY <1>3, <1>5, DebtMarked
<1>9. xfer.stage = "running" /\ xfer.way # "upload"
        => xfer.way = "download" /\ xfer.accepted
  BY <1>2, IdleIs DEF XShape, Ways
<1>10. "refused" \in Outcomes \ {"idle", "confused"}
  BY DEF Outcomes
<1>11. ASSUME NEW r \in Seq(Debts), OwedAsked(asked, r), owes' = r,
              LinkInv(q, tosrv, r, host, xfer, gaveUp),
              UNCHANGED <<asked, xfer, task, saving, gaveUp, tosrv, disk>>
       PROVE  CarryInv'
  <2>1. DeskInv(asked, r, xfer, task)
    BY <1>2, <1>11 DEF DeskInv
  <2>2. CarryTyped'
    BY <1>1, <1>2, <1>4, <1>11 DEF CarryTyped
  <2>3. EndsAreExpected'
    BY <1>2, <1>11 DEF EndsAreExpected
  <2> QED BY <1>1, <1>11, <2>1, <2>2, <2>3 DEF CarryInv
<1>12. ASSUME NEW r \in Seq(Debts), OwedAsked(asked, r),
              LinkInv(q, tosrv, r, host, xfer, gaveUp),
              FailTransfer(xfer, "refused", "keep", r)
       PROVE  CarryInv'
  BY <1>1, <1>u, <1>2, <1>4, <1>9, <1>10, <1>12, HeardFails
<1> QED BY <1>3, <1>4, <1>5, <1>6, <1>7, <1>8, <1>11, <1>12

(* A chunk sent.                                                            *)
LEMMA SendChunkKeeps ==
  ASSUME CarryInv, Remembers, SendChunk
  PROVE  CarryInv'
<1> DEFINE x == [xfer EXCEPT !.next = @ + 1, !.flying = @ + 1]
           f == Message("Data", xfer.id, xfer.next, 0)
           d == Barrier("chunk", xfer.gen, xfer.next)
<1>1. /\ xfer.stage = "running" /\ UNCHANGED upsets
      /\ \/ /\ xfer' = x /\ tosrv' = tosrv \o <<f, PingFrame>>
            /\ owes' = Append(owes, d)
            /\ UNCHANGED <<asked, task, saving, gaveUp, tocli, host, shelf,
                           disk>>
         \/ Fails(xfer, "failed", "keep", owes) /\ UNCHANGED tocli
  BY DEF SendChunk, Calm
<1>2. CASE Fails(xfer, "failed", "keep", owes) /\ UNCHANGED tocli
  <2>1. upsets' \in Nat /\ "failed" \in Outcomes \ {"idle", "confused"}
    BY <1>1, CarryFacts DEF Outcomes
  <2> QED BY <1>2, <2>1, FailsKeeps
<1>3. CASE /\ xfer' = x /\ tosrv' = tosrv \o <<f, PingFrame>>
           /\ owes' = Append(owes, d)
           /\ UNCHANGED <<asked, task, saving, gaveUp, tocli, host, shelf,
                          disk>>
  <2>1. /\ xfer \in Xfers /\ owes \in Seq(Debts) /\ tosrv \in Seq(FromClient)
        /\ LinkTyped(tocli, tosrv, owes, host, xfer, gaveUp)
        /\ LinkInv(tocli, tosrv, owes, host, xfer, gaveUp)
        /\ XShape(xfer) /\ OwedAsked(asked, owes) /\ CarryTyped
        /\ DeskInv(asked, owes, xfer, task) /\ EndsAreExpected
        /\ xfer.gen # 0 => asked[xfer.gen] = "open"
    BY CarryFacts DEF CarryInv
  <2>2. /\ x \in Xfers /\ x.gen = xfer.gen /\ x.way = xfer.way
        /\ x.stage = xfer.stage /\ x.id = xfer.id
        /\ x.accepted = xfer.accepted /\ x.ver = xfer.ver
    <3>1. xfer.flying \in Int /\ xfer.next \in Nat /\ xfer \in Xfers
      BY <2>1 DEF Xfers
    <3>2. PICK n \in Int, k \in Nat : n = xfer.flying + 1 /\ k = xfer.next + 1
      BY ONLY <3>1
    <3>3. x = [xfer EXCEPT !.next = k, !.flying = n]
      BY ONLY <3>2
    <3> HIDE DEF x
    <3> QED BY ONLY <3>1, <3>2, <3>3 DEF Xfers
  <2>3. /\ xfer.gen # 0 /\ xfer.id # 0 /\ xfer.id \in Nat /\ xfer.next \in Nat
        /\ xfer.gen \in 0..Len(Jobs)
    BY <1>1, <2>1, IdleIs DEF XShape, Xfers
  <2>4. f \in FromClient /\ f.type = "Data" /\ f.id # 0
    <3>1. 0 \in 0..MaxVersions
      BY JobNumbers
    <3> QED BY <2>3, <3>1, FramesTyped DEF Message
  <2>5. d \in Debts /\ d.is = "chunk" /\ d.gen = xfer.gen
    BY <2>3, BarrierTyped DEF Barrier
  <2>6. PingFrame \in FromClient
    BY FramesTyped
  <2> HIDE DEF x, f, d
  <2>7. LinkInv(tocli, tosrv', owes', host, xfer, gaveUp)
    <3>1. d.is # "start" /\ f.type \in {"Data", "End"}
          /\ (f.type = "Data" => f.id # 0)
      BY ONLY <2>4, <2>5
    <3> QED BY ONLY <1>3, <2>1, <2>4, <2>5, <3>1, BarrierSent
  <2>8. LinkInv(tocli, tosrv', owes', host, x, gaveUp)
    BY ONLY <2>2, <2>7, ClaimsChange
  <2>9. tosrv' \in Seq(FromClient)
    BY ONLY <1>3, <2>1, <2>4, <2>6, PairIs, AppendIs
  <2>10. owes' \in Seq(Debts) /\ OwedAsked(asked, owes')
    <3>1. d.gen # 0 => asked[d.gen] # "idle"
      BY ONLY <2>1, <2>3, <2>5
    <3> QED BY ONLY <1>3, <2>1, <2>5, <3>1, OwedShift
  <2>11. DeskInv(asked, owes', x, task)
    <3>1. XShape(x)
      BY ONLY <2>1, <2>2, <2>3 DEF XShape
    <3> QED BY ONLY <2>1, <2>2, <2>10, <3>1 DEF DeskInv, JobFits
  <2>12. CarryTyped'
    BY <1>1, <1>3, <2>1, <2>2, <2>9, <2>10 DEF CarryTyped
  <2>13. EndsAreExpected'
    BY <1>3, <2>1 DEF EndsAreExpected
  <2> QED BY <1>3, <2>8, <2>11, <2>12, <2>13 DEF CarryInv
<1> QED BY <1>1, <1>2, <1>3

(* An end heard: of what was given up, of the transfer that runs, or of     *)
(* neither. That a request is never taken for ended is the case in which the*)
(* transfer is awaiting its accept.                                         *)
LEMMA OnEndKeeps ==
  ASSUME CarryInv, Remembers, OnEnd
  PROVE  CarryInv'
<1> DEFINE m == Head(tocli)
           q == Tail(tocli)
           c == xfer.gen
           old == {i \in DOMAIN gaveUp : gaveUp[i] = m.id}
           first == CHOOSE i \in old : \A k \in old : i <= k
           rest == [i \in 1..(Len(gaveUp) - 1) |->
                      IF i < first THEN gaveUp[i] ELSE gaveUp[i + 1]]
           x == [xfer EXCEPT !.stage = "verifying"]
           again == [xfer EXCEPT !.round = @ + 1, !.stage = "awaiting"]
           v == [x EXCEPT !.file = 0]
           f == StartFrame("download", xfer.have)
           d == Barrier("start", c, 0)
           j == Job("verify", c, xfer.ver, task = {})
<1>1. /\ tocli # <<>> /\ m.type = "End" /\ tocli' = q
      /\ UNCHANGED <<host, shelf, upsets>>
  BY DEF OnEnd, Heard, Calm
<1>2. /\ xfer \in Xfers /\ owes \in Seq(Debts) /\ tocli \in Seq(FromServer)
      /\ gaveUp \in Seq(Nat) /\ tosrv \in Seq(FromClient)
      /\ asked \in [DOMAIN Jobs -> Outcomes] /\ task \subseteq PoolJobs
      /\ LinkTyped(tocli, tosrv, owes, host, xfer, gaveUp)
      /\ LinkInv(tocli, tosrv, owes, host, xfer, gaveUp)
      /\ XShape(xfer) /\ OwedAsked(asked, owes) /\ CarryTyped
      /\ DeskInv(asked, owes, xfer, task) /\ EndsAreExpected
      /\ c # 0 => asked[c] = "open" /\ c \in DOMAIN Jobs
  BY CarryFacts DEF CarryInv
<1>u. Unheard(q)
  BY <1>1, <1>2, StillUnheard
<1>3. /\ \/ GivenUp(gaveUp, m.id)
         \/ xfer.stage = "running" /\ xfer.id = m.id
      /\ \A g2 : (\A i : i # m.id /\ GivenUp(gaveUp, i) => GivenUp(g2, i))
                   => LinkInv(q, tosrv, owes, host, xfer, g2)
      /\ xfer.stage = "running" /\ xfer.id = m.id =>
           \A y : y.gen \in {0, c} /\ (y.gen # 0 => y.way = xfer.way)
                  /\ y.stage # "running"
                    => LinkInv(q, tosrv, owes, host, y, gaveUp)
  BY <1>1, <1>2, EndHeard
<1>4. q \in Seq(FromServer)
  BY ONLY <1>1, <1>2, TailIs
<1>5. old # {} <=> GivenUp(gaveUp, m.id)
  <2>1. gaveUp \in Seq(Nat)
    BY <1>2
  <2>2. DOMAIN gaveUp = 1..Len(gaveUp)
    BY ONLY <2>1
  <2> QED BY <2>2 DEF GivenUp
<1>6. old # {} => /\ rest \in Seq(Nat)
                  /\ \A i : i # m.id /\ GivenUp(gaveUp, i)
                              => GivenUp(rest, i)
  <2>1. GivenUp(gaveUp, m.id) =>
          /\ rest \in Seq(Nat)
          /\ \A i : i # m.id /\ GivenUp(gaveUp, i) => GivenUp(rest, i)
    BY ONLY <1>2, ForgetOne
  <2> QED BY <1>5, <2>1
<1>7. \/ /\ old # {} /\ gaveUp' = rest
         /\ UNCHANGED <<asked, xfer, task, saving, owes, tosrv, disk>>
      \/ /\ old = {} /\ xfer.stage = "awaiting"
      \/ /\ old = {} /\ xfer.stage = "running" /\ xfer.id = m.id
         /\ IF xfer.way = "upload" THEN UploadEnded(m.n = 1)
            ELSE \E ok \in {FALSE, m.n = 1} : DownloadEnded(ok)
      \/ old = {} /\ ~(xfer.stage = "running" /\ xfer.id = m.id)
  BY DEF OnEnd
<1> HIDE DEF m, q, old, first, rest
<1>8. CASE /\ old # {} /\ gaveUp' = rest
           /\ UNCHANGED <<asked, xfer, task, saving, owes, tosrv, disk>>
  <2>1. LinkInv(q, tosrv, owes, host, xfer, rest)
    BY <1>3, <1>6, <1>8
  <2>2. CarryTyped'
    BY <1>1, <1>2, <1>4, <1>6, <1>8 DEF CarryTyped
  <2>3. EndsAreExpected'
    BY <1>2, <1>8 DEF EndsAreExpected
  <2> QED BY <1>1, <1>2, <1>8, <2>1, <2>2, <2>3 DEF CarryInv
<1>9. ASSUME xfer.stage = "running", xfer.id = m.id
      PROVE  /\ c # 0 /\ c \in DOMAIN Jobs /\ asked[c] = "open"
             /\ c \in 0..Len(Jobs)
             /\ xfer.way = "upload" \/ (xfer.way = "download" /\ xfer.accepted)
  BY <1>2, <1>9, JobNumbers, IdleIs DEF XShape, Ways
<1>10. CASE xfer.stage = "running" /\ xfer.id = m.id /\ UploadEnded(m.n = 1)
  <2>1. PICK why \in {"ok", "failed"} : asked' = [asked EXCEPT ![c] = why]
    BY <1>10 DEF UploadEnded
  <2>2. /\ xfer' = Idle
        /\ UNCHANGED <<task, saving, owes, gaveUp, tosrv, disk>>
    BY <1>10 DEF UploadEnded
  <2>3. asked' \in [DOMAIN Jobs -> Outcomes]
    BY <1>2, <2>1 DEF Outcomes
  <2>4. LinkInv(q, tosrv, owes, host, Idle, gaveUp)
    BY <1>3, <1>10, IdleIs
  <2>5. DeskInv(asked', owes, Idle, task)
    <3>1. \A k : asked[k] # "idle" => asked'[k] # "idle"
      BY <1>2, <2>1
    <3>2. \A i \in task : JobFits(i, asked', Idle)
      BY <1>10, <3>1, OthersFit, IdleIs
    <3>3. OwedAsked(asked', owes)
      BY <1>2, <2>1, StillAsked
    <3> QED BY <1>2, <3>2, <3>3, IdleIs DEF DeskInv
  <2>6. CarryTyped'
    BY <1>1, <1>2, <1>4, <2>2, <2>3, IdleTyped DEF CarryTyped
  <2>7. EndsAreExpected'
    BY <1>2, <2>1, StillExpected
  <2> QED BY <1>1, <2>2, <2>4, <2>5, <2>6, <2>7 DEF CarryInv
<1>11. CASE /\ xfer.stage = "running" /\ xfer.id = m.id
            /\ xfer.way = "download" /\ \E ok \in {FALSE, m.n = 1} :
                                          DownloadEnded(ok)
  <2>1. \/ \E cl \in {"keep", "discard"} : FailTransfer(x, "failed", cl, owes)
        \/ /\ xfer' = again /\ tosrv' = Append(tosrv, f)
           /\ owes' = Append(owes, d)
           /\ UNCHANGED <<asked, task, saving, gaveUp, disk>>
        \/ /\ xfer' = v /\ task' = task \cup {j}
           /\ UNCHANGED <<asked, saving, owes, gaveUp, tosrv, disk>>
    BY <1>11 DEF DownloadEnded
  <2>2. /\ x \in Xfers /\ x.gen = c /\ x.way = "download"
        /\ x.stage = "verifying"
    BY ONLY <1>2, <1>11 DEF Xfers
  <2>3. CASE \E cl \in {"keep", "discard"} :
               FailTransfer(x, "failed", cl, owes)
    <3>1. "failed" \in Outcomes \ {"idle", "confused"}
      BY DEF Outcomes
    <3> HIDE DEF x
    <3>2. LinkInv(q, tosrv, owes, host, x, gaveUp)
      BY <1>3, <1>11, <2>2
    <3>3. x.stage # "running"
      BY <2>2
    <3> QED BY <1>1, <1>u, <1>2, <1>4, <2>2, <2>3, <3>1, <3>2, <3>3, HeardFails
  <2>4. CASE /\ xfer' = again /\ tosrv' = Append(tosrv, f)
             /\ owes' = Append(owes, d)
             /\ UNCHANGED <<asked, task, saving, gaveUp, disk>>
    <3>1. /\ again \in Xfers /\ again.gen = c /\ again.way = "download"
          /\ again.stage = "awaiting" /\ again.accepted = xfer.accepted
          /\ again.ver = xfer.ver
      <4>1. xfer.round \in Nat /\ xfer \in Xfers
        BY <1>2 DEF Xfers
      <4>2. PICK n \in Nat : n = xfer.round + 1
        BY ONLY <4>1
      <4>3. again = [xfer EXCEPT !.round = n, !.stage = "awaiting"]
        BY ONLY <4>2
      <4> HIDE DEF again
      <4> QED BY ONLY <1>11, <4>1, <4>2, <4>3 DEF Xfers
    <3>2. f \in FromClient /\ f.type = "Start" /\ f.way = "download"
      <4>1. xfer.have \in SUBSET Pieces /\ "download" \in Ways
        BY <1>2 DEF Xfers, Ways
      <4> QED BY <4>1, FramesTyped DEF StartFrame
    <3>3. d \in Debts /\ d.is = "start" /\ d.gen = c
      BY <1>9, <1>11, BarrierTyped DEF Barrier
    <3> HIDE DEF again, f, d
    <3>4. LinkInv(q, tosrv, owes, host, again, gaveUp)
      BY <1>3, <1>11, <3>1
    <3>5. LinkTyped(q, tosrv, owes, host, again, gaveUp)
      BY <1>2, <1>4, <3>1 DEF LinkTyped
    <3>6. LinkInv(q, tosrv', owes', host, again, gaveUp)
      <4>1. c # 0
        BY <1>9, <1>11
      <4> QED BY ONLY <2>4, <3>1, <3>2, <3>3, <3>4, <3>5, <4>1, AskedFor
    <3>7. /\ tosrv' \in Seq(FromClient) /\ owes' \in Seq(Debts)
          /\ OwedAsked(asked, owes')
      <4>1. d.gen # 0 => asked[d.gen] # "idle"
        BY <1>9, <1>11, <3>3
      <4> QED BY ONLY <1>2, <2>4, <3>2, <3>3, <4>1, OwedShift, AppendIs
    <3>8. DeskInv(asked, owes', again, task)
      <4>1. XShape(again)
        BY <1>2, <1>9, <1>11, <3>1 DEF XShape, Ways
      <4>2. \A i \in task : JobFits(i, asked, again)
        BY <1>11, <3>1, OthersFit
      <4> QED BY <1>2, <3>1, <3>7, <4>1, <4>2 DEF DeskInv
    <3>9. CarryTyped'
      BY <1>1, <1>2, <1>4, <2>4, <3>1, <3>7 DEF CarryTyped
    <3>10. EndsAreExpected'
      BY <1>2, <2>4 DEF EndsAreExpected
    <3> QED BY <1>1, <2>4, <3>6, <3>8, <3>9, <3>10 DEF CarryInv
  <2>5. CASE /\ xfer' = v /\ task' = task \cup {j}
             /\ UNCHANGED <<asked, saving, owes, gaveUp, tosrv, disk>>
    <3>1. /\ v \in Xfers /\ v.gen = c /\ v.way = "download"
          /\ v.stage = "verifying" /\ v.accepted = xfer.accepted
          /\ v.ver = xfer.ver
      BY ONLY <1>2, <1>11 DEF Xfers
    <3>2. /\ j \in PoolJobs /\ j.gen = c /\ j.kind = "verify"
          /\ j.ver = xfer.ver /\ j.src = 0 /\ j.out = 0 /\ j.at = "queued"
      <4>1. xfer.ver \in 0..MaxVersions
        BY <1>2 DEF Xfers
      <4> QED BY <1>9, <1>11, <4>1 DEF PoolJobs, Job, Stations
    <3> HIDE DEF v, j
    <3>3. LinkInv(q, tosrv, owes, host, v, gaveUp)
      BY <1>3, <1>11, <3>1
    <3>4. DeskInv(asked, owes, v, task')
      <4>1. XShape(v)
        BY <1>2, <1>9, <1>11, <3>1 DEF XShape, Ways
      <4>2. \A i \in task : JobFits(i, asked, v) /\ i.gen # c
        BY <1>11, <3>1, OthersFit
      <4>3. JobFits(j, asked, v)
        BY <1>2, <1>9, <1>11, <3>1, <3>2 DEF JobFits, XShape
      <4>4. \A i, k \in task' : i.gen = k.gen => i = k
        BY <1>2, <2>5, <3>2, <4>2 DEF DeskInv
      <4> QED BY <1>2, <2>5, <3>1, <4>1, <4>2, <4>3, <4>4 DEF DeskInv
    <3>5. CarryTyped'
      <4>1. disk \in Disks /\ Opened(disk, task)
        BY CarryFacts
      <4>2. Len(disk.files) \in Nat
        BY ONLY <4>1, DiskIs
      <4>3. Opened(disk', task')
        BY ONLY <2>5, <3>2, <4>1, <4>2 DEF Opened, Held, AtWork
      <4> QED BY <1>1, <1>2, <1>4, <2>5, <3>1, <3>2, <4>3 DEF CarryTyped
    <3>6. EndsAreExpected'
      BY <1>2, <2>5 DEF EndsAreExpected
    <3> QED BY <1>1, <2>5, <3>3, <3>4, <3>5, <3>6 DEF CarryInv
  <2> QED BY <2>1, <2>3, <2>4, <2>5
<1> QED BY <1>3, <1>5, <1>7, <1>8, <1>9, <1>10, <1>11

(* What only the server does leaves the client's side as it was.           *)
LEMMA HostKeeps ==
  ASSUME CarryInv, UNCHANGED <<clientSide, shelf>>, host' \in Hosts,
         tosrv' \in Seq(FromClient), tocli' \in Seq(FromServer),
         LinkInv(tocli', tosrv', owes, host', xfer, gaveUp)
  PROVE  CarryInv'
<1>1. UNCHANGED <<asked, xfer, task, saving, owes, gaveUp, disk, upsets,
                  shelf>>
  BY DEF clientSide
<1>2. CarryTyped'
  BY <1>1 DEF CarryInv, CarryTyped
<1>3. EndsAreExpected'
  BY <1>1 DEF CarryInv, EndsAreExpected
<1> QED BY <1>1, <1>2, <1>3 DEF CarryInv

(* What the invariant says of the server.                                   *)
LEMMA HostFacts ==
  ASSUME CarryInv
  PROVE  /\ host \in Hosts /\ tosrv \in Seq(FromClient)
         /\ tocli \in Seq(FromServer) /\ HostSane(host)
         /\ LinkTyped(tocli, tosrv, owes, host, xfer, gaveUp)
         /\ LinkInv(tocli, tosrv, owes, host, xfer, gaveUp)
         /\ DataNamed(tosrv)
         /\ host.up \in Nat /\ host.finishing \in Nat /\ host.down \in Nat
         /\ host.ids \in Nat /\ host.ended \in Nat /\ host.writing \in Nat
         /\ host.left \in SUBSET Pieces /\ host.todo \in SUBSET Pieces
         /\ host.ver \in 0..MaxVersions /\ host.filed \in SUBSET Nat
         /\ shelf \in 1..MaxVersions
  BY CarryFacts DEF LinkInv, Hosts

(* The frame the server reads next.                                         *)
LEMMA AskTyped ==
  ASSUME CarryInv, tosrv # <<>>
  PROVE  /\ Head(tosrv) \in FromClient /\ Tail(tosrv) \in Seq(FromClient)
         /\ Head(tosrv).type = "Data" => Head(tosrv).id # 0
<1>1. tosrv \in Seq(FromClient) /\ DataNamed(tosrv) /\ tosrv # <<>>
  BY HostFacts
<1> QED BY ONLY <1>1, TailIs, NamedData

(* The steps of the server.                                                 *)
LEMMA HostPingKeeps ==
  ASSUME CarryInv, HostPing
  PROVE  CarryInv'
<1> DEFINE a == [type |-> "Pong"]
<1>1. /\ host.writing = 0 /\ tosrv # <<>> /\ Head(tosrv).type = "Ping"
      /\ tosrv' = Tail(tosrv) /\ tocli' = Append(tocli, a)
      /\ UNCHANGED <<clientSide, host, shelf>>
  BY DEF HostPing, Asked, Tell
<1>2. a \in FromServer /\ a.type = "Pong"
  BY FramesTyped
<1> HIDE DEF a
<1>3. LinkInv(tocli', tosrv', owes, host, xfer, gaveUp)
  BY <1>1, <1>2, HostFacts, HostAnswers
<1>4. tosrv' \in Seq(FromClient) /\ tocli' \in Seq(FromServer)
  <2>1. tocli \in Seq(FromServer) /\ Tail(tosrv) \in Seq(FromClient)
    BY <1>1, HostFacts, AskTyped
  <2> QED BY ONLY <1>1, <1>2, <2>1, AppendIs
<1> QED BY <1>1, <1>3, <1>4, HostFacts, HostKeeps

(* A refusal.                                                              *)
LEMMA DeniedKeeps ==
  ASSUME CarryInv, NEW t \in {"Start", "Data", "End"}, Asked(t), Denied,
         UNCHANGED <<clientSide, shelf>>
  PROVE  CarryInv'
<1> DEFINE a == [type |-> "Error"]
<1>1. /\ host.writing = 0 /\ tosrv # <<>> /\ Head(tosrv).type = t
      /\ tosrv' = Tail(tosrv) /\ tocli' = Append(tocli, a)
      /\ UNCHANGED <<clientSide, host, shelf>>
  BY DEF Denied, Asked, Tell
<1>2. a \in FromServer /\ a.type = "Error"
  BY FramesTyped
<1> HIDE DEF a
<1>3. LinkInv(tocli', tosrv', owes, host, xfer, gaveUp)
  BY <1>1, <1>2, HostFacts, HostAnswers
<1>4. tosrv' \in Seq(FromClient) /\ tocli' \in Seq(FromServer)
  <2>1. tocli \in Seq(FromServer) /\ Tail(tosrv) \in Seq(FromClient)
    BY <1>1, HostFacts, AskTyped
  <2> QED BY ONLY <1>1, <1>2, <2>1, AppendIs
<1> QED BY <1>1, <1>3, <1>4, HostFacts, HostKeeps

(* A request: refused, or accepted under a new id.                          *)
LEMMA HostStartKeeps ==
  ASSUME CarryInv, HostStart
  PROVE  CarryInv'
<1> DEFINE m == Head(tosrv)
           id == host.ids + 1
           a == Message("Accept", id, 0, shelf)
           b == Message("Accept", id, 0, 0)
           h == [host EXCEPT !.ids = id, !.down = id, !.ver = shelf,
                             !.todo = Chunks(shelf) \ m.have]
           k == [host EXCEPT !.ids = id, !.up = id, !.left = Pieces]
<1>1. /\ Asked("Start") /\ UNCHANGED <<clientSide, shelf>>
      /\ host.writing = 0 /\ tosrv # <<>> /\ m.type = "Start"
      /\ tosrv' = Tail(tosrv)
      /\ \/ Denied
         \/ /\ m.way = "download" /\ host.down = 0
            /\ tocli' = Append(tocli, a) /\ host' = h
         \/ /\ m.way = "upload" /\ host.up = 0 /\ host.finishing = 0
            /\ tocli' = Append(tocli, b) /\ host' = k
  BY DEF HostStart, Asked, Tell
<1>2. CASE Denied
  BY <1>1, <1>2, DeniedKeeps
<1>3. id \in Nat /\ 0 \in 0..MaxVersions /\ shelf \in 0..MaxVersions
  BY HostFacts, JobNumbers
<1>4. /\ tocli \in Seq(FromServer) /\ Tail(tosrv) \in Seq(FromClient)
      /\ m \in FromClient
  BY <1>1, HostFacts, AskTyped
<1>5. CASE /\ m.way = "download" /\ host.down = 0
           /\ tocli' = Append(tocli, a) /\ host' = h
  <2>1. /\ a \in FromServer /\ a.type = "Accept" /\ a.id = host.ids + 1
        /\ a.ver = shelf
    BY <1>3, FramesTyped DEF Message
  <2>2. /\ h \in Hosts /\ h.ids = id /\ h.down = id /\ h.up = host.up
        /\ h.finishing = host.finishing /\ h.writing = host.writing
        /\ h.filed = host.filed
    <3>1. host \in Hosts /\ Chunks(shelf) \ m.have \in SUBSET Pieces
      <4>1. Size[shelf] \in 0..NumChunks
        BY HostFacts, CarryConstants
      <4> QED BY <4>1, HostFacts, JobNumbers DEF Chunks, Pieces
    <3> HIDE DEF m, id
    <3> QED BY ONLY <1>3, <3>1 DEF Hosts
  <2>3. tocli' \in Seq(FromServer)
    BY ONLY <1>4, <1>5, <2>1, AppendIs
  <2> HIDE DEF h, a
  <2>4. LinkInv(tocli', tosrv', owes, host', xfer, gaveUp)
    BY <1>1, <1>5, <2>1, <2>2, HostFacts, HostAccepts
  <2> QED BY <1>1, <1>4, <1>5, <2>2, <2>3, <2>4, HostKeeps
<1>6. CASE /\ m.way = "upload" /\ host.up = 0 /\ host.finishing = 0
           /\ tocli' = Append(tocli, b) /\ host' = k
  <2>1. /\ b \in FromServer /\ b.type = "Accept" /\ b.id = host.ids + 1
    BY <1>3, FramesTyped DEF Message
  <2>2. /\ k \in Hosts /\ k.ids = id /\ k.up = id /\ k.down = host.down
        /\ k.finishing = host.finishing /\ k.writing = host.writing
        /\ k.filed = host.filed
    <3>1. host \in Hosts
      BY HostFacts
    <3> HIDE DEF m, id
    <3> QED BY ONLY <1>3, <3>1 DEF Hosts
  <2>3. tocli' \in Seq(FromServer)
    BY ONLY <1>4, <1>6, <2>1, AppendIs
  <2> HIDE DEF k, b
  <2>4. LinkInv(tocli', tosrv', owes, host', xfer, gaveUp)
    BY <1>1, <1>6, <2>1, <2>2, HostFacts, HostAccepts
  <2> QED BY <1>1, <1>4, <1>6, <2>2, <2>3, <2>4, HostKeeps
<1> QED BY <1>1, <1>2, <1>5, <1>6

(* HostTakes needs the id written for to be a live one.                    *)
LEMMA TakenKeeps ==
  ASSUME CarryInv, NEW t \in {"Data", "End"}, Asked(t), UNCHANGED tocli,
         UNCHANGED <<clientSide, shelf>>, host' \in Hosts,
         host'.ids = host.ids, HostSane(host'),
         Live(host') \subseteq Live(host), host'.down \in {host.down, 0},
         {host'.up, host'.finishing}
           \subseteq {host.up, host.finishing, 0},
         host.filed \subseteq host'.filed,
         host'.writing = host.writing
  PROVE  CarryInv'
<1>1. /\ host.writing = 0 /\ tosrv # <<>> /\ Head(tosrv).type = t
      /\ tosrv' = Tail(tosrv)
  BY DEF Asked
<1>2. LinkInv(tocli, Tail(tosrv), owes, host', xfer, gaveUp)
  BY <1>1, HostFacts, HostTakes
<1> QED BY <1>1, <1>2, HostFacts, AskTyped, HostKeeps

(* A chunk: to be written, dropped, or refused.                             *)
LEMMA HostDataKeeps ==
  ASSUME CarryInv, HostData
  PROVE  CarryInv'
<1> DEFINE m == Head(tosrv)
           h == [host EXCEPT !.writing = m.n]
<1>1. Asked("Data") /\ UNCHANGED <<clientSide, shelf>>
  BY DEF HostData
<1>2. /\ host.writing = 0 /\ tosrv # <<>> /\ m.type = "Data"
      /\ tosrv' = Tail(tosrv)
  BY <1>1 DEF Asked
<1>3. /\ m.id # 0 /\ m.n \in Nat /\ Tail(tosrv) \in Seq(FromClient)
  BY <1>2, AskTyped DEF FromClient
<1>4. CASE m.id = host.up /\ host' = h /\ UNCHANGED tocli
  <2>1. /\ h \in Hosts /\ h.ids = host.ids /\ h.up = host.up
        /\ h.finishing = host.finishing /\ h.down = host.down
        /\ h.filed = host.filed
    BY <1>3, HostFacts DEF Hosts
  <2> HIDE DEF h
  <2>2. Live(h) = Live(host)
    BY <2>1 DEF Live
  <2>3. HostSane(h)
    BY <1>3, <1>4, <2>1, <2>2, HostFacts DEF HostSane
  <2>4. LinkInv(tocli, Tail(tosrv), owes, h, xfer, gaveUp)
    BY <1>2, <2>1, <2>2, <2>3, HostFacts, HostTakes
  <2> QED BY <1>1, <1>2, <1>3, <1>4, <2>1, <2>4, HostFacts, HostKeeps
<1>5. CASE UNCHANGED <<host, tocli>>
  <2>1. host' = host /\ tocli' = tocli /\ host \in Hosts /\ HostSane(host)
    BY <1>5, HostFacts
  <2> QED BY <1>1, <2>1, TakenKeeps
<1>6. CASE Denied
  BY <1>1, <1>6, DeniedKeeps
<1> QED BY <1>4, <1>5, <1>6 DEF HostData

(* An end from the client.                                                  *)
LEMMA HostEndKeeps ==
  ASSUME CarryInv, HostEnd
  PROVE  CarryInv'
<1> DEFINE u == [host EXCEPT !.up = 0, !.left = {}]
           d == [host EXCEPT !.down = 0, !.todo = {}]
<1>1. Asked("End") /\ UNCHANGED <<clientSide, shelf>> /\ host.writing = 0
  BY DEF HostEnd, Asked
<1>2. CASE host' = u /\ UNCHANGED tocli
  <2>1. /\ u \in Hosts /\ u.ids = host.ids /\ u.up = 0
        /\ u.finishing = host.finishing /\ u.down = host.down
        /\ u.filed = host.filed /\ u.writing = host.writing
    BY HostFacts DEF Hosts
  <2> HIDE DEF u
  <2>2. Live(u) \subseteq Live(host)
    BY <2>1 DEF Live
  <2>3. HostSane(u)
    BY <1>1, <2>1, <2>2, HostFacts DEF HostSane
  <2> QED BY <1>1, <1>2, <2>1, <2>2, <2>3, TakenKeeps
<1>3. CASE host' = d /\ UNCHANGED tocli
  <2>1. /\ d \in Hosts /\ d.ids = host.ids /\ d.up = host.up
        /\ d.finishing = host.finishing /\ d.down = 0
        /\ d.filed = host.filed /\ d.writing = host.writing
    BY HostFacts DEF Hosts
  <2> HIDE DEF d
  <2>2. Live(d) \subseteq Live(host)
    BY <2>1 DEF Live
  <2>3. HostSane(d)
    BY <1>1, <2>1, <2>2, HostFacts DEF HostSane
  <2> QED BY <1>1, <1>3, <2>1, <2>2, <2>3, TakenKeeps
<1>4. CASE UNCHANGED <<host, tocli>>
  <2>1. host' = host /\ tocli' = tocli /\ host \in Hosts /\ HostSane(host)
    BY <1>4, HostFacts
  <2> QED BY <1>1, <2>1, TakenKeeps
<1>5. CASE Denied
  BY <1>1, <1>5, DeniedKeeps
<1> QED BY <1>2, <1>3, <1>4, <1>5 DEF HostEnd

(* Of its own accord: the last of an id, with its end or without.          *)
LEMMA EndTold ==
  ASSUME CarryInv, NEW i \in Live(host), NEW n \in {0, 1},
         Tell(Message("End", i, n, 0)), UNCHANGED <<clientSide, tosrv, shelf>>,
         n = 1 => i = host.down \/ i \in host'.filed,
         host' \in Hosts, host'.ids = host.ids, HostSane(host'),
         Live(host') \subseteq Live(host) \ {i},
         host'.down \in {host.down, 0},
         {host'.up, host'.finishing}
           \subseteq {host.up, host.finishing, 0},
         host.filed \subseteq host'.filed,
         host'.writing \in {0, host.writing}
  PROVE  CarryInv'
<1> DEFINE a == Message("End", i, n, 0)
<1>1. i \in Nat /\ 0 \in 0..MaxVersions
  BY HostFacts, JobNumbers DEF Live
<1>2. a \in FromServer /\ a.type = "End" /\ a.id = i /\ a.n = n
  BY <1>1, FramesTyped DEF Message
<1>3. tocli' = Append(tocli, a) /\ tosrv' = tosrv
  BY DEF Tell
<1> HIDE DEF a
<1>4. LinkInv(tocli', tosrv, owes, host', xfer, gaveUp)
  BY <1>2, <1>3, HostFacts, HostEnds
<1>5. tocli' \in Seq(FromServer)
  <2>1. tocli \in Seq(FromServer)
    BY HostFacts
  <2> QED BY ONLY <1>2, <1>3, <2>1, AppendIs
<1> QED BY <1>3, <1>4, <1>5, HostFacts, HostKeeps

(* Of its own accord without an end: a chunk, a refusal, or nothing.        *)
LEMMA WentOnKeeps ==
  ASSUME CarryInv, UNCHANGED <<clientSide, tosrv, shelf>>,
         \/ UNCHANGED tocli
         \/ Tell([type |-> "Error"]) /\ host.writing # 0
         \/ \E n \in Pieces : Tell(Message("Data", host.down, n, host.ver)),
         host' \in Hosts, host'.ids = host.ids, HostSane(host'),
         Live(host') \subseteq Live(host),
         host'.down \in {host.down, 0},
         {host'.up, host'.finishing}
           \subseteq {host.up, host.finishing, 0},
         host.filed \subseteq host'.filed,
         host'.writing \in {0, host.writing}
  PROVE  CarryInv'
<1>1. tocli' \in Seq(FromServer)
        /\ LinkInv(tocli', tosrv, owes, host, xfer, gaveUp)
  <2>1. CASE UNCHANGED tocli
    BY <2>1, HostFacts
  <2>2. ASSUME NEW a \in FromServer, tocli' = Append(tocli, a),
               a.type = "Data" \/ (a.type = "Error" /\ host.writing # 0)
        PROVE  tocli' \in Seq(FromServer)
               /\ LinkInv(tocli', tosrv, owes, host, xfer, gaveUp)
    <3>1. LinkInv(tocli', tosrv, owes, host, xfer, gaveUp)
      BY <2>2, HostFacts, HostSays
    <3>2. tocli \in Seq(FromServer)
      BY HostFacts
    <3> QED BY ONLY <2>2, <3>1, <3>2, a \in FromServer, AppendIs
  <2>3. CASE Tell([type |-> "Error"]) /\ host.writing # 0
    <3>1. [type |-> "Error"] \in FromServer
      BY FramesTyped
    <3> QED BY <2>2, <2>3, <3>1 DEF Tell
  <2>4. CASE \E n \in Pieces : Tell(Message("Data", host.down, n, host.ver))
    <3>1. PICK n \in Pieces : Tell(Message("Data", host.down, n, host.ver))
      BY <2>4
    <3>2. PICK a : a = Message("Data", host.down, n, host.ver)
      OBVIOUS
    <3>3. a \in FromServer /\ a.type = "Data"
      BY <3>2, HostFacts, FramesTyped DEF Message
    <3> QED BY <2>2, <3>1, <3>2, <3>3 DEF Tell
  <2> QED BY <2>1, <2>3, <2>4
<1>2. LinkInv(tocli', tosrv, owes, host', xfer, gaveUp)
  BY <1>1, HostGoesOn
<1> QED BY <1>1, <1>2, HostFacts, HostKeeps

(* The ids of h2 are among those of h, with what was up now finishing.     *)
LEMMA FewerIds ==
  ASSUME NEW h, NEW h2, HostSane(h), h2.ids = h.ids,
         h2.down \in {h.down, 0}, h2.writing = 0,
         \/ h2.up \in {h.up, 0} /\ h2.finishing \in {h.finishing, 0}
         \/ h2.up = 0 /\ h2.finishing = h.up
  PROVE  HostSane(h2) /\ Live(h2) \subseteq Live(h)
<1>1. Live(h2) \subseteq Live(h)
  BY DEF Live
<1> QED BY <1>1 DEF HostSane

(* The write of a chunk is over.                                            *)
LEMMA ChunkWrittenKeeps ==
  ASSUME CarryInv, ChunkWritten
  PROVE  CarryInv'
<1> DEFINE rest == host.left \ {host.writing}
           done == [host EXCEPT !.writing = 0]
           more == [done EXCEPT !.left = rest]
           last == [done EXCEPT !.left = {}, !.up = 0, !.finishing = host.up]
           over == [done EXCEPT !.left = {}, !.up = 0, !.ended = host.up]
<1>1. /\ host.writing # 0 /\ UNCHANGED <<clientSide, tosrv, shelf>>
      /\ \/ UNCHANGED tocli /\ host' \in {more, last}
         \/ Tell([type |-> "Error"]) /\ host' = done
         \/ Tell(Message("End", host.up, 0, 0)) /\ host' = over
  BY DEF ChunkWritten
<1>2. /\ host \in Hosts /\ HostSane(host) /\ host.up # 0
      /\ host.finishing = 0
  BY <1>1, HostFacts DEF HostSane
<1>3. \A h \in {done, more, last, over} :
        /\ h \in Hosts /\ h.ids = host.ids /\ h.writing = 0
        /\ h.down = host.down /\ h.filed = host.filed
  <2>1. host.left \in SUBSET Pieces /\ rest \in SUBSET Pieces
        /\ host.up \in Nat /\ host.finishing \in Nat
    BY HostFacts
  <2> HIDE DEF rest
  <2>2. done \in Hosts /\ done.ids = host.ids /\ done.writing = 0
        /\ done.down = host.down /\ done.filed = host.filed
    BY ONLY <1>2 DEF Hosts
  <2>3. more \in Hosts /\ more.ids = host.ids /\ more.writing = 0
        /\ more.down = host.down /\ more.filed = host.filed
    BY ONLY <1>2, <2>1 DEF Hosts
  <2>4. last \in Hosts /\ last.ids = host.ids /\ last.writing = 0
        /\ last.down = host.down /\ last.filed = host.filed
    BY ONLY <1>2, <2>1 DEF Hosts
  <2>5. over \in Hosts /\ over.ids = host.ids /\ over.writing = 0
        /\ over.down = host.down /\ over.filed = host.filed
    BY ONLY <1>2, <2>1 DEF Hosts
  <2> QED BY <2>2, <2>3, <2>4, <2>5
<1>4. /\ \A h \in {done, more} :
           h.up = host.up /\ h.finishing = host.finishing
      /\ last.up = 0 /\ last.finishing = host.up
      /\ over.up = 0 /\ over.finishing = host.finishing
  BY <1>2 DEF Hosts
<1> HIDE DEF done, more, last, over
<1>5. CASE \/ UNCHANGED tocli /\ host' \in {more, last}
           \/ Tell([type |-> "Error"]) /\ host' = done
  <2>1. HostSane(host') /\ Live(host') \subseteq Live(host)
    BY <1>2, <1>3, <1>4, <1>5, FewerIds
  <2> QED BY <1>1, <1>3, <1>4, <1>5, <2>1, WentOnKeeps
<1>6. CASE Tell(Message("End", host.up, 0, 0)) /\ host' = over
  <2>1. HostSane(over) /\ Live(over) \subseteq Live(host)
    BY <1>2, <1>3, <1>4, FewerIds
  <2>2. host.up \notin Live(over) /\ host.up \in Live(host)
    BY <1>2, <1>3, <1>4 DEF Live, HostSane
  <2> QED BY <1>1, <1>3, <1>4, <1>6, <2>1, <2>2, EndTold
<1> QED BY <1>1, <1>5, <1>6

LEMMA UploadFinishedKeeps ==
  ASSUME CarryInv, UploadFinished
  PROVE  CarryInv'
<1>1. PICK ok \in {0, 1} :
        /\ Tell(Message("End", host.finishing, ok, 0))
        /\ host' = [host EXCEPT !.finishing = 0, !.ended = host.finishing,
                      !.filed = IF ok = 1 THEN @ \cup {host.finishing} ELSE @]
  BY DEF UploadFinished
<1>2. /\ host.finishing # 0 /\ UNCHANGED <<clientSide, tosrv, shelf>>
      /\ host \in Hosts /\ HostSane(host) /\ host.up = 0 /\ host.writing = 0
  BY HostFacts DEF UploadFinished, HostSane
<1>3. /\ host' \in Hosts /\ host'.ids = host.ids /\ host'.writing = 0
      /\ host'.down = host.down /\ host.filed \subseteq host'.filed
      /\ ok = 1 => host.finishing \in host'.filed
      /\ host'.up = 0 /\ host'.finishing = 0
  BY <1>1, <1>2, HostFacts DEF Hosts
<1>4. HostSane(host') /\ Live(host') \subseteq Live(host)
  BY <1>2, <1>3, FewerIds
<1>5. host.finishing \notin Live(host') /\ host.finishing \in Live(host)
  BY <1>2, <1>3 DEF Live, HostSane
<1> QED BY <1>1, <1>2, <1>3, <1>4, <1>5, EndTold

LEMMA PumpDownloadKeeps ==
  ASSUME CarryInv, PumpDownload
  PROVE  CarryInv'
<1> DEFINE n == CHOOSE i \in host.todo : \A k \in host.todo : i <= k
           sent == [host EXCEPT !.todo = @ \ {n}]
           done == [host EXCEPT !.down = 0]
           cut == [host EXCEPT !.down = 0, !.todo = {}]
<1>1. /\ host.down # 0 /\ UNCHANGED <<clientSide, tosrv, shelf>>
      /\ \/ /\ host.todo # {} /\ host' = sent
            /\ Tell(Message("Data", host.down, n, host.ver))
         \/ Tell(Message("End", host.down, 1, 0)) /\ host' = done
         \/ Tell(Message("End", host.down, 0, 0)) /\ host' = cut
  BY DEF PumpDownload
<1>2. host \in Hosts /\ HostSane(host)
  BY HostFacts
<1>3. \A h \in {sent, done, cut} :
        /\ h \in Hosts /\ h.ids = host.ids /\ h.writing = host.writing
        /\ h.up = host.up /\ h.finishing = host.finishing
        /\ h.filed = host.filed
  <2> HIDE DEF n
  <2>1. host.todo \ {n} \in SUBSET Pieces
    BY HostFacts
  <2>2. /\ sent \in Hosts /\ sent.ids = host.ids
        /\ sent.writing = host.writing /\ sent.up = host.up
        /\ sent.finishing = host.finishing /\ sent.filed = host.filed
    BY ONLY <1>2, <2>1 DEF Hosts
  <2>3. /\ done \in Hosts /\ done.ids = host.ids
        /\ done.writing = host.writing /\ done.up = host.up
        /\ done.finishing = host.finishing /\ done.filed = host.filed
    BY ONLY <1>2 DEF Hosts
  <2>4. /\ cut \in Hosts /\ cut.ids = host.ids
        /\ cut.writing = host.writing /\ cut.up = host.up
        /\ cut.finishing = host.finishing /\ cut.filed = host.filed
    BY ONLY <1>2 DEF Hosts
  <2> QED BY <2>2, <2>3, <2>4
<1>4. sent.down = host.down /\ done.down = 0 /\ cut.down = 0
  BY <1>2 DEF Hosts
<1>5. host.todo # {} => n \in Pieces
  <2>1. host.todo \in SUBSET Nat /\ host.todo \subseteq Pieces
    BY HostFacts DEF Pieces
  <2> QED BY <2>1, LeastOfNats
<1> HIDE DEF n, sent, done, cut
<1>6. \A h \in {sent, done, cut} : Live(h) \subseteq Live(host) /\ HostSane(h)
  BY <1>2, <1>3, <1>4 DEF Live, HostSane
<1>7. CASE /\ host.todo # {} /\ host' = sent
           /\ Tell(Message("Data", host.down, n, host.ver))
  BY <1>1, <1>3, <1>4, <1>5, <1>6, <1>7, WentOnKeeps
<1>8. ASSUME NEW k \in {0, 1}, NEW h \in {done, cut},
             Tell(Message("End", host.down, k, 0)), host' = h
      PROVE  CarryInv'
  <2>1. host.down \in Live(host) /\ host.down \notin Live(h)
    BY <1>1, <1>2, <1>3, <1>4 DEF Live, HostSane
  <2>2. Live(h) \subseteq Live(host) \ {host.down}
    BY <1>6, <2>1
  <2> QED BY <1>1, <1>3, <1>4, <1>6, <1>8, <2>1, <2>2, EndTold
<1> QED BY <1>1, <1>7, <1>8

(* The steps of the world outside.                                          *)
LEMMA RemoteChangesKeeps ==
  ASSUME CarryInv, RemoteChanges
  PROVE  CarryInv'
<1>1. /\ shelf' = shelf + 1 /\ shelf < MaxVersions
      /\ UNCHANGED <<asked, xfer, task, saving, owes, gaveUp, disk, upsets,
                     tosrv, tocli, host>>
  BY DEF RemoteChanges, clientSide
<1>2. shelf' \in 1..MaxVersions
  BY <1>1, HostFacts, JobNumbers
<1> QED BY <1>1, <1>2 DEF CarryInv, CarryTyped, EndsAreExpected

(* A new connection: what becomes of the files, and of the jobs.           *)
LEMMA FilesAfterPowerLoss ==
  ASSUME CarryInv, PowerLossAndBack
  PROVE  disk' \in Disks /\ Opened(disk', task')
<1>1. disk \in Disks /\ task' = {}
  BY CarryFacts DEF PowerLossAndBack
<1>2. CASE UNCHANGED disk
  BY <1>1, <1>2 DEF Opened
<1>3. CASE disk' = [disk EXCEPT !.files[disk.data] = [i \in DOMAIN @ |-> 0]]
  <2>1. disk.files \in Seq(Contents) /\ Len(disk.files) \in Nat
    BY ONLY <1>1, DiskIs
  <2>2. PICK w : w = [i \in DOMAIN disk.files[disk.data] |-> 0]
    OBVIOUS
  <2>3. disk.data \in DOMAIN disk.files => w \in Contents
    BY ONLY <2>1, <2>2, JobNumbers DEF Contents
  <2>4. PICK fs : /\ fs = [disk.files EXCEPT ![disk.data] = w]
                  /\ fs \in Seq(Contents) /\ Len(fs) = Len(disk.files)
    BY ONLY <2>1, <2>3, FileChanged
  <2>5. disk' = [disk EXCEPT !.files = fs]
    BY <1>3, <2>2, <2>4
  <2>6. disk' \in Disks
    <3>1. Len(disk.files) <= Len(fs)
      BY ONLY <2>1, <2>4
    <3> QED BY ONLY <1>1, <2>4, <2>5, <3>1, DiskRewritten
  <2> QED BY <1>1, <2>6 DEF Opened
<1> QED BY <1>2, <1>3 DEF PowerLossAndBack

LEMMA FilesAfterLinkLost ==
  ASSUME CarryInv, LinkLostAndBack
  PROVE  disk' \in Disks /\ Opened(disk', task')
<1>1. /\ disk \in Disks /\ Opened(disk, task) /\ xfer \in Xfers
      /\ task' \subseteq task
  BY CarryFacts DEF LinkLostAndBack, StillAtWork
<1>2. SidecarOf(xfer) \in Sidecars
  BY <1>1, FileTyped
<1>3. disk' = disk \/ disk' = [disk EXCEPT !.side = SidecarOf(xfer)]
  BY DEF LinkLostAndBack
<1>4. disk' \in Disks /\ disk'.files = disk.files
  BY ONLY <1>1, <1>2, <1>3, DiskNotes
<1> QED BY ONLY <1>1, <1>4 DEF Opened

LEMMA FreshLinkKeeps ==
  ASSUME CarryInv, LinkLostAndBack \/ PowerLossAndBack
  PROVE  CarryInv'
<1> DEFINE h == [host EXCEPT !.up = 0, !.left = {}, !.writing = 0,
                   !.down = 0, !.finishing = 0, !.ended = 0, !.todo = {}]
<1>1. /\ asked' = [c \in DOMAIN asked |->
                     IF asked[c] = "open" THEN "gone" ELSE asked[c]]
      /\ xfer' = Idle /\ saving' = NoSidecar
      /\ owes' = <<>> /\ gaveUp' = <<>> /\ tosrv' = <<>> /\ tocli' = <<>>
      /\ host' = h /\ shelf' = shelf /\ upsets' = upsets + 1
  BY DEF LinkLostAndBack, PowerLossAndBack, FreshLink, Upset
<1>2. asked' \in [DOMAIN Jobs -> Outcomes] /\ EndsAreExpected'
  BY <1>1, CarryFacts DEF Outcomes, EndsAreExpected
<1>3. h \in Hosts /\ h.ids \in Nat /\ h.up = 0 /\ h.finishing = 0
      /\ h.down = 0 /\ h.writing = 0
  BY HostFacts DEF Hosts
<1> HIDE DEF h
<1>4. LinkInv(tocli', tosrv', owes', host', xfer', gaveUp')
  BY <1>1, <1>3, IdleIs, NewLink
<1>5. disk' \in Disks /\ Opened(disk', task')
  BY FilesAfterPowerLoss, FilesAfterLinkLost
<1>6. /\ task' \subseteq task /\ task' \subseteq PoolJobs
      /\ \A j \in task' : j.kind # "prepare"
  BY CarryFacts DEF LinkLostAndBack, PowerLossAndBack, StillAtWork
<1>7. CarryTyped'
  <2>1. upsets' \in Nat
    BY <1>1, CarryFacts
  <2>2. owes' \in Seq(Debts) /\ gaveUp' \in Seq(Nat)
        /\ tosrv' \in Seq(FromClient) /\ tocli' \in Seq(FromServer)
    BY <1>1
  <2> QED BY <1>1, <1>2, <1>3, <1>5, <1>6, <2>1, <2>2, HostFacts, FileTyped,
             IdleTyped DEF CarryTyped
<1>8. \A j \in task' : JobFits(j, asked', Idle)
  <2>1. \A j \in task : /\ j.gen \in 1..Len(Jobs) /\ j.gen # 0
                        /\ asked[j.gen] # "idle"
                        /\ j.kind # "prepare" => j.ver # 0
    <3>1. \A j \in task : j.gen \in 1..Len(Jobs)
      BY CarryFacts, JobNumbers DEF PoolJobs
    <3> QED BY <3>1, CarryFacts, JobNumbers DEF DeskInv, JobFits
  <2>2. \A c \in 1..Len(Jobs) : asked[c] # "idle" => asked'[c] # "idle"
    BY <1>1, CarryFacts
  <2> QED BY ONLY <1>6, <2>1, <2>2, IdleIs DEF JobFits
<1>9. DeskInv(asked', owes', xfer', task')
  <2>1. \A i, j \in task' : i.gen = j.gen => i = j
    BY <1>6, CarryFacts DEF DeskInv
  <2> QED BY <1>1, <1>8, <2>1, IdleIs DEF DeskInv, OwedAsked
<1> QED BY <1>2, <1>4, <1>7, <1>9 DEF CarryInv

(* The invariant holds at first, and no step breaks it.                     *)
LEMMA CarryStarts ==
  ASSUME CarryInit
  PROVE  CarryInv
<1>1. /\ asked = [c \in DOMAIN Jobs |-> "idle"]
      /\ xfer = Idle /\ task = {} /\ saving = NoSidecar
      /\ owes = <<>> /\ gaveUp = <<>> /\ tosrv = <<>> /\ tocli = <<>>
      /\ shelf = 1 /\ upsets = 0
      /\ disk = [files |-> <<>>, data |-> 0, dest |-> 0,
                  side |-> NoSidecar]
  BY DEF CarryInit
<1>2. /\ host \in Hosts /\ host.ids \in Nat /\ host.up = 0
      /\ host.finishing = 0 /\ host.down = 0 /\ host.writing = 0
  BY JobNumbers DEF CarryInit, Hosts
<1>3. LinkInv(tocli, tosrv, owes, host, xfer, gaveUp)
  BY <1>1, <1>2, IdleIs, NewLink
<1>4. asked \in [DOMAIN Jobs -> Outcomes] /\ EndsAreExpected
  BY <1>1 DEF Outcomes, EndsAreExpected
<1>5. CarryTyped
  <2>1. owes \in Seq(Debts) /\ gaveUp \in Seq(Nat)
        /\ tosrv \in Seq(FromClient) /\ tocli \in Seq(FromServer)
    BY <1>1
  <2>2. shelf \in 1..MaxVersions
    BY <1>1, JobNumbers
  <2>3. disk \in Disks /\ Opened(disk, task)
    BY <1>1, FileTyped DEF Disks, DiskRecords, Opened
  <2> QED BY <1>1, <1>2, <1>4, <2>1, <2>2, <2>3, FileTyped, IdleTyped
          DEF CarryTyped
<1>6. DeskInv(asked, owes, xfer, task)
  BY <1>1, IdleIs DEF DeskInv, OwedAsked
<1> QED BY <1>3, <1>4, <1>5, <1>6 DEF CarryInv

LEMMA CarryStutters ==
  ASSUME CarryInv, UNCHANGED carryVars
  PROVE  CarryInv'
  BY DEF carryVars, CarryInv, CarryTyped, EndsAreExpected

LEMMA CarryStep ==
  ASSUME CarryInv, [Remembers]_carryVars, ~OpenMayFail,
         [CarryNext]_carryVars
  PROVE  CarryInv'
<1>1. CASE UNCHANGED carryVars
  BY <1>1, CarryStutters
<1> SUFFICES ASSUME CarryNext, Remembers
             PROVE  CarryInv'
  BY <1>1
<1>2. ASSUME NEW c \in DOMAIN Jobs,
             Busy(c) \/ StartUpload(c) \/ StartDownload(c)
      PROVE  CarryInv'
  BY <1>2, BusyKeeps, StartUploadKeeps, StartDownloadKeeps
<1>3. CASE Cancel \/ AcceptDeadline
  BY <1>3, CancelKeeps
<1>4. CASE ClientWork
  BY <1>4, PreparedKeeps, VerifiedKeeps, PublishedKeeps, SidecarLandsKeeps,
     OnAcceptKeeps, OnDataKeeps, OnEndKeeps, OnPongKeeps, OnErrorKeeps,
     SendChunkKeeps DEF ClientWork
<1>5. CASE HostWork
  BY <1>5, HostPingKeeps, HostStartKeeps, HostDataKeeps, HostEndKeeps,
     ChunkWrittenKeeps, UploadFinishedKeeps, PumpDownloadKeeps DEF HostWork
<1>6. CASE RemoteChanges
  BY <1>6, RemoteChangesKeeps
<1>7. CASE LinkLostAndBack \/ PowerLossAndBack
  BY <1>7, FreshLinkKeeps
<1>8. CASE PoolWork
  BY <1>8, PoolWorkKeeps
<1> QED BY <1>2, <1>3, <1>4, <1>5, <1>6, <1>7, <1>8 DEF CarryNext

(* Late accepts, chunks, ends and barriers of a transfer that was given up  *)
(* never hit the next one (LateIsHarmless: on_transfer_accept,              *)
(* on_transfer_end, on_pong and on_error of actor.rs), as long as opening a *)
(* partial does not fail and no id given up is dropped from the full list   *)
(* (MAX_ABANDONED) before it is over: see Remembers.                        *)
THEOREM LateTransfersHarmless ==
  ASSUME ~OpenMayFail
  PROVE  CarrySpec /\ [][Remembers]_carryVars => []LateIsHarmless
<1>1. CarryInit => CarryInv
  BY CarryStarts
<1>2. CarryInv /\ [Remembers]_carryVars /\ [CarryNext]_carryVars => CarryInv'
  BY CarryStep
<1>3. CarryInv => LateIsHarmless
  <2> SUFFICES ASSUME CarryInv
               PROVE  LateIsHarmless
    OBVIOUS
  <2>1. /\ LinkTyped(tocli, tosrv, owes, host, xfer, gaveUp)
        /\ LinkInv(tocli, tosrv, owes, host, xfer, gaveUp)
        /\ EndsAreExpected /\ owes \in Seq(Debts)
    BY CarryFacts
  <2>2. owes # <<>> => Next1 = owes[1].is
                       /\ owes[1].is \in {"plain", "chunk", "start"}
    <3> SUFFICES ASSUME owes # <<>>
                 PROVE  /\ Next1 = owes[1].is
                        /\ owes[1].is \in {"plain", "chunk", "start"}
      OBVIOUS
    <3>1. Head(owes) = owes[1] /\ Head(owes) \in Debts
      BY ONLY <2>1, owes # <<>>, TailIs
    <3> QED BY <3>1 DEF Next1, Debts
  <2>3. ASSUME tocli # <<>>, Head(tocli).type = "Accept"
        PROVE  Next1 = "start"
    BY <2>1, <2>2, <2>3, AcceptHeard
  <2>4. ASSUME tocli # <<>>, Head(tocli).type = "Pong"
        PROVE  Next1 \in {"plain", "chunk"}
    BY <2>1, <2>2, <2>4, OtherHeard
  <2>5. ASSUME tocli # <<>>, Head(tocli).type = "Error"
        PROVE  Next1 # "nothing"
    BY <2>1, <2>2, <2>5, OtherHeard
  <2> QED BY <2>1, <2>3, <2>4, <2>5 DEF LateIsHarmless
<1> QED BY <1>1, <1>2, <1>3, PTL DEF CarrySpec

---------------------------------------------------------------------------
(* Reports of success.  A download whose check began while no other job    *)
(* was at work stays the only one until its end is reported, so nothing    *)
(* but its own job touches the files: what it has read, and written, is    *)
(* known at each of its steps.                                             *)
Holds(d, f, j) == f \in 1..Len(d.files) /\ d.files[f] = WholeFile(j.ver)

(* The check of the partial.                                               *)
CheckAt(j, d) ==
  /\ j.at \in {"queued", "trim"} => j.n = 0 /\ j.good
  /\ j.at \in {"trim", "read"} => j.src = d.data /\ j.src # 0
  /\ j.at = "read" =>
       /\ Len(d.files[j.src]) = Size[j.ver] /\ j.n <= Size[j.ver]
       /\ j.good => \A i \in 1..j.n : d.files[j.src][i] = j.ver
  /\ j.at = "right" => Holds(d, d.data, j)
  /\ j.at \notin {"source", "temp", "place", "named"}

(* Its publication.                                                        *)
PublishAt(j, d) ==
  /\ j.at \in {"queued", "source"} => j.n = 0 /\ j.good
  /\ j.at = "queued" => Holds(d, d.data, j)
  /\ j.at \in {"source", "temp", "place"} =>
       j.src = d.data /\ Holds(d, j.src, j)
  /\ j.at \in {"temp", "place"} =>
       /\ j.out \in 1..Len(d.files) /\ j.out # j.src /\ j.good
       /\ j.n <= Size[j.ver]
       /\ d.files[j.out] = [i \in 1..j.n |-> j.ver]
  /\ j.at = "place" => d.dest = j.out
  /\ j.at \in {"named", "right"} => Holds(d, d.dest, j)
  /\ j.at \notin {"trim", "read"}

LoneAt(j, d) == IF j.kind = "verify" THEN CheckAt(j, d) ELSE PublishAt(j, d)
Lone ==
  \A j \in task : j.gen = xfer.gen /\ j.kind # "prepare" /\ j.alone =>
                    task = {j} /\ LoneAt(j, disk)

(* The partial is neither the destination nor what a job writes to.        *)
Apart == disk.data # 0 => /\ disk.data # disk.dest
                          /\ \A j \in task : j.out # disk.data

(* No job is the active transfer's before its check begins.                *)
LEMMA NoneAtWork ==
  ASSUME CarryInv, xfer.stage # "verifying", NEW j \in task,
         j.kind # "prepare"
  PROVE  j.gen # xfer.gen
<1>1. JobFits(j, asked, xfer)
  BY CarryFacts DEF DeskInv
<1> QED BY <1>1 DEF JobFits

(* What an action does to the files while no job does anything: nothing,   *)
(* or the transfer is over, or its check has not begun.                    *)
Aside ==
  /\ task' \subseteq task
  /\ disk'.dest = disk.dest /\ disk'.data \in {disk.data, 0}
  /\ \/ xfer'.gen = 0
     \/ xfer'.gen = xfer.gen /\ xfer.stage # "verifying"
     \/ /\ xfer'.gen = xfer.gen
        /\ disk'.files = disk.files /\ disk'.data = disk.data

LEMMA AsideKeeps ==
  ASSUME CarryInv, Lone, Apart, Aside
  PROVE  Lone' /\ Apart'
<1>1. Apart'
  BY DEF Apart, Aside
<1>2. ASSUME NEW j \in task', j.gen = xfer'.gen, j.kind # "prepare", j.alone
      PROVE  task' = {j} /\ LoneAt(j, disk')
  <2>1. j \in task /\ j.gen # 0
    BY <1>2, CarryFacts, JobNumbers DEF Aside, PoolJobs
  <2>2. CASE xfer'.gen = xfer.gen /\ xfer.stage # "verifying"
    BY <1>2, <2>1, <2>2, NoneAtWork
  <2>3. CASE /\ xfer'.gen = xfer.gen
             /\ disk'.files = disk.files /\ disk'.data = disk.data
    <3>1. task = {j} /\ LoneAt(j, disk) /\ disk'.dest = disk.dest
      BY <1>2, <2>1, <2>3 DEF Lone, Aside
    <3>2. LoneAt(j, disk')
      BY ONLY <2>3, <3>1 DEF LoneAt, CheckAt, PublishAt, Holds
    <3> QED BY <1>2, <3>1, <3>2 DEF Aside
  <2> QED BY <1>2, <2>1, <2>2, <2>3 DEF Aside
<1>3. Lone'
  BY <1>2 DEF Lone
<1> QED BY <1>1, <1>3

(* A transfer that fails is over.                                          *)
LEMMA FailsAside ==
  ASSUME CarryInv, NEW x, NEW why, NEW cleanup, NEW ow,
         FailTransfer(x, why, cleanup, ow)
  PROVE  Aside
<1>1. disk \in DiskRecords
  BY CarryFacts, DiskIs
<1>2. disk' \in {disk, [disk EXCEPT !.side = SidecarOf(x)],
                 [disk EXCEPT !.side = NoSidecar, !.data = 0]}
  BY DEF FailTransfer
<1>3. disk'.dest = disk.dest /\ disk'.data \in {disk.data, 0}
  BY ONLY <1>1, <1>2 DEF DiskRecords
<1>4. xfer'.gen = 0 /\ task' \subseteq task
  BY IdleIs DEF FailTransfer, StillAtWork
<1> QED BY <1>3, <1>4 DEF Aside

LEMMA FailedAside ==
  ASSUME CarryInv, NEW why, NEW cleanup, NEW ow,
         Fails(xfer, why, cleanup, ow)
  PROVE  Aside
  BY FailsAside DEF Fails

LEMMA StillAside ==
  ASSUME UNCHANGED <<task, disk>>, xfer'.gen = xfer.gen
  PROVE  Aside
  BY DEF Aside

(* A new transfer: no job is its own yet, but its preparation.             *)
LEMMA StartsLone ==
  ASSUME CarryInv, Lone, Apart, NEW c \in DOMAIN Jobs,
         StartUpload(c) \/ StartDownload(c)
  PROVE  Lone' /\ Apart'
<1>1. /\ asked[c] = "idle" /\ xfer'.gen = c /\ UNCHANGED disk
      /\ task' \subseteq task \cup {Job("prepare", c, 0, FALSE)}
  BY CarryFacts DEF StartUpload, StartDownload, Asks, Xfers, Idle
<1>2. \A j \in task : j.gen # c
  BY <1>1, CarryFacts DEF DeskInv, JobFits
<1>3. Lone'
  BY <1>1, <1>2 DEF Lone, Job
<1>4. Apart'
  BY <1>1 DEF Apart, Job
<1> QED BY <1>3, <1>4

(* The first accept opens the partial, perhaps a new file.                 *)
LEMMA OpensLone ==
  ASSUME CarryInv, Lone, Apart, NEW id, NEW ver, DownloadOpens(id, ver),
         xfer.stage = "awaiting"
  PROVE  Lone' /\ Apart'
<1>1. xfer \in Xfers /\ disk \in DiskRecords /\ Len(disk.files) \in Nat
      /\ disk.dest \in Nat /\ disk.dest <= Len(disk.files)
      /\ task \subseteq PoolJobs /\ Opened(disk, task)
  BY CarryFacts, DiskIs
<1>2. CASE xfer.accepted
  <2>1. \/ \E x : FailTransfer(x, "changed", "discard", Tail(owes))
        \/ /\ UNCHANGED <<task, disk>>
           /\ xfer' = [xfer EXCEPT !.id = id, !.stage = "running"]
    BY <1>2 DEF DownloadOpens
  <2>2. ([xfer EXCEPT !.id = id, !.stage = "running"]).gen = xfer.gen
    BY <1>1 DEF Xfers
  <2>3. Aside
    BY <2>1, <2>2, FailsAside, StillAside
  <2> QED BY <2>3, AsideKeeps
<1>3. CASE ~xfer.accepted
  <2> DEFINE f == IF disk.data = 0 THEN Len(disk.files) + 1 ELSE disk.data
  <2>1. /\ xfer'.gen = xfer.gen /\ UNCHANGED task
        /\ \E fs : disk' = [disk EXCEPT !.data = f, !.files = fs]
    BY <1>1, <1>3 DEF DownloadOpens, Xfers
  <2>2. disk'.data = f /\ disk'.dest = disk.dest
    BY ONLY <1>1, <2>1 DEF DiskRecords
  <2>3. \A j \in task : j.out \in Nat /\ j.out <= Len(disk.files)
    BY ONLY <1>1 DEF Opened, Held
  <2>4. CASE disk.data = 0
    <3>1. disk'.data # disk'.dest /\ \A j \in task : j.out # disk'.data
      BY ONLY <1>1, <2>2, <2>3, <2>4
    <3> QED BY <2>1, <3>1, NoneAtWork DEF Lone, Apart
  <2>5. CASE disk.data # 0
    BY <2>1, <2>2, <2>5, NoneAtWork DEF Lone, Apart
  <2> QED BY <2>4, <2>5
<1> QED BY <1>2, <1>3

(* The check begins: the new job may be alone.                             *)
LEMMA EndsLone ==
  ASSUME CarryInv, Lone, Apart, NEW ok, DownloadEnded(ok),
         xfer.stage = "running"
  PROVE  Lone' /\ Apart'
<1> DEFINE v == Job("verify", xfer.gen, xfer.ver, task = {})
<1>1. xfer \in Xfers
  BY CarryFacts
<1>2. \/ \E x, c : FailTransfer(x, "failed", c, owes)
      \/ xfer'.gen = xfer.gen /\ UNCHANGED <<task, disk>>
      \/ /\ xfer'.gen = xfer.gen /\ UNCHANGED disk
         /\ task' = task \cup {v}
  BY <1>1 DEF DownloadEnded, Xfers
<1>3. CASE \E x, c : FailTransfer(x, "failed", c, owes)
  BY <1>3, FailsAside, AsideKeeps
<1>4. CASE xfer'.gen = xfer.gen /\ UNCHANGED <<task, disk>>
  BY <1>4, StillAside, AsideKeeps
<1>5. CASE /\ xfer'.gen = xfer.gen /\ UNCHANGED disk
           /\ task' = task \cup {v}
  <2>1. /\ v.kind = "verify" /\ v.at = "queued" /\ v.n = 0 /\ v.good
        /\ v.out = 0 /\ (v.alone => task = {})
    BY DEF Job
  <2> HIDE DEF v
  <2>2. LoneAt(v, disk)
    BY ONLY <2>1 DEF LoneAt, CheckAt
  <2>3. Lone'
    BY <1>5, <2>1, <2>2, NoneAtWork DEF Lone
  <2>4. Apart'
    BY <1>5, <2>1 DEF Apart
  <2> QED BY <2>3, <2>4
<1> QED BY <1>2, <1>3, <1>4, <1>5

(* The check was right: what it read is published.                         *)
LEMMA VerifiedLone ==
  ASSUME CarryInv, Lone, Apart, Verified
  PROVE  Lone' /\ Apart'
<1>1. PICK j \in task :
        /\ Done(j, "verify")
        /\ \/ /\ j.at = "right"
              /\ task' = (task \ {j})
                           \cup {Job("publish", j.gen, j.ver, j.alone)}
              /\ disk' = [disk EXCEPT !.side = IF saving = NoSidecar THEN @
                                               ELSE saving]
              /\ UNCHANGED xfer
           \/ VerifyFails(j)
  BY DEF Verified
<1>2. CASE VerifyFails(j)
  BY <1>2, FailedAside, AsideKeeps DEF VerifyFails
<1> DEFINE p == Job("publish", j.gen, j.ver, j.alone)
<1>3. CASE /\ j.at = "right" /\ task' = (task \ {j}) \cup {p}
           /\ disk' = [disk EXCEPT !.side = IF saving = NoSidecar THEN @
                                            ELSE saving]
           /\ UNCHANGED xfer
  <2>1. disk \in DiskRecords
    BY CarryFacts, DiskIs
  <2>2. /\ disk'.files = disk.files /\ disk'.data = disk.data
        /\ disk'.dest = disk.dest
    BY ONLY <1>3, <2>1 DEF DiskRecords
  <2>3. /\ p.kind = "publish" /\ p.at = "queued" /\ p.n = 0 /\ p.good
        /\ p.out = 0 /\ p.gen = j.gen /\ p.ver = j.ver /\ p.alone = j.alone
    BY DEF Job
  <2> HIDE DEF p
  <2>4. j.gen = xfer.gen /\ j.kind = "verify"
    BY <1>1 DEF Done, Current
  <2>5. Apart'
    BY <1>3, <2>2, <2>3 DEF Apart
  <2>6. ASSUME j.alone
        PROVE  task' = {p} /\ LoneAt(p, disk')
    <3>1. task = {j} /\ LoneAt(j, disk)
      BY <2>4, <2>6 DEF Lone
    <3>2. Holds(disk, disk.data, j)
      BY ONLY <1>3, <2>4, <3>1 DEF LoneAt, CheckAt
    <3>3. LoneAt(p, disk')
      BY ONLY <2>2, <2>3, <3>2 DEF LoneAt, PublishAt, Holds
    <3> QED BY <1>3, <3>1, <3>3
  <2>7. \A i \in task : i.gen = j.gen => i = j
    BY CarryFacts DEF DeskInv
  <2>8. Lone'
    BY <1>3, <2>3, <2>4, <2>6, <2>7 DEF Lone
  <2> QED BY <2>5, <2>8
<1> QED BY <1>1, <1>2, <1>3

LEMMA PublishedAside ==
  ASSUME CarryInv, Published
  PROVE  Aside
<1>1. disk \in DiskRecords
  BY CarryFacts, DiskIs
<1>2. PICK j \in task :
        \/ /\ task' = task \ {j} /\ xfer' = Idle
           /\ disk' = [disk EXCEPT !.side = NoSidecar]
        \/ VerifyFails(j)
  BY DEF Published
<1>3. CASE VerifyFails(j)
  BY <1>3, FailedAside DEF VerifyFails
<1>4. CASE /\ task' = task \ {j} /\ xfer' = Idle
           /\ disk' = [disk EXCEPT !.side = NoSidecar]
  <2>1. disk'.dest = disk.dest /\ disk'.data = disk.data
    BY ONLY <1>1, <1>4 DEF DiskRecords
  <2> QED BY <1>4, <2>1, IdleIs DEF Aside
<1> QED BY <1>2, <1>3, <1>4

(* A step of a job that is alone is the only thing that happens; it need   *)
(* only leave what is known of the job true.                               *)
LEMMA JobLone ==
  ASSUME CarryInv, Lone, Apart, NEW j \in task, NEW k, NEW d,
         JobGoes(j, k, d),
         k.kind = j.kind, k.gen = j.gen, k.alone = j.alone,
         j.kind # "prepare" /\ LoneAt(j, disk) => LoneAt(k, d),
         d.data # 0 =>
           d.data = disk.data /\ d.data # d.dest /\ k.out # d.data
  PROVE  Lone' /\ Apart'
<1>1. task' \subseteq (task \ {j}) \cup {k} /\ disk' = d /\ UNCHANGED xfer
  BY DEF JobGoes
<1>2. Apart'
  BY <1>1 DEF Apart
<1>3. ASSUME NEW i \in task', i.gen = xfer.gen, i.kind # "prepare", i.alone
      PROVE  task' = {i} /\ LoneAt(i, d)
  <2>1. CASE i \in task \ {j}
    BY <1>3, <2>1 DEF Lone
  <2>2. CASE i = k
    BY <1>1, <1>3, <2>2 DEF Lone
  <2> QED BY <1>1, <2>1, <2>2
<1>4. Lone'
  BY <1>1, <1>3 DEF Lone
<1> QED BY <1>2, <1>4

LEMMA CutLen ==
  ASSUME NEW f, NEW n \in Nat
  PROVE  Len(Cut(f, n)) = n
  BY DEF Cut

(* Files that are whole have the size of their version.                    *)
LEMMA RightChunks ==
  ASSUME NEW f \in Contents, NEW v \in 1..MaxVersions
  PROVE  /\ f = WholeFile(v) => /\ Len(f) = Size[v]
                                /\ \A i \in 1..Size[v] : f[i] = v
         /\ Len(f) = Size[v] /\ (\A i \in 1..Size[v] : f[i] = v)
              => f = WholeFile(v)
<1>1. Size[v] \in Nat
  BY CarryConstants
<1>2. Len(f) \in Nat /\ f \in [1..Len(f) -> 0..MaxVersions]
  BY SeqIs DEF Contents
<1>4. ASSUME f = WholeFile(v)
      PROVE  Len(f) = Size[v] /\ \A i \in 1..Size[v] : f[i] = v
  BY <1>1, <1>4 DEF WholeFile, Chunks
<1>5. ASSUME Len(f) = Size[v], \A i \in 1..Size[v] : f[i] = v
      PROVE  f = WholeFile(v)
  BY ONLY <1>2, <1>5 DEF WholeFile, Chunks
<1> QED BY <1>4, <1>5

(* A right chunk is written after n right ones.                            *)
LEMMA ChunkAfter ==
  ASSUME NEW f, NEW n \in Nat, NEW m, m = n + 1, NEW v,
         f = [i \in 1..n |-> v]
  PROVE  Written(f, m, v) = [i \in 1..m |-> v]
<1>1. Len(f) = n
  OBVIOUS
<1>2. (IF m > Len(f) THEN m ELSE Len(f)) = m
  BY ONLY <1>1, n \in Nat, m = n + 1
<1>3. Written(f, m, v) = [Cut(f, m) EXCEPT ![m] = v]
  BY ONLY <1>2 DEF Written
<1>4. Cut(f, m) = [i \in 1..m |-> IF i <= n THEN f[i] ELSE 0]
  BY ONLY <1>1 DEF Cut
<1>5. \A i \in 1..m : i = m \/ (i <= n /\ f[i] = v)
  BY ONLY n \in Nat, m = n + 1, f = [i \in 1..n |-> v]
<1>6. m \in Nat /\ m \in 1..m
  BY ONLY n \in Nat, m = n + 1
<1>7. [[i \in 1..m |-> IF i <= n THEN f[i] ELSE 0] EXCEPT ![m] = v]
        = [i \in 1..m |-> v]
  BY ONLY <1>5, <1>6
<1> QED BY ONLY <1>3, <1>4, <1>7

(* One step of a job.                                                      *)
LEMMA PoolLone ==
  ASSUME CarryInv, Lone, Apart, PoolWork
  PROVE  Lone' /\ Apart'
<1>1. PICK j \in task :
        \/ VerifyOpens(j) \/ Trims(j) \/ Renames(j) \/ OpensSource(j)
        \/ OpensTarget(j) \/ ReadsChunk(j) \/ ReadsAll(j)
        \/ RemovesPartial(j) \/ TooShort(j) \/ Breaks(j)
  BY DEF PoolWork
<1> DEFINE S == Size[j.ver]
           fs == disk.files
<1>2. /\ j \in PoolJobs /\ disk \in DiskRecords /\ fs \in Seq(Contents)
      /\ Len(fs) \in Nat /\ disk.data \in 0..Len(fs)
      /\ disk.dest \in 0..Len(fs) /\ j.n \in Nat
      /\ j.at \in AtWork => j.src \in 1..Len(fs)
      /\ j.at # "queued" => j.kind # "prepare"
      /\ j.kind # "prepare" => j.ver \in 1..MaxVersions /\ S \in Nat
  BY JobFacts, JobNumbers, DiskIs DEF PoolJobs
<1>3. disk.data # 0 => disk.data # disk.dest /\ j.out # disk.data
  BY DEF Apart
<1>4. j.kind \in {"verify", "publish", "prepare"}
  BY <1>2 DEF PoolJobs
\* A job that only goes on to another station, on files left alone.
<1>5. ASSUME NEW at \in Stations, NEW d, JobGoes(j, [j EXCEPT !.at = at], d),
             j.kind # "prepare" /\ LoneAt(j, disk)
               => LoneAt([j EXCEPT !.at = at], d),
             d \in {disk, [disk EXCEPT !.dest = 0],
                    [disk EXCEPT !.dest = j.out],
                    [disk EXCEPT !.data = 0],
                    [disk EXCEPT !.dest = disk.data, !.data = 0]}
      PROVE  Lone' /\ Apart'
  <2> DEFINE k == [j EXCEPT !.at = at]
  <2>1. /\ k.kind = j.kind /\ k.gen = j.gen /\ k.alone = j.alone
        /\ k.out = j.out
    BY ONLY <1>2 DEF PoolJobs
  <2>2. JobGoes(j, k, d)
        /\ (j.kind # "prepare" /\ LoneAt(j, disk) => LoneAt(k, d))
    BY <1>5
  <2> HIDE DEF k
  <2>3. d.data # 0 =>
          d.data = disk.data /\ (d.dest = disk.dest \/ d.dest = 0
                                   \/ d.dest = j.out)
    <3>1. CASE d = [disk EXCEPT !.dest = disk.data, !.data = 0]
      BY ONLY <1>2, <3>1 DEF DiskRecords
    <3>2. CASE d = [disk EXCEPT !.data = 0]
      BY ONLY <1>2, <3>2 DEF DiskRecords
    <3>3. CASE d = disk \/ d = [disk EXCEPT !.dest = 0]
                 \/ d = [disk EXCEPT !.dest = j.out]
      BY ONLY <1>2, <3>3 DEF DiskRecords
    <3> QED BY <1>5, <3>1, <3>2, <3>3
  <2>4. d.data # 0 => d.data # d.dest /\ k.out # d.data
    BY ONLY <1>3, <2>1, <2>3
  <2> QED BY <2>1, <2>2, <2>3, <2>4, JobLone
\* What is wrong, or breaks, promises nothing.
<1>6. ASSUME NEW at \in {"wrong", "error"}, NEW d
      PROVE  j.kind # "prepare" => LoneAt([j EXCEPT !.at = at], d)
  <2>1. PICK k : k = [j EXCEPT !.at = at] /\ k.at = at
    <3>1. [j EXCEPT !.at = at].at = at
      BY ONLY <1>2 DEF PoolJobs
    <3> QED BY ONLY <3>1
  <2>2. LoneAt(k, d)
    BY ONLY <2>1, at \in {"wrong", "error"} DEF LoneAt, CheckAt, PublishAt
  <2> QED BY ONLY <2>1, <2>2
<1>l. LeftBehind(j) \in {disk, [disk EXCEPT !.dest = 0]}
  BY DEF LeftBehind
<1>a. CASE VerifyOpens(j)
  <2>1. PICK at \in {"wrong", "read", "trim"} :
          /\ JobGoes(j, [j EXCEPT !.src = disk.data, !.at = at], disk)
          /\ j.kind = "verify" /\ disk.data # 0 /\ j.at = "queued"
          /\ at = "read" => Len(fs[disk.data]) = S
    <3> DEFINE len == Len(fs[disk.data])
    <3>1. /\ JobGoes(j, [j EXCEPT !.src = disk.data,
                           !.at = CASE len < S -> "wrong"
                                    [] len = S -> "read"
                                    [] len > S -> "trim"], disk)
          /\ j.kind = "verify" /\ disk.data # 0 /\ j.at = "queued"
      BY <1>a DEF VerifyOpens
    <3>2. len \in Nat
      BY <1>2, <3>1 DEF Contents
    <3>3. S \in Nat /\ (len < S \/ len = S \/ len > S)
      BY <1>2, <3>1, <3>2
    <3> HIDE DEF len, S
    <3>4. CASE len < S
      <4>1. /\ JobGoes(j, [j EXCEPT !.src = disk.data, !.at = "wrong"], disk)
            /\ j.kind = "verify" /\ disk.data # 0 /\ j.at = "queued"
        <5>1. ~(len = S) /\ ~(len > S)
          BY ONLY <3>2, <3>3, <3>4
        <5>2. (CASE len < S -> "wrong" [] len = S -> "read"
                 [] len > S -> "trim") = "wrong"
          BY ONLY <3>4, <5>1
        <5> QED BY ONLY <3>1, <5>2
      <4> QED BY ONLY <4>1
    <3>5. CASE len = S
      BY ONLY <3>1, <3>2, <3>3, <3>5 DEF len
    <3>6. CASE len > S
      BY ONLY <3>1, <3>2, <3>3, <3>6
    <3> QED BY ONLY <3>3, <3>4, <3>5, <3>6
  <2> DEFINE k == [j EXCEPT !.src = disk.data, !.at = at]
  <2>2. /\ k.kind = j.kind /\ k.gen = j.gen /\ k.alone = j.alone
        /\ k.ver = j.ver /\ k.n = j.n /\ k.good = j.good /\ k.out = j.out
        /\ k.src = disk.data /\ k.at = at
    BY ONLY <1>2 DEF PoolJobs
  <2>3. JobGoes(j, k, disk)
    BY <2>1
  <2> HIDE DEF k
  <2>4. LoneAt(j, disk) => LoneAt(k, disk)
    <3>1. ASSUME LoneAt(j, disk)
          PROVE  j.n = 0 /\ j.good
      BY ONLY <2>1, <3>1 DEF LoneAt, CheckAt
    <3>2. S \in Nat /\ S = Size[k.ver]
      BY <1>2, <2>1, <2>2
    <3> QED BY ONLY <2>1, <2>2, <3>1, <3>2 DEF LoneAt, CheckAt
  <2> QED BY <1>3, <2>2, <2>3, <2>4, JobLone
<1>b. CASE Trims(j)
  <2>1. /\ j.at = "trim" /\ j.src \in 1..Len(fs) /\ S \in Nat
        /\ j.kind # "prepare" /\ j.ver \in 1..MaxVersions
    BY <1>2, <1>b DEF Trims, AtWork
  <2>2. fs[j.src] \in Contents
    BY ONLY <1>2, <2>1
  <2>3. PICK w \in Contents : w = Cut(fs[j.src], S) /\ Len(w) = S
    <3>1. PICK f \in Contents : f = fs[j.src]
      BY ONLY <2>2
    <3>2. Cut(f, S) \in Contents
      BY ONLY <2>1, <3>1, FileTyped
    <3>3. Len(Cut(f, S)) = S
      BY ONLY <2>1, <3>1, CutLen
    <3> QED BY ONLY <3>1, <3>2, <3>3
  <2> DEFINE k == [j EXCEPT !.at = "read"]
             d == [disk EXCEPT !.files = [fs EXCEPT ![j.src] = w]]
  <2>4. JobGoes(j, k, d)
    BY <1>b, <2>3 DEF Trims
  <2>5. /\ k.kind = j.kind /\ k.gen = j.gen /\ k.alone = j.alone
        /\ k.ver = j.ver /\ k.n = j.n /\ k.good = j.good /\ k.out = j.out
        /\ k.src = j.src /\ k.at = "read"
    BY ONLY <1>2 DEF PoolJobs
  <2>6. d.data = disk.data /\ d.dest = disk.dest /\ d.files[j.src] = w
    BY ONLY <1>2, <2>1 DEF DiskRecords
  <2> HIDE DEF k, d
  <2>7. LoneAt(j, disk) => LoneAt(k, d)
    <3> SUFFICES ASSUME LoneAt(j, disk)
                 PROVE  LoneAt(k, d)
      OBVIOUS
    <3>1. /\ j.kind = "verify" /\ j.n = 0 /\ j.src = disk.data
          /\ j.src # 0
      BY ONLY <2>1, LoneAt(j, disk) DEF LoneAt, CheckAt, PublishAt
    <3>2. S = Size[k.ver]
      BY ONLY <2>5
    <3> QED BY ONLY <2>1, <2>3, <2>5, <2>6, <3>1, <3>2 DEF LoneAt, CheckAt
  <2> QED BY <1>3, <2>4, <2>5, <2>6, <2>7, JobLone
<1>c. CASE Renames(j)
  <2> DEFINE d == [disk EXCEPT !.dest = disk.data, !.data = 0]
             k == [j EXCEPT !.at = "right"]
  <2>1. /\ JobGoes(j, k, d) /\ j.kind = "publish" /\ j.at = "queued"
    BY <1>c DEF Renames
  <2>2. LoneAt(j, disk) => LoneAt(k, d)
    <3>1. d.dest = disk.data /\ d.files = fs
      BY ONLY <1>2 DEF DiskRecords
    <3>2. k.kind = j.kind /\ k.at = "right" /\ k.ver = j.ver
      BY ONLY <1>2 DEF PoolJobs
    <3> HIDE DEF d, k
    <3> QED BY ONLY <2>1, <3>1, <3>2 DEF LoneAt, PublishAt, Holds
  <2> QED BY ONLY <1>5, <2>1, <2>2 DEF Stations
<1>d. CASE OpensSource(j)
  <2> DEFINE k == [j EXCEPT !.at = "source", !.src = disk.data]
  <2>1. /\ JobGoes(j, k, disk) /\ j.kind = "publish" /\ j.at = "queued"
        /\ disk.data # 0
    BY <1>d DEF OpensSource
  <2>2. /\ k.kind = j.kind /\ k.gen = j.gen /\ k.alone = j.alone
        /\ k.ver = j.ver /\ k.n = j.n /\ k.good = j.good /\ k.out = j.out
        /\ k.src = disk.data /\ k.at = "source"
    BY ONLY <1>2 DEF PoolJobs
  <2> HIDE DEF k
  <2>3. LoneAt(j, disk) => LoneAt(k, disk)
    BY ONLY <2>1, <2>2 DEF LoneAt, PublishAt, Holds
  <2> QED BY <1>3, <2>1, <2>2, <2>3, JobLone
<1>e. CASE OpensTarget(j)
  <2>1. /\ j.at = "source" /\ j.kind # "prepare"
        /\ j.ver \in 1..MaxVersions /\ S \in Nat
    BY <1>2, <1>e DEF OpensTarget
\* The target o is empty, and the file opened before is as it was.
  <2>2. ASSUME NEW at \in {"temp", "place"}, NEW o, NEW d,
               JobGoes(j, [j EXCEPT !.at = at, !.out = o], d),
               d.data = disk.data, d.dest \in {disk.dest, o},
               at = "place" => d.dest = o,
               o \in 1..Len(d.files), d.files[o] = <<>>,
               disk.data # 0 => o # disk.data /\ disk.data \in 1..Len(d.files)
                                /\ d.files[disk.data] = fs[disk.data]
        PROVE  Lone' /\ Apart'
    <3> DEFINE k == [j EXCEPT !.at = at, !.out = o]
    <3>1. /\ k.kind = j.kind /\ k.gen = j.gen /\ k.alone = j.alone
          /\ k.ver = j.ver /\ k.n = j.n /\ k.good = j.good /\ k.out = o
          /\ k.src = j.src /\ k.at = at
      BY ONLY <1>2 DEF PoolJobs
    <3>2. JobGoes(j, k, d)
      BY <2>2
    <3> HIDE DEF k
    <3>3. LoneAt(j, disk) => LoneAt(k, d)
      <4> SUFFICES ASSUME LoneAt(j, disk)
                   PROVE  LoneAt(k, d)
        OBVIOUS
      <4>1. /\ j.kind # "verify" /\ j.n = 0 /\ j.good
            /\ j.src = disk.data /\ Holds(disk, j.src, j)
        BY ONLY <2>1, LoneAt(j, disk) DEF LoneAt, CheckAt, PublishAt
      <4>2. disk.data # 0
        BY ONLY <4>1 DEF Holds
      <4>3. Holds(d, k.src, k) /\ k.src # o
        BY ONLY <2>2, <3>1, <4>1, <4>2 DEF Holds
      <4>4. d.files[o] = [i \in 1..k.n |-> k.ver]
        BY ONLY <2>2, <3>1, <4>1
      <4>5. k.n <= Size[k.ver]
        BY ONLY <2>1, <3>1, <4>1
      <4> QED BY ONLY <2>2, <3>1, <4>1, <4>3, <4>4, <4>5
              DEF LoneAt, PublishAt
    <3>4. d.data # 0 =>
            d.data = disk.data /\ d.data # d.dest /\ k.out # d.data
      BY ONLY <1>3, <2>2, <3>1
    <3> QED BY <3>1, <3>2, <3>3, <3>4, JobLone
  <2>3. PICK n \in Nat, gs \in Seq(Contents) :
          /\ n = Len(fs) + 1 /\ gs = Append(fs, <<>>) /\ Len(gs) = n
          /\ gs[n] = <<>> /\ \A i \in 1..Len(fs) : gs[i] = fs[i]
    <3>1. <<>> \in Contents
      BY DEF Contents
    <3>2. fs \in Seq(Contents) /\ Len(fs) \in Nat
      BY <1>2
    <3> HIDE DEF fs
    <3>3. /\ Append(fs, <<>>) \in Seq(Contents)
          /\ Len(Append(fs, <<>>)) = Len(fs) + 1
          /\ Append(fs, <<>>)[Len(fs) + 1] = <<>>
          /\ \A i \in 1..Len(fs) : Append(fs, <<>>)[i] = fs[i]
      BY ONLY <3>1, <3>2
    <3>4. Len(fs) + 1 \in Nat
      BY ONLY <3>2
    <3> QED BY ONLY <3>3, <3>4
  <2>4. n \in 1..Len(gs) /\ n # disk.data
        /\ (disk.data # 0 => disk.data \in 1..Len(fs)
                             /\ disk.data \in 1..Len(gs))
    BY ONLY <1>2, <2>3
  <2>5. CASE JobGoes(j, [j EXCEPT !.at = "temp", !.out = n],
                     [disk EXCEPT !.files = gs])
    <3> DEFINE d == [disk EXCEPT !.files = gs]
    <3>1. d.files = gs /\ d.data = disk.data /\ d.dest = disk.dest
      BY ONLY <1>2 DEF DiskRecords
    <3>2. JobGoes(j, [j EXCEPT !.at = "temp", !.out = n], d)
      BY <2>5
    <3> HIDE DEF d
    <3> QED BY ONLY <2>2, <2>3, <2>4, <3>1, <3>2
  <2>6. CASE JobGoes(j, [j EXCEPT !.at = "place", !.out = n],
                     [disk EXCEPT !.files = gs, !.dest = n])
    <3> DEFINE d == [disk EXCEPT !.files = gs, !.dest = n]
    <3>1. d.files = gs /\ d.data = disk.data /\ d.dest = n
      BY ONLY <1>2 DEF DiskRecords
    <3>2. JobGoes(j, [j EXCEPT !.at = "place", !.out = n], d)
      BY <2>6
    <3> HIDE DEF d
    <3> QED BY ONLY <2>2, <2>3, <2>4, <3>1, <3>2
  <2>7. CASE /\ disk.dest # 0
             /\ JobGoes(j, [j EXCEPT !.at = "place", !.out = disk.dest],
                        [disk EXCEPT !.files = [fs EXCEPT
                                                  ![disk.dest] = <<>>]])
    <3>1. PICK hs : hs = [fs EXCEPT ![disk.dest] = <<>>]
      OBVIOUS
    <3>2. /\ hs[disk.dest] = <<>> /\ Len(hs) = Len(fs)
          /\ disk.dest \in 1..Len(hs)
          /\ \A i \in 1..Len(fs) : i # disk.dest => hs[i] = fs[i]
      BY ONLY <1>2, <2>7, <3>1
    <3> DEFINE d == [disk EXCEPT !.files = hs]
    <3>3. d.files = hs /\ d.data = disk.data /\ d.dest = disk.dest
      BY ONLY <1>2 DEF DiskRecords
    <3>4. JobGoes(j, [j EXCEPT !.at = "place", !.out = disk.dest], d)
      BY <2>7, <3>1
    <3>5. disk.data # 0 => /\ disk.dest # disk.data
                           /\ disk.data \in 1..Len(d.files)
                           /\ d.files[disk.data] = fs[disk.data]
      BY ONLY <1>2, <1>3, <3>2, <3>3
    <3> HIDE DEF d
    <3> QED BY ONLY <2>2, <3>2, <3>3, <3>4, <3>5
  <2> QED BY <1>e, <2>3, <2>5, <2>6, <2>7 DEF OpensTarget
<1>f. CASE ReadsChunk(j)
  <2>1. /\ j.at \in {"read", "temp", "place"} /\ j.kind # "prepare"
        /\ j.src \in 1..Len(fs) /\ j.n < Len(fs[j.src]) /\ j.n < S
        /\ j.ver \in 1..MaxVersions /\ S \in Nat
    BY <1>2, <1>f DEF ReadsChunk, Reading, AtWork
  <2>2. PICK v : v = fs[j.src][j.n + 1]
    OBVIOUS
  <2>3. PICK w : w = Written(fs[j.out], j.n + 1, v)
    OBVIOUS
  <2> DEFINE k == [j EXCEPT !.n = @ + 1, !.good = @ /\ v = j.ver]
             d == IF j.at = "read" THEN disk
                  ELSE [disk EXCEPT !.files = [fs EXCEPT ![j.out] = w]]
  <2>4. JobGoes(j, k, d)
    BY <1>f, <2>2, <2>3 DEF ReadsChunk
  <2>5. /\ k.kind = j.kind /\ k.gen = j.gen /\ k.alone = j.alone
        /\ k.ver = j.ver /\ k.n = j.n + 1 /\ k.out = j.out
        /\ k.good = (j.good /\ v = j.ver) /\ k.src = j.src /\ k.at = j.at
    BY ONLY <1>2 DEF PoolJobs
  <2>6. /\ d.data = disk.data /\ d.dest = disk.dest
        /\ j.at = "read" => d.files = fs
        /\ j.at # "read" => d.files = [fs EXCEPT ![j.out] = w]
    <3>1. CASE j.at = "read"
      BY ONLY <3>1
    <3>2. CASE j.at # "read"
      BY ONLY <1>2, <3>2 DEF DiskRecords
    <3> QED BY ONLY <3>1, <3>2
  <2> HIDE DEF k, d
  <2>7. k.n \in Nat /\ k.n <= S /\ S = Size[k.ver] /\ k.n \in 1..S
    BY ONLY <1>2, <2>1, <2>5
  <2>8. ASSUME LoneAt(j, disk), j.at = "read"
        PROVE  LoneAt(k, d)
    <3>1. /\ j.kind = "verify" /\ j.src = disk.data /\ j.src # 0
          /\ Len(fs[j.src]) = Size[j.ver]
          /\ j.good => \A i \in 1..j.n : fs[j.src][i] = j.ver
      BY ONLY <2>8 DEF LoneAt, CheckAt, PublishAt
    <3>2. ASSUME k.good, NEW i \in 1..k.n
          PROVE  fs[j.src][i] = j.ver
      <4>1. j.good /\ v = j.ver
        BY ONLY <2>5, <3>2
      <4>2. i \in 1..j.n \/ i = j.n + 1
        BY ONLY <1>2, <2>5, <3>2
      <4>3. CASE i \in 1..j.n
        BY ONLY <3>1, <4>1, <4>3
      <4>4. CASE i = j.n + 1
        BY ONLY <2>2, <4>1, <4>4
      <4> QED BY ONLY <4>2, <4>3, <4>4
    <3> QED BY ONLY <2>5, <2>6, <2>7, <2>8, <3>1, <3>2 DEF LoneAt, CheckAt
  <2>9. ASSUME LoneAt(j, disk), j.at # "read"
        PROVE  LoneAt(k, d)
    <3>1. /\ j.kind # "verify" /\ j.src = disk.data /\ Holds(disk, j.src, j)
          /\ j.out \in 1..Len(fs) /\ j.out # j.src /\ j.good
          /\ fs[j.out] = [i \in 1..j.n |-> j.ver]
          /\ j.at = "place" => disk.dest = j.out
      BY ONLY <2>1, <2>9 DEF LoneAt, CheckAt, PublishAt
    <3>2. fs[j.src] \in Contents /\ fs[j.out] \in Contents
      BY ONLY <1>2, <2>1, <3>1
    <3>3. v = j.ver
      <4>1. \A i \in 1..S : fs[j.src][i] = j.ver
        BY <1>2, <2>1, <3>1, <3>2, RightChunks DEF Holds
      <4>2. j.n + 1 \in 1..S
        BY ONLY <1>2, <2>1
      <4> QED BY ONLY <2>2, <4>1, <4>2
    <3>4. w = [i \in 1..k.n |-> k.ver]
      <4>1. PICK f \in Contents, n \in Nat :
              f = fs[j.out] /\ n = j.n /\ f = [i \in 1..n |-> j.ver]
        BY ONLY <1>2, <3>1, <3>2
      <4>2. PICK m, u : m = n + 1 /\ u = j.ver
        OBVIOUS
      <4>3. f = [i \in 1..n |-> u]
        BY ONLY <4>1, <4>2
      <4>4. Written(f, m, u) = [i \in 1..m |-> u]
        BY ONLY <4>1, <4>2, <4>3, ChunkAfter
      <4> QED BY ONLY <2>3, <2>5, <3>3, <4>1, <4>2, <4>4
    <3>5. /\ d.files[j.out] = w /\ d.files[j.src] = fs[j.src]
          /\ Len(d.files) = Len(fs)
      BY ONLY <1>2, <2>1, <2>6, <2>9, <3>1
    <3>6. Holds(d, k.src, k)
      BY ONLY <2>5, <3>1, <3>5 DEF Holds
    <3>7. k.good
      BY ONLY <2>5, <3>1, <3>3
    <3> QED BY ONLY <2>1, <2>5, <2>6, <2>7, <2>9, <3>1, <3>4, <3>5, <3>6,
               <3>7 DEF LoneAt, PublishAt
  <2>10. d.data # 0 =>
           d.data = disk.data /\ d.data # d.dest /\ k.out # d.data
    BY ONLY <1>3, <2>5, <2>6
  <2> QED BY <2>4, <2>5, <2>8, <2>9, <2>10, JobLone
<1>g. CASE ReadsAll(j)
  <2>1. /\ j.at \in {"read", "temp", "place"} /\ j.kind # "prepare"
        /\ j.src \in 1..Len(fs) /\ j.n = S
        /\ j.ver \in 1..MaxVersions /\ S \in Nat
    BY <1>2, <1>g DEF ReadsAll, Reading, AtWork
  <2>2. fs[j.src] \in Contents
    BY ONLY <1>2, <2>1
  <2>3. CASE ~j.good
    <3>1. JobGoes(j, [j EXCEPT !.at = "wrong"], LeftBehind(j))
      BY <1>g, <2>3 DEF ReadsAll
    <3> QED BY <1>5, <1>6, <1>l, <3>1 DEF Stations
  <2>4. CASE j.good /\ j.at = "read"
    <3> DEFINE k == [j EXCEPT !.at = "right"]
    <3>1. JobGoes(j, k, disk)
      BY <1>g, <2>4 DEF ReadsAll
    <3>2. k.kind = j.kind /\ k.ver = j.ver /\ k.at = "right"
      BY ONLY <1>2 DEF PoolJobs
    <3>3. LoneAt(j, disk) => LoneAt(k, disk)
      <4> HIDE DEF k
      <4> SUFFICES ASSUME LoneAt(j, disk)
                   PROVE  LoneAt(k, disk)
        OBVIOUS
      <4>1. /\ j.kind = "verify" /\ j.src = disk.data
            /\ Len(fs[j.src]) = S
            /\ \A i \in 1..S : fs[j.src][i] = j.ver
        BY ONLY <2>1, <2>4, LoneAt(j, disk) DEF LoneAt, CheckAt, PublishAt
      <4>2. fs[j.src] = WholeFile(j.ver)
        BY <2>1, <2>2, <4>1, RightChunks
      <4>3. Holds(disk, disk.data, k)
        BY ONLY <2>1, <3>2, <4>1, <4>2 DEF Holds
      <4> QED BY ONLY <3>2, <4>1, <4>3 DEF LoneAt, CheckAt
    <3> QED BY ONLY <1>5, <3>1, <3>3 DEF Stations
\* The copy is whole, and is the destination.
  <2>5. CASE j.good /\ j.at # "read"
    <3> DEFINE k == [j EXCEPT !.at = "named"]
    <3>1. PICK d \in {disk, [disk EXCEPT !.dest = j.out]} :
            /\ JobGoes(j, k, d)
            /\ d = disk => j.at = "place" \/ disk.dest = j.out
      <4>1. CASE j.at = "temp"
        <5>1. JobGoes(j, k, [disk EXCEPT !.dest = j.out])
          BY <1>g, <2>5, <4>1 DEF ReadsAll
        <5>2. CASE [disk EXCEPT !.dest = j.out] = disk
          <6>1. [disk EXCEPT !.dest = j.out].dest = j.out
            BY ONLY <1>2 DEF DiskRecords
          <6> QED BY ONLY <5>1, <5>2, <6>1
        <5> QED BY ONLY <5>1, <5>2
      <4>2. CASE j.at = "place"
        <5>1. JobGoes(j, k, disk)
          BY <1>g, <2>5, <4>2 DEF ReadsAll
        <5> QED BY ONLY <4>2, <5>1
      <4> QED BY ONLY <2>1, <2>5, <4>1, <4>2
    <3>2. k.kind = j.kind /\ k.ver = j.ver /\ k.at = "named"
      BY ONLY <1>2 DEF PoolJobs
    <3>3. d.files = fs /\ (d = disk \/ d.dest = j.out)
      BY ONLY <1>2, <3>1 DEF DiskRecords
    <3>4. LoneAt(j, disk) => LoneAt(k, d)
      <4> HIDE DEF k
      <4> SUFFICES ASSUME LoneAt(j, disk)
                   PROVE  LoneAt(k, d)
        OBVIOUS
      <4>1. /\ j.kind # "verify" /\ j.out \in 1..Len(fs)
            /\ fs[j.out] = [i \in 1..S |-> j.ver]
            /\ j.at = "place" => disk.dest = j.out
        BY ONLY <2>1, <2>5, LoneAt(j, disk) DEF LoneAt, CheckAt, PublishAt
      <4>2. d.dest = j.out
        <5>1. CASE d = disk
          BY ONLY <3>1, <4>1, <5>1
        <5> QED BY ONLY <3>3, <5>1
      <4>3. Holds(d, d.dest, k)
        BY ONLY <3>2, <3>3, <4>1, <4>2 DEF Holds, WholeFile, Chunks
      <4> QED BY ONLY <3>2, <4>1, <4>3 DEF LoneAt, PublishAt
    <3> QED BY ONLY <1>5, <3>1, <3>4 DEF Stations
  <2> QED BY <2>3, <2>4, <2>5
<1>h. CASE RemovesPartial(j)
  <2>l. PICK left \in {0, disk.data} :
          /\ JobGoes(j, [j EXCEPT !.at = "right"],
                     [disk EXCEPT !.data = left])
          /\ j.at = "named"
    BY <1>h DEF RemovesPartial
  <2> DEFINE d == [disk EXCEPT !.data = left]
             k == [j EXCEPT !.at = "right"]
  <2>1. JobGoes(j, k, d) /\ j.at = "named"
    BY <2>l
  <2>2. d.files = fs /\ d.dest = disk.dest
    BY ONLY <1>2 DEF DiskRecords
  <2>3. k.kind = j.kind /\ k.at = "right" /\ k.ver = j.ver
    BY ONLY <1>2 DEF PoolJobs
  <2>4. LoneAt(j, disk) => LoneAt(k, d)
    <3> HIDE DEF d, k
    <3> QED BY ONLY <2>1, <2>2, <2>3
            DEF LoneAt, CheckAt, PublishAt, Holds
  <2>5. d \in {disk, [disk EXCEPT !.data = 0]}
    BY ONLY <1>2 DEF DiskRecords
  <2> QED BY ONLY <1>5, <2>1, <2>4, <2>5 DEF Stations
<1>i. CASE TooShort(j)
  BY <1>5, <1>6, <1>i, <1>l DEF TooShort, Stations
<1>j. CASE Breaks(j)
  BY <1>5, <1>6, <1>j, <1>l DEF Breaks, Stations
<1> QED BY <1>1, <1>a, <1>b, <1>c, <1>d, <1>e, <1>f, <1>g, <1>h, <1>i, <1>j

(* Which actions only stand aside: the loop's, unless they begin or open,  *)
(* and whatever the server does.                                           *)
LEMMA HeardAside ==
  ASSUME CarryInv, OnData \/ OnPongT \/ OnErrorT \/ SendChunk
  PROVE  Aside
<1>1. xfer \in Xfers /\ disk \in DiskRecords
  BY CarryFacts, DiskIs
<1>2. CASE OnData
  <2> DEFINE m == Head(tocli)
             x == [xfer EXCEPT !.have = @ \cup {m.n}]
  <2>1. \/ /\ xfer.stage = "running" /\ xfer' = x /\ UNCHANGED task
           /\ \E fs : disk' = [disk EXCEPT !.files = fs]
        \/ FailTransfer(xfer, "failed", "keep", owes)
        \/ UNCHANGED <<task, disk, xfer>>
    BY <1>2 DEF OnData
  <2>2. x.gen = xfer.gen
    BY ONLY <1>1 DEF Xfers
  <2> HIDE DEF x
  <2>3. CASE /\ xfer.stage = "running" /\ xfer' = x /\ UNCHANGED task
             /\ \E fs : disk' = [disk EXCEPT !.files = fs]
    <3>1. disk'.dest = disk.dest /\ disk'.data = disk.data
      BY ONLY <1>1, <2>3 DEF DiskRecords
    <3> QED BY <2>2, <2>3, <3>1 DEF Aside
  <2> QED BY <2>1, <2>3, FailsAside, StillAside
<1>3. CASE OnPongT
  <2>1. \/ xfer' = xfer
        \/ xfer' = [xfer EXCEPT !.flying = @ - 1]
    BY <1>3 DEF OnPongT
  <2>2. xfer'.gen = xfer.gen
    BY ONLY <1>1, <2>1 DEF Xfers
  <2> QED BY <1>3, <2>2, StillAside DEF OnPongT
<1>4. CASE OnErrorT
  <2>1. \/ UNCHANGED <<task, disk, xfer>>
        \/ \E ow : FailTransfer(xfer, "refused", "keep", ow)
    BY <1>4 DEF OnErrorT
  <2> QED BY <2>1, FailsAside, StillAside
<1>5. CASE SendChunk
  <2>1. \/ /\ xfer' = [xfer EXCEPT !.next = @ + 1, !.flying = @ + 1]
           /\ UNCHANGED <<task, disk>>
        \/ Fails(xfer, "failed", "keep", owes)
    BY <1>5 DEF SendChunk
  <2>2. [xfer EXCEPT !.next = @ + 1, !.flying = @ + 1].gen = xfer.gen
    BY ONLY <1>1 DEF Xfers
  <2> QED BY <2>1, <2>2, FailedAside, StillAside
<1> QED BY <1>2, <1>3, <1>4, <1>5

LEMMA RestAside ==
  ASSUME CarryInv,
         \/ \E c \in DOMAIN Jobs : Busy(c)
         \/ Cancel \/ AcceptDeadline \/ Prepared \/ SidecarLands
         \/ HostWork \/ RemoteChanges \/ UNCHANGED carryVars
  PROVE  Aside
<1>1. xfer \in Xfers /\ disk \in DiskRecords
  BY CarryFacts, DiskIs
<1>2. CASE \/ \E c \in DOMAIN Jobs : Busy(c)
           \/ HostWork \/ RemoteChanges \/ UNCHANGED carryVars
  <2>1. UNCHANGED <<task, disk, xfer>>
    BY <1>2 DEF Busy, HostWork, RemoteChanges, carryVars, HostPing,
       HostStart, HostData, HostEnd, ChunkWritten, UploadFinished,
       PumpDownload, clientSide
  <2> QED BY <2>1, StillAside
<1>3. CASE Cancel \/ AcceptDeadline
  BY <1>3, FailedAside DEF Cancel, AcceptDeadline
<1>4. CASE Prepared
  <2>1. PICK j \in task :
          \/ Fails(xfer, "failed", "keep", owes)
          \/ /\ j.kind = "prepare" /\ task' = task \ {j} /\ UNCHANGED disk
             /\ xfer' = [xfer EXCEPT !.stage = "awaiting"]
    BY <1>4 DEF Prepared
  <2>2. [xfer EXCEPT !.stage = "awaiting"].gen = xfer.gen
    BY ONLY <1>1 DEF Xfers
  <2>3. CASE Fails(xfer, "failed", "keep", owes)
    BY <2>3, FailedAside
  <2>4. CASE ~Fails(xfer, "failed", "keep", owes)
    BY <2>1, <2>2, <2>4 DEF Aside
  <2> QED BY <2>3, <2>4
<1>5. CASE SidecarLands
  <2>1. disk' = [disk EXCEPT !.side = saving] /\ UNCHANGED <<task, xfer>>
    BY <1>5 DEF SidecarLands
  <2>2. /\ disk'.files = disk.files /\ disk'.data = disk.data
        /\ disk'.dest = disk.dest
    BY ONLY <1>1, <2>1 DEF DiskRecords
  <2> QED BY <2>1, <2>2 DEF Aside
<1> QED BY <1>2, <1>3, <1>4, <1>5

LEMMA FreshLinkAside ==
  ASSUME CarryInv, LinkLostAndBack \/ PowerLossAndBack
  PROVE  Aside
<1>1. disk \in DiskRecords
  BY CarryFacts, DiskIs
<1>2. /\ xfer' = Idle /\ task' \subseteq task
      /\ \/ disk' = disk
         \/ \E fs : disk' = [disk EXCEPT !.files = fs]
         \/ disk' = [disk EXCEPT !.side = SidecarOf(xfer)]
  BY DEF LinkLostAndBack, PowerLossAndBack, FreshLink, StillAtWork
<1>3. disk'.dest = disk.dest /\ disk'.data = disk.data
  BY ONLY <1>1, <1>2 DEF DiskRecords
<1> QED BY <1>2, <1>3, IdleIs DEF Aside

(* An accept.                                                              *)
LEMMA AcceptLone ==
  ASSUME CarryInv, Lone, Apart, OnAccept
  PROVE  Lone' /\ Apart'
<1>1. xfer \in Xfers
  BY CarryFacts
<1> DEFINE m == Head(tocli)
<1>2. \/ OnAcceptLate(m.id) \/ UploadAccepted(m.id)
      \/ WrongSize(m.id) \/ OpenFails
      \/ xfer.stage = "awaiting" /\ DownloadOpens(m.id, m.ver)
  BY DEF OnAccept, DownloadAccepted
<1>3. CASE xfer.stage = "awaiting" /\ DownloadOpens(m.id, m.ver)
  BY <1>3, OpensLone
<1>4. CASE OnAcceptLate(m.id) \/ UploadAccepted(m.id)
  <2>1. /\ UNCHANGED <<task, disk>>
        /\ \/ xfer' = xfer
           \/ xfer' = [xfer EXCEPT !.stage = "running", !.id = m.id]
    BY <1>4 DEF OnAcceptLate, UploadAccepted
  <2>2. xfer'.gen = xfer.gen
    BY ONLY <1>1, <2>1 DEF Xfers
  <2> QED BY <2>1, <2>2, StillAside, AsideKeeps
<1>5. CASE WrongSize(m.id)
  <2>1. \/ \E x : FailTransfer(x, "failed", "keep", Tail(owes))
        \/ xfer' = Idle /\ UNCHANGED <<task, disk>>
    BY <1>5 DEF WrongSize
  <2>2. CASE xfer' = Idle /\ UNCHANGED <<task, disk>>
    BY <2>2, IdleIs, AsideKeeps DEF Aside
  <2> QED BY <2>1, <2>2, FailsAside, AsideKeeps
<1>6. CASE OpenFails
  BY <1>6, FailsAside, AsideKeeps DEF OpenFails
<1> QED BY <1>2, <1>3, <1>4, <1>5, <1>6

(* An end.                                                                 *)
LEMMA EndLone ==
  ASSUME CarryInv, Lone, Apart, OnEnd
  PROVE  Lone' /\ Apart'
<1> DEFINE m == Head(tocli)
<1>1. \/ UNCHANGED <<xfer, task, disk>>
      \/ \E ow : FailTransfer(xfer, "confused", "keep", ow)
      \/ /\ xfer.stage = "running"
         /\ \E ok : UploadEnded(ok) \/ DownloadEnded(ok)
  BY DEF OnEnd
<1>2. CASE UNCHANGED <<xfer, task, disk>>
  BY <1>2, StillAside, AsideKeeps
<1>3. CASE \E ow : FailTransfer(xfer, "confused", "keep", ow)
  BY <1>3, FailsAside, AsideKeeps
<1>4. ASSUME NEW ok, UploadEnded(ok)
      PROVE  Lone' /\ Apart'
  <2>1. Aside
    BY <1>4, IdleIs DEF UploadEnded, Aside
  <2> QED BY <2>1, AsideKeeps
<1> QED BY <1>1, <1>2, <1>3, <1>4, EndsLone

LEMMA LoneStep ==
  ASSUME CarryInv, Lone, Apart, [CarryNext]_carryVars
  PROVE  Lone' /\ Apart'
<1>1. CASE \E c \in DOMAIN Jobs : StartUpload(c) \/ StartDownload(c)
  BY <1>1, StartsLone
<1>2. CASE OnData \/ OnPongT \/ OnErrorT \/ SendChunk
  BY <1>2, HeardAside, AsideKeeps
<1>3. CASE \/ \E c \in DOMAIN Jobs : Busy(c)
           \/ Cancel \/ AcceptDeadline \/ Prepared \/ SidecarLands
           \/ HostWork \/ RemoteChanges \/ UNCHANGED carryVars
  BY <1>3, RestAside, AsideKeeps
<1>4. CASE Published \/ LinkLostAndBack \/ PowerLossAndBack
  BY <1>4, PublishedAside, FreshLinkAside, AsideKeeps
<1>5. CASE Verified \/ OnAccept \/ OnEnd \/ PoolWork
  BY <1>5, VerifiedLone, AcceptLone, EndLone, PoolLone
<1> QED BY <1>1, <1>2, <1>3, <1>4, <1>5 DEF CarryNext, ClientWork

Reports(c) == asked[c] = "open" /\ asked'[c] = "ok"
IsWhole(c) ==
  IF xfer.way = "download"
  THEN \/ \E v \in 1..MaxVersions : AtDestination(v)
       \/ \E j \in task : j.gen = c /\ ~j.alone
  ELSE xfer.id \in host.filed

(* An outcome other than success reports no success.                        *)
LEMMA NoReport ==
  ASSUME NEW c, asked \in [DOMAIN Jobs -> Outcomes], c \in DOMAIN Jobs,
         \/ UNCHANGED asked
         \/ \E d, why : why # "ok" /\ asked' = [asked EXCEPT ![d] = why]
  PROVE  ~Reports(c)
  BY DEF Reports

LEMMA FailedNoReport ==
  ASSUME NEW x, NEW why, NEW cleanup, NEW ow, why # "ok",
         FailTransfer(x, why, cleanup, ow), NEW c \in DOMAIN Jobs,
         asked \in [DOMAIN Jobs -> Outcomes]
  PROVE  ~Reports(c)
  BY NoReport DEF FailTransfer

(* A publication that reports success was the only job at work since the   *)
(* check of what it published began, or was not alone from the start.      *)
LEMMA PublishedIsWhole ==
  ASSUME CarryInv, Lone, Published, NEW c \in DOMAIN Jobs, Reports(c)
  PROVE  IsWhole(c)
<1>1. asked \in [DOMAIN Jobs -> Outcomes] /\ xfer \in Xfers
      /\ task \subseteq PoolJobs
  BY CarryFacts
<1>2. PICK j \in task :
        /\ Done(j, "publish")
        /\ \/ j.at = "right" /\ asked' = [asked EXCEPT ![j.gen] = "ok"]
           \/ VerifyFails(j)
  BY DEF Published
<1>3. ~VerifyFails(j)
  BY <1>1, FailedNoReport DEF VerifyFails, Fails
<1>4. j.gen = xfer.gen /\ j.kind = "publish" /\ j.gen = c
  <2>1. asked'[c] # asked[c]
    BY DEF Reports
  <2> QED BY <1>1, <1>2, <1>3, <2>1 DEF Done, Current
<1>5. xfer.way = "download" /\ j.ver \in 1..MaxVersions
  <2>1. JobFits(j, asked, xfer)
    BY CarryFacts DEF DeskInv
  <2>2. xfer.stage = "verifying" /\ j.ver # 0
    BY <1>4, <2>1 DEF JobFits
  <2>3. xfer.way = "download"
    BY <2>2, CarryFacts DEF XShape
  <2>4. j.ver \in 0..MaxVersions
    BY <1>1 DEF PoolJobs
  <2> QED BY <2>2, <2>3, <2>4, JobNumbers
<1>6. CASE ~j.alone
  BY <1>4, <1>5, <1>6 DEF IsWhole
<1>7. CASE j.alone
  <2>1. LoneAt(j, disk) /\ j.at = "right"
    BY <1>2, <1>3, <1>4, <1>7 DEF Lone
  <2>2. Holds(disk, disk.dest, j)
    BY ONLY <1>4, <2>1 DEF LoneAt, PublishAt
  <2>3. Len(disk.files) \in Nat
    BY CarryFacts, DiskIs
  <2>4. AtDestination(j.ver)
    BY ONLY <2>2, <2>3 DEF AtDestination, Holds
  <2> QED BY <1>5, <2>4 DEF IsWhole
<1> QED BY <1>6, <1>7

(* An end that reports success ends the upload that runs, and the server    *)
(* says so of an upload only once it has filed it.                          *)
LEMMA EndedIsWhole ==
  ASSUME CarryInv, OnEnd, NEW c \in DOMAIN Jobs, Reports(c)
  PROVE  IsWhole(c)
<1> DEFINE m == Head(tocli)
<1>1. asked \in [DOMAIN Jobs -> Outcomes]
  BY CarryFacts
<1>2. asked' # asked
  BY DEF Reports
<1>3. tocli # <<>> /\ m.type = "End"
  BY DEF OnEnd, Heard
<1>4. /\ xfer.stage = "running" /\ xfer.id = m.id /\ xfer.way = "upload"
      /\ UploadEnded(m.n = 1)
  <2>1. \/ \E ow : FailTransfer(xfer, "confused", "keep", ow)
        \/ /\ xfer.stage = "running" /\ xfer.id = m.id
           /\ IF xfer.way = "upload" THEN UploadEnded(m.n = 1)
              ELSE \E ok \in {FALSE, m.n = 1} : DownloadEnded(ok)
    BY <1>2 DEF OnEnd
  <2>2. ~ \E ow : FailTransfer(xfer, "confused", "keep", ow)
    BY <1>1, FailedNoReport
  <2>3. ASSUME NEW ok, DownloadEnded(ok)
        PROVE  FALSE
    BY <1>1, <1>2, <2>3, FailedNoReport DEF DownloadEnded
  <2> QED BY <2>1, <2>2, <2>3
<1>5. m.n = 1
  <2>1. CASE m.n # 1
    <3>1. asked' = [asked EXCEPT ![xfer.gen] = "failed"]
      BY <1>4, <2>1 DEF UploadEnded
    <3> QED BY <1>1, <3>1, NoReport
  <2> QED BY <2>1
<1>6. xfer.id \in host.filed
  BY <1>3, <1>4, <1>5, CarryFacts, EndHeard
<1> QED BY <1>4, <1>6 DEF IsWhole

(* No other step reports a success.                                         *)
LEMMA OthersReportNothing ==
  ASSUME CarryInv, [CarryNext]_carryVars, ~Published, ~OnEnd,
         NEW c \in DOMAIN Jobs
  PROVE  ~Reports(c)
<1>1. asked \in [DOMAIN Jobs -> Outcomes]
  BY CarryFacts
<1>2. CASE UNCHANGED asked
  BY <1>1, <1>2, NoReport
<1>3. ASSUME NEW d \in DOMAIN Jobs,
             Busy(d) \/ StartUpload(d) \/ StartDownload(d)
      PROVE  ~Reports(c)
  <2>1. asked' = [asked EXCEPT ![d] = "busy"]
          \/ asked' = [asked EXCEPT ![d] = "open"]
    BY <1>3 DEF Busy, StartUpload, StartDownload
  <2> QED BY <1>1, <2>1, NoReport
<1>4. CASE Cancel \/ AcceptDeadline \/ Prepared \/ Verified \/ SendChunk
  <2>1. \/ UNCHANGED asked
        \/ \E w \in {"cancelled", "timeout", "failed"} : \E k :
             FailTransfer(xfer, w, k, owes)
    BY <1>4 DEF Cancel, AcceptDeadline, Prepared, Verified, SendChunk, Fails,
       VerifyFails
  <2> QED BY <1>1, <1>2, <2>1, FailedNoReport
<1>5. CASE OnAccept
  <2>1. \/ UNCHANGED asked
        \/ \E w \in {"failed", "changed"} : \E x, k, ow :
             FailTransfer(x, w, k, ow)
        \/ asked' = [asked EXCEPT ![xfer.gen] = "failed"]
    <3>1. \/ UNCHANGED asked
          \/ \E id, ver : DownloadOpens(id, ver) \/ WrongSize(id) \/ OpenFails
      BY <1>5 DEF OnAccept, OnAcceptLate, UploadAccepted, DownloadAccepted
    <3>2. ASSUME NEW id, NEW ver, DownloadOpens(id, ver)
          PROVE  \/ UNCHANGED asked
                 \/ \E x : FailTransfer(x, "changed", "discard", Tail(owes))
      BY <3>2 DEF DownloadOpens
    <3>3. ASSUME NEW id, WrongSize(id)
          PROVE  \/ \E x : FailTransfer(x, "failed", "keep", Tail(owes))
                 \/ asked' = [asked EXCEPT ![xfer.gen] = "failed"]
      BY <3>3 DEF WrongSize
    <3>4. OpenFails => FailTransfer(xfer, "failed", "keep", Tail(owes))
      BY DEF OpenFails
    <3>5. CASE \E id, ver : DownloadOpens(id, ver)
      BY <3>2, <3>5
    <3>6. CASE \E id : WrongSize(id)
      BY <3>3, <3>6
    <3> QED BY <3>1, <3>4, <3>5, <3>6
  <2> QED BY <1>1, <1>2, <2>1, FailedNoReport, NoReport
<1>6. CASE OnData
  <2>1. \/ UNCHANGED asked
        \/ FailTransfer(xfer, "failed", "keep", owes)
    BY <1>6 DEF OnData
  <2> QED BY <1>1, <1>2, <2>1, FailedNoReport
<1>7. CASE OnErrorT
  <2>1. \/ UNCHANGED asked
        \/ \E ow : FailTransfer(xfer, "refused", "keep", ow)
    BY <1>7 DEF OnErrorT
  <2> QED BY <1>1, <1>2, <2>1, FailedNoReport
<1>8. CASE LinkLostAndBack \/ PowerLossAndBack
  BY <1>1, <1>8 DEF LinkLostAndBack, PowerLossAndBack, FreshLink, Reports
<1>9. CASE \/ OnPongT \/ SidecarLands \/ HostWork \/ RemoteChanges
           \/ PoolWork \/ UNCHANGED carryVars
  <2>1. PoolWork => UNCHANGED asked
    BY DEF PoolWork, JobGoes, VerifyOpens, Trims, Renames, OpensSource,
       OpensTarget, ReadsChunk, ReadsAll, RemovesPartial, TooShort, Breaks
  <2>2. UNCHANGED asked
    BY <1>9, <2>1 DEF OnPongT, SidecarLands, HostWork, RemoteChanges,
       carryVars, HostPing, HostStart, HostData, HostEnd, ChunkWritten,
       UploadFinished, PumpDownload, clientSide
  <2> QED BY <1>2, <2>2
<1> QED BY <1>3, <1>4, <1>5, <1>6, <1>7, <1>8, <1>9
        DEF CarryNext, ClientWork

(* Under the same two premises a transfer is reported done only when it is  *)
(* (SuccessIsWhole: download_published and finish_upload of actor.rs): the  *)
(* server has filed the upload; the destination holds one version of the    *)
(* file, whole, unless a job of an attempt given up before was at work when *)
(* the check of this one began.                                             *)
THEOREM SuccessesAreWhole ==
  ASSUME ~OpenMayFail
  PROVE  CarrySpec /\ [][Remembers]_carryVars => SuccessIsWhole
<1> DEFINE A == \A c \in DOMAIN Jobs :
                  asked[c] = "open" /\ asked'[c] = "ok" =>
                    IF xfer.way = "download"
                    THEN \/ \E v \in 1..MaxVersions : AtDestination(v)
                         \/ \E j \in task : j.gen = c /\ ~j.alone
                    ELSE xfer.id \in host.filed
           I == CarryInv /\ Lone /\ Apart
<1>1. CarryInit => I
  BY CarryStarts DEF CarryInit, Lone, Apart
<1>2. I /\ [Remembers]_carryVars /\ [CarryNext]_carryVars => I'
  BY CarryStep, LoneStep
<1>3. I /\ [CarryNext]_carryVars => [A]_carryVars
  <2> SUFFICES ASSUME CarryInv, Lone, [CarryNext]_carryVars,
                      NEW c \in DOMAIN Jobs, Reports(c)
               PROVE  IsWhole(c)
    BY DEF Reports, IsWhole
  <2> QED BY PublishedIsWhole, EndedIsWhole, OthersReportNothing
<1> HIDE DEF A, I
<1>4. CarrySpec /\ [][Remembers]_carryVars => [][A]_carryVars
  BY <1>1, <1>2, <1>3, PTL DEF CarrySpec
<1> QED BY <1>4 DEF A, SuccessIsWhole
=============================================================================
