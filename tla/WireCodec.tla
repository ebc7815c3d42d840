----------------------------- MODULE WireCodec -----------------------------
(***************************************************************************)
(* How a payload is written and read (kdx-protocol, messages/wire.rs and   *)
(* the bytes crate's Buf and BufMut). A message is two lists of steps: the *)
(* fields its `encode` writes and the checks and reads its `decode` makes, *)
(* each in the order of the code. Reading with one of the helpers of       *)
(* wire.rs is checked; a bare `get_u8`, `get_u32` or `copy_to_slice`       *)
(* panics when the payload is too short, unless a check came before it.    *)
(*                                                                         *)
(* Bytes are digits of base ByteBase and widths are scaled down (Width),   *)
(* so that a value that does not fit its length prefix is small enough to  *)
(* be enumerated. A value of a message maps field names to field values.   *)
(***************************************************************************)
EXTENDS Integers, Sequences, SequencesExt

CONSTANTS ByteBase,     \* how many values a byte has; 256 in the code
          Width         \* bytes of "u8", "u16", "u32", "u64", "a16", "a32"

ASSUME ByteBaseAssumption == ByteBase \in Nat /\ ByteBase > 2

Bytes == 0 .. ByteBase - 1

-----------------------------------------------------------------------------
(* The steps *)

Step(k, f) == [k |-> k, f |-> f, put |-> <<>>, get |-> <<>>]

U8(f)    == Step("u8", f)
U16(f)   == Step("u16", f)
U32(f)   == Step("u32", f)
I32(f)   == Step("i32", f)
U64(f)   == Step("u64", f)
A16(f)   == Step("a16", f)          \* a [u8; 16]
A32(f)   == Step("a32", f)          \* a [u8; 32]
Flag(f)  == Step("flag", f)         \* a bool read as `get_u8() != 0`
Way(f)   == Step("way", f)          \* the direction byte, 0 or 1
Rest(f)  == Step("rest", f)         \* whatever is left
Str(f)   == Step("str", f)
Blob(f)  == Step("blob", f)
Bool(f)  == Step("bool", f)
Id(f)    == Step("id", f)           \* news.rs and roles.rs get_id
Salt(f)  == Step("salt", f)         \* AuthChallenge writes its salt itself
End      == Step("end", "")
\* `if payload.remaining() < n` and `!= n` for the fields of n bytes in g
Need(g)  == [Step("need", "") EXCEPT !.get = g]
Exact(g) == [Step("exact", "") EXCEPT !.get = g]
\* A presence byte and then e; a list of e with a u16 or u32 count
Opt(f, e) == [Step("opt", f) EXCEPT !.put = e.put, !.get = e.get]
List16(f, e) == [Step("list16", f) EXCEPT !.put = e.put, !.get = e.get]
List32(f, e) == [Step("list32", f) EXCEPT !.put = e.put, !.get = e.get]

Shape(put, get) == [put |-> put, get |-> get]
\* Reads in the order written, every one checked, and nothing left over
Plain(fs) == Shape(fs, Append(fs, End))
\* Raw reads after one check of their joint length
Raw(g) == <<Need(g)>> \o g

-----------------------------------------------------------------------------
(* Writing *)

Bits(k) == Width[IF k = "i32" THEN "u32" ELSE k]

\* The n big-endian digits of v, a negative v in two's complement
Digits(v, n) ==
    [i \in 1..n |-> ((v % (ByteBase ^ n)) \div (ByteBase ^ (n - i)))
                     % ByteBase]

Number(s) == FoldLeft(LAMBDA n, d : n * ByteBase + d, 0, s)

MaxLen16 == ByteBase ^ Width["u16"] - 1
MaxLen32 == ByteBase ^ Width["u32"] - 1

Least(a, b) == IF a < b THEN a ELSE b

(* UTF-8 in the scaled alphabet: 0 is a character of one byte, 1 starts a
   character of two bytes and 2 is its second byte. *)
IsBoundary(s, n) == n = Len(s) \/ s[n + 1] # 2

ValidUtf8(s) ==
    /\ \A i \in DOMAIN s : s[i] = 2 <=> (i > 1 /\ s[i - 1] = 1)
    /\ s = <<>> \/ Last(s) # 1

\* Cut at the limit, in the middle of a character if need be
ClampStr_MidCharacter(s, max) == SubSeq(s, 1, Least(Len(s), max))

\* wire.rs clamp_str: the longest prefix that ends between two characters
ClampStr(s, max) ==
    IF Len(s) <= max THEN s
    ELSE LET end == CHOOSE n \in 0..max :
                        /\ IsBoundary(s, n)
                        /\ \A m \in n + 1 .. max : ~IsBoundary(s, m)
         IN SubSeq(s, 1, end)

\* wire.rs put_bytes16
ClampBytes(s) == SubSeq(s, 1, Least(Len(s), MaxLen16))

\* wire.rs put_count16 and put_count32: how many entries are written
ClampCount(k, s) ==
    SubSeq(s, 1, Least(Len(s), IF k = "list16" THEN MaxLen16 ELSE MaxLen32))

Prefixed(s) == Digits(Len(s), Width["u16"]) \o s

RECURSIVE Put(_, _)

PutStep(t, v) ==
    CASE t.k \in {"u8", "u16", "u32", "i32", "u64"} -> Digits(v, Bits(t.k))
      [] t.k \in {"a16", "a32", "rest"}       -> v
      [] t.k \in {"bool", "flag"}             -> <<IF v THEN 1 ELSE 0>>
      [] t.k = "way"   -> <<v>>
      [] t.k = "str"   -> Prefixed(ClampStr(v, MaxLen16))
      [] t.k = "blob"  -> Prefixed(ClampBytes(v))
      [] t.k = "salt"  -> Prefixed(v)
      [] t.k = "opt"   -> IF v = <<>> THEN <<0>>
                          ELSE <<1>> \o Put(t.put, v[1])
      [] t.k \in {"list16", "list32"} ->
            LET kept == ClampCount(t.k, v)
            IN Digits(Len(kept), Width[IF t.k = "list16" THEN "u16"
                                       ELSE "u32"])
                 \o FlattenSeq([i \in DOMAIN kept |-> Put(t.put, kept[i])])

Put(steps, v) ==
    FlattenSeq([i \in DOMAIN steps |-> PutStep(steps[i], v[steps[i].f])])

Encode(shape, v) == Put(shape.put, v)

-----------------------------------------------------------------------------
(* Reading. A reader is what is left of the payload, the fields read so    *)
(* far, how it stands, and the entries a list decoder reserved room for.   *)

Reader(bytes) == [left |-> bytes, read |-> <<>>, st |-> "ok", room |-> 0]

Malformed(r) == [r EXCEPT !.st = "malformed"]

Rename(f, v) == [x \in {f} |-> v]

Merge(f, g) == [x \in DOMAIN f \cup DOMAIN g |->
                   IF x \in DOMAIN g THEN g[x] ELSE f[x]]

\* Advance over n bytes and note v as field f
Advance(r, n, f, v) ==
    [r EXCEPT !.left = SubSeq(@, n + 1, Len(@)),
              !.read = Merge(@, Rename(f, v))]

\* The bytes crate: a read past the end panics
Raw_(r, n, f, Val(_)) ==
    IF Len(r.left) < n THEN [r EXCEPT !.st = "panic"]
    ELSE Advance(r, n, f, Val(SubSeq(r.left, 1, n)))

Signed(s) ==
    LET n == Number(s) \* two's complement
        m == ByteBase ^ Len(s)
    IN IF 2 * n > m THEN n - m ELSE n

\* wire.rs get_str and get_bytes16: both lengths are checked first
GetPrefixed(r, f, Ok(_)) ==
    LET w == Width["u16"]
        n == Number(SubSeq(r.left, 1, w))
        s == SubSeq(r.left, w + 1, w + n)
    IN IF Len(r.left) < w \/ Len(r.left) < w + n \/ ~Ok(s)
       THEN Malformed(r)
       ELSE Advance(r, w + n, f, s)

GetStr(r, f) == GetPrefixed(r, f, ValidUtf8)

GetBytes16(r, f) == GetPrefixed(r, f, LAMBDA s : TRUE)

\* wire.rs get_bool
GetBool(r, f) ==
    IF Len(r.left) < 1 \/ r.left[1] \notin {0, 1} THEN Malformed(r)
    ELSE Advance(r, 1, f, r.left[1] = 1)

\* The bytes the fields in g take at least: an empty string its prefix
LeastLen(g) ==
    FoldLeft(LAMBDA n, t :
                n + CASE t.k \in {"str", "blob", "salt"} -> Width["u16"]
                      [] t.k \in {"bool", "flag", "way", "opt"} -> 1
                      [] t.k = "id" -> Width["a16"]
                      [] t.k \in {"need", "end"} -> 0
                      [] OTHER -> Bits(t.k),
             0, g)

\* wire.rs list_capacity
ListCapacity(count, left, entry) ==
    Least(count, left \div LeastLen(entry))

RECURSIVE Get(_, _), GetEntries(_, _, _, _)

GetList(r, t) ==
    LET w == Width[IF t.k = "list16" THEN "u16" ELSE "u32"]
        count == Number(SubSeq(r.left, 1, w))
        rest == SubSeq(r.left, w + 1, Len(r.left))
        room == ListCapacity(count, Len(rest), t.get)
    IN IF Len(r.left) < w THEN [r EXCEPT !.st = "panic"]
       ELSE LET done == GetEntries(t.get, count, Reader(rest), <<>>)
            IN [done EXCEPT !.read = Merge(r.read, Rename(t.f, @)),
                            !.room = room]

GetStep(t, r) ==
    CASE t.k \in {"u8", "u16", "u32", "u64"} ->
            Raw_(r, Bits(t.k), t.f, Number)
      [] t.k = "i32"  -> Raw_(r, Bits("i32"), t.f, Signed)
      [] t.k \in {"a16", "a32"} ->
            Raw_(r, Width[t.k], t.f, LAMBDA s : s)
      [] t.k = "flag" -> Raw_(r, 1, t.f, LAMBDA s : s[1] # 0)
      [] t.k = "way"  ->
            IF Len(r.left) >= 1 /\ r.left[1] \notin {0, 1} THEN Malformed(r)
            ELSE Raw_(r, 1, t.f, Number)
      [] t.k = "rest" -> Advance(r, Len(r.left), t.f, r.left)
      [] t.k = "str"  -> GetStr(r, t.f)
      [] t.k = "blob" -> GetBytes16(r, t.f)
      [] t.k = "bool" -> GetBool(r, t.f)
      [] t.k = "id"   -> IF Len(r.left) < Width["a16"] THEN Malformed(r)
                         ELSE Raw_(r, Width["a16"], t.f, LAMBDA s : s)
      [] t.k = "salt" ->
            LET w == Width["u16"]
                n == Number(SubSeq(r.left, 1, w))
            IN IF Len(r.left) < w THEN [r EXCEPT !.st = "panic"]
               ELSE IF Len(r.left) # w + n THEN Malformed(r)
               ELSE Advance(r, w + n, t.f, SubSeq(r.left, w + 1, w + n))
      [] t.k = "opt"  ->
            LET b == GetBool(r, t.f)
                v == Get(t.get, [b EXCEPT !.read = <<>>])
            IN IF b.st # "ok" THEN b
               ELSE IF ~b.read[t.f]
               THEN [b EXCEPT !.read[t.f] = <<>>]
               ELSE [v EXCEPT !.read = Merge(r.read, Rename(t.f, <<@>>))]
      [] t.k \in {"list16", "list32"} -> GetList(r, t)
      [] t.k = "need" -> IF Len(r.left) < LeastLen(t.get) THEN Malformed(r)
                         ELSE r
      [] t.k = "exact" -> IF Len(r.left) # LeastLen(t.get)
                          THEN Malformed(r) ELSE r
      [] t.k = "end"  -> IF r.left # <<>> THEN Malformed(r) ELSE r

Get(steps, r) ==
    FoldLeft(LAMBDA a, t : IF a.st = "ok" THEN GetStep(t, a) ELSE a,
             r, steps)

\* The loop `for _ in 0..count` of a list decoder
GetEntries(steps, n, r, got) ==
    IF n = 0 \/ r.st # "ok" THEN [r EXCEPT !.read = got]
    ELSE LET e == Get(steps, [r EXCEPT !.read = <<>>])
         IN GetEntries(steps, n - 1, e, Append(got, e.read))

Decode(shape, bytes) == Get(shape.get, Reader(bytes))

=============================================================================
