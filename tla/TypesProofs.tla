----------------------------- MODULE TypesProofs -----------------------------
(* The messages, for names, descriptors and buffers of any length: every   *)
(* decoder reads back what its encoder wrote, wherever in a buffer that    *)
(* is and whatever follows it.                                             *)
EXTENDS Types, SequenceTheorems, TLAPS

\* The bytes s are in b, from position it on.
At(b, it, s) == /\ it \in Nat \ {0} /\ it + Len(s) <= Len(b) + 1
                /\ \A i \in 1..Len(s) : b[it + i - 1] = s[i]

\* Two pieces, one after the other.
LEMMA AtConcat ==
  ASSUME NEW b, NEW it, NEW s \in Seq(Byte), NEW t \in Seq(Byte), Len(b) \in Nat,
         At(b, it, s \o t)
  PROVE  At(b, it, s) /\ At(b, it + Len(s), t)
  <1>1. /\ Len(s) \in Nat /\ Len(t) \in Nat /\ Len(s \o t) = Len(s) + Len(t)
        /\ \A i \in 1..Len(s) + Len(t) :
             (s \o t)[i] = IF i <= Len(s) THEN s[i] ELSE t[i - Len(s)]
    BY ConcatProperties, LenProperties
  <1>2. At(b, it, s)
    BY <1>1, SMTT(30) DEF At
  <1>3. ASSUME NEW i \in 1..Len(t)
        PROVE  b[it + Len(s) + i - 1] = t[i]
    <2> DEFINE j == Len(s) + i
    <2>1. j \in 1..Len(s) + Len(t) /\ ~(j <= Len(s)) /\ j - Len(s) = i
      BY <1>1
    <2>2. (s \o t)[j] = t[i] /\ b[it + j - 1] = (s \o t)[j]
      BY <1>1, <2>1, ZenonT(40) DEF At
    <2>3. it + j - 1 = it + Len(s) + i - 1
      BY <1>1 DEF At
    <2> QED
      BY <2>2, <2>3
  <1>4. it + Len(s) \in Nat \ {0} /\ it + Len(s) + Len(t) <= Len(b) + 1
    BY <1>1 DEF At
  <1> QED
    BY <1>2, <1>3, <1>4 DEF At

-----------------------------------------------------------------------------
(* Integers.                                                               *)

LEMMA JoinFacts ==
  ASSUME NEW n \in Nat
  PROVE  High(n) \in Nat /\ Low(n) \in Byte /\ Join(Low(n), High(n)) = n
  BY DEF High, Low, Join, Byte

\* The four bytes of n and what is left of it.
LEMMA U32Bytes ==
  ASSUME NEW n \in Nat
  PROVE  /\ u32(n) \in Seq(Byte) /\ Len(u32(n)) = 4 /\ High(High(High(High(n)))) \in Nat
         /\ Join(Low(n), Join(Low(High(n)), Join(Low(High(High(n))),
                 Join(Low(High(High(High(n)))), High(High(High(High(n)))))))) = n
  <1>1. High(n) \in Nat /\ Low(n) \in Byte
    BY JoinFacts
  <1>2. High(High(n)) \in Nat /\ Low(High(n)) \in Byte
    BY <1>1, JoinFacts
  <1>3. High(High(High(n))) \in Nat /\ Low(High(High(n))) \in Byte
    BY <1>2, JoinFacts
  <1>4. High(High(High(High(n)))) \in Nat /\ Low(High(High(High(n)))) \in Byte
    BY <1>3, JoinFacts
  <1>5. u32(n) \in Seq(Byte) /\ Len(u32(n)) = 4
    BY <1>1, <1>2, <1>3, <1>4 DEF u32
  <1> QED
    BY <1>1, <1>2, <1>3, <1>4, <1>5, JoinFacts

LEMMA U64Bytes ==
  ASSUME NEW n \in Nat
  PROVE  u64(n) \in Seq(Byte) /\ Len(u64(n)) = 8
  <1> DEFINE w == u32(n)
             v == u32(High(High(High(High(n)))))
  <1>1. w \in Seq(Byte) /\ Len(w) = 4 /\ v \in Seq(Byte) /\ Len(v) = 4
    BY U32Bytes
  <1>2. u64(n) = w \o v
    BY DEF u64
  <1> HIDE DEF w, v
  <1>3. w \o v \in Seq(Byte) /\ Len(w \o v) = Len(w) + Len(v)
    BY Zenon, <1>1, ConcatProperties
  <1> QED
    BY <1>1, <1>2, <1>3

\* The decoder puts the bytes of n together again.
LEMMA NumberAt ==
  ASSUME NEW b, NEW it, NEW n \in Nat, At(b, it, u32(n))
  PROVE  number(b, it, High(High(High(High(n))))) = n
  <1>1. /\ b[it] = Low(n) /\ b[it + 1] = Low(High(n)) /\ b[it + 2] = Low(High(High(n)))
        /\ b[it + 3] = Low(High(High(High(n))))
    <2>1. /\ Len(u32(n)) = 4 /\ u32(n)[1] = Low(n) /\ u32(n)[2] = Low(High(n))
          /\ u32(n)[3] = Low(High(High(n))) /\ u32(n)[4] = Low(High(High(High(n))))
      BY DEF u32
    <2>2. it + 1 - 1 = it /\ it + 2 - 1 = it + 1 /\ it + 3 - 1 = it + 2 /\ it + 4 - 1 = it + 3
      BY DEF At
    <2>3. \A i \in 1..4 : b[it + i - 1] = u32(n)[i]
      BY <2>1 DEF At
    <2> QED
      BY <2>1, <2>2, <2>3
  <1> QED
    BY <1>1, U32Bytes, Zenon DEF number

\* What is there is taken.
LEMMA TakeAt ==
  ASSUME NEW b, NEW it, NEW s, NEW v, At(b, it, s)
  PROVE  Take(b, it, Len(s), v) = [it |-> it + Len(s), val |-> v]
  BY DEF At, Take

\* Both decoders read back a number that fits.
LEMMA GetU32 ==
  ASSUME NEW b, NEW it, NEW n, IsU32(n), At(b, it, u32(n))
  PROVE  get_u32(b, it) = [it |-> it + 4, val |-> n]
  <1>1. n \in Nat /\ High(High(High(High(n)))) = 0
    BY DEF IsU32
  <1>2. Len(u32(n)) = 4 /\ number(b, it, 0) = n
    BY <1>1, U32Bytes, NumberAt
  <1>3. Take(b, it, Len(u32(n)), n) = [it |-> it + Len(u32(n)), val |-> n]
    BY TakeAt
  <1> QED
    BY <1>2, <1>3 DEF get_u32

LEMMA GetU64 ==
  ASSUME NEW b, NEW it, NEW n, Len(b) \in Nat, IsU64(n), At(b, it, u64(n))
  PROVE  get_u64(b, it) = [it |-> it + 8, val |-> n]
  <1> DEFINE h == High(High(High(High(n))))
  <1>1. n \in Nat /\ h \in Nat /\ High(High(High(High(h)))) = 0
    BY DEF IsU64, IsU32
  <1>2. /\ u32(n) \in Seq(Byte) /\ Len(u32(n)) = 4 /\ u32(h) \in Seq(Byte)
        /\ Len(u64(n)) = 8 /\ u64(n) = u32(n) \o u32(h)
    BY <1>1, U32Bytes, U64Bytes DEF u64
  <1> HIDE DEF h
  <1>3. At(b, it, u32(n)) /\ At(b, it + 4, u32(h))
    <2> DEFINE v == u32(n)
               w == u32(h)
    <2>1. v \in Seq(Byte) /\ w \in Seq(Byte) /\ At(b, it, v \o w) /\ Len(v) = 4
      BY <1>2
    <2> HIDE DEF v, w
    <2>2. At(b, it, v) /\ At(b, it + Len(v), w)
      BY Zenon, <2>1, AtConcat
    <2> QED
      BY <2>1, <2>2 DEF v, w
  <1>4. number(b, it, h) = n /\ number(b, it + 4, 0) = h
    BY <1>1, <1>3, NumberAt DEF h
  <1>5. Take(b, it, Len(u64(n)), n) = [it |-> it + Len(u64(n)), val |-> n]
    BY TakeAt
  <1> QED
    BY <1>2, <1>4, <1>5 DEF get_u64

-----------------------------------------------------------------------------
(* Strings and structs.                                                    *)

\* A number below one that fits, fits.
LEMMA U32Below ==
  ASSUME NEW m, IsU32(m), NEW n \in Nat, n <= m
  PROVE  IsU32(n)
  <1>1. ASSUME NEW x \in Nat, NEW y \in Nat, x <= y
        PROVE  High(x) \in Nat /\ High(y) \in Nat /\ High(x) <= High(y)
    BY <1>1 DEF High
  <1>2. m \in Nat /\ High(High(High(High(m)))) = 0
    BY DEF IsU32
  <1>3. High(n) \in Nat /\ High(m) \in Nat /\ High(n) <= High(m)
    BY <1>1, <1>2
  <1>4. High(High(n)) \in Nat /\ High(High(m)) \in Nat /\ High(High(n)) <= High(High(m))
    BY <1>1, <1>3
  <1>5. /\ High(High(High(n))) \in Nat /\ High(High(High(m))) \in Nat
        /\ High(High(High(n))) <= High(High(High(m)))
    BY <1>1, <1>4
  <1>6. /\ High(High(High(High(n)))) \in Nat
        /\ High(High(High(High(n)))) <= High(High(High(High(m))))
    BY <1>1, <1>5
  <1>7. High(High(High(High(n)))) = 0
    BY <1>2, <1>6
  <1> QED
    BY <1>7 DEF IsU32

\* Everything in a buffer has a length that fits.
LEMMA LengthAt ==
  ASSUME NEW b, NEW it, NEW s \in Seq(Byte), IsU32(Len(b)), At(b, it, s)
  PROVE  Len(b) \in Nat /\ Len(s) \in Nat /\ IsU32(Len(s)) /\ it \in Nat \ {0}
  <1>1. Len(b) \in Nat /\ Len(s) \in Nat
    BY LenProperties DEF IsU32
  <1>2. Len(s) <= Len(b) /\ it \in Nat \ {0}
    BY <1>1 DEF At
  <1> QED
    BY <1>1, <1>2, U32Below

LEMMA StrBytes ==
  ASSUME NEW s \in Seq(Byte)
  PROVE  str(s) \in Seq(Byte) /\ Len(str(s)) = 4 + Len(s)
  <1> DEFINE w == u32(Len(s))
  <1>1. w \in Seq(Byte) /\ Len(w) = 4
    BY LenProperties, U32Bytes
  <1>2. str(s) = w \o s
    BY DEF str
  <1> HIDE DEF w
  <1>3. w \o s \in Seq(Byte) /\ Len(w \o s) = Len(w) + Len(s)
    BY Zenon, <1>1, ConcatProperties
  <1> QED
    BY <1>1, <1>2, <1>3

\* The decoder reads back a string.
LEMMA GetStr ==
  ASSUME NEW b, NEW it, NEW s \in Seq(Byte), IsU32(Len(b)), At(b, it, str(s))
  PROVE  get_str(b, it) = [it |-> it + Len(str(s)), val |-> s]
  <1> DEFINE w == u32(Len(s))
             n == Len(s)
             z == it + 4
  <1>1. Len(b) \in Nat /\ n \in Nat /\ it \in Nat \ {0} /\ z \in Nat \ {0}
    BY StrBytes, LengthAt, LenProperties
  <1>2. w \in Seq(Byte) /\ Len(w) = 4 /\ str(s) = w \o s /\ Len(str(s)) = 4 + n
    BY <1>1, U32Bytes, StrBytes DEF str
  <1>3. At(b, it, w) /\ At(b, z, s)
    <2> HIDE DEF w
    <2>1. At(b, it, w) /\ At(b, it + Len(w), s)
      BY <1>1, <1>2, AtConcat
    <2> QED
      BY <1>2, <2>1
  <1>4. IsU32(n)
    BY <1>3, LengthAt
  <1>5. get_u32(b, it) = [it |-> z, val |-> n]
    BY <1>3, <1>4, GetU32
  <1>6. SubSeq(b, z, z + n - 1) = s
    <2> HIDE DEF z
    <2>1. \A i \in 1..n : b[z + i - 1] = s[i] /\ s[i] \in Byte
      BY <1>3, ElementOfSeq DEF At
    <2>2. ASSUME NEW i \in z..(z + n - 1) PROVE b[i] \in Byte
      <3>1. i - z + 1 \in 1..n /\ z + (i - z + 1) - 1 = i
        BY <1>1
      <3> QED
        BY <2>1, <3>1
    <2>3. /\ SubSeq(b, z, z + n - 1) \in Seq(Byte)
          /\ Len(SubSeq(b, z, z + n - 1)) = IF z <= z + n - 1 THEN z + n - 1 - z + 1 ELSE 0
          /\ \A i \in 1..(z + n - 1 - z + 1) : SubSeq(b, z, z + n - 1)[i] = b[z + i - 1]
      <3>1. z \in Int /\ z + n - 1 \in Int
        BY <1>1
      <3> QED
        BY <2>2, <3>1, SubSeqProperties
    <2>4. z + n - 1 - z + 1 = n /\ (IF z <= z + n - 1 THEN n ELSE 0) = n
      BY <1>1
    <2>5. /\ Len(SubSeq(b, z, z + n - 1)) = n
          /\ \A i \in 1..n : SubSeq(b, z, z + n - 1)[i] = s[i]
      BY <2>1, <2>3, <2>4
    <2> QED
      BY Zenon, <2>3, <2>5, SeqEqual
  <1>7. Take(b, z, Len(s), s) = [it |-> z + Len(s), val |-> s]
    BY <1>3, TakeAt
  <1>8. z # 0 /\ z + n = it + Len(str(s))
    BY <1>1, <1>2
  <1> DEFINE r == get_u32(b, it)
  <1>9. /\ r.it = z /\ r.val = n
        /\ get_str(b, it) = IF r.it = 0 THEN r
                            ELSE Take(b, r.it, r.val, SubSeq(b, r.it, r.it + r.val - 1))
    BY <1>5 DEF get_str
  <1> HIDE DEF z, r
  <1> QED
    BY Zenon, <1>6, <1>7, <1>8, <1>9

LEMMA EncodeBytes ==
  ASSUME NEW f \in Seq(Byte)
  PROVE  ENCODE(f) \in Seq(Byte) /\ Len(ENCODE(f)) = 6 + Len(f)
  <1> DEFINE w == u32(Len(f))
             v == <<1, 1>>
  <1>1. w \in Seq(Byte) /\ Len(w) = 4 /\ v \in Seq(Byte) /\ Len(v) = 2 /\ Len(f) \in Nat
    BY LenProperties, U32Bytes DEF Byte
  <1>2. ENCODE(f) = (v \o w) \o f
    BY DEF ENCODE
  <1> HIDE DEF w, v
  <1>3. v \o w \in Seq(Byte) /\ Len(v \o w) = Len(v) + Len(w)
    BY Zenon, <1>1, ConcatProperties
  <1>4. (v \o w) \o f \in Seq(Byte) /\ Len((v \o w) \o f) = Len(v \o w) + Len(f)
    BY <1>3, ConcatProperties
  <1> QED
    BY <1>1, <1>2, <1>3, <1>4

\* The header of a struct is read, and its fields follow.
LEMMA StartAt ==
  ASSUME NEW b, NEW it, NEW f \in Seq(Byte), IsU32(Len(b)), At(b, it, ENCODE(f))
  PROVE  /\ DECODE_START(b, it) = [it |-> it + 6, end |-> it + 6 + Len(f)]
         /\ At(b, it + 6, f)
  <1> DEFINE w == u32(Len(f))
             v == <<1, 1>>
             n == Len(f)
  <1>1. Len(b) \in Nat /\ n \in Nat /\ it \in Nat \ {0}
    BY EncodeBytes, LengthAt, LenProperties
  <1>2. w \in Seq(Byte) /\ Len(w) = 4 /\ v \in Seq(Byte) /\ Len(v) = 2 /\ v[2] = 1
    BY <1>1, U32Bytes DEF Byte
  <1>3. ENCODE(f) = (v \o w) \o f
    BY DEF ENCODE
  <1>4. At(b, it, v) /\ At(b, it + 2, w) /\ At(b, it + 6, f)
    <2> HIDE DEF w, v
    <2>1. v \o w \in Seq(Byte) /\ Len(v \o w) = 6
      <3>1. v \o w \in Seq(Byte) /\ Len(v \o w) = Len(v) + Len(w)
        BY <1>2, ConcatProperties, Zenon
      <3> QED
        BY <1>2, <3>1
    <2>2. At(b, it, v \o w) /\ At(b, it + Len(v \o w), f)
      BY Zenon, <1>1, <1>3, <2>1, AtConcat
    <2>3. At(b, it, v) /\ At(b, it + Len(v), w)
      BY Zenon, <1>1, <1>2, <2>2, AtConcat
    <2> QED
      BY <1>2, <2>1, <2>2, <2>3
  <1>5. IsU32(n)
    BY <1>4, LengthAt
  <1>6. get_u32(b, it + 2) = [it |-> it + 6, val |-> n]
    <2>1. get_u32(b, it + 2) = [it |-> it + 2 + 4, val |-> n]
      BY <1>4, <1>5, GetU32
    <2> QED
      BY <1>1, <2>1
  <1>7. get_u8(b, it + 1) = [it |-> it + 2, val |-> 1]
    <2>1. b[it + 2 - 1] = v[2] /\ it + 2 <= Len(b) + 1
      BY <1>2, <1>4, SMTT(30) DEF At
    <2>2. b[it + 1] = 1
      BY <1>1, <1>2, <2>1
    <2> QED
      BY <1>1, <2>1, <2>2 DEF get_u8, Take
  <1>8. it # 0 /\ it + 6 # 0 /\ ~(1 > 1) /\ ~(it + 6 + n > Len(b) + 1)
    BY <1>1, <1>4 DEF At
  <1> QED
    BY <1>4, <1>6, <1>7, <1>8 DEF DECODE_START

\* The reader took exactly the fields.
LEMMA FinishAt ==
  ASSUME NEW it, NEW end \in Nat \ {0}, NEW v, it # 0
  PROVE  DECODE_FINISH([it |-> it, end |-> end], [it |-> end, val |-> v])
           = [it |-> end, val |-> v]
  BY DEF DECODE_FINISH

-----------------------------------------------------------------------------
(* The structs.                                                            *)

\* Two, three and four fields, one after the other.
LEMMA TwoFields ==
  ASSUME NEW p \in Seq(Byte), NEW q \in Seq(Byte)
  PROVE  /\ p \o q \in Seq(Byte) /\ Len(p \o q) = Len(p) + Len(q)
         /\ Len(p) \in Nat /\ Len(q) \in Nat
         /\ \A b, it : IsU32(Len(b)) /\ At(b, it, p \o q) =>
              it \in Nat \ {0} /\ At(b, it, p) /\ At(b, it + Len(p), q)
  <1>1. /\ p \o q \in Seq(Byte) /\ Len(p \o q) = Len(p) + Len(q)
        /\ Len(p) \in Nat /\ Len(q) \in Nat
    BY ConcatProperties, LenProperties, Zenon
  <1>2. ASSUME NEW b, NEW it, IsU32(Len(b)), At(b, it, p \o q)
        PROVE  it \in Nat \ {0} /\ At(b, it, p) /\ At(b, it + Len(p), q)
    <2>1. Len(b) \in Nat /\ it \in Nat \ {0}
      BY <1>2 DEF IsU32, At
    <2> QED
      BY <1>2, <2>1, AtConcat, Zenon
  <1> QED
    BY <1>1, <1>2, Zenon

LEMMA ThreeFields ==
  ASSUME NEW p \in Seq(Byte), NEW q \in Seq(Byte), NEW r \in Seq(Byte)
  PROVE  /\ p \o q \o r \in Seq(Byte) /\ Len(p \o q \o r) = Len(p) + Len(q) + Len(r)
         /\ Len(p) \in Nat /\ Len(q) \in Nat /\ Len(r) \in Nat
         /\ \A b, it : IsU32(Len(b)) /\ At(b, it, p \o q \o r) =>
              /\ it \in Nat \ {0} /\ At(b, it, p) /\ At(b, it + Len(p), q)
              /\ At(b, it + Len(p) + Len(q), r)
  <1> DEFINE pq == p \o q
  <1>1. /\ pq \in Seq(Byte) /\ Len(pq) = Len(p) + Len(q)
        /\ Len(p) \in Nat /\ Len(q) \in Nat
        /\ \A b, it : IsU32(Len(b)) /\ At(b, it, pq) =>
             it \in Nat \ {0} /\ At(b, it, p) /\ At(b, it + Len(p), q)
    BY TwoFields, Zenon
  <1> HIDE DEF pq
  <1>2. /\ pq \o r \in Seq(Byte) /\ Len(pq \o r) = Len(pq) + Len(r) /\ Len(r) \in Nat
        /\ \A b, it : IsU32(Len(b)) /\ At(b, it, pq \o r) =>
             At(b, it, pq) /\ At(b, it + Len(pq), r)
    BY <1>1, TwoFields, Zenon
  <1>3. ASSUME NEW b, NEW it, IsU32(Len(b)), At(b, it, pq \o r)
        PROVE  /\ it \in Nat \ {0} /\ At(b, it, p) /\ At(b, it + Len(p), q)
               /\ At(b, it + Len(p) + Len(q), r)
    <2>1. At(b, it, pq) /\ At(b, it + Len(pq), r)
      BY <1>2, <1>3, Zenon
    <2>2. it \in Nat \ {0} /\ At(b, it, p) /\ At(b, it + Len(p), q)
      BY <1>1, <1>3, <2>1, Zenon
    <2>3. it + Len(pq) = it + Len(p) + Len(q)
      BY <1>1, <2>2
    <2> QED
      BY <2>1, <2>2, <2>3, Zenon
  <1>4. Len(pq \o r) = Len(p) + Len(q) + Len(r)
    BY <1>1, <1>2, Zenon
  <1> QED
    BY <1>1, <1>2, <1>3, <1>4, Zenon DEF pq

LEMMA FourFields ==
  ASSUME NEW p \in Seq(Byte), NEW q \in Seq(Byte), NEW r \in Seq(Byte), NEW t \in Seq(Byte)
  PROVE  /\ p \o q \o r \o t \in Seq(Byte)
         /\ Len(p \o q \o r \o t) = Len(p) + Len(q) + Len(r) + Len(t)
         /\ Len(p) \in Nat /\ Len(q) \in Nat /\ Len(r) \in Nat /\ Len(t) \in Nat
         /\ \A b, it : IsU32(Len(b)) /\ At(b, it, p \o q \o r \o t) =>
              /\ it \in Nat \ {0} /\ At(b, it, p) /\ At(b, it + Len(p), q)
              /\ At(b, it + Len(p) + Len(q), r) /\ At(b, it + Len(p) + Len(q) + Len(r), t)
  <1> DEFINE pqr == p \o q \o r
  <1>1. /\ pqr \in Seq(Byte) /\ Len(pqr) = Len(p) + Len(q) + Len(r)
        /\ Len(p) \in Nat /\ Len(q) \in Nat /\ Len(r) \in Nat
        /\ \A b, it : IsU32(Len(b)) /\ At(b, it, pqr) =>
             /\ it \in Nat \ {0} /\ At(b, it, p) /\ At(b, it + Len(p), q)
             /\ At(b, it + Len(p) + Len(q), r)
    BY ThreeFields, SMTT(30)
  <1> HIDE DEF pqr
  <1>2. /\ pqr \o t \in Seq(Byte) /\ Len(pqr \o t) = Len(pqr) + Len(t) /\ Len(t) \in Nat
        /\ \A b, it : IsU32(Len(b)) /\ At(b, it, pqr \o t) =>
             At(b, it, pqr) /\ At(b, it + Len(pqr), t)
    BY <1>1, TwoFields, Zenon
  <1>3. ASSUME NEW b, NEW it, IsU32(Len(b)), At(b, it, pqr \o t)
        PROVE  /\ it \in Nat \ {0} /\ At(b, it, p) /\ At(b, it + Len(p), q)
               /\ At(b, it + Len(p) + Len(q), r) /\ At(b, it + Len(p) + Len(q) + Len(r), t)
    <2>1. At(b, it, pqr) /\ At(b, it + Len(pqr), t)
      BY <1>2, <1>3, Zenon
    <2>2. /\ it \in Nat \ {0} /\ At(b, it, p) /\ At(b, it + Len(p), q)
          /\ At(b, it + Len(p) + Len(q), r)
      BY <1>1, <1>3, <2>1, Zenon
    <2>3. it + Len(pqr) = it + Len(p) + Len(q) + Len(r)
      BY <1>1, <2>2
    <2> QED
      BY <2>1, <2>2, <2>3, Zenon
  <1>4. Len(pqr \o t) = Len(p) + Len(q) + Len(r) + Len(t)
    BY <1>1, <1>2, Zenon
  <1> QED
    BY <1>1, <1>2, <1>3, <1>4, Zenon DEF pqr

\* The descriptor of a replica's memory is read back.
LEMMA DescriptorAt ==
  ASSUME NEW d \in Descriptor
  PROVE  /\ Descriptor_encode(d) \in Seq(Byte)
         /\ \A b, it : IsU32(Len(b)) /\ At(b, it, Descriptor_encode(d)) =>
              Descriptor_decode(b, it) = [it |-> it + Len(Descriptor_encode(d)), val |-> d]
  <1> DEFINE p == u32(d.mr_desc_size)
             q == u32(d.pcfg_desc_size)
             r == str(d.descriptors)
             f == p \o q \o r
  <1>1. /\ IsU32(d.mr_desc_size) /\ IsU32(d.pcfg_desc_size) /\ d.descriptors \in Seq(Byte)
        /\ d = [mr_desc_size |-> d.mr_desc_size, pcfg_desc_size |-> d.pcfg_desc_size,
                descriptors |-> d.descriptors]
    BY TypesAssumption DEF Descriptor
  <1>2. p \in Seq(Byte) /\ Len(p) = 4 /\ q \in Seq(Byte) /\ Len(q) = 4 /\ r \in Seq(Byte)
    BY <1>1, U32Bytes, StrBytes DEF IsU32
  <1>3. Descriptor_encode(d) = ENCODE(f)
    BY DEF Descriptor_encode
  <1> HIDE DEF p, q, r
  <1>4. /\ f \in Seq(Byte) /\ Len(f) = Len(p) + Len(q) + Len(r) /\ Len(r) \in Nat
        /\ \A b, it : IsU32(Len(b)) /\ At(b, it, f) =>
             /\ it \in Nat \ {0} /\ At(b, it, p) /\ At(b, it + Len(p), q)
             /\ At(b, it + Len(p) + Len(q), r)
    <2>1. p \in Seq(Byte) /\ q \in Seq(Byte) /\ r \in Seq(Byte)
      BY <1>2
    <2> QED
      BY <2>1, ThreeFields, SMTT(30)
  <1>5. ENCODE(f) \in Seq(Byte) /\ Len(ENCODE(f)) = 6 + Len(f)
    BY <1>4, EncodeBytes, Zenon
  <1> HIDE DEF f
  <1>6. ASSUME NEW b, NEW it, IsU32(Len(b)), At(b, it, ENCODE(f))
        PROVE  Descriptor_decode(b, it) = [it |-> it + Len(ENCODE(f)), val |-> d]
    <2> DEFINE s    == DECODE_START(b, it)
               mr   == get_u32(b, s.it)
               pcfg == get_u32(b, mr.it)
               text == get_str(b, pcfg.it)
    <2>1. it \in Nat \ {0}
      BY <1>6 DEF At
    <2>2. s = [it |-> it + 6, end |-> it + 6 + Len(f)] /\ At(b, it + 6, f)
      BY <1>4, <1>6, StartAt
    <2>3. At(b, it + 6, p) /\ At(b, it + 6 + Len(p), q) /\ At(b, it + 6 + Len(p) + Len(q), r)
      BY <1>4, <1>6, <2>2, Zenon
    <2>4. At(b, it + 6, p) /\ At(b, it + 10, q) /\ At(b, it + 14, r)
      <3>1. it + 6 + Len(p) = it + 10 /\ it + 6 + Len(p) + Len(q) = it + 14
        BY <1>2, <2>1
      <3> QED
        BY <2>3, <3>1
    <2>5. /\ get_u32(b, it + 6) = [it |-> it + 6 + 4, val |-> d.mr_desc_size]
          /\ get_u32(b, it + 10) = [it |-> it + 10 + 4, val |-> d.pcfg_desc_size]
          /\ get_str(b, it + 14) = [it |-> it + 14 + Len(r), val |-> d.descriptors]
      BY <1>1, <1>6, <2>4, GetU32, GetStr DEF p, q, r
    <2>6. /\ it + 6 + 4 = it + 10 /\ it + 10 + 4 = it + 14
          /\ it + 14 + Len(r) = it + 6 + Len(f)
          /\ it + 6 + Len(f) = it + Len(ENCODE(f))
      BY <1>2, <1>4, <1>5, <2>1
    <2>7. /\ s.it = it + 6
          /\ mr = [it |-> it + 10, val |-> d.mr_desc_size]
      BY <2>2, <2>5, <2>6
    <2>8. pcfg = [it |-> it + 14, val |-> d.pcfg_desc_size]
      BY <2>5, <2>6, <2>7
    <2>9. text = [it |-> it + 6 + Len(f), val |-> d.descriptors]
      BY <2>5, <2>6, <2>8
    <2>10. Descriptor_decode(b, it)
             = DECODE_FINISH(s, [it |-> text.it,
                                 val |-> [mr_desc_size |-> mr.val, pcfg_desc_size |-> pcfg.val,
                                          descriptors |-> text.val]])
      BY DEF Descriptor_decode
    <2> HIDE DEF s, mr, pcfg, text
    <2>11. Descriptor_decode(b, it)
             = DECODE_FINISH([it |-> it + 6, end |-> it + 6 + Len(f)],
                             [it |-> it + 6 + Len(f), val |-> d])
      BY <1>1, <2>2, <2>7, <2>8, <2>9, <2>10
    <2>12. it + 6 # 0 /\ it + 6 + Len(f) \in Nat \ {0}
      BY <1>4, <2>1, <1>2
    <2> QED
      BY <2>6, <2>11, <2>12, FinishAt
  <1> QED
    BY <1>3, <1>5, <1>6

\* The name and the size of a replica are read back.
LEMMA CacheInfoAt ==
  ASSUME NEW i \in CacheInfo
  PROVE  /\ CacheInfo_encode(i) \in Seq(Byte)
         /\ \A b, it : IsU32(Len(b)) /\ At(b, it, CacheInfo_encode(i)) =>
              CacheInfo_decode(b, it) = [it |-> it + Len(CacheInfo_encode(i)), val |-> i]
  <1> DEFINE p == u32(i.cache_id)
             q == u64(i.cache_size)
             r == str(i.pool_name)
             t == str(i.image_name)
             f == p \o q \o r \o t
  <1>1. /\ IsU32(i.cache_id) /\ IsU64(i.cache_size)
        /\ i.pool_name \in Seq(Byte) /\ i.image_name \in Seq(Byte)
        /\ i = [cache_id |-> i.cache_id, cache_size |-> i.cache_size,
                pool_name |-> i.pool_name, image_name |-> i.image_name]
    BY TypesAssumption DEF CacheInfo
  <1>2. /\ p \in Seq(Byte) /\ Len(p) = 4 /\ q \in Seq(Byte) /\ Len(q) = 8
        /\ r \in Seq(Byte) /\ t \in Seq(Byte)
    BY <1>1, U32Bytes, U64Bytes, StrBytes DEF IsU32, IsU64
  <1>3. CacheInfo_encode(i) = ENCODE(f)
    BY DEF CacheInfo_encode
  <1> HIDE DEF p, q, r, t
  <1>4. /\ f \in Seq(Byte) /\ Len(f) = Len(p) + Len(q) + Len(r) + Len(t)
        /\ Len(r) \in Nat /\ Len(t) \in Nat
        /\ \A b, it : IsU32(Len(b)) /\ At(b, it, f) =>
             /\ it \in Nat \ {0} /\ At(b, it, p) /\ At(b, it + Len(p), q)
             /\ At(b, it + Len(p) + Len(q), r) /\ At(b, it + Len(p) + Len(q) + Len(r), t)
    <2>1. p \in Seq(Byte) /\ q \in Seq(Byte) /\ r \in Seq(Byte) /\ t \in Seq(Byte)
      BY <1>2
    <2> QED
      BY <2>1, FourFields, SMTT(30)
  <1>5. ENCODE(f) \in Seq(Byte) /\ Len(ENCODE(f)) = 6 + Len(f)
    BY <1>4, EncodeBytes, Zenon
  <1> HIDE DEF f
  <1>6. ASSUME NEW b, NEW it, IsU32(Len(b)), At(b, it, ENCODE(f))
        PROVE  CacheInfo_decode(b, it) = [it |-> it + Len(ENCODE(f)), val |-> i]
    <2> DEFINE s    == DECODE_START(b, it)
               id   == get_u32(b, s.it)
               size == get_u64(b, id.it)
               pool == get_str(b, size.it)
               name == get_str(b, pool.it)
               z    == it + 18 + Len(r)
    <2>1. it \in Nat \ {0} /\ Len(b) \in Nat
      BY <1>6 DEF At, IsU32
    <2>2. s = [it |-> it + 6, end |-> it + 6 + Len(f)] /\ At(b, it + 6, f)
      BY <1>4, <1>6, StartAt, Zenon
    <2>3. /\ At(b, it + 6, p) /\ At(b, it + 6 + Len(p), q) /\ At(b, it + 6 + Len(p) + Len(q), r)
          /\ At(b, it + 6 + Len(p) + Len(q) + Len(r), t)
      BY <1>4, <1>6, <2>2, Zenon
    <2>4. At(b, it + 6, p) /\ At(b, it + 10, q) /\ At(b, it + 18, r) /\ At(b, z, t)
      <3>1. /\ it + 6 + Len(p) = it + 10 /\ it + 6 + Len(p) + Len(q) = it + 18
            /\ it + 6 + Len(p) + Len(q) + Len(r) = z
        BY <1>2, <1>4, <2>1
      <3> QED
        BY <2>3, <3>1
    <2> HIDE DEF z
    <2>5. /\ get_u32(b, it + 6) = [it |-> it + 6 + 4, val |-> i.cache_id]
          /\ get_u64(b, it + 10) = [it |-> it + 10 + 8, val |-> i.cache_size]
          /\ get_str(b, it + 18) = [it |-> it + 18 + Len(r), val |-> i.pool_name]
          /\ get_str(b, z) = [it |-> z + Len(t), val |-> i.image_name]
      BY <1>1, <1>6, <2>1, <2>4, GetU32, GetU64, GetStr DEF p, q, r, t
    <2>6. /\ it + 6 + 4 = it + 10 /\ it + 10 + 8 = it + 18
          /\ it + 18 + Len(r) = z /\ z + Len(t) = it + 6 + Len(f)
          /\ it + 6 + Len(f) = it + Len(ENCODE(f))
      BY <1>2, <1>4, <1>5, <2>1 DEF z
    <2>7. s.it = it + 6 /\ id = [it |-> it + 10, val |-> i.cache_id]
      BY <2>2, <2>5, <2>6
    <2>8. size = [it |-> it + 18, val |-> i.cache_size]
      BY <2>5, <2>6, <2>7
    <2>9. pool = [it |-> z, val |-> i.pool_name]
      BY <2>5, <2>6, <2>8
    <2>10. name = [it |-> it + 6 + Len(f), val |-> i.image_name]
      BY <2>5, <2>6, <2>9
    <2>11. CacheInfo_decode(b, it)
             = DECODE_FINISH(s, [it |-> name.it,
                                 val |-> [cache_id |-> id.val, cache_size |-> size.val,
                                          pool_name |-> pool.val, image_name |-> name.val]])
      BY DEF CacheInfo_decode
    <2> HIDE DEF s, id, size, pool, name
    <2>12. CacheInfo_decode(b, it)
             = DECODE_FINISH([it |-> it + 6, end |-> it + 6 + Len(f)],
                             [it |-> it + 6 + Len(f), val |-> i])
      BY <1>1, <2>2, <2>7, <2>8, <2>9, <2>10, <2>11
    <2>13. it + 6 # 0 /\ it + 6 + Len(f) \in Nat \ {0}
      BY <1>4, <2>1, <1>2
    <2> QED
      BY <2>6, <2>12, <2>13, FinishAt
  <1> QED
    BY <1>3, <1>5, <1>6

-----------------------------------------------------------------------------
(* The messages.                                                           *)

\* A struct at it holds n and then the bytes of rest.
Opens(b, it, n, rest) ==
  /\ DECODE_START(b, it) = [it |-> it + 6, end |-> it + 10 + Len(rest)]
  /\ get_u32(b, it + 6) = [it |-> it + 10, val |-> n]
  /\ At(b, it + 10, rest) /\ it \in Nat \ {0} /\ Len(rest) \in Nat

\* Every kind of message is a struct that starts with its type, which the
\* decoder of the plain class reads whatever fields come after it.
LEMMA RequestAt ==
  ASSUME NEW n, IsU32(n), NEW rest \in Seq(Byte), NEW b, NEW it, IsU32(Len(b)),
         At(b, it, ENCODE(u32(n) \o rest))
  PROVE  /\ Request_decode(b, it) = [it |-> it + 10 + Len(rest), val |-> [type |-> n]]
         /\ Opens(b, it, n, rest)
  <1> DEFINE p == u32(n)
             f == p \o rest
             s == DECODE_START(b, it)
             t == get_u32(b, s.it)
             e == it + 10 + Len(rest)
  <1>1. p \in Seq(Byte) /\ Len(p) = 4
    BY U32Bytes DEF IsU32
  <1> HIDE DEF p
  <1>2. /\ f \in Seq(Byte) /\ Len(f) = Len(p) + Len(rest) /\ Len(rest) \in Nat
        /\ \A c, j : IsU32(Len(c)) /\ At(c, j, f) =>
             j \in Nat \ {0} /\ At(c, j, p) /\ At(c, j + Len(p), rest)
    <2>1. p \in Seq(Byte)
      BY <1>1
    <2> QED
      BY <2>1, TwoFields, SMTT(30)
  <1>3. At(b, it, ENCODE(f))
    BY DEF p
  <1> HIDE DEF f
  <1>4. it \in Nat \ {0}
    BY <1>3 DEF At
  <1>5. s = [it |-> it + 6, end |-> it + 6 + Len(f)] /\ At(b, it + 6, f)
    BY <1>2, <1>3, StartAt
  <1>6. it + 6 + Len(p) = it + 10 /\ it + 6 + 4 = it + 10 /\ it + 6 + Len(f) = e
    BY <1>1, <1>2, <1>4
  <1>7. At(b, it + 6, p) /\ At(b, it + 10, rest)
    <2>1. At(b, it + 6, p) /\ At(b, it + 6 + Len(p), rest)
      BY <1>2, <1>5, Zenon
    <2> QED
      BY <1>6, <2>1
  <1>8. get_u32(b, it + 6) = [it |-> it + 10, val |-> n]
    <2>1. get_u32(b, it + 6) = [it |-> it + 6 + 4, val |-> n]
      BY <1>7, GetU32 DEF p
    <2> QED
      BY <1>6, <2>1
  <1>9. s = [it |-> it + 6, end |-> e] /\ t = [it |-> it + 10, val |-> n]
    BY <1>5, <1>6, <1>8
  <1>10. Request_decode(b, it) = DECODE_FINISH(s, [it |-> t.it, val |-> [type |-> t.val]])
    BY DEF Request_decode
  <1>11. Request_decode(b, it) = [it |-> e, val |-> [type |-> n]]
    <2> HIDE DEF s, t
    <2>1. it + 6 # 0 /\ it + 10 # 0 /\ ~(it + 10 > e)
      BY <1>2, <1>4
    <2> HIDE DEF e
    <2> QED
      BY <1>9, <1>10, <2>1 DEF DECODE_FINISH
  <1> QED
    BY <1>2, <1>4, <1>7, <1>8, <1>9, <1>11 DEF Opens

LEMMA InitRequestAt ==
  ASSUME NEW m \in InitMsg, NEW b, NEW it, IsU32(Len(b)), At(b, it, InitRequest_encode(m))
  PROVE  InitRequest_decode(b, it).val = m
  <1> DEFINE r == CacheInfo_encode(m.info)
             s == DECODE_START(b, it)
             t == get_u32(b, s.it)
             info == CacheInfo_decode(b, t.it)
             e == it + 10 + Len(r)
  <1>1. /\ IsU32(m.type) /\ m.info \in CacheInfo /\ m = [type |-> m.type, info |-> m.info]
    <2>1. m.type = 1 /\ m.info \in CacheInfo /\ m = [type |-> m.type, info |-> m.info]
      BY DEF InitMsg, INIT_REQUEST
    <2> QED
      BY <2>1 DEF IsU32, High
  <1>2. /\ r \in Seq(Byte)
        /\ \A c, j : IsU32(Len(c)) /\ At(c, j, r) =>
             CacheInfo_decode(c, j) = [it |-> j + Len(r), val |-> m.info]
    BY <1>1, CacheInfoAt
  <1>3. At(b, it, ENCODE(u32(m.type) \o r))
    BY DEF InitRequest_encode
  <1> HIDE DEF r
  <1>4. /\ DECODE_START(b, it) = [it |-> it + 6, end |-> it + 10 + Len(r)]
        /\ get_u32(b, it + 6) = [it |-> it + 10, val |-> m.type]
        /\ At(b, it + 10, r) /\ it \in Nat \ {0} /\ Len(r) \in Nat
    <2>1. IsU32(m.type) /\ r \in Seq(Byte)
      BY <1>1, <1>2
    <2>2. Opens(b, it, m.type, r)
      BY <1>3, <2>1, RequestAt, Zenon
    <2> QED
      BY <2>2 DEF Opens
  <1>5. s = [it |-> it + 6, end |-> e] /\ t = [it |-> it + 10, val |-> m.type]
    BY <1>4
  <1>6. info = [it |-> e, val |-> m.info]
    BY <1>2, <1>4, <1>5
  <1>7. InitRequest_decode(b, it)
          = DECODE_FINISH(s, [it |-> info.it, val |-> [type |-> t.val, info |-> info.val]])
    BY DEF InitRequest_decode
  <1>8. it + 6 # 0 /\ e \in Nat \ {0}
    BY <1>4
  <1> HIDE DEF s, t, info, e
  <1>9. InitRequest_decode(b, it)
          = DECODE_FINISH([it |-> it + 6, end |-> e], [it |-> e, val |-> m])
    BY <1>1, <1>5, <1>6, <1>7
  <1> QED
    BY <1>8, <1>9, FinishAt

LEMMA InitReplyAt ==
  ASSUME NEW m \in InitReply, NEW b, NEW it, IsU32(Len(b)), At(b, it, InitReply_encode(m))
  PROVE  InitReply_decode(b, it).val = m
  <1> DEFINE r == Descriptor_encode(m.desc)
             s == DECODE_START(b, it)
             t == get_u32(b, s.it)
             desc == Descriptor_decode(b, t.it)
             e == it + 10 + Len(r)
  <1>1. /\ IsU32(m.type) /\ m.desc \in Descriptor /\ m = [type |-> m.type, desc |-> m.desc]
    <2>1. m.type \in {17, 18} /\ m.desc \in Descriptor /\ m = [type |-> m.type, desc |-> m.desc]
      BY DEF InitReply, INIT_SUCCESSED, INIT_FAILED
    <2> QED
      BY <2>1 DEF IsU32, High
  <1>2. /\ r \in Seq(Byte)
        /\ \A c, j : IsU32(Len(c)) /\ At(c, j, r) =>
             Descriptor_decode(c, j) = [it |-> j + Len(r), val |-> m.desc]
    BY <1>1, DescriptorAt
  <1>3. At(b, it, ENCODE(u32(m.type) \o r))
    BY DEF InitReply_encode
  <1> HIDE DEF r
  <1>4. /\ DECODE_START(b, it) = [it |-> it + 6, end |-> it + 10 + Len(r)]
        /\ get_u32(b, it + 6) = [it |-> it + 10, val |-> m.type]
        /\ At(b, it + 10, r) /\ it \in Nat \ {0} /\ Len(r) \in Nat
    <2>1. IsU32(m.type) /\ r \in Seq(Byte)
      BY <1>1, <1>2
    <2>2. Opens(b, it, m.type, r)
      BY <1>3, <2>1, RequestAt, Zenon
    <2> QED
      BY <2>2 DEF Opens
  <1>5. s = [it |-> it + 6, end |-> e] /\ t = [it |-> it + 10, val |-> m.type]
    BY <1>4
  <1>6. desc = [it |-> e, val |-> m.desc]
    BY <1>2, <1>4, <1>5
  <1>7. InitReply_decode(b, it)
          = DECODE_FINISH(s, [it |-> desc.it, val |-> [type |-> t.val, desc |-> desc.val]])
    BY DEF InitReply_decode
  <1>8. it + 6 # 0 /\ e \in Nat \ {0}
    BY <1>4
  <1> HIDE DEF s, t, desc, e
  <1>9. InitReply_decode(b, it)
          = DECODE_FINISH([it |-> it + 6, end |-> e], [it |-> e, val |-> m])
    BY <1>1, <1>5, <1>6, <1>7
  <1> QED
    BY <1>8, <1>9, FinishAt

-----------------------------------------------------------------------------
(* The buffer.                                                             *)

\* The inductive invariant: the bytes of what was put last are at the start
\* of the buffer.
BufferInv ==
  /\ TypeOK
  /\ last \in Message => At(buf, 1, encode(last))
  /\ last \in Pair => At(buf, 1, CacheInfo_encode(last.info) \o Descriptor_encode(last.desc))

\* A buffer is a sequence of bytes with a length that fits in 4 of them.
LEMMA BufferBytes ==
  ASSUME NEW b \in [1..MSG_SIZE -> Byte]
  PROVE  b \in Seq(Byte) /\ Len(b) = MSG_SIZE /\ MSG_SIZE \in Nat /\ IsU32(Len(b))
  <1>1. MSG_SIZE \in Nat /\ IsU32(MSG_SIZE)
    BY TypesAssumption DEF IsU32
  <1>2. b \in Seq(Byte) /\ Len(b) = MSG_SIZE
    BY <1>1
  <1> QED
    BY <1>1, <1>2

\* memcpy over the start of the buffer puts the bytes there and keeps its size.
LEMMA OverlayAt ==
  ASSUME NEW b \in [1..MSG_SIZE -> Byte], NEW e \in Seq(Byte), Len(e) <= MSG_SIZE
  PROVE  Overlay(b, e) \in [1..MSG_SIZE -> Byte] /\ At(Overlay(b, e), 1, e)
  <1> DEFINE t == SubSeq(b, Len(e) + 1, MSG_SIZE)
  <1>1. MSG_SIZE \in Nat /\ Len(e) \in Nat
    BY BufferBytes, LenProperties
  <1>2. t \in Seq(Byte) /\ Len(t) = MSG_SIZE - Len(e)
    BY <1>1, SubSeqProperties
  <1> HIDE DEF t
  <1>3. /\ e \o t \in Seq(Byte) /\ Len(e \o t) = Len(e) + Len(t)
        /\ \A i \in 1..Len(e) + Len(t) : (e \o t)[i] = IF i <= Len(e) THEN e[i] ELSE t[i - Len(e)]
    BY <1>2, ConcatProperties, Zenon
  <1>4. Len(e \o t) = MSG_SIZE
    BY <1>1, <1>2, <1>3
  <1>5. e \o t \in [1..MSG_SIZE -> Byte]
    BY <1>3, <1>4, LenProperties, Zenon
  <1>6. At(e \o t, 1, e)
    BY <1>1, <1>2, <1>3 DEF At
  <1> QED
    BY <1>5, <1>6, Zenon DEF Overlay, t

\* The type says of which class a message is.
LEMMA Classes ==
  ASSUME NEW m \in Message
  PROVE  /\ m \in Request => m \notin InitMsg /\ m \notin InitReply
         /\ m \in InitMsg => m \notin InitReply
         /\ m \notin Pair /\ m # None /\ IsU32(m.type)
  <1>1. /\ m \in Request => m.type \in {2, 33, 34} /\ m = [type |-> m.type]
        /\ m \in InitMsg => m.type = 1 /\ m = [type |-> m.type, info |-> m.info]
        /\ m \in InitReply => m.type \in {17, 18} /\ m = [type |-> m.type, desc |-> m.desc]
    BY DEF Request, InitMsg, InitReply, FINISHED_REQUEST, FINISHED_SUCCCESSED, FINISHED_FAILED,
           INIT_REQUEST, INIT_SUCCESSED, INIT_FAILED
  <1>2. m.type \in {1, 2, 17, 18, 33, 34}
    BY <1>1 DEF Message
  <1>3. IsU32(m.type)
    BY <1>2 DEF IsU32, High
  <1>4. m # None
    BY <1>2 DEF None
  <1>5. m \notin Pair
    BY DEF Message, Request, InitMsg, InitReply, Pair
  <1> QED
    BY <1>1, <1>3, <1>4, <1>5

\* What encode is for each class, and that it is bytes.
LEMMA EncodeClass ==
  ASSUME NEW m \in Message
  PROVE  /\ m \in Request   => encode(m) = ENCODE(u32(m.type) \o << >>)
         /\ m \in InitMsg   => encode(m) = InitRequest_encode(m)
         /\ m \in InitReply => encode(m) = InitReply_encode(m)
         /\ \E rest \in Seq(Byte) : encode(m) = ENCODE(u32(m.type) \o rest)
         /\ encode(m) \in Seq(Byte)
  <1>1. /\ m \in Request   => encode(m) = Request_encode(m)
        /\ m \in InitMsg   => encode(m) = InitRequest_encode(m)
        /\ m \in InitReply => encode(m) = InitReply_encode(m)
    BY Classes DEF encode
  <1>2. IsU32(m.type) /\ u32(m.type) \in Seq(Byte) /\ << >> \in Seq(Byte)
    BY Classes, U32Bytes DEF IsU32
  <1>3. u32(m.type) = u32(m.type) \o << >>
    BY <1>2, ConcatEmptySeq
  <1>4. m \in Request => encode(m) = ENCODE(u32(m.type) \o << >>)
    BY <1>1, <1>3 DEF Request_encode
  <1>5. \E rest \in Seq(Byte) : encode(m) = ENCODE(u32(m.type) \o rest)
    <2>1. CASE m \in Request
      BY <1>2, <1>4, <2>1, Zenon
    <2>2. CASE m \in InitMsg
      <3>1. m.info \in CacheInfo
        BY <2>2 DEF InitMsg
      <3>2. CacheInfo_encode(m.info) \in Seq(Byte)
        BY <3>1, CacheInfoAt
      <3> QED
        BY <1>1, <2>2, <3>2, Zenon DEF InitRequest_encode
    <2>3. CASE m \in InitReply
      <3>1. m.desc \in Descriptor
        BY <2>3 DEF InitReply
      <3>2. Descriptor_encode(m.desc) \in Seq(Byte)
        BY <3>1, DescriptorAt
      <3> QED
        BY <1>1, <2>3, <3>2, Zenon DEF InitReply_encode
    <2> QED
      BY <2>1, <2>2, <2>3 DEF Message
  <1>6. encode(m) \in Seq(Byte)
    <2>1. PICK rest \in Seq(Byte) : encode(m) = ENCODE(u32(m.type) \o rest)
      BY <1>5
    <2>2. u32(m.type) \o rest \in Seq(Byte)
      BY <1>2, ConcatProperties
    <2> QED
      BY <2>1, <2>2, EncodeBytes, Zenon
  <1> QED
    BY <1>1, <1>4, <1>5, <1>6

LEMMA BufferInit == Init => BufferInv
  <1> SUFFICES ASSUME Init PROVE BufferInv
    OBVIOUS
  <1>1. last = None /\ buf \in Fresh
    BY DEF Init
  <1>2. last \notin Message /\ last \notin Pair
    <2>1. last \notin Message
      BY <1>1, Classes
    <2> QED
      BY <1>1, <2>1 DEF None, Pair
  <1>3. TypeOK
    BY <1>1, TypesAssumption, Zenon DEF Init, TypeOK
  <1> QED
    BY <1>1, <1>2, <1>3 DEF BufferInv

LEMMA BufferStep == BufferInv /\ [Next]_vars => BufferInv'
  <1> SUFFICES ASSUME BufferInv, [Next]_vars PROVE BufferInv'
    OBVIOUS
  <1>1. TypeOK
    BY DEF BufferInv
  <1>2. ASSUME NEW m \in Message, Put(m)
        PROVE  BufferInv'
    <2> DEFINE e == encode(m)
    <2>1. e \in Seq(Byte) /\ Len(e) \in Nat /\ MSG_SIZE \in Nat
      BY <1>1, EncodeClass, BufferBytes, LenProperties DEF TypeOK
    <2>2. CASE Len(e) < MSG_SIZE /\ buf' = Overlay(buf, e) /\ last' = m /\ UNCHANGED aborted
      <3>1. buf' \in [1..MSG_SIZE -> Byte] /\ At(buf', 1, e)
        BY <1>1, <2>1, <2>2, OverlayAt DEF TypeOK
      <3>2. TypeOK'
        BY <1>1, <2>2, <3>1 DEF TypeOK
      <3>3. last' \notin Pair /\ last' # None
        BY <2>2, Classes
      <3> QED
        BY <2>2, <3>1, <3>2, <3>3 DEF BufferInv
    <2>3. CASE aborted' = TRUE /\ UNCHANGED <<buf, last>>
      BY <2>3 DEF BufferInv, TypeOK
    <2> QED
      BY <1>2, <2>2, <2>3, Zenon DEF Put
  <1>3. ASSUME NEW p \in Pair, Demo(p)
        PROVE  BufferInv'
    <2> DEFINE i == CacheInfo_encode(p.info)
               d == Descriptor_encode(p.desc)
               e == i \o d
    <2>1. /\ Len(e) <= MSG_SIZE /\ buf' = Overlay(buf, e) /\ last' = p /\ UNCHANGED aborted
      BY <1>3 DEF Demo
    <2>2. p.info \in CacheInfo /\ p.desc \in Descriptor
      BY DEF Pair
    <2>3. i \in Seq(Byte) /\ d \in Seq(Byte)
      BY <2>2, CacheInfoAt, DescriptorAt
    <2>4. e \in Seq(Byte)
      <3> HIDE DEF i, d
      <3> QED
        BY <2>3, ConcatProperties
    <2>5. buf' \in [1..MSG_SIZE -> Byte] /\ At(buf', 1, e)
      <3> HIDE DEF e
      <3> QED
        BY <1>1, <2>1, <2>4, OverlayAt DEF TypeOK
    <2>6. TypeOK'
      BY <1>1, <2>1, <2>5 DEF TypeOK
    <2>7. last' \notin Message /\ last' # None
      <3>1. last' \notin Message
        BY <2>1, Classes
      <3> QED
        BY <2>1, <3>1 DEF None, Pair
    <2> QED
      BY <2>1, <2>5, <2>6, <2>7 DEF BufferInv
  <1>4. CASE UNCHANGED vars
    BY <1>4 DEF vars, BufferInv, TypeOK
  <1> QED
    BY <1>2, <1>3, <1>4 DEF Next

\* The bytes of what was put last stay at the start of the buffer.
THEOREM BufferHolds == Spec => []BufferInv
  BY BufferInit, BufferStep, PTL DEF Spec

-----------------------------------------------------------------------------
(* What the reader gets.                                                   *)

\* The variables keep their types: the buffer is MSG_SIZE bytes whatever is
\* copied over it.
THEOREM BufferTypes == Spec => []TypeOK
  <1>1. BufferInv => TypeOK
    BY DEF BufferInv
  <1> QED
    BY <1>1, BufferHolds, PTL

\* Of names and descriptors of any length: the reader that expects what was
\* put gets it back, whatever tail of earlier messages follows it.
THEOREM MessagesRoundTrip == Spec => []RoundTrip
  <1>1. BufferInv => RoundTrip
    <2> SUFFICES ASSUME BufferInv PROVE RoundTrip
      OBVIOUS
    <2>1. IsU32(Len(buf))
      BY BufferBytes DEF BufferInv, TypeOK
    <2>2. last \in Message => At(buf, 1, encode(last))
      BY DEF BufferInv
    <2>3. ASSUME last \in Request
          PROVE  Request_decode(buf, 1).val = last
      <3>1. last \in Message /\ last = [type |-> last.type]
        BY <2>3 DEF Message, Request
      <3>2. At(buf, 1, ENCODE(u32(last.type) \o << >>)) /\ IsU32(last.type)
        BY <2>2, <2>3, <3>1, EncodeClass, Classes, Zenon
      <3>3. << >> \in Seq(Byte)
        OBVIOUS
      <3>4. Request_decode(buf, 1) = [it |-> 1 + 10 + Len(<< >>), val |-> [type |-> last.type]]
        BY <2>1, <3>2, <3>3, RequestAt, Zenon
      <3> QED
        BY <3>1, <3>4
    <2>4. ASSUME last \in InitMsg
          PROVE  InitRequest_decode(buf, 1).val = last
      <3>1. At(buf, 1, InitRequest_encode(last))
        BY <2>2, <2>4, EncodeClass, Zenon DEF Message
      <3> QED
        BY <2>1, <2>4, <3>1, InitRequestAt, Zenon
    <2>5. ASSUME last \in InitReply
          PROVE  InitReply_decode(buf, 1).val = last
      <3>1. At(buf, 1, InitReply_encode(last))
        BY <2>2, <2>5, EncodeClass, Zenon DEF Message
      <3> QED
        BY <2>1, <2>5, <3>1, InitReplyAt, Zenon
    <2> QED
      BY <2>3, <2>4, <2>5 DEF RoundTrip
  <1> QED
    BY <1>1, BufferHolds, PTL

\* The plain class tells the kind of every message, as get_descriptor needs.
THEOREM KindsReadable == Spec => []KindReadable
  <1>1. BufferInv => KindReadable
    <2> SUFFICES ASSUME BufferInv, last \in Message
                 PROVE  Request_decode(buf, 1).val = [type |-> last.type]
      BY DEF KindReadable
    <2>1. IsU32(Len(buf)) /\ At(buf, 1, encode(last)) /\ IsU32(last.type)
      BY BufferBytes, Classes DEF BufferInv, TypeOK
    <2>2. PICK rest \in Seq(Byte) : encode(last) = ENCODE(u32(last.type) \o rest)
      BY EncodeClass, Zenon
    <2>3. Request_decode(buf, 1) = [it |-> 1 + 10 + Len(rest), val |-> [type |-> last.type]]
      BY <2>1, <2>2, RequestAt, Zenon
    <2> QED
      BY <2>3
  <1> QED
    BY <1>1, BufferHolds, PTL

\* Two structs of any length in one buffer come back as they were.
THEOREM PairsReadable == Spec => []PairReadable
  <1>1. BufferInv => PairReadable
    <2> SUFFICES ASSUME BufferInv, last \in Pair PROVE PairReadable
      BY DEF PairReadable
    <2> DEFINE i == CacheInfo_encode(last.info)
               d == Descriptor_encode(last.desc)
               info == CacheInfo_decode(buf, 1)
    <2>1. last.info \in CacheInfo /\ last.desc \in Descriptor
      BY DEF Pair
    <2>2. /\ i \in Seq(Byte) /\ d \in Seq(Byte)
          /\ \A b, it : IsU32(Len(b)) /\ At(b, it, i) =>
               CacheInfo_decode(b, it) = [it |-> it + Len(i), val |-> last.info]
          /\ \A b, it : IsU32(Len(b)) /\ At(b, it, d) =>
               Descriptor_decode(b, it) = [it |-> it + Len(d), val |-> last.desc]
      BY <2>1, CacheInfoAt, DescriptorAt, Zenon
    <2>3. IsU32(Len(buf)) /\ At(buf, 1, i \o d)
      BY BufferBytes DEF BufferInv, TypeOK
    <2> HIDE DEF i, d
    <2>4. At(buf, 1, i) /\ At(buf, 1 + Len(i), d)
      BY <2>2, <2>3, AtConcat DEF IsU32
    <2>5. info = [it |-> 1 + Len(i), val |-> last.info]
      BY <2>2, <2>3, <2>4, Zenon
    <2>6. Descriptor_decode(buf, info.it) = [it |-> info.it + Len(d), val |-> last.desc]
      BY <2>2, <2>3, <2>4, <2>5
    <2>7. info.val = last.info /\ Descriptor_decode(buf, info.it).val = last.desc
      BY <2>5, <2>6
    <2> QED
      BY <2>7 DEF PairReadable
  <1> QED
    BY <1>1, BufferHolds, PTL

\* A struct that is not refused takes at least its own header.
LEMMA DecodeMoves ==
  ASSUME NEW b \in Seq(Byte), NEW it \in Nat \ {0}
  PROVE  /\ \/ DECODE_START(b, it).it = 0
            \/ /\ DECODE_START(b, it).it = it + 6
               /\ DECODE_START(b, it).end \in Nat /\ DECODE_START(b, it).end >= it + 6
         /\ Descriptor_decode(b, it).it \in Nat
         /\ Descriptor_decode(b, it).it = 0 \/ Descriptor_decode(b, it).it > it
  <1> DEFINE compat == get_u8(b, it + 1)
             len    == get_u32(b, compat.it)
             s      == DECODE_START(b, it)
             n      == number(b, it + 2, 0)
             d      == Descriptor_decode(b, it)
  <1>1. Len(b) \in Nat /\ \A i \in 1..Len(b) : b[i] \in Byte
    BY LenProperties, ElementOfSeq
  <1>2. s = [it |-> 0, end |-> 0] \/ s = [it |-> len.it, end |-> len.it + len.val]
    BY DEF DECODE_START
  <1>3. d.it = 0 \/ (s.it # 0 /\ d.it = s.end)
    BY DEF Descriptor_decode, DECODE_FINISH, Malformed
  <1>4. s.it = 0 \/ (s.it = it + 6 /\ s.end \in Nat /\ s.end >= it + 6)
    <2>1. CASE it + 6 > Len(b) + 1
      <3>1. compat.it = 0 \/ compat.it = it + 2
        BY <1>1 DEF get_u8, Take, Malformed
      <3>2. len.it = 0
        <4> HIDE DEF compat
        <4> QED
          BY <1>1, <2>1, <3>1 DEF get_u32, Take, Malformed
      <3> HIDE DEF s, len, compat
      <3> QED
        BY <1>2, <3>2
    <2>2. CASE it + 6 <= Len(b) + 1
      <3>1. compat.it = it + 2
        BY <1>1, <2>2 DEF get_u8, Take
      <3>2. len = [it |-> it + 6, val |-> n]
        <4> HIDE DEF compat, n
        <4>1. get_u32(b, it + 2) = [it |-> it + 6, val |-> n]
          BY <1>1, <2>2 DEF get_u32, Take, n
        <4> QED
          BY <3>1, <4>1
      <3>3. n \in Nat
        <4>1. /\ it + 2 \in 1..Len(b) /\ it + 2 + 1 \in 1..Len(b) /\ it + 2 + 2 \in 1..Len(b)
              /\ it + 2 + 3 \in 1..Len(b)
          BY <1>1, <2>2
        <4>2. /\ b[it + 2] \in Byte /\ b[it + 2 + 1] \in Byte /\ b[it + 2 + 2] \in Byte
              /\ b[it + 2 + 3] \in Byte
          BY <1>1, <4>1, Zenon
        <4>3. ASSUME NEW l \in Byte, NEW h \in Nat PROVE Join(l, h) \in Nat
          BY DEF Join, Byte
        <4> QED
          BY <4>2, <4>3, Zenon DEF number
      <3> HIDE DEF s, len, compat, n
      <3>4. len.it = it + 6 /\ len.val = n /\ it + 6 + n \in Nat /\ it + 6 + n >= it + 6
        BY <3>2, <3>3
      <3> QED
        BY <1>2, <3>4
    <2> QED
      BY <1>1, <2>1, <2>2
  <1>5. d.it \in Nat /\ (d.it = 0 \/ d.it > it)
    <2> HIDE DEF d, s
    <2> QED
      BY <1>3, <1>4
  <1> QED
    BY <1>4, <1>5

\* A message without a descriptor is refused by the reader of an INIT reply,
\* whatever is left of earlier replies behind it, and whatever the buffer's memory
\* held before; so is a buffer of zeros nothing was put into.
THEOREM StaleDescriptorRefused == Spec => []NoStaleDescriptor
  <1>1. BufferInv => NoStaleDescriptor
    <2> SUFFICES ASSUME BufferInv,
                        \/ last \in Request
                        \/ last = None /\ \A i \in 1..MSG_SIZE : buf[i] = 0
                 PROVE  Refused(InitReply_decode(buf, 1))
      BY DEF NoStaleDescriptor
    <2> DEFINE s == DECODE_START(buf, 1)
               t == get_u32(buf, s.it)
               d == Descriptor_decode(buf, t.it)
    <2>1. buf \in Seq(Byte) /\ IsU32(Len(buf)) /\ Len(buf) = MSG_SIZE /\ MSG_SIZE \in Nat
      BY BufferBytes DEF BufferInv, TypeOK
    <2>2. InitReply_decode(buf, 1)
            = DECODE_FINISH(s, [it |-> d.it, val |-> [type |-> t.val, desc |-> d.val]])
      BY DEF InitReply_decode
    <2>3. t.it = 0 => d.it = 0
      <3>1. Descriptor_decode(buf, 0).it = 0
        <4>1. get_u8(buf, 0).it = 0 /\ get_u32(buf, 0).it = 0
          BY DEF get_u8, get_u32, Take, Malformed
        <4>2. DECODE_START(buf, 0).it = 0
          BY <4>1 DEF DECODE_START
        <4> QED
          BY <4>2 DEF Descriptor_decode, DECODE_FINISH, Malformed
      <3> HIDE DEF t
      <3> QED
        BY <3>1
    <2>4. t.it \in Nat \ {0} => d.it \in Nat /\ (d.it = 0 \/ d.it > t.it)
      <3> HIDE DEF t
      <3> QED
        BY <2>1, DecodeMoves
    <2>5. s.it = 0 \/ (s.end \in Nat /\ t.it \in Nat /\ (t.it = 0 \/ t.it >= s.end))
      <3>1. CASE last \in Request
        <4>1. last \in Message
          BY <3>1 DEF Message
        <4>2. At(buf, 1, ENCODE(u32(last.type) \o << >>)) /\ IsU32(last.type)
          BY <3>1, <4>1, EncodeClass, Classes, Zenon DEF BufferInv
        <4>3. << >> \in Seq(Byte) /\ Len(<< >>) = 0
          OBVIOUS
        <4>4. Opens(buf, 1, last.type, << >>)
          BY <2>1, <4>2, <4>3, RequestAt, Zenon
        <4>5. s = [it |-> 7, end |-> 11] /\ get_u32(buf, 7) = [it |-> 11, val |-> last.type]
          BY <4>3, <4>4 DEF Opens
        <4>6. t = [it |-> 11, val |-> last.type]
          BY <4>5
        <4> HIDE DEF s, t
        <4> QED
          BY <4>5, <4>6
      <3>2. CASE \A i \in 1..MSG_SIZE : buf[i] = 0
        <4> DEFINE c == get_u8(buf, 2)
                   n == get_u32(buf, c.it)
        <4>2. s = IF n.it = 0 \/ c.val > 1 \/ n.it + n.val > Len(buf) + 1
                  THEN [it |-> 0, end |-> 0] ELSE [it |-> n.it, end |-> n.it + n.val]
          BY DEF DECODE_START
        <4>3. c.it \in {0, 3}
          BY DEF get_u8, Take, Malformed
        <4>4. c.it = 0 => n.it = 0
          BY DEF get_u32, Take, Malformed
        <4>5. n.it = 0 => s.it = 0
          <5> HIDE DEF s, n, c
          <5> QED
            BY <4>2
        <4>6. CASE c.it = 3 /\ n.it # 0
          <5>1. n = get_u32(buf, 3)
            BY <4>6
          <5>2. n = [it |-> 7, val |-> number(buf, 3, 0)] /\ 7 <= MSG_SIZE + 1
            BY <2>1, <4>6, <5>1 DEF get_u32, Take, Malformed
          <5>3. /\ buf[3] = 0 /\ buf[3 + 1] = 0 /\ buf[3 + 2] = 0 /\ buf[3 + 3] = 0
            BY <2>1, <3>2, <5>2
          <5>4. number(buf, 3, 0) = 0
            BY <5>3 DEF number, Join
          <5>5. s.it = 0 \/ s = [it |-> 7, end |-> 7]
            <6> HIDE DEF s, n, c
            <6> QED
              BY <4>2, <5>2, <5>4
          <5>6. get_u32(buf, 7).it \in {0, 11}
            BY <2>1 DEF get_u32, Take, Malformed
          <5>7. CASE s = [it |-> 7, end |-> 7]
            <6>1. t.it \in {0, 11}
              BY <5>6, <5>7
            <6> HIDE DEF s, t
            <6> QED
              BY <5>7, <6>1
          <5> QED
            BY <5>5, <5>7
        <4> QED
          BY <4>3, <4>4, <4>5, <4>6
      <3> QED
        BY <3>1, <3>2
    <2> HIDE DEF s, t, d
    <2>6. s.it = 0 \/ d.it = 0 \/ d.it > s.end
      BY <2>1, <2>3, <2>4, <2>5
    <2> QED
      BY <2>2, <2>6 DEF DECODE_FINISH, Malformed, Refused
  <1> QED
    BY <1>1, BufferHolds, PTL
=============================================================================
