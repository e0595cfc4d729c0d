-------------------------------- MODULE Types --------------------------------
(***************************************************************************)
(* The messages of the replica protocol (Types.h, Types.cc) and the one    *)
(* buffer of MSG_SIZE bytes through which each side sends them.  A message *)
(* is copied over the start of the buffer, so what follows it is the tail  *)
(* of whatever longer message was sent before.  The reader decodes the     *)
(* buffer as the class it expects.  test_demo.cc does the same with two    *)
(* structs one after the other, in a process and a buffer of its own.      *)
(*                                                                         *)
(* The encoding itself (ENCODE_START, DECODE_FINISH, integers and strings) *)
(* is ceph's: a version, the oldest version that can read it, the length,  *)
(* and the fields.  DECODE_FINISH skips fields the reader does not know    *)
(* and throws when the reader took more than the length.                   *)
(***************************************************************************)
EXTENDS Naturals, Sequences

CONSTANTS MSG_SIZE,        \* bytes in a message buffer
          CacheIds, CacheSizes, Strings, DescSizes,   \* values of the fields
          Fresh            \* what a buffer may hold that nothing was put into

Byte == 0..255

\* The low byte of n, what is left of n without it, and the number of both.
Low(n)     == n % 256
High(n)    == n \div 256
Join(l, h) == l + 256 * h

\* n is an integer of 4 or of 8 bytes.
IsU32(n) == n \in Nat /\ High(High(High(High(n)))) = 0
IsU64(n) == n \in Nat /\ IsU32(High(High(High(High(n)))))

ASSUME TypesAssumption ==
  /\ IsU32(MSG_SIZE) /\ \A n \in CacheIds \cup DescSizes : IsU32(n)
  /\ \A n \in CacheSizes : IsU64(n)
  /\ Strings \subseteq Seq(Byte) /\ Fresh \subseteq [1..MSG_SIZE -> Byte]

VARIABLES buf,    \* the buffer
          last,   \* the message put into it last
          aborted \* an assert on the length failed

vars == <<buf, last, aborted>>

INIT_REQUEST        == 1
INIT_SUCCESSED      == 17
INIT_FAILED         == 18
FINISHED_REQUEST    == 2
FINISHED_SUCCCESSED == 33
FINISHED_FAILED     == 34

CacheInfo  == [cache_id : CacheIds, cache_size : CacheSizes,
               pool_name : Strings, image_name : Strings]
Descriptor == [mr_desc_size : DescSizes, pcfg_desc_size : DescSizes, descriptors : Strings]

\* The classes that differ in their fields; the FINISHED messages are plain.
Request   == [type : {FINISHED_REQUEST, FINISHED_SUCCCESSED, FINISHED_FAILED}]
InitMsg   == [type : {INIT_REQUEST}, info : CacheInfo]
InitReply == [type : {INIT_SUCCESSED, INIT_FAILED}, desc : Descriptor]
Message   == Request \cup InitMsg \cup InitReply
Pair      == [info : CacheInfo, desc : Descriptor]

-----------------------------------------------------------------------------
(* Encoding.                                                               *)

\* Integers of 4 and of 8 bytes, the low byte first; what does not fit is lost.
u32(n) == <<Low(n), Low(High(n)), Low(High(High(n))), Low(High(High(High(n))))>>
u64(n) == u32(n) \o u32(High(High(High(High(n)))))

str(s) == u32(Len(s)) \o s

ENCODE(fields) == <<1, 1>> \o u32(Len(fields)) \o fields

CacheInfo_encode(i) ==
  ENCODE(u32(i.cache_id) \o u64(i.cache_size) \o str(i.pool_name) \o str(i.image_name))

\* Mutation of Descriptor_encode: the two sizes change places.
Descriptor_swapped(d) ==
  ENCODE(u32(d.pcfg_desc_size) \o u32(d.mr_desc_size) \o str(d.descriptors))

Descriptor_encode(d) ==
  ENCODE(u32(d.mr_desc_size) \o u32(d.pcfg_desc_size) \o str(d.descriptors))

Request_encode(m) == ENCODE(u32(m.type))

InitRequest_encode(m) == ENCODE(u32(m.type) \o CacheInfo_encode(m.info))

InitReply_encode(m) == ENCODE(u32(m.type) \o Descriptor_encode(m.desc))

\* encode() is virtual.
encode(m) == CASE m \in Request   -> Request_encode(m)
               [] m \in InitMsg   -> InitRequest_encode(m)
               [] m \in InitReply -> InitReply_encode(m)

-----------------------------------------------------------------------------
(* Decoding.  A decoder takes the bytes and the position of its first one  *)
(* and returns the position after it and the value; position 0 stands for  *)
(* the exception, which every later decoder passes on.                     *)

Malformed == [it |-> 0, val |-> << >>]

\* n bytes are taken; v is what they say.
Take(b, it, n, v) == IF it = 0 \/ it + n > Len(b) + 1 THEN Malformed
                     ELSE [it |-> it + n, val |-> v]

\* The number of 4 bytes and what comes above them.
number(b, it, h) == Join(b[it], Join(b[it + 1], Join(b[it + 2], Join(b[it + 3], h))))

get_u8(b, it)  == Take(b, it, 1, b[it])
get_u32(b, it) == Take(b, it, 4, number(b, it, 0))
get_u64(b, it) == Take(b, it, 8, number(b, it, number(b, it + 4, 0)))

get_str(b, it) ==
  LET n == get_u32(b, it) IN
  IF n.it = 0 THEN n ELSE Take(b, n.it, n.val, SubSeq(b, n.it, n.it + n.val - 1))

DECODE_START(b, it) ==
  LET compat == get_u8(b, IF it = 0 THEN 0 ELSE it + 1)
      len    == get_u32(b, compat.it)
  IN IF len.it = 0 \/ compat.val > 1 \/ len.it + len.val > Len(b) + 1
     THEN [it |-> 0, end |-> 0] ELSE [it |-> len.it, end |-> len.it + len.val]

\* s is what DECODE_START found, r what the decoders of the fields did.
DECODE_FINISH(s, r) ==
  IF s.it = 0 \/ r.it = 0 \/ r.it > s.end THEN Malformed ELSE [r EXCEPT !.it = s.end]

\* Mutation of CacheInfo_decode: the iterator stays before the last field.
CacheInfo_stops(b, it) ==
  LET id   == get_u32(b, it + 6)
      size == get_u64(b, id.it)
      pool == get_str(b, size.it)
      name == get_str(b, pool.it)
  IN [it |-> pool.it, val |-> [cache_id |-> id.val, cache_size |-> size.val,
                               pool_name |-> pool.val, image_name |-> name.val]]

CacheInfo_decode(b, it) ==
  LET s    == DECODE_START(b, it)
      id   == get_u32(b, s.it)
      size == get_u64(b, id.it)
      pool == get_str(b, size.it)
      name == get_str(b, pool.it)
  IN DECODE_FINISH(s, [it |-> name.it, val |-> [cache_id |-> id.val, cache_size |-> size.val,
                                                pool_name |-> pool.val, image_name |-> name.val]])

Descriptor_decode(b, it) ==
  LET s    == DECODE_START(b, it)
      mr   == get_u32(b, s.it)
      pcfg == get_u32(b, mr.it)
      text == get_str(b, pcfg.it)
  IN DECODE_FINISH(s, [it |-> text.it, val |-> [mr_desc_size |-> mr.val, pcfg_desc_size |-> pcfg.val,
                                                descriptors |-> text.val]])

\* Mutation of Request_decode: more fields than are known are refused.
Request_exact(b, it) ==
  LET len == get_u32(b, it + 2)
      t   == get_u32(b, len.it)
  IN IF len.val # 4 THEN Malformed ELSE [it |-> t.it, val |-> [type |-> t.val]]

Request_decode(b, it) ==
  LET s == DECODE_START(b, it)
      t == get_u32(b, s.it)
  IN DECODE_FINISH(s, [it |-> t.it, val |-> [type |-> t.val]])

InitRequest_decode(b, it) ==
  LET s    == DECODE_START(b, it)
      t    == get_u32(b, s.it)
      info == CacheInfo_decode(b, t.it)
  IN DECODE_FINISH(s, [it |-> info.it, val |-> [type |-> t.val, info |-> info.val]])

\* Mutation of InitReply_decode: DECODE_FINISH is left out.
InitReply_unfinished(b, it) ==
  LET t    == get_u32(b, it + 6)
      desc == Descriptor_decode(b, t.it)
  IN [it |-> desc.it, val |-> [type |-> t.val, desc |-> desc.val]]

InitReply_decode(b, it) ==
  LET s    == DECODE_START(b, it)
      t    == get_u32(b, s.it)
      desc == Descriptor_decode(b, t.it)
  IN DECODE_FINISH(s, [it |-> desc.it, val |-> [type |-> t.val, desc |-> desc.val]])

-----------------------------------------------------------------------------

None == [type |-> 0]

\* bufferptr(MSG_SIZE) leaves the bytes as they are.
Init == /\ buf \in Fresh
        /\ last = None /\ aborted = FALSE

\* Mutation of Overlay: the bytes behind the message move on by one.
OverlayMoves(b, e) == e \o SubSeq(b, Len(e), MSG_SIZE)

\* memcpy over the start of the buffer.
Overlay(b, e) == e \o SubSeq(b, Len(e) + 1, MSG_SIZE)

\* encode, assert(bl.length() < MSG_SIZE), memcpy.
Put(m) ==
  LET e == encode(m) IN
  /\ ~aborted /\ last \notin Pair
  /\ \/ Len(e) < MSG_SIZE /\ buf' = Overlay(buf, e) /\ last' = m /\ UNCHANGED aborted
     \/ Len(e) >= MSG_SIZE /\ aborted' = TRUE /\ UNCHANGED <<buf, last>>

\* main of test_demo.cc up to the decoding; nothing looks at the length there.
Demo(p) ==
  LET e == CacheInfo_encode(p.info) \o Descriptor_encode(p.desc) IN
  /\ last = None /\ ~aborted /\ Len(e) <= MSG_SIZE
  /\ buf' = Overlay(buf, e) /\ last' = p /\ UNCHANGED aborted

Next == (\E m \in Message : Put(m)) \/ (\E p \in Pair : Demo(p))

Spec == Init /\ [][Next]_vars

-----------------------------------------------------------------------------
(* Properties.                                                             *)

Refused(r) == r.it = 0

\* Every variable keeps its type.
TypeOK == /\ buf \in [1..MSG_SIZE -> Byte]
          /\ last \in Message \cup Pair \cup {None} /\ aborted \in BOOLEAN

\* The reader that expects what was put gets it back, whatever tail of earlier
\* messages follows it in the buffer.
RoundTrip ==
  /\ last \in Request   => Request_decode(buf, 1).val = last
  /\ last \in InitMsg   => InitRequest_decode(buf, 1).val = last
  /\ last \in InitReply => InitReply_decode(buf, 1).val = last

\* get_descriptor decodes every message as the plain RwlReplicaRequest first:
\* that tells the kind of any message, the INIT messages included.
KindReadable == last \in Message => Request_decode(buf, 1).val = [type |-> last.type]

\* Two structs in one buffer come back as they were: the first decoder leaves the
\* iterator where the second struct starts (test_demo.cc).
PairReadable ==
  last \in Pair =>
    LET info == CacheInfo_decode(buf, 1) IN
    info.val = last.info /\ Descriptor_decode(buf, info.it).val = last.desc

\* A message without a descriptor is refused by the reader of an INIT reply
\* although the descriptor of an earlier reply may still follow it in the
\* buffer, or of whoever had its memory before, and so is a buffer of zero bytes
\* nothing was put into: the client never takes up a descriptor that was not sent
\* to it now.
NoStaleDescriptor ==
  last \in Request \/ (last = None /\ \A i \in 1..MSG_SIZE : buf[i] = 0)
    => Refused(InitReply_decode(buf, 1))
=============================================================================
