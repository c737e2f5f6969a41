-------------------------------- MODULE Wire --------------------------------
(***************************************************************************)
(* The wire format of the protocol: what the add* functions write and what  *)
(* the pop* functions read back (protocol/serialization).  An integer, a    *)
(* float or a UUID of w bits is the set of its bits that are 1, a subset of *)
(* 0 .. w-1, so every width is exact; a byte is a subset of 0 .. 7.         *)
(*                                                                          *)
(* A pop function gets the position at which it reads and an INCLUSIVE end: *)
(* eof is the position of the last byte, here Len(in).  It returns the      *)
(* value and the new position, or the exception it throws.                  *)
(***************************************************************************)
EXTENDS Nbt

-----------------------------------------------------------------------------
(* The kinds of field a packet is made of.  Opt, Many, When and IfBit take  *)
(* the layout of what follows; When and IfBit look at field k of the packet. *)

Byte     == <<"Byte">>
Bool     == <<"Bool">>
Short    == <<"Short">>
Int32    == <<"Int">>
Float    == <<"Float">>
Long     == <<"Long">>
Double   == <<"Double">>
UUID     == <<"UUID">>
VarInt   == <<"VarInt">>
VarLong  == <<"VarLong">>
String   == <<"String">>
Position == <<"Position">>
BitSet20 == <<"BitSet20">>
NBT      == <<"NBT">>
Rest     == <<"Rest">>

Const(byte)         == <<"Const", byte>>
Opt(layout)         == <<"Opt", layout>>
Many(layout)        == <<"Many", layout>>
When(k, in, layout) == <<"When", k, in, layout>>
Unless(k, in, layout) == <<"Unless", k, in, layout>>
IfBit(k, b, layout) == <<"IfBit", k, b, layout>>

ByteArray == Many(<<Byte>>)

Size == [Byte |-> 1, Bool |-> 1, Short |-> 2, Int |-> 4, Float |-> 4, Long |-> 8, Double |-> 8, UUID |-> 16]

\* Is a conditional part there?  ctx: the fields of the packet so far.
Holds(f, ctx) ==
  CASE f[1] = "When"   -> ctx[f[2]] \in f[3]
    [] f[1] = "Unless" -> ctx[f[2]] \notin f[3]
    [] f[1] = "IfBit"  -> f[3] \in ctx[f[2]]

Conditional == {"When", "Unless", "IfBit"}

-----------------------------------------------------------------------------
(* add* *)

\* addByte, addShort, addInt, addLong, addUUID, addFloat, addDouble: big-endian.
AddFixed(v, n) == BigEndian(v, n)

\* addVarInt, addVarLong: seven bits a byte, the lowest first; the top bit says that another one follows.
AddVar(v) ==
  LET last == IF v = {} THEN 0 ELSE Max(v) \div 7
  IN  [i \in 1 .. last + 1 |-> {b \in 0 .. 6 : b + 7 * (i - 1) \in v} \cup (IF i <= last THEN {7} ELSE {})]

AddCount(n) == AddVar(BitsOf(n))

\* addPosition: 26 bits of x, 26 of z and 12 of y in one long.
AddPosition(p) ==
  AddFixed({b \in 0 .. 63 : \/ b >= 38 /\ b - 38 \in p.x
                            \/ b \in 12 .. 37 /\ b - 12 \in p.z
                            \/ b < 12 /\ b \in p.y}, 8)

MAX_STRING_SIZE == 32767

RECURSIVE AddField(_, _), AddAll(_, _)

\* addArray, addSlot, addBoolean and the conditions in the create* functions.  Beyond its limit _addString() throws,
\* and there is no packet.
AddField(f, v) ==
  CASE f[1] \in DOMAIN Size -> AddFixed(v, Size[f[1]])
    [] f[1] \in {"VarInt", "VarLong"} -> AddVar(v)
    [] f[1] = "String" /\ Len(v) <= MAX_STRING_SIZE -> AddCount(Len(v)) \o v
    [] f[1] = "Position" -> AddPosition(v)
    [] f[1] = "BitSet20" -> [i \in 1 .. 3 |-> {b \in 0 .. 7 : b + 8 * (i - 1) \in v}]
    [] f[1] = "NBT" -> Serialize(v, TRUE)
    [] f[1] = "Rest" -> v
    [] f[1] = "Const" -> <<f[2]>>
    [] f[1] = "Opt" -> <<IF v = <<>> THEN {} ELSE {0}>> \o FlattenSeq([i \in 1 .. Len(v) |-> AddAll(f[2], v[i])])
    [] f[1] = "Many" -> AddCount(Len(v)) \o FlattenSeq([i \in 1 .. Len(v) |-> AddAll(f[2], v[i])])
    [] f[1] \in Conditional -> FlattenSeq([i \in 1 .. Len(v) |-> AddAll(f[4], v[i])])

\* serialize(): the fields one after the other.
AddAll(layout, vals) == FlattenSeq([i \in 1 .. Len(layout) |-> AddField(layout[i], vals[i])])

\* finalize(): the length of what follows, the packet's id, its payload.
Finalize(id, payload) == AddCount(Len(payload) + Len(AddCount(id))) \o AddCount(id) \o payload

-----------------------------------------------------------------------------
(* pop* *)

\* popByte, popShort, popInt, popLong, popUUID, popFloat, popDouble.
PopFixed(in, at, n) ==
  IF Len(in) - at < n - 1 THEN Throw("PacketEOF")
  ELSE Got(FromBigEndian(SubSeq(in, at, at + n - 1)), at + n)

PopBoolean(in, at) ==
  LET byte == PopFixed(in, at, 1)
  IN  IF byte.err = "none" /\ byte.v \notin {{}, {0}} THEN Throw("OutOfRangeBoolean") ELSE byte

\* popVarInt (w = 32), popVarLong (w = 64): bits above the width are lost.
PopVar(in, at, w) ==
  LET Ends(k) == at + k - 1 > Len(in) \/ 7 \notin in[at + k - 1] \/ 7 * k >= w
      n == CHOOSE k \in 1 .. 10 : Ends(k) /\ \A j \in 1 .. k - 1 : ~Ends(j)
  IN  IF at + n - 1 > Len(in) THEN Throw("PacketEOF")
      ELSE IF 7 \in in[at + n - 1] THEN Throw("VarIntOverflow")
      ELSE Got({b \in 0 .. w - 1 : b \div 7 < n /\ b % 7 \in in[at + b \div 7]}, at + n)

\* Variant: a string ends where the buffer ends.
PopStringToEnd(in, at) ==
  LET size == PopVar(in, at, 32)
      last == Min({Len(in), size.at + Number(size.v) - 1})
  IN  IF size.err # "none" THEN size ELSE Got(SubSeq(in, size.at, last), last + 1)

PopString(in, at) ==
  LET size == PopVar(in, at, 32)
  IN  IF size.err # "none" THEN size
      ELSE IF 31 \in size.v THEN Throw("length_error")
      ELSE IF Number(size.v) > Len(in) - size.at + 1 THEN Throw("PacketEOF")
      ELSE Got(SubSeq(in, size.at, size.at + Number(size.v) - 1), size.at + Number(size.v))

\* popPosition: the shifts keep the sign of each coordinate.
PopPosition(in, at) ==
  LET h == PopFixed(in, at, 8)
      Signed(low, n) == {b \in 0 .. 63 : low + (IF b < n THEN b ELSE n - 1) \in h.v}
  IN  IF h.err # "none" THEN h ELSE Got([x |-> Signed(38, 26), z |-> Signed(12, 26), y |-> Signed(0, 12)], h.at)

\* popBitSet<20>: the mask is 1 >> i, so only the first bit of a byte is ever seen.
PopBitSet20(in, at) ==
  LET bytes == PopFixed(in, at, 3)
  IN  IF bytes.err # "none" THEN bytes
      ELSE Got({8 * i : i \in {k \in 0 .. 2 : 0 \in in[at + k]}}, at + 3)

RECURSIVE PopField(_, _, _, _), PopAll(_, _, _, _), PopTimes(_, _, _, _, _)

\* popArray: the items one after the other.
PopTimes(n, layout, in, at, ctx) ==
  IF n = 0 THEN Got(<<>>, at)
  ELSE LET From(first) == IF first.err # "none" THEN first ELSE Joined(first, PopTimes(n - 1, layout, in, first.at, ctx))
       IN  From(PopAll(layout, in, at, ctx))

\* popSlot, popArray and the conditions in the parse* functions.
PopField(f, in, at, ctx) ==
  CASE f[1] = "Bool" -> PopBoolean(in, at)
    [] f[1] \in DOMAIN Size \ {"Bool"} -> PopFixed(in, at, Size[f[1]])
    [] f[1] = "VarInt" -> PopVar(in, at, 32)
    [] f[1] = "VarLong" -> PopVar(in, at, 64)
    [] f[1] = "String" -> PopString(in, at)
    [] f[1] = "Position" -> PopPosition(in, at)
    [] f[1] = "BitSet20" -> PopBitSet20(in, at)
    [] f[1] = "NBT" -> Parse(in, at, TRUE, "none")
    [] f[1] = "Rest" -> Got(SubSeq(in, at, Len(in)), Len(in) + 1)
    [] f[1] = "Const" -> PopFixed(in, at, 1)
    [] f[1] = "Opt" -> LET there == PopBoolean(in, at)
                       IN  IF there.err # "none" THEN there
                           ELSE PopTimes(IF there.v = {} THEN 0 ELSE 1, f[2], in, there.at, ctx)
    [] f[1] = "Many" -> LET count == PopVar(in, at, 32)
                        IN  IF count.err # "none" THEN count
                            ELSE PopTimes(Times(count.v), f[2], in, count.at, ctx)
    [] f[1] \in Conditional -> PopTimes(IF Holds(f, ctx) THEN 1 ELSE 0, f[4], in, at, ctx)

\* parse(): the fields one after the other; the first exception ends it.
PopAll(layout, in, at, ctx) ==
  IF layout = <<>> THEN Got(<<>>, at)
  ELSE LET From(first) == IF first.err # "none" THEN first ELSE Joined(first, PopAll(Tail(layout), in, first.at, Append(ctx, first.v)))
       IN  From(PopField(Head(layout), in, at, ctx))
=============================================================================
