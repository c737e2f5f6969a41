-------------------------------- MODULE Nbt ---------------------------------
(***************************************************************************)
(* NBT, the tree format of chunk height maps, registries and saved worlds   *)
(* (nbt.hpp, nbt.cpp).  A tag is a record of its type, its name and its     *)
(* value: bits for a number, bytes for a string, a sequence of bits for an  *)
(* array, a sequence of tags for a list or a compound.                      *)
(***************************************************************************)
EXTENDS Bits

TagTypes == <<"Byte", "Short", "Int", "Long", "Float", "Double", "ByteArray", "String",
              "List", "Compound", "IntArray", "LongArray">>

TypeByte(type) == BitsOf(CHOOSE i \in DOMAIN TagTypes : TagTypes[i] = type)

TypeOf(byte) == IF Number(byte) \in DOMAIN TagTypes THEN TagTypes[Number(byte)] ELSE "End"

Tag(type, name, value) == [type |-> type, name |-> name, value |-> value]

-----------------------------------------------------------------------------
(* serialize() *)

\* Base::preSerialize(): the members of a list have neither type nor name.
PreSerialize(tag, includeName) ==
  IF includeName THEN <<TypeByte(tag.type)>> \o BigEndian(BitsOf(Len(tag.name)), 2) \o tag.name ELSE <<>>

NumberSize == [Byte |-> 1, Short |-> 2, Int |-> 4, Long |-> 8, Float |-> 4, Double |-> 8]
ItemSize   == [ByteArray |-> 1, IntArray |-> 4, LongArray |-> 8]

NumberPayload(tag) == BigEndian(tag.value, NumberSize[tag.type])

StringPayload(tag) == BigEndian(BitsOf(Len(tag.value)), 2) \o tag.value

ArrayPayload(tag) ==
  BigEndian(BitsOf(Len(tag.value)), 4)
    \o FlattenSeq([i \in DOMAIN tag.value |-> BigEndian(tag.value[i], ItemSize[tag.type])])

RECURSIVE Serialize(_, _)

\* The children with their names, then a TAG_End.
CompoundPayload(tag) == FlattenSeq([i \in DOMAIN tag.value |-> Serialize(tag.value[i], TRUE)]) \o <<{}>>

\* The type of the first member stands for all; an empty list has none to look at.
ListPayload(tag) ==
  <<TypeByte(tag.value[1].type)>> \o BigEndian(BitsOf(Len(tag.value)), 4)
    \o FlattenSeq([i \in DOMAIN tag.value |-> Serialize(tag.value[i], FALSE)])

Serialize(tag, includeName) ==
  PreSerialize(tag, includeName)
    \o CASE tag.type \in DOMAIN NumberSize -> NumberPayload(tag)
         [] tag.type \in DOMAIN ItemSize -> ArrayPayload(tag)
         [] tag.type = "String" -> StringPayload(tag)
         [] tag.type = "Compound" -> CompoundPayload(tag)
         [] tag.type = "List" -> ListPayload(tag)

-----------------------------------------------------------------------------
(* parse(): end, the last byte, is Len(in); a parser that runs out of bytes *)
(* or meets an unknown type returns nullptr.                                *)

Null == Throw("nullptr")

ParseName(in, at) ==
  LET size == Number(FromBigEndian(SubSeq(in, at, at + 1)))
  IN  IF at + 1 > Len(in) THEN Null
      ELSE IF size > 0 /\ at + 2 + size - 1 > Len(in) THEN Null
      ELSE Got(SubSeq(in, at + 2, at + 1 + size), at + 2 + size)

\* parseByte, parseShort, parseInt, parseLong, parseFloat, parseDouble.
ParseNumber(type, in, at) ==
  LET n == NumberSize[type]
  IN  IF Len(in) - at < n - 1 THEN Null ELSE Got(FromBigEndian(SubSeq(in, at, at + n - 1)), at + n)

ParseString(in, at) ==
  LET size == Number(FromBigEndian(SubSeq(in, at, at + 1)))
  IN  IF Len(in) - at < 1 \/ Len(in) - (at + 2) < size - 1 THEN Null
      ELSE Got(SubSeq(in, at + 2, at + 1 + size), at + 2 + size)

\* A loop over a negative int32_t does nothing.
Times(size) == IF 31 \in size THEN 0 ELSE Number(size)

\* parseByteArray, parseIntArray, parseLongArray; reserve() of the first, which throws for a negative size, is left out.
ParseArray(type, in, at) ==
  LET size == Times(FromBigEndian(SubSeq(in, at, at + 3)))
      n    == ItemSize[type]
      from == at + 4
  IN  IF Len(in) - at < 3 \/ Len(in) - from < size * n - 1 THEN Null
      ELSE Got([i \in 1 .. size |-> FromBigEndian(SubSeq(in, from + n * (i - 1), from + n * i - 1))], from + n * size)

RECURSIVE Parse(_, _, _, _), ParseMembers(_, _, _, _), ParseChildren(_, _)

ParseMembers(n, type, in, at) ==
  IF n = 0 THEN Got(<<>>, at)
  ELSE LET From(first) == IF first.err # "none" THEN first ELSE Joined(first, ParseMembers(n - 1, type, in, first.at))
       IN  From(Parse(in, at, FALSE, type))

ParseList(in, at) ==
  IF at > Len(in) \/ Len(in) - (at + 1) < 3 THEN Null
  ELSE ParseMembers(Times(FromBigEndian(SubSeq(in, at + 1, at + 4))), TypeOf(in[at]), in, at + 5)

ParseChildren(in, at) ==
  IF at > Len(in) THEN Null
  ELSE IF in[at] = {} THEN Got(<<>>, at + 1)
  ELSE LET From(first) == IF first.err # "none" THEN first ELSE Joined(first, ParseChildren(in, first.at))
       IN  From(Parse(in, at, TRUE, "none"))

ParseBody(type, in, at) ==
  CASE type \in DOMAIN NumberSize -> ParseNumber(type, in, at)
    [] type \in DOMAIN ItemSize -> ParseArray(type, in, at)
    [] type = "String" -> ParseString(in, at)
    [] type = "List" -> ParseList(in, at)
    [] type = "Compound" -> ParseChildren(in, at)
    [] OTHER -> Null

\* member: the type of the list the tag is in, which has no type byte of its own, or "none".
Parse(in, at, includeName, member) ==
  LET Whole(type, name, body) == IF body.err # "none" THEN Null ELSE Got(Tag(type, name.v, body.v), body.at)
      Named(type, name) == IF name.err # "none" THEN Null ELSE Whole(type, name, ParseBody(type, in, name.at))
  IN  IF at > Len(in) THEN Null
      ELSE Named(IF member = "none" THEN TypeOf(in[at]) ELSE member,
                 IF includeName THEN ParseName(in, at + 1) ELSE Got(<<>>, at))
=============================================================================
