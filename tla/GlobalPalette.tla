--------------------------- MODULE GlobalPalette ----------------------------
(***************************************************************************)
(* The numbers of block states (protocol_id_converter/blockStates).  A block *)
(* of blocks.json has properties, in the order of their names, each with a   *)
(* sequence of values; its states are numbered from base on, the last        *)
(* property running fastest.  A property's weight is kept in WeightBits      *)
(* bits, whatever its value.                                                 *)
(***************************************************************************)
EXTENDS Integers, FiniteSets, SequencesExt, TLC

CONSTANTS
  BlockList,   \* blocks.json: [name, properties: <<[name, values]>>, default: name -> value, base]
  WeightBits   \* of InternalProperty::baseWeight (8 in the code)

ASSUME WeightAssumption == WeightBits \in Nat

\* 1 << n
Pow2[n \in Nat] == IF n = 0 THEN 1 ELSE 2 * Pow2[n - 1]

IndexOf(s, v) == (CHOOSE i \in DOMAIN s : s[i] = v) - 1

\* initialize() visits the properties from the last one on: the most that the last k of them add to a number.
MaxThingy(b) ==
  LET maxThingy[k \in 0 .. Len(b.properties)] ==
        IF k = 0 THEN 0
        ELSE maxThingy[k - 1] + (maxThingy[k - 1] + 1) * (Len(b.properties[Len(b.properties) - k + 1].values) - 1)
  IN  maxThingy

\* The weight of property i, the number after the most that the later ones add.
BaseWeight(b, i) == (MaxThingy(b)[Len(b.properties) - i] + 1) % Pow2[WeightBits]

\* The properties that are given, and the default value of each other one.
WithDefaults(given, default) ==
  [n \in DOMAIN given \cup DOMAIN default |-> IF n \in DOMAIN given THEN given[n] ELSE default[n]]

\* The properties a block is given, and the default of each other one when their number is not that of the block.
Completed(b, given) ==
  IF Cardinality(DOMAIN given) = Len(b.properties) THEN given ELSE WithDefaults(given, b.default)

\* Each property adds its weight as often as its value has others before it.
WeightedSum(b, props) ==
  LET Part(i) == IF b.properties[i].name \notin DOMAIN props THEN 0
                 ELSE BaseWeight(b, i) * IndexOf(b.properties[i].values, props[b.properties[i].name])
      sum[i \in 0 .. Len(b.properties)] == IF i = 0 THEN b.base ELSE sum[i - 1] + Part(i)
  IN  sum[Len(b.properties)]

\* Properties of a block, each with one of its values.
HasProperties(b, given) ==
  \A n \in DOMAIN given : \E i \in DOMAIN b.properties :
    b.properties[i].name = n /\ Contains(b.properties[i].values, given[n])

\* fromBlockToProtocolId(): 0 stands for all that is not found.
FromBlockToProtocolId(block) ==
  LET found == {i \in DOMAIN BlockList : BlockList[i].name = block.name}
      b     == BlockList[CHOOSE i \in found : TRUE]
      props == Completed(b, block.properties)
  IN  IF found = {} \/ ~HasProperties(b, props) THEN 0 ELSE WeightedSum(b, props)

-----------------------------------------------------------------------------
\* The rank of a state among those of its block, the last property running fastest.
Rank(b, full) ==
  LET rank[i \in 0 .. Len(b.properties)] ==
        IF i = 0 THEN 0
        ELSE rank[i - 1] * Len(b.properties[i].values) + IndexOf(b.properties[i].values, full[b.properties[i].name])
  IN  rank[Len(b.properties)]

\* The number blocks.json gives to a state.
StateNumber(block) ==
  LET b == BlockList[CHOOSE i \in DOMAIN BlockList : BlockList[i].name = block.name]
  IN  b.base + Rank(b, WithDefaults(block.properties, b.default))

\* The weight is not cut off by its type.
WeightFits(b, i) == BaseWeight(b, i) = MaxThingy(b)[Len(b.properties) - i] + 1

\* blocks.json as it should be: names are not repeated and a default state has every property.
BlocksDescribed ==
  \A i \in DOMAIN BlockList :
    LET b == BlockList[i]
        m == Len(b.properties)
    IN  /\ \A j \in DOMAIN BlockList : BlockList[j].name = b.name => j = i
        /\ b.base \in Nat /\ m \in Nat /\ DOMAIN b.properties = 1 .. m
        /\ \A k \in 1 .. m :
             /\ Len(b.properties[k].values) \in Nat
             /\ DOMAIN b.properties[k].values = 1 .. Len(b.properties[k].values)
             /\ \A l \in 1 .. m : b.properties[k].name = b.properties[l].name => k = l
        /\ DOMAIN b.default = {b.properties[k].name : k \in 1 .. m} /\ HasProperties(b, b.default)

\* A state of one of the blocks, with some or all of its properties.
IsState(block) == \E i \in DOMAIN BlockList : BlockList[i].name = block.name /\ HasProperties(BlockList[i], block.properties)

\* A state whose number is made of weights that fit.  The weights of a large block (redstone wire) do not; one that is cut
\* off does no harm to the states that have the first value of its property.
IsCounted(block) ==
  LET b    == BlockList[CHOOSE i \in DOMAIN BlockList : BlockList[i].name = block.name]
      full == WithDefaults(block.properties, b.default)
  IN  \A i \in DOMAIN b.properties :
        IndexOf(b.properties[i].values, full[b.properties[i].name]) # 0 => WeightFits(b, i)
=============================================================================
