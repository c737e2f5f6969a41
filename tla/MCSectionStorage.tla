-------------------------- MODULE MCSectionStorage --------------------------
(* Air and a block of two properties, the weight of the first of which does *)
(* not fit its width, and palettes of region files: states in any order,    *)
(* with and without air, with properties left out, of a single state, with   *)
(* states that get the same number, with a block that is not known and with  *)
(* more states than the widest index tells apart.                            *)
EXTENDS SectionStorage

SomeBlocks ==
  <<[name |-> "air", properties |-> <<>>, default |-> <<>>, base |-> 0],
    [name |-> "lamp", base |-> 1, default |-> [face |-> "up", lit |-> "off"],
     properties |-> <<[name |-> "face", values |-> <<"up", "down">>],
                      [name |-> "lit", values |-> <<"on", "dim", "off">>]>>]>>

Air  == [name |-> "air", properties |-> <<>>]
Lamp == [name |-> "lamp", properties |-> <<>>]
Lamps(f, l) == [name |-> "lamp", properties |-> [face |-> f, lit |-> l]]
Lit(l) == [name |-> "lamp", properties |-> [lit |-> l]]
Sponge == [name |-> "sponge", properties |-> <<>>]

SomePalettes ==
  {<<Air>>, <<Lamp>>, <<Lamps("up", "on"), Air>>, <<Lit("dim"), Lamp>>, <<Lit("dim"), Air, Lamps("up", "on"), Lit("off")>>,
   <<Lamps("down", "on"), Lit("dim")>>, <<Air, Lit("dim"), Lamps("down", "on"), Lamp>>, <<Lamp, Sponge>>,
   <<Lit("on"), Air, Lamps("down", "off"), Lit("dim"), Lamp>>}

\* What the theorems of SectionStorageProofs ask of blocks.json.
ASSUME BlocksAssumption == BlocksDescribed
=============================================================================
