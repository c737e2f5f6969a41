--------------------------- MODULE SectionStorage ---------------------------
(***************************************************************************)
(* The storage of one section of a chunk (Section, Palette, DynamicStorage), *)
(* how a region file fills it (Persistence) and how addChunkColumn() shows  *)
(* it to a peer.  Values are kept as indices into a palette that only grows, *)
(* packed into words of StoreTypeSize bits; an index never spans two words. *)
(* A section has one storage for blocks, one for biomes and two for light,  *)
(* which are independent: kind says which one is modelled.                  *)
(***************************************************************************)
EXTENDS GlobalPalette

CONSTANTS
  ArraySize,      \* positions of the section
  StoreTypeSize,  \* bits of a word
  Ids,            \* the values, 0 (air) among them
  MinBits,        \* the narrowest index of a block palette (4 in the code)
  MaxBits,        \* the widest index of a palette (8 for blocks, 3 for biomes)
  DirectBits,     \* the width used for blocks beyond that (15 in the code)
  FilePalettes,   \* the palettes of the sections of a region file: sequences of blocks [name, properties]
  Read,           \* there is no file, or it has been read
  Unreadable      \* a file that the code does not read as it was saved

ASSUME StorageAssumption ==
  /\ ArraySize \in Nat \ {0} /\ StoreTypeSize \in Nat \ {0}
  /\ {MinBits, MaxBits, DirectBits} \subseteq 1 .. StoreTypeSize /\ MinBits <= DirectBits /\ MaxBits <= DirectBits
  /\ 0 \in Ids /\ Ids \subseteq Nat
  /\ \A s \in FilePalettes : DOMAIN s = 1 .. Len(s) /\ Len(s) \in 1 .. Pow2[DirectBits]

Positions == 0 .. ArraySize - 1

ASSUME ReadAssumption == Read # Unreadable /\ {Read, Unreadable} \cap [Positions -> Int] = {}

LightLevels == 0 .. Pow2[MinBits] - 1

VARIABLES
  kind,       \* "blocks", "biomes" or "light"
  nameToId,   \* Palette::_nameToId, the values by index
  valueSize,  \* DynamicStorage::_valueSize
  store,      \* DynamicStorage::_store
  lightCount, \* Section::_skyLightCount: positions that are lit
  file        \* what a region file holds for the section, or Read

vars == <<kind, nameToId, valueSize, store, lightCount, file>>

-----------------------------------------------------------------------------
(* DynamicStorage *)

PerWord(size)  == StoreTypeSize \div size
Words(size)    == ArraySize \div PerWord(size) + (IF ArraySize % PerWord(size) # 0 THEN 1 ELSE 0)
Blank(size)    == [w \in 1 .. Words(size) |-> 0]

\* Where a value is: its word, and its first bit in the word.
EntryNumber(size, idx) == idx \div PerWord(size) + 1
StartOffset(size, idx) == (idx % PerWord(size)) * size

\* (word >> offset) & mask, and the word with that part replaced.
Field(word, offset, size) == (word \div Pow2[offset]) % Pow2[size]
WithField(word, offset, size, value) == word + (value - Field(word, offset, size)) * Pow2[offset]

\* get(), of a storage with a width: -1 stands for the exception of at(), when the store is too short.
Get(st, size, idx) ==
  IF EntryNumber(size, idx) \in DOMAIN st THEN Field(st[EntryNumber(size, idx)], StartOffset(size, idx), size) ELSE -1

\* set(), of a storage with a width; a store that is too short throws and stays as it is.
Put(st, size, idx, value) ==
  IF EntryNumber(size, idx) \notin DOMAIN st THEN st
  ELSE [st EXCEPT ![EntryNumber(size, idx)] = WithField(@, StartOffset(size, idx), size, value)]

\* The values, put one after the other into an empty store.
Pack(size, values) ==
  LET put[n \in 0 .. ArraySize] == IF n = 0 THEN Blank(size) ELSE Put(put[n - 1], size, n - 1, values[n - 1])
  IN  put[ArraySize]

Unpack(st, size) == [idx \in Positions |-> Get(st, size, idx)]

\* Variant: the words stay as they are, and new ones are added behind them.
ResizedWords(st, old, new) ==
  IF new = old THEN st ELSE [w \in 1 .. Words(new) |-> IF w \in DOMAIN st THEN st[w] ELSE 0]

\* setValueSize(): every value moves to a store of the new width; an empty storage has none to move.
Resized(st, old, new) ==
  CASE new = old -> st
    [] new = 0 -> <<>>
    [] new # old /\ new # 0 -> IF old = 0 THEN Blank(new) ELSE Pack(new, Unpack(st, old))

-----------------------------------------------------------------------------
(* Palette *)

BitsNeeded[n \in Nat] == IF n <= 1 THEN 0 ELSE 1 + BitsNeeded[(n + 1) \div 2]

\* BlockPalette::getBits(), BiomePalette::getBits().
GetBits(palette) ==
  LET bits == BitsNeeded[Len(palette)]
  IN  CASE Len(palette) <= 1 -> 0
        [] kind = "blocks" /\ Len(palette) > 1 ->
             IF bits <= MinBits THEN MinBits ELSE IF bits <= MaxBits THEN bits ELSE DirectBits
        [] kind = "biomes" /\ Len(palette) > 1 -> IF bits <= MaxBits THEN bits ELSE MaxBits

Add(palette, id) == IF id \in Range(palette) THEN palette ELSE Append(palette, id)

GetId(palette, id) == (CHOOSE i \in DOMAIN palette : palette[i] = id) - 1

GetGlobalId(palette, local) == IF local + 1 \in DOMAIN palette THEN palette[local + 1] ELSE -1

-----------------------------------------------------------------------------
(* Section *)

\* getBlock(), getBiome(): a storage without values reads as air.
GetBlock(p) == IF valueSize = 0 THEN 0 ELSE GetGlobalId(nameToId, Get(store, valueSize, p))

\* A section as it was saved: its palette and the index of each position.
SavedSections ==
  UNION {[palette : {palette}, values : [Positions -> 0 .. Len(palette) - 1]] : palette \in FilePalettes}

Init ==
  /\ kind \in {"blocks", "biomes", "light"}
  /\ nameToId = <<0>>
  /\ valueSize = IF kind = "light" THEN MinBits ELSE 0
  /\ store = IF kind = "light" THEN Blank(MinBits) ELSE <<>>
  /\ lightCount = 0
  /\ file \in CASE kind = "blocks" -> SavedSections \cup {Read}
                [] kind = "light"  -> [light : [Positions -> LightLevels]] \cup {Read}
                [] kind = "biomes" -> {Read}

\* Variant: a storage that has a width keeps it.
SetBlockKeepsWidth(p, id) ==
  LET palette == Add(nameToId, id)
      size    == IF valueSize = 0 THEN GetBits(palette) ELSE valueSize
      resized == Resized(store, valueSize, size)
  IN  /\ kind # "light"
      /\ nameToId' = palette
      /\ valueSize' = size
      /\ store' = IF size = 0 \/ GetId(palette, id) > Pow2[size] - 1 THEN resized
                  ELSE Put(resized, size, p, GetId(palette, id))
      /\ file' = Read
      /\ UNCHANGED <<kind, lightCount>>

\* setBlock(), setBiome(): the value enters the palette, the storage gets the width the palette asks for, the index is
\* stored.  An index too wide for the storage throws, with the palette already longer; a storage of width 0 ignores it.
SetBlock(p, id) ==
  LET palette == Add(nameToId, id)
      bits    == GetBits(palette)
      resize  == GetBits(nameToId) # bits /\ bits # 0
      size    == IF resize THEN bits ELSE valueSize
      resized == IF resize THEN Resized(store, valueSize, bits) ELSE store
  IN  /\ kind # "light"
      /\ nameToId' = palette
      /\ valueSize' = size
      /\ store' = IF size = 0 \/ GetId(palette, id) > Pow2[size] - 1 THEN resized
                  ELSE Put(resized, size, p, GetId(palette, id))
      /\ file' = Read
      /\ UNCHANGED <<kind, lightCount>>

\* _regionLoadPalette(): an id once, in the order of the file.
RegionLoadPalette(blocks) ==
  LET palette[i \in 0 .. Len(blocks)] ==
        IF i = 0 THEN <<>> ELSE Add(palette[i - 1], FromBlockToProtocolId(blocks[i]))
  IN  palette[Len(blocks)]

\* The width of the indices in a region file.
FileBits(n) == IF BitsNeeded[n] <= MinBits THEN MinBits ELSE BitsNeeded[n]

\* _regionLoadBlocks(): the palette of the file replaces the section's, then the words of the file replace the store, whose
\* width is the one the palette asks for.  A section of one value has no words in the file and the storage is left alone.
RegionLoadBlocks ==
  /\ kind = "blocks" /\ file # Read
  /\ nameToId' = RegionLoadPalette(file.palette)
  /\ \/ /\ Len(file.palette) = 1
        /\ UNCHANGED <<valueSize, store>>
     \/ /\ Len(file.palette) > 1
        /\ valueSize' = GetBits(nameToId')
        /\ store' = Pack(FileBits(Len(file.palette)), file.values)
  /\ file' = Read
  /\ UNCHANGED <<kind, lightCount>>

\* Variant: every write of light counts.
SetLightAlwaysCounts(p, level) ==
  /\ kind = "light"
  /\ lightCount' = lightCount + (IF level # 0 THEN 1 ELSE -1)
  /\ store' = Put(store, valueSize, p, level)
  /\ file' = Read
  /\ UNCHANGED <<kind, nameToId, valueSize>>

\* setSkyLight(), setBlockLight(): the counter follows the change of one position.
SetLight(p, level) ==
  LET old == Get(store, valueSize, p)
  IN  /\ kind = "light"
      /\ lightCount' = lightCount + (IF old = 0 /\ level # 0 THEN 1 ELSE 0) - (IF old # 0 /\ level = 0 THEN 1 ELSE 0)
      /\ store' = Put(store, valueSize, p, level)
      /\ file' = Read
      /\ UNCHANGED <<kind, nameToId, valueSize>>

\* recalculateSkyLightCount(), recalculateBlockLightCount().
LightCount(levels) == Cardinality({p \in Positions : levels[p] # 0})

\* _regionLoadLights(): the light of the file.
RegionLoadLights ==
  /\ kind = "light" /\ file # Read
  /\ store' = Pack(valueSize, file.light)
  /\ lightCount' = LightCount(file.light)
  /\ file' = Read
  /\ UNCHANGED <<kind, nameToId, valueSize>>

\* recalculateSkyLight(), of a section that is generated or that the file has no light for: all lit.
RecalculateSkyLight ==
  LET full == [p \in Positions |-> Pow2[MinBits] - 1]
  IN  /\ kind = "light"
      /\ store' = Pack(valueSize, full)
      /\ lightCount' = LightCount(full)
      /\ file' = Read
      /\ UNCHANGED <<kind, nameToId, valueSize>>

Next ==
  \/ \E p \in Positions, id \in Ids : SetBlock(p, id)
  \/ \E p \in Positions, level \in LightLevels : SetLight(p, level)
  \/ RegionLoadBlocks \/ RegionLoadLights \/ RecalculateSkyLight

Spec == Init /\ [][Next]_vars

-----------------------------------------------------------------------------
(* What addPalette() and addChunkColumn() send, and what a peer makes of it. *)

\* The palette on the wire: one value, a list, or nothing at all when the values are sent directly.
WirePalette ==
  [bits   |-> GetBits(nameToId),
   values |-> IF GetBits(nameToId) = DirectBits /\ kind = "blocks" THEN <<>> ELSE nameToId,
   data   |-> IF GetBits(nameToId) = 0 THEN <<>> ELSE store]

PeerSees(p) ==
  CASE WirePalette.bits = 0 -> Head(WirePalette.values)
    [] WirePalette.values # <<>> /\ WirePalette.bits # 0 ->
         GetGlobalId(WirePalette.values, Get(WirePalette.data, WirePalette.bits, p))
    [] OTHER -> Get(WirePalette.data, WirePalette.bits, p)

-----------------------------------------------------------------------------
\* What a position holds.  getBlock() returns it, save from a section of a single state other than air, which it reads as
\* air until something is written to it.
Content(p) == IF valueSize = 0 THEN nameToId[1] ELSE GetGlobalId(nameToId, Get(store, valueSize, p))

\* Palettes that are read as they were saved: states of blocks.json, whose weights fit and no two of which have the same
\* number, and no more of them than the widest index tells apart.
IsReadable(blocks) ==
  /\ Len(blocks) <= Pow2[MaxBits]
  /\ \A i \in DOMAIN blocks : IsState(blocks[i]) /\ IsCounted(blocks[i])
  /\ \A i, j \in DOMAIN blocks : StateNumber(blocks[i]) = StateNumber(blocks[j]) => i = j

SavedStates == [p \in Positions |-> StateNumber(file.palette[file.values[p] + 1])]

SavedGrid == CASE kind # "blocks" \/ file = Read -> Read
               [] kind = "blocks" /\ file # Read -> IF IsReadable(file.palette) THEN SavedStates ELSE Unreadable

\* The palette can take one more value, and the store has a word for every position.
HasRoom ==
  /\ Len(nameToId) < Pow2[IF kind = "biomes" THEN MaxBits ELSE DirectBits]
  /\ valueSize = 0 \/ \A p \in Positions : EntryNumber(valueSize, p) \in DOMAIN store

\* The packed storage is a grid, even one that was filled from a file it misreads: writing one position never changes what
\* another one holds, though a new value can change the width of every index and move every word, a write is refused only
\* for want of room, and a section with a palette that is readable holds the states that were saved, whatever the order of
\* the palette and the properties it leaves out.
Grid == INSTANCE BlockGrid WITH grid <- [p \in Positions |-> IF kind = "light" THEN 0 ELSE Content(p)],
                                saved <- SavedGrid, room <- HasRoom, Nothing <- -1
IsGrid == Grid!Spec

\* The peer that gets the section's packet sees the blocks getBlock() returns, whatever the order in which values
\* entered the palette.  Two kinds of sections are left out: those with a direct palette, whose indices are sent as if they
\* were values, and those of a single state other than air, which is sent while getBlock() returns air.
PeerSeesSection ==
  /\ kind # "light"
  /\ ~(kind = "blocks" /\ GetBits(nameToId) = DirectBits)
  /\ valueSize = 0 => nameToId[1] = 0
  => \A p \in Positions : PeerSees(p) = GetBlock(p)

\* hasSkyLight() and hasBlockLight(), which decide whether a section's light is sent, agree with the light itself: the
\* running count never drifts from the lit positions.
LightIsCounted == kind = "light" => lightCount = Cardinality({p \in Positions : Get(store, valueSize, p) # 0})
=============================================================================
