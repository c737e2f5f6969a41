------------------------------ MODULE Packets -------------------------------
(***************************************************************************)
(* The packets of the protocol: for each one the fields the parse* or       *)
(* create* function reads or writes, in order (protocol/ServerPackets.cpp,   *)
(* ClientPackets.cpp, serialization/add.hpp, pop.hpp), and its id.           *)
(***************************************************************************)
EXTENDS Wire

\* Slots: absent, or the item, how many and the TAG_End of an empty NBT.
Slot == Opt(<<VarInt, Byte, Const({})>>)

\* popArgumentSignature, popSlotWithIndex.
ArgumentSignature == <<String, ByteArray>>
SlotWithIndex     == <<Short, Slot>>

-----------------------------------------------------------------------------
(* Serverbound.  Conditions name the position of the field they look at.    *)

Attack     == {0}      \* the values of Interact::Type and SeenAdvancements::Action, as bits
InteractAt == {1}
OpenedTab  == {}

HandshakeAndLogin ==
  [Handshake          |-> <<VarInt, String, Short, VarInt>>,
   StatusRequest      |-> <<>>,
   PingRequest        |-> <<Long>>,
   LoginStart         |-> <<String, Opt(<<UUID>>)>>,
   EncryptionResponse |-> <<ByteArray, ByteArray>>]

PlayToChat ==
  [ConfirmTeleportation   |-> <<VarInt>>,
   QueryBlockEntityTag    |-> <<VarInt, Position>>,
   ChangeDifficulty       |-> <<Byte>>,
   MessageAcknowledgement |-> <<VarInt>>,
   ChatCommand            |-> <<String, Long, Long, Many(ArgumentSignature), VarInt, BitSet20>>,
   ChatMessage            |-> <<String, Long, Long, Opt(<<ByteArray>>), BitSet20>>]

PlayToContainers ==
  [ClientCommand            |-> <<VarInt>>,
   ClientInformation        |-> <<String, Byte, VarInt, Bool, Byte, VarInt, Bool, Bool>>,
   CommandSuggestionRequest |-> <<VarInt, String>>,
   ClickContainerButton     |-> <<Byte, Byte>>,
   ClickContainer           |-> <<Byte, VarInt, Short, Byte, VarInt, Many(SlotWithIndex), Slot>>,
   CloseContainerRequest    |-> <<Byte>>,
   PluginMessage            |-> <<String>>,
   EditBook                 |-> <<VarInt, Many(<<String>>), Opt(<<String>>)>>,
   QueryEntityTag           |-> <<VarInt, VarInt>>]

PlayToMoves ==
  [Interact                     |-> <<VarInt, VarInt, When(2, {InteractAt}, <<Float, Float, Float>>),
                                      Unless(2, {Attack}, <<VarInt>>), Bool>>,
   JigsawGenerate               |-> <<Position, VarInt, Bool>>,
   KeepAliveResponse            |-> <<Long>>,
   LockDifficulty               |-> <<Bool>>,
   SetPlayerPosition            |-> <<Double, Double, Double, Bool>>,
   SetPlayerPositionAndRotation |-> <<Double, Double, Double, Float, Float, Bool>>,
   SetPlayerRotation            |-> <<Float, Float, Bool>>,
   SetPlayerOnGround            |-> <<Bool>>,
   MoveVehicle                  |-> <<Double, Double, Double, Float, Float>>]

PlayToRecipes ==
  [PaddleBoat               |-> <<Bool, Bool>>,
   PickItem                 |-> <<VarInt>>,
   PlaceRecipe              |-> <<Byte, String, Bool>>,
   PlayerAbilities          |-> <<Byte>>,
   PlayerAction             |-> <<VarInt, Position, Byte, VarInt>>,
   PlayerCommand            |-> <<VarInt, VarInt, VarInt>>,
   PlayerInput              |-> <<Float, Float, Byte>>,
   Pong                     |-> <<Int32>>,
   PlayerSession            |-> <<UUID, Long, ByteArray, ByteArray>>,
   ChangeRecipeBookSettings |-> <<VarInt, Bool, Bool>>,
   SetSeenRecipe            |-> <<String>>]

PlayToCommandBlocks ==
  [RenameItem                  |-> <<String>>,
   ResourcePack                |-> <<VarInt>>,
   SeenAdvancements            |-> <<VarInt, When(1, {OpenedTab}, <<String>>)>>,
   SelectTrade                 |-> <<VarInt>>,
   SetBeaconEffect             |-> <<Bool, VarInt, Bool, VarInt>>,
   SetHeldItem                 |-> <<Short>>,
   ProgramCommandBlock         |-> <<Position, String, VarInt, Byte>>,
   ProgramCommandBlockMinecart |-> <<VarInt, String, Bool>>,
   SetCreativeModeSlot         |-> <<Short, Slot>>]

PlayToUse ==
  [ProgramJigsawBlock    |-> <<Position, String, String, String, String, String>>,
   ProgramStructureBlock |-> <<Position, VarInt, VarInt, Byte, Byte, Byte, Byte, Byte, Byte,
                               VarInt, VarInt, String, Float, VarLong, Byte>>,
   UpdateSign            |-> <<Position, String, String, String, String>>,
   SwingArm              |-> <<VarInt>>,
   TeleportToEntity      |-> <<UUID>>,
   UseItemOn             |-> <<VarInt, Position, VarInt, Float, Float, Float, Bool, VarInt>>,
   UseItem               |-> <<VarInt, VarInt>>]

Serverbound ==
  HandshakeAndLogin @@ PlayToChat @@ PlayToContainers @@ PlayToMoves @@ PlayToRecipes
    @@ PlayToCommandBlocks @@ PlayToUse

\* ServerPacketsID and the packetIDToParse maps: the packets of a status, by id from 0 up.
PacketIDs ==
  [Initial |-> <<"Handshake">>,
   Status  |-> <<"StatusRequest", "PingRequest">>,
   Login   |-> <<"LoginStart", "EncryptionResponse">>,
   Play    |-> <<"ConfirmTeleportation", "QueryBlockEntityTag", "ChangeDifficulty", "MessageAcknowledgement",
                 "ChatCommand", "ChatMessage", "ClientCommand", "ClientInformation", "CommandSuggestionRequest",
                 "ClickContainerButton", "ClickContainer", "CloseContainerRequest", "PluginMessage", "EditBook",
                 "QueryEntityTag", "Interact", "JigsawGenerate", "KeepAliveResponse", "LockDifficulty",
                 "SetPlayerPosition", "SetPlayerPositionAndRotation", "SetPlayerRotation", "SetPlayerOnGround",
                 "MoveVehicle", "PaddleBoat", "PickItem", "PlaceRecipe", "PlayerAbilities", "PlayerAction",
                 "PlayerCommand", "PlayerInput", "Pong", "PlayerSession", "ChangeRecipeBookSettings",
                 "SetSeenRecipe", "RenameItem", "ResourcePack", "SeenAdvancements", "SelectTrade",
                 "SetBeaconEffect", "SetHeldItem", "ProgramCommandBlock", "ProgramCommandBlockMinecart",
                 "SetCreativeModeSlot", "ProgramJigsawBlock", "ProgramStructureBlock", "UpdateSign", "SwingArm",
                 "TeleportToEntity", "UseItemOn", "UseItem">>]

-----------------------------------------------------------------------------
(* Clientbound. *)

\* addAttributesProperty, the advancements and the raw messages of add.hpp.
Attribute == <<String, String, Many(<<UUID, Double, Byte>>)>>

\* The flags of a display are the eighth field; bit 0 of them is hasBackgroundTexture.
Display     == <<String, String, Slot, VarInt, Int32, IfBit(8, 0, <<String>>), Float, Float>>
Advancement == <<String, Opt(<<String>>), Opt(Display), Many(<<String>>), Many(<<Many(<<String>>)>>)>>
Progress   == <<String, Many(<<String, Bool, Long>>)>>
RawMessage == <<VarInt, ByteArray>>

LoginAndStatus ==
  [DisconnectLogin   |-> <<String>>,
   EncryptionRequest |-> <<String, ByteArray, ByteArray>>,
   LoginSuccess      |-> <<UUID, String, Many(<<String, String, Opt(<<String>>)>>)>>,
   Status            |-> <<String>>,
   Ping              |-> <<Long>>]

SpawnsToContainers ==
  [SpawnEntity         |-> <<VarInt, UUID, VarInt, Double, Double, Double, Byte, Byte, Byte, VarInt, Short, Short, Short>>,
   SpawnPlayer         |-> <<VarInt, UUID, Double, Double, Double, Byte, Byte>>,
   EntityAnimation     |-> <<VarInt, Byte>>,
   BlockUpdate         |-> <<Position, VarInt>>,
   ChangeDifficulty    |-> <<Byte, Bool>>,
   Commands            |-> <<Many(<<VarInt>>), VarInt>>,
   CloseContainer      |-> <<Byte>>,
   SetContainerContent |-> <<Byte, VarInt, Many(<<Slot>>), Slot>>,
   SetContainerSlot    |-> <<Byte, VarInt, Short, Slot>>]

PluginToWorld ==
  [PluginMessage         |-> <<String, Rest>>,
   DisconnectPlay        |-> <<String>>,
   EntityEvent           |-> <<Int32, Byte>>,
   UnloadChunk           |-> <<Int32, Int32>>,
   InitializeWorldBorder |-> <<Double, Double, Double, Double, VarLong, VarInt, VarInt, VarInt>>,
   GameEvent             |-> <<Byte, Float>>,
   KeepAlive             |-> <<Long>>]

\* A column: its height maps, the sections as one array, no block entities, and the light (addChunkColumn, addLight).
Masks       == Many(<<Long>>)
ChunkColumn == <<NBT, ByteArray, VarInt, Bool, Masks, Masks, Masks, Masks, Many(<<ByteArray>>), Many(<<ByteArray>>)>>

WorldToLogin ==
  [ChunkDataAndLightUpdate |-> <<Int32, Int32>> \o ChunkColumn,
   WorldEvent              |-> <<Int32, Position, Int32, Bool>>,
   LoginPlay               |-> <<Int32, Bool, Byte, Byte, Many(<<String>>), NBT, String, String, Long, VarInt, VarInt,
                                 VarInt, Bool, Bool, Bool, Bool, Opt(<<String, Position>>)>>]

EntitiesToChat ==
  [UpdateEntityPosition         |-> <<VarInt, Short, Short, Short, Bool>>,
   UpdateEntityPositionRotation |-> <<VarInt, Short, Short, Short, Byte, Byte, Bool>>,
   UpdateEntityRotation         |-> <<VarInt, Byte, Byte, Bool>>,
   PlayerAbilities              |-> <<Byte, Float, Float>>,
   PlayerChatMessage            |-> <<UUID, VarInt, Opt(<<ByteArray>>), String, Long, Long, Many(RawMessage),
                                      Opt(<<String>>), VarInt, VarInt, String, Opt(<<String>>)>>]

\* PlayerInfoUpdate: each bit of the actions adds its own fields to every player.
PlayersToRecipes ==
  [PlayerInfoRemove |-> <<Many(<<UUID>>)>>,
   PlayerInfoUpdate |-> <<Byte, Many(<<UUID, IfBit(1, 0, <<String, Const({})>>), IfBit(1, 1, <<Bool>>),
                          IfBit(1, 2, <<VarInt>>), IfBit(1, 3, <<Bool>>), IfBit(1, 4, <<VarInt>>),
                          IfBit(1, 5, <<Bool>>)>>)>>,
   SynchronizePlayerPosition |-> <<Double, Double, Double, Float, Float, Byte, VarInt, Bool>>,
   UpdateRecipesBook |-> <<VarInt, Bool, Bool, Bool, Bool, Bool, Bool, Bool, Bool, Many(<<String>>),
                           When(1, {{}}, <<Many(<<String>>)>>)>>]

EntitiesToSounds ==
  [RemoveEntities          |-> <<Many(<<VarInt>>)>>,
   HeadRotation            |-> <<VarInt, Byte>>,
   ServerData              |-> <<Bool, Bool, Bool>>,
   SetHeldItem             |-> <<Byte>>,
   CenterChunk             |-> <<VarInt, VarInt>>,
   SetDefaultSpawnPosition |-> <<Position, Float>>,
   SetEntityMetadata       |-> <<VarInt, Byte, VarInt, Slot, Const(0 .. 7)>>,
   UpdateTime              |-> <<Long, Long>>,
   EntitySoundEffect       |-> <<VarInt, VarInt, VarInt, Float, Float, Long>>]

SoundsToTags ==
  [SoundEffect       |-> <<VarInt, VarInt, Int32, Int32, Int32, Float, Float, Long>>,
   StopSound         |-> <<Byte, When(1, {{0}, {0, 1}}, <<VarInt>>), When(1, {{1}, {0, 1}}, <<String>>)>>,
   SystemChatMessage |-> <<String, Bool>>,
   EntityVelocity    |-> <<VarInt, Short, Short, Short>>,
   SetExperience     |-> <<Float, VarInt, VarInt>>,
   Health            |-> <<Float, VarInt, Float>>,
   TeleportEntity    |-> <<VarInt, Double, Double, Double, Byte, Byte, Bool>>]

AdvancementsToTags ==
  [UpdateAdvancements |-> <<Bool, Many(Advancement), Many(<<String>>), Many(Progress)>>,
   UpdateAttributes   |-> <<VarInt, Many(Attribute)>>,
   FeatureFlags       |-> <<Many(<<String>>)>>,
   UpdateRecipes      |-> <<Many(<<VarInt>>)>>,
   UpdateTags         |-> <<Many(<<VarInt>>)>>]

\* Player::sendSkinLayers(): the bytes of a metadata packet, by hand.
SkinLayers == [SkinLayers |-> <<VarInt, Const({0, 4}), Const({}), Const(0 .. 7), Const(0 .. 7)>>]

Clientbound ==
  LoginAndStatus @@ SpawnsToContainers @@ PluginToWorld @@ WorldToLogin @@ EntitiesToChat @@ PlayersToRecipes
    @@ EntitiesToSounds @@ SoundsToTags @@ AdvancementsToTags @@ SkinLayers

\* ClientPacketID.
ClientPacketID ==
  [DisconnectLogin |-> 0, EncryptionRequest |-> 1, LoginSuccess |-> 2, Status |-> 0, Ping |-> 1,
   SpawnEntity |-> 0, SpawnPlayer |-> 2, EntityAnimation |-> 3, BlockUpdate |-> 9, ChangeDifficulty |-> 11,
   Commands |-> 14, CloseContainer |-> 15, SetContainerContent |-> 16, SetContainerSlot |-> 18,
   PluginMessage |-> 21, DisconnectPlay |-> 23, EntityEvent |-> 25, UnloadChunk |-> 27, GameEvent |-> 28,
   InitializeWorldBorder |-> 30, KeepAlive |-> 31, ChunkDataAndLightUpdate |-> 32, WorldEvent |-> 33,
   LoginPlay |-> 36, UpdateEntityPosition |-> 39, UpdateEntityPositionRotation |-> 40,
   UpdateEntityRotation |-> 41, PlayerAbilities |-> 48, PlayerChatMessage |-> 49, PlayerInfoRemove |-> 53,
   PlayerInfoUpdate |-> 54, SynchronizePlayerPosition |-> 56, UpdateRecipesBook |-> 57, RemoveEntities |-> 58,
   HeadRotation |-> 62, ServerData |-> 65, SetHeldItem |-> 73, CenterChunk |-> 74,
   SetDefaultSpawnPosition |-> 76, SetEntityMetadata |-> 78, SkinLayers |-> 78, EntityVelocity |-> 80, SetExperience |-> 82,
   Health |-> 83, UpdateTime |-> 90, EntitySoundEffect |-> 93, SoundEffect |-> 94, StopSound |-> 95,
   SystemChatMessage |-> 96, TeleportEntity |-> 100, UpdateAdvancements |-> 101, UpdateAttributes |-> 102,
   FeatureFlags |-> 103, UpdateRecipes |-> 105, UpdateTags |-> 106]
=============================================================================
