--------------------------- MODULE ClientStructs ----------------------------
(***************************************************************************)
(* The structs of protocol/ClientPackets.hpp, which a caller fills in, and  *)
(* how a create* function turns one into the fields of its packet: for each *)
(* packet the members it reads, in the order it writes them.  The elements  *)
(* of a list are kept as they are on the wire (Packets), enumerators are    *)
(* numbers.  Members no create* function reads are left out                 *)
(* (ServerData::motd and icon, PlayerChatMessage::filterData); containers   *)
(* are their id, state, slots and carried item.                             *)
(***************************************************************************)
EXTENDS ServerStructs

LoginMembers ==
  [DisconnectLogin   |-> <<"reason">>,
   EncryptionRequest |-> <<"serverID", "publicKey", "verifyToken">>,
   LoginSuccess      |-> <<"uuid", "username", "properties">>,
   Status            |-> <<"payload">>,
   Ping              |-> <<"payload">>]

SpawnToPluginMembers ==
  [SpawnEntity         |-> <<"entityId", "entityUuid", "type", "x", "y", "z", "pitch", "yaw", "headYaw", "data",
                             "velocityX", "velocityY", "velocityZ">>,
   SpawnPlayer         |-> <<"entityId", "playerUuid", "x", "y", "z", "yaw", "pitch">>,
   EntityAnimation     |-> <<"entityId", "animId">>,
   BlockUpdate         |-> <<"location", "blockId">>,
   ChangeDifficulty    |-> <<"difficulty", "locked">>,
   Commands            |-> <<"nodes", "rootIndex">>,
   CloseContainer      |-> <<"windowId">>,
   SetContainerContent |-> <<"id", "state", "slots", "cariedItem">>,
   SetContainerSlot    |-> <<"containerId", "state", "slot", "item">>,
   PluginMessage       |-> <<"channel", "data">>]

EventToColumnMembers ==
  [DisconnectPlay          |-> <<"reason">>,
   EntityEvent             |-> <<"entityId", "eventStatus">>,
   UnloadChunk             |-> <<"x", "z">>,
   GameEvent               |-> <<"event", "value">>,
   InitializeWorldBorder   |-> <<"x", "z", "oldDiameter", "newDiameter", "speed", "portalTeleportBoundary",
                                 "warningTime", "warningBlocks">>,
   KeepAlive               |-> <<"id">>,
   ChunkDataAndLightUpdate |-> <<"chunkX", "chunkZ", "heightMap", "sections", "blockEntities", "trustEdges",
                                 "skyLightMask", "blockLightMask", "emptySkyLightMask", "emptyBlockLightMask",
                                 "skyLight", "blockLight">>]

WorldToAbilitiesMembers ==
  [WorldEvent                   |-> <<"event", "position", "data", "disableRelativeVolume">>,
   LoginPlay                    |-> <<"entityID", "isHardcore", "gamemode", "previousGamemode", "dimensionNames",
                                      "registryCodec", "dimensionType", "dimensionName", "hashedSeed", "maxPlayers",
                                      "viewDistance", "simulationDistance", "reducedDebugInfo", "enableRespawnScreen",
                                      "isDebug", "isFlat", "hasDeathLocation", "deathDimensionName",
                                      "deathLocation">>,
   UpdateEntityPosition         |-> <<"entityId", "deltaX", "deltaY", "deltaZ", "onGround">>,
   UpdateEntityPositionRotation |-> <<"entityId", "deltaX", "deltaY", "deltaZ", "yaw", "pitch", "onGround">>,
   UpdateEntityRotation         |-> <<"entityId", "yaw", "pitch", "onGround">>,
   PlayerAbilities              |-> <<"flags", "flyingSpeed", "fieldOfViewModifier">>]

ChatToInfoMembers ==
  [PlayerChatMessage |-> <<"senderUUID", "index", "hasSignature", "signature", "message", "timestamp", "salt",
                           "previousMessages", "hasUnsignedContent", "unsignedContent", "filterType", "chatType",
                           "networkName", "hasNetworkTargetName", "networkTargetName">>,
   PlayerInfoRemove  |-> <<"uuids">>,
   PlayerInfoUpdate  |-> <<"actions", "actionSets">>]

PositionToSpawnMembers ==
  [SynchronizePlayerPosition |-> <<"x", "y", "z", "yaw", "pitch", "flags", "teleportId", "dismountVehicle">>,
   UpdateRecipesBook         |-> <<"action", "craftingRecipeBookOpen", "craftingRecipeBookFilterActive",
                                   "smeltingRecipeBookOpen", "smeltingRecipeBookFilterActive",
                                   "blastFurnaceRecipeBookOpen", "blastFurnaceRecipeBookFilterActive",
                                   "smokerRecipeBookOpen", "smokerRecipeBookFilterActive", "recipesId",
                                   "recipiesIdForInit">>,
   RemoveEntities            |-> <<"entities">>,
   HeadRotation              |-> <<"entityID", "headYaw">>,
   ServerData                |-> <<"hasMotd", "hasIcon", "enforceSecureChat">>,
   SetHeldItem               |-> <<"slot">>,
   CenterChunk               |-> <<"x", "z">>,
   SetDefaultSpawnPosition   |-> <<"position", "angle">>]

\* createSetEntityMetadata() writes the first entry only; createSetExperience() the level before the total.
MetadataToTeleportMembers ==
  [SetEntityMetadata |-> <<"entityId", "index", "type", "slot">>,
   UpdateTime        |-> <<"worldAge", "timeOfDay">>,
   EntitySoundEffect |-> <<"soundId", "category", "entityId", "volume", "pitch", "seed">>,
   SoundEffect       |-> <<"soundId", "category", "x", "y", "z", "volume", "pitch", "seed">>,
   StopSound         |-> <<"flags", "source", "sound">>,
   SystemChatMessage |-> <<"JSONData", "overlay">>,
   EntityVelocity    |-> <<"entityId", "velocityX", "velocityY", "velocityZ">>,
   SetExperience     |-> <<"experienceBar", "level", "totalExperience">>,
   Health            |-> <<"health", "food", "foodSaturation">>,
   TeleportEntity    |-> <<"entityID", "x", "y", "z", "yaw", "pitch", "onGround">>]

AdvancementsToTagsMembers ==
  [UpdateAdvancements |-> <<"resetOrClear", "advancementMapping", "identifiers", "progressMapping">>,
   UpdateAttributes   |-> <<"entityId", "attributes">>,
   FeatureFlags       |-> <<"flags">>,
   UpdateRecipes      |-> <<"recipes">>,
   UpdateTags         |-> <<"tags">>]

ClientMembers ==
  LoginMembers @@ SpawnToPluginMembers @@ EventToColumnMembers @@ WorldToAbilitiesMembers @@ ChatToInfoMembers
    @@ PositionToSpawnMembers @@ MetadataToTeleportMembers @@ AdvancementsToTagsMembers
    @@ [SkinLayers |-> <<"entityId">>]

-----------------------------------------------------------------------------

\* How many members a field takes: a flag and what it announces, the parts of a condition, none, or one.
MembersOf(f) ==
  CASE f[1] = "Opt" /\ f # Slot -> 1 + Len(f[2])
    [] f[1] \in Conditional -> Len(f[4])
    [] f[1] = "Const" -> 0
    [] OTHER -> 1

RECURSIVE Fields(_, _, _)

\* The fields of a layout for the values of the members, given the fields before them.
Fields(layout, values, ctx) ==
  IF layout = <<>> THEN <<>>
  ELSE LET f    == Head(layout)
           n    == MembersOf(f)
           mine == SubSeq(values, 1, n)
           v    == CASE f[1] = "Opt" /\ f # Slot -> IF mine[1] = {} THEN <<>> ELSE <<Tail(mine)>>
                     [] f[1] \in Conditional -> IF Holds(f, ctx) THEN <<mine>> ELSE <<>>
                     [] f[1] = "Const" -> f[2]
                     [] OTHER -> mine[1]
       IN  <<v>> \o Fields(Tail(layout), SubSeq(values, n + 1, Len(values)), Append(ctx, v))

\* What a create* function writes for the struct it is given.
Created(name, struct) ==
  AddAll(Clientbound[name], Fields(Clientbound[name], [i \in DOMAIN ClientMembers[name] |-> struct[ClientMembers[name][i]]], <<>>))

\* The struct that has these fields on the wire.
ClientStruct(name, vals) ==
  LET set == FlattenSeq([i \in DOMAIN vals |-> Assigned(Clientbound[name][i], vals[i])])
  IN  [m \in Range(ClientMembers[name]) |-> set[CHOOSE i \in DOMAIN set : ClientMembers[name][i] = m]]
=============================================================================
