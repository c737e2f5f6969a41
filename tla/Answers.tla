------------------------------ MODULE Answers -------------------------------
(***************************************************************************)
(* What the server says and when: the send* functions of Client and Player  *)
(* by the packets they write, and the packets with which the handlers of a  *)
(* connection answer what the peer sends.  Names, keys and texts are all    *)
(* the one string Word; floating-point numbers are their IEEE bits.         *)
(***************************************************************************)
EXTENDS ClientStructs

\* A packet of the peer: its name and the values of its fields.
Packet(name, vals) == [name |-> name, vals |-> vals]

\* A packet of the server: its name and the struct given to create*().
Sent(name, struct) == [name |-> name, struct |-> struct]

Word == <<{0}, {0, 1}>>

-----------------------------------------------------------------------------
(* The send* functions.  Those of Player write nothing once the client is   *)
(* gone (GET_CLIENT).  playCustomSound() is missing: createCustomSoundEffect *)
(* returns an empty packet.                                                 *)

ClientSends == {"EncryptionRequest", "Status", "Ping", "LoginSuccess"}

Disconnects == {"DisconnectLogin", "DisconnectPlay"}

PlayerSoundsToInfo ==
  {"SoundEffect", "EntitySoundEffect", "StopSound", "BlockUpdate", "FeatureFlags", "ServerData", "LoginPlay",
   "PlayerInfoUpdate", "PlayerInfoRemove"}

PlayerSpawnsToRotation ==
  {"SpawnEntity", "SpawnPlayer", "EntityVelocity", "Health", "UpdateTime", "PlayerChatMessage",
   "SystemChatMessage", "WorldEvent", "KeepAlive", "UpdateEntityPosition", "UpdateEntityPositionRotation",
   "UpdateEntityRotation"}

PlayerRotationToContainers ==
  {"HeadRotation", "CenterChunk", "SynchronizePlayerPosition", "ChunkDataAndLightUpdate", "UnloadChunk",
   "RemoveEntities", "EntityAnimation", "TeleportEntity", "PlayerAbilities", "GameEvent", "CloseContainer"}

PlayerContainersToExperience ==
  {"SetContainerContent", "SetContainerSlot", "UpdateRecipes", "UpdateTags", "Commands", "ChangeDifficulty",
   "SetHeldItem", "EntityEvent", "UpdateRecipesBook", "InitializeWorldBorder", "SetDefaultSpawnPosition",
   "SetEntityMetadata", "UpdateAttributes", "UpdateAdvancements", "SetExperience"}

Sends ==
  ClientSends \cup Disconnects \cup PlayerSoundsToInfo \cup PlayerSpawnsToRotation
    \cup PlayerRotationToContainers \cup PlayerContainersToExperience \cup {"SkinLayers", "PluginMessage"}

-----------------------------------------------------------------------------
(* The login sequence of a server in offline mode: _loginSequence().        *)

\* The NBT of the registries in sendLoginPlay(): dimensions, biomes and chat types.
Entry(element) ==
  Tag("Compound", <<>>, <<Tag("String", Word, Word), Tag("Int", Word, {}), Tag("Compound", Word, element)>>)

Registry(entries) == Tag("Compound", Word, <<Tag("String", Word, Word), Tag("List", Word, entries)>>)

DimensionElement ==
  <<Tag("Byte", Word, {}), Tag("Int", Word, {8}), Tag("String", Word, Word), Tag("Float", Word, {}),
    Tag("Compound", Word, <<Tag("String", Word, Word),
                            Tag("Compound", Word, <<Tag("Int", Word, {0, 1, 2}), Tag("Int", Word, {})>>)>>),
    Tag("Int", Word, 6 .. 31)>>

BiomeElement ==
  <<Tag("String", Word, Word), Tag("Float", Word, {23, 29}), Tag("Compound", Word, <<Tag("Int", Word, {22})>>)>>

ChatElement ==
  LET decoration == Tag("Compound", Word,
                        <<Tag("List", Word, <<Tag("String", <<>>, Word), Tag("String", <<>>, Word)>>),
                          Tag("String", Word, Word)>>)
  IN  <<decoration, decoration>>

RegistryCodec ==
  Tag("Compound", <<>>,
      <<Registry(<<Entry(DimensionElement)>>),
        Registry(<<Entry(BiomeElement), Entry(BiomeElement)>>),
        Registry(<<Entry(ChatElement)>>)>>)

PlayerId      == {0, 7}
FlyingSpeed   == {0, 2, 3, 6, 7, 10, 11, 14, 15, 18, 19, 22, 24, 26, 27, 28, 29}  \* 0.05f
FieldOfView   == FlyingSpeed \cup {23}                                            \* 0.1f

\* sendLoginPlay(): view distance 10, no place of death.
LoginPlay ==
  Sent("LoginPlay",
       [entityID |-> PlayerId, isHardcore |-> {}, gamemode |-> {}, previousGamemode |-> {},
        dimensionNames |-> <<<<Word>>>>, registryCodec |-> RegistryCodec, dimensionType |-> Word,
        dimensionName |-> Word, hashedSeed |-> {}, maxPlayers |-> {2, 4}, viewDistance |-> {1, 3},
        simulationDistance |-> {4}, reducedDebugInfo |-> {}, enableRespawnScreen |-> {0}, isDebug |-> {},
        isFlat |-> {}, hasDeathLocation |-> {}, deathDimensionName |-> <<>>,
        deathLocation |-> [x |-> {}, y |-> {}, z |-> {}]])

\* teleport({8.5, 100, 8.5}).
Synchronize ==
  LET half == {48, 53, 62}
      high == {48, 51, 52, 54, 62}
  IN  Sent("SynchronizePlayerPosition",
           [x |-> half, y |-> high, z |-> half, yaw |-> {}, pitch |-> {}, flags |-> {3, 4}, teleportId |-> {},
            dismountVehicle |-> {0}])

\* World::sendPlayerInfoAddPlayer(): the list of players for the newcomer, here alone, all six actions set.
PlayerInfo(uuid, name) ==
  Sent("PlayerInfoUpdate",
       [actions |-> 0 .. 5,
        actionSets |-> <<<<uuid, <<<<name, {}>>>>, <<<<{}>>>>, <<<<{}>>>>, <<<<{0}>>>>, <<<<{}>>>>, <<<<{}>>>>>>>>])

\* sendPlayerAbilities() of the login and of _onPlayerAbilities().
Abilities(flags) ==
  Sent("PlayerAbilities", [flags |-> flags, flyingSpeed |-> FlyingSpeed, fieldOfViewModifier |-> FieldOfView])

System == Sent("SystemChatMessage", [JSONData |-> Word, overlay |-> {}])

\* The player's constructor puts two stacks into the inventory.
Content == <<<<<<>>>>, <<<<<<{1, 2, 3, 4, 6, 7, 9}, {1, 3, 5}, {}>>>>>>, <<<<<<{0}, {2, 3}, {}>>>>>>>>

\* _continueLoginSequence(), without the chunks (ChunkLoading) and what the others are told (Session).
ContinueLoginSequence(uuid, name) ==
  <<Sent("FeatureFlags", [flags |-> <<<<Word>>>>]),
    Sent("ChangeDifficulty", [difficulty |-> {0}, locked |-> {0}]),
    Abilities(0 .. 3),
    Sent("SetHeldItem", [slot |-> {2}]),
    Sent("UpdateRecipes", [recipes |-> <<>>]),
    Sent("UpdateTags", [tags |-> <<>>]),
    Sent("EntityEvent", [entityId |-> PlayerId, eventStatus |-> {3, 4}]),
    Sent("Commands", [nodes |-> <<>>, rootIndex |-> {}]),
    Sent("UpdateRecipesBook",
         [m \in Range(ClientMembers.UpdateRecipesBook) |->
            IF m \in {"recipesId", "recipiesIdForInit"} THEN <<>> ELSE {}]),
    Synchronize,
    Sent("ServerData", [hasMotd |-> {}, hasIcon |-> {}, enforceSecureChat |-> {}]),
    PlayerInfo(uuid, name),
    Sent("CenterChunk", [x |-> {}, z |-> {}]),
    Sent("InitializeWorldBorder",
         [x |-> {}, z |-> {}, oldDiameter |-> {}, newDiameter |-> {43, 47, 48, 49, 54, 55, 62}, speed |-> {},
          portalTeleportBoundary |-> {4, 5, 6, 8, 9, 14, 15, 16, 19, 22, 23, 24}, warningTime |-> {1, 3},
          warningBlocks |-> {1, 3}]),
    Sent("SetDefaultSpawnPosition", [position |-> [x |-> {}, y |-> {2, 5, 6}, z |-> {}], angle |-> {}]),
    Sent("SetContainerContent", [id |-> {}, state |-> {}, slots |-> Content, cariedItem |-> <<>>]),
    Sent("UpdateAttributes", [entityId |-> PlayerId, attributes |-> <<>>]),
    Sent("UpdateAdvancements",
         [resetOrClear |-> {}, advancementMapping |-> <<>>, identifiers |-> <<>>, progressMapping |-> <<>>]),
    Sent("Health", [health |-> {21, 23, 24, 30}, food |-> {4}, foodSaturation |-> {21, 23, 30}]),
    Sent("SetExperience", [experienceBar |-> {}, level |-> {}, totalExperience |-> {}]),
    Synchronize,
    System>>

LoginSequence(uuid, name) ==
  <<Sent("LoginSuccess", [uuid |-> uuid, username |-> name, properties |-> <<>>]), LoginPlay>> \o ContinueLoginSequence(uuid, name)

\* How the server takes a login: [admits |-> is the world initialized, and the player on the whitelist if there is
\* one?  online |-> online-mode, session |-> what comes of the token, the key and the session server's answer].
\* A token is right only if it was asked for.
Login(name, resPck, host) ==
  CASE name = "LoginStart" /\ ~host.admits -> "refused"
    [] name = "LoginStart" /\ host.admits -> IF host.online THEN "asked" ELSE "done"
    [] name = "EncryptionResponse" -> IF resPck = <<>> THEN "refused" ELSE host.session
    [] OTHER -> "none"

\* disconnect() before the status is Play; sendEncryptionRequest(): the key and the token are short here.
LoginDisconnect   == Sent("DisconnectLogin", [reason |-> Word])
EncryptionRequest == Sent("EncryptionRequest", [serverID |-> <<>>, publicKey |-> <<<<{7}>>>>, verifyToken |-> <<<<{0}>>, <<{}>>>>])

\* _onLoginStart(): the peer's UUID, or one made from the name (two hashes).
UuidOf(p) == IF p.hasPlayerUuid = {} THEN {0, 64} ELSE p.playerUuid

OnLoginStart(p, host) ==
  CASE Login("LoginStart", <<>>, host) = "refused" -> <<LoginDisconnect>>
    [] Login("LoginStart", <<>>, host) = "asked" -> <<EncryptionRequest>>
    [] Login("LoginStart", <<>>, host) = "done" -> LoginSequence(UuidOf(p), p.name)

\* _onEncryptionResponse(): _handleOnline() takes the UUID from the session server; an answer it cannot parse throws.
OnEncryptionResponse(resPck, host) ==
  CASE Login("EncryptionResponse", resPck, host) = "refused" -> <<LoginDisconnect>>
    [] Login("EncryptionResponse", resPck, host) = "unreadable" -> <<>>
    [] Login("EncryptionResponse", resPck, host) = "done" -> LoginSequence({1, 127}, resPck[1].name)

-----------------------------------------------------------------------------
(* The handlers of Client and of Player; p is the struct they are given.    *)

\* _onStatusRequest(): a JSON document; _onPingRequest(): the same number.
OnStatusRequest  == <<Sent("Status", [payload |-> Word])>>
OnPingRequest(p) == <<Sent("Ping", [payload |-> p.payload])>>

\* _onPluginMessage(): the channel minecraft:brand is answered with "Cubic".
Brand == Word

OnPluginMessage(p) ==
  IF p.channel # Brand THEN <<>>
  ELSE <<Sent("PluginMessage",
              [channel |-> Brand,
               data    |-> <<{0, 2}, {0, 1, 6}, {0, 2, 4, 5, 6}, {1, 5, 6}, {0, 3, 5, 6}, {0, 1, 5, 6}>>])>>

\* _onPlayerAbilities(): the Flying bit is taken over, the three others are always set.
OnPlayerAbilities(p) == <<Abilities({0, 2, 3} \cup (p.flags \cap {1}))>>

\* _onChatMessage(): Chat::_sendMessage() to all whose visibility is Enabled, the sender included; n: _messagesLog.size().
OnChatMessage(p, visibility, n) ==
  IF visibility # {} THEN <<>>
  ELSE <<Sent("PlayerChatMessage",
              [senderUUID |-> {0, 64}, index |-> BitsOf(n), hasSignature |-> {}, signature |-> <<>>, message |-> <<>>,
               timestamp |-> {31}, salt |-> {}, previousMessages |-> <<>>, hasUnsignedContent |-> {0},
               unsignedContent |-> p.message, filterType |-> {}, chatType |-> {}, networkName |-> Word,
               hasNetworkTargetName |-> {}, networkTargetName |-> <<>>])>>

\* parseCommand() of a name no command has: Chat::_sendSystem(), twice, unless the visibility is Hidden.
OnChatCommand(visibility) ==
  IF visibility \in {{}, {0}} THEN <<System, System>>
  ELSE <<>>

\* Handlers that only write a line to the log.
OnlyLogged ==
  {"ConfirmTeleportation", "QueryBlockEntityTag", "ChangeDifficulty", "MessageAcknowledgement", "ClientCommand",
   "CommandSuggestionRequest", "EditBook", "QueryEntityTag", "JigsawGenerate", "LockDifficulty",
   "SetPlayerOnGround", "MoveVehicle", "PaddleBoat", "PickItem", "PlaceRecipe"}

OnlyLoggedToo ==
  {"PlayerInput", "Pong", "PlayerSession", "ChangeRecipeBookSettings", "SetSeenRecipe", "RenameItem",
   "ResourcePack", "SeenAdvancements", "SelectTrade", "SetBeaconEffect", "ProgramCommandBlock",
   "ProgramCommandBlockMinecart", "ProgramJigsawBlock", "ProgramStructureBlock", "UpdateSign",
   "TeleportToEntity", "UseItem"}

\* What a handler writes to its own peer; c is the connection.  The other handlers are the matter of Survival (items, digging, fights),
\* KeepAlive, RenderWindow (moves) and Session; what they write there is left to script.down.
Replies(name, p, c, host) ==
  CASE name \in OnlyLogged \cup OnlyLoggedToo -> <<>>
    [] name = "StatusRequest" -> OnStatusRequest
    [] name = "PingRequest" -> OnPingRequest(p)
    [] name = "LoginStart" -> OnLoginStart(p, host)
    [] name = "EncryptionResponse" -> OnEncryptionResponse(c.resPck, host)
    [] name = "PluginMessage" -> OnPluginMessage(p)
    [] name = "PlayerAbilities" -> OnPlayerAbilities(p)
    [] name = "ChatMessage" -> OnChatMessage(p, c.visibility, c.log)
    [] name = "ChatCommand" -> OnChatCommand(c.visibility)
    [] OTHER -> <<>>
=============================================================================
