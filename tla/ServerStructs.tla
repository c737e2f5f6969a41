--------------------------- MODULE ServerStructs ----------------------------
(***************************************************************************)
(* The structs of protocol/ServerPackets.hpp: what a handler is given.  For  *)
(* each packet the members its parse* function sets, in the order of the    *)
(* fields on the wire.  Members no parser sets are left out                 *)
(* (ChatMessage::messageCount, PluginMessage::data,                         *)
(* ProgramStructureBlock::name).                                            *)
(***************************************************************************)
EXTENDS Packets

HandshakeToChatMembers ==
  [Handshake              |-> <<"protVersion", "addr", "port", "nextState">>,
   StatusRequest          |-> <<>>,
   PingRequest            |-> <<"payload">>,
   LoginStart             |-> <<"name", "hasPlayerUuid", "playerUuid">>,
   EncryptionResponse     |-> <<"sharedSecret", "verifyToken">>,
   ConfirmTeleportation   |-> <<"teleportId">>,
   QueryBlockEntityTag    |-> <<"transactionId", "location">>,
   ChangeDifficulty       |-> <<"newDifficulty">>,
   MessageAcknowledgement |-> <<"messageCount">>,
   ChatCommand            |-> <<"command", "timestamp", "salt", "argumentSignatures", "messageCount", "acknowledged">>,
   ChatMessage            |-> <<"message", "timestamp", "salt", "isSigned", "signature", "acknowledged">>]

CommandToQueryMembers ==
  [ClientCommand            |-> <<"actionId">>,
   ClientInformation        |-> <<"locale", "viewDistance", "chatMode", "chatColors", "displayedSkinParts", "mainHand",
                                  "enableTextFiltering", "allowServerListings">>,
   CommandSuggestionRequest |-> <<"transactionId", "text">>,
   ClickContainerButton     |-> <<"windowId", "buttonId">>,
   ClickContainer           |-> <<"windowId", "stateId", "slot", "button", "mode", "arrayOfSlots", "carriedItem">>,
   CloseContainerRequest    |-> <<"windowId">>,
   PluginMessage            |-> <<"channel">>,
   EditBook                 |-> <<"slot", "entries", "hasTitle", "title">>,
   QueryEntityTag           |-> <<"transactionId", "entityId">>]

InteractToPickMembers ==
  [Interact                     |-> <<"entityId", "type", "targetX", "targetY", "targetZ", "hand", "sneaking">>,
   JigsawGenerate               |-> <<"location", "levels", "keepJigsaws">>,
   KeepAliveResponse            |-> <<"keepAliveId">>,
   LockDifficulty               |-> <<"locked">>,
   SetPlayerPosition            |-> <<"x", "feetY", "z", "onGround">>,
   SetPlayerPositionAndRotation |-> <<"x", "feetY", "z", "yaw", "pitch", "onGround">>,
   SetPlayerRotation            |-> <<"yaw", "pitch", "onGround">>,
   SetPlayerOnGround            |-> <<"onGround">>,
   MoveVehicle                  |-> <<"x", "y", "z", "yaw", "pitch">>,
   PaddleBoat                   |-> <<"leftPaddleTurning", "rightPaddleTurning">>,
   PickItem                     |-> <<"slotToUse">>]

RecipesToTradesMembers ==
  [PlaceRecipe              |-> <<"windowId", "recipe", "makeAll">>,
   PlayerAbilities          |-> <<"flags">>,
   PlayerAction             |-> <<"status", "location", "face", "sequence">>,
   PlayerCommand            |-> <<"entityId", "actionId", "jumpBoost">>,
   PlayerInput              |-> <<"sideways", "forward", "flags">>,
   Pong                     |-> <<"id">>,
   PlayerSession            |-> <<"uuid", "expiresAt", "publicKey", "signature">>,
   ChangeRecipeBookSettings |-> <<"bookId", "bookOpen", "filterActive">>,
   SetSeenRecipe            |-> <<"recipeId">>,
   RenameItem               |-> <<"itemName">>,
   ResourcePack             |-> <<"result">>,
   SeenAdvancements         |-> <<"action", "tabId">>,
   SelectTrade              |-> <<"selectedSlot">>]

BeaconToUseMembers ==
  [SetBeaconEffect             |-> <<"primaryEffectPresent", "primaryEffect", "secondaryEffectPresent",
                                     "secondaryEffect">>,
   SetHeldItem                 |-> <<"slot">>,
   ProgramCommandBlock         |-> <<"location", "command", "mode", "flags">>,
   ProgramCommandBlockMinecart |-> <<"entityId", "command", "trackOutput">>,
   SetCreativeModeSlot         |-> <<"slot", "clickedItem">>,
   ProgramJigsawBlock          |-> <<"location", "name", "target", "pool", "finalState", "jointType">>,
   ProgramStructureBlock       |-> <<"location", "action", "mode", "offsetX", "offsetY", "offsetZ", "sizeX", "sizeY",
                                     "sizeZ", "mirror", "rotation", "metadata", "integrity", "seed", "flags">>,
   UpdateSign                  |-> <<"location", "line1", "line2", "line3", "line4">>,
   SwingArm                    |-> <<"hand">>,
   TeleportToEntity            |-> <<"targetPlayer">>,
   UseItemOn                   |-> <<"hand", "location", "face", "cursorPositionX", "cursorPositionY",
                                     "cursorPositionZ", "insideBlock", "sequence">>,
   UseItem                     |-> <<"hand", "sequence">>]

Members ==
  HandshakeToChatMembers @@ CommandToQueryMembers @@ InteractToPickMembers @@ RecipesToTradesMembers
    @@ BeaconToUseMembers

\* make_unique() sets what is not read to zero or to nothing.
Unset(f) ==
  CASE f[1] \in {"String", "Many"} -> <<>>
    [] f[1] = "Position" -> [x |-> {}, y |-> {}, z |-> {}]
    [] OTHER -> {}

\* The members a field of the wire sets: a flag and what it announces, the parts of a condition, none, or one.
Assigned(f, v) ==
  CASE f[1] = "Opt" /\ f # Slot -> IF v = <<>> THEN <<{}>> \o [k \in DOMAIN f[2] |-> Unset(f[2][k])] ELSE <<{0}>> \o v[1]
    [] f[1] = "Const" -> <<>>
    [] f[1] \in Conditional -> IF v = <<>> THEN [k \in DOMAIN f[4] |-> Unset(f[4][k])] ELSE v[1]
    [] OTHER -> <<v>>

\* The struct a parse* function returns for the fields it has read.
Struct(name, vals) ==
  LET set == FlattenSeq([i \in DOMAIN vals |-> Assigned(Serverbound[name][i], vals[i])])
  IN  [m \in Range(Members[name]) |-> set[CHOOSE i \in DOMAIN set : Members[name][i] = m]]
=============================================================================
