---------------------------- MODULE SessionProofs ----------------------------
(***************************************************************************)
(* Proofs, for any number of players and whatever the administrator does,  *)
(* that the screens agree with _players: those who have logged in see one  *)
(* another, and nobody sees a player that has left.                        *)
(***************************************************************************)
EXTENDS Session, TLAPS

\* Before addPlayer(), while in _players, and after removePlayer().
Outside == {"none", "connected", "encrypting", "success", "switching", "made", "entity"}
Inside == {"joined", "playing", "leaving", "orphan", "unlinked", "hidden"}
After == {"removed", "gone"}

ScreensOK ==
    /\ phase \in [Players -> Outside \cup Inside \cup After]
    /\ shown \in [Players -> SUBSET Players]
    /\ roster \subseteq Players

\* The place of a client's thread tells whether its player is in _players.
RosterInv == \A p \in Players : p \in roster <=> phase[p] \in Inside

\* A client is told of nobody before its player is in _players: it would not be
\* told when they leave.
FreshInv == \A p \in Players : phase[p] \in Outside => shown[p] = {}

IInv == ScreensOK /\ RosterInv /\ FreshInv /\ EveryoneIsSeen /\ NoGhosts

\* The steps that log a player in or out.
Screens(p) ==
    \/ Connect(p) \/ OnLoginStart(p) \/ OnEncryptionResponse(p) \/ SetPlayStatus(p) \/ MakePlayer(p)
    \/ AddEntity(p) \/ AddPlayer(p) \/ SpawnPlayer(p) \/ PeerCloses(p) \/ ThreadEnds(p)
    \/ LeaveToTick(p) \/ UnlinkEntity(p) \/ HideEntity(p) \/ RemovePlayer(p) \/ DestroyPlayer(p)

\* A step that only moves p's thread from one place to another.
Moves(p, from, to) ==
    /\ phase[p] \in from
    /\ \E there \in to : phase' = [phase EXCEPT ![p] = there]
    /\ UNCHANGED <<roster, shown>>

\* No other step touches the screens or _players: not a command, not a reload, not
\* a tick and not the shutdown.
LEMMA OtherSteps ==
    ASSUME [Next]_vars
    PROVE  (\E p \in Players : Screens(p)) \/ UNCHANGED <<phase, roster, shown>>
<1>1. ASSUME NEW p \in Players, Peer(p) \/ Client(p) \/ Erase(p)
      PROVE  Screens(p)
  BY <1>1 DEF Peer, Client, Erase, Screens
<1>2. ASSUME NEW i \in Invokers,
             ReloadConfig(i) \/ Reload(i) \/ \E name \in Players : Op(i, name) \/ Deop(i, name)
      PROVE  UNCHANGED <<phase, roster, shown>>
  BY <1>2 DEF ReloadConfig, Reload, ReloadWhitelist, EnforceWhitelist, Op, Deop, clientVars
<1>3. CASE EditFiles \/ Stop
  BY <1>3 DEF EditFiles, Stop, clientVars
<1>4. CASE Group \/ Initialize \/ DimensionThread
  BY <1>4 DEF Group, GroupLooks, GroupTicks, Initialize, DimensionThread, DimensionWakes, DimensionLooks,
              DimensionAcquires, DimensionTicks, clientVars
<1>5. CASE Shutdown
  BY <1>5 DEF Shutdown, DisconnectAll, JoinClients, ClientsCleared, StopDimension, ReleaseAll, JoinDimension,
              clientVars
<1>6. CASE Over \/ UNCHANGED vars
  BY <1>6 DEF Over, vars, clientVars
<1> QED
  BY <1>1, <1>2, <1>3, <1>4, <1>5, <1>6 DEF Next

\* A step of a login or a departure is one of ten kinds.
LEMMA Kinds ==
    ASSUME NEW p \in Players, Screens(p)
    PROVE  \/ Moves(p, Outside, (Outside \ {"none"}) \cup {"gone"}) \/ AddPlayer(p) \/ SpawnPlayer(p)
           \/ Moves(p, {"playing"}, {"leaving"}) \/ Moves(p, {"leaving"}, {"orphan", "unlinked"})
           \/ HideEntity(p) \/ RemovePlayer(p) \/ Moves(p, {"removed"}, {"gone"})
           \/ UNCHANGED <<phase, roster, shown>>
<1> USE DEF Moves, At, GoTo, Refuse, Outside
<1>1. CASE Connect(p) \/ SetPlayStatus(p) \/ MakePlayer(p) \/ AddEntity(p)
  BY <1>1 DEF Connect, SetPlayStatus, MakePlayer, AddEntity
<1>2. CASE OnLoginStart(p)
  BY <1>2 DEF OnLoginStart
<1>3. CASE OnEncryptionResponse(p)
  BY <1>3 DEF OnEncryptionResponse
<1>4. CASE PeerCloses(p) \/ ThreadEnds(p)
  BY <1>4 DEF PeerCloses, ThreadEnds, InReadSome, EndThread
<1>5. CASE LeaveToTick(p) \/ UnlinkEntity(p) \/ DestroyPlayer(p)
  BY <1>5 DEF LeaveToTick, UnlinkEntity, Erasing, DestroyPlayer
<1> QED
  BY <1>1, <1>2, <1>3, <1>4, <1>5 DEF Screens

\* The server starts with nobody connected.
LEMMA InitIInv == Init => IInv
  BY DEF Init, IInv, ScreensOK, RosterInv, FreshInv, EveryoneIsSeen, NoGhosts, Outside, Inside

\* Moving about on one side of _players changes nothing but the place.
LEMMA MovesStep ==
    ASSUME IInv, NEW p \in Players,
           \/ Moves(p, Outside, (Outside \ {"none"}) \cup {"gone"}) \/ Moves(p, {"removed"}, {"gone"})
           \/ Moves(p, {"playing"}, {"leaving"}) \/ Moves(p, {"leaving"}, {"orphan", "unlinked"})
    PROVE  IInv'
<1> USE DEF IInv, Outside, Inside, After
<1>1. PICK there \in (Outside \ {"none"}) \cup {"leaving", "orphan", "unlinked", "gone"} :
         /\ phase' = [phase EXCEPT ![p] = there]
         /\ phase[p] \in Inside <=> there \in Inside
         /\ there \in Outside => phase[p] \in Outside
  BY DEF Moves
<1>2. UNCHANGED <<roster, shown>>
  BY DEF Moves
<1>3. \A q \in Players : phase'[q] = IF q = p THEN there ELSE phase[q]
  BY <1>1 DEF ScreensOK
<1>4. ScreensOK'
  BY <1>1, <1>2 DEF ScreensOK
<1>5. RosterInv' /\ FreshInv'
  BY <1>1, <1>2, <1>3 DEF RosterInv, FreshInv
<1>6. EveryoneIsSeen' /\ NoGhosts'
  BY <1>1, <1>2, <1>3 DEF EveryoneIsSeen, NoGhosts, ScreensOK
<1> QED
  BY <1>4, <1>5, <1>6

\* addPlayer(): the newcomer shows nobody yet.
LEMMA AddPlayerStep ==
    ASSUME IInv, NEW p \in Players, AddPlayer(p)
    PROVE  IInv'
<1> USE DEF IInv, Outside, Inside, After
<1>1. /\ phase[p] = "entity" /\ phase' = [phase EXCEPT ![p] = "joined"]
      /\ roster' = roster \cup {p} /\ shown' = shown
  BY DEF AddPlayer, At, GoTo
<1>2. \A q \in Players : phase'[q] = IF q = p THEN "joined" ELSE phase[q]
  BY <1>1 DEF ScreensOK
<1>3. ScreensOK'
  BY <1>1 DEF ScreensOK
<1>4. RosterInv' /\ FreshInv' /\ EveryoneIsSeen'
  BY <1>1, <1>2 DEF RosterInv, FreshInv, EveryoneIsSeen
<1>5. NoGhosts'
  BY <1>1 DEF NoGhosts, FreshInv
<1> QED
  BY <1>3, <1>4, <1>5

\* spawnPlayer(): everyone who plays is in _players, and so is told and told of.
LEMMA SpawnPlayerStep ==
    ASSUME IInv, NEW p \in Players, SpawnPlayer(p)
    PROVE  IInv'
<1> USE DEF IInv, Outside, Inside, After
<1>1. /\ phase[p] = "joined" /\ phase' = [phase EXCEPT ![p] = "playing"] /\ roster' = roster
      /\ shown' = [q \in Players |-> IF q = p THEN shown[p] \cup (roster \ {p})
                                     ELSE IF q \in roster THEN shown[q] \cup {p} ELSE shown[q]]
  BY DEF SpawnPlayer, At, GoTo
<1>2. \A q \in Players : phase'[q] = IF q = p THEN "playing" ELSE phase[q]
  BY <1>1 DEF ScreensOK
<1>3. ScreensOK'
  BY <1>1 DEF ScreensOK
<1>4. RosterInv' /\ FreshInv'
  BY <1>1, <1>2 DEF RosterInv, FreshInv
<1>5. EveryoneIsSeen'
  <2> SUFFICES ASSUME NEW a \in Players, NEW b \in Players,
                      phase'[a] = "playing", phase'[b] = "playing", a # b
               PROVE  a \in shown'[b]
    BY DEF EveryoneIsSeen
  <2>1. a \in roster /\ b \in roster
    BY <1>1, <1>2 DEF RosterInv
  <2>2. CASE b = p
    BY <1>1, <2>1, <2>2
  <2>3. CASE b # p
    BY <1>1, <1>2, <2>1, <2>3 DEF EveryoneIsSeen
  <2> QED
    BY <2>2, <2>3
<1>6. NoGhosts'
  <2>1. p \in roster /\ roster \subseteq Players
    BY <1>1 DEF RosterInv, ScreensOK
  <2> QED
    BY <1>1, <2>1 DEF NoGhosts
<1> QED
  BY <1>3, <1>4, <1>5, <1>6

\* removeEntity() hides a player that plays no more.
LEMMA HideEntityStep ==
    ASSUME IInv, NEW p \in Players, HideEntity(p)
    PROVE  IInv'
<1> USE DEF IInv, Outside, Inside, After
<1>1. /\ phase[p] = "unlinked" /\ phase' = [phase EXCEPT ![p] = "hidden"] /\ roster' = roster
      /\ shown' = [q \in Players |-> IF q \in roster THEN shown[q] \ {p} ELSE shown[q]]
  BY DEF HideEntity, At, GoTo, Hide
<1>2. \A q \in Players : phase'[q] = IF q = p THEN "hidden" ELSE phase[q]
  BY <1>1 DEF ScreensOK
<1>3. ScreensOK'
  BY <1>1 DEF ScreensOK
<1>4. RosterInv' /\ FreshInv'
  BY <1>1, <1>2 DEF RosterInv, FreshInv
<1>5. EveryoneIsSeen' /\ NoGhosts'
  BY <1>1, <1>2 DEF EveryoneIsSeen, NoGhosts, ScreensOK
<1> QED
  BY <1>3, <1>4, <1>5

\* removePlayer() takes the player out of _players and off every screen of it, that
\* of one who came after removeEntity() too.
LEMMA RemovePlayerStep ==
    ASSUME IInv, NEW p \in Players, RemovePlayer(p)
    PROVE  IInv'
<1> USE DEF IInv, Outside, Inside, After
<1>1. /\ phase[p] = "hidden" /\ phase' = [phase EXCEPT ![p] = "removed"] /\ roster' = roster \ {p}
      /\ shown' = [q \in Players |-> IF q \in roster \ {p} THEN shown[q] \ {p} ELSE shown[q]]
  BY DEF RemovePlayer, At, GoTo, Hide
<1>2. \A q \in Players : phase'[q] = IF q = p THEN "removed" ELSE phase[q]
  BY <1>1 DEF ScreensOK
<1>3. ScreensOK'
  BY <1>1 DEF ScreensOK
<1>4. RosterInv' /\ FreshInv'
  BY <1>1, <1>2 DEF RosterInv, FreshInv
<1>5. EveryoneIsSeen' /\ NoGhosts'
  BY <1>1, <1>2 DEF EveryoneIsSeen, NoGhosts, ScreensOK
<1> QED
  BY <1>3, <1>4, <1>5

\* Every step keeps the invariant.
LEMMA NextIInv == IInv /\ [Next]_vars => IInv'
<1> SUFFICES ASSUME IInv, [Next]_vars PROVE IInv'
  OBVIOUS
<1>1. CASE UNCHANGED <<phase, roster, shown>>
  BY <1>1 DEF IInv, ScreensOK, RosterInv, FreshInv, EveryoneIsSeen, NoGhosts
<1>2. ASSUME NEW p \in Players, Screens(p) PROVE IInv'
  BY <1>1, <1>2, Kinds, MovesStep, AddPlayerStep, SpawnPlayerStep, HideEntityStep, RemovePlayerStep
<1> QED
  BY <1>1, <1>2, OtherSteps

LEMMA Inductive == Spec => []IInv
  BY InitIInv, NextIInv, PTL DEF Spec

\* For any number of players: two players who have finished logging in are shown
\* each other, however their logins interleaved (Dimension::spawnPlayer()).
THEOREM LoggedInIsSeen == Spec => []EveryoneIsSeen
<1>1. IInv => EveryoneIsSeen
  BY DEF IInv
<1> QED
  BY <1>1, Inductive, PTL

\* For any number of players: no client in _players shows a player that has left
\* it, even one that logged in while ~Client() was under way.
THEOREM LeftIsHidden == Spec => []NoGhosts
<1>1. IInv => NoGhosts
  BY DEF IInv
<1> QED
  BY <1>1, Inductive, PTL
=============================================================================
