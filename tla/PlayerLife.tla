----------------------------- MODULE PlayerLife -----------------------------
(***************************************************************************)
(* One player in play, seen from two threads: the dimension's, which ticks *)
(* it (KeepAlive), and its client's, which reads its moves (RenderWindow). *)
(* Player::disconnect() on either of them stops both: the dimension's tick *)
(* finds the player gone, and doRead() returns.                            *)
(***************************************************************************)
EXTENDS KeepAlive, RenderWindow

lifeVars == <<vars, windowVars>>

LifeInit == Init /\ WindowInit

\* Player::tick() and the answers, whatever the player's position.
KeepsAlive == Next /\ UNCHANGED windowVars

\* _onSetPlayerPosition(), while the connection is open.
Moves(new) == end = "none" /\ SetPosition(new) /\ UNCHANGED vars

LifeNext == KeepsAlive \/ \E new \in Xs \X Zs : Moves(new)

\* A player who moves all the time keeps nothing of KeepAlive from happening.
LifeSpec == LifeInit /\ [][LifeNext]_lifeVars /\ Fairness
=============================================================================
