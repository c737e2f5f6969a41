----------------------------- MODULE MCSurvival -----------------------------
(* Few packets on an inventory with full and half stacks of two items, of  *)
(* players who are not hungry; and a long struggle with little else than    *)
(* food.                                                                   *)
EXTENDS Survival

MCFood == 1 :> [value |-> 2, saturation |-> 5]
MCGifts == {None, Stack(2, MaxStack), Stack(1, -1)}

Fill(a, b, c, d) == [i \in Slots |-> CASE i = 0 -> a [] i = 1 -> b [] i = 2 -> c [] i = 3 -> d]

Chest(mode, s) == [slots |-> s, gamemode |-> mode, food |-> MaxFood, saturation |-> 2,
                   health |-> MaxHealth, clicks |-> 3]
Struggle(f, h) == [slots |-> Fill(None, Stack(1, MaxStack), None, None), gamemode |-> "Survival",
                   food |-> f, saturation |-> Parts * f, health |-> h, clicks |-> 2]

MCStarts == {Chest("Spectator", Fill(Stack(1, 2), Stack(1, 2), None, Stack(2, 1))),
             Chest("Creative", Fill(Stack(1, 1), Stack(1, 1), Stack(2, 2), None))}
            \cup {Struggle(f, h) : f \in {0, MaxFood}, h \in {1, MaxHealth}}
=============================================================================
