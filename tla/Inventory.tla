----------------------------- MODULE Inventory ------------------------------
(***************************************************************************)
(* A player's inventory window: protocol::Slot, Container::onClick(),      *)
(* Inventory::onClick() and Container::close().  A slot has a flag, an     *)
(* item and a count of type int8_t; a full stack is half the range of      *)
(* that type, so two full stacks added together wrap around.  The slots    *)
(* are numbered in the order of Inventory::at(); the index of the cursor,  *)
(* which a packet may name like any other, is Carried.  What was dropped   *)
(* into the world is counted per item.  An index that is none of these     *)
(* throws an exception that nobody catches, and no action stands for it.   *)
(***************************************************************************)
EXTENDS Integers, Sequences, FiniteSets, FiniteSetsExt, SequencesExt

CONSTANTS
    Items,            \* item ids; 0 is no item
    MaxStack,         \* 64
    Main,             \* slots of _playerInventory
    Hotbar,           \* slots of _hotbar
    Offhand,          \* the slot _offhand
    Grid              \* slots of the crafting grid and of the armor

Slots == Main \cup Hotbar \cup {Offhand} \cup Grid
NumSlots == Cardinality(Slots)
Carried == -1
Places == Slots \cup {Carried}

ASSUME InventoryAssumption ==
    /\ Items \subseteq Nat \ {0} /\ MaxStack \in Nat \ {0}
    /\ IsFiniteSet(Slots) /\ Slots = 0 .. NumSlots - 1
    /\ Main # {} /\ Hotbar # {}
    /\ Main \cap Hotbar = {} /\ Offhand \notin Main \cup Hotbar \cup Grid

VARIABLES
    slots,            \* slot -> [present, id, count]
    cursor,           \* _cursor
    dragging,         \* _state of the container
    dropped           \* item -> count of it in item entities

inventory == <<slots, cursor, dragging, dropped>>

Outside == -999
None == [present |-> FALSE, id |-> 0, count |-> 0]
Slot == [present : BOOLEAN, id : Items \cup {0}, count : Int]
Stack(id, n) == [present |-> TRUE, id |-> id, count |-> n]

\* Inventory::at()
At(i) == IF i = Carried THEN cursor ELSE slots[i]

\* int8_t, where MaxStack is a quarter of its values.
Int8(n) == ((n + 2 * MaxStack) % (4 * MaxStack)) - 2 * MaxStack

\* Integer division by two, towards zero.
Half(n) == IF n < 0 THEN -((-n) \div 2) ELSE n \div 2

\* operator== of slots: the counts do not matter.
SameItem(a, b) == a.present = b.present /\ a.id = b.id

\* a.swap(b), as the two slots afterwards: stack them, or exchange them.
Swap(a, b) ==
    LET rest == a.count + b.count - MaxStack
    IN  CASE a.id # b.id \/ a.id = 0 -> <<b, a>>
          [] a.id = b.id /\ a.id # 0 /\ rest > 0 ->
                <<[a EXCEPT !.count = MaxStack], [b EXCEPT !.count = Int8(rest)]>>
          [] OTHER -> <<[a EXCEPT !.count = Int8(@ + b.count)], None>>

\* Variant: what does not fit into the other slot is forgotten.
SwapCountForgets(a, b, x) ==
    IF (a.present /\ b.present /\ a.id # b.id) \/ a.count <= x
    THEN Swap(a, b)
    ELSE <<[a EXCEPT !.count = Int8(@ - x)],
           Stack(a.id, IF Int8(b.count + x) > MaxStack THEN MaxStack ELSE Int8(b.count + x))>>

\* a.swap(b, x): move x items, what does not fit comes back.
SwapCount(a, b, x) ==
    IF (a.present /\ b.present /\ a.id # b.id) \/ a.count <= x
    THEN Swap(a, b)
    ELSE LET n == Int8(b.count + x)
             over == IF n > MaxStack THEN n - MaxStack ELSE 0
         IN  <<[a EXCEPT !.count = Int8(Int8(@ - x) + over)], Stack(a.id, n - over)>>

\* a.swap(a) and a.swap(a, x), of a slot with itself: what is written last stays.
SelfSwap(a) == Swap(a, a)[2]
SelfSwapCount(a, x) ==
    IF a.count <= x THEN SelfSwap(a)
    ELSE [a EXCEPT !.present = TRUE, !.count = IF @ > MaxStack THEN MaxStack ELSE @]

\* makeEntity<Item>(s)->dropItem()
DropItem(s) ==
    dropped' = IF s.id \in Items THEN [dropped EXCEPT ![s.id] = @ + s.count] ELSE dropped

\* One item less, and no item at zero.
TakeOne(s) == IF Int8(s.count - 1) = 0 THEN None ELSE [s EXCEPT !.count = Int8(@ - 1)]

-----------------------------------------------------------------------------
(* Container::onClick()                                                    *)

\* ClickMode::Click outside of the window: drop the cursor, or one of it.
ClickOutside(button) ==
    /\ cursor.present
    /\ IF button = 0
       THEN DropItem(cursor) /\ cursor' = None
       ELSE DropItem(Stack(cursor.id, 1)) /\ cursor' = TakeOne(cursor)
    /\ UNCHANGED <<slots, dragging>>

\* ClickMode::Click on a slot: left swaps, right takes half or puts one.
Click(i, button) ==
    LET r == CASE button = 0 -> Swap(slots[i], cursor)
               [] button # 0 /\ ~cursor.present -> SwapCount(slots[i], cursor, Half(slots[i].count))
               [] OTHER -> LET s == SwapCount(cursor, slots[i], 1) IN <<s[2], s[1]>>
    IN  /\ slots' = [slots EXCEPT ![i] = r[1]]
        /\ cursor' = r[2]
        /\ UNCHANGED <<dragging, dropped>>

\* ClickMode::Click on the cursor: it is swapped with itself.
ClickCursor(button) ==
    /\ cursor' = IF button = 0 THEN SelfSwap(cursor)
                 ELSE SelfSwapCount(cursor, IF cursor.present THEN 1 ELSE Half(cursor.count))
    /\ UNCHANGED <<slots, dragging, dropped>>

\* ClickMode::MiddleClick, in creative mode.
MiddleClick(i) ==
    /\ cursor' = [At(i) EXCEPT !.count = MaxStack]
    /\ UNCHANGED <<slots, dragging, dropped>>

\* ClickMode::DropButton: one item of the slot, or all of it; nothing on the cursor, which would have to be empty and full.
DropButton(i, button) ==
    /\ ~cursor.present /\ slots[i].present
    /\ IF button = 0
       THEN DropItem(Stack(slots[i].id, 1)) /\ slots' = [slots EXCEPT ![i] = TakeOne(@)]
       ELSE DropItem(slots[i]) /\ slots' = [slots EXCEPT ![i] = None]
    /\ UNCHANGED <<cursor, dragging>>

\* The loop over the slots at the end of a left drag: the state is the slots,
\* the cursor, how much the next slot gets, and what is left for the cursor.
SpreadOne(state, i) ==
    LET s == IF i = Carried THEN state.cursor ELSE state.slots[i]
        n == Int8(s.count + state.each)
        takes == s.present /\ s.id = state.cursor.id /\ s.count < MaxStack
        new == CASE ~s.present -> [state.cursor EXCEPT !.count = Int8(state.each)]
                 [] takes -> [s EXCEPT !.count = IF n > MaxStack THEN MaxStack ELSE n]
                 [] OTHER -> s
    IN  [slots  |-> IF i = Carried THEN state.slots ELSE [state.slots EXCEPT ![i] = new],
         cursor |-> IF i = Carried THEN new ELSE state.cursor,
         each   |-> IF takes /\ n <= MaxStack THEN 0 ELSE state.each,
         rest   |-> IF takes /\ n > MaxStack THEN state.rest + n - MaxStack ELSE state.rest]

\* The slots are named by the client, in its order.
Spread(updates) ==
    LET start == [slots |-> slots, cursor |-> cursor, each |-> cursor.count \div Len(updates), rest |-> cursor.count % Len(updates)]
        after[k \in 0 .. Len(updates)] ==
            IF k = 0 THEN start ELSE SpreadOne(after[k - 1], updates[k])
    IN  after[Len(updates)]

\* ClickMode::Drag.  A button out of order, or from inside the window, ends
\* the drag; buttons 0, 4 and 8 start one, 1 goes on and 2 ends it.  The ends
\* of drags that divide by zero or take a negative count as unsigned are left out.
Drag(index, button, creative, updates) ==
    LET starts == index = Outside /\ dragging = "Normal"
                  /\ (button \in {0, 4} \/ (button = 8 /\ creative))
        goesOn == button = 1 /\ dragging = "LeftDrag"
        ends == button = 2 /\ index = Outside /\ dragging = "LeftDrag"
        end == Spread(updates)
    IN  CASE starts ->
                /\ dragging' = IF cursor.present
                               THEN CASE button = 0 -> "LeftDrag" [] button = 4 -> "RightDrag" [] button = 8 -> "MiddleDrag"
                               ELSE dragging
                /\ UNCHANGED <<slots, cursor, dropped>>
          [] goesOn -> UNCHANGED inventory
          [] ends ->
                /\ Len(updates) > 0 /\ cursor.count >= 0
                /\ slots' = end.slots
                /\ cursor' = IF end.rest > 0 THEN [end.cursor EXCEPT !.count = Int8(end.rest)] ELSE None
                /\ dragging' = "Normal"
                /\ UNCHANGED dropped
          [] OTHER -> dragging' = "Normal" /\ UNCHANGED <<slots, cursor, dropped>>

\* Collect one slot into a stack: the pair of them afterwards.
Collect(stack, s) ==
    LET n == Int8(stack.count + s.count)
    IN  CASE ~SameItem(stack, s) -> <<stack, s>>
          [] SameItem(stack, s) /\ n > MaxStack ->
                <<[stack EXCEPT !.count = MaxStack], [s EXCEPT !.count = n - MaxStack]>>
          [] OTHER -> <<[stack EXCEPT !.count = n], None>>

\* The body of the loop over all slots: the state is the slots and the cursor.
CollectSlot(state, j) ==
    LET r == Collect(state.cursor, state.slots[j])
    IN  [slots |-> [state.slots EXCEPT ![j] = r[2]], cursor |-> r[1]]

\* ClickMode::DoubleClick on an empty slot, which the cursor is not: collect the item of the cursor.
DoubleClick(i) ==
    LET after[k \in 0 .. NumSlots] ==
            IF k = 0 THEN [slots |-> slots, cursor |-> cursor] ELSE CollectSlot(after[k - 1], k - 1)
        end == after[NumSlots]
    IN  /\ ~slots[i].present /\ cursor.count # MaxStack /\ cursor.present
        /\ slots' = end.slots
        /\ cursor' = end.cursor
        /\ UNCHANGED <<dragging, dropped>>

\* Container::close(): the cursor is dropped.
Close ==
    /\ cursor.present
    /\ DropItem(cursor)
    /\ cursor' = None
    /\ UNCHANGED <<slots, dragging>>

-----------------------------------------------------------------------------
(* Inventory::onClick()                                                    *)

\* Variant: what does not fit into a slot of the container is put there and stays.
StackSlotKeeps(state, container, j) ==
    LET c == state.slots[j]
        n == Int8(c.count + state.item.count)
        takes == ~state.done /\ j \in container /\ SameItem(c, state.item)
    IN  CASE ~takes -> state
          [] takes /\ n <= MaxStack ->
                [slots |-> [state.slots EXCEPT ![j].count = n], item |-> None, done |-> TRUE]
          [] takes /\ n > MaxStack ->
                [slots |-> [state.slots EXCEPT ![j].count = MaxStack], item |-> state.item, done |-> FALSE]

\* The first loop of swapContainer(): the item is stacked onto slot j of the
\* container; done is its return.
StackSlot(state, container, j) ==
    LET c == state.slots[j]
        n == Int8(c.count + state.item.count)
        takes == ~state.done /\ j \in container /\ SameItem(c, state.item)
    IN  CASE ~takes -> state
          [] takes /\ n <= MaxStack ->
                [slots |-> [state.slots EXCEPT ![j].count = n], item |-> None, done |-> TRUE]
          [] takes /\ n > MaxStack ->
                [slots |-> [state.slots EXCEPT ![j].count = MaxStack],
                 item  |-> [state.item EXCEPT !.count = n - MaxStack], done |-> FALSE]

\* swapContainer(), of a slot that is not in the container: stack what it holds
\* into those of the container, as long as something is left, then look for a
\* free one.  The slots and what is left of the item.
SwapContainer(item, container) ==
    LET stacked[k \in 0 .. NumSlots] ==
            IF k = 0 THEN [slots |-> slots, item |-> item, done |-> FALSE]
            ELSE StackSlot(stacked[k - 1], container, k - 1)
        end == stacked[NumSlots]
        free == {j \in container : ~end.slots[j].present}
    IN  IF end.done \/ free = {} THEN [slots |-> end.slots, item |-> end.item]
        ELSE [slots |-> [end.slots EXCEPT ![Min(free)] = end.item], item |-> None]

\* ClickMode::ShiftClick
ShiftClick(i) ==
    LET r == SwapContainer(At(i), IF i \in Main THEN Hotbar ELSE Main)
    IN  /\ \/ i \in Slots /\ slots' = [r.slots EXCEPT ![i] = r.item] /\ UNCHANGED cursor
           \/ i = Carried /\ slots' = r.slots /\ cursor' = r.item
        /\ UNCHANGED <<dragging, dropped>>

\* ClickMode::Keys: exchange with a slot of the hotbar or the off hand.
Keys(i, j) ==
    /\ \/ i \in Slots /\ slots' = [slots EXCEPT ![i] = slots[j], ![j] = slots[i]] /\ UNCHANGED cursor
       \/ i = Carried /\ slots' = [slots EXCEPT ![j] = cursor] /\ cursor' = slots[j]
    /\ UNCHANGED <<dragging, dropped>>

-----------------------------------------------------------------------------

\* The sum of f[0], ..., f[n - 1].
SumOf(f, n) ==
    LET sum[k \in 0 .. n] == IF k = 0 THEN 0 ELSE sum[k - 1] + f[k - 1]
    IN  sum[n]

\* How much of an item there is: in the slots, on the cursor and dropped.
Count(s, id) == IF s.id = id THEN s.count ELSE 0
InSlots(of, id) == SumOf([i \in Slots |-> Count(of[i], id)], NumSlots)
Balance(id) == InSlots(slots, id) + Count(cursor, id) + dropped[id]

\* A slot is empty, or holds between one item and a full stack.
WellFormed(s) == s = None \/ (s.present /\ s.id \in Items /\ s.count \in 1 .. MaxStack)
=============================================================================
