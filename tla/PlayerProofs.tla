---------------------------- MODULE PlayerProofs ----------------------------
(***************************************************************************)
(* Proofs about one player: its keep-alive exchange, the chunks in its     *)
(* view, its body and its items, for every tick rate, render distance,     *)
(* number of slots and size of a stack.                                    *)
(***************************************************************************)
EXTENDS PlayerLife, Survival, Loops, FiniteSetTheorems, TLAPS

-----------------------------------------------------------------------------
(* Keep-alive: nobody is dropped wrongly                                   *)

\* TypeOK but for what is under way, which WireInv describes.
ScalarsOK ==
    /\ tick \in Nat /\ tick < TickRate
    /\ step \in {"none", "process", "send"}
    /\ keepAliveId \in {0, 1, 2}
    /\ newest \in {1, 2}
    /\ ignored \in Nat /\ ignored <= 255
    /\ end \in {"none", "timeout", "wrong id"}
    /\ waited \in Nat /\ waited <= MaxTicks
    /\ idle \in Nat /\ idle <= MaxTicks
    /\ step # "none" => tick = 0

\* At most one id is under way, in one place, and it is the one that is stored.
WireInv ==
    /\ keepAliveId \in {0, newest}
    /\ toPeer \in {<<>>, <<newest>>}
    /\ toServer \in {<<>>, <<newest>>}
    /\ toPeer = <<>> \/ toServer = <<>>
    /\ step = "send" => toPeer = <<>> /\ toServer = <<>>
    /\ step = "send" \/ toPeer # <<>> \/ toServer # <<>> => keepAliveId = newest

\* Ticks since the clock's last callback.
Elapsed == IF step = "process" THEN TickRate ELSE tick

\* Every answer that was counted as missing was waited for through a whole
\* period of the clock.
PatienceInv ==
    \/ waited = MaxTicks
    \/ waited >= TickRate * ignored + (IF keepAliveId = 0 THEN 0 ELSE Elapsed)

\* The inductive invariant of the exchange.
AliveInv ==
    /\ ScalarsOK /\ silent \in BOOLEAN
    /\ WireInv /\ NeverWrong
    /\ PatienceInv /\ PatienceKept

\* A product grows by TickRate with each answer that is missing.
LEMMA OneMore ==
    ASSUME NEW n \in Nat
    PROVE  /\ TickRate * n \in Nat
           /\ TickRate * (n + 1) = TickRate * n + TickRate
           /\ TickRate * 0 = 0
  BY KeepAliveAssumption

\* An uint8_t that is incremented grows by one or wraps to zero.
LEMMA Increment8 ==
    ASSUME NEW n \in Nat, n <= 255
    PROVE  (n + 1) % 256 = n + 1 \/ (n + 1) % 256 = 0
  OBVIOUS

\* A player that has just joined satisfies the invariant.
LEMMA InitAlive == Init => AliveInv
<1> SUFFICES ASSUME Init PROVE AliveInv
  OBVIOUS
<1>1. ScalarsOK /\ silent \in BOOLEAN
  <2>1. 0 < TickRate /\ 0 <= MaxTicks
    BY KeepAliveAssumption
  <2>2. tick < TickRate /\ waited <= MaxTicks /\ idle <= MaxTicks
    BY <2>1 DEF Init
  <2>3. tick \in Nat /\ ignored \in Nat /\ ignored <= 255 /\ waited \in Nat /\ idle \in Nat
    BY DEF Init
  <2>4. keepAliveId \in {0, 1, 2} /\ newest \in {1, 2} /\ silent \in BOOLEAN
    BY DEF Init
  <2> QED
    BY <2>2, <2>3, <2>4 DEF Init, ScalarsOK
<1>2. WireInv /\ NeverWrong /\ PatienceKept
  BY DEF Init, WireInv, NeverWrong, PatienceKept
<1>3. TickRate * ignored = 0 /\ waited = 0 /\ keepAliveId = 0
  BY OneMore DEF Init
<1>4. PatienceInv
  BY <1>3 DEF PatienceInv
<1> QED
  BY <1>1, <1>2, <1>4 DEF AliveInv

\* The scalar variables keep their types.
LEMMA ScalarsStep ==
    ASSUME AliveInv, [Next]_vars
    PROVE  ScalarsOK' /\ silent' \in BOOLEAN
<1> USE DEF ScalarsOK, waits
<1>0. ScalarsOK /\ silent \in BOOLEAN
  BY DEF AliveInv
<1>1. CASE Tick
  BY <1>0, <1>1, KeepAliveAssumption DEF Tick, Counted
<1>2. CASE Process
  <2>1. newest' \in {1, 2} /\ keepAliveId' \in {0, 1, 2}
    <3>1. newest' \in {newest, 3 - newest} /\ keepAliveId' \in {keepAliveId, 3 - newest}
      BY <1>2 DEF Process, Fresh
    <3>2. newest \in {1, 2} /\ keepAliveId \in {0, 1, 2}
      BY <1>0
    <3> QED
      BY <3>1, <3>2
  <2>2. ignored' = ignored \/ ignored' = (ignored + 1) % 256
    BY <1>2 DEF Process
  <2>3. ignored' \in Nat /\ ignored' <= 255
    <3>1. ignored \in Nat /\ ignored <= 255
      BY <1>0
    <3> QED
      BY <2>2, <3>1
  <2>4. /\ end' \in {"none", "timeout", "wrong id"} /\ step' \in {"none", "send"} /\ tick' = 0
        /\ UNCHANGED <<tick, silent, waited, idle>>
    BY <1>0, <1>2 DEF Process
  <2> QED
    BY <1>0, <2>1, <2>3, <2>4
<1>3. CASE SendKeepAlive
  BY <1>0, <1>3 DEF SendKeepAlive
<1>4. CASE PeerAnswers
  BY <1>0, <1>4 DEF PeerAnswers
<1>5. CASE PeerFallsSilent
  BY <1>0, <1>5 DEF PeerFallsSilent
<1>6. CASE OnKeepAliveResponse
  <2>1. /\ keepAliveId' \in {0, keepAliveId} /\ end' \in {end, "wrong id"}
        /\ UNCHANGED <<tick, step, newest, ignored, silent, waited>> /\ idle' \in {0, idle}
    BY <1>6 DEF OnKeepAliveResponse
  <2>2. keepAliveId' \in {0, 1, 2} /\ end' \in {"none", "timeout", "wrong id"}
    BY <1>0, <2>1
  <2>3. idle' \in Nat /\ idle' <= MaxTicks
    <3>1. idle' \in {0, idle}
      BY <2>1
    <3>2. idle \in Nat /\ idle <= MaxTicks
      BY <1>0
    <3>3. MaxTicks \in Nat
      BY KeepAliveAssumption
    <3> QED
      BY <3>1, <3>2, <3>3
  <2> QED
    BY <1>0, <2>1, <2>2, <2>3
<1>7. CASE UNCHANGED vars
  BY <1>0, <1>7 DEF vars
<1> QED
  BY <1>1, <1>2, <1>3, <1>4, <1>5, <1>6, <1>7 DEF Next, Disconnected

\* An id is stored before it is sent and replaced only after its answer came.
LEMMA WireStep ==
    ASSUME AliveInv, [Next]_vars
    PROVE  WireInv' /\ NeverWrong'
<1> USE DEF WireInv, NeverWrong
<1>0. WireInv /\ NeverWrong /\ newest \in {1, 2}
  BY DEF AliveInv, ScalarsOK
<1>1. CASE Tick
  BY <1>0, <1>1 DEF Tick
<1>2. CASE Process
  <2>1. CASE keepAliveId = 0
    <3>0. toPeer = <<>> /\ toServer = <<>>
      <4>0. newest \in {1, 2}
        BY <1>0
      <4>1. newest # 0
        BY <4>0
      <4>2. toPeer # <<>> \/ toServer # <<>> => keepAliveId = newest
        BY <1>0
      <4> HIDE DEF WireInv
      <4> QED
        BY <2>1, <4>1, <4>2
    <3>1. toPeer' = <<>> /\ toServer' = <<>> /\ end' = end
      BY <1>2, <2>1, <3>0 DEF Process
    <3>2. keepAliveId' = newest' /\ step' = "send"
      BY <1>2, <2>1 DEF Process
    <3> QED
      BY <1>0, <3>1, <3>2
  <2>2. CASE keepAliveId # 0
    <3>1. UNCHANGED <<newest, keepAliveId, toPeer, toServer>> /\ step' = "none"
      BY <1>2, <2>2 DEF Process
    <3>2. end' \in {end, "timeout"}
      BY <1>2 DEF Process
    <3> QED
      BY <1>0, <2>2, <3>1, <3>2
  <2> QED
    BY <2>1, <2>2
<1>3. CASE SendKeepAlive
  <2>0. toPeer = <<>> /\ toServer = <<>> /\ keepAliveId = newest
    BY <1>0, <1>3 DEF SendKeepAlive
  <2>1. toPeer' = <<newest>> /\ toServer' = <<>> /\ keepAliveId = newest
    BY <1>3, <2>0 DEF SendKeepAlive
  <2> QED
    BY <1>0, <1>3, <2>1 DEF SendKeepAlive
<1>4. CASE PeerAnswers
  <2>1. toPeer = <<newest>> /\ toServer = <<>> /\ step # "send" /\ keepAliveId = newest
    BY <1>0, <1>4 DEF PeerAnswers
  <2>2. toPeer' = <<>> /\ toServer' = <<newest>>
    BY <1>4, <2>1 DEF PeerAnswers
  <2> QED
    BY <1>0, <1>4, <2>1, <2>2 DEF PeerAnswers
<1>5. CASE PeerFallsSilent
  BY <1>0, <1>5 DEF PeerFallsSilent
<1>6. CASE OnKeepAliveResponse
  <2>1. toServer = <<newest>> /\ toPeer = <<>> /\ step # "send" /\ keepAliveId = newest
    BY <1>0, <1>6 DEF OnKeepAliveResponse
  <2>2. Head(toServer) = keepAliveId /\ toServer' = <<>>
    BY <1>6, <2>1 DEF OnKeepAliveResponse
  <2> QED
    BY <1>0, <1>6, <2>1, <2>2 DEF OnKeepAliveResponse
<1>7. CASE UNCHANGED vars
  BY <1>0, <1>7 DEF vars
<1> QED
  BY <1>1, <1>2, <1>3, <1>4, <1>5, <1>6, <1>7 DEF Next, Disconnected

\* A missing answer is counted once per period spent waiting for it.
LEMMA PatienceStep ==
    ASSUME AliveInv, [Next]_vars
    PROVE  PatienceInv' /\ PatienceKept'
<1> DEFINE Missed == TickRate * ignored
<1> USE DEF waits
<1>0. ScalarsOK /\ PatienceInv /\ PatienceKept /\ NeverWrong
  BY DEF AliveInv
<1>a. TickRate \in Nat /\ MaxTicks \in Nat /\ TickRate > 0
  BY KeepAliveAssumption
<1>b. Missed \in Nat
  BY <1>0, OneMore DEF ScalarsOK
<1>c. waited = MaxTicks \/ waited >= Missed + (IF keepAliveId = 0 THEN 0 ELSE Elapsed)
  BY <1>0 DEF PatienceInv
<1>1. CASE Tick
  <2>1. Missed' = Missed /\ UNCHANGED <<keepAliveId, end>>
    BY <1>1 DEF Tick
  <2>2. waited' = MaxTicks \/ waited' >= Missed + (IF keepAliveId = 0 THEN 0 ELSE Elapsed')
    <3> HIDE DEF Missed
    <3> QED
      BY <1>0, <1>1, <1>a, <1>b, <1>c DEF Tick, Counted, Elapsed, ScalarsOK
  <2>3. PatienceInv'
    BY <2>1, <2>2 DEF PatienceInv
  <2>4. PatienceKept'
    BY <1>1, <2>1 DEF Tick, PatienceKept
  <2> QED
    BY <2>3, <2>4
<1>2. CASE Process
  <2>1. CASE keepAliveId = 0
    <3>1. Missed' = Missed /\ UNCHANGED <<waited, end>> /\ Elapsed' = 0
      BY <1>0, <1>2, <2>1 DEF Process, Elapsed, ScalarsOK
    <3>2. waited' = MaxTicks \/ waited' >= Missed' + (IF keepAliveId' = 0 THEN 0 ELSE Elapsed')
      <4> HIDE DEF Missed
      <4> QED
        BY <1>b, <1>c, <2>1, <3>1
    <3> QED
      BY <1>0, <3>1, <3>2 DEF PatienceInv, PatienceKept
  <2>2. CASE keepAliveId # 0
    <3>1. waited >= Missed + TickRate \/ waited = MaxTicks
      <4> HIDE DEF Missed
      <4> QED
        BY <1>2, <1>c, <2>2 DEF Process, Elapsed
    <3>2. ignored' = (ignored + 1) % 256
      BY <1>2, <2>2 DEF Process
    <3>3. ignored' = ignored + 1 \/ ignored' = 0
      BY <1>0, <3>2, Increment8 DEF ScalarsOK
    <3>4. Missed' = Missed + TickRate \/ Missed' = 0
      BY <1>0, <3>3, OneMore DEF ScalarsOK
    <3>5. /\ step' = "none" /\ tick' = 0 /\ UNCHANGED <<waited, keepAliveId>>
          /\ end' = IF Missed' >= MaxTicks THEN "timeout" ELSE end
      BY <1>0, <1>2, <2>2 DEF Process, ScalarsOK
    <3>6. waited \in Nat /\ waited <= MaxTicks
      BY <1>0, <1>a DEF ScalarsOK
    <3>7. waited' = MaxTicks \/ waited' >= Missed'
      <4> HIDE DEF Missed
      <4> QED
        BY <1>a, <1>b, <3>1, <3>4, <3>5, <3>6
    <3>8. PatienceInv'
      <4>1. Elapsed' = 0 /\ Missed' \in Nat
        BY <1>a, <1>b, <3>4, <3>5 DEF Elapsed
      <4> QED
        BY <3>7, <4>1 DEF PatienceInv
    <3>9. PatienceKept'
      <4> HIDE DEF Missed
      <4> QED
        BY <1>0, <1>a, <1>b, <3>4, <3>5, <3>6, <3>7 DEF PatienceKept
    <3> QED
      BY <3>8, <3>9
  <2> QED
    BY <2>1, <2>2
<1>3. CASE SendKeepAlive
  <2>1. UNCHANGED <<waited, ignored, keepAliveId, end>> /\ Elapsed' = Elapsed
    BY <1>3 DEF SendKeepAlive, Elapsed
  <2> QED
    BY <1>0, <2>1 DEF PatienceInv, PatienceKept
<1>4. CASE PeerAnswers \/ PeerFallsSilent \/ UNCHANGED vars
  <2>1. UNCHANGED <<waited, ignored, keepAliveId, end>> /\ Elapsed' = Elapsed
    BY <1>4 DEF PeerAnswers, PeerFallsSilent, Elapsed, vars
  <2> QED
    BY <1>0, <2>1 DEF PatienceInv, PatienceKept
<1>5. CASE OnKeepAliveResponse
  <2>1. /\ UNCHANGED <<waited, ignored>> /\ Elapsed' = Elapsed /\ Missed' = Missed
        /\ keepAliveId' \in {0, keepAliveId} /\ end' \in {end, "wrong id"}
    BY <1>5 DEF OnKeepAliveResponse, Elapsed
  <2>2. Elapsed \in Nat /\ waited \in Nat
    BY <1>0, <1>a DEF Elapsed, ScalarsOK
  <2>3. waited' = MaxTicks \/ waited' >= Missed' + (IF keepAliveId' = 0 THEN 0 ELSE Elapsed')
    <3>1. CASE keepAliveId' = 0
      <4>1. waited = MaxTicks \/ waited >= Missed
        <5> HIDE DEF Missed
        <5> QED
          BY <1>b, <1>c, <2>2
      <4>2. waited' = waited /\ Missed' = Missed
        BY <2>1
      <4> HIDE DEF Missed
      <4> QED
        BY <1>b, <2>2, <3>1, <4>1, <4>2
    <3>2. CASE keepAliveId' # 0
      <4>1. keepAliveId' = keepAliveId
        BY <2>1, <3>2
      <4> HIDE DEF Missed
      <4> QED
        BY <1>c, <2>1, <4>1
    <3> QED
      BY <3>1, <3>2
  <2> QED
    BY <1>0, <2>1, <2>3 DEF PatienceInv, PatienceKept
<1> QED
  BY <1>1, <1>2, <1>3, <1>4, <1>5 DEF Next, Disconnected

-----------------------------------------------------------------------------
(* Theorems                                                                *)

\* Every step of the exchange keeps the invariant.
LEMMA AliveStep == AliveInv /\ [Next]_vars => AliveInv'
  BY ScalarsStep, WireStep, PatienceStep DEF AliveInv

\* The invariant holds in every reachable state.
LEMMA AliveInductive == Spec => []AliveInv
  BY AliveStep, InitAlive, PTL DEF Spec

\* The keep-alive state keeps its types.
THEOREM KeepAliveTyped == Spec => []TypeOK
<1>1. AliveInv => TypeOK
  <2> SUFFICES ASSUME AliveInv PROVE TypeOK
    OBVIOUS
  <2>1. newest \in Ids
    BY DEF AliveInv, ScalarsOK, Ids
  <2>2. <<>> \in Seq(Ids) /\ <<newest>> \in Seq(Ids)
    BY <2>1
  <2>3. toPeer \in Seq(Ids) /\ toServer \in Seq(Ids)
    BY <2>2 DEF AliveInv, WireInv
  <2>4. /\ tick \in 0 .. (TickRate - 1) /\ ignored \in 0 .. 255
        /\ waited \in 0 .. MaxTicks /\ idle \in 0 .. MaxTicks
    <3>1. tick \in Nat /\ tick < TickRate /\ ignored \in Nat /\ ignored <= 255
      BY DEF AliveInv, ScalarsOK
    <3>2. waited \in Nat /\ waited <= MaxTicks /\ idle \in Nat /\ idle <= MaxTicks
      BY DEF AliveInv, ScalarsOK
    <3> QED
      BY <3>1, <3>2, KeepAliveAssumption
  <2> QED
    BY <2>1, <2>3, <2>4 DEF AliveInv, ScalarsOK, TypeOK, Ids
<1> QED
  BY <1>1, AliveInductive, PTL

\* A program that returns the ids it gets is never disconnected for a
\* "Wrong Keep Alive ID", however late its answers are.
THEOREM AnswersAreRight == Spec => []NeverWrong
<1>1. AliveInv => NeverWrong
  BY DEF AliveInv
<1> QED
  BY <1>1, AliveInductive, PTL

\* Nobody is disconnected by _processKeepAlive() before MAX_TICK_BEFORE_TIMEOUT
\* ticks were spent waiting.
THEOREM TimeoutIsPatient == Spec => []PatienceKept
<1>1. AliveInv => PatienceKept
  BY DEF AliveInv
<1> QED
  BY <1>1, AliveInductive, PTL

-----------------------------------------------------------------------------
(* Chunks in view: what _updateRenderedChunks() keeps                      *)

\* Positions of chunks.
Chunks == Int \X Int

\* Membership in the product behind the nested loops, coordinate by coordinate.
LEMMA InRectangle ==
    ASSUME NEW x1 \in Int, NEW x2 \in Int, NEW z1 \in Int, NEW z2 \in Int,
           NEW x \in Int, NEW z \in Int
    PROVE  <<x, z>> \in Rectangle(x1, x2, z1, z2) <=> x1 <= x /\ x <= x2 /\ z1 <= z /\ z <= z2
  BY DEF Rectangle

\* A rectangle holds pairs of coordinates.
LEMMA RectangleType ==
    ASSUME NEW x1 \in Int, NEW x2 \in Int, NEW z1 \in Int, NEW z2 \in Int
    PROVE  Rectangle(x1, x2, z1, z2) \subseteq Chunks
  BY DEF Rectangle, Chunks

\* The window, coordinate by coordinate.
LEMMA InWindow ==
    ASSUME NEW p \in Chunks, NEW x \in Int, NEW z \in Int
    PROVE  <<x, z>> \in Window(p) <=>
              /\ p[1] - RenderDistance <= x /\ x <= p[1] + RenderDistance
              /\ p[2] - RenderDistance <= z /\ z <= p[2] + RenderDistance
<1>1. p[1] \in Int /\ p[2] \in Int /\ RenderDistance \in Int
  BY RenderDistanceAssumption DEF Chunks
<1> QED
  BY <1>1, InRectangle DEF Window

\* The loops over "Old chunks" visit every chunk that is in the old window and
\* not in the new one, and nothing of the new window.
LEMMA UnloadedChunks ==
    ASSUME NEW old \in Chunks, NEW new \in Chunks, NEW x \in Int, NEW z \in Int
    PROVE  /\ <<x, z>> \in Unloaded(old, new) => <<x, z>> \notin Window(new)
           /\ <<x, z>> \in Window(old) /\ <<x, z>> \notin Window(new) =>
                 <<x, z>> \in Unloaded(old, new)
<1> DEFINE r == RenderDistance
           ox == old[1]
           oz == old[2]
           nx == new[1]
           nz == new[2]
           q == <<x, z>>
<1>1. r \in Int /\ r >= 0 /\ ox \in Int /\ oz \in Int /\ nx \in Int /\ nz \in Int
  BY RenderDistanceAssumption DEF Chunks
<1>2. /\ SmallerOf(nx - r, ox + r + 1) \in Int /\ SmallerOf(nz - r, oz + r + 1) \in Int
      /\ LargerOf(nx + r + 1, ox - r) \in Int /\ LargerOf(nz + r + 1, oz - r) \in Int
  BY <1>1 DEF SmallerOf, LargerOf
<1>3. q \in Unloaded(old, new) <=>
         \/ q \in Rectangle(ox - r, SmallerOf(nx - r, ox + r + 1) - 1, oz - r, oz + r)
         \/ q \in Rectangle(ox - r + (nx - ox), ox + r, oz - r, SmallerOf(nz - r, oz + r + 1) - 1)
         \/ q \in Rectangle(LargerOf(nx + r + 1, ox - r), ox + r, oz - r, oz + r)
         \/ q \in Rectangle(ox - r, ox + r + (nx - ox), LargerOf(nz + r + 1, oz - r), oz + r)
  BY DEF Unloaded
<1>4. q \in Unloaded(old, new) <=>
         \/ ox - r <= x /\ x <= SmallerOf(nx - r, ox + r + 1) - 1 /\ oz - r <= z /\ z <= oz + r
         \/ nx - r <= x /\ x <= ox + r /\ oz - r <= z /\ z <= SmallerOf(nz - r, oz + r + 1) - 1
         \/ LargerOf(nx + r + 1, ox - r) <= x /\ x <= ox + r /\ oz - r <= z /\ z <= oz + r
         \/ ox - r <= x /\ x <= nx + r /\ LargerOf(nz + r + 1, oz - r) <= z /\ z <= oz + r
  <2> HIDE DEF ox, oz, nx, nz, r
  <2> QED
    BY <1>1, <1>2, <1>3, InRectangle
<1>5. /\ q \in Window(old) <=> ox - r <= x /\ x <= ox + r /\ oz - r <= z /\ z <= oz + r
      /\ q \in Window(new) <=> nx - r <= x /\ x <= nx + r /\ nz - r <= z /\ z <= nz + r
  BY InWindow
<1> HIDE DEF ox, oz, nx, nz, r, q
<1> QED
  BY <1>1, <1>4, <1>5 DEF SmallerOf, LargerOf, q

\* The loops over "New chunks" visit every chunk that is in the new window and
\* not in the old one, and nothing of the old window.
LEMMA LoadedChunks ==
    ASSUME NEW old \in Chunks, NEW new \in Chunks, NEW x \in Int, NEW z \in Int
    PROVE  /\ <<x, z>> \in Loaded(old, new) => <<x, z>> \notin Window(old)
           /\ <<x, z>> \in Window(new) /\ <<x, z>> \notin Window(old) =>
                 <<x, z>> \in Loaded(old, new)
<1> DEFINE r == RenderDistance
           ox == old[1]
           oz == old[2]
           nx == new[1]
           nz == new[2]
           q == <<x, z>>
<1>1. r \in Int /\ r >= 0 /\ ox \in Int /\ oz \in Int /\ nx \in Int /\ nz \in Int
  BY RenderDistanceAssumption DEF Chunks
<1>2. /\ SmallerOf(ox - r, nx + r + 1) \in Int /\ SmallerOf(oz - r, nz + r + 1) \in Int
      /\ LargerOf(ox + r + 1, nx - r) \in Int /\ LargerOf(oz + r + 1, nz - r) \in Int
  BY <1>1 DEF SmallerOf, LargerOf
<1>3. q \in Loaded(old, new) <=>
         \/ q \in Rectangle(LargerOf(ox + r + 1, nx - r), nx + r, nz - r, nz + r)
         \/ q \in Rectangle(nx - r, nx + r - (nx - ox), LargerOf(oz + r + 1, nz - r), nz + r)
         \/ q \in Rectangle(nx - r, SmallerOf(ox - r, nx + r + 1) - 1, nz - r, nz + r)
         \/ q \in Rectangle(nx - r - (nx - ox), nx + r, nz - r, SmallerOf(oz - r, nz + r + 1) - 1)
  BY DEF Loaded
<1>4. q \in Loaded(old, new) <=>
         \/ LargerOf(ox + r + 1, nx - r) <= x /\ x <= nx + r /\ nz - r <= z /\ z <= nz + r
         \/ nx - r <= x /\ x <= ox + r /\ LargerOf(oz + r + 1, nz - r) <= z /\ z <= nz + r
         \/ nx - r <= x /\ x <= SmallerOf(ox - r, nx + r + 1) - 1 /\ nz - r <= z /\ z <= nz + r
         \/ ox - r <= x /\ x <= nx + r /\ nz - r <= z /\ z <= SmallerOf(oz - r, nz + r + 1) - 1
  <2> HIDE DEF ox, oz, nx, nz, r
  <2> QED
    BY <1>1, <1>2, <1>3, InRectangle
<1>5. /\ q \in Window(old) <=> ox - r <= x /\ x <= ox + r /\ oz - r <= z /\ z <= oz + r
      /\ q \in Window(new) <=> nx - r <= x /\ x <= nx + r /\ nz - r <= z /\ z <= nz + r
  BY InWindow
<1> HIDE DEF ox, oz, nx, nz, r, q
<1> QED
  BY <1>1, <1>4, <1>5 DEF SmallerOf, LargerOf, q

-----------------------------------------------------------------------------
(* The invariant and the steps                                             *)

\* The player is in a chunk.
PositionOK == pos \in Chunks

\* The inductive invariant of the window.
WindowInv == PositionOK /\ ViewIsHeld

\* The login sequence leaves the player in chunk (0, 0) with its window.
LEMMA InitWindow == WindowInit => WindowInv
  BY DEF WindowInit, WindowInv, PositionOK, ViewIsHeld, Chunks

\* A window holds pairs of coordinates.
LEMMA WindowType == ASSUME NEW p \in Chunks PROVE Window(p) \subseteq Chunks
<1>1. p[1] \in Int /\ p[2] \in Int /\ RenderDistance \in Int
  BY RenderDistanceAssumption DEF Chunks
<1> QED
  BY <1>1, RectangleType DEF Window

\* A move keeps the invariant: what is in view after it was in view before it
\* and is not unloaded, or is loaded.
LEMMA MoveKeepsView ==
    ASSUME WindowInv, NEW new \in Xs \X Zs, SetPosition(new)
    PROVE  WindowInv'
<1>1. pos \in Chunks /\ new \in Chunks /\ pos' = new
  BY CoordinateAssumption DEF WindowInv, PositionOK, SetPosition, Chunks
<1>2. ASSUME NEW q \in Window(new) PROVE q \in held'
  <2>1. q \in Chunks
    BY <1>1, WindowType
  <2>2. PICK x \in Int, z \in Int : q = <<x, z>>
    BY <2>1 DEF Chunks
  <2>3. q \notin Unloaded(pos, new)
    BY <1>1, <1>2, <2>2, UnloadedChunks
  <2>4. q \in Window(pos) \/ q \in Loaded(pos, new)
    BY <1>1, <1>2, <2>2, LoadedChunks
  <2> QED
    BY <2>3, <2>4 DEF WindowInv, ViewIsHeld, SetPosition
<1> QED
  BY <1>1, <1>2 DEF WindowInv, PositionOK, ViewIsHeld

\* A move unloads what leaves the view and touches nothing that stays in it.
LEMMA MoveIsMinimal ==
    ASSUME PositionOK, NEW new \in Xs \X Zs, SetPosition(new)
    PROVE  StepUnloadsOnlyLeaving
<1>1. pos \in Chunks /\ new \in Chunks /\ pos' = new
  BY CoordinateAssumption DEF PositionOK, SetPosition, Chunks
<1>2. ASSUME NEW q \in Window(new) PROVE q \notin Unloaded(pos, new)
  <2>1. PICK x \in Int, z \in Int : q = <<x, z>>
    BY <1>1, WindowType DEF Chunks
  <2> QED
    BY <1>1, <1>2, <2>1, UnloadedChunks
<1>3. ASSUME NEW q \in Window(pos)
      PROVE  q \notin Loaded(pos, new) /\ (q \notin Window(new) => q \in Unloaded(pos, new))
  <2>1. PICK x \in Int, z \in Int : q = <<x, z>>
    BY <1>1, WindowType DEF Chunks
  <2> QED
    BY <1>1, <1>3, <2>1, UnloadedChunks, LoadedChunks
<1> QED
  BY <1>1, <1>2, <1>3 DEF StepUnloadsOnlyLeaving, SetPosition

-----------------------------------------------------------------------------
(* Theorems                                                                *)

\* Every move keeps the invariant.
LEMMA WindowStep == WindowInv /\ [WindowNext]_windowVars => WindowInv'
  BY MoveKeepsView DEF WindowNext, windowVars, WindowInv, PositionOK, ViewIsHeld

\* The invariant holds in every reachable state.
LEMMA WindowInductive == WindowSpec => []WindowInv
  BY WindowStep, InitWindow, PTL DEF WindowSpec

\* Whatever the render distance, and however far and in whichever direction the
\* player moves, _updateRenderedChunks() leaves every chunk in view held.
THEOREM ViewAlwaysHeld == WindowSpec => []ViewIsHeld
<1>1. WindowInv => ViewIsHeld
  BY DEF WindowInv
<1> QED
  BY <1>1, WindowInductive, PTL

\* No move reloads or unloads a chunk that stays in view, and every chunk that
\* leaves the view is unloaded.
THEOREM MovesMinimal == WindowSpec => MovesAreMinimal
<1>1. WindowInv /\ [WindowNext]_windowVars => [StepUnloadsOnlyLeaving]_windowVars
  BY MoveIsMinimal DEF WindowNext, WindowInv
<1> QED
  BY <1>1, WindowInductive, PTL DEF WindowSpec, MovesAreMinimal

-----------------------------------------------------------------------------
(* Both threads                                                            *)

\* The invariants of the tick and of the moves hold while the two threads interleave.
LEMMA LifeInductive == LifeSpec => [](AliveInv /\ WindowInv)
<1>1. LifeInit => AliveInv /\ WindowInv
  BY InitAlive, InitWindow DEF LifeInit
<1>2. ASSUME AliveInv, WindowInv, [LifeNext]_lifeVars  PROVE [Next]_vars /\ [WindowNext]_windowVars
  BY <1>2 DEF LifeNext, lifeVars, KeepsAlive, Moves, WindowNext
<1>3. AliveInv /\ WindowInv /\ [LifeNext]_lifeVars => (AliveInv /\ WindowInv)'
  BY <1>2, AliveStep, WindowStep
<1>4. QED  BY <1>1, <1>3, PTL DEF LifeSpec

\* A player whose dimension ticks it while its client's thread reads its moves is never dropped for a wrong answer or too
\* early, and holds every chunk in its view.
THEOREM LifeIsSafe == LifeSpec => []NeverWrong /\ []PatienceKept /\ []ViewIsHeld
<1>1. AliveInv /\ WindowInv => NeverWrong /\ PatienceKept /\ ViewIsHeld
  BY DEF AliveInv, WindowInv
<1>2. QED  BY <1>1, LifeInductive, PTL

\* Between its ticks, too, no move reloads or unloads a chunk that stays in view.
THEOREM LifeMovesMinimal == LifeSpec => MovesAreMinimal
<1>1. WindowInv /\ [LifeNext]_lifeVars => [StepUnloadsOnlyLeaving]_windowVars
  BY MoveIsMinimal DEF LifeNext, lifeVars, KeepsAlive, Moves, WindowInv
<1>2. QED  BY <1>1, LifeInductive, PTL DEF LifeSpec, MovesAreMinimal

-----------------------------------------------------------------------------
(* Body: two threads work on the levels.  BodyInv holds whatever they do:  *)
(* what each of them has loaded is enough to bound what it writes, since   *)
(* only the tick raises health and lowers food.  CalmInv says in addition  *)
(* that loaded and present levels are the same where it matters, as long   *)
(* as no payment overlaps with a meal.                                     *)

\* Food is less than a meal above its maximum.
FoodRange == 0 .. MaxFood + BiggestMeal - 1

\* Levels that a thread has loaded.
Seen == [food : FoodRange, saturation : Int, health : Int]

\* The variables of the body, and what the two threads keep.
BodyTypes ==
    /\ food \in FoodRange /\ saturation \in Int /\ exhaustion \in Int /\ health \in Int
    /\ meal \in [at : {"none", "food", "saturation", "limit food", "limit saturation"},
                 of : DOMAIN Food \cup {0}, seen : Seen]
    /\ ticking \in [at : {"none", "starve", "regenerate", "pay", "count"}, changed : BOOLEAN, seen : Seen]

\* A meal begins below the maximum, and food can only have fallen since; a
\* payment finds no less food than it has loaded, or too much for a meal to begin.
FoodInv ==
    /\ meal.at # "none" => meal.of \in DOMAIN Food
    /\ meal.at = "food" => food <= meal.seen.food /\ meal.seen.food < MaxFood
    /\ ticking.at = "pay" => ticking.seen.food <= food \/ food >= MaxFood

\* Others only take health away.
HealthInv ==
    /\ health < (MaxHealth + 1) * Point /\ ticking.seen.health < (MaxHealth + 1) * Point
    /\ ticking.at # "none" => health <= ticking.seen.health

BodyInv == BodyTypes /\ FoodInv /\ HealthInv

\* What a thread has loaded is still there when it is used.
CalmInv ==
    /\ AtRest
    /\ meal.at = "limit food" => meal.seen.food = food
    /\ meal.at = "limit saturation" =>
          food <= MaxFood /\ meal.seen.food = food /\ meal.seen.saturation = saturation
    /\ ticking.at = "pay" => ticking.seen.food = food /\ ticking.seen.saturation = saturation

-----------------------------------------------------------------------------

\* The constants are numbers.
LEMMA BodyConstants ==
    /\ MaxFood \in Nat \ {0} /\ RegenFood \in 1 .. MaxFood /\ MaxHealth \in Nat /\ StarveHealth \in 0 .. MaxHealth
    /\ BiggestMeal \in Nat \ {0} /\ Parts \in Nat \ {0} /\ Point \in Nat \ {0} /\ Point = 6 * Parts
    /\ \A id \in DOMAIN Food : Food[id].value \in 1 .. BiggestMeal /\ Food[id].saturation \in Nat
  BY SurvivalAssumption, LevelsAssumption DEF Point

\* Levels of food are numbers, and the maximum is one of them.
LEMMA FoodNumbers == (\A f \in FoodRange : f \in Int) /\ 0 \in FoodRange /\ MaxFood \in FoodRange
  BY BodyConstants DEF FoodRange

\* The levels as they are can be loaded.
LEMMA LevelsLoaded ==
    ASSUME BodyTypes
    PROVE  Levels \in Seen
  BY DEF BodyTypes, Levels, Seen

\* What is loaded are the levels.
LEMMA LevelsTaken ==
    ASSUME NEW l, l = Levels'
    PROVE  l.food = food' /\ l.saturation = saturation' /\ l.health = health'
  BY DEF Levels

\* The constructor of Player puts every level in range, with nothing under way.
LEMMA InitBody == SurvivalInit => BodyInv /\ CalmInv
<1> SUFFICES ASSUME NEW s \in Starts, meal = NoMeal, ticking = NoTick,
                    food = s.food, saturation = s.saturation, exhaustion = 0, health = s.health * Point
             PROVE  BodyInv /\ CalmInv
  BY DEF SurvivalInit
<1>1. /\ s.food \in 0 .. MaxFood /\ s.saturation \in 0 .. Parts * s.food /\ s.health \in 0 .. MaxHealth
  BY LevelsAssumption
<1>2. /\ food \in FoodRange /\ food <= MaxFood /\ saturation \in Int /\ saturation <= Parts * food
      /\ exhaustion \in Int
  BY <1>1, BodyConstants DEF FoodRange
<1>3. health \in Int /\ health < (MaxHealth + 1) * Point
  <2>1. s.health * Point \in Int /\ s.health * Point <= MaxHealth * Point /\ (MaxHealth + 1) * Point = MaxHealth * Point + Point
    BY <1>1, BodyConstants
  <2>2. QED  BY <2>1, BodyConstants
<1>4. NoLevels \in Seen  BY BodyConstants DEF NoLevels, Seen, FoodRange
<1>5. /\ meal.at = "none" /\ ticking.at = "none"
      /\ meal \in [at : {"none", "food", "saturation", "limit food", "limit saturation"},
                   of : DOMAIN Food \cup {0}, seen : Seen]
      /\ ticking \in [at : {"none", "starve", "regenerate", "pay", "count"}, changed : BOOLEAN, seen : Seen]
  BY <1>4 DEF NoMeal, NoTick
<1>6. ticking.seen.health = 0  BY DEF NoTick, NoLevels
<1>7. 0 < (MaxHealth + 1) * Point  BY BodyConstants
<1>8. BodyTypes /\ FoodInv  BY <1>2, <1>3, <1>5 DEF BodyTypes, FoodInv
<1>9. HealthInv  BY <1>3, <1>5, <1>6, <1>7 DEF HealthInv
<1>10. CalmInv  BY <1>2, <1>5 DEF CalmInv, AtRest
<1>11. QED  BY <1>8, <1>9, <1>10 DEF BodyInv

\* A meal goes on: its next section and the levels it has loaded.
LEMMA MealGoesOn ==
    ASSUME BodyTypes, NEW s \in {"saturation", "limit food", "limit saturation"}, NEW l \in Seen,
           meal' = [meal EXCEPT !.at = s, !.seen = l]
    PROVE  /\ meal' \in [at : {"none", "food", "saturation", "limit food", "limit saturation"},
                         of : DOMAIN Food \cup {0}, seen : Seen]
           /\ meal'.at = s /\ meal'.of = meal.of /\ meal'.seen = l
  BY DEF BodyTypes

\* _eat() adds to food and saturation, then limits the one and the other.
LEMMA EatBody ==
    ASSUME BodyInv, Eat \/ EatStep
    PROVE  BodyInv'
<1>1. /\ UNCHANGED <<health, exhaustion, ticking>> /\ BodyTypes /\ FoodInv /\ HealthInv
      /\ food \in FoodRange /\ saturation \in Int /\ meal.seen \in Seen
  BY DEF BodyInv, BodyTypes, Eat, EatStep, EatFood, EatSaturation, LimitFood, LimitSaturation, body
<1>2. HealthInv'  BY <1>1 DEF HealthInv
<1>3. CASE Eat
  <2>1. meal' = [at |-> "food", of |-> Held.id, seen |-> Levels] /\ Held.id \in DOMAIN Food /\ food < MaxFood
        /\ UNCHANGED <<food, saturation>>
    BY <1>3 DEF Eat, body
  <2>2. Levels \in Seen /\ Levels.food = food  BY <1>1, LevelsLoaded DEF Levels
  <2>3. BodyTypes'  BY <1>1, <2>1, <2>2 DEF BodyTypes
  <2>4. meal'.of \in DOMAIN Food /\ meal'.seen.food = food' /\ food' <= food' /\ food' < MaxFood
    BY <1>1, <2>1, <2>2, FoodNumbers
  <2>5. FoodInv'  BY <1>1, <2>1, <2>4 DEF FoodInv
  <2>6. QED  BY <1>2, <2>3, <2>5 DEF BodyInv
<1>4. CASE EatFood
  <2>1. meal.at = "food" /\ meal.of \in DOMAIN Food /\ food <= meal.seen.food /\ meal.seen.food < MaxFood
        /\ meal.seen.food \in FoodRange
    BY <1>1, <1>4 DEF EatFood, FoodInv, Seen
  <2>2. Food[meal.of].value \in 1 .. BiggestMeal  BY <2>1, BodyConstants
  <2>3. food' \in {meal.seen.food + Food[meal.of].value, food + Food[meal.of].value} /\ saturation' = saturation
    BY <1>4 DEF EatFood
  <2>4. food' \in FoodRange /\ food' > food
    BY <1>1, <2>1, <2>2, <2>3, BodyConstants DEF FoodRange
  <2>5. Levels' \in Seen  BY <1>1, <2>3, <2>4 DEF Levels, Seen, BodyTypes
  <2>6. meal' = [meal EXCEPT !.at = "saturation", !.seen = Levels']  BY <1>4 DEF EatFood
  <2>7. meal'.at = "saturation" /\ meal'.of = meal.of
        /\ meal' \in [at : {"none", "food", "saturation", "limit food", "limit saturation"},
                      of : DOMAIN Food \cup {0}, seen : Seen]
    BY <1>1, <2>5, <2>6, MealGoesOn
  <2>8. BodyTypes'  BY <1>1, <2>3, <2>4, <2>7 DEF BodyTypes
  <2>9. ticking.at = "pay" => ticking.seen.food <= food' \/ food' >= MaxFood
    <3>1. ticking.seen.food \in FoodRange  BY <1>1 DEF BodyTypes, Seen
    <3>2. ticking.at = "pay" => ticking.seen.food <= food \/ food >= MaxFood  BY <1>1 DEF FoodInv
    <3>3. food \in Int /\ food' \in Int /\ ticking.seen.food \in Int /\ MaxFood \in Int
      BY <1>1, <2>4, <3>1, FoodNumbers
    <3>4. QED  BY <2>4, <3>2, <3>3
  <2>10. FoodInv'  BY <1>1, <2>1, <2>7, <2>9 DEF FoodInv
  <2>11. QED  BY <1>2, <2>8, <2>10 DEF BodyInv
<1>5. CASE EatSaturation
  <2>1. meal.at = "saturation" /\ meal.of \in DOMAIN Food /\ food' = food /\ meal.seen.saturation \in Int
    BY <1>1, <1>5 DEF EatSaturation, FoodInv, Seen
  <2>2. Food[meal.of].saturation \in Nat  BY <2>1, BodyConstants
  <2>3. saturation' \in Int  BY <1>1, <1>5, <2>1, <2>2 DEF EatSaturation
  <2>4. Levels' \in Seen  BY <1>1, <2>1, <2>3 DEF Levels, Seen, BodyTypes
  <2>5. meal' = [meal EXCEPT !.at = "limit food", !.seen = Levels']  BY <1>5 DEF EatSaturation
  <2>6. meal'.at = "limit food" /\ meal'.of = meal.of
        /\ meal' \in [at : {"none", "food", "saturation", "limit food", "limit saturation"},
                      of : DOMAIN Food \cup {0}, seen : Seen]
    BY <1>1, <2>4, <2>5, MealGoesOn
  <2>7. BodyTypes'  BY <1>1, <2>1, <2>3, <2>6 DEF BodyTypes
  <2>8. FoodInv'  BY <1>1, <2>1, <2>6 DEF FoodInv
  <2>9. QED  BY <1>2, <2>7, <2>8 DEF BodyInv
<1>6. CASE LimitFood
  <2>1. meal.at = "limit food" /\ meal.of \in DOMAIN Food /\ food' \in {food, MaxFood} /\ saturation' = saturation
    BY <1>1, <1>6 DEF LimitFood, FoodInv
  <2>2. food' \in FoodRange  BY <1>1, <2>1, FoodNumbers
  <2>3. Levels' \in Seen  BY <1>1, <2>1, <2>2 DEF Levels, Seen, BodyTypes
  <2>4. meal' = [meal EXCEPT !.at = "limit saturation", !.seen = Levels']  BY <1>6 DEF LimitFood
  <2>5. meal'.at = "limit saturation" /\ meal'.of = meal.of
        /\ meal' \in [at : {"none", "food", "saturation", "limit food", "limit saturation"},
                      of : DOMAIN Food \cup {0}, seen : Seen]
    BY <1>1, <2>3, <2>4, MealGoesOn
  <2>6. BodyTypes'  BY <1>1, <2>1, <2>2, <2>5 DEF BodyTypes
  <2>7. ticking.at = "pay" => ticking.seen.food <= food' \/ food' >= MaxFood
    <3>1. ticking.at = "pay" => ticking.seen.food <= food \/ food >= MaxFood  BY <1>1 DEF FoodInv
    <3>2. MaxFood >= MaxFood  BY FoodNumbers
    <3>3. QED  BY <2>1, <3>1, <3>2
  <2>8. FoodInv'  BY <1>1, <2>1, <2>5, <2>7 DEF FoodInv
  <2>9. QED  BY <1>2, <2>6, <2>8 DEF BodyInv
<1>7. CASE LimitSaturation
  <2>1. meal' = NoMeal /\ food' = food /\ meal.seen.food \in FoodRange  BY <1>1, <1>7 DEF LimitSaturation, Seen
  <2>2. saturation' \in {saturation, Parts * meal.seen.food, Parts * food}  BY <1>7 DEF LimitSaturation
  <2>3. saturation' \in Int
    <3>1. Parts * meal.seen.food \in Int /\ Parts * food \in Int  BY <1>1, <2>1, BodyConstants DEF FoodRange
    <3>2. QED  BY <1>1, <2>2, <3>1
  <2>4. NoLevels \in Seen  BY BodyConstants DEF NoLevels, Seen, FoodRange
  <2>5. BodyTypes'  BY <1>1, <2>1, <2>3, <2>4 DEF BodyTypes, NoMeal
  <2>6. FoodInv'  BY <1>1, <2>1 DEF FoodInv, NoMeal
  <2>7. QED  BY <1>2, <2>5, <2>6 DEF BodyInv
<1>8. QED  BY <1>3, <1>4, <1>5, <1>6, <1>7 DEF EatStep

\* A tick goes on: its next section and the levels it has loaded.
LEMMA TickGoesOn ==
    ASSUME BodyTypes, food' \in FoodRange, saturation' \in Int, exhaustion' \in Int, health' \in Int, meal' = meal,
           NEW s \in {"starve", "regenerate", "pay", "count"}, NEW c \in BOOLEAN,
           ticking' = [at |-> s, changed |-> c, seen |-> Levels']
    PROVE  /\ BodyTypes' /\ ticking'.at = s
           /\ ticking'.seen.food = food' /\ ticking'.seen.saturation = saturation' /\ ticking'.seen.health = health'
<1>1. Levels' \in Seen  BY DEF Levels, Seen
<1>2. QED  BY <1>1 DEF BodyTypes, Levels

\* _foodTick(): a section writes what it has loaded, or what it loads again.
LEMMA TickBody ==
    ASSUME BodyInv, TickStep
    PROVE  BodyInv'
<1>1. /\ BodyTypes /\ FoodInv /\ HealthInv /\ meal' = meal
      /\ food \in FoodRange /\ saturation \in Int /\ exhaustion \in Int /\ health \in Int
      /\ ticking.seen.food \in FoodRange /\ ticking.seen.saturation \in Int /\ ticking.seen.health \in Int
      /\ ticking.changed \in BOOLEAN
  BY DEF BodyInv, BodyTypes, Seen, TickStep, FoodTick, Starve, Regenerate, Pay, CountTick
<1> DEFINE seen == ticking.seen
           most == MaxHealth * Point
<1>2. /\ Point \in Nat \ {0} /\ Parts \in Nat \ {0} /\ MaxFood \in Nat \ {0}
      /\ (MaxHealth + 1) * Point = most + Point /\ most \in Int
  BY BodyConstants
<1> HIDE DEF most
<1>3. CASE FoodTick
  <2>1. UNCHANGED body /\ ticking' = [at |-> "starve", changed |-> FALSE, seen |-> Levels]  BY <1>3 DEF FoodTick
  <2>2. Levels' = Levels /\ UNCHANGED <<food, saturation, exhaustion, health>>  BY <2>1 DEF Levels, body
  <2>3. ticking' = [at |-> "starve", changed |-> FALSE, seen |-> Levels']  BY <2>1, <2>2
  <2>4. BodyTypes' /\ ticking'.at = "starve" /\ ticking'.seen.health = health'
    BY <1>1, <2>2, <2>3, TickGoesOn
  <2>5. FoodInv'  BY <1>1, <2>2, <2>4 DEF FoodInv
  <2>6. HealthInv'  BY <1>1, <2>2, <2>4 DEF HealthInv
  <2>7. QED  BY <2>4, <2>5, <2>6 DEF BodyInv
<1>4. CASE Starve
  <2> DEFINE starves == seen.food = 0 /\ seen.health > StarveHealth * Point /\ timer >= SlowTimer
  <2>1. /\ ticking.at = "starve" /\ UNCHANGED <<food, saturation, exhaustion>>
        /\ ticking' = [at |-> "regenerate", changed |-> starves, seen |-> Levels']
        /\ health' \in {health, seen.health - Point, health - Point}
    BY <1>4 DEF Starve
  <2>2. starves \in BOOLEAN  OBVIOUS
  <2> HIDE DEF starves
  <2>3. seen.health < most + Point /\ health < most + Point  BY <1>1, <1>2 DEF HealthInv
  <2>4. health' \in Int /\ health' < most + Point  BY <1>1, <1>2, <2>1, <2>3
  <2>5. BodyTypes' /\ ticking'.at = "regenerate" /\ ticking'.seen.health = health'
    BY <1>1, <2>1, <2>2, <2>4, TickGoesOn
  <2>6. FoodInv'  BY <1>1, <2>1, <2>5 DEF FoodInv
  <2>7. HealthInv'  BY <1>2, <2>4, <2>5 DEF HealthInv
  <2>8. QED  BY <2>5, <2>6, <2>7 DEF BodyInv
\* Only what was below the maximum is mended, by a point at most.
<1>5. CASE Regenerate
  <2> DEFINE mends == seen.food >= RegenFood /\ seen.health < MaxHealth * Point
             fast == mends /\ seen.saturation > 0 /\ seen.food = MaxFood /\ timer >= FastTimer
             slow == mends /\ ~fast /\ timer >= SlowTimer
             gain == IF fast /\ seen.saturation < Point THEN seen.saturation ELSE Point
             acts == ticking.changed \/ fast \/ slow
  <2>1. /\ ticking.at = "regenerate" /\ UNCHANGED <<food, saturation>>
        /\ ticking' = [at |-> "pay", changed |-> acts, seen |-> Levels']
        /\ exhaustion' = exhaustion + (IF fast \/ slow THEN 6 ELSE 0)
    BY <1>5 DEF Regenerate
  <2>2. \/ health' = health
        \/ mends /\ health' \in {seen.health + gain, health + gain}
    BY <1>5 DEF Regenerate
  <2>3. gain \in Int /\ gain <= Point  BY <1>1, <1>2
  <2>4. acts \in BOOLEAN  OBVIOUS
  <2>5. exhaustion' \in Int  BY <1>1, <2>1
  <2>6. mends => seen.health < most  BY DEF most
  <2>7. health <= seen.health /\ health < most + Point  BY <1>1, <1>2, <2>1 DEF HealthInv
  <2> HIDE DEF mends, fast, slow, gain, acts
  <2>8. health' \in Int /\ health' < most + Point
    <3>1. CASE health' = health  BY <1>1, <2>7, <3>1
    <3>2. CASE mends /\ health' \in {seen.health + gain, health + gain}
      BY <1>1, <1>2, <2>3, <2>6, <2>7, <3>2
    <3>3. QED  BY <2>2, <3>1, <3>2
  <2>9. /\ BodyTypes' /\ ticking'.at = "pay"
        /\ ticking'.seen.health = health' /\ ticking'.seen.food = food'
    BY <1>1, <2>1, <2>4, <2>5, <2>8, TickGoesOn
  <2>10. FoodInv'  BY <1>1, <2>1, <2>9 DEF FoodInv, FoodRange
  <2>11. HealthInv'  BY <1>2, <2>8, <2>9 DEF HealthInv
  <2>12. QED  BY <2>9, <2>10, <2>11 DEF BodyInv
\* What is paid with was loaded or is more, and a meal finds less food than it has loaded.
<1>6. CASE Pay
  <2> DEFINE pays == ~ticking.changed /\ exhaustion >= 4
             burns == pays /\ seen.saturation > 0
             hungers == pays /\ seen.saturation <= 0 /\ seen.food > 0
             acts == ticking.changed \/ pays
  <2>1. /\ ticking.at = "pay" /\ UNCHANGED health
        /\ ticking' = [at |-> "count", changed |-> acts, seen |-> Levels']
        /\ exhaustion' = exhaustion - (IF pays THEN 4 ELSE 0)
        /\ saturation' \in {saturation, seen.saturation - Parts, saturation - Parts}
    BY <1>6 DEF Pay
  <2>2. \/ food' = food
        \/ seen.food > 0 /\ food' \in {seen.food - 1, food - 1}
    BY <1>6 DEF Pay
  <2>3. acts \in BOOLEAN  OBVIOUS
  <2>4. exhaustion' \in Int /\ saturation' \in Int  BY <1>1, <1>2, <2>1
  <2>5. seen.food <= food \/ food >= MaxFood  BY <1>1, <2>1 DEF FoodInv
  <2> HIDE DEF acts
  <2>6. food' \in FoodRange /\ (food < MaxFood => food' <= food)
    <3>1. CASE food' = food  BY <1>1, <3>1 DEF FoodRange
    <3>2. CASE seen.food > 0 /\ food' \in {seen.food - 1, food - 1}
      BY <1>1, <1>2, <2>5, <3>2, BodyConstants DEF FoodRange
    <3>3. QED  BY <2>2, <3>1, <3>2
  <2>7. BodyTypes' /\ ticking'.at = "count" /\ ticking'.seen.health = health'
    BY <1>1, <2>1, <2>3, <2>4, <2>6, TickGoesOn
  <2>8. meal.at = "food" => food' <= meal.seen.food /\ meal.seen.food < MaxFood
    <3>1. SUFFICES ASSUME meal.at = "food" PROVE food' <= meal.seen.food /\ meal.seen.food < MaxFood
      OBVIOUS
    <3>2. food <= meal.seen.food /\ meal.seen.food < MaxFood  BY <1>1, <3>1 DEF FoodInv
    <3>3. meal.seen.food \in FoodRange  BY <1>1 DEF BodyTypes, Seen
    <3>4. food \in Int /\ food' \in Int /\ meal.seen.food \in Int /\ MaxFood \in Int
      BY <1>1, <2>6, <3>3, FoodNumbers
    <3>5. QED  BY <2>6, <3>2, <3>4
  <2>9. FoodInv'  BY <1>1, <2>7, <2>8 DEF FoodInv
  <2>10. HealthInv'  BY <1>1, <2>1, <2>7 DEF HealthInv
  <2>11. QED  BY <2>7, <2>9, <2>10 DEF BodyInv
<1>7. CASE CountTick
  <2>1. ticking' = NoTick /\ UNCHANGED <<food, saturation, exhaustion, health>>  BY <1>7 DEF CountTick
  <2>2. NoLevels \in Seen /\ NoLevels.health = 0  BY BodyConstants DEF NoLevels, Seen, FoodRange
  <2>3. ticking'.at = "none" /\ ticking'.seen = NoLevels
        /\ ticking' \in [at : {"none", "starve", "regenerate", "pay", "count"}, changed : BOOLEAN, seen : Seen]
    BY <2>1, <2>2 DEF NoTick
  <2>4. BodyTypes'  BY <1>1, <2>1, <2>3 DEF BodyTypes
  <2>5. FoodInv'  BY <1>1, <2>1, <2>3 DEF FoodInv
  <2>6. 0 < (MaxHealth + 1) * Point  BY BodyConstants
  <2>7. HealthInv'  BY <1>1, <2>1, <2>2, <2>3, <2>6 DEF HealthInv
  <2>8. QED  BY <2>4, <2>5, <2>7 DEF BodyInv
<1>8. QED  BY <1>3, <1>4, <1>5, <1>6, <1>7 DEF TickStep

\* Every handler but _eat() leaves food and saturation alone, and takes health
\* away at most.
LEMMA OthersLeaveFood ==
    ASSUME \/ OnClickContainer \/ OnSetHeldItem \/ OnSetCreativeModeSlot \/ StartDigging \/ FinishDigging
           \/ HandAction \/ OnUseItemOn \/ OnAttack \/ Attacked \/ SetGamemode \/ UNCHANGED survivalVars
    PROVE  /\ UNCHANGED <<food, saturation, meal, ticking>>
           /\ exhaustion' \in {exhaustion, exhaustion + 1} /\ health' \in {health, health - Point}
<1>1. CASE FinishDigging  BY <1>1 DEF FinishDigging, Exert
<1>2. CASE OnAttack  BY <1>2 DEF OnAttack, Exert
<1>3. CASE Attacked  BY <1>3 DEF Attacked
<1>4. CASE OnClickContainer \/ OnSetHeldItem \/ OnSetCreativeModeSlot \/ StartDigging
           \/ HandAction \/ OnUseItemOn \/ SetGamemode \/ UNCHANGED survivalVars
  <2>1. UNCHANGED <<body, meal, ticking>>
    BY <1>4 DEF OnClickContainer, OnSetHeldItem, OnSetCreativeModeSlot, StartDigging,
                HandAction, OnUseItemOn, SetGamemode, survivalVars
  <2>2. QED  BY <2>1 DEF body
<1>5. QED  BY <1>1, <1>2, <1>3, <1>4

\* The bounds that hold whatever the two threads do are inductive.
LEMMA BodyStep == BodyInv /\ [SurvivalNext]_survivalVars => BodyInv'
<1> SUFFICES ASSUME BodyInv, [SurvivalNext]_survivalVars PROVE BodyInv'
  OBVIOUS
<1>1. CASE Eat \/ EatStep  BY <1>1, EatBody
<1>2. CASE TickStep  BY <1>2, TickBody
<1>3. CASE \/ OnClickContainer \/ OnSetHeldItem \/ OnSetCreativeModeSlot \/ StartDigging \/ FinishDigging
           \/ HandAction \/ OnUseItemOn \/ OnAttack \/ Attacked \/ SetGamemode \/ UNCHANGED survivalVars
  <2>1. /\ UNCHANGED <<food, saturation, meal, ticking>>
        /\ exhaustion' \in {exhaustion, exhaustion + 1} /\ health' \in {health, health - Point}
    BY <1>3, OthersLeaveFood
  <2>2. health \in Int /\ exhaustion \in Int /\ ticking.seen.health \in Int /\ Point \in Nat
    <3>1. Point \in Nat  BY BodyConstants
    <3>2. QED  BY <3>1 DEF BodyInv, BodyTypes, Seen
  <2>3. exhaustion' \in Int /\ health' \in Int /\ health' <= health  BY <2>1, <2>2
  <2>4. BodyTypes'  BY <2>1, <2>3 DEF BodyInv, BodyTypes
  <2>5. FoodInv'  BY <2>1 DEF BodyInv, FoodInv
  <2>6. HealthInv'
    <3> DEFINE top == (MaxHealth + 1) * Point
    <3>1. top \in Int  BY BodyConstants
    <3>2. health < top /\ ticking.seen.health < top /\ (ticking.at # "none" => health <= ticking.seen.health)
      BY DEF BodyInv, HealthInv
    <3> HIDE DEF top
    <3>3. health' < top /\ (ticking.at # "none" => health' <= ticking.seen.health)  BY <2>2, <2>3, <3>1, <3>2
    <3>4. QED  BY <2>1, <3>2, <3>3 DEF HealthInv, top
  <2>7. QED  BY <2>4, <2>5, <2>6 DEF BodyInv
<1>4. QED  BY <1>1, <1>2, <1>3 DEF SurvivalNext

\* A meal in peace: the limits are applied to what the meal has made.
LEMMA EatCalm ==
    ASSUME BodyInv, BodyInv', CalmInv, ~Overlap, ~Overlap', Eat \/ EatStep
    PROVE  CalmInv'
<1>1. /\ food \in Int /\ saturation \in Int /\ food' \in Int /\ saturation' \in Int
      /\ MaxFood \in Nat /\ Parts * food \in Int
  <2>1. food \in FoodRange /\ saturation \in Int /\ food' \in FoodRange /\ saturation' \in Int
    BY DEF BodyInv, BodyTypes
  <2>2. food \in Int /\ food' \in Int /\ MaxFood \in Nat /\ Parts \in Int  BY <2>1, FoodNumbers, BodyConstants
  <2>3. QED  BY <2>1, <2>2
<1>2. /\ ticking' = ticking /\ (meal.at # "none" => ticking.at # "pay") /\ (meal'.at # "none" => ticking.at # "pay")
  BY DEF Overlap, Eat, EatStep, EatFood, EatSaturation, LimitFood, LimitSaturation
<1>3. CASE Eat
  <2>1. meal'.at = "food"  BY <1>3 DEF Eat
  <2>2. QED  BY <1>2, <2>1 DEF CalmInv, AtRest
<1>4. CASE EatFood
  <2>1. meal'.at = "saturation"  BY <1>4 DEF EatFood, BodyInv, BodyTypes
  <2>2. QED  BY <1>2, <2>1 DEF CalmInv, AtRest
<1>5. CASE EatSaturation
  <2>1. meal'.at = "limit food" /\ meal'.seen = Levels'  BY <1>5 DEF EatSaturation, BodyInv, BodyTypes
  <2>2. meal'.seen.food = food'  BY ONLY <2>1, LevelsTaken
  <2>3. QED  BY <1>2, <2>1, <2>2 DEF CalmInv, AtRest
<1>6. CASE LimitFood
  <2>1. /\ meal'.at = "limit saturation" /\ meal'.seen = Levels'
        /\ food' = IF food > MaxFood THEN MaxFood ELSE food
    <3>1. meal.at = "limit food"  BY <1>6 DEF LimitFood
    <3>2. meal.seen.food = food  BY <3>1 DEF CalmInv
    <3>3. QED  BY <1>6, <3>2 DEF LimitFood, BodyInv, BodyTypes
  <2>2. food' <= MaxFood
    <3>1. food \in Int /\ MaxFood \in Nat  BY <1>1
    <3>2. food' = IF food > MaxFood THEN MaxFood ELSE food  BY <2>1
    <3>3. QED  BY <3>1, <3>2
  <2>3. meal'.seen.food = food' /\ meal'.seen.saturation = saturation'  BY ONLY <2>1, LevelsTaken
  <2>4. QED  BY <1>2, <2>1, <2>2, <2>3 DEF CalmInv, AtRest
<1>7. CASE LimitSaturation
  <2>1. /\ meal.at = "limit saturation" /\ meal' = NoMeal /\ food' = food
        /\ food <= MaxFood /\ meal.seen.food = food /\ meal.seen.saturation = saturation
    BY <1>7 DEF LimitSaturation, CalmInv
  <2>2. saturation' = IF saturation > Parts * food THEN Parts * food ELSE saturation
    BY <1>7, <2>1 DEF LimitSaturation
  <2>3. saturation' <= Parts * food'
    <3> DEFINE top == Parts * food
    <3>1. top \in Int /\ Parts * food' = top /\ saturation' = IF saturation > top THEN top ELSE saturation
      BY <1>1, <2>1, <2>2
    <3> HIDE DEF top
    <3>2. QED  BY <1>1, <3>1
  <2>4. meal'.at = "none" /\ ticking'.at # "pay"  BY <1>2, <2>1 DEF NoMeal
  <2>5. QED  BY <2>1, <2>3, <2>4 DEF CalmInv, AtRest
<1>8. QED  BY <1>3, <1>4, <1>5, <1>6, <1>7 DEF EatStep

\* A tick in peace: it pays with the levels it has loaded, and with food only
\* once the saturation is used up.
LEMMA TickCalm ==
    ASSUME BodyInv, BodyInv', CalmInv, ~Overlap, TickStep
    PROVE  CalmInv'
<1>1. /\ food \in FoodRange /\ saturation \in Int /\ MaxFood \in Nat /\ Parts \in Nat \ {0} /\ meal' = meal
  BY BodyConstants DEF BodyInv, BodyTypes, TickStep, FoodTick, Starve, Regenerate, Pay, CountTick
<1>2. CASE ticking'.at # "pay" /\ UNCHANGED <<food, saturation>>
  BY <1>1, <1>2 DEF CalmInv, AtRest
<1>3. CASE FoodTick  BY <1>2, <1>3 DEF FoodTick, body
<1>4. CASE Starve  BY <1>2, <1>4 DEF Starve
<1>5. CASE Regenerate
  <2>1. ticking'.seen = Levels' /\ UNCHANGED <<food, saturation>>  BY <1>5 DEF Regenerate
  <2>2. ticking'.seen.food = food' /\ ticking'.seen.saturation = saturation'  BY <2>1 DEF Levels
  <2>3. QED  BY <1>1, <2>1, <2>2 DEF CalmInv, AtRest
<1>6. CASE Pay
  <2>1. /\ meal.at = "none" /\ ticking'.at = "count"
        /\ ticking.seen.food = food /\ ticking.seen.saturation = saturation
        /\ food <= MaxFood /\ saturation <= Parts * food
    BY <1>6 DEF Pay, Overlap, CalmInv, AtRest
  <2>2. \/ food' = food /\ saturation' \in {saturation, saturation - Parts}
        \/ food > 0 /\ food' = food - 1 /\ saturation <= 0 /\ saturation' = saturation
    BY <1>1, <1>6, <2>1 DEF Pay
  <2>3. food' <= MaxFood /\ saturation' <= Parts * food'
    <3>1. CASE food' = food /\ saturation' \in {saturation, saturation - Parts}
      <4>1. Parts * food \in Int  BY <1>1 DEF FoodRange
      <4>2. QED  BY <1>1, <2>1, <3>1, <4>1
    <3>2. CASE food > 0 /\ food' = food - 1 /\ saturation <= 0 /\ saturation' = saturation
      <4>1. food - 1 \in Nat  BY <1>1, <3>2 DEF FoodRange
      <4>2. Parts * (food - 1) \in Nat  BY <1>1, <4>1
      <4>3. QED  BY <1>1, <2>1, <3>2, <4>1, <4>2 DEF FoodRange
    <3>3. QED  BY <2>2, <3>1, <3>2
  <2>4. QED  BY <1>1, <2>1, <2>3 DEF CalmInv, AtRest
<1>7. CASE CountTick  BY <1>2, <1>7 DEF CountTick, NoTick
<1>8. QED  BY <1>3, <1>4, <1>5, <1>6, <1>7 DEF TickStep

\* As long as no payment overlaps with a meal, no step disturbs the levels at rest.
LEMMA CalmStep ==
    BodyInv /\ BodyInv' /\ CalmInv /\ ~Overlap /\ ~Overlap' /\ [SurvivalNext]_survivalVars => CalmInv'
<1> SUFFICES ASSUME BodyInv, BodyInv', CalmInv, ~Overlap, ~Overlap', [SurvivalNext]_survivalVars PROVE CalmInv'
  OBVIOUS
<1>1. CASE Eat \/ EatStep  BY <1>1, EatCalm
<1>2. CASE TickStep  BY <1>2, TickCalm
<1>3. CASE \/ OnClickContainer \/ OnSetHeldItem \/ OnSetCreativeModeSlot \/ StartDigging \/ FinishDigging
           \/ HandAction \/ OnUseItemOn \/ OnAttack \/ Attacked \/ SetGamemode \/ UNCHANGED survivalVars
  <2>1. UNCHANGED <<food, saturation, meal, ticking>>  BY <1>3, OthersLeaveFood
  <2>2. QED  BY <2>1 DEF CalmInv, AtRest
<1>4. QED  BY <1>1, <1>2, <1>3 DEF SurvivalNext

\* In every run of a player's handlers and ticks, in two threads and without a
\* lock, food and health keep their bounds; and as long as no payment for
\* exhaustion overlaps with a meal, food and saturation end each meal in their
\* range (_eat(), _foodTick(), LivingEntity::attack()).
THEOREM BodyInRange == SurvivalSpec => LevelsStayInRange
<1>1. SurvivalInit => BodyInv /\ CalmInv  BY InitBody
<1>2. BodyInv /\ [SurvivalNext]_survivalVars => BodyInv'  BY BodyStep
<1>3. BodyInv /\ BodyInv' /\ CalmInv /\ ~Overlap /\ ~Overlap' /\ [SurvivalNext]_survivalVars => CalmInv'
  BY CalmStep
<1>4. BodyInv => InBounds  BY DEF BodyInv, BodyTypes, FoodRange, HealthInv, InBounds
<1>5. CalmInv => AtRest  BY DEF CalmInv
<1>6. QED  BY <1>1, <1>2, <1>3, <1>4, <1>5, PTL DEF SurvivalSpec, LevelsStayInRange

-----------------------------------------------------------------------------
(* Items: sums over the slots                                              *)

\* A number in range is its own rest.
LEMMA SmallModulus ==
    ASSUME NEW m \in Nat \ {0}, NEW x \in Int, 0 <= x, x < m
    PROVE  x % m = x
  OBVIOUS

\* A rest is in range.
LEMMA ModulusType ==
    ASSUME NEW m \in Nat \ {0}, NEW x \in Int
    PROVE  x % m \in 0 .. m - 1
  OBVIOUS

\* int8_t keeps what fits.
LEMMA Int8Keeps ==
    ASSUME NEW n \in Int, -(2 * MaxStack) <= n, n < 2 * MaxStack
    PROVE  Int8(n) = n
<1>1. MaxStack \in Nat \ {0}  BY InventoryAssumption
<1>2. (n + 2 * MaxStack) % (4 * MaxStack) = n + 2 * MaxStack
  BY <1>1, SmallModulus
<1>3. QED  BY <1>1, <1>2 DEF Int8

\* int8_t is a number.
LEMMA Int8Type ==
    ASSUME NEW n \in Int
    PROVE  Int8(n) \in Int
<1>1. MaxStack \in Nat \ {0}  BY InventoryAssumption
<1> DEFINE m == 4 * MaxStack
           x == n + 2 * MaxStack
<1>2. m \in Nat \ {0} /\ x \in Int  BY <1>1
<1>3. x % m \in Int
  <2> HIDE DEF m, x
  <2>1. QED  BY <1>2
<1>4. QED  BY <1>1, <1>3 DEF Int8

\* The sum of a function is the end of a loop that adds one summand after the other.
LEMMA SumLoop ==
    ASSUME NEW n \in Nat, NEW f \in [0 .. n - 1 -> Int]
    PROVE  \E sum \in [0 .. n -> Int] :
             /\ sum[0] = 0 /\ \A k \in 1 .. n : sum[k] = sum[k - 1] + f[k - 1]
             /\ SumOf(f, n) = sum[n]
<1> DEFINE X == Int
           g == [p \in (1 .. n) \X X |-> p[2] + f[p[1] - 1]]
           F == CHOOSE sum : sum = [k \in 0 .. n |-> IF k = 0 THEN 0 ELSE sum[k - 1] + f[k - 1]]
<1>1. g \in [(1 .. n) \X X -> X]
  OBVIOUS
<1>2. PICK s \in [0 .. n -> X] : IsLoop(s, n, 0, g)
  <2>1. 0 \in X  OBVIOUS
  <2> HIDE DEF g, X
  <2> QED BY <1>1, <2>1, LoopExists
<1>3. \A k \in 1 .. n : g[<<k, s[k - 1]>>] = s[k - 1] + f[k - 1]
  OBVIOUS
<1>4. s = [k \in 0 .. n |-> IF k = 0 THEN 0 ELSE s[k - 1] + f[k - 1]]
  <2>1. s[0] = 0  BY <1>2 DEF IsLoop
  <2>2. ASSUME NEW k \in 1 .. n  PROVE s[k] = s[k - 1] + f[k - 1]
    <3> HIDE DEF g, X
    <3> QED  BY <1>2, <1>3 DEF IsLoop
  <2> HIDE DEF X, g
  <2> QED BY <2>1, <2>2
<1>5. F = [k \in 0 .. n |-> IF k = 0 THEN 0 ELSE F[k - 1] + f[k - 1]]
  BY <1>4
<1>6. SumOf(f, n) = F[n]
  BY DEF SumOf
<1> HIDE DEF F
<1>7. F \in [0 .. n -> Int]
  <2> DEFINE S == {k \in 0 .. n : F[k] \in Int}
  <2>1. 0 \in S  BY <1>5
  <2>2. ASSUME NEW k \in 1 .. n, k - 1 \in S  PROVE k \in S  BY <1>5, <2>2
  <2>3. \A k \in 0 .. n : k \in S
    <3> HIDE DEF S
    <3> QED BY <2>1, <2>2, BoundedInduction
  <2> QED BY <2>3, <1>5
<1>8. F[0] = 0 /\ \A k \in 1 .. n : F[k] = F[k - 1] + f[k - 1]
  BY <1>5
<1> QED BY <1>6, <1>7, <1>8

\* A sum of numbers is a number.
LEMMA SumType ==
    ASSUME NEW n \in Nat, NEW f \in [0 .. n - 1 -> Int]
    PROVE  SumOf(f, n) \in Int
  BY SumLoop

\* A sum changes by what one summand changes.
LEMMA SumChange ==
    ASSUME NEW n \in Nat, NEW f \in [0 .. n - 1 -> Int], NEW h \in [0 .. n - 1 -> Int],
           NEW j \in 0 .. n - 1, \A i \in 0 .. n - 1 : i # j => h[i] = f[i]
    PROVE  SumOf(h, n) = SumOf(f, n) + h[j] - f[j]
<1>1. PICK F \in [0 .. n -> Int] :
             /\ F[0] = 0 /\ \A k \in 1 .. n : F[k] = F[k - 1] + f[k - 1]
             /\ SumOf(f, n) = F[n]
  BY SumLoop
<1>2. PICK H \in [0 .. n -> Int] :
             /\ H[0] = 0 /\ \A k \in 1 .. n : H[k] = H[k - 1] + h[k - 1]
             /\ SumOf(h, n) = H[n]
  BY SumLoop
<1> DEFINE S == {k \in 0 .. n : H[k] = F[k] + (IF k > j THEN h[j] - f[j] ELSE 0)}
<1>3. 0 \in S  BY <1>1, <1>2
<1>4. ASSUME NEW k \in 1 .. n, k - 1 \in S  PROVE k \in S
  <2>1. H[k] = H[k - 1] + h[k - 1] /\ F[k] = F[k - 1] + f[k - 1]  BY <1>1, <1>2
  <2>2. H[k - 1] = F[k - 1] + (IF k - 1 > j THEN h[j] - f[j] ELSE 0)  BY <1>4
  <2>3. k - 1 \in 0 .. n - 1 /\ (k - 1 # j => h[k - 1] = f[k - 1])  OBVIOUS
  <2>4. h[k - 1] \in Int /\ f[k - 1] \in Int /\ h[j] \in Int /\ f[j] \in Int /\ F[k - 1] \in Int /\ H[k - 1] \in Int
    OBVIOUS
  <2>5. CASE k - 1 = j
    <3>1. ~(k - 1 > j) /\ k > j  BY <2>5
    <3>2. H[k - 1] = F[k - 1]  BY <2>2, <3>1
    <3>3. QED  BY <2>1, <2>4, <2>5, <3>1, <3>2
  <2>6. CASE k - 1 # j
    <3>1. k > j <=> k - 1 > j  BY <2>6
    <3>2. h[k - 1] = f[k - 1]  BY <2>3, <2>6
    <3>3. CASE k > j
      <4>1. H[k - 1] = F[k - 1] + (h[j] - f[j])  BY <2>2, <3>1, <3>3
      <4>2. H[k] = (F[k - 1] + (h[j] - f[j])) + f[k - 1]  BY <2>1, <3>2, <4>1, Zenon
      <4>3. H[k] = F[k] + (h[j] - f[j])  BY <2>1, <2>4, <4>2
      <4>4. QED  BY <3>3, <4>3
    <3>4. CASE ~(k > j)
      <4>1. H[k - 1] = F[k - 1]  BY <2>2, <2>4, <3>1, <3>4
      <4>2. H[k] = F[k]  BY <2>1, <3>2, <4>1, Zenon
      <4>3. F[k] \in Int  OBVIOUS
      <4>4. QED  BY <3>4, <4>2, <4>3
    <3>5. QED  BY <3>3, <3>4
  <2>7. QED  BY <2>5, <2>6
<1>5. n \in S
  <2>1. \A k \in 0 .. n : k \in S
    <3> HIDE DEF S
    <3>1. QED  BY <1>3, <1>4, BoundedInduction
  <2>2. QED  BY <2>1
<1>6. QED  BY <1>1, <1>2, <1>5

-----------------------------------------------------------------------------

\* Every slot is a slot, and what was dropped is counted.
InventoryOK ==
    /\ slots \in [Slots -> Slot] /\ cursor \in Slot
    /\ dropped \in [Items -> Int]

\* The slots are numbered from zero.
LEMMA SlotsFacts ==
    /\ NumSlots \in Nat /\ Slots = 0 .. NumSlots - 1
    /\ Hotbar \subseteq Slots /\ Main \subseteq Slots /\ Offhand \in Slots
    /\ None \in Slot /\ MaxStack \in Nat \ {0} /\ 0 \notin Items
<1>1. NumSlots \in Nat
  BY InventoryAssumption, FS_CardinalityType DEF NumSlots
<1>2. QED  BY <1>1, InventoryAssumption DEF Slots, None, Slot

\* How much a slot holds of an item is a number.
LEMMA CountType ==
    ASSUME NEW s \in Slot, NEW id
    PROVE  Count(s, id) \in Int
  BY DEF Slot, Count

\* So is how much all of them hold.
LEMMA InSlotsType ==
    ASSUME NEW of \in [Slots -> Slot], NEW id
    PROVE  InSlots(of, id) \in Int
<1>1. [i \in Slots |-> Count(of[i], id)] \in [0 .. NumSlots - 1 -> Int]
  BY SlotsFacts, CountType
<1>2. QED  BY <1>1, SlotsFacts, SumType DEF InSlots

\* What is in the slots changes by what one slot changes.
LEMMA SlotChange ==
    ASSUME NEW of \in [Slots -> Slot], NEW of1 \in [Slots -> Slot], NEW j \in Slots,
           \A i \in Slots : i # j => of1[i] = of[i], NEW id
    PROVE  InSlots(of1, id) = InSlots(of, id) + Count(of1[j], id) - Count(of[j], id)
<1> DEFINE f == [i \in Slots |-> Count(of[i], id)]
           h == [i \in Slots |-> Count(of1[i], id)]
<1>2. f \in [0 .. NumSlots - 1 -> Int] /\ h \in [0 .. NumSlots - 1 -> Int]
  BY SlotsFacts, CountType
<1>3. /\ \A i \in 0 .. NumSlots - 1 : i # j => h[i] = f[i]
      /\ h[j] = Count(of1[j], id) /\ f[j] = Count(of[j], id)
  BY SlotsFacts
<1>4. SumOf(h, NumSlots) = SumOf(f, NumSlots) + h[j] - f[j]
  <2>1. j \in 0 .. NumSlots - 1 /\ NumSlots \in Nat  BY SlotsFacts
  <2> HIDE DEF f, h
  <2>2. QED  BY <1>2, <1>3, <2>1, SumChange
<1>5. QED  BY <1>3, <1>4 DEF InSlots

\* The same for two slots.
LEMMA TwoSlotsChange ==
    ASSUME NEW of \in [Slots -> Slot], NEW of2 \in [Slots -> Slot],
           NEW i \in Slots, NEW j \in Slots, i # j,
           \A k \in Slots : k # i /\ k # j => of2[k] = of[k], NEW id
    PROVE  InSlots(of2, id) = InSlots(of, id) + Count(of2[i], id) - Count(of[i], id)
                                              + Count(of2[j], id) - Count(of[j], id)
<1> DEFINE of1 == [of EXCEPT ![i] = of2[i]]
<1>1. /\ of1 \in [Slots -> Slot] /\ of1[i] = of2[i] /\ of1[j] = of[j]
      /\ \A k \in Slots : k # i => of1[k] = of[k]
      /\ \A k \in Slots : k # j => of2[k] = of1[k]
  OBVIOUS
<1> HIDE DEF of1
<1>2. InSlots(of1, id) = InSlots(of, id) + Count(of1[i], id) - Count(of[i], id)
  BY <1>1, SlotChange
<1>3. InSlots(of2, id) = InSlots(of1, id) + Count(of2[j], id) - Count(of1[j], id)
  BY <1>1, SlotChange
<1>4. QED  BY <1>1, <1>2, <1>3, InSlotsType, CountType

-----------------------------------------------------------------------------

\* Two slots hold together what two others held.
SamePair(a, b, c, d) == \A id \in Items : Count(c, id) + Count(d, id) = Count(a, id) + Count(b, id)

\* What a slot in order looks like.
LEMMA WellFormedSlot ==
    ASSUME NEW s \in Slot, WellFormed(s)
    PROVE  /\ s.count \in 0 .. MaxStack
           /\ s.present => s.id \in Items /\ s.id # 0 /\ s.count >= 1
           /\ ~s.present => s = None
           /\ s.present <=> s.id # 0
<1>1. CASE s = None  BY <1>1, SlotsFacts DEF None
<1>2. CASE s # None
  <2>1. s.present /\ s.id \in Items /\ s.count \in 1 .. MaxStack  BY <1>2 DEF WellFormed
  <2>2. QED  BY <2>1, SlotsFacts
<1>3. QED  BY <1>1, <1>2

\* Slot::swap() keeps slots slots, and loses nothing.
LEMMA SwapSlots ==
    ASSUME NEW a \in Slot, NEW b \in Slot
    PROVE  Swap(a, b)[1] \in Slot /\ Swap(a, b)[2] \in Slot
<1> DEFINE rest == a.count + b.count - MaxStack
           sum == a.count + b.count
<1>1. a.count \in Int /\ b.count \in Int /\ MaxStack \in Int  BY SlotsFacts DEF Slot
<1>2. Int8(rest) \in Int /\ Int8(sum) \in Int  BY <1>1, Int8Type
<1>3. CASE a.id # b.id \/ a.id = 0
  <2>1. Swap(a, b) = <<b, a>>  BY <1>3 DEF Swap
  <2>2. QED  BY <2>1
<1>4. CASE ~(a.id # b.id \/ a.id = 0) /\ rest > 0
  <2>1. Swap(a, b) = <<[a EXCEPT !.count = MaxStack], [b EXCEPT !.count = Int8(rest)]>>  BY <1>4 DEF Swap
  <2>2. [a EXCEPT !.count = MaxStack] \in Slot  BY <1>1 DEF Slot
  <2>3. [b EXCEPT !.count = Int8(rest)] \in Slot  BY <1>2 DEF Slot
  <2>4. QED  BY <2>1, <2>2, <2>3
<1>5. CASE ~(a.id # b.id \/ a.id = 0) /\ ~(rest > 0)
  <2>1. Swap(a, b) = <<[a EXCEPT !.count = Int8(sum)], None>>  BY <1>5 DEF Swap
  <2>2. [a EXCEPT !.count = Int8(sum)] \in Slot  BY <1>2 DEF Slot
  <2>3. QED  BY <2>1, <2>2, SlotsFacts
<1>6. QED  BY <1>3, <1>4, <1>5

\* Slot::swap() of slots in order moves items from one to the other.
LEMMA SwapConserves ==
    ASSUME NEW a \in Slot, NEW b \in Slot, WellFormed(a), WellFormed(b)
    PROVE  SamePair(a, b, Swap(a, b)[1], Swap(a, b)[2])
<1> DEFINE rest == a.count + b.count - MaxStack
<1>1. /\ a.count \in 0 .. MaxStack /\ b.count \in 0 .. MaxStack /\ MaxStack \in Nat \ {0}
      /\ rest \in Int /\ 0 \notin Items
  BY WellFormedSlot, SlotsFacts
<1>2. CASE a.id # b.id \/ a.id = 0
  <2>1. Swap(a, b) = <<b, a>>  BY <1>2 DEF Swap
  <2>2. QED  BY <2>1, CountType DEF SamePair
<1>3. CASE a.id = b.id /\ a.id # 0 /\ rest > 0
  <2>1. Swap(a, b) = <<[a EXCEPT !.count = MaxStack], [b EXCEPT !.count = Int8(rest)]>>
    BY <1>3 DEF Swap
  <2>2. Int8(rest) = rest  BY <1>1, <1>3, Int8Keeps
  <2>3. QED  BY <1>1, <1>3, <2>1, <2>2 DEF SamePair, Count, Slot
<1>4. CASE a.id = b.id /\ a.id # 0 /\ ~(rest > 0)
  <2>1. Swap(a, b) = <<[a EXCEPT !.count = Int8(a.count + b.count)], None>>
    BY <1>4 DEF Swap, Slot
  <2>2. Int8(a.count + b.count) = a.count + b.count  BY <1>1, <1>4, Int8Keeps
  <2>3. QED  BY <1>1, <1>4, <2>1, <2>2 DEF SamePair, Count, Slot, None
<1>5. QED  BY <1>2, <1>3, <1>4

\* Slot::swap() with a count keeps slots slots.
LEMMA SwapCountSlots ==
    ASSUME NEW a \in Slot, NEW b \in Slot, NEW x \in Int
    PROVE  SwapCount(a, b, x)[1] \in Slot /\ SwapCount(a, b, x)[2] \in Slot
<1>1. CASE (a.present /\ b.present /\ a.id # b.id) \/ a.count <= x
  BY <1>1, SwapSlots DEF SwapCount
<1>2. CASE ~((a.present /\ b.present /\ a.id # b.id) \/ a.count <= x)
  <2> DEFINE n == Int8(b.count + x)
             over == IF n > MaxStack THEN n - MaxStack ELSE 0
  <2>1. SwapCount(a, b, x) = <<[a EXCEPT !.count = Int8(Int8(a.count - x) + over)], Stack(a.id, n - over)>>
    BY <1>2 DEF SwapCount, Slot
  <2>2. n \in Int /\ over \in Int
    <3>1. b.count + x \in Int /\ MaxStack \in Int  BY SlotsFacts DEF Slot
    <3>2. n \in Int  BY <3>1, Int8Type
    <3> HIDE DEF n
    <3>3. QED  BY <3>1, <3>2
  <2>3. Int8(Int8(a.count - x) + over) \in Int
    <3> HIDE DEF over
    <3>1. Int8(a.count - x) \in Int  BY Int8Type DEF Slot
    <3>2. QED  BY <3>1, <2>2, Int8Type
  <2> HIDE DEF n, over
  <2>4. QED  BY <2>1, <2>2, <2>3 DEF Slot, Stack
<1>3. QED  BY <1>1, <1>2

\* Slot::swap() with a count moves items from one slot to the other; what does not fit comes back.
LEMMA SwapCountConserves ==
    ASSUME NEW a \in Slot, NEW b \in Slot, WellFormed(a), WellFormed(b), NEW x \in 0 .. MaxStack
    PROVE  SamePair(a, b, SwapCount(a, b, x)[1], SwapCount(a, b, x)[2])
<1>1. CASE (a.present /\ b.present /\ a.id # b.id) \/ a.count <= x
  BY <1>1, SwapConserves DEF SwapCount
<1>2. CASE ~((a.present /\ b.present /\ a.id # b.id) \/ a.count <= x)
  <2> DEFINE n == Int8(b.count + x)
             over == IF n > MaxStack THEN n - MaxStack ELSE 0
  <2>1. SwapCount(a, b, x) = <<[a EXCEPT !.count = Int8(Int8(a.count - x) + over)], Stack(a.id, n - over)>>
    BY <1>2 DEF SwapCount, Slot
  <2>2. /\ a.count \in 0 .. MaxStack /\ b.count \in 0 .. MaxStack /\ MaxStack \in Nat \ {0}
        /\ a.count > x /\ 0 \notin Items
        /\ a.id = b.id \/ (b.count = 0 /\ b.id = 0)
        /\ a.id # 0
    BY <1>2, WellFormedSlot, SlotsFacts DEF None
  <2>3. n \in Int /\ (b.count + x < 2 * MaxStack => n = b.count + x)
    BY <2>2, Int8Keeps, Int8Type
  <2>4. b.count + x < 2 * MaxStack  BY <2>2
  <2>5. Int8(a.count - x) = a.count - x /\ a.count - x \in Int  BY <2>2, Int8Keeps
  <2>6. over \in Int /\ over >= 0 /\ over <= x  BY <2>2, <2>3, <2>4
  <2>7. Int8((a.count - x) + over) = (a.count - x) + over
    <3> HIDE DEF over
    <3>1. QED  BY <2>2, <2>5, <2>6, Int8Keeps
  <2>8. ASSUME NEW id \in Items
        PROVE  /\ Count([a EXCEPT !.count = (a.count - x) + over], id) = (IF a.id = id THEN a.count - x + over ELSE 0)
               /\ Count(Stack(a.id, n - over), id) = (IF a.id = id THEN b.count + x - over ELSE 0)
               /\ Count(a, id) = (IF a.id = id THEN a.count ELSE 0)
               /\ Count(b, id) = (IF a.id = id THEN b.count ELSE 0)
    <3>1. n = b.count + x  BY <2>3, <2>4
    <3> HIDE DEF over, n
    <3> DEFINE a1 == [a EXCEPT !.count = (a.count - x) + over]
               b1 == Stack(a.id, n - over)
    <3>2. a1.id = a.id /\ a1.count = (a.count - x) + over /\ b1.id = a.id /\ b1.count = n - over
      BY DEF Slot, Stack
    <3>3. QED
      <4> HIDE DEF a1, b1
      <4>1. Count(a1, id) = (IF a.id = id THEN a.count - x + over ELSE 0)  BY <3>2 DEF Count
      <4>2. Count(b1, id) = (IF a.id = id THEN b.count + x - over ELSE 0)  BY <3>1, <3>2, <2>2, <2>6 DEF Count
      <4>3. Count(b, id) = (IF a.id = id THEN b.count ELSE 0)  BY <2>2 DEF Count
      <4>4. QED  BY <4>1, <4>2, <4>3 DEF Count, a1, b1
  <2> HIDE DEF n, over
  <2>9. QED  BY <2>1, <2>2, <2>5, <2>6, <2>7, <2>8 DEF SamePair
<1>3. QED  BY <1>1, <1>2

\* One item less.
LEMMA TakeOneSlot ==
    ASSUME NEW s \in Slot
    PROVE  TakeOne(s) \in Slot
  BY Int8Type, SlotsFacts DEF TakeOne, Slot

\* A slot in order then has one item less.
LEMMA TakeOneTakesOne ==
    ASSUME NEW s \in Slot, WellFormed(s), s.present, NEW id \in Items
    PROVE  Count(TakeOne(s), id) = Count(s, id) - Count(Stack(s.id, 1), id)
<1>1. s.count \in 1 .. MaxStack /\ s.id # 0 /\ MaxStack \in Nat \ {0} /\ id # 0
  BY WellFormedSlot, SlotsFacts
<1>2. Int8(s.count - 1) = s.count - 1  BY <1>1, Int8Keeps
<1>3. QED  BY <1>1, <1>2 DEF TakeOne, Count, Stack, None, Slot

-----------------------------------------------------------------------------

\* What is dropped is counted.
LEMMA Dropping ==
    ASSUME dropped \in [Items -> Int], NEW s \in Slot, DropItem(s)
    PROVE  /\ dropped' \in [Items -> Int]
           /\ \A id \in Items : dropped'[id] = dropped[id] + Count(s, id)
<1>1. s.count \in Int  BY DEF Slot
<1>2. CASE s.id \in Items  BY <1>1, <1>2 DEF DropItem, Count
<1>3. CASE s.id \notin Items  BY <1>1, <1>3 DEF DropItem, Count
<1>4. QED  BY <1>2, <1>3

\* The empty slot holds nothing.
LEMMA NoneCounts == \A id \in Items : Count(None, id) = 0
  BY SlotsFacts DEF Count, None

\* A part of a slot is a slot.
LEMMA StackSlots ==
    ASSUME NEW s \in Slot, NEW n \in Int
    PROVE  Stack(s.id, n) \in Slot
  BY DEF Stack, Slot

\* What leaves the slots and the cursor is dropped.
LEMMA BalanceKept ==
    ASSUME InventoryOK, InventoryOK', NEW i \in Slots, NEW id \in Items,
           \A k \in Slots : k # i => slots'[k] = slots[k],
           Count(slots'[i], id) + Count(cursor', id) + dropped'[id]
             = Count(slots[i], id) + Count(cursor, id) + dropped[id]
    PROVE  Balance(id)' = Balance(id)
<1>1. /\ slots \in [Slots -> Slot] /\ slots' \in [Slots -> Slot] /\ cursor \in Slot /\ cursor' \in Slot
      /\ dropped[id] \in Int /\ dropped'[id] \in Int
  BY DEF InventoryOK
<1>2. InSlots(slots', id) = InSlots(slots, id) + Count(slots'[i], id) - Count(slots[i], id)
  BY <1>1, SlotChange
<1>3. /\ InSlots(slots, id) \in Int /\ Count(slots'[i], id) \in Int /\ Count(slots[i], id) \in Int
      /\ Count(cursor, id) \in Int /\ Count(cursor', id) \in Int
  BY <1>1, InSlotsType, CountType
<1>4. Balance(id)' = InSlots(slots', id) + Count(cursor', id) + dropped'[id]
  BY DEF Balance
<1>5. QED  BY <1>1, <1>2, <1>3, <1>4 DEF Balance

\* Two slots change, and nothing else.
LEMMA BalanceOfTwo ==
    ASSUME InventoryOK, InventoryOK', NEW i \in Slots, NEW j \in Slots, i # j,
           \A k \in Slots : k # i /\ k # j => slots'[k] = slots[k],
           SamePair(slots[i], slots[j], slots'[i], slots'[j]),
           UNCHANGED <<cursor, dropped>>
    PROVE  \A id \in Items : Balance(id)' = Balance(id)
<1> TAKE id \in Items
<1>1. /\ slots \in [Slots -> Slot] /\ slots' \in [Slots -> Slot]
  BY DEF InventoryOK
<1>2. InSlots(slots', id) = InSlots(slots, id) + Count(slots'[i], id) - Count(slots[i], id)
                                               + Count(slots'[j], id) - Count(slots[j], id)
  BY <1>1, TwoSlotsChange
<1>3. /\ InSlots(slots, id) \in Int /\ Count(slots'[i], id) \in Int /\ Count(slots[i], id) \in Int
      /\ Count(slots'[j], id) \in Int /\ Count(slots[j], id) \in Int
  BY <1>1, InSlotsType, CountType
<1>4. Count(slots'[i], id) + Count(slots'[j], id) = Count(slots[i], id) + Count(slots[j], id)
  BY DEF SamePair
<1>5. InSlots(slots', id) = InSlots(slots, id)  BY <1>2, <1>3, <1>4
<1>6. Balance(id)' = InSlots(slots', id) + Count(cursor, id) + dropped[id]
  BY DEF Balance
<1>7. QED  BY <1>5, <1>6 DEF Balance

-----------------------------------------------------------------------------

\* A click outside of the window drops what leaves the cursor.
LEMMA ClickOutsideConserves ==
    ASSUME InventoryOK, InventoryOK', SlotsInOrder, NEW b, ClickOutside(b)
    PROVE  \A id \in Items : Balance(id)' = Balance(id)
<1> TAKE id \in Items
<1>1. /\ cursor \in Slot /\ dropped \in [Items -> Int] /\ WellFormed(cursor) /\ cursor.present
      /\ UNCHANGED slots /\ dropped[id] \in Int /\ Count(cursor, id) \in Int
  BY CountType DEF InventoryOK, SlotsInOrder, ClickOutside
<1>2. Count(cursor', id) + dropped'[id] = Count(cursor, id) + dropped[id]
  <2>1. CASE b = 0
    <3>1. DropItem(cursor) /\ cursor' = None  BY <2>1 DEF ClickOutside
    <3>2. dropped'[id] = dropped[id] + Count(cursor, id)  BY <1>1, <3>1, Dropping
    <3>3. QED  BY <1>1, <3>1, <3>2, NoneCounts
  <2>2. CASE b # 0
    <3>1. DropItem(Stack(cursor.id, 1)) /\ cursor' = TakeOne(cursor)  BY <2>2 DEF ClickOutside
    <3>2. Stack(cursor.id, 1) \in Slot  BY <1>1, StackSlots
    <3>3. dropped'[id] = dropped[id] + Count(Stack(cursor.id, 1), id)  BY <1>1, <3>1, <3>2, Dropping
    <3>4. Count(cursor', id) = Count(cursor, id) - Count(Stack(cursor.id, 1), id)
      BY <1>1, <3>1, TakeOneTakesOne
    <3>5. QED  BY <1>1, <3>2, <3>3, <3>4, CountType
  <2>3. QED  BY <2>1, <2>2
<1>3. PICK i \in Slots : TRUE  BY SlotsFacts
<1>4. Count(slots[i], id) \in Int /\ Count(cursor', id) \in Int /\ dropped'[id] \in Int
  BY CountType DEF InventoryOK
<1>5. Count(slots'[i], id) + Count(cursor', id) + dropped'[id]
        = Count(slots[i], id) + Count(cursor, id) + dropped[id]
  BY <1>1, <1>2, <1>4
<1>6. QED  BY <1>1, <1>5, BalanceKept

\* Half of a stack.
LEMMA HalfOfStack ==
    ASSUME NEW n \in 0 .. MaxStack
    PROVE  Half(n) \in 0 .. MaxStack
  BY SlotsFacts DEF Half

\* A click on a slot moves items between the slot and the cursor.
LEMMA ClickConserves ==
    ASSUME InventoryOK, InventoryOK', SlotsInOrder, NEW i \in Slots, NEW b, Click(i, b)
    PROVE  \A id \in Items : Balance(id)' = Balance(id)
<1> TAKE id \in Items
<1>1. /\ cursor \in Slot /\ slots[i] \in Slot /\ slots \in [Slots -> Slot]
      /\ WellFormed(cursor) /\ WellFormed(slots[i])
      /\ dropped' = dropped /\ dropped[id] \in Int
  BY DEF InventoryOK, SlotsInOrder, Click
<1> DEFINE r == CASE b = 0 -> Swap(slots[i], cursor)
                  [] b # 0 /\ ~cursor.present -> SwapCount(slots[i], cursor, Half(slots[i].count))
                  [] OTHER -> LET s == SwapCount(cursor, slots[i], 1) IN <<s[2], s[1]>>
<1>2. slots' = [slots EXCEPT ![i] = r[1]] /\ cursor' = r[2]  BY DEF Click
<1>3. SamePair(slots[i], cursor, r[1], r[2])
  <2>1. CASE b = 0
    <3>1. r = Swap(slots[i], cursor)  BY <2>1
    <3>2. QED  BY <3>1, <1>1, SwapConserves
  <2>2. CASE b # 0 /\ ~cursor.present
    <3>1. r = SwapCount(slots[i], cursor, Half(slots[i].count))  BY <2>2
    <3>2. Half(slots[i].count) \in 0 .. MaxStack  BY <1>1, WellFormedSlot, HalfOfStack
    <3>3. QED  BY <3>1, <3>2, <1>1, SwapCountConserves
  <2>3. CASE b # 0 /\ cursor.present
    <3> DEFINE s == SwapCount(cursor, slots[i], 1)
    <3>1. r = <<s[2], s[1]>>  BY <2>3
    <3>2. SamePair(cursor, slots[i], s[1], s[2])
      <4>1. 1 \in 0 .. MaxStack  BY SlotsFacts
      <4>2. QED  BY <4>1, <1>1, SwapCountConserves
    <3>3. s[1] \in Slot /\ s[2] \in Slot  BY <1>1, SwapCountSlots
    <3> HIDE DEF s, r
    <3>4. r[1] = s[2] /\ r[2] = s[1]  BY <3>1
    <3>5. QED  BY <3>2, <3>3, <3>4, <1>1, CountType DEF SamePair
  <2>4. QED  BY <2>1, <2>2, <2>3
<1> HIDE DEF r
<1>4. slots'[i] = r[1] /\ \A k \in Slots : k # i => slots'[k] = slots[k]  BY <1>1, <1>2
<1>5. Count(slots'[i], id) + Count(cursor', id) = Count(slots[i], id) + Count(cursor, id)
  BY <1>2, <1>3, <1>4 DEF SamePair
<1>6. Count(slots'[i], id) \in Int /\ Count(cursor', id) \in Int /\ Count(slots[i], id) \in Int /\ Count(cursor, id) \in Int
  BY <1>1, CountType DEF InventoryOK
<1>7. QED  BY <1>1, <1>4, <1>5, <1>6, BalanceKept

\* An item or a whole slot is dropped: DropButton, and the hand's drops.
LEMMA DropFromSlot ==
    ASSUME InventoryOK, InventoryOK', SlotsInOrder, NEW i \in Slots, cursor' = cursor,
           \/ DropItem(slots[i]) /\ slots' = [slots EXCEPT ![i] = None]
           \/ slots[i].present /\ DropItem(Stack(slots[i].id, 1)) /\ slots' = [slots EXCEPT ![i] = TakeOne(@)]
    PROVE  \A id \in Items : Balance(id)' = Balance(id)
<1> TAKE id \in Items
<1>1. /\ cursor \in Slot /\ slots[i] \in Slot /\ slots \in [Slots -> Slot] /\ WellFormed(slots[i])
      /\ dropped \in [Items -> Int] /\ dropped[id] \in Int
  BY DEF InventoryOK, SlotsInOrder
<1>2. \A k \in Slots : k # i => slots'[k] = slots[k]  BY <1>1
<1>3. Count(slots[i], id) \in Int /\ Count(cursor, id) \in Int  BY <1>1, CountType
<1>4. Count(slots'[i], id) + dropped'[id] = Count(slots[i], id) + dropped[id]
  <2>1. CASE DropItem(slots[i]) /\ slots' = [slots EXCEPT ![i] = None]
    <3>1. dropped'[id] = dropped[id] + Count(slots[i], id)  BY <1>1, <2>1, Dropping
    <3>2. slots'[i] = None  BY <1>1, <2>1
    <3>3. QED  BY <1>1, <1>3, <3>1, <3>2, NoneCounts
  <2>2. CASE slots[i].present /\ DropItem(Stack(slots[i].id, 1)) /\ slots' = [slots EXCEPT ![i] = TakeOne(@)]
    <3>1. Stack(slots[i].id, 1) \in Slot  BY <1>1, StackSlots
    <3>2. dropped'[id] = dropped[id] + Count(Stack(slots[i].id, 1), id)  BY <1>1, <2>2, <3>1, Dropping
    <3>3. slots'[i] = TakeOne(slots[i])  BY <1>1, <2>2
    <3>4. Count(slots'[i], id) = Count(slots[i], id) - Count(Stack(slots[i].id, 1), id)
      BY <1>1, <2>2, <3>3, TakeOneTakesOne
    <3>5. QED  BY <1>1, <1>3, <3>1, <3>2, <3>4, CountType
  <2>3. QED  BY <2>1, <2>2
<1>5. Count(slots'[i], id) \in Int /\ dropped'[id] \in Int  BY CountType DEF InventoryOK
<1>6. Count(slots'[i], id) + Count(cursor', id) + dropped'[id]
        = Count(slots[i], id) + Count(cursor, id) + dropped[id]
  BY <1>1, <1>3, <1>4, <1>5
<1>7. QED  BY <1>2, <1>6, BalanceKept

\* The drop button drops what leaves the slot.
LEMMA DropButtonConserves ==
    ASSUME InventoryOK, InventoryOK', SlotsInOrder, NEW i \in Slots, NEW b, DropButton(i, b)
    PROVE  \A id \in Items : Balance(id)' = Balance(id)
<1>1. /\ cursor' = cursor /\ slots[i].present
      /\ IF b = 0
         THEN DropItem(Stack(slots[i].id, 1)) /\ slots' = [slots EXCEPT ![i] = TakeOne(@)]
         ELSE DropItem(slots[i]) /\ slots' = [slots EXCEPT ![i] = None]
  BY DEF DropButton
<1>2. QED  BY <1>1, DropFromSlot

\* A key exchanges two slots, or a slot and the cursor.
LEMMA KeysConserves ==
    ASSUME InventoryOK, InventoryOK', NEW i \in Places, NEW j \in Slots, Keys(i, j)
    PROVE  \A id \in Items : Balance(id)' = Balance(id)
<1>1. slots \in [Slots -> Slot] /\ cursor \in Slot /\ dropped' = dropped  BY DEF InventoryOK, Keys
<1>2. CASE i \in Slots /\ slots' = [slots EXCEPT ![i] = slots[j], ![j] = slots[i]] /\ cursor' = cursor
  <2>1. CASE i = j
    <3>1. slots' = slots  BY <1>1, <1>2, <2>1
    <3>2. QED  BY <1>1, <1>2, <3>1 DEF Balance
  <2>2. CASE i # j
    <3>1. slots'[i] = slots[j] /\ slots'[j] = slots[i] /\ \A k \in Slots : k # i /\ k # j => slots'[k] = slots[k]
      BY <1>1, <1>2, <2>2
    <3>2. SamePair(slots[i], slots[j], slots'[i], slots'[j])
      BY <1>1, <1>2, <3>1, CountType DEF SamePair
    <3>3. QED  BY <1>1, <1>2, <2>2, <3>1, <3>2, BalanceOfTwo
  <2>3. QED  BY <2>1, <2>2
<1>3. CASE slots' = [slots EXCEPT ![j] = cursor] /\ cursor' = slots[j]
  <2> TAKE id \in Items
  <2>1. slots'[j] = cursor /\ \A k \in Slots : k # j => slots'[k] = slots[k]  BY <1>1, <1>3
  <2>2. Count(cursor, id) \in Int /\ Count(slots[j], id) \in Int /\ dropped[id] \in Int
    BY <1>1, CountType DEF InventoryOK
  <2>3. Count(slots'[j], id) + Count(cursor', id) + dropped'[id]
          = Count(slots[j], id) + Count(cursor, id) + dropped[id]
    BY <1>1, <1>3, <2>1, <2>2
  <2>4. QED  BY <2>1, <2>3, BalanceKept
<1>4. QED  BY <1>2, <1>3 DEF Keys

\* Closing the window drops the cursor.
LEMMA CloseConserves ==
    ASSUME InventoryOK, InventoryOK', SlotsInOrder, Close
    PROVE  \A id \in Items : Balance(id)' = Balance(id)
<1>1. ClickOutside(0)  BY DEF Close, ClickOutside
<1>2. QED  BY <1>1, ClickOutsideConserves

\* Dropping from the hand drops what leaves it.
LEMMA DropHeldConserves ==
    ASSUME InventoryOK, InventoryOK', SlotsInOrder, Holds, DropHeld
    PROVE  \A id \in Items : Balance(id)' = Balance(id)
<1>1. heldItem \in Slots  BY SlotsFacts DEF Holds
<1>2. QED  BY <1>1, DropFromSlot DEF DropHeld, Held

\* Swapping the hands moves items between them.
LEMMA SwapHandsConserves ==
    ASSUME InventoryOK, InventoryOK', SlotsInOrder, Holds, SwapHands
    PROVE  \A id \in Items : Balance(id)' = Balance(id)
<1> DEFINE r == Swap(slots[Offhand], slots[heldItem])
<1>1. /\ heldItem \in Slots /\ Offhand \in Slots /\ Offhand # heldItem
      /\ slots \in [Slots -> Slot] /\ WellFormed(slots[Offhand]) /\ WellFormed(slots[heldItem])
      /\ UNCHANGED <<cursor, dropped>>
      /\ slots' = [slots EXCEPT ![Offhand] = r[1], ![heldItem] = r[2]]
  BY SlotsFacts, InventoryAssumption DEF InventoryOK, SlotsInOrder, Holds, SwapHands, Held
<1>2. SamePair(slots[Offhand], slots[heldItem], r[1], r[2])
  BY <1>1, SwapConserves
<1> HIDE DEF r
<1>3. slots'[Offhand] = r[1] /\ slots'[heldItem] = r[2]
      /\ \A k \in Slots : k # Offhand /\ k # heldItem => slots'[k] = slots[k]
  BY <1>1
<1>4. SamePair(slots[Offhand], slots[heldItem], slots'[Offhand], slots'[heldItem])
  BY <1>2, <1>3
<1>5. QED  BY <1>1, <1>3, <1>4, BalanceOfTwo

-----------------------------------------------------------------------------

\* The states of the loop of a double click.
CollectStates == [slots : [Slots -> Slot], cursor : Slot]

\* Collecting a slot keeps slots slots.
LEMMA CollectType ==
    ASSUME NEW a \in Slot, NEW s \in Slot
    PROVE  Collect(a, s)[1] \in Slot /\ Collect(a, s)[2] \in Slot
<1> DEFINE n == Int8(a.count + s.count)
<1>1. n \in Int /\ MaxStack \in Int /\ None \in Slot
  BY Int8Type, SlotsFacts DEF Slot
<1>2. Collect(a, s) \in {<<a, s>>, <<[a EXCEPT !.count = MaxStack], [s EXCEPT !.count = n - MaxStack]>>,
                         <<[a EXCEPT !.count = n], None>>}
  BY DEF Collect
<1> HIDE DEF n
<1>3. QED  BY <1>1, <1>2 DEF Slot

\* A round of the loop of a double click keeps its state one.
LEMMA CollectSlotType ==
    ASSUME NEW x \in CollectStates, NEW j \in Slots
    PROVE  CollectSlot(x, j) \in CollectStates
<1>1. x.slots \in [Slots -> Slot] /\ x.cursor \in Slot /\ x.slots[j] \in Slot  BY DEF CollectStates
<1> DEFINE r == Collect(x.cursor, x.slots[j])
<1>2. r[1] \in Slot /\ r[2] \in Slot  BY <1>1, CollectType
<1>3. CollectSlot(x, j) = [slots |-> [x.slots EXCEPT ![j] = r[2]], cursor |-> r[1]]  BY DEF CollectSlot
<1> HIDE DEF r
<1>4. QED  BY <1>1, <1>2, <1>3 DEF CollectStates

\* The loop of a double click.
LEMMA DoubleClickLoop ==
    ASSUME InventoryOK, NEW i, DoubleClick(i)
    PROVE  \E F \in [0 .. NumSlots -> CollectStates] :
              /\ F[0] = [slots |-> slots, cursor |-> cursor]
              /\ \A k \in 1 .. NumSlots : F[k] = CollectSlot(F[k - 1], k - 1)
              /\ slots' = F[NumSlots].slots /\ cursor' = F[NumSlots].cursor
<1> DEFINE n == NumSlots
           X == CollectStates
           x0 == [slots |-> slots, cursor |-> cursor]
           g == [p \in (1 .. n) \X X |-> CollectSlot(p[2], p[1] - 1)]
           F == CHOOSE after : after = [k \in 0 .. n |-> IF k = 0 THEN x0 ELSE CollectSlot(after[k - 1], k - 1)]
<1>0. n \in Nat /\ \A k \in 1 .. n : k - 1 \in Slots  BY SlotsFacts
<1>1. g \in [(1 .. n) \X X -> X] /\ x0 \in X
  <2>1. \A p \in (1 .. n) \X X : CollectSlot(p[2], p[1] - 1) \in X
    BY <1>0, CollectSlotType
  <2>2. x0 \in X  BY DEF InventoryOK, CollectStates
  <2>3. QED  BY <2>1, <2>2
<1>2. PICK s \in [0 .. n -> X] : IsLoop(s, n, x0, g)
  <2> HIDE DEF g, X, x0, n
  <2> QED BY <1>0, <1>1, LoopExists
<1>3. s = [k \in 0 .. n |-> IF k = 0 THEN x0 ELSE CollectSlot(s[k - 1], k - 1)]
  <2>1. s[0] = x0  BY <1>2 DEF IsLoop
  <2>2. ASSUME NEW k \in 1 .. n  PROVE s[k] = CollectSlot(s[k - 1], k - 1)
    <3>1. s[k] = g[<<k, s[k - 1]>>]  BY <1>2 DEF IsLoop
    <3>2. <<k, s[k - 1]>> \in (1 .. n) \X X  BY <1>0
    <3>3. QED  BY <3>1, <3>2
  <2> HIDE DEF X, g, x0, n
  <2> QED BY <1>0, <2>1, <2>2
<1>4. F = [k \in 0 .. n |-> IF k = 0 THEN x0 ELSE CollectSlot(F[k - 1], k - 1)]
  BY <1>3
<1>5. slots' = F[n].slots /\ cursor' = F[n].cursor
  BY DEF DoubleClick
<1>6. F[0] = x0 /\ \A k \in 1 .. n : F[k] = CollectSlot(F[k - 1], k - 1)
  <2> HIDE DEF F, x0
  <2>1. QED  BY <1>0, <1>4
<1>7. F \in [0 .. n -> X]
  <2> DEFINE S == {k \in 0 .. n : F[k] \in X}
  <2>1. 0 \in S  BY <1>0, <1>1, <1>6
  <2>2. ASSUME NEW k \in 1 .. n, k - 1 \in S  PROVE k \in S
    <3> HIDE DEF F
    <3>1. QED  BY <1>0, <1>6, <2>2, CollectSlotType
  <2>3. \A k \in 0 .. n : k \in S
    <3> HIDE DEF S, F, n
    <3> QED BY <1>0, <2>1, <2>2, BoundedInduction
  <2> HIDE DEF F, x0
  <2> QED BY <2>3, <1>4
<1> HIDE DEF F
<1>8. QED  BY <1>5, <1>6, <1>7

\* One slot that is not full is collected into the stack of the cursor.
LEMMA CollectConserves ==
    ASSUME NEW a \in Slot, NEW s \in Slot, WellFormed(a), WellFormed(s), a.present, s.count < MaxStack
    PROVE  /\ WellFormed(Collect(a, s)[1]) /\ Collect(a, s)[1].present
           /\ SamePair(a, s, Collect(a, s)[1], Collect(a, s)[2])
<1> DEFINE n == Int8(a.count + s.count)
           r == Collect(a, s)
<1>1. /\ a.count \in 1 .. MaxStack /\ s.count \in 0 .. MaxStack /\ MaxStack \in Nat \ {0}
      /\ a.id \in Items /\ 0 \notin Items /\ a.present = TRUE
  BY WellFormedSlot, SlotsFacts DEF Slot
<1>2. n = a.count + s.count  BY <1>1, Int8Keeps
<1>3. CASE ~SameItem(a, s)
  <2>1. r = <<a, s>>  BY <1>3 DEF Collect
  <2>2. QED  BY <2>1 DEF SamePair
<1>4. CASE SameItem(a, s) /\ n > MaxStack
  <2> DEFINE c == [a EXCEPT !.count = MaxStack]
             d == [s EXCEPT !.count = n - MaxStack]
  <2>1. r = <<c, d>>  BY <1>4 DEF Collect
  <2>2. s.id = a.id  BY <1>4 DEF SameItem
  <2>3. /\ c.present /\ c.id = a.id /\ c.count = MaxStack
        /\ d.id = a.id /\ d.count = a.count + s.count - MaxStack
    BY <1>1, <1>2, <2>2 DEF Slot
  <2> HIDE DEF c, d, n
  <2>4. WellFormed(c)  BY <1>1, <2>3 DEF WellFormed
  <2>5. SamePair(a, s, c, d)  BY <1>1, <2>2, <2>3 DEF SamePair, Count
  <2>6. QED  BY <2>1, <2>3, <2>4, <2>5
<1>5. CASE SameItem(a, s) /\ ~(n > MaxStack)
  <2> DEFINE c == [a EXCEPT !.count = n]
  <2>1. r = <<c, None>>  BY <1>5 DEF Collect
  <2>2. s.id = a.id  BY <1>5 DEF SameItem
  <2>3. c.present /\ c.id = a.id /\ c.count = a.count + s.count /\ a.count + s.count <= MaxStack
    BY <1>1, <1>2, <1>5, <2>2 DEF Slot
  <2> HIDE DEF c, n
  <2>4. WellFormed(c)  BY <1>1, <2>3 DEF WellFormed
  <2>5. SamePair(a, s, c, None)
    <3>1. \A id \in Items : Count(None, id) = 0  BY NoneCounts
    <3>2. QED  BY <1>1, <2>2, <2>3, <3>1 DEF SamePair, Count
  <2>6. QED  BY <2>1, <2>3, <2>4, <2>5
<1>6. QED  BY <1>3, <1>4, <1>5

\* What the slots and the cursor of a double click hold.
InCollect(x, id) == InSlots(x.slots, id) + Count(x.cursor, id)

\* A round of the loop of a double click moves items from the slot to the cursor.
LEMMA CollectSlotConserves ==
    ASSUME NEW x \in CollectStates, NEW j \in Slots,
           WellFormed(x.cursor), x.cursor.present, WellFormed(x.slots[j]), x.slots[j].count < MaxStack
    PROVE  /\ WellFormed(CollectSlot(x, j).cursor) /\ CollectSlot(x, j).cursor.present
           /\ \A i \in Slots : i # j => CollectSlot(x, j).slots[i] = x.slots[i]
           /\ \A id \in Items : InCollect(CollectSlot(x, j), id) = InCollect(x, id)
<1> DEFINE r == Collect(x.cursor, x.slots[j])
           y == CollectSlot(x, j)
<1>1. x.slots \in [Slots -> Slot] /\ x.cursor \in Slot /\ x.slots[j] \in Slot  BY DEF CollectStates
<1>2. y.slots = [x.slots EXCEPT ![j] = r[2]] /\ y.cursor = r[1]  BY DEF CollectSlot
<1>3. WellFormed(r[1]) /\ r[1].present /\ SamePair(x.cursor, x.slots[j], r[1], r[2])
  BY <1>1, CollectConserves
<1>4. y.slots \in [Slots -> Slot] /\ y.cursor \in Slot
  BY CollectSlotType DEF CollectStates
<1> HIDE DEF r, y
<1>5. y.slots[j] = r[2] /\ \A i \in Slots : i # j => y.slots[i] = x.slots[i]  BY <1>1, <1>2
<1>6. ASSUME NEW id \in Items  PROVE InCollect(y, id) = InCollect(x, id)
  <2>1. InSlots(y.slots, id) = InSlots(x.slots, id) + Count(y.slots[j], id) - Count(x.slots[j], id)
    BY <1>1, <1>4, <1>5, SlotChange
  <2>2. Count(y.cursor, id) + Count(y.slots[j], id) = Count(x.cursor, id) + Count(x.slots[j], id)
    BY <1>2, <1>3, <1>5 DEF SamePair
  <2>3. /\ InSlots(x.slots, id) \in Int /\ Count(y.cursor, id) \in Int /\ Count(x.cursor, id) \in Int
        /\ Count(y.slots[j], id) \in Int /\ Count(x.slots[j], id) \in Int
    BY <1>1, <1>4, InSlotsType, CountType
  <2>4. QED  BY <2>1, <2>2, <2>3 DEF InCollect
<1>7. QED  BY <1>2, <1>3, <1>5, <1>6 DEF y

\* A double click only moves items to the cursor, while no stack is full.
LEMMA DoubleClickConserves ==
    ASSUME InventoryOK, SlotsInOrder, NEW i \in Slots, DoubleClick(i),
           \A j \in Slots : slots[j].count < MaxStack
    PROVE  \A id \in Items : Balance(id)' = Balance(id)
<1>1. PICK F \in [0 .. NumSlots -> CollectStates] :
              /\ F[0] = [slots |-> slots, cursor |-> cursor]
              /\ \A k \in 1 .. NumSlots : F[k] = CollectSlot(F[k - 1], k - 1)
              /\ slots' = F[NumSlots].slots /\ cursor' = F[NumSlots].cursor
  BY DoubleClickLoop
<1>2. NumSlots \in Nat /\ Slots = 0 .. NumSlots - 1  BY SlotsFacts
<1>3. WellFormed(cursor) /\ cursor.present /\ \A j \in Slots : WellFormed(slots[j]) /\ dropped' = dropped
  BY DEF SlotsInOrder, DoubleClick
<1> DEFINE Good(k) == /\ WellFormed(F[k].cursor) /\ F[k].cursor.present
                      /\ \A j \in Slots : j >= k => F[k].slots[j] = slots[j]
                      /\ \A id \in Items : InCollect(F[k], id) = InCollect(F[0], id)
           S == {k \in 0 .. NumSlots : Good(k)}
<1>4. 0 \in S  BY <1>1, <1>2, <1>3
<1>5. ASSUME NEW k \in 1 .. NumSlots, k - 1 \in S  PROVE k \in S
  <2>1. F[k] = CollectSlot(F[k - 1], k - 1) /\ F[k - 1] \in CollectStates  BY <1>1, <1>2
  <2>2. k - 1 \in Slots /\ Good(k - 1)  BY <1>2, <1>5
  <2>3. F[k - 1].slots[k - 1] = slots[k - 1]  BY <1>2, <2>2
  <2>4. /\ WellFormed(F[k].cursor) /\ F[k].cursor.present
        /\ \A j \in Slots : j # k - 1 => F[k].slots[j] = F[k - 1].slots[j]
        /\ \A id \in Items : InCollect(F[k], id) = InCollect(F[k - 1], id)
    BY <1>3, <2>1, <2>2, <2>3, CollectSlotConserves
  <2>5. \A j \in Slots : j >= k => F[k].slots[j] = slots[j]
    BY <1>2, <2>2, <2>4
  <2>6. QED  BY <2>2, <2>4, <2>5
<1>6. NumSlots \in S
  <2>1. \A k \in 0 .. NumSlots : k \in S
    <3> HIDE DEF S
    <3>1. QED  BY <1>2, <1>4, <1>5, BoundedInduction
  <2>2. QED  BY <1>2, <2>1
<1>7. ASSUME NEW id \in Items  PROVE Balance(id)' = Balance(id)
  <2>1. InCollect(F[NumSlots], id) = InCollect(F[0], id)  BY <1>6
  <2>2. InSlots(slots', id) + Count(cursor', id) = InSlots(slots, id) + Count(cursor, id)
    BY <1>1, <2>1 DEF InCollect
  <2>3. Balance(id)' = InSlots(slots', id) + Count(cursor', id) + dropped[id]
    BY <1>3 DEF Balance
  <2>4. QED  BY <2>2, <2>3 DEF Balance
<1>8. QED  BY <1>7

-----------------------------------------------------------------------------

\* The states of the loop of swapContainer().
StackStates == [slots : [Slots -> Slot], item : Slot, done : BOOLEAN]

\* What stacking the item onto slot j of a container does, case by case.
LEMMA StackSlotCases ==
    ASSUME NEW x \in StackStates, NEW j \in Slots, NEW container
    PROVE  LET c == x.slots[j]
               s == x.item
               n == Int8(c.count + s.count)
               y == StackSlot(x, container, j)
           IN  /\ n \in Int /\ y \in StackStates
               /\ \/ y = x
                  \/ /\ j \in container /\ SameItem(c, s) /\ n <= MaxStack
                     /\ y.slots[j] = [c EXCEPT !.count = n] /\ y.item = None
                     /\ \A k \in Slots : k # j => y.slots[k] = x.slots[k]
                  \/ /\ j \in container /\ SameItem(c, s) /\ n > MaxStack
                     /\ y.slots[j] = [c EXCEPT !.count = MaxStack] /\ y.item = [s EXCEPT !.count = n - MaxStack]
                     /\ \A k \in Slots : k # j => y.slots[k] = x.slots[k]
<1> DEFINE c == x.slots[j]
           s == x.item
           n == Int8(c.count + s.count)
           takes == ~x.done /\ j \in container /\ SameItem(c, s)
           y == StackSlot(x, container, j)
<1>1. x.slots \in [Slots -> Slot] /\ c \in Slot /\ s \in Slot /\ x.done \in BOOLEAN  BY DEF StackStates
<1>2. n \in Int /\ MaxStack \in Nat \ {0} /\ None \in Slot
  <2>1. c.count + s.count \in Int  BY <1>1 DEF Slot
  <2> HIDE DEF c, s
  <2>2. QED  BY <2>1, Int8Type, SlotsFacts
<1>3. CASE ~takes
  <2>1. y = x  BY <1>3 DEF StackSlot
  <2>2. QED  BY <1>2, <2>1
<1>4. CASE takes /\ n <= MaxStack
  <2>1. y = [slots |-> [x.slots EXCEPT ![j].count = n], item |-> None, done |-> TRUE]
    <3>1. ~(n > MaxStack)  BY <1>2, <1>4
    <3>2. QED  BY <1>4, <3>1 DEF StackSlot
  <2>2. j \in container /\ SameItem(c, s)  BY <1>4
  <2> HIDE DEF n, takes
  <2>3. /\ y.slots[j] = [c EXCEPT !.count = n] /\ y.item = None
        /\ \A k \in Slots : k # j => y.slots[k] = x.slots[k]
    BY <1>1, <2>1
  <2>4. y \in StackStates
    <3>1. [c EXCEPT !.count = n] \in Slot  BY <1>1, <1>2 DEF Slot
    <3>2. y.slots \in [Slots -> Slot]  BY <1>1, <2>1, <3>1
    <3>3. QED  BY <1>2, <2>1, <3>2 DEF StackStates
  <2>5. QED  BY <1>2, <1>4, <2>2, <2>3, <2>4 DEF n
<1>5. CASE takes /\ n > MaxStack
  <2>1. y = [slots |-> [x.slots EXCEPT ![j].count = MaxStack],
             item |-> [s EXCEPT !.count = n - MaxStack], done |-> FALSE]
    <3>1. ~(n <= MaxStack)  BY <1>2, <1>5
    <3>2. QED  BY <1>5, <3>1 DEF StackSlot
  <2>2. j \in container /\ SameItem(c, s)  BY <1>5
  <2> HIDE DEF n, takes
  <2>3. /\ y.slots[j] = [c EXCEPT !.count = MaxStack] /\ y.item = [s EXCEPT !.count = n - MaxStack]
        /\ \A k \in Slots : k # j => y.slots[k] = x.slots[k]
    BY <1>1, <2>1
  <2>4. y \in StackStates
    <3>1. [c EXCEPT !.count = MaxStack] \in Slot /\ [s EXCEPT !.count = n - MaxStack] \in Slot
      BY <1>1, <1>2 DEF Slot
    <3>2. y.slots \in [Slots -> Slot]  BY <1>1, <2>1, <3>1
    <3>3. QED  BY <2>1, <3>1, <3>2 DEF StackStates
  <2>5. QED  BY <1>2, <1>5, <2>2, <2>3, <2>4 DEF n
<1>6. QED
  <2>1. takes => n <= MaxStack \/ n > MaxStack  BY <1>2
  <2>2. QED  BY <1>3, <1>4, <1>5, <2>1

\* A round of the loop of swapContainer() keeps its state one.
LEMMA StackSlotType ==
    ASSUME NEW x \in StackStates, NEW j \in Slots, NEW container
    PROVE  StackSlot(x, container, j) \in StackStates
<1> HIDE DEF StackStates
<1>1. QED  BY StackSlotCases

\* The loop of swapContainer().
LEMMA SwapContainerLoop ==
    ASSUME slots \in [Slots -> Slot], NEW item \in Slot, NEW container
    PROVE  \E F \in [0 .. NumSlots -> StackStates] :
              /\ F[0] = [slots |-> slots, item |-> item, done |-> FALSE]
              /\ \A k \in 1 .. NumSlots : F[k] = StackSlot(F[k - 1], container, k - 1)
              /\ LET last == F[NumSlots]
                     free == {j \in container : ~last.slots[j].present}
                 IN  SwapContainer(item, container) =
                       IF last.done \/ free = {} THEN [slots |-> last.slots, item |-> last.item]
                       ELSE [slots |-> [last.slots EXCEPT ![Min(free)] = last.item], item |-> None]
<1> DEFINE n == NumSlots
           X == StackStates
           x0 == [slots |-> slots, item |-> item, done |-> FALSE]
           g == [p \in (1 .. n) \X X |-> StackSlot(p[2], container, p[1] - 1)]
           F == CHOOSE stacked : stacked = [k \in 0 .. n |->
                   IF k = 0 THEN x0 ELSE StackSlot(stacked[k - 1], container, k - 1)]
<1>0. n \in Nat /\ \A k \in 1 .. n : k - 1 \in Slots  BY SlotsFacts
<1>1. g \in [(1 .. n) \X X -> X] /\ x0 \in X
  <2>1. \A p \in (1 .. n) \X X : StackSlot(p[2], container, p[1] - 1) \in X
    BY <1>0, StackSlotType
  <2>2. x0 \in X  BY DEF StackStates
  <2>3. QED  BY <2>1, <2>2
<1>2. PICK s \in [0 .. n -> X] : IsLoop(s, n, x0, g)
  <2> HIDE DEF g, X, x0, n
  <2> QED BY <1>0, <1>1, LoopExists
<1>3. s = [k \in 0 .. n |-> IF k = 0 THEN x0 ELSE StackSlot(s[k - 1], container, k - 1)]
  <2>1. s[0] = x0  BY <1>2 DEF IsLoop
  <2>2. ASSUME NEW k \in 1 .. n  PROVE s[k] = StackSlot(s[k - 1], container, k - 1)
    <3>1. s[k] = g[<<k, s[k - 1]>>]  BY <1>2 DEF IsLoop
    <3>2. <<k, s[k - 1]>> \in (1 .. n) \X X  BY <1>0
    <3>3. QED  BY <3>1, <3>2
  <2> HIDE DEF X, g, x0, n
  <2> QED BY <1>0, <2>1, <2>2
<1>4. F = [k \in 0 .. n |-> IF k = 0 THEN x0 ELSE StackSlot(F[k - 1], container, k - 1)]
  BY <1>3
<1>5. LET last == F[n]
          free == {j \in container : ~last.slots[j].present}
      IN  SwapContainer(item, container) =
            IF last.done \/ free = {} THEN [slots |-> last.slots, item |-> last.item]
            ELSE [slots |-> [last.slots EXCEPT ![Min(free)] = last.item], item |-> None]
  BY DEF SwapContainer
<1>6. F[0] = x0 /\ \A k \in 1 .. n : F[k] = StackSlot(F[k - 1], container, k - 1)
  <2> HIDE DEF F, x0
  <2>1. QED  BY <1>0, <1>4
<1>7. F \in [0 .. n -> X]
  <2> DEFINE S == {k \in 0 .. n : F[k] \in X}
  <2>1. 0 \in S  BY <1>0, <1>1, <1>6
  <2>2. ASSUME NEW k \in 1 .. n, k - 1 \in S  PROVE k \in S
    <3> HIDE DEF F
    <3>1. F[k] = StackSlot(F[k - 1], container, k - 1) /\ F[k - 1] \in X /\ k - 1 \in Slots
      BY <1>0, <1>6, <2>2
    <3>2. StackSlot(F[k - 1], container, k - 1) \in X  BY <3>1, StackSlotType
    <3>3. QED  BY <3>1, <3>2
  <2>3. \A k \in 0 .. n : k \in S
    <3> HIDE DEF S, F, n
    <3> QED BY <1>0, <2>1, <2>2, BoundedInduction
  <2> HIDE DEF F, x0
  <2> QED BY <2>3, <1>4
<1> HIDE DEF F
<1>8. QED  BY <1>5, <1>6, <1>7

\* Stacking onto a slot keeps what the slots hold, as long as neither is full.
LEMMA StackConserves ==
    ASSUME NEW c \in Slot, NEW s \in Slot, WellFormed(c), WellFormed(s),
           c.count < MaxStack, s.count < MaxStack, SameItem(c, s)
    PROVE  LET n == Int8(c.count + s.count)
           IN  /\ n <= MaxStack =>
                    /\ WellFormed([c EXCEPT !.count = n])
                    /\ SamePair(c, s, [c EXCEPT !.count = n], None)
               /\ n > MaxStack =>
                    /\ WellFormed([c EXCEPT !.count = MaxStack])
                    /\ WellFormed([s EXCEPT !.count = n - MaxStack])
                    /\ [s EXCEPT !.count = n - MaxStack].count < MaxStack
                    /\ SamePair(c, s, [c EXCEPT !.count = MaxStack], [s EXCEPT !.count = n - MaxStack])
<1> DEFINE n == Int8(c.count + s.count)
<1>1. /\ c.count \in 0 .. MaxStack /\ s.count \in 0 .. MaxStack /\ MaxStack \in Nat \ {0}
      /\ 0 \notin Items /\ c.present = s.present /\ c.id = s.id
      /\ c.present => c.id \in Items /\ c.count >= 1 /\ s.count >= 1
      /\ ~c.present => c = None /\ s = None
  BY WellFormedSlot, SlotsFacts DEF SameItem
<1>2. n = c.count + s.count  BY <1>1, Int8Keeps
<1> HIDE DEF n
<1>3. ASSUME NEW m \in Int
      PROVE  LET d == [c EXCEPT !.count = m]
                 e == [s EXCEPT !.count = m]
             IN  /\ d.present = c.present /\ d.id = c.id /\ d.count = m
                 /\ e.present = c.present /\ e.id = c.id /\ e.count = m
  BY <1>1 DEF Slot
<1>4. ASSUME n <= MaxStack
      PROVE  /\ WellFormed([c EXCEPT !.count = n])
             /\ SamePair(c, s, [c EXCEPT !.count = n], None)
  <2> DEFINE d == [c EXCEPT !.count = n]
  <2>1. d.present = c.present /\ d.id = c.id /\ d.count = n  BY <1>1, <1>2, <1>3
  <2>2. WellFormed(d)
    <3>1. CASE c.present
      <4> HIDE DEF d
      <4>1. QED  BY <1>1, <1>2, <1>4, <2>1, <3>1 DEF WellFormed
    <3>2. CASE ~c.present
      <4>1. n = 0 /\ c = None  BY <1>1, <1>2, <3>2 DEF None
      <4>2. d = None  BY <4>1 DEF None
      <4>3. QED  BY <4>2 DEF WellFormed
    <3>3. QED  BY <3>1, <3>2
  <2> HIDE DEF d
  <2>3. SamePair(c, s, d, None)
    <3>1. \A id \in Items : Count(None, id) = 0  BY NoneCounts
    <3>2. QED  BY <1>1, <1>2, <2>1, <3>1 DEF SamePair, Count
  <2>4. QED  BY <2>2, <2>3 DEF d
<1>5. ASSUME n > MaxStack
      PROVE  /\ WellFormed([c EXCEPT !.count = MaxStack])
             /\ WellFormed([s EXCEPT !.count = n - MaxStack])
             /\ [s EXCEPT !.count = n - MaxStack].count < MaxStack
             /\ SamePair(c, s, [c EXCEPT !.count = MaxStack], [s EXCEPT !.count = n - MaxStack])
  <2> DEFINE d == [c EXCEPT !.count = MaxStack]
             e == [s EXCEPT !.count = n - MaxStack]
  <2>1. /\ d.present = c.present /\ d.id = c.id /\ d.count = MaxStack
        /\ e.present = c.present /\ e.id = c.id /\ e.count = n - MaxStack
    BY <1>1, <1>2, <1>3
  <2>2. c.present
    <3>1. ASSUME ~c.present  PROVE FALSE
      <4>1. c.count = 0 /\ s.count = 0  BY <1>1, <3>1 DEF None
      <4>2. QED  BY <4>1, <1>1, <1>2, <1>5
    <3>2. QED  BY <3>1
  <2> HIDE DEF d, e
  <2>3. WellFormed(d) /\ WellFormed(e) /\ e.count < MaxStack
    BY <1>1, <1>2, <1>5, <2>1, <2>2 DEF WellFormed
  <2>4. SamePair(c, s, d, e)  BY <1>1, <1>2, <2>1 DEF SamePair, Count
  <2>5. QED  BY <2>3, <2>4 DEF d, e
<1>6. QED  BY <1>4, <1>5 DEF n

\* How much of an item there is in a state of the loop of swapContainer().
InStack(x, id) == InSlots(x.slots, id) + Count(x.item, id)

\* What swapContainer() keeps while it stacks the item onto a slot.
LEMMA StackSlotConserves ==
    ASSUME NEW x \in StackStates, NEW j \in Slots, NEW container,
           \A k \in Slots : WellFormed(x.slots[k]), WellFormed(x.item),
           x.item.count < MaxStack, x.slots[j].count < MaxStack
    PROVE  LET y == StackSlot(x, container, j)
           IN  /\ \A k \in Slots : WellFormed(y.slots[k])
               /\ WellFormed(y.item) /\ y.item.count < MaxStack
               /\ \A k \in Slots : k # j \/ k \notin container => y.slots[k] = x.slots[k]
               /\ \A id \in Items : InStack(y, id) = InStack(x, id)
<1> DEFINE c == x.slots[j]
           s == x.item
           n == Int8(c.count + s.count)
           y == StackSlot(x, container, j)
           kept == \A k \in Slots : k # j => y.slots[k] = x.slots[k]
<1>1. x.slots \in [Slots -> Slot] /\ c \in Slot /\ s \in Slot  BY DEF StackStates
<1>2. WellFormed(c) /\ WellFormed(s) /\ c.count < MaxStack /\ s.count < MaxStack  OBVIOUS
<1>3. y \in StackStates  BY StackSlotType
<1>4. \/ y = x
      \/ /\ j \in container /\ SameItem(c, s) /\ n <= MaxStack
         /\ y.slots[j] = [c EXCEPT !.count = n] /\ y.item = None /\ kept
      \/ /\ j \in container /\ SameItem(c, s) /\ n > MaxStack
         /\ y.slots[j] = [c EXCEPT !.count = MaxStack] /\ y.item = [s EXCEPT !.count = n - MaxStack] /\ kept
  BY StackSlotCases
<1>5. y.slots \in [Slots -> Slot] /\ y.item \in Slot  BY <1>3 DEF StackStates
<1>6. WellFormed(None) /\ None.count < MaxStack  BY SlotsFacts DEF None, WellFormed
<1> HIDE DEF y
<1>7. CASE y = x  BY <1>7 DEF y
<1>8. CASE y # x
  <2>1. /\ j \in container /\ kept /\ WellFormed(y.slots[j]) /\ WellFormed(y.item) /\ y.item.count < MaxStack
        /\ SamePair(c, s, y.slots[j], y.item)
    <3> HIDE DEF c, s, kept
    <3>1. CASE /\ j \in container /\ SameItem(c, s) /\ n <= MaxStack
               /\ y.slots[j] = [c EXCEPT !.count = n] /\ y.item = None /\ kept
      BY <1>1, <1>2, <1>6, <3>1, StackConserves
    <3>2. CASE /\ j \in container /\ SameItem(c, s) /\ n > MaxStack
               /\ y.slots[j] = [c EXCEPT !.count = MaxStack] /\ y.item = [s EXCEPT !.count = n - MaxStack] /\ kept
      <4>1. /\ WellFormed([c EXCEPT !.count = MaxStack]) /\ WellFormed([s EXCEPT !.count = n - MaxStack])
            /\ [s EXCEPT !.count = n - MaxStack].count < MaxStack
            /\ SamePair(c, s, [c EXCEPT !.count = MaxStack], [s EXCEPT !.count = n - MaxStack])
        BY <1>1, <1>2, <3>2, StackConserves
      <4>2. QED  BY <3>2, <4>1
    <3>3. QED  BY <1>4, <1>8, <3>1, <3>2
  <2>2. \A k \in Slots : WellFormed(y.slots[k])  BY <2>1
  <2>3. ASSUME NEW id \in Items  PROVE InStack(y, id) = InStack(x, id)
    <3>1. InSlots(y.slots, id) = InSlots(x.slots, id) + Count(y.slots[j], id) - Count(c, id)
      BY <1>1, <1>5, <2>1, SlotChange
    <3>2. Count(y.slots[j], id) + Count(y.item, id) = Count(c, id) + Count(s, id)
      BY <2>1 DEF SamePair
    <3>3. /\ InSlots(x.slots, id) \in Int /\ Count(y.item, id) \in Int /\ Count(s, id) \in Int
          /\ Count(y.slots[j], id) \in Int /\ Count(c, id) \in Int
      BY <1>1, <1>5, InSlotsType, CountType
    <3>4. InStack(x, id) = InSlots(x.slots, id) + Count(s, id)  BY DEF InStack
    <3> HIDE DEF c, s
    <3>5. QED  BY <3>1, <3>2, <3>3, <3>4 DEF InStack
  <2>4. \A k \in Slots : k # j \/ k \notin container => y.slots[k] = x.slots[k]  BY <2>1
  <2>5. QED  BY <2>1, <2>2, <2>3, <2>4 DEF y
<1>9. QED  BY <1>7, <1>8

\* The least slot of a set of slots.
LEMMA LeastSlot ==
    ASSUME NEW T, T \subseteq Slots, T # {}
    PROVE  Min(T) \in T
<1>1. T \subseteq Nat  BY SlotsFacts
<1>2. \E x \in T : \A y \in T : x <= y  BY <1>1, LeastNumber
<1>3. QED  BY <1>2 DEF Min

\* An item is moved to a free slot.
LEMMA MoveConserves ==
    ASSUME NEW of \in [Slots -> Slot], NEW item \in Slot, NEW f \in Slots, of[f] = None, NEW id \in Items
    PROVE  InSlots([of EXCEPT ![f] = item], id) = InSlots(of, id) + Count(item, id)
<1> DEFINE r == [of EXCEPT ![f] = item]
<1>1. /\ r \in [Slots -> Slot] /\ r[f] = item
      /\ \A k \in Slots : k # f => r[k] = of[k]
  OBVIOUS
<1> HIDE DEF r
<1>2. InSlots(r, id) = InSlots(of, id) + Count(r[f], id) - Count(of[f], id)
  BY <1>1, SlotChange
<1>3. Count(None, id) = 0  BY NoneCounts
<1>4. InSlots(of, id) \in Int /\ Count(item, id) \in Int
  BY InSlotsType, CountType
<1>5. QED  BY <1>1, <1>2, <1>3, <1>4 DEF r

\* swapContainer() only moves items between the slots and what it is given,
\* while no stack is full, and touches no slot outside of the container.
LEMMA SwapContainerConserves ==
    ASSUME slots \in [Slots -> Slot], NEW item \in Slot, NEW container, container \subseteq Slots,
           \A k \in Slots : WellFormed(slots[k]) /\ slots[k].count < MaxStack,
           WellFormed(item), item.count < MaxStack
    PROVE  LET r == SwapContainer(item, container)
           IN  /\ r.slots \in [Slots -> Slot] /\ r.item \in Slot
               /\ \A k \in Slots : k \notin container => r.slots[k] = slots[k]
               /\ \A id \in Items : InSlots(r.slots, id) + Count(r.item, id) = InSlots(slots, id) + Count(item, id)
<1>1. PICK F \in [0 .. NumSlots -> StackStates] :
              /\ F[0] = [slots |-> slots, item |-> item, done |-> FALSE]
              /\ \A k \in 1 .. NumSlots : F[k] = StackSlot(F[k - 1], container, k - 1)
              /\ LET last == F[NumSlots]
                     free == {j \in container : ~last.slots[j].present}
                 IN  SwapContainer(item, container) =
                       IF last.done \/ free = {} THEN [slots |-> last.slots, item |-> last.item]
                       ELSE [slots |-> [last.slots EXCEPT ![Min(free)] = last.item], item |-> None]
  BY SwapContainerLoop
<1>2. NumSlots \in Nat /\ Slots = 0 .. NumSlots - 1  BY SlotsFacts
<1> DEFINE Good(k) == /\ \A j \in Slots : WellFormed(F[k].slots[j])
                      /\ WellFormed(F[k].item) /\ F[k].item.count < MaxStack
                      /\ \A j \in Slots : j >= k \/ j \notin container => F[k].slots[j] = slots[j]
                      /\ \A id \in Items : InStack(F[k], id) = InStack(F[0], id)
           S == {k \in 0 .. NumSlots : Good(k)}
<1>3. 0 \in S
  <2>1. F[0].slots = slots /\ F[0].item = item  BY <1>1
  <2>2. Good(0)  BY <2>1
  <2>3. QED  BY <1>2, <2>2
<1>4. ASSUME NEW k \in 1 .. NumSlots, k - 1 \in S  PROVE k \in S
  <2>1. F[k] = StackSlot(F[k - 1], container, k - 1) /\ F[k - 1] \in StackStates  BY <1>1, <1>2
  <2>2. k - 1 \in Slots /\ Good(k - 1)  BY <1>2, <1>4
  <2>3. F[k - 1].slots[k - 1].count < MaxStack
    <3>1. F[k - 1].slots[k - 1] = slots[k - 1]  BY <1>2, <2>2
    <3>2. QED  BY <3>1, <2>2
  <2>4. /\ \A j \in Slots : WellFormed(F[k].slots[j])
        /\ WellFormed(F[k].item) /\ F[k].item.count < MaxStack
        /\ \A j \in Slots : j # k - 1 \/ j \notin container => F[k].slots[j] = F[k - 1].slots[j]
        /\ \A id \in Items : InStack(F[k], id) = InStack(F[k - 1], id)
    BY <2>1, <2>2, <2>3, StackSlotConserves
  <2>5. \A j \in Slots : j >= k \/ j \notin container => F[k].slots[j] = slots[j]
    BY <1>2, <2>2, <2>4
  <2>6. QED  BY <2>2, <2>4, <2>5
<1>5. Good(NumSlots)
  <2>1. \A k \in 0 .. NumSlots : k \in S
    <3> HIDE DEF S
    <3>1. QED  BY <1>2, <1>3, <1>4, BoundedInduction
  <2>2. QED  BY <1>2, <2>1
<1> DEFINE last == F[NumSlots]
           free == {j \in container : ~last.slots[j].present}
           r == SwapContainer(item, container)
<1>6. last.slots \in [Slots -> Slot] /\ last.item \in Slot  BY <1>2 DEF StackStates
<1>7. /\ \A k \in Slots : WellFormed(last.slots[k])
      /\ \A k \in Slots : k \notin container => last.slots[k] = slots[k]
  BY <1>5
<1>8. \A id \in Items : InSlots(last.slots, id) + Count(last.item, id) = InSlots(slots, id) + Count(item, id)
  <2>1. \A id \in Items : InStack(last, id) = InStack(F[0], id)  BY <1>5
  <2>2. F[0].slots = slots /\ F[0].item = item  BY <1>1
  <2> HIDE DEF last
  <2>3. QED  BY <2>1, <2>2 DEF InStack
<1>9. CASE last.done \/ free = {}
  <2>1. r = [slots |-> last.slots, item |-> last.item]  BY <1>1, <1>9
  <2>2. r.slots = last.slots /\ r.item = last.item  BY <2>1
  <2> HIDE DEF r, last
  <2>3. QED  BY <2>2, <1>6, <1>7, <1>8 DEF r
<1>10. CASE ~(last.done \/ free = {})
  <2>1. PICK f \in free : f = Min(free)  BY <1>10, LeastSlot
  <2>2. r = [slots |-> [last.slots EXCEPT ![f] = last.item], item |-> None]  BY <1>1, <1>10, <2>1
  <2>3. f \in container /\ f \in Slots /\ last.slots[f] = None
    <3>1. f \in container /\ ~last.slots[f].present  BY <2>1
    <3> HIDE DEF free, last
    <3>2. f \in Slots  BY <3>1
    <3>3. last.slots[f] \in Slot  BY <1>6, <3>2
    <3>4. WellFormed(last.slots[f])  BY <1>7, <3>2
    <3>5. QED  BY <3>1, <3>2, <3>3, <3>4, WellFormedSlot
  <2> HIDE DEF last, r, free
  <2>4. r.slots = [last.slots EXCEPT ![f] = last.item] /\ r.item = None  BY <2>2
  <2>5. r.slots \in [Slots -> Slot] /\ r.item \in Slot  BY <1>6, <2>4, SlotsFacts
  <2>6. \A k \in Slots : k \notin container => r.slots[k] = slots[k]  BY <1>6, <1>7, <2>3, <2>4
  <2>7. ASSUME NEW id \in Items
        PROVE  InSlots(r.slots, id) + Count(r.item, id) = InSlots(slots, id) + Count(item, id)
    <3>1. InSlots(r.slots, id) = InSlots(last.slots, id) + Count(last.item, id)
      BY <1>6, <2>3, <2>4, MoveConserves
    <3>2. Count(r.item, id) = 0  BY <2>4, NoneCounts
    <3>3. InSlots(last.slots, id) \in Int /\ Count(last.item, id) \in Int  BY <1>6, InSlotsType, CountType
    <3>4. QED  BY <1>8, <3>1, <3>2, <3>3
  <2>8. QED  BY <2>5, <2>6, <2>7 DEF r
<1>11. QED  BY <1>9, <1>10

\* A shift click only moves items between slots and the cursor, while no stack is full.
LEMMA ShiftClickConserves ==
    ASSUME InventoryOK, SlotsInOrder, NEW i \in Places, ShiftClick(i),
           \A j \in Slots : slots[j].count < MaxStack, cursor.count < MaxStack
    PROVE  \A id \in Items : Balance(id)' = Balance(id)
<1> DEFINE container == IF i \in Main THEN Hotbar ELSE Main
           item == At(i)
           r == SwapContainer(item, container)
<1>1. container \subseteq Slots /\ i \notin container /\ Carried \notin Slots
  BY SlotsFacts, InventoryAssumption DEF Places, Carried
<1>2. /\ dropped' = dropped
      /\ \/ i \in Slots /\ slots' = [r.slots EXCEPT ![i] = r.item] /\ cursor' = cursor
         \/ i = Carried /\ slots' = r.slots /\ cursor' = r.item
  BY DEF ShiftClick
<1>3. /\ slots \in [Slots -> Slot] /\ cursor \in Slot
      /\ \A k \in Slots : WellFormed(slots[k]) /\ slots[k].count < MaxStack
      /\ WellFormed(cursor)
  BY DEF InventoryOK, SlotsInOrder
<1>4. (i \in Slots => item = slots[i]) /\ (i = Carried => item = cursor)
  BY <1>1 DEF At
<1>5. item \in Slot /\ WellFormed(item) /\ item.count < MaxStack
  <2> HIDE DEF item
  <2>1. QED  BY <1>3, <1>4 DEF Places
<1> HIDE DEF container, item
<1>6. /\ r.slots \in [Slots -> Slot] /\ r.item \in Slot
      /\ \A k \in Slots : k \notin container => r.slots[k] = slots[k]
      /\ \A id \in Items : InSlots(r.slots, id) + Count(r.item, id) = InSlots(slots, id) + Count(item, id)
  BY <1>1, <1>3, <1>5, SwapContainerConserves
<1> HIDE DEF r
<1>7. ASSUME NEW id \in Items  PROVE Balance(id)' = Balance(id)
  <2>1. /\ InSlots(r.slots, id) \in Int /\ Count(r.item, id) \in Int /\ InSlots(slots, id) \in Int
        /\ Count(item, id) \in Int /\ Count(cursor, id) \in Int
    BY <1>3, <1>5, <1>6, InSlotsType, CountType
  <2>2. InSlots(r.slots, id) + Count(r.item, id) = InSlots(slots, id) + Count(item, id)  BY <1>6
  <2>3. Balance(id)' = InSlots(slots', id) + Count(cursor', id) + dropped[id]  BY <1>2 DEF Balance
  <2>4. CASE i \in Slots /\ slots' = [r.slots EXCEPT ![i] = r.item] /\ cursor' = cursor
    <3>1. slots' \in [Slots -> Slot] /\ slots'[i] = r.item /\ \A k \in Slots : k # i => slots'[k] = r.slots[k]
      BY <1>6, <2>4
    <3>2. InSlots(slots', id) = InSlots(r.slots, id) + Count(slots'[i], id) - Count(r.slots[i], id)
      BY <1>6, <2>4, <3>1, SlotChange
    <3>3. slots'[i] = r.item /\ r.slots[i] = item  BY <1>1, <1>4, <1>6, <2>4, <3>1
    <3>4. InSlots(slots', id) = InSlots(r.slots, id) + Count(r.item, id) - Count(item, id)  BY <3>2, <3>3
    <3>5. InSlots(slots', id) = InSlots(slots, id)  BY ONLY <2>1, <2>2, <3>4
    <3>6. QED  BY <2>3, <2>4, <3>5 DEF Balance
  <2>5. CASE i = Carried /\ slots' = r.slots /\ cursor' = r.item
    <3>1. InSlots(slots', id) + Count(cursor', id) = InSlots(slots, id) + Count(cursor, id)
      BY <1>4, <2>2, <2>5
    <3>2. QED  BY <2>3, <3>1 DEF Balance
  <2>6. QED  BY <1>2, <2>4, <2>5
<1>8. QED  BY <1>7

-----------------------------------------------------------------------------

\* The states of the loop at the end of a drag.
SpreadStates == [slots : [Slots -> Slot], cursor : Slot, each : Int, rest : Int]

\* A round of the loop at the end of a drag keeps its state one.
LEMMA SpreadOneType ==
    ASSUME NEW x \in SpreadStates, NEW i \in Places
    PROVE  SpreadOne(x, i) \in SpreadStates
<1> DEFINE s == IF i = Carried THEN x.cursor ELSE x.slots[i]
           n == Int8(s.count + x.each)
           takes == s.present /\ s.id = x.cursor.id /\ s.count < MaxStack
           new == CASE ~s.present -> [x.cursor EXCEPT !.count = Int8(x.each)]
                    [] takes -> [s EXCEPT !.count = IF n > MaxStack THEN MaxStack ELSE n]
                    [] OTHER -> s
           y == SpreadOne(x, i)
<1>1. /\ x.slots \in [Slots -> Slot] /\ x.cursor \in Slot /\ x.each \in Int /\ x.rest \in Int
  BY DEF SpreadStates
<1>2. y = [slots  |-> IF i = Carried THEN x.slots ELSE [x.slots EXCEPT ![i] = new],
           cursor |-> IF i = Carried THEN new ELSE x.cursor,
           each   |-> IF takes /\ n <= MaxStack THEN 0 ELSE x.each,
           rest   |-> IF takes /\ n > MaxStack THEN x.rest + n - MaxStack ELSE x.rest]
  BY DEF SpreadOne
<1>3. s \in Slot /\ MaxStack \in Int
  <2>1. i \in Slots \/ i = Carried  BY DEF Places
  <2>2. QED  BY <1>1, <2>1, SlotsFacts
<1>4. n \in Int /\ Int8(x.each) \in Int
  <2> HIDE DEF s
  <2>1. s.count \in Int  BY <1>3 DEF Slot
  <2>2. s.count + x.each \in Int  BY <1>1, <2>1
  <2>3. QED  BY <1>1, <2>2, Int8Type
<1>5. new \in Slot
  <2> HIDE DEF s, n
  <2>1. new \in {[x.cursor EXCEPT !.count = Int8(x.each)],
                 [s EXCEPT !.count = IF n > MaxStack THEN MaxStack ELSE n], s}
    BY DEF takes
  <2>2. [x.cursor EXCEPT !.count = Int8(x.each)] \in Slot  BY <1>1, <1>4 DEF Slot
  <2>3. [s EXCEPT !.count = IF n > MaxStack THEN MaxStack ELSE n] \in Slot  BY <1>3, <1>4 DEF Slot
  <2> HIDE DEF new
  <2>4. QED  BY <1>3, <2>1, <2>2, <2>3
<1> HIDE DEF s, n, takes, new, y
<1>6. /\ y.slots \in {x.slots, [x.slots EXCEPT ![i] = new]} /\ y.cursor \in {new, x.cursor}
      /\ y.each \in {0, x.each} /\ y.rest \in {x.rest + n - MaxStack, x.rest}
  BY <1>2
<1>7. y.slots \in [Slots -> Slot] /\ y.cursor \in Slot  BY <1>1, <1>5, <1>6
<1>8. y.each \in Int /\ y.rest \in Int  BY <1>1, <1>3, <1>4, <1>6
<1>9. y = [slots |-> y.slots, cursor |-> y.cursor, each |-> y.each, rest |-> y.rest]  BY <1>2
<1>10. y \in SpreadStates  BY <1>7, <1>8, <1>9 DEF SpreadStates
<1>11. QED  BY <1>10 DEF y

\* The loop at the last of a drag.
LEMMA SpreadType ==
    ASSUME slots \in [Slots -> Slot], cursor \in Slot, NEW n \in Nat, n > 0, NEW updates \in [1 .. n -> Places]
    PROVE  Spread(updates) \in SpreadStates
<1> DEFINE X == SpreadStates
           x0 == [slots |-> slots, cursor |-> cursor, each |-> cursor.count \div n, rest |-> cursor.count % n]
           g == [p \in (1 .. n) \X X |-> SpreadOne(p[2], updates[p[1]])]
           F == CHOOSE after : after = [k \in 0 .. n |-> IF k = 0 THEN x0 ELSE SpreadOne(after[k - 1], updates[k])]
<1>0. Len(updates) = n  OBVIOUS
<1>1. g \in [(1 .. n) \X X -> X] /\ x0 \in X
  <2>1. \A p \in (1 .. n) \X X : SpreadOne(p[2], updates[p[1]]) \in X
    BY SpreadOneType
  <2>2. x0 \in X
    <3>1. cursor.count \in Int  BY DEF Slot
    <3>2. cursor.count \div n \in Int /\ cursor.count % n \in Int  BY <3>1
    <3>3. QED  BY <3>2 DEF SpreadStates
  <2>3. QED  BY <2>1, <2>2
<1>2. PICK s \in [0 .. n -> X] : IsLoop(s, n, x0, g)
  <2> HIDE DEF g, X, x0
  <2> QED BY <1>1, LoopExists
<1>3. s = [k \in 0 .. n |-> IF k = 0 THEN x0 ELSE SpreadOne(s[k - 1], updates[k])]
  <2>1. s[0] = x0  BY <1>2 DEF IsLoop
  <2>2. ASSUME NEW k \in 1 .. n  PROVE s[k] = SpreadOne(s[k - 1], updates[k])
    <3>1. s[k] = g[<<k, s[k - 1]>>]  BY <1>2 DEF IsLoop
    <3>2. <<k, s[k - 1]>> \in (1 .. n) \X X  OBVIOUS
    <3>3. QED  BY <3>1, <3>2
  <2> HIDE DEF X, g, x0
  <2> QED BY <2>1, <2>2
<1>4. F = [k \in 0 .. n |-> IF k = 0 THEN x0 ELSE SpreadOne(F[k - 1], updates[k])]
  BY <1>3
<1>5. Spread(updates) = F[n]
  BY <1>0 DEF Spread
<1>6. F[0] = x0 /\ \A k \in 1 .. n : F[k] = SpreadOne(F[k - 1], updates[k])
  <2> HIDE DEF F, x0
  <2>1. QED  BY <1>4
<1>7. F[n] \in X
  <2> DEFINE S == {k \in 0 .. n : F[k] \in X}
  <2>1. 0 \in S  BY <1>1, <1>6
  <2>2. ASSUME NEW k \in 1 .. n, k - 1 \in S  PROVE k \in S
    <3> HIDE DEF F
    <3>1. QED  BY <1>6, <2>2, SpreadOneType
  <2>3. \A k \in 0 .. n : k \in S
    <3> HIDE DEF S, F
    <3> QED BY <2>1, <2>2, BoundedInduction
  <2> HIDE DEF F
  <2> QED BY <2>3
<1>8. QED  BY <1>5, <1>7

-----------------------------------------------------------------------------

\* Clicks, drops and keys keep the inventory one.
LEMMA ClickKeepsType ==
    ASSUME InventoryOK, ConservingClick
    PROVE  InventoryOK'
<1>1. /\ slots \in [Slots -> Slot] /\ cursor \in Slot /\ dropped \in [Items -> Int]
      /\ None \in Slot /\ Hotbar \cup {Offhand} \subseteq Slots
  BY SlotsFacts DEF InventoryOK
<1>2. ASSUME NEW b \in {0, 1}, ClickOutside(b)  PROVE InventoryOK'
  <2>1. TakeOne(cursor) \in Slot /\ Stack(cursor.id, 1) \in Slot  BY <1>1, TakeOneSlot, StackSlots
  <2>2. dropped' \in [Items -> Int]  BY <1>1, <1>2, <2>1, Dropping DEF ClickOutside
  <2>3. QED  BY <1>1, <1>2, <2>1, <2>2 DEF ClickOutside, InventoryOK
<1>3. ASSUME NEW i \in Slots, NEW b \in {0, 1}, Click(i, b)  PROVE InventoryOK'
  <2> DEFINE r == CASE b = 0 -> Swap(slots[i], cursor)
                    [] b # 0 /\ ~cursor.present -> SwapCount(slots[i], cursor, Half(slots[i].count))
                    [] OTHER -> LET s == SwapCount(cursor, slots[i], 1) IN <<s[2], s[1]>>
  <2>1. slots' = [slots EXCEPT ![i] = r[1]] /\ cursor' = r[2] /\ dropped' = dropped  BY <1>3 DEF Click
  <2>2. r[1] \in Slot /\ r[2] \in Slot
    <3>1. CASE b = 0
      <4>1. r = Swap(slots[i], cursor)  BY <3>1
      <4>2. QED  BY <4>1, <1>1, SwapSlots
    <3>2. CASE b # 0 /\ ~cursor.present
      <4>1. r = SwapCount(slots[i], cursor, Half(slots[i].count))  BY <3>2
      <4>2. Half(slots[i].count) \in Int
        <5>1. slots[i].count \in Int  BY <1>1 DEF Slot
        <5>2. QED  BY <5>1 DEF Half
      <4>3. QED  BY <4>1, <4>2, <1>1, SwapCountSlots
    <3>3. CASE b # 0 /\ cursor.present
      <4> DEFINE s == SwapCount(cursor, slots[i], 1)
      <4>1. r = <<s[2], s[1]>>  BY <3>3
      <4>2. s[1] \in Slot /\ s[2] \in Slot  BY <1>1, SwapCountSlots
      <4> HIDE DEF s, r
      <4>3. QED  BY <4>1, <4>2
    <3>4. QED  BY <3>1, <3>2, <3>3
  <2> HIDE DEF r
  <2>3. QED  BY <1>1, <2>1, <2>2 DEF InventoryOK
<1>4. ASSUME NEW i \in Slots, NEW b \in {0, 1}, DropButton(i, b)  PROVE InventoryOK'
  <2>1. TakeOne(slots[i]) \in Slot /\ Stack(slots[i].id, 1) \in Slot /\ slots[i] \in Slot
    BY <1>1, TakeOneSlot, StackSlots
  <2>2. dropped' \in [Items -> Int]  BY <1>1, <1>4, <2>1, Dropping DEF DropButton
  <2>3. slots' \in [Slots -> Slot] /\ cursor' = cursor  BY <1>1, <1>4, <2>1 DEF DropButton
  <2>4. QED  BY <1>1, <2>2, <2>3 DEF InventoryOK
<1>5. ASSUME NEW i \in Places, NEW j \in Hotbar \cup {Offhand}, Keys(i, j)  PROVE InventoryOK'
  BY <1>1, <1>5 DEF Keys, InventoryOK
<1>6. ASSUME Close  PROVE InventoryOK'
  <2>1. ClickOutside(0)  BY <1>6 DEF Close, ClickOutside
  <2>2. QED  BY <2>1, <1>2
<1>7. QED  BY <1>2, <1>3, <1>4, <1>5, <1>6 DEF ConservingClick

\* A shift click keeps slots slots.
LEMMA ShiftClickType ==
    ASSUME slots \in [Slots -> Slot], cursor \in Slot, NEW i \in Places, ShiftClick(i)
    PROVE  slots' \in [Slots -> Slot] /\ cursor' \in Slot
<1> DEFINE container == IF i \in Main THEN Hotbar ELSE Main
           item == At(i)
           r == SwapContainer(item, container)
<1>1. item \in Slot  BY DEF At, Places
<1>2. \/ slots' = [r.slots EXCEPT ![i] = r.item] /\ cursor' = cursor
      \/ slots' = r.slots /\ cursor' = r.item
  BY DEF ShiftClick
<1> HIDE DEF container, item
<1>3. PICK F \in [0 .. NumSlots -> StackStates] :
              /\ F[0] = [slots |-> slots, item |-> item, done |-> FALSE]
              /\ \A k \in 1 .. NumSlots : F[k] = StackSlot(F[k - 1], container, k - 1)
              /\ LET last == F[NumSlots]
                     free == {j \in container : ~last.slots[j].present}
                 IN  r = IF last.done \/ free = {} THEN [slots |-> last.slots, item |-> last.item]
                         ELSE [slots |-> [last.slots EXCEPT ![Min(free)] = last.item], item |-> None]
  BY <1>1, SwapContainerLoop
<1> DEFINE last == F[NumSlots]
           least == Min({j \in container : ~last.slots[j].present})
<1>4. last.slots \in [Slots -> Slot] /\ last.item \in Slot  BY SlotsFacts DEF StackStates
<1>5. \/ r = [slots |-> last.slots, item |-> last.item]
      \/ r = [slots |-> [last.slots EXCEPT ![least] = last.item], item |-> None]
  BY <1>3
<1> HIDE DEF r, last, least
<1>6. r.slots \in [Slots -> Slot] /\ r.item \in Slot
  <2>1. [last.slots EXCEPT ![least] = last.item] \in [Slots -> Slot] /\ None \in Slot  BY <1>4, SlotsFacts
  <2>2. CASE r = [slots |-> last.slots, item |-> last.item]  BY <1>4, <2>2
  <2>3. CASE r = [slots |-> [last.slots EXCEPT ![least] = last.item], item |-> None]  BY <2>1, <2>3
  <2>4. QED  BY <1>5, <2>2, <2>3
<1>7. QED  BY <1>2, <1>6

\* Double and shift clicks keep the inventory one.
LEMMA StackingKeepsType ==
    ASSUME InventoryOK, StackingClick
    PROVE  InventoryOK'
<1>1. ASSUME NEW i \in Slots, DoubleClick(i)  PROVE InventoryOK'
  <2>1. PICK F \in [0 .. NumSlots -> CollectStates] :
              slots' = F[NumSlots].slots /\ cursor' = F[NumSlots].cursor
    BY <1>1, DoubleClickLoop
  <2>2. F[NumSlots] \in CollectStates  BY SlotsFacts
  <2>3. slots' \in [Slots -> Slot] /\ cursor' \in Slot  BY <2>1, <2>2 DEF CollectStates
  <2>4. QED  BY <1>1, <2>3 DEF InventoryOK, DoubleClick
<1>2. ASSUME NEW i \in Places, ShiftClick(i)  PROVE InventoryOK'
  <2>1. slots' \in [Slots -> Slot] /\ cursor' \in Slot  BY <1>2, ShiftClickType DEF InventoryOK
  <2>2. QED  BY <1>2, <2>1 DEF InventoryOK, ShiftClick
<1>3. QED  BY <1>1, <1>2 DEF StackingClick

\* Clicks on the cursor, middle clicks and drags keep the inventory one.
LEMMA OtherClickKeepsType ==
    ASSUME InventoryOK, OtherClick
    PROVE  InventoryOK'
<1>1. /\ slots \in [Slots -> Slot] /\ cursor \in Slot /\ dropped \in [Items -> Int] /\ MaxStack \in Int
  BY SlotsFacts DEF InventoryOK
<1>2. ASSUME NEW b \in {0, 1}, ClickCursor(b)  PROVE InventoryOK'
  <2>1. SelfSwap(cursor) \in Slot  BY <1>1, SwapSlots DEF SelfSwap
  <2>2. ASSUME NEW x  PROVE SelfSwapCount(cursor, x) \in Slot
    <3> DEFINE n == IF cursor.count > MaxStack THEN MaxStack ELSE cursor.count
    <3>1. n \in Int  BY <1>1 DEF Slot
    <3>2. SelfSwapCount(cursor, x) \in {SelfSwap(cursor), [cursor EXCEPT !.present = TRUE, !.count = n]}
      BY <1>1 DEF SelfSwapCount, Slot
    <3> HIDE DEF n
    <3>3. [cursor EXCEPT !.present = TRUE, !.count = n] \in Slot  BY <1>1, <3>1 DEF Slot
    <3>4. QED  BY <2>1, <3>2, <3>3
  <2>3. UNCHANGED <<slots, dropped>> /\ cursor' \in Slot  BY <1>2, <2>1, <2>2 DEF ClickCursor
  <2>4. QED  BY <1>1, <2>3 DEF InventoryOK
<1>3. ASSUME NEW i \in Places, MiddleClick(i)  PROVE InventoryOK'
  <2>1. At(i) \in Slot  BY <1>1 DEF At, Places
  <2>2. [At(i) EXCEPT !.count = MaxStack] \in Slot  BY <1>1, <2>1 DEF Slot
  <2>3. QED  BY <1>1, <1>3, <2>2 DEF MiddleClick, InventoryOK
<1>4. ASSUME NEW index, NEW b \in {0, 1, 2, 4, 8}, NEW n \in 1 .. 2, NEW updates \in [1 .. n -> Places],
             Drag(index, b, gamemode = "Creative", updates)
      PROVE  InventoryOK'
  <2> DEFINE last == Spread(updates)
  <2>1. \/ UNCHANGED <<slots, cursor, dropped>>
        \/ /\ slots' = last.slots
           /\ cursor' = IF last.rest > 0 THEN [last.cursor EXCEPT !.count = Int8(last.rest)] ELSE None
           /\ UNCHANGED dropped
    BY <1>4 DEF Drag, inventory
  <2>2. last \in SpreadStates
    <3>1. n \in Nat /\ n > 0  OBVIOUS
    <3>2. QED  BY <1>1, <3>1, SpreadType
  <2> HIDE DEF last
  <2>3. /\ last.slots \in [Slots -> Slot]
        /\ [last.cursor EXCEPT !.count = Int8(last.rest)] \in Slot /\ None \in Slot
    BY <2>2, Int8Type, SlotsFacts DEF SpreadStates, Slot
  <2>4. QED  BY <1>1, <2>1, <2>3 DEF InventoryOK
<1>5. QED  BY <1>2, <1>3, <1>4 DEF OtherClick

\* What is done with the hand keeps the inventory one.
LEMMA HandKeepsType ==
    ASSUME InventoryOK, Holds, DropHeld \/ SwapHands
    PROVE  InventoryOK'
<1>1. /\ slots \in [Slots -> Slot] /\ cursor \in Slot /\ dropped \in [Items -> Int]
      /\ heldItem \in Slots /\ Offhand \in Slots /\ slots[heldItem] \in Slot /\ slots[Offhand] \in Slot /\ None \in Slot
  BY SlotsFacts DEF InventoryOK, Holds
<1>2. CASE DropHeld
  <2>1. TakeOne(slots[heldItem]) \in Slot /\ Stack(slots[heldItem].id, 1) \in Slot
    BY <1>1, TakeOneSlot, StackSlots
  <2>2. dropped' \in [Items -> Int]  BY <1>1, <1>2, <2>1, Dropping DEF DropHeld, Held
  <2>3. slots' \in [Slots -> Slot] /\ cursor' = cursor  BY <1>1, <1>2, <2>1 DEF DropHeld
  <2>4. QED  BY <1>1, <2>2, <2>3 DEF InventoryOK
<1>3. CASE SwapHands
  <2> DEFINE r == Swap(slots[Offhand], slots[heldItem])
  <2>1. slots' = [slots EXCEPT ![Offhand] = r[1], ![heldItem] = r[2]] /\ UNCHANGED <<cursor, dropped>>
    BY <1>3 DEF SwapHands, Held
  <2>2. r[1] \in Slot /\ r[2] \in Slot  BY <1>1, SwapSlots
  <2> HIDE DEF r
  <2>3. QED  BY <1>1, <2>1, <2>2 DEF InventoryOK
<1>4. QED  BY <1>2, <1>3

\* Eating, placing and the creative slots keep the inventory one.
LEMMA UseKeepsType ==
    ASSUME InventoryOK, LimitSaturation \/ OnUseItemOn \/ OnSetCreativeModeSlot
    PROVE  InventoryOK'
<1>1. slots \in [Slots -> Slot] /\ cursor \in Slot /\ dropped \in [Items -> Int]
  BY DEF InventoryOK
<1>2. CASE LimitSaturation
  <2>1. slots' = [slots EXCEPT ![heldItem].count = Int8(@ - 1)] /\ UNCHANGED <<cursor, dropped>>
    BY <1>2 DEF LimitSaturation
  <2>2. slots' \in [Slots -> Slot]
    <3>1. CASE heldItem \in Slots
      <4> DEFINE s == [slots[heldItem] EXCEPT !.count = Int8(@ - 1)]
      <4>1. slots' = [slots EXCEPT ![heldItem] = s] /\ slots[heldItem] \in Slot  BY <1>1, <2>1, <3>1
      <4>2. Int8(slots[heldItem].count - 1) \in Int  BY <4>1, Int8Type DEF Slot
      <4>3. s \in Slot  BY <4>1, <4>2 DEF Slot
      <4> HIDE DEF s
      <4>4. QED  BY <1>1, <4>1, <4>3
    <3>2. CASE heldItem \notin Slots
      <4>1. slots' = slots  BY <1>1, <2>1, <3>2
      <4>2. QED  BY <1>1, <4>1
    <3>3. QED  BY <3>1, <3>2
  <2>3. QED  BY <1>1, <2>1, <2>2 DEF InventoryOK
<1>3. CASE OnUseItemOn
  <2>1. heldItem \in Slots /\ UNCHANGED <<cursor, dropped>>  BY <1>3, SlotsFacts DEF OnUseItemOn, Holds
  <2>2. TakeOne(slots[heldItem]) \in Slot  BY <1>1, <2>1, TakeOneSlot
  <2>3. slots' \in {slots, [slots EXCEPT ![heldItem] = TakeOne(@)]}  BY <1>3 DEF OnUseItemOn
  <2>4. QED  BY <1>1, <2>1, <2>2, <2>3 DEF InventoryOK
<1>4. CASE OnSetCreativeModeSlot
  <2>1. PICK i \in Places, s \in Gifts :
          \/ i \in Slots /\ slots' = [slots EXCEPT ![i] = s] /\ UNCHANGED cursor
          \/ i = Carried /\ cursor' = s /\ UNCHANGED slots
    BY <1>4 DEF OnSetCreativeModeSlot
  <2>2. s \in Slot /\ dropped' = dropped  BY <1>4, SurvivalAssumption DEF OnSetCreativeModeSlot
  <2>3. QED  BY <1>1, <2>1, <2>2 DEF InventoryOK
<1>5. QED  BY <1>2, <1>3, <1>4

\* Digging keeps the inventory one.
LEMMA DigKeepsType ==
    ASSUME InventoryOK, FinishDigging
    PROVE  InventoryOK'
<1>1. UNCHANGED <<slots, cursor>> /\ dropped \in [Items -> Int]  BY DEF FinishDigging, InventoryOK
<1>2. dropped' = dropped \/ DropItem(Stack(Max(Items), 1))  BY DEF FinishDigging
<1>3. dropped' \in [Items -> Int]  BY <1>1, <1>2 DEF DropItem, Stack
<1>4. QED  BY <1>1, <1>3 DEF InventoryOK

\* A player starts with an inventory.
LEMMA InitInventory == SurvivalInit => InventoryOK
  BY LevelsAssumption, SlotsFacts DEF SurvivalInit, InventoryOK

\* Every step keeps it one.
LEMMA NextInventory == InventoryOK /\ [SurvivalNext]_survivalVars => InventoryOK'
<1> SUFFICES ASSUME InventoryOK, [SurvivalNext]_survivalVars  PROVE InventoryOK'  OBVIOUS
<1>1. CASE OnClickContainer
  BY <1>1, ClickKeepsType, StackingKeepsType, OtherClickKeepsType DEF OnClickContainer
<1>2. CASE HandAction  BY <1>2, HandKeepsType DEF HandAction
<1>3. CASE LimitSaturation \/ OnUseItemOn \/ OnSetCreativeModeSlot  BY <1>3, UseKeepsType
<1>4. CASE FinishDigging  BY <1>4, DigKeepsType
<1>5. CASE UNCHANGED inventory
  <2>1. UNCHANGED <<slots, cursor, dropped>>  BY <1>5 DEF inventory
  <2>2. QED  BY <2>1 DEF InventoryOK
<1>6. CASE OnSetHeldItem \/ StartDigging \/ OnAttack \/ Attacked \/ SetGamemode \/ UNCHANGED survivalVars
  BY <1>5, <1>6 DEF OnSetHeldItem, StartDigging, OnAttack, Attacked, SetGamemode, survivalVars
<1>7. CASE Eat \/ EatFood \/ EatSaturation \/ LimitFood
  BY <1>5, <1>7 DEF Eat, EatFood, EatSaturation, LimitFood
<1>8. CASE TickStep
  BY <1>5, <1>8 DEF TickStep, FoodTick, Starve, Regenerate, Pay, CountTick
<1>9. QED  BY <1>1, <1>2, <1>3, <1>4, <1>6, <1>7, <1>8 DEF SurvivalNext, EatStep

\* Whatever a client clicks, drags or drops, slots and cursor hold no other items than those that exist.
LEMMA InventoryTyped == SurvivalSpec => []InventoryOK
  BY InitInventory, NextInventory, PTL DEF SurvivalSpec

\* Each of the steps that should only move items does so.
LEMMA StepConserves ==
    ASSUME InventoryOK, InventoryOK', SlotsInOrder,
           \/ ConservingClick
           \/ Holds /\ (DropHeld \/ SwapHands)
           \/ StackingClick /\ \A i \in Slots : slots[i].count < MaxStack /\ cursor.count < MaxStack
    PROVE  \A id \in Items : Balance(id)' = Balance(id)
<1>1. Hotbar \cup {Offhand} \subseteq Slots  BY SlotsFacts
<1>2. CASE ConservingClick
  BY <1>1, <1>2, ClickOutsideConserves, ClickConserves, DropButtonConserves, KeysConserves, CloseConserves
     DEF ConservingClick
<1>3. CASE Holds /\ DropHeld  BY <1>3, DropHeldConserves
<1>4. CASE Holds /\ SwapHands  BY <1>4, SwapHandsConserves
<1>5. CASE StackingClick /\ \A i \in Slots : slots[i].count < MaxStack /\ cursor.count < MaxStack
  <2>1. Offhand \in Slots  BY SlotsFacts
  <2>2. cursor.count < MaxStack /\ \A i \in Slots : slots[i].count < MaxStack  BY <1>5, <2>1
  <2>3. QED  BY <1>5, <2>2, DoubleClickConserves, ShiftClickConserves DEF StackingClick
<1>6. QED  BY <1>2, <1>3, <1>4, <1>5

\* No item appears and none is lost: for every number of slots and every size of a stack, a click, a drop, a key or a
\* change of hands on slots in order moves items between slots, cursor and world, though Slot::swap() and the loops over
\* the containers compute the counts in an int8_t; and shift and double clicks do while no stack is full.  Keys and shift
\* clicks may name the cursor for a slot; left drags and plain clicks on the cursor, which lose items, are no part of it.
THEOREM ItemsConserved == SurvivalSpec => ItemsAreConserved
<1>1. InventoryOK /\ InventoryOK' =>
        (/\ SlotsInOrder
         /\ \/ ConservingClick
            \/ Holds /\ (DropHeld \/ SwapHands)
            \/ StackingClick /\ \A i \in Slots : slots[i].count < MaxStack /\ cursor.count < MaxStack
         => \A id \in Items : Balance(id)' = Balance(id))
  BY StepConserves
<1>2. QED  BY <1>1, InventoryTyped, PTL DEF ItemsAreConserved
=============================================================================
