------------------------- MODULE ServerNetworkProofs -------------------------
(***************************************************************************)
(* Proofs, for any number of clients and packets, that a Client is never   *)
(* destroyed before its thread has ended and that a peer gets its packets  *)
(* in order and without a gap.                                             *)
(***************************************************************************)
EXTENDS ServerNetwork, SequenceTheorems, TLAPS

\* The write loop has a packet in hand.
Holding == writer.pc \in {"lock", "cleanup"}
HoldingFor(c) == Holding /\ writer.data.to = c

Typed ==
    /\ TypeOK
    /\ got \in [Clients -> Nat]
    /\ Holding => writer.data \in Packets

\* Nothing is known of a client before it is accepted.
StartInv ==
    \A c \in Clients : /\ entry[c] = "none" <=> peer[c] = "none"
                       /\ entry[c] = "none" => thread[c] = "none" /\ issued[c] = 0

\* Every client that is still in _clients has been joined once _stop() gives
\* clientsMutex back.
JoinInv ==
    /\ JoinedBeforeErased
    /\ main \in {"drain", "joinWriter"} => \A c \in Open : thread[c] = "ended"

\* Clients whose packets still have a reader.
Live(c) == entry[c] # "erased" /\ peer[c] # "closed"

\* The last packet of a client that has left _toSend.
Popped(c) == IF HoldingFor(c) THEN got[c] + 1 ELSE got[c]

\* What waits in _toSend for a client is what was issued since, in order.
Ordered(c) ==
    /\ HoldingFor(c) => writer.data.n = got[c] + 1
    /\ Popped(c) <= issued[c]
    /\ \A i \in 1 .. Len(toSend) : toSend[i].to = c => toSend[i].n \in Popped(c) + 1 .. issued[c]
    /\ \A i, j \in 1 .. Len(toSend) :
          i < j /\ toSend[i].to = c /\ toSend[j].to = c => toSend[i].n < toSend[j].n
    /\ \A n \in Popped(c) + 1 .. issued[c] :
          \E i \in 1 .. Len(toSend) : toSend[i].to = c /\ toSend[i].n = n

OrderInv == \A c \in Clients : Live(c) => Ordered(c)

IInv == Typed /\ StartInv /\ JoinInv /\ OrderInv

\* The server starts with nobody connected.
LEMMA InitIInv == Init => IInv
<1> SUFFICES ASSUME Init PROVE IInv
  OBVIOUS
<1>1. Typed
  <2>1. toSend \in Seq(Packets) /\ Len(toSend) = 0
    BY EmptySeq DEF Init
  <2>2. writer \in [pc : {"top", "sleep", "lock", "cleanup", "ended"}, data : Packets \cup {None},
                    visit : SUBSET Clients]
    BY DEF Init
  <2> QED
    BY <2>1, <2>2, NetworkBoundsAssumption DEF Init, Typed, TypeOK, Holding
<1>2. StartInv /\ JoinInv
  BY DEF Init, StartInv, JoinInv, JoinedBeforeErased
<1>3. OrderInv
  <2>1. Len(toSend) = 0
    BY EmptySeq DEF Init
  <2> QED
    BY <2>1 DEF Init, OrderInv, Ordered, Popped, HoldingFor, Holding
<1> QED
  BY <1>1, <1>2, <1>3 DEF IInv

-----------------------------------------------------------------------------
(* What the steps do to the packets                                        *)

\* A packet for c goes to the end of _toSend.
Sends(c) ==
    /\ entry[c] # "none"
    /\ \E isBye \in BOOLEAN : SendData(c, isBye)
    /\ UNCHANGED <<entry, peer, got, bye, writer>>

\* No packet moves, and no client comes to life.
Carries ==
    /\ Holding' <=> Holding
    /\ writer'.data = writer.data
    /\ \A c \in Clients : Live(c)' => Live(c)
    /\ UNCHANGED <<issued, got, toSend>>

\* The packet in hand is put down; it was read if its client is live.
PutsDown ==
    /\ Holding /\ ~Holding'
    /\ \A c \in Clients : Live(c)' => Live(c)
    /\ \A c \in Clients : Live(c)' => got'[c] = IF c = writer.data.to THEN writer.data.n ELSE got[c]
    /\ UNCHANGED <<issued, toSend>>

\* Four callers of sendData().
LEMMA Senders ==
    ASSUME Typed, StartInv, NEW c \in Clients,
           OnStatusRequest(c) \/ Push(c) \/ KickWrite(c) \/ StopDisconnect(c)
    PROVE  Sends(c)
<1>1. CASE OnStatusRequest(c)
  BY <1>1 DEF OnStatusRequest, Sends, StartInv, peerVars, ghostVars
<1>2. CASE Push(c)
  BY <1>2 DEF Push, Sends, peerVars, ghostVars
<1>3. CASE KickWrite(c)
  BY <1>3 DEF KickWrite, Sends, peerVars, ghostVars
<1>4. CASE StopDisconnect(c)
  BY <1>4 DEF StopDisconnect, Sends, Open, peerVars, ghostVars
<1> QED
  BY <1>1, <1>2, <1>3, <1>4

-----------------------------------------------------------------------------
(* Types                                                                   *)

\* A step of sendData() keeps the types of what it changes.
LEMMA SendDataTypes ==
    ASSUME Typed, NEW c \in Clients, Sends(c)
    PROVE  /\ issued' \in [Clients -> Nat]
           /\ toSend' \in Seq(Packets)
           /\ \A d \in Clients : got'[d] \in 0 .. issued'[d]
           /\ \E isBye \in BOOLEAN : LET data == [to |-> c, n |-> issued[c] + 1, bye |-> isBye] IN
                 data \in Packets /\ toSend' = Append(toSend, data)
           /\ issued' = [issued EXCEPT ![c] = issued[c] + 1]
<1>0. issued \in [Clients -> Nat] /\ toSend \in Seq(Packets) /\ \A d \in Clients : got[d] \in 0 .. issued[d]
  BY DEF Typed, TypeOK
<1>1. PICK isBye \in BOOLEAN : SendData(c, isBye)
  BY DEF Sends
<1> DEFINE data == [to |-> c, n |-> issued[c] + 1, bye |-> isBye]
<1>2. issued' = [issued EXCEPT ![c] = issued[c] + 1] /\ toSend' = Append(toSend, data)
  BY <1>1 DEF SendData
<1>3. data \in Packets
  BY <1>0 DEF Packets
<1>4. toSend' \in Seq(Packets)
  BY <1>0, <1>2, <1>3, AppendProperties
<1>5. got' = got
  BY DEF Sends
<1> QED
  BY <1>0, <1>2, <1>3, <1>4, <1>5

\* The types of everything but what sendData() and the write loop change.
LEMMA TypedSends ==
    ASSUME Typed, StartInv, NEW c \in Clients,
           OnStatusRequest(c) \/ Push(c) \/ KickWrite(c) \/ StopDisconnect(c)
    PROVE  Typed'
<1> USE DEF Typed, TypeOK, Holding
<1>1. Sends(c)
  BY Senders
<1>2. /\ issued' \in [Clients -> Nat] /\ toSend' \in Seq(Packets)
      /\ \A d \in Clients : got'[d] \in 0 .. issued'[d]
  BY <1>1, SendDataTypes
<1>3. UNCHANGED <<entry, peer, got, bye, writer>>
  BY <1>1 DEF Sends
<1> HIDE DEF Sends
<1>4. CASE OnStatusRequest(c)
  BY <1>2, <1>3, <1>4 DEF OnStatusRequest, LoopOrEnd, peerVars
<1>5. CASE Push(c)
  BY <1>2, <1>3, <1>5, NetworkBoundsAssumption, SMTT(30) DEF Push, peerVars
<1>6. CASE KickWrite(c)
  BY <1>2, <1>3, <1>6 DEF KickWrite, peerVars
<1>7. CASE StopDisconnect(c)
  BY <1>2, <1>3, <1>7 DEF StopDisconnect, peerVars
<1> QED
  BY <1>4, <1>5, <1>6, <1>7

LEMMA TypedPeers ==
    ASSUME Typed, NEW c \in Clients,
           \/ Accept(c) \/ PeerAsks(c) \/ PeerIsAlive(c) \/ PeerHangsUp(c)
           \/ ReadLoop(c) \/ ReadSome(c) \/ ReadError(c) \/ KickFlag(c)
    PROVE  Typed'
<1> USE DEF Typed, TypeOK, Holding, peerVars, ghostVars
<1>1. CASE Accept(c)
  BY <1>1 DEF Accept
<1>2. CASE PeerAsks(c)
  BY <1>2, NetworkBoundsAssumption DEF PeerAsks
<1>3. CASE PeerIsAlive(c)
  BY <1>3 DEF PeerIsAlive
<1>4. CASE PeerHangsUp(c)
  BY <1>4 DEF PeerHangsUp
<1>5. CASE ReadLoop(c) \/ ReadSome(c)
  BY <1>5, ZenonT(40) DEF ReadLoop, ReadSome, LoopOrEnd
<1>6. CASE ReadError(c)
  BY <1>6 DEF ReadError
<1>7. CASE KickFlag(c)
  BY <1>7 DEF KickFlag
<1> QED
  BY <1>1, <1>2, <1>3, <1>4, <1>5, <1>6, <1>7

LEMMA TypedWriter ==
    ASSUME Typed, OrderInv, StartInv, WriterStep
    PROVE  Typed'
<1> USE DEF Typed, TypeOK, Holding, peerVars, ghostVars
<1>1. CASE WritePop
  <2>1. Head(toSend) \in Packets /\ Tail(toSend) \in Seq(Packets)
    BY <1>1, HeadTailProperties DEF WritePop
  <2> QED
    BY <1>1, <2>1 DEF WritePop
<1>2. CASE WriteSleep \/ WriteWake
  BY <1>2, ZenonT(40) DEF WriteSleep, WriteWake
<1>3. CASE WriteLock
  BY <1>3 DEF WriteLock, Open
<1>4. ASSUME NEW c \in Clients, Cleanup(c) PROVE Typed'
  BY <1>4 DEF Cleanup
<1>5. CASE WriteDrop
  BY <1>5 DEF WriteDrop, Released
<1>6. CASE WriteLate
  BY <1>6 DEF WriteLate, Released, Packets
<1>7. CASE WritePacket
  <2>0. writer.data \in Packets /\ entry[writer.data.to] = "open"
    BY <1>7 DEF WritePacket
  <2> DEFINE c == writer.data.to
  <2>1. c \in Clients /\ writer.data.n \in Nat
    BY <2>0 DEF Packets
  <2>2. peer[c] = "there" => writer.data.n = got[c] + 1 /\ got[c] + 1 <= issued[c]
    BY <1>7, <2>0, <2>1 DEF WritePacket, OrderInv, Ordered, Live, HoldingFor, Popped
  <2>3. got' = got \/ (peer[c] = "there" /\ got' = [got EXCEPT ![c] = writer.data.n])
    BY <1>7 DEF WritePacket
  <2>4. got' \in [Clients -> Nat] /\ \A d \in Clients : got'[d] \in 0 .. issued[d]
    <3>1. /\ got \in [Clients -> Nat] /\ issued \in [Clients -> Nat]
          /\ \A d \in Clients : got[d] \in 0 .. issued[d]
      OBVIOUS
    <3> HIDE DEF Typed, TypeOK, c
    <3>2. CASE got' = got
      BY <3>1, <3>2
    <3>3. CASE got' = [got EXCEPT ![c] = writer.data.n] /\ peer[c] = "there"
      <4>1. writer.data.n \in 0 .. issued[c]
        BY <2>1, <2>2, <3>1, <3>3
      <4> QED
        BY <2>1, <3>1, <3>3, <4>1
    <3> QED
      BY <2>3, <3>2, <3>3
  <2>5. bye' \subseteq Clients /\ writer'.pc = "top"
    BY <1>7, <2>1 DEF WritePacket, Released
  <2>6. writer' \in [pc : {"top", "sleep", "lock", "cleanup", "ended"}, data : Packets \cup {None},
                     visit : SUBSET Clients]
    BY <1>7 DEF WritePacket, Released
  <2> QED
    BY <1>7, <2>4, <2>5, <2>6 DEF WritePacket
<1> QED
  BY <1>1, <1>2, <1>3, <1>4, <1>5, <1>6, <1>7 DEF WriterStep

LEMMA TypedStop ==
    ASSUME Typed, Stop \/ Rearm \/ StopLock \/ StopJoin \/ StopDrained \/ StopClear
    PROVE  Typed'
<1> USE DEF Typed, TypeOK, Holding, peerVars, ghostVars
<1>1. CASE Stop \/ Rearm \/ StopLock \/ StopJoin \/ StopDrained
  BY <1>1 DEF Stop, Rearm, StopLock, StopJoin, StopDrained
<1>2. CASE StopClear
  <2>1. <<>> \in Seq(Packets)
    BY EmptySeq
  <2> QED
    BY <1>2, <2>1 DEF StopClear
<1> QED
  BY <1>1, <1>2

\* Every step keeps the types.
LEMMA TypedStep ==
    ASSUME IInv, [Next]_vars
    PROVE  Typed'
<1>1. Typed /\ StartInv /\ OrderInv
  BY DEF IInv
<1>2. CASE UNCHANGED vars
  BY <1>1, <1>2 DEF vars, Typed, TypeOK, Holding
<1> QED
  BY <1>1, <1>2, TypedSends, TypedPeers, TypedWriter, TypedStop DEF Next, ClientStep, StopStep, Quiet

-----------------------------------------------------------------------------
(* Clients and their threads                                               *)

\* A client is known from its acceptance on.
LEMMA StartStep ==
    ASSUME IInv, [Next]_vars
    PROVE  StartInv'
<1> USE DEF StartInv, peerVars, ghostVars
<1>0. /\ StartInv /\ Typed
      /\ entry \in [Clients -> {"none", "open", "erased"}] /\ peer \in [Clients -> {"none", "there", "closed"}]
      /\ thread \in [Clients -> {"none", "loop", "read", "status", "ended"}]
  BY DEF IInv, Typed, TypeOK
<1>1. ASSUME NEW c \in Clients, Accept(c) PROVE StartInv'
  BY <1>0, <1>1 DEF Accept
<1>2. ASSUME NEW c \in Clients, PeerHangsUp(c) PROVE StartInv'
  BY <1>0, <1>2 DEF PeerHangsUp
<1>3. ASSUME NEW c \in Clients, PeerAsks(c) \/ PeerIsAlive(c) \/ KickFlag(c) PROVE StartInv'
  BY <1>0, <1>3 DEF PeerAsks, PeerIsAlive, KickFlag
<1>4. ASSUME NEW c \in Clients, ReadLoop(c) \/ ReadSome(c) \/ ReadError(c) PROVE StartInv'
  BY <1>0, <1>4 DEF ReadLoop, ReadSome, ReadError
<1>5. ASSUME NEW c \in Clients, OnStatusRequest(c) \/ Push(c) \/ KickWrite(c) \/ StopDisconnect(c)
      PROVE  StartInv'
  <2>1. Sends(c)
    BY <1>0, <1>5, Senders
  <2>2. /\ issued' = [issued EXCEPT ![c] = issued[c] + 1] /\ UNCHANGED <<entry, peer>>
        /\ issued \in [Clients -> Nat]
    BY <1>0, <2>1, SendDataTypes DEF Sends, Typed, TypeOK
  <2>3. entry[c] # "none" /\ \A d \in Clients : d # c => thread'[d] = thread[d]
    BY <1>0, <1>5, <2>1 DEF Sends, OnStatusRequest, Push, KickWrite, StopDisconnect
  <2> QED
    BY <1>0, <2>2, <2>3
<1>6. CASE WritePop \/ WriteSleep \/ WriteWake \/ WriteLock \/ WriteDrop \/ WritePacket
  BY <1>0, <1>6 DEF WritePop, WriteSleep, WriteWake, WriteLock, WriteDrop, WritePacket
<1>7. ASSUME NEW c \in Clients, Cleanup(c) PROVE StartInv'
  <2>1. thread[c] # "none" \/ isRunning[c]
    BY <1>0, <1>7 DEF Cleanup
  <2>2. entry' = [entry EXCEPT ![c] = IF isRunning[c] THEN @ ELSE "erased"] /\ UNCHANGED <<peer, thread, issued>>
    BY <1>7 DEF Cleanup
  <2> QED
    BY <1>0, <2>1, <2>2
<1>8. CASE WriteLate
  BY <1>0, <1>8 DEF WriteLate
<1>9. CASE Stop \/ Rearm \/ StopLock \/ StopJoin \/ StopDrained
  BY <1>0, <1>9 DEF Stop, Rearm, StopLock, StopJoin, StopDrained
<1>10. CASE StopClear
  BY <1>0, <1>10 DEF StopClear
<1>11. CASE UNCHANGED vars
  BY <1>0, <1>11 DEF vars
<1> QED
  BY <1>1, <1>2, <1>3, <1>4, <1>5, <1>6, <1>7, <1>8, <1>9, <1>10, <1>11
     DEF Next, ClientStep, WriterStep, StopStep, Quiet

\* Whoever erases a client has joined its thread: the cleanup of the write loop
\* itself, _stop() before it gave clientsMutex back.
LEMMA JoinStep ==
    ASSUME IInv, [Next]_vars
    PROVE  JoinInv'
<1> USE DEF JoinInv, JoinedBeforeErased, Open
<1>0. /\ JoinInv /\ StartInv
      /\ entry \in [Clients -> {"none", "open", "erased"}]
      /\ thread \in [Clients -> {"none", "loop", "read", "status", "ended"}]
  BY DEF IInv, Typed, TypeOK
<1>1. ASSUME NEW c \in Clients, Accept(c) PROVE JoinInv'
  BY <1>0, <1>1 DEF Accept
<1>2. ASSUME NEW c \in Clients,
             \/ PeerHangsUp(c) \/ PeerAsks(c) \/ PeerIsAlive(c) \/ KickFlag(c)
             \/ Push(c) \/ KickWrite(c) \/ StopDisconnect(c)
      PROVE  JoinInv'
  BY <1>0, <1>2 DEF PeerHangsUp, PeerAsks, PeerIsAlive, KickFlag, Push, KickWrite, StopDisconnect
<1>3. ASSUME NEW c \in Clients, ReadLoop(c) \/ ReadSome(c) \/ ReadError(c) \/ OnStatusRequest(c)
      PROVE  JoinInv'
  <2>1. /\ thread[c] # "ended" /\ \A d \in Clients : d # c => thread'[d] = thread[d]
        /\ UNCHANGED <<entry, main>>
    BY <1>0, <1>3 DEF ReadLoop, ReadSome, ReadError, OnStatusRequest
  <2> QED
    BY <1>0, <2>1
<1>4. CASE WritePop \/ WriteSleep \/ WriteWake \/ WriteLock \/ WriteDrop \/ WritePacket
  BY <1>0, <1>4 DEF WritePop, WriteSleep, WriteWake, WriteLock, WriteDrop, WritePacket
<1>5. ASSUME NEW c \in Clients, Cleanup(c) PROVE JoinInv'
  BY <1>0, <1>5 DEF Cleanup
<1>6. CASE WriteLate
  BY <1>0, <1>6 DEF WriteLate
<1>7. CASE Stop \/ Rearm \/ StopLock \/ StopJoin \/ StopDrained
  BY <1>0, <1>7 DEF Stop, Rearm, StopLock, StopJoin, StopDrained
<1>8. CASE StopClear
  BY <1>0, <1>8 DEF StopClear
<1>9. CASE UNCHANGED vars
  BY <1>0, <1>9 DEF vars
<1> QED
  BY <1>1, <1>2, <1>3, <1>4, <1>5, <1>6, <1>7, <1>8, <1>9
     DEF Next, ClientStep, WriterStep, StopStep, Quiet

-----------------------------------------------------------------------------
(* The order of the packets                                                *)

\* Steps of the peers, the readers and the shutdown, and those of the write loop
\* that keep the packet in hand or have none.
LEMMA Carriers ==
    ASSUME IInv, [Next]_vars
    PROVE  \/ Carries \/ (\E c \in Clients : Sends(c)) \/ WritePop \/ StopClear
           \/ WriteDrop \/ WriteLate \/ WritePacket
<1> USE DEF Carries, Holding, Live, peerVars, ghostVars
<1>0. /\ Typed /\ StartInv /\ entry \in [Clients -> {"none", "open", "erased"}]
      /\ peer \in [Clients -> {"none", "there", "closed"}]
      /\ writer \in [pc : {"top", "sleep", "lock", "cleanup", "ended"}, data : Packets \cup {None},
                     visit : SUBSET Clients]
  BY DEF IInv, Typed, TypeOK
<1>1. ASSUME NEW c \in Clients, Accept(c) PROVE Carries
  BY <1>0, <1>1 DEF Accept, StartInv
<1>2. ASSUME NEW c \in Clients, PeerHangsUp(c) PROVE Carries
  BY <1>0, <1>2 DEF PeerHangsUp
<1>3. ASSUME NEW c \in Clients,
             PeerAsks(c) \/ PeerIsAlive(c) \/ KickFlag(c) \/ ReadLoop(c) \/ ReadSome(c) \/ ReadError(c)
      PROVE  Carries
  BY <1>3 DEF PeerAsks, PeerIsAlive, KickFlag, ReadLoop, ReadSome, ReadError
<1>4. ASSUME NEW c \in Clients, OnStatusRequest(c) \/ Push(c) \/ KickWrite(c) \/ StopDisconnect(c)
      PROVE  Sends(c)
  BY <1>0, <1>4, Senders
<1>5. CASE WriteSleep \/ WriteWake \/ WriteLock
  BY <1>0, <1>5 DEF WriteSleep, WriteWake, WriteLock
<1>6. ASSUME NEW c \in Clients, Cleanup(c) PROVE Carries
  BY <1>0, <1>6 DEF Cleanup
<1>7. CASE Stop \/ Rearm \/ StopLock \/ StopJoin \/ StopDrained \/ UNCHANGED vars
  BY <1>7 DEF Stop, Rearm, StopLock, StopJoin, StopDrained, vars
<1> QED
  BY <1>1, <1>2, <1>3, <1>4, <1>5, <1>6, <1>7 DEF Next, ClientStep, WriterStep, StopStep, Quiet

\* The write loop drops no packet of a live client: the client is erased with it.
LEMMA PuttersDown ==
    ASSUME IInv, WriteDrop \/ WriteLate \/ WritePacket
    PROVE  PutsDown
<1> USE DEF PutsDown, Holding, Live, Released, peerVars, ghostVars
<1>0. /\ StartInv /\ writer.data \in Packets /\ got \in [Clients -> Nat]
      /\ entry \in [Clients -> {"none", "open", "erased"}]
  BY DEF IInv, Typed, TypeOK, WriteDrop, WriteLate, WritePacket
<1> DEFINE to == writer.data.to
<1>1. to \in Clients
  BY <1>0 DEF Packets
<1>2. CASE WriteDrop
  <2>1. Live(to) => writer.data.n = got[to] + 1 /\ got[to] + 1 <= issued[to]
    BY <1>1, <1>2 DEF WriteDrop, IInv, OrderInv, Ordered, HoldingFor, Popped
  <2>2. entry[to] = "none" => issued[to] = 0 /\ Live(to)
    BY <1>0, <1>1 DEF StartInv
  <2>3. entry[to] = "erased"
    BY <1>0, <1>1, <1>2, <2>1, <2>2 DEF WriteDrop
  <2> QED
    BY <1>2, <2>3 DEF WriteDrop
<1>3. CASE WriteLate
  BY <1>0, <1>1, <1>3 DEF WriteLate
<1>4. CASE WritePacket
  <2>1. peer[to] # "none" /\ peer \in [Clients -> {"none", "there", "closed"}]
    BY <1>0, <1>1, <1>4 DEF WritePacket, StartInv, IInv, Typed, TypeOK
  <2>2. Live(to) => got' = [got EXCEPT ![to] = writer.data.n]
    BY <1>1, <1>4, <2>1 DEF WritePacket
  <2>3. got' = got \/ got' = [got EXCEPT ![to] = writer.data.n]
    BY <1>4 DEF WritePacket
  <2> QED
    BY <1>0, <1>1, <1>4, <2>2, <2>3 DEF WritePacket
<1> QED
  BY <1>2, <1>3, <1>4

\* A packet that is put down was the next one of its client.
LEMMA PutsDownOrder ==
    ASSUME IInv, PutsDown, NEW c \in Clients, Live(c)'
    PROVE  Ordered(c)'
<1>1. Live(c) /\ Ordered(c) /\ got \in [Clients -> Nat]
  BY DEF PutsDown, IInv, OrderInv, Typed
<1>2. got'[c] = Popped(c)
  BY <1>1 DEF PutsDown, Popped, HoldingFor, Ordered
<1>3. ~HoldingFor(c)' /\ Popped(c)' = Popped(c)
  BY <1>2 DEF PutsDown, Popped, HoldingFor
<1>4. UNCHANGED <<issued, toSend>>
  BY DEF PutsDown
<1> QED
  BY <1>1, <1>3, <1>4 DEF Ordered

LEMMA CarriesOrder ==
    ASSUME IInv, Carries, NEW c \in Clients, Live(c)'
    PROVE  Ordered(c)'
<1>1. Live(c) /\ Ordered(c)
  BY DEF Carries, IInv, OrderInv
<1>2. HoldingFor(c)' <=> HoldingFor(c)
  BY DEF Carries, HoldingFor
<1>3. Popped(c)' = Popped(c)
  BY <1>2 DEF Carries, Popped
<1> QED
  BY <1>1, <1>2, <1>3 DEF Carries, Ordered

\* sendData() adds the next number at the end.
LEMMA SendsOrder ==
    ASSUME IInv, NEW s \in Clients, Sends(s), NEW c \in Clients, Live(c)'
    PROVE  Ordered(c)'
<1>0. /\ Typed /\ issued \in [Clients -> Nat] /\ got \in [Clients -> Nat] /\ toSend \in Seq(Packets)
      /\ Len(toSend) \in Nat
  BY LenProperties DEF IInv, Typed, TypeOK
<1>1. Live(c) /\ Ordered(c)
  BY DEF Sends, Live, IInv, OrderInv
<1>2. UNCHANGED <<got, writer>>
  BY DEF Sends
<1>3. (HoldingFor(c)' <=> HoldingFor(c)) /\ Popped(c)' = Popped(c)
  BY <1>2 DEF HoldingFor, Holding, Popped
<1>4. PICK isBye \in BOOLEAN : LET data == [to |-> s, n |-> issued[s] + 1, bye |-> isBye] IN
         data \in Packets /\ toSend' = Append(toSend, data)
  BY <1>0, SendDataTypes
<1>5. issued' = [issued EXCEPT ![s] = issued[s] + 1]
  BY <1>0, SendDataTypes
<1> DEFINE data == [to |-> s, n |-> issued[s] + 1, bye |-> isBye]
           k == Len(toSend)
<1>6. /\ Len(toSend') = k + 1 /\ toSend'[k + 1] = data
      /\ \A i \in 1 .. k : toSend'[i] = toSend[i]
  BY <1>0, <1>4, AppendProperties
<1>7. data.to = s /\ data.n = issued[s] + 1
  OBVIOUS
<1>8. Popped(c) \in Nat
  BY <1>0 DEF Popped
<1> HIDE DEF data, k
<1>9. k \in Nat
  BY <1>0 DEF k
<1>10. \A i \in 1 .. k + 1 : i \in 1 .. k \/ i = k + 1
  BY <1>9
<1>11. issued'[c] = IF c = s THEN issued[c] + 1 ELSE issued[c]
  BY <1>0, <1>5
<1>12. /\ HoldingFor(c) => writer.data.n = got[c] + 1
       /\ Popped(c) <= issued[c]
       /\ \A i \in 1 .. k : toSend[i].to = c => toSend[i].n \in Popped(c) + 1 .. issued[c]
       /\ \A i, j \in 1 .. k : i < j /\ toSend[i].to = c /\ toSend[j].to = c => toSend[i].n < toSend[j].n
       /\ \A n \in Popped(c) + 1 .. issued[c] : \E i \in 1 .. k : toSend[i].to = c /\ toSend[i].n = n
  BY <1>1 DEF Ordered, k
<1>13. issued[c] \in Nat
  BY <1>0
<1>14. /\ (HoldingFor(c) => writer.data.n = got[c] + 1)'
       /\ Popped(c)' <= issued'[c]
  BY <1>2, <1>3, <1>8, <1>11, <1>12, <1>13
<1>15. ASSUME NEW i \in 1 .. k + 1, toSend'[i].to = c
       PROVE  toSend'[i].n \in Popped(c) + 1 .. issued'[c]
  <2>1. CASE i \in 1 .. k
    BY <1>6, <1>8, <1>11, <1>12, <1>13, <1>15, <2>1
  <2>2. CASE i = k + 1
    BY <1>6, <1>7, <1>8, <1>11, <1>12, <1>13, <1>15, <2>2
  <2> QED
    BY <1>10, <2>1, <2>2
<1>16. ASSUME NEW i \in 1 .. k + 1, NEW j \in 1 .. k + 1, i < j, toSend'[i].to = c, toSend'[j].to = c
       PROVE  toSend'[i].n < toSend'[j].n
  <2>1. i \in 1 .. k
    BY <1>9, <1>16
  <2>2. CASE j \in 1 .. k
    BY <1>6, <1>12, <1>16, <2>1, <2>2
  <2>3. CASE j = k + 1
    <3>1. toSend[i].n \in Popped(c) + 1 .. issued[c]
      BY <1>6, <1>12, <1>16, <2>1
    <3>2. toSend'[i].n = toSend[i].n /\ toSend'[j].n = issued[c] + 1
      BY <1>6, <1>7, <1>16, <2>1, <2>3
    <3> QED
      BY <1>8, <1>13, <3>1, <3>2
  <2> QED
    BY <1>10, <2>2, <2>3
<1>17. ASSUME NEW n \in Popped(c) + 1 .. issued'[c]
       PROVE  \E i \in 1 .. k + 1 : toSend'[i].to = c /\ toSend'[i].n = n
  <2>1. CASE n \in Popped(c) + 1 .. issued[c]
    <3>1. PICK i \in 1 .. k : toSend[i].to = c /\ toSend[i].n = n
      BY <1>12, <2>1
    <3>2. i \in 1 .. k + 1 /\ toSend'[i] = toSend[i]
      BY <1>6, <1>9, <3>1
    <3> QED
      BY <3>1, <3>2
  <2>2. CASE n \notin Popped(c) + 1 .. issued[c]
    <3>1. c = s /\ n = issued[s] + 1
      BY <1>8, <1>11, <1>13, <1>17, <2>2
    <3>2. k + 1 \in 1 .. k + 1
      BY <1>9
    <3> QED
      BY <1>6, <1>7, <3>1, <3>2
  <2> QED
    BY <2>1, <2>2
<1> QED
  BY <1>3, <1>6, <1>14, <1>15, <1>16, <1>17 DEF Ordered

\* The first packet of a client in _toSend is the next one it is to get.
LEMMA PopOrder ==
    ASSUME IInv, WritePop, NEW c \in Clients, Live(c)'
    PROVE  Ordered(c)'
<1>0. /\ issued \in [Clients -> Nat] /\ got \in [Clients -> Nat] /\ toSend \in Seq(Packets) /\ toSend # <<>>
      /\ writer \in [pc : {"top", "sleep", "lock", "cleanup", "ended"}, data : Packets \cup {None},
                     visit : SUBSET Clients]
  BY DEF IInv, Typed, TypeOK, WritePop
<1>1. Live(c) /\ Ordered(c)
  BY DEF WritePop, peerVars, Live, IInv, OrderInv
<1>2. /\ toSend' = Tail(toSend) /\ writer'.pc = "lock" /\ writer'.data = Head(toSend)
      /\ UNCHANGED <<issued, got>> /\ writer.pc = "top"
  BY <1>0 DEF WritePop, ghostVars
<1> DEFINE k == Len(toSend)
<1>3. /\ k \in Nat \ {0} /\ Len(toSend') = k - 1 /\ Head(toSend) = toSend[1]
      /\ \A i \in 1 .. k - 1 : toSend'[i] = toSend[i + 1]
  BY <1>0, <1>2, EmptySeq, HeadTailProperties
<1> HIDE DEF k
<1>4. /\ Popped(c) = got[c]
      /\ HoldingFor(c)' <=> toSend[1].to = c
      /\ Popped(c)' = IF toSend[1].to = c THEN got[c] + 1 ELSE got[c]
  BY <1>2, <1>3 DEF Popped, HoldingFor, Holding
<1>5. /\ got[c] <= issued[c]
      /\ \A i \in 1 .. k : toSend[i].to = c => toSend[i].n \in got[c] + 1 .. issued[c]
      /\ \A i, j \in 1 .. k : i < j /\ toSend[i].to = c /\ toSend[j].to = c => toSend[i].n < toSend[j].n
      /\ \A n \in got[c] + 1 .. issued[c] : \E i \in 1 .. k : toSend[i].to = c /\ toSend[i].n = n
  BY <1>1, <1>4 DEF Ordered, k
<1>6. issued[c] \in Nat /\ got[c] \in Nat
  BY <1>0
<1>7. toSend[1].to = c => toSend[1].n = got[c] + 1 /\ got[c] + 1 <= issued[c]
  <2> SUFFICES ASSUME toSend[1].to = c PROVE toSend[1].n = got[c] + 1 /\ got[c] + 1 <= issued[c]
    OBVIOUS
  <2>1. 1 \in 1 .. k
    BY <1>3
  <2>2. toSend[1].n \in got[c] + 1 .. issued[c]
    BY <1>5, <2>1
  <2>3. got[c] + 1 \in got[c] + 1 .. issued[c]
    BY <1>6, <2>2
  <2>4. PICK i \in 1 .. k : toSend[i].to = c /\ toSend[i].n = got[c] + 1
    BY <1>5, <2>3
  <2>5. i = 1 \/ 1 < i
    BY <2>4
  <2>6. 1 < i => toSend[1].n < got[c] + 1
    BY <1>5, <2>1, <2>4
  <2> QED
    BY <1>6, <2>2, <2>4, <2>5, <2>6
<1>8. /\ HoldingFor(c)' => writer'.data.n = got'[c] + 1
      /\ Popped(c)' <= issued'[c]
  BY <1>2, <1>3, <1>4, <1>5, <1>6, <1>7
<1>9. \A i \in 1 .. k - 1 : i \in 1 .. k /\ i + 1 \in 1 .. k /\ toSend'[i] = toSend[i + 1]
  BY <1>3
<1>10. ASSUME NEW i \in 1 .. k - 1, toSend'[i].to = c
       PROVE  toSend'[i].n \in Popped(c)' + 1 .. issued[c]
  <2>1. toSend[i + 1].n \in got[c] + 1 .. issued[c]
    BY <1>5, <1>9, <1>10
  <2>2. CASE toSend[1].to = c
    <3>1. toSend[1].n < toSend[i + 1].n
      <4>1. 1 \in 1 .. k /\ i + 1 \in 1 .. k /\ 1 < i + 1
        BY <1>3, <1>10
      <4> QED
        BY <1>5, <1>9, <1>10, <2>2, <4>1
    <3> QED
      BY <1>4, <1>6, <1>7, <1>9, <1>10, <2>1, <2>2, <3>1
  <2>3. CASE toSend[1].to # c
    BY <1>4, <1>9, <1>10, <2>1, <2>3
  <2> QED
    BY <2>2, <2>3
<1>11. ASSUME NEW i \in 1 .. k - 1, NEW j \in 1 .. k - 1, i < j, toSend'[i].to = c, toSend'[j].to = c
       PROVE  toSend'[i].n < toSend'[j].n
  <2>1. i + 1 < j + 1
    BY <1>11
  <2> QED
    BY <1>5, <1>9, <1>11, <2>1
<1>12. ASSUME NEW n \in Popped(c)' + 1 .. issued[c]
       PROVE  \E i \in 1 .. k - 1 : toSend'[i].to = c /\ toSend'[i].n = n
  <2>1. n \in got[c] + 1 .. issued[c] /\ (toSend[1].to = c => n # got[c] + 1)
    BY <1>4, <1>6, <1>12
  <2>2. PICK i \in 1 .. k : toSend[i].to = c /\ toSend[i].n = n
    BY <1>5, <2>1
  <2>3. i # 1
    BY <1>7, <2>1, <2>2
  <2>4. i - 1 \in 1 .. k - 1 /\ (i - 1) + 1 = i
    BY <1>3, <2>2, <2>3
  <2>5. toSend'[i - 1] = toSend[i]
    BY <1>9, <2>4
  <2> QED
    BY <2>2, <2>4, <2>5
<1> QED
  BY <1>2, <1>3, <1>8, <1>10, <1>11, <1>12 DEF Ordered

\* _clients.clear(): only clients that never connected are left.
LEMMA ClearOrder ==
    ASSUME IInv, StopClear, NEW c \in Clients, Live(c)'
    PROVE  Ordered(c)'
<1>1. entry[c] = "none"
  BY DEF IInv, Typed, TypeOK, StopClear, Live
<1>2. issued[c] = 0 /\ got[c] = 0
  BY <1>1 DEF IInv, Typed, TypeOK, StartInv
<1>3. UNCHANGED <<issued, got, writer>> /\ writer.pc = "ended" /\ Len(toSend') = 0
  BY EmptySeq DEF StopClear, ghostVars
<1>4. ~HoldingFor(c)' /\ Popped(c)' = 0
  BY <1>2, <1>3 DEF HoldingFor, Holding, Popped
<1> QED
  BY <1>2, <1>3, <1>4 DEF Ordered

\* Every step keeps the order.
LEMMA OrderStep ==
    ASSUME IInv, [Next]_vars
    PROVE  OrderInv'
<1> SUFFICES ASSUME NEW c \in Clients, Live(c)' PROVE Ordered(c)'
  BY DEF OrderInv
<1> QED
  BY Carriers, PuttersDown, CarriesOrder, SendsOrder, PutsDownOrder, PopOrder, ClearOrder

LEMMA Inductive == Spec => []IInv
<1>1. IInv /\ [Next]_vars => IInv'
  BY TypedStep, StartStep, JoinStep, OrderStep DEF IInv
<1> QED
  BY <1>1, InitIInv, PTL DEF Spec

-----------------------------------------------------------------------------

\* Type correctness, for any number of clients: what a peer has received was issued.
THEOREM TypeCorrect == Spec => []TypeOK
<1>1. IInv => TypeOK
  BY DEF IInv, Typed
<1> QED
  BY <1>1, Inductive, PTL

\* For any number of clients, a Client is erased from _clients only after its thread
\* has ended, by the write loop and by _stop() alike.
THEOREM ThreadIsJoined == Spec => []JoinedBeforeErased
<1>1. IInv => JoinedBeforeErased
  BY DEF IInv, JoinInv
<1> QED
  BY <1>1, Inductive, PTL

\* For any number of clients and packets, a peer gets the packets of its client in
\* the order of sendData() and without a gap.
THEOREM PacketsInOrder == Spec => InOrder
<1>1. ASSUME IInv, [Next]_vars
      PROVE  [\A c \in Clients : got'[c] # got[c] => got'[c] = got[c] + 1]_vars
  <2>1. CASE Carries \/ WritePop \/ StopClear \/ \E c \in Clients : Sends(c)
    BY <2>1 DEF Carries, WritePop, StopClear, Sends, ghostVars
  <2>2. CASE WriteDrop \/ WriteLate
    BY <2>2 DEF WriteDrop, WriteLate, ghostVars
  <2>3. CASE WritePacket
    <3> DEFINE to == writer.data.to
    <3>1. to \in Clients /\ entry[to] = "open" /\ got \in [Clients -> Nat]
      BY <1>1, <2>3 DEF WritePacket, IInv, Typed, Holding, Packets
    <3>2. Live(to) => writer.data.n = got[to] + 1
      BY <1>1, <2>3, <3>1 DEF WritePacket, IInv, OrderInv, Ordered, HoldingFor, Holding
    <3>3. got' = got \/ (Live(to) /\ got' = [got EXCEPT ![to] = writer.data.n])
      BY <2>3, <3>1 DEF WritePacket, Live
    <3> QED
      BY <3>1, <3>2, <3>3
  <2> QED
    BY <1>1, <2>1, <2>2, <2>3, Carriers
<1> QED
  BY <1>1, Inductive, PTL DEF Spec, InOrder
=============================================================================
