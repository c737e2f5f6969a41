--------------------------- MODULE ServerNetwork ----------------------------
(***************************************************************************)
(* Server and Client: the accept handler, the thread that reads from each  *)
(* socket, the single thread that writes to all of them from the lock-free *)
(* queue _toSend, the removal of disconnected clients from _clients, and   *)
(* Server::_stop().  clientsMutex is held by the writer while it cleans up *)
(* and writes, by _stop() while it disconnects and joins, and for a moment *)
(* by a client thread that answers a status request.                       *)
(*                                                                         *)
(* Packets are numbered per client in the order of Server::sendData().     *)
(* The peers are the programs at the other end of the sockets: guests ask  *)
(* for the status, players send keep-alives and the like.  Nothing makes   *)
(* them do either, or hang up.                                             *)
(***************************************************************************)
EXTENDS Integers, Sequences, FiniteSets

CONSTANTS
    Clients,
    Scenarios,        \* who never logs in, who may be kicked, may the server stop
    None,             \* no packet
    MaxAsks,          \* bound on the status requests of one guest
    MaxPushes         \* bound on the packets pushed to one player

ASSUME ScenariosAssumption ==
    Scenarios \subseteq [guests : SUBSET Clients, kicked : SUBSET Clients, stoppable : BOOLEAN]
ASSUME NetworkBoundsAssumption == MaxAsks \in Nat /\ MaxPushes \in Nat

VARIABLES
    scenario,
    entry,            \* client -> its place in _clients
    isRunning,        \* client -> Client::_isRunning
    thread,           \* client -> where doRead() is
    inbox,            \* client -> the socket holds a packet
    peer,             \* client -> the other end
    asks,             \* client -> status requests the peer has made
    pushes,           \* client -> packets pushed to the player
    kick,             \* client -> progress of a disconnect() by another thread
    issued,           \* client -> packets given to sendData()
    got,              \* client -> number of the last packet the peer received
    bye,              \* clients whose peer received the disconnect packet
    toSend,           \* _toSend
    clientsMutex,
    writer,           \* the write loop: pc, packet in hand, clients still to look at
    main              \* the thread of launch(): in run(), or a step of _stop()

vars == <<scenario, entry, isRunning, thread, inbox, peer, asks, pushes, kick, issued, got,
          bye, toSend, clientsMutex, writer, main>>
peerVars == <<peer, asks>>
ghostVars == <<got, bye>>

Guests == scenario.guests
Players == Clients \ Guests
Open == {c \in Clients : entry[c] = "open"}
Packets == [to : Clients, n : Nat, bye : BOOLEAN]

Init ==
    /\ scenario \in Scenarios
    /\ entry = [c \in Clients |-> "none"]
    /\ isRunning = [c \in Clients |-> FALSE]
    /\ thread = [c \in Clients |-> "none"]
    /\ inbox = [c \in Clients |-> FALSE]
    /\ peer = [c \in Clients |-> "none"]
    /\ asks = [c \in Clients |-> 0]
    /\ pushes = [c \in Clients |-> 0]
    /\ kick = [c \in Clients |-> "none"]
    /\ issued = [c \in Clients |-> 0]
    /\ got = [c \in Clients |-> 0]
    /\ bye = {}
    /\ toSend = <<>>
    /\ clientsMutex = "free"
    /\ writer = [pc |-> "top", data |-> None, visit |-> {}]
    /\ main = "serve"

\* Variant: a stack where the code has a queue.
SendDataInFront(c, isBye) ==
    /\ issued' = [issued EXCEPT ![c] = @ + 1]
    /\ toSend' = <<[to |-> c, n |-> issued[c] + 1, bye |-> isBye]>> \o toSend

\* doWrite() and sendData(): the packet goes to the end of _toSend.  A packet is
\* numbered when it gets there; doWrite() encrypts it a moment earlier.
SendData(c, isBye) ==
    /\ issued' = [issued EXCEPT ![c] = @ + 1]
    /\ toSend' = Append(toSend, [to |-> c, n |-> issued[c] + 1, bye |-> isBye])

-----------------------------------------------------------------------------
(* The peers                                                               *)

\* The accept handler: the client is put into _clients and its thread started.
\* Unless stop() was called meanwhile, the handler goes on to accept again.
Accept(c) ==
    /\ main \in {"serve", "missed"}
    /\ entry[c] = "none"
    /\ main' = IF main = "serve" THEN "rearm" ELSE "lock"
    /\ entry' = [entry EXCEPT ![c] = "open"]
    /\ isRunning' = [isRunning EXCEPT ![c] = TRUE]
    /\ thread' = [thread EXCEPT ![c] = "loop"]
    /\ peer' = [peer EXCEPT ![c] = "there"]
    /\ UNCHANGED <<scenario, inbox, asks, pushes, kick, issued, ghostVars, toSend,
                   clientsMutex, writer>>

\* _doAccept() at the end of the handler.
Rearm ==
    /\ main = "rearm"
    /\ main' = "serve"
    /\ UNCHANGED <<scenario, entry, isRunning, thread, inbox, peerVars, pushes, kick, issued,
                   ghostVars, toSend, clientsMutex, writer>>

\* A status request.
PeerAsks(c) ==
    /\ c \in Guests
    /\ peer[c] = "there"
    /\ asks[c] < MaxAsks
    /\ ~inbox[c]
    /\ asks' = [asks EXCEPT ![c] = @ + 1]
    /\ inbox' = [inbox EXCEPT ![c] = TRUE]
    /\ UNCHANGED <<scenario, entry, isRunning, thread, peer, pushes, kick, issued, ghostVars,
                   toSend, clientsMutex, writer, main>>

\* A keep-alive response, or any other packet of a player; what the server
\* sends in answer to it is a Push.
PeerIsAlive(c) ==
    /\ c \in Players
    /\ peer[c] = "there"
    /\ ~inbox[c]
    /\ inbox' = [inbox EXCEPT ![c] = TRUE]
    /\ UNCHANGED <<scenario, entry, isRunning, thread, peerVars, pushes, kick, issued,
                   ghostVars, toSend, clientsMutex, writer, main>>

PeerHangsUp(c) ==
    /\ peer[c] = "there"
    /\ peer' = [peer EXCEPT ![c] = "closed"]
    /\ UNCHANGED <<scenario, entry, isRunning, thread, inbox, asks, pushes, kick, issued,
                   ghostVars, toSend, clientsMutex, writer, main>>

-----------------------------------------------------------------------------
(* The thread of a client: doRead()                                        *)

\* while (_isRunning)
LoopOrEnd(c) == IF isRunning[c] THEN "read" ELSE "ended"

\* The thread starts.
ReadLoop(c) ==
    /\ thread[c] = "loop"
    /\ thread' = [thread EXCEPT ![c] = LoopOrEnd(c)]
    /\ UNCHANGED <<scenario, entry, isRunning, inbox, peerVars, pushes, kick, issued, ghostVars,
                   toSend, clientsMutex, writer, main>>

\* read_some() returns data and _handlePacket() handles it: for a player
\* nothing but the end of the read matters here, a guest wants the status.
ReadSome(c) ==
    /\ thread[c] = "read"
    /\ inbox[c]
    /\ inbox' = [inbox EXCEPT ![c] = FALSE]
    /\ thread' = [thread EXCEPT ![c] = IF c \in Guests THEN "status" ELSE LoopOrEnd(c)]
    /\ UNCHANGED <<scenario, entry, isRunning, peerVars, pushes, kick, issued, ghostVars, toSend,
                   clientsMutex, writer, main>>

\* ... or an error, which ends the thread.
ReadError(c) ==
    /\ thread[c] = "read"
    /\ ~inbox[c]
    /\ peer[c] = "closed"
    /\ isRunning' = [isRunning EXCEPT ![c] = FALSE]
    /\ thread' = [thread EXCEPT ![c] = "ended"]
    /\ UNCHANGED <<scenario, entry, inbox, peerVars, pushes, kick, issued, ghostVars, toSend,
                   clientsMutex, writer, main>>

\* _onStatusRequest(): the online players are counted under clientsMutex, then
\* the response is sent.
OnStatusRequest(c) ==
    /\ thread[c] = "status"
    /\ clientsMutex = "free"
    /\ SendData(c, FALSE)
    /\ thread' = [thread EXCEPT ![c] = LoopOrEnd(c)]
    /\ UNCHANGED <<scenario, entry, isRunning, inbox, peerVars, pushes, kick, ghostVars,
                   clientsMutex, writer, main>>

-----------------------------------------------------------------------------
(* Other threads of the server, through GET_CLIENT()                       *)

\* A tick, a chat line or a chunk for a player.
Push(c) ==
    /\ c \in Players
    /\ entry[c] = "open"
    /\ main # "stopped"
    /\ pushes[c] < MaxPushes
    /\ pushes' = [pushes EXCEPT ![c] = @ + 1]
    /\ SendData(c, FALSE)
    /\ UNCHANGED <<scenario, entry, isRunning, thread, inbox, peerVars, kick, ghostVars,
                   clientsMutex, writer, main>>

\* Player::disconnect(): the disconnect packet ...
KickWrite(c) ==
    /\ c \in Players \cap scenario.kicked
    /\ entry[c] = "open"
    /\ kick[c] = "none"
    /\ main # "stopped"
    /\ kick' = [kick EXCEPT ![c] = "written"]
    /\ SendData(c, TRUE)
    /\ UNCHANGED <<scenario, entry, isRunning, thread, inbox, peerVars, pushes, ghostVars,
                   clientsMutex, writer, main>>

\* ... and the flag.
KickFlag(c) ==
    /\ kick[c] = "written"
    /\ kick' = [kick EXCEPT ![c] = "done"]
    /\ isRunning' = [isRunning EXCEPT ![c] = FALSE]
    /\ UNCHANGED <<scenario, entry, thread, inbox, peerVars, pushes, issued, ghostVars,
                   toSend, clientsMutex, writer, main>>

-----------------------------------------------------------------------------
(* The write loop                                                          *)

\* A packet is taken from the queue.
WritePop ==
    /\ writer.pc = "top"
    /\ toSend # <<>>
    /\ writer' = [writer EXCEPT !.pc = "lock", !.data = Head(toSend)]
    /\ toSend' = Tail(toSend)
    /\ UNCHANGED <<scenario, entry, isRunning, thread, inbox, peerVars, pushes, kick, issued,
                   ghostVars, clientsMutex, main>>

\* The queue is empty: the loop sleeps ...
WriteSleep ==
    /\ writer.pc = "top"
    /\ toSend = <<>>
    /\ writer' = [writer EXCEPT !.pc = "sleep"]
    /\ UNCHANGED <<scenario, entry, isRunning, thread, inbox, peerVars, pushes, kick, issued,
                   ghostVars, toSend, clientsMutex, main>>

\* ... and ends when it finds _hasTerminated, whatever came in meanwhile.
WriteWake ==
    /\ writer.pc = "sleep"
    /\ writer' = [writer EXCEPT !.pc = IF main = "joinWriter" THEN "ended" ELSE "top"]
    /\ UNCHANGED <<scenario, entry, isRunning, thread, inbox, peerVars, pushes, kick, issued,
                   ghostVars, toSend, clientsMutex, main>>

\* clientsMutex, for the packet in hand; all clients are gone through first.
WriteLock ==
    /\ writer.pc = "lock"
    /\ clientsMutex = "free"
    /\ clientsMutex' = "writer"
    /\ writer' = [writer EXCEPT !.pc = "cleanup", !.visit = Open]
    /\ UNCHANGED <<scenario, entry, isRunning, thread, inbox, peerVars, pushes, kick, issued,
                   ghostVars, toSend, main>>

\* Variant: a disconnected client is erased without waiting for its thread.
CleanupWithoutJoin(c) ==
    /\ writer.pc = "cleanup"
    /\ c \in writer.visit
    /\ entry' = [entry EXCEPT ![c] = IF isRunning[c] THEN @ ELSE "erased"]
    /\ writer' = [writer EXCEPT !.visit = @ \ {c}]
    /\ UNCHANGED <<scenario, isRunning, thread, inbox, peerVars, pushes, kick, issued,
                   ghostVars, toSend, clientsMutex, main>>

\* Variant: running clients are joined too.
CleanupJoinsAll(c) ==
    /\ writer.pc = "cleanup"
    /\ c \in writer.visit
    /\ thread[c] = "ended"
    /\ entry' = [entry EXCEPT ![c] = "erased"]
    /\ writer' = [writer EXCEPT !.visit = @ \ {c}]
    /\ UNCHANGED <<scenario, isRunning, thread, inbox, peerVars, pushes, kick, issued, ghostVars,
                   toSend, clientsMutex, main>>

\* triggerClientCleanup(): a running client stays; any other is joined, which
\* waits for its thread, and erased.
Cleanup(c) ==
    /\ writer.pc = "cleanup"
    /\ c \in writer.visit
    /\ isRunning[c] \/ thread[c] = "ended"
    /\ entry' = [entry EXCEPT ![c] = IF isRunning[c] THEN @ ELSE "erased"]
    /\ writer' = [writer EXCEPT !.visit = @ \ {c}]
    /\ UNCHANGED <<scenario, isRunning, thread, inbox, peerVars, pushes, kick, issued,
                   ghostVars, toSend, clientsMutex, main>>

\* Back to the top of the loop, without the mutex.
Released == [pc |-> "top", data |-> None, visit |-> {}]

\* The client of the packet is not in _clients: the packet is dropped.
WriteDrop ==
    /\ writer.pc = "cleanup"
    /\ writer.visit = {}
    /\ entry[writer.data.to] # "open"
    /\ writer' = Released
    /\ clientsMutex' = "free"
    /\ UNCHANGED <<scenario, entry, isRunning, thread, inbox, peerVars, pushes, kick, issued,
                   ghostVars, toSend, main>>

\* It has been disconnected since the cleanup looked at it: triggerClientCleanup(id).
WriteLate ==
    LET c == writer.data.to IN
    /\ writer.pc = "cleanup"
    /\ writer.visit = {}
    /\ entry[c] = "open"
    /\ ~isRunning[c]
    /\ thread[c] = "ended"
    /\ entry' = [entry EXCEPT ![c] = "erased"]
    /\ writer' = Released
    /\ clientsMutex' = "free"
    /\ UNCHANGED <<scenario, isRunning, thread, inbox, peerVars, pushes, kick, issued,
                   ghostVars, toSend, main>>

\* boost::asio::write(); an error is logged and otherwise ignored.
WritePacket ==
    LET p == writer.data IN
    /\ writer.pc = "cleanup"
    /\ writer.visit = {}
    /\ entry[p.to] = "open"
    /\ isRunning[p.to]
    /\ got' = IF peer[p.to] = "there" THEN [got EXCEPT ![p.to] = p.n] ELSE got
    /\ bye' = IF p.bye /\ peer[p.to] = "there" THEN bye \cup {p.to} ELSE bye
    /\ writer' = Released
    /\ clientsMutex' = "free"
    /\ UNCHANGED <<scenario, entry, isRunning, thread, inbox, peerVars, pushes, kick, issued,
                   toSend, main>>

-----------------------------------------------------------------------------
(* Server::stop() and _stop()                                              *)

\* stop(): the acceptor is cancelled, run() returns and _stop() begins.  A
\* handler that has found _running set and not called async_accept() yet misses
\* the cancellation: run() then goes on until one more client has come.
Stop ==
    /\ scenario.stoppable
    /\ main \in {"serve", "rearm"}
    /\ main' = IF main = "serve" THEN "lock" ELSE "missed"
    /\ UNCHANGED <<scenario, entry, isRunning, thread, inbox, peerVars, pushes, kick, issued,
                   ghostVars, toSend, clientsMutex, writer>>

StopLock ==
    /\ main = "lock"
    /\ clientsMutex = "free"
    /\ clientsMutex' = "main"
    /\ main' = "disconnect"
    /\ UNCHANGED <<scenario, entry, isRunning, thread, inbox, peerVars, pushes, kick, issued,
                   ghostVars, toSend, writer>>

\* Variant: the packet is sent and _isRunning is left alone.
StopDisconnectPacketOnly(c) ==
    /\ main = "disconnect"
    /\ c \in Open
    /\ kick[c] # "stop"
    /\ kick' = [kick EXCEPT ![c] = "stop"]
    /\ SendData(c, TRUE)
    /\ UNCHANGED <<scenario, entry, isRunning, thread, inbox, peerVars, pushes, ghostVars,
                   clientsMutex, writer, main>>

\* client->disconnect("Server Closed") for each client.
StopDisconnect(c) ==
    /\ main = "disconnect"
    /\ c \in Open
    /\ kick[c] # "stop"
    /\ kick' = [kick EXCEPT ![c] = "stop"]
    /\ SendData(c, TRUE)
    /\ isRunning' = [isRunning EXCEPT ![c] = FALSE]
    /\ UNCHANGED <<scenario, entry, thread, inbox, peerVars, pushes, ghostVars, clientsMutex,
                   writer, main>>

\* Every client thread is joined before clientsMutex is given back.
StopJoin ==
    /\ main = "disconnect"
    /\ \A c \in Open : kick[c] = "stop" /\ thread[c] = "ended"
    /\ clientsMutex' = "free"
    /\ main' = "drain"
    /\ UNCHANGED <<scenario, entry, isRunning, thread, inbox, peerVars, pushes, kick, issued,
                   ghostVars, toSend, writer>>

\* The queue has drained or the five seconds are over: _hasTerminated = true.
StopDrained ==
    /\ main = "drain"
    /\ main' = "joinWriter"
    /\ UNCHANGED <<scenario, entry, isRunning, thread, inbox, peerVars, pushes, kick, issued,
                   ghostVars, toSend, clientsMutex, writer>>

\* The writer is joined, what is left in the queue deleted, _clients cleared.
StopClear ==
    /\ main = "joinWriter"
    /\ writer.pc = "ended"
    /\ toSend' = <<>>
    /\ entry' = [c \in Clients |-> IF entry[c] = "open" THEN "erased" ELSE entry[c]]
    /\ main' = "stopped"
    /\ UNCHANGED <<scenario, isRunning, thread, inbox, peerVars, pushes, kick, issued,
                   ghostVars, clientsMutex, writer>>

-----------------------------------------------------------------------------

ClientStep(c) == ReadLoop(c) \/ ReadSome(c) \/ ReadError(c) \/ OnStatusRequest(c)

WriterStep ==
    \/ WritePop \/ WriteSleep \/ WriteWake \/ WriteLock
    \/ \E c \in Clients : Cleanup(c)
    \/ WriteDrop \/ WriteLate \/ WritePacket

StopStep == StopLock \/ StopJoin \/ StopDrained \/ StopClear \/ \E c \in Clients : StopDisconnect(c)

\* The server waits for its peers or is gone; nobody holds clientsMutex.
Quiet == main \in {"serve", "missed", "stopped"} /\ clientsMutex = "free" /\ UNCHANGED vars

Next ==
    \/ \E c \in Clients : Accept(c) \/ PeerAsks(c) \/ PeerIsAlive(c) \/ PeerHangsUp(c)
    \/ \E c \in Clients : ClientStep(c)
    \/ \E c \in Clients : Push(c) \/ KickWrite(c) \/ KickFlag(c)
    \/ WriterStep
    \/ Rearm
    \/ Stop
    \/ StopStep
    \/ Quiet

(***************************************************************************)
(* The server's threads run whenever they are not blocked.  Of the peers   *)
(* nothing is assumed: read_some() has no timeout, and a peer may say      *)
(* nothing for ever.                                                       *)
(***************************************************************************)
Fairness ==
    /\ \A c \in Clients : WF_vars(ClientStep(c)) /\ WF_vars(KickFlag(c))
    /\ WF_vars(WriterStep)
    /\ WF_vars(Rearm)
    /\ WF_vars(StopStep)

Spec == Init /\ [][Next]_vars /\ Fairness

\* The most helpful peers there can be: players answer keep-alives for as long as
\* they stay, and guests hang up in the end.
HelpfulPeers ==
    \A c \in Clients : WF_vars(PeerIsAlive(c)) /\ WF_vars(c \in Guests /\ PeerHangsUp(c))

HelpfulSpec == Spec /\ HelpfulPeers

-----------------------------------------------------------------------------
(* Properties                                                              *)

\* Every variable has its type; no peer gets a packet nobody sent.
TypeOK ==
    /\ scenario \in Scenarios
    /\ entry \in [Clients -> {"none", "open", "erased"}]
    /\ isRunning \in [Clients -> BOOLEAN]
    /\ thread \in [Clients -> {"none", "loop", "read", "status", "ended"}]
    /\ inbox \in [Clients -> BOOLEAN]
    /\ peer \in [Clients -> {"none", "there", "closed"}]
    /\ asks \in [Clients -> 0 .. MaxAsks]
    /\ pushes \in [Clients -> 0 .. MaxPushes]
    /\ kick \in [Clients -> {"none", "written", "done", "stop"}]
    /\ issued \in [Clients -> Nat]
    /\ \A c \in Clients : got[c] \in 0 .. issued[c]
    /\ bye \subseteq Clients
    /\ toSend \in Seq(Packets)
    /\ clientsMutex \in {"free", "writer", "main"}
    /\ writer \in [pc : {"top", "sleep", "lock", "cleanup", "ended"}, data : Packets \cup {None},
                   visit : SUBSET Clients]
    /\ main \in {"serve", "rearm", "missed", "lock", "disconnect", "drain", "joinWriter", "stopped"}

\* A Client object is destroyed only after its thread has ended, whoever erases
\* it: the thread uses the object to its last instruction, and destroying a
\* std::thread that was not joined ends the program.
JoinedBeforeErased == \A c \in Clients : entry[c] = "erased" => thread[c] = "ended"

\* A peer receives its packets in the order of sendData() and without a gap: what
\* the writer drops is dropped for good, for encryption is a stream.
InOrder == [][\A c \in Clients : got'[c] # got[c] => got'[c] = got[c] + 1]_vars

\* The thread of a client that was disconnected is in read_some(), and its peer,
\* whom nobody has told, says nothing.
IsSilent(c) == ~isRunning[c] /\ thread[c] = "read" /\ ~inbox[c] /\ peer[c] = "there"

\* Somebody joins that thread and holds clientsMutex meanwhile: the writer in
\* triggerClientCleanup() or _stop().
Stalled ==
    \E c \in Clients :
        /\ IsSilent(c)
        /\ \/ writer.pc = "cleanup" /\ c \in writer.visit \cup {writer.data.to}
           \/ main = "disconnect"

\* Output flows: a packet for a player arrives unless that player goes, even
\* while other clients are kicked, hang up or are joined by the writer.  One
\* thing alone can keep it for ever: the writer, or _stop(), joins the thread of
\* a disconnected client whose peer never says a word again.
OutputFlows ==
    \A c \in Clients, n \in 1 .. (MaxAsks + MaxPushes) :
        \/ issued[c] >= n ~> got[c] >= n \/ ~isRunning[c] \/ peer[c] = "closed"
        \/ <>[]Stalled

\* _stop() gets through once it has begun, whatever the order in which clients,
\* kicks and the writer come to their ends, but for the same one thing.
OnlyPeersDelayStop == (main = "lock" ~> main = "stopped") \/ <>[]Stalled

\* _stop() gets through once it has begun.
StopEnds == main = "lock" ~> main = "stopped"
=============================================================================
