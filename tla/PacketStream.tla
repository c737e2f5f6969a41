---------------------------- MODULE PacketStream ----------------------------
(***************************************************************************)
(* One connection seen as two streams of bytes.  The peer's packets arrive  *)
(* in reads and are taken apart by Client::_handlePacket(); the server's    *)
(* packets are written by the create* functions.  The streams are those     *)
(* before encrypt() and after decrypt().                                    *)
(***************************************************************************)
EXTENDS Answers

CONSTANTS
  Scripts,    \* what the two sides say: [up |-> packets of the peer, down |-> packets of the server,
              \* status |-> at the start, host |-> how the server takes a login (Answers)]
  Garbage,    \* bytes that may lie behind the end of the receive buffer
  CutsAnywhere \* may a read end at any byte, or only where _handlePacket() tells a whole frame from a part?

VARIABLES
  script,     \* the chosen script
  frames,     \* the bytes of each packet of the peer
  arrived,    \* how many bytes of the peer have been read so far
  recvBuffer, \* Client::_recvBuffer
  client,     \* the connection: [status, visibility (_chatVisibility), log (_messagesLog.size()),
              \* resPck (_resPck, none before a login), handled: what handleParsedClientPacket() was given,
              \* sent: what doWrite() was given, gap: bytes by which the end of _recvBuffer lies before its
              \* beginning, state: is _isRunning set, or has an exception ended the process?]
  written,    \* the bytes written to the peer
  answered    \* how many packets of script.down have been sent

vars == <<script, frames, arrived, recvBuffer, client, written, answered>>

-----------------------------------------------------------------------------
(* The peer: it frames its packets the way finalize() does. *)

StatusOf(name) == CHOOSE s \in DOMAIN PacketIDs : name \in Range(PacketIDs[s])

IdOf(name) == (CHOOSE i \in DOMAIN PacketIDs[StatusOf(name)] : PacketIDs[StatusOf(name)][i] = name) - 1

PeerFrame(p) == Finalize(IdOf(p.name), AddAll(Serverbound[p.name], p.vals))

PeerBytes == FlattenSeq(frames)

-----------------------------------------------------------------------------
(* Client::_handlePacket().  Its eof is one past the last byte, but popVarInt *)
(* takes it for the last byte: it may read the byte g behind the buffer.     *)

\* Variant: a login leaves the status alone.
NextStatusOfHandshake(c, name, p) ==
  CASE name = "Handshake" /\ p.nextState = {0} -> "Status"
    [] name = "Handshake" /\ p.nextState = {1} -> "Login"
    [] OTHER -> c.status

\* What becomes of the status: _onHandshake(), and _loginSequence() at the end of a login.
NextStatus(c, name, p) ==
  CASE name = "Handshake" /\ p.nextState = {0} -> "Status"
    [] name = "Handshake" /\ p.nextState = {1} -> "Login"
    [] Login(name, c.resPck, script.host) = "done" -> "Play"
    [] OTHER -> c.status

\* A login that fails ends in disconnect(), which leaves the packets that have been read to _handlePacket().
NextState(c, name) ==
  CASE Login(name, c.resPck, script.host) = "refused" -> "disconnected"
    [] Login(name, c.resPck, script.host) = "unreadable" -> "terminated"
    [] OTHER -> c.state

\* handleParsedClientPacket(): the switch of the status has a case for every packet that has a parser there;
\* the handler answers, and _onClientInformation() keeps the chat mode.
Dispatch(c, name, p) ==
  IF name \notin Range(PacketIDs[c.status]) THEN c
  ELSE [status     |-> NextStatus(c, name, p),
        state      |-> NextState(c, name),
        gap        |-> c.gap,
        resPck     |-> IF name = "LoginStart" THEN <<p>> ELSE c.resPck,
        visibility |-> IF name = "ClientInformation" THEN p.chatMode ELSE c.visibility,
        log        |-> IF name = "ChatMessage" THEN c.log + 1 ELSE c.log,
        handled    |-> Append(c.handled, [name |-> name, struct |-> p]),
        sent       |-> c.sent \o Replies(name, p, c, script.host)]

RECURSIVE HandlePacket(_, _, _)

\* A length that is not there in full waits; an unknown id or a parse error leaves the rest of the buffer to the
\* next read.  What is not caught ends the process: a length or an id with too many bytes, an id that is cut off
\* (toParse would have a negative size) and a std::length_error of the parser.  A negative length passes the test:
\* the frame then ends inside its own length, or before the buffer.
HandlePacket(data, c, g) ==
  LET padded  == Append(data, g)
      length  == PopVar(padded, 1, 32)
      n       == IF 31 \in length.v THEN -1 - Number((0 .. 30) \ length.v) ELSE Number(length.v)
      id      == PopVar(padded, length.at, 32)
      known   == Number(id.v) + 1 \in DOMAIN PacketIDs[c.status]
      name    == PacketIDs[c.status][Number(id.v) + 1]
      toParse == SubSeq(data, id.at, Len(data))
      end     == length.at - 1 + n
      after   == SubSeq(data, end + 1, Len(data))
      result  == PopAll(Serverbound[name], toParse, 1, <<>>)
      Stop(d) == [buffer |-> d, client |-> c, past |-> end > Len(data)]
      Terminate == [buffer |-> data, client |-> [c EXCEPT !.state = "terminated"], past |-> FALSE]
      Handled == HandlePacket(after, Dispatch(c, name, Struct(name, result.v)), g)
  IN  CASE data = <<>> \/ length.err = "PacketEOF" -> [buffer |-> data, client |-> c, past |-> FALSE]
        [] length.err = "VarIntOverflow" -> Terminate
        [] n > Len(data) - length.at + 2 -> [buffer |-> data, client |-> c, past |-> FALSE]
        [] n = 0 -> HandlePacket(Tail(data), c, g)
        [] OTHER -> CASE id.err # "none" \/ id.at > Len(data) + 1 \/ end < 0 -> Terminate
                      [] ~known -> Stop(after)
                      [] result.err = "length_error" -> Terminate
                      [] result.err \notin {"none", "length_error"} -> Stop(after)
                      [] OTHER -> IF end > Len(data) THEN [Handled EXCEPT !.past = TRUE] ELSE Handled

\* Variant: the send buffer is taken from the end.
WrittenLastFirst(packets) ==
  FlattenSeq([i \in DOMAIN packets |->
                LET p == packets[Len(packets) + 1 - i] IN Finalize(ClientPacketID[p.name], Created(p.name, p.struct))])

\* doWrite(create...()).
Written(packets) ==
  FlattenSeq([i \in DOMAIN packets |->
                Finalize(ClientPacketID[packets[i].name], Created(packets[i].name, packets[i].struct))])

\* What erase() makes of a range that ends one byte behind the buffer is undefined: the buffer is empty, or it ends
\* before it begins and swallows the next byte, or the process is gone.
Erased(outcome) ==
  IF ~outcome.past THEN {outcome.client}
  ELSE {outcome.client, [outcome.client EXCEPT !.gap = 1], [client EXCEPT !.state = "terminated"]}

\* doRead(): some bytes arrive and are handled; the loop ends when the client is disconnected.
DoRead(n, g) ==
  /\ client.state = "running"
  /\ n > arrived /\ n <= Len(PeerBytes)
  /\ LET outcome == HandlePacket(recvBuffer \o SubSeq(PeerBytes, arrived + 1 + client.gap, n),
                                 [client EXCEPT !.gap = 0], g)
     IN  /\ recvBuffer' = outcome.buffer
         /\ client' \in Erased(outcome)
  /\ written' = written \o Written(SubSeq(client'.sent, Len(client.sent) + 1, Len(client'.sent)))
  /\ arrived' = n
  /\ UNCHANGED <<script, frames, answered>>

\* Another thread has something to send: the next packet of the server.
DoWrite ==
  /\ client.state # "terminated" /\ answered < Len(script.down)
  /\ LET p == script.down[answered + 1]
     IN  /\ p.name \in Sends
         /\ client' = [client EXCEPT !.sent = Append(@, p)]
         /\ written' = written \o Written(<<p>>)
  /\ answered' = answered + 1
  /\ UNCHANGED <<script, frames, arrived, recvBuffer>>

-----------------------------------------------------------------------------
\* Where the first k frames of the peer end.
FrameEnd(k) == Len(FlattenSeq(SubSeq(frames, 1, k)))

\* Where a read may end without confusing _handlePacket(): behind a frame, or two bytes or more before its
\* end with its length field complete.
WholeOrApart(n) ==
  \A k \in DOMAIN script.up :
    \/ n <= FrameEnd(k - 1) \/ n >= FrameEnd(k)
    \/ /\ n <= FrameEnd(k) - 2
       /\ PopVar(SubSeq(PeerBytes, 1, n), FrameEnd(k - 1) + 1, 32).err = "none"

Cuts == {n \in 1 .. Len(PeerBytes) : CutsAnywhere \/ WholeOrApart(n)}

Init ==
  /\ script \in Scripts
  /\ frames = [i \in DOMAIN script.up |-> PeerFrame(script.up[i])]
  /\ arrived = 0 /\ recvBuffer = <<>>
  /\ client = [status |-> script.status, state |-> "running", visibility |-> {}, log |-> 0, resPck |-> <<>>,
               gap |-> 0, handled |-> <<>>, sent |-> <<>>]
  /\ written = <<>> /\ answered = 0

Next ==
  \/ \E n \in Cuts, g \in Garbage : DoRead(n, g)
  \/ DoWrite

Spec == Init /\ [][Next]_vars

-----------------------------------------------------------------------------
\* The struct holds what the peer said.  popBitSet() loses the acknowledgements of chat packets, which nothing uses.
SamePacket(h, p) ==
  /\ h.name = p.name
  /\ \A m \in DOMAIN h.struct \ {"acknowledged"} : h.struct[m] = Struct(p.name, p.vals)[m]

\* However many packets a read brings, and if it ends inside one, at least two bytes before the end and behind its
\* length: a packet is handled as soon as its frame is complete, once, in the order sent, with every field as the
\* peer wrote it, and under the status its predecessors in the same read have led to.  (Of the other cuts
\* IncompletePacketsWait shows what _handlePacket() does.)
FramesAreHandled ==
  LET complete == {k \in DOMAIN script.up : FrameEnd(k) <= arrived}
  IN  /\ Len(client.handled) = Cardinality(complete)
      /\ \A k \in complete : SamePacket(client.handled[k], script.up[k])

RECURSIVE PeerReads(_, _, _)

\* The peer takes the server's bytes apart frame by frame; it knows which packets to expect.
PeerReads(bytes, expected, seen) ==
  IF bytes = <<>> THEN seen
  ELSE LET length == PopVar(bytes, 1, 32)
           last   == length.at + Number(length.v) - 1
           frame  == SubSeq(bytes, length.at, last)
           id     == PopVar(frame, 1, 32)
           name   == Head(expected).name
           fields == PopAll(Clientbound[name], frame, id.at, <<>>)
       IN  IF \/ length.err # "none" \/ last > Len(bytes) \/ Number(id.v) # ClientPacketID[name]
              \/ fields.err # "none" \/ fields.at # Len(frame) + 1
           THEN Append(seen, "unreadable")
           ELSE PeerReads(SubSeq(bytes, last + 1, Len(bytes)), Tail(expected),
                          Append(seen, Sent(name, ClientStruct(name, fields.v))))

\* What create*() and finalize() write can be read back: the frames are exactly as long as they say and give the
\* peer every member of every struct, with its lists, optional parts and NBT trees, in the order written: all that
\* the login sequence and the handlers answer, and whatever another thread sends meanwhile.
AnswersAreReadable == PeerReads(written, client.sent, <<>>) = client.sent

\* A packet that is cut short is never taken for a whole one: the bounds checks of the pop* functions throw
\* PacketEOF for every proper prefix of every packet, and never look behind it.
TruncationIsDetected ==
  arrived = 0 =>
    \A k \in DOMAIN script.up :
      LET p == script.up[k]
          payload == AddAll(Serverbound[p.name], p.vals)
      IN  \A n \in 0 .. Len(payload) - 1 :
            PopAll(Serverbound[p.name], SubSeq(payload, 1, n), 1, <<>>).err = "PacketEOF"

\* "Not enough data in buffer to parse the packet" (Client.cpp:217), "Not enough data in buffer to parse the length
\* of the packet" (Client.cpp:223): a packet that has not arrived in full waits for the rest.
IncompletePacketsWait ==
  LET ends == {FrameEnd(k) : k \in 0 .. Len(frames)}
  IN  client.state = "running" => recvBuffer = SubSeq(PeerBytes, Max({e \in ends : e <= arrived}) + 1, arrived)
=============================================================================
