--------------------------- MODULE MCPacketStream ---------------------------
(***************************************************************************)
(* Sample conversations: every packet of both directions with fields that   *)
(* run through the edges of their types, so that lists are empty or not,    *)
(* optional parts present or not, and numbers negative, zero or at a        *)
(* boundary of the variable-length encoding.                                *)
(***************************************************************************)
EXTENDS PacketStream

CONSTANTS Seeds, Pairs

\* 0, 1, 127, 128, the lowest and the highest number, -1, and a pattern.
Edges(w) == <<{}, {0}, 0 .. 6, {7}, {w - 1}, 0 .. w - 2, 0 .. w - 1, {b \in 0 .. w - 1 : (b % 3) = 0}>>

Edge(w, i) == Edges(w)[(i % 8) + 1]

Text(i) == [k \in 1 .. (i % 3) |-> Edge(8, i + k)]

Tree(i) ==
  Tag("Compound", Text(i),
      <<Tag(TagTypes[(i % 6) + 1], Text(i + 1), Edge(8 * NumberSize[TagTypes[(i % 6) + 1]], i)),
        Tag("LongArray", Text(2), [k \in 1 .. (i % 3) |-> Edge(64, i + k)]),
        Tag("IntArray", <<>>, [k \in 1 .. (i % 2) |-> Edge(32, i)]),
        Tag("List", Text(i), [k \in 1 .. 1 + (i % 2) |-> Tag("Compound", <<>>, <<Tag("String", Text(1), Text(i))>>)]),
        Tag("List", Text(i), <<Tag("List", <<>>, <<Tag("ByteArray", <<>>, Text(i))>>)>>)>>)

\* Coordinates of 26 and of 12 bits, sign-extended.
Coordinate(n, i) == LET low == Edge(n, i) IN low \cup (IF n - 1 \in low THEN n .. 63 ELSE {})

RECURSIVE Sample(_, _, _), SampleAll(_, _, _)

Sample(f, i, ctx) ==
  CASE f[1] = "Bool" -> Edges(8)[(i % 2) + 1]
    [] f[1] \in DOMAIN Size \ {"Bool"} -> Edge(8 * Size[f[1]], i)
    [] f[1] = "VarInt" -> Edge(32, i)
    [] f[1] = "VarLong" -> Edge(64, i)
    [] f[1] \in {"String", "Rest"} -> Text(i)
    [] f[1] = "Position" -> [x |-> Coordinate(26, i), z |-> Coordinate(26, i + 3), y |-> Coordinate(12, i + 1)]
    [] f[1] = "BitSet20" -> Edge(20, i)
    [] f[1] = "NBT" -> Tree(i)
    [] f[1] = "Const" -> f[2]
    [] f[1] = "Opt" -> [k \in 1 .. ((i \div 2) % 2) |-> SampleAll(f[2], i, ctx)]
    [] f[1] = "Many" -> [k \in 1 .. (i % 3) |-> SampleAll(f[2], i + k, ctx)]
    [] f[1] \in Conditional -> IF Holds(f, ctx) THEN <<SampleAll(f[4], i, ctx)>> ELSE <<>>

SampleAll(layout, i, ctx) ==
  IF layout = <<>> THEN <<>>
  ELSE LET first == Sample(Head(layout), i, ctx)
       IN  <<first>> \o SampleAll(Tail(layout), i + 1, Append(ctx, first))

\* The first fields of these packets choose what follows.
Leads(name) ==
  CASE name = "Interact" -> {<<{0}, {}>>, <<{0}, {0}>>, <<{0}, {1}>>}
    [] name = "SeenAdvancements" -> {<<{}>>, <<{0}>>}
    [] name = "StopSound" -> {<<{}>>, <<{0}>>, <<{1}>>, <<{0, 1}>>}
    [] name = "PlayerInfoUpdate" -> {<<a>> : a \in {{0, 1, 2, 3, 4, 5}, {2}, {3, 4}}}
    [] name = "UpdateRecipesBook" -> {<<{}>>, <<{1}>>}
    [] name = "PluginMessage" -> {<<>>, <<Brand>>}
    [] OTHER -> {<<>>}

Samples(layouts, name) ==
  {Packet(name, c \o SampleAll(SubSeq(layouts[name], Len(c) + 1, Len(layouts[name])), i, c)) :
     c \in Leads(name), i \in Seeds}

PlayPackets == UNION {Samples(Serverbound, PacketIDs.Play[i]) : i \in DOMAIN PacketIDs.Play}

\* How the server takes a login.
Host(admits, online, session) == [admits |-> admits, online |-> online, session |-> session]
Offline == Host(TRUE, FALSE, "refused")
Hosts == {Host(FALSE, TRUE, "refused"), Host(TRUE, TRUE, "refused"), Host(TRUE, TRUE, "unreadable"), Host(TRUE, TRUE, "done")}

Says(up, down, status) == [up |-> up, down |-> down, status |-> status, host |-> Offline]

Hello(next) == Packet("Handshake", <<{7, 8}, <<{5}, {6}>>, {0}, next>>)

\* Conversations from the first byte on, with a play packet behind the login in the same stream; with the other ways
\* to take a login, nothing behind what may be the last packet.
Openings ==
  {Says(<<Hello({0}), Packet("StatusRequest", <<>>), p>>, <<>>, "Initial") : p \in Samples(Serverbound, "PingRequest")}
  \cup {Says(<<Hello({1}), p, q>>, <<>>, "Initial") :
          p \in Samples(Serverbound, "LoginStart"), q \in Samples(Serverbound, "KeepAliveResponse")}
  \cup {Says(<<p>>, <<>>, "Login") : p \in Samples(Serverbound, "EncryptionResponse")}

Logins ==
  {[Says(IF h.admits THEN <<Hello({1}), p, q>> ELSE <<Hello({1}), p>>, <<>>, "Initial") EXCEPT !.host = h] :
     p \in Samples(Serverbound, "LoginStart"), q \in Samples(Serverbound, "EncryptionResponse"), h \in Hosts}

Plays == {Says(<<p>>, <<>>, "Play") : p \in PlayPackets}

Follows == {Says(<<Packet("SwingArm", <<{}>>), p, Packet("Pong", <<{3}>>)>>, <<>>, "Play") :
              p \in {q \in PlayPackets : q.name \in Pairs}}

\* Chat with the modes a client may ask for, while another thread sends something.
Talk == Packet("ChatMessage", <<Word, {}, {}, <<>>, {}>>)
Chats ==
  {Says(<<Packet("ClientInformation", <<Word, {3}, mode, {0}, {}, {0}, {}, {0}>>), Talk,
          Packet("ChatCommand", <<Word, {}, {}, <<>>, {}, {}>>), Talk>>,
        <<Sent("UpdateTime", [worldAge |-> {}, timeOfDay |-> {}])>>, "Play") : mode \in {{}, {0}, {1}}}

Messages == {Says(<<>>, <<Sent(p.name, ClientStruct(p.name, p.vals)), Sent("KeepAlive", [id |-> {0, 63}])>>, "Play") :
               p \in UNION {Samples(Clientbound, name) : name \in Sends}}

AllScripts == Openings \cup Logins \cup Plays \cup Follows \cup Chats \cup Messages
SplitScripts == {Says(<<Packet("KeepAliveResponse", <<{0, 63}>>), Packet("SwingArm", <<{}>>)>>, <<>>, "Play")}
=============================================================================
