----------------------------- MODULE KeepAlive ------------------------------
(***************************************************************************)
(* How the server notices that a player's program is gone: the TickClock   *)
(* _keepAliveClock of Player, _processKeepAlive() on the thread of the     *)
(* dimension, _onKeepAliveResponse() on the thread of the client, and the  *)
(* program at the other end, which answers each keep-alive it receives     *)
(* after any delay, until it falls silent.                                 *)
(*                                                                         *)
(* An id is the time at which it was made.  Only whether two ids differ    *)
(* matters and at most one is outstanding, so two values are enough.       *)
(***************************************************************************)
EXTENDS Naturals, Sequences

CONSTANTS
    TickRate,         \* 200 in the code
    MaxTicks          \* MAX_TICK_BEFORE_TIMEOUT, 6000 in the code

ASSUME KeepAliveAssumption == TickRate \in Nat \ {0} /\ MaxTicks \in Nat \ {0}

\* The uint8_t _keepAliveIgnored can count far enough.
ASSUME IgnoredAssumption == MaxTicks <= 255 * TickRate

VARIABLES
    tick,             \* TickClock::_tick
    step,             \* where _processKeepAlive() is
    keepAliveId,      \* _keepAliveId, 0 for none
    newest,           \* the last id that was made
    ignored,          \* _keepAliveIgnored
    toPeer,           \* ids on their way to the player's program
    toServer,         \* responses on their way back
    silent,           \* the program answers no more
    end,              \* why the server disconnected the player, if it did
    waited,           \* ticks for which an answer was outstanding, up to MaxTicks
    idle              \* those of them since the last answer, up to MaxTicks

vars == <<tick, step, keepAliveId, newest, ignored, toPeer, toServer, silent, end, waited, idle>>
waits == <<waited, idle>>

Ids == {1, 2}
Fresh == 3 - newest

Init ==
    /\ tick = 0
    /\ step = "none"
    /\ keepAliveId = 0
    /\ newest = 1
    /\ ignored = 0
    /\ toPeer = <<>>
    /\ toServer = <<>>
    /\ silent = FALSE
    /\ end = "none"
    /\ waited = 0
    /\ idle = 0

\* Counts a tick of waiting, up to MaxTicks.
Counted(n) == IF keepAliveId = 0 \/ n = MaxTicks THEN n ELSE n + 1

\* TickClock::tick(): every TickRate ticks the callback is called.
Tick ==
    /\ end = "none"
    /\ step = "none"
    /\ tick' = IF tick + 1 < TickRate THEN tick + 1 ELSE 0
    /\ step' = IF tick + 1 < TickRate THEN "none" ELSE "process"
    /\ waited' = Counted(waited)
    /\ idle' = Counted(idle)
    /\ UNCHANGED <<keepAliveId, newest, ignored, toPeer, toServer, silent, end>>

\* Variant: the answer that is missing is not counted.
ProcessWithoutCount ==
    /\ step = "process"
    /\ step' = IF keepAliveId = 0 THEN "send" ELSE "none"
    /\ newest' = IF keepAliveId = 0 THEN Fresh ELSE newest
    /\ keepAliveId' = IF keepAliveId = 0 THEN Fresh ELSE keepAliveId
    /\ UNCHANGED <<tick, ignored, toPeer, toServer, silent, end, waits>>

\* Variant: the limit is compared with one more than what was ignored.
ProcessTooEarly ==
    /\ step = "process"
    /\ step' = IF keepAliveId = 0 THEN "send" ELSE "none"
    /\ newest' = IF keepAliveId = 0 THEN Fresh ELSE newest
    /\ keepAliveId' = IF keepAliveId = 0 THEN Fresh ELSE keepAliveId
    /\ ignored' = IF keepAliveId = 0 THEN ignored ELSE ignored + 1
    /\ end' = IF keepAliveId # 0 /\ TickRate * (ignored' + 1) >= MaxTicks THEN "timeout" ELSE end
    /\ UNCHANGED <<tick, toPeer, toServer, silent, waits>>

\* _processKeepAlive(): an answer that is still missing is counted, and too many
\* of them end the connection; otherwise the next id is stored ...
Process ==
    /\ step = "process"
    /\ step' = IF keepAliveId = 0 THEN "send" ELSE "none"
    /\ newest' = IF keepAliveId = 0 THEN Fresh ELSE newest
    /\ keepAliveId' = IF keepAliveId = 0 THEN Fresh ELSE keepAliveId
    /\ ignored' = IF keepAliveId = 0 THEN ignored ELSE (ignored + 1) % 256
    /\ end' = IF keepAliveId # 0 /\ TickRate * ignored' >= MaxTicks THEN "timeout" ELSE end
    /\ UNCHANGED <<tick, toPeer, toServer, silent, waits>>

\* ... and then sent.
SendKeepAlive ==
    /\ step = "send"
    /\ step' = "none"
    /\ toPeer' = Append(toPeer, newest)
    /\ UNCHANGED <<tick, keepAliveId, newest, ignored, toServer, silent, end, waits>>

\* The program answers.
PeerAnswers ==
    /\ ~silent
    /\ toPeer # <<>>
    /\ toServer' = Append(toServer, Head(toPeer))
    /\ toPeer' = Tail(toPeer)
    /\ UNCHANGED <<tick, step, keepAliveId, newest, ignored, silent, end, waits>>

PeerFallsSilent ==
    /\ ~silent
    /\ silent' = TRUE
    /\ UNCHANGED <<tick, step, keepAliveId, newest, ignored, toPeer, toServer, end, waits>>

\* Variant: the id is cleared before it is compared.
OnKeepAliveResponseClearsFirst ==
    /\ toServer # <<>>
    /\ end = "none"
    /\ toServer' = Tail(toServer)
    /\ keepAliveId' = 0
    /\ end' = IF Head(toServer) # 0 THEN "wrong id" ELSE end
    /\ UNCHANGED <<tick, step, newest, ignored, toPeer, silent, waits>>

\* _onKeepAliveResponse(): the right id clears the request, any other one ends
\* the connection.
OnKeepAliveResponse ==
    LET right == Head(toServer) = keepAliveId IN
    /\ toServer # <<>>
    /\ end = "none"
    /\ toServer' = Tail(toServer)
    /\ keepAliveId' = IF right THEN 0 ELSE keepAliveId
    /\ end' = IF right THEN end ELSE "wrong id"
    /\ idle' = IF right THEN 0 ELSE idle
    /\ UNCHANGED <<tick, step, newest, ignored, toPeer, silent, waited>>

\* A disconnected player is ticked no more.
Disconnected == end # "none" /\ UNCHANGED vars

Next ==
    \/ Tick \/ Process \/ SendKeepAlive
    \/ PeerAnswers \/ PeerFallsSilent
    \/ OnKeepAliveResponse
    \/ Disconnected

\* The dimension ticks and both threads run; the program owes no answer.
Fairness == WF_vars(Tick \/ Process \/ SendKeepAlive) /\ WF_vars(OnKeepAliveResponse)

Spec == Init /\ [][Next]_vars /\ Fairness

-----------------------------------------------------------------------------
(* Properties                                                              *)

\* Every variable has its type; _keepAliveIgnored is an uint8_t.
TypeOK ==
    /\ tick \in 0 .. (TickRate - 1)
    /\ step \in {"none", "process", "send"}
    /\ keepAliveId \in Ids \cup {0}
    /\ newest \in Ids
    /\ ignored \in 0 .. 255
    /\ toPeer \in Seq(Ids)
    /\ toServer \in Seq(Ids)
    /\ silent \in BOOLEAN
    /\ end \in {"none", "timeout", "wrong id"}
    /\ waited \in 0 .. MaxTicks
    /\ idle \in 0 .. MaxTicks

\* A program that returns the ids it gets, however late, is never accused of a
\* wrong one: the id is stored before it is sent, cleared by its own answer and
\* replaced only after that.
NeverWrong == end # "wrong id"

\* No player is dropped for a timeout before MaxTicks ticks were spent waiting, in
\* the whole of the session: _processKeepAlive() counts the periods that pass
\* without an answer and nothing sets the count back.
PatienceKept == end = "timeout" => waited = MaxTicks

\* No player is dropped for a timeout who was heard of in the last MaxTicks ticks
\* of waiting: "The maximum amount of time (in ticks) that a player can be idle
\* before being kicked" (PlayerAttributes.hpp).
IdleBeforeKick == end = "timeout" => idle = MaxTicks

\* A program that has fallen silent is dropped.
SilenceIsNoticed == silent ~> end # "none"
=============================================================================
