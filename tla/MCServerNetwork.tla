-------------------------- MODULE MCServerNetwork ---------------------------
(* Small instances of ServerNetwork for TLC.                               *)
EXTENDS ServerNetwork

CONSTANTS c1, c2

MCClients == {c1, c2}

\* A guest and a player; two players of which one is kicked; two players when
\* the server stops.
MCScenarios ==
    {[guests |-> {c1}, kicked |-> {}, stoppable |-> FALSE],
     [guests |-> {}, kicked |-> {c1}, stoppable |-> FALSE],
     [guests |-> {}, kicked |-> {}, stoppable |-> TRUE]}

\* The server stops while a guest may be asking for the status.
MCStopWithGuest == {[guests |-> {c1}, kicked |-> {}, stoppable |-> TRUE]}
=============================================================================
