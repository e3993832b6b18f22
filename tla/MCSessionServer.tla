------------------------- MODULE MCSessionServer -------------------------
(* Model values and client scripts for the SessionServer runs.            *)
EXTENDS SessionServer

CONSTANTS c1, c2, w1, w2

\* A session that subscribes and disconnects, and one that unsubscribes
\* and ends without DISCONNECT.
MCScripts == {<<"SUB", "DISC">>, <<"UNSUB", "EOF">>}

\* One client that only disconnects.
MCDiscScripts == {<<"DISC">>}

\* Enough descriptor numbers for three opens per client.
MCFds2 == 1..6
MCFds1 == 1..3
==========================================================================
