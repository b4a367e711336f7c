----------------------------- MODULE MCGateway -----------------------------
(***************************************************************************)
(* Values for the constants of Gateway, and the specification TLC runs:    *)
(* when every handler has returned and every queue is empty the process    *)
(* idles, which is no deadlock.                                            *)
(***************************************************************************)
EXTENDS Gateway

CONSTANTS c1, c2, alice, news, secret, sessionA, revokeA

MCUserOf == [c \in Client |-> alice]
MCSessionChannel == [c \in Client |-> sessionA]
MCUserChannel == [u \in User |-> revokeA]
MCAllowed == [c \in Client |-> {news}]

Idle ==
    /\ \A c \in Client : reader[c] = "done" /\ c \in stopped
    /\ queues = <<<<>>, <<>>, <<>>, <<>>, <<>>>>
    /\ UNCHANGED vars

MCNext == Next \/ Idle

MCSpec == Init /\ [][MCNext]_vars
MCFairSpec == MCSpec /\ Fairness
=============================================================================
