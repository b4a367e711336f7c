---------------------------- MODULE MCHandshake ----------------------------
(***************************************************************************)
(* Constants of Handshake for TLC: alice has two tabs with one session, so *)
(* they share both control channels until one of them leaves one.          *)
(***************************************************************************)
EXTENDS Handshake

CONSTANTS tab1, tab2, r1, laptop, alice

MCUserOf == [s \in Session |-> alice]
MCSessionOf == [c \in Conn |-> laptop]
OneReplica == [c \in Conn |-> r1]
=============================================================================
