---------------------------- MODULE MCKeepAlive ----------------------------
(***************************************************************************)
(* Constants of KeepAlive for TLC: the pings more and less frequent than   *)
(* the deadline (30 s and 60 s by default), and the values at the edge     *)
(* that Load accepts.                                                      *)
(***************************************************************************)
EXTENDS KeepAlive

Usual == [pong |-> 2, ping |-> 1, life |-> 4]
Seldom == [pong |-> 2, ping |-> 3, life |-> 5]
ZeroPong == [pong |-> 0, ping |-> 1, life |-> 3]
ZeroPing == [pong |-> 2, ping |-> 0, life |-> 3]
NoLife == [pong |-> 2, ping |-> 1, life |-> -1]

UsualOnly == {Usual}
MCConfig == {Usual, Seldom, ZeroPong, ZeroPing, NoLife}
=============================================================================
