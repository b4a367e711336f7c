--------------------------- MODULE Subscriptions ---------------------------
(***************************************************************************)
(* What the hub and the Redis subscriber agree on (channelManager of       *)
(* src/gateway/hub.go:74-77, Subscribe and Unsubscribe of                  *)
(* src/gateway/redis.go): the hub asks for a channel when it gets its      *)
(* first client and gives it up with its last one, and the subscriber      *)
(* counts what it was asked for and did not fail on, and nothing else.     *)
(* Module Hub is one side of it, module RedisSubscriber the other.         *)
(***************************************************************************)
CONSTANT Channel

VARIABLES
    listening,  \* the channels the hub has clients for
    manager     \* those the subscriber counts

vars == <<listening, manager>>

Init == listening = {} /\ manager = {}

\* Channels that get their first client; some SUBSCRIBEs may fail.
Gain(S) ==
    /\ S \cap listening = {}
    /\ listening' = listening \cup S
    /\ \E failed \in SUBSET S : manager' = manager \cup (S \ failed)

\* Channels that lose their last client, those among them that failed included.
Lose(S) ==
    /\ S \subseteq listening
    /\ listening' = listening \ S
    /\ manager' = manager \ S

Next == \E S \in SUBSET Channel : Gain(S) \/ Lose(S)

Spec == Init /\ [][Next]_vars
=============================================================================
