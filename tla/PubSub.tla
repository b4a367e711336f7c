------------------------------- MODULE PubSub -------------------------------
(***************************************************************************)
(* What the gateway's broker promises to its connections, with no word of  *)
(* queues, maps or disconnect codes.  A message published on a topic is    *)
(* appended to the outbox of every member of the topic, in publication     *)
(* order; a member that does not get it is a connection the gateway has    *)
(* started to close.  Among the messages a connection finds answers to its *)
(* own requests.  A revocation starts closing every member of the control  *)
(* topic it is published on.  A connection that has started to close never *)
(* becomes live again.                                                     *)
(***************************************************************************)
EXTENDS Integers, Sequences

CONSTANTS
    Client,        \* the WebSocket connections
    Topic,         \* the channels messages are published on
    ControlTopic,  \* the topics that carry revocations and no data
    Payload,       \* what a message carries
    Answer,        \* what a connection may be told about its own requests
    Revocation,    \* the payloads that revoke
    Entitled,      \* Entitled[c]: the topics c may ever be a member of
    Guaranteed     \* Guaranteed[c]: the control topics c joins when admitted

VARIABLES
    phase,         \* phase[c]: "new", "admitted" or "gone"
    member,        \* member[c]: the topics c is a member of
    outbox,        \* outbox[c]: what was accepted for c and is not yet on the wire
    closing,       \* the connections the gateway is closing or has closed
    heard          \* the last message that had an audience, and a bit it flips

vars == <<phase, member, outbox, closing, heard>>

Message == [channel : Topic, payload : Payload]

Nothing == [channel |-> "none"]

Init ==
    /\ phase = [c \in Client |-> "new"]
    /\ member = [c \in Client |-> {}]
    /\ outbox = [c \in Client |-> <<>>]
    /\ closing = {}
    /\ heard = <<Nothing, 0>>

\* A connection is admitted once, with all its control topics.
Admit(c) ==
    /\ phase[c] = "new"
    /\ phase' = [phase EXCEPT ![c] = "admitted"]
    /\ member' = [member EXCEPT ![c] = Guaranteed[c]]
    /\ UNCHANGED <<outbox, closing, heard>>

Refuse(c) ==
    /\ phase[c] = "new"
    /\ phase' = [phase EXCEPT ![c] = "gone"]
    /\ closing' = closing \cup {c}
    /\ UNCHANGED <<member, outbox, heard>>

\* A connection departs with all its topics, and only as it is being closed.
Depart(c) ==
    /\ phase[c] = "admitted"
    /\ phase' = [phase EXCEPT ![c] = "gone"]
    /\ member' = [member EXCEPT ![c] = {}]
    /\ closing' = closing \cup {c}
    /\ UNCHANGED <<outbox, heard>>

Join(c, t) ==
    /\ phase[c] = "admitted"
    /\ t \in Entitled[c]
    /\ member' = [member EXCEPT ![c] = @ \cup {t}]
    /\ UNCHANGED <<phase, outbox, closing, heard>>

Leave(c, t) ==
    /\ t \in member[c]
    /\ member' = [member EXCEPT ![c] = @ \ {t}]
    /\ UNCHANGED <<phase, outbox, closing, heard>>

Audience(m) == {c \in Client : m.channel \in member[c]}

Hear(m) == Audience(m) # {} /\ heard' = <<m, 1 - heard[2]>>

Publish(m) ==
    /\ m.channel \notin ControlTopic
    /\ Hear(m)
    /\ \E missed \in SUBSET Audience(m) :
          /\ outbox' = [c \in Client |->
                          IF c \in Audience(m) \ missed THEN Append(outbox[c], m)
                                                        ELSE outbox[c]]
          /\ closing' = closing \cup missed
    /\ UNCHANGED <<phase, member>>

\* On a control topic a message that is no revocation has no effect.
Revoke(m) ==
    /\ m.channel \in ControlTopic
    /\ Hear(m)
    /\ closing' = IF m.payload \in Revocation THEN closing \cup Audience(m) ELSE closing
    /\ UNCHANGED <<phase, member, outbox>>

\* The head of the outbox goes on the wire, or is lost with the connection.
Take(c) ==
    /\ outbox[c] # <<>>
    /\ outbox' = [outbox EXCEPT ![c] = Tail(@)]
    /\ closing' \in {closing, closing \cup {c}}
    /\ UNCHANGED <<phase, member, heard>>

\* The answer to a request of c.
Reply(c, a) ==
    /\ outbox' = [outbox EXCEPT ![c] = Append(@, a)]
    /\ UNCHANGED <<phase, member, closing, heard>>

Close(c) ==
    /\ closing' = closing \cup {c}
    /\ UNCHANGED <<phase, member, outbox, heard>>

Next ==
    \/ \E c \in Client : Admit(c) \/ Refuse(c) \/ Depart(c) \/ Take(c) \/ Close(c)
    \/ \E c \in Client, a \in Answer : Reply(c, a)
    \/ \E c \in Client, t \in Topic : Join(c, t) \/ Leave(c, t)
    \/ \E m \in Message : Publish(m) \/ Revoke(m)

Spec == Init /\ [][Next]_vars
=============================================================================
