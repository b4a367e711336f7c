-------------------------------- MODULE Hub --------------------------------
(***************************************************************************)
(* The hub goroutine of the gateway (src/gateway/hub.go) as an open        *)
(* system: the state that Hub.Run owns, one action per handler it calls,   *)
(* and the three things other goroutines do to that state (WritePump takes *)
(* a payload, WritePump returns, an eviction goroutine posts).  Handlers   *)
(* may be called here in any order with any arguments, except that a       *)
(* client is registered once (wsHandler posts it once): the select of      *)
(* Hub.Run and the five Go channels are in module Gateway.                 *)
(***************************************************************************)
EXTENDS Integers, Sequences, FiniteSets

CONSTANTS
    Client,          \* the *Client values, one per accepted WebSocket
    User,            \* Django user ids
    Channel,         \* the channel names that occur
    Control,         \* the names that start with '_'
    WellFormed,      \* the names channelRegex matches
    Payload,         \* the payloads Redis delivers
    RevokePayload,   \* those that parse as a control message of type revoke
    UserOf,          \* UserOf[c]: c.userID
    SessionChannel,  \* SessionChannel[c]: "_session:" + c.sessionKey
    UserChannel,     \* UserChannel[u]: "_user:" + id + ":revoke"
    Allowed,         \* Allowed[c]: c.allowedChannels
    Requested,       \* bound: the names a peer puts in its frames
    MaxConnectionsTotal, MaxConnectionsPerUser,  \* the caps; 0 is unlimited
    SendCap,         \* capacity of c.send (64 in newPumpClient)
    Unreliable,      \* channels whose Redis SUBSCRIBE may fail
    MaxEvictions     \* bound: eviction goroutines per client

ASSUME ConnectionAssumption ==
    /\ IsFiniteSet(Client)
    /\ UserOf \in [Client -> User]
    /\ MaxConnectionsTotal \in Int
    /\ MaxConnectionsPerUser \in Int
    /\ SendCap \in Nat
    /\ MaxEvictions \in Nat

ASSUME ChannelAssumption ==
    /\ Control \subseteq Channel
    /\ WellFormed \subseteq Channel
    /\ Unreliable \subseteq Channel
    /\ Requested \subseteq Channel
    /\ RevokePayload \subseteq Payload
    /\ SessionChannel \in [Client -> Control]
    /\ UserChannel \in [User -> Control]
    /\ Allowed \in [Client -> SUBSET Channel]

VARIABLES
    clients,      \* h.clients
    userClients,  \* h.userClients; a missing key is the empty set
    channels,     \* h.channels; a missing key is the empty set
    subscribed,   \* subscribed[c]: c.subscribed
    send,         \* send[c]: the buffer of c.send
    sendClosed,   \* the clients whose send channel is closed
    disconnect,   \* disconnect[c]: the buffer of c.disconnect
    manager,      \* the channels RedisSubscriber counts a subscriber for
    evicting,     \* evicting[c]: goroutines blocked in h.unregister <- c
    announced,    \* the clients h.register has handed to handleRegister
    stopped       \* the clients whose WritePump has returned

hubMaps == <<clients, userClients, channels, subscribed, manager, announced>>
pumpVars == <<send, sendClosed, disconnect, evicting, stopped>>
hubVars == <<clients, userClients, channels, subscribed, send, sendClosed,
             disconnect, manager, evicting, announced, stopped>>

CloseSessionRevoked == 4401
CloseSlowClient == 4408
CloseTooManyConnections == 4429

NoSignal == -1   \* the disconnect buffer is empty
Cleanup == 0     \* disconnectReason{}: return without a close frame
Signal == {NoSignal, Cleanup, CloseSessionRevoked, CloseSlowClient,
           CloseTooManyConnections}

Message == [channel : Channel, payload : Payload]
ErrorFrame == [channel : Channel, reason : {"invalid_channel", "forbidden"}]
Frame == Message \cup ErrorFrame

ControlOf(c) == {SessionChannel[c], UserChannel[UserOf[c]]}

-----------------------------------------------------------------------------
(* Sending to a client: every send is non-blocking.                        *)

\* disconnectClient on every client of S: the buffer holds one signal and a
\* second one is dropped.
Signalled(S, code) ==
    [c \in Client |->
        IF c \in S /\ disconnect[c] = NoSignal THEN code ELSE disconnect[c]]

\* Mutant of Full: the capacity test is off by one.
FullOffByOne(S) == {c \in S : Len(send[c]) > SendCap}

\* Clients whose send buffer has no room.
Full(S) == {c \in S : Len(send[c]) >= SendCap}

\* Mutant of deliverFrames: a full client is evicted but not told to close.
deliverFramesUnsignalled(S, f) ==
    /\ send' = [c \in Client |->
                  IF c \in S \ Full(S) THEN Append(send[c], f) ELSE send[c]]
    /\ disconnect' = disconnect
    /\ evicting' = [c \in Client |->
                      IF c \in Full(S) THEN evicting[c] + 1 ELSE evicting[c]]
    /\ UNCHANGED <<sendClosed, stopped>>

\* deliverFrame of f to every client of S.
deliverFrames(S, f) ==
    /\ send' = [c \in Client |->
                  IF c \in S \ Full(S) THEN Append(send[c], f) ELSE send[c]]
    /\ disconnect' = Signalled(Full(S), CloseSlowClient)
    /\ evicting' = [c \in Client |->
                      IF c \in Full(S) THEN evicting[c] + 1 ELSE evicting[c]]
    /\ UNCHANGED <<sendClosed, stopped>>

\* The bound on evicting, for a step that may deliver to S.
EvictionsBounded(S) == \A c \in S : evicting[c] < MaxEvictions

-----------------------------------------------------------------------------
(* The subscription maps.                                                  *)

\* addSubscription of c to every channel of S: Redis is asked to SUBSCRIBE
\* on the first member of a channel; a failure is logged and nothing else.
addSubscriptions(c, S) ==
    LET new == S \ subscribed[c]
        first == {ch \in new : channels[ch] = {}}
    IN /\ subscribed' = [subscribed EXCEPT ![c] = @ \cup S]
       /\ channels' = [ch \in Channel |->
                         IF ch \in new THEN channels[ch] \cup {c} ELSE channels[ch]]
       /\ \E failed \in SUBSET (first \cap Unreliable) :
             manager' = manager \cup (first \ failed)

\* Mutant of removeFromChannels: the last leaver does not UNSUBSCRIBE.
removeFromChannelsKeepRedis(c, S) ==
    /\ channels' = [ch \in Channel |->
                      IF ch \in S THEN channels[ch] \ {c} ELSE channels[ch]]
    /\ manager' = manager

\* removeFromChannel of c from every channel of S.
removeFromChannels(c, S) ==
    LET emptied == {ch \in S : channels[ch] # {} /\ channels[ch] \subseteq {c}}
    IN /\ channels' = [ch \in Channel |->
                         IF ch \in S THEN channels[ch] \ {c} ELSE channels[ch]]
       /\ manager' = manager \ emptied

-----------------------------------------------------------------------------
(* The handlers of Hub.Run.                                                *)

AtTotalCap ==
    MaxConnectionsTotal > 0 /\ Cardinality(clients) >= MaxConnectionsTotal

AtUserCap(u) ==
    MaxConnectionsPerUser > 0 /\ Cardinality(userClients[u]) >= MaxConnectionsPerUser

\* Mutant of refuse: the refused connection is not told.
refuseSilently(c) ==
    /\ AtTotalCap \/ AtUserCap(UserOf[c])
    /\ UNCHANGED <<disconnect, clients, userClients, channels, subscribed, manager>>

refuse(c) ==
    /\ AtTotalCap \/ AtUserCap(UserOf[c])
    /\ disconnect' = Signalled({c}, CloseTooManyConnections)
    /\ UNCHANGED <<clients, userClients, channels, subscribed, manager>>

\* Mutant of admit: the caps are not tested.
admitUnguarded(c) ==
    /\ clients' = clients \cup {c}
    /\ userClients' = [userClients EXCEPT ![UserOf[c]] = @ \cup {c}]
    /\ addSubscriptions(c, ControlOf(c))
    /\ UNCHANGED disconnect

admit(c) ==
    /\ ~AtTotalCap
    /\ ~AtUserCap(UserOf[c])
    /\ clients' = clients \cup {c}
    /\ userClients' = [userClients EXCEPT ![UserOf[c]] = @ \cup {c}]
    /\ addSubscriptions(c, ControlOf(c))
    /\ UNCHANGED disconnect

handleRegister(c) ==
    /\ announced' = announced \cup {c}
    /\ refuse(c) \/ admit(c)
    /\ UNCHANGED <<send, sendClosed, evicting, stopped>>

\* Mutant of handleUnregister: the channels keep the client.
handleUnregisterKeepChannels(c) ==
    \/ /\ c \notin clients
       /\ UNCHANGED hubVars
    \/ /\ c \in clients
       /\ clients' = clients \ {c}
       /\ userClients' = [userClients EXCEPT ![UserOf[c]] = @ \ {c}]
       /\ disconnect' = Signalled({c}, Cleanup)
       /\ sendClosed' = sendClosed \cup {c}
       /\ UNCHANGED <<channels, manager, subscribed, send, evicting, announced, stopped>>

handleUnregister(c) ==
    \/ /\ c \notin clients
       /\ UNCHANGED hubVars
    \/ /\ c \in clients
       /\ clients' = clients \ {c}
       /\ userClients' = [userClients EXCEPT ![UserOf[c]] = @ \ {c}]
       /\ removeFromChannels(c, subscribed[c])
       /\ disconnect' = Signalled({c}, Cleanup)
       /\ sendClosed' = sendClosed \cup {c}
       /\ UNCHANGED <<subscribed, send, evicting, announced, stopped>>

\* Mutant of handleClientSubscribe: the '_' prefix is not tested.
handleClientSubscribeAnyPrefix(c, ch) ==
    /\ c \in clients
    /\ ch \in WellFormed \cap Allowed[c]
    /\ addSubscriptions(c, {ch})
    /\ UNCHANGED <<clients, userClients, announced>>
    /\ UNCHANGED pumpVars

handleClientSubscribe(c, ch) ==
    \/ /\ c \notin clients
       /\ UNCHANGED hubVars
    \/ /\ c \in clients
       /\ ch \in (Channel \ WellFormed) \cup Control
       /\ EvictionsBounded({c})
       /\ deliverFrames({c}, [channel |-> ch, reason |-> "invalid_channel"])
       /\ UNCHANGED hubMaps
    \/ /\ c \in clients
       /\ ch \in (WellFormed \ Control) \ Allowed[c]
       /\ EvictionsBounded({c})
       /\ deliverFrames({c}, [channel |-> ch, reason |-> "forbidden"])
       /\ UNCHANGED hubMaps
    \/ /\ c \in clients
       /\ ch \in (WellFormed \ Control) \cap Allowed[c]
       /\ addSubscriptions(c, {ch})
       /\ UNCHANGED <<clients, userClients, announced>>
       /\ UNCHANGED pumpVars

\* Mutant of handleClientUnsubscribe: c.subscribed keeps the channel.
handleClientUnsubscribeKeepRecord(c, ch) ==
    \/ /\ c \notin clients \/ ch \notin subscribed[c]
       /\ UNCHANGED hubVars
    \/ /\ c \in clients
       /\ ch \in subscribed[c]
       /\ removeFromChannels(c, {ch})
       /\ UNCHANGED <<subscribed, clients, userClients, announced>>
       /\ UNCHANGED pumpVars

handleClientUnsubscribe(c, ch) ==
    \/ /\ c \notin clients \/ ch \notin subscribed[c]
       /\ UNCHANGED hubVars
    \/ /\ c \in clients
       /\ ch \in subscribed[c]
       /\ subscribed' = [subscribed EXCEPT ![c] = @ \ {ch}]
       /\ removeFromChannels(c, {ch})
       /\ UNCHANGED <<clients, userClients, announced>>
       /\ UNCHANGED pumpVars

\* Mutant of handleControlMessage: the loop stops at the first client.
handleControlMessageFirstOnly(m) ==
    /\ m.payload \in RevokePayload /\ channels[m.channel] # {}
    /\ disconnect' = Signalled({CHOOSE c \in channels[m.channel] : TRUE},
                               CloseSessionRevoked)
    /\ UNCHANGED <<send, sendClosed, evicting, stopped>>

\* Mutant of handleControlMessage: the type is not tested.
handleControlMessageAnyType(m) ==
    /\ disconnect' = Signalled(channels[m.channel], CloseSessionRevoked)
    /\ UNCHANGED <<send, sendClosed, evicting, stopped>>

\* Mutant of handleControlMessage: only the session channels are handled.
handleControlMessageSessionOnly(m) ==
    /\ disconnect' = IF m.payload \in RevokePayload
                     THEN Signalled({c \in channels[m.channel] :
                                       SessionChannel[c] = m.channel},
                                    CloseSessionRevoked)
                     ELSE disconnect
    /\ UNCHANGED <<send, sendClosed, evicting, stopped>>

\* A message on a control channel: only a revocation has an effect.
handleControlMessage(m) ==
    /\ disconnect' = IF m.payload \in RevokePayload
                     THEN Signalled(channels[m.channel], CloseSessionRevoked)
                     ELSE disconnect
    /\ UNCHANGED <<send, sendClosed, evicting, stopped>>

handleIncoming(m) ==
    /\ \/ /\ m.channel \in Control
          /\ handleControlMessage(m)
       \/ /\ m.channel \notin Control
          /\ EvictionsBounded(channels[m.channel])
          /\ deliverFrames(channels[m.channel], m)
    /\ UNCHANGED hubMaps

-----------------------------------------------------------------------------
(* The goroutines that share a Client with the hub.                        *)

\* WritePump receives a payload from c.send and goes on.
takeFrame(c) ==
    /\ c \notin stopped
    /\ send[c] # <<>>
    /\ send' = [send EXCEPT ![c] = Tail(@)]
    /\ UNCHANGED <<sendClosed, disconnect, evicting, stopped>>
    /\ UNCHANGED hubMaps

\* WritePump returns: on a disconnect signal, on a payload it cannot write,
\* or for a reason the hub does not see.
writerReturns(c) ==
    /\ c \notin stopped
    /\ stopped' = stopped \cup {c}
    /\ \/ UNCHANGED <<send, disconnect>>
       \/ /\ disconnect[c] # NoSignal
          /\ disconnect' = [disconnect EXCEPT ![c] = NoSignal]
          /\ UNCHANGED send
       \/ /\ send[c] # <<>>
          /\ send' = [send EXCEPT ![c] = Tail(@)]
          /\ UNCHANGED disconnect
    /\ UNCHANGED <<sendClosed, evicting>>
    /\ UNCHANGED hubMaps

\* A goroutine of deliverFrame delivers its h.unregister <- c.
postEviction(c) ==
    /\ evicting[c] > 0
    /\ evicting' = [evicting EXCEPT ![c] = @ - 1]
    /\ UNCHANGED <<send, sendClosed, disconnect, stopped>>
    /\ UNCHANGED hubMaps

-----------------------------------------------------------------------------
HubInit ==
    /\ clients = {}
    /\ userClients = [u \in User |-> {}]
    /\ channels = [ch \in Channel |-> {}]
    /\ subscribed = [c \in Client |-> {}]
    /\ send = [c \in Client |-> <<>>]
    /\ sendClosed = {}
    /\ disconnect = [c \in Client |-> NoSignal]
    /\ manager = {}
    /\ evicting = [c \in Client |-> 0]
    /\ announced = {}
    /\ stopped = {}

\* Everything but a message from Redis.
ConnectionStep ==
    \/ \E c \in Client \ announced : handleRegister(c)
    \/ \E c \in Client :
          \/ handleUnregister(c)
          \/ takeFrame(c)
          \/ writerReturns(c)
          \/ postEviction(c)
    \/ \E c \in Client, ch \in Requested :
          handleClientSubscribe(c, ch) \/ handleClientUnsubscribe(c, ch)

HubNext == ConnectionStep \/ \E m \in Message : handleIncoming(m)

HubSpec == HubInit /\ [][HubNext]_hubVars

-----------------------------------------------------------------------------
(* Properties.                                                             *)

\* Every variable has its type; no send buffer ever exceeds its capacity, so
\* a send in deliverFrame never blocks the hub goroutine (hub.go:306-317).
TypeOK ==
    /\ clients \subseteq Client
    /\ userClients \in [User -> SUBSET Client]
    /\ channels \in [Channel -> SUBSET Client]
    /\ subscribed \in [Client -> SUBSET Channel]
    /\ send \in [Client -> Seq(Frame)]
    /\ \A c \in Client : Len(send[c]) <= SendCap
    /\ sendClosed \subseteq Client
    /\ disconnect \in [Client -> Signal]
    /\ manager \subseteq Channel
    /\ evicting \in [Client -> Nat]
    /\ announced \subseteq Client
    /\ stopped \subseteq Client

\* The three indexes of the hub describe the same connections: a client is in
\* the set of a channel exactly when it is registered and its own record says
\* it subscribed, and userClients is h.clients partitioned by user
\* (hub.go:86-91, "all shared state is owned by the goroutine").
IndexesAgree ==
    /\ \A c \in Client, ch \in Channel :
          c \in channels[ch] <=> (c \in clients /\ ch \in subscribed[c])
    /\ \A u \in User : userClients[u] = {c \in clients : UserOf[c] = u}

\* A client whose send channel is closed can no longer be the target of a
\* deliverFrame: a send on a closed channel panics in the hub goroutine and
\* takes every connection of the process down (hub.go:306-309, 343-346).
NoSendOnClosed ==
    \A c \in sendClosed :
        c \notin clients /\ \A ch \in Channel : c \notin channels[ch]

\* Redis stays subscribed to nothing that no connection listens to, and to
\* everything some connection does unless the SUBSCRIBE failed: the hub's map
\* and the subscriber's refcount move together (hub.go:228-269).
RedisFollowsChannels ==
    \A ch \in Channel :
        /\ ch \in manager => channels[ch] # {}
        /\ channels[ch] # {} => ch \in manager \cup Unreliable

\* The caps hold in every state, however registrations, refusals and
\* departures interleave (hub.go:155-165).
CapsHold ==
    /\ MaxConnectionsTotal > 0 => Cardinality(clients) <= MaxConnectionsTotal
    /\ MaxConnectionsPerUser > 0 =>
          \A u \in User : Cardinality(userClients[u]) <= MaxConnectionsPerUser

\* No connection is subscribed to, or holds a message of, a channel Django did
\* not allow it, and no control channel of another session or user: after any
\* sequence of requests and messages (hub.go:202-215, 271-279).
AllowListHolds ==
    \A c \in Client :
        /\ subscribed[c] \subseteq (Allowed[c] \ Control) \cup ControlOf(c)
        /\ \A i \in 1..Len(send[c]) :
              send[c][i] \in Message => send[c][i].channel \in Allowed[c] \ Control

\* A client that left the hub's books, or that was refused, has a WritePump
\* that is told so: by a signal in the buffer or by its closed send channel, unless
\* WritePump has returned.  Otherwise the connection would stay open with no hub behind it.
DetachedIsSignalled ==
    \A c \in announced \ clients :
        disconnect[c] # NoSignal \/ c \in stopped \/ c \in sendClosed

\* An eviction goroutine exists only for a client that has been told to
\* close: the frame it lost is never lost silently (hub.go:306-317).
EvictedIsSignalled ==
    \A c \in Client : evicting[c] > 0 => disconnect[c] # NoSignal \/ c \in stopped
=============================================================================
