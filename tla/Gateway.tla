------------------------------ MODULE Gateway ------------------------------
(***************************************************************************)
(* One gateway process: the hub goroutine of module Hub with its five Go   *)
(* channels, and for every WebSocket the goroutines that share a *Client   *)
(* with it: the wsHandler goroutine, which becomes ReadPump, and WritePump *)
(* (src/gateway/client.go, main.go:81-125).  A step is what one goroutine  *)
(* does between two channel operations.  The select of Hub.Run and of      *)
(* WritePump picks any ready case.                                         *)
(***************************************************************************)
EXTENDS Hub

CONSTANTS
    RegisterCap, UnregisterCap,      \* buffer sizes of the hub's channels
    SubscribeCap, UnsubscribeCap,    \* (8, 8, 32, 32 and 256 in NewHub)
    IncomingCap,
    MaxFrames,       \* bound: client frames per connection
    MaxPublish,      \* bound: messages Redis delivers
    PingMayFail      \* whether a ping may time out on a live connection

ASSUME QueueAssumption ==
    /\ {RegisterCap, UnregisterCap, SubscribeCap, UnsubscribeCap,
        IncomingCap, MaxFrames, MaxPublish} \subseteq Nat
    /\ PingMayFail \in BOOLEAN

VARIABLES
    register, unregister,      \* Go channels of *Client
    subscribe, unsubscribe,    \* Go channels of <<client, channel>>
    incoming,                  \* Go channel of Message
    reader,      \* reader[c]: where the handler goroutine of c stands
    held,        \* held[c]: the request ReadPump is blocked on posting
    conn,        \* conn[c]: "none", "open", "closing" (close frame sent), "closed"
    code,        \* code[c]: the close code the peer of c saw
    frames,      \* frames[c]: client frames read so far
    publishes,   \* messages Redis has delivered so far
    revoked      \* history: connections open when the hub signalled 4401 to them

queues == <<register, unregister, subscribe, unsubscribe, incoming>>
readerVars == <<reader, held, frames>>
connVars == <<conn, code>>
gatewayVars == <<queues, readerVars, connVars, publishes, revoked>>
vars == <<hubVars, gatewayVars>>

\* none: not connected; register: blocked on h.register <- client;
\* read: in conn.Read; post: blocked on h.subscribe or h.unsubscribe;
\* leave: connection closed, blocked on h.unregister; done: returned.
ReaderState == {"none", "register", "read", "post", "leave", "done"}

NormalClosure == 1000
GoingAway == 1001
Abnormal == 1006    \* the peer saw no close frame of the gateway
NotClosed == -1

Request == [action : {"subscribe", "unsubscribe"}, channel : Requested]
NoRequest == [action |-> "none"]

\* conn.Close(k): the peer gets the close frame, unless the connection is
\* closed already.
closeWithCode(c, k) ==
    IF conn[c] = "open"
    THEN conn' = [conn EXCEPT ![c] = "closing"] /\ code' = [code EXCEPT ![c] = k]
    ELSE UNCHANGED connVars

\* The connection breaks with no close frame of the gateway.
lose(c) ==
    /\ conn' = [conn EXCEPT ![c] = "closed"]
    /\ code' = IF conn[c] = "open" THEN [code EXCEPT ![c] = Abnormal] ELSE code

-----------------------------------------------------------------------------
(* wsHandler and ReadPump.                                                 *)

\* Validated and upgraded: newPumpClient.
Accept(c) ==
    /\ reader[c] = "none"
    /\ reader' = [reader EXCEPT ![c] = "register"]
    /\ conn' = [conn EXCEPT ![c] = "open"]
    /\ UNCHANGED <<hubVars, queues, held, frames, code, publishes, revoked>>

\* Mutant of PostRegister: the client may be registered again.
PostRegisterAgain(c) ==
    /\ reader[c] \in {"register", "read"}
    /\ Len(register) < RegisterCap
    /\ register' = Append(register, c)
    /\ reader' = [reader EXCEPT ![c] = "read"]
    /\ UNCHANGED <<hubVars, unregister, subscribe, unsubscribe, incoming,
                   held, frames, connVars, publishes, revoked>>

\* hub.register <- client, then both pumps start.
PostRegister(c) ==
    /\ reader[c] = "register"
    /\ Len(register) < RegisterCap
    /\ register' = Append(register, c)
    /\ reader' = [reader EXCEPT ![c] = "read"]
    /\ UNCHANGED <<hubVars, unregister, subscribe, unsubscribe, incoming,
                   held, frames, connVars, publishes, revoked>>

\* conn.Read returns a frame with a known action, be it during the closing
\* handshake.  Frames that do not parse and unknown actions change nothing.
ReadFrame(c, r) ==
    /\ reader[c] = "read"
    /\ conn[c] \in {"open", "closing"}
    /\ frames[c] < MaxFrames
    /\ frames' = [frames EXCEPT ![c] = @ + 1]
    /\ held' = [held EXCEPT ![c] = r]
    /\ reader' = [reader EXCEPT ![c] = "post"]
    /\ UNCHANGED <<hubVars, queues, connVars, publishes, revoked>>

PostRequest(c) ==
    /\ reader[c] = "post"
    /\ \/ /\ held[c].action = "subscribe"
          /\ Len(subscribe) < SubscribeCap
          /\ subscribe' = Append(subscribe, <<c, held[c].channel>>)
          /\ UNCHANGED unsubscribe
       \/ /\ held[c].action = "unsubscribe"
          /\ Len(unsubscribe) < UnsubscribeCap
          /\ unsubscribe' = Append(unsubscribe, <<c, held[c].channel>>)
          /\ UNCHANGED subscribe
    /\ held' = [held EXCEPT ![c] = NoRequest]
    /\ reader' = [reader EXCEPT ![c] = "read"]
    /\ UNCHANGED <<hubVars, register, unregister, incoming, frames, connVars,
                   publishes, revoked>>

\* The peer closes, the network breaks, a frame is too large, or no frame
\* arrives for PongTimeout while ReadPump reads.
ConnectionLost(c) ==
    /\ conn[c] = "open"
    /\ lose(c)
    /\ UNCHANGED <<hubVars, queues, readerVars, publishes, revoked>>

\* The closing handshake ends, at the latest when the library gives it up.
HandshakeEnds(c) ==
    /\ conn[c] = "closing"
    /\ lose(c)
    /\ UNCHANGED <<hubVars, queues, readerVars, publishes, revoked>>

\* Mutant of ReadFails: ReadPump returns without its deferred send.
ReadFailsNoCleanup(c) ==
    /\ reader[c] = "read"
    /\ conn[c] = "closed"
    /\ reader' = [reader EXCEPT ![c] = "done"]
    /\ UNCHANGED <<hubVars, queues, held, frames, connVars, publishes, revoked>>

\* conn.Read fails: CloseNow, and the deferred send on h.unregister is next.
ReadFails(c) ==
    /\ reader[c] = "read"
    /\ conn[c] = "closed"
    /\ reader' = [reader EXCEPT ![c] = "leave"]
    /\ UNCHANGED <<hubVars, queues, held, frames, connVars, publishes, revoked>>

\* h.unregister <- c, after which wsHandler returns and cancels ctx.
PostUnregister(c) ==
    /\ reader[c] = "leave"
    /\ Len(unregister) < UnregisterCap
    /\ unregister' = Append(unregister, c)
    /\ reader' = [reader EXCEPT ![c] = "done"]
    /\ UNCHANGED <<hubVars, register, subscribe, unsubscribe, incoming,
                   held, frames, connVars, publishes, revoked>>

-----------------------------------------------------------------------------
(* WritePump.                                                              *)

writing(c) == reader[c] \notin {"none", "register"} /\ c \notin stopped

\* What every return of WritePump leaves alone.
writerUnchanged ==
    /\ UNCHANGED <<clients, userClients, channels, subscribed, manager,
                   announced, sendClosed, evicting>>
    /\ UNCHANGED <<queues, readerVars, publishes, revoked>>

WriteFrame(c) ==
    /\ writing(c)
    /\ conn[c] = "open"
    /\ takeFrame(c)
    /\ UNCHANGED gatewayVars

\* conn.Write fails or exceeds its 5 s: the library closes the connection.
WriteFails(c) ==
    /\ writing(c)
    /\ send[c] # <<>>
    /\ send' = [send EXCEPT ![c] = Tail(@)]
    /\ stopped' = stopped \cup {c}
    /\ lose(c)
    /\ UNCHANGED disconnect
    /\ writerUnchanged

\* Mutant of ApplyDisconnect: the code is compared with the wrong constant,
\* so the slow-client signal returns without closing.
ApplyDisconnectNoClose(c) ==
    /\ writing(c)
    /\ disconnect[c] # NoSignal
    /\ disconnect' = [disconnect EXCEPT ![c] = NoSignal]
    /\ stopped' = stopped \cup {c}
    /\ IF disconnect[c] = CloseSlowClient THEN UNCHANGED connVars
                                          ELSE closeWithCode(c, disconnect[c])
    /\ UNCHANGED send
    /\ writerUnchanged

ApplyDisconnect(c) ==
    /\ writing(c)
    /\ disconnect[c] # NoSignal
    /\ disconnect' = [disconnect EXCEPT ![c] = NoSignal]
    /\ stopped' = stopped \cup {c}
    /\ IF disconnect[c] = Cleanup THEN UNCHANGED connVars
                                  ELSE closeWithCode(c, disconnect[c])
    /\ UNCHANGED send
    /\ writerUnchanged

\* Returns that consume nothing from the hub.
writerExits(c) ==
    /\ writing(c)
    /\ stopped' = stopped \cup {c}
    /\ UNCHANGED <<send, disconnect>>
    /\ writerUnchanged

SendChannelClosed(c) ==
    /\ c \in sendClosed
    /\ send[c] = <<>>
    /\ closeWithCode(c, NormalClosure)
    /\ writerExits(c)

LifetimeEnds(c) ==
    /\ closeWithCode(c, NormalClosure)
    /\ writerExits(c)

ContextDone(c) ==
    /\ reader[c] = "done"
    /\ closeWithCode(c, GoingAway)
    /\ writerExits(c)

\* conn.Ping returns an error: WritePump returns and does not close conn.
PingFails(c) ==
    /\ conn[c] = "closed" \/ PingMayFail
    /\ UNCHANGED connVars
    /\ writerExits(c)

-----------------------------------------------------------------------------
(* The eviction goroutines and Redis.                                      *)

PostEviction(c) ==
    /\ postEviction(c)
    /\ Len(unregister) < UnregisterCap
    /\ unregister' = Append(unregister, c)
    /\ UNCHANGED <<register, subscribe, unsubscribe, incoming, readerVars,
                   connVars, publishes, revoked>>

\* RedisSubscriber.readLoop hands a message over, of any channel: what Redis
\* and go-redis have buffered may be of one whose last client has left since.
Deliver(m) ==
    /\ publishes < MaxPublish
    /\ Len(incoming) < IncomingCap
    /\ publishes' = publishes + 1
    /\ incoming' = Append(incoming, m)
    /\ UNCHANGED <<hubVars, register, unregister, subscribe, unsubscribe,
                   readerVars, connVars, revoked>>

-----------------------------------------------------------------------------
(* The cases of the select in Hub.Run.                                     *)

HubRegister ==
    /\ register # <<>>
    /\ register' = Tail(register)
    /\ handleRegister(Head(register))
    /\ UNCHANGED <<unregister, subscribe, unsubscribe, incoming, readerVars,
                   connVars, publishes, revoked>>

HubUnregister ==
    /\ unregister # <<>>
    /\ unregister' = Tail(unregister)
    /\ handleUnregister(Head(unregister))
    /\ UNCHANGED <<register, subscribe, unsubscribe, incoming, readerVars,
                   connVars, publishes, revoked>>

HubSubscribe ==
    /\ subscribe # <<>>
    /\ subscribe' = Tail(subscribe)
    /\ handleClientSubscribe(Head(subscribe)[1], Head(subscribe)[2])
    /\ UNCHANGED <<register, unregister, unsubscribe, incoming, readerVars,
                   connVars, publishes, revoked>>

HubUnsubscribe ==
    /\ unsubscribe # <<>>
    /\ unsubscribe' = Tail(unsubscribe)
    /\ handleClientUnsubscribe(Head(unsubscribe)[1], Head(unsubscribe)[2])
    /\ UNCHANGED <<register, unregister, subscribe, incoming, readerVars,
                   connVars, publishes, revoked>>

\* Does the message revoke the open connection c?
Revokes(m, c) ==
    /\ m.channel \in Control
    /\ m.payload \in RevokePayload
    /\ c \in channels[m.channel]
    /\ conn[c] = "open"

HubIncoming ==
    /\ incoming # <<>>
    /\ incoming' = Tail(incoming)
    /\ handleIncoming(Head(incoming))
    /\ revoked' = revoked \cup {c \in Client : Revokes(Head(incoming), c)}
    /\ UNCHANGED <<register, unregister, subscribe, unsubscribe, readerVars,
                   connVars, publishes>>

-----------------------------------------------------------------------------
Init ==
    /\ HubInit
    /\ register = <<>> /\ unregister = <<>>
    /\ subscribe = <<>> /\ unsubscribe = <<>> /\ incoming = <<>>
    /\ reader = [c \in Client |-> "none"]
    /\ held = [c \in Client |-> NoRequest]
    /\ conn = [c \in Client |-> "none"]
    /\ code = [c \in Client |-> NotClosed]
    /\ frames = [c \in Client |-> 0]
    /\ publishes = 0
    /\ revoked = {}

RequestStep(c) == \E r \in Request : ReadFrame(c, r)

Reader(c) ==
    PostRegister(c) \/ PostRequest(c) \/ ReadFails(c) \/ PostUnregister(c)

Writer(c) ==
    WriteFrame(c) \/ WriteFails(c) \/ ApplyDisconnect(c) \/ SendChannelClosed(c)
    \/ ContextDone(c) \/ PingFails(c)

Run == HubRegister \/ HubUnregister \/ HubSubscribe \/ HubUnsubscribe \/ HubIncoming

Next ==
    \/ Run
    \/ \E c \in Client :
          \/ Accept(c) \/ RequestStep(c) \/ ConnectionLost(c) \/ HandshakeEnds(c)
          \/ LifetimeEnds(c) \/ Reader(c) \/ Writer(c) \/ PostEviction(c)
    \/ \E m \in Message : Deliver(m)

Spec == Init /\ [][Next]_vars

\* Every goroutine that can go on does: the Go scheduler is fair, and select
\* picks uniformly among ready cases, so no case that stays ready is passed
\* over for ever.  Peers, Redis and the lifetime timer owe nothing.
Fairness ==
    /\ WF_vars(HubRegister) /\ WF_vars(HubUnregister)
    /\ WF_vars(HubSubscribe) /\ WF_vars(HubUnsubscribe) /\ WF_vars(HubIncoming)
    /\ \A c \in Client :
          /\ WF_vars(Reader(c)) /\ WF_vars(PostEviction(c))
          /\ WF_vars(ApplyDisconnect(c)) /\ WF_vars(SendChannelClosed(c))
          /\ WF_vars(ContextDone(c)) /\ WF_vars(HandshakeEnds(c))

FairSpec == Spec /\ Fairness

-----------------------------------------------------------------------------
(* Properties.                                                             *)

\* The hub as it is run, with its channels and its select, only ever does
\* what the open system of module Hub does: in particular no client is
\* registered twice (main.go:117, hub.go:136-153).
ImplementsHub == HubSpec

\* WritePump never returns and leaves its connection open: nobody else would
\* ever send a close frame on it (client.go:113-158).  It relies on the hub
\* telling a client 0 only when the connection is gone.  As long as a
\* connection that was revoked is still open, its WritePump has the signal
\* before it, or an earlier one that closes it as well (hub.go:299-303).
NoAbandonedConnection ==
    /\ \A c \in stopped : conn[c] \in {"closing", "closed"}
    /\ \A c \in revoked : conn[c] = "open" => disconnect[c] # NoSignal

\* The close code a peer sees is the truth: 4401 only after a revocation of
\* one of its control channels, 4429 only if it was never admitted, 1001
\* never while its handler runs.  The browser client gives up for good on
\* 4401 (hub.go:17-26, client.go:122-139).
CloseCodesJustified ==
    \A c \in Client :
        /\ code[c] = CloseSessionRevoked => c \in revoked
        /\ code[c] = CloseTooManyConnections =>
              c \in announced \ clients /\ subscribed[c] = {}
        /\ code[c] = GoingAway => reader[c] = "done"

\* Once the handler of a connection has returned and no unregistration of it
\* is under way, the hub has forgotten the client (client.go:70 "Signal
\* hub-side cleanup", logout.md:61 "gateway closes cleanly").
DepartedIsForgotten ==
    \A c \in clients :
        reader[c] = "done" =>
            evicting[c] > 0 \/ \E i \in 1..Len(unregister) : unregister[i] = c

\* A revocation on its way to the hub closes every registered connection it
\* is for, whatever else happens to the connection (hub.go:290-304,
\* client.go:130-135, logout.md:58-59).
RevocationCloses ==
    \A c \in Client :
        (/\ c \in clients
         /\ \E i \in 1..Len(incoming) :
               /\ incoming[i].channel \in ControlOf(c)
               /\ incoming[i].payload \in RevokePayload)
        ~> conn[c] = "closed"

\* A client that lost a frame is disconnected and leaves the hub's books, and
\* so does a registered one whose connection breaks while its handler reads
\* (hub.go:306-317, client.go:68-72).
LostFrameEnds ==
    \A c \in Client : evicting[c] > 0 ~> (conn[c] = "closed" /\ c \notin clients)

BrokenConnectionEnds ==
    \A c \in Client :
        (c \in clients /\ conn[c] = "closed" /\ reader[c] \in {"read", "post"})
        ~> c \notin clients
=============================================================================
