----------------------------- MODULE Handshake -----------------------------
(***************************************************************************)
(* Who may open a WebSocket, and when it is taken away: the handshake of   *)
(* wsHandler (src/gateway/main.go:81-125) with Django's ws_auth, the       *)
(* subscription of the connection's control channels, logout and ban       *)
(* (src/websocket_gateway/revocation.py, docs/docs/logout.md:44-52), the   *)
(* pub/sub links of several replicas, and their shutdown.  A revocation    *)
(* can be missed: the link breaks, a SUBSCRIBE fails, go-redis drops the   *)
(* message, the client has unsubscribed its control channel, WritePump is  *)
(* gone when the hub signals.                                              *)
(*                                                                         *)
(* A control channel is named by the session or the user it revokes.       *)
(* Commands and messages of different channels commute, so each pair of a  *)
(* replica and a channel has its own queue.  Inside a replica the queues   *)
(* and pumps of module Gateway are one step, and connections end for any   *)
(* reason at any time; caps, evictions and the hub's malformed or foreign  *)
(* messages are left to Hub and Gateway, what go-redis remembers to        *)
(* RedisSubscriber.                                                        *)
(***************************************************************************)
EXTENDS Integers, Sequences

CONSTANTS
    Replica,       \* gateway processes
    Session, User, \* Django sessions and users
    Conn,          \* attempts to open a WebSocket
    UserOf,        \* UserOf[s]: the user logged in with session s
    SessionOf,     \* SessionOf[c]: the cookie of c
    ReplicaOf,     \* ReplicaOf[c]: where the load balancer sends c
    MaxPublish,    \* bound: revocations published
    MaxLosses,     \* bound: pub/sub links lost and messages dropped
    MayLeave,      \* bound: connections that unsubscribe control channels
    MayMissPing,   \* bound: connections with a ping that is not answered
    MayBan         \* whether an administrator bans users

ASSUME HandshakeAssumption ==
    /\ Session \cap User = {}
    /\ UserOf \in [Session -> User]
    /\ SessionOf \in [Conn -> Session]
    /\ ReplicaOf \in [Conn -> Replica]
    /\ {MaxPublish, MaxLosses} \subseteq Nat
    /\ MayLeave \cup MayMissPing \subseteq Conn
    /\ MayBan \in BOOLEAN

VARIABLES
    conn,        \* conn[c]: how far c got, a ConnState
    joined,      \* joined[c]: the control channels in c.subscribed
    deaf,        \* connections whose WritePump returned and left them open
    session,     \* session[s]: "live", "revoking" (published, not flushed), "gone"
    banned,      \* users whose session rows an administrator deleted
    process,     \* process[r]: "up", "draining" (SIGTERM), "down"
    wire,        \* wire[r, ch]: SUBSCRIBE and UNSUBSCRIBE on their way to Redis
    heard,       \* the pairs <<r, ch>> Redis has subscribed
    failed,      \* the pairs whose SUBSCRIBE failed and that the link lacks
    inbox,       \* inbox[r, ch]: revocations on their way to the hub of r
    publishes, losses,   \* counters of the bounds
    published,   \* history: channels Redis executed a revocation on
    covered      \* history: connections a revocation must reach

djangoVars == <<session, banned, publishes, published>>
linkVars == <<wire, heard, failed, inbox, losses>>
vars == <<conn, joined, deaf, djangoVars, process, linkVars, covered>>

Control == Session \cup User
Link == Replica \X Control

\* asking: ws_auth is called; valid: its 200 is under way; open: upgraded;
\* member: the hub has registered it; closing: told to close with 4401.
ConnState == {"none", "asking", "valid", "open", "member", "closing",
              "closed", "refused"}

ControlOf(c) == {SessionOf[c], UserOf[SessionOf[c]]}

\* h.channels, as far as control channels go.
On(k) == {c \in Conn : ReplicaOf[c] = k[1] /\ k[2] \in joined[c]}

\* Redis has executed what the hub asked of it about channel ch of c.
Settled(c, ch) == wire[<<ReplicaOf[c], ch>>] = <<>> /\ <<ReplicaOf[c], ch>> \notin failed

\* A revocation is on its way to c.
Coming(c) == \E ch \in joined[c] : inbox[<<ReplicaOf[c], ch>>] > 0

moves(c, from, to) == conn[c] \in from /\ conn' = [conn EXCEPT ![c] = to]

-----------------------------------------------------------------------------
(* wsHandler, Validate and ws_auth.                                        *)

\* A foreign origin or no cookie is refused before Django is asked.  A
\* draining process has closed its listener.
Ask(c) ==
    /\ process[ReplicaOf[c]] = "up"
    /\ \E to \in {"asking", "refused"} : moves(c, {"none"}, to)
    /\ UNCHANGED <<joined, deaf, djangoVars, process, linkVars, covered>>

\* ws_auth loads the session row; what it answers may be stale on arrival.
ws_auth(c) ==
    /\ moves(c, {"asking"}, IF session[SessionOf[c]] = "gone" THEN "refused" ELSE "valid")
    /\ UNCHANGED <<joined, deaf, djangoVars, process, linkVars, covered>>

\* No answer within AuthTimeout, no 200, no JSON: a 401 like an invalid session.
ValidateFails(c) ==
    /\ moves(c, {"asking", "valid"}, "refused")
    /\ UNCHANGED <<joined, deaf, djangoVars, process, linkVars, covered>>

Accept(c) ==
    /\ \E to \in {"open", "refused"} : moves(c, {"valid"}, to)
    /\ UNCHANGED <<joined, deaf, djangoVars, process, linkVars, covered>>

\* Mutant of Register: every connection subscribes its control channels.
RegisterSubscribesAlways(c) ==
    /\ moves(c, {"open"}, "member")
    /\ joined' = [joined EXCEPT ![c] = ControlOf(c)]
    /\ wire' = [k \in Link |-> IF k[1] = ReplicaOf[c] /\ k[2] \in ControlOf(c)
                               THEN Append(wire[k], "SUBSCRIBE") ELSE wire[k]]
    /\ UNCHANGED <<deaf, djangoVars, process, heard, failed, inbox, losses, covered>>

\* handleRegister: the first member of a control channel subscribes it.
Register(c) ==
    /\ moves(c, {"open"}, "member")
    /\ joined' = [joined EXCEPT ![c] = ControlOf(c)]
    /\ wire' = [k \in Link |->
                  IF k[1] = ReplicaOf[c] /\ k[2] \in ControlOf(c) /\ On(k) = {}
                  THEN Append(wire[k], "SUBSCRIBE") ELSE wire[k]]
    /\ UNCHANGED <<deaf, djangoVars, process, heard, failed, inbox, losses, covered>>

\* The history forgets the members that nothing is coming to any more.
forgets == covered' = {c \in covered : conn[c] # "member" \/ Coming(c)'}

\* handleClientUnsubscribe does not spare the control channels (subscribing one
\* again is refused): the last member unsubscribes.
Leave(c, ch) ==
    /\ c \in MayLeave /\ ch \in joined[c]
    /\ joined' = [joined EXCEPT ![c] = @ \ {ch}]
    /\ wire' = [k \in Link |-> IF k[2] = ch /\ On(k) = {c} THEN Append(wire[k], "UNSUBSCRIBE")
                                                           ELSE wire[k]]
    /\ UNCHANGED <<conn, deaf, djangoVars, process, heard, failed, inbox, losses>>
    /\ forgets

\* Mutant of Depart: the other members of the channel are not looked at.
DepartUnsubscribesAlways(c) ==
    /\ moves(c, {"member", "closing"}, "closed")
    /\ joined' = [joined EXCEPT ![c] = {}]
    /\ wire' = [k \in Link |-> IF k[1] = ReplicaOf[c] /\ k[2] \in joined[c]
                               THEN Append(wire[k], "UNSUBSCRIBE") ELSE wire[k]]
    /\ UNCHANGED <<deaf, djangoVars, process, heard, failed, inbox, losses, covered>>

\* The peer leaves or the close ends; handleUnregister: the last member
\* unsubscribes.
Depart(c) ==
    /\ moves(c, {"member", "closing"}, "closed")
    /\ joined' = [joined EXCEPT ![c] = {}]
    /\ wire' = [k \in Link |-> IF On(k) = {c} THEN Append(wire[k], "UNSUBSCRIBE")
                                              ELSE wire[k]]
    /\ UNCHANGED <<deaf, djangoVars, process, heard, failed, inbox, losses, covered>>

\* No pong within PongTimeout: WritePump returns, the connection stays open,
\* and nobody reads the disconnect signal of c any more.
PingTimesOut(c) ==
    /\ c \in MayMissPing \ deaf /\ conn[c] \in {"open", "member", "closing"}
    /\ deaf' = deaf \cup {c}
    /\ UNCHANGED <<conn, joined, djangoVars, process, linkVars, covered>>

-----------------------------------------------------------------------------
(* The pub/sub link of a replica.                                          *)

RedisExecutes(k) ==
    /\ wire[k] # <<>>
    /\ heard' = IF Head(wire[k]) = "SUBSCRIBE" THEN heard \cup {k} ELSE heard \ {k}
    /\ failed' = failed \ {k}
    /\ wire' = [wire EXCEPT ![k] = Tail(@)]
    /\ UNCHANGED <<conn, joined, deaf, djangoVars, process, inbox, losses, covered>>

\* Mutant of HubRevokes: one connection of the channel is closed.
HubRevokesOne(k) ==
    /\ inbox[k] > 0
    /\ inbox' = [inbox EXCEPT ![k] = @ - 1]
    /\ LET one == IF On(k) = {} THEN {} ELSE {CHOOSE c \in On(k) : TRUE}
       IN conn' = [c \in Conn |-> IF c \in one THEN "closing" ELSE conn[c]]
    /\ UNCHANGED <<joined, deaf, djangoVars, process, wire, heard, failed, losses, covered>>

\* handleControlMessage tells every member of the channel to close.
HubRevokes(k) ==
    /\ inbox[k] > 0
    /\ inbox' = [inbox EXCEPT ![k] = @ - 1]
    /\ conn' = [c \in Conn |-> IF c \in On(k) THEN "closing" ELSE conn[c]]
    /\ UNCHANGED <<joined, deaf, djangoVars, process, wire, heard, failed, losses, covered>>

\* The link is replaced, messages on some channels are lost with the old one,
\* and go-redis asks again for what the hub wants, the missed channels apart.
relink(r, lost, missed) ==
    /\ losses < MaxLosses /\ process[r] # "down"
    /\ losses' = losses + 1
    /\ heard' = {k \in heard : k[1] # r}
    /\ failed' = {k \in failed : k[1] # r} \cup {<<r, ch>> : ch \in missed}
    /\ wire' = [k \in Link |-> CASE k[1] # r -> wire[k]
                                 [] k[1] = r /\ (On(k) = {} \/ k[2] \in missed) -> <<>>
                                 [] OTHER -> <<"SUBSCRIBE">>]
    /\ inbox' = [k \in Link |-> IF k[1] = r /\ k[2] \in lost THEN 0 ELSE inbox[k]]
    /\ UNCHANGED <<conn, joined, deaf, djangoVars, process>>
    /\ forgets

LinkLost(r, lost) == relink(r, lost, {})

\* Writing a SUBSCRIBE finds the link broken: go-redis replaces it inside the
\* call, before it remembers the channel, and the hub only logs the error.
SubscribeFails(k, lost) ==
    /\ wire[k] # <<>> /\ On(k) # {}
    /\ relink(k[1], lost, {k[2]})

\* go-redis drops a message that its buffer had no room for in a minute.
MessageDropped(k) ==
    /\ losses < MaxLosses
    /\ losses' = losses + 1
    /\ inbox[k] > 0
    /\ inbox' = [inbox EXCEPT ![k] = @ - 1]
    /\ UNCHANGED <<conn, joined, deaf, djangoVars, process, wire, heard, failed>>
    /\ forgets

-----------------------------------------------------------------------------
(* Django: PUBLISH reaches the replicas subscribed when Redis executes it. *)

publish(ch) ==
    /\ publishes < MaxPublish
    /\ publishes' = publishes + 1
    /\ published' = published \cup {ch}
    /\ inbox' = [k \in Link |-> IF k[2] = ch /\ k \in heard THEN inbox[k] + 1 ELSE inbox[k]]
    /\ covered' = covered \cup {c \in Conn : /\ conn[c] = "member"
                                             /\ ch \in joined[c] /\ Settled(c, ch)}
    /\ UNCHANGED <<conn, joined, deaf, process, wire, heard, failed, losses>>

\* logout(): _revoke_on_logout publishes before the session is flushed.
LogoutPublishes(s) ==
    /\ session[s] = "live"
    /\ session' = [session EXCEPT ![s] = "revoking"]
    /\ publish(s)
    /\ UNCHANGED banned

\* Mutant of LogoutRaises: the receiver swallows the exception.
LogoutRaisesUnseen(s) ==
    /\ session[s] = "live"
    /\ session' = [session EXCEPT ![s] = "revoking"]
    /\ UNCHANGED <<conn, joined, deaf, process, linkVars, publishes, published, covered, banned>>

\* publish raises after Redis executed it, or the request dies before the
\* flush: the session stays valid.  A publish that Redis did not execute
\* changes nothing at all.
LogoutRaises(s) ==
    /\ \/ session[s] = "live" /\ publish(s)
       \/ session[s] = "revoking"
          /\ UNCHANGED <<conn, joined, deaf, process, linkVars, publishes, published, covered>>
    /\ session' = [session EXCEPT ![s] = "live"]
    /\ UNCHANGED banned

LogoutFlushes(s) ==
    /\ session[s] = "revoking"
    /\ session' = [session EXCEPT ![s] = "gone"]
    /\ UNCHANGED <<conn, joined, deaf, banned, publishes, published, process, linkVars, covered>>

\* The documented ban: session rows deleted, then force_logout_user.
BanDeletes(u) ==
    /\ MayBan /\ u \notin banned
    /\ banned' = banned \cup {u}
    /\ session' = [s \in Session |-> IF UserOf[s] = u THEN "gone" ELSE session[s]]
    /\ UNCHANGED <<conn, joined, deaf, publishes, published, process, linkVars, covered>>

force_logout_user(u) ==
    /\ u \in banned
    /\ publish(u)
    /\ UNCHANGED <<session, banned>>

-----------------------------------------------------------------------------
(* The life of a process.                                                  *)

\* SIGTERM: shuttingDown is set and Shutdown closes the listener.
Sigterm(r) ==
    /\ process[r] = "up"
    /\ process' = [process EXCEPT ![r] = "draining"]
    /\ UNCHANGED <<conn, joined, deaf, djangoVars, linkVars, covered>>

\* main returns (Shutdown does not wait for upgraded connections), or the
\* process crashes: its connections break without a close frame.
Exit(r) ==
    /\ process[r] # "down"
    /\ process' = [process EXCEPT ![r] = "down"]
    /\ conn' = [c \in Conn |-> IF ReplicaOf[c] = r /\ conn[c] \notin {"none", "refused"}
                               THEN "closed" ELSE conn[c]]
    /\ joined' = [c \in Conn |-> IF ReplicaOf[c] = r THEN {} ELSE joined[c]]
    /\ heard' = {k \in heard : k[1] # r}
    /\ failed' = {k \in failed : k[1] # r}
    /\ wire' = [k \in Link |-> IF k[1] = r THEN <<>> ELSE wire[k]]
    /\ inbox' = [k \in Link |-> IF k[1] = r THEN 0 ELSE inbox[k]]
    /\ UNCHANGED <<deaf, djangoVars, losses, covered>>

Start(r) ==
    /\ process[r] = "down"
    /\ process' = [process EXCEPT ![r] = "up"]
    /\ UNCHANGED <<conn, joined, deaf, djangoVars, linkVars, covered>>

-----------------------------------------------------------------------------
Init ==
    /\ conn = [c \in Conn |-> "none"] /\ joined = [c \in Conn |-> {}] /\ deaf = {}
    /\ session = [s \in Session |-> "live"]
    /\ banned = {} /\ publishes = 0 /\ published = {}
    /\ process = [r \in Replica |-> "up"]
    /\ wire = [k \in Link |-> <<>>]
    /\ heard = {} /\ failed = {} /\ inbox = [k \in Link |-> 0] /\ losses = 0
    /\ covered = {}

Handshakes(c) == Ask(c) \/ ws_auth(c) \/ ValidateFails(c) \/ Accept(c)
Connections(c) ==
    Register(c) \/ Depart(c) \/ PingTimesOut(c) \/ \E ch \in Control : Leave(c, ch)
Messages(k) == RedisExecutes(k) \/ HubRevokes(k) \/ MessageDropped(k)
Breaks(r, lost) == LinkLost(r, lost) \/ \E ch \in Control : SubscribeFails(<<r, ch>>, lost)
Logouts(s) == LogoutPublishes(s) \/ LogoutRaises(s) \/ LogoutFlushes(s)
Bans(u) == BanDeletes(u) \/ force_logout_user(u)
Life(r) == Sigterm(r) \/ Exit(r) \/ Start(r)

Next ==
    \/ \E c \in Conn : Handshakes(c) \/ Connections(c)
    \/ \E k \in Link : Messages(k)
    \/ \E r \in Replica : Life(r) \/ \E lost \in SUBSET Control : Breaks(r, lost)
    \/ \E s \in Session : Logouts(s)
    \/ \E u \in User : Bans(u)

Spec == Init /\ [][Next]_vars

\* Goroutines, Redis and Django go on; peers, operators and failures need not
\* happen.  A connection told to close ends while its WritePump is there to do
\* it; without one it may stay as long as its peer sends frames.
Fairness ==
    /\ \A c \in Conn : /\ WF_vars(ws_auth(c)) /\ WF_vars(Accept(c)) /\ WF_vars(Register(c))
                       /\ WF_vars(conn[c] = "closing" /\ c \notin deaf /\ Depart(c))
    /\ \A k \in Link : WF_vars(RedisExecutes(k)) /\ WF_vars(HubRevokes(k))
    /\ \A s \in Session : WF_vars(LogoutFlushes(s))

FairSpec == Spec /\ Fairness

-----------------------------------------------------------------------------
(* Properties.                                                             *)

\* Types; commands about one channel alternate: one SUBSCRIBE per channel,
\* not per connection (hub.go:231-234).
HandshakeTypeOK ==
    /\ conn \in [Conn -> ConnState] /\ deaf \subseteq MayMissPing
    /\ joined \in [Conn -> SUBSET Control]
    /\ \A c \in Conn : /\ joined[c] \subseteq ControlOf(c)
                       /\ joined[c] # {} => conn[c] \in {"member", "closing"}
    /\ session \in [Session -> {"live", "revoking", "gone"}]
    /\ banned \subseteq User
    /\ process \in [Replica -> {"up", "draining", "down"}]
    /\ wire \in [Link -> Seq({"SUBSCRIBE", "UNSUBSCRIBE"})]
    /\ \A k \in Link : \A i \in 1..(Len(wire[k]) - 1) : wire[k][i] # wire[k][i + 1]
    /\ heard \subseteq Link /\ failed \subseteq Link
    /\ inbox \in [Link -> 0..MaxPublish]
    /\ publishes \in 0..MaxPublish /\ losses \in 0..MaxLosses
    /\ published \subseteq Control /\ covered \subseteq Conn

\* Once its commands are executed, a replica is subscribed to exactly the
\* control channels of its members, but for one whose SUBSCRIBE failed: however
\* tabs of one session come, go and leave around each other and around a lost
\* link (hub.go:175-176, 217-273).
SubscribedWhileWanted ==
    \A k \in Link :
        On(k) # {} <=> IF wire[k] = <<>> THEN k \in heard \cup failed
                       ELSE wire[k][Len(wire[k])] = "SUBSCRIBE"

\* A member that was settled on a channel when its revocation was executed is
\* being closed, or the revocation is still on its way to it; what can save it
\* is a lost link, a dropped message, or its own unsubscribing of the channel
\* before the hub takes the revocation up (hub.go:217-226, 290-304,
\* logout.md:21-22).
CoveredIsClosing ==
    \A c \in covered : conn[c] \in {"closing", "closed"} \/ Coming(c)

\* ... and it does end, if its WritePump is there to end it (logout.md:3-4,
\* client.go:131-156).
CoveredCloses ==
    \A c \in Conn : c \in covered ~> (conn[c] = "closed" \/ c \notin covered \ deaf)

\* A session that logout ended had its revocation executed by Redis, publish
\* raising included (revocation.py:40-51: the receiver runs before the flush).
FlushedWasPublished ==
    \A s \in Session : session[s] = "gone" => s \in published \/ UserOf[s] \in banned

\* No connection of a session stays open for ever after its logout
\* (logout.md:3-4, threat-model.md:20).
LogoutCloses ==
    \A c \in Conn : session[SessionOf[c]] = "gone" ~> conn[c] \in {"none", "closed", "refused"}
=============================================================================
