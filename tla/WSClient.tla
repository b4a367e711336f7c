------------------------------ MODULE WSClient ------------------------------
(***************************************************************************)
(* The browser client (static/websocket_gateway/client.js): one WSClient   *)
(* object, the sockets it has created, its reconnect timers and the events *)
(* the browser fires at it.  A socket is free before it is created and     *)
(* after its close event.  What the application does (subscribe,           *)
(* unsubscribe, close) may come between any two events.  Message events    *)
(* change nothing of this state.                                           *)
(***************************************************************************)
EXTENDS Integers, FiniteSets

CONSTANTS
    Channel,       \* channel names
    Socket,        \* bound: sockets that exist at one time
    initialBackoff, maxBackoff,  \* 1 and 30, in seconds
    MaxFailures    \* bound: the failure counter saturates here

\* powerOfTwo[n] is 2^n, which the provers do not know.
powerOfTwo[n \in Nat] == IF n = 0 THEN 1 ELSE 2 * powerOfTwo[n - 1]

ASSUME BackoffAssumption ==
    /\ initialBackoff \in Nat \ {0}
    /\ maxBackoff \in Nat
    /\ initialBackoff <= maxBackoff
    /\ MaxFailures \in Nat
    /\ initialBackoff * powerOfTwo[MaxFailures] >= maxBackoff

VARIABLES
    socket,           \* socket[s]: its readyState
    ws,               \* this.ws
    timers,           \* pending setTimeout calls
    backoff,          \* this.backoff, in seconds
    shouldReconnect,  \* this.shouldReconnect
    channels,         \* this.channels
    told,             \* the channels the gateway was asked for on this.ws
    failures,         \* history: close events since the last open event
    lastClose         \* history: why the last socket was closed

history == <<failures, lastClose>>
vars == <<socket, ws, timers, backoff, shouldReconnect, channels, told, history>>

\* Why a socket is closed.  The event carries 4401 for "revoked", 4429 for
\* "refused", and for "unauthorized", a handshake answered with HTTP 401, what
\* a browser reports for any failed handshake, 1006, as for "lost".
Reason == {"revoked", "refused", "unauthorized", "lost"}

Least(a, b) == IF a <= b THEN a ELSE b

\* _connect: this.ws = new WebSocket(url).
connect(s) ==
    /\ socket[s] = "free"
    /\ socket' = [socket EXCEPT ![s] = "connecting"]
    /\ ws' = s
    /\ told' = {}

\* this.ws.close()
closeSocket ==
    IF socket[ws] \in {"connecting", "open"}
    THEN [socket EXCEPT ![ws] = "closing"] ELSE socket

-----------------------------------------------------------------------------
(* The application.                                                        *)

subscribe(ch) ==
    /\ channels' = channels \cup {ch}
    /\ told' = IF socket[ws] = "open" THEN told \cup {ch} ELSE told
    /\ UNCHANGED <<socket, ws, timers, backoff, shouldReconnect, history>>

unsubscribe(ch) ==
    /\ channels' = channels \ {ch}
    /\ told' = IF socket[ws] = "open" THEN told \ {ch} ELSE told
    /\ UNCHANGED <<socket, ws, timers, backoff, shouldReconnect, history>>

close ==
    /\ shouldReconnect' = FALSE
    /\ socket' = closeSocket
    /\ UNCHANGED <<ws, timers, backoff, channels, told, history>>

-----------------------------------------------------------------------------
(* Events of the browser.                                                  *)

\* Mutant of onopen: the channels are not asked for again.
onopenForgets(s) ==
    /\ socket[s] = "connecting"
    /\ socket' = [socket EXCEPT ![s] = "open"]
    /\ backoff' = initialBackoff
    /\ failures' = 0
    /\ UNCHANGED <<ws, timers, shouldReconnect, channels, told, lastClose>>

\* Mutant of onopen: the backoff is not reset.
onopenKeepsBackoff(s) ==
    /\ socket[s] = "connecting"
    /\ socket' = [socket EXCEPT ![s] = "open"]
    /\ told' = channels
    /\ failures' = 0
    /\ UNCHANGED <<ws, timers, backoff, shouldReconnect, channels, lastClose>>

onopen(s) ==
    /\ socket[s] = "connecting"
    /\ socket' = [socket EXCEPT ![s] = "open"]
    /\ backoff' = initialBackoff
    /\ told' = channels
    /\ failures' = 0
    /\ UNCHANGED <<ws, timers, shouldReconnect, channels, lastClose>>

\* Mutant of onerror: an error schedules a reconnect, and so will the close.
onerrorReconnects(s) ==
    /\ socket[s] \in {"connecting", "open"}
    /\ socket' = closeSocket
    /\ timers' = timers + 1
    /\ UNCHANGED <<ws, backoff, shouldReconnect, channels, told, history>>

\* An error event: a close event follows.
onerror(s) ==
    /\ socket[s] \in {"connecting", "open"}
    /\ socket' = closeSocket
    /\ UNCHANGED <<ws, timers, backoff, shouldReconnect, channels, told, history>>

\* Mutant of scheduleReconnect: the doubling is not capped in time.
scheduleReconnectUncapped ==
    /\ timers' = timers + 1
    /\ backoff' = IF backoff <= maxBackoff THEN backoff * 2 ELSE maxBackoff

\* Mutant of scheduleReconnect: at the longest delay the client gives up.
scheduleReconnectGivesUp ==
    /\ timers' = IF backoff = maxBackoff THEN timers ELSE timers + 1
    /\ backoff' = Least(backoff * 2, maxBackoff)

scheduleReconnect ==
    /\ timers' = timers + 1
    /\ backoff' = Least(backoff * 2, maxBackoff)

\* Mutant of mayReconnect: the code is not looked at.
mayReconnectAnyCode(why) == shouldReconnect

mayReconnect(why) == shouldReconnect /\ why # "revoked"

onclose(s, why) ==
    /\ socket[s] # "free"
    /\ why = "unauthorized" => socket[s] = "connecting"
    /\ why \in {"revoked", "refused"} => socket[s] # "connecting"
    /\ socket' = [socket EXCEPT ![s] = "free"]
    /\ IF mayReconnect(why) THEN scheduleReconnect
                            ELSE UNCHANGED <<timers, backoff>>
    /\ failures' = Least(failures + 1, MaxFailures)
    /\ lastClose' = why
    /\ UNCHANGED <<ws, shouldReconnect, channels, told>>

\* setTimeout fires, after the backoff of its time and some jitter.
timeout(s) ==
    /\ timers > 0
    /\ timers' = timers - 1
    /\ connect(s)
    /\ UNCHANGED <<backoff, shouldReconnect, channels, history>>

-----------------------------------------------------------------------------
\* The constructor connects at once.
Init ==
    /\ ws \in Socket
    /\ socket = [s \in Socket |-> IF s = ws THEN "connecting" ELSE "free"]
    /\ timers = 0
    /\ backoff = initialBackoff
    /\ shouldReconnect = TRUE
    /\ channels \in SUBSET Channel
    /\ told = {}
    /\ failures = 0
    /\ lastClose = "none"

Next ==
    \/ \E ch \in Channel : subscribe(ch) \/ unsubscribe(ch)
    \/ close
    \/ \E s \in Socket : onopen(s) \/ onerror(s) \/ timeout(s)
    \/ \E s \in Socket, why \in Reason : onclose(s, why)

Spec == Init /\ [][Next]_vars

\* A browser runs its timers and ends every socket with an event, open or
\* close; a gateway that can be reached often enough is reached.
Fairness ==
    /\ \A s \in Socket : WF_vars(\E why \in Reason : socket[s] = "closing" /\ onclose(s, why))
    /\ WF_vars(\E s \in Socket : timeout(s))
    /\ SF_vars(\E s \in Socket : onopen(s))

FairSpec == Spec /\ Fairness

-----------------------------------------------------------------------------
(* Properties.                                                             *)

Live == {s \in Socket : socket[s] # "free"}

TypeOK ==
    /\ socket \in [Socket -> {"free", "connecting", "open", "closing"}]
    /\ ws \in Socket
    /\ timers \in Nat
    /\ backoff \in initialBackoff..maxBackoff
    /\ shouldReconnect \in BOOLEAN
    /\ channels \subseteq Channel
    /\ told \subseteq Channel
    /\ failures \in 0..MaxFailures
    /\ lastClose \in Reason \cup {"none"}

\* One connection at a time: there is never a second socket, nor a timer that
\* would create one beside a live socket, whatever mix of error events, close
\* events and calls the client sees (client.js:71-113).
OneConnection == Cardinality(Live) + timers <= 1

\* While this.ws is open the gateway has been asked on it for exactly the
\* channels of this.channels, those added while there was no connection
\* included (client.js:38-59, 74-79).
GatewayKnowsChannels == socket[ws] = "open" => told = channels

\* The delay before the next attempt is 1, 2, 4, ... capped: it counts the
\* closes since the last time a connection opened (client.js:4-5, 105-107).
BackoffFollowsFailures ==
    shouldReconnect /\ lastClose # "revoked" =>
        backoff = Least(initialBackoff * powerOfTwo[failures], maxBackoff)

\* A close with 4401 is the end: the client opens no connection after it
\* (client.js:100-104).
RevokedIsFinal == lastClose = "revoked" => Live = {} /\ timers = 0

\* After losses and refusals the client connects again, however many there
\* are, unless it is closed or a handshake finds its session invalid
\* (client.js:98-108).  After a handshake answered with 401 the code tries
\* again as well, while client.js:100 and logout.md:60 say that it stops:
\* nothing is claimed of that case.
KeepsTrying ==
    (shouldReconnect /\ lastClose \in {"none", "lost", "refused"})
        ~> \/ socket[ws] = "open" \/ ~shouldReconnect
           \/ lastClose \in {"revoked", "unauthorized"}

\* After close() the client creates no socket (client.js:62 "Close the
\* connection and disable auto-reconnect").
ClosedIsFinal == [][~shouldReconnect => ws' = ws /\ Live' \subseteq Live]_vars
=============================================================================
