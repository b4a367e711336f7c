# Verification of django-websocket-gateway

TLA+ models of the WebSocket gateway, the TLC runs that check them and the
TLAPS proofs about them. Source paths are relative to `src/`.

## The system

A browser opens a WebSocket to the Go gateway, the gateway asks Django whether
the session is valid and which channels it may read, and from then on forwards
what Django publishes in Redis. A logout is a message too: a revocation on a
control channel the gateway subscribed the connection to.

```
browser: WSClient <--WebSocket--> ReadPump/WritePump <--Go channels--> Hub
                                        |                                |
                      ws_auth (Django) -+               RedisSubscriber -+- Redis <- publish, logout (Django)
```

### Inventory

| Component | State | Operations | Talks to | What is hard | What makes it correct |
|---|---|---|---|---|---|
| Hub (`gateway/hub.go`) | `clients`, `userClients`, `channels`, each client's `subscribed`, `send`, `disconnect` | register, unregister, subscribe, unsubscribe, incoming | pumps (Go channels), subscriber (calls) | four indexes of one fact; non-blocking sends; eviction of slow clients through its own channel; any order of operations | indexes agree, caps hold, allow-list holds, no send on a closed channel, Redis follows, nobody is dropped silently |
| Pumps (`gateway/client.go`) | the connection, the goroutines' positions | read a frame, write a frame, ping, close | hub, peer | select between simultaneous reasons to close; shared `disconnect` slot; deadlines; who closes the connection | each connection is closed by somebody, with a truthful code; a revoked, slow or broken one ends |
| wsHandler, main (`gateway/main.go`) | one goroutine per connection | authenticate, upgrade, register, run the pumps; SIGTERM | Django, hub | registration and requests travel on different channels; shutdown order | a client is registered once and forgotten when it leaves |
| RedisSubscriber (`gateway/redis.go`) | `activeChans`, `closed`, mutex `mu` | Subscribe, Unsubscribe, readLoop, Close | hub, go-redis | failing commands, reconnects, hub and read loop around one mutex | counts and go-redis agree, and Redis but for failed SUBSCRIBEs; no deadlock; order kept |
| WSClient (`client.js`) | socket, timers, backoff, channel set | subscribe, unsubscribe, close, reconnect | gateway | errors, closes, timers and calls in any order | one connection at a time; channels re-sent; 4401 and `close()` final; keeps trying after losses and refusals |
| Authenticator (`gateway/auth.go`), `ws_auth` (`views.py`, `auth_decorator.py`) | none | one request | each other | session read before the connection can be revoked | an invalid session gets no connection |
| Revocation, publish (`revocation.py`, `publish.py`, `apps.py`) | the session row, the cached Redis client | logout receiver, `force_logout_user` | Redis | order of publishing and of deleting the session; publish fails | a logout reaches every connection that is subscribed when Redis executes it |
| Downloader (`_downloader.py`), `runwsgateway` | the cache directory, the process image | `ensure_binary`, exec | GitHub, other commands of the host | several processes, crashes between steps, upgrades | only verified bytes run; nothing but a crash leaves a file behind; every command serves in the end |
| Health, shutdown (`gateway/health.go`, `main.go`) | `shuttingDown` | `/healthz`, SIGTERM | load balancer | order of flag, listener, connections and exit | nothing of a replica survives it in Redis or in another replica |
| Configuration (`config.go`, `_config.py`) | constants | parse at start, twice | all | the two sides check differently; values at the edge (0, negative) | what is required is required by both; rejected or harmless |

`PROJECT.json` lists the components with their status and, under `hazards`,
what in this code is hard to test, at its line.

## The modules

| Module | Models | Extends / uses |
|---|---|---|
| `PubSub` | abstract broker: what the hub promises | – |
| `Subscriptions` | what the hub and the subscriber agree on | – |
| `Hub` | the hub goroutine as an open system | refines `Subscriptions` (in `HubProofs`) |
| `HubHistory` | `Hub` with a history variable | `EXTENDS Hub`; refines `PubSub` (`Broker == INSTANCE PubSub WITH ...`) |
| `MCHub` | constants of `Hub` for TLC | `HubHistory` |
| `Gateway` | the process: hub, five Go channels, pumps, evictions | `EXTENDS Hub`; refines `Hub!HubSpec` (`ImplementsHub`) |
| `MCGateway` | constants of `Gateway`; the idle step of a finished process | `Gateway` |
| `RedisSubscriber` | the pub/sub connection, with go-redis and Redis as external actors | refines `Subscriptions` (in its proofs): `manager` of `Hub` is its set of channels with a positive count |
| `WSClient` | the browser client | – |
| `Handshake` | replicas, Django's sessions, logout and ban, Redis links, restarts | its replica is `Gateway` and `RedisSubscriber` in one step |
| `KeepAlive` | the clocks of one connection | its goroutines are those of `Gateway` |
| `Launch` | the management command, the downloader, both settings checks | – |
| `MCHandshake`, `MCKeepAlive`, `MCLaunch` | constants for TLC | the module of the name |
| `HubProofs`, `HubHistoryProofs`, `GatewayProofs`, `RedisSubscriberProofs`, `WSClientProofs`, `HandshakeProofs`, `KeepAliveProofs`, `LaunchProofs` | theorems | the module of the name, TLAPS |

`Hub`, `Gateway` and `RedisSubscriber` are one process, taken apart along its
goroutines. `Handshake`, `KeepAlive` and `Launch` look at the same program from
three other sides: many processes and Django, time, and the way to
the first request. Each repeats of the inner modules only what its
question needs, and says in its header what it leaves to which of them.

Definitions named `...Unguarded`, `...Keep...`, `...Unsignalled` and the like, with
a comment "Mutant of", are faulty variants of the definition they precede. No
specification uses them; putting one in the place of the original must break
the property it is paired with in `PROJECT.json` (`mutants`).

### Hub

Variables have the names of the fields. Go maps whose keys are deleted when
they become empty are total functions whose default is the empty set, and
`c.subscribed`, `c.send`, `c.disconnect` are functions of the client. `manager` is
the set of channels the subscriber counts. One action per handler; a handler
that calls `addSubscription`, `removeFromChannel` or `deliverFrame` in a loop is
one step, because the goroutine owns everything it changes except the buffers,
and of those the other side only takes. `stopped`, `announced` and `evicting`
describe the other goroutines as far as the hub's promises depend on them:
WritePump may return, a client may be announced once, and each
`go func() { h.unregister <- c }` is a count. In `Hub` a handler may be
called at any time with any argument: what is proved of it does not depend on
the queues.

A payload is a model value; `RevokePayload` are those that
`handleControlMessage` parses as type revoke. A name is a member of `Channel`,
`Control` those with the reserved prefix, `WellFormed` those the regular
expression matches. Error frames keep channel and reason.

`PubSub` knows topics, members, outboxes and which connections are closing. It
says that a message reaches the outbox of every member in order, or the
connection is being closed; that among the messages there may be answers to the connection's own requests; that
a revocation starts closing every member; and
that closing is final. `HubImplementsPubSub` is checked by TLC and proved. `HubHistory` names the mapped state:
`phase`, `member`, `closing`; the outbox is `c.send`. The history variable
`heard` names the message the hub took up last: without it a hub that drops a
message would be indistinguishable from one that received none.

### Gateway

A step is what one goroutine does between two channel operations.
`reader[c]` is the position of the handler goroutine (`register` is its
blocking send, then ReadPump), `stopped` says that WritePump has returned,
`conn[c]` follows the WebSocket (`closing`: our close frame is sent) and
`code[c]` is what the peer saw. The queues are bounded sequences and
a send waits for room. `Run` is the select of `Hub.Run`, each case an action;
WritePump's select is `Writer` and `LifetimeEnds`. What the library does is
read off its use: `Conn.Close` sends the frame and ends the handshake
(`HandshakeEnds`), `Conn.Write` failing closes the connection, `Conn.Ping`
timing out does not (`PingMayFail`). `ConnectionLost` stands for a peer that
closes, a network that breaks, a frame over the limit, and the read deadline.
`Deliver` hands over a message of any channel: what Redis and go-redis have
buffered may be of a channel whose last client has left since, and clients
outside the instance may have been subscribed to it before.
`revoked` is a history variable.

### RedisSubscriber

The two lock regions of `redis.go` are steps of their own, and the hub is in
one of three places: in its select, waiting for `mu`, or holding it during a
Redis command. `activeChans` is a function on exactly the keys the Go map has,
because the difference between no key and a key at zero matters: a
failed `Subscribe` leaves a zero behind. The external part is go-redis and Redis,
which executes commands in order. go-redis subscribes to what it remembers on reconnecting, and
drops a message when its buffer has been full for a minute. A command that fails
loses its connection, and go-redis may replace it before the call
returns (`CommandFails`, second outcome): the new one is subscribed to what was remembered until then, and
only afterwards a Subscribe adds its own channel. The link is then up and lacks that
channel, and nobody asks for it before the connection is next lost. `ServerFollows` and `EventuallySubscribed` are stated
accordingly: a channel the hub listens to and Redis lacks is one that counts zero, and it is promised
to come back only after the next loss.

### WSClient

`socket` follows `readyState` per socket object, `ws` is `this.ws`, `timers` counts
pending `setTimeout` calls. Times are seconds and the jitter is left out. `told` is
what the gateway was asked for on the current socket. A failed handshake
(HTTP 401) reaches the page as an abnormal close, so `unauthorized` and `lost`
are handled alike; `lastClose` and `failures` are history variables. `KeepsTrying`
is about losses and refusals. After a 401 the code tries again too, where the
documents say that it stops; the property claims nothing of that case.

### Handshake

`conn[c]` follows one attempt through `wsHandler`: the checks before Django is
asked and the call (`Ask`), the moment the view loads the session row
(`ws_auth`), the answer on its way (`valid`), the upgrade (`Accept`), the
registration in the hub (`Register`), the end (`Depart`). `joined[c]` are the control
channels in `c.subscribed`: a client may unsubscribe them (`Leave`), since
`handleClientUnsubscribe` does not refuse the reserved prefix, and cannot subscribe them again. `deaf` are the
connections whose WritePump returned after a ping timeout and left them open (`PingTimesOut`):
the hub's signal to close is read by nobody. What `ws_auth`
read may be stale when the answer arrives; that is the whole point. A control channel is
named by the session or the user it revokes. Messages and commands of different channels commute,
so each pair of a replica and a channel has a queue of commands (`wire`) and a count of
revocations on their way (`inbox`); `heard` is what Redis has subscribed. `publish`
reaches the replicas that are in `heard` when Redis executes it.
A logout is three steps (`LogoutPublishes`, `LogoutRaises`, `LogoutFlushes`) because the
receiver runs before the session is flushed and may raise; a ban is the
documented order of `docs/docs/logout.md`, rows first. `LinkLost` drops whatever
was in flight on any set of channels and asks again for what the hub wants; `SubscribeFails`
does the same inside a failing SUBSCRIBE, without its channel, which is `failed` until
the link is next lost or its last client leaves; `MessageDropped` is the minute after which go-redis gives up a message. `Exit`
covers both the return of main, which does not wait for upgraded connections, and a crash.

`covered` is a history variable: the members that Redis had
subscribed, as far as the hub had asked, when their revocation was executed, less
those whose message a lost link or go-redis dropped, or who unsubscribed the channel before the hub took it
up. It draws the line between the connections a logout reaches and those it misses.

### KeepAlive

Time is counted in ticks, timers count down, and `Tick` does not pass over what is
due (`Due`), so that deadlines are exact and not merely possible. `readerLeft` is the
deadline of one `conn.Read`, or the time the hub keeps ReadPump in a post;
`ticker` and `tick` are `time.Ticker` with its one-place channel; `lifeLeft` is
`time.After`, created once. A pong is seen only while ReadPump is inside `conn.Read`,
which is why `CallReturns` wants `reader = "read"`. The peer may send,
answer pings, both, or neither, and die at any moment. `cfg` ranges over
settings that `Load` accepts, the edge included: `PingInterval` zero
panics in `StartWriter`, `PongTimeout` zero cuts at once.

### Launch

`pc[p]` is where a command stands between two system calls; `dest` is the one
cached file with its execute bit, `tmp[p]` the temporary file, from its creation (`FetchChecksum`, once the sum is known) to its
move or removal. `Download` brings the
bytes of the release the package names or corrupt ones, `Verify` compares the
sum, `Move` replaces the file, `Chmod` acts by path on whatever file is there by then, and
so does `Exec`. `Crash` may fall between any two steps and runs no `finally`: the temporary file stays in the directory, where a restarted
process, which takes a new name, never looks for it. `litter` counts those files. `Restart` is the supervisor. `Upgrade`
replaces the package while commands run. `get_config` and `Load` are the checks
of the two sides over one settings record, with the translation between them;
characters and bytes of the secret are counted separately, as the two sides do.

## What is checked

Passing runs:

| Run | Instance | Shows |
|---|---|---|
| `hub_tabs` | 2 tabs of one session, 4 names (a topic, two own control channels, a foreign one), symmetry of the tabs, buffer 1, SUBSCRIBE may fail | types, allow-list, agreement of the indexes, no send on a closed channel, Redis follows, evictions are signalled, refinement of `PubSub` |
| `gateway_one` | 1 connection, 2 requests, 3 messages, queues 2, buffer 1, fair | close codes are truthful; no abandoned connection, and none that is revoked without being told; revoked, slow and broken connections end |
| `gateway_two` | 2 connections, caps 1 and 1, queues 1, pings may fail | the process implements `Hub`; caps; refused and removed clients are told; no deadlock |
| `redis_subscriber` | 2 channels, 3 messages, 1 lost connection, queues 1 and 2, fair | counts and go-redis in step, Redis but for channels whose SUBSCRIBE failed; order; no mutual waiting; what was subscribed without an error comes to Redis, a failed one with the next lost connection |
| `ws_client` | 2 channels, 2 sockets, 6 counted failures, fair | one connection, re-subscription, exact backoff, 4401 final, never gives up after losses and refusals |
| `handshake` | 1 replica, 2 tabs of 1 session that may unsubscribe either control channel, 1 of them with a missed ping, 2 revocations, 1 lost link, failed SUBSCRIBE or dropped message, a ban, restarts, fair | subscribed exactly while wanted, failed SUBSCRIBEs apart; a covered connection is closing, and closes while its WritePump is there; a flushed session was published |
| `keepalive` | 5 settings (usual, rare pings, no deadline, no interval, no lifetime), all kinds of peer, fair | a dead peer is noticed in time; nobody who sends is cut; the lifetime ends every connection whose pings do not time out |
| `launch` | 2 commands on one cache, 2 releases, 2 crashes, 13 settings, fair | only verified bytes run; a temporary file is worked on or was left by a crash; what is required is required by both sides; every command serves in the end |

`gateway_two` also fires, with every queue at length one, the interleavings in
which everybody waits on everybody; TLC's deadlock check finds none.

That a revoked connection ends, and that a close code is never untruthful, is
checked; that a revoked connection sees 4401 is not true when it is already
being closed for another reason, because all reasons share one buffer and one
select. The hazard is listed in `PROJECT.json`.

Runs that end in a violation, each a disagreement of the code with a document
of the repository (quoted in `PROJECT.json`, `findings`):

| Run | Property | What happens |
|---|---|---|
| `gateway_ghost` | `DepartedIsForgotten` | The hub takes `unregister` before `register` and keeps a client whose goroutines are gone. |
| `ws_client_close` | `ClosedIsFinal` | A pending timer opens a socket after `close()`. |
| `handshake_logout` | `LogoutCloses` | A connection is validated before the logout flushes the session and subscribed after the revocation was published: it outlives the logout. |
| `keepalive_idle` | `HealthyStaysOpen` | Pongs do not extend the read deadline: a peer that answers every ping and has nothing to send is cut. |

The models contain other behaviours that differ from what a reader of the
documents may expect, on which no run is spent; `PROJECT.json` has them under `hazards`
with their lines. A subscribe can overtake its registration and is then dropped without an answer. A
client may unsubscribe from its own control channels, and a revocation then misses it. After a ping timeout WritePump is gone
while the connection may live, without lifetime and deaf to revocations. A SUBSCRIBE that failed is not repeated while the
link holds. A refusal with 4429 follows an open, which resets the browser's backoff. A crash
during a download leaves its temporary file for good. On SIGTERM upgraded connections break without 1001. The
cached binary of an older release is found under the new one's name. And a handshake answered
with 401 is an abnormal close to the browser, so that the client retries for ever: `client.js:100`
("4401 = unauthorized (revoked or session invalid); stop trying."), `docs/docs/logout.md:60` ("Reconnect with no
cookie → 401 → JS client stops") and `gateway/auth.go:42` ("Connections should be closed with code 4401.") all say that it stops.
This is a disagreement of the code with its documents like the four above; `KeepsTrying` leaves the
case out, so that no property approves of it.

### Bounds

`MaxEvictions`, `MaxFrames`, `MaxPublish`, `MaxLosses`, `WireCap`,
`MaxFailures` and the set `Requested` bound the environment. The caps of the Go channels are
parameters (8, 8, 32, 32, 256, and 64 for `send`); the runs use 1 or 2, where
full and empty are a step apart, so that blocking and eviction occur at once. One connection with three
messages and a buffer of one covers a lost frame followed by
another and a revocation beside either. Two connections are what sharing a
channel, a cap or the register queue takes. With both caps at one the two
refusals coincide; what tells them apart (a third client, of another user) is
left to `CapsAlwaysHold`, which is proved for all values. One eviction per client is
enough: the queue of `h.unregister` and ReadPump's own post bring the second
unregistration of a client, and in `Hub` any client may be unregistered at any
time, again included. In `ws_client`
five failures reach the 30 s cap and the sixth stays there; two sockets suffice
to see a second one beside the first.

`handshake` takes two tabs of one session, which share both control channels until
one of them leaves one: `On(k)` then is empty, one of two, or both, and differs between the channels. Two
publishes are a logout that raises and its repetition, or a logout beside a ban. `MaxLosses` counts lost links,
failed SUBSCRIBEs and dropped messages together; a connection is used once, but a replica restarts without bound.
`MayLeave` and `MayMissPing` name the connections that may unsubscribe and miss a ping: both, and one, so that a
tab whose WritePump is gone stands beside one whose WritePump is there. TLC checks one replica: nothing of a replica is read by another
(every queue belongs to one), and the invariants are proved for any number of replicas,
sessions and connections. `handshake_logout` has one connection that does not leave, no missed ping and no loss: the
overtaken handshake alone is what it finds.
In `keepalive` the times are small and their order is what matters: the deadline is above,
below and at zero against the interval, and the lifetime beyond both. `MaxStall` (a post waits for the hub),
`MaxPending` (frames not read) and `OpTimeout` (5 s of the library) are 2 each; without the first two no
time could be named after which a dead peer is noticed, and the theorem names it for all values.
`MaxCrashes` is 2 in `launch`: one crash leaves a file
without execute bits, the second meets the process that repairs it.

### Fairness

`Gateway`: every goroutine that can go on does (WF on `Reader`, on the hub's
cases, on the eviction goroutines and on the returns of WritePump that need
nothing but the hub). Go's select chooses uniformly among ready cases, so a
case that stays ready is not passed over for ever, which is weak fairness of each. The library gives
up a closing handshake after a timeout (WF on `HandshakeEnds`). Nothing is
assumed of peers, Redis, the lifetime timer, nor of `ConnectionLost`: a peer that goes on sending is never cut
by the read deadline. `RedisSubscriber`: SF on taking the mutex, since
`sync.Mutex` hands itself to a goroutine that waited a millisecond; WF on the end of
a command (two-second timeout), on the goroutines, on reconnecting and on the server. `WSClient`: the
browser runs its timers and ends sockets it is closing; SF on `onopen`
says that a gateway that can be reached again and again is reached, without which no
client could promise anything. `Handshake`: the goroutines, Redis and Django's
flush go on (WF); peers, operators, links and replicas need do nothing. A connection told to close ends (WF) only
while its WritePump is there to close it (`c \notin deaf`); without one nothing is assumed to end it. `KeepAlive`: ReadPump and
the calls of WritePump run (WF); SF on `Tick` says that no infinite work is done in no time, and SF on
`LifetimeFires` that a select in which the lifetime timer is ready again and again takes it, since Go picks
uniformly. `Launch`: commands run and are restarted (WF); SF on the network steps says that
a network that is tried again and again answers, with good bytes, and SF on `Exec` that between two replacements of the file by others
a command once gets from its check to exec, microseconds against seconds of download.

## What is proved

By TLAPS, for every value of the constants that satisfies the assumptions of
the modules (finite set of clients, types of the functions, natural
capacities):

* `HubProofs`: `TypeCorrect`, `IndexesAlwaysAgree`, `NeverSendsOnClosed`,
  `CapsAlwaysHold`, `AllowListAlwaysHolds`, `RedisAlwaysFollows`,
  `DetachedAlwaysSignalled`, `EvictedAlwaysSignalled`. The inductive invariant is
  `Inv == TypeOK /\ Lifecycle /\ IndexesAgree`. `IndexesAgree` alone is not
  inductive: a client registered a second time after its departure would join
  with the subscriptions of its first life. `Lifecycle` excludes it: whoever
  is registered has been announced, whoever has not been announced has
  neither subscriptions nor a closed channel, and a closed channel means gone. The other theorems add what they need to
  it: the caps count with `FS_AddElement` and `FS_Subset`; the allow-list needs that what is queued was allowed when it was queued.
  `RegisteredAlwaysRevocable` says that a registered client is on both its control channels; it
  assumes that peers name no control channel (`Requested \cap Control = {}`), because
  `handleClientUnsubscribe` does not refuse the reserved prefix and the statement is false otherwise.
  `HubAlwaysKeepsAgreement` is the hub's half of `Subscriptions`: it asks for a channel with the first client and gives it up
  with the last, a batch of channels at a time.
* `HubHistoryProofs`: `HubAlwaysImplementsPubSub`, the refinement of the broker. One lemma for each handler names
  the broker's action it is under the mapping (a handler that changes nothing is none); they rest on what
  `deliverFrames`, `addSubscriptions` and `removeFromChannels` do to the mapped state, and on
  `Inv`: a client that registers is in no channel yet, so that it joins exactly its control channels.
* `GatewayProofs`: `GatewayImplementsHub` (every step of the process is a
  step of `Hub` or a stutter; it needs that a client is in the register queue
  at most once and never after it was announced), hence
  `GatewayKeepsHubInvariants`, all of the above for the running process;
  and `NeverAbandons`: under `PingMayFail = FALSE`, WritePump returns only
  from a connection that is being closed, and a revoked connection that is open has a signal before it. Its invariant `ShutInv` says that the silent
  signal `Cleanup` is in a buffer only if the connection is already shut, and that a client on its way to
  `handleUnregister` has a shut connection or has been told a code. Without the assumption it is false: a ping that times out
  ends WritePump and leaves the connection open. `CloseCodesAlwaysJustified` needs no such
  assumption. Its invariant `Truthful` says the same of a reason still in the
  disconnect buffer, for a connection that is open when WritePump takes it, and `RefusedForEver` that the hub never looks at a refused client again.
  `RevocationsReachAll` is the step before `NeverAbandons`: when the hub takes up a revocation, every client it has registered for
  that session or user is revoked or shut (under the assumption of `RegisteredAlwaysRevocable`).
  `GhostsAreLateRegistrations` bounds what the run `gateway_ghost` shows: an entry that stays behind comes only from the
  registration of a client whose handler has returned, and goes only with an eviction.
  `GatewayImplementsPubSub` composes the two refinements: with the history variable of `HubHistory` added (`HeardSpec`),
  the process with its queues and pumps implements the broker, in one theorem.
* `RedisSubscriberProofs`: `SubscriberTypeCorrect`, `AlwaysRestores`, `ServerAlwaysFollows`, `AlwaysInOrder`. The
  second speaks of the hub between two calls; `Books` says for each place in
  a call how the keys, the listened channels and the remembered ones differ, and
  `Mutex` that `Close` cannot fall into a command. `Wired` says that the last command in flight about a channel, or
  the server when there is none, agrees with what go-redis remembers, unless the channel is `Missing`: remembered, but not
  on the link since its SUBSCRIBE failed, and counted zero. `ServerAlwaysFollows` has the same exception. `Order` says that numbers rise from what the
  hub has had through its channel and the message readLoop holds to the buffer of go-redis.
  `SubscriberAlwaysKeepsAgreement` is the other half of `Subscriptions`. Its mapping takes a Subscribe to happen when it returns and
  an Unsubscribe when it is called. With it, what `HubCalls` assumes of the hub is a theorem of `Hub`, and what `Hub` assumes of
  `manager` is a theorem of `RedisSubscriber`. After `Close` an Unsubscribe leaves the counts alone; the mapping keeps only
  the counts of channels the hub still listens to.
* `WSClientProofs`: `ClientTypeCorrect`, `AlwaysOneConnection`, `GatewayAlwaysKnows`,
  `RevokedAlwaysFinal`, `BackoffAlwaysFollows`, `ClosedAlwaysWindsDown`. One connection at a time is not inductive: an error event and a timer could
  each open one. `Alone` says what the code relies on: an open or opening socket is `this.ws`, and a
  timer is pending only when there is none, and then only one.
  The backoff is compared with `powerOfTwo`, a recursive function on the naturals. That it exists and doubles is proved by set
  induction: `SetInduction` takes a set of numbers, not an operator, and rests on the well-foundedness of `<`. `OneMoreFailure`
  then says that the capped delay of one more failure is twice the capped delay, capped.
  `ClosedAlwaysWindsDown` bounds what the run `ws_client_close` shows: after `close()` the measure `Remaining`, the sockets still
  to open and end, never grows, so that at most the one pending timer is left to fire.
* `HandshakeProofs`, for any number of replicas, users, sessions and connections, and
  for any number of lost links and publishes, the bounds being arbitrary:
  `HandshakeTypeCorrect`, `AlwaysSubscribedWhileWanted`, `CoveredAlwaysClosing`,
  `FlushedAlwaysPublished`. `LinksOK` is the core: commands of a channel alternate, and the
  last of them (or Redis, when there is none) says whether somebody is on the channel, one whose SUBSCRIBE failed apart. From it a settled member is in `heard`, so that
  publishing puts the message into its inbox. `Counted` bounds the inboxes by the publishes,
  `CoveredWereMembers` keeps a covered connection from starting over, and `RevokingWasPublished`
  carries the publish over to the flush. Two theorems say what is left of `LogoutCloses`, which the run
  `handshake_logout` refutes: `GoneAlwaysAdmitsNobody`, from the flush on the connections of a session only end;
  `LogoutReachesTheReady`, a connection that was registered and subscribed at any moment while the session was live is told of the
  logout, as long as no link breaks, no SUBSCRIBE fails and no message is dropped (`losses = n`), and unless it unsubscribes the channel of its session itself. Its invariant `Sheltered` rests on `StaysSettled`: no other tab of the
  session can make the hub send a command about a channel that still has a member. What a logout can miss is
  thereby: a handshake it overtakes, a message or SUBSCRIBE lost with a link or dropped by go-redis, a connection that has left its
  control channel, and one that is told but whose WritePump is gone.
* `KeepAliveProofs`: `KeepAliveTypeCorrect`, `DeadAlwaysNoticed`, `CutAlwaysQuiet`. `Budget` bounds, for each
  position of ReadPump, the time since the last frame plus the time left by the deadline and the stalls of
  the frames still waiting, which only falls as they are read; `Renewed` says that a
  deadline that runs was set no earlier than the last frame.
* `LaunchProofs`: `LaunchTypeCorrect`, `OnlyVerifiedEverRuns`, `RequiredAlwaysAgree`. The first includes that every way out of a
  download but a crash removes its temporary file, so that those left are at most one for each crash. `Verified` says that a temporary
  file past the comparison holds a release, hence what is moved does, whoever makes it executable; `Checked` that whoever
  reached `Load` has passed `get_config`.

Only model-checked: liveness, which is outside the prover's reach: `BrokenConnectionEnds`, `LostFrameEnds`,
`RevocationCloses`, `EventuallySubscribed`, `HubReturns`, `KeepsTrying`, `CoveredCloses`, `LifetimeEnds`, `EventuallyServes`.
Every invariant and safety property of a passing run is a theorem.

## What is not modelled, and the plan

Done: `PubSub`, `Hub`, `Gateway`, `RedisSubscriber`, `WSClient`, `Handshake`,
`KeepAlive`, `Launch`, and their proofs. Left:

1. `Handshake` with two replicas in TLC, which needs a coarser view of restarts.
2. The wire between `WSClient` and `Gateway` as one composition: today `told` in the one and
   `Requested` in the other stand for it.

Not modelled:

* The health endpoint: it reads a flag and pings Redis over another connection than the
  subscription, and changes nothing. Whether a probe falls between the flag and the closing of the listener is
  a matter of time, not of order.
* In the downloader `WS_GATEWAY_BINARY_PATH`, which bypasses the cache, and the refusal of an
  unsupported platform; the environment the command inherits, from which an option absent from the dict may come.
* In the view, inactive users and the project's callback: one more way to be refused, and the list it
  returns is `Allowed` in `Hub`. Close codes at shutdown.
* Parsing of JSON, URLs and durations beyond accepted and rejected, logging, the origin check and
  the shared secret (stateless comparisons, a refusal in `Ask`), the content of frames, TLS and the
  reverse proxy, packaging and CI. The application's handlers in `client.js` (`on`,
  `onmessage`) keep no state of the connection.

Outside `KeepAlive` time is nondeterminism: a deadline may expire at any moment.
