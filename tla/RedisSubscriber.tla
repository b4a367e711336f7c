-------------------------- MODULE RedisSubscriber --------------------------
(***************************************************************************)
(* The gateway's one Redis pub/sub connection (src/gateway/redis.go): the  *)
(* reference counts, the mutex mu, the hub goroutine that calls Subscribe  *)
(* and Unsubscribe, the readLoop goroutine that fills hub.incoming, and    *)
(* the Close of main.  go-redis and the Redis server are external: what    *)
(* they do is modelled as this code uses them.  Module Hub sees of all     *)
(* this the set of the channels with a positive count.                     *)
(***************************************************************************)
EXTENDS Integers, Sequences, FiniteSets

CONSTANTS
    Channel,       \* Redis channels
    IncomingCap,   \* capacity of hub.incoming (256 in NewHub)
    BufferCap,     \* capacity of go-redis' message channel (100)
    WireCap,       \* bound: commands on their way to the server
    MaxPublish,    \* bound: messages published
    MaxLosses      \* bound: times the connection breaks

ASSUME SubscriberAssumption ==
    /\ {IncomingCap, BufferCap, WireCap} \subseteq Nat \ {0}
    /\ {MaxPublish, MaxLosses} \subseteq Nat

VARIABLES
    mu,           \* the goroutine that holds r.mu, or "free"
    activeChans,  \* r.activeChans, a function on the channels it has a key for
    closed,       \* r.closed
    hub,          \* the hub goroutine: "select", "lock" (wants mu), "command"
    call,         \* call: the operation and channel of the hub's current call
    listening,    \* the keys of h.channels
    loop,         \* readLoop: "receive", "lock", "unlock", "deliver", "done"
    held,         \* the message readLoop holds
    incoming,     \* hub.incoming
    buffer,       \* go-redis: messages received, not yet taken by readLoop
    remembered,   \* go-redis: the channels it subscribes to on reconnecting
    connected,    \* go-redis: whether it has a connection
    wire,         \* commands written to the connection, not yet executed
    server,       \* Redis: the channels this connection is subscribed to
    published,    \* messages published so far; a message is its number
    losses,       \* connections lost so far
    last          \* history: the last message the hub received

subscriberVars == <<mu, activeChans, closed>>
hubVars == <<hub, call, listening, last>>
loopVars == <<loop, held>>
redisVars == <<remembered, connected, wire, server, losses>>
vars == <<subscriberVars, hubVars, loopVars, incoming, buffer, redisVars, published>>

Operation == {"Subscribe", "Unsubscribe"}
Idle == [op |-> "none"]
NoMessage == 0

\* activeChans without the key ch, and with the value n for it.
without(ch) == [k \in DOMAIN activeChans \ {ch} |-> activeChans[k]]
with(ch, n) ==
    [k \in DOMAIN activeChans \cup {ch} |-> IF k = ch THEN n ELSE activeChans[k]]

\* A missing key counts zero.
count(ch) == IF ch \in DOMAIN activeChans THEN activeChans[ch] ELSE 0

-----------------------------------------------------------------------------
(* The hub goroutine.                                                      *)

\* addSubscription and removeFromChannel call the subscriber when a channel
\* gets its first and loses its last client.
HubCalls(op, ch) ==
    /\ hub = "select"
    /\ op = "Subscribe" <=> ch \notin listening
    /\ listening' = IF op = "Subscribe" THEN listening \cup {ch} ELSE listening \ {ch}
    /\ call' = [op |-> op, channel |-> ch]
    /\ hub' = "lock"
    /\ UNCHANGED <<subscriberVars, last, loopVars, incoming, buffer, redisVars, published>>

HubReceives ==
    /\ hub = "select"
    /\ incoming # <<>>
    /\ incoming' = Tail(incoming)
    /\ last' = Head(incoming)
    /\ UNCHANGED <<subscriberVars, hub, call, listening, loopVars, buffer,
                   redisVars, published>>

\* The call returns and mu is free again.
returns == hub' = "select" /\ call' = Idle /\ mu' = "free"

\* The call needs a Redis command: it keeps mu while it waits for it.
commands == hub' = "command" /\ mu' = "hub" /\ UNCHANGED call

\* Subscribe and Unsubscribe up to their Redis command.
SubscribeLocks ==
    /\ hub = "lock" /\ call.op = "Subscribe" /\ mu = "free"
    /\ \/ closed /\ returns /\ UNCHANGED activeChans
       \/ /\ ~closed
          /\ activeChans' = with(call.channel, count(call.channel) + 1)
          /\ IF count(call.channel) = 0 THEN commands ELSE returns
    /\ UNCHANGED <<closed, listening, last, loopVars, incoming, buffer,
                   redisVars, published>>

\* Mutant of UnsubscribeLocks: the key stays, with the lower count.
UnsubscribeLocksKeepKey ==
    /\ hub = "lock" /\ call.op = "Unsubscribe" /\ mu = "free"
    /\ LET ch == call.channel
       IN \/ /\ closed \/ ch \notin DOMAIN activeChans
             /\ returns /\ UNCHANGED activeChans
          \/ /\ ~closed /\ ch \in DOMAIN activeChans
             /\ IF activeChans[ch] > 1 THEN returns ELSE commands
             /\ activeChans' = with(ch, activeChans[ch] - 1)
    /\ UNCHANGED <<closed, listening, last, loopVars, incoming, buffer,
                   redisVars, published>>

UnsubscribeLocks ==
    /\ hub = "lock" /\ call.op = "Unsubscribe" /\ mu = "free"
    /\ LET ch == call.channel
       IN \/ /\ closed \/ ch \notin DOMAIN activeChans
             /\ returns /\ UNCHANGED activeChans
          \/ /\ ~closed /\ ch \in DOMAIN activeChans
             /\ IF activeChans[ch] > 1
                THEN returns /\ activeChans' = with(ch, activeChans[ch] - 1)
                ELSE commands /\ activeChans' = without(ch)
    /\ UNCHANGED <<closed, listening, last, loopVars, incoming, buffer,
                   redisVars, published>>

\* The command is written to the connection: the call succeeds.
CommandWritten ==
    /\ hub = "command"
    /\ connected
    /\ Len(wire) < WireCap
    /\ wire' = Append(wire, call)
    /\ remembered' = IF call.op = "Subscribe" THEN remembered \cup {call.channel}
                                              ELSE remembered \ {call.channel}
    /\ returns
    /\ UNCHANGED <<activeChans, closed, listening, last, loopVars, incoming, buffer,
                   connected, server, losses, published>>

\* Mutant of countAfterFailure: the failed Subscribe takes its key back.
countAfterFailureDeletes ==
    IF call.op = "Subscribe" THEN without(call.channel) ELSE activeChans

\* Mutant of countAfterFailure: the failed Subscribe stays counted.
countAfterFailureStays == activeChans

\* A Subscribe that fails takes its count back and leaves the key, at zero.
countAfterFailure ==
    IF call.op = "Subscribe" THEN with(call.channel, count(call.channel) - 1)
                             ELSE activeChans

\* The command fails, at the latest after its two seconds, and its connection
\* is lost.  go-redis replaces it within the call, if it can, and subscribes the
\* new one to what it remembers: an Unsubscribe has forgotten its channel
\* before, a Subscribe remembers its own only now, when that is done.
CommandFails ==
    /\ hub = "command"
    /\ losses < MaxLosses \/ ~connected
    /\ losses' = IF connected THEN losses + 1 ELSE losses
    /\ wire' = <<>>
    /\ \/ connected' = FALSE /\ server' = {}
       \/ connected /\ connected' = TRUE /\ server' = remembered \ {call.channel}
    /\ remembered' = IF call.op = "Subscribe" THEN remembered \cup {call.channel}
                                              ELSE remembered \ {call.channel}
    /\ activeChans' = countAfterFailure
    /\ returns
    /\ UNCHANGED <<closed, listening, last, loopVars, incoming, buffer, published>>

-----------------------------------------------------------------------------
(* readLoop and Close.                                                     *)

LoopReceives ==
    /\ loop = "receive"
    /\ buffer # <<>>
    /\ held' = Head(buffer)
    /\ buffer' = Tail(buffer)
    /\ loop' = "lock"
    /\ UNCHANGED <<subscriberVars, hubVars, incoming, redisVars, published>>

\* readLoop takes mu to read r.deliver.
LoopLocks ==
    /\ loop = "lock"
    /\ mu = "free"
    /\ mu' = "loop"
    /\ loop' = "unlock"
    /\ UNCHANGED <<activeChans, closed, hubVars, held, incoming, buffer,
                   redisVars, published>>

\* Mutant of LoopUnlocks: the callback runs before mu is released.
LoopUnlocksAfterDelivery ==
    /\ loop = "unlock"
    /\ Len(incoming) < IncomingCap
    /\ incoming' = Append(incoming, held)
    /\ held' = NoMessage
    /\ mu' = "free"
    /\ loop' = "receive"
    /\ UNCHANGED <<activeChans, closed, hubVars, buffer, redisVars, published>>

LoopUnlocks ==
    /\ loop = "unlock"
    /\ mu' = "free"
    /\ loop' = "deliver"
    /\ UNCHANGED <<activeChans, closed, hubVars, held, incoming, buffer,
                   redisVars, published>>

\* Mutant of LoopDelivers: a goroutine per message, which may overtake.
LoopDeliversConcurrently ==
    /\ loop = "deliver"
    /\ Len(incoming) < IncomingCap
    /\ incoming' \in {Append(incoming, held), <<held>> \o incoming}
    /\ held' = NoMessage
    /\ loop' = "receive"
    /\ UNCHANGED <<subscriberVars, hubVars, buffer, redisVars, published>>

\* hub.incoming <- m, the callback main installs.
LoopDelivers ==
    /\ loop = "deliver"
    /\ Len(incoming) < IncomingCap
    /\ incoming' = Append(incoming, held)
    /\ held' = NoMessage
    /\ loop' = "receive"
    /\ UNCHANGED <<subscriberVars, hubVars, buffer, redisVars, published>>

\* The range over the message channel ends once it is closed and empty.
LoopExits ==
    /\ loop = "receive"
    /\ closed /\ ~connected /\ buffer = <<>>
    /\ loop' = "done"
    /\ UNCHANGED <<subscriberVars, hubVars, held, incoming, buffer, redisVars, published>>

\* Close marks the subscriber closed, then closes the connection for good.
Close ==
    /\ ~closed
    /\ mu = "free"
    /\ closed' = TRUE
    /\ UNCHANGED <<mu, activeChans, hubVars, loopVars, incoming, buffer,
                   redisVars, published>>

ClosePubSub ==
    /\ closed /\ connected
    /\ connected' = FALSE /\ wire' = <<>> /\ server' = {}
    /\ UNCHANGED <<subscriberVars, hubVars, loopVars, incoming, buffer,
                   remembered, losses, published>>

-----------------------------------------------------------------------------
(* go-redis and the Redis server.                                          *)

ConnectionBreaks ==
    /\ connected
    /\ losses < MaxLosses
    /\ losses' = losses + 1
    /\ connected' = FALSE /\ wire' = <<>> /\ server' = {}
    /\ UNCHANGED <<subscriberVars, hubVars, loopVars, incoming, buffer,
                   remembered, published>>

\* go-redis reconnects and subscribes to every channel it remembers.
Reconnects ==
    /\ ~connected
    /\ ~closed
    /\ connected' = TRUE
    /\ server' = remembered
    /\ UNCHANGED <<subscriberVars, hubVars, loopVars, incoming, buffer,
                   remembered, wire, losses, published>>

ServerExecutes ==
    /\ wire # <<>>
    /\ wire' = Tail(wire)
    /\ server' = IF Head(wire).op = "Subscribe" THEN server \cup {Head(wire).channel}
                                                ELSE server \ {Head(wire).channel}
    /\ UNCHANGED <<subscriberVars, hubVars, loopVars, incoming, buffer,
                   remembered, connected, losses, published>>

\* A message on a subscribed channel arrives; go-redis drops it when nobody
\* has made room in its buffer for a minute.
Arrives ==
    /\ published < MaxPublish
    /\ server # {}
    /\ published' = published + 1
    /\ \/ Len(buffer) < BufferCap /\ buffer' = Append(buffer, published')
       \/ Len(buffer) = BufferCap /\ UNCHANGED buffer
    /\ UNCHANGED <<subscriberVars, hubVars, loopVars, incoming, redisVars>>

-----------------------------------------------------------------------------
\* As main leaves it: constructed, callback set, readLoop started.
Init ==
    /\ mu = "free" /\ activeChans = <<>> /\ closed = FALSE
    /\ hub = "select" /\ call = Idle /\ listening = {} /\ last = NoMessage
    /\ loop = "receive" /\ held = NoMessage
    /\ incoming = <<>> /\ buffer = <<>>
    /\ remembered = {} /\ connected = FALSE /\ wire = <<>> /\ server = {}
    /\ published = 0 /\ losses = 0

Loop == LoopReceives \/ LoopLocks \/ LoopUnlocks \/ LoopDelivers \/ LoopExits

Next ==
    \/ \E op \in Operation, ch \in Channel : HubCalls(op, ch)
    \/ HubReceives \/ SubscribeLocks \/ UnsubscribeLocks
    \/ CommandWritten \/ CommandFails
    \/ Loop \/ Close \/ ClosePubSub
    \/ ConnectionBreaks \/ Reconnects \/ ServerExecutes \/ Arrives

Spec == Init /\ [][Next]_vars

\* Goroutines run, a Redis command ends within its timeout, and a mutex is
\* not withheld from a waiting goroutine for ever (sync.Mutex hands itself to
\* a goroutine that has waited for a millisecond).  The server executes what
\* it is sent and can be reached again after a loss.
Fairness ==
    /\ SF_vars(SubscribeLocks) /\ SF_vars(UnsubscribeLocks)
    /\ WF_vars(CommandWritten \/ CommandFails)
    /\ WF_vars(HubReceives)
    /\ SF_vars(LoopLocks) /\ WF_vars(Loop)
    /\ WF_vars(Reconnects) /\ WF_vars(ServerExecutes)

FairSpec == Spec /\ Fairness

-----------------------------------------------------------------------------
(* Properties.                                                             *)

TypeOK ==
    /\ mu \in {"free", "hub", "loop"}
    /\ DOMAIN activeChans \subseteq Channel
    /\ activeChans \in [DOMAIN activeChans -> {0, 1}]
    /\ closed \in BOOLEAN
    /\ hub \in {"select", "lock", "command"}
    /\ call \in [op : Operation, channel : Channel] \cup {Idle}
    /\ listening \subseteq Channel
    /\ loop \in {"receive", "lock", "unlock", "deliver", "done"}
    /\ {held, last, published} \subseteq 0..MaxPublish
    /\ incoming \in Seq(1..MaxPublish) /\ Len(incoming) <= IncomingCap
    /\ buffer \in Seq(1..MaxPublish) /\ Len(buffer) <= BufferCap
    /\ remembered \subseteq Channel /\ server \subseteq Channel
    /\ connected \in BOOLEAN
    /\ wire \in Seq([op : Operation, channel : Channel]) /\ Len(wire) <= WireCap
    /\ losses \in 0..MaxLosses

\* Between two calls of the hub, go-redis would restore on a reconnect exactly
\* the channels the hub has clients for: a SUBSCRIBE that failed is made up
\* for, and its channel is given up with its last client because the failed
\* call left a key behind (redis.go:96-136, hub.go:241-268).
RestoresWhatIsListened ==
    hub = "select" /\ ~closed => remembered = listening

\* With no command under way, Redis is subscribed to nothing the hub has no
\* client for, and to all it has clients for but those whose SUBSCRIBE failed,
\* however often the connection broke (redis.go:96-136; channels.md:100-106).
ServerFollows ==
    hub = "select" /\ ~closed /\ connected /\ wire = <<>> =>
        /\ server \subseteq listening
        /\ \A ch \in listening \ server : count(ch) = 0

\* The hub receives messages in the order Redis sent them, each at most once,
\* whatever was dropped in between (redis.go:162-173).
InOrder == [][last' # last => last' > last]_vars

\* A call of the hub returns: the hub, blocked in Subscribe, and readLoop,
\* blocked on the hub's full channel, never wait for each other
\* (redis.go:96-98, 165-170; hub.go:248-252).
HubReturns == hub # "select" ~> hub = "select"

\* A channel that was subscribed without an error comes to Redis and comes back
\* to it, and so does after the next lost connection one whose SUBSCRIBE failed,
\* unless its clients leave or the process closes.  Until then nobody makes up
\* for the failure (redis.go:102-109, hub.go:249-251, which only logs it).
EventuallySubscribed ==
    \A ch \in Channel :
        ch \in listening \cap remembered /\ (count(ch) = 1 \/ ~connected)
            ~> (ch \in server \/ ch \notin listening \/ closed)
=============================================================================
