----------------------------- MODULE KeepAlive -----------------------------
(***************************************************************************)
(* The clocks of one accepted connection: the read deadline of ReadPump,   *)
(* the ping ticker, the lifetime and the limits of the library calls in    *)
(* WritePump (src/gateway/client.go:67-158).  Time is counted in ticks; a  *)
(* timer is the time it has left, and time does not pass over what is due. *)
(* Which goroutine tells WritePump what is the matter of module Gateway.   *)
(***************************************************************************)
EXTENDS Integers

CONSTANTS
    Config,       \* the settings Load may return: pong, ping and life
    MaxStall,     \* longest post of ReadPump to the hub
    MaxPending,   \* bound: frames of the peer waiting to be read
    OpTimeout     \* limit of conn.Write, and of conn.Close in the library (5 s)

ASSUME KeepAliveAssumption ==
    /\ Config \subseteq [pong : Int, ping : Int, life : Int]
    /\ {MaxStall, MaxPending, OpTimeout} \subseteq Nat

VARIABLES
    cfg,          \* the settings of this process
    peer,         \* "talks", "idle" (answers pings only), "deaf" (sends only), "dead"
    pending,      \* data frames that arrived and are not read
    conn,         \* "open", "closing", "closed"
    reader,       \* ReadPump: "read", "post" (to the hub), "done"
    readerLeft,   \* its read deadline, or how long the hub still keeps it
    writer,       \* WritePump: "start", "select", "ping", "write", "close", "done"
    writerLeft,   \* time left to the call it is in
    ticker, tick, \* time to the next tick, and whether one waits in its channel
    lifeLeft,     \* the lifetime timer
    silent,       \* history: time since the peer's last data frame
    cut,          \* history: the read deadline closed the connection
    missed        \* history: a ping timed out and WritePump returned

peerVars == <<peer, pending, silent>>
readerVars == <<reader, readerLeft>>
writerVars == <<writer, writerLeft, tick>>
vars == <<cfg, peerVars, conn, readerVars, writerVars, ticker, lifeLeft, cut, missed>>

atLeastZero(n) == IF n < 0 THEN 0 ELSE n

\* When a peer that fell silent must have been noticed: the deadline starts
\* after every frame that was still waiting has been posted.
Noticed == atLeastZero(cfg.pong) + (MaxPending + 1) * MaxStall

Answers == peer \in {"talks", "idle"}

-----------------------------------------------------------------------------
(* The peer.                                                               *)

\* At most one frame per tick; one that arrives with the deadline is too late.
PeerSends ==
    /\ peer \in {"talks", "deaf"} /\ silent > 0
    /\ conn = "open" /\ pending < MaxPending
    /\ reader = "read" => readerLeft > 0
    /\ pending' = pending + 1
    /\ silent' = 0
    /\ UNCHANGED <<cfg, peer, conn, readerVars, writerVars, ticker, lifeLeft, cut, missed>>

PeerDies ==
    /\ peer' = "dead"
    /\ peer # "dead"
    /\ UNCHANGED <<cfg, pending, silent, conn, readerVars, writerVars, ticker,
                   lifeLeft, cut, missed>>

-----------------------------------------------------------------------------
(* ReadPump.                                                               *)

\* conn.Read returns a frame, and the request is posted to the hub.
ReadReturns ==
    /\ reader = "read" /\ conn # "closed" /\ pending > 0
    /\ pending' = pending - 1
    /\ reader' = "post"
    /\ readerLeft' \in 0..MaxStall
    /\ UNCHANGED <<cfg, peer, silent, conn, writerVars, ticker, lifeLeft, cut, missed>>

\* Mutant of PostReturns: the deadline is the ping interval.
PostReturnsPingInterval ==
    /\ reader = "post" /\ readerLeft = 0
    /\ reader' = "read"
    /\ readerLeft' = atLeastZero(cfg.ping)
    /\ UNCHANGED <<cfg, peerVars, conn, writerVars, ticker, lifeLeft, cut, missed>>

\* Mutant of PostReturns: the read that follows has no deadline.
PostReturnsNoDeadline ==
    /\ reader = "post" /\ readerLeft = 0
    /\ reader' = "read"
    /\ readerLeft' = Noticed + 1
    /\ UNCHANGED <<cfg, peerVars, conn, writerVars, ticker, lifeLeft, cut, missed>>

\* The next conn.Read has the whole of PongTimeout for a data frame; pongs
\* are handled inside it and do not extend it.
PostReturns ==
    /\ reader = "post" /\ readerLeft = 0
    /\ reader' = "read"
    /\ readerLeft' = atLeastZero(cfg.pong)
    /\ UNCHANGED <<cfg, peerVars, conn, writerVars, ticker, lifeLeft, cut, missed>>

\* The deadline passes, or conn was closed: CloseNow, and wsHandler cancels
\* the context of WritePump.
ReadFails ==
    /\ reader = "read"
    /\ conn = "closed" \/ (readerLeft = 0 /\ pending = 0) \/ cfg.pong <= 0
    /\ reader' = "done" /\ conn' = "closed"
    /\ cut' = (cut \/ conn = "open")
    /\ UNCHANGED <<cfg, peerVars, readerLeft, writerVars, ticker, lifeLeft, missed>>

-----------------------------------------------------------------------------
(* WritePump.                                                              *)

begin(op, limit) == writer' = op /\ writerLeft' = limit

writerOnly == UNCHANGED <<cfg, peerVars, readerVars, ticker, lifeLeft, cut>>

\* Mutant of StartWriter: the interval is not looked at.
StartWriterUnchecked ==
    /\ writer = "start"
    /\ writer' = "select"
    /\ UNCHANGED <<conn, cfg, peerVars, readerVars, writerLeft, tick, ticker, lifeLeft, cut, missed>>

\* time.NewTicker panics on an interval that is not positive: the process ends.
StartWriter ==
    /\ writer = "start"
    /\ IF cfg.ping > 0
       THEN writer' = "select" /\ UNCHANGED <<conn, reader>>
       ELSE writer' = "done" /\ conn' = "closed" /\ reader' = "done"
    /\ UNCHANGED <<cfg, peerVars, readerLeft, writerLeft, tick, ticker, lifeLeft, cut, missed>>

\* The lifetime is over: closed with 1000.
LifetimeFires ==
    /\ writer = "select" /\ lifeLeft = 0
    /\ begin("close", OpTimeout)
    /\ conn' = IF conn = "open" THEN "closing" ELSE conn
    /\ UNCHANGED <<tick, missed>> /\ writerOnly

\* A payload of the hub is written.
WriteBegins ==
    /\ writer = "select" /\ conn = "open"
    /\ begin("write", OpTimeout)
    /\ UNCHANGED <<conn, tick, missed>> /\ writerOnly

PingBegins ==
    /\ writer = "select" /\ tick
    /\ tick' = FALSE
    /\ begin("ping", atLeastZero(cfg.pong))
    /\ UNCHANGED <<conn, missed>> /\ writerOnly

\* Mutant of CallReturns: time.After is called anew for every select.
CallReturnsNewTimer ==
    /\ \/ writer = "ping" /\ Answers /\ reader = "read"
       \/ writer = "write"
    /\ conn = "open"
    /\ begin("select", 0)
    /\ lifeLeft' = atLeastZero(cfg.life)
    /\ UNCHANGED <<cfg, peerVars, conn, readerVars, tick, ticker, cut, missed>>

\* The pong is seen by ReadPump inside conn.Read; the write is taken.
CallReturns ==
    /\ \/ writer = "ping" /\ Answers /\ reader = "read"
       \/ writer = "write"
    /\ conn = "open"
    /\ begin("select", 0)
    /\ UNCHANGED <<conn, tick, missed>> /\ writerOnly

\* A ping that times out leaves the connection open, a write closes it.
CallFails ==
    /\ writer \in {"ping", "write"}
    /\ writerLeft = 0 \/ conn = "closed"
    /\ begin("done", 0)
    /\ conn' = IF writer = "write" THEN "closed" ELSE conn
    /\ missed' = (missed \/ (writer = "ping" /\ conn = "open"))
    /\ UNCHANGED tick /\ writerOnly

\* The peer answers the close frame, or the library waits no longer.
CloseReturns ==
    /\ writer = "close"
    /\ peer # "dead" \/ writerLeft = 0 \/ conn = "closed"
    /\ begin("done", 0)
    /\ conn' = "closed"
    /\ UNCHANGED <<tick, missed>> /\ writerOnly

\* ReadPump has returned: 1001, which a closed connection does not carry.
ContextDone ==
    /\ writer = "select" /\ reader = "done"
    /\ begin("done", 0)
    /\ UNCHANGED <<conn, tick, missed>> /\ writerOnly

-----------------------------------------------------------------------------
(* Time.                                                                   *)

Due ==
    \/ reader = "read" /\ (pending > 0 \/ readerLeft = 0 \/ conn = "closed")
    \/ reader = "post" /\ readerLeft = 0
    \/ writer = "start"
    \/ writer = "select" /\ (tick \/ lifeLeft = 0 \/ reader = "done")
    \/ writer \in {"ping", "write", "close"} /\ (writerLeft = 0 \/ conn = "closed")

Tick ==
    /\ ~Due
    /\ conn # "closed" \/ reader # "done" \/ writer # "done"
    /\ readerLeft' = atLeastZero(readerLeft - 1)
    /\ writerLeft' = atLeastZero(writerLeft - 1)
    /\ lifeLeft' = atLeastZero(lifeLeft - 1)
    /\ IF ticker = 1 THEN ticker' = cfg.ping /\ tick' = TRUE
                     ELSE ticker' = ticker - 1 /\ UNCHANGED tick
    /\ silent' = IF silent > Noticed THEN silent ELSE silent + 1
    /\ UNCHANGED <<cfg, peer, pending, conn, reader, writer, cut, missed>>

-----------------------------------------------------------------------------
Init ==
    /\ cfg \in Config
    /\ peer \in {"talks", "idle", "deaf", "dead"}
    /\ pending = 0 /\ silent = 0
    /\ conn = "open"
    /\ reader = "read" /\ readerLeft = atLeastZero(cfg.pong)
    /\ writer = "start" /\ writerLeft = 0
    /\ ticker = cfg.ping /\ tick = FALSE
    /\ lifeLeft = atLeastZero(cfg.life)
    /\ cut = FALSE /\ missed = FALSE

ReadPump == ReadReturns \/ PostReturns \/ ReadFails
WritePump ==
    StartWriter \/ LifetimeFires \/ WriteBegins \/ PingBegins \/ CallReturns
    \/ CallFails \/ CloseReturns \/ ContextDone

Next == PeerSends \/ PeerDies \/ ReadPump \/ WritePump \/ Tick

Spec == Init /\ [][Next]_vars

\* Both goroutines run and time passes, whatever the peer and the hub send
\* meanwhile (no infinite work in no time).  Go's select picks uniformly, so
\* a lifetime that is ready again and again is taken.
Fairness ==
    /\ WF_vars(ReadPump) /\ SF_vars(Tick)
    /\ WF_vars(StartWriter) /\ WF_vars(PingBegins) /\ WF_vars(CallFails) /\ WF_vars(CloseReturns)
    /\ WF_vars(ContextDone) /\ SF_vars(LifetimeFires)

FairSpec == Spec /\ Fairness

-----------------------------------------------------------------------------
(* Properties.                                                             *)

\* Types; a running ticker has a positive interval (client.go:114).
KeepAliveTypeOK ==
    /\ cfg \in Config
    /\ peer \in {"talks", "idle", "deaf", "dead"}
    /\ pending \in 0..MaxPending
    /\ conn \in {"open", "closing", "closed"}
    /\ reader \in {"read", "post", "done"} /\ readerLeft \in Nat
    /\ writer \in {"start", "select", "ping", "write", "close", "done"}
    /\ writerLeft \in Nat
    /\ ticker \in Int /\ tick \in BOOLEAN
    /\ writer # "start" /\ conn = "open" => ticker \in 1..cfg.ping
    /\ lifeLeft \in Nat
    /\ silent \in 0..(Noticed + 1)
    /\ cut \in BOOLEAN /\ missed \in BOOLEAN

\* A peer that sends nothing is gone at the latest when PongTimeout has
\* passed and its last frames are posted (client.go:79, config.go:48 "the
\* read deadline used to detect dead connections").
DeadIsNoticed == silent > Noticed => conn # "open"

\* The read deadline cuts nobody who sent a frame within PongTimeout: it is
\* renewed for every Read (client.go:75-85).
CutOnlyIfQuiet == cut => silent >= cfg.pong

\* Every connection ends by its lifetime, unless a ping has timed out before:
\* then WritePump is gone, and a peer that sends on is never capped
\* (client.go:116, 127-129, 152-154; configuration.md:43 "Hard cap").
LifetimeEnds == <>(conn = "closed" \/ missed)

\* A peer whose pings are all answered is not cut (configuration.md:42 "Read
\* deadline; missing pong -> close").
HealthyStaysOpen == cut => missed \/ ~Answers \/ writer # "select"
=============================================================================
