----------------------- MODULE RedisSubscriberProofs -----------------------
(***************************************************************************)
(* Type correctness of RedisSubscriber, RestoresWhatIsListened,            *)
(* ServerFollows and InOrder, for all channels, capacities and bounds.     *)
(* The second is not inductive: it says nothing of the states in the       *)
(* middle of a call.  Books says in every state how the keys of            *)
(* activeChans and what go-redis remembers differ from what the hub        *)
(* listens to; Mutex says who may be where while mu is held, so that Close *)
(* never falls into the middle of a command.  Wired and Order, further     *)
(* below, add what the commands and the messages under way will do, and    *)
(* which channels a failed SUBSCRIBE left out.  Last, the subscriber's     *)
(* side of Subscriptions.                                                  *)
(***************************************************************************)
EXTENDS RedisSubscriber, TLAPS, SequenceTheorems

Mutex ==
    /\ mu = "hub" <=> hub = "command"
    /\ mu = "loop" <=> loop = "unlock"
    /\ hub = "select" <=> call = Idle
    /\ hub = "command" => ~closed
    /\ loop \in {"lock", "unlock", "deliver"} => held # NoMessage

\* The channel of a call is in listening exactly when it is a Subscribe.
Books ==
    /\ hub = "select" /\ ~closed =>
          DOMAIN activeChans = listening /\ remembered = listening
    /\ hub = "lock" /\ call.op = "Subscribe" =>
          /\ call.channel \in listening
          /\ ~closed => /\ DOMAIN activeChans = listening \ {call.channel}
                        /\ remembered = listening \ {call.channel}
    /\ hub = "lock" /\ call.op = "Unsubscribe" =>
          /\ call.channel \notin listening
          /\ ~closed => /\ DOMAIN activeChans = listening \cup {call.channel}
                        /\ remembered = listening \cup {call.channel}
    /\ hub = "command" => DOMAIN activeChans = listening
    /\ hub = "command" /\ call.op = "Subscribe" =>
          /\ call.channel \in listening
          /\ activeChans[call.channel] = 1
          /\ remembered = listening \ {call.channel}
    /\ hub = "command" /\ call.op = "Unsubscribe" =>
          /\ call.channel \notin listening
          /\ remembered = listening \cup {call.channel}

Inv == TypeOK /\ Mutex /\ Books

-----------------------------------------------------------------------------
(* Facts about the bounds and about queues.                                *)

LEMMA Bounds ==
    /\ IncomingCap \in Nat /\ BufferCap \in Nat /\ WireCap \in Nat
    /\ MaxPublish \in Nat /\ MaxLosses \in Nat
  BY SubscriberAssumption

\* Taking the head of a queue.
LEMMA Dequeue ==
    ASSUME NEW S, NEW q \in Seq(S), q # <<>>, NEW cap \in Nat, Len(q) <= cap
    PROVE  Head(q) \in S /\ Tail(q) \in Seq(S) /\ Len(Tail(q)) <= cap
  BY HeadTailProperties

\* Adding to a queue that has room.
LEMMA Enqueue ==
    ASSUME NEW S, NEW q \in Seq(S), NEW e \in S, NEW cap \in Nat, Len(q) < cap
    PROVE  Append(q, e) \in Seq(S) /\ Len(Append(q, e)) <= cap
  BY AppendProperties

\* An empty queue.
LEMMA EmptyQueue ==
    ASSUME NEW S, NEW cap \in Nat
    PROVE  <<>> \in Seq(S) /\ Len(<<>>) <= cap
  BY EmptySeq
-----------------------------------------------------------------------------
(* The steps of the hub.                                                   *)

\* What without and with do to a function with values 0 and 1.
LEMMA KeysChange ==
    ASSUME activeChans \in [DOMAIN activeChans -> {0, 1}],
           NEW ch, NEW n \in {0, 1}
    PROVE  /\ DOMAIN without(ch) = DOMAIN activeChans \ {ch}
           /\ without(ch) \in [DOMAIN without(ch) -> {0, 1}]
           /\ DOMAIN with(ch, n) = DOMAIN activeChans \cup {ch}
           /\ with(ch, n) \in [DOMAIN with(ch, n) -> {0, 1}]
           /\ with(ch, n)[ch] = n
  BY DEF without, with

LEMMA CallsKeep ==
    ASSUME Inv, NEW op \in Operation, NEW ch \in Channel, HubCalls(op, ch)
    PROVE  Inv'
  <1> USE DEF HubCalls, subscriberVars, loopVars, redisVars
  <1>1. TypeOK'
    BY DEF Inv, TypeOK
  <1>2. Mutex'
    BY DEF Inv, Mutex, Idle, Operation
  <1>3. Books'
    BY DEF Inv, Books, Operation
  <1>4. QED
    BY <1>1, <1>2, <1>3 DEF Inv

LEMMA SubscribeLocksKeeps ==
    ASSUME Inv, SubscribeLocks
    PROVE  Inv'
  <1> DEFINE ch == call.channel
  <1>1. /\ hub = "lock" /\ mu = "free" /\ call.op = "Subscribe"
        /\ activeChans \in [DOMAIN activeChans -> {0, 1}]
        /\ ch \in Channel /\ ch \in listening
    BY DEF SubscribeLocks, Inv, TypeOK, Mutex, Books, Idle
  <1>2. CASE closed /\ returns /\ UNCHANGED activeChans
    <2>1. TypeOK'
      BY <1>2 DEF SubscribeLocks, Inv, TypeOK, returns, loopVars, redisVars
    <2>2. Mutex'
      BY <1>1, <1>2 DEF SubscribeLocks, Inv, Mutex, returns, loopVars
    <2>3. Books'
      BY <1>2 DEF SubscribeLocks, Books, returns
    <2>4. QED
      BY <2>1, <2>2, <2>3 DEF Inv
  <1>3. CASE /\ ~closed
             /\ activeChans' = with(ch, count(ch) + 1)
             /\ IF count(ch) = 0 THEN commands ELSE returns
    <2>1. ch \notin DOMAIN activeChans /\ remembered = listening \ {ch}
      BY <1>1, <1>3 DEF Inv, Books
    <2>2. count(ch) = 0 /\ commands /\ activeChans' = with(ch, 1)
      BY <1>3, <2>1 DEF count
    <2>3. /\ DOMAIN activeChans' = DOMAIN activeChans \cup {ch}
          /\ activeChans' \in [DOMAIN activeChans' -> {0, 1}]
          /\ activeChans'[ch] = 1
      BY <1>1, <2>2, KeysChange
    <2>4. TypeOK'
      BY <1>1, <2>2, <2>3
      DEF SubscribeLocks, Inv, TypeOK, commands, loopVars, redisVars
    <2>5. Mutex'
      BY <1>1, <1>3, <2>2 DEF SubscribeLocks, Inv, Mutex, commands, loopVars, Idle
    <2>6. Books'
      BY <1>1, <1>3, <2>1, <2>2, <2>3
      DEF SubscribeLocks, Inv, Books, commands, redisVars
    <2>7. QED
      BY <2>4, <2>5, <2>6 DEF Inv
  <1>4. QED
    BY <1>2, <1>3 DEF SubscribeLocks

LEMMA UnsubscribeLocksKeeps ==
    ASSUME Inv, UnsubscribeLocks
    PROVE  Inv'
  <1> DEFINE ch == call.channel
  <1>1. /\ hub = "lock" /\ mu = "free" /\ call.op = "Unsubscribe"
        /\ activeChans \in [DOMAIN activeChans -> {0, 1}]
        /\ ch \in Channel /\ ch \notin listening
        /\ closed \/ ch \in DOMAIN activeChans
    BY DEF UnsubscribeLocks, Inv, TypeOK, Mutex, Books, Idle
  <1>2. CASE closed
    <2>1. returns /\ UNCHANGED activeChans
      BY <1>2 DEF UnsubscribeLocks
    <2>2. TypeOK'
      BY <2>1 DEF UnsubscribeLocks, Inv, TypeOK, returns, loopVars, redisVars
    <2>3. Mutex'
      BY <1>1, <2>1 DEF UnsubscribeLocks, Inv, Mutex, returns, loopVars
    <2>4. Books'
      BY <1>2, <2>1 DEF UnsubscribeLocks, Books, returns
    <2>5. QED
      BY <2>2, <2>3, <2>4 DEF Inv
  <1>3. CASE ~closed
    <2>1. ch \in DOMAIN activeChans /\ activeChans[ch] \in {0, 1}
      BY <1>1, <1>3
    <2>2. commands /\ activeChans' = without(ch)
      BY <1>3, <2>1 DEF UnsubscribeLocks
    <2>3. /\ DOMAIN activeChans' = DOMAIN activeChans \ {ch}
          /\ activeChans' \in [DOMAIN activeChans' -> {0, 1}]
      BY <1>1, <2>2, KeysChange
    <2>4. TypeOK'
      BY <2>2, <2>3
      DEF UnsubscribeLocks, Inv, TypeOK, commands, loopVars, redisVars
    <2>5. Mutex'
      BY <1>1, <1>3, <2>2 DEF UnsubscribeLocks, Inv, Mutex, commands, loopVars, Idle
    <2>6. Books'
      BY <1>1, <1>3, <2>2, <2>3
      DEF UnsubscribeLocks, Inv, Books, commands, redisVars
    <2>7. QED
      BY <2>4, <2>5, <2>6 DEF Inv
  <1>4. QED
    BY <1>2, <1>3

\* The end of a command, whether it was written or failed.
LEMMA CommandKeeps ==
    ASSUME Inv, CommandWritten \/ CommandFails
    PROVE  Inv'
  <1> DEFINE ch == call.channel
  <1>1. /\ hub = "command" /\ mu = "hub" /\ ~closed /\ loop # "unlock"
        /\ activeChans \in [DOMAIN activeChans -> {0, 1}]
        /\ DOMAIN activeChans = listening
        /\ call \in [op : Operation, channel : Channel]
    BY DEF CommandWritten, CommandFails, Inv, TypeOK, Mutex, Books
  <1>2. /\ returns
        /\ remembered' = IF call.op = "Subscribe" THEN remembered \cup {ch}
                                                  ELSE remembered \ {ch}
        /\ UNCHANGED <<closed, listening, last, loopVars, incoming, buffer, published>>
    BY DEF CommandWritten, CommandFails
  <1>3. remembered' = listening
    BY <1>1, <1>2 DEF Inv, Books, Operation
  <1>4. DOMAIN activeChans' = listening /\ activeChans' \in [DOMAIN activeChans' -> {0, 1}]
    <2>1. CASE CommandWritten
      BY <1>1, <2>1 DEF CommandWritten
    <2>2. CASE CommandFails /\ call.op = "Subscribe"
      <3>1. ch \in listening /\ activeChans[ch] = 1
        BY <1>1, <2>2 DEF Inv, Books
      <3>2. activeChans' = with(ch, 0)
        BY <1>1, <2>2, <3>1 DEF CommandFails, countAfterFailure, count
      <3>3. QED
        BY <1>1, <3>1, <3>2, KeysChange
    <2>3. CASE CommandFails /\ call.op # "Subscribe"
      BY <1>1, <2>3 DEF CommandFails, countAfterFailure
    <2>4. QED
      BY <2>1, <2>2, <2>3
  <1>5. wire' \in Seq([op : Operation, channel : Channel]) /\ Len(wire') <= WireCap
    <2>1. CASE CommandWritten
      BY <1>1, <2>1, Bounds, Enqueue DEF CommandWritten, Inv, TypeOK
    <2>2. CASE CommandFails
      BY <2>2, Bounds, EmptyQueue DEF CommandFails
    <2>3. QED
      BY <2>1, <2>2
  <1>6. server' \subseteq Channel /\ connected' \in BOOLEAN /\ losses' \in 0..MaxLosses
    <2>1. CASE CommandWritten
      BY <2>1 DEF CommandWritten, Inv, TypeOK
    <2>2. CASE CommandFails
      <3>1. server' \in {{}, remembered \ {ch}} /\ connected' \in BOOLEAN
        BY <2>2 DEF CommandFails
      <3>5. server' \subseteq Channel
        BY <3>1 DEF Inv, TypeOK
      <3>2. losses \in 0..MaxLosses /\ (connected => losses < MaxLosses)
        BY <2>2 DEF CommandFails, Inv, TypeOK
      <3>3. losses' = IF connected THEN losses + 1 ELSE losses
        BY <2>2 DEF CommandFails
      <3>4. losses' \in 0..MaxLosses
        BY <3>2, <3>3, Bounds
      <3>6. QED
        BY <3>1, <3>4, <3>5
    <2>3. QED
      BY <2>1, <2>2
  <1>7. TypeOK'
    BY <1>2, <1>3, <1>4, <1>5, <1>6 DEF Inv, TypeOK, returns, loopVars
  <1>8. Mutex'
    BY <1>1, <1>2 DEF Inv, Mutex, returns, loopVars
  <1>9. Books'
    BY <1>2, <1>3, <1>4 DEF Books, returns
  <1>10. QED
    BY <1>7, <1>8, <1>9 DEF Inv

-----------------------------------------------------------------------------
(* The steps of readLoop, Close, go-redis and the server: none of them     *)
(* touches the books.                                                      *)

\* The books do not depend on what these steps change.
LEMMA BooksStay ==
    ASSUME Books, (closed' = closed) \/ closed',
           UNCHANGED <<activeChans, hub, call, listening, remembered>>
    PROVE  Books'
  BY DEF Books

LEMMA LoopKeeps ==
    ASSUME Inv, Loop \/ HubReceives
    PROVE  Inv'
  <1> USE DEF subscriberVars, hubVars, loopVars, redisVars
  <1>1. CASE LoopReceives
    <2>1. buffer \in Seq(1..MaxPublish) /\ buffer # <<>> /\ Len(buffer) <= BufferCap
      BY <1>1 DEF LoopReceives, Inv, TypeOK
    <2>2. /\ Head(buffer) \in 1..MaxPublish
          /\ Tail(buffer) \in Seq(1..MaxPublish)
          /\ Len(Tail(buffer)) <= BufferCap
      BY <2>1, Bounds, Dequeue
    <2>3. TypeOK' /\ Mutex'
      BY <1>1, <2>2, SubscriberAssumption DEF LoopReceives, Inv, TypeOK, Mutex, NoMessage
    <2>4. QED
      BY <1>1, <2>3, BooksStay DEF LoopReceives, Inv
  <1>2. CASE LoopLocks
    BY <1>2, BooksStay DEF LoopLocks, Inv, TypeOK, Mutex
  <1>3. CASE LoopUnlocks
    BY <1>3, BooksStay DEF LoopUnlocks, Inv, TypeOK, Mutex
  <1>4. CASE LoopDelivers
    <2>1. held \in 1..MaxPublish
      BY <1>4, SubscriberAssumption DEF LoopDelivers, Inv, TypeOK, Mutex, NoMessage
    <2>2. incoming' \in Seq(1..MaxPublish) /\ Len(incoming') <= IncomingCap
      BY <1>4, <2>1, Bounds, Enqueue DEF LoopDelivers, Inv, TypeOK
    <2>3. TypeOK' /\ Mutex'
      BY <1>4, <2>2, SubscriberAssumption DEF LoopDelivers, Inv, TypeOK, Mutex, NoMessage
    <2>4. QED
      BY <1>4, <2>3, BooksStay DEF LoopDelivers, Inv
  <1>5. CASE LoopExits
    BY <1>5, BooksStay DEF LoopExits, Inv, TypeOK, Mutex
  <1>6. CASE HubReceives
    <2>1. /\ incoming \in Seq(1..MaxPublish) /\ incoming # <<>>
          /\ Len(incoming) <= IncomingCap
      BY <1>6 DEF HubReceives, Inv, TypeOK
    <2>2. /\ Head(incoming) \in 1..MaxPublish
          /\ Tail(incoming) \in Seq(1..MaxPublish)
          /\ Len(Tail(incoming)) <= IncomingCap
      BY <2>1, Bounds, Dequeue
    <2>3. TypeOK' /\ Mutex'
      BY <1>6, <2>2, SubscriberAssumption DEF HubReceives, Inv, TypeOK, Mutex
    <2>4. QED
      BY <1>6, <2>3, BooksStay DEF HubReceives, Inv
  <1>7. QED
    BY <1>1, <1>2, <1>3, <1>4, <1>5, <1>6 DEF Loop

LEMMA OutsideKeeps ==
    ASSUME Inv,
           Close \/ ClosePubSub \/ ConnectionBreaks \/ Reconnects
             \/ ServerExecutes \/ Arrives
    PROVE  Inv'
  <1> USE DEF subscriberVars, hubVars, loopVars, redisVars
  <1>1. CASE Close
    BY <1>1, BooksStay DEF Close, Inv, TypeOK, Mutex
  <1>2. CASE ClosePubSub
    <2>1. TypeOK' /\ Mutex'
      BY <1>2, Bounds, EmptyQueue DEF ClosePubSub, Inv, TypeOK, Mutex
    <2>2. QED
      BY <1>2, <2>1, BooksStay DEF ClosePubSub, Inv
  <1>3. CASE ConnectionBreaks
    <2>1. losses' \in 0..MaxLosses
      BY <1>3, Bounds DEF ConnectionBreaks, Inv, TypeOK
    <2>2. TypeOK' /\ Mutex'
      BY <1>3, <2>1, Bounds, EmptyQueue DEF ConnectionBreaks, Inv, TypeOK, Mutex
    <2>3. QED
      BY <1>3, <2>2, BooksStay DEF ConnectionBreaks, Inv
  <1>4. CASE Reconnects
    BY <1>4, BooksStay DEF Reconnects, Inv, TypeOK, Mutex
  <1>5. CASE ServerExecutes
    <2>1. /\ wire \in Seq([op : Operation, channel : Channel]) /\ wire # <<>>
          /\ Len(wire) <= WireCap
      BY <1>5 DEF ServerExecutes, Inv, TypeOK
    <2>2. /\ Head(wire) \in [op : Operation, channel : Channel]
          /\ Tail(wire) \in Seq([op : Operation, channel : Channel])
          /\ Len(Tail(wire)) <= WireCap
      BY <2>1, Bounds, Dequeue
    <2>3. TypeOK' /\ Mutex'
      BY <1>5, <2>2, SubscriberAssumption DEF ServerExecutes, Inv, TypeOK, Mutex
    <2>4. QED
      BY <1>5, <2>3, BooksStay DEF ServerExecutes, Inv
  <1>6. CASE Arrives
    <2>1. published' \in 1..MaxPublish
      BY <1>6, Bounds DEF Arrives, Inv, TypeOK
    <2>2. buffer' \in Seq(1..MaxPublish) /\ Len(buffer') <= BufferCap
      <3>1. buffer \in Seq(1..MaxPublish) /\ Len(buffer) <= BufferCap
        BY DEF Inv, TypeOK
      <3>2. CASE Len(buffer) < BufferCap /\ buffer' = Append(buffer, published')
        BY <2>1, <3>1, <3>2, Bounds, Enqueue
      <3>3. CASE UNCHANGED buffer
        BY <3>1, <3>3
      <3>4. QED
        BY <1>6, <3>2, <3>3 DEF Arrives
    <2>3. TypeOK' /\ Mutex'
      BY <1>6, <2>1, <2>2 DEF Arrives, Inv, TypeOK, Mutex
    <2>4. QED
      BY <1>6, <2>3, BooksStay DEF Arrives, Inv
  <1>7. QED
    BY <1>1, <1>2, <1>3, <1>4, <1>5, <1>6

-----------------------------------------------------------------------------
\* Inv is an inductive invariant.
LEMMA Inductive == Spec => []Inv
  <1>1. Init => Inv
    <2> SUFFICES ASSUME Init
                 PROVE  Inv
      OBVIOUS
    <2>1. DOMAIN activeChans = {} /\ activeChans \in [DOMAIN activeChans -> {0, 1}]
      BY DEF Init
    <2>2. /\ incoming \in Seq(1..MaxPublish) /\ Len(incoming) <= IncomingCap
          /\ buffer \in Seq(1..MaxPublish) /\ Len(buffer) <= BufferCap
          /\ wire \in Seq([op : Operation, channel : Channel]) /\ Len(wire) <= WireCap
      BY Bounds, EmptyQueue DEF Init
    <2>3. {held, last, published} \subseteq 0..MaxPublish /\ losses \in 0..MaxLosses
      BY Bounds DEF Init, NoMessage
    <2>4. closed \in BOOLEAN /\ connected \in BOOLEAN
      BY DEF Init
    <2>5. TypeOK
      BY <2>1, <2>2, <2>3, <2>4 DEF Init, TypeOK
    <2>6. Mutex /\ Books
      BY <2>1 DEF Init, Mutex, Books, Idle
    <2>7. QED
      BY <2>5, <2>6 DEF Inv
  <1>2. Inv /\ [Next]_vars => Inv'
    <2> SUFFICES ASSUME Inv, [Next]_vars
                 PROVE  Inv'
      OBVIOUS
    <2>1. CASE Next
      BY <2>1, CallsKeep, SubscribeLocksKeeps, UnsubscribeLocksKeeps, CommandKeeps,
         LoopKeeps, OutsideKeeps DEF Next
    <2>2. CASE UNCHANGED vars
      BY <2>2 DEF vars, subscriberVars, hubVars, loopVars, redisVars, Inv, TypeOK,
                  Mutex, Books
    <2>3. QED
      BY <2>1, <2>2
  <1>3. QED
    BY <1>1, <1>2, PTL DEF Spec

\* Every variable of the subscriber has its type: no count is ever negative
\* or above one, since the hub is its only caller (redis.go:96-136).
THEOREM SubscriberTypeCorrect == Spec => []TypeOK
  BY Inductive, PTL DEF Inv

\* Whatever fails, and whenever the connection breaks, go-redis would restore
\* exactly what the hub listens to (redis.go:96-136, hub.go:241-268).
THEOREM AlwaysRestores == Spec => []RestoresWhatIsListened
  <1>1. Inv => RestoresWhatIsListened
    BY DEF Inv, Books, RestoresWhatIsListened
  <1>2. QED
    BY <1>1, Inductive, PTL

-----------------------------------------------------------------------------
(* Redis ends up with what go-redis remembers.                             *)

\* Once the server has executed q, it has channel ch subscribed if and only
\* if r: the last command about ch decides, or s when there is none.
Settles(q, ch, s, r) ==
    /\ (\A i \in 1..Len(q) : q[i].channel # ch) => (s <=> r)
    /\ \A i \in 1..Len(q) :
          (q[i].channel = ch /\ \A j \in (i + 1)..Len(q) : q[j].channel # ch)
             => (q[i].op = "Subscribe" <=> r)

\* The SUBSCRIBE of ch failed, and go-redis remembers it only for the next
\* connection.
Missing(ch) ==
    /\ ch \in remembered \ server
    /\ \A i \in 1..Len(wire) : wire[i].channel # ch
    /\ count(ch) = 0

Wired ==
    /\ connected => \A ch \in Channel :
          Settles(wire, ch, ch \in server, ch \in remembered) \/ Missing(ch)
    /\ ~connected => wire = <<>>

Command == [op : Operation, channel : Channel]

LEMMA SettlesAppend ==
    ASSUME NEW q \in Seq(Command), NEW e \in Command, NEW ch, NEW s, NEW r, NEW r2,
           Settles(q, ch, s, r),
           IF e.channel = ch THEN r2 <=> e.op = "Subscribe" ELSE r2 <=> r
    PROVE  Settles(Append(q, e), ch, s, r2)
  <1> DEFINE a == Append(q, e)
  <1>1. Len(a) = Len(q) + 1 /\ Len(q) \in Nat /\ a[Len(q) + 1] = e
        /\ \A i \in 1..Len(q) : a[i] = q[i]
    BY AppendProperties
  <1>2. CASE e.channel = ch
    BY <1>1, <1>2 DEF Settles
  <1>3. CASE e.channel # ch
    BY <1>1, <1>3 DEF Settles
  <1>4. QED
    BY <1>2, <1>3

LEMMA SettlesTail ==
    ASSUME NEW q \in Seq(Command), q # <<>>, NEW ch, NEW s, NEW s2, NEW r,
           Settles(q, ch, s, r),
           IF Head(q).channel = ch THEN s2 <=> Head(q).op = "Subscribe" ELSE s2 <=> s
    PROVE  Settles(Tail(q), ch, s2, r)
  <1> DEFINE t == Tail(q)
  <1>1. /\ Len(q) \in Nat \ {0} /\ Len(t) = Len(q) - 1 /\ Head(q) = q[1]
        /\ \A i \in 1..Len(t) : t[i] = q[i + 1]
    BY HeadTailProperties
  <1>2. \A i \in 2..Len(q) : q[i] = t[i - 1]
    BY <1>1
  <1>3. ASSUME \A i \in 1..Len(t) : t[i].channel # ch
        PROVE  s2 <=> r
    <2>1. \A i \in 2..Len(q) : q[i].channel # ch
      BY <1>1, <1>2, <1>3
    <2>2. CASE q[1].channel = ch
      BY <1>1, <2>1, <2>2 DEF Settles
    <2>3. CASE q[1].channel # ch
      BY <1>1, <2>1, <2>3 DEF Settles
    <2>4. QED
      BY <2>2, <2>3
  <1>4. ASSUME NEW i \in 1..Len(t), t[i].channel = ch,
               \A j \in (i + 1)..Len(t) : t[j].channel # ch
        PROVE  t[i].op = "Subscribe" <=> r
    <2>1. i + 1 \in 1..Len(q) /\ q[i + 1] = t[i]
      BY <1>1
    <2>2. \A j \in (i + 2)..Len(q) : q[j].channel # ch
      <3>1. TAKE j \in (i + 2)..Len(q)
      <3>2. j - 1 \in (i + 1)..Len(t) /\ q[j] = t[j - 1]
        BY <1>1, <1>2
      <3>3. QED
        BY <1>4, <3>2
    <2>3. QED
      BY <1>4, <2>1, <2>2 DEF Settles
  <1>5. QED
    BY <1>3, <1>4 DEF Settles

\* A step that leaves the connection alone.
LEMMA WiredStays ==
    ASSUME Wired, UNCHANGED <<connected, wire, server, remembered>>,
           \A ch \in remembered : count(ch) = 0 => count(ch)' = 0
    PROVE  Wired'
  BY DEF Wired, Settles, Missing

\* What Subscribe and Unsubscribe do to their key is seen when they return.
LEMMA KeysElsewhere ==
    ASSUME NEW ch, NEW n,
           activeChans' \in {activeChans, with(ch, n), without(ch)}
    PROVE  \A other : other # ch => count(other)' = count(other)
  BY DEF with, without, count

LEMMA WrittenKeepsWired ==
    ASSUME Inv, Wired, CommandWritten
    PROVE  Wired'
  <1>1. /\ connected /\ connected' /\ wire' = Append(wire, call) /\ server' = server
        /\ wire \in Seq(Command) /\ call \in Command /\ activeChans' = activeChans
        /\ remembered' = IF call.op = "Subscribe" THEN remembered \cup {call.channel}
                                                  ELSE remembered \ {call.channel}
    BY DEF CommandWritten, Inv, TypeOK, Mutex, Command
  <1>2. call.op = "Subscribe" => call.channel \notin remembered
    BY DEF CommandWritten, Inv, Books
  <1>3. ASSUME NEW ch \in Channel
        PROVE  Settles(wire', ch, ch \in server', ch \in remembered') \/ Missing(ch)'
    <2>1. IF call.channel = ch THEN ch \in remembered' <=> call.op = "Subscribe"
                               ELSE ch \in remembered' <=> ch \in remembered
      BY <1>1
    <2>2. CASE Settles(wire, ch, ch \in server, ch \in remembered)
      <3>1. Settles(Append(wire, call), ch, ch \in server, ch \in remembered')
        BY <1>1, <2>1, <2>2, SettlesAppend
      <3>2. QED
        BY <1>1, <3>1
    <2>3. CASE Missing(ch) /\ call.channel = ch
      <3>1. ch \notin remembered' /\ ch \notin server' /\ call.op # "Subscribe"
        BY <1>1, <1>2, <2>3 DEF Missing
      <3>2. Settles(wire, ch, FALSE, FALSE)
        BY <2>3 DEF Missing, Settles
      <3>3. Settles(Append(wire, call), ch, FALSE, FALSE)
        BY <1>1, <2>3, <3>1, <3>2, SettlesAppend
      <3>4. QED
        BY <1>1, <3>1, <3>3 DEF Settles
    <2>4. CASE Missing(ch) /\ call.channel # ch
      <3>1. /\ Len(wire') = Len(wire) + 1 /\ Len(wire) \in Nat
            /\ wire'[Len(wire) + 1] = call
            /\ \A i \in 1..Len(wire) : wire'[i] = wire[i]
        BY <1>1, AppendProperties
      <3>2. \A i \in 1..Len(wire') : wire'[i].channel # ch
        BY <2>4, <3>1 DEF Missing
      <3>3. ch \in remembered' \ server' /\ count(ch)' = 0
        BY <1>1, <2>1, <2>4 DEF Missing, count
      <3>4. QED
        BY <3>2, <3>3 DEF Missing
    <2>5. QED
      BY <1>1, <2>2, <2>3, <2>4 DEF Wired
  <1>4. QED
    BY <1>1, <1>3 DEF Wired

\* The replaced connection lacks just the channel of a failed Subscribe.
LEMMA FailureKeepsWired ==
    ASSUME Inv, CommandFails
    PROVE  Wired'
  <1>1. /\ wire' = <<>> /\ Len(wire') = 0 /\ activeChans' = countAfterFailure
        /\ call \in Command /\ activeChans \in [DOMAIN activeChans -> {0, 1}]
        /\ connected' => server' = remembered \ {call.channel}
        /\ remembered' = IF call.op = "Subscribe" THEN remembered \cup {call.channel}
                                                  ELSE remembered \ {call.channel}
    BY DEF CommandFails, Inv, TypeOK, Mutex, Command
  <1>2. CASE connected' /\ call.op = "Subscribe"
    <2>1. /\ call.channel \in DOMAIN activeChans
          /\ activeChans[call.channel] = 1
      BY <1>2 DEF CommandFails, Inv, Books
    <2>2. activeChans' = with(call.channel, 0)
      BY <1>1, <1>2, <2>1 DEF countAfterFailure, count
    <2>3. call.channel \in DOMAIN activeChans' /\ activeChans'[call.channel] = 0
      BY <2>2 DEF with
    <2>4. ASSUME NEW ch \in Channel
          PROVE  Settles(wire', ch, ch \in server', ch \in remembered') \/ Missing(ch)'
      <3>1. CASE ch = call.channel
        BY <1>1, <1>2, <2>3, <3>1 DEF Missing, count
      <3>2. CASE ch # call.channel
        BY <1>1, <1>2, <3>2 DEF Settles
      <3>3. QED
        BY <3>1, <3>2
    <2>5. QED
      BY <1>1, <1>2, <2>4 DEF Wired
  <1>3. CASE connected' /\ call.op # "Subscribe"
    BY <1>1, <1>3 DEF Wired, Settles
  <1>4. CASE ~connected'
    BY <1>1, <1>4 DEF Wired
  <1>5. QED
    BY <1>2, <1>3, <1>4

LEMMA ExecutionKeepsWired ==
    ASSUME Inv, Wired, ServerExecutes
    PROVE  Wired'
  <1>1. /\ wire # <<>> /\ wire' = Tail(wire) /\ wire \in Seq(Command)
        /\ remembered' = remembered /\ connected' = connected /\ activeChans' = activeChans
        /\ server' = IF Head(wire).op = "Subscribe" THEN server \cup {Head(wire).channel}
                                                    ELSE server \ {Head(wire).channel}
    BY DEF ServerExecutes, Inv, TypeOK, Command, subscriberVars
  <1>2. connected
    BY <1>1 DEF Wired
  <1>3. ASSUME NEW ch \in Channel
        PROVE  Settles(wire', ch, ch \in server', ch \in remembered') \/ Missing(ch)'
    <2>1. IF Head(wire).channel = ch THEN ch \in server' <=> Head(wire).op = "Subscribe"
                                     ELSE ch \in server' <=> ch \in server
      BY <1>1
    <2>2. CASE Settles(wire, ch, ch \in server, ch \in remembered)
      <3>1. Settles(Tail(wire), ch, ch \in server', ch \in remembered)
        BY <1>1, <2>1, <2>2, SettlesTail
      <3>2. QED
        BY <1>1, <3>1
    <2>3. CASE Missing(ch)
      <3>1. /\ Len(wire) \in Nat \ {0} /\ Len(wire') = Len(wire) - 1 /\ Head(wire) = wire[1]
            /\ \A i \in 1..Len(wire') : wire'[i] = wire[i + 1]
        BY <1>1, HeadTailProperties
      <3>2. Head(wire).channel # ch /\ \A i \in 1..Len(wire') : wire'[i].channel # ch
        BY <2>3, <3>1 DEF Missing
      <3>3. ch \in remembered' \ server' /\ count(ch)' = 0
        BY <1>1, <2>1, <2>3, <3>2 DEF Missing, count
      <3>4. QED
        BY <3>2, <3>3 DEF Missing
    <2>4. QED
      BY <1>2, <2>2, <2>3 DEF Wired
  <1>4. QED
    BY <1>1, <1>2, <1>3 DEF Wired

\* A channel on its way into a Subscribe is not remembered yet.
LEMMA LocksKeepWired ==
    ASSUME Inv, Wired, SubscribeLocks \/ UnsubscribeLocks
    PROVE  Wired'
  <1>1. UNCHANGED <<connected, wire, server, remembered>>
    BY DEF SubscribeLocks, UnsubscribeLocks, redisVars
  <1>2. CASE activeChans' = activeChans
    BY <1>1, <1>2, WiredStays DEF count
  <1>3. CASE SubscribeLocks /\ activeChans' # activeChans
    <2>1. /\ hub = "lock" /\ call.op = "Subscribe" /\ ~closed
          /\ activeChans' = with(call.channel, count(call.channel) + 1)
      BY <1>3 DEF SubscribeLocks
    <2>2. call.channel \notin remembered
      BY <2>1 DEF Inv, Books
    <2>3. \A ch \in remembered : count(ch)' = count(ch)
      BY <2>1, <2>2, KeysElsewhere
    <2>4. QED
      BY <1>1, <2>3, WiredStays
  <1>4. CASE UnsubscribeLocks /\ activeChans' # activeChans
    <2>1. /\ call.channel \in DOMAIN activeChans
          /\ activeChans[call.channel] \in {0, 1}
      BY <1>4 DEF UnsubscribeLocks, Inv, TypeOK
    <2>2. activeChans' = without(call.channel)
      BY <1>4, <2>1 DEF UnsubscribeLocks
    <2>3. \A ch : ch # call.channel => count(ch)' = count(ch)
      BY <2>2, KeysElsewhere
    <2>4. call.channel \notin DOMAIN activeChans'
      BY <2>2 DEF without
    <2>5. \A ch \in remembered : count(ch) = 0 => count(ch)' = 0
      <3>1. TAKE ch \in remembered
      <3>2. CASE ch = call.channel
        BY <2>4, <3>2 DEF count
      <3>3. CASE ch # call.channel
        BY <2>3, <3>3
      <3>4. QED
        BY <3>2, <3>3
    <2>6. QED
      BY <1>1, <2>5, WiredStays
  <1>5. QED
    BY <1>2, <1>3, <1>4

LEMMA WiredKept ==
    ASSUME Inv, Wired, [Next]_vars
    PROVE  Wired'
  <1>1. CASE Reconnects
    <2>1. /\ connected' /\ wire' = <<>> /\ server' = remembered /\ remembered' = remembered
      BY <1>1 DEF Reconnects, Wired
    <2>2. Len(wire') = 0
      BY <2>1
    <2>3. QED
      BY <2>1, <2>2 DEF Wired, Settles
  <1>2. CASE ClosePubSub \/ ConnectionBreaks
    BY <1>2 DEF ClosePubSub, ConnectionBreaks, Wired
  <1>3. CASE \/ \E op \in Operation, ch \in Channel : HubCalls(op, ch)
             \/ HubReceives \/ Loop \/ Close \/ Arrives \/ UNCHANGED vars
    <2>1. UNCHANGED <<connected, wire, server, remembered, activeChans>>
      BY <1>3 DEF HubCalls, HubReceives, Loop, LoopReceives, LoopLocks, LoopUnlocks,
                  LoopDelivers, LoopExits, Close, Arrives, subscriberVars, redisVars, vars
    <2>2. QED
      BY <2>1, WiredStays DEF count
  <1>4. QED
    BY <1>1, <1>2, <1>3, WrittenKeepsWired, FailureKeepsWired, ExecutionKeepsWired,
       LocksKeepWired DEF Next

\* With no command under way Redis is subscribed to nothing the hub has no
\* client for, and lacks of the rest only channels whose SUBSCRIBE failed:
\* they count zero (redis.go:96-136).
THEOREM ServerAlwaysFollows == Spec => []ServerFollows
  <1>1. Init => Wired
    BY DEF Init, Wired
  <1>2. Inv /\ Wired /\ [Next]_vars => Wired'
    BY WiredKept
  <1>3. Inv /\ Wired => ServerFollows
    <2> SUFFICES ASSUME Inv, Wired, hub = "select", ~closed, connected, wire = <<>>
                 PROVE  /\ server \subseteq listening
                        /\ \A ch \in listening \ server : count(ch) = 0
      BY DEF ServerFollows
    <2>1. remembered = listening /\ server \subseteq Channel /\ remembered \subseteq Channel
      BY DEF Inv, Books, TypeOK
    <2>2. \A ch \in Channel : (ch \in server <=> ch \in remembered) \/ Missing(ch)
      <3>1. Len(wire) = 0
        OBVIOUS
      <3>2. QED
        BY <3>1 DEF Wired, Settles
    <2>3. QED
      BY <2>1, <2>2 DEF Missing
  <1>4. QED
    BY <1>1, <1>2, <1>3, Inductive, PTL DEF Spec

-----------------------------------------------------------------------------
(* Messages keep the order Redis sent them in.                             *)

\* The numbers in q rise and lie strictly between lo and hi.
Rising(q, lo, hi) ==
    /\ \A i \in 1..Len(q) : lo < q[i] /\ q[i] < hi
    /\ \A i, j \in 1..Len(q) : i < j => q[i] < q[j]

\* The messages under way, from the hub back to the server: what the hub has
\* had, hub.incoming, the one readLoop holds, the buffer of go-redis.
Order ==
    /\ last <= published
    /\ Rising(incoming, last, published + 1)
    /\ Rising(buffer, last, published + 1)
    /\ \A i \in 1..Len(incoming), j \in 1..Len(buffer) : incoming[i] < buffer[j]
    /\ held # NoMessage =>
          /\ last < held /\ held <= published
          /\ \A i \in 1..Len(incoming) : incoming[i] < held
          /\ \A j \in 1..Len(buffer) : held < buffer[j]

Numbers == Seq(1..MaxPublish)

LEMMA NumberAppended ==
    ASSUME NEW q \in Numbers, NEW e \in 1..MaxPublish
    PROVE  /\ Len(Append(q, e)) = Len(q) + 1 /\ Len(q) \in Nat
           /\ Append(q, e)[Len(q) + 1] = e
           /\ \A i \in 1..Len(q) : Append(q, e)[i] = q[i]
  BY AppendProperties DEF Numbers

LEMMA NumberTaken ==
    ASSUME NEW q \in Numbers, q # <<>>
    PROVE  /\ Len(q) \in Nat \ {0} /\ Len(Tail(q)) = Len(q) - 1 /\ Head(q) = q[1]
           /\ \A i \in 1..Len(Tail(q)) : Tail(q)[i] = q[i + 1]
  BY HeadTailProperties DEF Numbers

\* Every element of a queue of numbers is one.
LEMMA NumbersIn ==
    ASSUME NEW q \in Numbers
    PROVE  \A i \in 1..Len(q) : q[i] \in Int
  BY ElementOfSeq, Bounds DEF Numbers

LEMMA OrderStays ==
    ASSUME Order, UNCHANGED <<last, incoming, held, buffer, published>>
    PROVE  Order'
  BY DEF Order, Rising

LEMMA OrderKept ==
    ASSUME Inv, Order, [Next]_vars
    PROVE  Order'
  <1>1. /\ incoming \in Numbers /\ buffer \in Numbers
        /\ {held, last, published} \subseteq 0..MaxPublish /\ MaxPublish \in Nat
        /\ loop = "deliver" => held # NoMessage
    BY Bounds DEF Inv, TypeOK, Mutex, Numbers
  <1>2. /\ \A i \in 1..Len(incoming) : incoming[i] \in Int
        /\ \A j \in 1..Len(buffer) : buffer[j] \in Int
    BY <1>1, NumbersIn
  <1>3. CASE HubReceives
    <2>1. /\ incoming # <<>> /\ incoming' = Tail(incoming) /\ last' = Head(incoming)
          /\ UNCHANGED <<held, buffer, published>>
      BY <1>3 DEF HubReceives, loopVars
    <2>2. /\ Len(incoming) \in Nat \ {0} /\ Len(incoming') = Len(incoming) - 1
          /\ last' = incoming[1]
          /\ \A i \in 1..Len(incoming') : incoming'[i] = incoming[i + 1]
      BY <1>1, <2>1, NumberTaken
    <2>3. /\ 1 \in 1..Len(incoming)
          /\ \A i \in 1..Len(incoming') : i + 1 \in 1..Len(incoming) /\ 1 < i + 1
      BY <2>2
    <2>4. last' \in Int /\ last' <= published
      BY <1>1, <1>2, <2>2, <2>3 DEF Order, Rising
    <2>5. ASSUME NEW i \in 1..Len(incoming')
          PROVE  last' < incoming'[i] /\ incoming'[i] < published + 1
      BY <2>2, <2>3 DEF Order, Rising
    <2>6. ASSUME NEW i \in 1..Len(incoming'), NEW j \in 1..Len(incoming'), i < j
          PROVE  incoming'[i] < incoming'[j]
      BY <2>2, <2>3, <2>6 DEF Order, Rising
    <2>7. Rising(incoming', last', published + 1)
      BY <2>5, <2>6 DEF Rising
    <2>8. Rising(buffer, last', published + 1)
      BY <2>2, <2>3 DEF Order, Rising
    <2>9. QED
      BY <2>1, <2>2, <2>3, <2>4, <2>7, <2>8 DEF Order
  <1>4. CASE LoopReceives
    <2>1. /\ buffer # <<>> /\ buffer' = Tail(buffer) /\ held' = Head(buffer)
          /\ UNCHANGED <<last, incoming, published>>
      BY <1>4 DEF LoopReceives, hubVars
    <2>2. /\ Len(buffer) \in Nat \ {0} /\ Len(buffer') = Len(buffer) - 1
          /\ held' = buffer[1]
          /\ \A i \in 1..Len(buffer') : buffer'[i] = buffer[i + 1]
      BY <1>1, <2>1, NumberTaken
    <2>3. QED
      BY <1>1, <1>2, <2>1, <2>2 DEF Order, Rising
  <1>5. CASE LoopDelivers
    <2>1. /\ held # NoMessage /\ incoming' = Append(incoming, held) /\ held' = NoMessage
          /\ UNCHANGED <<last, buffer, published>>
      BY <1>1, <1>5 DEF LoopDelivers, hubVars
    <2>2. held \in 1..MaxPublish
      BY <1>1, <2>1 DEF NoMessage
    <2>3. /\ Len(incoming') = Len(incoming) + 1 /\ Len(incoming) \in Nat
          /\ incoming'[Len(incoming) + 1] = held
          /\ \A i \in 1..Len(incoming) : incoming'[i] = incoming[i]
      BY <1>1, <2>1, <2>2, NumberAppended
    <2>4. QED
      BY <1>1, <1>2, <2>1, <2>2, <2>3 DEF Order, Rising
  <1>6. CASE Arrives
    <2>1. /\ published' = published + 1 /\ published' \in 1..MaxPublish
          /\ UNCHANGED <<last, incoming, held>>
      BY <1>1, <1>6 DEF Arrives, hubVars, loopVars
    <2>2. CASE UNCHANGED buffer
      BY <1>1, <1>2, <2>1, <2>2 DEF Order, Rising
    <2>3. CASE buffer' = Append(buffer, published')
      <3>1. /\ Len(buffer') = Len(buffer) + 1 /\ Len(buffer) \in Nat
            /\ buffer'[Len(buffer) + 1] = published'
            /\ \A i \in 1..Len(buffer) : buffer'[i] = buffer[i]
        BY <1>1, <2>1, <2>3, NumberAppended
      <3>2. \A i \in 1..Len(incoming) : last < incoming[i] /\ incoming[i] < published'
        BY <1>1, <2>1 DEF Order, Rising
      <3>3. \A j \in 1..Len(buffer) : buffer[j] < published'
        BY <1>1, <2>1 DEF Order, Rising
      <3>4. last' < published' /\ (held # NoMessage => held < published')
        BY <1>1, <2>1 DEF Order
      <3>5. ASSUME NEW j \in 1..Len(buffer')
            PROVE  j \in 1..Len(buffer) \/ (j = Len(buffer) + 1 /\ buffer'[j] = published')
        BY <3>1
      <3>6. ASSUME NEW j \in 1..Len(buffer')
            PROVE  /\ last' < buffer'[j] /\ buffer'[j] < published' + 1
                   /\ \A i \in 1..Len(incoming) : incoming[i] < buffer'[j]
                   /\ held # NoMessage => held < buffer'[j]
        <4>1. CASE j \in 1..Len(buffer)
          BY <1>1, <1>2, <2>1, <3>1, <3>3, <4>1 DEF Order, Rising
        <4>2. CASE j = Len(buffer) + 1 /\ buffer'[j] = published'
          BY <1>1, <2>1, <3>2, <3>4, <4>2
        <4>3. QED
          BY <3>5, <4>1, <4>2
      <3>7. ASSUME NEW i \in 1..Len(buffer'), NEW j \in 1..Len(buffer'), i < j
            PROVE  buffer'[i] < buffer'[j]
        <4>1. i \in 1..Len(buffer)
          BY <3>1, <3>7
        <4>2. QED
          BY <3>1, <3>3, <3>5, <3>7, <4>1 DEF Order, Rising
      <3>8. Rising(buffer', last', published' + 1)
        BY <3>6, <3>7 DEF Rising
      <3>9. Rising(incoming', last', published' + 1)
        BY <1>1, <1>2, <2>1, <3>2 DEF Order, Rising
      <3>10. last' <= published' /\ (held' # NoMessage => last' < held' /\ held' <= published')
        BY <1>1, <2>1 DEF Order
      <3>11. QED
        BY <2>1, <3>6, <3>8, <3>9, <3>10 DEF Order
    <2>4. QED
      BY <1>6, <2>2, <2>3 DEF Arrives
  <1>7. CASE \/ \E op \in Operation, ch \in Channel : HubCalls(op, ch)
             \/ SubscribeLocks \/ UnsubscribeLocks \/ CommandWritten \/ CommandFails
             \/ LoopLocks \/ LoopUnlocks \/ LoopExits
             \/ Close \/ ClosePubSub \/ ConnectionBreaks \/ Reconnects \/ ServerExecutes
             \/ UNCHANGED vars
    <2>1. UNCHANGED <<last, incoming, held, buffer, published>>
      BY <1>7 DEF HubCalls, SubscribeLocks, UnsubscribeLocks, CommandWritten, CommandFails,
                  LoopLocks, LoopUnlocks, LoopExits, Close, ClosePubSub, ConnectionBreaks,
                  Reconnects, ServerExecutes, hubVars, loopVars, vars
    <2>2. QED
      BY <2>1, OrderStays
  <1>8. QED
    BY <1>3, <1>4, <1>5, <1>6, <1>7 DEF Next, Loop

\* What the hub takes up next was sent later than all it has had, however the
\* three goroutines and the drops of go-redis interleave (redis.go:162-173).
THEOREM AlwaysInOrder == Spec => InOrder
  <1>1. Init => Order
    BY Bounds DEF Init, Order, Rising, NoMessage
  <1>2. Inv /\ Order /\ [Next]_vars => Order'
    BY OrderKept
  <1>3. Inv /\ Order /\ [Next]_vars => [last' # last => last' > last]_vars
    <2> SUFFICES ASSUME Inv, Order, [Next]_vars, last' # last
                 PROVE  last' > last
      OBVIOUS
    <2>1. HubReceives
      BY DEF Next, HubCalls, SubscribeLocks, UnsubscribeLocks, CommandWritten, CommandFails,
             Loop, LoopReceives, LoopLocks, LoopUnlocks, LoopDelivers, LoopExits, Close,
             ClosePubSub, ConnectionBreaks, Reconnects, ServerExecutes, Arrives, hubVars, vars
    <2>2. incoming \in Numbers /\ incoming # <<>> /\ last' = Head(incoming)
      BY <2>1 DEF HubReceives, Inv, TypeOK, Numbers
    <2>3. 1 \in 1..Len(incoming) /\ last' = incoming[1]
      BY <2>2, NumberTaken
    <2>4. last \in Int /\ last' \in Int /\ last < last'
      BY <2>2, <2>3, NumbersIn, Bounds DEF Inv, TypeOK, Order, Rising
    <2>5. QED
      BY <2>4
  <1>4. QED
    BY <1>1, <1>2, <1>3, Inductive, PTL DEF Spec, InOrder

-----------------------------------------------------------------------------
(* The subscriber's side of its agreement with the hub.                    *)

\* What the hub listens to, a channel whose Subscribe has not returned apart.
Answered == listening \ (IF call.op = "Subscribe" THEN {call.channel} ELSE {})

\* Of these, the ones with a positive count: all of them, but for those whose
\* SUBSCRIBE failed.  After Close, when Unsubscribe leaves the counts alone,
\* the others mean nothing.
Counted == {ch \in Answered : count(ch) = 1}

Serves == INSTANCE Subscriptions WITH listening <- Answered, manager <- Counted

SubscriberKeepsAgreement == Serves!Spec

\* A step of nobody who touches the books.
LEMMA AgreementStays ==
    ASSUME UNCHANGED <<activeChans, listening, call>>
    PROVE  UNCHANGED <<Answered, Counted>>
  BY DEF Answered, Counted, count

LEMMA CallAgrees ==
    ASSUME Inv, NEW op \in Operation, NEW ch \in Channel, HubCalls(op, ch)
    PROVE  [Serves!Next]_<<Answered, Counted>>
  <1>1. /\ call.op # "Subscribe" /\ activeChans' = activeChans
        /\ call' = [op |-> op, channel |-> ch]
    BY DEF HubCalls, Inv, Mutex, Idle, subscriberVars
  <1>2. Answered = listening /\ \A k : count(k)' = count(k)
    BY <1>1 DEF Answered, count
  <1>3. CASE op = "Subscribe"
    <2>1. Answered' = Answered
      BY <1>1, <1>2, <1>3 DEF HubCalls, Answered
    <2>2. QED
      BY <1>2, <2>1 DEF Counted
  <1>4. CASE op # "Subscribe"
    <2>1. ch \in Answered /\ Answered' = Answered \ {ch}
      BY <1>1, <1>2, <1>4 DEF HubCalls, Answered, Operation
    <2>2. Counted' = Counted \ {ch}
      BY <1>2, <2>1 DEF Counted
    <2>3. Serves!Lose({ch})
      BY <2>1, <2>2 DEF Serves!Lose
    <2>4. QED
      BY <2>3 DEF Serves!Next
  <1>5. QED
    BY <1>3, <1>4

\* A Subscribe that returns gains its channel, counted or failed; the return
\* of an Unsubscribe is not seen.
LEMMA ReturnAgrees ==
    ASSUME Inv, call \in [op : Operation, channel : Channel], call' = Idle,
           UNCHANGED listening,
           \A k : k # call.channel => count(k)' = count(k),
           call.op = "Subscribe" => call.channel \in listening,
           call.op # "Subscribe" => call.channel \notin listening
    PROVE  [Serves!Next]_<<Answered, Counted>>
  <1> DEFINE ch == call.channel
  <1>1. Answered' = listening /\ ch \in Channel
    BY DEF Answered, Idle
  <1>2. CASE call.op = "Subscribe"
    <2>1. Answered = listening \ {ch} /\ Answered' = Answered \cup {ch} /\ ch \notin Answered
      BY <1>1, <1>2 DEF Answered
    <2>2. Counted' = Counted \cup {ch} \/ Counted' = Counted
      BY <2>1 DEF Counted
    <2>3. \E failed \in SUBSET {ch} : Counted' = Counted \cup ({ch} \ failed)
      <3>1. CASE Counted' = Counted \cup {ch}
        <4>1. {} \in SUBSET {ch} /\ Counted' = Counted \cup ({ch} \ {})
          BY <3>1
        <4>2. QED
          BY <4>1
      <3>2. CASE Counted' = Counted
        <4>1. {ch} \in SUBSET {ch} /\ Counted' = Counted \cup ({ch} \ {ch})
          BY <3>2
        <4>2. QED
          BY <4>1
      <3>3. QED
        BY <2>2, <3>1, <3>2
    <2>4. Serves!Gain({ch})
      BY <2>1, <2>3 DEF Serves!Gain
    <2>5. QED
      BY <1>1, <2>4 DEF Serves!Next
  <1>3. CASE call.op # "Subscribe"
    <2>1. Answered = listening /\ Answered' = Answered /\ ch \notin Answered
      BY <1>1, <1>3 DEF Answered
    <2>2. Counted' = Counted
      BY <2>1 DEF Counted
    <2>3. QED
      BY <2>1, <2>2
  <1>4. QED
    BY <1>2, <1>3

\* The call goes on with its command.
LEMMA CommandAgrees ==
    ASSUME Inv, call \in [op : Operation, channel : Channel],
           UNCHANGED <<call, listening>>,
           \A k : k # call.channel => count(k)' = count(k),
           call.op # "Subscribe" => call.channel \notin listening
    PROVE  UNCHANGED <<Answered, Counted>>
  <1>1. Answered' = Answered /\ call.channel \notin Answered
    BY DEF Answered
  <1>2. QED
    BY <1>1 DEF Counted

LEMMA NextAgrees ==
    ASSUME Inv, [Next]_vars
    PROVE  [Serves!Next]_<<Answered, Counted>>
  <1>1. CASE \E op \in Operation, ch \in Channel : HubCalls(op, ch)
    BY <1>1, CallAgrees
  <1>2. CASE SubscribeLocks \/ UnsubscribeLocks \/ CommandWritten \/ CommandFails
    <2>1. /\ call \in [op : Operation, channel : Channel] /\ listening' = listening
          /\ hub \in {"lock", "command"}
      BY <1>2 DEF Inv, TypeOK, Mutex, SubscribeLocks, UnsubscribeLocks, CommandWritten,
                  CommandFails
    <2>2. /\ call.op = "Subscribe" => call.channel \in listening
          /\ call.op # "Subscribe" => call.channel \notin listening
      BY <2>1 DEF Inv, Books, Operation
    <2>3. \A k : k # call.channel => count(k)' = count(k)
      <3>1. CASE SubscribeLocks
        BY <3>1, KeysElsewhere DEF SubscribeLocks
      <3>2. CASE UnsubscribeLocks
        BY <3>2, KeysElsewhere DEF UnsubscribeLocks
      <3>3. CASE CommandWritten
        BY <3>3 DEF CommandWritten, count
      <3>4. CASE CommandFails
        BY <3>4, KeysElsewhere DEF CommandFails, countAfterFailure
      <3>5. QED
        BY <1>2, <3>1, <3>2, <3>3, <3>4
    <2>4. call' = Idle \/ call' = call
      BY <1>2 DEF SubscribeLocks, UnsubscribeLocks, CommandWritten, CommandFails,
                  returns, commands
    <2>5. QED
      BY <2>1, <2>2, <2>3, <2>4, ReturnAgrees, CommandAgrees
  <1>3. CASE \/ HubReceives \/ Loop \/ Close \/ ClosePubSub \/ ConnectionBreaks
             \/ Reconnects \/ ServerExecutes \/ Arrives \/ UNCHANGED vars
    <2>1. UNCHANGED <<activeChans, listening, call>>
      BY <1>3 DEF HubReceives, Loop, LoopReceives, LoopLocks, LoopUnlocks, LoopDelivers,
         LoopExits, Close, ClosePubSub, ConnectionBreaks, Reconnects, ServerExecutes,
         Arrives, subscriberVars, hubVars, vars
    <2>2. QED
      BY <2>1, AgreementStays
  <1>4. QED
    BY <1>1, <1>2, <1>3 DEF Next

\* However its two lock regions, its commands, their failures and Close fall,
\* the hub sees of the subscriber one set that a successful Subscribe adds its
\* channel to and an Unsubscribe takes it from: the variable manager of module
\* Hub (redis.go:96-136).
THEOREM SubscriberAlwaysKeepsAgreement == Spec => SubscriberKeepsAgreement
  <1>1. Init => Serves!Init
    BY DEF Init, Serves!Init, Answered, Counted
  <1>2. Inv /\ [Next]_vars => [Serves!Next]_<<Answered, Counted>>
    BY NextAgrees
  <1>3. QED
    BY <1>1, <1>2, Inductive, PTL DEF Spec, SubscriberKeepsAgreement, Serves!Spec, Serves!vars
=============================================================================
