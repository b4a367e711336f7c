--------------------------- MODULE GatewayProofs ---------------------------
(***************************************************************************)
(* The gateway implements the hub: with its goroutines, its five Go        *)
(* channels and any order the selects choose, every step is a step of      *)
(* module Hub or leaves the hub's state alone, for any number of           *)
(* connections and any capacities.  Hence every invariant of HubProofs     *)
(* holds of the running gateway, and it refines the broker PubSub.  Then   *)
(* what the goroutines owe a connection: which close codes it may see, and *)
(* that a revocation finds it and is not lost on the way.                  *)
(***************************************************************************)
EXTENDS Gateway, HubHistoryProofs

\* What the Go channels carry.
QueueTypes ==
    /\ register \in Seq(Client)
    /\ unregister \in Seq(Client)
    /\ subscribe \in Seq(Client \X Requested)
    /\ unsubscribe \in Seq(Client \X Requested)
    /\ incoming \in Seq(Message)
    /\ reader \in [Client -> ReaderState]
    /\ held \in [Client -> Request \cup {NoRequest}]
    /\ \A c \in Client : reader[c] = "post" => held[c] \in Request

\* A client is posted on h.register at most once, and not before its handler
\* comes to that line.
RegisteredOnce ==
    /\ \A c \in Client : reader[c] \in {"none", "register"} =>
          c \notin announced /\ \A i \in 1..Len(register) : register[i] # c
    /\ \A i \in 1..Len(register) : register[i] \notin announced
    /\ \A i, j \in 1..Len(register) : register[i] = register[j] => i = j

-----------------------------------------------------------------------------
(* Facts about the two queue operations.                                   *)

LEMMA AppendFacts ==
    ASSUME NEW S, NEW s \in Seq(S), NEW e \in S
    PROVE  /\ Append(s, e) \in Seq(S)
           /\ Len(Append(s, e)) = Len(s) + 1
           /\ Len(s) \in Nat
           /\ \A i \in 1..Len(s) : Append(s, e)[i] = s[i]
           /\ Append(s, e)[Len(s) + 1] = e
  OBVIOUS

LEMMA TailFacts ==
    ASSUME NEW S, NEW s \in Seq(S), s # <<>>
    PROVE  /\ Tail(s) \in Seq(S)
           /\ Head(s) \in S
           /\ Head(s) = s[1]
           /\ 1 \in 1..Len(s)
           /\ Len(s) \in Nat
           /\ Len(Tail(s)) = Len(s) - 1
           /\ \A i \in 1..Len(Tail(s)) : Tail(s)[i] = s[i+1] /\ i+1 \in 1..Len(s)
  <1>1. Len(s) \in Nat /\ Len(s) > 0
    OBVIOUS
  <1>2. QED
    BY <1>1, HeadTailProperties

-----------------------------------------------------------------------------
LEMMA QueueTypesInductive ==
    ASSUME QueueTypes, [Next]_vars
    PROVE  QueueTypes'
  <1> USE DEF QueueTypes
  <1>1. ASSUME NEW c \in Client,
               Accept(c) \/ PostRegister(c) \/ ReadFails(c) \/ PostUnregister(c)
        PROVE  QueueTypes'
    <2>1. CASE Accept(c)
      BY <2>1 DEF Accept, queues, ReaderState
    <2>2. CASE PostRegister(c)
      <3>1. register' \in Seq(Client)
        BY <2>2, AppendFacts DEF PostRegister
      <3>2. QED
        BY <2>2, <3>1 DEF PostRegister, ReaderState
    <2>3. CASE ReadFails(c)
      BY <2>3 DEF ReadFails, queues, ReaderState
    <2>4. CASE PostUnregister(c)
      <3>1. unregister' \in Seq(Client)
        BY <2>4, AppendFacts DEF PostUnregister
      <3>2. QED
        BY <2>4, <3>1 DEF PostUnregister, ReaderState
    <2>5. QED
      BY <1>1, <2>1, <2>2, <2>3, <2>4
  <1>2. ASSUME NEW c \in Client, NEW r \in Request, ReadFrame(c, r)
        PROVE  QueueTypes'
    BY <1>2 DEF ReadFrame, queues, ReaderState
  <1>3. ASSUME NEW c \in Client, PostRequest(c)
        PROVE  QueueTypes'
    <2>1. held[c] \in Request
      BY <1>3 DEF PostRequest
    <2>2. held[c].channel \in Requested
      BY <2>1 DEF Request
    <2>3. /\ reader' \in [Client -> ReaderState]
          /\ held' \in [Client -> Request \cup {NoRequest}]
          /\ \A d \in Client : reader'[d] = "post" => held'[d] \in Request
      BY <1>3 DEF PostRequest, ReaderState
    <2>4. subscribe' \in Seq(Client \X Requested) /\ unsubscribe' \in Seq(Client \X Requested)
      <3>1. <<c, held[c].channel>> \in Client \X Requested
        BY <2>2
      <3>2. /\ Append(subscribe, <<c, held[c].channel>>) \in Seq(Client \X Requested)
            /\ Append(unsubscribe, <<c, held[c].channel>>) \in Seq(Client \X Requested)
        BY <3>1, AppendFacts
      <3>3. QED
        BY <1>3, <3>2 DEF PostRequest
    <2>5. QED
      BY <1>3, <2>3, <2>4 DEF PostRequest
  <1>4. ASSUME NEW c \in Client, ConnectionLost(c) \/ HandshakeEnds(c) \/ Writer(c) \/ LifetimeEnds(c)
        PROVE  QueueTypes'
    BY <1>4 DEF ConnectionLost, HandshakeEnds, Writer, LifetimeEnds, WriteFrame, WriteFails,
                ApplyDisconnect, SendChannelClosed, ContextDone, PingFails, writerExits,
                writerUnchanged, gatewayVars, queues, readerVars
  <1>5. ASSUME NEW c \in Client, PostEviction(c)
        PROVE  QueueTypes'
    <2>1. unregister' \in Seq(Client)
      BY <1>5, AppendFacts DEF PostEviction
    <2>2. QED
      BY <1>5, <2>1 DEF PostEviction, readerVars
  <1>6. ASSUME NEW m \in Message, Deliver(m)
        PROVE  QueueTypes'
    <2>1. incoming' \in Seq(Message)
      BY <1>6, AppendFacts DEF Deliver
    <2>2. QED
      BY <1>6, <2>1 DEF Deliver, readerVars
  <1>7. CASE Run
    <2>1. CASE HubRegister
      <3>1. register' \in Seq(Client)
        BY <2>1, TailFacts DEF HubRegister
      <3>2. QED
        BY <2>1, <3>1 DEF HubRegister, readerVars
    <2>2. CASE HubUnregister
      <3>1. unregister' \in Seq(Client)
        BY <2>2, TailFacts DEF HubUnregister
      <3>2. QED
        BY <2>2, <3>1 DEF HubUnregister, readerVars
    <2>3. CASE HubSubscribe
      <3>1. subscribe' \in Seq(Client \X Requested)
        BY <2>3, TailFacts DEF HubSubscribe
      <3>2. QED
        BY <2>3, <3>1 DEF HubSubscribe, readerVars
    <2>4. CASE HubUnsubscribe
      <3>1. unsubscribe' \in Seq(Client \X Requested)
        BY <2>4, TailFacts DEF HubUnsubscribe
      <3>2. QED
        BY <2>4, <3>1 DEF HubUnsubscribe, readerVars
    <2>5. CASE HubIncoming
      <3>1. incoming' \in Seq(Message)
        BY <2>5, TailFacts DEF HubIncoming
      <3>2. QED
        BY <2>5, <3>1 DEF HubIncoming, readerVars
    <2>6. QED
      BY <1>7, <2>1, <2>2, <2>3, <2>4, <2>5 DEF Run
  <1>8. CASE UNCHANGED vars
    BY <1>8 DEF vars, gatewayVars, queues, readerVars
  <1>9. QED
    BY <1>1, <1>2, <1>3, <1>4, <1>5, <1>6, <1>7, <1>8 DEF Next, Reader, RequestStep

LEMMA RegisteredOnceInductive ==
    ASSUME QueueTypes, RegisteredOnce, [Next]_vars
    PROVE  RegisteredOnce'
  <1> USE DEF RegisteredOnce
  <1>1. ASSUME NEW c \in Client, PostRegister(c)
        PROVE  RegisteredOnce'
    <2>1. /\ register' = Append(register, c)
          /\ reader' = [reader EXCEPT ![c] = "read"]
          /\ announced' = announced
          /\ reader[c] = "register"
      BY <1>1 DEF PostRegister, hubVars
    <2>2. /\ Len(register') = Len(register) + 1
          /\ Len(register) \in Nat
          /\ \A i \in 1..Len(register) : register'[i] = register[i]
          /\ register'[Len(register) + 1] = c
      BY <2>1, AppendFacts DEF QueueTypes
    <2>3. ASSUME NEW i \in 1..Len(register')
          PROVE  i \in 1..Len(register) \/ (i = Len(register) + 1 /\ register'[i] = c)
      BY <2>2
    <2>4. \A i \in 1..Len(register) : register[i] # c
      BY <2>1
    <2>5. ASSUME NEW d \in Client, reader'[d] \in {"none", "register"}
          PROVE  d \notin announced' /\ \A i \in 1..Len(register') : register'[i] # d
      <3>1. d # c /\ reader'[d] = reader[d]
        BY <2>1, <2>5 DEF QueueTypes
      <3>2. QED
        BY <2>1, <2>2, <2>3, <2>5, <3>1
    <2>6. \A i \in 1..Len(register') : register'[i] \notin announced'
      BY <2>1, <2>2, <2>3
    <2>7. \A i, j \in 1..Len(register') : register'[i] = register'[j] => i = j
      BY <2>2, <2>3, <2>4
    <2>8. QED
      BY <2>5, <2>6, <2>7
  <1>2. CASE HubRegister
    <2>1. /\ register # <<>>
          /\ register' = Tail(register)
          /\ announced' = announced \cup {Head(register)}
          /\ reader' = reader
      BY <1>2 DEF HubRegister, handleRegister, readerVars
    <2>2. /\ Head(register) = register[1]
          /\ 1 \in 1..Len(register)
          /\ \A i \in 1..Len(register') : register'[i] = register[i+1] /\ i+1 \in 1..Len(register)
      BY <2>1, TailFacts DEF QueueTypes
    <2>3. ASSUME NEW i \in 1..Len(register')
          PROVE  register'[i] \notin announced'
      BY <2>1, <2>2
    <2>4. ASSUME NEW i \in 1..Len(register'), NEW j \in 1..Len(register'),
                 register'[i] = register'[j]
          PROVE  i = j
      BY <2>2, <2>4
    <2>5. QED
      BY <2>1, <2>2, <2>3, <2>4
  <1>3. ASSUME UNCHANGED <<register, announced>>,
               \A c \in Client : reader'[c] \in {"none", "register"} =>
                                   reader[c] \in {"none", "register"}
        PROVE  RegisteredOnce'
    BY <1>3
  <1>4. ASSUME NEW c \in Client,
               \/ Accept(c) \/ PostRequest(c) \/ ReadFails(c) \/ PostUnregister(c)
               \/ RequestStep(c)
        PROVE  RegisteredOnce'
    BY <1>3, <1>4 DEF Accept, PostRequest, ReadFails, PostUnregister, RequestStep, ReadFrame,
                hubVars, queues, QueueTypes
  <1>5. ASSUME NEW c \in Client, ConnectionLost(c) \/ HandshakeEnds(c) \/ Writer(c) \/ LifetimeEnds(c)
        PROVE  RegisteredOnce'
    BY <1>3, <1>5 DEF ConnectionLost, HandshakeEnds, Writer, LifetimeEnds, WriteFrame, takeFrame,
                WriteFails, ApplyDisconnect, SendChannelClosed, ContextDone, PingFails,
                writerExits, writerUnchanged, hubVars, hubMaps, gatewayVars, queues, readerVars
  <1>6. ASSUME NEW c \in Client, PostEviction(c)
        PROVE  RegisteredOnce'
    BY <1>3, <1>6 DEF PostEviction, postEviction, hubMaps, readerVars
  <1>7. ASSUME NEW m \in Message, Deliver(m)
        PROVE  RegisteredOnce'
    BY <1>3, <1>7 DEF Deliver, hubVars, readerVars
  <1>8. CASE HubUnregister \/ HubSubscribe \/ HubUnsubscribe \/ HubIncoming
    BY <1>3, <1>8 DEF HubUnregister, handleUnregister, HubSubscribe, handleClientSubscribe,
                HubUnsubscribe, handleClientUnsubscribe, HubIncoming, handleIncoming,
                hubVars, hubMaps, readerVars
  <1>9. CASE UNCHANGED vars
    BY <1>3, <1>9 DEF vars, hubVars, gatewayVars, queues, readerVars
  <1>10. QED
    BY <1>1, <1>2, <1>4, <1>5, <1>6, <1>7, <1>8, <1>9 DEF Next, Reader, Run

\* A step of the gateway that takes no message from Redis is a step of the
\* hub's open system that takes none, or no step.
LEMMA StepButIncoming ==
    ASSUME QueueTypes, RegisteredOnce, [Next]_vars, ~HubIncoming
    PROVE  ConnectionStep \/ UNCHANGED hubVars
  <1>1. CASE HubRegister
    <2>1. Head(register) \in Client \ announced
      BY <1>1, TailFacts DEF HubRegister, QueueTypes, RegisteredOnce
    <2>2. QED
      BY <1>1, <2>1 DEF HubRegister, ConnectionStep
  <1>2. CASE HubUnregister
    BY <1>2, TailFacts DEF HubUnregister, QueueTypes, ConnectionStep
  <1>3. CASE HubSubscribe
    <2>1. Head(subscribe) \in Client \X Requested
      BY <1>3, TailFacts DEF HubSubscribe, QueueTypes
    <2>2. Head(subscribe)[1] \in Client /\ Head(subscribe)[2] \in Requested
      BY <2>1
    <2>3. QED
      BY <1>3, <2>2 DEF HubSubscribe, ConnectionStep
  <1>4. CASE HubUnsubscribe
    <2>1. Head(unsubscribe) \in Client \X Requested
      BY <1>4, TailFacts DEF HubUnsubscribe, QueueTypes
    <2>2. Head(unsubscribe)[1] \in Client /\ Head(unsubscribe)[2] \in Requested
      BY <2>1
    <2>3. QED
      BY <1>4, <2>2 DEF HubUnsubscribe, ConnectionStep
  <1>5. ASSUME NEW c \in Client,
               \/ Accept(c) \/ RequestStep(c) \/ ConnectionLost(c) \/ HandshakeEnds(c)
               \/ Reader(c)
        PROVE  UNCHANGED hubVars
    BY <1>5 DEF Accept, RequestStep, ReadFrame, ConnectionLost, HandshakeEnds, Reader,
                PostRegister, PostRequest, ReadFails, PostUnregister
  <1>6. ASSUME NEW c \in Client, WriteFrame(c) \/ PostEviction(c)
        PROVE  ConnectionStep
    BY <1>6 DEF WriteFrame, PostEviction, ConnectionStep
  <1>7. ASSUME NEW c \in Client,
               \/ WriteFails(c) \/ ApplyDisconnect(c) \/ SendChannelClosed(c)
               \/ ContextDone(c) \/ PingFails(c) \/ LifetimeEnds(c)
        PROVE  writerReturns(c)
    BY <1>7 DEF WriteFails, ApplyDisconnect, SendChannelClosed, ContextDone, PingFails,
                LifetimeEnds, writerExits, writerUnchanged, writing, writerReturns, hubMaps
  <1>8. ASSUME NEW m \in Message, Deliver(m)
        PROVE  UNCHANGED hubVars
    BY <1>8 DEF Deliver
  <1>9. CASE UNCHANGED vars
    BY <1>9 DEF vars
  <1>10. QED
    BY <1>1, <1>2, <1>3, <1>4, <1>5, <1>6, <1>7, <1>8, <1>9
       DEF Next, Run, Writer, ConnectionStep

\* Every step of the gateway is a step of the hub's open system, or no step.
LEMMA StepImplementsHub ==
    ASSUME QueueTypes, RegisteredOnce, [Next]_vars
    PROVE  [HubNext]_hubVars
  <1>1. CASE HubIncoming
    BY <1>1, TailFacts DEF HubIncoming, QueueTypes, HubNext
  <1>2. CASE ~HubIncoming
    BY <1>2, StepButIncoming DEF HubNext
  <1>3. QED
    BY <1>1, <1>2

LEMMA QueueInvariant == Spec => [](QueueTypes /\ RegisteredOnce)
  <1>1. Init => QueueTypes /\ RegisteredOnce
    BY DEF Init, HubInit, QueueTypes, RegisteredOnce, ReaderState
  <1>2. QueueTypes /\ RegisteredOnce /\ [Next]_vars => QueueTypes' /\ RegisteredOnce'
    BY QueueTypesInductive, RegisteredOnceInductive
  <1>3. QED
    BY <1>1, <1>2, PTL DEF Spec

\* The hub as it is run does only what module Hub describes; in particular no
\* client is ever registered twice (main.go:117, hub.go:136-153).
THEOREM GatewayImplementsHub == Spec => ImplementsHub
  <1>1. Init => HubInit
    BY DEF Init
  <1>2. QueueTypes /\ RegisteredOnce /\ [Next]_vars => [HubNext]_hubVars
    BY StepImplementsHub
  <1>3. QED
    BY <1>1, <1>2, QueueInvariant, PTL DEF Spec, ImplementsHub, HubSpec

\* The invariants of the hub hold of the running gateway.
THEOREM GatewayKeepsHubInvariants ==
    Spec => [](/\ TypeOK /\ IndexesAgree /\ NoSendOnClosed /\ CapsHold
               /\ AllowListHolds /\ RedisFollowsChannels
               /\ DetachedIsSignalled /\ EvictedIsSignalled)
  BY GatewayImplementsHub, TypeCorrect, IndexesAlwaysAgree, NeverSendsOnClosed,
     CapsAlwaysHold, AllowListAlwaysHolds, RedisAlwaysFollows,
     DetachedAlwaysSignalled, EvictedAlwaysSignalled, PTL DEF ImplementsHub
-----------------------------------------------------------------------------
(* Nobody but WritePump closes a connection with a code, so it must not    *)
(* return from an open one.                                                *)

\* The close frame of c is sent, or its connection is gone.
Shut(c) == conn[c] \in {"closing", "closed"}

InUnregister(c) == \E i \in 1..Len(unregister) : unregister[i] = c

\* A connection is opened with its handler.
ConnInv ==
    /\ conn \in [Client -> {"none", "open", "closing", "closed"}]
    /\ \A c \in Client : (reader[c] = "none") <=> (conn[c] = "none")

\* The hub says Cleanup only to a client whose connection is shut: a client
\* whose unregistration is on its way either has a shut connection or has
\* already been told a close code.
ShutInv ==
    /\ ConnInv
    /\ \A c \in Client :
          /\ c \in stopped => Shut(c)
          /\ disconnect[c] = Cleanup => Shut(c)
          /\ reader[c] \in {"leave", "done"} => Shut(c)
          /\ InUnregister(c) => Shut(c) \/ Told(c)

\* A connection that is shut stays so.
LEMMA ShutForEver ==
    ASSUME ConnInv, [Next]_vars, NEW c \in Client, Shut(c)
    PROVE  Shut(c)'
  <1> USE DEF Shut, ConnInv
  <1>1. CASE UNCHANGED conn
    BY <1>1
  <1>2. ASSUME NEW d \in Client, NEW k, closeWithCode(d, k)
        PROVE  Shut(c)'
    BY <1>2 DEF closeWithCode, connVars
  <1>3. ASSUME NEW d \in Client, lose(d)
        PROVE  Shut(c)'
    BY <1>3 DEF lose
  <1>4. ASSUME NEW d \in Client, Accept(d)
        PROVE  Shut(c)'
    BY <1>4 DEF Accept
  <1>5. QED
    BY <1>1, <1>2, <1>3, <1>4 DEF Next, Run, Reader, Writer, RequestStep, PostRegister,
       ReadFrame, PostRequest, ConnectionLost, HandshakeEnds, ReadFails, PostUnregister,
       WriteFrame, WriteFails, ApplyDisconnect, SendChannelClosed, LifetimeEnds, ContextDone,
       PingFails, PostEviction, Deliver, HubRegister, HubUnregister, HubSubscribe,
       HubUnsubscribe, HubIncoming, connVars, gatewayVars, vars

\* Whatever makes WritePump return, the connection is shut when it has: the
\* only return that leaves an open connection is a ping that timed out.
LEMMA ReturnShuts ==
    ASSUME PingMayFail = FALSE, ShutInv, NEW c \in Client,
           \/ WriteFails(c) \/ ApplyDisconnect(c) \/ SendChannelClosed(c)
           \/ LifetimeEnds(c) \/ ContextDone(c) \/ PingFails(c)
    PROVE  Shut(c)' /\ stopped' = stopped \cup {c}
  <1>1. writing(c) /\ stopped' = stopped \cup {c}
    BY DEF WriteFails, ApplyDisconnect, SendChannelClosed, LifetimeEnds, ContextDone,
           PingFails, writerExits
  <1>2. conn[c] \in {"open", "closing", "closed"}
    BY <1>1 DEF writing, ShutInv, ConnInv
  <1>3. ASSUME NEW k, closeWithCode(c, k)
        PROVE  Shut(c)'
    BY <1>2, <1>3 DEF closeWithCode, connVars, Shut, ShutInv, ConnInv
  <1>4. CASE WriteFails(c)
    BY <1>4 DEF WriteFails, lose, Shut, ShutInv, ConnInv
  <1>5. CASE ApplyDisconnect(c)
    <2>1. CASE disconnect[c] = Cleanup
      BY <1>5, <2>1 DEF ApplyDisconnect, connVars, Shut, ShutInv, ConnInv
    <2>2. QED
      BY <1>3, <1>5, <2>1 DEF ApplyDisconnect
  <1>6. CASE PingFails(c)
    BY <1>1, <1>6 DEF PingFails, connVars, Shut
  <1>7. CASE SendChannelClosed(c) \/ LifetimeEnds(c) \/ ContextDone(c)
    BY <1>1, <1>3, <1>7 DEF SendChannelClosed, LifetimeEnds, ContextDone
  <1>8. QED
    BY <1>1, <1>4, <1>5, <1>6, <1>7

\* The steps of a handler goroutine on one connection: a connection is "none"
\* as long as its handler is.
LEMMA ConnFollowsReader ==
    ASSUME QueueTypes, ConnInv, [Next]_vars
    PROVE  ConnInv'
  <1> DEFINE Agree == ConnInv'
  <1> USE DEF ConnInv, QueueTypes
  <1>1. ASSUME UNCHANGED <<conn, reader>> PROVE Agree
    BY <1>1
  <1>2. ASSUME NEW c \in Client, NEW k, closeWithCode(c, k), UNCHANGED reader
        PROVE  Agree
    BY <1>2 DEF closeWithCode, connVars
  <1>3. ASSUME NEW c \in Client, conn[c] # "none", lose(c), UNCHANGED reader
        PROVE  Agree
    BY <1>3 DEF lose
  <1>4. ASSUME NEW c \in Client, Accept(c) PROVE Agree
    BY <1>4 DEF Accept
  <1>5. ASSUME NEW c \in Client,
               \/ PostRegister(c) \/ RequestStep(c) \/ PostRequest(c)
               \/ ReadFails(c) \/ PostUnregister(c)
        PROVE  Agree
    BY <1>5 DEF PostRegister, RequestStep, ReadFrame, PostRequest, ReadFails,
                PostUnregister, connVars
  <1>6. ASSUME NEW c \in Client, ConnectionLost(c) \/ HandshakeEnds(c)
        PROVE  Agree
    BY <1>3, <1>6 DEF ConnectionLost, HandshakeEnds, readerVars
  <1>7. ASSUME NEW c \in Client, WriteFails(c) PROVE Agree
    BY <1>3, <1>7 DEF WriteFails, writing, writerUnchanged, readerVars
  <1>8. ASSUME NEW c \in Client, ApplyDisconnect(c) PROVE Agree
    BY <1>1, <1>2, <1>8 DEF ApplyDisconnect, writerUnchanged, readerVars, connVars
  <1>9. ASSUME NEW c \in Client,
               SendChannelClosed(c) \/ LifetimeEnds(c) \/ ContextDone(c) \/ PingFails(c)
        PROVE  Agree
    BY <1>1, <1>2, <1>9 DEF SendChannelClosed, LifetimeEnds, ContextDone, PingFails,
                writerExits, writerUnchanged, readerVars, connVars
  <1>10. ASSUME NEW c \in Client, WriteFrame(c) \/ PostEviction(c)
         PROVE  Agree
    BY <1>1, <1>10 DEF WriteFrame, PostEviction, gatewayVars, readerVars, connVars
  <1>11. ASSUME NEW m \in Message, Deliver(m) PROVE Agree
    BY <1>1, <1>11 DEF Deliver, readerVars, connVars
  <1>12. CASE Run
    BY <1>1, <1>12 DEF Run, HubRegister, HubUnregister, HubSubscribe, HubUnsubscribe,
                HubIncoming, readerVars, connVars
  <1>13. CASE UNCHANGED vars
    BY <1>1, <1>13 DEF vars, gatewayVars, readerVars, connVars
  <1>14. QED
    BY <1>4, <1>5, <1>6, <1>7, <1>8, <1>9, <1>10, <1>11, <1>12, <1>13
       DEF Next, Reader, Writer

\* The hub writes Cleanup only when it takes an unregistration.
LEMMA CleanupComesFromUnregister ==
    ASSUME QueueTypes, TypeOK, [Next]_vars, NEW c \in Client,
           disconnect'[c] = Cleanup, disconnect[c] # Cleanup
    PROVE  HubUnregister /\ c = Head(unregister) /\ disconnect[c] = NoSignal
  <1>1. ASSUME UNCHANGED disconnect PROVE FALSE
    BY <1>1
  <1>2. ASSUME NEW S, NEW k, k # Cleanup, disconnect' = Signalled(S, k)
        PROVE  FALSE
    BY <1>2 DEF Signalled
  <1>3. /\ CloseSessionRevoked # Cleanup /\ CloseSlowClient # Cleanup
        /\ CloseTooManyConnections # Cleanup /\ NoSignal # Cleanup
    BY DEF CloseSessionRevoked, CloseSlowClient, CloseTooManyConnections, NoSignal, Cleanup
  <1>4. ASSUME NEW d \in Client, ApplyDisconnect(d) PROVE FALSE
    BY <1>3, <1>4 DEF ApplyDisconnect, TypeOK
  <1>5. CASE HubUnregister
    BY <1>1, <1>5 DEF HubUnregister, handleUnregister, hubVars, Signalled
  <1>6. ASSUME HubRegister \/ HubSubscribe \/ HubUnsubscribe \/ HubIncoming
        PROVE  FALSE
    BY <1>1, <1>2, <1>3, <1>6 DEF HubRegister, handleRegister, refuse, admit, HubSubscribe,
       handleClientSubscribe, HubUnsubscribe, handleClientUnsubscribe, HubIncoming,
       handleIncoming, handleControlMessage, deliverFrames, hubVars, pumpVars
  <1>7. QED
    BY <1>1, <1>4, <1>5, <1>6 DEF Next, Run, Reader, Writer, RequestStep, Accept,
       PostRegister, ReadFrame, PostRequest, ConnectionLost, HandshakeEnds, ReadFails,
       PostUnregister, WriteFrame, takeFrame, WriteFails, SendChannelClosed, LifetimeEnds,
       ContextDone, PingFails, writerExits, PostEviction, postEviction, Deliver,
       hubVars, vars

\* A client comes onto h.unregister from its own handler or by eviction.
LEMMA UnregisterComesFrom ==
    ASSUME QueueTypes, [Next]_vars, NEW c \in Client, InUnregister(c)', ~InUnregister(c)
    PROVE  PostUnregister(c) \/ PostEviction(c)
  <1>1. ASSUME NEW d \in Client, unregister' = Append(unregister, d)
        PROVE  d = c
    <2>1. PICK i \in 1..Len(unregister') : unregister'[i] = c
      BY DEF InUnregister
    <2>2. /\ Len(unregister') = Len(unregister) + 1
          /\ Len(unregister) \in Nat
          /\ \A j \in 1..Len(unregister) : unregister'[j] = unregister[j]
          /\ unregister'[Len(unregister) + 1] = d
      BY <1>1, AppendFacts DEF QueueTypes
    <2>3. i \notin 1..Len(unregister)
      BY <2>1, <2>2 DEF InUnregister
    <2>4. i = Len(unregister) + 1
      BY <2>2, <2>3
    <2>5. QED
      BY <2>1, <2>2, <2>4
  <1>2. ASSUME UNCHANGED unregister PROVE FALSE
    BY <1>2 DEF InUnregister
  <1>3. ASSUME HubUnregister PROVE FALSE
    <2>1. unregister # <<>> /\ unregister' = Tail(unregister)
      BY <1>3 DEF HubUnregister
    <2>2. \A i \in 1..Len(unregister') :
             unregister'[i] = unregister[i+1] /\ i+1 \in 1..Len(unregister)
      BY <2>1, TailFacts DEF QueueTypes
    <2>3. QED
      BY <2>2 DEF InUnregister
  <1>4. ASSUME NEW d \in Client, PostUnregister(d) \/ PostEviction(d)
        PROVE  d = c
    BY <1>1, <1>4 DEF PostUnregister, PostEviction
  <1>5. QED
    BY <1>2, <1>3, <1>4 DEF Next, Run, Reader, Writer, RequestStep, Accept, PostRegister,
       ReadFrame, PostRequest, ConnectionLost, HandshakeEnds, ReadFails, WriteFrame,
       WriteFails, ApplyDisconnect, SendChannelClosed, LifetimeEnds, ContextDone, PingFails,
       writerExits, writerUnchanged, Deliver, HubRegister, HubSubscribe, HubUnsubscribe,
       HubIncoming, queues, gatewayVars, vars

\* ShutInv is preserved when a ping fails only on a broken connection.
LEMMA ShutInductive ==
    ASSUME PingMayFail = FALSE, TypeOK, EvictedIsSignalled, QueueTypes, RegisteredOnce,
           ShutInv, [Next]_vars
    PROVE  ShutInv'
  <1>1. [HubNext]_hubVars
    BY StepImplementsHub
  <1> SUFFICES ASSUME NEW c \in Client
               PROVE  /\ (c \in stopped => Shut(c))'
                      /\ (disconnect[c] = Cleanup => Shut(c))'
                      /\ (reader[c] \in {"leave", "done"} => Shut(c))'
                      /\ (InUnregister(c) => Shut(c) \/ Told(c))'
    BY ConnFollowsReader DEF ShutInv
  <1>2. (c \in stopped => Shut(c))'
    <2>1. CASE c \in stopped
      BY <2>1, ShutForEver DEF ShutInv
    <2>2. CASE c \notin stopped /\ c \in stopped'
      <3>1. \/ WriteFails(c) \/ ApplyDisconnect(c) \/ SendChannelClosed(c)
            \/ LifetimeEnds(c) \/ ContextDone(c) \/ PingFails(c)
        BY <2>2 DEF Next, Run, Reader, Writer, RequestStep, Accept, PostRegister, ReadFrame,
           PostRequest, ConnectionLost, HandshakeEnds, ReadFails, PostUnregister, WriteFrame,
           takeFrame, WriteFails, ApplyDisconnect, SendChannelClosed, LifetimeEnds,
           ContextDone, PingFails, writerExits, PostEviction, postEviction, Deliver,
           HubRegister, handleRegister, HubUnregister, handleUnregister, HubSubscribe,
           handleClientSubscribe, HubUnsubscribe, handleClientUnsubscribe, HubIncoming,
           handleIncoming, handleControlMessage, deliverFrames, hubVars, pumpVars, vars
      <3>2. QED
        BY <3>1, ReturnShuts
    <2>3. QED
      BY <2>1, <2>2
  <1>3. (disconnect[c] = Cleanup => Shut(c))'
    <2>1. CASE disconnect[c] = Cleanup
      BY <2>1, ShutForEver DEF ShutInv
    <2>2. CASE disconnect[c] # Cleanup /\ disconnect'[c] = Cleanup
      <3>1. HubUnregister /\ c = Head(unregister) /\ disconnect[c] = NoSignal
        BY <2>2, CleanupComesFromUnregister
      <3>2. InUnregister(c)
        BY <3>1, TailFacts DEF HubUnregister, QueueTypes, InUnregister
      <3>3. Shut(c)
        BY <3>1, <3>2 DEF ShutInv, Told
      <3>4. QED
        BY <3>3, ShutForEver DEF ShutInv
    <2>3. QED
      BY <2>1, <2>2
  <1>4. (reader[c] \in {"leave", "done"} => Shut(c))'
    <2>1. CASE reader[c] \in {"leave", "done"}
      BY <2>1, ShutForEver DEF ShutInv
    <2>2. CASE reader[c] \notin {"leave", "done"} /\ reader'[c] \in {"leave", "done"}
      <3>1. ReadFails(c)
        BY <2>2 DEF Next, Run, Reader, Writer, RequestStep, Accept, PostRegister, ReadFrame,
           PostRequest, ConnectionLost, HandshakeEnds, ReadFails, PostUnregister, WriteFrame,
           WriteFails, ApplyDisconnect, SendChannelClosed, LifetimeEnds, ContextDone,
           PingFails, writerExits, writerUnchanged, PostEviction, Deliver, HubRegister,
           HubUnregister, HubSubscribe, HubUnsubscribe, HubIncoming, QueueTypes,
           readerVars, gatewayVars, vars
      <3>2. QED
        BY <3>1 DEF ReadFails, connVars, Shut
    <2>3. QED
      BY <2>1, <2>2
  <1>5. (InUnregister(c) => Shut(c) \/ Told(c))'
    <2>1. ASSUME Shut(c) \/ Told(c) PROVE Shut(c)' \/ Told(c)'
      BY <1>1, <2>1, ShutForEver, ToldForEver DEF ShutInv
    <2>2. CASE InUnregister(c)
      BY <2>1, <2>2 DEF ShutInv
    <2>3. CASE ~InUnregister(c) /\ InUnregister(c)'
      <3>1. PostUnregister(c) \/ PostEviction(c)
        BY <2>3, UnregisterComesFrom
      <3>2. CASE PostUnregister(c)
        BY <2>1, <3>2 DEF PostUnregister, ShutInv
      <3>3. CASE PostEviction(c)
        BY <2>1, <3>3 DEF PostEviction, postEviction, EvictedIsSignalled, Told
      <3>4. QED
        BY <3>1, <3>2, <3>3
    <2>4. QED
      BY <2>2, <2>3
  <1>6. QED
    BY <1>2, <1>3, <1>4, <1>5

\* A connection that was revoked has been told to close.
RevokedInv == revoked \subseteq Client /\ \A c \in revoked : Told(c)

LEMMA RevokedGrows ==
    ASSUME [Next]_vars
    PROVE  \/ UNCHANGED revoked
           \/ HubIncoming
  BY DEF Next, Run, Reader, Writer, RequestStep, Accept, PostRegister, ReadFrame,
     PostRequest, ConnectionLost, HandshakeEnds, ReadFails, PostUnregister, WriteFrame,
     WriteFails, ApplyDisconnect, SendChannelClosed, LifetimeEnds, ContextDone,
     PingFails, writerExits, writerUnchanged, PostEviction, Deliver, HubRegister,
     HubUnregister, HubSubscribe, HubUnsubscribe, gatewayVars, vars

\* The hub signals every member of the control channel of a revocation.
LEMMA RevocationTells ==
    ASSUME TypeOK, QueueTypes, HubIncoming, NEW c \in Client,
           Head(incoming).channel \in Control, Head(incoming).payload \in RevokePayload,
           c \in channels[Head(incoming).channel]
    PROVE  Told(c)'
  <1>1. disconnect' = Signalled(channels[Head(incoming).channel], CloseSessionRevoked)
    BY DEF HubIncoming, handleIncoming, handleControlMessage
  <1>2. disconnect'[c] # NoSignal
    BY <1>1 DEF Signalled, CloseSessionRevoked, NoSignal
  <1>3. QED
    BY <1>2 DEF Told

LEMMA RevokedInductive ==
    ASSUME TypeOK, QueueTypes, RegisteredOnce, RevokedInv, [Next]_vars
    PROVE  RevokedInv'
  <1>1. [HubNext]_hubVars
    BY StepImplementsHub
  <1>2. \A c \in revoked : Told(c)'
    BY <1>1, ToldForEver DEF RevokedInv
  <1>3. CASE UNCHANGED revoked
    BY <1>2, <1>3 DEF RevokedInv
  <1>4. CASE HubIncoming
    <2>1. revoked' = revoked \cup {c \in Client : Revokes(Head(incoming), c)}
      BY <1>4 DEF HubIncoming
    <2>2. ASSUME NEW c \in Client, Revokes(Head(incoming), c)
          PROVE  Told(c)'
      BY <1>4, <2>2, RevocationTells DEF Revokes
    <2>3. QED
      BY <1>2, <2>1, <2>2 DEF RevokedInv
  <1>5. QED
    BY <1>3, <1>4, RevokedGrows

LEMMA ShutInvariant ==
    ASSUME PingMayFail = FALSE
    PROVE  Spec => [](ShutInv /\ RevokedInv)
  <1>1. Init => ShutInv /\ RevokedInv
    BY DEF Init, HubInit, ShutInv, ConnInv, Shut, InUnregister, NoSignal, Cleanup, RevokedInv
  <1>2. TypeOK /\ EvictedIsSignalled /\ QueueTypes /\ RegisteredOnce /\ ShutInv /\ RevokedInv
           /\ [Next]_vars
           => ShutInv' /\ RevokedInv'
    BY ShutInductive, RevokedInductive
  <1>3. QED
    BY <1>1, <1>2, QueueInvariant, GatewayKeepsHubInvariants, PTL DEF Spec

\* If pings fail only on broken connections, WritePump never returns from an
\* open one: eviction, revocation, refusal and cleanup all end the connection
\* (client.go:113-158, hub.go:193-198, 306-317).
THEOREM NeverAbandons ==
    ASSUME PingMayFail = FALSE
    PROVE  Spec => []NoAbandonedConnection
  <1>1. TypeOK /\ ShutInv /\ RevokedInv => NoAbandonedConnection
    BY DEF ShutInv, ConnInv, Shut, RevokedInv, Told, TypeOK, NoAbandonedConnection
  <1>2. QED
    BY <1>1, ShutInvariant, GatewayKeepsHubInvariants, PTL
-----------------------------------------------------------------------------
(* The peer is told the truth.                                             *)

\* A connection the hub has looked at and does not have.
Refused(c) == c \in announced \ clients /\ subscribed[c] = {}

\* What is waiting in a disconnect buffer will be the truth when WritePump
\* sends it, on a connection that is still open by then.
Truthful ==
    /\ code \in [Client -> Int]
    /\ \A c \in Client :
          /\ disconnect[c] = CloseSessionRevoked => c \in revoked \/ Shut(c)
          /\ disconnect[c] = CloseTooManyConnections => Refused(c)
    /\ CloseCodesJustified

\* Only the first close of an open connection sets its code.
LEMMA CodeComesFrom ==
    ASSUME Truthful, TypeOK, [Next]_vars
    PROVE  /\ code' \in [Client -> Int]
           /\ \A c \in Client : code'[c] # code[c] =>
                 /\ conn[c] = "open"
                 /\ \/ code'[c] \in {Abnormal, NormalClosure}
                    \/ code'[c] = disconnect[c]
                    \/ code'[c] = GoingAway /\ reader[c] = "done"
  <1> DEFINE P == /\ code' \in [Client -> Int]
                  /\ \A c \in Client : code'[c] # code[c] =>
                        /\ conn[c] = "open"
                        /\ \/ code'[c] \in {Abnormal, NormalClosure}
                           \/ code'[c] = disconnect[c]
                           \/ code'[c] = GoingAway /\ reader[c] = "done"
  <1> SUFFICES P
    OBVIOUS
  <1>a. Signal \subseteq Int
    BY DEF Signal, NoSignal, Cleanup, CloseSessionRevoked, CloseSlowClient,
           CloseTooManyConnections
  <1>0. code \in [Client -> Int] /\ \A c \in Client : disconnect[c] \in Int
    BY <1>a DEF Truthful, TypeOK
  <1>1. ASSUME UNCHANGED code PROVE P
    BY <1>0, <1>1
  <1>2. ASSUME NEW d \in Client, lose(d) PROVE P
    BY <1>0, <1>2 DEF lose, Abnormal
  <1>3. ASSUME NEW d \in Client, NEW k \in Int, closeWithCode(d, k),
               \/ k = NormalClosure \/ k = disconnect[d]
               \/ k = GoingAway /\ reader[d] = "done"
        PROVE  P
    BY <1>0, <1>3 DEF closeWithCode, connVars
  <1>4. ASSUME NEW d \in Client, ApplyDisconnect(d) PROVE P
    BY <1>0, <1>1, <1>3, <1>4 DEF ApplyDisconnect, connVars
  <1>5. ASSUME NEW d \in Client, SendChannelClosed(d) \/ LifetimeEnds(d) \/ ContextDone(d)
        PROVE  P
    BY <1>3, <1>5 DEF SendChannelClosed, LifetimeEnds, ContextDone, NormalClosure, GoingAway
  <1>6. ASSUME NEW d \in Client, ConnectionLost(d) \/ HandshakeEnds(d) \/ WriteFails(d)
        PROVE  P
    BY <1>2, <1>6 DEF ConnectionLost, HandshakeEnds, WriteFails
  <1>7. QED
    BY <1>1, <1>4, <1>5, <1>6 DEF Next, Run, Reader, Writer, RequestStep, Accept,
       PostRegister, ReadFrame, PostRequest, ReadFails, PostUnregister, WriteFrame,
       PingFails, PostEviction, Deliver, HubRegister, HubUnregister, HubSubscribe,
       HubUnsubscribe, HubIncoming, connVars, gatewayVars, vars

\* The hub says 4401 to the members of a control channel, and 4429 to the
\* client it is asked to register.
LEMMA ReasonComesFrom ==
    ASSUME TypeOK, [Next]_vars, NEW c \in Client, disconnect'[c] # disconnect[c]
    PROVE  /\ disconnect'[c] = CloseSessionRevoked =>
                 HubIncoming /\ c \in channels[Head(incoming).channel]
                             /\ Head(incoming).channel \in Control
                             /\ Head(incoming).payload \in RevokePayload
           /\ disconnect'[c] = CloseTooManyConnections =>
                 HubRegister /\ c = Head(register) /\ refuse(c)
  <1> USE DEF CloseSessionRevoked, CloseSlowClient, CloseTooManyConnections, NoSignal, Cleanup
  <1>1. ASSUME NEW S, NEW k, disconnect' = Signalled(S, k)
        PROVE  c \in S /\ disconnect'[c] = k
    BY <1>1 DEF Signalled
  <1>2. ASSUME NEW d \in Client, ApplyDisconnect(d)
        PROVE  disconnect'[c] = NoSignal
    BY <1>2 DEF ApplyDisconnect, TypeOK
  <1>3. CASE HubUnregister
    BY <1>1, <1>3 DEF HubUnregister, handleUnregister, hubVars
  <1>4. CASE HubRegister
    <2>1. refuse(Head(register)) \/ admit(Head(register))
      BY <1>4 DEF HubRegister, handleRegister
    <2>2. CASE refuse(Head(register))
      <3>1. c \in {Head(register)} /\ disconnect'[c] = CloseTooManyConnections
        BY <1>1, <2>2 DEF refuse
      <3>2. QED
        BY <1>4, <2>2, <3>1
    <2>3. CASE admit(Head(register))
      BY <2>3 DEF admit
    <2>4. QED
      BY <2>1, <2>2, <2>3
  <1>5. CASE HubSubscribe \/ HubUnsubscribe
    BY <1>1, <1>5 DEF HubSubscribe, handleClientSubscribe, HubUnsubscribe,
       handleClientUnsubscribe, deliverFrames, hubVars, pumpVars
  <1>6. CASE HubIncoming
    <2>1. CASE handleControlMessage(Head(incoming)) /\ Head(incoming).channel \in Control
      BY <1>1, <1>6, <2>1 DEF handleControlMessage
    <2>2. CASE deliverFrames(channels[Head(incoming).channel], Head(incoming))
      BY <1>1, <2>2 DEF deliverFrames
    <2>3. QED
      BY <1>6, <2>1, <2>2 DEF HubIncoming, handleIncoming
  <1>7. QED
    BY <1>2, <1>3, <1>4, <1>5, <1>6 DEF Next, Run, Reader, Writer, RequestStep, Accept,
       PostRegister, ReadFrame, PostRequest, ConnectionLost, HandshakeEnds, ReadFails,
       PostUnregister, WriteFrame, takeFrame, WriteFails, SendChannelClosed, LifetimeEnds,
       ContextDone, PingFails, writerExits, PostEviction, postEviction, Deliver,
       hubVars, vars

\* The hub does not look at a client a second time.
LEMMA RefusedForEver ==
    ASSUME TypeOK, QueueTypes, RegisteredOnce, [Next]_vars, NEW c \in Client, Refused(c)
    PROVE  Refused(c)'
  <1> USE DEF Refused
  <1>1. [HubNext]_hubVars
    BY StepImplementsHub
  <1>2. CASE UNCHANGED hubVars
    BY <1>2 DEF hubVars
  <1>3. ASSUME NEW d \in Client \ announced, handleRegister(d)
        PROVE  Refused(c)'
    BY <1>3 DEF handleRegister, refuse, admit, addSubscriptions, TypeOK
  <1>4. ASSUME NEW d \in Client, handleUnregister(d)
        PROVE  Refused(c)'
    BY <1>4 DEF handleUnregister, hubVars
  <1>5. ASSUME NEW d \in Client, NEW ch \in Requested, handleClientSubscribe(d, ch)
        PROVE  Refused(c)'
    BY <1>5 DEF handleClientSubscribe, addSubscriptions, hubMaps, hubVars, TypeOK
  <1>6. ASSUME NEW d \in Client, NEW ch \in Requested, handleClientUnsubscribe(d, ch)
        PROVE  Refused(c)'
    BY <1>6 DEF handleClientUnsubscribe, hubMaps, hubVars, TypeOK
  <1>7. CASE \/ \E m \in Message : handleIncoming(m)
             \/ \E d \in Client : takeFrame(d) \/ writerReturns(d) \/ postEviction(d)
    BY <1>7 DEF handleIncoming, takeFrame, writerReturns, postEviction, hubMaps
  <1>8. QED
    BY <1>1, <1>2, <1>3, <1>4, <1>5, <1>6, <1>7 DEF HubNext, ConnectionStep

LEMMA TruthKept ==
    ASSUME Inv, QueueTypes, RegisteredOnce, ConnInv, Truthful, [Next]_vars
    PROVE  Truthful'
  <1>1. TypeOK /\ code' \in [Client -> Int]
    BY CodeComesFrom DEF Inv
  <1>2. revoked \subseteq revoked'
    BY DEF Next, Run, Reader, Writer, RequestStep, Accept, PostRegister, ReadFrame,
       PostRequest, ConnectionLost, HandshakeEnds, ReadFails, PostUnregister, WriteFrame,
       WriteFails, ApplyDisconnect, SendChannelClosed, LifetimeEnds, ContextDone,
       PingFails, writerExits, writerUnchanged, PostEviction, Deliver, HubRegister,
       HubUnregister, HubSubscribe, HubUnsubscribe, HubIncoming, gatewayVars, vars
  <1>3. \A c \in Client : reader[c] = "done" => reader'[c] = "done"
    BY DEF QueueTypes, Next, Run, Reader, Writer, RequestStep, Accept, PostRegister, ReadFrame,
       PostRequest, ConnectionLost, HandshakeEnds, ReadFails, PostUnregister, WriteFrame,
       WriteFails, ApplyDisconnect, SendChannelClosed, LifetimeEnds, ContextDone,
       PingFails, writerExits, writerUnchanged, PostEviction, Deliver, HubRegister,
       HubUnregister, HubSubscribe, HubUnsubscribe, HubIncoming, readerVars, gatewayVars, vars
  <1> SUFFICES ASSUME NEW c \in Client
               PROVE  /\ disconnect'[c] = CloseSessionRevoked => c \in revoked' \/ Shut(c)'
                      /\ disconnect'[c] = CloseTooManyConnections => Refused(c)'
                      /\ code'[c] = CloseSessionRevoked => c \in revoked'
                      /\ code'[c] = CloseTooManyConnections => Refused(c)'
                      /\ code'[c] = GoingAway => reader'[c] = "done"
    BY <1>1 DEF Truthful, CloseCodesJustified, Refused
  <1>4. disconnect'[c] = CloseSessionRevoked => c \in revoked' \/ Shut(c)'
    <2>1. CASE disconnect'[c] = disconnect[c]
      BY <1>2, <2>1, ShutForEver DEF Truthful
    <2>2. CASE disconnect'[c] # disconnect[c] /\ disconnect'[c] = CloseSessionRevoked
      <3>1. /\ HubIncoming /\ c \in channels[Head(incoming).channel]
            /\ Head(incoming).channel \in Control /\ Head(incoming).payload \in RevokePayload
        BY <1>1, <2>2, ReasonComesFrom
      <3>2. Head(incoming) \in Message
        BY <3>1, TailFacts DEF HubIncoming, QueueTypes
      <3>3. c \in announced
        BY <3>1, <3>2 DEF Inv, IndexesAgree, Lifecycle, Message
      <3>4. conn[c] # "none"
        BY <3>3 DEF RegisteredOnce, ConnInv
      <3>5. CASE conn[c] = "open"
        BY <3>1, <3>5 DEF HubIncoming, Revokes
      <3>6. CASE conn[c] # "open"
        BY <3>4, <3>6, ShutForEver DEF ConnInv, Shut
      <3>7. QED
        BY <3>5, <3>6
    <2>3. QED
      BY <2>1, <2>2
  <1>5. disconnect'[c] = CloseTooManyConnections => Refused(c)'
    <2>1. CASE disconnect'[c] = disconnect[c]
      BY <1>1, <2>1, RefusedForEver DEF Truthful
    <2>2. CASE disconnect'[c] # disconnect[c] /\ disconnect'[c] = CloseTooManyConnections
      <3>1. HubRegister /\ c = Head(register) /\ refuse(c)
        BY <1>1, <2>2, ReasonComesFrom
      <3>2. c \notin announced
        BY <3>1, TailFacts DEF HubRegister, QueueTypes, RegisteredOnce
      <3>3. c \notin clients /\ subscribed[c] = {}
        BY <3>2 DEF Inv, Lifecycle
      <3>4. announced' = announced \cup {c}
        BY <3>1 DEF HubRegister, handleRegister
      <3>5. QED
        BY <3>1, <3>3, <3>4 DEF refuse, Refused
    <2>3. QED
      BY <2>1, <2>2
  <1>6. /\ code'[c] = CloseSessionRevoked => c \in revoked'
        /\ code'[c] = CloseTooManyConnections => Refused(c)'
        /\ code'[c] = GoingAway => reader'[c] = "done"
    <2> USE DEF CloseSessionRevoked, CloseTooManyConnections, GoingAway, Abnormal, NormalClosure
    <2>1. CASE code'[c] = code[c]
      BY <1>1, <1>2, <1>3, <2>1, RefusedForEver DEF Truthful, CloseCodesJustified, Refused
    <2>2. CASE code'[c] # code[c]
      <3>1. /\ conn[c] = "open"
            /\ \/ code'[c] \in {Abnormal, NormalClosure}
               \/ code'[c] = disconnect[c]
               \/ code'[c] = GoingAway /\ reader[c] = "done"
        BY <1>1, <2>2, CodeComesFrom
      <3>2. CASE code'[c] \in {Abnormal, NormalClosure}
        BY <3>2
      <3>3. CASE code'[c] = disconnect[c]
        <4>1. disconnect[c] # GoingAway
          <5>1. disconnect[c] \in Signal
            BY <1>1 DEF TypeOK
          <5>2. GoingAway \notin Signal
            BY DEF Signal, NoSignal, Cleanup, CloseSlowClient
          <5>3. QED
            BY <5>1, <5>2
        <4>2. disconnect[c] = CloseSessionRevoked => c \in revoked
          BY <3>1 DEF Truthful, Shut
        <4>3. disconnect[c] = CloseTooManyConnections => Refused(c)'
          BY <1>1, RefusedForEver DEF Truthful
        <4>4. QED
          BY <1>2, <3>3, <4>1, <4>2, <4>3
      <3>4. CASE code'[c] = GoingAway /\ reader[c] = "done"
        BY <1>3, <3>4
      <3>5. QED
        BY <3>1, <3>2, <3>3, <3>4
    <2>3. QED
      BY <2>1, <2>2
  <1>7. QED
    BY <1>4, <1>5, <1>6

\* Whatever becomes ready at once in WritePump's select, the code the peer
\* sees is justified: 4401 was a revocation, 4429 a refusal, 1001 a handler
\* that has returned (hub.go:17-26, client.go:122-139).
THEOREM CloseCodesAlwaysJustified == Spec => []CloseCodesJustified
  <1>1. Init => ConnInv /\ Truthful
    BY DEF Init, HubInit, ConnInv, Truthful, CloseCodesJustified, NoSignal, NotClosed,
           CloseSessionRevoked, CloseTooManyConnections, GoingAway
  <1>2. Inv /\ QueueTypes /\ RegisteredOnce /\ ConnInv /\ Truthful /\ [Next]_vars
           => ConnInv' /\ Truthful'
    BY ConnFollowsReader, TruthKept
  <1>3. Spec => []Inv
    BY GatewayImplementsHub, Invariance, PTL DEF ImplementsHub
  <1>4. Truthful => CloseCodesJustified
    BY DEF Truthful
  <1>5. QED
    BY <1>1, <1>2, <1>3, <1>4, QueueInvariant, PTL DEF Spec
-----------------------------------------------------------------------------
(* The books of the hub after a connection has gone.                       *)

\* A registered client whose handler has returned, with nothing under way that
\* would unregister it: what DepartedIsForgotten says there is not.
Ghost(c) == c \in clients /\ reader[c] = "done" /\ evicting[c] = 0 /\ ~InUnregister(c)

GhostsComeLateAndStay ==
    [][\A c \in Client :
          /\ ~Ghost(c) /\ Ghost(c)' =>
                HubRegister /\ c = Head(register) /\ reader[c] = "done"
          /\ Ghost(c) /\ ~Ghost(c)' => evicting'[c] > 0]_vars

LEMMA ReaderFinishes ==
    ASSUME QueueTypes, [Next]_vars, NEW c \in Client
    PROVE  /\ reader[c] = "done" => reader'[c] = "done"
           /\ reader[c] # "done" /\ reader'[c] = "done" => PostUnregister(c)
  BY DEF QueueTypes, Next, Run, Reader, Writer, RequestStep, Accept, PostRegister, ReadFrame,
     PostRequest, ConnectionLost, HandshakeEnds, ReadFails, PostUnregister, WriteFrame,
     WriteFails, ApplyDisconnect, SendChannelClosed, LifetimeEnds, ContextDone,
     PingFails, writerExits, writerUnchanged, PostEviction, Deliver, HubRegister,
     HubUnregister, HubSubscribe, HubUnsubscribe, HubIncoming, readerVars, gatewayVars, vars

LEMMA ClientsChange ==
    ASSUME [Next]_vars, NEW c \in Client
    PROVE  /\ c \notin clients /\ c \in clients' => HubRegister /\ c = Head(register)
           /\ c \in clients /\ c \notin clients' => HubUnregister /\ c = Head(unregister)
  <1>1. CASE HubRegister
    BY <1>1 DEF HubRegister, handleRegister, refuse, admit
  <1>2. CASE HubUnregister
    BY <1>2 DEF HubUnregister, handleUnregister, hubVars
  <1>3. CASE UNCHANGED clients
    BY <1>3
  <1>4. QED
    BY <1>1, <1>2, <1>3 DEF Next, Run, Reader, Writer, RequestStep, Accept, PostRegister,
       ReadFrame, PostRequest, ConnectionLost, HandshakeEnds, ReadFails, PostUnregister,
       WriteFrame, takeFrame, WriteFails, ApplyDisconnect, SendChannelClosed, LifetimeEnds,
       ContextDone, PingFails, writerExits, writerUnchanged, PostEviction, postEviction,
       Deliver, HubSubscribe, handleClientSubscribe, HubUnsubscribe, handleClientUnsubscribe,
       HubIncoming, handleIncoming, hubMaps, hubVars, vars

\* An eviction is over when it stands on h.unregister.
LEMMA EvictionPosted ==
    ASSUME TypeOK, [Next]_vars, NEW c \in Client, evicting[c] > 0, evicting'[c] = 0
    PROVE  PostEviction(c)
  <1>1. ASSUME NEW S, NEW f, deliverFrames(S, f) PROVE FALSE
    BY <1>1 DEF deliverFrames, TypeOK
  <1>2. ASSUME NEW d \in Client, PostEviction(d) PROVE d = c
    BY <1>2 DEF PostEviction, postEviction, TypeOK
  <1>3. ASSUME UNCHANGED evicting PROVE FALSE
    BY <1>3
  <1>4. ASSUME HubRegister \/ HubUnregister \/ HubSubscribe \/ HubUnsubscribe \/ HubIncoming
        PROVE  FALSE
    BY <1>1, <1>3, <1>4 DEF HubRegister, handleRegister, HubUnregister, handleUnregister,
       HubSubscribe, handleClientSubscribe, HubUnsubscribe, handleClientUnsubscribe,
       HubIncoming, handleIncoming, handleControlMessage, hubVars, pumpVars
  <1>5. QED
    BY <1>2, <1>3, <1>4 DEF Next, Run, Reader, Writer, RequestStep, Accept, PostRegister,
       ReadFrame, PostRequest, ConnectionLost, HandshakeEnds, ReadFails, PostUnregister,
       WriteFrame, takeFrame, WriteFails, ApplyDisconnect, SendChannelClosed, LifetimeEnds,
       ContextDone, PingFails, writerExits, writerUnchanged, Deliver, hubVars, vars

\* An entry of h.unregister goes when the hub takes it, and not otherwise.
LEMMA UnregisterQueue ==
    ASSUME QueueTypes, [Next]_vars, NEW c \in Client
    PROVE  /\ InUnregister(c) /\ ~InUnregister(c)' => HubUnregister /\ c = Head(unregister)
           /\ PostUnregister(c) \/ PostEviction(c) => InUnregister(c)'
           /\ HubUnregister /\ c = Head(unregister) => InUnregister(c) /\ c \notin clients'
  <1>1. ASSUME NEW d \in Client, unregister' = Append(unregister, d)
        PROVE  InUnregister(d)' /\ (InUnregister(c) => InUnregister(c)')
    <2>1. /\ Len(unregister') = Len(unregister) + 1
          /\ Len(unregister) \in Nat
          /\ \A i \in 1..Len(unregister) : unregister'[i] = unregister[i]
          /\ unregister'[Len(unregister) + 1] = d
      BY <1>1, AppendFacts DEF QueueTypes
    <2>2. \A i \in 1..Len(unregister) : i \in 1..Len(unregister')
      BY <2>1
    <2>3. Len(unregister) + 1 \in 1..Len(unregister')
      BY <2>1
    <2>4. QED
      BY <2>1, <2>2, <2>3 DEF InUnregister
  <1>2. ASSUME HubUnregister
        PROVE  /\ InUnregister(c) /\ ~InUnregister(c)' => c = Head(unregister)
               /\ InUnregister(Head(unregister)) /\ Head(unregister) \notin clients'
    <2>1. unregister # <<>> /\ unregister' = Tail(unregister)
      BY <1>2 DEF HubUnregister
    <2>2. /\ Head(unregister) = unregister[1]
          /\ 1 \in 1..Len(unregister)
          /\ Len(unregister) \in Nat
          /\ Len(unregister') = Len(unregister) - 1
          /\ \A i \in 1..Len(unregister') : unregister'[i] = unregister[i+1]
      BY <2>1, TailFacts DEF QueueTypes
    <2>3. ASSUME NEW i \in 1..Len(unregister), i # 1
          PROVE  i - 1 \in 1..Len(unregister') /\ unregister'[i - 1] = unregister[i]
      BY <2>2, <2>3
    <2>4. InUnregister(c) /\ ~InUnregister(c)' => c = Head(unregister)
      BY <2>2, <2>3 DEF InUnregister
    <2>5. Head(unregister) \notin clients'
      BY <1>2 DEF HubUnregister, handleUnregister, hubVars
    <2>6. QED
      BY <2>2, <2>4, <2>5 DEF InUnregister
  <1>3. ASSUME UNCHANGED unregister PROVE InUnregister(c) => InUnregister(c)'
    BY <1>3 DEF InUnregister
  <1>4. ASSUME NEW d \in Client, PostUnregister(d) \/ PostEviction(d)
        PROVE  InUnregister(d)' /\ (InUnregister(c) => InUnregister(c)')
    BY <1>1, <1>4 DEF PostUnregister, PostEviction
  <1>5. InUnregister(c) /\ ~InUnregister(c)' => HubUnregister
    BY <1>3, <1>4 DEF Next, Run, Reader, Writer, RequestStep, Accept, PostRegister,
       ReadFrame, PostRequest, ConnectionLost, HandshakeEnds, ReadFails, WriteFrame,
       WriteFails, ApplyDisconnect, SendChannelClosed, LifetimeEnds, ContextDone, PingFails,
       writerExits, writerUnchanged, Deliver, HubRegister, HubSubscribe, HubUnsubscribe,
       HubIncoming, queues, gatewayVars, vars
  <1>6. QED
    BY <1>2, <1>4, <1>5

\* Where the entries of DepartedIsForgotten's counterexample come from: the hub
\* takes the registration of a client whose handler has already returned and
\* whose unregistration it took first.  There is no other way, and no way out
\* but the eviction of a full send buffer (hub.go:136-153, 306-317,
\* client.go:67-72, main.go:117).
THEOREM GhostsAreLateRegistrations == Spec => GhostsComeLateAndStay
  <1>1. ASSUME TypeOK, TypeOK', QueueTypes, [Next]_vars, NEW c \in Client
        PROVE  /\ ~Ghost(c) /\ Ghost(c)' =>
                     HubRegister /\ c = Head(register) /\ reader[c] = "done"
               /\ Ghost(c) /\ ~Ghost(c)' => evicting'[c] > 0
    <2>1. ASSUME ~Ghost(c), Ghost(c)'
          PROVE  HubRegister /\ c = Head(register) /\ reader[c] = "done"
      <3>1. reader[c] = "done"
        BY <1>1, <2>1, ReaderFinishes, UnregisterQueue DEF Ghost
      <3>2. evicting[c] = 0
        <4>1. ~PostEviction(c)
          BY <1>1, <2>1, UnregisterQueue DEF Ghost
        <4>2. evicting[c] \in Nat /\ evicting'[c] = 0
          BY <1>1, <2>1 DEF TypeOK, Ghost
        <4>3. QED
          BY <1>1, <4>1, <4>2, EvictionPosted
      <3>3. ~InUnregister(c)
        BY <1>1, <2>1, UnregisterQueue DEF Ghost
      <3>4. QED
        BY <1>1, <2>1, <3>1, <3>2, <3>3, ClientsChange DEF Ghost
    <2>2. ASSUME Ghost(c), ~Ghost(c)'
          PROVE  evicting'[c] > 0
      <3>1. c \in clients' /\ reader'[c] = "done"
        BY <1>1, <2>2, ClientsChange, UnregisterQueue, ReaderFinishes DEF Ghost
      <3>2. ~InUnregister(c)'
        <4>1. ~PostUnregister(c) /\ ~PostEviction(c)
          BY <2>2 DEF Ghost, PostUnregister, PostEviction, postEviction
        <4>2. QED
          BY <1>1, <2>2, <4>1, UnregisterComesFrom DEF Ghost
      <3>3. evicting'[c] \in Nat /\ evicting'[c] # 0
        BY <1>1, <2>2, <3>1, <3>2 DEF TypeOK, Ghost
      <3>4. QED
        BY <3>3
    <2>3. QED
      BY <2>1, <2>2
  <1>2. TypeOK /\ TypeOK' /\ QueueTypes /\ [Next]_vars
           => [\A c \in Client :
                 /\ ~Ghost(c) /\ Ghost(c)' =>
                       HubRegister /\ c = Head(register) /\ reader[c] = "done"
                 /\ Ghost(c) /\ ~Ghost(c)' => evicting'[c] > 0]_vars
    BY <1>1
  <1>3. QED
    BY <1>2, QueueInvariant, GatewayKeepsHubInvariants, PTL DEF Spec, GhostsComeLateAndStay
-----------------------------------------------------------------------------
(* What a revocation reaches.                                              *)

\* The hub takes up a revocation of the session or of the user of c.
TakesRevocationOf(c) ==
    /\ HubIncoming
    /\ Head(incoming).channel \in ControlOf(c)
    /\ Head(incoming).payload \in RevokePayload

NoneEscapes == [][\A c \in clients : TakesRevocationOf(c) => c \in revoked' \/ Shut(c)]_vars

\* A revocation the hub takes up finds every registered connection of its
\* session or user: those that are open when it does are revoked, which by
\* NoAbandonedConnection means that a close is before them until they shut,
\* whatever else they have asked for and however full their buffers are.  The
\* peers must not name control channels: see RegisteredAlwaysRevocable
\* (hub.go:281-304).
THEOREM RevocationsReachAll ==
    ASSUME Requested \cap Control = {}
    PROVE  Spec => NoneEscapes
  <1>1. ASSUME Inv, Revocable, QueueTypes, RegisteredOnce, ConnInv,
               NEW c \in clients, TakesRevocationOf(c)
        PROVE  c \in revoked' \/ Shut(c)
    <2> DEFINE ch == Head(incoming).channel
    <2>1. c \in Client /\ c \in announced
      BY <1>1 DEF Inv, TypeOK, Lifecycle
    <2>2. ch \in Control /\ ch \in Channel /\ ch \in subscribed[c]
      BY <1>1, <2>1, ControlChannels DEF TakesRevocationOf, Revocable
    <2>3. c \in channels[ch]
      BY <1>1, <2>1, <2>2 DEF Inv, IndexesAgree
    <2>4. conn[c] # "none"
      BY <1>1, <2>1 DEF RegisteredOnce, ConnInv
    <2>5. CASE conn[c] = "open"
      BY <1>1, <2>1, <2>2, <2>3, <2>5 DEF TakesRevocationOf, HubIncoming, Revokes
    <2>6. CASE conn[c] # "open"
      BY <1>1, <2>1, <2>4, <2>6 DEF ConnInv, Shut
    <2>7. QED
      BY <2>5, <2>6
  <1>2. Inv /\ Revocable /\ QueueTypes /\ RegisteredOnce /\ ConnInv /\ [Next]_vars
           => [\A c \in clients : TakesRevocationOf(c) => c \in revoked' \/ Shut(c)]_vars
    BY <1>1
  <1>3. Init => ConnInv
    BY DEF Init, ConnInv
  <1>4. QueueTypes /\ ConnInv /\ [Next]_vars => ConnInv'
    BY ConnFollowsReader
  <1>5. HubSpec => []Revocable
    BY RegisteredAlwaysRevocable
  <1>6. QED
    BY <1>2, <1>3, <1>4, <1>5, QueueInvariant, GatewayImplementsHub, Invariance,
       PTL DEF Spec, ImplementsHub, NoneEscapes
-----------------------------------------------------------------------------
(* The gateway with the history variable of HubHistory: what the broker    *)
(* promises, the running gateway keeps.                                    *)

\* heard records the message the hub takes from h.incoming, if it has an
\* audience.  It is read by no step.
HeardNext ==
    /\ Next
    /\ heard' = IF Len(incoming') < Len(incoming) /\ channels[Head(incoming).channel] # {}
                THEN <<Head(incoming), 1 - heard[2]>> ELSE heard

HeardSpec == Init /\ heard = <<Nothing, 0>> /\ [][HeardNext]_<<vars, heard>>

\* The messages from Redis wait in h.incoming until the hub takes them.
LEMMA IncomingQueue ==
    ASSUME QueueTypes, [Next]_vars
    PROVE  Len(incoming') < Len(incoming) <=> HubIncoming
  <1>0. Len(incoming) \in Nat
    BY DEF QueueTypes
  <1>1. CASE HubIncoming
    <2>1. incoming # <<>> /\ incoming' = Tail(incoming)
      BY <1>1 DEF HubIncoming
    <2>2. Len(incoming') = Len(incoming) - 1
      BY <2>1, TailFacts DEF QueueTypes
    <2>3. QED
      BY <1>0, <1>1, <2>2
  <1>2. ASSUME NEW m \in Message, Deliver(m)
        PROVE  Len(incoming') = Len(incoming) + 1
    BY <1>2, AppendFacts DEF Deliver, QueueTypes
  <1>3. CASE UNCHANGED incoming /\ ~HubIncoming
    BY <1>0, <1>3
  <1>4. UNCHANGED incoming \/ HubIncoming \/ \E m \in Message : Deliver(m)
    BY DEF Next, Run, Reader, Writer, RequestStep, Accept, PostRegister, ReadFrame,
       PostRequest, ConnectionLost, HandshakeEnds, ReadFails, PostUnregister, WriteFrame,
       WriteFails, ApplyDisconnect, SendChannelClosed, LifetimeEnds, ContextDone,
       PingFails, writerExits, writerUnchanged, PostEviction, HubRegister,
       HubUnregister, HubSubscribe, HubUnsubscribe, queues, gatewayVars, vars
  <1>5. QED
    BY <1>0, <1>1, <1>2, <1>3, <1>4

\* The promises of PubSub hold of the process as it runs, with its goroutines,
\* its five Go channels and its selects: every step of it is one step of the
\* broker or none (hub.go:136-341, client.go:33-158).
THEOREM GatewayImplementsPubSub == HeardSpec => HubImplementsPubSub
  <1>1. HeardSpec => Spec
    <2>1. [HeardNext]_<<vars, heard>> => [Next]_vars
      BY DEF HeardNext
    <2>2. QED
      BY <2>1, PTL DEF HeardSpec, Spec
  <1>2. Init /\ heard = <<Nothing, 0>> => HistoryInit
    BY DEF Init, HistoryInit
  <1>3. QueueTypes /\ RegisteredOnce /\ [HeardNext]_<<vars, heard>>
           => [HistoryNext]_historyVars
    <2> SUFFICES ASSUME QueueTypes, RegisteredOnce, [HeardNext]_<<vars, heard>>
                 PROVE  HistoryNext \/ UNCHANGED historyVars
      OBVIOUS
    <2>1. [Next]_vars
      BY DEF HeardNext
    <2>2. CASE HeardNext /\ HubIncoming
      <3>1. Head(incoming) \in Message /\ handleIncoming(Head(incoming))
        BY <2>2, TailFacts DEF HubIncoming, QueueTypes
      <3>2. heard' = IF channels[Head(incoming).channel] = {} THEN heard
                     ELSE <<Head(incoming), 1 - heard[2]>>
        BY <2>1, <2>2, IncomingQueue DEF HeardNext
      <3>3. QED
        BY <3>1, <3>2 DEF HistoryNext
    <2>3. CASE HeardNext /\ ~HubIncoming
      <3>1. heard' = heard
        BY <2>1, <2>3, IncomingQueue DEF HeardNext
      <3>2. QED
        BY <2>1, <2>3, <3>1, StepButIncoming DEF HistoryNext, historyVars
    <2>4. CASE UNCHANGED <<vars, heard>>
      BY <2>4 DEF vars, historyVars
    <2>5. QED
      BY <2>2, <2>3, <2>4
  <1>4. HeardSpec => HistorySpec
    BY <1>1, <1>2, <1>3, QueueInvariant, PTL DEF HeardSpec, HistorySpec
  <1>5. QED
    BY <1>4, HubAlwaysImplementsPubSub, PTL
=============================================================================
