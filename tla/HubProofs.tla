----------------------------- MODULE HubProofs -----------------------------
(***************************************************************************)
(* Proofs about module Hub: type correctness and the safety invariants of  *)
(* the hub for any number of clients, users, channels and messages, any    *)
(* caps and any buffer size.                                               *)
(***************************************************************************)
EXTENDS Hub, TLAPS, FiniteSetTheorems, SequenceTheorems

-----------------------------------------------------------------------------
(* What the helpers of the handlers return.                                *)

\* disconnectClient writes a signal only.
LEMMA SignalledType ==
    ASSUME disconnect \in [Client -> Signal], NEW S, NEW d \in Signal
    PROVE  Signalled(S, d) \in [Client -> Signal]
  BY DEF Signalled

\* The control channels of a client are channels.
LEMMA ControlChannels ==
    ASSUME NEW c \in Client
    PROVE  ControlOf(c) \subseteq Control /\ ControlOf(c) \subseteq Channel
  BY ConnectionAssumption, ChannelAssumption DEF ControlOf

\* deliverFrames keeps the types of what it changes; the buffers of clients
\* that are not full grow by one.
LEMMA DeliverTypes ==
    ASSUME TypeOK, NEW S, NEW f \in Frame, deliverFrames(S, f)
    PROVE  /\ send' \in [Client -> Seq(Frame)]
           /\ \A c \in Client : Len(send'[c]) <= SendCap
           /\ disconnect' \in [Client -> Signal]
           /\ evicting' \in [Client -> Nat]
           /\ sendClosed' \subseteq Client
           /\ stopped' \subseteq Client
  <1>1. send' \in [Client -> Seq(Frame)]
    BY DEF deliverFrames, TypeOK
  <1>2. ASSUME NEW c \in Client
        PROVE  Len(send'[c]) <= SendCap
    <2>1. send[c] \in Seq(Frame) /\ Len(send[c]) <= SendCap
      BY DEF TypeOK
    <2>2. CASE c \in S \ Full(S)
      <3>1. ~(Len(send[c]) >= SendCap)
        BY <2>2 DEF Full
      <3>2. send'[c] = Append(send[c], f)
        BY <2>2 DEF deliverFrames
      <3>3. QED
        BY <2>1, <3>1, <3>2, ConnectionAssumption
    <2>3. CASE c \notin S \ Full(S)
      BY <2>1, <2>3 DEF deliverFrames
    <2>4. QED
      BY <2>2, <2>3
  <1>3. disconnect' \in [Client -> Signal]
    BY SignalledType DEF deliverFrames, TypeOK, Signal
  <1>4. evicting' \in [Client -> Nat]
    BY DEF deliverFrames, TypeOK
  <1>5. QED
    BY <1>1, <1>2, <1>3, <1>4 DEF deliverFrames, TypeOK

\* The maps of the hub keep their types.
LEMMA AddTypes ==
    ASSUME TypeOK, NEW c \in Client, NEW S \in SUBSET Channel,
           addSubscriptions(c, S)
    PROVE  /\ channels' \in [Channel -> SUBSET Client]
           /\ subscribed' \in [Client -> SUBSET Channel]
           /\ manager' \subseteq Channel
  BY DEF addSubscriptions, TypeOK

LEMMA RemoveTypes ==
    ASSUME TypeOK, NEW c \in Client, NEW S \in SUBSET Channel,
           removeFromChannels(c, S)
    PROVE  /\ channels' \in [Channel -> SUBSET Client]
           /\ manager' \subseteq Channel
  BY DEF removeFromChannels, TypeOK

-----------------------------------------------------------------------------
\* TypeOK holds in every state of the hub: in particular every send buffer
\* stays within its capacity, so deliverFrame never blocks (hub.go:306-317).
THEOREM TypeCorrect == HubSpec => []TypeOK
  <1>1. HubInit => TypeOK
    BY ConnectionAssumption, ChannelAssumption DEF HubInit, TypeOK, Signal
  <1>2. TypeOK /\ [HubNext]_hubVars => TypeOK'
    <2> SUFFICES ASSUME TypeOK, [HubNext]_hubVars
                 PROVE  TypeOK'
      OBVIOUS
    <2>1. ASSUME NEW c \in Client, handleRegister(c)
          PROVE  TypeOK'
      <3>1. CASE refuse(c)
        <4>1. disconnect' \in [Client -> Signal]
          BY <3>1, SignalledType DEF refuse, TypeOK, Signal
        <4>2. QED
          BY <2>1, <3>1, <4>1 DEF handleRegister, refuse, TypeOK
      <3>2. CASE admit(c)
        <4>1. ControlOf(c) \in SUBSET Channel
          BY ControlChannels
        <4>2. /\ channels' \in [Channel -> SUBSET Client]
              /\ subscribed' \in [Client -> SUBSET Channel]
              /\ manager' \subseteq Channel
          BY <3>2, <4>1, AddTypes DEF admit
        <4>3. userClients' \in [User -> SUBSET Client]
          BY <3>2, ConnectionAssumption DEF admit, TypeOK
        <4>4. QED
          BY <2>1, <3>2, <4>2, <4>3 DEF handleRegister, admit, TypeOK
      <3>3. QED
        BY <2>1, <3>1, <3>2 DEF handleRegister
    <2>2. ASSUME NEW c \in Client, handleUnregister(c)
          PROVE  TypeOK'
      <3>1. CASE c \notin clients
        BY <2>2, <3>1 DEF handleUnregister, hubVars, TypeOK
      <3>2. CASE c \in clients
        <4>1. subscribed[c] \in SUBSET Channel
          BY DEF TypeOK
        <4>2. /\ channels' \in [Channel -> SUBSET Client]
              /\ manager' \subseteq Channel
          BY <2>2, <3>2, <4>1, RemoveTypes DEF handleUnregister
        <4>3. disconnect' \in [Client -> Signal]
          BY <2>2, <3>2, SignalledType DEF handleUnregister, TypeOK, Signal
        <4>4. userClients' = [userClients EXCEPT ![UserOf[c]] = @ \ {c}]
          BY <2>2, <3>2 DEF handleUnregister
        <4>5. userClients' \in [User -> SUBSET Client]
          BY <4>4 DEF TypeOK
        <4>6. QED
          BY <2>2, <3>2, <4>2, <4>3, <4>5 DEF handleUnregister, TypeOK
      <3>3. QED
        BY <3>1, <3>2
    <2>3. ASSUME NEW c \in Client, NEW ch \in Requested, handleClientSubscribe(c, ch)
          PROVE  TypeOK'
      <3>1. ch \in Channel
        BY ChannelAssumption
      <3>2. CASE UNCHANGED hubVars
        BY <3>2 DEF hubVars, TypeOK
      <3>3. ASSUME NEW r \in {"invalid_channel", "forbidden"},
                   deliverFrames({c}, [channel |-> ch, reason |-> r]),
                   UNCHANGED hubMaps
            PROVE  TypeOK'
        <4>1. [channel |-> ch, reason |-> r] \in Frame
          BY <3>1 DEF Frame, ErrorFrame
        <4>2. QED
          BY <3>3, <4>1, DeliverTypes DEF hubMaps, TypeOK
      <3>4. CASE /\ addSubscriptions(c, {ch})
                 /\ UNCHANGED <<clients, userClients, announced>>
                 /\ UNCHANGED pumpVars
        BY <3>1, <3>4, AddTypes DEF pumpVars, TypeOK
      <3>5. QED
        BY <2>3, <3>2, <3>3, <3>4 DEF handleClientSubscribe
    <2>4. ASSUME NEW c \in Client, NEW ch \in Requested, handleClientUnsubscribe(c, ch)
          PROVE  TypeOK'
      <3>1. ch \in Channel
        BY ChannelAssumption
      <3>2. CASE UNCHANGED hubVars
        BY <3>2 DEF hubVars, TypeOK
      <3>3. CASE /\ subscribed' = [subscribed EXCEPT ![c] = @ \ {ch}]
                 /\ removeFromChannels(c, {ch})
                 /\ UNCHANGED <<clients, userClients, announced>>
                 /\ UNCHANGED pumpVars
        <4>1. subscribed' \in [Client -> SUBSET Channel]
          BY <3>3 DEF TypeOK
        <4>2. QED
          BY <3>1, <3>3, <4>1, RemoveTypes DEF pumpVars, TypeOK
      <3>4. QED
        BY <2>4, <3>2, <3>3 DEF handleClientUnsubscribe
    <2>5. ASSUME NEW m \in Message, handleIncoming(m)
          PROVE  TypeOK'
      <3>1. CASE handleControlMessage(m)
        <4>1. disconnect' \in [Client -> Signal]
          BY <3>1, SignalledType DEF handleControlMessage, TypeOK, Signal
        <4>2. QED
          BY <2>5, <3>1, <4>1 DEF handleIncoming, handleControlMessage, hubMaps, TypeOK
      <3>2. CASE deliverFrames(channels[m.channel], m)
        BY <2>5, <3>2, DeliverTypes DEF handleIncoming, hubMaps, Frame, TypeOK
      <3>3. QED
        BY <2>5, <3>1, <3>2 DEF handleIncoming
    <2>6. ASSUME NEW c \in Client, takeFrame(c)
          PROVE  TypeOK'
      <3>1. Tail(send[c]) \in Seq(Frame) /\ Len(Tail(send[c])) <= SendCap
        BY <2>6, ConnectionAssumption DEF takeFrame, TypeOK
      <3>2. QED
        BY <2>6, <3>1 DEF takeFrame, hubMaps, TypeOK
    <2>7. ASSUME NEW c \in Client, writerReturns(c)
          PROVE  TypeOK'
      <3>1. send[c] # <<>> => /\ Tail(send[c]) \in Seq(Frame)
                              /\ Len(Tail(send[c])) <= SendCap
        BY ConnectionAssumption DEF TypeOK
      <3>2. QED
        BY <2>7, <3>1 DEF writerReturns, hubMaps, TypeOK, Signal
    <2>8. ASSUME NEW c \in Client, postEviction(c)
          PROVE  TypeOK'
      BY <2>8 DEF postEviction, hubMaps, TypeOK
    <2>9. CASE UNCHANGED hubVars
      BY <2>9 DEF hubVars, TypeOK
    <2>10. QED
      BY <2>1, <2>2, <2>3, <2>4, <2>5, <2>6, <2>7, <2>8, <2>9 DEF HubNext, ConnectionStep
  <1>3. QED
    BY <1>1, <1>2, PTL DEF HubSpec
-----------------------------------------------------------------------------
(* The indexes of the hub.                                                 *)

\* What IndexesAgree says of h.channels and the clients' own records.
ChannelsAgree ==
    \A c \in Client, ch \in Channel :
        c \in channels[ch] <=> (c \in clients /\ ch \in subscribed[c])

UsersAgree == \A u \in User : userClients[u] = {c \in clients : UserOf[c] = u}

\* Registration is the first thing the hub hears of a client and happens once:
\* a client that left has been announced, and an unannounced one has no
\* subscription and an open send channel.
Lifecycle ==
    /\ clients \subseteq announced
    /\ sendClosed \subseteq announced \ clients
    /\ \A c \in Client \ announced : subscribed[c] = {}

\* A client that is registered, or is being registered with no subscription
\* to its name, may join channels.
LEMMA AddAgrees ==
    ASSUME TypeOK, ChannelsAgree, NEW c \in Client, NEW S \in SUBSET Channel,
           addSubscriptions(c, S), clients' = clients \cup {c},
           c \in clients \/ subscribed[c] = {}
    PROVE  ChannelsAgree'
  <1> SUFFICES ASSUME NEW d \in Client, NEW ch \in Channel
               PROVE  d \in channels'[ch] <=> (d \in clients' /\ ch \in subscribed'[d])
    BY DEF ChannelsAgree
  <1>1. channels'[ch] = IF ch \in S \ subscribed[c] THEN channels[ch] \cup {c} ELSE channels[ch]
    BY DEF addSubscriptions
  <1>2. subscribed'[d] = IF d = c THEN subscribed[c] \cup S ELSE subscribed[d]
    BY DEF addSubscriptions, TypeOK
  <1>3. d \in channels[ch] <=> (d \in clients /\ ch \in subscribed[d])
    BY DEF ChannelsAgree
  <1>4. c \in channels[ch] <=> (c \in clients /\ ch \in subscribed[c])
    BY DEF ChannelsAgree
  <1>5. QED
    BY <1>1, <1>2, <1>3, <1>4

\* The three indexes agree in every state, whatever the order in which the
\* handlers run (hub.go:86-91, 155-269).
LEMMA IndexesInductive ==
    ASSUME TypeOK, Lifecycle, ChannelsAgree, UsersAgree, [HubNext]_hubVars
    PROVE  Lifecycle' /\ ChannelsAgree' /\ UsersAgree'
  <1>1. ASSUME NEW c \in Client \ announced, handleRegister(c)
        PROVE  Lifecycle' /\ ChannelsAgree' /\ UsersAgree'
    <2>1. CASE refuse(c)
      BY <1>1, <2>1 DEF handleRegister, refuse, Lifecycle, ChannelsAgree, UsersAgree
    <2>2. CASE admit(c)
      <3>1. c \notin announced /\ c \notin clients /\ subscribed[c] = {}
        BY DEF Lifecycle
      <3>2. ControlOf(c) \in SUBSET Channel
        BY ControlChannels
      <3>3. ChannelsAgree'
        BY <2>2, <3>1, <3>2, AddAgrees DEF admit
      <3>4. UsersAgree'
        BY <2>2, ConnectionAssumption DEF admit, UsersAgree, TypeOK
      <3>5. \A d \in Client \ announced' : subscribed'[d] = {}
        BY <1>1, <2>2 DEF handleRegister, admit, addSubscriptions, Lifecycle, TypeOK
      <3>6. Lifecycle'
        BY <1>1, <2>2, <3>1, <3>5 DEF handleRegister, admit, Lifecycle
      <3>7. QED
        BY <3>3, <3>4, <3>6
    <2>3. QED
      BY <1>1, <2>1, <2>2 DEF handleRegister
  <1>2. ASSUME NEW c \in Client, handleUnregister(c)
        PROVE  Lifecycle' /\ ChannelsAgree' /\ UsersAgree'
    <2>1. CASE c \notin clients
      BY <1>2, <2>1 DEF handleUnregister, hubVars, Lifecycle, ChannelsAgree, UsersAgree
    <2>2. CASE c \in clients
      <3>1. Lifecycle'
        BY <1>2, <2>2 DEF handleUnregister, Lifecycle
      <3>2. UsersAgree'
        BY <1>2, <2>2, ConnectionAssumption DEF handleUnregister, UsersAgree, TypeOK
      <3>3. ChannelsAgree'
        BY <1>2, <2>2 DEF handleUnregister, removeFromChannels, ChannelsAgree
      <3>4. QED
        BY <3>1, <3>2, <3>3
    <2>3. QED
      BY <2>1, <2>2
  <1>3. ASSUME NEW c \in Client, NEW ch \in Requested, handleClientSubscribe(c, ch)
        PROVE  Lifecycle' /\ ChannelsAgree' /\ UsersAgree'
    <2>1. CASE UNCHANGED hubVars
      BY <2>1 DEF hubVars, Lifecycle, ChannelsAgree, UsersAgree
    <2>2. ASSUME NEW f, deliverFrames({c}, f), UNCHANGED hubMaps
          PROVE  Lifecycle' /\ ChannelsAgree' /\ UsersAgree'
      BY <2>2 DEF deliverFrames, hubMaps, Lifecycle, ChannelsAgree, UsersAgree
    <2>3. CASE /\ c \in clients
               /\ addSubscriptions(c, {ch})
               /\ UNCHANGED <<clients, userClients, announced>>
               /\ UNCHANGED pumpVars
      <3>1. {ch} \in SUBSET Channel /\ clients' = clients \cup {c}
        BY <2>3, ChannelAssumption
      <3>2. ChannelsAgree'
        BY <2>3, <3>1, AddAgrees
      <3>3. Lifecycle'
        BY <2>3 DEF addSubscriptions, pumpVars, Lifecycle, TypeOK
      <3>4. QED
        BY <2>3, <3>2, <3>3 DEF UsersAgree
    <2>4. QED
      BY <1>3, <2>1, <2>2, <2>3 DEF handleClientSubscribe
  <1>4. ASSUME NEW c \in Client, NEW ch \in Requested, handleClientUnsubscribe(c, ch)
        PROVE  Lifecycle' /\ ChannelsAgree' /\ UsersAgree'
    <2>1. CASE UNCHANGED hubVars
      BY <2>1 DEF hubVars, Lifecycle, ChannelsAgree, UsersAgree
    <2>2. CASE /\ c \in clients
               /\ subscribed' = [subscribed EXCEPT ![c] = @ \ {ch}]
               /\ removeFromChannels(c, {ch})
               /\ UNCHANGED <<clients, userClients, announced>>
               /\ UNCHANGED pumpVars
      <3>1. Lifecycle'
        BY <2>2 DEF pumpVars, Lifecycle, TypeOK
      <3>2. ChannelsAgree'
        BY <2>2 DEF removeFromChannels, ChannelsAgree, TypeOK
      <3>3. QED
        BY <2>2, <3>1, <3>2 DEF UsersAgree
    <2>3. QED
      BY <1>4, <2>1, <2>2 DEF handleClientUnsubscribe
  <1>5. ASSUME NEW m \in Message, handleIncoming(m)
        PROVE  Lifecycle' /\ ChannelsAgree' /\ UsersAgree'
    BY <1>5 DEF handleIncoming, handleControlMessage, deliverFrames, hubMaps,
                Lifecycle, ChannelsAgree, UsersAgree
  <1>6. ASSUME NEW c \in Client, takeFrame(c) \/ writerReturns(c) \/ postEviction(c)
        PROVE  Lifecycle' /\ ChannelsAgree' /\ UsersAgree'
    BY <1>6 DEF takeFrame, writerReturns, postEviction, hubMaps,
                Lifecycle, ChannelsAgree, UsersAgree
  <1>7. CASE UNCHANGED hubVars
    BY <1>7 DEF hubVars, Lifecycle, ChannelsAgree, UsersAgree
  <1>8. QED
    BY <1>1, <1>2, <1>3, <1>4, <1>5, <1>6, <1>7 DEF HubNext, ConnectionStep

\* The inductive invariant behind the next theorems.
Inv == TypeOK /\ Lifecycle /\ IndexesAgree

LEMMA Invariance == HubSpec => []Inv
  <1>1. IndexesAgree <=> ChannelsAgree /\ UsersAgree
    BY DEF IndexesAgree, ChannelsAgree, UsersAgree
  <1>2. HubInit => Lifecycle /\ IndexesAgree
    BY DEF HubInit, Lifecycle, IndexesAgree
  <1>3. TypeOK /\ Lifecycle /\ IndexesAgree /\ [HubNext]_hubVars
           => Lifecycle' /\ IndexesAgree'
    BY <1>1, IndexesInductive DEF IndexesAgree, ChannelsAgree, UsersAgree
  <1>4. QED
    BY <1>2, <1>3, TypeCorrect, PTL DEF HubSpec, Inv

\* h.clients, h.userClients, h.channels and c.subscribed describe the same
\* connections in every state (hub.go:86-101).
THEOREM IndexesAlwaysAgree == HubSpec => []IndexesAgree
  BY Invariance, PTL DEF Inv

\* No reachable state lets deliverFrame send on a closed channel, which would
\* panic in the hub goroutine (hub.go:306-309, 343-346).
THEOREM NeverSendsOnClosed == HubSpec => []NoSendOnClosed
  <1>1. Inv => NoSendOnClosed
    BY DEF Inv, TypeOK, Lifecycle, IndexesAgree, NoSendOnClosed
  <1>2. QED
    BY <1>1, Invariance, PTL
-----------------------------------------------------------------------------
(* Caps.                                                                   *)

\* One registration keeps a set of clients under a cap it was below.
LEMMA AddUnderCap ==
    ASSUME NEW S, IsFiniteSet(S), NEW c, NEW cap \in Int,
           ~(cap > 0 /\ Cardinality(S) >= cap)
    PROVE  /\ IsFiniteSet(S \cup {c})
           /\ cap > 0 => Cardinality(S \cup {c}) <= cap
  <1>1. Cardinality(S) \in Nat
    BY FS_CardinalityType
  <1>2. /\ IsFiniteSet(S \cup {c})
        /\ \/ Cardinality(S \cup {c}) = Cardinality(S)
           \/ Cardinality(S \cup {c}) = Cardinality(S) + 1
    BY FS_AddElement
  <1>3. QED
    BY <1>1, <1>2

\* Removing clients does not bring a set over a cap.
LEMMA ShrinkUnderCap ==
    ASSUME NEW S, IsFiniteSet(S), NEW T \in SUBSET S, NEW cap \in Int,
           Cardinality(S) <= cap
    PROVE  Cardinality(T) <= cap
  <1>1. Cardinality(S) \in Nat /\ Cardinality(T) \in Nat /\ Cardinality(T) <= Cardinality(S)
    BY FS_Subset, FS_CardinalityType
  <1>2. QED
    BY <1>1

\* Neither cap is ever exceeded (hub.go:155-165): refusals and admissions are
\* decided by the goroutine that owns the sets they are decided on.
THEOREM CapsAlwaysHold == HubSpec => []CapsHold
  <1>1. HubInit => CapsHold
    <2> SUFFICES ASSUME HubInit PROVE CapsHold
      OBVIOUS
    <2>1. Cardinality(clients) = 0 /\ \A u \in User : Cardinality(userClients[u]) = 0
      BY FS_EmptySet DEF HubInit
    <2>2. QED
      BY <2>1, ConnectionAssumption DEF CapsHold
  <1>2. TypeOK /\ CapsHold /\ [HubNext]_hubVars => CapsHold'
    <2> SUFFICES ASSUME TypeOK, CapsHold, [HubNext]_hubVars
                 PROVE  CapsHold'
      OBVIOUS
    <2>1. IsFiniteSet(clients) /\ \A u \in User : IsFiniteSet(userClients[u])
      <3>1. clients \in SUBSET Client /\ \A u \in User : userClients[u] \in SUBSET Client
        BY DEF TypeOK
      <3>2. QED
        BY <3>1, FS_Subset, ConnectionAssumption
    <2>2. CASE UNCHANGED <<clients, userClients>>
      BY <2>2 DEF CapsHold
    <2>3. ASSUME NEW c \in Client, admit(c)
          PROVE  CapsHold'
      <3>1. UserOf[c] \in User
        BY ConnectionAssumption
      <3>2. MaxConnectionsTotal > 0 => Cardinality(clients') <= MaxConnectionsTotal
        BY <2>1, <2>3, AddUnderCap, ConnectionAssumption DEF admit, AtTotalCap
      <3>3. ASSUME NEW u \in User, MaxConnectionsPerUser > 0
            PROVE  Cardinality(userClients'[u]) <= MaxConnectionsPerUser
        <4>1. CASE u = UserOf[c]
          <5>1. userClients'[u] = userClients[u] \cup {c}
            BY <2>3, <4>1, <3>1 DEF admit, TypeOK
          <5>2. ~(MaxConnectionsPerUser > 0 /\ Cardinality(userClients[u]) >= MaxConnectionsPerUser)
            BY <2>3, <4>1 DEF admit, AtUserCap
          <5>3. QED
            BY <2>1, <3>3, <5>1, <5>2, AddUnderCap, ConnectionAssumption
        <4>2. CASE u # UserOf[c]
          <5>1. userClients'[u] = userClients[u]
            BY <2>3, <4>2 DEF admit, TypeOK
          <5>2. QED
            BY <3>3, <5>1 DEF CapsHold
        <4>3. QED
          BY <4>1, <4>2
      <3>4. QED
        BY <3>2, <3>3, <2>3 DEF CapsHold
    <2>4. ASSUME NEW c \in Client, c \in clients, handleUnregister(c)
          PROVE  CapsHold'
      <3>1. clients' = clients \ {c}
        BY <2>4 DEF handleUnregister
      <3>2. userClients' = [userClients EXCEPT ![UserOf[c]] = @ \ {c}]
        BY <2>4 DEF handleUnregister
      <3>3. \A u \in User : userClients'[u] \in SUBSET userClients[u]
        BY <3>2 DEF TypeOK
      <3>4. MaxConnectionsTotal > 0 => Cardinality(clients') <= MaxConnectionsTotal
        BY <2>1, <3>1, ShrinkUnderCap, ConnectionAssumption DEF CapsHold
      <3>5. ASSUME NEW u \in User, MaxConnectionsPerUser > 0
            PROVE  Cardinality(userClients'[u]) <= MaxConnectionsPerUser
        <4>1. Cardinality(userClients[u]) <= MaxConnectionsPerUser
          BY <3>5 DEF CapsHold
        <4>2. QED
          BY <2>1, <3>3, <4>1, ShrinkUnderCap, ConnectionAssumption
      <3>6. QED
        BY <3>4, <3>5 DEF CapsHold
    <2>5. ASSUME NEW c \in Client, handleRegister(c)
          PROVE  CapsHold'
      <3>1. CASE refuse(c)
        BY <2>2, <3>1 DEF refuse
      <3>2. QED
        BY <2>3, <2>5, <3>1 DEF handleRegister
    <2>6. ASSUME NEW c \in Client, handleUnregister(c)
          PROVE  CapsHold'
      <3>1. CASE c \notin clients
        BY <2>2, <2>6, <3>1 DEF handleUnregister, hubVars
      <3>2. QED
        BY <2>4, <2>6, <3>1
    <2>7. ASSUME NEW c \in Client, NEW ch \in Requested,
                 handleClientSubscribe(c, ch) \/ handleClientUnsubscribe(c, ch)
          PROVE  CapsHold'
      BY <2>2, <2>7 DEF handleClientSubscribe, handleClientUnsubscribe, hubVars, hubMaps
    <2>8. ASSUME NEW m \in Message, handleIncoming(m)
          PROVE  CapsHold'
      BY <2>2, <2>8 DEF handleIncoming, hubMaps
    <2>9. ASSUME NEW c \in Client, takeFrame(c) \/ writerReturns(c) \/ postEviction(c)
          PROVE  CapsHold'
      BY <2>2, <2>9 DEF takeFrame, writerReturns, postEviction, hubMaps
    <2>10. CASE UNCHANGED hubVars
      BY <2>2, <2>10 DEF hubVars
    <2>11. QED
      BY <2>5, <2>6, <2>7, <2>8, <2>9, <2>10 DEF HubNext, ConnectionStep
  <1>3. QED
    BY <1>1, <1>2, TypeCorrect, PTL DEF HubSpec
-----------------------------------------------------------------------------
(* The allow-list.                                                         *)

SubscriptionsAllowed ==
    \A c \in Client : subscribed[c] \subseteq (Allowed[c] \ Control) \cup ControlOf(c)

QueuedAllowed ==
    \A c \in Client : \A i \in 1..Len(send[c]) :
        send[c][i] \in Message => send[c][i].channel \in Allowed[c] \ Control

\* An error reply is not a message.
LEMMA ErrorIsNoMessage ==
    ASSUME NEW f \in ErrorFrame
    PROVE  f \notin Message
  <1>1. DOMAIN f = {"channel", "reason"}
    BY DEF ErrorFrame
  <1>2. ASSUME f \in Message PROVE FALSE
    <2>1. DOMAIN f = {"channel", "payload"}
      BY <1>2 DEF Message
    <2>2. "reason" \in DOMAIN f
      BY <1>1
    <2>3. QED
      BY <2>1, <2>2
  <1>3. QED
    BY <1>2

\* Delivering a frame that every target may see, or that is no message, keeps
\* the buffers within the allow-list.
LEMMA DeliverAllowed ==
    ASSUME TypeOK, QueuedAllowed, NEW S, NEW f \in Frame, deliverFrames(S, f),
           \A c \in S \cap Client : f \in Message => f.channel \in Allowed[c] \ Control
    PROVE  QueuedAllowed'
  <1> SUFFICES ASSUME NEW c \in Client, NEW i \in 1..Len(send'[c]), send'[c][i] \in Message
               PROVE  send'[c][i].channel \in Allowed[c] \ Control
    BY DEF QueuedAllowed, Message
  <1>1. send[c] \in Seq(Frame)
    BY DEF TypeOK
  <1>2. CASE c \in S \ Full(S)
    <2>1. send'[c] = Append(send[c], f)
      BY <1>2 DEF deliverFrames
    <2>2. CASE i <= Len(send[c])
      <3>1. send'[c][i] = send[c][i] /\ i \in 1..Len(send[c])
        BY <1>1, <2>1, <2>2
      <3>2. QED
        BY <3>1 DEF QueuedAllowed
    <2>3. CASE ~(i <= Len(send[c]))
      <3>1. send'[c][i] = f
        BY <1>1, <2>1, <2>3
      <3>2. QED
        BY <3>1, <1>2
    <2>4. QED
      BY <2>2, <2>3
  <1>3. CASE c \notin S \ Full(S)
    <2>1. send'[c] = send[c]
      BY <1>3 DEF deliverFrames
    <2>2. QED
      BY <2>1 DEF QueuedAllowed
  <1>4. QED
    BY <1>2, <1>3

\* Taking the head of a buffer keeps the rest.
LEMMA TakeAllowed ==
    ASSUME TypeOK, QueuedAllowed, NEW c \in Client,
           \/ send' = send
           \/ send[c] # <<>> /\ send' = [send EXCEPT ![c] = Tail(@)]
    PROVE  QueuedAllowed'
  <1>1. CASE send' = send
    BY <1>1 DEF QueuedAllowed, Message
  <1>2. CASE send[c] # <<>> /\ send' = [send EXCEPT ![c] = Tail(@)]
    <2> SUFFICES ASSUME NEW d \in Client, NEW i \in 1..Len(send'[d]), send'[d][i] \in Message
                 PROVE  send'[d][i].channel \in Allowed[d] \ Control
      BY DEF QueuedAllowed, Message
    <2>1. send[c] \in Seq(Frame) /\ send[d] \in Seq(Frame)
      BY DEF TypeOK
    <2>2. CASE d = c
      <3>1. send'[d] = Tail(send[c])
        BY <1>2, <2>2 DEF TypeOK
      <3>2. send'[d][i] = send[c][i+1] /\ i+1 \in 1..Len(send[c])
        <4>1. /\ Len(Tail(send[c])) = Len(send[c]) - 1
              /\ \A j \in 1..Len(Tail(send[c])) : Tail(send[c])[j] = send[c][j+1]
          BY <1>2, <2>1, HeadTailProperties
        <4>2. Len(send[c]) \in Nat
          BY <2>1
        <4>3. QED
          BY <3>1, <4>1, <4>2
      <3>3. QED
        BY <2>2, <3>2 DEF QueuedAllowed
    <2>3. CASE d # c
      <3>1. send'[d] = send[d]
        BY <1>2, <2>3 DEF TypeOK
      <3>2. QED
        BY <3>1 DEF QueuedAllowed
    <2>4. QED
      BY <2>2, <2>3
  <1>3. QED
    BY <1>1, <1>2

\* No sequence of requests and messages subscribes a connection to, or queues
\* for it a message of, a channel Django did not allow (hub.go:202-279).
THEOREM AllowListAlwaysHolds == HubSpec => []AllowListHolds
  <1>1. HubInit => SubscriptionsAllowed /\ QueuedAllowed
    BY DEF HubInit, SubscriptionsAllowed, QueuedAllowed
  <1>2. ASSUME Inv, SubscriptionsAllowed, [HubNext]_hubVars
        PROVE  SubscriptionsAllowed'
    <2> USE DEF SubscriptionsAllowed
    <2>1. ASSUME NEW c \in Client, NEW S, addSubscriptions(c, S),
                 S \subseteq (Allowed[c] \ Control) \cup ControlOf(c)
          PROVE  SubscriptionsAllowed'
      BY <1>2, <2>1 DEF addSubscriptions, ControlOf, Inv, TypeOK
    <2>2. CASE UNCHANGED subscribed
      BY <1>2, <2>2 DEF ControlOf
    <2>3. ASSUME NEW c \in Client, handleRegister(c)
          PROVE  SubscriptionsAllowed'
      BY <2>1, <2>2, <2>3 DEF handleRegister, refuse, admit
    <2>4. ASSUME NEW c \in Client, handleUnregister(c)
          PROVE  SubscriptionsAllowed'
      BY <2>2, <2>4 DEF handleUnregister, hubVars
    <2>5. ASSUME NEW c \in Client, NEW ch \in Requested, handleClientSubscribe(c, ch)
          PROVE  SubscriptionsAllowed'
      <3>1. UNCHANGED subscribed
            \/ (ch \in (WellFormed \ Control) \cap Allowed[c] /\ addSubscriptions(c, {ch}))
        BY <2>5 DEF handleClientSubscribe, hubVars, hubMaps
      <3>2. QED
        BY <2>1, <2>2, <3>1
    <2>6. ASSUME NEW c \in Client, NEW ch \in Requested, handleClientUnsubscribe(c, ch)
          PROVE  SubscriptionsAllowed'
      <3>1. CASE subscribed' = [subscribed EXCEPT ![c] = @ \ {ch}]
        BY <1>2, <3>1 DEF ControlOf, Inv, TypeOK
      <3>2. QED
        BY <2>2, <2>6, <3>1 DEF handleClientUnsubscribe, hubVars
    <2>7. ASSUME NEW m \in Message, handleIncoming(m)
          PROVE  SubscriptionsAllowed'
      BY <2>2, <2>7 DEF handleIncoming, hubMaps
    <2>8. ASSUME NEW c \in Client, takeFrame(c) \/ writerReturns(c) \/ postEviction(c)
          PROVE  SubscriptionsAllowed'
      BY <2>2, <2>8 DEF takeFrame, writerReturns, postEviction, hubMaps
    <2>9. CASE UNCHANGED hubVars
      BY <2>2, <2>9 DEF hubVars
    <2>10. QED
      BY <1>2, <2>3, <2>4, <2>5, <2>6, <2>7, <2>8, <2>9 DEF HubNext, ConnectionStep
  <1>3. ASSUME Inv, SubscriptionsAllowed, QueuedAllowed, [HubNext]_hubVars
        PROVE  QueuedAllowed'
    <2>1. TypeOK
      BY <1>3 DEF Inv
    <2>2. CASE UNCHANGED send
      BY <1>3, <2>2 DEF QueuedAllowed, Message
    <2>3. ASSUME NEW c \in Client,
                 handleRegister(c) \/ handleUnregister(c) \/ postEviction(c)
          PROVE  QueuedAllowed'
      BY <2>2, <2>3 DEF handleRegister, handleUnregister, postEviction, hubVars
    <2>4. ASSUME NEW c \in Client, takeFrame(c) \/ writerReturns(c)
          PROVE  QueuedAllowed'
      <3>1. \/ send' = send
            \/ send[c] # <<>> /\ send' = [send EXCEPT ![c] = Tail(@)]
        BY <2>4 DEF takeFrame, writerReturns
      <3>2. QED
        BY <1>3, <2>1, <3>1, TakeAllowed
    <2>5. ASSUME NEW c \in Client, NEW ch \in Requested, handleClientSubscribe(c, ch)
          PROVE  QueuedAllowed'
      <3>1. ASSUME NEW r \in {"invalid_channel", "forbidden"},
                   deliverFrames({c}, [channel |-> ch, reason |-> r])
            PROVE  QueuedAllowed'
        <4>1. [channel |-> ch, reason |-> r] \in ErrorFrame
          BY ChannelAssumption DEF ErrorFrame
        <4>2. [channel |-> ch, reason |-> r] \in Frame
              /\ [channel |-> ch, reason |-> r] \notin Message
          BY <4>1, ErrorIsNoMessage DEF Frame
        <4>3. QED
          BY <1>3, <2>1, <3>1, <4>2, DeliverAllowed
      <3>2. \/ UNCHANGED send
            \/ \E r \in {"invalid_channel", "forbidden"} :
                  deliverFrames({c}, [channel |-> ch, reason |-> r])
        BY <2>5 DEF handleClientSubscribe, hubVars, pumpVars
      <3>3. QED
        BY <2>2, <3>1, <3>2
    <2>6. ASSUME NEW c \in Client, NEW ch \in Requested, handleClientUnsubscribe(c, ch)
          PROVE  QueuedAllowed'
      BY <2>2, <2>6 DEF handleClientUnsubscribe, hubVars, pumpVars
    <2>7. ASSUME NEW m \in Message, handleIncoming(m)
          PROVE  QueuedAllowed'
      <3>1. CASE handleControlMessage(m)
        BY <2>2, <3>1 DEF handleControlMessage
      <3>2. CASE m.channel \notin Control /\ deliverFrames(channels[m.channel], m)
        <4>1. m \in Frame /\ m.channel \in Channel
          BY DEF Frame, Message
        <4>2. \A c \in channels[m.channel] \cap Client : m.channel \in subscribed[c]
          BY <1>3, <4>1 DEF Inv, IndexesAgree
        <4>3. \A c \in Client : ControlOf(c) \subseteq Control
          BY ControlChannels
        <4>4. \A c \in channels[m.channel] \cap Client : m.channel \in Allowed[c] \ Control
          BY <1>3, <3>2, <4>2, <4>3 DEF SubscriptionsAllowed
        <4>5. QED
          BY <1>3, <2>1, <3>2, <4>1, <4>4, DeliverAllowed
      <3>3. QED
        BY <2>7, <3>1, <3>2 DEF handleIncoming
    <2>8. CASE UNCHANGED hubVars
      BY <2>2, <2>8 DEF hubVars
    <2>9. QED
      BY <1>3, <2>3, <2>4, <2>5, <2>6, <2>7, <2>8 DEF HubNext, ConnectionStep
  <1>4. SubscriptionsAllowed /\ QueuedAllowed => AllowListHolds
    BY DEF SubscriptionsAllowed, QueuedAllowed, AllowListHolds
  <1>5. QED
    BY <1>1, <1>2, <1>3, <1>4, Invariance, PTL DEF HubSpec

-----------------------------------------------------------------------------
(* Redis and the hub's channel map.                                        *)

\* Redis stays subscribed exactly to the channels some connection is on,
\* except where a SUBSCRIBE failed (hub.go:228-269).
THEOREM RedisAlwaysFollows == HubSpec => []RedisFollowsChannels
  <1>1. HubInit => RedisFollowsChannels
    BY DEF HubInit, RedisFollowsChannels
  <1>2. ASSUME TypeOK, RedisFollowsChannels, [HubNext]_hubVars
        PROVE  RedisFollowsChannels'
    <2>1. CASE UNCHANGED <<channels, manager>>
      BY <1>2, <2>1 DEF RedisFollowsChannels
    <2>2. ASSUME NEW c \in Client, NEW S \in SUBSET Channel, addSubscriptions(c, S)
          PROVE  RedisFollowsChannels'
      BY <1>2, <2>2 DEF addSubscriptions, RedisFollowsChannels, TypeOK
    <2>3. ASSUME NEW c \in Client, NEW S \in SUBSET Channel, removeFromChannels(c, S)
          PROVE  RedisFollowsChannels'
      BY <1>2, <2>3 DEF removeFromChannels, RedisFollowsChannels, TypeOK
    <2>4. ASSUME NEW c \in Client, handleRegister(c)
          PROVE  RedisFollowsChannels'
      <3>1. ControlOf(c) \in SUBSET Channel
        BY ControlChannels
      <3>2. QED
        BY <2>1, <2>2, <2>4, <3>1 DEF handleRegister, refuse, admit
    <2>5. ASSUME NEW c \in Client, handleUnregister(c)
          PROVE  RedisFollowsChannels'
      <3>1. subscribed[c] \in SUBSET Channel
        BY <1>2 DEF TypeOK
      <3>2. QED
        BY <2>1, <2>3, <2>5, <3>1 DEF handleUnregister, hubVars
    <2>6. ASSUME NEW c \in Client, NEW ch \in Requested,
                 handleClientSubscribe(c, ch) \/ handleClientUnsubscribe(c, ch)
          PROVE  RedisFollowsChannels'
      <3>1. {ch} \in SUBSET Channel
        BY ChannelAssumption
      <3>2. QED
        BY <2>1, <2>2, <2>3, <2>6, <3>1
           DEF handleClientSubscribe, handleClientUnsubscribe, hubVars, hubMaps
    <2>7. ASSUME NEW m \in Message, handleIncoming(m)
          PROVE  RedisFollowsChannels'
      BY <2>1, <2>7 DEF handleIncoming, hubMaps
    <2>8. ASSUME NEW c \in Client, takeFrame(c) \/ writerReturns(c) \/ postEviction(c)
          PROVE  RedisFollowsChannels'
      BY <2>1, <2>8 DEF takeFrame, writerReturns, postEviction, hubMaps
    <2>9. CASE UNCHANGED hubVars
      BY <2>1, <2>9 DEF hubVars
    <2>10. QED
      BY <1>2, <2>4, <2>5, <2>6, <2>7, <2>8, <2>9 DEF HubNext, ConnectionStep
  <1>3. QED
    BY <1>1, <1>2, TypeCorrect, PTL DEF HubSpec
-----------------------------------------------------------------------------
(* Signals to WritePump.                                                   *)

\* WritePump of c has returned or will find a signal.
Told(c) == disconnect[c] # NoSignal \/ c \in stopped

\* A client that has been told to close stays so: only WritePump empties the
\* buffer, and it returns when it does.
LEMMA ToldForEver ==
    ASSUME TypeOK, [HubNext]_hubVars, NEW c \in Client, Told(c)
    PROVE  Told(c)'
  <1> USE DEF Told
  <1>1. ASSUME NEW S, NEW d \in Signal \ {NoSignal}, disconnect' = Signalled(S, d),
               stopped' = stopped
        PROVE  Told(c)'
    BY <1>1 DEF Signalled
  <1>2. CASE UNCHANGED <<disconnect, stopped>>
    BY <1>2
  <1>3. /\ Cleanup \in Signal \ {NoSignal}
        /\ CloseSessionRevoked \in Signal \ {NoSignal}
        /\ CloseSlowClient \in Signal \ {NoSignal}
        /\ CloseTooManyConnections \in Signal \ {NoSignal}
    BY DEF Signal, NoSignal, Cleanup, CloseSessionRevoked, CloseSlowClient,
           CloseTooManyConnections
  <1>4. ASSUME NEW d \in Client, handleRegister(d) \/ handleUnregister(d)
        PROVE  Told(c)'
    BY <1>1, <1>2, <1>3, <1>4 DEF handleRegister, refuse, admit, handleUnregister, hubVars
  <1>5. ASSUME NEW S, NEW f, deliverFrames(S, f)
        PROVE  Told(c)'
    BY <1>1, <1>3, <1>5 DEF deliverFrames
  <1>6. ASSUME NEW d \in Client, NEW ch \in Requested,
               handleClientSubscribe(d, ch) \/ handleClientUnsubscribe(d, ch)
        PROVE  Told(c)'
    BY <1>2, <1>5, <1>6 DEF handleClientSubscribe, handleClientUnsubscribe, hubVars, pumpVars
  <1>7. ASSUME NEW m \in Message, handleIncoming(m)
        PROVE  Told(c)'
    <2>1. CASE handleControlMessage(m)
      BY <1>1, <1>2, <1>3, <2>1 DEF handleControlMessage
    <2>2. QED
      BY <1>5, <1>7, <2>1 DEF handleIncoming
  <1>8. ASSUME NEW d \in Client, takeFrame(d) \/ postEviction(d)
        PROVE  Told(c)'
    BY <1>2, <1>8 DEF takeFrame, postEviction
  <1>9. ASSUME NEW d \in Client, writerReturns(d)
        PROVE  Told(c)'
    BY <1>9 DEF writerReturns, TypeOK
  <1>10. CASE UNCHANGED hubVars
    BY <1>2, <1>10 DEF hubVars
  <1>11. QED
    BY <1>4, <1>6, <1>7, <1>8, <1>9, <1>10 DEF HubNext, ConnectionStep

\* A client that left the hub's books, or was never let in, is told so: no
\* connection stays open with no hub behind it (hub.go:155-200, 328-341).
THEOREM DetachedAlwaysSignalled == HubSpec => []DetachedIsSignalled
  <1>1. HubInit => DetachedIsSignalled
    BY DEF HubInit, DetachedIsSignalled
  <1>2. ASSUME TypeOK, DetachedIsSignalled, [HubNext]_hubVars
        PROVE  DetachedIsSignalled'
    <2> SUFFICES ASSUME NEW c \in Client, c \in announced', c \notin clients'
                 PROVE  Told(c)' \/ c \in sendClosed'
      BY <1>2 DEF DetachedIsSignalled, Told, TypeOK, HubNext, ConnectionStep, handleRegister,
                  handleUnregister, handleClientSubscribe, handleClientUnsubscribe,
                  handleIncoming, takeFrame, writerReturns, postEviction,
                  hubVars, hubMaps, pumpVars
    <2>1. CASE c \in announced \ clients
      <3>1. Told(c) \/ c \in sendClosed
        BY <1>2, <2>1 DEF DetachedIsSignalled, Told
      <3>2. c \in sendClosed => c \in sendClosed'
        BY <1>2 DEF HubNext, ConnectionStep, handleRegister, handleUnregister, handleClientSubscribe,
                    handleClientUnsubscribe, handleIncoming, handleControlMessage,
                    deliverFrames, takeFrame, writerReturns, postEviction,
                    hubVars, pumpVars
      <3>3. QED
        BY <1>2, <3>1, <3>2, ToldForEver
    <2>2. CASE c \notin announced
      <3>1. handleRegister(c)
        BY <1>2, <2>2 DEF HubNext, ConnectionStep, handleRegister, handleUnregister,
              handleClientSubscribe, handleClientUnsubscribe, handleIncoming,
              takeFrame, writerReturns, postEviction, hubVars, hubMaps, pumpVars
      <3>2. disconnect' = Signalled({c}, CloseTooManyConnections)
        BY <3>1 DEF handleRegister, refuse, admit
      <3>3. Told(c)'
        BY <3>2 DEF Told, Signalled, NoSignal, CloseTooManyConnections
      <3>4. QED
        BY <3>3
    <2>3. CASE c \in clients
      <3>1. handleUnregister(c)
        BY <1>2, <2>3 DEF HubNext, ConnectionStep, handleRegister, refuse, admit, handleUnregister,
              handleClientSubscribe, handleClientUnsubscribe, handleIncoming,
              takeFrame, writerReturns, postEviction, hubVars, hubMaps, pumpVars
      <3>2. QED
        BY <2>3, <3>1 DEF handleUnregister
    <2>4. QED
      BY <2>1, <2>2, <2>3
  <1>3. QED
    BY <1>1, <1>2, TypeCorrect, PTL DEF HubSpec

\* A frame is lost only for a client that is being closed (hub.go:306-317).
THEOREM EvictedAlwaysSignalled == HubSpec => []EvictedIsSignalled
  <1>1. HubInit => EvictedIsSignalled
    BY DEF HubInit, EvictedIsSignalled
  <1>2. ASSUME TypeOK, EvictedIsSignalled, [HubNext]_hubVars
        PROVE  EvictedIsSignalled'
    <2> SUFFICES ASSUME NEW c \in Client, evicting'[c] > 0
                 PROVE  Told(c)'
      BY DEF EvictedIsSignalled, Told
    <2>1. CASE evicting[c] > 0
      BY <1>2, <2>1, ToldForEver DEF EvictedIsSignalled, Told
    <2>2. CASE ~(evicting[c] > 0)
      <3>1. ASSUME NEW S, NEW f, deliverFrames(S, f)
            PROVE  Told(c)'
        <4>1. c \in Full(S)
          BY <2>2, <3>1 DEF deliverFrames
        <4>2. disconnect'[c] # NoSignal
          BY <3>1, <4>1 DEF deliverFrames, Signalled, NoSignal, CloseSlowClient
        <4>3. QED
          BY <4>2 DEF Told
      <3>2. \/ \E S, f : deliverFrames(S, f)
            \/ evicting'[c] = evicting[c]
            \/ \E d \in Client : postEviction(d)
        BY <1>2 DEF HubNext, ConnectionStep, handleRegister, handleUnregister, handleClientSubscribe,
                    handleClientUnsubscribe, handleIncoming, handleControlMessage,
                    takeFrame, writerReturns, hubVars, pumpVars
      <3>3. ASSUME NEW d \in Client, postEviction(d)
            PROVE  ~(evicting'[c] > 0)
        BY <1>2, <2>2, <3>3 DEF postEviction, TypeOK
      <3>4. QED
        BY <2>2, <3>1, <3>2, <3>3
    <2>3. QED
      BY <2>1, <2>2
  <1>3. QED
    BY <1>1, <1>2, TypeCorrect, PTL DEF HubSpec
-----------------------------------------------------------------------------
(* Every registered client can be revoked.                                 *)

\* A registered client listens to both its control channels.
Revocable == \A c \in clients : ControlOf(c) \subseteq subscribed[c]

\* What a step takes off the channels of a registered client is the one
\* channel its peer asked to leave.
LEMMA OnlyUnsubscribeLeaves ==
    ASSUME TypeOK, Lifecycle, [HubNext]_hubVars, NEW c \in clients, NEW ch \in subscribed[c],
           c \in clients', ch \notin subscribed'[c]
    PROVE  ch \in Requested /\ handleClientUnsubscribe(c, ch)
  <1>1. c \in Client /\ c \in announced
    BY DEF TypeOK, Lifecycle
  <1>2. ASSUME UNCHANGED subscribed PROVE FALSE
    BY <1>2
  <1>3. ASSUME NEW d \in Client, NEW S, addSubscriptions(d, S) PROVE FALSE
    BY <1>1, <1>3 DEF addSubscriptions, TypeOK
  <1>4. ASSUME NEW d \in Client, handleRegister(d) \/ handleUnregister(d) PROVE FALSE
    BY <1>2, <1>3, <1>4 DEF handleRegister, refuse, admit, handleUnregister, hubVars
  <1>5. ASSUME NEW d \in Client, NEW r \in Requested, handleClientSubscribe(d, r)
        PROVE  FALSE
    BY <1>2, <1>3, <1>5 DEF handleClientSubscribe, hubMaps, hubVars
  <1>6. ASSUME NEW d \in Client, NEW r \in Requested, handleClientUnsubscribe(d, r)
        PROVE  d = c /\ r = ch
    <2>1. subscribed' = [subscribed EXCEPT ![d] = @ \ {r}]
      BY <1>2, <1>6 DEF handleClientUnsubscribe, hubVars
    <2>2. QED
      BY <1>1, <2>1 DEF TypeOK
  <1>7. ASSUME \/ \E m \in Message : handleIncoming(m)
               \/ \E d \in Client : takeFrame(d) \/ writerReturns(d) \/ postEviction(d)
               \/ UNCHANGED hubVars
        PROVE  FALSE
    BY <1>2, <1>7 DEF handleIncoming, takeFrame, writerReturns, postEviction, hubMaps, hubVars
  <1>8. QED
    BY <1>4, <1>5, <1>6, <1>7 DEF HubNext, ConnectionStep

\* As long as no peer names a control channel in an unsubscribe frame, every
\* registered client can be revoked: handleClientUnsubscribe does not repeat
\* the test on '_' of handleClientSubscribe, so this rests on the peers
\* (hub.go:167-190, 202-226).
THEOREM RegisteredAlwaysRevocable ==
    ASSUME Requested \cap Control = {}
    PROVE  HubSpec => []Revocable
  <1>1. HubInit => Revocable
    BY DEF HubInit, Revocable
  <1>2. ASSUME TypeOK, Lifecycle, Revocable, [HubNext]_hubVars
        PROVE  Revocable'
    <2> SUFFICES ASSUME NEW c \in clients', NEW ch \in ControlOf(c)
                 PROVE  ch \in subscribed'[c]
      BY DEF Revocable, ControlOf
    <2>1. CASE c \in clients
      <3>1. c \in Client /\ ch \in subscribed[c] /\ ch \in Control
        BY <1>2, <2>1, ControlChannels DEF Revocable, TypeOK
      <3>2. QED
        BY <1>2, <2>1, <3>1, OnlyUnsubscribeLeaves
    <2>2. CASE c \notin clients
      <3>1. PICK d \in Client : d = c /\ handleRegister(d)
        <4>1. ASSUME UNCHANGED clients PROVE FALSE
          BY <2>2, <4>1
        <4>2. ASSUME NEW d \in Client, handleUnregister(d) PROVE FALSE
          BY <2>2, <4>2 DEF handleUnregister, hubVars
        <4>3. ASSUME NEW d \in Client, handleRegister(d) PROVE d = c
          BY <2>2, <4>3 DEF handleRegister, refuse, admit
        <4>4. QED
          BY <1>2, <4>1, <4>2, <4>3 DEF HubNext, ConnectionStep, handleClientSubscribe,
             handleClientUnsubscribe, handleIncoming, takeFrame, writerReturns,
             postEviction, hubMaps, hubVars
      <3>2. addSubscriptions(c, ControlOf(c))
        BY <2>2, <3>1 DEF handleRegister, refuse, admit
      <3>3. QED
        BY <1>2, <3>1, <3>2 DEF addSubscriptions, TypeOK
    <2>3. QED
      BY <2>1, <2>2
  <1>3. Inv => TypeOK /\ Lifecycle
    BY DEF Inv
  <1>4. QED
    BY <1>1, <1>2, <1>3, Invariance, PTL DEF HubSpec

-----------------------------------------------------------------------------
(* The hub's side of its agreement with the subscriber.                    *)

\* The channels with a client.
Listening == {ch \in Channel : channels[ch] # {}}

Asks == INSTANCE Subscriptions WITH listening <- Listening

HubKeepsAgreement == Asks!Spec

LEMMA AddGains ==
    ASSUME TypeOK, NEW c \in Client, NEW S \in SUBSET Channel, addSubscriptions(c, S)
    PROVE  Asks!Next
  <1> DEFINE new == S \ subscribed[c]
             first == {ch \in new : channels[ch] = {}}
  <1>1. channels' = [ch \in Channel |-> IF ch \in new THEN channels[ch] \cup {c} ELSE channels[ch]]
    BY DEF addSubscriptions
  <1>2. PICK failed \in SUBSET (first \cap Unreliable) : manager' = manager \cup (first \ failed)
    BY DEF addSubscriptions
  <1>3. first \subseteq Channel /\ first \cap Listening = {}
    BY DEF Listening
  <1>4. Listening' = Listening \cup first
    BY <1>1 DEF Listening
  <1> HIDE DEF first
  <1>5. Asks!Gain(first)
    BY <1>2, <1>3, <1>4 DEF Asks!Gain
  <1>6. QED
    BY <1>3, <1>5 DEF Asks!Next

LEMMA RemoveLoses ==
    ASSUME NEW c \in Client, NEW S \in SUBSET Channel, removeFromChannels(c, S)
    PROVE  Asks!Next
  <1> DEFINE emptied == {ch \in S : channels[ch] # {} /\ channels[ch] \subseteq {c}}
  <1>1. /\ channels' = [ch \in Channel |-> IF ch \in S THEN channels[ch] \ {c} ELSE channels[ch]]
        /\ manager' = manager \ emptied
    BY DEF removeFromChannels
  <1>2. emptied \subseteq Channel /\ emptied \subseteq Listening
    BY DEF Listening
  <1>3. Listening' = Listening \ emptied
    BY <1>1 DEF Listening
  <1> HIDE DEF emptied
  <1>4. Asks!Lose(emptied)
    BY <1>1, <1>2, <1>3 DEF Asks!Lose
  <1>5. QED
    BY <1>2, <1>4 DEF Asks!Next

\* Whatever its clients do, the hub subscribes a channel only with its first
\* client and unsubscribes it exactly with its last, a failed SUBSCRIBE
\* included: what the subscriber's counts assume of their only caller
\* (hub.go:228-269).
THEOREM HubAlwaysKeepsAgreement == HubSpec => HubKeepsAgreement
  <1>1. HubInit => Asks!Init
    BY DEF HubInit, Asks!Init, Listening
  <1>2. ASSUME TypeOK, [HubNext]_hubVars
        PROVE  [Asks!Next]_<<Listening, manager>>
    <2>1. ASSUME UNCHANGED <<channels, manager>>
          PROVE  UNCHANGED <<Listening, manager>>
      BY <2>1 DEF Listening
    <2>2. ASSUME NEW c \in Client, handleRegister(c)
          PROVE  [Asks!Next]_<<Listening, manager>>
      <3>1. CASE refuse(c)
        BY <2>1, <3>1 DEF refuse
      <3>2. CASE admit(c)
        <4>1. ControlOf(c) \in SUBSET Channel
          BY ControlChannels, ChannelAssumption
        <4>2. QED
          BY <1>2, <3>2, <4>1, AddGains DEF admit
      <3>3. QED
        BY <2>2, <3>1, <3>2 DEF handleRegister
    <2>3. ASSUME NEW c \in Client, handleUnregister(c)
          PROVE  [Asks!Next]_<<Listening, manager>>
      <3>1. subscribed[c] \in SUBSET Channel
        BY <1>2 DEF TypeOK
      <3>2. QED
        BY <2>1, <2>3, <3>1, RemoveLoses DEF handleUnregister, hubVars
    <2>4. ASSUME NEW c \in Client, NEW ch \in Requested, handleClientSubscribe(c, ch)
          PROVE  [Asks!Next]_<<Listening, manager>>
      <3>1. {ch} \in SUBSET Channel
        BY ChannelAssumption
      <3>2. QED
        BY <1>2, <2>1, <2>4, <3>1, AddGains DEF handleClientSubscribe, hubVars, hubMaps
    <2>5. ASSUME NEW c \in Client, NEW ch \in Requested, handleClientUnsubscribe(c, ch)
          PROVE  [Asks!Next]_<<Listening, manager>>
      <3>1. {ch} \in SUBSET Channel
        BY ChannelAssumption
      <3>2. QED
        BY <2>1, <2>5, <3>1, RemoveLoses DEF handleClientUnsubscribe, hubVars
    <2>6. ASSUME \/ \E m \in Message : handleIncoming(m)
                 \/ \E c \in Client : takeFrame(c) \/ writerReturns(c) \/ postEviction(c)
                 \/ UNCHANGED hubVars
          PROVE  UNCHANGED <<Listening, manager>>
      BY <2>1, <2>6 DEF handleIncoming, takeFrame, writerReturns, postEviction, hubMaps, hubVars
    <2>7. QED
      BY <1>2, <2>2, <2>3, <2>4, <2>5, <2>6 DEF HubNext, ConnectionStep
  <1>3. TypeOK /\ [HubNext]_hubVars => [Asks!Next]_<<Listening, manager>>
    BY <1>2
  <1>4. QED
    BY <1>1, <1>3, TypeCorrect, PTL DEF HubSpec, HubKeepsAgreement, Asks!Spec, Asks!vars
=============================================================================
