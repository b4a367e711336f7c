-------------------------- MODULE HubHistoryProofs --------------------------
(***************************************************************************)
(* The hub implements the broker of module PubSub, for any connections,    *)
(* channels, caps and capacities: under the mapping of HubHistory every    *)
(* handler is one action of the broker, or none.                           *)
(***************************************************************************)
EXTENDS HubHistory, HubProofs

brokerVars == <<phase, member, send, closing, heard>>

LEMMA HistoryKeepsInv == HistorySpec => []Inv
  <1>1. HistoryInit => HubInit
    BY DEF HistoryInit
  <1>2. [HistoryNext]_historyVars => [HubNext]_hubVars
    BY DEF HistoryNext, HubNext, historyVars
  <1>3. HistorySpec => HubSpec
    BY <1>1, <1>2, PTL DEF HistorySpec, HubSpec
  <1>4. QED
    BY <1>3, Invariance, PTL

-----------------------------------------------------------------------------
(* What the handlers do to the mapped state.                               *)

\* Telling the clients of S to close starts closing exactly them.
LEMMA SignalledCloses ==
    ASSUME TypeOK, NEW S, S \subseteq Client, NEW k \in Signal \ {NoSignal},
           disconnect' = Signalled(S, k), stopped' = stopped
    PROVE  closing' = closing \cup S
  <1>1. \A c \in Client : disconnect'[c] # NoSignal <=> (disconnect[c] # NoSignal \/ c \in S)
    BY DEF Signalled
  <1>2. QED
    BY <1>1 DEF closing

LEMMA Codes ==
    /\ CloseSessionRevoked \in Signal \ {NoSignal} /\ CloseSlowClient \in Signal \ {NoSignal}
    /\ CloseTooManyConnections \in Signal \ {NoSignal} /\ Cleanup \in Signal \ {NoSignal}
  BY DEF Signal, NoSignal, Cleanup, CloseSessionRevoked, CloseSlowClient, CloseTooManyConnections

LEMMA ClosingStays ==
    ASSUME UNCHANGED <<disconnect, stopped>>
    PROVE  closing' = closing
  BY DEF closing

LEMMA PhaseStays ==
    ASSUME UNCHANGED <<clients, announced>>
    PROVE  phase' = phase
  BY DEF phase

LEMMA MemberStays ==
    ASSUME UNCHANGED channels
    PROVE  member' = member
  BY DEF member

\* A frame for S reaches those who have room; the others start closing.
LEMMA DeliveryMaps ==
    ASSUME TypeOK, NEW S, S \subseteq Client, NEW f, deliverFrames(S, f)
    PROVE  /\ send' = [c \in Client |-> IF c \in S \ Full(S) THEN Append(send[c], f)
                                                             ELSE send[c]]
           /\ closing' = closing \cup Full(S)
           /\ Full(S) \subseteq S
  <1>1. Full(S) \subseteq S
    BY DEF Full
  <1>2. QED
    BY <1>1, SignalledCloses, Codes DEF deliverFrames

\* Joining S: the channels of c become those it had and S.
LEMMA JoinMaps ==
    ASSUME TypeOK, IndexesAgree, NEW c \in Client, NEW S \in SUBSET Channel,
           c \in clients \/ subscribed[c] = {}, addSubscriptions(c, S)
    PROVE  member' = [member EXCEPT ![c] = @ \cup S]
  <1>1. ASSUME NEW ch \in Channel, NEW d \in Client
        PROVE  d \in channels'[ch] <=> d \in channels[ch] \/ (d = c /\ ch \in S)
    BY DEF addSubscriptions, TypeOK, IndexesAgree
  <1>2. QED
    BY <1>1 DEF member

LEMMA LeaveMaps ==
    ASSUME TypeOK, NEW c \in Client, NEW S \in SUBSET Channel, removeFromChannels(c, S)
    PROVE  member' = [member EXCEPT ![c] = @ \ S]
  <1>1. ASSUME NEW ch \in Channel, NEW d \in Client
        PROVE  d \in channels'[ch] <=> d \in channels[ch] /\ ~(d = c /\ ch \in S)
    BY DEF removeFromChannels, TypeOK
  <1>2. QED
    BY <1>1 DEF member

-----------------------------------------------------------------------------
(* One lemma for each kind of handler.                                     *)

LEMMA RegisterMaps ==
    ASSUME Inv, NEW c \in Client \ announced, handleRegister(c), UNCHANGED heard
    PROVE  Broker!Admit(c) \/ Broker!Refuse(c)
  <1>1. /\ TypeOK /\ IndexesAgree /\ c \notin clients /\ subscribed[c] = {}
        /\ announced' = announced \cup {c} /\ send' = send /\ stopped' = stopped
    BY DEF Inv, Lifecycle, handleRegister
  <1>2. phase[c] = "new"
    BY DEF phase
  <1>3. CASE refuse(c)
    <2>1. closing' = closing \cup {c}
      BY <1>1, <1>3, SignalledCloses, Codes DEF refuse
    <2>2. phase' = [phase EXCEPT ![c] = "gone"]
      BY <1>1, <1>3 DEF refuse, phase
    <2>3. QED
      BY <1>1, <1>2, <1>3, <2>1, <2>2, MemberStays DEF refuse, Broker!Refuse
  <1>4. CASE admit(c)
    <2>1. phase' = [phase EXCEPT ![c] = "admitted"]
      BY <1>1, <1>4 DEF admit, phase
    <2>2. ControlOf(c) \in SUBSET Channel
      BY ControlChannels
    <2>3. member' = [member EXCEPT ![c] = @ \cup ControlOf(c)]
      BY <1>1, <1>4, <2>2, JoinMaps DEF admit
    <2>4. member[c] = {} /\ guaranteed[c] = ControlOf(c)
      BY <1>1 DEF member, guaranteed, IndexesAgree
    <2>5. member' = [member EXCEPT ![c] = guaranteed[c]]
      BY <2>3, <2>4 DEF member
    <2>6. QED
      BY <1>1, <1>2, <1>4, <2>1, <2>5, ClosingStays DEF admit, Broker!Admit
  <1>5. QED
    BY <1>3, <1>4 DEF handleRegister

LEMMA UnregisterMaps ==
    ASSUME Inv, NEW c \in Client, handleUnregister(c), UNCHANGED heard
    PROVE  Broker!Depart(c) \/ UNCHANGED brokerVars
  <1>1. CASE UNCHANGED hubVars
    BY <1>1, PhaseStays, MemberStays, ClosingStays DEF hubVars, brokerVars
  <1>2. CASE ~UNCHANGED hubVars
    <2>1. /\ TypeOK /\ IndexesAgree /\ c \in clients /\ c \in announced
          /\ clients' = clients \ {c} /\ removeFromChannels(c, subscribed[c])
          /\ disconnect' = Signalled({c}, Cleanup)
          /\ UNCHANGED <<send, announced, stopped>>
      BY <1>2 DEF handleUnregister, Inv, Lifecycle
    <2>2. phase[c] = "admitted" /\ phase' = [phase EXCEPT ![c] = "gone"]
      BY <2>1 DEF phase
    <2>3. subscribed[c] \in SUBSET Channel /\ member[c] = subscribed[c]
      BY <2>1 DEF TypeOK, IndexesAgree, member
    <2>4. member' = [member EXCEPT ![c] = {}]
      BY <2>1, <2>3, LeaveMaps DEF member
    <2>5. closing' = closing \cup {c}
      BY <2>1, SignalledCloses, Codes
    <2>6. QED
      BY <2>1, <2>2, <2>4, <2>5 DEF Broker!Depart
  <1>3. QED
    BY <1>1, <1>2

LEMMA SubscribeMaps ==
    ASSUME Inv, NEW c \in Client, NEW ch \in Requested, handleClientSubscribe(c, ch),
           UNCHANGED heard
    PROVE  \/ Broker!Join(c, ch) \/ Broker!Close(c) \/ UNCHANGED brokerVars
           \/ \E a \in ErrorFrame : Broker!Reply(c, a)
  <1>1. TypeOK /\ IndexesAgree /\ clients \subseteq announced /\ ch \in Channel
    BY ChannelAssumption DEF Inv, Lifecycle
  <1>2. CASE UNCHANGED hubVars
    BY <1>2, PhaseStays, MemberStays, ClosingStays DEF hubVars, brokerVars
  <1>3. ASSUME NEW a \in ErrorFrame, deliverFrames({c}, a), UNCHANGED hubMaps
        PROVE  Broker!Close(c) \/ Broker!Reply(c, a)
    <2>1. phase' = phase /\ member' = member
      BY <1>3, PhaseStays, MemberStays DEF hubMaps
    <2>2. /\ send' = [d \in Client |-> IF d \in {c} \ Full({c}) THEN Append(send[d], a)
                                                               ELSE send[d]]
          /\ closing' = closing \cup Full({c}) /\ Full({c}) \subseteq {c}
      BY <1>1, <1>3, DeliveryMaps
    <2>3. send \in [Client -> Seq(Frame)]
      BY <1>1 DEF TypeOK
    <2>4. CASE c \in Full({c})
      <3>1. send' = send /\ closing' = closing \cup {c}
        BY <2>2, <2>3, <2>4
      <3>2. QED
        BY <2>1, <3>1 DEF Broker!Close
    <2>5. CASE c \notin Full({c})
      <3>1. send' = [send EXCEPT ![c] = Append(@, a)] /\ closing' = closing
        BY <2>2, <2>3, <2>5
      <3>2. QED
        BY <2>1, <3>1 DEF Broker!Reply
    <2>6. QED
      BY <2>4, <2>5
  <1>4. CASE /\ c \in clients /\ ch \in (WellFormed \ Control) \cap Allowed[c]
             /\ addSubscriptions(c, {ch})
             /\ UNCHANGED <<clients, userClients, announced>> /\ UNCHANGED pumpVars
    <2>1. member' = [member EXCEPT ![c] = @ \cup {ch}]
      BY <1>1, <1>4, JoinMaps
    <2>2. phase[c] = "admitted" /\ ch \in entitled[c]
      BY <1>1, <1>4 DEF phase, entitled
    <2>3. QED
      BY <1>4, <2>1, <2>2, PhaseStays, ClosingStays DEF pumpVars, Broker!Join
  <1>5. /\ [channel |-> ch, reason |-> "invalid_channel"] \in ErrorFrame
        /\ [channel |-> ch, reason |-> "forbidden"] \in ErrorFrame
    BY <1>1 DEF ErrorFrame
  <1>6. QED
    BY <1>2, <1>3, <1>4, <1>5 DEF handleClientSubscribe

LEMMA UnsubscribeMaps ==
    ASSUME Inv, NEW c \in Client, NEW ch \in Requested, handleClientUnsubscribe(c, ch),
           UNCHANGED heard
    PROVE  Broker!Leave(c, ch) \/ UNCHANGED brokerVars
  <1>1. TypeOK /\ IndexesAgree /\ ch \in Channel
    BY ChannelAssumption DEF Inv
  <1>2. CASE UNCHANGED hubVars
    BY <1>2, PhaseStays, MemberStays, ClosingStays DEF hubVars, brokerVars
  <1>3. CASE /\ c \in clients /\ ch \in subscribed[c] /\ removeFromChannels(c, {ch})
             /\ UNCHANGED <<clients, userClients, announced>> /\ UNCHANGED pumpVars
    <2>1. member' = [member EXCEPT ![c] = @ \ {ch}] /\ ch \in member[c]
      BY <1>1, <1>3, LeaveMaps DEF IndexesAgree, member
    <2>2. QED
      BY <1>3, <2>1, PhaseStays, ClosingStays DEF pumpVars, Broker!Leave
  <1>4. QED
    BY <1>2, <1>3 DEF handleClientUnsubscribe

\* The goroutines around the hub.
LEMMA PumpMaps ==
    ASSUME Inv, NEW c \in Client, takeFrame(c) \/ writerReturns(c) \/ postEviction(c),
           UNCHANGED heard
    PROVE  Broker!Take(c) \/ Broker!Close(c) \/ UNCHANGED brokerVars
  <1>1. phase' = phase /\ member' = member
    BY PhaseStays, MemberStays DEF takeFrame, writerReturns, postEviction, hubMaps
  <1>2. CASE takeFrame(c)
    BY <1>1, <1>2, ClosingStays DEF takeFrame, Broker!Take
  <1>3. CASE postEviction(c)
    BY <1>1, <1>3, ClosingStays DEF postEviction, brokerVars
  <1>4. CASE writerReturns(c)
    <2>1. closing' = closing \cup {c}
      <3>1. /\ stopped' = stopped \cup {c} /\ disconnect \in [Client -> Signal]
            /\ \/ disconnect' = disconnect
               \/ disconnect' = [disconnect EXCEPT ![c] = NoSignal]
        BY <1>4 DEF writerReturns, Inv, TypeOK
      <3>2. \A d \in Client \ {c} : disconnect'[d] = disconnect[d]
        BY <3>1
      <3>3. QED
        BY <3>1, <3>2 DEF closing
    <2>2. \/ send' = send
          \/ send[c] # <<>> /\ send' = [send EXCEPT ![c] = Tail(@)]
      BY <1>4 DEF writerReturns
    <2>3. QED
      BY <1>1, <2>1, <2>2 DEF Broker!Take, Broker!Close
  <1>5. QED
    BY <1>2, <1>3, <1>4

\* A message the hub takes up: nobody's, a revocation, or data.
LEMMA IncomingMaps ==
    ASSUME Inv, NEW m \in Message, handleIncoming(m),
           heard' = IF channels[m.channel] = {} THEN heard ELSE <<m, 1 - heard[2]>>
    PROVE  Broker!Publish(m) \/ Broker!Revoke(m) \/ UNCHANGED brokerVars
  <1> DEFINE S == channels[m.channel]
  <1>1. TypeOK /\ m.channel \in Channel /\ S \subseteq Client
    BY DEF Inv, TypeOK, Message
  <1>2. phase' = phase /\ member' = member
    BY PhaseStays, MemberStays DEF handleIncoming, hubMaps
  <1>3. Broker!Audience(m) = S
    BY <1>1 DEF Broker!Audience, member
  <1>4. S # {} => Broker!Hear(m)
    BY <1>3 DEF Broker!Hear
  <1>5. CASE m.channel \in Control /\ handleControlMessage(m)
    <2>1. send' = send
      BY <1>5 DEF handleControlMessage
    <2>2. closing' = IF m.payload \in RevokePayload THEN closing \cup S ELSE closing
      BY <1>1, <1>5, SignalledCloses, ClosingStays, Codes DEF handleControlMessage
    <2>3. CASE S = {}
      BY <1>2, <2>1, <2>2, <2>3 DEF brokerVars
    <2>4. CASE S # {}
      BY <1>2, <1>3, <1>4, <1>5, <2>1, <2>2, <2>4 DEF Broker!Revoke
    <2>5. QED
      BY <2>3, <2>4
  <1>6. CASE m.channel \notin Control /\ deliverFrames(S, m)
    <2>1. /\ send' = [c \in Client |-> IF c \in S \ Full(S) THEN Append(send[c], m)
                                                            ELSE send[c]]
          /\ closing' = closing \cup Full(S) /\ Full(S) \subseteq S
      BY <1>1, <1>6, DeliveryMaps
    <2>2. CASE S = {}
      <3>1. send' = send
        BY <1>1, <2>1, <2>2 DEF TypeOK
      <3>2. QED
        BY <1>2, <2>1, <2>2, <3>1 DEF brokerVars
    <2>3. CASE S # {}
      BY <1>2, <1>3, <1>4, <1>6, <2>1, <2>3 DEF Broker!Publish
    <2>4. QED
      BY <2>2, <2>3
  <1>7. QED
    BY <1>5, <1>6 DEF handleIncoming

-----------------------------------------------------------------------------
\* The hub keeps the promises of the broker: in order to every member or the
\* member is being closed, a revocation reaches every member, and closing is
\* never undone (hub.go:202-341).
THEOREM HubAlwaysImplementsPubSub == HistorySpec => HubImplementsPubSub
  <1>1. HistoryInit => Broker!Init
    BY DEF HistoryInit, HubInit, Broker!Init, phase, member, closing, Nothing, Broker!Nothing
  <1>2. Inv /\ [HistoryNext]_historyVars => [Broker!Next]_brokerVars
    <2> SUFFICES ASSUME Inv, [HistoryNext]_historyVars
                 PROVE  Broker!Next \/ UNCHANGED brokerVars
      OBVIOUS
    <2>1. CASE UNCHANGED historyVars
      BY <2>1, PhaseStays, MemberStays, ClosingStays DEF historyVars, hubVars, brokerVars
    <2>2. CASE ConnectionStep /\ UNCHANGED heard
      <3>1. Requested \subseteq Channel
        BY ChannelAssumption
      <3>2. CASE \E c \in Client \ announced : handleRegister(c)
        BY <2>2, <3>2, RegisterMaps DEF Broker!Next
      <3>3. CASE \E c \in Client : handleUnregister(c)
        BY <2>2, <3>3, UnregisterMaps DEF Broker!Next
      <3>4. CASE \E c \in Client : takeFrame(c) \/ writerReturns(c) \/ postEviction(c)
        BY <2>2, <3>4, PumpMaps DEF Broker!Next
      <3>5. CASE \E c \in Client, ch \in Requested : handleClientSubscribe(c, ch)
        BY <2>2, <3>1, <3>5, SubscribeMaps DEF Broker!Next
      <3>6. CASE \E c \in Client, ch \in Requested : handleClientUnsubscribe(c, ch)
        BY <2>2, <3>1, <3>6, UnsubscribeMaps DEF Broker!Next
      <3>7. QED
        BY <2>2, <3>2, <3>3, <3>4, <3>5, <3>6 DEF ConnectionStep
    <2>3. CASE \E m \in Message :
                  /\ handleIncoming(m)
                  /\ heard' = IF channels[m.channel] = {} THEN heard ELSE <<m, 1 - heard[2]>>
      <3>1. Broker!Message = Message
        BY DEF Message, Broker!Message
      <3>2. QED
        BY <2>3, <3>1, IncomingMaps DEF Broker!Next
    <2>4. QED
      BY <2>1, <2>2, <2>3 DEF HistoryNext
  <1>3. UNCHANGED brokerVars <=> UNCHANGED Broker!vars
    BY DEF brokerVars, Broker!vars
  <1>4. Inv /\ [HistoryNext]_historyVars => [Broker!Next]_(Broker!vars)
    BY <1>2, <1>3
  <1>5. QED
    BY <1>1, <1>4, HistoryKeepsInv, PTL DEF HistorySpec, HubImplementsPubSub, Broker!Spec
=============================================================================
