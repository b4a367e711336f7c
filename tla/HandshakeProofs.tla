-------------------------- MODULE HandshakeProofs --------------------------
(***************************************************************************)
(* Theorems about Handshake, for any sessions, users, replicas and         *)
(* connections, and any number of revocations, lost links and restarts.    *)
(***************************************************************************)
EXTENDS Handshake, TLAPS, SequenceTheorems

Command == {"SUBSCRIBE", "UNSUBSCRIBE"}

Alternates(q) == \A i \in 1..(Len(q) - 1) : q[i] # q[i + 1]

\* What Redis will have subscribed when q is executed, if it has h now.
Ends(q, h) == IF q = <<>> THEN h ELSE q[Len(q)] = "SUBSCRIBE"

\* The queue of one link and the members of its channel belong together.
LinkOK(k) ==
    /\ wire[k] \in Seq(Command) /\ Alternates(wire[k])
    /\ On(k) # {} <=> Ends(wire[k], k \in heard \cup failed)

LinksOK ==
    /\ wire = [k \in Link |-> wire[k]] /\ heard \subseteq Link /\ failed \subseteq Link
    /\ \A k \in Link : LinkOK(k)

\* The types that no queue is needed for; no message without its PUBLISH.
Counted ==
    /\ conn \in [Conn -> ConnState] /\ deaf \subseteq MayMissPing
    /\ joined \in [Conn -> SUBSET Control]
    /\ \A c \in Conn : /\ joined[c] \subseteq ControlOf(c)
                       /\ joined[c] # {} => conn[c] \in {"member", "closing"}
    /\ session \in [Session -> {"live", "revoking", "gone"}]
    /\ banned \subseteq User
    /\ process \in [Replica -> {"up", "draining", "down"}]
    /\ inbox \in [Link -> Nat] /\ \A k \in Link : inbox[k] <= publishes
    /\ publishes \in 0..MaxPublish /\ losses \in 0..MaxLosses
    /\ published \subseteq Control /\ covered \subseteq Conn

\* A covered connection has been registered.
CoveredWereMembers == \A c \in covered : conn[c] \in {"member", "closing", "closed"}

\* Django publishes first: a session being revoked has its message out.
RevokingWasPublished == \A s \in Session : session[s] = "revoking" => s \in published

HandshakeInv ==
    /\ Counted /\ LinksOK
    /\ CoveredWereMembers /\ CoveredIsClosing
    /\ RevokingWasPublished /\ FlushedWasPublished

-----------------------------------------------------------------------------
(* Queues.                                                                 *)

LEMMA AppendCommand ==
    ASSUME NEW q \in Seq(Command), Alternates(q), NEW x \in Command, NEW h,
           q = <<>> \/ q[Len(q)] # x
    PROVE  /\ Append(q, x) \in Seq(Command) /\ Alternates(Append(q, x))
           /\ Ends(Append(q, x), h) <=> x = "SUBSCRIBE"
<1>1. Len(Append(q, x)) = Len(q) + 1 /\ Append(q, x)[Len(q) + 1] = x
  OBVIOUS
<1>2. \A i \in 1..Len(q) : Append(q, x)[i] = q[i]
  OBVIOUS
<1>3. q = <<>> => Len(q) = 0
  OBVIOUS
<1>4. Alternates(Append(q, x))
  BY <1>1, <1>2, <1>3 DEF Alternates
<1>5. Append(q, x) # <<>> /\ Append(q, x) \in Seq(Command)
  BY <1>1
<1> QED
  BY <1>1, <1>4, <1>5 DEF Ends

LEMMA TailCommand ==
    ASSUME NEW q \in Seq(Command), Alternates(q), q # <<>>, NEW h
    PROVE  /\ Tail(q) \in Seq(Command) /\ Alternates(Tail(q))
           /\ Ends(Tail(q), Head(q) = "SUBSCRIBE") <=> Ends(q, h)
<1>1. Len(q) \in Nat \ {0} /\ Len(Tail(q)) = Len(q) - 1 /\ Head(q) = q[1]
  OBVIOUS
<1>2. \A i \in 1..(Len(q) - 1) : Tail(q)[i] = q[i + 1]
  OBVIOUS
<1>3. Tail(q) \in Seq(Command)
  OBVIOUS
<1>4. Alternates(Tail(q))
  BY <1>1, <1>2 DEF Alternates
<1>5. \A t \in Seq(Command) : t # <<>> <=> Len(t) # 0
  BY EmptySeq
<1>6. CASE Len(q) = 1
  <2>1. Len(Tail(q)) = 0 /\ Head(q) = q[Len(q)]
    BY <1>1, <1>6
  <2>2. Tail(q) = <<>>
    BY <1>3, <1>5, <2>1, Zenon
  <2> QED
    BY <1>3, <1>4, <2>1, <2>2, Zenon DEF Ends
<1>7. CASE Len(q) # 1
  <2>1. Len(Tail(q)) # 0
    BY <1>1, <1>7
  <2>2. Tail(q) # <<>>
    BY <1>3, <1>5, <2>1, Zenon
  <2>3. Len(q) - 1 \in 1..(Len(q) - 1) /\ (Len(q) - 1) + 1 = Len(q)
    BY <1>1, <1>7
  <2>4. Tail(q)[Len(q) - 1] = q[Len(q)]
    BY <1>2, <2>3
  <2> QED
    BY <1>1, <1>3, <1>4, <2>2, <2>4 DEF Ends
<1> QED
  BY <1>6, <1>7

LEMMA OneCommand ==
    /\ \A h : Ends(<<>>, h) <=> h
    /\ <<>> \in Seq(Command) /\ Alternates(<<>>)
    /\ <<"SUBSCRIBE">> \in Seq(Command) /\ Alternates(<<"SUBSCRIBE">>)
    /\ \A h : Ends(<<"SUBSCRIBE">>, h)
  BY DEF Ends, Alternates, Command

-----------------------------------------------------------------------------
(* Members.                                                                *)

LEMMA ControlType ==
    ASSUME NEW c \in Conn
    PROVE  /\ SessionOf[c] \in Session /\ UserOf[SessionOf[c]] \in User
           /\ ControlOf(c) \subseteq Control /\ ReplicaOf[c] \in Replica
           /\ \A ch \in ControlOf(c) : <<ReplicaOf[c], ch>> \in Link
  BY HandshakeAssumption DEF ControlOf, Control, Link

LEMMA SameMembers ==
    ASSUME LinksOK, UNCHANGED <<wire, heard, failed, joined>> PROVE LinksOK'
<1>1. \A k : On(k)' = On(k)
  BY DEF On
<1> QED
  BY <1>1 DEF LinksOK, LinkOK

-----------------------------------------------------------------------------
(* Links.                                                                  *)

LEMMA RegisterKeepsLinks ==
    ASSUME Counted, LinksOK, NEW c \in Conn, Register(c) PROVE LinksOK'
<1>1. /\ joined' = [joined EXCEPT ![c] = ControlOf(c)] /\ heard' = heard /\ failed' = failed
      /\ wire' = [k \in Link |->
                    IF k[1] = ReplicaOf[c] /\ k[2] \in ControlOf(c) /\ On(k) = {}
                    THEN Append(wire[k], "SUBSCRIBE") ELSE wire[k]]
  BY DEF Register
<1>2. ASSUME NEW k \in Link PROVE LinkOK(k)'
  <2>1. On(k)' = IF k[1] = ReplicaOf[c] /\ k[2] \in ControlOf(c) THEN On(k) \cup {c} ELSE On(k)
    BY <1>1 DEF On, Counted
  <2>2. CASE k[1] = ReplicaOf[c] /\ k[2] \in ControlOf(c) /\ On(k) = {}
    <3>1. wire[k] \in Seq(Command) /\ Alternates(wire[k])
      BY DEF LinksOK, LinkOK
    <3>2. wire[k] = <<>> \/ wire[k][Len(wire[k])] # "SUBSCRIBE"
      BY <2>2 DEF LinksOK, LinkOK, Ends
    <3>3. wire'[k] = Append(wire[k], "SUBSCRIBE")
      BY <1>1, <2>2
    <3> QED
      BY <1>1, <2>1, <2>2, <3>1, <3>2, <3>3, AppendCommand DEF LinkOK, Command
  <2>3. CASE ~(k[1] = ReplicaOf[c] /\ k[2] \in ControlOf(c) /\ On(k) = {})
    <3>1. wire'[k] = wire[k]
      BY <1>1, <2>3
    <3>2. On(k)' # {} <=> On(k) # {}
      BY <2>1, <2>3
    <3> QED
      BY <1>1, <3>1, <3>2 DEF LinksOK, LinkOK
  <2> QED
    BY <2>2, <2>3
<1> QED
  BY <1>1, <1>2 DEF LinksOK

\* Connection c gives the channel of link k up, if it had it.
LEMMA GivingUp ==
    ASSUME LinksOK, NEW k \in Link, NEW c, UNCHANGED <<heard, failed>>,
           On(k)' = On(k) \ {c},
           wire'[k] = IF On(k) = {c} THEN Append(wire[k], "UNSUBSCRIBE") ELSE wire[k]
    PROVE  LinkOK(k)'
<1>1. CASE On(k) = {c}
  <2>1. wire[k] \in Seq(Command) /\ Alternates(wire[k])
    BY DEF LinksOK, LinkOK
  <2>2. wire[k] = <<>> \/ wire[k][Len(wire[k])] # "UNSUBSCRIBE"
    BY <1>1 DEF LinksOK, LinkOK, Ends
  <2> QED
    BY <1>1, <2>1, <2>2, AppendCommand DEF LinkOK, Command
<1>2. CASE On(k) # {c}
  <2>1. On(k)' # {} <=> On(k) # {}
    BY <1>2
  <2> QED
    BY <1>2, <2>1 DEF LinksOK, LinkOK
<1> QED
  BY <1>1, <1>2

LEMMA DepartKeepsLinks ==
    ASSUME Counted, LinksOK, NEW c \in Conn, Depart(c) PROVE LinksOK'
<1>1. /\ joined' = [joined EXCEPT ![c] = {}] /\ heard' = heard /\ failed' = failed
      /\ wire' = [k \in Link |-> IF On(k) = {c} THEN Append(wire[k], "UNSUBSCRIBE")
                                                ELSE wire[k]]
  BY DEF Depart
<1>2. ASSUME NEW k \in Link PROVE LinkOK(k)'
  <2>1. On(k)' = On(k) \ {c}
    BY <1>1 DEF On, Counted
  <2> QED
    BY <1>1, <2>1, GivingUp
<1> QED
  BY <1>1, <1>2 DEF LinksOK

LEMMA LeaveKeepsLinks ==
    ASSUME Counted, LinksOK, NEW c \in Conn, NEW ch \in Control, Leave(c, ch) PROVE LinksOK'
<1>1. /\ joined' = [joined EXCEPT ![c] = joined[c] \ {ch}]
      /\ heard' = heard /\ failed' = failed
      /\ wire' = [k \in Link |-> IF k[2] = ch /\ On(k) = {c}
                                 THEN Append(wire[k], "UNSUBSCRIBE") ELSE wire[k]]
  BY DEF Leave
<1>2. ASSUME NEW k \in Link PROVE LinkOK(k)'
  <2>1. CASE k[2] = ch
    <3>1. On(k)' = On(k) \ {c}
      BY <1>1, <2>1 DEF On, Counted
    <3> QED
      BY <1>1, <2>1, <3>1, GivingUp
  <2>2. CASE k[2] # ch
    <3>1. On(k)' = On(k) /\ wire'[k] = wire[k]
      BY <1>1, <2>2 DEF On, Counted
    <3> QED
      BY <1>1, <3>1 DEF LinksOK, LinkOK
  <2> QED
    BY <2>1, <2>2
<1> QED
  BY <1>1, <1>2 DEF LinksOK

LEMMA RedisKeepsLinks ==
    ASSUME LinksOK, NEW k \in Link, RedisExecutes(k) PROVE LinksOK'
<1>1. /\ wire[k] # <<>> /\ joined' = joined /\ wire' = [wire EXCEPT ![k] = Tail(wire[k])]
      /\ heard' = IF Head(wire[k]) = "SUBSCRIBE" THEN heard \cup {k} ELSE heard \ {k}
      /\ failed' = failed \ {k}
  BY DEF RedisExecutes
<1>2. \A l : On(l)' = On(l)
  BY <1>1 DEF On
<1>3. wire' = [l \in Link |-> IF l = k THEN Tail(wire[k]) ELSE wire[l]]
  BY <1>1 DEF LinksOK
<1>4. LinkOK(k)'
  <2>1. wire[k] \in Seq(Command) /\ Alternates(wire[k])
    BY DEF LinksOK, LinkOK
  <2>2. (k \in heard' \cup failed') = (Head(wire[k]) = "SUBSCRIBE")
    BY <1>1
  <2> QED
    BY <1>1, <1>2, <1>3, <2>1, <2>2, TailCommand DEF LinksOK, LinkOK
<1>5. ASSUME NEW l \in Link, l # k PROVE LinkOK(l)'
  <2>1. wire'[l] = wire[l] /\ (l \in heard' \cup failed') = (l \in heard \cup failed)
    BY <1>1, <1>3, <1>5
  <2> QED
    BY <1>2, <2>1 DEF LinksOK, LinkOK
<1> QED
  BY <1>1, <1>3, <1>4, <1>5 DEF LinksOK

LEMMA RelinkKeepsLinks ==
    ASSUME LinksOK, NEW r \in Replica, NEW lost, NEW missed \in SUBSET Control,
           \A ch \in missed : On(<<r, ch>>) # {}, relink(r, lost, missed)
    PROVE  LinksOK'
<1>1. /\ joined' = joined /\ heard' = {k \in heard : k[1] # r}
      /\ failed' = {k \in failed : k[1] # r} \cup {<<r, ch>> : ch \in missed}
      /\ wire' = [k \in Link |-> CASE k[1] # r -> wire[k]
                                   [] k[1] = r /\ (On(k) = {} \/ k[2] \in missed) -> <<>>
                                   [] OTHER -> <<"SUBSCRIBE">>]
  BY Zenon DEF relink
<1>2. \A k : On(k)' = On(k)
  BY <1>1 DEF On
<1>3. ASSUME NEW k \in Link PROVE LinkOK(k)'
  <2>1. k = <<k[1], k[2]>>
    BY DEF Link
  <2>2. CASE k[1] # r
    <3>1. wire'[k] = wire[k] /\ (k \in heard' \cup failed') = (k \in heard \cup failed)
      BY <1>1, <2>2
    <3> QED
      BY <1>2, <3>1 DEF LinksOK, LinkOK
  <2>3. CASE k[1] = r /\ k[2] \in missed
    <3>1. wire'[k] = <<>> /\ k \in heard' \cup failed' /\ On(k) # {}
      BY <1>1, <2>1, <2>3
    <3> QED
      BY <1>2, <3>1, OneCommand DEF LinkOK, Ends
  <2>4. CASE k[1] = r /\ k[2] \notin missed /\ On(k) = {}
    <3>1. wire'[k] = <<>> /\ k \notin heard' \cup failed'
      BY <1>1, <2>4
    <3> QED
      BY <1>2, <2>4, <3>1, OneCommand DEF LinkOK, Ends
  <2>5. CASE k[1] = r /\ k[2] \notin missed /\ On(k) # {}
    BY <1>1, <1>2, <2>5, OneCommand DEF LinkOK
  <2> QED
    BY <2>2, <2>3, <2>4, <2>5
<1>4. failed' \subseteq Link
  BY <1>1 DEF LinksOK, Link
<1> QED
  BY <1>1, <1>3, <1>4 DEF LinksOK

LEMMA BreaksAreRelinks ==
    ASSUME NEW r \in Replica, NEW lost \in SUBSET Control, Breaks(r, lost)
    PROVE  \E missed \in SUBSET Control :
              relink(r, lost, missed) /\ \A ch \in missed : On(<<r, ch>>) # {}
<1>1. CASE LinkLost(r, lost)
  <2>1. {} \in SUBSET Control /\ relink(r, lost, {})
    BY <1>1 DEF LinkLost
  <2> QED
    BY <2>1
<1>2. CASE \E ch \in Control : SubscribeFails(<<r, ch>>, lost)
  <2>1. PICK ch \in Control : SubscribeFails(<<r, ch>>, lost)
    BY <1>2
  <2>2. <<r, ch>>[1] = r /\ <<r, ch>>[2] = ch
    OBVIOUS
  <2>3. relink(r, lost, {ch}) /\ On(<<r, ch>>) # {}
    BY <2>1, <2>2 DEF SubscribeFails
  <2> QED
    BY <2>3
<1> QED
  BY <1>1, <1>2 DEF Breaks

LEMMA ExitKeepsLinks ==
    ASSUME Counted, LinksOK, NEW r \in Replica, Exit(r) PROVE LinksOK'
<1>1. /\ joined' = [c \in Conn |-> IF ReplicaOf[c] = r THEN {} ELSE joined[c]]
      /\ heard' = {k \in heard : k[1] # r} /\ failed' = {k \in failed : k[1] # r}
      /\ wire' = [k \in Link |-> IF k[1] = r THEN <<>> ELSE wire[k]]
  BY DEF Exit
<1>2. ASSUME NEW k \in Link PROVE LinkOK(k)'
  <2>1. CASE k[1] = r
    <3>1. On(k)' = {}
      BY <1>1, <2>1 DEF On
    <3>2. wire'[k] = <<>> /\ k \notin heard' \cup failed'
      BY <1>1, <2>1
    <3> QED
      BY <3>1, <3>2, OneCommand DEF LinkOK, Ends
  <2>2. CASE k[1] # r
    <3>1. On(k)' = On(k)
      BY <1>1, <2>2 DEF On
    <3>2. wire'[k] = wire[k] /\ (k \in heard' \cup failed') = (k \in heard \cup failed)
      BY <1>1, <2>2
    <3> QED
      BY <3>1, <3>2 DEF LinksOK, LinkOK
  <2> QED
    BY <2>1, <2>2
<1> QED
  BY <1>1, <1>2 DEF LinksOK

LEMMA NextLinks == Counted /\ LinksOK /\ [Next]_vars => LinksOK'
<1> SUFFICES ASSUME Counted, LinksOK, [Next]_vars PROVE LinksOK'
  OBVIOUS
<1>1. ASSUME UNCHANGED <<wire, heard, failed, joined>> PROVE LinksOK'
  BY <1>1, SameMembers
<1>2. ASSUME NEW c \in Conn, Handshakes(c) \/ Connections(c) PROVE LinksOK'
  <2>1. CASE Handshakes(c) \/ PingTimesOut(c)
    BY <1>1, <2>1 DEF Handshakes, Ask, ws_auth, ValidateFails, Accept, PingTimesOut, linkVars
  <2> QED
    BY <1>2, <2>1, RegisterKeepsLinks, DepartKeepsLinks, LeaveKeepsLinks DEF Connections
<1>3. ASSUME NEW k \in Link, Messages(k) PROVE LinksOK'
  <2>1. CASE HubRevokes(k) \/ MessageDropped(k)
    BY <1>1, <2>1 DEF HubRevokes, MessageDropped
  <2> QED
    BY <1>3, <2>1, RedisKeepsLinks DEF Messages
<1>4. ASSUME NEW r \in Replica, Life(r) PROVE LinksOK'
  <2>1. CASE Sigterm(r) \/ Start(r)
    BY <1>1, <2>1 DEF Sigterm, Start, linkVars
  <2> QED
    BY <1>4, <2>1, ExitKeepsLinks DEF Life
<1>5. ASSUME NEW r \in Replica, NEW lost \in SUBSET Control, Breaks(r, lost) PROVE LinksOK'
  BY <1>5, BreaksAreRelinks, RelinkKeepsLinks
<1>6. ASSUME NEW s \in Session, Logouts(s) PROVE LinksOK'
  BY <1>1, <1>6 DEF Logouts, LogoutPublishes, LogoutRaises, LogoutFlushes, publish, linkVars
<1>7. ASSUME NEW u \in User, Bans(u) PROVE LinksOK'
  BY <1>1, <1>7 DEF Bans, BanDeletes, force_logout_user, publish, linkVars
<1>8. CASE UNCHANGED vars
  BY <1>1, <1>8 DEF vars, linkVars
<1> QED
  BY <1>2, <1>3, <1>4, <1>5, <1>6, <1>7, <1>8 DEF Next

-----------------------------------------------------------------------------
(* Counters, and what Django publishes.                                    *)

LEMMA PublishCounted ==
    ASSUME Counted, NEW ch \in Control, publish(ch)
    PROVE  /\ inbox' \in [Link -> Nat] /\ \A k \in Link : inbox'[k] <= publishes'
           /\ publishes' \in 0..MaxPublish
           /\ published' = published \cup {ch} /\ published' \subseteq Control
           /\ covered' \subseteq Conn /\ UNCHANGED <<conn, joined, deaf, process, losses>>
<1>1. MaxPublish \in Nat
  BY HandshakeAssumption
<1>2. \A k \in Link : inbox'[k] \in {inbox[k], inbox[k] + 1} /\ inbox[k] \in Nat
  BY DEF publish, Counted
<1>3. publishes' = publishes + 1 /\ publishes < MaxPublish /\ publishes \in Nat
  BY <1>1 DEF publish, Counted
<1>4. inbox' \in [Link -> Nat]
  BY DEF publish, Counted
<1>5. \A k \in Link : inbox'[k] <= publishes'
  BY <1>2, <1>3 DEF Counted
<1> QED
  BY <1>1, <1>3, <1>4, <1>5 DEF publish, Counted

LEMMA RelinkCounted ==
    ASSUME Counted, NEW r \in Replica, NEW lost, NEW missed, relink(r, lost, missed)
    PROVE  Counted' /\ losses' > losses
<1>1. MaxPublish \in Nat /\ MaxLosses \in Nat /\ publishes \in Nat /\ losses \in Nat
  BY HandshakeAssumption DEF Counted
<1>2. /\ losses < MaxLosses /\ losses' = losses + 1
      /\ inbox' = [k \in Link |-> IF k[1] = r /\ k[2] \in lost THEN 0 ELSE inbox[k]]
      /\ covered' \subseteq covered /\ UNCHANGED <<conn, joined, deaf, djangoVars, process>>
  BY Zenon DEF relink, forgets
<1>3. inbox' \in [Link -> Nat] /\ \A k \in Link : inbox'[k] <= publishes
  BY <1>1, <1>2 DEF Counted
<1>4. losses' \in 0..MaxLosses /\ losses' > losses
  BY <1>1, <1>2
<1> QED
  BY <1>2, <1>3, <1>4 DEF Counted, djangoVars

LEMMA MessagesCounted ==
    ASSUME Counted, NEW k \in Link, Messages(k)
    PROVE  Counted' /\ losses' >= losses
<1>1. MaxPublish \in Nat /\ MaxLosses \in Nat /\ publishes \in Nat /\ losses \in Nat
  BY HandshakeAssumption DEF Counted
<1>2. CASE RedisExecutes(k)
  BY <1>1, <1>2 DEF Counted, RedisExecutes, djangoVars
<1>3. CASE HubRevokes(k) \/ MessageDropped(k)
  <2>1. /\ inbox[k] > 0 /\ inbox' = [inbox EXCEPT ![k] = inbox[k] - 1]
        /\ UNCHANGED <<joined, deaf, djangoVars, process>> /\ covered' \subseteq covered
    BY <1>3 DEF HubRevokes, MessageDropped, forgets
  <2>2. inbox' \in [Link -> Nat] /\ \A l \in Link : inbox'[l] <= publishes
    BY <1>1, <2>1 DEF Counted
  <2>3. losses' \in 0..MaxLosses /\ losses' >= losses
    BY <1>1, <1>3 DEF HubRevokes, MessageDropped, Counted
  <2>4. /\ conn' \in [Conn -> ConnState]
        /\ \A c \in Conn : joined[c] # {} => conn'[c] \in {"member", "closing"}
    BY <1>3 DEF HubRevokes, MessageDropped, Counted, ConnState
  <2> QED
    BY <2>1, <2>2, <2>3, <2>4 DEF Counted, djangoVars
<1> QED
  BY <1>2, <1>3 DEF Messages

LEMMA NextCounted == Counted /\ [Next]_vars => Counted'
<1> SUFFICES ASSUME Counted, [Next]_vars PROVE Counted'
  OBVIOUS
<1> USE DEF djangoVars, linkVars, moves, ConnState
<1>1. ASSUME NEW c \in Conn, Handshakes(c) PROVE Counted'
  BY <1>1 DEF Counted, Handshakes, Ask, ws_auth, ValidateFails, Accept
<1>2. ASSUME NEW c \in Conn, Connections(c) PROVE Counted'
  <2>1. CASE Register(c)
    BY <2>1, ControlType DEF Counted, Register
  <2>2. CASE Depart(c)
    BY <2>2 DEF Counted, Depart
  <2>3. CASE PingTimesOut(c)
    BY <2>3 DEF Counted, PingTimesOut
  <2>4. ASSUME NEW ch \in Control, Leave(c, ch) PROVE Counted'
    BY <2>4 DEF Counted, Leave, forgets
  <2> QED
    BY <1>2, <2>1, <2>2, <2>3, <2>4 DEF Connections
<1>3. ASSUME NEW k \in Link, Messages(k) PROVE Counted'
  BY <1>3, MessagesCounted
<1>4. ASSUME NEW r \in Replica, Life(r) PROVE Counted'
  <2>1. CASE Sigterm(r) \/ Start(r)
    BY <2>1 DEF Counted, Sigterm, Start
  <2>2. CASE Exit(r)
    <3>1. inbox' \in [Link -> Nat] /\ \A k \in Link : inbox'[k] <= publishes
      BY <2>2 DEF Counted, Exit
    <3> QED
      BY <2>2, <3>1 DEF Counted, Exit
  <2> QED
    BY <1>4, <2>1, <2>2 DEF Life
<1>5. ASSUME NEW r \in Replica, NEW lost \in SUBSET Control, Breaks(r, lost) PROVE Counted'
  BY <1>5, BreaksAreRelinks, RelinkCounted
<1>6. ASSUME NEW s \in Session, Logouts(s) PROVE Counted'
  <2>1. s \in Control
    BY DEF Control
  <2> QED
    BY <1>6, <2>1, PublishCounted
       DEF Counted, Logouts, LogoutPublishes, LogoutRaises, LogoutFlushes
<1>7. ASSUME NEW u \in User, Bans(u) PROVE Counted'
  <2>1. u \in Control
    BY DEF Control
  <2> QED
    BY <1>7, <2>1, PublishCounted DEF Counted, Bans, BanDeletes, force_logout_user
<1>8. CASE UNCHANGED vars
  BY <1>8 DEF Counted, vars
<1> QED
  BY <1>1, <1>2, <1>3, <1>4, <1>5, <1>6, <1>7, <1>8 DEF Next

LEMMA NextPublished ==
    Counted /\ RevokingWasPublished /\ FlushedWasPublished /\ [Next]_vars
        => RevokingWasPublished' /\ FlushedWasPublished'
<1> SUFFICES ASSUME Counted, RevokingWasPublished, FlushedWasPublished, [Next]_vars
             PROVE  RevokingWasPublished' /\ FlushedWasPublished'
  OBVIOUS
<1> USE DEF Counted, RevokingWasPublished, FlushedWasPublished, djangoVars
<1>1. ASSUME UNCHANGED <<session, published, banned>>
      PROVE  RevokingWasPublished' /\ FlushedWasPublished'
  BY <1>1
<1>2. ASSUME NEW s \in Session, Logouts(s) PROVE RevokingWasPublished' /\ FlushedWasPublished'
  BY <1>2 DEF Logouts, LogoutPublishes, LogoutRaises, LogoutFlushes, publish
<1>3. ASSUME NEW u \in User, Bans(u) PROVE RevokingWasPublished' /\ FlushedWasPublished'
  BY <1>3 DEF Bans, BanDeletes, force_logout_user, publish
<1> QED
  BY <1>1, <1>2, <1>3 DEF Next, Handshakes, Ask, ws_auth, ValidateFails, Accept, Connections,
     Register, Depart, Leave, PingTimesOut, Messages, RedisExecutes, HubRevokes, MessageDropped,
     Life, Sigterm, Exit, Start, Breaks, LinkLost, SubscribeFails, relink, vars

-----------------------------------------------------------------------------
(* Revocations and the connections they reach.                             *)

Reached == CoveredWereMembers /\ CoveredIsClosing

LEMMA PublishReaches ==
    ASSUME Counted, LinksOK, Reached, NEW ch \in Control, publish(ch) PROVE Reached'
<1>1. conn' = conn /\ joined' = joined /\ \A k \in Link : inbox'[k] >= inbox[k]
  BY DEF publish, Counted
<1>2. \A c \in Conn : \A d \in joined[c] : <<ReplicaOf[c], d>> \in Link
  BY ControlType DEF Counted
<1>3. ASSUME NEW c \in Conn, Coming(c) PROVE Coming(c)'
  <2>1. PICK d \in joined[c] : inbox[<<ReplicaOf[c], d>>] > 0
    BY <1>3 DEF Coming
  <2>2. inbox'[<<ReplicaOf[c], d>>] > 0
    BY <1>1, <1>2, <2>1 DEF Counted, publish
  <2> QED
    BY <1>1, <2>2 DEF Coming
<1>4. ASSUME NEW c \in Conn, conn[c] = "member", ch \in joined[c], Settled(c, ch)
      PROVE  Coming(c)'
  <2>1. PICK k \in Link : k = <<ReplicaOf[c], ch>>
    BY <1>2, <1>4
  <2>2. wire[k] = <<>> /\ k \notin failed /\ k[2] = ch /\ c \in On(k)
    BY <1>4, <2>1 DEF Settled, On
  <2>3. k \in heard
    BY <2>2 DEF LinksOK, LinkOK, Ends
  <2>4. inbox'[k] = inbox[k] + 1 /\ inbox[k] \in Nat
    BY <2>2, <2>3 DEF publish, Counted
  <2> QED
    BY <1>1, <1>4, <2>1, <2>4 DEF Coming
<1>5. covered' = covered \cup {c \in Conn : /\ conn[c] = "member"
                                           /\ ch \in joined[c] /\ Settled(c, ch)}
  BY DEF publish
<1>6. covered \subseteq Conn
  BY DEF Counted
<1> QED
  BY <1>1, <1>3, <1>4, <1>5, <1>6 DEF Reached, CoveredWereMembers, CoveredIsClosing

LEMMA RevokeReaches ==
    ASSUME Counted, Reached, NEW k \in Link, HubRevokes(k) PROVE Reached'
<1>1. /\ covered' = covered /\ joined' = joined
      /\ inbox' = [inbox EXCEPT ![k] = inbox[k] - 1]
      /\ conn' = [c \in Conn |-> IF c \in On(k) THEN "closing" ELSE conn[c]]
  BY DEF HubRevokes
<1>2. ASSUME NEW c \in covered
      PROVE  /\ conn'[c] \in {"member", "closing", "closed"}
             /\ conn'[c] \in {"closing", "closed"} \/ Coming(c)'
  <2>1. c \in Conn /\ conn[c] \in {"member", "closing", "closed"}
    BY DEF Counted, Reached, CoveredWereMembers
  <2>2. CASE c \in On(k)
    BY <1>1, <2>1, <2>2
  <2>3. CASE c \notin On(k) /\ conn[c] = "member"
    <3>1. PICK d \in joined[c] : inbox[<<ReplicaOf[c], d>>] > 0
      BY <2>3 DEF Reached, CoveredIsClosing, Coming
    <3>2. <<ReplicaOf[c], d>> \in Link /\ <<ReplicaOf[c], d>> # k
      BY <2>1, <2>3, <3>1, ControlType DEF On, Counted
    <3>3. inbox'[<<ReplicaOf[c], d>>] > 0
      BY <1>1, <3>1, <3>2 DEF Counted
    <3> QED
      BY <1>1, <2>1, <2>3, <3>1, <3>3 DEF Coming
  <2>4. CASE c \notin On(k) /\ conn[c] # "member"
    BY <1>1, <2>1, <2>4
  <2> QED
    BY <2>2, <2>3, <2>4
<1> QED
  BY <1>1, <1>2 DEF Reached, CoveredWereMembers, CoveredIsClosing

\* A step that takes messages or members away keeps only those still reached.
LEMMA ForgetsReaches ==
    ASSUME Counted, Reached, conn' = conn, forgets PROVE Reached'
<1>1. ASSUME NEW c \in covered'
      PROVE  /\ conn[c] \in {"member", "closing", "closed"}
             /\ conn[c] \in {"closing", "closed"} \/ Coming(c)'
  BY <1>1 DEF forgets, Reached, CoveredWereMembers
<1> QED
  BY <1>1 DEF Reached, CoveredWereMembers, CoveredIsClosing

LEMMA NextReached == Counted /\ LinksOK /\ Reached /\ [Next]_vars => Reached'
<1> SUFFICES ASSUME Counted, LinksOK, Reached, [Next]_vars PROVE Reached'
  OBVIOUS
<1> USE DEF djangoVars, linkVars
<1>1. ASSUME UNCHANGED <<inbox, covered>>,
             \A c \in Conn : \/ conn'[c] = conn[c] /\ joined'[c] = joined[c]
                             \/ conn[c] \notin {"member", "closing", "closed"}
                             \/ conn'[c] = "closed"
      PROVE  Reached'
  BY <1>1 DEF Counted, Reached, CoveredWereMembers, CoveredIsClosing, Coming
<1>2. ASSUME NEW c \in Conn, Handshakes(c) \/ Register(c) \/ Depart(c) PROVE Reached'
  <2>1. UNCHANGED <<inbox, covered>>
    BY <1>2 DEF Handshakes, Ask, ws_auth, ValidateFails, Accept, Register, Depart
  <2>2. /\ \E to \in ConnState :
              /\ conn' = [conn EXCEPT ![c] = to]
              /\ conn[c] \notin {"member", "closing", "closed"} \/ to = "closed"
        /\ \A d \in Conn : d # c => joined'[d] = joined[d]
    BY <1>2 DEF Handshakes, Ask, ws_auth, ValidateFails, Accept, Register, Depart, moves,
       ConnState, Counted
  <2> QED
    BY <1>1, <2>1, <2>2 DEF Counted
<1>3. ASSUME NEW c \in Conn, Connections(c) PROVE Reached'
  <2>1. CASE PingTimesOut(c)
    BY <1>1, <2>1 DEF PingTimesOut
  <2>2. ASSUME NEW ch \in Control, Leave(c, ch) PROVE Reached'
    BY <2>2, ForgetsReaches DEF Leave
  <2> QED
    BY <1>2, <1>3, <2>1, <2>2 DEF Connections
<1>4. ASSUME NEW k \in Link, Messages(k) PROVE Reached'
  <2>1. CASE RedisExecutes(k)
    BY <1>1, <2>1 DEF RedisExecutes
  <2>2. CASE MessageDropped(k)
    BY <2>2, ForgetsReaches DEF MessageDropped
  <2> QED
    BY <1>4, <2>1, <2>2, RevokeReaches DEF Messages
<1>5. ASSUME NEW r \in Replica, Life(r) PROVE Reached'
  <2>1. CASE Sigterm(r) \/ Start(r)
    BY <1>1, <2>1 DEF Sigterm, Start
  <2>2. CASE Exit(r)
    <3>1. /\ covered' = covered
          /\ conn' = [c \in Conn |-> IF ReplicaOf[c] = r /\ conn[c] \notin {"none", "refused"}
                                     THEN "closed" ELSE conn[c]]
          /\ joined' = [c \in Conn |-> IF ReplicaOf[c] = r THEN {} ELSE joined[c]]
          /\ inbox' = [k \in Link |-> IF k[1] = r THEN 0 ELSE inbox[k]]
      BY <2>2 DEF Exit
    <3>2. ASSUME NEW c \in covered
          PROVE  /\ conn'[c] \in {"member", "closing", "closed"}
                 /\ conn'[c] \in {"closing", "closed"} \/ Coming(c)'
      <4>1. c \in Conn /\ conn[c] \in {"member", "closing", "closed"}
        BY DEF Counted, Reached, CoveredWereMembers
      <4>2. CASE ReplicaOf[c] = r
        BY <3>1, <4>1, <4>2
      <4>3. CASE ReplicaOf[c] # r
        <5>1. joined'[c] = joined[c] /\ conn'[c] = conn[c]
          BY <3>1, <4>1, <4>3
        <5>2. \A d \in joined[c] : inbox'[<<ReplicaOf[c], d>>] = inbox[<<ReplicaOf[c], d>>]
          BY <3>1, <4>1, <4>3, ControlType DEF Counted
        <5> QED
          BY <4>1, <5>1, <5>2 DEF Reached, CoveredIsClosing, Coming
      <4> QED
        BY <4>2, <4>3
    <3> QED
      BY <3>1, <3>2 DEF Reached, CoveredWereMembers, CoveredIsClosing
  <2> QED
    BY <1>5, <2>1, <2>2 DEF Life
<1>6. ASSUME NEW r \in Replica, NEW lost \in SUBSET Control, Breaks(r, lost) PROVE Reached'
  <2>1. conn' = conn /\ forgets
    BY <1>6, BreaksAreRelinks, Zenon DEF relink
  <2> QED
    BY <2>1, ForgetsReaches
<1>7. ASSUME NEW s \in Session, Logouts(s) PROVE Reached'
  <2>1. s \in Control
    BY DEF Control
  <2> QED
    BY <1>1, <1>7, <2>1, PublishReaches
       DEF Logouts, LogoutPublishes, LogoutRaises, LogoutFlushes
<1>8. ASSUME NEW u \in User, Bans(u) PROVE Reached'
  <2>1. u \in Control
    BY DEF Control
  <2> QED
    BY <1>1, <1>8, <2>1, PublishReaches DEF Bans, BanDeletes, force_logout_user
<1>9. CASE UNCHANGED vars
  BY <1>1, <1>9 DEF vars
<1> QED
  BY <1>2, <1>3, <1>4, <1>5, <1>6, <1>7, <1>8, <1>9 DEF Next

-----------------------------------------------------------------------------
LEMMA InitHandshake == Init => HandshakeInv
<1> SUFFICES ASSUME Init PROVE HandshakeInv
  OBVIOUS
<1>1. Counted
  BY HandshakeAssumption DEF Init, Counted, ConnState
<1>2. \A k \in Link : On(k) = {} /\ wire[k] = <<>> /\ k \notin heard \cup failed
  BY DEF Init, On
<1>3. LinksOK
  BY <1>2, OneCommand DEF Init, LinksOK, LinkOK, Ends
<1> QED
  BY <1>1, <1>3 DEF Init, HandshakeInv, CoveredWereMembers, CoveredIsClosing,
                    RevokingWasPublished, FlushedWasPublished

LEMMA Inductive == Spec => []HandshakeInv
<1>1. HandshakeInv /\ [Next]_vars => HandshakeInv'
  BY NextLinks, NextCounted, NextPublished, NextReached DEF HandshakeInv, Reached
<1> QED
  BY <1>1, InitHandshake, PTL DEF Spec

\* The types, and that SUBSCRIBE and UNSUBSCRIBE of a channel alternate.
THEOREM HandshakeTypeCorrect == Spec => []HandshakeTypeOK
<1>1. HandshakeInv => HandshakeTypeOK
  <2> SUFFICES ASSUME HandshakeInv PROVE HandshakeTypeOK
    OBVIOUS
  <2>1. wire \in [Link -> Seq(Command)] /\ \A k \in Link : Alternates(wire[k])
    BY DEF HandshakeInv, LinksOK, LinkOK
  <2>2. inbox \in [Link -> 0..MaxPublish]
    <3>1. \A k \in Link : inbox[k] \in 0..MaxPublish
      BY HandshakeAssumption DEF HandshakeInv, Counted
    <3> QED
      BY <3>1 DEF HandshakeInv, Counted
  <2> QED
    BY <2>1, <2>2 DEF HandshakeInv, Counted, LinksOK, HandshakeTypeOK, Command, Alternates
<1> QED
  BY <1>1, Inductive, PTL

\* A replica ends up subscribed to exactly the control channels it has
\* members for, those whose SUBSCRIBE failed apart.
THEOREM AlwaysSubscribedWhileWanted == Spec => []SubscribedWhileWanted
<1>1. HandshakeInv => SubscribedWhileWanted
  BY DEF HandshakeInv, LinksOK, LinkOK, Ends, SubscribedWhileWanted
<1> QED
  BY <1>1, Inductive, PTL

\* A revocation executed when a member is settled on its channel reaches it,
\* unless the link breaks, go-redis drops the message, or the member
\* unsubscribes the channel first.
THEOREM CoveredAlwaysClosing == Spec => []CoveredIsClosing
<1>1. HandshakeInv => CoveredIsClosing
  BY DEF HandshakeInv
<1> QED
  BY <1>1, Inductive, PTL

\* No logout ends a session without having published its revocation.
THEOREM FlushedAlwaysPublished == Spec => []FlushedWasPublished
<1>1. HandshakeInv => FlushedWasPublished
  BY DEF HandshakeInv
<1> QED
  BY <1>1, Inductive, PTL

-----------------------------------------------------------------------------
(* What a logout still guarantees, LogoutCloses being false of the code    *)
(* (run handshake_logout): nobody gets in afterwards, and a connection     *)
(* that was ready before is told, with the exceptions named below.         *)

\* The connections of s that ws_auth let in and that have not ended.
Admitted(s) ==
    {c \in Conn : SessionOf[c] = s /\ conn[c] \in {"valid", "open", "member", "closing"}}

\* A session that is gone never returns, and lets no other connection in
\* (_views.py: ws_auth loads the session row on every handshake).
GoneAdmitsNobody ==
    [][\A s \in Session : session[s] = "gone" =>
          session'[s] = "gone" /\ Admitted(s)' \subseteq Admitted(s)]_vars

LEMMA GoneStaysGone ==
    Counted /\ [Next]_vars =>
        \A s \in Session : session[s] = "gone" => session'[s] = "gone"
<1> SUFFICES ASSUME Counted, [Next]_vars, NEW s \in Session, session[s] = "gone"
             PROVE  session'[s] = "gone"
  OBVIOUS
<1>1. ASSUME NEW z \in Session, Logouts(z) PROVE session'[s] = "gone"
  BY <1>1 DEF Counted, Logouts, LogoutPublishes, LogoutRaises, LogoutFlushes
<1>2. ASSUME NEW u \in User, Bans(u) PROVE session'[s] = "gone"
  BY <1>2 DEF Counted, Bans, BanDeletes, force_logout_user
<1> QED
  BY <1>1, <1>2 DEF Next, vars, djangoVars, Handshakes, Ask, ws_auth, ValidateFails, Accept,
     Connections, Register, Depart, Leave, PingTimesOut, Messages, RedisExecutes, HubRevokes,
     MessageDropped, Life, Sigterm, Exit, Start, Breaks, LinkLost, SubscribeFails, relink

\* What a step may do to the state of connection c.
Moved(c) ==
    \/ conn'[c] = conn[c]
    \/ conn[c] \in {"none", "asking", "valid"} /\ conn'[c] = "refused"
    \/ conn[c] = "none" /\ conn'[c] = "asking"
    \/ conn[c] = "asking" /\ conn'[c] = "valid" /\ session[SessionOf[c]] # "gone"
    \/ conn[c] = "valid" /\ conn'[c] = "open"
    \/ conn[c] = "open" /\ conn'[c] = "member"
    \/ conn[c] \in {"member", "closing"} /\ conn'[c] = "closing"
    \/ conn[c] \notin {"none", "refused"} /\ conn'[c] = "closed"

LEMMA Moves ==
    ASSUME Counted, [Next]_vars, NEW c \in Conn PROVE Moved(c)
<1>1. ASSUME NEW d \in Conn, Handshakes(d) \/ Register(d) \/ Depart(d) PROVE Moved(c)
  BY <1>1 DEF Counted, moves, Moved, Handshakes, Ask, ws_auth, ValidateFails, Accept,
     Register, Depart
<1>2. ASSUME NEW k \in Link, HubRevokes(k) PROVE Moved(c)
  BY <1>2 DEF HubRevokes, On, Counted, Moved
<1>3. ASSUME NEW r \in Replica, Exit(r) PROVE Moved(c)
  BY <1>3 DEF Exit, Moved
<1> QED
  BY <1>1, <1>2, <1>3
     DEF Moved, Next, vars, Connections, Leave, PingTimesOut, Messages, RedisExecutes, MessageDropped,
     Breaks, LinkLost, SubscribeFails, relink, Life, Sigterm, Start, Logouts, LogoutPublishes,
     LogoutRaises, LogoutFlushes, publish, Bans, BanDeletes, force_logout_user

\* From the flush on, the connections of a session only end.
THEOREM GoneAlwaysAdmitsNobody == Spec => GoneAdmitsNobody
<1>1. HandshakeInv /\ [Next]_vars =>
        [\A s \in Session : session[s] = "gone" =>
            session'[s] = "gone" /\ Admitted(s)' \subseteq Admitted(s)]_vars
  <2> SUFFICES ASSUME HandshakeInv, [Next]_vars, NEW s \in Session, session[s] = "gone"
               PROVE  session'[s] = "gone" /\ Admitted(s)' \subseteq Admitted(s)
    OBVIOUS
  <2>1. session'[s] = "gone"
    BY GoneStaysGone DEF HandshakeInv
  <2>2. ASSUME NEW c \in Conn, SessionOf[c] = s,
               conn'[c] \in {"valid", "open", "member", "closing"}
        PROVE  conn[c] \in {"valid", "open", "member", "closing"}
    BY <2>2, Moves DEF HandshakeInv, Moved
  <2> QED
    BY <2>1, <2>2 DEF Admitted
<1> QED
  BY <1>1, Inductive, PTL DEF Spec, GoneAdmitsNobody

\* The hub has registered c, Redis has executed the SUBSCRIBE of its session's
\* channel, which c has not left, and nobody has begun to log the session out.
Ready(c) ==
    /\ conn[c] = "member" /\ SessionOf[c] \in joined[c] /\ Settled(c, SessionOf[c])
    /\ session[SessionOf[c]] = "live"

\* logout() has published for the session of c, and a ban did not end it.
LoggedOut(c) == session[SessionOf[c]] # "live" /\ UserOf[SessionOf[c]] \notin banned

\* The revocation is on its way to c, or c is ending.
Told(c) == conn[c] \in {"closing", "closed"} \/ Coming(c)

\* What makes a ready connection be told, whatever its other tabs do.
Sheltered(c) ==
    \/ conn[c] \in {"closing", "closed"}
    \/ conn[c] = "member" /\ SessionOf[c] \notin joined[c]
    \/ /\ conn[c] = "member" /\ SessionOf[c] \in joined[c] /\ Settled(c, SessionOf[c])
       /\ \/ session[SessionOf[c]] = "live"
          \/ UserOf[SessionOf[c]] \in banned
          \/ inbox[<<ReplicaOf[c], SessionOf[c]>>] > 0

LEMMA LossCounts ==
    ASSUME Counted, NEW r \in Replica, NEW lost \in SUBSET Control, Breaks(r, lost)
    PROVE  losses \in Nat /\ losses' \in Nat /\ losses' > losses
<1>1. Counted' /\ losses' > losses
  BY BreaksAreRelinks, RelinkCounted
<1> QED
  BY <1>1, HandshakeAssumption DEF Counted

LEMMA LossesGrow == Counted /\ [Next]_vars => losses' \in Nat /\ losses' >= losses
<1> SUFFICES ASSUME Counted, [Next]_vars PROVE losses' \in Nat /\ losses' >= losses
  OBVIOUS
<1>1. losses \in Nat
  BY HandshakeAssumption DEF Counted
<1>2. ASSUME NEW k \in Link, Messages(k) PROVE losses' \in Nat /\ losses' >= losses
  BY <1>2, MessagesCounted, HandshakeAssumption DEF Counted
<1>3. \/ losses' = losses
      \/ \E k \in Link : Messages(k)
      \/ \E r \in Replica : \E lost \in SUBSET Control : Breaks(r, lost)
  BY DEF Next, vars, linkVars, Handshakes, Ask, ws_auth, ValidateFails, Accept, Connections,
     Register, Depart, Leave, PingTimesOut, Life, Sigterm, Exit, Start,
     Logouts, LogoutPublishes, LogoutRaises, LogoutFlushes, publish, Bans, BanDeletes,
     force_logout_user
<1> QED
  BY <1>1, <1>2, <1>3, LossCounts

\* A member's channel is asked for already, and not given up before it leaves.
LEMMA StaysSettled ==
    ASSUME Counted, [Next]_vars, NEW c \in Conn, losses' = losses,
           NEW ch \in joined[c], Settled(c, ch), ch \in joined'[c], conn'[c] = "member"
    PROVE  Settled(c, ch)'
<1> DEFINE k == <<ReplicaOf[c], ch>>
<1>1. k \in Link /\ wire[k] = <<>> /\ k \notin failed /\ c \in On(k) /\ k[2] = ch
  BY ControlType DEF Settled, On, Counted
<1> SUFFICES wire'[k] = <<>> /\ k \notin failed'
  BY DEF Settled
<1> HIDE DEF k
<1>2. ASSUME NEW d \in Conn, Connections(d) PROVE wire'[k] = <<>> /\ k \notin failed'
  <2>1. CASE Register(d) \/ PingTimesOut(d)
    BY <1>1, <2>1 DEF Register, PingTimesOut, linkVars
  <2>2. CASE Depart(d)
    <3>1. d # c
      BY <2>2 DEF Depart, moves, Counted
    <3> QED
      BY <1>1, <2>2, <3>1 DEF Depart
  <2>3. ASSUME NEW x \in Control, Leave(d, x) PROVE wire'[k] = <<>> /\ k \notin failed'
    <3>1. d # c \/ x # ch
      BY <2>3 DEF Leave, Counted
    <3> QED
      BY <1>1, <2>3, <3>1 DEF Leave
  <2> QED
    BY <1>2, <2>1, <2>2, <2>3 DEF Connections
<1>3. ASSUME NEW l \in Link, RedisExecutes(l) PROVE wire'[k] = <<>> /\ k \notin failed'
  BY <1>1, <1>3 DEF RedisExecutes
<1>4. ASSUME NEW r \in Replica, NEW lost \in SUBSET Control, Breaks(r, lost) PROVE FALSE
  BY <1>4, LossCounts
<1>5. ASSUME NEW r \in Replica, Life(r) PROVE wire'[k] = <<>> /\ k \notin failed'
  BY <1>1, <1>5 DEF Life, Sigterm, Exit, Start, linkVars
<1> QED
  BY <1>1, <1>2, <1>3, <1>4, <1>5
     DEF Next, vars, linkVars, Handshakes, Ask, ws_auth, ValidateFails, Accept, Messages,
     HubRevokes, MessageDropped, Logouts, LogoutPublishes, LogoutRaises, LogoutFlushes,
     publish, Bans, BanDeletes, force_logout_user

\* Who has left a channel does not come back to it.
LEMMA StaysLeft ==
    ASSUME Counted, [Next]_vars, NEW c \in Conn, conn[c] = "member"
    PROVE  joined'[c] \subseteq joined[c]
<1>1. ASSUME NEW d \in Conn, Connections(d) PROVE joined'[c] \subseteq joined[c]
  BY <1>1 DEF Counted, Connections, Register, Depart, Leave, PingTimesOut, moves
<1>2. ASSUME NEW r \in Replica, Life(r) PROVE joined'[c] \subseteq joined[c]
  BY <1>2 DEF Life, Sigterm, Exit, Start
<1> QED
  BY <1>1, <1>2
     DEF Next, vars, Handshakes, Ask, ws_auth, ValidateFails, Accept, Messages, RedisExecutes,
     HubRevokes, MessageDropped, Breaks, LinkLost, SubscribeFails, relink, Logouts,
     LogoutPublishes, LogoutRaises, LogoutFlushes, publish, Bans, BanDeletes,
     force_logout_user

\* logout() reaches a settled member in the step in which the session stops
\* being live; then only the hub takes the message up.
LEMMA StaysTold ==
    ASSUME Counted, LinksOK, [Next]_vars, NEW c \in Conn, losses' = losses,
           conn'[c] = "member", SessionOf[c] \in joined[c], Settled(c, SessionOf[c]),
           \/ session[SessionOf[c]] = "live"
           \/ UserOf[SessionOf[c]] \in banned
           \/ inbox[<<ReplicaOf[c], SessionOf[c]>>] > 0
    PROVE  \/ session'[SessionOf[c]] = "live"
           \/ UserOf[SessionOf[c]] \in banned'
           \/ inbox'[<<ReplicaOf[c], SessionOf[c]>>] > 0
<1> DEFINE k == <<ReplicaOf[c], SessionOf[c]>>
           told == \/ session'[SessionOf[c]] = "live"
                   \/ UserOf[SessionOf[c]] \in banned'
                   \/ inbox'[k] > 0
<1>1. /\ k \in Link /\ k \notin failed /\ wire[k] = <<>> /\ c \in On(k)
      /\ k[1] = ReplicaOf[c] /\ k[2] = SessionOf[c]
      /\ SessionOf[c] \in Session /\ SessionOf[c] \in Control
  BY ControlType DEF Settled, On, Counted, Link, Control
<1>2. k \in heard
  BY <1>1 DEF LinksOK, LinkOK, Ends
<1> SUFFICES told
  OBVIOUS
<1>s. \/ session[SessionOf[c]] = "live"
      \/ UserOf[SessionOf[c]] \in banned
      \/ inbox[k] > 0
  OBVIOUS
<1> HIDE DEF k
<1>3. ASSUME NEW s \in Session, Logouts(s) PROVE told
  <2>1. inbox[k] \in Nat
    BY <1>1 DEF Counted
  <2> QED
    BY <1>s, <1>1, <1>2, <1>3, <2>1
       DEF Counted, Logouts, LogoutPublishes, LogoutRaises, LogoutFlushes, publish, linkVars
<1>4. ASSUME NEW u \in User, Bans(u) PROVE told
  <2>1. inbox[k] \in Nat
    BY <1>1 DEF Counted
  <2> QED
    BY <1>s, <1>1, <1>4, <2>1
       DEF Counted, Bans, BanDeletes, force_logout_user, publish, linkVars
<1>5. ASSUME NEW l \in Link, Messages(l) PROVE told
  <2>1. CASE RedisExecutes(l)
    BY <1>s, <2>1 DEF RedisExecutes, djangoVars
  <2>2. CASE HubRevokes(l)
    <3>1. l # k
      BY <1>1, <2>2 DEF HubRevokes
    <3> QED
      BY <1>s, <1>1, <2>2, <3>1 DEF HubRevokes, djangoVars, Counted
  <2>3. CASE MessageDropped(l)
    BY <2>3, HandshakeAssumption DEF MessageDropped, Counted
  <2> QED
    BY <1>5, <2>1, <2>2, <2>3 DEF Messages
<1>6. ASSUME NEW r \in Replica, NEW lost \in SUBSET Control, Breaks(r, lost) PROVE FALSE
  BY <1>6, LossCounts
<1>7. ASSUME NEW r \in Replica, Life(r) PROVE told
  <2>1. CASE Sigterm(r) \/ Start(r)
    BY <1>s, <2>1 DEF Sigterm, Start, djangoVars, linkVars
  <2>2. CASE Exit(r)
    <3>1. r # ReplicaOf[c]
      BY <2>2 DEF Exit
    <3> QED
      BY <1>s, <1>1, <2>2, <3>1 DEF Exit, djangoVars
  <2> QED
    BY <1>7, <2>1, <2>2 DEF Life
<1> QED
  BY <1>s, <1>3, <1>4, <1>5, <1>6, <1>7
     DEF Next, vars, djangoVars, linkVars, Handshakes, Ask, ws_auth, ValidateFails, Accept,
     Connections, Register, Depart, Leave, PingTimesOut

LEMMA StaysSheltered ==
    ASSUME Counted, LinksOK, [Next]_vars, NEW c \in Conn, losses' = losses, Sheltered(c)
    PROVE  Sheltered(c)'
<1>1. conn'[c] \in {"member", "closing", "closed"}
  BY Moves DEF Sheltered, Moved
<1>2. conn[c] \in {"closing", "closed"} => conn'[c] \in {"closing", "closed"}
  BY Moves DEF Moved
<1>3. CASE conn'[c] = "member"
  <2>1. conn[c] = "member"
    BY <1>2, <1>3 DEF Sheltered
  <2>2. joined'[c] \subseteq joined[c]
    BY <2>1, StaysLeft
  <2>3. CASE SessionOf[c] \in joined'[c]
    <3>1. SessionOf[c] \in joined[c] /\ Settled(c, SessionOf[c])
      BY <2>1, <2>2, <2>3 DEF Sheltered
    <3>2. Settled(c, SessionOf[c])'
      BY <1>3, <2>3, <3>1, StaysSettled
    <3> QED
      BY <1>3, <2>1, <2>3, <3>1, <3>2, StaysTold DEF Sheltered
  <2>4. CASE SessionOf[c] \notin joined'[c]
    BY <1>3, <2>4 DEF Sheltered
  <2> QED
    BY <2>3, <2>4
<1> QED
  BY <1>1, <1>3 DEF Sheltered

\* A connection that was ready once is told of the logout of its session from
\* the publish on, however its other tabs come and go, whether publish raises,
\* and with several logouts and bans around it: as long as no link breaks and
\* no message is dropped, and as long as it has not unsubscribed the session's
\* channel itself (main.go:81-125, hub.go:175-176, 217-226, 290-304,
\* revocation.py:40-51).
THEOREM LogoutReachesTheReady ==
    ASSUME NEW c \in Conn, NEW n \in Nat
    PROVE  Spec => [](Ready(c) /\ losses = n =>
                        [](LoggedOut(c) /\ losses = n =>
                              Told(c) \/ SessionOf[c] \notin joined[c]))
<1> DEFINE Since == losses >= n /\ (losses = n => Sheltered(c))
<1>1. HandshakeInv /\ Ready(c) /\ losses = n => Since
  BY DEF Ready, Sheltered
<1>2. HandshakeInv /\ Since /\ [Next]_vars => Since'
  <2> SUFFICES ASSUME HandshakeInv, Since, [Next]_vars PROVE Since'
    OBVIOUS
  <2>1. losses \in Nat /\ losses' \in Nat /\ losses' >= losses
    BY LossesGrow, HandshakeAssumption DEF HandshakeInv, Counted
  <2>2. losses' = n => losses = n /\ losses' = losses
    BY <2>1
  <2> QED
    BY <2>1, <2>2, StaysSheltered DEF HandshakeInv
<1>3. HandshakeInv /\ Since =>
        (LoggedOut(c) /\ losses = n => Told(c) \/ SessionOf[c] \notin joined[c])
  BY DEF Sheltered, LoggedOut, Told, Coming
<1> HIDE DEF Since
<1> QED
  BY <1>1, <1>2, <1>3, Inductive, PTL DEF Spec
=============================================================================
