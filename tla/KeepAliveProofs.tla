-------------------------- MODULE KeepAliveProofs --------------------------
(***************************************************************************)
(* Theorems about KeepAlive, for any settings and any limits.              *)
(***************************************************************************)
EXTENDS KeepAlive, TLAPS

(***************************************************************************)
(* What time can still pass before ReadPump gives up: while it posts, the  *)
(* rest of the post, one post for each waiting frame, and then a whole     *)
(* deadline; while it reads with nothing waiting, the rest of its deadline.*)
(***************************************************************************)
Patience == atLeastZero(cfg.pong)

Budget ==
    conn = "open" =>
        /\ reader # "done"
        /\ reader = "post" => readerLeft <= MaxStall
        /\ reader = "post" => silent + readerLeft + pending * MaxStall + Patience <= Noticed
        /\ reader = "read" /\ pending > 0 => silent + pending * MaxStall + Patience <= Noticed
        /\ reader = "read" /\ pending = 0 => silent + readerLeft <= Noticed

\* A deadline that runs was set no earlier than the last frame.
Renewed ==
    /\ conn = "open" /\ reader = "read" /\ pending = 0 => silent + readerLeft >= cfg.pong
    /\ cut => conn = "closed"

TimerInv == KeepAliveTypeOK /\ (writer = "start" => ticker = cfg.ping)

KeepAliveInv == TimerInv /\ Budget /\ Renewed /\ CutOnlyIfQuiet

-----------------------------------------------------------------------------
LEMMA TimesMonotone ==
    ASSUME NEW a \in Nat, NEW b \in Nat, NEW c \in Nat, a <= b
    PROVE  a * c <= b * c
<1>1. b = a + (b - a) /\ b - a \in Nat
  OBVIOUS
<1>2. (b - a) * c \in Nat
  BY <1>1
<1>3. b * c = a * c + (b - a) * c
  BY <1>1
<1> QED
  BY <1>2, <1>3

LEMMA Numbers ==
    ASSUME cfg \in Config
    PROVE  /\ cfg.pong \in Int /\ cfg.ping \in Int /\ cfg.life \in Int
           /\ Patience \in Nat /\ Patience >= cfg.pong
           /\ (MaxPending + 1) * MaxStall \in Nat
           /\ (MaxPending + 1) * MaxStall = MaxPending * MaxStall + MaxStall
           /\ MaxPending * MaxStall \in Nat
           /\ Noticed \in Nat /\ Noticed = Patience + (MaxPending + 1) * MaxStall
<1>1. cfg \in [pong : Int, ping : Int, life : Int]
  BY KeepAliveAssumption
<1>2. cfg.pong \in Int /\ cfg.ping \in Int /\ cfg.life \in Int
  BY <1>1
<1>3. Patience \in Nat /\ Patience >= cfg.pong
  BY <1>2 DEF Patience, atLeastZero
<1>4. MaxStall \in Nat /\ MaxPending \in Nat
  BY KeepAliveAssumption
<1>5. /\ MaxPending * MaxStall \in Nat
      /\ (MaxPending + 1) * MaxStall = MaxPending * MaxStall + MaxStall
  BY <1>4
<1>6. (MaxPending + 1) * MaxStall \in Nat
  BY <1>4, <1>5
<1>7. Noticed = Patience + (MaxPending + 1) * MaxStall
  BY DEF Noticed, Patience
<1> QED
  BY <1>2, <1>3, <1>5, <1>6, <1>7

LEMMA Limits == MaxStall \in Nat /\ MaxPending \in Nat /\ OpTimeout \in Nat
  BY KeepAliveAssumption

-----------------------------------------------------------------------------
LEMMA InitTimers == Init => TimerInv
<1> SUFFICES ASSUME Init PROVE TimerInv
  OBVIOUS
<1>1. cfg \in Config
  BY DEF Init
<1>2. /\ readerLeft \in Nat /\ writerLeft = 0 /\ lifeLeft \in Nat
      /\ ticker \in Int /\ ticker = cfg.ping
  BY <1>1, Numbers DEF Init, atLeastZero
<1>3. silent \in 0..(Noticed + 1)
  <2> HIDE DEF Noticed
  <2> QED
    BY <1>1, Numbers DEF Init
<1>4. pending \in 0..MaxPending
  BY Limits DEF Init
<1>5. tick \in BOOLEAN /\ cut \in BOOLEAN /\ missed \in BOOLEAN
  BY DEF Init
<1>6. /\ peer \in {"talks", "idle", "deaf", "dead"}
      /\ conn \in {"open", "closing", "closed"} /\ reader \in {"read", "post", "done"}
      /\ writer = "start" /\ writerLeft \in Nat
  BY DEF Init
<1> HIDE DEF Noticed
<1> QED
  BY <1>1, <1>2, <1>3, <1>4, <1>5, <1>6 DEF TimerInv, KeepAliveTypeOK

LEMMA NextTimers == TimerInv /\ [Next]_vars => TimerInv'
<1> SUFFICES ASSUME TimerInv, [Next]_vars PROVE TimerInv'
  OBVIOUS
<1> USE DEF TimerInv, KeepAliveTypeOK, peerVars, readerVars, writerVars, writerOnly, begin
<1>1. cfg' = cfg /\ cfg \in Config
  BY DEF Next, PeerSends, PeerDies, ReadPump, ReadReturns, PostReturns, ReadFails, WritePump,
         StartWriter, LifetimeFires, WriteBegins, PingBegins, CallReturns, CallFails,
         CloseReturns, ContextDone, Tick, vars
<1>2. Noticed' = Noticed
  BY <1>1 DEF Noticed
<1> HIDE DEF Noticed
<1> USE <1>1, <1>2, Numbers, Limits
<1>3. CASE PeerSends
  BY <1>3 DEF PeerSends
<1>4. CASE PeerDies
  BY <1>4 DEF PeerDies
<1>5. CASE ReadPump
  <2>1. CASE ReadReturns
    BY <2>1 DEF ReadReturns
  <2>2. CASE PostReturns
    BY <2>2 DEF PostReturns, Patience
  <2>3. CASE ReadFails
    BY <2>3 DEF ReadFails
  <2> QED
    BY <1>5, <2>1, <2>2, <2>3 DEF ReadPump
<1>6. CASE WritePump
  <2>1. CASE StartWriter
    BY <2>1 DEF StartWriter
  <2>2. CASE LifetimeFires
    BY <2>2 DEF LifetimeFires
  <2>3. CASE WriteBegins
    BY <2>3 DEF WriteBegins
  <2>4. CASE PingBegins
    BY <2>4 DEF PingBegins, Patience
  <2>5. CASE CallReturns
    BY <2>5 DEF CallReturns
  <2>6. CASE CallFails
    BY <2>6 DEF CallFails
  <2>7. CASE CloseReturns
    BY <2>7 DEF CloseReturns
  <2>8. CASE ContextDone
    BY <2>8 DEF ContextDone
  <2> QED
    BY <1>6, <2>1, <2>2, <2>3, <2>4, <2>5, <2>6, <2>7, <2>8 DEF WritePump
<1>7. CASE Tick
  <2>1. writer # "start"
    BY <1>7 DEF Tick, Due
  <2>2. readerLeft' \in Nat /\ writerLeft' \in Nat /\ lifeLeft' \in Nat
    BY <1>7 DEF Tick, atLeastZero
  <2>3. ticker' \in Int /\ (conn = "open" => ticker' \in 1..cfg.ping)
    BY <1>7, <2>1 DEF Tick
  <2>4. silent' \in 0..(Noticed + 1)
    BY <1>7 DEF Tick
  <2> QED
    BY <1>7, <2>1, <2>2, <2>3, <2>4 DEF Tick
<1>8. CASE UNCHANGED vars
  BY <1>8 DEF vars
<1> QED
  BY <1>3, <1>4, <1>5, <1>6, <1>7, <1>8 DEF Next

\* The types, and that a ticker runs with a positive interval or not at all.
THEOREM KeepAliveTypeCorrect == Spec => []KeepAliveTypeOK
<1>1. TimerInv => KeepAliveTypeOK
  BY DEF TimerInv
<1> QED
  BY <1>1, InitTimers, NextTimers, PTL DEF Spec

-----------------------------------------------------------------------------
LEMMA InitReader == Init => Budget /\ Renewed /\ CutOnlyIfQuiet
<1> SUFFICES ASSUME Init PROVE Budget /\ Renewed /\ CutOnlyIfQuiet
  OBVIOUS
<1>1. cfg \in Config /\ readerLeft = Patience
  BY DEF Init, Patience
<1> HIDE DEF Noticed, Patience
<1> QED
  BY <1>1, Numbers DEF Init, Budget, Renewed, CutOnlyIfQuiet

LEMMA NextReader ==
    KeepAliveInv /\ [Next]_vars => Budget' /\ Renewed' /\ CutOnlyIfQuiet'
<1> SUFFICES ASSUME KeepAliveInv, [Next]_vars PROVE Budget' /\ Renewed' /\ CutOnlyIfQuiet'
  OBVIOUS
<1> USE DEF KeepAliveInv, TimerInv, peerVars, readerVars, writerVars, writerOnly, begin
<1>1. cfg' = cfg /\ cfg \in Config
  BY DEF Next, PeerSends, PeerDies, ReadPump, ReadReturns, PostReturns, ReadFails, WritePump,
         StartWriter, LifetimeFires, WriteBegins, PingBegins, CallReturns, CallFails,
         CloseReturns, ContextDone, Tick, vars, KeepAliveTypeOK
<1>2. Noticed' = Noticed /\ Patience' = Patience
  BY <1>1 DEF Noticed, Patience
<1>3. /\ pending \in Nat /\ pending <= MaxPending /\ silent \in Nat /\ readerLeft \in Nat
      /\ reader \in {"read", "post", "done"} /\ conn \in {"open", "closing", "closed"}
  BY Limits DEF KeepAliveTypeOK
<1>4. pending * MaxStall \in Nat /\ pending * MaxStall <= MaxPending * MaxStall
  BY <1>3, TimesMonotone, Limits
<1> HIDE DEF Noticed, Patience
<1> USE <1>1, <1>2, <1>3, Numbers, Limits
<1>5. CASE PeerSends
  <2>1. /\ pending' = pending + 1 /\ silent' = 0 /\ pending + 1 <= MaxPending
        /\ conn = "open" /\ conn' = conn /\ UNCHANGED <<reader, readerLeft, cut>>
    BY <1>5 DEF PeerSends
  <2>2. pending' * MaxStall \in Nat /\ pending' * MaxStall <= MaxPending * MaxStall
    BY <2>1, TimesMonotone
  <2>3. readerLeft <= MaxStall \/ reader # "post"
    BY <2>1 DEF Budget
  <2> QED
    BY <2>1, <2>2, <2>3 DEF Budget, Renewed, CutOnlyIfQuiet
<1>6. CASE ReadReturns
  <2>1. pending' * MaxStall = pending * MaxStall - MaxStall
    BY <1>6 DEF ReadReturns
  <2>2. readerLeft' \in Nat /\ readerLeft' <= MaxStall
    BY <1>6 DEF ReadReturns
  <2> QED
    BY <1>4, <1>6, <2>1, <2>2 DEF ReadReturns, Budget, Renewed, CutOnlyIfQuiet
<1>7. CASE PostReturns
  <2>1. readerLeft' = Patience /\ readerLeft = 0 /\ reader' = "read" /\ reader = "post"
    BY <1>7 DEF PostReturns, Patience
  <2>2. UNCHANGED <<pending, silent, conn, cut>>
    BY <1>7 DEF PostReturns
  <2>3. pending = 0 => pending * MaxStall = 0
    OBVIOUS
  <2> QED
    BY <1>4, <2>1, <2>2, <2>3 DEF Budget, Renewed, CutOnlyIfQuiet
<1>8. CASE ReadFails
  <2>1. conn = "open" => silent >= cfg.pong
    BY <1>8 DEF ReadFails, Renewed
  <2>2. cut' => cut \/ conn = "open"
    BY <1>8 DEF ReadFails
  <2>3. cut => silent >= cfg.pong
    BY DEF CutOnlyIfQuiet
  <2> QED
    BY <1>8, <2>1, <2>2, <2>3 DEF ReadFails, Budget, Renewed, CutOnlyIfQuiet
<1>9. CASE Tick
  <2>1. /\ UNCHANGED <<pending, conn, reader, cut>>
        /\ reader = "read" /\ conn = "open" => pending = 0 /\ readerLeft > 0
        /\ reader = "post" => readerLeft > 0
    BY <1>9 DEF Tick, Due
  <2>2. readerLeft > 0 => readerLeft' = readerLeft - 1
    BY <1>9 DEF Tick, atLeastZero
  <2>3. silent' = silent + 1 \/ (silent' = silent /\ silent > Noticed)
    BY <1>9 DEF Tick
  <2> QED
    BY <1>4, <2>1, <2>2, <2>3 DEF Budget, Renewed, CutOnlyIfQuiet
<1>10. CASE WritePump \/ PeerDies \/ UNCHANGED vars
  <2>1. /\ UNCHANGED <<pending, silent, readerLeft, cut>>
        /\ conn' = "open" => conn = "open" /\ reader' = reader
        /\ conn = "closed" => conn' = "closed"
    BY <1>10 DEF WritePump, StartWriter, LifetimeFires, WriteBegins, PingBegins, CallReturns,
       CallFails, CloseReturns, ContextDone, PeerDies, vars
  <2> QED
    BY <2>1 DEF Budget, Renewed, CutOnlyIfQuiet
<1> QED
  BY <1>5, <1>6, <1>7, <1>8, <1>9, <1>10 DEF Next, ReadPump

LEMMA Inductive == Spec => []KeepAliveInv
<1>1. Init => KeepAliveInv
  BY InitTimers, InitReader DEF KeepAliveInv
<1>2. KeepAliveInv /\ [Next]_vars => KeepAliveInv'
  BY NextTimers, NextReader DEF KeepAliveInv
<1> QED
  BY <1>1, <1>2, PTL DEF Spec

\* A peer that sends nothing more loses its connection within the read
\* deadline and the posts of what it had sent.
THEOREM DeadAlwaysNoticed == Spec => []DeadIsNoticed
<1>1. KeepAliveInv => DeadIsNoticed
  <2> SUFFICES ASSUME KeepAliveInv, conn = "open" PROVE silent <= Noticed
    BY Numbers DEF DeadIsNoticed, KeepAliveInv, TimerInv, KeepAliveTypeOK
  <2>1. /\ cfg \in Config /\ pending \in Nat /\ silent \in Nat /\ readerLeft \in Nat
        /\ reader \in {"read", "post", "done"}
    BY Limits DEF KeepAliveInv, TimerInv, KeepAliveTypeOK
  <2>2. pending * MaxStall \in Nat
    BY <2>1, Limits
  <2> HIDE DEF Noticed, Patience
  <2> QED
    BY <2>1, <2>2, Numbers DEF KeepAliveInv, Budget
<1> QED
  BY <1>1, Inductive, PTL

\* The read deadline never cuts a peer that sent a frame within it.
THEOREM CutAlwaysQuiet == Spec => []CutOnlyIfQuiet
<1>1. KeepAliveInv => CutOnlyIfQuiet
  BY DEF KeepAliveInv
<1> QED
  BY <1>1, Inductive, PTL
=============================================================================
