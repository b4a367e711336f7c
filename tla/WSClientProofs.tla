--------------------------- MODULE WSClientProofs ---------------------------
(***************************************************************************)
(* Theorems about WSClient, for any channels, number of sockets, delays    *)
(* and number of failures.                                                 *)
(***************************************************************************)
EXTENDS WSClient, TLAPS, FiniteSetTheorems, WellFoundedInduction

(***************************************************************************)
(* What the counting in OneConnection stands for: this.ws is the only      *)
(* socket there can be, a timer runs only when there is none, and after    *)
(* 4401 there is neither.                                                  *)
(***************************************************************************)
Alone ==
    /\ Live \subseteq {ws}
    /\ timers \in {0, 1}
    /\ timers = 1 => Live = {}
    /\ RevokedIsFinal

ClientInv == TypeOK /\ Alone /\ GatewayKnowsChannels /\ BackoffFollowsFailures

-----------------------------------------------------------------------------
(***************************************************************************)
(* powerOfTwo.  A recursive function is the CHOOSE of a function that      *)
(* satisfies its equation: one must be shown to exist.  It is put together *)
(* from its finite parts, and what is shown by induction is that a set of  *)
(* natural numbers is all of them.                                         *)
(***************************************************************************)
LEMMA SetInduction ==
    ASSUME NEW S \in SUBSET Nat, 0 \in S, \A n \in S : n + 1 \in S
    PROVE  S = Nat
<1> DEFINE T == Nat \ S
<1> SUFFICES ASSUME T # {} PROVE FALSE
  OBVIOUS
<1>1. PICK x \in T : \A y \in T : ~ (<<y, x>> \in OpToRel(<, Nat))
  <2> HIDE DEF T
  <2>1. T \subseteq Nat
    BY DEF T
  <2> QED
    BY <2>1, NatLessThanWellFounded, WFMin
<1>2. x \in Nat \ {0}
  OBVIOUS
<1>3. x - 1 \in T
  BY <1>2
<1>4. <<x - 1, x>> \in OpToRel(<, Nat)
  BY <1>2, SMT DEF OpToRel
<1> QED
  BY <1>1, <1>3, <1>4

\* What powerOfTwo is up to n.
Doubles(a, n) ==
    /\ a \in [0..n -> Nat]
    /\ a[0] = 1
    /\ \A k \in 1..n : a[k] = 2 * a[k - 1]

LEMMA DoublesExists == \A n \in Nat : \E a : Doubles(a, n)
<1> DEFINE S == {n \in Nat : \E a : Doubles(a, n)}
<1>1. 0 \in S
  <2>1. Doubles([k \in 0..0 |-> 1], 0)
    BY DEF Doubles
  <2> QED
    BY <2>1
<1>2. ASSUME NEW n \in S PROVE n + 1 \in S
  <2>1. PICK a : Doubles(a, n)
    OBVIOUS
  <2> DEFINE b == [k \in 0..(n + 1) |-> IF k = n + 1 THEN 2 * a[n] ELSE a[k]]
  <2>2. Doubles(b, n + 1)
    BY <2>1 DEF Doubles
  <2> QED
    BY <2>2
<1>3. S = Nat
  <2> HIDE DEF S
  <2>1. S \in SUBSET Nat
    BY DEF S
  <2> QED
    BY <1>1, <1>2, <2>1, SetInduction
<1> QED
  BY <1>3

\* Two such parts agree where both are defined.
LEMMA DoublesAgree ==
    ASSUME NEW n \in Nat, NEW a, Doubles(a, n), NEW m \in Nat, NEW b, Doubles(b, m)
    PROVE  \A k \in Nat : k <= n /\ k <= m => a[k] = b[k]
<1> DEFINE S == {k \in Nat : k <= n /\ k <= m => a[k] = b[k]}
<1>1. 0 \in S
  BY DEF Doubles
<1>2. ASSUME NEW k \in S PROVE k + 1 \in S
  <2> SUFFICES ASSUME k + 1 <= n, k + 1 <= m PROVE a[k + 1] = b[k + 1]
    OBVIOUS
  <2>1. a[k + 1] = 2 * a[k] /\ b[k + 1] = 2 * b[k]
    BY DEF Doubles
  <2> QED
    BY <2>1
<1>3. S = Nat
  <2> HIDE DEF S
  <2>1. S \in SUBSET Nat
    BY DEF S
  <2> QED
    BY <1>1, <1>2, <2>1, SetInduction
<1> QED
  BY <1>3

LEMMA PowerOfTwo ==
    /\ powerOfTwo \in [Nat -> Nat]
    /\ powerOfTwo[0] = 1
    /\ \A n \in Nat : powerOfTwo[n + 1] = 2 * powerOfTwo[n]
<1> DEFINE part(n) == CHOOSE a : Doubles(a, n)
           f == [n \in Nat |-> part(n)[n]]
           F(g) == [n \in Nat |-> IF n = 0 THEN 1 ELSE 2 * g[n - 1]]
<1>1. ASSUME NEW n \in Nat PROVE Doubles(part(n), n)
  BY DoublesExists
<1>2. f \in [Nat -> Nat]
  <2> HIDE DEF part
  <2> QED
    BY <1>1 DEF Doubles
<1>3. f[0] = 1
  <2> HIDE DEF part
  <2> QED
    BY <1>1 DEF Doubles
<1>4. ASSUME NEW n \in Nat \ {0} PROVE f[n] = 2 * f[n - 1]
  <2> HIDE DEF part
  <2>1. part(n)[n] = 2 * part(n)[n - 1]
    BY <1>1 DEF Doubles
  <2>2. part(n)[n - 1] = part(n - 1)[n - 1]
    BY <1>1, DoublesAgree
  <2> QED
    BY <2>1, <2>2
<1>5. f = F(f)
  <2> HIDE DEF f
  <2> QED
    BY <1>2, <1>3, <1>4
<1>6. powerOfTwo = F(powerOfTwo)
  <2>1. powerOfTwo = CHOOSE g : g = F(g)
    BY DEF powerOfTwo
  <2> HIDE DEF f, F
  <2> QED
    BY <1>5, <2>1
<1>7. /\ DOMAIN powerOfTwo = Nat
      /\ powerOfTwo[0] = 1
      /\ \A n \in Nat : powerOfTwo[n + 1] = 2 * powerOfTwo[n]
  BY <1>6
<1> DEFINE S == {n \in Nat : powerOfTwo[n] \in Nat}
<1>8. S = Nat
  <2>1. 0 \in S /\ \A n \in S : n + 1 \in S
    BY <1>7
  <2>2. S \in SUBSET Nat
    OBVIOUS
  <2> HIDE DEF S
  <2> QED
    BY <2>1, <2>2, SetInduction
<1>9. powerOfTwo \in [Nat -> Nat]
  <2>1. \A n \in Nat : powerOfTwo[n] \in Nat
    BY <1>8
  <2>2. powerOfTwo = [n \in Nat |-> powerOfTwo[n]]
    BY <1>6
  <2> HIDE DEF S
  <2> QED
    BY <2>1, <2>2
<1> QED
  BY <1>7, <1>9

-----------------------------------------------------------------------------
LEMMA LeastType ==
    ASSUME NEW a \in Int, NEW b \in Int
    PROVE  Least(a, b) \in {a, b} /\ Least(a, b) <= a /\ Least(a, b) <= b
  BY DEF Least

LEMMA Doubled ==
    ASSUME backoff \in initialBackoff..maxBackoff
    PROVE  Least(backoff * 2, maxBackoff) \in initialBackoff..maxBackoff
  BY BackoffAssumption DEF Least

LEMMA Counted ==
    ASSUME failures \in 0..MaxFailures
    PROVE  Least(failures + 1, MaxFailures) \in 0..MaxFailures
  BY BackoffAssumption DEF Least

\* Twice the capped delay, capped, is the delay of one failure more.
LEMMA OneMoreFailure ==
    ASSUME NEW n \in 0..MaxFailures
    PROVE  Least(2 * Least(initialBackoff * powerOfTwo[n], maxBackoff), maxBackoff)
             = Least(initialBackoff * powerOfTwo[Least(n + 1, MaxFailures)], maxBackoff)
<1>1. powerOfTwo[n] \in Nat /\ initialBackoff \in Nat /\ maxBackoff \in Nat
  BY PowerOfTwo, BackoffAssumption
<1> DEFINE p == initialBackoff * powerOfTwo[n]
<1>2. p \in Nat
  BY <1>1
<1>3. CASE n = MaxFailures
  <2>1. p >= maxBackoff
    BY <1>3, BackoffAssumption
  <2>2. Least(n + 1, MaxFailures) = n
    BY <1>3, BackoffAssumption DEF Least
  <2> HIDE DEF p
  <2>3. Least(p, maxBackoff) = maxBackoff /\ Least(2 * maxBackoff, maxBackoff) = maxBackoff
    BY <1>1, <1>2, <2>1 DEF Least
  <2> QED
    BY <2>2, <2>3 DEF p
<1>4. CASE n # MaxFailures
  <2>1. Least(n + 1, MaxFailures) = n + 1
    BY <1>4, BackoffAssumption DEF Least
  <2>2. powerOfTwo[n + 1] = 2 * powerOfTwo[n]
    BY PowerOfTwo
  <2>3. initialBackoff * powerOfTwo[n + 1] = 2 * p
    <3> DEFINE a == initialBackoff  b == powerOfTwo[n]
    <3>1. a * (2 * b) = 2 * (a * b)
      BY <1>1
    <3> QED
      BY <2>2, <3>1
  <2> HIDE DEF p
  <2>4. Least(2 * Least(p, maxBackoff), maxBackoff) = Least(2 * p, maxBackoff)
    BY <1>1, <1>2 DEF Least
  <2> QED
    BY <2>1, <2>3, <2>4 DEF p
<1> QED
  BY <1>3, <1>4

LEMMA SameBackoff ==
    ASSUME BackoffFollowsFailures, UNCHANGED <<backoff, history>>,
           shouldReconnect' => shouldReconnect
    PROVE  BackoffFollowsFailures'
<1> DEFINE D(n) == Least(initialBackoff * powerOfTwo[n], maxBackoff)
<1>1. /\ shouldReconnect /\ lastClose # "revoked" => backoff = D(failures)
      /\ backoff' = backoff /\ failures' = failures /\ lastClose' = lastClose
  BY DEF BackoffFollowsFailures, history
<1>2. shouldReconnect' /\ lastClose' # "revoked" => backoff' = D(failures')
  <2> HIDE DEF D
  <2> QED
    BY <1>1
<1> QED
  BY <1>2 DEF BackoffFollowsFailures

LEMMA InitClient == Init => ClientInv
<1> SUFFICES ASSUME Init PROVE ClientInv
  OBVIOUS
<1>1. Live = {ws}
  BY DEF Init, Live
<1>2. TypeOK
  BY BackoffAssumption DEF Init, TypeOK
<1>3. BackoffFollowsFailures
  <2>1. initialBackoff * powerOfTwo[0] = initialBackoff
    BY PowerOfTwo, BackoffAssumption
  <2> QED
    BY <2>1, BackoffAssumption DEF Init, BackoffFollowsFailures, Least
<1> QED
  BY <1>1, <1>2, <1>3 DEF Init, ClientInv, Alone, RevokedIsFinal, GatewayKnowsChannels

LEMMA NextClient == ClientInv /\ [Next]_vars => ClientInv'
<1> SUFFICES ASSUME ClientInv, [Next]_vars PROVE ClientInv'
  OBVIOUS
<1> USE DEF ClientInv, history
<1>1. ASSUME NEW ch \in Channel, subscribe(ch) \/ unsubscribe(ch) PROVE ClientInv'
  <2>1. BackoffFollowsFailures'
    BY <1>1, SameBackoff DEF subscribe, unsubscribe
  <2> QED
    BY <1>1, <2>1 DEF subscribe, unsubscribe, TypeOK, Alone, Live, RevokedIsFinal,
                      GatewayKnowsChannels
<1>2. ASSUME socket' = closeSocket,
             UNCHANGED <<ws, timers, backoff, channels, told, history>>,
             shouldReconnect' \in BOOLEAN, shouldReconnect' => shouldReconnect
      PROVE  ClientInv'
  <2>1. /\ socket' \in [Socket -> {"free", "connecting", "open", "closing"}]
        /\ \A s \in Socket : socket'[s] = "free" <=> socket[s] = "free"
        /\ socket'[ws] # "open"
    BY <1>2 DEF closeSocket, TypeOK
  <2>2. Live' = Live
    BY <2>1 DEF Live
  <2>3. BackoffFollowsFailures'
    BY <1>2, SameBackoff
  <2> QED
    BY <1>2, <2>1, <2>2, <2>3 DEF TypeOK, Alone, RevokedIsFinal, GatewayKnowsChannels
<1>3. ASSUME close PROVE ClientInv'
  BY <1>2, <1>3 DEF close
<1>4. ASSUME NEW s \in Socket, onerror(s) PROVE ClientInv'
  BY <1>2, <1>4 DEF onerror, TypeOK
<1>5. ASSUME NEW s \in Socket, onopen(s) PROVE ClientInv'
  <2>1. s = ws /\ Live' = Live
    BY <1>5 DEF onopen, Live, Alone, TypeOK
  <2>2. TypeOK'
    BY <1>5, BackoffAssumption DEF onopen, TypeOK
  <2>3. BackoffFollowsFailures'
    <3>1. initialBackoff * powerOfTwo[0] = initialBackoff
      BY PowerOfTwo, BackoffAssumption
    <3> QED
      BY <1>5, <3>1, BackoffAssumption DEF onopen, BackoffFollowsFailures, Least
  <2> QED
    BY <1>5, <2>1, <2>2, <2>3 DEF onopen, Alone, RevokedIsFinal, GatewayKnowsChannels
<1>6. ASSUME NEW s \in Socket, timeout(s) PROVE ClientInv'
  <2>1. timers = 1 /\ timers' = 0 /\ Live = {}
    BY <1>6 DEF timeout, Alone
  <2>2. ws' = s /\ Live' = {s} /\ socket'[s] = "connecting" /\ told' = {}
    BY <1>6, <2>1 DEF timeout, connect, Live, TypeOK
  <2>3. lastClose # "revoked" /\ lastClose' = lastClose
    BY <1>6, <2>1 DEF timeout, Alone, RevokedIsFinal
  <2>4. TypeOK'
    BY <1>6, <2>1 DEF timeout, connect, TypeOK
  <2>5. BackoffFollowsFailures'
    BY <1>6, SameBackoff DEF timeout
  <2> QED
    BY <2>1, <2>2, <2>3, <2>4, <2>5 DEF Alone, RevokedIsFinal, GatewayKnowsChannels
<1>7. ASSUME NEW s \in Socket, NEW why \in Reason, onclose(s, why) PROVE ClientInv'
  <2>1. s = ws /\ timers = 0
    BY <1>7 DEF onclose, Live, Alone
  <2>2. Live' = {} /\ socket'[ws'] = "free"
    BY <1>7, <2>1 DEF onclose, Live, Alone, TypeOK
  <2>3. /\ timers' \in {0, 1} /\ backoff' \in initialBackoff..maxBackoff
        /\ why = "revoked" => timers' = 0
    BY <1>7, <2>1, Doubled DEF onclose, mayReconnect, scheduleReconnect, TypeOK
  <2>4. failures' \in 0..MaxFailures
    BY <1>7, Counted DEF onclose, TypeOK
  <2>5. TypeOK'
    BY <1>7, <2>3, <2>4 DEF onclose, TypeOK
  <2>6. lastClose' = why
    BY <1>7 DEF onclose
  <2>7. BackoffFollowsFailures'
    <3> SUFFICES ASSUME shouldReconnect, why # "revoked"
                 PROVE  backoff' = Least(initialBackoff * powerOfTwo[failures'], maxBackoff)
      BY <1>7, <2>6 DEF onclose, BackoffFollowsFailures
    <3>1. lastClose # "revoked"
      BY <1>7 DEF onclose, Alone, RevokedIsFinal, Live
    <3>2. backoff = Least(initialBackoff * powerOfTwo[failures], maxBackoff)
      BY <3>1 DEF BackoffFollowsFailures
    <3>3. /\ backoff' = Least(backoff * 2, maxBackoff)
          /\ failures' = Least(failures + 1, MaxFailures)
      BY <1>7 DEF onclose, mayReconnect, scheduleReconnect
    <3>4. backoff * 2 = 2 * backoff /\ failures \in 0..MaxFailures
      BY BackoffAssumption DEF TypeOK
    <3> QED
      BY <3>2, <3>3, <3>4, OneMoreFailure
  <2> QED
    BY <2>2, <2>3, <2>5, <2>6, <2>7 DEF Alone, RevokedIsFinal, GatewayKnowsChannels
<1>8. CASE UNCHANGED vars
  <2>1. BackoffFollowsFailures'
    BY <1>8, SameBackoff DEF vars
  <2> QED
    BY <1>8, <2>1 DEF vars, TypeOK, Alone, Live, RevokedIsFinal, GatewayKnowsChannels
<1> QED
  BY <1>1, <1>3, <1>4, <1>5, <1>6, <1>7, <1>8 DEF Next

LEMMA Inductive == Spec => []ClientInv
  BY InitClient, NextClient, PTL DEF Spec

\* The types: the delay never leaves its range, however often it doubles.
THEOREM ClientTypeCorrect == Spec => []TypeOK
<1>1. ClientInv => TypeOK
  BY DEF ClientInv
<1> QED
  BY <1>1, Inductive, PTL

\* Never a second connection, nor a timer that would create one.
THEOREM AlwaysOneConnection == Spec => []OneConnection
<1>1. ClientInv => OneConnection
  <2> SUFFICES ASSUME ClientInv PROVE Cardinality(Live) + timers <= 1
    BY DEF OneConnection
  <2>1. Cardinality({}) = 0 /\ Cardinality({ws}) = 1
    BY FS_EmptySet, FS_Singleton
  <2>2. Live = {} \/ Live = {ws}
    BY DEF ClientInv, Alone
  <2> QED
    BY <2>1, <2>2 DEF ClientInv, Alone
<1> QED
  BY <1>1, Inductive, PTL

\* The gateway has been asked on an open connection for exactly the channels
\* the application wants.
THEOREM GatewayAlwaysKnows == Spec => []GatewayKnowsChannels
<1>1. ClientInv => GatewayKnowsChannels
  BY DEF ClientInv
<1> QED
  BY <1>1, Inductive, PTL

\* How far the client is from having nothing left to run.
Remaining ==
    IF timers = 1 THEN 4
    ELSE [connecting |-> 3, open |-> 2, closing |-> 1, free |-> 0][socket[ws]]

ClosedWindsDown == [][~shouldReconnect => ~shouldReconnect' /\ Remaining' <= Remaining]_vars

\* After close() nothing is started anew: a timer that was pending opens one
\* more socket, and from there every event brings the end nearer or leaves it
\* where it is (client.js:62-68, 98-108).
THEOREM ClosedAlwaysWindsDown == Spec => ClosedWindsDown
<1>1. ASSUME ClientInv, Next, ~shouldReconnect
      PROVE  ~shouldReconnect' /\ Remaining' <= Remaining
  <2> USE DEF ClientInv, history
  <2>1. CASE \E ch \in Channel : subscribe(ch) \/ unsubscribe(ch)
    BY <1>1, <2>1 DEF subscribe, unsubscribe, Remaining, TypeOK
  <2>2. CASE close \/ \E s \in Socket : onerror(s)
    BY <1>1, <2>2 DEF close, onerror, closeSocket, Remaining, TypeOK
  <2>3. CASE \E s \in Socket : onopen(s)
    BY <1>1, <2>3 DEF onopen, Remaining, TypeOK, Alone, Live
  <2>4. CASE \E s \in Socket : timeout(s)
    BY <1>1, <2>4 DEF timeout, connect, Remaining, TypeOK, Alone
  <2>5. CASE \E s \in Socket, why \in Reason : onclose(s, why)
    BY <1>1, <2>5 DEF onclose, mayReconnect, Remaining, TypeOK, Alone, Live
  <2> QED
    BY <1>1, <2>1, <2>2, <2>3, <2>4, <2>5 DEF Next
<1>2. ClientInv /\ [Next]_vars => [~shouldReconnect => ~shouldReconnect' /\ Remaining' <= Remaining]_vars
  BY <1>1
<1> QED
  BY <1>2, Inductive, PTL DEF Spec, ClosedWindsDown

\* The delay before the next attempt is the capped power of two of the failures
\* since the last connection, whatever the application did meanwhile.
THEOREM BackoffAlwaysFollows == Spec => []BackoffFollowsFailures
<1>1. ClientInv => BackoffFollowsFailures
  BY DEF ClientInv
<1> QED
  BY <1>1, Inductive, PTL

\* Nothing is opened after 4401.
THEOREM RevokedAlwaysFinal == Spec => []RevokedIsFinal
<1>1. ClientInv => RevokedIsFinal
  BY DEF ClientInv, Alone
<1> QED
  BY <1>1, Inductive, PTL
=============================================================================
