----------------------------- MODULE HubHistory -----------------------------
(***************************************************************************)
(* Module Hub with one history variable, the message the hub took up last, *)
(* and the proof obligation that it implements PubSub.  Without it a hub   *)
(* that drops a message would look like one that received none.            *)
(***************************************************************************)
EXTENDS Hub

VARIABLE heard   \* <<m, bit>>: the last message with an audience; the bit flips

historyVars == <<hubVars, heard>>

Nothing == [channel |-> "none"]

HistoryInit == HubInit /\ heard = <<Nothing, 0>>

HistoryNext ==
    \/ ConnectionStep /\ UNCHANGED heard
    \/ \E m \in Message :
          /\ handleIncoming(m)
          /\ heard' = IF channels[m.channel] = {} THEN heard ELSE <<m, 1 - heard[2]>>

HistorySpec == HistoryInit /\ [][HistoryNext]_historyVars

-----------------------------------------------------------------------------
\* The refinement mapping.  A connection is closing once it has a disconnect
\* signal or has no WritePump any more; member is the transpose of h.channels.
phase == [c \in Client |-> IF c \notin announced THEN "new"
                           ELSE IF c \in clients THEN "admitted" ELSE "gone"]
member == [c \in Client |-> {ch \in Channel : c \in channels[ch]}]
closing == {c \in Client : disconnect[c] # NoSignal} \cup stopped
entitled == [c \in Client |-> Allowed[c] \ Control]
guaranteed == [c \in Client |-> ControlOf(c)]

Broker == INSTANCE PubSub WITH
    Topic <- Channel,
    ControlTopic <- Control,
    Revocation <- RevokePayload,
    Answer <- ErrorFrame,
    Entitled <- entitled,
    Guaranteed <- guaranteed,
    outbox <- send

\* Every step of the hub is a step PubSub allows: each message the hub takes
\* up reaches every member in order unless that member is being closed, a
\* revocation starts closing every member, and closing is never undone
\* (hub.go:202-341).
HubImplementsPubSub == Broker!Spec
=============================================================================
