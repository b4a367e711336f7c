------------------------------- MODULE MCHub -------------------------------
(***************************************************************************)
(* Values for the constants of Hub.  Connections c1 and c2 are two tabs of *)
(* one session of alice; sessionB belongs to somebody else, but Django's   *)
(* answer lists that control channel beside "news".                        *)
(***************************************************************************)
EXTENDS HubHistory, TLC

CONSTANTS c1, c2, alice, news, sessionA, sessionB, revokeA

MCUserOf == [c \in Client |-> alice]
MCSessionChannel == [c \in Client |-> sessionA]
MCUserChannel == [u \in User |-> revokeA]
MCAllowed == [c \in Client |-> Channel \cap {news, sessionB}]

\* The tabs have the same user, session and channels.
Tabs == Permutations({c1, c2})
=============================================================================
