------------------------------ MODULE MCLaunch ------------------------------
(***************************************************************************)
(* Constants of Launch for TLC: settings that both sides accept, and one   *)
(* for each way in which either does not.                                  *)
(***************************************************************************)
EXTENDS Launch

CONSTANTS p1, p2

Secret(chars, bytes) == [chars |-> chars, bytes |-> bytes, isSecretKey |-> FALSE]

Good == [secret |-> Secret(32, 32), redis |-> "url", url |-> Absent,
         origins |-> <<"https://app">>, callback |-> TRUE,
         int |-> "30", duration |-> "30s", level |-> "info"]

MCSettings ==
    {Good,
     [Good EXCEPT !.url = "url", !.int = Absent, !.duration = "0", !.level = ""],
     [Good EXCEPT !.secret = Secret(31, 62)],
     [Good EXCEPT !.secret = Secret(32, 64)],
     [Good EXCEPT !.secret.isSecretKey = TRUE],
     [Good EXCEPT !.redis = ""],
     [Good EXCEPT !.origins = <<>>],
     [Good EXCEPT !.origins = <<"", "">>],
     [Good EXCEPT !.callback = FALSE],
     [Good EXCEPT !.url = ""],
     [Good EXCEPT !.duration = "30"],
     [Good EXCEPT !.int = "30s"],
     [Good EXCEPT !.level = "loud"]}

MCSkips == {{}, {p2}}
MCInstalled == <<"v1", "v2">>
=============================================================================
