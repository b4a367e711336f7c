---------------------------- MODULE LaunchProofs ----------------------------
(***************************************************************************)
(* Theorems about Launch, for any number of processes, releases, crashes   *)
(* and settings.                                                           *)
(***************************************************************************)
EXTENDS Launch, TLAPS

USE DEF Absent, None, Corrupt

(***************************************************************************)
(* What verification has established about a process on its way: its       *)
(* temporary file is the release the package names, and once it has moved  *)
(* there is a file to make executable.                                     *)
(***************************************************************************)
Verified ==
    \A p \in Proc : /\ pc[p] = "move" => tmp[p] = package[p]
                    /\ pc[p] = "chmod" => dest.content # None

\* A process past get_config started from settings it accepts.
Checked ==
    \A p \in Proc : pc[p] \notin {"idle", "failed", "refused"} => get_config(settings)

LaunchInv == LaunchTypeOK /\ Verified /\ OnlyVerifiedRuns

-----------------------------------------------------------------------------
LEMMA InstalledType == \A i \in 1..Len(Installed) : Installed[i] \in Version
  BY LaunchAssumption

LEMMA InitType == Init => LaunchTypeOK
<1>1. 1 \in 1..Len(Installed) /\ Installed[1] \in Version
  BY LaunchAssumption
<1> QED
  BY <1>1, LaunchAssumption DEF Init, LaunchTypeOK, Step

LEMMA NextType == LaunchTypeOK /\ [Next]_vars => LaunchTypeOK'
<1> SUFFICES ASSUME LaunchTypeOK, [Next]_vars PROVE LaunchTypeOK'
  OBVIOUS
<1> USE LaunchAssumption DEF LaunchTypeOK, hostUnchanged, goes, files, Step
<1>1. ASSUME NEW p \in Proc, Handle(p) PROVE LaunchTypeOK'
  BY <1>1, InstalledType DEF Handle
<1>2. ASSUME NEW p \in Proc, FindsCached(p) PROVE LaunchTypeOK'
  BY <1>2 DEF FindsCached
<1>3. ASSUME NEW p \in Proc, MissesCached(p) PROVE LaunchTypeOK'
  BY <1>3 DEF MissesCached
<1>4. ASSUME NEW p \in Proc, ExecFails(p) PROVE LaunchTypeOK'
  BY <1>4 DEF ExecFails
<1>5. ASSUME NEW p \in Proc, main(p) PROVE LaunchTypeOK'
  BY <1>5 DEF main
<1>6. ASSUME NEW p \in Proc, Verify(p) PROVE LaunchTypeOK'
  BY <1>6 DEF Verify
<1>7. ASSUME NEW p \in Proc, Move(p) PROVE LaunchTypeOK'
  BY <1>7 DEF Move
<1>8. ASSUME NEW p \in Proc, Chmod(p) PROVE LaunchTypeOK'
  BY <1>8 DEF Chmod
<1>9. ASSUME NEW p \in Proc, FetchChecksum(p) PROVE LaunchTypeOK'
  BY <1>9 DEF FetchChecksum
<1>10. ASSUME NEW p \in Proc, DownloadFails(p) PROVE LaunchTypeOK'
  BY <1>10 DEF DownloadFails
<1>11. ASSUME NEW p \in Proc, NEW content \in Version \cup {Corrupt}, Download(p, content)
       PROVE LaunchTypeOK'
  BY <1>11 DEF Download
<1>12. ASSUME NEW p \in Proc, Exec(p) PROVE LaunchTypeOK'
  BY <1>12 DEF Exec
<1>13. ASSUME NEW p \in Proc, Crash(p) PROVE LaunchTypeOK'
  BY <1>13 DEF Crash
<1>14. ASSUME NEW p \in Proc, Restart(p) PROVE LaunchTypeOK'
  BY <1>14 DEF Restart
<1>15. CASE Upgrade
  BY <1>15 DEF Upgrade
<1>16. CASE UNCHANGED vars
  BY <1>16 DEF vars
<1> QED
  BY <1>1, <1>2, <1>3, <1>4, <1>5, <1>6, <1>7, <1>8, <1>9, <1>10, <1>11, <1>12,
     <1>13, <1>14, <1>15, <1>16 DEF Next, Command, Install, Network

\* The types of the launch, and that nothing but a crash leaves a temporary
\* file behind: a process has one exactly while it works on it, and the rest
\* are at most as many as there were crashes.
THEOREM LaunchTypeCorrect == Spec => []LaunchTypeOK
  BY InitType, NextType, PTL DEF Spec

-----------------------------------------------------------------------------
LEMMA NextVerified ==
    LaunchInv /\ [Next]_vars => Verified' /\ OnlyVerifiedRuns'
<1> SUFFICES ASSUME LaunchInv, [Next]_vars PROVE Verified' /\ OnlyVerifiedRuns'
  OBVIOUS
<1> USE LaunchAssumption
    DEF LaunchInv, LaunchTypeOK, Verified, OnlyVerifiedRuns, hostUnchanged, goes, files
<1>1. ASSUME NEW p \in Proc, Command(p) PROVE Verified' /\ OnlyVerifiedRuns'
  BY <1>1 DEF Command, Handle, FindsCached, MissesCached, ExecFails, main
<1>2. ASSUME NEW p \in Proc, Verify(p) PROVE Verified' /\ OnlyVerifiedRuns'
  BY <1>2 DEF Verify
<1>3. ASSUME NEW p \in Proc, Move(p) PROVE Verified' /\ OnlyVerifiedRuns'
  <2>1. tmp[p] \in Version
    BY <1>3 DEF Move
  <2> QED
    BY <1>3, <2>1 DEF Move
<1>4. ASSUME NEW p \in Proc, Chmod(p) PROVE Verified' /\ OnlyVerifiedRuns'
  BY <1>4 DEF Chmod
<1>5. ASSUME NEW p \in Proc, Network(p) PROVE Verified' /\ OnlyVerifiedRuns'
  BY <1>5 DEF Network, FetchChecksum, DownloadFails, Download
<1>6. ASSUME NEW p \in Proc, Exec(p) PROVE Verified' /\ OnlyVerifiedRuns'
  BY <1>6 DEF Exec
<1>7. ASSUME NEW p \in Proc, Crash(p) PROVE Verified' /\ OnlyVerifiedRuns'
  BY <1>7 DEF Crash
<1>8. ASSUME NEW p \in Proc, Restart(p) PROVE Verified' /\ OnlyVerifiedRuns'
  BY <1>8 DEF Restart
<1>9. CASE Upgrade
  BY <1>9 DEF Upgrade
<1>10. CASE UNCHANGED vars
  BY <1>10 DEF vars
<1> QED
  BY <1>1, <1>2, <1>3, <1>4, <1>5, <1>6, <1>7, <1>8, <1>9, <1>10 DEF Next, Install

\* However many processes move, chmod and exec one path, crash and are
\* upgraded, none ever runs bytes nobody verified.
THEOREM OnlyVerifiedEverRuns == Spec => []OnlyVerifiedRuns
<1>1. Init => LaunchInv
  BY InitType, LaunchAssumption DEF Init, LaunchInv, Verified, OnlyVerifiedRuns
<1>2. LaunchInv /\ [Next]_vars => LaunchInv'
  BY NextType, NextVerified DEF LaunchInv
<1>3. LaunchInv => OnlyVerifiedRuns
  BY DEF LaunchInv
<1> QED
  BY <1>1, <1>2, <1>3, PTL DEF Spec

-----------------------------------------------------------------------------
\* The two checks of the required settings agree: bytes are at least as many
\* as characters, an absent URL has a default, and an empty list of origins is
\* refused before it is joined.
LEMMA RejectsOnlyOptional ==
    ASSUME NEW s \in Settings, get_config(s), ~Load(_translate(s))
    PROVE  \/ s.url = ""
           \/ \A i \in DOMAIN s.origins : s.origins[i] = ""
           \/ \E kind \in DOMAIN Readable : ~parses(kind, s[kind])
<1> DEFINE env == _translate(s)
<1>1. /\ env.redis = s.redis /\ env.secret = s.secret /\ env.origins = s.origins
      /\ \A kind \in DOMAIN Readable : env[kind] = s[kind]
      /\ s.url # "" => env.url # ""
  <2>1. s \in [secret : [chars : Nat, bytes : Nat, isSecretKey : BOOLEAN],
              redis : STRING, url : STRING, origins : Seq(STRING), callback : BOOLEAN,
              int : STRING, duration : STRING, level : STRING]
    BY SettingsAssumption
  <2>2. DOMAIN Readable = {"int", "duration", "level"}
    BY DEF Readable
  <2>3. /\ env.redis = s.redis /\ env.secret = s.secret /\ env.origins = s.origins
        /\ env.int = s.int /\ env.duration = s.duration /\ env.level = s.level
        /\ env.url = IF s.url = Absent THEN "url" ELSE s.url
    BY <2>1 DEF _translate
  <2> QED
    BY <2>2, <2>3
<1>2. s.secret.bytes >= MinSecretLength
  <2>1. s.secret \in [chars : Nat, bytes : Nat, isSecretKey : BOOLEAN]
    BY SettingsAssumption
  <2>2. s.secret.chars <= s.secret.bytes
    BY SettingsAssumption
  <2>3. s.secret.chars \in Nat /\ s.secret.bytes \in Nat
    BY <2>1
  <2>4. s.secret.chars >= MinSecretLength
    BY Zenon DEF get_config
  <2> QED
    BY <2>2, <2>3, <2>4 DEF MinSecretLength
<1> HIDE DEF env
<1>3. requiredVariables(env) /\ longEnough(env)
  <2>1. s.redis # ""
    BY Zenon DEF get_config
  <2>2. s.secret.bytes # 0
    BY <1>2 DEF MinSecretLength
  <2> QED
    BY <1>1, <1>2, <2>1, <2>2, Zenon DEF requiredVariables, longEnough
<1> QED
  BY <1>1, <1>3 DEF Load, namesAnOrigin, env

LEMMA NextChecked == LaunchTypeOK /\ Checked /\ [Next]_vars => Checked'
<1> SUFFICES ASSUME LaunchTypeOK, Checked, [Next]_vars PROVE Checked'
  OBVIOUS
<1>1. settings' = settings
  BY DEF Next, Command, Install, Network, Handle, FindsCached, MissesCached, ExecFails,
         main, Verify, Move, Chmod, FetchChecksum, DownloadFails, Download, Exec, Crash,
         Restart, Upgrade, hostUnchanged, vars
<1>2. get_config(settings)' <=> get_config(settings)
  BY <1>1 DEF get_config
<1>3. CASE get_config(settings)
  BY <1>2, <1>3 DEF Checked
<1>4. CASE ~get_config(settings)
  <2>1. \A p \in Proc : pc[p] \in {"idle", "failed", "refused"}
    BY <1>4 DEF Checked
  <2>2. \A p \in Proc : pc'[p] \in {"idle", "failed", "refused"}
    BY <1>4, <2>1 DEF LaunchTypeOK, Next, Command, Install, Network, Handle, FindsCached,
       MissesCached, ExecFails, main, Verify, Move, Chmod, FetchChecksum, DownloadFails,
       Download, Exec, Crash, Restart, Upgrade, goes, vars
  <2> QED
    BY <2>2 DEF Checked
<1> QED
  BY <1>3, <1>4

\* Load rejects what get_config let pass for no required setting.
THEOREM RequiredAlwaysAgree == Spec => []RequiredAgree
<1>1. Init => LaunchTypeOK /\ Checked
  BY InitType DEF Init, Checked
<1>2. LaunchTypeOK /\ Checked /\ [Next]_vars => (LaunchTypeOK /\ Checked)'
  BY NextType, NextChecked
<1>3. LaunchTypeOK /\ Checked => RequiredAgree
  <2> SUFFICES ASSUME LaunchTypeOK, Checked, NEW p \in Proc,
                      pc[p] = "load", ~Load(_translate(settings))
               PROVE  \/ settings.url = ""
                      \/ \A i \in DOMAIN settings.origins : settings.origins[i] = ""
                      \/ \E kind \in DOMAIN Readable : ~parses(kind, settings[kind])
    BY DEF RequiredAgree
  <2>1. settings \in Settings /\ get_config(settings)
    BY DEF LaunchTypeOK, Checked
  <2> QED
    BY <2>1, RejectsOnlyOptional
<1> QED
  BY <1>1, <1>2, <1>3, PTL DEF Spec
=============================================================================
