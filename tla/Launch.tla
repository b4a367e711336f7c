------------------------------ MODULE Launch -------------------------------
(***************************************************************************)
(* From `manage.py runwsgateway` to a gateway that serves: the settings    *)
(* check, ensure_binary with its shared cache directory                    *)
(* (src/websocket_gateway/_downloader.py:58-181), the translation of the   *)
(* settings, exec, and Load (src/gateway/config.go:85-224).  Processes on  *)
(* one host share the cached file; each may crash between two system calls *)
(* and is restarted by its supervisor.  A crash runs no finally clause, so *)
(* that the temporary file of the process stays in the directory for good: *)
(* a restart takes a new name, and nobody looks for the old ones.          *)
(***************************************************************************)
EXTENDS Integers, Sequences

CONSTANTS
    Proc,          \* supervised commands sharing the cache directory
    Skips,         \* which of them may have WS_GATEWAY_SKIP_DOWNLOAD set
    Version,       \* the releases, oldest first in Installed
    Installed,     \* the sequence of versions of the package on this host
    Settings,      \* WEBSOCKET_GATEWAY dicts the operator may have written
    MaxCrashes     \* bound

Corrupt == "corrupt"   \* a truncated or altered download
None == "none"

ASSUME LaunchAssumption ==
    /\ Skips \subseteq SUBSET Proc
    /\ {Corrupt, None} \cap Version = {}
    /\ Installed \in Seq(Version) /\ Installed # <<>>
    /\ MaxCrashes \in Nat

\* A character takes at least one byte.
ASSUME SettingsAssumption ==
    /\ Settings \subseteq
         [secret : [chars : Nat, bytes : Nat, isSecretKey : BOOLEAN],
          redis : STRING, url : STRING, origins : Seq(STRING), callback : BOOLEAN,
          int : STRING, duration : STRING, level : STRING]
    /\ \A s \in Settings : s.secret.chars <= s.secret.bytes

VARIABLES
    settings,      \* the dict in use
    skip,          \* the processes with WS_GATEWAY_SKIP_DOWNLOAD
    release,       \* index into Installed of the package on disk
    dest,          \* the cached file: its content and its execute bit
    tmp,           \* tmp[p]: the content of the temporary file of p, or None
    litter,        \* temporary files that no process works on any more
    pc,            \* pc[p]: where p stands
    package,       \* package[p]: the version p was started from
    running,       \* running[p]: the content p became by exec, or None
    crashes

files == <<dest, tmp, litter>>
vars == <<settings, skip, release, files, pc, package, running, crashes>>

Step == {"idle", "ensure", "checksum", "download", "verify", "move", "chmod",
         "exec", "load", "serving", "failed", "refused"}

goes(p, from, to) == pc[p] = from /\ pc' = [pc EXCEPT ![p] = to]

-----------------------------------------------------------------------------
(* Settings.  An entry of the dict is what str() makes of it, "" or absent. *)

Absent == "absent"

MinSecretLength == 32

\* _validate_secret counts characters; hmac.compare_digest with SECRET_KEY
\* raises TypeError on characters that are not ASCII.
get_config(s) ==
    /\ s.secret.chars >= MinSecretLength /\ s.secret.chars = s.secret.bytes
    /\ ~s.secret.isSecretKey
    /\ s.redis # "" /\ s.origins # <<>> /\ s.callback

\* What each parser of config.go takes: "30" is no duration, for want of a unit.
Readable == [int |-> {"30", "0"}, duration |-> {"30s", "0"}, level |-> {"info"}]

\* parseIntInto, parseInt64Into, parseDurationInto, parseLogLevelInto.
parses(kind, raw) == raw \in {Absent, ""} \cup Readable[kind]

\* _translate: the origins are joined, an absent URL gets its default.
_translate(s) ==
    [s EXCEPT !.url = IF s.url = Absent THEN "url" ELSE s.url]

requiredVariables(env) == env.redis # "" /\ env.secret.bytes # 0

\* Mutant of longEnough: the length must exceed the minimum.
longerThanMinimum(env) == env.secret.bytes > MinSecretLength

\* len of a Go string counts bytes.
longEnough(env) == env.secret.bytes >= MinSecretLength

\* Some origin is left when blanks are dropped.
namesAnOrigin(env) == \E i \in DOMAIN env.origins : env.origins[i] # ""

Load(env) ==
    /\ requiredVariables(env) /\ env.url # ""
    /\ longEnough(env) /\ namesAnOrigin(env)
    /\ \A kind \in DOMAIN Readable : parses(kind, env[kind])

-----------------------------------------------------------------------------
(* The command and ensure_binary.                                          *)

hostUnchanged == UNCHANGED <<settings, skip, release, crashes>>

Handle(p) ==
    /\ goes(p, "idle", IF get_config(settings) THEN "ensure" ELSE "refused")
    /\ package' = [package EXCEPT ![p] = Installed[release]]
    /\ UNCHANGED <<files, running>> /\ hostUnchanged

\* Mutant of FindsCached: existence is enough.
FindsCachedAnyMode(p) ==
    /\ dest.content # None
    /\ goes(p, "ensure", "exec")
    /\ UNCHANGED <<files, package, running>> /\ hostUnchanged

FindsCached(p) ==
    /\ dest.content # None /\ dest.executable
    /\ goes(p, "ensure", "exec")
    /\ UNCHANGED <<files, package, running>> /\ hostUnchanged

MissesCached(p) ==
    /\ dest.content = None \/ ~dest.executable
    /\ goes(p, "ensure", IF p \in skip THEN "failed" ELSE "checksum")
    /\ UNCHANGED <<files, package, running>> /\ hostUnchanged

\* The sum is known, and the temporary file is created, empty.
FetchChecksum(p) ==
    /\ goes(p, "checksum", "download")
    /\ tmp' = [tmp EXCEPT ![p] = Corrupt]
    /\ UNCHANGED <<dest, litter, package, running>> /\ hostUnchanged

\* _stream_download of the release the package names, good or not.
Download(p, content) ==
    /\ goes(p, "download", "verify")
    /\ content \in {package[p], Corrupt}
    /\ tmp' = [tmp EXCEPT ![p] = content]
    /\ UNCHANGED <<dest, litter, package, running>> /\ hostUnchanged

\* The network fails: DownloadError, the finally clause removes the file.
DownloadFails(p) ==
    /\ \E from \in {"checksum", "download"} : goes(p, from, "failed")
    /\ tmp' = [tmp EXCEPT ![p] = None]
    /\ UNCHANGED <<dest, litter, package, running>> /\ hostUnchanged

\* Mutant of Verify: the comparison is left out.
VerifyNothing(p) ==
    /\ goes(p, "verify", "move")
    /\ UNCHANGED <<files, package, running>> /\ hostUnchanged

\* Mutant of Verify: the finally clause does not remove the file.
VerifyKeepsFile(p) ==
    /\ goes(p, "verify", IF tmp[p] = package[p] THEN "move" ELSE "failed")
    /\ UNCHANGED <<files, package, running>> /\ hostUnchanged

Verify(p) ==
    /\ goes(p, "verify", IF tmp[p] = package[p] THEN "move" ELSE "failed")
    /\ tmp' = IF tmp[p] = package[p] THEN tmp ELSE [tmp EXCEPT ![p] = None]
    /\ UNCHANGED <<dest, litter, package, running>> /\ hostUnchanged

\* The rename brings the mode of the temporary file with it: 0600.
Move(p) ==
    /\ goes(p, "move", "chmod")
    /\ dest' = [content |-> tmp[p], executable |-> FALSE]
    /\ tmp' = [tmp EXCEPT ![p] = None]
    /\ UNCHANGED <<litter, package, running>> /\ hostUnchanged

\* By path: the file may by now be another process's.
Chmod(p) ==
    /\ goes(p, "chmod", "exec")
    /\ dest' = [dest EXCEPT !.executable = TRUE]
    /\ UNCHANGED <<tmp, litter, package, running>> /\ hostUnchanged

Exec(p) ==
    /\ dest.executable
    /\ goes(p, "exec", "load")
    /\ running' = [running EXCEPT ![p] = dest.content]
    /\ UNCHANGED <<files, package>> /\ hostUnchanged

\* The file was replaced after ensure_binary returned: PermissionError.
ExecFails(p) ==
    /\ ~dest.executable
    /\ goes(p, "exec", "failed")
    /\ UNCHANGED <<files, package, running>> /\ hostUnchanged

\* main: log.Fatalf when Load returns an error.
main(p) ==
    /\ goes(p, "load", IF Load(_translate(settings)) THEN "serving" ELSE "failed")
    /\ UNCHANGED <<files, package, running>> /\ hostUnchanged

-----------------------------------------------------------------------------
(* The host.                                                               *)

\* No finally clause runs: the temporary file stays, and is nobody's.
Crash(p) ==
    /\ crashes < MaxCrashes
    /\ pc[p] \notin {"idle", "failed", "refused"}
    /\ crashes' = crashes + 1
    /\ pc' = [pc EXCEPT ![p] = "failed"]
    /\ litter' = IF tmp[p] = None THEN litter ELSE litter + 1
    /\ tmp' = [tmp EXCEPT ![p] = None]
    /\ UNCHANGED <<settings, skip, release, dest, package, running>>

Restart(p) ==
    /\ goes(p, "failed", "idle")
    /\ running' = [running EXCEPT ![p] = None]
    /\ UNCHANGED <<files, package>> /\ hostUnchanged

\* The package is upgraded; the name of the cached file has no version.
Upgrade ==
    /\ release < Len(Installed)
    /\ release' = release + 1
    /\ UNCHANGED <<settings, skip, files, pc, package, running, crashes>>

-----------------------------------------------------------------------------
Init ==
    /\ settings \in Settings /\ skip \in Skips
    /\ release = 1
    /\ dest = [content |-> None, executable |-> FALSE]
    /\ tmp = [p \in Proc |-> None] /\ litter = 0
    /\ pc = [p \in Proc |-> "idle"]
    /\ package = [p \in Proc |-> Installed[1]]
    /\ running = [p \in Proc |-> None]
    /\ crashes = 0

Command(p) == Handle(p) \/ FindsCached(p) \/ MissesCached(p) \/ ExecFails(p) \/ main(p)
Install(p) == Verify(p) \/ Move(p) \/ Chmod(p)
Network(p) ==
    FetchChecksum(p) \/ DownloadFails(p) \/ \E content \in Version \cup {Corrupt} : Download(p, content)

Next ==
    \/ \E p \in Proc : \/ Command(p) \/ Install(p) \/ Network(p)
                       \/ Exec(p) \/ Crash(p) \/ Restart(p)
    \/ Upgrade

Spec == Init /\ [][Next]_vars

\* Processes run and are restarted, and a network that is tried again and
\* again answers.  A download takes seconds, the way from chmod to exec none:
\* a command that finds the file executable again and again gets to exec it.
Fairness ==
    \A p \in Proc :
        /\ WF_vars(Command(p)) /\ WF_vars(Install(p)) /\ WF_vars(Restart(p))
        /\ SF_vars(FetchChecksum(p)) /\ SF_vars(Download(p, package[p])) /\ SF_vars(Exec(p))

FairSpec == Spec /\ Fairness

-----------------------------------------------------------------------------
(* Properties.                                                             *)

\* Types; a process has a temporary file exactly while it works on one, and
\* what is left in the directory besides, crashes have left, at most one file
\* each: every return and every exception removes it
\* (_downloader.py:138-157).
LaunchTypeOK ==
    /\ settings \in Settings /\ skip \in Skips
    /\ release \in 1..Len(Installed)
    /\ dest \in [content : Version \cup {Corrupt, None}, executable : BOOLEAN]
    /\ tmp \in [Proc -> Version \cup {Corrupt, None}]
    /\ pc \in [Proc -> Step]
    /\ package \in [Proc -> Version]
    /\ running \in [Proc -> Version \cup {Corrupt, None}]
    /\ crashes \in 0..MaxCrashes
    /\ \A p \in Proc : tmp[p] # None <=> pc[p] \in {"download", "verify", "move"}
    /\ litter \in 0..crashes

\* What runs was verified by some process against the sums of its release,
\* although moves, chmods and execs of several processes go by path
\* (_downloader.py:25-32, 100-103; threat-model.md:16).
OnlyVerifiedRuns ==
    /\ dest.content # Corrupt
    /\ dest.executable => dest.content \in Version
    /\ \A p \in Proc : running[p] # Corrupt

\* Whatever get_config lets pass, Load rejects for nothing but an empty URL, blank
\* origins or an option it cannot read: the two length checks of the secret
\* count different things and agree (_config.py:90-122, config.go:101-117).
RequiredAgree ==
    \A p \in Proc :
        (pc[p] = "load" /\ ~Load(_translate(settings))) =>
            \/ settings.url = ""
            \/ \A i \in DOMAIN settings.origins : settings.origins[i] = ""
            \/ \E kind \in DOMAIN Readable : ~parses(kind, settings[kind])

\* With settings both sides accept, and one process that may download, every
\* command serves in the end, through
\* crashes between any two steps, failed and corrupt downloads and processes
\* that replace each other's file (_downloader.py:90-103).
EventuallyServes ==
    get_config(settings) /\ Load(_translate(settings)) /\ skip # Proc =>
        \A p \in Proc : <>(pc[p] = "serving")
=============================================================================
