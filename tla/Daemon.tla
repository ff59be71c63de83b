-------------------------------- MODULE Daemon --------------------------------
(***************************************************************************)
(* Starting and stopping the server (src/src/main/main.cpp, and the server *)
(* that it makes, src/src/network/network.cpp).                            *)
(*                                                                         *)
(* A launch runs in the foreground, or forks a daemon, which keeps a file  *)
(* with its process number and tells its parent through a pipe how it went.*)
(* A killer finds the daemon through the file.  A process may die at any   *)
(* time, and leaves its file behind.  libdaemon and the signals are        *)
(* external: their file is created only if there is none, and removed when *)
(* it names a process that is dead.                                        *)
(*                                                                         *)
(* Definitions named Mutant... are wrong versions of the one that follows; *)
(* they are not used: they are there to see the properties fail.           *)
(***************************************************************************)
EXTENDS Naturals, FiniteSets

CONSTANTS
    Launch,         \* runs of the program that are to serve
    Killer,         \* runs of it with server.kill
    Absent,         \* no process
    MaxDeaths       \* bound: processes that die of themselves

ASSUME DaemonAssumption == Absent \notin Launch /\ MaxDeaths \in Nat

VARIABLES
    parent,         \* the process that was launched
    progress,       \* how far the one that serves has come
    stopped,        \* those whose io_service was stopped
    pipe,           \* what was sent to each parent
    pidFile,        \* whom shoddybattle2.pid names
    port,           \* who listens
    mains,          \* rows of the table of channels that are named main
    killer,         \* where each killer is
    victim,         \* the process that it waits for
    up,             \* those that have ever finished starting
    robbed,         \* those whose file another has removed
    deaths

daemonVars == <<parent, progress, stopped, pipe, pidFile, port, mains, killer, victim, up,
                robbed, deaths>>

Guarded == {"armed", "scripted", "bare", "stored", "prepared", "serving"}
Alive(l) == progress[l] \in Guarded \cup {"forked", "ready", "open", "ended", "failed"}
Detached(l) == parent[l] /= "foreground"

(* daemon_pid_file_is_running.                                             *)
Running == pidFile /= Absent /\ Alive(pidFile)
Swept == IF Running THEN pidFile ELSE Absent
(* daemon_pid_file_remove, of whomever the file names.                     *)
RemoveFile(l) ==
    /\ pidFile' = Absent
    /\ robbed' = IF pidFile \in {l, Absent} THEN robbed ELSE robbed \cup {pidFile}
Send(l, value) == pipe' = [pipe EXCEPT ![l] = IF @ = "empty" THEN value ELSE @]
Closed(l) == port' = IF port = l THEN Absent ELSE port
Reaches(l, from, to) == progress[l] = from /\ progress' = [progress EXCEPT ![l] = to]

-----------------------------------------------------------------------------
(* initialise, as far as the options: what they name may be missing.       *)
Configure(l) ==
    /\ parent[l] = "new"
    /\ \E result \in {"failed", "foreground", "detaching"} :
         /\ parent' = [parent EXCEPT ![l] = result]
         /\ progress' = IF result = "foreground" THEN [progress EXCEPT ![l] = "ready"]
                                                 ELSE progress
    /\ UNCHANGED <<mains, stopped, pipe, pidFile, port, killer, victim, up, robbed, deaths>>

(* A daemon that runs is not started again.                                *)
Detach(l) ==
    /\ parent[l] = "detaching" /\ pidFile' = Swept
    /\ IF Running THEN parent' = [parent EXCEPT ![l] = "refused"] /\ UNCHANGED progress
       ELSE /\ parent' = [parent EXCEPT ![l] = "waiting"]
            /\ progress' = [progress EXCEPT ![l] = "forked"]
    /\ UNCHANGED <<mains, stopped, pipe, port, killer, victim, up, robbed, deaths>>

(* The parent waits for twenty seconds, or as long as there is a child.    *)
HearChild(l) ==
    /\ parent[l] = "waiting"
    /\ \/ pipe[l] /= "empty" /\ parent' = [parent EXCEPT ![l] = pipe[l]]
       \/ pipe[l] = "empty" /\ parent' = [parent EXCEPT ![l] = "unanswered"]
    /\ UNCHANGED <<mains, progress, stopped, pipe, pidFile, port, killer, victim, up, robbed,
                   deaths>>

MutantCreateFile(l) ==
    /\ Reaches(l, "forked", "ready") /\ pidFile' = l
    /\ UNCHANGED <<mains, parent, stopped, pipe, port, killer, victim, up, robbed, deaths>>
CreateFile(l) ==
    /\ IF pidFile = Absent THEN Reaches(l, "forked", "ready") /\ pidFile' = l
       ELSE Reaches(l, "forked", "failed") /\ UNCHANGED pidFile
    /\ UNCHANGED <<mains, parent, stopped, pipe, port, killer, victim, up, robbed, deaths>>

(* The constructor of Server: somebody else may listen.                    *)
OpenServer(l) ==
    /\ IF port = Absent THEN Reaches(l, "ready", "open") /\ port' = l
       ELSE Reaches(l, "ready", "failed") /\ UNCHANGED port
    /\ UNCHANGED <<mains, parent, stopped, pipe, pidFile, killer, victim, up, robbed, deaths>>
InstallSignalHandlers(l) ==
    /\ Reaches(l, "open", "armed")
    /\ UNCHANGED <<mains, parent, stopped, pipe, pidFile, port, killer, victim, up, robbed, deaths>>
(* What throws destroys the server on the way to main.                     *)
Continue(l, from, to) ==
    \/ Reaches(l, from, to) /\ UNCHANGED port
    \/ Reaches(l, from, "failed") /\ Closed(l)
Unmoved == <<parent, stopped, pipe, pidFile, killer, victim, up, robbed, deaths>>
(* Metagames, scripts, and the connection to the database.                 *)
Prepare(l) == Continue(l, "armed", "scripted") /\ UNCHANGED <<Unmoved, mains>>
(* createDefaultDatabase looks for the main channel, and then makes it.    *)
CreateTables(l) ==
    /\ Continue(l, "scripted", IF mains = 0 THEN "bare" ELSE "stored")
    /\ UNCHANGED <<Unmoved, mains>>
InsertMain(l) ==
    /\ Continue(l, "bare", "stored")
    /\ mains' = IF progress'[l] = "stored" THEN mains + 1 ELSE mains
    /\ UNCHANGED Unmoved
(* It is asserted that there is a main channel.                            *)
InitialiseChannels(l) ==
    /\ mains > 0 /\ Continue(l, "stored", "prepared")
    /\ UNCHANGED <<Unmoved, mains>>
StartThreads(l) ==
    /\ Reaches(l, "prepared", "serving")
    /\ IF Detached(l) THEN Send(l, "success") ELSE UNCHANGED pipe
    /\ up' = up \cup {l}
    /\ UNCHANGED <<mains, parent, stopped, pidFile, port, killer, victim, robbed, deaths>>
(* All threads have left run and are joined; the server is destroyed.      *)
Return(l) ==
    /\ l \in stopped /\ Reaches(l, "serving", "ended") /\ Closed(l)
    /\ UNCHANGED <<mains, parent, stopped, pipe, pidFile, killer, victim, up, robbed, deaths>>

(* The end of main, with a result or by an exception.                      *)
Exit(l) ==
    /\ progress[l] \in {"ended", "failed"} /\ progress' = [progress EXCEPT ![l] = "gone"]
    /\ IF ~Detached(l) THEN UNCHANGED <<pipe, pidFile, robbed>>
       ELSE /\ RemoveFile(l)
            /\ IF progress[l] = "failed" THEN Send(l, "error") ELSE UNCHANGED pipe
    /\ UNCHANGED <<mains, parent, stopped, port, killer, victim, up, deaths>>

-----------------------------------------------------------------------------
(* A signal: whoever has no handler dies, as may one whose server is gone. *)
Signalled(l) ==
    \/ /\ progress[l] \in {"ready", "open", "ended", "failed"}
       /\ progress' = [progress EXCEPT ![l] = "dead"] /\ Closed(l) /\ UNCHANGED stopped
    \/ /\ progress[l] \in Guarded
       /\ stopped' = stopped \cup {l} /\ UNCHANGED <<progress, port>>
    \/ progress[l] \in {"ended", "failed"} /\ UNCHANGED <<progress, stopped, port>>

Kill(k) ==
    /\ killer[k] = "new" /\ pidFile' = Swept
    /\ IF Running
       THEN /\ Signalled(pidFile)
            /\ killer' = [killer EXCEPT ![k] = "waiting"]
            /\ victim' = [victim EXCEPT ![k] = pidFile]
       ELSE /\ killer' = [killer EXCEPT ![k] = "failed"]
            /\ UNCHANGED <<progress, stopped, port, victim>>
    /\ UNCHANGED <<mains, parent, pipe, up, robbed, deaths>>
AwaitEnd(k) ==
    /\ killer[k] = "waiting"
    /\ killer' = [killer EXCEPT ![k] = IF Alive(victim[k]) THEN "failed" ELSE "killed"]
    /\ UNCHANGED <<mains, parent, progress, stopped, pipe, pidFile, port, victim, up, robbed,
                   deaths>>

Die(l) ==
    /\ Alive(l) /\ deaths < MaxDeaths /\ deaths' = deaths + 1
    /\ progress' = [progress EXCEPT ![l] = "dead"] /\ Closed(l)
    /\ UNCHANGED <<mains, parent, stopped, pipe, pidFile, killer, victim, up, robbed>>

DaemonInit ==
    /\ parent = [l \in Launch |-> "new"] /\ progress = [l \in Launch |-> "none"]
    /\ stopped = {} /\ pipe = [l \in Launch |-> "empty"] /\ pidFile = Absent /\ port = Absent
    /\ mains = 0
    /\ killer = [k \in Killer |-> "new"] /\ victim = [k \in Killer |-> Absent]
    /\ up = {} /\ robbed = {} /\ deaths = 0

DaemonNext ==
    \/ \E l \in Launch :
         \/ Configure(l) \/ Detach(l) \/ HearChild(l) \/ CreateFile(l) \/ OpenServer(l)
         \/ InstallSignalHandlers(l) \/ Prepare(l) \/ CreateTables(l) \/ InsertMain(l)
         \/ InitialiseChannels(l) \/ StartThreads(l) \/ Return(l) \/ Exit(l) \/ Die(l)
    \/ \E k \in Killer : Kill(k) \/ AwaitEnd(k)

DaemonSpec == DaemonInit /\ [][DaemonNext]_daemonVars

-----------------------------------------------------------------------------
(* What the program says of a daemon is so: a parent that reports success  *)
(* has one that started, and one that reports an error has none; a daemon  *)
(* that serves can be found through its file, unless another that failed   *)
(* to make the file took it away; the file never names one that ended      *)
(* otherwise than by dying; and whoever was killed is dead.  There is one  *)
(* main channel when it is asserted that there is, wherever earlier starts *)
(* have ended.                                                             *)
StartsAsTold ==
    /\ \A l \in Launch :
         /\ parent[l] = "success" => l \in up
         /\ parent[l] = "error" => l \notin up /\ ~Alive(l)
         /\ progress[l] \in Guarded \cup {"ready", "open"} /\ Detached(l)
              => pidFile = l \/ l \in robbed
         /\ pidFile = l => progress[l] /= "gone"
    /\ \A k \in Killer : killer[k] = "killed" => ~Alive(victim[k])
    /\ mains <= 1
    /\ \A l \in Launch : progress[l] \in {"stored", "prepared", "serving"} => mains = 1
    /\ \A l \in Launch : l \in robbed => \E other \in Launch \ {l} : progress[other] = "gone"
=============================================================================
