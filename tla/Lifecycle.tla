----------------------------- MODULE Lifecycle -----------------------------
(***************************************************************************)
(* Daemons that come and go: "tailward daemon start" and "stop"            *)
(* (daemon/lifecycle.py, a pid file and the health endpoint), the desktop  *)
(* shell that reuses a daemon or spawns its own and ends it when it quits  *)
(* (src-tauri/src/lib.rs), and the daemon process between spawn and exit   *)
(* (daemon/__main__.py, lifespan in daemon/app.py), which works on the     *)
(* ledger from before it has its port until after it has given it up.     *)
(*                                                                         *)
(* Ping and the health probe are answered by whichever process has the     *)
(* port, unless it is too slow or fails: then they say that nobody is      *)
(* there.  Pids are not reused.  Deadlines may strike at any time; POSIX   *)
(* signals.                                                                *)
(***************************************************************************)
EXTENDS Naturals

CONSTANTS
    Commands,   \* terminals in which start and stop are run
    MaxProcs,   \* bound: daemon processes
    MaxShells,  \* bound: launches of the shell
    MaxCrashes  \* bound: processes killed by other means

ASSUME LifecycleAssumption ==
    MaxProcs \in Nat \ {0} /\ MaxShells \in Nat /\ MaxCrashes \in Nat

Procs == 1..MaxProcs

\* No process: an empty pid file, slot or result.
None == 0

VARIABLES
    st,        \* st[p]: how far process p is
    told,      \* told[p]: should_exit, or the pending SIGTERM
    streams,   \* streams[p]: a tab has a stream open from p
    pidFile,   \* daemon.pid
    cmd,       \* cmd[c]: what the command in terminal c is doing
    target,    \* target[c]: the process it has spawned or is stopping
    shell,     \* where the shell is: its spawn task, and then its exit hook
    leaving,   \* the hook found no child and the shell's process is ending,
               \* while the spawn task may still be at work
    slot,      \* SpawnedDaemon: the child whose life cycle it owns
    sidecar,   \* history: the process this shell has spawned
    answered,  \* history: the process that answered its probe
    ended,     \* history: the process its shutdown request reached
    early,     \* history: it quit before its sidecar was stored or served
    vain,      \* history: its shutdown request failed though the port was open
    calm,      \* history: one command at a time so far, none timed out, no
               \* ping failed that a start relied on, and no shell
    shells, crashes

procVars == <<st, told, streams>>
cmdVars == <<pidFile, cmd, target, calm>>
shellVars == <<shell, leaving, slot, sidecar, answered, ended, early, vain, shells>>
vars == <<procVars, cmdVars, shellVars, crashes>>

Live == {p \in Procs : st[p] \notin {"unborn", "dead"}}

\* Who has the port, if anybody.
Server == {p \in Procs : st[p] = "serving"}

TypeOK ==
    /\ st \in [Procs -> {"unborn", "boot", "priming", "serving", "draining",
                         "stopping", "dead"}]
    /\ \A p, q \in Server : p = q
    /\ told \in [Procs -> BOOLEAN]
    /\ streams \in [Procs -> BOOLEAN]
    /\ \A p \in Procs : streams[p] => st[p] \in {"serving", "draining"}
    /\ pidFile \in Procs \cup {None}
    /\ cmd \in [Commands -> {"idle", "start", "wait", "stop"}]
    /\ target \in [Commands -> Procs \cup {None}]
    /\ shell \in {"off", "probing", "spawning", "storing", "running",
                  "posting", "polling"}
    /\ slot \in {None, sidecar}
    /\ sidecar \in Procs \cup {None}
    /\ answered \in Procs \cup {None}
    /\ ended \in Procs \cup {None}
    /\ early \in BOOLEAN /\ vain \in BOOLEAN /\ calm \in BOOLEAN
    /\ leaving \in BOOLEAN
    /\ shells \in 0..MaxShells /\ crashes \in 0..MaxCrashes

Init ==
    /\ st = [p \in Procs |-> "unborn"]
    /\ told = [p \in Procs |-> FALSE]
    /\ streams = [p \in Procs |-> FALSE]
    /\ pidFile = None
    /\ cmd = [c \in Commands |-> "idle"]
    /\ target = [c \in Commands |-> None]
    /\ shell = "off"
    /\ slot = None
    /\ sidecar = None
    /\ answered = None
    /\ ended = None
    /\ early = FALSE
    /\ vain = FALSE
    /\ leaving = FALSE
    /\ calm = TRUE
    /\ shells = 0
    /\ crashes = 0

-----------------------------------------------------------------------------
(* The daemon process. *)

\* A new process, the next one in line.
Spawn(p) ==
    /\ st[p] = "unborn"
    /\ \A q \in 1..p - 1 : st[q] # "unborn"
    /\ st' = [st EXCEPT ![p] = "boot"]

Goes(p, from, to) == st[p] = from /\ st' = [st EXCEPT ![p] = to]

\* Imports are over: from here on signals are caught, and the lifespan starts
\* the watcher, which primes, and the workers.
Boot(p) ==
    /\ Goes(p, "boot", "priming")
    /\ UNCHANGED <<told, streams, cmdVars, shellVars, crashes>>

\* The lifespan has started.  With a pending signal uvicorn leaves at once,
\* without the shutdown half of the lifespan; if the port is taken it runs
\* that half; else it serves.
Primed(p) ==
    /\ \/ ~told[p] /\ Server = {} /\ Goes(p, "priming", "serving")
       \/ ~told[p] /\ Server # {} /\ Goes(p, "priming", "stopping")
       \/ told[p] /\ Goes(p, "priming", "dead")
    /\ UNCHANGED <<told, streams, cmdVars, shellVars, crashes>>

\* should_exit is seen: the port is given up.
Drain(p) ==
    /\ told[p]
    /\ Goes(p, "serving", "draining")
    /\ UNCHANGED <<told, streams, cmdVars, shellVars, crashes>>

\* Responses under way are waited for without limit, streams too.
Drained(p) ==
    /\ ~streams[p]
    /\ Goes(p, "draining", "stopping")
    /\ UNCHANGED <<told, streams, cmdVars, shellVars, crashes>>

\* The workers are stopped, with five seconds each, the ledger is closed, and
\* os._exit.
Exit(p) ==
    /\ Goes(p, "stopping", "dead")
    /\ UNCHANGED <<told, streams, cmdVars, shellVars, crashes>>

\* Faulty variant of Accepts: connections are taken while old ones drain.
AcceptsStill(p) == st[p] \in {"serving", "draining"}

\* The port is open.
Accepts(p) == st[p] = "serving"

OpenStream(p) ==
    /\ Accepts(p) /\ ~streams[p]
    /\ streams' = [streams EXCEPT ![p] = TRUE]
    /\ UNCHANGED <<st, told, cmdVars, shellVars, crashes>>

CloseStream(p) ==
    /\ streams[p]
    /\ streams' = [streams EXCEPT ![p] = FALSE]
    /\ UNCHANGED <<st, told, cmdVars, shellVars, crashes>>

Crash(p) ==
    /\ crashes < MaxCrashes
    /\ crashes' = crashes + 1
    /\ p \in Live
    /\ st' = [st EXCEPT ![p] = "dead"]
    /\ streams' = [streams EXCEPT ![p] = FALSE]
    /\ UNCHANGED <<told, cmdVars, shellVars>>

-----------------------------------------------------------------------------
(* tailward daemon start and stop. *)

Quiet(c) == shell = "off" /\ \A d \in Commands \ {c} : cmd[d] = "idle"

Becomes(c, pc, p) ==
    /\ cmd' = [cmd EXCEPT ![c] = pc]
    /\ target' = [target EXCEPT ![c] = p]

\* A daemon whose pid is on file and that a ping can reach: start leaves it at
\* that if the ping is answered.
Reusable == pidFile \in Live /\ Server # {}

\* start finds no daemon; or there is one, and its ping got no answer within
\* half a second, or failed.
Start(c) ==
    /\ cmd[c] = "idle"
    /\ Becomes(c, "start", None)
    /\ calm' = (calm /\ Quiet(c) /\ ~Reusable)
    /\ UNCHANGED <<procVars, pidFile, shellVars, crashes>>

\* Popen, and the pid is written over whatever is on file.
StartSpawn(c, p) ==
    /\ cmd[c] = "start"
    /\ Spawn(p)
    /\ pidFile' = p
    /\ Becomes(c, "wait", p)
    /\ UNCHANGED <<told, streams, calm, shellVars, crashes>>

\* Faulty variant of Up: spawned is as good as started.
UpAtOnce(c) == TRUE

\* A ping is answered, by this daemon or another.
Up(c) == Server # {}

\* The pid of the new process is returned; or the process is dead; or ten
\* seconds are over.
StartReturns(c) ==
    /\ cmd[c] = "wait"
    /\ \/ Up(c) /\ UNCHANGED calm
       \/ target[c] \notin Live /\ UNCHANGED calm
       \/ calm' = FALSE
    /\ Becomes(c, "idle", None)
    /\ UNCHANGED <<procVars, pidFile, shellVars, crashes>>

\* SIGTERM: by default it kills, once caught it sets should_exit.
Signal(p) ==
    /\ st' = IF st[p] = "boot" THEN [st EXCEPT ![p] = "dead"] ELSE st
    /\ told' = [told EXCEPT ![p] = TRUE]

\* stop: without a live process on file there is nothing to do but to remove
\* a stale file.
StopNothing(c) ==
    /\ cmd[c] = "idle"
    /\ pidFile # None /\ pidFile \notin Live
    /\ pidFile' = None
    /\ UNCHANGED <<procVars, cmd, target, calm, shellVars, crashes>>

StopSignal(c) ==
    /\ cmd[c] = "idle"
    /\ pidFile \in Live
    /\ Signal(pidFile)
    /\ Becomes(c, "stop", pidFile)
    /\ calm' = (calm /\ Quiet(c))
    /\ UNCHANGED <<streams, pidFile, shellVars, crashes>>

\* The process is gone, or five seconds are over: the file is removed
\* whatever it says by now, and "stopped" is printed either way.
StopReturns(c) ==
    /\ cmd[c] = "stop"
    /\ \/ target[c] \notin Live /\ UNCHANGED calm
       \/ target[c] \in Live /\ calm' = FALSE
    /\ pidFile' = None
    /\ Becomes(c, "idle", None)
    /\ UNCHANGED <<procVars, shellVars, crashes>>

-----------------------------------------------------------------------------
(* The desktop shell. *)

Launch ==
    /\ shell = "off"
    /\ shells < MaxShells
    /\ shells' = shells + 1
    /\ shell' = "probing"
    /\ sidecar' = None /\ answered' = None /\ ended' = None
    /\ early' = FALSE /\ vain' = FALSE
    /\ calm' = FALSE
    /\ UNCHANGED <<procVars, pidFile, cmd, target, leaving, slot, crashes>>

\* A daemon that answers is reused, and not owned.  One that is too slow, or
\* answers with an error, is taken for none.
Probe ==
    /\ shell = "probing"
    /\ \/ /\ shell' = "spawning"
          /\ UNCHANGED answered
       \/ /\ answered' \in Server
          /\ shell' = "running"
    /\ UNCHANGED <<procVars, cmdVars, leaving, slot, sidecar, ended, early, vain,
                   shells, crashes>>

SpawnSidecar(p) ==
    /\ shell = "spawning"
    /\ Spawn(p)
    /\ sidecar' = p
    /\ shell' = "storing"
    /\ UNCHANGED <<told, streams, cmdVars, leaving, slot, answered, ended, early,
                   vain, shells, crashes>>

StoreChild ==
    /\ shell = "storing"
    /\ slot' = sidecar
    /\ shell' = "running"
    /\ UNCHANGED <<procVars, cmdVars, leaving, sidecar, answered, ended, early,
                   vain, shells, crashes>>

\* Faulty variant of Owns: whatever the shell uses it ends.
OwnsAny == TRUE

\* A child is in the slot.
Owns == slot # None

\* The exit hook takes the slot.  Without a child in it the process ends next,
\* and until then the spawn task, on a thread of its own, goes on.
Quit ==
    /\ shell \in {"probing", "spawning", "storing", "running"}
    /\ ~leaving
    /\ slot' = None
    /\ shell' = IF Owns THEN "posting" ELSE shell
    /\ leaving' = ~Owns
    /\ early' = \/ shell # "running"
                \/ \E p \in Live \cap {sidecar} : st[p] \in {"boot", "priming"}
    /\ UNCHANGED <<procVars, cmdVars, sidecar, answered, ended, vain, shells,
                   crashes>>

\* The process ends, and with it a child that was stored too late is forgotten.
Gone ==
    /\ leaving
    /\ leaving' = FALSE
    /\ shell' = "off"
    /\ slot' = None
    /\ UNCHANGED <<procVars, cmdVars, sidecar, answered, ended, early, vain,
                   shells, crashes>>

\* POST /shutdown goes to whoever has the port, or fails.
PostShutdown ==
    /\ shell = "posting"
    /\ \/ /\ vain' = (Server # {})
          /\ UNCHANGED <<told, ended>>
       \/ /\ ended' \in Server
          /\ told' = [told EXCEPT ![ended'] = TRUE]
          /\ UNCHANGED vain
    /\ shell' = "polling"
    /\ UNCHANGED <<st, streams, cmdVars, leaving, slot, sidecar, answered, early,
                   shells, crashes>>

\* Nobody answers any more, "shut down gracefully"; or five seconds are over
\* and the bootloader is killed, which leaves the daemon proper alone.
QuitOver ==
    /\ shell = "polling"
    /\ shell' = "off"
    /\ UNCHANGED <<procVars, cmdVars, leaving, slot, sidecar, answered, ended,
                   early, vain, shells, crashes>>

-----------------------------------------------------------------------------

\* What a process does by itself.
Run(p) == Boot(p) \/ Primed(p) \/ Drain(p) \/ Drained(p) \/ Exit(p)

Next ==
    \/ \E p \in Procs :
          \/ Run(p)
          \/ OpenStream(p)
          \/ CloseStream(p)
          \/ Crash(p)
          \/ SpawnSidecar(p)
          \/ \E c \in Commands : StartSpawn(c, p)
    \/ \E c \in Commands :
          \/ Start(c)
          \/ StartReturns(c)
          \/ StopNothing(c)
          \/ StopSignal(c)
          \/ StopReturns(c)
    \/ Launch
    \/ Probe
    \/ StoreChild
    \/ Quit
    \/ Gone
    \/ PostShutdown
    \/ QuitOver

Spec == Init /\ [][Next]_vars

\* Processes run.  Nothing is assumed of users: tabs may stay open for ever.
FairSpec == Spec /\ \A p \in Procs : WF_vars(Run(p))

-----------------------------------------------------------------------------
(* Properties. *)

\* A user who runs one command at a time, each to its end and within its
\* deadline, never has two daemons at work on the ledger, even when daemons
\* crash, provided that a daemon that serves answers the ping of a start; the
\* pid file names the one there is, and a start that has returned leaves one
\* that serves, is told to stop, or is dead (start and stop).
CalmUseIsSafe ==
    calm =>
        /\ Live \subseteq {pidFile}
        /\ (\A c \in Commands : cmd[c] = "idle") => Live \subseteq Server

\* A shell that has reused a daemon ends none when it quits, and one that ends
\* a daemon has spawned one, though not always the one it ends; and a daemon it
\* has spawned and left behind, running and not told to stop, was still being
\* spawned or starting when it quit, or had lost its port to another one, or
\* the shutdown request failed (SpawnedDaemon and the exit hook).
ShellExitAccounted ==
    /\ ended # None => answered = None /\ sidecar # None
    /\ shell = "off" /\ sidecar \in Live =>
          told[sidecar] \/ early \/ vain \/ st[sidecar] = "stopping"

\* A process told to stop is dead in the end, at whatever point it was told,
\* unless a tab keeps a stream open (should_exit, lifespan).
ToldDies ==
    \A p \in Procs :
        []<>(told[p] /\ st[p] # "dead") => <>[]streams[p]

=============================================================================
