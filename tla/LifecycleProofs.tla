-------------------------- MODULE LifecycleProofs --------------------------
(***************************************************************************)
(* Proofs about Lifecycle for any terminals and any numbers of processes,  *)
(* launches and crashes: type correctness, what the shell leaves behind,   *)
(* and the pid file of a calm user.                                        *)
(***************************************************************************)
EXTENDS Lifecycle, TLAPS

-----------------------------------------------------------------------------
(* Types.  Actions are grouped by what they may do to the processes. *)

\* What one step may do to process p, if it changes how far p is.
Moves(p) ==
    \E s \in {"boot", "priming", "serving", "draining", "stopping", "dead"} :
        /\ st' = [st EXCEPT ![p] = s]
        /\ st[p] = "unborn" <=> s = "boot"
        /\ s = "serving" => Server = {} /\ st[p] = "priming"
        /\ s = "draining" => told[p] /\ st[p] = "serving"
        /\ s = "priming" => st[p] = "boot"
        /\ s = "stopping" => st[p] \in {"priming", "draining"} /\ ~streams'[p]
        /\ s = "dead" => st[p] \notin {"unborn", "dead"} /\ ~streams'[p]

\* The process part of the types, and what a signal and a drain have to do with
\* each other.
ProcInv ==
    /\ st \in [Procs -> {"unborn", "boot", "priming", "serving", "draining",
                         "stopping", "dead"}]
    /\ told \in [Procs -> BOOLEAN]
    /\ streams \in [Procs -> BOOLEAN]
    /\ \A p \in Procs : streams[p] => st[p] \in {"serving", "draining"}
    /\ \A p, q \in Procs : st[p] = "serving" /\ st[q] = "serving" => p = q
    /\ \A p \in Procs : st[p] = "unborn" => ~told[p]
    /\ \A p \in Procs : st[p] = "draining" => told[p]

CmdTypes ==
    /\ pidFile \in Procs \cup {None}
    /\ cmd \in [Commands -> {"idle", "start", "wait", "stop"}]
    /\ target \in [Commands -> Procs \cup {None}]
    /\ calm \in BOOLEAN

ShellTypes ==
    /\ shell \in {"off", "probing", "spawning", "storing", "running",
                  "posting", "polling"}
    /\ slot \in {None, sidecar}
    /\ sidecar \in Procs \cup {None}
    /\ answered \in Procs \cup {None}
    /\ ended \in Procs \cup {None}
    /\ early \in BOOLEAN /\ vain \in BOOLEAN /\ leaving \in BOOLEAN
    /\ shells \in 0..MaxShells /\ crashes \in 0..MaxCrashes

\* The shell has a sidecar or a daemon that answered it, and what the slot
\* holds, by where it is.
ShellInv ==
    /\ answered # None =>
          /\ ended = None /\ sidecar = None
          /\ shell \in {"off", "running"}
    /\ shell \in {"probing", "spawning"} => sidecar = None /\ ended = None
    /\ sidecar # None => st[sidecar] # "unborn"
    /\ shell = "running" => slot = sidecar
    /\ shell # "running" => slot = None
    /\ leaving => shell \in {"probing", "spawning", "storing", "running"}
    /\ leaving /\ (shell # "running" \/ sidecar # None) => early
    /\ ended # None => sidecar # None
    /\ shell \in {"storing", "posting", "polling"} => sidecar # None
    /\ shell = "posting" /\ sidecar \in Live =>
          early \/ st[sidecar] \in {"serving", "draining", "stopping"}
    /\ shell \in {"off", "polling"} /\ sidecar \in Live =>
          told[sidecar] \/ early \/ vain \/ st[sidecar] = "stopping"

TypeInv == ProcInv /\ CmdTypes /\ ShellTypes /\ ShellInv

LEMMA TypeInvTypes == TypeInv => TypeOK
  BY DEF TypeInv, ProcInv, CmdTypes, ShellTypes, TypeOK, Server

LEMMA TypeInit == Init => TypeInv
<1> SUFFICES ASSUME Init PROVE TypeInv
  OBVIOUS
<1>1. ProcInv
  BY DEF Init, ProcInv
<1>2. CmdTypes
  BY DEF Init, CmdTypes
<1>3. ShellTypes
  <2>1. shells \in 0..MaxShells /\ crashes \in 0..MaxCrashes
    BY LifecycleAssumption DEF Init
  <2> QED BY <2>1 DEF Init, ShellTypes
<1>4. ShellInv
  BY DEF Init, ShellInv, Live, Procs, None
<1> QED BY <1>1, <1>2, <1>3, <1>4 DEF TypeInv

-----------------------------------------------------------------------------
(* Steps of the processes. *)

LEMMA RunMoves ==
  ASSUME ProcInv, NEW p \in Procs, Run(p) \/ Crash(p)
  PROVE  Moves(p) /\ told' = told /\ streams' \in [Procs -> BOOLEAN]
         /\ \A q \in Procs : streams'[q] => streams[q]
<1>1. CASE Boot(p)
  BY <1>1 DEF Boot, Goes, Moves, ProcInv
<1>2. CASE Primed(p)
  BY <1>2 DEF Primed, Goes, Moves, ProcInv
<1>3. CASE Drain(p)
  BY <1>3 DEF Drain, Goes, Moves, ProcInv
<1>4. CASE Drained(p)
  BY <1>4 DEF Drained, Goes, Moves, ProcInv
<1>5. CASE Exit(p)
  BY <1>5 DEF Exit, Goes, Moves, ProcInv
<1>6. CASE Crash(p)
  BY <1>6 DEF Crash, Live, Moves, ProcInv
<1> QED BY <1>1, <1>2, <1>3, <1>4, <1>5, <1>6 DEF Run

LEMMA MoveKeepsProcs ==
  ASSUME ProcInv, NEW p \in Procs, Moves(p), told' = told,
         streams' \in [Procs -> BOOLEAN],
         \A q \in Procs : streams'[q] => streams[q]
  PROVE  ProcInv'
<1> PICK s \in {"boot", "priming", "serving", "draining", "stopping", "dead"} :
        /\ st' = [st EXCEPT ![p] = s]
        /\ st[p] = "unborn" <=> s = "boot"
        /\ s = "serving" => Server = {} /\ st[p] = "priming"
        /\ s = "draining" => told[p] /\ st[p] = "serving"
        /\ s = "priming" => st[p] = "boot"
        /\ s = "stopping" => st[p] \in {"priming", "draining"} /\ ~streams'[p]
        /\ s = "dead" => st[p] \notin {"unborn", "dead"} /\ ~streams'[p]
  BY DEF Moves
<1>1. st' \in [Procs -> {"unborn", "boot", "priming", "serving", "draining",
                         "stopping", "dead"}]
  BY DEF ProcInv
<1>2. \A q \in Procs : st'[q] = IF q = p THEN s ELSE st[q]
  BY DEF ProcInv
<1>3. \A q \in Procs : streams'[q] => st'[q] \in {"serving", "draining"}
  BY <1>2 DEF ProcInv
<1>4. \A q, r \in Procs : st'[q] = "serving" /\ st'[r] = "serving" => q = r
  BY <1>2 DEF ProcInv, Server
<1>5. \A q \in Procs : /\ st'[q] = "unborn" => ~told'[q]
                       /\ st'[q] = "draining" => told'[q]
  BY <1>2 DEF ProcInv
<1> QED BY <1>1, <1>3, <1>4, <1>5 DEF ProcInv

\* A move of a process that is there leaves the account of the shell's sidecar.
LEMMA MoveKeepsShell ==
  ASSUME ProcInv, ShellTypes, ShellInv, NEW p \in Procs, Moves(p), told' = told,
         UNCHANGED shellVars
  PROVE  ShellInv'
  BY DEF ProcInv, ShellTypes, ShellInv, Moves, Live, Procs, None, shellVars

LEMMA ProcStep ==
  ASSUME TypeInv, NEW p \in Procs,
         Run(p) \/ OpenStream(p) \/ CloseStream(p) \/ Crash(p)
  PROVE  TypeInv'
<1>1. CASE OpenStream(p) \/ CloseStream(p)
  <2>1. UNCHANGED <<st, told, cmdVars, shellVars, crashes>>
    BY <1>1 DEF OpenStream, CloseStream
  <2>2. streams' \in [Procs -> BOOLEAN]
        /\ \A q \in Procs : streams'[q] => st[q] \in {"serving", "draining"}
    BY <1>1 DEF OpenStream, CloseStream, Accepts, TypeInv, ProcInv
  <2>3. ProcInv'
    BY <2>1, <2>2 DEF TypeInv, ProcInv
  <2> QED
    BY <2>1, <2>3 DEF TypeInv, CmdTypes, ShellTypes, ShellInv, Live, cmdVars, shellVars
<1>2. CASE Run(p) \/ Crash(p)
  <2>1. ProcInv /\ ShellTypes /\ ShellInv
    BY DEF TypeInv
  <2>2. UNCHANGED <<cmdVars, shellVars>> /\ crashes' \in 0..MaxCrashes
    BY <1>2, <2>1, LifecycleAssumption
    DEF Run, Boot, Primed, Drain, Drained, Exit, Crash, ShellTypes
  <2>3. ProcInv' /\ ShellInv'
    BY <1>2, <2>1, <2>2, RunMoves, MoveKeepsProcs, MoveKeepsShell
  <2> QED BY <2>2, <2>3 DEF TypeInv, CmdTypes, ShellTypes, cmdVars, shellVars
<1> QED BY <1>1, <1>2

-----------------------------------------------------------------------------
(* Steps of the commands. *)

LEMMA SpawnMoves ==
  ASSUME ProcInv, NEW p \in Procs, Spawn(p), UNCHANGED streams
  PROVE  Moves(p)
  BY DEF Spawn, Moves, ProcInv

LEMMA SpawnCommand ==
  ASSUME TypeInv, NEW c \in Commands, NEW p \in Procs, StartSpawn(c, p)
  PROVE  TypeInv'
<1>1. Spawn(p) /\ UNCHANGED <<told, streams, shellVars, crashes>>
  BY DEF StartSpawn
<1>2. ProcInv /\ ShellTypes /\ ShellInv /\ streams \in [Procs -> BOOLEAN]
  BY DEF TypeInv, ProcInv
<1>3. ProcInv' /\ ShellInv'
  BY <1>1, <1>2, SpawnMoves, MoveKeepsProcs, MoveKeepsShell
<1>4. CmdTypes'
  BY DEF StartSpawn, Becomes, TypeInv, CmdTypes
<1> QED BY <1>1, <1>2, <1>3, <1>4 DEF TypeInv, ShellTypes, shellVars

LEMMA StopCommand ==
  ASSUME TypeInv, NEW c \in Commands, StopSignal(c)
  PROVE  TypeInv'
<1> USE DEF TypeInv
<1>1. pidFile \in Procs /\ st[pidFile] \notin {"unborn", "dead"}
  BY DEF StopSignal, Live
<1>2. \A q \in Procs :
        /\ st'[q] = IF q = pidFile /\ st[q] = "boot" THEN "dead" ELSE st[q]
        /\ told'[q] = (q = pidFile \/ told[q])
  BY <1>1 DEF StopSignal, Signal, ProcInv
<1>3. st' \in [Procs -> {"unborn", "boot", "priming", "serving", "draining",
                         "stopping", "dead"}]
      /\ told' \in [Procs -> BOOLEAN]
  BY <1>1 DEF StopSignal, Signal, ProcInv
<1>4. UNCHANGED <<streams, pidFile, shellVars, crashes>>
  BY DEF StopSignal
<1>5. ProcInv'
  BY <1>1, <1>2, <1>3, <1>4 DEF ProcInv
<1>6. CmdTypes'
  BY <1>1, <1>4 DEF StopSignal, Becomes, CmdTypes
<1>7. ShellTypes'
  BY <1>4 DEF ShellTypes, shellVars
<1>8. ShellInv'
  BY <1>2, <1>4 DEF ShellInv, ShellTypes, ProcInv, Live, None, shellVars
<1> QED BY <1>5, <1>6, <1>7, <1>8

LEMMA OtherCommand ==
  ASSUME TypeInv, NEW c \in Commands,
         Start(c) \/ StartReturns(c) \/ StopNothing(c) \/ StopReturns(c)
  PROVE  TypeInv'
<1>1. UNCHANGED <<procVars, shellVars, crashes>>
  BY DEF Start, StartReturns, StopNothing, StopReturns
<1>2. CmdTypes'
  BY DEF Start, StartReturns, StopNothing, StopReturns, Becomes, TypeInv, CmdTypes
<1> QED
  BY <1>1, <1>2 DEF TypeInv, ProcInv, ShellTypes, ShellInv, Live, procVars, shellVars

-----------------------------------------------------------------------------
(* Steps of the shell. *)

LEMMA SpawnShell ==
  ASSUME TypeInv, NEW p \in Procs, SpawnSidecar(p)
  PROVE  TypeInv'
<1>1. Spawn(p) /\ UNCHANGED <<told, streams, cmdVars, leaving, slot, answered, ended,
                             early, vain, shells, crashes>>
      /\ shell = "spawning" /\ shell' = "storing" /\ sidecar' = p
  BY DEF SpawnSidecar
<1>2. ProcInv /\ streams \in [Procs -> BOOLEAN]
  BY DEF TypeInv, ProcInv
<1>3. ProcInv'
  BY <1>1, <1>2, SpawnMoves, MoveKeepsProcs
<1>4. CmdTypes' /\ ShellTypes'
  BY <1>1 DEF TypeInv, CmdTypes, ShellTypes, ShellInv, cmdVars
<1>5. st'[p] = "boot" /\ p # None
  BY <1>1, <1>2 DEF Spawn, ProcInv, Procs, None
<1>6. answered = None /\ slot = None /\ ended = None
  BY <1>1 DEF TypeInv, ShellInv
<1>7. ShellInv'
  BY <1>1, <1>5, <1>6 DEF TypeInv, ShellInv
<1> QED BY <1>3, <1>4, <1>7 DEF TypeInv

LEMMA LaunchOrProbe ==
  ASSUME TypeInv, Launch \/ Probe \/ StoreChild
  PROVE  TypeInv'
<1>1. UNCHANGED procVars /\ UNCHANGED crashes /\ UNCHANGED leaving
  BY DEF Launch, Probe, StoreChild
<1>2. ProcInv'
  BY <1>1 DEF TypeInv, ProcInv, procVars
<1>3. CmdTypes'
  BY DEF Launch, Probe, StoreChild, TypeInv, CmdTypes, cmdVars
<1>4. ShellTypes'
  <2>1. CASE Launch
    <3>1. shells' \in 0..MaxShells /\ crashes' \in 0..MaxCrashes
      BY <1>1, <2>1, LifecycleAssumption DEF Launch, TypeInv, ShellTypes
    <3>2. slot' = None
      BY <2>1 DEF Launch, TypeInv, ShellInv
    <3> QED BY <1>1, <2>1, <3>1, <3>2 DEF Launch, TypeInv, ShellTypes
  <2>2. CASE Probe
    <3>1. slot' = None /\ answered' \in Procs \cup {None}
      BY <2>2 DEF Probe, Server, TypeInv, ShellTypes, ShellInv
    <3> QED BY <1>1, <2>2, <3>1 DEF Probe, TypeInv, ShellTypes
  <2>3. CASE StoreChild
    BY <1>1, <2>3 DEF StoreChild, TypeInv, ShellTypes
  <2> QED BY <2>1, <2>2, <2>3
<1>5. ShellInv'
  BY <1>1 DEF Launch, Probe, StoreChild, TypeInv, ShellInv, Live, None, Procs, procVars
<1> QED BY <1>2, <1>3, <1>4, <1>5 DEF TypeInv

LEMMA QuitStep ==
  ASSUME TypeInv, Quit \/ Gone \/ QuitOver
  PROVE  TypeInv'
<1>1. UNCHANGED procVars /\ UNCHANGED crashes /\ UNCHANGED cmdVars
      /\ UNCHANGED <<sidecar, answered, ended, vain, shells>>
  BY DEF Quit, Gone, QuitOver
<1>2. ProcInv' /\ CmdTypes'
  BY <1>1 DEF TypeInv, ProcInv, CmdTypes, procVars, cmdVars
<1>3. ShellTypes'
  <2>1. early' \in BOOLEAN /\ leaving' \in BOOLEAN
    BY DEF Quit, Gone, QuitOver, Owns, TypeInv, ShellTypes
  <2>2. slot' \in {None, sidecar'}
    BY DEF Quit, Gone, QuitOver, TypeInv, ShellTypes
  <2>3. shell' \in {"off", "probing", "spawning", "storing", "running",
                   "posting", "polling"}
    BY DEF Quit, Gone, QuitOver, TypeInv, ShellTypes
  <2> QED BY <1>1, <2>1, <2>2, <2>3 DEF TypeInv, ShellTypes
<1>4. Live' = Live /\ st' = st /\ told' = told
  BY <1>1 DEF Live, procVars
<1>5. ASSUME Quit PROVE ShellInv'
  <2>1. /\ slot' = None
        /\ shell \in {"probing", "spawning", "storing", "running"}
        /\ shell' = IF slot # None THEN "posting" ELSE shell
        /\ leaving' <=> slot = None
    BY <1>5 DEF Quit, Owns
  <2>2. /\ shell # "running" => early'
        /\ sidecar \in Live => early' \/ st[sidecar] \in {"serving", "draining", "stopping"}
    <3>1. early' = \/ shell # "running"
                   \/ \E p \in Live \cap {sidecar} : st[p] \in {"boot", "priming"}
      BY <1>5 DEF Quit
    <3>2. sidecar \in Live =>
            st[sidecar] \in {"boot", "priming", "serving", "draining", "stopping"}
      BY DEF Live, TypeInv, ProcInv
    <3>3. sidecar \in Live /\ st[sidecar] \in {"boot", "priming"} => early'
      BY <3>1, Zenon
    <3>4. shell # "running" => early'
      BY <3>1, Zenon
    <3> QED BY <3>2, <3>3, <3>4
  <2>3. /\ slot # None => shell = "running" /\ slot = sidecar
        /\ shell = "running" /\ slot = None => sidecar = None
    BY <2>1 DEF TypeInv, ShellInv
  <2>4. answered # None => slot = None
    BY DEF TypeInv, ShellInv, ShellTypes
  <2> QED
    BY <1>1, <1>4, <2>1, <2>2, <2>3, <2>4 DEF TypeInv, ShellInv
<1>6. ASSUME Gone PROVE ShellInv'
  <2>1. sidecar # None => early
    BY <1>6 DEF Gone, TypeInv, ShellInv
  <2>2. sidecar \in Live => sidecar # None
    BY DEF Live, Procs, None
  <2> QED
    BY <1>1, <1>4, <1>6, <2>1, <2>2 DEF Gone, TypeInv, ShellInv
<1>7. ASSUME QuitOver PROVE ShellInv'
  BY <1>1, <1>4, <1>7 DEF QuitOver, TypeInv, ShellInv
<1> QED BY <1>2, <1>3, <1>5, <1>6, <1>7 DEF TypeInv

LEMMA PostStep ==
  ASSUME TypeInv, PostShutdown
  PROVE  TypeInv'
<1>1. UNCHANGED <<st, streams, cmdVars, leaving, slot, sidecar, answered, early,
                  shells, crashes>>
      /\ shell = "posting" /\ shell' = "polling"
  BY DEF PostShutdown
<1>2. /\ told' \in [Procs -> BOOLEAN] /\ ended' \in Procs \cup {None} /\ vain' \in BOOLEAN
      /\ \A q \in Procs : told[q] => told'[q]
      /\ \A q \in Procs : told'[q] => told[q] \/ q \in Server
      /\ vain' \/ \A q \in Server : told'[q]
  BY DEF PostShutdown, TypeInv, ProcInv, ShellTypes, Server
<1>3. ProcInv'
  <2>1. \A q \in Server : st[q] = "serving"
    BY DEF Server
  <2>2. \A q \in Procs : /\ st[q] = "unborn" => ~told'[q]
                         /\ st[q] = "draining" => told'[q]
    BY <1>2, <2>1 DEF TypeInv, ProcInv
  <2> QED BY <1>1, <1>2, <2>2 DEF TypeInv, ProcInv
<1>4. CmdTypes' /\ ShellTypes'
  BY <1>1, <1>2 DEF TypeInv, CmdTypes, ShellTypes, cmdVars
<1>5. ASSUME sidecar \in Live
      PROVE  told'[sidecar] \/ early \/ vain' \/ st[sidecar] = "stopping"
  <2>1. sidecar \in Procs
    BY <1>5 DEF Live
  <2>2. early \/ st[sidecar] \in {"serving", "draining", "stopping"}
    BY <1>1, <1>5 DEF TypeInv, ShellInv
  <2>3. CASE st[sidecar] = "serving"
    BY <1>2, <2>1, <2>3 DEF Server
  <2>4. CASE st[sidecar] = "draining"
    BY <1>2, <2>1, <2>4 DEF TypeInv, ProcInv
  <2> QED BY <2>2, <2>3, <2>4
<1>6. ShellInv'
  BY <1>1, <1>5 DEF TypeInv, ShellInv, Live
<1> QED BY <1>3, <1>4, <1>6 DEF TypeInv

-----------------------------------------------------------------------------

LEMMA TypeStep == TypeInv /\ [Next]_vars => TypeInv'
<1>1. ASSUME TypeInv, UNCHANGED vars PROVE TypeInv'
  BY <1>1 DEF TypeInv, ProcInv, CmdTypes, ShellTypes, ShellInv, Live, vars, procVars,
              cmdVars, shellVars
<1> QED
  BY <1>1, ProcStep, SpawnCommand, StopCommand, OtherCommand, SpawnShell,
     LaunchOrProbe, QuitStep, PostStep DEF Next

\* The type invariant of the life cycle, for any number of processes, terminals
\* and launches: two processes never have the port, and a stream is open from
\* one that serves or drains.
THEOREM TypeCorrect == Spec => []TypeOK
<1>1. Spec => []TypeInv
  BY TypeInit, TypeStep, PTL DEF Spec
<1> QED BY <1>1, TypeInvTypes, PTL

\* The shell ends no daemon if one answered its probe, and only if it has
\* spawned one, and what it leaves behind untold was still being spawned or
\* starting, or had lost its port, or the request failed (the exit hook).
THEOREM ExitAccounted == Spec => []ShellExitAccounted
<1>1. TypeInv => ShellExitAccounted
  BY DEF TypeInv, ShellInv, ShellTypes, ShellExitAccounted
<1>2. Spec => []TypeInv
  BY TypeInit, TypeStep, PTL DEF Spec
<1> QED BY <1>1, <1>2, PTL

-----------------------------------------------------------------------------
(* The pid file of a calm user. *)

\* Commands take turns, and what each has made sure of so far.
CalmInv ==
    calm =>
        /\ shell = "off"
        /\ \A c, d \in Commands : cmd[c] = "idle" \/ cmd[d] = "idle" \/ c = d
        /\ Live \subseteq {pidFile}
        /\ \A c \in Commands :
              /\ cmd[c] = "start" => Live = {}
              /\ cmd[c] \in {"wait", "stop"} => Live \subseteq {target[c]}
        /\ (\A c \in Commands : cmd[c] = "idle") => Live \subseteq Server
        /\ (\A c \in Commands : cmd[c] # "stop") => \A p \in Live : ~told[p]

LEMMA CalmRun ==
  ASSUME TypeInv, CalmInv, NEW p \in Procs, Run(p) \/ Crash(p)
  PROVE  CalmInv'
<1>1. UNCHANGED <<cmdVars, shell, told>> /\ Moves(p)
  BY RunMoves DEF Run, Boot, Primed, Drain, Drained, Exit, Crash, TypeInv, shellVars
<1>2. p \in Live /\ Live' \subseteq Live
  BY <1>1 DEF Run, Boot, Primed, Drain, Drained, Exit, Crash, Goes, Live, TypeInv, ProcInv
<1>3. ASSUME calm, \A c \in Commands : cmd[c] = "idle"
      PROVE  Live' \subseteq Server'
  <2>1. st[p] = "serving" /\ ~told[p] /\ Live = {p}
    BY <1>2, <1>3 DEF CalmInv, Server
  <2>2. st' = [st EXCEPT ![p] = "dead"]
    BY <2>1 DEF Run, Boot, Primed, Drain, Drained, Exit, Crash, Goes
  <2> QED BY <1>2, <2>1, <2>2 DEF Live, TypeInv, ProcInv
<1> QED BY <1>1, <1>2, <1>3 DEF CalmInv, cmdVars

LEMMA CalmStream ==
  ASSUME CalmInv, NEW p \in Procs, OpenStream(p) \/ CloseStream(p)
  PROVE  CalmInv'
<1>1. UNCHANGED <<st, told, shell, cmdVars>>
  BY DEF OpenStream, CloseStream, shellVars
<1> QED BY <1>1 DEF CalmInv, Live, Server, cmdVars

LEMMA CalmStart ==
  ASSUME TypeInv, CalmInv, NEW c \in Commands, Start(c)
  PROVE  CalmInv'
<1> SUFFICES ASSUME calm' PROVE CalmInv'
  BY DEF CalmInv
<1>1. UNCHANGED <<st, told, shell, pidFile>> /\ calm /\ Quiet(c) /\ cmd[c] = "idle"
  BY DEF Start, procVars, shellVars
<1>2. \A d \in Commands : cmd[d] = "idle"
  BY <1>1 DEF Quiet
<1>3. Live \subseteq {pidFile} /\ Live \subseteq Server
  BY <1>1, <1>2 DEF CalmInv
<1>4. Live = {}
  BY <1>3 DEF Start, Reusable
<1>5. Live' = {} /\ Server' = Server
  BY <1>1, <1>4 DEF Live, Server
<1>6. \A d \in Commands : cmd'[d] = IF d = c THEN "start" ELSE "idle"
  BY <1>2 DEF Start, Becomes, TypeInv, CmdTypes
<1> QED BY <1>1, <1>5, <1>6 DEF CalmInv

LEMMA CalmSpawn ==
  ASSUME TypeInv, CalmInv, NEW c \in Commands, NEW p \in Procs, StartSpawn(c, p)
  PROVE  CalmInv'
<1> SUFFICES ASSUME calm' PROVE CalmInv'
  BY DEF CalmInv
<1>1. calm /\ UNCHANGED <<told, shell>> /\ cmd[c] = "start" /\ pidFile' = p
  BY DEF StartSpawn, shellVars
<1>2. Live = {} /\ \A d \in Commands : d # c => cmd[d] = "idle"
  BY <1>1 DEF CalmInv
<1>3. st[p] = "unborn" /\ Live' \subseteq {p} /\ ~told[p]
  BY <1>2 DEF StartSpawn, Spawn, Live, TypeInv, ProcInv
<1>4. \A d \in Commands : cmd'[d] = IF d = c THEN "wait" ELSE "idle"
  BY <1>2 DEF StartSpawn, Becomes, TypeInv, CmdTypes
<1>5. target'[c] = p
  BY DEF StartSpawn, Becomes, TypeInv, CmdTypes
<1>6. \A q \in Live' : ~told'[q]
  BY <1>1, <1>3
<1> QED BY <1>1, <1>2, <1>3, <1>4, <1>5, <1>6 DEF CalmInv

LEMMA CalmReturns ==
  ASSUME TypeInv, CalmInv, NEW c \in Commands, StartReturns(c)
  PROVE  CalmInv'
<1> SUFFICES ASSUME calm' PROVE CalmInv'
  BY DEF CalmInv
<1>1. calm /\ UNCHANGED <<st, told, shell, pidFile>> /\ cmd[c] = "wait"
      /\ (Server # {} \/ target[c] \notin Live)
  BY DEF StartReturns, Up, procVars, shellVars
<1>2. Live \subseteq {target[c]} /\ Server \subseteq Live
      /\ \A d \in Commands : d # c => cmd[d] = "idle"
  BY <1>1 DEF CalmInv, Live, Server
<1>3. Live \subseteq Server /\ \A q \in Live : ~told[q]
  BY <1>1, <1>2 DEF CalmInv
<1>4. \A d \in Commands : cmd'[d] = "idle"
  BY <1>2 DEF StartReturns, Becomes, TypeInv, CmdTypes
<1>5. Live' = Live /\ Server' = Server
  BY <1>1 DEF Live, Server
<1> QED BY <1>1, <1>3, <1>4, <1>5 DEF CalmInv

LEMMA CalmStopNothing ==
  ASSUME TypeInv, CalmInv, NEW c \in Commands, StopNothing(c)
  PROVE  CalmInv'
<1> SUFFICES ASSUME calm' PROVE CalmInv'
  BY DEF CalmInv
<1>1. calm /\ UNCHANGED <<st, told, shell, cmd, target>> /\ pidFile \notin Live
  BY DEF StopNothing, procVars, shellVars
<1>2. Live = {}
  BY <1>1 DEF CalmInv
<1>3. Live' = {}
  BY <1>1, <1>2 DEF Live
<1> QED BY <1>1, <1>3 DEF CalmInv

LEMMA CalmSignal ==
  ASSUME TypeInv, CalmInv, NEW c \in Commands, StopSignal(c)
  PROVE  CalmInv'
<1> SUFFICES ASSUME calm' PROVE CalmInv'
  BY DEF CalmInv
<1>1. calm /\ Quiet(c) /\ UNCHANGED <<shell, pidFile>>
  BY DEF StopSignal, shellVars
<1>2. Live' \subseteq Live
  BY DEF StopSignal, Signal, Live, TypeInv, ProcInv
<1>3. Live' \subseteq {pidFile}
  BY <1>1, <1>2 DEF CalmInv
<1>4. \A d \in Commands : cmd'[d] = IF d = c THEN "stop" ELSE "idle"
  BY <1>1 DEF StopSignal, Quiet, Becomes, TypeInv, CmdTypes
<1>5. target'[c] = pidFile
  BY DEF StopSignal, Becomes, TypeInv, CmdTypes
<1> QED BY <1>1, <1>3, <1>4, <1>5 DEF CalmInv, Quiet

LEMMA CalmStopped ==
  ASSUME TypeInv, CalmInv, NEW c \in Commands, StopReturns(c)
  PROVE  CalmInv'
<1> SUFFICES ASSUME calm' PROVE CalmInv'
  BY DEF CalmInv
<1>1. calm /\ UNCHANGED <<st, told, shell>> /\ cmd[c] = "stop" /\ target[c] \notin Live
  BY DEF StopReturns, procVars, shellVars
<1>2. Live = {} /\ \A d \in Commands : d # c => cmd[d] = "idle"
  BY <1>1 DEF CalmInv
<1>3. Live' = {}
  BY <1>1, <1>2 DEF Live
<1>4. \A d \in Commands : cmd'[d] = "idle"
  BY <1>2 DEF StopReturns, Becomes, TypeInv, CmdTypes
<1> QED BY <1>1, <1>3, <1>4 DEF CalmInv

\* The shell is not calm, and calm users do not launch it.
LEMMA CalmShell ==
  ASSUME TypeInv, CalmInv,
         \/ \E p \in Procs : SpawnSidecar(p)
         \/ Launch \/ Probe \/ StoreChild \/ Quit \/ Gone \/ PostShutdown \/ QuitOver
  PROVE  CalmInv'
<1>1. ~calm'
  BY DEF CalmInv, SpawnSidecar, Launch, Probe, StoreChild, Quit, Gone,
         PostShutdown, QuitOver, TypeInv, ShellInv, cmdVars
<1> QED BY <1>1 DEF CalmInv

LEMMA CalmStep == TypeInv /\ CalmInv /\ [Next]_vars => CalmInv'
<1>1. ASSUME CalmInv, UNCHANGED vars PROVE CalmInv'
  BY <1>1 DEF CalmInv, Live, Server, vars, procVars, cmdVars, shellVars
<1> QED
  BY <1>1, CalmRun, CalmStream, CalmStart, CalmSpawn, CalmReturns, CalmStopNothing,
     CalmSignal, CalmStopped, CalmShell DEF Next

\* One command at a time, each within its deadline and each ping of a daemon
\* that serves answered, never leaves two daemons at work, nor one that the pid
\* file does not name (start, stop).
THEOREM CalmIsSafe == Spec => []CalmUseIsSafe
<1>1. CalmInv => CalmUseIsSafe
  BY DEF CalmInv, CalmUseIsSafe
<1>2. Init => CalmInv
  BY DEF Init, CalmInv, Live, Server
<1>3. Spec => [](TypeInv /\ CalmInv)
  BY <1>2, TypeInit, TypeStep, CalmStep, PTL DEF Spec
<1> QED BY <1>1, <1>3, PTL

=============================================================================
