------------------------ MODULE BlueGreenDeployProofs ------------------------
(***************************************************************************)
(* Proofs about BlueGreenDeploy, for any number of deployments, versions,  *)
(* processes, crashes and watchdog checks, any set of broken versions and  *)
(* servers that may outlive their SIGTERM.  What is assumed is that no two *)
(* deployment scripts run at once; a watchdog may overlap everything.      *)
(***************************************************************************)
EXTENDS BlueGreenDeploy, TLAPS

OneScript == "deploy" \notin MayOverlap

Running(d) == dpc[d] \in PreSwap \cup Swapping

\* No two scripts are at work.
Exclusive == \A d, e \in Deploys : Running(d) /\ Running(e) => d = e

\* Pids are handed out in order; only a living process holds a port, and the pid
\* files and variables name processes that were started.
PidsOK ==
    /\ \A p \in Pid : p >= nextPid => proc[p] = "none"
    /\ \A port \in Port : holder[port] # NoPid => Alive(holder[port])
    /\ \A port \in Port : slot[port] < nextPid
    /\ \A p \in deaf : p < nextPid
    /\ \A d \in Deploys : dStaging[d] < nextPid /\ dLive[d] < nextPid

\* A server that could answer on the staging port is the one slot-b.pid names.
StagingNamed ==
    LET p == holder["staging"]
    IN  p # NoPid /\ proc[p] = "run" => slot["staging"] = p

\* From its build on, a script finds something to run in STAGING_DIR.
BuildThere ==
    \A d \in Deploys :
        dpc[d] \in {"boot", "check", "details", "backup", "stopStaging", "stopLive", "startLive"}
            => stagingBuild # NoVersion

\* The staging server of a script runs the build of the script.
StagingIsBuild ==
    \A d \in Deploys :
        dpc[d] \in {"check", "details", "failStaging", "backup", "stopStaging"}
            => /\ dStaging[d] # NoPid
               /\ slot["staging"] = dStaging[d]
               /\ ver[dStaging[d]] = stagingBuild

\* What is about to be swapped in has answered.
SwapIsApproved ==
    \A d \in Deploys :
        dpc[d] \in {"details", "backup", "stopStaging", "stopLive", "startLive"}
            => stagingBuild \in approved

\* A watchdog starts with the end of its script, which has started a Live, and
\* while it watches it has counted fewer than MaxErrors failures.
WatchdogInv ==
    \A d \in Deploys :
        /\ dpc[d] \in {"verify", "failSwap", "done"} => dLive[d] # NoPid
        /\ wpc[d] # "off" => dpc[d] = "done"
        /\ wpc[d] \in {"off", "watch"} => wFails[d] < MaxErrors

IInv ==
    /\ TypeOK
    /\ Exclusive
    /\ PidsOK
    /\ StagingNamed
    /\ BuildThere
    /\ StagingIsBuild
    /\ SwapIsApproved
    /\ WatchdogInv
    /\ 0 \in approved
    /\ ServedWasVerified

-----------------------------------------------------------------------------
(* What a signal and a start do to processes and ports.                     *)

\* A signal frees ports and stops processes; it starts, binds and renames none.
SignalEffect(killed) ==
    /\ proc' \in [Pid -> {"none", "run", "term", "dead"}]
    /\ holder' \in [Port -> PidOrNone]
    /\ sick' \subseteq Pid
    /\ ver' = ver /\ nextPid' = nextPid /\ deaf' = deaf
    /\ \A p \in Pid : p >= nextPid => proc'[p] = "none"
    /\ \A port \in Port : holder'[port] # NoPid =>
         /\ holder'[port] = holder[port]
         /\ proc'[holder'[port]] \in {"run", "term"}
    /\ \A p \in Pid : proc'[p] = "run" => proc[p] = "run"
    /\ \A p \in killed : proc'[p] # "run"

\* The steps do what SignalEffect says.
LEMMA SignalFacts ==
    ASSUME TypeOK, PidsOK,
           NEW gone \in SUBSET Pid, NEW asked \in SUBSET Pid, NEW slow \in SUBSET Pid,
           Signal(gone, asked, slow)
    PROVE  SignalEffect(gone \cup asked)
<1> DEFINE left == {p \in gone \cup (asked \ slow) : Alive(p)}
           stay == {p \in slow \ gone : Alive(p)}
<1>1. /\ proc' = [p \in Pid |-> IF p \in left THEN "dead"
                                ELSE IF p \in stay THEN "term" ELSE proc[p]]
      /\ holder' = [port \in Port |-> IF holder[port] \in left THEN NoPid ELSE holder[port]]
      /\ sick' = sick \ left
      /\ ver' = ver /\ nextPid' = nextPid /\ deaf' = deaf
  BY DEF Signal
<1>2. left \subseteq Pid /\ stay \subseteq Pid
  OBVIOUS
<1>3. \A p \in left \cup stay : proc[p] \in {"run", "term"}
  BY DEF Alive
<1>4. \A p \in Pid : p >= nextPid => proc'[p] = "none"
  BY <1>1, <1>2, <1>3 DEF PidsOK
<1>5. \A port \in Port : holder'[port] # NoPid =>
        /\ holder'[port] = holder[port]
        /\ proc'[holder'[port]] \in {"run", "term"}
  <2> SUFFICES ASSUME NEW port \in Port, holder'[port] # NoPid
               PROVE  /\ holder'[port] = holder[port]
                      /\ proc'[holder'[port]] \in {"run", "term"}
    OBVIOUS
  <2>1. holder'[port] = holder[port] /\ holder[port] \notin left
    BY <1>1
  <2>2. holder[port] \in Pid /\ proc[holder[port]] \in {"run", "term"}
    BY <2>1 DEF PidsOK, Alive, TypeOK, Pid, PidOrNone, NoPid
  <2> HIDE DEF left, stay
  <2>3. QED
    BY <1>1, <2>1, <2>2
<1>6. \A p \in Pid : proc'[p] = "run" => proc[p] = "run"
  <2> HIDE DEF left, stay
  <2>1. QED
    BY <1>1 DEF TypeOK
<1>7. \A p \in gone \cup asked : proc'[p] # "run"
  <2> SUFFICES ASSUME NEW p \in gone \cup asked PROVE proc'[p] # "run"
    OBVIOUS
  <2>1. p \in Pid /\ p # NoPid
    BY DEF Pid, NoPid
  <2>2. proc[p] = "run" => p \in left \cup stay
    BY <2>1 DEF Alive
  <2> HIDE DEF left, stay
  <2>3. QED
    BY <1>1, <2>1, <2>2
<1>8. /\ proc' \in [Pid -> {"none", "run", "term", "dead"}]
      /\ holder' \in [Port -> PidOrNone]
      /\ sick' \subseteq Pid
  <2> HIDE DEF left, stay
  <2>1. proc' \in [Pid -> {"none", "run", "term", "dead"}]
    BY <1>1 DEF TypeOK
  <2>2. holder' \in [Port -> PidOrNone]
    BY <1>1, BoundsAssumption DEF TypeOK, NoPid, PidOrNone
  <2>3. sick' \subseteq Pid
    BY <1>1 DEF TypeOK
  <2>4. QED
    BY <2>1, <2>2, <2>3
<1>9. QED
  BY <1>1, <1>4, <1>5, <1>6, <1>7, <1>8 DEF SignalEffect

\* A start makes one process run, with a pid no file or port knows, and takes
\* its port only if that is free.
StartEffect(port, v) ==
    /\ proc' \in [Pid -> {"none", "run", "term", "dead"}]
    /\ ver' \in [Pid -> Version]
    /\ holder' \in [Port -> PidOrNone]
    /\ nextPid \in Pid /\ nextPid' = nextPid + 1 /\ nextPid' \in 1..(MaxPid + 1)
    /\ sick' = sick
    /\ deaf' = IF port = "live" /\ holder[port] # NoPid THEN deaf \cup {nextPid} ELSE deaf
    /\ proc'[nextPid] = "run" /\ ver'[nextPid] = v
    /\ \A p \in Pid : p >= nextPid' => proc'[p] = "none"
    /\ \A p \in Pid : p # nextPid => proc'[p] = proc[p] /\ ver'[p] = ver[p]
    /\ \A q \in Port : q # port => holder'[q] = holder[q]
    /\ \A q \in Port : holder'[q] = holder[q] \/ holder'[q] = nextPid
    /\ \A q \in Port : holder[q] # nextPid
    /\ \A q \in Port : holder'[q] # NoPid => proc'[holder'[q]] \in {"run", "term"}

\* The steps do what StartEffect says.
LEMMA StartFacts ==
    ASSUME TypeOK, PidsOK,
           NEW port \in Port, NEW v \in Version, Start(port, v)
    PROVE  StartEffect(port, v)
<1>1. nextPid \in Pid /\ MaxPid \in Nat \ {0}
  BY BoundsAssumption DEF Start
<1>2. \A q \in Port : holder[q] # nextPid
  <2>1. proc[nextPid] = "none" /\ nextPid # NoPid
    BY <1>1 DEF PidsOK, Pid, NoPid
  <2>2. QED
    BY <2>1 DEF PidsOK, Alive
<1>3. /\ proc' \in [Pid -> {"none", "run", "term", "dead"}]
      /\ ver' \in [Pid -> Version]
      /\ holder' \in [Port -> PidOrNone]
      /\ nextPid' = nextPid + 1 /\ nextPid' \in 1..(MaxPid + 1)
      /\ sick' = sick
      /\ deaf' = IF port = "live" /\ holder[port] # NoPid THEN deaf \cup {nextPid} ELSE deaf
  BY <1>1 DEF Start, TypeOK, Pid, PidOrNone, NoPid
<1>4. /\ proc'[nextPid] = "run" /\ ver'[nextPid] = v
      /\ \A p \in Pid : p # nextPid => proc'[p] = proc[p] /\ ver'[p] = ver[p]
  BY <1>1 DEF Start, TypeOK
<1>5. \A p \in Pid : p >= nextPid' => proc'[p] = "none"
  BY <1>1, <1>3, <1>4 DEF PidsOK, Pid
<1>6. /\ \A q \in Port : q # port => holder'[q] = holder[q]
      /\ \A q \in Port : holder'[q] = holder[q] \/ holder'[q] = nextPid
  BY <1>1 DEF Start, TypeOK
<1>7. \A q \in Port : holder'[q] # NoPid => proc'[holder'[q]] \in {"run", "term"}
  <2> SUFFICES ASSUME NEW q \in Port, holder'[q] # NoPid
               PROVE  proc'[holder'[q]] \in {"run", "term"}
    OBVIOUS
  <2>1. CASE holder'[q] = nextPid
    BY <2>1, <1>4
  <2>2. CASE holder'[q] = holder[q]
    BY <2>2, <1>2, <1>4 DEF PidsOK, Alive, TypeOK, PidOrNone, Pid, NoPid
  <2>3. QED
    BY <2>1, <2>2, <1>6
<1>8. QED
  BY <1>1, <1>2, <1>3, <1>4, <1>5, <1>6, <1>7 DEF StartEffect

\* The parts of the invariant about processes, ports and pid files survive a
\* signal, if the pid files do not change or the staging one is removed after
\* its process was signalled.
LEMMA SignalKeeps ==
    ASSUME IInv,
           NEW gone \in SUBSET Pid, NEW asked \in SUBSET Pid, NEW slow \in SUBSET Pid,
           Signal(gone, asked, slow),
           \/ slot' = slot
           \/ /\ slot' = [slot EXCEPT !["staging"] = NoPid]
              /\ slot["staging"] # NoPid => slot["staging"] \in gone \cup asked,
           dStaging' = dStaging, dLive' = dLive, approved' = approved
    PROVE  PidsOK' /\ StagingNamed' /\ ServedWasVerified'
<1> USE DEF IInv
<1>0. SignalEffect(gone \cup asked)
  BY SignalFacts
<1> USE DEF SignalEffect
<1>1. PidsOK'
  <2>1. \A port \in Port : slot'[port] < nextPid
    BY DEF PidsOK, TypeOK, NoPid, PidOrNone
  <2>2. \A port \in Port : holder'[port] # NoPid => Alive(holder[port])'
    BY <1>0 DEF Alive
  <2>3. QED
    BY <1>0, <2>1, <2>2 DEF PidsOK
<1>2. StagingNamed'
  <2> SUFFICES ASSUME holder'["staging"] # NoPid, proc'[holder'["staging"]] = "run"
               PROVE  slot'["staging"] = holder'["staging"]
    BY DEF StagingNamed
  <2> DEFINE p == holder["staging"]
  <2>1. holder'["staging"] = p /\ p \in Pid /\ proc[p] = "run" /\ p \notin gone \cup asked
    BY <1>0 DEF Port, TypeOK, PidOrNone, Pid, NoPid
  <2>2. slot["staging"] = p /\ p # NoPid
    BY <2>1 DEF StagingNamed
  <2>3. QED
    BY <2>1, <2>2
<1>3. ServedWasVerified'
  BY <1>0 DEF ServedWasVerified, Port
<1>4. QED
  BY <1>1, <1>2, <1>3

\* They survive a start as well, if its pid is written to the pid file of the
\* port and what is started on the Live port was approved.
LEMMA StartKeeps ==
    ASSUME IInv,
           NEW port \in Port, NEW v \in Version, Start(port, v),
           port = "live" => v \in approved,
           slot' = [slot EXCEPT ![port] = nextPid],
           \A d \in Deploys : dStaging'[d] \in {dStaging[d], nextPid},
           \A d \in Deploys : dLive'[d] \in {dLive[d], nextPid},
           approved' = approved,
           port = "staging" /\ slot["staging"] # NoPid => proc[slot["staging"]] # "run"
    PROVE  PidsOK' /\ StagingNamed' /\ ServedWasVerified'
<1> USE DEF IInv
<1>0. StartEffect(port, v)
  BY StartFacts
<1> USE DEF StartEffect
<1>1. PidsOK'
  <2>0. nextPid \in Nat /\ nextPid' = nextPid + 1
    BY <1>0 DEF Pid
  <2>1. \A q \in Port : slot'[q] < nextPid'
    <3> TAKE q \in Port
    <3>1. slot[q] \in Nat /\ slot[q] < nextPid
      BY DEF PidsOK, TypeOK, PidOrNone
    <3>2. slot'[q] \in {slot[q], nextPid}
      BY DEF TypeOK
    <3>3. QED
      BY <2>0, <3>1, <3>2
  <2>2. \A d \in Deploys : dStaging'[d] < nextPid' /\ dLive'[d] < nextPid'
    <3> TAKE d \in Deploys
    <3>1. /\ dStaging[d] \in Nat /\ dStaging[d] < nextPid
          /\ dLive[d] \in Nat /\ dLive[d] < nextPid
      BY DEF PidsOK, TypeOK, PidOrNone
    <3>2. QED
      BY <2>0, <3>1
  <2>3. \A q \in Port : holder'[q] # NoPid => Alive(holder[q])'
    BY <1>0 DEF Alive
  <2>4. \A p \in deaf' : p < nextPid'
    <3>1. \A p \in deaf : p \in Nat /\ p < nextPid
      BY DEF PidsOK, TypeOK, Pid
    <3>2. deaf' \subseteq deaf \cup {nextPid}
      BY <1>0
    <3> QED
      BY <2>0, <3>1, <3>2
  <2>5. QED
    BY <1>0, <2>1, <2>2, <2>3, <2>4 DEF PidsOK
<1>2. StagingNamed'
  <2> SUFFICES ASSUME holder'["staging"] # NoPid, proc'[holder'["staging"]] = "run"
               PROVE  slot'["staging"] = holder'["staging"]
    BY DEF StagingNamed
  <2>1. CASE port = "live"
    <3>1. holder'["staging"] = holder["staging"] /\ holder["staging"] \in Pid
          /\ holder["staging"] # nextPid
      BY <2>1, <1>0 DEF Port, TypeOK, PidOrNone, Pid, NoPid
    <3>2. proc[holder["staging"]] = "run"
      BY <3>1, <1>0
    <3>3. QED
      BY <2>1, <3>1, <3>2 DEF StagingNamed, Port, TypeOK
  <2>2. CASE port = "staging" /\ holder'["staging"] = nextPid
    BY <2>2 DEF TypeOK, Port
  <2>3. CASE port = "staging" /\ holder'["staging"] = holder["staging"]
    <3>1. holder["staging"] \in Pid /\ holder["staging"] # nextPid
      BY <2>3, <1>0 DEF Port, TypeOK, PidOrNone, Pid, NoPid
    <3>2. proc[holder["staging"]] = "run"
      BY <2>3, <3>1, <1>0
    <3>3. QED
      BY <2>3, <3>1, <3>2 DEF StagingNamed
  <2>4. QED
    BY <2>1, <2>2, <2>3, <1>0 DEF Port
<1>3. ServedWasVerified'
  <2> SUFFICES ASSUME holder'["live"] # NoPid
               PROVE  ver'[holder'["live"]] \in approved
    BY DEF ServedWasVerified
  <2>1. CASE holder'["live"] = holder["live"]
    <3>1. holder["live"] \in Pid /\ holder["live"] # nextPid
      BY <2>1, <1>0 DEF Port, TypeOK, PidOrNone, Pid, NoPid
    <3>2. QED
      BY <2>1, <3>1, <1>0 DEF ServedWasVerified
  <2>2. CASE holder'["live"] # holder["live"]
    <3>1. port = "live" /\ holder'["live"] = nextPid
      BY <2>2, <1>0 DEF Port
    <3>2. ver'[nextPid] = v
      BY <1>0
    <3>3. QED
      BY <3>1, <3>2
  <2>3. QED
    BY <2>1, <2>2
<1>4. QED
  BY <1>1, <1>2, <1>3

\* A step that touches no process, port or pid file keeps them as well.
LEMMA HostKept ==
    ASSUME IInv, UNCHANGED <<hostVars, slot, dStaging, dLive>>, approved \subseteq approved'
    PROVE  PidsOK' /\ StagingNamed' /\ ServedWasVerified'
BY DEF IInv, PidsOK, StagingNamed, ServedWasVerified, hostVars, Alive

\* The parts of the invariant about the scripts.
ScriptInv ==
    /\ Exclusive /\ BuildThere /\ StagingIsBuild /\ SwapIsApproved /\ WatchdogInv
    /\ 0 \in approved

-----------------------------------------------------------------------------
(* Each action keeps the invariant.                                         *)

\* The steps of the script up to the answer of staging.
LEMMA PreSwapStep ==
    ASSUME OneScript, IInv, NEW d \in Deploys,
           \/ \E dry \in BOOLEAN : StartDeploy(d, dry)
           \/ Sync(d) \/ Build(d) \/ KillOldStaging(d) \/ BootStaging(d)
           \/ StagingHealthy(d) \/ StagingDetails(d) \/ NoAnswerInTime(d)
           \/ StagingUnhealthy(d)
    PROVE  IInv'
<1> USE DEF IInv
<1> USE DEF Goto, PreSwap, Swapping, Ended, Watching, Running
<1>1. ASSUME NEW dry \in BOOLEAN, StartDeploy(d, dry) PROVE IInv'
  <2> USE <1>1 DEF StartDeploy, hostVars, dirVars, watchVars, envVars
  <2>1. TypeOK'
    BY DEF TypeOK
  <2>2. PidsOK' /\ StagingNamed' /\ ServedWasVerified'
    BY HostKept
  <2>3. Exclusive'
    BY DEF OneScript, CanStart, Exclusive, TypeOK
  <2>4. BuildThere' /\ StagingIsBuild' /\ SwapIsApproved' /\ WatchdogInv'
    BY DEF BuildThere, StagingIsBuild, SwapIsApproved, WatchdogInv, TypeOK
  <2>5. QED
    BY <2>1, <2>2, <2>3, <2>4
<1>2. ASSUME Sync(d) PROVE IInv'
  <2> USE <1>2 DEF Sync, hostVars, scriptVars, watchVars, envVars
  <2>1. TypeOK'
    BY DEF TypeOK
  <2>2. PidsOK' /\ StagingNamed' /\ ServedWasVerified'
    BY HostKept
  <2>3. Exclusive' /\ BuildThere' /\ StagingIsBuild' /\ SwapIsApproved' /\ WatchdogInv'
    BY DEF Exclusive, BuildThere, StagingIsBuild, SwapIsApproved, WatchdogInv, TypeOK
  <2>4. QED
    BY <2>1, <2>2, <2>3
<1>3. ASSUME Build(d) PROVE IInv'
  <2> USE <1>3 DEF Build, hostVars, scriptVars, watchVars, envVars
  <2>1. TypeOK'
    BY DEF TypeOK
  <2>2. PidsOK' /\ StagingNamed' /\ ServedWasVerified'
    BY HostKept
  <2>3. \A e \in Deploys : e # d => ~Running(e) /\ ~Running(e)'
    BY DEF Exclusive, TypeOK
  <2>4. Exclusive' /\ StagingIsBuild' /\ SwapIsApproved' /\ WatchdogInv'
    BY <2>3 DEF Exclusive, StagingIsBuild, SwapIsApproved, WatchdogInv, TypeOK
  <2>5. BuildThere'
    BY <2>3 DEF BuildThere, TypeOK, Version, NoVersion
  <2>6. QED
    BY <2>1, <2>2, <2>4, <2>5
<1>4. ASSUME KillOldStaging(d) PROVE IInv'
  <2> USE <1>4 DEF KillOldStaging, dirVars, scriptVars, watchVars, envVars
  <2> DEFINE old == {slot["staging"]} \ {NoPid}
  <2>1. PICK slow \in SUBSET old : Signal({}, old, slow)
    BY DEF Term, Slow
  <2>2. old \in SUBSET Pid /\ slow \in SUBSET Pid
    BY <2>1 DEF TypeOK, Port, PidOrNone, Pid, NoPid
  <2>3. SignalEffect({} \cup old)
    BY <2>1, <2>2, SignalFacts
  <2>4. PidsOK' /\ StagingNamed' /\ ServedWasVerified'
    BY <2>1, <2>2, SignalKeeps
  <2>5. TypeOK'
    BY <2>3 DEF TypeOK, SignalEffect
  <2>6. ScriptInv'
    BY <2>3 DEF SignalEffect, ScriptInv, Exclusive, BuildThere, StagingIsBuild,
                SwapIsApproved, WatchdogInv
  <2>7. QED
    BY <2>4, <2>5, <2>6 DEF ScriptInv
<1>5. ASSUME BootStaging(d) PROVE IInv'
  <2> USE <1>5 DEF BootStaging, dirVars, watchVars, envVars
  <2>1. stagingBuild \in Version /\ "staging" \in Port
    BY DEF BuildThere, TypeOK, Port
  <2>2. StartEffect("staging", stagingBuild)
    BY <2>1, StartFacts
  <2>3. PidsOK' /\ StagingNamed' /\ ServedWasVerified'
    BY <2>1, StartKeeps DEF TypeOK
  <2>4. TypeOK'
    <3>1. nextPid \in PidOrNone
      BY <2>2 DEF StartEffect, Pid, PidOrNone
    <3>2. slot' \in [Port -> PidOrNone] /\ dStaging' \in [Deploys -> PidOrNone]
      BY <3>1 DEF TypeOK
    <3>3. QED
      BY <2>2, <3>2 DEF TypeOK, StartEffect
  <2>5. \A e \in Deploys : e # d => ~Running(e) /\ ~Running(e)'
    BY DEF Exclusive, TypeOK
  <2>6. Exclusive' /\ BuildThere' /\ SwapIsApproved' /\ WatchdogInv'
    BY <2>5 DEF Exclusive, BuildThere, SwapIsApproved, WatchdogInv, TypeOK
  <2>7. StagingIsBuild'
    BY <2>2, <2>5 DEF StagingIsBuild, StartEffect, TypeOK, Pid, NoPid, Port
  <2>8. QED
    BY <2>3, <2>4, <2>6, <2>7
<1>6. ASSUME StagingHealthy(d) PROVE IInv'
  <2> USE <1>6 DEF StagingHealthy, hostVars, dirVars, scriptVars, watchVars, envVars
  <2> DEFINE p == holder["staging"]
  <2>1. p \in Pid /\ slot["staging"] = p /\ approved' = approved \cup {ver[p]}
    BY DEF StagingPasses, Answers, StagingNamed, TypeOK, Port, PidOrNone, Pid, NoPid
  <2>2. ver[p] = stagingBuild
    BY <2>1 DEF StagingIsBuild
  <2>3. TypeOK'
    BY <2>1 DEF TypeOK
  <2>4. PidsOK' /\ StagingNamed' /\ ServedWasVerified'
    BY <2>1, HostKept
  <2>5. Exclusive' /\ BuildThere' /\ StagingIsBuild' /\ WatchdogInv'
    BY DEF Exclusive, BuildThere, StagingIsBuild, WatchdogInv, TypeOK
  <2>6. SwapIsApproved'
    BY <2>1, <2>2 DEF SwapIsApproved, TypeOK
  <2>7. QED
    BY <2>1, <2>3, <2>4, <2>5, <2>6
<1>7. ASSUME StagingUnhealthy(d) PROVE IInv'
  <2> USE <1>7 DEF StagingUnhealthy, dirVars, scriptVars, watchVars, envVars
  <2> DEFINE old == {dStaging[d]} \ {NoPid}
  <2>1. PICK slow \in SUBSET old : Signal({}, old, slow)
    BY DEF Term, Slow
  <2>2. old \in SUBSET Pid /\ slow \in SUBSET Pid /\ slot["staging"] \in {} \cup old
    BY <2>1 DEF TypeOK, PidOrNone, Pid, NoPid, StagingIsBuild
  <2>3. SignalEffect({} \cup old)
    BY <2>1, <2>2, SignalFacts
  <2>4. PidsOK' /\ StagingNamed' /\ ServedWasVerified'
    BY <2>1, <2>2, SignalKeeps
  <2>5. TypeOK'
    <3>0. NoPid \in PidOrNone
      BY BoundsAssumption DEF PidOrNone, NoPid
    <3>1. slot' \in [Port -> PidOrNone]
      BY <3>0 DEF TypeOK
    <3>2. dpc' \in [Deploys -> {"idle"} \cup PreSwap \cup Swapping \cup Ended]
      BY DEF TypeOK
    <3>3. ver' \in [Pid -> Version] /\ nextPid' \in 1..(MaxPid + 1)
      BY <2>3 DEF TypeOK, SignalEffect
    <3>4. QED
      BY <2>3, <3>1, <3>2, <3>3 DEF TypeOK, SignalEffect
  <2>6. \A e \in Deploys : e # d => ~Running(e) /\ ~Running(e)'
    BY DEF Exclusive, TypeOK
  <2>7. ScriptInv'
    BY <2>3, <2>6 DEF SignalEffect, ScriptInv, Exclusive, BuildThere, StagingIsBuild,
                SwapIsApproved, WatchdogInv, TypeOK
  <2>8. QED
    BY <2>4, <2>5, <2>7 DEF ScriptInv
<1>8. ASSUME StagingDetails(d) \/ NoAnswerInTime(d) PROVE IInv'
  <2> USE <1>8 DEF StagingDetails, NoAnswerInTime, hostVars, dirVars, scriptVars, watchVars, envVars
  <2>1. TypeOK'
    BY DEF TypeOK
  <2>2. PidsOK' /\ StagingNamed' /\ ServedWasVerified'
    BY HostKept
  <2>3. Exclusive' /\ BuildThere' /\ StagingIsBuild' /\ SwapIsApproved' /\ WatchdogInv'
    BY DEF Exclusive, BuildThere, StagingIsBuild, SwapIsApproved, WatchdogInv, TypeOK
  <2>4. QED
    BY <2>1, <2>2, <2>3
<1>9. QED
  BY <1>1, <1>2, <1>3, <1>4, <1>5, <1>6, <1>7, <1>8

\* Starting the backup, if there is one, on the Live port: the backup is the
\* installed version, and the process a script calls staging keeps its version.
LEMMA RestoreFacts ==
    ASSUME IInv, NEW d \in Deploys, RestoreBackup(d),
           UNCHANGED <<dStaging, dLive, approved>>
    PROVE  /\ PidsOK' /\ StagingNamed' /\ ServedWasVerified'
           /\ proc' \in [Pid -> {"none", "run", "term", "dead"}]
           /\ ver' \in [Pid -> Version]
           /\ sick' \subseteq Pid /\ deaf' \subseteq Pid
           /\ nextPid' \in 1..(MaxPid + 1)
           /\ holder' \in [Port -> PidOrNone]
           /\ slot' \in [Port -> PidOrNone]
           /\ slot'["staging"] = slot["staging"]
           /\ \A e \in Deploys : dStaging[e] # NoPid => ver'[dStaging[e]] = ver[dStaging[e]]
<1> USE DEF IInv
<1>1. CASE backup[d] = NoVersion
  <2>1. UNCHANGED <<hostVars, slot>>
    BY <1>1 DEF RestoreBackup
  <2>2. QED
    BY <2>1, HostKept DEF hostVars, TypeOK
<1>2. CASE backup[d] # NoVersion
  <2>1. backup[d] = 0 /\ 0 \in Version /\ "live" \in Port
    BY <1>2, BoundsAssumption DEF TypeOK, Version, Port
  <2>2. Start("live", 0) /\ slot' = [slot EXCEPT !["live"] = nextPid]
    BY <1>2, <2>1 DEF RestoreBackup
  <2>3. StartEffect("live", 0)
    BY <2>1, <2>2, StartFacts
  <2>4. PidsOK' /\ StagingNamed' /\ ServedWasVerified'
    BY <2>1, <2>2, StartKeeps
  <2>5. nextPid \in PidOrNone
    BY <2>3 DEF StartEffect, Pid, PidOrNone
  <2>6. slot' \in [Port -> PidOrNone] /\ slot'["staging"] = slot["staging"]
    BY <2>2, <2>5 DEF TypeOK, Port
  <2>7. \A e \in Deploys : dStaging[e] # NoPid => ver'[dStaging[e]] = ver[dStaging[e]]
    <3> SUFFICES ASSUME NEW e \in Deploys, dStaging[e] # NoPid
                 PROVE  ver'[dStaging[e]] = ver[dStaging[e]]
      OBVIOUS
    <3>1. dStaging[e] \in Pid /\ dStaging[e] < nextPid
      BY DEF TypeOK, PidsOK, PidOrNone, Pid, NoPid
    <3>2. dStaging[e] # nextPid
      BY <3>1, <2>3 DEF StartEffect, Pid
    <3>3. QED
      BY <3>1, <3>2, <2>3 DEF StartEffect
  <2>8. QED
    BY <2>3, <2>4, <2>6, <2>7 DEF StartEffect, TypeOK
<1>3. QED
  BY <1>1, <1>2

\* The steps of the script from the backup to its end, and its abortion.
LEMMA SwapStep ==
    ASSUME OneScript, IInv, NEW d \in Deploys,
           \/ Backup(d) \/ StopStaging(d) \/ StopLive(d) \/ StartLive(d)
           \/ SwapHealthy(d) \/ SwapUnhealthy(d) \/ EmergencyRestore(d) \/ Abort(d)
    PROVE  IInv'
<1> USE DEF IInv
<1> USE DEF Goto, PreSwap, Swapping, Ended, Watching, Running
<1>1. ASSUME Backup(d) PROVE IInv'
  <2> USE <1>1 DEF Backup, hostVars, dirVars, watchVars, envVars
  <2>1. TypeOK'
    BY DEF TypeOK, BackupBuild
  <2>2. PidsOK' /\ StagingNamed' /\ ServedWasVerified'
    BY HostKept
  <2>3. ScriptInv'
    BY DEF ScriptInv, Exclusive, BuildThere, StagingIsBuild, SwapIsApproved, WatchdogInv, TypeOK
  <2>4. QED
    BY <2>1, <2>2, <2>3 DEF ScriptInv
<1>2. ASSUME StopStaging(d) PROVE IInv'
  <2> USE <1>2 DEF StopStaging, dirVars, scriptVars, watchVars, envVars
  <2> DEFINE old == {dStaging[d]} \ {NoPid}
  <2>1. PICK slow \in SUBSET old : Signal({}, old, slow)
    BY DEF Term, Slow
  <2>2. old \in SUBSET Pid /\ slow \in SUBSET Pid /\ slot["staging"] \in {} \cup old
    BY <2>1 DEF TypeOK, PidOrNone, Pid, NoPid, StagingIsBuild
  <2>3. SignalEffect({} \cup old)
    BY <2>1, <2>2, SignalFacts
  <2>4. PidsOK' /\ StagingNamed' /\ ServedWasVerified'
    BY <2>1, <2>2, SignalKeeps
  <2>5. TypeOK'
    <3>0. NoPid \in PidOrNone
      BY BoundsAssumption DEF PidOrNone, NoPid
    <3>1. slot' \in [Port -> PidOrNone]
      BY <3>0 DEF TypeOK
    <3>2. dpc' \in [Deploys -> {"idle"} \cup PreSwap \cup Swapping \cup Ended]
      BY DEF TypeOK
    <3>3. ver' \in [Pid -> Version] /\ nextPid' \in 1..(MaxPid + 1)
      BY <2>3 DEF TypeOK, SignalEffect
    <3>4. QED
      BY <2>3, <3>1, <3>2, <3>3 DEF TypeOK, SignalEffect
  <2>6. \A e \in Deploys : e # d => ~Running(e) /\ ~Running(e)'
    BY DEF Exclusive, TypeOK
  <2>7. ScriptInv'
    BY <2>3, <2>6 DEF SignalEffect, ScriptInv, Exclusive, BuildThere, StagingIsBuild,
                SwapIsApproved, WatchdogInv, TypeOK
  <2>8. QED
    BY <2>4, <2>5, <2>7 DEF ScriptInv
<1>3. ASSUME StopLive(d) PROVE IInv'
  <2> USE <1>3 DEF StopLive, dirVars, scriptVars, watchVars, envVars
  <2> DEFINE old == {slot["live"]} \ {NoPid}
             orphan == {holder["live"]} \ ({NoPid} \cup old)
  <2>1. PICK slow \in SUBSET orphan : Signal(old, orphan, slow)
    BY DEF Slow
  <2>2. old \in SUBSET Pid /\ orphan \in SUBSET Pid /\ slow \in SUBSET Pid
    BY <2>1 DEF TypeOK, Port, PidOrNone, Pid, NoPid
  <2>3. SignalEffect(old \cup orphan)
    BY <2>1, <2>2, SignalFacts
  <2>4. PidsOK' /\ StagingNamed' /\ ServedWasVerified'
    BY <2>1, <2>2, SignalKeeps
  <2> HIDE DEF old, orphan
  <2>5. TypeOK'
    BY <2>3 DEF TypeOK, SignalEffect
  <2>6. \A e \in Deploys : e # d => ~Running(e) /\ ~Running(e)'
    BY DEF Exclusive, TypeOK
  <2>7. ScriptInv'
    BY <2>3, <2>6 DEF SignalEffect, ScriptInv, Exclusive, BuildThere, StagingIsBuild,
                SwapIsApproved, WatchdogInv, TypeOK
  <2>8. QED
    BY <2>4, <2>5, <2>7 DEF ScriptInv
<1>4. ASSUME StartLive(d) PROVE IInv'
  <2> USE <1>4 DEF StartLive, dirVars, watchVars, envVars
  <2>1. stagingBuild \in Version /\ stagingBuild \in approved /\ "live" \in Port
    BY DEF SwapIsApproved, TypeOK, Port
  <2>2. StartEffect("live", stagingBuild)
    BY <2>1, StartFacts
  <2>3. PidsOK' /\ StagingNamed' /\ ServedWasVerified'
    BY <2>1, StartKeeps DEF TypeOK
  <2>4. TypeOK'
    <3>1. nextPid \in PidOrNone
      BY <2>2 DEF StartEffect, Pid, PidOrNone
    <3>2. slot' \in [Port -> PidOrNone] /\ dLive' \in [Deploys -> PidOrNone]
      BY <3>1 DEF TypeOK
    <3>3. QED
      BY <2>2, <3>2 DEF TypeOK, StartEffect
  <2>5. \A e \in Deploys : e # d => ~Running(e) /\ ~Running(e)'
    BY DEF Exclusive, TypeOK
  <2>6. ScriptInv'
    BY <2>2, <2>5 DEF ScriptInv, Exclusive, BuildThere, StagingIsBuild, SwapIsApproved,
                WatchdogInv, TypeOK, StartEffect, Pid, NoPid
  <2>7. QED
    BY <2>3, <2>4, <2>6 DEF ScriptInv
<1>5. ASSUME SwapHealthy(d) PROVE IInv'
  <2> USE <1>5 DEF SwapHealthy, hostVars, dirVars, scriptVars, envVars
  <2>1. TypeOK'
    BY DEF TypeOK
  <2>2. PidsOK' /\ StagingNamed' /\ ServedWasVerified'
    BY HostKept
  <2>3. Exclusive' /\ BuildThere' /\ StagingIsBuild' /\ SwapIsApproved'
    BY DEF Exclusive, BuildThere, StagingIsBuild, SwapIsApproved, TypeOK
  <2>4. WatchdogInv'
    BY DEF WatchdogInv, TypeOK
  <2>5. QED
    BY <2>1, <2>2, <2>3, <2>4
<1>6. ASSUME SwapUnhealthy(d) PROVE IInv'
  <2> USE <1>6 DEF SwapUnhealthy, dirVars, scriptVars, watchVars, envVars
  <2> DEFINE old == {dLive[d]} \ {NoPid}
  <2>1. PICK slow \in SUBSET old : Signal({}, old, slow)
    BY DEF Term, Slow
  <2>2. old \in SUBSET Pid /\ slow \in SUBSET Pid
    BY <2>1 DEF TypeOK, PidOrNone, Pid, NoPid
  <2>3. SignalEffect({} \cup old)
    BY <2>1, <2>2, SignalFacts
  <2>4. PidsOK' /\ StagingNamed' /\ ServedWasVerified'
    BY <2>1, <2>2, SignalKeeps
  <2> HIDE DEF old
  <2>5. TypeOK'
    BY <2>3 DEF TypeOK, SignalEffect
  <2>6. ScriptInv'
    BY <2>3 DEF SignalEffect, ScriptInv, Exclusive, BuildThere, StagingIsBuild,
                SwapIsApproved, WatchdogInv, TypeOK
  <2>7. QED
    BY <2>4, <2>5, <2>6 DEF ScriptInv
<1>7. ASSUME EmergencyRestore(d) PROVE IInv'
  <2> USE <1>7 DEF EmergencyRestore, dirVars, scriptVars, watchVars, envVars
  <2>1. TypeOK'
    BY RestoreFacts DEF TypeOK
  <2>2. ScriptInv'
    BY RestoreFacts DEF ScriptInv, Exclusive, BuildThere, StagingIsBuild, SwapIsApproved,
                        WatchdogInv, TypeOK
  <2>3. QED
    BY <2>1, <2>2, RestoreFacts DEF ScriptInv
<1>8. ASSUME Abort(d) PROVE IInv'
  <2> USE <1>8 DEF Abort, hostVars, dirVars, scriptVars, watchVars
  <2>1. TypeOK'
    BY BoundsAssumption DEF TypeOK
  <2>2. PidsOK' /\ StagingNamed' /\ ServedWasVerified'
    BY HostKept
  <2>3. ScriptInv'
    BY DEF ScriptInv, Exclusive, BuildThere, StagingIsBuild, SwapIsApproved, WatchdogInv, TypeOK
  <2>4. QED
    BY <2>1, <2>2, <2>3 DEF ScriptInv
<1>9. QED
  BY <1>1, <1>2, <1>3, <1>4, <1>5, <1>6, <1>7, <1>8

\* The steps of a watchdog.  One check leaves the scripts alone.
LEMMA WatchdogStep ==
    ASSUME OneScript, IInv, NEW d \in Deploys, WatchStep(d)
    PROVE  IInv'
<1> USE DEF IInv
<1> DEFINE orphan == {holder["live"]} \ {NoPid, dLive[d]}
           ScriptsKept == UNCHANGED <<dirVars, scriptVars, envVars, dpc, approved>>
<1>1. ASSUME RollbackKills(d), wpc[d] = "watch", UNCHANGED slot, ScriptsKept
      PROVE  /\ SignalEffect({dLive[d]} \cup orphan)
             /\ PidsOK' /\ StagingNamed' /\ ServedWasVerified'
             /\ wpc' = [wpc EXCEPT ![d] = "restore"]
  <2>1. PICK slow \in SUBSET orphan : Signal({dLive[d]}, orphan, slow)
    BY <1>1 DEF RollbackKills, Slow
  <2>2. orphan \in SUBSET Pid /\ slow \in SUBSET Pid
    BY <2>1 DEF TypeOK, Port, PidOrNone, Pid, NoPid
  <2>3. {dLive[d]} \in SUBSET Pid
    BY <1>1 DEF WatchdogInv, TypeOK, PidOrNone, Pid, NoPid
  <2>4. dStaging' = dStaging /\ dLive' = dLive /\ approved' = approved
    BY <1>1 DEF scriptVars
  <2>5. QED
    BY <1>1, <2>1, <2>2, <2>3, <2>4, SignalFacts, SignalKeeps DEF RollbackKills
<1>2. ASSUME wpc[d] = "watch", UNCHANGED slot, ScriptsKept,
             NEW fails \in 0..MaxErrors, NextCheck(d, fails), wChecks[d] < TotalChecks,
             RollbackKills(d) \/ (UNCHANGED <<hostVars, wpc>> /\ fails < MaxErrors)
      PROVE  IInv'
  <2> USE <1>2 DEF dirVars, scriptVars, envVars, NextCheck
  <2>1. /\ wFails' \in [Deploys -> 0..MaxErrors]
        /\ wChecks' \in [Deploys -> 0..TotalChecks]
    BY BoundsAssumption DEF TypeOK
  <2>2. CASE RollbackKills(d)
    <3>1. TypeOK'
      BY <1>1, <2>1, <2>2 DEF TypeOK, SignalEffect, Watching, Alerting
    <3>2. ScriptInv'
      BY <1>1, <2>2 DEF ScriptInv, Exclusive, Running, BuildThere, StagingIsBuild,
                        SwapIsApproved, WatchdogInv, TypeOK, SignalEffect
    <3>3. QED
      BY <1>1, <2>2, <3>1, <3>2 DEF ScriptInv
  <2>3. CASE UNCHANGED <<hostVars, wpc>> /\ fails < MaxErrors
    <3>1. TypeOK'
      BY <2>1, <2>3 DEF TypeOK, hostVars
    <3>2. ScriptInv'
      BY <2>3 DEF ScriptInv, Exclusive, Running, BuildThere, StagingIsBuild,
                  SwapIsApproved, WatchdogInv, TypeOK, hostVars
    <3>3. QED
      BY <2>3, <3>1, <3>2, HostKept DEF ScriptInv
  <2>4. QED
    BY <2>2, <2>3
<1> HIDE DEF orphan
<1>3. \A e \in Deploys : wpc[e] = "watch" => wFails[e] \in 0..MaxErrors /\ wFails[e] < MaxErrors
  BY DEF WatchdogInv, TypeOK
<1>4. ASSUME WatchFindsDead(d) PROVE IInv'
  BY <1>2, <1>3, <1>4 DEF WatchFindsDead, Watches
<1>5. ASSUME WatchUnhealthy(d) PROVE IInv'
  <2>1. wpc[d] = "watch" /\ wFails[d] + 1 \in 0..MaxErrors
    BY <1>3, <1>5, BoundsAssumption DEF WatchUnhealthy, Watches
  <2>2. ~(wFails[d] + 1 >= MaxErrors) => wFails[d] + 1 < MaxErrors
    BY <2>1, BoundsAssumption
  <2>3. QED
    BY <1>2, <1>5, <2>1, <2>2 DEF WatchUnhealthy, Watches
<1>6. ASSUME WatchHealthy(d) PROVE IInv'
  <2>1. 0 \in 0..MaxErrors /\ 0 < MaxErrors
    BY BoundsAssumption
  <2>2. QED
    BY <1>2, <1>6, <2>1 DEF WatchHealthy, Watches
<1>7. ASSUME WatchRestore(d) PROVE IInv'
  <2> USE <1>7 DEF WatchRestore, dirVars, scriptVars, envVars, Alerting
  <2>1. TypeOK'
    BY RestoreFacts DEF TypeOK
  <2>2. ScriptInv'
    BY RestoreFacts DEF ScriptInv, Exclusive, Running, BuildThere, StagingIsBuild,
                        SwapIsApproved, WatchdogInv, TypeOK
  <2>3. QED
    BY <2>1, <2>2, RestoreFacts DEF ScriptInv
<1>8. ASSUME Promote(d) \/ SendAlert(d) PROVE IInv'
  <2> USE <1>8 DEF Promote, SendAlert, hostVars, dirVars, scriptVars, envVars, Alerting
  <2>1. TypeOK'
    BY DEF TypeOK
  <2>2. ScriptInv'
    BY DEF ScriptInv, Exclusive, Running, BuildThere, StagingIsBuild, SwapIsApproved,
           WatchdogInv, TypeOK
  <2>3. QED
    BY <2>1, <2>2, HostKept DEF ScriptInv
<1>9. QED
  BY <1>4, <1>5, <1>6, <1>7, <1>8 DEF WatchStep

\* Commits, and servers that crash, hang or leave late.
LEMMA SurroundingsStep ==
    ASSUME OneScript, IInv,
           Commit \/ N8nHangs \/ \E p \in Pid : Crash(p) \/ Hang(p) \/ SlowExits(p)
    PROVE  IInv'
<1> USE DEF IInv
<1>1. ASSUME Commit \/ N8nHangs PROVE IInv'
  <2> USE <1>1 DEF Commit, N8nHangs, hostVars, dirVars, scriptVars, watchVars, envVars
  <2>1. TypeOK'
    <3>1. CASE Commit
      BY <3>1, BoundsAssumption DEF TypeOK, Version
    <3>2. CASE N8nHangs
      BY <3>2, BoundsAssumption DEF TypeOK
    <3> QED
      BY <1>1, <3>1, <3>2
  <2>2. ScriptInv'
    BY DEF ScriptInv, Exclusive, Running, BuildThere, StagingIsBuild, SwapIsApproved, WatchdogInv
  <2>3. QED
    BY <2>1, <2>2, HostKept DEF ScriptInv
<1>2. ASSUME NEW p \in Pid, Signal({p}, {}, {}),
             crashes' \in 0..MaxCrash,
             UNCHANGED <<dirVars, scriptVars, watchVars, aborts, n8nHangs, slot, dpc, approved>>
      PROVE  IInv'
  <2> USE <1>2 DEF dirVars, scriptVars, watchVars
  <2>1. SignalEffect({p} \cup {})
    BY SignalFacts
  <2>2. PidsOK' /\ StagingNamed' /\ ServedWasVerified'
    BY SignalKeeps
  <2>3. TypeOK'
    BY <2>1 DEF TypeOK, SignalEffect
  <2>4. ScriptInv'
    BY <2>1 DEF ScriptInv, Exclusive, Running, BuildThere, StagingIsBuild, SwapIsApproved,
                WatchdogInv, SignalEffect
  <2>5. QED
    BY <2>2, <2>3, <2>4 DEF ScriptInv
<1>3. ASSUME NEW p \in Pid, Crash(p) PROVE IInv'
  <2>1. crashes' \in 0..MaxCrash
    BY <1>3, BoundsAssumption DEF Crash, TypeOK
  <2>2. QED
    BY <1>2, <1>3, <2>1 DEF Crash
<1>4. ASSUME NEW p \in Pid, Hang(p) PROVE IInv'
  <2> USE <1>4 DEF Hang, dirVars, scriptVars, watchVars
  <2>1. TypeOK'
    BY BoundsAssumption DEF TypeOK
  <2>2. PidsOK' /\ StagingNamed' /\ ServedWasVerified'
    BY DEF PidsOK, StagingNamed, ServedWasVerified, Alive
  <2>3. ScriptInv'
    BY DEF ScriptInv, Exclusive, Running, BuildThere, StagingIsBuild, SwapIsApproved, WatchdogInv
  <2>4. QED
    BY <2>1, <2>2, <2>3 DEF ScriptInv
<1>5. ASSUME NEW p \in Pid, SlowExits(p) PROVE IInv'
  BY <1>2, <1>5 DEF SlowExits, envVars, TypeOK
<1>6. QED
  BY <1>1, <1>3, <1>4, <1>5

-----------------------------------------------------------------------------
(* The theorems.                                                            *)

\* IInv is inductive.
LEMMA Invariance == OneScript => (Spec => []IInv)
<1> SUFFICES ASSUME OneScript PROVE Spec => []IInv
  OBVIOUS
<1>1. Init => IInv
  <2> SUFFICES ASSUME Init PROVE IInv
    OBVIOUS
  <2> USE BoundsAssumption DEF Init
  <2>1. 1 \in Pid /\ NoPid \in PidOrNone /\ 1 \in PidOrNone /\ 2 \in 1..(MaxPid + 1)
    BY DEF Pid, PidOrNone, NoPid
  <2>2. 0 \in Version
    BY DEF Version
  <2>3. slot \in [Port -> {NoPid, 1}] /\ holder \in [Port -> {NoPid, 1}]
        /\ holder["live"] = 1 /\ holder["staging"] = NoPid
    BY DEF Port
  <2>4. TypeOK
    <3>1. n8nHangs \in BOOLEAN /\ deaf \subseteq Pid /\ sick \subseteq Pid
      OBVIOUS
    <3>2. /\ wpc \in [Deploys -> {"off", "promoted", "rolledBack"} \cup Watching \cup Alerting]
          /\ dpc \in [Deploys -> {"idle"} \cup PreSwap \cup Swapping \cup Ended]
      OBVIOUS
    <3>3. /\ proc \in [Pid -> {"none", "run", "term", "dead"}] /\ ver \in [Pid -> Version]
          /\ holder \in [Port -> PidOrNone] /\ slot \in [Port -> PidOrNone]
      BY <2>1, <2>2, <2>3
    <3> QED
      BY <2>1, <2>2, <3>1, <3>2, <3>3 DEF TypeOK
  <2>5. PidsOK
    BY <2>1, <2>3 DEF PidsOK, Alive, Pid, NoPid
  <2>6. StagingNamed /\ ServedWasVerified
    BY <2>1, <2>3 DEF StagingNamed, ServedWasVerified
  <2>7. ScriptInv
    BY DEF ScriptInv, Exclusive, Running, PreSwap, Swapping, BuildThere, StagingIsBuild,
           SwapIsApproved, WatchdogInv
  <2>8. QED
    BY <2>4, <2>5, <2>6, <2>7 DEF ScriptInv, IInv
<1>2. IInv /\ [Next]_vars => IInv'
  <2> SUFFICES ASSUME IInv, [Next]_vars PROVE IInv'
    OBVIOUS
  <2>1. CASE Next
    BY <2>1, PreSwapStep, SwapStep, WatchdogStep, SurroundingsStep DEF Next, DeployStep
  <2>2. CASE UNCHANGED vars
    <3> USE <2>2 DEF vars, hostVars, dirVars, scriptVars, watchVars, envVars
    <3>1. TypeOK'
      BY DEF IInv, TypeOK
    <3>2. ScriptInv'
      BY DEF IInv, ScriptInv, Exclusive, Running, BuildThere, StagingIsBuild,
             SwapIsApproved, WatchdogInv
    <3>3. QED
      BY <3>1, <3>2, HostKept DEF ScriptInv, IInv
  <2>3. QED
    BY <2>1, <2>2
<1>3. QED
  BY <1>1, <1>2, PTL DEF Spec

\* Every variable keeps its type when scripts do not overlap.
THEOREM TypeCorrect == OneScript => (Spec => []TypeOK)
<1>1. IInv => TypeOK
  BY DEF IInv
<1>2. QED
  BY <1>1, Invariance, PTL

\* Whatever the watchdogs of earlier deployments, crashes, hangs, aborted scripts
\* and slow exits do: the Live port serves only versions that have answered a
\* staging health check, or the installed one.
THEOREM OnlyVerifiedServed == OneScript => (Spec => []ServedWasVerified)
<1>1. IInv => ServedWasVerified
  BY DEF IInv
<1>2. QED
  BY <1>1, Invariance, PTL

\* What the Live port serves, as LiveSlot sees it.
Serving == IF holder["live"] = NoPid THEN NoVersion ELSE ver[holder["live"]]

\* A signal takes the port down or leaves it.
LEMMA SignalServing ==
    ASSUME IInv,
           NEW gone \in SUBSET Pid, NEW asked \in SUBSET Pid, NEW slow \in SUBSET Pid,
           Signal(gone, asked, slow)
    PROVE  Serving' \in {Serving, NoVersion}
<1>1. SignalEffect(gone \cup asked)
  BY SignalFacts DEF IInv
<1>2. QED
  BY <1>1 DEF SignalEffect, Serving, Port

\* A start brings the port up from being down, or changes nothing a client sees.
LEMMA StartServing ==
    ASSUME IInv, NEW port \in Port, NEW v \in Version, Start(port, v)
    PROVE  Serving' = Serving \/ (port = "live" /\ Serving = NoVersion /\ Serving' = v)
<1>1. StartEffect(port, v)
  BY StartFacts DEF IInv
<1>2. CASE holder'["live"] = holder["live"]
  <2>1. holder["live"] # NoPid => holder["live"] \in Pid /\ holder["live"] # nextPid
    BY <1>1 DEF StartEffect, IInv, TypeOK, Port, PidOrNone, Pid, NoPid
  <2>2. QED
    BY <1>1, <1>2, <2>1 DEF StartEffect, Serving
<1>3. CASE holder'["live"] # holder["live"]
  <2>1. port = "live" /\ holder'["live"] = nextPid /\ nextPid # NoPid
    BY <1>1, <1>3 DEF StartEffect, Port, Pid, NoPid
  <2>2. holder["live"] = NoPid
    BY <1>3, <2>1 DEF Start, IInv, TypeOK, Port
  <2>3. QED
    BY <1>1, <2>1, <2>2 DEF StartEffect, Serving
<1>4. QED
  BY <1>2, <1>3

\* Signals and restores as a client of the port sees them.
LEMMA QuietServing ==
    ASSUME IInv, NEW d \in Deploys,
           \/ RollbackKills(d) /\ wpc[d] = "watch"
           \/ RestoreBackup(d) \/ StopLive(d)
           \/ \E p \in PidOrNone : Term(p)
           \/ \E p \in Pid : Signal({p}, {}, {})
    PROVE  Serving' \in {Serving, NoVersion} \/ (Serving = NoVersion /\ Serving' = 0)
<1> USE DEF IInv
<1>1. ASSUME RollbackKills(d), wpc[d] = "watch" PROVE Serving' \in {Serving, NoVersion}
  <2> DEFINE orphan == {holder["live"]} \ {NoPid, dLive[d]}
  <2>1. PICK slow \in SUBSET orphan : Signal({dLive[d]}, orphan, slow)
    BY <1>1 DEF RollbackKills, Slow
  <2>2. orphan \in SUBSET Pid /\ slow \in SUBSET Pid /\ {dLive[d]} \in SUBSET Pid
    BY <1>1, <2>1 DEF WatchdogInv, TypeOK, Port, PidOrNone, Pid, NoPid
  <2>3. QED
    BY <2>1, <2>2, SignalServing
<1>2. ASSUME RestoreBackup(d)
      PROVE  Serving' = Serving \/ (Serving = NoVersion /\ Serving' = 0)
  <2>1. CASE backup[d] = NoVersion
    BY <1>2, <2>1 DEF RestoreBackup, hostVars, Serving
  <2>2. CASE backup[d] # NoVersion
    <3>1. Start("live", 0) /\ 0 \in Version /\ "live" \in Port
      BY <1>2, <2>2, BoundsAssumption DEF RestoreBackup, TypeOK, Version, Port
    <3>2. QED
      BY <3>1, StartServing
  <2>3. QED
    BY <2>1, <2>2
<1>3. ASSUME StopLive(d) PROVE Serving' \in {Serving, NoVersion}
  <2> DEFINE old == {slot["live"]} \ {NoPid}
             orphan == {holder["live"]} \ ({NoPid} \cup old)
  <2>1. PICK slow \in SUBSET orphan : Signal(old, orphan, slow)
    BY <1>3 DEF StopLive, Slow
  <2>2. old \in SUBSET Pid /\ orphan \in SUBSET Pid /\ slow \in SUBSET Pid
    BY <2>1 DEF TypeOK, Port, PidOrNone, Pid, NoPid
  <2>3. QED
    BY <2>1, <2>2, SignalServing
<1>4. ASSUME NEW p \in PidOrNone, Term(p) PROVE Serving' \in {Serving, NoVersion}
  <2> DEFINE old == {p} \ {NoPid}
  <2>1. PICK slow \in SUBSET old : Signal({}, old, slow)
    BY <1>4 DEF Term, Slow
  <2>2. old \in SUBSET Pid /\ slow \in SUBSET Pid
    BY <2>1 DEF PidOrNone, Pid, NoPid
  <2>3. QED
    BY <2>1, <2>2, SignalServing
<1>5. ASSUME NEW p \in Pid, Signal({p}, {}, {}) PROVE Serving' \in {Serving, NoVersion}
  BY <1>5, SignalServing
<1>6. QED
  BY <1>1, <1>2, <1>3, <1>4, <1>5

\* The scripts implement LiveSlot: the port passes through being down between
\* two versions, and comes up only with an approved one.
THEOREM Refinement == OneScript => (Spec => ImplementsLiveSlot)
<1> SUFFICES ASSUME OneScript PROVE Spec => ImplementsLiveSlot
  OBVIOUS
<1> USE DEF Slot!NoVersion, Slot!Version, NoVersion, Version
<1> DEFINE SlotStep == \/ UNCHANGED <<Serving, approved>>
                       \/ Serving' = NoVersion /\ UNCHANGED approved
                       \/ \E v \in Version : approved' = approved \cup {v} /\ UNCHANGED Serving
                       \/ \E v \in Version : /\ Serving = NoVersion /\ v \in approved
                                             /\ Serving' = v /\ UNCHANGED approved
<1>1. Init => Slot!Init
  <2> SUFFICES ASSUME Init PROVE Slot!Init
    OBVIOUS
  <2>1. holder["live"] = 1 /\ ver[1] = 0
    BY BoundsAssumption DEF Init, Port, Pid
  <2>2. QED
    BY <2>1 DEF Init, Slot!Init, NoPid
<1>2. SlotStep => [Slot!Next]_(Slot!slotVars)
  BY DEF Slot!Next, Slot!slotVars, Slot!Approve, Slot!GoDown, Slot!ComeUp, Serving
<1>3. ASSUME IInv, [Next]_vars PROVE SlotStep
  <2> USE <1>3
  <2>1. 0 \in Version /\ 0 \in approved
    BY BoundsAssumption DEF IInv
  <2>2. ASSUME Serving' \in {Serving, NoVersion} \/ (Serving = NoVersion /\ Serving' = 0),
               UNCHANGED approved
        PROVE  SlotStep
    BY <2>1, <2>2
  <2>3. ASSUME UNCHANGED <<hostVars, approved>> PROVE SlotStep
    BY <2>3 DEF hostVars, Serving
  <2>4. ASSUME NEW d \in Deploys,
               \/ StagingUnhealthy(d) \/ StopStaging(d) \/ SwapUnhealthy(d) \/ KillOldStaging(d)
        PROVE  SlotStep
    <3>1. dStaging[d] \in PidOrNone /\ dLive[d] \in PidOrNone /\ slot["staging"] \in PidOrNone
      BY DEF IInv, TypeOK, Port
    <3>2. UNCHANGED approved /\ \E p \in PidOrNone : Term(p)
      BY <2>4, <3>1 DEF StagingUnhealthy, StopStaging, SwapUnhealthy, KillOldStaging
    <3>3. QED
      BY <2>2, <3>2, QuietServing
  <2>5. ASSUME NEW d \in Deploys, BootStaging(d) PROVE SlotStep
    <3>1. Start("staging", stagingBuild) /\ stagingBuild \in Version /\ UNCHANGED approved
      BY <2>5 DEF BootStaging, IInv, BuildThere, TypeOK
    <3>2. QED
      BY <2>2, <3>1, StartServing DEF Port
  <2>6. ASSUME NEW d \in Deploys, StagingHealthy(d) PROVE SlotStep
    <3>1. holder["staging"] \in Pid /\ approved' = approved \cup {ver[holder["staging"]]}
      BY <2>6 DEF StagingHealthy, StagingPasses, Answers, IInv, TypeOK, Port, PidOrNone, Pid, NoPid
    <3>2. ver[holder["staging"]] \in Version
      BY <3>1 DEF IInv, TypeOK
    <3>3. UNCHANGED Serving
      BY <2>6 DEF StagingHealthy, hostVars, Serving
    <3>4. QED
      BY <3>1, <3>2, <3>3
  <2>7. ASSUME NEW d \in Deploys, StartLive(d) PROVE SlotStep
    <3>1. /\ Start("live", stagingBuild) /\ stagingBuild \in Version /\ UNCHANGED approved
          /\ stagingBuild \in approved
      BY <2>7 DEF StartLive, IInv, TypeOK, SwapIsApproved
    <3>2. Serving' = Serving \/ (Serving = NoVersion /\ Serving' = stagingBuild)
      BY <3>1, StartServing DEF Port
    <3>3. QED
      BY <3>1, <3>2
  <2>8. ASSUME NEW d \in Deploys, StopLive(d) \/ EmergencyRestore(d) \/ WatchRestore(d)
        PROVE  SlotStep
    <3>1. UNCHANGED approved
      BY <2>8 DEF StopLive, EmergencyRestore, WatchRestore
    <3>2. QED
      BY <2>2, <2>8, <3>1, QuietServing DEF EmergencyRestore, WatchRestore
  <2>9. ASSUME NEW d \in Deploys, WatchFindsDead(d) \/ WatchUnhealthy(d) \/ WatchHealthy(d)
        PROVE  SlotStep
    <3>1. UNCHANGED approved /\ (UNCHANGED hostVars \/ (RollbackKills(d) /\ wpc[d] = "watch"))
      BY <2>9 DEF WatchFindsDead, WatchUnhealthy, WatchHealthy, Watches
    <3>2. QED
      BY <2>2, <2>3, <3>1, QuietServing
  <2>10. ASSUME NEW d \in Deploys,
                \/ \E dry \in BOOLEAN : StartDeploy(d, dry)
                \/ Sync(d) \/ Build(d) \/ StagingDetails(d) \/ NoAnswerInTime(d) \/ Backup(d)
                \/ SwapHealthy(d) \/ Promote(d) \/ SendAlert(d) \/ Abort(d)
         PROVE  SlotStep
    <3>1. UNCHANGED <<hostVars, approved>>
      BY <2>10 DEF StartDeploy, Sync, Build, StagingDetails, NoAnswerInTime, Backup, SwapHealthy,
         Promote, SendAlert, Abort
    <3>2. QED
      BY <2>3, <3>1
  <2>11. ASSUME NEW p \in Pid, Crash(p) \/ SlowExits(p) PROVE SlotStep
    <3>1. UNCHANGED approved /\ Signal({p}, {}, {})
      BY <2>11 DEF Crash, SlowExits
    <3>2. Serving' \in {Serving, NoVersion}
      BY <3>1, SignalServing
    <3>3. QED
      BY <2>2, <3>1, <3>2
  <2>12. ASSUME Commit \/ N8nHangs \/ UNCHANGED vars \/ \E p \in Pid : Hang(p)
         PROVE  SlotStep
    BY <2>12 DEF Commit, N8nHangs, vars, hostVars, Hang, Serving
  <2> HIDE DEF SlotStep
  <2>13. QED
    BY <2>4, <2>5, <2>6, <2>7, <2>8, <2>9, <2>10, <2>11, <2>12
       DEF Next, DeployStep, WatchStep
<1> HIDE DEF SlotStep
<1>4. QED
  BY <1>1, <1>2, <1>3, Invariance, PTL DEF Spec, ImplementsLiveSlot, Slot!Spec

-----------------------------------------------------------------------------
(* Before the swap Live is left alone.                                      *)

\* The server on the Live port is nobody's staging server.
ApartOK ==
    holder["live"] # NoPid =>
        /\ slot["staging"] # holder["live"]
        /\ \A d \in Deploys : dStaging[d] # holder["live"]

\* A signal leaves the port to the process that holds it or frees it.
LEMMA SignalApart ==
    ASSUME IInv, ApartOK,
           NEW gone \in SUBSET Pid, NEW asked \in SUBSET Pid, NEW slow \in SUBSET Pid,
           Signal(gone, asked, slow),
           slot'["staging"] \in {slot["staging"], NoPid}, dStaging' = dStaging
    PROVE  ApartOK'
<1>1. holder'["live"] # NoPid => holder'["live"] = holder["live"]
  BY SignalFacts DEF IInv, SignalEffect, Port
<1> QED
  BY <1>1 DEF ApartOK

\* A new process is on no pid file yet.
LEMMA StartApart ==
    ASSUME IInv, ApartOK, NEW port \in Port, NEW v \in Version, Start(port, v),
           \/ /\ port = "live"
              /\ UNCHANGED <<slot["staging"], dStaging>>
           \/ /\ port = "staging"
              /\ slot'["staging"] = nextPid
              /\ \A d \in Deploys : dStaging'[d] \in {dStaging[d], nextPid}
    PROVE  ApartOK'
<1>1. StartEffect(port, v)
  BY StartFacts DEF IInv
<1>2. /\ nextPid \in Nat /\ nextPid # NoPid
      /\ slot["staging"] # nextPid /\ \A d \in Deploys : dStaging[d] # nextPid
      /\ holder["live"] # nextPid
  <2>1. nextPid \in Pid
    BY <1>1 DEF StartEffect
  <2>2. slot["staging"] \in Int /\ \A d \in Deploys : dStaging[d] \in Int
    BY DEF IInv, TypeOK, Port, PidOrNone
  <2> QED
    BY <1>1, <2>1, <2>2 DEF StartEffect, IInv, PidsOK, Port, Pid, NoPid
<1>3. CASE port = "live"
  BY <1>1, <1>2, <1>3 DEF StartEffect, ApartOK, Port
<1>4. CASE port = "staging"
  <2>1. holder'["live"] = holder["live"]
    BY <1>1, <1>4 DEF StartEffect, Port
  <2> QED
    BY <1>2, <1>4, <2>1 DEF ApartOK
<1> QED
  BY <1>3, <1>4 DEF Port

\* SIGTERM to one pid.
LEMMA TermApart ==
    ASSUME IInv, ApartOK, NEW p \in PidOrNone, Term(p),
           slot'["staging"] \in {slot["staging"], NoPid}, dStaging' = dStaging
    PROVE  ApartOK'
<1> DEFINE old == {p} \ {NoPid}
<1>1. PICK slow \in SUBSET old : Signal({}, old, slow)
  BY DEF Term, Slow
<1>2. old \in SUBSET Pid /\ slow \in SUBSET Pid
  BY DEF PidOrNone, Pid, NoPid
<1> QED
  BY <1>1, <1>2, SignalApart

LEMMA RestoreApart ==
    ASSUME IInv, ApartOK, NEW d \in Deploys, RestoreBackup(d), dStaging' = dStaging
    PROVE  ApartOK'
<1>1. CASE backup[d] = NoVersion
  BY <1>1 DEF RestoreBackup, hostVars, ApartOK
<1>2. CASE backup[d] # NoVersion
  <2>1. Start("live", backup[d]) /\ slot' = [slot EXCEPT !["live"] = nextPid]
    BY <1>2 DEF RestoreBackup
  <2>2. backup[d] \in Version /\ "live" \in Port
    BY <1>2, BoundsAssumption DEF IInv, TypeOK, Version, Port
  <2>3. slot'["staging"] = slot["staging"]
    BY <2>1 DEF IInv, TypeOK, Port
  <2> QED
    BY <2>1, <2>2, <2>3, StartApart
<1> QED
  BY <1>1, <1>2

LEMMA RollbackApart ==
    ASSUME IInv, ApartOK, NEW d \in Deploys, wpc[d] = "watch", RollbackKills(d),
           slot' = slot, dStaging' = dStaging
    PROVE  ApartOK'
<1> DEFINE orphan == {holder["live"]} \ {NoPid, dLive[d]}
<1>1. PICK slow \in SUBSET orphan : Signal({dLive[d]}, orphan, slow)
  BY DEF RollbackKills, Slow
<1>2. orphan \in SUBSET Pid /\ slow \in SUBSET Pid /\ {dLive[d]} \in SUBSET Pid
  BY <1>1 DEF IInv, WatchdogInv, TypeOK, Port, PidOrNone, Pid, NoPid
<1> QED
  BY <1>1, <1>2, SignalApart

LEMMA ApartStays ==
    ASSUME IInv, ApartOK, [Next]_vars
    PROVE  ApartOK'
<1> USE DEF scriptVars, dirVars, watchVars, envVars
<1>1. ASSUME UNCHANGED <<holder, slot, dStaging>> PROVE ApartOK'
  BY <1>1 DEF ApartOK
<1>2. ASSUME NEW d \in Deploys, NEW dry \in BOOLEAN, StartDeploy(d, dry) PROVE ApartOK'
  BY <1>1, <1>2 DEF StartDeploy, hostVars
<1>3. ASSUME NEW d \in Deploys, DeployStep(d) PROVE ApartOK'
  <2>1. CASE \/ Sync(d) \/ Build(d) \/ StagingHealthy(d) \/ StagingDetails(d)
             \/ NoAnswerInTime(d) \/ Backup(d) \/ SwapHealthy(d)
    BY <1>1, <2>1 DEF Sync, Build, StagingHealthy, StagingDetails, NoAnswerInTime, Backup,
       SwapHealthy, hostVars
  <2>2. CASE KillOldStaging(d)
    BY <2>2, TermApart DEF KillOldStaging, IInv, TypeOK, Port
  <2>3. CASE StagingUnhealthy(d) \/ StopStaging(d)
    <3>1. /\ dStaging[d] \in PidOrNone /\ Term(dStaging[d]) /\ dStaging' = dStaging
          /\ slot' = [slot EXCEPT !["staging"] = NoPid]
      BY <2>3 DEF StagingUnhealthy, StopStaging, IInv, TypeOK
    <3>2. slot'["staging"] = NoPid
      BY <3>1 DEF IInv, TypeOK, Port
    <3> QED
      BY <3>1, <3>2, TermApart
  <2>4. CASE BootStaging(d)
    <3>1. stagingBuild \in Version /\ "staging" \in Port
      BY <2>4 DEF BootStaging, IInv, BuildThere, TypeOK, Port
    <3>2. slot'["staging"] = nextPid /\ \A e \in Deploys : dStaging'[e] \in {dStaging[e], nextPid}
      BY <2>4 DEF BootStaging, IInv, TypeOK, Port
    <3> QED
      BY <2>4, <3>1, <3>2, StartApart DEF BootStaging
  <2>5. CASE StopLive(d)
    <3> DEFINE old == {slot["live"]} \ {NoPid}
               orphan == {holder["live"]} \ ({NoPid} \cup old)
    <3>1. PICK slow \in SUBSET orphan : Signal(old, orphan, slow)
      BY <2>5 DEF StopLive, Slow
    <3>2. old \in SUBSET Pid /\ orphan \in SUBSET Pid /\ slow \in SUBSET Pid
      BY <3>1 DEF IInv, TypeOK, Port, PidOrNone, Pid, NoPid
    <3> QED
      BY <2>5, <3>1, <3>2, SignalApart DEF StopLive
  <2>6. CASE StartLive(d)
    <3>1. stagingBuild \in Version /\ "live" \in Port
      BY <2>6 DEF StartLive, IInv, TypeOK, Port
    <3>2. slot'["staging"] = slot["staging"] /\ dStaging' = dStaging
      BY <2>6 DEF StartLive, IInv, TypeOK, Port
    <3> QED
      BY <2>6, <3>1, <3>2, StartApart DEF StartLive
  <2>7. CASE SwapUnhealthy(d)
    BY <2>7, TermApart DEF SwapUnhealthy, IInv, TypeOK
  <2>8. CASE EmergencyRestore(d)
    BY <2>8, RestoreApart DEF EmergencyRestore
  <2> QED
    BY <1>3, <2>1, <2>2, <2>3, <2>4, <2>5, <2>6, <2>7, <2>8 DEF DeployStep
<1>4. ASSUME NEW d \in Deploys, WatchStep(d) PROVE ApartOK'
  <2>1. CASE Promote(d) \/ SendAlert(d)
    BY <1>1, <2>1 DEF Promote, SendAlert, hostVars
  <2>2. CASE WatchRestore(d)
    BY <2>2, RestoreApart DEF WatchRestore
  <2>3. CASE WatchFindsDead(d) \/ WatchUnhealthy(d) \/ WatchHealthy(d)
    <3>1. slot' = slot /\ dStaging' = dStaging /\ wpc[d] = "watch"
      BY <2>3 DEF WatchFindsDead, WatchUnhealthy, WatchHealthy, Watches
    <3>2. RollbackKills(d) \/ UNCHANGED holder
      BY <2>3 DEF WatchFindsDead, WatchUnhealthy, WatchHealthy, hostVars
    <3> QED
      BY <1>1, <3>1, <3>2, RollbackApart
  <2> QED
    BY <1>4, <2>1, <2>2, <2>3 DEF WatchStep
<1>5. ASSUME NEW d \in Deploys, Abort(d) PROVE ApartOK'
  BY <1>1, <1>5 DEF Abort, hostVars
<1>6. ASSUME NEW p \in Pid, Crash(p) \/ SlowExits(p) PROVE ApartOK'
  BY <1>6, SignalApart DEF Crash, SlowExits
<1>7. ASSUME NEW p \in Pid, Hang(p) PROVE ApartOK'
  BY <1>1, <1>7 DEF Hang
<1>8. CASE Commit \/ N8nHangs \/ UNCHANGED vars
  BY <1>1, <1>8 DEF Commit, N8nHangs, vars, hostVars
<1> QED
  BY <1>2, <1>3, <1>4, <1>5, <1>6, <1>7, <1>8 DEF Next

\* Whatever goes on beside it, no step of a script before its swap takes the Live port
\* from its server or changes the pid file that names it.
THEOREM LiveUntouched == OneScript => (Spec => LiveUntouchedBeforeSwap)
<1> SUFFICES ASSUME OneScript PROVE Spec => LiveUntouchedBeforeSwap
  OBVIOUS
<1>1. Init => ApartOK
  BY DEF Init, ApartOK, NoPid, Port
<1>2. IInv /\ ApartOK /\ [Next]_vars => ApartOK'
  BY ApartStays
<1>3. IInv /\ ApartOK =>
        \A d \in Deploys : dpc[d] \in PreSwap /\ DeployStep(d)
            => UNCHANGED <<holder["live"], slot["live"]>>
  <2> SUFFICES ASSUME IInv, ApartOK, NEW d \in Deploys, dpc[d] \in PreSwap, DeployStep(d)
               PROVE  UNCHANGED <<holder["live"], slot["live"]>>
    OBVIOUS
  <2> USE DEF dirVars, scriptVars, watchVars, envVars, hostVars
  <2>1. CASE \/ Sync(d) \/ Build(d) \/ StagingHealthy(d) \/ StagingDetails(d)
             \/ NoAnswerInTime(d) \/ Backup(d)
    BY <2>1 DEF Sync, Build, StagingHealthy, StagingDetails, NoAnswerInTime, Backup
  <2>2. CASE BootStaging(d)
    <3>1. stagingBuild \in Version /\ "staging" \in Port /\ "live" \in Port
      BY <2>2 DEF BootStaging, IInv, BuildThere, TypeOK, Port
    <3>2. StartEffect("staging", stagingBuild)
      BY <2>2, <3>1, StartFacts DEF BootStaging, IInv
    <3>3. slot' = [slot EXCEPT !["staging"] = nextPid]
      BY <2>2 DEF BootStaging
    <3> QED
      BY <3>1, <3>2, <3>3 DEF StartEffect, IInv, TypeOK
  <2>3. ASSUME NEW p \in PidOrNone, Term(p),
               p # NoPid => p = slot["staging"] \/ \E e \in Deploys : p = dStaging[e]
        PROVE  UNCHANGED holder["live"]
    <3>1. PICK slow \in SUBSET ({p} \ {NoPid}) : Signal({}, {p} \ {NoPid}, slow)
      BY <2>3 DEF Term, Slow
    <3> QED
      BY <2>3, <3>1 DEF Signal, ApartOK, Port
  <2>4. CASE StagingUnhealthy(d) \/ StopStaging(d)
    <3>1. /\ Term(dStaging[d]) /\ dStaging[d] \in PidOrNone
          /\ slot' = [slot EXCEPT !["staging"] = NoPid]
      BY <2>4 DEF StagingUnhealthy, StopStaging, IInv, TypeOK
    <3> QED
      BY <2>3, <3>1 DEF IInv, TypeOK, Port
  <2>5. CASE KillOldStaging(d)
    <3>1. Term(slot["staging"]) /\ slot["staging"] \in PidOrNone /\ slot' = slot
      BY <2>5 DEF KillOldStaging, IInv, TypeOK, Port
    <3> QED
      BY <2>3, <3>1
  <2>6. CASE \/ StopLive(d) \/ StartLive(d) \/ SwapHealthy(d) \/ SwapUnhealthy(d)
             \/ EmergencyRestore(d)
    BY <2>6 DEF StopLive, StartLive, SwapHealthy, SwapUnhealthy, EmergencyRestore, PreSwap
  <2> QED
    BY <2>1, <2>2, <2>4, <2>5, <2>6 DEF DeployStep
<1> QED
  BY <1>1, <1>2, <1>3, Invariance, PTL DEF Spec, LiveUntouchedBeforeSwap

-----------------------------------------------------------------------------
(* When the scripts are over no server is forgotten.                        *)

StagingUp == {"check", "details", "failStaging", "backup", "stopStaging"}

\* A server nobody has told to stop is on the Live port, found it taken, or is the staging
\* server of a script that will stop it.
StrayInv ==
    aborts = 0 =>
        \A p \in Pid : proc[p] = "run" =>
            \/ p = holder["live"]
            \/ p \in deaf
            \/ \E d \in Deploys : dpc[d] \in StagingUp /\ p = dStaging[d]

Busy(d) == Running(d) \/ wpc[d] \in Watching

\* At most one deployment is at work, its watchdog included.
Solo == \A d, e \in Deploys : Busy(d) /\ Busy(e) => d = e

\* Then a server that found the port taken is the one slot-a.pid names, which is the new
\* Live of the deployment at work, and it does not run when the file is written again.
NamedInv ==
    /\ \A p \in deaf : proc[p] = "run" => p = slot["live"]
    /\ \A d \in Deploys :
        /\ dpc[d] \in {"startLive", "emergency"} \/ wpc[d] = "restore"
            => \A p \in Pid : proc[p] = "run" => p # slot["live"]
        /\ dpc[d] \in {"verify", "failSwap"} \/ wpc[d] = "watch" => slot["live"] = dLive[d]

\* No process starts, the ones in asked do not run, and Live keeps its port unless it stops.
Fewer(asked) ==
    /\ deaf' = deaf
    /\ \A p \in Pid : proc'[p] = "run" =>
        proc[p] = "run" /\ p \notin asked /\ (p = holder["live"] => p = holder'["live"])

\* A signal is a step like that.
LEMMA SignalFewer ==
    ASSUME IInv, NEW gone \in SUBSET Pid, NEW asked \in SUBSET Pid, NEW slow \in SUBSET Pid,
           Signal(gone, asked, slow)
    PROVE  Fewer(gone \cup asked)
<1>1. SignalEffect(gone \cup asked)
  BY SignalFacts DEF IInv
<1> DEFINE left == {p \in gone \cup (asked \ slow) : Alive(p)}
<1>2. \A p \in left : p \in Pid
  OBVIOUS
<1>3. /\ holder' = [port \in Port |-> IF holder[port] \in left THEN NoPid ELSE holder[port]]
      /\ \A p \in left : proc'[p] # "run"
  BY <1>2 DEF Signal
<1> HIDE DEF left
<1>4. \A p \in Pid : proc'[p] = "run" /\ p = holder["live"] => p = holder'["live"]
  BY <1>3 DEF Port
<1> QED
  BY <1>1, <1>4 DEF SignalEffect, Fewer

\* So are the kills of the scripts.
LEMMA KillsFewer ==
    ASSUME IInv
    PROVE  /\ \A q \in PidOrNone : Term(q) => Fewer({q})
           /\ \A d \in Deploys : wpc[d] = "watch" /\ RollbackKills(d) => Fewer({dLive[d]})
           /\ \A d \in Deploys : StopLive(d) => Fewer({slot["live"]})
           /\ UNCHANGED hostVars => Fewer({})
<1> USE DEF IInv
<1>0. \A p \in Pid : p # NoPid
  BY DEF Pid, NoPid
<1>1. ASSUME NEW q \in PidOrNone, Term(q) PROVE Fewer({q})
  <2> DEFINE old == {q} \ {NoPid}
  <2>1. PICK slow \in SUBSET old : Signal({}, old, slow)
    BY <1>1 DEF Term, Slow
  <2>2. old \in SUBSET Pid /\ slow \in SUBSET Pid
    BY <2>1 DEF PidOrNone, Pid, NoPid
  <2>3. Fewer({} \cup old)
    BY <2>1, <2>2, SignalFewer
  <2> QED
    BY <1>0, <2>3 DEF Fewer
<1>2. ASSUME NEW d \in Deploys, wpc[d] = "watch", RollbackKills(d) PROVE Fewer({dLive[d]})
  <2> DEFINE orphan == {holder["live"]} \ {NoPid, dLive[d]}
  <2>1. PICK slow \in SUBSET orphan : Signal({dLive[d]}, orphan, slow)
    BY <1>2 DEF RollbackKills, Slow
  <2>2. orphan \in SUBSET Pid /\ slow \in SUBSET Pid /\ {dLive[d]} \in SUBSET Pid
    BY <1>2, <2>1 DEF WatchdogInv, TypeOK, Port, PidOrNone, Pid, NoPid
  <2>3. Fewer({dLive[d]} \cup orphan)
    BY <2>1, <2>2, SignalFewer
  <2> QED
    BY <2>3 DEF Fewer
<1>3. ASSUME NEW d \in Deploys, StopLive(d) PROVE Fewer({slot["live"]})
  <2> DEFINE old == {slot["live"]} \ {NoPid}
             orphan == {holder["live"]} \ ({NoPid} \cup old)
  <2>1. PICK slow \in SUBSET orphan : Signal(old, orphan, slow)
    BY <1>3 DEF StopLive, Slow
  <2>2. old \in SUBSET Pid /\ orphan \in SUBSET Pid /\ slow \in SUBSET Pid
    BY <2>1 DEF TypeOK, Port, PidOrNone, Pid, NoPid
  <2>3. Fewer(old \cup orphan)
    BY <2>1, <2>2, SignalFewer
  <2> QED
    BY <1>0, <2>3 DEF Fewer
<1>4. UNCHANGED hostVars => Fewer({})
  BY DEF hostVars, Fewer
<1> QED
  BY <1>1, <1>2, <1>3, <1>4

\* A new Live binds the port or is one that found it taken.
OneMoreLive ==
    /\ deaf' \subseteq deaf \cup {nextPid}
    /\ \A p \in deaf : p \in deaf'
    /\ slot'["live"] = nextPid
    /\ \A p \in Pid : proc'[p] = "run" =>
        \/ p = nextPid /\ (p = holder'["live"] \/ p \in deaf')
        \/ proc[p] = "run" /\ (p = holder["live"] => p = holder'["live"])

\* A start on the Live port does that.
LEMMA StartOneMore ==
    ASSUME IInv, NEW v \in Version, Start("live", v), slot' = [slot EXCEPT !["live"] = nextPid]
    PROVE  OneMoreLive
<1>1. StartEffect("live", v) /\ "live" \in Port
  BY StartFacts DEF IInv, Port
<1>2. CASE holder["live"] = NoPid
  <2>1. holder'["live"] = nextPid /\ deaf' = deaf
    BY <1>1, <1>2 DEF Start, IInv, TypeOK
  <2>2. \A p \in Pid : p # holder["live"]
    BY <1>2 DEF Pid, NoPid
  <2> QED
    BY <1>1, <2>1, <2>2 DEF StartEffect, OneMoreLive, IInv, TypeOK
<1>3. CASE holder["live"] # NoPid
  <2>1. holder'["live"] = holder["live"] /\ deaf' = deaf \cup {nextPid}
    BY <1>1, <1>3 DEF Start, IInv, TypeOK
  <2> QED
    BY <1>1, <2>1 DEF StartEffect, OneMoreLive, IInv, TypeOK
<1> QED
  BY <1>2, <1>3

\* The restore of a backup does that or nothing.
LEMMA RestoreOneMore ==
    ASSUME IInv, NEW d \in Deploys, RestoreBackup(d)
    PROVE  OneMoreLive \/ UNCHANGED <<hostVars, slot>>
<1>1. CASE backup[d] = NoVersion
  BY <1>1 DEF RestoreBackup
<1>2. CASE backup[d] # NoVersion
  <2>1. /\ Start("live", backup[d]) /\ backup[d] \in Version
        /\ slot' = [slot EXCEPT !["live"] = nextPid]
    BY <1>2, BoundsAssumption DEF RestoreBackup, IInv, TypeOK, Version
  <2> QED
    BY <2>1, StartOneMore
<1> QED
  BY <1>1, <1>2

\* A step that starts nothing, and lets no script leave a staging server of its own.
LEMMA FewerStray ==
    ASSUME StrayInv, NEW asked, Fewer(asked), dStaging' = dStaging, aborts' = aborts,
           \A e \in Deploys : dpc[e] \in StagingUp =>
               dpc'[e] \in StagingUp \/ dStaging[e] \in asked
    PROVE  StrayInv'
BY DEF StrayInv, Fewer

\* A step that starts a Live, or nothing, and leaves the staging servers with their scripts.
LEMMA MoreStray ==
    ASSUME StrayInv, OneMoreLive \/ UNCHANGED hostVars, dStaging' = dStaging, aborts' = aborts,
           \A e \in Deploys : dpc[e] \in StagingUp => dpc'[e] \in StagingUp
    PROVE  StrayInv'
<1>1. CASE OneMoreLive
  BY <1>1 DEF StrayInv, OneMoreLive
<1>2. CASE UNCHANGED hostVars
  BY <1>2 DEF StrayInv, hostVars
<1> QED
  BY <1>1, <1>2

LEMMA StrayStays ==
    ASSUME OneScript, IInv, StrayInv, [Next]_vars
    PROVE  StrayInv'
<1> USE DEF scriptVars, watchVars, envVars
<1>0. /\ TypeOK /\ PidsOK /\ aborts \in Nat
      /\ dpc \in [Deploys -> {"idle"} \cup PreSwap \cup Swapping \cup Ended]
  BY DEF IInv, TypeOK
<1>1. ASSUME UNCHANGED hostVars, dStaging' = dStaging, aborts' = aborts,
             \A e \in Deploys : dpc[e] \in StagingUp => dpc'[e] \in StagingUp
      PROVE  StrayInv'
  BY <1>1, MoreStray
<1>2. ASSUME NEW d \in Deploys, NEW dry \in BOOLEAN, StartDeploy(d, dry) PROVE StrayInv'
  BY <1>0, <1>1, <1>2 DEF StartDeploy, Goto, StagingUp
<1>3. ASSUME NEW d \in Deploys, DeployStep(d) PROVE StrayInv'
  <2> USE DEF Goto, StagingUp
  <2>1. CASE \/ Sync(d) \/ Build(d) \/ StagingHealthy(d) \/ StagingDetails(d)
             \/ NoAnswerInTime(d) \/ Backup(d) \/ SwapHealthy(d)
    <3>1. UNCHANGED hostVars /\ dStaging' = dStaging /\ aborts' = aborts
      BY <2>1 DEF Sync, Build, StagingHealthy, StagingDetails, NoAnswerInTime, Backup, SwapHealthy
    <3>2. \A e \in Deploys : dpc[e] \in StagingUp => dpc'[e] \in StagingUp
      BY <1>0, <2>1 DEF Sync, Build, StagingHealthy, StagingDetails, NoAnswerInTime, Backup,
         SwapHealthy
    <3> QED
      BY <1>1, <3>1, <3>2
  <2>2. CASE KillOldStaging(d)
    <3>1. /\ Term(slot["staging"]) /\ slot["staging"] \in PidOrNone
          /\ dStaging' = dStaging /\ aborts' = aborts /\ dpc' = dpc
      BY <1>0, <2>2 DEF KillOldStaging, TypeOK, Port
    <3> QED
      BY <3>1, KillsFewer, FewerStray
  <2>3. CASE BootStaging(d)
    <3>1. stagingBuild \in Version /\ "staging" \in Port /\ "live" \in Port
      BY <2>3 DEF BootStaging, IInv, BuildThere, TypeOK, Port
    <3>2. StartEffect("staging", stagingBuild)
      BY <1>0, <2>3, <3>1, StartFacts DEF BootStaging
    <3>3. /\ dpc[d] = "boot" /\ dpc'[d] = "check" /\ dStaging'[d] = nextPid /\ aborts' = aborts
          /\ \A e \in Deploys : e # d => dpc'[e] = dpc[e] /\ dStaging'[e] = dStaging[e]
      BY <1>0, <2>3 DEF BootStaging, TypeOK
    <3> QED
      BY <3>1, <3>2, <3>3 DEF StartEffect, StrayInv
  <2>4. CASE StagingUnhealthy(d) \/ StopStaging(d)
    <3>1. /\ Term(dStaging[d]) /\ dStaging[d] \in PidOrNone
          /\ dStaging' = dStaging /\ aborts' = aborts
          /\ \A e \in Deploys : e # d => dpc'[e] = dpc[e]
      BY <1>0, <2>4 DEF StagingUnhealthy, StopStaging, TypeOK
    <3> QED
      BY <3>1, KillsFewer, FewerStray
  <2>5. CASE StopLive(d)
    <3>1. dStaging' = dStaging /\ aborts' = aborts
      BY <2>5 DEF StopLive
    <3>2. \A e \in Deploys : dpc[e] \in StagingUp => dpc'[e] \in StagingUp
      BY <1>0, <2>5 DEF StopLive
    <3> QED
      BY <2>5, <3>1, <3>2, KillsFewer, FewerStray
  <2>6. CASE SwapUnhealthy(d)
    <3>1. /\ Term(dLive[d]) /\ dLive[d] \in PidOrNone /\ dStaging' = dStaging /\ aborts' = aborts
      BY <1>0, <2>6 DEF SwapUnhealthy, TypeOK
    <3>2. \A e \in Deploys : dpc[e] \in StagingUp => dpc'[e] \in StagingUp
      BY <1>0, <2>6 DEF SwapUnhealthy
    <3> QED
      BY <3>1, <3>2, KillsFewer, FewerStray
  <2>7. CASE StartLive(d) \/ EmergencyRestore(d)
    <3>1. OneMoreLive \/ UNCHANGED hostVars
      <4>1. CASE StartLive(d)
        BY <1>0, <4>1, StartOneMore DEF StartLive, TypeOK
      <4>2. CASE EmergencyRestore(d)
        BY <4>2, RestoreOneMore DEF EmergencyRestore
      <4> QED
        BY <2>7, <4>1, <4>2
    <3>2. dStaging' = dStaging /\ aborts' = aborts
      BY <2>7 DEF StartLive, EmergencyRestore
    <3>3. \A e \in Deploys : dpc[e] \in StagingUp => dpc'[e] \in StagingUp
      BY <1>0, <2>7 DEF StartLive, EmergencyRestore
    <3> QED
      BY <3>1, <3>2, <3>3, MoreStray
  <2> QED
    BY <1>3, <2>1, <2>2, <2>3, <2>4, <2>5, <2>6, <2>7 DEF DeployStep
<1>4. ASSUME NEW d \in Deploys, WatchStep(d) PROVE StrayInv'
  <2>1. dStaging' = dStaging /\ aborts' = aborts /\ dpc' = dpc
    BY <1>4 DEF WatchStep, WatchFindsDead, WatchUnhealthy, WatchHealthy, WatchRestore, Promote,
       SendAlert
  <2>2. CASE WatchRestore(d)
    BY <2>1, <2>2, RestoreOneMore, MoreStray DEF WatchRestore
  <2>3. CASE ~WatchRestore(d)
    <3>1. UNCHANGED hostVars \/ (wpc[d] = "watch" /\ RollbackKills(d))
      BY <1>4, <2>3 DEF WatchStep, WatchFindsDead, WatchUnhealthy, WatchHealthy, Promote,
         SendAlert, Watches
    <3> QED
      BY <1>1, <2>1, <3>1, KillsFewer, FewerStray
  <2> QED
    BY <2>2, <2>3
<1>5. ASSUME NEW d \in Deploys, Abort(d) PROVE StrayInv'
  <2>1. aborts' # 0
    BY <1>0, <1>5 DEF Abort
  <2> QED
    BY <2>1 DEF StrayInv
<1>6. ASSUME NEW p \in Pid, Crash(p) \/ SlowExits(p) PROVE StrayInv'
  <2>1. Signal({p}, {}, {}) /\ UNCHANGED <<dpc, dStaging, aborts>>
    BY <1>6 DEF Crash, SlowExits
  <2>2. Fewer({p} \cup {})
    BY <2>1, SignalFewer
  <2> QED
    BY <2>1, <2>2, FewerStray
<1>7. ASSUME NEW p \in Pid, Hang(p) PROVE StrayInv'
  BY <1>7 DEF Hang, StrayInv
<1>8. CASE Commit \/ N8nHangs \/ UNCHANGED vars
  BY <1>1, <1>8 DEF Commit, N8nHangs, vars
<1> QED
  BY <1>2, <1>3, <1>4, <1>5, <1>6, <1>7, <1>8 DEF Next

\* The steps of one deployment are those of a busy one, and move no other.
LEMMA StepOfOne ==
    ASSUME TypeOK, NEW d \in Deploys, DeployStep(d) \/ WatchStep(d)
    PROVE  \A e \in Deploys : e # d =>
                dpc'[e] = dpc[e] /\ wpc'[e] = wpc[e] /\ dLive'[e] = dLive[e]
<1> USE DEF TypeOK, Goto, scriptVars, watchVars
<1>1. CASE \/ Sync(d) \/ Build(d) \/ KillOldStaging(d) \/ BootStaging(d)
           \/ StagingHealthy(d) \/ StagingDetails(d) \/ NoAnswerInTime(d) \/ StagingUnhealthy(d)
  BY <1>1 DEF Sync, Build, KillOldStaging, BootStaging, StagingHealthy, StagingDetails,
     NoAnswerInTime, StagingUnhealthy
<1>2. CASE \/ Backup(d) \/ StopStaging(d) \/ StopLive(d) \/ StartLive(d)
           \/ SwapHealthy(d) \/ SwapUnhealthy(d) \/ EmergencyRestore(d)
  BY <1>2 DEF Backup, StopStaging, StopLive, StartLive, SwapHealthy, SwapUnhealthy,
     EmergencyRestore
<1>3. CASE WatchStep(d)
  BY <1>3 DEF WatchStep, WatchFindsDead, WatchUnhealthy, WatchHealthy, WatchRestore, Promote,
     SendAlert, RollbackKills
<1> QED
  BY <1>1, <1>2, <1>3 DEF DeployStep

\* Only a deployment at work makes a step that touches the host; SendAlert is none.
LEMMA StepIsBusy ==
    ASSUME TypeOK, NEW d \in Deploys, DeployStep(d) \/ (WatchStep(d) /\ ~SendAlert(d))
    PROVE  Busy(d)
<1> USE DEF Busy, Running, PreSwap, Swapping, Watching
<1>1. CASE DeployStep(d)
  BY <1>1 DEF DeployStep, Sync, Build, KillOldStaging, BootStaging, StagingHealthy,
     StagingDetails, NoAnswerInTime, StagingUnhealthy, Backup, StopStaging, StopLive, StartLive,
     SwapHealthy, SwapUnhealthy, EmergencyRestore
<1>2. CASE WatchStep(d) /\ ~SendAlert(d)
  BY <1>2 DEF WatchStep, WatchFindsDead, WatchUnhealthy, WatchHealthy, WatchRestore, Promote,
     Watches
<1> QED
  BY <1>1, <1>2

LEMMA SoloStays ==
    ASSUME MayOverlap = {}, TypeOK, Solo, [Next]_vars
    PROVE  Solo'
<1>1. ASSUME NEW d \in Deploys, DeployStep(d) \/ WatchStep(d) PROVE Solo'
  <2>1. \A e \in Deploys : e # d => (Busy(e)' <=> Busy(e))
    BY <1>1, StepOfOne DEF Busy, Running
  <2>2. CASE Busy(d)
    BY <2>1, <2>2 DEF Solo
  <2>3. CASE ~Busy(d)
    <3>1. SendAlert(d)
      BY <1>1, <2>3, StepIsBusy
    <3>2. ~Busy(d)'
      BY <2>3, <3>1 DEF SendAlert, Busy, Running, TypeOK, Watching
    <3> QED
      BY <2>1, <2>3, <3>2 DEF Solo
  <2> QED
    BY <2>2, <2>3
<1>2. ASSUME NEW d \in Deploys, NEW dry \in BOOLEAN, StartDeploy(d, dry) PROVE Solo'
  <2>1. \A e \in Deploys \ {d} : ~Busy(e)
    BY <1>2 DEF StartDeploy, CanStart, Busy, Running
  <2>2. \A e \in Deploys \ {d} : dpc'[e] = dpc[e] /\ wpc'[e] = wpc[e]
    BY <1>2 DEF StartDeploy, Goto, TypeOK, watchVars
  <2> QED
    BY <2>1, <2>2 DEF Solo, Busy, Running
<1>3. ASSUME NEW d \in Deploys, Abort(d) PROVE Solo'
  BY <1>3 DEF Abort, Goto, TypeOK, watchVars, Solo, Busy, Running, PreSwap, Swapping
<1>4. ASSUME UNCHANGED <<dpc, wpc>> PROVE Solo'
  BY <1>4 DEF Solo, Busy, Running
<1> QED
  BY <1>1, <1>2, <1>3, <1>4 DEF Next, vars, watchVars, Commit, N8nHangs, Crash, Hang, SlowExits

\* A step that starts nothing keeps NamedInv if what it moves a deployment to was true of it
\* already or is true of the servers the step has stopped.
LEMMA FewerNamed ==
    ASSUME IInv, NamedInv, NEW asked, Fewer(asked), slot'["live"] = slot["live"],
           \A e \in Deploys :
               /\ dpc'[e] \in {"startLive", "emergency"} \/ wpc'[e] = "restore" =>
                    \/ dpc[e] \in {"startLive", "emergency"} \/ wpc[e] = "restore"
                    \/ slot["live"] \in asked
               /\ dpc'[e] \in {"verify", "failSwap"} \/ wpc'[e] = "watch" =>
                    /\ dpc[e] \in {"verify", "failSwap"} \/ wpc[e] = "watch"
                    /\ dLive'[e] = dLive[e]
    PROVE  NamedInv'
<1>1. deaf \subseteq Pid
  BY DEF IInv, TypeOK
<1>2. \A p \in Pid : proc'[p] = "run" => proc[p] = "run" /\ p \notin asked
  BY DEF Fewer
<1> QED
  BY <1>1, <1>2 DEF NamedInv, Fewer

\* A Live is started by the deployment at work, when the one slot-a.pid names does not run.
LEMMA MoreNamed ==
    ASSUME IInv, NamedInv, NEW d \in Deploys, OneMoreLive, nextPid \in Pid,
           dpc[d] \in {"startLive", "emergency"} \/ wpc[d] = "restore",
           \A e \in Deploys :
               /\ dpc'[e] \notin {"startLive", "emergency"} /\ wpc'[e] # "restore"
               /\ dpc'[e] \in {"verify", "failSwap"} \/ wpc'[e] = "watch" => dLive'[e] = nextPid
    PROVE  NamedInv'
<1>1. \A p \in Pid : proc[p] = "run" => p # slot["live"]
  BY DEF NamedInv
<1>2. deaf \subseteq Pid
  BY DEF IInv, TypeOK
<1>3. \A p \in Pid : proc'[p] = "run" /\ p \in deaf' => p = nextPid
  BY <1>1, <1>2 DEF OneMoreLive, NamedInv
<1>4. deaf' \subseteq Pid
  BY <1>2 DEF OneMoreLive
<1> QED
  BY <1>3, <1>4 DEF NamedInv, OneMoreLive

LEMMA NamedStays ==
    ASSUME IInv, Solo, NamedInv, [Next]_vars
    PROVE  NamedInv'
<1> USE DEF scriptVars, watchVars, envVars
<1>0. /\ TypeOK /\ PidsOK /\ WatchdogInv
      /\ dpc \in [Deploys -> {"idle"} \cup PreSwap \cup Swapping \cup Ended]
      /\ wpc \in [Deploys -> {"off", "promoted", "rolledBack"} \cup Watching \cup Alerting]
      /\ dLive \in [Deploys -> PidOrNone]
  BY DEF IInv, TypeOK
<1>1. ASSUME Fewer({}), slot' = slot, dLive' = dLive,
             \A e \in Deploys :
               /\ dpc'[e] \in {"startLive", "emergency"} => dpc[e] \in {"startLive", "emergency"}
               /\ dpc'[e] \in {"verify", "failSwap"} => dpc[e] \in {"verify", "failSwap"}
               /\ wpc'[e] = wpc[e] \/ wpc'[e] \notin {"watch", "restore"}
      PROVE  NamedInv'
  BY <1>1, FewerNamed
<1>2. UNCHANGED hostVars => Fewer({})
  BY KillsFewer
<1>3. ASSUME NEW d \in Deploys, NEW dry \in BOOLEAN, StartDeploy(d, dry) PROVE NamedInv'
  BY <1>0, <1>1, <1>2, <1>3 DEF StartDeploy, Goto
<1>4. ASSUME NEW d \in Deploys, DeployStep(d) PROVE NamedInv'
  <2> USE DEF Goto
  <2>0. Busy(d) /\ \A e \in Deploys : e # d =>
            ~Busy(e) /\ dpc'[e] = dpc[e] /\ wpc'[e] = wpc[e] /\ dLive'[e] = dLive[e]
    BY <1>0, <1>4, StepIsBusy, StepOfOne DEF Solo
  <2>1. CASE \/ Sync(d) \/ Build(d) \/ StagingHealthy(d) \/ StagingDetails(d)
             \/ NoAnswerInTime(d) \/ Backup(d)
    <3>1. UNCHANGED <<hostVars, slot, dLive, wpc>>
      BY <2>1 DEF Sync, Build, StagingHealthy, StagingDetails, NoAnswerInTime, Backup
    <3>2. \A e \in Deploys :
            /\ dpc'[e] \in {"startLive", "emergency"} => dpc[e] \in {"startLive", "emergency"}
            /\ dpc'[e] \in {"verify", "failSwap"} => dpc[e] \in {"verify", "failSwap"}
      BY <1>0, <2>1 DEF Sync, Build, StagingHealthy, StagingDetails, NoAnswerInTime, Backup
    <3> QED
      BY <1>1, <1>2, <3>1, <3>2
  <2>2. CASE SwapHealthy(d)
    <3>1. /\ UNCHANGED <<hostVars, slot, dLive>>
          /\ dpc[d] = "verify" /\ dpc'[d] = "done" /\ wpc'[d] = "watch"
      BY <1>0, <2>2 DEF SwapHealthy
    <3>2. wpc[d] # "restore"
      BY <1>0, <3>1 DEF WatchdogInv
    <3> QED
      BY <1>2, <2>0, <3>1, <3>2, FewerNamed
  <2>3. CASE KillOldStaging(d)
    <3>1. /\ Term(slot["staging"]) /\ slot["staging"] \in PidOrNone
          /\ UNCHANGED <<slot, dLive, dpc, wpc>>
      BY <1>0, <2>3 DEF KillOldStaging, TypeOK, Port
    <3>2. Fewer({slot["staging"]})
      BY <3>1, KillsFewer
    <3> QED
      BY <3>1, <3>2, FewerNamed
  <2>4. CASE BootStaging(d)
    <3>1. stagingBuild \in Version /\ "staging" \in Port /\ "live" \in Port
      BY <2>4 DEF BootStaging, IInv, BuildThere, TypeOK, Port
    <3>2. StartEffect("staging", stagingBuild)
      BY <1>0, <2>4, <3>1, StartFacts DEF BootStaging
    <3>3. /\ dpc'[d] = "check" /\ UNCHANGED <<dLive, wpc>> /\ slot'["live"] = slot["live"]
          /\ dpc[d] = "boot"
      BY <1>0, <2>4, <3>1 DEF BootStaging, TypeOK
    <3>4. nextPid \notin deaf /\ slot["live"] # nextPid /\ deaf \subseteq Pid
      BY <1>0, <3>1, <3>2 DEF PidsOK, StartEffect, TypeOK, PidOrNone, Pid
    <3>5. deaf' = deaf
      BY <3>2 DEF StartEffect
    <3>6. \A p \in Pid : p # nextPid => proc'[p] = proc[p]
      BY <3>2 DEF StartEffect
    <3>7. \A p \in deaf : proc'[p] = "run" => p = slot'["live"]
      BY <3>3, <3>4, <3>6 DEF NamedInv
    <3>8. wpc[d] # "restore" /\ wpc[d] # "watch"
      BY <1>0, <3>3 DEF WatchdogInv
    <3> QED
      BY <2>0, <3>3, <3>4, <3>5, <3>6, <3>7, <3>8 DEF NamedInv
  <2>5. CASE StagingUnhealthy(d) \/ StopStaging(d)
    <3>1. /\ Term(dStaging[d]) /\ dStaging[d] \in PidOrNone /\ UNCHANGED <<dLive, wpc>>
          /\ slot'["live"] = slot["live"] /\ dpc'[d] \in {"stagingFailed", "dryDone", "stopLive"}
      BY <1>0, <2>5 DEF StagingUnhealthy, StopStaging, TypeOK, Port
    <3>2. Fewer({dStaging[d]})
      BY <3>1, KillsFewer
    <3> QED
      BY <2>0, <3>1, <3>2, FewerNamed
  <2>6. CASE StopLive(d)
    <3>1. UNCHANGED <<slot, dLive, wpc>> /\ dpc'[d] = "startLive" /\ Fewer({slot["live"]})
      BY <1>0, <2>6, KillsFewer DEF StopLive
    <3> QED
      BY <2>0, <3>1, FewerNamed
  <2>7. CASE SwapUnhealthy(d)
    <3>1. /\ Term(dLive[d]) /\ dLive[d] \in PidOrNone /\ UNCHANGED <<slot, dLive, wpc>>
          /\ dpc[d] = "failSwap" /\ dpc'[d] = "emergency"
      BY <1>0, <2>7 DEF SwapUnhealthy
    <3>2. slot["live"] = dLive[d] /\ Fewer({dLive[d]})
      BY <3>1, KillsFewer DEF NamedInv
    <3> QED
      BY <2>0, <3>1, <3>2, FewerNamed
  <2>8. ASSUME OneMoreLive, nextPid \in Pid, dpc[d] \in {"startLive", "emergency"},
               dpc'[d] \notin {"startLive", "emergency", "failSwap"},
               dpc'[d] = "verify" => dLive'[d] = nextPid, wpc' = wpc
        PROVE  NamedInv'
    <3>1. wpc[d] \notin {"watch", "restore"}
      BY <1>0, <2>8 DEF WatchdogInv
    <3>2. \A e \in Deploys : e # d =>
            /\ dpc'[e] \notin {"startLive", "emergency", "verify", "failSwap"}
            /\ wpc'[e] \notin {"watch", "restore"}
      BY <2>0 DEF Busy, Running, PreSwap, Swapping, Watching
    <3> QED
      BY <2>8, <3>1, <3>2, MoreNamed
  <2>9. CASE StartLive(d)
    <3>1. /\ stagingBuild \in Version /\ Start("live", stagingBuild)
          /\ slot' = [slot EXCEPT !["live"] = nextPid] /\ wpc' = wpc
          /\ dpc[d] = "startLive" /\ dpc'[d] = "verify" /\ dLive'[d] = nextPid
      BY <1>0, <2>9 DEF StartLive, TypeOK
    <3> QED
      BY <2>8, <3>1, StartOneMore DEF Start
  <2>10. CASE EmergencyRestore(d)
    <3>1. /\ RestoreBackup(d) /\ wpc' = wpc /\ dLive' = dLive
          /\ dpc[d] = "emergency" /\ dpc'[d] \in {"restored", "down"}
      BY <1>0, <2>10 DEF EmergencyRestore
    <3>2. CASE UNCHANGED <<hostVars, slot>>
      BY <1>2, <2>0, <3>1, <3>2, FewerNamed
    <3>3. CASE ~UNCHANGED <<hostVars, slot>>
      BY <2>8, <3>1, <3>3, RestoreOneMore DEF RestoreBackup
    <3> QED
      BY <3>2, <3>3
  <2> QED
    BY <1>4, <2>1, <2>2, <2>3, <2>4, <2>5, <2>6, <2>7, <2>9, <2>10 DEF DeployStep
<1>5. ASSUME NEW d \in Deploys, WatchStep(d) PROVE NamedInv'
  <2>0. dpc' = dpc /\ dLive' = dLive /\ \A e \in Deploys : e # d => wpc'[e] = wpc[e]
    BY <1>0, <1>5, StepOfOne DEF WatchStep, WatchFindsDead, WatchUnhealthy, WatchHealthy,
       WatchRestore, Promote, SendAlert
  <2>1. CASE Promote(d) \/ SendAlert(d)
    <3>1. UNCHANGED <<hostVars, slot>> /\ wpc'[d] \notin {"watch", "restore"}
      BY <1>0, <2>1 DEF Promote, SendAlert
    <3> QED
      BY <1>1, <1>2, <2>0, <3>1
  <2>2. CASE WatchFindsDead(d) \/ WatchUnhealthy(d) \/ WatchHealthy(d)
    <3>1. wpc[d] = "watch" /\ slot' = slot
      BY <2>2 DEF WatchFindsDead, WatchUnhealthy, WatchHealthy, Watches
    <3>2. CASE UNCHANGED <<hostVars, wpc>>
      BY <1>1, <1>2, <2>0, <3>1, <3>2
    <3>3. CASE ~UNCHANGED <<hostVars, wpc>>
      <4>1. RollbackKills(d)
        BY <2>2, <3>3 DEF WatchFindsDead, WatchUnhealthy, WatchHealthy
      <4>2. wpc'[d] = "restore"
        BY <1>0, <4>1 DEF RollbackKills
      <4>3. slot["live"] = dLive[d] /\ Fewer({dLive[d]})
        BY <3>1, <4>1, KillsFewer DEF NamedInv
      <4> QED
        BY <2>0, <3>1, <4>2, <4>3, FewerNamed
    <3> QED
      BY <3>2, <3>3
  <2>3. CASE WatchRestore(d)
    <3>1. wpc[d] = "restore" /\ wpc'[d] = "alertRollback" /\ RestoreBackup(d)
      BY <1>0, <2>3 DEF WatchRestore
    <3>2. dpc[d] = "done"
      BY <1>0, <3>1 DEF WatchdogInv
    <3>3. CASE UNCHANGED <<hostVars, slot>>
      BY <1>1, <1>2, <2>0, <3>1, <3>3
    <3>4. CASE ~UNCHANGED <<hostVars, slot>>
      <4>1. \A e \in Deploys : e # d =>
              /\ dpc'[e] \notin {"startLive", "emergency", "verify", "failSwap"}
              /\ wpc'[e] \notin {"watch", "restore"}
        BY <2>0, <3>1 DEF Solo, Busy, Running, PreSwap, Swapping, Watching
      <4>2. OneMoreLive /\ nextPid \in Pid
        BY <3>1, <3>4, RestoreOneMore DEF RestoreBackup, Start
      <4> QED
        BY <2>0, <3>1, <3>2, <4>1, <4>2, MoreNamed
    <3> QED
      BY <3>3, <3>4
  <2> QED
    BY <1>5, <2>1, <2>2, <2>3 DEF WatchStep
<1>6. ASSUME NEW d \in Deploys, Abort(d) PROVE NamedInv'
  BY <1>0, <1>1, <1>2, <1>6 DEF Abort, Goto
<1>7. ASSUME NEW p \in Pid, Crash(p) \/ SlowExits(p) PROVE NamedInv'
  <2>1. Signal({p}, {}, {}) /\ UNCHANGED <<dpc, dLive, slot, wpc>>
    BY <1>7 DEF Crash, SlowExits
  <2>2. Fewer({p} \cup {})
    BY <2>1, SignalFewer
  <2> QED
    BY <2>1, <2>2, FewerNamed
<1>8. ASSUME NEW p \in Pid, Hang(p) PROVE NamedInv'
  BY <1>8 DEF Hang, NamedInv
<1>9. CASE Commit \/ N8nHangs \/ UNCHANGED vars
  BY <1>1, <1>2, <1>9 DEF Commit, N8nHangs, vars
<1> QED
  BY <1>3, <1>4, <1>5, <1>6, <1>7, <1>8, <1>9 DEF Next

\* No script forgets a server, however long servers take to leave, hang or crash: when all
\* is over, one that nobody has told to stop is on the Live port or has found it taken, and
\* then slot-a.pid names it unless a watchdog overlapped a later deployment.
THEOREM NoneLeft == OneScript => (Spec => []NoStrayServer)
<1> SUFFICES ASSUME OneScript PROVE Spec => []NoStrayServer
  OBVIOUS
<1> DEFINE Named == MayOverlap = {} => Solo /\ NamedInv
<1>1. Init => StrayInv /\ Named
  <2> SUFFICES ASSUME Init PROVE StrayInv /\ Solo /\ NamedInv
    OBVIOUS
  <2>1. \A d \in Deploys : dpc[d] = "idle" /\ wpc[d] = "off"
    BY DEF Init
  <2>2. holder["live"] = 1 /\ deaf = {}
    BY DEF Init, Port
  <2>3. \A p \in Pid : proc[p] = "run" => p = 1
    BY DEF Init
  <2> QED
    BY <2>1, <2>2, <2>3 DEF Solo, StrayInv, NamedInv, Busy, Running, PreSwap, Swapping, Watching
<1>2. IInv /\ StrayInv /\ Named /\ [Next]_vars => StrayInv' /\ Named'
  BY StrayStays, SoloStays, NamedStays DEF IInv
<1>3. StrayInv /\ Named => NoStrayServer
  <2> SUFFICES ASSUME StrayInv, Named, aborts = 0,
                      \A d \in Deploys : dpc[d] \in {"idle"} \cup Ended /\ wpc[d] \notin Watching,
                      NEW p \in Pid, proc[p] = "run", p # holder["live"]
               PROVE  p \in deaf /\ (p = slot["live"] \/ "watch" \in MayOverlap)
    BY DEF NoStrayServer
  <2>1. p \in deaf
    BY DEF StrayInv, StagingUp, Ended
  <2>2. "watch" \notin MayOverlap => MayOverlap = {}
    BY OptionsAssumption DEF OneScript
  <2> QED
    BY <2>1, <2>2 DEF NamedInv
<1> QED
  BY <1>1, <1>2, <1>3, Invariance, PTL DEF Spec
=============================================================================
