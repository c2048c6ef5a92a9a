--------------------------- MODULE BlueGreenDeploy ---------------------------
(***************************************************************************)
(* scripts/deploy-blue-green.sh and scripts/watchdog.sh: deployments of    *)
(* new versions of the server onto one host with a Live and a staging      *)
(* port.  A deployment is a shell script, its watchdog a second script     *)
(* that outlives it; both only see the host through pid files, the process *)
(* table, the ports and the build directories, which are the variables     *)
(* here.  No lock keeps two scripts apart, so which of them may overlap is *)
(* a constant.                                                             *)
(***************************************************************************)
EXTENDS Integers, FiniteSets

CONSTANTS
    Deploys,        \* deployments (runs of the script, each with its watchdog)
    MaxVersion,     \* bound: commits to the Live checkout
    MaxPid,         \* bound: processes ever started
    MaxCrash,       \* bound: crashes and hangs of servers and of n8n
    MaxAbort,       \* bound: scripts killed half way
    Broken,         \* versions whose server never answers /health
    MaxErrors,      \* maxErrorsBeforeRollback
    TotalChecks,    \* checks a watchdog makes
    MayOverlap,     \* what of an earlier deployment a new one may overlap
    SlowExit        \* may a busy server outlive the pause after its SIGTERM

ASSUME BoundsAssumption ==
    /\ MaxVersion \in Nat
    /\ MaxPid \in Nat \ {0}
    /\ MaxCrash \in Nat
    /\ MaxAbort \in Nat
    /\ MaxErrors \in Nat \ {0}
    /\ TotalChecks \in Nat \ {0}
ASSUME OptionsAssumption ==
    /\ Broken \subseteq 1..MaxVersion
    /\ MayOverlap \subseteq {"deploy", "watch"}
    /\ SlowExit \in BOOLEAN

VARIABLES
    head,           \* version checked out in LIVE_DIR
    stagingSrc,     \* version of the sources in STAGING_DIR
    stagingBuild,   \* version in STAGING_DIR/.mastra/output, or NoVersion
    liveBuild,      \* version in LIVE_DIR/.mastra/output, or NoVersion
    proc,           \* pid -> state of the process
    ver,            \* pid -> version it runs
    sick,           \* servers whose event loop is blocked for good
    nextPid,
    holder,         \* port -> pid bound to it, or NoPid
    slot,           \* slot-a.pid and slot-b.pid, by the port they speak of
    dpc,            \* deployment -> step of its script
    dryRun,         \* deployment -> started with --dry-run
    dStaging,       \* deployment -> STAGING_PID
    dLive,          \* deployment -> NEW_LIVE_PID
    backup,         \* deployment -> version in ROLLBACK_DIR/output
    wpc,            \* deployment -> step of its watchdog
    wFails,         \* deployment -> CONSECUTIVE_FAILURES
    wChecks,        \* deployment -> CHECK_NUMBER
    approved,       \* history: versions that answered a staging health check
    deaf,           \* history: servers that found the Live port taken
    n8nHangs,       \* n8n accepts the alert webhook and never answers
    crashes, aborts

hostVars == <<proc, ver, sick, nextPid, holder, deaf>>
dirVars == <<head, stagingSrc, stagingBuild, liveBuild>>
scriptVars == <<dryRun, dStaging, dLive, backup>>
watchVars == <<wpc, wFails, wChecks>>
envVars == <<crashes, aborts, n8nHangs>>
vars == <<hostVars, dirVars, scriptVars, watchVars, envVars, slot, dpc, approved>>

NoPid == 0
Pid == 1..MaxPid
PidOrNone == 0..MaxPid
Version == 0..MaxVersion
NoVersion == -1
Port == {"live", "staging"}

PreSwap == {"sync", "build", "boot", "check", "details", "failStaging", "backup", "stopStaging"}
Swapping == {"stopLive", "startLive", "verify", "failSwap", "emergency"}
Ended == {"buildFailed", "stagingFailed", "dryDone", "done", "restored", "down", "aborted"}
Watching == {"watch", "restore"}     \* a watchdog that may still touch the host
Alerting == {"alertPromoted", "alertRollback"}

Alive(p) == p # NoPid /\ proc[p] \in {"run", "term"}

\* A server answers /health on the port it holds.
Answers(port) ==
    LET p == holder[port]
    IN  /\ p # NoPid
        /\ proc[p] = "run"
        /\ p \notin sick
        /\ ver[p] \notin Broken

TypeOK ==
    /\ head \in Version
    /\ stagingSrc \in Version
    /\ stagingBuild \in Version \cup {NoVersion}
    /\ liveBuild \in {0, NoVersion}
    /\ proc \in [Pid -> {"none", "run", "term", "dead"}]
    /\ ver \in [Pid -> Version]
    /\ sick \subseteq Pid
    /\ nextPid \in 1..(MaxPid + 1)
    /\ holder \in [Port -> PidOrNone]
    /\ slot \in [Port -> PidOrNone]
    /\ dpc \in [Deploys -> {"idle"} \cup PreSwap \cup Swapping \cup Ended]
    /\ dryRun \in [Deploys -> BOOLEAN]
    /\ dStaging \in [Deploys -> PidOrNone]
    /\ dLive \in [Deploys -> PidOrNone]
    /\ backup \in [Deploys -> {0, NoVersion}]
    /\ wpc \in [Deploys -> {"off", "promoted", "rolledBack"} \cup Watching \cup Alerting]
    /\ wFails \in [Deploys -> 0..MaxErrors]
    /\ wChecks \in [Deploys -> 0..TotalChecks]
    /\ approved \subseteq Version
    /\ deaf \subseteq Pid
    /\ n8nHangs \in BOOLEAN
    /\ crashes \in 0..MaxCrash
    /\ aborts \in 0..MaxAbort

\* The installed version serves; it may have been started by hand (no slot-a.pid)
\* and from a checkout that holds no built output.
Init ==
    /\ head = 0
    /\ stagingSrc = 0
    /\ stagingBuild = NoVersion
    /\ liveBuild \in {0, NoVersion}
    /\ proc = [p \in Pid |-> IF p = 1 THEN "run" ELSE "none"]
    /\ ver = [p \in Pid |-> 0]
    /\ sick = {}
    /\ nextPid = 2
    /\ holder = [port \in Port |-> IF port = "live" THEN 1 ELSE NoPid]
    /\ slot \in {[port \in Port |-> IF port = "live" THEN p ELSE NoPid] : p \in {NoPid, 1}}
    /\ dpc = [d \in Deploys |-> "idle"]
    /\ dryRun = [d \in Deploys |-> FALSE]
    /\ dStaging = [d \in Deploys |-> NoPid]
    /\ dLive = [d \in Deploys |-> NoPid]
    /\ backup = [d \in Deploys |-> NoVersion]
    /\ wpc = [d \in Deploys |-> "off"]
    /\ wFails = [d \in Deploys |-> 0]
    /\ wChecks = [d \in Deploys |-> 0]
    /\ approved = {0}
    /\ deaf = {}
    /\ n8nHangs = FALSE
    /\ crashes = 0
    /\ aborts = 0

-----------------------------------------------------------------------------
(* Processes and ports.                                                     *)

\* SIGKILL to the pids in gone, SIGTERM and a pause to those in asked: the ones
\* in slow have not left when the pause is over and keep their port.
Signal(gone, asked, slow) ==
    LET left == {p \in gone \cup (asked \ slow) : Alive(p)}
        stay == {p \in slow \ gone : Alive(p)}
    IN  /\ proc' = [p \in Pid |-> IF p \in left THEN "dead"
                                  ELSE IF p \in stay THEN "term" ELSE proc[p]]
        /\ holder' = [port \in Port |-> IF holder[port] \in left THEN NoPid ELSE holder[port]]
        /\ sick' = sick \ left
        /\ UNCHANGED <<ver, nextPid, deaf>>

\* Who of the ones asked stays: the handler of SIGTERM is JavaScript, which a blocked
\* event loop never comes to and a busy one late.
Slow(asked) ==
    {S \in SUBSET asked : asked \cap sick \subseteq S /\ (SlowExit \/ S \subseteq sick)}

\* SIGTERM to pid p, if it is one.
Term(p) == \E slow \in Slow({p} \ {NoPid}) : Signal({}, {p} \ {NoPid}, slow)

\* Mutant: the port is taken over from the process that holds it.
StartTakesPort(port, v) ==
    /\ nextPid \in Pid
    /\ proc' = [proc EXCEPT ![nextPid] = "run"]
    /\ ver' = [ver EXCEPT ![nextPid] = v]
    /\ holder' = [holder EXCEPT ![port] = nextPid]
    /\ nextPid' = nextPid + 1
    /\ UNCHANGED <<sick, deaf>>

\* node .mastra/output/index.mjs &: the process binds the port if it is free; if
\* not, the global error handler swallows EADDRINUSE and it lives on, unbound.
Start(port, v) ==
    /\ nextPid \in Pid
    /\ proc' = [proc EXCEPT ![nextPid] = "run"]
    /\ ver' = [ver EXCEPT ![nextPid] = v]
    /\ holder' = [holder EXCEPT ![port] = IF @ = NoPid THEN nextPid ELSE @]
    /\ nextPid' = nextPid + 1
    /\ deaf' = IF port = "live" /\ holder[port] # NoPid THEN deaf \cup {nextPid} ELSE deaf
    /\ UNCHANGED sick

Goto(d, step) == dpc' = [dpc EXCEPT ![d] = step]

-----------------------------------------------------------------------------
(* deploy-blue-green.sh                                                     *)

CanStart(d) ==
    \A e \in Deploys \ {d} :
        /\ dpc[e] \in PreSwap \cup Swapping => "deploy" \in MayOverlap
        /\ wpc[e] \in Watching => "watch" \in MayOverlap

StartDeploy(d, dry) ==
    /\ dpc[d] = "idle"
    /\ CanStart(d)
    /\ dryRun' = [dryRun EXCEPT ![d] = dry]
    /\ Goto(d, "sync")
    /\ UNCHANGED <<hostVars, dirVars, dStaging, dLive, backup, watchVars, envVars, slot, approved>>

Sync(d) ==
    /\ dpc[d] = "sync"
    /\ stagingSrc' = head
    /\ Goto(d, "build")
    /\ UNCHANGED <<hostVars, head, stagingBuild, liveBuild, scriptVars, watchVars, envVars, slot, approved>>

\* A failing build leaves the directory with what it had or with nothing to run.
Build(d) ==
    /\ dpc[d] = "build"
    /\ \/ stagingBuild' = stagingSrc /\ Goto(d, "boot")
       \/ stagingBuild' \in {stagingBuild, NoVersion} /\ Goto(d, "buildFailed")
    /\ UNCHANGED <<hostVars, head, stagingSrc, liveBuild, scriptVars, watchVars, envVars, slot, approved>>

\* slot-b.pid may name a staging server an aborted deployment left behind.
KillOldStaging(d) ==
    /\ dpc[d] = "boot"
    /\ slot["staging"] # NoPid
    /\ proc[slot["staging"]] = "run"
    /\ Term(slot["staging"])
    /\ UNCHANGED <<dirVars, scriptVars, watchVars, envVars, slot, dpc, approved>>

BootStaging(d) ==
    /\ dpc[d] = "boot"
    /\ slot["staging"] # NoPid => proc[slot["staging"]] # "run"
    /\ Start("staging", stagingBuild)
    /\ slot' = [slot EXCEPT !["staging"] = nextPid]
    /\ dStaging' = [dStaging EXCEPT ![d] = nextPid]
    /\ Goto(d, "check")
    /\ UNCHANGED <<dirVars, dryRun, dLive, backup, watchVars, envVars, approved>>

\* The scripts' curl has no --max-time (the watchdog's check of the health has one): it
\* waits for a server that has accepted the connection and does not come to answer.
CurlWaits(port) ==
    LET p == holder[port]
    IN  p # NoPid /\ (p \in sick \/ proc[p] = "term")

\* The check asks the port, so whoever holds it answers.
StagingPasses == Answers("staging")

StagingHealthy(d) ==
    /\ dpc[d] = "check"
    /\ StagingPasses
    /\ approved' = IF Answers("staging")
                    THEN approved \cup {ver[holder["staging"]]} ELSE approved
    /\ Goto(d, "details")
    /\ UNCHANGED <<hostVars, dirVars, scriptVars, watchVars, envVars, slot>>

\* A second curl, to /deploy/health, whose answer is only printed.
StagingDetails(d) ==
    /\ dpc[d] = "details"
    /\ ~CurlWaits("staging")
    /\ Goto(d, IF dryRun[d] THEN "stopStaging" ELSE "backup")
    /\ UNCHANGED <<hostVars, dirVars, scriptVars, watchVars, envVars, slot, approved>>

\* Mutant: the health loops count the time only while something is on the port.
NoAnswerOfServer(d) ==
    /\ \/ dpc[d] = "check" /\ Alive(holder["staging"]) /\ Goto(d, "failStaging")
       \/ dpc[d] = "verify" /\ Alive(holder["live"]) /\ Goto(d, "failSwap")
    /\ UNCHANGED <<hostVars, dirVars, scriptVars, watchVars, envVars, slot, approved>>

\* A health loop runs out: no answer in time, of a server that is broken or merely slow.
NoAnswerInTime(d) ==
    /\ \/ dpc[d] = "check" /\ ~CurlWaits("staging") /\ Goto(d, "failStaging")
       \/ dpc[d] = "verify" /\ ~CurlWaits("live") /\ Goto(d, "failSwap")
    /\ UNCHANGED <<hostVars, dirVars, scriptVars, watchVars, envVars, slot, approved>>

\* Mutant: the failing path kills by the wrong pid file.
StagingUnhealthyKillsLive(d) ==
    /\ dpc[d] = "failStaging"
    /\ Term(slot["live"])
    /\ slot' = [slot EXCEPT !["staging"] = NoPid]
    /\ Goto(d, "stagingFailed")
    /\ UNCHANGED <<dirVars, scriptVars, watchVars, envVars, approved>>

StagingUnhealthy(d) ==
    /\ dpc[d] = "failStaging"
    /\ Term(dStaging[d])
    /\ slot' = [slot EXCEPT !["staging"] = NoPid]
    /\ Goto(d, "stagingFailed")
    /\ UNCHANGED <<dirVars, scriptVars, watchVars, envVars, approved>>

\* What step 5b.1 copies: the output of LIVE_DIR, if there is one.
BackupBuild == liveBuild

Backup(d) ==
    /\ dpc[d] = "backup"
    /\ backup' = [backup EXCEPT ![d] = BackupBuild]
    /\ Goto(d, "stopStaging")
    /\ UNCHANGED <<hostVars, dirVars, dryRun, dStaging, dLive, watchVars, envVars, slot, approved>>

\* Mutant: only the pid file is removed.
StopStagingForgets(d) ==
    /\ dpc[d] = "stopStaging"
    /\ slot' = [slot EXCEPT !["staging"] = NoPid]
    /\ Goto(d, IF dryRun[d] THEN "dryDone" ELSE "stopLive")
    /\ UNCHANGED <<hostVars, dirVars, scriptVars, watchVars, envVars, approved>>

StopStaging(d) ==
    /\ dpc[d] = "stopStaging"
    /\ Term(dStaging[d])
    /\ slot' = [slot EXCEPT !["staging"] = NoPid]
    /\ Goto(d, IF dryRun[d] THEN "dryDone" ELSE "stopLive")
    /\ UNCHANGED <<dirVars, scriptVars, watchVars, envVars, approved>>

\* The process slot-a.pid names gets SIGTERM and in the end SIGKILL; what lsof
\* finds on the port after that gets SIGTERM and one second.
StopLive(d) ==
    /\ dpc[d] = "stopLive"
    /\ LET old == {slot["live"]} \ {NoPid}
           orphan == {holder["live"]} \ ({NoPid} \cup old)
       IN  \E slow \in Slow(orphan) : Signal(old, orphan, slow)
    /\ Goto(d, "startLive")
    /\ UNCHANGED <<dirVars, scriptVars, watchVars, envVars, slot, approved>>

\* The code of STAGING_DIR is run as it is now, on the Live port.
StartLive(d) ==
    /\ dpc[d] = "startLive"
    /\ stagingBuild # NoVersion
    /\ Start("live", stagingBuild)
    /\ slot' = [slot EXCEPT !["live"] = nextPid]
    /\ dLive' = [dLive EXCEPT ![d] = nextPid]
    /\ Goto(d, "verify")
    /\ UNCHANGED <<dirVars, dryRun, dStaging, backup, watchVars, envVars, approved>>

SwapHealthy(d) ==
    /\ dpc[d] = "verify"
    /\ Answers("live")
    /\ Goto(d, "done")
    /\ wpc' = [wpc EXCEPT ![d] = "watch"]
    /\ UNCHANGED <<hostVars, dirVars, scriptVars, wFails, wChecks, envVars, slot, approved>>

\* The emergency rollback: SIGTERM and a pause, never SIGKILL.
SwapUnhealthy(d) ==
    /\ dpc[d] = "failSwap"
    /\ Term(dLive[d])
    /\ Goto(d, "emergency")
    /\ UNCHANGED <<dirVars, scriptVars, watchVars, envVars, slot, approved>>

RestoreBackup(d) ==
    /\ nextPid \in Pid
    /\ IF backup[d] = NoVersion
       THEN UNCHANGED <<hostVars, slot>>
       ELSE Start("live", backup[d]) /\ slot' = [slot EXCEPT !["live"] = nextPid]

EmergencyRestore(d) ==
    /\ dpc[d] = "emergency"
    /\ RestoreBackup(d)
    /\ Goto(d, IF backup[d] = NoVersion THEN "down" ELSE "restored")
    /\ UNCHANGED <<dirVars, scriptVars, watchVars, envVars, approved>>

\* The script dies half way: Ctrl-C, or the timeout of the execSync that runs it.
Abort(d) ==
    /\ dpc[d] \in PreSwap \cup Swapping
    /\ aborts < MaxAbort
    /\ aborts' = aborts + 1
    /\ Goto(d, "aborted")
    /\ UNCHANGED <<hostVars, dirVars, scriptVars, watchVars, crashes, n8nHangs, slot, approved>>

-----------------------------------------------------------------------------
(* watchdog.sh                                                              *)

Watches(d) == wpc[d] = "watch" /\ wChecks[d] < TotalChecks

\* do_rollback up to its kills: LIVE_PID for good, then whoever is on the port.
RollbackKills(d) ==
    /\ LET orphan == {holder["live"]} \ {NoPid, dLive[d]}
       IN  \E slow \in Slow(orphan) : Signal({dLive[d]}, orphan, slow)
    /\ wpc' = [wpc EXCEPT ![d] = "restore"]

NextCheck(d, fails) ==
    /\ wFails' = [wFails EXCEPT ![d] = fails]
    /\ wChecks' = [wChecks EXCEPT ![d] = @ + 1]

\* Check 1: the process is gone.
WatchFindsDead(d) ==
    /\ Watches(d)
    /\ ~Alive(dLive[d])
    /\ RollbackKills(d)
    /\ NextCheck(d, wFails[d])
    /\ UNCHANGED <<dirVars, scriptVars, envVars, slot, dpc, approved>>

\* Mutant: more than MaxErrors failures instead of MaxErrors.
WatchUnhealthyLate(d) ==
    /\ Watches(d)
    /\ Alive(dLive[d])
    /\ NextCheck(d, wFails[d] + 1)
    /\ IF wFails[d] >= MaxErrors
       THEN RollbackKills(d)
       ELSE UNCHANGED <<hostVars, wpc>>
    /\ UNCHANGED <<dirVars, scriptVars, envVars, slot, dpc, approved>>

\* Check 2: the port does not answer (or not in ten seconds).
WatchUnhealthy(d) ==
    /\ Watches(d)
    /\ Alive(dLive[d])
    /\ NextCheck(d, wFails[d] + 1)
    /\ IF wFails[d] + 1 >= MaxErrors
       THEN RollbackKills(d)
       ELSE UNCHANGED <<hostVars, wpc>>
    /\ UNCHANGED <<dirVars, scriptVars, envVars, slot, dpc, approved>>

\* Check 3, after a healthy answer: the number of errors in the database, which
\* other programs write.
WatchHealthy(d) ==
    /\ Watches(d)
    /\ Alive(dLive[d])
    /\ Answers("live")
    /\ NextCheck(d, 0)
    /\ \/ RollbackKills(d)
       \/ UNCHANGED <<hostVars, wpc>>
    /\ UNCHANGED <<dirVars, scriptVars, envVars, slot, dpc, approved>>

WatchRestore(d) ==
    /\ wpc[d] = "restore"
    /\ RestoreBackup(d)
    /\ wpc' = [wpc EXCEPT ![d] = "alertRollback"]
    /\ UNCHANGED <<dirVars, scriptVars, wFails, wChecks, envVars, dpc, approved>>

Promote(d) ==
    /\ wpc[d] = "watch"
    /\ wChecks[d] = TotalChecks
    /\ wpc' = [wpc EXCEPT ![d] = "alertPromoted"]
    /\ UNCHANGED <<hostVars, dirVars, scriptVars, wFails, wChecks, envVars, slot, dpc, approved>>

\* The curls that end a watchdog, none with a --max-time: the health of what was
\* restored, the webhook of n8n, /deploy/watchdog-alert of Live.
AlertWaits == CurlWaits("live") \/ n8nHangs

SendAlert(d) ==
    /\ wpc[d] \in Alerting
    /\ ~AlertWaits
    /\ wpc' = [wpc EXCEPT ![d] = IF @ = "alertPromoted" THEN "promoted" ELSE "rolledBack"]
    /\ UNCHANGED <<hostVars, dirVars, scriptVars, wFails, wChecks, envVars, slot, dpc, approved>>

-----------------------------------------------------------------------------
(* The surroundings: commits to the Live checkout and failing servers.      *)

Commit ==
    /\ head < MaxVersion
    /\ head' = head + 1
    /\ UNCHANGED <<hostVars, stagingSrc, stagingBuild, liveBuild, scriptVars, watchVars, envVars, slot, dpc, approved>>

Crash(p) ==
    /\ Alive(p)
    /\ crashes < MaxCrash
    /\ crashes' = crashes + 1
    /\ Signal({p}, {}, {})
    /\ UNCHANGED <<dirVars, scriptVars, watchVars, aborts, n8nHangs, slot, dpc, approved>>

Hang(p) ==
    /\ proc[p] = "run"
    /\ p \notin sick
    /\ crashes < MaxCrash
    /\ crashes' = crashes + 1
    /\ sick' = sick \cup {p}
    /\ UNCHANGED <<proc, ver, nextPid, holder, deaf, dirVars, scriptVars, watchVars, aborts,
                   n8nHangs, slot, dpc, approved>>

N8nHangs ==
    /\ ~n8nHangs
    /\ crashes < MaxCrash
    /\ crashes' = crashes + 1
    /\ n8nHangs' = TRUE
    /\ UNCHANGED <<hostVars, dirVars, scriptVars, watchVars, aborts, slot, dpc, approved>>

\* A busy server comes to its SIGTERM handler, which exits; a blocked one never does.
SlowExits(p) ==
    /\ proc[p] = "term"
    /\ p \notin sick
    /\ Signal({p}, {}, {})
    /\ UNCHANGED <<dirVars, scriptVars, watchVars, envVars, slot, dpc, approved>>

DeployStep(d) ==
    \/ Sync(d) \/ Build(d) \/ KillOldStaging(d) \/ BootStaging(d)
    \/ StagingHealthy(d) \/ StagingDetails(d) \/ NoAnswerInTime(d) \/ StagingUnhealthy(d)
    \/ Backup(d) \/ StopStaging(d) \/ StopLive(d) \/ StartLive(d)
    \/ SwapHealthy(d) \/ SwapUnhealthy(d) \/ EmergencyRestore(d)

WatchStep(d) ==
    \/ WatchFindsDead(d) \/ WatchUnhealthy(d) \/ WatchHealthy(d)
    \/ WatchRestore(d) \/ Promote(d) \/ SendAlert(d)

Next ==
    \/ \E d \in Deploys :
        \/ \E dry \in BOOLEAN : StartDeploy(d, dry)
        \/ DeployStep(d)
        \/ WatchStep(d)
        \/ Abort(d)
    \/ Commit \/ N8nHangs
    \/ \E p \in Pid : Crash(p) \/ Hang(p) \/ SlowExits(p)

Spec == Init /\ [][Next]_vars

\* A script that can go on does: the shell is scheduled and its loops are bounded.
Fairness == \A d \in Deploys : WF_vars(DeployStep(d)) /\ WF_vars(WatchStep(d))

FairSpec == Spec /\ Fairness

-----------------------------------------------------------------------------
(* Properties                                                               *)

\* What a client of the Live port gets is the installed version or one whose
\* staging server has answered its health check (steps 2 to 5b of the script).
ServedWasVerified ==
    holder["live"] # NoPid => ver[holder["live"]] \in approved

\* "Live remains untouched" (deploy-blue-green.sh:192): no step a script makes before
\* its swap, the kill of an older staging server included, takes the Live port from its
\* server or changes the pid file that names it, whatever goes on beside it.
LiveUntouchedBeforeSwap ==
    [][\A d \in Deploys :
        dpc[d] \in PreSwap /\ DeployStep(d)
            => UNCHANGED <<holder["live"], slot["live"]>>]_vars

\* When every script has run to its end, no server is forgotten: one nobody has told to
\* stop is on the Live port, or found it taken when it started and is the one slot-a.pid
\* names; only a watchdog that overlapped a later deployment leaves other such ones.  (One
\* that was told to stop may stay for all that: the scripts ask a hung server in vain.)
NoStrayServer ==
    (/\ aborts = 0
     /\ \A d \in Deploys : dpc[d] \in {"idle"} \cup Ended /\ wpc[d] \notin Watching)
        => \A p \in Pid : proc[p] = "run" =>
            \/ p = holder["live"]
            \/ p \in deaf /\ (p = slot["live"] \/ "watch" \in MayOverlap)

\* A new Live that stops answering while its watchdog still has MaxErrors checks
\* to make does not stay: the watchdog ends it.
HungLiveIsStopped ==
    \A d \in Deploys :
        (/\ wpc[d] = "watch"
         /\ TotalChecks - wChecks[d] >= MaxErrors
         /\ dLive[d] \in sick
         /\ holder["live"] = dLive[d]) ~> ~Alive(dLive[d])

\* Every script and every watchdog comes to an end, unless it is waiting for the answer of
\* a server, or of n8n, that hangs: the five curls without a --max-time.
ScriptsEnd ==
    \A d \in Deploys :
        /\ dpc[d] = "sync" ~>
            \/ dpc[d] \in Ended
            \/ dpc[d] \in {"check", "details"} /\ CurlWaits("staging")
            \/ dpc[d] = "verify" /\ CurlWaits("live")
        /\ wpc[d] = "watch" ~>
            \/ wpc[d] \in {"promoted", "rolledBack"}
            \/ wpc[d] \in Alerting /\ AlertWaits

\* "Backup current Live build for rollback" (deploy-blue-green.sh:224): what a
\* rollback would restore is the version the port serves when the backup is made.
BackupIsServed ==
    [][\A d \in Deploys :
        dpc[d] = "backup" /\ dpc'[d] = "stopStaging" /\ holder["live"] # NoPid
            => backup'[d] \in {NoVersion, ver[holder["live"]]}]_vars

Slot == INSTANCE LiveSlot WITH
    serving <- IF holder["live"] = NoPid THEN NoVersion ELSE ver[holder["live"]]

\* The two scripts implement the promise of LiveSlot.
ImplementsLiveSlot == Slot!Spec
=============================================================================
