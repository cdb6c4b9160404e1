--------------------------- MODULE PluginLifecycle ---------------------------
(***************************************************************************)
(* Installed plugins (modules/plugins/plugins.service,                     *)
(* core/plugins/plugin-loader.service, plugin-sandbox-bridge).             *)
(*                                                                         *)
(* A plugin is a directory, an entry of the registry file and, once        *)
(* loaded, an instance that runs in a worker thread while it is enabled.   *)
(* Install, update and uninstall change all three; the process may be      *)
(* stopped or die between any two of their steps, and boot makes of the    *)
(* directories and the registry what it can.                               *)
(*                                                                         *)
(* One plugin: others share nothing with it.  The requests for one id are  *)
(* serialized; an upload, which is not, is over before the next await.     *)
(* One action is one call on the file system, or the code between two      *)
(* awaits.  The directories are those of the shipped defaults, where a     *)
(* plugin's ctx.storage files sit beside its code.                         *)
(***************************************************************************)
EXTENDS Naturals

CONSTANTS
  Versions,     \* the packages there are of it; none brings ctx.storage files of its own
  Broken,       \* those of them that the loader refuses
  MaxOps,       \* bound: how many requests are made
  MaxFaults,    \* bound: how often something in Faults happens
  Faults        \* the failures of this instance

AllFaults == {"crash", "worker", "fs"}

ASSUME PluginAssumption ==
  /\ Versions \subseteq Nat \ {0} /\ Broken \subseteq Versions
  /\ MaxOps \in Nat /\ MaxFaults \in Nat
  /\ Faults \subseteq AllFaults

VARIABLES
  live,         \* <pluginsDir>/<id>
  bak,          \* .<id>.bak
  new,          \* .<id>.new
  entry,        \* its entry of registry.json
  plugin,       \* its PluginInstance in the loader's map
  worker,       \* whether its worker thread runs
  host,         \* whether sandboxHosts holds the worker's host
  subscribed,   \* whether this worker has subscribed its hook
  hooks,        \* how many shims hookManager holds for it
  up,           \* the process: "boot", "up", "closing" or "down"
  pc,           \* where the request, or boot, is
  op,           \* the request: what, which version, and the plugin as it found it
  teardown,     \* whether the shutdown is stopping the worker
  wanted,       \* (history) the operator's last answered enable or disable
  stored,       \* (history) whether the plugin has stored something
  gap,          \* (history) what has been lost in a known way
  ops, faults   \* how many requests and failures there were

disk == <<live, bak, new>>
hooking == <<subscribed, hooks>>
sandbox == <<worker, host, hooking>>
runtime == <<plugin, sandbox>>
history == <<wanted, stored, gap>>
counts == <<ops, faults>>
vars == <<disk, entry, runtime, up, pc, op, teardown, history, counts>>

\* A directory: whether its manifest and main file are there, and whether it has ctx.storage files.
Dirs == [ver : Versions, whole : BOOLEAN, data : BOOLEAN]
Dir(v, w) == [ver |-> v, whole |-> w, data |-> FALSE]
NoDir == [ver |-> 0, whole |-> FALSE, data |-> FALSE]

Statuses == {"installed", "enabled", "disabled", "error"}
\* enabledByOperator is "unset" in an entry of an older build.
Entries == [status : Statuses, byOperator : {"unset", "on", "off"}]
NoEntry == [status |-> "none", byOperator |-> "unset"]
Plugins == [ver : Versions, status : Statuses]
NoPlugin == [ver |-> 0, status |-> "none"]

\* undo: the update has failed and is being taken back.
Ops == [kind : {"none", "boot", "install", "enable", "disable", "update", "uninstall"}, ver : Versions \cup {0},
        before : Versions \cup {0}, was : BOOLEAN, undo : BOOLEAN, since : Nat]
NoOp(k) == [kind |-> k, ver |-> 0, before |-> 0, was |-> FALSE, undo |-> FALSE, since |-> 0]
Pcs == {"idle", "done", "failed", "stopping", "enabling", "terminating", "forget", "erase", "place", "load", "stage",
        "swap", "away", "in", "copy", "cleanup", "unswap", "revert", "reload", "backup", "staging", "scan", "restore"}
Idle == pc \in {"idle", "done", "failed"}
Await == Idle \/ pc \in {"stopping", "enabling", "terminating"}
Running == up \in {"up", "closing"}

Init ==
  /\ live \in {NoDir} \cup {Dir(v, TRUE) : v \in Versions \ Broken}
  /\ bak = NoDir /\ new = NoDir
  /\ IF live = NoDir THEN entry = NoEntry
     ELSE entry \in [status : {"installed", "enabled"}, byOperator : {"unset"}]
  /\ plugin = NoPlugin /\ worker = FALSE /\ host = FALSE /\ subscribed = FALSE /\ hooks = 0
  /\ up = "down" /\ pc = "idle" /\ op = NoOp("none") /\ teardown = FALSE
  /\ wanted = "none" /\ stored = FALSE /\ gap = {}
  /\ ops = 0 /\ faults = 0

-----------------------------------------------------------------------------
(* What the steps share *)

Spend(f) == f \in Faults /\ faults < MaxFaults /\ faults' = faults + 1 /\ UNCHANGED ops
At(k, l) == op.kind = k /\ pc = l
Goto(l) == pc' = l /\ UNCHANGED op
Undo(l) == pc' = l /\ op' = [op EXCEPT !.undo = TRUE]

\* setPluginStatus and setPluginEnabledByOperator write an entry only if there is one.
Status(s) == IF entry = NoEntry THEN entry ELSE [entry EXCEPT !.status = s]
Decide(e, b) == IF e = NoEntry THEN e ELSE [e EXCEPT !.byOperator = b]

\* rmSync of a directory, file by file: a crash or an error leaves the rest of it.
Torn(d) == {[d EXCEPT !.whole = FALSE, !.data = b] : b \in {FALSE, d.data}}
Removes(d, rest) == IF d.whole THEN rest \in Torn(d) ELSE rest = NoDir

\* enableSandboxed up to its first await.
StartWorker == worker' = TRUE /\ host' = TRUE /\ subscribed' = FALSE /\ UNCHANGED hooks

\* loadPlugin: whether it accepts a directory; it never runs the plugin, and ensureRegistryEntry keeps
\* the operator's decision, or takes it from the status of an older build.
Loadable(d) == d.whole /\ d.ver \notin Broken
Loads(d) == plugin = NoPlugin /\ Loadable(d)
Adopted ==
  IF entry.byOperator # "unset" THEN entry.byOperator ELSE IF entry.status = "enabled" THEN "on" ELSE "off"
Loaded == plugin' = [ver |-> live.ver, status |-> "installed"]
          /\ entry' = [status |-> "installed", byOperator |-> Adopted]

\* loadPlugin, and enablePlugin if it was enabled before.
LoadThen(l) ==
  /\ Loaded /\ UNCHANGED <<wanted, stored, gap>>
  /\ IF op.was THEN StartWorker /\ Goto("enabling") ELSE UNCHANGED sandbox /\ Goto(l)

\* unloadPlugin: disables an enabled plugin first.
UnloadKeeping(l) == pc' = (IF plugin.status = "enabled" THEN "stopping" ELSE l) /\ UNCHANGED plugin
Unload(l) ==
  IF plugin.status = "enabled" THEN pc' = "stopping" /\ UNCHANGED plugin ELSE pc' = l /\ plugin' = NoPlugin

-----------------------------------------------------------------------------
(* The worker *)

\* hook-subscribe, once per worker.
Subscribe ==
  /\ worker /\ ~subscribed /\ Await
  /\ subscribed' = TRUE /\ hooks' = hooks + 1
  /\ UNCHANGED <<disk, entry, plugin, worker, host, up, pc, op, teardown, history, counts>>

\* ctx.storage; what a version stores while its update may still be taken back is not counted.
Store ==
  /\ worker /\ plugin.status = "enabled" /\ Await /\ ~live.data /\ bak = NoDir
  /\ live' = [live EXCEPT !.data = TRUE] /\ stored' = TRUE
  /\ UNCHANGED <<bak, new, entry, runtime, up, pc, op, teardown, wanted, gap, counts>>

\* buildWorkerExitHandler, the worker having died of itself.  While it is being stopped that changes
\* nothing: the stop goes on, and ends, as if it had been terminated.
WorkerExit == worker' = FALSE /\ host' = FALSE /\ hooks' = 0
WorkerDies ==
  /\ worker /\ (Idle \/ pc = "enabling") /\ ~teardown
  /\ Spend("worker") /\ WorkerExit
  /\ plugin' = [plugin EXCEPT !.status = "error"] /\ entry' = Status("error")
  /\ UNCHANGED <<disk, subscribed, up, pc, op, teardown, history>>

\* enablePlugin, once onLoad and onEnable have returned.
EnableSucceeds ==
  /\ pc = "enabling" /\ worker
  /\ plugin' = [plugin EXCEPT !.status = "enabled"]
  /\ \/ /\ op.kind = "enable" /\ Goto("done")
        /\ entry' = Decide(Status("enabled"), "on") /\ wanted' = "on" /\ UNCHANGED up
     \/ op.kind = "boot" /\ Goto("idle") /\ up' = "up" /\ entry' = Status("enabled") /\ UNCHANGED wanted
     \/ /\ op.kind = "update" /\ Goto(IF op.undo THEN "failed" ELSE "cleanup")
        /\ entry' = Status("enabled") /\ UNCHANGED <<up, wanted>>
  /\ UNCHANGED <<disk, sandbox, teardown, stored, gap, counts>>

\* One of them throws or takes too long, or the worker is gone: the worker is terminated, ...
AwaitedForever == pc = "enabling" /\ worker /\ Spend("worker")
WaitEnds == pc = "enabling" /\ IF worker THEN Spend("worker") ELSE UNCHANGED counts
EnableThrows ==
  /\ WaitEnds
  /\ host' = FALSE /\ Goto("terminating")
  /\ UNCHANGED <<disk, entry, plugin, worker, hooking, up, teardown, history>>

\* ... and the plugin is left in ERROR; an update is taken back.
HooksKept == UNCHANGED hooks
HooksDropped == hooks' = 0
EnableFails ==
  /\ pc = "terminating"
  /\ worker' = FALSE /\ HooksDropped /\ entry' = Status("error")
  /\ \/ /\ op.kind = "boot" /\ Goto("idle") /\ up' = "up"
        /\ plugin' = [plugin EXCEPT !.status = "error"]
     \/ /\ op.kind = "enable" \/ op.undo
        /\ Goto("failed") /\ plugin' = [plugin EXCEPT !.status = "error"] /\ UNCHANGED up
     \/ op.kind = "update" /\ ~op.undo /\ Undo("revert") /\ plugin' = NoPlugin /\ UNCHANGED up
  /\ UNCHANGED <<disk, host, subscribed, teardown, history, counts>>

\* teardownSandboxed and the rest of disablePlugin: onDisable, perhaps onUnload, each with its time
\* limit, then the worker is terminated.  The request's and the shutdown's end together: the exit of the
\* worker rejects what the other waits for.
ShutdownAsDecision == Decide(Status("disabled"), "off")
ShutdownStops == Status("disabled")
WorkerStops ==
  /\ Await /\ (pc = "stopping" \/ teardown)
  /\ WorkerExit /\ teardown' = FALSE
  /\ \/ /\ pc # "stopping" /\ UNCHANGED <<pc, op, wanted>>
        /\ plugin' = [plugin EXCEPT !.status = "disabled"] /\ entry' = ShutdownStops
     \/ /\ pc = "stopping" /\ op.kind = "disable" /\ Goto("done") /\ wanted' = "off"
        /\ plugin' = [plugin EXCEPT !.status = "disabled"] /\ entry' = Decide(Status("disabled"), "off")
     \/ /\ pc = "stopping" /\ op.kind # "disable" /\ plugin' = NoPlugin /\ entry' = Status("disabled")
        /\ Goto(IF op.kind = "uninstall" THEN "forget" ELSE IF op.undo THEN "revert" ELSE "swap")
        /\ UNCHANGED wanted
  /\ UNCHANGED <<disk, subscribed, up, stored, gap, counts>>

-----------------------------------------------------------------------------
(* enable, disable, uninstall and install *)

Begin(k, v) ==
  /\ Running /\ Idle /\ ops < MaxOps /\ ops' = ops + 1
  /\ op' = [kind |-> k, ver |-> v, before |-> plugin.ver, was |-> plugin.status = "enabled",
            undo |-> FALSE, since |-> faults]
  /\ UNCHANGED <<up, teardown, faults>>

Enable ==
  /\ plugin # NoPlugin /\ Begin("enable", 0)
  /\ IF plugin.status = "enabled"
     THEN /\ pc' = "done" /\ entry' = Decide(entry, "on") /\ wanted' = "on" /\ UNCHANGED sandbox
     ELSE /\ pc' = "enabling" /\ StartWorker /\ UNCHANGED <<entry, wanted>>
  /\ UNCHANGED <<disk, plugin, stored, gap>>

\* Also of a plugin that is not loaded, if the registry knows it.
Disable ==
  /\ entry # NoEntry /\ Begin("disable", 0)
  /\ IF plugin.status = "enabled" THEN pc' = "stopping" /\ UNCHANGED <<entry, wanted>>
     ELSE pc' = "done" /\ entry' = Decide(entry, "off") /\ wanted' = "off"
  /\ UNCHANGED <<disk, runtime, stored, gap>>

Uninstall ==
  /\ plugin # NoPlugin /\ Begin("uninstall", 0)
  /\ Unload("forget")
  /\ UNCHANGED <<disk, entry, sandbox, history>>

Forget ==
  /\ pc = "forget" /\ Goto("erase")
  /\ entry' = NoEntry /\ wanted' = "none" /\ stored' = FALSE
  /\ UNCHANGED <<disk, runtime, up, teardown, gap, counts>>

Erase ==
  /\ pc = "erase"
  /\ \/ Removes(live, live') /\ Goto(IF live.whole THEN "erase" ELSE "done") /\ UNCHANGED counts
     \/ Spend("fs") /\ Goto("failed") /\ UNCHANGED live
  /\ UNCHANGED <<bak, new, entry, runtime, up, teardown, history>>

Install(v) ==
  /\ plugin = NoPlugin /\ live = NoDir /\ Begin("install", v)
  /\ pc' = "place" /\ live' = Dir(v, FALSE)
  /\ UNCHANGED <<bak, new, entry, runtime, history>>

Place ==
  /\ pc = "place"
  /\ \/ live' = Dir(op.ver, TRUE) /\ Goto("load") /\ UNCHANGED counts
     \/ Spend("fs") /\ live' = NoDir /\ Goto("failed")
  /\ UNCHANGED <<bak, new, entry, runtime, up, teardown, history>>

LoadInstalled ==
  /\ At("install", "load")
  /\ IF Loads(live) THEN LoadThen("done") /\ UNCHANGED live
     ELSE live' = NoDir /\ Goto("failed") /\ UNCHANGED <<entry, runtime, history>>
  /\ UNCHANGED <<bak, new, up, teardown, counts>>

-----------------------------------------------------------------------------
(* updatePackage *)

\* The package is staged before the running plugin is touched.
Update(v) ==
  /\ plugin # NoPlugin /\ Begin("update", v)
  /\ pc' = "stage" /\ new' = Dir(v, FALSE)
  /\ UNCHANGED <<live, bak, entry, runtime, history>>

Stage ==
  /\ pc = "stage"
  /\ \/ /\ new' = Dir(op.ver, TRUE) /\ Unload("swap") /\ UNCHANGED <<op, counts>>
     \/ Spend("fs") /\ new' = NoDir /\ Goto("failed") /\ UNCHANGED plugin
  /\ UNCHANGED <<live, bak, entry, sandbox, up, teardown, history>>

\* The swap: what an earlier one left goes, then two renames, any of which may fail.  The self-heal
\* before it has nothing to do: a plugin that is loaded has its directory.
SwapFails == Spend("fs") /\ Undo("unswap") /\ UNCHANGED disk
ClearBackup ==
  /\ pc = "swap"
  /\ \/ bak # NoDir /\ Removes(bak, bak') /\ UNCHANGED <<live, pc, op, counts>>
     \/ bak = NoDir /\ Goto("away") /\ UNCHANGED <<live, bak, counts>>
     \/ SwapFails
  /\ UNCHANGED <<new, entry, runtime, up, teardown, history>>

MoveAway ==
  /\ pc = "away"
  /\ \/ bak' = live /\ live' = NoDir /\ Goto("in") /\ UNCHANGED counts
     \/ SwapFails
  /\ UNCHANGED <<new, entry, runtime, up, teardown, history>>

MoveIn ==
  /\ pc = "in"
  /\ \/ live' = new /\ new' = NoDir /\ Goto("copy") /\ UNCHANGED <<bak, counts>>
     \/ SwapFails
  /\ UNCHANGED <<entry, runtime, up, teardown, history>>

\* The ctx.storage files of the backup are copied, ...
Copied == live.data \/ bak.data
Copy ==
  /\ pc = "copy"
  /\ \/ live' = [live EXCEPT !.data = Copied] /\ Goto("load") /\ UNCHANGED counts
     \/ Spend("fs") /\ Undo("revert") /\ UNCHANGED live
  /\ UNCHANGED <<bak, new, entry, runtime, up, teardown, history>>

\* ... the new version is loaded, and enabled if the old one was, ...
LoadUpdate ==
  /\ At("update", "load")
  /\ IF Loads(live) THEN LoadThen("cleanup")
     ELSE Undo("revert") /\ UNCHANGED <<entry, runtime, history>>
  /\ UNCHANGED <<disk, up, teardown, counts>>

\* ... and the backup goes.  An error here takes the update back, with what is left of the backup.
Cleanup ==
  /\ pc = "cleanup"
  /\ \/ /\ Removes(bak, bak') /\ Goto(IF bak.whole THEN "cleanup" ELSE "done")
        /\ UNCHANGED <<plugin, gap, counts>>
     \/ /\ Spend("fs") /\ Unload("revert") /\ op' = [op EXCEPT !.undo = TRUE]
        /\ gap' = IF bak.whole THEN gap ELSE gap \cup {"fs"}
        /\ UNCHANGED bak
  /\ UNCHANGED <<live, new, entry, sandbox, up, teardown, wanted, stored>>

\* A failed swap: the backup is put back if the live directory is missing.
Unswap ==
  /\ pc = "unswap"
  /\ \/ /\ IF live = NoDir /\ bak # NoDir THEN live' = bak /\ bak' = NoDir ELSE UNCHANGED <<live, bak>>
        /\ new' = NoDir /\ Goto("reload") /\ UNCHANGED <<gap, counts>>
     \/ Spend("fs") /\ Goto("failed") /\ gap' = gap \cup {"fs"} /\ UNCHANGED disk
  /\ UNCHANGED <<entry, runtime, up, teardown, wanted, stored>>

\* The rollback: the live directory goes and the backup becomes live again.
Revert ==
  /\ pc = "revert"
  /\ \/ live # NoDir /\ Removes(live, live') /\ UNCHANGED <<bak, pc, op, gap, counts>>
     \/ live = NoDir /\ live' = bak /\ bak' = NoDir /\ Goto("reload") /\ UNCHANGED <<gap, counts>>
     \/ Spend("fs") /\ Goto("failed") /\ gap' = gap \cup {"fs"} /\ UNCHANGED <<live, bak>>
  /\ UNCHANGED <<new, entry, runtime, up, teardown, wanted, stored>>

Unloaded ==
  /\ pc = "reload" /\ Goto("failed")
  /\ UNCHANGED <<entry, runtime, history, disk, up, teardown, counts>>
Reload ==
  /\ pc = "reload"
  /\ IF Loads(live) THEN LoadThen("failed") ELSE Goto("failed") /\ UNCHANGED <<entry, runtime, history>>
  /\ UNCHANGED <<disk, up, teardown, counts>>

-----------------------------------------------------------------------------
(* Boot, shutdown and the end of the process *)

Start ==
  /\ up = "down" /\ up' = "boot" /\ pc' = "backup" /\ op' = NoOp("boot")
  /\ UNCHANGED <<disk, entry, runtime, teardown, history, counts>>

\* recoverInterruptedUpdates: a failure is left for the next boot.
AlwaysStale == TRUE
Stale == live # NoDir
RecoverBackup ==
  /\ pc = "backup"
  /\ \/ bak = NoDir /\ Goto("staging") /\ UNCHANGED <<live, bak, gap, counts>>
     \/ /\ bak # NoDir /\ ~Stale /\ Goto("staging")
        /\ live' = bak /\ bak' = NoDir /\ UNCHANGED <<gap, counts>>
     \/ bak # NoDir /\ Stale /\ Removes(bak, bak') /\ UNCHANGED <<live, pc, op, gap, counts>>
     \/ /\ bak # NoDir /\ Spend("fs") /\ Goto("staging")
        /\ gap' = gap \cup {"fs"} /\ UNCHANGED <<live, bak>>
  /\ UNCHANGED <<new, entry, runtime, up, teardown, wanted, stored>>

RecoverStaging ==
  /\ pc = "staging"
  /\ \/ new = NoDir /\ Goto("scan") /\ UNCHANGED <<new, counts>>
     \/ new # NoDir /\ Removes(new, new') /\ UNCHANGED <<pc, op, counts>>
     \/ new # NoDir /\ Spend("fs") /\ Goto("scan") /\ UNCHANGED new
  /\ UNCHANGED <<live, bak, entry, runtime, up, teardown, history>>

\* loadPluginsFromDirectory.  A directory that does not load may or may not have its manifest.
Scan ==
  /\ pc = "scan"
  /\ \/ Loads(live) /\ Loaded /\ Goto("restore")
     \/ ~Loads(live) /\ UNCHANGED <<entry, plugin>> /\ Goto("restore") /\ (live = NoDir \/ ~live.whole)
     \/ ~Loads(live) /\ live # NoDir /\ entry' = Status("error") /\ UNCHANGED plugin /\ Goto("restore")
  /\ UNCHANGED <<disk, sandbox, up, teardown, history, counts>>

\* onApplicationBootstrap; requests are served afterwards.
Restore ==
  /\ pc = "restore"
  /\ IF plugin # NoPlugin /\ entry.byOperator = "on" THEN StartWorker /\ Goto("enabling") /\ UNCHANGED up
     ELSE UNCHANGED sandbox /\ Goto("idle") /\ up' = "up"
  /\ UNCHANGED <<disk, entry, plugin, teardown, history, counts>>

\* onModuleDestroy, while requests may still be under way.
Close ==
  /\ up = "up" /\ Await
  /\ up' = "closing" /\ teardown' = (plugin.status = "enabled")
  /\ UNCHANGED <<disk, entry, runtime, pc, op, history, counts>>

Dies ==
  /\ plugin' = NoPlugin /\ worker' = FALSE /\ host' = FALSE /\ subscribed' = FALSE /\ hooks' = 0
  /\ up' = "down" /\ pc' = "idle" /\ op' = NoOp("none") /\ teardown' = FALSE
  \* What boot, which takes a backup beside a live directory for a leftover, then loses.
  /\ gap' = gap \cup (IF bak # NoDir /\ live # NoDir /\ ~Loadable(live) THEN {"code"} ELSE {})
                \cup (IF bak.data /\ live # NoDir /\ ~live.data THEN {"data"} ELSE {})
  /\ UNCHANGED <<disk, entry, wanted, stored>>
Exit == up = "closing" /\ Await /\ ~teardown /\ Dies /\ UNCHANGED counts
Crash == up # "down" /\ Spend("crash") /\ Dies

-----------------------------------------------------------------------------
(* The specification *)

Proceed ==
  \/ EnableSucceeds \/ EnableThrows \/ EnableFails \/ WorkerStops
  \/ Forget \/ Erase \/ Place \/ LoadInstalled
  \/ Stage \/ ClearBackup \/ MoveAway \/ MoveIn \/ Copy \/ LoadUpdate \/ Cleanup
  \/ Unswap \/ Revert \/ Reload
  \/ RecoverBackup \/ RecoverStaging \/ Scan \/ Restore
Request == Enable \/ Disable \/ Uninstall \/ \E v \in Versions : Install(v) \/ Update(v)

Next == Proceed \/ Request \/ Subscribe \/ Store \/ WorkerDies \/ Start \/ Close \/ Exit \/ Crash

Spec == Init /\ [][Next]_vars

\* File system calls return, and every wait for a worker has a time limit.
Fairness == WF_vars(Proceed) /\ WF_vars(Exit)
FairSpec == Spec /\ Fairness

-----------------------------------------------------------------------------
(* Properties *)

\* A plugin that is enabled again after a failed enable does not subscribe a second shim.
TypeOK ==
  /\ live \in Dirs \cup {NoDir} /\ bak \in Dirs \cup {NoDir} /\ new \in Dirs \cup {NoDir}
  /\ entry \in Entries \cup {NoEntry} /\ plugin \in Plugins \cup {NoPlugin}
  /\ worker \in BOOLEAN /\ host \in BOOLEAN /\ subscribed \in BOOLEAN /\ hooks \in 0..1
  /\ up \in {"boot", "up", "closing", "down"} /\ pc \in Pcs /\ op \in Ops /\ teardown \in BOOLEAN
  /\ wanted \in {"none", "on", "off"} /\ stored \in BOOLEAN /\ gap \subseteq {"code", "data", "fs"}
  /\ ops \in 0..MaxOps /\ faults \in 0..MaxFaults

\* A worker runs exactly for an enabled plugin, the loader can reach it, the registry says the same, and
\* its hook is never registered without it: however enables fail, workers die, and requests
\* overlap the shutdown (enablePlugin, disablePlugin, buildWorkerExitHandler).
EnabledIsRunning ==
  Running /\ Idle /\ ~teardown =>
    /\ worker <=> plugin.status = "enabled"
    /\ host <=> worker
    /\ hooks > 0 => worker
    /\ plugin # NoPlugin => entry.status = plugin.status

\* Between requests, what is loaded is what is on disk (updatePackageInner: "otherwise ... the runtime
\* stays desynced from disk").
RuntimeMatchesDisk == Running /\ Idle /\ plugin # NoPlugin => live.whole /\ live.ver = plugin.ver

\* Loader, registry, hooks, worker and directory agree whenever nothing is under way.
RuntimeAgrees == EnabledIsRunning /\ RuntimeMatchesDisk

\* A plugin the registry lists is loaded, wherever an update was interrupted, but for what a failing
\* file system, or a backup that boot took for a leftover, has cost (recoverInterruptedUpdates).
NeverVanishes == Running /\ Idle /\ entry # NoEntry /\ gap \cap {"code", "fs"} = {} => plugin # NoPlugin

\* What a plugin has stored is still there, with the same exceptions (updatePackageInner: "Restore
\* service-owned state from the backup").
StateKept == Running /\ Idle /\ stored /\ gap = {} => live.data

\* Neither is lost to an update, however it failed or the process died in it, nor to the recovery.
SurvivesUpdates == NeverVanishes /\ StateKept

\* An update is all or nothing: once answered, the new version has replaced the old one and its backup
\* is gone, or the old one is back; and it runs if it ran before and nothing more has failed than
\* what the answer is about.
Causes == (faults - op.since) + (IF op.ver \in Broken THEN 1 ELSE 0)
UpdateAtomic ==
  op.kind = "update" /\ gap = {} =>
    /\ pc = "done" => /\ live.ver = op.ver /\ live.whole /\ bak = NoDir /\ new = NoDir
                      /\ op.was /\ up = "up" /\ faults = op.since => plugin.status = "enabled"
    /\ pc = "failed" => /\ live.ver = op.before /\ live.whole /\ bak = NoDir /\ new = NoDir
                        /\ op.was /\ up = "up" /\ Causes <= 1 => plugin.status = "enabled"

\* The registry holds the operator's last decision, through updates, failures, shutdowns and crashes;
\* boot brings back a plugin switched on, and one switched off runs only if the operator enables it
\* (setOperatorEnabled, ensureRegistryEntry, onApplicationBootstrap).
DecisionHonoured ==
  /\ wanted # "none" => entry.byOperator = wanted
  /\ wanted = "on" /\ op.kind = "boot" /\ Idle /\ up = "up" => plugin.status # "installed"
  /\ wanted = "off" /\ worker => op.kind = "enable"

\* Every request is answered and boot comes to its end, whatever the plugin's code does ("never holds up
\* the gateway"); a shutdown ends too.
RequestsEnd == (~Idle ~> Idle) /\ (up = "closing" ~> up = "down")

=============================================================================
