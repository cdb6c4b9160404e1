-------------------------- MODULE PluginLifecycleProofs --------------------------
(***************************************************************************)
(* Proofs about PluginLifecycle for any packages, broken or not, any       *)
(* failures and any number of requests: the instance, the registry, the    *)
(* worker and the directory agree (RuntimeAgrees), no update loses a       *)
(* plugin or its data (SurvivesUpdates), an update is all or nothing       *)
(* (UpdateAtomic), and the operator's decision is honoured                 *)
(* (DecisionHonoured).                                                     *)
(*                                                                         *)
(* None of them is inductive: they speak of a plugin at rest, and what it  *)
(* is at rest depends on every step of the request before.  The invariant  *)
(* below says what is on the disk, in the registry and in memory at each   *)
(* step, and what a death of the process at that step leaves for boot to   *)
(* find.  Each conjunct is shown to be kept by every action, with what the *)
(* action does to the record it changes stated once, as a lemma.           *)
(***************************************************************************)
EXTENDS PluginLifecycle, TLAPS

-----------------------------------------------------------------------------
(* The inductive invariant *)

(* Which steps each request has. *)
Control ==
  /\ op.kind = "none" => pc = "idle" /\ op = NoOp("none")
  /\ op.kind = "boot" => pc \in {"backup", "staging", "scan", "restore", "enabling", "terminating", "idle"} /\ ~op.was
  /\ op.kind = "install" => pc \in {"place", "load", "done", "failed"} /\ ~op.was /\ op.ver \in Versions
  /\ op.kind = "enable" => pc \in {"enabling", "terminating", "done", "failed"}
  /\ op.kind = "disable" => pc \in {"stopping", "done"}
  /\ op.kind = "uninstall" => pc \in {"stopping", "forget", "erase", "done", "failed"}
  /\ op.kind = "update" =>
       /\ op.ver \in Versions /\ op.before \in Versions \ Broken
       /\ pc \in IF op.undo THEN {"stopping", "unswap", "revert", "reload", "enabling", "terminating", "failed"}
                 ELSE {"stage", "stopping", "swap", "away", "in", "copy", "load", "enabling", "terminating", "cleanup",
                       "done", "failed"}
       /\ pc \in {"enabling", "terminating"} => op.was
  /\ op.undo => op.kind = "update"
  /\ up = "down" <=> op.kind = "none"
  /\ up = "boot" <=> op.kind = "boot" /\ pc # "idle"

(* When the plugin is loaded, ... *)
Registered ==
  /\ up = "down" \/ pc \in {"forget", "erase", "place", "load", "swap", "away", "in", "copy", "unswap", "revert", "reload",
                            "backup", "staging", "scan"} => plugin = NoPlugin
  /\ pc \in {"stopping", "enabling", "terminating", "stage", "cleanup"} => plugin # NoPlugin
  /\ plugin # NoPlugin => entry # NoEntry /\ entry.status = plugin.status
  /\ plugin # NoPlugin => Loadable(live) /\ live.ver = plugin.ver

(* ... and when its worker runs. *)
Sandboxed ==
  /\ plugin.status = "enabled" =>
       worker /\ host /\ pc \in {"idle", "done", "failed", "stopping", "stage", "cleanup"}
  /\ pc = "stopping" => plugin.status = "enabled"
  /\ worker => plugin.status = "enabled" \/ pc \in {"enabling", "terminating"}
  /\ host => worker
  /\ pc = "enabling" /\ worker => host
  /\ pc = "terminating" => ~host
  /\ hooks > 0 => worker /\ subscribed
  /\ teardown => up = "closing" /\ plugin.status = "enabled"

Loader == Registered /\ Sandboxed

(* What an update has on the disk at each of its steps; the backup only while no failing file system *)
(* has left one behind. *)
OldIn(d) == Loadable(d) /\ d.ver = op.before
NewIn(d) == d.whole /\ d.ver = op.ver
Swapping ==
  op.kind = "update" =>
    /\ pc = "stage" => OldIn(live)
    /\ pc = "stopping" /\ ~op.undo => OldIn(live) /\ new = Dir(op.ver, TRUE)
    /\ pc \in {"swap", "away"} => OldIn(live) /\ new = Dir(op.ver, TRUE)
    /\ pc = "away" => bak = NoDir
    /\ pc = "in" => live = NoDir /\ OldIn(bak) /\ new = Dir(op.ver, TRUE)
    /\ pc \in {"copy", "load"} => NewIn(live) /\ OldIn(bak) /\ new = NoDir
    /\ pc \in {"enabling", "terminating"} /\ ~op.undo => NewIn(live) /\ OldIn(bak) /\ new = NoDir
    /\ pc = "cleanup" => NewIn(live) /\ new = NoDir /\ (bak.whole => OldIn(bak))
    /\ pc = "done" => NewIn(live) /\ bak = NoDir /\ new = NoDir
    /\ pc = "unswap" => IF live = NoDir THEN OldIn(bak) ELSE OldIn(live)
    /\ pc \in {"revert", "reload"} => new = NoDir
    /\ op.undo /\ pc \in {"stopping", "enabling", "terminating"} => new = NoDir
    /\ pc = "failed" /\ "fs" \notin gap => OldIn(live) /\ new = NoDir
    /\ pc = "stopping" /\ op.undo /\ "fs" \notin gap => OldIn(bak)
    /\ pc = "revert" /\ "fs" \notin gap => OldIn(bak)
    /\ pc = "reload" /\ "fs" \notin gap => OldIn(live)
    /\ op.undo /\ pc \in {"enabling", "terminating"} /\ "fs" \notin gap => OldIn(live)

(* Outside the swap there is no backup, unless a failing file system has left one. *)
NoBackup ==
  "fs" \notin gap /\ up # "down" /\ bak # NoDir =>
    \/ pc = "backup"
    \/ /\ op.kind = "update"
       /\ \/ pc \in {"in", "copy", "load", "cleanup", "revert"}
          \/ pc = "unswap" /\ live = NoDir
          \/ pc \in {"enabling", "terminating"} /\ ~op.undo
          \/ pc = "stopping" /\ op.undo

(* What boot will find: a backup that it will take for a leftover costs nothing that is not in gap. *)
Recovery ==
  up = "down" \/ pc = "backup" =>
    /\ "code" \notin gap /\ bak # NoDir /\ live # NoDir => Loadable(live)
    /\ "data" \notin gap /\ bak.data /\ live # NoDir => live.data

(* A plugin in the registry is on the disk, as it is or as its backup; so is what it has stored. *)
Present ==
  /\ entry # NoEntry /\ gap \cap {"code", "fs"} = {} => Loadable(live) \/ Loadable(bak)
  /\ entry # NoEntry /\ plugin = NoPlugin /\ gap \cap {"code", "fs"} = {} =>
       /\ pc \notin {"done", "failed", "place", "erase", "restore"}
       /\ pc = "idle" => up = "down"
       /\ pc = "load" => op.kind = "update"
Kept ==
  stored /\ gap = {} =>
    /\ live.data \/ bak.data
    /\ op.kind = "install" => pc \in {"done", "failed"}
    /\ pc \notin {"erase"}
    /\ pc \in {"load", "cleanup"} => live.data
    /\ op.kind = "update" /\ ~op.undo /\ pc \in {"enabling", "terminating"} => live.data
    /\ op.kind = "update" /\ bak.whole => bak.data

(* Nothing runs against the operator's decision. *)
Wish ==
  /\ wanted # "none" => entry.byOperator = wanted
  /\ wanted = "off" =>
       /\ plugin.status # "enabled"
       /\ pc \in {"enabling", "terminating"} => op.kind = "enable"
       /\ op.kind = "update" /\ op.was => Idle
  /\ wanted = "on" /\ op.kind = "boot" /\ pc = "idle" => plugin.status # "installed"

(* Every undone update has a cause, and every plugin an update does not bring back has one more. *)
Caused ==
  op.kind = "update" =>
    /\ op.since <= faults
    /\ op.undo \/ pc = "failed" => Causes >= 1
    /\ op.was /\ pc \in {"stage", "cleanup"} => plugin.status = "enabled"
    /\ pc = "terminating" \/ (pc = "enabling" /\ ~worker) => faults > op.since /\ (op.undo => Causes >= 2)
    /\ pc = "done" /\ op.was /\ up = "up" /\ faults = op.since => plugin.status = "enabled"
    /\ gap = {} /\ pc = "failed" /\ op.was /\ up = "up" /\ Causes <= 1 => plugin.status = "enabled"

IInv == TypeOK /\ Control /\ Loader /\ Swapping /\ NoBackup /\ Recovery /\ Present /\ Kept /\ Wish /\ Caused
USE PluginAssumption
USE DEF disk, hooking, sandbox, runtime, history, counts, Goto

-----------------------------------------------------------------------------
(* Directories, entries, instances and requests *)

Dir0 == Dirs \cup {NoDir}
Entry0 == Entries \cup {NoEntry}
Plugin0 == Plugins \cup {NoPlugin}

(* A directory that is there is told from one that is not by its package. *)
LEMMA DirFacts ==
  /\ ~NoDir.whole /\ ~NoDir.data /\ NoDir.ver = 0 /\ NoDir \notin Dirs
  /\ \A d \in Dirs : d # NoDir /\ d.ver \in Versions /\ d.ver # 0 /\ d.whole \in BOOLEAN /\ d.data \in BOOLEAN
BY DEF Dirs, NoDir

(* A staged package is whole, of its version and without stored data; half of one is not whole. *)
LEMMA NewDir ==
  ASSUME NEW v \in Versions
  PROVE  /\ Dir(v, TRUE) \in Dirs /\ Dir(v, TRUE).ver = v /\ Dir(v, TRUE).whole /\ ~Dir(v, TRUE).data
         /\ Dir(v, FALSE) \in Dirs /\ Dir(v, FALSE).ver = v /\ ~Dir(v, FALSE).whole /\ ~Dir(v, FALSE).data
BY DEF Dirs, Dir

(* A write of ctx.storage changes nothing else of the directory (createStorage). *)
LEMMA StoreFacts ==
  ASSUME live \in Dirs
  PROVE  LET e == [live EXCEPT !.data = TRUE]
         IN e \in Dirs /\ e.ver = live.ver /\ (e.whole <=> live.whole) /\ e.data
BY DEF Dirs

(* copyInstance leaves the new version's code as it is, and brings the data of the old. *)
LEMMA CopyFacts ==
  ASSUME live \in Dirs
  PROVE  LET e == [live EXCEPT !.data = Copied]
         IN e \in Dirs /\ e.ver = live.ver /\ (e.whole <=> live.whole) /\ (e.data <=> live.data \/ bak.data)
BY DEF Dirs, Copied

(* What a recursive removal leaves when it dies half way is never whole and never gains data. *)
LEMMA TornFacts ==
  ASSUME NEW d \in Dirs, NEW e \in Torn(d)
  PROVE  e \in Dirs /\ e.ver = d.ver /\ ~e.whole /\ (e.data => d.data)
BY DEF Dirs, Torn

(* A removal takes a whole directory apart before it is gone, and ends with what it took apart. *)
LEMMA RemovesFacts ==
  ASSUME NEW d \in Dir0, NEW e, Removes(d, e)
  PROVE  /\ e \in Dir0 /\ ~e.whole /\ (e.data => d.data)
         /\ d.whole => e # NoDir
         /\ ~d.whole => e = NoDir
BY TornFacts, DirFacts DEF Removes, Dir0

(* The absence of an entry is no entry, and has no decision in it. *)
LEMMA EntryFacts ==
  /\ NoEntry.byOperator = "unset" /\ NoEntry.status = "none" /\ NoEntry \notin Entries
  /\ \A e \in Entries : e # NoEntry
BY DEF NoEntry, Entries, Statuses

(* Setting the status of an entry keeps its decision. *)
LEMMA StatusOf ==
  ASSUME NEW e \in Entries, NEW s \in Statuses
  PROVE  LET f == [e EXCEPT !.status = s] IN f \in Entries /\ f.status = s /\ f.byOperator = e.byOperator
BY DEF Entries

(* Recording a decision keeps the status, and makes no entry where there is none. *)
LEMMA DecideOf ==
  ASSUME NEW e \in Entry0, NEW o \in {"on", "off"}
  PROVE  /\ Decide(e, o) \in Entry0 /\ (Decide(e, o) = NoEntry <=> e = NoEntry) /\ Decide(e, o).status = e.status
         /\ e # NoEntry => Decide(e, o).byOperator = o
<1>1. CASE e = NoEntry BY <1>1 DEF Decide
<1>2. CASE e # NoEntry
  <2>1. LET f == [e EXCEPT !.byOperator = o] IN f \in Entries /\ f.status = e.status /\ f.byOperator = o
    BY <1>2 DEF Entry0, Entries
  <2> QED BY <1>2, <2>1, EntryFacts DEF Decide, Entry0
<1> QED BY <1>1, <1>2

(* setPluginStatus and setPluginEnabledByOperator change one column of an entry there is. *)
LEMMA StatusFacts ==
  ASSUME entry \in Entry0, NEW s \in Statuses
  PROVE  /\ Status(s) \in Entry0 /\ (Status(s) = NoEntry <=> entry = NoEntry)
         /\ entry # NoEntry => Status(s).status = s
         /\ Status(s).byOperator = entry.byOperator
<1>1. CASE entry = NoEntry BY <1>1 DEF Status
<1>2. CASE entry # NoEntry BY <1>2, StatusOf, EntryFacts DEF Status, Entry0
<1> QED BY <1>1, <1>2

(* The two together, as enable and disable make them for a request. *)
LEMMA DecideFacts ==
  ASSUME entry \in Entry0, NEW s \in Statuses, NEW o \in {"on", "off"}
  PROVE  LET f == Decide(Status(s), o)
         IN  /\ f \in Entry0 /\ (f = NoEntry <=> entry = NoEntry)
             /\ entry # NoEntry => f.status = s /\ f.byOperator = o
BY StatusFacts, DecideOf

(* A load registers the plugin as installed and adopts the decision the registry holds. *)
LEMMA AdoptedFacts ==
  ASSUME entry \in Entry0
  PROVE  LET e == [status |-> "installed", byOperator |-> Adopted]
         IN  /\ e \in Entries /\ e # NoEntry /\ e.status = "installed"
             /\ entry.byOperator # "unset" => e.byOperator = entry.byOperator
BY DEF Adopted, Entry0, Entries, NoEntry, Statuses

(* The absence of an instance is no instance, and setting the status of one keeps its version. *)
LEMMA PluginFacts ==
  /\ NoPlugin.ver = 0 /\ NoPlugin.status = "none" /\ NoPlugin \notin Plugins
  /\ \A p \in Plugins : p # NoPlugin /\ p.ver \in Versions /\ p.status \in Statuses
  /\ \A v \in Versions, s \in Statuses :
       [ver |-> v, status |-> s] \in Plugins
  /\ \A p \in Plugins, s \in Statuses :
       [p EXCEPT !.status = s] \in Plugins /\ [p EXCEPT !.status = s].ver = p.ver /\ [p EXCEPT !.status = s].status = s
BY DEF Plugins, NoPlugin, Statuses

(* Taking an update back changes nothing else of the request. *)
LEMMA OpFacts ==
  ASSUME op \in Ops
  PROVE  LET o == [op EXCEPT !.undo = TRUE]
         IN  /\ o \in Ops /\ o.undo
             /\ o.kind = op.kind /\ o.ver = op.ver /\ o.before = op.before /\ o.was = op.was /\ o.since = op.since
BY DEF Ops

(* No request is of one of these kinds. *)
LEMMA NoOpFacts ==
  ASSUME NEW k \in {"none", "boot"}
  PROVE  NoOp(k) \in Ops /\ NoOp(k).kind = k /\ ~NoOp(k).undo /\ ~NoOp(k).was
BY DEF Ops, NoOp

(* What a request records as it begins. *)
LEMMA BeginFacts ==
  ASSUME TypeOK, NEW k \in {"install", "enable", "disable", "update", "uninstall"}, NEW v \in Versions \cup {0}, Begin(k, v)
  PROVE  /\ op' \in Ops /\ op'.kind = k /\ op'.ver = v /\ op'.before = plugin.ver
         /\ (op'.was <=> plugin.status = "enabled") /\ ~op'.undo /\ op'.since = faults
         /\ ops' \in 0..MaxOps /\ faults' = faults
<1>1. plugin.ver \in Versions \cup {0} BY PluginFacts DEF TypeOK
<1>2. faults \in Nat /\ ops \in Nat BY DEF TypeOK
<1>3. op'.was = (plugin.status = "enabled") BY DEF Begin
<1>4. op'.was <=> plugin.status = "enabled" BY <1>3
<1>5. op' \in Ops BY <1>1, <1>2 DEF Begin, Ops
<1> QED BY <1>2, <1>4, <1>5 DEF Begin, TypeOK

(* The fields of what is typed. *)
LEMMA TypeFacts ==
  ASSUME TypeOK
  PROVE  /\ live \in Dir0 /\ bak \in Dir0 /\ new \in Dir0 /\ entry \in Entry0 /\ plugin \in Plugin0 /\ op \in Ops
         /\ op.kind \in {"none", "boot", "install", "enable", "disable", "update", "uninstall"}
         /\ op.ver \in Versions \cup {0} /\ op.before \in Versions \cup {0} /\ op.since \in Nat
         /\ op.was \in BOOLEAN /\ op.undo \in BOOLEAN
         /\ faults \in Nat /\ ops \in Nat /\ hooks \in Nat /\ wanted \in {"none", "on", "off"}
BY DEF TypeOK, Dir0, Entry0, Plugin0, Ops

(* A request begins only in a running process that serves no other. *)
LEMMA BeginGuard ==
  ASSUME NEW k, NEW v, Begin(k, v)
  PROVE  Running /\ Idle /\ UNCHANGED <<up, teardown, faults>>
BY DEF Begin

(* Which request is at which step. *)
LEMMA ControlFacts ==
  ASSUME TypeOK, Control
  PROVE  /\ pc # "idle" => up # "down"
         /\ pc = "place" => op.kind = "install" /\ op.ver \in Versions
         /\ pc \in {"stage", "swap", "away", "in", "copy", "cleanup"} =>
              op.kind = "update" /\ ~op.undo /\ op.ver \in Versions
         /\ pc \in {"unswap", "revert", "reload"} => op.kind = "update" /\ op.undo /\ op.ver \in Versions
         /\ pc \in {"forget", "erase"} => op.kind = "uninstall"
         /\ pc \in {"backup", "staging", "scan", "restore"} => op.kind = "boot" /\ up = "boot"
         /\ pc = "load" => op.kind \in {"install", "update"}
         /\ pc = "stopping" => op.kind \in {"disable", "uninstall", "update"}
         /\ pc \in {"enabling", "terminating"} => op.kind \in {"boot", "enable", "update"}
BY TypeFacts DEF Control

(* Setting the status of a loaded plugin keeps it loaded, at its version. *)
LEMMA PluginStatus ==
  ASSUME plugin \in Plugin0, plugin # NoPlugin, NEW s \in Statuses
  PROVE  LET p == [plugin EXCEPT !.status = s]
         IN p \in Plugin0 /\ p # NoPlugin /\ p.ver = plugin.ver /\ p.status = s
BY PluginFacts DEF Plugin0

(* What is loaded from a directory has the version of its code. *)
LEMMA LoadedFacts ==
  ASSUME live \in Dir0, Loadable(live)
  PROVE  LET p == [ver |-> live.ver, status |-> "installed"]
         IN live \in Dirs /\ p \in Plugin0 /\ p # NoPlugin /\ p.ver = live.ver /\ p.status = "installed"
<1>1. live \in Dirs BY DirFacts DEF Loadable, Dir0
<1>2. live.ver \in Versions BY <1>1, DirFacts
<1> QED BY <1>1, <1>2 DEF Plugin0, Plugins, NoPlugin, Statuses

(* Whenever its worker may be stopped or has just failed, the plugin is loaded. *)
LEMMA LoaderFacts ==
  ASSUME TypeOK, Loader
  PROVE  /\ plugin.status \in Statuses \/ plugin = NoPlugin
         /\ plugin # NoPlugin => plugin \in Plugins /\ plugin.ver \in Versions
         /\ plugin.status = "enabled" => plugin # NoPlugin
         /\ pc \in {"stopping", "enabling", "terminating", "stage", "cleanup"} => plugin # NoPlugin
         /\ teardown => plugin # NoPlugin
         /\ worker => plugin # NoPlugin
BY TypeFacts, PluginFacts DEF Loader, Registered, Sandboxed, Plugin0

(* loadPlugin, and the start of enablePlugin. *)
LEMMA LoadedMeans ==
  ASSUME TypeOK, Loadable(live), Loaded
  PROVE  /\ live \in Dirs /\ plugin' \in Plugin0 /\ plugin' # NoPlugin /\ plugin'.ver = live.ver /\ plugin'.status = "installed"
         /\ entry' \in Entries /\ entry' # NoEntry /\ entry'.status = "installed"
         /\ entry.byOperator # "unset" => entry'.byOperator = entry.byOperator
BY TypeFacts, LoadedFacts, AdoptedFacts DEF Loaded

(* After a load the worker is started again if it ran before the update, and only then. *)
LEMMA LoadThenMeans ==
  ASSUME TypeOK, NEW l, LoadThen(l)
  PROVE  /\ Loaded /\ UNCHANGED <<wanted, stored, gap, hooks, op>>
         /\ op.was => pc' = "enabling" /\ worker' /\ host' /\ ~subscribed'
         /\ ~op.was => pc' = l /\ UNCHANGED <<worker, host, subscribed>>
<1>1. CASE op.was BY <1>1 DEF LoadThen, StartWorker
<1>2. CASE ~op.was BY <1>2 DEF LoadThen
<1> QED BY <1>1, <1>2 DEF LoadThen

(* teardownSandboxed ends, for the shutdown, a disable, or an unload. *)
LEMMA WorkerStopsMeans ==
  ASSUME TypeOK, Loader, WorkerStops
  PROVE  /\ ~worker' /\ ~host' /\ hooks' = 0 /\ ~teardown' /\ UNCHANGED <<disk, up, stored, gap, counts, op>>
         /\ plugin # NoPlugin /\ plugin.status = "enabled" /\ entry # NoEntry
         /\ entry' \in Entries /\ entry' # NoEntry /\ entry'.status = "disabled"
         /\ plugin' # NoPlugin => plugin'.ver = plugin.ver /\ plugin'.status = "disabled"
         /\ \/ pc # "stopping" /\ Await /\ teardown /\ plugin' # NoPlugin /\ UNCHANGED <<pc, wanted>>
               /\ entry'.byOperator = entry.byOperator
            \/ pc = "stopping" /\ op.kind = "disable" /\ plugin' # NoPlugin /\ pc' = "done" /\ wanted' = "off"
               /\ entry'.byOperator = "off"
            \/ pc = "stopping" /\ op.kind # "disable" /\ plugin' = NoPlugin /\ UNCHANGED wanted
               /\ pc' = (IF op.kind = "uninstall" THEN "forget" ELSE IF op.undo THEN "revert" ELSE "swap")
               /\ entry'.byOperator = entry.byOperator
<1>1. plugin # NoPlugin /\ plugin.status = "enabled" /\ entry # NoEntry
  BY LoaderFacts, PluginFacts DEF WorkerStops, Loader, Registered, Sandboxed
<1>2. LET p == [plugin EXCEPT !.status = "disabled"]
      IN p # NoPlugin /\ p.ver = plugin.ver /\ p.status = "disabled"
  BY <1>1, TypeFacts, PluginStatus DEF Statuses
<1>3. /\ Status("disabled") \in Entries /\ Status("disabled") # NoEntry /\ Status("disabled").status = "disabled"
      /\ Status("disabled").byOperator = entry.byOperator
  BY <1>1, TypeFacts, StatusFacts DEF Statuses, Entry0
<1>4. LET e == Decide(Status("disabled"), "off")
      IN e \in Entries /\ e # NoEntry /\ e.status = "disabled" /\ e.byOperator = "off"
  BY <1>1, TypeFacts, DecideFacts DEF Statuses, Entry0
<1> QED BY <1>1, <1>2, <1>3, <1>4 DEF WorkerStops, WorkerExit, ShutdownStops

(* enablePlugin succeeds, for a request, for boot, or for an update. *)
LEMMA EnableSucceedsMeans ==
  ASSUME TypeOK, Loader, EnableSucceeds
  PROVE  /\ pc = "enabling" /\ worker /\ UNCHANGED <<disk, sandbox, teardown, stored, gap, counts, op>>
         /\ plugin # NoPlugin /\ plugin' # NoPlugin /\ plugin'.ver = plugin.ver /\ plugin'.status = "enabled"
         /\ entry # NoEntry /\ entry' \in Entries /\ entry' # NoEntry /\ entry'.status = "enabled"
         /\ \/ op.kind = "enable" /\ pc' = "done" /\ UNCHANGED up /\ wanted' = "on" /\ entry'.byOperator = "on"
            \/ op.kind = "boot" /\ pc' = "idle" /\ up' = "up" /\ UNCHANGED wanted /\ entry'.byOperator = entry.byOperator
            \/ op.kind = "update" /\ pc' = (IF op.undo THEN "failed" ELSE "cleanup") /\ UNCHANGED <<up, wanted>>
               /\ entry'.byOperator = entry.byOperator
<1>1. plugin # NoPlugin /\ entry # NoEntry
  BY LoaderFacts DEF EnableSucceeds, Loader, Registered
<1>2. LET p == [plugin EXCEPT !.status = "enabled"]
      IN p # NoPlugin /\ p.ver = plugin.ver /\ p.status = "enabled"
  BY <1>1, TypeFacts, PluginStatus DEF Statuses
<1>3. /\ Status("enabled") \in Entries /\ Status("enabled") # NoEntry /\ Status("enabled").status = "enabled"
      /\ Status("enabled").byOperator = entry.byOperator
  BY <1>1, TypeFacts, StatusFacts DEF Statuses, Entry0
<1>4. LET e == Decide(Status("enabled"), "on")
      IN e \in Entries /\ e # NoEntry /\ e.status = "enabled" /\ e.byOperator = "on"
  BY <1>1, TypeFacts, DecideFacts DEF Statuses, Entry0
<1> QED BY <1>1, <1>2, <1>3, <1>4 DEF EnableSucceeds

(* The worker that did not come up is gone, and the plugin is in ERROR or, in an update, unloaded. *)
LEMMA EnableFailsMeans ==
  ASSUME TypeOK, Loader, EnableFails
  PROVE  /\ pc = "terminating" /\ ~worker' /\ hooks' = 0 /\ UNCHANGED <<disk, host, subscribed, teardown, history, counts>>
         /\ plugin # NoPlugin /\ entry # NoEntry /\ entry' \in Entries /\ entry' # NoEntry /\ entry'.status = "error"
         /\ entry'.byOperator = entry.byOperator
         /\ plugin' # NoPlugin => plugin'.ver = plugin.ver /\ plugin'.status = "error"
         /\ op'.kind = op.kind /\ op'.ver = op.ver /\ op'.before = op.before /\ op'.was = op.was /\ op'.since = op.since
         /\ \/ op.kind = "boot" /\ pc' = "idle" /\ up' = "up" /\ plugin' # NoPlugin /\ op' = op
            \/ (op.kind = "enable" \/ op.undo) /\ pc' = "failed" /\ UNCHANGED up /\ plugin' # NoPlugin /\ op' = op
            \/ op.kind = "update" /\ ~op.undo /\ op'.undo /\ pc' = "revert" /\ UNCHANGED up /\ plugin' = NoPlugin
<1>1. plugin # NoPlugin /\ entry # NoEntry
  BY LoaderFacts DEF EnableFails, Loader, Registered
<1>2. LET p == [plugin EXCEPT !.status = "error"]
      IN p # NoPlugin /\ p.ver = plugin.ver /\ p.status = "error"
  BY <1>1, TypeFacts, PluginStatus DEF Statuses
<1>3. /\ Status("error") \in Entries /\ Status("error") # NoEntry /\ Status("error").status = "error"
      /\ Status("error").byOperator = entry.byOperator
  BY <1>1, TypeFacts, StatusFacts DEF Statuses, Entry0
<1>4. CASE op.kind = "boot"
  BY <1>4, <1>1, <1>2, <1>3 DEF EnableFails, HooksDropped
<1>5. CASE (op.kind = "enable" \/ op.undo)
  BY <1>5, <1>1, <1>2, <1>3 DEF EnableFails, HooksDropped
<1>6. CASE op.kind = "update" /\ ~op.undo
  BY <1>6, <1>1, <1>2, <1>3, TypeFacts, OpFacts DEF EnableFails, HooksDropped, Undo
<1> QED BY <1>4, <1>5, <1>6 DEF EnableFails

(* A worker that dies takes its hooks with it and leaves its plugin in ERROR. *)
LEMMA WorkerDiesMeans ==
  ASSUME TypeOK, Loader, WorkerDies
  PROVE  /\ worker /\ (Idle \/ pc = "enabling") /\ ~teardown /\ ~worker' /\ ~host' /\ hooks' = 0
         /\ UNCHANGED <<disk, subscribed, up, pc, op, teardown, history>> /\ faults' = faults + 1
         /\ plugin # NoPlugin /\ plugin' # NoPlugin /\ plugin'.ver = plugin.ver /\ plugin'.status = "error"
         /\ entry # NoEntry /\ entry' \in Entries /\ entry' # NoEntry /\ entry'.status = "error"
         /\ entry'.byOperator = entry.byOperator
<1>1. plugin # NoPlugin /\ entry # NoEntry
  BY LoaderFacts DEF WorkerDies, Loader, Registered
<1>2. LET p == [plugin EXCEPT !.status = "error"]
      IN p # NoPlugin /\ p.ver = plugin.ver /\ p.status = "error"
  BY <1>1, TypeFacts, PluginStatus DEF Statuses
<1>3. /\ Status("error") \in Entries /\ Status("error") # NoEntry /\ Status("error").status = "error"
      /\ Status("error").byOperator = entry.byOperator
  BY <1>1, TypeFacts, StatusFacts DEF Statuses, Entry0
<1> QED BY <1>1, <1>2, <1>3 DEF WorkerDies, WorkerExit, Spend

(* An update that is taken back stays the same update. *)
LEMMA UndoMeans ==
  ASSUME TypeOK, NEW l, Undo(l)
  PROVE  /\ pc' = l /\ op'.undo /\ op'.kind = op.kind /\ op'.ver = op.ver /\ op'.before = op.before
         /\ op'.was = op.was /\ op'.since = op.since
BY TypeFacts, OpFacts DEF Undo

(* A failure is one of the instance, and is counted. *)
LEMMA SpendMeans ==
  ASSUME NEW f, Spend(f)
  PROVE  f \in Faults /\ faults' = faults + 1
BY DEF Spend

(* A step of the swap that fails leaves the disk as it was. *)
LEMMA SwapFailsMeans ==
  ASSUME TypeOK, SwapFails
  PROVE  /\ Undo("unswap") /\ faults' = faults + 1 /\ UNCHANGED disk
BY DEF SwapFails, Spend

(* A process that dies loses all that was in memory; the gap names what boot will not find. *)
LEMMA DiesMeans ==
  ASSUME Dies
  PROVE  /\ plugin' = NoPlugin /\ plugin'.status = "none" /\ ~worker' /\ ~host' /\ ~subscribed' /\ hooks' = 0 /\ ~teardown'
         /\ up' = "down" /\ pc' = "idle" /\ op' = NoOp("none") /\ op'.kind = "none" /\ ~op'.undo /\ ~op'.was
         /\ UNCHANGED <<disk, entry, wanted, stored>>
         /\ gap \subseteq gap'
         /\ bak # NoDir /\ live # NoDir /\ ~Loadable(live) => "code" \in gap'
         /\ bak.data /\ live # NoDir /\ ~live.data => "data" \in gap'
<1>1. plugin' = NoPlugin /\ op' = NoOp("none") BY DEF Dies
<1>2. bak # NoDir /\ live # NoDir /\ ~Loadable(live) => "code" \in gap' BY DEF Dies
<1>3. bak.data /\ live # NoDir /\ ~live.data => "data" \in gap' BY DEF Dies
<1>4. gap \subseteq gap' BY DEF Dies
<1>5. op'.kind = "none" /\ ~op'.undo /\ ~op'.was BY <1>1, NoOpFacts
<1> QED BY <1>1, <1>2, <1>3, <1>4, <1>5, PluginFacts DEF Dies

\* An update that has been taken back is the same update.
Undone ==
  /\ op'.undo /\ op'.kind = op.kind /\ op'.ver = op.ver /\ op'.before = op.before
  /\ op'.was = op.was /\ op'.since = op.since

(* Only an enabled plugin whose directory can be loaded stores anything, and never during a swap. *)
LEMMA StoreMeans ==
  ASSUME TypeOK, Loader, Store
  PROVE  /\ live' \in Dirs /\ live'.ver = live.ver /\ live'.whole /\ live.whole /\ live'.data /\ bak = NoDir
         /\ live' # NoDir /\ live # NoDir
         /\ Loadable(live) /\ Loadable(live')
         /\ worker /\ plugin # NoPlugin /\ plugin.status = "enabled" /\ stored' /\ Await
         /\ UNCHANGED <<bak, new, entry, runtime, up, pc, op, teardown, wanted, gap, counts>>
<1>1. plugin.status = "enabled" /\ plugin # NoPlugin BY LoaderFacts DEF Store
<1>2. Loadable(live) BY <1>1 DEF Loader, Registered
<1>3. live \in Dirs BY <1>2, TypeFacts, LoadedFacts
<1>4. live'.ver = live.ver /\ (live'.whole <=> live.whole) /\ live'.data /\ live' \in Dirs
  BY <1>3, StoreFacts DEF Store
<1> QED BY <1>1, <1>2, <1>3, <1>4, DirFacts DEF Store, Loadable

(* loadPlugin of an update, of a rollback and of an install. *)
Loading(l) ==
  /\ Loadable(live) /\ op' = op
  /\ plugin' # NoPlugin /\ plugin'.ver = live.ver /\ plugin'.status = "installed"
  /\ entry' \in Entries /\ entry' # NoEntry /\ entry'.status = "installed"
  /\ entry.byOperator # "unset" => entry'.byOperator = entry.byOperator
  /\ op.was => pc' = "enabling" /\ worker' /\ host' /\ ~subscribed'
  /\ ~op.was => pc' = l /\ UNCHANGED <<worker, host, subscribed>>
  /\ UNCHANGED <<hooks, wanted, stored, gap>>

(* A load that the directory allows does these things. *)
LEMMA LoadingMeans ==
  ASSUME TypeOK, NEW l, Loads(live), LoadThen(l)
  PROVE  Loading(l)
BY LoadedMeans, LoadThenMeans DEF Loading, Loads

(* The load of the new version goes on to the cleanup, or takes the update back. *)
LEMMA LoadUpdateMeans ==
  ASSUME TypeOK, Control, Loader, LoadUpdate
  PROVE  /\ op.kind = "update" /\ ~op.undo /\ pc = "load" /\ plugin = NoPlugin /\ UNCHANGED <<disk, up, teardown, counts>>
         /\ \/ Loading("cleanup")
            \/ ~Loadable(live) /\ Undone /\ pc' = "revert" /\ UNCHANGED <<entry, runtime, history>>
<1>1. op.kind = "update" /\ pc = "load" BY DEF LoadUpdate, At
<1>2. plugin = NoPlugin /\ ~op.undo BY <1>1, TypeFacts DEF Loader, Registered, Control
<1>3. CASE Loadable(live) BY <1>1, <1>2, <1>3, LoadingMeans DEF LoadUpdate, Loads
<1>4. CASE ~Loadable(live) BY <1>1, <1>2, <1>4, UndoMeans DEF LoadUpdate, Loads, Undone
<1> QED BY <1>3, <1>4

(* The load of the old version ends the update as a failure, whether or not it works. *)
LEMMA ReloadMeans ==
  ASSUME TypeOK, Control, Loader, Reload
  PROVE  /\ op.kind = "update" /\ op.undo /\ pc = "reload" /\ plugin = NoPlugin /\ UNCHANGED <<disk, up, teardown, counts>>
         /\ \/ Loading("failed")
            \/ ~Loadable(live) /\ op' = op /\ pc' = "failed" /\ UNCHANGED <<entry, runtime, history>>
<1>1. op.kind = "update" /\ op.undo /\ pc = "reload" BY ControlFacts DEF Reload
<1>2. plugin = NoPlugin BY <1>1 DEF Loader, Registered
<1>3. CASE Loadable(live) BY <1>1, <1>2, <1>3, LoadingMeans DEF Reload, Loads
<1>4. CASE ~Loadable(live) BY <1>1, <1>2, <1>4 DEF Reload, Loads
<1> QED BY <1>3, <1>4

(* The load of an upload ends the request; a package the loader refuses is removed again. *)
LEMMA LoadInstalledMeans ==
  ASSUME TypeOK, Control, Loader, LoadInstalled
  PROVE  /\ op.kind = "install" /\ ~op.was /\ pc = "load" /\ plugin = NoPlugin /\ UNCHANGED <<bak, new, up, teardown, counts>>
         /\ \/ Loading("done") /\ live' = live
            \/ ~Loadable(live) /\ op' = op /\ pc' = "failed" /\ live' = NoDir /\ UNCHANGED <<entry, runtime, history>>
<1>1. op.kind = "install" /\ pc = "load" /\ ~op.was BY DEF LoadInstalled, At, Control
<1>2. plugin = NoPlugin BY <1>1 DEF Loader, Registered
<1>3. CASE Loadable(live) BY <1>1, <1>2, <1>3, LoadingMeans DEF LoadInstalled, Loads
<1>4. CASE ~Loadable(live) BY <1>1, <1>2, <1>4 DEF LoadInstalled, Loads
<1> QED BY <1>3, <1>4

(* The steps of the swap: each goes on or, its file system call failing, takes the update back. *)
SwapStops ==
  Undone /\ pc' = "unswap" /\ faults' = faults + 1 /\ UNCHANGED disk

(* The first step of the swap removes what an earlier one has left. *)
LEMMA ClearBackupMeans ==
  ASSUME TypeOK, ClearBackup
  PROVE  /\ pc = "swap" /\ UNCHANGED <<new, entry, runtime, up, teardown, history>>
         /\ \/ bak # NoDir /\ Removes(bak, bak') /\ UNCHANGED <<live, pc, op, counts>>
            \/ bak = NoDir /\ pc' = "away" /\ UNCHANGED <<live, bak, op, counts>>
            \/ SwapStops
BY SwapFailsMeans, UndoMeans DEF ClearBackup, SwapStops, Undone

(* The second renames the old version to the backup. *)
LEMMA MoveAwayMeans ==
  ASSUME TypeOK, MoveAway
  PROVE  /\ pc = "away" /\ UNCHANGED <<new, entry, runtime, up, teardown, history>>
         /\ \/ bak' = live /\ live' = NoDir /\ pc' = "in" /\ UNCHANGED <<op, counts>>
            \/ SwapStops
BY SwapFailsMeans, UndoMeans DEF MoveAway, SwapStops, Undone

(* The third renames the staged version into place. *)
LEMMA MoveInMeans ==
  ASSUME TypeOK, MoveIn
  PROVE  /\ pc = "in" /\ UNCHANGED <<entry, runtime, up, teardown, history>>
         /\ \/ live' = new /\ new' = NoDir /\ pc' = "copy" /\ UNCHANGED <<bak, op, counts>>
            \/ SwapStops
BY SwapFailsMeans, UndoMeans DEF MoveIn, SwapStops, Undone

(* The fourth copies the data, or takes the update back with the new version in place. *)
LEMMA CopyMeans ==
  ASSUME TypeOK, Control, Swapping, Copy
  PROVE  /\ pc = "copy" /\ UNCHANGED <<bak, new, entry, runtime, up, teardown, history>>
         /\ \/ /\ live' \in Dirs /\ live' # NoDir /\ live'.ver = live.ver /\ live'.whole /\ (live'.data <=> live.data \/ bak.data)
               /\ pc' = "load" /\ UNCHANGED <<op, counts>>
            \/ Undone /\ pc' = "revert" /\ faults' = faults + 1 /\ UNCHANGED <<live>>
<1>1. pc = "copy" /\ live.whole BY ControlFacts DEF Copy, Swapping, NewIn
<1>2. live \in Dirs BY <1>1, TypeFacts, DirFacts DEF Dir0
<1>3. CASE live' = [live EXCEPT !.data = Copied] /\ Goto("load") /\ UNCHANGED counts
  BY <1>1, <1>2, <1>3, CopyFacts, DirFacts DEF Copy
<1>4. CASE Spend("fs") /\ Undo("revert") /\ UNCHANGED live
  BY <1>1, <1>4, SpendMeans, UndoMeans DEF Copy, Undone
<1> QED BY <1>3, <1>4 DEF Copy

(* The last removes the backup; a backup that cannot be removed takes the update back. *)
LEMMA CleanupMeans ==
  ASSUME TypeOK, Cleanup
  PROVE  /\ pc = "cleanup" /\ UNCHANGED <<live, new, entry, sandbox, up, teardown, wanted, stored>>
         /\ \/ /\ Removes(bak, bak') /\ pc' = (IF bak.whole THEN "cleanup" ELSE "done")
               /\ UNCHANGED <<plugin, gap, op, counts>>
            \/ /\ Undone /\ faults' = faults + 1 /\ UNCHANGED bak
               /\ gap \subseteq gap' /\ (bak.whole \/ "fs" \in gap')
               /\ IF plugin.status = "enabled" THEN pc' = "stopping" /\ UNCHANGED plugin
                  ELSE pc' = "revert" /\ plugin' = NoPlugin
<1>1. CASE Removes(bak, bak') /\ Goto(IF bak.whole THEN "cleanup" ELSE "done") /\ UNCHANGED <<plugin, gap, counts>>
  BY <1>1 DEF Cleanup
<1>2. CASE /\ Spend("fs") /\ Unload("revert") /\ op' = [op EXCEPT !.undo = TRUE]
           /\ gap' = IF bak.whole THEN gap ELSE gap \cup {"fs"}
           /\ UNCHANGED bak
  <2>1. gap \subseteq gap' /\ (bak.whole \/ "fs" \in gap') BY <1>2
  <2>2. Undone BY <1>2, TypeFacts, OpFacts DEF Undone
  <2>3. IF plugin.status = "enabled" THEN pc' = "stopping" /\ UNCHANGED plugin ELSE pc' = "revert" /\ plugin' = NoPlugin
    BY <1>2 DEF Unload
  <2> QED BY <1>2, <2>1, <2>2, <2>3, SpendMeans DEF Cleanup
<1> QED BY <1>1, <1>2 DEF Cleanup

(* An enable that throws has lost its worker, or waits for one that a failure has taken. *)
LEMMA EnableThrowsMeans ==
  ASSUME EnableThrows
  PROVE  /\ pc = "enabling" /\ pc' = "terminating" /\ ~host' /\ op' = op
         /\ UNCHANGED <<disk, entry, plugin, worker, hooking, up, teardown, history, ops>>
         /\ IF worker THEN faults' = faults + 1 ELSE faults' = faults
BY DEF EnableThrows, WaitEnds, Spend

(* Boot loads the directory if it can, and else leaves the plugin unloaded and its decision alone. *)
LEMMA ScanMeans ==
  ASSUME TypeOK, Control, Loader, Scan
  PROVE  /\ pc = "scan" /\ op.kind = "boot" /\ pc' = "restore" /\ plugin = NoPlugin
         /\ UNCHANGED <<disk, sandbox, up, teardown, history, counts, op>>
         /\ \/ /\ Loadable(live) /\ plugin' # NoPlugin /\ plugin'.ver = live.ver /\ plugin'.status = "installed"
               /\ entry' \in Entries /\ entry' # NoEntry /\ entry'.status = "installed"
               /\ entry.byOperator # "unset" => entry'.byOperator = entry.byOperator
            \/ /\ ~Loadable(live) /\ plugin' = NoPlugin
               /\ (entry' = NoEntry <=> entry = NoEntry) /\ entry'.byOperator = entry.byOperator
<1>1. pc = "scan" /\ op.kind = "boot" /\ plugin = NoPlugin BY ControlFacts DEF Scan, Loader, Registered
<1>2. CASE Loads(live) BY <1>1, <1>2, LoadedMeans DEF Scan, Loads
<1>3. CASE ~Loads(live) BY <1>1, <1>3, TypeFacts, StatusFacts DEF Scan, Loads, Statuses
<1> QED BY <1>2, <1>3

(* Boot renames a backup into an empty place, removes one beside a directory, or fails to. *)
LEMMA RecoverBackupMeans ==
  ASSUME TypeOK, RecoverBackup
  PROVE  /\ pc = "backup" /\ UNCHANGED <<new, entry, runtime, up, teardown, wanted, stored, op>>
         /\ \/ bak = NoDir /\ pc' = "staging" /\ UNCHANGED <<live, bak, gap, counts>>
            \/ bak # NoDir /\ live = NoDir /\ pc' = "staging" /\ live' = bak /\ bak' = NoDir /\ UNCHANGED <<gap, counts>>
            \/ bak # NoDir /\ live # NoDir /\ Removes(bak, bak') /\ UNCHANGED <<live, pc, gap, counts>>
            \/ bak # NoDir /\ pc' = "staging" /\ "fs" \in gap' /\ gap \subseteq gap' /\ UNCHANGED <<live, bak>>
<1>1. CASE bak # NoDir /\ Spend("fs") /\ Goto("staging") /\ gap' = gap \cup {"fs"} /\ UNCHANGED <<live, bak>>
  BY <1>1 DEF RecoverBackup
<1>2. CASE ~(bak # NoDir /\ Spend("fs") /\ Goto("staging") /\ gap' = gap \cup {"fs"} /\ UNCHANGED <<live, bak>>)
  BY <1>2 DEF RecoverBackup, Stale
<1> QED BY <1>1, <1>2

(* An update that is taken back has a cause: its package, or a failure since it began. *)
LEMMA CausesGrow ==
  ASSUME TypeOK, op.since <= faults, op'.since = op.since, op'.ver = op.ver,
         faults' \in {faults, faults + 1}
  PROVE  /\ Causes \in Nat /\ Causes' \in Nat /\ Causes' >= Causes
         /\ faults' = faults + 1 => Causes' = Causes + 1 /\ Causes' >= 1
         /\ faults' = faults => Causes' = Causes
         /\ op.ver \in Broken => Causes >= 1
         /\ op.since < faults => Causes >= 1
         /\ op.since < faults /\ op.ver \in Broken => Causes >= 2
BY TypeFacts DEF Causes

(* An update stages its package and unloads the old version, or ends before it has touched it. *)
LEMMA StageMeans ==
  ASSUME Stage
  PROVE  /\ pc = "stage" /\ UNCHANGED <<live, bak, entry, sandbox, up, teardown, history, op>>
         /\ \/ /\ new' = Dir(op.ver, TRUE) /\ UNCHANGED counts
               /\ IF plugin.status = "enabled" THEN pc' = "stopping" /\ UNCHANGED plugin
                  ELSE pc' = "swap" /\ plugin' = NoPlugin
            \/ new' = NoDir /\ pc' = "failed" /\ UNCHANGED plugin /\ faults' = faults + 1
<1>1. CASE new' = Dir(op.ver, TRUE) /\ Unload("swap") /\ UNCHANGED <<op, counts>>
  BY <1>1 DEF Stage, Unload
<1>2. CASE Spend("fs") /\ new' = NoDir /\ Goto("failed") /\ UNCHANGED plugin
  BY <1>2 DEF Stage, Spend
<1> QED BY <1>1, <1>2 DEF Stage

-----------------------------------------------------------------------------
(* Types *)

DiskTyped == live \in Dir0 /\ bak \in Dir0 /\ new \in Dir0
EntryTyped == entry \in Entry0
PluginTyped == plugin \in Plugin0
RequestTyped == op \in Ops
FlagsTyped ==
  worker \in BOOLEAN /\ host \in BOOLEAN /\ subscribed \in BOOLEAN /\ teardown \in BOOLEAN /\ stored \in BOOLEAN
CountsTyped == hooks \in 0..1 /\ ops \in 0..MaxOps /\ faults \in 0..MaxFaults
NamesTyped ==
  /\ up \in {"boot", "up", "closing", "down"} /\ pc \in Pcs
  /\ wanted \in {"none", "on", "off"} /\ gap \subseteq {"code", "data", "fs"}

(* The type invariant by groups of variables. *)
LEMMA TypeParts == TypeOK <=> DiskTyped /\ EntryTyped /\ PluginTyped /\ RequestTyped /\ FlagsTyped /\ CountsTyped /\ NamesTyped
BY DEF TypeOK, DiskTyped, EntryTyped, PluginTyped, RequestTyped, FlagsTyped, CountsTyped, NamesTyped, Dir0, Entry0, Plugin0

(* Every step keeps the type of the directories: only the step that has one renames or removes it. *)
LEMMA DiskTypes ==
  ASSUME TypeOK, Control, Loader, Swapping, Next
  PROVE  DiskTyped'
<1>1. CASE EnableSucceeds \/ EnableThrows \/ EnableFails \/ WorkerStops \/ Forget \/ LoadUpdate \/
          Reload \/ Scan \/ Restore \/ Enable \/ Disable \/ Uninstall \/ Subscribe \/ WorkerDies \/
          Start \/ Close \/ Exit \/ Crash
  BY <1>1, TypeFacts
  DEF EnableSucceeds, EnableThrows, EnableFails, WorkerStops, Forget, LoadUpdate, Reload, Scan, Restore,
     Enable, Disable, Uninstall, Subscribe, WorkerDies, Start, Close, Exit, Crash, Dies, DiskTyped
<1>2. CASE Erase \/ ClearBackup \/ Cleanup \/ Revert \/ RecoverStaging
  BY <1>2, TypeFacts, RemovesFacts
  DEF Erase, ClearBackup, Cleanup, Revert, RecoverStaging, DiskTyped, SwapFails
<1>3. CASE Place \/ Stage \/ (\E v \in Versions : Install(v)) \/ (\E v \in Versions : Update(v))
  BY <1>3, TypeFacts, ControlFacts, NewDir DEF Place, Stage, Install, Update, DiskTyped, Dir0
<1>4. CASE LoadInstalled \/ MoveAway \/ MoveIn \/ Unswap
  BY <1>4, TypeFacts DEF LoadInstalled, MoveAway, MoveIn, Unswap, DiskTyped, Dir0, SwapFails
<1>5. CASE Copy
  BY <1>5, TypeFacts, ControlFacts, DirFacts, CopyFacts DEF Copy, Swapping, NewIn, DiskTyped, Dir0
<1>6. CASE RecoverBackup BY <1>6, TypeFacts, RemovesFacts DEF RecoverBackup, DiskTyped, Dir0
<1>7. CASE Store
  BY <1>7, TypeFacts, DirFacts, StoreFacts, PluginFacts
  DEF Store, Loader, Registered, Loadable, DiskTyped, Dir0
<1> QED BY <1>1, <1>2, <1>3, <1>4, <1>5, <1>6, <1>7 DEF Next, Proceed, Request

(* ... of the flags ... *)
LEMMA FlagTypes ==
  ASSUME TypeOK, Next
  PROVE  FlagsTyped'
<1>1. CASE EnableSucceeds \/ Erase \/ Place \/ Stage \/ ClearBackup \/ MoveAway \/ MoveIn \/ Copy \/
          Cleanup \/ Unswap \/ Revert \/ RecoverBackup \/ RecoverStaging \/ Scan \/ Start
  BY <1>1, TypeParts
  DEF EnableSucceeds, Erase, Place, Stage, ClearBackup, MoveAway, MoveIn, Copy, Cleanup, Unswap, Revert,
     RecoverBackup, RecoverStaging, Scan, Start, FlagsTyped
<1>2. CASE EnableThrows \/ EnableFails \/ WorkerStops \/ Forget \/ LoadInstalled \/ LoadUpdate \/
          Reload \/ Restore
  BY <1>2, TypeParts
  DEF EnableThrows, EnableFails, WorkerStops, Forget, LoadInstalled, LoadUpdate, Reload, Restore,
     FlagsTyped, WorkerExit, LoadThen, StartWorker
<1>3. CASE Enable \/ Disable \/ Uninstall \/ (\E v \in Versions : Install(v)) \/
          (\E v \in Versions : Update(v)) \/ Subscribe \/ Store \/ WorkerDies
  BY <1>3, TypeParts
  DEF Enable, Disable, Uninstall, Install, Update, Subscribe, Store, WorkerDies, StartWorker, Begin,
     FlagsTyped, WorkerExit
<1>4. CASE Close \/ Exit \/ Crash BY <1>4, TypeParts DEF Close, Exit, Crash, FlagsTyped, Dies
<1> QED BY <1>1, <1>2, <1>3, <1>4 DEF Next, Proceed, Request

(* ... of the entry of the registry ... *)
LEMMA EntryTypes ==
  ASSUME TypeOK, Control, Loader, Swapping, Next
  PROVE  EntryTyped'
<1>1. CASE EnableThrows \/ Erase \/ Place \/ Stage \/ ClearBackup \/ MoveAway \/ MoveIn \/ Copy \/
          Cleanup \/ Unswap \/ Revert \/ RecoverBackup \/ RecoverStaging \/ Restore \/ Uninstall \/
          (\E v \in Versions : Install(v)) \/ (\E v \in Versions : Update(v)) \/ Subscribe \/ Store \/
          Start \/ Close
  BY <1>1, TypeFacts
  DEF EnableThrows, Erase, Place, Stage, ClearBackup, MoveAway, MoveIn, Copy, Cleanup, Unswap, Revert,
     RecoverBackup, RecoverStaging, Restore, Uninstall, Install, Update, Subscribe, Store, Start, Close,
     EntryTyped, Statuses
<1>2. CASE EnableSucceeds
  BY <1>2, TypeFacts, StatusFacts, DecideFacts DEF EnableSucceeds, EntryTyped, Statuses
<1>3. CASE EnableFails \/ WorkerDies
  BY <1>3, TypeFacts, StatusFacts DEF EnableFails, WorkerDies, EntryTyped, Statuses
<1>4. CASE WorkerStops
  BY <1>4, TypeFacts, StatusFacts, DecideFacts DEF WorkerStops, ShutdownStops, EntryTyped, Statuses
<1>5. CASE Forget BY <1>5 DEF Forget, Entry0, EntryTyped
<1>6. CASE LoadInstalled \/ LoadUpdate \/ Reload
  BY <1>6, TypeFacts, AdoptedFacts
  DEF LoadInstalled, LoadUpdate, Reload, LoadThen, Loaded, Entry0, EntryTyped
<1>7. CASE Scan
  BY <1>7, TypeFacts, AdoptedFacts, StatusFacts DEF Scan, Loaded, Entry0, EntryTyped, Statuses
<1>8. CASE Enable \/ Disable BY <1>8, TypeFacts, DecideOf DEF Enable, Disable, EntryTyped
<1>9. CASE Exit \/ Crash BY <1>9, TypeFacts DEF Exit, Crash, Dies, EntryTyped
<1> QED BY <1>1, <1>2, <1>3, <1>4, <1>5, <1>6, <1>7, <1>8, <1>9 DEF Next, Proceed, Request

(* ... of the instance ... *)
LEMMA PluginTypes ==
  ASSUME TypeOK, Control, Loader, Swapping, Next
  PROVE  PluginTyped'
<1>1. CASE EnableThrows \/ Forget \/ Erase \/ Place \/ ClearBackup \/ MoveAway \/ MoveIn \/ Copy \/
          Unswap \/ Revert \/ RecoverBackup \/ RecoverStaging \/ Restore \/ Enable \/ Disable \/
          (\E v \in Versions : Install(v)) \/ (\E v \in Versions : Update(v)) \/ Subscribe \/ Store \/
          Start \/ Close
  BY <1>1, TypeFacts
  DEF EnableThrows, Forget, Erase, Place, ClearBackup, MoveAway, MoveIn, Copy, Unswap, Revert,
     RecoverBackup, RecoverStaging, Restore, Enable, Disable, Install, Update, Subscribe, Store, Start,
     Close, PluginTyped, Statuses
<1>2. CASE EnableSucceeds \/ WorkerDies
  BY <1>2, TypeFacts, LoaderFacts, PluginStatus DEF EnableSucceeds, WorkerDies, PluginTyped, Statuses
<1>3. CASE EnableFails \/ WorkerStops
  BY <1>3, LoaderFacts, PluginStatus DEF EnableFails, WorkerStops, Plugin0, PluginTyped, Statuses
<1>4. CASE LoadInstalled \/ LoadUpdate \/ Reload \/ Scan
  BY <1>4, TypeFacts, LoadedFacts
  DEF LoadInstalled, LoadUpdate, Reload, Scan, LoadThen, Loaded, Loads, PluginTyped
<1>5. CASE Stage BY <1>5, TypeFacts DEF Stage, Unload, Plugin0, PluginTyped, Statuses
<1>6. CASE Cleanup \/ Uninstall BY <1>6, TypeFacts DEF Cleanup, Uninstall, Unload, Plugin0, PluginTyped
<1>7. CASE Exit \/ Crash BY <1>7 DEF Exit, Crash, Dies, Plugin0, PluginTyped
<1> QED BY <1>1, <1>2, <1>3, <1>4, <1>5, <1>6, <1>7 DEF Next, Proceed, Request

(* ... of the request ... *)
LEMMA RequestTypes ==
  ASSUME TypeOK, Next
  PROVE  RequestTyped'
<1>1. CASE EnableSucceeds \/ EnableThrows \/ WorkerStops \/ Forget \/ Erase \/ Place \/ Unswap \/
          Revert \/ RecoverBackup \/ RecoverStaging \/ Scan \/ Restore \/ Subscribe \/ Store \/
          WorkerDies \/ Close
  BY <1>1, TypeFacts
  DEF EnableSucceeds, EnableThrows, WorkerStops, Forget, Erase, Place, Unswap, Revert, RecoverBackup,
     RecoverStaging, Scan, Restore, Subscribe, Store, WorkerDies, Close, RequestTyped
<1>2. CASE EnableFails \/ ClearBackup \/ MoveAway \/ MoveIn \/ Copy \/ LoadUpdate
  BY <1>2, TypeFacts, OpFacts
  DEF EnableFails, ClearBackup, MoveAway, MoveIn, Copy, LoadUpdate, Undo, RequestTyped, SwapFails,
     LoadThen
<1>3. CASE LoadInstalled \/ Stage \/ Reload
  BY <1>3, TypeFacts DEF LoadInstalled, Stage, Reload, LoadThen, RequestTyped
<1>4. CASE Cleanup BY <1>4, TypeFacts, OpFacts DEF Cleanup, RequestTyped
<1>5. CASE Enable \/ Disable \/ Uninstall \/ (\E v \in Versions : Install(v)) \/
          (\E v \in Versions : Update(v))
  BY <1>5, BeginFacts DEF Enable, Disable, Uninstall, Install, Update, RequestTyped
<1>6. CASE Start \/ Exit \/ Crash BY <1>6, NoOpFacts DEF Start, Exit, Crash, RequestTyped, Dies
<1> QED BY <1>1, <1>2, <1>3, <1>4, <1>5, <1>6 DEF Next, Proceed, Request

(* ... of the counters: a plugin registers its hook once per enable ... *)
LEMMA CountTypes ==
  ASSUME TypeOK, Loader, Next
  PROVE  CountsTyped'
<1>1. CASE EnableSucceeds \/ Forget \/ Scan \/ Store \/ Start \/ Close \/ WorkerStops \/ LoadInstalled
  BY <1>1, TypeParts
  DEF EnableSucceeds, Forget, Scan, Store, Start, Close, WorkerStops, LoadInstalled, CountsTyped,
     WorkerExit, LoadThen, StartWorker
<1>2. CASE EnableThrows BY <1>2, TypeParts DEF EnableThrows, WaitEnds, Spend, CountsTyped
<1>3. CASE EnableFails BY <1>3, TypeParts DEF EnableFails, HooksDropped, CountsTyped
<1>4. CASE Erase \/ ClearBackup \/ MoveAway \/ MoveIn \/ Copy \/ Cleanup \/ Unswap \/ Revert
  BY <1>4, TypeParts
  DEF Erase, ClearBackup, MoveAway, MoveIn, Copy, Cleanup, Unswap, Revert, Spend, CountsTyped, SwapFails
<1>5. CASE Place \/ Stage BY <1>5, TypeParts DEF Place, Stage, Spend, CountsTyped, Dir
<1>6. CASE LoadUpdate \/ Reload \/ Restore \/ Exit
  BY <1>6, TypeParts DEF LoadUpdate, Reload, Restore, Exit, LoadThen, StartWorker, CountsTyped, Dies
<1>7. CASE RecoverBackup \/ RecoverStaging \/ WorkerDies \/ Crash
  BY <1>7, TypeParts
  DEF RecoverBackup, RecoverStaging, WorkerDies, Crash, Spend, CountsTyped, WorkerExit, Dies
<1>8. CASE Enable \/ Disable \/ Uninstall \/ (\E v \in Versions : Install(v)) \/
          (\E v \in Versions : Update(v))
  BY <1>8, TypeParts, BeginFacts
  DEF Enable, Disable, Uninstall, Install, Update, StartWorker, CountsTyped
<1>9. CASE Subscribe BY <1>9, TypeParts DEF Subscribe, Loader, Sandboxed, CountsTyped
<1> QED BY <1>1, <1>2, <1>3, <1>4, <1>5, <1>6, <1>7, <1>8, <1>9 DEF Next, Proceed, Request

(* ... and of the program counters. *)
LEMMA NameTypes ==
  ASSUME TypeOK, Next
  PROVE  NamesTyped'
<1>1. CASE EnableSucceeds \/ EnableThrows \/ WorkerStops \/ Forget \/ Erase \/ Place \/ LoadInstalled \/
          Unswap
  BY <1>1, TypeParts
  DEF EnableSucceeds, EnableThrows, WorkerStops, Forget, Erase, Place, LoadInstalled, Unswap,
     NamesTyped, Pcs, LoadThen
<1>2. CASE EnableFails \/ ClearBackup \/ MoveAway \/ MoveIn \/ Copy \/ LoadUpdate
  BY <1>2, TypeParts
  DEF EnableFails, ClearBackup, MoveAway, MoveIn, Copy, LoadUpdate, Undo, NamesTyped, Pcs, SwapFails,
     LoadThen
<1>3. CASE Stage \/ Cleanup BY <1>3, TypeParts DEF Stage, Cleanup, Unload, NamesTyped, Pcs
<1>4. CASE Revert \/ Reload \/ RecoverBackup \/ RecoverStaging \/ Scan \/ Restore \/ Start \/ Exit
  BY <1>4, TypeParts
  DEF Revert, Reload, RecoverBackup, RecoverStaging, Scan, Restore, Start, Exit, NamesTyped, Pcs,
     LoadThen, Dies
<1>5. CASE Enable \/ Disable \/ (\E v \in Versions : Install(v)) \/ (\E v \in Versions : Update(v))
  BY <1>5, TypeParts, BeginGuard DEF Enable, Disable, Install, Update, NamesTyped, Pcs
<1>6. CASE Uninstall BY <1>6, TypeParts, BeginGuard DEF Uninstall, Unload, NamesTyped, Pcs
<1>7. CASE Subscribe \/ Store \/ WorkerDies \/ Close
  BY <1>7, TypeParts DEF Subscribe, Store, WorkerDies, Close, NamesTyped
<1>8. CASE Crash BY <1>8, TypeParts DEF Crash, Dies, NamesTyped, Pcs
<1> QED BY <1>1, <1>2, <1>3, <1>4, <1>5, <1>6, <1>7, <1>8 DEF Next, Proceed, Request

(* Every step keeps the order of the steps of each request. *)
LEMMA ControlNext ==
  ASSUME TypeOK, Control, Loader, Next
  PROVE  Control'
<1>1. CASE Subscribe \/ Store \/ WorkerDies \/ EnableSucceeds \/ WorkerStops \/ Forget \/ Erase \/ Place
  BY <1>1 DEF Subscribe, Store, WorkerDies, EnableSucceeds, WorkerStops, Forget, Erase, Place, Control
<1>2. CASE EnableThrows BY <1>2 DEF EnableThrows, WaitEnds, Control
<1>3. CASE EnableFails
  <2>1. CASE op.kind = "update" /\ ~op.undo BY <1>3, <2>1, TypeFacts, ControlFacts, OpFacts DEF EnableFails, Undo, Control
  <2>2. CASE op.kind = "update" /\ op.undo BY <1>3, <2>2, TypeFacts, ControlFacts DEF EnableFails, Control
  <2>3. CASE op.kind \in {"boot", "enable"} BY <1>3, <2>3, TypeFacts, ControlFacts DEF EnableFails, Control
  <2> QED BY <1>3, <2>1, <2>2, <2>3, TypeFacts, ControlFacts DEF EnableFails
<1>4. CASE LoadInstalled BY <1>4 DEF LoadInstalled, At, LoadThen, Control
<1>5. CASE Stage BY <1>5 DEF Stage, Unload, Control
<1>6. CASE ClearBackup \/ MoveAway \/ MoveIn \/ Copy
  BY <1>6, TypeFacts, ControlFacts, OpFacts
  DEF ClearBackup, MoveAway, MoveIn, Copy, SwapFails, Undo, Control
<1>7. CASE LoadUpdate
  BY <1>7, TypeFacts, ControlFacts, OpFacts DEF LoadUpdate, At, LoadThen, Undo, Control
<1>8. CASE Cleanup BY <1>8, TypeFacts, ControlFacts, OpFacts DEF Cleanup, Unload, Control
<1>9. CASE Unswap \/ Revert \/ Reload \/ RecoverBackup \/ RecoverStaging \/ Scan \/ Restore \/ Close
  BY <1>9
  DEF Unswap, Revert, Reload, RecoverBackup, RecoverStaging, Scan, Restore, Close, Control, LoadThen
<1>10. CASE Enable \/ Disable BY <1>10, BeginFacts, BeginGuard DEF Enable, Disable, Running, Control
<1>11. CASE Uninstall BY <1>11, BeginFacts, BeginGuard DEF Uninstall, Unload, Running, Control
<1>12. CASE \E v \in Versions : Install(v)
  BY <1>12, BeginFacts, BeginGuard, PluginFacts DEF Install, Running, Control
<1>13. CASE \E v \in Versions : Update(v)
  BY <1>13, BeginFacts, BeginGuard, LoaderFacts DEF Update, Idle, Loader, Registered, Loadable, Control
<1>14. CASE Start \/ Exit \/ Crash BY <1>14, NoOpFacts DEF Start, Exit, Crash, Control, Dies
<1> QED BY <1>1, <1>2, <1>3, <1>4, <1>5, <1>6, <1>7, <1>8, <1>9, <1>10, <1>11, <1>12, <1>13, <1>14 DEF Next, Proceed, Request

(* Every step keeps the instance in agreement with the registry and the directory. *)
LEMMA RegisteredNext ==
  ASSUME TypeOK, Control, Loader, Next
  PROVE  Registered'
<1>1. CASE EnableSucceeds BY <1>1, EnableSucceedsMeans DEF Loader, Registered
<1>2. CASE EnableThrows BY <1>2 DEF EnableThrows, WaitEnds, Loader, Registered
<1>3. CASE EnableFails BY <1>3, EnableFailsMeans DEF Loader, Registered
<1>4. CASE WorkerStops BY <1>4, WorkerStopsMeans DEF Loader, Registered
<1>5. CASE Forget \/ Erase \/ Unswap \/ Revert \/ RecoverBackup \/ RecoverStaging \/ Restore \/
          Subscribe
  BY <1>5
  DEF Forget, Erase, Unswap, Revert, RecoverBackup, RecoverStaging, Restore, Subscribe, Loader,
     Registered
<1>6. CASE Place BY <1>6 DEF Place, Loader, Registered, Sandboxed, Statuses
<1>7. CASE LoadInstalled
  BY <1>7, ControlFacts, LoadedMeans, LoadThenMeans DEF LoadInstalled, At, Loads, Loader, Registered
<1>8. CASE Stage BY <1>8 DEF Stage, Unload, Loader, Registered, Sandboxed, Statuses
<1>9. CASE ClearBackup \/ MoveAway \/ MoveIn
  BY <1>9, SwapFailsMeans, UndoMeans DEF ClearBackup, MoveAway, MoveIn, Loader, Registered
<1>10. CASE Copy BY <1>10, UndoMeans DEF Copy, Loader, Registered
<1>11. CASE LoadUpdate
  BY <1>11, ControlFacts, LoadedMeans, LoadThenMeans, UndoMeans
  DEF LoadUpdate, At, Loads, Loader, Registered
<1>12. CASE Cleanup BY <1>12 DEF Cleanup, Unload, Loader, Registered
<1>13. CASE Reload
  BY <1>13, ControlFacts, LoadedMeans, LoadThenMeans DEF Reload, Loads, Loader, Registered
<1>14. CASE Scan BY <1>14, ControlFacts, LoadedMeans DEF Scan, Loads, Loader, Registered
<1>15. CASE Enable BY <1>15, TypeFacts, BeginGuard, DecideOf DEF Enable, Loader, Registered
<1>16. CASE Disable
  BY <1>16, TypeFacts, LoaderFacts, BeginGuard, DecideOf DEF Disable, Loader, Registered
<1>17. CASE Uninstall BY <1>17, BeginGuard DEF Uninstall, Unload, Loader, Registered
<1>18. CASE \E v \in Versions : Install(v) BY <1>18 DEF Install, Registered
<1>19. CASE \E v \in Versions : Update(v) BY <1>19, BeginGuard DEF Update, Loader, Registered
<1>20. CASE Store BY <1>20 DEF Store, Loadable, Loader, Registered
<1>21. CASE WorkerDies BY <1>21, WorkerDiesMeans DEF Loader, Registered
<1>22. CASE Start \/ Close BY <1>22 DEF Start, Close, Loader, Registered
<1>23. CASE Exit \/ Crash BY <1>23, DiesMeans DEF Exit, Crash, Registered
<1> QED BY <1>1, <1>2, <1>3, <1>4, <1>5, <1>6, <1>7, <1>8, <1>9, <1>10, <1>11, <1>12, <1>13, <1>14,
   <1>15, <1>16, <1>17, <1>18, <1>19, <1>20, <1>21, <1>22, <1>23 DEF Next, Proceed, Request

(* Every step keeps the worker in agreement with the instance. *)
LEMMA SandboxedNext ==
  ASSUME TypeOK, Control, Loader, Next
  PROVE  Sandboxed'
<1>1. CASE EnableSucceeds BY <1>1, EnableSucceedsMeans DEF Loader, Sandboxed
<1>2. CASE EnableThrows BY <1>2 DEF EnableThrows, WaitEnds, Loader, Sandboxed
<1>3. CASE EnableFails BY <1>3, PluginFacts, EnableFailsMeans DEF Loader, Sandboxed
<1>4. CASE WorkerStops BY <1>4, PluginFacts, WorkerStopsMeans DEF Sandboxed
<1>5. CASE Forget \/ Erase \/ Unswap \/ Revert \/ RecoverBackup \/ RecoverStaging \/ Restore \/
          Subscribe
  BY <1>5
  DEF Forget, Erase, Unswap, Revert, RecoverBackup, RecoverStaging, Restore, Subscribe, Loader,
     Sandboxed, StartWorker
<1>6. CASE Place BY <1>6 DEF Place, Loader, Registered, Sandboxed, Statuses
<1>7. CASE LoadInstalled
  BY <1>7, LoadedMeans, LoadThenMeans DEF LoadInstalled, At, Loads, Loader, Sandboxed
<1>8. CASE Stage
  BY <1>8, ControlFacts, LoaderFacts, PluginFacts
  DEF Stage, Unload, Loader, Registered, Sandboxed, Statuses
<1>9. CASE ClearBackup \/ MoveAway \/ MoveIn
  BY <1>9, SwapFailsMeans, UndoMeans DEF ClearBackup, MoveAway, MoveIn, Loader, Sandboxed
<1>10. CASE Copy BY <1>10, UndoMeans DEF Copy, Loader, Sandboxed
<1>11. CASE LoadUpdate
  BY <1>11, LoadedMeans, LoadThenMeans, UndoMeans DEF LoadUpdate, At, Loads, Loader, Sandboxed
<1>12. CASE Cleanup BY <1>12, PluginFacts DEF Cleanup, Unload, Loader, Sandboxed
<1>13. CASE Reload BY <1>13, LoadedMeans, LoadThenMeans DEF Reload, Loads, Loader, Sandboxed
<1>14. CASE Scan BY <1>14, LoadedMeans DEF Scan, Loads, Loader, Sandboxed
<1>15. CASE Enable BY <1>15, BeginGuard DEF Enable, StartWorker, Idle, Loader, Sandboxed
<1>16. CASE Disable BY <1>16, BeginGuard DEF Disable, Idle, Loader, Sandboxed
<1>17. CASE Uninstall BY <1>17, PluginFacts, BeginGuard DEF Uninstall, Unload, Idle, Loader, Sandboxed
<1>18. CASE \E v \in Versions : Install(v)
  BY <1>18, LoaderFacts, BeginGuard DEF Install, Loader, Sandboxed
<1>19. CASE \E v \in Versions : Update(v) BY <1>19, BeginGuard DEF Update, Idle, Loader, Sandboxed
<1>20. CASE Store BY <1>20 DEF Store, Loader, Sandboxed
<1>21. CASE WorkerDies BY <1>21, WorkerDiesMeans DEF Idle, Sandboxed
<1>22. CASE Start BY <1>22, LoaderFacts DEF Start, Loader, Registered, Sandboxed
<1>23. CASE Close BY <1>23 DEF Close, Idle, Loader, Registered, Sandboxed, Statuses
<1>24. CASE Exit \/ Crash BY <1>24, DiesMeans DEF Exit, Crash, Sandboxed
<1> QED BY <1>1, <1>2, <1>3, <1>4, <1>5, <1>6, <1>7, <1>8, <1>9, <1>10, <1>11, <1>12, <1>13, <1>14,
   <1>15, <1>16, <1>17, <1>18, <1>19, <1>20, <1>21, <1>22, <1>23, <1>24 DEF Next, Proceed, Request

(* Every step keeps what an update has on the disk. *)
LEMMA SwappingNext ==
  ASSUME TypeOK, Control, Loader, Swapping, Next
  PROVE  Swapping'
<1>1. CASE EnableSucceeds
  BY <1>1, ControlFacts, LoaderFacts, DirFacts, EnableSucceedsMeans DEF Swapping, OldIn, NewIn, Loadable
<1>2. CASE EnableThrows BY <1>2, EnableThrowsMeans DEF Swapping, OldIn, NewIn
<1>3. CASE EnableFails
  BY <1>3, ControlFacts, LoaderFacts, DirFacts, EnableFailsMeans DEF Swapping, OldIn, NewIn, Loadable
<1>4. CASE WorkerStops
  BY <1>4, ControlFacts, LoaderFacts, DirFacts, WorkerStopsMeans
  DEF Await, Idle, Swapping, OldIn, NewIn, Loadable
<1>5. CASE Forget \/ (\E v \in Versions : Install(v)) \/ Start
  BY <1>5 DEF Forget, Install, Start, Swapping, NewIn
<1>6. CASE Erase \/ Restore BY <1>6, ControlFacts DEF Erase, Restore, Swapping, NewIn
<1>7. CASE Place
  BY <1>7, ControlFacts, LoaderFacts, DirFacts, NewDir DEF Place, Swapping, OldIn, NewIn, Loadable
<1>8. CASE LoadInstalled BY <1>8, LoadInstalledMeans DEF Loading, Swapping, NewIn
<1>9. CASE Stage
  BY <1>9, ControlFacts, LoaderFacts, DirFacts, NewDir
  DEF Stage, Unload, Loader, Registered, Sandboxed, Swapping, OldIn, NewIn, Loadable
<1>10. CASE ClearBackup
  BY <1>10, ControlFacts, LoaderFacts, DirFacts, ClearBackupMeans, RemovesFacts
  DEF SwapStops, Undone, Swapping, OldIn, NewIn, Loadable
<1>11. CASE MoveAway
  BY <1>11, ControlFacts, LoaderFacts, DirFacts, MoveAwayMeans
  DEF SwapStops, Undone, Swapping, OldIn, NewIn, Loadable
<1>12. CASE MoveIn
  <2>1. op.ver \in Versions /\ new = Dir(op.ver, TRUE) BY <1>12, ControlFacts, MoveInMeans DEF Swapping
  <2>2. new.whole /\ new.ver = op.ver /\ new # NoDir BY <2>1, NewDir, DirFacts
  <2> QED BY <1>12, <2>1, <2>2, TypeFacts, ControlFacts, MoveInMeans DEF SwapStops, Undone, Swapping, OldIn, NewIn
<1>13. CASE Copy
  BY <1>13, ControlFacts, LoaderFacts, DirFacts, CopyMeans DEF Undone, Swapping, OldIn, NewIn, Loadable
<1>14. CASE LoadUpdate
  BY <1>14, ControlFacts, LoaderFacts, DirFacts, LoadUpdateMeans
  DEF Loading, Undone, Swapping, OldIn, NewIn, Loadable
<1>15. CASE Cleanup
  BY <1>15, TypeFacts, ControlFacts, LoaderFacts, DirFacts, CleanupMeans, RemovesFacts
  DEF Undone, Loader, Registered, Sandboxed, Swapping, OldIn, NewIn, Loadable
<1>16. CASE Unswap \/ Revert \/ RecoverStaging
  BY <1>16 DEF Unswap, Revert, RecoverStaging, Swapping, OldIn, NewIn, Loadable
<1>17. CASE Reload
  BY <1>17, ControlFacts, LoaderFacts, DirFacts, ReloadMeans
  DEF Loading, Swapping, OldIn, NewIn, Loadable
<1>18. CASE RecoverBackup BY <1>18, ControlFacts, RecoverBackupMeans DEF Swapping, NewIn
<1>19. CASE Scan BY <1>19, ScanMeans DEF Swapping, NewIn
<1>20. CASE Enable \/ Disable \/ Uninstall
  BY <1>20, BeginFacts DEF Enable, Disable, Uninstall, Swapping, NewIn
<1>21. CASE \E v \in Versions : Update(v)
  BY <1>21, BeginFacts DEF Update, Loader, Registered, Swapping, OldIn, NewIn
<1>22. CASE Subscribe \/ Close BY <1>22 DEF Subscribe, Close, Idle, Swapping, OldIn, NewIn, Loadable
<1>23. CASE Store
  BY <1>23, ControlFacts, LoaderFacts, DirFacts, StoreMeans
  DEF Await, Idle, Loader, Registered, Sandboxed, Swapping, OldIn, NewIn, Loadable
<1>24. CASE WorkerDies
  BY <1>24, ControlFacts, LoaderFacts, DirFacts, WorkerDiesMeans
  DEF Await, Idle, Swapping, OldIn, NewIn, Loadable
<1>25. CASE Exit \/ Crash BY <1>25, DiesMeans DEF Exit, Crash, Swapping, NewIn
<1> QED BY <1>1, <1>2, <1>3, <1>4, <1>5, <1>6, <1>7, <1>8, <1>9, <1>10, <1>11, <1>12, <1>13, <1>14,
   <1>15, <1>16, <1>17, <1>18, <1>19, <1>20, <1>21, <1>22, <1>23, <1>24, <1>25 DEF Next, Proceed, Request

(* No step leaves a backup behind, but for a removal that fails. *)
LEMMA NoBackupNext ==
  ASSUME TypeOK, Control, Loader, Swapping, NoBackup, Next
  PROVE  NoBackup'
<1>1. CASE EnableSucceeds BY <1>1, ControlFacts, EnableSucceedsMeans DEF NoBackup
<1>2. CASE EnableThrows BY <1>2, EnableThrowsMeans DEF NoBackup
<1>3. CASE EnableFails BY <1>3, ControlFacts, EnableFailsMeans DEF NoBackup
<1>4. CASE WorkerStops BY <1>4, WorkerStopsMeans DEF NoBackup
<1>5. CASE Forget \/ Erase \/ Place \/ Stage \/ Unswap \/ Revert \/ RecoverStaging \/ Subscribe
  BY <1>5 DEF Forget, Erase, Place, Stage, Unswap, Revert, RecoverStaging, Subscribe, NoBackup
<1>6. CASE LoadInstalled BY <1>6, LoadInstalledMeans DEF Loading, NoBackup
<1>7. CASE ClearBackup BY <1>7, ClearBackupMeans DEF SwapStops, NoBackup
<1>8. CASE MoveAway BY <1>8, ControlFacts, MoveAwayMeans DEF SwapStops, NoBackup
<1>9. CASE MoveIn
  BY <1>9, ControlFacts, DirFacts, MoveInMeans, NewDir
  DEF SwapStops, Undone, NoBackup, Swapping, Control, OldIn
<1>10. CASE Copy BY <1>10, CopyMeans DEF Undone, NoBackup
<1>11. CASE LoadUpdate BY <1>11, LoadUpdateMeans DEF Loading, Undone, NoBackup
<1>12. CASE Cleanup BY <1>12, TypeFacts, ControlFacts, CleanupMeans, RemovesFacts DEF Undone, NoBackup
<1>13. CASE Reload BY <1>13, ReloadMeans DEF Loading, NoBackup
<1>14. CASE RecoverBackup BY <1>14, RecoverBackupMeans DEF NoBackup
<1>15. CASE Scan BY <1>15, ScanMeans DEF NoBackup
<1>16. CASE Restore BY <1>16 DEF Restore, NoBackup, Control
<1>17. CASE Enable \/ Disable \/ Uninstall \/ (\E v \in Versions : Install(v)) \/
          (\E v \in Versions : Update(v))
  BY <1>17, BeginGuard DEF Enable, Disable, Uninstall, Install, Update, Idle, NoBackup
<1>18. CASE Store BY <1>18, StoreMeans DEF NoBackup
<1>19. CASE WorkerDies BY <1>19, WorkerDiesMeans DEF NoBackup
<1>20. CASE Start \/ Close BY <1>20 DEF Start, Close, NoBackup
<1>21. CASE Exit \/ Crash BY <1>21, DiesMeans DEF Exit, Crash, NoBackup
<1> QED BY <1>1, <1>2, <1>3, <1>4, <1>5, <1>6, <1>7, <1>8, <1>9, <1>10, <1>11, <1>12, <1>13, <1>14,
   <1>15, <1>16, <1>17, <1>18, <1>19, <1>20, <1>21 DEF Next, Proceed, Request

(* No step leaves a disk that boot would take for something it is not, but for the gap. *)
LEMMA RecoveryNext ==
  ASSUME TypeOK, Control, Loader, Swapping, NoBackup, Recovery, Next
  PROVE  Recovery'
<1>1. CASE EnableSucceeds BY <1>1, EnableSucceedsMeans DEF Recovery
<1>2. CASE EnableThrows BY <1>2, EnableThrowsMeans DEF Recovery
<1>3. CASE EnableFails BY <1>3, EnableFailsMeans DEF Recovery
<1>4. CASE WorkerStops BY <1>4, WorkerStopsMeans DEF Recovery
<1>5. CASE Forget \/ RecoverStaging \/ Restore \/ Subscribe \/ Start \/ Close
  BY <1>5 DEF Forget, RecoverStaging, Restore, Subscribe, Start, Close, Recovery
<1>6. CASE Erase \/ Unswap \/ Revert BY <1>6, ControlFacts DEF Erase, Unswap, Revert, Recovery
<1>7. CASE Place BY <1>7, ControlFacts, DirFacts, NewDir DEF Place, Recovery, Loadable
<1>8. CASE LoadInstalled BY <1>8, LoadInstalledMeans DEF Loading, Recovery
<1>9. CASE Stage BY <1>9 DEF Stage, Unload, Recovery, Loadable
<1>10. CASE ClearBackup BY <1>10, ControlFacts, ClearBackupMeans DEF SwapStops, Recovery
<1>11. CASE MoveAway BY <1>11, MoveAwayMeans DEF SwapStops, Recovery
<1>12. CASE MoveIn BY <1>12, ControlFacts, MoveInMeans DEF SwapStops, Recovery
<1>13. CASE Copy BY <1>13, ControlFacts, CopyMeans DEF Recovery
<1>14. CASE LoadUpdate BY <1>14, LoadUpdateMeans DEF Loading, Recovery
<1>15. CASE Cleanup BY <1>15, ControlFacts, CleanupMeans DEF Recovery
<1>16. CASE Reload BY <1>16, ReloadMeans DEF Loading, Recovery
<1>17. CASE RecoverBackup
  BY <1>17, TypeFacts, ControlFacts, RecoverBackupMeans, RemovesFacts DEF Recovery
<1>18. CASE Scan BY <1>18, ScanMeans DEF Recovery
<1>19. CASE Enable \/ Disable \/ (\E v \in Versions : Update(v))
  BY <1>19, BeginGuard DEF Enable, Disable, Update, Recovery
<1>20. CASE Uninstall BY <1>20, BeginGuard DEF Uninstall, Unload, Recovery
<1>21. CASE \E v \in Versions : Install(v) BY <1>21, BeginGuard DEF Install, Running, Recovery
<1>22. CASE Store BY <1>22, StoreMeans DEF Recovery
<1>23. CASE WorkerDies BY <1>23, WorkerDiesMeans DEF Recovery
<1>24. CASE Exit \/ Crash BY <1>24, DiesMeans DEF Exit, Crash, Recovery
<1> QED BY <1>1, <1>2, <1>3, <1>4, <1>5, <1>6, <1>7, <1>8, <1>9, <1>10, <1>11, <1>12, <1>13, <1>14,
   <1>15, <1>16, <1>17, <1>18, <1>19, <1>20, <1>21, <1>22, <1>23, <1>24 DEF Next, Proceed, Request

(* No step loses the last copy of the code. *)
LEMMA PresentNext ==
  ASSUME TypeOK, Control, Loader, Swapping, NoBackup, Recovery, Present, Next
  PROVE  Present'
<1>1. CASE EnableSucceeds BY <1>1, EnableSucceedsMeans DEF Present
<1>2. CASE EnableThrows BY <1>2, EnableThrowsMeans DEF Present
<1>3. CASE EnableFails BY <1>3, EnableFailsMeans DEF Present
<1>4. CASE WorkerStops BY <1>4, WorkerStopsMeans DEF Present
<1>5. CASE Forget \/ Unswap \/ RecoverStaging \/ Restore \/ (\E v \in Versions : Update(v)) \/
          Subscribe \/ Start \/ Close
  BY <1>5 DEF Forget, Unswap, RecoverStaging, Restore, Update, Subscribe, Start, Close, Present
<1>6. CASE Erase \/ Place \/ Enable BY <1>6 DEF Erase, Place, Enable, Present, Loader, Registered
<1>7. CASE LoadInstalled BY <1>7, LoadInstalledMeans DEF Loading, Present
<1>8. CASE Stage
  BY <1>8
  DEF Stage, Unload, Present, NoBackup, Recovery, Swapping, OldIn, NewIn, Loadable, Loader, Registered
<1>9. CASE ClearBackup BY <1>9, ControlFacts, ClearBackupMeans DEF SwapStops, Present, NoBackup
<1>10. CASE MoveAway BY <1>10, ControlFacts, MoveAwayMeans DEF SwapStops, Present, NoBackup
<1>11. CASE MoveIn
  BY <1>11, ControlFacts, LoaderFacts, DirFacts, EntryFacts, MoveInMeans, NewDir
  DEF SwapStops, Undone, Present, NoBackup, Recovery, Swapping, OldIn, NewIn, Loadable, Loader,
     Registered
<1>12. CASE Copy BY <1>12, ControlFacts, CopyMeans DEF Present, Loadable
<1>13. CASE LoadUpdate BY <1>13, LoadUpdateMeans DEF Loading, Present
<1>14. CASE Cleanup BY <1>14, CleanupMeans DEF Present, Loader, Registered
<1>15. CASE Revert BY <1>15, ControlFacts DEF Revert, Present, Swapping, OldIn
<1>16. CASE Reload
  BY <1>16, ControlFacts, DirFacts, ReloadMeans DEF Loading, Present, NoBackup, Loadable
<1>17. CASE RecoverBackup BY <1>17, RecoverBackupMeans DEF Present, Recovery
<1>18. CASE Scan BY <1>18, ControlFacts, DirFacts, ScanMeans DEF Present, NoBackup, Loadable
<1>19. CASE Disable BY <1>19, BeginGuard DEF Disable, Running, Idle, Present
<1>20. CASE Uninstall BY <1>20 DEF Uninstall, Unload, Present
<1>21. CASE \E v \in Versions : Install(v)
  BY <1>21, ControlFacts, LoaderFacts, DirFacts, EntryFacts, BeginGuard, BeginFacts, NewDir
  DEF Install, Running, Idle, Present, NoBackup, Recovery, Swapping, OldIn, NewIn, Loadable, Loader,
     Registered
<1>22. CASE Store BY <1>22, StoreMeans DEF Present
<1>23. CASE WorkerDies BY <1>23, WorkerDiesMeans DEF Present
<1>24. CASE Exit \/ Crash BY <1>24, DiesMeans DEF Exit, Crash, Present
<1> QED BY <1>1, <1>2, <1>3, <1>4, <1>5, <1>6, <1>7, <1>8, <1>9, <1>10, <1>11, <1>12, <1>13, <1>14,
   <1>15, <1>16, <1>17, <1>18, <1>19, <1>20, <1>21, <1>22, <1>23, <1>24 DEF Next, Proceed, Request

(* No step loses the last copy of the data. *)
LEMMA KeptNext ==
  ASSUME TypeOK, Control, Loader, Swapping, NoBackup, Recovery, Present, Kept, Next
  PROVE  Kept'
<1>1. CASE EnableSucceeds
  BY <1>1, ControlFacts, LoaderFacts, DirFacts, EntryFacts, EnableSucceedsMeans
  DEF Kept, Present, NoBackup, Recovery, Swapping, OldIn, NewIn, Loadable, Loader, Registered
<1>2. CASE EnableThrows
  BY <1>2, ControlFacts, LoaderFacts, DirFacts, EntryFacts, EnableThrowsMeans
  DEF Kept, Present, NoBackup, Recovery, Swapping, OldIn, NewIn, Loadable, Loader, Registered
<1>3. CASE EnableFails
  BY <1>3, ControlFacts, LoaderFacts, DirFacts, EntryFacts, EnableFailsMeans
  DEF Kept, Present, NoBackup, Recovery, Swapping, OldIn, NewIn, Loadable, Loader, Registered
<1>4. CASE WorkerStops
  BY <1>4, ControlFacts, LoaderFacts, DirFacts, EntryFacts, WorkerStopsMeans
  DEF Await, Idle, Kept, Present, NoBackup, Recovery, Swapping, OldIn, NewIn, Loadable, Loader,
     Registered
<1>5. CASE Forget \/ Erase \/ RecoverStaging \/ Subscribe \/ Close
  BY <1>5 DEF Forget, Erase, RecoverStaging, Subscribe, Close, Kept
<1>6. CASE Place \/ Restore BY <1>6, ControlFacts DEF Place, Restore, Kept
<1>7. CASE LoadInstalled
  BY <1>7, ControlFacts, LoaderFacts, DirFacts, EntryFacts, LoadInstalledMeans
  DEF Loading, Kept, Present, NoBackup, Recovery, Swapping, OldIn, NewIn, Loadable, Loader, Registered
<1>8. CASE Stage
  BY <1>8
  DEF Stage, Unload, Kept, Present, NoBackup, Recovery, Swapping, OldIn, NewIn, Loadable, Loader,
     Registered
<1>9. CASE ClearBackup
  BY <1>9, ControlFacts, LoaderFacts, DirFacts, EntryFacts, ClearBackupMeans, RemovesFacts
  DEF SwapStops, Undone, Kept, Present, NoBackup, Recovery, Swapping, OldIn, NewIn, Loadable, Loader,
     Registered
<1>10. CASE MoveAway
  BY <1>10, ControlFacts, LoaderFacts, DirFacts, EntryFacts, MoveAwayMeans
  DEF SwapStops, Undone, Kept, Present, NoBackup, Recovery, Swapping, OldIn, NewIn, Loadable, Loader,
     Registered
<1>11. CASE MoveIn
  BY <1>11, ControlFacts, LoaderFacts, DirFacts, EntryFacts, MoveInMeans, NewDir
  DEF SwapStops, Undone, Kept, Present, NoBackup, Recovery, Swapping, OldIn, NewIn, Loadable, Loader,
     Registered
<1>12. CASE Copy
  BY <1>12, ControlFacts, LoaderFacts, DirFacts, EntryFacts, CopyMeans
  DEF Undone, Kept, Present, NoBackup, Recovery, Swapping, OldIn, NewIn, Loadable, Loader, Registered
<1>13. CASE LoadUpdate
  BY <1>13, ControlFacts, LoaderFacts, DirFacts, EntryFacts, LoadUpdateMeans
  DEF Loading, Undone, Kept, Present, NoBackup, Recovery, Swapping, OldIn, NewIn, Loadable, Loader,
     Registered
<1>14. CASE Cleanup
  BY <1>14, TypeFacts, ControlFacts, LoaderFacts, DirFacts, EntryFacts, CleanupMeans, RemovesFacts
  DEF Undone, Kept, Present, NoBackup, Recovery, Swapping, OldIn, NewIn, Loadable, Loader, Registered
<1>15. CASE Unswap BY <1>15, DirFacts DEF Unswap, Kept
<1>16. CASE Revert BY <1>16, ControlFacts, DirFacts DEF Revert, Kept, Swapping, OldIn, Loadable
<1>17. CASE Reload
  BY <1>17, ControlFacts, LoaderFacts, DirFacts, EntryFacts, ReloadMeans
  DEF Loading, Kept, Present, NoBackup, Recovery, Swapping, OldIn, NewIn, Loadable, Loader, Registered
<1>18. CASE RecoverBackup
  BY <1>18, ControlFacts, LoaderFacts, DirFacts, EntryFacts, RecoverBackupMeans, RemovesFacts
  DEF Kept, Present, NoBackup, Recovery, Swapping, OldIn, NewIn, Loadable, Loader, Registered
<1>19. CASE Scan
  BY <1>19, ControlFacts, LoaderFacts, DirFacts, EntryFacts, ScanMeans
  DEF Kept, Present, NoBackup, Recovery, Swapping, OldIn, NewIn, Loadable, Loader, Registered
<1>20. CASE Enable \/ Disable BY <1>20, BeginFacts DEF Enable, Disable, Kept
<1>21. CASE Uninstall BY <1>21, BeginFacts DEF Uninstall, Unload, Kept
<1>22. CASE \E v \in Versions : Install(v)
  BY <1>22, DirFacts, BeginGuard DEF Install, Running, Idle, Kept, NoBackup
<1>23. CASE \E v \in Versions : Update(v)
  BY <1>23, DirFacts, BeginGuard, BeginFacts DEF Update, Running, Idle, Kept, NoBackup
<1>24. CASE Store BY <1>24, DirFacts, StoreMeans DEF Await, Idle, Control, Kept
<1>25. CASE WorkerDies
  BY <1>25, ControlFacts, LoaderFacts, DirFacts, EntryFacts, WorkerDiesMeans
  DEF Await, Idle, Kept, Present, NoBackup, Recovery, Swapping, OldIn, NewIn, Loadable, Loader,
     Registered
<1>26. CASE Start BY <1>26, NoOpFacts DEF Start, Kept
<1>27. CASE Exit
  BY <1>27, ControlFacts, LoaderFacts, DirFacts, EntryFacts, DiesMeans
  DEF Exit, Await, Idle, Kept, Present, NoBackup, Recovery, Swapping, OldIn, NewIn, Loadable, Loader,
     Registered
<1>28. CASE Crash
  BY <1>28, ControlFacts, LoaderFacts, DirFacts, EntryFacts, DiesMeans
  DEF Crash, Kept, Present, NoBackup, Recovery, Swapping, OldIn, NewIn, Loadable, Loader, Registered
<1> QED BY <1>1, <1>2, <1>3, <1>4, <1>5, <1>6, <1>7, <1>8, <1>9, <1>10, <1>11, <1>12, <1>13, <1>14,
   <1>15, <1>16, <1>17, <1>18, <1>19, <1>20, <1>21, <1>22, <1>23, <1>24, <1>25, <1>26, <1>27, <1>28 DEF Next, Proceed, Request

(* No step acts against the operator's decision or overwrites it. *)
LEMMA WishNext ==
  ASSUME TypeOK, Control, Loader, Swapping, NoBackup, Recovery, Wish, Next
  PROVE  Wish'
<1>1. CASE EnableSucceeds BY <1>1, EnableSucceedsMeans DEF Wish
<1>2. CASE EnableThrows BY <1>2, EnableThrowsMeans DEF Wish
<1>3. CASE EnableFails BY <1>3, EnableFailsMeans DEF Wish
<1>4. CASE WorkerStops BY <1>4, WorkerStopsMeans DEF Wish
<1>5. CASE Forget BY <1>5 DEF Forget, Wish
<1>6. CASE Erase \/ Unswap \/ Revert \/ RecoverStaging \/ Subscribe \/ Close
  BY <1>6 DEF Erase, Unswap, Revert, RecoverStaging, Subscribe, Close, Wish, Idle
<1>7. CASE Place BY <1>7 DEF Place, Wish, Loader, Registered, Sandboxed, Idle
<1>8. CASE LoadInstalled BY <1>8, TypeFacts, LoadInstalledMeans DEF Loading, Wish
<1>9. CASE Stage
  BY <1>9, ControlFacts, LoaderFacts, PluginFacts, EntryFacts, NewDir
  DEF Stage, Unload, Wish, Loader, Registered, Sandboxed, Idle
<1>10. CASE ClearBackup BY <1>10, ClearBackupMeans DEF SwapStops, Undone, Wish, Idle
<1>11. CASE MoveAway BY <1>11, MoveAwayMeans DEF SwapStops, Undone, Wish, Idle
<1>12. CASE MoveIn BY <1>12, MoveInMeans DEF SwapStops, Undone, Wish, Idle
<1>13. CASE Copy BY <1>13, CopyMeans DEF Undone, Wish, Idle
<1>14. CASE LoadUpdate BY <1>14, TypeFacts, LoadUpdateMeans DEF Loading, Undone, Wish, Idle
<1>15. CASE Cleanup BY <1>15, PluginFacts, CleanupMeans DEF Undone, Wish, Idle
<1>16. CASE Reload BY <1>16, TypeFacts, ReloadMeans DEF Loading, Wish, Idle
<1>17. CASE RecoverBackup BY <1>17, RecoverBackupMeans DEF Wish, Idle
<1>18. CASE Scan BY <1>18, TypeFacts, ScanMeans DEF Wish
<1>19. CASE Restore BY <1>19, PluginFacts DEF Restore, Wish, Idle
<1>20. CASE Enable BY <1>20, TypeFacts, BeginFacts, DecideOf DEF Enable, Wish, Loader, Registered
<1>21. CASE Disable BY <1>21, TypeFacts, DecideOf DEF Disable, Idle, Wish
<1>22. CASE Uninstall BY <1>22, PluginFacts, BeginFacts DEF Uninstall, Unload, Wish
<1>23. CASE \E v \in Versions : Install(v) BY <1>23, BeginFacts, NewDir DEF Install, Idle, Wish
<1>24. CASE \E v \in Versions : Update(v) BY <1>24, BeginFacts DEF Update, Idle, Wish
<1>25. CASE Store BY <1>25, StoreMeans DEF Wish
<1>26. CASE WorkerDies BY <1>26, WorkerDiesMeans DEF Idle, Wish
<1>27. CASE Start BY <1>27, NoOpFacts DEF Start, Wish
<1>28. CASE Exit \/ Crash BY <1>28, DiesMeans DEF Exit, Crash, Wish
<1> QED BY <1>1, <1>2, <1>3, <1>4, <1>5, <1>6, <1>7, <1>8, <1>9, <1>10, <1>11, <1>12, <1>13, <1>14,
   <1>15, <1>16, <1>17, <1>18, <1>19, <1>20, <1>21, <1>22, <1>23, <1>24, <1>25, <1>26, <1>27, <1>28 DEF Next, Proceed, Request

(* No step fails an update, or leaves its plugin down, without a cause. *)
LEMMA CausedNext ==
  ASSUME TypeOK, Control, Loader, Swapping, NoBackup, Recovery, Caused, Next
  PROVE  Caused'
<1>1. CASE EnableSucceeds BY <1>1, EnableSucceedsMeans DEF Caused, Causes
<1>2. CASE EnableThrows BY <1>2, TypeFacts, EnableThrowsMeans DEF Caused, Causes
<1>3. CASE EnableFails BY <1>3, TypeFacts, EnableFailsMeans DEF Caused, Causes
<1>4. CASE WorkerStops BY <1>4, WorkerStopsMeans DEF Await, Idle, Caused, Causes, Loader, Sandboxed
<1>5. CASE Forget \/ Restore \/ Subscribe \/ Close
  BY <1>5 DEF Forget, Restore, Subscribe, Close, Caused, Causes, StartWorker
<1>6. CASE Erase \/ RecoverStaging BY <1>6, ControlFacts DEF Erase, RecoverStaging, Caused, Causes
<1>7. CASE Place
  BY <1>7, ControlFacts, LoaderFacts, PluginFacts, EntryFacts, SpendMeans
  DEF Place, Caused, Causes, Swapping, NoBackup, OldIn, NewIn, Loadable, Loader, Registered, Sandboxed
<1>8. CASE LoadInstalled BY <1>8, LoadInstalledMeans DEF Loading, Caused, Causes
<1>9. CASE Stage
  <2>1. op.kind = "update" /\ op.since <= faults /\ pc = "stage" BY <1>9, ControlFacts, StageMeans DEF Caused
  <2>2. CASE UNCHANGED counts /\ pc' \in {"stopping", "swap"}
    <3>1. op' = op /\ ~op.undo /\ op'.kind = op.kind /\ UNCHANGED worker BY <1>9, ControlFacts, StageMeans
    <3> QED BY <2>1, <2>2, <3>1 DEF Caused
  <2>3. CASE UNCHANGED plugin /\ faults' = faults + 1 /\ pc' = "failed"
    <3>1. op' = op /\ UNCHANGED <<up, gap>> BY <1>9, StageMeans
    <3>2. Causes' >= 1 BY <2>1, <2>3, <3>1, CausesGrow
    <3> QED BY <2>1, <2>3, <3>1, <3>2, TypeFacts DEF Caused
  <2> QED BY <1>9, <2>2, <2>3, StageMeans
<1>10. CASE ClearBackup BY <1>10, TypeFacts, ClearBackupMeans DEF SwapStops, Undone, Caused, Causes
<1>11. CASE MoveAway BY <1>11, TypeFacts, MoveAwayMeans DEF SwapStops, Undone, Caused, Causes
<1>12. CASE MoveIn BY <1>12, TypeFacts, MoveInMeans DEF SwapStops, Undone, Caused, Causes
<1>13. CASE Copy
  <2>1. op.kind = "update" /\ op.since <= faults BY <1>13, ControlFacts, CopyMeans DEF Caused
  <2>2. CASE UNCHANGED <<op, counts>> /\ pc' = "load"
    BY <1>13, <2>1, <2>2, CopyMeans DEF Caused, Causes
  <2>3. CASE Undone /\ pc' = "revert" /\ faults' = faults + 1
    <3>1. Causes' >= 1 BY <2>1, <2>3, CausesGrow DEF Undone
    <3> QED BY <1>13, <2>1, <2>3, <3>1, TypeFacts, CopyMeans DEF Caused, Undone
  <2> QED BY <1>13, <2>2, <2>3, CopyMeans
<1>14. CASE LoadUpdate
  <2>1. op.kind = "update" /\ op.since <= faults BY <1>14, LoadUpdateMeans DEF Caused
  <2>2. CASE Loading("cleanup")
    BY <1>14, <2>1, <2>2, TypeFacts, LoadUpdateMeans DEF Caused, Causes, Loading
  <2>3. CASE ~Loadable(live) /\ Undone /\ pc' = "revert"
    <3>1. op.ver \in Broken BY <1>14, <2>3, LoadUpdateMeans DEF Swapping, NewIn, Loadable
    <3>2. faults' = faults BY <1>14, LoadUpdateMeans
    <3>3. Causes' >= 1 BY <2>1, <2>3, <3>1, <3>2, CausesGrow DEF Undone
    <3> QED BY <1>14, <2>1, <2>3, <3>2, <3>3, TypeFacts, LoadUpdateMeans DEF Caused, Undone
  <2> QED BY <1>14, <2>2, <2>3, LoadUpdateMeans
<1>15. CASE Cleanup BY <1>15, TypeFacts, CleanupMeans DEF Undone, Caused, Causes
<1>16. CASE Unswap BY <1>16, TypeFacts, SpendMeans DEF Unswap, Caused, Causes
<1>17. CASE Revert BY <1>17, TypeFacts, SpendMeans DEF Revert, Caused, Causes
<1>18. CASE Reload BY <1>18, ReloadMeans DEF Loading, Caused, Causes, Swapping, OldIn
<1>19. CASE RecoverBackup BY <1>19, ControlFacts, RecoverBackupMeans DEF Caused, Causes
<1>20. CASE Scan BY <1>20, ScanMeans DEF Caused, Causes
<1>21. CASE Enable \/ Disable \/ Uninstall \/ (\E v \in Versions : Install(v))
  BY <1>21, BeginFacts DEF Enable, Disable, Uninstall, Install, Caused, Causes
<1>22. CASE \E v \in Versions : Update(v) BY <1>22, TypeFacts, BeginFacts DEF Update, Caused, Causes
<1>23. CASE Store BY <1>23, StoreMeans DEF Caused, Causes
<1>24. CASE WorkerDies BY <1>24, TypeFacts, WorkerDiesMeans DEF Idle, Caused, Causes
<1>25. CASE Start BY <1>25, NoOpFacts DEF Start, Caused, Causes
<1>26. CASE Exit \/ Crash BY <1>26, DiesMeans DEF Exit, Crash, Caused, Causes
<1> QED BY <1>1, <1>2, <1>3, <1>4, <1>5, <1>6, <1>7, <1>8, <1>9, <1>10, <1>11, <1>12, <1>13, <1>14,
   <1>15, <1>16, <1>17, <1>18, <1>19, <1>20, <1>21, <1>22, <1>23, <1>24, <1>25, <1>26 DEF Next, Proceed, Request

-----------------------------------------------------------------------------
(* The invariant, and what it means *)

(* The invariant holds as the process is first started. *)
LEMMA PluginInit == Init => IInv
<1> SUFFICES ASSUME Init PROVE IInv OBVIOUS
<1>1. live = NoDir \/ \E v \in Versions \ Broken : live = Dir(v, TRUE) BY DEF Init
<1>2. live = NoDir \/ live \in Dirs BY <1>1, NewDir
<1>3. entry \in Entry0 /\ (live = NoDir => entry = NoEntry)
  BY DEF Init, Entry0, Entries, Statuses
<1>4. op = NoOp("none") /\ op \in Ops /\ op.kind = "none" /\ ~op.undo /\ ~op.was BY NoOpFacts DEF Init
<1>5. plugin = NoPlugin /\ plugin.status = "none" BY PluginFacts DEF Init
<1>6. live # NoDir => Loadable(live) BY <1>1, NewDir DEF Loadable
<1>7. TypeOK
  <2>1. DiskTyped BY <1>2 DEF Init, DiskTyped, Dir0
  <2>2. EntryTyped /\ PluginTyped /\ RequestTyped BY <1>3, <1>4, <1>5 DEF EntryTyped, PluginTyped, RequestTyped, Plugin0
  <2>3. FlagsTyped BY DEF Init, FlagsTyped
  <2>4. CountsTyped BY DEF Init, CountsTyped
  <2>5. NamesTyped BY DEF Init, NamesTyped, Pcs
  <2> QED BY <2>1, <2>2, <2>3, <2>4, <2>5, TypeParts
<1>8. Control BY <1>4 DEF Init, Control
<1>9. Loader BY <1>5 DEF Init, Loader, Registered, Sandboxed
<1>10. Swapping /\ NoBackup /\ Caused BY <1>4 DEF Init, Swapping, NoBackup, Caused
<1>11. Recovery BY DirFacts DEF Init, Recovery
<1>12. Present BY <1>3, <1>6 DEF Init, Present
<1>13. Kept /\ Wish BY <1>5 DEF Init, Kept, Wish
<1> QED BY <1>7, <1>8, <1>9, <1>10, <1>11, <1>12, <1>13 DEF IInv

(* Every step keeps all types. *)
LEMMA TypeNext ==
  ASSUME TypeOK, Control, Loader, Swapping, Next
  PROVE  TypeOK'
BY DiskTypes, FlagTypes, EntryTypes, PluginTypes, RequestTypes, CountTypes, NameTypes, TypeParts
DEF TypeOK, DiskTyped, EntryTyped, PluginTyped, RequestTyped, FlagsTyped, CountsTyped, NamesTyped, Dir0, Entry0, Plugin0

(* So does a step in which nothing of this plugin changes. *)
LEMMA PluginStutter ==
  ASSUME IInv, UNCHANGED vars
  PROVE  IInv'
<1> USE DEF vars
<1>1. TypeOK' BY DEF IInv, TypeOK
<1>2. Control' /\ Loader' BY DEF IInv, Control, Loader, Registered, Sandboxed, Loadable
<1>3. Swapping' BY DEF IInv, Swapping, OldIn, NewIn, Loadable
<1>4. NoBackup' /\ Recovery' BY DEF IInv, NoBackup, Recovery, Loadable
<1>5. Present' /\ Kept' BY DEF IInv, Present, Kept, Loadable
<1>6. Wish' /\ Caused' BY DEF IInv, Wish, Caused, Causes, Idle
<1> QED BY <1>1, <1>2, <1>3, <1>4, <1>5, <1>6 DEF IInv

(* Every step keeps the invariant. *)
LEMMA PluginNext == IInv /\ [Next]_vars => IInv'
<1>1. ASSUME IInv, Next PROVE IInv'
  <2> USE <1>1 DEF IInv
  <2>1. TypeOK' /\ Control' BY TypeNext, ControlNext
  <2>2. Loader' BY RegisteredNext, SandboxedNext DEF Loader
  <2>3. Swapping' /\ NoBackup' /\ Recovery' BY SwappingNext, NoBackupNext, RecoveryNext
  <2>4. Present' /\ Kept' BY PresentNext, KeptNext
  <2>5. Wish' /\ Caused' BY WishNext, CausedNext
  <2> QED BY <2>1, <2>2, <2>3, <2>4, <2>5
<1> QED BY <1>1, PluginStutter

(* The invariant holds throughout. *)
LEMMA PluginInvariant == Spec => []IInv
BY PluginInit, PluginNext, PTL DEF Spec

(* Every variable keeps its type; in particular no plugin ever has two shims of its hook registered. *)
THEOREM PluginTypeOK == Spec => []TypeOK
BY PluginInvariant, PTL DEF IInv

(* Between requests the loader, the registry, the hooks, the worker and the directory agree. *)
LEMMA AgreesMeans == IInv => RuntimeAgrees
<1> SUFFICES ASSUME IInv PROVE RuntimeAgrees OBVIOUS
<1> USE DEF IInv, Loader, Registered, Sandboxed
<1>1. EnabledIsRunning BY TypeFacts DEF EnabledIsRunning, Idle
<1>2. RuntimeMatchesDisk BY DEF RuntimeMatchesDisk, Loadable
<1> QED BY <1>1, <1>2 DEF RuntimeAgrees

(* Loader, registry, hooks, worker and directory agree whenever nothing is under way, however enables *)
(* fail, workers die, and requests overlap the shutdown. *)
THEOREM PluginRuntimeAgrees == Spec => []RuntimeAgrees
BY PluginInvariant, AgreesMeans, PTL

(* Between requests there is no backup: what an update kept aside is in its place. *)
LEMMA SurvivesMeans == IInv => SurvivesUpdates
<1> SUFFICES ASSUME IInv PROVE SurvivesUpdates OBVIOUS
<1>1. NeverVanishes BY DEF IInv, Present, NeverVanishes, Running, Idle
<1>2. StateKept
  <2> SUFFICES ASSUME Running, Idle, stored, gap = {} PROVE live.data BY DEF StateKept
  <2>1. bak = NoDir BY DEF IInv, NoBackup, Running, Idle
  <2> QED BY <2>1, DirFacts DEF IInv, Kept
<1> QED BY <1>1, <1>2 DEF SurvivesUpdates

(* Neither a plugin nor what it has stored is lost to an update, however it failed or the process died *)
(* in it, nor to the recovery, but for what the gaps name. *)
THEOREM PluginSurvivesUpdates == Spec => []SurvivesUpdates
BY PluginInvariant, SurvivesMeans, PTL

(* The answer of an update tells what is on the disk. *)
LEMMA AtomicMeans == IInv => UpdateAtomic
<1> SUFFICES ASSUME IInv, op.kind = "update", gap = {}
             PROVE /\ pc = "done" => /\ live.ver = op.ver /\ live.whole /\ bak = NoDir /\ new = NoDir
                                     /\ op.was /\ up = "up" /\ faults = op.since => plugin.status = "enabled"
                   /\ pc = "failed" => /\ live.ver = op.before /\ live.whole /\ bak = NoDir /\ new = NoDir
                                       /\ op.was /\ up = "up" /\ Causes <= 1 => plugin.status = "enabled"
  BY DEF UpdateAtomic
<1>1. CASE pc = "done" BY <1>1 DEF IInv, Swapping, NewIn, Caused
<1>2. CASE pc = "failed"
  <2>1. bak = NoDir BY <1>2 DEF IInv, NoBackup, Control
  <2> QED BY <1>2, <2>1 DEF IInv, Swapping, OldIn, Loadable, Caused
<1> QED BY <1>1, <1>2

(* An update is all or nothing: the new version with its backup gone, or the old one back; and the *)
(* plugin runs if it ran before and nothing more has failed than what the answer is about. *)
THEOREM PluginUpdateAtomic == Spec => []UpdateAtomic
BY PluginInvariant, AtomicMeans, PTL

(* The decision is recorded, and nothing runs against it. *)
LEMMA DecisionMeans == IInv => DecisionHonoured
BY TypeFacts DEF IInv, Wish, Loader, Sandboxed, Control, DecisionHonoured, Idle

(* The registry holds the operator's last decision through updates, failures, shutdowns and crashes, *)
(* and nothing runs against it. *)
THEOREM PluginDecisionHonoured == Spec => []DecisionHonoured
BY PluginInvariant, DecisionMeans, PTL

=============================================================================
