------------------------------ MODULE Installer ------------------------------
(***************************************************************************)
(* hpc-batch-install (src/hpc_batch/install.py): install, which is also the  *)
(* upgrade, uninstall and purge, run one after the other against one prefix,  *)
(* each of which may be refused, fail or be killed between any two of its     *)
(* steps.  What persists is the machine: the virtualenv with the record of    *)
(* the last install in it, the entry points, the unit, the PATH entry, and     *)
(* what systemd made of them.                                               *)
(***************************************************************************)
EXTENDS Naturals, FiniteSets

CONSTANTS
  Dirs, DefaultDir,     \* for --bin-dir, and DEFAULT_BIN_DIR
  Groups,               \* for --admin-group, and those ADMIN_GROUPS may find
  EntryPoints, Daemon,  \* ENTRY_POINTS, and hpc-batchd among them
  StateDir,             \* where a drop-in of the unit has the daemon keep state
  DefaultState,         \* DEFAULT_STATE_DIR
  JobCgroups,           \* what else a purge finds
  None, Torn,           \* no value; a file cut short
  MaxRuns               \* runs of the installer

Layout == [bin_dir : Dirs, admin_group : Groups]

ASSUME InstallerAssumption ==
  /\ DefaultDir \in Dirs /\ Daemon \in EntryPoints /\ MaxRuns \in Nat
  /\ {None, Torn} \cap (Layout \cup Dirs \cup Groups) = {} /\ None # Torn
  /\ JobCgroups \notin {StateDir, DefaultState}

VARIABLES
  venv,      \* the prefix: "absent", "bare", with "pip", with the "package"
  record,    \* install.json in it, None if it is not there or not readable
  links,     \* the entry points in the directories for them
  profile,   \* the directory PROFILE_PATH puts on PATH
  unit,      \* the layout UNIT_PATH names
  loaded,    \* the one systemd has loaded
  enabled,   \* the unit starts at boot
  service,   \* the one on the command line of the running daemon
  data,      \* what the daemon keeps, or left behind
  step, run, \* the installer: where it is, and its locals
  runs,
  strays     \* layouts in use that no record names (an account, no code's state)

prefixVars == << venv, record >>
fileVars == << links, profile, unit >>
systemdVars == << loaded, enabled, service >>
vars == << prefixVars, fileVars, systemdVars, data, step, run, runs, strays >>

Steps == {"venv", "pip", "unlink", "symlink", "profile", "unit", "record", "reload", "start",
          "disable", "rm unit", "rm profile", "rm links", "rmtree", "forget", "purge"}
Ends  == {"stopped", "warned", "done"}

(***************************************************************************)
(* layout: what an install settled on.  provided: another login-shell file   *)
(* puts its directory on PATH.  todo: the entry points it has still to link,  *)
(* or an uninstall to unlink.  state_dir: where systemd, if it told, has the  *)
(* daemon keep its state.                                                   *)
(***************************************************************************)
Run == [ kind : {"none", "install", "uninstall", "purge"}, layout : Layout \cup {None},
         start : BOOLEAN, provided : BOOLEAN, todo : SUBSET (Dirs \X EntryPoints),
         state_dir : {StateDir, DefaultState}, told : BOOLEAN ]

NoRun == [ kind |-> "none", layout |-> None, start |-> FALSE, provided |-> FALSE,
           todo |-> {}, state_dir |-> DefaultState, told |-> FALSE ]

Over == step \in Ends

Init ==
  /\ venv = "absent" /\ record = None
  /\ links = {} /\ profile = None /\ unit = None
  /\ loaded = None /\ enabled = FALSE /\ service = None /\ data = {}
  /\ step = "stopped" /\ runs = 0 /\ strays = {}
  /\ run = NoRun

-----------------------------------------------------------------------------
(***************************************************************************)
(* What a run starts from.                                                  *)
(***************************************************************************)
Remembered(key) == IF record = None THEN None ELSE record[key]

Refused(key, given) == given # None /\ Remembered(key) \notin {None, given}

\* a fault: what was passed, or else the default
SettleAfresh(key, given) == given

Settle(key, given) == IF given = None THEN Remembered(key) ELSE given

\* a fault: nothing stands in for a directory nobody chose
SettledNoDefault(dir, group, found) ==
  LET g == Settle("admin_group", group)
  IN  [ bin_dir     |-> Settle("bin_dir", dir),
        admin_group |-> IF g = None THEN found ELSE g ]

\* the layout for the options passed, with the group found if none is settled
Settled(dir, group, found) ==
  LET d == Settle("bin_dir", dir)
      g == Settle("admin_group", group)
  IN  [ bin_dir     |-> IF d = None THEN DefaultDir ELSE d,
        admin_group |-> IF g = None THEN found ELSE g ]

BinDirsToClean(given) ==
  LET dirs == {Remembered("bin_dir"), given} \ {None}
  IN  IF dirs = {} THEN {DefaultDir} ELSE dirs

EntriesIn(dirs) == dirs \X EntryPoints

\* --already-installed skips the virtualenv: install.sh made it
Install ==
  /\ Over /\ runs < MaxRuns
  /\ \E dir \in Dirs \cup {None}, group \in Groups \cup {None}, found \in Groups,
        already, start, provided \in BOOLEAN :
       LET layout == Settled(dir, group, found) IN
       /\ ~Refused("bin_dir", dir) /\ ~Refused("admin_group", group)
       /\ run' = [ NoRun EXCEPT !.kind = "install", !.layout = layout, !.start = start,
                                !.provided = provided, !.todo = EntriesIn({layout.bin_dir}) ]
       /\ step' = IF already THEN "unlink" ELSE "venv"
  /\ runs' = runs + 1
  /\ UNCHANGED << prefixVars, fileVars, systemdVars, data, strays >>

Uninstall ==
  /\ Over /\ runs < MaxRuns
  /\ \E given \in Dirs \cup {None}, kind \in {"uninstall", "purge"} :
       run' = [ NoRun EXCEPT !.kind = kind, !.todo = EntriesIn(BinDirsToClean(given)),
                             !.told = loaded # None,
                             !.state_dir = IF loaded # None THEN StateDir ELSE DefaultState ]
  /\ step' = "disable" /\ runs' = runs + 1
  /\ UNCHANGED << prefixVars, fileVars, systemdVars, data, strays >>

-----------------------------------------------------------------------------
(***************************************************************************)
(* The steps of an install.                                                 *)
(***************************************************************************)
MakeVenv ==
  /\ step = "venv"
  /\ venv' = IF venv \in {"absent", "bare"} THEN "pip" ELSE venv
  /\ step' = "pip"
  /\ UNCHANGED << record, fileVars, systemdVars, data, run, runs, strays >>

Pip ==
  /\ step = "pip"
  /\ venv' = "package" /\ step' = "unlink"
  /\ UNCHANGED << record, fileVars, systemdVars, data, run, runs, strays >>

\* the order of ENTRY_POINTS is some order
NextEntry == CHOOSE e \in run.todo : TRUE

UnlinkEntry ==
  /\ step = "unlink" /\ run.todo # {} /\ venv = "package"
  /\ links' = links \ {NextEntry} /\ step' = "symlink"
  /\ UNCHANGED << prefixVars, profile, unit, systemdVars, data, run, runs, strays >>

\* a layout that is not on record is a stray until it is
SymlinkEntry ==
  /\ step = "symlink"
  /\ links' = links \cup {NextEntry}
  /\ run' = [run EXCEPT !.todo = @ \ {NextEntry}]
  /\ step' = IF run'.todo = {} THEN "profile" ELSE "unlink"
  /\ strays' = IF record = run.layout THEN strays ELSE strays \cup {run.layout}
  /\ UNCHANGED << prefixVars, profile, unit, systemdVars, data, runs >>

\* a fault: a PATH entry of an earlier run stays where another provides it
WriteProfileOnly ==
  /\ step = "profile"
  /\ profile' = IF run.provided THEN profile ELSE run.layout.bin_dir
  /\ step' = "unit"
  /\ UNCHANGED << prefixVars, links, unit, systemdVars, data, run, runs, strays >>

WriteProfile ==
  /\ step = "profile"
  /\ profile' = IF run.provided THEN None ELSE run.layout.bin_dir
  /\ step' = "unit"
  /\ UNCHANGED << prefixVars, links, unit, systemdVars, data, run, runs, strays >>

WriteUnit ==
  /\ step = "unit"
  /\ unit' = run.layout /\ step' = "record"
  /\ UNCHANGED << prefixVars, links, profile, systemdVars, data, run, runs, strays >>

WriteRecord ==
  /\ step = "record"
  /\ record' = run.layout /\ strays' = strays \ {run.layout} /\ step' = "reload"
  /\ UNCHANGED << venv, fileVars, systemdVars, data, run, runs >>

\* what systemd makes of the unit file at a daemon-reload
Parsed == IF unit \in Layout THEN unit ELSE None

ReloadManager ==
  /\ step = "reload"
  /\ loaded' = Parsed
  /\ step' = IF run.start THEN "start" ELSE "done"
  /\ UNCHANGED << prefixVars, fileVars, enabled, service, data, run, runs, strays >>

\* SIGHUP: the daemon becomes the new code, with the arguments it had
ReloadDaemon ==
  /\ step = "start" /\ service # None
  /\ step' = "done"
  /\ UNCHANGED << prefixVars, fileVars, systemdVars, data, run, runs, strays >>

EnableDaemon ==
  /\ step = "start" /\ service = None
  /\ enabled' = TRUE /\ service' = loaded
  /\ data' = data \cup {StateDir, JobCgroups}
  /\ step' = "done"
  /\ UNCHANGED << prefixVars, fileVars, loaded, run, runs, strays >>

-----------------------------------------------------------------------------
(***************************************************************************)
(* The steps of an uninstall.                                               *)
(***************************************************************************)
Disable ==
  /\ step = "disable"
  /\ \/ unit # None /\ enabled' = FALSE /\ service' = None /\ UNCHANGED strays
     \* systemctl disable --now fails, and its exit code is not looked at
     \/ UNCHANGED << enabled, service >> /\ strays' = strays \cup ({service} \ {None})
  /\ step' = "rm unit"
  /\ UNCHANGED << prefixVars, fileVars, loaded, data, run, runs >>

RemoveUnit ==
  /\ step = "rm unit"
  /\ unit' = None /\ step' = "rm profile"
  /\ UNCHANGED << prefixVars, links, profile, systemdVars, data, run, runs, strays >>

RemoveProfile ==
  /\ step = "rm profile"
  /\ profile' = None /\ step' = "rm links"
  /\ UNCHANGED << prefixVars, links, unit, systemdVars, data, run, runs, strays >>

RemoveEntry ==
  /\ step = "rm links"
  /\ links' = links \ {NextEntry}
  /\ run' = [run EXCEPT !.todo = @ \ {NextEntry}]
  /\ step' = IF run'.todo = {} THEN "rmtree" ELSE "rm links"
  /\ UNCHANGED << prefixVars, profile, unit, systemdVars, data, runs, strays >>

\* rmtree ignores what it cannot remove
RemovePrefix ==
  /\ step = "rmtree"
  /\ \/ venv' = "absent" /\ record' = None
     \/ venv' \in {venv, "bare"} /\ venv # "absent" /\ record' \in {record, None}
  /\ step' = "forget"
  /\ UNCHANGED << fileVars, systemdVars, data, run, runs, strays >>

ForgetUnit ==
  /\ step = "forget"
  /\ loaded' = Parsed
  /\ step' = IF run.kind = "purge" THEN "purge" ELSE "done"
  /\ UNCHANGED << prefixVars, fileVars, enabled, service, data, run, runs, strays >>

\* what purge(paths) is to remove
Owned == data \cap {run.state_dir, JobCgroups}

\* cgroups still busy and files still there are warned of
Purge ==
  /\ step = "purge"
  /\ \E left \in SUBSET Owned :
       /\ data' = (data \ Owned) \cup left
       /\ step' = IF left = {} THEN "done" ELSE "warned"
  /\ UNCHANGED << prefixVars, fileVars, systemdVars, run, runs, strays >>

-----------------------------------------------------------------------------
(***************************************************************************)
(* What cuts a run short: a step that raises, the process killed, the         *)
(* machine down.  A file being written is left cut short, a tree being made   *)
(* or removed half done.                                                    *)
(***************************************************************************)
\* the layouts nothing will name any more
LostSight ==
  CASE record' # None -> {}
    [] record' = None /\ step = "record" -> {record}
    [] record' = None /\ step \in {"rmtree", "forget"} -> {loaded}
    [] OTHER -> {}

CutShort ==
  /\ step \in Steps
  /\ venv' \in CASE step = "venv"   -> {venv} \cup (IF venv = "absent" THEN {"bare"} ELSE {})
                 [] step = "pip"    -> {venv, "pip"}
                 [] step = "rmtree" -> {venv} \cup (IF venv # "absent" THEN {"bare"} ELSE {})
                 [] OTHER           -> {venv}
  /\ profile' \in IF step = "profile" THEN {profile, Torn} ELSE {profile}
  /\ unit' \in IF step = "unit" THEN {unit, Torn} ELSE {unit}
  /\ record' \in IF step \in {"record", "rmtree"} THEN {record, None} ELSE {record}
  /\ strays' = strays \cup (LostSight \ {None})
  /\ enabled' \in CASE step = "start" /\ service = None -> {enabled, TRUE}
                     [] step = "disable" /\ unit # None -> {enabled, FALSE}
                     [] OTHER -> {enabled}
  /\ \E left \in SUBSET Owned : data' = IF step = "purge" THEN (data \ Owned) \cup left ELSE data
  /\ step' = "stopped" /\ run' = NoRun
  /\ UNCHANGED << links, loaded, service, runs >>

\* the daemon's binary is where the unit says
Starts(layout) ==
  layout # None /\ venv = "package" /\ << layout.bin_dir, Daemon >> \in links

Reboot ==
  /\ Over
  /\ loaded' = Parsed
  /\ service' = IF enabled /\ Starts(Parsed) THEN Parsed ELSE None
  /\ data' = (data \ {JobCgroups}) \cup (IF service' = None THEN {} ELSE {StateDir, JobCgroups})
  /\ UNCHANGED << prefixVars, fileVars, enabled, step, run, runs, strays >>

\* systemctl start, or restart, by an admin
AdminStart ==
  /\ Over /\ Starts(loaded)
  /\ service' = loaded /\ data' = data \cup {StateDir, JobCgroups}
  /\ UNCHANGED << prefixVars, fileVars, loaded, enabled, step, run, runs, strays >>

\* the daemon refuses its configuration, or dies
DaemonExits ==
  /\ service # None
  /\ service' = None
  /\ UNCHANGED << prefixVars, fileVars, loaded, enabled, data, step, run, runs, strays >>

\* install.sh, up to where it hands over
Bootstrap ==
  /\ Over /\ runs < MaxRuns
  /\ venv' = "package"
  /\ UNCHANGED << record, fileVars, systemdVars, data, step, run, runs, strays >>

-----------------------------------------------------------------------------
Installing   == MakeVenv \/ Pip \/ UnlinkEntry \/ SymlinkEntry \/ WriteProfile \/ WriteUnit
                \/ WriteRecord \/ ReloadManager \/ ReloadDaemon \/ EnableDaemon
Uninstalling == Disable \/ RemoveUnit \/ RemoveProfile \/ RemoveEntry \/ RemovePrefix
                \/ ForgetUnit \/ Purge
World        == Reboot \/ AdminStart \/ DaemonExits \/ Bootstrap

Next == Install \/ Uninstall \/ Installing \/ Uninstalling \/ CutShort \/ World

Spec == Init /\ [][Next]_vars

-----------------------------------------------------------------------------
(***************************************************************************)
(* Properties.                                                              *)
(***************************************************************************)
TypeOK ==
  /\ venv \in {"absent", "bare", "pip", "package"}
  /\ record \in Layout \cup {None}
  /\ links \subseteq Dirs \X EntryPoints
  /\ profile \in Dirs \cup {None, Torn}
  /\ unit \in Layout \cup {None, Torn} /\ loaded \in Layout \cup {None}
  /\ enabled \in BOOLEAN /\ service \in Layout \cup {None}
  /\ data \subseteq {StateDir, JobCgroups}
  /\ step \in Steps \cup Ends /\ run \in Run /\ runs \in 0..MaxRuns
  /\ strays \subseteq Layout
  /\ run.kind = "install" => run.layout \in Layout

(***************************************************************************)
(* Whatever is on the machine belongs to the layout on record, where a later *)
(* upgrade keeps to it and an uninstall finds it: no sequence of runs, cut    *)
(* short or not, splits an install over two layouts ("leaving the old entry   *)
(* points behind unmanaged", install.py 8-13, 142-151, 165-171).  The strays *)
(* are the layouts the code is known to lose sight of: of a first install cut *)
(* short before its record, of a record cut short as it was rewritten, of a    *)
(* daemon that did not stop for an uninstall, of a unit that systemd still has  *)
(* because the uninstall that forgot the layout was cut short.                *)
(***************************************************************************)
Known == strays \cup ({record} \ {None})

Managed ==
  /\ \A entry \in links : \E l \in Known : l.bin_dir = entry[1]
  /\ profile \in {None, Torn} \/ \E l \in Known : l.bin_dir = profile
  /\ unit \in Known \cup {None, Torn}
  /\ service \in Known \cup {None}

(***************************************************************************)
(* A run that says it is done has done it, whatever the runs before left: an *)
(* install has every part of one layout in place and PATH leads to it once    *)
(* (install.py 8-18); after an uninstall nothing is left that starts the       *)
(* daemon or leads to it, save the links of strays; and a purge that           *)
(* systemd answered has left no job data (install.py 184-204).                *)
(***************************************************************************)
Installed(layout) ==
  /\ venv = "package" /\ EntriesIn({layout.bin_dir}) \subseteq links
  /\ record = layout /\ unit = layout
  /\ profile = IF run.provided THEN None ELSE layout.bin_dir

Removed ==
  /\ unit = None /\ profile = None
  /\ \A entry \in links : \E l \in strays : l.bin_dir = entry[1]

DoneIsDone ==
  step = "done" =>
    /\ run.kind = "install" => Installed(run.layout) /\ loaded = run.layout
    /\ run.kind # "install" => Removed /\ loaded = None
    /\ run.kind = "purge" /\ run.told => StateDir \notin data
==============================================================================
