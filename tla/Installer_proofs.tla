--------------------------- MODULE Installer_proofs ---------------------------
(***************************************************************************)
(* Nothing installed goes unmanaged and a run that says it is done has done  *)
(* it, for any directories, groups and entry points and any number of runs.   *)
(*                                                                         *)
(* What carries it: an install settles on the layout on record, so the record *)
(* it writes takes none out of sight; and an uninstall takes the record only  *)
(* after everything that the record alone leads to.                          *)
(***************************************************************************)
EXTENDS Installer, TLAPS

InstallSteps   == {"venv", "pip", "unlink", "symlink", "profile", "unit", "record", "reload",
                   "start"}
UninstallSteps == {"disable", "rm unit", "rm profile", "rm links", "rmtree", "forget", "purge"}

Stray(dir) == \E l \in strays : l.bin_dir = dir

\* what an install relies on, from each of its steps to the next
InstallOK ==
  step \in InstallSteps =>
    LET entries == EntriesIn({run.layout.bin_dir}) IN
    /\ run.kind = "install" /\ record \in {None, run.layout} /\ run.todo \subseteq entries
    /\ step \in {"venv", "pip", "unlink", "symlink"} => entries \ run.todo \subseteq links
    /\ step = "symlink" => run.todo # {} /\ venv = "package"
    /\ step \in {"profile", "unit", "record", "reload", "start"} =>
         venv = "package" /\ entries \subseteq links /\ run.layout \in Known
    /\ step \in {"unit", "record", "reload", "start"} =>
         profile = IF run.provided THEN None ELSE run.layout.bin_dir
    /\ step \in {"record", "reload", "start"} => unit = run.layout
    /\ step \in {"reload", "start"} => record = run.layout
    /\ step = "start" => loaded = run.layout

\* what an uninstall has taken, from each of its steps to the next
UninstallOK ==
  step \in UninstallSteps =>
    /\ run.kind \in {"uninstall", "purge"}
    /\ run.told => run.state_dir = StateDir
    /\ step \in {"disable", "rm unit", "rm profile"} /\ record # None =>
         EntriesIn({record.bin_dir}) \subseteq run.todo
    /\ step # "disable" => service \in strays \cup {None}
    /\ step \notin {"disable", "rm unit"} => unit = None
    /\ step \notin {"disable", "rm unit", "rm profile"} => profile = None
    /\ step = "rm links" => \A e \in links : e \in run.todo \/ Stray(e[1])
    /\ step \in {"rmtree", "forget", "purge"} => \A e \in links : Stray(e[1])
    /\ step = "purge" => loaded = None /\ run.kind = "purge"

\* systemd has a forgotten layout only until the uninstall reloads it
LoadedOK ==
  \/ loaded \in Known \cup {None}
  \/ step = "forget" /\ record = None

IInv == TypeOK /\ Managed /\ DoneIsDone /\ InstallOK /\ UninstallOK /\ LoadedOK

-----------------------------------------------------------------------------
\* Between runs there is no run.
LEMMA NoRunOK == NoRun \in Run
  BY DEF NoRun, Run

\* A machine without an install satisfies the invariant.
LEMMA Initially == Init => IInv
<1> SUFFICES ASSUME Init PROVE IInv
  OBVIOUS
<1> USE DEF Init
<1>1. TypeOK
  <2>1. run \in Run /\ run.kind # "install"
    BY NoRunOK DEF NoRun
  <2>2. step \in Steps \cup Ends
    BY DEF Ends
  <2>3. runs \in 0..MaxRuns
    BY InstallerAssumption
  <2> HIDE DEF Init
  <2> QED
    BY <2>1, <2>2, <2>3 DEF TypeOK, Init
<1>2. Managed
  BY DEF Managed
<1>3. DoneIsDone /\ LoadedOK
  BY DEF DoneIsDone, LoadedOK
<1>4. InstallOK /\ UninstallOK
  BY DEF InstallOK, UninstallOK, InstallSteps, UninstallSteps, Steps
<1> QED
  BY <1>1, <1>2, <1>3, <1>4 DEF IInv

\* The beginning of an install, or of an upgrade.
LEMMA InstallStep == IInv /\ Install => IInv'
<1> SUFFICES ASSUME IInv, Install PROVE IInv'
  OBVIOUS
<1> USE InstallerAssumption DEF IInv
<1>1. PICK dir \in Dirs \cup {None}, group \in Groups \cup {None}, found \in Groups,
           already, start, provided \in BOOLEAN :
        /\ ~Refused("bin_dir", dir) /\ ~Refused("admin_group", group)
        /\ run' = [ NoRun EXCEPT !.kind = "install", !.layout = Settled(dir, group, found),
                                 !.start = start, !.provided = provided,
                                 !.todo = EntriesIn({Settled(dir, group, found).bin_dir}) ]
        /\ step' = IF already THEN "unlink" ELSE "venv"
  BY DEF Install
<1> DEFINE layout == Settled(dir, group, found)
<1>2. layout \in Layout /\ record \in {None, layout}
  <2>1. record = None \/ record \in Layout
    BY DEF TypeOK
  <2>2. CASE record = None
    BY <2>2 DEF Settled, Settle, Remembered, Layout
  <2>3. CASE record \in Layout
    <3>1. record # None
      BY <2>3
    <3>2. dir \in {None, record.bin_dir} /\ group \in {None, record.admin_group}
      BY <1>1, <3>1, <2>3 DEF Refused, Remembered, Layout
    <3>3. record.bin_dir # None /\ record.admin_group # None
      BY <2>3 DEF Layout
    <3>4. layout = [bin_dir |-> record.bin_dir, admin_group |-> record.admin_group]
      BY <3>1, <3>2, <3>3 DEF Settled, Settle, Remembered
    <3> QED
      BY <2>3, <3>4 DEF Layout
  <2> QED
    BY <2>1, <2>2, <2>3
<1>3. /\ run' \in Run /\ run'.kind = "install" /\ run'.layout = layout
      /\ run'.todo = EntriesIn({layout.bin_dir})
  <2>1. EntriesIn({layout.bin_dir}) \subseteq Dirs \X EntryPoints
    BY <1>2 DEF EntriesIn, Layout
  <2> HIDE DEF layout
  <2> QED
    BY <1>1, <1>2, <2>1 DEF NoRun, Run, layout
<1> HIDE DEF layout
<1>4. UNCHANGED << prefixVars, fileVars, systemdVars, data, strays >> /\ runs' = runs + 1
      /\ runs < MaxRuns
  BY DEF Install
<1> USE DEF prefixVars, fileVars, systemdVars
<1>5. TypeOK'
  <2>1. step' \in Steps \cup Ends
    BY <1>1 DEF Steps
  <2>2. runs' \in 0..MaxRuns
    BY <1>4 DEF TypeOK
  <2>3. run' \in Run /\ run'.layout \in Layout
    BY <1>2, <1>3
  <2> QED
    BY <1>4, <2>1, <2>2, <2>3 DEF TypeOK
<1>6. Managed'
  <2>1. Known' = Known
    BY <1>4 DEF Known
  <2> QED
    BY <1>4, <2>1 DEF Managed
<1>7. InstallOK' /\ UninstallOK' /\ DoneIsDone'
  BY <1>1, <1>2, <1>3, <1>4
     DEF InstallOK, UninstallOK, DoneIsDone, InstallSteps, UninstallSteps, Known
<1>8. LoadedOK'
  BY <1>4 DEF LoadedOK, Known, Install, Over, Ends
<1> QED
  BY <1>5, <1>6, <1>7, <1>8

\* What is installed stays accounted for when nothing is added to it.
LEMMA StillManaged ==
  ASSUME Managed, Known \subseteq Known', links' \subseteq links,
         profile' \in {profile, None, Torn}, unit' \in {unit, None, Torn},
         service' \in {service, None}
  PROVE  Managed'
  BY DEF Managed

\* A step that is done is left out of what is to be done.
LEMMA TodoShrinks ==
  ASSUME run \in Run, run' = [run EXCEPT !.todo = @ \ {NextEntry}]
  PROVE  /\ run' \in Run /\ run'.todo = run.todo \ {NextEntry}
         /\ run'.kind = run.kind /\ run'.layout = run.layout /\ run'.provided = run.provided
         /\ run'.told = run.told /\ run'.state_dir = run.state_dir
  BY DEF Run

\* The steps of an install.
LEMMA InstallingOK == IInv /\ Installing => IInv'
<1> SUFFICES ASSUME IInv, Installing PROVE IInv'
  OBVIOUS
<1> USE InstallerAssumption DEF IInv, InstallSteps, UninstallSteps
<1>1. CASE MakeVenv
  <2> USE <1>1
  <2>1. step = "venv" /\ step' = "pip"
    BY DEF MakeVenv
  <2>2. UNCHANGED << record, links, profile, unit, loaded, enabled, service, data, run, runs, strays >>
    BY DEF MakeVenv, prefixVars, fileVars, systemdVars
  <2>3. TypeOK'
    BY <2>1, <2>2 DEF MakeVenv, TypeOK, Steps, Ends
  <2>4. Managed'
    BY <2>2, StillManaged DEF MakeVenv, Known
  <2>5. InstallOK'
    BY <2>1, <2>2 DEF MakeVenv, InstallOK, EntriesIn, Known
  <2>6. UninstallOK'
    BY <2>1 DEF UninstallOK
  <2>7. DoneIsDone'
    BY <2>1 DEF DoneIsDone
  <2>8. LoadedOK'
    BY <2>1, <2>2 DEF MakeVenv, LoadedOK, Known
  <2> QED
    BY <2>3, <2>4, <2>5, <2>6, <2>7, <2>8
<1>2. CASE Pip
  <2> USE <1>2
  <2>1. step = "pip" /\ step' = "unlink"
    BY DEF Pip
  <2>2. UNCHANGED << record, links, profile, unit, loaded, enabled, service, data, run, runs, strays >>
    BY DEF Pip, prefixVars, fileVars, systemdVars
  <2>3. TypeOK'
    BY <2>1, <2>2 DEF Pip, TypeOK, Steps, Ends
  <2>4. Managed'
    BY <2>2, StillManaged DEF Pip, Known
  <2>5. InstallOK'
    BY <2>1, <2>2 DEF Pip, InstallOK, EntriesIn, Known
  <2>6. UninstallOK'
    BY <2>1 DEF UninstallOK
  <2>7. DoneIsDone'
    BY <2>1 DEF DoneIsDone
  <2>8. LoadedOK'
    BY <2>1, <2>2 DEF Pip, LoadedOK, Known
  <2> QED
    BY <2>3, <2>4, <2>5, <2>6, <2>7, <2>8
<1>3. CASE UnlinkEntry
  <2> USE <1>3
  <2>1. step = "unlink" /\ step' = "symlink"
    BY DEF UnlinkEntry
  <2>2. UNCHANGED << venv, record, profile, unit, loaded, enabled, service, data, run, runs, strays >>
    BY DEF UnlinkEntry, prefixVars, fileVars, systemdVars
  <2>3. TypeOK'
    BY <2>1, <2>2 DEF UnlinkEntry, TypeOK, Steps, Ends
  <2>4. Managed'
    BY <2>2, StillManaged DEF UnlinkEntry, Known
  <2>5. InstallOK'
    <3>1. NextEntry \in run.todo
      BY DEF UnlinkEntry, NextEntry
    <3>2. links' = links \ {NextEntry} /\ venv = "package" /\ run.todo # {}
      BY DEF UnlinkEntry
    <3> QED
      BY <2>1, <2>2, <3>1, <3>2 DEF InstallOK
  <2>6. UninstallOK'
    BY <2>1 DEF UninstallOK
  <2>7. DoneIsDone'
    BY <2>1 DEF DoneIsDone
  <2>8. LoadedOK'
    BY <2>1, <2>2 DEF UnlinkEntry, LoadedOK, Known
  <2> QED
    BY <2>3, <2>4, <2>5, <2>6, <2>7, <2>8
<1>4. CASE SymlinkEntry
  <2> USE <1>4
  <2>1. step = "symlink" /\ step' \in {"profile", "unlink"}
    BY DEF SymlinkEntry
  <2>2. UNCHANGED << venv, record, profile, unit, loaded, enabled, service, data, runs >>
    BY DEF SymlinkEntry, prefixVars, fileVars, systemdVars
  <2>3. TypeOK'
    <3>1. run' \in Run /\ run'.kind = run.kind /\ run'.layout = run.layout
      BY TodoShrinks DEF SymlinkEntry, TypeOK
    <3>2. NextEntry \in run.todo
      BY <2>1 DEF InstallOK, NextEntry
    <3>3. links' \subseteq Dirs \X EntryPoints
      BY <3>2 DEF SymlinkEntry, TypeOK, Run
    <3>4. strays' \subseteq Layout
      BY <2>1 DEF SymlinkEntry, TypeOK, InstallOK
    <3>5. step' \in Steps \cup Ends
      BY <2>1 DEF Steps, Ends
    <3> QED
      BY <2>1, <2>2, <3>1, <3>3, <3>4, <3>5 DEF TypeOK
  <2>4. Managed'
    <3>1. NextEntry \in EntriesIn({run.layout.bin_dir})
      BY <2>1 DEF InstallOK, NextEntry
    <3>2. NextEntry[1] = run.layout.bin_dir
      BY <3>1 DEF EntriesIn
    <3>3. run.layout \in Known' /\ Known \subseteq Known'
      BY <2>1, <2>2 DEF SymlinkEntry, Known, TypeOK, InstallOK
    <3>4. \A e \in links' : e \in links \/ e = NextEntry
      BY DEF SymlinkEntry
    <3> QED
      BY <2>2, <3>2, <3>3, <3>4 DEF Managed
  <2>5. InstallOK'
    <3>1. /\ run'.todo = run.todo \ {NextEntry} /\ run'.kind = run.kind
          /\ run'.layout = run.layout
      BY TodoShrinks DEF SymlinkEntry, TypeOK
    <3>2. run.layout \in Known'
      BY <2>1, <2>2 DEF SymlinkEntry, Known, TypeOK, InstallOK
    <3>3. step' = "profile" => run'.todo = {}
      BY <2>1 DEF SymlinkEntry
    <3>4. links' = links \cup {NextEntry}
      BY DEF SymlinkEntry
    <3> QED
      BY <2>1, <2>2, <3>1, <3>2, <3>3, <3>4 DEF InstallOK
  <2>6. UninstallOK'
    BY <2>1 DEF UninstallOK
  <2>7. DoneIsDone'
    BY <2>1 DEF DoneIsDone
  <2>8. LoadedOK'
    BY <2>1, <2>2 DEF SymlinkEntry, LoadedOK, Known
  <2> QED
    BY <2>3, <2>4, <2>5, <2>6, <2>7, <2>8
<1>5. CASE WriteProfile
  <2> USE <1>5
  <2>1. step = "profile" /\ step' = "unit"
    BY DEF WriteProfile
  <2>2. UNCHANGED << venv, record, links, unit, loaded, enabled, service, data, run, runs, strays >>
    BY DEF WriteProfile, prefixVars, fileVars, systemdVars
  <2>3. TypeOK'
    <3>1. run.layout.bin_dir \in Dirs
      BY <2>1 DEF TypeOK, InstallOK, Layout
    <3> QED
      BY <2>1, <2>2, <3>1 DEF WriteProfile, TypeOK, Steps
  <2>4. Managed'
    <3>1. Known' = Known
      BY <2>2 DEF Known
    <3>2. profile' = None \/ \E l \in Known : l.bin_dir = profile'
      BY <2>1 DEF WriteProfile, InstallOK
    <3> QED
      BY <2>2, <3>1, <3>2 DEF Managed
  <2>5. InstallOK'
    BY <2>1, <2>2 DEF WriteProfile, InstallOK, EntriesIn, Known
  <2>6. UninstallOK'
    BY <2>1 DEF UninstallOK
  <2>7. DoneIsDone'
    BY <2>1 DEF DoneIsDone
  <2>8. LoadedOK'
    BY <2>1, <2>2 DEF WriteProfile, LoadedOK, Known
  <2> QED
    BY <2>3, <2>4, <2>5, <2>6, <2>7, <2>8
<1>6. CASE WriteUnit
  <2> USE <1>6
  <2>1. step = "unit" /\ step' = "record"
    BY DEF WriteUnit
  <2>2. UNCHANGED << venv, record, links, profile, loaded, enabled, service, data, run, runs, strays >>
    BY DEF WriteUnit, prefixVars, fileVars, systemdVars
  <2>3. TypeOK'
    <3>1. unit' \in Layout
      BY <2>1 DEF WriteUnit, TypeOK, InstallOK
    <3>2. step' \in Steps \cup Ends
      BY <2>1 DEF Steps, Ends
    <3> QED
      BY <2>1, <2>2, <3>1, <3>2 DEF TypeOK
  <2>4. Managed'
    <3>1. Known' = Known /\ unit' \in Known
      BY <2>1, <2>2 DEF Known, WriteUnit, InstallOK
    <3> QED
      BY <2>2, <3>1 DEF Managed
  <2>5. InstallOK'
    BY <2>1, <2>2 DEF WriteUnit, InstallOK, EntriesIn, Known
  <2>6. UninstallOK'
    BY <2>1 DEF UninstallOK
  <2>7. DoneIsDone'
    BY <2>1 DEF DoneIsDone
  <2>8. LoadedOK'
    BY <2>1, <2>2 DEF WriteUnit, LoadedOK, Known
  <2> QED
    BY <2>3, <2>4, <2>5, <2>6, <2>7, <2>8
<1>7. CASE WriteRecord
  <2> USE <1>7
  <2>1. step = "record" /\ step' = "reload"
    BY DEF WriteRecord
  <2>2. UNCHANGED << venv, links, profile, unit, loaded, enabled, service, data, run, runs >>
    BY DEF WriteRecord, prefixVars, fileVars, systemdVars
  <2>3. TypeOK'
    <3>1. record' \in Layout /\ strays' \subseteq Layout
      BY <2>1 DEF WriteRecord, TypeOK, InstallOK
    <3>2. step' \in Steps \cup Ends
      BY <2>1 DEF Steps, Ends
    <3> QED
      BY <2>1, <2>2, <3>1, <3>2 DEF TypeOK
  <2>4. Managed'
    <3>1. Known \subseteq Known'
      BY <2>1, <2>2 DEF WriteRecord, Known, InstallOK, TypeOK
    <3> QED
      BY <2>2, <3>1, StillManaged
  <2>5. InstallOK'
    <3>1. run.layout \in Known' /\ record' = run.layout
      BY <2>1 DEF WriteRecord, Known, InstallOK, TypeOK
    <3> QED
      BY <2>1, <2>2, <3>1 DEF InstallOK
  <2>6. UninstallOK'
    BY <2>1 DEF UninstallOK
  <2>7. DoneIsDone'
    BY <2>1 DEF DoneIsDone
  <2>8. LoadedOK'
    <3>1. Known \subseteq Known'
      BY <2>1, <2>2 DEF WriteRecord, Known, InstallOK, TypeOK
    <3> QED
      BY <2>1, <2>2, <3>1 DEF LoadedOK
  <2> QED
    BY <2>3, <2>4, <2>5, <2>6, <2>7, <2>8
<1>8. CASE ReloadManager
  <2> USE <1>8
  <2>1. step = "reload" /\ step' \in {"start", "done"}
    BY DEF ReloadManager
  <2>2. UNCHANGED << venv, record, links, profile, unit, enabled, service, data, run, runs, strays >>
    BY DEF ReloadManager, prefixVars, fileVars, systemdVars
  <2>3. TypeOK'
    <3>1. loaded' \in Layout \cup {None}
      BY DEF ReloadManager, Parsed
    <3>2. step' \in Steps \cup Ends
      BY <2>1 DEF Steps, Ends
    <3> QED
      BY <2>1, <2>2, <3>1, <3>2 DEF TypeOK
  <2>4. Managed'
    BY <2>2, StillManaged DEF ReloadManager, Known
  <2>5. InstallOK'
    <3>1. loaded' = run.layout
      BY <2>1, <2>2 DEF ReloadManager, Parsed, InstallOK, TypeOK
    <3> QED
      BY <2>1, <2>2, <3>1 DEF InstallOK, Known
  <2>6. UninstallOK'
    BY <2>1 DEF UninstallOK
  <2>7. DoneIsDone'
    <3>1. loaded' = run.layout
      BY <2>1, <2>2 DEF ReloadManager, Parsed, InstallOK, TypeOK
    <3> QED
      BY <2>1, <2>2, <3>1 DEF InstallOK, DoneIsDone, Installed
  <2>8. LoadedOK'
    <3>1. loaded' = run.layout
      BY <2>1, <2>2 DEF ReloadManager, Parsed, InstallOK, TypeOK
    <3> QED
      BY <2>1, <2>2, <3>1 DEF InstallOK, LoadedOK, Known
  <2> QED
    BY <2>3, <2>4, <2>5, <2>6, <2>7, <2>8
<1>9. CASE ReloadDaemon
  <2> USE <1>9
  <2>1. step = "start" /\ step' = "done"
    BY DEF ReloadDaemon
  <2>2. UNCHANGED << venv, record, links, profile, unit, loaded, enabled, service, data, run, runs, strays >>
    BY DEF ReloadDaemon, prefixVars, fileVars, systemdVars
  <2>3. TypeOK'
    BY <2>1, <2>2 DEF ReloadDaemon, TypeOK, Steps, Ends
  <2>4. Managed'
    BY <2>2, StillManaged DEF ReloadDaemon, Known
  <2>5. InstallOK'
    BY <2>1, <2>2 DEF ReloadDaemon, InstallOK, EntriesIn, Known
  <2>6. UninstallOK'
    BY <2>1 DEF UninstallOK
  <2>7. DoneIsDone'
    BY <2>1, <2>2 DEF InstallOK, DoneIsDone, Installed
  <2>8. LoadedOK'
    BY <2>1, <2>2 DEF ReloadDaemon, LoadedOK, Known
  <2> QED
    BY <2>3, <2>4, <2>5, <2>6, <2>7, <2>8
<1>10. CASE EnableDaemon
  <2> USE <1>10
  <2>1. step = "start" /\ step' = "done"
    BY DEF EnableDaemon
  <2>2. UNCHANGED << venv, record, links, profile, unit, loaded, run, runs, strays >>
    BY DEF EnableDaemon, prefixVars, fileVars, systemdVars
  <2>3. TypeOK'
    BY <2>1, <2>2 DEF EnableDaemon, TypeOK, Steps, Ends
  <2>4. Managed'
    <3>1. Known' = Known /\ service' \in Known
      BY <2>1, <2>2 DEF EnableDaemon, InstallOK, Known
    <3> QED
      BY <2>2, <3>1 DEF Managed
  <2>5. InstallOK'
    BY <2>1, <2>2 DEF EnableDaemon, InstallOK, EntriesIn, Known
  <2>6. UninstallOK'
    BY <2>1 DEF UninstallOK
  <2>7. DoneIsDone'
    BY <2>1, <2>2 DEF InstallOK, DoneIsDone, Installed
  <2>8. LoadedOK'
    BY <2>1, <2>2 DEF EnableDaemon, LoadedOK, Known
  <2> QED
    BY <2>3, <2>4, <2>5, <2>6, <2>7, <2>8
<1> QED
  BY <1>1, <1>2, <1>3, <1>4, <1>5, <1>6, <1>7, <1>8, <1>9, <1>10 DEF Installing

\* The steps of an uninstall and of a purge.
LEMMA UninstallingOK == IInv /\ Uninstalling => IInv'
<1> SUFFICES ASSUME IInv, Uninstalling PROVE IInv'
  OBVIOUS
<1> USE InstallerAssumption DEF IInv, InstallSteps, UninstallSteps
<1>1. CASE Disable
  <2> USE <1>1
  <2>1. step = "disable" /\ step' = "rm unit"
    BY DEF Disable
  <2>2. UNCHANGED << venv, record, links, profile, unit, loaded, data, run, runs >>
    BY DEF Disable, prefixVars, fileVars, systemdVars
  <2>3. TypeOK'
    <3>1. service' \in Layout \cup {None} /\ strays' \subseteq Layout /\ enabled' \in BOOLEAN
      BY DEF Disable, TypeOK
    <3>2. step' \in Steps \cup Ends
      BY <2>1 DEF Steps, Ends
    <3> QED
      BY <2>1, <2>2, <3>1, <3>2 DEF TypeOK
  <2>4. Managed'
    <3>1. Known \subseteq Known' /\ service' \in {service, None}
      BY <2>2 DEF Disable, Known
    <3> QED
      BY <2>2, <3>1, StillManaged
  <2>5. InstallOK'
    BY <2>1 DEF InstallOK
  <2>6. UninstallOK'
    <3>1. service' \in strays' \cup {None}
      BY DEF Disable
    <3> QED
      BY <2>1, <2>2, <3>1 DEF UninstallOK
  <2>7. DoneIsDone'
    BY <2>1 DEF DoneIsDone
  <2>8. LoadedOK'
    BY <2>1, <2>2 DEF Disable, LoadedOK, Known
  <2> QED
    BY <2>3, <2>4, <2>5, <2>6, <2>7, <2>8
<1>2. CASE RemoveUnit
  <2> USE <1>2
  <2>1. step = "rm unit" /\ step' = "rm profile"
    BY DEF RemoveUnit
  <2>2. UNCHANGED << venv, record, links, profile, loaded, enabled, service, data, run, runs, strays >>
    BY DEF RemoveUnit, prefixVars, fileVars, systemdVars
  <2>3. TypeOK'
    BY <2>1, <2>2 DEF RemoveUnit, TypeOK, Steps, Ends
  <2>4. Managed'
    BY <2>2, StillManaged DEF RemoveUnit, Known
  <2>5. InstallOK'
    BY <2>1 DEF InstallOK
  <2>6. UninstallOK'
    BY <2>1, <2>2 DEF RemoveUnit, UninstallOK, Stray, EntriesIn
  <2>7. DoneIsDone'
    BY <2>1 DEF DoneIsDone
  <2>8. LoadedOK'
    BY <2>1, <2>2 DEF RemoveUnit, LoadedOK, Known
  <2> QED
    BY <2>3, <2>4, <2>5, <2>6, <2>7, <2>8
<1>3. CASE RemoveProfile
  <2> USE <1>3
  <2>1. step = "rm profile" /\ step' = "rm links"
    BY DEF RemoveProfile
  <2>2. UNCHANGED << venv, record, links, unit, loaded, enabled, service, data, run, runs, strays >>
    BY DEF RemoveProfile, prefixVars, fileVars, systemdVars
  <2>3. TypeOK'
    BY <2>1, <2>2 DEF RemoveProfile, TypeOK, Steps, Ends
  <2>4. Managed'
    BY <2>2, StillManaged DEF RemoveProfile, Known
  <2>5. InstallOK'
    BY <2>1 DEF InstallOK
  <2>6. UninstallOK'
    <3>1. \A e \in links : e \in run.todo \/ Stray(e[1])
      <4> SUFFICES ASSUME NEW e \in links, ~Stray(e[1]) PROVE e \in run.todo
        OBVIOUS
      <4>1. record # None /\ record.bin_dir = e[1]
        BY DEF Managed, Known, Stray
      <4>2. e \in EntriesIn({record.bin_dir})
        BY <4>1 DEF EntriesIn, TypeOK
      <4> QED
        BY <2>1, <4>1, <4>2 DEF UninstallOK
    <3>2. \A d : Stray(d)' <=> Stray(d)
      BY <2>2 DEF Stray
    <3> QED
      BY <2>1, <2>2, <3>1, <3>2 DEF RemoveProfile, UninstallOK
  <2>7. DoneIsDone'
    BY <2>1 DEF DoneIsDone
  <2>8. LoadedOK'
    BY <2>1, <2>2 DEF RemoveProfile, LoadedOK, Known
  <2> QED
    BY <2>3, <2>4, <2>5, <2>6, <2>7, <2>8
<1>4. CASE RemoveEntry
  <2> USE <1>4
  <2>1. step = "rm links" /\ step' \in {"rmtree", "rm links"}
    BY DEF RemoveEntry
  <2>2. UNCHANGED << venv, record, profile, unit, loaded, enabled, service, data, runs, strays >>
    BY DEF RemoveEntry, prefixVars, fileVars, systemdVars
  <2>3. TypeOK'
    <3>1. run' \in Run /\ run'.kind = run.kind /\ run'.layout = run.layout
      BY TodoShrinks DEF RemoveEntry, TypeOK
    <3>2. links' \subseteq links
      BY DEF RemoveEntry
    <3>3. step' \in Steps \cup Ends
      BY <2>1 DEF Steps, Ends
    <3> QED
      BY <2>1, <2>2, <3>1, <3>2, <3>3 DEF TypeOK
  <2>4. Managed'
    BY <2>2, StillManaged DEF RemoveEntry, Known
  <2>5. InstallOK'
    BY <2>1 DEF InstallOK
  <2>6. UninstallOK'
    <3>1. /\ run'.todo = run.todo \ {NextEntry} /\ run'.kind = run.kind
          /\ run'.told = run.told /\ run'.state_dir = run.state_dir
      BY TodoShrinks DEF RemoveEntry, TypeOK
    <3>2. links' = links \ {NextEntry} /\ (step' = "rmtree" => run'.todo = {})
      BY <2>1 DEF RemoveEntry
    <3>3. \A d : Stray(d)' <=> Stray(d)
      BY <2>2 DEF Stray
    <3> QED
      BY <2>1, <2>2, <3>1, <3>2, <3>3 DEF UninstallOK
  <2>7. DoneIsDone'
    BY <2>1 DEF DoneIsDone
  <2>8. LoadedOK'
    BY <2>1, <2>2 DEF RemoveEntry, LoadedOK, Known
  <2> QED
    BY <2>3, <2>4, <2>5, <2>6, <2>7, <2>8
<1>5. CASE RemovePrefix
  <2> USE <1>5
  <2>1. step = "rmtree" /\ step' = "forget"
    BY DEF RemovePrefix
  <2>2. UNCHANGED << links, profile, unit, loaded, enabled, service, data, run, runs, strays >>
    BY DEF RemovePrefix, prefixVars, fileVars, systemdVars
  <2>3. TypeOK'
    BY <2>1, <2>2 DEF RemovePrefix, TypeOK, Steps, Ends
  <2>4. Managed'
    <3>1. \A e \in links : \E l \in strays : l.bin_dir = e[1]
      BY <2>1 DEF UninstallOK, Stray
    <3>2. unit = None /\ profile = None /\ service \in strays \cup {None}
      BY <2>1 DEF UninstallOK
    <3> QED
      BY <2>2, <3>1, <3>2 DEF Managed, Known
  <2>5. InstallOK'
    BY <2>1 DEF InstallOK
  <2>6. UninstallOK'
    <3>1. \A d : Stray(d)' <=> Stray(d)
      BY <2>2 DEF Stray
    <3> QED
      BY <2>1, <2>2, <3>1 DEF UninstallOK
  <2>7. DoneIsDone'
    BY <2>1 DEF DoneIsDone
  <2>8. LoadedOK'
    <3>1. record' = None \/ record' = record
      BY DEF RemovePrefix
    <3> QED
      BY <2>1, <2>2, <3>1 DEF LoadedOK, Known
  <2> QED
    BY <2>3, <2>4, <2>5, <2>6, <2>7, <2>8
<1>6. CASE ForgetUnit
  <2> USE <1>6
  <2>1. step = "forget" /\ step' \in {"purge", "done"}
    BY DEF ForgetUnit
  <2>2. UNCHANGED << venv, record, links, profile, unit, enabled, service, data, run, runs, strays >>
    BY DEF ForgetUnit, prefixVars, fileVars, systemdVars
  <2>3. TypeOK'
    <3>1. loaded' \in Layout \cup {None}
      BY DEF ForgetUnit, Parsed
    <3>2. step' \in Steps \cup Ends
      BY <2>1 DEF Steps, Ends
    <3> QED
      BY <2>1, <2>2, <3>1, <3>2 DEF TypeOK
  <2>4. Managed'
    BY <2>2, StillManaged DEF ForgetUnit, Known
  <2>5. InstallOK'
    BY <2>1 DEF InstallOK
  <2>6. UninstallOK'
    <3>1. unit = None
      BY <2>1 DEF UninstallOK
    <3>2. loaded' = None
      BY <3>1 DEF ForgetUnit, Parsed
    <3>3. \A d : Stray(d)' <=> Stray(d)
      BY <2>2 DEF Stray
    <3> QED
      BY <2>1, <2>2, <3>2, <3>3 DEF ForgetUnit, UninstallOK
  <2>7. DoneIsDone'
    <3>1. unit = None
      BY <2>1 DEF UninstallOK
    <3>2. loaded' = None
      BY <3>1 DEF ForgetUnit, Parsed
    <3>3. \A d : Stray(d)' <=> Stray(d)
      BY <2>2 DEF Stray
    <3> QED
      BY <2>1, <2>2, <3>1, <3>2 DEF ForgetUnit, UninstallOK, DoneIsDone, Removed, Stray
  <2>8. LoadedOK'
    <3>1. unit = None
      BY <2>1 DEF UninstallOK
    <3>2. loaded' = None
      BY <3>1 DEF ForgetUnit, Parsed
    <3>3. \A d : Stray(d)' <=> Stray(d)
      BY <2>2 DEF Stray
    <3> QED
      BY <3>2 DEF LoadedOK
  <2> QED
    BY <2>3, <2>4, <2>5, <2>6, <2>7, <2>8
<1>7. CASE Purge
  <2> USE <1>7
  <2>1. step = "purge" /\ step' \in {"done", "warned"}
    BY DEF Purge
  <2>2. UNCHANGED << venv, record, links, profile, unit, loaded, enabled, service, run, runs, strays >>
    BY DEF Purge, prefixVars, fileVars, systemdVars
  <2>3. TypeOK'
    <3>1. data' \subseteq data
      BY DEF Purge, Owned
    <3>2. step' \in Steps \cup Ends
      BY <2>1 DEF Steps, Ends
    <3> QED
      BY <2>1, <2>2, <3>1, <3>2 DEF TypeOK
  <2>4. Managed'
    BY <2>2, StillManaged DEF Purge, Known
  <2>5. InstallOK'
    BY <2>1 DEF InstallOK
  <2>6. UninstallOK'
    BY <2>1 DEF UninstallOK
  <2>7. DoneIsDone'
    <3>1. step' = "done" => data' \cap {run.state_dir, JobCgroups} = {}
      BY DEF Purge, Owned
    <3>2. run.told => run.state_dir = StateDir
      BY <2>1 DEF UninstallOK
    <3>3. Removed' /\ loaded' = None /\ run'.kind = "purge"
      BY <2>1, <2>2 DEF UninstallOK, Removed, Stray
    <3> QED
      BY <2>2, <3>1, <3>2, <3>3 DEF DoneIsDone
  <2>8. LoadedOK'
    BY <2>1, <2>2 DEF Purge, LoadedOK, Known
  <2> QED
    BY <2>3, <2>4, <2>5, <2>6, <2>7, <2>8
<1> QED
  BY <1>1, <1>2, <1>3, <1>4, <1>5, <1>6, <1>7 DEF Uninstalling

\* The beginning of an uninstall or a purge.
LEMMA UninstallBegins == IInv /\ Uninstall => IInv'
<1> SUFFICES ASSUME IInv, Uninstall PROVE IInv'
  OBVIOUS
<1> USE InstallerAssumption DEF IInv, InstallSteps, UninstallSteps
<1>1. Over /\ step' = "disable" /\ runs' = runs + 1 /\ runs < MaxRuns
  BY DEF Uninstall
<1>2. UNCHANGED << venv, record, links, profile, unit, loaded, enabled, service, data, strays >>
  BY DEF Uninstall, prefixVars, fileVars, systemdVars
<1>3. PICK given \in Dirs \cup {None}, kind \in {"uninstall", "purge"} :
        run' = [ NoRun EXCEPT !.kind = kind, !.todo = EntriesIn(BinDirsToClean(given)),
                              !.told = loaded # None,
                              !.state_dir = IF loaded # None THEN StateDir ELSE DefaultState ]
  BY DEF Uninstall
<1>4. BinDirsToClean(given) \subseteq Dirs
  BY DEF BinDirsToClean, Remembered, TypeOK, Layout
<1>5. record # None => record.bin_dir \in BinDirsToClean(given)
  <2>1. record # None => record.bin_dir # None
    BY DEF TypeOK, Layout
  <2> QED
    BY <2>1 DEF BinDirsToClean, Remembered
<1>6. EntriesIn(BinDirsToClean(given)) \in SUBSET (Dirs \X EntryPoints)
  BY <1>4 DEF EntriesIn
<1>7. /\ run' \in Run /\ run'.kind = kind
      /\ run'.todo = EntriesIn(BinDirsToClean(given))
      /\ run'.told => run'.state_dir = StateDir
  BY <1>3, <1>6 DEF NoRun, Run
<1>8. TypeOK'
  <2>1. step' \in Steps
    BY <1>1 DEF Steps
  <2>2. runs' \in 0..MaxRuns
    BY <1>1 DEF TypeOK
  <2> QED
    BY <1>2, <1>7, <2>1, <2>2 DEF TypeOK
<1>9. Managed'
  BY <1>2, StillManaged DEF Known
<1>10. InstallOK' /\ DoneIsDone'
  BY <1>1 DEF InstallOK, DoneIsDone
<1>11. UninstallOK'
  BY <1>1, <1>2, <1>5, <1>7 DEF UninstallOK, EntriesIn
<1>12. LoadedOK'
  BY <1>1, <1>2 DEF LoadedOK, Known, Over, Ends
<1> QED
  BY <1>8, <1>9, <1>10, <1>11, <1>12

\* A run that ends anywhere, with a file or a tree half made.
LEMMA CutShortOK == IInv /\ CutShort => IInv'
<1> SUFFICES ASSUME IInv, CutShort PROVE IInv'
  OBVIOUS
<1> USE InstallerAssumption DEF IInv
<1>1. /\ step' = "stopped" /\ run' = NoRun /\ strays' = strays \cup (LostSight \ {None})
      /\ profile' \in {profile, Torn} /\ unit' \in {unit, Torn} /\ record' \in {record, None}
      /\ UNCHANGED << links, loaded, service, runs >>
  BY DEF CutShort
<1>2. /\ venv' \in {"absent", "bare", "pip", "package"} /\ enabled' \in BOOLEAN
      /\ data' \subseteq data
  <2>1. venv' \in {venv, "bare", "pip"}
    BY DEF CutShort
  <2>2. enabled' \in BOOLEAN
    BY DEF CutShort, TypeOK
  <2>3. data' \subseteq data
    <3>1. \E left \in SUBSET Owned :
            data' = IF step = "purge" THEN (data \ Owned) \cup left ELSE data
      BY DEF CutShort
    <3> QED
      BY <3>1 DEF Owned
  <2> QED
    BY <2>1, <2>2, <2>3 DEF TypeOK
<1>3. LostSight \subseteq {record, loaded}
  BY DEF LostSight
<1>4. TypeOK'
  <2>1. strays' \subseteq Layout
    BY <1>1, <1>3 DEF TypeOK
  <2>2. run' \in Run /\ run'.kind # "install"
    BY <1>1, NoRunOK DEF NoRun
  <2>3. step' \in Steps \cup Ends
    BY <1>1 DEF Ends
  <2> QED
    BY <1>1, <1>2, <2>1, <2>2, <2>3 DEF TypeOK
<1>5. CASE record' = record
  <2>1. Known \subseteq Known'
    BY <1>1, <1>5 DEF Known
  <2>2. LoadedOK'
    <3>1. CASE loaded \in Known \cup {None}
      BY <1>1, <2>1, <3>1 DEF LoadedOK
    <3>2. CASE step = "forget" /\ record = None
      <4>1. LostSight = {loaded}
        BY <1>5, <3>2 DEF LostSight
      <4> QED
        BY <1>1, <4>1 DEF LoadedOK, Known
    <3> QED
      BY <3>1, <3>2 DEF LoadedOK
  <2>3. Managed'
    BY <1>1, <2>1, StillManaged
  <2> QED
    BY <1>1, <1>4, <2>2, <2>3
       DEF InstallOK, UninstallOK, DoneIsDone, InstallSteps, UninstallSteps
<1>6. CASE record' # record
  <2>1. record' = None /\ record # None /\ step \in {"record", "rmtree"}
    BY <1>1, <1>6 DEF CutShort
  <2>2. CASE step = "record"
    <3>1. LostSight = {record}
      BY <2>1, <2>2 DEF LostSight
    <3>2. Known \subseteq Known'
      BY <1>1, <2>1, <3>1 DEF Known
    <3>3. Managed'
      BY <1>1, <3>2, StillManaged
    <3>4. LoadedOK'
      BY <1>1, <2>2, <3>2 DEF LoadedOK
    <3> QED
      BY <1>1, <1>4, <3>3, <3>4
         DEF InstallOK, UninstallOK, DoneIsDone, InstallSteps, UninstallSteps
  <2>3. CASE step = "rmtree"
    <3>1. LostSight = {loaded}
      BY <2>1, <2>3 DEF LostSight
    <3>2. /\ \A e \in links : \E l \in strays : l.bin_dir = e[1]
          /\ service \in strays \cup {None} /\ unit = None /\ profile = None
      BY <2>3 DEF UninstallOK, UninstallSteps, Stray
    <3>3. strays \subseteq Known'
      BY <1>1 DEF Known
    <3>4. Managed'
      BY <1>1, <3>2, <3>3 DEF Managed
    <3>5. LoadedOK'
      BY <1>1, <3>1 DEF LoadedOK, Known
    <3> QED
      BY <1>1, <1>4, <3>4, <3>5
         DEF InstallOK, UninstallOK, DoneIsDone, InstallSteps, UninstallSteps
  <2> QED
    BY <2>1, <2>2, <2>3
<1> QED
  BY <1>5, <1>6

\* between runs systemd has what the unit says, or a layout in sight
LEMMA ParsedKnown == IInv => Parsed \in Known \cup {None}
  BY InstallerAssumption DEF IInv, Managed, Known, Parsed, TypeOK

\* what happens between runs changes what systemd has and runs, and what is kept
LEMMA BetweenRuns ==
  ASSUME IInv, Over,
         UNCHANGED << record, links, profile, unit, step, run, runs, strays >>,
         venv' \in {venv, "package"}, enabled' = enabled,
         loaded' \in {loaded, Parsed}, service' \in {service, None, loaded', loaded},
         data' \subseteq {StateDir, JobCgroups},
         loaded' = None => data' \subseteq data
  PROVE  IInv'
<1> USE InstallerAssumption DEF IInv
<1>1. step \in Ends /\ step' = step
  BY DEF Over
<1>2. loaded \in Known \cup {None} /\ Known' = Known
  BY <1>1 DEF LoadedOK, Known, Ends
<1>3. loaded' \in Known' \cup {None} /\ service' \in Known' \cup {service, None}
  BY <1>2, ParsedKnown
<1>4. TypeOK'
  <2>1. Known \subseteq Layout
    BY DEF Known, TypeOK
  <2>2. loaded' \in Layout \cup {None} /\ service' \in Layout \cup {None}
    BY <1>2, <1>3, <2>1 DEF TypeOK
  <2> QED
    BY <2>2 DEF TypeOK
<1>5. Managed'
  BY <1>2, <1>3 DEF Managed
<1>6. InstallOK' /\ UninstallOK'
  BY <1>1 DEF InstallOK, UninstallOK, InstallSteps, UninstallSteps, Ends
<1>7. LoadedOK'
  BY <1>3 DEF LoadedOK
<1>8. DoneIsDone'
  <2> SUFFICES ASSUME step = "done" PROVE DoneIsDone'
    BY <1>1 DEF DoneIsDone
  <2>1. CASE run.kind = "install"
    <3>1. Installed(run.layout) /\ loaded = run.layout
      BY <2>1 DEF DoneIsDone
    <3>2. loaded' = run.layout
      BY <2>1, <3>1 DEF Parsed, Installed, TypeOK
    <3> QED
      BY <2>1, <3>1, <3>2 DEF DoneIsDone, Installed
  <2>2. CASE run.kind # "install"
    <3>1. Removed /\ loaded = None
      BY <2>2 DEF DoneIsDone
    <3>2. loaded' = None
      BY <3>1 DEF Removed, Parsed
    <3> QED
      BY <2>2, <3>1, <3>2 DEF DoneIsDone, Removed
  <2> QED
    BY <2>1, <2>2
<1> QED
  BY <1>4, <1>5, <1>6, <1>7, <1>8

\* The daemon ends of itself.
LEMMA DaemonExitsOK == IInv /\ DaemonExits => IInv'
<1> SUFFICES ASSUME IInv, DaemonExits PROVE IInv'
  OBVIOUS
<1> USE DEF IInv
<1>1. /\ UNCHANGED << venv, record, links, profile, unit, loaded, enabled, data, step, run, runs,
                      strays >>
      /\ service' = None
  BY DEF DaemonExits, prefixVars, fileVars
<1>2. TypeOK'
  BY <1>1 DEF TypeOK
<1>3. Managed'
  BY <1>1, StillManaged DEF Known
<1>4. InstallOK' /\ LoadedOK'
  BY <1>1 DEF InstallOK, LoadedOK, Known
<1>5. UninstallOK'
  BY <1>1 DEF UninstallOK, Stray
<1>6. DoneIsDone'
  BY <1>1 DEF DoneIsDone, Installed, Removed
<1> QED
  BY <1>2, <1>3, <1>4, <1>5, <1>6

\* Reboots and what the administrator does between runs.
LEMMA WorldOK == IInv /\ World => IInv'
<1> SUFFICES ASSUME IInv, World PROVE IInv'
  OBVIOUS
<1> USE DEF prefixVars, fileVars, systemdVars
<1>1. data \subseteq {StateDir, JobCgroups}
  BY DEF IInv, TypeOK
<1>2. CASE Reboot
  BY <1>1, <1>2, BetweenRuns DEF Reboot, Starts
<1>3. CASE AdminStart
  BY <1>1, <1>3, BetweenRuns DEF AdminStart, Starts
<1>4. CASE DaemonExits
  BY <1>4, DaemonExitsOK
<1>5. CASE Bootstrap
  BY <1>1, <1>5, BetweenRuns DEF Bootstrap
<1> QED
  BY <1>2, <1>3, <1>4, <1>5 DEF World

-----------------------------------------------------------------------------
\* Every step keeps the invariant.
LEMMA Inductive == IInv /\ [Next]_vars => IInv'
<1> SUFFICES ASSUME IInv, [Next]_vars PROVE IInv'
  OBVIOUS
<1>1. CASE Next
  BY <1>1, InstallStep, UninstallBegins, InstallingOK, UninstallingOK, CutShortOK, WorldOK
     DEF Next
<1>2. CASE UNCHANGED vars
  <2>1. UNCHANGED << venv, record, links, profile, unit, loaded, enabled, service, data, step,
                     run, runs, strays >>
    BY <1>2 DEF vars, prefixVars, fileVars, systemdVars
  <2>2. TypeOK' /\ Managed'
    BY <2>1, StillManaged DEF IInv, TypeOK, Known
  <2>3. DoneIsDone'
    BY <2>1 DEF IInv, DoneIsDone, Installed, Removed
  <2>4. InstallOK' /\ LoadedOK'
    BY <2>1 DEF IInv, InstallOK, LoadedOK, Known
  <2>5. UninstallOK'
    BY <2>1 DEF IInv, UninstallOK, Stray
  <2> QED
    BY <2>2, <2>3, <2>4, <2>5 DEF IInv
<1> QED
  BY <1>1, <1>2

(***************************************************************************)
(* The invariant holds of every machine the installer has worked on.        *)
(***************************************************************************)
THEOREM InstallerInvariance == Spec => []IInv
  BY Initially, Inductive, PTL DEF Spec

(***************************************************************************)
(* Every variable of the installer keeps its type; a settled layout names a  *)
(* directory and a group (install.py 304-305).                               *)
(***************************************************************************)
THEOREM InstallerTypeCorrect == Spec => []TypeOK
<1>1. IInv => TypeOK
  BY DEF IInv
<1> QED
  BY <1>1, InstallerInvariance, PTL

(***************************************************************************)
(* Whatever is installed belongs to the layout on record or to a stray,       *)
(* after any number of runs cut short anywhere.                              *)
(***************************************************************************)
THEOREM InstallsManaged == Spec => []Managed
<1>1. IInv => Managed
  BY DEF IInv
<1> QED
  BY <1>1, InstallerInvariance, PTL

(***************************************************************************)
(* A run that says it is done has done it, whatever the runs before left.     *)
(***************************************************************************)
THEOREM RunsDone == Spec => []DoneIsDone
<1>1. IInv => DoneIsDone
  BY DEF IInv
<1> QED
  BY <1>1, InstallerInvariance, PTL
=============================================================================
