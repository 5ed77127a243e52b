---------------------------- MODULE NativeInstall ----------------------------
(***************************************************************************)
(* install-native, uninstall-native and integrations restore of one        *)
(* provider (integration_install.py): processes that each run one command over the  *)
(* generated scripts, the provider's shared configuration file and the     *)
(* installation manifests, next to the user, who edits the same files.     *)
(*                                                                         *)
(* A command works file by file and undoes its own steps when one fails;   *)
(* a step of the undoing may fail too, and the others go on.  Nothing is   *)
(* locked, and a kill leaves the files as they are.                        *)
(*                                                                         *)
(* Data abstraction.  The installation id of a process is the process.  A  *)
(* generated file holds the text of an installation or the user's; the     *)
(* configuration file is its set of hook entries, of which a file that is  *)
(* absent or cannot be read has none.  The order among generated files is  *)
(* left open.                                                              *)
(***************************************************************************)
CONSTANTS
    Proc,       \* processes, each with one command to run
    Gen,        \* paths of the generated files
    UserHook,   \* hook entries of the user
    Project,    \* what an installation is made for
    User,       \* the user's text in a file
    Torn,       \* what a copy that was cut short has left in a file
    None,       \* no file, no installation
    Overlap     \* TRUE: commands overlap one another and the user's edits

ASSUME NativeInstallAssumption ==
    /\ {User, Torn, None} \cap Proc = {}
    /\ User # None /\ Torn \notin {User, None}
    /\ UserHook \cap Proc = {}
    /\ "config" \notin Gen
    /\ Overlap \in BOOLEAN

VARIABLES
    files,      \* the generated files
    hooks,      \* the entries of the configuration file
    manifests,  \* installations that have a manifest, with their project and
                \* the .bak copies it names
    pc,         \* per process: the next step of its command
    cmd,        \* per process: the command
    target,     \* per process: the installation it removes, or None
    seen,       \* per process: files and entries as it read them for its plan
    copy,       \* per process: its .bak copies
    done,       \* per process: the files it has replaced or moved away
    start,      \* history: per process: everything as its command found it
                \* (the last six, from cmd on, end with the command)
    errors      \* per process: the destinations that its report, or the
                \* exception it ends with, names as not restored

vars == <<files, hooks, manifests, pc, cmd, target, seen, copy, done, start, errors>>
disk == <<files, hooks, manifests>>

-----------------------------------------------------------------------------
Config == "config"
Text == Proc \cup {User, Torn, None}
Hook == Proc \cup UserHook
Snapshot == [files : [Gen -> Text], hooks : SUBSET Hook]
Nothing == [files |-> [g \in Gen |-> None], hooks |-> {}]
Manifest == [id : Proc, project : Project, backup : Snapshot]

Command == [op : {"install"}, project : Project, update : BOOLEAN, dry : BOOLEAN]
           \cup [op : {"uninstall"}, force : BOOLEAN, dry : BOOLEAN]
           \cup [op : {"restore"}]

\* A command that "failed" was rolled back; after "unclean" its report has
\* rollback_ok false.
Ended == {"ok", "noop", "refused", "failed", "unclean", "incomplete", "raised", "killed"}
Pc == {"idle", "find", "plan", "backup", "replace", "verify", "manifest", "undo",
       "u_plan", "u_config", "u_files", "u_manifest", "u_undo",
       "r_config", "r_files"} \cup Ended

TypeOK ==
    /\ files \in [Gen -> Text]
    /\ hooks \subseteq Hook
    /\ manifests \subseteq Manifest
    /\ pc \in [Proc -> Pc]
    /\ cmd \in [Proc -> Command \cup {None}]
    /\ target \in [Proc -> Proc \cup {None}]
    /\ seen \in [Proc -> Snapshot]
    /\ copy \in [Proc -> Snapshot]
    /\ done \in [Proc -> SUBSET (Gen \cup {Config})]
    /\ start \in [Proc -> [Gen -> Text] \X (SUBSET Hook) \X (SUBSET Manifest)]
    /\ errors \in [Proc -> SUBSET (Gen \cup {Config})]

\* Nothing is installed; the user may have files at the generated paths.
Init ==
    /\ files \in [Gen -> {User, None}]
    /\ hooks \in SUBSET UserHook
    /\ manifests = {}
    /\ pc = [p \in Proc |-> "idle"]
    /\ cmd = [p \in Proc |-> None]
    /\ target = [p \in Proc |-> None]
    /\ seen = [p \in Proc |-> Nothing]
    /\ copy = seen
    /\ done = [p \in Proc |-> {}]
    /\ start = [p \in Proc |-> <<Nothing.files, {}, {}>>]
    /\ errors = done

Running(p) == pc[p] \notin Ended \cup {"idle"}
Quiet == \A p \in Proc : ~Running(p)

Goto(p, step) == pc' = [pc EXCEPT ![p] = step]
At(p, step) == pc[p] = step

\* The command ends, and its local variables with it.
Return(p, result) ==
    /\ Goto(p, result)
    /\ cmd' = [cmd EXCEPT ![p] = None]
    /\ target' = [target EXCEPT ![p] = None]
    /\ seen' = [seen EXCEPT ![p] = Nothing]
    /\ copy' = [copy EXCEPT ![p] = Nothing]
    /\ done' = [done EXCEPT ![p] = {}]
    /\ start' = [start EXCEPT ![p] = <<Nothing.files, {}, {}>>]

Now == [files |-> files, hooks |-> hooks]
Owner(id) == {r \in manifests : r.id = id}

Begin(p, c) ==
    /\ At(p, "idle")
    /\ Overlap \/ Quiet
    /\ cmd' = [cmd EXCEPT ![p] = c]
    /\ start' = [start EXCEPT ![p] = disk]
    /\ Goto(p, "find")
    /\ UNCHANGED <<disk, target, seen, copy, done, errors>>

-----------------------------------------------------------------------------
(***************************************************************************)
(* install_native_transactional.                                           *)
(***************************************************************************)
findOnly == <<disk, cmd, seen, copy, done, start, errors>>

Installing(p, step) == At(p, step) /\ cmd[p].op = "install"

FindNothing(p) ==
    /\ Installing(p, "find")
    /\ manifests = {}
    /\ Goto(p, "plan")
    /\ UNCHANGED <<findOnly, target>>

\* Without --update an installation for the same project is left as it is,
\* and one for another project refuses the command.
FindSome(p, r) ==
    /\ Installing(p, "find")
    /\ ~cmd[p].update
    /\ Return(p, IF r.project = cmd[p].project THEN "noop" ELSE "refused")
    /\ UNCHANGED <<disk, errors>>

FindToUpdateInPlace(p, r) ==
    /\ Installing(p, "find")
    /\ cmd[p].update
    /\ Goto(p, "plan")
    /\ UNCHANGED <<findOnly, target>>

\* With it, the installation found is uninstalled first.
FindToUpdate(p, r) ==
    /\ Installing(p, "find")
    /\ cmd[p].update
    /\ target' = [target EXCEPT ![p] = r.id]
    /\ Goto(p, "u_plan")
    /\ UNCHANGED findOnly

stepOnly == <<cmd, target, start, errors>>

\* _build_provider_writes reads every destination and merges the entries.
Plan(p) ==
    /\ At(p, "plan")
    /\ ~cmd[p].dry
    /\ seen' = [seen EXCEPT ![p] = Now]
    /\ done' = [done EXCEPT ![p] = {}]
    /\ Goto(p, "backup")
    /\ UNCHANGED <<disk, copy, stepOnly>>

\* --dry-run ends here, and so does an unreadable configuration.
PlanOnly(p) ==
    /\ At(p, "plan")
    /\ \E result \in {"ok", "refused"} :
          (result = "ok" => cmd[p].dry) /\ Return(p, result)
    /\ UNCHANGED <<disk, errors>>

BackupConfigOnly(p) ==
    /\ At(p, "backup")
    /\ copy' = [copy EXCEPT ![p] = [files |-> Nothing.files, hooks |-> hooks]]
    /\ Goto(p, "replace")
    /\ UNCHANGED <<disk, seen, done, stepOnly>>

\* Each destination that the plan found is copied.
Found(p) == {g \in Gen : seen[p].files[g] # None}

Backup(p) ==
    /\ At(p, "backup")
    /\ \A g \in Found(p) : files[g] # None
    /\ copy' = [copy EXCEPT ![p] =
                   [files |-> [g \in Gen |-> IF g \in Found(p) THEN files[g] ELSE None],
                    hooks |-> hooks]]
    /\ Goto(p, "replace")
    /\ UNCHANGED <<disk, seen, done, stepOnly>>

ReplaceFile(p, g) ==
    /\ At(p, "replace")
    /\ g \notin done[p]
    /\ files' = [files EXCEPT ![g] = p]
    /\ done' = [done EXCEPT ![p] = @ \cup {g}]
    /\ UNCHANGED <<hooks, manifests, pc, seen, copy, stepOnly>>

ReplaceConfigFirst(p) ==
    /\ At(p, "replace")
    /\ Config \notin done[p]
    /\ hooks' = seen[p].hooks \cup {p}
    /\ done' = [done EXCEPT ![p] = @ \cup {Config}]
    /\ Goto(p, IF Gen \subseteq done[p] THEN "verify" ELSE "replace")
    /\ UNCHANGED <<files, manifests, seen, copy, stepOnly>>

\* The configuration comes last, as planned.
ReplaceConfig(p) ==
    /\ At(p, "replace")
    /\ Gen \subseteq done[p]
    /\ hooks' = seen[p].hooks \cup {p}
    /\ done' = [done EXCEPT ![p] = @ \cup {Config}]
    /\ Goto(p, "verify")
    /\ UNCHANGED <<files, manifests, seen, copy, stepOnly>>

Verify(p) ==
    /\ At(p, "verify")
    /\ Goto(p, IF (\A g \in Gen : files[g] = p) /\ hooks = seen[p].hooks \cup {p}
               THEN "manifest" ELSE "undo")
    /\ UNCHANGED <<disk, seen, copy, done, stepOnly>>

WriteManifestOfReplaced(p) ==
    /\ At(p, "manifest")
    /\ manifests' = manifests \cup {[id |-> p, project |-> target[p], backup |-> copy[p]]}
    /\ Return(p, "ok")
    /\ UNCHANGED <<files, hooks, errors>>

WriteManifest(p) ==
    /\ At(p, "manifest")
    /\ manifests' = manifests \cup
          {[id |-> p, project |-> cmd[p].project, backup |-> copy[p]]}
    /\ Return(p, "ok")
    /\ UNCHANGED <<files, hooks, errors>>

\* An exception: the destinations replaced so far are restored in reverse.
Raise(p) ==
    /\ pc[p] \in {"backup", "replace", "verify", "manifest"}
    /\ Goto(p, "undo")
    /\ UNCHANGED <<disk, seen, copy, done, stepOnly>>

undoOnly == <<manifests, pc, cmd, target, seen, copy, start>>

\* One step of undoing is over.  An error in it is collected; then what was
\* to be restored may be so, or as it was, or half written.
Undone(p, part, restored) ==
    /\ errors' \in {errors, [errors EXCEPT ![p] = @ \cup {part}]}
    /\ restored \/ part \in errors'[p]
    /\ done' = [done EXCEPT ![p] = @ \ {part}]

UndoConfig(p) ==
    /\ At(p, "undo")
    /\ Config \in done[p]
    /\ hooks' \in {copy[p].hooks, hooks, {}}
    /\ Undone(p, Config, hooks' = copy[p].hooks)
    /\ UNCHANGED <<files, undoOnly>>

\* From the copy, or by removal of what was not there before.
Former(p, g) == IF g \in Found(p) THEN copy[p].files[g] ELSE None

UndoFileUnlink(p, g) ==
    /\ At(p, "undo")
    /\ Config \notin done[p]
    /\ g \in done[p]
    /\ files' = [files EXCEPT ![g] = None]
    /\ Undone(p, g, TRUE)
    /\ UNCHANGED <<hooks, undoOnly>>

UndoFile(p, g) ==
    /\ At(p, "undo")
    /\ Config \notin done[p]
    /\ g \in done[p]
    /\ \E text \in {Former(p, g), files[g], Torn} :
          /\ text = Torn => g \in Found(p)
          /\ files' = [files EXCEPT ![g] = text]
          /\ Undone(p, g, text = Former(p, g))
    /\ UNCHANGED <<hooks, undoOnly>>

EndUndoAnyway(p) ==
    /\ At(p, "undo")
    /\ manifests' = manifests \ Owner(p)
    /\ Return(p, IF errors[p] = {} THEN "failed" ELSE "unclean")
    /\ UNCHANGED <<files, hooks, errors>>

\* The manifest and all .bak copies go, also those of destinations that were
\* not restored; a failure to remove them is reported as well.
EndUndo(p) ==
    /\ At(p, "undo")
    /\ done[p] = {}
    /\ \/ /\ manifests' = manifests \ Owner(p)
          /\ \E result \in {"failed", "unclean"} :
                (result = "failed" => errors[p] = {}) /\ Return(p, result)
       \/ UNCHANGED manifests /\ Return(p, "unclean")
    /\ UNCHANGED <<files, hooks, errors>>

-----------------------------------------------------------------------------
(***************************************************************************)
(* uninstall_native_transactional, also for --update, which forces it.     *)
(***************************************************************************)
Forced(p) == IF cmd[p].op = "install" THEN TRUE ELSE cmd[p].force

FindNoneToRemove(p) ==
    /\ At(p, "find")
    /\ cmd[p].op = "uninstall"
    /\ manifests = {}
    /\ Return(p, "noop")
    /\ UNCHANGED <<disk, errors>>

FindToRemove(p, r) ==
    /\ At(p, "find")
    /\ cmd[p].op = "uninstall"
    /\ target' = [target EXCEPT ![p] = r.id]
    /\ Goto(p, "u_plan")
    /\ UNCHANGED findOnly

\* uninstall-native --dry-run ends here.
PlanRemovalOnly(p) ==
    /\ At(p, "u_plan")
    /\ cmd[p].op = "uninstall" /\ cmd[p].dry
    /\ Return(p, "ok")
    /\ UNCHANGED <<disk, errors>>

\* An update goes on when the manifest has gone in the meantime.
PlanRemoval(p) ==
    /\ At(p, "u_plan")
    /\ cmd[p].op = "uninstall" => ~cmd[p].dry
    /\ seen' = [seen EXCEPT ![p] = Now]
    /\ done' = [done EXCEPT ![p] = {}]
    /\ Goto(p, IF cmd[p].op = "install" /\ Owner(target[p]) = {}
               THEN "plan" ELSE "u_config")
    /\ UNCHANGED <<disk, copy, stepOnly>>

\* The configuration is rewritten if the plan changed it.
RemoveHooks(p) ==
    /\ At(p, "u_config")
    /\ hooks' = IF target[p] \in seen[p].hooks THEN seen[p].hooks \ {target[p]} ELSE hooks
    /\ done' = [done EXCEPT ![p] = IF target[p] \in seen[p].hooks THEN {Config} ELSE {}]
    /\ Goto(p, "u_files")
    /\ UNCHANGED <<files, manifests, seen, copy, stepOnly>>

\* A generated file is moved to the quarantine, unless it was modified.
Quarantine(p, g) ==
    /\ At(p, "u_files")
    /\ g \notin done[p]
    /\ files[g] = target[p] \/ (files[g] # None /\ Forced(p))
    /\ copy' = [copy EXCEPT ![p].files[g] = files[g]]
    /\ files' = [files EXCEPT ![g] = None]
    /\ done' = [done EXCEPT ![p] = @ \cup {g}]
    /\ UNCHANGED <<hooks, manifests, pc, seen, stepOnly>>

Preserved(p) == {g \in Gen \ done[p] : files[g] # None}

QuarantineDone(p) ==
    /\ At(p, "u_files")
    /\ Preserved(p) = {}
    /\ Goto(p, "u_manifest")
    /\ UNCHANGED <<disk, seen, copy, done, stepOnly>>

\* Modified files stay, and the manifest with them.
EndPreserved(p) ==
    /\ At(p, "u_files")
    /\ Preserved(p) # {}
    /\ \A g \in Preserved(p) : files[g] # target[p] /\ ~Forced(p)
    /\ Return(p, "ok")
    /\ UNCHANGED <<disk, errors>>

\* The manifest goes, then the quarantine, whose removal may fail.
RemoveManifest(p) ==
    /\ At(p, "u_manifest")
    /\ manifests' = manifests \ Owner(target[p])
    /\ \E result \in {"ok", "incomplete"} :
          (result = "ok" => cmd[p].op = "uninstall") /\ Return(p, result)
    /\ UNCHANGED <<files, hooks, errors>>

\* An update goes on to install, with nothing left in the quarantine.
RemoveForUpdate(p) ==
    /\ At(p, "u_manifest")
    /\ cmd[p].op = "install"
    /\ manifests' = manifests \ Owner(target[p])
    /\ copy' = [copy EXCEPT ![p] = Nothing]
    /\ Goto(p, "plan")
    /\ UNCHANGED <<files, hooks, seen, done, stepOnly>>

RaiseRemoval(p) ==
    /\ pc[p] \in {"u_config", "u_files", "u_manifest"}
    /\ Goto(p, "u_undo")
    /\ UNCHANGED <<disk, seen, copy, done, stepOnly>>

\* What cannot be restored stays as it is, half written, or in the quarantine.
RestoreHooks(p) ==
    /\ At(p, "u_undo")
    /\ Config \in done[p]
    /\ hooks' \in {seen[p].hooks, hooks, {}}
    /\ Undone(p, Config, hooks' = seen[p].hooks)
    /\ UNCHANGED <<files, undoOnly>>

RestoreFile(p, g) ==
    /\ At(p, "u_undo")
    /\ Config \notin done[p]
    /\ g \in done[p]
    /\ \E text \in {copy[p].files[g], files[g], Torn} :
          /\ files' = [files EXCEPT ![g] = text]
          /\ Undone(p, g, text = copy[p].files[g])
    /\ UNCHANGED <<hooks, undoOnly>>

EndRestore(p) ==
    /\ At(p, "u_undo")
    /\ done[p] = {}
    /\ Return(p, IF errors[p] = {} THEN "failed" ELSE "unclean")
    /\ UNCHANGED <<disk, errors>>

-----------------------------------------------------------------------------
(***************************************************************************)
(* restore_from_backup, from the copies that the manifest names.  A file   *)
(* is saved before it is overwritten ("seen" holds these copies), nothing  *)
(* is undone when a step raises, and the manifest stays.                   *)
(***************************************************************************)
FindToRevert(p) ==
    /\ At(p, "find")
    /\ cmd[p].op = "restore"
    /\ \/ \E r \in manifests :
             /\ target' = [target EXCEPT ![p] = r.id]
             /\ copy' = [copy EXCEPT ![p] = r.backup]
             /\ Goto(p, "r_config")
             /\ UNCHANGED <<disk, cmd, seen, done, start, errors>>
       \/ Return(p, "refused") /\ UNCHANGED <<disk, errors>>

revertOnly == <<manifests, cmd, target, copy, start>>

\* A copy that is cut short raises, and nothing is restored after it.
Cut(p, part) == errors' = [errors EXCEPT ![p] = @ \cup {part}]

\* A configuration that was not there when it was installed has no copy.
RevertConfig(p) ==
    /\ At(p, "r_config")
    /\ \/ /\ hooks' \in {copy[p].hooks} \cup (IF copy[p].hooks = {} THEN {hooks} ELSE {})
          /\ UNCHANGED errors
       \/ hooks' = {} /\ Cut(p, Config)
    /\ seen' = [seen EXCEPT ![p].hooks = hooks]
    /\ Goto(p, "r_files")
    /\ UNCHANGED <<files, done, revertOnly>>

ToRevert(p) == {g \in Gen \ done[p] : copy[p].files[g] # None}

RevertFile(p, g) ==
    /\ At(p, "r_files")
    /\ errors[p] = {}
    /\ g \in ToRevert(p)
    /\ seen' = [seen EXCEPT ![p].files[g] = files[g]]
    /\ \/ files' = [files EXCEPT ![g] = copy[p].files[g]] /\ UNCHANGED errors
       \/ files' = [files EXCEPT ![g] = Torn] /\ Cut(p, g)
    /\ done' = [done EXCEPT ![p] = @ \cup {g}]
    /\ UNCHANGED <<hooks, pc, revertOnly>>

RevertEnds(p) ==
    /\ At(p, "r_files")
    /\ errors[p] = {}
    /\ ToRevert(p) = {}
    /\ Return(p, "ok")
    /\ UNCHANGED <<disk, errors>>

RevertRaises(p) ==
    /\ pc[p] \in {"r_config", "r_files"}
    /\ Return(p, "raised")
    /\ UNCHANGED <<disk, errors>>

-----------------------------------------------------------------------------
Kill(p) ==
    /\ Running(p)
    /\ Return(p, "killed")
    /\ UNCHANGED <<disk, errors>>

userOnly == <<manifests, pc, cmd, target, seen, copy, done, start, errors>>

\* The user adds or removes an own hook entry, or rewrites a file.
EditHooks(h) ==
    /\ Overlap \/ Quiet
    /\ hooks' \in {hooks \cup {h}, hooks \ {h}}
    /\ UNCHANGED <<files, userOnly>>

EditFile(g) ==
    /\ Overlap \/ Quiet
    /\ files[g] # None
    /\ files' = [files EXCEPT ![g] = User]
    /\ UNCHANGED <<hooks, userOnly>>

InstallStep(p) ==
    \/ FindNothing(p)
    \/ \E r \in manifests : FindSome(p, r) \/ FindToUpdate(p, r)
    \/ Plan(p) \/ PlanOnly(p)
    \/ Backup(p)
    \/ \E g \in Gen : ReplaceFile(p, g)
    \/ ReplaceConfig(p)
    \/ Verify(p)
    \/ WriteManifest(p)
    \/ Raise(p)
    \/ UndoConfig(p)
    \/ \E g \in Gen : UndoFile(p, g)
    \/ EndUndo(p)

UninstallStep(p) ==
    \/ FindNoneToRemove(p)
    \/ \E r \in manifests : FindToRemove(p, r)
    \/ PlanRemoval(p) \/ PlanRemovalOnly(p)
    \/ RemoveHooks(p)
    \/ \E g \in Gen : Quarantine(p, g)
    \/ QuarantineDone(p) \/ EndPreserved(p)
    \/ RemoveManifest(p) \/ RemoveForUpdate(p)
    \/ RaiseRemoval(p)
    \/ RestoreHooks(p)
    \/ \E g \in Gen : RestoreFile(p, g)
    \/ EndRestore(p)

RestoreStep(p) ==
    \/ FindToRevert(p)
    \/ RevertConfig(p)
    \/ \E g \in Gen : RevertFile(p, g)
    \/ RevertEnds(p) \/ RevertRaises(p)

Next ==
    \/ \E p \in Proc, c \in Command : Begin(p, c)
    \/ \E p \in Proc : InstallStep(p) \/ UninstallStep(p)
                        \/ RestoreStep(p) \/ Kill(p)
    \/ \E h \in UserHook : EditHooks(h)
    \/ \E g \in Gen : EditFile(g)

Spec == Init /\ [][Next]_vars

-----------------------------------------------------------------------------
Recorded == {r.id : r \in manifests}

NoneKilled == \A p \in Proc : ~At(p, "killed")

\* What some report has named as not restored.
Reported == UNION {errors[p] : p \in Proc}

\* Between commands, every generated text and every owned hook entry belongs
\* to an installation that has a manifest, so uninstall-native finds it, as
\* long as no command was killed; but for the destinations that a report has
\* named as not restored.
NoOrphans ==
    Quiet /\ NoneKilled =>
        /\ \A g \in Gen \ Reported : files[g] \in Recorded \cup {User, None}
        /\ Config \notin Reported => hooks \subseteq Recorded \cup UserHook

\* A provider is installed at most once.
OneInstallation == \A r, q \in manifests : r = q

\* A hook entry of an installation never names scripts that are not there,
\* also halfway through a command, as long as none was killed; but for a
\* script, and for entries, that a report has named as not restored, and
\* while a failed removal is put back, when the entry returns first.
HooksHaveScripts ==
    (/\ NoneKilled
     /\ \A p \in Proc : ~At(p, "u_undo")
     /\ Config \notin Reported
     /\ hooks \cap Proc # {})
        => \A g \in Gen \ Reported : files[g] # None

ActsNow(p) == pc'[p] # pc[p] \/ done'[p] # done[p]

\* The user's text at a generated path is there, or in the .bak copy that an
\* installation at work keeps.
UserHas(p, g) ==
    \/ files[g] = User
    \/ pc[p] \in {"replace", "verify", "manifest", "undo"} /\ copy[p].files[g] = User

HooksKept(p) ==
    \/ hooks' \cap UserHook = hooks \cap UserHook
    \/ At(p, "r_config") /\ seen'[p].hooks = hooks

FileKept(p, g) ==
    UserHas(p, g) =>
        \/ UserHas(p, g)'
        \/ At(p, "manifest") /\ \E r \in manifests' : r.backup.files[g] = User
        \/ At(p, "r_files") /\ seen'[p].files[g] = User
        \/ At(p, "u_files") /\ Forced(p)
        \/ pc'[p] = "killed"

\* What belongs to the user survives every step of a command: hook entries
\* stay as they are, or a restore has saved the configuration first; and the
\* user's text at a generated path stays there, or in a .bak copy until it is
\* back or the manifest names the copy, or a restore has saved it, or the
\* uninstall was forced.  A rollback deletes the .bak copies at its end: what
\* is then neither there nor in a copy, its report names as not restored.  (A
\* kill leaves the copies where they are.)
UserContentKept ==
    [][\A p \in Proc : ActsNow(p) =>
          /\ HooksKept(p) \/ Config \in errors'[p]
          /\ \A g \in Gen : FileKept(p, g) \/ g \in errors'[p]]_vars

Fails(p) == pc'[p] # pc[p] /\ pc'[p] \in {"failed", "unclean"}

\* A command other than install-native --update that fails has left
\* everything as it found it: all of it when the report says so ("failed"),
\* and all but the destinations that the report names when the rollback was
\* incomplete.
FailureUndone ==
    [][\A p \in Proc :
          Fails(p) /\ (cmd[p].op = "install" => ~cmd[p].update) =>
              LET named == IF pc'[p] = "failed" THEN {} ELSE errors'[p] IN
              /\ \A g \in Gen \ named : files'[g] = start[p][1][g]
              /\ Config \notin named => hooks' = start[p][2]
              /\ manifests' = start[p][3]]_vars

\* --dry-run plans only and writes nothing.
DryRunWritesNothing ==
    [][\A p \in Proc :
          ActsNow(p) /\ cmd[p] # None /\ cmd[p].op = "install" /\ cmd[p].dry
          => UNCHANGED disk]_vars

-----------------------------------------------------------------------------
(***************************************************************************)
(* What counts while a command is at work on the disk is what it has read  *)
(* for its plan: what it has replaced so far it can still put back.        *)
(***************************************************************************)
Working == {p \in Proc : pc[p] \in {"backup", "replace", "verify", "manifest", "undo",
                                    "u_config", "u_files", "u_manifest", "u_undo"}}

Shown == IF Working = {} THEN Now ELSE seen[CHOOSE p \in Working : TRUE]

Killed == {p \in Proc : At(p, "killed") /\ errors[p] = {}}
Unclean == {p \in Proc : At(p, "unclean") \/ (At(p, "killed") /\ errors[p] # {})}

Book == INSTANCE NativeBook
            WITH files <- Shown.files, hooks <- Shown.hooks,
                 killed <- Killed, unclean <- Unclean

\* Installations and removals are atomic, whichever step of them fails, unless
\* the command is killed or its report says that the rollback is incomplete;
\* a failed update has removed the old installation or changed nothing, and
\* the .bak copies are of what was there before (_rollback_install,
\* uninstall_native_transactional, restore_from_backup).
CommandsAtomic == Book!Spec
=============================================================================
