------------------------- MODULE NativeInstallProofs -------------------------
(***************************************************************************)
(* Proofs about NativeInstall, for any number of processes, scripts, hook  *)
(* entries and projects.  The types are right under any overlap; the rest  *)
(* is for commands that run one at a time (~Overlap), each of which may    *)
(* fail at any step, those that undo others included.                      *)
(*                                                                         *)
(* A command reads the disk once, for its plan, into seen; the invariant   *)
(* says at every later step how far the disk has moved away from that      *)
(* (Frame), and that what was seen was in order (Clean), both but for the  *)
(* destinations that a report names as not restored.                       *)
(***************************************************************************)
EXTENDS NativeInstall, TLAPS

-----------------------------------------------------------------------------
(***************************************************************************)
(* The invariant.                                                          *)
(***************************************************************************)
Altering == {"replace", "verify", "manifest", "undo"}
InstallPc == {"plan", "backup"} \cup Altering
Removing == {"u_files", "u_manifest", "u_undo"}
RemovePc == {"u_plan", "u_config"} \cup Removing
Planned == {"backup", "u_config"} \cup Altering \cup Removing

\* A running process has a command, of the kind its step belongs to; an
\* install removes only for --update.
Kinds(p) ==
    /\ Running(p) => cmd[p] \in Command
    /\ pc[p] \in InstallPc => cmd[p].op = "install"
    /\ pc[p] \in RemovePc =>
          /\ target[p] \in Proc
          /\ \/ cmd[p].op = "uninstall"
             \/ /\ cmd[p].op = "install"
                /\ cmd[p].update

TypedInv == TypeOK /\ \A p \in Proc : Kinds(p)

\* A command has no copies before it makes them, and nothing to report before
\* it undoes or restores something.
Early == {"idle", "find", "plan", "backup", "u_plan", "u_config"}
Reporting == {"undo", "u_undo", "r_files"} \cup Ended

Fresh(p) ==
    /\ pc[p] \in Early => copy[p] = Nothing
    /\ pc[p] \notin Reporting => errors[p] = {}

FreshInv == \A p \in Proc : Fresh(p)

\* One command at a time.
Solo == \A p, q \in Proc : Running(p) /\ Running(q) => p = q

AsSeen(p) == files = seen[p].files /\ hooks = seen[p].hooks
PutBack(p) ==
    /\ \A g \in Gen \ errors[p] : files[g] = seen[p].files[g]
    /\ Config \notin errors[p] => hooks = seen[p].hooks
Copied(p) == copy[p].files = seen[p].files /\ copy[p].hooks = seen[p].hooks

\* An install has put its own text in the files of done, then its entry in
\* the configuration, and has a copy of everything else it needs to undo it.
InstallFrame(p) ==
    /\ \A g \in Gen \ errors[p] : files[g] = IF g \in done[p] THEN p ELSE seen[p].files[g]
    /\ \A g \in Gen : g \in done[p] => files[g] = p
    /\ \A g \in Gen : files[g] \in {p, Torn, seen[p].files[g]}
    /\ Config \notin errors[p] =>
          hooks = IF Config \in done[p] THEN seen[p].hooks \cup {p} ELSE seen[p].hooks
    /\ hooks \in {seen[p].hooks \cup {p}, seen[p].hooks, {}}
    /\ Config \in done[p] => Gen \subseteq done[p]
    /\ Copied(p) \/ (pc[p] = "undo" /\ done[p] = {} /\ copy[p] = Nothing)
    /\ pc[p] = "replace" => Config \notin done[p]
    /\ pc[p] \in {"verify", "manifest"} => Config \in done[p]

\* A removal has taken its target's entry out of the configuration, and has
\* moved the files of done away, its target's only unless it is forced.
RemoveFrame(p) ==
    /\ \A g \in Gen \ errors[p] : files[g] = IF g \in done[p] THEN None ELSE seen[p].files[g]
    /\ \A g \in Gen : files[g] \in {None, Torn, seen[p].files[g]}
    /\ \A g \in Gen : g \in done[p] => copy[p].files[g] = seen[p].files[g]
    /\ Config \notin errors[p] =>
          hooks = IF Config \in done[p] THEN seen[p].hooks \ {target[p]} ELSE seen[p].hooks
    /\ hooks \in {seen[p].hooks \ {target[p]}, seen[p].hooks, {}}
    /\ pc[p] \in {"u_files", "u_manifest"} => target[p] \notin hooks
    /\ pc[p] = "u_manifest" => \A g \in Gen : files[g] = None
    /\ pc[p] = "u_files" /\ ~Forced(p) =>
          \A g \in Gen : g \in done[p] => seen[p].files[g] = target[p]

\* What a command that is not an update has found.
StartFrame(p) ==
    (cmd[p].op = "install" => ~cmd[p].update) =>
        /\ pc[p] \in {"find", "plan", "u_plan"} => start[p] = disk
        /\ pc[p] \in Planned => start[p] = <<seen[p].files, seen[p].hooks, manifests>>

Frame(p) ==
    /\ pc[p] \in InstallPc => manifests = {}
    /\ pc[p] \in RemovePc => Recorded = {target[p]}
    /\ pc[p] \in {"backup", "u_config"} => AsSeen(p) /\ done[p] = {}
    /\ pc[p] \in Altering => InstallFrame(p)
    /\ pc[p] \in Removing => RemoveFrame(p)
    /\ pc[p] \in {"r_config", "r_files"} => \E r \in manifests : copy[p] = r.backup
    /\ StartFrame(p)

\* Files and entries as they are between commands: what is not the user's has
\* a manifest, and an installation's entry comes with all the scripts.
Settled(fs, hs) ==
    /\ \A g \in Gen \ Reported : fs[g] \in Recorded \cup {User, None}
    /\ Config \notin Reported => hs \subseteq Recorded \cup UserHook
    /\ Config \notin Reported /\ hs \cap Proc # {} =>
          \A g \in Gen \ Reported : fs[g] # None

\* A copy taken before an installation holds nothing of one.
OnlyUsers(copied) ==
    /\ \A g \in Gen \ Reported : copied.files[g] \in {User, None}
    /\ Config \notin Reported => copied.hooks \subseteq UserHook

Clean ==
    /\ \A r \in manifests : OnlyUsers(r.backup)
    /\ \A p \in Proc : pc[p] \in {"r_config", "r_files"} => OnlyUsers(copy[p])
    /\ \A p \in Proc : pc[p] \in Planned => Settled(seen[p].files, seen[p].hooks)
    /\ (\A p \in Proc : pc[p] \notin Planned) => Settled(files, hooks)

SoloInv ==
    /\ TypedInv
    /\ FreshInv
    /\ Solo
    /\ OneInstallation
    /\ \A p \in Proc : Running(p) => Frame(p)
    /\ NoneKilled => Clean

-----------------------------------------------------------------------------
(***************************************************************************)
(* Types, whatever overlaps.                                               *)
(***************************************************************************)

\* What one process makes of its own variables leaves those of the others.
Local(p, step, c, t, sn, cp, d) ==
    /\ pc' = [pc EXCEPT ![p] = step]
    /\ cmd' = [cmd EXCEPT ![p] = c]
    /\ target' = [target EXCEPT ![p] = t]
    /\ seen' = [seen EXCEPT ![p] = sn]
    /\ copy' = [copy EXCEPT ![p] = cp]
    /\ done' = [done EXCEPT ![p] = d]

DiskTyped ==
    /\ files \in [Gen -> Text]
    /\ hooks \subseteq Hook
    /\ manifests \subseteq Manifest
    /\ errors \in [Proc -> SUBSET (Gen \cup {Config})]

\* What the types say of one process.
LEMMA Parts ==
    ASSUME TypeOK, NEW p \in Proc
    PROVE  /\ DiskTyped
           /\ pc[p] \in Pc
           /\ cmd[p] \in Command \cup {None}
           /\ target[p] \in Proc \cup {None}
           /\ seen[p] \in Snapshot
           /\ copy[p] \in Snapshot
           /\ done[p] \in SUBSET (Gen \cup {Config})
           /\ Nothing \in Snapshot
           /\ Now \in Snapshot
  BY DEF TypeOK, DiskTyped, Nothing, Now, Snapshot, Text

\* A step of p with values of the right types.
LEMMA TypedUpdate ==
    ASSUME TypedInv, NEW p \in Proc, NEW step \in Pc,
           NEW c \in Command \cup {None}, NEW t \in Proc \cup {None},
           NEW sn \in Snapshot, NEW cp \in Snapshot,
           NEW d \in SUBSET (Gen \cup {Config}),
           Local(p, step, c, t, sn, cp, d),
           DiskTyped',
           start' \in [Proc -> [Gen -> Text] \X (SUBSET Hook) \X (SUBSET Manifest)],
           step \notin Ended \cup {"idle"} => c \in Command,
           step \in InstallPc => c.op = "install",
           step \in RemovePc =>
              /\ t \in Proc
              /\ c.op = "uninstall" \/ (c.op = "install" /\ c.update)
    PROVE  TypedInv'
<1>1. TypeOK
  BY DEF TypedInv
<1>2. TypeOK'
  BY <1>1 DEF TypeOK, Local, DiskTyped
<1>3. ASSUME NEW q \in Proc
      PROVE  Kinds(q)'
  <2>1. CASE q = p
    BY <1>1, <2>1 DEF TypeOK, Local, Kinds, Running
  <2>2. CASE q # p
    <3>1. /\ pc'[q] = pc[q]
          /\ cmd'[q] = cmd[q]
          /\ target'[q] = target[q]
      BY <1>1, <2>2 DEF TypeOK, Local
    <3>2. Kinds(q)
      BY DEF TypedInv
    <3>3. QED
      BY <3>1, <3>2 DEF Kinds, Running
  <2>3. QED
    BY <2>1, <2>2
<1>4. QED
  BY <1>2, <1>3 DEF TypedInv

\* A variable that a step of p leaves alone.
LEMMA Alike ==
    ASSUME TypeOK, NEW p \in Proc
    PROVE  /\ pc = [pc EXCEPT ![p] = pc[p]]
           /\ cmd = [cmd EXCEPT ![p] = cmd[p]]
           /\ target = [target EXCEPT ![p] = target[p]]
           /\ seen = [seen EXCEPT ![p] = seen[p]]
           /\ copy = [copy EXCEPT ![p] = copy[p]]
           /\ done = [done EXCEPT ![p] = done[p]]
  BY DEF TypeOK

\* The end of a command.
LEMMA TypedReturn ==
    ASSUME TypedInv, NEW p \in Proc, NEW result \in Ended, Return(p, result),
           DiskTyped'
    PROVE  TypedInv'
<1>1. TypeOK
  BY DEF TypedInv
<1>2. Local(p, result, None, None, Nothing, Nothing, {})
  BY DEF Return, Goto, Local
<1>3. <<Nothing.files, {}, {}>> \in [Gen -> Text] \X (SUBSET Hook) \X (SUBSET Manifest)
  BY DEF Nothing, Text
<1>4. start' \in [Proc -> [Gen -> Text] \X (SUBSET Hook) \X (SUBSET Manifest)]
  BY <1>1, <1>3 DEF Return, TypeOK
<1>5. /\ result \in Pc
      /\ result \notin InstallPc
      /\ result \notin RemovePc
      /\ result \in Ended \cup {"idle"}
  BY DEF Pc, Ended, InstallPc, RemovePc, Altering, Removing
<1>6. /\ None \in Command \cup {None}
      /\ None \in Proc \cup {None}
      /\ Nothing \in Snapshot
      /\ {} \in SUBSET (Gen \cup {Config})
  BY <1>1, Parts
<1>7. QED
  BY <1>2, <1>4, <1>5, <1>6, TypedUpdate

\* A step within a command.
LEMMA TypedMove ==
    ASSUME TypedInv, NEW p \in Proc, NEW step \in Pc,
           NEW t \in Proc \cup {None}, NEW sn \in Snapshot, NEW cp \in Snapshot,
           NEW d \in SUBSET (Gen \cup {Config}),
           Running(p),
           Local(p, step, cmd[p], t, sn, cp, d),
           start' = start,
           DiskTyped',
           step \in InstallPc => cmd[p].op = "install",
           step \in RemovePc =>
              /\ t \in Proc
              /\ cmd[p].op = "uninstall" \/ (cmd[p].op = "install" /\ cmd[p].update)
    PROVE  TypedInv'
<1>1. TypeOK /\ cmd[p] \in Command
  BY DEF TypedInv, Kinds
<1>2. start' \in [Proc -> [Gen -> Text] \X (SUBSET Hook) \X (SUBSET Manifest)]
  BY <1>1 DEF TypeOK
<1>3. QED
  BY <1>1, <1>2, TypedUpdate

\* A process at a step of a command runs.
LEMMA RunningAt ==
    ASSUME NEW p \in Proc
    PROVE  /\ pc[p] \in InstallPc \cup RemovePc \cup {"find", "r_config", "r_files"}
                 => Running(p)
           /\ Installing(p, "find") => Running(p)
  BY DEF Running, Ended, InstallPc, RemovePc, Altering, Removing, Installing, At

\* The steps are steps, and the groups of them disjoint.
LEMMA Steps ==
    /\ {"find", "r_config", "r_files"} \cup InstallPc \cup RemovePc \subseteq Pc
    /\ Ended \subseteq Pc
    /\ "idle" \in Pc
    /\ InstallPc \cap RemovePc = {}
    /\ {"find", "r_config", "r_files"} \cap (InstallPc \cup RemovePc) = {}
  BY DEF Pc, InstallPc, RemovePc, Altering, Removing

\* The steps of an installation.
LEMMA TypedInstall ==
    ASSUME TypedInv, NEW p \in Proc, InstallStep(p)
    PROVE  TypedInv'
<1> USE NativeInstallAssumption
<1>1. TypeOK /\ Kinds(p)
  BY DEF TypedInv
<1>2. /\ DiskTyped
      /\ target[p] \in Proc \cup {None}
      /\ seen[p] \in Snapshot
      /\ copy[p] \in Snapshot
      /\ done[p] \in SUBSET (Gen \cup {Config})
      /\ Now \in Snapshot
  BY <1>1, Parts
<1>3. /\ cmd = [cmd EXCEPT ![p] = cmd[p]]
      /\ target = [target EXCEPT ![p] = target[p]]
      /\ seen = [seen EXCEPT ![p] = seen[p]]
      /\ copy = [copy EXCEPT ![p] = copy[p]]
      /\ done = [done EXCEPT ![p] = done[p]]
      /\ pc = [pc EXCEPT ![p] = pc[p]]
  BY <1>1, Alike
<1>4. ASSUME UNCHANGED <<disk, errors>>
      PROVE  DiskTyped'
  BY <1>2, <1>4 DEF disk, DiskTyped
<1>5. CASE FindNothing(p)
  <2>1. /\ Running(p) /\ cmd[p].op = "install"
        /\ "plan" \in Pc /\ "plan" \notin RemovePc
    BY <1>5, RunningAt DEF FindNothing, Installing, At, Pc, RemovePc, Removing
  <2>2. /\ Local(p, "plan", cmd[p], target[p], seen[p], copy[p], done[p])
        /\ start' = start
        /\ DiskTyped'
    BY <1>2, <1>3, <1>4, <1>5, <2>1 DEF FindNothing, Goto, findOnly, Local
  <2>3. QED
    BY <1>2, <1>5, <2>1, <2>2, TypedMove
<1>6. ASSUME NEW r \in manifests, FindSome(p, r)
      PROVE  TypedInv'
  <2>1. PICK result \in {"noop", "refused"} : Return(p, result)
    BY <1>6 DEF FindSome
  <2>2. QED
    BY <1>4, <1>6, <2>1, TypedReturn DEF FindSome, Ended
<1>7. ASSUME NEW r \in manifests, FindToUpdate(p, r)
      PROVE  TypedInv'
  <2>1. /\ Running(p) /\ cmd[p].op = "install" /\ cmd[p].update
        /\ "u_plan" \in Pc /\ "u_plan" \notin InstallPc
        /\ r.id \in Proc
    BY <1>2, <1>7, RunningAt
    DEF FindToUpdate, Installing, At, Pc, InstallPc, Altering, DiskTyped, Manifest
  <2>2. /\ Local(p, "u_plan", cmd[p], r.id, seen[p], copy[p], done[p])
        /\ start' = start
        /\ DiskTyped'
    BY <1>2, <1>3, <1>4, <1>7, <2>1 DEF FindToUpdate, Goto, findOnly, Local
  <2>3. QED
    BY <1>2, <2>1, <2>2, TypedMove
<1>8. CASE Plan(p)
  <2>1. /\ Running(p) /\ cmd[p].op = "install"
        /\ "backup" \in Pc /\ "backup" \notin RemovePc
    BY <1>1, <1>8, RunningAt
    DEF Plan, At, Kinds, Pc, InstallPc, RemovePc, Removing
  <2>2. {} \in SUBSET (Gen \cup {Config})
    OBVIOUS
  <2>3. /\ Local(p, "backup", cmd[p], target[p], Now, copy[p], {})
        /\ start' = start
        /\ DiskTyped'
    BY <1>2, <1>3, <1>4, <1>8, <2>1, <2>2 DEF Plan, Goto, stepOnly, Local
  <2>4. QED
    BY <1>2, <2>1, <2>2, <2>3, TypedMove
<1>9. CASE PlanOnly(p)
  BY <1>4, <1>9, TypedReturn DEF PlanOnly, Ended
<1>10. CASE Backup(p)
  <2> DEFINE cp == [files |-> [g \in Gen |-> IF g \in Found(p) THEN files[g] ELSE None],
                    hooks |-> hooks]
  <2>1. /\ Running(p) /\ cmd[p].op = "install"
        /\ "replace" \in Pc /\ "replace" \notin RemovePc
    BY <1>1, <1>10, RunningAt
    DEF Backup, At, Kinds, Pc, InstallPc, RemovePc, Removing
  <2>2. cp \in Snapshot
    BY <1>2 DEF Snapshot, DiskTyped, Text
  <2>3. copy' = [copy EXCEPT ![p] = cp]
    BY <1>10 DEF Backup
  <2> HIDE DEF cp
  <2>4. /\ Local(p, "replace", cmd[p], target[p], seen[p], cp, done[p])
        /\ start' = start
        /\ DiskTyped'
    BY <1>2, <1>3, <1>4, <1>10, <2>1, <2>2, <2>3 DEF Backup, Goto, stepOnly, Local
  <2>5. QED
    BY <1>2, <2>1, <2>2, <2>3, <2>4, TypedMove
<1>11. ASSUME NEW g \in Gen,
              ReplaceFile(p, g) \/ UndoFile(p, g)
       PROVE  TypedInv'
  <2>1. /\ Running(p) /\ cmd[p].op = "install"
        /\ pc[p] \in Pc /\ pc[p] \notin RemovePc
    BY <1>1, <1>11, RunningAt
    DEF ReplaceFile, UndoFile, At, Kinds, Pc, InstallPc, RemovePc, Removing, Altering
  <2>2. PICK text \in Text, d \in SUBSET (Gen \cup {Config}) :
        /\ files' = [files EXCEPT ![g] = text]
        /\ done' = [done EXCEPT ![p] = d]
        /\ errors' \in {errors, [errors EXCEPT ![p] = @ \cup {g}]}
        /\ UNCHANGED <<hooks, manifests, pc, seen, copy, cmd, target, start>>
    <3>1. CASE ReplaceFile(p, g)
      <4>1. p \in Text /\ done[p] \cup {g} \in SUBSET (Gen \cup {Config})
        BY <1>2 DEF Text
      <4>2. QED
        BY <3>1, <4>1 DEF ReplaceFile, stepOnly
    <3>2. CASE UndoFile(p, g)
      <4>1. Former(p, g) \in Text /\ files[g] \in Text /\ Torn \in Text
        BY <1>2 DEF Text, Snapshot, Former, DiskTyped
      <4>2. done[p] \ {g} \in SUBSET (Gen \cup {Config})
        BY <1>2
      <4>3. QED
        BY <3>2, <4>1, <4>2 DEF UndoFile, Undone, undoOnly
    <3>3. QED
      BY <1>11, <3>1, <3>2
  <2>3. DiskTyped'
    BY <1>2, <2>2 DEF DiskTyped
  <2>4. /\ Local(p, pc[p], cmd[p], target[p], seen[p], copy[p], d)
        /\ start' = start
    BY <1>3, <2>2 DEF Local
  <2>5. QED
    BY <1>2, <2>1, <2>3, <2>4, TypedMove
<1>12. CASE ReplaceConfig(p) \/ UndoConfig(p)
  <2>1. PICK step \in {"verify", "undo"} : pc' = [pc EXCEPT ![p] = step]
    BY <1>3, <1>12 DEF ReplaceConfig, UndoConfig, Goto, At, undoOnly
  <2>2. /\ Running(p) /\ cmd[p].op = "install"
        /\ step \in Pc /\ step \notin RemovePc
    BY <1>1, <1>12, RunningAt
    DEF ReplaceConfig, UndoConfig, At, Kinds, Pc, InstallPc, RemovePc, Removing, Altering
  <2>3. PICK d \in SUBSET (Gen \cup {Config}) :
        /\ hooks' \subseteq Hook
        /\ UNCHANGED <<files, manifests, seen, copy, cmd, target, start>>
        /\ done' = [done EXCEPT ![p] = d]
        /\ errors' \in {errors, [errors EXCEPT ![p] = @ \cup {Config}]}
    <3>1. CASE ReplaceConfig(p)
      <4>1. seen[p].hooks \subseteq Hook /\ p \in Hook
        BY <1>1, <1>2 DEF TypeOK, Hook, Snapshot
      <4>2. done[p] \cup {Config} \in SUBSET (Gen \cup {Config})
        BY <1>1, <1>2 DEF TypeOK
      <4>3. QED
        BY <3>1, <4>1, <4>2 DEF ReplaceConfig, stepOnly
    <3>2. CASE UndoConfig(p)
      BY <1>1, <1>2, <3>2 DEF UndoConfig, Undone, undoOnly, TypeOK, Hook, Snapshot
    <3>3. QED
      BY <1>12, <3>1, <3>2
  <2>4. DiskTyped'
    BY <1>2, <2>3 DEF DiskTyped
  <2>5. /\ Local(p, step, cmd[p], target[p], seen[p], copy[p], d)
        /\ start' = start
    BY <1>2, <1>3, <2>1, <2>2, <2>3, <2>4 DEF Local
  <2>6. QED
    BY <1>2, <2>1, <2>2, <2>3, <2>4, <2>5, TypedMove
<1>13. CASE Verify(p) \/ Raise(p)
  <2>1. PICK step \in {"manifest", "undo"} : pc' = [pc EXCEPT ![p] = step]
    BY <1>13 DEF Verify, Raise, Goto
  <2>2. /\ Running(p) /\ cmd[p].op = "install"
        /\ step \in Pc /\ step \notin RemovePc
    BY <1>1, <1>13, RunningAt
    DEF Verify, Raise, At, Kinds, Pc, InstallPc, RemovePc, Removing, Altering
  <2>3. UNCHANGED <<disk, cmd, target, seen, copy, done, start, errors>>
    BY <1>13 DEF Verify, Raise, stepOnly
  <2>4. /\ Local(p, step, cmd[p], target[p], seen[p], copy[p], done[p])
        /\ start' = start
        /\ DiskTyped'
    BY <1>2, <1>3, <1>4, <2>1, <2>2, <2>3 DEF Local
  <2>5. QED
    BY <1>2, <2>1, <2>2, <2>3, <2>4, TypedMove
<1>14. CASE WriteManifest(p)
  <2>1. cmd[p] \in Command /\ cmd[p].op = "install"
    BY <1>1, <1>14, RunningAt
    DEF WriteManifest, At, Kinds, InstallPc, Altering
  <2>2. cmd[p].project \in Project
    BY <2>1 DEF Command
  <2>3. [id |-> p, project |-> cmd[p].project, backup |-> copy[p]] \in Manifest
    BY <1>2, <2>2 DEF Manifest
  <2>4. DiskTyped'
    BY <1>2, <1>14, <2>3 DEF WriteManifest, DiskTyped
  <2>5. QED
    BY <1>14, <2>4, TypedReturn DEF WriteManifest, Ended
<1>15. CASE EndUndo(p)
  BY <1>2, <1>15, TypedReturn DEF EndUndo, DiskTyped, Ended
<1>16. QED
  BY <1>5, <1>6, <1>7, <1>8, <1>9, <1>10, <1>11, <1>12, <1>13, <1>14, <1>15
  DEF InstallStep

\* The steps of a removal.
LEMMA TypedUninstall ==
    ASSUME TypedInv, NEW p \in Proc, UninstallStep(p)
    PROVE  TypedInv'
<1> USE NativeInstallAssumption
<1>1. TypeOK /\ Kinds(p)
  BY DEF TypedInv
<1>2. /\ DiskTyped
      /\ target[p] \in Proc \cup {None}
      /\ seen[p] \in Snapshot
      /\ copy[p] \in Snapshot
      /\ done[p] \in SUBSET (Gen \cup {Config})
      /\ Now \in Snapshot
  BY <1>1, Parts
<1>3. /\ cmd = [cmd EXCEPT ![p] = cmd[p]]
      /\ target = [target EXCEPT ![p] = target[p]]
      /\ seen = [seen EXCEPT ![p] = seen[p]]
      /\ copy = [copy EXCEPT ![p] = copy[p]]
      /\ done = [done EXCEPT ![p] = done[p]]
      /\ pc = [pc EXCEPT ![p] = pc[p]]
  BY <1>1, Alike
<1>4. ASSUME UNCHANGED <<disk, errors>>
      PROVE  DiskTyped'
  BY <1>2, <1>4 DEF disk, DiskTyped
<1>5. ASSUME pc[p] \in RemovePc
      PROVE  /\ Running(p)
             /\ target[p] \in Proc
             /\ cmd[p].op = "uninstall" \/ (cmd[p].op = "install" /\ cmd[p].update)
  BY <1>1, <1>5, RunningAt DEF Kinds
<1>6. CASE FindNoneToRemove(p)
  BY <1>4, <1>6, TypedReturn DEF FindNoneToRemove, Ended
<1>7. ASSUME NEW r \in manifests, FindToRemove(p, r)
      PROVE  TypedInv'
  <2>1. /\ Running(p) /\ cmd[p].op = "uninstall"
        /\ "u_plan" \in Pc /\ "u_plan" \notin InstallPc
        /\ r.id \in Proc
    BY <1>2, <1>7, RunningAt
    DEF FindToRemove, At, Pc, InstallPc, Altering, DiskTyped, Manifest
  <2>2. /\ Local(p, "u_plan", cmd[p], r.id, seen[p], copy[p], done[p])
        /\ start' = start
        /\ DiskTyped'
    BY <1>2, <1>3, <1>4, <1>7, <2>1 DEF FindToRemove, Goto, findOnly, Local
  <2>3. QED
    BY <1>2, <2>1, <2>2, TypedMove
<1>8. CASE PlanRemoval(p)
  <2>1. PICK step \in {"plan", "u_config"} :
           /\ pc' = [pc EXCEPT ![p] = step]
           /\ step = "plan" => cmd[p].op = "install"
    BY <1>8 DEF PlanRemoval, Goto
  <2>2. /\ pc[p] \in RemovePc
        /\ step \in Pc
        /\ step \in InstallPc => step = "plan"
    BY <1>8 DEF PlanRemoval, At, Pc, RemovePc, InstallPc, Altering
  <2>3. {} \in SUBSET (Gen \cup {Config})
    OBVIOUS
  <2>4. /\ Local(p, step, cmd[p], target[p], Now, copy[p], {})
        /\ start' = start
        /\ DiskTyped'
    BY <1>2, <1>3, <1>4, <1>5, <1>8, <2>1, <2>2, <2>3 DEF PlanRemoval, stepOnly, Local
  <2>5. QED
    BY <1>2, <1>5, <2>1, <2>2, <2>3, <2>4, TypedMove
<1>9. CASE PlanRemovalOnly(p)
  BY <1>4, <1>9, TypedReturn DEF PlanRemovalOnly, Ended
<1>10. CASE RemoveHooks(p)
  <2>1. /\ pc[p] \in RemovePc
        /\ "u_files" \in Pc /\ "u_files" \notin InstallPc
    BY <1>10 DEF RemoveHooks, At, Pc, RemovePc, InstallPc, Altering
  <2>2. hooks' \subseteq Hook /\ UNCHANGED <<files, manifests, errors>>
    BY <1>2, <1>10 DEF RemoveHooks, DiskTyped, Snapshot, stepOnly
  <2>3. DiskTyped'
    BY <1>2, <2>2 DEF DiskTyped
  <2>4. PICK d \in SUBSET (Gen \cup {Config}) : done' = [done EXCEPT ![p] = d]
    BY <1>10 DEF RemoveHooks
  <2>5. /\ Local(p, "u_files", cmd[p], target[p], seen[p], copy[p], d)
        /\ start' = start
    BY <1>2, <1>3, <1>5, <1>10, <2>1, <2>3, <2>4 DEF RemoveHooks, Goto, stepOnly, Local
  <2>6. QED
    BY <1>2, <1>5, <2>1, <2>3, <2>4, <2>5, TypedMove
<1>11. ASSUME NEW g \in Gen, Quarantine(p, g)
       PROVE  TypedInv'
  <2> DEFINE cp == [copy[p] EXCEPT !.files[g] = files[g]]
  <2>1. pc[p] \in RemovePc /\ pc[p] \in Pc /\ pc[p] \notin InstallPc
    BY <1>11 DEF Quarantine, At, Pc, RemovePc, Removing, InstallPc, Altering
  <2>2. cp \in Snapshot /\ copy' = [copy EXCEPT ![p] = cp]
    BY <1>2, <1>11 DEF Quarantine, Snapshot, DiskTyped
  <2>3. /\ DiskTyped'
        /\ done[p] \cup {g} \in SUBSET (Gen \cup {Config})
    BY <1>2, <1>11 DEF Quarantine, DiskTyped, Text, stepOnly
  <2>4. done' = [done EXCEPT ![p] = done[p] \cup {g}]
    BY <1>11 DEF Quarantine
  <2> HIDE DEF cp
  <2>5. /\ Local(p, pc[p], cmd[p], target[p], seen[p], cp, done[p] \cup {g})
        /\ start' = start
    BY <1>2, <1>3, <1>5, <1>11, <2>1, <2>2, <2>3, <2>4 DEF Quarantine, stepOnly, Local
  <2>6. QED
    BY <1>2, <1>5, <2>1, <2>2, <2>3, <2>4, <2>5, TypedMove
<1>12. CASE QuarantineDone(p) \/ RaiseRemoval(p)
  <2>1. PICK step \in {"u_manifest", "u_undo"} : pc' = [pc EXCEPT ![p] = step]
    BY <1>12 DEF QuarantineDone, RaiseRemoval, Goto
  <2>2. /\ pc[p] \in RemovePc
        /\ step \in Pc
        /\ step \notin InstallPc
    BY <1>12 DEF QuarantineDone, RaiseRemoval, At, Pc, RemovePc, Removing, InstallPc, Altering
  <2>3. UNCHANGED <<disk, cmd, target, seen, copy, done, start, errors>>
    BY <1>12 DEF QuarantineDone, RaiseRemoval, stepOnly
  <2>4. /\ Local(p, step, cmd[p], target[p], seen[p], copy[p], done[p])
        /\ start' = start
        /\ DiskTyped'
    BY <1>2, <1>3, <1>4, <1>5, <2>1, <2>2, <2>3 DEF Local
  <2>5. QED
    BY <1>2, <1>5, <2>1, <2>2, <2>3, <2>4, TypedMove
<1>13. CASE EndPreserved(p) \/ EndRestore(p)
  <2>1. \E result \in {"ok", "failed", "unclean"} :
           Return(p, result) /\ UNCHANGED <<disk, errors>>
    BY <1>13 DEF EndPreserved, EndRestore
  <2>2. QED
    BY <1>4, <2>1, TypedReturn DEF Ended
<1>14. CASE RemoveManifest(p)
  BY <1>2, <1>14, TypedReturn DEF RemoveManifest, DiskTyped, Ended
<1>15. CASE RemoveForUpdate(p)
  <2>1. /\ pc[p] \in RemovePc
        /\ cmd[p].op = "install"
        /\ "plan" \in Pc /\ "plan" \notin RemovePc
    BY <1>15 DEF RemoveForUpdate, At, Pc, RemovePc, Removing
  <2>2. DiskTyped'
    BY <1>2, <1>15 DEF RemoveForUpdate, DiskTyped, stepOnly
  <2>3. /\ Local(p, "plan", cmd[p], target[p], seen[p], Nothing, done[p])
        /\ start' = start
        /\ Nothing \in Snapshot
    BY <1>1, <1>2, <1>3, <1>5, <1>15, <2>1, <2>2, Parts
    DEF RemoveForUpdate, Goto, stepOnly, Local
  <2>4. QED
    BY <1>2, <1>5, <2>1, <2>2, <2>3, TypedMove
<1>16. CASE RestoreHooks(p)
  <2>1. pc[p] \in RemovePc /\ pc[p] \in Pc /\ pc[p] \notin InstallPc
    BY <1>16 DEF RestoreHooks, At, Pc, RemovePc, Removing, InstallPc, Altering
  <2>2. /\ DiskTyped'
        /\ done[p] \ {Config} \in SUBSET (Gen \cup {Config})
    BY <1>2, <1>16 DEF RestoreHooks, Undone, undoOnly, DiskTyped, Snapshot
  <2>3. done' = [done EXCEPT ![p] = done[p] \ {Config}]
    BY <1>16 DEF RestoreHooks, Undone
  <2>4. /\ Local(p, pc[p], cmd[p], target[p], seen[p], copy[p], done[p] \ {Config})
        /\ start' = start
    BY <1>2, <1>3, <1>5, <1>16, <2>1, <2>2, <2>3 DEF RestoreHooks, undoOnly, Local
  <2>5. QED
    BY <1>2, <1>5, <2>1, <2>2, <2>3, <2>4, TypedMove
<1>17. ASSUME NEW g \in Gen, RestoreFile(p, g)
       PROVE  TypedInv'
  <2>1. pc[p] \in RemovePc /\ pc[p] \in Pc /\ pc[p] \notin InstallPc
    BY <1>17 DEF RestoreFile, At, Pc, RemovePc, Removing, InstallPc, Altering
  <2>2. /\ DiskTyped'
        /\ done[p] \ {g} \in SUBSET (Gen \cup {Config})
    <3>1. copy[p].files[g] \in Text /\ files[g] \in Text /\ Torn \in Text
      BY <1>2 DEF DiskTyped, Snapshot, Text
    <3>2. files' \in [Gen -> Text] /\ UNCHANGED <<hooks, manifests>>
      BY <1>2, <1>17, <3>1 DEF RestoreFile, undoOnly, DiskTyped
    <3>3. errors' \in {errors, [errors EXCEPT ![p] = @ \cup {g}]}
      BY <1>17 DEF RestoreFile, Undone
    <3>4. QED
      BY <1>2, <3>2, <3>3 DEF DiskTyped
  <2>3. done' = [done EXCEPT ![p] = done[p] \ {g}]
    BY <1>17 DEF RestoreFile, Undone
  <2>4. /\ Local(p, pc[p], cmd[p], target[p], seen[p], copy[p], done[p] \ {g})
        /\ start' = start
    BY <1>2, <1>3, <1>5, <1>17, <2>1, <2>2, <2>3 DEF RestoreFile, undoOnly, Local
  <2>5. QED
    BY <1>2, <1>5, <2>1, <2>2, <2>3, <2>4, TypedMove
<1>18. QED
  BY <1>6, <1>7, <1>8, <1>9, <1>10, <1>11, <1>12, <1>13, <1>14, <1>15, <1>16, <1>17
  DEF UninstallStep

\* The steps of a restore.
LEMMA TypedRevert ==
    ASSUME TypedInv, NEW p \in Proc, RestoreStep(p)
    PROVE  TypedInv'
<1> USE NativeInstallAssumption
<1>1. TypeOK
  BY DEF TypedInv
<1>2. /\ DiskTyped
      /\ target[p] \in Proc \cup {None}
      /\ seen[p] \in Snapshot
      /\ copy[p] \in Snapshot
      /\ done[p] \in SUBSET (Gen \cup {Config})
  BY <1>1, Parts
<1>3. /\ cmd = [cmd EXCEPT ![p] = cmd[p]]
      /\ target = [target EXCEPT ![p] = target[p]]
      /\ seen = [seen EXCEPT ![p] = seen[p]]
      /\ copy = [copy EXCEPT ![p] = copy[p]]
      /\ done = [done EXCEPT ![p] = done[p]]
      /\ pc = [pc EXCEPT ![p] = pc[p]]
  BY <1>1, Alike
<1>4. ASSUME UNCHANGED <<disk, errors>>
      PROVE  DiskTyped'
  BY <1>2, <1>4 DEF disk, DiskTyped
<1>5. ASSUME NEW step \in {"r_config", "r_files"}
      PROVE  step \in Pc /\ step \notin InstallPc /\ step \notin RemovePc
  BY Steps
<1>6. CASE FindToRevert(p)
  <2>1. ASSUME NEW r \in manifests,
               target' = [target EXCEPT ![p] = r.id],
               copy' = [copy EXCEPT ![p] = r.backup],
               Goto(p, "r_config"),
               UNCHANGED <<disk, cmd, seen, done, start, errors>>
        PROVE  TypedInv'
    <3>1. r.id \in Proc /\ r.backup \in Snapshot
      BY <1>2 DEF DiskTyped, Manifest
    <3>2. Running(p)
      BY <1>6, RunningAt DEF FindToRevert, At
    <3>3. /\ Local(p, "r_config", cmd[p], r.id, seen[p], r.backup, done[p])
          /\ start' = start
          /\ DiskTyped'
      BY <1>2, <1>3, <1>4, <1>5, <2>1, <3>1, <3>2 DEF Goto, Local
    <3>4. QED
      BY <1>2, <1>5, <2>1, <3>1, <3>2, <3>3, TypedMove
  <2>2. CASE Return(p, "refused") /\ UNCHANGED <<disk, errors>>
    BY <1>4, <2>2, TypedReturn DEF Ended
  <2>3. QED
    BY <1>6, <2>1, <2>2 DEF FindToRevert
<1>7. CASE RevertConfig(p)
  <2> DEFINE sn == [seen[p] EXCEPT !.hooks = hooks]
  <2>1. Running(p)
    BY <1>7, RunningAt DEF RevertConfig, At
  <2>2. sn \in Snapshot /\ seen' = [seen EXCEPT ![p] = sn]
    BY <1>2, <1>7 DEF RevertConfig, Snapshot, DiskTyped
  <2>3. DiskTyped'
    BY <1>2, <1>7 DEF RevertConfig, Cut, revertOnly, DiskTyped, Snapshot
  <2> HIDE DEF sn
  <2>4. /\ Local(p, "r_files", cmd[p], target[p], sn, copy[p], done[p])
        /\ start' = start
    BY <1>2, <1>3, <1>5, <1>7, <2>1, <2>2, <2>3 DEF RevertConfig, Goto, revertOnly, Local
  <2>5. QED
    BY <1>2, <1>5, <2>1, <2>2, <2>3, <2>4, TypedMove
<1>8. ASSUME NEW g \in Gen, RevertFile(p, g)
      PROVE  TypedInv'
  <2> DEFINE sn == [seen[p] EXCEPT !.files[g] = files[g]]
  <2>1. Running(p) /\ pc[p] \in Pc /\ pc[p] \notin InstallPc /\ pc[p] \notin RemovePc
    BY <1>5, <1>8, RunningAt DEF RevertFile, At
  <2>2. sn \in Snapshot /\ seen' = [seen EXCEPT ![p] = sn]
    BY <1>2, <1>8 DEF RevertFile, Snapshot, DiskTyped
  <2>3. /\ DiskTyped'
        /\ done[p] \cup {g} \in SUBSET (Gen \cup {Config})
    <3>1. copy[p].files[g] \in Text /\ Torn \in Text
      BY <1>2 DEF Snapshot, Text
    <3>2. files' \in [Gen -> Text] /\ UNCHANGED <<hooks, manifests>>
      BY <1>2, <1>8, <3>1 DEF RevertFile, revertOnly, DiskTyped
    <3>3. errors' \in {errors, [errors EXCEPT ![p] = @ \cup {g}]}
      BY <1>8 DEF RevertFile, Cut
    <3>4. QED
      BY <1>2, <3>2, <3>3 DEF DiskTyped
  <2>4. done' = [done EXCEPT ![p] = done[p] \cup {g}]
    BY <1>8 DEF RevertFile
  <2> HIDE DEF sn
  <2>5. /\ Local(p, pc[p], cmd[p], target[p], sn, copy[p], done[p] \cup {g})
        /\ start' = start
    BY <1>2, <1>3, <1>5, <1>8, <2>1, <2>2, <2>3, <2>4 DEF RevertFile, revertOnly, Local
  <2>6. QED
    BY <1>2, <1>5, <2>1, <2>2, <2>3, <2>4, <2>5, TypedMove
<1>9. CASE RevertEnds(p) \/ RevertRaises(p)
  <2>1. \E result \in {"ok", "raised"} : Return(p, result) /\ UNCHANGED <<disk, errors>>
    BY <1>9 DEF RevertEnds, RevertRaises
  <2>2. QED
    BY <1>4, <2>1, TypedReturn DEF Ended
<1>10. QED
  BY <1>6, <1>7, <1>8, <1>9 DEF RestoreStep

\* A process takes its command.
LEMMA TypedBegin ==
    ASSUME TypedInv, NEW p \in Proc, NEW c \in Command, Begin(p, c)
    PROVE  TypedInv'
<1>1. TypeOK
  BY DEF TypedInv
<1>2. DiskTyped' /\ disk \in [Gen -> Text] \X (SUBSET Hook) \X (SUBSET Manifest)
  BY <1>1, Parts DEF DiskTyped, Begin, disk
<1>3. Local(p, "find", c, target[p], seen[p], copy[p], done[p])
  BY <1>1, Alike DEF Begin, Local, Goto
<1>4. start' \in [Proc -> [Gen -> Text] \X (SUBSET Hook) \X (SUBSET Manifest)]
  BY <1>1, <1>2 DEF Begin, TypeOK
<1>5. /\ "find" \in Pc
      /\ "find" \notin InstallPc
      /\ "find" \notin RemovePc
      /\ c \in Command \cup {None}
  BY Steps
<1>6. QED
  BY <1>1, <1>2, <1>3, <1>4, <1>5, TypedUpdate, Parts

\* What the user does, and a step in which nothing happens.
LEMMA TypedEdit ==
    ASSUME TypedInv,
           \/ \E h \in UserHook : EditHooks(h)
           \/ \E g \in Gen : EditFile(g)
           \/ UNCHANGED vars
    PROVE  TypedInv'
<1>1. UNCHANGED userOnly
  BY DEF EditHooks, EditFile, vars, userOnly
<1>2. DiskTyped'
  BY DEF TypedInv, TypeOK, DiskTyped, EditHooks, EditFile, vars, userOnly, Text, Hook
<1>3. TypeOK'
  BY <1>1, <1>2 DEF TypedInv, TypeOK, DiskTyped, userOnly
<1>4. \A p \in Proc : Kinds(p)'
  BY <1>1 DEF TypedInv, Kinds, Running, userOnly
<1>5. QED
  BY <1>3, <1>4 DEF TypedInv

\* The typed invariant is inductive.
LEMMA TypedStep == TypedInv /\ [Next]_vars => TypedInv'
<1> SUFFICES ASSUME TypedInv, [Next]_vars PROVE TypedInv'
  OBVIOUS
<1>1. ASSUME NEW p \in Proc, Kill(p)
      PROVE  TypedInv'
  <2>1. DiskTyped'
    BY <1>1 DEF Kill, disk, TypedInv, TypeOK, DiskTyped
  <2>2. QED
    BY <1>1, <2>1, TypedReturn DEF Kill, Ended
<1>2. QED
  BY <1>1, TypedInstall, TypedUninstall, TypedRevert, TypedBegin, TypedEdit DEF Next

\* The initial state satisfies it.
LEMMA TypedBegins == Init => TypedInv
<1> SUFFICES ASSUME Init PROVE TypedInv
  OBVIOUS
<1>1. Nothing \in Snapshot /\ <<Nothing.files, {}, {}>> \in
         [Gen -> Text] \X (SUBSET Hook) \X (SUBSET Manifest)
  BY DEF Nothing, Snapshot, Text
<1>2. copy = seen /\ seen = [p \in Proc |-> Nothing]
  BY DEF Init
<1>3. "idle" \in Pc
  BY DEF Pc
<1>4. TypeOK
  BY <1>1, <1>2, <1>3 DEF Init, TypeOK, Text, Hook
<1>5. \A p \in Proc : Kinds(p)
  BY DEF Init, Kinds, Running, InstallPc, RemovePc, Altering, Removing
<1>6. QED
  BY <1>4, <1>5 DEF TypedInv

\* A step of p that is not its end leaves what p makes afresh as it should be.
LEMMA FreshMove ==
    ASSUME TypeOK, FreshInv, NEW p \in Proc, NEW step \in Pc,
           pc' = [pc EXCEPT ![p] = step],
           NEW cp, copy' = [copy EXCEPT ![p] = cp],
           NEW e, errors' = [errors EXCEPT ![p] = e],
           step \in Early => cp = Nothing,
           step \notin Reporting => e = {}
    PROVE  FreshInv'
  BY DEF TypeOK, FreshInv, Fresh

\* Nothing of a command is left at its end but what it reports.
LEMMA FreshReturn ==
    ASSUME TypeOK, FreshInv, NEW p \in Proc, NEW result \in Ended, Return(p, result),
           UNCHANGED errors
    PROVE  FreshInv'
<1>1. result \in Pc /\ result \in Reporting /\ result \notin Early
  BY DEF Pc, Reporting, Early, Ended
<1>2. errors' = [errors EXCEPT ![p] = errors[p]]
  BY DEF TypeOK
<1>3. QED
  BY <1>1, <1>2, FreshMove DEF Return, Goto

\* The other steps that report nothing and copy nothing.
LEMMA FreshStay ==
    ASSUME TypeOK, FreshInv, NEW p \in Proc, NEW step \in Pc,
           pc' = [pc EXCEPT ![p] = step],
           UNCHANGED <<copy, errors>>,
           step \in Early => pc[p] \in Early,
           step \notin Reporting => pc[p] \notin Reporting
    PROVE  FreshInv'
<1>1. /\ copy' = [copy EXCEPT ![p] = copy[p]]
      /\ errors' = [errors EXCEPT ![p] = errors[p]]
      /\ Fresh(p)
  BY DEF TypeOK, FreshInv
<1>2. QED
  BY <1>1, FreshMove DEF Fresh

\* Whatever overlaps, a command begins without copies and without errors.
LEMMA FreshStep == TypeOK /\ FreshInv /\ [Next]_vars => FreshInv'
<1> SUFFICES ASSUME TypeOK, FreshInv, [Next]_vars PROVE FreshInv'
  OBVIOUS
<1> USE DEF Goto, At
<1>1. ASSUME NEW p \in Proc, NEW step \in Pc,
             pc' = [pc EXCEPT ![p] = step], UNCHANGED <<copy, errors>>,
             step \in Early => pc[p] \in Early,
             step \notin Reporting => pc[p] \notin Reporting
      PROVE  FreshInv'
  BY <1>1, FreshStay
<1>2. ASSUME NEW p \in Proc, InstallStep(p)
      PROVE  FreshInv'
  <2>1. CASE \/ FindNothing(p) \/ Plan(p) \/ ReplaceConfig(p) \/ Verify(p) \/ Raise(p)
             \/ \E r \in manifests : FindToUpdate(p, r)
    BY <1>1, <2>1
    DEF FindNothing, FindToUpdate, Plan, ReplaceConfig, Verify, Raise, Installing,
        findOnly, stepOnly, Pc, Early, Reporting, Ended
  <2>2. CASE \/ \E r \in manifests : FindSome(p, r)
             \/ PlanOnly(p) \/ WriteManifest(p) \/ EndUndo(p)
    <3>1. \E result \in Ended : Return(p, result) /\ UNCHANGED errors
      BY <2>2 DEF FindSome, PlanOnly, WriteManifest, EndUndo, Ended
    <3>2. QED
      BY <3>1, FreshReturn
  <2>3. CASE Backup(p)
    <3>1. /\ errors' = [errors EXCEPT ![p] = errors[p]]
          /\ pc' = [pc EXCEPT ![p] = "replace"]
          /\ errors[p] = {}
          /\ "replace" \in Pc /\ "replace" \notin Early
      BY <2>3 DEF Backup, stepOnly, TypeOK, FreshInv, Fresh, Reporting, Ended, Pc, Early
    <3>2. QED
      BY <2>3, <3>1, FreshMove DEF Backup
  <2>4. CASE \E g \in Gen : ReplaceFile(p, g)
    BY <2>4 DEF ReplaceFile, stepOnly, FreshInv, Fresh
  <2>5. CASE UndoConfig(p) \/ \E g \in Gen : UndoFile(p, g)
    <3>1. /\ pc[p] \in Reporting
          /\ UNCHANGED <<pc, copy>>
          /\ \A q \in Proc : q # p => errors'[q] = errors[q]
      BY <2>5 DEF UndoConfig, UndoFile, Undone, undoOnly, Reporting, TypeOK
    <3>2. QED
      BY <3>1 DEF FreshInv, Fresh
  <2>6. QED
    BY <1>2, <2>1, <2>2, <2>3, <2>4, <2>5 DEF InstallStep
<1>3. ASSUME NEW p \in Proc, UninstallStep(p)
      PROVE  FreshInv'
  <2>1. CASE \/ \E r \in manifests : FindToRemove(p, r)
             \/ PlanRemoval(p) \/ RemoveHooks(p) \/ QuarantineDone(p) \/ RaiseRemoval(p)
    BY <1>1, <2>1
    DEF FindToRemove, PlanRemoval, RemoveHooks, QuarantineDone, RaiseRemoval,
        findOnly, stepOnly, Pc, Early, Reporting, Ended
  <2>2. CASE FindNoneToRemove(p) \/ PlanRemovalOnly(p) \/ EndPreserved(p)
             \/ RemoveManifest(p) \/ EndRestore(p)
    <3>1. \E result \in Ended : Return(p, result) /\ UNCHANGED errors
      BY <2>2 DEF FindNoneToRemove, PlanRemovalOnly, EndPreserved, RemoveManifest,
                  EndRestore, Ended
    <3>2. QED
      BY <3>1, FreshReturn
  <2>3. CASE \E g \in Gen : Quarantine(p, g)
    <3>1. /\ pc[p] \notin Early
          /\ UNCHANGED <<pc, errors>>
          /\ \A q \in Proc : q # p => copy'[q] = copy[q]
      BY <2>3 DEF Quarantine, stepOnly, Early, TypeOK
    <3>2. QED
      BY <3>1 DEF FreshInv, Fresh
  <2>4. CASE RemoveForUpdate(p)
    <3>1. /\ errors' = [errors EXCEPT ![p] = errors[p]]
          /\ errors[p] = {}
          /\ "plan" \in Pc
      BY <2>4 DEF RemoveForUpdate, stepOnly, TypeOK, FreshInv, Fresh, Reporting, Ended, Pc
    <3>2. QED
      BY <2>4, <3>1, FreshMove DEF RemoveForUpdate
  <2>5. CASE RestoreHooks(p) \/ \E g \in Gen : RestoreFile(p, g)
    <3>1. /\ pc[p] \in Reporting
          /\ UNCHANGED <<pc, copy>>
          /\ \A q \in Proc : q # p => errors'[q] = errors[q]
      BY <2>5 DEF RestoreHooks, RestoreFile, Undone, undoOnly, Reporting, TypeOK
    <3>2. QED
      BY <3>1 DEF FreshInv, Fresh
  <2>6. QED
    BY <1>3, <2>1, <2>2, <2>3, <2>4, <2>5 DEF UninstallStep
<1>4. ASSUME NEW p \in Proc, RestoreStep(p)
      PROVE  FreshInv'
  <2>1. CASE \/ RevertEnds(p) \/ RevertRaises(p)
             \/ Return(p, "refused") /\ UNCHANGED errors
    BY <2>1, FreshReturn DEF RevertEnds, RevertRaises, Ended
  <2>2. CASE /\ \E r \in manifests : copy' = [copy EXCEPT ![p] = r.backup]
             /\ pc' = [pc EXCEPT ![p] = "r_config"]
             /\ pc[p] = "find" /\ UNCHANGED errors
    <3>1. /\ errors' = [errors EXCEPT ![p] = errors[p]]
          /\ errors[p] = {}
          /\ "r_config" \in Pc /\ "r_config" \notin Early
      BY <2>2 DEF TypeOK, FreshInv, Fresh, Reporting, Ended, Pc, Early
    <3>2. QED
      BY <2>2, <3>1, FreshMove
  <2>3. CASE RevertConfig(p) \/ \E g \in Gen : RevertFile(p, g)
    <3>1. /\ pc'[p] = "r_files"
          /\ UNCHANGED copy
          /\ \A q \in Proc : q # p => errors'[q] = errors[q] /\ pc'[q] = pc[q]
      BY <2>3 DEF RevertConfig, RevertFile, Cut, revertOnly, TypeOK
    <3>2. "r_files" \in Reporting /\ "r_files" \notin Early
      BY DEF Reporting, Early
    <3>3. QED
      BY <3>1, <3>2 DEF FreshInv, Fresh
  <2>4. QED
    BY <1>4, <2>1, <2>2, <2>3 DEF RestoreStep, FindToRevert
<1>5. CASE \E p \in Proc, c \in Command : Begin(p, c)
  BY <1>1, <1>5 DEF Begin, Pc, Early, Reporting, Ended
<1>6. CASE \E p \in Proc : Kill(p)
  BY <1>6, FreshReturn DEF Kill, Ended
<1>7. CASE \/ \E h \in UserHook : EditHooks(h)
           \/ \E g \in Gen : EditFile(g)
           \/ UNCHANGED vars
  BY <1>7 DEF EditHooks, EditFile, userOnly, vars, FreshInv, Fresh
<1>8. QED
  BY <1>2, <1>3, <1>4, <1>5, <1>6, <1>7 DEF Next

\* Every variable keeps its type, whatever commands and edits overlap.
THEOREM InstallTypes == Spec => []TypeOK
<1>1. TypedInv => TypeOK
  BY DEF TypedInv
<1>2. QED
  BY TypedBegins, TypedStep, <1>1, PTL DEF Spec

-----------------------------------------------------------------------------
(***************************************************************************)
(* One command at a time.                                                  *)
(***************************************************************************)

\* What reports name stays named.
LEMMA SameReports == ASSUME errors' = errors PROVE Reported' = Reported
  BY DEF Reported

LEMMA MoreReports ==
    ASSUME TypeOK, NEW p \in Proc, NEW part,
           errors' \in {errors, [errors EXCEPT ![p] = @ \cup {part}]}
    PROVE  /\ Reported \subseteq Reported'
           /\ errors[p] \subseteq errors'[p]
<1>1. \A q \in Proc : errors[q] \subseteq errors'[q]
  BY DEF TypeOK
<1>2. QED
  BY <1>1 DEF Reported

LEMMA Named == ASSUME NEW p \in Proc PROVE errors[p] \subseteq Reported
  BY DEF Reported

\* What Clean says of the running process p, or of the disk when none runs.
CleanFor(p) ==
    /\ \A r \in manifests : OnlyUsers(r.backup)
    /\ pc[p] \in {"r_config", "r_files"} => OnlyUsers(copy[p])
    /\ pc[p] \in Planned => Settled(seen[p].files, seen[p].hooks)
    /\ pc[p] \notin Planned => Settled(files, hooks)

Free(p) == \A q \in Proc : q # p => ~Running(q)

\* What the invariant says of the one process that runs.
LEMMA AloneFacts ==
    ASSUME SoloInv, NEW p \in Proc, Running(p) \/ Quiet
    PROVE  /\ Free(p)
           /\ Running(p) => Frame(p)
           /\ NoneKilled => CleanFor(p)
<1>1. Free(p)
  BY DEF SoloInv, Solo, Quiet, Free
<1>2. ASSUME NEW q \in Proc, ~Running(q)
      PROVE  pc[q] \notin Planned
  BY <1>2 DEF Running, Ended, Planned, Altering, Removing
<1>3. ASSUME NoneKilled
      PROVE  CleanFor(p)
  <2>1. Clean
    BY <1>3 DEF SoloInv
  <2>2. pc[p] \notin Planned => \A q \in Proc : pc[q] \notin Planned
    BY <1>1, <1>2 DEF Free
  <2>3. QED
    BY <2>1, <2>2 DEF Clean, CleanFor
<1>4. QED
  BY <1>1, <1>3 DEF SoloInv

\* A step of the only running process, or the start of one.
LEMMA SoloMove ==
    ASSUME SoloInv, NEW p \in Proc, Free(p), TypedInv', FreshInv',
           \A q \in Proc : q # p => pc'[q] = pc[q],
           OneInstallation',
           Running(p)' => Frame(p)',
           NoneKilled' => CleanFor(p)'
    PROVE  SoloInv'
<1>1. \A q \in Proc : q # p => ~Running(q)'
  BY DEF Free, Running
<1>2. Solo'
  BY <1>1 DEF Solo
<1>3. \A q \in Proc : Running(q)' => Frame(q)'
  BY <1>1
<1>4. ASSUME NEW q \in Proc, q # p
      PROVE  pc'[q] \notin Planned \cup {"r_config", "r_files"}
  BY <1>1, <1>4 DEF Running, Ended, Planned, Altering, Removing
<1>5. ASSUME NoneKilled'
      PROVE  Clean'
  <2>1. CleanFor(p)'
    BY <1>5
  <2>2. QED
    BY <1>4, <2>1 DEF CleanFor, Clean
<1>6. QED
  BY <1>2, <1>3, <1>5 DEF SoloInv

\* No process comes back from a kill.
LEMMA KillLasts ==
    ASSUME NEW p \in Proc, pc[p] # "killed",
           \A q \in Proc : q # p => pc'[q] = pc[q],
           NoneKilled'
    PROVE  NoneKilled
  BY DEF NoneKilled, At

\* The end of a command.
LEMMA SoloReturn ==
    ASSUME SoloInv, NEW p \in Proc, Running(p), TypedInv', FreshInv',
           NEW result \in Ended, Return(p, result), UNCHANGED errors,
           OneInstallation',
           NoneKilled /\ result # "killed" =>
              /\ \A r \in manifests' : OnlyUsers(r.backup)
              /\ Settled(files, hooks)'
    PROVE  SoloInv'
<1>1. TypeOK
  BY DEF SoloInv, TypedInv
<1>2. pc'[p] = result /\ \A q \in Proc : q # p => pc'[q] = pc[q]
  BY <1>1 DEF Return, Goto, TypeOK
<1>3. ~Running(p)'
  BY <1>2 DEF Running
<1>4. ASSUME NoneKilled'
      PROVE  CleanFor(p)'
  <2>1. pc[p] # "killed" /\ result # "killed"
    BY <1>2, <1>4 DEF Running, Ended, NoneKilled, At
  <2>2. NoneKilled
    BY <1>2, <1>4, <2>1, KillLasts
  <2>3. /\ \A r \in manifests' : OnlyUsers(r.backup)
        /\ Settled(files, hooks)'
    BY <2>1, <2>2
  <2>4. pc'[p] \notin Planned \cup {"r_config", "r_files"}
    BY <1>2 DEF Ended, Planned, Altering, Removing
  <2>5. QED
    BY <2>3, <2>4, SameReports DEF CleanFor, OnlyUsers
<1>5. QED
  BY <1>2, <1>3, <1>4, AloneFacts, SoloMove

\* A command that ends without a change to the disk before its plan is
\* carried out, or after it was undone as far as it could be.
LEMMA SoloReturnSame ==
    ASSUME SoloInv, NEW p \in Proc, Running(p), TypedInv', FreshInv',
           NEW result \in Ended, Return(p, result), UNCHANGED <<disk, errors>>,
           \/ result = "killed"
           \/ pc[p] \notin Planned
           \/ PutBack(p)
    PROVE  SoloInv'
<1>1. OneInstallation'
  BY DEF SoloInv, OneInstallation, disk
<1>2. ASSUME NoneKilled, result # "killed"
      PROVE  /\ \A r \in manifests' : OnlyUsers(r.backup)
             /\ Settled(files, hooks)'
  <2>1. CleanFor(p)
    BY <1>2, AloneFacts
  <2>2. Settled(files, hooks)
    BY <1>2, <2>1, Named DEF CleanFor, PutBack, Settled
  <2>3. UNCHANGED <<files, hooks, manifests>> /\ Reported' = Reported
    BY SameReports DEF disk
  <2>4. QED
    BY <2>1, <2>2, <2>3 DEF CleanFor, Settled, Recorded, OnlyUsers
<1>3. QED
  BY <1>1, <1>2, SoloReturn

\* What a step of p within its command needs of the state before it.
LEMMA Before ==
    ASSUME SoloInv, NEW p \in Proc, Running(p)
    PROVE  /\ TypeOK
           /\ Kinds(p)
           /\ Frame(p)
           /\ Free(p)
           /\ OneInstallation
           /\ NoneKilled => CleanFor(p)
           /\ pc[p] \notin Reporting => errors[p] = {}
           /\ pc[p] \in Early => copy[p] = Nothing
           /\ None \notin Proc /\ User \notin Proc /\ Config \notin Gen
  BY AloneFacts, NativeInstallAssumption
  DEF SoloInv, TypedInv, FreshInv, Fresh, Config

\* The steps that lead to the plan of an installation, and their failures.
LEMMA SoloFind ==
    ASSUME SoloInv, NEW p \in Proc, TypedInv', FreshInv',
           \/ FindNothing(p)
           \/ \E r \in manifests : FindSome(p, r) \/ FindToUpdate(p, r)
           \/ PlanOnly(p)
    PROVE  SoloInv'
<1>1. Running(p) /\ pc[p] \in {"find", "plan"}
  BY RunningAt DEF FindNothing, FindSome, FindToUpdate, PlanOnly, Installing, At,
                   InstallPc
<1>2. /\ TypeOK /\ Frame(p) /\ Free(p) /\ OneInstallation
      /\ NoneKilled => CleanFor(p)
  BY <1>1, Before
<1>3. CASE \E result \in {"ok", "noop", "refused"} : Return(p, result) /\ UNCHANGED <<disk, errors>>
  <2>1. pc[p] \notin Planned
    BY <1>1 DEF Planned, Altering, Removing
  <2>2. QED
    BY <1>1, <1>3, <2>1, SoloReturnSame DEF Ended
<1>4. CASE FindNothing(p) \/ \E r \in manifests : FindToUpdate(p, r)
  <2>1. PICK step \in {"plan", "u_plan"} :
           /\ pc' = [pc EXCEPT ![p] = step]
           /\ step = "plan" => manifests = {} /\ target' = target
           /\ step = "u_plan" => \E r \in manifests : target' = [target EXCEPT ![p] = r.id]
           /\ UNCHANGED findOnly
    BY <1>4 DEF FindNothing, FindToUpdate, Goto
  <2>2. pc'[p] = step /\ \A q \in Proc : q # p => pc'[q] = pc[q]
    BY <1>2, <2>1 DEF TypeOK
  <2>3. /\ UNCHANGED <<files, hooks, manifests, cmd, seen, copy, done, start>>
        /\ Reported' = Reported
    BY <2>1, SameReports DEF findOnly, disk
  <2>4. step = "u_plan" => Recorded' = {target'[p]}
    <3>1. ASSUME NEW r \in manifests, target' = [target EXCEPT ![p] = r.id]
          PROVE  Recorded' = {target'[p]}
      <4>1. target'[p] = r.id /\ \A q \in manifests : q = r
        BY <1>2, <3>1 DEF TypeOK, OneInstallation
      <4>2. QED
        BY <2>3, <3>1, <4>1 DEF Recorded
    <3>2. QED
      BY <2>1, <3>1
  <2>5. StartFrame(p)'
    BY <1>1, <1>2, <1>4, <2>2, <2>3
    DEF Frame, StartFrame, FindNothing, FindToUpdate, Installing, At, disk, Planned,
        Altering, Removing
  <2>6. Frame(p)'
    BY <2>1, <2>2, <2>3, <2>4, <2>5
    DEF Frame, InstallPc, RemovePc, Altering, Removing
  <2>7. OneInstallation'
    BY <1>2, <2>3 DEF OneInstallation
  <2>8. NoneKilled' => CleanFor(p)'
    <3>1. ASSUME NoneKilled'
          PROVE  CleanFor(p)
      BY <1>1, <1>2, <2>2, <3>1, KillLasts
    <3>2. QED
      BY <1>1, <2>2, <2>3, <3>1
      DEF CleanFor, Settled, Recorded, OnlyUsers, Planned, Altering, Removing
  <2>9. QED
    BY <1>2, <2>2, <2>6, <2>7, <2>8, SoloMove
<1>5. QED
  BY <1>3, <1>4 DEF FindSome, PlanOnly

\* The plan and the copies of an installation.
LEMMA SoloPlan ==
    ASSUME SoloInv, NEW p \in Proc, TypedInv', FreshInv', Plan(p) \/ Backup(p)
    PROVE  SoloInv'
<1>1. Running(p) /\ pc[p] \in {"plan", "backup"}
  BY RunningAt DEF Plan, Backup, At, InstallPc
<1>2. /\ TypeOK /\ Frame(p) /\ Free(p) /\ OneInstallation /\ Config \notin Gen
      /\ NoneKilled => CleanFor(p)
  BY <1>1, Before
<1>3. /\ UNCHANGED <<files, hooks, manifests, cmd, start, errors>> /\ manifests = {}
      /\ Reported' = Reported
      /\ errors[p] = {}
  <2>1. UNCHANGED <<files, hooks, manifests, cmd, start, errors>>
    BY DEF Plan, Backup, disk, stepOnly
  <2>2. pc[p] \notin Reporting
    BY <1>1 DEF Reporting, Ended
  <2>3. QED
    BY <1>1, <1>2, <2>1, <2>2, SameReports, Before DEF Frame, InstallPc
<1>4. OneInstallation'
  BY <1>2, <1>3 DEF OneInstallation
<1>5. CASE Plan(p)
  <2>1. /\ pc'[p] = "backup" /\ \A q \in Proc : q # p => pc'[q] = pc[q]
        /\ seen'[p] = Now /\ done'[p] = {}
    BY <1>2, <1>5 DEF Plan, Goto, TypeOK
  <2>2. seen'[p].files = files /\ seen'[p].hooks = hooks
    BY <2>1 DEF Now
  <2>3. StartFrame(p)'
    BY <1>1, <1>2, <1>3, <1>5, <2>1, <2>2 DEF Frame, StartFrame, Plan, At, disk
  <2>4. Frame(p)'
    BY <1>3, <2>1, <2>2, <2>3
    DEF Frame, AsSeen, InstallPc, RemovePc, Altering, Removing
  <2>5. NoneKilled' => CleanFor(p)'
    <3>1. ASSUME NoneKilled'
          PROVE  CleanFor(p)
      BY <1>1, <1>2, <2>1, <3>1, KillLasts
    <3>2. "plan" \notin Planned /\ "backup" \in Planned
      BY DEF Planned, Altering, Removing
    <3>3. QED
      BY <1>3, <1>5, <2>1, <2>2, <3>1, <3>2 DEF CleanFor, Settled, Recorded, OnlyUsers, Plan, At
  <2>6. QED
    BY <1>2, <1>4, <2>1, <2>4, <2>5, SoloMove
<1>6. CASE Backup(p)
  <2> DEFINE fs == [g \in Gen |-> IF g \in Found(p) THEN files[g] ELSE None]
  <2>1. /\ pc'[p] = "replace" /\ \A q \in Proc : q # p => pc'[q] = pc[q]
        /\ copy'[p] = [files |-> fs, hooks |-> hooks]
        /\ seen' = seen /\ done' = done
        /\ pc[p] = "backup"
    BY <1>2, <1>6 DEF Backup, Goto, TypeOK, At
  <2>2. AsSeen(p) /\ done[p] = {}
    BY <1>2, <2>1 DEF Frame
  <2>3. fs = files
    BY <1>2, <2>2 DEF TypeOK, Found, AsSeen
  <2> HIDE DEF fs
  <2>4. Copied(p)'
    BY <2>1, <2>2, <2>3 DEF Copied, AsSeen
  <2>5. InstallFrame(p)'
    BY <1>2, <1>3, <2>1, <2>2, <2>4 DEF InstallFrame, AsSeen
  <2>6. StartFrame(p)'
    BY <1>2, <1>3, <2>1 DEF Frame, StartFrame, Planned, Altering, Removing
  <2>7. Frame(p)'
    BY <1>3, <2>1, <2>5, <2>6
    DEF Frame, InstallPc, RemovePc, Altering, Removing
  <2>8. NoneKilled' => CleanFor(p)'
    <3>1. ASSUME NoneKilled'
          PROVE  CleanFor(p)
      BY <1>1, <1>2, <2>1, <3>1, KillLasts
    <3>2. "replace" \in Planned /\ "backup" \in Planned
      BY DEF Planned, Altering, Removing
    <3>3. QED
      BY <1>3, <2>1, <3>1, <3>2 DEF CleanFor, Settled, Recorded, OnlyUsers
  <2>9. QED
    BY <1>2, <1>4, <2>1, <2>7, <2>8, SoloMove
<1>7. QED
  BY <1>5, <1>6

\* The steps that alter the disk, and those that put it back: what they have
\* in common.
LEMMA SoloAlter ==
    ASSUME SoloInv, NEW p \in Proc, TypedInv', FreshInv', Running(p),
           pc[p] \in {"backup"} \cup Altering,
           NEW step \in Altering,
           pc'[p] = step, \A q \in Proc : q # p => pc'[q] = pc[q],
           UNCHANGED <<manifests, cmd, seen, start>>,
           Reported \subseteq Reported',
           InstallFrame(p)'
    PROVE  SoloInv'
<1>1. /\ TypeOK /\ Frame(p) /\ Free(p) /\ OneInstallation
      /\ NoneKilled => CleanFor(p)
  BY Before
<1>2. OneInstallation'
  BY <1>1 DEF OneInstallation
<1>3. /\ pc[p] \in Planned /\ pc[p] \in InstallPc
      /\ step \in Planned /\ step \in InstallPc
      /\ step \notin RemovePc /\ step \notin Removing
      /\ step \notin {"find", "plan", "u_plan", "backup", "u_config", "r_config", "r_files"}
  BY DEF Planned, InstallPc, RemovePc, Altering, Removing
<1>4. StartFrame(p)'
  BY <1>1, <1>3 DEF Frame, StartFrame
<1>5. Frame(p)'
  BY <1>1, <1>3, <1>4 DEF Frame
<1>6. NoneKilled' => CleanFor(p)'
  <2>1. ASSUME NoneKilled'
        PROVE  CleanFor(p)
    BY <1>1, <2>1, KillLasts DEF Running, Ended
  <2>2. QED
    BY <1>3, <2>1 DEF CleanFor, Settled, Recorded, OnlyUsers
<1>7. QED
  BY <1>1, <1>2, <1>5, <1>6, SoloMove

\* Replacing the files and the configuration, and checking the result.
LEMMA SoloReplace ==
    ASSUME SoloInv, NEW p \in Proc, TypedInv', FreshInv',
           \/ \E g \in Gen : ReplaceFile(p, g)
           \/ ReplaceConfig(p) \/ Verify(p) \/ Raise(p)
    PROVE  SoloInv'
<1>1. Running(p) /\ pc[p] \in {"backup"} \cup Altering
  BY RunningAt DEF ReplaceFile, ReplaceConfig, Verify, Raise, At, InstallPc, Altering
<1>2. /\ TypeOK /\ Frame(p) /\ Config \notin Gen
      /\ pc[p] \notin Reporting => errors[p] = {}
      /\ pc[p] \in Early => copy[p] = Nothing
  BY <1>1, Before
<1>0. errors' = errors /\ Reported \subseteq Reported'
  BY SameReports DEF ReplaceFile, ReplaceConfig, Verify, Raise, stepOnly
<1>3. CASE \E g \in Gen : ReplaceFile(p, g)
  <2>1. PICK g \in Gen : ReplaceFile(p, g)
    BY <1>3
  <2>2. /\ pc[p] = "replace" /\ pc' = pc
        /\ UNCHANGED <<hooks, manifests, cmd, seen, copy, start>>
        /\ files' = [files EXCEPT ![g] = p]
        /\ done'[p] = done[p] \cup {g}
    BY <1>2, <2>1 DEF ReplaceFile, At, stepOnly, TypeOK
  <2>3. InstallFrame(p)
    BY <1>2, <2>2 DEF Frame, Altering
  <2>4. InstallFrame(p)'
    BY <1>0, <1>2, <2>2, <2>3 DEF InstallFrame, Copied, TypeOK, Reporting, Ended
  <2>5. "replace" \in Altering
    BY DEF Altering
  <2>6. QED
    BY <1>0, <1>1, <2>2, <2>4, <2>5, SoloAlter
<1>4. CASE ReplaceConfig(p)
  <2>1. /\ pc[p] = "replace" /\ pc'[p] = "verify"
        /\ \A q \in Proc : q # p => pc'[q] = pc[q]
        /\ UNCHANGED <<files, manifests, cmd, seen, copy, start>>
        /\ hooks' = seen[p].hooks \cup {p}
        /\ Gen \subseteq done[p]
        /\ done'[p] = done[p] \cup {Config}
    BY <1>2, <1>4 DEF ReplaceConfig, At, Goto, stepOnly, TypeOK
  <2>2. InstallFrame(p)
    BY <1>2, <2>1 DEF Frame, Altering
  <2>3. InstallFrame(p)'
    BY <1>0, <1>2, <2>1, <2>2 DEF InstallFrame, Copied, Reporting, Ended
  <2>4. "verify" \in Altering
    BY DEF Altering
  <2>5. QED
    BY <1>0, <1>1, <2>1, <2>3, <2>4, SoloAlter
<1>5. CASE Verify(p)
  <2>1. PICK step \in {"manifest", "undo"} :
           /\ pc' = [pc EXCEPT ![p] = step]
           /\ pc[p] = "verify"
           /\ UNCHANGED <<files, hooks, manifests, cmd, seen, copy, done, start>>
    BY <1>5 DEF Verify, At, Goto, stepOnly, disk
  <2>2. pc'[p] = step /\ \A q \in Proc : q # p => pc'[q] = pc[q]
    BY <1>2, <2>1 DEF TypeOK
  <2>3. InstallFrame(p)
    BY <1>2, <2>1 DEF Frame, Altering
  <2>4. InstallFrame(p)'
    BY <1>0, <2>1, <2>2, <2>3 DEF InstallFrame, Copied
  <2>5. step \in Altering
    BY DEF Altering
  <2>6. QED
    BY <1>0, <1>1, <2>1, <2>2, <2>4, <2>5, SoloAlter
<1>6. CASE Raise(p)
  <2>1. /\ pc' = [pc EXCEPT ![p] = "undo"]
        /\ pc[p] \in {"backup", "replace", "verify", "manifest"}
        /\ UNCHANGED <<files, hooks, manifests, cmd, seen, copy, done, start>>
    BY <1>6 DEF Raise, Goto, stepOnly, disk
  <2>2. pc'[p] = "undo" /\ \A q \in Proc : q # p => pc'[q] = pc[q]
    BY <1>2, <2>1 DEF TypeOK
  <2>3. InstallFrame(p)'
    <3>1. CASE pc[p] = "backup"
      BY <1>0, <1>2, <2>1, <2>2, <3>1 DEF Frame, AsSeen, InstallFrame, Early
    <3>2. CASE pc[p] # "backup"
      <4>1. InstallFrame(p)
        BY <1>2, <2>1, <3>2 DEF Frame, Altering
      <4>2. QED
        BY <1>0, <2>1, <2>2, <4>1 DEF InstallFrame, Copied
    <3>3. QED
      BY <3>1, <3>2
  <2>4. "undo" \in Altering
    BY DEF Altering
  <2>5. QED
    BY <1>0, <1>1, <2>1, <2>2, <2>3, <2>4, SoloAlter
<1>7. QED
  BY <1>3, <1>4, <1>5, <1>6

\* Undoing a failed installation.
LEMMA SoloUndo ==
    ASSUME SoloInv, NEW p \in Proc, TypedInv', FreshInv',
           \/ UndoConfig(p)
           \/ \E g \in Gen : UndoFile(p, g)
           \/ EndUndo(p)
    PROVE  SoloInv'
<1>1. Running(p) /\ pc[p] = "undo" /\ "undo" \in Altering
  BY RunningAt DEF UndoConfig, UndoFile, EndUndo, At, InstallPc, Altering
<1>2. TypeOK /\ Frame(p) /\ Config \notin Gen /\ OneInstallation
  BY <1>1, Before
<1>3. InstallFrame(p) /\ manifests = {}
  BY <1>1, <1>2 DEF Frame, InstallPc
<1>4. CASE UndoConfig(p)
  <2>1. /\ pc' = pc
        /\ UNCHANGED <<files, manifests, cmd, seen, copy, start>>
        /\ hooks' \in {copy[p].hooks, hooks, {}}
        /\ hooks' # copy[p].hooks => Config \in errors'[p]
        /\ Config \in done[p]
        /\ done'[p] = done[p] \ {Config}
        /\ errors' \in {errors, [errors EXCEPT ![p] = @ \cup {Config}]}
    BY <1>2, <1>4 DEF UndoConfig, Undone, undoOnly, TypeOK
  <2>2. Reported \subseteq Reported' /\ errors[p] \subseteq errors'[p]
    <3>1. errors' \in {errors, [errors EXCEPT ![p] = @ \cup {Config}]}
      BY <2>1
    <3>2. QED
      BY <1>2, <3>1, MoreReports
  <2>3. InstallFrame(p)'
    BY <1>1, <1>2, <1>3, <2>1, <2>2 DEF InstallFrame, Copied
  <2>4. QED
    BY <1>1, <2>1, <2>2, <2>3, SoloAlter
<1>5. CASE \E g \in Gen : UndoFile(p, g)
  <2>1. PICK g \in Gen : UndoFile(p, g)
    BY <1>5
  <2>2. /\ pc' = pc
        /\ UNCHANGED <<hooks, manifests, cmd, seen, copy, start>>
        /\ g \in done[p] /\ Config \notin done[p]
        /\ done'[p] = done[p] \ {g}
        /\ errors' \in {errors, [errors EXCEPT ![p] = @ \cup {g}]}
    BY <1>2, <2>1 DEF UndoFile, Undone, undoOnly, TypeOK
  <2>3. Copied(p) /\ Former(p, g) = seen[p].files[g]
    BY <1>3, <2>2 DEF InstallFrame, Former, Found, Copied
  <2>4. /\ files'[g] \in {seen[p].files[g], files[g], Torn}
        /\ files'[g] # seen[p].files[g] => g \in errors'[p]
        /\ \A h \in Gen : h # g => files'[h] = files[h]
    <3>1. PICK text \in {Former(p, g), files[g], Torn} :
             /\ files' = [files EXCEPT ![g] = text]
             /\ text = Former(p, g) \/ g \in errors'[p]
      BY <2>1 DEF UndoFile, Undone
    <3>2. files \in [Gen -> Text]
      BY <1>2 DEF TypeOK
    <3>3. files'[g] = text /\ \A h \in Gen : h # g => files'[h] = files[h]
      BY <3>1, <3>2
    <3>4. QED
      BY <2>3, <3>1, <3>3
  <2>5. Reported \subseteq Reported' /\ errors[p] \subseteq errors'[p]
    <3>1. errors' \in {errors, [errors EXCEPT ![p] = @ \cup {g}]}
      BY <2>2
    <3>2. QED
      BY <1>2, <3>1, MoreReports
  <2>6. InstallFrame(p)'
    BY <1>1, <1>2, <1>3, <2>2, <2>3, <2>4, <2>5 DEF InstallFrame, Copied
  <2>7. QED
    BY <1>1, <2>2, <2>5, <2>6, SoloAlter
<1>6. CASE EndUndo(p)
  <2>1. /\ \E result \in Ended : Return(p, result)
        /\ UNCHANGED <<files, hooks, errors>>
        /\ manifests' = manifests /\ done[p] = {}
    BY <1>3, <1>6 DEF EndUndo, Ended
  <2>2. PutBack(p)
    BY <1>3, <2>1 DEF InstallFrame, PutBack
  <2>3. QED
    BY <1>1, <2>1, <2>2, SoloReturnSame DEF disk
<1>7. QED
  BY <1>4, <1>5, <1>6

\* The manifest records an installation whose files and entry are in place,
\* with copies of what was there before.
LEMMA SoloWriteManifest ==
    ASSUME SoloInv, NEW p \in Proc, TypedInv', FreshInv', WriteManifest(p)
    PROVE  SoloInv'
<1> DEFINE new == [id |-> p, project |-> cmd[p].project, backup |-> copy[p]]
<1>1. Running(p) /\ pc[p] = "manifest" /\ pc[p] \in Altering
  BY RunningAt DEF WriteManifest, At, InstallPc, Altering
<1>2. /\ Frame(p) /\ TypeOK
      /\ NoneKilled => CleanFor(p)
      /\ None \notin Proc
  BY <1>1, Before
<1>3. InstallFrame(p) /\ manifests = {}
  BY <1>1, <1>2 DEF Frame, InstallPc
<1>4. /\ manifests' = {new} /\ UNCHANGED <<files, hooks>>
      /\ Return(p, "ok")
      /\ UNCHANGED errors /\ Reported' = Reported
  BY <1>3, SameReports DEF WriteManifest
<1>5. new.id = p /\ new.backup = copy[p]
  OBVIOUS
<1> HIDE DEF new
<1>6. OneInstallation'
  BY <1>4 DEF OneInstallation
<1>7. Recorded' = {p}
  BY <1>4, <1>5 DEF Recorded
<1>8. ASSUME NoneKilled
      PROVE  /\ \A r \in manifests' : OnlyUsers(r.backup)
             /\ Settled(files, hooks)'
  <2>1. Settled(seen[p].files, seen[p].hooks)
    BY <1>1, <1>2, <1>8 DEF CleanFor, Planned
  <2>2. Recorded = {}
    BY <1>3 DEF Recorded
  <2>3. Copied(p) /\ \A g \in Gen : files[g] = p
    BY <1>1, <1>3 DEF InstallFrame
  <2>4. hooks = seen[p].hooks \cup {p}
    <3>1. pc[p] \notin Reporting
      BY <1>1 DEF Reporting, Ended
    <3>2. QED
      BY <1>1, <1>3, <3>1, Before DEF InstallFrame
  <2>5. \A r \in manifests' : OnlyUsers(r.backup)
    <3>1. /\ \A g \in Gen \ Reported : copy[p].files[g] \in {User, None}
          /\ Config \notin Reported => copy[p].hooks \subseteq UserHook
      BY <2>1, <2>2, <2>3 DEF Settled, Copied
    <3>2. QED
      BY <1>4, <1>5, <3>1 DEF OnlyUsers
  <2>6. Settled(files, hooks)'
    BY <1>2, <1>4, <1>7, <2>1, <2>2, <2>3, <2>4 DEF Settled
  <2>7. QED
    BY <1>4, <1>5, <2>5, <2>6
<1>9. QED
  BY <1>1, <1>4, <1>6, <1>8, SoloReturn DEF Ended

\* Every step of an installation preserves the invariant.
LEMMA SoloInstall ==
    ASSUME SoloInv, NEW p \in Proc, TypedInv', FreshInv', InstallStep(p)
    PROVE  SoloInv'
  BY SoloFind, SoloPlan, SoloReplace, SoloUndo, SoloWriteManifest DEF InstallStep

\* The steps that lead to the plan of a removal, and their failures.
LEMMA SoloFindRemoval ==
    ASSUME SoloInv, NEW p \in Proc, TypedInv', FreshInv',
           \/ FindNoneToRemove(p)
           \/ \E r \in manifests : FindToRemove(p, r)
           \/ PlanRemovalOnly(p)
           \/ PlanRemoval(p)
    PROVE  SoloInv'
<1>1. Running(p) /\ pc[p] \in {"find", "u_plan"}
  BY RunningAt DEF FindNoneToRemove, FindToRemove, PlanRemovalOnly, PlanRemoval, At,
                   RemovePc
<1>2. /\ TypeOK /\ Kinds(p) /\ Frame(p) /\ Free(p) /\ OneInstallation
      /\ NoneKilled => CleanFor(p)
  BY <1>1, Before
<1>3. CASE FindNoneToRemove(p) \/ PlanRemovalOnly(p)
  <2>1. \E result \in {"ok", "noop"} : Return(p, result) /\ UNCHANGED <<disk, errors>>
    BY <1>3 DEF FindNoneToRemove, PlanRemovalOnly
  <2>2. pc[p] \notin Planned
    BY <1>1 DEF Planned, Altering, Removing
  <2>3. QED
    BY <1>1, <2>1, <2>2, SoloReturnSame DEF Ended
<1>4. CASE \E r \in manifests : FindToRemove(p, r)
  <2>1. PICK r \in manifests : FindToRemove(p, r)
    BY <1>4
  <2>2. /\ pc[p] = "find" /\ pc'[p] = "u_plan"
        /\ \A q \in Proc : q # p => pc'[q] = pc[q]
        /\ target'[p] = r.id
        /\ UNCHANGED <<files, hooks, manifests, cmd, seen, copy, done, start>>
        /\ Reported' = Reported
    BY <1>2, <2>1, SameReports DEF FindToRemove, Goto, At, TypeOK, findOnly, disk
  <2>3. Recorded' = {target'[p]} /\ OneInstallation'
    BY <1>2, <2>2 DEF Recorded, OneInstallation
  <2>4. StartFrame(p)'
    BY <1>2, <2>2 DEF Frame, StartFrame, disk, Planned, Altering, Removing
  <2>5. Frame(p)'
    BY <2>2, <2>3, <2>4 DEF Frame, InstallPc, Altering, Removing
  <2>6. NoneKilled' => CleanFor(p)'
    <3>1. ASSUME NoneKilled'
          PROVE  CleanFor(p)
      BY <1>1, <1>2, <2>2, <3>1, KillLasts
    <3>2. QED
      BY <2>2, <3>1 DEF CleanFor, Settled, Recorded, OnlyUsers, Planned, Altering, Removing
  <2>7. QED
    BY <1>2, <2>2, <2>3, <2>5, <2>6, SoloMove
<1>5. CASE PlanRemoval(p)
  <2>1. pc[p] = "u_plan" /\ Recorded = {target[p]}
    BY <1>2, <1>5 DEF PlanRemoval, At, Frame, RemovePc
  <2>2. Owner(target[p]) # {}
    BY <2>1 DEF Recorded, Owner
  <2>3. /\ pc'[p] = "u_config" /\ \A q \in Proc : q # p => pc'[q] = pc[q]
        /\ seen'[p].files = files /\ seen'[p].hooks = hooks
        /\ done'[p] = {}
        /\ UNCHANGED <<files, hooks, manifests, cmd, target, copy, start>>
        /\ Reported' = Reported
    BY <1>2, <1>5, <2>2, SameReports DEF PlanRemoval, Goto, TypeOK, Now, stepOnly, disk
  <2>4. StartFrame(p)'
    BY <1>2, <2>1, <2>3 DEF Frame, StartFrame, disk
  <2>5. Frame(p)'
    BY <2>1, <2>3, <2>4
    DEF Frame, AsSeen, Recorded, InstallPc, Altering, Removing
  <2>6. OneInstallation'
    BY <1>2, <2>3 DEF OneInstallation
  <2>7. NoneKilled' => CleanFor(p)'
    <3>1. ASSUME NoneKilled'
          PROVE  CleanFor(p)
      BY <1>1, <1>2, <2>3, <3>1, KillLasts
    <3>2. "u_plan" \notin Planned /\ "u_config" \in Planned
      BY DEF Planned, Altering, Removing
    <3>3. QED
      BY <2>1, <2>3, <3>1, <3>2 DEF CleanFor, Settled, Recorded, OnlyUsers
  <2>8. QED
    BY <1>2, <2>3, <2>5, <2>6, <2>7, SoloMove
<1>6. QED
  BY <1>3, <1>4, <1>5

\* The steps that remove, and those that put back: what they have in common.
LEMMA SoloRemove ==
    ASSUME SoloInv, NEW p \in Proc, TypedInv', FreshInv', Running(p),
           pc[p] \in {"u_config"} \cup Removing,
           NEW step \in Removing,
           pc'[p] = step, \A q \in Proc : q # p => pc'[q] = pc[q],
           UNCHANGED <<manifests, cmd, target, seen, start>>,
           Reported \subseteq Reported',
           RemoveFrame(p)'
    PROVE  SoloInv'
<1>1. /\ TypeOK /\ Frame(p) /\ Free(p) /\ OneInstallation
      /\ NoneKilled => CleanFor(p)
  BY Before
<1>2. OneInstallation'
  BY <1>1 DEF OneInstallation
<1>3. /\ pc[p] \in Planned /\ pc[p] \in RemovePc
      /\ step \in Planned /\ step \in RemovePc
      /\ step \notin InstallPc /\ step \notin Altering
      /\ step \notin {"find", "plan", "u_plan", "backup", "u_config", "r_config", "r_files"}
  BY DEF Planned, InstallPc, RemovePc, Altering, Removing
<1>4. StartFrame(p)'
  BY <1>1, <1>3 DEF Frame, StartFrame
<1>5. Frame(p)'
  BY <1>1, <1>3, <1>4 DEF Frame, Recorded
<1>6. NoneKilled' => CleanFor(p)'
  <2>1. ASSUME NoneKilled'
        PROVE  CleanFor(p)
    BY <1>1, <2>1, KillLasts DEF Running, Ended
  <2>2. QED
    BY <1>3, <2>1 DEF CleanFor, Settled, Recorded, OnlyUsers
<1>7. QED
  BY <1>1, <1>2, <1>5, <1>6, SoloMove

\* Taking the entry out, and moving the files away.
LEMMA SoloQuarantine ==
    ASSUME SoloInv, NEW p \in Proc, TypedInv', FreshInv',
           \/ RemoveHooks(p)
           \/ \E g \in Gen : Quarantine(p, g)
           \/ QuarantineDone(p) \/ RaiseRemoval(p)
    PROVE  SoloInv'
<1>1. Running(p) /\ pc[p] \in {"u_config"} \cup Removing
  BY RunningAt DEF RemoveHooks, Quarantine, QuarantineDone, RaiseRemoval, At,
                   RemovePc, Removing
<1>2. /\ TypeOK /\ Frame(p) /\ Config \notin Gen
      /\ pc[p] \notin Reporting => errors[p] = {}
  BY <1>1, Before
<1>0. errors' = errors /\ Reported \subseteq Reported'
  BY SameReports DEF RemoveHooks, Quarantine, QuarantineDone, RaiseRemoval, stepOnly
<1>3. CASE RemoveHooks(p)
  <2>1. /\ pc[p] = "u_config" /\ pc'[p] = "u_files"
        /\ \A q \in Proc : q # p => pc'[q] = pc[q]
        /\ UNCHANGED <<files, manifests, cmd, target, seen, copy, start>>
        /\ hooks' = IF target[p] \in seen[p].hooks THEN seen[p].hooks \ {target[p]} ELSE hooks
        /\ done'[p] = IF target[p] \in seen[p].hooks THEN {Config} ELSE {}
    BY <1>2, <1>3 DEF RemoveHooks, At, Goto, stepOnly, TypeOK
  <2>2. AsSeen(p)
    BY <1>2, <2>1 DEF Frame
  <2>3. RemoveFrame(p)'
    BY <1>0, <1>2, <2>1, <2>2 DEF RemoveFrame, AsSeen, Forced
  <2>4. "u_files" \in Removing
    BY DEF Removing
  <2>5. QED
    BY <1>0, <1>1, <2>1, <2>3, <2>4, SoloRemove
<1>4. CASE \E g \in Gen : Quarantine(p, g)
  <2>1. PICK g \in Gen : Quarantine(p, g)
    BY <1>4
  <2>2. /\ pc[p] = "u_files" /\ pc' = pc
        /\ UNCHANGED <<hooks, manifests, cmd, target, seen, start>>
        /\ g \notin done[p]
        /\ copy'[p] = [copy[p] EXCEPT !.files[g] = files[g]]
        /\ files' = [files EXCEPT ![g] = None]
        /\ done'[p] = done[p] \cup {g}
        /\ files[g] = target[p] \/ Forced(p)
    BY <1>2, <2>1 DEF Quarantine, At, stepOnly, TypeOK
  <2>3. copy[p] \in Snapshot /\ files \in [Gen -> Text]
    BY <1>2 DEF TypeOK
  <2>4. /\ copy'[p].files[g] = files[g]
        /\ \A h \in Gen : h # g => copy'[p].files[h] = copy[p].files[h]
        /\ files'[g] = None /\ \A h \in Gen : h # g => files'[h] = files[h]
    BY <2>2, <2>3 DEF Snapshot
  <2>5. RemoveFrame(p) /\ "u_files" \in Removing
    BY <1>2, <2>2 DEF Frame, Removing
  <2>6. RemoveFrame(p)'
    BY <1>0, <1>2, <2>2, <2>4, <2>5 DEF RemoveFrame, Forced, Reporting, Ended
  <2>7. QED
    BY <1>0, <1>1, <2>2, <2>5, <2>6, SoloRemove
<1>5. CASE QuarantineDone(p)
  <2>1. /\ pc[p] = "u_files" /\ pc'[p] = "u_manifest"
        /\ \A q \in Proc : q # p => pc'[q] = pc[q]
        /\ UNCHANGED <<files, hooks, manifests, cmd, target, seen, copy, done, start>>
        /\ \A g \in Gen : g \notin done[p] => files[g] = None
    BY <1>2, <1>5 DEF QuarantineDone, Preserved, At, Goto, stepOnly, disk, TypeOK
  <2>2. /\ RemoveFrame(p)
        /\ "u_files" \in Removing /\ "u_manifest" \in Removing
    BY <1>2, <2>1 DEF Frame, Removing
  <2>3. RemoveFrame(p)'
    BY <1>0, <1>2, <2>1, <2>2 DEF RemoveFrame, Reporting, Ended
  <2>4. QED
    BY <1>0, <1>1, <2>1, <2>2, <2>3, SoloRemove
<1>6. CASE RaiseRemoval(p)
  <2>1. /\ pc[p] \in {"u_config", "u_files", "u_manifest"} /\ pc'[p] = "u_undo"
        /\ \A q \in Proc : q # p => pc'[q] = pc[q]
        /\ UNCHANGED <<files, hooks, manifests, cmd, target, seen, copy, done, start>>
    BY <1>2, <1>6 DEF RaiseRemoval, At, Goto, stepOnly, disk, TypeOK
  <2>2. RemoveFrame(p)'
    <3>1. CASE pc[p] = "u_config"
      BY <1>0, <1>2, <2>1, <3>1 DEF Frame, AsSeen, RemoveFrame
    <3>2. CASE pc[p] # "u_config"
      <4>1. RemoveFrame(p)
        BY <1>2, <2>1, <3>2 DEF Frame, Removing
      <4>2. QED
        BY <1>0, <2>1, <4>1 DEF RemoveFrame
    <3>3. QED
      BY <3>1, <3>2
  <2>3. "u_undo" \in Removing
    BY DEF Removing
  <2>4. QED
    BY <1>0, <1>1, <2>1, <2>2, <2>3, SoloRemove
<1>7. QED
  BY <1>3, <1>4, <1>5, <1>6

\* Putting back what a failed removal took.
LEMMA SoloRestore ==
    ASSUME SoloInv, NEW p \in Proc, TypedInv', FreshInv',
           \/ RestoreHooks(p)
           \/ \E g \in Gen : RestoreFile(p, g)
           \/ EndRestore(p)
    PROVE  SoloInv'
<1>1. Running(p) /\ pc[p] = "u_undo" /\ "u_undo" \in Removing
  BY RunningAt DEF RestoreHooks, RestoreFile, EndRestore, At, RemovePc, Removing
<1>2. TypeOK /\ Frame(p) /\ Config \notin Gen
  BY <1>1, Before
<1>3. RemoveFrame(p)
  BY <1>1, <1>2 DEF Frame
<1>4. CASE RestoreHooks(p)
  <2>1. /\ pc' = pc
        /\ UNCHANGED <<files, manifests, cmd, target, seen, copy, start>>
        /\ hooks' \in {seen[p].hooks, hooks, {}}
        /\ hooks' # seen[p].hooks => Config \in errors'[p]
        /\ done'[p] = done[p] \ {Config}
        /\ errors' \in {errors, [errors EXCEPT ![p] = @ \cup {Config}]}
    BY <1>2, <1>4 DEF RestoreHooks, Undone, undoOnly, TypeOK
  <2>2. Reported \subseteq Reported' /\ errors[p] \subseteq errors'[p]
    <3>1. errors' \in {errors, [errors EXCEPT ![p] = @ \cup {Config}]}
      BY <2>1
    <3>2. QED
      BY <1>2, <3>1, MoreReports
  <2>3. RemoveFrame(p)'
    BY <1>1, <1>2, <1>3, <2>1, <2>2 DEF RemoveFrame
  <2>4. QED
    BY <1>1, <2>1, <2>2, <2>3, SoloRemove
<1>5. CASE \E g \in Gen : RestoreFile(p, g)
  <2>1. PICK g \in Gen : RestoreFile(p, g)
    BY <1>5
  <2>2. /\ pc' = pc
        /\ UNCHANGED <<hooks, manifests, cmd, target, seen, copy, start>>
        /\ g \in done[p]
        /\ done'[p] = done[p] \ {g}
        /\ errors' \in {errors, [errors EXCEPT ![p] = @ \cup {g}]}
        /\ files'[g] \in {copy[p].files[g], files[g], Torn}
        /\ files'[g] # copy[p].files[g] => g \in errors'[p]
        /\ \A h \in Gen : h # g => files'[h] = files[h]
    BY <1>2, <2>1 DEF RestoreFile, Undone, undoOnly, TypeOK
  <2>3. Reported \subseteq Reported' /\ errors[p] \subseteq errors'[p]
    <3>1. errors' \in {errors, [errors EXCEPT ![p] = @ \cup {g}]}
      BY <2>2
    <3>2. QED
      BY <1>2, <3>1, MoreReports
  <2>4. RemoveFrame(p)'
    BY <1>1, <1>2, <1>3, <2>2, <2>3 DEF RemoveFrame
  <2>5. QED
    BY <1>1, <2>2, <2>3, <2>4, SoloRemove
<1>6. CASE EndRestore(p)
  <2>1. /\ \E result \in Ended : Return(p, result)
        /\ UNCHANGED <<disk, errors>> /\ done[p] = {}
    BY <1>6 DEF EndRestore, Ended
  <2>2. PutBack(p)
    BY <1>3, <2>1 DEF RemoveFrame, PutBack
  <2>3. QED
    BY <1>1, <2>1, <2>2, SoloReturnSame
<1>7. QED
  BY <1>4, <1>5, <1>6

\* What a removal leaves once the entry is out: nothing but the target's
\* unmodified files and what is the user's.
LEMMA RemovedFacts ==
    ASSUME SoloInv, NEW p \in Proc, Running(p), pc[p] \in {"u_files", "u_manifest"},
           NoneKilled
    PROVE  /\ \A g \in Gen \ Reported : files[g] \in {target[p], User, None}
           /\ Config \notin Reported => hooks \subseteq UserHook
           /\ \A r \in manifests : OnlyUsers(r.backup)
<1>1. pc[p] \in Removing /\ pc[p] \in RemovePc /\ pc[p] \in Planned
  BY DEF RemovePc, Removing, Planned
<1>2. Frame(p) /\ CleanFor(p)
  BY Before
<1>3. RemoveFrame(p) /\ Recorded = {target[p]} /\ Settled(seen[p].files, seen[p].hooks)
  BY <1>1, <1>2 DEF Frame, CleanFor
<1>4. target[p] \notin hooks /\ hooks \subseteq seen[p].hooks
  BY <1>3 DEF RemoveFrame
<1>5. errors[p] \subseteq Reported
  BY Named
<1>6. QED
  BY <1>2, <1>3, <1>4, <1>5 DEF RemoveFrame, Settled, CleanFor

\* The end of a removal, or of its part of an update.
LEMMA SoloRemoved ==
    ASSUME SoloInv, NEW p \in Proc, TypedInv', FreshInv',
           EndPreserved(p) \/ RemoveManifest(p) \/ RemoveForUpdate(p)
    PROVE  SoloInv'
<1>1. /\ Running(p) /\ pc[p] \in {"u_files", "u_manifest"}
      /\ pc[p] \in Removing /\ pc[p] \in RemovePc
  BY RunningAt
  DEF EndPreserved, RemoveManifest, RemoveForUpdate, At, RemovePc, Removing
<1>2. /\ TypeOK /\ Kinds(p) /\ Frame(p) /\ Free(p) /\ OneInstallation
      /\ None \notin Proc /\ UserHook \cap Proc = {}
  BY <1>1, Before, NativeInstallAssumption
<1>3. RemoveFrame(p) /\ Recorded = {target[p]}
  BY <1>1, <1>2 DEF Frame
<1>4. UNCHANGED <<files, hooks, errors>> /\ Reported' = Reported
  BY SameReports DEF EndPreserved, RemoveManifest, RemoveForUpdate, disk, stepOnly
<1>5. manifests' \subseteq manifests /\ OneInstallation'
  BY <1>2 DEF EndPreserved, RemoveManifest, RemoveForUpdate, disk, OneInstallation
<1>6. NoneKilled => \A r \in manifests' : OnlyUsers(r.backup)
  BY <1>1, <1>4, <1>5, RemovedFacts DEF OnlyUsers
<1>7. CASE EndPreserved(p)
  <2>1. Return(p, "ok") /\ Recorded' = {target[p]}
    BY <1>3, <1>7 DEF EndPreserved, disk, Recorded
  <2>2. NoneKilled => Settled(files, hooks)'
    BY <1>1, <1>2, <1>4, <2>1, RemovedFacts DEF Settled
  <2>3. QED
    BY <1>1, <1>4, <1>5, <1>6, <2>1, <2>2, SoloReturn DEF Ended
<1>8. CASE RemoveManifest(p) \/ RemoveForUpdate(p)
  <2>1. pc[p] = "u_manifest" /\ manifests' = {}
    BY <1>3, <1>8 DEF RemoveManifest, RemoveForUpdate, At, Owner, Recorded
  <2>2. \A g \in Gen : files[g] = None
    BY <1>3, <2>1 DEF RemoveFrame
  <2>3. NoneKilled => Settled(files, hooks)'
    BY <1>1, <1>2, <1>4, <2>2, RemovedFacts DEF Settled
  <2>4. CASE RemoveManifest(p)
    <3>1. \E result \in {"ok", "incomplete"} : Return(p, result)
      BY <2>4 DEF RemoveManifest
    <3>2. QED
      BY <1>1, <1>4, <1>5, <1>6, <2>3, <3>1, SoloReturn DEF Ended
  <2>5. CASE RemoveForUpdate(p)
    <3>1. /\ pc'[p] = "plan" /\ \A q \in Proc : q # p => pc'[q] = pc[q]
          /\ UNCHANGED <<cmd, start>>
          /\ cmd[p].op = "install"
      BY <1>2, <2>5 DEF RemoveForUpdate, Goto, TypeOK, stepOnly
    <3>2. cmd[p].update
      BY <1>1, <1>2, <3>1 DEF Kinds
    <3>3. StartFrame(p)'
      BY <3>1, <3>2 DEF StartFrame
    <3>4. Frame(p)'
      BY <2>1, <3>1, <3>3 DEF Frame, InstallPc, RemovePc, Altering, Removing
    <3>5. NoneKilled' => CleanFor(p)'
      <4>1. ASSUME NoneKilled'
            PROVE  NoneKilled
        BY <1>1, <3>1, <4>1, KillLasts
      <4>2. "plan" \notin Planned
        BY DEF Planned, Altering, Removing
      <4>3. QED
        BY <1>4, <1>6, <2>3, <3>1, <4>1, <4>2 DEF CleanFor, OnlyUsers
    <3>6. QED
      BY <1>2, <1>5, <3>1, <3>4, <3>5, SoloMove
  <2>6. QED
    BY <1>8, <2>4, <2>5
<1>9. QED
  BY <1>7, <1>8

\* Every step of a removal preserves the invariant.
LEMMA SoloUninstall ==
    ASSUME SoloInv, NEW p \in Proc, TypedInv', FreshInv', UninstallStep(p)
    PROVE  SoloInv'
  BY SoloFindRemoval, SoloQuarantine, SoloRestore, SoloRemoved DEF UninstallStep

\* The steps of a restore: what it puts back holds nothing of an installation.
LEMMA SoloRevert ==
    ASSUME SoloInv, NEW p \in Proc, TypedInv', FreshInv', RestoreStep(p)
    PROVE  SoloInv'
<1>1. Running(p) /\ pc[p] \in {"find", "r_config", "r_files"}
  BY RunningAt DEF RestoreStep, FindToRevert, RevertConfig, RevertFile, RevertEnds,
                   RevertRaises, At
<1>2. /\ TypeOK /\ Frame(p) /\ Free(p) /\ OneInstallation
      /\ NoneKilled => CleanFor(p)
      /\ UserHook \cap Proc = {} /\ Config \notin Gen
  BY <1>1, Before, NativeInstallAssumption
<1>3. /\ "find" \notin Planned
      /\ "r_config" \notin Planned \cup InstallPc \cup RemovePc
      /\ "r_files" \notin Planned \cup InstallPc \cup RemovePc
  BY DEF Planned, InstallPc, RemovePc, Altering, Removing
<1>4. ASSUME pc'[p] \in {"r_config", "r_files"},
             \E r \in manifests' : copy'[p] = r.backup
      PROVE  Frame(p)'
  BY <1>4 DEF Frame, StartFrame, InstallPc, RemovePc, Planned, Altering, Removing
<1>5. CASE \E result \in {"ok", "refused", "raised"} : Return(p, result) /\ UNCHANGED <<disk, errors>>
  BY <1>1, <1>3, <1>5, SoloReturnSame DEF Ended
<1>6. ASSUME NEW r \in manifests,
             copy' = [copy EXCEPT ![p] = r.backup],
             Goto(p, "r_config"),
             UNCHANGED <<disk, cmd, seen, done, start, errors>>
      PROVE  SoloInv'
  <2>1. /\ pc'[p] = "r_config" /\ \A q \in Proc : q # p => pc'[q] = pc[q]
        /\ copy'[p] = r.backup
        /\ UNCHANGED <<files, hooks, manifests>>
        /\ Reported' = Reported
    BY <1>2, <1>6, SameReports DEF Goto, TypeOK, disk
  <2>2. OneInstallation'
    BY <1>2, <2>1 DEF OneInstallation
  <2>3. NoneKilled' => CleanFor(p)'
    <3>1. ASSUME NoneKilled'
          PROVE  CleanFor(p) /\ Settled(files, hooks)
      <4>1. CleanFor(p)
        BY <1>1, <1>2, <2>1, <3>1, KillLasts
      <4>2. QED
        BY <1>1, <1>3, <4>1 DEF CleanFor
    <3>2. QED
      BY <1>3, <2>1, <3>1 DEF CleanFor, Settled, Recorded, OnlyUsers
  <2>4. QED
    BY <1>2, <1>4, <2>1, <2>2, <2>3, SoloMove
<1>7. CASE RevertConfig(p) \/ \E g \in Gen : RevertFile(p, g)
  <2>1. /\ pc[p] \in {"r_config", "r_files"} /\ pc'[p] = "r_files"
        /\ \A q \in Proc : q # p => pc'[q] = pc[q]
        /\ UNCHANGED <<manifests, copy>>
        /\ \E part : errors' \in {errors, [errors EXCEPT ![p] = @ \cup {part}]}
    BY <1>2, <1>7 DEF RevertConfig, RevertFile, Cut, revertOnly, At, Goto, TypeOK
  <2>0. Reported \subseteq Reported'
    BY <1>2, <2>1, MoreReports
  <2>2. OneInstallation'
    BY <1>2, <2>1 DEF OneInstallation
  <2>3. OnlyUsers(copy[p]) /\ Settled(files, hooks) => Settled(files, hooks)'
    <3>1. CASE RevertConfig(p)
      <4>1. UNCHANGED files /\ hooks' \in {copy[p].hooks, hooks, {}}
        BY <3>1 DEF RevertConfig
      <4>2. QED
        BY <1>2, <2>0, <2>1, <4>1 DEF OnlyUsers, Settled, Recorded
    <3>2. ASSUME NEW g \in Gen, RevertFile(p, g)
          PROVE  OnlyUsers(copy[p]) /\ Settled(files, hooks) => Settled(files, hooks)'
      <4>1. /\ UNCHANGED hooks /\ copy[p].files[g] # None
            /\ files'[g] = copy[p].files[g] \/ g \in errors'[p]
            /\ \A h \in Gen : h # g => files'[h] = files[h]
        BY <1>2, <3>2 DEF RevertFile, Cut, ToRevert, TypeOK
      <4>2. errors'[p] \subseteq Reported'
        BY DEF Reported
      <4>3. QED
        BY <2>0, <2>1, <4>1, <4>2 DEF OnlyUsers, Settled, Recorded
    <3>3. QED
      BY <1>7, <3>1, <3>2
  <2>4. NoneKilled' => CleanFor(p)'
    <3>1. ASSUME NoneKilled'
          PROVE  CleanFor(p)
      BY <1>1, <1>2, <2>1, <3>1, KillLasts
    <3>2. QED
      BY <1>3, <2>0, <2>1, <2>3, <3>1 DEF CleanFor, OnlyUsers
  <2>5. \E r \in manifests' : copy'[p] = r.backup
    BY <1>2, <2>1 DEF Frame
  <2>6. QED
    BY <1>2, <1>4, <2>1, <2>2, <2>4, <2>5, SoloMove
<1>8. QED
  BY <1>5, <1>6, <1>7 DEF RestoreStep, FindToRevert, RevertEnds, RevertRaises

\* A command starts when none runs.
LEMMA SoloBegin ==
    ASSUME ~Overlap, SoloInv, NEW p \in Proc, NEW c \in Command, Begin(p, c),
           TypedInv', FreshInv'
    PROVE  SoloInv'
<1>1. Quiet /\ pc[p] = "idle"
  BY DEF Begin, At
<1>2. /\ TypeOK /\ OneInstallation /\ Free(p)
      /\ NoneKilled => CleanFor(p)
  BY <1>1, AloneFacts DEF SoloInv, TypedInv
<1>3. /\ pc'[p] = "find" /\ \A q \in Proc : q # p => pc'[q] = pc[q]
      /\ UNCHANGED <<files, hooks, manifests, seen, copy, done>>
      /\ start'[p] = disk
      /\ Reported' = Reported
  BY <1>2, SameReports DEF Begin, Goto, TypeOK, disk
<1>4. OneInstallation'
  BY <1>2, <1>3 DEF OneInstallation
<1>5. /\ "find" \notin InstallPc \cup RemovePc \cup Planned
      /\ "idle" \notin Planned
  BY DEF Planned, InstallPc, RemovePc, Altering, Removing
<1>6. Frame(p)'
  BY <1>3, <1>5 DEF Frame, StartFrame, disk, Altering, Removing
<1>7. NoneKilled' => CleanFor(p)'
  <2>1. ASSUME NoneKilled'
        PROVE  CleanFor(p)
    BY <1>1, <1>2, <1>3, <2>1, KillLasts
  <2>2. QED
    BY <1>1, <1>3, <1>5, <2>1 DEF CleanFor, Settled, Recorded, OnlyUsers
<1>8. QED
  BY <1>2, <1>3, <1>4, <1>6, <1>7, SoloMove

\* The user edits when no command runs, and touches only what is the user's.
LEMMA SoloEdit ==
    ASSUME ~Overlap, SoloInv, TypedInv', FreshInv',
           \/ \E h \in UserHook : EditHooks(h)
           \/ \E g \in Gen : EditFile(g)
    PROVE  SoloInv'
<1>1. Quiet /\ UNCHANGED userOnly
  BY DEF EditHooks, EditFile
<1>2. UNCHANGED <<manifests, pc, seen, copy>> /\ Reported' = Reported
  BY <1>1, SameReports DEF userOnly
<1>3. Solo' /\ OneInstallation' /\ \A p \in Proc : ~Running(p)'
  BY <1>1, <1>2 DEF SoloInv, Solo, OneInstallation, Quiet, Running
<1>4. Settled(files, hooks) => Settled(files, hooks)'
  <2>1. ASSUME NEW h \in UserHook, EditHooks(h)
        PROVE  Settled(files, hooks) => Settled(files, hooks)'
    <3>1. /\ UNCHANGED files /\ hooks' \in {hooks \cup {h}, hooks \ {h}}
          /\ h \notin Proc
      BY <2>1, NativeInstallAssumption DEF EditHooks
    <3>2. QED
      BY <1>2, <3>1 DEF Settled, Recorded
  <2>2. ASSUME NEW g \in Gen, EditFile(g)
        PROVE  Settled(files, hooks) => Settled(files, hooks)'
    <3>1. /\ UNCHANGED hooks /\ User # None
          /\ \A h \in Gen : files'[h] \in {files[h], User}
      BY <2>2, NativeInstallAssumption DEF EditFile, SoloInv, TypedInv, TypeOK
    <3>2. QED
      BY <1>2, <3>1 DEF Settled, Recorded
  <2>3. QED
    BY <2>1, <2>2
<1>5. NoneKilled' => Clean'
  <2>1. \A p \in Proc : pc[p] \notin Planned
    BY <1>1 DEF Quiet, Running, Ended, Planned, Altering, Removing
  <2>2. QED
    BY <1>2, <1>4, <2>1 DEF SoloInv, NoneKilled, At, Clean, OnlyUsers
<1>6. QED
  BY <1>3, <1>5 DEF SoloInv

\* The invariant is inductive.
LEMMA SoloStep == ASSUME ~Overlap, SoloInv, [Next]_vars PROVE SoloInv'
<1>1. TypedInv' /\ FreshInv'
  BY TypedStep, FreshStep DEF SoloInv, TypedInv
<1>2. ASSUME NEW p \in Proc, Kill(p)
      PROVE  SoloInv'
  BY <1>1, <1>2, SoloReturnSame DEF Kill, Ended
<1>3. CASE UNCHANGED vars
  <2>1. /\ UNCHANGED <<files, hooks, manifests, pc, cmd, target, seen, copy, done, start>>
        /\ errors' = errors /\ Reported' = Reported
    BY <1>3, SameReports DEF vars
  <2>2. Solo' /\ OneInstallation'
    BY <2>1 DEF SoloInv, Solo, OneInstallation, Running
  <2>3. \A p \in Proc : Running(p)' => Frame(p)'
    BY <2>1 DEF SoloInv, Running, Frame, Recorded, AsSeen, InstallFrame, Copied,
                RemoveFrame, Forced, StartFrame, disk
  <2>4. NoneKilled' => Clean'
    BY <2>1 DEF SoloInv, NoneKilled, At, Clean, OnlyUsers, Settled, Recorded
  <2>5. QED
    BY <1>1, <2>2, <2>3, <2>4 DEF SoloInv
<1>4. QED
  BY <1>1, <1>2, <1>3, SoloInstall, SoloUninstall, SoloRevert, SoloBegin, SoloEdit
  DEF Next

\* The initial state satisfies it.
LEMMA SoloBegins == Init => SoloInv
<1> SUFFICES ASSUME Init PROVE SoloInv
  OBVIOUS
<1>1. \A p \in Proc : pc[p] = "idle" /\ ~Running(p)
  BY DEF Init, Running
<1>2. Solo /\ OneInstallation
  BY <1>1 DEF Init, Solo, OneInstallation
<1>3. Clean
  <2>1. \A p \in Proc : pc[p] \notin Planned \cup {"r_config", "r_files"}
    BY <1>1 DEF Planned, Altering, Removing
  <2>2. Settled(files, hooks)
    BY NativeInstallAssumption DEF Init, Settled
  <2>3. QED
    BY <2>1, <2>2 DEF Init, Clean
<1>4. FreshInv
  BY <1>1 DEF Init, FreshInv, Fresh
<1>5. QED
  BY <1>1, <1>2, <1>3, <1>4, TypedBegins DEF SoloInv

\* It holds while commands and edits come one at a time.
THEOREM SoloHolds == ASSUME ~Overlap PROVE Spec => []SoloInv
<1>1. SoloInv /\ [Next]_vars => SoloInv'
  BY SoloStep
<1>2. QED
  BY SoloBegins, <1>1, PTL DEF Spec

-----------------------------------------------------------------------------
(***************************************************************************)
(* What the user sees, one command at a time.                              *)
(***************************************************************************)

\* install-native never installs a provider twice, and --update puts the new
\* installation in the place of the old one.
THEOREM OneInstallationHolds == ASSUME ~Overlap PROVE Spec => []OneInstallation
<1>1. SoloInv => OneInstallation
  BY DEF SoloInv
<1>2. QED
  BY SoloHolds, <1>1, PTL

\* Without a kill, what commands leave behind has a manifest that names it,
\* also after failures and restores, but for what a report has named.
THEOREM NoOrphansHolds == ASSUME ~Overlap PROVE Spec => []NoOrphans
<1>1. ASSUME SoloInv, Quiet, NoneKilled
      PROVE  Settled(files, hooks)
  <2>1. \A p \in Proc : pc[p] \notin Planned
    BY <1>1 DEF Quiet, Running, Ended, Planned, Altering, Removing
  <2>2. QED
    BY <1>1, <2>1 DEF SoloInv, Clean
<1>2. SoloInv => NoOrphans
  BY <1>1 DEF NoOrphans, Settled
<1>3. QED
  BY SoloHolds, <1>2, PTL

\* In a step of one command, an entry names scripts that are there: the entry
\* goes in last and comes out first.
LEMMA ScriptsFacts ==
    ASSUME SoloInv, NoneKilled, NEW p \in Proc, Running(p), ~At(p, "u_undo"),
           Config \notin Reported, hooks \cap Proc # {}
    PROVE  \A g \in Gen \ Reported : files[g] # None
<1>1. /\ TypeOK /\ Frame(p) /\ CleanFor(p) /\ None \notin Proc
      /\ UserHook \cap Proc = {} /\ pc[p] # "u_undo"
  BY Before, NativeInstallAssumption DEF At
<1>2. CASE pc[p] \notin Planned
  BY <1>1, <1>2 DEF CleanFor, Settled
<1>3. CASE pc[p] \in {"backup", "u_config"}
  BY <1>1, <1>3 DEF CleanFor, Settled, Frame, AsSeen, Planned
<1>4. CASE pc[p] \in Altering
  <2>1. InstallFrame(p) /\ manifests = {} /\ Settled(seen[p].files, seen[p].hooks)
    BY <1>1, <1>4 DEF Frame, CleanFor, InstallPc, Planned
  <2>2. seen[p].hooks \cap Proc = {}
    BY <1>1, <2>1 DEF Settled, Recorded
  <2>3. errors[p] \subseteq Reported
    BY Named
  <2>4. Config \in done[p]
    BY <2>1, <2>2, <2>3 DEF InstallFrame
  <2>5. QED
    BY <1>1, <2>1, <2>4 DEF InstallFrame
<1>5. CASE pc[p] \in Removing
  <2>1. pc[p] \in {"u_files", "u_manifest"}
    BY <1>1, <1>5 DEF Removing
  <2>2. hooks \subseteq UserHook
    BY <2>1, RemovedFacts
  <2>3. QED
    BY <1>1, <2>2
<1>6. QED
  BY <1>2, <1>3, <1>4, <1>5 DEF Planned

\* Unless a report has named the configuration or the script, the provider
\* never runs a hook of an installation whose scripts are gone.
THEOREM HooksHaveScriptsHolds == ASSUME ~Overlap PROVE Spec => []HooksHaveScripts
<1>1. ASSUME SoloInv, NoneKilled, \A p \in Proc : ~At(p, "u_undo"),
             Config \notin Reported, hooks \cap Proc # {}
      PROVE  \A g \in Gen \ Reported : files[g] # None
  <2>1. CASE Quiet
    <3>1. \A p \in Proc : pc[p] \notin Planned
      BY <2>1 DEF Quiet, Running, Ended, Planned, Altering, Removing
    <3>2. QED
      BY <1>1, <3>1 DEF SoloInv, Clean, Settled
  <2>2. CASE ~Quiet
    BY <1>1, <2>2, ScriptsFacts DEF Quiet
  <2>3. QED
    BY <2>1, <2>2
<1>2. SoloInv => HooksHaveScripts
  BY <1>1 DEF HooksHaveScripts
<1>3. QED
  BY SoloHolds, <1>2, PTL

-----------------------------------------------------------------------------
(***************************************************************************)
(* Steps.                                                                  *)
(***************************************************************************)

\* A step of a command changes no other command's program counter or report.
LEMMA OnlyOneActs ==
    ASSUME TypeOK, NEW p \in Proc,
           \/ InstallStep(p) \/ UninstallStep(p) \/ RestoreStep(p) \/ Kill(p)
           \/ \E c \in Command : Begin(p, c)
    PROVE  \A q \in Proc : q # p =>
              pc'[q] = pc[q] /\ done'[q] = done[q] /\ errors'[q] = errors[q]
<1> USE DEF TypeOK, Goto, Return, stepOnly, findOnly, Undone, undoOnly, revertOnly, Cut
<1>1. CASE InstallStep(p)
  <2>1. CASE \/ FindNothing(p) \/ Plan(p) \/ PlanOnly(p)
             \/ \E r \in manifests : FindSome(p, r) \/ FindToUpdate(p, r)
    BY <2>1 DEF FindNothing, FindSome, FindToUpdate, Plan, PlanOnly
  <2>2. CASE \/ Backup(p) \/ ReplaceConfig(p) \/ Verify(p) \/ WriteManifest(p) \/ Raise(p)
             \/ \E g \in Gen : ReplaceFile(p, g)
    BY <2>2 DEF Backup, ReplaceConfig, Verify, WriteManifest, Raise, ReplaceFile
  <2>3. CASE UndoConfig(p) \/ EndUndo(p) \/ \E g \in Gen : UndoFile(p, g)
    BY <2>3 DEF UndoConfig, EndUndo, UndoFile
  <2>4. QED
    BY <1>1, <2>1, <2>2, <2>3 DEF InstallStep
<1>2. CASE UninstallStep(p)
  <2>1. CASE \/ FindNoneToRemove(p) \/ PlanRemoval(p) \/ PlanRemovalOnly(p)
             \/ RemoveHooks(p) \/ \E r \in manifests : FindToRemove(p, r)
    BY <2>1 DEF FindNoneToRemove, PlanRemoval, PlanRemovalOnly, RemoveHooks, FindToRemove
  <2>2. CASE \/ QuarantineDone(p) \/ EndPreserved(p) \/ RemoveManifest(p)
             \/ RemoveForUpdate(p) \/ RaiseRemoval(p) \/ \E g \in Gen : Quarantine(p, g)
    BY <2>2 DEF QuarantineDone, EndPreserved, RemoveManifest, RemoveForUpdate,
                RaiseRemoval, Quarantine
  <2>3. CASE RestoreHooks(p) \/ EndRestore(p) \/ \E g \in Gen : RestoreFile(p, g)
    BY <2>3 DEF RestoreHooks, EndRestore, RestoreFile
  <2>4. QED
    BY <1>2, <2>1, <2>2, <2>3 DEF UninstallStep
<1>3. CASE RestoreStep(p)
  BY <1>3 DEF RestoreStep, FindToRevert, RevertConfig, RevertFile, RevertEnds, RevertRaises
<1>4. CASE Kill(p) \/ \E c \in Command : Begin(p, c)
  BY <1>4 DEF Kill, Begin
<1>5. QED
  BY <1>1, <1>2, <1>3, <1>4

\* Only the end of an undone installation or removal reports a failure.
LEMMA WhatFails ==
    ASSUME TypeOK, NEW p \in Proc, Fails(p),
           \/ InstallStep(p) \/ UninstallStep(p) \/ RestoreStep(p) \/ Kill(p)
           \/ \E c \in Command : Begin(p, c)
    PROVE  EndUndo(p) \/ EndRestore(p)
<1> USE DEF TypeOK, Goto, Return, stepOnly, findOnly, undoOnly, revertOnly, Fails
<1>1. CASE InstallStep(p)
  <2>1. ~\/ FindNothing(p) \/ Plan(p) \/ PlanOnly(p)
         \/ \E r \in manifests : FindSome(p, r) \/ FindToUpdate(p, r)
    BY DEF FindNothing, FindSome, FindToUpdate, Plan, PlanOnly
  <2>2. ~\/ Backup(p) \/ ReplaceConfig(p) \/ Verify(p) \/ WriteManifest(p) \/ Raise(p)
         \/ \E g \in Gen : ReplaceFile(p, g)
    BY DEF Backup, ReplaceConfig, Verify, WriteManifest, Raise, ReplaceFile
  <2>3. ~(UndoConfig(p) \/ \E g \in Gen : UndoFile(p, g))
    BY DEF UndoConfig, UndoFile
  <2>4. QED
    BY <1>1, <2>1, <2>2, <2>3 DEF InstallStep
<1>2. CASE UninstallStep(p)
  <2>1. ~\/ FindNoneToRemove(p) \/ PlanRemoval(p) \/ PlanRemovalOnly(p)
         \/ RemoveHooks(p) \/ \E r \in manifests : FindToRemove(p, r)
    BY DEF FindNoneToRemove, PlanRemoval, PlanRemovalOnly, RemoveHooks, FindToRemove
  <2>2. ~\/ QuarantineDone(p) \/ EndPreserved(p) \/ RemoveManifest(p)
         \/ RemoveForUpdate(p) \/ RaiseRemoval(p) \/ \E g \in Gen : Quarantine(p, g)
    BY DEF QuarantineDone, EndPreserved, RemoveManifest, RemoveForUpdate,
           RaiseRemoval, Quarantine
  <2>3. ~(RestoreHooks(p) \/ \E g \in Gen : RestoreFile(p, g))
    BY DEF RestoreHooks, RestoreFile
  <2>4. QED
    BY <1>2, <2>1, <2>2, <2>3 DEF UninstallStep
<1>3. ~RestoreStep(p)
  BY DEF RestoreStep, FindToRevert, RevertConfig, RevertFile, RevertEnds, RevertRaises
<1>4. ~(Kill(p) \/ \E c \in Command : Begin(p, c))
  BY DEF Kill, Begin
<1>5. QED
  BY <1>1, <1>2, <1>3, <1>4

\* Such an end finds everything back in its place, but for the destinations
\* that the report names.
LEMMA FailureFacts ==
    ASSUME SoloInv, NEW p \in Proc, EndUndo(p) \/ EndRestore(p),
           cmd[p].op = "install" => ~cmd[p].update
    PROVE  /\ \A g \in Gen \ errors[p] : files'[g] = start[p][1][g]
           /\ Config \notin errors[p] => hooks' = start[p][2]
           /\ manifests' = start[p][3]
           /\ errors[p] \subseteq IF pc'[p] = "failed" THEN {} ELSE errors'[p]
<1>1. Running(p) /\ pc[p] \in {"undo", "u_undo"} /\ done[p] = {}
  BY RunningAt DEF EndUndo, EndRestore, At, InstallPc, RemovePc, Altering, Removing
<1>2. pc[p] \in Planned /\ Frame(p) /\ TypeOK
  BY <1>1, Before DEF Planned, Altering, Removing
<1>3. start[p] = <<seen[p].files, seen[p].hooks, manifests>>
  BY <1>2 DEF Frame, StartFrame
<1>4. InstallFrame(p) \/ RemoveFrame(p)
  BY <1>1, <1>2 DEF Frame, Altering, Removing
<1>5. PutBack(p)
  BY <1>1, <1>4 DEF InstallFrame, RemoveFrame, PutBack
<1>6. UNCHANGED <<files, hooks, manifests, errors>>
  BY <1>1, <1>2 DEF EndUndo, EndRestore, disk, Frame, InstallPc, Altering, At
<1>7. pc'[p] = "failed" => errors[p] = {}
  BY <1>2 DEF EndUndo, EndRestore, Return, Goto, TypeOK
<1>8. QED
  BY <1>3, <1>5, <1>6, <1>7 DEF PutBack

\* A failed install without --update, and a failed uninstall, leave what the
\* report does not name as they found it, wherever they failed.
THEOREM FailureUndoneHolds == ASSUME ~Overlap PROVE Spec => FailureUndone
<1> DEFINE named(p) == IF pc'[p] = "failed" THEN {} ELSE errors'[p]
           undone(p) == /\ \A g \in Gen \ named(p) : files'[g] = start[p][1][g]
                        /\ Config \notin named(p) => hooks' = start[p][2]
                        /\ manifests' = start[p][3]
<1>1. ASSUME SoloInv, Next, NEW p \in Proc, Fails(p),
             cmd[p].op = "install" => ~cmd[p].update
      PROVE  undone(p)
  <2>1. TypeOK /\ pc'[p] # pc[p]
    BY <1>1 DEF SoloInv, TypedInv, Fails
  <2>2. ~(\E h \in UserHook : EditHooks(h)) /\ ~(\E g \in Gen : EditFile(g))
    BY <2>1 DEF EditHooks, EditFile, userOnly
  <2>3. \/ InstallStep(p) \/ UninstallStep(p) \/ RestoreStep(p) \/ Kill(p)
        \/ \E c \in Command : Begin(p, c)
    BY <1>1, <2>1, <2>2, OnlyOneActs DEF Next
  <2>4. EndUndo(p) \/ EndRestore(p)
    BY <1>1, <2>1, <2>3, WhatFails
  <2>5. QED
    BY <1>1, <2>4, FailureFacts
<1>2. SoloInv /\ [Next]_vars
        => [\A p \in Proc : Fails(p) /\ (cmd[p].op = "install" => ~cmd[p].update)
                            => undone(p)]_vars
  BY <1>1
<1>3. QED
  BY SoloHolds, <1>2, PTL DEF Spec, FailureUndone

\* What belongs to the user is kept, or the report names its place.
Kept(p) ==
    /\ HooksKept(p) \/ Config \in errors'[p]
    /\ \A g \in Gen : FileKept(p, g) \/ g \in errors'[p]

\* So it is when files and entries stay, and the copies of an installation at
\* work with them.
LEMMA KeptSame ==
    ASSUME NEW p \in Proc, UNCHANGED <<files, hooks>>,
           pc[p] \in Altering => pc'[p] \in Altering /\ copy'[p] = copy[p]
    PROVE  Kept(p)
  BY DEF Kept, HooksKept, FileKept, UserHas, Altering

\* The steps of an installation that change neither files nor entries.
LEMMA InstallKeepsSame ==
    ASSUME SoloInv, NEW p \in Proc,
           \/ FindNothing(p) \/ Plan(p) \/ PlanOnly(p) \/ Backup(p)
           \/ \E r \in manifests : FindSome(p, r) \/ FindToUpdate(p, r)
           \/ Verify(p) \/ Raise(p)
    PROVE  Kept(p)
<1>1. TypeOK
  BY DEF SoloInv, TypedInv
<1>2. CASE \/ FindNothing(p) \/ Plan(p) \/ PlanOnly(p) \/ Backup(p)
           \/ \E r \in manifests : FindSome(p, r) \/ FindToUpdate(p, r)
  <2>1. UNCHANGED <<files, hooks>> /\ pc[p] \in {"find", "plan", "backup"}
    BY <1>2 DEF FindNothing, Plan, PlanOnly, Backup, FindSome, FindToUpdate,
                Installing, At, findOnly, disk
  <2>2. QED
    BY <2>1, KeptSame DEF Altering
<1>3. CASE Verify(p) \/ Raise(p)
  <2>1. /\ UNCHANGED <<files, hooks, copy>>
        /\ pc'[p] \in {"manifest", "undo"}
    BY <1>1, <1>3 DEF Verify, Raise, Goto, disk, TypeOK
  <2>2. QED
    BY <2>1, KeptSame DEF Altering
<1>4. QED
  BY <1>2, <1>3

\* An installation copies a file before it replaces it; the copy serves the
\* undoing, or goes into the manifest.
LEMMA InstallKeeps ==
    ASSUME SoloInv, NEW p \in Proc, InstallStep(p)
    PROVE  Kept(p)
<1>1. /\ UserHook \cap Proc = {} /\ User \notin Proc /\ Config \notin Gen
      /\ User # None /\ TypeOK
  BY NativeInstallAssumption DEF Config, SoloInv, TypedInv
<1>2. ASSUME pc[p] \in Altering
      PROVE  /\ InstallFrame(p) /\ Running(p)
             /\ pc[p] # "undo" => errors[p] = {}
  <2>1. Running(p)
    BY <1>2 DEF Altering, Running, Ended
  <2>2. QED
    BY <1>2, <2>1, Before DEF Frame, Altering, Reporting, Ended
<1>3. ASSUME NEW g \in Gen, ReplaceFile(p, g)
      PROVE  Kept(p)
  <2>1. pc[p] = "replace" /\ InstallFrame(p) /\ errors[p] = {}
    BY <1>2, <1>3 DEF ReplaceFile, At, Altering
  <2>2. copy[p].files[g] = files[g]
    BY <1>3, <2>1 DEF InstallFrame, Copied, ReplaceFile
  <2>3. /\ UNCHANGED <<hooks, pc, copy>>
        /\ \A h \in Gen : h # g => files'[h] = files[h]
    BY <1>1, <1>3 DEF ReplaceFile, TypeOK
  <2>4. QED
    BY <2>1, <2>2, <2>3 DEF Kept, HooksKept, FileKept, UserHas
<1>4. CASE ReplaceConfig(p)
  <2>1. pc[p] = "replace" /\ InstallFrame(p) /\ errors[p] = {}
    BY <1>2, <1>4 DEF ReplaceConfig, At, Altering
  <2>2. UNCHANGED <<files, copy>> /\ hooks' = hooks \cup {p} /\ pc'[p] = "verify"
    BY <1>1, <1>4, <2>1 DEF InstallFrame, ReplaceConfig, Goto, TypeOK
  <2>3. QED
    BY <1>1, <2>2 DEF Kept, HooksKept, FileKept, UserHas
<1>5. CASE WriteManifest(p)
  <2>1. PICK r \in manifests' : r.backup = copy[p]
    <3>1. [id |-> p, project |-> cmd[p].project, backup |-> copy[p]] \in manifests'
      BY <1>5 DEF WriteManifest
    <3>2. QED
      BY <3>1
  <2>2. pc[p] = "manifest" /\ UNCHANGED <<files, hooks>>
    BY <1>5 DEF WriteManifest, At
  <2>3. QED
    BY <2>1, <2>2 DEF Kept, HooksKept, FileKept, UserHas, At
<1>6. CASE UndoConfig(p)
  <2>1. pc[p] = "undo" /\ InstallFrame(p) /\ Config \in done[p]
    BY <1>2, <1>6 DEF UndoConfig, At, Altering
  <2>2. Copied(p)
    BY <2>1 DEF InstallFrame
  <2>3. /\ UNCHANGED <<files, pc, copy>>
        /\ hooks' = copy[p].hooks \/ Config \in errors'[p]
        /\ errors[p] \subseteq errors'[p]
    BY <1>1, <1>6 DEF UndoConfig, Undone, undoOnly, TypeOK
  <2>4. Config \notin errors'[p] => hooks = hooks' \cup {p}
    BY <2>1, <2>2, <2>3 DEF InstallFrame, Copied
  <2>5. QED
    BY <1>1, <2>3, <2>4 DEF Kept, HooksKept, FileKept, UserHas
<1>7. ASSUME NEW g \in Gen, UndoFile(p, g)
      PROVE  Kept(p)
  <2>1. pc[p] = "undo" /\ InstallFrame(p) /\ g \in done[p]
    BY <1>2, <1>7 DEF UndoFile, At, Altering
  <2>2. /\ files[g] = p
        /\ UNCHANGED <<hooks, pc, copy>>
        /\ \A h \in Gen : h # g => files'[h] = files[h]
    BY <1>1, <1>7, <2>1 DEF InstallFrame, UndoFile, undoOnly, TypeOK
  <2>3. QED
    BY <1>1, <2>2 DEF Kept, HooksKept, FileKept, UserHas
<1>8. CASE EndUndo(p)
  <2>1. pc[p] = "undo" /\ InstallFrame(p) /\ done[p] = {}
    BY <1>2, <1>8 DEF EndUndo, At, Altering
  <2>2. UNCHANGED <<files, hooks, errors>>
    BY <1>8 DEF EndUndo
  <2>3. ASSUME NEW g \in Gen, g \notin errors[p], copy[p].files[g] = User
        PROVE  files[g] = User
    BY <1>1, <2>1, <2>3 DEF InstallFrame, Copied, Nothing
  <2>4. QED
    BY <2>1, <2>2, <2>3 DEF Kept, HooksKept, FileKept, UserHas
<1>9. QED
  BY <1>3, <1>4, <1>5, <1>6, <1>7, <1>8, InstallKeepsSame DEF InstallStep

\* A removal moves away what is the target's, or what it was forced to.
LEMMA UninstallKeeps ==
    ASSUME SoloInv, NEW p \in Proc, UninstallStep(p)
    PROVE  Kept(p)
<1>1. UserHook \cap Proc = {} /\ User \notin Proc /\ User # None /\ Config \notin Gen
  BY NativeInstallAssumption DEF Config
<1>2. pc[p] \notin Altering
  BY DEF UninstallStep, FindNoneToRemove, FindToRemove, PlanRemoval, PlanRemovalOnly,
         RemoveHooks, Quarantine, QuarantineDone, EndPreserved, RemoveManifest,
         RemoveForUpdate, RaiseRemoval, RestoreHooks, RestoreFile, EndRestore,
         At, Altering
<1>3. ASSUME pc[p] \in RemovePc, Running(p)
      PROVE  TypeOK /\ target[p] \in Proc /\ target[p] \notin UserHook /\ target[p] # User
  BY <1>1, <1>3, Before DEF Kinds
<1>4. CASE RemoveHooks(p)
  <2>1. pc[p] = "u_config" /\ Running(p) /\ pc[p] \in RemovePc
    BY <1>4, RunningAt DEF RemoveHooks, At, RemovePc
  <2>2. AsSeen(p)
    BY <2>1, Before DEF Frame
  <2>3. UNCHANGED files /\ hooks' \in {hooks, hooks \ {target[p]}}
    BY <1>4, <2>2 DEF AsSeen, RemoveHooks
  <2>4. QED
    BY <1>2, <1>3, <2>1, <2>3 DEF Kept, HooksKept, FileKept, UserHas, Altering
<1>5. ASSUME NEW g \in Gen, Quarantine(p, g)
      PROVE  Kept(p)
  <2>1. pc[p] = "u_files" /\ Running(p) /\ pc[p] \in RemovePc
    BY <1>5, RunningAt DEF Quarantine, At, RemovePc, Removing
  <2>2. /\ UNCHANGED hooks /\ \A h \in Gen : h # g => files'[h] = files[h]
        /\ files[g] = target[p] \/ Forced(p)
    BY <1>3, <1>5, <2>1 DEF Quarantine, TypeOK
  <2>3. QED
    BY <1>3, <2>1, <2>2 DEF Kept, HooksKept, FileKept, UserHas, At
<1>6. CASE RestoreHooks(p)
  <2>1. pc[p] = "u_undo" /\ Running(p) /\ pc[p] \in RemovePc /\ Config \in done[p]
    BY <1>6, RunningAt DEF RestoreHooks, At, RemovePc, Removing
  <2>2. RemoveFrame(p)
    BY <2>1, Before DEF Frame, Removing
  <2>3. /\ UNCHANGED files
        /\ hooks' = seen[p].hooks \/ Config \in errors'[p]
        /\ errors[p] \subseteq errors'[p]
    BY <1>3, <1>6, <2>1 DEF RestoreHooks, Undone, TypeOK
  <2>4. Config \notin errors'[p] => hooks = hooks' \ {target[p]}
    BY <2>1, <2>2, <2>3 DEF RemoveFrame
  <2>5. QED
    BY <1>2, <1>3, <2>1, <2>3, <2>4 DEF Kept, HooksKept, FileKept, UserHas, Altering
<1>7. ASSUME NEW g \in Gen, RestoreFile(p, g)
      PROVE  Kept(p)
  <2>1. pc[p] = "u_undo" /\ Running(p) /\ pc[p] \in RemovePc /\ g \in done[p]
    BY <1>7, RunningAt DEF RestoreFile, At, RemovePc, Removing
  <2>2. RemoveFrame(p)
    BY <2>1, Before DEF Frame, Removing
  <2>3. /\ UNCHANGED hooks /\ \A h \in Gen : h # g => files'[h] = files[h]
        /\ errors[p] \subseteq errors'[p]
    BY <1>3, <1>7, <2>1 DEF RestoreFile, Undone, TypeOK
  <2>4. files[g] = None \/ g \in errors'[p]
    BY <2>1, <2>2, <2>3 DEF RemoveFrame
  <2>5. QED
    BY <1>1, <1>2, <2>3, <2>4 DEF Kept, HooksKept, FileKept, UserHas, Altering
<1>8. ASSUME UNCHANGED <<files, hooks>>
      PROVE  Kept(p)
  BY <1>2, <1>8, KeptSame
<1>9. QED
  BY <1>4, <1>5, <1>6, <1>7, <1>8
  DEF UninstallStep, FindNoneToRemove, FindToRemove, findOnly, disk, PlanRemoval,
      PlanRemovalOnly, QuarantineDone, EndPreserved, RemoveManifest,
      RemoveForUpdate, RaiseRemoval, EndRestore

\* A restore saves what it overwrites.
LEMMA RevertKeeps ==
    ASSUME TypeOK, NEW p \in Proc, RestoreStep(p)
    PROVE  Kept(p)
<1>1. pc[p] \notin Altering
  BY DEF RestoreStep, FindToRevert, RevertConfig, RevertFile, RevertEnds, RevertRaises,
         At, Altering
<1>2. CASE RevertConfig(p)
  <2>1. pc[p] = "r_config" /\ UNCHANGED files /\ seen'[p].hooks = hooks
    BY <1>2 DEF RevertConfig, At, TypeOK, Snapshot
  <2>2. QED
    BY <2>1 DEF Kept, HooksKept, FileKept, UserHas, At
<1>3. ASSUME NEW g \in Gen, RevertFile(p, g)
      PROVE  Kept(p)
  <2>1. seen[p] \in Snapshot
    BY DEF TypeOK
  <2>2. /\ pc[p] = "r_files" /\ UNCHANGED hooks
        /\ \A h \in Gen : h # g => files'[h] = files[h]
        /\ seen'[p].files[g] = files[g]
    BY <1>3, <2>1 DEF RevertFile, At, TypeOK, Snapshot
  <2>3. QED
    BY <2>2 DEF Kept, HooksKept, FileKept, UserHas, At
<1>4. ASSUME UNCHANGED <<files, hooks>>
      PROVE  Kept(p)
  BY <1>1, <1>4, KeptSame
<1>5. QED
  BY <1>2, <1>3, <1>4 DEF RestoreStep, FindToRevert, disk, RevertEnds, RevertRaises

\* No step of a command takes anything of the user's away without a copy,
\* without the user having forced it, or without naming its place.
THEOREM UserContentKeptHolds == ASSUME ~Overlap PROVE Spec => UserContentKept
<1>1. ASSUME SoloInv, Next, NEW p \in Proc, ActsNow(p)
      PROVE  Kept(p)
  <2>1. TypeOK
    BY <1>1 DEF SoloInv, TypedInv
  <2>2. ~(\E h \in UserHook : EditHooks(h)) /\ ~(\E g \in Gen : EditFile(g))
    BY <1>1 DEF EditHooks, EditFile, userOnly, ActsNow
  <2>3. \/ InstallStep(p) \/ UninstallStep(p) \/ RestoreStep(p) \/ Kill(p)
        \/ \E c \in Command : Begin(p, c)
    BY <1>1, <2>1, <2>2, OnlyOneActs DEF Next, ActsNow
  <2>4. Kill(p) => Kept(p)
    BY <2>1 DEF Kill, Return, Goto, disk, Kept, HooksKept, FileKept, TypeOK
  <2>5. (\E c \in Command : Begin(p, c)) => Kept(p)
    BY KeptSame DEF Begin, At, disk, Altering
  <2>6. QED
    BY <1>1, <2>1, <2>3, <2>4, <2>5, InstallKeeps, UninstallKeeps, RevertKeeps
<1>2. SoloInv /\ [Next]_vars => [\A p \in Proc : ActsNow(p) => Kept(p)]_vars
  BY <1>1
<1>3. QED
  BY SoloHolds, <1>2, PTL DEF Spec, UserContentKept, Kept

-----------------------------------------------------------------------------
(***************************************************************************)
(* One command at a time, installations and removals are atomic: the       *)
(* commands implement NativeBook.                                          *)
(***************************************************************************)
BookStep == [Book!Next]_<<Shown.files, Shown.hooks, manifests, Book!stopped>>

\* Only the step of p, if any.
OthersStay(p) == \A q \in Proc : q # p => pc'[q] = pc[q] /\ errors'[q] = errors[q]

LEMMA OthersDo ==
    ASSUME TypeOK, NEW p \in Proc,
           InstallStep(p) \/ UninstallStep(p) \/ RestoreStep(p) \/ Kill(p)
    PROVE  OthersStay(p)
  BY OnlyOneActs DEF OthersStay

\* The commands stopped halfway stay the same while p goes on, or ends well.
LEMMA StoppedSame ==
    ASSUME NEW p \in Proc, OthersStay(p),
           pc[p] \notin {"killed", "unclean"}, pc'[p] \notin {"killed", "unclean"}
    PROVE  Killed' = Killed /\ Unclean' = Unclean
  BY DEF Killed, Unclean, At, OthersStay

\* While no other process runs, what counts is what p has read, or the disk.
LEMMA ShownIs ==
    ASSUME NEW p \in Proc, Free(p)
    PROVE  Shown = IF pc[p] \in Planned THEN seen[p] ELSE Now
<1>1. ASSUME NEW q \in Proc, q # p
      PROVE  q \notin Working
  BY <1>1 DEF Free, Running, Ended, Working
<1>2. p \in Working <=> pc[p] \in Planned
  BY DEF Working, Planned, Altering, Removing
<1>3. CASE pc[p] \in Planned
  <2>1. Working = {p}
    BY <1>1, <1>2, <1>3 DEF Working
  <2>2. QED
    BY <1>3, <2>1 DEF Shown
<1>4. CASE pc[p] \notin Planned
  <2>1. Working = {}
    BY <1>1, <1>2, <1>4 DEF Working
  <2>2. QED
    BY <1>4, <2>1 DEF Shown
<1>5. QED
  BY <1>3, <1>4

\* The same after a step of p.
LEMMA ShownThen ==
    ASSUME NEW p \in Proc, Free(p), OthersStay(p)
    PROVE  Shown' = IF pc'[p] \in Planned THEN seen'[p] ELSE Now'
<1>1. ASSUME NEW q \in Proc, q # p
      PROVE  q \notin Working'
  BY <1>1 DEF Free, Running, Ended, Working, OthersStay
<1>2. p \in Working' <=> pc'[p] \in Planned
  BY DEF Working, Planned, Altering, Removing
<1>3. CASE pc'[p] \in Planned
  <2>1. Working' = {p}
    BY <1>1, <1>2, <1>3 DEF Working
  <2>2. QED
    BY <1>3, <2>1 DEF Shown
<1>4. CASE pc'[p] \notin Planned
  <2>1. Working' = {}
    BY <1>1, <1>2, <1>4 DEF Working
  <2>2. QED
    BY <1>4, <2>1 DEF Shown
<1>5. QED
  BY <1>3, <1>4

\* A step of p that changes nothing that counts.
LEMMA BookSame ==
    ASSUME NEW p \in Proc, Free(p), OthersStay(p),
           pc[p] \notin Ended, pc'[p] \notin Ended,
           UNCHANGED manifests,
           (IF pc'[p] \in Planned THEN seen'[p] ELSE Now')
              = (IF pc[p] \in Planned THEN seen[p] ELSE Now)
    PROVE  BookStep
<1>1. Shown' = Shown
  BY ShownIs, ShownThen
<1>2. Killed' = Killed /\ Unclean' = Unclean
  BY StoppedSame DEF Ended
<1>3. QED
  BY <1>1, <1>2 DEF BookStep, Book!stopped

\* The end of a command.
LEMMA BookReturn ==
    ASSUME SoloInv, NEW p \in Proc, Running(p), NEW result \in Ended,
           Return(p, result), UNCHANGED errors
    PROVE  /\ pc'[p] = result /\ OthersStay(p) /\ Free(p)
           /\ Shown = IF pc[p] \in Planned THEN seen[p] ELSE Now
           /\ Shown' = Now'
           /\ result \notin {"killed", "unclean"} => Killed' = Killed /\ Unclean' = Unclean
<1>1. pc'[p] = result /\ OthersStay(p) /\ Free(p)
  BY Before DEF Return, Goto, TypeOK, OthersStay
<1>2. result \notin Planned /\ pc[p] \notin {"killed", "unclean"}
  BY DEF Planned, Altering, Removing, Ended, Running
<1>3. Shown' = Now'
  BY <1>1, <1>2, ShownThen
<1>4. result \notin {"killed", "unclean"} => Killed' = Killed /\ Unclean' = Unclean
  BY <1>1, <1>2, StoppedSame
<1>5. QED
  BY <1>1, <1>3, <1>4, ShownIs

\* A command that ends with the disk as it read it.
LEMMA BookReturnSame ==
    ASSUME SoloInv, NEW p \in Proc, Running(p),
           NEW result \in Ended \ {"killed", "unclean"},
           Return(p, result), UNCHANGED <<disk, errors>>,
           pc[p] \in Planned => AsSeen(p)
    PROVE  BookStep
<1>1. /\ Shown = IF pc[p] \in Planned THEN seen[p] ELSE Now
      /\ Shown' = Now' /\ Killed' = Killed /\ Unclean' = Unclean
  BY BookReturn
<1>2. Shown'.files = Shown.files /\ Shown'.hooks = Shown.hooks
  BY <1>1 DEF AsSeen, Now, disk
<1>3. QED
  BY <1>1, <1>2 DEF BookStep, Book!stopped, disk

\* A command that ends half done, and whose report or exception says so.
LEMMA BookReturnUnclean ==
    ASSUME SoloInv, NEW p \in Proc, Running(p), NEW result \in {"unclean", "killed"},
           Return(p, result), UNCHANGED <<manifests, errors>>,
           result = "killed" => errors[p] # {},
           Book!PartlyUndone(p) \/ \E r \in manifests : Book!PartlyPutBack(r)
    PROVE  BookStep
<1>1. pc'[p] = result /\ OthersStay(p)
  BY BookReturn DEF Ended
<1>2. pc[p] \notin {"killed", "unclean"}
  BY DEF Running, Ended
<1>3. p \notin Unclean /\ Unclean' = Unclean \cup {p} /\ Killed' = Killed
  BY <1>1, <1>2 DEF Unclean, Killed, At, OthersStay
<1>4. Book!RollBackPartly(p)
  BY <1>3 DEF Book!RollBackPartly
<1>5. QED
  BY <1>4 DEF BookStep, Book!Next

\* The steps of an installation, up to its manifest.
LEMMA BookInstalling ==
    ASSUME SoloInv, NEW p \in Proc, InstallStep(p), ~WriteManifest(p)
    PROVE  BookStep
<1>0. OthersStay(p)
  BY OthersDo DEF SoloInv, TypedInv
<1>1. CASE FindNothing(p) \/ \E r \in manifests : FindToUpdate(p, r)
  <2>1. Running(p) /\ pc[p] = "find"
    BY <1>1, RunningAt DEF FindNothing, FindToUpdate, Installing, At
  <2>2. TypeOK /\ Free(p)
    BY <2>1, Before
  <2>3. /\ pc'[p] \in {"plan", "u_plan"}
        /\ UNCHANGED <<files, hooks, manifests>>
    BY <1>1, <2>2 DEF FindNothing, FindToUpdate, Goto, TypeOK, findOnly, disk
  <2>4. /\ pc[p] \notin Planned /\ pc'[p] \notin Planned
        /\ pc[p] \notin Ended /\ pc'[p] \notin Ended
    BY <2>1, <2>3 DEF Planned, Altering, Removing, Ended
  <2>5. QED
    BY <1>0, <2>2, <2>3, <2>4, BookSame DEF Now
<1>2. CASE PlanOnly(p) \/ \E r \in manifests : FindSome(p, r)
  <2>1. /\ Running(p) /\ pc[p] \in {"find", "plan"}
        /\ \E result \in {"ok", "noop", "refused"} : Return(p, result)
        /\ UNCHANGED <<disk, errors>>
    BY <1>2, RunningAt DEF PlanOnly, FindSome, Installing, At, InstallPc
  <2>2. pc[p] \notin Planned
    BY <2>1 DEF Planned, Altering, Removing
  <2>3. QED
    BY <2>1, <2>2, BookReturnSame DEF Ended
<1>3. CASE Plan(p)
  <2>1. Running(p) /\ pc[p] = "plan"
    BY <1>3, RunningAt DEF Plan, At, InstallPc
  <2>2. TypeOK /\ Free(p)
    BY <2>1, Before
  <2>3. /\ pc'[p] = "backup"
        /\ seen'[p] = Now
        /\ UNCHANGED manifests
    BY <1>3, <2>2 DEF Plan, Goto, TypeOK, disk
  <2>4. /\ pc[p] \notin Planned /\ pc'[p] \in Planned
        /\ pc[p] \notin Ended /\ pc'[p] \notin Ended
    BY <2>1, <2>3 DEF Planned, Altering, Removing, Ended
  <2>5. QED
    BY <1>0, <2>2, <2>3, <2>4, BookSame
<1>4. CASE \/ Backup(p) \/ Verify(p) \/ Raise(p) \/ ReplaceConfig(p) \/ UndoConfig(p)
           \/ \E g \in Gen : ReplaceFile(p, g) \/ UndoFile(p, g)
  <2>1. pc[p] \in {"backup"} \cup Altering
    BY <1>4 DEF Backup, Verify, Raise, ReplaceConfig, UndoConfig, ReplaceFile, UndoFile,
                At, Altering
  <2>2. Running(p) /\ pc[p] \in Planned
    BY <2>1, RunningAt DEF InstallPc, Planned
  <2>3. TypeOK /\ Free(p)
    BY <2>2, Before
  <2>4. /\ pc'[p] \in {"backup"} \cup Altering
        /\ UNCHANGED <<manifests, seen>>
    BY <1>4, <2>1, <2>3
    DEF Backup, Verify, Raise, ReplaceConfig, UndoConfig, ReplaceFile, UndoFile,
        Goto, At, TypeOK, Altering, disk, undoOnly
  <2>5. pc'[p] \in Planned /\ pc[p] \notin Ended /\ pc'[p] \notin Ended
    BY <2>2, <2>4 DEF Planned, Altering, Running, Ended
  <2>6. QED
    BY <1>0, <2>2, <2>3, <2>4, <2>5, BookSame
<1>5. CASE EndUndo(p)
  <2>1. /\ Running(p) /\ pc[p] = "undo" /\ pc[p] \in Altering
        /\ pc[p] \in InstallPc
    BY <1>5, RunningAt DEF EndUndo, At, InstallPc, Altering
  <2>2. TypeOK /\ InstallFrame(p) /\ manifests = {} /\ done[p] = {}
    BY <1>5, <2>1, Before DEF Frame, EndUndo
  <2>3. UNCHANGED <<disk, errors>>
    BY <1>5, <2>2 DEF EndUndo, disk
  <2>4. files \in [Gen -> Text] /\ seen[p].files \in [Gen -> Text]
    BY <2>2 DEF TypeOK, Snapshot
  <2>5. CASE Return(p, "failed") /\ errors[p] = {}
    <3>1. AsSeen(p)
      BY <2>2, <2>4, <2>5 DEF InstallFrame, AsSeen
    <3>2. QED
      BY <2>1, <2>3, <2>5, <3>1, BookReturnSame DEF Ended
  <2>6. CASE Return(p, "unclean")
    <3>1. Shown = seen[p] /\ Shown' = Now'
      BY <2>1, <2>3, <2>6, BookReturn DEF Ended, Planned
    <3>2. Shown'.files = files /\ Shown'.hooks = hooks
      BY <2>3, <3>1 DEF Now, disk
    <3>3. Book!PartlyUndone(p)
      BY <2>2, <2>4, <3>1, <3>2 DEF InstallFrame, Book!PartlyUndone, Book!Text, Text
    <3>4. QED
      BY <2>1, <2>3, <2>6, <3>3, BookReturnUnclean DEF disk
  <2>7. QED
    BY <1>5, <2>5, <2>6 DEF EndUndo
<1>6. QED
  BY <1>1, <1>2, <1>3, <1>4, <1>5 DEF InstallStep

\* The manifest makes it count.
LEMMA BookInstalled ==
    ASSUME SoloInv, NEW p \in Proc, WriteManifest(p)
    PROVE  BookStep
<1>1. /\ Running(p) /\ pc[p] = "manifest"
      /\ pc[p] \in Altering /\ pc[p] \in InstallPc /\ pc[p] \in Planned
  BY RunningAt DEF WriteManifest, At, InstallPc, Altering, Planned
<1>2. /\ TypeOK /\ Kinds(p) /\ InstallFrame(p) /\ manifests = {}
      /\ errors[p] = {}
  BY <1>1, Before DEF Frame, Reporting, Ended
<1>3. Config \in done[p] /\ Gen \subseteq done[p] /\ Copied(p)
  BY <1>1, <1>2 DEF InstallFrame
<1>4. /\ files \in [Gen -> Text]
      /\ seen[p] \in Snapshot /\ copy[p] \in Snapshot
      /\ cmd[p] \in Command /\ cmd[p].op = "install"
  BY <1>1, <1>2 DEF TypeOK, Kinds
<1>5. cmd[p].project \in Project
  BY <1>4 DEF Command
<1>6. /\ Shown = seen[p] /\ Shown' = Now' /\ Killed' = Killed /\ Unclean' = Unclean
  BY <1>1, BookReturn DEF WriteManifest, Ended
<1>7. Shown'.files = Book!Replaced(Gen, p)
  <2>1. files = [g \in Gen |-> p]
    BY <1>2, <1>3, <1>4 DEF InstallFrame
  <2>2. Book!Replaced(Gen, p) = [g \in Gen |-> p]
    BY DEF Book!Replaced
  <2>3. QED
    BY <1>6, <2>1, <2>2 DEF WriteManifest, Now
<1>8. Shown'.hooks = Shown.hooks \cup {p}
  BY <1>2, <1>3, <1>6 DEF InstallFrame, WriteManifest, Now
<1>9. copy[p] = [files |-> Shown.files, hooks |-> Shown.hooks]
  BY <1>3, <1>4, <1>6 DEF Copied, Snapshot
<1>10. Book!Install(p, cmd[p].project)
  BY <1>2, <1>6, <1>7, <1>8, <1>9 DEF Book!Install, Book!stopped, WriteManifest
<1>11. QED
  BY <1>5, <1>10 DEF BookStep, Book!Next

\* The steps of a removal, up to its end.
LEMMA BookRemoving ==
    ASSUME SoloInv, NEW p \in Proc, UninstallStep(p),
           ~EndPreserved(p), ~RemoveManifest(p), ~RemoveForUpdate(p)
    PROVE  BookStep
<1>0. OthersStay(p)
  BY OthersDo DEF SoloInv, TypedInv
<1>1. CASE \E r \in manifests : FindToRemove(p, r)
  <2>1. Running(p) /\ pc[p] = "find"
    BY <1>1, RunningAt DEF FindToRemove, At
  <2>2. TypeOK /\ Free(p)
    BY <2>1, Before
  <2>3. /\ pc'[p] = "u_plan"
        /\ UNCHANGED <<files, hooks, manifests>>
    BY <1>1, <2>2 DEF FindToRemove, Goto, TypeOK, findOnly, disk
  <2>4. /\ pc[p] \notin Planned /\ pc'[p] \notin Planned
        /\ pc[p] \notin Ended /\ pc'[p] \notin Ended
    BY <2>1, <2>3 DEF Planned, Altering, Removing, Ended
  <2>5. QED
    BY <1>0, <2>2, <2>3, <2>4, BookSame DEF Now
<1>2. CASE FindNoneToRemove(p) \/ PlanRemovalOnly(p)
  <2>1. /\ Running(p) /\ pc[p] \in {"find", "u_plan"}
        /\ \E result \in {"ok", "noop"} : Return(p, result)
        /\ UNCHANGED <<disk, errors>>
    BY <1>2, RunningAt DEF FindNoneToRemove, PlanRemovalOnly, At, RemovePc
  <2>2. pc[p] \notin Planned
    BY <2>1 DEF Planned, Altering, Removing
  <2>3. QED
    BY <2>1, <2>2, BookReturnSame DEF Ended
<1>3. CASE PlanRemoval(p)
  <2>1. Running(p) /\ pc[p] = "u_plan"
    BY <1>3, RunningAt DEF PlanRemoval, At, RemovePc
  <2>2. TypeOK /\ Free(p)
    BY <2>1, Before
  <2>3. /\ pc'[p] \in {"plan", "u_config"}
        /\ seen'[p] = Now
        /\ UNCHANGED <<files, hooks, manifests>>
    BY <1>3, <2>2 DEF PlanRemoval, Goto, TypeOK, disk
  <2>4. pc[p] \notin Planned /\ pc[p] \notin Ended /\ pc'[p] \notin Ended
    BY <2>1, <2>3 DEF Planned, Altering, Removing, Ended
  <2>5. QED
    BY <1>0, <2>2, <2>3, <2>4, BookSame DEF Now
<1>4. CASE \/ RemoveHooks(p) \/ QuarantineDone(p) \/ RaiseRemoval(p) \/ RestoreHooks(p)
           \/ \E g \in Gen : Quarantine(p, g) \/ RestoreFile(p, g)
  <2>1. pc[p] \in {"u_config"} \cup Removing
    BY <1>4 DEF RemoveHooks, QuarantineDone, RaiseRemoval, RestoreHooks, Quarantine,
                RestoreFile, At, Removing
  <2>2. Running(p) /\ pc[p] \in Planned
    BY <2>1, RunningAt DEF RemovePc, Planned
  <2>3. TypeOK /\ Free(p)
    BY <2>2, Before
  <2>4. /\ pc'[p] \in {"u_config"} \cup Removing
       
        /\ UNCHANGED <<manifests, seen>>
    BY <1>4, <2>1, <2>3
    DEF RemoveHooks, QuarantineDone, RaiseRemoval, RestoreHooks, Quarantine,
        RestoreFile, Goto, At, TypeOK, Removing, disk, undoOnly
  <2>5. pc'[p] \in Planned /\ pc[p] \notin Ended /\ pc'[p] \notin Ended
    BY <2>2, <2>4 DEF Planned, Removing, Running, Ended
  <2>6. QED
    BY <1>0, <2>2, <2>3, <2>4, <2>5, BookSame
<1>5. CASE EndRestore(p)
  <2>1. /\ Running(p) /\ pc[p] = "u_undo" /\ pc[p] \in Removing
    BY <1>5, RunningAt DEF EndRestore, At, RemovePc, Removing
  <2>2. TypeOK /\ RemoveFrame(p) /\ done[p] = {} /\ Recorded = {target[p]}
    BY <1>5, <2>1, Before DEF Frame, EndRestore, RemovePc
  <2>3. UNCHANGED <<disk, errors>>
    BY <1>5 DEF EndRestore
  <2>4. files \in [Gen -> Text] /\ seen[p].files \in [Gen -> Text]
    BY <2>2 DEF TypeOK, Snapshot
  <2>5. CASE errors[p] = {}
    <3>1. AsSeen(p)
      BY <2>2, <2>4, <2>5 DEF RemoveFrame, AsSeen
    <3>2. QED
      BY <1>5, <2>1, <2>5, <3>1, BookReturnSame DEF EndRestore, Ended
  <2>6. CASE errors[p] # {}
    <3>1. Return(p, "unclean")
      BY <1>5, <2>6 DEF EndRestore
    <3>2. Shown = seen[p] /\ Shown' = Now'
      BY <2>1, <2>3, <3>1, BookReturn DEF Ended, Planned
    <3>3. Shown'.files = files /\ Shown'.hooks = hooks
      BY <2>3, <3>2 DEF Now, disk
    <3>4. PICK r \in manifests : r.id = target[p]
      BY <2>2 DEF Recorded
    <3>5. Book!PartlyPutBack(r)
      BY <2>2, <2>4, <3>2, <3>3, <3>4 DEF RemoveFrame, Book!PartlyPutBack, Book!Text, Text
    <3>6. QED
      BY <2>1, <2>3, <3>1, <3>5, BookReturnUnclean DEF disk
  <2>7. QED
    BY <2>5, <2>6
<1>6. QED
  BY <1>1, <1>2, <1>3, <1>4, <1>5 DEF UninstallStep

\* A removal ends: all at once if every file was moved away; else the modified
\* files stay, and those of the target are gone.
LEMMA BookRemoved ==
    ASSUME SoloInv, NEW p \in Proc,
           EndPreserved(p) \/ RemoveManifest(p) \/ RemoveForUpdate(p)
    PROVE  BookStep
<1>1. /\ Running(p) /\ pc[p] \in {"u_files", "u_manifest"}
      /\ pc[p] \in Removing /\ pc[p] \in RemovePc /\ pc[p] \in Planned
  BY RunningAt
  DEF EndPreserved, RemoveManifest, RemoveForUpdate, At, RemovePc, Removing, Planned
<1>2. /\ TypeOK /\ Frame(p) /\ Free(p) /\ OneInstallation
      /\ None \notin Proc /\ Config \notin Gen /\ errors[p] = {}
  BY <1>1, Before DEF Reporting, Ended
<1>3. RemoveFrame(p) /\ Recorded = {target[p]}
  BY <1>1, <1>2 DEF Frame
<1>4. PICK r \in manifests : r.id = target[p]
  BY <1>3 DEF Recorded
<1>5. target[p] \in Proc
  BY <1>1, Before DEF Kinds
<1>6. files \in [Gen -> Text] /\ seen[p].files \in [Gen -> Text]
  BY <1>2 DEF TypeOK, Snapshot
<1>7. hooks = seen[p].hooks \ {r.id}
  BY <1>1, <1>2, <1>3, <1>4 DEF RemoveFrame
<1>8. UNCHANGED <<files, hooks>>
  BY DEF EndPreserved, RemoveManifest, RemoveForUpdate, disk
<1>9. Shown = seen[p] /\ Shown' = Now' /\ UNCHANGED <<Killed, Unclean>>
  <2>1. CASE UNCHANGED errors /\ \E result \in {"ok", "incomplete"} : Return(p, result)
    BY <1>1, <2>1, BookReturn DEF Ended
  <2>2. CASE RemoveForUpdate(p)
    <3>1. pc'[p] = "plan" /\ OthersStay(p)
      BY <1>2, <2>2 DEF RemoveForUpdate, Goto, TypeOK, OthersStay, stepOnly
    <3>2. pc'[p] \notin Planned
      BY <3>1 DEF Planned, Altering, Removing
    <3>3. Killed' = Killed /\ Unclean' = Unclean
      BY <1>1, <3>1, StoppedSame
    <3>4. QED
      BY <1>1, <1>2, <3>1, <3>2, <3>3, ShownIs, ShownThen
  <2>3. QED
    BY <2>1, <2>2 DEF EndPreserved, RemoveManifest
<1>10. CASE EndPreserved(p)
  <2> DEFINE own == {g \in Gen : seen[p].files[g] = r.id}
  <2>1. /\ pc[p] = "u_files" /\ ~Forced(p)
        /\ \E g \in Gen : g \notin done[p] /\ files[g] # None
        /\ \A g \in Gen : g \notin done[p] /\ files[g] # None => files[g] # r.id
        /\ UNCHANGED manifests
    BY <1>4, <1>10 DEF EndPreserved, Preserved, At, disk
  <2>2. \A g \in Gen : g \in done[p] <=> g \in own
    BY <1>2, <1>3, <1>4, <1>5, <2>1 DEF RemoveFrame
  <2>3. files = [g \in Gen |-> IF g \in own THEN None ELSE seen[p].files[g]]
    BY <1>2, <1>3, <1>6, <2>2 DEF RemoveFrame
  <2>4. \E g \in Gen \ own : seen[p].files[g] # None
    BY <1>2, <1>3, <2>1, <2>2 DEF RemoveFrame
  <2>5. Shown'.files = Book!Replaced(own, None)
    BY <1>8, <1>9, <2>3 DEF Book!Replaced, Now
  <2>6. Shown'.hooks = Shown.hooks \ {r.id}
    BY <1>7, <1>8, <1>9 DEF Now
  <2>7. Book!UninstallUnmodified(r)
    BY <1>9, <2>1, <2>4, <2>5, <2>6 DEF Book!UninstallUnmodified, Book!stopped
  <2>8. QED
    BY <2>7 DEF BookStep, Book!Next
<1>11. CASE RemoveManifest(p) \/ RemoveForUpdate(p)
  <2>1. pc[p] = "u_manifest" /\ manifests' = manifests \ {r}
    BY <1>2, <1>3, <1>4, <1>11
    DEF RemoveManifest, RemoveForUpdate, At, Owner, Recorded, OneInstallation
  <2>2. files = [g \in Gen |-> None]
    BY <1>3, <1>6, <2>1 DEF RemoveFrame
  <2>3. Book!Replaced(Gen, None) = [g \in Gen |-> None]
    BY DEF Book!Replaced
  <2>4. Shown'.files = Book!Replaced(Gen, None) /\ Shown'.hooks = Shown.hooks \ {r.id}
    BY <1>7, <1>8, <1>9, <2>2, <2>3 DEF Now
  <2>5. Book!Uninstall(r)
    BY <1>9, <2>1, <2>4 DEF Book!Uninstall, Book!stopped
  <2>6. QED
    BY <2>5 DEF BookStep, Book!Next
<1>12. QED
  BY <1>10, <1>11

\* A restore puts back what the manifest's copies hold, file by file.
LEMMA BookRestored ==
    ASSUME SoloInv, NEW p \in Proc, RestoreStep(p)
    PROVE  BookStep
<1>0. OthersStay(p)
  BY OthersDo DEF SoloInv, TypedInv
<1>1. Running(p) /\ pc[p] \in {"find", "r_config", "r_files"}
  BY RunningAt DEF RestoreStep, FindToRevert, RevertConfig, RevertFile, RevertEnds,
                   RevertRaises, At
<1>2. TypeOK /\ Frame(p) /\ Free(p)
  BY <1>1, Before
<1>3. pc[p] \notin Planned
  BY <1>1 DEF Planned, Altering, Removing
<1>4. CASE \E result \in {"ok", "refused", "raised"} :
              Return(p, result) /\ UNCHANGED <<disk, errors>>
  BY <1>1, <1>3, <1>4, BookReturnSame DEF Ended
<1>5. ASSUME Goto(p, "r_config"), UNCHANGED disk
      PROVE  BookStep
  <2>1. /\ pc'[p] = "r_config"
        /\ UNCHANGED <<files, hooks, manifests>>
    BY <1>2, <1>5 DEF Goto, TypeOK, disk
  <2>2. pc'[p] \notin Planned /\ pc[p] \notin Ended /\ pc'[p] \notin Ended
    BY <1>1, <2>1 DEF Planned, Altering, Removing, Ended
  <2>3. QED
    BY <1>0, <1>2, <1>3, <2>1, <2>2, BookSame DEF Now
<1>6. CASE RevertConfig(p) \/ \E g \in Gen : RevertFile(p, g)
  <2>1. /\ pc[p] \in {"r_config", "r_files"} /\ pc'[p] = "r_files"
        /\ UNCHANGED manifests
    BY <1>2, <1>6 DEF RevertConfig, RevertFile, At, Goto, TypeOK, revertOnly
  <2>2. PICK r \in manifests : copy[p] = r.backup
    BY <1>2, <2>1 DEF Frame
  <2>3. pc'[p] \notin Planned
    BY <2>1 DEF Planned, Altering, Removing
  <2>4. Shown = Now /\ Shown' = Now' /\ UNCHANGED <<Killed, Unclean>>
    BY <1>0, <1>2, <1>3, <2>1, <2>3, ShownIs, ShownThen, StoppedSame
  <2>5. CASE RevertConfig(p)
    <3>1. UNCHANGED files /\ hooks' \in {r.backup.hooks, hooks, {}}
      BY <2>2, <2>5 DEF RevertConfig
    <3>2. CASE hooks' = hooks
      BY <2>1, <2>4, <3>1, <3>2 DEF BookStep, Book!stopped, Now
    <3>3. CASE hooks' \in {r.backup.hooks, {}}
      <4>1. Book!RestoreHooks(r)
        BY <2>1, <2>4, <3>1, <3>3 DEF Book!RestoreHooks, Book!stopped, Now
      <4>2. QED
        BY <4>1 DEF BookStep, Book!Next
    <3>4. QED
      BY <3>1, <3>2, <3>3
  <2>6. ASSUME NEW g \in Gen, RevertFile(p, g)
        PROVE  BookStep
    <3>1. PICK text \in {r.backup.files[g], Torn} :
             /\ UNCHANGED hooks /\ r.backup.files[g] # None
             /\ files' = [files EXCEPT ![g] = text]
      BY <2>2, <2>6 DEF RevertFile, ToRevert
    <3>2. files' = [h \in Gen |-> IF h \in {g} THEN text ELSE files[h]]
      BY <1>2, <3>1 DEF TypeOK
    <3>3. Book!RestoreFile(r, g)
      BY <2>1, <2>4, <3>1, <3>2 DEF Book!RestoreFile, Book!Replaced, Book!stopped, Now
    <3>4. QED
      BY <3>3 DEF BookStep, Book!Next
  <2>7. QED
    BY <1>6, <2>5, <2>6
<1>7. QED
  BY <1>4, <1>5, <1>6 DEF RestoreStep, FindToRevert, RevertEnds, RevertRaises

\* What a killed command leaves on the disk, with all undone so far that it
\* tried to undo.
LEMMA BookKilled ==
    ASSUME SoloInv, NEW p \in Proc, Kill(p), errors[p] = {}
    PROVE  BookStep
<1>1. Running(p) /\ Return(p, "killed") /\ UNCHANGED <<files, hooks, manifests>>
  BY DEF Kill, disk
<1>2. /\ TypeOK /\ Frame(p) /\ Free(p) /\ Config \notin Gen
      /\ pc[p] \in RemovePc => target[p] \in Proc
  BY <1>1, Before DEF Kinds
<1>3. /\ pc'[p] = "killed" /\ OthersStay(p) /\ UNCHANGED errors
      /\ pc[p] \notin {"killed", "unclean"}
  BY <1>1, OthersDo, <1>2 DEF Return, Goto, TypeOK, Running, Ended, Kill
<1>4. Killed' = Killed \cup {p} /\ p \notin Killed /\ Unclean' = Unclean
  BY <1>3 DEF Killed, Unclean, At, OthersStay
<1>5. /\ Shown = IF pc[p] \in Planned THEN seen[p] ELSE Now
      /\ Shown'.files = files /\ Shown'.hooks = hooks
  <2>1. pc'[p] \notin Planned
    BY <1>3 DEF Planned, Altering, Removing
  <2>2. QED
    BY <1>1, <1>2, <1>3, <2>1, ShownIs, ShownThen DEF Now
<1>6. files \in [Gen -> Text] /\ seen[p].files \in [Gen -> Text]
  BY <1>2 DEF TypeOK, Snapshot
<1>7. ASSUME Shown.files = files, Shown.hooks = hooks
      PROVE  Book!HalfInstalled(p) \/ \E r \in manifests : Book!HalfRemoved(r)
  <2>1. \A text : Book!Replaced({}, text) = files
    BY <1>6, <1>7 DEF Book!Replaced
  <2>2. {} \in SUBSET Gen
    OBVIOUS
  <2>3. CASE manifests = {}
    BY <1>5, <1>7, <2>1, <2>2, <2>3 DEF Book!HalfInstalled
  <2>4. CASE manifests # {}
    BY <1>5, <1>7, <2>1, <2>2, <2>4 DEF Book!HalfRemoved
  <2>5. QED
    BY <2>3, <2>4
<1>8. CASE pc[p] \in Altering
  <2>1. pc[p] \in Planned /\ pc[p] \in InstallPc
    BY <1>8 DEF Planned, InstallPc
  <2>2. InstallFrame(p) /\ manifests = {} /\ Shown = seen[p]
    BY <1>2, <1>5, <1>8, <2>1 DEF Frame
  <2> DEFINE part == done[p] \cap Gen
  <2>3. files = [g \in Gen |-> IF g \in part THEN p ELSE seen[p].files[g]]
    BY <1>6, <2>2 DEF InstallFrame
  <2>4. hooks = seen[p].hooks \/ (hooks = seen[p].hooks \cup {p} /\ part = Gen)
    BY <2>2 DEF InstallFrame
  <2>5. part \in SUBSET Gen
    OBVIOUS
  <2> HIDE DEF part
  <2>6. Shown'.files = Book!Replaced(part, p)
    BY <1>5, <2>2, <2>3 DEF Book!Replaced
  <2>7. Book!HalfInstalled(p)
    BY <1>5, <2>2, <2>4, <2>5, <2>6 DEF Book!HalfInstalled
  <2>8. QED
    BY <1>1, <1>4, <2>7 DEF BookStep, Book!Next, Book!Kill
<1>9. CASE pc[p] \in Removing
  <2>1. pc[p] \in Planned /\ pc[p] \in RemovePc
    BY <1>9 DEF Planned, RemovePc
  <2>2. RemoveFrame(p) /\ Recorded = {target[p]} /\ Shown = seen[p]
    BY <1>2, <1>5, <1>9, <2>1 DEF Frame
  <2>3. PICK r \in manifests : r.id = target[p]
    BY <2>2 DEF Recorded
  <2> DEFINE part == done[p] \cap Gen
  <2>4. files = [g \in Gen |-> IF g \in part THEN None ELSE seen[p].files[g]]
    BY <1>6, <2>2 DEF RemoveFrame
  <2>5. hooks \in {seen[p].hooks, seen[p].hooks \ {r.id}}
    BY <2>2, <2>3 DEF RemoveFrame
  <2>6. part \in SUBSET Gen
    OBVIOUS
  <2> HIDE DEF part
  <2>7. Shown'.files = Book!Replaced(part, None)
    BY <1>5, <2>2, <2>4 DEF Book!Replaced
  <2>8. Book!HalfRemoved(r)
    BY <1>5, <2>2, <2>5, <2>6, <2>7 DEF Book!HalfRemoved
  <2>9. QED
    BY <1>1, <1>4, <2>8 DEF BookStep, Book!Next, Book!Kill
<1>10. CASE pc[p] \notin Altering \cup Removing
  <2>1. pc[p] \in Planned => pc[p] \in {"backup", "u_config"}
    BY <1>10 DEF Planned
  <2>2. Shown.files = files /\ Shown.hooks = hooks
    BY <1>2, <1>5, <2>1 DEF Frame, AsSeen, Now
  <2>3. QED
    BY <1>1, <1>4, <1>7, <2>2 DEF BookStep, Book!Next, Book!Kill
<1>11. QED
  BY <1>8, <1>9, <1>10

\* And with steps of the undoing, or of a restore, that have failed.
LEMMA BookKilledUnclean ==
    ASSUME SoloInv, NEW p \in Proc, Kill(p), errors[p] # {}
    PROVE  BookStep
<1>1. /\ Running(p) /\ Return(p, "killed")
      /\ UNCHANGED <<files, hooks, manifests, errors>>
  BY DEF Kill, disk
<1>2. TypeOK /\ Frame(p) /\ pc[p] \in {"undo", "u_undo", "r_files"}
  BY <1>1, Before DEF Reporting, Running
<1>3. /\ Shown = IF pc[p] \in Planned THEN seen[p] ELSE Now
      /\ Shown'.files = files /\ Shown'.hooks = hooks
  BY <1>1, BookReturn DEF Ended, Now
<1>4. files \in [Gen -> Text] /\ seen[p].files \in [Gen -> Text]
  BY <1>2 DEF TypeOK, Snapshot
<1>5. CASE pc[p] = "undo"
  <2>1. InstallFrame(p) /\ manifests = {} /\ Shown = seen[p]
    BY <1>2, <1>3, <1>5 DEF Frame, InstallPc, Altering, Planned
  <2>2. Book!PartlyUndone(p)
    BY <1>3, <1>4, <2>1 DEF InstallFrame, Book!PartlyUndone, Book!Text, Text
  <2>3. QED
    BY <1>1, <2>2, BookReturnUnclean
<1>6. CASE pc[p] = "u_undo"
  <2>1. RemoveFrame(p) /\ Recorded = {target[p]} /\ Shown = seen[p]
    BY <1>2, <1>3, <1>6 DEF Frame, RemovePc, Removing, Planned
  <2>2. PICK r \in manifests : r.id = target[p]
    BY <2>1 DEF Recorded
  <2>3. Book!PartlyPutBack(r)
    BY <1>3, <1>4, <2>1, <2>2 DEF RemoveFrame, Book!PartlyPutBack, Book!Text, Text
  <2>4. QED
    BY <1>1, <2>3, BookReturnUnclean
<1>7. CASE pc[p] = "r_files"
  <2>1. Shown.files = files /\ Shown.hooks = hooks
    BY <1>3, <1>7 DEF Planned, Altering, Removing, Now
  <2>2. PICK r \in manifests : TRUE
    BY <1>2, <1>7 DEF Frame
  <2>3. Book!PartlyPutBack(r)
    BY <1>3, <1>4, <2>1 DEF Book!PartlyPutBack, Book!Text, Text
  <2>4. QED
    BY <1>1, <2>2, <2>3, BookReturnUnclean
<1>8. QED
  BY <1>2, <1>5, <1>6, <1>7

\* The start of a command, and the user's edits.
LEMMA BookBegun ==
    ASSUME ~Overlap, SoloInv, NEW p \in Proc, NEW c \in Command, Begin(p, c)
    PROVE  BookStep
<1>1. TypeOK /\ Quiet /\ pc[p] = "idle"
  BY DEF Begin, At, SoloInv, TypedInv
<1>2. Free(p)
  BY <1>1, AloneFacts
<1>3. /\ pc'[p] = "find" /\ OthersStay(p)
      /\ UNCHANGED <<files, hooks, manifests>>
  BY <1>1 DEF Begin, Goto, TypeOK, OthersStay, disk
<1>4. /\ pc[p] \notin Planned /\ pc'[p] \notin Planned
      /\ pc[p] \notin Ended /\ pc'[p] \notin Ended
  BY <1>1, <1>3 DEF Planned, Altering, Removing, Ended
<1>5. QED
  BY <1>1, <1>2, <1>3, <1>4, BookSame DEF Now

LEMMA BookEdited ==
    ASSUME ~Overlap, SoloInv,
           \/ \E h \in UserHook : EditHooks(h)
           \/ \E g \in Gen : EditFile(g)
    PROVE  BookStep
<1>1. Quiet /\ UNCHANGED <<manifests, pc, seen, errors>>
  BY DEF EditHooks, EditFile, userOnly
<1>2. Working = {} /\ Working' = {}
  BY <1>1 DEF Quiet, Running, Ended, Working
<1>3. Shown = Now /\ Shown' = Now' /\ Killed' = Killed /\ Unclean' = Unclean
  BY <1>1, <1>2 DEF Shown, Killed, Unclean, At
<1>4. ASSUME NEW h \in UserHook, EditHooks(h)
      PROVE  BookStep
  <2>1. Book!EditHooks(h)
    BY <1>1, <1>3, <1>4 DEF EditHooks, Book!EditHooks, Book!stopped, Now
  <2>2. QED
    BY <2>1 DEF BookStep, Book!Next
<1>5. ASSUME NEW g \in Gen, EditFile(g)
      PROVE  BookStep
  <2>1. /\ UNCHANGED hooks /\ files[g] # None
        /\ files' = [files EXCEPT ![g] = User]
        /\ files \in [Gen -> Text]
    BY <1>5 DEF EditFile, SoloInv, TypedInv, TypeOK
  <2>2. files' = [h \in Gen |-> IF h \in {g} THEN User ELSE files[h]]
    BY <2>1
  <2>3. Book!EditFile(g)
    BY <1>1, <1>3, <2>1, <2>2 DEF Book!EditFile, Book!Replaced, Book!stopped, Now
  <2>4. QED
    BY <2>3 DEF BookStep, Book!Next
<1>6. QED
  BY <1>4, <1>5

\* Every step of the commands is one of NativeBook or changes nothing that
\* counts.
LEMMA BookFollows == ASSUME ~Overlap, SoloInv, [Next]_vars PROVE BookStep
<1>1. CASE UNCHANGED vars
  <2>1. UNCHANGED <<files, hooks, manifests, pc, seen, errors>>
    BY <1>1 DEF vars
  <2>2. Shown' = Shown /\ Killed' = Killed /\ Unclean' = Unclean
    BY <2>1 DEF Shown, Working, Now, Killed, Unclean, At
  <2>3. QED
    BY <2>1, <2>2 DEF BookStep, Book!stopped
<1>2. QED
  BY <1>1, BookInstalling, BookInstalled, BookRemoving, BookRemoved, BookRestored,
     BookKilled, BookKilledUnclean, BookBegun, BookEdited
  DEF Next

\* A native command that runs alone changes scripts, configuration and
\* manifests at one moment or not at all, whichever of its steps fails, unless
\* it is killed or reports that it could not undo them all
\* (install_native_transactional, uninstall_native_transactional).
THEOREM ImplementsNativeBook == ASSUME ~Overlap PROVE Spec => CommandsAtomic
<1>1. Init => Book!Init
  <2> SUFFICES ASSUME Init PROVE Book!Init
    OBVIOUS
  <2>1. Working = {} /\ Killed = {} /\ Unclean = {}
    BY DEF Init, Working, Killed, Unclean, At
  <2>2. QED
    BY <2>1 DEF Init, Book!Init, Shown, Now
<1>2. SoloInv /\ [Next]_vars
        => [Book!Next]_<<Shown.files, Shown.hooks, manifests, Book!stopped>>
  BY BookFollows DEF BookStep
<1>3. QED
  BY <1>1, <1>2, SoloHolds, PTL DEF Spec, CommandsAtomic, Book!Spec
=============================================================================
