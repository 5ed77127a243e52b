------------------------------ MODULE NativeBook ------------------------------
(***************************************************************************)
(* What the commands for native integrations promise when they run one at  *)
(* a time: however many files and steps it takes, an installation or a     *)
(* removal changes scripts, configuration and manifests at one moment, or  *)
(* not at all.  An update is a removal and an installation, and a restore  *)
(* works file by file.  Only a command that is killed, or that cannot undo *)
(* what it has done and says so, is left half done.                        *)
(***************************************************************************)
CONSTANTS Proc, Gen, UserHook, Project, User, Torn, None

VARIABLES files, hooks, manifests,
          killed,       \* the processes whose command was killed
          unclean       \* those whose command was not undone entirely

stopped == <<killed, unclean>>

Init ==
    /\ files \in [Gen -> {User, None}]
    /\ hooks \in SUBSET UserHook
    /\ manifests = {}
    /\ killed = {}
    /\ unclean = {}

Text == Proc \cup {User, Torn, None}

\* The scripts of one part hold a text, the others what they held.
Replaced(part, text) == [g \in Gen |-> IF g \in part THEN text ELSE files[g]]

\* Only when nothing is installed, and with copies of what was there.
Install(id, project) ==
    /\ manifests = {}
    /\ files' = Replaced(Gen, id)
    /\ hooks' = hooks \cup {id}
    /\ manifests' = {[id |-> id, project |-> project,
                      backup |-> [files |-> files, hooks |-> hooks]]}
    /\ UNCHANGED stopped

Uninstall(r) ==
    /\ files' = Replaced(Gen, None)
    /\ hooks' = hooks \ {r.id}
    /\ manifests' = manifests \ {r}
    /\ UNCHANGED stopped

\* Modified scripts stay, and the manifest with them.
UninstallUnmodified(r) ==
    LET own == {g \in Gen : files[g] = r.id} IN
    /\ \E g \in Gen \ own : files[g] # None
    /\ files' = Replaced(own, None)
    /\ hooks' = hooks \ {r.id}
    /\ UNCHANGED <<manifests, stopped>>

\* A restore that is cut short leaves a torn file.
RestoreHooks(r) ==
    /\ hooks' \in {r.backup.hooks, {}}
    /\ UNCHANGED <<files, manifests, stopped>>

RestoreFile(r, g) ==
    /\ r.backup.files[g] # None
    /\ \E text \in {r.backup.files[g], Torn} : files' = Replaced({g}, text)
    /\ UNCHANGED <<hooks, manifests, stopped>>

\* Part of an installation: its entry only if all its scripts are there.
HalfInstalled(id) ==
    /\ manifests = {}
    /\ \E part \in SUBSET Gen :
          /\ files' = Replaced(part, id)
          /\ hooks' = hooks \/ (hooks' = hooks \cup {id} /\ part = Gen)

HalfRemoved(r) ==
    /\ \E part \in SUBSET Gen : files' = Replaced(part, None)
    /\ hooks' \in {hooks, hooks \ {r.id}}

\* A failed command that could not put everything back: where it could not,
\* its own doing is still there, or a torn file, or an unreadable configuration.
PartlyUndone(id) ==
    /\ manifests = {}
    /\ files' \in [Gen -> Text] /\ \A g \in Gen : files'[g] \in {files[g], id, Torn}
    /\ hooks' \in {hooks, hooks \cup {id}, {}}

PartlyPutBack(r) ==
    /\ files' \in [Gen -> Text] /\ \A g \in Gen : files'[g] \in {files[g], None, Torn}
    /\ hooks' \in {hooks, hooks \ {r.id}, {}}

Kill(id) ==
    /\ id \notin killed
    /\ killed' = killed \cup {id}
    /\ HalfInstalled(id) \/ \E r \in manifests : HalfRemoved(r)
    /\ UNCHANGED <<manifests, unclean>>

RollBackPartly(id) ==
    /\ id \notin unclean
    /\ unclean' = unclean \cup {id}
    /\ PartlyUndone(id) \/ \E r \in manifests : PartlyPutBack(r)
    /\ UNCHANGED <<manifests, killed>>

EditHooks(h) ==
    /\ hooks' \in {hooks \cup {h}, hooks \ {h}}
    /\ UNCHANGED <<files, manifests, stopped>>

EditFile(g) ==
    /\ files[g] # None
    /\ files' = Replaced({g}, User)
    /\ UNCHANGED <<hooks, manifests, stopped>>

Next ==
    \/ \E id \in Proc : \/ Kill(id) \/ RollBackPartly(id)
                         \/ \E project \in Project : Install(id, project)
    \/ \E r \in manifests :
          \/ Uninstall(r) \/ UninstallUnmodified(r)
          \/ RestoreHooks(r) \/ \E g \in Gen : RestoreFile(r, g)
    \/ \E h \in UserHook : EditHooks(h)
    \/ \E g \in Gen : EditFile(g)

Spec == Init /\ [][Next]_<<files, hooks, manifests, stopped>>
=============================================================================
