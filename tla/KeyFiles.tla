------------------------------ MODULE KeyFiles ------------------------------
(***************************************************************************)
(* The key files, the settings and the backups of the key lifecycle        *)
(* (cli.py encryption key-generate, enable and rotate; encryption.py,      *)
(* crypto.py, config.py).  A command opens the database with the key that  *)
(* the settings name, reads the key files it was given, commits under the  *)
(* write lock, and then saves the name of the new key file in the          *)
(* settings.  Enabling takes its backup before the lock, rotating under    *)
(* it.  How the rows are rewritten and the file is replaced is the subject *)
(* of MeshStore.                                                           *)
(***************************************************************************)
EXTENDS ProjectMesh

CONSTANTS
    KeyFile,    \* paths of key files
    NewestKey   \* bound on the number of keys that are generated

ASSUME KeyAssumption == NewestKey \in Nat /\ None \notin KeyFile

VARIABLES
    keys,       \* the key in each key file, 0 if there is no file
    made,       \* the number of keys generated
    meta,       \* encryption_meta: the key of the database, 0 if it has none
    settings,   \* config.yaml: whether it is there, and encryption_key_file
    cmd,        \* what each process does
    replaced,   \* history: keys whose file the user has overwritten
    sure        \* history: the key that the settings have to lead to, or 0

keyVars == <<keys, made, meta, settings, cmd, replaced, sure>>

Keys == 1..NewestKey
NotRunning == [at |-> "idle"]
Settings == [there : BOOLEAN, file : KeyFile \cup {None}]

(***************************************************************************)
(* The local state of a command: the key file of its settings, the current *)
(* and the new key file and the keys read from them; "floor" is what was   *)
(* stored when they were read, "backup" and "rewritten" the key and the    *)
(* rows of the backup and of the transaction.  "solo" says that no other   *)
(* command was under way before it ended.                                  *)
(***************************************************************************)
Image == [key : Keys \cup {0}, rows : SUBSET Entry]
NoImage == [key |-> 0, rows |-> {}]

Command == [op : {"enable", "rotate"},
            at : {"first", "loaded", "open", "ready", "backed", "committed",
                  "saving", "saved"},
            own : KeyFile \cup {None}, from : KeyFile, to : KeyFile,
            old : Keys \cup {0}, new : Keys \cup {0}, floor : SUBSET Entry,
            backup : Image, rewritten : Image, solo : BOOLEAN]

KeyInit ==
    /\ keys = [f \in KeyFile |-> 0] /\ made = 0
    /\ meta = 0
    /\ settings = [there |-> FALSE, file |-> None]
    /\ cmd = [w \in Worker |-> NotRunning]
    /\ replaced = {} /\ sure = 0

Doing(w, at) == cmd[w].at = at

(***************************************************************************)
(* key-generate refuses to replace a file, unless it is told to.           *)
(***************************************************************************)
WriteKey(f) ==
    /\ made < NewestKey
    /\ made' = made + 1
    /\ keys' = [keys EXCEPT ![f] = made + 1]
    /\ UNCHANGED <<vars, meta, settings, cmd, sure>>

GenerateKeyTruncates(f) ==
    /\ \E w \in Worker : "encrypt" \in ops[w]
    /\ WriteKey(f)
    /\ UNCHANGED replaced

GenerateKey(f) ==
    /\ \E w \in Worker : "encrypt" \in ops[w]
    /\ keys[f] = 0
    /\ WriteKey(f)
    /\ UNCHANGED replaced

OverwriteKey(f) ==
    /\ \E w \in Worker : "encrypt" \in ops[w]
    /\ keys[f] # 0
    /\ WriteKey(f)
    /\ replaced' = replaced \cup {keys[f]}

(***************************************************************************)
(* A command reads the settings.  If there are none it writes the          *)
(* defaults, over what others may have written since.                      *)
(***************************************************************************)
LoadSettings(w) ==
    /\ "encrypt" \in ops[w] /\ Doing(w, "idle")
    /\ \E op \in {"enable", "rotate"}, f, g \in KeyFile :
          /\ keys[f] # 0 /\ keys[g] # 0
          /\ op = "enable" => f = g
          /\ cmd' = [v \in Worker |->
                IF v = w
                THEN [op |-> op,
                      at |-> IF settings.there THEN "loaded" ELSE "first",
                      own |-> settings.file, from |-> f, to |-> g,
                      old |-> 0, new |-> 0, floor |-> {},
                      backup |-> NoImage, rewritten |-> NoImage,
                      solo |-> \A u \in Worker : Doing(u, "idle")]
                ELSE IF cmd[v] = NotRunning THEN NotRunning
                ELSE [cmd[v] EXCEPT !.solo = FALSE]]
    /\ UNCHANGED <<vars, keys, made, meta, settings, replaced, sure>>

SaveDefaults(w) ==
    /\ Doing(w, "first")
    /\ settings' = [there |-> TRUE, file |-> None]
    /\ cmd' = [cmd EXCEPT ![w].at = "loaded"]
    /\ UNCHANGED <<vars, keys, made, meta, replaced, sure>>

(***************************************************************************)
(* init() of an encrypted database succeeds with its key only; otherwise   *)
(* the command ends (CommandEnds).                                         *)
(***************************************************************************)
OpenStore(w) ==
    /\ Doing(w, "loaded")
    /\ meta # 0 => cmd[w].own # None /\ keys[cmd[w].own] = meta
    /\ cmd' = [cmd EXCEPT ![w].at = "open"]
    /\ UNCHANGED <<vars, keys, made, meta, settings, replaced, sure>>

LoadKeys(w) ==
    /\ Doing(w, "open")
    /\ cmd' = [cmd EXCEPT ![w].at = "ready", ![w].floor = stored,
                          ![w].old = keys[cmd[w].from],
                          ![w].new = keys[cmd[w].to]]
    /\ UNCHANGED <<vars, keys, made, meta, settings, replaced, sure>>

BackUpBeforeLock(w) ==
    /\ Doing(w, "ready") /\ cmd[w].op = "enable"
    /\ cmd' = [cmd EXCEPT ![w].at = "backed",
                          ![w].backup = [key |-> meta, rows |-> stored]]
    /\ UNCHANGED <<vars, keys, made, meta, settings, replaced, sure>>

(***************************************************************************)
(* The transactions.  Only a plaintext database is encrypted, and only the *)
(* current key is replaced; otherwise nothing changes and the command ends.*)
(***************************************************************************)
Commit(w, backup) ==
    /\ meta' = cmd[w].new
    /\ sure' = 0
    /\ cmd' = [cmd EXCEPT ![w].at = "committed", ![w].backup = backup,
                          ![w].rewritten = [key |-> meta, rows |-> stored]]
    /\ UNCHANGED <<vars, keys, made, settings, replaced>>

Enable(w) ==
    /\ Doing(w, "backed")
    /\ meta = 0
    /\ Commit(w, cmd[w].backup)

RotateUnlocked(w) ==
    /\ Doing(w, "ready") /\ cmd[w].op = "rotate"
    /\ meta # 0 /\ cmd[w].old = meta
    /\ Commit(w, [key |-> cmd[w].old, rows |-> cmd[w].floor])

Rotate(w) ==
    /\ Doing(w, "ready") /\ cmd[w].op = "rotate"
    /\ meta # 0 /\ cmd[w].old = meta
    /\ Commit(w, [key |-> meta, rows |-> stored])

(***************************************************************************)
(* The settings are truncated and written.  Truncated settings read as the *)
(* defaults.                                                               *)
(***************************************************************************)
OpenSettings(w) ==
    /\ Doing(w, "committed")
    /\ settings' = [there |-> TRUE, file |-> None]
    /\ cmd' = [cmd EXCEPT ![w].at = "saving"]
    /\ UNCHANGED <<vars, keys, made, meta, replaced, sure>>

WriteSettings(w) ==
    /\ Doing(w, "saving")
    /\ settings' = [there |-> TRUE, file |-> cmd[w].to]
    /\ sure' = IF cmd[w].solo THEN cmd[w].new ELSE 0
    /\ cmd' = [cmd EXCEPT ![w].at = "saved"]
    /\ UNCHANGED <<vars, keys, made, meta, replaced>>

\* A command returns, is refused or fails, or its process is killed.
CommandEnds(w) ==
    /\ cmd[w] # NotRunning
    /\ cmd' = [cmd EXCEPT ![w] = NotRunning]
    /\ UNCHANGED <<vars, keys, made, meta, settings, replaced, sure>>

EncryptStep(w) ==
    \/ LoadSettings(w) \/ SaveDefaults(w) \/ OpenStore(w) \/ LoadKeys(w)
    \/ BackUpBeforeLock(w) \/ Enable(w) \/ Rotate(w)
    \/ OpenSettings(w) \/ WriteSettings(w) \/ CommandEnds(w)

KeyNext ==
    \/ \E f \in KeyFile : GenerateKey(f) \/ OverwriteKey(f)
    \/ \E w \in Worker : EncryptStep(w)

(***************************************************************************)
(* Types.                                                                  *)
(***************************************************************************)
KeyTypeOK ==
    /\ keys \in [KeyFile -> 0..made] /\ made \in 0..NewestKey
    /\ meta \in 0..made /\ sure \in 0..made /\ replaced \subseteq 1..made
    /\ settings \in Settings
    /\ cmd \in [Worker -> {NotRunning} \cup Command]

(***************************************************************************)
(* The key of the database stays at hand: unless the user has replaced its *)
(* file, some key file holds it.  And when a command that ran alone has    *)
(* saved its settings, they lead to the key that the database has, however *)
(* many commands begin, are refused, fail or are killed after it, until    *)
(* one of them commits (generate_key_file, encryption_enable,              *)
(* encryption_rotate).                                                     *)
(***************************************************************************)
KeyAtHand ==
    /\ meta \notin replaced \cup {0} => \E f \in KeyFile : keys[f] = meta
    /\ sure \notin replaced \cup {0} =>
          /\ meta = sure
          /\ settings.file # None /\ keys[settings.file] = sure

(***************************************************************************)
(* The backup of a command that committed is of the time before it: under  *)
(* the key that was replaced (none, when encryption was enabled), with     *)
(* exactly the rows that were rewritten when the key was rotated, and with *)
(* those stored when the command began to work when it was enabled         *)
(* (_create_pre_operation_backup, backup_contains_plaintext).              *)
(***************************************************************************)
BackupsWhole ==
    \A w \in Worker : LET c == cmd[w] IN
        c.at \in {"committed", "saving", "saved"} =>
            /\ c.backup.key = c.rewritten.key
            /\ c.floor \subseteq c.backup.rows
            /\ c.backup.rows \subseteq c.rewritten.rows
            /\ c.op = "rotate" => c.backup = c.rewritten
=============================================================================
