----------------------------- MODULE MeshProofs -----------------------------
(***************************************************************************)
(* Proofs about the processes of one user on one project, for any number   *)
(* of them, of messages, conversations, backends, bundles, old rows and    *)
(* keys.  Each part has its invariant, which its own steps keep; a step of *)
(* another part only adds messages and vectors, which it keeps as well.    *)
(* What a parser of Aider's histories makes of a file is a recursive       *)
(* function; what it makes of one line more follows by induction.          *)
(***************************************************************************)
EXTENDS Mesh, ProjectMeshProofs

(***************************************************************************)
(* Keys.  A command under way has keys that exist, and as long as the user *)
(* has not replaced it, the file that its settings will name holds its new *)
(* key.                                                                    *)
(***************************************************************************)
Holding == {"ready", "backed", "committed", "saving", "saved"}
Committed == {"committed", "saving", "saved"}

HeldOK(w) ==
    LET c == cmd[w] IN
    /\ c.at # "idle" => keys[c.from] # 0 /\ keys[c.to] # 0
    /\ c.at \in Holding =>
          /\ c.old \in 0..made
          /\ c.new \in 1..made
          /\ c.new \in replaced \/ keys[c.to] = c.new
          /\ c.floor \subseteq stored

\* A backup that waits for the lock was taken when there was no key, or a key
\* has come since, and the command will be refused.
BackupOK(w) ==
    LET c == cmd[w] IN
    /\ c.at = "backed" =>
          /\ c.op = "enable"
          /\ c.backup.key # 0 => meta # 0
          /\ c.floor \subseteq c.backup.rows
          /\ c.backup.rows \subseteq stored
    /\ c.at \in Committed =>
          /\ c.backup.key = c.rewritten.key
          /\ c.floor \subseteq c.backup.rows
          /\ c.backup.rows \subseteq c.rewritten.rows
          /\ c.op = "rotate" => c.backup = c.rewritten

\* A command that is alone until now has had the last word on the key.
AloneOK(w) ==
    LET c == cmd[w] IN
    c.at # "idle" /\ c.solo =>
        /\ \A v \in Worker \ {w} : cmd[v].at = "idle"
        /\ c.at \in {"committed", "saving"} => meta = c.new

\* While the settings lead to the key nobody is about to write them.
SureOK ==
    sure # 0 =>
        /\ settings.there
        /\ \A w \in Worker : cmd[w].at \notin {"first", "committed", "saving"}

KeyInv == /\ KeyTypeOK
          /\ \A w \in Worker : HeldOK(w) /\ BackupOK(w) /\ AloneOK(w)
          /\ SureOK
          /\ KeyAtHand

(***************************************************************************)
(* What the other parts do is a longer list of messages to the keys.       *)
(***************************************************************************)
LEMMA KeyUntouched ==
    ASSUME KeyInv, UNCHANGED keyVars, stored \subseteq stored'
    PROVE  KeyInv'
BY DEF KeyInv, keyVars, KeyTypeOK, HeldOK, BackupOK, AloneOK, SureOK, KeyAtHand

LEMMA Commands ==
    ASSUME KeyInv, NEW w \in Worker
    PROVE  /\ cmd[w] \in {NotRunning} \cup Command
           /\ cmd[w].at # "idle" => cmd[w] \in Command
           /\ cmd[w] # NotRunning => cmd[w].at # "idle"
BY DEF KeyInv, KeyTypeOK, NotRunning, Command

(***************************************************************************)
(* A command that another one overlaps is the same, but no longer alone.   *)
(***************************************************************************)
LEMMA Overlapped ==
    ASSUME NEW c \in Command
    PROVE  LET d == [c EXCEPT !.solo = FALSE] IN
           /\ d \in Command
           /\ d.op = c.op /\ d.at = c.at /\ d.from = c.from /\ d.to = c.to
           /\ d.old = c.old /\ d.new = c.new /\ d.floor = c.floor
           /\ d.backup = c.backup /\ d.rewritten = c.rewritten /\ ~d.solo
BY DEF Command

(***************************************************************************)
(* When a command moves, it is not alone with any other.                   *)
(***************************************************************************)
LEMMA OtherCommands ==
    ASSUME KeyInv, NEW w \in Worker, cmd[w].at # "idle",
           \A v \in Worker \ {w} : cmd'[v] = cmd[v],
           UNCHANGED <<keys, made, replaced, stored>>,
           meta # 0 => meta' # 0
    PROVE  \A v \in Worker \ {w} : HeldOK(v)' /\ BackupOK(v)' /\ AloneOK(v)'
<1> TAKE v \in Worker \ {w}
<1>1. cmd'[v] = cmd[v] /\ HeldOK(v) /\ BackupOK(v) /\ AloneOK(v)
  BY DEF KeyInv
<1>2. HeldOK(v)'
  BY <1>1 DEF HeldOK
<1>3. BackupOK(v)'
  BY <1>1 DEF BackupOK
<1>4. AloneOK(v)'
  BY <1>1 DEF AloneOK
<1> QED
  BY <1>2, <1>3, <1>4

(***************************************************************************)
(* A step of a command that neither commits nor writes the settings.       *)
(***************************************************************************)
LEMMA QuietCommand ==
    ASSUME KeyInv, NEW w \in Worker, cmd[w].at # "idle",
           NEW c \in {NotRunning} \cup Command, cmd' = [cmd EXCEPT ![w] = c],
           UNCHANGED <<keys, made, meta, settings, replaced, sure, stored>>,
           c.at \notin {"first", "committed", "saving"},
           c.at # "idle" => c.solo = cmd[w].solo,
           HeldOK(w)', BackupOK(w)'
    PROVE  KeyInv'
<1>1. /\ cmd'[w] = c
      /\ \A v \in Worker \ {w} : cmd'[v] = cmd[v]
  BY DEF KeyInv, KeyTypeOK
<1>2. \A v \in Worker \ {w} : HeldOK(v)' /\ BackupOK(v)' /\ AloneOK(v)'
  BY <1>1, OtherCommands
<1>3. AloneOK(w)'
  <2>1. /\ AloneOK(w)
        /\ \A v \in Worker \ {w} : cmd'[v].at = cmd[v].at
    BY <1>1 DEF KeyInv
  <2> QED
    BY <1>1, <2>1 DEF AloneOK
<1>4. KeyTypeOK'
  BY DEF KeyInv, KeyTypeOK
<1>5. SureOK'
  BY <1>1 DEF KeyInv, SureOK
<1>6. KeyAtHand'
  BY DEF KeyInv, KeyAtHand
<1> QED
  BY <1>2, <1>3, <1>4, <1>5, <1>6 DEF KeyInv

(***************************************************************************)
(* Every step of every command, and of the user, keeps that.               *)
(***************************************************************************)
LEMMA KeyStep ==
    ASSUME TypeOK, KeyInv, KeyNext
    PROVE  KeyInv'
<1> USE DEF Doing
<1>a. /\ NewestKey \in Nat /\ None \notin KeyFile
      /\ made \in 0..NewestKey /\ keys \in [KeyFile -> 0..made]
      /\ meta \in 0..made /\ sure \in 0..made /\ replaced \subseteq 1..made
      /\ settings \in Settings
      /\ cmd \in [Worker -> {NotRunning} \cup Command]
  BY KeyAssumption DEF KeyInv, KeyTypeOK, KeyAssumption
<1>k. ASSUME NEW f \in KeyFile, GenerateKey(f) \/ OverwriteKey(f)
      PROVE  KeyInv'
  <2>1. /\ made < NewestKey /\ made' = made + 1
        /\ keys' = [keys EXCEPT ![f] = made + 1]
        /\ UNCHANGED <<stored, meta, settings, cmd, sure>>
        /\ replaced' = IF keys[f] = 0 THEN replaced
                       ELSE replaced \cup {keys[f]}
    BY <1>k DEF GenerateKey, OverwriteKey, WriteKey, vars
  <2>2. /\ made \in Nat /\ made' \in Nat /\ made' # 0
        /\ \A k \in 0..made : k \in 0..made'
        /\ \A k \in 1..made : k \in 1..made'
        /\ made' \in 0..NewestKey
    BY <1>a, <2>1
  <2>3. /\ keys' \in [KeyFile -> 0..made']
        /\ \A g \in KeyFile : keys[g] # 0 => keys'[g] # 0
    BY <1>a, <2>1, <2>2
  <2>4. \A g \in KeyFile, k \in 1..made :
           k \in replaced \/ keys[g] = k => k \in replaced' \/ keys'[g] = k
    BY <1>a, <2>1
  <2>5. replaced' \subseteq 1..made'
    <3>1. keys[f] # 0 => keys[f] \in 1..made
      BY <1>a
    <3>2. replaced' \subseteq 1..made
      BY <1>a, <2>1, <3>1
    <3> QED
      BY <2>2, <3>2
  <2>6. KeyTypeOK'
    BY <1>a, <2>1, <2>2, <2>3, <2>5 DEF KeyTypeOK
  <2>7. ASSUME NEW w \in Worker
        PROVE  HeldOK(w)' /\ BackupOK(w)' /\ AloneOK(w)'
    <3>1. cmd[w].at # "idle" => cmd[w].from \in KeyFile /\ cmd[w].to \in KeyFile
      BY Commands DEF Command
    <3>2. HeldOK(w)'
      BY <2>1, <2>2, <2>3, <2>4, <3>1 DEF KeyInv, HeldOK, Holding
    <3> QED
      BY <2>1, <3>2 DEF KeyInv, BackupOK, AloneOK
  <2>8. KeyAtHand'
    <3>1. meta \notin replaced' \cup {0} => \E g \in KeyFile : keys'[g] = meta
      BY <1>a, <2>1, <2>4 DEF KeyInv, KeyAtHand
    <3>2. sure \notin replaced' \cup {0} =>
             /\ meta = sure
             /\ settings.file # None /\ keys'[settings.file] = sure
      BY <1>a, <2>1, <2>4 DEF KeyInv, KeyAtHand, Settings
    <3> QED
      BY <2>1, <3>1, <3>2 DEF KeyAtHand
  <2> QED
    BY <2>1, <2>6, <2>7, <2>8 DEF KeyInv, SureOK
<1> SUFFICES ASSUME NEW w \in Worker, EncryptStep(w)
             PROVE  KeyInv'
  BY <1>k DEF KeyNext
<1>w. /\ cmd[w].at # "idle" => cmd[w] \in Command
      /\ cmd[w] # NotRunning => cmd[w].at # "idle"
      /\ HeldOK(w) /\ BackupOK(w) /\ AloneOK(w)
  BY Commands DEF KeyInv
<1>1. CASE LoadSettings(w)
  <2>0. PICK op \in {"enable", "rotate"}, f \in KeyFile, g \in KeyFile :
          /\ keys[f] # 0 /\ keys[g] # 0
          /\ op = "enable" => f = g
          /\ cmd' = [v \in Worker |->
                IF v = w
                THEN [op |-> op,
                      at |-> IF settings.there THEN "loaded" ELSE "first",
                      own |-> settings.file, from |-> f, to |-> g,
                      old |-> 0, new |-> 0, floor |-> {},
                      backup |-> NoImage, rewritten |-> NoImage,
                      solo |-> \A u \in Worker : Doing(u, "idle")]
                ELSE IF cmd[v] = NotRunning THEN NotRunning
                ELSE [cmd[v] EXCEPT !.solo = FALSE]]
    BY <1>1 DEF LoadSettings
  <2>1. UNCHANGED <<stored, keys, made, meta, settings, replaced, sure>>
    BY <1>1 DEF LoadSettings, vars
  <2>2. /\ cmd'[w] \in Command
        /\ cmd'[w].at = IF settings.there THEN "loaded" ELSE "first"
        /\ cmd'[w].from = f /\ cmd'[w].to = g
        /\ cmd'[w].solo => \A u \in Worker : cmd[u].at = "idle"
    BY <1>a, <2>0 DEF Command, Settings, NoImage, Image
  <2>3. ASSUME NEW v \in Worker \ {w}
        PROVE  /\ cmd[v] = NotRunning => cmd'[v] = NotRunning
               /\ cmd[v] # NotRunning =>
                     /\ cmd[v] \in Command
                     /\ cmd'[v] = [cmd[v] EXCEPT !.solo = FALSE]
                     /\ cmd'[v] \in Command
    <3>1. cmd[v] \in {NotRunning} \cup Command
      BY Commands
    <3>2. cmd'[v] = IF cmd[v] = NotRunning THEN NotRunning
                    ELSE [cmd[v] EXCEPT !.solo = FALSE]
      BY <2>0
    <3> QED
      BY <3>1, <3>2, Overlapped
  <2>4. KeyTypeOK'
    <3>1. \A v \in Worker : cmd'[v] \in {NotRunning} \cup Command
      BY <2>2, <2>3
    <3>2. cmd' \in [Worker -> {NotRunning} \cup Command]
      BY <2>0, <3>1
    <3> QED
      BY <1>a, <2>1, <3>2 DEF KeyTypeOK
  <2>5. HeldOK(w)' /\ BackupOK(w)' /\ AloneOK(w)'
    <3>1. \A v \in Worker \ {w} : cmd[v].at = "idle" => cmd'[v].at = "idle"
      BY <2>3, Commands
    <3> QED
      BY <2>0, <2>1, <2>2, <3>1
      DEF HeldOK, BackupOK, AloneOK, Holding, Committed
  <2>6. ASSUME NEW v \in Worker \ {w}
        PROVE  /\ HeldOK(v)' /\ BackupOK(v)' /\ AloneOK(v)'
               /\ cmd'[v].at = cmd[v].at
    <3>1. HeldOK(v) /\ BackupOK(v)
      BY DEF KeyInv
    <3>2. CASE cmd[v] = NotRunning
      BY <2>3, <3>2
      DEF HeldOK, BackupOK, AloneOK, Holding, Committed, NotRunning
    <3>3. CASE cmd[v] # NotRunning
      <4>1. /\ cmd'[v].op = cmd[v].op /\ cmd'[v].at = cmd[v].at
            /\ cmd'[v].from = cmd[v].from /\ cmd'[v].to = cmd[v].to
            /\ cmd'[v].old = cmd[v].old /\ cmd'[v].new = cmd[v].new
            /\ cmd'[v].floor = cmd[v].floor /\ cmd'[v].backup = cmd[v].backup
            /\ cmd'[v].rewritten = cmd[v].rewritten /\ ~cmd'[v].solo
        <5>1. cmd[v] \in Command /\ cmd'[v] = [cmd[v] EXCEPT !.solo = FALSE]
          BY <2>3, <3>3
        <5> QED
          BY <5>1, Overlapped
      <4>2. HeldOK(v)'
        BY <2>1, <3>1, <4>1 DEF HeldOK
      <4>3. BackupOK(v)'
        BY <2>1, <3>1, <4>1 DEF BackupOK
      <4> QED
        BY <4>1, <4>2, <4>3 DEF AloneOK
    <3> QED
      BY <3>2, <3>3
  <2>7. SureOK'
    BY <2>1, <2>2, <2>6 DEF KeyInv, SureOK
  <2>8. KeyAtHand'
    BY <2>1 DEF KeyInv, KeyAtHand
  <2> QED
    BY <2>4, <2>5, <2>6, <2>7, <2>8 DEF KeyInv
<1>2. CASE SaveDefaults(w)
  <2> DEFINE c == [cmd[w] EXCEPT !.at = "loaded"]
  <2>1. /\ cmd[w] \in Command /\ cmd[w].at = "first"
        /\ settings' = [there |-> TRUE, file |-> None]
        /\ cmd' = [cmd EXCEPT ![w] = c]
        /\ UNCHANGED <<stored, keys, made, meta, replaced, sure>>
    BY <1>2, <1>w DEF SaveDefaults, vars
  <2>2. /\ c \in Command /\ c.at = "loaded" /\ c.solo = cmd[w].solo
        /\ c.from = cmd[w].from /\ c.to = cmd[w].to
    BY <2>1 DEF Command
  <2>3. cmd'[w] = c /\ \A v \in Worker \ {w} : cmd'[v] = cmd[v]
    BY <1>a, <2>1
  <2> HIDE DEF c
  <2>4. \A v \in Worker \ {w} : HeldOK(v)' /\ BackupOK(v)' /\ AloneOK(v)'
    BY <2>1, <2>3, OtherCommands
  <2>5. HeldOK(w)' /\ BackupOK(w)' /\ AloneOK(w)'
    BY <2>1, <2>2, <2>3, <1>w
    DEF HeldOK, BackupOK, AloneOK, Holding, Committed
  <2>6. sure = 0
    BY <2>1 DEF KeyInv, SureOK
  <2>7. KeyTypeOK'
    BY <1>a, <2>1, <2>2 DEF KeyTypeOK, Settings
  <2>8. SureOK' /\ KeyAtHand'
    BY <2>1, <2>6 DEF KeyInv, SureOK, KeyAtHand
  <2> QED
    BY <2>4, <2>5, <2>7, <2>8 DEF KeyInv
<1>3. CASE OpenStore(w)
  <2> DEFINE c == [cmd[w] EXCEPT !.at = "open"]
  <2>1. /\ cmd[w] \in Command /\ cmd[w].at = "loaded"
        /\ cmd' = [cmd EXCEPT ![w] = c]
        /\ UNCHANGED <<stored, keys, made, meta, settings, replaced, sure>>
    BY <1>3, <1>w DEF OpenStore, vars
  <2>2. /\ c \in Command /\ c.at = "open" /\ c.solo = cmd[w].solo
        /\ c.from = cmd[w].from /\ c.to = cmd[w].to /\ cmd'[w] = c
    BY <1>a, <2>1 DEF Command
  <2> HIDE DEF c
  <2>3. HeldOK(w)' /\ BackupOK(w)'
    BY <2>1, <2>2, <1>w DEF HeldOK, BackupOK, Holding, Committed
  <2> QED
    BY <2>1, <2>2, <2>3, QuietCommand
<1>4. CASE LoadKeys(w)
  <2> DEFINE c == [cmd[w] EXCEPT !.at = "ready", !.floor = stored,
                      !.old = keys[cmd[w].from], !.new = keys[cmd[w].to]]
  <2>1. /\ cmd[w] \in Command /\ cmd[w].at = "open"
        /\ cmd' = [cmd EXCEPT ![w] = c]
        /\ UNCHANGED <<stored, keys, made, meta, settings, replaced, sure>>
    BY <1>4, <1>w DEF LoadKeys, vars
  <2>2. /\ keys[cmd[w].from] \in 1..made /\ keys[cmd[w].to] \in 1..made
        /\ cmd[w].from \in KeyFile /\ cmd[w].to \in KeyFile
    <3>1. /\ keys[cmd[w].from] # 0 /\ keys[cmd[w].to] # 0
          /\ cmd[w].from \in KeyFile /\ cmd[w].to \in KeyFile
      BY <2>1, <1>w DEF HeldOK, Command
    <3> QED
      BY <3>1, <1>a
  <2>s. stored \subseteq Entry
    BY DEF TypeOK
  <2>3. /\ c \in Command /\ c.at = "ready" /\ c.solo = cmd[w].solo
        /\ c.from = cmd[w].from /\ c.to = cmd[w].to /\ cmd'[w] = c
        /\ c.new = keys[cmd[w].to] /\ c.old = keys[cmd[w].from]
        /\ c.floor = stored
    <3>1. {keys[cmd[w].from], keys[cmd[w].to]} \subseteq Keys \cup {0}
      BY <1>a, <2>2 DEF Keys
    <3> QED
      BY <1>a, <2>1, <2>s, <3>1 DEF Command
  <2> HIDE DEF c
  <2>4. HeldOK(w)' /\ BackupOK(w)'
    BY <2>1, <2>2, <2>3, <1>a, <1>w DEF HeldOK, BackupOK, Holding, Committed
  <2> QED
    BY <2>1, <2>3, <2>4, QuietCommand
<1>5. CASE BackUpBeforeLock(w)
  <2> DEFINE c == [cmd[w] EXCEPT !.at = "backed",
                      !.backup = [key |-> meta, rows |-> stored]]
  <2>1. /\ cmd[w] \in Command /\ cmd[w].at = "ready" /\ cmd[w].op = "enable"
        /\ cmd' = [cmd EXCEPT ![w] = c]
        /\ UNCHANGED <<stored, keys, made, meta, settings, replaced, sure>>
    BY <1>5, <1>w DEF BackUpBeforeLock, vars
  <2>2. [key |-> meta, rows |-> stored] \in Image
    BY <1>a DEF Image, Keys, TypeOK
  <2>3. /\ c \in Command /\ c.at = "backed" /\ c.solo = cmd[w].solo
        /\ c.op = "enable" /\ c.from = cmd[w].from /\ c.to = cmd[w].to
        /\ c.new = cmd[w].new /\ c.old = cmd[w].old
        /\ c.floor = cmd[w].floor /\ cmd'[w] = c
        /\ c.backup = [key |-> meta, rows |-> stored]
    BY <1>a, <2>1, <2>2 DEF Command
  <2> HIDE DEF c
  <2>4. HeldOK(w)' /\ BackupOK(w)'
    BY <2>1, <2>3, <1>w DEF HeldOK, BackupOK, Holding, Committed
  <2> QED
    BY <2>1, <2>3, <2>4, QuietCommand
<1>c. ASSUME NEW b \in Image, Commit(w, b), cmd[w].at \in {"ready", "backed"},
             cmd[w].floor \subseteq b.rows, b.rows \subseteq stored,
             b.key = meta, cmd[w].op = "rotate" => b.rows = stored
      PROVE  KeyInv'
  <2> DEFINE r == [key |-> meta, rows |-> stored]
             c == [cmd[w] EXCEPT !.at = "committed", !.backup = b,
                                 !.rewritten = r]
  <2>1. /\ cmd[w] \in Command /\ cmd[w].at \in Holding
        /\ cmd' = [cmd EXCEPT ![w] = c]
        /\ meta' = cmd[w].new /\ sure' = 0
        /\ UNCHANGED <<stored, keys, made, settings, replaced>>
    BY <1>c, <1>w DEF Commit, vars, Holding
  <2>2. r \in Image
    BY <1>a DEF Image, Keys, TypeOK
  <2>3. /\ c \in Command /\ c.at = "committed" /\ c.solo = cmd[w].solo
        /\ c.op = cmd[w].op /\ c.from = cmd[w].from /\ c.to = cmd[w].to
        /\ c.new = cmd[w].new /\ c.old = cmd[w].old
        /\ c.floor = cmd[w].floor /\ cmd'[w] = c
        /\ c.backup = b /\ c.rewritten = r
    BY <1>a, <1>c, <2>1, <2>2 DEF Command
  <2>b. b = [key |-> b.key, rows |-> b.rows]
    BY <1>c DEF Image
  <2>4. cmd[w].new \in 1..made /\ cmd[w].to \in KeyFile
    BY <2>1, <1>w DEF HeldOK, Command
  <2>5. \A v \in Worker \ {w} : cmd'[v] = cmd[v]
    BY <1>a, <2>1
  <2>o. meta' # 0 /\ meta' \in 0..made
    BY <1>a, <2>1, <2>4
  <2> HIDE DEF c
  <2>6. \A v \in Worker \ {w} : HeldOK(v)' /\ BackupOK(v)' /\ AloneOK(v)'
    BY <2>1, <2>5, <2>o, <1>c, OtherCommands
  <2>7. HeldOK(w)'
    BY <2>1, <2>3, <1>w DEF HeldOK, Holding
  <2>8. BackupOK(w)'
    BY <2>1, <2>3, <2>b, <1>c DEF BackupOK, Committed
  <2>9. AloneOK(w)'
    BY <1>c, <2>1, <2>3, <2>5, <1>w DEF AloneOK
  <2>10. KeyTypeOK'
    BY <1>a, <2>1, <2>3, <2>o DEF KeyTypeOK
  <2>11. KeyAtHand'
    BY <1>w, <2>1, <2>4 DEF HeldOK, KeyAtHand
  <2> QED
    BY <2>1, <2>6, <2>7, <2>8, <2>9, <2>10, <2>11 DEF KeyInv, SureOK
<1>6. CASE Enable(w)
  <2>1. /\ cmd[w].at = "backed" /\ meta = 0
        /\ Commit(w, cmd[w].backup)
    BY <1>6 DEF Enable
  <2>2. cmd[w].backup \in Image /\ cmd[w].op = "enable"
    BY <2>1, <1>w DEF Command, BackupOK
  <2> QED
    BY <2>1, <2>2, <1>c, <1>w DEF BackupOK
<1>7. CASE Rotate(w)
  <2> DEFINE b == [key |-> meta, rows |-> stored]
  <2>1. cmd[w].at = "ready" /\ Commit(w, b)
    BY <1>7 DEF Rotate
  <2>2. b \in Image
    BY <1>a DEF Image, Keys, TypeOK
  <2>3. cmd[w].floor \subseteq b.rows
    BY <2>1, <1>w DEF HeldOK, Holding
  <2> QED
    BY <2>1, <2>2, <2>3, <1>c
<1>8. CASE OpenSettings(w)
  <2> DEFINE c == [cmd[w] EXCEPT !.at = "saving"]
  <2>1. /\ cmd[w] \in Command /\ cmd[w].at = "committed"
        /\ settings' = [there |-> TRUE, file |-> None]
        /\ cmd' = [cmd EXCEPT ![w] = c]
        /\ UNCHANGED <<stored, keys, made, meta, replaced, sure>>
    BY <1>8, <1>w DEF OpenSettings, vars
  <2>2. /\ c \in Command /\ c.at = "saving" /\ c.solo = cmd[w].solo
        /\ c.op = cmd[w].op /\ c.from = cmd[w].from /\ c.to = cmd[w].to
        /\ c.new = cmd[w].new /\ c.old = cmd[w].old
        /\ c.floor = cmd[w].floor
        /\ c.backup = cmd[w].backup /\ c.rewritten = cmd[w].rewritten
    BY <2>1 DEF Command
  <2>3. cmd'[w] = c /\ \A v \in Worker \ {w} : cmd'[v] = cmd[v]
    BY <1>a, <2>1
  <2> HIDE DEF c
  <2>4. \A v \in Worker \ {w} : HeldOK(v)' /\ BackupOK(v)' /\ AloneOK(v)'
    BY <2>1, <2>3, OtherCommands
  <2>5. HeldOK(w)' /\ BackupOK(w)' /\ AloneOK(w)'
    BY <2>1, <2>2, <2>3, <1>w
    DEF HeldOK, BackupOK, AloneOK, Holding, Committed
  <2>6. sure = 0
    BY <2>1 DEF KeyInv, SureOK
  <2>7. KeyTypeOK'
    BY <1>a, <2>1, <2>2 DEF KeyTypeOK, Settings
  <2>8. SureOK' /\ KeyAtHand'
    BY <2>1, <2>6 DEF KeyInv, SureOK, KeyAtHand
  <2> QED
    BY <2>4, <2>5, <2>7, <2>8 DEF KeyInv
<1>9. CASE WriteSettings(w)
  <2> DEFINE c == [cmd[w] EXCEPT !.at = "saved"]
  <2>1. /\ cmd[w] \in Command /\ cmd[w].at = "saving"
        /\ settings' = [there |-> TRUE, file |-> cmd[w].to]
        /\ sure' = IF cmd[w].solo THEN cmd[w].new ELSE 0
        /\ cmd' = [cmd EXCEPT ![w] = c]
        /\ UNCHANGED <<stored, keys, made, meta, replaced>>
    BY <1>9, <1>w DEF WriteSettings, vars
  <2>2. /\ c \in Command /\ c.at = "saved" /\ c.solo = cmd[w].solo
        /\ c.op = cmd[w].op /\ c.from = cmd[w].from /\ c.to = cmd[w].to
        /\ c.new = cmd[w].new /\ c.old = cmd[w].old
        /\ c.floor = cmd[w].floor
        /\ c.backup = cmd[w].backup /\ c.rewritten = cmd[w].rewritten
    BY <2>1 DEF Command
  <2>3. cmd'[w] = c /\ \A v \in Worker \ {w} : cmd'[v] = cmd[v]
    BY <1>a, <2>1
  <2>r. cmd[w].to \in KeyFile
    BY <2>1 DEF Command
  <2> HIDE DEF c
  <2>4. \A v \in Worker \ {w} : HeldOK(v)' /\ BackupOK(v)' /\ AloneOK(v)'
    BY <2>1, <2>3, OtherCommands
  <2>5. HeldOK(w)' /\ BackupOK(w)' /\ AloneOK(w)'
    BY <2>1, <2>2, <2>3, <1>w
    DEF HeldOK, BackupOK, AloneOK, Holding, Committed
  <2>6. /\ cmd[w].new \in 1..made
        /\ cmd[w].new \in replaced \/ keys[cmd[w].to] = cmd[w].new
        /\ cmd[w].solo => meta = cmd[w].new
        /\ cmd[w].solo => \A v \in Worker \ {w} : cmd[v].at = "idle"
    BY <2>1, <1>w DEF HeldOK, AloneOK, Holding
  <2>7. KeyTypeOK'
    <3>1. sure' \in 0..made
      BY <1>a, <2>1, <2>6
    <3> QED
      BY <1>a, <2>1, <2>2, <2>r, <3>1 DEF KeyTypeOK, Settings
  <2>8. SureOK'
    BY <2>1, <2>2, <2>3, <2>6 DEF SureOK
  <2>9. KeyAtHand'
    <3>1. meta \notin replaced \cup {0} => \E f \in KeyFile : keys[f] = meta
      BY DEF KeyInv, KeyAtHand
    <3>2. cmd[w].to # None
      BY <1>a, <2>r
    <3> QED
      BY <2>1, <2>6, <3>1, <3>2 DEF KeyAtHand
  <2> QED
    BY <2>4, <2>5, <2>7, <2>8, <2>9 DEF KeyInv
<1>10. CASE CommandEnds(w)
  <2>1. /\ cmd[w].at # "idle" /\ cmd' = [cmd EXCEPT ![w] = NotRunning]
        /\ UNCHANGED <<stored, keys, made, meta, settings, replaced, sure>>
    BY <1>10, <1>w DEF CommandEnds, vars
  <2>2. cmd'[w] = NotRunning
    BY <1>a, <2>1
  <2>3. HeldOK(w)' /\ BackupOK(w)'
    BY <2>2 DEF HeldOK, BackupOK, Holding, Committed, NotRunning
  <2> QED
    BY <2>1, <2>2, <2>3, QuietCommand DEF NotRunning
<1> QED
  BY <1>1, <1>2, <1>3, <1>4, <1>5, <1>6, <1>7, <1>8, <1>9, <1>10 DEF EncryptStep

(***************************************************************************)
(* Transfers.  What a transfer promises is in its bundle from the time it  *)
(* has written it, in what it has read back, and in what it stored, since  *)
(* whoever may still write the same bundle has read it too.                *)
(***************************************************************************)
Loaded == {"loaded", "context", "import", "copied", "ingested", "reloaded",
           "handed"}

Covers(c, l, es) == \A e \in es : c.label = l /\ e \in c.rows

CarriedOK(w) ==
    LET x == xfer[w] IN
    w \in Active =>
        /\ x.early \subseteq x.floor
        /\ x.floor \subseteq stored \cap RowsOf[x.label]
        /\ x.kind = "deliver" => x.early = {} /\ x.at \notin {"read", "open"}
        /\ x.at \notin {"read", "open"} /\ Bundle(w) \in Content =>
              Covers(Bundle(w), x.label, x.early)
        /\ x.at \in Loaded =>
              x.load \in Content /\ Covers(x.load, x.label, x.early)
        /\ x.at \in {"ingested", "reloaded", "handed"} =>
              {x.label} \X x.early \subseteq copies

Agree(w, v) ==
    w \in Active /\ v \in Writers(PathOf[xfer[w].label]) =>
        \A e \in xfer[w].early : /\ xfer[v].label = xfer[w].label
                                 /\ e \in xfer[v].floor

\* What a transfer has read, or what a delivery found.
Carries(x) == IF x.kind = "deliver" THEN x.load
              ELSE [label |-> x.label, rows |-> x.floor]

\* As long as it is alone, every file it has written says the same.
SoloOK(w) ==
    LET x == xfer[w]
        c == Carries(x)
    IN
    w \in Active /\ x.solo =>
        /\ \A v \in Worker \ {w} : v \notin Active
        /\ x.at = "open" => Bundle(w) = Empty
        /\ x.at = "written" /\ x.kind # "deliver" => Bundle(w) = c
        /\ x.at \in Loaded => x.load = c /\ Bundle(w) = c
        /\ x.at \in Loaded \ {"loaded"} => inbox["context"] = c
        /\ x.at \in Loaded \ {"loaded", "context"} => inbox["import"] = c
        /\ x.at \in {"copied", "ingested", "reloaded", "handed"} =>
              inbox["transfer"] = c
        /\ x.at \in {"ingested", "reloaded", "handed"} =>
              {c.label} \X c.rows \subseteq copies
        /\ x.at = "handed" => handoff = c

TransferInv ==
    /\ TransferTypeOK
    /\ \A w \in Worker : CarriedOK(w) /\ SoloOK(w)
    /\ \A w, v \in Worker : Agree(w, v)

(***************************************************************************)
(* Who is active.                                                          *)
(***************************************************************************)
LEMMA Transfers ==
    ASSUME TransferTypeOK, NEW w \in Worker
    PROVE  /\ w \in Active <=> xfer[w] \in Xfer
           /\ w \in Active <=> xfer[w].at \in Phases
           /\ xfer[w].at = "idle" => xfer[w] = NotBegun
           /\ xfer[w] \in {NotBegun, Gone} \cup Xfer
BY DEF TransferTypeOK, Active, NotBegun, Gone, Xfer, Phases

(***************************************************************************)
(* The other parts only add messages.                                      *)
(***************************************************************************)
LEMMA TransferUntouched ==
    ASSUME TransferInv, UNCHANGED transferVars, stored \subseteq stored'
    PROVE  TransferInv'
<1>1. /\ Active' = Active /\ \A p : Writers(p)' = Writers(p)
      /\ \A w : Bundle(w)' = Bundle(w)
  BY DEF transferVars, Active, Writers, Bundle
<1>2. TransferTypeOK'
  BY DEF TransferInv, transferVars, TransferTypeOK
<1>3. \A w \in Worker : CarriedOK(w)' /\ SoloOK(w)'
  BY <1>1 DEF TransferInv, transferVars, CarriedOK, SoloOK
<1>4. \A w, v \in Worker : Agree(w, v)'
  BY <1>1 DEF TransferInv, transferVars, Agree
<1> QED
  BY <1>2, <1>3, <1>4 DEF TransferInv

(***************************************************************************)
(* A step of one transfer, after its beginning: what it writes to a bundle *)
(* is what it has read, or nothing that can be parsed.                     *)
(***************************************************************************)
OwnWrite(w, p) ==
    \/ bundle'[p] = bundle[p]
    \/ bundle'[p] \notin Content
    \/ /\ xfer[w].kind # "deliver" /\ p = PathOf[xfer[w].label]
       /\ bundle'[p] = [label |-> xfer[w].label, rows |-> xfer[w].floor]

LEMMA OneTransfer ==
    ASSUME TransferInv, NEW w \in Active, NEW x \in Xfer \cup {Gone},
           xfer' = [xfer EXCEPT ![w] = x], stored' = stored,
           x # Gone => /\ x.kind = xfer[w].kind /\ x.label = xfer[w].label
                       /\ x.floor = xfer[w].floor /\ x.early = xfer[w].early
                       /\ x.solo = xfer[w].solo,
           copies \subseteq copies', copies' \subseteq Label \X Entry,
           bundle' \in [Path -> Content \cup {Empty, Mixed, None}],
           inbox' \in [Files -> Content \cup {Empty, Mixed, None}],
           handoff' \in Content \cup {None},
           \A p \in Path : OwnWrite(w, p),
           CarriedOK(w)', SoloOK(w)'
    PROVE  TransferInv'
<1>w. w \in Worker
  BY DEF Active
<1>1. /\ xfer'[w] = x
      /\ \A v \in Worker \ {w} : xfer'[v] = xfer[v]
  BY <1>w DEF TransferInv, TransferTypeOK
<1>2. TransferTypeOK'
  BY DEF TransferInv, TransferTypeOK
<1>3. \A v \in Worker : v \in Active' => v \in Active /\ xfer'[v] # Gone
  BY <1>1, <1>w DEF Active
<1>4. \A v \in Active' : /\ xfer'[v].kind = xfer[v].kind
                         /\ xfer'[v].label = xfer[v].label
                         /\ xfer'[v].floor = xfer[v].floor
                         /\ xfer'[v].early = xfer[v].early
  BY <1>1, <1>3 DEF Active
<1>5. \A v, u \in Worker : Agree(v, u)'
  <2> TAKE v, u \in Worker
  <2> SUFFICES ASSUME v \in Active', u \in Writers(PathOf[xfer[v].label])'
               PROVE  \A e \in xfer'[v].early :
                          /\ xfer'[u].label = xfer'[v].label
                          /\ e \in xfer'[u].floor
    BY DEF Agree
  <2>1. /\ u \in Active' /\ xfer'[u].kind # "deliver"
        /\ PathOf[xfer'[u].label] = PathOf[xfer'[v].label]
    BY DEF Writers
  <2>2. v \in Active /\ u \in Writers(PathOf[xfer[v].label])
    BY <2>1, <1>3, <1>4 DEF Writers
  <2> QED
    BY <2>1, <2>2, <1>4 DEF TransferInv, Agree
<1>6. ASSUME NEW v \in Worker \ {w} PROVE CarriedOK(v)' /\ SoloOK(v)'
  <2> DEFINE y == xfer[v]
             p == PathOf[xfer[v].label]
  <2>1. xfer'[v] = y /\ (v \in Active' => v \in Active)
    BY <1>1, <1>3
  <2>2. SoloOK(v)'
    BY <2>1, <1>w DEF TransferInv, SoloOK
  <2>3. CarriedOK(v)'
    <3> SUFFICES ASSUME v \in Active PROVE CarriedOK(v)'
      BY <2>1 DEF CarriedOK
    <3>1. y \in Xfer /\ p \in Path /\ CarriedOK(v) /\ Agree(v, w)
      <4>1. y \in Xfer
        BY Transfers DEF TransferInv
      <4> QED
        BY <4>1, <1>w, TransferAssumption
        DEF TransferInv, Xfer, TransferAssumption
    <3>2. ASSUME bundle'[p] \in Content, y.at \notin {"read", "open"}
          PROVE  Covers(bundle'[p], y.label, y.early)
      <4>1. CASE bundle'[p] = bundle[p]
        BY <3>1, <3>2, <4>1 DEF CarriedOK, Bundle
      <4>2. CASE /\ xfer[w].kind # "deliver" /\ p = PathOf[xfer[w].label]
                 /\ bundle'[p] = [label |-> xfer[w].label,
                                  rows |-> xfer[w].floor]
        <5>1. w \in Writers(p)
          BY <4>2 DEF Writers
        <5> QED
          BY <3>1, <4>2, <5>1 DEF Agree, Covers
      <4> QED
        BY <3>1, <3>2, <4>1, <4>2 DEF OwnWrite
    <3>3. Bundle(v)' = bundle'[p]
      BY <2>1 DEF Bundle
    <3> QED
      BY <2>1, <3>1, <3>2, <3>3 DEF CarriedOK
  <2> QED
    BY <2>2, <2>3
<1> QED
  BY <1>2, <1>5, <1>6 DEF TransferInv

(***************************************************************************)
(* A transfer begins.  It has read what the earlier ones promise, unless   *)
(* it is of another conversation; then they promise nothing any more.      *)
(***************************************************************************)
LEMMA OneBegins ==
    ASSUME TransferInv, NEW w \in Worker, NEW x \in Xfer, TransferBegins(w, x),
           UNCHANGED <<stored, bundle, inbox, handoff, copies>>,
           x.solo => Active = {},
           x.kind # "deliver" =>
               /\ x.floor = stored \cap RowsOf[x.label]
               /\ \A e \in x.early, v \in Writers(PathOf[x.label]) :
                     xfer[v].label = x.label /\ e \in xfer[v].floor,
           x.kind = "deliver" => x.early = {} /\ x.floor = {},
           x.early \subseteq x.floor,
           x.at = IF x.kind = "deliver" THEN "written" ELSE "read"
    PROVE  TransferInv'
<1>t. xfer \in [Worker -> {NotBegun, Gone} \cup Xfer]
  BY DEF TransferInv, TransferTypeOK
<1>1. /\ xfer[w] = NotBegun /\ w \notin Active
      /\ xfer'[w] = x
      /\ \A v \in Worker \ {w} :
            IF v \notin Active THEN xfer'[v] = xfer[v]
            ELSE xfer'[v] = [xfer[v] EXCEPT !.solo = FALSE,
                    !.early = IF /\ x.kind # "deliver" /\ xfer[v].label # x.label
                                 /\ PathOf[xfer[v].label] = PathOf[x.label]
                              THEN {} ELSE xfer[v].early]
  BY DEF TransferBegins, Active
<1>2. \A v \in Active :
         /\ v \in Worker \ {w} /\ xfer[v] \in Xfer /\ xfer'[v] \in Xfer
         /\ xfer'[v].kind = xfer[v].kind /\ xfer'[v].label = xfer[v].label
         /\ xfer'[v].at = xfer[v].at /\ xfer'[v].floor = xfer[v].floor
         /\ xfer'[v].load = xfer[v].load /\ xfer'[v].solo = FALSE
         /\ xfer'[v].early \subseteq xfer[v].early
         /\ /\ x.kind # "deliver" /\ xfer[v].label # x.label
            /\ PathOf[xfer[v].label] = PathOf[x.label]
            => xfer'[v].early = {}
  <2> TAKE v \in Active
  <2>1. v \in Worker \ {w} /\ xfer[v] \in Xfer
    BY <1>1, Transfers DEF TransferInv, Active
  <2>2. PICK b \in SUBSET xfer[v].early :
           /\ xfer'[v] = [xfer[v] EXCEPT !.solo = FALSE, !.early = b]
           /\ /\ x.kind # "deliver" /\ xfer[v].label # x.label
              /\ PathOf[xfer[v].label] = PathOf[x.label]
              => b = {}
    <3> DEFINE away == /\ x.kind # "deliver" /\ xfer[v].label # x.label
                       /\ PathOf[xfer[v].label] = PathOf[x.label]
               b == IF away THEN {} ELSE xfer[v].early
    <3>1. xfer'[v] = [xfer[v] EXCEPT !.solo = FALSE, !.early = b]
      BY <1>1, <2>1
    <3>2. b \in SUBSET xfer[v].early /\ (away => b = {})
      OBVIOUS
    <3> QED
      BY <3>1, <3>2
  <2>3. b \in SUBSET Entry
    BY <2>1, <2>2 DEF Xfer
  <2>4. /\ xfer'[v] \in Xfer
        /\ xfer'[v].kind = xfer[v].kind /\ xfer'[v].label = xfer[v].label
        /\ xfer'[v].at = xfer[v].at /\ xfer'[v].floor = xfer[v].floor
        /\ xfer'[v].load = xfer[v].load /\ xfer'[v].solo = FALSE
        /\ xfer'[v].early = b
    BY <2>1, <2>2, <2>3 DEF Xfer
  <2> QED
    BY <2>1, <2>2, <2>4
<1>3. /\ \A v \in Worker : v \in Active' <=> v = w \/ v \in Active
      /\ w \in Active'
  <2>1. NotBegun \notin Xfer /\ Gone \notin Xfer
    BY DEF Xfer, NotBegun, Gone, Phases
  <2>2. w \in Active'
    BY <1>1, <2>1 DEF Active
  <2>3. ASSUME NEW v \in Worker \ {w} PROVE v \in Active' <=> v \in Active
    <3>1. CASE v \in Active
      BY <1>2, <2>1, <3>1 DEF Active
    <3>2. CASE v \notin Active
      <4>1. xfer'[v] = xfer[v]
        BY <1>1, <3>2
      <4> QED
        BY <3>2, <4>1 DEF Active
    <3> QED
      BY <3>1, <3>2
  <2> QED
    BY <2>2, <2>3
<1>4. TransferTypeOK'
  <2>1. ASSUME NEW v \in Worker
        PROVE  xfer'[v] \in {NotBegun, Gone} \cup Xfer
    <3>1. CASE v \in Active
      BY <1>2, <3>1
    <3>2. CASE v = w
      BY <1>1, <3>2
    <3>3. CASE v \notin Active /\ v # w
      <4>1. xfer'[v] = xfer[v]
        BY <1>1, <3>3
      <4> QED
        BY <4>1, <1>t
    <3> QED
      BY <3>1, <3>2, <3>3
  <2>2. xfer' \in [Worker -> {NotBegun, Gone} \cup Xfer]
    BY <2>1 DEF TransferBegins
  <2> QED
    BY <2>2 DEF TransferInv, TransferTypeOK
<1>5. \A v \in Worker : SoloOK(v)'
  <2>1. \A v \in Worker \ {w} : SoloOK(v)'
    BY <1>2, <1>3 DEF SoloOK
  <2>2. SoloOK(w)'
    BY <1>1, <1>3 DEF SoloOK, Loaded
  <2> QED
    BY <2>1, <2>2
<1>6. \A v \in Worker : CarriedOK(v)'
  <2>1. CarriedOK(w)'
    <3>1. x.kind = "deliver" => Covers(Bundle(w)', x.label, x.early)
      BY DEF Covers
    <3> QED
      BY <1>1, <3>1 DEF CarriedOK, Loaded
  <2>2. ASSUME NEW v \in Worker \ {w} PROVE CarriedOK(v)'
    <3> SUFFICES ASSUME v \in Active PROVE CarriedOK(v)'
      BY <1>3 DEF CarriedOK
    <3>1. CarriedOK(v) /\ Bundle(v)' = Bundle(v)
      BY <1>2 DEF TransferInv, Bundle
    <3>2. \A c : Covers(c, xfer[v].label, xfer[v].early)
                 => Covers(c, xfer'[v].label, xfer'[v].early)
      BY <1>2 DEF Covers
    <3> QED
      BY <1>2, <3>1, <3>2 DEF CarriedOK
  <2> QED
    BY <2>1, <2>2
<1>7. \A v, u \in Worker : Agree(v, u)'
  <2> TAKE v, u \in Worker
  <2> SUFFICES ASSUME v \in Active', u \in Writers(PathOf[xfer[v].label])'
               PROVE  \A e \in xfer'[v].early :
                          /\ xfer'[u].label = xfer'[v].label
                          /\ e \in xfer'[u].floor
    BY DEF Agree
  <2>1. /\ u \in Active' /\ xfer'[u].kind # "deliver"
        /\ PathOf[xfer'[u].label] = PathOf[xfer'[v].label]
    BY DEF Writers
  <2>2. CASE v # w /\ u # w
    <3>1. v \in Active /\ u \in Writers(PathOf[xfer[v].label])
      BY <2>1, <2>2, <1>2, <1>3 DEF Writers
    <3> QED
      BY <3>1, <1>2 DEF TransferInv, Agree, Writers
  <2>3. CASE v = w /\ u # w
    <3>1. u \in Writers(PathOf[x.label])
      BY <2>1, <2>3, <1>1, <1>2, <1>3 DEF Writers
    <3>2. u \in Active
      BY <3>1 DEF Writers
    <3>3. \A e \in x.early : xfer[u].label = x.label /\ e \in xfer[u].floor
      BY <2>1, <2>3, <3>1, <1>1, <1>2, <3>2
    <3> QED
      BY <2>3, <3>2, <3>3, <1>1, <1>2
  <2>4. CASE v # w /\ u = w
    <3>1. v \in Active /\ x.kind # "deliver"
      BY <2>1, <2>4, <1>1, <1>3
    <3>2. xfer[v].early \subseteq stored \cap RowsOf[xfer[v].label]
      BY <3>1, <1>2 DEF TransferInv, CarriedOK
    <3>3. /\ x.kind # "deliver" /\ x.floor = stored \cap RowsOf[x.label]
          /\ PathOf[x.label] = PathOf[xfer[v].label]
          /\ xfer'[v].label = xfer[v].label
          /\ xfer'[v].early \subseteq xfer[v].early
      BY <2>1, <2>4, <3>1, <1>1, <1>2
    <3>4. CASE xfer[v].label = x.label
      BY <2>4, <3>2, <3>3, <3>4, <1>1
    <3>5. CASE xfer[v].label # x.label
      <4>1. xfer'[v].early = {}
        BY <3>1, <3>3, <3>5, <1>2
      <4> QED
        BY <4>1
    <3> QED
      BY <3>4, <3>5
  <2>5. CASE v = w /\ u = w
    BY <2>5, <1>1
  <2> QED
    BY <2>2, <2>3, <2>4, <2>5
<1> QED
  BY <1>4, <1>5, <1>6, <1>7 DEF TransferInv

(***************************************************************************)
(* Every step of every transfer keeps that.                                *)
(***************************************************************************)
LEMMA TransferKeeps ==
    ASSUME TypeOK, TransferInv, NEW w \in Worker, TransferStep(w)
    PROVE  TransferInv'
<1>t. /\ xfer \in [Worker -> {NotBegun, Gone} \cup Xfer]
      /\ bundle \in [Path -> Content \cup {Empty, Mixed, None}]
      /\ inbox \in [Files -> Content \cup {Empty, Mixed, None}]
      /\ handoff \in Content \cup {None} /\ copies \subseteq Label \X Entry
      /\ stored \subseteq Entry
  BY DEF TransferInv, TransferTypeOK, TypeOK
<1>p. /\ RowsOf \in [Label -> SUBSET Entry] /\ PathOf \in [Label -> Path]
      /\ Empty \notin Content /\ Mixed \notin Content
  BY TransferAssumption DEF TransferAssumption
<1>w. /\ CarriedOK(w) /\ SoloOK(w)
      /\ xfer[w].at \in Phases => w \in Active /\ xfer[w] \in Xfer
      /\ w \in Active => xfer[w] \in Xfer
  BY Transfers DEF TransferInv
<1>o. ASSUME bundle' = bundle PROVE \A p \in Path : OwnWrite(w, p)
  BY <1>o DEF OwnWrite
<1>1. CASE ReadRows(w)
  <2>1. PICK k \in Kinds \ {"deliver"}, l \in Label :
          LET rows == stored \cap RowsOf[l] IN
          TransferBegins(w,
              [kind |-> k, label |-> l, at |-> "read", floor |-> rows,
               early |-> {e \in rows : \A v \in Writers(PathOf[l]) :
                              xfer[v].label = l /\ e \in xfer[v].floor},
               solo |-> Active = {}, load |-> None])
    BY <1>1 DEF ReadRows
  <2> DEFINE rows == stored \cap RowsOf[l]
             early == {e \in rows : \A v \in Writers(PathOf[l]) :
                              xfer[v].label = l /\ e \in xfer[v].floor}
             x == [kind |-> k, label |-> l, at |-> "read", floor |-> rows,
                   early |-> early, solo |-> Active = {}, load |-> None]
  <2>2. TransferBegins(w, x)
    BY <2>1
  <2>3. rows \subseteq Entry /\ early \subseteq rows
    BY <1>t
  <2>4. \A e \in early, v \in Writers(PathOf[l]) :
           xfer[v].label = l /\ e \in xfer[v].floor
    OBVIOUS
  <2>5. UNCHANGED <<stored, bundle, inbox, handoff, copies>>
    BY <1>1 DEF ReadRows, vars
  <2> HIDE DEF early
  <2>6. /\ x \in Xfer /\ x.kind = k /\ x.label = l /\ x.at = "read"
        /\ x.floor = rows /\ x.early = early /\ (x.solo => Active = {})
    BY <2>3 DEF Xfer, Phases
  <2> HIDE DEF x
  <2> QED
    BY <2>2, <2>3, <2>4, <2>5, <2>6, OneBegins
<1>2. CASE FindBundle(w)
  <2>1. PICK l \in Label :
          TransferBegins(w,
                [kind |-> "deliver", label |-> l, at |-> "written",
                 floor |-> {}, early |-> {}, solo |-> Active = {},
                 load |-> None])
    BY <1>2 DEF FindBundle
  <2> DEFINE x == [kind |-> "deliver", label |-> l, at |-> "written",
                   floor |-> {}, early |-> {}, solo |-> Active = {},
                   load |-> None]
  <2>2. TransferBegins(w, x)
    BY <2>1
  <2>3. UNCHANGED <<stored, bundle, inbox, handoff, copies>>
    BY <1>2 DEF FindBundle, vars
  <2>4. /\ x \in Xfer /\ x.kind = "deliver" /\ x.at = "written"
        /\ x.floor = {} /\ x.early = {} /\ (x.solo => Active = {})
    BY DEF Xfer, Phases, Kinds
  <2> HIDE DEF x
  <2> QED
    BY <2>2, <2>3, <2>4, OneBegins
<1>m. ASSUME NEW x \in Xfer \cup {Gone}, xfer' = [xfer EXCEPT ![w] = x]
      PROVE  xfer'[w] = x
  BY <1>m, <1>t
<1>3. CASE OpenBundle(w)
  <2> DEFINE x == [xfer[w] EXCEPT !.at = "open"]
             p == PathOf[xfer[w].label]
  <2>1. /\ xfer[w].at = "read" /\ w \in Active /\ xfer[w] \in Xfer
        /\ xfer' = [xfer EXCEPT ![w] = x]
        /\ bundle' = [bundle EXCEPT ![p] = Empty]
        /\ UNCHANGED <<stored, inbox, handoff, copies>>
    BY <1>3, <1>w DEF OpenBundle, vars, Phases
  <2>2. /\ x \in Xfer /\ x.at = "open"
        /\ x.kind = xfer[w].kind /\ x.label = xfer[w].label
        /\ x.floor = xfer[w].floor /\ x.early = xfer[w].early
        /\ x.solo = xfer[w].solo /\ x.load = xfer[w].load
    BY <2>1 DEF Xfer, Phases
  <2> HIDE DEF x
  <2>3. xfer'[w] = x
    BY <2>1, <2>2, <1>m
  <2>4. p \in Path
    BY <2>1, <1>p DEF Xfer
  <2>5. /\ bundle' \in [Path -> Content \cup {Empty, Mixed, None}]
        /\ bundle'[p] = Empty
        /\ \A q \in Path : OwnWrite(w, q)
    BY <2>1, <2>4, <1>t, <1>p DEF OwnWrite
  <2>6. Bundle(w)' = Empty
    BY <2>2, <2>3, <2>5 DEF Bundle
  <2>7. CarriedOK(w)'
    BY <2>1, <2>2, <2>3, <1>w DEF CarriedOK, Loaded
  <2>8. SoloOK(w)'
    <3>1. \A v \in Worker \ {w} : v \in Active' => v \in Active
      BY <2>1, <1>t DEF Active
    <3> QED
      BY <2>1, <2>2, <2>3, <2>6, <3>1, <1>w DEF SoloOK, Loaded
  <2> QED
    BY <2>1, <2>2, <2>5, <2>7, <2>8, <1>t, OneTransfer
<1>4. CASE WriteBundle(w)
  <2> DEFINE x == [xfer[w] EXCEPT !.at = "written"]
             p == PathOf[xfer[w].label]
             own == [label |-> xfer[w].label, rows |-> xfer[w].floor]
  <2>1. /\ xfer[w].at = "open" /\ w \in Active /\ xfer[w] \in Xfer
        /\ xfer' = [xfer EXCEPT ![w] = x]
        /\ UNCHANGED <<stored, inbox, handoff, copies>>
    BY <1>4, <1>w DEF WriteBundle, vars, Phases
  <2>2. PICK c \in {own, Mixed} :
           /\ bundle[p] = Empty => c # Mixed
           /\ bundle' = [bundle EXCEPT ![p] = c]
    BY <1>4 DEF WriteBundle
  <2>3. /\ x \in Xfer /\ x.at = "written"
        /\ x.kind = xfer[w].kind /\ x.label = xfer[w].label
        /\ x.floor = xfer[w].floor /\ x.early = xfer[w].early
        /\ x.solo = xfer[w].solo /\ x.load = xfer[w].load
    BY <2>1 DEF Xfer, Phases
  <2> HIDE DEF x
  <2>4. xfer'[w] = x
    BY <2>1, <2>3, <1>m
  <2>5. p \in Path /\ own \in Content
    BY <2>1, <1>p DEF Xfer, Content
  <2>6. xfer[w].kind # "deliver"
    BY <2>1, <1>w DEF CarriedOK
  <2>7. /\ bundle' \in [Path -> Content \cup {Empty, Mixed, None}]
        /\ bundle'[p] = c
        /\ \A q \in Path : OwnWrite(w, q)
    BY <2>1, <2>2, <2>5, <2>6, <1>t, <1>p DEF OwnWrite
  <2>8. Bundle(w)' = c
    BY <2>3, <2>4, <2>7 DEF Bundle
  <2>9. CarriedOK(w)'
    <3>1. c = own => Covers(c, xfer[w].label, xfer[w].early)
      BY <2>1, <1>w DEF CarriedOK, Covers
    <3> QED
      BY <2>1, <2>2, <2>3, <2>4, <2>6, <2>8, <3>1, <1>w, <1>p
      DEF CarriedOK, Loaded
  <2>10. SoloOK(w)'
    <3>1. \A v \in Worker \ {w} : v \in Active' => v \in Active
      BY <2>1, <1>t DEF Active
    <3>2. xfer[w].solo => c = own
      BY <2>1, <2>2, <1>w DEF SoloOK, Bundle
    <3>3. Carries(x) = own
      BY <2>3, <2>6 DEF Carries
    <3> QED
      BY <2>1, <2>3, <2>4, <2>8, <3>1, <3>2, <3>3, <1>w DEF SoloOK, Loaded
  <2> QED
    BY <2>1, <2>3, <2>7, <2>9, <2>10, <1>t, OneTransfer
<1>5. CASE TransferEnds(w)
  <2>1. /\ w \in Active /\ xfer' = [xfer EXCEPT ![w] = Gone]
        /\ UNCHANGED <<stored, bundle, inbox, handoff, copies>>
    BY <1>5 DEF TransferEnds, vars
  <2>2. w \notin Active'
    BY <2>1, <1>m DEF Active
  <2>3. CarriedOK(w)' /\ SoloOK(w)'
    BY <2>2 DEF CarriedOK, SoloOK
  <2> QED
    BY <2>1, <2>3, <1>o, <1>t, OneTransfer
\* The steps that read the bundle back, and what follows.
<1> DEFINE x(at, c) == [xfer[w] EXCEPT !.at = at, !.load = c]
<1>r. ASSUME NEW at \in Loaded, NEW c \in Content, w \in Active,
             xfer' = [xfer EXCEPT ![w] = x(at, c)],
             xfer[w].at \notin {"read", "open"},
             UNCHANGED <<stored, bundle>>,
             copies \subseteq copies', copies' \subseteq Label \X Entry,
             inbox' \in [Files -> Content \cup {Empty, Mixed, None}],
             handoff' \in Content \cup {None},
             Covers(c, xfer[w].label, xfer[w].early),
             at \in {"ingested", "reloaded", "handed"} =>
                 {xfer[w].label} \X xfer[w].early \subseteq copies',
             xfer[w].solo =>
                 /\ Bundle(w) = c
                 /\ xfer[w].kind # "deliver" => c = Carries(xfer[w])
                 /\ at # "loaded" => inbox'["context"] = c
                 /\ at \notin {"loaded", "context"} => inbox'["import"] = c
                 /\ at \notin {"loaded", "context", "import"} =>
                       inbox'["transfer"] = c
                 /\ at \in {"ingested", "reloaded", "handed"} =>
                       {c.label} \X c.rows \subseteq copies'
                 /\ at = "handed" => handoff' = c
      PROVE  TransferInv'
  <2> DEFINE y == x(at, c)
  <2>1. /\ y \in Xfer /\ y.at = at /\ y.load = c
        /\ y.kind = xfer[w].kind /\ y.label = xfer[w].label
        /\ y.floor = xfer[w].floor /\ y.early = xfer[w].early
        /\ y.solo = xfer[w].solo
    <3>1. xfer[w] \in Xfer /\ at \in Phases
      BY <1>r, <1>w DEF Loaded, Phases
    <3> QED
      BY <3>1 DEF Xfer
  <2>2. xfer' = [xfer EXCEPT ![w] = y]
    BY <1>r
  <2> HIDE DEF y, x
  <2>3. xfer'[w] = y
    BY <2>1, <2>2, <1>m
  <2>4. Bundle(w)' = Bundle(w)
    BY <1>r, <2>1, <2>3 DEF Bundle
  <2>5. at \notin {"idle", "gone", "read", "open", "written"}
    BY DEF Loaded
  <2>6. CarriedOK(w)'
    BY <1>r, <1>w, <2>1, <2>3, <2>4, <2>5 DEF CarriedOK
  <2>7. SoloOK(w)'
    <3>1. \A v \in Worker \ {w} : v \in Active' => v \in Active
      BY <2>2, <1>t DEF Active
    <3>2. xfer[w].solo => \A v \in Worker \ {w} : v \notin Active'
      BY <1>r, <3>1, <1>w DEF SoloOK
    <3>3. xfer[w].solo => Carries(y) = c
      BY <1>r, <2>1 DEF Carries
    <3> QED
      BY <1>r, <2>1, <2>3, <2>4, <2>5, <3>2, <3>3 DEF SoloOK, Loaded
  <2>8. bundle' \in [Path -> Content \cup {Empty, Mixed, None}]
    BY <1>r, <1>t
  <2>9. \A p \in Path : OwnWrite(w, p)
    BY <1>r, <1>o
  <2> QED
    BY <1>r, <2>1, <2>2, <2>6, <2>7, <2>8, <2>9, OneTransfer
<1>6. CASE Load(w)
  <2>1. /\ xfer[w].at = "written" /\ w \in Active /\ xfer[w] \in Xfer
        /\ Bundle(w) \in Content
        /\ xfer' = [xfer EXCEPT ![w].at = "loaded", ![w].load = Bundle(w)]
        /\ UNCHANGED <<stored, bundle, inbox, handoff, copies>>
    BY <1>6, <1>w DEF Load, vars, Phases
  <2>2. xfer' = [xfer EXCEPT ![w] = x("loaded", Bundle(w))]
    BY <2>1
  <2> HIDE DEF x
  <2>3. Covers(Bundle(w), xfer[w].label, xfer[w].early)
    BY <2>1, <1>w DEF CarriedOK
  <2>4. /\ xfer[w].solo /\ xfer[w].kind # "deliver"
        => Bundle(w) = Carries(xfer[w])
    BY <2>1, <1>w DEF SoloOK
  <2>5. "loaded" \in Loaded
    BY DEF Loaded
  <2> QED
    BY <2>1, <2>2, <2>3, <2>4, <2>5, <1>t, <1>r
\* What has been read back so far is in memory.
<1>l. ASSUME xfer[w].at \in Loaded
      PROVE  /\ w \in Active /\ xfer[w] \in Xfer /\ xfer[w].load \in Content
             /\ Covers(xfer[w].load, xfer[w].label, xfer[w].early)
             /\ \A at \in Loaded :
                   [xfer EXCEPT ![w].at = at]
                      = [xfer EXCEPT ![w] = x(at, xfer[w].load)]
             /\ xfer[w].solo =>
                   /\ Bundle(w) = xfer[w].load
                   /\ xfer[w].kind # "deliver" =>
                         xfer[w].load = Carries(xfer[w])
  <2>1. /\ w \in Active /\ xfer[w] \in Xfer /\ xfer[w].load \in Content
        /\ Covers(xfer[w].load, xfer[w].label, xfer[w].early)
    BY <1>l, <1>w DEF CarriedOK, Loaded, Phases
  <2>2. \A at \in Loaded : [xfer[w] EXCEPT !.at = at] = x(at, xfer[w].load)
    BY <2>1 DEF Xfer
  <2>3. \A at \in Loaded : [xfer EXCEPT ![w].at = at]
                              = [xfer EXCEPT ![w] = x(at, xfer[w].load)]
    BY <2>2
  <2> QED
    BY <2>1, <2>3, <1>l, <1>w DEF SoloOK
<1>7. CASE WriteInbox(w)
  <2> DEFINE f == IF xfer[w].at = "loaded" THEN "context" ELSE "import"
             c == xfer[w].load
  <2>1. /\ xfer[w].at \in {"loaded", "context"}
        /\ inbox' = [inbox EXCEPT ![f] = c]
        /\ xfer' = [xfer EXCEPT ![w].at = f]
        /\ UNCHANGED <<stored, bundle, handoff, copies>>
    BY <1>7 DEF WriteInbox, vars
  <2>2. xfer[w].at \in Loaded /\ f \in Loaded
    BY <2>1 DEF Loaded
  <2>3. /\ w \in Active /\ c \in Content
        /\ Covers(c, xfer[w].label, xfer[w].early)
        /\ xfer' = [xfer EXCEPT ![w] = x(f, c)]
        /\ xfer[w].solo => /\ Bundle(w) = c
                           /\ xfer[w].kind # "deliver" => c = Carries(xfer[w])
    BY <2>1, <2>2, <1>l
  <2>4. inbox' \in [Files -> Content \cup {Empty, Mixed, None}]
    BY <2>1, <2>3, <1>t
  <2>5. /\ inbox'[f] = c
        /\ xfer[w].solo /\ f = "import" => inbox'["context"] = c
    BY <2>1, <2>2, <2>3, <1>t, <1>w DEF Files, SoloOK
  <2>6. f \in {"context", "import"}
    OBVIOUS
  <2> HIDE DEF f, c, x
  <2> QED
    BY <2>1, <2>2, <2>3, <2>4, <2>5, <2>6, <1>t, <1>r
<1>8. CASE CopyBundle(w)
  <2> DEFINE c == xfer[w].load
  <2>1. /\ xfer[w].at = "import"
        /\ inbox' = [inbox EXCEPT !["transfer"] = Bundle(w)]
        /\ xfer' = [xfer EXCEPT ![w].at = "copied"]
        /\ UNCHANGED <<stored, bundle, handoff, copies>>
    BY <1>8 DEF CopyBundle, vars
  <2>2. xfer[w].at \in Loaded /\ "copied" \in Loaded
    BY <2>1 DEF Loaded
  <2>3. /\ w \in Active /\ xfer[w] \in Xfer /\ c \in Content
        /\ Covers(c, xfer[w].label, xfer[w].early)
        /\ xfer' = [xfer EXCEPT ![w] = x("copied", c)]
        /\ xfer[w].solo => /\ Bundle(w) = c
                           /\ xfer[w].kind # "deliver" => c = Carries(xfer[w])
    BY <2>1, <2>2, <1>l
  <2>4. /\ inbox' \in [Files -> Content \cup {Empty, Mixed, None}]
        /\ inbox'["transfer"] = Bundle(w)
        /\ inbox'["context"] = inbox["context"]
        /\ inbox'["import"] = inbox["import"]
    <3>1. Bundle(w) \in Content \cup {Empty, Mixed, None}
      BY <2>3, <1>t, <1>p DEF Bundle, Xfer
    <3> QED
      BY <2>1, <3>1, <1>t DEF Files
  <2>5. xfer[w].solo => inbox["context"] = c /\ inbox["import"] = c
    BY <2>1, <2>2, <2>3, <1>w DEF SoloOK
  <2> HIDE DEF c, x
  <2> QED
    BY <2>1, <2>2, <2>3, <2>4, <2>5, <1>t, <1>r
<1>9. CASE IngestBundle(w)
  <2> DEFINE c == xfer[w].load
  <2>1. /\ xfer[w].at = "copied"
        /\ copies' = copies \cup ({c.label} \X c.rows)
        /\ xfer' = [xfer EXCEPT ![w].at = "ingested"]
        /\ UNCHANGED <<stored, bundle, inbox, handoff>>
    BY <1>9 DEF IngestBundle, vars
  <2>2. xfer[w].at \in Loaded /\ "ingested" \in Loaded
    BY <2>1 DEF Loaded
  <2>3. /\ w \in Active /\ xfer[w] \in Xfer /\ c \in Content
        /\ Covers(c, xfer[w].label, xfer[w].early)
        /\ xfer' = [xfer EXCEPT ![w] = x("ingested", c)]
        /\ xfer[w].solo => /\ Bundle(w) = c
                           /\ xfer[w].kind # "deliver" => c = Carries(xfer[w])
    BY <2>1, <2>2, <1>l
  <2>4. /\ copies \subseteq copies' /\ copies' \subseteq Label \X Entry
        /\ {c.label} \X c.rows \subseteq copies'
    BY <2>1, <2>3, <1>t DEF Content
  <2>5. {xfer[w].label} \X xfer[w].early \subseteq copies'
    BY <2>3, <2>4 DEF Covers
  <2>6. xfer[w].solo => \A f \in Files : inbox[f] = c
    BY <2>1, <2>2, <2>3, <1>w DEF SoloOK, Files
  <2> HIDE DEF c, x
  <2> QED
    BY <2>1, <2>2, <2>3, <2>4, <2>5, <2>6, <1>t, <1>r DEF Files
<1>10. CASE Reload(w)
  <2>1. /\ xfer[w].at = "ingested" /\ Bundle(w) \in Content
        /\ xfer' = [xfer EXCEPT ![w].at = "reloaded", ![w].load = Bundle(w)]
        /\ UNCHANGED <<stored, bundle, inbox, handoff, copies>>
    BY <1>10 DEF Reload, vars
  <2>2. xfer[w].at \in Loaded /\ "reloaded" \in Loaded
    BY <2>1 DEF Loaded
  <2>3. xfer' = [xfer EXCEPT ![w] = x("reloaded", Bundle(w))]
    BY <2>1
  <2>4. w \in Active
    BY <2>2, <1>l
  <2> HIDE DEF x
  <2>5. /\ Covers(Bundle(w), xfer[w].label, xfer[w].early)
        /\ {xfer[w].label} \X xfer[w].early \subseteq copies
    BY <2>1, <2>4, <1>w DEF CarriedOK
  <2>6. xfer[w].solo =>
           /\ xfer[w].kind # "deliver" => Bundle(w) = Carries(xfer[w])
           /\ inbox["context"] = Bundle(w) /\ inbox["import"] = Bundle(w)
           /\ inbox["transfer"] = Bundle(w)
           /\ {Bundle(w).label} \X Bundle(w).rows \subseteq copies
    <3>1. xfer[w].solo => xfer[w].load = Carries(xfer[w])
                          /\ Bundle(w) = Carries(xfer[w])
      BY <2>2, <2>4, <1>w DEF SoloOK
    <3> QED
      BY <2>1, <2>2, <2>4, <3>1, <1>w DEF SoloOK
  <2> QED
    BY <2>1, <2>2, <2>3, <2>4, <2>5, <2>6, <1>t, <1>r
<1>11. CASE WriteHandoff(w)
  <2> DEFINE c == xfer[w].load
  <2>1. /\ xfer[w].at = "reloaded" /\ handoff' = c
        /\ xfer' = [xfer EXCEPT ![w].at = "handed"]
        /\ UNCHANGED <<stored, bundle, inbox, copies>>
    BY <1>11 DEF WriteHandoff, vars
  <2>2. xfer[w].at \in Loaded /\ "handed" \in Loaded
    BY <2>1 DEF Loaded
  <2>3. /\ w \in Active /\ c \in Content
        /\ Covers(c, xfer[w].label, xfer[w].early)
        /\ xfer' = [xfer EXCEPT ![w] = x("handed", c)]
        /\ xfer[w].solo => /\ Bundle(w) = c
                           /\ xfer[w].kind # "deliver" => c = Carries(xfer[w])
    BY <2>1, <2>2, <1>l
  <2>4. {xfer[w].label} \X xfer[w].early \subseteq copies
    BY <2>1, <2>3, <1>w DEF CarriedOK
  <2>5. xfer[w].solo => /\ inbox["context"] = c /\ inbox["import"] = c
                        /\ inbox["transfer"] = c
                        /\ {c.label} \X c.rows \subseteq copies
    BY <2>1, <2>2, <2>3, <1>w DEF SoloOK
  <2> HIDE DEF c, x
  <2> QED
    BY <2>1, <2>2, <2>3, <2>4, <2>5, <1>t, <1>r
<1> QED
  BY <1>1, <1>2, <1>3, <1>4, <1>5, <1>6, <1>7, <1>8, <1>9, <1>10, <1>11
  DEF TransferStep

(***************************************************************************)
(* What the invariant says of transfers that have returned.                *)
(***************************************************************************)
LEMMA TransferFollows ==
    ASSUME TransferInv
    PROVE  TransferWhole /\ InboxAgrees
<1> SUFFICES ASSUME NEW w \in Worker, HasReturned(xfer[w])
             PROVE  /\ xfer[w].kind \in {"go", "resume"} =>
                          {xfer[w].label} \X xfer[w].early \subseteq copies
                    /\ xfer[w].solo =>
                          LET c == Carries(xfer[w]) IN
                          /\ bundle[PathOf[xfer[w].label]] = c
                          /\ Delivers(xfer[w]) =>
                                /\ \A f \in Files : inbox[f] = c
                                /\ {c.label} \X c.rows \subseteq copies
                          /\ xfer[w].kind = "resume" => handoff = c
  BY DEF TransferWhole, InboxAgrees, Carries
<1>1. w \in Active /\ xfer[w] \in Xfer /\ xfer[w].at = LastPhase[xfer[w].kind]
  BY Transfers DEF HasReturned, Active, TransferInv
<1>2. /\ xfer[w].kind \in {"go", "deliver"} => xfer[w].at = "ingested"
      /\ xfer[w].kind = "resume" => xfer[w].at = "handed"
      /\ xfer[w].kind = "transfer" => xfer[w].at = "written"
      /\ xfer[w].kind \in {"go", "deliver", "resume", "transfer"}
  BY <1>1 DEF LastPhase, Xfer, Kinds
<1>3. CarriedOK(w) /\ SoloOK(w)
  BY DEF TransferInv
<1>4. xfer[w].kind \in {"go", "resume"} =>
         {xfer[w].label} \X xfer[w].early \subseteq copies
  BY <1>1, <1>2, <1>3 DEF CarriedOK
<1>5. ASSUME xfer[w].solo
      PROVE  LET c == Carries(xfer[w]) IN
             /\ bundle[PathOf[xfer[w].label]] = c
             /\ Delivers(xfer[w]) =>
                   /\ \A f \in Files : inbox[f] = c
                   /\ {c.label} \X c.rows \subseteq copies
             /\ xfer[w].kind = "resume" => handoff = c
  BY <1>1, <1>2, <1>3, <1>5 DEF SoloOK, Loaded, Files, Delivers, Bundle
<1> QED
  BY <1>4, <1>5

(***************************************************************************)
(* Searches.  Whatever has a vector is stored.                             *)
(***************************************************************************)
EmbedsStored ==
    /\ Embedded \subseteq stored
    /\ \A w \in Worker : job[w].op = "embed" => job[w].todo \subseteq stored

LEMMA EmbedsStep ==
    ASSUME TypeOK, EmbedsStored, NEW w \in Worker, Work(w)
    PROVE  EmbedsStored'
<1>0. /\ \A v \in Worker \ {w} : job'[v] = job[v]
      /\ stored \subseteq stored'
  BY Others
<1>k. /\ job \in [Worker -> Jobs]
      /\ job[w].op = "sync" => job[w] \in SyncJob
      /\ job[w].op = "import" => job[w] \in ImportJob
      /\ job[w].op = "compress" => job[w] \in CompressJob
      /\ job[w].op = "embed" => job[w] \in EmbedJob
      /\ job[w].op = "catalog" => job[w] \in CatalogJob
  BY JobKinds DEF TypeOK, Jobs
<1>q. ASSUME vec' = vec, job'[w].op = "embed" => job'[w].todo \subseteq stored'
      PROVE  EmbedsStored'
  BY <1>0, <1>q DEF EmbedsStored, Embedded
<1>1. CASE EmbedBegin(w)
  <2>1. PICK b \in Backend :
           job'[w] = [op |-> "embed", floor |-> stored, todo |-> stored,
                      backend |-> b]
    BY <1>1, <1>k DEF EmbedBegin, Begins
  <2> QED
    BY <1>1, <2>1, <1>q DEF EmbedBegin
<1>2. CASE \E e \in Entry : SaveEmbedding(w, e)
  <2>0. PICK e \in Entry : SaveEmbedding(w, e)
    BY <1>2
  <2>1. /\ job[w] \in EmbedJob /\ job[w].op = "embed" /\ e \in job[w].todo
        /\ vec' = [vec EXCEPT ![e] = job[w].backend] /\ stored' = stored
    BY <2>0, <1>k DEF SaveEmbedding
  <2>2. job'[w].todo = job[w].todo \ {e}
    BY <2>0, <2>1, <1>k DEF SaveEmbedding, EmbedJob
  <2>3. Embedded' \subseteq Embedded \cup {e}
    BY <2>1 DEF Embedded, TypeOK
  <2> QED
    BY <2>1, <2>2, <2>3, <1>0 DEF EmbedsStored
<1>3. CASE \/ SyncBegin(w) \/ ImportBegin(w) \/ CompressBegin(w)
           \/ RebuildBegin(w) \/ End(w)
  <2>1. vec' = vec
    BY <1>3
    DEF SyncBegin, ImportBegin, CompressBegin, RebuildBegin, End
  <2>2. job'[w].op # "embed"
    BY <1>3, <1>k
    DEF SyncBegin, ImportBegin, CompressBegin, RebuildBegin, End, Begins, Idle
  <2> QED
    BY <2>1, <2>2, <1>q
<1>4. CASE IngestFile(w) \/ ImportMessages(w) \/ WriteCatalog(w)
  <2>1. job[w].op \in {"sync", "import", "catalog"} /\ vec' = vec
    BY <1>4 DEF IngestFile, ImportMessages, WriteCatalog
  <2>2. job[w] \in SyncJob \cup ImportJob \cup CatalogJob
    BY <2>1, <1>k
  <2>3. job'[w].op = job[w].op
    BY <1>4, <2>2, <1>k
    DEF IngestFile, ImportMessages, WriteCatalog, SyncJob, ImportJob, CatalogJob
  <2> QED
    BY <2>1, <2>3, <1>q
<1>5. CASE \E c \in Conv : \/ Parse(w, c) \/ FileFails(w, c)
                            \/ ImportSummary(w, c) \/ SummaryFails(w, c)
                            \/ Compress(w, c) \/ ReadStats(w, c)
  <2>0. PICK c \in Conv : \/ Parse(w, c) \/ FileFails(w, c)
                           \/ ImportSummary(w, c) \/ SummaryFails(w, c)
                           \/ Compress(w, c) \/ ReadStats(w, c)
    BY <1>5
  <2>1. /\ job[w].op \in {"sync", "import", "compress", "catalog"}
        /\ vec' = vec
    BY <2>0
    DEF Parse, FileFails, ImportSummary, SummaryFails, Compress, ReadStats
  <2>2. job[w] \in SyncJob \cup ImportJob \cup CompressJob \cup CatalogJob
    BY <2>1, <1>k
  <2>3. job'[w].op = job[w].op
    BY <2>0, <2>2, <1>k
    DEF Parse, FileFails, ImportSummary, SummaryFails, Compress, ReadStats,
        SyncJob, ImportJob, CompressJob, CatalogJob
  <2> QED
    BY <2>1, <2>3, <1>q
<1> QED
  BY <1>1, <1>2, <1>3, <1>4, <1>5 DEF Work

(***************************************************************************)
(* What a search counted is still there when it selects and reads.  Only   *)
(* the exact search of one project for a role may find less: it filters by *)
(* a role that it has not read.                                            *)
(***************************************************************************)
AskOK(w) ==
    LET a == ask[w] IN
    /\ a.at \in {"counted", "selected"} =>
          a.floor \subseteq Embedded \cap InScope(a.scope)
    /\ a.at = "selected" =>
          /\ a.used = "indexed"
          /\ a.candidates \subseteq Embedded
          /\ \/ a.floor \cap a.matching \subseteq a.candidates
             \/ Cardinality(a.candidates) = Limit

SearchInv == /\ ask \in [Worker -> {NotAsking} \cup Ask \cup Answer]
             /\ \A w \in Worker : AskOK(w)
             /\ "role" \notin Scopes => FullRecall

LEMMA SearchUntouched ==
    ASSUME TypeOK, SearchInv, ask' = ask,
           \A e \in Entry : vec[e] # None => vec'[e] # None
    PROVE  SearchInv'
<1>1. Embedded \subseteq Embedded'
  BY DEF Embedded
<1> QED
  BY <1>1 DEF SearchInv, AskOK, FullRecall

LEMMA SearchKeeps ==
    ASSUME TypeOK, EmbedsStored, SearchInv, NEW w \in Worker, Search(w)
    PROVE  SearchInv'
<1> DEFINE a == ask[w]
<1>a. /\ ask \in [Worker -> {NotAsking} \cup Ask \cup Answer]
      /\ AskOK(w) /\ UNCHANGED <<stored, vec>>
      /\ stored \subseteq Entry /\ Embedded \subseteq stored
      /\ Limit \in Nat \ {0} /\ Threshold \in Nat
  BY SearchAssumption
  DEF SearchInv, Search, Count, Select, NoCandidates, Fetch, EndSearch, vars,
      TypeOK, EmbedsStored, SearchAssumption
<1>e. Embedded' = Embedded
  BY <1>a DEF Embedded
<1>k. /\ a.at \in {"counted", "selected"} => a \in Ask
      /\ a.at = "answered" => a \in Answer
  BY <1>a DEF NotAsking, Ask, Answer
<1>o. ASSUME NEW b \in {NotAsking} \cup Ask \cup Answer,
             ask' = [ask EXCEPT ![w] = b],
             b.at \in {"counted", "selected"} =>
                 b.floor \subseteq Embedded \cap InScope(b.scope),
             b.at = "selected" =>
                 /\ b.used = "indexed"
                 /\ b.candidates \subseteq Embedded
                 /\ \/ b.floor \cap b.matching \subseteq b.candidates
                    \/ Cardinality(b.candidates) = Limit,
             "role" \notin Scopes /\ b.at = "answered" =>
                 LET seen == b.scored \cup b.skipped IN
                 /\ b.used = "exact" => b.floor \subseteq seen
                 /\ b.used = "indexed" => \/ b.floor \cap b.matching \subseteq seen
                                          \/ Cardinality(seen) = Limit
      PROVE  SearchInv'
  <2>1. /\ ask'[w] = b
        /\ \A v \in Worker \ {w} : ask'[v] = ask[v]
        /\ ask' \in [Worker -> {NotAsking} \cup Ask \cup Answer]
    BY <1>o, <1>a
  <2>2. \A v \in Worker : AskOK(v)'
    BY <1>o, <1>e, <2>1 DEF SearchInv, AskOK
  <2>3. "role" \notin Scopes => FullRecall'
    <3> SUFFICES ASSUME "role" \notin Scopes,
                        NEW v \in Worker, ask'[v].at = "answered"
                 PROVE  LET y == ask'[v]
                            seen == y.scored \cup y.skipped
                        IN  /\ y.used = "exact" => y.floor \subseteq seen
                            /\ y.used = "indexed" =>
                                  \/ y.floor \cap y.matching \subseteq seen
                                  \/ Cardinality(seen) = Limit
      BY DEF FullRecall
    <3>1. CASE v = w
      BY <1>o, <2>1, <3>1
    <3>2. CASE v # w
      BY <2>1, <3>2 DEF SearchInv, FullRecall
    <3> QED
      BY <3>1, <3>2
  <2> QED
    BY <2>1, <2>2, <2>3 DEF SearchInv
<1>1. CASE Count(w)
  <2>1. PICK s \in Scopes, st \in {"exact", "indexed", "auto"},
             b \in Backend, q \in Queries :
          ask' = [ask EXCEPT ![w] =
              [at |-> "counted", scope |-> s, strategy |-> st, backend |-> b,
               matching |-> q, floor |-> Embedded \cap InScope(s),
               used |-> Used(st, Embedded \cap InScope(s)),
               candidates |-> {}]]
    BY <1>1 DEF Count
  <2> DEFINE f == Embedded \cap InScope(s)
             u == Used(st, f)
             x == [at |-> "counted", scope |-> s, strategy |-> st,
                   backend |-> b, matching |-> q, floor |-> f,
                   used |-> u, candidates |-> {}]
  <2>2. u \in {"exact", "indexed"} /\ f \in SUBSET Entry
    BY DEF Used, Embedded
  <2>3. ask' = [ask EXCEPT ![w] = x]
    BY <2>1
  <2> HIDE DEF f, u
  <2>4. /\ x \in Ask /\ x.at = "counted" /\ x.floor = f /\ x.scope = s
    BY <2>2 DEF Ask
  <2> HIDE DEF x
  <2> QED
    BY <2>3, <2>4, <1>o DEF f
<1>2. CASE Select(w)
  <2>1. PICK cs \in SUBSET Matches(a) :
          /\ Cardinality(cs) = Least(Limit, Cardinality(Matches(a)))
          /\ ask' = [ask EXCEPT ![w].at = "selected", ![w].candidates = cs]
    BY <1>2 DEF Select
  <2>2. a \in Ask /\ a.at = "counted" /\ a.used = "indexed"
    <3>1. a.at = "counted" /\ a.used = "indexed"
      BY <1>2 DEF Select
    <3> QED
      BY <3>1, <1>k
  <2> DEFINE m == Matches(a)
             x == [a EXCEPT !.at = "selected", !.candidates = cs]
  <2>3. /\ cs \subseteq m /\ Cardinality(cs) = Least(Limit, Cardinality(m))
        /\ m \subseteq Embedded /\ m \subseteq Entry /\ cs \subseteq Entry
    BY <2>1, <1>a DEF Matches
  <2>4. ask' = [ask EXCEPT ![w] = x]
    BY <2>1
  <2>5. /\ x \in Ask /\ x.at = "selected" /\ x.candidates = cs
        /\ x.floor = a.floor /\ x.scope = a.scope /\ x.matching = a.matching
        /\ x.used = "indexed"
    BY <2>2, <2>3 DEF Ask
  <2>6. a.floor \subseteq Embedded \cap InScope(a.scope)
    BY <2>2, <1>a DEF AskOK
  <2>7. a.floor \cap a.matching \subseteq cs \/ Cardinality(cs) = Limit
    <3>1. a.floor \cap a.matching \subseteq m
      BY <2>6, <1>a DEF Matches
    <3>2. IsFiniteSet(m) /\ Cardinality(m) \in Nat
      <4>1. IsFiniteSet(Entry) /\ m \in SUBSET Entry
        BY <2>3, ProjectAssumption DEF ProjectAssumption
      <4> HIDE DEF m
      <4>2. IsFiniteSet(m)
        BY <4>1, FS_Subset
      <4> QED
        BY <4>2, FS_CardinalityType
    <3> HIDE DEF m
    <3>3. CASE Limit <= Cardinality(m)
      BY <3>3, <2>3 DEF Least
    <3>4. CASE ~(Limit <= Cardinality(m))
      <4>1. Cardinality(cs) = Cardinality(m)
        BY <3>4, <2>3 DEF Least
      <4>2. cs = m
        BY <4>1, <3>2, <2>3, FS_Subset
      <4> QED
        BY <4>2, <3>1
    <3> QED
      BY <3>3, <3>4
  <2> HIDE DEF m, x
  <2> QED
    BY <2>3, <2>4, <2>5, <2>6, <2>7, <1>o
<1>s. ASSUME NEW b \in Ask, NEW sc \in SUBSET Entry, NEW sk \in SUBSET Entry
      PROVE  /\ Answered(b, sc, sk) \in Answer
             /\ Answered(b, sc, sk).at = "answered"
             /\ Answered(b, sc, sk).scored = sc
             /\ Answered(b, sc, sk).skipped = sk
             /\ Answered(b, sc, sk).floor = b.floor
             /\ Answered(b, sc, sk).used = b.used
             /\ Answered(b, sc, sk).matching = b.matching
  BY DEF Answered, Answer, Ask
<1>3. CASE NoCandidates(w)
  <2>1. /\ a \in Ask /\ a.at = "counted" /\ a.used = "indexed"
        /\ Matches(a) = {}
        /\ ask' = IF a.strategy = "indexed"
                  THEN [ask EXCEPT ![w] = Answered(a, {}, {})]
                  ELSE [ask EXCEPT ![w].used = "exact"]
    BY <1>3, <1>k DEF NoCandidates
  <2>2. a.floor \subseteq Embedded \cap InScope(a.scope)
    BY <2>1, <1>a DEF AskOK
  <2>3. CASE a.strategy = "indexed"
    <3>1. a.floor \cap a.matching = {}
      BY <2>1, <2>2, <1>a DEF Matches
    <3> DEFINE x == Answered(a, {}, {})
    <3>2. /\ x \in Answer /\ x.at = "answered" /\ x.floor = a.floor
          /\ x.used = "indexed" /\ x.matching = a.matching
      BY <2>1, <1>s
    <3>3. ask' = [ask EXCEPT ![w] = x]
      BY <2>1, <2>3
    <3> HIDE DEF x
    <3> QED
      BY <3>1, <3>2, <3>3, <1>o
  <2>4. CASE a.strategy # "indexed"
    <3> DEFINE x == [a EXCEPT !.used = "exact"]
    <3>1. x \in Ask /\ x.at = "counted" /\ x.floor = a.floor /\ x.scope = a.scope
      BY <2>1 DEF Ask
    <3>2. ask' = [ask EXCEPT ![w] = x]
      BY <2>1, <2>4
    <3> HIDE DEF x
    <3> QED
      BY <2>2, <3>1, <3>2, <1>o
  <2> QED
    BY <2>3, <2>4
<1>4. CASE Fetch(w)
  <2> DEFINE rows == RowsRead(a)
             fit == Compatible(a, rows)
             x == Answered(a, fit, rows \ fit)
  <2>1. /\ \/ a.at = "counted" /\ a.used = "exact"
           \/ a.at = "selected"
        /\ ask' = [ask EXCEPT ![w] = x]
    BY <1>4 DEF Fetch
  <2>2. a \in Ask /\ a.scope \in Scopes
    BY <2>1, <1>k DEF Ask
  <2>3. /\ a.used = "exact" =>
              /\ rows \subseteq Embedded
              /\ "role" \notin Scopes => rows = Embedded \cap InScope(a.scope)
        /\ a.used # "exact" => rows = a.candidates \cap Embedded
    BY <2>2 DEF RowsRead, ExactRows
  <2>4. rows \subseteq Entry /\ fit \subseteq rows
    BY <2>3, <1>a DEF Compatible
  <2>5. fit \cup (rows \ fit) = rows
    BY <2>4
  <2>6. /\ "role" \notin Scopes /\ a.used = "exact" => a.floor \subseteq rows
        /\ a.used = "indexed" => \/ a.floor \cap a.matching \subseteq rows
                                 \/ Cardinality(rows) = Limit
    <3>1. a.floor \subseteq Embedded \cap InScope(a.scope)
      BY <2>1, <1>a DEF AskOK
    <3>2. CASE a.used = "exact"
      BY <2>3, <3>1, <3>2
    <3>3. CASE a.used # "exact"
      <4>1. a.at = "selected"
        BY <2>1, <3>3
      <4>2. /\ a.candidates \subseteq Embedded /\ a.used = "indexed"
            /\ \/ a.floor \cap a.matching \subseteq a.candidates
               \/ Cardinality(a.candidates) = Limit
        BY <4>1, <1>a DEF AskOK
      <4>3. rows = a.candidates
        BY <2>3, <3>3, <4>2
      <4> QED
        BY <4>2, <4>3
    <3> QED
      BY <3>2, <3>3
  <2> HIDE DEF rows, fit
  <2>7. /\ x \in Answer /\ x.at = "answered" /\ x.scored = fit
        /\ x.skipped = rows \ fit /\ x.floor = a.floor /\ x.used = a.used
        /\ x.matching = a.matching
    <3>1. fit \in SUBSET Entry /\ rows \ fit \in SUBSET Entry
      BY <2>4
    <3> QED
      BY <2>2, <3>1, <1>s
  <2> HIDE DEF x
  <2> QED
    BY <2>1, <2>5, <2>6, <2>7, <1>o
<1>5. CASE EndSearch(w)
  <2>1. ask' = [ask EXCEPT ![w] = NotAsking] /\ NotAsking.at = "idle"
    BY <1>5 DEF EndSearch, NotAsking
  <2> QED
    BY <2>1, <1>o
<1> QED
  BY <1>1, <1>2, <1>3, <1>4, <1>5 DEF Search

(***************************************************************************)
(* Legacy imports.  The rows that an import has passed are accounted for,  *)
(* and what it says it inserted it has, alone.                             *)
(***************************************************************************)
Passed(j) == IF j.at = "store" THEN j.row ELSE j.row - 1

RowsOK(j) ==
    /\ j.failures \subseteq 1..(j.row - 1)
    /\ j.importable + j.duplicates + Cardinality(j.failures) = Passed(j)
    /\ j.at = "store" => /\ ~j.dry /\ j.row <= Len(LegacyRows)
                         /\ LegacyRows[j.row] # None
    /\ j.dry => j.imported = 0
    /\ ~j.dry =>
          /\ j.importable = j.imported + (IF j.at = "store" THEN 1 ELSE 0)
          /\ \A n \in 1..(j.row - 1) :
                n \in j.failures \/ LegacyRows[n] \in stored

MineOK(w) ==
    /\ legacy[w].imported = Cardinality(legacy[w].mine)
    /\ \A e \in legacy[w].mine :
          /\ times[e] = 1
          /\ \A v \in Imports \ {w} : e \notin legacy[v].mine

TimesOK == \A e \in Entry : /\ times[e] <= 1
                            /\ times[e] = 1 => e \in stored /\ vec[e] # None

LegacyInv == /\ LegacyTypeOK
             /\ TimesOK
             /\ \A w \in Imports : MineOK(w) /\ RowsOK(legacy[w])

LEMMA LegacyKinds ==
    /\ \A j \in LegacyJob : j # NotImporting /\ j.at \in {"row", "store"}
    /\ LegacyTypeOK => \A w \in Imports : w \in Worker /\ legacy[w] \in LegacyJob
<1>1. \A j \in LegacyJob : j # NotImporting /\ j.at \in {"row", "store"}
  BY DEF LegacyJob, NotImporting
<1> QED
  BY <1>1 DEF LegacyTypeOK, Imports

LEMMA LegacyUntouched ==
    ASSUME LegacyInv, UNCHANGED legacyVars, stored \subseteq stored',
           \A e \in Entry : vec[e] # None => vec'[e] # None
    PROVE  LegacyInv'
<1>0. legacy' = legacy /\ times' = times /\ Imports' = Imports
  BY DEF legacyVars, Imports
<1>1. LegacyTypeOK' /\ TimesOK'
  BY <1>0 DEF LegacyInv, LegacyTypeOK, TimesOK
<1>2. \A w \in Imports : MineOK(w)'
  BY <1>0 DEF LegacyInv, MineOK
<1>3. \A w \in Imports : RowsOK(legacy[w])'
  BY <1>0 DEF LegacyInv, RowsOK, Passed
<1> QED
  BY <1>0, <1>1, <1>2, <1>3 DEF LegacyInv

\* One import changes, and what the others hold goes on to hold.
LEMMA OneImport ==
    ASSUME LegacyInv, NEW w \in Worker, NEW b \in {NotImporting} \cup LegacyJob,
           legacy' = [legacy EXCEPT ![w] = b],
           stored \subseteq stored',
           times' \in [Entry -> Nat], TimesOK',
           \A e \in Entry : times[e] = 1 => times'[e] = 1,
           b # NotImporting =>
               /\ RowsOK(b)'
               /\ b.imported = Cardinality(b.mine)
               /\ \A e \in b.mine :
                     /\ times'[e] = 1
                     /\ \A v \in Imports \ {w} : e \notin legacy[v].mine
    PROVE  LegacyInv'
<1>1. /\ legacy'[w] = b
      /\ \A v \in Worker \ {w} : legacy'[v] = legacy[v]
      /\ LegacyTypeOK'
  BY DEF LegacyInv, LegacyTypeOK
<1>2. /\ Imports' \ {w} = Imports \ {w}
      /\ w \in Imports' => b # NotImporting
      /\ Imports' \subseteq Worker
  BY <1>1 DEF Imports
<1>3. ASSUME NEW v \in Imports' PROVE MineOK(v)' /\ RowsOK(legacy[v])'
  <2>1. CASE v = w
    <3>1. RowsOK(legacy[v])'
      BY <1>1, <1>2, <2>1 DEF RowsOK, Passed
    <3>2. MineOK(v)'
      BY <1>1, <1>2, <2>1 DEF MineOK
    <3> QED
      BY <3>1, <3>2
  <2>2. CASE v # w
    <3>1. /\ v \in Imports /\ v \in Worker /\ legacy'[v] = legacy[v]
          /\ MineOK(v) /\ RowsOK(legacy[v]) /\ legacy[v] \in LegacyJob
      BY <1>1, <1>2, <2>2, LegacyKinds DEF LegacyInv
    <3>2. RowsOK(legacy[v])'
      BY <3>1 DEF RowsOK, Passed
    <3>3. ASSUME NEW e \in legacy[v].mine
          PROVE  times'[e] = 1 /\ \A u \in Imports' \ {v} : e \notin legacy'[u].mine
      <4>1. e \in Entry /\ times[e] = 1
            /\ \A u \in Imports \ {v} : e \notin legacy[u].mine
        BY <3>1, <3>3 DEF MineOK, LegacyJob
      <4>2. ASSUME NEW u \in Imports' \ {v} PROVE e \notin legacy'[u].mine
        <5>1. CASE u # w
          BY <1>1, <1>2, <4>1, <5>1
        <5>2. CASE u = w
          <6>1. b # NotImporting
            BY <1>2, <5>2
          <6>2. \A d \in b.mine : d \notin legacy[v].mine
            BY <2>2, <3>1, <6>1
          <6> QED
            BY <6>2, <1>1, <5>2
        <5> QED
          BY <5>1, <5>2
      <4> QED
        BY <4>1, <4>2
    <3> QED
      BY <3>1, <3>2, <3>3 DEF MineOK
  <2> QED
    BY <2>1, <2>2
<1> QED
  BY <1>1, <1>3 DEF LegacyInv

LEMMA OneMoreFailure ==
    ASSUME NEW n \in Nat \ {0}, NEW f \in SUBSET (1..(n - 1))
    PROVE  /\ IsFiniteSet(f) /\ Cardinality(f) \in Nat
           /\ Cardinality(f \cup {n}) = Cardinality(f) + 1
<1>1. IsFiniteSet(1..(n - 1))
  <2>1. 1 \in Int /\ n - 1 \in Int
    OBVIOUS
  <2> QED
    BY <2>1, FS_Interval
<1>2. n \notin f
  OBVIOUS
<1>3. IsFiniteSet(f)
  BY <1>1, FS_Subset
<1> QED
  BY <1>2, <1>3, FS_AddElement, FS_CardinalityType

LEMMA LegacyKeeps ==
    ASSUME TypeOK, EmbedsStored, LegacyInv, NEW w \in Worker, LegacyStep(w)
    PROVE  LegacyInv'
<1> DEFINE j == legacy[w]
           c == Cardinality(j.failures)
           able == j.importable
           dup == j.duplicates
           imp == j.imported
           r == j.row
<1>a. /\ LegacyTypeOK /\ TimesOK
      /\ stored \subseteq Entry /\ vec \in [Entry -> {None} \cup Backend]
      /\ None \notin Backend
      /\ LegacyRows \in Seq(Entry \cup {None}) /\ BackendOf \in [Worker -> Backend]
      /\ Len(LegacyRows) \in Nat
      /\ DOMAIN LegacyRows = 1..Len(LegacyRows)
      /\ \A n \in 1..Len(LegacyRows) : LegacyRows[n] \in Entry \cup {None}
  BY LegacyAssumption, ProjectAssumption
  DEF LegacyInv, TypeOK, LegacyAssumption, ProjectAssumption
<1>l. /\ legacy \in [Worker -> {NotImporting} \cup LegacyJob]
      /\ times \in [Entry -> Nat]
  BY <1>a DEF LegacyTypeOK
<1>k. j # NotImporting => j \in LegacyJob /\ MineOK(w) /\ RowsOK(j)
  BY <1>l DEF LegacyInv, Imports
<1>j. ASSUME j # NotImporting
      PROVE  /\ j \in LegacyJob /\ j.at \in {"row", "store"}
             /\ j.row \in 1..(Len(LegacyRows) + 1)
             /\ j.failures \in SUBSET (1..(j.row - 1))
             /\ j.imported \in Nat /\ j.importable \in Nat
             /\ j.duplicates \in Nat /\ j.mine \in SUBSET Entry
             /\ j.dry \in BOOLEAN
             /\ IsFiniteSet(j.failures) /\ c \in Nat
             /\ Cardinality(j.failures \cup {j.row})
                   = c + 1
  <2>1. /\ j \in LegacyJob /\ j.failures \in SUBSET (1..(j.row - 1))
        /\ j.row \in Nat \ {0}
    BY <1>j, <1>k, <1>a DEF RowsOK, LegacyJob
  <2>2. /\ IsFiniteSet(j.failures) /\ c \in Nat
        /\ Cardinality(j.failures \cup {j.row}) = c + 1
    BY <2>1, OneMoreFailure
  <2> QED
    BY <2>1, <2>2 DEF LegacyJob
<1>t. j # NotImporting =>
          r \in Int /\ imp \in Int /\ able \in Int /\ dup \in Int /\ c \in Int
  BY <1>j
<1>n. ASSUME j # NotImporting, j.row <= Len(LegacyRows)
      PROVE  /\ j.row + 1 \in 1..(Len(LegacyRows) + 1)
             /\ j.failures \in SUBSET (1..Len(LegacyRows))
             /\ j.failures \cup {j.row} \in SUBSET (1..Len(LegacyRows))
             /\ j.failures \cup {j.row} \subseteq 1..j.row
             /\ j.failures \subseteq 1..j.row
             /\ j.imported + 1 \in Nat /\ j.importable + 1 \in Nat
             /\ j.duplicates + 1 \in Nat
  <2>1. /\ j.row \in Nat /\ j.row >= 1 /\ j.failures \in SUBSET (1..(j.row - 1))
        /\ Len(LegacyRows) \in Nat
    BY <1>n, <1>j, <1>a
  <2>2. /\ j.row + 1 \in 1..(Len(LegacyRows) + 1)
        /\ j.row \in 1..Len(LegacyRows) /\ j.row \in 1..j.row
    BY <2>1, <1>n
  <2>3. j.failures \subseteq 1..Len(LegacyRows) /\ j.failures \subseteq 1..j.row
    BY <2>1, <1>n
  <2>4. /\ j.imported + 1 \in Nat /\ j.importable + 1 \in Nat
        /\ j.duplicates + 1 \in Nat
    BY <1>n, <1>j
  <2> HIDE DEF j
  <2> QED
    BY <2>2, <2>3, <2>4
<1>p. j # NotImporting /\ j.at = "row" =>
          able + dup + c = r - 1 /\ (j.dry => imp = 0) /\ (~j.dry => able = imp)
  <2> SUFFICES ASSUME j # NotImporting, j.at = "row"
               PROVE  /\ able + dup + c = r - 1
                      /\ j.dry => imp = 0
                      /\ ~j.dry => able = imp
    OBVIOUS
  <2>1. RowsOK(j)
    BY <1>k
  <2>2. able + dup + c = r - 1
    BY <2>1 DEF RowsOK, Passed
  <2>3. ~j.dry => able = imp + 0
    BY <2>1 DEF RowsOK
  <2>4. j.dry => imp = 0
    BY <2>1 DEF RowsOK
  <2> QED
    BY <2>2, <2>3, <2>4, <1>t
<1>s. j # NotImporting /\ j.at = "store" =>
          /\ ~j.dry /\ r <= Len(LegacyRows) /\ LegacyRows[r] # None
          /\ able = imp + 1 /\ able + dup + c = r
  BY <1>k DEF RowsOK, Passed
<1>r. j # NotImporting /\ ~j.dry =>
          \A n \in 1..(j.row - 1) :
             n \in j.failures \/ LegacyRows[n] \in stored
  BY <1>k DEF RowsOK
<1>c. /\ Cardinality(j.failures) = c /\ j.row = r /\ j.imported = imp
      /\ j.importable = able /\ j.duplicates = dup
  OBVIOUS
<1> HIDE DEF c, able, dup, imp, r
\* Steps that insert nothing, and change the import's counters only.
<1>q. ASSUME NEW b \in {NotImporting} \cup LegacyJob,
             legacy' = [legacy EXCEPT ![w] = b],
             UNCHANGED <<vars, times>>,
             b # NotImporting =>
                 /\ RowsOK(b)
                 /\ \/ b.imported = 0 /\ b.mine = {}
                    \/ /\ j # NotImporting
                       /\ b.imported = j.imported /\ b.mine = j.mine
      PROVE  LegacyInv'
  <2>1. /\ times' = times /\ stored' = stored /\ vec' = vec
    BY <1>q DEF vars
  <2>2. TimesOK' /\ times' \in [Entry -> Nat]
    BY <2>1, <1>a, <1>l DEF TimesOK
  <2>3. b # NotImporting => RowsOK(b)'
    BY <2>1, <1>q DEF RowsOK, Passed
  <2>4. ASSUME b # NotImporting
        PROVE  /\ b.imported = Cardinality(b.mine)
               /\ \A e \in b.mine :
                     /\ times'[e] = 1
                     /\ \A v \in Imports \ {w} : e \notin legacy[v].mine
    <3>1. CASE b.imported = 0 /\ b.mine = {}
      BY <3>1, FS_EmptySet
    <3>2. CASE j # NotImporting /\ b.imported = j.imported /\ b.mine = j.mine
      BY <3>2, <2>1, <1>k DEF MineOK
    <3> QED
      BY <3>1, <3>2, <2>4, <1>q
  <2> QED
    BY <1>q, <2>1, <2>2, <2>3, <2>4, OneImport
<1>1. CASE LegacyBegin(w)
  <2>1. PICK d \in BOOLEAN :
          legacy' = [legacy EXCEPT ![w] =
              [at |-> "row", row |-> 1, dry |-> d, imported |-> 0,
               importable |-> 0, duplicates |-> 0, failures |-> {},
               mine |-> {}]]
    BY <1>1 DEF LegacyBegin
  <2> DEFINE b == [at |-> "row", row |-> 1, dry |-> d, imported |-> 0,
                   importable |-> 0, duplicates |-> 0, failures |-> {},
                   mine |-> {}]
  <2>2. b \in LegacyJob
    BY <1>a DEF LegacyJob
  <2>3. RowsOK(b)
    BY FS_EmptySet DEF RowsOK, Passed
  <2>4. b.imported = 0 /\ b.mine = {} /\ legacy' = [legacy EXCEPT ![w] = b]
    BY <2>1
  <2>5. UNCHANGED <<vars, times>>
    BY <1>1 DEF LegacyBegin
  <2> HIDE DEF b
  <2> QED
    BY <2>2, <2>3, <2>4, <2>5, <1>q
<1>2. CASE MalformedRow(w)
  <2>1. /\ j # NotImporting /\ j.at = "row" /\ j.row <= Len(LegacyRows)
        /\ legacy' = [legacy EXCEPT ![w].failures = @ \cup {legacy[w].row},
                                    ![w].row = @ + 1]
        /\ UNCHANGED <<vars, times>>
    BY <1>2 DEF MalformedRow, AtRow
  <2> DEFINE b == [j EXCEPT !.failures = @ \cup {j.row}, !.row = @ + 1]
  <2>2. legacy' = [legacy EXCEPT ![w] = b]
    BY <2>1
  <2>3. /\ b \in LegacyJob /\ b.at = "row" /\ b.row = j.row + 1
        /\ b.failures = j.failures \cup {j.row} /\ b.dry = j.dry
        /\ b.imported = j.imported /\ b.importable = j.importable
        /\ b.duplicates = j.duplicates /\ b.mine = j.mine
    BY <2>1, <1>k, <1>n DEF LegacyJob
  <2> HIDE DEF b
  <2>4. RowsOK(b)
    <3>1. b.failures \subseteq 1..(b.row - 1)
      BY <2>1, <2>3, <1>j, <1>a
    <3>2. b.importable + b.duplicates + Cardinality(b.failures) = Passed(b)
      <4>1. b.importable + b.duplicates + Cardinality(b.failures)
               = able + dup + (c + 1)
        BY <2>1, <2>3, <1>c, <1>j
      <4>2. able + dup + (c + 1) = r
        BY <2>1, <1>c, <1>p, <1>t
      <4> QED
        BY <4>1, <4>2, <2>1, <2>3, <1>c, <1>t DEF Passed
    <3>3. /\ b.dry => b.imported = 0
          /\ ~b.dry => b.importable = b.imported
      BY <2>1, <2>3, <1>j, <1>c, <1>p
    <3>4. ~b.dry => \A n \in 1..(b.row - 1) :
                        n \in b.failures \/ LegacyRows[n] \in stored
      BY <2>1, <2>3, <1>c, <1>r, <1>t
    <3> QED
      BY <2>3, <3>1, <3>2, <3>3, <3>4, <1>j, <2>1 DEF RowsOK
  <2> QED
    BY <2>1, <2>2, <2>3, <2>4, <1>q
<1>3. CASE LookUp(w)
  <2>1. /\ j # NotImporting /\ j.at = "row" /\ j.row <= Len(LegacyRows)
        /\ LegacyRows[j.row] # None
        /\ UNCHANGED <<vars, times>>
    BY <1>3 DEF LookUp, AtRow, RowOf
  <2>2. CASE Found(w)
    <3> DEFINE b == [j EXCEPT !.duplicates = @ + 1, !.row = @ + 1]
    <3>1. legacy' = [legacy EXCEPT ![w] = b] /\ LegacyRows[j.row] \in stored
      BY <1>3, <2>2 DEF LookUp, Found, RowOf
    <3>2. /\ b \in LegacyJob /\ b.at = "row" /\ b.row = j.row + 1
          /\ b.failures = j.failures /\ b.dry = j.dry
          /\ b.imported = j.imported /\ b.importable = j.importable
          /\ b.duplicates = j.duplicates + 1 /\ b.mine = j.mine
      BY <2>1, <1>k, <1>n DEF LegacyJob
    <3> HIDE DEF b
    <3>3. RowsOK(b)
      <4>1. b.failures \subseteq 1..(b.row - 1)
        BY <2>1, <3>2, <1>j, <1>a
      <4>2. b.importable + b.duplicates + Cardinality(b.failures) = Passed(b)
        <5>1. b.importable + b.duplicates + Cardinality(b.failures)
                 = able + (dup + 1) + c
          BY <2>1, <3>2, <1>c, <1>j
        <5>2. able + (dup + 1) + c = r
          BY <2>1, <1>c, <1>p, <1>t
        <5> QED
          BY <5>1, <5>2, <2>1, <3>2, <1>c, <1>t DEF Passed
      <4>3. /\ b.dry => b.imported = 0
            /\ ~b.dry => b.importable = b.imported
        BY <2>1, <3>2, <1>j, <1>c, <1>p
      <4>4. ~b.dry => \A n \in 1..(b.row - 1) :
                          n \in b.failures \/ LegacyRows[n] \in stored
        BY <2>1, <3>1, <3>2, <1>c, <1>r, <1>t
      <4> QED
        BY <3>2, <4>1, <4>2, <4>3, <4>4, <1>j, <2>1 DEF RowsOK
    <3> QED
      BY <2>1, <3>1, <3>2, <3>3, <1>q
  <2>3. CASE ~Found(w) /\ j.dry
    <3> DEFINE b == [j EXCEPT !.importable = @ + 1, !.row = @ + 1]
    <3>1. legacy' = [legacy EXCEPT ![w] = b]
      BY <1>3, <2>3 DEF LookUp
    <3>2. /\ b \in LegacyJob /\ b.at = "row" /\ b.row = j.row + 1
          /\ b.failures = j.failures /\ b.dry = j.dry
          /\ b.imported = j.imported /\ b.importable = j.importable + 1
          /\ b.duplicates = j.duplicates /\ b.mine = j.mine
      BY <2>1, <1>k, <1>n DEF LegacyJob
    <3> HIDE DEF b
    <3>3. RowsOK(b)
      <4>1. b.failures \subseteq 1..(b.row - 1)
        BY <2>1, <3>2, <1>j, <1>a
      <4>2. b.importable + b.duplicates + Cardinality(b.failures) = Passed(b)
        <5>1. b.importable + b.duplicates + Cardinality(b.failures)
                 = (able + 1) + dup + c
          BY <2>1, <3>2, <1>c, <1>j
        <5>2. (able + 1) + dup + c = r
          BY <2>1, <1>c, <1>p, <1>t
        <5> QED
          BY <5>1, <5>2, <2>1, <3>2, <1>c, <1>t DEF Passed
      <4> QED
        BY <2>3, <3>2, <4>1, <4>2, <1>j, <1>k, <2>1 DEF RowsOK
    <3> QED
      BY <2>1, <3>1, <3>2, <3>3, <1>q
  <2>4. CASE ~Found(w) /\ ~j.dry
    <3> DEFINE b == [j EXCEPT !.importable = @ + 1, !.at = "store"]
    <3>1. legacy' = [legacy EXCEPT ![w] = b]
      BY <1>3, <2>4 DEF LookUp
    <3>2. /\ b \in LegacyJob /\ b.at = "store" /\ b.row = j.row
          /\ b.failures = j.failures /\ b.dry = j.dry
          /\ b.imported = j.imported /\ b.importable = j.importable + 1
          /\ b.duplicates = j.duplicates /\ b.mine = j.mine
      BY <2>1, <1>k, <1>n DEF LegacyJob
    <3> HIDE DEF b
    <3>3. RowsOK(b)
      <4>2. b.importable + b.duplicates + Cardinality(b.failures) = Passed(b)
        <5>1. b.importable + b.duplicates + Cardinality(b.failures)
                 = (able + 1) + dup + c
          BY <2>1, <3>2, <1>c, <1>j
        <5>2. (able + 1) + dup + c = r
          BY <2>1, <1>c, <1>p, <1>t
        <5> QED
          BY <5>1, <5>2, <2>1, <3>2, <1>c, <1>t DEF Passed
      <4>3. b.importable = b.imported + 1
        BY <2>1, <2>4, <3>2, <1>c, <1>p
      <4>4. \A n \in 1..(b.row - 1) :
                n \in b.failures \/ LegacyRows[n] \in stored
        BY <2>1, <2>4, <3>2, <1>c, <1>r
      <4> QED
        BY <2>1, <2>4, <3>2, <4>2, <4>3, <4>4, <1>j DEF RowsOK
    <3> QED
      BY <2>1, <3>1, <3>2, <3>3, <1>q
  <2> QED
    BY <2>2, <2>3, <2>4
<1>4. CASE RowFails(w)
  <2>1. /\ j # NotImporting /\ j.at = "store"
        /\ legacy' = [legacy EXCEPT ![w].failures = @ \cup {legacy[w].row},
                                    ![w].importable = @ - 1,
                                    ![w].at = "row", ![w].row = @ + 1]
        /\ UNCHANGED <<vars, times>>
    BY <1>4 DEF RowFails, AtStore
  <2>2. /\ ~j.dry /\ j.row <= Len(LegacyRows)
        /\ able = imp + 1 /\ able + dup + c = r
        /\ j.importable - 1 \in Nat
    BY <2>1, <1>s, <1>c, <1>j
  <2> DEFINE b == [j EXCEPT !.failures = @ \cup {j.row},
                            !.importable = @ - 1,
                            !.at = "row", !.row = @ + 1]
  <2>3. legacy' = [legacy EXCEPT ![w] = b]
    BY <2>1
  <2>4. /\ b \in LegacyJob /\ b.at = "row" /\ b.row = j.row + 1
        /\ b.failures = j.failures \cup {j.row} /\ b.dry = j.dry
        /\ b.imported = j.imported /\ b.importable = j.importable - 1
        /\ b.duplicates = j.duplicates /\ b.mine = j.mine
    BY <2>1, <2>2, <1>k, <1>n DEF LegacyJob
  <2> HIDE DEF b
  <2>5. RowsOK(b)
    <3>1. b.failures \subseteq 1..(b.row - 1)
      BY <2>1, <2>4, <1>j, <1>a
    <3>2. b.importable + b.duplicates + Cardinality(b.failures) = Passed(b)
      <4>1. b.importable + b.duplicates + Cardinality(b.failures)
               = (able - 1) + dup + (c + 1)
        BY <2>1, <2>4, <1>c, <1>j
      <4>2. (able - 1) + dup + (c + 1) = r
        BY <2>1, <2>2, <1>c, <1>t
      <4> QED
        BY <4>1, <4>2, <2>1, <2>4, <1>c, <1>t DEF Passed
    <3>3. b.importable = b.imported
      BY <2>1, <2>2, <2>4, <1>c, <1>t
    <3>4. \A n \in 1..(b.row - 1) :
              n \in b.failures \/ LegacyRows[n] \in stored
      <4>1. \A n \in 1..(b.row - 1) : n \in 1..(j.row - 1) \/ n = j.row
        BY <2>1, <2>4, <1>c, <1>t
      <4>2. /\ j.failures \subseteq b.failures /\ j.row \in b.failures
            /\ \A n \in 1..(j.row - 1) :
                  n \in j.failures \/ LegacyRows[n] \in stored
        BY <2>1, <2>2, <2>4, <1>r
      <4> QED
        BY <4>1, <4>2
    <3> QED
      BY <2>2, <2>4, <3>1, <3>2, <3>3, <3>4 DEF RowsOK
  <2> QED
    BY <2>1, <2>3, <2>4, <2>5, <1>q
<1>5. CASE LegacyEnds(w)
  <2>1. legacy' = [legacy EXCEPT ![w] = NotImporting]
        /\ UNCHANGED <<vars, times>>
    BY <1>5 DEF LegacyEnds
  <2> QED
    BY <2>1, <1>q
\* The transaction that stores a message, the importer's and Memory.store's.
<1>f. ASSUME NEW e \in Entry, FacadeStore(e, BackendOf[w])
      PROVE  /\ stored' = stored \cup {e}
             /\ times' \in [Entry -> Nat] /\ TimesOK'
             /\ \A d \in Entry : times[d] = 1 => times'[d] = 1
             /\ e \notin stored => times'[e] = 1 /\ times[e] # 1
             /\ \A d \in Entry : vec[d] # None => vec'[d] # None
  <2>1. CASE e \in stored
    BY <2>1, <1>f, <1>a, <1>l DEF FacadeStore, TimesOK
  <2>2. CASE e \notin stored
    <3>1. /\ stored' = stored \cup {e}
          /\ vec' = [vec EXCEPT ![e] = BackendOf[w]]
          /\ times' = [times EXCEPT ![e] = @ + 1]
      BY <2>2, <1>f DEF FacadeStore
    <3>2. times[e] = 0
      BY <2>2, <1>a, <1>l DEF TimesOK
    <3>3. times'[e] = 1 /\ vec'[e] = BackendOf[w] /\ BackendOf[w] # None
      BY <3>1, <3>2, <1>a, <1>l
    <3>4. /\ times' \in [Entry -> Nat]
          /\ \A d \in Entry \ {e} : times'[d] = times[d] /\ vec'[d] = vec[d]
      BY <3>1, <1>a, <1>l
    <3> QED
      BY <3>1, <3>2, <3>3, <3>4, <1>a DEF TimesOK
  <2> QED
    BY <2>1, <2>2
<1>6. CASE StoreRow(w)
  <2> DEFINE e == LegacyRows[j.row]
  <2>1. /\ j # NotImporting /\ j.at = "store"
        /\ FacadeStore(e, BackendOf[w])
    BY <1>6 DEF StoreRow, AtStore, RowOf
  <2>2. /\ ~j.dry /\ j.row <= Len(LegacyRows) /\ e # None
        /\ able = imp + 1 /\ able + dup + c = r
        /\ j.importable - 1 \in Nat
    BY <2>1, <1>s, <1>c, <1>j
  <2>3. e \in Entry
    BY <2>2, <2>1, <1>j, <1>a
  <2>4. /\ stored' = stored \cup {e}
        /\ times' \in [Entry -> Nat] /\ TimesOK'
        /\ \A d \in Entry : times[d] = 1 => times'[d] = 1
        /\ e \notin stored => times'[e] = 1 /\ times[e] # 1
    BY <2>1, <2>3, <1>f
  <2>5. ASSUME NEW b \in LegacyJob, legacy' = [legacy EXCEPT ![w] = b],
               b.at = "row", b.row = j.row + 1, b.failures = j.failures,
               ~b.dry, b.importable = b.imported, b.importable \in Nat,
               b.importable + b.duplicates = j.importable + j.duplicates,
               b.imported = Cardinality(b.mine),
               \A d \in b.mine :
                  /\ times'[d] = 1
                  /\ \A v \in Imports \ {w} : d \notin legacy[v].mine
        PROVE  LegacyInv'
    <3>1. RowsOK(b)'
      <4>1. b.failures \subseteq 1..(b.row - 1)
        BY <2>1, <2>5, <1>j, <1>a
      <4>2. b.importable + b.duplicates + Cardinality(b.failures) = Passed(b)
        <5>1. b.importable + b.duplicates + Cardinality(b.failures)
                 = able + dup + c
          BY <2>5, <1>c
        <5> QED
          BY <5>1, <2>1, <2>2, <2>5, <1>c, <1>t DEF Passed
      <4>3. \A n \in 1..(b.row - 1) :
                n \in b.failures \/ LegacyRows[n] \in stored'
        <5>0. j.row \in Int /\ b.row = j.row + 1
          BY <2>1, <2>5, <1>c, <1>t
        <5>1. \A n \in 1..(b.row - 1) : n \in 1..(j.row - 1) \/ n = j.row
          BY <5>0
        <5>2. \A n \in 1..(j.row - 1) :
                 n \in j.failures \/ LegacyRows[n] \in stored
          BY <2>1, <2>2, <1>r
        <5>3. LegacyRows[j.row] \in stored' /\ stored \subseteq stored'
          BY <2>4
        <5> QED
          BY <5>1, <5>2, <5>3, <2>5
      <4> QED
        BY <2>5, <4>1, <4>2, <4>3 DEF RowsOK, Passed
    <3>2. stored \subseteq stored'
      BY <2>4
    <3> QED
      BY <3>1, <3>2, <2>4, <2>5, OneImport
  <2>6. CASE e \in stored
    <3> DEFINE b == [j EXCEPT !.duplicates = @ + 1, !.importable = @ - 1,
                              !.at = "row", !.row = @ + 1]
    <3>1. legacy' = [legacy EXCEPT ![w] = b]
      BY <1>6, <2>6 DEF StoreRow, RowOf
    <3>2. /\ b \in LegacyJob /\ b.at = "row" /\ b.row = j.row + 1
          /\ b.failures = j.failures /\ b.dry = j.dry
          /\ b.imported = j.imported /\ b.importable = j.importable - 1
          /\ b.duplicates = j.duplicates + 1 /\ b.mine = j.mine
          /\ b.importable \in Nat
      BY <2>1, <2>2, <1>k, <1>n DEF LegacyJob
    <3> HIDE DEF b
    <3>3. /\ b.importable = b.imported /\ ~b.dry
          /\ b.importable + b.duplicates = j.importable + j.duplicates
      BY <2>1, <2>2, <3>2, <1>c, <1>t
    <3>4. /\ b.imported = Cardinality(b.mine)
          /\ \A d \in b.mine :
                /\ times'[d] = 1
                /\ \A v \in Imports \ {w} : d \notin legacy[v].mine
      BY <2>1, <2>4, <3>2, <1>j, <1>k DEF MineOK
    <3> QED
      BY <2>5, <3>1, <3>2, <3>3, <3>4
  <2>7. CASE e \notin stored
    <3> DEFINE b == [j EXCEPT !.imported = @ + 1, !.mine = @ \cup {e},
                              !.at = "row", !.row = @ + 1]
    <3>1. legacy' = [legacy EXCEPT ![w] = b]
      BY <1>6, <2>7 DEF StoreRow, RowOf
    <3>2. /\ b \in LegacyJob /\ b.at = "row" /\ b.row = j.row + 1
          /\ b.failures = j.failures /\ b.dry = j.dry
          /\ b.imported = j.imported + 1 /\ b.importable = j.importable
          /\ b.duplicates = j.duplicates /\ b.mine = j.mine \cup {e}
      BY <2>1, <2>2, <2>3, <1>k, <1>n DEF LegacyJob
    <3> HIDE DEF b
    <3>3. /\ b.importable = b.imported /\ ~b.dry /\ b.importable \in Nat
          /\ b.importable + b.duplicates = j.importable + j.duplicates
      <4>1. b.importable \in Nat
        BY <2>1, <3>2, <1>j
      <4> QED
        BY <4>1, <2>1, <2>2, <3>2, <1>c, <1>t
    <3>4. e \notin j.mine /\ IsFiniteSet(j.mine)
      <4>1. \A d \in j.mine : times[d] = 1
        BY <2>1, <1>k DEF MineOK
      <4>2. IsFiniteSet(Entry) /\ j.mine \in SUBSET Entry
        BY <2>1, <1>j, ProjectAssumption DEF ProjectAssumption
      <4>3. IsFiniteSet(j.mine)
        BY <4>2, FS_Subset
      <4> QED
        BY <4>1, <4>3, <2>4, <2>7
    <3>5. Cardinality(j.mine \cup {e}) = Cardinality(j.mine) + 1
      BY <3>4, FS_AddElement
    <3>6. b.imported = Cardinality(b.mine)
      <4>1. j.imported = Cardinality(j.mine)
        BY <2>1, <1>k DEF MineOK
      <4> QED
        BY <4>1, <3>2, <3>5
    <3>7. ASSUME NEW d \in b.mine
          PROVE  /\ times'[d] = 1
                 /\ \A v \in Imports \ {w} : d \notin legacy[v].mine
      <4>1. CASE d = e
        <5>1. times'[d] = 1 /\ times[d] # 1
          BY <4>1, <2>4, <2>7
        <5>2. \A v \in Imports \ {w} : d \notin legacy[v].mine
          BY <5>1 DEF LegacyInv, MineOK
        <5> QED
          BY <5>1, <5>2
      <4>2. CASE d # e
        BY <4>2, <3>2, <2>1, <2>4, <1>j, <1>k DEF MineOK
      <4> QED
        BY <4>1, <4>2
    <3> QED
      BY <2>5, <3>1, <3>2, <3>3, <3>6, <3>7
  <2> QED
    BY <2>6, <2>7
<1>7. CASE MemoryStore(w)
  <2>1. PICK n \in DOMAIN LegacyRows :
          LegacyRows[n] # None /\ FacadeStore(LegacyRows[n], BackendOf[w])
    BY <1>7 DEF MemoryStore
  <2>2. LegacyRows[n] \in Entry /\ legacy' = legacy
    BY <1>7, <2>1, <1>a DEF MemoryStore
  <2>3. /\ stored \subseteq stored'
        /\ times' \in [Entry -> Nat] /\ TimesOK'
        /\ \A d \in Entry : times[d] = 1 => times'[d] = 1
    BY <2>1, <2>2, <1>f
  <2>4. legacy' = [legacy EXCEPT ![w] = j] /\ j \in {NotImporting} \cup LegacyJob
    BY <2>2, <1>l
  <2>5. j # NotImporting =>
            /\ RowsOK(j)'
            /\ j.imported = Cardinality(j.mine)
            /\ \A e \in j.mine :
                  /\ times'[e] = 1
                  /\ \A v \in Imports \ {w} : e \notin legacy[v].mine
    <3> SUFFICES ASSUME j # NotImporting
                 PROVE  /\ RowsOK(j)'
                        /\ j.imported = Cardinality(j.mine)
                        /\ \A e \in j.mine :
                              /\ times'[e] = 1
                              /\ \A v \in Imports \ {w} :
                                    e \notin legacy[v].mine
      OBVIOUS
    <3>1. RowsOK(j)'
      BY <1>k, <2>2, <2>3 DEF RowsOK, Passed
    <3>2. j.mine \subseteq Entry
      BY <1>j
    <3> QED
      BY <3>1, <3>2, <1>k, <2>3 DEF MineOK
  <2> HIDE DEF j
  <2> QED
    BY <2>3, <2>4, <2>5, OneImport DEF j
<1> QED
  BY <1>1, <1>2, <1>3, <1>4, <1>5, <1>6, <1>7 DEF LegacyStep

LEMMA LegacyBegins == LegacyInit => LegacyInv
<1> SUFFICES ASSUME LegacyInit PROVE LegacyInv
  OBVIOUS
<1>1. legacy = [w \in Worker |-> NotImporting] /\ times = [e \in Entry |-> 0]
  BY DEF LegacyInit
<1>2. Imports = {}
  BY <1>1 DEF Imports
<1>3. LegacyTypeOK /\ TimesOK
  BY <1>1 DEF LegacyTypeOK, TimesOK
<1> QED
  BY <1>2, <1>3 DEF LegacyInv

LEMMA LegacyFollows ==
    ASSUME LegacyInv
    PROVE  LegacyExact
<1>1. ASSUME NEW w \in Imports
      PROVE  LET j == legacy[w] IN
             /\ j.imported = Cardinality(j.mine)
             /\ \A e \in j.mine :
                   /\ times[e] = 1
                   /\ \A v \in Imports \ {w} : e \notin legacy[v].mine
  BY <1>1 DEF LegacyInv, MineOK
<1>2. ASSUME NEW w \in Imports, legacy[w].row > Len(LegacyRows)
      PROVE  LET j == legacy[w] IN
             /\ j.importable + j.duplicates + Cardinality(j.failures)
                   = Len(LegacyRows)
             /\ IF j.dry THEN j.imported = 0
                ELSE /\ j.imported = j.importable
                     /\ \A n \in DOMAIN LegacyRows :
                           n \in j.failures \/ LegacyRows[n] \in stored
  <2> DEFINE j == legacy[w]
  <2>1. j \in LegacyJob /\ RowsOK(j)
    BY LegacyKinds DEF LegacyInv
  <2>2. /\ Len(LegacyRows) \in Nat /\ DOMAIN LegacyRows = 1..Len(LegacyRows)
        /\ j.row \in Int /\ j.imported \in Nat /\ j.row <= Len(LegacyRows) + 1
    BY <2>1, LegacyAssumption DEF LegacyAssumption, LegacyJob
  <2>3. j.row = Len(LegacyRows) + 1
    BY <2>2, <1>2
  <2>4. j.at = "row" /\ j.row - 1 = Len(LegacyRows)
    <3>1. j.at # "store"
      BY <2>1, <2>2, <2>3 DEF RowsOK
    <3> QED
      BY <3>1, <2>1, <2>2, <2>3, LegacyKinds
  <2>5. j.importable + j.duplicates + Cardinality(j.failures) = j.row - 1
    BY <2>1, <2>4 DEF RowsOK, Passed
  <2>6. j.dry => j.imported = 0
    BY <2>1 DEF RowsOK
  <2>7. ~j.dry => /\ j.importable = j.imported + 0
                  /\ \A n \in 1..(j.row - 1) :
                        n \in j.failures \/ LegacyRows[n] \in stored
    BY <2>1, <2>4 DEF RowsOK
  <2>8. ~j.dry => j.imported = j.importable
    BY <2>2, <2>7
  <2> HIDE DEF j
  <2> QED
    BY <2>2, <2>4, <2>5, <2>6, <2>7, <2>8 DEF j
<1>3. \A e \in Entry : /\ times[e] <= 1
                       /\ times[e] = 1 => e \in stored /\ vec[e] # None
  BY DEF LegacyInv, TimesOK
<1> QED
  BY <1>1, <1>2, <1>3 DEF LegacyExact

\* To the other parts, an import is a longer list of messages and vectors.
LEMMA LegacyMoves ==
    ASSUME TypeOK, EmbedsStored, LegacyInv, NEW w \in Worker, LegacyStep(w)
    PROVE  /\ UNCHANGED <<ops, summary, catalog, job, covered, listed>>
           /\ stored \subseteq stored' /\ stored' \subseteq Entry
           /\ vec' \in [Entry -> Backend \cup {None}]
           /\ \A e \in Entry : vec[e] # None => vec'[e] # None
           /\ EmbedsStored'
<1> DEFINE Grown == /\ stored \subseteq stored' /\ stored' \subseteq Entry
                    /\ vec' \in [Entry -> Backend \cup {None}]
                    /\ \A e \in Entry : vec[e] # None => vec'[e] # None
                    /\ Embedded' \subseteq stored'
<1>a. /\ stored \subseteq Entry /\ vec \in [Entry -> Backend \cup {None}]
      /\ Embedded \subseteq stored /\ None \notin Backend
      /\ BackendOf[w] \in Backend
      /\ \A n \in DOMAIN LegacyRows : LegacyRows[n] \in Entry \cup {None}
  BY LegacyAssumption, ProjectAssumption
  DEF TypeOK, EmbedsStored, LegacyAssumption, ProjectAssumption
<1>1. ASSUME UNCHANGED <<stored, vec>> PROVE Grown
  BY <1>1, <1>a DEF Embedded
<1>2. ASSUME NEW e \in Entry, FacadeStore(e, BackendOf[w]) PROVE Grown
  <2>1. CASE e \in stored
    BY <2>1, <1>2, <1>1 DEF FacadeStore
  <2>2. CASE e \notin stored
    <3>1. stored' = stored \cup {e} /\ vec' = [vec EXCEPT ![e] = BackendOf[w]]
      BY <2>2, <1>2 DEF FacadeStore
    <3> QED
      BY <3>1, <1>a DEF Embedded
  <2> QED
    BY <2>1, <2>2
<1>3. Grown /\ UNCHANGED <<ops, summary, catalog, job, covered, listed>>
  <2>1. CASE \/ LegacyBegin(w) \/ MalformedRow(w) \/ LookUp(w)
             \/ RowFails(w) \/ LegacyEnds(w)
    <3>1. UNCHANGED vars
      BY <2>1 DEF LegacyBegin, MalformedRow, LookUp, RowFails, LegacyEnds
    <3> QED
      BY <3>1, <1>1 DEF vars
  <2>2. CASE StoreRow(w)
    <3>1. /\ FacadeStore(LegacyRows[legacy[w].row], BackendOf[w])
          /\ legacy[w] # NotImporting /\ legacy[w].at = "store"
          /\ UNCHANGED <<ops, summary, catalog, job, covered, listed>>
      BY <2>2 DEF StoreRow, AtStore, RowOf
    <3>2. RowsOK(legacy[w]) /\ legacy[w] \in LegacyJob
      BY <3>1, LegacyKinds DEF LegacyInv, Imports
    <3>3. /\ legacy[w].row \in Nat \ {0} /\ Len(LegacyRows) \in Nat
          /\ DOMAIN LegacyRows = 1..Len(LegacyRows)
      BY <3>2, LegacyAssumption DEF LegacyJob, LegacyAssumption
    <3>4. LegacyRows[legacy[w].row] \in Entry
      BY <3>1, <3>2, <3>3, <1>a DEF RowsOK
    <3> QED
      BY <3>1, <3>4, <1>2
  <2>3. CASE MemoryStore(w)
    <3>1. PICK n \in DOMAIN LegacyRows :
            LegacyRows[n] # None /\ FacadeStore(LegacyRows[n], BackendOf[w])
      BY <2>3 DEF MemoryStore
    <3>2. LegacyRows[n] \in Entry
      BY <3>1, <1>a
    <3> QED
      BY <3>1, <3>2, <1>2, <2>3 DEF MemoryStore
  <2> QED
    BY <2>1, <2>2, <2>3 DEF LegacyStep
<1>4. EmbedsStored'
  BY <1>3 DEF EmbedsStored
<1> QED
  BY <1>3, <1>4

(***************************************************************************)
(* Aider's histories.  Induction over numbers, for a set of them.          *)
(***************************************************************************)
LEMMA NatFromSteps ==
    ASSUME NEW S \in SUBSET Nat, 0 \in S, \A n \in S : n + 1 \in S
    PROVE  S = Nat
<1> DEFINE R == OpToRel(<, Nat)
           T == Nat \ S
<1>1. IsWellFoundedOn(R, Nat)
  BY NatLessThanWellFounded
<1>2. SUFFICES ASSUME T # {} PROVE FALSE
  OBVIOUS
<1>3. T \subseteq Nat
  OBVIOUS
<1>4. \A x, y \in Nat : y < x => <<y, x>> \in R
  BY DEF OpToRel
<1> HIDE DEF R
<1>5. PICK x \in T : \A y \in T : ~(<<y, x>> \in R)
  <2> HIDE DEF T
  <2> QED BY <1>1, <1>2, <1>3, WFMin
<1>6. x # 0 /\ x - 1 \in Nat /\ x - 1 < x /\ x - 1 \notin S
  BY <1>5
<1> QED
  BY <1>4, <1>5, <1>6

\* g follows the loop over the first n lines.
Runs(g, format, ls, n) ==
    g = [k \in 0..n |-> IF k = 0 THEN NothingParsed
                        ELSE ParseLine(format, g[k - 1], ls[k])]

LEMMA RunExists ==
    ASSUME NEW format, NEW ls, NEW n \in Nat
    PROVE  \E g : Runs(g, format, ls, n)
<1> DEFINE S == {m \in Nat : \E g : Runs(g, format, ls, m)}
<1>1. 0 \in S
  <2> DEFINE g == [k \in 0..0 |-> NothingParsed]
  <2>1. Runs(g, format, ls, 0)
    BY DEF Runs
  <2> QED
    BY <2>1
<1>2. ASSUME NEW m \in S PROVE m + 1 \in S
  <2>1. PICK g : Runs(g, format, ls, m)
    OBVIOUS
  <2> DEFINE h == [k \in 0..(m + 1) |-> IF k = m + 1
                 THEN ParseLine(format, g[m], ls[k]) ELSE g[k]]
             e == [k \in 0..(m + 1) |-> IF k = 0 THEN NothingParsed
                        ELSE ParseLine(format, h[k - 1], ls[k])]
  <2>2. ASSUME NEW k \in 0..(m + 1) PROVE h[k] = e[k]
    <3>1. CASE k = m + 1
      <4>1. m \in 0..(m+1) /\ m # m + 1 /\ k - 1 = m /\ k # 0
        BY <3>1
      <4>2. h[k - 1] = g[m]
        BY <4>1
      <4> QED BY <4>1, <4>2, <3>1
    <3>2. CASE k \in 0..m
      <4>1. g[k] = IF k = 0
                THEN NothingParsed ELSE ParseLine(format, g[k - 1], ls[k])
        BY <2>1, <3>2 DEF Runs
      <4>2. k # 0 => k - 1 \in 0..(m+1) /\ k - 1 # m + 1
        BY <3>2
      <4>3. h[k] = g[k]
        BY <3>2
      <4>4. k # 0 => h[k - 1] = g[k - 1]
        BY <4>2
      <4> QED BY <4>1, <4>3, <4>4
    <3> QED BY <3>1, <3>2
  <2>3. h = e
    <3>1. DOMAIN h = 0..(m + 1) /\ DOMAIN e = 0..(m + 1)
      OBVIOUS
    <3> HIDE DEF h, e
    <3>2. h = [k \in 0..(m + 1) |-> h[k]] /\ e = [k \in 0..(m + 1) |-> e[k]]
      BY DEF h, e
    <3> QED BY <2>2, <3>2
  <2>4. Runs(h, format, ls, m + 1)
    BY <2>3 DEF Runs
  <2> QED
    BY <2>4
<1> HIDE DEF S
<1>3. S = Nat
  <2>1. S \in SUBSET Nat
    BY DEF S
  <2> QED
  BY <1>1, <1>2, <2>1, NatFromSteps
<1> QED
  BY <1>3 DEF S

LEMMA ParsedRuns ==
    ASSUME NEW format, NEW X, NEW ls \in Seq(X)
    PROVE  \E g : Runs(g, format, ls, Len(ls))
               /\ Parsed(format, ls) = g[Len(ls)]
<1> DEFINE g == CHOOSE f : Runs(f, format, ls, Len(ls))
<1>1. Runs(g, format, ls, Len(ls))
  <2>1. Len(ls) \in Nat
    OBVIOUS
  <2> QED
   BY <2>1, RunExists
<1>2. Parsed(format, ls) = g[Len(ls)]
  BY DEF Parsed, Runs
<1> QED
  BY <1>1, <1>2

\* Two runs agree as long as the lines do.
LEMMA RunsAgree ==
    ASSUME NEW format, NEW ls, NEW more, NEW g, NEW h, NEW n \in Nat,
           NEW m \in Nat,
           n <= m, Runs(g, format, ls, n), Runs(h, format, more, m),
           \A k \in 1..n : more[k] = ls[k]
    PROVE  g[n] = h[n]
<1> DEFINE S == {k \in Nat : k <= n => g[k] = h[k]}
<1>1. /\ \A k \in 0..n : g[k] = IF k = 0
             THEN NothingParsed ELSE ParseLine(format, g[k - 1], ls[k])
      /\ \A k \in 0..m : h[k] = IF k = 0
             THEN NothingParsed ELSE ParseLine(format, h[k - 1], more[k])
  BY DEF Runs
<1>2. 0 \in S
  BY <1>1
<1>3. ASSUME NEW k \in S PROVE k + 1 \in S
  <2>1. SUFFICES ASSUME k + 1 <= n PROVE g[k + 1] = h[k + 1]
    OBVIOUS
  <2>2. k + 1 \in 0..n /\ k + 1 \in 0..m /\ k + 1 # 0 /\ (k + 1) - 1 = k
            /\ k <= n /\ k + 1 \in 1..n
    BY <2>1
  <2>3. g[k] = h[k]
    BY <2>2
  <2>4. g[k + 1] = ParseLine(format, g[k], ls[k + 1])
            /\ h[k + 1] = ParseLine(format, h[k], more[k + 1])
    BY <1>1, <2>2
  <2> QED
    BY <2>2, <2>3, <2>4
<1> HIDE DEF S
<1>4. S \in SUBSET Nat
  BY DEF S
<1>5. S = Nat
  BY <1>2, <1>3, <1>4, NatFromSteps
<1> QED
  BY <1>5 DEF S

LEMMA ParsedGrows ==
    ASSUME NEW format, NEW ls \in Seq(Line), NEW l \in Line
    PROVE  /\ Parsed(format, <<>>) = NothingParsed
           /\ Parsed(format, Append(ls, l)) = ParseLine(format,
                  Parsed(format, ls), l)
<1>1. Parsed(format, <<>>) = NothingParsed
  <2>1. <<>> \in Seq(Line) /\ Len(<<>>) = 0
    OBVIOUS
  <2>2. PICK g : Runs(g, format, <<>>, 0) /\ Parsed(format, <<>>) = g[0]
    BY <2>1, ParsedRuns
  <2> QED
    BY <2>2 DEF Runs
<1>2. Parsed(format, Append(ls, l)) = ParseLine(format, Parsed(format, ls), l)
  <2> DEFINE more == Append(ls, l)
             n == Len(ls)
  <2>1. /\ more \in Seq(Line) /\ n \in Nat /\ Len(more) = n + 1
        /\ more[n + 1] = l /\ \A k \in 1..n : more[k] = ls[k]
    OBVIOUS
  <2>2. PICK g : Runs(g, format, ls, n) /\ Parsed(format, ls) = g[n]
    BY ParsedRuns
  <2> HIDE DEF more
  <2>3. PICK h : Runs(h, format, more, n + 1)
            /\ Parsed(format, more) = h[n + 1]
    BY <2>1, ParsedRuns
  <2> HIDE DEF n
  <2>4. g[n] = h[n]
    <3>1. n + 1 \in Nat /\ n <= n + 1
      BY <2>1
    <3>2. n \in Nat /\ \A k \in 1..n : more[k] = ls[k]
      BY <2>1
    <3>3. Runs(g, format, ls, n) /\ Runs(h, format, more, n + 1)
      BY <2>2, <2>3
    <3> DEFINE m == n + 1
    <3>4. m \in Nat /\ n <= m /\ Runs(h, format, more, m)
      BY <3>1, <3>3
    <3> HIDE DEF m
    <3> QED
      BY <3>2, <3>3, <3>4, RunsAgree
  <2>5. n + 1 \in 0..(n + 1) /\ n + 1 # 0 /\ (n + 1) - 1 = n
    BY <2>1
  <2>6. h[n + 1] = ParseLine(format, h[n], l)
    BY <2>1, <2>3, <2>5 DEF Runs
  <2> QED
    BY <2>2, <2>3, <2>4, <2>6 DEF more
<1> QED
  BY <1>1, <1>2

LEMMA HasLeast ==
    ASSUME NEW T \in SUBSET Nat, T # {}
    PROVE  \E x \in T : \A y \in T : x <= y
<1> DEFINE R == OpToRel(<, Nat)
<1>1. IsWellFoundedOn(R, Nat)
  BY NatLessThanWellFounded
<1>2. \A x, y \in Nat : y < x => <<y, x>> \in R
  BY DEF OpToRel
<1> HIDE DEF R
<1>3. T \subseteq Nat
  OBVIOUS
<1>4. PICK x \in T : \A y \in T : ~(<<y, x>> \in R)
  BY <1>1, <1>3, WFMin
<1>5. \A y \in T : ~(y < x)
  BY <1>2, <1>3, <1>4
<1> QED
  BY <1>3, <1>5

LEMMA HasGreatest ==
    ASSUME NEW n \in Nat, NEW T \in SUBSET (1..n), T # {}
    PROVE  \E x \in T : \A y \in T : y <= x
<1> DEFINE U == {k \in Nat : n - k \in T}
<1>1. U # {}
  <2>1. PICK x \in T : TRUE
    OBVIOUS
  <2>2. n - x \in Nat /\ n - (n - x) = x
    OBVIOUS
  <2> QED
    BY <2>1, <2>2
<1>2. PICK k \in U : \A m \in U : k <= m
  BY <1>1, HasLeast
<1>3. ASSUME NEW y \in T PROVE y <= n - k
  <2>1. n - y \in Nat /\ n - (n - y) = y /\ y \in 1..n
    OBVIOUS
  <2>2. k <= n - y
    BY <1>2, <2>1
  <2> QED
    BY <2>1, <2>2
<1> QED
  BY <1>2, <1>3

(***************************************************************************)
(* What is stripped runs from the first line that is not blank to the last *)
(* one.                                                                    *)
(***************************************************************************)
Bounds(ls, f, e) == /\ f \in Nonblank(ls) /\ e \in Nonblank(ls)
                    /\ \A n \in Nonblank(ls) : f <= n /\ n <= e

LEMMA StripRuns ==
    ASSUME NEW ls \in Seq(Line), Nonblank(ls) # {}
    PROVE  \E f, e \in 1..Len(ls) :
              /\ Bounds(ls, f, e) /\ Strip(ls) = SubSeq(ls, f, e)
<1> DEFINE used == Nonblank(ls)
           f == CHOOSE n \in used : \A m \in used : n <= m
           e == CHOOSE n \in used : \A m \in used : m <= n
<1>1. used \in SUBSET (1..Len(ls)) /\ Len(ls) \in Nat /\ used \in SUBSET Nat
  BY DEF Nonblank
<1>2. \E n \in used : \A m \in used : n <= m
  BY <1>1, HasLeast
<1>3. \E n \in used : \A m \in used : m <= n
  BY <1>1, HasGreatest
<1>4. f \in used /\ \A m \in used : f <= m
  BY <1>2
<1>5. e \in used /\ \A m \in used : m <= e
  BY <1>3
<1>6. Strip(ls) = SubSeq(ls, f, e)
  BY DEF Strip
<1> HIDE DEF f, e
<1> QED
  BY <1>1, <1>4, <1>5, <1>6 DEF Bounds

LEMMA StripLines ==
    ASSUME NEW ls \in Seq(Line), Nonblank(ls) # {}
    PROVE  /\ Strip(ls) \in Seq(Line)
           /\ {l \in Range(Strip(ls)) : l.kind # "blank"}
                = {l \in Range(ls) : l.kind # "blank"}
           /\ \E f \in Nat :
                 \A k \in DOMAIN Strip(ls) : f + k \in DOMAIN ls
                     /\ Strip(ls)[k] = ls[f + k]
<1>1. PICK f \in 1..Len(ls), e \in 1..Len(ls) :
         Bounds(ls, f, e) /\ Strip(ls) = SubSeq(ls, f, e)
  BY StripRuns
<1>2. /\ f <= e /\ Strip(ls) \in Seq(Line)
      /\ Len(Strip(ls)) = e - f + 1
      /\ \A k \in 1..(e - f + 1) : Strip(ls)[k] = ls[f + k - 1]
  BY <1>1 DEF Bounds
<1>3. {l \in Range(Strip(ls)) : l.kind # "blank"} \subseteq {l \in Range(ls) :
          l.kind # "blank"}
  BY <1>1, <1>2 DEF Range
<1>4. ASSUME NEW l \in Range(ls), l.kind # "blank" PROVE l \in Range(Strip(ls))
  <2>1. PICK n \in 1..Len(ls) : l = ls[n]
    BY DEF Range
  <2>2. f <= n /\ n <= e
    BY <1>1, <1>4, <2>1 DEF Bounds, Nonblank
  <2>3. n - f + 1 \in 1..(e - f + 1) /\ f + (n - f + 1) - 1 = n
    BY <2>2
  <2>4. n - f + 1 \in DOMAIN Strip(ls) /\ Strip(ls)[n - f + 1] = l
    BY <1>2, <2>1, <2>3
  <2> QED
    BY <2>4 DEF Range
<1>5. \A k \in DOMAIN Strip(ls) : (f - 1) + k \in DOMAIN ls
          /\ Strip(ls)[k] = ls[(f - 1) + k]
  BY <1>1, <1>2
<1> QED
  BY <1>2, <1>3, <1>4, <1>5

LEMMA StripGrows ==
    ASSUME NEW ls \in Seq(Line), NEW l \in Line, Nonblank(ls) # {}
    PROVE  IsPrefix(Strip(ls), Strip(Append(ls, l)))
               /\ Nonblank(Append(ls, l)) # {}
<1> DEFINE more == Append(ls, l)
<1>1. more \in Seq(Line) /\ Len(more) = Len(ls) + 1
      /\ \A k \in 1..Len(ls) : more[k] = ls[k]
  OBVIOUS
<1>2. PICK f \in 1..Len(ls), e \in 1..Len(ls) :
         Bounds(ls, f, e) /\ Strip(ls) = SubSeq(ls, f, e)
  BY StripRuns
<1>3. Nonblank(ls) \subseteq Nonblank(more)
          /\ Nonblank(more) \subseteq Nonblank(ls) \cup {Len(ls) + 1}
  BY <1>1 DEF Nonblank
<1> HIDE DEF more
<1>4. PICK g \in 1..Len(more), h \in 1..Len(more) :
         Bounds(more, g, h) /\ Strip(more) = SubSeq(more, g, h)
  BY <1>1, <1>2, <1>3, StripRuns
<1>5. g = f /\ e <= h
  BY <1>1, <1>2, <1>3, <1>4 DEF Bounds
<1>6. f <= e
  BY <1>2 DEF Bounds
<1>7. Len(SubSeq(ls, f, e)) = e - f + 1 /\ Len(SubSeq(more, f, h)) = h - f + 1
  BY <1>1, <1>4, <1>5, <1>6
<1>8. SubSeq(SubSeq(ls, f, e), 1, e - f + 1) = SubSeq(SubSeq(more, f, h), 1,
          e - f + 1)
  <2> DEFINE a == SubSeq(ls, f, e)
             b == SubSeq(more, f, h)
             n == e - f + 1
  <2>1. n \in Nat /\ n <= h - f + 1 /\ \A k \in 1..n : f + k - 1 \in 1..Len(ls)
    BY <1>5, <1>6
  <2>2. /\ a \in Seq(Line) /\ Len(a) = n
        /\ \A k \in 1..n : a[k] = ls[f + k - 1]
    BY <1>6
  <2>3. /\ b \in Seq(Line) /\ Len(b) = h - f + 1
        /\ \A k \in 1..(h - f + 1) : b[k] = more[f + k - 1]
    BY <1>1, <1>4, <1>5, <1>6
  <2>4. \A k \in 1..n : a[k] = b[k] /\ k \in 1..(h - f + 1)
    <3> HIDE DEF a, b, n
    <3> TAKE k \in 1..n
    <3>1. k \in 1..(h - f + 1) /\ f + k - 1 \in 1..Len(ls)
      BY <1>4, <2>1
    <3> QED
      BY <1>1, <2>2, <2>3, <3>1
  <2> HIDE DEF a, b, n
  <2>5. n <= Len(a) /\ n <= Len(b)
    BY <2>1, <2>2, <2>3
  <2>6. Len(SubSeq(a, 1, n)) = n /\ Len(SubSeq(b, 1, n)) = n
    BY <2>1, <2>2, <2>3, <2>5
  <2>7. \A k \in 1..n : SubSeq(a, 1, n)[k] = a[k] /\ SubSeq(b, 1, n)[k] = b[k]
    BY <2>1, <2>2, <2>3, <2>5
  <2>8. SubSeq(a, 1, n) \in Seq(Line) /\ SubSeq(b, 1, n) \in Seq(Line)
    BY <2>1, <2>2, <2>3, <2>5
  <2>9. SubSeq(a, 1, n) = SubSeq(b, 1, n)
    BY <2>4, <2>6, <2>7, <2>8
  <2> QED
    BY <2>9 DEF a, b, n
<1> QED
  BY <1>2, <1>3, <1>4, <1>5, <1>7, <1>8 DEF IsPrefix, more

(***************************************************************************)
(* The state of a parser.  One role at most is being collected.            *)
(***************************************************************************)
Parser == [user : Seq(Line), assistant : Seq(Line), tool : Seq(Line),
           fence : BOOLEAN, stamp : 0..MaxLines, turns : Seq(Turn)]

Pending(s) == s[Collecting(s)]

ParserOK(s) == /\ s \in Parser
               /\ \A r \in Roles : r # Collecting(s) => s[r] = <<>>

\* The turns if the file ended here.
Ended(s) ==
    IF Nonblank(Pending(s)) = {} THEN s.turns
    ELSE Append(s.turns,
        [role |-> Collecting(s), content |-> Strip(Pending(s)),
                          stamp |-> s.stamp])

LEMMA ParserFields ==
    ASSUME NEW s \in Parser
    PROVE  /\ s["user"] = s.user /\ s["assistant"] = s.assistant
           /\ s["tool"] = s.tool
           /\ \A r \in Roles : s[r] \in Seq(Line)
           /\ Collecting(s) \in Roles /\ Pending(s) \in Seq(Line)
           /\ s.fence \in BOOLEAN /\ s.stamp \in 0..MaxLines
           /\ s.turns \in Seq(Turn)
  BY DEF Parser, Roles, Collecting, Pending

LEMMA ParserChanges ==
    ASSUME NEW s \in Parser
    PROVE  /\ \A r \in Roles : \A ls \in Seq(Line) :
                  [s EXCEPT ![r] = ls] \in Parser
           /\ \A b \in BOOLEAN : [s EXCEPT !.fence = b] \in Parser
           /\ \A n \in 0..MaxLines : [s EXCEPT !.stamp = n] \in Parser
           /\ \A ts \in Seq(Turn) : [s EXCEPT !.turns = ts] \in Parser
<1>1. /\ s.user \in Seq(Line) /\ s.assistant \in Seq(Line)
      /\ s.tool \in Seq(Line)
      /\ s.fence \in BOOLEAN /\ s.stamp \in 0..MaxLines
      /\ s.turns \in Seq(Turn)
  BY DEF Parser
<1>2. ASSUME NEW r \in Roles, NEW ls \in Seq(Line)
      PROVE [s EXCEPT ![r] = ls] \in Parser
  BY DEF Parser, Roles
<1>3. ASSUME NEW b \in BOOLEAN PROVE [s EXCEPT !.fence = b] \in Parser
  BY <1>1 DEF Parser
<1>4. ASSUME NEW n \in 0..MaxLines PROVE [s EXCEPT !.stamp = n] \in Parser
  BY <1>1 DEF Parser
<1>5. ASSUME NEW ts \in Seq(Turn) PROVE [s EXCEPT !.turns = ts] \in Parser
  BY <1>1 DEF Parser
<1> QED
  BY <1>2, <1>3, <1>4, <1>5

LEMMA FlushDoes ==
    ASSUME NEW s \in Parser, NEW r \in Roles
    PROVE  LET t == Flush(s, r) IN
           /\ t \in Parser
           /\ t[r] = <<>> /\ \A q \in Roles \ {r} : t[q] = s[q]
           /\ t.fence = s.fence /\ t.stamp = s.stamp
           /\ t.turns = IF Nonblank(s[r]) = {} THEN s.turns
                        ELSE Append(s.turns,
                            [role |-> r, content |-> Strip(s[r]),
                                              stamp |-> s.stamp])
<1>1. s[r] \in Seq(Line) /\ s.turns \in Seq(Turn) /\ s.stamp \in 0..MaxLines
      /\ <<>> \in Seq(Line)
  BY ParserFields
<1> DEFINE emptied == [s EXCEPT ![r] = <<>>]
<1>2. emptied \in Parser
  BY <1>1, ParserChanges
<1>3. /\ emptied[r] = <<>> /\ \A q \in Roles \ {r} : emptied[q] = s[q]
      /\ emptied.fence = s.fence /\ emptied.stamp = s.stamp
      /\ emptied.turns = s.turns
  BY DEF Parser, Roles
<1>4. CASE Nonblank(s[r]) = {}
  <2>1. Flush(s, r) = emptied
    BY <1>4 DEF Flush
  <2> HIDE DEF emptied
  <2> QED
    BY <1>2, <1>3, <1>4, <2>1
<1>5. CASE Nonblank(s[r]) # {}
  <2> DEFINE new == [role |-> r, content |-> Strip(s[r]), stamp |-> s.stamp]
             ts == Append(s.turns, new)
  <2>1. new \in Turn
    BY <1>1, <1>5, StripLines DEF Turn
  <2>2. ts \in Seq(Turn)
    BY <1>1, <2>1
  <2>3. Flush(s, r) = [emptied EXCEPT !.turns = ts]
    BY <1>5 DEF Flush
  <2> HIDE DEF emptied, new, ts
  <2>4. [emptied EXCEPT !.turns = ts] \in Parser
    BY <1>2, <2>2, ParserChanges
  <2>5. LET t == [emptied EXCEPT !.turns = ts] IN
        /\ \A q \in Roles : t[q] = emptied[q]
        /\ t.fence = emptied.fence /\ t.stamp = emptied.stamp /\ t.turns = ts
    BY <1>2 DEF Parser, Roles
  <2>6. LET t == Flush(s, r) IN
        /\ t \in Parser
        /\ t[r] = <<>> /\ \A q \in Roles \ {r} : t[q] = s[q]
        /\ t.fence = s.fence /\ t.stamp = s.stamp /\ t.turns = ts
    BY <1>3, <2>3, <2>4, <2>5
  <2> QED
    BY <1>5, <2>6 DEF new, ts
<1> QED
  BY <1>4, <1>5

LEMMA CollectDoes ==
    ASSUME NEW s \in Parser, NEW r \in Roles, NEW l \in Line
    PROVE  LET t == Collect(s, r, l) IN
           /\ t \in Parser
           /\ t[r] = Append(s[r], l) /\ \A q \in Roles \ {r} : t[q] = s[q]
           /\ t.fence = s.fence /\ t.stamp = s.stamp /\ t.turns = s.turns
<1>1. Append(s[r], l) \in Seq(Line)
  BY ParserFields
<1> DEFINE t == [s EXCEPT ![r] = Append(s[r], l)]
<1>2. t = Collect(s, r, l)
  BY DEF Collect
<1>3. t \in Parser
  BY <1>1, ParserChanges
<1>4. /\ t[r] = Append(s[r], l) /\ \A q \in Roles \ {r} : t[q] = s[q]
      /\ t.fence = s.fence /\ t.stamp = s.stamp /\ t.turns = s.turns
  BY DEF Parser, Roles
<1> QED
  BY <1>2, <1>3, <1>4

LEMMA CollectingKnown ==
    ASSUME NEW s \in Parser, NEW r \in Roles,
           \A q \in Roles \ {r} : s[q] = <<>>, s[r] # <<>> \/ r = "assistant"
    PROVE  ParserOK(s) /\ Collecting(s) = r /\ Pending(s) = s[r]
<1>1. Collecting(s) = r
  BY ParserFields DEF Collecting, Roles
<1> QED
  BY <1>1 DEF ParserOK, Pending

LEMMA NothingCollected ==
    ASSUME NEW s, ParserOK(s), Pending(s) = <<>>
    PROVE  /\ \A q \in Roles : s[q] = <<>>
           /\ Collecting(s) = "assistant" /\ Ended(s) = s.turns
<1>1. s \in Parser
  BY DEF ParserOK
<1>2. \A q \in Roles : s[q] = <<>>
  BY DEF ParserOK, Pending
<1>3. Collecting(s) = "assistant"
  BY <1>1, <1>2, ParserFields DEF Collecting, Roles
<1>4. Nonblank(<<>>) = {}
  BY DEF Nonblank
<1> QED
  BY <1>2, <1>3, <1>4 DEF Ended

\* Flushing ends the turn that is being collected; for another role it does
\* nothing.
LEMMA FlushEnds ==
    ASSUME NEW s, ParserOK(s), NEW r \in Roles
    PROVE  LET t == Flush(s, r) IN
           /\ ParserOK(t) /\ t.fence = s.fence /\ t.stamp = s.stamp
           /\ t[r] = <<>> /\ \A q \in Roles \ {r} : t[q] = s[q]
           /\ t.turns = IF r = Collecting(s) THEN Ended(s) ELSE s.turns
<1> DEFINE t == Flush(s, r)
           c == Collecting(s)
<1>1. s \in Parser /\ c \in Roles /\ \A q \in Roles : q # c => s[q] = <<>>
  BY ParserFields DEF ParserOK
<1>2. /\ t \in Parser
      /\ t[r] = <<>> /\ \A q \in Roles \ {r} : t[q] = s[q]
      /\ t.fence = s.fence /\ t.stamp = s.stamp
      /\ t.turns = IF Nonblank(s[r]) = {} THEN s.turns
                   ELSE Append(s.turns, [role |-> r, content |-> Strip(s[r]),
                                              stamp |-> s.stamp])
  BY <1>1, FlushDoes
<1> HIDE DEF t
<1>3. CASE r = c
  <2>1. \A q \in Roles : t[q] = <<>>
    BY <1>1, <1>2, <1>3
  <2>2. ParserOK(t)
    BY <1>2, <2>1 DEF ParserOK
  <2>3. t.turns = Ended(s)
    BY <1>2, <1>3 DEF Ended, Pending
  <2> QED
    BY <1>2, <1>3, <2>2, <2>3 DEF t
<1>4. CASE r # c
  <2>1. s[r] = <<>> /\ Nonblank(s[r]) = {}
    BY <1>1, <1>4 DEF Nonblank
  <2>2. /\ \A q \in Roles : t[q] = s[q]
        /\ s["user"] = s.user /\ s["tool"] = s.tool
        /\ t["user"] = t.user /\ t["tool"] = t.tool
    BY <1>1, <1>2, <2>1, ParserFields
  <2>3. Collecting(t) = c
    BY <2>2 DEF Collecting, Roles
  <2>4. ParserOK(t)
    BY <1>1, <1>2, <2>2, <2>3 DEF ParserOK
  <2> QED
    BY <1>2, <1>4, <2>1, <2>4 DEF t
<1> QED
  BY <1>3, <1>4

\* The turns of a file that ends here.
LEMMA EndOfFile ==
    ASSUME NEW s, ParserOK(s)
    PROVE  /\ ChatTurns(s) = Ended(s)
           /\ s.assistant = <<>> /\ s.tool = <<>> => InputTurns(s) = Ended(s)
<1> DEFINE c == Collecting(s)
           f == Flush(s, "assistant")
           g == Flush(f, "user")
           h == Flush(g, "tool")
<1>1. s \in Parser /\ c \in Roles /\ \A q \in Roles : q # c => s[q] = <<>>
  BY ParserFields DEF ParserOK
<1>0. {"user", "assistant", "tool"} = Roles
  BY DEF Roles
<1>2. /\ ParserOK(f) /\ f["assistant"] = <<>>
      /\ f["user"] = s["user"] /\ f["tool"] = s["tool"]
      /\ f.turns = IF c = "assistant" THEN Ended(s) ELSE s.turns
      /\ f.stamp = s.stamp
  BY <1>0, FlushEnds
<1> HIDE DEF f
<1>3. /\ ParserOK(g) /\ g["user"] = <<>>
      /\ g["assistant"] = f["assistant"] /\ g["tool"] = f["tool"]
      /\ g.turns = IF Collecting(f) = "user" THEN Ended(f) ELSE f.turns
      /\ g.stamp = f.stamp
  BY <1>0, <1>2, FlushEnds
<1> HIDE DEF g
<1>4. h.turns = IF Collecting(g) = "tool" THEN Ended(g) ELSE g.turns
  BY <1>0, <1>3, FlushEnds
<1>5. /\ s["user"] = s.user /\ s["tool"] = s.tool
      /\ s["assistant"] = s.assistant
      /\ f["user"] = f.user /\ f["tool"] = f.tool
      /\ g["user"] = g.user /\ g["tool"] = g.tool
  BY <1>1, <1>2, <1>3, ParserFields DEF ParserOK
<1>6. ChatTurns(s) = h.turns
  BY DEF ChatTurns, f, g
<1> HIDE DEF h
<1>7. ASSUME c = "assistant" PROVE ChatTurns(s) = Ended(s)
  <2>1. f.user = <<>> /\ f.tool = <<>> /\ g.user = <<>> /\ g.tool = <<>>
    BY <1>0, <1>1, <1>2, <1>3, <1>5, <1>7
  <2>2. Collecting(f) = "assistant" /\ Collecting(g) = "assistant"
    BY <2>1 DEF Collecting
  <2> QED
    BY <1>2, <1>3, <1>4, <1>6, <1>7, <2>2
<1>8. ASSUME c = "user" PROVE ChatTurns(s) = Ended(s)
  <2>1. f.user = s.user /\ f.tool = s.tool /\ g.user = <<>> /\ g.tool = <<>>
    BY <1>0, <1>1, <1>2, <1>3, <1>5, <1>8
  <2>2. Collecting(f) = "user" /\ Collecting(g) = "assistant"
    BY <2>1, <1>8 DEF Collecting
  <2>3. Ended(f) = Ended(s)
    BY <1>2, <1>8, <2>1, <2>2 DEF Ended, Pending
  <2> QED
    BY <1>2, <1>3, <1>4, <1>6, <1>8, <2>2, <2>3
<1>9. ASSUME c = "tool" PROVE ChatTurns(s) = Ended(s)
  <2>1. f.user = s.user /\ f.tool = s.tool /\ g.user = <<>> /\ g.tool = s.tool
    BY <1>0, <1>1, <1>2, <1>3, <1>5, <1>9
  <2>2. Collecting(f) = "tool" /\ Collecting(g) = "tool"
    BY <2>1, <1>0, <1>1, <1>5, <1>9 DEF Collecting
  <2>3. Ended(g) = Ended(s)
    BY <1>2, <1>3, <1>9, <2>1, <2>2 DEF Ended, Pending
  <2> QED
    BY <1>2, <1>3, <1>4, <1>6, <1>9, <2>2, <2>3
<1>10. ASSUME s.assistant = <<>>, s.tool = <<>> PROVE InputTurns(s) = Ended(s)
  <2> DEFINE t == Flush(s, "user")
  <2>1. ParserOK(t) /\ t.turns = IF c = "user" THEN Ended(s) ELSE s.turns
    BY <1>0, FlushEnds
  <2> HIDE DEF t
  <2>2. [t EXCEPT !.stamp = 0].turns = t.turns
    BY <2>1 DEF ParserOK, Parser
  <2>3. InputTurns(s) = t.turns
    BY <2>2 DEF InputTurns, FlushEntry, t
  <2>4. c # "user" => Pending(s) = <<>>
    BY <1>0, <1>1, <1>5, <1>10 DEF Pending
  <2> QED
    BY <2>1, <2>3, <2>4, NothingCollected
<1> QED
  BY <1>0, <1>1, <1>7, <1>8, <1>9, <1>10

\* A line of this state that will be found in the turns.
Taken(format, s, l) ==
    IF format = "chat"
    THEN l.kind # "blank" /\ (l.kind \in {"session", "heading"} => s.fence)
    ELSE l.kind = "text"

(***************************************************************************)
(* What a line does: it joins what is collected, begins a turn, ends one   *)
(* or is skipped.                                                          *)
(***************************************************************************)
Moved(s, t, l, taken) ==
    /\ ParserOK(t)
    /\ \/ /\ t.turns = s.turns /\ t.stamp = s.stamp
          /\ Pending(t) = Append(Pending(s), l)
          /\ Collecting(t) = Collecting(s)
          /\ taken \/ l.kind = "blank"
       \/ /\ t.turns = Ended(s) /\ Pending(t) = <<l>>
          /\ taken \/ l.kind = "blank"
       \/ /\ t.turns = Ended(s) /\ Pending(t) = <<>>
          /\ ~taken
       \/ /\ t.turns = s.turns
          /\ Pending(t) = Pending(s) /\ Collecting(t) = Collecting(s)
          /\ ~taken

MovedAside(s, t, l) == Moved(s, t, l, TRUE) /\ t.fence = s.fence

\* A marker: what other roles have collected is a turn.
LEMMA MarkerMoves ==
    ASSUME NEW s, ParserOK(s), NEW l \in Line,
           NEW r \in Roles, NEW p \in Roles, NEW q \in Roles,
           r # p, r # q, p # q,
           NEW t, t = Collect(Flush(Flush(s, p), q), r, l)
    PROVE  MovedAside(s, t, l)
<1> DEFINE f == Flush(s, p)
           g == Flush(f, q)
           c == Collecting(s)
<1>0. Roles = {r, p, q}
  BY DEF Roles
<1>1. /\ ParserOK(f) /\ f.fence = s.fence /\ f.stamp = s.stamp
      /\ f[p] = <<>> /\ f[q] = s[q] /\ f[r] = s[r]
      /\ f.turns = IF p = c THEN Ended(s) ELSE s.turns
  BY <1>0, FlushEnds
<1> HIDE DEF f
<1>2. /\ ParserOK(g) /\ g.fence = s.fence /\ g.stamp = s.stamp
      /\ g[q] = <<>> /\ g[p] = <<>> /\ g[r] = s[r]
      /\ g.turns = IF q = Collecting(f) THEN Ended(f) ELSE f.turns
  BY <1>0, <1>1, FlushEnds
<1>3. t = Collect(g, r, l)
  BY DEF f
<1> HIDE DEF g
<1>4. /\ t \in Parser
      /\ t[r] = Append(s[r], l) /\ t[q] = <<>> /\ t[p] = <<>>
      /\ t.fence = s.fence /\ t.stamp = s.stamp /\ t.turns = g.turns
  <2>1. g \in Parser
    BY <1>2 DEF ParserOK
  <2>2. /\ t \in Parser
        /\ t[r] = Append(g[r], l) /\ \A x \in Roles \ {r} : t[x] = g[x]
        /\ t.fence = g.fence /\ t.stamp = g.stamp /\ t.turns = g.turns
    BY <1>3, <2>1, CollectDoes
  <2> QED
    BY <1>0, <1>2, <2>2
<1>5. s \in Parser /\ s[r] \in Seq(Line) /\ c \in Roles
      /\ \A x \in Roles : x # c => s[x] = <<>>
  BY ParserFields DEF ParserOK
<1>6. Append(s[r], l) # <<>>
  BY <1>5
<1>7. ParserOK(t) /\ Collecting(t) = r /\ Pending(t) = Append(s[r], l)
  BY <1>0, <1>4, <1>6, CollectingKnown
<1>8. CASE s[r] # <<>>
  <2>1. c = r /\ Pending(s) = s[r]
    BY <1>5, <1>8 DEF Pending
  <2>2. Collecting(f) = r
    BY <1>0, <1>1, <1>8 DEF ParserOK
  <2>3. t.turns = s.turns
    BY <1>1, <1>2, <1>4, <2>1, <2>2
  <2> QED
    BY <1>4, <1>3, <1>7, <2>1, <2>3 DEF Moved, MovedAside
<1>9. CASE s[r] = <<>>
  <2>1. Append(s[r], l) = <<l>>
    BY <1>9
  <2>2. g.turns = Ended(s)
    <3>1. CASE c = p
      <4>1. f.turns = Ended(s) /\ Pending(f) = <<>>
        BY <1>0, <1>1, <1>5, <1>9, <3>1, ParserFields DEF Pending, ParserOK
      <4> QED
        BY <1>1, <1>2, <4>1, NothingCollected
    <3>2. CASE c = q
      <4>1. f.turns = s.turns
        BY <1>1, <3>2
      <4>2. CASE s[q] # <<>>
        <5>1. Collecting(f) = q /\ Pending(f) = Pending(s)
          BY <1>0, <1>1, <1>5, <3>2, <4>2 DEF ParserOK, Pending
        <5>2. Ended(f) = Ended(s)
          BY <1>1, <3>2, <4>1, <5>1 DEF Ended
        <5> QED
          BY <1>2, <5>1, <5>2
      <4>3. CASE s[q] = <<>>
        <5>1. Pending(s) = <<>> /\ Pending(f) = <<>>
          BY <1>0, <1>1, <1>9, <3>2, <4>3, ParserFields DEF Pending, ParserOK
        <5> QED
          BY <1>1, <1>2, <4>1, <5>1, NothingCollected
      <4> QED
        BY <4>2, <4>3
    <3>3. CASE c = r
      <4>1. Pending(s) = <<>> /\ f.turns = s.turns
        BY <1>1, <1>9, <3>3 DEF Pending
      <4>2. Pending(f) = <<>>
        BY <1>0, <1>1, <1>5, <1>9, <3>3, ParserFields DEF Pending, ParserOK
      <4> QED
        BY <1>1, <1>2, <4>1, <4>2, NothingCollected
    <3> QED
      BY <1>0, <1>5, <3>1, <3>2, <3>3
  <2> QED
    BY <1>4, <1>3, <1>7, <2>1, <2>2 DEF Moved, MovedAside
<1> QED
  BY <1>8, <1>9

LEMMA LineMoves ==
    ASSUME NEW s, ParserOK(s), NEW format \in DOMAIN LineKinds, NEW l \in Line,
           l.kind \in LineKinds[format],
           format # "chat" => s.assistant = <<>> /\ s.tool = <<>>
    PROVE  LET t == ParseLine(format, s, l) IN
           /\ Moved(s, t, l, Taken(format, s, l))
           /\ format = "chat" =>
                 t.fence = IF l.kind = "fence" THEN ~s.fence ELSE s.fence
           /\ format # "chat" => t.assistant = <<>> /\ t.tool = <<>>
<1> DEFINE c == Collecting(s)
<1>1. /\ s \in Parser /\ c \in Roles /\ s.fence \in BOOLEAN
      /\ \A q \in Roles : q # c => s[q] = <<>>
      /\ s[c] = Pending(s) /\ s[c] \in Seq(Line)
      /\ s["user"] = s.user /\ s["tool"] = s.tool
      /\ s["assistant"] = s.assistant
  BY ParserFields DEF ParserOK, Pending
<1>0. {"user", "assistant", "tool"} = Roles /\ l.at \in 0..MaxLines
  BY DEF Roles, Line
<1>2. \A n \in 0..MaxLines :
         LET t == [s EXCEPT !.stamp = n] IN
         /\ ParserOK(t) /\ t.turns = s.turns /\ t.fence = s.fence
         /\ Pending(t) = Pending(s) /\ Collecting(t) = Collecting(s)
  <2> TAKE n \in 0..MaxLines
  <2> DEFINE t == [s EXCEPT !.stamp = n]
  <2>1. t \in Parser
    BY <1>1, ParserChanges
  <2>2. /\ t.turns = s.turns /\ t.fence = s.fence /\ \A q \in Roles :
               t[q] = s[q]
        /\ t.user = s.user /\ t.tool = s.tool
    BY <1>1 DEF Parser, Roles
  <2> HIDE DEF t
  <2>3. Collecting(t) = c
    BY <2>2 DEF Collecting
  <2> QED
    BY <1>1, <2>1, <2>2, <2>3 DEF ParserOK, Pending, t
<1>3. LET t == Collect(s, c, l) IN
      /\ t \in Parser /\ ParserOK(t) /\ t.turns = s.turns /\ t.stamp = s.stamp
      /\ t.fence = s.fence
      /\ Pending(t) = Append(Pending(s), l) /\ Collecting(t) = c
  <2> DEFINE t == Collect(s, c, l)
  <2>1. /\ t \in Parser
        /\ t[c] = Append(s[c], l) /\ \A q \in Roles \ {c} : t[q] = s[q]
        /\ t.fence = s.fence /\ t.stamp = s.stamp /\ t.turns = s.turns
    BY <1>1, CollectDoes
  <2> HIDE DEF t
  <2>2. t[c] # <<>>
    BY <1>1, <2>1
  <2>3. ParserOK(t) /\ Collecting(t) = c /\ Pending(t) = t[c]
    BY <1>1, <2>1, <2>2, CollectingKnown
  <2>4. Pending(t) = Append(Pending(s), l)
    BY <1>1, <2>1, <2>3
  <2>5. /\ t \in Parser /\ ParserOK(t) /\ t.turns = s.turns
        /\ t.stamp = s.stamp
        /\ t.fence = s.fence
        /\ Pending(t) = Append(Pending(s), l) /\ Collecting(t) = c
    BY <2>1, <2>3, <2>4
  <2> QED
    BY <2>5 DEF t
<1>4. CASE format = "chat"
  <2> DEFINE t == ChatLine(s, l)
  <2>1. ParseLine(format, s, l) = t
            /\ l.kind \in {"user", "tool", "text", "blank", "fence",
                   "session", "heading"}
    BY <1>4 DEF ParseLine, LineKinds
  <2>2. SUFFICES Moved(s, t, l, Taken(format, s, l))
                     /\ t.fence = IF l.kind = "fence"
                            THEN ~s.fence ELSE s.fence
    BY <1>4, <2>1
  <2>3. CASE l.kind = "fence"
    <3> DEFINE u == Collect(s, c, l)
    <3>1. t = [u EXCEPT !.fence = ~s.fence]
      BY <1>3, <2>3 DEF ChatLine
    <3> HIDE DEF u, t
    <3>2. u \in Parser /\ ParserOK(u) /\ u.turns = s.turns /\ u.stamp = s.stamp
          /\ Pending(u) = Append(Pending(s), l) /\ Collecting(u) = c
      BY <1>3 DEF u
    <3>3. /\ t \in Parser /\ t.turns = u.turns /\ t.stamp = u.stamp
          /\ t.fence = ~s.fence
          /\ \A q \in Roles : t[q] = u[q]
          /\ t.user = u.user /\ t.tool = u.tool
      <4>1. t \in Parser
        BY <1>1, <3>1, <3>2, ParserChanges
      <4> QED
        BY <3>1, <3>2, <4>1 DEF Parser, Roles
    <3>4. Collecting(t) = Collecting(u)
      BY <3>3 DEF Collecting
    <3>5. ParserOK(t) /\ Pending(t) = Pending(u)
      BY <1>1, <3>2, <3>3, <3>4 DEF ParserOK, Pending
    <3>6. Taken(format, s, l)
      BY <1>4, <2>3 DEF Taken
    <3> QED
      BY <2>3, <3>2, <3>3, <3>4, <3>5, <3>6 DEF Moved
  <2>4. CASE l.kind # "fence" /\ s.fence
    <3>1. t = Collect(s, c, l)
      BY <2>4 DEF ChatLine
    <3>2. Taken(format, s, l) \/ l.kind = "blank"
      BY <1>4, <2>4 DEF Taken
    <3> HIDE DEF t
    <3> QED
      BY <1>3, <2>4, <3>1, <3>2 DEF Moved
  <2>5. CASE ~s.fence /\ l.kind = "session"
    <3>1. t = [s EXCEPT !.stamp = l.at]
      BY <2>5 DEF ChatLine
    <3>2. ~Taken(format, s, l)
      BY <1>4, <2>5 DEF Taken
    <3> HIDE DEF t
    <3> QED
      BY <1>0, <1>2, <2>5, <3>1, <3>2 DEF Moved
  <2>6. CASE ~s.fence /\ l.kind = "heading"
    <3>1. t = s
      BY <2>6 DEF ChatLine
    <3>2. ~Taken(format, s, l)
      BY <1>4, <2>6 DEF Taken
    <3> QED
      BY <2>6, <3>1, <3>2 DEF Moved
  <2>7. CASE ~s.fence /\ l.kind \in {"tool", "user", "text", "blank"}
    <3>1. \E r, p, q \in Roles :
             r # p /\ r # q /\ p # q
                 /\ t = Collect(Flush(Flush(s, p), q), r, l)
      <4>1. CASE l.kind = "tool"
        BY <1>0, <2>7, <4>1 DEF ChatLine
      <4>2. CASE l.kind = "user"
        BY <1>0, <2>7, <4>2 DEF ChatLine
      <4>3. CASE l.kind \in {"text", "blank"}
        BY <1>0, <2>7, <4>3 DEF ChatLine
      <4> QED
        BY <2>7, <4>1, <4>2, <4>3
    <3>2. Moved(s, t, l, TRUE) /\ t.fence = s.fence
      <4>1. PICK r \in Roles, p \in Roles, q \in Roles :
               /\ r # p /\ r # q /\ p # q
               /\ t = Collect(Flush(Flush(s, p), q), r, l)
        BY <3>1
      <4> HIDE DEF t
      <4>2. MovedAside(s, t, l)
        BY <4>1, MarkerMoves
      <4> QED
        BY <4>2 DEF MovedAside
    <3>3. Taken(format, s, l) \/ l.kind = "blank"
      BY <1>4, <2>7 DEF Taken
    <3> HIDE DEF t
    <3> QED
      BY <2>7, <3>2, <3>3 DEF Moved
  <2> QED
    BY <1>1, <2>1, <2>3, <2>4, <2>5, <2>6, <2>7
<1>5. CASE format # "chat"
  <2> DEFINE t == InputLine(s, l)
  <2>1. /\ ParseLine(format, s, l) = t /\ s.assistant = <<>> /\ s.tool = <<>>
        /\ l.kind \in {"session", "text", "blank", "other"}
    BY <1>5 DEF ParseLine, LineKinds
  <2>2. SUFFICES Moved(s, t, l, Taken(format, s, l)) /\ t.assistant = <<>>
                     /\ t.tool = <<>>
    BY <1>5, <2>1
  <2>3. CASE l.kind = "session"
    <3> DEFINE f == Flush(s, "user")
               g == [f EXCEPT !.stamp = 0]
    <3>1. /\ f \in Parser /\ f.turns = IF c = "user" THEN Ended(s) ELSE s.turns
          /\ \A q \in Roles : f[q] = <<>>
      <4>1. ParserOK(f) /\ f.turns = (IF c = "user" THEN Ended(s) ELSE s.turns)
            /\ f["user"] = <<>> /\ \A q \in Roles \ {"user"} : f[q] = s[q]
        BY <1>0, FlushEnds
      <4> QED
        BY <1>0, <1>1, <2>1, <4>1 DEF ParserOK, Roles
    <3> HIDE DEF f
    <3>2. g \in Parser /\ g.turns = f.turns /\ \A q \in Roles : g[q] = f[q]
      <4>1. g \in Parser
        BY <3>1, ParserChanges, AiderAssumption DEF AiderAssumption
      <4> QED
        BY <3>1, <4>1 DEF Parser, Roles
    <3>3. t = [g EXCEPT !.stamp = l.at]
      BY <2>3 DEF InputLine, FlushEntry, f
    <3> HIDE DEF g, t
    <3>4. /\ t \in Parser /\ t.turns = f.turns /\ \A q \in Roles : t[q] = <<>>
          /\ t.assistant = <<>> /\ t.tool = <<>>
      <4>1. t \in Parser
        BY <1>0, <3>2, <3>3, ParserChanges
      <4>2. t.turns = g.turns /\ \A q \in Roles : t[q] = g[q]
        BY <3>2, <3>3 DEF Parser, Roles
      <4> QED
        BY <1>0, <3>1, <3>2, <4>1, <4>2, ParserFields
    <3>5. ParserOK(t) /\ Pending(t) = <<>>
      BY <3>4, ParserFields DEF ParserOK, Pending
    <3>6. t.turns = Ended(s)
      <4>1. c # "user" => Pending(s) = <<>>
        BY <1>0, <1>1, <2>1 DEF Pending
      <4> QED
        BY <3>1, <3>4, <4>1, NothingCollected
    <3>7. ~Taken(format, s, l)
      BY <1>5, <2>3 DEF Taken
    <3> QED
      BY <3>4, <3>5, <3>6, <3>7 DEF Moved
  <2>4. CASE l.kind \in {"text", "blank"}
    <3>1. t = Collect(s, "user", l)
      BY <2>4 DEF InputLine
    <3> HIDE DEF t
    <3>9. "user" \in Roles /\ "assistant" \in Roles \ {"user"}
              /\ "tool" \in Roles \ {"user"}
      BY <1>0
    <3>2. /\ t \in Parser
          /\ t["user"] = Append(s["user"], l) /\ \A q \in Roles \ {"user"} :
                 t[q] = s[q]
          /\ t.fence = s.fence /\ t.stamp = s.stamp /\ t.turns = s.turns
      BY <1>1, <3>1, <3>9, CollectDoes
    <3>3. t["user"] # <<>> /\ t["assistant"] = <<>> /\ t["tool"] = <<>>
      <4>1. s["user"] \in Seq(Line)
        BY <1>1, <3>9, ParserFields
      <4>2. Append(s["user"], l) # <<>>
        BY <4>1
      <4> QED
        BY <1>1, <2>1, <3>2, <3>9, <4>2
    <3>4. ParserOK(t) /\ Collecting(t) = "user"
              /\ Pending(t) = Append(s["user"], l)
      BY <1>0, <3>2, <3>3, CollectingKnown
    <3>5. t.assistant = <<>> /\ t.tool = <<>>
      BY <3>2, <3>3, ParserFields
    <3>6. Taken(format, s, l) \/ l.kind = "blank"
      BY <1>5, <2>4 DEF Taken
    <3>7. CASE s["user"] # <<>>
      <4>1. c = "user"
        BY <1>0, <1>1, <3>7
      <4> QED
        BY <1>1, <3>2, <3>4, <3>5, <3>6, <4>1 DEF Moved
    <3>8. CASE s["user"] = <<>>
      <4>1. Pending(s) = <<>>
        BY <1>0, <1>1, <2>1, <3>8 DEF Pending
      <4>2. t.turns = Ended(s) /\ Pending(t) = <<l>>
        BY <3>2, <3>4, <3>8, <4>1, NothingCollected
      <4> QED
        BY <3>4, <3>5, <3>6, <4>2 DEF Moved
    <3> QED
      BY <3>7, <3>8
  <2>5. CASE l.kind = "other"
    <3>1. t = s
      BY <2>5 DEF InputLine
    <3>2. ~Taken(format, s, l)
      BY <1>5, <2>5 DEF Taken
    <3> QED
      BY <2>1, <3>1, <3>2 DEF Moved
  <2> QED
    BY <2>1, <2>3, <2>4, <2>5
<1> QED
  BY <1>4, <1>5

(***************************************************************************)
(* Reading on: every turn keeps its place and role and gains lines at its  *)
(* end at most, and every turn but the last is as it was.                  *)
(***************************************************************************)
Follows(old, new) ==
    /\ Len(old) <= Len(new)
    /\ \A n \in DOMAIN old :
          /\ new[n].role = old[n].role
          /\ IsPrefix(old[n].content, new[n].content)
          /\ n < Len(old) => new[n] = old[n]

LEMMA PrefixFacts ==
    /\ \A a \in Seq(Line) : IsPrefix(a, a)
    /\ \A a, b, c \in Seq(Line) : IsPrefix(a, b) /\ IsPrefix(b, c) =>
           IsPrefix(a, c)
<1>1. ASSUME NEW a \in Seq(Line) PROVE IsPrefix(a, a)
  BY DEF IsPrefix
<1>2. ASSUME NEW a \in Seq(Line), NEW b \in Seq(Line), NEW c \in Seq(Line),
             IsPrefix(a, b), IsPrefix(b, c)
      PROVE  IsPrefix(a, c)
  <2>1. Len(a) <= Len(b) /\ Len(b) <= Len(c)
    BY <1>2 DEF IsPrefix
  <2>2. /\ SubSeq(a, 1, Len(a)) = SubSeq(b, 1, Len(a))
        /\ SubSeq(b, 1, Len(b)) = SubSeq(c, 1, Len(b))
    BY <1>2 DEF IsPrefix
  <2>3. \A k \in 1..Len(b) : b[k] = c[k]
    <3> TAKE k \in 1..Len(b)
    <3>1. SubSeq(b, 1, Len(b))[k] = b[k] /\ SubSeq(c, 1, Len(b))[k] = c[k]
      BY <2>1
    <3> QED
      BY <2>2, <3>1
  <2> DEFINE x == SubSeq(b, 1, Len(a))
             y == SubSeq(c, 1, Len(a))
  <2>4. /\ x \in Seq(Line) /\ y \in Seq(Line) /\ Len(x) = Len(a)
        /\ Len(y) = Len(a)
        /\ \A k \in 1..Len(a) : x[k] = b[k] /\ y[k] = c[k]
    BY <2>1
  <2> HIDE DEF x, y
  <2>5. x = y
    BY <2>1, <2>3, <2>4
  <2> QED
    BY <2>1, <2>2, <2>5 DEF IsPrefix, x, y
<1> QED
  BY <1>1, <1>2

LEMMA EndedTurns ==
    ASSUME NEW s, ParserOK(s)
    PROVE  /\ Ended(s) \in Seq(Turn) /\ s.turns \in Seq(Turn)
           /\ Len(Ended(s)) = IF Nonblank(Pending(s)) = {} THEN Len(s.turns)
                              ELSE Len(s.turns) + 1
<1>1. /\ s.turns \in Seq(Turn) /\ Pending(s) \in Seq(Line)
      /\ Collecting(s) \in Roles
      /\ s.stamp \in 0..MaxLines
  BY ParserFields DEF ParserOK
<1>2. CASE Nonblank(Pending(s)) = {}
  BY <1>1, <1>2 DEF Ended
<1>3. CASE Nonblank(Pending(s)) # {}
  <2> DEFINE new == [role |-> Collecting(s), content |-> Strip(Pending(s)),
                          stamp |-> s.stamp]
  <2>1. new \in Turn
    BY <1>1, <1>3, StripLines DEF Turn
  <2>2. Ended(s) = Append(s.turns, new)
    BY <1>3 DEF Ended
  <2> HIDE DEF new
  <2> QED
    BY <1>1, <1>3, <2>1, <2>2
<1> QED
  BY <1>2, <1>3

LEMMA FollowsAppend ==
    ASSUME NEW ts \in Seq(Turn), NEW x \in Turn, NEW y \in Turn,
           y.role = x.role, IsPrefix(x.content, y.content)
    PROVE  /\ Follows(ts, ts) /\ Follows(ts, Append(ts, y))
           /\ Follows(Append(ts, x), Append(ts, y))
<1>1. \A n \in DOMAIN ts : ts[n].content \in Seq(Line)
  <2>1. \A n \in DOMAIN ts : ts[n] \in Turn
    OBVIOUS
  <2>2. \A z \in Turn : z.content \in Seq(Line)
    BY DEF Turn
  <2> QED
    BY <2>1, <2>2
<1>2. Follows(ts, ts)
  BY <1>1, PrefixFacts DEF Follows
<1> DEFINE a == Append(ts, x)
           b == Append(ts, y)
<1>3. /\ Len(a) = Len(ts) + 1 /\ DOMAIN a = 1..(Len(ts) + 1)
      /\ a[Len(ts) + 1] = x /\ \A n \in DOMAIN ts : a[n] = ts[n]
  OBVIOUS
<1>4. /\ Len(b) = Len(ts) + 1
      /\ b[Len(ts) + 1] = y /\ \A n \in DOMAIN ts : b[n] = ts[n]
  OBVIOUS
<1>5. DOMAIN ts = 1..Len(ts) /\ Len(ts) \in Nat
  OBVIOUS
<1> HIDE DEF a, b
<1>6. Follows(ts, b)
  BY <1>1, <1>4, <1>5, PrefixFacts DEF Follows
<1>7. Follows(a, b)
  <2>1. Len(a) <= Len(b)
    BY <1>3, <1>4, <1>5
  <2>2. ASSUME NEW n \in DOMAIN a
        PROVE  /\ b[n].role = a[n].role /\ IsPrefix(a[n].content, b[n].content)
               /\ n < Len(a) => b[n] = a[n]
    <3>1. CASE n = Len(ts) + 1
      BY <1>3, <1>4, <1>5, <3>1
    <3>2. CASE n \in DOMAIN ts
      BY <1>1, <1>3, <1>4, <1>5, <3>2, PrefixFacts
    <3> QED
      BY <1>3, <1>5, <3>1, <3>2
  <2> QED
    BY <2>1, <2>2 DEF Follows
<1> QED
  BY <1>2, <1>6, <1>7 DEF a, b

LEMMA EndedFollows ==
    ASSUME NEW s, ParserOK(s), NEW t, NEW l \in Line, NEW taken \in BOOLEAN,
           Moved(s, t, l, taken)
    PROVE  Follows(Ended(s), Ended(t))
<1> DEFINE New(u) == [role |-> Collecting(u), content |-> Strip(Pending(u)),
                          stamp |-> u.stamp]
<1>1. /\ ParserOK(t) /\ Ended(s) \in Seq(Turn) /\ Ended(t) \in Seq(Turn)
      /\ s.turns \in Seq(Turn) /\ t.turns \in Seq(Turn)
      /\ Pending(s) \in Seq(Line) /\ Pending(t) \in Seq(Line)
  BY EndedTurns, ParserFields DEF Moved, ParserOK
<1>2. ASSUME NEW u, ParserOK(u), Nonblank(Pending(u)) # {}
      PROVE  New(u) \in Turn /\ Ended(u) = Append(u.turns, New(u))
                 /\ Strip(Pending(u)) \in Seq(Line)
  <2>1. /\ Pending(u) \in Seq(Line) /\ Collecting(u) \in Roles
      /\ u.stamp \in 0..MaxLines
    BY <1>2, ParserFields DEF ParserOK
  <2>2. Strip(Pending(u)) \in Seq(Line)
    BY <1>2, <2>1, StripLines
  <2> QED
    BY <1>2, <2>1, <2>2 DEF Turn, Ended
<1>3. ASSUME NEW u, ParserOK(u) PROVE Follows(u.turns, Ended(u))
                 /\ Follows(Ended(u), Ended(u))
  <2>1. u.turns \in Seq(Turn)
    BY <1>3, EndedTurns
  <2>2. \A x \in Turn : x.content \in Seq(Line)
    BY DEF Turn
  <2>3. CASE Nonblank(Pending(u)) # {}
    <3>1. New(u) \in Turn /\ Ended(u) = Append(u.turns, New(u))
      BY <1>2, <1>3, <2>3
    <3> HIDE DEF New
    <3>2. IsPrefix(New(u).content, New(u).content)
      BY <2>2, <3>1, PrefixFacts
    <3> QED
      BY <2>1, <3>1, <3>2, FollowsAppend
  <2>4. CASE Nonblank(Pending(u)) = {}
    <3>1. Follows(u.turns, u.turns)
      <4>1. \A n \in DOMAIN u.turns : u.turns[n].content \in Seq(Line)
        BY <2>1, <2>2
      <4> QED
        BY <2>1, <4>1, PrefixFacts DEF Follows
    <3> QED
      BY <2>4, <3>1 DEF Ended
  <2> QED
    BY <2>3, <2>4
<1>4. CASE t.turns = Ended(s)
  BY <1>1, <1>3, <1>4
<1>5. CASE /\ t.turns = s.turns /\ t.stamp = s.stamp
           /\ Pending(t) = Append(Pending(s), l)
           /\ Collecting(t) = Collecting(s)
  <2>1. CASE Nonblank(Pending(s)) = {}
    <3>1. Ended(s) = t.turns
      BY <1>5, <2>1 DEF Ended
    <3> QED
      BY <1>4, <3>1
  <2>2. CASE Nonblank(Pending(s)) # {}
    <3>1. /\ IsPrefix(Strip(Pending(s)), Strip(Pending(t)))
          /\ Nonblank(Pending(t)) # {}
      BY <1>1, <1>5, <2>2, StripGrows
    <3>2. /\ New(s) \in Turn /\ Ended(s) = Append(s.turns, New(s))
          /\ New(t) \in Turn /\ Ended(t) = Append(s.turns, New(t))
      BY <1>1, <1>2, <1>5, <2>2, <3>1
    <3>3. New(t).role = New(s).role /\ IsPrefix(New(s).content, New(t).content)
      BY <1>5, <3>1
    <3> HIDE DEF New
    <3> QED
      BY <1>1, <3>2, <3>3, FollowsAppend
  <2> QED
    BY <2>1, <2>2
<1>6. CASE /\ t.turns = s.turns
           /\ Pending(t) = Pending(s) /\ Collecting(t) = Collecting(s)
  <2>1. CASE Nonblank(Pending(s)) = {}
    <3>1. Ended(s) = t.turns
      BY <1>6, <2>1 DEF Ended
    <3> QED
      BY <1>4, <3>1
  <2>2. CASE Nonblank(Pending(s)) # {}
    <3>2. /\ New(s) \in Turn /\ Ended(s) = Append(s.turns, New(s))
          /\ New(t) \in Turn /\ Ended(t) = Append(s.turns, New(t))
          /\ Strip(Pending(s)) \in Seq(Line)
      BY <1>1, <1>2, <1>6, <2>2
    <3>3. New(t).role = New(s).role /\ IsPrefix(New(s).content, New(t).content)
      BY <1>6, <3>2, PrefixFacts
    <3> HIDE DEF New
    <3> QED
      BY <1>1, <3>2, <3>3, FollowsAppend
  <2> QED
    BY <2>1, <2>2
<1> QED
  BY <1>4, <1>5, <1>6 DEF Moved

(***************************************************************************)
(* The lines of the turns and of what is collected, one after another.     *)
(***************************************************************************)
Spread(s) == Append(s.turns, [role |-> Collecting(s), content |-> Pending(s),
                              stamp |-> s.stamp])

Words(ls) == {l \in Range(ls) : l.kind # "blank"}

Below(ts, n) == \A m \in DOMAIN ts : \A k \in DOMAIN ts[m].content :
    ts[m].content[k].at < n

Ascends(ls) == \A j, k \in DOMAIN ls : j < k => ls[j].at < ls[k].at

Before(ts, ls) == \A m \in DOMAIN ts : \A j \in DOMAIN ts[m].content :
                     \A k \in DOMAIN ls : ts[m].content[j].at < ls[k].at

LEMMA AppendTurn ==
    ASSUME NEW ts \in Seq(Turn), NEW x \in Turn
    PROVE  LET us == Append(ts, x) IN
           /\ us \in Seq(Turn)
           /\ InOrder(us) <=> InOrder(ts) /\ Ascends(x.content)
                  /\ Before(ts, x.content)
           /\ LinesIn(us) = LinesIn(ts) \cup Words(x.content)
           /\ \A n : Below(us, n) <=> Below(ts, n)
                  /\ \A k \in DOMAIN x.content : x.content[k].at < n
<1> DEFINE us == Append(ts, x)
           n == Len(ts)
<1>1. /\ us \in Seq(Turn) /\ DOMAIN us = 1..(n + 1) /\ us[n + 1] = x
      /\ n \in Nat
      /\ DOMAIN ts = 1..n /\ \A m \in 1..n : us[m] = ts[m]
  OBVIOUS
<1> HIDE DEF us, n
<1>2. InOrder(us) => InOrder(ts) /\ Ascends(x.content) /\ Before(ts, x.content)
  <2> SUFFICES ASSUME InOrder(us) PROVE InOrder(ts) /\ Ascends(x.content)
                          /\ Before(ts, x.content)
    OBVIOUS
  <2>1. \A m, k \in 1..(n + 1) : \A i \in DOMAIN us[m].content,
            j \in DOMAIN us[k].content :
           m < k \/ (m = k /\ i < j) =>
               us[m].content[i].at < us[k].content[j].at
    BY <1>1 DEF InOrder
  <2>2. InOrder(ts)
    BY <1>1, <2>1 DEF InOrder
  <2>3. Ascends(x.content)
    BY <1>1, <2>1 DEF Ascends
  <2>4. Before(ts, x.content)
    <3> SUFFICES ASSUME NEW m \in 1..n, NEW j \in DOMAIN ts[m].content,
                        NEW k \in DOMAIN x.content
                 PROVE  ts[m].content[j].at < x.content[k].at
      BY <1>1 DEF Before
    <3>1. m < n + 1 /\ m \in 1..(n + 1) /\ n + 1 \in 1..(n + 1)
      BY <1>1
    <3> QED
      BY <1>1, <2>1, <3>1
  <2> QED
    BY <2>2, <2>3, <2>4
<1>3. InOrder(ts) /\ Ascends(x.content) /\ Before(ts, x.content) => InOrder(us)
  <2> SUFFICES ASSUME InOrder(ts), Ascends(x.content), Before(ts, x.content),
                      NEW m \in 1..(n + 1), NEW k \in 1..(n + 1),
                      NEW i \in DOMAIN us[m].content,
                      NEW j \in DOMAIN us[k].content,
                      m < k \/ (m = k /\ i < j)
               PROVE  us[m].content[i].at < us[k].content[j].at
    BY <1>1 DEF InOrder
  <2>1. CASE k \in 1..n
    BY <1>1, <2>1 DEF InOrder
  <2>2. CASE k = n + 1 /\ m \in 1..n
    BY <1>1, <2>2 DEF Before
  <2>3. CASE k = n + 1 /\ m = n + 1
    BY <1>1, <2>3 DEF Ascends
  <2> QED
    BY <1>1, <2>1, <2>2, <2>3
<1>4. Range(us) = Range(ts) \cup {x}
  BY <1>1 DEF Range
<1>5. LinesIn(us) = LinesIn(ts) \cup Words(x.content)
  BY <1>4 DEF LinesIn, Words
<1>6. ASSUME NEW top PROVE Below(us, top) <=> Below(ts, top)
                 /\ \A k \in DOMAIN x.content : x.content[k].at < top
  BY <1>1 DEF Below
<1> QED
  BY <1>1, <1>2, <1>3, <1>5, <1>6 DEF us

LEMMA SpreadIs ==
    ASSUME NEW s, ParserOK(s)
    PROVE  /\ s.turns \in Seq(Turn) /\ Pending(s) \in Seq(Line)
           /\ Spread(s) \in Seq(Turn)
           /\ InOrder(Spread(s)) <=> /\ InOrder(s.turns) /\ Ascends(Pending(s))
                                     /\ Before(s.turns, Pending(s))
           /\ LinesIn(Spread(s)) = LinesIn(s.turns) \cup Words(Pending(s))
           /\ \A n : Below(Spread(s), n) <=>
                        /\ Below(s.turns, n)
                        /\ \A k \in DOMAIN Pending(s) : Pending(s)[k].at < n
<1>1. /\ s.turns \in Seq(Turn) /\ Pending(s) \in Seq(Line)
      /\ Collecting(s) \in Roles
      /\ s.stamp \in 0..MaxLines
  BY ParserFields DEF ParserOK
<1> DEFINE x == [role |-> Collecting(s), content |-> Pending(s),
               stamp |-> s.stamp]
<1>2. x \in Turn /\ x.content = Pending(s)
  BY <1>1 DEF Turn
<1>3. Spread(s) = Append(s.turns, x)
  BY DEF Spread
<1> HIDE DEF x
<1> QED
  BY <1>1, <1>2, <1>3, AppendTurn

\* Ending the file strips blank lines only.
LEMMA SpreadEnds ==
    ASSUME NEW s, ParserOK(s), InOrder(Spread(s))
    PROVE  /\ InOrder(Ended(s)) /\ LinesIn(Ended(s)) = LinesIn(Spread(s))
           /\ \A n : Below(Spread(s), n) => Below(Ended(s), n)
<1> DEFINE b == Pending(s)
<1>1. /\ s.turns \in Seq(Turn) /\ b \in Seq(Line)
      /\ InOrder(s.turns) /\ Ascends(b) /\ Before(s.turns, b)
      /\ LinesIn(Spread(s)) = LinesIn(s.turns) \cup Words(b)
      /\ \A n : Below(Spread(s), n) <=>
                        /\ Below(s.turns, n)
                        /\ \A k \in DOMAIN b : b[k].at < n
  BY SpreadIs
<1>2. CASE Nonblank(b) = {}
  <2>1. Words(b) = {}
    BY <1>2 DEF Words, Nonblank, Range
  <2>2. Ended(s) = s.turns
    BY <1>2 DEF Ended
  <2> HIDE DEF b
  <2> QED
    BY <1>1, <2>1, <2>2
<1>3. CASE Nonblank(b) # {}
  <2> DEFINE c == Strip(b)
             x == [role |-> Collecting(s), content |-> c, stamp |-> s.stamp]
  <2>1. c \in Seq(Line) /\ Words(c) = Words(b)
    BY <1>1, <1>3, StripLines DEF Words
  <2>2. PICK f \in Nat : \A k \in DOMAIN c : f + k \in DOMAIN b
            /\ c[k] = b[f + k]
    BY <1>1, <1>3, StripLines
  <2>3. Ended(s) = Append(s.turns, x)
    BY <1>3 DEF Ended
  <2>4. x \in Turn /\ x.content = c
    <3>1. Collecting(s) \in Roles /\ s.stamp \in 0..MaxLines
      BY ParserFields DEF ParserOK
    <3> QED
      BY <2>1, <3>1 DEF Turn
  <2> HIDE DEF x, c, b
  <2>5. Ascends(c)
    <3> SUFFICES ASSUME NEW j \in DOMAIN c, NEW k \in DOMAIN c, j < k
                 PROVE  c[j].at < c[k].at
      BY DEF Ascends
    <3>1. j \in Nat /\ k \in Nat
      BY <2>1
    <3>2. f + j < f + k
      BY <3>1
    <3> QED
      BY <1>1, <2>2, <3>2 DEF Ascends
  <2>6. Before(s.turns, c)
    BY <1>1, <2>2 DEF Before
  <2>7. \A n : (\A k \in DOMAIN b : b[k].at < n) => \A k \in DOMAIN c :
            c[k].at < n
    BY <2>2
  <2>8. /\ InOrder(Ended(s)) <=> InOrder(s.turns) /\ Ascends(c)
               /\ Before(s.turns, c)
        /\ LinesIn(Ended(s)) = LinesIn(s.turns) \cup Words(c)
        /\ \A n : Below(Ended(s), n) <=> Below(s.turns, n)
               /\ \A k \in DOMAIN c : c[k].at < n
    BY <1>1, <2>3, <2>4, AppendTurn
  <2> QED
    BY <1>1, <2>1, <2>5, <2>6, <2>7, <2>8
<1> QED
  BY <1>2, <1>3

LEMMA SpreadMoves ==
    ASSUME NEW s, ParserOK(s), NEW t, NEW l \in Line, NEW taken \in BOOLEAN,
           Moved(s, t, l, taken), taken => l.kind # "blank",
           InOrder(Spread(s)), Below(Spread(s), l.at)
    PROVE  /\ InOrder(Spread(t)) /\ Below(Spread(t), l.at + 1)
           /\ LinesIn(Spread(t)) = LinesIn(Spread(s))
                  \cup (IF taken THEN {l} ELSE {})
<1>0. /\ ParserOK(t) /\ l.at \in Int
      /\ \A x \in Line : x.at \in Int
  BY DEF Moved, Line
<1>1. /\ s.turns \in Seq(Turn) /\ Pending(s) \in Seq(Line)
      /\ InOrder(s.turns) /\ Ascends(Pending(s)) /\ Before(s.turns, Pending(s))
      /\ LinesIn(Spread(s)) = LinesIn(s.turns) \cup Words(Pending(s))
      /\ Below(s.turns, l.at) /\ \A k \in DOMAIN Pending(s) :
             Pending(s)[k].at < l.at
  BY SpreadIs
<1>2. /\ InOrder(Ended(s)) /\ LinesIn(Ended(s)) = LinesIn(Spread(s))
      /\ Below(Ended(s), l.at)
      /\ Ended(s) \in Seq(Turn)
  BY SpreadEnds, EndedTurns
<1>3. /\ InOrder(Spread(t)) <=> /\ InOrder(t.turns) /\ Ascends(Pending(t))
                                     /\ Before(t.turns, Pending(t))
      /\ LinesIn(Spread(t)) = LinesIn(t.turns) \cup Words(Pending(t))
      /\ \A n : Below(Spread(t), n) <=>
                        /\ Below(t.turns, n)
                        /\ \A k \in DOMAIN Pending(t) : Pending(t)[k].at < n
  BY <1>0, SpreadIs
<1>4. ASSUME NEW ts \in Seq(Turn), Below(ts, l.at) PROVE Below(ts, l.at + 1)
  <2> SUFFICES ASSUME NEW m \in DOMAIN ts, NEW k \in DOMAIN ts[m].content
               PROVE  ts[m].content[k].at < l.at + 1
    BY DEF Below
  <2>1. ts[m].content[k].at < l.at
    BY <1>4 DEF Below
  <2>2. ts[m].content[k] \in Line
    <3>1. ts[m] \in Turn
      OBVIOUS
    <3>2. ts[m].content \in Seq(Line)
      BY <3>1 DEF Turn
    <3> QED
      BY <3>2
  <2> QED
    BY <1>0, <2>1, <2>2
<1>5. ASSUME NEW ls \in Seq(Line), \A k \in DOMAIN ls : ls[k].at < l.at
      PROVE  \A k \in DOMAIN ls : ls[k].at < l.at + 1
  BY <1>0, <1>5
<1>6. l.kind = "blank" \/ taken => Words(<<l>>) = IF taken THEN {l} ELSE {}
  BY DEF Words, Range
<1>7. CASE /\ t.turns = s.turns /\ Pending(t) = Append(Pending(s), l)
           /\ taken \/ l.kind = "blank"
  <2> DEFINE b == Pending(s)
             d == Append(b, l)
  <2>1. /\ DOMAIN d = DOMAIN b \cup {Len(b) + 1} /\ d[Len(b) + 1] = l
        /\ \A k \in DOMAIN b : d[k] = b[k] /\ k < Len(b) + 1
        /\ Len(b) \in Nat /\ DOMAIN b \subseteq Nat
    BY <1>1
  <2>2. Pending(t) = d /\ b \in Seq(Line) /\ Ascends(b) /\ Before(s.turns, b)
        /\ \A k \in DOMAIN b : b[k].at < l.at
    BY <1>1, <1>7
  <2>3. LinesIn(Spread(s)) = LinesIn(s.turns) \cup Words(b)
    BY <1>1
  <2> HIDE DEF b, d
  <2>4. Ascends(d)
    BY <2>1, <2>2 DEF Ascends
  <2>5. Before(s.turns, d)
    BY <1>1, <2>1, <2>2 DEF Before, Below
  <2>6. Range(d) = Range(b) \cup {l}
    BY <2>1 DEF Range
  <2>7. Words(d) = Words(b) \cup (IF taken THEN {l} ELSE {})
    BY <1>7, <2>6 DEF Words
  <2>8. \A k \in DOMAIN d : d[k].at < l.at + 1
    BY <1>0, <1>5, <2>1, <2>2
  <2> QED
    BY <1>1, <1>3, <1>4, <1>7, <2>2, <2>3, <2>4, <2>5, <2>7, <2>8
<1>8. CASE /\ t.turns = Ended(s) /\ Pending(t) = <<l>>
           /\ taken \/ l.kind = "blank"
  <2>1. Ascends(<<l>>) /\ \A k \in DOMAIN <<l>> : <<l>>[k].at < l.at + 1
    BY <1>0 DEF Ascends
  <2>2. Before(Ended(s), <<l>>)
    BY <1>2 DEF Before, Below
  <2> QED
    BY <1>2, <1>3, <1>4, <1>6, <1>8, <2>1, <2>2
<1>9. CASE t.turns = Ended(s) /\ Pending(t) = <<>> /\ ~taken
  <2>1. /\ Ascends(<<>>) /\ \A k \in DOMAIN <<>> : <<>>[k].at < l.at + 1
        /\ Before(Ended(s), <<>>) /\ Words(<<>>) = {}
    BY DEF Ascends, Before, Words, Range
  <2> QED
    BY <1>2, <1>3, <1>4, <1>9, <2>1
<1>10. CASE t.turns = s.turns /\ Pending(t) = Pending(s) /\ ~taken
  BY <1>1, <1>3, <1>4, <1>5, <1>10
<1> QED
  BY <1>7, <1>8, <1>9, <1>10 DEF Moved

(***************************************************************************)
(* The file as it was parsed: its lines know their places, and those that  *)
(* are kept are in the turns or collected.                                 *)
(***************************************************************************)
FileOK ==
    LET ls == history.lines
        s == Parsed(history.format, ls)
    IN  /\ history.format \in {"chat", "input", None}
        /\ ls \in Seq(Line) /\ Len(ls) <= MaxLines
        /\ history.format = None => ls = <<>>
        /\ \A n \in DOMAIN ls : ls[n].at = n
        /\ ParserOK(s)
        /\ history.format # "input" => (s.fence <=> InFence(Len(ls) + 1))
        /\ history.format # "chat" => s.assistant = <<>> /\ s.tool = <<>>
        /\ Len(s.turns) + (IF Pending(s) = <<>> THEN 0 ELSE 1) <= Len(ls)
        /\ InOrder(Spread(s)) /\ Below(Spread(s), Len(ls) + 1)
        /\ LinesIn(Spread(s)) = {l \in Range(ls) : Kept(l)}

\* A stored turn is where it was, and complete if another one followed.
Stays(t, now) ==
    /\ t.ordinal \in DOMAIN now
    /\ now[t.ordinal].role = t.role
    /\ IsPrefix(t.content, now[t.ordinal].content)
    /\ t.closed => /\ t.ordinal < Len(now)
                   /\ now[t.ordinal].content = t.content
                   /\ now[t.ordinal].stamp = t.stamp

ReadOK ==
    LET now == Turns IN
    /\ reading \in [Worker -> {None} \cup Seq(Turn)]
    /\ \A w \in Worker : reading[w] # None => Follows(reading[w], now)
    /\ \A t \in turns :
          /\ t.ordinal \in Nat /\ t.closed \in BOOLEAN
          /\ [role |-> t.role, content |-> t.content,
                 stamp |-> t.stamp] \in Turn
          /\ Stays(t, now)

AiderInv == FileOK /\ ReadOK

LEMMA TurnsEnded ==
    ASSUME FileOK
    PROVE  LET s == Parsed(history.format, history.lines) IN
           /\ Turns = Ended(s) /\ Turns \in Seq(Turn)
           /\ Len(Turns) \in 0..MaxLines
<1> DEFINE s == Parsed(history.format, history.lines)
<1>0. Len(history.lines) \in Nat
  BY DEF FileOK
<1>1. /\ ParserOK(s) /\ Len(history.lines) <= MaxLines
      /\ history.format # "chat" => s.assistant = <<>> /\ s.tool = <<>>
      /\ Len(s.turns) + (IF Pending(s) = <<>>
             THEN 0 ELSE 1) <= Len(history.lines)
  BY DEF FileOK
<1>2. Turns = IF history.format = "chat" THEN ChatTurns(s) ELSE InputTurns(s)
  BY DEF Turns
<1> HIDE DEF s
<1>3. Turns = Ended(s)
  BY <1>1, <1>2, EndOfFile
<1>4. /\ Ended(s) \in Seq(Turn) /\ s.turns \in Seq(Turn)
      /\ Len(Ended(s)) = IF Nonblank(Pending(s)) = {} THEN Len(s.turns)
                              ELSE Len(s.turns) + 1
  BY <1>1, EndedTurns
<1>5. Pending(s) = <<>> => Nonblank(Pending(s)) = {}
  BY DEF Nonblank
<1>6. Len(Ended(s)) \in Nat /\ Len(Ended(s)) <= Len(history.lines)
          /\ Len(s.turns) \in Nat
  <2> DEFINE n == Len(history.lines)
             k == Len(s.turns)
  <2>1. k \in Nat /\ n \in Nat
    BY <1>0, <1>4
  <2>2. CASE Nonblank(Pending(s)) = {}
    <3>1. k + 0 <= n \/ k + 1 <= n
      BY <1>1
    <3>2. k <= n
      BY <2>1, <3>1
    <3> QED
      BY <1>4, <2>1, <2>2, <3>2
  <2>3. CASE Nonblank(Pending(s)) # {}
    <3>1. k + 1 <= n
      BY <1>1, <1>5, <2>3
    <3> QED
      BY <1>4, <2>1, <2>3, <3>1
  <2> QED
    BY <2>2, <2>3
<1>7. Len(Ended(s)) \in 0..MaxLines
  BY <1>0, <1>1, <1>6, AiderAssumption DEF AiderAssumption
<1> QED
  BY <1>3, <1>4, <1>7 DEF s

LEMMA FollowsFurther ==
    ASSUME NEW old \in Seq(Turn), NEW now \in Seq(Turn),
           NEW new \in Seq(Turn), Follows(now, new)
    PROVE  /\ Follows(old, now) => Follows(old, new)
           /\ \A t : t.content \in Seq(Line) /\ Stays(t, now) => Stays(t, new)
<1>1. \A z \in Turn : z.content \in Seq(Line)
  BY DEF Turn
<1>2. /\ \A n \in DOMAIN old : old[n].content \in Seq(Line)
      /\ \A n \in DOMAIN now : now[n].content \in Seq(Line)
      /\ \A n \in DOMAIN new : new[n].content \in Seq(Line)
  BY <1>1
<1>3. /\ DOMAIN old = 1..Len(old) /\ DOMAIN now = 1..Len(now)
      /\ DOMAIN new = 1..Len(new)
      /\ Len(old) \in Nat /\ Len(now) \in Nat /\ Len(new) \in Nat
  OBVIOUS
<1>4. /\ Len(now) <= Len(new)
      /\ \A n \in DOMAIN now :
          /\ new[n].role = now[n].role
          /\ IsPrefix(now[n].content, new[n].content)
          /\ n < Len(now) => new[n] = now[n]
  BY DEF Follows
<1>5. ASSUME Follows(old, now) PROVE Follows(old, new)
  <2>1. Len(old) <= Len(now)
    BY <1>5 DEF Follows
  <2>2. ASSUME NEW n \in DOMAIN old
        PROVE  /\ new[n].role = old[n].role
               /\ IsPrefix(old[n].content, new[n].content)
               /\ n < Len(old) => new[n] = old[n]
    <3>1. n \in DOMAIN now /\ n \in DOMAIN new
              /\ (n < Len(old) => n < Len(now))
      BY <1>3, <1>4, <2>1
    <3>2. /\ now[n].role = old[n].role
          /\ IsPrefix(old[n].content, now[n].content)
          /\ n < Len(old) => now[n] = old[n]
      BY <1>5 DEF Follows
    <3>3. IsPrefix(old[n].content, new[n].content)
      BY <1>2, <1>4, <3>1, <3>2, PrefixFacts
    <3> QED
      BY <1>4, <3>1, <3>2, <3>3
  <2> QED
    BY <1>3, <1>4, <2>1, <2>2 DEF Follows
<1>6. ASSUME NEW t, t.content \in Seq(Line), Stays(t, now) PROVE Stays(t, new)
  <2> DEFINE n == t.ordinal
  <2>1. /\ n \in DOMAIN now /\ now[n].role = t.role
        /\ IsPrefix(t.content, now[n].content)
        /\ t.closed => /\ n < Len(now) /\ now[n].content = t.content
               /\ now[n].stamp = t.stamp
    BY <1>6 DEF Stays
  <2>2. n \in DOMAIN new /\ (n < Len(now) => n < Len(new))
    BY <1>3, <1>4, <2>1
  <2>3. IsPrefix(t.content, new[n].content)
    BY <1>2, <1>4, <1>6, <2>1, <2>2, PrefixFacts
  <2> QED
    BY <1>4, <2>1, <2>2, <2>3 DEF Stays
<1> QED
  BY <1>5, <1>6

LEMMA FileBegins ==
    ASSUME AiderInit
    PROVE  AiderInv
<1> DEFINE s == Parsed(history.format, history.lines)
<1>1. /\ history.format = None /\ history.lines = <<>>
      /\ turns = {} /\ reading = [w \in Worker |-> None]
  BY DEF AiderInit
<1>2. s = NothingParsed
  <2>1. <<>> \in Seq(Line) /\ Len(<<>>) = 0
    OBVIOUS
  <2>2. PICK g : Runs(g, None, <<>>, 0) /\ Parsed(None, <<>>) = g[0]
    BY <2>1, ParsedRuns
  <2> QED
    BY <1>1, <2>2 DEF Runs
<1> HIDE DEF s
<1>3. /\ s \in Parser /\ s.turns = <<>> /\ s.fence = FALSE
      /\ s.user = <<>> /\ s.assistant = <<>> /\ s.tool = <<>>
  BY <1>2, AiderAssumption DEF NothingParsed, Parser, AiderAssumption
<1>4. \A r \in Roles : s[r] = <<>>
  BY <1>3, ParserFields DEF Roles
<1>5. ParserOK(s) /\ Pending(s) = <<>>
  BY <1>3, <1>4, ParserFields DEF ParserOK, Pending
<1>6. InFence(1) <=> FALSE
  <2>1. {m \in 1..(1 - 1) : history.lines[m].kind = "fence"} = {}
    OBVIOUS
  <2>2. Cardinality({}) = 0
    BY FS_EmptySet
  <2> QED
    BY <2>1, <2>2 DEF InFence
<1>7. /\ InOrder(Spread(s)) /\ LinesIn(Spread(s)) = {} /\ Below(Spread(s), 1)
  <2>1. Ascends(<<>>) /\ Before(<<>>, <<>>) /\ Words(<<>>) = {}
    BY DEF Ascends, Before, Words, Range
  <2>2. InOrder(<<>>) /\ LinesIn(<<>>) = {} /\ Below(<<>>, 1)
    BY DEF InOrder, LinesIn, Below, Range
  <2> QED
    BY <1>3, <1>5, <2>1, <2>2, SpreadIs
<1>8. FileOK
  <2>1. {l \in Range(<<>>) : Kept(l)} = {}
    BY DEF Range
  <2>2. /\ Len(<<>>) = 0 /\ 0 + 0 <= 0 /\ 0 <= MaxLines /\ 0 + 1 = 1
        /\ <<>> \in Seq(Line)
        /\ DOMAIN <<>> = {}
    BY AiderAssumption DEF AiderAssumption
  <2> QED
    BY <1>1, <1>3, <1>5, <1>6, <1>7, <2>1, <2>2 DEF FileOK, s
<1> QED
  BY <1>1, <1>8 DEF AiderInv, ReadOK

LEMMA FenceGrows ==
    ASSUME NEW l, NEW n \in Nat, history.lines \in Seq(Line),
           n = Len(history.lines), history'.lines = Append(history.lines, l)
    PROVE  /\ \A k \in 1..(n + 1) : InFence(k)' <=> InFence(k)
           /\ InFence(n + 2)' <=> IF l.kind = "fence"
                  THEN ~InFence(n + 1) ELSE InFence(n + 1)
<1> DEFINE ls == history.lines
           more == history'.lines
           Fences(k) == {m \in 1..(k - 1) : ls[m].kind = "fence"}
           More(k) == {m \in 1..(k - 1) : more[m].kind = "fence"}
<1>1. /\ more[n + 1] = l /\ \A m \in 1..n : more[m] = ls[m]
  OBVIOUS
<1> HIDE DEF ls, more
<1>2. \A k \in 1..(n + 1) : More(k) = Fences(k)
  BY <1>1
<1>3. More(n + 2) = Fences(n + 1)
          \cup (IF l.kind = "fence" THEN {n + 1} ELSE {})
  <2>1. \A m : m \in 1..((n + 2) - 1) <=> m \in 1..((n + 1) - 1) \/ m = n + 1
    BY <1>1
  <2>2. \A m \in 1..((n + 1) - 1) : more[m] = ls[m]
    BY <1>1
  <2> QED
    BY <1>1, <2>1, <2>2
<1>4. /\ \A k : InFence(k) <=> Cardinality(Fences(k)) % 2 = 1
      /\ \A k : InFence(k)' <=> Cardinality(More(k)) % 2 = 1
  BY DEF InFence, ls, more
<1> DEFINE c == Cardinality(Fences(n + 1))
           d == Cardinality(More(n + 2))
<1>5. c \in Nat /\ d = IF l.kind = "fence" THEN c + 1 ELSE c
  <2>1. IsFiniteSet(1..((n + 1) - 1))
    BY <1>1, FS_Interval
  <2>2. IsFiniteSet(Fences(n + 1)) /\ n + 1 \notin Fences(n + 1)
    BY <1>1, <2>1, FS_Subset
  <2> HIDE DEF Fences, More
  <2>3. c \in Nat
    BY <2>2, FS_CardinalityType
  <2>4. Cardinality(Fences(n + 1)
            \cup {n + 1}) = Cardinality(Fences(n + 1)) + 1
    BY <2>2, FS_AddElement
  <2> QED
    BY <1>3, <2>3, <2>4
<1> HIDE DEF c, d
<1>6. \A x \in Nat : (x + 1) % 2 = 1 <=> ~(x % 2 = 1)
  OBVIOUS
<1>7. d % 2 = 1 <=> IF l.kind = "fence" THEN ~(c % 2 = 1) ELSE c % 2 = 1
  BY <1>5, <1>6
<1>8. InFence(n + 2)' <=> IF l.kind = "fence"
          THEN ~InFence(n + 1) ELSE InFence(n + 1)
  <2>1. InFence(n + 1) <=> c % 2 = 1
    BY <1>4 DEF c
  <2>2. InFence(n + 2)' <=> d % 2 = 1
    BY <1>4 DEF d
  <2> QED
    BY <1>7, <2>1, <2>2
<1> HIDE DEF Fences, More
<1>9. \A k \in 1..(n + 1) : InFence(k)' <=> InFence(k)
  BY <1>2, <1>4
<1> QED
  BY <1>8, <1>9

LEMMA FileGrows ==
    ASSUME FileOK, AppendLine
    PROVE  /\ FileOK' /\ Follows(Turns, Turns')
           /\ UNCHANGED <<turns, reading>>
<1>1. PICK f \in DOMAIN LineKinds : \E k \in LineKinds[f] :
         /\ history.format \in {None, f}
         /\ history' = [format |-> f,
                        lines |-> Append(history.lines,
                            [kind |-> k, at |-> Len(history.lines) + 1])]
  BY DEF AppendLine
<1>2. PICK k \in LineKinds[f] :
         /\ history.format \in {None, f}
         /\ history' = [format |-> f,
                        lines |-> Append(history.lines,
                            [kind |-> k, at |-> Len(history.lines) + 1])]
  BY <1>1
<1>3. PICK ls \in Seq(Line) : ls = history.lines
  BY DEF FileOK
<1>4. PICK n \in Nat : n = Len(ls)
  BY <1>3
<1>5. PICK s : s = Parsed(history.format, ls)
  OBVIOUS
<1>6. PICK l : l = [kind |-> k, at |-> n + 1]
  OBVIOUS
<1> DEFINE more == Append(ls, l)
           t == ParseLine(f, s, l)
           taken == Taken(f, s, l)
<1>7. n < MaxLines /\ MaxLines \in Nat /\ n + 1 \in 1..MaxLines
  BY <1>3, <1>4, AiderAssumption DEF AppendLine, AiderAssumption
<1>8. l \in Line /\ l.kind = k /\ l.at = n + 1
  <2>1. k \in LineKinds.chat \cup LineKinds.input
    BY DEF LineKinds
  <2> QED
    BY <1>6, <1>7, <2>1 DEF Line
<1>9. /\ more \in Seq(Line) /\ Len(more) = n + 1 /\ DOMAIN more = 1..(n + 1)
      /\ more[n + 1] = l /\ \A m \in 1..n : more[m] = ls[m]
      /\ DOMAIN ls = 1..n /\ Range(more) = Range(ls) \cup {l}
  <2>1. /\ more \in Seq(Line) /\ Len(more) = n + 1 /\ DOMAIN more = 1..(n + 1)
      /\ more[n + 1] = l /\ \A m \in 1..n : more[m] = ls[m]
      /\ DOMAIN ls = 1..n
    BY <1>3, <1>4, <1>8
  <2> QED
    BY <2>1 DEF Range
<1>10. history'.format = f /\ history'.lines = more
  BY <1>2, <1>3, <1>4, <1>6
<1> HIDE DEF more
<1>11. /\ ParserOK(s) /\ n <= MaxLines
       /\ history.format = None => ls = <<>>
       /\ \A m \in DOMAIN ls : ls[m].at = m
       /\ history.format # "input" => (s.fence <=> InFence(n + 1))
       /\ history.format # "chat" => s.assistant = <<>> /\ s.tool = <<>>
       /\ Len(s.turns) + (IF Pending(s) = <<>> THEN 0 ELSE 1) <= n
       /\ InOrder(Spread(s)) /\ Below(Spread(s), n + 1)
       /\ LinesIn(Spread(s)) = {x \in Range(ls) : Kept(x)}
  BY <1>3, <1>4, <1>5 DEF FileOK
<1>12. f \in {"chat", "input"} /\ f # None
  BY AiderAssumption DEF LineKinds, AiderAssumption
<1>13. s = Parsed(f, ls)
  <2>1. CASE history.format = f
    BY <1>5, <2>1
  <2>2. CASE history.format = None
    BY <1>5, <1>8, <1>11, <2>2, ParsedGrows
  <2> QED
    BY <1>2, <2>1, <2>2
<1>14. Parsed(f, more) = t
  BY <1>3, <1>8, <1>13, ParsedGrows DEF more
<1>15. /\ f = "chat" => (s.fence <=> InFence(n + 1))
       /\ f # "chat" => s.assistant = <<>> /\ s.tool = <<>>
  <2>1. CASE history.format = f
    BY <1>11, <1>12, <2>1
  <2>2. CASE history.format = None
    BY <1>11, <1>12, <2>2, AiderAssumption DEF AiderAssumption, LineKinds
  <2> QED
    BY <1>2, <2>1, <2>2
<1>16. /\ Moved(s, t, l, taken)
       /\ f = "chat" => t.fence = IF l.kind = "fence"
              THEN ~s.fence ELSE s.fence
       /\ f # "chat" => t.assistant = <<>> /\ t.tool = <<>>
  BY <1>8, <1>11, <1>15, LineMoves
<1> HIDE DEF t
<1>17. taken \in BOOLEAN /\ (taken => l.kind # "blank")
  <2>1. s.fence \in BOOLEAN
    BY <1>11, ParserFields DEF ParserOK
  <2> QED
    BY <2>1 DEF Taken
<1> HIDE DEF taken
<1>18. /\ InOrder(Spread(t)) /\ Below(Spread(t), n + 2)
       /\ LinesIn(Spread(t)) = LinesIn(Spread(s))
              \cup (IF taken THEN {l} ELSE {})
  <2>1. l.at + 1 = n + 2
    BY <1>8
  <2> QED
    BY <1>8, <1>11, <1>16, <1>17, <2>1, SpreadMoves
<1>19. Follows(Ended(s), Ended(t))
  BY <1>8, <1>11, <1>16, <1>17, EndedFollows
<1>20. /\ \A m \in 1..(n + 1) : InFence(m)' <=> InFence(m)
       /\ InFence(n + 2)' <=> IF l.kind = "fence"
              THEN ~InFence(n + 1) ELSE InFence(n + 1)
  BY <1>3, <1>4, <1>10, FenceGrows DEF more
<1>21. {x \in Range(more) : Kept(x)'} = {x \in Range(ls) : Kept(x)}
           \cup (IF taken THEN {l} ELSE {})
  <2>1. ASSUME NEW x \in Range(ls) PROVE Kept(x)' <=> Kept(x)
    <3>1. PICK m \in 1..n : x = ls[m] /\ x.at = m
      BY <1>9, <1>11 DEF Range
    <3>2. history.format = f
      <4>1. ls # <<>>
        BY <1>9, <3>1
      <4> QED
        BY <1>2, <1>11, <4>1
    <3>3. InFence(x.at)' <=> InFence(x.at)
      BY <1>20, <3>1
    <3> QED
      BY <1>10, <1>12, <3>2, <3>3 DEF Kept
  <2>2. Kept(l)' <=> taken
    <3>1. CASE f = "input"
      BY <1>10, <3>1 DEF Kept, taken, Taken
    <3>2. CASE f = "chat"
      <4>1. InFence(l.at)' <=> s.fence
        BY <1>8, <1>15, <1>20, <3>2
      <4>2. Kept(l)' <=> /\ l.kind # "blank"
                         /\ l.kind \in {"session", "heading"} => InFence(l.at)'
        BY <1>10, <3>2 DEF Kept
      <4> QED
        BY <3>2, <4>1, <4>2 DEF taken, Taken
    <3> QED
      BY <1>12, <3>1, <3>2
  <2> QED
    BY <1>9, <2>1, <2>2
<1>22. Len(t.turns) + (IF Pending(t) = <<>> THEN 0 ELSE 1) <= n + 1
  <2> DEFINE a == Len(s.turns)
             b == Len(t.turns)
  <2>1. a \in Nat /\ b \in Nat
    BY <1>11, <1>16, EndedTurns DEF Moved
  <2>2. Len(Ended(s)) = IF Nonblank(Pending(s)) = {} THEN a ELSE a + 1
    BY <1>11, EndedTurns
  <2>3. Pending(s) = <<>> => Nonblank(Pending(s)) = {}
    BY DEF Nonblank
  <2>4. Len(Ended(s)) <= n
    <3>1. a + 0 <= n \/ a + 1 <= n
      BY <1>11
    <3>2. Nonblank(Pending(s)) # {} => a + 1 <= n
      BY <1>11, <2>3
    <3> QED
      BY <2>1, <2>2, <3>1, <3>2
  <2>5. b <= n
    <3>1. CASE t.turns = Ended(s)
      BY <2>4, <3>1
    <3>2. CASE t.turns = s.turns
      <4>1. a + 0 <= n \/ a + 1 <= n
        BY <1>11
      <4> QED
        BY <2>1, <3>2, <4>1
    <3> QED
      BY <1>16, <3>1, <3>2 DEF Moved
  <2> HIDE DEF b
  <2>6. b + 0 <= n + 1 /\ b + 1 <= n + 1
    BY <2>1, <2>5
  <2>7. b + (IF Pending(t) = <<>> THEN 0 ELSE 1) <= n + 1
    BY <2>6
  <2> QED
    BY <2>7 DEF b
<1>23. FileOK'
  <2>1. /\ ParserOK(t)
        /\ f # "input" => (t.fence <=> InFence(n + 2)')
    BY <1>12, <1>15, <1>16, <1>20 DEF Moved
  <2>2. \A m \in DOMAIN more : more[m].at = m
    BY <1>8, <1>9, <1>11
  <2>3. LinesIn(Spread(t)) = {x \in Range(more) : Kept(x)'}
    BY <1>11, <1>18, <1>21
  <2>4. (n + 1) + 1 = n + 2 /\ n + 1 <= MaxLines
    BY <1>7
  <2> QED
    BY <1>9, <1>10, <1>12, <1>14, <1>16, <1>18, <1>22, <2>1, <2>2, <2>3, <2>4
    DEF FileOK
<1>24. Turns = Ended(s) /\ Turns' = Ended(t)
  <2>1. Turns = Ended(s)
    BY <1>3, <1>5, TurnsEnded
  <2>2. Turns' = Ended(t)
    <3>1. Turns' = IF f = "chat" THEN ChatTurns(t) ELSE InputTurns(t)
      BY <1>10, <1>14 DEF Turns
    <3>2. ParserOK(t)
      BY <1>16 DEF Moved
    <3> QED
      BY <1>16, <3>1, <3>2, EndOfFile
  <2> QED
    BY <2>1, <2>2
<1> QED
  BY <1>19, <1>23, <1>24 DEF AppendLine

\* What is read or stored stays as the file goes on.
LEMMA ReadStays ==
    ASSUME NEW now \in Seq(Turn), NEW new \in Seq(Turn), now = Turns,
           new = Turns',
           ReadOK, Follows(now, new), UNCHANGED <<turns, reading>>
    PROVE  ReadOK'
<1>0. reading' \in [Worker -> {None} \cup Seq(Turn)]
  BY DEF ReadOK
<1>1. ASSUME NEW w \in Worker, reading'[w] # None
      PROVE  Follows(reading'[w], new)
  <2>1. reading'[w] = reading[w]
    OBVIOUS
  <2>2. reading[w] \in Seq(Turn) /\ Follows(reading[w], now)
    BY <1>1, <2>1 DEF ReadOK
  <2> QED
    BY <2>1, <2>2, FollowsFurther
<1>2. ASSUME NEW t \in turns
      PROVE  /\ t.ordinal \in Nat /\ t.closed \in BOOLEAN
             /\ [role |-> t.role, content |-> t.content,
                    stamp |-> t.stamp] \in Turn
             /\ Stays(t, new)
  <2>1. /\ t.ordinal \in Nat /\ t.closed \in BOOLEAN
        /\ [role |-> t.role, content |-> t.content, stamp |-> t.stamp] \in Turn
        /\ Stays(t, now)
    BY DEF ReadOK
  <2>2. t.content \in Seq(Line)
    BY <2>1 DEF Turn
  <2>3. Stays(t, new)
    BY <2>1, <2>2, FollowsFurther
  <2> QED
    BY <2>1, <2>3
<1> QED
  BY <1>0, <1>1, <1>2 DEF ReadOK

\* What the file says depends on nothing else.
LEMMA SameFile ==
    ASSUME FileOK, history' = history
    PROVE  FileOK' /\ Turns' = Turns
<1>1. Turns' = Turns
  BY DEF Turns
<1>2. \A n : InFence(n)' <=> InFence(n)
  BY DEF InFence
<1>3. \A l : Kept(l)' <=> Kept(l)
  BY <1>2 DEF Kept
<1>4. {l \in Range(history'.lines) : Kept(l)'} = {l \in Range(history.lines) : Kept(l)}
  BY <1>3
<1>5. FileOK'
  BY <1>2, <1>4 DEF FileOK
<1> QED
  BY <1>1, <1>5

LEMMA AiderUntouched ==
    ASSUME AiderInv, UNCHANGED aiderVars
    PROVE  AiderInv'
<1>1. history' = history /\ turns' = turns /\ reading' = reading
  BY DEF aiderVars
<1>2. FileOK' /\ Turns' = Turns
  BY <1>1, SameFile DEF AiderInv
<1>3. ReadOK'
  BY <1>1, <1>2 DEF AiderInv, ReadOK
<1> QED
  BY <1>2, <1>3 DEF AiderInv

LEMMA AiderStep ==
    ASSUME AiderInv, AiderNext
    PROVE  AiderInv'
<1>1. FileOK /\ ReadOK
  BY DEF AiderInv
<1>2. PICK now \in Seq(Turn) : now = Turns /\ Len(now) \in 0..MaxLines
  BY <1>1, TurnsEnded
<1>3. CASE AppendLine
  <2>1. FileOK' /\ Follows(Turns, Turns') /\ UNCHANGED <<turns, reading>>
    BY <1>1, <1>3, FileGrows
  <2>2. Turns' \in Seq(Turn)
    <3>1. PICK s : s = Parsed(history'.format, history'.lines)
      OBVIOUS
    <3>2. ParserOK(s)
              /\ (history'.format # "chat" => s.assistant = <<>>
                     /\ s.tool = <<>>)
      BY <2>1, <3>1 DEF FileOK
    <3>3. Turns' = IF history'.format = "chat"
              THEN ChatTurns(s) ELSE InputTurns(s)
      BY <3>1 DEF Turns
    <3> QED
      BY <3>2, <3>3, EndOfFile, EndedTurns
  <2>3. PICK new \in Seq(Turn) : new = Turns'
    BY <2>2
  <2>4. ReadOK'
    BY <1>1, <1>2, <2>1, <2>3, ReadStays
  <2> QED
    BY <2>1, <2>4 DEF AiderInv
<1>4. ASSUME NEW w \in Worker,
             ReadHistory(w) \/ StoreTurns(w) \/ HistoryFails(w)
      PROVE  AiderInv'
  <2>1. history' = history
    BY <1>4 DEF ReadHistory, StoreTurns, HistoryFails
  <2>2. FileOK' /\ Turns' = now
    BY <1>1, <1>2, <2>1, SameFile
  <2>3. /\ reading \in [Worker -> {None} \cup Seq(Turn)]
        /\ \A v \in Worker : reading[v] # None =>
             reading[v] \in Seq(Turn) /\ Follows(reading[v], now)
        /\ \A t \in turns :
              /\ t.ordinal \in Nat /\ t.closed \in BOOLEAN
              /\ [role |-> t.role, content |-> t.content,
                     stamp |-> t.stamp] \in Turn
              /\ Stays(t, now)
    BY <1>1, <1>2 DEF ReadOK
  <2>4. /\ reading' \in [Worker -> {None} \cup Seq(Turn)]
        /\ \A v \in Worker : reading'[v] # None => Follows(reading'[v], now)
    <3>1. Follows(now, now)
      <4>1. \A n \in DOMAIN now : now[n].content \in Seq(Line)
        <5>1. \A n \in DOMAIN now : now[n] \in Turn
          OBVIOUS
        <5>2. \A z \in Turn : z.content \in Seq(Line)
          BY DEF Turn
        <5> QED
          BY <5>1, <5>2
      <4> QED
        BY <4>1, PrefixFacts DEF Follows
    <3>2. \A v \in Worker : reading'[v] \in {reading[v], None, now}
      BY <1>2, <1>4, <2>3 DEF ReadHistory, StoreTurns, HistoryFails
    <3>3. reading' \in [Worker -> {None} \cup Seq(Turn)]
      BY <1>2, <1>4, <2>3 DEF ReadHistory, StoreTurns, HistoryFails
    <3> QED
      BY <2>3, <3>1, <3>2, <3>3
  <2>5. ASSUME NEW t \in turns'
        PROVE  /\ t.ordinal \in Nat /\ t.closed \in BOOLEAN
               /\ [role |-> t.role, content |-> t.content,
                      stamp |-> t.stamp] \in Turn
               /\ Stays(t, now)
    <3>1. CASE t \in turns
      BY <2>3, <3>1
    <3>2. CASE t \notin turns
      <4>1. StoreTurns(w)
        BY <1>4, <3>2 DEF ReadHistory, HistoryFails
      <4>2. PICK old \in Seq(Turn) : old = reading[w] /\ Follows(old, now)
        BY <2>3, <4>1 DEF StoreTurns
      <4>3. PICK n \in DOMAIN old :
               t = [ordinal |-> n, role |-> old[n].role,
                   content |-> old[n].content,
                    stamp |-> old[n].stamp, closed |-> n < Len(old)]
        BY <3>2, <4>1, <4>2 DEF StoreTurns
      <4>4. n \in 1..Len(old) /\ Len(old) \in Nat /\ old[n] \in Turn
        OBVIOUS
      <4>5. [role |-> t.role, content |-> t.content,
                stamp |-> t.stamp] \in Turn
        BY <4>3, <4>4 DEF Turn
      <4>6. Stays(t, now)
        <5>1. /\ Len(old) <= Len(now)
              /\ now[n].role = old[n].role
              /\ IsPrefix(old[n].content, now[n].content)
              /\ n < Len(old) => now[n] = old[n]
          BY <4>2 DEF Follows
        <5>2. n \in DOMAIN now /\ (n < Len(old) => n < Len(now))
          BY <4>4, <5>1
        <5> QED
          BY <4>3, <5>1, <5>2 DEF Stays
      <4> QED
        BY <4>3, <4>4, <4>5, <4>6
    <3> QED
      BY <3>1, <3>2
  <2>6. ReadOK'
    BY <2>2, <2>4, <2>5 DEF ReadOK
  <2> QED
    BY <2>2, <2>6 DEF AiderInv
<1> QED
  BY <1>3, <1>4 DEF AiderNext

LEMMA AiderFollows ==
    ASSUME AiderInv
    PROVE  AiderTypeOK /\ TurnsStay
<1> USE DEF AiderInv
<1>1. FileOK /\ ReadOK
  OBVIOUS
<1>2. PICK s : s = Parsed(history.format, history.lines)
  OBVIOUS
<1>3. PICK now \in Seq(Turn) : now = Turns /\ Len(now) \in 0..MaxLines
          /\ now = Ended(s)
  BY <1>1, <1>2, TurnsEnded
<1>4. ParserOK(s) /\ InOrder(Spread(s))
          /\ LinesIn(Spread(s)) = {l \in Range(history.lines) : Kept(l)}
  BY <1>1, <1>2 DEF FileOK
<1>5. InOrder(now) /\ LinesIn(now) = {l \in Range(history.lines) : Kept(l)}
  BY <1>3, <1>4, SpreadEnds
<1>6. \A t \in turns :
          /\ t.ordinal \in Nat /\ t.closed \in BOOLEAN
          /\ [role |-> t.role, content |-> t.content,
                 stamp |-> t.stamp] \in Turn
          /\ Stays(t, now)
  BY <1>1, <1>3 DEF ReadOK
<1>7. AiderTypeOK
  <2>1. history.format \in {"chat", "input", None}
            /\ history.lines \in Seq(Line)
    BY <1>1 DEF FileOK
  <2>2. \A w \in Worker : reading[w] # None => reading[w] \in Seq(Turn)
    BY <1>1 DEF ReadOK
  <2>3. \A t \in turns : t.ordinal \in 1..MaxLines
    <3>1. \A t \in turns : t.ordinal \in 1..Len(now)
      <4>1. DOMAIN now = 1..Len(now)
        OBVIOUS
      <4> QED
        BY <1>6, <4>1 DEF Stays
    <3> QED
      BY <1>3, <3>1, AiderAssumption DEF AiderAssumption
  <2> QED
    BY <1>6, <2>1, <2>2, <2>3 DEF AiderTypeOK
<1>8. TurnsStay
  BY <1>3, <1>5, <1>6 DEF TurnsStay, Stays
<1> QED
  BY <1>7, <1>8

(***************************************************************************)
(* The whole.  What a step of one part means to the others.                *)
(***************************************************************************)
PartsInv == /\ ProjectInv /\ EmbedsStored
            /\ SearchInv /\ TransferInv /\ LegacyInv /\ AiderInv /\ KeyInv

LEMMA MeshBegins ==
    ASSUME MeshInit
    PROVE  PartsInv
<1>1. Init /\ ask = [w \in Worker |-> NotAsking]
  BY DEF MeshInit, SearchInit
<1>2. ProjectInv
  BY <1>1, ProjectBegins
<1>3. EmbedsStored
  BY <1>1 DEF Init, EmbedsStored, Embedded, Idle
<1>4. SearchInv
  BY <1>1 DEF SearchInv, AskOK, FullRecall, NotAsking
<1>5. TransferInv
  <2>1. TransferInit
    BY DEF MeshInit
  <2>2. Active = {} /\ \A p \in Path : Writers(p) = {}
    BY <2>1 DEF TransferInit, Active, Writers
  <2>3. TransferTypeOK
    BY <2>1 DEF TransferInit, TransferTypeOK
  <2> QED
    BY <2>2, <2>3 DEF TransferInv, CarriedOK, SoloOK, Agree
<1>6. LegacyInv
  BY LegacyBegins DEF MeshInit
<1>7. KeyInv
  <2>1. KeyInit
    BY DEF MeshInit
  <2>2. KeyTypeOK
    BY <2>1, KeyAssumption DEF KeyInit, KeyTypeOK, KeyAssumption, Settings
  <2>3. \A w \in Worker : HeldOK(w) /\ BackupOK(w) /\ AloneOK(w)
    BY <2>1
    DEF KeyInit, HeldOK, BackupOK, AloneOK, NotRunning, Holding, Committed
  <2>4. SureOK /\ KeyAtHand
    BY <2>1 DEF KeyInit, SureOK, KeyAtHand
  <2> QED
    BY <2>2, <2>3, <2>4 DEF KeyInv
<1>8. AiderInv
  BY FileBegins DEF MeshInit
<1> QED
  BY <1>2, <1>3, <1>4, <1>5, <1>6, <1>7, <1>8 DEF PartsInv

\* A step leaves every part alone but its own, and only adds messages and
\* vectors.
LEMMA MeshMoves ==
    ASSUME PartsInv, [MeshNext]_meshVars
    PROVE  /\ ProjectInv' /\ EmbedsStored'
           /\ stored \subseteq stored'
           /\ \A e \in Entry : vec[e] # None => vec'[e] # None
           /\ \/ UNCHANGED ask \/ \E w \in Worker : Search(w)
           /\ \/ UNCHANGED transferVars \/ \E w \in Worker : TransferStep(w)
           /\ \/ UNCHANGED legacyVars \/ \E w \in Worker : LegacyStep(w)
           /\ UNCHANGED aiderVars \/ AiderNext
           /\ UNCHANGED keyVars \/ KeyNext
<1> USE DEF PartsInv
<1>t. TypeOK
  BY DEF ProjectInv
<1> DEFINE Grown == /\ ProjectInv' /\ EmbedsStored'
                    /\ stored \subseteq stored'
                    /\ \A e \in Entry : vec[e] # None => vec'[e] # None
<1>s. ASSUME UNCHANGED vars PROVE Grown
  <2>1. ProjectInv'
    <3>1. /\ UNCHANGED <<ops, summary, catalog, job, covered, listed>>
          /\ stored' = stored /\ vec' = vec
      BY <1>s DEF vars
    <3>2. stored \subseteq Entry /\ vec \in [Entry -> Backend \cup {None}]
      BY <1>t DEF TypeOK
    <3> QED
      BY <3>1, <3>2, ProjectGrows
  <2> QED
    BY <2>1, <1>s DEF vars, EmbedsStored, Embedded
<1>1. CASE Next /\ UNCHANGED <<ask, transferVars, legacyVars, aiderVars, keyVars>>
  <2>1. ProjectInv'
    BY <1>1, ProjectStep
  <2>2. PICK w \in Worker : Work(w)
    BY <1>1 DEF Next
  <2>3. /\ stored \subseteq stored'
        /\ \A e \in Entry : vec[e] # None => vec'[e] # None
    BY <1>t, <2>2, Others
  <2>4. EmbedsStored'
    BY <1>t, <2>2, EmbedsStep
  <2> QED
    BY <1>1, <2>1, <2>3, <2>4
<1>2. ASSUME NEW w \in Worker, Search(w),
             UNCHANGED <<transferVars, legacyVars, aiderVars, keyVars>>
      PROVE  Grown
  BY <1>2, <1>s DEF Search, Count, Select, NoCandidates, Fetch, EndSearch
<1>3. ASSUME NEW w \in Worker, TransferStep(w) PROVE Grown
  <2>1. UNCHANGED vars
    BY <1>3
    DEF TransferStep, ReadRows, FindBundle, OpenBundle,
        WriteBundle, Load, WriteInbox, CopyBundle, IngestBundle, Reload,
        WriteHandoff, TransferEnds
  <2> QED
    BY <2>1, <1>s
<1>4. ASSUME NEW w \in Worker, LegacyStep(w) PROVE Grown
  BY <1>4, <1>t, LegacyMoves, ProjectGrows
<1>5. CASE AiderNext /\ UNCHANGED <<ask, transferVars, legacyVars, keyVars>>
  <2>1. UNCHANGED vars
    BY <1>5 DEF AiderNext, AppendLine, ReadHistory, StoreTurns, HistoryFails
  <2> QED
    BY <1>5, <2>1, <1>s
<1>6. CASE KeyNext /\ UNCHANGED <<ask, transferVars, legacyVars, aiderVars>>
  <2>1. UNCHANGED vars
    <3>1. ASSUME NEW f \in KeyFile, GenerateKey(f) \/ OverwriteKey(f)
          PROVE  UNCHANGED vars
      <4>1. WriteKey(f)
        BY <3>1 DEF GenerateKey, OverwriteKey
      <4> QED
        BY <4>1 DEF WriteKey
    <3>2. ASSUME NEW w \in Worker, EncryptStep(w) PROVE UNCHANGED vars
      <4>1. CASE LoadSettings(w) \/ SaveDefaults(w) \/ OpenStore(w) \/ LoadKeys(w)
        BY <4>1 DEF LoadSettings, SaveDefaults, OpenStore, LoadKeys
      <4>2. CASE BackUpBeforeLock(w) \/ CommandEnds(w)
        BY <4>2 DEF BackUpBeforeLock, CommandEnds
      <4>3. CASE Enable(w) \/ Rotate(w)
        BY <4>3 DEF Enable, Rotate, Commit
      <4>4. CASE OpenSettings(w) \/ WriteSettings(w)
        BY <4>4 DEF OpenSettings, WriteSettings
      <4> QED
        BY <3>2, <4>1, <4>2, <4>3, <4>4 DEF EncryptStep
    <3> QED
      BY <1>6, <3>1, <3>2 DEF KeyNext
  <2> QED
    BY <1>6, <2>1, <1>s
<1>7. CASE UNCHANGED meshVars
  BY <1>7, <1>s DEF meshVars
<1> QED
  BY <1>1, <1>2, <1>3, <1>4, <1>5, <1>6, <1>7 DEF MeshNext

(***************************************************************************)
(* Every step of every part keeps what all parts rely on.                  *)
(***************************************************************************)
LEMMA MeshKeeps ==
    ASSUME PartsInv, [MeshNext]_meshVars
    PROVE  PartsInv'
<1>1. /\ TypeOK /\ EmbedsStored
      /\ SearchInv /\ TransferInv /\ LegacyInv /\ AiderInv /\ KeyInv
  BY DEF PartsInv, ProjectInv
<1>2. /\ ProjectInv' /\ EmbedsStored'
      /\ stored \subseteq stored'
      /\ \A e \in Entry : vec[e] # None => vec'[e] # None
      /\ \/ UNCHANGED ask \/ \E w \in Worker : Search(w)
      /\ \/ UNCHANGED transferVars \/ \E w \in Worker : TransferStep(w)
      /\ \/ UNCHANGED legacyVars \/ \E w \in Worker : LegacyStep(w)
      /\ UNCHANGED aiderVars \/ AiderNext
      /\ UNCHANGED keyVars \/ KeyNext
  BY MeshMoves
<1>3. SearchInv'
  BY <1>1, <1>2, SearchUntouched, SearchKeeps
<1>4. TransferInv'
  BY <1>1, <1>2, TransferUntouched, TransferKeeps
<1>5. LegacyInv'
  BY <1>1, <1>2, LegacyUntouched, LegacyKeeps
<1>6. AiderInv'
  BY <1>1, <1>2, AiderUntouched, AiderStep
<1>7. KeyInv'
  BY <1>1, <1>2, KeyUntouched, KeyStep
<1> QED
  BY <1>2, <1>3, <1>4, <1>5, <1>6, <1>7 DEF PartsInv

(***************************************************************************)
(* The parts together keep every invariant, for any number of workers,     *)
(* messages, conversations, backends, bundles, rows and keys.              *)
(***************************************************************************)
THEOREM PartsHold == MeshSpec => []PartsInv
BY MeshBegins, MeshKeeps, PTL DEF MeshSpec

(***************************************************************************)
(* Beside all other operations an operation that returns has dealt with    *)
(* what was there when it began, summaries keep what they cover, and the   *)
(* catalog counts what is stored (sync_service.py).                        *)
(***************************************************************************)
THEOREM ProjectHolds == MeshSpec => [](ReturnsWhole /\ SummaryKeeps /\ CatalogKeeps)
<1>1. PartsInv => ReturnsWhole /\ SummaryKeeps /\ CatalogKeeps
  BY ReturnsFollows DEF PartsInv, ProjectInv, SummaryInv, CatalogInv
<1> QED
  BY <1>1, PartsHold, PTL

(***************************************************************************)
(* A transfer that ran to its end has stored all that the earliest one     *)
(* under way had read, however they overlap, crash and write each other's  *)
(* bundle (transfer_with_report, deliver_transfer_bundle).                 *)
(***************************************************************************)
THEOREM TransferWholeHolds == MeshSpec => []TransferWhole
<1>1. PartsInv => TransferWhole
  BY TransferFollows DEF PartsInv
<1> QED
  BY <1>1, PartsHold, PTL

(***************************************************************************)
(* The files of a transfer that was alone say the same                     *)
(* (deliver_transfer_bundle, write_handoff_files).                         *)
(***************************************************************************)
THEOREM InboxAgreesHolds == MeshSpec => []InboxAgrees
<1>1. PartsInv => InboxAgrees
  BY TransferFollows DEF PartsInv
<1> QED
  BY <1>1, PartsHold, PTL

(***************************************************************************)
(* Importers of an old database, with each other and with Memory.store,    *)
(* insert nothing twice, claim nothing that another inserted, and account  *)
(* for every row (import_legacy_memory,                                    *)
(* store_facade_memory_with_embedding).                                    *)
(***************************************************************************)
THEOREM LegacyExactHolds == MeshSpec => []LegacyExact
<1>1. PartsInv => LegacyExact
  BY LegacyFollows DEF PartsInv
<1> QED
  BY <1>1, PartsHold, PTL

(***************************************************************************)
(* The key of the database stays at hand, and settings saved by a command  *)
(* that ran alone lead to it (generate_key_file, encryption_enable,        *)
(* encryption_rotate).                                                     *)
(***************************************************************************)
THEOREM KeyAtHandHolds == MeshSpec => []KeyAtHand
<1>1. PartsInv => KeyAtHand
  BY DEF PartsInv, KeyInv
<1> QED
  BY <1>1, PartsHold, PTL

(***************************************************************************)
(* The backup of a command that committed has the rows of the time before  *)
(* it, under the key of that time (_create_pre_operation_backup).          *)
(***************************************************************************)
THEOREM BackupsWholeHolds == MeshSpec => []BackupsWhole
<1>1. PartsInv => BackupsWhole
  BY DEF PartsInv, KeyInv, BackupOK, BackupsWhole, Committed
<1> QED
  BY <1>1, PartsHold, PTL

(***************************************************************************)
(* No search misses what it could have found when it began, while all      *)
(* other operations go on, unless one project is asked for a role: the     *)
(* exact search filters by a role it has not read, which the module of     *)
(* MCMeshSearch shows (query_with_report, mesh_search).                    *)
(***************************************************************************)
THEOREM FullRecallHolds ==
    ASSUME "role" \notin Scopes
    PROVE  MeshSpec => []FullRecall
<1>1. PartsInv => FullRecall
  BY DEF PartsInv, SearchInv
<1> QED
  BY <1>1, PartsHold, PTL

(***************************************************************************)
(* A history of Aider that is read again and again, by several processes,  *)
(* while it grows keeps the place, the role and the text of every turn it  *)
(* gave, the last one may go on, and no line of it is lost                 *)
(* (parse_aider_chat_history, parse_aider_input_history,                   *)
(* source_key_for_turn, insert_messages).                                  *)
(***************************************************************************)
THEOREM TurnsStayHolds == MeshSpec => []TurnsStay
<1>1. PartsInv => TurnsStay
  BY AiderFollows DEF PartsInv
<1> QED
  BY <1>1, PartsHold, PTL

(***************************************************************************)
(* Every variable of every part keeps its type.                            *)
(***************************************************************************)
THEOREM MeshTypesHold == MeshSpec => []MeshTypeOK
<1>1. ASSUME PartsInv PROVE MeshTypeOK
  <2>1. SearchTypeOK
    BY <1>1 DEF PartsInv, ProjectInv, SearchInv, SearchTypeOK
  <2>2. TransferTypeOK /\ LegacyTypeOK /\ KeyTypeOK
    BY <1>1 DEF PartsInv, TransferInv, LegacyInv, KeyInv
  <2>3. AiderTypeOK
    BY <1>1, AiderFollows DEF PartsInv
  <2> QED
    BY <2>1, <2>2, <2>3 DEF MeshTypeOK
<1> QED
  BY <1>1, PartsHold, PTL
=============================================================================
