# MemoryMesh: TLA+ models, checks and proofs

MemoryMesh collects the conversations of several AI tools into one SQLite
database on the user's machine, searches them, hands them from one tool to the
next, and can encrypt what it stores. Nearly all of its hard behaviour comes
from processes and threads that share files without sharing anything else:
command line invocations, long-lived `Memory` objects inside other programs,
an HTTP service with one thread per request, hooks that other tools start, and
the user's own editor.

This directory holds TLA+ models of those parts, the TLC configurations that
check them on small instances, and theorems about them that TLAPS proves for
every instance. Paths below are relative to `deepiri_memorymesh/` unless they
start with `docs/`, `tests/` or `README.md`.

Contents: 1 inventory, 2 modules, 3 runs and bounds, 4 disagreements found,
5 proofs, 6 abstractions, 7 what is not modelled, 8 plan.

## 1. Inventory

### State that outlives a process

| state | where | written by |
|---|---|---|
| `memory_messages`, `memory_embeddings`, `memory_message_terms` | the database | every ingest path (`storage.py`), key lifecycle (`encryption.py`), migrations |
| `memory_summaries`, `agent_state` | the database | compress, bundle import, `/state/put`, key lifecycle |
| `encryption_meta` | the database | `encryption enable`, `encryption rotate` |
| `schema_migrations` and the objects of each version | the database | `migrate()` in whichever process opens the file first |
| `api_pull_state` | the database | `pull api` |
| `project_http_tokens` | the database | `auth token create/revoke/rotate`; `last_used_at` by the service |
| `chat_catalog` | the database | `mesh index` |
| `<db>-wal`, `<db>-shm`, `<db>.vacuum-tmp`, backups | beside the database | SQLite, the key lifecycle, migrations |
| generated hook scripts, provider configuration, manifests, `.bak` copies | the tools' configuration directories | `install-native`, `uninstall-native`, `integrations restore`, and the user |
| transfer bundles, inbox files, handoff files | `~/.config/deepiri-memorymesh`, the workspace | `transfer`, `resume`, `go` |
| settings, key files, token files | `~/.config/deepiri-memorymesh` | the command line |

State inside a process that matters: the encryption context a `MemoryStore`
caches (`_crypto_enabled`, `_crypto_ctx`, `_terms_mode`), shared by the request
threads of the service, and the handle of a supervised service.

### Components

**Memory database and key lifecycle** (`storage.py`, `encryption.py`,
`crypto.py`, `search_index.py`). Operations: open, store a facade memory,
insert messages with and without a `source_key`, save an embedding, upsert a
summary or an agent state, rebuild the term index; enable and rotate
encryption, which rewrite every row in one transaction and then copy the file
with `VACUUM INTO` and swap the copy in. Hard: stores that stay open across a
key change, the copy that grows under a fixed name, the swap against concurrent
transactions and other swaps, kills between copy, swap and removal of the log,
the unique indexes, which see ciphertext.
Correct when: what is acknowledged is stored and stays; every value is sealed
in the mode the database announces; deduplication deduplicates; a committed
key stays the key. Modelled: `MeshStore`, abstractly `MemoryBook`.

**Key files, settings and backups** (`cli.py`, `config.py`, `crypto.py`,
`encryption.py`). State: the key files, `encryption_key_file` in the settings,
the backups. `key-generate` writes a key file; `enable` and `rotate` open the
database with the key of the settings, read the key files they are given, take
a backup, commit, and save the settings last. Hard: settings are read, and
written whole, without a lock; a command may be killed between the commit and
the settings. Correct when the key of the database stays in a file, the settings
lead to it, and a backup holds what was rewritten. Modelled: `KeyFiles`, on top
of `ProjectMesh`.

**Shared encryption context of the service** (`storage.py`, `service_api.py`,
`sync_service.py`). Request threads resolve and reset three attributes of one
store without a lock. Correct when no request writes or asks for plaintext in
an encrypted database. Modelled: `CryptoCache`.

**Schema migrations** (`migrations.py`, `storage.init`). Processes that open an
old file together; backup before change; classification of files this release
did not make. Correct when upgrades have an exact backup, happen once, touch
nothing foreign and leave a complete index, and when a status that is reported
was true. The status is made of several queries without a transaction. Modelled:
`Migrations`.

**API pull** (`api_pull.py`). Conditional requests with saved validators;
entries and validators in two transactions. Correct when "not modified" means
that everything is stored. Modelled: `ApiPull`.

**Native integrations** (`integration_install.py`). A command works file by file
with an undo list of its own, next to the user's edits; a step of undoing may
fail as well, and is then reported and skipped. Correct when a failure is
undone, but for what the report names, what belongs to the user is kept, what is
installed can be found again, and an installation happens as a whole or not at
all. Modelled: `NativeInstall`, abstractly `NativeBook`.

**Project operations** (`sync_service.py`, `file_scan.py`). `sync_directory`
ingests a directory of transcripts file by file, `import_bundle` the messages
of a bundle and then its summaries, `compress_project` and `embed_project`
read the messages once and write row by row. State: the database only. Hard:
each is a read followed by many transactions, next to other processes that do
the same and to tools that append to the transcripts meanwhile. Correct when
an operation that returns has dealt with what was there when it began, and a
later run takes nothing back. Modelled: `ProjectMesh`.

**Chat catalog** (`storage.rebuild_catalog`). A derived table, rebuilt from
reads that precede the lock. Correct when it never counts more than is stored
and does not go back. Modelled: `ProjectMesh`.

**Retrieval** (`sync_service.query_with_report`, `mesh_search`,
`retrieval.py`, `search_index.py`). A search counts, selects candidates and
reads vectors in three transactions. `Memory.query`
does the same for the rows of one embedding backend. Correct when nothing that
could be found at its beginning is lost. Modelled: `MeshSearch`, on top of
`ProjectMesh`.

**HTTP bearer tokens** (`auth.py`, `service_api.py`, `cli.py`). State:
`project_http_tokens` (hash, projects, active, `last_used_at`), the token file
of a holder. Operations: create, revoke, rotate, verify (once per request,
before the operation). Hard: a token revoked during a request, rotation
repeated or overlapping, a kill between the commit and the only showing of the
secret. Correct when an operation is carried out only for a request that was
entitled to it when it arrived, and a rotation does not lock its holder out.
Modelled: `HttpTokens`.

**HTTP service and supervised service** (`service_api.py`,
`supervised_service.py`, `cli.py`). The terminal interface probes a port,
reuses a compatible service, or binds and serves in a thread that it stops at
the end; `serve` binds and serves in its main thread. Hard: two starters, a bind
that precedes serving, an interrupt between ownership and the start of the
thread, requests that outlive the loop. Correct when what a process owns
answers, nobody answers without the port, the port of a process that ended is
free, and start and shutdown end. Modelled: `SupervisedService`, with its
clients and their tokens in `HttpService`.

**Transfer, inbox delivery and handoff** (`sync_service.transfer_with_report`,
`transfer_delivery.py`, `handoff.py`, `session_bridge.py`). Operations:
`transfer` writes a bundle file from the messages of a conversation; `go` and
`transfer-deliver` read it back, write three files into the target's inbox and
store the messages under the target; `resume` also writes a handoff. State: the
bundle files, whose names depend on the project, the providers and the first 40
characters of the conversation, the inbox of each target, the handoff of a
workspace. Hard: every file is written in place, at a path that other transfers
use as well; a command may be killed between two files. Correct when what a
transfer read is stored under the target, and the files left by a transfer that
was alone are all of that transfer. Modelled: `Transfer`, on top of
`ProjectMesh`.

**Legacy import** (`legacy_import.py`,
`storage.store_facade_memory_with_embedding`). Copies the rows of an old
database one by one: a lookup without a lock, an embedding, a transaction that
looks again and inserts; a row that fails is counted and the others go on. Hard:
importers and `Memory.store` insert the same content at the same time. Correct
when a memory is inserted once and the report accounts for every row. Modelled:
`LegacyImport`, on top of `ProjectMesh`.

**Busy retry** (`storage.with_busy_retry`). Repeats a transaction that found the
database locked, after a rollback and a bounded number of times. The modules
have no step for it: an attempt that was rolled back changed nothing, so a
retry that succeeds is a longer wait for the lock, and one that gives up is an
operation that fails, which they have.

**Provider parsers and registry** (`providers/`, `provider_registry.py`).
Functions from a file to records. Aider's history is the one format whose
records depend on what precedes them in a file that keeps growing: the parser
is a line automaton, and a turn is identified by its ordinal, role and text.
Hard: a history is read in the middle of a turn or of a code fence, and again
when it is longer. Correct when no turn that was complete shifts and no line is
lost. Modelled: `AiderHistory`, on top of `ProjectMesh`.

**Embeddings, codec, compression** (`embeddings.py`, `embedding_codec.py`,
`compression.py`). Pure functions on vectors and text.

**Terminal interface, scanner, device paths, export, packaging, configuration,
command line, installation script.** Read state, render it, or call the
operations above; settings are read once and saved whole.

### Interactions

The database file is the meeting point: every component except native
integrations and the supervised service changes it, each from its own
connections, and SQLite's `BEGIN IMMEDIATE` is their only synchronisation. Two
things escape it: the file itself (migration backups; the key lifecycle, which
replaces it) and values cached in a process (the encryption context). The
native integrations share files with the user and with the tools, with no lock.
The service shares one `MemoryStore` between threads.


## 2. Modules

| module | models | state and actions |
|---|---|---|
| `MeshStore` | `storage.py` writes, `encryption.py` enable/rotate | `db`: the live file (mode, rows, summaries and agent states); `tmp`, `unfinished`, `made`: the vacuum copy, whether it is whole, and where the one that a process makes is by now; `sidecar`, `spoiled`, `residue`: a left-over log, and what it and the swap can spoil or leave; `ctx`, `conn`, `lock`, `admin`: what each process holds. One action per store operation and per phase of a lifecycle command (`CommitLifecycle`, `UnlinkTmp`, `VacuumInto` and `VacuumDone`, the beginning and the end of the copying, `Replace`, `UnlinkSidecars`, failures and kills). |
| `MemoryBook` | what `Memory.store` promises (`__init__.py`) | a set of memories that grows by one at a time; `BookSpec` of `MeshStore` instantiates it with the facade rows |
| `CryptoCache` | `encryption_context`, `reset_encryption_cache`, `_term_mapper` under the threads of `service_api.py` | the three cached attributes, and for each request thread the place it has reached; each read and write of an attribute is a step |
| `ApiPull` | `pull_api` | `state`: saved validators; per puller a job from loading them to saving new ones; a server that publishes and answers conditional requests |
| `Migrations` | `migrate`, `init`, `migration_status` | the file (origin, history, objects, rows, index), a lock, per process its phase, the file as its transaction sees it, its backup; per reader what its first query showed. Each query of `migration_status` is a step (`ReadTables`, `ReadHistory`, `ReadRows`, `ReadBaseline`, `ReadColumns`, `ReadRest`) |
| `NativeInstall` | `install_native_transactional`, `uninstall_native_transactional`, `restore_from_backup` | generated files, hook entries, manifests; per process its command, what it read for its plan, its `.bak` copies, the steps it can undo and the destinations that its report names as not restored (`errors`); user edits. A step of undoing restores, leaves as it is, or leaves half written (`Undone`) |
| `NativeBook` | what these commands promise when they run one at a time | scripts, hook entries and manifests, changed by an installation or a removal in one step; `CommandsAtomic` of `NativeInstall` instantiates it. The mapping (`Shown`) is what the running command has read for its plan until it ends, since up to then it can put everything back; only a kill and a rollback that is reported as incomplete (`Kill`, `RollBackPartly`) show a part |
| `ProjectMesh` | `sync_directory`, `import_bundle`, `compress_project`, `embed_project`, `rebuild_catalog` | messages, vectors, summaries, catalog; per worker the local variables of its operation |
| `MeshSearch` | `query_with_report`, `mesh_search`, `Memory.query` | per worker the search it makes (`Scopes` selects which of the three), over the state of `ProjectMesh`, which it extends |
| `Transfer` | `transfer_with_report`, `deliver_transfer_bundle`, `resume_session`, `write_handoff_files` | `bundle`, `inbox`, `handoff`: the files, each a whole bundle, truncated, or a mixture; `copies`: what is stored under the target; `xfer`: per worker its transfer. One action per file written or read (`OpenBundle`, `WriteBundle`, `Load`, `WriteInbox`, `CopyBundle`, ...) |
| `LegacyImport` | `import_legacy_memory`, `Memory.store` | `legacy`: per worker the row it has reached and its counts; `times`: how often each memory was inserted. `LookUp` and `StoreRow` are the lookup without and with the lock |
| `AiderHistory` | `parse_aider_chat_history`, `parse_aider_input_history`, their ingestion | `history`: the file, a sequence of lines, to which Aider appends; `reading`: per worker the turns it has parsed; `turns`: those stored. `ChatLine` and `InputLine` are one turn of the parsers' loops, `Parsed` is the loop: a recursive function over the number of lines read |
| `KeyFiles` | `encryption key-generate`, `enable`, `rotate`; `Settings.load` and `save` | `keys`: the key in each file; `meta`: the key of the database; `settings`: the key file they name; `cmd`: per worker its command, the keys it has read and its backup. The rows are those of `ProjectMesh` |
| `Mesh` | what the processes of one user do to one project | the composition of `MeshSearch`, `Transfer`, `LegacyImport`, `AiderHistory` and `KeyFiles` over the messages and vectors of `ProjectMesh` |
| `HttpTokens` | `auth.py` create, rotate, revoke and verify; `_require_scope` in `service_api.py` | `tokens`: the table; `held`: secrets that were shown; `cmd`: per command the secret it has still to show; `req`: per handler thread its request, verified by one read and carried out later |
| `SupervisedService` | `SupervisedService.start` and `shutdown`, `make_http_server`, `run_service`, the `finally` clause of `tui` | `port`: who holds it; per process where it is in starting, running and stopping, its server thread, `owned`, and the request to stop |
| `HttpService` | both, with `ThreadingHTTPServer` between them | `host`: the process each handler thread belongs to; a request needs a loop that holds the port, and its thread ends with the process |
| `MC...` | | operators and symmetry sets for the configurations |
| `...Proofs` | | theorems about the module of that name, section 5; `MeshProofs` builds on `ProjectMeshProofs` |

`PROJECT.json` maps every definition to its source lines. An action is a
transaction, or the code between two points where another process can be
noticed; inside a transaction that holds SQLite's write lock nothing else can
change the database, so its statements are one step. Kills and exceptions are
actions (`StopLifecycle`, `VacuumFails`, `Abort`, `Fail`, `Raise`, `Kill`,
`End`), enabled wherever the code can raise or be killed with effect on what
others see.

## 3. Runs and bounds

No module counts time or unbounded data; every bound is a constant of the
configuration. All checked properties are safety properties unless the table
says otherwise.

| run | instance | what it shows |
|---|---|---|
| `lifecycles` | one store, two lifecycle processes, one content, one source key, two keys, 2 rows, free overlap | what survives any overlap: encryption is never undone, and a copy that is still being filled is swapped in only by a command whose own copy another has taken away (`NeverDisabled`); `vacuumed=True` is not a false promise (`ScrubHonest`), facade deduplication within one mode, deduplication by source key |
| `exclusive` | two stores, two lifecycle processes, two contents, two keys, one side value, 3 rows, no store open during a lifecycle command | what needs the exclusion: readability under the announced key, no lost write, one row per content, no connection through a foreign log or to an unfinished copy (`NeverSpoiled`), and the refinement `BookSpec` |
| `cache_mesh` | three request threads | no plaintext message; keyed terms only, until a request calls `init()` |
| `open` | three migrators, or two and a status reader, 2 rows of each kind, four versions with the index at 2 and the first uncounted table at 3 | exact backups and no idle ones (`UpgradeBackedUp`), complete index, foreign files untouched, a status that names only a version which the file, in an acceptable state, had during the query (`StatusAgrees`); the liveness property `Opens`: everyone who opens the file is done, refused, or fails |
| `install` | three commands one after the other, two generated files, one user hook, two projects, at most two destinations that reports name as not restored (`NamedBound`) | user content kept, failures undone, no orphans, no hook without its script, each but for the destinations that a report names; and the refinement `CommandsAtomic`: each installation and removal in one step or not at all, the old installation's removal in an update included, and never two installations, but for kills and rollbacks reported as incomplete |
| `pull` | two pullers, two URLs, two entries, ETags, server clock up to 2 | saved validators never run ahead of the entries; success means nothing is missing |
| `service` | two terminal interfaces, two `serve` processes (one without authentication), another program, one handler thread, two token commands, three tokens, two probes of the own server | `Served`: what is owned answers and holds the port; `OnlyTheEntitled` for requests next to rotations, revocations and restarts; `SecretSurvives` for overlapping rotations; the liveness property `Settles`: start and shutdown end |
| `project` | two workers in twelve mixes, three messages in two conversations, two embedding backends, searches of the whole project, of a role across projects and of a `Memory`, threshold and limit 1; for transfers two bundle files and three labels, two of which share a file; for imports four old rows, two of the same content and one malformed; for Aider histories of up to 4 lines of every kind; two key files and three keys | `ReturnsWhole`, `SummaryKeeps`, `CatalogKeeps` for the operations; `FullRecall` for searches; `TransferWhole` and `InboxAgrees` for transfers next to each other and to stores; `LegacyExact` for imports next to each other, to `Memory.store` and to embedding runs; `TurnsStay` for a growing history with two readers; `KeyAtHand` and `BackupsWhole` for key commands next to each other and to stores |
| `stale_store_plaintext`, `swap_loses_write`, `install_dry_run`, `role_search` | smallest instance that shows it | violated on purpose, section 4 |

Why the bounds are enough to be interesting:

- Two lifecycle processes and two keys give enable against enable, enable
  against rotate, rotate against rotate, and a killed one followed by another
  one, whose `.vacuum-tmp` meets it. Two rows allow the unique indexes to
  collide; with three a facade row, a keyed and an unkeyed row coexist.
- Three threads are needed by the cache: one publishes, one is between two
  reads, a third resets.
- Three migrators give a winner, one that waits for its lock and one that has
  looked before and begins after; a status reader takes the place of one of
  them, since two suffice for what it can read in between. `migrations.py` has
  seven versions, the index at 3, the first uncounted table at 5: the model
  depends on their order only, so that four versions with 2 and 3 have every
  case: before, at, between and after. Liveness needs this smaller instance; the
  theorems hold for every `Latest`.
- Three commands: install, kill, update; install, update, restore; or a failed
  install that is undone in part, then two commands on what it left. A command
  that fails names any subset of three destinations; with two named in all, one
  rollback can miss a script and the configuration together, or two rollbacks one
  each. A state in which a third is named is checked but not continued.
- In `project` each worker runs the operations its mix gives it as often as it
  likes; the mixes pair those that write the same rows. They are chosen in
  `Init`, so that the state spaces add up instead of multiplying. Three
  messages give a conversation of two, which a concurrent sync can have half of.
  One mix (`brief`) compresses under settings that make every summary empty.
  Imports, stores and syncs feed the same `stored`, so that an import meets the
  rows of a store before, between and after its two lookups.
- Two key files and three keys give rotations back and forth and a file that the
  user replaces while its key is in use. Two commands overlap in every order;
  one that is refused, or killed before its settings, is followed by others.
- Four lines of a history hold a marker, a fence that opens and closes and the
  marker that ends its turn; two roles that alternate; or a session header
  between two turns. Every history of four lines is built line by line and read
  at each of its lengths, by two readers that store in either order.
- A worker runs one transfer (`Gone` bounds it): two workers give every overlap
  of two transfers, and the second may begin when the first has ended or was
  killed. With three overlapping writers of one file nothing new can be left in
  it: it is one writer's text or a mixture.
- In `service` the actors that take part together are chosen in `Init` too: three
  processes and another program contend for the port; a served client meets
  token commands; a reused or unauthenticated service has a client; two commands
  overlap. Three tokens are a token and two rotations of it. `Probes` is 40 in
  the code: two are a probe that fails and one that is the last.
- `lifecycles` looks at states without the histories `acked` and `claimed`
  (`WithoutBook`), which no guard and no property of that run reads.
- Symmetry sets contain only values that no action or property tells apart;
  no symmetry is used where a constant is named in a definition.

`CHECK_DEADLOCK FALSE` is set for `open`, `install` and `service`, where every
process may end for good.

There are two liveness properties. `Opens` assumes weak fairness of what each
migrator goes on to do by itself (`Opening`): a process that runs goes on, and
its waits are bounded, because SQLite's busy timeout turns a lock that is never
given back into an error, and a process that is killed gives it back. For
`Settles`, `HttpService` assumes weak fairness of
what a starting or stopping process goes on to do by itself (`Proceed`) and of
its server thread (`Loop`). The code justifies it: each probe has a timeout of
half a second (`supervised_service.py:70`), the loop polls for the request to
stop, and the join has a limit of five seconds. `server.shutdown()` has no
limit: it is an action that waits for the loop. Nothing is assumed of users,
clients, commands, interrupts and kills, nor of the other program. The other
properties are safety or action properties and need no fairness.

Every property of a passing run has a mutant in `PROJECT.json`: a definition
changed the way a plausible bug would change it (a dropped lookup, a write
before the lock, an undo step forgotten), under which TLC finds the property
violated in the same configuration.

## 4. Disagreements between the code and what it says

Each is a run that TLC must find violated; the counterexample is the scenario.

| run | what the code does | what it says |
|---|---|---|
| `stale_store_plaintext` | a store opened before `encryption enable` caches "not encrypted" (`storage.py:261`) and goes on writing plaintext | `storage.py:342-343`: "plaintext never lands in the database file" |
| `swap_loses_write` | a write committed between `VACUUM INTO` and `os.replace` (`encryption.py:224`) is lost | `__init__.py:151`: "only durable writes are serialized" |
| `install_dry_run` | `--update --dry-run` uninstalls what is there (`integration_install.py:577`) | `cli.py:573`: "Plan only; write nothing" |
| `role_search` | the exact search of one project by role filters on a column it did not read (`sync_service.py:809`, `storage.py:1168`) and finds nothing | `README.md:113`: "score every compatible embedding in scope (full recall)" |

The modules show more, by changing one constant or property of a passing
configuration. These are consequences of the same causes, or of behaviour that
no document denies, so they are not runs:

- `MeshStore` with `Exclusive = FALSE`: `FacadeUnique` fails for two stores
  opened before and after `enable`; `LifecycleDurable` fails when the copy of
  one lifecycle command replaces the commit of another; `NeverSpoiled` fails when
  a connection is opened between the replacement and the removal of the log.
- `MeshStore`, two lifecycle commands that overlap: the second unlinks the copy
  of the first, which goes on, and begins its own under the same name; the first
  then swaps in this unfinished file (`encryption.py:211-224`). If the second is
  killed now, or a store opens the file, the database is empty. `NeverDisabled`
  says which commands can do this. A file that was used while it was unfinished,
  through a log that is not its own, or without its own, because the sidecars of
  the new file were unlinked (`225-230`), is `spoiled`: the model does not follow
  it further, and the other properties are about files that are not.
- Rotation can fail at the unique index after imports that a change of key made
  look distinct (`encryption.py:355`); `rebuild_all_message_terms` indexes
  stored ciphertext (`search_index.py:228`).
- `CryptoCache`: `TermsKeyed` fails without its condition, once `/mesh/search`
  has called `init()`: a thread can see the context and not yet the mode.
- `ApiPull`: `NothingMissed` fails with `Lines = TRUE` (a JSONL body that ends
  early parses), with two providers for one URL, and with dates instead of
  ETags (`Validator = {"date"}`) for two URLs.
- `Migrations`: the backup before an upgrade depends on the rows of four tables
  (`migrations.py:493`); a file with rows only in others is upgraded without
  one, although `README.md:102` says "Nonempty upgrades create a consistent
  SQLite backup". `UpgradeBackedUp` is about counted rows. `migration_status`
  makes several queries without a transaction (`577-612`, `89-148`), which can
  see different moments of an upgrade: it may refuse a file that was acceptable
  throughout. `StatusAgrees` states what still holds, that a version it does
  report is true.
- `NativeInstall`: `UserContentKept` fails with `Overlap = TRUE`, a user edit
  between the plan and the replacement, which is lost; `NoOrphans` excludes
  kills because a killed command leaves files without a manifest. An error while
  a failure is undone is collected and the undoing goes on (`504-509`,
  `935-943`): the report then says `rollback_ok` false and names the
  destination, which may hold generated text, half of a copy, or hook entries
  whose scripts are gone. The `.bak` copies are deleted all the same
  (`511-516`), also those of files that were not restored, so that the user's
  text may be in none of them; the properties except what is named, and nothing
  else. Further, a failed update has already removed the installation it
  replaces (`578`; `CommandsAtomic` says that it leaves nothing else); two
  commands of one provider that overlap both find no manifest and both install
  (`544`); `install` over a manifest that names missing files does nothing
  (`551`); an update deletes generated files the user modified (`579`); a
  restore that fails halfway is not undone, and what it overwrote is only in
  `.pre-restore` copies (`1010`), and the file it was writing is cut short.
- `ProjectMesh`: when rebuilds overlap, the catalog may go back to an older
  count, which `CatalogKeeps` allows only to rebuilds that did not begin alone;
  the same for compressions. A bundle's summary replaces a newer one. With a
  compression target that is not positive every summary is empty and skipped
  (`sync_service.py:490`). A summary that could not be written because the
  database was busy is reported as malformed. The keyless deduplication of an
  encrypted database ignores the timestamp (`storage.py:525`), the unique index
  of a plaintext one includes it (`migrations.py:171`).
- `Transfer`: two transfers that overlap and share a bundle file can leave in it
  the older of their texts, or, since both write in place, a mixture that no
  reader can parse. Conversations whose identifiers agree in 40 characters share
  the file, so that a delivery may store the other one under the target;
  `TransferWhole` promises nothing for them. A target has one inbox: the handoff
  and the context of an earlier transfer then point to files of a later one.
  `resume` of a conversation without messages fails only after it has replaced
  the inbox.
- `LegacyImport`: a dry run counts two old rows of equal content as importable
  both. A dry run that overlaps a writer may report that it modified the
  destination, because it compares the file before and after
  (`legacy_import.py`).
- `MeshSearch`: with a role, the exact search of `mesh_search` finds nothing (see
  `role_search`), while that of `query_with_report` does not filter by role.
- `pick_best_session` (`tui/session_model.py`) falls back to the conversation
  with the most messages, not to the newest.
- Copies made by a transfer have no `source_key`: in an encrypted database two
  messages of equal role and content with different timestamps become one copy.
- `AiderHistory`: the date of a turn is that of the session in force when the
  turn ends. A turn that is the last one when it is read gets another date than
  after the next `# aider chat started` header, so what is stored depends on when
  it was first read (`providers/aider.py:37-38`: "append/reparse cannot shift
  prior turns", which is about the modification time of the file). A turn read
  while it grows is stored once per length, under one ordinal. Lines that begin
  with `# ` outside a fence are dropped from an answer (`237-244`).
- `KeyFiles`: a command killed between the commit and `settings.save()` leaves
  settings that name the old key file, or none (`cli.py:1607-1609`,
  `1664-1666`). Every later command is then refused, `encryption rotate`
  included, because `mesh.init()` checks the key of the settings first
  (`cli.py:1596`, `1648`); only an edit of the settings helps. Two rotations that
  overlap may both succeed, one after the other, and save in the other order,
  with the same result. The path is saved as it was typed: a relative one is
  looked up from the directory of each later command. The backup of `enable` may
  lack rows that it then encrypts (`encryption.py:426`), which `BackupsWhole`
  allows.
- `SupervisedService`: when `Thread.start()` raises, or an interrupt comes
  between `owned = True` and it, `server.shutdown()` waits for ever for a loop
  that never runs (`supervised_service.py:170-172`, `193`), against "always
  stopped in ``finally``" (`:3-4`); `Settles` excepts this as `Stuck`. The loser
  of a race for the port probes once more, 50 ms later (`:151`), and may report
  a conflict with a service it could have reused. A service is reused for its
  API version, whatever database it serves (`:103`).
- `HttpTokens`: rotating an expired token makes one that has expired; rotating a
  revoked one, or one token twice, makes further active ones (`auth.py:385`).
  A command killed after its commit leaves a secret nobody has seen, which
  `SecretSurvives` excepts (`lost`). Rotations of one token that overlap both
  succeed: `SecretSurvives` says that one usable secret remains, not that only
  one does. A request is authorised once, before its operation, and is carried
  out even if the token is revoked in between (`service_api.py:132`);
  `OnlyTheEntitled` takes its right at its arrival.

## 5. Proofs

TLAPS proves the theorems for every value of the constants under the assumptions
of the modules, which say no more than that the kinds of values are distinct,
that bounds are natural numbers and that parameters are functions of the right
kind: `MeshStoreAssumption`, `NoFileAssumption`, `CryptoCacheAssumption`,
`MigrationsAssumption`, `NoneAssumption`, `ApiPullAssumption`,
`NativeInstallAssumption` (the configuration is not one of the generated files,
and a torn text is nobody's), `ServiceAssumption`, `TokensAssumption`,
`NoRowAssumption`, `HttpAssumption`, `ProjectAssumption` (finitely many
messages, each in one conversation), `SearchAssumption`, `TransferAssumption`,
`LegacyAssumption`, `AiderAssumption`, `KeyAssumption`. TLC evaluates them in
the runs.

| module | proved | inductive invariant and why |
|---|---|---|
| `MeshStoreProofs` | `TypeOK`, `FacadeUniquePerMode`, `NeverDisabled` | `SharedInv` = types; which connections and locks can exist (`Conns`); what happens only after a commit of a lifecycle command finds the live file and the copy encrypted (`Encrypted`); a database never encrypted, and the caches of its stores, are plaintext throughout (`Sealed`); at most one facade row per content and mode, in the live file and in the copy (`Unique`). Uniqueness of the live file alone is not inductive: `os.replace` brings back an older image, which has to satisfy it too. For `NeverDisabled` also `Copies`: a command that is about to swap and whose copy is still at the temporary path finds a whole one there. |
| | `ScrubHonest` | `Scrubbed`: while the last report was "vacuumed", the freed pages are clean and no lifecycle command is connected to the live file, since its commit would leave plaintext in them. `ScrubHonest` allows a dirty file while a command works and is not inductive for that reason. |
| | `SourceKeyUnique` | `Sources`: one row per source key in the live file and in the copy, for the same reason as `Unique`, and facade rows have none |
| | under `Exclusive`: `Readable`, `FacadeUnique`, `AckedDurable`, `LifecycleDurable`, `NeverSpoiled`, `BookSpec` | `ExclusiveInv` = `SharedInv` and: lifecycle commands are alone (`Alone`), so that the copy about to be swapped in equals the live file. The refinement follows from how each step changes the set of facade contents. |
| `CryptoCacheProofs` | `TypeOK`, `ContentSealed`, `TermsKeyed` | `SealedInv`: the flag is never set without the context, and a thread that writes goes on with the context it found; `KeyedInv`: until `init()` is called the term mode is set before the flag |
| `ApiPullProofs` | `TypeOK`; under `Whole`: `SavedIsStored`, `NothingMissed` | `Inv`: every page whose validators anyone holds, saved or in the memory of a pull, has all its entries stored (`Known`, `PullerOK`), and the server had that very page (`Published`). `Whole` (a body is parsed whole, one provider, and validators identify a page) is the hypothesis the variants of section 4 drop. |
| `MigrationsProofs` | `TypeOK`, `UpgradeBackedUp`, `IndexComplete`, `ForeignUntouched`, `EndsAtLatest`, `StatusAgrees` | `Inv`: whoever classifies, backs up or applies holds the lock (`Locked`), so that the committed file is the one it classified and copied (`WorkOK`, `HistoryOK`); shape, history, objects and index of a file agree (`FileOK`). For `StatusAgrees` and the types also `QueryInv`: tables of this program, once there, stay, and so does a history, so that what the earlier queries of a call have settled was the verdict on the file at some moment of it (`QueryOK`) |
| `NativeInstallProofs` | `TypeOK`; under `~Overlap`: `OneInstallation`, `NoOrphans`, `HooksHaveScripts`, `FailureUndone`, `UserContentKept`, `CommandsAtomic` | `SoloInv`: one command at a time (`Solo`), and at each of its steps how far the disk has moved from what it read for its plan (`Frame`): but for the destinations it has to name (`errors`), exactly the files in `done` differ, and `.bak` copies hold what they replaced; a named one holds what it held, what the command has put there, or a torn text. Undoing step by step therefore leads back to what was read, but for what is named, which is `FailureUndone`. Nothing is named before the undoing begins (`FreshInv`). `Clean`: as long as no command was killed, what commands read and leave is settled except where a report names it, and copies hold nothing of an installation, so that a restore brings none back. The refinement rests on the same frame: a command's steps move the disk and `done`, so that what counts (`Shown`, what it read) stays; its last step makes the disk count, which by then is the whole change or, after an undo, what it read, or what an incomplete rollback may leave (`RollBackPartly`). For `CommandsAtomic` the frame also says that an unforced removal has moved only its own scripts away, and that a restore holds a manifest's copies. |
| `ProjectMeshProofs` | `TypeOK`, `SummaryKeeps`, `CatalogKeeps`, `ReturnsWhole` | `SummaryInv`: every compression under way has read at least what summaries have to cover, and one that began alone no more than those after it; `CatalogInv`: the same for rebuilds, and the statistics held outside the lock lie between what is listed and what is stored; `ReturnsInv`: what an operation owes of what was there when it began is stored, failed or still on its list (`Owes`), which others only shorten |
| `MeshProofs` | of the composition: the three above, `TransferWhole`, `InboxAgrees`, `LegacyExact`, `KeyAtHand`, `BackupsWhole`, `TurnsStay`, `MeshTypeOK`; under `"role" \notin Scopes`: `FullRecall` | `PartsInv`, one conjunct per part. A step of one part adds messages and vectors for the others and leaves their variables alone (`MeshMoves`), so that each keeps its invariant by its own steps. `TransferInv`: who may still write a bundle has read what any transfer that uses it had to deliver (`Agree`), so that whatever is read back covers it (`CarriedOK`); while a transfer is alone its files agree (`SoloOK`). `LegacyInv`: the rows an import has passed are accounted for (`RowsOK`), and what it claims nobody else does (`MineOK`). `KeyInv`: a command has keys that exist, and the file that the settings will name holds the new one (`HeldOK`); a backup taken before the lock is of a plaintext database or the command will be refused (`BackupOK`). `SearchInv`: candidates cover what was there at the start, or fill the limit (`AskOK`). `AiderInv`, for files of any length, in two parts. `FileOK`: what the parser holds at the end of the file, which is that it collects one role at most, that the lines in its turns and in what it collects are in order and are those that are kept, and that it knows whether a fence is open. `ReadOK`: what was read of the file, stored or not yet, is followed by what the file says now (`Follows`): every turn but the last is the same, and the last has at most grown. `TurnsStay` alone is not inductive, since what a line does depends on what is collected, which is not yet a turn. |
| `HttpServiceProofs` | `TypeOK`, `Served`, `OnlyTheEntitled`, `SecretSurvives` | `Inv`: of each process, what its place says of its thread, its ownership and the port (`ProcOK`); a token that is presented or about to be shown is in the table (`Known`); a request that is past verification was entitled (`RequestOK`). Another process changes the port only to take it when it is free or to give up its own (`Others`), and rows only lose their right, so that a request verified now was entitled when it arrived (`Grows`). |

A temporal theorem is the three facts `Init => Inv`, `Inv /\ [Next]_vars =>
Inv'` and `Inv => P`; the step has one case per action. Helpers on sequences of
rows (`ResealFacts`, `WrittenUnique`, `SameContents`, `SourcesAppended`), on
counting (`OneMoreFailure`) and on what one process makes of its own variables
(`Local`, `TypedUpdate`) are lemmas.

What the parsers of Aider's histories make of a file is a recursive function of
its length. That one more line is one more turn of the loop (`ParsedGrows`) is
proved without an induction theorem that takes an operator: `NatFromSteps` is
induction for a set of numbers, from the well-foundedness of `<` (`WFMin`); it
gives a run of the parser of every length (`RunExists`), two runs of one file
agree (`RunsAgree`), and the function is the run. What a line does to the
turns follows from what `Strip`, `Flush` and `Collect` do (`StripGrows`,
`FlushDoes`, `CollectDoes`, `LineMoves`), and `EndedFollows` says what an
end of the file can do to a turn that is still being collected.

Four hypotheses restrict theorems beyond the assumptions, and each is one the
code needs:

- `Exclusive`: no store is open during a lifecycle command. The runs
  `stale_store_plaintext` and `swap_loses_write` show what happens otherwise.
- `Whole`: a response body that parses is complete, and validators tell pages
  apart; section 4 names what fails without it.
- `~Overlap`: commands of the native integrations, which take no lock, and the
  user's edits come one after the other; section 4 again. Kills
  and failures at any step, those of undoing included, are part of it. The types
  hold without it.
- `"role" \notin Scopes`: no search of one project by role, which is the finding
  `role_search`.

Proved and not a property of a run, because one that is rests on it:
`EndsAtLatest`, `FacadeUnique`, `SavedIsStored`, `OneInstallation` (which
`CommandsAtomic` implies), `PartsInv`, and the `TypeOK` of
`MeshStore`, `CryptoCache`, `ApiPull` and `ProjectMesh`.

Only model-checked:

- `Settles` and `Opens`: liveness under fairness, for which the prover has no
  means.
- The properties of the four runs of section 4, which do not hold.

No module uses `RECURSIVE`.

## 6. Abstractions

- A sealed value is the key it was sealed under; one `seal` stands for content,
  metadata and fingerprint, which are always written together. The envelope
  format and key derivation are left out, and so is
  `terms_mode` plaintext. `VACUUM INTO` begins and ends in two steps: the
  connection, the snapshot it reads and the creation of the file are the first;
  up to the second the file may be taken, replaced, or left behind by a kill, and
  counts as unfinished. An unfinished file that another command then swaps in
  becomes whole when its maker ends. After a file was spoiled only steps that
  neither connect nor commit go on. A batch of
  `insert_messages` is one record in `MeshStore` (it is a set in `ProjectMesh`).
- `CryptoCache`: the database is encrypted throughout; threads switch at calls
  and I/O, as in CPython since 3.10, and each access of an attribute is a step.
- `Migrations`: the statements of one migration are a step of its transaction;
  rows are counted; the journal mode and the row counts of a status report,
  which it reads last, are left out, and so are errors of its queries; stores of
  an older release do not write after an upgrade. A newer release is external.
- `HttpTokens`, `SupervisedService`: a token is its identifier and a secret is
  known once it was shown; the token file, `last_used_at` and the parsing of
  headers are left out; all tokens that expire do so at one moment; fresh
  identifiers are used in one order. A memorymesh of another API version counts
  as another program. The loop may answer one more request after it was asked to
  stop. Projects and
  scopes are one set of rights.
- `NativeInstall`: what one installation generates carries its process's
  name; a configuration that is absent or cannot be read has no entries, and
  a plan refuses one that cannot be read; one provider; a copy that is cut short
  leaves a torn text, also where a quarantined file is moved back, which across
  file systems is a copy; that the undo's deletion of a `.bak` copy or a manifest
  fails shows in the report only; the order among
  generated files is open; `uninstall-all` is one uninstall per manifest.
- `ApiPull`: an ETag identifies a page, each publication has a date of its own,
  an entry is its `source_key`; malformed entries and those without an id are
  left out.
- `Transfer`: one source and one target provider, one workspace; a bundle is its
  label and the messages in it; summaries, which travel along, and the wording
  of briefs are left out. Each inbox file and the handoff is written in one step;
  the bundle, which is the one file read back, in two, so that a reader can meet
  a truncated one.
- `LegacyImport`: a memory is its content; rows are read in order; what the
  importer refuses before the first row is left out.
- `KeyFiles`: a key file is written in one step; truncated settings read as the
  defaults; paths are absolute and `MEMORYMESH_ENCRYPTION_KEY` is not set. The
  commit of a lifecycle command is one step, with the backup of a rotation in it
  since no one else can write meanwhile; how the rows are rewritten, and the swap
  of the file, are in `MeshStore`. The other operations of the project do not
  look at the key here.
- `AiderHistory`: a line is its kind and its place in the file; Aider appends
  whole lines; the text after a marker is not blank and the date of a session is
  one that can be read. The role `tool` is stored as `system`. One history.
- `ProjectMesh` and `MeshSearch`: a message is its source key; a conversation
  has one transcript, which only grows; a summary is the set of messages it was
  made from, and is empty only under settings that make all empty; a summary
  imported with a bundle covers none of this database's messages; of a catalog
  row only the count is kept; the order among files and rows is open; scores and
  `top_k` are left out. The catalog's first write takes the lock that the
  following reads are made under, as the `sqlite3` module's implicit
  transactions do.

## 7. Not modelled

- **`--out`, `--push` and the choice of a conversation in a transfer**: a path
  or an address of the user's own, and a reading of what is stored. In the model
  a transfer finds any conversation a label can find.
- **The other parsers, embeddings, compression, rendering**: pure functions of
  strings and floating-point vectors. What the modules need of them (which
  messages share a term, which backends are compatible, whether a body parses)
  is a parameter.
- **Host checks, path containment, URL validation**: pure functions of one
  request.
- **Terminal interface, scanner, the other settings and commands, installation
  script**: no state shared with others beyond the operations modelled here.

## 8. Plan

What is modelled is checked, and every safety property that a passing run
checks is proved; the two liveness properties are left to the model checker.
What could be added: abstract specifications in the manner of `MemoryBook` and
`NativeBook` for other parts (an import as a set that grows to a given one, a
transfer as one delivery), and models of the parts that section 7 leaves out.
