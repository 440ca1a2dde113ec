# hactl in TLA+

hactl is a command line program that reads and edits a running Home Assistant
(HA). It talks to HA over HTTP and a WebSocket, and to a *companion* add-on over
HTTP, which owns the YAML files. Each invocation is a process; `hactl mcp` is a
process that serves many invocations to an agent. All processes on one instance
directory share its lock file, its backups and its small state files, and all of
them, together with HA's own editors, share the configuration they edit.

The modules here model the parts of that where order, failure and sharing
decide whether the user loses something, or is told something that is not so:
who may write, what is kept before a write, what happens to a request nobody
waits for any more, what the files in `cache/` still say after two processes have
rewritten them, and what an answer may claim about a source that could not be
read.

## Inventory

| Part | State | Operations | What is hard | What makes it correct |
|---|---|---|---|---|
| Confirmed writes (`writer`, `cmd/auto.go`, `cmd/script.go`, `cmd/rollback.go`) | the entry in HA, the copy in hand | read, validate, read again, back up, send; find a backup and send it | others write between the reads; answers are lost; processes die | no version is replaced that was not backed up; success means stored |
| Instance lock (`instancelock`) | a `flock` on one file | try, poll, give up, release | the holder dies, or its request outlives it | one writer; nobody waits for ever |
| Backup files (`backupfile`) | `backups/`, one file per backup, named by id and time | create exclusively, fill, find the newest | a torn newest file; equal names; other entries' files | a rollback restores its own newest complete backup |
| HTTP clients (`haapi/client.go`, `companion/client.go`, `httpretry`) | attempts, budget | sign, send, retry, pause, time out | a retry of what already happened; a request executed after its sender left | acted on once if not repeatable; ends within its budget |
| WebSocket and discovery (`haapi/websocket.go`, `companion/discovery.go`) | a connection, the next id, what was found | connect, authenticate, command, discover | answers that do not come; a second attempt | every dial is within `--timeout`; the reason given is the cause |
| Confirm guard (`cmd/inject.go`, `cmd/witness.go`) | `confirm-witness.json` | note a preview, check a confirm | unlocked read-change-rename by many processes; expiry | no guarded confirm without a recent preview of the same write |
| Manual delivery (`manual`, `cmd/inject.go`, `cmd/rtfm.go`) | `manual-state.json` | claim, mark, expire | the same unlocked update; recorded before printed | a lost update costs a duplicate, never a miss |
| Entry points (`cmd/root.go`) | flags, command objects, held lock | `Execute`, `RunWithOutputContext` | one process runs many commands | nothing of one command reaches the next |
| Renames (`cmd/ref.go`, `cmd/ent.go`, `cmd/dashbackup.go`) | registry, config files, dashboards | scan, plan, refuse, rename, rewrite, save | three writers without a transaction; unreadable sources | refuse before writing; success leaves no reference; a preview fails where the write would |
| MCP server (`mcpserver`) | the stream, the mutex, the manual's flag | read a line, reject, gate, run, answer | concurrent calls, panics, cancellation, malformed lines | a bad call costs itself; no flag or context leaks; the manual goes out once |
| Dashboards (`cmd/dash.go`) | HA's dashboards | show, grep, save, replace, create, delete | a socket lost halfway; YAML mode; a delete answered with an error | a preview fails where the write would; "no hits" has read everything |
| Registries and devices (`cmd/label.go`, `area.go`, `floor.go`, `device.go`, the set- commands of `ent.go`) | HA's registries | create, delete, set-label, set-area | the whole list of labels is read, changed and sent | no label of another hactl is undone |
| Helpers and templates (`cmd/helper.go`, `tpl.go`, `orphan.go`) | the companion's definitions, HA's entity registry | create, delete, clean up | lost answers, a retried DELETE, two stores | no ghost stays; no living entity is taken |
| Config entries and flows (`cmd/flow.go`, `haapi/flow.go`) | HA's entries and flows in progress | show, options, delete, start, step, inspect | a probe that starts a flow in order to read | a read leaves nothing behind |
| Read commands (most of `cmd`) | none | ask sources in order, answer | any of them fails or is empty | a failed fetch is not an empty answer |
| Cache (`cache`, `cmd/cache.go`) | traces, logs, samples, stamps | refresh, clear, status | several statements, several processes | the stamp tells what is stored |
| Short ids (`pkg/ids`) | `ids.json` | load, generate, save, resolve | an unlocked rewrite by every listing | an id on the screen leads to its row |
| Configuration and setup (`config`, `cmd/setup.go`) | none after start | choose instance and settings | – | – |
| Analysis, formatting, clock (`analyze`, `degeneracy`, `format`, `clock`) | none | pure functions | boundaries | algorithmic |
| Test infrastructure (`hatest`, `surfaceaudit`, `testaudit`, `livefire`, `realdata`, …) | – | – | – | not part of the program |

How they interact: an entry point runs the guard, then takes the lock, then the
command. The command reads and validates over the WebSocket, writes backups, and
sends its write through the companion client or over the socket. The MCP server
calls the second entry point under its mutex. `ent rename` calls the code of
`ref replace`. `PROJECT.json` lists every part with what is modelled of it, and
the hazards, each at its line with the properties that watch it.

## Modules

| Module | Models | Built on |
|---|---|---|
| `InstanceWrite` | lock, confirmed writes, backups, the companion's requests | – |
| `ConfirmGuard` | the guard before a confirmed write and its record | – |
| `ReferenceRename` | `ref replace` and `ent rename` | the lock of `InstanceWrite` (one command at a time) |
| `McpServer` | transport, gate, mutex, runs of an MCP server | commands that end (`InstanceWrite`'s `EveryCommandEnds`) |
| `OneRequest` | what the sender of one HTTP request is promised | – |
| `RetryBudget` | one request of either HTTP client, with its retries and their time | implements `OneRequest` |
| `Connection` | the WebSocket up to its authentication, and the discovery over it | – |
| `ReadSources`, `ReadCommand` | what each read command asks, and a run of one | `ReadCommand` extends `ReadSources` |
| `ManualDelivery` | what of the manual a session was given | – |
| `CacheStore`, `StableIds` | the cache and the short ids | – |
| `ConfigFlow`, `DashboardWrite`, `RegistryWrite`, `DefinitionDelete` | the other writing commands, by family | the lock is part of `RegistryWrite`, where several processes compete |
| `MCInstanceWrite`, `MCReferenceRename`, `MCConfirmGuard` | one module's small instance | each extends its module |
| `MCOneProcess` | `McpServer`, `RetryBudget`, `Connection`, `ReadCommand` | extends the four |
| `MCLocalFiles` | `ConfirmGuard`, `ManualDelivery`, `StableIds`, `CacheStore` | extends the four |
| `MCHomeAssistantWrites` | `ConfigFlow`, `DashboardWrite`, `RegistryWrite`, `DefinitionDelete` | extends the four |
| `…_proofs` | theorems, checked by TLAPS | each extends its module; `OneProcess_proofs`, `HomeAssistantWrites_proofs` and `LocalFiles_proofs` extend the `MC` module of that name and the proofs of the parts that have their own |

The last three `MC` modules each put four models side by side that share no
variable and, in the code, no state: a behaviour chooses one `part` at the start,
follows it, and leaves the others as they began (`…Rests`). Their state spaces
add up and do not multiply. The one thing the parts of `MCHomeAssistantWrites`
share in the code is the instance lock, which only says that no two confirmed
commands of different families overlap.

Operators named as a variant of another and commented `Mutant:` (and those named
`X_Y`, as `AcquireLock_Blind`) are a plausible mistake in the code of the
definition they stand by. None is part of a specification. `PROJECT.json` pairs
each with the property that notices it.

### InstanceWrite

A process is one invocation that runs one command at a time, `job`, and is
killed, cancelled (only inside an MCP server) or ends. `pc` follows the code:

| `pc` | Code | Actions |
|---|---|---|
| idle, lock | `rootPreRun`, `acquireWriteLock`, `instancelock.Acquire` | `Invoke`, `AcquireLock`, `PollAgain`, `GiveUp` |
| read, validate, reread | `Writer.Diff`, `Writer.Apply`, `validateCandidate`, `runScriptApply`, `runAutoDelete`, `resolveAutomation` … | `Diff…`, `Resolve…`, `Read`, `Validate…`, `ParseScript`, `Reread`, `Abort` |
| save, fill | `backupfile.Write` | `CreateBackup`, `FillBackup`, `FillFails` |
| find, write | `Writer.Rollback`, `findLatestBackup` | `FindBackup` |
| write, await | `companion.Client.doWithRetry`, `doOnce` | `Send`, `NeverSent`, `Fault` |
| exit | `Execute`, `RunWithOutputContext` | `Exit`, `Crash`, `Cancel` |

Requests on the `wire` outlive their senders: `Serve` executes one, `Lose` drops
it or its answer, and `LateRequests` lets one be executed after its sender gave
up (`Abandoned`). `ForeignWrite` is HA's own editor. Content is a model value; a
backup is the entry it was taken from, the key in its file name, and its content,
which is `Torn` between creation and the write, and `Gone` if that failed. The
backups are ordered as they were created: two of one tick are two places, and
what is left of the search for a free name is that there may be none.
Automations and scripts share the directory: a script's file is named
`script_<id>`, which the constant `BackupId` gives (an automation whose own id is
of that form would share it; the theorem about rollbacks assumes there is none,
and so does the instance). Errors of the system calls on the lock
file are left out; file names order by creation (the clock does not step back).

Properties: `OneWriter`, `NoVersionLost`, `RestoresOwnNewestBackup`,
`DoneMeansStored`, `EveryCommandEnds`.

### ConfirmGuard

`witness` is the shared file. A process decides (`Guard`), runs, and a preview
then loads the file (`NoteLoad`), changes its own copy, and renames it into place
(`NoteSave`) with no lock, so the updates of two processes overlap. `now` ticks
between steps; records expire after `TTL`. The history variables say what was
really previewed (`noted`), what was recorded while another update was under way
(`overtaken`), and what a server has shown (`shown`). A run of `--help` leaves
a record like any preview, as in the code. Time does not run backwards.

Properties: `Informed`, `NothingElseForgets`.

### ReferenceRename

One command at a time (confirmed ones hold the lock, previews write nothing).
A source's text is its version and whether it holds the old id. `Walk` fetches
the dashboards one at a time; `PlanGate` is what can be refused before anything
is written; `Config` is the companion's request over all files, atomic when
answered, any subset of the files when it fails (`ConfigFails`); `Snapshot` and
`Overwrite` are one dashboard's backup and save. `Others` edit, break, repair and
rename at any point. `Leave` also stands for a kill at any step. A request that
is executed after its sender gave up is a subject of `InstanceWrite` only.

Properties: `DoneLeavesNoReference`, `RefusedBeforeRewriting`,
`PreviewTellsReplace`, `OverwrittenIsKept`.

### McpServer

The client's lines wait in `inbox`; `ReadLine` takes one, answers it itself if
it is malformed with a readable id, drops it if it is garbage (unreadable, too
long, blank, without an id), and otherwise hands it over. A tool call is resolved
and gated outside the mutex (`Resolve`), enters (`Enter`), and leaves by `Return`
or `Panic`, both through the deferred calls (`Unwind`). `flags` and `context` are
the package variables and command objects that outlive a command. The SDK is
external: it may drop the answer of a cancelled call, and answers in any order.
The race between `ResolvePath` and a run on cobra's flag sets is left to `HangUp`,
which can end the process at any step.

Properties: `OwnFlags`, `OwnCancellation`, `ManualOnce`, `EveryCallAnswered`.

### OneRequest and RetryBudget

`RetryBudget` is `haapi.Client.doWithRetry`, its `doPostOnce` (a `sender` of its
own) and the companion's `doWithRetry`, with `httpretry`'s `Budget` and
`Idempotent`. `step` follows one attempt: `sign` (`applyIngressAuth`, which may
need a session over the WebSocket), `fly`, `judge` (retry or answer), `pause`
(`time.Sleep`, deaf to cancellation), `answered`. Time is counted in ticks and
passes only where the code waits. The server is external: it acts on a request
or refuses it, answers or not, and may act on one it was sent at any later time,
also after the answer.

`OneRequest` is what the caller is promised, without attempts or time: a request
that must not be repeated is acted on at most once, there is one answer, a
success was one. `RetryBudget` implements it with `effects` as what was acted on
and the final `answer` as what is told (`KeepsPromise`).

Properties: `KeepsPromise`, `WithinBudget`, `CancelledSoonEnds`,
`EveryFollowedRequestEnds`.

### Connection

`Connect`'s dial, upgrade, greeting and authentication, with its one retry, the
redirects it refuses and the deadlines the attempts share; then `Discover`: the
add-ons Supervisor lists, the best match among them, its address, and the
`DiscoveryError` that says why there is none. What stands at the configured URL
is chosen anew at every step. The authentication reads without a deadline of its
own (`clock` may pass `Timeout` there), so the property about time is about dials
and upgrades.

Properties: `DialsWithinTimeout` (in `WithinTimeout`), `ReasonIsTheCause`.

### ReadSources and ReadCommand

A read command is a sequence of reads. `ReadSources` writes each one down as the
code does it: which source, in which order, under which condition, and what its
failure does — ends the command, is said in the answer, in its body only, on
stderr, or nowhere. `liveEntitySet` asks for the states and then for the
registry, and only then decides: without the registry it refuses or warns, and
without both it fails. `ReadCommand` runs one: any source may fail, answer for a
part of itself, or hold nothing, and the run concludes with rows, "none",
"unknown", a refusal or an error. Matching and rendering of rows are left out;
arguments that are refused before anything is read too.

Properties: `UnreadIsNotEmpty` (as `UnreadIsTold` for every command not known to
break it), `SearchTellsItsScope`.

### ManualDelivery, StableIds, CacheStore

Each models one file, or set of files, of `<instance>/cache` that every process
reads, changes and renames into place or writes statement by statement, with no
lock, and may die in between.

- `ManualDelivery`: a command claims what its session still lacks
  (`Claim`), records that (`Save`), and only then prints; a refused command
  prints the manual with the refusal; `rtfm` marks what it prints. History
  variables say what was printed, what was credited, which sessions had an update
  overtaken (`muddled`), and what was recorded and never printed (`spoiled`).
- `StableIds`: a listing loads `ids.json`, gives every row its id, saves and
  prints; a later command resolves an id that was printed. The SHA-256 prefixes
  of a row are a table, with the full hash unique. `solo` says
  that, since the last clear, nobody has overlapped, died or failed to save:
  `AloneIdsStay` is about one process at a time.
- `CacheStore`: each database statement and each rename is a step; `unbroken`
  says that no two writing commands overlapped and none died.

Properties: `Instructed`, `NotTwice`, `AloneIdsStay`, `StampTellsStored`.

### ConfigFlow, DashboardWrite, RegistryWrite, DefinitionDelete

- `ConfigFlow` has HA's two flow managers; a flow is in progress until it
  finishes, is aborted or expires. Starts and steps are sent once. The probe of
  `show --probe-options-flow` starts an options flow in order to read its form
  and aborts it, with a context the cancellation does not reach.
- `DashboardWrite` is one command over one socket, which may be lost at any
  point, while other clients edit. The commands after the list, each on its own:
  `ShowTarget`, `SaveTarget`, `ReplaceTarget`, `CreateTarget`, `DeleteTarget`. A
  create asks of the list only whether the dashboard was found, so it plans also
  over a list that could not be had (`PlanUnseen`). `foreseen` holds every
  preview that passed, nothing having changed since; `sighted` holds those of
  them that had the list.
- `RegistryWrite` has several processes, the lock, and clients that know no
  lock. A behaviour watches one of the three registries, which have their own
  commands. A request nobody waits for any more stays on the `wire`
  (`MaxLost`).
- `DefinitionDelete` has the companion's definitions, the entity registry and
  the clean-up between them. A DELETE is retried (`Again`), a create is not; a
  definition whose file HA does not read is refused before it is created.

Each asks H-2's question ("a preview fails exactly where the confirmed run
would") in its own way, where it has one, and the three are joined in
`PreviewsForetell`. That is not H-2 of every preview, because the code breaks it
for two kinds, which are left out of it by name: a `dash create` previewed over a
list that could not be had (`DashPreviewForetells`, of every preview, fails: see
`create_preview`), and the creation of a label, an area or a floor, whose preview
asks Home Assistant nothing (`label.go:128`).

Properties: `ProbeLeavesNoTrace`, `NoHitsIsComplete`, `NoLabelUndone`,
`NoGhost`, `LiveKeepsItsEntity`, `PreviewsForetell`.

## Runs

| Run | Instance | Shows |
|---|---|---|
| `instance_write` | 2 CLI processes, 1 automation, 1 script, 2 contents, 2 attempts, 2 backups; apply and rollback; late requests | nobody writes beside the holder; an awaited overwrite replaces what its sender backed up; a rollback sends its own newest backup |
| `every_command` | 1 process of an MCP server, all four commands, HA's editor, cancellation | reported done implies executed |
| `commands_end` | 2 processes, apply, create, delete, 1 poll; fairness | every command ends |
| `reference_rename` | 1 file, 1 dashboard, 1 YAML dashboard, 1 edit by others | see the five properties |
| `local_files` | the guard: 2 processes of one session, 1 unguarded of another, TTL 1, clock to 3; the manual: 2 processes of one session, 2 families that share a heading, TTL 0, clock to 2; ids: 2 processes, 2 rows with a common prefix; cache: 2 processes, 1 trace | guarded confirms were previewed; nobody is answered without the manual; printed ids hold; the stamp tells what is stored |
| `one_process` | MCP: 2 calls of all nine kinds, read-only, fairness; request: every sender and method, 2 retries after pauses of 1 and 2 of 5 ticks; connection: timeout 3, dial 1, upgrade 2, 2 add-ons; every read command with every option | see the thirteen properties |
| `ha_writes` | flows: 1 client, 1 entry, 2 flow ids; dashboards: the default and 1 other, 2 contents; registries: 2 processes, 1 target, 2 names, 1 lost request; definitions: 2 helpers of one slug, 1 template, 3 attempts | see the seven properties |
| `late_write` | violation | a late request overwrites a version nobody backed up |
| `silent_socket` | violation | an unanswered WebSocket command holds the lock for ever |
| `mcp_confirm` | violation | a server refuses the confirm of a write it has just shown |
| `rename_preview` | violation | `ent rename` previews what its confirmed run will refuse half-way |
| `create_preview` | violation | `dash create` previews, over a list it could not have, what its confirmed run refuses |

Why the bounds are enough. Two processes suffice for every race on the lock and
on a file: each property is about a process and what came between two of its
steps, and one other process can do all of that. Two attempts in `InstanceWrite`
are one retry, the code's table has three, and a third repeats the second; in
`RetryBudget` two retries with different pauses reach a retry that fits, one that
does not, and one cut short. Two backups are one torn or foreign file and one
good one; two contents are what is stored and what is written. A TTL of one tick
and three ticks let a record expire and be renewed; a TTL of none with two ticks
does the same for the manual. One edit by others reaches every step of a rename.
Two helpers that share a slug and one template are what the slug cannot and can
tell apart. One client of config flows is enough for a property of its own probe:
other clients' flows are HA's own steps. A read command's sources fail
independently, in every combination. `MaxClock`, `MaxSocket` and `MaxLost` bound
waits and requests the code does not bound. The safety properties hold without
all these bounds, as the theorems show: `MaxAttempts`, `MaxPolls`, `MaxBackups`,
`MaxTime`, `MaxEdits`, `MaxSocket` and the others are constants of any value there.

Symmetry is used in `local_files` (the two processes of one session) and
`ha_writes` (the two helpers), neither of which has a liveness property.
Deadlock is checked in all runs but `one_process`, where a run ends: the client
has a finite number of calls, and a request or a read command is over when it is
answered.

Fairness. `InstanceWrite!FairSpec` asks each process to take a step when it
can: polls and retries are driven by timers, and a request whose answer does not
come is ended by the HTTP timeout (`Fault`). Locks are not handed over fairly,
and need not be: a waiter's deadline ends its wait. The one wait without a timer,
for an answer on the WebSocket, is excepted by `AwaitsSocket` when the constant
`SilentSocket` says HA may stay silent; `commands_end` assumes it answers, and
`silent_socket` shows what happens otherwise. `McpServer!FairSpec` asks that the
reader and each goroutine go on while the process lives. That a run ends is
assumed there, and is what `commands_end` shows for the writing commands; a
command stuck on a silent socket would hold the mutex as well as the lock.
`RetryBudget!RequestFair` asks that timers fire and the program goes on
(`OwnStep`), and nothing of the network or of HA; it leaves out the fetch of an
Ingress session, which waits on the WebSocket without a deadline, and
`EveryFollowedRequestEnds` excepts a request that waits there for ever.

## Findings

1. `late_write`. The lock is given up with the command, and a request that timed
   out may be executed in the next holder's turn: the serialization that
   `instancelock` and INVARIANTS.md (H-26) promise ends where the sender's
   patience does. INVARIANTS.md calls the boundary *honest about what it cannot
   exclude*, but names HA's editor there, not hactl's own requests.
2. `silent_socket`. `sendCommand` reads with no deadline and drops its context.
3. `mcp_confirm`. `cliEntry` stays true for the life of `hactl mcp`, so the CLI's
   guard applies to each tool call, and only `Execute` records previews: each
   confirm over MCP is refused in an agent-shaped process unless a CLI process of
   the same session has previewed it.
4. `rename_preview`. The gate for YAML dashboards is met only by the confirmed
   `ent rename`, after the registry has been renamed.
5. `create_preview`. `runDashCreate` takes every error of `findDashboard` for "no
   such dashboard" (`dash.go:981`): a preview whose list failed prints its plan,
   and its confirmed run, nothing having changed, says that the dashboard exists.
   INVARIANTS.md's H-2 and `dash.go:963` promise the contrary.

Seen on the way and not claimed by a run:

- `auto rollback` without an id takes the newest file of `backups/`, where
  `script apply` stores its own (`rollback.go:27`); a rollback takes no backup of
  what it replaces; the backup of an apply that failed makes the next rollback a
  no-op.
- A confirmed `ref replace` whose only match is in a file that could not be read
  says it was not found (`ref.go:332`); one whose companion answer is lost leaves
  files rewritten although `ref.go:303` says that it aborts before anything is
  written.
- A DELETE whose answer was lost is retried and reported as failed, and the
  clean-up is skipped: the entity stays a ghost.
- `dash delete` takes a dashboard for gone when the second list could not be had
  (`dash.go:1055`, against INVARIANTS.md:937).
- Of a field with a default and a suggested value, the probe of an options flow
  reads the default (`flow.go:486`), while `flow-inspect` shows the suggestion, as
  the one "a caller re-submitting a form wants to see" (`flow.go:1050`).
- The one check of the preview of `label create` is for a blank name
  (`label.go:124`), "so the preview fails exactly where --confirm would"; that
  Home Assistant refuses a name that is taken, only the confirmed run learns.
  `area create` and `floor create` are the same.
- `fetchCustomComponents` logs a failed `manifest/list` at debug and answers as if
  it had been empty (`cc.go:280`, `cc.go:92`), against H-21 ("a fetch that failed is
  not an empty answer"). `MuteAboutComponents` names the three commands of this
  kind; `Mute` the others that deny something over a source whose failure nobody
  is told of (`ent ls --area`, `script ls --label`, `ent hist`, `ent anomalies`,
  `ent who`), where the answer at least names what else to try. `UnreadIsTold`
  leaves the `Mute` ones out.
- Two listings at once can give one id to two rows, of which `ids.json` keeps
  one, while `manual.md:1180` says the ids are kept until `cache clear`;
  `sharedstate.manifest:48` has the lost update as a known debt.
- `Connect` is bounded while it dials and upgrades, and not while it
  authenticates (`websocket.go:56`).
- The rule that an id wins over a name (`resolve_target.go:5`) is kept for
  registries and not for the set- commands of `ent.go`.
- What `rtfm` records as given it may not have printed; over MCP the first result
  a client sees may lack the manual.
- `auto ls --failing` and `ent related` tell of an unread source on stderr only.
- `AppendLogs` and `TrimLogs` of the cache are called by nothing.

## Proofs

Each `…_proofs` module shows an inductive invariant per component and takes the properties
from it: initial states satisfy it, one lemma per action keeps it, and one
theorem per property follows by temporal logic. The assumptions are those named
in the modules (`…Assumption`), which TLC evaluates in the runs.

- `InstanceWrite_proofs` (`IInv`). Mutual exclusion alone does not carry
  `NoVersionLost`: the invariant also says that a process past its backup holds a
  slot with exactly what it read, that this is still the newest backup of its
  entry while it holds the lock, and that only its own current attempt can change
  the entry while nobody outside has interfered (`undisturbed`).
  `RestoresOwnNewestBackup` further needs that no two entries share a backup name
  (`NoCollision`), and is proved under it. Theorems: `Invariance`,
  `TypeCorrectness`, `WritesAreSerialized`, `ReportsAreTrue`, `NothingIsLost`,
  `RollbackRestoresItsOwn`.
- `ConfirmGuard_proofs` (`GInv`). The file is bounded from above by what was
  really previewed, including in the copies of updates under way, which gives
  `Informed`; and from below for keys no overlapping update has touched, which
  gives `NothingElseForgets`.
- `ReferenceRename_proofs` (`RInv`). Per stage: what the walk has fetched is what
  is stored (`Fetched`), what passed the gate (`Admitted`), how far the rewrite
  has come (`Rewriting`), what the snapshot holds (`Snapshotted`), and what a
  preview that passed has seen (`Previews`).
- `McpServer_proofs` (`SInv`). The CLI's variables belong to the holder of the
  mutex and are clean when it is free (`Mutex`, `Clean`); a running call's context
  is its own (`Gated`).
- `RetryBudget_proofs` (`BInv`, `CInv`). "At most once" is not inductive: what was
  acted on and what the server may still act on are counted together, and a POST
  that is about to be sent again has left neither behind (`Sole`). `Timely` bounds
  an attempt's and a pause's end, which gives `BudgetIsKept`. `CInv` says of a
  cancelled request that the time since, and what it may still take, are within
  the pauses of the retries it has left (`Hurried`), which gives
  `CancelledEndsSoon`; that the pauses from one retry on are the pause before it
  and the rest (`PausesSumUp`) is shown of a recursive function by its least
  counterexample. The refinement, `PromiseIsKept`, maps each step of the server to
  `Act`, the step that answers to `Tell`, and every other step to a stutter.
- `OneProcess_proofs` (`ConnInv`, `ReadInv`). A failure of `Connect` is known to
  `Discover` alone (`Explained`), so the reason given at the end is that of the
  last attempt. A read command's invariant says, of any command whatever, that
  what it has missed it has told by then if each of its sources tells
  (`ToldSoFar`, `ScopeSoFar`), and this is read off its definition: `Outspoken`
  and `Scoped` are predicates on a command. `CommandsTell` then shows of each of
  the commands of `ReadSources`, by what it is built from, that it is `Scoped`,
  and `Outspoken` unless it is `Mute`; of the mute ones that is false, so `Mute`
  is no wider than it must be. `UnreadIsAlwaysTold` and `ScopeIsAlwaysTold` assume
  `Asks \subseteq MCAsks`: a run is of one of those commands.
- `HomeAssistantWrites_proofs` (`FlowInv`, `DashInv`, `RegInv`, `DefInv`).
  `WritesPreviewsForetell` is about `PreviewsForetell` as stated, without the two
  kinds of preview for which the code breaks H-2; its dashboard
  part, `SightedPreviewForetells`, covers every preview that had the list, those
  of `dash create` included. `ProbeLeavesNoTrace` needs that a probed flow still in progress is the one its
  prober has been answered and is about to abort, and that an id is given once
  (`Owned`). The three kinds of preview need that what a standing preview saw is
  still so (`Supported`, `Accepted` of the sighted ones, `Foretold`), with what a
  run holds in its hands compared to the registry it would read now (`Suits`). `NoLabelUndone`
  needs the lock (`Suits`) and that a request on the wire is the one its sender
  waits for, or nobody waits for it (`InFlight`): then what is written over what
  was read differs from what is there in the named labels only. `NoGhost` needs
  that the slug still names what was resolved (`Pinned`) and that all of it that
  is registered is on the list to be cleaned up (`Gathered`).
- `LocalFiles_proofs` (`DeliveryInv`, `IdsInv`, `CacheInv`). `Instructed` holds
  because what is recorded of a session, and what any process is about to record,
  is accounted for (`RecordIsSeen`, `DraftIsSeen`): it was printed, is about to be,
  or was lost with its printer, and no step makes that less; how updates of the
  file overtake each other then does not matter. `NotTwice` does depend on it:
  the record has all that was credited, and an update under way adds to it
  (`Credited`, `DraftAdds`), for sessions that are not `muddled`. `AloneIdsStay`:
  an id is the first free one of its row's prefixes, so never another's, and what
  was printed is in the file or in the hands of the one process at work (`Kept`).
  `StampTellsStored` goes statement by statement with the command under way
  (`Midway`), which is the only one while nothing is broken (`OneAtATime`).

Composition. `FamiliesImplemented`, `PartsImplemented` and `FilesImplemented`
show that the composed specification implements that of each of its parts: the
parts share no variable, so a step of one is a stutter of the others. Whatever is
proved of a part is thereby proved of the specification its run checks
(`WritesKeepTheirPromises`, `ProcessKeepsPromises`, `FilesKeepPromises` and the
type theorems).

Every invariant and every action property of the passing runs is a theorem, for
every value of the constants that satisfies the named assumptions. TLC has checked
the inductive invariants on the runs' instances as well.

What the proofs made us change in the modules. A `CASE` whose arms overlap is any
of them in TLA+ and the first in TLC: the chains of early returns that were
written so are `IF … ELSE IF`, as in the code (`ResolveEntry`,
`matchCompanion`, `ReplaceTarget`, `Claimed`, `FirstOf` and others). `SUBSET A \cup B`
is read differently by the two tools, and is parenthesised. Selections by
`SelectSeq` and folds, which the provers cannot open, are index sets with a least
member (`ById`, `Candidates`, `generate`) and a recursive function (`PausesFrom`).
Assumptions came out that the runs' values had hidden: a placeholder is none of
the real things (`None`, `Torn`), there is a slug, the core is no family's
heading, and a run's commands are commands (`ReadAssumption`).

Only model-checked: the liveness properties (`EveryCommandEnds`,
`EveryCallAnswered`, `EveryFollowedRequestEnds`), which need fairness and
`ENABLED`, out of the prover's reach; and the violations, which a theorem cannot
state.

## Not modelled, and what comes next

Next: one abstract specification of a locked read-modify-write, which
`InstanceWrite`, `ReferenceRename` and `RegistryWrite` would each be shown to
implement, as `NoVersionLost`, `OverwrittenIsKept` and `NoLabelUndone` are one
promise of one lock; and the converse of `UnreadIsAlwaysTold`, that each mute
command does deny something unread in some behaviour.

What some properties do not claim, and the hazard list says so where it names
them:

- `AloneIdsStay` is about one process at a time, and `StampTellsStored` about
  commands that neither overlap nor die: beyond that the code keeps no promise of
  the kind (the last listing to save wins; a refresh that dies half-way leaves a
  mixture).
- `Instructed` excuses the death between the record and the print, `NotTwice`
  the sessions whose updates were overtaken, `ManualOnce` what becomes of an
  answer on its way to the client.
- `LiveKeepsItsEntity` and `NoGhost` leave out another client that acts between
  look-up and removal, and a ghost that a failed deletion leaves: they say that
  hactl by itself does no further damage, and that a success leaves none.
- `DoneLeavesNoReference` is about the verdict "done".
- That two lines of the MCP transport do not mix is its writer's mutex, and
  below the model; the equal names of two backups are, too.

Left out:

- The lock where no cache directory can be resolved (`lock.go:69`): such a process
  writes unlocked, and shares no instance directory with the others.
- The lower-casing of labels (what is looked up is, so an id that
  had capitals would be found by its name only), `device`'s search by part of a name
  and its ambiguous matches, `area create --floor`.
- Several orphans of one template, which `tpl.go` removes one by one: a template
  has one entity in the model.
- A cached log that is half written (`WriteLog`, and `FetchLog`, are one step): it
  takes a death or a second process, which `unbroken` excludes anyway.
- Matching, aggregation and rendering of rows, token caps, the output policy and
  the contract of flags: data, not control.
- `analyze`, `degeneracy`, `format`, `clock`: pure functions without state;
  floating point and text.
- Subscriptions of the WebSocket, and its typed commands one by one: each is the
  same round trip.
- `script run`, the streaming of companion logs, `wireguard` up and down, a
  confirmed `svc call`: one request each, which `RetryBudget` or the socket
  already is.
- `config` and `setup`: decided once at start.
- `surfaceaudit`, `testaudit`, `livefire`, `realdata`, `hatest`: audits, fixtures
  and fake servers of the tests, not part of the program.
