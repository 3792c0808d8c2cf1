# A TLA+ verification of mcpd

`mcpd` is a daemon that lets MCP clients administer a Linux host: it runs
*tools* and reads *resources* for authenticated users, in short-lived worker
processes that run as the user's own OS account or, where `mcp-sudo.yaml`
grants it, as root. `linuxctl` is its command line: client and user
administration. This directory models the parts of both in which several
goroutines, processes or files have to agree, and the algorithms in between,
checks them with TLC, and proves the main results with TLAPS.

Contents: [Inventory](#inventory) · [Modules](#modules) · [Runs](#runs) ·
[Bounds](#bounds) · [Fairness](#fairness) · [Proofs](#proofs) ·
[Where the code and its documentation disagree](#where-the-code-and-its-documentation-disagree) ·
[Not modelled](#not-modelled) · [Plan](#plan)

## Inventory

| Component | State it keeps | Operations | What is hard |
|---|---|---|---|
| SSE sessions (`cmd/mcpd/http.go`, `internal/rpc/rpc.go`) | `sessions` map; per session `Event` (bounded), `Done` | `GET /sse`, `POST /message`, one goroutine per accepted message | three kinds of goroutines share a channel that one of them closes; authentication and registration are separate steps |
| Config reload (`cmd/mcpd/reload.go`, `internal/rpc/handler.go`) | `daemonConfig`, `settings`, the two caches | `reloadConfig`, `Reconfigure`, `closeSessions` | several swaps under different locks, while calls and streams go on |
| UID pinning (`cmd/mcpd/uid_pin.go`) | `pinned_uid` in memory and in `users.yaml` | `checkAndPinUID`, `persistUIDPin` | read-modify-write of a file that `linuxctl` rewrites too; trust on first use |
| Tool calls (`internal/rpc/tools.go`) | `RpcCache`, `RequestGroup` | `HandleToolsCall` | results shared between calls that were authorized separately |
| Worker spawner (`internal/worker/spawner.go`) | none | `SpawnWorker` | the one place where an account is chosen; timeouts |
| Resource reads (`internal/rpc/resources.go`, `internal/cache`) | `TTLCache.items` | `HandleResourcesRead`, `Get`, `Set`, `Clear` | one cache for all users; expiry decided without the lock |
| Stdio transport (`cmd/mcpd/stdio.go`) | one session, `inflight` | `serveStdio` | shutdown: wait, close, flush, in this order |
| Grants (`internal/config/sudo.go`) | `mcp-sudo.yaml` | `CanRunAsRoot`, `PathAllowed`, `CronRuleFor`, ... | lexical path matching, wildcards |
| Users and daemon files (`internal/config/daemon.go`, `internal/yamledit`) | `daemon.yaml`, `users.yaml` | load, validate, `SaveDoc` | written in place, by two programs |
| User administration (`cmd/linuxctl/mcpd_admin.go`, `edit_config.go`) | the same files | create, update, delete, migrate, edit | two files for one change |
| Cron (`internal/rpc/cron.go`, `internal/tools/cron/manage`, `cmd/linuxctl/edit_crontab.go`) | crontabs | view, list, replace with `if_match` | compare-and-write without a lock |
| Docker (`internal/rpc/docker.go`, `internal/docker`, `internal/tools/docker`) | the engine's | list, inspect, manage, exec, prune | a name checked now may be another container later |
| Safe file access (`internal/fsafe`), file tools | the file system | open without symlinks, list, read, update, chmod, ... | races with renames; edit and mode algorithms |
| `linuxctl` client (`cmd/linuxctl/main.go`, `reload.go`) | `responseChans`, `sessionEnded` | connect, call, bridge stdio, edit | a reader goroutine, the POST and the end of the stream race |
| `linuxctl` grammar, completion, `explain`, `describe` (`resolver.go`, `completion.go`, `aggregates.go`) | the registry and its cached copy | `Resolve`, `mapPositionalArgs`, `completeWords` | one word may be a verb, a keyword or data, depending on the catalog |
| Network policy (`internal/netpolicy`) | none | allow/deny of a destination | a name that resolves differently the second time |
| TLS files, rate limiter, read-only system tools, logging | small or none | see `PROJECT.json` | mostly I/O |

How they interact: a message comes in through a session (SSE) or a line
(stdio) and runs in its own goroutine. It takes one snapshot of the grants,
checks them, may be answered from a cache or from another call's flight, and
otherwise has a worker started. Its answer goes to the session's `Event`
channel, which the stream's handler (or the stdio writer) drains. A reload,
itself a tool call, replaces users, grants and caches under `cfgMu` and then
closes sessions. Authentication takes users from memory, may pin a uid and then
rewrites `users.yaml`, which `linuxctl` also rewrites and the reload reads.
Workers act on state that is not mcpd's - files, crontabs, the Docker Engine -
and that others change between any two of their requests. `linuxctl` takes the
catalogs of the daemon to decide what a command line means.

What makes each part correct: an answer reaches only its requester; a reload
ends the sessions it must and no others; a revoked token is dead; a name is
used with one OS uid; nothing runs as root, and nothing read as root is
handed out, without a grant in the caller's own snapshot; sharing a result
never shares somebody else's; every accepted request ends; nothing is lost at
shutdown. A worker acts on the very object that was authorized, and only on it;
an administrator's change survives a crash, and a user's line, crontab or mode
bit survives somebody else's edit; a command that says it succeeded did, and
never waits for nothing. `PROJECT.json` lists, line by line, the places where this could go
wrong ("hazards") and the property that watches each.

## Modules

Every lock-protected block of the code is one step, and any other goroutine may
run between two such blocks; a file is read in one step and a read-modify-write
is several - ConfigFiles also splits a write into its truncation and the rest.
A request to another process (the Engine, `crontab`, the kernel's lookup of one
name) is one step, and anything may happen between two of them. History variables (marked as such) record what the
properties talk about and never influence a step.

**Sessions** - `GET /sse`, `POST /message`, the request goroutines, the reload.
A token is a generation number per user (`token`, 0: no such user). `st` takes a
stream from authenticated over registered (in the `sessions` map) to closed;
`chan` is `Session.Event`, `wire` what was written to the client. A request is
authenticated, accepted (session found, same user), processed, and sends its
answers - `Send` waits for room, `SendOnClosed` is Go's panic, which ends the
process; `Restart` is systemd's. A client that is connected and no longer reads
blocks the handler in a write (`EventBlocks`, `KeepaliveBlocks`, the set `stuck`),
until the connection is gone (`WriteFails`). `ReloadRead`/`ReloadSwap`/`ReloadClose` are the
three parts of `reloadConfig`, run by a request of kind "reload" under
`reloadMu`. Kind "direct" is a resource read that `HandleResourcesRead` answers
by itself before `ProcessJSONRPC` answers it again.

**UidPin** - `users.yaml` (`fTok`, `fPin`), its copy in memory (`mTok`, `mPin`),
the requests that match a token, look up the account and check or set the pin
under `uidPinMu` and `cfgMu`, the save in `persistUIDPin` (load, then write),
reload, restart, and `linuxctl` (`CtlLoad`, then `CtlSetToken` or `CtlDelete`).
`ChangeAccount` is the host's administrator. `lost` becomes true when a copy of
the file that is older than somebody else's write is written or swapped in.

**ToolCalls** - `tools/call` from the authenticated message to its result. A
config is its epoch; `usersEpoch` is the one `daemonConfig` is of, `setEpoch`
the one `h.settings` is of, `grants[e][u]` what config `e` lets `u` do as root
(`Levels`: no grant, a paths list without `allowed`, `allowed` without a paths list -
which only a start takes, a reload is strict -, both, `/`).
`Check` is the snapshot and the master's checks; `CacheHit`, `CacheMiss`,
`JoinFlight`, `LeadFlight`, `FlightEnds` are `RpcCache` and the singleflight group;
`SpawnWorker`, `SpawnRefused`, `WorkerReturns`, `WorkerFails` the worker; `SwapUsers`,
`StoreSettings`, `ClearCache` the reload. A cache entry and a flight are named
by the call that made them. `noRoot` is `worker.NoRoot`: with it the model is of
`mcpd stdio`, which has no grants and no reload. `files/read` stands for the
tools that go straight to a worker, `disks/usage` is the cached one.

**ResourceReads** - `resources/read`: the snapshot, the check of strictly
privileged URIs before the cache, `TTLCache.Get` in its three parts (copy under the
read lock, compare with the clock without it, delete under the write lock), who
reads each kind of URI and what grants that takes (`Reader`, `MayRead`), `Set`,
and the reload (`StoreSettings`, `Clear`). An item is named by the read that
stored it. `crontab://` goes to cron's preparation (`readCrontabResource`,
`resources.go:296`) and is not among the kinds.

**Answering** and **Stdio** - `Answering` is the abstract promise of a JSON-RPC
server to one client: a message read gets exactly the answers it is owed, and
the server stops only when none is missing. `Stdio` is `serveStdio`: the
scanning loop, which sends parse errors itself, one goroutine per request
counted by `inflight`, the bounded channel, the writer, and the shutdown. It is
checked and proved to implement `Answering` (`KeepsPromise`).

**ConfigFiles** - the config directory. `dfile`, `ufile`, `sfile` are `daemon.yaml`
(with its legacy list), `users.yaml` and `mcp-sudo.yaml`; a list maps a name to the
generation of its entry. Each `linuxctl` command is a process (`pc`, `job`):
`usersFileFor` with its migration (`UsersFileThere`, `MigrateLoad`, `MigrateCreate`,
`MigrateFill`, `MigrateClear`), create, delete and update (`LoadUsersDoc`,
`TruncateUsers`, `SaveUsers`, `LoadSudoDoc`, `SaveSudo`) and edit (`ReadForEdit`,
`EditUsers`, `EditDaemon`, `EditSudo`, `Rename`). `Die` ends one anywhere. The
daemon reads the three files in steps of their own (`ReadSudoYaml` and the `Swap`
after it included), strictly on a reload and leniently at a start, and it is a writer
too, the process `Mcpd`: `persistUIDPin` loads the file its config came from
(`PinLoad`) and writes it back, `users.yaml` like everybody else, a legacy
`daemon.yaml` by `PinLegacy`. No lock is shared between the two programs. `overlap`, `broken` and `torn` record what the properties except;
`made`, `removed` and `orphans` who was listed, was removed, and was removed by an
edit of the list alone (`Listed`, `EditedByHand`).

**CronEdit** - `cron/manage`: the rules of a grant (`ValidRules`, `MayView`,
`CronViewAccounts`), the master's `Prepare`, the worker's own refusals,
what the two make of the same arguments, its
`crontab -l`, comparison with `if_match` and `crontab -` as separate steps, and
the editor of `linuxctl edit crontabs`. Others edit crontabs (`OutsideEdit`), and
accounts change their uid (`Renumber`). The master looks at exact keys, the worker
decodes into a struct, which takes a key in any case and with letters that fold into
one another: `also` is what a call sends under such keys (`Spellings`; `Exact`:
nothing), and `ModeOf`, `TargetUser` and `ViewUsers` are what the worker then acts
on. A key that folds only through a letter outside ASCII sorts behind the daemon's own
and wins; `content` needs no such letter, since the master sets none.

**Docker** - the `docker/*` tools: `PrepareDockerCall`, `Resolved`, `Allowed` and
`Authorize`, and for each tool the requests its worker makes. `also` is a list the
call sends under another spelling of `_containers`; `Containers` is the list the
worker's decoding ends up with. A request may fail without
effect (`Fail`), or be carried out and its answer come too late (`Replied`). The Engine keeps
containers (names, states), images, volumes and networks; others rename, create,
start, stop and remove (`Rename`, `Create`, `Toggle`, `Delete`). An exec is created, started, read until its end or the
output limit, and asked for its state.

**Files** - the file tools over `fsafe`. The filesystem is the entries of each
directory; every lookup of one name is a step (`Openat`), and `Swap` lets the
owner of a directory replace an entry meanwhile. `Check` is the master's path
check and its `_no_follow`; `UpdateRead`, `UpdateTruncate`, `UpdateWrite` are
`files/update`, with its line arithmetic in `UpdatedText`; `Visit`, `Child`,
`NamesToVisit` are `fsafe.Walk`; `ApplyMode`, `ParseOwner`, `NewOwner` the arithmetic of
chmod and chown; `Dots` is the `.` and `..` that `files/list` adds with `all`, from the
path or from its descriptor. Texts are sequences of characters of which "n" ends a line; modes
are sets of bits.

**Resolver** - the grammar of `linuxctl` as operators: the three catalogs the
daemon lists (names, groups, verbs, the fields the grammar can see), `Resolve`
with its seven ways to match, `SplitFlagsAndPositional`, `MapPositionalArgs`,
`CoerceFlagTypes`, and what completion and `explain` offer. A word keeps only what the
grammar sees of it: whether it equals one of its words (also in another case where the
code folds, `Folded`), looks like a number or a flag, or carries a value (`WithValue`).

**Client** - one `linuxctl` process, composed with Resolver: main (`pc`, the calls
still to make in `todo`), the reader goroutine (`Read`, `Routed`, `StreamEnds`),
completion's timer, and mcpd as far as a client sees it, which accepts, answers - a
read sometimes twice - and closes when it likes. The words of a command line come from the MC module, the
requests they lead to from Resolver.

Stdio and Client name their specifications `StdioSpec` and `ClientSpec`, because one
module proves things about both and about Sessions.

The `MC*` modules add the symmetry sets and small inputs for TLC; the `*Proofs`
modules hold the theorems, `TransportProofs` those of Sessions, Stdio and Client.
An operator whose comment begins with "Mutant" is a deliberately wrong variant of
the definition after it, a plausible bug of the code; replacing the definition
by it makes TLC violate the property it is listed with in `PROJECT.json`. No
specification uses one.

## Runs

| Run | Checks | Shows |
|---|---|---|
| `sessions_safety` | `AnswersReachOwner`, `RevokedStreamsClosed`, `OnlyRevokedClosed`, `NoStrayAnswer` | answers reach only the session's owner; a reload tells every registered stream of a removed or re-keyed user to end, and no other; notifications are never answered |
| `sessions_liveness` | `StreamsEnd`, `AcceptedIsAnswered` | with a full channel and blocked senders, a stream told to end ends, and an accepted request is answered as long as its stream is open - unless its client stays connected and stops reading |
| `uidpin_safety` | `AcceptedUidsAgree`, `PinsHold`, `DeadTokensStayDead` | one uid per user between two reloads, whatever interleaves; across reloads, restarts and `linuxctl` the pin and the death of a token last as long as no write was overtaken by an older copy (`lost`) and no save failed (`unsaved`) |
| `toolcalls` | `SnapshotNotOlder`, `RootOnlyByGrant`, `SharedResultsAgree`, `RootResultsWereGranted`, `OneWorkerPerKey`, `EveryCallEnds` | no call runs under grants older than its users; no root without a grant of the call's own snapshot, and none over stdio; a shared result is what the call's own worker would have produced; equal calls start one worker at a time, and every call ends, also one that joined a failing flight |
| `resource_reads` | `RootContentNeedsGrant`, `ClearIsABarrier` | although all users share the cache and Get may remove a fresh item, content read as root goes only to users granted it (but see `network://routes` below), and a reload's Clear separates before from after |
| `stdio_safety` | `NoSendAfterClose`, `ExitFlushesAll`, `KeepsPromise`, `Exits`, no deadlock | reader, handlers and writer never wait on each other for good; no send on the closed channel; nothing lost at exit; `Answering` is implemented |
| `config_files` | `UsersAreKept`, `QuietDirLoads`, `NoInheritedGrants` | a user is in one of the two files at every moment, also when the migration dies; any sequence of commands and pins leaves a directory a reload accepts; a new entry never runs with an older entry's grants, wherever a reload falls - all of it unless writers overlapped |
| `cron_edit` | `RootCrontabUntouched`, `EditsByRule`, `LostOnlyInWindow`, `ListAgreesWithView` | root's crontab is never written, although master and worker judge names and uids at different times; every write has a rule, and the list shows exactly what single views would, if keys are spelled exactly, and some rule is needed even if not; `if_match` leaves only the window between compare and write |
| `docker` | `ActsOnWhatIsGranted`, `DestroysOnlyWaste`, `ExecEndIsReal`, `ListingShowsUsers` | acting by the resolved ID closes the gap between check and use, for calls that send no list of their own under another spelling of `_containers`; no running container, named volume or tagged image is destroyed; a JSON exec answer says `running: false` only of a command that ended; a volume shown unused is unused |
| `files` | `StaysInside`, `UpdateKeepsRest`, `SharedDirsKeepSetgid`, `WalkReachesAll`, no deadlock | the component-wise walk keeps a root worker inside its grant under every swap of entries, but for the `..` of a listing with `all`; the edit algorithm agrees with its definition on lines; modes, owners and the tally of a recursive change are right |
| `client` | `ExitTells`, `OffersResolve`, `ArgumentsFit`, `ClientMovesOn`, no deadlock | exit status 0 means that the request's own answer was a success; completion and `explain` offer what the resolver takes, unless the verb is another tool's own; arguments fit, but for numbers and bare flags on array fields; no wait goes on after its cause is gone |
| `sessions_survive_reload` | `SessionsSurviveReload`, violated | see [below](#where-the-code-and-its-documentation-disagree) |

Deadlock is checked in `stdio_safety`, `files` and `client`, whose models end in
states of their own. In the others requests are a finite supply, so every behaviour
ends in a state with nothing left to do and deadlock is not checked; what must
not get stuck there is stated as liveness.

## Bounds

- **Sessions**: two users, two streams, two requests, a channel of one, token
  generations up to 2. Two streams of one user and one of each, an answer meeting a
  full channel, a reload run by one of two requests whose own stream it closes,
  and a crash with both streams open all fit. With one stream and no symmetry the
  liveness run still has two senders on a channel of one, and a client that may
  hang up or stop reading at any point.
- **UidPin**: one file, two uids, three requests, tokens and epochs bounded by
  `MaxGen` and `MaxEpoch`: a first pin, a competing pin and a check after a reload
  need three requests; a stale copy needs one reload and one write.
- **ToolCalls**: one user, two calls, one reload; a leader and a follower, or a
  writer and a reader of an entry, with a reload anywhere between. `FewRequests`
  keeps the requests that differ in what the code does with them. That calls of
  different users never share is left to the theorem `SharingIsSound`.
- **ResourceReads**: two users, three reads, one reload: one read finds an
  expired item, the second replaces it, the first removes the replacement, and
  the third is left to see the result.
- **Stdio**: a line of each kind and a second request, a channel of two, so that
  senders and the reading loop all wait.

- **ConfigFiles**: an ordinary name and one with uid 0, linuxctl and the daemon, two
  commands (`MaxCmds`), so a migration followed by any command and a delete followed
  by a create of the same name; pins, reloads, restarts and deaths are not bounded.
  Two commands at a time are left to the theorems: every property excepts them.
- **CronEdit**: a caller, another account and root, three kinds of grants, two
  clients, two writes (`MaxVer`): one editor's read, somebody's write, and the
  editor's own write over it. Calls have exact keys, or every key in another
  spelling besides (`SomeSpellings`): content, another target, all accounts to list.
- **Docker**: three IDs and three names, so that a name can move to a container
  that did not exist when the call began; an image and two volumes; two calls, one of
  which may bring a list of its own that names a container the grant does not; two
  changes by others (`MaxOutside`).
- **Files**: a granted directory with a subdirectory its users own, a directory
  outside, links to both kinds of outside inodes; `/`, the parent of the granted
  directory, is outside too. `MCScenarios` enumerates every
  tool on every path with two swaps; every text of up to three characters with
  every range; seven modes and all forms of an owner, alone and in pairs.
- **Client**: the complete catalogs; eight groups, six verbs, no word, keywords,
  data and flags, with a value in the next word, after `=`, and without one; a verb in
  another case; every docker, service, cron and file tool by name; all fixed
  commands; a bridge of two lines (`MaxLines`). One process makes at most a few
  calls, so nothing else is bounded.

The theorems hold without these bounds, for any users, calls, reads, lines,
capacities, generations and epochs, accounts, crontab versions, containers,
grants, names, processes, commands, trees and texts. `MaxGen`, `MaxEpoch`
and `MaxCmds` only stop counters.

## Fairness

Weak fairness of the daemon's own steps, never of clients or administrators:

- a goroutine that can run does run (the Go scheduler), also a stream's handler, which takes
  the next event; a blocked sender is
  served when there is room, since its `Send` then stays enabled until it is
  done or another takes the room;
- a handler returns: `SpawnWorker` gives every worker a context with a timeout
  and kills it, so `WorkerReturns` or `WorkerFails` happens;
- mcpd is restarted after a panic (`packaging/mcpd.service`, `Restart=on-failure`);
- over SSE a client owes nothing, not even to read. Whether the write of an event ends
  is its choice (`DeliverEvent` or `EventBlocks`; the disjunction is fair, neither is),
  and only the end of the connection ends a blocked write (`WriteFails`): neither
  server sets a `WriteTimeout` (`main.go:291`, `main.go:316`). `StreamsEnd` and
  `AcceptedIsAnswered` except a client that is connected and has stopped reading
  (`StoppedReading`), and the latter allows the stream to end first;
- over stdio the client reads its answers (otherwise the writer blocks and mcpd
  rightly waits). Clients need not send, hang up or close their input, and nobody
  need reload;
- in `linuxctl`, main, its reader and its timers run (the Go scheduler, the
  clock). The daemon, the network, the editor and the user owe nothing, so
  `ClientMovesOn` promises an end of a wait only where linuxctl itself has a timer,
  or where the answer or the end of the stream is already there.

## Proofs

| Module | Theorem | Property |
|---|---|---|
| `TransportProofs` (Sessions) | `TypeCorrect`, `OwnersOnly`, `RevocationComplete`, `RevocationPrecise`, `NoAnswerRepeated` | `TypeOK`, `AnswersReachOwner`, `RevokedStreamsClosed`, `OnlyRevokedClosed`, `NoStrayAnswer` |
| `TransportProofs` (Stdio) | `StdioTypeCorrect`, `StdioCloseIsSafe`, `StdioExitFlushesAll`, `StdioImplementsAnswering` | `StdioTypeOK`, `NoSendAfterClose`, `ExitFlushesAll`, `KeepsPromise` |
| `TransportProofs` (Client) | `ClientTypeCorrect`, `StatusTells` | `ClientTypeOK`, `ExitTells` |
| `UidPinProofs` | `UidPinTypeCorrect`, `PinIsUnique`, `FirstUseIsKept`, `RevocationHolds` | `TypeOK`, `AcceptedUidsAgree`, `PinsHold`, `DeadTokensStayDead` |
| `ToolCallsProofs` | `ToolCallsTypeCorrect`, `GrantsNotOlderThanUsers`, `RootNeedsGrant`, `SharingIsSound`, `RootOutputWasGranted`, `OneFlightPerKey` | `TypeOK`, `SnapshotNotOlder`, `RootOnlyByGrant`, `SharedResultsAgree`, `RootResultsWereGranted`, `OneWorkerPerKey` |
| `ResourceReadsProofs` | `ReadsTypeCorrect`, `RootContentIsGranted`, `ClearSeparates` | `TypeOK`, `RootContentNeedsGrant`, `ClearIsABarrier` |
| `ConfigFilesProofs` | `TypeCorrect`, `NoUserLost`, `QuietLoads`, `NoneInherits`, `UsersFileStays` | `TypeOK`, `UsersAreKept`, `QuietDirLoads`, `NoInheritedGrants`; the last is an action property |
| `CronEditProofs` | `CronTypeCorrect`, `RootIsSafe`, `WritesHaveRules`, `LossIsConfined`, `ListsAgree` | `TypeOK`, `RootCrontabUntouched`, `EditsByRule`, `LostOnlyInWindow`, `ListAgreesWithView` |
| `DockerProofs` | `DockerTypeCorrect`, `ActsAreGranted`, `OnlyWasteGoes`, `EndsAreReal`, `UsersAreShown` | `TypeOK`, `ActsOnWhatIsGranted`, `DestroysOnlyWaste`, `ExecEndIsReal`, `ListingShowsUsers` |
| `FilesProofs` | `NoFollowStaysInside`, `UpdateKeepsLines`, `ChmodKeepsSetgid` | `StaysInside`, `UpdateKeepsRest`, `SharedDirsKeepSetgid` |

The assumptions are the named `ASSUME`s of the component modules: `None` is no
user, call or the like, capacities are positive, bounds are naturals. Those of
`Files` say more: directories, regular files and links are different inodes;
nothing leads to an inode that is still to be made (`TreeAssumption`); and `Outside`
is what its name says (`ScenarioAssumption`): for grants other than `/` there
is a set of inodes, none of them in `Outside`, that the granted paths lead into and no
entry but a link leads out of.

Each proof goes through an inductive invariant `IInv`, a conjunction of named
parts, of which the property alone would not be inductive:

- **Sessions.** That an answer in a channel is the owner's needs to know that
  a running request's target was registered by its poster
  (`RequestsOwned`, `AnswersPlaced`); that a reload misses no stream needs to know
  that a registered stream either has the current token, or was registered late, or
  is in the set being closed (`TokensCurrent`), and that nothing else swaps
  between the swap and the close (`ReloadHeld`, from `reloadMu`). That no answer is
  repeated needs the budget of a request: what is in the channel, on the wire and
  still to be sent by its goroutine is together within what its kind is owed
  (`AnswersBudgeted`, on top of `IInv`).
- **UidPin.** Accepted uids agree because the pin in memory *is* the uid of the
  last acceptance in this epoch (`PinRemembers`), and because while a request
  holds the locks nobody else changes it (`Holder`). Across reloads and restarts a
  second invariant, `JInv`, proved on top of the first, orders the copies of
  `users.yaml`: the memory is a past file, a reload under way a later one, the file
  the latest (`Succession`, and for pins `PinsFollow`); what the two writers hold is
  the file with their own change, until they are overtaken (`Documents`); no copy
  that can still be swapped in has a dead token (`Buried`); and every copy of an
  entry that was used has the uid it was used with (`UsesPinned`). Tokens are never
  generated twice (`Tokens`), so an equal token means the same entry.
- **ToolCalls.** The settings lag behind the users only while `cfgMu` is held
  (`Switched`), so an authenticated call finds settings at least as new as
  its users (`Arrived`, `Snapped`); past the checks a call is permitted by its
  snapshot, which no reload changes (`Allowed`); a worker is what its call asked
  for (`Working`); and whoever waits, hits or is answered is, for the cache key,
  the same call as the one that worked (`Flying`, `Storing`, `Answered`). The key must
  hold the *rewritten* arguments: with them, equal keys imply equal symlink
  policy. For the single flight, no two flights have one key, and a `disks/usage`
  call with a worker is a flight (`SingleFlights`); a key never changes once its call
  has its snapshot (`KeysStay`), which is why no reload can make two keys equal.
- **ResourceReads.** An item was stored since the last Clear and a copy of it
  since its reader began (`Stored`), whoever evicts what; a strict URI past the first
  check is granted (`Checked`).
- **Stdio.** Every answer sent is in the channel, with the writer or written
  (`Accounted`), every handler that is done has sent all (`Served`), and the stages
  of the shutdown are in order (`Stages`). The same invariant shows that each step is
  a step of `Answering` or changes nothing it sees.
- **Files.** `StaysInside` needs to know where a call may be while it is still
  walking, and others change the directories under it. `Entries`: whatever was
  swapped, an entry is what it was at the start, or a link, or an inode a call made.
  The `..` of a listing is the directory it was reached through, and the one thing
  outside that a call without links may touch (`Above`).
  So for a call that follows no link (`OnTheWay`) the rest of its path, from the
  directory it has open, leads into what the grants cover or nowhere, in the tree of
  the start; what it holds, and every directory on the stack of a walk, is inside.
  `UpdateKeepsRest` needs a second invariant, `Texts`: from `files/update`'s read to its
  write the file is what was read, then empty, unless somebody raced (`Updating`); the
  rest is about lines and holds for every text: `Split` of `Join` gives the pieces
  back, and so `FileLines` of `UpdatedText` has the lines it should (`UpdatedKeeps`).
  `SharedDirsKeepSetgid` is `ModeKeeps`: no clause of a symbolic mode takes the bit
  from a directory without naming it, however many follow each other.
- **Client.** Status 0 must not come from somebody else's answer, or from a late one.
  main has one request open at most and only while it waits (`OneAtATime`); what is
  on its way to it was sent to a request the daemon has and has not answered before
  (`OnItsWay`), so the answer it takes is that of its last request; and only the
  commands that promise nothing leave by the timer, by the bridge or with a forgiving
  status (`Roles`). What is left is that an answer which fits was taken last
  (`AboutToTell`).
- **ConfigFiles.** In three layers. `DirInv`: which command comes to which stage
  (`Stages`), that a file without a document lists nobody (`Shapes`), that no list on
  disk or in memory has a root account (`Valid`), that no entry is newer than
  what was made (`Generations`), and, while writers - commands and the daemon's pins -
  do not overlap, that one is at work at a time (`Alone`) and what it has in memory fits
  the files, stage by stage (`Carried`). On it `Kept` (whoever is in neither file is in
  the list a `SaveDoc`, of either file, is about to write) and `Split` (users in both
  files only inside the migration, and a pin goes to `daemon.yaml` only before
  `users.yaml` exists). On these
  `GrantsFit`: the grants on disk, and those about to be written, are for the
  entries of the list in effect or about to be written (`Writing`), but for a delete
  under way (`Drops`), and what a reload has read so far is not newer than either
  (`NotNewer`, `ReadFits`) - which is what makes reading users before grants safe.
- **CronEdit.** The master's decision is carried to the worker's write
  (`Arrived`): it passed a write, or, for keys in another spelling, a view (`Passed`); from the comparison to the write the crontab is what the editor
  read, or its stamp is not older than the comparison (`Compared`), whoever else
  writes; a client that wrote or listed is done, so its request stays the one
  it was decided for (`Settled`).
- **Docker.** The tool is granted and the worker has what `PrepareDockerCall` made
  of the arguments (`Prepared`): the grant's lists, unless the caller sent one in another
  spelling; past Authorize the target is an ID the list covered when it was resolved
  (`Authorized`, `Covers`), and a call that acted never resolves again (`Settled`); between its two
  requests a listing holds objects of one kind, and the containers it began with
  are among those ever created, so a new container is none of them (`Listed`).

TLC checked each of these invariants on the instances of the runs before they were
proved. The type invariants of these modules are proved, so no run
lists them (that of `Files` is `Typed`, a part of its `IInv`).

Only model-checked:

- all liveness (`StreamsEnd`, `AcceptedIsAnswered`, `EveryCallEnds`, `Exits`,
  `ClientMovesOn`): fairness and ENABLED are out of the prover's reach;
- `Files!WalkReachesAll`: that a recursive walk calls its function exactly once on
  everything below its start holds only of a finite tree without cycles, at most as
  deep as the reference definition looks, and of a call that runs alone; its proof
  would have to carry the part of the tree still to come through every step;
- `OffersResolve` and `ArgumentsFit`, which say what Resolver computes on the daemon's
  catalogs: the first match of a table of some fifty tools, chosen and folded by
  operators that take operators (`FirstOf`, `After`), which the provers do not
  instantiate. The catalogs are finite and complete in the run, the words of a command
  line are the ones listed under Bounds.

Cleaning a path, splitting and joining lines and applying the clauses of a mode are
recursive functions over an initial segment of the naturals. What they compute is
proved by induction in the form of a set that contains 0 and is closed under
successor (`NatSetInduction`, `SeqSetInduction`), and that such a function exists and
is unique by `RecursionExists` and `RecursionUnique`, all from the well-foundedness of
the naturals.

## Where the code and its documentation disagree

The run `sessions_survive_reload` states what a document says and ends in a
violation; the finding in `PROJECT.json` quotes the lines. A stream's handler
closes `Event` while a request goroutine may still send on it. The send panics,
nothing recovers, and all sessions end. A reload that re-keys its own caller is
enough; the same happens when a client hangs up during a call.

Further formulas of this kind are in the modules, and in no run. With one of
them as the only INVARIANT of its module's cfg TLC shows the behaviour:

| Formula | What the code does |
|---|---|
| `Sessions!AtMostOneAnswer` | a resource read answered from the cache, or refused before it, is answered twice (`resources.go:258`, then `rpc.go:48`) |
| `UidPin!FirstUidOnly` | a reload that read `users.yaml` before a pin was saved swaps the older copy in, and another uid can be pinned (`reload.go:28`) |
| `UidPin!RevokedTokensDead` | a pin saved over `linuxctl`'s concurrent rotation or deletion writes the old token back (`uid_pin.go:135`) |
| `ToolCalls!RootResultsNeedGrant` | `allowed` is checked by the call that starts the worker only; one that joins its flight or hits its entry under a newer snapshot with `paths:` but no `allowed` still gets the output (`tools.go:927`) |
| `ConfigFiles!RecreatedNeverInherits` | a delete that died after `users.yaml`, and a reload inside the create that follows, pair the new entry with the old grants (`mcpd_admin.go:342`) |
| `ConfigFiles!GrantIsInert` | a grant made by `create --grant` for a tool that needs a list makes every later reload fail (`mcpd_admin.go:374`) |
| `ConfigFiles!OneCommandKeeps` | a pin saved by the daemon while a single `linuxctl` command runs writes back the list it loaded before: the user just created is lost, or, in the legacy layout, the migrated list is back in `daemon.yaml` and the load is refused (`uid_pin.go:135`) |
| `CronEdit!ArgumentsOutOfReach` | the master deletes and tests argument keys by exact name (`cron.go:45`, `cron.go:57`), the worker decodes them whatever their case (`manage.go:75`): a key in another spelling turns a view into a write, or replaces the target or the accounts to list. `cron.go:5` says a caller's values can never reach these arguments |
| `CronEdit!IfMatchProtects` | a change between the worker's compare and its write is overwritten (`edit_crontab.go:43`) |
| `Docker!ListsOutOfReach` | the same for the list of containers: only the exact `_containers` is deleted (`rpc/docker.go:190`), where the comment says a caller can never supply it (`rpc/docker.go:176`) |
| `Docker!ExitCodeIsReal` | the text answer of an exec cut at the output limit shows an exit code although the command still runs (`rpc/docker.go:85`) |
| `Client!EveryLineRuns` | a line of `explain` built from an action (`images docker` for `docker/prune`) runs the tool whose own verb that action is; `main.go:451` says every line is a runnable invocation |
| `Client!ArraysAreArrays` | a flag for an array field with a value that looks like a number or a boolean, or with none, stays a number or a boolean (`--command 7`); `resolver.go:578` says a bare token becomes a one-element array |

The passing properties name further gaps as exceptions, so that everything
beside them is covered: a stream authenticated before a reload and registered
after it stays open (`late` in `RevokedStreamsClosed`); a `disks/usage` result may be
stored after the reload cleared the cache (so `SharedResultsAgree` spans snapshots);
`network://routes` read as root is served to everyone from the cache
(`RootContentNeedsGrant`); `files/list` with `all` describes the parent of a granted
directory as `..` (`Above` in `StaysInside`; `list.go:109`); a client that stops reading
keeps its stream and its senders (`StoppedReading`; `http.go:204`); an eviction may drop a fresh item (harmless: a miss); a
call with the old token between rotation and reload puts its pin into the
rotated entry, and a user removed between token match and pin check passes that
one check (`PinMissing`).

Seen while modelling, and not stated as a formula:

- a reload that reads a truncated `users.yaml` takes it for an empty list, and
  overlapping migrations may leave an empty one (`overlap`, `torn` in ConfigFiles);
- `disks/free` is granted by paths like the file tools, but calls statfs on the path
  as given (`free.go:29`) and takes no notice of `_no_follow`;
- `http.go:145` says a changed keepalive interval applies to streams opened after a
  reload; the reload never stores it, so it takes a restart;
- with `all`, `files/list` under `_no_follow` shows `.` as a symlink, since it
  stats the `/proc` path of its descriptor (`list.go:108`); the owner `user:` of `files/chown` takes the
  first passwd entry with that uid for the login group (`chown.go:139`);
- `docker/containers` passes `limit` to the Engine, which applies it before the
  tool's own filters;
- `describe` of several parts exits 0 even if each part failed;
- `positionalWords` says it mirrors `splitFlagsAndPositional` (`completion.go:253`),
  but takes the word after `--flag=value` for its value and does not know `--`;
  completion offers `create` after `update files` and `prune` after `images docker`, which
  the resolver takes as data, since the verb is a tool's own (`OffersResolve`
  excepts these);
- comments in `resolver.go` and `completion.go` say tools/list holds only granted
  tools; `tools.go:655` lists all of them to every user;
- in the verb form flags replace fields that words have filled already
  (`main.go:278`), in `tool <name>` words fill what flags left (`ArgumentsFit`
  says so);
- the `stdio` bridge of `linuxctl` exits at the end of its input without waiting
  for answers still to come (`main.go:175`);
- `disks/usage` checks its start for symlinks and then walks by path, as its comment
  says (`usage.go:48`; `StaysInside` excepts it).

## Not modelled

Formatting, logging and wording; the text of keepalive comments (that one may block
is modelled); the access log; what a tool prints; `crontab://` resources and
`disks/free` (see above). The rate limit is one of the reasons to reject a message. Parsing of
`/proc` and `/sys` and the joining of host namespaces are plain I/O without state.
The sysctl and network-policy preparations in `HandleToolsCall` are decisions on one
call's arguments; a network tool dials exactly the address that was checked. TLS
files are written once, at the first start. The token bucket is a library's;
that a reload replaces all buckets is its only interaction. The read-only system
tools (disks, processes, network, kernel, logs) take up much of the repository
and parse `/proc` and `/sys` without any state; `PROJECT.json` lists them as
`not_modelled`. Of `files/find` and `files/list` the predicates, columns and sorting
are left out, of the Docker tools the columns.

## Plan

What is left, in this order:

1. An abstract specification of the config directory - an administrator's change
   happens entirely or not at all - and ConfigFiles without deaths as a
   refinement of it.
2. The composition of UidPin and ToolCalls, for the second account lookup in
   `SpawnWorker`.
3. The sysctl patterns of a grant as operators, beside the paths of Files.
