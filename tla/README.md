# A verification of gstack's programs

TLA+ modules, TLC configurations and TLAPS proofs for the stateful and
concurrent part of gstack. They are translated from the source under `src/`;
line references are to that tree (`cli.ts` is `src/browse/src/cli.ts`, and so
on). Where the code does something other than what its comments or documents
say, a run shows it and is expected to find the violation.

1. [The system](#1-the-system)
2. [Modules](#2-modules)
3. [Runs](#3-runs)
4. [Bounds](#4-bounds)
5. [Fairness](#5-fairness)
6. [Refinement and proofs](#6-refinement-and-proofs)
7. [Findings](#7-findings)
8. [Not modelled](#8-not-modelled)
9. [What is left](#9-what-is-left)

## 1. The system

gstack is a collection of skills (prompts in Markdown) and the programs they
call. The largest is **browse**: a daemon that keeps one Chromium alive for a
project, a CLI that starts the daemon, finds it by a state file and sends it
commands over HTTP, and a browser extension with a terminal in its side panel.
Local callers hold the root token; remote agents are paired and hold scoped
tokens, over the local listener or an ngrok tunnel. Around it are two smaller
daemons (design boards, iOS devices), a hash-chained ledger of what leaves the
machine, and the scripts that synchronise transcripts, artifacts and code with
a git remote and with gbrain.

### Browse

| component | state | operations | what is hard | correct when |
|---|---|---|---|---|
| **Token registry** `token-registry.ts` | `tokens` (a `Map` in order of insertion), rate buckets | mint, pair, exchange, validate, revoke, `grantReducesAccess` | any order of pair, exchange, retry, revoke, expiry; requests that captured a token before an await | no credential outlives what the operator granted; re-pairing strands no working agent |
| **Command dispatch** `server.ts` | locals of each request: token, pinned tab, saved tab | checks, pin, handler, restore | every `await` lets other requests in; early returns after the pin | a command works on its own tab and leaves the others' choice alone |
| **Tabs and contexts** `browser-manager.ts` | `pages`, `activeTabId`, `tabOwnership`, the context, the device scale | open, close, switch, close events; replacing the context under the tabs | events before or after the promise that caused them; roll back after failures | the active tab is open; owners are those of the tabs; the reported scale is real |
| **CLI start lock** `cli.ts` | the lockfile and the pid in it | create, write, read, probe, unlink, retry | each system call interleaves; crashes; recycled pids | one holder, nobody locked out for ever |
| **Daemon lifecycle** `cli.ts`, `server.ts` | the state file; pids; what each invocation captured | start, kill, retry, `stop`, shutdown | stale state, busy daemons, slow starts, upgrades | one daemon, findable; none killed that lives, unless asked |
| **End of a daemon** `server.ts`, `session-persist.ts` | timers, `parentGone`, connection mode, snapshots | idle timer, watchdog, signals, the one shutdown | a handoff, a tunnel and a parent's exit in any order; wedged pages | an abandoned daemon ends; a shutdown ends |
| **Tunnel** `server.ts` | four module variables | `/tunnel/start`, the probe of `/pair`, `closeTunnel` | handlers with awaits over the same variables | nothing is exposed that the daemon does not remember |
| **Terminal** `terminal-agent.ts`, `pty-session-*.ts`, `sidepanel-terminal.js` | leases, attach tokens, PTYs and timers; the panel's one `ws` variable | connect, Restart, re-attach, close, dispose | three parties, each with late answers; an agent that dies, a panel that goes away | no PTY without an owner or a timer; a live panel has its own socket |
| **Security sidecar** `security-sidecar-client.ts` | pending table, line buffer, failures, circuit | scan, answer, time out, respawn | handlers that do not know whose child an event is of | a scan gets its own verdict |
| **Domain skills** `domain-skills.ts` | rows appended to two files | save, use, promote, roll back, delete | versions and tombstones over a long sequence of commands | the listing shows what the last command left |

### Around it

| component | state | what is hard | correct when |
|---|---|---|---|
| **Egress ledger** `lib/egress-receipt.ts` | chained lines, a lock directory | a lock reclaimed by age, writers that die, torn lines | the chain verifies |
| **Artifacts sync** `bin/gstack-brain-*` | spool, git index, lock, skip list, mode | enqueue against drain; kills between add and commit; settings that change between two steps | no change is forgotten, none leaves unclassified or with a secret |
| **Memory ingest** `bin/gstack-memory-ingest.ts` | recorded state, staging directories, gbrain's checkpoint | imports that fail, time out, are orphaned and are resumed | what is recorded is in the brain; foreign directories are spared |
| **gbrain sync** `bin/gstack-gbrain-sync.ts` | lock and dream marker, sources in gbrain | locks taken over by age from live holders; a rename of a source that fails half way | one pass at a time; a source goes only when its successor has pages |
| **iOS QA daemon** `ios-qa/daemon/src`, `StateServer.swift` | cached tunnel, shared bootstrap, boot token | lost answers, apps that die, requests that fail late over a replaced tunnel | a mutation acts once; the app is not restarted without cause |
| **Design daemon** `design/src/daemon*.ts` | boards, idle timer, state file, lock | requests that wait for their turn, eviction at the cap, upgrades beside publishers | open boards survive; one daemon |

How they interact: an agent runs the CLI (a process per command); the CLI reads
the state file, takes the start lock if it must start a daemon, and posts the
command; the daemon looks up the token, pins a tab, runs the handler against
Playwright and restores the tab. Every handler runs on one event loop, so the
unit of atomicity inside a daemon is the code between two awaits; between
processes it is the system call. The scripts meet only in files: queue, lock,
index, checkpoint, ledger.

`PROJECT.json` lists every component, those left out included, and every
hazard at its line with the properties that would catch it.

## 2. Modules

```
Grants ---- TokenRegistry ---- MCTokenRegistry      TokenRegistry_proofs
TabDispatch ---- MCTabDispatch                      TabDispatch_proofs
ServerLock, DaemonLifecycle ---- MCStart            Start_proofs
Tunnel ---- ServerProcess                           (Tunnel: BrowseParts_proofs)
TerminalSessions ---- SidepanelTerminal             Terminal_proofs
MemoryIngest ---- GbrainSync                        GbrainSync_proofs
DomainSkills
EgressReceipt, BrainSync -----------------+         Outbound_proofs
SecuritySidecar, Tunnel, ContextRebuild --+ MCParts BrowseParts_proofs
IosDaemon, DesignBoards, DesignClient ----+         LocalDaemons_proofs

Mutex (abstract) <- ServerLock, GbrainSync (lock and dream marker), EgressReceipt
```

Three modules compose components that interact: **ServerProcess** extends
Tunnel (the idle timer and the watchdog decide by the tunnel's variables),
**SidepanelTerminal** extends TerminalSessions (the panel against the daemon's
routes and the agent), **GbrainSync** extends MemoryIngest (two invocations run
the ingest under the sync lock). **MCStart** and **MCParts** put parts that
share no state side by side: the variable `part`, chosen in the initial
state, says whose behaviour it is.

Operators with a suffix (`createToken_live`, `Open_shared`) are slips: plausible
wrong versions of the operator that follows or precedes them, used by nothing
else. Each property fails when one of them is put in its place.

**Grants** (`token-registry.ts:147-196, 415-460, 530-600`,
`browser-manager.ts:1114-1121`). Pure operators: what a grant permits, and the
decision `grantReducesAccess`. A host is a sequence of labels, a pattern is a
sequence with or without `*.`. `Covers` is the reference definition: everything
one grant permits, in commands, hosts, rates and tabs, another permits. Rate 0
is unlimited, no domains means all.

**TokenRegistry** (`token-registry.ts`, the routes `/pair`, `/token`,
`/connect`, `/agents`, `DELETE /token/:clientId`, `/command`, `/batch` of
`server.ts`). `tokens` is the `Map`; ids are in the order of minting, which
is the Map's order, so that loops that `break` or `return` at the first match are `First`.
Expiry is a flag set by the action `Expire`: the code compares dates at each
lookup and drops the entry only there, hence expired tokens remain visible to
every scan that does not check. A route up to its first await is one action;
`/command` and `/batch` are `Authenticate` followed by `RunCommand`, or by
`OpenTab` and `TabOpened` with the await of the browser between them. `tabs`
holds the ownership entries that scoped `newtab`s made. History variables
(`authorised`: the grants the operator stands by, and the like) appear in no guard.

**TabDispatch** (`server.ts:1063-1302`, `browser-manager.ts:954-1029, 1940-1957`,
`meta-commands.ts:275-302, 602-690`). A call of `handleCommandInternal` is a frame,
a request with its `chainDepth`, and holds the await it is at; a `chain` occupies
the outer frame while its commands go one after the other through the inner one,
without a pin of their own. `Refuse` is every return between the pin and the
restore; `Throw` every path through the catch block, which restores. `closeTab` has
three parts: up to `page.close()`, after it, and the replacement of the last tab;
the close event is an action that may come before or after the continuation, and a
page may also close by itself (`PageCloses`), which leaves its owner and may leave
it the active tab. `selected` and `pinLeft` are history: the tab that was active
when no pin was in force, and whether a pinned command has taken one of the returns
that skip the restore since.

**ServerLock** (`cli.ts:618-668, 749-784`). One action per system call. The
lockfile is its creator and whether the pid is in it. `Removed` unlinks by
name, whoever's file it is. `broken` is history.

**DaemonLifecycle** (`cli.ts:140-218, 309-386, 497-605, 670-784, 820-921,
1850-1873`, `server.ts:1441-1474, 1649-1710, 3169-3202`). Invocations and
daemons are processes; `cli[c].pc` names the step an invocation is at, `st` the
daemon of the state it captured. The lock is abstracted to a set of holders.
The `scenario` says who runs and which faults may occur: a lock that two have
(which `ServerLock` shows to be possible), an update of gstack (`old` are the
daemons it leaves with another binary), daemons that die, invocations that are
killed, slow starts, busy daemons.

**Tunnel** (`server.ts:397-470, 2494-2560`). Each handler runs from one await to
the next over the four module variables; listeners that accept and sessions
that are open are kept apart from what the daemon remembers of them.

**ServerProcess** (`server.ts` timers, signals and `shutdown`;
`session-persist.ts`). Idle tick, watchdog tick, SIGTERM, SIGINT, `stop`, crash
and Chromium's disconnect race to start the one shutdown; its steps have
deadlines; the interval and the shutdown each run a saver.

**ContextRebuild** (`browser-manager.ts`: `saveState`, `restoreState`,
`recreateContext`, the device scale with its roll back, `handoff`, `state
load`). The tabs are saved, the context is closed, opened and filled again one
await at a time, while agents open tabs and are revoked, and while another
command does the same: `op[r]` is the rebuild of command `r`, with
what it saved and what of it is `left` to be opened again. The headed context of
a handoff has the screen's scale. `crossed` is history: two `recreateContext` ran at a
time, and none alone since.

**TerminalSessions** (`terminal-agent.ts`, `pty-session-lease.ts`, the `/pty-*`
routes). A request is a slot that awaits the agent; the agent's grants, sockets,
PTYs, detach timers, its death and its return are actions. `disposeSession`
interrupts the PTY and forgets its handle, so that no SIGKILL follows: such
processes are counted as `dying`, and end when they choose to. **SidepanelTerminal**
(`sidepanel-terminal.js`) adds the panel: the poll, Restart, the re-attach
loop, the listeners that share one `ws`, and pagehide with its beacon. A behaviour
may meet one of the sets of mishaps: the agent dies or a lease expires; a close
is handled after what was sent later (`"overtaking"`); an operation of the panel
begins while another is under way (`"crossing"`). `superseded`, `crossings` and
`strayed` are history.

**SecuritySidecar** (`security-sidecar-client.ts`). One action per turn of the
event loop. Children are told apart in the model; the handlers of the code do
not tell them apart, and the actions do what those handlers do.

**DomainSkills** (`domain-skills.ts`, `domain-skill-commands.ts`). A command
reads the rows, awaits and appends; `resolveLatest` is the row that no other wins over,
if it is not a tombstone.

**EgressReceipt** (`lib/egress-receipt.ts`). `withLedgerLock` and
`appendChained`, one system call per action. The hash of a line is its number,
which is what a hash without collisions can tell.

**BrainSync** (`bin/gstack-brain-enqueue`, `bin/gstack-brain-sync`). A run is a
process that takes the lock directory, takes a snapshot of the spool,
classifies, adds, scans, asks for a receipt, commits and deletes what it
consumed; the user edits files, mode, skip list and queue at any step. The scan
may fail, and then finds nothing (`|| true`). `blind` and `unscanned` are history:
the last scan failed, and the paths last committed after such a scan.

**MemoryIngest** (`bin/gstack-memory-ingest.ts`). A source is the version of
its content. `gbrain import` is external: it lands pages one by one, fails on
one, exits without its JSON, collects nothing, is killed by the timeout or
survives its parent. A pass is incremental, in bulk, or records what it prepared
without an import (`--no-write`). Sources change and the policy comes to deny them
at any step; `loose`, `lateDenied` and `mingled` are history, and say which sources,
or passes, that met. **GbrainSync** (`bin/gstack-gbrain-sync.ts`) runs such
passes under the sync lock, after the stage that imports the code and may
replace a source of the old naming, and a dream cycle under a marker.

**IosDaemon** (`ios-qa/daemon/src/index.ts`, `tunnel-bootstrap.ts`, `proxy.ts`,
`StateServer.swift.template`). A bearer is named by the instance of the app
that issued it; a boot token is good for one rotation. Requests share one
bootstrap; what goes wrong outside (an app that dies, an answer that is lost, a
tool that fails, a daemon that restarts) is counted in `mishaps`.

**DesignBoards** (`design/src/daemon.ts`). Boards, the requests that take turns
on them, eviction, the idle timer with its extensions; the unit of time is
one extension. **DesignClient** (`daemon-client.ts`, `daemon-state.ts`): the
commands that attach to, replace and start design daemons, under a lockfile that
is created, named, read and unlinked one system call at a time; of boards it keeps
whether one is open.

**Mutex** is abstract: a set of holders that grows only when empty, until the
lock is removed under a live holder.

## 3. Runs

Expected to pass:

| run | asks |
|---|---|
| `registry` | whether a client can have two sessions, whether any credential exceeds what the operator stands by, and whether a re-pair takes a session that the new grant contains; in any order of pairings, mints, exchanges, retries, revokes, listings, expiries and the awaits of a request |
| `tabs` | in scenario `Agents`, whether two own-only clients and the root, interleaved at every await, get each other's tab under a command; in `Closers`, the same for one client and the root while they close tabs and pages close by themselves; in `Chains`, while their chains overlap; in `Sole`, whether one command at a time, of every kind, refused ones and chains included, leaves the caller's tab active and an open tab active, with close events in both orders |
| `start` | with three processes at the lock, whether it implements `Mutex`, leaves no file behind and ends every acquisition; with invocations and daemons in five scenarios (`Calm`, `Broken`, `Unruly`, `Updated`, `Sole`), whether a race leaves one daemon, whether anything but `--force-restart` or an update signals a live pid, whether a daemon that is up can be found, and whether every invocation ends |
| `server_process` | whether a shutdown ends whatever hangs, and whether an exposed orphan, handed off or not, and an unused daemon end |
| `terminal` | whether every running PTY has a socket or a timer, whether a used attach token opens nothing, whether a live panel has the socket of its session and only that one, and whether a closed panel leaves no PTY that was not interrupted; beside one kind of mishap at a time |
| `gbrain_sync` | whether lock and marker implement `Mutex`, whether passes share a staging directory while the lock is whole, and whether the old source of a renamed repository goes before the new one has pages |
| `ingest` | in incremental, bulk and `--no-write` passes, with sources and policy that change at any step: whether what is recorded is in the brain, whether a directory no pass made is spared, whether a page lands that was denied when it was staged, and whether every source is ingested or denied in the end |
| `parts` | eight components that share no state: the ledger verifies; no change of an artifact is forgotten, none leaves unclassified or with a secret; a scan's outcome is its own; nothing is exposed that the daemon forgot; restored tabs and the scale are right; a mutation reaches the app once, apps are restarted at most once per mishap, reads recover; an open board is neither evicted nor left to the idle timer, which in turn ends within its ceiling; commands of one version leave one design daemon |

Expected violations (section 7): `inherited_tab`, `design_upgrade`,
`ingest_stamp`, `skill_saved`.

Several properties hold only but for exceptions that the code makes. The model has
them all; the property names the exception, as a condition on the state, on a
history variable or on who runs. Each was found by TLC when it was not there:

| property | exception | because |
|---|---|---|
| `PinsAreUndone` | `pinLeft`: a pinned command was refused, was a scoped `newtab` or was stopped by the content filter | the early returns of `server.ts:1085-1093, 1097-1116, 1120-1125, 1208-1223, 1237-1239` skip the restore |
| `ActiveIsOpen`, `PinsAreUndone` | a second request beside a close or a pin; for the first, pages that close by themselves | a switch to a tab whose close is awaited makes it active after it is gone; pins interleave (`server.ts:1064-1070`); two closes in flight each see the other's tab (`browser-manager.ts:986-1018`); the close event of the active page may leave none active (1942-1957) |
| `OwnOnlyWorksOnItsTabs` | a client that names a tab of its own which has closed | a pin on a closed, still owned tab passes the check, the failed switch is swallowed, and the command runs on the active tab, whosever it is (`server.ts:1070`, `browser-manager.ts:1095-1098, 1942-1957`) |
| `OneDaemon` | every fault, a forcing invocation, a `stop` among several | the restart in `sendCommand` takes no lock (`cli.ts:908`); an interrupted starter leaves a daemon the next one cannot see; the lock breaks |
| `Reachable` | a second invocation | a daemon that shuts down, or a `stop` that read a stale file (`cli.ts:1856`), removes the new daemon's state file |
| `KillOnlyByForce` | a daemon that an update has left with another binary | it is killed though it is healthy (`cli.ts:706-712`), where `cli.ts:372-375` calls `--force-restart` the only path |
| `LiveHasItsSocket` | `crossings`: an operation of the panel began while another was under way; `strayed`: a late close has cleared the `ws` of a newer socket | nothing cancels the earlier one; each close listener clears the shared `ws` (`sidepanel-terminal.js:352, 637, 843`) |
| `SpentTokens` | `superseded`: another socket took the session over before the close was handled | the agent's close handler drops the cookie the session has by then, not that of the socket it closes (`terminal-agent.ts:808-855`) |
| `ClosedPanelInterruptsItsPtys`, `NoOrphanPty` | PTYs that were interrupted and go on | `disposeSession` nulls `session.proc`, without which its SIGKILL after three seconds is not sent (`terminal-agent.ts:361-374`) |
| `ChainVerifies` | `stolen`, `torn` | a reclaimer removes a living writer's lock; a line cut off is never mended |
| `OutcomeIsItsOwn` | `erred`, for rejections | an "error" followed by a late "exit" ends the replacing child and rejects its scans |
| `SecretsStayHome` | `unscanned`: the scan before that commit failed | `scan_out=$(git diff --cached \| secret_scan_stdin \|\| true)`: the output of a scan that failed is empty, as a clean one's is (`gstack-brain-sync:685`) |
| BrainSync's three | `together`, `gitFailed`, `leftover` | two runs at once after an interrupt; a failing `git commit` is taken for "nothing to commit" and its records go; a run that ends between add and commit leaves the index staged |
| `NothingExposedUnremembered` | `overlapped` | two `/tunnel/start`, or a start beside a failing probe, close or forget each other's tunnel (`server.ts:2494, 2544`) |
| `RecordedIsIngested` | `loose`: sources edited since they were staged, counted by a page of another source, or recorded by `--no-write`; `mingled`: passes side by side | run `ingest_stamp`; a pass that resumes a directory prepares other sources than those it holds, in bulk or when one was denied since, and counts pages for its own (`gstack-memory-ingest.ts:2333-2336`); `--no-write` records what nothing took (1944-1978); the sync lock keeps passes apart (`gbrain_sync`) |
| `PolicyHonoured` | `lateDenied`: sources denied after their page was staged | the import under way goes on, and a pass that resumes an interrupted one takes its directory without the filter (`gstack-memory-ingest.ts:2064-2082`) |
| `ReportedScaleIsReal` | headed mode; `crossed` | a handoff opens its context with the screen's scale and leaves `deviceScaleFactor` (`browser-manager.ts:1821-1836`); nothing keeps a second rebuild out of the awaits of the first (1617-1734) |
| `OneDesignDaemon` | two versions, late starts, kills, `"stolen"`: a live starter's lock was unlinked | a health check of two seconds ends a busy daemon; a starter that is killed or late leaves a second; a lock without its pid yet is taken for stale, and one read as stale may be another's when it is unlinked (`daemon-state.ts:198-215`) |
| `ReadsRecover` | reads that joined an older bootstrap or met a mishap after they began | such a read can fail |

Deadlock is checked in `ingest` (an idle pass can always begin again) and not in
the others: a registry whose bound of tokens is used up, a lock whose processes
have died, invocations that are done and a daemon that has ended really stop.

The type invariant of each module was checked with these runs' configurations.
It is not among their properties: it is a theorem (section 6), or a conjunct of
the inductive invariant of the module's other theorems.

## 4. Bounds

- `registry`: `MaxTokens` 3: a pairing, its exchange and a second pairing or mint,
  so that two generations of one client coexist; one tab and one request in flight,
  since tabs are released independently of each other. Grants: a glob, a host under
  it, a skill grant without rate limit and with `shared` tabs.
- `tabs`: 3 tab ids: a pinned tab, an active tab and a third. Two requests, and
  chains of any length. Four scenarios keep the product of callers and kinds small;
  every kind meets every other in `Sole`, and page commands and new tabs meet tab
  switches, closes and chains in the other three.
- `start`: three processes at the lock, `DepthCap` 2 (5 in the code; a smaller cap
  only turns processes away earlier, and the theorems hold for every cap).
  `MaxDaemon` 5 is exact for two starting invocations: each spawns at most two
  daemons, and one may be there at the beginning. `Calm` has three plain commands;
  `Broken` two plain invocations under a lock that two may have; `Unruly` a command,
  a stop and a forcing stop; `Updated` two plain invocations, an update and busy
  daemons; `Sole` one invocation, forcing or not, with every fault but the lock.
- `server_process`: one handler and two tunnels, since overlapping handlers are the
  subject of `parts`.
- `terminal`: two requests in flight, two sessions, two attach tokens, one lease
  beyond which the oldest goes, one death of the agent, one crossing: enough for a
  Restart whose old socket, old answer and old timer all arrive late. The mishaps
  come one kind at a time (`Mishaps`). A late close that clears a newer socket's
  `ws` without a crossing (`strayed`) needs three attach tokens, which was checked
  with narrower other bounds; the theorem holds for any.
- `gbrain_sync`: two invocations, one source, one kill or change of autopilot.
  `ingest`: one process in all three modes, two sources, three edits or changes of
  policy, three directories (a pass's, a dead pass's and one more), two faults; one
  process, because the sync lock keeps passes apart (`gbrain_sync` has two).
- `parts`: 3 ledger writers and lines; 2 drains, 2 paths, 2 records, one change of
  the user and one fault; 3 scans over 3 children with a breaker at 3; 2 tunnel
  handlers and 2 tunnels; 2 rebuilds, at once or in turn, and 4 tab ids; a read and
  a mutation with 3 mishaps; 2 requests on boards, 3 directories, a cap of 2 boards
  and 4 published, an idle time of 2 units and 2 extensions; 2 commands of 2
  versions and 3 daemons. Larger instances of the parts (three board requests, 535
  546 states; three design commands, 10 169 924) show nothing else.

An action at a bound is disabled. No property speaks of what the bound keeps
from happening: what must end, ends without the bounded actions.

## 5. Fairness

- `start`: weak fairness of each process's next system call in the acquisition
  and of each invocation's next step: the operating system schedules a live
  process, and nothing in them blocks. Strong fairness of an invocation's
  deadlines (`while (Date.now() - start < ...)` of `cli.ts:570` and `754`: time
  passes even while the loop goes through its probes). Weak fairness of
  a daemon's start and shutdown, which run to their end. None for crashes,
  upgrades, answers, releases.
- `server_process`: weak fairness of the two interval timers' ticks and of the
  shutdown's next step; every await of the shutdown has a deadline of its own,
  which is the step that is taken when the browser hangs.
- `terminal`: weak fairness of the agent's own event loop, that is of its close
  handlers and detach timers taken together: each is a callback the loop gets to.
  None of the panel, the user, the network, or the processes it interrupts.
- `ingest`: weak fairness of the pass's own steps, of the pages and the end of
  `gbrain import`, and of the next pass: the skills start one again and again.
  None for what goes wrong; edits and faults are bounded, so that in the end a
  source stands still and nothing more goes wrong (`EveryoneIngested`).

The other runs state safety only.

## 6. Refinement and proofs

**Refinement.** `Mutex` is implemented by `ServerLock` (`ImplementsMutex`), by
the lock and by the dream marker of `GbrainSync` (`LocksAreMutexes`) and by the
lock directory of `EgressReceipt`: four lock protocols over plain files, each
of which promises exclusion only until one is removed from under a live holder.
The mapping takes those who believe they are inside as holders.
The first two are properties of runs; all are theorems.

**Proofs.** Every safety property of a passing run is a theorem: it holds for
every value of the constants, the runs show it on a small instance. All proofs
are checked by TLAPS to the last leaf. They assume what the modules assume of
their constants (`ASSUME`; TLC evaluates these on the runs) and nothing else, with
one exception: `OneDaemonRuns` is about scenarios without fault, force and `stop`,
since a stop's late removal of the state file hides the daemon of a second
invocation from a third. It is a condition on who runs, and `Calm` satisfies it.
What the code does otherwise (section 3's table) is in the formula that is
proved, as a history variable where it is seen only as it happens (`pinLeft`,
`stolen`, `together`, `overlapped`, `crossed`, `superseded`, ...), and the invariant
is under the same condition.

**TokenRegistry_proofs** (Grants, TokenRegistry). `NoReductionCovers`: for all
grants, if `grantReducesAccess(prior, next)` is false then
`Covers(next, prior)`. One lemma for each of the four comparisons; the one on
domains rests on transitivity of "is a suffix of" over sequences of labels.
`TypeCorrect`, `AtMostOneSession`, `CredentialsStayAuthorised` are one inductive
invariant: types give that ids in the Map are below `nextToken`, so that a minted
id is new; one session per client gives that `createToken`, which deletes the
first session it meets, deletes all; and that gives that a session that was
wider than a new pairing is the one `getClientSession` returned and compared.
The step of `PairRefresh`, where a session stays, is where `NoReductionCovers` is
needed: what was within an old grant is within the new one. `NobodyStranded`, an
action property, rests on the same invariant: the session `PairSupersede`
compared is the only one there is to drop.

**TabDispatch_proofs.** `TabTypeCorrect` with the nesting of frames (`FrameInv`:
an inner frame is busy only while its request's outer frame is at a `chain`).
`OwnOnly` (`KeepsToItsTabs`): the pin of an own-only client was checked to be its tab,
and the switch to it either succeeded, and then the command captured that tab's
session, or the tab had closed; a tab's owner changes only once it has closed, and
no id is handed out twice. `ActiveStaysOpen`: `OpenTab` says of a close that is
under way which tab is active before and after its event, in either order of the
event and the continuation. `PinsUndone`: `PinKept`, a pinned command has saved
the tab that was chosen, until a return that skips the restore.

**Start_proofs** (ServerLock, DaemonLifecycle). For the lock `NoLockLeftBehind`,
`ExclusiveUnlessBroken`, `LockImplementsMutex`. The inductive invariant adds
`HolderOwnsFile`: unless a live process's file was removed, whoever holds the lock
is the creator of the file that exists. It is needed because exclusion alone says
nothing of a third process that unlinks. For the daemons, what an invocation has
captured is tied to the step it is at: `FoundDead`, an invocation that neither
forces nor has captured a daemon of another binary signals a pid only after that has
answered that it is gone (`KilledOnlyByForce`); `Knows`, where one invocation runs,
none starts unless it waits for it, and none lives when it starts one or removes the
state file (`UpIsFound`); `Follows`, in the race, what is done under the lock is
done by a holder, which starts a daemon only when none runs, and what is sent goes
to a daemon that answers (`OneDaemonRuns`).

**BrowseParts_proofs** (SecuritySidecar, Tunnel, ContextRebuild).
`OutcomesAreTheirOwn`: a verdict is matched by number alone, so the invariant says that
numbers identify scans, across respawns, and that what a child has read bears
the number of its scan. For rejections it says that without "error" events the
current child is the only one alive and the one every waiting scan was sent to.
`ExposureIsRemembered`: the four variables are set together
(`RememberedTogether`); what is bound or open beyond them belongs to the one start
that is between two of its awaits (`Accounted`, `Underway`), and unless requests
overlapped there is at most one. `RebuiltTabsKeepTheirOwner`: what was saved of a tab is owned by
nobody or by who opened it, whoever is revoked meanwhile and whichever rebuilds
overlap. `ScaleIsNotMisreported`: `ScaleKept`, unless two crossed, one
`recreateContext` at most is under way, nobody else opens a context while it makes
one, and a context of another scale than the one reported is still to be replaced by it.

**LocalDaemons_proofs** (DesignBoards, DesignClient, IosDaemon).
`OnlyDoneIsEvicted` counts: the cap refuses a board when as many are open as it
allows, so one beyond the cap leaves a done one to go. `IdleIsBounded` adds that
idle time and extensions together account for the time since the last work.
`ClientTypeCorrect` and `OneDesignDaemonRuns`: what is done under the lock is
done by its holder, as long as no live holder's lockfile was unlinked
(`Untroubled`), the holder starts a daemon only when none runs, and none is of
another version. `MutationsOnce`: a request that is not read-only is
dispatched at most once, because its second attempt is made only after the app
refused its bearer, which is before it acts. `RelaunchesPaid`: `relaunches <=
mishaps` says nothing of the state in which the next relaunch is decided, so the
invariant is an account (`Debt`): while a live app has been rotated and neither
the tunnel nor the bootstrap knows its bearer, or while a bootstrap is about to
terminate a live app, a mishap is kept for it. What could make the daemon forget
a good bearer is an answer lost on the way to the live instance, and such a
request keeps a mishap too (`AllBacked`). `ReadsAreAnswered`: after the last
mishap a bootstrap that it did not meet gets on (`GettingOn`); the bearer it
brings was used by nobody before (`Unused`), so that once it is cached nobody has
a reason to drop it (`Settled`); hence a read fails over a stale tunnel at most
once, and its second attempt goes over one that works (`Recovering`).

**Outbound_proofs** (EgressReceipt, BrainSync). `LedgerVerifies` and
`LedgerLockImplementsMutex`: a writer that has read the last line holds what is
still the last line's hash, because nobody else can append while the lock is
its own. `BrainTypeCorrect`; `NoSecretIsCommitted`: from the scan to
the commit what is staged is free of secrets, also what an earlier run left in
the index, unless the scan failed; `CommitsWhatItClassified`: what is staged is what the one run
between its add and its commit has classified; `EnqueuedIsKept`: a path that is
behind is queued, and one that fell behind after the run staged it is queued by a
record that is not in the run's snapshot (`QueuedAfresh`).

**GbrainSync_proofs** (MemoryIngest, GbrainSync). `SyncLocksAreMutexes`, for lock
and marker at once: the four calls are the same, and the steps of the ingest
passes inside leave both files alone. `StagingIsOwn` adds that a pass that is
going on belongs to an invocation in its memory stage, which holds the lock,
or to a dead one. `NeverLeftWithoutPages` needs no lock: whatever overlaps, the
step that deletes looks at the pages that are there. `ForeignDirectorySpared`: no
pass ever adopts a directory that none made, so no cleanup can name it.
`DeniedStaysOut`: a directory in use (a pass's, or the one the checkpoint names)
holds only pages that the policy allows or has come to deny since (`UsedIsAllowed`),
and an import has only pages of its directory to go. `OnlyIngestedIsRecorded`
(`Orderly`, unless passes have mingled): of the directories in use the pass's own is
the only one (`OneUsed`), none of their pages is older than what is recorded
(`UsedIsCurrent`), and an import has reported no more than what landed (`Counted`).

**Terminal_proofs** (TerminalSessions, SidepanelTerminal). `TerminalTypeCorrect`,
with the bound on leases: `mintLease` drops the oldest, of which there is one
because the natural numbers are well-founded. `NoOrphan`, whatever crosses and
arrives late: every step that takes a socket from a PTY arms a timer or ends it, and
every step that clears a timer attaches a socket. `SpentTokensStaySpent`: a PTY's
cookie is the token its socket came with until another takes it over (`CookieKept`),
which is why the close handler otherwise drops the right one.
`LivePanelHasItsSocket`, until operations have crossed or a close has strayed: at
most one operation is under way (`OneAtATime`), and a live panel's `ws` is the open
socket of its session, any other panel's is none, and no other socket is open
(`PanelKept`).

The library's theorem of well-founded induction takes an operator; `WFMin` with
`NatLessThanWellFounded` does not, and gives least and greatest elements where
a `CHOOSE` or a `Max` of the models needs one.

**Only model-checked.** Everything under fairness (the properties of
`server_process`, which are all of ServerProcess; `AnAcquisitionEnds`,
`EveryInvocationEnds`, `ClosedPanelInterruptsItsPtys`, `EveryoneIngested`), which is beyond this
prover, as are ENABLED and induction over data; and what the runs of section 7
show of the code's exceptions, DomainSkills among them. No module declares a
RECURSIVE operator.

## 7. Findings

| run | the code | what it is said to do |
|---|---|---|
| `inherited_tab` | a `newtab` awaiting the browser during a revoke registers its tab under the name afterwards (`server.ts:1098`, `browser-manager.ts:965-974`) | "reusing a client name can't hand the next agent someone else's logged-in page" (CHANGELOG.md:678) |
| `design_upgrade` | a board published between the health answer and the stop is lost: `/shutdown` refuses, SIGTERM is sent all the same (`daemon-client.ts:118`) | "in-memory boards would be lost, so we exit 1 with a user-actionable message instead of silent loss" (`daemon-client.ts:20-22`) |
| `ingest_stamp` | a transcript that grows during its import is recorded with the hash of the grown file (`gstack-memory-ingest.ts:2357`) | "Only files that landed in gbrain get their mtime+sha256 stamped" (`gstack-memory-ingest.ts:2348-2349`) |
| `skill_saved` | after `rm`, every save of that host is version 1 again, under the tombstone's version, and never listed or read (`domain-skills.ts:199-205, 267`) | "Saved ... Run $B domain-skill list to see state" (`domain-skill-commands.ts:75-82`) |

Further disagreements met while modelling; those of section 3's table whose
exception contradicts a comment are among them.

*Browse, tokens and tabs.* A pin is left in force by the early returns
(`server.ts:1085-1093, 1111-1116, 1210-1223, 1237-1239`, against 1063-1065 "prevents
parallel agents from interfering with each other's tab context"). An own-only client
that pins a tab of its own which has closed works on the active tab of another
(`server.ts:1070`, against `browser-manager.ts:1094-1095`). `closetab` checks the
ownership of the pin and closes its argument (`meta-commands.ts:298-301`, against
CHANGELOG.md:6640). A spent setup key authenticates as a bearer token with its old
grant (`token-registry.ts:398-407`, against 509-510). A token captured before the
body is read runs its command after a revoke (`server.ts:2850-2858`, against
docs/REMOTE_BROWSER_ACCESS.md:182). Two generated client ids of one millisecond are
one client (316). The commands of a pinned chain carry no pin
(`meta-commands.ts:659-662`): after another request's pin and restore, the rest of
the root's chain works on another tab. A command of `/batch` passes `skipRateCheck`,
and `recordCommand` is skipped with the check (`server.ts:1060, 2745-2749`), so a
session used only through it is handed out again to a retry (against
`token-registry.ts:334-335`). `checkRateLimit` is a fixed window: two bursts on
either side of its boundary pass twice the limit (184). A revoke during a restore of
the context is undone by it (`browser-manager.ts:1552-1556`). A handoff that fails
after the headed browser is up answers that the headless one is still running, while
the mode stays headed and the context is closed (1896-1903).

*Browse, processes.* An update of gstack has a healthy daemon killed by the next
plain command (`cli.ts:706-712`, against 372-375 "The ONLY path that kills a live
daemon is the user explicitly passing --force-restart"). A lockfile without its pid
yet is taken for stale and removed (`cli.ts:634-656`, against 618 "exclusive"); one
whose pid was recycled reads as contention (651-653). One failed probe under the
lock ends a busy daemon's Chromium (`cli.ts:766, 507-510`, against
BROWSER.md:448-449 "it never kills an alive pid"). The idle timer looks at
`lastActivity`, not at commands in flight (`server.ts:724`). The shutdown's deadline
leaves the interval's snapshot writer running on the same temporary file
(`session-persist.ts:138-148`). A start of the tunnel that fails after it is set
leaves `tunnelActive` TRUE (`server.ts:478-485`). Log buffers lose what a ring
cannot hold between two flushes, and one append that fails stops the flush of the
others (666).

*Browse, terminal.* "SIGINT, then SIGKILL after 3s": the timer finds the handle
nulled, or that of a PTY spawned since, so that a process which ignores SIGINT
stays (`terminal-agent.ts:361-374`). A token whose session was taken over before
its close was handled stays valid (`terminal-agent.ts:809-815`, against the single
use of `pty-session-lease.ts:11-14`). The poll is not scheduled again after a failed connect
(`sidepanel-terminal.js:536-550`, against 950-966); Restart does not abort the
re-attach loop it says it aborts (210-212); the respawn history is never cleared
(`server.ts:1543-1610`); a grant that times out leaves its token with the agent; the
lease refresh route has no caller.

*Browse, sidecar and skills.* "Respawn capped at 3 failures within 10 minutes"
(`security-sidecar-client.ts:12-13`): an "exit" records no failure (149-151);
half a line stays in the buffer over a respawn. `rm` says "Use $B domain-skill
rollback to restore" (`domain-skill-commands.ts:254`, and docs/domain-skills.md:37):
with one version rollback refuses, with two it restores the one before the deleted.
`promoteToGlobal` always writes version 1, so after a global `rm` or rollback it is
not seen. The diagram's "classifier flag during use" from active to quarantined
(`domain-skills.ts:18-19`) is no transition of `recordSkillUse`, which has no caller.

*Egress.* "rmdir/stat races ... harmless — losers just loop"
(`egress-receipt.ts:145-149`): they throw (161-166), and a reclaimer may
remove a fresh lock (163).

*Artifacts sync.* A scan for secrets that fails is taken for a clean one
(gstack-brain-sync:685). INT or TERM removes the lock and the temporary files, and the
script goes on without them; a kill between `mkdir` and the pid wedges the sync
for ever; a refused receipt or a kill leaves the index staged, and a later run
commits a path that has been skipped since (against the comment at
gstack-brain-sync:285); the count of the divergence and the push are two steps
(607, "never publishes work it didn't create").

*Memory.* A resumed import lands pages that were denied, edited or deleted
since (`gstack-memory-ingest.ts:2064-2082`), and its pages are counted for the sources the pass
prepared (2333-2336); a signal before the forwarder is installed leaks the staging directory;
one page that cannot be written blocks the batch. The sync lock is stale after five
minutes while its stages may run for 35; a snapshot of the state is saved over a newer one.

*iOS.* One lost answer to a rotation makes the daemon terminate a live app
whose bearer it held. `proxyToDevice` sets a timeout and handles no "timeout"
event. `/session/release` releases anyone's session. The claim of the single
instance unlinks a stale file by name, and its own unconditionally at exit
(`single-instance.ts:51-58, 110`).

*Design.* A reload or a regeneration of a done board gives two open boards for
one directory (`daemon.test.ts:124` expects 409 for the second); the 50 ms after
`/shutdown` does not look at the boards again; entries of `boardMutex` are never deleted
(`daemon.ts:134`); a reload of an evicted board answers `reloaded: true`. Under
the start lock a healthy daemon of another version is neither refused nor stopped,
and a second is started over its state file; a waiter attaches to any version. A
lockfile without its pid yet is unlinked as stale, and a file is unlinked by name
although another command may have made it anew since it was read
(`daemon-state.ts:198-215`).

## 8. Not modelled

In modelled components:

- *Registry and dispatch*: the rate limiters (time windows); `serializeRegistry`,
  `restoreRegistry`, `rotateRoot` (nothing under `browse/src` calls them); the guard
  of the watch mode, `shared` clients in TabDispatch (they pass the check
  unconditionally); SSE and inspector routes. `syncActiveTabByUrl` has no caller.
- *Browser manager*: launch and its failures, `resume`, memory eviction, frames and
  refs.
- *CLI*: the configuration mismatch guard, the headed guard, `BROWSE_NO_AUTOSTART`,
  the retry after a 401, `connect`, `disconnect`, `supervise`. Reuse of ports is
  left out, reuse of pids is in ServerLock only.
- *Tunnel*: the denial log and the surface filter. *Terminal*: an interrupted PTY
  once nothing refers to its object any more; the bytes of the ring buffer, the SSE
  cookies, the respawn guard, the record of the agent's identity. *Sessions*: the
  snapshot's format.
- *Brain sync*: the migration of the legacy queue, the push and its retry, the
  discovery of new files, the context cache. *Ingest*: renderers, probing.
- *iOS*: the tailnet listener with its session tokens and allowlist, the audit, the
  claim of the single instance; the device's session lock and its snapshot routes.
  *Design*: `serve.ts`, `$D daemon stop`, the pages.

Whole components, each with its reason in `PROJECT.json`: what a command does
to a page is Playwright's; classifiers, redaction, path checks, templates and
rendering are functions on text or numbers without state; the image and
rendering commands and the server functions call services and keep nothing;
migrations run once; skills are prompts.

## 9. What is left

1. Stateful and not modelled yet: the ring buffers with their flush counters
   and the activity subscribers; the respawn guard; the port and display
   claims; the CDP bridge's lock and timeout; the staged write of browser
   skills; append and rename of the shared stores; the choice of the next
   version among branches; the settings writer; `connect` and `disconnect`.
2. Abstract specifications: an *authority* specification (who may do what, as
   the operator said last) refined by TokenRegistry; a *single daemon*
   specification refined by DaemonLifecycle without faults.
3. Proofs: that the tunnel's variables stay as `ExposureIsRemembered` says inside
   ServerProcess, which extends Tunnel; the safety part of what its shutdown
   promises; the refinements of item 2.
