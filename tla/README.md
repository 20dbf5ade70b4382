# A formal model of tabbify-broker

The broker is a small daemon inside a workspace microVM. It runs under its own
uid and keeps the credentials the agent must not see: per-repository git
cap-URLs, the bearer cap of the add-key control, and the forge token. The agent
asks it to *use* them (fetch, push, open a pull request); a host-side runner
asks it to *drop* them before the machine is frozen into a snapshot.

This directory holds TLA+ modules for the parts of the broker whose behaviour
depends on order, failure or overlap, the TLC configurations that check them,
and theorems about them with proofs for TLAPS. Paths below are relative to the
repository root (`src/creds.rs`, ...); `PROJECT.json` maps every definition to
its lines and prefixes them with the checkout directory.

Contents: [the system](#1-the-system) · [modules](#2-modules) ·
[runs](#3-runs) · [bounds](#4-bounds) · [fairness](#5-fairness) ·
[what is proved](#6-what-is-proved) ·
[disagreements](#7-disagreements-between-code-and-text) ·
[not modelled](#8-what-is-not-modelled) · [plan](#9-plan)

## 1. The system

### Components

| component | state it keeps | operations | module |
|---|---|---|---|
| credential cell, `creds.rs` | `Creds`: git caps, forge token, forge owner, behind one mutex | `load`, clone under the mutex, `cap_names`, `scrub` (overwrite, then clear) | `Creds`, `Custody` |
| caps directory, `/run/tabbify/caps` | `<repo>.url`, `authkeys.cap`, `forge-admin.token` | written by the supervisor, read at start and by add-key, removed by the HTTP scrub | `Custody` |
| process, `main.rs` | one cell, two listeners | load once, serve until the socket server returns | `Custody` |
| socket server and dispatch, `server.rs`, `dispatch.rs`, `request.rs` | one task per connection | list_caps, git ops, forge ops, add-key, scrub | `Custody`; each arm's work in the module of its component |
| control listener :8732, `http_ctrl.rs` | one task per connection; a read buffer | read a request; parse, route, authorize, add-key; scrub and file removal | `HttpConn` (reading), `ControlRequest` (what is made of it), `Custody` (its handlers among other connections) |
| token compare, `creds.rs::constant_time_eq` | none | fold over both byte strings | `TokenEq` |
| key file, `authorized_keys.rs` | `~agent/.ssh/authorized_keys` | validate, look for the key, append key and newline | `AuthorizedKeys` |
| push caps, `forge/handler.rs`, `forge/client.rs`, `forge/git_session.rs` | token per repository at the forge; session registry | register, resolve, revoke, expire | `PushCaps` |
| git operations, `git_ops.rs` | none of its own | confine the name, choose the remote, run git, sanitise, read HEAD | `GitOps`; the clone of the creds and the blocking wait: `Custody` |
| forge requests, `forge/handler.rs`, `forge/mod.rs`, `forge/client.rs`, `forge/contents.rs` | none of its own | provision, list, open a PR, file links; create, migrate, branches, sync, get and put a file | `ForgeRequests`; the clone of the creds and the unbounded wait: `Custody` |
| the `--scrub` client, `main.rs` | none | sends a scrub over the socket | a `socket_scrub` of `Custody` |
| crate root, `lib.rs` | none | module declarations | not modelled |

Outside the repository, and modelled from how its code uses them: the supervisor
(writes cap files), the snapshot runner (posts the scrub, waits, pauses,
restores), the forge (tokens with unique names; repositories, branches, a file
that is put by comparing shas), its other users, the git subprocess, the agent
in its working copies, HTTP clients, and the clock.

### How they interact

* Both listeners share one `Arc<Mutex<Creds>>`. Ops clone it and release the
  mutex before they call out; the scrub holds it while it overwrites and clears.
* The caps directory is shared with the supervisor through the file system
  only. `Creds::load` reads it once, at start; add-key reads `authkeys.cap` at
  every request; the HTTP scrub lists and removes files, the socket scrub
  touches none.
* `run_git_op` runs git synchronously on a worker thread; forge ops await. Git
  and the agent share the working copy, git and everybody else the remote.
* A forge request is one or two HTTP calls; between them, and before and after
  each, the forge's other users change what it holds.
* add-key is reachable over both listeners and has no lock around the file.
* A push cap is the result of three network calls (list, delete, mint) and an
  insert in the registry, with no lock across the awaits.

### What is hard here, and what correctness means

* **Boot against the supervisor.** Cap files are tested for, listed and read at
  different times while they are being written; one that was there all along
  must not be missed. → `BootLoadsWhatIsThere`.
* **Overlap of scrub and use.** Nothing may see a half-scrubbed cell; the
  answer to the runner must mean that cell *and* directory are empty, although
  the directory is emptied file by file while a broker may die, restart and
  load, and other scrubs run; and from then on nobody may get hold of a secret
  any more. → `AtomicView`, `ImplementsAtomicCell`, `GrantedMeansGone`,
  `ImplementsContract`, `NothingNewOnceGranted`.
* **What a scrub means afterwards.** A later request on either listener sees
  nothing of what was dropped; add-key fails closed until its cap is written
  again. → `ScrubIsProcessWide`, `FailsClosedAfterHttpScrub`. What was written
  afresh, on the other hand, should be used: `NextOpReloads`, which is violated.
* **Removals that fail** during a scrub that is answered ok. →
  `FailuresDoNotSpread`.
* **Blocking.** A forge that never answers, or git on every worker, must not
  starve the scrub; nobody may hold the mutex and wait for a worker; no handler
  may go round. → `NobodyWaitsInVain`, `RequestServed`, `HandlersAdvance`.
* **Check-then-append on a shared file**, by system calls which may fail. →
  `LoneCallLands`, `QuietFileIsTerminated`, and what is left when calls overlap:
  `ImplementsTextStore`, `DuplicatesAreBounded`.
* **Deciding that a request is complete** without a Content-Length. →
  `BufferBounded`, `WholeUnlessStalled`, `ClosedOrWholeIsAnswered`, and that
  the loop never goes round in vain: `WorkIsBounded`.
* **Acting on a request that was cut.** Whatever was read before a timeout, the
  limit or the end of the stream is parsed as if it were the request. →
  `KeysAreWhole`. And nothing of body or key file may show before the cap was
  checked. → `BodyOnlyAfterCap`.
* **One op, three readings of its name.** The check, the join with the projects
  directory and the lookup of the cap-URL must mean the same project. →
  `OwnProjectOwnCap`.
* **Sanitising what another program prints.** Git is given the cap-URL without
  its trailing slashes, prints it with one more, and remembers it as a clone's
  `origin` after the broker has dropped it. → `OnlyForgottenCapsShow`.
* **HEAD read after git has ended**, while the agent commits. →
  `AnsweredShaIsPushed`.
* **Answers of the forge that are lost, late or unreadable** for calls it
  carried out; a 4xx blamed on the agent. → `AnswersAreHonest`.
* **A default branch read in one call and used in the next.** → `DefaultIsFresh`.
* **A length truncated to eight bits** in the token compare. →
  `DecidesEquality`.
* **Replace-by-name at the forge** with failures in between, and an expiry. →
  `LoneCapPushes`, `LoneRegistrationSucceeds`; and when two registrations delete
  each other's tokens: `SomeCapSurvives`.

`PROJECT.json` lists these hazards one by one, at the line where each bites.

## 2. Modules

### Creds, Custody, ScrubContract, AtomicCell, CustodyBoot and its histories

`Creds` is the data: the record the broker holds, the record of cap files, and
the pure functions between them (`Trimmed`, `OwnerOf`, `Loaded`, `CapNames`,
`Overwritten`, `Cleared`). A credential is an element of a set, one set per kind
of file; what matters is whether it is there, which it is, whether its bytes
were overwritten (`Zeroed`), and whether the forge file parses as owner
credentials (`OwnerBlobs`). `None` is an absent file or `Option::None`,
`Blank` a file that trims to nothing or cannot be read.

`Custody` is the process around it. Its variables are the directory `dir`, the
phase of the process `proc` with the locals of `Creds::load` in `boot`, the
cell and who holds its mutex, and per connection the point its handler has
reached (`pc`), its request, its clone of the creds (`snap`), the cap add-key
read (`held`), the entries still to remove (`todo`) and its reply.

| code | actions |
|---|---|
| `main`, `Creds::load` | `Start` (is the forge file there?), `OpenCapsDir` (read_dir), `ScanEntry` (one file), `Serve` (forge file last, cell filled, listeners bound) |
| the listener ends; the process ends | `HttpExit`, `Exit` |
| `serve` / `handle_conn`, a request is read | `Arrive`, `AskScrub` (the runner's) |
| `dispatch`: list_caps | `ListCaps` |
| `dispatch`: git and forge ops | `StartOp` / `RefuseOp` (lock, clone, unlock, check), `FinishOp` |
| `Creds::scrub` | `ScrubCell` (overwrite, mutex taken), `ScrubClear` (clear, mutex released) |
| `remove_cred_files` | `ListUrls`, `RemoveUrl`, `RemoveAuthkeys`, `RemoveForge` |
| `handle_add_key`, authorization | `ReadCap`, `Authorize` |
| the reply | `Deliver`, `LoseReply` |
| supervisor, runner | `WriteUrl`, `WriteForge`, `WriteAuthkeys`; `GiveUp`, `Pause`, `Restore` |

The grain is one access to shared state per step: each file operation is its
own, and the scrub's two halves are two steps under the mutex, so that a missing
lock would show. `Busy` says which tasks occupy a worker thread. `IoFails` lets
the directory listing and removals fail, which the code ignores.

`ScrubContract` is what `handle_scrub` promises the runner with every detail
left out: secrets in RAM or not, on disk or not, and the runner's protocol.
`Custody` maps to it with `RamHolds`, `DiskHolds` and `Phase`. Its constant
`Reliable` says whether files can be listed and removed: where they cannot, the
grant promises empty creds in RAM and nothing of the disk. `Ready` in `Custody` is
which handlers can go on, for the deadlock property, and `Left` how many steps a
handler has still to take.

`AtomicCell` is what the mutex promises the requests: the cell is one value,
loaded once, dropped in one step, and a clone or a list of names is of one
moment. `Custody` maps to it with `SeenOfCell`: what is between the scrub's two
halves counts as dropped already, since the mutex lets nobody see it.

`CustodyBoot` adds `steady`, the files that nobody has changed since the process
that is booting was started. `CustodyHistory` extends it with what the scrub
promises need. These history variables constrain nothing: whether this
process has answered a scrub, which scrubs were answered since `authkeys.cap`
was last written, and for every request what of this held when it arrived. Its
`HInv` is the invariant the proofs of its properties and of the boot's rest on.
What was dropped is noted until the supervisor writes a fresh cap-URL or forge
file: of that case the comment in `creds.rs` says that the next op has it, and
`CustodyReload`, with the cap-URLs written since the machine was restored as its
history, states just this (`NextOpReloads`). `CustodyFailures` extends `CustodyBoot`
by `spared`, the files on which the runner's own scrub has failed.

Assumptions about the outside: the supervisor writes only while no snapshot is
under way; the runner pauses only after a delivered answer; the warm restore
resumes what was frozen.

### AuthorizedKeys, KeyStore

`add_ssh_key_to` as one step per system call: read and look for the line
(`Reject`, `AlreadyThere`, `Missing`; `Unread` when the read fails and counts as
an empty file), `WriteKey`, `WriteNewline`; `Fail` and `Crash` may strike between
them. The file is a sequence of lines, each the
sequence of keys that were written on it, and `open` when its last line has no
newline. A short write inside a key is not modelled. `KeyStore` is the promise:
an acknowledged key is in the store and stays. The module implements it with the
keys that are anywhere in the text (`Text`), whatever happens; with the keys that
have a line of their own it does not (`authkeys_torn`), except for calls that
nobody overlaps (`LoneCallLands`).

### HttpConn

The read loop of `handle_conn`: a read without timeout, the limit, the search
for the blank line, then one 50 ms read that, if it brings bytes, sends the loop
back to the read without timeout. A request is a number of units of which the
first `HeadLen` end with the blank line. The client may stall or close at any
point.

### ControlRequest

`ControlRequest` extends `HttpConn`: it adds what the request says (path, method,
token, body), the cap file and the cell, and what the broker makes of the bytes
it has.

| code | action or operator |
|---|---|
| `parse_request` | `Parses`: the requests the first n units may read as; a path cut short is another path, a token cut short is another token, a body cut short is no JSON |
| no request line | `Malformed` (400) |
| the route of `handle_conn` | `RouteScrub` (200 or 405, unauthorized, empties cell and cap file), `RouteAddKey` (reads the cap file afresh) |
| `handle_add_key` | `Judge`, `Verdict`: 404, 405, 401, 400, then 200 or 500, in this order |
| other requests, the supervisor | `Elsewhere` (the cap file is written or removed) |

Reading is `HttpConn`'s, step for step: `ReadsAsHttpConn` proves that every
behaviour of `SpecC` is one of `HttpConn!Spec`, so what holds of the read loop
holds here. The scrub is one step in this module; `Custody` takes it apart.

### GitOps

One op from its name to its reply. A name is the sequence of its path
components, and whether it is spelt exactly as its only one (`repo/` has the one
component `repo` and is not spelt like it); a commit is its serial number. Per
project the module keeps HEAD of the working copy, where `origin` leads, the
branch at each of two remotes (behind the cap-URL, and the user's own), and
whether the broker holds a cap-URL and whether its text ends in slashes.

| code | action or operator |
|---|---|
| `safe_repo` | `Safe`; `Refuse` answers `invalid` or `forbidden` |
| clone of the creds, choice of remote | `Call` (`trim_end_matches('/')`, or `origin`) |
| `Command::output` | `SpawnFails`; `GitEnds`, with what git does when it works in `Works` |
| `sanitize` | `Sanitized`: stripping the text of the file from the text git printed |
| reply, `head_sha` | `Return` |
| agent, other pushers, scrub, restart | `Commit`, `Configure`, `Discard`, `OtherPush`; `Scrub`, `Restart` |

`push_other` is a push of a ref that is not HEAD. A failing push may have
reached the remote. `shown` and `forgotten` record which cap-URLs a reply has
shown and which the broker has dropped; `alone` says whether anybody else has
touched the project since the op was called.

### ForgeRequests

The requests the dispatcher makes (provision, list, open_pr, file_url) and the
calls the client offers besides (create, which stands for migrate too, branches,
sync, get, put). One file per branch, its blob sha standing for its content.

| code | action or operator |
|---|---|
| `forge_context`, `ensure_same_tenant` | `Suffices`, `SameTenant`, `Refuse` |
| a request's first call | `Call`; a link or a PR without a branch looks the default up first |
| the forge | `Handle`: carries the call out and says so, legibly or not, or its answer is lost; refuses; fails |
| `default_branch` came back | `LookedUp` |
| status, body, taxonomy | `Fulfilled`, `Code`, `Return` |
| other users of the forge | `ChangeDefault`, `Create`, `Delete`, `Commit` |

A put passes on the `sha` its caller gave it, or none, and it is the forge that
compares it with what it holds: no update is lost because of the forge, and no
property here says so of the broker. A get turns any 404 into `Ok(None)`, whether
the file is not there or the forge does not show it (`no_file`). Provision fills
in the fields that are missing from the forge's JSON; the other calls fail
without them. `done` and `since` are history.

### TokenEq

`constant_time_eq`, one step per byte, with the width of the `u8` as the
constant `Width`. `diff` is kept as "some bit is set", which is all the code
ever asks of it.

### Listener

`Listener` puts the two parts of the control listener that work on a client's
bytes side by side, for one run: the connection of `ControlRequest` and the compare
of `TokenEq`, which `Authorised` stands for. A behaviour is either that of a
connection or that of one compare; the compare awaits nothing, and the two share
nothing but its answer. `ListenerIsBoth` proves that each is what it is alone.

### PushCaps

`register_forge_push_cap` with `ensure_scoped_token`: list, delete by name, mint
under the same name, insert in `GitSessions`. Every call may fail, before or
after the forge did what it was asked (`MintFails`); a failed list counts as an
empty one, a failed delete is ignored. The clock ticks at any point. Assumed of
the forge: names identify tokens, and a call whose failure the broker saw takes
effect before that or never. `alone`, `spoilt`, `latest` and `clean` are history;
`clean[r]` says that since a moment when nothing was under way for `r` every call
worked and no cap of `r` was revoked. The registry's entry keeps the token and the
expiry; the clone URL, which the caller of `register_forge_push_cap` gives
separately and which is stored as it came, is left out. Nothing in the code
compares it with the repository the token is for, so that a cap leads to this
repository is up to the caller.

### Supporting modules

`MCCustody`, `MCCustodyHistory`, `MCAuthorizedKeys`, `MCHttpConn`,
`MCListener`, `MCPushCaps`, `MCGitOps`, `MCForgeRequests` instantiate the
specifications for TLC (symmetry sets, sizes, names). `*Proofs` hold the
theorems. Definitions named `Mutant...` are the plausible
bugs the properties are tested with: each stands before the definition it
replaces, and each property is violated when its mutant replaces it.

## 3. Runs

| run | configuration | states | shows |
|---|---|---|---|
| `custody` | `Custody` with its history: one repository, one add-key cap, 2 connections, 2 workers, crashes, restarts, concurrent scrubs | 277 k | no op works with half-scrubbed creds (`AtomicView`); from the runner's answer to the resume neither cell, directory nor a restarted broker's load holds a secret (`GrantedMeansGone`); later requests see nothing until a fresh credential is written (`ScrubIsProcessWide`) and add-key fails closed (`FailsClosedAfterHttpScrub`); from the answer on no clone and no cap read gains a secret (`NothingNewOnceGranted`); `Custody` implements `ScrubContract`, and `AtomicCell` (`ImplementsAtomicCell`); the invariant of the proofs (`HInv`, which contains `IInv` and `BootInv`) |
| `custody_live` | 1 worker, one repository, owner credentials, 2 connections, file operations that fail, a forge that may hang, crashes and restarts | 276 k | whenever something waits, some handler can go on or git runs (`NobodyWaitsInVain`); every request that was read is served (`RequestServed`), each step of its handler bringing it nearer to its end (`HandlersAdvance`); a file or a listing that fails keeps a scrub from no other file (`FailuresDoNotSpread`); a boot loads every file that stays as it is meanwhile (`BootLoadsWhatIsThere`) |
| `authkeys_concurrent` | 3 calls, 2 keys and a malformed one, failing reads and writes, crashes | 690 k | a call nobody overlapped has its key on a line (`LoneCallLands`); an acknowledged key is in the text and stays (`ImplementsTextStore`); overlapping calls duplicate a key no further than their number (`DuplicatesAreBounded`); a quiet file is terminated unless a write failed |
| `http_control` | requests below the head, of head only, with body, beyond the limit; every path, method, token and body; the cap file rewritten and removed. Besides, every pair of strings of up to 3 bytes over a byte of 3 values for the compare | 484 k | the buffer's bound (`BufferBounded`), whole requests (`WholeUnlessStalled`), no key from a cut request (`KeysAreWhole`), nothing learnt without the cap (`BodyOnlyAfterCap`), every step nearer to the answer (`WorkIsBounded`), and answers (`ClosedOrWholeIsAnswered`); the compare's answer is equality where it is promised (`DecidesEquality`), with its invariant `FoldInv`, and its loop runs to the end (`RunsToTheEnd`) |
| `pushcaps_concurrent` | 2 repositories and a foreign one, 2 registrations, 3 tokens, failing calls, expiry | 238 k | a cap nobody overlapped pushes for its TTL (`LoneCapPushes`); a lone registration whose calls worked succeeds (`LoneRegistrationSucceeds`); of overlapping registrations one cap survives (`SomeCapSurvives`); `IInv` |
| `git_ops` | 1 project, 2 ops, 2 commits, names of every shape | 1.0 M | an op keeps to its project and its cap-URL (`OwnProjectOwnCap`), a reply shows a cap-URL only where the sanitiser cannot know it (`OnlyForgottenCapsShow`), an undisturbed push is answered with what was pushed (`AnsweredShaIsPushed`) |
| `forge_requests` | 1 repository, 2 branches, 2 texts, a foreign org, every request and every credential | 9 k | answers say no more than what is so (`AnswersAreHonest`); a looked-up branch was the default meanwhile (`DefaultIsFresh`) |
| `custody_reload` | 1 connection, one cap-URL | violated | `NextOpReloads`, see section 7 |
| `custody_inflight` | | violated | `FrozenHoldsNothing`, see section 7 |
| `authkeys_torn` | | violated | `AckedKeyHasLine`, see section 7 |
| `http_slowbody` | | violated | `HeadIsAnswered`, see section 7 |
| `pushcaps_race` | | violated | `ReturnedCapPushes`, see section 7 |

The inductive invariants `IInv` and `HInv` are checked where the proofs rest on
them, and begin with the type invariant of their module, so the runs that check
one of them need not name `TypeOK` again.

To repeat one: `tlc -workers 2 -config Custody_scrub.cfg MCCustodyHistory`
(`custody_live` has no symmetry, because it checks liveness, and runs on
`CustodyFailures` itself).
Deadlock is checked in the Custody, AuthorizedKeys, GitOps and ForgeRequests
runs. It is off for `HttpConn` and `Listener`, which end, and
for `PushCaps`, which ends at its clock and token bounds.

## 4. Bounds

* **Connections and ops.** Two. The properties relate one op, one scrub or one add-key
  to one other actor (a second scrub, the process, the supervisor, the runner),
  and the process-level actors are there besides. `AuthorizedKeys` has three,
  since one line can be torn by two calls while a third looks for it.
  `ForgeRequests` has one: whatever a second request of the broker's could do to
  the forge, its other users do at any point, and requests share nothing else.
* **Repositories.** One cap-URL and `authkeys.cap` in `custody`, so that a
  listing can have seen a file or not and a scrub can be caught between two
  removals. `custody_live` has the repository but only its empty or unreadable
  file, so that listings, removals and a boot's scan have something to do; of
  what a boot loads it has the forge credentials. That a boot loads a cap-URL is
  checked in `custody`, by `BootInv` within `HInv`. One project in
  `git_ops`, since projects share nothing but the broker, two in
  `pushcaps_concurrent`, whose registry is shared.
* **Secrets.** One of each kind that matters to the run's question. Only
  add-key compares secrets, and `custody` asks whether *any* token is let
  through, so one token and none suffice; `http_control` has two caps, so that
  one can be held and another presented. The forge token is in `custody_live`
  and `custody_inflight`, and in the theorems; an instance without forge tokens
  (`custody`) has no forge file either, not even an empty one.
* **Workers.** One in `custody_live`, the hardest case for progress; two
  elsewhere, so that tasks really interleave.
* **File size.** `MaxLines` = 3 stops *new calls* at three lines, or three keys
  on a line; running ones finish.
* **Sizes.** `HeadLen` 4, `Chunk` 2, `MaxSize` 8 and requests of 3, 4, 6 and 10
  units: shorter than their head, of head only, with a body, and with one that goes
  past the limit. `Line` 2 and `Auth` 3 let a cut fall before, in and
  after the request line and the Authorization header.
* **Names.** One component spelt exactly, one with something behind it, two, none,
  and `..`: each branch of `safe_repo` and each way past one test of it.
* **Commits.** `MaxCommits` 2 beside the initial one's number: one commit by the
  agent or by another pusher between git's end and the HEAD read.
* **Bytes.** `Width` 3 and `MaxLen` 3 make the lengths 0 and 3 equal modulo `Width`:
  the truncation bites inside the bound.
* **Tokens and time.** Three mints and a clock of 0..2 with TTL 1 let a cap
  expire, be replaced and be raced. When `MaxTokens` is reached a successful mint
  is impossible; failing ones and everything else go on.

The theorems of section 6 drop all of these bounds, except that `PushCaps`
keeps `MaxTokens` and `Forever`, and `TokenEq` `MaxLen`, as arbitrary numbers,
`AuthorizedKeys` `MaxLines`, and `GitOps` `MaxCommits`.

## 5. Fairness

* `Custody`: strong fairness for each task's own steps. The runtime's run queue
  and the mutex are fair, so a task that can go on again and again goes on; weak
  fairness would not do, because another task may take the worker or the mutex
  each time. Git subprocesses end (weak fairness). Nothing is assumed of the
  forge: no request to it has a timeout, and `RequestServed` excepts exactly
  that wait. Nothing is assumed of supervisor, runner, clients or crashes.
* `HttpConn`: weak fairness of the server (a ready socket and an expired timer
  are polled) and of the arrival of what the client sends. The client need
  never close.
* `ControlRequest`: the same for the reading, and weak fairness of `Route`: a task
  that has its request waits for nothing. The cap file may change for ever.
* `TokenEq`: weak fairness of the loop. `Listener` has this and `ControlRequest`'s.

## 6. What is proved

All proofs hold for every value of the constants that meets the named
assumptions (`CredsAssumption`, `CustodyAssumption`, ...).

**CustodyProofs.** `TypeCorrect`; `Invariant` (`IInv`); `OpsSeeWholeCreds` (`AtomicView`);
`ScrubLeavesNothing` (`GrantedMeansGone`, assuming `~IoFails`); `KeepsContract`
(every step of `Custody` is a step of `ScrubContract` or a stutter, whatever
fails), from which `NothingIsFrozen` follows by the contract's own invariant;
`GrantEndsTheGathering` (`NothingNewOnceGranted`, assuming `~IoFails`);
`NoDeadlock` (`NobodyWaitsInVain`, for any number of connections and workers).
`AtomicView` is not inductive: a clone equals what was loaded
because the cell does whenever the mutex is free, and that holds only because
the mutex is held between the scrub's two halves and nowhere else. The
invariant `IInv` adds exactly that:

* `MutexHeld`: a task holds the mutex iff it stands between the halves;
* `NothingBeforeServing`: no connection and no creds before `Serve`;
* `CellAllOrNothing`: a free mutex means a cell that is `loaded` or empty;
* `OpAtPc`, `ClearedByScrub`: behind a scrub's first half the cell stays empty;
* `AskedScrub`: how much of the directory the runner's scrub has emptied at each
  of its points; `UrlsPresent \subseteq todo` is the part that depends on the
  listing being complete and on the supervisor's silence;
* `EmptyOnceGranted`: it stays empty, because nobody writes and a restarted
  broker finds nothing to load.

Each conjunct has a lemma with one step per group of actions. The refinement
rests on `EmptyOnceGranted` and `AskedScrub` for the contract's `Grant`, and on
`LoadedHoldsWhatDiskHolds` for its `Learn`. `NothingNewOnceGranted` needs
`EmptyOnceGranted` in the state before the step: a clone made after the grant is a
clone of an empty cell. Where removals fail it is false, because a restarted
broker may load what was left. `NoDeadlock` needs `MutexHeld`: who holds the mutex
has a worker too, and the second half of a scrub waits for nothing.

`CellIsAtomic` (`ImplementsAtomicCell`) is a second refinement, whatever fails.
`CellHandle` and `CellProcess` map each step of a handler and of the process to a
step of `AtomicCell` or a stutter: a scrub's first half is the `Drop`, its second
is nothing, because `MutexHeld` gives the mutex back only with an empty cell
(`SeenUnderMutex`). `SeenWholeThenGone` carries the abstract module's own two facts
over: what is seen is what was loaded or nothing, and nothing stays nothing while
the process lives.

`HandlersGoForward` (`HandlersAdvance`) is the part of `RequestServed` that does not
need fairness. `StepsLeft` counts what a handler has before it; `StepsCount` shows
that each of its steps lowers the count, `OthersLeaveIt` that no other actor's
raises it. The scrub's loop over the `.url` entries is why the count has
`Cardinality(todo)` in it, and why the theorem asks for finitely many
repositories, which is what a directory has. A request takes its handler at most
`6 + Cardinality(Repos)` steps from its arrival.

**CustodyHistoryProofs.** `ScrubsAreProcessWide`, whatever fails, and
`AddKeyFailsClosed`, assuming `~IoFails`, from `HistoryInvariant` (`HInv`), which
adds to `IInv`, besides `BootInv`:

* `LocalsAtPc`: a task has a clone, a cap read, a reply only at the points where
  its handler uses them, so a request that arrives starts with none;
* `DroppedStaysDropped`: the cell of a process that has scrubbed stays empty,
  and with it every clone made later (`CellStaysEmpty`);
* `SealedStaysSealed`: from the removal of `authkeys.cap` by a scrub to its next
  writing, no later request holds a cap, across restarts.

`FailuresStayLocal` (`FailuresDoNotSpread`) is what remains of `GrantedMeansGone` where
removals fail: what is on disk after the answer is what the runner's own scrub
failed on. Its invariant, `FailuresInv`, follows that scrub from its listing to its
reply; it rests on the supervisor's silence during a snapshot, and on no other
scrub writing anything.

`StepFacts` says once what a step can do to the variables these speak of; the
lemmas of the conjuncts use it instead of the actions.

`BootMissesNothing` (`BootLoadsWhatIsThere`) holds for any files, with the supervisor
writing throughout, failing listings and crashes. Its invariant is `SteadyIsRead`
(`BootInvariant`): of a file that nobody touches a boot knows that it is there, or
has it still to read, or has read it as it is. It is the order of `main` and
`Creds::load` that keeps it (test for the forge file, list, read each entry,
forge file last), and each of these steps has its case in the proof.
`HistoryWatches` says that a behaviour with history is one of `SpecB` and of `Spec`,
so that every theorem about these is about it too. That the history takes no
behaviour away is not a theorem, but plain: `Watch` and `Record` only define the
next values of their own variables.

**AuthorizedKeysProofs.** `TypeCorrect` (a key that fails validation never
reaches the file, under any overlap and failure). `QuietFileTerminated`, from
`OpenAwaitsNewline`: unless a write failed, an open file has a task that is about
to write the newline. `LoneCallsLand`, from `LoneInv`: while a lone call runs
the file stays as it left it. `TextKeepsEveryKey`: with any overlap, failure and
crash the module implements `KeyStore`, a key being in the store when it is
anywhere in the text; this is the most that can be promised, as `authkeys_torn` shows.
`NewlineFollowsKey` is its invariant. `DuplicatesStayBounded`: a key gets at most
as many lines as there can be calls at a time, provided the file can be read. The
bound itself is not inductive; `AddersAreCounted` adds to a key's lines the calls
that missed it and will still write it, and `OpenLineHasKey` that a key written on
an open line makes no line of its own.

**HttpConnProofs.** `TypeCorrect`, `BufferStaysBounded`, `RequestsAreWhole`, for
every chunk, head and limit; inductive as they stand once the type invariant is
there. `ReadsAsHttpConn` carries them over to `ControlRequest`, of which
`ControlTypeCorrect`, `OnlyWholeKeys` and `AuthorizationFirst` are proved: the
body parses only when the last byte is there, and by then path, method and
token are the client's own. `ConnectionsEnd` (`WorkIsBounded`) gives the loop and
what follows it a measure, `Left`, that every step of the broker lowers and no
other step raises: a request of n units costs at most n + 3 steps. With fairness,
this is all that TLC's `ClosedOrWholeIsAnswered` needs besides a client that closes
or has sent everything. `ListenerIsBoth` carries all of this, and the compare's
theorems, over to the `Listener` of the run.

**TokenEqProofs.** `CompareIsEquality`: for every width and all strings, the
compare is equality when both are shorter than `Width`, or have no NUL byte. The
assumption is needed: strings that differ only by a multiple of 256 trailing
NULs compare equal. The second case is the code's, as long as neither the cap
file nor the client's token has a NUL in it. The invariant, `FoldInv` (`Invariant`),
says that the loop stays inside the longer argument, and with `Collected` what it
has folded in.

**PushCapsProofs.** `TypeCorrect`; `LoneCapsPush` and `LoneRegistrationsSucceed`, for any
number of repositories, registrations, tokens and any failures, from `IInv`
(`Invariant`):
`Fresh` (a secret in hand belongs to its own repository), `AloneIsAlone`,
`LoneMintIsFree` (after list and delete nothing carries the name),
`LoneMintIsLive` and `LatestIsLive` (nobody else deletes the token before or
after the insert). `SomeCapAlwaysSurvives`
is what is left of the promise when registrations do overlap: not every returned
cap pushes (`pushcaps_race`), but one does. Its invariant,
`CleanTokenIsAccountedFor`, follows the token of a name while no call has failed:
if there is none, some registration is about to mint one; if there is one, its
mint has it in hand, or its cap is registered, or it is left from before and no
registration has got past its delete.

**GitOpsProofs.** `TypeCorrect`, `OpsKeepToTheirProject`, `RepliesHideHeldCaps`,
`LoneShaIsPushed`, for any projects, names and ops, from `Invariant` (`IInv`).
Neither of the last two is inductive. `CapsComeFromTheBroker` (a cap-URL in a job or
in a working copy's `origin` is held by the broker or was) and
`OutputOfCapRemote` carry the first from git's output to the reply;
`LonePushIsLevel` (after a lone push HEAD and remote agree) carries the second
over the gap between git's end and the HEAD read.

**ForgeRequestsProofs.** `TypeCorrect`, `HonestAnswers`, `FreshDefaults`,
for any number of requests, from `Invariant` (`IInv`), whose
core is `AnswersAreMeant`: what an answer under way says was so when the forge
gave it, and an answer that refuses means that nothing was done.

**Model-checked only.** Liveness under fairness, for which the prover has no rule:
`RequestServed`, `ClosedOrWholeIsAnswered`, `RunsToTheEnd`. Of the first two the
half that needs no fairness is proved (`HandlersGoForward`, `ConnectionsEnd`): each
step brings the end nearer, and `NoDeadlock` says that some step can be taken;
what is left to TLC is that the scheduler takes it. The properties of the five
runs that expect a violation are false, and there is nothing to prove. Every
other property of a run is a theorem. No induction over data was needed: the
modules declare no recursion.

## 7. Disagreements between code and text

Each of these is a run in which TLC finds the property violated.

* `custody_inflight`: an op that cloned the creds before the scrub keeps its
  clone until git or the forge answers (`dispatch.rs:61, 70, 96`), and the runner
  may freeze the machine meanwhile; `http_ctrl.rs:222-225` says a snapshot taken
  after the answer freezes no live cap-URL or token.
* `custody_reload`: a process loads its creds once (`main.rs:38`). The machine is
  restored warm, the supervisor writes a fresh cap-URL, and the next op works
  without it; `creds.rs:121-123` says "the supervisor re-writes fresh cap files on
  warm restore and the broker reloads on the next op".
* `authkeys_torn`: `writeln!` writes the key and the newline separately
  (`authorized_keys.rs:49`); two calls can put both keys on one line, and both
  are answered ok.
* `http_slowbody`: when the 50 ms read brings bytes, the loop returns to the read
  without timeout (`http_ctrl.rs:334` to `313`), so a client that keeps its side
  open gets no answer; `http_ctrl.rs:326` calls it a bounded extra read that
  keeps a slow body from hanging forever.
* `pushcaps_race`: of two overlapping registrations for one repository one can
  delete the token the other has just been given (`forge/client.rs:150`), so a
  returned cap does not push; `forge/handler.rs:111-113` says it does.

Seen while modelling, without a run of their own:

* Without a cap-URL a git op uses the remote `origin` (`git_ops.rs:41-45`) instead
  of answering `needs_credential` (`creds.rs:45-46`, `http_ctrl.rs:48`).
* `git_ops.rs:4-5` says no credential-shaped string is ever returned. A cap file
  that ends in a slash is given to git without it (`:43`) and looked for with it
  (`:84`); and a clone makes its cap-URL the copy's `origin` (`:62`), where a later
  op of a broker that has dropped it finds it. `OnlyForgottenCapsShow` names
  exactly these two exceptions, and the theorem says that there is no third.
* `forge/mod.rs:87-89` calls a 4xx the agent's input problem; so it does a 401 or
  403 for the broker's own token.
* The socket scrub leaves `authkeys.cap` and add-key working (`dispatch.rs:87`,
  `server.rs:17-20`).
* Errors of `read_dir` and `remove_file` are ignored and the scrub answered ok
  (`http_ctrl.rs:201-212`); `FailuresDoNotSpread` says how far this goes.
* Two overlapping add-key calls for one key write it twice
  (`authorized_keys.rs:36`, `:3`); a key without its newline, left by a failed
  write, swallows the next one (`authorized_keys.rs:44`).
* Nothing refreshes a push cap before it expires (`forge/git_session.rs:23-25`).

## 8. What is not modelled

* **The socket's framing**: newline-delimited JSON, its serde encoding, and a
  `read_line` without limit or timeout; likewise HTTP header syntax beyond what a
  cut can do to it. `Custody` starts where a request has been read.
* **The `--scrub` client** of `main.rs` beyond the request it sends: its arguments
  and how it reads its answer.
* **What a key line contains** beyond being valid or not.
* **Pagination** of the forge's lists (repositories, branches, tokens): each is
  taken to come whole, in one answer.
* **The base64 transport** of file contents, and messages of errors. Their codes
  are modelled.
* **More than one file per branch**, and refs beyond HEAD and another: a put and a
  push each concern one.
* **Inside the supervisor and the runner**: only what they write, post and wait
  for.
* **The clone URL of a push cap**, and who calls `register_forge_push_cap`.
* **The crate root**: module declarations.
* **Composition of the handlers with `AuthorizedKeys`**: where `ControlRequest`
  or `Custody` answers add-key with ok or an error, an `AuthorizedKeys` call has
  run. They share no state, and `added` marks the place.

## 9. Plan

Done, in this order: `Creds` and `Custody` with the abstract `ScrubContract`,
since custody of secrets is what the broker is for; `CustodyHistory`;
`AuthorizedKeys`; `HttpConn`; `TokenEq`; `PushCaps`; `GitOps`; `ForgeRequests`;
`ControlRequest`; the proofs of each; `AtomicCell` and `CustodyBoot` with theirs;
`CustodyFailures`, `CustodyReload` and `Listener`.

What could follow: the forge's paging, once the code looks at it; an interval
timer for push caps, once something refreshes them; a lock around
`register_forge_push_cap` and around the key file, after which `pushcaps_race`
and `authkeys_torn` would become passing runs of the same properties, and
`KeyStore` would be implemented line by line under overlap too.
