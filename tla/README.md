# A TLA+ development of docker-mcp

`docker-mcp` is an MCP server that exposes Docker to an agent: about 150 tools, each a call on a
docker-py client or a run of the `docker` CLI, against one or several configured hosts. Most
tools are a line or two; the state and the concurrency of the program sit in a handful of
places. This directory specifies those, checks them with TLC on small instances, and proves the
central invariants with TLAPS for every value of the constants. `PROJECT.json` lists the runs,
the theorems, the source lines of every definition, and the hazards the properties are aimed at.

## 1. The system

FastMCP runs synchronous tools concurrently in a worker threadpool (`tools/system.py:43-46`), so
any two tools may interleave anywhere.

| Component | State | Operations | What is hard | What makes it correct | Status |
|---|---|---|---|---|---|
| Client pool (`tools/system.py`) | `_clients`, `_client_lock` | `_get_client`, `system_close`, `system_reconnect`, every tool's use of a client | overlapping build, close, swap and use | a pooled client works and is for its host; none leaks; a failed reconnect harms nothing | `ClientPool` |
| Remote exec (`tools/_ssh_proxy.py`) | remote script, marker file, watchdog, pid; SSH channel; drain loop | `exec_remote`, `_drain_exec_channel`, `wrap_with_timeout`, `_is_remote_timeout` | two hosts and four processes, signals, status ahead of output, lost connection, deadline | a kill is reported as a timeout and only a late command is; no output lost; truncation told; the call ends | `RemoteExec`, `RemoteCommand` |
| Dial-stdio proxy (same file) | listener, accepted sockets, channels, five kinds of thread | `start`, `stop`, accept loop, handler, two relays | threads started while being stopped, bounded joins, blocked reads | replies arrive, hang-ups propagate, nothing stays open | `DialStdioProxy` |
| Remote staging (same file, `_cli.py`, `compose.py`) | remote temp directory, numbered slots, archives, a local extraction path | `remote_staging_session`, `stage_*`, `exec`, `fetch_path` | failure at every step, lost connection, two fetches into one directory | the command sees a whole stage; directories do not leak silently; a fetched result is exact | `RemoteStaging` |
| Bounded streams (`containers.py`, `system.py`) | buffers, flags, reader thread or watchdog timer | `container_exec`, `container_logs`, `system_events`, archives that are returned | join timeout against a late chunk, closing a stream under its reader | bounded, exact truncation, honest `timed_out` | `ContainerExec`, `FollowStream` |
| Host files (`_utils.py`) | a destination and its partial file | `stream_to_file` | failure in mid-stream, a kill, a destination created meanwhile | never a part of a download | `FollowStream`, but for the mount check |
| Gating (`server.py`, `_hosts.py`, `_env.py`, `system.py`, `_cli.py`) | host registry, registered and guarded tools, pooled clients, plugin cache, own container | `load`, `_should_register`, `_enforce_host_guard`, `guard_not_self`, `should_remote_exec`, `_apply_host_env` | three switches, two kinds of marker, an omitted host, three ways to a daemon, a CLI context that moves | no write reaches a protected host; one label is one daemon; what it advertises is so | `ToolGate` |
| One-shot runs, container lifecycle, container waits (`containers.py`) | the call's own findings; the container is the daemon's | `container_run`, `container_start` ... `_remove`, `_wait_container` | any daemon call fails or loses its answer; the container exits, restarts or goes between two calls | no output destroyed unread; what is left behind is named; a wait ends and says what is so | `OneShot` |
| Swarm updates and waits (`services.py`, `stack.py`, `nodes.py`, `swarm.py`) | versioned specs, tasks, `UpdateStatus`: the daemon's | `service_update/_scale/_rollback`, `node_update`, `swarm_update`, `_wait_service/_stack/_node` | a read and a send with others in between; several reads of a changing cluster | no lost update; `met` is true | `SwarmServices` |
| Registry client (`registry.py`) | retry counters, token, list so far | `_get_with_retry_policy`, `_registry_get`, `registry_tags`, `hub_tags`, `registry_image_config`, `_wait_registry_tag` | arbitrary mixtures of 5xx, 429 and 401; tags that change between pages and questions | bounded requests and delay; whole lists; one image per answer | `RegistryHttp` |
| Probe caches (`_ssh_proxy.py`, `_cli.py`) | label or plugin to (time, verdict), under a lock | `detect_remote_dialect`, `has_plugin` | stale and negative entries | a stale answer does not send a command elsewhere | the plugin cache, in `ToolGate` |
| Plugin release (`scripts/claude_plugin_release.py`) | the build record; PyPI's files; the branch | `wait_for_pypi`, `build`, `check_lock`, `smoke`, `publish` | stale CDN copies and heads, lost answers, re-runs, reverts | a version is published once, forward, as tested | `PluginRelease` |
| Single-call SDK tools, CLI argument building, prompts, resources, error translation, launcher | none of their own | | | | not modelled (section 6) |

They meet as follows. A tool calls `_get_client` and then docker-py. A CLI tool calls
`run_docker`, which for an `ssh://` host opens a `DialStdioProxy` around one subprocess; when
the host running the server has no CLI or plugin (`should_remote_exec`, the probe cache), it
goes through remote exec instead, with a staging session around it when the command reads local
files. `ToolGate` is this choice, with the registry and the guard in front of it. A staging
session runs all its bookkeeping through `exec_remote`; it shares nothing remotely with other
sessions but its fetches share the caller's file system. `stream_to_file` ends a file fetch.

## 2. Modules

    RemoteCommand       what one remote command promises its caller
    RemoteExec          exec_remote in detail; refines RemoteCommand
    RemoteExecProofs    its theorems
    ClientPool          the client pool
    DialStdioProxy      the per-call proxy
    ConnectionProofs    theorems of ClientPool and of DialStdioProxy
    RemoteStaging       staging sessions
    RemoteStagingProofs its theorems
    ContainerExec       container_exec and its reader thread
    FollowStream        streams that are followed, joined or written to a file
    ToolGate            from the operator's settings to the daemon a call reaches
    ToolGateProofs      its theorems
    OneShot             container_run, container waits and lifecycle tools
    ContainerProofs     theorems of ContainerExec and of OneShot
    SwarmServices       spec updates by read and send, and the swarm waits
    DaemonProofs        theorems of FollowStream and of SwarmServices
    RegistryHttp        several registry questions in a row, with retries
    RegistryHttpProofs  its theorems
    PluginRelease       publishing the Claude plugin
    PluginReleaseProofs its theorems
    MC<module>          the instance TLC checks; .cfg files of the same name

### RemoteExec

One call of `exec_remote`. The remote side is the script built by `wrap_with_timeout`: the main
shell (`Prepares`, `Launch`, `WaitReturns`, `CheckMarker`, and `ShellSignalled` for a HUP, INT
or TERM, whose trap removes the marker and *returns*), the command (external), and the watchdog
(`WatchdogProbes`, the one-second loop with its `kill -0`; `WatchdogMarks`,
`WatchdogTerminates`, `WatchdogKills`). `pid` says who owns the pid the script remembers: the
command, nobody, or, once it was reaped, a stranger (`PidMoves`); a signal goes to the owner of
that moment. The local side is the drain loop with its branches in the code's order: a pass that
moved data goes round again *before* the status and the deadline are looked at, a status starts
the settle polls, and output during those goes round again. `exec_remote`'s attribution is
`Concludes` with `IsRemoteTimeout`.

Time is a tick of the watchdog's one-second sleep, and 10 ms polls take no tick: a poll that
finds nothing changes nothing. On a `prompt` host nothing runnable waits for a whole tick; on a
`loaded` one anything may be delayed for ever. Properties that need promptness
(`NoSpuriousTimeout`, `NoLostOutput`) say so; the others hold on either. A chunk is one unit of
the retention cap. `_TIMEOUT_ATTRIBUTION_SLACK_SECONDS` is below one tick and so rounds away.
Once the caller is done the clock stops at `Seconds`, the last value the watchdog still compares
with anything the properties tell apart; before that it stops at `Horizon`, `Overrun` ticks past
the deadline. `paid` counts the passes past the deadline that read something; it is history and
guards no action.

### ClientPool

Threads, each in one call at a time. `_client_lock` is held across one action, except while
`_get_client` builds a client, which is a network operation: `GetMiss` takes the lock and
`BuildSucceeds` or `BuildFails` releases it. Reconnect builds and validates outside the lock,
swaps under it and closes the old client outside it again. A tool keeps the client it was given
(`using`) with no lock at all. `_resolve_host` runs before the lock: its answer is the choice of
`label`. Clients are numbered as they are built; `MaxClients` caps how many. The specification
is called `PoolSpec`: its theorems stand in one module with `DialStdioProxy`'s.

### DialStdioProxy

The accept loop is split where another thread can interleave: after `accept`, after the append
under `_state_lock`, after `thread.start()`. `_handle_connection` is the factory
(`open_session`, then `exec_command`, either of which may fail or block) and the two relays; a
relay's `recv` and `sendall` are separate steps, the `sendall` of either may block for ever (the
far side, or the CLI, stops reading), and what a closed channel still holds is read first.
`stop()` has one action per statement; its two joins are bounded by `_JOIN_TIMEOUT_SECONDS`, so
they may give up at any time. Joining a thread that is listed but not yet started raises
RuntimeError, as Python does. The environment is the CLI (connect,
half-close, hang up) and the far side (reply, end).

### RemoteStaging

Each session goes through opening (connect, dialect, `mktemp -d`, SFTP and its stat check),
staging (trees and contexts in three steps, files in one, `reserve_path`), one docker command,
an optional `fetch_path`, and the `finally` of `remote_staging_session`. Every remote step needs
the connection, which may drop at any time, and every step may raise. `local` is the directory
the calls fetch into: extraction paths are named after the slot number alone, so two sessions
can meet there, and an extraction happens in two parts so that it can be interrupted or
interleaved. What `overlapped` and `unnamed` record is history: they guard no action. Size
limits, tar members and path-token rewriting are data and are abstracted to success or a raised
error.

### ContainerExec and FollowStream

`ContainerExec` has the calling thread of `container_exec`, one action per statement from the
join on (`join`, `is_alive`, `abandoned`, the close, the decode, `exec_inspect`), and the reader
thread, which takes a chunk and, in a second step, handles it under the lock; so the call can be
abandoned between the two. The join may time out at any moment. `Attached` is what the daemon
delivers for the flags of the call, and `cut` starts out as the code's list. A chunk is a number
of bytes of one stream. On an `ssh://` host `closable` is false and `close_stream_quietly`
closes nothing.

`FollowStream` has four modes. `follow` is the loop `container_logs(follow=True)` and
`system_events` share: the tool's thread over chunks and the items in them, and the `Timer`
thread, which may already be past its wait (`firing`) when it is cancelled. `logs` and `archive`
are `join_bounded`, which compares the running total with the cap before it keeps a chunk; they
differ in what a lost connection is to their reader, possibly the end of a log (docker-py's
`CancellableStream` stops on it), an exception in the middle of an archive. `file` is
`stream_to_file`: the checks, the sibling `.partial` file, the replacement, and the `except` and
`finally` after them. A full disk, a broken stream, a kill of the server and another program
that writes the destination come at any point.

### ToolGate

`Load`, `Register` and `StartupPreflight` are the startup: `_hosts.load` parses the registry or
exits, the tools' decorators register what the switches leave and wrap what needs the guard, and
the preflight identifies the own container, or does not. `Ask` is the wrapper up to
`_enforce_host_guard`; the second step of a call is the tool's body. `SdkCall` takes the pooled
client or builds one (`BuildClient`: an explicit host has the URL pinned at startup, the legacy
default is resolved again) and asks `guard_not_self`; `CliCall` chooses between the local CLI
and remote exec by `should_remote_exec`, and `CliDaemon` is what the docker CLI makes of the
environment `_apply_host_env` gives it; a `compose_down` may end the own container, and no guard
is asked. Between the two steps the CLI context moves, the CLI or
its plugin comes and goes, and the cached probe expires. The nine tools are one of each
category, domain and backend the code tells apart. A URL is the daemon it names.

### OneShot

One container from `create` to its removal, `box`, with the daemon's part of its life
(`Program`, `PolicyRestarts`, removal by `auto_remove`) as the environment. `container_run` has
one action per daemon call, each of which may fail, and the calls that change something may do
so and lose their answer. `WaitStart` to `WaitStatus` are `_wait_container`: the daemon's own
wait for `not-running`, `next-exit` and `removed`, one read per poll for `healthy`, two for
`log-match`. A lifecycle tool is `Act` (fetch and operation) and `CycleReread`. What `taken` and
`stopped` record of people is history for the properties, but for the restart policy, which the
daemon suspends for a stopped container. The specification is called `RunSpec`: its theorems
stand in one module with `ContainerExec`'s.

### SwarmServices

An object has a version and a spec of three fields; `Fetch` reads it and `Send` sends, in each
tool, what that tool makes of the spec it read (`service_update`, `node_update`, `swarm_update`,
`service_rollback`) or of the one docker-py reads at the send (`service_scale`, force), under
the version that was fetched. The daemon refuses a version that is not current. Its other duties
are modelled as far as the waits rely on them: reconciliation, a rolling update noted in
`UpdateStatus` some time after the request, tasks that fail, nodes that go down while their task
still counts as running. A wait reads in the code's order, one action per daemon call, and
`Conclude` is the verdict. `moved` records whether something it read was overtaken. The
specification is called `SwarmSpec`: its theorems stand in one module with `FollowStream`'s.

### RegistryHttp

`get` is the state of one `_registry_get`: its stage (first GET, token, GET again) and the retry
loop's counters, which start anew with each stage. `TransientStatus`, `RateLimited`,
`Unauthorized` and `Fails` are the answers that are not 200. The tools on top of it are the
actions that take a 200: a page of tags (`_next_link` for a registry, page numbers for Docker
Hub), or a manifest, a platform's manifest and a config. `Others` are the people who push,
delete and move tags.

### PluginRelease

A run is one pass through the workflow's jobs, and `Rerun` starts it again: from the top, without
the build of the pass before, or at `publish` with the build that was tested. `Served` is what a
CDN may answer: the files of any earlier moment; `Ref` likewise any head the branch has had.
`Transient` is a request that fails: a GET is tried again, a write never. `MoveUnanswered` is the
write whose answer is lost. The workflow's upload and the person who reverts are the
environment.

## 3. What the runs check

| Run | Expect | Shows |
|---|---|---|
| `remote_exec` | pass | no spurious timeout, no lost output, exact truncation, no second past the deadline that no read of output has paid for, and the promise of `RemoteCommand`: one answer; a kill is never an ordinary result unless the link or the wrapper was torn down; a timeout is only given past the limit |
| `client_pool` | pass | pooled clients are open and for their label, none is owned twice, failed reconnects change nothing, and calls return once no more arrive |
| `dial_proxy` | pass | replies arrive, a failed factory leaves nothing open, a hang-up takes the channel down unless the far side stopped reading, and teardown ends every thread and closes every socket and channel, also when a join gave up or raised |
| `remote_staging` | pass | a running command sees everything staged and no archive, a fetch that was alone on its path is exact; a leaked directory is explained by a drop, a warning or a lost answer of `mktemp`; destinations are written once, whole; a session ends unless its host lets it wait for ever |
| `container_exec` | pass | truncation is told truly; the read ends at once when all that delivers is cut; the call ends at its timeout at the latest; the reader left behind keeps nothing and takes no further chunk |
| `follow_stream` | pass | an archive, returned or written, is whole or an error; a log's snapshot is whole unless its connection was lost; a follow stops at its limit, its deadline, the end or a lost connection; neither timer, stream nor temporary file is left behind, also by an exception; a destination never holds a part of a download; a followed stream that can be closed ends by its deadline |
| `tool_gate` | pass | what reaches a daemon is allowed by every switch and marker, for named, defaulted and unknown hosts; a resolved label is one daemon by SDK, CLI and remote exec; instructions, catalogue, warnings and schema agree with what a call meets |
| `one_shot` | pass | a timed run never removes output it has not read; the caller learns of what is left behind, and `removed` is true; a lifecycle tool does not call a container missing that the daemon removed by itself; waits end |
| `wait_log_match` | violation | the log-match wait reports that a stopped container never wrote a line which it wrote between the poll's two reads |
| `swarm_services` | pass | no update is lost to a concurrent one, and a rollback restores the spec that the current one replaced; `met` is true of the instant it is said, unless something the poll had read was overtaken |
| `registry_http` | pass | a blip is absorbed and only a blip, in bounded requests and sleep; a list that does not say it was cut has every tag that was there throughout; a config is that of the image the tag named when it was looked up |
| `plugin_release` | pass | a version is published once whatever is re-run, late or lost; the branch only moves forward, on its true head; what is published was tested, is signed, and pins what PyPI holds |

Each property of a passing run has a mutant in `PROJECT.json`: a plausible bug of the code,
defined beside the definition it replaces, under which TLC finds the property violated.

Bounds. `remote_exec`: a limit of two ticks gives the watchdog a first and a last probe, a
one-tick TERM grace separates the two signals, and the local grace of two is larger than that as
in the code (10 s and 3 s). Two chunks against a cap of one and a window of one make truncation,
exact fit and back pressure happen; two settle polls exceed the one poll of lag; an overrun of
two ticks takes two reads past the deadline. `MCInit` only
drops environment choices that do not interact (a survivor is combined with a loaded host and a
command that dies of SIGTERM). `client_pool`: two threads give every pair of overlapping calls,
two labels a second host, and four clients two builds and two rebuilds. `dial_proxy`: two
connections, so that one is accepted while the other is torn down; data and half-closes on one
of them. `remote_staging`: two sessions of three slots, which is what `compose cp` uses
(tree, reserved path, download archive). `container_exec`: a cap of two bytes and chunks of one
or two are kept whole, fill the cap exactly, and pass it by one, with every combination of
`demux`, `stdout`, `stderr`, `tty`. `follow_stream`: a limit of three with chunks of one or two
items falls inside a chunk, at its end, or is not reached. `tool_gate`: two daemons, one local
and one over SSH; seventeen environments: no registry, one host, two hosts (of different
daemons, or of one), duplicate labels and a bad endpoint, each with and without the socket, and
the switches. Nine tools cover every branch on category,
domain, backend and host parameter.
`one_shot`: one line makes an output empty or written, before the exit or after a restart; two
starts make one restart. `swarm_services`: versions up to two are two updates one after the
other, or one and one refused; two slots make a rollout that is half done. Each plan pits one
wait, or two callers, against all that may overtake it. `registry_http`: three tags in pages of
one, with two pages allowed, make a list complete, cut by the pages and cut by the limit; two
changes by others suffice to delete a tag and add one, or to move a tag back; Retry-After is at
the threshold or past it. `plugin_release`: two runs, two versions, one re-run of each, one
revert, and a history limit of two commits, which a third commit passes.

Deadlock is checked for `client_pool` and `remote_exec`; everything else ends by design, and its
run says so. Each `MaxX` constant bounds a counter of the environment and is named in its
module.

Fairness. `ClientPool`: each thread's next step is weakly fair because docker-py bounds every
request; `threading.Lock` is not fair, so `CallsReturn` is only claimed once calls cease to
arrive. `DialStdioProxy`: the server's own threads run (weak fairness), the CLI, the far side
and the SSH handshake promise nothing, except that opening a channel on a closed transport
fails. So neither `sendall` is fair until its other end is closed or gone, and `TornDown` names
the two ways to wait for ever: a far side that stopped reading, which only `stop()` ends, and a
CLI that outlives the call and does not read. `RemoteStaging`: the call's own thread runs, and
on a lost connection whatever it does raises; the far host promises nothing, because neither the
SFTP calls (`_ssh_proxy.py:1449`, `:1509`, `:1579`, `:1732`, `:1882`, `:1995`) nor the opening
of a channel have a timeout, the connection has no keepalive, and a command may outstay its
deadline (section 6). `SessionsEnd` is claimed of a session that is not left waiting for
its host for ever. `ContainerExec` and `FollowStream`: both threads run, `join` and `Timer`
end by their timeouts, and API calls are answered or fail; the command and the daemon's stream
promise nothing. `OneShot`: a poll is answered (or raises) and time passes; nothing is asked of
the container. `ToolGate`, `SwarmServices`, `RegistryHttp` and `PluginRelease` check safety only
and state no fairness. `RemoteExec` uses no fairness: `DeadlineHonoured` bounds the
clock by the deadline and the reads that were made past it.

## 4. What is proved

TLAPS checks the following for every value of the constants: any number of threads, labels,
connections, sessions and tags, any caps, windows, limits and delays, any settings. It rests on
the assumptions the modules declare and no others, each of which the code meets:

* `ConstantsAssumption`, `PoolAssumption`, `BoundsAssumption`: timeouts, caps and limits are
  (positive) numbers; `None` is no thread; a staging session is not a slot number (a destination
  is not one of its own extraction paths).
* `SettingsAssumption` and `DaemonsAssumption` of `ToolGate`: the hosts of a setting are a
  sequence, their labels are strings, `None` names neither a domain nor a daemon.
* `NumbersAssumption` of `RegistryHttp`: tags are finitely many and numbered from 1; pages, page
  budget and limit are positive; the transient backoff is at most the longest Retry-After that
  is waited out (`registry.py:71`, `:79`: 0.5 s and 10 s).
* `SlotsAssumption`, `PlansAssumption` and `EditsAssumption` of `SwarmServices`: slots are finitely
  many; a service is replicated or global; a plan's edits are made by its callers, with the six
  tools, `service_scale` sets the replicas, force the template, and what is set is a field of
  the spec.
* `RequestsAssumption` and `NoneAssumption` of `OneShot`: what is asked is yes or no, and the
  absence of output is no number of lines.
* `JobsAssumption` and `RunsAssumption` of `PluginRelease`: a release has a positive version and
  comes from PyPI or a local build; the person who reverts is no run.

One theorem has a hypothesis of its own: `OutputIsKept` asks that output trails its exit status
by fewer polls than `_EXIT_SETTLE_POLLS`, which is what the settle polls are for.

* `RemoteExecProofs`: `TypeCorrect`, `KillsAreReported`, `TruncationAlwaysExact` and
  `KeepsPromise` (the refinement of `RemoteCommand`). `KillIsReported` is not inductive. The
  invariant `IInv` adds: the watchdog's own count never runs ahead of the clock
  (`WatchdogIsLate`), so marks and kills are late; nothing runs before it is launched and an
  uninterrupted shell outlives the command (`ScriptOrder`); the marker is on disk from before
  the first signal until `CheckMarker` finds it (`MarkedFirst`); and the status the caller sees
  is the one the shell exited with (`StatusIsEc`). Bounds of the types need the window
  (`Typed`). The refinement then takes each step to a step of `RemoteCommand` or a stutter
  (`PromiseStep`).

  `TimeoutsAreEarned`, `OutputIsKept` and `DeadlinesAreHonoured` are about the caller's clock and
  have an invariant of their own on top (`CallerInv`). On a prompt host a prompt command leaves
  something runnable until the caller is done, so no tick passes (`PromptIsTimeless`), and a
  timeout takes at least one. Past the deadline the caller no longer sleeps, and a tick meets it
  only on its way round from a pass that read something, of the command or of a child that
  survives it (`DeadlineBudget`): the overrun is bounded by those passes, not by anything the
  environment is assumed to do. While
  output trails the status, polls made and polls left to wait add up to the settle polls at
  least (`SettleCounts`).
* `ConnectionProofs`, of `ClientPool`: `PoolTypeCorrect`, `PoolStaysUsable`, `ClientsOwnedOnce`,
  `NoConnectionLeak`, `ReconnectKeepsClient`. The invariant adds that the lock belongs to
  whoever builds for the pool and that its slot is still empty (`LockWhileBuilding`), that only
  built clients are open, and that what a reconnect holds is open, its own and of the right
  label (`HandsAreSound`, `OwnedOnce`): a client has at any time one owner, the pool or one
  call.
* `ConnectionProofs`, of `DialStdioProxy`: `TypeCorrect`, `StopAlwaysSeesAll`,
  `HandlersLeaveNothingOpen`, `RepliesAlwaysReachClient`. The invariant says that the accept
  thread has at most one connection in hand and lists it before it starts its thread
  (`Handover`), what `stop()` knows once it waited for that thread (`Stopping`), which ends the
  relays close when they end (`Relays`), and that the replies sent are those delivered, in a
  relay's hand and unread, as long as the CLI keeps its side open and the call goes on
  (`Replies`).
* `RemoteStagingProofs`: `TypeCorrect`, `TransfersStayWhole`, `LeaksAreExplained`, and the action
  property `DestinationsStayFinal`. The invariant follows a session's directory from `mktemp` to
  the teardown (`Roots`) and what lies in it (`Stage`); two fetches in one extraction path at
  once are both noted (`RivalsNoted`), so that a fetch without a note was alone there and finds
  what it unpacked itself (`Unpacked`). Steps of one session leave the others' directories
  alone, and no extraction path is a destination (`NamesApart`).
* `ContainerProofs`, of `ContainerExec`: `TypeCorrect` (with it, no buffer passes `max_bytes`),
  `CutAlwaysEndsTheRead`, `RaisedErrorsAreReal`, `AbandonedReadersStop`, `TruncationStaysTrue`.
  The invariant adds that the streams which never deliver stay cut from the start (`Reading`),
  so an uncut one is one that delivers; and that an error is the connection's or was met after a
  timed-out call closed the stream (`ErrorsExplained`). For `TruncationStaysTrue`, `AnswerInv`
  keeps account of a stream that is not cut: what is buffered, in the reader's hand and pending
  is what was written (`Accounted`). Pending chunks are added up without recursion: `Flows` says
  that there are running totals that lead from one number to the other, and its lemmas append
  and take a chunk.
* `ContainerProofs`, of `OneShot`: `OutputAlwaysSurvives`, `EndsAreAccounted`. What the daemon,
  the tools and people do to a container is reduced to a relation between the container before
  and after (`Lives`: an exit is never taken back, nor what was written by then, and only
  `auto_remove` or a person makes it disappear), which what the call has found out survives
  (`CallUndisturbed`). `Reads` says that a timed call's container is there or was taken by a
  person, and that a stream read in time was read after the first exit; `Tells` what the call
  has named or noted as an error; `Cycles` that a lifecycle tool remembers whether the daemon
  may remove the container it acted on.
* `DaemonProofs`, of `FollowStream`: `TypeCorrect`, `AlwaysReturnsForAReason`,
  `LeavesNothingBehind`, `DestinationStaysWhole`. The invariant adds what each mode never
  touches (`ModeSteps`), that a chunk is used up before the next is taken and the limit stops the
  loop (`Loop`), that a closed stream was closed by the tool or its timer (`ClosedByUs`), that
  whoever left the loop has his reason on record (`LeftForAReason`), and that a partial file
  exists only while it is written (`Partial`).
* `DaemonProofs`, of `SwarmServices`: the action properties `NoUpdateIsLost` and
  `VerdictsStayTrue`. For the first, `SwarmInv` says that versions only grow and that a call
  whose version is still the daemon's holds the daemon's spec, or, for a rollback, the one that
  spec replaced (`Fetched`): what is then sent changes the field it means to and no other
  (`SentSpec`). For the second, `WaitInv` adds that what a poll has read is still so unless
  `moved` says otherwise (`Fresh`), and which step belongs to which wait (`Stepwise`). Others
  either leave alone what was read or mark it (`OthersMark`). Of a global service the nodes
  found current are among those wanted, and as many, so they are the same: that is where the
  slots must be finite.
* `ToolGateProofs`: `AllowedEffectsOnly`, `LabelsKeepTheirDaemon`, `SurfaceStaysTrue`, for any
  settings, labels and daemons. `OnlyAllowedEffects` speaks of a call that reached a daemon,
  so `GuardInv` carries the guard's verdict over the gap: the pinned registry agrees with the
  settings entry by entry (`RegistryIsPinned`), the registered and the guarded tools are those
  the switches leave (`ToolsAreThoseLeft`), and a call in its second step is permitted on its
  host (`CallPassedGuard`). That the guard's verdict, given in terms of the registry, means what
  the settings say is `GuardPermits`, with the case of one unrestricted host, where no guard is
  installed. `LabelsKeepTheirDaemon` adds that a pooled client talks to the daemon its entry was
  resolved to (`PoolIsPinned`), which needs labels to be unique. `SurfaceStaysTrue` adds that
  what `Register` told follows from settings and registry that no longer change
  (`SurfaceInv`), and that a registry of several hosts has no label that stands for a host left
  out (`LabelsAreNames`): the schema is pinned to the registry the guard reads.
* `RegistryHttpProofs`: `TypeCorrect`, `BlipsAreAbsorbed`, `TagsStayWhole`,
  `ConfigsAreTheImages`. `Policy` ties the retry counters to the failures met and to what they
  cost, stage by stage: requests of the stages before (`Before`), transient retries, and the one
  429 waited out. `Collected` says which tags the pages read so far were to hold (`Behind`: up
  to the cursor for a registry, of a rank below pages times page size for Docker Hub), and that
  every lasting one of them was collected. That a page holds what lies between two cursors is
  `PageHolds`, from lemmas on ranks in finite sets of numbers: a tag's rank behind the first `k`
  is its rank less `k` (`RankBehind`), ranks grow when a tag is pushed (`RankGrows`), and a page
  has a greatest tag (`GreatestElement`). `Resolved` is the digest that is carried along.
* `PluginReleaseProofs`: `VersionsPublishedOnce`, and the action properties
  `PublishesOnlyForward` and `PublishesOnlyTheTested`. PyPI keeps one file of a kind
  (`OneOfAKind`), so a version with both is settled (`PypiSettles`) and a CDN copy that has both
  is all there is (`ServedIsHeld`); `Build` carries that from the lock to the tested build. The
  branch never loses a commit (`BranchGrows`), so a head once read stays a prefix of it
  (`Publish`). A fast-forward goes from there to that head with one commit more, and what lies
  between the two is one of them (`OneStepAhead`): a branch that moves was the head that was
  read, whose whole history `Decide` looked at (`NewHead`, `CreatedIsNew`). The proof first
  failed, and TLC confirmed with a second re-run, because `Rerun` let a pass from the top keep
  the tested build of the pass before; the workflow does not, and the model now does as it.

Some of these theorems state invariants no run lists any more, because another property of its
run says as much or the theorem says more: the `TypeOK`s, `KillIsReported` (which
`ImplementsRemoteCommand` takes in), `NoClientLost` and `RaisedErrorIsReal`. Where there is no
theorem of types, record shapes are in the invariant (`Typed` of `PluginReleaseProofs`, `Shapes`
of `ContainerProofs`).

Model-checked only: liveness (`CallsReturn`, `TornDown`, `SessionsEnd`, `CallEnds`,
`EndsByDeadline`, `WaitsEnd`), which is out of the prover's reach, as is ENABLED. Every invariant
and action property of a passing run has a theorem. `StoppedWithoutMatch` is false, and its
run shows it.

## 5. Plan

Modelling has come to the end of what the code offers (section 6), and every safety property is
proved. What may be added is proof of more: that abandoned work ends within a bound, stated like
`DeadlineHonoured` as an invariant on a clock, where a liveness property is now checked by TLC.

## 6. What is not modelled, and what the code does not promise

Not modelled: argument building, flag-injection checks and output parsing of the CLI tools
(`compose.py`, `buildx.py`, `scout.py`: pure string functions with table tests); SDK tools that
are one daemon call and the shaping of its answer (images, networks, volumes, plugins, configs,
secrets); prompts and resources; the translation of exceptions; `mcpb_run.py`;
`assert_host_writable`, a test on the mount table; the compose wait, one `docker compose ps` per
poll; the dialect cache beyond the one answer a session gets; TLS and URL syntax; size limits,
tar members and the rewriting of path tokens.

Where the code and its own comments part, seen while modelling. The first is a run; the others
are left out of the properties, as said with each.

* `wait_log_match`: `containers.py:1353` reads the log before `:1358` reads the status (comment
  at `:1361`, docstring `system.py:908-909`).
* `_drain_exec_channel` looks at its deadline only in a pass that read nothing
  (`_ssh_proxy.py:1086` before `:1105`), so the command, when its watchdog is late, or a child
  that survives it holds the call past it by writing on; the docstring at `:1065` has it raise
  when the deadline passes. `DeadlineHonoured` is what the code does keep: the overrun is no
  longer than the reads made in it.
* `compose_down` (`compose.py:203`) and its siblings that stop, kill and restart
  a project do not ask `guard_not_self`, though `MCP_VS_SKILLS.md:604-607` has the server refuse
  to act on its own container. Two labels for one daemon are another way: the container tools
  guard it under the self host's label only (`system.py:130`). `ToolGate` lets both
  happen, and no property says otherwise: what the guard refuses is the one step that asks it.
* A client is used after another thread closed it (`system.py:402`, then `:1013` or `:1048`),
  which the comment at `:43-46` gives as what the lock is for. No property of `ClientPool` says
  otherwise.
* Two directory fetches into one local parent share `fetch<n>` (`_ssh_proxy.py:1425`, checked at
  `:1711`, used at `:1742`), and one may deliver a merge; the docstring at `:1696-1700` says it
  is refused upfront. `TransfersAreWhole` excludes overlapping fetches.
* `_make_stage_root` may leave a directory nobody knows of when the answer of `mktemp` is lost
  (`:1994`), though the comment at `:593-594` names a dropped transport as the only cause.
  `LeakIsExplained` counts it as a third one.
* `stream_to_file` checks the destination before the download and replaces it after
  (`_utils.py:360`, `:381`): a file made in between is clobbered without `overwrite`. A refusal
  at `:359-370`, before the `try`, leaves the caller's stream open; `NothingLeftBehind` excludes
  it.
* `container_pause` and `container_unpause` reload with no allowance for a container removed
  meanwhile (`containers.py:618`), unlike their siblings with `_reread`. `EndIsAccounted` names
  the four that have it.
* `removed: false` "tells the caller it is still there" (`containers.py:327`), which is not so
  when only the removal's answer was lost. `EndIsAccounted` claims the converse alone.
* A stack counts tasks of a global service that are still said to run on a node that went down
  (`stack.py:349`), where a service wait leaves them out; `VerdictIsTrue` allows it.
* `publish` says "was not moved" of a move whose answer was lost
  (`claude_plugin_release.py:1377-1379`); the re-run finds out and does nothing, as
  `PublishedOnce` shows.
* A host whose endpoint could not be resolved when the registry was loaded (URL None) follows
  the CLI's context, in the CLI alone; with no registry, so does the default label at every
  rebuild. `OneDaemonPerLabel` is about resolved hosts.
* A lost connection may be the end of a log to docker-py's stream, so a snapshot can be short with
  nothing to tell it by (`containers.py:686`). `ReturnsForAReason` allows it of logs and follows.
* `service_update` sends the fields it was given and the daemon resets the others, so what another
  caller set in one of them is gone. `NoLostUpdate` claims that the other fields stay of the tools
  that merge, which `service_update` is not.
* A stack's or a service's poll reads several things one after the other (`stack.py:332`), and
  its verdict may mix instants. `VerdictIsTrue` is about polls that nothing overtook.
* The sleep bound of `BlipIsAbsorbed` is one for each stage of a call: the retry counters start
  again with every request of the tool.
* Overlapping dialect probes store their verdicts in the order they end (`_ssh_proxy.py:1011`),
  and the remote `kill -9` after the grace (`:779`) may meet a pid that was given to someone
  else; the code promises nothing about either.
