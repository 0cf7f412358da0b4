----------------------------- MODULE RemoteStaging -----------------------------
(***************************************************************************)
(* remote_staging_session and RemoteStagingSession                         *)
(* (docker_mcp/tools/_ssh_proxy.py) with the tools that drive one          *)
(* (remote_stage_and_exec, _remote_compose_cp): a private directory on the *)
(* far host, staged slots, one docker command, a result fetched back, and  *)
(* the teardown.  Sessions of concurrent tool calls share nothing remotely; *)
(* locally their fetches may go to one directory.                          *)
(***************************************************************************)
EXTENDS Integers, FiniteSets

CONSTANTS
  Sessions,  \* concurrent tool calls
  MaxSlots   \* bound: numbered paths one session uses

ASSUME ConstantsAssumption == MaxSlots \in Nat /\ Sessions \cap Nat = {}

Slots == 1 .. MaxSlots

VARIABLES
  pc,         \* where each call is
  link,       \* its SSH connection
  roots,      \* sessions whose staging directory exists on the far host
  known,      \* the call learnt its directory's name: `root is not None`
  unnamed,    \* mktemp made the directory and the call did not learn its name
  warned,     \* _remove_stage_root logged a failure
  slots,      \* _slots
  staged,     \* slots to be complete before the command runs
  full,       \* slots completely there
  tars,       \* slots with an archive beside them
  scratch,    \* the slot reserve_path returned, or 0
  cmd,        \* the docker command on the far host
  outcome,    \* of the body of the `with`; a copy whose command fails has failed
  local,      \* the calls' common local directory: name -> parts of results
  overlapped  \* another fetch used this one's extraction path meanwhile

sessionVars == <<link, roots, known, unnamed, warned>>
slotVars    == <<slots, staged, full, tars, scratch>>
vars == <<pc, sessionVars, slotVars, cmd, outcome, local, overlapped>>

\* A result is unpacked in two parts, so that a fetch can be interrupted.
Whole(s) == {<<s, 1>>, <<s, 2>>}
\* Local names: fetch<n> for each slot, and each call's own destination.
Names == Slots \cup Sessions

Places == {"idle", "connected", "probed", "rooted", "ready", "upload", "extract",
           "unarchive", "running", "fetch", "pack", "unpack", "half", "droptar",
           "rename", "remove", "close", "done"}

TypeOK ==
  /\ pc \in [Sessions -> Places]
  /\ link \in [Sessions -> {"none", "up", "dropped", "closed"}]
  /\ roots \subseteq Sessions
  /\ known \in [Sessions -> BOOLEAN] /\ unnamed \in [Sessions -> BOOLEAN]
  /\ warned \in [Sessions -> BOOLEAN]
  /\ slots \in [Sessions -> 0 .. MaxSlots] /\ scratch \in [Sessions -> 0 .. MaxSlots]
  /\ staged \in [Sessions -> SUBSET Slots] /\ full \in [Sessions -> SUBSET Slots]
  /\ tars \in [Sessions -> SUBSET Slots]
  /\ cmd \in [Sessions -> {"none", "alive", "ended"}]
  /\ outcome \in [Sessions -> {"none", "ok", "failed"}]
  /\ local \in [Names -> SUBSET (Sessions \X {1, 2})]
  /\ overlapped \in [Sessions -> BOOLEAN]

Init ==
  /\ pc = [s \in Sessions |-> "idle"] /\ link = [s \in Sessions |-> "none"]
  /\ roots = {} /\ known = [s \in Sessions |-> FALSE]
  /\ unnamed = [s \in Sessions |-> FALSE] /\ warned = [s \in Sessions |-> FALSE]
  /\ slots = [s \in Sessions |-> 0] /\ scratch = [s \in Sessions |-> 0]
  /\ staged = [s \in Sessions |-> {}] /\ full = [s \in Sessions |-> {}]
  /\ tars = [s \in Sessions |-> {}]
  /\ cmd = [s \in Sessions |-> "none"] /\ outcome = [s \in Sessions |-> "none"]
  /\ local = [n \in Names |-> {}] /\ overlapped = [s \in Sessions |-> FALSE]

Moves(s, from, to) == pc[s] = from /\ pc' = [pc EXCEPT ![s] = to]
\* A step of the far host: it can only succeed over a live connection.
RemoteMoves(s, from, to) == link[s] = "up" /\ Moves(s, from, to)
Set(f, s, v) == [f EXCEPT ![s] = v]
Add(f, s, n) == [f EXCEPT ![s] = @ \cup {n}]

------------------------------------------------------------------------------
(* Opening: connect, detect the dialect, mktemp -d, SFTP, the stat check.  *)

Connects(s) ==
  /\ Moves(s, "idle", "connected")
  /\ link' = Set(link, s, "up")
  /\ UNCHANGED <<roots, known, unnamed, warned, slotVars, cmd, outcome, local,
                 overlapped>>

\* Refused before anything is opened (no such directory, not an ssh:// host, an
\* input that cannot be forwarded), or the connection fails.
Refuses(s) ==
  /\ Moves(s, "idle", "done")
  /\ outcome' = Set(outcome, s, "failed")
  /\ UNCHANGED <<sessionVars, slotVars, cmd, local, overlapped>>

DetectsDialect(s) ==
  /\ RemoteMoves(s, "connected", "probed")
  /\ UNCHANGED <<sessionVars, slotVars, cmd, outcome, local, overlapped>>

MakesRoot(s) ==
  /\ RemoteMoves(s, "probed", "rooted")
  /\ roots' = roots \cup {s} /\ known' = Set(known, s, TRUE)
  /\ UNCHANGED <<link, unnamed, warned, slotVars, cmd, outcome, local, overlapped>>

\* mktemp made it, and then the call timed out or its stdout was not one line:
\* _make_stage_root raises before `root` is assigned.
RootUnnamed(s) ==
  /\ RemoteMoves(s, "probed", "remove")
  /\ roots' = roots \cup {s} /\ unnamed' = Set(unnamed, s, TRUE)
  /\ outcome' = Set(outcome, s, "failed")
  /\ UNCHANGED <<link, known, warned, slotVars, cmd, local, overlapped>>

OpensSftp(s) ==
  /\ RemoteMoves(s, "rooted", "ready")
  /\ UNCHANGED <<sessionVars, slotVars, cmd, outcome, local, overlapped>>

------------------------------------------------------------------------------
(* Staging: stage_tree and stage_build_context, stage_file, reserve_path.  *)

NewSlot(s) == slots[s] < MaxSlots /\ slots' = [slots EXCEPT ![s] = @ + 1]

StagesTree(s) ==
  /\ RemoteMoves(s, "ready", "upload")
  /\ scratch[s] = 0 /\ NewSlot(s) /\ staged' = Add(staged, s, slots[s] + 1)
  /\ UNCHANGED <<sessionVars, full, tars, scratch, cmd, outcome, local, overlapped>>

StagesFile(s) ==
  /\ RemoteMoves(s, "ready", "ready")
  /\ scratch[s] = 0 /\ NewSlot(s) /\ staged' = Add(staged, s, slots[s] + 1)
  /\ full' = Add(full, s, slots[s] + 1)
  /\ UNCHANGED <<sessionVars, tars, scratch, cmd, outcome, local, overlapped>>

\* _reconcile_path_tokens: what a path names outside the staged tree, or with
\* none, is staged on its own.
StagesPath(s) == StagesTree(s) \/ StagesFile(s)

Uploads(s) ==
  /\ RemoteMoves(s, "upload", "extract")
  /\ tars' = Add(tars, s, slots[s])
  /\ UNCHANGED <<sessionVars, slots, staged, full, scratch, cmd, outcome, local,
                 overlapped>>

Extracts(s) ==
  /\ RemoteMoves(s, "extract", "unarchive")
  /\ full' = Add(full, s, slots[s])
  /\ UNCHANGED <<sessionVars, slots, staged, tars, scratch, cmd, outcome, local,
                 overlapped>>

\* Mutant: the archive is left for the teardown to collect.
LeavesArchive(s) ==
  /\ RemoteMoves(s, "unarchive", "ready")
  /\ UNCHANGED <<sessionVars, slotVars, cmd, outcome, local, overlapped>>

RemovesArchive(s) ==
  /\ RemoteMoves(s, "unarchive", "ready")
  /\ tars' = [tars EXCEPT ![s] = @ \ {slots[s]}]
  /\ UNCHANGED <<sessionVars, slots, staged, full, scratch, cmd, outcome, local,
                 overlapped>>

\* compose cp out of a container, after its one staged tree.
Reserves(s) ==
  /\ Moves(s, "ready", "ready")
  /\ scratch[s] = 0 /\ staged[s] # {} /\ NewSlot(s)
  /\ scratch' = Set(scratch, s, slots[s] + 1)
  /\ UNCHANGED <<sessionVars, staged, full, tars, cmd, outcome, local, overlapped>>

------------------------------------------------------------------------------
(* The command, whose own life RemoteExec models.                          *)

Runs(s) ==
  /\ RemoteMoves(s, "ready", "running")
  /\ cmd' = Set(cmd, s, "alive")
  /\ UNCHANGED <<sessionVars, slotVars, outcome, local, overlapped>>

CommandEnds(s) ==
  /\ cmd[s] = "alive"
  /\ cmd' = Set(cmd, s, "ended")
  /\ UNCHANGED <<pc, sessionVars, slotVars, outcome, local, overlapped>>

\* A result with any exit status is the body's result; a zero one is fetched if
\* a path was reserved for it.
RunReturns(s) ==
  /\ cmd[s] = "ended" /\ RemoteMoves(s, "running", "remove")
  /\ outcome' = Set(outcome, s, IF scratch[s] = 0 THEN "ok" ELSE "failed")
  /\ UNCHANGED <<sessionVars, slotVars, cmd, local, overlapped>>

RunReturnsToFetch(s) ==
  /\ cmd[s] = "ended" /\ scratch[s] > 0 /\ RemoteMoves(s, "running", "fetch")
  /\ UNCHANGED <<sessionVars, slotVars, cmd, outcome, local, overlapped>>

------------------------------------------------------------------------------
(* fetch_path.                                                             *)

Ends(s, o) == outcome' = Set(outcome, s, o)

\* Mutant: the file is written in place instead of to a sibling first.
FetchesFileInPlace(s) ==
  /\ RemoteMoves(s, "fetch", "fetch")
  /\ local[s] = {} /\ local' = Add(local, s, <<s, 1>>)
  /\ UNCHANGED <<sessionVars, slotVars, cmd, outcome, overlapped>>

FetchesFile(s) ==
  /\ RemoteMoves(s, "fetch", "remove")
  /\ local[s] = {} /\ local' = Set(local, s, Whole(s))
  /\ Ends(s, "ok")
  /\ UNCHANGED <<sessionVars, slotVars, cmd, overlapped>>

InWindow(u) == pc[u] \in {"pack", "unpack", "half", "droptar", "rename"}
Rivals(s) == {u \in Sessions \ {s} : InWindow(u) /\ scratch[u] = scratch[s]}

\* _fetch_directory: the extraction path must not exist yet.
ExtractionPathFree(s) == local[scratch[s]] = {}

FetchesDirectory(s) ==
  /\ RemoteMoves(s, "fetch", "pack")
  /\ local[s] = {} /\ ExtractionPathFree(s)
  /\ NewSlot(s)
  /\ overlapped' = [u \in Sessions |->
       overlapped[u] \/ u \in Rivals(s) \/ (u = s /\ Rivals(s) # {})]
  /\ UNCHANGED <<sessionVars, staged, full, tars, scratch, cmd, outcome, local>>

Packs(s) ==
  /\ RemoteMoves(s, "pack", "unpack")
  /\ tars' = Add(tars, s, slots[s])
  /\ UNCHANGED <<sessionVars, slots, staged, full, scratch, cmd, outcome, local,
                 overlapped>>

\* extractall: local work once the archive is downloaded, a part at a time.
UnpacksSome(s) ==
  /\ RemoteMoves(s, "unpack", "half")
  /\ local' = Add(local, scratch[s], <<s, 1>>)
  /\ UNCHANGED <<sessionVars, slotVars, cmd, outcome, overlapped>>

UnpacksRest(s) ==
  /\ Moves(s, "half", "droptar")
  /\ local' = Add(local, scratch[s], <<s, 2>>)
  /\ UNCHANGED <<sessionVars, slotVars, cmd, outcome, overlapped>>

\* The `finally`, then the rename, which an exception on its way out skips.
RemovesDownload(s) ==
  /\ RemoteMoves(s, "droptar", IF outcome[s] = "failed" THEN "remove" ELSE "rename")
  /\ tars' = [tars EXCEPT ![s] = @ \ {slots[s]}]
  /\ UNCHANGED <<sessionVars, slots, staged, full, scratch, cmd, outcome, local,
                 overlapped>>

Renames(s) ==
  /\ Moves(s, "rename", "remove")
  /\ local[scratch[s]] # {} /\ local[s] = {}
  /\ local' = [local EXCEPT ![s] = local[scratch[s]], ![scratch[s]] = {}]
  /\ Ends(s, "ok")
  /\ UNCHANGED <<sessionVars, slotVars, cmd, overlapped>>

------------------------------------------------------------------------------
(* Failure and teardown.                                                   *)

\* Any step may raise: a refusal, a non-zero exit, a timeout, a lost connection.
Fails(s) ==
  /\ \/ /\ pc[s] \in {"connected", "probed", "rooted", "ready", "upload", "extract",
                      "unarchive", "running", "fetch", "pack", "droptar", "rename"}
        /\ pc' = Set(pc, s, "remove")
     \/ /\ pc[s] \in {"unpack", "half"}
        /\ pc' = Set(pc, s, "droptar")
  /\ Ends(s, "failed")
  /\ UNCHANGED <<sessionVars, slotVars, cmd, local, overlapped>>

LinkDrops(s) ==
  /\ link[s] = "up"
  /\ link' = Set(link, s, "dropped")
  /\ UNCHANGED <<pc, roots, known, unnamed, warned, slotVars, cmd, outcome, local,
                 overlapped>>

\* _remove_stage_root never raises.
RemovesRoot(s) ==
  /\ known[s] /\ RemoteMoves(s, "remove", "close")
  /\ roots' = roots \ {s}
  /\ UNCHANGED <<link, known, unnamed, warned, slotVars, cmd, outcome, local,
                 overlapped>>

\* Mutant: a failed rm is swallowed.
RemoveFailsSilently(s) ==
  /\ known[s] /\ Moves(s, "remove", "close")
  /\ UNCHANGED <<sessionVars, slotVars, cmd, outcome, local, overlapped>>

RemoveFails(s) ==
  /\ known[s] /\ Moves(s, "remove", "close")
  /\ warned' = Set(warned, s, TRUE)
  /\ UNCHANGED <<link, roots, known, unnamed, slotVars, cmd, outcome, local,
                 overlapped>>

NothingToRemove(s) ==
  /\ ~known[s] /\ Moves(s, "remove", "close")
  /\ UNCHANGED <<sessionVars, slotVars, cmd, outcome, local, overlapped>>

\* Mutant: the connection is left to the garbage collector.
ClosesNothing(s) ==
  /\ Moves(s, "close", "done")
  /\ UNCHANGED <<sessionVars, slotVars, cmd, outcome, local, overlapped>>

Closes(s) ==
  /\ Moves(s, "close", "done")
  /\ link' = [link EXCEPT ![s] = IF @ = "up" THEN "closed" ELSE @]
  /\ UNCHANGED <<roots, known, unnamed, warned, slotVars, cmd, outcome, local,
                 overlapped>>

------------------------------------------------------------------------------

Opening(s) ==
  \/ DetectsDialect(s) \/ MakesRoot(s) \/ RootUnnamed(s) \/ OpensSftp(s)
Staging(s) ==
  \/ StagesPath(s) \/ Uploads(s) \/ Extracts(s)
  \/ RemovesArchive(s) \/ Reserves(s)
Fetching(s) ==
  \/ FetchesFile(s) \/ FetchesDirectory(s) \/ Packs(s) \/ UnpacksSome(s)
  \/ UnpacksRest(s) \/ RemovesDownload(s) \/ Renames(s)
Closing(s) == RemovesRoot(s) \/ RemoveFails(s) \/ NothingToRemove(s) \/ Closes(s)

Next ==
  \E s \in Sessions :
    \/ Connects(s) \/ Refuses(s) \/ Opening(s) \/ Staging(s)
    \/ Runs(s) \/ CommandEnds(s) \/ RunReturns(s) \/ RunReturnsToFetch(s)
    \/ Fetching(s) \/ Fails(s) \/ LinkDrops(s) \/ Closing(s)

Spec == Init /\ [][Next]_vars

\* The call waits for an answer of the far host.  Neither an SFTP call nor the
\* opening of a channel for a command has a timeout, the connection has no
\* keepalive, and a docker command that writes on outstays its deadline
\* (RemoteExec): the host promises nothing.
AwaitsHost(s) ==
  link[s] = "up" /\ pc[s] \in Places \ {"idle", "half", "rename", "close", "done"}

\* The call's own thread runs where it does not wait for the host; on a
\* connection that is lost whatever it does raises.
FairSpec ==
  Spec /\ \A s \in Sessions :
    WF_vars(~AwaitsHost(s) /\ (Fetching(s) \/ Fails(s) \/ Closing(s)))

------------------------------------------------------------------------------
(* Properties.                                                             *)

\* While the caller waits for the docker command, everything staged for it is
\* whole, no archive lies beside it to be picked up by a glob or a build
\* context, and the directory is still there; and a fetch whose extraction path
\* no other fetch used meanwhile delivers exactly the remote result, even next to
\* the remains of earlier failed fetches.
TransfersAreWhole ==
  \A s \in Sessions :
    /\ pc[s] = "running" => s \in roots /\ full[s] = staged[s] /\ tars[s] = {}
    /\ outcome[s] = "ok" /\ scratch[s] > 0 /\ ~overlapped[s] => local[s] = Whole(s)

\* A directory is left on the far host only if the connection dropped, the
\* operator was warned, or mktemp's answer was lost.
LeakIsExplained ==
  \A s \in Sessions :
    pc[s] = "done" /\ s \in roots => link[s] = "dropped" \/ warned[s] \/ unnamed[s]

\* What a call has put at its destination is never touched again, and nothing
\* appears there unless the call succeeded.
DestinationIsFinal ==
  [][\A s \in Sessions :
       local'[s] # local[s] => local[s] = {} /\ outcome[s] = "none" /\ outcome'[s] = "ok"]_vars

\* A session ends, with its connection closed or lost, unless its host lets it
\* wait for ever: a connection lost at any step, a refusal or an error on the way
\* leads through the whole of the teardown.
SessionsEnd ==
  \A s \in Sessions :
    []<>~AwaitsHost(s) => (pc[s] # "idle" ~> pc[s] = "done" /\ link[s] # "up")
==============================================================================
