--------------------------- MODULE PluginRelease ---------------------------
(***************************************************************************)
(* scripts/claude_plugin_release.py: the jobs that take one release from   *)
(* PyPI to the branch the plugin directory follows.  A run waits for PyPI, *)
(* builds and locks the plugin folder, smoke-tests it, reads the branch,   *)
(* decides, makes a commit and moves the branch by fast-forward.           *)
(*                                                                         *)
(* Several runs work at once and may be re-run.  A read of PyPI may be     *)
(* served by a CDN copy of any age, and a read of the branch may return    *)
(* any head it has had; a request may fail, and a write may succeed with   *)
(* its answer lost.  A person may revert the head of the branch.           *)
(*                                                                         *)
(* A commit stands for its whole line of history: the sequence of what it  *)
(* and its ancestors hold, oldest first.                                   *)
(***************************************************************************)
EXTENDS Naturals, Sequences, SequencesExt, FiniteSets

CONSTANTS Runs,         \* the workflow's runs
          Jobs,         \* what a run may be asked to publish: records of
                        \* a version, a source ("pypi", "local") and dry
          Locks,        \* how the same release may lock its dependencies
          GetAttempts,  \* HTTP_GET_ATTEMPTS
          MaxHistory,   \* MAX_HISTORY_COMMITS
          MaxReruns,    \* bound: re-runs of one run
          MaxReverts    \* bound: reverts by a person

ASSUME JobsAssumption ==
    \A j \in Jobs : j.version \in Nat \ {0} /\ j.source \in {"pypi", "local"} /\ j.dry \in BOOLEAN
ASSUME RunsAssumption == "person" \notin Runs
ASSUME BoundsAssumption ==
    GetAttempts \in Nat \ {0} /\ MaxHistory \in Nat /\ MaxReruns \in Nat /\ MaxReverts \in Nat

VARIABLES job,       \* each run's arguments
          pypi,      \* per version, the files PyPI holds, in upload order
          pc,        \* each run's phase
          attempt,   \* http: the attempt under way
          mine,      \* the run uploaded the release, so --expect-dist is given
          hashes,    \* pypi_release_files: what PyPI was seen to serve
          built,     \* the tree of the build record
          tested,    \* the tree the smoke jobs passed
          head,      \* publish: the branch head that was read
          made,      \* publish: the commit GitHub created
          branch,    \* the release branch: << >> while absent
          reruns

vars == <<job, pypi, pc, attempt, mine, hashes, built, tested, head, made, branch, reruns>>
local == <<attempt, mine, hashes, built, tested, head, made>>

----------------------------------------------------------------------------
(* PyPI: a release is complete once it has a wheel and an sdist.           *)

Kinds == {"wheel", "sdist"}
Versions == {j.version : j \in Jobs}
Dist(r) == {[kind |-> k, by |-> r, try |-> reruns[r]] : k \in Kinds}
Complete(files) == {f.kind : f \in files} = Kinds
Served(v) == {ToSet(SubSeq(pypi[v], 1, n)) : n \in 0..Len(pypi[v])}

Version(r) == job[r].version
JsonApi(r) == Served(Version(r))
UvResolves(r) == Served(Version(r)) \ {{}}
Expected(seen, r) == mine[r] => seen = Dist(r)

(* The branch.                                                             *)

NoTree == [version |-> 0, files |-> {}, lock |-> 0]
HeadTree(line) == Last(line).tree
HeldBy(line) == {line[i].tree.version : i \in DOMAIN line} \ {0}

\* Mutant: the versions the branch held before its head are not looked at.
DecideByHead(v, line) ==
    IF line = << >> THEN "create"
    ELSE IF HeadTree(line).version = v THEN "noop"
    ELSE IF v < HeadTree(line).version THEN "refuse"
    ELSE "create"
Decide(v, line) ==
    IF line = << >> THEN "create"
    ELSE IF HeadTree(line).version = v THEN "noop"
    ELSE IF v \in HeldBy(line) \/ v < HeadTree(line).version THEN "refuse"
    ELSE "create"

----------------------------------------------------------------------------
(* A request of a phase: a GET is tried again, a write never is.           *)

Method == [files |-> "GET", read |-> "GET", create |-> "POST", verify |-> "GET", move |-> "PATCH"]
Attempts(method) == IF method = "GET" THEN GetAttempts ELSE 1

Ended == {"noop", "refused", "failed", "notmoved", "done"}

Init ==
    /\ job \in [Runs -> Jobs]
    /\ pypi = [v \in Versions |-> << >>]
    /\ pc = [r \in Runs |-> IF job[r].source = "local" THEN "lock" ELSE "start"]
    /\ attempt = [r \in Runs |-> 1]
    /\ mine = [r \in Runs |-> FALSE]
    /\ hashes = [r \in Runs |-> {}]
    /\ built = [r \in Runs |-> NoTree]
    /\ tested = [r \in Runs |-> NoTree]
    /\ head = [r \in Runs |-> << >>]
    /\ made = [r \in Runs |-> [line |-> << >>, verified |-> FALSE]]
    /\ branch = << >>
    /\ reruns = [r \in Runs |-> 0]

Goto(r, phase) == pc' = [pc EXCEPT ![r] = phase]

(* The workflow's pypi job: it asks whether PyPI lists the release, then   *)
(* uploads the files PyPI does not have (skip-existing).                   *)
CheckExisting(r) ==
    /\ pc[r] = "start"
    /\ \E seen \in Served(Version(r)) : mine' = [mine EXCEPT ![r] = (seen = {})]
    /\ Goto(r, "upload")
    /\ UNCHANGED <<job, pypi, attempt, hashes, built, tested, head, made, branch, reruns>>

Upload(r) ==
    LET held == {f.kind : f \in ToSet(pypi[Version(r)])}
    IN /\ pc[r] = "upload"
       /\ \/ \E k \in Kinds \ held :
                /\ k = "sdist" => "wheel" \in held
                /\ pypi' = [pypi EXCEPT ![Version(r)] = Append(@, [kind |-> k, by |-> r, try |-> reruns[r]])]
                /\ UNCHANGED pc
          \/ /\ Goto(r, IF held = Kinds THEN "wait" ELSE "failed")
             /\ UNCHANGED pypi
       /\ UNCHANGED <<job, local, branch, reruns>>

\* wait_for_pypi: an attempt sees the release complete on the JSON API, uv
\* resolves it, and its files are the ones this run uploaded.
WaitPypi(r) ==
    /\ pc[r] = "wait"
    /\ \E seen \in JsonApi(r) :
          /\ Complete(seen)
          /\ IF Expected(seen, r) THEN UvResolves(r) # {} /\ Goto(r, "files") ELSE Goto(r, "failed")
    /\ UNCHANGED <<job, pypi, local, branch, reruns>>

\* The deadline passes with a stale copy, an incomplete release or no answer.
WaitTimesOut(r) ==
    /\ pc[r] = "wait"
    /\ Goto(r, "failed")
    /\ UNCHANGED <<job, pypi, local, branch, reruns>>

\* pypi_release_files: PyPI's list, its files and, when given, the dist agree.
ReleaseFiles(r) ==
    /\ pc[r] = "files"
    /\ \E seen \in JsonApi(r) :
          IF Complete(seen) /\ Expected(seen, r)
          THEN hashes' = [hashes EXCEPT ![r] = seen] /\ Goto(r, "lock")
          ELSE UNCHANGED hashes /\ Goto(r, "failed")
    /\ attempt' = [attempt EXCEPT ![r] = 1]
    /\ UNCHANGED <<job, pypi, mine, built, tested, head, made, branch, reruns>>

\* uv lock resolves the release from its own copy of the index; check_lock
\* compares the files it pinned with the hashes PyPI serves.
\* Mutant: any entry for the server passes.
LockFound(r, locked) == job[r].source = "local" \/ locked # {}
LockChecks(r, locked) == job[r].source = "local" \/ locked = hashes[r]

Lock(r) ==
    /\ pc[r] = "lock"
    /\ \E lock \in Locks,
          locked \in IF job[r].source = "local" THEN {{}} ELSE UvResolves(r) :
          IF LockChecks(r, locked)
          THEN /\ built' = [built EXCEPT ![r] =
                              [version |-> Version(r), files |-> locked, lock |-> lock]]
               /\ Goto(r, "smoke")
          ELSE UNCHANGED built /\ Goto(r, "failed")
    /\ UNCHANGED <<job, pypi, attempt, mine, hashes, tested, head, made, branch, reruns>>

\* mcp_session: how many tools a server that was started lists, 0 if it does
\* not answer; a server with a setting lists fewer.
McpSession == 0 .. 2

\* smoke: PyPI is waited for again, the two installs register the same tools,
\* and with the read-only or the domain setting there are fewer.
Smoke(r) ==
    /\ pc[r] = "smoke"
    /\ \E seen \in JsonApi(r), locked, manifest, fewer \in McpSession :
          IF /\ job[r].source = "local" \/ (Complete(seen) /\ UvResolves(r) # {})
             /\ locked = manifest /\ fewer \in 1 .. (locked - 1)
          THEN tested' = [tested EXCEPT ![r] = built[r]] /\ Goto(r, "read")
          ELSE UNCHANGED tested /\ Goto(r, "failed")
    /\ UNCHANGED <<job, pypi, attempt, mine, hashes, built, head, made, branch, reruns>>

\* GitHub.commit: what the created commit is, against what was asked for.
CommitIsRight(r) ==
    /\ made[r].verified
    /\ Front(made[r].line) = head[r]
    /\ HeadTree(made[r].line) = built[r]

\* publish refuses a local build unless it is a rehearsal, then reads the
\* head, which may be stale, and the versions its whole history declares.
Publishable(r) == job[r].source = "local" => job[r].dry

Ref == {SubSeq(branch, 1, n) : n \in 0..Len(branch)}
HistoryIsRead(line) == Len(line) <= MaxHistory

ReadState(r) ==
    /\ pc[r] = "read"
    /\ \E line \in Ref :
          IF Publishable(r) /\ HistoryIsRead(line)
          THEN head' = [head EXCEPT ![r] = line] /\ Goto(r, "decide")
          ELSE UNCHANGED head /\ Goto(r, "failed")
    /\ attempt' = [attempt EXCEPT ![r] = 1]
    /\ UNCHANGED <<job, pypi, mine, hashes, built, tested, made, branch, reruns>>

DecideWhat(r) ==
    LET action == Decide(Version(r), head[r])
    IN /\ pc[r] = "decide"
       /\ Goto(r, IF action = "create" /\ ~job[r].dry THEN "create"
                  ELSE IF action = "refuse" /\ ~job[r].dry THEN "refused" ELSE "noop")
       /\ UNCHANGED <<job, pypi, local, branch, reruns>>

\* The blobs, the tree and the commit on the head that was read.  GitHub may
\* leave the commit unsigned, or answer with a tree other than the folder's.
CreateCommit(r) ==
    /\ pc[r] = "create"
    /\ \E tree \in {built[r], NoTree}, verified \in BOOLEAN :
          made' = [made EXCEPT ![r] =
                     [line |-> Append(head[r], [tree |-> tree, by |-> r, try |-> reruns[r]]),
                      verified |-> verified]]
    /\ Goto(r, "verify")
    /\ UNCHANGED <<job, pypi, attempt, mine, hashes, built, tested, head, branch, reruns>>

VerifyCommit(r) ==
    /\ pc[r] = "verify"
    /\ Goto(r, IF CommitIsRight(r) THEN "move" ELSE "failed")
    /\ attempt' = [attempt EXCEPT ![r] = 1]
    /\ UNCHANGED <<job, pypi, mine, hashes, built, tested, head, made, branch, reruns>>

\* GitHub's answer to the move: a new ref must not exist, and an old one
\* moves by fast-forward, since "force" is false.
\* Mutant: the branch is moved by force.
ForcedMove(r) == TRUE
Movable(r) ==
    IF head[r] = << >> THEN branch = << >> ELSE branch # << >> /\ IsPrefix(branch, made[r].line)

MoveBranch(r) ==
    /\ pc[r] = "move"
    /\ IF Movable(r)
       THEN branch' = made[r].line /\ Goto(r, "done")
       ELSE UNCHANGED branch /\ Goto(r, "notmoved")
    /\ UNCHANGED <<job, pypi, local, reruns>>

\* The move happens and its answer is lost: http raises and never retries.
MoveUnanswered(r) ==
    /\ pc[r] = "move"
    /\ Movable(r)
    /\ branch' = made[r].line
    /\ Goto(r, "notmoved")
    /\ UNCHANGED <<job, pypi, local, reruns>>

\* http: a 5xx, a dropped connection or a timeout.
Transient(r) ==
    /\ pc[r] \in DOMAIN Method
    /\ IF attempt[r] < Attempts(Method[pc[r]])
       THEN attempt' = [attempt EXCEPT ![r] = @ + 1] /\ UNCHANGED pc
       ELSE /\ attempt' = [attempt EXCEPT ![r] = 1]
            /\ Goto(r, IF pc[r] = "move" THEN "notmoved" ELSE "failed")
    /\ UNCHANGED <<job, pypi, mine, hashes, built, tested, head, made, branch, reruns>>

----------------------------------------------------------------------------
(* The people: a run is dispatched again, or its failed jobs are, with the *)
(* build they had; the head of the branch is reverted.                     *)

Rerun(r) ==
    /\ pc[r] \in Ended
    /\ reruns[r] < MaxReruns
    /\ reruns' = [reruns EXCEPT ![r] = @ + 1]
    /\ \/ /\ Goto(r, IF job[r].source = "local" THEN "lock" ELSE "start")
          /\ built' = [built EXCEPT ![r] = NoTree] /\ tested' = [tested EXCEPT ![r] = NoTree]
       \/ tested[r] # NoTree /\ Goto(r, "read") /\ UNCHANGED <<built, tested>>
    /\ UNCHANGED <<job, pypi, attempt, mine, hashes, head, made, branch>>

Revert ==
    LET n == Len(branch)
    IN /\ n > 0
       /\ Cardinality({i \in DOMAIN branch : branch[i].by \notin Runs}) < MaxReverts
       /\ branch' = Append(branch, [tree |-> IF n = 1 THEN NoTree ELSE branch[n - 1].tree,
                                    by |-> "person", try |-> 0])
       /\ UNCHANGED <<job, pypi, pc, local, reruns>>

Run(r) ==
    \/ CheckExisting(r) \/ Upload(r) \/ WaitPypi(r) \/ WaitTimesOut(r) \/ ReleaseFiles(r)
    \/ Lock(r) \/ Smoke(r) \/ ReadState(r) \/ DecideWhat(r) \/ CreateCommit(r)
    \/ VerifyCommit(r) \/ MoveBranch(r) \/ MoveUnanswered(r) \/ Transient(r)

Next == Revert \/ \E r \in Runs : Run(r) \/ Rerun(r)

Spec == Init /\ [][Next]_vars

----------------------------------------------------------------------------
(* Properties                                                              *)

\* A version is published once: whatever was lost, read late, reverted or run
\* again, no two commits made by publish hold the same version, so a
\* re-run cannot undo a rollback.
PublishedOnce ==
    \A i, j \in DOMAIN branch :
        i < j /\ {branch[i].by, branch[j].by} \subseteq Runs =>
            branch[i].tree.version # branch[j].tree.version

\* Publishing only adds to the branch as it is, never to the branch as it was
\* read, and its version is newer than the one it replaces.
PublishesForward ==
    [][branch' # branch /\ Last(branch').by \in Runs =>
          /\ Front(branch') = branch
          /\ branch # << >> => HeadTree(branch').version > HeadTree(branch).version]_vars

\* What publish puts on the branch is signed, is the tree the smoke jobs passed,
\* and pins exactly the wheel and the sdist PyPI holds for the version, which
\* are this run's own when the run uploaded them.
PublishesWhatWasTested ==
    [][\A r \in Runs : branch' # branch /\ Last(branch').by = r =>
          LET tree == HeadTree(branch')
          IN /\ tree = tested[r] /\ made[r].verified /\ ~job[r].dry
             /\ tree.version = Version(r)
             /\ tree.files = ToSet(pypi[Version(r)]) /\ Complete(tree.files)
             /\ mine[r] => Cardinality({f.try : f \in tree.files}) = 1
             /\ mine[r] => {f.by : f \in tree.files} = {r}]_vars
============================================================================
