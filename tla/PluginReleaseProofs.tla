------------------------ MODULE PluginReleaseProofs ------------------------
(***************************************************************************)
(* The releases of PluginRelease, for any runs, versions, locks and        *)
(* bounds: the branch gets a version once, only grows, and gets what was   *)
(* built from the run's files on PyPI and smoke-tested.                    *)
(***************************************************************************)
EXTENDS PluginRelease, FiniteSetTheorems, SequenceTheorems, TLAPS

------------------------------------------------------------------------------
(* Lines of history.                                                       *)

\* Appending to a line leaves what was there.
LEMMA Appended ==
  ASSUME NEW S, NEW s \in Seq(S), NEW e \in S
  PROVE  /\ Append(s, e) \in Seq(S) /\ Len(Append(s, e)) = Len(s) + 1
         /\ Append(s, e)[Len(s) + 1] = e
         /\ \A i \in 1..Len(s) : Append(s, e)[i] = s[i]
         /\ Last(Append(s, e)) = e /\ Front(Append(s, e)) = s
BY DEF Last, Front

\* A prefix, element by element.
LEMMA PrefixIsElements ==
  ASSUME NEW S, NEW s \in Seq(S), NEW t \in Seq(S)
  PROVE  IsPrefix(s, t) <=> Len(s) <= Len(t) /\ \A i \in 1..Len(s) : s[i] = t[i]
<1>1. CASE Len(s) <= Len(t)
  <2>1. /\ SubSeq(s, 1, Len(s)) = s
        /\ SubSeq(t, 1, Len(s)) \in Seq(S) /\ Len(SubSeq(t, 1, Len(s))) = Len(s)
        /\ \A i \in 1..Len(s) : SubSeq(t, 1, Len(s))[i] = t[i]
    BY <1>1
  <2> QED BY <1>1, <2>1, SeqEqual DEF IsPrefix
<1> QED BY <1>1 DEF IsPrefix

\* What Ref may answer, an earlier head, is a prefix.
LEMMA HeadWasBefore ==
  ASSUME NEW S, NEW t \in Seq(S), NEW n \in 0..Len(t)
  PROVE  SubSeq(t, 1, n) \in Seq(S) /\ IsPrefix(SubSeq(t, 1, n), t)
<1>1. /\ SubSeq(t, 1, n) \in Seq(S) /\ Len(SubSeq(t, 1, n)) = n /\ n <= Len(t)
      /\ \A i \in 1..n : SubSeq(t, 1, n)[i] = t[i]
  OBVIOUS
<1> DEFINE u == SubSeq(t, 1, n)
<1>2. u \in Seq(S) /\ Len(u) <= Len(t) /\ \A i \in 1..Len(u) : u[i] = t[i]
  BY <1>1
<1> HIDE DEF u
<1>3. u \in Seq(S) /\ IsPrefix(u, t)
  BY <1>2, PrefixIsElements
<1> QED BY <1>3 DEF u

\* A prefix stays one when the line grows.
LEMMA StillAPrefix ==
  ASSUME NEW S, NEW s \in Seq(S), NEW t \in Seq(S), NEW e \in S, IsPrefix(s, t)
  PROVE  IsPrefix(s, Append(t, e))
<1> DEFINE u == Append(t, e)
<1>1. u \in Seq(S) /\ Len(u) = Len(t) + 1 /\ \A i \in 1..Len(t) : u[i] = t[i]
  BY Appended
<1>2. Len(s) <= Len(t) /\ \A i \in 1..Len(s) : s[i] = t[i]
  BY PrefixIsElements
<1> HIDE DEF u
<1>3. Len(s) \in Nat /\ Len(t) \in Nat
  OBVIOUS
<1>4. Len(s) <= Len(u) /\ \A i \in 1..Len(s) : s[i] = u[i]
  BY <1>1, <1>2, <1>3
<1>5. IsPrefix(s, u)
  BY <1>1, <1>4, PrefixIsElements
<1> QED BY <1>5 DEF u

\* What lies between a line and that line with one commit more is one of the two.
LEMMA OneStepAhead ==
  ASSUME NEW S, NEW s \in Seq(S), NEW t \in Seq(S), NEW e \in S,
         IsPrefix(s, t), IsPrefix(t, Append(s, e))
  PROVE  t = s \/ t = Append(s, e)
<1> DEFINE u == Append(s, e)
<1>1. u \in Seq(S) /\ Len(u) = Len(s) + 1 /\ \A i \in 1..Len(s) : u[i] = s[i]
  BY Appended
<1>2. Len(s) <= Len(t) /\ \A i \in 1..Len(s) : s[i] = t[i]
  BY PrefixIsElements
<1> HIDE DEF u
<1>3. IsPrefix(t, u)
  BY DEF u
<1>4. Len(t) <= Len(u) /\ \A i \in 1..Len(t) : t[i] = u[i]
  BY <1>1, <1>3, PrefixIsElements
<1>5. Len(s) \in Nat /\ Len(t) \in Nat
  OBVIOUS
<1>6. CASE Len(t) = Len(s)
  BY <1>2, <1>6, SeqEqual
<1>7. CASE Len(t) = Len(u)
  <2>1. t = u
    BY <1>1, <1>4, <1>7, SeqEqual
  <2> QED BY <2>1 DEF u
<1> QED BY <1>1, <1>2, <1>4, <1>5, <1>6, <1>7

------------------------------------------------------------------------------
(* The invariant.                                                          *)

File == [kind : Kinds, by : Runs, try : Nat]
Tree == [version : Nat, files : SUBSET File, lock : Locks \cup {0}]
Commit == [tree : Tree, by : Runs \cup {"person"}, try : Nat]

Phases == {"start", "upload", "wait", "files", "lock", "smoke", "read", "decide", "create",
           "verify", "move"} \cup Ended

Typed ==
  /\ job \in [Runs -> Jobs]
  /\ pypi \in [Versions -> Seq(File)]
  /\ pc \in [Runs -> Phases]
  /\ attempt \in [Runs -> Nat]
  /\ mine \in [Runs -> BOOLEAN]
  /\ hashes \in [Runs -> SUBSET File]
  /\ built \in [Runs -> Tree]
  /\ tested \in [Runs -> Tree]
  /\ head \in [Runs -> Seq(Commit)]
  /\ made \in [Runs -> [line : Seq(Commit), verified : BOOLEAN]]
  /\ branch \in Seq(Commit)
  /\ reruns \in [Runs -> Nat]

\* PyPI holds one file of a kind: skip-existing.
OneOfAKind ==
  \A v \in Versions : \A i, j \in 1..Len(pypi[v]) : pypi[v][i].kind = pypi[v][j].kind => i = j

Whole(r, files) == files = ToSet(pypi[Version(r)]) /\ Complete(files)
Own(r, files) == \E n \in Nat : files = {[kind |-> k, by |-> r, try |-> n] : k \in Kinds}

\* A pass begins with nothing; what it builds is of its version, and its files
\* are all that PyPI holds and will hold; what is tested is that build.
Build(r) ==
  /\ pc[r] \in {"start", "upload", "wait", "files", "lock"} =>
       built[r] = NoTree /\ tested[r] = NoTree
  /\ pc[r] = "lock" /\ job[r].source = "pypi" =>
       Whole(r, hashes[r]) /\ (mine[r] => Own(r, hashes[r]))
  /\ built[r] # NoTree =>
       /\ built[r].version = Version(r)
       /\ job[r].source = "pypi" =>
            Whole(r, built[r].files) /\ (mine[r] => Own(r, built[r].files))
  /\ pc[r] = "smoke" => built[r] # NoTree
  /\ tested[r] # NoTree => tested[r] = built[r]
  /\ pc[r] \in {"read", "decide", "create", "verify", "move"} => tested[r] # NoTree

\* The head that was read is one the branch has had, and what is made goes on it.
Publish(r) ==
  /\ pc[r] \in {"decide", "create", "verify", "move"} =>
       IsPrefix(head[r], branch) /\ (job[r].source = "local" => job[r].dry)
  /\ pc[r] \in {"create", "verify", "move"} =>
       ~job[r].dry /\ Decide(Version(r), head[r]) = "create"
  /\ pc[r] = "verify" =>
       \E tree \in {built[r], NoTree}, n \in Nat :
          made[r].line = Append(head[r], [tree |-> tree, by |-> r, try |-> n])
  /\ pc[r] = "move" =>
       /\ made[r].verified
       /\ \E n \in Nat : made[r].line = Append(head[r], [tree |-> built[r], by |-> r, try |-> n])

Runwise == \A r \in Runs : Build(r) /\ Publish(r)

ReleaseInv == Typed /\ OneOfAKind /\ Runwise

\* No tree at all counts as a tree, of version 0.
LEMMA NoTreeIsATree == NoTree \in Tree
BY DEF NoTree, Tree

\* A first dispatch: nothing built, nothing published.
LEMMA InitReleaseInv == Init => ReleaseInv
<1> SUFFICES ASSUME Init PROVE ReleaseInv
  OBVIOUS
<1> USE JobsAssumption
<1>1. Typed
  <2>1. job \in [Runs -> Jobs] /\ branch = << >> /\ pypi = [v \in Versions |-> << >>]
    BY DEF Init
  <2>2. branch \in Seq(Commit) /\ pypi \in [Versions -> Seq(File)]
    BY <2>1
  <2>3. pc \in [Runs -> Phases]
    BY DEF Init, Phases
  <2>4. built \in [Runs -> Tree] /\ tested \in [Runs -> Tree]
    BY NoTreeIsATree DEF Init
  <2>5. head \in [Runs -> Seq(Commit)]
        /\ made \in [Runs -> [line : Seq(Commit), verified : BOOLEAN]]
    BY DEF Init
  <2>6. /\ attempt \in [Runs -> Nat] /\ mine \in [Runs -> BOOLEAN]
        /\ hashes \in [Runs -> SUBSET File] /\ reruns \in [Runs -> Nat]
    BY DEF Init
  <2> QED BY <2>1, <2>2, <2>3, <2>4, <2>5, <2>6 DEF Typed
<1>2. OneOfAKind
  BY DEF Init, OneOfAKind
<1>3. ASSUME NEW r \in Runs PROVE Build(r) /\ Publish(r)
  <2>1. /\ pc[r] \in {"lock", "start"} /\ (pc[r] = "lock" => job[r].source = "local")
        /\ built[r] = NoTree /\ tested[r] = NoTree
    BY DEF Init
  <2> QED BY <2>1 DEF Build, Publish
<1> QED BY <1>1, <1>2, <1>3 DEF ReleaseInv, Runwise

------------------------------------------------------------------------------
(* What a step does to the others.                                         *)

\* A run's own part of the state.
Part(r) == <<pc[r], mine[r], hashes[r], built[r], tested[r], head[r], made[r]>>

\* A step of one run touches no other run.
LEMMA OthersUntouched ==
  ASSUME Typed, NEW r \in Runs, Run(r) \/ Rerun(r)
  PROVE  job' = job /\ \A s \in Runs \ {r} : UNCHANGED Part(s)
<1> USE DEF Part, Goto, local, Typed
<1>1. CASE CheckExisting(r) BY <1>1 DEF CheckExisting
<1>2. CASE Upload(r) BY <1>2 DEF Upload
<1>3. CASE WaitPypi(r) BY <1>3 DEF WaitPypi
<1>4. CASE WaitTimesOut(r) BY <1>4 DEF WaitTimesOut
<1>5. CASE ReleaseFiles(r) BY <1>5 DEF ReleaseFiles
<1>6. CASE Lock(r) BY <1>6 DEF Lock
<1>7. CASE Smoke(r) BY <1>7 DEF Smoke
<1>8. CASE ReadState(r) BY <1>8 DEF ReadState
<1>9. CASE DecideWhat(r) BY <1>9 DEF DecideWhat
<1>10. CASE CreateCommit(r) BY <1>10 DEF CreateCommit
<1>11. CASE VerifyCommit(r) BY <1>11 DEF VerifyCommit
<1>12. CASE MoveBranch(r) \/ MoveUnanswered(r) BY <1>12 DEF MoveBranch, MoveUnanswered
<1>13. CASE Transient(r) BY <1>13 DEF Transient
<1>14. CASE Rerun(r) BY <1>14 DEF Rerun
<1> QED BY <1>1, <1>2, <1>3, <1>4, <1>5, <1>6, <1>7, <1>8, <1>9, <1>10, <1>11, <1>12, <1>13,
           <1>14 DEF Run

\* A file is only added while its kind is missing, so a complete release stays.
LEMMA UploadAdds ==
  ASSUME Typed, NEW r \in Runs, Upload(r)
  PROVE  /\ Version(r) \in Versions
         /\ \/ pypi' = pypi
            \/ \E f \in File :
                 /\ f.kind \notin {g.kind : g \in ToSet(pypi[Version(r)])}
                 /\ pypi' = [pypi EXCEPT ![Version(r)] = Append(pypi[Version(r)], f)]
<1>1. Version(r) \in Versions
  BY DEF Typed, Version, Versions
<1>2. ASSUME NEW k \in Kinds
      PROVE  /\ [kind |-> k, by |-> r, try |-> reruns[r]] \in File
             /\ [kind |-> k, by |-> r, try |-> reruns[r]].kind = k
  BY DEF Typed, File
<1>3. CASE pypi' = pypi
  BY <1>1, <1>3
<1>4. CASE pypi' # pypi
  <2>1. PICK k \in Kinds \ {f.kind : f \in ToSet(pypi[Version(r)])} :
          pypi' = [pypi EXCEPT ![Version(r)] =
                     Append(pypi[Version(r)], [kind |-> k, by |-> r, try |-> reruns[r]])]
    BY <1>4 DEF Upload
  <2> DEFINE f == [kind |-> k, by |-> r, try |-> reruns[r]]
  <2>2. f \in File /\ f.kind \notin {g.kind : g \in ToSet(pypi[Version(r)])}
    BY <1>2, <2>1
  <2> QED BY <1>1, <2>1, <2>2
<1> QED BY <1>3, <1>4

\* A version both of whose files are on PyPI does not change any more.
LEMMA PypiSettles ==
  ASSUME Typed, [Next]_vars, NEW v \in Versions, Complete(ToSet(pypi[v]))
  PROVE  pypi'[v] = pypi[v]
<1>1. CASE pypi' = pypi
  BY <1>1
<1>2. ASSUME NEW r \in Runs, Upload(r) PROVE pypi'[v] = pypi[v]
  <2>1. CASE pypi' = pypi
    BY <2>1
  <2>2. ASSUME NEW f \in File, f.kind \notin {g.kind : g \in ToSet(pypi[Version(r)])},
               pypi' = [pypi EXCEPT ![Version(r)] = Append(pypi[Version(r)], f)]
        PROVE  pypi'[v] = pypi[v]
    <3>1. Version(r) # v
      BY <2>2 DEF Complete, File
    <3> QED BY <2>2, <3>1 DEF Typed
  <2> QED BY <1>2, <2>1, <2>2, UploadAdds
<1>3. ASSUME NEW r \in Runs, Run(r) \/ Rerun(r), ~Upload(r) PROVE pypi' = pypi
  BY <1>3 DEF Run, Rerun, CheckExisting, WaitPypi, WaitTimesOut, ReleaseFiles, Lock, Smoke,
     ReadState, DecideWhat, CreateCommit, VerifyCommit, MoveBranch, MoveUnanswered, Transient
<1>4. CASE Revert \/ UNCHANGED vars
  BY <1>4 DEF Revert, vars
<1> QED BY <1>1, <1>2, <1>3, <1>4 DEF Next

\* A move that is accepted puts one commit on the branch as it is, or finds it there.
LEMMA MoveAdds ==
  ASSUME ReleaseInv, NEW r \in Runs, MoveBranch(r) \/ MoveUnanswered(r), branch' # branch
  PROVE  /\ branch = head[r] /\ pc[r] = "move"
         /\ \E n \in Nat : branch' = Append(branch, [tree |-> built[r], by |-> r, try |-> n])
<1>1. /\ pc[r] = "move" /\ Movable(r) /\ branch' = made[r].line
  BY DEF MoveBranch, MoveUnanswered
<1>2. PICK n \in Nat : made[r].line = Append(head[r], [tree |-> built[r], by |-> r, try |-> n])
  BY <1>1 DEF ReleaseInv, Runwise, Publish
<1> DEFINE c == [tree |-> built[r], by |-> r, try |-> n]
<1>3. c \in Commit /\ head[r] \in Seq(Commit) /\ branch \in Seq(Commit)
  BY DEF ReleaseInv, Typed, Commit
<1>4. IsPrefix(head[r], branch)
  BY <1>1 DEF ReleaseInv, Runwise, Publish
<1> HIDE DEF c
<1>5. CASE head[r] = << >>
  BY <1>1, <1>2, <1>5 DEF Movable, c
<1>6. CASE head[r] # << >>
  <2>1. IsPrefix(branch, Append(head[r], c))
    BY <1>1, <1>2, <1>6 DEF Movable, c
  <2>2. branch = head[r] \/ branch = Append(head[r], c)
    BY <1>3, <1>4, <2>1, OneStepAhead
  <2> QED BY <1>1, <1>2, <2>2 DEF c
<1> QED BY <1>5, <1>6

\* No step takes anything away from the branch.
LEMMA BranchGrows ==
  ASSUME ReleaseInv, [Next]_vars
  PROVE  branch' = branch \/ \E c \in Commit : branch' = Append(branch, c)
<1>1. ASSUME NEW r \in Runs, MoveBranch(r) \/ MoveUnanswered(r), branch' # branch
      PROVE  \E c \in Commit : branch' = Append(branch, c)
  <2>1. PICK n \in Nat : branch' = Append(branch, [tree |-> built[r], by |-> r, try |-> n])
    BY <1>1, MoveAdds
  <2>2. [tree |-> built[r], by |-> r, try |-> n] \in Commit
    BY DEF ReleaseInv, Typed, Commit
  <2> QED BY <2>1, <2>2
<1>2. CASE Revert
  <2> DEFINE tree == IF Len(branch) = 1 THEN NoTree ELSE branch[Len(branch) - 1].tree
             c == [tree |-> tree, by |-> "person", try |-> 0]
  <2>1. branch \in Seq(Commit) /\ Len(branch) \in Nat /\ Len(branch) > 0
    BY <1>2 DEF Revert, ReleaseInv, Typed
  <2>2. tree \in Tree
    <3>1. CASE Len(branch) = 1
      BY <3>1, NoTreeIsATree
    <3>2. CASE Len(branch) # 1
      <4>1. branch[Len(branch) - 1] \in Commit
        <5>1. Len(branch) - 1 \in 1..Len(branch)
          BY <2>1, <3>2
        <5> QED BY <2>1, <5>1, ElementOfSeq
      <4> QED BY <3>2, <4>1 DEF Commit
    <3> QED BY <3>1, <3>2
  <2>3. c \in Commit
    BY <2>2 DEF Commit
  <2>4. branch' = Append(branch, c)
    BY <1>2 DEF Revert
  <2> QED BY <2>3, <2>4
<1>3. ASSUME NEW r \in Runs, Run(r) \/ Rerun(r), ~MoveBranch(r), ~MoveUnanswered(r)
      PROVE  branch' = branch
  BY <1>3 DEF Run, Rerun, CheckExisting, Upload, WaitPypi, WaitTimesOut, ReleaseFiles, Lock,
     Smoke, ReadState, DecideWhat, CreateCommit, VerifyCommit, Transient
<1>4. CASE UNCHANGED vars
  BY <1>4 DEF vars
<1> QED BY <1>1, <1>2, <1>3, <1>4 DEF Next

\* So a head once read stays a prefix of it.
LEMMA PrefixKept ==
  ASSUME ReleaseInv, [Next]_vars, NEW line \in Seq(Commit), IsPrefix(line, branch)
  PROVE  IsPrefix(line, branch')
<1>1. branch \in Seq(Commit)
  BY DEF ReleaseInv, Typed
<1> QED BY <1>1, BranchGrows, StillAPrefix

------------------------------------------------------------------------------
(* The invariant is kept.                                                  *)

\* A CDN copy that has both kinds is all of what PyPI holds.
LEMMA ServedIsHeld ==
  ASSUME Typed, OneOfAKind, NEW r \in Runs, NEW seen \in Served(Version(r))
  PROVE  /\ seen \in SUBSET File
         /\ Complete(seen) => Whole(r, seen)
<1> DEFINE held == pypi[Version(r)]
<1>1. Version(r) \in Versions /\ held \in Seq(File)
  BY DEF Typed, Version, Versions
<1>2. PICK n \in 0..Len(held) : seen = ToSet(SubSeq(held, 1, n))
  BY DEF Served
<1>3. /\ Len(SubSeq(held, 1, n)) = n /\ SubSeq(held, 1, n) \in Seq(File)
      /\ \A i \in 1..n : SubSeq(held, 1, n)[i] = held[i]
      /\ Len(held) \in Nat /\ n \in Nat /\ n <= Len(held)
  BY <1>1, <1>2
<1>4. \A i, j \in 1..Len(held) : held[i].kind = held[j].kind => i = j
  BY <1>1 DEF OneOfAKind
<1> HIDE DEF held
<1>5. seen = {held[i] : i \in 1..n}
  <2> DEFINE part == SubSeq(held, 1, n)
  <2>1. DOMAIN part = 1..n /\ \A i \in 1..n : part[i] = held[i]
    BY <1>3
  <2>2. seen = {part[i] : i \in DOMAIN part}
    BY <1>2 DEF ToSet
  <2> HIDE DEF part
  <2> QED BY <2>1, <2>2
<1>6. ToSet(held) = {held[i] : i \in 1..Len(held)}
  BY <1>1 DEF ToSet
<1>7. \A i \in 1..Len(held) : held[i] \in File
  BY <1>1
<1>8. \A i \in 1..n : i \in 1..Len(held)
  BY <1>3
<1>9. ASSUME Complete(seen) PROVE ToSet(held) \subseteq seen
  <2>1. SUFFICES ASSUME NEW i \in 1..Len(held) PROVE held[i] \in seen
    BY <1>6
  <2>2. held[i].kind \in {f.kind : f \in seen}
    BY <1>7, <1>9 DEF Complete, File
  <2>3. PICK j \in 1..n : held[j].kind = held[i].kind
    BY <1>5, <2>2
  <2> QED BY <1>4, <1>5, <1>8, <2>3
<1>10. seen \subseteq ToSet(held)
  BY <1>5, <1>6, <1>8
<1>11. seen \in SUBSET File
  BY <1>5, <1>7, <1>8
<1> QED BY <1>9, <1>10, <1>11 DEF Whole, held

\* skip-existing keeps one file of a kind.
LEMMA KindsStayApart ==
  ASSUME Typed, OneOfAKind, [Next]_vars
  PROVE  pypi' \in [Versions -> Seq(File)] /\ OneOfAKind'
<1>1. ASSUME NEW v \in Versions, NEW f \in File,
             f.kind \notin {g.kind : g \in ToSet(pypi[v])},
             pypi' = [pypi EXCEPT ![v] = Append(pypi[v], f)]
      PROVE  pypi' \in [Versions -> Seq(File)] /\ OneOfAKind'
  <2> DEFINE s == pypi[v]
             t == Append(s, f)
  <2>1. s \in Seq(File) /\ Len(s) \in Nat
    BY DEF Typed
  <2>2. /\ t \in Seq(File) /\ Len(t) = Len(s) + 1 /\ t[Len(s) + 1] = f
        /\ \A i \in 1..Len(s) : t[i] = s[i]
    BY <2>1, Appended
  <2>3. \A i \in 1..Len(s) : s[i].kind # f.kind
    BY <1>1, <2>1 DEF ToSet
  <2>4. \A i, j \in 1..Len(s) : s[i].kind = s[j].kind => i = j
    BY DEF OneOfAKind
  <2>5. pypi'[v] = t /\ \A w \in Versions \ {v} : pypi'[w] = pypi[w]
    BY <1>1 DEF Typed
  <2>6. pypi' \in [Versions -> Seq(File)]
    BY <1>1, <2>2 DEF Typed
  <2> HIDE DEF s, t
  <2>7. \A i, j \in 1..Len(t) : t[i].kind = t[j].kind => i = j
    BY <2>1, <2>2, <2>3, <2>4
  <2>8. ASSUME NEW w \in Versions, NEW i \in 1..Len(pypi'[w]), NEW j \in 1..Len(pypi'[w]),
               pypi'[w][i].kind = pypi'[w][j].kind
        PROVE  i = j
    <3>1. CASE w = v BY <2>5, <2>7, <2>8, <3>1
    <3>2. CASE w # v
      <4>1. pypi'[w] = pypi[w]
        BY <2>5, <3>2
      <4> QED BY <2>8, <4>1 DEF OneOfAKind
    <3> QED BY <3>1, <3>2
  <2> QED BY <2>6, <2>8 DEF OneOfAKind
<1>2. ASSUME NEW r \in Runs, Upload(r)
      PROVE  pypi' \in [Versions -> Seq(File)] /\ OneOfAKind'
  <2>1. CASE pypi' = pypi BY <2>1 DEF Typed, OneOfAKind
  <2> QED BY <1>1, <1>2, <2>1, UploadAdds
<1>3. ASSUME pypi' = pypi PROVE pypi' \in [Versions -> Seq(File)] /\ OneOfAKind'
  BY <1>3 DEF Typed, OneOfAKind
<1>4. ASSUME NEW r \in Runs, Run(r) \/ Rerun(r), ~Upload(r) PROVE pypi' = pypi
  BY <1>4 DEF Run, Rerun, CheckExisting, WaitPypi, WaitTimesOut, ReleaseFiles, Lock, Smoke,
     ReadState, DecideWhat, CreateCommit, VerifyCommit, MoveBranch, MoveUnanswered, Transient
<1>5. Revert \/ UNCHANGED vars => pypi' = pypi
  BY DEF Revert, vars
<1> QED BY <1>2, <1>3, <1>4, <1>5 DEF Next

\* Types are kept by every action.
LEMMA TypedStep ==
  ASSUME ReleaseInv, [Next]_vars
  PROVE  Typed'
<1> DEFINE Rest == /\ job \in [Runs -> Jobs]
                   /\ pc \in [Runs -> Phases]
                   /\ attempt \in [Runs -> Nat]
                   /\ mine \in [Runs -> BOOLEAN]
                   /\ hashes \in [Runs -> SUBSET File]
                   /\ built \in [Runs -> Tree]
                   /\ tested \in [Runs -> Tree]
                   /\ head \in [Runs -> Seq(Commit)]
                   /\ made \in [Runs -> [line : Seq(Commit), verified : BOOLEAN]]
                   /\ reruns \in [Runs -> Nat]
<1>a. Typed /\ OneOfAKind /\ Rest
  BY DEF ReleaseInv, Typed
<1>b. pypi' \in [Versions -> Seq(File)]
  BY <1>a, KindsStayApart
<1>d. branch \in Seq(Commit)
  BY <1>a DEF Typed
<1>c. branch' \in Seq(Commit)
  BY <1>d, BranchGrows, Appended
<1> USE DEF Goto, local
<1>1. ASSUME NEW r \in Runs, CheckExisting(r) PROVE Rest'
  BY <1>a, <1>1 DEF CheckExisting, Phases
<1>2. ASSUME NEW r \in Runs, Upload(r) PROVE Rest'
  <2>1. /\ UNCHANGED <<job, attempt, mine, hashes, built, tested, head, made, reruns>>
        /\ \E p \in Phases : pc' = [pc EXCEPT ![r] = p] \/ pc' = pc
    BY <1>2 DEF Upload, Phases, Ended
  <2> QED BY <1>a, <2>1
<1>3. ASSUME NEW r \in Runs, WaitPypi(r) \/ WaitTimesOut(r) PROVE Rest'
  BY <1>a, <1>3 DEF WaitPypi, WaitTimesOut, Phases, Ended
<1>4. ASSUME NEW r \in Runs, ReleaseFiles(r) PROVE Rest'
  <2>1. \A seen \in JsonApi(r) : seen \in SUBSET File
    BY <1>a, ServedIsHeld DEF JsonApi
  <2> QED BY <1>a, <1>4, <2>1 DEF ReleaseFiles, Phases, Ended
<1>5. ASSUME NEW r \in Runs, Lock(r) PROVE Rest'
  <2>1. \A locked \in IF job[r].source = "local" THEN {{}} ELSE UvResolves(r) :
           locked \in SUBSET File
    BY <1>a, ServedIsHeld DEF UvResolves
  <2>2. Version(r) \in Nat
    BY <1>a, JobsAssumption DEF Version
  <2>3. \A lock \in Locks, locked \in SUBSET File :
           [version |-> Version(r), files |-> locked, lock |-> lock] \in Tree
    BY <2>2 DEF Tree
  <2>4. /\ UNCHANGED <<job, attempt, mine, hashes, tested, head, made, reruns>>
        /\ \E p \in Phases : pc' = [pc EXCEPT ![r] = p]
        /\ \/ built' = built
           \/ \E tree \in Tree : built' = [built EXCEPT ![r] = tree]
    BY <1>5, <2>1, <2>3 DEF Lock, Phases, Ended
  <2> QED BY <1>a, <2>4
<1>6. ASSUME NEW r \in Runs, Smoke(r) PROVE Rest'
  <2>1. /\ UNCHANGED <<job, attempt, mine, hashes, built, head, made, reruns>>
        /\ \E p \in Phases : pc' = [pc EXCEPT ![r] = p]
        /\ tested' = tested \/ tested' = [tested EXCEPT ![r] = built[r]]
    BY <1>6 DEF Smoke, Phases, Ended
  <2> QED BY <1>a, <2>1
<1>7. ASSUME NEW r \in Runs, ReadState(r) PROVE Rest'
  <2>1. \A line \in Ref : line \in Seq(Commit)
    BY <1>d, HeadWasBefore DEF Ref
  <2>2. /\ UNCHANGED <<job, mine, hashes, built, tested, made, reruns>>
        /\ attempt' = [attempt EXCEPT ![r] = 1]
        /\ \E p \in Phases : pc' = [pc EXCEPT ![r] = p]
        /\ head' = head \/ \E line \in Seq(Commit) : head' = [head EXCEPT ![r] = line]
    BY <1>7, <2>1 DEF ReadState, Phases, Ended
  <2> QED BY <1>a, <2>2
<1>8. ASSUME NEW r \in Runs, DecideWhat(r) PROVE Rest'
  <2>1. /\ UNCHANGED <<job, attempt, mine, hashes, built, tested, head, made, reruns>>
        /\ \E p \in Phases : pc' = [pc EXCEPT ![r] = p]
    BY <1>8 DEF DecideWhat, Phases, Ended
  <2> QED BY <1>a, <2>1
<1>9. ASSUME NEW r \in Runs, CreateCommit(r) PROVE Rest'
  <2>1. ASSUME NEW tree \in {built[r], NoTree}, NEW verified \in BOOLEAN
        PROVE  [line |-> Append(head[r], [tree |-> tree, by |-> r, try |-> reruns[r]]),
                verified |-> verified] \in [line : Seq(Commit), verified : BOOLEAN]
    <3>1. [tree |-> tree, by |-> r, try |-> reruns[r]] \in Commit
      BY <1>a, NoTreeIsATree DEF Commit
    <3> QED BY <1>a, <3>1, Appended
  <2>2. /\ UNCHANGED <<job, attempt, mine, hashes, built, tested, head, reruns>>
        /\ pc' = [pc EXCEPT ![r] = "verify"]
        /\ \E m \in [line : Seq(Commit), verified : BOOLEAN] : made' = [made EXCEPT ![r] = m]
    BY <1>9, <2>1 DEF CreateCommit
  <2> QED BY <1>a, <2>2 DEF Phases
<1>10. ASSUME NEW r \in Runs, VerifyCommit(r) PROVE Rest'
  BY <1>a, <1>10 DEF VerifyCommit, Phases, Ended
<1>11. ASSUME NEW r \in Runs, MoveBranch(r) \/ MoveUnanswered(r) PROVE Rest'
  BY <1>a, <1>11 DEF MoveBranch, MoveUnanswered, Phases, Ended
<1>12. ASSUME NEW r \in Runs, Transient(r) PROVE Rest'
  <2>1. /\ UNCHANGED <<job, mine, hashes, built, tested, head, made, reruns>>
        /\ pc' = pc \/ \E p \in Phases : pc' = [pc EXCEPT ![r] = p]
        /\ \E n \in Nat : attempt' = [attempt EXCEPT ![r] = n]
    BY <1>a, <1>12 DEF Transient, Phases, Ended
  <2> QED BY <1>a, <2>1
<1>13. ASSUME NEW r \in Runs, Rerun(r) PROVE Rest'
  <2>1. /\ UNCHANGED <<job, attempt, mine, hashes, head, made>>
        /\ \E p \in Phases : pc' = [pc EXCEPT ![r] = p]
        /\ reruns' = [reruns EXCEPT ![r] = reruns[r] + 1]
        /\ built' = built \/ built' = [built EXCEPT ![r] = NoTree]
        /\ tested' = tested \/ tested' = [tested EXCEPT ![r] = NoTree]
    BY <1>13 DEF Rerun, Phases
  <2>2. reruns[r] + 1 \in Nat
    BY <1>a
  <2> DEFINE n == reruns[r] + 1
  <2>3. n \in Nat /\ reruns' = [reruns EXCEPT ![r] = n]
    BY <2>1, <2>2
  <2> HIDE DEF n
  <2>4. reruns' \in [Runs -> Nat]
    BY <1>a, <2>3
  <2>5. built' \in [Runs -> Tree] /\ tested' \in [Runs -> Tree]
    BY <1>a, <2>1, NoTreeIsATree
  <2> QED BY <1>a, <2>1, <2>4, <2>5
<1>14. ASSUME Revert \/ UNCHANGED vars PROVE Rest'
  BY <1>a, <1>14 DEF Revert, vars
<1>15. Rest'
  BY <1>1, <1>2, <1>3, <1>4, <1>5, <1>6, <1>7, <1>8, <1>9, <1>10, <1>11, <1>12, <1>13, <1>14
  DEF Next, Run
<1> QED BY <1>b, <1>c, <1>15 DEF Typed

\* What is known of a run survives the steps of others.
LEMMA PartKept ==
  ASSUME ReleaseInv, [Next]_vars, NEW s \in Runs, job' = job, UNCHANGED Part(s)
  PROVE  Build(s)' /\ Publish(s)'
<1>1. Build(s) /\ Publish(s) /\ Version(s)' = Version(s)
  BY DEF ReleaseInv, Runwise, Version
<1>2. \A files : Whole(s, files) => Whole(s, files)'
  <2>1. Version(s) \in Versions /\ Typed
    BY DEF ReleaseInv, Typed, Version, Versions
  <2>2. Complete(ToSet(pypi[Version(s)])) => pypi'[Version(s)] = pypi[Version(s)]
    BY <2>1, PypiSettles
  <2> QED BY <1>1, <2>2 DEF Whole
<1>3. IsPrefix(head[s], branch) => IsPrefix(head[s], branch')
  BY PrefixKept DEF ReleaseInv, Typed
<1>4. Build(s)'
  BY <1>1, <1>2 DEF Build, Part
<1>5. Publish(s)'
  BY <1>1, <1>3 DEF Publish, Part
<1> QED BY <1>4, <1>5

\* A pass up to the tested build.
LEMMA BuildStep ==
  ASSUME ReleaseInv, NEW r \in Runs, Run(r) \/ Rerun(r)
  PROVE  Build(r)' \/ UNCHANGED Part(r)
<1>a. Build(r) /\ Typed /\ OneOfAKind
  BY DEF ReleaseInv, Runwise
<1>b. /\ Version(r) \in Nat \ {0} /\ job[r].source \in {"pypi", "local"}
      /\ NoTree.version = 0 /\ NoTree \in Tree
  BY <1>a, JobsAssumption, NoTreeIsATree DEF Typed, Version, NoTree
<1> USE DEF Goto, local
<1>1. CASE CheckExisting(r)
  <2>1. /\ pc[r] = "start" /\ pc'[r] = "upload"
        /\ UNCHANGED <<built, tested>>
    BY <1>a, <1>1 DEF CheckExisting, Typed
  <2> QED BY <1>a, <2>1 DEF Build
<1>2. CASE Upload(r)
  <2>1. /\ pc[r] = "upload" /\ pc'[r] \in {"upload", "wait", "failed"}
        /\ UNCHANGED <<built, tested>>
    BY <1>a, <1>2 DEF Upload, Typed
  <2> QED BY <1>a, <2>1 DEF Build
<1>3. CASE WaitPypi(r) \/ WaitTimesOut(r)
  <2>1. /\ pc[r] = "wait" /\ pc'[r] \in {"files", "failed"}
        /\ UNCHANGED <<built, tested>>
    BY <1>a, <1>3 DEF WaitPypi, WaitTimesOut, Typed
  <2> QED BY <1>a, <2>1 DEF Build
<1>4. CASE ReleaseFiles(r)
  <2>1. /\ pc[r] = "files" /\ UNCHANGED <<job, pypi, mine, built, tested>>
        /\ \/ pc'[r] = "failed"
           \/ pc'[r] = "lock" /\ \E seen \in JsonApi(r) :
                hashes'[r] = seen /\ Complete(seen) /\ Expected(seen, r)
    BY <1>a, <1>4 DEF ReleaseFiles, Typed
  <2>2. ASSUME NEW seen \in JsonApi(r), Complete(seen), Expected(seen, r)
        PROVE  Whole(r, seen) /\ (mine[r] => Own(r, seen))
    <3>1. Whole(r, seen)
      BY <1>a, <2>2, ServedIsHeld DEF JsonApi
    <3>2. reruns[r] \in Nat
      BY <1>a DEF Typed
    <3>3. mine[r] => Own(r, seen)
      BY <2>2, <3>2 DEF Expected, Dist, Own
    <3> QED BY <3>1, <3>3
  <2>3. pc'[r] = "lock" => Whole(r, hashes[r])' /\ (mine[r] => Own(r, hashes'[r]))
    BY <2>1, <2>2 DEF Whole, Version
  <2> QED BY <1>a, <2>1, <2>3 DEF Build, Own
<1>5. CASE Lock(r)
  <2>1. /\ pc[r] = "lock" /\ UNCHANGED <<job, pypi, mine, hashes, tested>>
        /\ \/ pc'[r] = "failed" /\ built' = built
           \/ pc'[r] = "smoke" /\ \E lock \in Locks, locked \in {{}} \cup UvResolves(r) :
                /\ LockChecks(r, locked)
                /\ built'[r] = [version |-> Version(r), files |-> locked, lock |-> lock]
    BY <1>a, <1>5 DEF Lock, Typed
  <2>2. CASE pc'[r] = "smoke"
    <3>1. PICK lock \in Locks, locked \in {{}} \cup UvResolves(r) :
             /\ LockChecks(r, locked)
             /\ built'[r] = [version |-> Version(r), files |-> locked, lock |-> lock]
      BY <2>1, <2>2
    <3>2. built'[r].version = Version(r) /\ built'[r].files = locked /\ built'[r] # NoTree
      BY <1>b, <3>1
    <3>3. job[r].source = "pypi" => locked = hashes[r]
      BY <3>1 DEF LockChecks
    <3>4. tested'[r] = NoTree
      BY <1>a, <2>1 DEF Build
    <3>5. job[r].source = "pypi" =>
            Whole(r, hashes[r]) /\ (mine[r] => Own(r, hashes[r]))
      BY <1>a, <2>1 DEF Build
    <3>6. job[r].source = "pypi" => /\ (Whole(r, built[r].files))'
                                    /\ (mine[r] => Own(r, built'[r].files))
      BY <2>1, <3>2, <3>3, <3>5 DEF Whole, Version
    <3> QED BY <2>1, <2>2, <3>2, <3>4, <3>6 DEF Build, Version, Own
  <2> QED BY <1>a, <2>1, <2>2 DEF Build
<1>6. CASE Smoke(r)
  <2>1. /\ pc[r] = "smoke" /\ UNCHANGED <<job, pypi, mine, hashes, built>>
        /\ \/ pc'[r] = "failed" /\ tested' = tested
           \/ pc'[r] = "read" /\ tested'[r] = built[r]
    BY <1>a, <1>6 DEF Smoke, Typed
  <2> QED BY <1>a, <2>1 DEF Build, Whole, Own, Version
<1>7. CASE \/ ReadState(r) \/ DecideWhat(r) \/ CreateCommit(r) \/ VerifyCommit(r)
           \/ MoveBranch(r) \/ MoveUnanswered(r) \/ Transient(r)
  <2>1. /\ UNCHANGED <<job, pypi, mine, hashes, built, tested>>
        /\ \/ pc'[r] \in Ended
           \/ pc'[r] = pc[r]
           \/ /\ pc[r] \in {"read", "decide", "create", "verify"}
              /\ pc'[r] \in {"decide", "create", "verify", "move"}
    <3> USE DEF Ended
    <3>1. CASE ReadState(r) BY <1>a, <3>1 DEF ReadState, Typed
    <3>2. CASE DecideWhat(r) BY <1>a, <3>2 DEF DecideWhat, Typed
    <3>3. CASE CreateCommit(r) BY <1>a, <3>3 DEF CreateCommit, Typed
    <3>4. CASE VerifyCommit(r) BY <1>a, <3>4 DEF VerifyCommit, Typed
    <3>5. CASE MoveBranch(r) \/ MoveUnanswered(r)
      BY <1>a, <3>5 DEF MoveBranch, MoveUnanswered, Typed
    <3>6. CASE Transient(r) BY <1>a, <3>6 DEF Transient, Typed
    <3> QED BY <1>7, <3>1, <3>2, <3>3, <3>4, <3>5, <3>6
  <2> QED BY <1>a, <2>1 DEF Build, Whole, Own, Version, Ended
<1>8. CASE Rerun(r)
  <2>1. /\ pc[r] \in Ended /\ UNCHANGED <<job, pypi, mine, hashes>>
        /\ \/ /\ pc'[r] = (IF job[r].source = "local" THEN "lock" ELSE "start")
              /\ built'[r] = NoTree /\ tested'[r] = NoTree
           \/ tested[r] # NoTree /\ pc'[r] = "read" /\ UNCHANGED <<built, tested>>
    BY <1>a, <1>8 DEF Rerun, Typed
  <2> QED BY <1>a, <1>b, <2>1 DEF Build, Whole, Own, Version, Ended
<1> QED BY <1>1, <1>2, <1>3, <1>4, <1>5, <1>6, <1>7, <1>8 DEF Run

\* A pass from the branch it read to the move.
LEMMA PublishStep ==
  ASSUME ReleaseInv, NEW r \in Runs, Run(r) \/ Rerun(r)
  PROVE  Publish(r)'
<1>a. Publish(r) /\ Typed /\ Build(r)
  BY DEF ReleaseInv, Runwise
<1>b. [Next]_vars
  BY DEF Next
<1> USE DEF Goto, local
<1>1. ASSUME pc'[r] \notin {"decide", "create", "verify", "move"} PROVE Publish(r)'
  BY <1>1 DEF Publish
<1>2. CASE \/ CheckExisting(r) \/ Upload(r) \/ WaitPypi(r) \/ WaitTimesOut(r) \/ ReleaseFiles(r)
           \/ Lock(r) \/ Smoke(r) \/ MoveBranch(r) \/ MoveUnanswered(r) \/ Rerun(r)
  <2>1. pc'[r] \notin {"decide", "create", "verify", "move"}
    BY <1>a, <1>2 DEF CheckExisting, Upload, WaitPypi, WaitTimesOut, ReleaseFiles, Lock, Smoke,
       MoveBranch, MoveUnanswered, Rerun, Typed, Ended
  <2> QED BY <1>1, <2>1
<1>3. CASE ReadState(r)
  <2>1. /\ UNCHANGED <<job, branch>>
        /\ \/ pc'[r] = "failed"
           \/ /\ pc'[r] = "decide" /\ Publishable(r)
              /\ \E line \in Ref : head'[r] = line
    BY <1>a, <1>3 DEF ReadState, Typed
  <2>2. \A line \in Ref : IsPrefix(line, branch)
    BY <1>a, HeadWasBefore DEF Ref, Typed
  <2> QED BY <2>1, <2>2 DEF Publish, Publishable
<1>4. CASE DecideWhat(r)
  <2>1. /\ pc[r] = "decide" /\ UNCHANGED <<job, branch, head>>
        /\ \/ pc'[r] \in {"noop", "refused"}
           \/ pc'[r] = "create" /\ ~job[r].dry /\ Decide(Version(r), head[r]) = "create"
    BY <1>a, <1>4 DEF DecideWhat, Typed
  <2>2. Decide(Version(r), head[r])' = Decide(Version(r), head[r])
    BY <2>1 DEF Version, Decide, HeadTree, HeldBy
  <2> QED BY <1>a, <2>1, <2>2 DEF Publish
<1>5. CASE CreateCommit(r)
  <2>1. /\ pc[r] = "create" /\ pc'[r] = "verify" /\ UNCHANGED <<job, branch, head, built>>
        /\ \E tree \in {built[r], NoTree} :
             made'[r].line = Append(head[r], [tree |-> tree, by |-> r, try |-> reruns[r]])
    BY <1>a, <1>5 DEF CreateCommit, Typed
  <2>2. reruns[r] \in Nat
    BY <1>a DEF Typed
  <2>3. Decide(Version(r), head[r])' = Decide(Version(r), head[r])
    BY <2>1 DEF Version, Decide, HeadTree, HeldBy
  <2> QED BY <1>a, <2>1, <2>2, <2>3 DEF Publish
<1>6. CASE VerifyCommit(r)
  <2>1. /\ pc[r] = "verify" /\ UNCHANGED <<job, branch, head, built, made>>
        /\ pc'[r] = IF CommitIsRight(r) THEN "move" ELSE "failed"
    BY <1>a, <1>6 DEF VerifyCommit, Typed
  <2>2. PICK tree \in {built[r], NoTree}, n \in Nat :
           made[r].line = Append(head[r], [tree |-> tree, by |-> r, try |-> n])
    BY <1>a, <2>1 DEF Publish
  <2>3. CommitIsRight(r) => made[r].verified /\ tree = built[r]
    <3> DEFINE c == [tree |-> tree, by |-> r, try |-> n]
    <3>1. c \in Commit /\ head[r] \in Seq(Commit) /\ c.tree = tree
      BY <1>a, NoTreeIsATree DEF Typed, Commit
    <3> HIDE DEF c
    <3>2. Last(made[r].line) = c
      BY <2>2, <3>1, Appended DEF c
    <3> QED BY <3>1, <3>2 DEF CommitIsRight, HeadTree
  <2>4. Decide(Version(r), head[r])' = Decide(Version(r), head[r])
    BY <2>1 DEF Version, Decide, HeadTree, HeldBy
  <2> QED BY <1>a, <2>1, <2>2, <2>3, <2>4 DEF Publish
<1>7. CASE Transient(r)
  <2>1. /\ UNCHANGED <<job, branch, head, built, made>>
        /\ pc'[r] = pc[r] \/ pc'[r] \in {"failed", "notmoved"}
    BY <1>a, <1>7 DEF Transient, Typed
  <2>2. Decide(Version(r), head[r])' = Decide(Version(r), head[r])
    BY <2>1 DEF Version, Decide, HeadTree, HeldBy
  <2> QED BY <1>a, <2>1, <2>2 DEF Publish
<1> QED BY <1>2, <1>3, <1>4, <1>5, <1>6, <1>7 DEF Run

\* Every step keeps the invariant.
LEMMA ReleaseStep ==
  ASSUME ReleaseInv, [Next]_vars
  PROVE  ReleaseInv'
<1>1. Typed' /\ OneOfAKind'
  BY TypedStep, KindsStayApart DEF ReleaseInv
<1>2. ASSUME NEW r \in Runs, Run(r) \/ Rerun(r) PROVE Runwise'
  <2>1. \A s \in Runs \ {r} : Build(s)' /\ Publish(s)'
    BY <1>2, OthersUntouched, PartKept DEF ReleaseInv
  <2>2. job' = job
    BY <1>2, OthersUntouched DEF ReleaseInv
  <2>3. Build(r)' /\ Publish(r)'
    BY <1>2, <2>2, BuildStep, PublishStep, PartKept
  <2> QED BY <2>1, <2>3 DEF Runwise
<1>3. ASSUME Revert \/ UNCHANGED vars PROVE Runwise'
  <2>1. job' = job /\ \A s \in Runs : UNCHANGED Part(s)
    BY <1>3 DEF Revert, vars, local, Part
  <2> QED BY <2>1, PartKept DEF Runwise
<1> QED BY <1>1, <1>2, <1>3 DEF Next, ReleaseInv

\* It holds throughout a release.
LEMMA Invariance == Spec => []ReleaseInv
<1>1. ReleaseInv /\ [Next]_vars => ReleaseInv'
  BY ReleaseStep
<1> QED BY <1>1, InitReleaseInv, PTL DEF Spec

------------------------------------------------------------------------------
(* The theorems.                                                           *)

\* Whatever makes the branch another one adds one commit to it: a person's, or
\* that of a run that read the branch as it is and decided to create.
LEMMA NewHead ==
  ASSUME ReleaseInv, [Next]_vars, branch' # branch
  PROVE  \E c \in Commit :
           /\ branch' = Append(branch, c) /\ Last(branch') = c /\ Front(branch') = branch
           /\ c.by \in Runs =>
                /\ pc[c.by] = "move" /\ branch = head[c.by] /\ c.tree = built[c.by]
                /\ UNCHANGED <<pypi, tested, made, job, mine>>
<1>0. branch \in Seq(Commit) /\ Typed
  BY DEF ReleaseInv, Typed
<1>1. ASSUME NEW c \in Commit, branch' = Append(branch, c),
             c.by \in Runs =>
                /\ pc[c.by] = "move" /\ branch = head[c.by] /\ c.tree = built[c.by]
                /\ UNCHANGED <<pypi, tested, made, job, mine>>
      PROVE  \E d \in Commit :
               /\ branch' = Append(branch, d) /\ Last(branch') = d /\ Front(branch') = branch
               /\ d.by \in Runs =>
                    /\ pc[d.by] = "move" /\ branch = head[d.by] /\ d.tree = built[d.by]
                    /\ UNCHANGED <<pypi, tested, made, job, mine>>
  <2>1. Last(branch') = c /\ Front(branch') = branch
    BY <1>0, <1>1, Appended
  <2> QED BY <1>1, <2>1
<1>2. ASSUME NEW r \in Runs, MoveBranch(r) \/ MoveUnanswered(r)
      PROVE  \E c \in Commit :
               /\ branch' = Append(branch, c)
               /\ c.by \in Runs =>
                    /\ pc[c.by] = "move" /\ branch = head[c.by] /\ c.tree = built[c.by]
                    /\ UNCHANGED <<pypi, tested, made, job, mine>>
  <2>1. /\ branch = head[r] /\ pc[r] = "move"
        /\ \E n \in Nat : branch' = Append(branch, [tree |-> built[r], by |-> r, try |-> n])
    BY <1>2, MoveAdds
  <2>2. PICK n \in Nat : branch' = Append(branch, [tree |-> built[r], by |-> r, try |-> n])
    BY <2>1
  <2> DEFINE c == [tree |-> built[r], by |-> r, try |-> n]
  <2>3. c \in Commit /\ c.by = r /\ c.tree = built[r]
    BY <1>0 DEF Typed, Commit
  <2>4. UNCHANGED <<pypi, tested, made, job, mine>>
    BY <1>2 DEF MoveBranch, MoveUnanswered, local
  <2>5. branch' = Append(branch, c)
    BY <2>2
  <2> HIDE DEF c
  <2> QED BY <2>1, <2>3, <2>4, <2>5
<1>3. CASE Revert
  <2>1. PICK c \in Commit : branch' = Append(branch, c)
    BY BranchGrows
  <2>2. c = Last(branch')
    BY <1>0, <2>1, Appended
  <2>3. \E tree : branch' = Append(branch, [tree |-> tree, by |-> "person", try |-> 0])
    BY <1>3 DEF Revert
  <2>4. PICK tree : branch' = Append(branch, [tree |-> tree, by |-> "person", try |-> 0])
    BY <2>3
  <2>5. c = [tree |-> tree, by |-> "person", try |-> 0]
    <3> DEFINE d == [tree |-> tree, by |-> "person", try |-> 0]
    <3>1. Append(branch, c)[Len(branch) + 1] = c /\ Append(branch, d)[Len(branch) + 1] = d
      BY <1>0
    <3> HIDE DEF d
    <3> QED BY <2>1, <2>4, <3>1 DEF d
  <2>6. c.by \notin Runs
    BY <2>5, RunsAssumption
  <2> QED BY <1>1, <2>1, <2>6
<1>4. ASSUME NEW r \in Runs, Run(r) \/ Rerun(r), ~MoveBranch(r), ~MoveUnanswered(r)
      PROVE  FALSE
  BY <1>4 DEF Run, Rerun, CheckExisting, Upload, WaitPypi, WaitTimesOut, ReleaseFiles, Lock,
     Smoke, ReadState, DecideWhat, CreateCommit, VerifyCommit, Transient
<1>5. CASE UNCHANGED vars
  BY <1>5 DEF vars
<1>6. ASSUME NEW r \in Runs, MoveBranch(r) \/ MoveUnanswered(r)
      PROVE  \E d \in Commit :
               /\ branch' = Append(branch, d) /\ Last(branch') = d /\ Front(branch') = branch
               /\ d.by \in Runs =>
                    /\ pc[d.by] = "move" /\ branch = head[d.by] /\ d.tree = built[d.by]
                    /\ UNCHANGED <<pypi, tested, made, job, mine>>
  BY <1>1, <1>2, <1>6
<1> QED BY <1>3, <1>4, <1>5, <1>6 DEF Next, Run

\* What a run is about to put on the branch is a version newer than its head,
\* and one it never held.
LEMMA CreatedIsNew ==
  ASSUME ReleaseInv, NEW r \in Runs, pc[r] = "move"
  PROVE  /\ built[r].version = Version(r) /\ Version(r) \in Nat \ {0}
         /\ head[r] # << >> => /\ Version(r) > HeadTree(head[r]).version
                               /\ Version(r) \notin HeldBy(head[r])
<1>1. Build(r) /\ Publish(r) /\ Typed
  BY DEF ReleaseInv, Runwise
<1>2. built[r].version = Version(r)
  BY <1>1 DEF Build
<1>3. Version(r) \in Nat \ {0}
  BY <1>1, JobsAssumption DEF Typed, Version
<1>4. Decide(Version(r), head[r]) = "create"
  BY <1>1 DEF Publish
<1>5. ASSUME head[r] # << >>
      PROVE  /\ Version(r) > HeadTree(head[r]).version
             /\ Version(r) \notin HeldBy(head[r])
  <2>1. HeadTree(head[r]).version \in Nat
    <3>1. head[r] \in Seq(Commit) /\ Len(head[r]) \in 1..Len(head[r])
      BY <1>1, <1>5 DEF Typed
    <3>2. head[r][Len(head[r])] \in Commit
      BY <3>1, ElementOfSeq
    <3> QED BY <3>2 DEF HeadTree, Last, Commit, Tree
  <2>2. /\ HeadTree(head[r]).version # Version(r)
        /\ ~(Version(r) < HeadTree(head[r]).version)
        /\ Version(r) \notin HeldBy(head[r])
    BY <1>4, <1>5 DEF Decide
  <2> QED BY <1>3, <2>1, <2>2
<1> QED BY <1>2, <1>3, <1>5

\* No two commits that publish made hold one version: publish reads the whole
\* history of the head it commits on (decide, claude_plugin_release.py).
THEOREM VersionsPublishedOnce == Spec => []PublishedOnce
<1>1. Init => PublishedOnce
  BY DEF Init, PublishedOnce
<1>2. ReleaseInv /\ PublishedOnce /\ [Next]_vars => PublishedOnce'
  <2> SUFFICES ASSUME ReleaseInv, PublishedOnce, [Next]_vars, branch' # branch
               PROVE  PublishedOnce'
    BY DEF PublishedOnce
  <2>1. PICK c \in Commit :
           /\ branch' = Append(branch, c)
           /\ c.by \in Runs =>
                pc[c.by] = "move" /\ branch = head[c.by] /\ c.tree = built[c.by]
    BY NewHead
  <2>2. /\ branch \in Seq(Commit) /\ branch' \in Seq(Commit) /\ Len(branch) \in Nat
        /\ Len(branch') = Len(branch) + 1 /\ branch'[Len(branch) + 1] = c
        /\ \A i \in 1..Len(branch) : branch'[i] = branch[i]
    BY <2>1, Appended DEF ReleaseInv, Typed
  <2>3. DOMAIN branch = 1..Len(branch) /\ DOMAIN branch' = 1..(Len(branch) + 1)
    BY <2>2
  <2>4. ASSUME NEW i \in 1..Len(branch), c.by \in Runs
        PROVE  branch[i].tree.version # c.tree.version
    <3>1. c.tree.version \notin HeldBy(branch) /\ c.tree.version # 0
      BY <2>1, <2>2, <2>4, CreatedIsNew
    <3> QED BY <2>3, <3>1 DEF HeldBy
  <2>5. ASSUME NEW i \in DOMAIN branch', NEW j \in DOMAIN branch', i < j,
               {branch'[i].by, branch'[j].by} \subseteq Runs
        PROVE  branch'[i].tree.version # branch'[j].tree.version
    <3>1. CASE j = Len(branch) + 1
      <4>1. i \in 1..Len(branch) /\ branch'[i] = branch[i] /\ branch'[j] = c
        BY <2>2, <2>3, <2>5, <3>1
      <4> QED BY <2>4, <2>5, <4>1
    <3>2. CASE j # Len(branch) + 1
      <4>1. /\ i \in 1..Len(branch) /\ j \in 1..Len(branch)
            /\ branch'[i] = branch[i] /\ branch'[j] = branch[j]
        BY <2>2, <2>3, <2>5, <3>2
      <4> QED BY <2>3, <2>5, <4>1 DEF PublishedOnce
    <3> QED BY <3>1, <3>2
  <2> QED BY <2>5 DEF PublishedOnce
<1> QED BY <1>1, <1>2, Invariance, PTL DEF Spec

\* Publishing adds to the branch as it is, and forward: the fast-forward is from
\* the head that was read (move_ref, claude_plugin_release.py).
THEOREM PublishesOnlyForward == Spec => PublishesForward
<1> DEFINE Forward ==
      branch' # branch /\ Last(branch').by \in Runs =>
          /\ Front(branch') = branch
          /\ branch # << >> => HeadTree(branch').version > HeadTree(branch).version
<1>1. ReleaseInv /\ [Next]_vars => Forward
  <2> SUFFICES ASSUME ReleaseInv, [Next]_vars, branch' # branch, Last(branch').by \in Runs
               PROVE  /\ Front(branch') = branch
                      /\ branch # << >> => HeadTree(branch').version > HeadTree(branch).version
    OBVIOUS
  <2>1. PICK c \in Commit :
           /\ Last(branch') = c /\ Front(branch') = branch
           /\ c.by \in Runs =>
                pc[c.by] = "move" /\ branch = head[c.by] /\ c.tree = built[c.by]
    BY NewHead
  <2>2. HeadTree(branch').version = Version(c.by) /\ branch = head[c.by]
    BY <2>1, CreatedIsNew DEF HeadTree
  <2> QED BY <2>1, <2>2, CreatedIsNew
<1> QED BY <1>1, Invariance, PTL DEF Spec, PublishesForward

\* What gets on the branch is the signed tree the smoke jobs passed, with the
\* files PyPI holds, the run's own if it uploaded them (publish, pypi_release_files).
THEOREM PublishesOnlyTheTested == Spec => PublishesWhatWasTested
<1> DEFINE Tested ==
      \A r \in Runs : branch' # branch /\ Last(branch').by = r =>
          LET tree == HeadTree(branch')
          IN /\ tree = tested[r] /\ made[r].verified /\ ~job[r].dry
             /\ tree.version = Version(r)
             /\ tree.files = ToSet(pypi[Version(r)]) /\ Complete(tree.files)
             /\ mine[r] => Cardinality({f.try : f \in tree.files}) = 1
             /\ mine[r] => {f.by : f \in tree.files} = {r}
<1>1. ReleaseInv /\ [Next]_vars => Tested
  <2> SUFFICES ASSUME ReleaseInv, [Next]_vars, NEW r \in Runs,
                      branch' # branch, Last(branch').by = r
               PROVE  LET tree == HeadTree(branch')
                      IN /\ tree = tested[r] /\ made[r].verified /\ ~job[r].dry
                         /\ tree.version = Version(r)
                         /\ tree.files = ToSet(pypi[Version(r)]) /\ Complete(tree.files)
                         /\ mine[r] => Cardinality({f.try : f \in tree.files}) = 1
                         /\ mine[r] => {f.by : f \in tree.files} = {r}
    OBVIOUS
  <2>1. pc[r] = "move" /\ HeadTree(branch') = built[r]
    BY NewHead DEF HeadTree
  <2>2. Build(r) /\ Publish(r) /\ Typed
    BY DEF ReleaseInv, Runwise
  <2>3. /\ tested[r] = built[r] /\ built[r] # NoTree
        /\ made[r].verified /\ ~job[r].dry /\ built[r].version = Version(r)
        /\ job[r].source = "pypi"
    <3>1. tested[r] # NoTree /\ tested[r] = built[r]
      BY <2>1, <2>2 DEF Build
    <3>2. /\ made[r].verified /\ ~job[r].dry /\ (job[r].source = "local" => job[r].dry)
      BY <2>1, <2>2 DEF Publish
    <3>3. job[r].source \in {"pypi", "local"}
      BY <2>2, JobsAssumption DEF Typed
    <3>4. built[r].version = Version(r)
      BY <2>2, <3>1 DEF Build
    <3> QED BY <3>1, <3>2, <3>3, <3>4
  <2>4. Whole(r, built[r].files) /\ (mine[r] => Own(r, built[r].files))
    BY <2>2, <2>3 DEF Build
  <2>5. ASSUME mine[r]
        PROVE  /\ Cardinality({f.try : f \in built[r].files}) = 1
               /\ {f.by : f \in built[r].files} = {r}
    <3>1. PICK n \in Nat : built[r].files = {[kind |-> k, by |-> r, try |-> n] : k \in Kinds}
      BY <2>4, <2>5 DEF Own
    <3> DEFINE files == built[r].files
    <3>2. \A f \in files : f.try = n /\ f.by = r
      BY <3>1
    <3>3. PICK f \in files : TRUE
      BY <3>1, "wheel" \in Kinds DEF Kinds
    <3> HIDE DEF files
    <3>4. {g.try : g \in files} = {n}
      BY <3>2, <3>3
    <3>5. {g.by : g \in files} = {r}
      BY <3>2, <3>3
    <3> QED BY <3>4, <3>5, FS_Singleton DEF files
  <2> QED BY <2>1, <2>3, <2>4, <2>5 DEF Whole
<1> QED BY <1>1, Invariance, PTL DEF Spec, PublishesWhatWasTested
============================================================================
