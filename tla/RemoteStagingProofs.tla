------------------------ MODULE RemoteStagingProofs -------------------------
(***************************************************************************)
(* The staging sessions of RemoteStaging, for any number of them and of    *)
(* paths: a command sees whole inputs, a fetch that no other overlapped    *)
(* delivers its own result, and a directory left behind is explained.      *)
(***************************************************************************)
EXTENDS RemoteStaging, TLAPS

\* From mktemp's answer to the teardown a session has its directory; one that is
\* there has a name, or no one knows of it; behind the teardown one that is still
\* there was warned of.
Roots ==
  \A s \in Sessions :
    /\ pc[s] \in {"idle", "connected", "probed"} => s \notin roots
    /\ pc[s] \in {"rooted", "ready", "upload", "extract", "unarchive", "running", "fetch", "pack",
                  "unpack", "half", "droptar", "rename"} => s \in roots
    /\ s \in roots => known[s] \/ unnamed[s]
    /\ pc[s] \in {"close", "done"} /\ s \in roots => warned[s] \/ unnamed[s]

\* What lies in a session's directory while it is staged: one slot at most is not
\* complete, and only beside that one an archive.
Stage ==
  \A s \in Sessions :
    /\ pc[s] \in {"idle", "connected", "probed", "rooted", "ready", "running"} =>
         full[s] = staged[s] /\ tars[s] = {}
    /\ pc[s] \in {"upload", "extract"} => staged[s] = full[s] \cup {slots[s]}
    /\ pc[s] = "upload" => tars[s] = {}
    /\ pc[s] = "unarchive" => full[s] = staged[s]
    /\ pc[s] \in {"extract", "unarchive"} => tars[s] = {slots[s]}
    /\ pc[s] \in {"upload", "extract", "pack"} => slots[s] \in Slots

\* The body has an outcome only when it is over, or on its way out with a failure.
Outcomes ==
  \A s \in Sessions :
    /\ pc[s] \notin {"droptar", "remove", "close", "done"} => outcome[s] = "none"
    /\ pc[s] = "droptar" => outcome[s] # "ok"
    /\ pc[s] \in {"fetch", "pack", "unpack", "half", "droptar", "rename"} => scratch[s] \in Slots

\* Two fetches that use one extraction path at the same time are both noted.
RivalsNoted ==
  \A s, u \in Sessions :
    s # u /\ InWindow(s) /\ InWindow(u) /\ scratch[s] = scratch[u] => overlapped[s]

\* What a fetch that no other overlapped has unpacked so far, and delivered.
Unpacked ==
  \A s \in Sessions : ~overlapped[s] =>
    /\ pc[s] \in {"pack", "unpack"} => local[scratch[s]] = {}
    /\ pc[s] = "half" => local[scratch[s]] = {<<s, 1>>}
    /\ pc[s] = "rename" \/ (pc[s] = "droptar" /\ outcome[s] = "none") =>
         local[scratch[s]] = Whole(s)
    /\ outcome[s] = "ok" /\ scratch[s] > 0 => local[s] = Whole(s)

IInv == TypeOK /\ Roots /\ Stage /\ Outcomes /\ RivalsNoted /\ Unpacked

------------------------------------------------------------------------------
\* The initial states satisfy the invariant.
LEMMA InitIInv == Init => IInv
<1> SUFFICES ASSUME Init PROVE IInv
  OBVIOUS
<1> USE DEF Init
<1>1. TypeOK
  <2>1. 0 \in 0 .. MaxSlots
    BY ConstantsAssumption
  <2> QED BY <2>1 DEF TypeOK, Places
<1>2. Roots BY DEF Roots
<1>3. Stage BY DEF Stage
<1>4. Outcomes BY DEF Outcomes
<1>5. RivalsNoted BY DEF RivalsNoted, InWindow
<1>6. Unpacked BY DEF Unpacked
<1> QED BY <1>1, <1>2, <1>3, <1>4, <1>5, <1>6 DEF IInv
------------------------------------------------------------------------------
\* A step of session s.
StepOf(s) ==
  \/ Connects(s) \/ Refuses(s) \/ Opening(s) \/ Staging(s)
  \/ Runs(s) \/ CommandEnds(s) \/ RunReturns(s) \/ RunReturnsToFetch(s)
  \/ Fetching(s) \/ Fails(s) \/ LinkDrops(s) \/ Closing(s)

\* Every step of a session is typed.
LEMMA TypeStep ==
  ASSUME TypeOK, Stage, Outcomes, NEW s \in Sessions, StepOf(s)
  PROVE  TypeOK'
<1> USE DEF TypeOK, Places, Moves, RemoteMoves, Set, Add, sessionVars, slotVars
<1>1. CASE Connects(s) \/ Refuses(s) \/ LinkDrops(s)
  BY <1>1 DEF Connects, Refuses, LinkDrops
<1>2. CASE Opening(s)
  BY <1>2 DEF Opening, DetectsDialect, MakesRoot, RootUnnamed, OpensSftp
<1>3. CASE Staging(s)
  <2>1. slots[s] < MaxSlots => slots[s] + 1 \in Slots
    BY ConstantsAssumption DEF Slots
  <2>2. pc[s] \in {"upload", "extract"} => slots[s] \in Slots
    BY DEF Stage
  <2>3. CASE StagesTree(s)
    BY <2>1, <2>3 DEF StagesTree, NewSlot, Slots
  <2>4. CASE StagesFile(s)
    BY <2>1, <2>4 DEF StagesFile, NewSlot, Slots
  <2>5. CASE Uploads(s)
    BY <2>2, <2>5 DEF Uploads
  <2>6. CASE Extracts(s)
    BY <2>2, <2>6 DEF Extracts
  <2>7. CASE RemovesArchive(s)
    BY <2>7 DEF RemovesArchive
  <2>8. CASE Reserves(s)
    BY <2>1, <2>8 DEF Reserves, NewSlot, Slots
  <2> QED BY <1>3, <2>3, <2>4, <2>5, <2>6, <2>7, <2>8 DEF Staging, StagesPath
<1>4. CASE Runs(s) \/ CommandEnds(s) \/ RunReturns(s) \/ RunReturnsToFetch(s)
  BY <1>4 DEF Runs, CommandEnds, RunReturns, RunReturnsToFetch
<1>5. CASE Fails(s)
  BY <1>5 DEF Fails, Ends
<1>6. CASE Closing(s)
  BY <1>6 DEF Closing, RemovesRoot, RemoveFails, NothingToRemove, Closes
<1>7. CASE Fetching(s)
  <2>1. slots[s] < MaxSlots => slots[s] + 1 \in 0 .. MaxSlots
    BY ConstantsAssumption
  <2>2. pc[s] = "pack" => slots[s] \in Slots
    BY DEF Stage
  <2>3. Whole(s) \subseteq Sessions \X {1, 2} /\ {<<s, 1>>, <<s, 2>>} \subseteq Sessions \X {1, 2}
    BY DEF Whole
  <2>4. CASE FetchesFile(s)
    BY <2>3, <2>4 DEF FetchesFile, Ends
  <2>5. CASE FetchesDirectory(s)
    <3>1. overlapped' \in [Sessions -> BOOLEAN]
      BY <2>5 DEF FetchesDirectory
    <3> QED BY <2>1, <2>5, <3>1 DEF FetchesDirectory, NewSlot
  <2>6. CASE Packs(s)
    BY <2>2, <2>6 DEF Packs
  <2>7. CASE UnpacksSome(s)
    BY <2>3, <2>7 DEF UnpacksSome
  <2>8. CASE UnpacksRest(s)
    BY <2>3, <2>8 DEF UnpacksRest
  <2>9. CASE RemovesDownload(s)
    BY <2>9 DEF RemovesDownload
  <2>10. CASE Renames(s)
    <3>1. local[scratch[s]] \subseteq Sessions \X {1, 2}
      BY <2>10 DEF Renames, Outcomes, Names
    <3>2. local' \in [Names -> SUBSET (Sessions \X {1, 2})]
      BY <2>10, <3>1 DEF Renames
    <3> QED BY <2>10, <3>2 DEF Renames, Ends
  <2> QED BY <1>7, <2>4, <2>5, <2>6, <2>7, <2>8, <2>9, <2>10 DEF Fetching
<1> QED BY <1>1, <1>2, <1>3, <1>4, <1>5, <1>6, <1>7 DEF StepOf
\* A session's directory is there as long as it should be.
LEMMA RootsStep ==
  ASSUME TypeOK, Roots, NEW s \in Sessions, StepOf(s)
  PROVE  Roots'
<1> USE DEF TypeOK, Roots, Moves, RemoteMoves, Set, sessionVars
<1>1. CASE Connects(s) \/ Refuses(s) \/ LinkDrops(s)
  BY <1>1 DEF Connects, Refuses, LinkDrops
<1>2. CASE Opening(s)
  BY <1>2 DEF Opening, DetectsDialect, MakesRoot, RootUnnamed, OpensSftp
<1>3. CASE Staging(s)
  BY <1>3 DEF Staging, StagesPath, StagesTree, StagesFile, Uploads, Extracts, RemovesArchive,
     Reserves
<1>4. CASE Runs(s) \/ CommandEnds(s) \/ RunReturns(s) \/ RunReturnsToFetch(s)
  BY <1>4 DEF Runs, CommandEnds, RunReturns, RunReturnsToFetch
<1>5. CASE Fetching(s)
  BY <1>5 DEF Fetching, FetchesFile, FetchesDirectory, Packs, UnpacksSome, UnpacksRest,
     RemovesDownload, Renames
<1>6. CASE Fails(s)
  BY <1>6 DEF Fails
<1>7. CASE Closing(s)
  BY <1>7 DEF Closing, RemovesRoot, RemoveFails, NothingToRemove, Closes
<1> QED BY <1>1, <1>2, <1>3, <1>4, <1>5, <1>6, <1>7 DEF StepOf

\* What is staged is completed one slot after the other.
LEMMA StageStep ==
  ASSUME TypeOK, Stage, NEW s \in Sessions, StepOf(s)
  PROVE  Stage'
<1> USE DEF TypeOK, Stage, Moves, RemoteMoves, Set, Add, slotVars
<1>1. CASE Connects(s) \/ Refuses(s) \/ LinkDrops(s)
  BY <1>1 DEF Connects, Refuses, LinkDrops
<1>2. CASE Opening(s)
  BY <1>2 DEF Opening, DetectsDialect, MakesRoot, RootUnnamed, OpensSftp
<1>3. CASE Staging(s)
  <2>1. slots[s] < MaxSlots => slots[s] + 1 \in Slots
    BY ConstantsAssumption DEF Slots
  <2>2. CASE StagesTree(s)
    BY <2>1, <2>2 DEF StagesTree, NewSlot
  <2>3. CASE StagesFile(s)
    BY <2>1, <2>3 DEF StagesFile, NewSlot
  <2>4. CASE Uploads(s)
    BY <2>4 DEF Uploads
  <2>5. CASE Extracts(s)
    BY <2>5 DEF Extracts
  <2>6. CASE RemovesArchive(s)
    BY <2>6 DEF RemovesArchive
  <2>7. CASE Reserves(s)
    BY <2>7 DEF Reserves, NewSlot
  <2> QED BY <1>3, <2>2, <2>3, <2>4, <2>5, <2>6, <2>7 DEF Staging, StagesPath
<1>4. CASE Runs(s) \/ CommandEnds(s) \/ RunReturns(s) \/ RunReturnsToFetch(s)
  BY <1>4 DEF Runs, CommandEnds, RunReturns, RunReturnsToFetch
<1>5. CASE Fetching(s)
  <2>1. slots[s] < MaxSlots => slots[s] + 1 \in Slots
    BY ConstantsAssumption DEF Slots
  <2>2. CASE FetchesDirectory(s)
    BY <2>1, <2>2 DEF FetchesDirectory, NewSlot
  <2> QED BY <1>5, <2>2 DEF Fetching, FetchesFile, Packs, UnpacksSome, UnpacksRest,
             RemovesDownload, Renames
<1>6. CASE Fails(s)
  BY <1>6 DEF Fails
<1>7. CASE Closing(s)
  BY <1>7 DEF Closing, RemovesRoot, RemoveFails, NothingToRemove, Closes
<1> QED BY <1>1, <1>2, <1>3, <1>4, <1>5, <1>6, <1>7 DEF StepOf

\* A body that is not over has no outcome, and one that fetches has a reserved path.
LEMMA OutcomesStep ==
  ASSUME TypeOK, Outcomes, NEW s \in Sessions, StepOf(s)
  PROVE  Outcomes'
<1> USE DEF TypeOK, Outcomes, Moves, RemoteMoves, Set, Ends, slotVars, Slots
<1>1. CASE Connects(s) \/ Refuses(s) \/ LinkDrops(s)
  BY <1>1 DEF Connects, Refuses, LinkDrops
<1>2. CASE Opening(s)
  BY <1>2 DEF Opening, DetectsDialect, MakesRoot, RootUnnamed, OpensSftp
<1>3. CASE Staging(s)
  BY <1>3 DEF Staging, StagesPath, StagesTree, StagesFile, Uploads, Extracts, RemovesArchive,
     Reserves
<1>4. CASE Runs(s) \/ CommandEnds(s) \/ RunReturns(s) \/ RunReturnsToFetch(s)
  BY <1>4 DEF Runs, CommandEnds, RunReturns, RunReturnsToFetch
<1>5. CASE Fetching(s)
  BY <1>5 DEF Fetching, FetchesFile, FetchesDirectory, Packs, UnpacksSome, UnpacksRest,
     RemovesDownload, Renames
<1>6. CASE Fails(s)
  BY <1>6 DEF Fails
<1>7. CASE Closing(s)
  BY <1>7 DEF Closing, RemovesRoot, RemoveFails, NothingToRemove, Closes
<1> QED BY <1>1, <1>2, <1>3, <1>4, <1>5, <1>6, <1>7 DEF StepOf

\* A fetch that starts notes the rivals it finds, and itself beside them; the
\* others leave the set of fetches under way as it is or make it smaller.
LEMMA RivalsStep ==
  ASSUME TypeOK, RivalsNoted, NEW s \in Sessions, StepOf(s)
  PROVE  RivalsNoted'
<1> USE DEF TypeOK, RivalsNoted, InWindow, Moves, RemoteMoves, Set, slotVars
<1>1. CASE Connects(s) \/ Refuses(s) \/ LinkDrops(s)
  BY <1>1 DEF Connects, Refuses, LinkDrops
<1>2. CASE Opening(s)
  BY <1>2 DEF Opening, DetectsDialect, MakesRoot, RootUnnamed, OpensSftp
<1>3. CASE Staging(s)
  BY <1>3 DEF Staging, StagesPath, StagesTree, StagesFile, Uploads, Extracts, RemovesArchive,
     Reserves
<1>4. CASE Runs(s) \/ CommandEnds(s) \/ RunReturns(s) \/ RunReturnsToFetch(s)
  BY <1>4 DEF Runs, CommandEnds, RunReturns, RunReturnsToFetch
<1>5. CASE Fetching(s)
  <2>1. CASE FetchesDirectory(s)
    <3>1. \A u \in Sessions : u # s => pc'[u] = pc[u]
      BY <2>1 DEF FetchesDirectory
    <3>2. scratch' = scratch
      BY <2>1 DEF FetchesDirectory
    <3>3. \A u \in Sessions : overlapped[u] => overlapped'[u]
      BY <2>1 DEF FetchesDirectory
    <3>4. \A u \in Sessions : u # s /\ InWindow(u) /\ scratch[u] = scratch[s] =>
            overlapped'[u] /\ overlapped'[s]
      BY <2>1 DEF FetchesDirectory, Rivals
    <3> QED BY <3>1, <3>2, <3>3, <3>4
  <2> QED BY <1>5, <2>1 DEF Fetching, FetchesFile, Packs, UnpacksSome, UnpacksRest,
             RemovesDownload, Renames
<1>6. CASE Fails(s)
  BY <1>6 DEF Fails
<1>7. CASE Closing(s)
  BY <1>7 DEF Closing, RemovesRoot, RemoveFails, NothingToRemove, Closes
<1> QED BY <1>1, <1>2, <1>3, <1>4, <1>5, <1>6, <1>7 DEF StepOf
\* Local names of slots and of destinations do not meet.
LEMMA NamesApart == \A s \in Sessions : s \in Names /\ s \notin Slots
BY ConstantsAssumption DEF Names, Slots

\* A fetch that no other overlapped is alone on its extraction path: what lies
\* there is what it has unpacked itself.
LEMMA UnpackedStep ==
  ASSUME TypeOK, Outcomes, RivalsNoted, Unpacked, NEW s \in Sessions, StepOf(s)
  PROVE  Unpacked'
<1> USE DEF TypeOK, Moves, RemoteMoves, Set, Ends, slotVars
<1>1. CASE Connects(s) \/ Refuses(s) \/ LinkDrops(s)
  BY <1>1 DEF Connects, Refuses, LinkDrops, Unpacked, Outcomes, Whole
<1>2. CASE Opening(s)
  BY <1>2 DEF Opening, DetectsDialect, MakesRoot, RootUnnamed, OpensSftp, Unpacked, Whole
<1>3. CASE Staging(s)
  <2>1. outcome[s] = "none"
    BY <1>3 DEF Staging, StagesPath, StagesTree, StagesFile, Uploads, Extracts, RemovesArchive,
       Reserves, Outcomes
  <2> QED BY <1>3, <2>1 DEF Staging, StagesPath, StagesTree, StagesFile, Uploads, Extracts,
             RemovesArchive, Reserves, Unpacked, Whole
<1>4. CASE Runs(s) \/ CommandEnds(s) \/ RunReturns(s) \/ RunReturnsToFetch(s)
  <2>1. \A w \in Sessions : outcome'[w] = "ok" /\ scratch[w] > 0 => outcome[w] = "ok"
    BY <1>4 DEF Runs, CommandEnds, RunReturns, RunReturnsToFetch
  <2> QED BY <1>4, <2>1 DEF Runs, CommandEnds, RunReturns, RunReturnsToFetch, Unpacked, Whole
<1>5. CASE Fetching(s)
  <2>1. pc[s] \in {"fetch", "pack", "unpack", "half", "droptar", "rename"} /\ scratch[s] \in Slots
    BY <1>5 DEF Fetching, FetchesFile, FetchesDirectory, Packs, UnpacksSome, UnpacksRest,
       RemovesDownload, Renames, Outcomes
  <2>2. \A w \in Sessions \ {s} : InWindow(w) /\ InWindow(s) /\ ~overlapped[w] =>
          scratch[w] # scratch[s]
    BY DEF RivalsNoted
  <2>3. scratch[s] \in Names /\ \A w \in Sessions : w \in Names /\ w # scratch[s]
    BY <2>1, NamesApart DEF Names
  <2>4. \A w \in Sessions : InWindow(w) => scratch[w] \in Slots /\ scratch[w] \in Names
                                            /\ scratch[w] # s
    BY NamesApart DEF InWindow, Outcomes, Names
  <2>5. CASE FetchesFile(s)
    BY <2>1, <2>3, <2>4, <2>5 DEF FetchesFile, Unpacked, Whole, InWindow
  <2>6. CASE FetchesDirectory(s)
    <3>1. \A w \in Sessions : overlapped[w] => overlapped'[w]
      BY <2>6 DEF FetchesDirectory
    <3> QED BY <2>6, <3>1 DEF FetchesDirectory, ExtractionPathFree, NewSlot, Unpacked, Whole,
               Outcomes
  <2>7. CASE Packs(s)
    BY <2>7 DEF Packs, Unpacked, Whole
  <2>8. CASE UnpacksSome(s)
    BY <2>1, <2>2, <2>3, <2>4, <2>8 DEF UnpacksSome, Add, Unpacked, Whole, InWindow, Outcomes
  <2>9. CASE UnpacksRest(s)
    BY <2>1, <2>2, <2>3, <2>4, <2>9 DEF UnpacksRest, Add, Unpacked, Whole, InWindow, Outcomes
  <2>10. CASE RemovesDownload(s)
    BY <2>10 DEF RemovesDownload, Unpacked, Whole, Outcomes
  <2>11. CASE Renames(s)
    BY <2>1, <2>2, <2>3, <2>4, <2>11 DEF Renames, Unpacked, Whole, InWindow, Outcomes
  <2> QED BY <1>5, <2>5, <2>6, <2>7, <2>8, <2>9, <2>10, <2>11 DEF Fetching
<1>6. CASE Fails(s)
  BY <1>6 DEF Fails, Unpacked, Whole
<1>7. CASE Closing(s)
  BY <1>7 DEF Closing, RemovesRoot, RemoveFails, NothingToRemove, Closes, Unpacked, Whole
<1> QED BY <1>1, <1>2, <1>3, <1>4, <1>5, <1>6, <1>7 DEF StepOf

------------------------------------------------------------------------------
\* A step of a session, or none at all, keeps the invariant.
LEMMA NextIInv == IInv /\ [Next]_vars => IInv'
<1> SUFFICES ASSUME IInv, [Next]_vars PROVE IInv'
  OBVIOUS
<1>1. CASE UNCHANGED vars
  <2> USE <1>1 DEF IInv, vars, sessionVars, slotVars
  <2>1. TypeOK' BY DEF TypeOK
  <2>2. Roots' BY DEF Roots
  <2>3. Stage' BY DEF Stage
  <2>4. Outcomes' BY DEF Outcomes
  <2>5. RivalsNoted' BY DEF RivalsNoted, InWindow
  <2>6. Unpacked' BY DEF Unpacked
  <2> QED BY <2>1, <2>2, <2>3, <2>4, <2>5, <2>6
<1>2. ASSUME NEW s \in Sessions, StepOf(s) PROVE IInv'
  BY <1>2, TypeStep, RootsStep, StageStep, OutcomesStep, RivalsStep, UnpackedStep DEF IInv
<1> QED BY <1>1, <1>2 DEF Next, StepOf

LEMMA Invariance == Spec => []IInv
<1> QED BY InitIInv, NextIInv, PTL DEF Spec

\* The variables keep their types, for any number of sessions and of slots.
THEOREM TypeCorrect == Spec => []TypeOK
<1>1. IInv => TypeOK
  BY DEF IInv
<1> QED BY <1>1, Invariance, PTL

\* The docker command of a session sees whole inputs and no archive among them,
\* and a fetch that shared its extraction path with no other delivers the whole
\* remote result and nothing of another call (RemoteStagingSession.fetch_path).
THEOREM TransfersStayWhole == Spec => []TransfersAreWhole
<1>1. IInv => TransfersAreWhole
  BY DEF IInv, Roots, Stage, Unpacked, TransfersAreWhole
<1> QED BY <1>1, Invariance, PTL

\* A session that is over left its directory behind only for a reason the
\* operator can see (_remove_stage_root).
THEOREM LeaksAreExplained == Spec => []LeakIsExplained
<1>1. IInv => LeakIsExplained
  BY DEF IInv, Roots, LeakIsExplained
<1> QED BY <1>1, Invariance, PTL

\* A destination is written once, by the fetch that then succeeds: extraction
\* paths and destinations never meet, and no other step writes locally.
THEOREM DestinationsStayFinal == Spec => DestinationIsFinal
<1> DEFINE Final == \A s \in Sessions :
      local'[s] # local[s] => local[s] = {} /\ outcome[s] = "none" /\ outcome'[s] = "ok"
<1>1. IInv /\ [Next]_vars => [Final]_vars
  <2> SUFFICES ASSUME IInv, NEW u \in Sessions, StepOf(u), NEW s \in Sessions,
                      local'[s] # local[s]
               PROVE  local[s] = {} /\ outcome[s] = "none" /\ outcome'[s] = "ok"
    BY DEF Next, StepOf
  <2> USE DEF IInv, TypeOK, Outcomes, Moves, RemoteMoves, Set, Ends
  <2>1. scratch[u] \in Slots => scratch[u] # s /\ scratch[u] \in Names /\ s \in Names
    BY NamesApart DEF Names
  <2>2. Fetching(u)
    BY DEF StepOf, Connects, Refuses, LinkDrops, Opening, DetectsDialect, MakesRoot, RootUnnamed,
       OpensSftp, Staging, StagesPath, StagesTree, StagesFile, Uploads, Extracts, RemovesArchive,
       Reserves, Runs, CommandEnds, RunReturns, RunReturnsToFetch, Fails, Closing, RemovesRoot,
       RemoveFails, NothingToRemove, Closes
  <2>3. FetchesFile(u) \/ Renames(u)
    BY <2>1, <2>2 DEF Fetching, FetchesDirectory, Packs, UnpacksSome, UnpacksRest,
       RemovesDownload, Add
  <2>4. u = s
    BY <2>1, <2>3 DEF FetchesFile, Renames
  <2> QED BY <2>3, <2>4 DEF FetchesFile, Renames
<1> QED BY <1>1, Invariance, PTL DEF Spec, DestinationIsFinal
=============================================================================
