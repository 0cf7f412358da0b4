------------------------ MODULE RegistryHttpProofs ------------------------
(***************************************************************************)
(* The registry client of RegistryHttp, for every page size, limit and     *)
(* retry policy: a blip is absorbed at a bounded cost, a list that says    *)
(* nothing of a cut is whole, and a config belongs to the image that was   *)
(* looked up.                                                              *)
(***************************************************************************)
EXTENDS RegistryHttp, FiniteSetTheorems, TLAPS

------------------------------------------------------------------------------
(* Least and greatest elements, and ranks.                                 *)

LEMMA LeastElement ==
  ASSUME NEW S \in SUBSET Nat, S # {}
  PROVE  \E m \in S : \A n \in S : m <= n
<1>1. PICK m \in S : \A n \in S : <<n, m>> \notin OpToRel(<, Nat)
  BY NatLessThanWellFounded, WFMin
<1>2. ASSUME NEW n \in S PROVE m <= n
  <2>1. ~(n < m)
    BY <1>1 DEF OpToRel
  <2> QED BY <2>1
<1> QED BY <1>2

\* How many of S lie below t.
Rank(S, t) == Cardinality({u \in S : u < t})

LEMMA RankType ==
  ASSUME NEW S, IsFiniteSet(S), NEW t
  PROVE  Rank(S, t) \in Nat
<1>1. {u \in S : u < t} \in SUBSET S
  OBVIOUS
<1> QED BY <1>1, FS_Subset, FS_CardinalityType DEF Rank

\* More tags rank a tag higher, and so does a larger tag.
LEMMA RankGrows ==
  ASSUME NEW S, NEW T, IsFiniteSet(T), S \subseteq T, NEW t
  PROVE  Rank(S, t) <= Rank(T, t)
<1>1. {u \in S : u < t} \in SUBSET {u \in T : u < t}
  OBVIOUS
<1>2. IsFiniteSet({u \in T : u < t})
  <2>1. {u \in T : u < t} \in SUBSET T
    OBVIOUS
  <2> QED BY <2>1, FS_Subset
<1> QED BY <1>1, <1>2, FS_Subset DEF Rank

LEMMA RankIsMonotone ==
  ASSUME NEW S \in SUBSET Nat, IsFiniteSet(S), NEW t \in Nat, NEW v \in Nat, t <= v
  PROVE  Rank(S, t) <= Rank(S, v)
<1>1. {u \in S : u < t} \in SUBSET {u \in S : u < v}
  <2>1. \A u \in S : u < t => u < v
    <3> TAKE u \in S
    <3>1. u \in Nat
      OBVIOUS
    <3> QED BY <3>1
  <2> QED BY <2>1
<1>2. IsFiniteSet({u \in S : u < v})
  <2>1. {u \in S : u < v} \in SUBSET S
    OBVIOUS
  <2> QED BY <2>1, FS_Subset
<1> QED BY <1>1, <1>2, FS_Subset DEF Rank

LEMMA GreatestElement ==
  ASSUME NEW S \in SUBSET Nat, IsFiniteSet(S), S # {}
  PROVE  Max(S) \in S /\ \A n \in S : n <= Max(S)
<1> DEFINE Above(t) == {u \in S : u > t}
<1>1. ASSUME NEW t \in S PROVE IsFiniteSet(Above(t)) /\ Cardinality(Above(t)) \in Nat
  <2>1. Above(t) \in SUBSET S
    OBVIOUS
  <2> QED BY <2>1, FS_Subset, FS_CardinalityType
<1>2. PICK m \in S : \A t \in S : Cardinality(Above(m)) <= Cardinality(Above(t))
  <2> DEFINE R == {Cardinality(Above(t)) : t \in S}
  <2>1. R \in SUBSET Nat /\ R # {}
    BY <1>1
  <2>2. PICK r \in R : \A n \in R : r <= n
    BY <2>1, LeastElement
  <2> QED BY <2>2
<1>3. ASSUME NEW v \in S PROVE v <= m
  <2>1. SUFFICES ASSUME v > m PROVE FALSE
    OBVIOUS
  <2>2. Above(v) \in SUBSET Above(m) /\ v \in Above(m) /\ v \notin Above(v)
    <3>1. v \in Nat /\ m \in Nat /\ ~(v > v)
      OBVIOUS
    <3>2. \A u \in S : u > v => u > m
      <4> TAKE u \in S
      <4>1. u \in Nat
        OBVIOUS
      <4> QED BY <2>1, <3>1, <4>1
    <3> QED BY <2>1, <3>1, <3>2
  <2> HIDE DEF Above
  <2>3. Cardinality(Above(v)) <= Cardinality(Above(m))
    BY <1>1, <2>2, FS_Subset
  <2>4. Cardinality(Above(v)) = Cardinality(Above(m))
    BY <1>1, <1>2, <2>3
  <2>5. Above(m) = Above(v)
    BY <1>1, <2>2, <2>4, FS_Subset
  <2> QED BY <2>2, <2>5
<1>4. \A y \in S : m >= y
  BY <1>3
<1>5. Max(S) \in S /\ \A y \in S : Max(S) >= y
  BY <1>4 DEF Max
<1> QED BY <1>5

\* The k lowest tags: there are k of them as soon as some tag has rank k.
LEMMA LowestAreEnough ==
  ASSUME NEW S \in SUBSET Nat, IsFiniteSet(S), NEW k \in Nat, NEW t \in S, Rank(S, t) >= k
  PROVE  Cardinality({u \in S : u < t /\ Rank(S, u) < k}) >= k
<1> DEFINE A == {u \in S : u < t}
           L == {u \in S : u < t /\ Rank(S, u) < k}
<1>1. A \in SUBSET S /\ L \in SUBSET A /\ L \in SUBSET S
  OBVIOUS
<1>2. IsFiniteSet(A) /\ IsFiniteSet(L) /\ Cardinality(L) \in Nat /\ Cardinality(A) \in Nat
  BY <1>1, FS_Subset, FS_CardinalityType
<1>3. CASE A \subseteq L
  <2>1. A = L
    BY <1>1, <1>3
  <2>2. Cardinality(A) >= k
    BY DEF Rank
  <2> QED BY <2>1, <2>2
<1>4. CASE ~(A \subseteq L)
  <2>1. PICK m \in A \ L : \A n \in A \ L : m <= n
    <3>1. A \ L \in SUBSET Nat /\ A \ L # {}
      BY <1>1, <1>4
    <3> QED BY <3>1, LeastElement
  <2>2. Rank(S, m) >= k /\ Rank(S, m) \in Nat
    <3>1. m \in S /\ m < t /\ ~(Rank(S, m) < k)
      BY <2>1
    <3> QED BY <3>1, RankType
  <2>3. {u \in S : u < m} \in SUBSET L
    <3>1. ASSUME NEW u \in S, u < m PROVE u \in L
      <4>1. u \in Nat /\ m \in Nat /\ t \in Nat /\ m < t
        BY <1>1, <2>1
      <4>2. u \in A
        BY <3>1, <4>1
      <4>3. ~(m <= u)
        BY <3>1, <4>1
      <4> QED BY <2>1, <4>2, <4>3
    <3> QED BY <3>1
  <2>4. Rank(S, m) <= Cardinality(L)
    BY <1>2, <2>3, FS_Subset DEF Rank
  <2> QED BY <1>2, <2>2, <2>4
<1> QED BY <1>3, <1>4

\* Ranks among the tags behind the k lowest count from k.
LEMMA RankBehind ==
  ASSUME NEW S \in SUBSET Nat, IsFiniteSet(S), NEW k \in Nat, NEW t \in S, Rank(S, t) >= k
  PROVE  Rank({u \in S : Rank(S, u) >= k}, t) <= Rank(S, t) - k
<1> DEFINE A == {u \in S : u < t}
           L == {u \in S : u < t /\ Rank(S, u) < k}
           B == {u \in {w \in S : Rank(S, w) >= k} : u < t}
<1>1. A \in SUBSET S /\ L \in SUBSET A
  OBVIOUS
<1>2. IsFiniteSet(A) /\ IsFiniteSet(L) /\ Cardinality(L) \in Nat /\ Cardinality(A) \in Nat
  BY <1>1, FS_Subset, FS_CardinalityType
<1>3. B = A \ L
  <2>1. \A u \in S : Rank(S, u) >= k <=> ~(Rank(S, u) < k)
    <3> TAKE u \in S
    <3>1. Rank(S, u) \in Nat
      BY RankType
    <3> QED BY <3>1
  <2> QED BY <2>1
<1>4. A \cap L = L
  BY <1>1
<1> HIDE DEF A, L, B
<1>5. Cardinality(B) = Cardinality(A) - Cardinality(L)
  BY <1>2, <1>3, <1>4, FS_Difference
<1>6. Cardinality(L) >= k
  BY LowestAreEnough DEF L
<1>7. Cardinality(B) <= Cardinality(A) - k
  BY <1>2, <1>5, <1>6
<1> QED BY <1>7 DEF Rank, A, B
------------------------------------------------------------------------------
(* The invariant.                                                          *)

\* GETs of the policy calls before this one, at the most.
Before == IF get.stage = "first" THEN 0 ELSE IF get.stage = "token" THEN 1 ELSE 2

\* Rate limits that this policy call has waited out.
Limited == IF get.retried THEN 1 ELSE 0

\* What the policy's counters say of the failures met, and what they have cost.
Policy ==
  /\ pc \in Asking => seen.transient = get.transients /\ seen.limited = Limited
  /\ pc = "outage" => seen.transient > MaxTransient
  /\ pc = "ratelimited" => seen.limited > 1 \/ seen.long
  /\ get.sent <= Before * (MaxTransient + 2) + get.transients + Limited
  /\ get.slept <= (get.transients + Limited) * Threshold

\* The tags that the pages read so far were to hold.
Behind(t) == IF tool = "hub_tags" THEN Rank(tags, t) < list.pages * PageSize ELSE t <= list.cursor

\* A list that is still being read has every lasting tag that its pages were to
\* hold; one that is complete and not cut has all of them.
Collected ==
  /\ list.stable \subseteq tags
  /\ pc = "page" => list.count < Limit
  /\ (pc = "page" \/ (pc \in {"listed", "done"} /\ tool # "image_config" /\ ~list.truncated))
       /\ ~(tool = "hub_tags" /\ list.shifted) =>
       \A t \in list.stable : Behind(t) \/ pc # "page" => t \in list.tags

\* What was looked up by digest belongs to the index that was looked up by tag.
Resolved ==
  /\ pc \in {"platform", "config"} => found.manifest = found.index
  /\ ConfigIsTheImages
  /\ pc \in Asking \cup {"listed"} =>
       (tool = "image_config" <=> pc \in {"manifest", "platform", "config"})

IInv == TypeOK /\ Policy /\ Collected /\ Resolved
\* A list that begins has no tag behind it.
LEMMA NoneBehind ==
  ASSUME NEW S \in SUBSET Tags, NEW t \in S
  PROVE  ~(Rank(S, t) < 0 * PageSize) /\ ~(t <= 0)
<1>1. Rank(S, t) \in Nat
  BY NumbersAssumption, FS_Subset, RankType
<1>2. 0 * PageSize = 0 /\ t \in Nat \ {0}
  BY NumbersAssumption
<1> QED BY <1>1, <1>2

GetType == [stage : {"first", "token", "again"}, transients : 0 .. MaxTransient,
            retried : BOOLEAN, slept : Nat, sent : Nat]
SeenType == [transient : Nat, limited : Nat, long : BOOLEAN]
ListType == [tags : SUBSET Tags, count : Nat, cursor : Nat, pages : Nat, truncated : BOOLEAN,
             stable : SUBSET Tags, shifted : BOOLEAN]
FoundType == [index : Images \cup {None}, manifest : Images \cup {None},
              config : Images \cup {None}]

LEMMA NewGetType == NewGet \in GetType /\ NothingSeen \in SeenType
BY NumbersAssumption DEF NewGet, NothingSeen, GetType, SeenType

LEMMA InitIInv == Init => IInv
<1> SUFFICES ASSUME Init PROVE IInv
  OBVIOUS
<1> USE NumbersAssumption DEF Init, NewGet, NothingSeen, NewList
<1>1. TypeOK
  <2>1. get \in GetType /\ seen \in SeenType
    BY NewGetType
  <2>2. list \in ListType
    BY DEF ListType
  <2>3. found \in FoundType
    BY DEF FoundType
  <2>4. tool \in Tools /\ tags \subseteq Tags /\ image \in Images /\ moves \in 0 .. MaxMoves
    OBVIOUS
  <2> QED BY <2>1, <2>2, <2>3, <2>4 DEF TypeOK, Asking, GetType, SeenType, ListType, FoundType
<1>2. Policy
  BY DEF Policy, Asking, Before, Limited
<1>3. Collected
  <2>2. ASSUME NEW t \in tags PROVE ~Behind(t)
    <3>1. list.pages = 0 /\ list.cursor = 0
      OBVIOUS
    <3> QED BY <3>1, NoneBehind DEF Behind
  <2>3. list.stable = tags /\ list.count = 0 /\ (pc = "page" \/ pc = "manifest")
    OBVIOUS
  <2> QED BY <2>2, <2>3 DEF Collected
<1>4. Resolved
  BY DEF Resolved, ConfigIsTheImages, Asking
<1> QED BY <1>1, <1>2, <1>3, <1>4 DEF IInv

------------------------------------------------------------------------------
(* Types.                                                                  *)

\* What a page holds is a finite set of tags.
LEMMA PageType ==
  ASSUME TypeOK, NEW n
  PROVE  /\ IsFiniteSet(tags) /\ tags \subseteq Nat \ {0}
         /\ Rest \subseteq tags /\ IsFiniteSet(Rest)
         /\ Smallest(Rest, n) \subseteq Rest /\ IsFiniteSet(Smallest(Rest, n))
         /\ Cardinality(Smallest(Rest, n)) \in Nat
<1>1. tags \subseteq Nat \ {0} /\ IsFiniteSet(tags)
  BY NumbersAssumption, FS_Subset DEF TypeOK
<1>2. Rest \in SUBSET tags
  BY DEF Rest, AfterTag, AfterPages
<1>3. Smallest(Rest, n) \in SUBSET Rest
  BY DEF Smallest
<1> QED BY <1>1, <1>2, <1>3, FS_Subset, FS_CardinalityType

\* What a page leaves in the list.
LEMMA PageList ==
  ASSUME list \in ListType, Page
  PROVE  /\ DOMAIN list' = DOMAIN list
         /\ list' = [f \in DOMAIN list |-> list'[f]]
         /\ list'.tags = list.tags \cup Smallest(Smallest(Rest, PageSize), Limit - list.count)
         /\ list'.count = list.count + Cardinality(Smallest(Rest, PageSize))
         /\ list'.pages = list.pages + 1
         /\ list'.cursor = IF Smallest(Rest, PageSize) = {} THEN list.cursor
                           ELSE Max(Smallest(Rest, PageSize))
         /\ list'.stable = list.stable /\ list'.shifted = list.shifted
         /\ list'.truncated \in BOOLEAN
<1> DEFINE page == Smallest(Rest, PageSize)
           link == Rest # page
           slice == Smallest(page, Limit - list.count)
           last == IF page = {} THEN list.cursor ELSE Max(page)
           read == [list EXCEPT !.tags = list.tags \cup slice,
                                !.count = list.count + Cardinality(page),
                                !.pages = list.pages + 1,
                                !.cursor = last]
<1>1. \/ list' = [read EXCEPT !.truncated = TRUE]
      \/ list' = read
      \/ list' = [read EXCEPT !.truncated = ~EndsThere(link, list.pages + 1)]
  BY DEF Page
<1>2. EndsThere(link, list.pages + 1) \in BOOLEAN
  BY DEF EndsThere
<1>3. PICK cut \in BOOLEAN : list' = read \/ list' = [read EXCEPT !.truncated = cut]
  BY <1>1, <1>2
<1> HIDE DEF page, slice, last
<1> SUFFICES /\ DOMAIN list' = DOMAIN list
             /\ list' = [f \in DOMAIN list |-> list'[f]]
             /\ list'.tags = list.tags \cup slice
             /\ list'.count = list.count + Cardinality(page)
             /\ list'.pages = list.pages + 1
             /\ list'.cursor = last
             /\ list'.stable = list.stable /\ list'.shifted = list.shifted
             /\ list'.truncated \in BOOLEAN
  BY DEF page, slice, last
<1> QED BY <1>3 DEF ListType

LEMMA AgainType ==
  ASSUME NEW g \in GetType, Again(g)
  PROVE  get' \in GetType /\ UNCHANGED pc
BY DEF Again, GetType

\* The question goes on as it was, at its next stage, or another one begins.
LEMMA StageType ==
  ASSUME get \in GetType, seen \in SeenType,
         \/ UNCHANGED <<get, seen>>
         \/ \E stage \in {"token", "again"} : NextStage(stage)
         \/ \E question : Ask(question)
  PROVE  get' \in GetType /\ seen' \in SeenType
<1>1. CASE \E stage \in {"token", "again"} : NextStage(stage)
  <2>1. PICK stage \in {"token", "again"} : NextStage(stage)
    BY <1>1
  <2>2. get' = [stage |-> stage, transients |-> 0, retried |-> FALSE, slept |-> 0,
                sent |-> get.sent + 1]
    BY <2>1 DEF NextStage, NewGet
  <2>3. get' \in GetType
    BY <2>2, NumbersAssumption DEF GetType
  <2> QED BY <2>1, <2>3, NewGetType DEF NextStage
<1>2. CASE \E question : Ask(question)
  BY <1>2, NewGetType DEF Ask
<1> QED BY <1>1, <1>2

LEMMA TypeStep == TypeOK /\ [Next]_vars => TypeOK'
<1> SUFFICES ASSUME TypeOK, [Next]_vars PROVE TypeOK'
  OBVIOUS
<1> USE NumbersAssumption
<1>a. /\ tool \in Tools /\ tags \subseteq Tags /\ image \in Images /\ moves \in 0 .. MaxMoves
      /\ get \in GetType /\ seen \in SeenType /\ list \in ListType /\ found \in FoundType
      /\ expired \in BOOLEAN
      /\ pc \in Asking \cup {"listed", "done", "timedout", "outage", "ratelimited", "failed"}
  BY DEF TypeOK, GetType, SeenType, ListType, FoundType
<1>b. SUFFICES
      /\ tool' \in Tools /\ tags' \subseteq Tags /\ image' \in Images /\ moves' \in 0 .. MaxMoves
      /\ get' \in GetType /\ seen' \in SeenType /\ list' \in ListType /\ found' \in FoundType
      /\ expired' \in BOOLEAN
      /\ pc' \in Asking \cup {"listed", "done", "timedout", "outage", "ratelimited", "failed"}
  BY DEF TypeOK, GetType, SeenType, ListType, FoundType
<1>1. ASSUME NEW d \in Delays \cup {None}, TransientStatus(d)
      PROVE  get' \in GetType /\ seen' \in SeenType
             /\ UNCHANGED <<tool, tags, image, moves, list, expired, found>>
             /\ pc' \in {pc, "outage"}
  <2>1. TransientDelay(d) \in Nat
    BY DEF TransientDelay
  <2>2. seen' \in SeenType
    BY <1>a, <1>1 DEF TransientStatus, SeenType
  <2> DEFINE g == [get EXCEPT !.transients = get.transients + 1,
                              !.slept = get.slept + TransientDelay(d)]
  <2>3. CASE get.transients < MaxTransient
    <3>1. g \in GetType
      <4>1. get.slept + TransientDelay(d) \in Nat
        BY <1>a, <2>1 DEF GetType
      <4>2. get.transients + 1 \in 0 .. MaxTransient
        BY <1>a, <2>3 DEF GetType
      <4> QED BY <1>a, <4>1, <4>2 DEF GetType
    <3>2. Again(g)
      BY <1>1, <2>3 DEF TransientStatus
    <3> HIDE DEF g
    <3> QED BY <1>1, <2>2, <3>1, <3>2, AgainType DEF TransientStatus
  <2> QED BY <1>a, <1>1, <2>2, <2>3 DEF TransientStatus
<1>2. ASSUME NEW d \in Delays \cup {None}, RateLimited(d)
      PROVE  get' \in GetType /\ seen' \in SeenType
             /\ UNCHANGED <<tool, tags, image, moves, list, expired, found>>
             /\ pc' \in {pc, "ratelimited"}
  <2>1. Retries429(d) => d \in Nat
    BY DEF Retries429
  <2>2. PICK long \in BOOLEAN :
          seen' = [seen EXCEPT !.limited = seen.limited + 1, !.long = long]
    BY <1>2 DEF RateLimited
  <2>3. seen' \in SeenType
    <3>1. seen.limited + 1 \in Nat
      BY <1>a DEF SeenType
    <3> QED BY <1>a, <2>2, <3>1 DEF SeenType
  <2> DEFINE g == [get EXCEPT !.retried = TRUE, !.slept = get.slept + d]
  <2>4. CASE Retries429(d)
    <3>1. g \in GetType
      <4>1. get.slept + d \in Nat
        BY <1>a, <2>1, <2>4 DEF GetType
      <4> QED BY <1>a, <4>1 DEF GetType
    <3>2. Again(g)
      BY <1>2, <2>4 DEF RateLimited
    <3> HIDE DEF g
    <3> QED BY <1>2, <2>3, <3>1, <3>2, AgainType DEF RateLimited
  <2> QED BY <1>a, <1>2, <2>3, <2>4 DEF RateLimited
<1>3. CASE Unauthorized \/ TokenGranted \/ Fails
  <2>1. get' \in GetType /\ seen' \in SeenType
    BY <1>a, <1>3, StageType DEF Unauthorized, TokenGranted, Fails, End
  <2>2. pc' \in {pc, "failed"}
    BY <1>3 DEF Unauthorized, TokenGranted, Fails, NextStage, End
  <2>3. UNCHANGED <<tool, tags, image, moves, list, expired, found>>
    BY <1>3 DEF Unauthorized, TokenGranted, Fails
  <2> QED BY <1>a, <2>1, <2>2, <2>3
<1>4. CASE Page
  <2> DEFINE page == Smallest(Rest, PageSize)
             slice == Smallest(page, Limit - list.count)
  <2>1. page \in SUBSET Tags /\ slice \in SUBSET Tags /\ Cardinality(page) \in Nat
    BY <1>a, PageType DEF Smallest
  <2>2. page # {} => Max(page) \in Nat
    <3>1. page \in SUBSET Nat /\ IsFiniteSet(page)
      BY PageType
    <3> QED BY <3>1, GreatestElement
  <2>4. list' \in ListType
    <3>1. /\ DOMAIN list' = DOMAIN list
          /\ list' = [f \in DOMAIN list |-> list'[f]]
          /\ list'.tags = list.tags \cup slice
          /\ list'.count = list.count + Cardinality(page)
          /\ list'.pages = list.pages + 1
          /\ list'.cursor = IF page = {} THEN list.cursor ELSE Max(page)
          /\ list'.stable = list.stable /\ list'.shifted = list.shifted
          /\ list'.truncated \in BOOLEAN
      BY <1>a, <1>4, PageList
    <3> HIDE DEF page, slice
    <3>2. /\ list'.tags \in SUBSET Tags /\ list'.count \in Nat /\ list'.pages \in Nat
          /\ list'.cursor \in Nat /\ list'.stable \in SUBSET Tags /\ list'.shifted \in BOOLEAN
      BY <1>a, <2>1, <2>2, <3>1 DEF ListType
    <3> QED BY <1>a, <3>1, <3>2 DEF ListType
  <2>5. UNCHANGED <<tool, tags, image, moves, expired, found>>
    BY <1>4 DEF Page
  <2>6. pc' \in {"listed", "page"}
    BY <1>4 DEF Page, Ask
  <2>7. UNCHANGED <<get, seen>> \/ Ask("page")
    BY <1>4 DEF Page
  <2>8. get' \in GetType /\ seen' \in SeenType
    BY <1>a, <2>7, StageType
  <2> QED BY <1>a, <2>4, <2>5, <2>6, <2>8 DEF Asking
<1>5. CASE MalformedNext
  BY <1>a, <1>5 DEF MalformedNext, End
<1>6. CASE Listed
  <2>1. get' \in GetType /\ seen' \in SeenType
    BY <1>a, <1>6, StageType DEF Listed
  <2>2. NewList \in ListType
    BY <1>a DEF NewList, ListType
  <2> QED BY <1>a, <1>6, <2>1, <2>2 DEF Listed, Ask, Asking
<1>7. CASE RegistryManifest \/ PlatformManifest \/ ImageConfig
  <2>1. get' \in GetType /\ seen' \in SeenType
    BY <1>a, <1>7, StageType DEF RegistryManifest, PlatformManifest, ImageConfig
  <2>2. found' \in FoundType
    BY <1>a, <1>7 DEF RegistryManifest, PlatformManifest, ImageConfig, FoundType, ByDigest
  <2>3. pc' \in {"platform", "config", "done"}
    BY <1>7 DEF RegistryManifest, PlatformManifest, ImageConfig, Ask
  <2>4. UNCHANGED <<tool, tags, image, moves, list, expired>>
    BY <1>7 DEF RegistryManifest, PlatformManifest, ImageConfig
  <2> QED BY <1>a, <2>1, <2>2, <2>3, <2>4 DEF Asking
<1>8. CASE Others
  <2>1. moves' \in 0 .. MaxMoves /\ UNCHANGED <<tool, pc, get, seen, expired, found>>
    BY <1>a, <1>8 DEF Others
  <2>2. tags' \subseteq Tags /\ image' \in Images /\ list' \in ListType
    <3>1. CASE \E t \in Tags \ tags : Push(t)
      BY <1>a, <3>1 DEF Push
    <3>2. CASE \E t \in tags : Delete(t)
      BY <1>a, <3>2 DEF Delete, ListType
    <3>3. CASE \E i \in Images \ {image} : MoveTag(i)
      BY <1>a, <3>3 DEF MoveTag
    <3> QED BY <1>8, <3>1, <3>2, <3>3 DEF Others
  <2> QED BY <1>a, <2>1, <2>2
<1>9. CASE Expire
  BY <1>a, <1>9 DEF Expire
<1>10. CASE UNCHANGED vars
  BY <1>a, <1>10 DEF vars
<1> QED BY <1>a, <1>1, <1>2, <1>3, <1>4, <1>5, <1>6, <1>7, <1>8, <1>9, <1>10 DEF Next, Step
------------------------------------------------------------------------------
(* The retry policy.                                                       *)

LEMMA Products ==
  ASSUME NEW a \in Nat, NEW b \in Nat, NEW n \in Nat
  PROVE  /\ a * n \in Nat /\ (a + 1) * n = a * n + n
         /\ a <= b => a * n <= b * n
<1>1. a * n \in Nat /\ (a + 1) * n = a * n + n
  OBVIOUS
<1>2. ASSUME a <= b PROVE a * n <= b * n
  <2>1. PICK k \in Nat : b = a + k
    <3>1. b - a \in Nat /\ b = a + (b - a)
      BY <1>2
    <3> QED BY <3>1
  <2>2. b * n = a * n + k * n /\ a * n \in Nat /\ k * n \in Nat
    BY <2>1
  <2> QED BY <2>2
<1> QED BY <1>1, <1>2

\* A question that goes on, stays where it is, or is another one.
LEMMA PolicyKept ==
  ASSUME TypeOK, Policy, UNCHANGED <<get, seen>>, pc' \notin {"outage", "ratelimited"} \/ pc' = pc,
         pc' \in Asking => pc \in Asking
  PROVE  Policy'
BY DEF Policy, Before, Limited, Asking

LEMMA PolicyAnew ==
  ASSUME get' = NewGet, seen' = NothingSeen, pc' \notin {"outage", "ratelimited"}
  PROVE  Policy'
BY NumbersAssumption DEF Policy, Before, Limited, NewGet, NothingSeen, Asking

\* The next stage takes the GETs of this one along.
LEMMA PolicyNextStage ==
  ASSUME TypeOK, Policy, pc \in Asking,
         \/ get.stage = "first" /\ NextStage("token")
         \/ get.stage = "token" /\ NextStage("again")
  PROVE  Policy'
<1> USE NumbersAssumption
<1>1. /\ get.transients \in 0 .. MaxTransient /\ Limited \in {0, 1} /\ get.sent \in Nat
      /\ get.sent <= Before * (MaxTransient + 2) + get.transients + Limited
  BY DEF TypeOK, Policy, Limited
<1>2. /\ Before \in {0, 1} /\ Before' = Before + 1 /\ get'.sent = get.sent + 1
      /\ get'.transients = 0 /\ get'.retried = FALSE /\ get'.slept = 0
      /\ seen' = NothingSeen /\ pc' = pc
  <2>1. PICK stage \in {"token", "again"} :
          /\ get' = [stage |-> stage, transients |-> 0, retried |-> FALSE, slept |-> 0,
                     sent |-> get.sent + 1]
          /\ seen' = NothingSeen /\ pc' = pc
          /\ get.stage = IF stage = "token" THEN "first" ELSE "token"
    BY DEF NextStage, NewGet
  <2>2. get'.stage = stage
    BY <2>1
  <2>3. Before \in {0, 1} /\ Before' = Before + 1
    BY <2>1, <2>2 DEF Before
  <2> QED BY <2>1, <2>3
<1>3. (Before + 1) * (MaxTransient + 2) = Before * (MaxTransient + 2) + (MaxTransient + 2)
      /\ Before * (MaxTransient + 2) \in Nat
  BY <1>2, Products
<1> HIDE DEF Before
<1>4. get'.sent <= Before' * (MaxTransient + 2) + get'.transients + Limited'
  <2>1. Limited' = 0
    BY <1>2 DEF Limited
  <2> HIDE DEF Limited
  <2> QED BY <1>1, <1>2, <1>3, <2>1
<1>5. get'.slept <= (get'.transients + Limited') * Threshold
  BY <1>2 DEF Limited
<1> QED BY <1>2, <1>4, <1>5 DEF Policy, NothingSeen, Limited, Asking

LEMMA PolicyTransient ==
  ASSUME TypeOK, Policy, NEW d \in Delays \cup {None}, TransientStatus(d)
  PROVE  Policy'
<1> USE NumbersAssumption
<1>1. TransientDelay(d) \in Nat /\ TransientDelay(d) <= Threshold
  BY DEF TransientDelay
<1>2. /\ get.transients \in 0 .. MaxTransient /\ Limited \in {0, 1} /\ get.sent \in Nat
      /\ get.slept \in Nat /\ seen.transient = get.transients /\ seen.limited = Limited
      /\ get.sent <= Before * (MaxTransient + 2) + get.transients + Limited
      /\ get.slept <= (get.transients + Limited) * Threshold
      /\ seen'.transient = seen.transient + 1 /\ seen'.limited = seen.limited
  BY DEF TypeOK, Policy, Limited, TransientStatus
<1>3. CASE get.transients < MaxTransient
  <2>1. /\ get'.transients = get.transients + 1 /\ get'.slept = get.slept + TransientDelay(d)
        /\ get'.sent = get.sent + 1 /\ get'.retried = get.retried /\ get'.stage = get.stage
        /\ pc' = pc
    <3>1. get \in GetType
      BY DEF TypeOK, GetType
    <3>2. get' = [[get EXCEPT !.transients = @ + 1, !.slept = @ + TransientDelay(d)]
                    EXCEPT !.sent = @ + 1]
          /\ pc' = pc
      BY <1>3 DEF TransientStatus, Again
    <3> QED BY <3>1, <3>2 DEF GetType
  <2>2. Before' = Before /\ Limited' = Limited
    BY <2>1 DEF Before, Limited
  <2>3. Before * (MaxTransient + 2) \in Nat
    BY Products DEF Before
  <2>4. get'.sent <= Before' * (MaxTransient + 2) + get'.transients + Limited'
    BY <1>2, <2>1, <2>2, <2>3
  <2>5. (get.transients + Limited + 1) * Threshold =
          (get.transients + Limited) * Threshold + Threshold
        /\ (get.transients + Limited) * Threshold \in Nat
    BY <1>2, Products
  <2>6. get'.transients + Limited' = get.transients + Limited + 1
    BY <1>2, <2>1, <2>2
  <2>7. get'.slept <= (get'.transients + Limited') * Threshold
    BY <1>1, <1>2, <2>1, <2>5, <2>6
  <2>8. pc' \in Asking
    BY <2>1 DEF TransientStatus
  <2> QED BY <1>2, <2>1, <2>2, <2>4, <2>7, <2>8 DEF Policy, Asking
<1>4. CASE ~(get.transients < MaxTransient)
  <2>1. pc' = "outage" /\ UNCHANGED get
    BY <1>4 DEF TransientStatus
  <2>2. seen'.transient > MaxTransient
    BY <1>2, <1>4
  <2>3. Before' = Before /\ Limited' = Limited
    BY <2>1 DEF Before, Limited
  <2> QED BY <1>2, <2>1, <2>2, <2>3 DEF Policy, Asking
<1> QED BY <1>3, <1>4

LEMMA PolicyLimited ==
  ASSUME TypeOK, Policy, NEW d \in Delays \cup {None}, RateLimited(d)
  PROVE  Policy'
<1> USE NumbersAssumption
<1>1. /\ get.transients \in 0 .. MaxTransient /\ get.sent \in Nat
      /\ get.slept \in Nat /\ seen.transient = get.transients /\ seen.limited = Limited
      /\ get.sent <= Before * (MaxTransient + 2) + get.transients + Limited
      /\ get.slept <= (get.transients + Limited) * Threshold
      /\ seen'.transient = seen.transient /\ seen'.limited = seen.limited + 1
      /\ seen'.long = (seen.long \/ d = None \/ d > Threshold)
  BY DEF TypeOK, Policy, Limited, RateLimited
<1>2. CASE Retries429(d)
  <2>1. d \in Nat /\ d <= Threshold /\ get.retried = FALSE
    BY <1>2 DEF Retries429, TypeOK
  <2>2. /\ get'.transients = get.transients /\ get'.slept = get.slept + d
        /\ get'.sent = get.sent + 1 /\ get'.retried = TRUE /\ get'.stage = get.stage
        /\ pc' = pc
    <3>1. get \in GetType
      BY DEF TypeOK, GetType
    <3>2. get' = [[get EXCEPT !.retried = TRUE, !.slept = @ + d] EXCEPT !.sent = @ + 1]
          /\ pc' = pc
      BY <1>2 DEF RateLimited, Again
    <3> QED BY <3>1, <3>2 DEF GetType
  <2>3. Before' = Before /\ Limited' = 1 /\ Limited = 0
    BY <2>1, <2>2 DEF Before, Limited
  <2>4. Before * (MaxTransient + 2) \in Nat
    BY Products DEF Before
  <2>5. get'.sent <= Before' * (MaxTransient + 2) + get'.transients + Limited'
    BY <1>1, <2>2, <2>3, <2>4
  <2>6. (get.transients + 1) * Threshold = get.transients * Threshold + Threshold
        /\ get.transients * Threshold \in Nat
    BY <1>1, Products
  <2>7. get.transients + Limited = get.transients
    BY <1>1, <2>3
  <2>8. get'.slept <= (get'.transients + Limited') * Threshold
    BY <1>1, <2>1, <2>2, <2>3, <2>6, <2>7
  <2>9. pc' \in Asking
    BY <2>2 DEF RateLimited
  <2> QED BY <1>1, <2>2, <2>3, <2>5, <2>8, <2>9 DEF Policy, Asking
<1>3. CASE ~Retries429(d)
  <2>1. pc' = "ratelimited" /\ UNCHANGED get
    BY <1>3 DEF RateLimited
  <2>2. seen'.limited > 1 \/ seen'.long
    <3>1. CASE get.retried
      BY <1>1, <3>1 DEF Limited
    <3>2. CASE ~get.retried
      <4>1. d = None \/ d > Threshold
        BY <1>3, <3>2 DEF Retries429
      <4> QED BY <1>1, <4>1
    <3> QED BY <3>1, <3>2
  <2>3. Before' = Before /\ Limited' = Limited
    BY <2>1 DEF Before, Limited
  <2> QED BY <1>1, <2>1, <2>2, <2>3 DEF Policy, Asking
<1> QED BY <1>2, <1>3

LEMMA PolicyStep == TypeOK /\ Policy /\ [Next]_vars => Policy'
<1> SUFFICES ASSUME TypeOK, Policy, [Next]_vars PROVE Policy'
  OBVIOUS
<1>1. CASE \E d \in Delays \cup {None} : TransientStatus(d) \/ RateLimited(d)
  BY <1>1, PolicyTransient, PolicyLimited
<1>2. CASE Unauthorized
  BY <1>2, PolicyNextStage, PolicyKept DEF Unauthorized, End
<1>3. CASE TokenGranted
  BY <1>3, PolicyNextStage DEF TokenGranted
<1>4. CASE Fails \/ MalformedNext
  BY <1>4, PolicyKept DEF Fails, MalformedNext, End, Asking
<1>5. CASE Page
  BY <1>5, PolicyKept, PolicyAnew DEF Page, Ask, Answered
<1>6. CASE Listed
  BY <1>6, PolicyKept, PolicyAnew DEF Listed, Ask, Asking
<1>7. CASE RegistryManifest \/ PlatformManifest
  BY <1>7, PolicyAnew DEF RegistryManifest, PlatformManifest, Ask
<1>8. CASE ImageConfig
  BY <1>8, PolicyKept DEF ImageConfig, Answered
<1>9. CASE Others \/ Expire \/ UNCHANGED vars
  BY <1>9, PolicyKept DEF Others, Expire, vars
<1> QED BY <1>1, <1>2, <1>3, <1>4, <1>5, <1>6, <1>7, <1>8, <1>9 DEF Next, Step

LEMMA PolicyBounds == TypeOK /\ Policy => BlipIsAbsorbed
<1> SUFFICES ASSUME TypeOK, Policy PROVE BlipIsAbsorbed
  OBVIOUS
<1> USE NumbersAssumption
<1>1. /\ get.transients \in 0 .. MaxTransient /\ Limited \in {0, 1} /\ get.sent \in Nat
      /\ get.slept \in Nat /\ Before \in {0, 1, 2}
      /\ get.sent <= Before * (MaxTransient + 2) + get.transients + Limited
      /\ get.slept <= (get.transients + Limited) * Threshold
  BY DEF TypeOK, Policy, Limited, Before
<1>2. Before * (MaxTransient + 2) <= 2 * (MaxTransient + 2)
      /\ Before * (MaxTransient + 2) \in Nat
  BY <1>1, Products
<1>3. get.sent <= 3 * (MaxTransient + 2) - 1
  BY <1>1, <1>2
<1>4. (get.transients + Limited) * Threshold <= (MaxTransient + 1) * Threshold
      /\ (get.transients + Limited) * Threshold \in Nat /\ (MaxTransient + 1) * Threshold \in Nat
  <2>1. get.transients + Limited \in Nat /\ get.transients + Limited <= MaxTransient + 1
    BY <1>1
  <2> QED BY <2>1, Products
<1>5. get.slept <= (MaxTransient + 1) * Threshold
  BY <1>1, <1>4
<1> QED BY <1>3, <1>5 DEF BlipIsAbsorbed, Policy
------------------------------------------------------------------------------
(* The tag lists and the config.                                           *)

\* A tag that is behind the cursor once a page is read, and was not before, is
\* on the page.
LEMMA PageHolds ==
  ASSUME TypeOK, Page, NEW t \in Rest, Behind(t)'
  PROVE  t \in Smallest(Rest, PageSize)
<1> DEFINE page == Smallest(Rest, PageSize)
<1>1. /\ tags \in SUBSET Nat /\ IsFiniteSet(tags) /\ Rest \in SUBSET Nat /\ IsFiniteSet(Rest)
      /\ Rest \subseteq tags /\ page \subseteq Rest /\ IsFiniteSet(page)
  BY PageType
<1>2. /\ list'.pages = list.pages + 1
      /\ list'.cursor = IF page = {} THEN list.cursor ELSE Max(page)
      /\ list.pages \in Nat /\ list.cursor \in Nat
      /\ tags' = tags /\ tool' = tool
  <2>1. list \in ListType
    BY DEF TypeOK, ListType
  <2> QED BY <2>1, PageList DEF Page, ListType
<1>3. \A u \in Rest : u \in page <=> Rank(Rest, u) < PageSize
  BY DEF Smallest, Rank
<1> HIDE DEF page
<1>4. Rank(Rest, t) \in Nat /\ Rank(tags, t) \in Nat /\ t \in Nat
  BY <1>1, RankType
<1>5. CASE tool = "hub_tags"
  <2>1. Rest = {u \in tags : Rank(tags, u) >= list.pages * PageSize}
    BY <1>5 DEF Rest, AfterPages, Rank
  <2>2. list.pages * PageSize \in Nat
        /\ (list.pages + 1) * PageSize = list.pages * PageSize + PageSize
    BY <1>2, NumbersAssumption, Products
  <2>3. t \in tags /\ Rank(tags, t) >= list.pages * PageSize
    BY <2>1
  <2>4. Rank(Rest, t) <= Rank(tags, t) - list.pages * PageSize
    BY <1>1, <2>1, <2>2, <2>3, RankBehind
  <2>5. Rank(tags, t) < list.pages * PageSize + PageSize
    BY <1>2, <1>5, <2>2 DEF Behind
  <2>6. Rank(Rest, t) < PageSize
    BY <1>4, <2>2, <2>4, <2>5, NumbersAssumption
  <2> QED BY <1>3, <2>6 DEF page
<1>6. CASE tool # "hub_tags"
  <2>1. t > list.cursor /\ t <= list'.cursor
    BY <1>2, <1>6 DEF Rest, AfterTag, Behind
  <2>2. page # {} /\ t <= Max(page)
    BY <1>2, <1>4, <2>1
  <2>3. Max(page) \in page /\ page \in SUBSET Nat
    BY <1>1, <2>2, GreatestElement
  <2>4. Rank(Rest, Max(page)) < PageSize /\ Max(page) \in Nat /\ Rank(Rest, Max(page)) \in Nat
    BY <1>1, <1>3, <2>3, RankType
  <2>5. Rank(Rest, t) <= Rank(Rest, Max(page))
    BY <1>1, <1>4, <2>2, <2>4, RankIsMonotone
  <2>6. Rank(Rest, t) < PageSize
    BY <1>4, <2>4, <2>5, NumbersAssumption
  <2> QED BY <1>3, <2>6 DEF page
<1> QED BY <1>5, <1>6

\* Below the limit a page is kept whole.
LEMMA PageIsKept ==
  ASSUME TypeOK, list.count + Cardinality(Smallest(Rest, PageSize)) < Limit
  PROVE  Smallest(Smallest(Rest, PageSize), Limit - list.count) = Smallest(Rest, PageSize)
<1> DEFINE page == Smallest(Rest, PageSize)
<1>1. IsFiniteSet(page) /\ Cardinality(page) \in Nat /\ list.count \in Nat
  BY PageType DEF TypeOK
<1>2. list.count + Cardinality(page) < Limit
  OBVIOUS
<1> HIDE DEF page
<1>3. ASSUME NEW t \in page PROVE Cardinality({u \in page : u < t}) < Limit - list.count
  <2>1. {u \in page : u < t} \in SUBSET page
    OBVIOUS
  <2>2. Cardinality({u \in page : u < t}) <= Cardinality(page)
        /\ Cardinality({u \in page : u < t}) \in Nat
    BY <1>1, <2>1, FS_Subset, FS_CardinalityType
  <2> QED BY <1>1, <1>2, <2>2, NumbersAssumption
<1>4. Smallest(page, Limit - list.count) = page
  BY <1>3 DEF Smallest
<1> QED BY <1>4 DEF page

LEMMA CollectedPage ==
  ASSUME TypeOK, Collected, Resolved, Page
  PROVE  Collected'
<1> DEFINE page == Smallest(Rest, PageSize)
           slice == Smallest(page, Limit - list.count)
           count == list.count + Cardinality(page)
<1>1. /\ pc = "page" /\ tags' = tags /\ tool' = tool /\ tool # "image_config"
      /\ list'.tags = list.tags \cup slice /\ list'.count = count
      /\ list'.stable = list.stable /\ list'.shifted = list.shifted
  <2>1. list \in ListType
    BY DEF TypeOK, ListType
  <2> QED BY <2>1, PageList DEF Page, Resolved, Asking
<1>2. count < Limit => slice = page
  BY PageIsKept
<1>3. \/ count >= Limit /\ pc' = "listed" /\ list'.truncated = TRUE
      \/ count < Limit /\ pc' = "page"
      \/ count < Limit /\ pc' = "listed" /\ list'.truncated = (Rest # page)
  <2>1. count \in Nat
    BY PageType DEF TypeOK
  <2>2. list \in ListType
    BY DEF TypeOK, ListType
  <2>3. CASE count >= Limit
    BY <2>2, <2>3 DEF Page, ListType
  <2>4. CASE ~(count >= Limit)
    <3>1. count < Limit
      BY <2>1, <2>4, NumbersAssumption
    <3>2. CASE Rest # page /\ list.pages + 1 < MaxPages
      BY <2>4, <3>1, <3>2 DEF Page, Ask
    <3>3. CASE ~(Rest # page /\ list.pages + 1 < MaxPages)
      BY <2>2, <2>4, <3>1, <3>3 DEF Page, EndsThere, ListType
    <3> QED BY <3>2, <3>3
  <2> QED BY <2>3, <2>4
<1>4. ASSUME NEW t \in list.stable, ~(tool = "hub_tags" /\ list.shifted), count < Limit,
             (pc' = "page" /\ Behind(t)') \/ Rest = page
      PROVE  t \in list'.tags
  <2>1. t \in tags
    BY DEF Collected
  <2>2. CASE Behind(t)
    BY <1>1, <1>4, <2>2 DEF Collected
  <2>3. CASE ~Behind(t)
    <3>1. t \in Rest
      <4>1. Rank(tags, t) \in Nat /\ t \in Nat /\ list.cursor \in Nat /\ list.pages \in Nat
        BY <2>1, PageType, RankType DEF TypeOK
      <4>2. list.pages * PageSize \in Nat
        BY <4>1, NumbersAssumption, Products
      <4> QED BY <2>1, <2>3, <4>1, <4>2 DEF Rest, AfterTag, AfterPages, Behind, Rank
    <3>2. t \in page
      BY <1>4, <3>1, PageHolds
    <3> QED BY <1>1, <1>2, <1>4, <3>2
  <2> QED BY <2>2, <2>3
<1> HIDE DEF page, slice, count
<1>5. list'.stable \subseteq tags'
  BY <1>1 DEF Collected
<1>6. pc' = "page" => list'.count < Limit
  BY <1>1, <1>3
<1>7. ASSUME pc' = "page" \/ (pc' \in {"listed", "done"} /\ ~list'.truncated),
             ~(tool' = "hub_tags" /\ list'.shifted),
             NEW t \in list'.stable, Behind(t)' \/ pc' # "page"
      PROVE  t \in list'.tags
  BY <1>1, <1>3, <1>4, <1>7
<1> QED BY <1>5, <1>6, <1>7 DEF Collected

LEMMA CollectedKept ==
  ASSUME Collected, UNCHANGED <<tool, tags, list>>,
         \/ pc' = pc \/ pc' \in {"platform", "config", "timedout", "outage", "ratelimited", "failed"}
         \/ pc = "listed" /\ pc' = "done"
         \/ tool = "image_config" /\ pc' # "page"
  PROVE  Collected'
BY DEF Collected, Behind

LEMMA CollectedOthers ==
  ASSUME TypeOK, Collected, Others
  PROVE  Collected'
<1>1. pc \in Asking /\ UNCHANGED <<tool, pc>>
  BY DEF Others
<1>2. ASSUME NEW t \in Tags \ tags, Push(t) PROVE Collected'
  <2>1. /\ tags' = tags \cup {t} /\ list' = list /\ list.pages \in Nat
        /\ tags \subseteq tags' /\ IsFiniteSet(tags')
    <3>1. tags' \in SUBSET Tags
      BY <1>2 DEF Push, TypeOK
    <3> QED BY <1>2, <3>1, NumbersAssumption, FS_Subset DEF Push, TypeOK
  <2>2. ASSUME NEW u \in list.stable, Behind(u)' PROVE Behind(u)
    <3>1. Rank(tags, u) <= Rank(tags', u)
      BY <2>1, RankGrows
    <3>2. Rank(tags, u) \in Nat /\ Rank(tags', u) \in Nat /\ list.pages * PageSize \in Nat
      BY <2>1, NumbersAssumption, PageType, RankType, Products
    <3> QED BY <1>1, <2>1, <2>2, <3>1, <3>2 DEF Behind
  <2> QED BY <1>1, <2>1, <2>2 DEF Collected, Asking
<1>3. ASSUME NEW t \in tags, Delete(t) PROVE Collected'
  <2>1. /\ tags' = tags \ {t} /\ list'.stable = list.stable \ {t} /\ list'.shifted = TRUE
        /\ list'.tags = list.tags /\ list'.count = list.count /\ list'.cursor = list.cursor
        /\ list'.pages = list.pages /\ list'.truncated = list.truncated
    <3>1. list \in ListType
      BY DEF TypeOK, ListType
    <3> QED BY <1>3, <3>1 DEF Delete, ListType
  <2>2. \A u : tool # "hub_tags" /\ Behind(u)' => Behind(u)
    BY <1>1, <2>1 DEF Behind
  <2> QED BY <1>1, <2>1, <2>2 DEF Collected, Asking
<1>4. ASSUME NEW i, MoveTag(i) PROVE Collected'
  BY <1>1, <1>4, CollectedKept DEF MoveTag
<1> QED BY <1>2, <1>3, <1>4 DEF Others

LEMMA CollectedStep == TypeOK /\ Collected /\ Resolved /\ [Next]_vars => Collected'
<1> SUFFICES ASSUME TypeOK, Collected, Resolved, [Next]_vars PROVE Collected'
  OBVIOUS
<1>1. ASSUME NEW d \in Delays \cup {None}, TransientStatus(d) \/ RateLimited(d)
      PROVE  Collected'
  BY <1>1, CollectedKept DEF TransientStatus, RateLimited, Again
<1>2. CASE Unauthorized \/ TokenGranted \/ Fails \/ MalformedNext
  BY <1>2, CollectedKept DEF Unauthorized, TokenGranted, Fails, MalformedNext, NextStage, End
<1>3. CASE Page
  BY <1>3, CollectedPage
<1>4. CASE Listed
  <2>1. CASE list' = NewList /\ pc' = "page" /\ UNCHANGED <<tool, tags>>
    <3>1. /\ list'.stable = tags /\ list'.count = 0 /\ list'.pages = 0 /\ list'.cursor = 0
      BY <2>1 DEF NewList
    <3>2. ASSUME NEW t \in tags PROVE ~Behind(t)'
      <4>1. tags \in SUBSET Tags
        BY DEF TypeOK
      <4> QED BY <2>1, <3>1, <4>1, NoneBehind DEF Behind
    <3> QED BY <2>1, <3>1, <3>2, NumbersAssumption DEF Collected
  <2>2. CASE UNCHANGED <<tool, tags, list>> /\ pc = "listed" /\ pc' \in {"done", "timedout"}
    BY <2>2, CollectedKept
  <2> QED BY <1>4, <2>1, <2>2 DEF Listed, Ask
<1>5. CASE RegistryManifest \/ PlatformManifest \/ ImageConfig
  BY <1>5, CollectedKept DEF RegistryManifest, PlatformManifest, ImageConfig, Ask, Resolved, Asking
<1>6. CASE Others
  BY <1>6, CollectedOthers
<1>7. CASE Expire \/ UNCHANGED vars
  BY <1>7, CollectedKept DEF Expire, vars
<1> QED BY <1>1, <1>2, <1>3, <1>4, <1>5, <1>6, <1>7 DEF Next, Step

LEMMA ResolvedStep == TypeOK /\ Resolved /\ [Next]_vars => Resolved'
<1> SUFFICES ASSUME TypeOK, Resolved, [Next]_vars PROVE Resolved'
  OBVIOUS
<1> USE DEF Resolved, ConfigIsTheImages, Asking
<1>1. ASSUME NEW d \in Delays \cup {None}, TransientStatus(d) \/ RateLimited(d)
      PROVE  Resolved'
  BY <1>1 DEF TransientStatus, RateLimited, Again
<1>2. CASE Unauthorized \/ TokenGranted \/ Fails \/ MalformedNext
  BY <1>2 DEF Unauthorized, TokenGranted, Fails, MalformedNext, NextStage, End
<1>3. CASE Page
  BY <1>3 DEF Page, Ask
<1>4. CASE Listed
  BY <1>4 DEF Listed, Ask
<1>5. CASE RegistryManifest \/ PlatformManifest \/ ImageConfig
  <2>1. DOMAIN found = {"index", "manifest", "config"}
    BY DEF TypeOK
  <2>2. CASE RegistryManifest
    BY <2>1, <2>2 DEF RegistryManifest, Ask
  <2>3. CASE PlatformManifest
    BY <2>1, <2>3 DEF PlatformManifest, Ask, ByDigest
  <2>4. CASE ImageConfig
    BY <2>1, <2>4 DEF ImageConfig
  <2> QED BY <1>5, <2>2, <2>3, <2>4
<1>6. CASE Others \/ Expire \/ UNCHANGED vars
  BY <1>6 DEF Others, Expire, vars
<1> QED BY <1>1, <1>2, <1>3, <1>4, <1>5, <1>6 DEF Next, Step

------------------------------------------------------------------------------
(* The theorems.                                                           *)

LEMMA Invariance == Spec => []IInv
<1>1. IInv /\ [Next]_vars => IInv'
  BY TypeStep, PolicyStep, CollectedStep, ResolvedStep DEF IInv
<1> QED BY <1>1, InitIInv, PTL DEF Spec

\* The registry client keeps its types.
THEOREM TypeCorrect == Spec => []TypeOK
BY Invariance, PTL DEF IInv

\* Whatever mixture of transient statuses, rate limits and challenges a question
\* meets, it costs a bounded number of requests and of seconds asleep, and gives
\* up only on more failures than the policy is to absorb.
THEOREM BlipsAreAbsorbed == Spec => []BlipIsAbsorbed
<1>1. IInv => BlipIsAbsorbed
  BY PolicyBounds DEF IInv
<1> QED BY <1>1, Invariance, PTL

\* A tag list that does not say that it is cut has every lasting tag, whatever
\* others push and delete between its pages.
THEOREM TagsStayWhole == Spec => []TagsAreWhole
<1>1. IInv => TagsAreWhole
  BY DEF IInv, Collected, TagsAreWhole
<1> QED BY <1>1, Invariance, PTL

\* The config answered is that of the image that was looked up, wherever the tag
\* has moved to since.
THEOREM ConfigsAreTheImages == Spec => []ConfigIsTheImages
<1>1. IInv => ConfigIsTheImages
  BY DEF IInv, Resolved
<1> QED BY <1>1, Invariance, PTL
=============================================================================
