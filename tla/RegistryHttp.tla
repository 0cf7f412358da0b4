--------------------------- MODULE RegistryHttp ---------------------------
(***************************************************************************)
(* tools/registry.py: the tools that ask a registry several questions in a *)
(* row.  A question is one _registry_get: a GET, and, if the registry asks *)
(* for a token, a GET of the token and the GET again.  Each of those GETs  *)
(* goes through the retry policy, which absorbs a blip.  Other people push *)
(* and delete tags, and move the tag that is looked up, between any two    *)
(* requests.                                                               *)
(*                                                                         *)
(* Tags are numbers in the order the registry lists them.  What a digest   *)
(* names is fixed: an image stands for its index, manifests and configs.   *)
(***************************************************************************)
EXTENDS Naturals, FiniteSets, FiniteSetsExt

CONSTANTS Tools,        \* of "registry_tags", "wait", "hub_tags", "image_config"
          Tags,         \* the tags there may be, numbers above 0
          Target,       \* the tag that a wait looks for
          Images,       \* what a tag may name: records of name and multi
          PageSize,     \* tags on a page
          MaxPages,     \* _MAX_TAG_PAGES
          Limit,        \* the caller's limit
          Delays,       \* what Retry-After may say, in seconds
          Threshold,    \* _RATE_LIMIT_RETRY_THRESHOLD_SECONDS
          Backoff,      \* _TRANSIENT_BACKOFF_SECONDS, rounded up
          MaxTransient, \* _TRANSIENT_MAX_RETRIES
          MaxMoves,     \* bound: changes made by others
          None

ASSUME NumbersAssumption ==
    /\ Tags \subseteq Nat \ {0} /\ Delays \subseteq Nat
    /\ {Threshold, Backoff, MaxTransient, MaxMoves} \subseteq Nat
    /\ {PageSize, MaxPages, Limit} \subseteq Nat \ {0}
    /\ IsFiniteSet(Tags)
    /\ Backoff <= Threshold

VARIABLES tool,  \* the tool that was called
          tags,  \* the repository's tags
          image, \* the image the looked-up tag names
          moves, \* changes made by others so far
          pc,    \* the question under way, or how the call ended
          get,   \* that question: its stage and the retry policy's state
          seen,  \* the failures met in this policy call
          list,  \* registry_tags, hub_tags: what was read so far
          expired, \* the wait's deadline has passed
          found  \* image_config: the images the reads resolved to

vars == <<tool, tags, image, moves, pc, get, seen, list, expired, found>>

Asking == {"page", "manifest", "platform", "config"}

NewGet == [stage |-> "first", transients |-> 0, retried |-> FALSE, slept |-> 0, sent |-> 0]
NothingSeen == [transient |-> 0, limited |-> 0, long |-> FALSE]
NewList == [tags |-> {}, count |-> 0, cursor |-> 0, pages |-> 0, truncated |-> FALSE,
            stable |-> tags,     \* the tags that were there all along
            shifted |-> FALSE]   \* a tag was deleted meanwhile

TypeOK ==
    /\ tool \in Tools /\ tags \subseteq Tags /\ image \in Images /\ moves \in 0 .. MaxMoves
    /\ pc \in Asking \cup {"listed", "done", "timedout", "outage", "ratelimited", "failed"}
    /\ get \in [stage : {"first", "token", "again"}, transients : 0 .. MaxTransient,
                retried : BOOLEAN, slept : Nat, sent : Nat]
    /\ seen \in [transient : Nat, limited : Nat, long : BOOLEAN]
    /\ list \in [tags : SUBSET Tags, count : Nat, cursor : Nat, pages : Nat, truncated : BOOLEAN,
                 stable : SUBSET Tags, shifted : BOOLEAN]
    /\ expired \in BOOLEAN
    /\ found \in [index : Images \cup {None}, manifest : Images \cup {None},
                  config : Images \cup {None}]

Init ==
    /\ tool \in Tools
    /\ tags \in SUBSET Tags
    /\ image \in Images
    /\ moves = 0
    /\ pc = IF tool = "image_config" THEN "manifest" ELSE "page"
    /\ get = NewGet
    /\ seen = NothingSeen
    /\ list = NewList
    /\ expired = FALSE
    /\ found = [index |-> None, manifest |-> None, config |-> None]

----------------------------------------------------------------------------
(* The retry policy: one loop for both kinds of failure.  A new policy     *)
(* call begins with every stage of a question.                             *)

End(how) == pc' = how /\ UNCHANGED <<get, seen>>
Again(g) == get' = [g EXCEPT !.sent = @ + 1] /\ UNCHANGED pc
NextStage(stage) ==
    /\ get' = [NewGet EXCEPT !.stage = stage, !.sent = get.sent + 1]
    /\ seen' = NothingSeen
    /\ UNCHANGED pc

TransientDelay(d) == IF d = None THEN Backoff ELSE IF d < Threshold THEN d ELSE Threshold

\* A 502, 503 or 504; the last one is returned, and raised by the caller.
TransientStatus(d) ==
    /\ pc \in Asking
    /\ seen' = [seen EXCEPT !.transient = @ + 1]
    /\ IF get.transients < MaxTransient
       THEN Again([get EXCEPT !.transients = @ + 1, !.slept = @ + TransientDelay(d)])
       ELSE pc' = "outage" /\ UNCHANGED get
    /\ UNCHANGED <<tool, tags, image, moves, list, expired, found>>

\* A 429 is waited out once, if the registry says for how long.
\* Mutant: no 429 is waited out after a transient failure.
RetriesFirst(d) == ~get.retried /\ get.transients = 0 /\ d # None /\ d <= Threshold
Retries429(d) == ~get.retried /\ d # None /\ d <= Threshold

RateLimited(d) ==
    /\ pc \in Asking
    /\ seen' = [seen EXCEPT !.limited = @ + 1, !.long = @ \/ d = None \/ d > Threshold]
    /\ IF Retries429(d)
       THEN Again([get EXCEPT !.retried = TRUE, !.slept = @ + d])
       ELSE pc' = "ratelimited" /\ UNCHANGED get
    /\ UNCHANGED <<tool, tags, image, moves, list, expired, found>>

\* A 401: the token is asked for once, where the challenge says, unless that
\* place is refused; Docker Hub's own API is asked without one.
Unauthorized ==
    /\ pc \in Asking
    /\ \/ get.stage = "first" /\ tool # "hub_tags" /\ NextStage("token")
       \/ End("failed")
    /\ UNCHANGED <<tool, tags, image, moves, list, expired, found>>

TokenGranted ==
    /\ pc \in Asking /\ get.stage = "token"
    /\ NextStage("again")
    /\ UNCHANGED <<tool, tags, image, moves, list, expired, found>>

\* Any other status, a lost connection, a body that is too large.
Fails ==
    /\ pc \in Asking
    /\ End("failed")
    /\ UNCHANGED <<tool, tags, image, moves, list, expired, found>>

Answered == pc \in Asking /\ get.stage # "token"
Ask(question) == pc' = question /\ get' = NewGet /\ seen' = NothingSeen

----------------------------------------------------------------------------
(* The tag lists.  The registry continues after the last tag of the page;  *)
(* Docker Hub counts pages.                                                *)

AfterTag == {t \in tags : t > list.cursor}
AfterPages == {t \in tags : Cardinality({u \in tags : u < t}) >= list.pages * PageSize}
Rest == IF tool = "hub_tags" THEN AfterPages ELSE AfterTag
Smallest(set, n) == {t \in set : Cardinality({u \in set : u < t}) < n}

\* Whether a page that has a next one is read on from.
\* Mutant: the last page allowed counts as the last there is.
EndsAnyway(link, pages) == ~link \/ pages = MaxPages
EndsThere(link, pages) == ~link

Page ==
    LET page == Smallest(Rest, PageSize)
        count == list.count + Cardinality(page)
        link == Rest # page
        pages == list.pages + 1
        read == [list EXCEPT !.tags = @ \cup Smallest(page, Limit - list.count),
                             !.count = count, !.pages = pages,
                             !.cursor = IF page = {} THEN @ ELSE Max(page)]
    IN /\ pc = "page" /\ Answered
       /\ IF count >= Limit
          THEN list' = [read EXCEPT !.truncated = TRUE] /\ pc' = "listed" /\ UNCHANGED <<get, seen>>
          ELSE IF link /\ pages < MaxPages
          THEN list' = read /\ Ask("page")
          ELSE list' = [read EXCEPT !.truncated = ~EndsThere(link, pages)] /\ pc' = "listed"
               /\ UNCHANGED <<get, seen>>
       /\ UNCHANGED <<tool, tags, image, moves, expired, found>>

\* _validate_hub_next: a malformed link is never taken for the last page's.
MalformedNext ==
    /\ pc = "page" /\ Answered /\ tool = "hub_tags"
    /\ End("failed")
    /\ UNCHANGED <<tool, tags, image, moves, list, expired, found>>

\* The list is the answer, or it is read again until the tag is there.
Listed ==
    /\ pc = "listed"
    /\ IF tool # "wait" \/ Target \in list.tags
       THEN pc' = "done" /\ UNCHANGED <<get, seen, list>>
       ELSE IF expired THEN pc' = "timedout" /\ UNCHANGED <<get, seen, list>>
       ELSE list' = NewList /\ Ask("page")
    /\ UNCHANGED <<tool, tags, image, moves, expired, found>>

----------------------------------------------------------------------------
(* registry_image_config: the manifest by tag, the platform's manifest and *)
(* the config by digest.                                                   *)

\* Mutant: the platform's manifest is looked up by the tag.
ByTag == image
ByDigest == found.index

RegistryManifest ==
    /\ pc = "manifest" /\ Answered
    /\ found' = [found EXCEPT !.index = image, !.manifest = image]
    /\ Ask(IF image.multi THEN "platform" ELSE "config")
    /\ UNCHANGED <<tool, tags, image, moves, list, expired>>

PlatformManifest ==
    /\ pc = "platform" /\ Answered
    /\ found' = [found EXCEPT !.manifest = ByDigest]
    /\ Ask("config")
    /\ UNCHANGED <<tool, tags, image, moves, list, expired>>

ImageConfig ==
    /\ pc = "config" /\ Answered
    /\ found' = [found EXCEPT !.config = found.manifest]
    /\ pc' = "done" /\ UNCHANGED <<get, seen>>
    /\ UNCHANGED <<tool, tags, image, moves, list, expired>>

----------------------------------------------------------------------------
(* Other people.                                                           *)

Push(t) ==
    /\ tags' = tags \cup {t} /\ UNCHANGED <<image, list>>
Delete(t) ==
    /\ tags' = tags \ {t} /\ UNCHANGED image
    /\ list' = [list EXCEPT !.stable = @ \ {t}, !.shifted = TRUE]
MoveTag(i) ==
    /\ image' = i /\ UNCHANGED <<tags, list>>

Others ==
    /\ pc \in Asking /\ moves < MaxMoves /\ moves' = moves + 1
    /\ \/ \E t \in Tags \ tags : Push(t)
       \/ \E t \in tags : Delete(t)
       \/ \E i \in Images \ {image} : MoveTag(i)
    /\ UNCHANGED <<tool, pc, get, seen, expired, found>>

Expire ==
    /\ tool = "wait" /\ ~expired /\ expired' = TRUE
    /\ UNCHANGED <<tool, tags, image, moves, pc, get, seen, list, found>>

Step ==
    \/ \E d \in Delays \cup {None} : TransientStatus(d) \/ RateLimited(d)
    \/ Unauthorized \/ TokenGranted \/ Fails
    \/ Page \/ MalformedNext \/ Listed
    \/ RegistryManifest \/ PlatformManifest \/ ImageConfig

Next == Step \/ Others \/ Expire

Spec == Init /\ [][Next]_vars

----------------------------------------------------------------------------
(* Properties                                                              *)

\* A blip is absorbed in whatever order it comes, and only a blip: a call fails
\* for a transient status or a rate limit only after more of them than the policy
\* allows for, or when told to wait for long; and a question costs a bounded
\* number of requests and of seconds asleep, whatever mixture of failures it meets.
BlipIsAbsorbed ==
    /\ pc = "outage" => seen.transient > MaxTransient
    /\ pc = "ratelimited" => seen.limited > 1 \/ seen.long
    /\ get.sent <= 3 * (MaxTransient + 2) - 1
    /\ get.slept <= (MaxTransient + 1) * Threshold

\* A list that does not say that it is cut has every tag that was there all
\* along, though tags came and went between its pages.  (Docker Hub's pages
\* shift when a tag is deleted.)
TagsAreWhole ==
    pc \in {"listed", "done"} /\ tool # "image_config" /\ ~list.truncated =>
        list.stable \subseteq list.tags \/ (tool = "hub_tags" /\ list.shifted)

\* The config belongs to the image that the tag named when it was looked up,
\* though the tag moves between the three questions.
ConfigIsTheImages ==
    pc = "done" /\ tool = "image_config" => found.config = found.index
============================================================================
