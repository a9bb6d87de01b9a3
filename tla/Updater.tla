------------------------------ MODULE Updater ------------------------------
(***************************************************************************)
(* The software update: wha's Updater (Check, Info, Trigger behind the two *)
(* web handlers) with the registry it reads page by page, the shared       *)
(* directory with request.json and status.json, and the sidecar script     *)
(* that consumes the one, writes the other, pins the image tag and         *)
(* recreates the container.                                                *)
(*                                                                         *)
(* A tag is the tuple of the numbers in it; <<0>> stands for the tags that *)
(* are no X.Y.Z (latest, edge, sha...), and <<>> is no version.  wha and   *)
(* the sidecar share nothing but the two files; each file is replaced by a *)
(* rename.  Requests are numbered to follow them through the handshake.  A *)
(* request file is always one Trigger wrote, so the script's refusal of a  *)
(* malformed version does not occur.                                       *)
(***************************************************************************)
EXTENDS Integers, FiniteSets, Sequences

CONSTANTS
    Checkers,      \* registry checks at the same time: startup, web requests
    TagOrder,      \* every tag there may ever be, in the order the registry lists
    FirstVersion,  \* the release running at first
    PageSize,      \* tags on a page of the registry's answer
    MaxTagPages,   \* maxTagPages
    MaxRequests,   \* bound on requests for an update
    MaxCrashes     \* bound on crashes of the sidecar and restarts of wha

Tags == {TagOrder[i] : i \in DOMAIN TagOrder}
Versions == {t \in Tags : Len(t) = 3}     \* semverRe
None == <<>>

(* maxTagPages is far beyond any realistic number of tags.                 *)
ASSUME UpdaterConstants ==
    /\ TagOrder \in Seq(Seq(Nat)) /\ FirstVersion \in Versions
    /\ \A i, j \in DOMAIN TagOrder : TagOrder[i] = TagOrder[j] => i = j
    /\ PageSize \in Nat \ {0} /\ MaxTagPages \in Nat
    /\ PageSize * MaxTagPages >= Len(TagOrder)
    /\ MaxRequests \in Nat /\ MaxCrashes \in Nat

NoRequest == [id |-> 0, version |-> None]
Requests == [id : 0..MaxRequests, version : Versions \cup {None}]

VARIABLES
    tags,        \* the registry: the tags published
    running,     \* version of the wha container, u.current
    latest,      \* u.latest, None when never checked
    fresh,       \* u.checked is younger than CheckTTL
    check,       \* what each check in flight is doing, or has fetched
    request,     \* request.json
    status,      \* status.json
    sidecar,     \* where the script is
    job,         \* the request the script works on
    pinned,      \* the image tag in the compose file
    issued,      \* requests so far
    applied,     \* history: ids the script began to apply, how often
    overlapped,  \* history: a check began while another was in flight
    crashes

wha == <<running, latest, fresh, check, overlapped>>
script == <<sidecar, job, pinned, applied>>
vars == <<tags, wha, request, status, script, issued, crashes>>

-----------------------------------------------------------------------------
(* compareSemver(a, b) > 0, for two versions; numbers, not texts: 1.10.0   *)
(* is listed before 1.9.0 and is higher.                                   *)
Higher(a, b) ==
    \E i \in 1..3 : a[i] > b[i] /\ \A j \in 1..(i - 1) : a[j] = b[j]

(* maxSemver, None when no tag is a version.                               *)
MaxSemver(ts) ==
    LET vs == ts \cap Versions
    IN  IF vs = {} THEN None ELSE CHOOSE v \in vs : \A w \in vs : ~Higher(w, v)

(* What a check does: it lists page by page, after the tag of the last     *)
(* page it read; best is the highest version seen.  floor is history: the  *)
(* highest version published when the check began.                         *)
Idle == [stage |-> "idle", page |-> 0, last |-> 0, best |-> None, floor |-> None]
Listing == [Idle EXCEPT !.stage = "listing"]

Checks == [stage : {"idle", "listing", "fetched"}, page : 0..MaxTagPages,
           last : 0..Len(TagOrder), best : Versions \cup {None},
           floor : Versions \cup {None}]

Init ==
    /\ tags = {FirstVersion} \cup (Tags \ Versions)
    /\ running = FirstVersion /\ pinned = FirstVersion
    /\ latest = None /\ fresh = FALSE /\ check = [c \in Checkers |-> Idle]
    /\ request = NoRequest /\ status = [state |-> "idle", version |-> None]
    /\ sidecar = "poll" /\ job = NoRequest /\ issued = 0
    /\ applied = [i \in 1..MaxRequests |-> 0]
    /\ overlapped = FALSE /\ crashes = 0

-----------------------------------------------------------------------------
(* Releases come in any order: one of an older line may follow a newer.    *)
Release ==
    /\ \E v \in Versions \ tags : tags' = tags \cup {v}
    /\ UNCHANGED <<wha, request, status, script, issued, crashes>>

(* Check: a result younger than CheckTTL is reused; otherwise the registry *)
(* is asked without holding the lock.                                      *)
StartCheck(c) ==
    /\ check[c] = Idle /\ ~fresh
    /\ check' = [check EXCEPT ![c] = [Listing EXCEPT !.floor = MaxSemver(tags)]]
    /\ overlapped' = (overlapped \/ \E d \in Checkers : check[d] # Idle)
    /\ UNCHANGED <<tags, running, latest, fresh, request, status, script,
                   issued, crashes>>

(* The registry: the positions of the published tags after the last one,   *)
(* the first PageSize of which are a page.                                 *)
After(last) == {i \in DOMAIN TagOrder : i > last /\ TagOrder[i] \in tags}
Page(last) ==
    {i \in After(last) : Cardinality({j \in After(last) : j =< i}) =< PageSize}

(* ...Wrong... definitions are faulty variants of the one that follows:    *)
(* the link to the next page is overlooked.                                *)
NextLinkWrongNone(last) == 0

(* nextLink: the last tag of this page if there is more, 0 if not.         *)
NextLink(last) ==
    IF After(last) = Page(last) THEN 0
    ELSE CHOOSE i \in Page(last) : \A j \in Page(last) : j =< i

(* fetchTags, one page; at the last one, or the limit, the best is kept.   *)
FetchPage(c) ==
    LET k == check[c]
        best == MaxSemver({k.best} \cup {TagOrder[i] : i \in Page(k.last)})
        next == NextLink(k.last)
    IN  /\ k.stage = "listing"
        /\ check' = [check EXCEPT ![c] =
              IF next # 0 /\ k.page + 1 < MaxTagPages
              THEN [k EXCEPT !.page = @ + 1, !.last = next, !.best = best]
              ELSE [Idle EXCEPT !.stage = "fetched", !.best = best,
                                !.floor = k.floor]]
        /\ UNCHANGED <<tags, running, latest, fresh, overlapped, request, status,
                       script, issued, crashes>>

(* The token, a page or its decoding fails: the check ends with an error.  *)
FetchFails(c) ==
    /\ check[c].stage = "listing"
    /\ check' = [check EXCEPT ![c] = Idle]
    /\ UNCHANGED <<tags, running, latest, fresh, overlapped, request, status,
                   script, issued, crashes>>

(* An answer without a version is stored too.                              *)
StoreCheck(c) ==
    /\ check[c].stage = "fetched"
    /\ latest' = check[c].best /\ fresh' = TRUE
    /\ check' = [check EXCEPT ![c] = Idle]
    /\ UNCHANGED <<tags, running, overlapped, request, status, script, issued,
                   crashes>>

Expire ==
    /\ fresh /\ fresh' = FALSE
    /\ UNCHANGED <<tags, running, latest, check, overlapped, request, status,
                   script, issued, crashes>>

AcceptsWrongAnyRelease(v) == v \in tags /\ v # running

(* What handleUpdateApply and Trigger let through.                         *)
Accepts(v) == v = latest /\ v # running

(* handleUpdateApply: an unread request is replaced.                       *)
Trigger ==
    /\ issued < MaxRequests /\ issued' = issued + 1
    /\ \E v \in Versions :
          Accepts(v) /\ request' = [id |-> issued', version |-> v]
    /\ UNCHANGED <<tags, wha, status, script, crashes>>

(* A new process knows its own version and nothing else.                   *)
ForgetChecks ==
    /\ latest' = None /\ fresh' = FALSE /\ check' = [c \in Checkers |-> Idle]

WhaRestart ==
    /\ crashes < MaxCrashes /\ crashes' = crashes + 1
    /\ ForgetChecks
    /\ UNCHANGED <<tags, running, overlapped, request, status, script, issued>>

-----------------------------------------------------------------------------
(* The script's loop: read the version, then remove the file, whatever is  *)
(* in it by then.                                                          *)
ReadRequest ==
    /\ sidecar = "poll" /\ request # NoRequest
    /\ job' = request /\ sidecar' = "read"
    /\ UNCHANGED <<tags, wha, request, status, pinned, applied,
                   issued, crashes>>

ConsumeWrongLate ==
    /\ sidecar = "read" /\ sidecar' = "consumed"
    /\ UNCHANGED <<tags, wha, request, status, job, pinned, applied, issued,
                   crashes>>

Consume ==
    /\ sidecar = "read"
    /\ request' = NoRequest /\ sidecar' = "consumed"
    /\ UNCHANGED <<tags, wha, status, job, pinned, applied, issued,
                   crashes>>

(* apply_update.                                                           *)
BeginApply ==
    /\ sidecar = "consumed" /\ sidecar' = "applying"
    /\ status' = [state |-> "applying", version |-> job.version]
    /\ applied' = [applied EXCEPT ![job.id] = @ + 1]
    /\ UNCHANGED <<tags, wha, request, job, pinned, issued, crashes>>

Finish(state) ==
    /\ status' = [state |-> state, version |-> job.version]
    /\ sidecar' = "poll" /\ job' = NoRequest

FailWrongSilent ==
    /\ sidecar \in {"applying", "pinned", "pulled"}
    /\ sidecar' = "poll" /\ job' = NoRequest
    /\ UNCHANGED <<tags, wha, request, status, pinned, applied, issued, crashes>>

Fail ==
    /\ sidecar \in {"applying", "pinned", "pulled"} /\ Finish("failed")
    /\ UNCHANGED <<tags, wha, request, pinned, applied, issued, crashes>>

(* sed finds nothing to replace, which is no failure to it.                *)
PinWrongNoMatch ==
    /\ sidecar = "applying" /\ sidecar' = "pinned"
    /\ UNCHANGED <<tags, wha, request, status, job, pinned, applied, issued,
                   crashes>>

(* The image reference in the compose file carries a tag to replace, as    *)
(* the one that is installed does.                                         *)
Pin ==
    /\ sidecar = "applying" /\ sidecar' = "pinned"
    /\ pinned' = job.version
    /\ UNCHANGED <<tags, wha, request, status, job, applied, issued,
                   crashes>>

Pull ==
    /\ sidecar = "pinned" /\ sidecar' = "pulled"
    /\ UNCHANGED <<tags, wha, request, status, job, pinned, applied,
                   issued, crashes>>

(* A failing docker compose up goes unnoticed.                             *)
UpWrongUnchecked ==
    /\ sidecar = "pulled" /\ sidecar' = "up"
    /\ running' \in {running, pinned}
    /\ \/ running' # running /\ ForgetChecks
       \/ running' = running /\ UNCHANGED <<latest, fresh, check>>
    /\ UNCHANGED <<tags, overlapped, request, status, job, pinned, applied,
                   issued, crashes>>

(* docker compose up: wha is recreated when its image changed.             *)
Up ==
    /\ sidecar = "pulled" /\ sidecar' = "up"
    /\ running' = pinned
    /\ \/ running' # running /\ ForgetChecks
       \/ running' = running /\ UNCHANGED <<latest, fresh, check>>
    /\ UNCHANGED <<tags, overlapped, request, status, job, pinned, applied,
                   issued, crashes>>

Done ==
    /\ sidecar = "up" /\ Finish("done")
    /\ UNCHANGED <<tags, wha, request, pinned, applied, issued, crashes>>

(* The sidecar dies anywhere and is started again: it keeps the status     *)
(* file it finds.                                                          *)
SidecarCrash ==
    /\ crashes < MaxCrashes /\ crashes' = crashes + 1
    /\ sidecar # "poll" /\ sidecar' = "poll" /\ job' = NoRequest
    /\ UNCHANGED <<tags, wha, request, status, pinned, applied,
                   issued>>

Apply == BeginApply \/ Fail \/ Pin \/ Pull \/ Up \/ Done
Sidecar == ReadRequest \/ Consume \/ Apply
Check(c) == StartCheck(c) \/ FetchPage(c) \/ FetchFails(c) \/ StoreCheck(c)

Next == \/ Release \/ Expire \/ Trigger \/ WhaRestart \/ SidecarCrash \/ Sidecar
        \/ \E c \in Checkers : Check(c)

(* The script polls in a loop; nobody is obliged to check or to update.    *)
Spec == Init /\ [][Next]_vars /\ WF_vars(Sidecar)

-----------------------------------------------------------------------------
(* Types; the script holds a job exactly while it works on one.            *)
TypeOK ==
    /\ tags \subseteq Tags /\ {running, pinned} \subseteq tags
    /\ latest \in tags \cup {None} /\ fresh \in BOOLEAN
    /\ check \in [Checkers -> Checks]
    /\ request \in Requests /\ job \in Requests
    /\ status \in [state : {"idle", "applying", "done", "failed"},
                   version : Versions \cup {None}]
    /\ sidecar \in {"poll", "read", "consumed", "applying", "pinned", "pulled", "up"}
    /\ (job = NoRequest) <=> (sidecar = "poll")
    /\ overlapped \in BOOLEAN
    /\ issued \in 0..MaxRequests /\ crashes \in 0..MaxCrashes

(* "Updated to X" is true for as long as it is shown: crashes of either    *)
(* side and later requests never leave a done status for a version that    *)
(* is not the one running.                                                 *)
DoneIsTrue == status.state = "done" => running = status.version

(* fetchTags: "a newer semver on a later page is never missed".  What a    *)
(* check found is not older than any release published before the check    *)
(* began, whatever is released while it turns the pages.                   *)
NewestIsFound ==
    \A c \in Checkers :
        check[c].stage = "fetched" =>
            check[c].best # None /\ ~Higher(check[c].floor, check[c].best)

(* A compose file that pins another version than the one running is never  *)
(* left behind by an update that is shown as done, or by none at all: the  *)
(* status tells that it failed, or that it is still being applied (which   *)
(* is what a crash of the sidecar leaves).                                 *)
PinIsReported ==
    (sidecar = "poll" /\ pinned # running)
        => status.state \in {"failed", "applying"}

(* Types, and the status tells the truth: of the version that runs, and of *)
(* a compose file that pins another.                                       *)
StatusInv == TypeOK /\ DoneIsTrue /\ PinIsReported

(* run.sh consumes the request before it acts, "so a crash can't loop":    *)
(* whatever crashes when, a request is applied at most once.               *)
AppliedOnce == \A i \in 1..MaxRequests : applied[i] =< 1

(* handleUpdateApply "requests an upgrade": the running version only       *)
(* grows, whatever crashes and is requested meanwhile, as long as no two   *)
(* checks of the registry are in flight together.                          *)
NeverDowngrades == [][ ~overlapped => ~Higher(running, running') ]_vars

(* A request the script has taken is answered, done or failed, while later *)
(* requests arrive and wha itself is replaced, unless a process crashes.   *)
TakenIsAnswered ==
    \A k \in 0..MaxCrashes, v \in Versions :
        (sidecar = "consumed" /\ job.version = v /\ crashes = k)
            ~> \/ status.state \in {"done", "failed"} /\ status.version = v
               \/ crashes > k

(* The handshake is one update job at a time for whoever reads the status: *)
(* refinement of UpdateJob, its fairness included.                         *)
Job == INSTANCE UpdateJob WITH
    version <- running, report <- status,
    active <- IF sidecar \in {"applying", "pinned", "pulled", "up"}
              THEN job.version ELSE None
JobSpec == Job!Spec

-----------------------------------------------------------------------------
(* What the documentation says and the code does not do.                   *)

(* updating.md: wha writes the chosen version, the sidecar pulls it and    *)
(* restarts wha.  A request written between the script's read and its rm   *)
(* is removed unread; no answer for it, or for a newer one, ever comes.    *)
RequestIsAnswered ==
    \A v \in Versions :
        (request.version = v) ~>
            /\ status.state \in {"done", "failed"}
            /\ status.version # None /\ ~Higher(v, status.version)
=============================================================================
