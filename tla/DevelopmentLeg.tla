--------------------------- MODULE DevelopmentLeg ---------------------------
(***************************************************************************)
(* One story and the development leg that works on it: the pre-CLI setup,  *)
(* the agent's session with the auto-save timer beside it, and the post    *)
(* action that commits, pushes, opens the PR and moves the ticket, or ends *)
(* the leg in one of a dozen other ways.  Around it: the quota park and    *)
(* its probe, review, the merge bot and the two recovery jobs.             *)
(*                                                                         *)
(* A branch is the set of commits it has over its base; a commit carries   *)
(* pieces of work.  The post action calls itself again after the agent was *)
(* resumed, and a resumed session runs inside it: leg.back says where the  *)
(* post action goes on.  Who dispatches, and the trigger labels, are in    *)
(* SmDispatch: here a story that is ready and not parked gets a leg.       *)
(***************************************************************************)
EXTENDS Naturals, FiniteSets

CONSTANTS
    MaxWork,       \* pieces of work the agents write in all: a bound
    MaxAttempts,   \* feedbackLoop: resumes of the agent per stage
    ProbeEvery,    \* quotaProbeEveryNTicks
    Environments   \* the environments to consider: which switches are on

ASSUME BoundsAssumption == {MaxWork, MaxAttempts} \subseteq Nat /\ ProbeEvery \in Nat \ {0}

Switches ==
    {"feedback",       \* customParams.feedbackLoop is on
     "gates",          \* quality, policy and post-publish gates may fail
     "rejections",     \* a remote hook may reject pushes
     "conflicts",      \* syncing with the base, or merging, may conflict
     "refusals",       \* the PR may not be created
     "hangs",          \* a session may end without its response, a resume may fail
     "outages",        \* the whole provider chain may fail in a session
     "fatal",          \* the CLI may not start at all
     "quota",          \* a session may run into the quota wall
     "setup",          \* branch setup and setup commands may fail
     "failed probes",  \* the probe for the remote branch may fail
     "kills",          \* the job may be killed
     "lost calls",     \* a call to the tracker may fail
     "pushes",         \* people push to the branch under a running leg
     "unparks",        \* people remove the park label
     "closes",         \* people close a PR in review and restart the story
     "restarts",       \* people restart a story whose PR is open
     "recovery"}       \* a rule for recoverStuckDevelopment is configured

ASSUME EnvironmentsAssumption == Environments \subseteq SUBSET Switches

VARIABLES
    env,       \* the switches that are on
    status,    \* of the ticket
    labels,    \* of the ticket: "park" (provider_quota), "questions", "approved"
    remote,    \* the commits of the branch on the remote
    pr,        \* the story's pull request
    reviewed,  \* history: the last approval saw what is on the remote now
    leg,       \* the running leg, or how the last one ended
    wall,      \* the provider's quota is exhausted
    known,     \* history: what became of the last wall that cost a leg its response
    ticks,     \* park ticks so far, modulo ProbeEvery
    made       \* pieces of work written so far

story == <<status, labels, pr, reviewed>>
quota == <<wall, known, ticks>>
vars == <<env, status, labels, remote, pr, reviewed, leg, wall, known, ticks, made>>

Statuses == {"Ready", "Development", "Review", "Rework", "Merged"}
Labels == {"park", "questions", "approved"}
Commit == [works : SUBSET (1 .. MaxWork), kind : {"wip", "dev", "fix", "person"}]
Stages == {"main", "push", "fix push", "git", "fix git", "landing", "missing",
           "gate", "published gate", "pr", "post"}
Ends == {"none", "reused", "pr", "no changes", "asked", "reset", "failed", "parked", "killed"}
Leg == [pc : {"idle", "setup", "agent", "post", "git", "no changes", "gates", "fix git",
              "published", "response", "pr", "final"},
        end : Ends, stage : Stages, back : {"post", "no changes", "gates", "response"},
        tree : SUBSET (1 .. MaxWork), local : SUBSET Commit, base : SUBSET Commit,
        merged : BOOLEAN, resp : BOOLEAN, ask : BOOLEAN,
        cause : {"none", "quota", "outage", "fatal"}, approved : BOOLEAN,
        used : [Stages -> 0 .. IF MaxAttempts = 0 THEN 1 ELSE MaxAttempts]]

NoLeg == [pc |-> "idle", end |-> "none", stage |-> "main", back |-> "post",
          tree |-> {}, local |-> {}, base |-> {}, merged |-> FALSE, resp |-> FALSE,
          ask |-> FALSE, cause |-> "none", approved |-> FALSE, used |-> [s \in Stages |-> 0]]

Works(commits) == UNION {c.works : c \in commits}

(***************************************************************************)
(* Calls to the tracker: each is wrapped in a try that only warns.         *)
(***************************************************************************)
Lossy == "lost calls" \in env
Moved(s) == {s} \cup IF Lossy THEN {status} ELSE {}
With(l) == {labels \cup {l}} \cup IF Lossy THEN {labels} ELSE {}
Without(l) == {labels \ {l}} \cup IF Lossy THEN {labels} ELSE {}

(***************************************************************************)
(* The pieces a handler is made of.  A leg that ends leaves nothing but    *)
(* its outcome: the runner is thrown away.                                 *)
(***************************************************************************)
End(outcome) == leg' = [NoLeg EXCEPT !.end = outcome]

ResetForRetry(outcome) ==
    /\ End(outcome) /\ status' \in Moved("Ready")
    /\ UNCHANGED <<labels, pr, reviewed>>

CanResume_OneMore(stage) ==
    /\ leg.used[stage] <= IF stage = "missing" THEN 1 ELSE MaxAttempts
    /\ \/ "feedback" \in env \/ stage \in {"gate", "published gate"}
       \/ stage = "missing" /\ leg.cause = "outage"

CanResume(stage) ==
    /\ leg.used[stage] < IF stage = "missing" THEN 1 ELSE MaxAttempts
    /\ \/ "feedback" \in env \/ stage \in {"gate", "published gate"}
       \/ stage = "missing" /\ leg.cause = "outage"

Resume_GatesUnmarked(stage, back) ==
    /\ leg' = [leg EXCEPT !.pc = "agent", !.stage = stage, !.back = back,
                          !.used[stage] = IF stage \in {"gate", "published gate"} THEN @ ELSE @ + 1]
    /\ UNCHANGED story

Resume(stage, back) ==
    /\ leg' = [leg EXCEPT !.pc = "agent", !.stage = stage, !.back = back, !.used[stage] = @ + 1]
    /\ UNCHANGED story

ResumeOrReset(stage, outcome) ==
    \/ CanResume(stage) /\ Resume(stage, "post")
    \/ ~CanResume(stage) /\ ResetForRetry(outcome)

NoChangesNeeded ==
    /\ End("no changes") /\ status' \in Moved("Review") /\ labels' \in Without("questions")
    /\ UNCHANGED <<pr, reviewed>>

AskReporter == End("asked") /\ labels' \in With("questions") /\ UNCHANGED <<status, pr, reviewed>>

(***************************************************************************)
(* No response: park on a quota wall, fail on a broken CLI, else resume    *)
(* once, else reset for retry and fail the run.                            *)
(***************************************************************************)
Park_Reset == ResetForRetry("failed")

Park == End("parked") /\ labels' \in With("park") /\ UNCHANGED <<status, pr, reviewed>>

RecoverMissingResponse(back) ==
    \/ leg.cause = "quota" /\ Park
    \/ leg.cause = "fatal" /\ End("failed") /\ UNCHANGED story
    \/ leg.cause \in {"none", "outage"} /\ CanResume("missing") /\ Resume("missing", back)
    \/ leg.cause \in {"none", "outage"} /\ ~CanResume("missing") /\ ResetForRetry("failed")

-----------------------------------------------------------------------------
(***************************************************************************)
(* Before the agent.  A remote probe that fails reads as "no such branch". *)
(***************************************************************************)
Dispatch ==
    /\ leg.pc = "idle" /\ status = "Ready" /\ "park" \notin labels
    /\ leg' = [NoLeg EXCEPT !.pc = "setup", !.approved = "approved" \in labels]
    /\ known' = IF known = "unparked" THEN "clear" ELSE known
    /\ UNCHANGED <<env, story, remote, wall, ticks, made>>

BranchFound_Never == FALSE

BranchFound == remote # {}

CheckoutBranch ==
    \E found \in {BranchFound} \cup IF "failed probes" \in env THEN {FALSE} ELSE {} :
        LET tip == IF found THEN remote ELSE {} IN
        leg' = [leg EXCEPT !.pc = "agent", !.local = tip, !.base = tip]

Setup ==
    /\ leg.pc = "setup"
    /\ \/ CheckoutBranch /\ status' \in Moved("Development")
       \/ "setup" \in env /\ End("failed") /\ status' \in {status} \cup Moved("Development")
    /\ UNCHANGED <<env, labels, pr, reviewed, quota, remote, made>>

-----------------------------------------------------------------------------
(***************************************************************************)
(* Sessions: the main one and the resumed ones.  The prompt of a resume    *)
(* forbids pushing, and the auto-save timer runs beside the main one only. *)
(***************************************************************************)
AgentWorks ==
    /\ leg.pc = "agent" /\ made < MaxWork
    /\ leg' = [leg EXCEPT !.tree = @ \cup {made + 1}]
    /\ made' = made + 1
    /\ UNCHANGED <<env, story, quota, remote>>

Saved == leg.local \cup {[works |-> leg.tree, kind |-> "wip"]}

\* A push that is not a fast-forward is healed by a merge, or left when that conflicts.
AutoSave ==
    /\ leg.pc = "agent" /\ leg.stage = "main" /\ leg.tree # {}
    /\ \/ /\ remote \subseteq Saved
          /\ remote' = Saved /\ leg' = [leg EXCEPT !.tree = {}, !.local = Saved]
       \/ /\ ~(remote \subseteq Saved)
          /\ remote' = Saved \cup remote
          /\ leg' = [leg EXCEPT !.tree = {}, !.local = Saved \cup remote, !.merged = TRUE]
       \/ /\ "rejections" \in env \/ ("conflicts" \in env /\ ~(remote \subseteq Saved))
          /\ leg' = [leg EXCEPT !.tree = {}, !.local = Saved] /\ UNCHANGED remote
    /\ reviewed' = (reviewed /\ remote' = remote)
    /\ UNCHANGED <<env, status, labels, pr, quota, made>>

HitWall ==
    /\ "quota" \in env /\ leg.pc = "agent" /\ ~wall
    /\ wall' = TRUE
    /\ UNCHANGED <<env, story, known, ticks, remote, leg, made>>

\* Why a main session left no response; what is said about it is classified once.
Causes ==
    IF wall THEN {"quota"}
    ELSE (IF "hangs" \in env THEN {"none"} ELSE {})
           \cup (IF "outages" \in env THEN {"outage"} ELSE {})
           \cup (IF "fatal" \in env THEN {"fatal"} ELSE {})

\* A response may be there although the session met the wall later.
MainSessionEnds ==
    /\ leg.pc = "agent" /\ leg.stage = "main"
    /\ \/ /\ \E ask \in BOOLEAN : leg' = [leg EXCEPT !.pc = "post", !.resp = TRUE, !.ask = ask]
          /\ UNCHANGED known
       \/ \E cause \in Causes :
            /\ leg' = [leg EXCEPT !.pc = "post", !.cause = cause]
            /\ known' = IF cause = "quota" THEN "met" ELSE known
    /\ UNCHANGED <<env, story, wall, ticks, remote, made>>

\* A question is read again only where the post action starts anew.
ResumedSessionEnds ==
    /\ leg.pc = "agent" /\ leg.stage # "main"
    /\ \E resp \in {leg.resp, TRUE} :
         /\ resp \/ wall \/ "hangs" \in env \/ leg.stage # "missing"
         /\ \E ask \in IF leg.back = "post" THEN BOOLEAN ELSE {leg.ask} :
              leg' = [leg EXCEPT !.pc = leg.back, !.resp = resp, !.ask = ask]
    /\ UNCHANGED <<env, story, quota, remote, made>>

(***************************************************************************)
(* A resumed CLI that exits with an error.  A missing-response resume      *)
(* counts as attempted; the landing guard gives in; a gate's resume throws *)
(* out of the post action; the others reset the story.                     *)
(***************************************************************************)
ResumeFails ==
    /\ leg.pc = "agent" /\ leg.stage # "main" /\ (wall \/ "hangs" \in env)
    /\ \/ leg.stage = "missing" /\ leg' = [leg EXCEPT !.pc = leg.back] /\ UNCHANGED story
       \/ leg.stage = "landing" /\ NoChangesNeeded
       \/ leg.stage \in {"gate", "published gate"} /\ ResumeOrReset("post", "reset")
       \/ leg.stage \in {"push", "fix push", "post"} /\ ResetForRetry("reset")
       \/ leg.stage \in {"git", "fix git", "pr"} /\ ResetForRetry("failed")
    /\ UNCHANGED <<env, quota, remote, made>>

-----------------------------------------------------------------------------
(***************************************************************************)
(* The post action: an open PR ends it at once, before the stale approval  *)
(* is looked at.  The approval is read from the ticket of the dispatch.    *)
(***************************************************************************)
CleanStalePrApproved_Never == labels' = labels

CleanStalePrApproved == labels' \in IF leg.approved THEN Without("approved") ELSE {labels}

StartPostAction ==
    /\ leg.pc = "post"
    /\ \/ pr = "open" /\ End("reused") /\ status' \in Moved("Review") /\ UNCHANGED labels
       \/ pr # "open" /\ CleanStalePrApproved /\ leg' = [leg EXCEPT !.pc = "git"] /\ UNCHANGED status
    /\ UNCHANGED <<env, pr, reviewed, quota, remote, made>>

(***************************************************************************)
(* Commit what is in the tree, squash this leg's auto-saves into one       *)
(* commit, push.  A rejected push (a rewritten branch, say) is repeated    *)
(* with plain --force, so that only a hook stops it: what others pushed    *)
(* meanwhile is overwritten.                                               *)
(***************************************************************************)
Squashable(commits, kind) ==
    /\ ~leg.merged /\ commits # {}
    /\ \A c \in commits : c.kind \in {"wip", kind}
    /\ ~(Cardinality(commits) = 1 /\ \A c \in commits : c.kind = kind)

Committed(kind) ==
    LET commits == (leg.local \ leg.base)
                     \cup IF leg.tree = {} THEN {} ELSE {[works |-> leg.tree, kind |-> kind]}
    IN  leg.base \cup IF Squashable(commits, kind)
                      THEN {[works |-> Works(commits), kind |-> kind]} ELSE commits

NothingToPush_CleanTree == leg.tree = {}

NothingToPush == leg.tree = {} /\ leg.local = {}

Push(kind, next) ==
    /\ remote' = Committed(kind)
    /\ leg' = [leg EXCEPT !.pc = next, !.tree = {}, !.local = Committed(kind)]
    /\ reviewed' = FALSE
    /\ UNCHANGED <<status, labels, pr>>

\* The commit is made before the push or the sync with the base fails.
PushFails(kind, stage, outcome) ==
    /\ \/ /\ CanResume(stage) /\ UNCHANGED story
          /\ leg' = [leg EXCEPT !.pc = "agent", !.stage = stage, !.back = "post",
                                !.used[stage] = @ + 1, !.tree = {}, !.local = Committed(kind)]
       \/ ~CanResume(stage) /\ ResetForRetry(outcome)
    /\ UNCHANGED remote

GitOperations ==
    /\ leg.pc = "git"
    /\ \/ ~NothingToPush /\ Push("dev", "gates")
       \/ ~NothingToPush /\ "rejections" \in env /\ PushFails("dev", "push", "reset")
       \/ ~NothingToPush /\ "conflicts" \in env /\ PushFails("dev", "git", "failed")
       \/ /\ NothingToPush
          /\ leg' = [leg EXCEPT !.pc = IF remote # {} THEN "gates" ELSE "no changes"]
          /\ UNCHANGED <<story, remote>>
    /\ UNCHANGED <<env, quota, made>>

BranchCarriesWork == leg.tree # {} \/ leg.local # {}

\* The text of a response may claim changes or not.
RecoverNoChanges ==
    /\ leg.pc = "no changes"
    /\ \/ leg.ask /\ AskReporter
       \/ ~leg.ask /\ leg.resp /\ NoChangesNeeded
       \/ /\ ~leg.ask /\ leg.resp /\ ~BranchCarriesWork /\ CanResume("landing")
          /\ Resume("landing", "post")
       \/ ~leg.ask /\ ~leg.resp /\ RecoverMissingResponse("no changes")
    /\ UNCHANGED <<env, quota, remote, made>>

RunGates ==
    /\ leg.pc = "gates"
    /\ \/ leg.ask /\ AskReporter
       \/ /\ ~leg.ask
          /\ \/ leg' = [leg EXCEPT !.pc = "fix git"] /\ UNCHANGED story
             \/ "gates" \in env /\ CanResume("gate") /\ Resume("gate", "gates")
             \/ "gates" \in env /\ ~CanResume("gate") /\ ResetForRetry("reset")
    /\ UNCHANGED <<env, quota, remote, made>>

GateFixGitOperations ==
    /\ leg.pc = "fix git"
    /\ \/ ~NothingToPush /\ Push("fix", "published")
       \/ ~NothingToPush /\ "rejections" \in env /\ PushFails("fix", "fix push", "reset")
       \/ ~NothingToPush /\ "conflicts" \in env /\ PushFails("fix", "fix git", "failed")
       \/ NothingToPush /\ leg' = [leg EXCEPT !.pc = "published"] /\ UNCHANGED <<story, remote>>
    /\ UNCHANGED <<env, quota, made>>

RunPostPublishGates ==
    /\ leg.pc = "published"
    /\ \/ leg' = [leg EXCEPT !.pc = "response"] /\ UNCHANGED story
       \/ "gates" \in env /\ ResumeOrReset("published gate", "reset")
    /\ UNCHANGED <<env, quota, remote, made>>

EnsureResponse ==
    /\ leg.pc = "response"
    /\ \/ leg.resp /\ leg' = [leg EXCEPT !.pc = "pr"] /\ UNCHANGED story
       \/ ~leg.resp /\ RecoverMissingResponse("response")
    /\ UNCHANGED <<env, quota, remote, made>>

CreatePullRequest ==
    /\ leg.pc = "pr"
    /\ \/ /\ pr' = "open" /\ leg' = [leg EXCEPT !.pc = "final"]
          /\ UNCHANGED <<status, labels, reviewed>>
       \/ "refusals" \in env /\ ResumeOrReset("pr", "failed")
    /\ UNCHANGED <<env, quota, remote, made>>

FinalizeSuccess ==
    /\ leg.pc = "final" /\ End("pr")
    /\ status' \in Moved("Review") /\ labels' \in Without("questions")
    /\ UNCHANGED <<env, pr, reviewed, quota, remote, made>>

Kill ==
    /\ "kills" \in env /\ leg.pc # "idle" /\ End("killed")
    /\ UNCHANGED <<env, story, quota, remote, made>>

-----------------------------------------------------------------------------
(***************************************************************************)
(* The park ends after a probe that succeeds, one probe in ProbeEvery      *)
(* ticks; the tick is a comment, written before the probe.                 *)
(***************************************************************************)
ProbeDue == ticks = 0

NextTick_ProbesOnly == IF ProbeDue THEN (ticks + 1) % ProbeEvery ELSE ticks

NextTick == (ticks + 1) % ProbeEvery

\* Comments that cannot be read count as no tick: the probe is due, and the tick
\* marker it writes is the first again.
QuotaParkTick ==
    /\ "park" \in labels
    /\ \E unread \in IF Lossy THEN BOOLEAN ELSE {FALSE} :
         LET due == unread \/ ProbeDue
         IN /\ ticks' \in (IF unread /\ ticks # 0 THEN {} ELSE {NextTick})
                             \cup IF Lossy THEN {ticks} ELSE {}
            /\ \/ (~due \/ wall) /\ UNCHANGED <<status, labels, known>>
               \/ /\ due /\ ~wall /\ known' = "clear"
                  /\ labels' \in Without("park") /\ status' \in Moved("Ready")
    /\ UNCHANGED <<env, pr, reviewed, remote, leg, wall, made>>

QuotaResets ==
    /\ wall /\ wall' = FALSE
    /\ UNCHANGED <<env, story, known, ticks, remote, leg, made>>

(***************************************************************************)
(* The local jobs of a tick that move the story.                           *)
(***************************************************************************)
RecoverStuckDevelopment ==
    /\ "recovery" \in env /\ status = "Development" /\ "park" \notin labels
    /\ status' \in Moved(IF pr = "open" THEN "Review" ELSE "Ready")
    /\ UNCHANGED <<env, labels, pr, reviewed, quota, remote, leg, made>>

\* A conflict, or after the merge a move that throws, escalates to rework.
RetryMerge ==
    /\ status = "Review" /\ "approved" \in labels /\ "park" \notin labels /\ pr = "open"
    /\ labels' \in Without("approved")
    /\ \/ pr' = "merged" /\ status' \in {"Merged"} \cup IF Lossy THEN {"Rework", "Review"} ELSE {}
       \/ "conflicts" \in env /\ pr' = pr /\ status' \in Moved("Rework")
    /\ UNCHANGED <<env, reviewed, quota, remote, leg, made>>

MergedStatuses_Review == {"Review"}

MergedStatuses == {"Review", "Rework"}

RecoverMergedPR ==
    /\ status \in MergedStatuses /\ "park" \notin labels /\ pr = "merged"
    /\ status' \in Moved("Merged") /\ labels' \in Without("approved")
    /\ UNCHANGED <<env, pr, reviewed, quota, remote, leg, made>>

-----------------------------------------------------------------------------
(***************************************************************************)
(* The other legs, by what they do to the story, and people.               *)
(***************************************************************************)
Review ==
    /\ status = "Review" /\ pr = "open" /\ "approved" \notin labels /\ "park" \notin labels
    /\ \/ labels' = labels \cup {"approved"} /\ reviewed' = TRUE /\ UNCHANGED status
       \/ status' = "Rework" /\ UNCHANGED <<labels, reviewed>>
    /\ UNCHANGED <<env, pr, quota, remote, leg, made>>

Rework ==
    /\ status = "Rework" /\ pr = "open" /\ "park" \notin labels
    /\ status' = "Review" /\ reviewed' = FALSE
    /\ UNCHANGED <<env, labels, pr, quota, remote, leg, made>>

Answer ==
    /\ leg.pc = "idle" /\ status = "Development" /\ "questions" \in labels
    /\ labels' = labels \ {"questions"} /\ status' = "Ready"
    /\ UNCHANGED <<env, pr, reviewed, quota, remote, leg, made>>

Restart ==
    /\ leg.pc = "idle" /\ status = "Review" /\ pr = "open"
    /\ \/ "restarts" \in env /\ UNCHANGED pr
       \/ "closes" \in env /\ pr' = "none"
    /\ status' = "Ready"
    /\ UNCHANGED <<env, labels, reviewed, quota, remote, leg, made>>

Unpark ==
    /\ "unparks" \in env /\ "park" \in labels
    /\ labels' = labels \ {"park"} /\ known' = "unparked"
    /\ UNCHANGED <<env, status, pr, reviewed, wall, ticks, remote, leg, made>>

PersonPushes ==
    /\ "pushes" \in env /\ leg.pc # "idle" /\ made < MaxWork
    /\ made' = made + 1 /\ reviewed' = FALSE
    /\ remote' = remote \cup {[works |-> {made + 1}, kind |-> "person"]}
    /\ UNCHANGED <<env, status, labels, pr, quota, leg>>

-----------------------------------------------------------------------------
PostAction ==
    \/ StartPostAction \/ GitOperations \/ RecoverNoChanges \/ RunGates \/ GateFixGitOperations
    \/ RunPostPublishGates \/ EnsureResponse \/ CreatePullRequest \/ FinalizeSuccess

Session == AgentWorks \/ AutoSave \/ HitWall
SessionEnds == MainSessionEnds \/ ResumedSessionEnds \/ ResumeFails
Jobs == QuotaParkTick \/ RecoverStuckDevelopment \/ RetryMerge \/ RecoverMergedPR
Surroundings == QuotaResets \/ Review \/ Rework \/ Answer \/ Restart \/ Unpark \/ PersonPushes

Init ==
    /\ env \in Environments
    /\ status = "Ready" /\ labels = {} /\ remote = {} /\ pr = "none" /\ reviewed = FALSE
    /\ leg = NoLeg /\ wall = FALSE /\ known = "clear" /\ ticks = 0 /\ made = 0

Next == Dispatch \/ Setup \/ Session \/ SessionEnds \/ PostAction \/ Kill \/ Jobs \/ Surroundings

Spec == Init /\ [][Next]_vars

(***************************************************************************)
(* The runner goes on and its time limits end every session; the rules of  *)
(* a tick come round again and a call does not fail for ever; a quota      *)
(* window resets.  Nobody has to review, answer, restart or unpark.        *)
(***************************************************************************)
FairSpec ==
    /\ Spec
    /\ WF_vars(Dispatch) /\ WF_vars(Setup) /\ WF_vars(SessionEnds) /\ WF_vars(PostAction)
    /\ WF_vars(QuotaParkTick) /\ WF_vars(QuotaResets)
    /\ SF_vars(RecoverStuckDevelopment /\ status' # status)
    /\ SF_vars(RecoverMergedPR /\ status' # status)

-----------------------------------------------------------------------------
TypeOK ==
    /\ env \in Environments /\ status \in Statuses /\ labels \subseteq Labels
    /\ remote \subseteq Commit /\ pr \in {"none", "open", "merged"} /\ reviewed \in BOOLEAN
    /\ leg \in Leg /\ wall \in BOOLEAN /\ known \in {"clear", "met", "unparked"}
    /\ ticks \in 0 .. ProbeEvery - 1 /\ made \in 0 .. MaxWork

Ended(outcomes) == leg.pc # "idle" /\ leg'.pc = "idle" /\ leg'.end \in outcomes

(***************************************************************************)
(* Work that reached the remote branch stays there: auto-saves, squashes,  *)
(* forced pushes, resumed and later legs never lose a piece, whatever      *)
(* fails in between.  Not promised when a failed probe makes a leg start a *)
(* second branch of the same name, or when others push under a running     *)
(* leg: the forced push after a rejection then wins.                       *)
(***************************************************************************)
PushedWorkKept ==
    [][env \cap {"failed probes", "pushes"} = {} => Works(remote) \subseteq Works(remote')]_vars

(***************************************************************************)
(* A leg that ends well, with a PR or with "no changes needed", leaves no  *)
(* work behind on the runner, and "no changes" is never said of a branch   *)
(* that has some.  Not promised of what a session wrote that was resumed   *)
(* for a missing response, or by the landing guard and then failed: no     *)
(* commit follows it.                                                      *)
(***************************************************************************)
WorkPublished ==
    [][Ended({"pr", "no changes"}) /\ leg.used["missing"] = 0 /\ leg.used["landing"] = 0
         => /\ leg.tree \cup Works(leg.local) \subseteq Works(remote)
            /\ leg'.end = "no changes" /\ "pushes" \notin env => remote = {}]_vars

(***************************************************************************)
(* Once the quota wall has kept a leg from its response, no agent is       *)
(* started on the story before a probe has succeeded or a person has       *)
(* removed the park label.                                                 *)
(* Not promised when the post action resumes the agent for another reason  *)
(* first (a gate, a push, a PR), when the leg does not get to its park (a  *)
(* kill, a PR found open), or when the park label is lost.                 *)
(***************************************************************************)
AgentStarts == leg'.pc \in {"setup", "agent"} /\ leg.pc \notin {"setup", "agent"}

OnlyTheWall ==
    /\ env \cap {"gates", "rejections", "conflicts", "refusals"} = {}
    /\ env \cap {"lost calls", "kills", "restarts"} = {}

NoQuotaBurn == [][OnlyTheWall /\ AgentStarts => known # "met"]_vars

(***************************************************************************)
(* What is merged is what the last approval saw: legs strip the approval   *)
(* of an earlier round.  Not promised when a story is restarted with its   *)
(* PR open (that leg ends before it looks at the label), when a label      *)
(* removal is lost, when people push, or when the recovery rule moves a    *)
(* story whose leg still runs.                                             *)
(***************************************************************************)
ReviewedMerge ==
    [][env \cap {"restarts", "recovery", "lost calls", "pushes"} = {}
         /\ pr = "open" /\ pr' = "merged" => reviewed]_vars

(***************************************************************************)
(* Every leg ends: resumes, and the restarts of the post action they       *)
(* cause, are bounded.                                                     *)
(***************************************************************************)
LegEnds == leg.pc # "idle" ~> leg.pc = "idle"

(***************************************************************************)
(* A story in development comes back to the machine, to review or to a     *)
(* person's question.  Where a leg can end without moving the ticket (a    *)
(* kill, a failed setup, a broken CLI, a lost call, a park label removed   *)
(* by hand) only the opt-in recovery rule brings it back.                  *)
(***************************************************************************)
Strands == {"kills", "setup", "fatal", "lost calls", "unparks"}

StoryReturns ==
    status = "Development" /\ (env \cap Strands = {} \/ "recovery" \in env)
      ~> status # "Development" \/ "questions" \in labels

(***************************************************************************)
(* A merged PR ends in the ticket's status Merged, also when the move      *)
(* after the merge threw and the ticket was escalated to rework - unless   *)
(* a leg that ran on through the merge has opened a second PR.             *)
(***************************************************************************)
MergeSettles == pr = "merged" ~> status = "Merged" \/ pr # "merged"
=============================================================================
