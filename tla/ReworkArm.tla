------------------------------ MODULE ReworkArm ------------------------------
(***************************************************************************)
(* The rework loop of one machine-authored pull request: who places the    *)
(* agent:rework label, what consumes it, and the four bounds that keep the *)
(* loop from running away -- the in-flight latch of js/common/             *)
(* reworkLatch.js, the red-head cap, the no-op lap guard of                *)
(* reworkLoopGuard.js and the quiet period of reworkConsumption.js.  The   *)
(* bounds live in different places: the latch in the tick's memory and in  *)
(* the published snapshot, the others in markers parsed out of comments.   *)
(*                                                                         *)
(* Everything keyed on a head (latch, verdict, markers) is kept for the    *)
(* current head only, so a head move resets it.  One unit of time is a     *)
(* quarter of an hour.  SmDispatch models the dispatcher itself, its       *)
(* listing lag and its label failures.                                     *)
(***************************************************************************)
EXTENDS Integers

CONSTANTS
    NoopMax,        \* noopLapMax: empty laps on a head before the arm is withheld
    RedCap,         \* redHeadCap: red-gate arms on a head before it is withheld
    Stale,          \* DEFAULT_STALE_MS of the latch, in units
    Quiet,          \* DEFAULT_RESTORE_STALE_MS of the restore sweep, in units
    LostMax,        \* bound of the model: red markers lost on one head
    Environments    \* the environments to consider: which switches are on

ASSUME BoundsAssumption ==
    /\ NoopMax \in Nat \ {0} /\ RedCap \in Nat \ {0} /\ Stale \in Nat \ {0} /\ Quiet \in Nat \ {0}
    /\ LostMax \in Nat

Switches ==
    {"reviews",         \* review legs run
     "base moves",      \* the base branch moves, and the PR is refreshed from it
     "people",          \* people push, relabel, resolve and unblock
     "delays",          \* a tick may be late, be cut short or have no budget left
     "lost comments",   \* posting a comment may fail
     "failed probes",   \* reading the PR head or its runs may fail
     "lost snapshots",  \* reading or publishing the snapshot may fail
     "short listing"}   \* the 50 runs the publisher lists may miss the leg

ASSUME EnvironmentsAssumption == Environments \subseteq SUBSET Switches

VARIABLES
    env,        \* the switches that are on, fixed
    red,        \* the checks of the head
    threads,    \* unresolved machine review threads
    verdict,    \* newest verdict record on the head
    reviewed,   \* ai_pr_reviewed
    sticky,     \* pr_approved
    blocked,    \* the blocked label: queries no longer return the PR
    arms,       \* carriers of agent:rework: the PR, its linked issue
    laps,       \* consecutive empty-lap markers on the head
    escalated,  \* loop-guard escalation marker on the head
    reds,       \* highest red marker on the head
    withheld,   \* red-cap escalation marker on the head
    mark,       \* age of the newest consumption or restore marker
    live,       \* the tick's latch entry for the head
    saved,      \* the snapshot's latch entry for the head
    flight,     \* the leg on the branch
    pc,         \* the rule the tick is at
    waited,     \* time has passed since the last tick
    emptyLaps,  \* history: consecutive legs on the head that changed nothing
    redArms,    \* history: red-gate arms on the head
    unmarked    \* history: those whose comment, and with it the marker, was lost

pr == <<threads, reviewed, sticky, blocked>>
head == <<red, verdict, laps, escalated, reds, withheld, emptyLaps, redArms, unmarked>>
latch == <<live, saved>>
vars == <<pr, head, latch, arms, mark, flight, pc, waited, env>>

None == [kind |-> "none"]
NoEntry == [age |-> -1, over |-> FALSE]
Never == -1

EntryType == [age : -1 .. Stale + 1, over : BOOLEAN]
LegType == [kind : {"rework", "review"}, anchor : {"pr", "issue"},
            cur : BOOLEAN,                      \* the head has not moved since its dispatch
            st : {"requested", "active"}]
Verdicts == {"changes", "findings", "nits", "clean"}    \* the last three: APPROVE
Phases == {"idle", "reconcile", "redgate", "issue", "label", "restore", "threads", "end"}

IMin(a, b) == IF a <= b THEN a ELSE b

Reviews == "reviews" \in env
BaseMoves == "base moves" \in env
People == "people" \in env
Delays == "delays" \in env
LostComments == "lost comments" \in env
FailedProbes == "failed probes" \in env
LostSnapshots == "lost snapshots" \in env
ShortListing == "short listing" \in env

\* A call that may fail: TRUE is the answer, FALSE the failure.
Rollups == IF FailedProbes THEN BOOLEAN ELSE {TRUE}
Listings == IF ShortListing THEN BOOLEAN ELSE {TRUE}
Posts == IF LostComments THEN BOOLEAN ELSE {TRUE}
Reads == IF LostSnapshots THEN BOOLEAN ELSE {TRUE}

-----------------------------------------------------------------------------
\* The latch

Flying == flight # None /\ flight.cur /\ flight.st = "active"

\* Mutants: the age is asked before the runs; an entry never goes stale.
Cause_AgeFirst(e, runs) ==
    IF e = NoEntry THEN "absent"
    ELSE IF e.age > Stale THEN "stale"
    ELSE IF runs /\ Flying THEN "in-flight"
    ELSE IF runs /\ e.over THEN "terminated"
    ELSE "in-flight"
Cause_NeverStale(e, runs) ==
    IF e = NoEntry THEN "absent"
    ELSE IF runs /\ Flying THEN "in-flight"
    ELSE IF runs /\ e.over THEN "terminated"
    ELSE "in-flight"

\* evaluate: the leg runs on the head decide, newest first; without them, or
\* with none that counts, the age does.
Cause(e, runs) ==
    IF e = NoEntry THEN "absent"
    ELSE IF runs /\ Flying THEN "in-flight"
    ELSE IF runs /\ e.over THEN "terminated"
    ELSE IF e.age > Stale THEN "stale"
    ELSE "in-flight"

Armed == [age |-> 0, over |-> FALSE]
Latched(runs) == Cause(live, runs) = "in-flight"

\* consultReworkLatch clears an entry that no longer holds.
Consulted(runs) == IF Latched(runs) THEN live ELSE NoEntry

\* mergeLatchCarry: the tick's entry over the one of the previous snapshot.
Carried(e, prev) == IF e # NoEntry THEN e ELSE prev

\* Mutant: only stale entries are pruned.
Pruned_StaleOnly(e, listed) == IF Cause(e, listed) = "stale" THEN NoEntry ELSE e

\* pruneStale
Pruned(e, listed) == IF Cause(e, listed) \in {"stale", "terminated"} THEN NoEntry ELSE e

\* The snapshots one publication may leave behind.
Snapshots(e) ==
    {Pruned(Carried(e, IF read THEN saved ELSE NoEntry), listed) : read \in Reads, listed \in Listings}
        \cup (IF LostSnapshots THEN {saved} ELSE {})

\* A rule that matched this PR ends with a publication ...
Publish(e) == live' = e /\ saved' \in Snapshots(e)
\* ... one that did not publishes when another PR matched it.
PassBy == live' = live /\ saved' \in Snapshots(live) \cup {saved}

-----------------------------------------------------------------------------
\* The tick: the rules that place, consume or strip agent:rework, in file order

Goto(from, to) == pc = from /\ pc' = to

\* Mutant: the lap guard compares too late.
LapsExhausted_Late == laps > NoopMax

\* shouldWithholdArm
LapsExhausted == laps >= NoopMax

\* Mutant: a PR without verdict records is not armed (the gate fails closed).
MayArm_NeedsRecord(seen) == seen => verdict \notin {"none", "clean"}

\* armReworkDecision, on the verdict records if they could be read.
MayArm(seen) == seen => verdict # "clean"

StartTick ==
    /\ Goto("idle", "reconcile")
    /\ flight # None => flight.st = "active"
    /\ \E read \in Reads : live' = IF read THEN saved ELSE NoEntry
    /\ waited' = FALSE
    /\ UNCHANGED <<pr, head, saved, arms, mark, flight, env>>

\* reconcileDecision: an approval whose census names no finding the machine
\* owns strips the label from a head that is not red.
Strips == verdict \in {"nits", "clean"} /\ ~red

Reconcile ==
    /\ Goto("reconcile", "redgate")
    /\ IF arms # {} /\ Strips /\ ~blocked
       THEN arms' = {} /\ Publish(live)
       ELSE arms' = arms /\ PassBy
    /\ UNCHANGED <<pr, head, mark, flight, waited, env>>

Place(where) == arms' = arms \cup {where}

\* A red-gate arm, with its marker or without.
RedArm(gated, posted) ==
    /\ redArms' = IF gated THEN IMin(redArms + 1, RedCap + LostMax + 1) ELSE redArms
    /\ unmarked' = IF gated /\ ~posted THEN unmarked + 1 ELSE unmarked

\* Mutants: the red marker is not counted; the latch is not armed.
Arm_NoMarker(gated, known, e) ==
    /\ Place("pr")
    /\ reds' = reds /\ RedArm(gated, TRUE) /\ Publish(IF known THEN Armed ELSE e)
    /\ UNCHANGED <<laps, escalated, withheld>>
Arm_NoLatch(gated, known, e) ==
    /\ Place("pr")
    /\ reds' = (IF gated THEN reds + 1 ELSE reds) /\ RedArm(gated, TRUE) /\ Publish(e)
    /\ UNCHANGED <<laps, escalated, withheld>>

\* The label, then the comment that carries the red marker, then the latch: a
\* comment that throws skips the latch.  Without a head there is no lap guard
\* and no latch.
Arm(gated, known, e) ==
    /\ Place("pr")
    /\ \E posted \in IF gated /\ unmarked = LostMax THEN {TRUE} ELSE Posts :
         /\ reds' = IF gated /\ posted THEN reds + 1 ELSE reds
         /\ RedArm(gated, posted)
         /\ Publish(IF known /\ posted THEN Armed ELSE e)
    /\ UNCHANGED <<laps, escalated, withheld>>

\* Mutant: at the cap the handler goes on to arm.
WithholdRed_FallsThrough(e) == Arm(TRUE, TRUE, e)

\* The red-head cap: the arm is withheld, and the owner told once.
WithholdRed(e) ==
    /\ \E posted \in Posts : withheld' = (withheld \/ posted)
    /\ Publish(e)
    /\ UNCHANGED <<arms, laps, escalated, reds, redArms, unmarked>>

\* The lap guard: the same, with its own marker.
WithholdLaps(e) ==
    /\ \E posted \in Posts : escalated' = (escalated \/ posted)
    /\ Publish(e)
    /\ UNCHANGED <<arms, laps, reds, withheld, redArms, unmarked>>

Withhold(e) ==
    Publish(e) /\ UNCHANGED <<arms, laps, escalated, reds, withheld, redArms, unmarked>>

\* arm_rework, for a rule that is red-gated or not and whose query loads the
\* head or not.
ArmRework(gated, known) ==
    /\ "pr" \notin arms /\ ~blocked
    /\ \E runs, seen \in Rollups :
         LET e == IF known THEN Consulted(runs) ELSE live
         IN IF known /\ Latched(runs) THEN Withhold(live)
            ELSE IF gated /\ reds >= RedCap THEN WithholdRed(e)
            ELSE IF ~MayArm(seen) THEN Withhold(e)
            ELSE IF known /\ LapsExhausted THEN WithholdLaps(e)
            ELSE Arm(gated, known, e)
    /\ UNCHANGED <<pr, red, verdict, emptyLaps, mark, flight, waited, env>>

\* A rule that does not match this PR: its own condition fails, or a label of
\* the validation or review lane holds the PR back.
SkipRule ==
    /\ PassBy
    /\ UNCHANGED <<pr, head, arms, mark, flight, waited, env>>

\* rework-on-red-gate-unlatched and rework-on-validation-failed: the same
\* handler, with and without the red-head cap.
RedGate ==
    /\ Goto("redgate", "issue")
    /\ red /\ \E gated \in BOOLEAN : ArmRework(gated, TRUE)

SkipRedGate == Goto("redgate", "issue") /\ SkipRule

Dispatched(anchor) == [kind |-> "rework", anchor |-> anchor, cur |-> TRUE, st |-> "requested"]

\* rework-on-red-ci: the leg is anchored on the issue, and strips the label itself.
IssueDispatch ==
    /\ Goto("issue", "label")
    /\ IF "issue" \in arms /\ "pr" \notin arms /\ ~blocked
       THEN /\ flight' = IF flight = None THEN Dispatched("issue") ELSE flight
            /\ Publish(live)
       ELSE flight' = flight /\ PassBy
    /\ UNCHANGED <<pr, head, arms, mark, waited, env>>

\* consumeLabels and its audit marker.
Consume ==
    /\ arms' = arms \ {"pr"}
    /\ \E posted \in Posts : mark' = IF posted THEN 0 ELSE mark

\* rework-on-label: a leg under the issue anchor fulfils the request, one
\* under the PR anchor or a review leg leaves it standing.
LabelDispatch ==
    /\ Goto("label", "restore")
    /\ IF "pr" \in arms /\ ~blocked
       THEN /\ Publish(live)
            /\ IF flight = None
               THEN flight' = Dispatched("pr") /\ Consume
               ELSE /\ flight' = flight
                    /\ IF flight.kind = "rework" /\ flight.anchor = "issue"
                       THEN Consume ELSE UNCHANGED <<arms, mark>>
       ELSE PassBy /\ UNCHANGED <<flight, arms, mark>>
    /\ UNCHANGED <<pr, head, waited, env>>

\* The workflow cap, or the rule's limit spent on another PR.
NoBudget ==
    /\ Delays
    /\ Goto("issue", "label") \/ Goto("label", "restore")
    /\ SkipRule

\* The sweep's evidence: a marker, and none of them recent.
QuietLongEnough == mark >= Quiet

\* Mutant: the lap guard is missing from the sweep.
RestoreOrWithhold_Unguarded(known, e) ==
    /\ Place("pr")
    /\ \E posted \in Posts : mark' = IF posted THEN 0 ELSE mark
    /\ Publish(IF known THEN Armed ELSE e)
    /\ escalated' = escalated

\* The lap guard binds the sweep too, when the head is known.  The restore
\* marker restarts the quiet period; its loss does not stop the latch.
RestoreOrWithhold(known, e) ==
    IF known /\ LapsExhausted
    THEN /\ \E posted \in Posts : escalated' = (escalated \/ posted)
         /\ Publish(e) /\ UNCHANGED <<arms, mark>>
    ELSE /\ Place("pr")
         /\ \E posted \in Posts : mark' = IF posted THEN 0 ELSE mark
         /\ Publish(IF known THEN Armed ELSE e)
         /\ escalated' = escalated

\* restore_rework_arm.  The head, the latch's runs, the runs of the active-leg
\* guard and the head the verdict is asked for are four reads.
Restore ==
    /\ Goto("restore", "threads")
    /\ threads /\ "pr" \notin arms /\ ~blocked
    /\ \E known, runs, again, seen \in Rollups :
         LET e == IF known THEN Consulted(runs) ELSE live
             owned == (known /\ Latched(runs)) \/ (known /\ again /\ Flying)
         IN IF ~owned /\ MayArm(known \/ seen) /\ QuietLongEnough
            THEN RestoreOrWithhold(known, e)
            ELSE Publish(e) /\ UNCHANGED <<arms, mark, escalated>>
    /\ UNCHANGED <<pr, red, verdict, laps, reds, withheld, emptyLaps, redArms, unmarked, flight, waited, env>>

SkipRestore ==
    /\ Goto("restore", "threads")
    /\ ~threads \/ "pr" \in arms \/ blocked
    /\ SkipRule

\* rework-unresolved-threads: its query carries no key that would load the
\* PR's status, so the item has no head.
Threads ==
    /\ Goto("threads", "end")
    /\ threads /\ reviewed /\ ArmRework(FALSE, FALSE)

SkipThreads == Goto("threads", "end") /\ SkipRule

EndTick ==
    /\ Goto("end", "idle") /\ live' = NoEntry
    /\ UNCHANGED <<pr, head, saved, arms, mark, flight, waited, env>>

\* A query that throws ends the tick where it stands.
TickDies ==
    /\ Delays /\ pc \notin {"idle", "end"} /\ pc' = "idle" /\ live' = NoEntry
    /\ UNCHANGED <<pr, head, saved, arms, mark, flight, waited, env>>

-----------------------------------------------------------------------------
\* The legs

LegRegisters ==
    /\ flight # None /\ flight.st = "requested"
    /\ flight' = [flight EXCEPT !.st = "active"]
    /\ UNCHANGED <<pr, head, latch, arms, mark, pc, waited, env>>

\* The dispatch was accepted and no run ever came of it.
LegVanishes ==
    /\ flight # None /\ flight.st = "requested" /\ flight' = None
    /\ UNCHANGED <<pr, head, latch, arms, mark, pc, waited, env>>

Over(e) == IF e = NoEntry THEN e ELSE [e EXCEPT !.over = TRUE]

\* The leg's run concludes: a latch armed before on its head is resolved.
Concludes(kind) ==
    /\ flight # None /\ flight.kind = kind /\ flight.st = "active" /\ flight' = None
    /\ IF flight.cur THEN live' = Over(live) /\ saved' = Over(saved) ELSE UNCHANGED latch
    /\ UNCHANGED <<pc, waited, env>>

\* postLapMarker: an empty lap counts on the head the leg started from.
EmptyLap ==
    /\ \E posted \in Posts :
         laps' = IF flight.cur /\ posted THEN IMin(laps + 1, NoopMax + 2) ELSE laps
    /\ emptyLaps' = IF flight.cur THEN IMin(emptyLaps + 1, NoopMax + 2) ELSE emptyLaps

\* clearAiReviewedLatch: a head the last review has not seen wants a new one.
ReviewedAfter(moved) == reviewed /\ ~(~sticky /\ moved)

\* A new head: no verdict, no marker, no latch of its own.
NewHead ==
    /\ red' \in BOOLEAN /\ verdict' = "none"
    /\ laps' = 0 /\ escalated' = FALSE /\ reds' = 0 /\ withheld' = FALSE
    /\ emptyLaps' = 0 /\ redArms' = 0 /\ unmarked' = 0
    /\ live' = NoEntry /\ saved' = NoEntry

\* completeReworkLeg with commits: the head moves and both carriers lose the label.
LegPushes ==
    /\ flight # None /\ flight.kind = "rework" /\ flight.st = "active" /\ flight' = None
    /\ NewHead
    /\ threads' \in {threads, FALSE} /\ arms' = {}
    /\ reviewed' = ReviewedAfter(TRUE)
    /\ UNCHANGED <<sticky, blocked, mark, pc, waited, env>>

\* ... without commits, every open thread answered and resolved.
LegAuditResolves ==
    /\ Concludes("rework") /\ threads /\ threads' = FALSE
    /\ arms' = {} /\ reviewed' = ReviewedAfter(verdict = "none")
    /\ \E posted \in Posts : laps' = IF flight.cur /\ posted THEN 0 ELSE laps
    /\ emptyLaps' = IF flight.cur THEN 0 ELSE emptyLaps
    /\ UNCHANGED <<sticky, blocked, red, verdict, escalated, reds, withheld, redArms, unmarked, mark>>

\* noopLapDecisions: the verdict stands, so the request is renewed -- on the
\* tracker key of the leg, which only an issue has.
Rearmed == IF ~sticky /\ verdict # "none" /\ flight.anchor = "issue" THEN {"issue"} ELSE {}

\* ... without commits, and nothing resolved: none open, or the resolve call failed.
LegFindsNothing ==
    /\ Concludes("rework") /\ EmptyLap
    /\ arms' = Rearmed /\ reviewed' = ReviewedAfter(verdict = "none")
    /\ UNCHANGED <<threads, sticky, blocked, red, verdict, escalated, reds, withheld, redArms, unmarked, mark>>

\* handleReworkBlocked: no commits and threads left unanswered park the PR.
LegBlocked ==
    /\ Concludes("rework") /\ threads /\ EmptyLap
    /\ blocked' = TRUE /\ arms' = {}
    /\ UNCHANGED <<threads, reviewed, sticky, red, verdict, escalated, reds, withheld, redArms, unmarked, mark>>

\* handleOwnedViolationsRejected: the labels stay.
LegRejected ==
    /\ Concludes("rework") /\ red /\ EmptyLap
    /\ UNCHANGED <<pr, red, verdict, escalated, reds, withheld, redArms, unmarked, arms, mark>>

\* A failed CLI or setup: an issue loses the label, a PR key has none to lose,
\* and no lap is counted.
LegFails ==
    /\ Concludes("rework")
    /\ arms' = IF flight.anchor = "issue" THEN arms \ {"issue"} ELSE arms
    /\ UNCHANGED <<pr, head, mark>>

\* Cancelled or killed before its post action.
LegDies ==
    /\ Concludes("rework") \/ Concludes("review")
    /\ UNCHANGED <<pr, head, arms, mark>>

\* The review rules: an unreviewed head, no approval, no rework pending.
ReviewStarts ==
    /\ Reviews /\ pc = "idle" /\ flight = None
    /\ ~red /\ verdict = "none" /\ ~sticky /\ arms = {} /\ ~blocked
    /\ flight' = [kind |-> "review", anchor |-> "issue", cur |-> TRUE, st |-> "requested"]
    /\ UNCHANGED <<pr, head, latch, arms, mark, pc, waited, env>>

\* A verdict on the reviewed head.  CHANGES requests rework on the issue; an
\* approval sticks.
ReviewCloses ==
    /\ Concludes("review")
    /\ \E v \in Verdicts :
         /\ verdict' = IF flight.cur THEN v ELSE verdict
         /\ threads' = (threads \/ v # "clean")
         /\ sticky' = (v # "changes")
         /\ arms' = IF v = "changes" THEN arms \cup {"issue"} ELSE arms
    /\ reviewed' = TRUE
    /\ UNCHANGED <<blocked, red, laps, escalated, reds, withheld, emptyLaps, redArms, unmarked, mark>>

-----------------------------------------------------------------------------
\* The rest of the world

\* update_branch merges the base into a branch no leg runs on; it runs ahead of
\* the rules modelled here, with or without agent:rework on the PR.
SilentUpdate ==
    /\ BaseMoves /\ pc = "redgate" /\ (flight # None => ~flight.cur) /\ NewHead
    /\ UNCHANGED <<pr, arms, mark, flight, pc, waited, env>>

Checks ==
    /\ red' = ~red
    /\ UNCHANGED <<pr, verdict, laps, escalated, reds, withheld, emptyLaps, redArms, unmarked,
                   latch, arms, mark, flight, pc, waited, env>>

PersonPushes ==
    /\ People /\ NewHead
    /\ flight' = IF flight = None THEN None ELSE [flight EXCEPT !.cur = FALSE]
    /\ UNCHANGED <<pr, arms, mark, pc, waited, env>>

PersonEdits ==
    /\ People
    /\ \/ arms' \in {arms \cup {"pr"}, arms \ {"pr"}} /\ UNCHANGED <<threads, blocked>>
       \/ threads' = FALSE /\ UNCHANGED <<arms, blocked>>
       \/ blocked' = FALSE /\ UNCHANGED <<arms, threads>>
    /\ UNCHANGED <<reviewed, sticky, head, latch, mark, flight, pc, waited, env>>

Older(e) == IF e = NoEntry THEN e ELSE [e EXCEPT !.age = IMin(@ + 1, Stale + 1)]

\* A quarter of an hour passes; a tick comes at least that often, unless late.
Elapse ==
    /\ pc = "idle" /\ (~waited \/ Delays)
    /\ waited' = TRUE
    /\ saved' = Older(saved)
    /\ mark' = IF mark = Never THEN mark ELSE IMin(mark + 1, Quiet)
    /\ UNCHANGED <<pr, head, live, arms, flight, pc, env>>

Init ==
    /\ red \in BOOLEAN /\ threads \in BOOLEAN
    /\ verdict = "none" /\ reviewed = FALSE /\ sticky = FALSE /\ blocked = FALSE
    /\ arms = {} /\ mark = Never
    /\ laps = 0 /\ escalated = FALSE /\ reds = 0 /\ withheld = FALSE
    /\ emptyLaps = 0 /\ redArms = 0 /\ unmarked = 0
    /\ live = NoEntry /\ saved = NoEntry /\ env \in Environments
    /\ flight = None /\ pc = "idle" /\ waited = FALSE

Tick ==
    \/ StartTick \/ Reconcile
    \/ RedGate \/ SkipRedGate
    \/ IssueDispatch \/ LabelDispatch \/ NoBudget
    \/ Restore \/ SkipRestore
    \/ Threads \/ SkipThreads
    \/ EndTick

LegEnds ==
    \/ LegPushes \/ LegAuditResolves \/ LegFindsNothing \/ LegBlocked
    \/ LegRejected \/ LegFails \/ LegDies \/ ReviewCloses

Leg == LegRegisters \/ LegVanishes \/ LegEnds \/ ReviewStarts

World == SilentUpdate \/ Checks \/ PersonPushes \/ PersonEdits \/ Elapse

Next == Tick \/ TickDies \/ Leg \/ World

Spec == Init /\ [][Next]_vars

\* The schedule fires, time passes, every dispatched leg registers or vanishes
\* and ends; a rule whose condition keeps holding is not held back for ever by
\* the labels of the other lanes.
FairSpec ==
    /\ Spec
    /\ WF_vars(Tick) /\ SF_vars(Elapse)
    /\ SF_vars(RedGate) /\ SF_vars(Restore)
    /\ WF_vars(LegRegisters \/ LegVanishes) /\ WF_vars(LegEnds)

-----------------------------------------------------------------------------
\* Properties

\* Type correctness of the PR, its labels and markers, the latch and the leg
\* (js/smAgent.js:2023).
TypeOK ==
    /\ env \in Environments
    /\ red \in BOOLEAN /\ threads \in BOOLEAN /\ verdict \in Verdicts \cup {"none"}
    /\ reviewed \in BOOLEAN /\ sticky \in BOOLEAN /\ blocked \in BOOLEAN
    /\ arms \in SUBSET {"pr", "issue"}
    /\ laps \in 0 .. NoopMax + 2 /\ escalated \in BOOLEAN
    /\ reds \in 0 .. RedCap /\ withheld \in BOOLEAN
    /\ mark \in -1 .. Quiet
    /\ live \in EntryType /\ saved \in EntryType
    /\ flight \in LegType \cup {None}
    /\ pc \in Phases /\ waited \in BOOLEAN
    /\ emptyLaps \in 0 .. NoopMax + 2
    /\ redArms \in 0 .. RedCap + LostMax + 1 /\ unmarked \in 0 .. LostMax

\* No comment is lost, every head is known, no review runs and nobody helps.
Calm == ~LostComments /\ ~FailedProbes /\ ~Reviews /\ ~People

\* Undisturbed, at most noopLapMax consecutive legs that pushed nothing and
\* resolved nothing run on one head (reworkLoopGuard.js:97, 'the machine stops
\* re-arming agent:rework here').
LapsBounded == env = {} => emptyLaps <= NoopMax

\* In a calm environment one leg more: the one in flight, or requested, when
\* the budget ran out.
LapsOverrun == Calm => emptyLaps <= NoopMax + 1

\* The red gate arms one head at most redHeadCap times, however its legs end
\* ('no infinite retry', smAgent.js:2070), and once more for each arm whose
\* comment was lost after the label had been written.
RedArmsBounded == redArms <= RedCap + unmarked

ReworkFlying == Flying /\ flight.kind = "rework"

\* A rule that places the label on the PR.
PlacesArm == "pr" \in arms' \ arms /\ pc \in {"redgate", "restore", "threads"}

\* Undisturbed, no rule arms the PR while a rework leg is running on its head
\* (gh-806 AC1, 'a leg already flying owns the threads').
NoArmOverFlight == [][env = {} /\ PlacesArm => ~ReworkFlying]_vars

\* While a leg on the head is latched and running, no rule arms the PR
\* (reworkLatch.js:12, AC1).
LatchedNeverArmed == [][PlacesArm => live = NoEntry \/ ~ReworkFlying]_vars

\* A latch entry whose leg is running is never dropped from the snapshot, past
\* the stale window included (factoryState.js:937), as long as the previous
\* snapshot can be read and the listing shows the leg.
LatchOutlivesStale ==
    [][~LostSnapshots /\ ~ShortListing /\ saved # NoEntry /\ Flying /\ flight' = flight
       => saved' # NoEntry]_vars

\* What a rule cleared in the middle of the tick stays cleared in the snapshot
\* published over the previous one (factoryState.js:932), as long as the rule
\* and the publisher see the same runs.
ClearsStick ==
    [][/\ ~LostSnapshots /\ ~ShortListing /\ ~FailedProbes
       /\ live # NoEntry /\ live' = NoEntry /\ pc \in {"redgate", "restore"} /\ pc' # "idle"
       => saved' = NoEntry]_vars

\* The strip side removes no label the arming side would place again (gh-807,
\* reviewVerdicts.js:565, 'the arming side and the strip side never disagree').
ArmStripAgree ==
    [][pc = "reconcile" /\ pc' = "redgate" /\ arms # {} /\ arms' = {} => ~MayArm(TRUE)]_vars

\* A red head that nothing works on is armed again, or its owner is told --
\* also when the dispatch was accepted and no run ever came (gh-806 AC3).
RedHeadAnswered ==
    LET alone == red /\ arms = {} /\ flight = None /\ ~blocked /\ ~withheld /\ ~escalated
    IN alone ~> ~alone

\* A consumed request whose leg left threads open is restored, until the lap
\* guard stops it (gh-840).
ConsumedWorkIsRestored ==
    LET lost == /\ threads /\ mark # Never /\ arms = {} /\ flight = None /\ ~blocked
                /\ ~LapsExhausted /\ verdict # "clean"
    IN lost ~> ~lost
=============================================================================
