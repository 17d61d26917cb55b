--------------------------- MODULE ValidationLane ---------------------------
(***************************************************************************)
(* The merge window: several pull requests, one label ai_validating that   *)
(* says "a CI run is validating this head", and the rules of a tick that   *)
(* place it, renew it, spend it on a merge and take it away.  Among        *)
(* approved PRs the label is a mutex, since the base moves with every      *)
(* merge and a second validation would be wasted; while the approved queue *)
(* is deep it is a semaphore (validationConcurrency).                      *)
(*                                                                         *)
(* The tick reads the labels from a list of open PRs it caches             *)
(* (list), while its own handlers, CI and people change the real ones.     *)
(* Facts about a head are kept for the current head; a head move resets    *)
(* them.  One unit of time is a quarter of an hour, the grace after a      *)
(* conclusion and the staleness of an arm.  Rework requests are in         *)
(* ReworkArm: here a leg, like a person, just pushes.                      *)
(***************************************************************************)
EXTENDS Integers, Sequences, FiniteSets, FiniteSetsExt

CONSTANTS
    PRs,            \* PR numbers: the smallest is the oldest
    Queue,          \* the PRs open at the start, but for those of a deep queue
    Guests,         \* the PRs people outside the machine have opened
    Struck,         \* the PRs that CI faults, failed reads and pushes hit: a bound
    ZombieCap,      \* zombieRedispatchCap
    ZombieWindow,   \* zombieRedispatchMinMs, in units
    ParkCap,        \* redHeadParkCap: consecutive red runs that park a head
    RedCap,         \* redHeadCap: fail reports that keep a head out of validation
    ResetCap,       \* placeholderResetCap
    Concurrency,    \* validationConcurrency: slots while the approved queue is deep
    Watermark,      \* validationConcurrencyQueueWatermark: the depth from which it is
    NoList,         \* nothing is cached
    Environments    \* the environments to consider: which switches are on

ASSUME BoundsAssumption ==
    /\ PRs \subseteq Nat /\ IsFiniteSet(PRs) /\ Queue \subseteq PRs
    /\ Guests \subseteq PRs /\ Struck \subseteq PRs
    /\ {ZombieCap, ZombieWindow, ParkCap, RedCap, ResetCap, Concurrency, Watermark} \subseteq Nat \ {0}

Switches ==
    {"deep queue",      \* every PR is open at the start
     "approvals",       \* reviews approve PRs while the lane runs
     "base moves",      \* other merges move the base
     "pushes",          \* rework legs and people push new heads
     "lost runs",       \* a dispatch may produce no run, a run may be cancelled
     "hidden checks",   \* the PR does not see the checks of dispatched runs
     "masked checks",   \* other checks are green while ours are absent
     "ghosts",          \* check runs stay pending with no run behind them
     "shut gate",       \* branch protection refuses the oldest PR for another reason
     "slow ticks",      \* the cached list may expire, and a tick may die
     "failed probes",   \* run listings and live PR lists may fail
     "lost labels",     \* placing a park label may fail
     "failed writes"}   \* so may the un-arm and the comment of a fail report

ASSUME EnvironmentsAssumption == Environments \subseteq SUBSET Switches

VARIABLES
    env,        \* the switches that are on, fixed
    pr,         \* the pull requests
    list,       \* the tick's cached view of the labels of open PRs, or NoList
    rule,       \* position in the rule list, 0 between ticks
    todo,       \* PRs the query of the current rule returned and the tick has still to visit
    moved,      \* tickMovedPrs: PRs whose head the tick itself moved; no rule moves an armed one
    slots,      \* validationMutexMax of the tick, 1 between ticks
    acted       \* PRs the current rule has acted on, as far as its limit counts them

vars == <<env, pr, list, rule, todo, moved, slots, acted>>

On(switch) == switch \in env

Arm == "ai_validating"
Latch == "ai_validated"
Approved == "pr_approved"
Park == "validation_failed"
Labels == {Arm, Latch, Approved, Park}

\* The rules of sm_github.json that make up the lane, in file order.
Rules == <<"rerun", "unarm", "refresh", "reset", "merge", "fail", "sweep",
           "arm", "rearm", "rearm green", "fresh", "fresh green", "complete">>
Current == Rules[rule]
Limited == {"unarm", "merge", "arm", "rearm", "rearm green", "fresh", "fresh green"}
MergePath == {"arm", "rearm", "rearm green"}
Validating == MergePath \cup {"fresh", "fresh green"}

-----------------------------------------------------------------------------
\* Heads and the checks a query sees

NewHead == [ci |-> "none",      \* newest dispatched run on the head
            old |-> FALSE,      \* it concluded more than a unit ago
            ghost |-> "none",   \* pending check runs: of a concluded run, or of no run
            streak |-> 0,       \* consecutive red runs, newest first
            reds |-> 0,         \* fail reports
            zombies |-> 0,      \* zombie re-dispatch markers
            quiet |-> 0,        \* units until the next zombie re-dispatch
            rerun |-> FALSE]    \* cancelled runs were re-run once

HeadType ==
    [ci : {"none", "active", "green", "red", "cancelled"}, old : BOOLEAN,
     ghost : {"none", "orphan", "placeholder"}, streak : 0 .. ParkCap + 1,
     reds : 0 .. RedCap, zombies : 0 .. ZombieCap, quiet : 0 .. ZombieWindow, rerun : BOOLEAN]

PrType ==
    [open : BOOLEAN, labels : SUBSET Labels, base : {"current", "behind", "dirty"},
     head : HeadType, resets : 0 .. ResetCap,
     since : {"same", "machine", "human"}]      \* the newest push since the PR was parked

Open == {p \in PRs : pr[p].open}
Oldest == Min(PRs)

Concluded(h) == h.ci \in {"green", "red", "cancelled"}

\* The rollup of the head's checks.
Checks(h) ==
    CASE h.ghost # "none" \/ h.ci = "active" -> "pending"
      [] h.ci = "none" -> IF On("masked checks") THEN "green" ELSE "none"
      [] h.ci = "cancelled" -> "pending"
      [] OTHER -> IF On("hidden checks") THEN "none" ELSE h.ci

\* Branch protection: every required check green and seen, nothing else missing.
Clean(p, s) ==
    /\ s.base = "current" /\ ~ (On("shut gate") /\ p = Oldest)
    /\ s.head.ci = "green" /\ Checks(s.head) = "green"

\* probeDispatchedState: the newest dispatched run on the head; a failed
\* listing reads as no run at all.
Fails(p) == On("failed probes") /\ p \in Struck
Probes(p) == {pr[p].head.ci} \cup (IF Fails(p) THEN {"none"} ELSE {})
Reads == IF On("failed probes") THEN BOOLEAN ELSE {TRUE}

\* A dispatch may leave no run behind.
Started(p) == IF On("lost runs") /\ p \in Struck THEN {"active", "none"} ELSE {"active"}

-----------------------------------------------------------------------------
\* What handlers do to a PR

Without(s, l) == [s EXCEPT !.labels = @ \ {l}]
With(s, l) == [s EXCEPT !.labels = @ \cup {l}]
Validated(s) == With(Without(s, Arm), Latch)
Unparked(s) == [Without(s, Park) EXCEPT !.since = "same"]
Parked(s) == [With(s, Park) EXCEPT !.since = "same"]

\* A push, by "machine" or "human"; a refresh from the base counts as machine.
Pushed(s, who) ==
    [s EXCEPT !.head = NewHead, !.base = "current",
              !.since = IF Park \notin s.labels THEN "same" ELSE IF @ = "human" THEN @ ELSE who]

\* dispatchCiWorkflow; c is "none" when GitHub creates no run.
Dispatched(s, c) ==
    IF c = "none" THEN s ELSE [s EXCEPT !.head.ci = c, !.head.old = FALSE]

\* The base moved under a PR that stays open.
Outdated(s) == IF s.open /\ s.base = "current" THEN [s EXCEPT !.base = "behind"] ELSE s

Closed(s) == [s EXCEPT !.open = FALSE, !.labels = {}, !.head = NewHead, !.base = "current",
                       !.since = "same", !.resets = 0]
Merged(p) == [q \in PRs |-> IF q = p THEN Closed(pr[q]) ELSE Outdated(pr[q])]

\* attemptMergeProbe, on live labels: s is the PR as the handler has left it so
\* far, refused what the handler makes of a refusal.
MergeAttempt(p, s, refused) ==
    IF Approved \notin s.labels THEN [pr EXCEPT ![p] = Validated(s)]
    ELSE IF Clean(p, s) THEN Merged(p)
    ELSE [pr EXCEPT ![p] = refused]

Holders(labels) == {q \in PRs : {Arm, Approved} \subseteq labels[q]}
LiveLabels == [q \in PRs |-> IF pr[q].open THEN pr[q].labels ELSE {}]

\* effectiveValidationConcurrency
SlotsFor(depth) == IF depth >= Watermark THEN Concurrency ELSE 1

\* approvedQueueDepth
ApprovedQueue == {q \in Open : Approved \in pr[q].labels}

\* Mutant: the live list is not asked again before an arm.
SlotFree_NoRecheck(p, r) == TRUE

\* validationMutexHeldByAnother, on the live list.
SlotFree(p, r) ==
    LET holders == Holders(LiveLabels) IN
    \/ r \notin MergePath
    \/ Cardinality(holders \ {p}) < slots
    \/ r # "arm" /\ p \in holders

\* It fails open.
SlotAnswers(p, r) == {SlotFree(p, r)} \cup (IF Fails(p) THEN {TRUE} ELSE {})

-----------------------------------------------------------------------------
\* The walk of a tick

LastRule == Len(Rules)
Tickets(labels, S) == [q \in S |-> labels[q]]
NoTickets == Tickets(LiveLabels, {})

TickEnds == rule' = 0 /\ list' = NoList /\ moved' = {} /\ slots' = 1

\* Leave the current rule; the list is dropped when L1 ends.
Leave(kept, refreshed) ==
    /\ todo' = NoTickets /\ acted' = 0
    /\ IF rule = LastRule THEN TickEnds
       ELSE /\ rule' = rule + 1
            /\ list' = IF Current = "reset" THEN NoList ELSE kept
            /\ moved' = refreshed
            /\ UNCHANGED slots

\* The limit of a rule that has one: the arming rule's is raised to the slots.
Limit == IF Current = "arm" THEN slots ELSE 1

\* The rest of the current rule's tickets, n of the limit used up.
Remains(rest, n, kept, refreshed) ==
    IF rest = {} THEN Leave(kept, refreshed)
    ELSE /\ todo' = Tickets(todo, rest) /\ acted' = n
         /\ list' = kept /\ moved' = refreshed
         /\ UNCHANGED <<rule, slots>>

\* Mutant: a PR that was passed over uses up the limit.
Visited_SkipsCount(p, counts, kept, refreshed) ==
    LET n == IF Current \in Limited THEN acted + 1 ELSE acted
        rest == IF Current \in Limited /\ n >= Limit THEN {} ELSE (DOMAIN todo) \ {p}
    IN Remains(rest, n, kept, refreshed)

\* The tick is done with PR p, which counts against the limit or not.
Visited(p, counts, kept, refreshed) ==
    LET n == IF counts /\ Current \in Limited THEN acted + 1 ELSE acted
        rest == IF counts /\ Current \in Limited /\ n >= Limit THEN {} ELSE (DOMAIN todo) \ {p}
    IN Remains(rest, n, kept, refreshed)

Acted(p) == Visited(p, TRUE, list, moved)
ActedAndDropped(p) == Visited(p, TRUE, NoList, moved)
Skipped(p) == Visited(p, FALSE, list, moved)

\* Mutant: newest first, the order GitHub lists PRs in.
Visiting_NewestFirst(r, p) ==
    rule # 0 /\ Current = r /\ p \in DOMAIN todo /\ \A q \in DOMAIN todo : q <= p

\* The PR the tick visits: the oldest left.
Visiting(r, p) == rule # 0 /\ Current = r /\ p \in DOMAIN todo /\ \A q \in DOMAIN todo : p <= q

\* queryPrs: labels from the list, checks and merge state of the head.
\* A list of labels in a query means any of them.
Wanted(r, l, q) ==
    LET s == pr[q]
        checks == Checks(s.head)
    IN CASE r = "rerun"   -> l \cap {Arm, Latch} # {} /\ s.base = "current"
         [] r = "unarm"   -> Arm \in l /\ s.base = "behind"
         [] r = "refresh" -> Arm \notin l /\ s.base = "behind"
         [] r = "reset"   -> Park \in l /\ Arm \notin l
         [] r = "merge"   -> Arm \in l /\ Clean(q, s)
         [] r = "fail"    -> Arm \in l /\ checks = "red"
         [] r = "sweep"   -> Arm \in l /\ s.base # "behind"
         [] r = "arm"     -> Approved \in l /\ {Arm, Park} \cap l = {} /\ s.base = "current"
         [] r = "rearm"   -> /\ {Approved, Arm} \cap l # {} /\ s.base = "current"
                             /\ checks \in {"none", "pending"}
         [] r = "rearm green" -> /\ {Approved, Arm} \cap l # {} /\ s.base = "current"
                                 /\ checks = "green" /\ ~ Clean(q, s)
         [] r = "fresh"   -> /\ {Approved, Arm} \cap l = {} /\ s.base # "behind"
                             /\ checks \in {"none", "pending"}
         [] r = "fresh green" -> /\ {Approved, Arm, Park} \cap l = {} /\ s.base = "current"
                                 /\ checks = "green"
         [] r = "complete" -> Arm \in l /\ Approved \notin l /\ checks = "green"

\* The mutex of the query: a PR that holds it may renew its own arm.
MutexLets(r, holders, q) ==
    \/ r \notin MergePath
    \/ r = "arm" /\ Cardinality(holders) < slots
    \/ r # "arm" /\ (q \in holders \/ Cardinality(holders \ {q}) < slots)

\* The tick sizes the merge window by the approved queue, on the list of open
\* PRs it then has cached; a list that cannot be read makes it serial.
StartTick ==
    /\ rule = 0
    /\ rule' = 1
    /\ \E readable \in Reads :
         IF readable THEN list' = LiveLabels /\ slots' = SlotsFor(Cardinality(ApprovedQueue))
         ELSE UNCHANGED <<list, slots>>
    /\ UNCHANGED <<env, pr, todo, moved, acted>>

\* Slots that are full on the cached list are checked against the live one
\* (phantomHealIfFull); a failed check keeps the cached answer.
Query ==
    /\ rule # 0 /\ DOMAIN todo = {}
    /\ \E live \in Reads :
         LET view == IF list = NoList THEN LiveLabels ELSE list
             phantom == /\ Current = "arm" /\ live
                        /\ Cardinality(Holders(view)) >= slots
                        /\ Holders(view) # Holders(LiveLabels)
             holders == IF phantom THEN Holders(LiveLabels) ELSE Holders(view)
             matched == {q \in Open : Wanted(Current, view[q], q) /\ MutexLets(Current, holders, q)}
             kept == IF phantom THEN NoList ELSE view
         IN IF matched = {} THEN Leave(kept, moved)
            ELSE todo' = Tickets(view, matched) /\ list' = kept /\ UNCHANGED <<rule, moved, slots, acted>>
    /\ UNCHANGED <<env, pr>>

-----------------------------------------------------------------------------
\* Freshness and verdicts

\* A check run that was cancelled is re-run, once per head.
Rerun(p) ==
    /\ Visiting("rerun", p)
    /\ LET h == pr[p].head IN
       IF h.ci = "cancelled" /\ ~ h.rerun
       THEN /\ pr' = [pr EXCEPT ![p].head = [h EXCEPT !.ci = "active", !.old = FALSE, !.rerun = TRUE]]
            /\ Acted(p)
       ELSE UNCHANGED pr /\ Skipped(p)
    /\ UNCHANGED env

\* The base moved under an armed PR: the arm goes, a green verdict stays as the latch.
Unarm(p) ==
    /\ Visiting("unarm", p)
    /\ \E ci \in Probes(p) :
         pr' = [pr EXCEPT ![p] = IF ci = "green" THEN Validated(@) ELSE Without(@, Arm)]
    /\ ActedAndDropped(p)
    /\ UNCHANGED env

\* What update_branch makes of the park: any head change since clears it, and
\* so does a green head; a guest's red head is parked.
ParkReviewed(p, s) ==
    IF Park \in todo[p]
    THEN IF s.since # "same" \/ Checks(s.head) = "green" THEN Unparked(s) ELSE s
    ELSE IF p \in Guests /\ Checks(s.head) = "red" THEN Parked(s) ELSE s

\* update_branch, for silent-update-behind and for park-reset: the head moves
\* when the base has, unless the runs of the head cannot be read.
UpdateBranch(p) ==
    /\ Visiting("refresh", p) \/ Visiting("reset", p)
    /\ \E readable \in {TRUE, ~ Fails(p)} :
         LET s == ParkReviewed(p, pr[p])
             moves == readable /\ s.base = "behind"
         IN /\ pr' = [pr EXCEPT ![p] = IF moves THEN Pushed(s, "machine") ELSE s]
            /\ Visited(p, TRUE, list, IF moves THEN moved \cup {p} ELSE moved)
    /\ UNCHANGED env

\* merge_pr
Merge(p) ==
    /\ Visiting("merge", p)
    /\ pr' = MergeAttempt(p, pr[p], pr[p])
    /\ IF pr'[p] = pr[p] THEN Skipped(p) ELSE Acted(p)
    /\ UNCHANGED env

ParkLanded == IF On("lost labels") THEN BOOLEAN ELSE {TRUE}
\* The writes of a fail report that succeed; each failure but the comment's is swallowed.
Writes ==
    {done \in SUBSET {"unarm", "comment", "park"} :
        /\ On("failed writes") \/ {"unarm", "comment"} \subseteq done
        /\ "park" \in done \/ FALSE \in ParkLanded}

\* Mutants: the convergence park is one run late; the park leaves the arm.
FailReported_ParkLate(p, s, done) ==
    LET t == IF "unarm" \in done THEN Without(s, Arm) ELSE s
        u == [t EXCEPT !.head.reds = IF @ < RedCap THEN @ + 1 ELSE @]
    IN IF "comment" \notin done THEN t
       ELSE IF "park" \in done /\ (p \in Guests \/ s.head.streak > ParkCap) THEN Parked(u)
       ELSE u

FailReported_KeepsArm(p, s, done) ==
    LET u == [s EXCEPT !.head.reds = IF @ < RedCap THEN @ + 1 ELSE @] IN
    IF "park" \in done /\ (p \in Guests \/ s.head.streak >= ParkCap) THEN Parked(u)
    ELSE Without(u, Arm)

\* The fail path: unarm, report, which counts the red, and park at ParkCap red
\* runs in a row, and guests at once.  A comment that throws ends the handler.
FailReported(p, s, done) ==
    LET t == IF "unarm" \in done THEN Without(s, Arm) ELSE s
        u == [t EXCEPT !.head.reds = IF @ < RedCap THEN @ + 1 ELSE @]
    IN IF "comment" \notin done THEN t
       ELSE IF "park" \in done /\ (p \in Guests \/ s.head.streak >= ParkCap) THEN Parked(u)
       ELSE u

FailValidation(p) ==
    /\ Visiting("fail", p)
    /\ \E done \in Writes : pr' = [pr EXCEPT ![p] = FailReported(p, @, done)]
    /\ ActedAndDropped(p)
    /\ UNCHANGED env

-----------------------------------------------------------------------------
\* sweep_stale_validation

Sweeping(p) == Visiting("sweep", p)

\* Mutants: a dispatch that left no run is not seen as dead; the cap allows one more.
Dead_CancelledOnly(p, ci) == ci = "cancelled" /\ pr[p].head.old
ZombiesLeft_OffByOne(p) == pr[p].head.zombies <= ZombieCap

\* classify
Dead(p, ci) == ci = "none" \/ (ci = "cancelled" /\ pr[p].head.old)

SweepVerdict(p) ==
    /\ Sweeping(p)
    /\ \E ci \in Probes(p) \cap {"green", "red"}, done \in Writes :
         /\ pr[p].head.old
         /\ pr' = [pr EXCEPT ![p] = IF ci = "green" THEN Validated(@) ELSE FailReported(p, @, done)]
    /\ ActedAndDropped(p)
    /\ UNCHANGED env

ZombiesLeft(p) == pr[p].head.zombies < ZombieCap

\* No live run behind the arm: one re-dispatch per window.
ZombieDue(p) ==
    /\ Sweeping(p)
    /\ \E ci \in Probes(p) : Dead(p, ci)
    /\ ZombiesLeft(p) /\ pr[p].head.quiet = 0

\* The arm is taken away and placed again, on a PR that has lost it since the
\* list was read too.
SweepZombie(p) ==
    /\ ZombieDue(p)
    /\ \E c \in Started(p) :
         LET s == With(Dispatched(pr[p], c), Arm) IN
         pr' = [pr EXCEPT ![p] = [s EXCEPT !.head.zombies = @ + 1, !.head.quiet = ZombieWindow]]
    /\ ActedAndDropped(p)
    /\ UNCHANGED env

\* A re-dispatch that throws leaves the arm, and no marker.
SweepThrows(p) ==
    /\ ZombieDue(p) /\ On("lost runs") /\ p \in Struck
    /\ pr' = [pr EXCEPT ![p] = With(@, Arm)]
    /\ ActedAndDropped(p)
    /\ UNCHANGED env

\* ... and ZombieCap in all: then the arm goes and the PR is parked.
SweepPark(p) ==
    /\ Sweeping(p)
    /\ \E ci \in Probes(p) : Dead(p, ci)
    /\ ~ ZombiesLeft(p)
    /\ \E landed \in ParkLanded :
         pr' = [pr EXCEPT ![p] = IF landed THEN Parked(Without(@, Arm)) ELSE Without(@, Arm)]
    /\ ActedAndDropped(p)
    /\ UNCHANGED env

SweepKeeps(p) ==
    /\ Sweeping(p)
    /\ \E ci \in Probes(p) :
         \/ Dead(p, ci) /\ ZombiesLeft(p) /\ pr[p].head.quiet > 0
         \/ ~ Dead(p, ci) /\ ~ (ci \in {"green", "red"} /\ pr[p].head.old)
    /\ Skipped(p)
    /\ UNCHANGED <<env, pr>>

-----------------------------------------------------------------------------
\* validate_pr

\* blockedApprovedShape and isInvisible: green on the commit, unseen by the PR.
Invisible(p, s) ==
    /\ Approved \in todo[p] /\ s.base = "current"
    /\ s.head.ci = "green" /\ On("hidden checks")

\* The first gate that decides about the candidate, in the order of the handler;
\* ci is the probe's answer, free the live mutex read.
\* The latch-skip arm (skipIfValidatedHead) is not here: approvedGreenHeadFastPath
\* stands before it and takes every PR it could take.
Decision(p, r, ci, free) ==
    LET s == pr[p]
        l == todo[p]
        ghost == s.head.ghost # "none"
    IN IF r \in MergePath /\ p \in moved THEN "defer"
       ELSE IF Park \in l /\ s.since # "human" THEN "defer"
       ELSE IF ci = "active" THEN "skip"
       ELSE IF Invisible(p, s) THEN "reset"
       ELSE IF Approved \in l /\ ci = "green" /\ ~ ghost THEN "merge"
       ELSE IF ci \in {"red", "cancelled"} /\ ~ s.head.old THEN "skip"
       ELSE IF ci = "green" /\ r \in {"rearm green", "fresh green"} /\ ~ ghost THEN "skip"
       ELSE IF ci = "green" /\ r # "arm" /\ Latch \in l THEN "skip"
       ELSE IF (ci = "red" /\ r = "arm") \/ s.head.reds >= RedCap \/ ~ free THEN "strip"
       ELSE IF ci = "green" /\ ghost THEN "conclude"
       ELSE IF s.head.ghost = "placeholder" THEN "reset and dispatch"
       ELSE "dispatch"

\* The park a human push has answered is cleared first.
Entered(p) == IF Park \in todo[p] THEN Unparked(pr[p]) ELSE pr[p]
\* A latch no green run on the head covers is void.
Stripped(p, ci) == IF ci # "green" THEN Without(Entered(p), Latch) ELSE Entered(p)

\* The run lists and the live PR list are read, and d is decided.
Decided(p, d, ci) ==
    \E r \in Validating :
      /\ Visiting(r, p)
      /\ ci \in Probes(p)
      /\ \E free \in SlotAnswers(p, r) : Decision(p, r, ci, free) = d

\* Nothing is dispatched; the limit-1 slot moves on.
PassOver(p) ==
    /\ \E ci \in Probes(p) :
         \/ Decided(p, "defer", ci) /\ UNCHANGED pr
         \/ Decided(p, "skip", ci) /\ pr' = [pr EXCEPT ![p] = Entered(p)]
         \/ Decided(p, "strip", ci) /\ pr' = [pr EXCEPT ![p] = Stripped(p, ci)]
    /\ Skipped(p)
    /\ UNCHANGED env

\* invisibleRequiredReset: a fresh head, so that the next run is seen.
ResetInvisible(p) ==
    /\ \E ci \in Probes(p) : Decided(p, "reset", ci)
    /\ LET s == Entered(p) IN
       pr' = [pr EXCEPT ![p] = IF s.resets < ResetCap
                               THEN [Pushed(s, "machine") EXCEPT !.resets = @ + 1] ELSE s]
    /\ Acted(p)
    /\ UNCHANGED env

\* approvedGreenHeadFastPath: merge without another run; a refusal leaves the latch.
FastPath(p) ==
    /\ \E ci \in Probes(p) : Decided(p, "merge", ci)
    /\ pr' = MergeAttempt(p, Entered(p), Validated(Entered(p)))
    /\ Acted(p)
    /\ UNCHANGED env

\* gh-857: green, but pinned by pending check runs: they are concluded in place.
ConcludeGhosts(p) ==
    /\ \E ci \in Probes(p) : Decided(p, "conclude", ci)
    /\ LET s == [Entered(p) EXCEPT !.head.ghost = "none"] IN pr' = MergeAttempt(p, s, s)
    /\ Acted(p)
    /\ UNCHANGED env

PoolFree == \A q \in Open : pr[q].head.ci # "active"

\* gh-852: only a fresh head cures a check run without a run; capped, and not
\* while runs are active.
ResetPlaceholder(p) ==
    /\ \E ci \in Probes(p) :
         /\ Decided(p, "reset and dispatch", ci)
         /\ IF pr[p].resets < ResetCap /\ PoolFree
            THEN /\ \E c \in Started(p) :
                      LET s == Pushed(Stripped(p, ci), "machine") IN
                      pr' = [pr EXCEPT ![p] = [With(Dispatched(s, c), Arm) EXCEPT !.resets = @ + 1]]
                 /\ Acted(p)
            ELSE pr' = [pr EXCEPT ![p] = Stripped(p, ci)] /\ Skipped(p)
    /\ UNCHANGED env

\* Dispatch the CI run and arm; check runs a concluded run left pending are
\* closed as neutral on the way.
Dispatch(p) ==
    /\ \E ci \in Probes(p), c \in Started(p) :
         /\ Decided(p, "dispatch", ci)
         /\ LET s == [Stripped(p, ci) EXCEPT !.head.ghost = "none"] IN
            pr' = [pr EXCEPT ![p] = With(Dispatched(s, c), Arm)]
    /\ Acted(p)
    /\ UNCHANGED env

\* A dispatch that throws leaves the PR un-armed and the slot to the next one.
DispatchThrows(p) ==
    /\ On("lost runs") /\ p \in Struck
    /\ \E ci \in Probes(p) :
         /\ Decided(p, "dispatch", ci)
         /\ pr' = [pr EXCEPT ![p] = [Stripped(p, ci) EXCEPT !.head.ghost = "none"]]
    /\ Skipped(p)
    /\ UNCHANGED env

\* complete_validation
Complete(p) ==
    /\ Visiting("complete", p)
    /\ pr' = [pr EXCEPT ![p] = Validated(@)]
    /\ Acted(p)
    /\ UNCHANGED env

Handle(p) ==
    \/ Rerun(p) \/ Unarm(p) \/ UpdateBranch(p) \/ Merge(p) \/ FailValidation(p)
    \/ SweepVerdict(p) \/ SweepZombie(p) \/ SweepThrows(p) \/ SweepPark(p) \/ SweepKeeps(p)
    \/ PassOver(p) \/ ResetInvisible(p) \/ FastPath(p) \/ ConcludeGhosts(p) \/ ResetPlaceholder(p)
    \/ Dispatch(p) \/ DispatchThrows(p) \/ Complete(p)

Tick == StartTick \/ Query \/ (\E p \in PRs : Handle(p))

-----------------------------------------------------------------------------
\* CI, legs, people, time

Outside == UNCHANGED <<env, list, rule, todo, moved, slots, acted>>

RunEnds(p) ==
    /\ pr[p].open /\ pr[p].head.ci = "active"
    /\ \E c \in {"green", "red"} \cup (IF On("lost runs") /\ p \in Struck THEN {"cancelled"} ELSE {}) :
         LET h == pr[p].head
             streak == CASE c = "green" -> 0
                         [] c = "red" /\ h.streak <= ParkCap -> h.streak + 1
                         [] OTHER -> h.streak
         IN pr' = [pr EXCEPT ![p].head = [h EXCEPT !.ci = c, !.old = FALSE, !.streak = streak]]
    /\ Outside

Aged(s) ==
    LET h == s.head IN
    [s EXCEPT !.head = [h EXCEPT !.old = Concluded(h),
                                 !.quiet = IF h.quiet > 0 THEN h.quiet - 1 ELSE 0]]

\* A tick is shorter than a unit, unless it is slow.
Elapse ==
    /\ rule = 0 \/ On("slow ticks")
    /\ \E p \in Open : Aged(pr[p]) # pr[p]
    /\ pr' = [p \in PRs |-> IF pr[p].open THEN Aged(pr[p]) ELSE pr[p]]
    /\ Outside

\* A rework or conflict leg, or a person, pushes.
Push(p) ==
    /\ On("pushes") /\ p \in Struck /\ pr[p].open
    /\ \E who \in {"machine", "human"} : pr' = [pr EXCEPT ![p] = Pushed(@, who)]
    /\ Outside

BaseMoves(p) ==
    /\ On("base moves") /\ p \in Struck /\ pr[p].open /\ pr[p].base = "current"
    /\ \E b \in {"behind", "dirty"} : pr' = [pr EXCEPT ![p].base = b]
    /\ Outside

\* A review of a validated PR approves it.
Approve(p) ==
    /\ On("approvals") /\ pr[p].open /\ {Latch, Approved} \cap pr[p].labels = {Latch}
    /\ pr' = [pr EXCEPT ![p] = With(@, Approved)]
    /\ Outside

Ghost(p) ==
    /\ On("ghosts") /\ p \in Struck /\ pr[p].open /\ pr[p].head.ghost = "none" /\ pr[p].head.ci # "active"
    /\ \E g \in {"orphan", "placeholder"} : pr' = [pr EXCEPT ![p].head.ghost = g]
    /\ Outside

\* The cache lives for a minute, a tick for several.
CacheExpires ==
    /\ On("slow ticks") /\ list # NoList
    /\ list' = NoList
    /\ UNCHANGED <<env, pr, rule, todo, moved, slots, acted>>

TickDies ==
    /\ On("slow ticks") /\ rule # 0
    /\ TickEnds /\ todo' = NoTickets /\ acted' = 0
    /\ UNCHANGED <<env, pr>>

Environment ==
    \/ Elapse \/ CacheExpires \/ TickDies
    \/ \E p \in PRs : RunEnds(p) \/ Push(p) \/ BaseMoves(p) \/ Approve(p) \/ Ghost(p)

Fresh(labels) ==
    [open |-> TRUE, labels |-> labels, base |-> "current", head |-> NewHead,
     resets |-> 0, since |-> "same"]

\* The PRs at the start, those in A approved.
Opened(A) ==
    [p \in PRs |-> IF p \in Queue \/ On("deep queue")
                   THEN Fresh(IF p \in A THEN {Approved} ELSE {}) ELSE Closed(Fresh({}))]

Init ==
    /\ env \in Environments
    /\ \E A \in SUBSET PRs : pr = Opened(A)
    /\ list = NoList /\ rule = 0 /\ todo = NoTickets /\ moved = {} /\ slots = 1 /\ acted = 0

Next == Tick \/ Environment

Spec == Init /\ [][Next]_vars

\* Ticks run to their end, time passes, CI does not always end its runs in the
\* middle of a tick, and the re-dispatch of a dead run does not throw for ever.
FairSpec ==
    /\ Spec /\ WF_vars(Tick) /\ SF_vars(Elapse)
    /\ \A p \in PRs : SF_vars(rule = 0 /\ RunEnds(p)) /\ SF_vars(SweepZombie(p))

-----------------------------------------------------------------------------
TypeOK ==
    /\ env \in Environments
    /\ pr \in [PRs -> PrType]
    /\ list = NoList \/ list \in [PRs -> SUBSET Labels]
    /\ rule \in 0 .. LastRule
    /\ DOMAIN todo \subseteq PRs /\ \A p \in DOMAIN todo : todo[p] \subseteq Labels
    /\ moved \subseteq PRs
    /\ slots \in 1 .. Concurrency /\ acted \in 0 .. slots - 1 /\ (rule = 0 => slots = 1)

Undisturbed(S) == env \cap S = {}

\* The PRs that were approved from the start: without approvals on the way, a PR
\* is closed by its merge, and a merge needs the approval.
EverApproved == {p \in PRs : ~ pr[p].open \/ Approved \in pr[p].labels}

\* The merge window has its slots and no more, whatever the tick's list was when
\* it looked: approved PRs are validated one at a time, and validationConcurrency
\* at a time only where the queue has been as deep as the watermark.  An approval
\* that lands on an armed PR, and a failed live read, are let through on purpose
\* (validationMutexHeldByAnother).
HoldersWithinSlots ==
    Undisturbed({"approvals", "failed probes"}) =>
      Cardinality(Holders(LiveLabels)) <= SlotsFor(Cardinality(EverApproved))

\* A parked PR holds no slot: whoever parks has taken the arm away, and no rule
\* arms on a label it read before the park (fail path, zombie cap, guest park);
\* the fail path parks even when its un-arm has failed.
ParkedHoldsNoArm ==
    Undisturbed({"failed writes"}) => \A p \in PRs : ~ ({Arm, Park} \subseteq pr[p].labels)

\* gh-832: after ParkCap red runs in a row nothing dispatches on the head again,
\* neither a rule, nor the zombie sweep, nor a re-run; only a new head does.
NoRunAfterPark ==
    [][Undisturbed({"lost labels", "failed writes", "slow ticks", "failed probes"}) =>
         \A p \in PRs : (pr'[p].head.ci = "active" /\ pr[p].head.ci # "active") =>
                        pr'[p].head.streak < ParkCap]_vars

Ready(s) ==
    /\ s.open /\ Approved \in s.labels /\ Park \notin s.labels
    /\ s.base = "current" /\ s.head.ci # "red" /\ s.head.ghost # "placeholder"

\* The FIFO rule of validate-armed: a younger approved PR gets no slot while an
\* older one waits for one, ready to be validated or merged.  A head that only a
\* push cures is passed over, and one the tick itself has moved waits for the
\* next tick.
OldestFirst ==
    [][Undisturbed({"shut gate", "lost runs", "base moves", "pushes",
                    "approvals", "failed probes", "hidden checks"}) =>
         \A p, q \in PRs :
           /\ q < p /\ Ready(pr[q]) /\ Arm \notin pr[q].labels /\ q \notin moved
           /\ Approved \in pr[p].labels /\ Arm \notin pr[p].labels
           => Arm \notin pr'[p].labels]_vars

\* No arm is held for ever: what the lost run, the cancelled run, the run the PR
\* does not see and the pending check run leave behind is taken away in the end.
ArmReleased ==
    Undisturbed({"pushes", "slow ticks", "failed writes"}) =>
      \A p \in PRs : (Arm \in pr[p].labels) ~> (Arm \notin pr[p].labels)

Settled(p) ==
    \/ ~ pr[p].open
    \/ Park \in pr[p].labels
    \/ pr[p].head.ci = "red" /\ Arm \notin pr[p].labels

\* Every approved PR is merged, parked or given back to rework with a red head.
ApprovedSettles ==
    env \subseteq {"approvals", "lost labels", "masked checks"} =>
      \A p \in PRs : (Approved \in pr[p].labels) ~> Settled(p)
=============================================================================
