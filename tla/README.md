# TLA+ models of the dmtools-agents machine

`dmtools-agents` runs a software factory: a scheduled *SM tick*
(`js/smAgent.js`) reads tickets, issues and pull requests from a tracker,
matches them against a list of rules (`sm.json`, `sm_github.json`) and either
dispatches an AI job as a GitHub Actions run or does a small job itself. Jobs,
people and other workflows change the same tickets, labels and branches while
the tick walks its rules. There is no database and no lock server: labels,
comments, the run listing and one JSON snapshot carry all the state.

This directory models that coordination. TLC checks the models on small
instances; TLAPS proves every safety property the passing runs check, for any
rule list that meets the hypotheses of section 7, every cap and any number of
tickets, pull requests and runs.

    tlc -config SmDispatch_locks.cfg MCSmDispatch     # one run
    tlc -config ReworkArm_safety.cfg ReworkArm
    tlc -config ValidationLane_safety.cfg ValidationLane
    tlc -config DevelopmentLeg_story.cfg DevelopmentLeg
    tlc -config MergeBackstop_funnels.cfg MergeBackstop
    tlapm SmDispatchProofs.tla                        # the proofs
    tlapm ReworkArmProofs.tla
    tlapm ReworkLatchProofs.tla
    tlapm ValidationLaneProofs.tla
    tlapm ValidationParkProofs.tla
    tlapm ValidationOrderProofs.tla
    tlapm DevelopmentLegProofs.tla
    tlapm MergeBackstopProofs.tla

`PROJECT.json` lists the runs, the mutants that each property kills, the source
lines each definition stands for, the hazards and the findings.

## 1. Inventory

| Component (source) | State it keeps | Operations | Interacts through |
|---|---|---|---|
| SM tick dispatcher (`smAgent.js`: `action`, `processRule`, `triggerWorkflow`) | the dispatch budget, the merge reservation, position in the rule list; all in memory for one tick | query, skip, recover stale label, move status, guard, dispatch, label, consume | tracker labels and statuses; run listing |
| Workflow runs (`ai-teammate.yml`, job scripts) | queued / running / finished runs, one running run per concurrency group | start, age, post action, release lock, end | run listing, labels, status, branches |
| Auto-start (`common/autoStart.js`) | none | check cap and active target, dispatch the next job directly | the same run listing and workflow |
| Rework latch (`common/reworkLatch.js`) | map `pr-N@head` to the arm and its time, in the factory-state snapshot | arm, clear, evaluate against runs, prune, merge | snapshot; run listing |
| Arm consumption (`common/reworkConsumption.js`) | audit comments per consumed label | record, restore a consumed arm whose run never appeared | PR comments, labels |
| Rework loop guard (`common/reworkLoopGuard.js`) | comment markers per lap | count laps, escalate, withhold the arm | PR comments |
| Validation mutex (`common/mutexRegistry.js`) | `ai_validating` labels, a registry of holders in the snapshot | derive, reconcile, heal phantoms, merge snapshots | labels, snapshot, check runs |
| Validation liveness (`common/validationLiveness.js`, `checkRunZombies.js`) | comment markers per head | classify the dispatched run, re-dispatch once per hour up to a cap, park | run listing, comments, labels |
| Review verdicts (`common/reviewVerdicts.js`, `reviewPolicy.js`) | verdict records per head in comments | record, supersede, reconcile with labels | comments, labels |
| Merge bot and sweep (`sm/mergeBot.js`, `mergeTrigger.js`) | none; a batch per run | merge approved CLEAN heads, un-arm stale ones, re-fire the tick | PR state, labels |
| Merge backstop (`common/mergeBackstop.js`, `reviewDebtLedger.js`) | digest issues, a ledger in the newest stamp on the PR, the review threads and their tags | list threads, carry the ledger, find or file a digest, stamp, close and tag, hold the merge | issues, comments, threads; the bot and the sweep both run it |
| Dispatch failures (`common/triggerFailures.js`) | failure markers per head | count, park | comments, labels |
| Quota breaker (`common/quotaCircuitBreaker.js`, `quotaParkProbe.js`) | the park label, tick and probe markers in comments | park, count ticks, probe every n-th, lift | ticket labels, comments; the leg that met the wall parks |
| Leg start and deduplication (`common/legStartSignal.js`, `teammateEventDedup.js`) | none | decide whether this run is the one to work | run listing |
| Plans and dependencies (`common/issuePlan.js`, `planAdvance.js`) | a plan block in the issue body | advance one step when its PR merged | issue body, labels |
| Ticket pipeline (`checkStoryTestsPassed.js`, `checkBugTestsPassed.js`, ...) | tracker statuses | done checks run in-process by the tick | tracker |
| Test-case rotation (`common/tcAlternation.js`, `tcMaintenanceLedger.js`, `tcRunRegistry.js`) | ledgers in comments and files | alternate, record, triage | ledgers |
| Finding and feedback ledgers (`common/findingRegistry.js`, `ledgerCore.js`) | comment-backed ledgers | append, fold, expire | comments |
| Development leg (`preCliDevelopmentSetup.js`, `timerAutoCommitAndSave.js`, `developTicketAndCreatePR.js`, `common/feedbackLoop.js`) | the runner's work tree and branch, the remote branch, the PR, ticket status and labels, one attempt marker per stage | set up, run the agent, auto-save, squash, push, gates, PR, resume or reset on each failure, park on the quota wall | branch, PR, tracker |
| Recovery jobs (`retryMergePR.js`, `recoverMergedPRTicket.js`, `recoverStuckDevelopment.js`) | none | merge an approved PR, move the ticket of a merged one, bring back a story nobody works on | PR, tracker |
| Rework and review legs (`pushReworkChanges.js`, `postPRReviewComments.js`) | git checkout | rework, push, review, post results | branches, threads, tracker |
| Providers (`common/trackers.js`, `scm.js`, `smProvider.js`, `sm/sources/`) | none | API calls | the network |

What is hard here, and hard to test:

- **The tick is a sequence of remote calls.** Everything it read may be stale
  when it acts: labels are read once per rule, active runs are counted once per
  tick, the run listing misses what was just dispatched.
- **It can stop anywhere.** A query error is rethrown, the runner can die; the
  next tick starts from labels and listings only.
- **Remote calls fail one by one.** Most failures are swallowed, so every pair
  of writes (status + dispatch, dispatch + label, label + consume) can be half
  done.
- **Two carriers for the same work.** An issue and its PR both match rework
  rules; three guards on three different keys keep them apart.
- **The same request travels on labels, comments and a snapshot.** Which leg is
  in flight is in the tick's memory and in the published snapshot; how often a
  head was tried is in comment markers; the request itself is a label that
  rules, legs and people place and remove. The head they are all keyed on moves.
- **Capacity is taken, held and given back mid-walk.** The merge reservation
  leaves the budget before the first rule and returns at one boundary.
- **A lock is a label read from a cached list.** `ai_validating` is the mutex of
  the merge window; who holds it is read from the tick's list of PRs, and its
  holder's run may be lost, invisible, or hidden behind another check.
- **A leg restarts itself.** Each failure of the post action may resume the
  agent, which starts the post action anew with the work partly committed,
  squashed or pushed; the timer commits and pushes meanwhile.
- **Two funnels merge the same PR.** Each closes review threads for good and
  must leave a record of what it closed, in issues and comments that cannot be
  updated atomically with anything.

What makes each component correct is stated in section 3 for the modelled ones
and in the plan (section 6) for the others.

## 2. Modules

| Module | What it is |
|---|---|
| `SmDispatch` | the tick, the runs, the people; its properties and the mutated definitions used to test them |
| `LegSlots` | what the dispatcher promises: a slot is one run, no concurrency key fills two slots, at most `Cap` slots are filled |
| `MCSmDispatch` | rule lists cut from `sm.json` and `sm_github.json` for TLC |
| `SmDispatchProofs` | eight theorems about `SmDispatch` and the invariants they rest on |
| `ReworkArm` | the rework loop of one pull request: arming rules, latch, caps, consumption, restore, legs |
| `ReworkArmProofs` | four theorems about `ReworkArm`: types, red arms, the latch in the snapshot, the lap budget |
| `ReworkLatchProofs` | three more: the exact lap budget, no arm over a running leg, cleared entries stay cleared |
| `ValidationLane` | the merge window: approved PRs, the thirteen rules that arm, watch, merge and give up on them, the cached list, lost and hidden runs |
| `ValidationLaneProofs` | two theorems about `ValidationLane`: types and the mutex |
| `ValidationParkProofs` | two more: a parked PR is not armed, nothing runs on a head that has reached the park |
| `ValidationOrderProofs` | one more: the oldest ready PR first |
| `DevelopmentLeg` | one story: its legs with every outcome of the post action, the quota park, the merge, the recovery jobs |
| `DevelopmentLegProofs` | five theorems about `DevelopmentLeg` |
| `MergeBackstop` | the runs that may merge one approved PR, and the threads, digests and stamps they leave |
| `MergeBackstopProofs` | four theorems about `MergeBackstop` |

### SmDispatch and the code

| Model | Code |
|---|---|
| `stage`, `labels` | tracker status and labels, read and written remotely |
| `run` | GitHub Actions runs: `requested` (POST done, not yet listed), `queued`, `running`, `closing` (post action done, still listed) |
| `pc`, `rule`, `todo`, `tkt`, `processed`, `limit`, `snap` | position in `rules.forEach` / `processRule`; `snap` is the label list the query returned, which the skip checks use |
| `remaining`, `counted`, `released`, `spent` | `workflowBudget.remaining`, `activeCountsByWorkflow`, `tickMergeReservationReleased`, `tickMergeSlotSpent` |
| `StartTick` | `action()` up to the rules loop, with the upfront hold of the reservation |
| `QueryRule`, `MayVisit`, `LeaveRule` | budget check and query of a rule; loop guards; the L3 boundary |
| `SkipTicket`, `TakeTicket` | quota park, skip labels, stale-label recovery |
| `MoveStatus`, `MoveRefused` | `targetStatus` with the budget check before it |
| `Trigger`, `NoTrigger` | `triggerWorkflow`: cap, own key, cross-anchor key, branch guard, each on a listing of its own; POST |
| `MarkTriggered` | `addRuleLabels`, `consumeLabels`, `remaining -= 1` |
| `RunLocally` | `processRuleLocally` and the github localActions, as one abstract in-process job |
| `TickDies` | an exception out of a query, or the runner's end |
| `Register`, `Start`, `Age`, `PostAction`, `EndRun` | the life of a run; `Start` is the workflow's concurrency group; `Age` is the six-hour bound after which a queued run no longer counts |
| `Request` | people and other agents adding request labels; `QuietPeople` lets them add one only where no dispatch is unlisted |

A rule is a record: its query (`items`, `stages`, `needs`, `unless`), its skip
labels in order, what it adds and consumes, what its job releases, its target
status, limit, layer, and per ticket the key it dispatches under, the key of
the other anchor and the branch. `'<config> : <ticket>'` titles and anchor
tokens are model values: matching them is equality.

Two knobs choose between environments. `ListingLag` lets a dispatched run stay
out of the listing until the end of the tick (ticks are minutes apart and never
overlap: `workflows/sm.yml` has one concurrency group). `ProbeErrors` lets each
status page of a listing fail, which the code reads as empty.

### ReworkArm and the code

`ReworkArm` follows one machine-authored pull request. Its work request is the
label `agent:rework`, on the PR or on its linked issue (`arms`). Four rules
place it, two dispatch on it, one strips it, one restores it, and a leg ends in
one of eight ways.

| Model | Code |
|---|---|
| `red`, `threads`, `verdict` | checks of the head, unresolved machine threads, newest verdict record on the head |
| `reviewed`, `sticky`, `blocked` | labels `ai_pr_reviewed`, `pr_approved`, `blocked` |
| `laps`, `escalated`, `reds`, `withheld` | markers in PR comments for the current head: empty laps, lap-guard escalation, red arms, red-cap escalation |
| `mark` | age of the newest consumption or restore marker |
| `live`, `saved` | the latch entry of the current head in the tick's map and in the published snapshot; `over` records that a leg run concluded after the arm |
| `flight` | the leg on the branch: its anchor, whether the head has moved since, requested or active |
| `pc` | where the tick stands among the rules that touch this PR's request |
| `StartTick`, `EndTick`, `TickDies` | loading the snapshot's map; the end of a tick; a query that throws |
| `Reconcile` | `reconcile-*` rules: strip the label of an approved head that is not red |
| `RedGate`, `Threads` (`ArmRework`) | the handler of `arm_rework` for its three rules, gates in order: latch, red cap, verdict, lap guard, then label, comment, latch |
| `IssueDispatch`, `LabelDispatch` | `rework-on-red-ci`, `rework-on-label`: dispatch, or consume when a leg already fulfils the request |
| `Restore` | `restore_rework_arm` with its four reads |
| `Publish`, `PassBy` | the factory-state publication that follows every rule that matched something: merge with the previous snapshot, prune |
| `LegPushes` ... `LegDies` | the ends of `pushReworkChanges.js` |
| `ReviewStarts`, `ReviewCloses` | review legs and their verdict |
| `SilentUpdate`, `Checks`, `PersonPushes`, `PersonEdits`, `Elapse` | base refresh, CI, people, time |

A rule that does not match the PR, for its own condition or for a label of
another lane (`ai_validating`, `agent:review`, ...), is `Skip...`: it may always
be taken. The variables keyed on a head are kept for the current one, so
`NewHead` resets them. One unit of time is a quarter of an hour.

The variable `env` holds the switches of the environment that are on; it is
chosen at the start from the constant `Environments` and never changes. The
switches are `"reviews"`, `"base moves"`, `"people"`, `"delays"`,
`"lost comments"`, `"failed probes"`, `"lost snapshots"` and `"short listing"`.
A property that holds only without some of them says so in its own text, so one
run checks all environments of its configuration. `emptyLaps` and `redArms` are
history: what the markers are supposed to count; `unmarked` counts the red arms
whose comment was lost, at most `LostMax` on one head. The next three modules have
`env` too, with switches of their own.

### ValidationLane and the code

| Model | Code |
|---|---|
| `pr[p].labels`, `.open`, `.base`, `.resets` | labels of the PR; behind its base or not; head resets counted in marker comments |
| `pr[p].head` | what CI and comments say of the head: the run (`ci`), whether the PR sees it, a pending check run with no run behind it, consecutive reds, zombie markers and the time left until the next zombie re-dispatch (`quiet`) |
| `pr[p].since` | who made the newest push since the PR was parked: nobody (`same`), the machine, a person |
| `list` | the list of open PRs that `githubSource` caches for one tick; labels the tick itself writes are not on it |
| `rule`, `todo`, `moved` | position in the rule list, the query's result with the labels it saw, PRs whose head this tick moved |
| `slots`, `acted` | `validationMutexMax`: `validationConcurrency` when the approved queue is as deep as its watermark at the start of the tick, one otherwise; how much of the current rule's limit is used (the limit of `validate-armed` is raised to the slots) |
| `StartTick`, `Query`, `PassOver`, `TickDies` | the walk over the rules; a query that throws, or a runner that ends |
| `Rerun`, `Unarm`, `UpdateBranch`, `ResetInvisible`, `Merge`, `FailValidation` | the actions of the rules before the arm |
| `SweepVerdict`, `SweepZombie`, `SweepThrows`, `SweepPark`, `SweepKeeps` | `sweep_stale_validation` of `processRule`, on `validationLiveness.js`: classify the dispatched run, take the arm, dispatch again and place the arm again up to the cap, park |
| `FastPath`, `ConcludeGhosts`, `ResetPlaceholder`, `Dispatch`, `DispatchThrows` | `validate_pr` behind its live re-check of the mutex |
| `Complete` | `complete_validation` for PRs whose run is green |
| `RunEnds`, `Elapse`, `Push`, `BaseMoves`, `Approve`, `Ghost`, `CacheExpires` | CI, time, people, GitHub |

PRs are numbers in FIFO order. `Guests` are the PRs that people outside the
machine opened, `Struck` those that CI faults, failed reads, pushes and base
moves hit. `Queue` are the PRs open at the start; under `deep queue` all are. One
unit of time is a quarter of an hour.

### DevelopmentLeg and the code

| Model | Code |
|---|---|
| `status`, `labels` | tracker status; `provider_quota`, needs-input and `pr_approved` |
| `remote`, `pr` | commits of the branch on the remote (a commit is the set of pieces of work in it, and whether it is an auto-save); the PR |
| `leg.tree`, `.local`, `.used`, `.stage`, `.failed`, `.pc` | work tree and branch of the runner; attempts used per stage marker; where the post action stands |
| `wall`, `known`, `ticks` | the provider's quota; what became of the last wall met (history); ticks counted since the park |
| `Dispatch`, `Setup` | the rule for Ready For Development; `preCliDevelopmentSetup`, with the probe for an existing branch |
| `AgentWorks`, `AutoSave`, `HitWall`, `MainSessionEnds`, `ResumedSessionEnds`, `ResumeFails` | the agent's session and the timer beside it; a resumed session. A session may leave its response and meet the wall afterwards |
| `StartPostAction`, `GitOperations`, `RecoverNoChanges`, `RunGates`, `GateFixGitOperations`, `RunPostPublishGates`, `EnsureResponse`, `CreatePullRequest`, `FinalizeSuccess` | the stages of `developTicketAndCreatePR.action`; `CanResume`, `Resume`, `ResumeOrReset`, `ResetForRetry`, `Park` are what a failed stage does |
| `QuotaParkTick`, `QuotaResets` | the park's clock and probe; comments that cannot be read count as no tick |
| `RetryMerge`, `RecoverMergedPR`, `RecoverStuckDevelopment` | the three jobs around the leg |
| `Kill`, `Review`, `Rework`, `Answer`, `Restart`, `Unpark`, `PersonPushes` | the runner, the other legs, people |

`reviewed` is history: the last approval saw what is on the remote now.

### MergeBackstop and the code

| Model | Code |
|---|---|
| `thread` | the machine's review threads: below the severity threshold (`nit`) or not (`gated`), open, and the digests its `deferred:` tags name |
| `digests` | `[debt]` issues filed for the PR, each the set of findings of its ledger marker; nothing updates a body |
| `ledger` | findings of the newest ledger stamp among the PR's comments |
| `ready`, `merged` | CLEAN, approved and open; who merged it |
| `at[f]` | the run of a funnel: `counted` and `nits` it listed, `findings` it will file and stamp, `digest` it chose, `todo` it has not tried to close, `on` the thread it has closed and not replied to, `failed` |
| `Visit`, `ListThreads`, `ReadComments` | the live read before the merge, `classifyThreads`, `ledgerBaseOf` with `appendCountedToLedger` |
| `Probe`, `Create`, `ProbeAgain`, `StampLedger` | `fileDigest` with its search before and after; `stampLedger` |
| `ResolveThread`, `ResolveFails`, `Reply`, `ReplyFails`, `Gate` | `resolveOneMachineThread` in both loops, and `requireZeroOpenMachineThreads` |
| `Merge`, `MergeRefused`, `Outage`, `Kill` | the merge call of `mergeTrigger.js` and `sm/mergeBot.js`; a throw; a cancelled job |
| `ReviewOpens`, `MergeableChanges`, `TickMerges` | review legs, GitHub, and the tick's own `attemptMergeProbe` |

Each call of a funnel is a step of its own: other funnels, a cancelled job and
reviews may come between any two of them.

## 3. Properties

`SmDispatch`:

| Property | Says |
|---|---|
| `TypeOK` | types, and the budget within `0 .. Cap` |
| `OneRunPerKey` | no two runs in flight for one concurrency key |
| `WithinCap` | runs in flight never exceed `maxTriggeredWorkflows` |
| `TickWithinCap` | the dispatches of one tick never exceed it, even when every listing call fails |
| `OneLegPerBranch` | a PR branch has one writer: without lag always, with lag under `QuietSpec`; under `Spec` with lag it fails (section 5) |
| `ImplementsLegSlots` | the dispatcher refines `LegSlots` (a slot holds the key of a run in flight) |
| `LockNotStolen` | recovery never takes the trigger label from under a live run |
| `StaleLockRecovered` | a trigger label whose run is gone is eventually cleared or re-used |

`ReworkArm`; the third column is the condition inside the property:

| Property | Says | Where |
|---|---|---|
| `TypeOK` | types, and `reds <= RedCap` | everywhere |
| `LapsBounded` | at most `NoopMax` consecutive legs on a head change nothing | no switch on |
| `LapsOverrun` | at most one more: the leg in flight, or requested, when the budget ran out | `Calm` |
| `RedArmsBounded` | the red gate arms a head at most `RedCap` times, and once more for each marker that was lost | everywhere |
| `NoArmOverFlight` | no rule arms while a rework leg runs on the head | no switch on |
| `LatchOutlivesStale` | the snapshot keeps the entry of a running leg, past the 45 minutes too | snapshots and listings answer |
| `ClearsStick` | an entry cleared in mid-tick does not come back from the previous snapshot | and probes too |
| `RedHeadAnswered` | a red head nothing works on is armed again or escalated | under `FairSpec` |
| `ConsumedWorkIsRestored` | a consumed request with open threads is restored, until the lap guard stops it | under `FairSpec` |
| `LatchedNeverArmed`, `ArmStripAgree` | one arm per latched head; what the strip side removes, the arming side would not place: claims of the code's comments (section 5) | - |

`Calm`: no lost comment, no failed probe, no review, no person.

`InFlight` leaves out runs that aged past six hours in the queue: the code stops
counting them on purpose.

`ValidationLane`:

| Property | Says | Where |
|---|---|---|
| `TypeOK` | types | everywhere |
| `HoldersWithinSlots` | approved PRs are validated one at a time, and `validationConcurrency` at a time only where the approved queue has been as deep as the watermark | no approval lands on an armed PR, probes answer |
| `ParkedHoldsNoArm` | a parked PR is not armed | un-arms and fail reports do not fail |
| `NoRunAfterPark` | after `ParkCap` reds in a row nothing dispatches on the head | and park labels land, ticks do not die half way, probes answer |
| `OldestFirst` | no younger approved PR is armed while an older one without a slot could be validated or merged | gate not shut, no lost runs, pushes, base moves, approvals, failed probes, hidden checks |
| `ArmReleased` | every arm is given up | under `FairSpec`; no pushes, no slow ticks, no failed writes |
| `ApprovedSettles` | every approved PR is merged, parked or red and un-armed | under `FairSpec`; approvals, lost labels, masked checks only |

In `OldestFirst` an older PR counts while it is approved, not parked, on the
current base, not red and free of a placeholder check run (only a push cures
one, so the lane passes such a PR over); a head that this tick itself has moved
waits for the next tick.

`DevelopmentLeg`:

| Property | Says | Where |
|---|---|---|
| `TypeOK` | types; no stage is resumed more than `MaxAttempts` times | everywhere |
| `PushedWorkKept` | no piece of work on the remote is lost | the branch probe answers, nobody else pushes |
| `WorkPublished` | a leg that ends well has its work on the remote; "no changes" means none | not after a resume for a missing response |
| `NoQuotaBurn` | behind a wall that kept a leg from its response, no agent starts before a probe or a person says so | `OnlyTheWall` |
| `ReviewedMerge` | what is merged is what was approved | no restarts, recovery, lost calls, pushes |
| `LegEnds` | resumes are bounded | under `FairSpec` |
| `StoryReturns` | a story leaves In Development | under `FairSpec`; nothing strands it, or the recovery rule is on |
| `MergeSettles` | the ticket of a merged PR becomes Merged | under `FairSpec` |

`MergeBackstop`:

| Property | Says | Where |
|---|---|---|
| `TypeOK` | types; a funnel knows only digests that were filed | everywhere |
| `MergedOnRecord` | a PR that a funnel merged has no open machine thread; every gated one is tagged | no late reviews; for the tags, no lost answers or replies and no cancelled jobs |
| `ClosedIsRecorded` | a finding closed without a fix is in a digest or in the newest stamp, at every moment | no late reviews, no lost stamps |
| `OneDigestPerFunnel` | retries do not pile up digests | the search finds what was filed |
| `HeldMergeLands` | a held merge lands in the end | under `FairSpec`, once the PR stays mergeable and outages and cancellations have stopped |

## 4. Runs

Every `dispatch_*` run has two tickets and two statuses; names are those of
`PROJECT.json`. Runs take seconds to two minutes.

| Run | Instance | Shows |
|---|---|---|
| `dispatch_locks` | one dispatch rule with a lock per ticket, 2 runs, cap 2, `FairSpec` | `TypeOK`, `OneRunPerKey`, `LockNotStolen`, `StaleLockRecovered` |
| `dispatch_layered` | merge action in L2, two L4 rules, the first with one key for all tickets and limit 1, 4 keys, 3 runs, cap 2, reservation 1, listing lag | `WithinCap`, `ImplementsLegSlots` |
| `dispatch_failopen` | two rules with skip labels and a status move, cap 1, failing listings, people who park on quota | `TickWithinCap` |
| `dispatch_quiet` | an issue and its PR, issue- and PR-anchored rework, an in-process done check, people who re-request and park, listing lag; people add `agent:rework` only where every dispatch is listed (`QuietSpec`) | `OneLegPerBranch` |

| Run | Environments | Shows |
|---|---|---|
| `rework_safety` | none on; lost comments; base moves, delays, lost snapshots and short listing; reviews, base moves, people and failed probes | all safety properties |
| `rework_live` | base moves and failed probes, `FairSpec` | `RedHeadAnswered`, `ConsumedWorkIsRestored` |
| `rework_threads`, `rework_nits` | reviews | counterexamples, see section 5 |
| `lane_safety` | sixteen. With two PRs, so one slot: none on, nine switches one by one, approvals with lost labels and masked checks, pushes with pending check runs, pending and masked checks with lost labels. With three PRs, so two slots (`deep queue`): undisturbed, lost park labels, masked checks | the safety properties |
| `lane_live` | five, `FairSpec` | `ArmReleased`, `ApprovedSettles` |
| `dev_leg` | twenty groups of switches, `FairSpec` | all properties of `DevelopmentLeg` |
| `merge_backstop` | eight groups of switches, `FairSpec`; the bot and the sweep, two threads, at most three digests | all properties of `MergeBackstop` |

Bounds of `SmDispatch`. Two tickets are enough for every property that relates two dispatches;
a third ticket adds only symmetric choices. Three run slots with three keys and
a cap of two make the cap bind in `dispatch_layered`; with two slots and two
keys it could not be exceeded. Runs are interchangeable, so `dispatch_layered`
and `dispatch_failopen` use symmetry on them (they check no liveness). The number of ticks is not bounded.

Bounds of `ReworkArm`. `NoopMax = 2` is the default of the code. `RedCap = 2`,
`Stale = 2` and `Quiet = 1` are one unit below the defaults (3 arms, 45 and 30
minutes). That keeps every order of events: the red cap binds after more than
one arm, a latch has an age between fresh and stale, and `Quiet < Stale`, so
the sweep may look at a PR before and after its latch went stale. Ages stop at
one unit past their window, counters at one or two past their bound: beyond it
no guard distinguishes them. Ticks, legs, reviews and head moves are not
bounded. `LostMax = 1`: one lost red marker is enough to take the arms of a head
through `RedCap`; other comments may be lost without limit. The theorems of
section 7 are for every value of the five bounds.

Bounds of `ValidationLane`. Both runs have two PRs, the older the one faults
hit, the younger a guest; below the shipped watermark of three that is one slot.
Under `deep queue` `lane_safety` has a third PR and opens two of the shipped
three slots: with as many slots as PRs nobody would have to wait.
A queue that a merge takes below the watermark is serial again from the next
tick on, with two PRs still armed: that is why `HoldersWithinSlots` counts the
PRs that were approved once. `ZombieCap`,
`ResetCap` = 1 and `ZombieWindow` = 2 are below the code's values (three
re-dispatches, one hour) and keep that a cap can bind, and that a run can be
looked at before and after its window. `ParkCap = 2` and `RedCap = 3` are those
of the code. `MutexHolds` and `OrderHolds` cover any number of
PRs, slots and any watermark.

Bounds of `DevelopmentLeg`. `MaxWork = 3` pieces of work: one on the remote, one
committed, one in the work tree. `MaxAttempts = 1` and `ProbeEvery = 2` are the
smallest at which a bound is met after it was used. Legs, ticks and reviews are
not bounded. Switches come in groups because all of them at once exceed what
can be searched; each group is one that a fault path of the code needs.

Bounds of `MergeBackstop`. Two funnels, two threads and three digests: a third
digest is one more than `OneDigestPerFunnel` allows. With two threads a ledger
that forgets the one before it is not noticed, because what an earlier funnel
closed stays in its digest; the theorem covers any number of both.
`CHECK_DEADLOCK FALSE` there and in `dev_leg`: a merged PR, a story that is
done, is the end.

Fairness of `SmDispatch` (`FairSpec`). Weak fairness of the tick is the cron schedule; strong
fairness of `QueryRule` and of a recovery says that queries and label calls do
not fail for ever; weak fairness of `Register` and `EndRun` is GitHub listing a
run and ending it (workflow timeouts). `TickDies` has no fairness: ticks may die
arbitrarily often, but not every one before it reaches the rule.

Fairness of `ReworkArm` (`FairSpec`). Weak fairness of `Tick` is the cron
schedule, strong fairness of `Elapse` that time passes between ticks. Strong
fairness of `RedGate` and `Restore` says that labels of other lanes and the
rules' limits do not hold a PR back for ever, and that reads do not fail for
ever. Weak fairness of `LegRegisters \/ LegVanishes` and of `LegEnds` is GitHub
creating a run or not, and the workflow timeouts. Nothing forces a dispatch to
produce a run: `LegVanishes` may happen every time.

Fairness of `ValidationLane`. Weak fairness of `Tick` is the cron schedule,
strong fairness of `Elapse` that time passes between ticks; strong fairness of
`RunEnds` between ticks is the workflow timeout; strong fairness of `SweepZombie`
says that the re-dispatch of a dead run does not throw for ever. Base moves, pushes and lost
runs need not stop.

Fairness of `DevelopmentLeg`. Weak fairness of the dispatch, of the session's
end and of the post action's steps is the cron schedule and the job timeouts,
of `QuotaResets` the provider's window. Strong fairness of the two recovery jobs
where they move the ticket says that their tracker calls do not fail for ever.
Nobody has to review, answer, restart or remove a label.

Fairness of `MergeBackstop`. Weak fairness of the sweep's steps: `merge-trigger`
is fired on every tick and its job goes on. Strong fairness of each
`ResolveThread`: no thread refuses to be closed for ever. The bot has no
fairness; replies may fail for ever.

## 5. Where code and documents disagree

Each of these has a run whose counterexample is the disagreement:

| Run | Finding |
|---|---|
| `rework_threads` | smAgent.js:2042 promises one arm per head with the latch asked first; the items of the unresolved-threads rule have no head (no status key in its query), so the latch is passed by. So is the empty-lap guard (smAgent.js:2162), which sm_github.json:754 promises for this very rule |
| `rework_nits` | reviewVerdicts.js:565 says arming and stripping never disagree; they do on nits |

Others were met while modelling. The models do what the code does; the
properties are stated so that the case is outside their condition:

| Where | What | Property it bounds |
|---|---|---|
| branchLegGuard.js:23-25 | one leg per branch is promised "by construction"; the guard reads a listing that lags (smAgent.js:71), so a request label that reaches the PR right after `rework-on-red-ci` dispatched for its issue gets a second leg in the same tick (TLC finds it on the instance of `dispatch_quiet` with `SPECIFICATION Spec`) | `OneLegPerBranch` (`QuietSpec`) |
| README.md:77 | the label is said to be added before the dispatch; the code adds it after, as the header of smAgent.js says | `LockNotStolen` holds either way |
| smAgent.js:21, :646 | active runs are charged while the reservation is held, clamped at zero, and the release then gives back a slot that is not there; only a rule ahead of the layer boundary that dispatches can meet this, and no shipped rule does | `WithinCap` (hypothesis `ReleaseBeforeDispatch` of its theorem) |
| smAgent.js:103 | "any of these labels": only the first held skip label decides, and is recovered when stale | - |
| smAgent.js:5422 | a status moved before a dispatch that fails is not moved back | - |
| smAgent.js:3410 | `update_branch` moves the head between arm and dispatch; the latch stays on the old head | `NoArmOverFlight` (base moves) |
| pushReworkChanges.js:2418 | the leg re-arms the issue itself, where reworkLoopGuard.js:97 tells the owner that re-arming stops | `LapsBounded`, `LapsOverrun` (reviews) |
| smAgent.js:2037, :2283 | "a lost comment costs nothing": it costs marker and latch | `RedArmsBounded` (`unmarked`), `NoArmOverFlight` (lost comments) |
| smAgent.js:5494 | the publisher lists the newest 50 runs; factoryState.js:937 keeps the entry of a running leg only if it is among them | `LatchOutlivesStale` (short listing) |
| smAgent.js:9289 | a failed probe is "fail-safe toward suppressing"; after 45 minutes it errs towards arming | `NoArmOverFlight`, `ClearsStick` (failed probes) |

In the validation lane:

| Where | What | Property it bounds |
|---|---|---|
| smAgent.js:7270 | a shut gate makes the fast path refuse the oldest PR and take its arm away; the query of `revalidate-armed` asks for any of its labels and arms the younger one in the same tick | `OldestFirst` (gate) |
| smAgent.js:7409 | an approved PR whose green run it does not see, its head resets spent, is neither armed nor given up; a younger one whose own checks are absent behind other green ones matches `revalidate-armed-green` and is armed | `OldestFirst` (hidden checks) |
| smAgent.js:4943 | a failed listing reads as no run: at the zombie cap the sweep takes the arm of a PR whose run is alive, and when the park label fails too, `validate-armed` passes that PR over for its live run and arms a younger one | `OldestFirst` (failed probes) |
| smAgent.js:3968 | a PR pinned by a placeholder check run, its resets spent, is passed over until somebody pushes | `OldestFirst` (its `Ready`) |
| mergeBot.js:809 | "nobody advances past it": a `blocked` PR before it sets `deadHeadPassed` and lets a validated PR overtake a live armed head | not modelled |

In the development leg:

| Where | What | Property it bounds |
|---|---|---|
| quotaParkProbe.js:27, quotaCircuitBreaker.js:298 | "A human removing the park label un-parks immediately": the park leaves the story In Development (developTicketAndCreatePR.js:1570-1589), and the only dispatch rule for stories looks for Ready For Development (sm.json:68-72) | `StoryReturns` (unparks) |
| feedbackLoop.js:126, :392 | the prompt of a resume says "Do not push; the post-action will commit and push after you finish"; after a resume for a missing response nothing is committed (developTicketAndCreatePR.js:1677-1694, :1724-1753) | `WorkPublished` (its second condition) |
| developTicketAndCreatePR.js:2078-2088 | a leg that finds its PR open ends there: `pr_approved` of the earlier round stays, uncommitted work is left | `ReviewedMerge` (restarts) |
| developTicketAndCreatePR.js:1202 | any rejected push is repeated with plain `--force`: what others pushed is overwritten | `PushedWorkKept` (pushes) |
| developTicketAndCreatePR.js | a reset after a failed gate, push or checkout ends the job green with no PR; "no changes" may move a story to In Review with no PR | `WorkPublished` says what is left on the runner |
| recoverStuckDevelopment.js:49 | asks no run listing: it may move a story whose leg still runs | `ReviewedMerge` (recovery) |

In the merge backstop; each was confirmed by TLC with the one switch named:

| Where | What | Property it bounds |
|---|---|---|
| mergeBackstop.js:640 | "the tags converge on ONE digest": when both funnels file before either probes again, each adopts the other's digest, and each stamp declares its own "abandoned, safe to close" | `ClosedIsRecorded` counts both digests |
| mergeBackstop.js:363, :577 | a digest found by the probe is not updated, so a tag `deferred: #d` may point at an issue that does not list the finding; only the stamp, called soft because "the digest issue body carries the same ledger payload", has it | `ClosedIsRecorded` (lost stamps) |
| mergeBackstop.js:571 | with reviews arriving between two funnels' listings, the newer stamp may lack what the other closed | `ClosedIsRecorded` (late reviews) |
| mergeBackstop.js:697 | a reply that failed holds the merge once; the retry sees the thread resolved and merges without a tag (a test accepts it); the same after a resolve that GitHub applied and whose answer was lost | `MergedOnRecord` (lost answers and replies, kills) |
| smAgent.js:7200 | the tick's `attemptMergeProbe` merges without the backstop, while gh-1370 calls a merge with an open machine thread a policy violation | `MergedOnRecord` (speaks of funnels) |
| mergeTrigger.js:323 | neither funnel sends the head it inspected with the merge, and the sweep does not read the label again | not modelled |

With one switch on at a time, these exact properties of `ReworkArm` fail
without their condition:

| Property | Switches that break it |
|---|---|
| `LapsBounded`, `NoArmOverFlight` | each of the eight |
| `LapsOverrun` | failed probes, reviews, people, lost comments |
| `LatchOutlivesStale` | lost snapshots, short listing |
| `ClearsStick` | lost snapshots, short listing, failed probes |

## 6. Plan

1. `SmDispatch` (done): most other parts either feed it labels or are guarded by it.
2. `ReworkArm` (done): latch, red cap, lap guard, consumption, restore, legs.
   Left of it: `fail_validation` and its shared red markers, conflict-rework.
3. `ReworkArm` and `SmDispatch` share the label-dispatch step; a common
   abstraction of "request, leg, answer" both refine.
4. `ValidationLane` (done): mutex, liveness sweep, red cap, park. Left of it: an
   abstract specification - a slot that is taken for a head and given back with
   a verdict or a park - and the mutex registry's alarms over it.
5. `DevelopmentLeg` (done): with quota park and recovery. Left of it: several
   gates per section, base movement, the bug variant.
6. `MergeBackstop` (done): both funnels at one PR. Next to it the bot's FIFO
   queue over several PRs with its un-arming, latch and self-tick, composed with
   `ValidationLane`: two writers of `ai_validating`.
7. `ReviewVerdicts`: a merge needs a verdict on the current head.
8. `AutoStart` composed with `SmDispatch`: two dispatchers, one cap.
9. `TriggerFailures`; the ticket pipeline; plans; ledgers.

Every safety property the passing runs check has its theorem. To be proved
next, each with the module that states it: that the lane refines a specification
of its slot (item 4), that `ReworkArm` and `SmDispatch` refine a common request
(item 3), and that the bot's queue and the tick together keep the mutex (item 6).

## 7. What is proved

For every value of the constants. In `SmDispatchProofs`:

| Theorem | Hypotheses | Statement |
|---|---|---|
| `TypeCorrect` | none | `Spec => []TypeOK` |
| `TickCapHolds` | none | `Spec => []TickWithinCap` |
| `CapHolds` | listings answer; no rule dispatches before the reservation is released (`ReleaseBeforeDispatch`) | `Spec => []WithinCap` |
| `OneRunHolds` | listings answer; with lag, rules dispatch distinct keys (`KeysApart`) | `Spec => []OneRunPerKey` |
| `OneLegHolds` | listings answer; rules that dispatch on one branch exclude each other by a request label (`BranchesGuarded`) | `QuietSpec => []OneLegPerBranch` |
| `OneLegListed` | listings answer; no lag | `Spec => []OneLegPerBranch` |
| `LockHeld` | listings answer; `KeysApart`; a trigger label belongs to its rule (`LocksOwned`) | `Spec => LockNotStolen` |
| `Refinement` | those of `CapHolds` and `OneRunHolds` | `Spec => ImplementsLegSlots` |

The hypotheses are not assumptions of the modules: they stand in the theorems.
`LayeredRules` of `MCSmDispatch` satisfies `ReleaseBeforeDispatch` and `KeysApart`,
`DevRules` satisfies `LocksOwned`, `PairRules` satisfies `BranchesGuarded`. In the
shipped lists each
trigger label is added by one rule, and `consumeLabels` are `agent:rework` and
`agent:review`, which no rule adds: that is what `LocksOwned` asks.
`BranchesGuarded` is what `rework-on-red-ci` and `rework-on-label` of
`sm_github.json` keep: the first excludes PRs with `agent:rework`
(`notPrLabels`), the second asks for it, and as neighbours in the list they
have no rule between them that writes it. The review rules of that list exclude
the rework ones the other way round, by a label the earlier rule asks for; of
them the theorem says nothing.

- `Typed` strengthens `TypeOK` by two facts about the program counter: after a
  dispatch a slot is left to pay for it, and only rules with a target status
  reach the move. Without them the budget could not be shown to stay positive.
- `TickInv`: dispatched-but-unlisted runs plus the remaining budget stay below
  the ceiling the reservation leaves; a dispatch not yet charged counts twice.
- `CapInv`: as soon as the listing is charged, runs in flight plus the budget
  stay within the cap; before, the tick has dispatched nothing, so the listing
  covers every run in flight (`Unlisted`, `ChargingIsSound`). A reservation
  that is still held excludes a charged listing - that is why the release is
  sound, and what a rule ahead of the boundary breaks.
- `KeyInv`: a run the listing does not show comes from an earlier rule or from
  an earlier ticket of this one; the limit and the rules' keys exclude that the
  ticket in hand has the same key (`FreshKey`).
- `WalkInv` is the part of `KeyInv` that speaks of the walk: where each unlisted
  run comes from (`Origin`, `RequestInv`). `FreshBranch` draws from it for
  branches what `FreshKey` draws for keys.
- `BranchInv`: the rules still to come miss a label they ask for on every ticket
  that shares the branch of an unlisted run (`Barred`), and the tickets in hand
  are on no such branch (`OffBranch`). The rule that dispatched found the label
  absent; inside the tick nothing adds it before the other rule has run its
  query (`BarredKept`), and that is where `QuietSpec` is needed.
- `LockHeld` needs both: a recovery has seen no run under the key, so a run in
  flight on that ticket is one this tick dispatched and has left behind
  (`RecoveryLeaves`); `LockTakers` says nothing else takes a trigger label but
  the run's own post action and the rule marking the ticket.
- `StepSlots` maps a dispatch to `Dispatch(s, k)`, the end or ageing of a run to
  `Finish(s)`, everything else to a stutter.

In `ReworkArmProofs`, for arbitrary bounds and any set of environments. The
theorems have no hypotheses: the condition on the environment stands in the
property (section 3), and `EnvFixed` shows that it cannot change on the way.

| Theorem | Statement |
|---|---|
| `TypeCorrect` | `Spec => []TypeOK` |
| `RedArmsHold` | `Spec => []RedArmsBounded` |
| `LatchOutlives` | `Spec => LatchOutlivesStale` |
| `LapsOverrunHolds` | `Spec => []LapsOverrun` |

- `RedInv`: the red marker and the lost markers together count exactly the
  red-gate arms of the head. With that the cap's test on the marker is a test on
  the arms.
- `LapInv`: in a calm environment, the empty laps of the head, plus one for a leg in flight, plus one
  for a label standing on the PR (`Owed`), stay within `NoopMax + 1`. The bound
  on `emptyLaps` alone is not inductive: a leg that may still end empty has
  been paid for when its label was placed. With a label and a leg at once, the
  sum says the guard had room for both.
- `LatchOutlives` is an action property: a publication keeps the entry of a
  running leg because runs are asked before the age.

In `ReworkLatchProofs`, on the same terms:

| Theorem | Statement | Rests on |
|---|---|---|
| `LapsHold` | `Spec => []LapsBounded` | `LatchInv` |
| `NoArmOverFlightHolds` | `Spec => NoArmOverFlight` | `LatchInv` |
| `ClearsHold` | `Spec => ClearsStick` | `CarryInv` |

- `LatchInv`: with no switch on, whatever is owed - a label on the PR, a leg out -
  has a sound latch entry in the snapshot and in the tick's map, never a label
  and a leg at once, and the entry is at most one unit old until the leg has a
  run that answers for it. So the latch holds whenever an arming rule asks it;
  that no rule arms over a leg, and that the label never pays for a lap twice,
  both follow.
- `CarryInv`: in mid-tick the snapshot holds what the tick's map holds or
  nothing, unless the map is empty. A merge with the previous snapshot can then
  not bring back an entry the tick has cleared.

For `ReworkArm` only liveness is left to TLC.

In `ValidationLaneProofs`, `ValidationParkProofs` and `ValidationOrderProofs`,
each extending the one before, for any finite set of PRs, any guests and struck
among them and any bounds:

| Theorem | Statement | Rests on |
|---|---|---|
| `TypeCorrect` | `Spec => []TypeOK` | - |
| `MutexHolds` | `Spec => []HoldersWithinSlots` | `MutexInv` |
| `ParkHolds` | `Spec => []ParkedHoldsNoArm` | `ParkInv` |
| `NoRunHolds` | `Spec => NoRunAfterPark` | `RunInv` |
| `OrderHolds` | `Spec => OldestFirst` | `OrderInv` |

- `MutexInv`: unless approvals land or probes fail, the armed approved PRs are no more than the slots
  the approvals ever gave, and the slots of the tick are no more either (`SlotsGiven`): a merge takes
  a holder away with the approval, so what was counted once stays counted. Every approval
  the tick reads is on its list (`ApprovalsKnown`), and a PR that a rule for new
  PRs has in hand is not approved (`FreshUnapproved`). The last two are why the
  stale list does no harm: it can only miss arms, and the live re-check before
  an arm finds those. The zombie sweep places its arm without that re-check; it
  is harmless because what the sweep read as an approved arm is still one
  (`ArmsRead`, `SweptArmed`).
- `ParkInv`: while the writes of a fail report succeed, the label pair is excluded from the lists the tick keeps as well as
  from the PRs; up to `park-reset` the tick has seen every arm, from then on
  every park. The two halves meet where `park-reset` drops the list.
- `RunInv`: while park labels and fail reports land, ticks reach their end and probes answer, a
  head with `ParkCap` reds is red, and its last run is somebody's: it is armed,
  parked or behind its base. The sweep visits such a head, because up to it the
  list has every arm (`ArmsListed`), so when the rules that dispatch come by,
  the head is parked and they have read so (`VisitsRun`, `SweepFinds`).
- `OrderInv`: in the environments of `OldestFirst`, when the rule `arm` asks,
  the list holds back no ready PR (`ListKept`); it visits the oldest first, so
  once it has passed a ready PR the slots are full (`Taken`), and the two rules
  after it, which match PRs by their checks and not by age, find them so. A PR
  the limit cuts off has as many others armed before it as the limit counted
  (`ActsHeld`): what "arm" counts and does not arm is a merge, and after a merge
  every other PR is behind its base and waits no more (`VisitsOrder`).

For `ValidationLane` only liveness is left to TLC.

In `DevelopmentLegProofs`, for any bounds on work and attempts:

| Theorem | Statement | Rests on |
|---|---|---|
| `TypeCorrect` | `Spec => []TypeOK` | - |
| `PushedWorkIsKept` | `Spec => PushedWorkKept` | `Carried`: from the end of setup to the end of a leg, the commits of the local branch contain all the work on the remote, so that a forced push takes nothing away |
| `WorkIsPublished` | `Spec => WorkPublished` | `PublishInv`: past each stage, what may still be on the runner only |
| `WallIsRespected` | `Spec => NoQuotaBurn` | `WallInv`: a wall that cost a leg its response leaves the story parked and In Development, or its leg on the way there |
| `MergesAreReviewed` | `Spec => ReviewedMerge` | `ReviewInv`: an approval label on a story with an open PR was given to what is on the remote |

In `MergeBackstopProofs`, for any number of funnels, threads and digests:

| Theorem | Statement | Rests on |
|---|---|---|
| `TypeCorrect` | `Spec => []TypeOK` | `Knows`: a funnel that will reply to a gated thread has a digest number |
| `DigestsHold` | `Spec => []OneDigestPerFunnel` | `DigestInv`: digests, plus the funnels that found none and are about to file, are no more than the funnels. The bound alone is not inductive |
| `RecordHolds` | `Spec => []ClosedIsRecorded` | `CountInv` and `RecordInv`: nothing gated is open but what every funnel at work listed; one that read the ledger carries all that was closed, but for what is in a digest - also what others close meanwhile, since it listed those threads too. That is why a stamp may replace another |
| `MergesOnRecord` | `Spec => []MergedOnRecord` | `CountInv` and `MergeInv`: a funnel without a failure has closed what it no longer has to close; a closed gated thread has a tag or a funnel about to reply |

The theorems of the last four modules have no hypothesis; the condition on the
environment stands in the property.

Only model-checked: liveness under fairness, which is beyond the prover -
`StaleLockRecovered`, `RedHeadAnswered`, `ConsumedWorkIsRestored`, `ArmReleased`,
`ApprovedSettles`, `LegEnds`, `StoryReturns`, `MergeSettles`, `HeldMergeLands`.

## 8. Not modelled

- In `SmDispatch`: a POST that throws after GitHub accepted it, so that the run
  exists and no label is written and no slot is charged; the failure markers and
  the dead-head park of `recordDispatchFailure` (smAgent.js:920-970). The stale
  check of a skip label (smAgent.js:1886) and the removal (1891) are two calls and
  one step of the model: between them only this tick could start a run under the
  key, so a stale label stays stale.
- Several workflow files: active runs are counted per file as rules come by, so
  the cap is not one number when rules use different files.
- `localTeammate` rules (the whole job inside the tick, no run, no recovery).
- Dry-run mode, priority order of query results, the github localActions
  (abstract in `RunLocally`; arming and restore have `ReworkArm`).
- In `ReworkArm`: closed pull requests and the guards against them (the PR is
  open throughout), installations without a machine identity (the guards are
  inert there), arming by `fail_validation` and conflict-rework, label calls
  that fail, comment lists that cannot be read (the code fails open and says
  so), suppression of repeated notices, the false-positive check before a
  lap-guard escalation. Listing lag and label failures are in `SmDispatch`.
- In `ValidationLane`: drafts in the approved queue, the clamp of the concurrency
  to five, removals of an arm that fail elsewhere than in a fail report, priority tiers, the
  guest merge rule, the review-verdict condition of the queries, `blocked`, the
  deferral of a refresh while a leg is active, the sixty-second dispatch guard,
  the push-suite hold, the fallback for a rejected check-run update, rollup
  caching, the verdict deferral of gh-1114 and the arm-only branch behind the
  fast path (neither can be reached), people who edit the lane's labels.
- In `DevelopmentLeg`: trigger and work-in-progress labels (`SmDispatch`), agents
  that commit themselves, base movement and sync merges, feature-branch mode,
  submodules, several or non-blocking gates per section, failing PR listings,
  PR-side labels, the direct start of a review, comments and telemetry, a
  question file read after a resume, the bug variant.
- In `MergeBackstop`: the bot's queue over PRs, its labels and self-tick; the
  sweep's candidates, labels and comments; threads of people or without an id;
  missing primitives; other writers of the ledger (its stamps and the sweep that
  retires digests).
- Runs of a workflow file other than the one modelled; a run that sat queued for
  six hours and starts after all (smAgent.js:571); comment lists that cannot be
  read (smAgent.js:6591); the order of a query's result (smAgent.js:1606).
- Everything marked `not_modelled` in `PROJECT.json`, with the reason there.
