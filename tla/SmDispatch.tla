----------------------------- MODULE SmDispatch -----------------------------
(***************************************************************************)
(* The SM tick of js/smAgent.js as a dispatcher: a tick walks the rules in *)
(* file order, queries the tracker once per rule, and for every match      *)
(* checks the skip labels, moves the status, dispatches a workflow run and *)
(* only then writes the trigger label.  The runs it dispatched, the GitHub *)
(* run listing it consults and the people who relabel tickets move between *)
(* any two of its calls.                                                   *)
(*                                                                         *)
(* Ticks never overlap (workflows/sm.yml, concurrency group machine-sm).   *)
(* A dispatched run enters the run listing after a delay (ListingLag); the *)
(* delay never outlasts the tick, whose period is minutes.                 *)
(***************************************************************************)
EXTENDS Integers, Sequences, FiniteSets

CONSTANTS
    Tickets,      \* tracker items: Jira tickets, GitHub issues, GitHub PRs
    Stages,       \* tracker statuses
    Labels,
    Keys,         \* what a run is matched by: '<config> : <ticket>' or an anchor token
    Branches,     \* PR head branches a leg can be dispatched on
    RunIds,
    Rules,        \* the rule list of sm.json / sm_github.json, in file order
    Cap,          \* maxTriggeredWorkflows
    Reserved,     \* what reservationFor holds back for merges in a layered tick, 0 in any other
    QuotaLabel,   \* the provider-quota park label
    HumanLabels,  \* request labels that people and other agents add
    NoStage, NoBranch, NoTicket, NoKey,
    ListingLag,   \* TRUE: a run is listed some time after its dispatch
    ProbeErrors   \* TRUE: a listing call may fail, and fails open

RuleType ==
    [kind     : {"dispatch", "local", "action"}, \* workflow_dispatch, localExecution, localAction
     items    : SUBSET Tickets,          \* the query: an item type ...
     stages   : SUBSET Stages,           \* ... a status ...
     needs    : SUBSET Labels,           \* ... the labels it asks for ...
     unless   : [Tickets -> SUBSET (Tickets \X Labels)],  \* ... and the ones it excludes
     skip     : Seq(Labels),             \* skipIfLabel followed by skipIfLabels
     recover  : {"default", "yes", "no"},
     add      : SUBSET Labels,
     consume  : SUBSET Labels,
     release  : SUBSET Labels,           \* what the job's postJSAction removes
     target   : Stages \cup {NoStage},
     outcomes : SUBSET Stages,           \* where the job may leave the ticket
     limit    : Nat \ {0},
     layer    : -1 .. 5,                 \* -1: a rule the layer map does not know
     probe    : BOOLEAN,                 \* quotaParkProbe
     merges   : BOOLEAN,                 \* may spend the merge reservation
     key      : [Tickets -> Keys],
     cross    : [Tickets -> Keys \cup {NoKey}],
     branch   : [Tickets -> Branches \cup {NoBranch}]]

ASSUME RulesAssumption == Rules \in Seq(RuleType)
ASSUME CapAssumption == Cap \in Nat \ {0} /\ Reserved \in Nat
ASSUME RunIdsAssumption == IsFiniteSet(RunIds)
ASSUME NothingAssumption ==
    NoStage \notin Stages /\ NoBranch \notin Branches /\ NoTicket \notin Tickets /\ NoKey \notin Keys
ASSUME LabelAssumption == QuotaLabel \in Labels /\ HumanLabels \subseteq Labels
ASSUME KnobAssumption == ListingLag \in BOOLEAN /\ ProbeErrors \in BOOLEAN

VARIABLES
    stage,      \* tracker: the status of each ticket
    labels,     \* tracker: the labels of each ticket
    run,        \* GitHub: the workflow runs
    pc,         \* where the tick stands
    rule,       \* the rule it is processing
    todo,       \* query result not yet visited
    snap,       \* labels as the query returned them
    tkt,        \* the ticket in hand
    processed,  \* processedKeys.length of this rule
    limit,      \* effectiveLimit of this rule
    remaining,  \* workflowBudget.remaining
    counted,    \* active runs already subtracted from the budget
    released,   \* tickMergeReservationReleased
    spent       \* tickMergeSlotSpent

tracker == <<stage, labels>>
loop == <<todo, snap, tkt, processed, limit>>
budget == <<remaining, counted, released, spent>>
vars == <<tracker, run, pc, rule, loop, budget>>

-----------------------------------------------------------------------------
\* Runs

FreeRun == [st |-> "free", key |-> NoKey, branch |-> NoBranch, tkt |-> NoTicket,
            rule |-> 0, aged |-> FALSE]

RunType ==
    [st     : {"free", "requested", "queued", "running", "closing"},
     key    : Keys \cup {NoKey},
     branch : Branches \cup {NoBranch},
     tkt    : Tickets \cup {NoTicket},
     rule   : 0 .. Len(Rules),
     aged   : BOOLEAN]                  \* sat queued past the six-hour bound

Live(i) == run[i].st # "free"

\* Runs a listing returns and the age filter keeps: queued ones age out.
Blocking == {i \in RunIds : \/ run[i].st \in {"running", "closing"}
                            \/ (run[i].st = "queued" /\ ~run[i].aged)}

\* The listing is fetched status by status; a status whose fetch fails is
\* read as empty.
Views ==
    IF ProbeErrors
    THEN {{i \in Blocking : (run[i].st = "queued") \in seen} : seen \in SUBSET BOOLEAN}
    ELSE {Blocking}

ActiveOn(view, k) == \E i \in view : run[i].key = k
LegOnBranch(view, b) == b # NoBranch /\ \E i \in view : run[i].branch = b

-----------------------------------------------------------------------------
\* The dispatch budget

IMin(a, b) == IF a <= b THEN a ELSE b
IMax(a, b) == IF a >= b THEN a ELSE b

\* ruleBudgetRemaining: while the merge reservation is held no rule spends
\* past it.
SpendableOf(rem) ==
    IF released \/ Reserved = 0 THEN rem ELSE IMin(rem, IMax(0, Cap - Reserved))

Spendable == SpendableOf(remaining)

\* ensureWorkflowBudgetActiveCount: active runs are charged once per tick.
Charged(view) ==
    IF counted THEN remaining ELSE IMax(0, remaining - Cardinality(view))

L3 == 3

-----------------------------------------------------------------------------
\* Rules

R == Rules[rule]

Matching ==
    {t \in R.items  : /\ stage[t] \in R.stages /\ R.needs \subseteq labels[t]
                     /\ \A u \in R.unless[t] : u[2] \notin labels[u[1]]}

HeldSkips(t) == {i \in DOMAIN R.skip : R.skip[i] \in snap[t]}

\* firstMatchingLabel: only the first held skip label is looked at.
FirstSkip(t) == R.skip[CHOOSE i \in HeldSkips(t) : \A j \in HeldSkips(t) : i <= j]

\* Mutant: recovery only where the rule opts in.
Recoverable_OptIn(l) == R.recover = "yes"

\* shouldRecoverStaleTriggerLabel: the rule's own trigger label recovers by
\* default, any other skip label only on request.
Recoverable(l) == R.recover = "yes" \/ (R.recover = "default" /\ l \in R.add)

\* Mutant: the listing is not consulted.
Stale_Unchecked(view, t) == TRUE

\* A held label is stale when no run accounts for it; a localExecution rule
\* has no run to look for.
Stale(view, t) == R.kind = "local" \/ ~ActiveOn(view, R.key[t])

-----------------------------------------------------------------------------
\* The tick

Init ==
    /\ stage \in [Tickets -> Stages]
    /\ labels = [t \in Tickets |-> {}]
    /\ run = [i \in RunIds |-> FreeRun]
    /\ pc = "idle" /\ rule = 1
    /\ todo = {} /\ snap = labels /\ tkt = NoTicket /\ processed = 0 /\ limit = 0
    /\ remaining = Cap /\ counted = FALSE /\ released = FALSE /\ spent = "none"

StartTick ==
    /\ pc = "idle" /\ Len(Rules) > 0
    /\ \A i \in RunIds : run[i].st # "requested"
    /\ pc' = "rule" /\ rule' = 1
    /\ remaining' = IMax(0, Cap - Reserved)
    /\ counted' = FALSE /\ released' = FALSE /\ spent' = "none"
    /\ UNCHANGED <<tracker, run, loop>>

\* The query, and the per-rule cap computed from the budget at that moment.
\* A localExecution rule slices the query result before any skip check.
QueryRule ==
    /\ pc = "rule"
    /\ R.kind = "dispatch" => Spendable > 0
    /\ IF R.kind = "local"
       THEN todo' \in {q \in SUBSET Matching :
                         Cardinality(q) = IMin(R.limit, Cardinality(Matching))}
       ELSE todo' = Matching
    /\ limit' = IF R.kind = "dispatch" THEN IMin(R.limit, Spendable) ELSE R.limit
    /\ snap' = labels /\ processed' = 0 /\ pc' = "ticket"
    /\ UNCHANGED <<tracker, run, rule, tkt, budget>>

\* Mutant: the limit is off by one.
MayVisit_OffByOne ==
    /\ R.kind = "dispatch" => Spendable > 0
    /\ R.kind # "local" => processed <= limit

\* Budget left and limit not reached: the loop goes on to another ticket.
MayVisit ==
    /\ R.kind = "dispatch" => Spendable > 0
    /\ R.kind # "local" => processed < limit

\* Mutant: every later boundary hands the reservation back again.
PastMerges_Repeated == rule = Len(Rules) \/ Rules[rule + 1].layer > L3

\* The first boundary past L3, or the end of the tick.
PastMerges == ~released /\ (rule = Len(Rules) \/ Rules[rule + 1].layer > L3)

\* The rule ends; at that boundary the merge reservation is handed back,
\* unless a merge-path validation spent it.
LeaveRule ==
    /\ \/ (pc = "rule" /\ R.kind = "dispatch" /\ Spendable <= 0)
       \/ (pc = "ticket" /\ (todo = {} \/ ~MayVisit))
    /\ IF rule = Len(Rules) THEN rule' = 1 /\ pc' = "idle"
       ELSE rule' = rule + 1 /\ pc' = "rule"
    /\ released' = (released \/ PastMerges)
    /\ remaining' = IF PastMerges /\ Reserved > 0 /\ spent # "dispatched"
                    THEN IMin(Cap, remaining + Reserved) ELSE remaining
    /\ todo' = {} /\ tkt' = NoTicket /\ processed' = 0 /\ limit' = 0
    /\ UNCHANGED <<tracker, run, snap, counted, spent>>

\* The ticket is left alone: parked on provider quota, or held by a skip
\* label that is not a stale trigger label.
SkipTicket(t) ==
    /\ pc = "ticket" /\ t \in todo /\ MayVisit
    /\ \/ (QuotaLabel \in snap[t] /\ ~R.probe)
       \/ /\ HeldSkips(t) # {}
          /\ ~Recoverable(FirstSkip(t)) \/ \E view \in Views : ~Stale(view, t)
    /\ todo' = todo \ {t}
    /\ UNCHANGED <<tracker, run, pc, rule, snap, tkt, processed, limit, budget>>

\* The ticket is taken up; a skip label no run accounts for is removed
\* first, and a failure of that removal is swallowed.
TakeTicket(t) ==
    /\ pc = "ticket" /\ t \in todo /\ MayVisit
    /\ QuotaLabel \notin snap[t] \/ R.probe
    /\ IF HeldSkips(t) = {} THEN UNCHANGED labels
       ELSE /\ Recoverable(FirstSkip(t))
            /\ \E view \in Views : Stale(view, t)
            /\ labels' \in {labels, [labels EXCEPT ![t] = @ \ {FirstSkip(t)}]}
    /\ todo' = todo \ {t} /\ tkt' = t
    /\ pc' = IF R.target = NoStage THEN "act" ELSE "move"
    /\ UNCHANGED <<stage, run, rule, snap, processed, limit, budget>>

\* targetStatus: the status moves before the dispatch is attempted, unless
\* the budget is exhausted.  A rejected transition is only logged.
MoveStatus ==
    /\ pc = "move"
    /\ IF R.kind # "dispatch" THEN UNCHANGED <<remaining, counted>>
       ELSE \E view \in Views : /\ SpendableOf(Charged(view)) > 0
                                /\ remaining' = Charged(view)
                                /\ counted' = TRUE
    /\ stage' \in {stage, [stage EXCEPT ![tkt] = R.target]}
    /\ pc' = "act"
    /\ UNCHANGED <<labels, run, rule, loop, released, spent>>

\* "skipped before transition": the loop over this rule's tickets stops.
MoveRefused ==
    /\ pc = "move" /\ R.kind = "dispatch"
    /\ \E view \in Views : /\ SpendableOf(Charged(view)) <= 0
                           /\ remaining' = Charged(view)
    /\ counted' = TRUE
    /\ pc' = "ticket" /\ todo' = {}
    /\ UNCHANGED <<tracker, run, rule, snap, tkt, processed, limit, released, spent>>

\* Mutants: the guard on the rule's own key, and the ones on the other anchor
\* and on the branch, are missing.
Clear_OwnKeyUnchecked(own, other, legs) ==
    ~ActiveOn(other, R.cross[tkt]) /\ ~LegOnBranch(legs, R.branch[tkt])
Clear_OwnKeyOnly(own, other, legs) == ~ActiveOn(own, R.key[tkt])

\* triggerWorkflow up to the POST: every guard reads a listing of its own.
Clear(own, other, legs) ==
    /\ ~ActiveOn(own, R.key[tkt])
    /\ ~ActiveOn(other, R.cross[tkt])
    /\ ~LegOnBranch(legs, R.branch[tkt])

Trigger(i) ==
    /\ pc = "act" /\ R.kind = "dispatch" /\ ~Live(i)
    /\ \E view \in Views : Charged(view) > 0 /\ remaining' = Charged(view)
    /\ \E own, other, legs \in Views : Clear(own, other, legs)
    /\ counted' = TRUE
    /\ run' = [run EXCEPT ![i] =
                 [st |-> IF ListingLag THEN "requested" ELSE "queued",
                  key |-> R.key[tkt], branch |-> R.branch[tkt], tkt |-> tkt,
                  rule |-> rule, aged |-> FALSE]]
    /\ pc' = "mark"
    /\ UNCHANGED <<tracker, rule, loop, released, spent>>

\* triggerWorkflow returns false: cap reached, a guard hit, or the POST threw.
\* A leg in flight under the other anchor consumes the request label.
NoTrigger ==
    /\ pc = "act" /\ R.kind = "dispatch"
    /\ \E view, own, other \in Views :
         /\ remaining' = Charged(view)
         /\ labels' \in
              IF Charged(view) > 0 /\ ~ActiveOn(own, R.key[tkt]) /\ ActiveOn(other, R.cross[tkt])
              THEN {[labels EXCEPT ![tkt] = @ \ gone] : gone \in SUBSET R.consume}
              ELSE {labels}
    /\ counted' = TRUE
    /\ pc' = "ticket"
    /\ UNCHANGED <<stage, run, rule, loop, released, spent>>

\* Mutants: the slot is charged by the dispatch and by the loop, or by neither.
SlotTaken_Twice == remaining - 2
SlotTaken_Never == remaining

\* budget.remaining after a dispatch.
SlotTaken == remaining - 1

\* After a dispatch: addRuleLabels, consumeLabels, the slot.  Each label call
\* may fail on its own and is swallowed.
MarkTriggered ==
    /\ pc = "mark"
    /\ \E new \in SUBSET R.add, gone \in SUBSET R.consume :
         labels' = [labels EXCEPT ![tkt] = (@ \cup new) \ gone]
    /\ processed' = processed + 1 /\ remaining' = SlotTaken
    /\ pc' = "ticket"
    /\ UNCHANGED <<stage, run, rule, todo, snap, tkt, limit, counted, released, spent>>

\* A localExecution or localAction rule: the job runs inside the tick and may
\* throw before it writes anything, move the ticket on and release its lock;
\* a merge-window action may spend the merge reservation.
RunLocally ==
    /\ pc = "act" /\ R.kind # "dispatch"
    /\ \/ UNCHANGED <<tracker, processed>>
       \/ /\ stage' \in {[stage EXCEPT ![tkt] = s] : s \in R.outcomes \cup {stage[tkt]}}
          /\ \E new \in SUBSET R.add, gone \in {{}, R.release} :
               labels' = [labels EXCEPT ![tkt] = (@ \ gone) \cup new]
          /\ processed' = processed + 1
    /\ \/ UNCHANGED spent
       \/ (R.merges /\ spent' = "dispatched")
       \/ (R.merges /\ spent' = IF spent = "none" THEN "merged" ELSE spent)
    /\ pc' = "ticket"
    /\ UNCHANGED <<run, rule, todo, snap, tkt, limit, remaining, counted, released>>

\* A query that throws, a runner that dies: the tick stops where it stands.
TickDies ==
    /\ pc # "idle" /\ pc' = "idle" /\ rule' = 1
    /\ todo' = {} /\ tkt' = NoTicket /\ processed' = 0 /\ limit' = 0
    /\ UNCHANGED <<tracker, run, snap, budget>>

-----------------------------------------------------------------------------
\* The runs, and the people around the tracker

Becomes(i, st) == run' = [run EXCEPT ![i].st = st]

Register(i) == /\ run[i].st = "requested" /\ Becomes(i, "queued")
               /\ UNCHANGED <<tracker, pc, rule, loop, budget>>

\* The workflow's own concurrency group admits one running run per key.
Start(i) ==
    /\ run[i].st = "queued"
    /\ \A j \in RunIds : run[j].st \in {"running", "closing"} => run[j].key # run[i].key
    /\ Becomes(i, "running")
    /\ UNCHANGED <<tracker, pc, rule, loop, budget>>

Age(i) == /\ run[i].st = "queued" /\ ~run[i].aged
          /\ run' = [run EXCEPT ![i].aged = TRUE]
          /\ UNCHANGED <<tracker, pc, rule, loop, budget>>

\* postJSAction: the status moves on or stays (nothing done, wip abort), and
\* releaseLock removes the label; a failed removal is only logged.
PostAction(i) ==
    LET r == Rules[run[i].rule]
        t == run[i].tkt
    IN /\ run[i].st = "running" /\ Becomes(i, "closing")
       /\ stage' \in {[stage EXCEPT ![t] = s] : s \in r.outcomes \cup {stage[t]}}
       /\ labels' \in {labels, [labels EXCEPT ![t] = @ \ r.release]}
       /\ UNCHANGED <<pc, rule, loop, budget>>

\* The run leaves the listing: finished, or cancelled or dead before its
\* post action could release anything.
EndRun(i) == /\ run[i].st \in {"queued", "running", "closing"}
             /\ run' = [run EXCEPT ![i] = FreeRun]
             /\ UNCHANGED <<tracker, pc, rule, loop, budget>>

Request(t, l) == /\ l \notin labels[t]
                 /\ labels' = [labels EXCEPT ![t] = @ \cup {l}]
                 /\ UNCHANGED <<stage, run, pc, rule, loop, budget>>

Tick ==
    \/ StartTick \/ QueryRule \/ LeaveRule
    \/ \E t \in Tickets : SkipTicket(t) \/ TakeTicket(t)
    \/ MoveStatus \/ MoveRefused
    \/ \E i \in RunIds : Trigger(i)
    \/ NoTrigger \/ MarkTriggered \/ RunLocally

Runner ==
    \E i \in RunIds : Register(i) \/ Start(i) \/ Age(i) \/ PostAction(i) \/ EndRun(i)

People == \E t \in Tickets, l \in HumanLabels : Request(t, l)

Next == Tick \/ TickDies \/ Runner \/ People

Spec == Init /\ [][Next]_vars

\* Runs that are dispatched and not listed yet.
Requested == {i \in RunIds : run[i].st = "requested"}

\* The moments between the rules of a tick at which all its runs are listed.
Settled == pc = "idle" \/ (pc = "rule" /\ Requested = {})

\* A label no rule asks for may be added at any moment, a request only at one of
\* those.
QuietPeople ==
    \E t \in Tickets, l \in HumanLabels :
        /\ (\E r \in DOMAIN Rules : l \in Rules[r].needs) => Settled
        /\ Request(t, l)

QuietNext == Tick \/ TickDies \/ Runner \/ QuietPeople

QuietSpec == Init /\ [][QuietNext]_vars

\* Stale-label recovery for t, when the label call does go through.
Recover(t) == TakeTicket(t) /\ labels'[t] # labels[t]

\* The schedule keeps firing, its queries and label calls do not fail for
\* ever, and GitHub lists and ends every run (workflow timeouts).
FairSpec ==
    /\ Spec
    /\ WF_vars(Tick) /\ SF_vars(QueryRule)
    /\ \A t \in Tickets : SF_vars(Recover(t))
    /\ \A i \in RunIds : WF_vars(Register(i)) /\ WF_vars(EndRun(i))
-----------------------------------------------------------------------------
\* Properties

TypeOK ==
    /\ stage \in [Tickets -> Stages]
    /\ labels \in [Tickets -> SUBSET Labels]
    /\ run \in [RunIds -> RunType]
    /\ pc \in {"idle", "rule", "ticket", "move", "act", "mark"}
    /\ rule \in Nat \ {0} /\ (Len(Rules) > 0 => rule \in 1 .. Len(Rules))
    /\ todo \in SUBSET Tickets /\ snap \in [Tickets -> SUBSET Labels]
    /\ tkt \in Tickets \cup {NoTicket} /\ (pc \in {"move", "act", "mark"} => tkt \in Tickets)
    /\ pc # "idle" => Len(Rules) > 0
    /\ processed \in Nat /\ limit \in Nat
    /\ remaining \in 0 .. Cap /\ counted \in BOOLEAN /\ released \in BOOLEAN
    /\ spent \in {"none", "dispatched", "merged"}
    /\ \A i \in RunIds : Live(i) => run[i].rule # 0 /\ run[i].tkt \in Tickets

\* Dispatched runs that have not aged out of the listing.
InFlight == {i \in RunIds : Live(i) /\ ~run[i].aged}

\* No two runs for the same concurrency key are in flight, whatever happened
\* in between: a tick that died between the dispatch and the label, a label
\* call that failed, a stale label that was recovered, a second ticket under
\* the same key (hasActiveTargetWorkflowRun, smAgent.js:489).
OneRunPerKey == \A i, j \in InFlight : run[i].key = run[j].key => i = j

\* maxTriggeredWorkflows bounds active plus newly dispatched runs, with the
\* merge reservation taken out and handed back in the middle of the tick
\* (smAgent.js:21, ensureWorkflowBudgetActiveCount, the L3 boundary).
WithinCap == Cardinality(InFlight) <= Cap

\* One tick never dispatches more than the cap, even when every listing call
\* fails and is read as 'nothing active' (workflowRuns.js, fail-open; the
\* runs of the tick are told apart by not being listed yet).
TickWithinCap == Cardinality(Requested) <= Cap

\* A PR branch has one writer: the issue-anchored and the PR-anchored rework
\* rules never both have a leg on it (branchLegGuard.js:20, 'one leg per PR per
\* rework cycle').
OneLegPerBranch ==
    \A i, j \in InFlight :
        run[i].branch = run[j].branch /\ run[i].branch # NoBranch => i = j

\* The tick, its crashes and its label races implement the abstract dispatcher:
\* one run per key and at most Cap of them in flight, as one promise.
LegOf == [i \in RunIds |-> IF i \in InFlight THEN run[i].key ELSE NoKey]
Legs == INSTANCE LegSlots WITH Slots <- RunIds, leg <- LegOf
ImplementsLegSlots == Legs!Spec

\* A trigger label whose run is gone (it died before releaseLock, or ended
\* before the tick wrote the label) does not hold its ticket for ever.
StaleLockRecovered ==
    \A r \in DOMAIN Rules, t \in Tickets :
        LET stuck == /\ t \in Rules[r].items /\ stage[t] \in Rules[r].stages
                     /\ Rules[r].kind = "dispatch" /\ Rules[r].add \cap labels[t] # {}
                     /\ \A i \in RunIds : Live(i) => run[i].key # Rules[r].key[t]
        IN stuck ~> ~stuck

\* Stale-label recovery never takes the trigger label of a ticket from under
\* a run still in flight for it: only a run of the ticket gives it back, or the
\* consumption that follows a dispatch for the ticket.
LockNotStolen ==
    [][\A i \in InFlight :
          LET r == Rules[run[i].rule]
              t == run[i].tkt
          IN run'[i] = run[i] /\ (labels[t] \cap r.add) \ labels'[t] # {}
             => \/ pc = "mark" /\ tkt = t
                \/ \E j \in RunIds : run[j].tkt = t /\ run[j].st = "running" /\ run'[j].st = "closing"]_vars
=============================================================================
