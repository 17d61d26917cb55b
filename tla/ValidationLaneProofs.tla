------------------------- MODULE ValidationLaneProofs -------------------------
(***************************************************************************)
(* Type correctness of the merge window, and its semaphore: while no       *)
(* review approves an armed PR and live lists answer, approved PRs hold    *)
(* ai_validating one at a time, and Concurrency at a time only if          *)
(* Watermark PRs were approved, for any set of PRs, any concurrency and    *)
(* watermark, any caps and any environment.                                *)
(***************************************************************************)
EXTENDS ValidationLane, FiniteSetTheorems, TLAPS

-----------------------------------------------------------------------------
(* What the handlers do to a PR keeps its type. *)

\* The caps are positive numbers.
LEMMA Caps == /\ ZombieCap \in Nat \ {0} /\ ZombieWindow \in Nat \ {0} /\ ParkCap \in Nat \ {0}
              /\ RedCap \in Nat \ {0} /\ ResetCap \in Nat \ {0}
              /\ Concurrency \in Nat \ {0} /\ Watermark \in Nat \ {0}
BY BoundsAssumption

\* The sets the lane counts are finite.
LEMMA FiniteCounts ==
    ASSUME NEW S \in SUBSET PRs
    PROVE  IsFiniteSet(S) /\ Cardinality(S) \in Nat
BY BoundsAssumption, FS_Subset, FS_CardinalityType

\* A deeper queue has no fewer slots.
LEMMA SlotsGrow ==
    ASSUME NEW m \in Nat, NEW n \in Nat, m <= n
    PROVE  SlotsFor(m) \in 1 .. Concurrency /\ SlotsFor(m) <= SlotsFor(n)
BY Caps DEF SlotsFor

\* Both are sets of strings; the names are needed wherever labels are compared.
LEMMA LabelNames == /\ Arm \in Labels /\ Latch \in Labels /\ Approved \in Labels /\ Park \in Labels
                    /\ Arm # Latch /\ Arm # Approved /\ Arm # Park
                    /\ Latch # Approved /\ Latch # Park /\ Approved # Park
BY DEF Labels, Arm, Latch, Approved, Park

\* The thirteen rules of the lane.
LEMMA RuleCount == LastRule = 13
BY DEF LastRule, Rules

\* The number of a rule, and its name.
LEMMA RuleNumber ==
    ASSUME rule \in 0 .. LastRule, rule # 0
    PROVE  \/ rule = 1 /\ Current = "rerun"
           \/ rule = 2 /\ Current = "unarm"
           \/ rule = 3 /\ Current = "refresh"
           \/ rule = 4 /\ Current = "reset"
           \/ rule = 5 /\ Current = "merge"
           \/ rule = 6 /\ Current = "fail"
           \/ rule = 7 /\ Current = "sweep"
           \/ rule = 8 /\ Current = "arm"
           \/ rule = 9 /\ Current = "rearm"
           \/ rule = 10 /\ Current = "rearm green"
           \/ rule = 11 /\ Current = "fresh"
           \/ rule = 12 /\ Current = "fresh green"
           \/ rule = 13 /\ Current = "complete"
<1>1. rule \in 1 .. 13
  BY RuleCount
<1>2. rule = 1 => Current = "rerun"
  BY DEF Current, Rules
<1>3. rule = 2 => Current = "unarm"
  BY DEF Current, Rules
<1>4. rule = 3 => Current = "refresh"
  BY DEF Current, Rules
<1>5. rule = 4 => Current = "reset"
  BY DEF Current, Rules
<1>6. rule = 5 => Current = "merge"
  BY DEF Current, Rules
<1>7. rule = 6 => Current = "fail"
  BY DEF Current, Rules
<1>8. rule = 7 => Current = "sweep"
  BY DEF Current, Rules
<1>9. rule = 8 => Current = "arm"
  BY DEF Current, Rules
<1>10. rule = 9 => Current = "rearm"
  BY DEF Current, Rules
<1>11. rule = 10 => Current = "rearm green"
  BY DEF Current, Rules
<1>12. rule = 11 => Current = "fresh"
  BY DEF Current, Rules
<1>13. rule = 12 => Current = "fresh green"
  BY DEF Current, Rules
<1>14. rule = 13 => Current = "complete"
  BY DEF Current, Rules
<1>15. \/ rule = 1 \/ rule = 2 \/ rule = 3 \/ rule = 4 \/ rule = 5 \/ rule = 6 \/ rule = 7
       \/ rule = 8 \/ rule = 9 \/ rule = 10 \/ rule = 11 \/ rule = 12 \/ rule = 13
  BY <1>1
<1> QED BY <1>2, <1>3, <1>4, <1>5, <1>6, <1>7, <1>8, <1>9, <1>10, <1>11, <1>12, <1>13, <1>14, <1>15, ZenonT(30)

\* A fresh head is a head.
LEMMA NewHeadTyped == NewHead \in HeadType
BY Caps DEF NewHead, HeadType

\* A label more or less, and the four combinations the handlers use.
LEMMA LabelsTyped ==
    ASSUME NEW s \in PrType, NEW l \in Labels
    PROVE  /\ Without(s, l) \in PrType /\ With(s, l) \in PrType
           /\ Validated(s) \in PrType /\ Unparked(s) \in PrType /\ Parked(s) \in PrType
<1>1. ASSUME NEW t \in PrType, NEW m \in Labels PROVE Without(t, m) \in PrType /\ With(t, m) \in PrType
  BY <1>1 DEF Without, With, PrType
<1>2. Validated(s) \in PrType
  BY <1>1, LabelNames DEF Validated
<1>3. [Without(s, Park) EXCEPT !.since = "same"] \in PrType
  <2>1. Without(s, Park) \in PrType BY <1>1, LabelNames
  <2> QED BY <2>1 DEF PrType
<1>4. [With(s, Park) EXCEPT !.since = "same"] \in PrType
  <2>1. With(s, Park) \in PrType BY <1>1, LabelNames
  <2> QED BY <2>1 DEF PrType
<1> QED BY <1>1, <1>2, <1>3, <1>4 DEF Unparked, Parked

\* A push.
LEMMA PushedTyped ==
    ASSUME NEW s \in PrType, NEW who \in {"machine", "human"}
    PROVE  Pushed(s, who) \in PrType
BY NewHeadTyped DEF Pushed, PrType

\* A dispatched run.
LEMMA DispatchedTyped ==
    ASSUME NEW s \in PrType, NEW c \in {"active", "none"}
    PROVE  Dispatched(s, c) \in PrType
<1> DEFINE h == [s.head EXCEPT !.ci = c, !.old = FALSE]
<1>1. s.head \in HeadType
  BY DEF PrType
<1>2. h \in HeadType
  BY <1>1 DEF HeadType
<1>3. [s EXCEPT !.head = h] \in PrType
  BY <1>2 DEF PrType
<1>4. [s EXCEPT !.head.ci = c, !.head.old = FALSE] = [s EXCEPT !.head = h]
  BY DEF PrType
<1> QED BY <1>3, <1>4 DEF Dispatched

\* A closed PR.
LEMMA ClosedTyped == ASSUME NEW t \in PrType PROVE Closed(t) \in PrType
<1>1. 0 \in 0 .. ResetCap
  BY Caps
<1>2. Closed(t) = [t EXCEPT !.open = FALSE, !.labels = {}, !.head = NewHead, !.base = "current",
                            !.since = "same", !.resets = 0]
  BY DEF Closed
<1> QED BY <1>1, <1>2, NewHeadTyped DEF PrType

\* A merge, tried.
LEMMA MergeTyped ==
    ASSUME pr \in [PRs -> PrType], NEW p \in PRs, NEW s \in PrType, NEW refused \in PrType
    PROVE  MergeAttempt(p, s, refused) \in [PRs -> PrType]
<1>1. ASSUME NEW t \in PrType PROVE Outdated(t) \in PrType
  BY <1>1 DEF Outdated, PrType
<1>2. Merged(p) \in [PRs -> PrType]
  BY <1>1, ClosedTyped DEF Merged
<1>3. Validated(s) \in PrType
  BY LabelsTyped, LabelNames
<1> QED BY <1>2, <1>3 DEF MergeAttempt

\* A counted red.
Counted(s) == [s EXCEPT !.head.reds = IF @ < RedCap THEN @ + 1 ELSE @]

\* What a fail report makes of a PR.
LEMMA FailIs ==
    ASSUME NEW p, NEW s, NEW done
    PROVE  \E t \in {s, Without(s, Arm)} :
             /\ FailReported(p, s, done) \in {t, Counted(t), Parked(Counted(t))}
             /\ "unarm" \in done => t = Without(s, Arm)
<1>1. CASE "unarm" \in done
  BY <1>1, Zenon DEF FailReported, Counted
<1>2. CASE "unarm" \notin done
  BY <1>2, Zenon DEF FailReported, Counted
<1> QED BY <1>1, <1>2

\* The count is typed, and touches no label.
LEMMA CountedTyped ==
    ASSUME NEW s \in PrType
    PROVE  Counted(s) \in PrType /\ Counted(s).labels = s.labels /\ Counted(s).open = s.open
BY Caps DEF Counted, PrType, HeadType

\* A fail report.
LEMMA FailTyped ==
    ASSUME NEW p \in PRs, NEW s \in PrType, NEW done
    PROVE  FailReported(p, s, done) \in PrType
<1>1. PICK t \in {s, Without(s, Arm)} : FailReported(p, s, done) \in {t, Counted(t), Parked(Counted(t))}
  BY FailIs
<1>2. t \in PrType
  BY LabelsTyped, LabelNames
<1>3. Counted(t) \in PrType /\ Parked(Counted(t)) \in PrType
  BY <1>2, CountedTyped, LabelsTyped, LabelNames
<1> QED BY <1>1, <1>2, <1>3

-----------------------------------------------------------------------------
(* The walk of a tick keeps its type. *)

Lists == [PRs -> SUBSET Labels]

WalkOK ==
    /\ list = NoList \/ list \in Lists
    /\ rule \in 0 .. LastRule
    /\ DOMAIN todo \subseteq PRs /\ \A p \in DOMAIN todo : todo[p] \subseteq Labels
    /\ moved \subseteq PRs
    /\ slots \in 1 .. Concurrency /\ acted \in 0 .. slots - 1 /\ (rule = 0 => slots = 1)

\* What a query hands to the visits.
LEMMA TicketsAre ==
    ASSUME NEW labels, NEW S
    PROVE  DOMAIN Tickets(labels, S) = S /\ \A q \in S : Tickets(labels, S)[q] = labels[q]
BY DEF Tickets

\* No tickets are none.
LEMMA NoTicketsEmpty == DOMAIN NoTickets = {}
BY DEF NoTickets, Tickets

\* Leaving a rule.
LEMMA LeaveTyped ==
    ASSUME rule \in 0 .. LastRule, slots \in 1 .. Concurrency, NEW kept, kept = NoList \/ kept \in Lists,
           NEW S \in SUBSET PRs, Leave(kept, S)
    PROVE  WalkOK'
<1>1. slots' \in 1 .. Concurrency /\ acted' \in 0 .. slots' - 1 /\ (rule' = 0 => slots' = 1)
  BY RuleCount, Caps DEF Leave, TickEnds
<1>2. rule' \in 0 .. LastRule /\ (list' = NoList \/ list' \in Lists) /\ moved' \subseteq PRs
  BY RuleCount DEF Leave, TickEnds
<1>3. DOMAIN todo' = {}
  BY NoTicketsEmpty DEF Leave
<1> QED BY <1>1, <1>2, <1>3 DEF WalkOK

\* What is left of the limit.
LEMMA LimitLeft ==
    ASSUME TypeOK, NEW counts,
           ~ (counts /\ Current \in Limited /\ (IF counts /\ Current \in Limited THEN acted + 1 ELSE acted) >= Limit)
    PROVE  (IF counts /\ Current \in Limited THEN acted + 1 ELSE acted) \in 0 .. slots - 1
<1>1. slots \in 1 .. Concurrency /\ acted \in 0 .. slots - 1
  BY DEF TypeOK
<1>2. CASE counts /\ Current \in Limited
  <2>1. acted + 1 < Limit /\ Limit <= slots
    BY <1>1, <1>2, Caps DEF Limit
  <2> QED BY <1>1, <1>2, <2>1, Caps
<1>3. CASE ~ (counts /\ Current \in Limited)
  BY <1>1, <1>3
<1> QED BY <1>2, <1>3

\* The two ways a visit goes on.
LEMMA VisitedIs ==
    ASSUME NEW p, NEW counts, NEW kept, NEW S, Visited(p, counts, kept, S)
    PROVE  \/ Leave(kept, S)
           \/ /\ todo' = Tickets(todo, (DOMAIN todo) \ {p}) /\ (DOMAIN todo) \ {p} # {}
              /\ list' = kept /\ moved' = S /\ rule' = rule /\ slots' = slots
              /\ acted' = IF counts /\ Current \in Limited THEN acted + 1 ELSE acted
              /\ ~ (counts /\ Current \in Limited /\ acted' >= Limit)
<1> DEFINE n == IF counts /\ Current \in Limited THEN acted + 1 ELSE acted
           full == counts /\ Current \in Limited /\ n >= Limit
           rest == IF full THEN {} ELSE (DOMAIN todo) \ {p}
<1>1. Remains(rest, n, kept, S)
  BY DEF Visited
<1>2. CASE rest = {}
  BY <1>1, <1>2 DEF Remains
<1>3. CASE rest # {}
  <2>1. ~ full /\ rest = (DOMAIN todo) \ {p}
    BY <1>3
  <2>2. /\ todo' = Tickets(todo, rest) /\ acted' = n /\ list' = kept /\ moved' = S
        /\ rule' = rule /\ slots' = slots
    BY <1>1, <1>3 DEF Remains
  <2> QED BY <1>3, <2>1, <2>2
<1> QED BY <1>2, <1>3

\* The end of a visit.
LEMMA VisitedTyped ==
    ASSUME TypeOK, NEW p \in PRs, NEW counts, NEW kept, kept = NoList \/ kept \in Lists,
           NEW S \in SUBSET PRs, Visited(p, counts, kept, S)
    PROVE  WalkOK'
<1>1. CASE Leave(kept, S)
  BY <1>1, LeaveTyped DEF TypeOK
<1>2. CASE ~ Leave(kept, S)
  <2> DEFINE rest == (DOMAIN todo) \ {p}
  <2>1. /\ todo' = Tickets(todo, rest) /\ list' = kept /\ moved' = S /\ rule' = rule /\ slots' = slots
        /\ acted' = IF counts /\ Current \in Limited THEN acted + 1 ELSE acted
        /\ ~ (counts /\ Current \in Limited /\ acted' >= Limit)
    BY <1>2, VisitedIs
  <2>2. acted' \in 0 .. slots' - 1
    BY <2>1, LimitLeft
  <2>3. DOMAIN todo' = rest /\ \A q \in rest : todo'[q] = todo[q]
    BY <2>1, TicketsAre
  <2>4. rest \subseteq DOMAIN todo
    OBVIOUS
  <2> HIDE DEF rest
  <2> QED BY <2>1, <2>2, <2>3, <2>4 DEF TypeOK, WalkOK, Lists
<1> QED BY <1>1, <1>2

\* The three ways a handler ends its visit.
LEMMA EndsTyped ==
    ASSUME TypeOK, NEW p \in PRs, Acted(p) \/ ActedAndDropped(p) \/ Skipped(p)
    PROVE  WalkOK'
<1>1. list = NoList \/ list \in Lists
  BY DEF TypeOK, Lists
<1>2. moved \in SUBSET PRs
  BY DEF TypeOK
<1>3. CASE Acted(p)
  BY <1>1, <1>2, <1>3, VisitedTyped DEF Acted
<1>4. CASE ActedAndDropped(p)
  BY <1>2, <1>4, VisitedTyped DEF ActedAndDropped
<1>5. CASE Skipped(p)
  BY <1>1, <1>2, <1>5, VisitedTyped DEF Skipped
<1> QED BY <1>3, <1>4, <1>5

\* The type invariant in the parts the steps are proved in.
LEMMA TypeParts == TypeOK <=> env \in Environments /\ pr \in [PRs -> PrType] /\ WalkOK
BY DEF TypeOK, WalkOK, Lists

\* ... and after a step.
LEMMA TypePartsNext ==
    TypeOK' <=> env' \in Environments /\ pr' \in [PRs -> PrType] /\ WalkOK'
BY DEF TypeOK, WalkOK, Lists

-----------------------------------------------------------------------------
(* Handlers: each leaves a well-typed PR behind. *)

\* One PR replaced.
LEMMA ReplacedTyped ==
    ASSUME pr \in [PRs -> PrType], NEW p \in PRs, NEW s \in PrType
    PROVE  [pr EXCEPT ![p] = s] \in [PRs -> PrType]
OBVIOUS

\* A PR on the way through validate_pr.
LEMMA EnteredTyped ==
    ASSUME pr \in [PRs -> PrType], NEW p \in PRs, NEW ci
    PROVE  Entered(p) \in PrType /\ Stripped(p, ci) \in PrType
<1>1. pr[p] \in PrType
  OBVIOUS
<1>2. Entered(p) \in PrType
  BY <1>1, LabelsTyped, LabelNames DEF Entered
<1>3. Without(Entered(p), Latch) \in PrType
  BY <1>2, LabelsTyped, LabelNames
<1> QED BY <1>2, <1>3 DEF Stripped

\* A fresh head after a reset, and a cleared ghost.
LEMMA ResetTyped ==
    ASSUME NEW s \in PrType
    PROVE  /\ s.resets < ResetCap => [s EXCEPT !.resets = @ + 1] \in PrType
           /\ [s EXCEPT !.head.ghost = "none"] \in PrType
<1>1. s.resets \in 0 .. ResetCap /\ s.head \in HeadType
  BY DEF PrType
<1>2. s.resets < ResetCap => s.resets + 1 \in 0 .. ResetCap
  BY <1>1, Caps
<1>3. [s.head EXCEPT !.ghost = "none"] \in HeadType
  BY <1>1 DEF HeadType
<1>4. [s EXCEPT !.head.ghost = "none"] = [s EXCEPT !.head = [s.head EXCEPT !.ghost = "none"]]
  BY DEF PrType
<1> QED BY <1>2, <1>3, <1>4 DEF PrType

\* The visits.
LEMMA HandleTyped ==
    ASSUME TypeOK, NEW p \in PRs, Handle(p)
    PROVE  TypeOK'
<1> pr \in [PRs -> PrType] /\ pr[p] \in PrType
  BY DEF TypeOK
<1> SUFFICES env' = env /\ pr' \in [PRs -> PrType] /\ (Acted(p) \/ ActedAndDropped(p) \/ Skipped(p) \/ WalkOK')
  BY EndsTyped, TypePartsNext, TypeParts
<1> USE LabelNames
<1>1. CASE Rerun(p)
  <2> DEFINE h == [pr[p].head EXCEPT !.ci = "active", !.old = FALSE, !.rerun = TRUE]
  <2>1. h \in HeadType
    BY DEF PrType, HeadType
  <2>2. [pr[p] EXCEPT !.head = h] \in PrType
    BY <2>1 DEF PrType
  <2>3. pr' = [pr EXCEPT ![p] = [pr[p] EXCEPT !.head = h]] \/ pr' = pr
    BY <1>1 DEF Rerun
  <2> QED BY <1>1, <2>2, <2>3 DEF Rerun
<1>2. CASE Unarm(p)
  <2>1. Validated(pr[p]) \in PrType /\ Without(pr[p], Arm) \in PrType
    BY LabelsTyped
  <2>2. pr' = [pr EXCEPT ![p] = Validated(pr[p])] \/ pr' = [pr EXCEPT ![p] = Without(pr[p], Arm)]
    BY <1>2 DEF Unarm
  <2> QED BY <1>2, <2>1, <2>2 DEF Unarm
<1>3. CASE UpdateBranch(p)
  <2> DEFINE s == ParkReviewed(p, pr[p])
  <2>1. s \in PrType
    BY LabelsTyped DEF ParkReviewed
  <2> HIDE DEF s
  <2>2. Pushed(s, "machine") \in PrType
    BY <2>1, PushedTyped
  <2>3. PICK readable \in {TRUE, ~ Fails(p)} :
          LET moves == readable /\ s.base = "behind" IN
          /\ pr' = [pr EXCEPT ![p] = IF moves THEN Pushed(s, "machine") ELSE s]
          /\ Visited(p, TRUE, list, IF moves THEN moved \cup {p} ELSE moved)
    BY <1>3 DEF UpdateBranch, s
  <2> DEFINE moves == readable /\ s.base = "behind"
  <2>4. pr' = [pr EXCEPT ![p] = IF moves THEN Pushed(s, "machine") ELSE s]
    BY <2>3
  <2>5. (IF moves THEN moved \cup {p} ELSE moved) \in SUBSET PRs
    BY DEF TypeOK
  <2>6. list = NoList \/ list \in Lists
    BY DEF TypeOK, Lists
  <2>7. WalkOK'
    BY <2>3, <2>5, <2>6, VisitedTyped
  <2> QED BY <1>3, <2>1, <2>2, <2>4, <2>7 DEF UpdateBranch
<1>4. CASE Merge(p)
  BY <1>4, MergeTyped DEF Merge
<1>5. CASE FailValidation(p)
  <2>1. PICK done \in Writes : pr' = [pr EXCEPT ![p] = FailReported(p, pr[p], done)]
    BY <1>5 DEF FailValidation
  <2>3. FailReported(p, pr[p], done) \in PrType
    BY FailTyped
  <2> QED BY <1>5, <2>1, <2>3 DEF FailValidation
<1>6. CASE SweepVerdict(p)
  <2>1. PICK ci \in Probes(p) \cap {"green", "red"}, done \in Writes :
          pr' = [pr EXCEPT ![p] = IF ci = "green" THEN Validated(pr[p]) ELSE FailReported(p, pr[p], done)]
    BY <1>6 DEF SweepVerdict
  <2>3. FailReported(p, pr[p], done) \in PrType /\ Validated(pr[p]) \in PrType
    BY FailTyped, LabelsTyped
  <2> QED BY <1>6, <2>1, <2>3 DEF SweepVerdict
<1>7. CASE SweepZombie(p)
  <2>1. PICK c \in Started(p) :
          LET s == With(Dispatched(pr[p], c), Arm) IN
          pr' = [pr EXCEPT ![p] = [s EXCEPT !.head.zombies = @ + 1, !.head.quiet = ZombieWindow]]
    BY <1>7 DEF SweepZombie
  <2> DEFINE d == Dispatched(pr[p], c)
             t == With(d, Arm)
             h == [t.head EXCEPT !.zombies = @ + 1, !.quiet = ZombieWindow]
  <2>2. d \in PrType /\ d.head.zombies = pr[p].head.zombies
    <3>1. d \in PrType
      BY <2>1, DispatchedTyped DEF Started
    <3>2. d.head.zombies = pr[p].head.zombies
      BY DEF Dispatched, PrType, HeadType
    <3> QED BY <3>1, <3>2
  <2> HIDE DEF d
  <2>3. t \in PrType /\ t.head.zombies = pr[p].head.zombies
    BY <2>2, LabelsTyped DEF With, PrType
  <2>4. pr[p].head.zombies < ZombieCap
    BY <1>7 DEF SweepZombie, ZombieDue, ZombiesLeft
  <2>8. pr' = [pr EXCEPT ![p] = [t EXCEPT !.head.zombies = @ + 1, !.head.quiet = ZombieWindow]]
    BY <2>1 DEF t, d
  <2> HIDE DEF t
  <2>5. h \in HeadType
    <3>1. t.head \in HeadType /\ pr[p].head.zombies \in 0 .. ZombieCap
      BY <2>3 DEF PrType, HeadType
    <3>2. t.head.zombies + 1 \in 0 .. ZombieCap /\ ZombieWindow \in 0 .. ZombieWindow
      BY <2>3, <2>4, <3>1, Caps
    <3> QED BY <3>1, <3>2 DEF HeadType
  <2>6. [t EXCEPT !.head.zombies = @ + 1, !.head.quiet = ZombieWindow] = [t EXCEPT !.head = h]
    BY <2>3 DEF PrType
  <2>7. [t EXCEPT !.head = h] \in PrType
    BY <2>3, <2>5 DEF PrType
  <2> QED BY <1>7, <2>6, <2>7, <2>8 DEF SweepZombie
<1>7b. CASE SweepThrows(p)
  BY <1>7b, LabelsTyped DEF SweepThrows
<1>8. CASE SweepPark(p)
  <2>1. Without(pr[p], Arm) \in PrType
    BY LabelsTyped
  <2>2. Parked(Without(pr[p], Arm)) \in PrType
    BY <2>1, LabelsTyped
  <2> QED BY <1>8, <2>1, <2>2 DEF SweepPark
<1>9. CASE SweepKeeps(p)
  BY <1>9 DEF SweepKeeps
<1>10. CASE PassOver(p)
  <2>1. pr' = pr \/ pr' = [pr EXCEPT ![p] = Entered(p)]
          \/ \E ci \in Probes(p) : pr' = [pr EXCEPT ![p] = Stripped(p, ci)]
    BY <1>10 DEF PassOver
  <2> QED BY <1>10, <2>1, EnteredTyped DEF PassOver
<1>11. CASE ResetInvisible(p)
  <2>1. Entered(p) \in PrType
    BY EnteredTyped
  <2> DEFINE t == Pushed(Entered(p), "machine")
  <2>2. t \in PrType /\ t.resets = Entered(p).resets
    BY <2>1, PushedTyped DEF Pushed, PrType
  <2> HIDE DEF t
  <2>3. pr' = [pr EXCEPT ![p] = IF Entered(p).resets < ResetCap
                                THEN [t EXCEPT !.resets = @ + 1] ELSE Entered(p)]
    BY <1>11 DEF ResetInvisible, t
  <2>4. Entered(p).resets < ResetCap => [t EXCEPT !.resets = @ + 1] \in PrType
    BY <2>2, ResetTyped
  <2> QED BY <1>11, <2>1, <2>3, <2>4 DEF ResetInvisible
<1>12. CASE FastPath(p)
  <2>1. Entered(p) \in PrType /\ Validated(Entered(p)) \in PrType
    BY EnteredTyped, LabelsTyped
  <2> QED BY <1>12, <2>1, MergeTyped DEF FastPath
<1>13. CASE ConcludeGhosts(p)
  <2>1. [Entered(p) EXCEPT !.head.ghost = "none"] \in PrType
    BY EnteredTyped, ResetTyped
  <2> QED BY <1>13, <2>1, MergeTyped DEF ConcludeGhosts
<1>14. CASE ResetPlaceholder(p)
  <2>1. PICK ci \in Probes(p) :
          IF pr[p].resets < ResetCap /\ PoolFree
          THEN /\ \E c \in Started(p) :
                    pr' = [pr EXCEPT ![p] = [With(Dispatched(Pushed(Stripped(p, ci), "machine"), c), Arm)
                                               EXCEPT !.resets = @ + 1]]
               /\ Acted(p)
          ELSE pr' = [pr EXCEPT ![p] = Stripped(p, ci)] /\ Skipped(p)
    BY <1>14 DEF ResetPlaceholder
  <2>2. Stripped(p, ci) \in PrType
    BY EnteredTyped
  <2>3. CASE pr[p].resets < ResetCap /\ PoolFree
    <3>1. PICK c \in Started(p) :
            pr' = [pr EXCEPT ![p] = [With(Dispatched(Pushed(Stripped(p, ci), "machine"), c), Arm)
                                       EXCEPT !.resets = @ + 1]]
      BY <2>1, <2>3
    <3>2. c \in {"active", "none"}
      BY <3>1 DEF Started
    <3>3. Stripped(p, ci).resets = pr[p].resets
      BY DEF Stripped, Entered, Unparked, Without, PrType
    <3> DEFINE a == Pushed(Stripped(p, ci), "machine")
               b == Dispatched(a, c)
               d == With(b, Arm)
    <3>4. a \in PrType /\ a.resets = pr[p].resets
      BY <2>2, <3>3, PushedTyped DEF Pushed, PrType
    <3> HIDE DEF a
    <3>5. b \in PrType /\ b.resets = pr[p].resets
      BY <3>2, <3>4, DispatchedTyped DEF Dispatched, PrType
    <3> HIDE DEF b
    <3>6. d \in PrType /\ d.resets = pr[p].resets
      BY <3>5, LabelsTyped DEF With, PrType
    <3> HIDE DEF d
    <3>7. [d EXCEPT !.resets = @ + 1] \in PrType
      BY <2>3, <3>6, ResetTyped
    <3>8. pr' = [pr EXCEPT ![p] = [d EXCEPT !.resets = @ + 1]]
      BY <3>1 DEF a, b, d
    <3> QED BY <1>14, <2>1, <2>3, <3>7, <3>8 DEF ResetPlaceholder
  <2>4. CASE ~ (pr[p].resets < ResetCap /\ PoolFree)
    BY <1>14, <2>1, <2>2, <2>4 DEF ResetPlaceholder
  <2> QED BY <2>3, <2>4
<1>15. CASE Dispatch(p)
  <2>1. PICK ci \in Probes(p), c \in Started(p) :
          pr' = [pr EXCEPT ![p] = With(Dispatched([Stripped(p, ci) EXCEPT !.head.ghost = "none"], c), Arm)]
    BY <1>15 DEF Dispatch
  <2> DEFINE s == [Stripped(p, ci) EXCEPT !.head.ghost = "none"]
  <2>2. s \in PrType
    BY EnteredTyped, ResetTyped
  <2> HIDE DEF s
  <2>3. c \in {"active", "none"}
    BY <2>1 DEF Started
  <2>4. Dispatched(s, c) \in PrType
    BY <2>2, <2>3, DispatchedTyped
  <2>5. With(Dispatched(s, c), Arm) \in PrType
    BY <2>4, LabelsTyped
  <2> QED BY <1>15, <2>1, <2>5 DEF Dispatch, s
<1>16. CASE DispatchThrows(p)
  <2>1. PICK ci \in Probes(p) : pr' = [pr EXCEPT ![p] = [Stripped(p, ci) EXCEPT !.head.ghost = "none"]]
    BY <1>16 DEF DispatchThrows
  <2>2. [Stripped(p, ci) EXCEPT !.head.ghost = "none"] \in PrType
    BY EnteredTyped, ResetTyped
  <2> QED BY <1>16, <2>1, <2>2 DEF DispatchThrows
<1>17. CASE Complete(p)
  BY <1>17, LabelsTyped DEF Complete
<1> QED BY <1>1, <1>2, <1>3, <1>4, <1>5, <1>6, <1>7, <1>7b, <1>8, <1>9, <1>10, <1>11, <1>12,
           <1>13, <1>14, <1>15, <1>16, <1>17 DEF Handle

-----------------------------------------------------------------------------
(* Queries and the outside world. *)

\* The view a query works on: the cached list, or the live labels.
View == IF list = NoList THEN LiveLabels ELSE list

\* It has a label set for every PR.
LEMMA ViewTyped ==
    ASSUME TypeOK
    PROVE  View \in Lists /\ LiveLabels \in Lists
<1>1. ASSUME NEW q \in PRs PROVE (IF pr[q].open THEN pr[q].labels ELSE {}) \in SUBSET Labels
  BY DEF TypeOK, PrType
<1>2. LiveLabels \in Lists
  BY <1>1 DEF LiveLabels, Lists
<1> QED BY <1>2 DEF View, TypeOK, Lists

\* A query's result: the PRs it matched with the labels of the view, or nothing.
Result(h, k, m) ==
    /\ k \in {NoList, View}
    /\ m = {q \in Open : Wanted(Current, View[q], q) /\ MutexLets(Current, h, q)}
    /\ \/ m = {} /\ Leave(k, moved)
       \/ /\ m # {} /\ todo' = Tickets(View, m) /\ list' = k /\ rule' = rule /\ moved' = moved
          /\ slots' = slots /\ acted' = acted

\* What a query leaves.
LEMMA QueryGives ==
    ASSUME TypeOK, Query
    PROVE  env' = env /\ pr' = pr /\ \E h, k, m : Result(h, k, m)
<1>1. PICK live \in Reads :
        LET phantom == /\ Current = "arm" /\ live
                       /\ Cardinality(Holders(View)) >= slots
                       /\ Holders(View) # Holders(LiveLabels)
            holders == IF phantom THEN Holders(LiveLabels) ELSE Holders(View)
            matched == {q \in Open : Wanted(Current, View[q], q) /\ MutexLets(Current, holders, q)}
            kept == IF phantom THEN NoList ELSE View
        IN IF matched = {} THEN Leave(kept, moved)
           ELSE todo' = Tickets(View, matched) /\ list' = kept /\ UNCHANGED <<rule, moved, slots, acted>>
  BY DEF Query, View
<1> DEFINE phantom == /\ Current = "arm" /\ live
                      /\ Cardinality(Holders(View)) >= slots
                       /\ Holders(View) # Holders(LiveLabels)
           holders == IF phantom THEN Holders(LiveLabels) ELSE Holders(View)
           matched == {q \in Open : Wanted(Current, View[q], q) /\ MutexLets(Current, holders, q)}
           kept == IF phantom THEN NoList ELSE View
<1>2. IF matched = {} THEN Leave(kept, moved)
      ELSE /\ todo' = Tickets(View, matched) /\ list' = kept /\ rule' = rule /\ moved' = moved
           /\ slots' = slots /\ acted' = acted
  BY <1>1
<1>3. kept \in {NoList, View}
  OBVIOUS
<1>4. env' = env /\ pr' = pr
  BY DEF Query
<1>5. matched = {q \in Open : Wanted(Current, View[q], q) /\ MutexLets(Current, holders, q)}
  OBVIOUS
<1> HIDE DEF matched, kept, holders
<1>6. \/ matched = {} /\ Leave(kept, moved)
      \/ /\ matched # {} /\ todo' = Tickets(View, matched) /\ list' = kept /\ rule' = rule /\ moved' = moved
         /\ slots' = slots /\ acted' = acted
  BY <1>2
<1>7. Result(holders, kept, matched)
  BY <1>3, <1>5, <1>6 DEF Result
<1> QED BY <1>4, <1>7

\* A query.
LEMMA QueryTyped ==
    ASSUME TypeOK, Query
    PROVE  TypeOK'
<1>1. PICK holders, kept, matched : Result(holders, kept, matched)
  BY QueryGives
<1>2. kept = NoList \/ kept \in Lists
  BY <1>1, ViewTyped DEF Result
<1>3. matched \subseteq PRs
  BY <1>1 DEF Open, Result
<1>4. moved \in SUBSET PRs /\ rule \in 0 .. LastRule /\ slots \in 1 .. Concurrency /\ acted \in 0 .. slots - 1
           /\ (rule = 0 => slots = 1)
  BY DEF TypeOK
<1>5. CASE Leave(kept, moved)
  BY <1>2, <1>4, <1>5, LeaveTyped, QueryGives, TypeParts, TypePartsNext
<1>6. CASE /\ todo' = Tickets(View, matched) /\ list' = kept /\ rule' = rule /\ moved' = moved
           /\ slots' = slots /\ acted' = acted
  <2>1. DOMAIN todo' = matched /\ \A q \in matched : todo'[q] = View[q]
    BY <1>6, TicketsAre
  <2>2. \A q \in PRs : View[q] \subseteq Labels
    BY ViewTyped DEF Lists
  <2>3. WalkOK'
    BY <1>2, <1>3, <1>4, <1>6, <2>1, <2>2 DEF WalkOK
  <2> QED BY <2>3, QueryGives, TypeParts, TypePartsNext
<1> QED BY <1>1, <1>5, <1>6 DEF Result

\* CI, people, time, the cache.
LEMMA EnvironmentTyped ==
    ASSUME TypeOK, Environment
    PROVE  TypeOK'
<1> pr \in [PRs -> PrType]
  BY DEF TypeOK
<1>1. CASE Elapse
  <2>1. ASSUME NEW s \in PrType PROVE Aged(s) \in PrType
    <3> DEFINE h == [s.head EXCEPT !.old = Concluded(s.head), !.quiet = IF @ > 0 THEN @ - 1 ELSE 0]
    <3>1. s.head \in HeadType /\ s.head.quiet \in 0 .. ZombieWindow
      BY DEF PrType, HeadType
    <3>2. (IF s.head.quiet > 0 THEN s.head.quiet - 1 ELSE 0) \in 0 .. ZombieWindow
      BY <3>1, Caps
    <3>3. Concluded(s.head) \in BOOLEAN
      BY DEF Concluded
    <3>4. h \in HeadType
      BY <3>1, <3>2, <3>3 DEF HeadType
    <3>5. Aged(s) = [s EXCEPT !.head = h]
      BY DEF Aged
    <3> HIDE DEF h
    <3> QED BY <3>4, <3>5 DEF PrType
  <2>2. pr' = [p \in PRs |-> IF pr[p].open THEN Aged(pr[p]) ELSE pr[p]]
    BY <1>1 DEF Elapse
  <2>3. pr' \in [PRs -> PrType]
    BY <2>1, <2>2
  <2> QED BY <1>1, <2>3 DEF Elapse, Outside, TypeOK
<1>2. CASE CacheExpires
  BY <1>2 DEF CacheExpires, TypeOK
<1>3. CASE TickDies
  <2>1. rule' = 0 /\ list' = NoList /\ todo' = NoTickets /\ moved' = {} /\ slots' = 1 /\ acted' = 0
    BY <1>3 DEF TickDies, TickEnds
  <2>2. DOMAIN todo' = {}
    BY <2>1, NoTicketsEmpty
  <2>3. WalkOK'
    BY <2>1, <2>2, RuleCount, Caps DEF WalkOK
  <2> QED BY <1>3, <2>3, TypeParts, TypePartsNext DEF TickDies
<1>4. ASSUME NEW p \in PRs, RunEnds(p) \/ Push(p) \/ BaseMoves(p) \/ Approve(p) \/ Ghost(p)
      PROVE  TypeOK'
  <2>1. pr[p] \in PrType /\ pr[p].head \in HeadType
    BY DEF PrType
  <2>2. CASE RunEnds(p)
    <3>1. PICK c \in {"green", "red", "cancelled"} :
            LET h == pr[p].head
                streak == CASE c = "green" -> 0
                            [] c = "red" /\ h.streak <= ParkCap -> h.streak + 1
                            [] OTHER -> h.streak
            IN pr' = [pr EXCEPT ![p].head = [h EXCEPT !.ci = c, !.old = FALSE, !.streak = streak]]
      BY <2>2 DEF RunEnds
    <3> DEFINE k == CASE c = "green" -> 0
                      [] c = "red" /\ pr[p].head.streak <= ParkCap -> pr[p].head.streak + 1
                      [] OTHER -> pr[p].head.streak
               h == [pr[p].head EXCEPT !.ci = c, !.old = FALSE, !.streak = k]
    <3>2. pr[p].head.streak \in 0 .. ParkCap + 1
      BY <2>1 DEF HeadType
    <3>3. k \in 0 .. ParkCap + 1
      BY <3>2, Caps
    <3>4. pr' = [pr EXCEPT ![p] = [pr[p] EXCEPT !.head = h]]
      BY <3>1
    <3> HIDE DEF k
    <3>5. h \in HeadType
      BY <2>1, <3>3 DEF HeadType
    <3>6. [pr[p] EXCEPT !.head = h] \in PrType
      BY <2>1, <3>5 DEF PrType
    <3> QED BY <2>2, <3>4, <3>6 DEF RunEnds, Outside, TypeOK
  <2>3. CASE Push(p)
    BY <2>1, <2>3, PushedTyped DEF Push, Outside, TypeOK
  <2>4. CASE BaseMoves(p)
    <3>1. PICK b \in {"behind", "dirty"} : pr' = [pr EXCEPT ![p] = [pr[p] EXCEPT !.base = b]]
      BY <2>4 DEF BaseMoves
    <3>2. [pr[p] EXCEPT !.base = b] \in PrType
      BY <2>1, <3>1 DEF PrType
    <3> QED BY <2>4, <3>1, <3>2 DEF BaseMoves, Outside, TypeOK
  <2>5. CASE Approve(p)
    BY <2>1, <2>5, LabelsTyped, LabelNames DEF Approve, Outside, TypeOK
  <2>6. CASE Ghost(p)
    <3>1. PICK g \in {"orphan", "placeholder"} :
            pr' = [pr EXCEPT ![p] = [pr[p] EXCEPT !.head = [pr[p].head EXCEPT !.ghost = g]]]
      BY <2>6 DEF Ghost
    <3>2. [pr[p].head EXCEPT !.ghost = g] \in HeadType
      BY <2>1, <3>1 DEF HeadType
    <3>3. [pr[p] EXCEPT !.head = [pr[p].head EXCEPT !.ghost = g]] \in PrType
      BY <2>1, <3>2 DEF PrType
    <3> QED BY <2>6, <3>1, <3>3 DEF Ghost, Outside, TypeOK
  <2> QED BY <1>4, <2>2, <2>3, <2>4, <2>5, <2>6
<1> QED BY <1>1, <1>2, <1>3, <1>4 DEF Environment

\* What the lane starts from.
LEMMA OpenedPRs ==
    ASSUME NEW A \in SUBSET PRs
    PROVE  /\ Opened(A) \in [PRs -> PrType]
           /\ \A q \in PRs : /\ Opened(A)[q].head = NewHead /\ Opened(A)[q].since = "same"
                             /\ Opened(A)[q].labels \subseteq {Approved}
<1>1. ASSUME NEW l \in SUBSET Labels PROVE Fresh(l) \in PrType
  BY NewHeadTyped, Caps DEF Fresh, PrType
<1>2. {Approved} \in SUBSET Labels /\ {} \in SUBSET Labels
  BY LabelNames
<1>3. ASSUME NEW p \in PRs
      PROVE /\ Fresh(IF p \in A THEN {Approved} ELSE {}) \in PrType
            /\ Closed(Fresh({})) \in PrType
  BY <1>1, <1>2, ClosedTyped
<1>4. Opened(A) \in [PRs -> PrType]
  BY <1>3 DEF Opened
<1>5. ASSUME NEW q \in PRs
      PROVE /\ Opened(A)[q].head = NewHead /\ Opened(A)[q].since = "same"
            /\ Opened(A)[q].labels \subseteq {Approved}
  <2>1. CASE q \in Queue \/ On("deep queue")
    <3>1. Opened(A)[q] = Fresh(IF q \in A THEN {Approved} ELSE {})
      BY <2>1 DEF Opened
    <3> QED BY <3>1 DEF Fresh
  <2>2. CASE ~ (q \in Queue \/ On("deep queue"))
    <3>1. Opened(A)[q] = Closed(Fresh({}))
      BY <2>2 DEF Opened
    <3> QED BY <3>1 DEF Fresh, Closed
  <2> QED BY <2>1, <2>2
<1> QED BY <1>4, <1>5

\* The first state.
LEMMA InitTyped == Init => TypeOK
<1>1. ASSUME Init PROVE pr \in [PRs -> PrType]
  BY <1>1, OpenedPRs DEF Init
<1>2. Init => WalkOK
  BY NoTicketsEmpty, RuleCount, Caps DEF Init, WalkOK
<1> QED BY <1>1, <1>2, TypeParts DEF Init

\* One step.
LEMMA NextTyped == TypeOK /\ [Next]_vars => TypeOK'
<1> SUFFICES ASSUME TypeOK, [Next]_vars PROVE TypeOK'
  OBVIOUS
<1>1. CASE StartTick
  <2>1. 1 \in 0 .. LastRule
    BY RuleCount
  <2>2. slots' \in 1 .. Concurrency /\ (list' = list \/ list' \in Lists)
    <3>1. ApprovedQueue \in SUBSET PRs
      BY DEF ApprovedQueue, Open
    <3>2. SlotsFor(Cardinality(ApprovedQueue)) \in 1 .. Concurrency
      BY <3>1, FiniteCounts, SlotsGrow
    <3> QED BY <1>1, <3>2, ViewTyped DEF StartTick, TypeOK
  <2>3. acted' = 0
    BY <1>1 DEF StartTick, TypeOK
  <2>4. WalkOK'
    <3>1. rule' = 1 /\ todo' = todo /\ moved' = moved /\ 1 # 0
      BY <1>1 DEF StartTick
    <3>2. slots' \in Nat /\ slots' >= 1
      <4>1. Concurrency \in Nat
        BY Caps
      <4> QED BY <2>2, <4>1
    <3>3. acted' \in 0 .. slots' - 1
      <4>1. ASSUME NEW n \in Nat, n >= 1 PROVE 0 \in 0 .. n - 1
        BY <4>1
      <4>2. 0 \in 0 .. slots' - 1
        BY <3>2, <4>1
      <4> QED BY <2>3, <4>2, Zenon
    <3> QED BY <2>1, <2>2, <3>1, <3>3 DEF TypeOK, WalkOK, Lists
  <2> QED BY <1>1, <2>4, TypeParts, TypePartsNext DEF StartTick
<1>2. CASE Query
  BY <1>2, QueryTyped
<1>3. ASSUME NEW p \in PRs, Handle(p) PROVE TypeOK'
  BY <1>3, HandleTyped
<1>4. CASE Environment
  BY <1>4, EnvironmentTyped
<1>5. CASE UNCHANGED vars
  BY <1>5 DEF vars, TypeOK
<1> QED BY <1>1, <1>2, <1>3, <1>4, <1>5 DEF Next, Tick

\* The lane keeps its types: the counters of a head stay within the caps of the
\* code, and the tick walks a list of known PRs.
THEOREM TypeCorrect == Spec => []TypeOK
<1>1. Init => TypeOK
  BY InitTyped
<1>2. TypeOK /\ [Next]_vars => TypeOK'
  BY NextTyped
<1> QED BY <1>1, <1>2, PTL DEF Spec

-----------------------------------------------------------------------------
(* The slots.  The arm is given on a live read of the holders; the reads   *)
(* that came before it are only trusted for one label, pr_approved, which  *)
(* no rule of the tick touches.                                            *)

Calm == Undisturbed({"approvals", "failed probes"})

Room == SlotsFor(Cardinality(EverApproved))

FewHolders == Cardinality(Holders(LiveLabels)) <= Room

\* A tick never works with more slots than the approvals give.
SlotsGiven == slots <= Room

\* What the tick has read of the label pr_approved still holds of open PRs.
ApprovalsKnown ==
    /\ \A q \in DOMAIN todo : pr[q].open /\ (Approved \in todo[q] <=> Approved \in pr[q].labels)
    /\ list # NoList => \A q \in PRs : pr[q].open => (Approved \in list[q] <=> Approved \in pr[q].labels)

\* The rules for fresh PRs, which do not ask for the mutex, visit no approved one.
FreshUnapproved ==
    rule # 0 /\ Current \in {"fresh", "fresh green"} => \A q \in DOMAIN todo : Approved \notin todo[q]

\* Up to the sweep, an approved PR that was read as armed still is: the zombie
\* sweep re-arms what it re-dispatches without asking for the mutex.
ArmsRead ==
    rule <= 7 =>
      /\ \A q \in DOMAIN todo : {Arm, Approved} \subseteq todo[q] => Arm \in pr[q].labels
      /\ list # NoList => \A q \in PRs : pr[q].open /\ {Arm, Approved} \subseteq list[q] => Arm \in pr[q].labels

SweptArmed == rule = 7 => \A q \in DOMAIN todo : Arm \in todo[q]

MutexInv == Calm => FewHolders /\ SlotsGiven /\ ApprovalsKnown /\ FreshUnapproved /\ ArmsRead /\ SweptArmed

\* A handler changes the labels of its own PR only, and pr_approved not at all.
Keeps(p) ==
    /\ \A q \in PRs : q # p => pr'[q].open = pr[q].open /\ pr'[q].labels = pr[q].labels
    /\ pr'[p].open => pr[p].open /\ (Approved \in pr'[p].labels <=> Approved \in pr[p].labels)

NoNewArm(p) == Arm \in pr'[p].labels => Arm \in pr[p].labels

\* The label operators, on the labels they do not name.
LEMMA LabelEffects ==
    ASSUME NEW s \in PrType, NEW l \in Labels
    PROVE  /\ Without(s, l).labels = s.labels \ {l} /\ Without(s, l).open = s.open
           /\ With(s, l).labels = s.labels \cup {l} /\ With(s, l).open = s.open
           /\ Validated(s).labels = (s.labels \ {Arm}) \cup {Latch} /\ Validated(s).open = s.open
           /\ Unparked(s).labels = s.labels \ {Park} /\ Unparked(s).open = s.open
           /\ Parked(s).labels = s.labels \cup {Park} /\ Parked(s).open = s.open
BY DEF Without, With, Validated, Unparked, Parked, PrType

\* Pushes and dispatches change no label.
LEMMA LabelFree ==
    ASSUME NEW s \in PrType, NEW who, NEW c
    PROVE  /\ Pushed(s, who).labels = s.labels /\ Pushed(s, who).open = s.open
           /\ Dispatched(s, c).labels = s.labels /\ Dispatched(s, c).open = s.open
           /\ [s EXCEPT !.head.ghost = "none"].labels = s.labels
           /\ [s EXCEPT !.head.ghost = "none"].open = s.open
BY DEF Pushed, Dispatched, PrType

\* s is p with labels changed as a handler may, and without a new arm.
Mild(p, s) ==
    /\ s.open = pr[p].open
    /\ Approved \in s.labels <=> Approved \in pr[p].labels
    /\ Arm \in s.labels => Arm \in pr[p].labels

\* Such a replacement keeps.
LEMMA MildKeeps ==
    ASSUME pr \in [PRs -> PrType], NEW p \in PRs, NEW s, Mild(p, s), pr' = [pr EXCEPT ![p] = s]
    PROVE  Keeps(p) /\ NoNewArm(p)
BY DEF Mild, Keeps, NoNewArm

\* A PR on its way through validate_pr.
LEMMA EnteredMild ==
    ASSUME pr \in [PRs -> PrType], NEW p \in PRs, NEW ci
    PROVE  Mild(p, pr[p]) /\ Mild(p, Entered(p)) /\ Mild(p, Stripped(p, ci))
<1>1. pr[p] \in PrType /\ Entered(p) \in PrType
  BY EnteredTyped
<1>2. Mild(p, Entered(p))
  BY <1>1, LabelEffects, LabelNames DEF Entered, Mild
<1>3. Mild(p, Without(Entered(p), Latch))
  BY <1>1, <1>2, LabelEffects, LabelNames DEF Mild
<1> QED BY <1>2, <1>3 DEF Stripped, Mild

\* A merge, tried on a PR the handler has treated mildly.
LEMMA MergeKeeps ==
    ASSUME pr \in [PRs -> PrType], NEW p \in PRs, NEW s \in PrType, NEW refused,
           Mild(p, s), Mild(p, refused), pr' = MergeAttempt(p, s, refused)
    PROVE  Keeps(p) /\ NoNewArm(p)
<1>1. CASE Approved \notin s.labels
  <2>1. Mild(p, Validated(s))
    BY LabelEffects, LabelNames DEF Mild
  <2> QED BY <1>1, <2>1, MildKeeps DEF MergeAttempt
<1>2. CASE Approved \in s.labels /\ Clean(p, s)
  <2>1. pr' = Merged(p)
    BY <1>2 DEF MergeAttempt
  <2>2. pr'[p] = Closed(pr[p]) /\ \A q \in PRs : q # p => pr'[q] = Outdated(pr[q])
    BY <2>1 DEF Merged
  <2>3. ~ pr'[p].open /\ pr'[p].labels = {}
    BY <2>2 DEF Closed, PrType
  <2>4. ASSUME NEW q \in PRs PROVE Outdated(pr[q]).open = pr[q].open /\ Outdated(pr[q]).labels = pr[q].labels
    BY DEF Outdated, PrType
  <2> QED BY <2>2, <2>3, <2>4 DEF Keeps, NoNewArm
<1>3. CASE Approved \in s.labels /\ ~ Clean(p, s)
  BY <1>3, MildKeeps DEF MergeAttempt
<1> QED BY <1>1, <1>2, <1>3

\* Every handler keeps; only a decided dispatch and the zombie sweep arm.
LEMMA HandleKeeps ==
    ASSUME TypeOK, NEW p \in PRs, Handle(p)
    PROVE  Keeps(p) /\ (NoNewArm(p) \/ ZombieDue(p)
                                    \/ \E ci \in Probes(p) : Decided(p, "dispatch", ci)
                                                           \/ Decided(p, "reset and dispatch", ci))
<1> pr \in [PRs -> PrType] /\ pr[p] \in PrType
  BY DEF TypeOK
<1> USE LabelNames
<1>b. ASSUME pr' = pr PROVE Keeps(p) /\ NoNewArm(p)
  BY <1>b DEF Keeps, NoNewArm
<1>1. CASE Rerun(p)
  <2>1. pr' = pr \/ pr' = [pr EXCEPT ![p] = [pr[p] EXCEPT !.head = [pr[p].head EXCEPT !.ci = "active", !.old = FALSE, !.rerun = TRUE]]]
    BY <1>1 DEF Rerun
  <2>2. Mild(p, [pr[p] EXCEPT !.head = [pr[p].head EXCEPT !.ci = "active", !.old = FALSE, !.rerun = TRUE]])
    BY DEF Mild, PrType
  <2> QED BY <2>1, <2>2, <1>b, MildKeeps
<1>2. CASE Unarm(p)
  <2>1. Mild(p, Validated(pr[p])) /\ Mild(p, Without(pr[p], Arm))
    BY LabelEffects DEF Mild
  <2>2. pr' = [pr EXCEPT ![p] = Validated(pr[p])] \/ pr' = [pr EXCEPT ![p] = Without(pr[p], Arm)]
    BY <1>2 DEF Unarm
  <2> QED BY <2>1, <2>2, MildKeeps
<1>3. CASE UpdateBranch(p)
  <2> DEFINE s == ParkReviewed(p, pr[p])
  <2>1. s \in {pr[p], Unparked(pr[p]), Parked(pr[p])}
    BY DEF ParkReviewed
  <2>2. Unparked(pr[p]) \in PrType /\ Parked(pr[p]) \in PrType
    BY LabelsTyped
  <2>3. Mild(p, Unparked(pr[p])) /\ Mild(p, Parked(pr[p])) /\ Mild(p, pr[p])
    BY LabelEffects DEF Mild
  <2> HIDE DEF s
  <2>4. s \in PrType /\ Mild(p, s)
    BY <2>1, <2>2, <2>3
  <2>5. Mild(p, Pushed(s, "machine"))
    BY <2>4, LabelFree DEF Mild
  <2>6. pr' = [pr EXCEPT ![p] = Pushed(s, "machine")] \/ pr' = [pr EXCEPT ![p] = s]
    BY <1>3 DEF UpdateBranch, s
  <2> QED BY <2>4, <2>5, <2>6, MildKeeps
<1>4. CASE Merge(p)
  BY <1>4, MergeKeeps, EnteredMild DEF Merge
<1>5. ASSUME NEW done PROVE Mild(p, FailReported(p, pr[p], done))
  <2>1. PICK t \in {pr[p], Without(pr[p], Arm)} :
          FailReported(p, pr[p], done) \in {t, Counted(t), Parked(Counted(t))}
    BY FailIs
  <2>2. t \in PrType /\ Mild(p, t)
    BY LabelsTyped, LabelEffects DEF Mild
  <2>3. Counted(t) \in PrType /\ Mild(p, Counted(t))
    BY <2>2, CountedTyped DEF Mild
  <2>4. Mild(p, Parked(Counted(t)))
    BY <2>3, LabelEffects DEF Mild
  <2> QED BY <2>1, <2>2, <2>3, <2>4
<1>6. CASE FailValidation(p)
  <2>1. PICK done \in Writes : pr' = [pr EXCEPT ![p] = FailReported(p, pr[p], done)]
    BY <1>6 DEF FailValidation
  <2> QED BY <1>5, <2>1, MildKeeps
<1>7. CASE SweepVerdict(p)
  <2>1. PICK done \in Writes : \/ pr' = [pr EXCEPT ![p] = Validated(pr[p])]
                              \/ pr' = [pr EXCEPT ![p] = FailReported(p, pr[p], done)]
    BY <1>7 DEF SweepVerdict
  <2>2. Mild(p, Validated(pr[p]))
    BY LabelEffects DEF Mild
  <2> QED BY <1>5, <2>1, <2>2, MildKeeps
<1>8. CASE SweepZombie(p)
  <2>1. PICK c \in Started(p) :
          LET s == With(Dispatched(pr[p], c), Arm) IN
          pr' = [pr EXCEPT ![p] = [s EXCEPT !.head.zombies = @ + 1, !.head.quiet = ZombieWindow]]
    BY <1>8 DEF SweepZombie
  <2> DEFINE d == Dispatched(pr[p], c)
             t == With(d, Arm)
             u == [t EXCEPT !.head.zombies = @ + 1, !.head.quiet = ZombieWindow]
  <2>2. d \in PrType /\ d.open = pr[p].open /\ d.labels = pr[p].labels
    BY <2>1, DispatchedTyped, LabelFree DEF Started
  <2> HIDE DEF d
  <2>3. t \in PrType /\ t.open = pr[p].open /\ t.labels = pr[p].labels \cup {Arm}
    <3>1. t \in PrType
      BY <2>2, LabelsTyped
    <3>2. t.open = d.open /\ t.labels = d.labels \cup {Arm}
      BY <2>2, LabelEffects
    <3> QED BY <2>2, <3>1, <3>2
  <2>4. pr' = [pr EXCEPT ![p] = u]
    BY <2>1 DEF d
  <2> HIDE DEF t
  <2>5. u.open = pr[p].open /\ u.labels = pr[p].labels \cup {Arm}
    BY <2>3 DEF PrType
  <2> HIDE DEF u
  <2> QED BY <1>8, <2>4, <2>5 DEF Keeps, SweepZombie
<1>8b. CASE SweepThrows(p)
  <2> DEFINE t == With(pr[p], Arm)
  <2>1. t.open = pr[p].open /\ t.labels = pr[p].labels \cup {Arm}
    BY LabelEffects
  <2>2. pr' = [pr EXCEPT ![p] = t]
    BY <1>8b DEF SweepThrows
  <2> HIDE DEF t
  <2> QED BY <1>8b, <2>1, <2>2 DEF Keeps, SweepThrows
<1>9. CASE SweepPark(p)
  <2>1. Without(pr[p], Arm) \in PrType
    BY LabelsTyped
  <2>2. Mild(p, Without(pr[p], Arm)) /\ Mild(p, Parked(Without(pr[p], Arm)))
    BY <2>1, LabelEffects DEF Mild
  <2>3. \/ pr' = [pr EXCEPT ![p] = Parked(Without(pr[p], Arm))]
        \/ pr' = [pr EXCEPT ![p] = Without(pr[p], Arm)]
    BY <1>9 DEF SweepPark
  <2> QED BY <2>2, <2>3, MildKeeps
<1>10. CASE SweepKeeps(p)
  BY <1>10, <1>b DEF SweepKeeps
<1>11. CASE PassOver(p)
  <2>1. pr' = pr \/ pr' = [pr EXCEPT ![p] = Entered(p)]
          \/ \E ci \in Probes(p) : pr' = [pr EXCEPT ![p] = Stripped(p, ci)]
    BY <1>11 DEF PassOver
  <2> QED BY <1>b, <2>1, EnteredMild, MildKeeps
<1>12. CASE ResetInvisible(p)
  <2> DEFINE t == Pushed(Entered(p), "machine")
  <2>1. t \in PrType /\ Mild(p, t) /\ Mild(p, Entered(p))
    BY EnteredTyped, EnteredMild, PushedTyped, LabelFree DEF Mild
  <2>2. \/ pr' = [pr EXCEPT ![p] = [t EXCEPT !.resets = @ + 1]]
        \/ pr' = [pr EXCEPT ![p] = Entered(p)]
    BY <1>12 DEF ResetInvisible
  <2> HIDE DEF t
  <2>3. Mild(p, [t EXCEPT !.resets = @ + 1])
    BY <2>1 DEF Mild, PrType
  <2> QED BY <2>1, <2>2, <2>3, MildKeeps
<1>13. CASE FastPath(p)
  <2>1. Entered(p) \in PrType /\ Mild(p, Entered(p))
    BY EnteredTyped, EnteredMild
  <2>2. Mild(p, Validated(Entered(p)))
    BY <2>1, LabelEffects DEF Mild
  <2> QED BY <1>13, <2>1, <2>2, MergeKeeps DEF FastPath
<1>14. CASE ConcludeGhosts(p)
  <2> DEFINE s == [Entered(p) EXCEPT !.head.ghost = "none"]
  <2>1. s \in PrType /\ Mild(p, s)
    BY EnteredTyped, EnteredMild, ResetTyped, LabelFree DEF Mild
  <2>2. pr' = MergeAttempt(p, s, s)
    BY <1>14 DEF ConcludeGhosts
  <2> QED BY <2>1, <2>2, MergeKeeps
<1>15. CASE ResetPlaceholder(p)
  <2>1. PICK ci \in Probes(p) :
          /\ Decided(p, "reset and dispatch", ci)
          /\ \/ pr' = [pr EXCEPT ![p] = Stripped(p, ci)]
             \/ \E c \in Started(p) :
                  pr' = [pr EXCEPT ![p] = [With(Dispatched(Pushed(Stripped(p, ci), "machine"), c), Arm)
                                             EXCEPT !.resets = @ + 1]]
    BY <1>15 DEF ResetPlaceholder
  <2>2. CASE pr' = [pr EXCEPT ![p] = Stripped(p, ci)]
    BY <2>2, EnteredMild, MildKeeps
  <2>3. ASSUME NEW c \in Started(p),
               pr' = [pr EXCEPT ![p] = [With(Dispatched(Pushed(Stripped(p, ci), "machine"), c), Arm)
                                          EXCEPT !.resets = @ + 1]]
        PROVE  Keeps(p)
    <3> DEFINE a == Pushed(Stripped(p, ci), "machine")
               b == Dispatched(a, c)
               d == With(b, Arm)
    <3>1. a \in PrType /\ Mild(p, a)
      BY EnteredTyped, EnteredMild, PushedTyped, LabelFree DEF Mild
    <3> HIDE DEF a
    <3>2. b \in PrType /\ Mild(p, b)
      BY <2>3, <3>1, DispatchedTyped, LabelFree DEF Mild, Started
    <3> HIDE DEF b
    <3>3. d \in PrType /\ d.open = pr[p].open /\ (Approved \in d.labels <=> Approved \in pr[p].labels)
      <4>1. d \in PrType
        BY <3>2, LabelsTyped
      <4>2. d.labels = b.labels \cup {Arm} /\ d.open = b.open
        BY <3>2, LabelEffects
      <4> HIDE DEF d
      <4> QED BY <3>2, <4>1, <4>2 DEF Mild
    <3>4. pr' = [pr EXCEPT ![p] = [d EXCEPT !.resets = @ + 1]]
      BY <2>3 DEF a, b
    <3> HIDE DEF d
    <3>5. [d EXCEPT !.resets = @ + 1].open = d.open /\ [d EXCEPT !.resets = @ + 1].labels = d.labels
      BY <3>3 DEF PrType
    <3> QED BY <3>3, <3>4, <3>5 DEF Keeps
  <2> QED BY <2>1, <2>2, <2>3
<1>16. CASE Dispatch(p)
  <2>1. PICK ci \in Probes(p), c \in Started(p) :
          /\ Decided(p, "dispatch", ci)
          /\ pr' = [pr EXCEPT ![p] = With(Dispatched([Stripped(p, ci) EXCEPT !.head.ghost = "none"], c), Arm)]
    BY <1>16 DEF Dispatch
  <2> DEFINE s == [Stripped(p, ci) EXCEPT !.head.ghost = "none"]
  <2>2. s \in PrType /\ Mild(p, s)
    BY EnteredTyped, EnteredMild, ResetTyped, LabelFree, ZenonT(30) DEF Mild
  <2> HIDE DEF s
  <2>3. Dispatched(s, c) \in PrType /\ Mild(p, Dispatched(s, c))
    BY <2>1, <2>2, DispatchedTyped, LabelFree DEF Mild, Started
  <2>4. pr' = [pr EXCEPT ![p] = With(Dispatched(s, c), Arm)]
    BY <2>1 DEF s
  <2>5. Keeps(p)
    BY <2>3, <2>4, LabelEffects DEF Keeps, Mild
  <2> QED BY <2>1, <2>5
<1>17. CASE DispatchThrows(p)
  <2>1. PICK ci \in Probes(p) : pr' = [pr EXCEPT ![p] = [Stripped(p, ci) EXCEPT !.head.ghost = "none"]]
    BY <1>17 DEF DispatchThrows
  <2>2. Mild(p, [Stripped(p, ci) EXCEPT !.head.ghost = "none"])
    BY EnteredTyped, EnteredMild, LabelFree DEF Mild
  <2> QED BY <2>1, <2>2, MildKeeps
<1>18. CASE Complete(p)
  <2>1. Mild(p, Validated(pr[p])) /\ pr' = [pr EXCEPT ![p] = Validated(pr[p])]
    BY <1>18, LabelEffects DEF Mild, Complete
  <2> QED BY <2>1, MildKeeps
<1> QED BY <1>1, <1>2, <1>3, <1>4, <1>6, <1>7, <1>8, <1>8b, <1>9, <1>10, <1>11, <1>12,
           <1>13, <1>14, <1>15, <1>16, <1>17, <1>18 DEF Handle

\* Who holds the label, PR by PR.
LEMMA HoldersAre ==
    ASSUME NEW q
    PROVE  /\ q \in Holders(LiveLabels) <=> q \in PRs /\ pr[q].open /\ {Arm, Approved} \subseteq pr[q].labels
           /\ (q \in Holders(LiveLabels))' <=> q \in PRs /\ pr'[q].open /\ {Arm, Approved} \subseteq pr'[q].labels
BY DEF Holders, LiveLabels

\* A dispatch that counts on the mutex has it.
LEMMA DecidedFree ==
    ASSUME Calm, NEW p \in PRs, NEW ci, NEW d \in {"dispatch", "reset and dispatch"}, Decided(p, d, ci)
    PROVE  /\ rule # 0 /\ p \in DOMAIN todo
           /\ \/ Current \in {"fresh", "fresh green"}
              \/ Cardinality(Holders(LiveLabels) \ {p}) < slots
              \/ p \in Holders(LiveLabels)
<1>1. PICK r \in Validating : /\ Visiting(r, p)
                              /\ \E free \in SlotAnswers(p, r) : Decision(p, r, ci, free) = d
  BY DEF Decided
<1>2. PICK free \in SlotAnswers(p, r) : Decision(p, r, ci, free) = d
  BY <1>1
<1>3. ~ Fails(p)
  BY DEF Calm, Undisturbed, Fails, On
<1>4. free = SlotFree(p, r)
  BY <1>2, <1>3 DEF SlotAnswers
<1>5. free
  BY <1>2, Zenon DEF Decision
<1>6. rule # 0 /\ Current = r /\ p \in DOMAIN todo
  BY <1>1 DEF Visiting
<1>7. r \notin MergePath => r \in {"fresh", "fresh green"}
  BY <1>1 DEF Validating
<1> QED BY <1>4, <1>5, <1>6, <1>7 DEF SlotFree

\* The walk after a visit: nothing is added to what the tick has still to visit.
LEMMA VisitedShrinks ==
    ASSUME NEW p, NEW counts, NEW kept \in {list, NoList}, NEW S, Visited(p, counts, kept, S)
    PROVE  /\ list' \in {kept, NoList} /\ slots' \in {slots, 1}
           /\ \/ DOMAIN todo' = {}
              \/ /\ rule' = rule /\ DOMAIN todo' \subseteq (DOMAIN todo) \ {p}
                 /\ \A q \in DOMAIN todo' : todo'[q] = todo[q]
<1> DEFINE rest == (DOMAIN todo) \ {p}
<1>1. CASE Leave(kept, S)
  <2>1. todo' = NoTickets /\ list' \in {kept, NoList} /\ slots' \in {slots, 1}
    BY <1>1 DEF Leave, TickEnds
  <2> QED BY <2>1, NoTicketsEmpty
<1>2. CASE todo' = Tickets(todo, rest) /\ list' = kept /\ rule' = rule /\ slots' = slots
  <2>1. DOMAIN todo' = rest /\ \A q \in rest : todo'[q] = todo[q]
    BY <1>2, TicketsAre
  <2> QED BY <1>2, <2>1
<1> QED BY <1>1, <1>2, VisitedIs

LEMMA WalkShrinks ==
    ASSUME NEW p, Acted(p) \/ ActedAndDropped(p) \/ Skipped(p)
             \/ \E S : Visited(p, TRUE, list, S)
    PROVE  /\ list' \in {list, NoList} /\ slots' \in {slots, 1}
           /\ \/ DOMAIN todo' = {}
              \/ /\ rule' = rule /\ DOMAIN todo' \subseteq (DOMAIN todo) \ {p}
                 /\ \A q \in DOMAIN todo' : todo'[q] = todo[q]
BY VisitedShrinks DEF Acted, ActedAndDropped, Skipped

\* A visit that leaves its rule for an earlier one ends the tick.
LEMMA LateLeaves ==
    ASSUME rule \in 0 .. LastRule, rule' # rule, rule' <= rule, NEW p,
           Acted(p) \/ ActedAndDropped(p) \/ Skipped(p) \/ \E S : Visited(p, TRUE, list, S)
    PROVE  rule' = 0 /\ list' = NoList /\ DOMAIN todo' = {}
<1>1. PICK counts, kept, S : Visited(p, counts, kept, S)
  BY DEF Acted, ActedAndDropped, Skipped
<1>2. Leave(kept, S)
  BY <1>1, VisitedIs
<1> QED BY <1>2, NoTicketsEmpty, RuleCount DEF Leave, TickEnds

\* Every visit ends in one of these.
LEMMA HandleWalks ==
    ASSUME NEW p, Handle(p)
    PROVE  /\ env' = env
           /\ Acted(p) \/ ActedAndDropped(p) \/ Skipped(p) \/ \E S : Visited(p, TRUE, list, S)
<1>1. CASE UpdateBranch(p)
  BY <1>1 DEF UpdateBranch
<1>2. CASE Rerun(p) \/ Unarm(p) \/ Merge(p) \/ FailValidation(p) \/ SweepVerdict(p) \/ SweepZombie(p) \/ SweepThrows(p)
  BY <1>2 DEF Rerun, Unarm, Merge, FailValidation, SweepVerdict, SweepZombie, SweepThrows
<1>3. CASE SweepPark(p) \/ SweepKeeps(p) \/ PassOver(p) \/ ResetInvisible(p) \/ FastPath(p) \/ ConcludeGhosts(p)
  BY <1>3 DEF SweepPark, SweepKeeps, PassOver, ResetInvisible, FastPath, ConcludeGhosts
<1>4. CASE ResetPlaceholder(p) \/ Dispatch(p) \/ DispatchThrows(p) \/ Complete(p)
  BY <1>4 DEF ResetPlaceholder, Dispatch, DispatchThrows, Complete
<1> QED BY <1>1, <1>2, <1>3, <1>4 DEF Handle

\* Up to the sweep an arm that goes from an approved PR takes the list with it.
LEMMA EarlyKeepsArm ==
    ASSUME TypeOK, NEW p \in PRs, Handle(p), rule <= 7, pr'[p].open, Approved \in pr[p].labels,
           Arm \in pr[p].labels, Arm \notin pr'[p].labels
    PROVE  list' = NoList
<1> pr \in [PRs -> PrType] /\ pr[p] \in PrType /\ rule \in 0 .. LastRule
  BY DEF TypeOK
<1> USE LabelNames
<1>1. ASSUME ActedAndDropped(p) PROVE list' = NoList
  BY <1>1, VisitedShrinks DEF ActedAndDropped
<1>2. CASE Unarm(p) \/ FailValidation(p) \/ SweepVerdict(p) \/ SweepZombie(p) \/ SweepThrows(p) \/ SweepPark(p)
  BY <1>1, <1>2 DEF Unarm, FailValidation, SweepVerdict, SweepZombie, SweepThrows, SweepPark
<1>3. CASE Rerun(p) \/ SweepKeeps(p)
  BY <1>3 DEF Rerun, SweepKeeps, PrType
<1>4. CASE UpdateBranch(p)
  <2> DEFINE s == ParkReviewed(p, pr[p])
  <2>1. s \in PrType /\ Arm \in s.labels
    <3>1. s \in {pr[p], Unparked(pr[p]), Parked(pr[p])}
      BY DEF ParkReviewed
    <3> QED BY <3>1, LabelsTyped, LabelEffects
  <2> HIDE DEF s
  <2>2. pr' = [pr EXCEPT ![p] = Pushed(s, "machine")] \/ pr' = [pr EXCEPT ![p] = s]
    BY <1>4 DEF UpdateBranch, s
  <2>3. Arm \in pr'[p].labels
    BY <2>1, <2>2, LabelFree
  <2> QED BY <2>3
<1>5. CASE Merge(p)
  <2>1. pr' = MergeAttempt(p, pr[p], pr[p])
    BY <1>5 DEF Merge
  <2>2. pr' = Merged(p) \/ pr' = pr
    BY <2>1 DEF MergeAttempt
  <2>3. ~ Closed(pr[p]).open
    BY DEF Closed, PrType
  <2>4. pr' = Merged(p) => pr'[p] = Closed(pr[p])
    BY DEF Merged
  <2> QED BY <2>2, <2>3, <2>4
<1>6. ASSUME NEW r \in Validating \cup {"complete"}, Visiting(r, p) PROVE FALSE
  <2>1. rule # 0 /\ Current = r
    BY <1>6 DEF Visiting
  <2>2. r \in {"arm", "rearm", "rearm green", "fresh", "fresh green", "complete"}
    BY DEF Validating, MergePath
  <2>3. rule \in {1, 2, 3, 4, 5, 6, 7}
    BY <2>1, RuleCount
  <2>4. Current \in {"rerun", "unarm", "refresh", "reset", "merge", "fail", "sweep"}
    <3>1. /\ Rules[1] = "rerun" /\ Rules[2] = "unarm" /\ Rules[3] = "refresh" /\ Rules[4] = "reset"
          /\ Rules[5] = "merge" /\ Rules[6] = "fail" /\ Rules[7] = "sweep"
      BY DEF Rules
    <3>2. \/ rule = 1 \/ rule = 2 \/ rule = 3 \/ rule = 4 \/ rule = 5 \/ rule = 6 \/ rule = 7
      BY <2>3
    <3> QED BY <3>1, <3>2 DEF Current
  <2> QED BY <2>1, <2>2, <2>4
<1>7. CASE PassOver(p) \/ ResetInvisible(p) \/ FastPath(p) \/ ConcludeGhosts(p) \/ ResetPlaceholder(p)
            \/ Dispatch(p) \/ DispatchThrows(p) \/ Complete(p)
  BY <1>6, <1>7 DEF PassOver, ResetInvisible, FastPath, ConcludeGhosts, ResetPlaceholder, Dispatch,
                   DispatchThrows, Complete, Decided
<1> QED BY <1>2, <1>3, <1>4, <1>5, <1>7 DEF Handle

\* The approvals stand, so the room does not shrink; it covers the queue.
LEMMA RoomGrows ==
    ASSUME \A q \in PRs : pr'[q].open => pr[q].open /\ (Approved \in pr'[q].labels <=> Approved \in pr[q].labels)
    PROVE  /\ Room \in Nat /\ Room' \in Nat /\ 1 <= Room /\ Room <= Room'
           /\ SlotsFor(Cardinality(ApprovedQueue)) <= Room
<1>1. /\ EverApproved \subseteq EverApproved' /\ EverApproved \in SUBSET PRs /\ EverApproved' \in SUBSET PRs
      /\ ApprovedQueue \subseteq EverApproved /\ ApprovedQueue \in SUBSET PRs
  BY DEF EverApproved, ApprovedQueue, Open
<1> DEFINE m == Cardinality(EverApproved)
           n == Cardinality(EverApproved')
           k == Cardinality(ApprovedQueue)
<1>2. m \in Nat /\ n \in Nat /\ k \in Nat /\ m <= n /\ k <= m
  BY <1>1, FiniteCounts, FS_Subset
<1>3. Room = SlotsFor(m) /\ Room' = SlotsFor(n)
  BY DEF Room, SlotsFor
<1> HIDE DEF m, n, k
<1>4. /\ SlotsFor(m) \in 1 .. Concurrency /\ SlotsFor(n) \in 1 .. Concurrency /\ SlotsFor(m) <= SlotsFor(n)
      /\ SlotsFor(k) <= SlotsFor(m)
  BY <1>2, SlotsGrow
<1>5. SlotsFor(Cardinality(ApprovedQueue)) <= Room
  BY <1>3, <1>4 DEF k
<1> QED BY <1>3, <1>4, <1>5, Caps

\* A tick has a slot.
LEMMA SlotsNumber == TypeOK => slots \in Nat /\ slots >= 1
BY Caps DEF TypeOK

\* No holder joins, or one joins others that left it a slot.
LEMMA FewerHolders ==
    ASSUME FewHolders, Room \in Nat, Room' \in Nat, Room <= Room',
           Holders(LiveLabels)' \subseteq Holders(LiveLabels)
    PROVE  FewHolders'
<1>1. Holders(LiveLabels) \in SUBSET PRs /\ Holders(LiveLabels)' \in SUBSET PRs
  BY DEF Holders
<1>2. Cardinality(Holders(LiveLabels)') <= Cardinality(Holders(LiveLabels))
  BY <1>1, FiniteCounts, FS_Subset
<1>3. Cardinality(Holders(LiveLabels)') \in Nat /\ Cardinality(Holders(LiveLabels)) \in Nat
  BY <1>1, FiniteCounts
<1>4. FewHolders' <=> Cardinality(Holders(LiveLabels)') <= Room'
  BY DEF FewHolders
<1> QED BY <1>2, <1>3, <1>4 DEF FewHolders

LEMMA OneMoreHolder ==
    ASSUME TypeOK, SlotsGiven, Room \in Nat, Room' \in Nat, Room <= Room', NEW p \in PRs,
           Cardinality(Holders(LiveLabels) \ {p}) < slots,
           Holders(LiveLabels)' \subseteq (Holders(LiveLabels) \ {p}) \cup {p}
    PROVE  FewHolders'
<1> DEFINE others == Holders(LiveLabels) \ {p}
<1>1. others \in SUBSET PRs /\ Holders(LiveLabels)' \in SUBSET PRs
  BY DEF Holders
<1>2. IsFiniteSet(others) /\ Cardinality(others) \in Nat /\ Cardinality(Holders(LiveLabels)') \in Nat
  BY <1>1, FiniteCounts
<1>3. p \notin others
  OBVIOUS
<1> HIDE DEF others
<1>4. IsFiniteSet(others \cup {p}) /\ Cardinality(others \cup {p}) = Cardinality(others) + 1
  BY <1>2, <1>3, FS_AddElement
<1>5. Cardinality(Holders(LiveLabels)') <= Cardinality(others) + 1
  BY <1>4, FS_Subset DEF others
<1>6. FewHolders' <=> Cardinality(Holders(LiveLabels)') <= Room'
  BY DEF FewHolders
<1>7. Cardinality(others) < slots /\ slots \in Nat /\ slots <= Room
  BY SlotsNumber DEF others, SlotsGiven
<1> QED BY <1>2, <1>5, <1>6, <1>7

\* A visit.
LEMMA HandleMutex ==
    ASSUME TypeOK, MutexInv, NEW p \in PRs, Handle(p)
    PROVE  MutexInv'
<1> SUFFICES ASSUME Calm PROVE (FewHolders /\ SlotsGiven /\ ApprovalsKnown /\ FreshUnapproved /\ ArmsRead /\ SweptArmed)'
  BY HandleWalks DEF MutexInv, Calm, Undisturbed
<1> FewHolders /\ SlotsGiven /\ ApprovalsKnown /\ FreshUnapproved /\ ArmsRead /\ SweptArmed
  BY DEF MutexInv
<1>1. Keeps(p) /\ (NoNewArm(p) \/ ZombieDue(p)
                             \/ \E ci \in Probes(p) : Decided(p, "dispatch", ci)
                                                     \/ Decided(p, "reset and dispatch", ci))
  BY HandleKeeps
<1>2. /\ list' \in {list, NoList} /\ slots' \in {slots, 1}
      /\ \/ DOMAIN todo' = {}
         \/ /\ rule' = rule /\ DOMAIN todo' \subseteq (DOMAIN todo) \ {p}
            /\ \A q \in DOMAIN todo' : todo'[q] = todo[q]
  BY HandleWalks, WalkShrinks
<1>3. DOMAIN todo \subseteq PRs
  BY DEF TypeOK
<1>4. ApprovalsKnown'
  <2>1. ASSUME NEW q \in DOMAIN todo'
        PROVE  pr'[q].open /\ (Approved \in todo'[q] <=> Approved \in pr'[q].labels)
    BY <1>1, <1>2, <1>3, <2>1 DEF ApprovalsKnown, Keeps
  <2>2. ASSUME list' # NoList, NEW q \in PRs, pr'[q].open
        PROVE  Approved \in list'[q] <=> Approved \in pr'[q].labels
    BY <1>1, <1>2, <2>2 DEF ApprovalsKnown, Keeps
  <2> QED BY <2>1, <2>2 DEF ApprovalsKnown
<1>5. FreshUnapproved'
  <2>1. CASE DOMAIN todo' = {}
    BY <2>1 DEF FreshUnapproved
  <2>2. CASE rule' = rule /\ DOMAIN todo' \subseteq DOMAIN todo /\ \A q \in DOMAIN todo' : todo'[q] = todo[q]
    BY <2>2 DEF FreshUnapproved, Current
  <2> QED BY <1>2, <2>1, <2>2
<1>5a. \A q \in PRs : pr'[q].open => pr[q].open /\ (Approved \in pr'[q].labels <=> Approved \in pr[q].labels)
  BY <1>1 DEF Keeps
<1>5b. /\ Room \in Nat /\ Room' \in Nat /\ Room <= Room' /\ SlotsGiven'
  BY <1>2, <1>5a, RoomGrows, SlotsNumber DEF SlotsGiven
<1>6. FewHolders'
  <2>1. ASSUME NEW q, (q \in Holders(LiveLabels))', q # p
        PROVE  q \in Holders(LiveLabels)
    BY <1>1, <2>1, HoldersAre DEF Keeps
  <2>2. ASSUME (p \in Holders(LiveLabels))' => p \in Holders(LiveLabels)
        PROVE  FewHolders'
    <3>1. Holders(LiveLabels)' \subseteq Holders(LiveLabels)
      BY <2>1, <2>2
    <3> QED BY <1>5b, <3>1, FewerHolders
  <2>3. CASE NoNewArm(p)
    BY <1>1, <2>2, <2>3, HoldersAre DEF Keeps, NoNewArm
  <2>4. ASSUME NEW ci, NEW d \in {"dispatch", "reset and dispatch"}, Decided(p, d, ci)
        PROVE  FewHolders'
    <3>1. /\ rule # 0 /\ p \in DOMAIN todo
          /\ \/ Current \in {"fresh", "fresh green"}
             \/ Cardinality(Holders(LiveLabels) \ {p}) < slots
             \/ p \in Holders(LiveLabels)
      BY <2>4, DecidedFree
    <3>2. CASE Current \in {"fresh", "fresh green"}
      <4>1. Approved \notin pr[p].labels
        BY <3>1, <3>2 DEF FreshUnapproved, ApprovalsKnown
      <4>2. ~ (p \in Holders(LiveLabels))'
        BY <1>1, <4>1, HoldersAre DEF Keeps
      <4> QED BY <2>2, <4>2
    <3>3. CASE Cardinality(Holders(LiveLabels) \ {p}) < slots
      <4>1. Holders(LiveLabels)' \subseteq (Holders(LiveLabels) \ {p}) \cup {p}
        BY <2>1
      <4> QED BY <1>5b, <3>3, <4>1, OneMoreHolder
    <3>4. CASE p \in Holders(LiveLabels)
      BY <2>2, <3>4
    <3> QED BY <3>1, <3>2, <3>3, <3>4
  <2>5. CASE ZombieDue(p)
    <3>1. p \in DOMAIN todo /\ rule = 7
      <4>1. rule # 0 /\ Current = "sweep" /\ p \in DOMAIN todo /\ rule \in 0 .. LastRule
        BY <2>5 DEF ZombieDue, Sweeping, Visiting, TypeOK
      <4> QED BY <4>1, RuleNumber
    <3>2. Approved \in pr[p].labels => Arm \in pr[p].labels
      BY <3>1 DEF ApprovalsKnown, ArmsRead, SweptArmed
    <3>3. (p \in Holders(LiveLabels))' => p \in Holders(LiveLabels)
      BY <1>1, <3>2, HoldersAre DEF Keeps
    <3> QED BY <2>2, <3>3
  <2> QED BY <1>1, <2>3, <2>4, <2>5
<1>7. ArmsRead'
  <2> SUFFICES ASSUME rule' <= 7
      PROVE  /\ \A q \in DOMAIN todo' : {Arm, Approved} \subseteq todo'[q] => Arm \in pr'[q].labels
             /\ list' # NoList => \A q \in PRs : pr'[q].open /\ {Arm, Approved} \subseteq list'[q]
                                                => Arm \in pr'[q].labels
    BY DEF ArmsRead
  <2>1. CASE rule <= 7
    <3>1. ASSUME NEW q \in DOMAIN todo', {Arm, Approved} \subseteq todo'[q] PROVE Arm \in pr'[q].labels
      BY <1>1, <1>2, <1>3, <2>1, <3>1 DEF ArmsRead, Keeps
    <3>2. ASSUME list' # NoList, NEW q \in PRs, pr'[q].open, {Arm, Approved} \subseteq list'[q]
          PROVE  Arm \in pr'[q].labels
      <4>1. pr[q].open /\ list # NoList /\ list' = list
        BY <1>1, <1>2, <3>2 DEF Keeps
      <4>2. Arm \in pr[q].labels /\ Approved \in pr[q].labels
        BY <2>1, <3>2, <4>1 DEF ArmsRead, ApprovalsKnown
      <4>3. CASE q # p
        BY <1>1, <4>2, <4>3 DEF Keeps
      <4>4. CASE q = p
        BY <2>1, <3>2, <4>2, <4>4, EarlyKeepsArm
      <4> QED BY <4>3, <4>4
    <3> QED BY <3>1, <3>2
  <2>2. CASE ~ (rule <= 7)
    <3>0. PICK n \in 0 .. LastRule : n = rule'
      BY HandleTyped DEF TypeOK
    <3>1. n # rule /\ n <= rule /\ rule \in 0 .. LastRule
      BY <2>2, <3>0, RuleCount DEF TypeOK
    <3>2. rule' = 0 /\ list' = NoList /\ DOMAIN todo' = {}
      BY <3>0, <3>1, HandleWalks, LateLeaves
    <3> QED BY <3>2
  <2> QED BY <2>1, <2>2
<1>8. SweptArmed'
  <2> SUFFICES ASSUME rule' = 7, NEW q \in DOMAIN todo' PROVE Arm \in todo'[q]
    BY DEF SweptArmed
  <2> QED BY <1>2 DEF SweptArmed
<1> QED BY <1>4, <1>5, <1>5b, <1>6, <1>7, <1>8

\* A query.
LEMMA QueryMutex ==
    ASSUME TypeOK, MutexInv, Query
    PROVE  MutexInv'
<1> SUFFICES ASSUME Calm PROVE (FewHolders /\ SlotsGiven /\ ApprovalsKnown /\ FreshUnapproved /\ ArmsRead /\ SweptArmed)'
  BY QueryGives DEF MutexInv, Calm, Undisturbed
<1> FewHolders /\ SlotsGiven /\ ApprovalsKnown /\ FreshUnapproved /\ ArmsRead /\ SweptArmed
  BY DEF MutexInv
<1>1. pr' = pr
  BY QueryGives
<1>2. PICK h, k, m : Result(h, k, m)
  BY QueryGives
<1>3. \A q \in PRs : pr[q].open => (Approved \in View[q] <=> Approved \in pr[q].labels)
  BY DEF View, ApprovalsKnown, LiveLabels
<1>4a. \A q \in PRs : pr'[q].open => pr[q].open /\ (Approved \in pr'[q].labels <=> Approved \in pr[q].labels)
  BY <1>1
<1>4b. Room <= Room' /\ SlotsGiven' /\ Room \in Nat /\ Room' \in Nat
  <2>1. slots' \in {slots, 1}
    BY <1>2 DEF Result, Leave, TickEnds
  <2> QED BY <1>4a, <2>1, RoomGrows, SlotsNumber DEF SlotsGiven
<1>4c. Holders(LiveLabels)' \subseteq Holders(LiveLabels)
  BY <1>1, HoldersAre
<1>4. FewHolders' /\ SlotsGiven'
  BY <1>4b, <1>4c, FewerHolders
<1>5. CASE m = {} /\ Leave(k, moved)
  <2>1. todo' = NoTickets /\ list' \in {k, NoList}
    BY <1>5 DEF Leave, TickEnds
  <2>2. DOMAIN todo' = {}
    BY <2>1, NoTicketsEmpty
  <2>3. list' # NoList => list' = View
    BY <1>2, <2>1 DEF Result
  <2>4. ApprovalsKnown'
    BY <1>1, <1>3, <2>2, <2>3 DEF ApprovalsKnown
  <2>5. FreshUnapproved' /\ SweptArmed'
    BY <2>2 DEF FreshUnapproved, SweptArmed
  <2>6. ArmsRead'
    <3> SUFFICES ASSUME rule' <= 7, list' # NoList, NEW q \in PRs, pr[q].open, {Arm, Approved} \subseteq list'[q]
        PROVE  Arm \in pr[q].labels
      BY <1>1, <2>2 DEF ArmsRead
    <3>1. rule <= 7
      BY <1>5, RuleCount DEF Leave, TickEnds, TypeOK
    <3>2. list' = View
      BY <2>3
    <3> QED BY <3>1, <3>2 DEF View, LiveLabels, ArmsRead
  <2> QED BY <1>4, <2>4, <2>5, <2>6
<1>6. CASE todo' = Tickets(View, m) /\ list' = k /\ rule' = rule
  <2>1. DOMAIN todo' = m /\ \A q \in m : todo'[q] = View[q]
    BY <1>6, TicketsAre
  <2>2. m \subseteq Open
    BY <1>2 DEF Result
  <2>3. list' # NoList => list' = View
    BY <1>2, <1>6 DEF Result
  <2>4. ApprovalsKnown'
    <3>1. ASSUME NEW q \in m PROVE pr'[q].open /\ (Approved \in todo'[q] <=> Approved \in pr'[q].labels)
      BY <1>1, <1>3, <2>1, <2>2, <3>1 DEF Open
    <3>2. ASSUME list' # NoList, NEW q \in PRs, pr'[q].open
          PROVE  Approved \in list'[q] <=> Approved \in pr'[q].labels
      BY <1>1, <1>3, <2>3, <3>2
    <3> QED BY <2>1, <3>1, <3>2 DEF ApprovalsKnown
  <2>5. FreshUnapproved'
    <3> SUFFICES ASSUME Current \in {"fresh", "fresh green"}, NEW q \in m PROVE Approved \notin View[q]
      BY <1>6, <2>1 DEF FreshUnapproved, Current
    <3>1. Wanted(Current, View[q], q)
      BY <1>2 DEF Result
    <3>2. CASE Current = "fresh"
      BY <3>1, <3>2 DEF Wanted
    <3>3. CASE Current = "fresh green"
      BY <3>1, <3>3 DEF Wanted
    <3> QED BY <3>2, <3>3
  <2>6. rule <= 7 => \A q \in PRs : pr[q].open /\ {Arm, Approved} \subseteq View[q] => Arm \in pr[q].labels
    BY DEF View, LiveLabels, ArmsRead
  <2>7. ArmsRead'
    <3>1. ASSUME rule' <= 7, NEW q \in m, {Arm, Approved} \subseteq todo'[q] PROVE Arm \in pr'[q].labels
      BY <1>1, <1>6, <2>1, <2>2, <2>6, <3>1 DEF Open
    <3>2. ASSUME rule' <= 7, list' # NoList, NEW q \in PRs, pr'[q].open, {Arm, Approved} \subseteq list'[q]
          PROVE  Arm \in pr'[q].labels
      BY <1>1, <1>6, <2>3, <2>6, <3>2
    <3> QED BY <2>1, <3>1, <3>2 DEF ArmsRead
  <2>8. SweptArmed'
    <3> SUFFICES ASSUME rule = 7, NEW q \in m PROVE Arm \in View[q]
      BY <1>6, <2>1 DEF SweptArmed
    <3>1. Wanted(Current, View[q], q) /\ Current = "sweep"
      BY <1>2 DEF Result, Current, Rules
    <3> QED BY <3>1 DEF Wanted
  <2> QED BY <1>4, <2>4, <2>5, <2>7, <2>8
<1> QED BY <1>2, <1>5, <1>6 DEF Result

\* Everything else leaves labels alone, but for an approval.
QuietLabels ==
    \A q \in PRs :
      /\ pr'[q].open = pr[q].open
      /\ \/ pr'[q].labels = pr[q].labels
         \/ On("approvals") /\ pr'[q].labels = pr[q].labels \cup {Approved}

LEMMA OutsideLabels ==
    ASSUME TypeOK, Environment \/ StartTick \/ UNCHANGED vars
    PROVE  QuietLabels
<1> pr \in [PRs -> PrType]
  BY DEF TypeOK
<1>1. CASE Elapse
  <2>1. ASSUME NEW s \in PrType PROVE Aged(s).open = s.open /\ Aged(s).labels = s.labels
    BY DEF Aged, PrType
  <2>2. pr' = [q \in PRs |-> IF pr[q].open THEN Aged(pr[q]) ELSE pr[q]]
    BY <1>1 DEF Elapse
  <2> QED BY <2>1, <2>2 DEF QuietLabels
<1>2. CASE CacheExpires \/ TickDies \/ StartTick \/ UNCHANGED vars
  BY <1>2 DEF CacheExpires, TickDies, StartTick, vars, QuietLabels
<1>3. ASSUME NEW p \in PRs, NEW s, pr' = [pr EXCEPT ![p] = s], s.open = pr[p].open, s.labels = pr[p].labels
      PROVE  QuietLabels
  BY <1>3 DEF QuietLabels
<1>4. ASSUME NEW p \in PRs, RunEnds(p)
      PROVE  \E h : pr' = [pr EXCEPT ![p] = [pr[p] EXCEPT !.head = h]]
  BY <1>4 DEF RunEnds
<1>5. ASSUME NEW p \in PRs, Ghost(p)
      PROVE  \E h : pr' = [pr EXCEPT ![p] = [pr[p] EXCEPT !.head = h]]
  BY <1>5 DEF Ghost
<1>6. ASSUME NEW p \in PRs, NEW h
      PROVE  [pr[p] EXCEPT !.head = h].open = pr[p].open /\ [pr[p] EXCEPT !.head = h].labels = pr[p].labels
  BY DEF PrType
<1>7. ASSUME NEW p \in PRs, Push(p)
      PROVE  \E who : pr' = [pr EXCEPT ![p] = Pushed(pr[p], who)]
  BY <1>7 DEF Push
<1>8. ASSUME NEW p \in PRs, NEW who
      PROVE  Pushed(pr[p], who).open = pr[p].open /\ Pushed(pr[p], who).labels = pr[p].labels
  BY LabelFree
<1>9. ASSUME NEW p \in PRs, BaseMoves(p)
      PROVE  \E b : pr' = [pr EXCEPT ![p] = [pr[p] EXCEPT !.base = b]]
  BY <1>9 DEF BaseMoves
<1>10. ASSUME NEW p \in PRs, NEW b
       PROVE  [pr[p] EXCEPT !.base = b].open = pr[p].open /\ [pr[p] EXCEPT !.base = b].labels = pr[p].labels
  BY DEF PrType
<1>11. ASSUME NEW p \in PRs, Approve(p) PROVE QuietLabels
  <2> DEFINE s == With(pr[p], Approved)
  <2>1. s.open = pr[p].open /\ s.labels = pr[p].labels \cup {Approved}
    BY LabelEffects, LabelNames
  <2>2. pr' = [pr EXCEPT ![p] = s] /\ On("approvals")
    BY <1>11 DEF Approve
  <2> HIDE DEF s
  <2> QED BY <2>1, <2>2 DEF QuietLabels
<1>12. ASSUME NEW p \in PRs, RunEnds(p) \/ Ghost(p)
       PROVE  QuietLabels
  <2>1. PICK h : pr' = [pr EXCEPT ![p] = [pr[p] EXCEPT !.head = h]]
    BY <1>4, <1>5, <1>12
  <2> DEFINE s == [pr[p] EXCEPT !.head = h]
  <2>2. s.open = pr[p].open /\ s.labels = pr[p].labels
    BY <1>6
  <2>3. pr' = [pr EXCEPT ![p] = s]
    BY <2>1
  <2> HIDE DEF s
  <2> QED BY <1>3, <2>2, <2>3
<1>13. ASSUME NEW p \in PRs, Push(p) \/ BaseMoves(p)
       PROVE  QuietLabels
  <2>1. CASE Push(p)
    <3>1. PICK who : pr' = [pr EXCEPT ![p] = Pushed(pr[p], who)]
      BY <1>7, <2>1
    <3> QED BY <1>3, <1>8, <3>1
  <2>2. CASE BaseMoves(p)
    <3>1. PICK b : pr' = [pr EXCEPT ![p] = [pr[p] EXCEPT !.base = b]]
      BY <1>9, <2>2
    <3> DEFINE s == [pr[p] EXCEPT !.base = b]
    <3>2. s.open = pr[p].open /\ s.labels = pr[p].labels
      BY <1>10
    <3>3. pr' = [pr EXCEPT ![p] = s]
      BY <3>1
    <3> HIDE DEF s
    <3> QED BY <1>3, <3>2, <3>3
  <2> QED BY <1>13, <2>1, <2>2
<1> QED BY <1>1, <1>2, <1>11, <1>12, <1>13 DEF Environment

\* ... and the walk, but that a list expires and a tick starts or dies.
LEMMA OutsideWalks ==
    ASSUME Environment \/ StartTick \/ UNCHANGED vars
    PROVE  /\ env' = env
           /\ list' \in {list, NoList} \/ (list' = LiveLabels /\ pr' = pr)
           /\ \/ todo' = todo /\ (rule' = rule \/ (rule = 0 /\ rule' = 1))
              \/ DOMAIN todo' = {} /\ list' = NoList /\ rule' = 0
<1>0. env' = env
  BY DEF Environment, Elapse, CacheExpires, TickDies, RunEnds, Push, BaseMoves, Approve, Ghost, Outside, StartTick, vars
<1>1. CASE StartTick
  BY <1>1 DEF StartTick
<1>2. CASE TickDies
  <2>1. todo' = NoTickets /\ list' = NoList /\ rule' = 0
    BY <1>2 DEF TickDies, TickEnds
  <2>2. DOMAIN todo' = {}
    BY <2>1, NoTicketsEmpty
  <2> QED BY <1>0, <2>1, <2>2
<1>3. ASSUME todo' = todo, rule' = rule, list' \in {list, NoList}
      PROVE  /\ list' \in {list, NoList}
             /\ \/ todo' = todo /\ (rule' = rule \/ (rule = 0 /\ rule' = 1))
                \/ DOMAIN todo' = {} /\ list' = NoList /\ rule' = 0
  BY <1>3, Zenon
<1>4. CacheExpires => todo' = todo /\ rule' = rule /\ list' = NoList
  BY DEF CacheExpires
<1>5. Elapse \/ UNCHANGED vars => todo' = todo /\ rule' = rule /\ list' = list
  BY DEF Elapse, Outside, vars
<1>6. ASSUME NEW p \in PRs, RunEnds(p) \/ Push(p) \/ BaseMoves(p) \/ Approve(p) \/ Ghost(p)
      PROVE  todo' = todo /\ rule' = rule /\ list' = list
  BY <1>6 DEF RunEnds, Push, BaseMoves, Approve, Ghost, Outside
<1> QED BY <1>0, <1>1, <1>2, <1>3, <1>4, <1>5, <1>6 DEF Environment

\* ... and the slots, but that a tick takes those its queue gives it.
LEMMA OutsideSlots ==
    ASSUME Environment \/ StartTick \/ UNCHANGED vars
    PROVE  slots' \in {slots, 1, SlotsFor(Cardinality(ApprovedQueue))}
<1>1. CASE StartTick
  BY <1>1 DEF StartTick
<1>2. CASE TickDies
  BY <1>2 DEF TickDies, TickEnds
<1>3. CASE Elapse \/ CacheExpires \/ UNCHANGED vars
  BY <1>3 DEF Elapse, CacheExpires, Outside, vars
<1>4. ASSUME NEW p \in PRs, RunEnds(p) \/ Push(p) \/ BaseMoves(p) \/ Approve(p) \/ Ghost(p)
      PROVE  slots' = slots
  BY <1>4 DEF RunEnds, Push, BaseMoves, Approve, Ghost, Outside
<1> QED BY <1>1, <1>2, <1>3, <1>4 DEF Environment

\* So the slots are kept after it.
LEMMA OutsideMutex ==
    ASSUME TypeOK, MutexInv, Environment \/ StartTick \/ UNCHANGED vars
    PROVE  MutexInv'
<1>1. env' = env
  BY DEF Environment, Elapse, CacheExpires, TickDies, RunEnds, Push, BaseMoves, Approve, Ghost, Outside, StartTick, vars
<1> SUFFICES ASSUME Calm PROVE (FewHolders /\ SlotsGiven /\ ApprovalsKnown /\ FreshUnapproved /\ ArmsRead /\ SweptArmed)'
  BY <1>1 DEF MutexInv, Calm, Undisturbed
<1> FewHolders /\ SlotsGiven /\ ApprovalsKnown /\ FreshUnapproved /\ ArmsRead /\ SweptArmed
  BY DEF MutexInv
<1> pr \in [PRs -> PrType]
  BY DEF TypeOK
<1>2. \A q \in PRs : pr'[q].open = pr[q].open /\ pr'[q].labels = pr[q].labels
  BY OutsideLabels DEF QuietLabels, Calm, Undisturbed, On
<1>3a. Holders(LiveLabels)' \subseteq Holders(LiveLabels)
  BY <1>2, HoldersAre
<1>3b. \A q \in PRs : pr'[q].open => pr[q].open /\ (Approved \in pr'[q].labels <=> Approved \in pr[q].labels)
  BY <1>2
<1>3c. /\ Room \in Nat /\ Room' \in Nat /\ 1 <= Room /\ Room <= Room'
       /\ SlotsFor(Cardinality(ApprovedQueue)) <= Room
  BY <1>3b, RoomGrows
<1>3d. SlotsGiven'
  <2>1. slots' <= Room
    BY <1>3c, OutsideSlots, SlotsNumber DEF SlotsGiven
  <2>2. slots' \in Nat
    BY NextTyped, Caps DEF Next, Tick, TypeOK
  <2> QED BY <1>3c, <2>1, <2>2 DEF SlotsGiven
<1>3. FewHolders' /\ SlotsGiven'
  BY <1>3a, <1>3c, <1>3d, FewerHolders
<1>4. /\ list' \in {list, NoList} \/ list' = LiveLabels
      /\ \/ todo' = todo /\ (rule' = rule \/ (rule = 0 /\ rule' = 1))
         \/ DOMAIN todo' = {} /\ list' = NoList
  BY OutsideWalks
<1>5. DOMAIN todo \subseteq PRs
  BY DEF TypeOK
<1>6. ApprovalsKnown'
  <2>1. ASSUME NEW q \in DOMAIN todo'
        PROVE  pr'[q].open /\ (Approved \in todo'[q] <=> Approved \in pr'[q].labels)
    BY <1>2, <1>4, <1>5, <2>1 DEF ApprovalsKnown
  <2>2. ASSUME list' # NoList, NEW q \in PRs, pr'[q].open
        PROVE  Approved \in list'[q] <=> Approved \in pr'[q].labels
    BY <1>2, <1>4, <2>2 DEF ApprovalsKnown, LiveLabels
  <2> QED BY <2>1, <2>2 DEF ApprovalsKnown
<1>7. FreshUnapproved'
  <2>1. CASE DOMAIN todo' = {}
    BY <2>1 DEF FreshUnapproved
  <2>2. CASE rule' = 1
    <3>1. Current' = "rerun"
      BY <2>2 DEF Current, Rules
    <3> QED BY <3>1 DEF FreshUnapproved
  <2>3. CASE todo' = todo /\ rule' = rule
    BY <2>3 DEF FreshUnapproved, Current
  <2> QED BY <1>4, <2>1, <2>2, <2>3
<1>8. ArmsRead'
  <2>1. CASE todo' = todo /\ (rule' = rule \/ (rule = 0 /\ rule' = 1))
    <3>1. rule' <= 7 => rule <= 7
      BY <2>1
    <3>2. ASSUME rule' <= 7, NEW q \in DOMAIN todo, {Arm, Approved} \subseteq todo[q] PROVE Arm \in pr'[q].labels
      BY <1>2, <1>5, <3>1, <3>2 DEF ArmsRead
    <3>3. ASSUME rule' <= 7, list' # NoList, NEW q \in PRs, pr'[q].open, {Arm, Approved} \subseteq list'[q]
          PROVE  Arm \in pr'[q].labels
      BY <1>2, <1>4, <3>1, <3>3 DEF ArmsRead, LiveLabels
    <3> QED BY <2>1, <3>2, <3>3 DEF ArmsRead
  <2>2. CASE DOMAIN todo' = {} /\ list' = NoList
    BY <2>2 DEF ArmsRead
  <2> QED BY <1>4, <2>1, <2>2
<1>9. SweptArmed'
  BY <1>4 DEF SweptArmed
<1> QED BY <1>3, <1>6, <1>7, <1>8, <1>9

\* Nothing is armed at the start.
LEMMA InitMutex == Init => MutexInv
<1> SUFFICES ASSUME Init PROVE FewHolders /\ SlotsGiven /\ ApprovalsKnown /\ FreshUnapproved /\ ArmsRead /\ SweptArmed
  BY DEF MutexInv
<1>1. \A q \in PRs : Arm \notin pr[q].labels
  BY OpenedPRs DEF Init, Arm, Approved
<1>2. FewHolders /\ SlotsGiven
  <2>1. Holders(LiveLabels) = {}
    BY <1>1, HoldersAre DEF Holders
  <2>2. Cardinality(Holders(LiveLabels)) = 0
    BY <2>1, FS_EmptySet
  <2>3. EverApproved \in SUBSET PRs
    BY DEF EverApproved
  <2>4. Room \in 1 .. Concurrency
    BY <2>3, FiniteCounts, SlotsGrow DEF Room
  <2> QED BY <2>2, <2>4, Caps DEF FewHolders, SlotsGiven, Init
<1>3. ApprovalsKnown
  BY NoTicketsEmpty DEF Init, ApprovalsKnown
<1>4. FreshUnapproved
  BY DEF Init, FreshUnapproved
<1>5. ArmsRead /\ SweptArmed
  BY NoTicketsEmpty DEF Init, ArmsRead, SweptArmed
<1> QED BY <1>2, <1>3, <1>4, <1>5

\* One step.
LEMMA NextMutex == TypeOK /\ MutexInv /\ [Next]_vars => MutexInv'
BY HandleMutex, QueryMutex, OutsideMutex DEF Next, Tick

\* The invariant, and the property.
LEMMA CountHolders == MutexInv => HoldersWithinSlots
BY DEF MutexInv, HoldersWithinSlots, Calm, FewHolders, Room

\* validationMutexHeldByAnother with the slots of the tick: approved PRs are
\* armed one at a time, and Concurrency at a time only if Watermark of them have
\* been approved, for any number of PRs and any caps, however stale the list the
\* tick works on.
THEOREM MutexHolds == Spec => []HoldersWithinSlots
<1>1. TypeOK /\ MutexInv /\ [Next]_vars => MutexInv'
  BY NextMutex
<1> QED BY <1>1, InitMutex, CountHolders, TypeCorrect, PTL DEF Spec
=============================================================================
