------------------------- MODULE ValidationParkProofs -------------------------
(***************************************************************************)
(* The park of the merge window: a parked PR holds no arm, and after       *)
(* ParkCap red runs in a row nothing runs on the head again, for any set   *)
(* of PRs, any caps and any environment.                                   *)
(***************************************************************************)
EXTENDS ValidationLaneProofs

-----------------------------------------------------------------------------
(* Parked and armed at once.  The first rules of a tick park what they     *)
(* read as un-armed, and nothing before the sweep arms; the later rules    *)
(* arm what they read as not parked, and whoever parks there drops the     *)
(* list.  In between, the list is read anew.                               *)

\* Up to park-reset the tick has seen every arm.
ArmsSeen ==
    rule <= 4 =>
      /\ \A q \in DOMAIN todo : Arm \in pr[q].labels => Arm \in todo[q]
      /\ list # NoList => \A q \in PRs : pr[q].open /\ Arm \in pr[q].labels => Arm \in list[q]

\* After it, the tick has seen every park.
ParksSeen ==
    rule >= 5 =>
      /\ \A q \in DOMAIN todo : Park \in pr[q].labels => Park \in todo[q]
      /\ list # NoList => \A q \in PRs : pr[q].open /\ Park \in pr[q].labels => Park \in list[q]

\* What was read was never parked and armed either.
ReadsApart ==
    /\ \A q \in DOMAIN todo : ~ ({Arm, Park} \subseteq todo[q])
    /\ list # NoList => \A q \in PRs : ~ ({Arm, Park} \subseteq list[q])

\* What the rules that use it know of the PRs they visit.
VisitsRead ==
    /\ rule \in {3, 4} => \A q \in DOMAIN todo : Arm \notin todo[q]
    /\ rule = 7 => \A q \in DOMAIN todo : Arm \in todo[q]

\* No PR is parked and armed.
ParkApart == \A p \in PRs : ~ ({Arm, Park} \subseteq pr[p].labels)

ParkParts == ParkApart /\ ArmsSeen /\ ParksSeen /\ ReadsApart /\ VisitsRead

\* The un-arm of a fail report lands.
Written == Undisturbed({"failed writes"})

ParkInv == Written => ParkParts

\* A handler visits a PR of the current rule.
LEMMA HandleVisits ==
    ASSUME TypeOK, NEW p \in PRs, Handle(p)
    PROVE  /\ rule # 0 /\ p \in DOMAIN todo
           /\ UpdateBranch(p) => rule \in {3, 4}
           /\ ZombieDue(p) => rule = 7
           /\ \A r \in Validating : Visiting(r, p) => rule >= 8
<1> rule \in 0 .. LastRule
  BY DEF TypeOK
<1>1. ASSUME NEW r, Visiting(r, p) PROVE rule # 0 /\ p \in DOMAIN todo /\ Current = r
  BY <1>1 DEF Visiting
<1>2. ASSUME Rerun(p) \/ Unarm(p) \/ UpdateBranch(p) \/ Merge(p) \/ FailValidation(p) \/ Complete(p)
      PROVE  rule # 0 /\ p \in DOMAIN todo
  BY <1>1, <1>2 DEF Rerun, Unarm, UpdateBranch, Merge, FailValidation, Complete
<1>3. ASSUME SweepVerdict(p) \/ SweepZombie(p) \/ SweepThrows(p) \/ SweepPark(p) \/ SweepKeeps(p)
      PROVE  rule # 0 /\ p \in DOMAIN todo
  BY <1>1, <1>3 DEF SweepVerdict, SweepZombie, SweepThrows, SweepPark, SweepKeeps, ZombieDue, Sweeping
<1>4. ASSUME PassOver(p) \/ ResetInvisible(p) \/ FastPath(p) \/ ConcludeGhosts(p) \/ ResetPlaceholder(p)
            \/ Dispatch(p) \/ DispatchThrows(p)
      PROVE  rule # 0 /\ p \in DOMAIN todo
  BY <1>1, <1>4 DEF PassOver, ResetInvisible, FastPath, ConcludeGhosts, ResetPlaceholder, Dispatch,
                   DispatchThrows, Decided
<1>5. rule # 0 /\ p \in DOMAIN todo
  BY <1>2, <1>3, <1>4 DEF Handle
<1>6. UpdateBranch(p) => rule \in {3, 4}
  <2>1. UpdateBranch(p) => Current \in {"refresh", "reset"}
    BY DEF UpdateBranch, Visiting
  <2> QED BY <1>5, <2>1, RuleNumber
<1>7. ZombieDue(p) => rule = 7
  <2>1. ZombieDue(p) => Current = "sweep"
    BY DEF ZombieDue, Sweeping, Visiting
  <2> QED BY <1>5, <2>1, RuleNumber
<1>8. ASSUME NEW r \in Validating, Visiting(r, p) PROVE rule >= 8
  <2>1. Current \in {"arm", "rearm", "rearm green", "fresh", "fresh green"}
    BY <1>1, <1>8 DEF Validating, MergePath
  <2>2. \/ rule = 8 \/ rule = 9 \/ rule = 10 \/ rule = 11 \/ rule = 12
    BY <1>5, <2>1, RuleNumber
  <2> QED BY <2>2
<1> QED BY <1>5, <1>6, <1>7, <1>8

\* s is p without a new arm or a new park.
Tame(p, s) ==
    /\ Arm \in s.labels => Arm \in pr[p].labels
    /\ Park \in s.labels => Park \in pr[p].labels

\* What a visit may do to the two labels.
ParkKept(p) ==
    /\ ~ ({Arm, Park} \subseteq pr'[p].labels)
    /\ rule <= 4 /\ Arm \in pr'[p].labels => Arm \in pr[p].labels
    /\ rule >= 5 /\ Park \in pr'[p].labels => Park \in pr[p].labels \/ list' = NoList

\* A tame replacement does nothing to them.
LEMMA TameKeeps ==
    ASSUME pr \in [PRs -> PrType], ParkParts, NEW p \in PRs, NEW s, Tame(p, s), pr' = [pr EXCEPT ![p] = s]
    PROVE  ParkKept(p)
BY DEF Tame, ParkKept, ParkParts, ParkApart

\* A PR on its way through validate_pr; after the entry the park is gone.
LEMMA EnteredTame ==
    ASSUME pr \in [PRs -> PrType], NEW p \in PRs, NEW ci
    PROVE  /\ Tame(p, pr[p]) /\ Tame(p, Entered(p)) /\ Tame(p, Stripped(p, ci))
           /\ Park \in Stripped(p, ci).labels => Park \notin todo[p] /\ Park \in pr[p].labels
<1>1. pr[p] \in PrType /\ Entered(p) \in PrType
  BY EnteredTyped
<1>2. Tame(p, Entered(p)) /\ (Park \in Entered(p).labels => Park \notin todo[p] /\ Park \in pr[p].labels)
  BY <1>1, LabelEffects, LabelNames DEF Entered, Tame
<1>3. Without(Entered(p), Latch).labels = Entered(p).labels \ {Latch}
  BY <1>1, LabelEffects, LabelNames
<1>4. Stripped(p, ci).labels \subseteq Entered(p).labels
  BY <1>3 DEF Stripped
<1> QED BY <1>2, <1>4 DEF Tame

\* A merge, tried on a tame PR.
LEMMA MergeTame ==
    ASSUME pr \in [PRs -> PrType], ParkParts, NEW p \in PRs, NEW s \in PrType, NEW refused,
           Tame(p, s), Tame(p, refused), pr' = MergeAttempt(p, s, refused)
    PROVE  ParkKept(p)
<1>1. CASE Approved \notin s.labels
  <2>1. Tame(p, Validated(s))
    BY LabelEffects, LabelNames DEF Tame
  <2> QED BY <1>1, <2>1, TameKeeps DEF MergeAttempt
<1>2. CASE Approved \in s.labels /\ Clean(p, s)
  <2>1. pr'[p] = Closed(pr[p])
    BY <1>2 DEF MergeAttempt, Merged
  <2>2. pr'[p].labels = {}
    BY <2>1 DEF Closed, PrType
  <2> QED BY <2>2 DEF ParkKept
<1>3. CASE Approved \in s.labels /\ ~ Clean(p, s)
  BY <1>3, TameKeeps DEF MergeAttempt
<1> QED BY <1>1, <1>2, <1>3

\* The labels a fail report leaves.
LEMMA FailLabels ==
    ASSUME Written, NEW p \in PRs, NEW s \in PrType, NEW done \in Writes
    PROVE  /\ FailReported(p, s, done).labels \subseteq (s.labels \ {Arm}) \cup {Park}
           /\ FailReported(p, s, done).head.streak = s.head.streak
           /\ FailReported(p, s, done).head.ci = s.head.ci
<1> DEFINE w == Without(s, Arm)
<1>1. w \in PrType /\ w.labels = s.labels \ {Arm} /\ w.head = s.head
  <2>1. w \in PrType
    BY LabelsTyped, LabelNames
  <2>2. w.labels = s.labels \ {Arm}
    BY LabelEffects, LabelNames
  <2>3. w.head = s.head
    BY DEF Without, PrType
  <2> QED BY <2>1, <2>2, <2>3
<1>2. FailReported(p, s, done) \in {w, Counted(w), Parked(Counted(w))}
  <2>1. "unarm" \in done
    BY DEF Writes, Written, Undisturbed, On
  <2> QED BY <2>1, FailIs
<1> HIDE DEF w
<1> DEFINE t == Counted(w)
<1>3. t \in PrType /\ t.labels = w.labels
  BY <1>1, CountedTyped
<1>4. t.head.streak = w.head.streak /\ t.head.ci = w.head.ci
  BY <1>1, Caps DEF Counted, PrType, HeadType
<1> HIDE DEF t
<1>5. Parked(t).labels = t.labels \cup {Park}
  BY <1>3, LabelEffects, LabelNames
<1>6. Parked(t).head = t.head
  BY <1>3 DEF Parked, With, PrType
<1>7. FailReported(p, s, done) \in {w, t, Parked(t)}
  BY <1>2 DEF t
<1> QED BY <1>1, <1>3, <1>4, <1>5, <1>6, <1>7

\* Every visit keeps parks and arms apart.
LEMMA HandleParks ==
    ASSUME TypeOK, Written, ParkParts, NEW p \in PRs, Handle(p)
    PROVE  ParkKept(p)
<1> pr \in [PRs -> PrType] /\ pr[p] \in PrType /\ rule \in 0 .. LastRule
  BY DEF TypeOK
<1> USE LabelNames
<1>v. /\ p \in DOMAIN todo
      /\ UpdateBranch(p) => rule \in {3, 4}
      /\ ZombieDue(p) => rule = 7
      /\ \A r \in Validating : Visiting(r, p) => rule >= 8
  BY HandleVisits
<1>t. ~ ({Arm, Park} \subseteq pr[p].labels) /\ Tame(p, pr[p])
  BY EnteredTame DEF ParkParts, ParkApart
<1>e. \A ci : Entered(p) \in PrType /\ Stripped(p, ci) \in PrType /\ Tame(p, Entered(p)) /\ Tame(p, Stripped(p, ci))
  BY EnteredTyped, EnteredTame
<1>d. ASSUME ActedAndDropped(p) PROVE list' = NoList
  BY <1>d, VisitedShrinks DEF ActedAndDropped
<1>s. ASSUME NEW s, pr' = [pr EXCEPT ![p] = s], Park \notin s.labels, rule >= 5 PROVE ParkKept(p)
  BY <1>s DEF ParkKept
<1>1. CASE Rerun(p)
  <2> DEFINE s == [pr[p] EXCEPT !.head = [pr[p].head EXCEPT !.ci = "active", !.old = FALSE, !.rerun = TRUE]]
  <2>1. pr' = pr \/ pr' = [pr EXCEPT ![p] = s]
    BY <1>1 DEF Rerun
  <2>2. s.labels = pr[p].labels
    BY DEF PrType
  <2> HIDE DEF s
  <2>3. Tame(p, s)
    BY <2>2 DEF Tame
  <2>4. pr = [pr EXCEPT ![p] = pr[p]]
    OBVIOUS
  <2> QED BY <1>t, <2>1, <2>3, <2>4, TameKeeps
<1>2. CASE Unarm(p)
  <2>1. Tame(p, Validated(pr[p])) /\ Tame(p, Without(pr[p], Arm))
    BY LabelEffects DEF Tame
  <2>2. pr' = [pr EXCEPT ![p] = Validated(pr[p])] \/ pr' = [pr EXCEPT ![p] = Without(pr[p], Arm)]
    BY <1>2 DEF Unarm
  <2> QED BY <2>1, <2>2, TameKeeps
<1>3. CASE UpdateBranch(p)
  <2> DEFINE s == ParkReviewed(p, pr[p])
  <2>1. Arm \notin pr[p].labels \/ Park \in todo[p]
    BY <1>3, <1>v DEF ParkParts, ArmsSeen, VisitsRead
  <2>2. rule \in {3, 4}
    BY <1>3, <1>v
  <2>3. s \in PrType /\ s.labels \subseteq pr[p].labels \cup {Park} /\ (Park \in todo[p] => s.labels \subseteq pr[p].labels)
    <3>1. s \in {pr[p], Unparked(pr[p]), Parked(pr[p])} /\ (Park \in todo[p] => s \in {pr[p], Unparked(pr[p])})
      BY DEF ParkReviewed
    <3> QED BY <3>1, LabelsTyped, LabelEffects
  <2> HIDE DEF s
  <2>4. pr' = [pr EXCEPT ![p] = Pushed(s, "machine")] \/ pr' = [pr EXCEPT ![p] = s]
    BY <1>3 DEF UpdateBranch, s
  <2>5. pr'[p].labels = s.labels
    BY <2>3, <2>4, LabelFree
  <2> QED BY <1>t, <2>1, <2>2, <2>3, <2>5 DEF ParkKept
<1>4. CASE Merge(p)
  BY <1>4, <1>t, MergeTame DEF Merge
<1>5. ASSUME NEW s, ActedAndDropped(p), pr' = [pr EXCEPT ![p] = s], Arm \notin s.labels PROVE ParkKept(p)
  BY <1>5, <1>d DEF ParkKept
<1>6. CASE FailValidation(p)
  <2>1. PICK done \in Writes : pr' = [pr EXCEPT ![p] = FailReported(p, pr[p], done)]
    BY <1>6 DEF FailValidation
  <2>2. Arm \notin FailReported(p, pr[p], done).labels
    BY FailLabels
  <2>3. ActedAndDropped(p)
    BY <1>6 DEF FailValidation
  <2> QED BY <1>5, <2>1, <2>2, <2>3
<1>7. CASE SweepVerdict(p)
  <2>1. PICK done \in Writes : \/ pr' = [pr EXCEPT ![p] = Validated(pr[p])]
                              \/ pr' = [pr EXCEPT ![p] = FailReported(p, pr[p], done)]
    BY <1>7 DEF SweepVerdict
  <2>2. Arm \notin Validated(pr[p]).labels
    BY LabelEffects
  <2>3. Arm \notin FailReported(p, pr[p], done).labels
    BY FailLabels
  <2>4. ActedAndDropped(p)
    BY <1>7 DEF SweepVerdict
  <2> QED BY <1>5, <2>1, <2>2, <2>3, <2>4
<1>8. ASSUME ZombieDue(p) PROVE Park \notin pr[p].labels /\ rule >= 5
  BY <1>8, <1>v DEF ParkParts, ParksSeen, ReadsApart, VisitsRead
<1>9. CASE SweepZombie(p)
  <2>1. PICK c \in Started(p) :
          pr' = [pr EXCEPT ![p] = [With(Dispatched(pr[p], c), Arm)
                                     EXCEPT !.head.zombies = @ + 1, !.head.quiet = ZombieWindow]]
    BY <1>9 DEF SweepZombie
  <2> DEFINE d == Dispatched(pr[p], c)
             t == With(d, Arm)
             u == [t EXCEPT !.head.zombies = @ + 1, !.head.quiet = ZombieWindow]
  <2>2. d \in PrType /\ d.labels = pr[p].labels
    BY <2>1, DispatchedTyped, LabelFree DEF Started
  <2>3. pr' = [pr EXCEPT ![p] = u]
    BY <2>1
  <2> HIDE DEF d
  <2>4. t \in PrType
    BY <2>2, LabelsTyped
  <2>5. t.labels = d.labels \cup {Arm}
    BY <2>2, LabelEffects
  <2> HIDE DEF t
  <2>6. u.labels = pr[p].labels \cup {Arm}
    BY <2>2, <2>4, <2>5 DEF PrType
  <2> HIDE DEF u
  <2>7. Park \notin u.labels /\ rule >= 5
    BY <1>8, <1>9, <2>6 DEF SweepZombie
  <2> QED BY <1>s, <2>3, <2>7
<1>10. CASE SweepThrows(p)
  <2> DEFINE t == With(pr[p], Arm)
  <2>1. t.labels = pr[p].labels \cup {Arm}
    BY LabelEffects
  <2>2. pr' = [pr EXCEPT ![p] = t]
    BY <1>10 DEF SweepThrows
  <2> HIDE DEF t
  <2>3. Park \notin t.labels /\ rule >= 5
    BY <1>8, <1>10, <2>1 DEF SweepThrows
  <2> QED BY <1>s, <2>2, <2>3
<1>11. CASE SweepPark(p)
  <2>1. Without(pr[p], Arm) \in PrType
    BY LabelsTyped
  <2>2. Arm \notin Without(pr[p], Arm).labels /\ Arm \notin Parked(Without(pr[p], Arm)).labels
    BY <2>1, LabelEffects
  <2>3. \/ pr' = [pr EXCEPT ![p] = Parked(Without(pr[p], Arm))]
        \/ pr' = [pr EXCEPT ![p] = Without(pr[p], Arm)]
    BY <1>11 DEF SweepPark
  <2> QED BY <1>5, <1>11, <2>2, <2>3 DEF SweepPark
<1>12. CASE SweepKeeps(p)
  BY <1>12, <1>t DEF SweepKeeps, ParkKept
<1>13. CASE PassOver(p)
  <2>1. pr' = pr \/ pr' = [pr EXCEPT ![p] = Entered(p)]
          \/ \E ci \in Probes(p) : pr' = [pr EXCEPT ![p] = Stripped(p, ci)]
    BY <1>13 DEF PassOver
  <2>2. CASE pr' = pr
    BY <1>t, <2>2 DEF ParkKept
  <2> QED BY <1>e, <2>1, <2>2, TameKeeps
<1>14. CASE ResetInvisible(p)
  <2> DEFINE t == Pushed(Entered(p), "machine")
  <2>1. t \in PrType /\ Tame(p, t)
    BY <1>e, PushedTyped, LabelFree DEF Tame
  <2>2. \/ pr' = [pr EXCEPT ![p] = [t EXCEPT !.resets = @ + 1]]
        \/ pr' = [pr EXCEPT ![p] = Entered(p)]
    BY <1>14 DEF ResetInvisible
  <2> HIDE DEF t
  <2>3. Tame(p, [t EXCEPT !.resets = @ + 1])
    BY <2>1 DEF Tame, PrType
  <2> QED BY <1>e, <2>2, <2>3, TameKeeps
<1>15. CASE FastPath(p)
  <2>1. Validated(Entered(p)).labels = (Entered(p).labels \ {Arm}) \cup {Latch}
    BY <1>e, LabelEffects
  <2>2. Tame(p, Validated(Entered(p)))
    BY <1>e, <2>1 DEF Tame
  <2> QED BY <1>15, <1>e, <2>2, MergeTame DEF FastPath
<1>16. CASE ConcludeGhosts(p)
  <2> DEFINE s == [Entered(p) EXCEPT !.head.ghost = "none"]
  <2>1. s \in PrType /\ Tame(p, s)
    BY <1>e, ResetTyped, LabelFree DEF Tame
  <2>2. pr' = MergeAttempt(p, s, s)
    BY <1>16 DEF ConcludeGhosts
  <2> QED BY <2>1, <2>2, MergeTame
\* Arms: the park was seen, and the entry has cleared it.
<1>a. ASSUME NEW ci, NEW d, Decided(p, d, ci) PROVE rule >= 5 /\ Park \notin Stripped(p, ci).labels
  <2>1. rule >= 5
    BY <1>a, <1>v DEF Decided
  <2>2. Park \in pr[p].labels => Park \in todo[p]
    BY <1>v, <2>1 DEF ParkParts, ParksSeen
  <2> QED BY <2>1, <2>2, EnteredTame
<1>17. CASE ResetPlaceholder(p)
  <2>1. PICK ci \in Probes(p) :
          /\ Decided(p, "reset and dispatch", ci)
          /\ \/ pr' = [pr EXCEPT ![p] = Stripped(p, ci)]
             \/ \E c \in Started(p) :
                  pr' = [pr EXCEPT ![p] = [With(Dispatched(Pushed(Stripped(p, ci), "machine"), c), Arm)
                                             EXCEPT !.resets = @ + 1]]
    BY <1>17 DEF ResetPlaceholder
  <2>2. rule >= 5 /\ Park \notin Stripped(p, ci).labels
    BY <1>a, <2>1
  <2>3. ASSUME NEW c \in Started(p),
               pr' = [pr EXCEPT ![p] = [With(Dispatched(Pushed(Stripped(p, ci), "machine"), c), Arm)
                                          EXCEPT !.resets = @ + 1]]
        PROVE  ParkKept(p)
    <3> DEFINE a == Pushed(Stripped(p, ci), "machine")
               b == Dispatched(a, c)
               d == With(b, Arm)
               u == [d EXCEPT !.resets = @ + 1]
    <3>1. a \in PrType /\ a.labels = Stripped(p, ci).labels
      BY <1>e, PushedTyped, LabelFree
    <3>4. pr' = [pr EXCEPT ![p] = u]
      BY <2>3
    <3> HIDE DEF a
    <3>2. b \in PrType /\ b.labels = a.labels
      BY <2>3, <3>1, DispatchedTyped, LabelFree DEF Started
    <3> HIDE DEF b
    <3>3. d \in PrType
      BY <3>2, LabelsTyped
    <3>5. d.labels = b.labels \cup {Arm}
      BY <3>2, LabelEffects
    <3> HIDE DEF d
    <3>6. u.labels = d.labels
      BY <3>3 DEF PrType
    <3> HIDE DEF u
    <3> QED BY <1>s, <2>2, <3>1, <3>2, <3>4, <3>5, <3>6
  <2> QED BY <1>s, <2>1, <2>2, <2>3
<1>18. CASE Dispatch(p)
  <2>1. PICK ci \in Probes(p), c \in Started(p) :
          /\ Decided(p, "dispatch", ci)
          /\ pr' = [pr EXCEPT ![p] = With(Dispatched([Stripped(p, ci) EXCEPT !.head.ghost = "none"], c), Arm)]
    BY <1>18 DEF Dispatch
  <2> DEFINE s == [Stripped(p, ci) EXCEPT !.head.ghost = "none"]
             b == Dispatched(s, c)
             d == With(b, Arm)
  <2>2. rule >= 5 /\ Park \notin Stripped(p, ci).labels
    BY <1>a, <2>1
  <2>3. s \in PrType /\ s.labels = Stripped(p, ci).labels
    BY <1>e, ResetTyped, LabelFree
  <2>4. pr' = [pr EXCEPT ![p] = d]
    BY <2>1
  <2> HIDE DEF s
  <2>5. b \in PrType /\ b.labels = s.labels
    BY <2>1, <2>3, DispatchedTyped, LabelFree DEF Started
  <2> HIDE DEF b
  <2>6. d.labels = b.labels \cup {Arm}
    BY <2>5, LabelEffects
  <2> HIDE DEF d
  <2> QED BY <1>s, <2>2, <2>3, <2>4, <2>5, <2>6
<1>19. CASE DispatchThrows(p)
  <2>1. PICK ci \in Probes(p) : pr' = [pr EXCEPT ![p] = [Stripped(p, ci) EXCEPT !.head.ghost = "none"]]
    BY <1>19 DEF DispatchThrows
  <2>2. Tame(p, [Stripped(p, ci) EXCEPT !.head.ghost = "none"])
    BY <1>e, LabelFree DEF Tame
  <2> QED BY <2>1, <2>2, TameKeeps
<1>20. CASE Complete(p)
  <2>1. Tame(p, Validated(pr[p])) /\ pr' = [pr EXCEPT ![p] = Validated(pr[p])]
    BY <1>20, LabelEffects DEF Tame, Complete
  <2> QED BY <2>1, TameKeeps
<1> QED BY <1>1, <1>2, <1>3, <1>4, <1>6, <1>7, <1>9, <1>10, <1>11, <1>12, <1>13, <1>14, <1>15,
           <1>16, <1>17, <1>18, <1>19, <1>20 DEF Handle

\* Where a visit that leaves its rule leaves the tick.
LEMMA HandleLeaves ==
    ASSUME TypeOK, NEW p \in PRs, Handle(p), rule' # rule
    PROVE  /\ DOMAIN todo' = {}
           /\ rule' = rule + 1 \/ (rule' = 0 /\ list' = NoList)
           /\ rule = 4 => list' = NoList
<1>1. PICK counts, kept, S : Visited(p, counts, kept, S)
  BY HandleWalks DEF Acted, ActedAndDropped, Skipped
<1>2. Leave(kept, S)
  BY <1>1, VisitedIs
<1>3. rule # 0 /\ rule \in 0 .. LastRule
  BY HandleVisits DEF TypeOK
<1>4. rule = 4 => Current = "reset"
  BY <1>3, RuleNumber
<1> QED BY <1>2, <1>4, NoTicketsEmpty DEF Leave, TickEnds

\* A visit.
LEMMA HandlePark ==
    ASSUME TypeOK, Written, ParkParts, NEW p \in PRs, Handle(p)
    PROVE  ParkParts'
<1> ParkApart /\ ArmsSeen /\ ParksSeen /\ ReadsApart /\ VisitsRead
  BY DEF ParkParts
<1>1. Keeps(p) /\ ParkKept(p)
  BY HandleKeeps, HandleParks
<1>2. /\ list' \in {list, NoList}
      /\ \/ DOMAIN todo' = {}
         \/ /\ rule' = rule /\ DOMAIN todo' \subseteq (DOMAIN todo) \ {p}
            /\ \A q \in DOMAIN todo' : todo'[q] = todo[q]
  BY HandleWalks, WalkShrinks
<1>3. DOMAIN todo \subseteq PRs /\ rule \in 0 .. LastRule
  BY DEF TypeOK
<1>4. PICK n \in 0 .. 13 : n = rule'
  BY HandleTyped, RuleCount DEF TypeOK
<1>5. \/ n = rule
      \/ DOMAIN todo' = {} /\ (n = rule + 1 \/ (n = 0 /\ list' = NoList)) /\ (rule = 4 => list' = NoList)
  BY <1>3, <1>4, HandleLeaves
<1>6. ParkApart'
  BY <1>1 DEF ParkApart, Keeps, ParkKept
<1>7. ArmsSeen'
  <2> SUFFICES ASSUME n <= 4
      PROVE  /\ \A q \in DOMAIN todo' : Arm \in pr'[q].labels => Arm \in todo'[q]
             /\ list' # NoList => \A q \in PRs : pr'[q].open /\ Arm \in pr'[q].labels => Arm \in list'[q]
    BY <1>4 DEF ArmsSeen
  <2>1. CASE list' = NoList /\ DOMAIN todo' = {}
    BY <2>1
  <2>2. CASE rule <= 4
    BY <1>1, <1>2, <1>3, <2>2 DEF ArmsSeen, Keeps, ParkKept
  <2> QED BY <1>3, <1>5, <2>1, <2>2, RuleCount
<1>8. ParksSeen'
  <2> SUFFICES ASSUME n >= 5
      PROVE  /\ \A q \in DOMAIN todo' : Park \in pr'[q].labels => Park \in todo'[q]
             /\ list' # NoList => \A q \in PRs : pr'[q].open /\ Park \in pr'[q].labels => Park \in list'[q]
    BY <1>4 DEF ParksSeen
  <2>1. CASE list' = NoList /\ DOMAIN todo' = {}
    BY <2>1
  <2>2. CASE rule >= 5
    BY <1>1, <1>2, <1>3, <2>2 DEF ParksSeen, Keeps, ParkKept
  <2> QED BY <1>3, <1>5, <2>1, <2>2, RuleCount
<1>9. ReadsApart'
  BY <1>2 DEF ReadsApart
<1>10. VisitsRead'
  BY <1>2 DEF VisitsRead
<1> QED BY <1>6, <1>7, <1>8, <1>9, <1>10 DEF ParkParts

\* A query.
LEMMA QueryPark ==
    ASSUME TypeOK, Written, ParkParts, Query
    PROVE  ParkParts'
<1> ParkApart /\ ArmsSeen /\ ParksSeen /\ ReadsApart /\ VisitsRead
  BY DEF ParkParts
<1> rule \in 0 .. LastRule /\ rule # 0 /\ pr' = pr
  BY QueryGives DEF TypeOK, Query
<1>1. PICK h, k, m : Result(h, k, m)
  BY QueryGives
<1>2. m \subseteq Open /\ m \subseteq PRs /\ k \in {NoList, View}
  BY <1>1 DEF Result, Open
<1>3. rule <= 4 => \A q \in PRs : pr[q].open /\ Arm \in pr[q].labels => Arm \in View[q]
  BY DEF View, LiveLabels, ArmsSeen
<1>4. rule >= 5 => \A q \in PRs : pr[q].open /\ Park \in pr[q].labels => Park \in View[q]
  BY DEF View, LiveLabels, ParksSeen
<1>5. \A q \in PRs : ~ ({Arm, Park} \subseteq View[q])
  BY DEF View, LiveLabels, ReadsApart, ParkApart
<1>6. ParkApart'
  BY DEF ParkApart
<1>7. CASE m = {} /\ Leave(k, moved)
  <2>1. DOMAIN todo' = {}
    BY <1>7, NoTicketsEmpty DEF Leave
  <2>2. \/ rule' = 0 /\ list' = NoList
        \/ rule' = rule + 1 /\ list' \in {NoList, View} /\ (rule = 4 => list' = NoList)
    <3>1. rule = 4 => Current = "reset"
      BY RuleNumber
    <3> QED BY <1>2, <1>7, <3>1 DEF Leave, TickEnds
  <2>3. CASE list' = NoList
    BY <1>6, <2>1, <2>3 DEF ParkParts, ArmsSeen, ParksSeen, ReadsApart, VisitsRead
  <2>4. CASE rule' = rule + 1 /\ list' = View /\ rule # 4
    <3>1. rule + 1 <= 4 => rule <= 4
      OBVIOUS
    <3>2. rule + 1 >= 5 => rule >= 5
      BY <2>4
    <3>3. ArmsSeen'
      BY <1>3, <2>1, <2>4, <3>1 DEF ArmsSeen
    <3>4. ParksSeen'
      BY <1>4, <2>1, <2>4, <3>2 DEF ParksSeen
    <3> QED BY <1>5, <1>6, <2>1, <2>4, <3>3, <3>4 DEF ParkParts, ReadsApart, VisitsRead
  <2> QED BY <2>2, <2>3, <2>4
<1>8. CASE todo' = Tickets(View, m) /\ list' = k /\ rule' = rule
  <2>1. DOMAIN todo' = m /\ \A q \in m : todo'[q] = View[q]
    BY <1>8, TicketsAre
  <2>2. list' # NoList => list' = View
    BY <1>2, <1>8
  <2>3. ArmsSeen'
    BY <1>2, <1>3, <1>8, <2>1, <2>2 DEF ArmsSeen, Open
  <2>4. ParksSeen'
    BY <1>2, <1>4, <1>8, <2>1, <2>2 DEF ParksSeen, Open
  <2>5. ReadsApart'
    BY <1>2, <1>5, <2>1, <2>2 DEF ReadsApart
  <2>6. VisitsRead'
    <3>1. ASSUME NEW q \in m PROVE Wanted(Current, View[q], q)
      BY <1>1 DEF Result
    <3>2. ASSUME rule \in {3, 4}, NEW q \in m PROVE Arm \notin View[q]
      <4>0. rule = 3 => Current = "refresh"
        BY DEF Current, Rules
      <4>1. rule = 4 => Current = "reset"
        BY DEF Current, Rules
      <4>2. CASE Current = "refresh"
        BY <3>1, <4>2 DEF Wanted
      <4>3. CASE Current = "reset"
        BY <3>1, <4>3 DEF Wanted
      <4> QED BY <3>2, <4>0, <4>1, <4>2, <4>3
    <3>3. ASSUME rule = 7, NEW q \in m PROVE Arm \in View[q]
      <4>1. Current = "sweep"
        BY <3>3, RuleNumber
      <4> QED BY <3>1, <4>1 DEF Wanted
    <3> QED BY <1>8, <2>1, <3>2, <3>3 DEF VisitsRead
  <2> QED BY <1>6, <2>3, <2>4, <2>5, <2>6 DEF ParkParts
<1> QED BY <1>1, <1>7, <1>8 DEF Result

\* Everything else leaves the two labels alone.
LEMMA OutsidePark ==
    ASSUME TypeOK, Written, ParkParts, Environment \/ StartTick \/ UNCHANGED vars
    PROVE  ParkParts'
<1> ParkApart /\ ArmsSeen /\ ParksSeen /\ ReadsApart /\ VisitsRead
  BY DEF ParkParts
<1>1. \A q \in PRs : /\ pr'[q].open = pr[q].open
                     /\ Arm \in pr'[q].labels <=> Arm \in pr[q].labels
                     /\ Park \in pr'[q].labels <=> Park \in pr[q].labels
  BY OutsideLabels, LabelNames DEF QuietLabels
<1>2. /\ list' \in {list, NoList} \/ (list' = LiveLabels /\ pr' = pr)
      /\ \/ todo' = todo /\ (rule' = rule \/ (rule = 0 /\ rule' = 1))
         \/ DOMAIN todo' = {} /\ list' = NoList /\ rule' = 0
  BY OutsideWalks
<1>3. DOMAIN todo \subseteq PRs
  BY DEF TypeOK
<1>l. \A q \in PRs : pr[q].open => LiveLabels[q] = pr[q].labels
  BY DEF LiveLabels
<1>m. \A q \in PRs : ~ ({Arm, Park} \subseteq LiveLabels[q])
  BY DEF LiveLabels, ParkApart
<1>4. ParkApart'
  BY <1>1 DEF ParkApart
<1>5. CASE DOMAIN todo' = {} /\ list' = NoList /\ rule' = 0
  BY <1>4, <1>5 DEF ParkParts, ArmsSeen, ParksSeen, ReadsApart, VisitsRead
<1>6. CASE todo' = todo /\ (rule' = rule \/ (rule = 0 /\ rule' = 1))
  <2>1. ArmsSeen'
    <3>1. rule' <= 4 => rule <= 4
      BY <1>6
    <3> QED BY <1>1, <1>2, <1>3, <1>6, <1>l, <3>1 DEF ArmsSeen
  <2>2. ParksSeen'
    <3>1. rule' >= 5 => rule >= 5
      BY <1>6
    <3> QED BY <1>1, <1>2, <1>3, <1>6, <1>l, <3>1 DEF ParksSeen
  <2>3. ReadsApart'
    BY <1>2, <1>6, <1>m DEF ReadsApart
  <2>4. VisitsRead'
    BY <1>6 DEF VisitsRead
  <2> QED BY <1>4, <2>1, <2>2, <2>3, <2>4 DEF ParkParts
<1> QED BY <1>2, <1>5, <1>6

\* Nothing is armed or parked at the start.
LEMMA InitPark == Init => ParkInv
<1> SUFFICES ASSUME Init PROVE ParkInv
  OBVIOUS
<1>1. \A q \in PRs : Arm \notin pr[q].labels
  BY OpenedPRs DEF Init, Arm, Approved
<1>2. DOMAIN todo = {} /\ list = NoList
  BY NoTicketsEmpty DEF Init
<1> QED BY <1>1, <1>2 DEF ParkInv, ParkParts, ParkApart, ArmsSeen, ParksSeen, ReadsApart, VisitsRead

\* One step.
LEMMA NextPark == TypeOK /\ ParkInv /\ [Next]_vars => ParkInv'
<1> SUFFICES ASSUME TypeOK, ParkInv, [Next]_vars, Written' PROVE ParkParts'
  BY DEF ParkInv
<1>1. env' = env
  BY HandleWalks, QueryGives, OutsideWalks DEF Next, Tick
<1>2. Written /\ ParkParts
  BY <1>1 DEF ParkInv, Written, Undisturbed
<1> QED BY <1>2, HandlePark, QueryPark, OutsidePark DEF Next, Tick

\* The invariant, over every behaviour.
LEMMA ParkAlways == Spec => []ParkInv
BY InitPark, NextPark, TypeCorrect, PTL DEF Spec

\* A parked PR holds no slot, for any number of PRs, any caps and any
\* environment: whatever expires, dies, fails or is pushed in the middle of a
\* tick, no PR carries validation_failed and ai_validating at once.
THEOREM ParkHolds == Spec => []ParkedHoldsNoArm
<1>1. ParkInv => ParkedHoldsNoArm
  BY DEF ParkInv, ParkParts, ParkApart, Written, ParkedHoldsNoArm
<1> QED BY <1>1, ParkAlways, PTL

-----------------------------------------------------------------------------
(* No run after the park.  A head that has had ParkCap red runs is red, and *)
(* it is parked, or still armed for the fail path or the sweep, or behind   *)
(* the base, where only a push goes.  After the sweep it is parked as soon  *)
(* as its verdict is a unit old, and no younger red is dispatched on.       *)

Steady == Undisturbed({"lost labels", "failed writes", "slow ticks", "failed probes"})

Ripe(s) == s.head.streak >= ParkCap

\* A ripe head is red; a human push on a parked PR has no run yet; a run that is
\* active, was cancelled or made the head ripe is somebody's.
SoundRun(s) ==
    /\ Ripe(s) => s.head.ci = "red"
    /\ s.since # "same" => Park \in s.labels /\ s.head.ci = "none"
    /\ s.head.ci \in {"active", "cancelled"} \/ Ripe(s) => {Arm, Park} \cap s.labels # {} \/ s.base = "behind"

\* Ripe, for a unit, and not parked.
LooseRun(s) == Ripe(s) /\ s.head.old /\ Park \notin s.labels /\ s.base # "behind"

\* What the queries of the rules that take the arm away have made sure of.
VisitsRun ==
    \A p \in DOMAIN todo :
      /\ rule = 2 => pr[p].head.ci = "none" \/ pr[p].base = "behind"
      /\ rule \in {5, 13} => pr[p].head.ci \in {"green", "none"}
      /\ rule = 6 => pr[p].head.ci \in {"red", "none"}
      /\ rule \in 8 .. 12 /\ Ripe(pr[p]) /\ pr[p].head.old => Park \in todo[p]

\* Up to the sweep the cached list has every arm, so the sweep visits what is loose.
ArmsListed ==
    rule <= 7 /\ list # NoList => \A q \in PRs : pr[q].open /\ Arm \in pr[q].labels => Arm \in list[q]

SweepFinds ==
    \A p \in PRs : pr[p].open /\ LooseRun(pr[p]) =>
                    rule < 7 \/ (rule = 7 /\ (DOMAIN todo = {} \/ p \in DOMAIN todo))

RunInv == Steady => /\ \A p \in PRs : SoundRun(pr[p])
                    /\ VisitsRun /\ ArmsListed /\ SweepFinds

\* A steady tick reads the newest run, and its writes land.
LEMMA SteadyReads ==
    ASSUME Steady
    PROVE  /\ \A p : Probes(p) = {pr[p].head.ci}
           /\ ParkLanded = {TRUE}
           /\ ~ On("slow ticks")
           /\ Written /\ \A done \in Writes : {"unarm", "comment", "park"} \subseteq done
<1>1. ~ On("failed probes") /\ ~ On("lost labels") /\ ~ On("slow ticks") /\ ~ On("failed writes")
  BY DEF Steady, Undisturbed, On
<1>2. ParkLanded = {TRUE}
  BY <1>1 DEF ParkLanded
<1>3. Written
  BY <1>1 DEF Written, Undisturbed, On
<1>4. \A done \in Writes : {"unarm", "comment", "park"} \subseteq done
  BY <1>1, <1>2 DEF Writes
<1> QED BY <1>1, <1>2, <1>3, <1>4 DEF Probes, Fails

\* Label operators leave the run alone.
LEMMA RunEffects ==
    ASSUME NEW s \in PrType, NEW l \in Labels
    PROVE  /\ Without(s, l).head = s.head /\ Without(s, l).base = s.base /\ Without(s, l).since = s.since
           /\ With(s, l).head = s.head /\ With(s, l).base = s.base /\ With(s, l).since = s.since
           /\ Validated(s).head = s.head /\ Validated(s).base = s.base /\ Validated(s).since = s.since
           /\ Unparked(s).head = s.head /\ Unparked(s).base = s.base /\ Unparked(s).since = "same"
           /\ Parked(s).head = s.head /\ Parked(s).base = s.base /\ Parked(s).since = "same"
BY DEF Without, With, Validated, Unparked, Parked, PrType

\* The run of a head and its base, as the park sees them.
SameRun(s, t) ==
    /\ t.head.ci = s.head.ci /\ t.head.old = s.head.old /\ t.head.streak = s.head.streak
    /\ t.base = s.base

\* Pushes, dispatches and cleared check runs.
LEMMA HeadEffects ==
    ASSUME NEW s \in PrType, NEW who
    PROVE  /\ Pushed(s, who).head = NewHead /\ Pushed(s, who).base = "current"
           /\ Park \notin s.labels => Pushed(s, who).since = "same"
           /\ Dispatched(s, "none") = s
           /\ Dispatched(s, "active").head.ci = "active" /\ Dispatched(s, "active").head.old = FALSE
           /\ Dispatched(s, "active").head.streak = s.head.streak
           /\ Dispatched(s, "active").base = s.base /\ Dispatched(s, "active").since = s.since
           /\ SameRun(s, [s EXCEPT !.head.ghost = "none"])
           /\ [s EXCEPT !.head.ghost = "none"].since = s.since
<1>1. s.head \in HeadType
  BY DEF PrType
<1>2. Pushed(s, who).head = NewHead /\ Pushed(s, who).base = "current"
      /\ (Park \notin s.labels => Pushed(s, who).since = "same")
  BY DEF Pushed, PrType
<1>3. Dispatched(s, "none") = s
  BY DEF Dispatched
<1>4. Dispatched(s, "active") = [s EXCEPT !.head = [s.head EXCEPT !.ci = "active", !.old = FALSE]]
  BY DEF Dispatched, PrType
<1>5. [s EXCEPT !.head.ghost = "none"] = [s EXCEPT !.head = [s.head EXCEPT !.ghost = "none"]]
  BY DEF PrType
<1>6. /\ Dispatched(s, "active").head.ci = "active" /\ Dispatched(s, "active").head.old = FALSE
      /\ Dispatched(s, "active").head.streak = s.head.streak
      /\ Dispatched(s, "active").base = s.base /\ Dispatched(s, "active").since = s.since
  BY <1>1, <1>4 DEF PrType, HeadType
<1>7. /\ SameRun(s, [s EXCEPT !.head.ghost = "none"])
      /\ [s EXCEPT !.head.ghost = "none"].since = s.since
  BY <1>1, <1>5 DEF PrType, HeadType, SameRun
<1> QED BY <1>2, <1>3, <1>6, <1>7

\* The machine pushes to a PR that is not parked.
LEMMA PushedRun ==
    ASSUME NEW s \in PrType, Park \notin s.labels
    PROVE  Pushed(s, "machine").head = NewHead /\ Pushed(s, "machine").since = "same"
BY HeadEffects

\* A fresh head is not ripe.
LEMMA NewHeadRun ==
    /\ NewHead.ci = "none" /\ NewHead.old = FALSE /\ NewHead.streak = 0
    /\ \A s : s.head.streak = 0 => ~ Ripe(s)
<1>1. ParkCap \in Nat /\ ParkCap > 0
  BY Caps
<1> QED BY <1>1 DEF NewHead, Ripe

\* What a step must do for a PR p that it leaves as t.
RunOK(p, t) ==
    /\ t.head.ci = "active" /\ pr[p].head.ci # "active" => ~ Ripe(t)
    /\ SoundRun(t)
    /\ Ripe(t) /\ t.head.old => Ripe(pr[p]) /\ pr[p].head.old
    /\ LooseRun(t) => LooseRun(pr[p]) /\ rule # 7

\* The run is left alone and nobody's label is taken from it.
LEMMA KeptRun ==
    ASSUME NEW p \in PRs, SoundRun(pr[p]), NEW t, SameRun(pr[p], t),
           t.since # "same" => t.since = pr[p].since /\ Park \in t.labels,
           (pr[p].head.ci \in {"active", "cancelled"} \/ Ripe(pr[p])) /\ {Arm, Park} \cap pr[p].labels # {} =>
             {Arm, Park} \cap t.labels # {} \/ pr[p].base = "behind",
           Ripe(pr[p]) /\ Park \in pr[p].labels => Park \in t.labels,
           LooseRun(t) => rule # 7
    PROVE  RunOK(p, t)
<1>1. Ripe(t) <=> Ripe(pr[p])
  BY DEF SameRun, Ripe
<1>2. SoundRun(t)
  BY <1>1 DEF SoundRun, SameRun
<1>3. LooseRun(t) => LooseRun(pr[p])
  BY <1>1 DEF LooseRun, SameRun
<1> QED BY <1>1, <1>2, <1>3 DEF RunOK, SameRun

\* ... which is simple while there is no run to park for.
LEMMA CalmRun ==
    ASSUME NEW p \in PRs, SoundRun(pr[p]), NEW t, SameRun(pr[p], t), pr[p].head.ci \in {"green", "none"},
           t.since # "same" => t.since = pr[p].since /\ Park \in t.labels
    PROVE  RunOK(p, t)
<1>1. ~ Ripe(pr[p]) /\ ~ Ripe(t)
  BY DEF SoundRun, SameRun, Ripe
<1> QED BY <1>1, KeptRun DEF LooseRun

\* A fresh head.
LEMMA FreshRun ==
    ASSUME NEW p \in PRs, NEW t, t.head.streak = 0, t.head.ci \in {"none", "active"},
           t.since # "same" => Park \in t.labels /\ t.head.ci = "none",
           t.head.ci = "active" => Arm \in t.labels
    PROVE  RunOK(p, t)
BY NewHeadRun DEF RunOK, SoundRun, LooseRun

\* A run is started on a head that is not ripe.
LEMMA StartedRun ==
    ASSUME NEW p \in PRs, NEW t, ~ Ripe(t), t.head.ci = "active", t.since = "same",
           {Arm, Park} \cap t.labels # {} \/ t.base = "behind"
    PROVE  RunOK(p, t)
BY DEF RunOK, SoundRun, LooseRun

\* A merge, tried while there is no run to park for.
LEMMA MergeRun ==
    ASSUME pr \in [PRs -> PrType], NEW p \in PRs, SoundRun(pr[p]), pr[p].head.ci \in {"green", "none"},
           NEW s \in PrType, SameRun(pr[p], s), s.since # "same" => s.since = pr[p].since /\ Park \in s.labels,
           NEW refused, RunOK(p, refused), pr' = MergeAttempt(p, s, refused)
    PROVE  RunOK(p, pr'[p])
<1>1. CASE Approved \notin s.labels
  <2>1. pr'[p] = Validated(s)
    BY <1>1 DEF MergeAttempt
  <2>2. Validated(s).head = s.head /\ Validated(s).base = s.base /\ Validated(s).since = s.since
    BY RunEffects, LabelNames
  <2>3. Validated(s).labels = (s.labels \ {Arm}) \cup {Latch}
    BY LabelEffects, LabelNames
  <2>4. SameRun(pr[p], Validated(s))
    BY <2>2 DEF SameRun
  <2>5. Validated(s).since # "same" => Validated(s).since = pr[p].since /\ Park \in Validated(s).labels
    BY <2>2, <2>3, LabelNames
  <2> HIDE DEF MergeAttempt
  <2> QED BY <2>1, <2>4, <2>5, CalmRun
<1>2. CASE Approved \in s.labels /\ Clean(p, s)
  <2>1. pr'[p] = Closed(pr[p])
    BY <1>2 DEF MergeAttempt, Merged
  <2>2. pr'[p].head = NewHead /\ pr'[p].since = "same"
    BY <2>1 DEF Closed, PrType
  <2> QED BY <2>2, NewHeadRun, FreshRun
<1>3. CASE Approved \in s.labels /\ ~ Clean(p, s)
  BY <1>3 DEF MergeAttempt
<1> QED BY <1>1, <1>2, <1>3

\* A decision is taken under one of the five rules that ask for one.
LEMMA DecidedVisits ==
    ASSUME TypeOK, NEW p, NEW d, NEW ci, Decided(p, d, ci)
    PROVE  rule \in 8 .. 12 /\ p \in DOMAIN todo
<1> rule \in 0 .. LastRule
  BY DEF TypeOK
<1>1. PICK r \in Validating : Visiting(r, p)
  BY DEF Decided
<1>2. rule # 0 /\ p \in DOMAIN todo /\ Current \in {"arm", "rearm", "rearm green", "fresh", "fresh green"}
  BY <1>1 DEF Visiting, Validating, MergePath
<1>3. \/ rule = 8 \/ rule = 9 \/ rule = 10 \/ rule = 11 \/ rule = 12
  BY <1>2, RuleNumber
<1>4. rule \in 8 .. 12
  BY <1>3
<1> QED BY <1>2, <1>4

\* Who gets beyond the deferral has no park that a human push has not answered,
\* so the entry takes nothing from a head with a run.
LEMMA EntryRun ==
    ASSUME TypeOK, ParkParts, Steady, RunInv, NEW p \in PRs, NEW d, d # "defer", NEW ci, Decided(p, d, ci)
    PROVE  /\ Entered(p) \in PrType /\ Stripped(p, ci) \in PrType
           /\ ci = pr[p].head.ci
           /\ Park \in todo[p] => pr[p].head.ci = "none"
           /\ SameRun(pr[p], Entered(p)) /\ SameRun(pr[p], Stripped(p, ci))
           /\ Entered(p).since = "same" /\ Stripped(p, ci).since = "same"
           /\ Park \notin Entered(p).labels /\ Park \notin Stripped(p, ci).labels
           /\ RunOK(p, Entered(p)) /\ RunOK(p, Stripped(p, ci))
<1> pr \in [PRs -> PrType] /\ pr[p] \in PrType
  BY DEF TypeOK
<1> USE LabelNames
<1>0. SoundRun(pr[p])
  BY DEF RunInv
<1>1. rule \in 8 .. 12 /\ p \in DOMAIN todo
  BY DecidedVisits
<1>2. ci = pr[p].head.ci
  BY SteadyReads DEF Decided
<1>3. Park \in todo[p] => pr[p].since = "human"
  <2>1. PICK r, free : Decision(p, r, ci, free) = d
    BY DEF Decided
  <2>2. Park \in todo[p] /\ pr[p].since # "human" => Decision(p, r, ci, free) = "defer"
    BY DEF Decision
  <2> QED BY <2>1, <2>2
<1>4. Park \in todo[p] => pr[p].head.ci = "none"
  BY <1>0, <1>3 DEF SoundRun
<1>5. Park \notin todo[p] => Park \notin pr[p].labels /\ pr[p].since = "same"
  BY <1>0, <1>1 DEF SoundRun, ParkParts, ParksSeen
<1>6. Entered(p) \in PrType /\ Stripped(p, ci) \in PrType
  BY EnteredTyped
<1>7. Entered(p).head = pr[p].head /\ Entered(p).base = pr[p].base /\ Entered(p).since = "same"
  BY <1>5, RunEffects DEF Entered
<1>8. Park \notin Entered(p).labels /\ (Arm \in pr[p].labels => Arm \in Entered(p).labels)
  BY <1>5, LabelEffects DEF Entered
<1>9. Without(Entered(p), Latch).labels = Entered(p).labels \ {Latch}
  BY <1>6, LabelEffects
<1>10. /\ Without(Entered(p), Latch).head = Entered(p).head
       /\ Without(Entered(p), Latch).base = Entered(p).base
       /\ Without(Entered(p), Latch).since = Entered(p).since
  BY <1>6, RunEffects
<1>11. /\ Stripped(p, ci).head = pr[p].head /\ Stripped(p, ci).base = pr[p].base /\ Stripped(p, ci).since = "same"
       /\ Park \notin Stripped(p, ci).labels /\ (Arm \in pr[p].labels => Arm \in Stripped(p, ci).labels)
  BY <1>7, <1>8, <1>9, <1>10 DEF Stripped
<1>12. ASSUME NEW t, t.head = pr[p].head, t.base = pr[p].base, t.since = "same", Arm \in pr[p].labels => Arm \in t.labels
       PROVE  SameRun(pr[p], t) /\ RunOK(p, t)
  <2>1. SameRun(pr[p], t)
    BY <1>12 DEF SameRun
  <2>2. CASE Park \in todo[p]
    BY <1>0, <1>4, <1>12, <2>1, <2>2, CalmRun
  <2>3. CASE Park \notin todo[p]
    <3>1. {Arm, Park} \cap pr[p].labels # {} => {Arm, Park} \cap t.labels # {}
      BY <1>5, <1>12, <2>3
    <3>2. Park \notin pr[p].labels
      BY <1>5, <2>3
    <3>3. rule # 7
      BY <1>1
    <3> QED BY <1>0, <1>12, <2>1, <3>1, <3>2, <3>3, KeptRun
  <2> QED BY <2>2, <2>3
<1>13. SameRun(pr[p], Entered(p)) /\ RunOK(p, Entered(p))
  BY <1>7, <1>8, <1>12
<1>14. SameRun(pr[p], Stripped(p, ci)) /\ RunOK(p, Stripped(p, ci))
  BY <1>11, <1>12
<1> QED BY <1>2, <1>4, <1>6, <1>7, <1>8, <1>11, <1>13, <1>14

\* A fail report parks a ripe head.
LEMMA FailRun ==
    ASSUME pr \in [PRs -> PrType], NEW p \in PRs, SoundRun(pr[p]), pr[p].head.ci \in {"red", "none"},
           NEW done, {"unarm", "comment", "park"} \subseteq done
    PROVE  RunOK(p, FailReported(p, pr[p], done))
<1> DEFINE w == Without(pr[p], Arm)
           t == [w EXCEPT !.head.reds = IF @ < RedCap THEN @ + 1 ELSE @]
           f == FailReported(p, pr[p], done)
<1> pr[p] \in PrType
  OBVIOUS
<1>1. w \in PrType /\ w.head = pr[p].head /\ w.base = pr[p].base /\ w.since = pr[p].since
  BY LabelsTyped, LabelNames, RunEffects
<1>2. w.labels = pr[p].labels \ {Arm}
  BY LabelEffects, LabelNames
<1>3. f = (IF p \in Guests \/ pr[p].head.streak >= ParkCap THEN Parked(t) ELSE t)
  BY DEF FailReported
<1> HIDE DEF w
<1>4. /\ t \in PrType /\ t.labels = w.labels /\ t.base = w.base /\ t.since = w.since
      /\ t.head.ci = w.head.ci /\ t.head.old = w.head.old /\ t.head.streak = w.head.streak
  BY <1>1, Caps DEF PrType, HeadType
<1> HIDE DEF t, f
<1>5. /\ Parked(t).head = t.head /\ Parked(t).base = t.base /\ Parked(t).since = "same"
      /\ Parked(t).labels = t.labels \cup {Park}
  BY <1>4, RunEffects, LabelEffects, LabelNames
<1>6. SameRun(pr[p], f)
  BY <1>1, <1>3, <1>4, <1>5 DEF SameRun
<1>7. f.since # "same" => f.since = pr[p].since /\ Park \in f.labels
  BY <1>1, <1>2, <1>3, <1>4, <1>5, LabelNames DEF SoundRun
<1>8. Ripe(pr[p]) => Park \in f.labels
  BY <1>3, <1>5 DEF Ripe
<1>9. LooseRun(f) => FALSE
  BY <1>6, <1>8 DEF LooseRun, Ripe, SameRun
<1>10. RunOK(p, f)
  BY <1>6, <1>7, <1>8, <1>9, KeptRun
<1> QED BY <1>10 DEF f

\* No rule dispatches on a ripe head: its verdict is too young, or the sweep has
\* parked it before the query.
LEMMA DispatchUnripe ==
    ASSUME TypeOK, ParkParts, Steady, RunInv, NEW p \in PRs, NEW ci, Decided(p, "dispatch", ci)
    PROVE  ~ Ripe(pr[p])
<1> SUFFICES ASSUME Ripe(pr[p]) PROVE FALSE
  OBVIOUS
<1>1. SoundRun(pr[p]) /\ VisitsRun
  BY DEF RunInv
<1>2. ci = pr[p].head.ci /\ pr[p].head.ci = "red" /\ (Park \in todo[p] => pr[p].head.ci = "none")
  BY <1>1, EntryRun DEF SoundRun
<1>3. PICK r, free : Decision(p, r, ci, free) = "dispatch"
  BY DEF Decided
<1>4. ci \in {"red", "cancelled"} /\ ~ pr[p].head.old => Decision(p, r, ci, free) # "dispatch"
  BY DEF Decision
<1>5. pr[p].head.old
  BY <1>2, <1>3, <1>4
<1>6. Park \in todo[p]
  BY <1>1, <1>5, DecidedVisits DEF VisitsRun
<1> QED BY <1>2, <1>6

\* Every visit treats the run well.
LEMMA HandleRun ==
    ASSUME TypeOK, ParkParts, Steady, RunInv, NEW p \in PRs, Handle(p)
    PROVE  RunOK(p, pr'[p])
<1> pr \in [PRs -> PrType] /\ pr[p] \in PrType /\ rule \in 0 .. LastRule /\ rule # 0 /\ p \in DOMAIN todo
  BY HandleVisits DEF TypeOK
<1> USE LabelNames
<1>s. SoundRun(pr[p]) /\ VisitsRun
  BY DEF RunInv
<1>p. \A ci \in Probes(p) : ci = pr[p].head.ci
  BY SteadyReads
<1>l. ParkLanded = {TRUE} /\ \A done \in Writes : {"unarm", "comment", "park"} \subseteq done
  BY SteadyReads
<1>i. SameRun(pr[p], pr[p]) /\ (pr[p].since # "same" => Park \in pr[p].labels)
  BY <1>s DEF SameRun, SoundRun
<1>n. ASSUME rule # 7 \/ ~ LooseRun(pr[p]) PROVE RunOK(p, pr[p])
  BY <1>n, <1>s, <1>i, KeptRun
<1>1. CASE Rerun(p)
  <2>1. rule # 7
    <3>1. Current = "rerun"
      BY <1>1 DEF Rerun, Visiting
    <3> QED BY <3>1, RuleNumber
  <2> DEFINE h == [pr[p].head EXCEPT !.ci = "active", !.old = FALSE, !.rerun = TRUE]
             t == [pr[p] EXCEPT !.head = h]
  <2>2. pr' = pr \/ (pr' = [pr EXCEPT ![p] = t] /\ pr[p].head.ci = "cancelled")
    BY <1>1 DEF Rerun
  <2>3. /\ t.head.ci = "active" /\ t.head.streak = pr[p].head.streak
        /\ t.since = pr[p].since /\ t.labels = pr[p].labels /\ t.base = pr[p].base
    BY DEF PrType, HeadType
  <2> HIDE DEF t
  <2>4. ASSUME pr[p].head.ci = "cancelled" PROVE RunOK(p, t)
    BY <1>s, <2>3, <2>4, StartedRun DEF SoundRun, Ripe
  <2> QED BY <1>n, <2>1, <2>2, <2>4
<1>2. CASE Unarm(p)
  <2>1. rule = 2
    <3>1. Current = "unarm"
      BY <1>2 DEF Unarm, Visiting
    <3> QED BY <3>1, RuleNumber
  <2>2. pr[p].head.ci = "none" \/ pr[p].base = "behind"
    BY <1>s, <2>1 DEF VisitsRun
  <2>3. pr'[p] \in {Validated(pr[p]), Without(pr[p], Arm)}
    BY <1>2 DEF Unarm
  <2>4. ASSUME NEW t \in {Validated(pr[p]), Without(pr[p], Arm)} PROVE RunOK(p, t)
    <3>1. t.head = pr[p].head /\ t.base = pr[p].base /\ t.since = pr[p].since
      BY RunEffects
    <3>2. Park \in pr[p].labels => Park \in t.labels
      BY LabelEffects
    <3>3. SameRun(pr[p], t)
      BY <3>1 DEF SameRun
    <3>4. CASE pr[p].head.ci = "none"
      BY <1>s, <1>i, <3>1, <3>2, <3>3, <3>4, CalmRun
    <3>5. CASE pr[p].base = "behind"
      BY <1>s, <1>i, <2>1, <3>1, <3>2, <3>3, <3>5, KeptRun
    <3> QED BY <2>2, <3>4, <3>5
  <2> QED BY <2>3, <2>4
<1>3. CASE UpdateBranch(p)
  <2> DEFINE s == ParkReviewed(p, pr[p])
  <2>1. rule # 7
    BY <1>3, HandleVisits
  <2>2. pr'[p] \in {s, Pushed(s, "machine")}
    BY <1>3 DEF UpdateBranch
  <2>3. s \in {pr[p], Parked(pr[p])}
          \/ (s = Unparked(pr[p]) /\ (pr[p].since # "same" \/ Checks(pr[p].head) = "green"))
    BY DEF ParkReviewed
  <2>4. Unparked(pr[p]) \in PrType /\ Parked(pr[p]) \in PrType
    BY LabelsTyped
  <2>5. Checks(pr[p].head) = "green" => pr[p].head.ci \in {"green", "none"}
    BY DEF Checks, PrType, HeadType
  <2>6. s \in PrType /\ s.head = pr[p].head /\ s.base = pr[p].base
    BY <2>3, <2>4, RunEffects
  <2>7. s.since # "same" => s.since = pr[p].since /\ Park \in s.labels
    BY <1>i, <2>3, RunEffects
  <2>8. pr[p].since # "same" => pr[p].head.ci = "none"
    BY <1>s DEF SoundRun
  <2>9. Parked(pr[p]).labels = pr[p].labels \cup {Park}
    BY LabelEffects
  <2>10. pr[p].labels \subseteq s.labels \/ pr[p].head.ci \in {"green", "none"}
    BY <2>3, <2>5, <2>8, <2>9
  <2> HIDE DEF s
  <2>11. SameRun(pr[p], s)
    BY <2>6 DEF SameRun
  <2>12. RunOK(p, s)
    <3>1. CASE pr[p].head.ci \in {"green", "none"}
      BY <1>s, <2>7, <2>11, <3>1, CalmRun
    <3>2. CASE pr[p].labels \subseteq s.labels
      BY <1>s, <2>1, <2>7, <2>11, <3>2, KeptRun
    <3> QED BY <2>10, <3>1, <3>2
  <2>13. RunOK(p, Pushed(s, "machine"))
    <3>1. Pushed(s, "machine").head = NewHead /\ Pushed(s, "machine").labels = s.labels
          /\ (Park \notin s.labels => Pushed(s, "machine").since = "same")
      BY <2>6, HeadEffects, LabelFree, ZenonT(30)
    <3> QED BY <3>1, NewHeadRun, FreshRun
  <2> QED BY <2>2, <2>12, <2>13
<1>4. CASE Merge(p)
  <2>1. rule = 5
    <3>1. Current = "merge"
      BY <1>4 DEF Merge, Visiting
    <3> QED BY <3>1, RuleNumber
  <2>2. pr[p].head.ci \in {"green", "none"}
    BY <1>s, <2>1 DEF VisitsRun
  <2>3. pr' = MergeAttempt(p, pr[p], pr[p])
    BY <1>4 DEF Merge
  <2> QED BY <1>s, <1>i, <1>n, <2>1, <2>2, <2>3, MergeRun
<1>5. CASE FailValidation(p)
  <2>1. rule = 6
    <3>1. Current = "fail"
      BY <1>5 DEF FailValidation, Visiting
    <3> QED BY <3>1, RuleNumber
  <2>2. pr[p].head.ci \in {"red", "none"}
    BY <1>s, <2>1 DEF VisitsRun
  <2>3. PICK done \in Writes : pr' = [pr EXCEPT ![p] = FailReported(p, pr[p], done)]
    BY <1>5 DEF FailValidation
  <2>4. pr'[p] = FailReported(p, pr[p], done)
    BY <2>3
  <2> QED BY <1>s, <1>l, <2>2, <2>4, FailRun
<1>6. CASE SweepVerdict(p)
  <2>1. PICK ci \in Probes(p) \cap {"green", "red"}, done \in Writes :
          pr' = [pr EXCEPT ![p] = IF ci = "green" THEN Validated(pr[p]) ELSE FailReported(p, pr[p], done)]
    BY <1>6 DEF SweepVerdict
  <2>2. ci = pr[p].head.ci
    BY <1>p, <2>1
  <2>3. CASE ci = "green"
    <3>1. pr'[p] = Validated(pr[p])
      BY <2>1, <2>3
    <3>2. Validated(pr[p]).head = pr[p].head /\ Validated(pr[p]).base = pr[p].base
          /\ Validated(pr[p]).since = pr[p].since
      BY RunEffects
    <3>3. Park \in pr[p].labels => Park \in Validated(pr[p]).labels
      BY LabelEffects
    <3>4. SameRun(pr[p], Validated(pr[p]))
      BY <3>2 DEF SameRun
    <3> QED BY <1>s, <1>i, <2>2, <2>3, <3>1, <3>2, <3>3, <3>4, CalmRun
  <2>4. CASE ci = "red"
    <3>1. pr'[p] = FailReported(p, pr[p], done)
      BY <2>1, <2>4
    <3> QED BY <1>s, <1>l, <2>1, <2>2, <2>4, <3>1, FailRun
  <2> QED BY <2>1, <2>3, <2>4
\* The zombie sweep finds no run, or a cancelled one.
<1>z. ASSUME \E ci \in Probes(p) : Dead(p, ci) PROVE pr[p].head.ci \in {"none", "cancelled"} /\ ~ Ripe(pr[p])
  <2>1. pr[p].head.ci \in {"none", "cancelled"}
    BY <1>z, <1>p DEF Dead
  <2> QED BY <1>s, <2>1 DEF SoundRun
<1>y. ASSUME ZombieDue(p) PROVE pr[p].since = "same"
  BY <1>y, <1>s, HandleVisits DEF SoundRun, ParkParts, ParksSeen, ReadsApart, VisitsRead
<1>x. ASSUME NEW t, pr'[p] = t, SameRun(pr[p], t), ~ Ripe(pr[p]), t.since = "same", {Arm, Park} \cap t.labels # {}
      PROVE  RunOK(p, pr'[p])
  <2>1. ~ LooseRun(t)
    BY <1>x DEF LooseRun, SameRun, Ripe
  <2> QED BY <1>s, <1>x, <2>1, KeptRun
<1>7. CASE SweepZombie(p)
  <2>1. PICK c \in Started(p) :
          pr' = [pr EXCEPT ![p] = [With(Dispatched(pr[p], c), Arm)
                                     EXCEPT !.head.zombies = @ + 1, !.head.quiet = ZombieWindow]]
    BY <1>7 DEF SweepZombie
  <2> DEFINE d == Dispatched(pr[p], c)
             t == With(d, Arm)
             u == [t EXCEPT !.head.zombies = @ + 1, !.head.quiet = ZombieWindow]
  <2>2. ZombieDue(p) /\ c \in {"active", "none"}
    BY <1>7, <2>1 DEF SweepZombie, Started
  <2>3. d \in PrType
    BY <2>2, DispatchedTyped
  <2>4. t \in PrType /\ t.head = d.head /\ t.base = d.base /\ t.since = d.since
    BY <2>3, LabelsTyped, RunEffects
  <2>5. t.labels = d.labels \cup {Arm}
    BY <2>3, LabelEffects
  <2>6. pr'[p] = u
    BY <2>1
  <2>7. \/ c = "none" /\ d = pr[p]
        \/ /\ d.head.ci = "active" /\ d.head.streak = pr[p].head.streak
           /\ d.since = pr[p].since
    BY <2>2, HeadEffects, ZenonT(30)
  <2> HIDE DEF d, t
  <2>8. /\ u.labels = t.labels /\ u.base = t.base /\ u.since = t.since
        /\ u.head.ci = t.head.ci /\ u.head.old = t.head.old /\ u.head.streak = t.head.streak
    BY <2>4 DEF PrType, HeadType
  <2> HIDE DEF u
  <2>9. ~ Ripe(pr[p]) /\ pr[p].since = "same"
    BY <1>z, <1>y, <2>2 DEF ZombieDue
  <2>10. CASE d = pr[p]
    <3>1. SameRun(pr[p], u)
      BY <2>4, <2>8, <2>10 DEF SameRun
    <3> QED BY <1>x, <2>4, <2>5, <2>6, <2>8, <2>9, <2>10, <3>1
  <2>11. CASE d.head.ci = "active" /\ d.head.streak = pr[p].head.streak /\ d.since = pr[p].since
    <3>1. ~ Ripe(u) /\ u.head.ci = "active" /\ u.since = "same" /\ {Arm, Park} \cap u.labels # {}
      BY <2>4, <2>5, <2>8, <2>9, <2>11 DEF Ripe
    <3> QED BY <2>6, <3>1, StartedRun
  <2> QED BY <2>7, <2>10, <2>11
<1>8. CASE SweepThrows(p)
  <2> DEFINE t == With(pr[p], Arm)
  <2>1. t.labels = pr[p].labels \cup {Arm}
    BY LabelEffects
  <2>2. t.head = pr[p].head /\ t.base = pr[p].base /\ t.since = pr[p].since
    BY RunEffects
  <2>3. pr'[p] = t /\ ZombieDue(p)
    BY <1>8 DEF SweepThrows
  <2> HIDE DEF t
  <2>4. SameRun(pr[p], t)
    BY <2>2 DEF SameRun
  <2>5. ~ Ripe(pr[p]) /\ pr[p].since = "same"
    BY <1>z, <1>y, <2>3 DEF ZombieDue
  <2> QED BY <1>x, <2>1, <2>2, <2>3, <2>4, <2>5
<1>9. CASE SweepPark(p)
  <2> DEFINE w == Without(pr[p], Arm)
  <2>1. w \in PrType /\ w.head = pr[p].head /\ w.base = pr[p].base
    BY LabelsTyped, RunEffects
  <2>2. pr'[p] = Parked(w)
    BY <1>9, <1>l DEF SweepPark
  <2> HIDE DEF w
  <2>3. Parked(w).head = w.head /\ Parked(w).base = w.base /\ Parked(w).since = "same"
    BY <2>1, RunEffects
  <2>4. Park \in Parked(w).labels
    BY <2>1, LabelEffects
  <2>5. SameRun(pr[p], Parked(w))
    BY <2>1, <2>3 DEF SameRun
  <2>6. ~ Ripe(pr[p])
    BY <1>9, <1>z DEF SweepPark
  <2> QED BY <1>x, <2>2, <2>3, <2>4, <2>5, <2>6
<1>10. CASE SweepKeeps(p)
  <2>1. ~ LooseRun(pr[p])
    <3> SUFFICES ASSUME Ripe(pr[p]), pr[p].head.old PROVE FALSE
      BY DEF LooseRun
    <3>1. pr[p].head.ci = "red"
      BY <1>s DEF SoundRun
    <3> QED BY <1>10, <1>p, <3>1 DEF SweepKeeps, Dead
  <2> QED BY <1>10, <1>n, <2>1 DEF SweepKeeps
<1>q. ASSUME NEW ci, NEW d, Decided(p, d, ci) PROVE rule # 7
  BY <1>q, DecidedVisits
<1>11. CASE PassOver(p)
  <2>1. PICK ci \in Probes(p) :
          \/ Decided(p, "defer", ci) /\ UNCHANGED pr
          \/ Decided(p, "skip", ci) /\ pr' = [pr EXCEPT ![p] = Entered(p)]
          \/ Decided(p, "strip", ci) /\ pr' = [pr EXCEPT ![p] = Stripped(p, ci)]
    BY <1>11 DEF PassOver
  <2>2. CASE Decided(p, "defer", ci) /\ UNCHANGED pr
    BY <1>n, <1>q, <2>2
  <2>3. CASE Decided(p, "skip", ci) /\ pr' = [pr EXCEPT ![p] = Entered(p)]
    BY <2>3, EntryRun
  <2>4. CASE Decided(p, "strip", ci) /\ pr' = [pr EXCEPT ![p] = Stripped(p, ci)]
    BY <2>4, EntryRun
  <2> QED BY <2>1, <2>2, <2>3, <2>4
<1>12. CASE ResetInvisible(p)
  <2>1. PICK ci : Decided(p, "reset", ci)
    BY <1>12 DEF ResetInvisible
  <2>2. Entered(p) \in PrType /\ Park \notin Entered(p).labels /\ RunOK(p, Entered(p))
    BY <2>1, EntryRun
  <2> DEFINE t == Pushed(Entered(p), "machine")
             u == [t EXCEPT !.resets = @ + 1]
  <2>3. t \in PrType /\ t.head = NewHead /\ t.since = "same"
    <3>1. t \in PrType
      BY <2>2, PushedTyped
    <3>2. t.head = NewHead /\ t.since = "same"
      BY <2>2, PushedRun
    <3> QED BY <3>1, <3>2
  <2>4. pr'[p] \in {u, Entered(p)}
    BY <1>12 DEF ResetInvisible
  <2> HIDE DEF t
  <2>5. u.head = t.head /\ u.since = t.since
    BY <2>3 DEF PrType
  <2> HIDE DEF u
  <2> QED BY <2>2, <2>3, <2>4, <2>5, NewHeadRun, FreshRun
<1>13. CASE FastPath(p)
  <2>1. PICK ci : Decided(p, "merge", ci)
    BY <1>13 DEF FastPath
  <2>2. PICK r, free : Decision(p, r, ci, free) = "merge"
    BY <2>1 DEF Decided
  <2>3. ci = "green"
    BY <2>2 DEF Decision
  <2>4. /\ pr[p].head.ci = "green" /\ Entered(p) \in PrType
        /\ SameRun(pr[p], Entered(p)) /\ Entered(p).since = "same"
    BY <2>1, <2>3, EntryRun
  <2>5. Validated(Entered(p)).head = Entered(p).head /\ Validated(Entered(p)).base = Entered(p).base
        /\ Validated(Entered(p)).since = Entered(p).since
    BY <2>4, RunEffects
  <2>6. RunOK(p, Validated(Entered(p)))
    <3>1. SameRun(pr[p], Validated(Entered(p)))
      BY <2>4, <2>5 DEF SameRun
    <3> QED BY <1>s, <2>4, <2>5, <3>1, CalmRun
  <2>7. pr' = MergeAttempt(p, Entered(p), Validated(Entered(p)))
    BY <1>13 DEF FastPath
  <2> QED BY <1>s, <2>4, <2>6, <2>7, MergeRun
<1>14. CASE ConcludeGhosts(p)
  <2> DEFINE s == [Entered(p) EXCEPT !.head.ghost = "none"]
  <2>1. PICK ci : Decided(p, "conclude", ci)
    BY <1>14 DEF ConcludeGhosts
  <2>2. PICK r, free : Decision(p, r, ci, free) = "conclude"
    BY <2>1 DEF Decided
  <2>3. ci = "green"
    BY <2>2 DEF Decision
  <2>4. /\ pr[p].head.ci = "green" /\ Entered(p) \in PrType
        /\ SameRun(pr[p], Entered(p)) /\ Entered(p).since = "same"
    BY <2>1, <2>3, EntryRun
  <2>5. s \in PrType /\ SameRun(Entered(p), s) /\ s.since = "same"
    BY <2>4, ResetTyped, HeadEffects
  <2>6. pr' = MergeAttempt(p, s, s)
    BY <1>14 DEF ConcludeGhosts
  <2> HIDE DEF s
  <2>7. SameRun(pr[p], s)
    BY <2>4, <2>5 DEF SameRun
  <2>8. RunOK(p, s)
    BY <1>s, <2>4, <2>5, <2>7, CalmRun
  <2> QED BY <1>s, <2>4, <2>5, <2>6, <2>7, <2>8, MergeRun
<1>15. CASE ResetPlaceholder(p)
  <2>1. PICK ci \in Probes(p) :
          /\ Decided(p, "reset and dispatch", ci)
          /\ \/ pr' = [pr EXCEPT ![p] = Stripped(p, ci)]
             \/ \E c \in Started(p) :
                  pr' = [pr EXCEPT ![p] = [With(Dispatched(Pushed(Stripped(p, ci), "machine"), c), Arm)
                                             EXCEPT !.resets = @ + 1]]
    BY <1>15 DEF ResetPlaceholder
  <2>2. Stripped(p, ci) \in PrType /\ RunOK(p, Stripped(p, ci)) /\ Park \notin Stripped(p, ci).labels
    BY <2>1, EntryRun
  <2>3. ASSUME NEW c \in Started(p),
               pr' = [pr EXCEPT ![p] = [With(Dispatched(Pushed(Stripped(p, ci), "machine"), c), Arm)
                                          EXCEPT !.resets = @ + 1]]
        PROVE  RunOK(p, pr'[p])
    <3> DEFINE a == Pushed(Stripped(p, ci), "machine")
               b == Dispatched(a, c)
               d == With(b, Arm)
               u == [d EXCEPT !.resets = @ + 1]
    <3>1. a \in PrType /\ a.head = NewHead /\ a.since = "same"
      <4>1. a \in PrType
        BY <2>2, PushedTyped
      <4>2. a.head = NewHead /\ a.since = "same"
        BY <2>2, PushedRun
      <4> QED BY <4>1, <4>2
    <3>2. pr'[p] = u /\ c \in {"active", "none"}
      BY <2>3 DEF Started
    <3> HIDE DEF a
    <3>3. b \in PrType /\ (b = a \/ (b.head.ci = "active" /\ b.head.streak = a.head.streak /\ b.since = a.since))
      <4>1. b \in PrType
        BY <3>1, <3>2, DispatchedTyped
      <4>2. b = a \/ (b.head.ci = "active" /\ b.head.streak = a.head.streak /\ b.since = a.since)
        BY <3>1, <3>2, HeadEffects, ZenonT(30)
      <4> QED BY <4>1, <4>2
    <3> HIDE DEF b
    <3>4. d \in PrType /\ d.head = b.head /\ d.since = b.since
      BY <3>3, LabelsTyped, RunEffects
    <3>5. d.labels = b.labels \cup {Arm}
      BY <3>3, LabelEffects
    <3> HIDE DEF d
    <3>6. u.labels = d.labels /\ u.head = d.head /\ u.since = d.since
      BY <3>4 DEF PrType
    <3> HIDE DEF u
    <3>7. u.head.streak = 0 /\ u.head.ci \in {"none", "active"} /\ u.since = "same" /\ Arm \in u.labels
      BY <3>1, <3>3, <3>4, <3>5, <3>6, NewHeadRun
    <3> QED BY <3>2, <3>7, FreshRun
  <2> QED BY <2>1, <2>2, <2>3
<1>16. CASE Dispatch(p)
  <2>1. PICK ci \in Probes(p), c \in Started(p) :
          /\ Decided(p, "dispatch", ci)
          /\ pr' = [pr EXCEPT ![p] = With(Dispatched([Stripped(p, ci) EXCEPT !.head.ghost = "none"], c), Arm)]
    BY <1>16 DEF Dispatch
  <2> DEFINE s == [Stripped(p, ci) EXCEPT !.head.ghost = "none"]
             b == Dispatched(s, c)
             d == With(b, Arm)
  <2>2. /\ Stripped(p, ci) \in PrType /\ SameRun(pr[p], Stripped(p, ci)) /\ Stripped(p, ci).since = "same"
        /\ c \in {"active", "none"}
    BY <2>1, EntryRun DEF Started
  <2>3. s \in PrType /\ SameRun(Stripped(p, ci), s) /\ s.since = "same"
    <3>1. s \in PrType
      BY <2>2, ResetTyped
    <3>2. SameRun(Stripped(p, ci), s) /\ s.since = "same"
      BY <2>2, HeadEffects
    <3> QED BY <3>1, <3>2
  <2>4. pr'[p] = d
    BY <2>1
  <2>5. ~ Ripe(pr[p])
    BY <2>1, DispatchUnripe
  <2> HIDE DEF s
  <2>6. b \in PrType /\ (b = s \/ (b.head.ci = "active" /\ b.head.streak = s.head.streak /\ b.since = s.since))
    <3>1. b \in PrType
      BY <2>2, <2>3, DispatchedTyped
    <3>2. b = s \/ (b.head.ci = "active" /\ b.head.streak = s.head.streak /\ b.since = s.since)
      BY <2>2, <2>3, HeadEffects, ZenonT(30)
    <3> QED BY <3>1, <3>2
  <2> HIDE DEF b
  <2>7. d.head = b.head /\ d.since = b.since /\ d.base = b.base
    BY <2>6, RunEffects
  <2>8. d.labels = b.labels \cup {Arm}
    BY <2>6, LabelEffects
  <2> HIDE DEF d
  <2>9. SameRun(pr[p], s)
    BY <2>2, <2>3 DEF SameRun
  <2>10. CASE b = s
    <3>1. SameRun(pr[p], d) /\ d.since = "same" /\ {Arm, Park} \cap d.labels # {}
      BY <2>3, <2>7, <2>8, <2>9, <2>10 DEF SameRun
    <3> QED BY <1>x, <2>4, <2>5, <3>1
  <2>11. CASE b.head.ci = "active" /\ b.head.streak = s.head.streak /\ b.since = s.since
    <3>1. ~ Ripe(d) /\ d.head.ci = "active" /\ d.since = "same" /\ {Arm, Park} \cap d.labels # {}
      BY <2>3, <2>5, <2>7, <2>8, <2>9, <2>11 DEF Ripe, SameRun
    <3> QED BY <2>4, <3>1, StartedRun
  <2> QED BY <2>6, <2>10, <2>11
<1>17. CASE DispatchThrows(p)
  <2>1. PICK ci \in Probes(p) :
          /\ Decided(p, "dispatch", ci)
          /\ pr' = [pr EXCEPT ![p] = [Stripped(p, ci) EXCEPT !.head.ghost = "none"]]
    BY <1>17 DEF DispatchThrows
  <2> DEFINE s == [Stripped(p, ci) EXCEPT !.head.ghost = "none"]
  <2>2. Stripped(p, ci) \in PrType /\ RunOK(p, Stripped(p, ci)) /\ Stripped(p, ci).since = "same"
    BY <2>1, EntryRun
  <2>3. SameRun(Stripped(p, ci), s) /\ s.since = "same"
    BY <2>2, HeadEffects
  <2>4. s.labels = Stripped(p, ci).labels
    BY <2>2, LabelFree
  <2>5. pr'[p] = s
    BY <2>1
  <2> HIDE DEF s
  <2> QED BY <2>2, <2>3, <2>4, <2>5 DEF RunOK, SoundRun, LooseRun, Ripe, SameRun
<1>18. CASE Complete(p)
  <2>1. rule = 13
    <3>1. Current = "complete"
      BY <1>18 DEF Complete, Visiting
    <3> QED BY <3>1, RuleNumber
  <2>2. pr[p].head.ci \in {"green", "none"}
    BY <1>s, <2>1 DEF VisitsRun
  <2>3. pr'[p] = Validated(pr[p])
    BY <1>18 DEF Complete
  <2>4. Validated(pr[p]).head = pr[p].head /\ Validated(pr[p]).base = pr[p].base
        /\ Validated(pr[p]).since = pr[p].since
    BY RunEffects
  <2>5. Park \in pr[p].labels => Park \in Validated(pr[p]).labels
    BY LabelEffects
  <2>6. SameRun(pr[p], Validated(pr[p]))
    BY <2>4 DEF SameRun
  <2> QED BY <1>s, <1>i, <2>2, <2>3, <2>4, <2>5, <2>6, CalmRun
<1> QED BY <1>1, <1>2, <1>3, <1>4, <1>5, <1>6, <1>7, <1>8, <1>9, <1>10, <1>11, <1>12, <1>13, <1>14,
           <1>15, <1>16, <1>17, <1>18 DEF Handle

\* A visit changes one PR; a merge moves the base of the others.
LEMMA OthersStay ==
    ASSUME pr \in [PRs -> PrType], NEW p \in PRs, Handle(p), NEW q \in PRs, q # p
    PROVE  /\ pr'[q].head = pr[q].head /\ pr'[q].since = pr[q].since
           /\ pr'[q].labels = pr[q].labels /\ pr'[q].open = pr[q].open
           /\ pr'[q].base = pr[q].base \/ pr'[q].base = "behind"
<1> pr[q] \in PrType
  OBVIOUS
<1>1. pr'[q] = pr[q] \/ pr'[q] = Outdated(pr[q])
  <2>1. ASSUME NEW s, NEW r, pr' = MergeAttempt(p, s, r) PROVE pr'[q] = pr[q] \/ pr'[q] = Outdated(pr[q])
    BY <2>1 DEF MergeAttempt, Merged
  <2>2. CASE Rerun(p) \/ Unarm(p) \/ UpdateBranch(p) \/ FailValidation(p) \/ Complete(p)
    BY <2>2 DEF Rerun, Unarm, UpdateBranch, FailValidation, Complete
  <2>3. CASE SweepVerdict(p) \/ SweepZombie(p) \/ SweepThrows(p) \/ SweepPark(p) \/ SweepKeeps(p)
    BY <2>3 DEF SweepVerdict, SweepZombie, SweepThrows, SweepPark, SweepKeeps
  <2>4. CASE Merge(p) \/ FastPath(p) \/ ConcludeGhosts(p)
    BY <2>1, <2>4 DEF Merge, FastPath, ConcludeGhosts
  <2>5. CASE PassOver(p) \/ ResetInvisible(p) \/ ResetPlaceholder(p) \/ Dispatch(p) \/ DispatchThrows(p)
    BY <2>5 DEF PassOver, ResetInvisible, ResetPlaceholder, Dispatch, DispatchThrows
  <2> QED BY <2>2, <2>3, <2>4, <2>5 DEF Handle
<1>2. /\ Outdated(pr[q]).head = pr[q].head /\ Outdated(pr[q]).since = pr[q].since
      /\ Outdated(pr[q]).labels = pr[q].labels /\ Outdated(pr[q]).open = pr[q].open
      /\ Outdated(pr[q]).base \in {pr[q].base, "behind"}
  BY DEF Outdated, PrType
<1> QED BY <1>1, <1>2

\* The sweep drops the list when it arms.
LEMMA ZombieDrops ==
    ASSUME TypeOK, NEW p \in PRs, Handle(p), ZombieDue(p)
    PROVE  list' = NoList \/ pr' = pr
<1>1. ASSUME ActedAndDropped(p) PROVE list' = NoList
  BY <1>1, VisitedShrinks DEF ActedAndDropped
<1>2. Current = "sweep"
  BY DEF ZombieDue, Sweeping, Visiting
<1>3. CASE SweepVerdict(p) \/ SweepZombie(p) \/ SweepThrows(p) \/ SweepPark(p)
  BY <1>1, <1>3 DEF SweepVerdict, SweepZombie, SweepThrows, SweepPark
<1>4. CASE SweepKeeps(p)
  BY <1>4 DEF SweepKeeps
<1>5. CASE Rerun(p) \/ Unarm(p) \/ UpdateBranch(p) \/ Merge(p) \/ FailValidation(p) \/ Complete(p)
  BY <1>2, <1>5 DEF Rerun, Unarm, UpdateBranch, Merge, FailValidation, Complete, Visiting
<1>6. CASE PassOver(p) \/ ResetInvisible(p) \/ FastPath(p) \/ ConcludeGhosts(p) \/ ResetPlaceholder(p)
            \/ Dispatch(p) \/ DispatchThrows(p)
  <2>1. PICK r \in Validating : Visiting(r, p)
    BY <1>6 DEF PassOver, ResetInvisible, FastPath, ConcludeGhosts, ResetPlaceholder, Dispatch,
                DispatchThrows, Decided
  <2> QED BY <1>2, <2>1 DEF Validating, MergePath, Visiting
<1> QED BY <1>3, <1>4, <1>5, <1>6 DEF Handle

\* The sweep visits all it has found.
LEMMA SweepWalks ==
    ASSUME TypeOK, NEW p \in PRs, Handle(p), rule = 7, NEW q \in DOMAIN todo, q # p
    PROVE  rule' = 7 /\ q \in DOMAIN todo'
<1>1. PICK counts, kept, S : Visited(p, counts, kept, S)
  BY HandleWalks DEF Acted, ActedAndDropped, Skipped
<1>2. Current \notin Limited
  <2>1. Current = "sweep"
    BY DEF Current, Rules
  <2> QED BY <2>1 DEF Limited
<1>3. (DOMAIN todo) \ {p} # {} /\ q \in (DOMAIN todo) \ {p}
  OBVIOUS
<1>4. todo' = Tickets(todo, (DOMAIN todo) \ {p}) /\ rule' = rule
  BY <1>1, <1>2, <1>3, Zenon DEF Visited, Remains
<1> QED BY <1>3, <1>4, TicketsAre

\* What a step may do to a PR the tick does not visit: s becomes t.
Settles(s, t) ==
    /\ SoundRun(t)
    /\ t.open => s.open
    /\ Arm \in t.labels => Arm \in s.labels
    /\ s.head.ci = "none" \/ s.base = "behind" => t.head.ci = "none" \/ t.base = "behind"
    /\ s.head.ci \in {"green", "none"} => t.head.ci \in {"green", "none"}
    /\ s.head.ci \in {"red", "none"} => t.head.ci \in {"red", "none"}
    /\ Ripe(t) /\ t.head.old => Ripe(s) /\ s.head.old
    /\ LooseRun(t) => LooseRun(s)
    /\ t.head.ci = "active" => s.head.ci = "active"

\* A visit does that to the others.
LEMMA OthersSettle ==
    ASSUME pr \in [PRs -> PrType], NEW p \in PRs, Handle(p), NEW q \in PRs, q # p, SoundRun(pr[q])
    PROVE  Settles(pr[q], pr'[q])
<1>1. /\ pr'[q].head = pr[q].head /\ pr'[q].since = pr[q].since
      /\ pr'[q].labels = pr[q].labels /\ pr'[q].open = pr[q].open
      /\ pr'[q].base = pr[q].base \/ pr'[q].base = "behind"
  BY OthersStay
<1>2. SoundRun(pr'[q])
  BY <1>1 DEF SoundRun, Ripe
<1>3. LooseRun(pr'[q]) => LooseRun(pr[q])
  BY <1>1 DEF LooseRun, Ripe
<1> QED BY <1>1, <1>2, <1>3 DEF Settles, Ripe

\* What the tick knows of the PRs it has still to visit survives.
LEMMA SettledVisits ==
    ASSUME VisitsRun, NEW Rest \in SUBSET DOMAIN todo, rule' = rule, DOMAIN todo' = Rest,
           \A q \in Rest : todo'[q] = todo[q] /\ Settles(pr[q], pr'[q])
    PROVE  VisitsRun'
BY DEF VisitsRun, Settles

\* A visit keeps the invariant.
LEMMA HandleKeepsRun ==
    ASSUME TypeOK, ParkInv, RunInv, NEW p \in PRs, Handle(p)
    PROVE  RunInv'
<1>1. env' = env
  BY HandleWalks
<1> SUFFICES ASSUME Steady PROVE ((\A q \in PRs : SoundRun(pr[q])) /\ VisitsRun /\ ArmsListed /\ SweepFinds)'
  BY <1>1 DEF RunInv, Steady, Undisturbed
<1> Written /\ ParkParts
  BY SteadyReads DEF ParkInv
<1> pr \in [PRs -> PrType] /\ DOMAIN todo \subseteq PRs /\ rule \in 0 .. LastRule /\ rule # 0 /\ p \in DOMAIN todo
  BY HandleVisits DEF TypeOK
<1> (\A q \in PRs : SoundRun(pr[q])) /\ VisitsRun /\ ArmsListed /\ SweepFinds
  BY DEF RunInv
<1>2. RunOK(p, pr'[p])
  BY HandleRun
<1>3. \A q \in PRs : q # p => Settles(pr[q], pr'[q])
  BY OthersSettle
<1>4. /\ list' \in {list, NoList}
      /\ \/ DOMAIN todo' = {}
         \/ /\ rule' = rule /\ DOMAIN todo' \subseteq (DOMAIN todo) \ {p}
            /\ \A q \in DOMAIN todo' : todo'[q] = todo[q]
  BY HandleWalks, WalkShrinks
<1>5. PICK n \in 0 .. 13 : n = rule'
  BY HandleTyped, RuleCount DEF TypeOK
<1>6. n = rule \/ (DOMAIN todo' = {} /\ (n = rule + 1 \/ (n = 0 /\ list' = NoList)))
  BY <1>5, HandleLeaves
<1>7. \A q \in PRs : SoundRun(pr'[q])
  BY <1>2, <1>3 DEF RunOK, Settles
<1>8. VisitsRun'
  <2>1. CASE DOMAIN todo' = {}
    BY <2>1 DEF VisitsRun
  <2>2. CASE /\ rule' = rule /\ DOMAIN todo' \subseteq (DOMAIN todo) \ {p}
             /\ \A q \in DOMAIN todo' : todo'[q] = todo[q]
    BY <1>3, <2>2, SettledVisits
  <2> QED BY <1>4, <2>1, <2>2
<1>9. ArmsListed'
  <2> SUFFICES ASSUME n <= 7, list' # NoList, NEW q \in PRs, pr'[q].open, Arm \in pr'[q].labels
      PROVE  Arm \in list'[q]
    BY <1>5 DEF ArmsListed
  <2>1. rule <= 7 /\ list' = list
    BY <1>4, <1>6, RuleCount
  <2>2. pr[q].open
    BY HandleKeeps DEF Keeps
  <2>3. Arm \in pr[q].labels
    <3>1. CASE q # p
      BY <1>3, <3>1 DEF Settles
    <3>2. CASE q = p
      <4>1. CASE NoNewArm(p)
        BY <3>2, <4>1 DEF NoNewArm
      <4>2. CASE ZombieDue(p)
        BY <4>2, ZombieDrops
      <4>3. ASSUME NEW ci, NEW d, Decided(p, d, ci) PROVE FALSE
        <5>1. rule \in 8 .. 12
          BY <4>3, DecidedVisits
        <5> QED BY <2>1, <5>1
      <4> QED BY <4>1, <4>2, <4>3, HandleKeeps
    <3> QED BY <3>1, <3>2
  <2> QED BY <2>1, <2>2, <2>3 DEF ArmsListed
<1>10. SweepFinds'
  <2> SUFFICES ASSUME NEW q \in PRs, pr'[q].open, LooseRun(pr'[q])
      PROVE  n < 7 \/ (n = 7 /\ (DOMAIN todo' = {} \/ q \in DOMAIN todo'))
    BY <1>5 DEF SweepFinds
  <2>1. pr[q].open /\ LooseRun(pr[q]) /\ (q = p => rule # 7)
    <3>1. pr[q].open
      BY HandleKeeps DEF Keeps
    <3> QED BY <1>2, <1>3, <3>1 DEF RunOK, Settles
  <2>2. rule < 7 \/ (rule = 7 /\ q \in DOMAIN todo)
    BY <2>1 DEF SweepFinds
  <2>3. CASE rule < 7
    BY <1>6, <2>3
  <2>4. CASE rule = 7 /\ q \in DOMAIN todo
    BY <1>5, <2>1, <2>4, SweepWalks
  <2> QED BY <2>2, <2>3, <2>4
<1> QED BY <1>7, <1>8, <1>9, <1>10

\* What is loose when the sweep or a later rule asks, and who is asked for there.
LEMMA QueryFinds ==
    ASSUME TypeOK, ParkParts, RunInv, Steady, NEW h, NEW k, NEW m, Result(h, k, m),
           rule \in 0 .. LastRule, rule # 0
    PROVE  /\ rule = 7 => \A q \in PRs : pr[q].open /\ LooseRun(pr[q]) => q \in m
           /\ rule \in 8 .. 12 => \A q \in m : Ripe(pr[q]) /\ pr[q].head.old => Park \in View[q]
<1> (\A q \in PRs : SoundRun(pr[q])) /\ VisitsRun /\ ArmsListed /\ SweepFinds /\ ParksSeen
  BY DEF RunInv, ParkParts
<1>1. m = {q \in Open : Wanted(Current, View[q], q) /\ MutexLets(Current, h, q)}
  BY DEF Result
<1>2. ASSUME rule = 7, NEW q \in PRs, pr[q].open, LooseRun(pr[q]) PROVE q \in m
  <2>1. Current = "sweep"
    BY <1>2, RuleNumber
  <2>2. Arm \in pr[q].labels /\ pr[q].base # "behind"
    BY <1>2 DEF LooseRun, SoundRun
  <2>3. Arm \in View[q]
    BY <1>2, <2>2 DEF View, LiveLabels, ArmsListed
  <2>4. Wanted("sweep", View[q], q)
    BY <2>2, <2>3 DEF Wanted
  <2>5. MutexLets("sweep", h, q)
    BY DEF MutexLets, MergePath
  <2> QED BY <1>1, <1>2, <2>1, <2>4, <2>5 DEF Open
<1>3. ASSUME rule \in 8 .. 12, NEW q \in m, Ripe(pr[q]), pr[q].head.old PROVE Park \in View[q]
  <2>1. q \in PRs /\ pr[q].open /\ Wanted(Current, View[q], q)
    BY <1>1 DEF Open
  <2>2. Park \in pr[q].labels => Park \in View[q]
    <3>1. rule >= 5
      BY <1>3
    <3> QED BY <2>1, <3>1 DEF View, LiveLabels, ParksSeen
  <2>3. pr[q].base # "behind"
    <3>1. \/ Current = "arm" \/ Current = "rearm" \/ Current = "rearm green"
          \/ Current = "fresh" \/ Current = "fresh green"
      <4>1. /\ rule # 1 /\ rule # 2 /\ rule # 3 /\ rule # 4 /\ rule # 5 /\ rule # 6 /\ rule # 7
            /\ rule # 13
        BY <1>3
      <4> QED BY <4>1, RuleNumber, Zenon
    <3>2. CASE Current = "arm"
      BY <2>1, <3>2 DEF Wanted
    <3>3. CASE Current = "rearm"
      BY <2>1, <3>3 DEF Wanted
    <3>4. CASE Current = "rearm green"
      BY <2>1, <3>4 DEF Wanted
    <3>5. CASE Current = "fresh"
      BY <2>1, <3>5 DEF Wanted
    <3>6. CASE Current = "fresh green"
      BY <2>1, <3>6 DEF Wanted
    <3> QED BY <3>1, <3>2, <3>3, <3>4, <3>5, <3>6
  <2>4. ~ LooseRun(pr[q])
    BY <1>3, <2>1 DEF SweepFinds
  <2> QED BY <1>3, <2>2, <2>3, <2>4 DEF LooseRun
<1> QED BY <1>2, <1>3

\* Who is asked for by the other rules that take the arm away.
LEMMA QueryReads ==
    ASSUME TypeOK, NEW q \in PRs, NEW l, Wanted(Current, l, q), rule \in 0 .. LastRule, rule # 0
    PROVE  /\ rule = 2 => pr[q].base = "behind"
           /\ rule \in {5, 13} => pr[q].head.ci \in {"green", "none"}
           /\ rule = 6 => pr[q].head.ci \in {"red", "none"}
<1> pr[q] \in PrType
  BY DEF TypeOK
<1>1. ASSUME rule = 2 PROVE pr[q].base = "behind"
  <2>1. Current = "unarm"
    BY <1>1, RuleNumber
  <2> QED BY <2>1 DEF Wanted
<1>2. ASSUME rule = 5 PROVE pr[q].head.ci \in {"green", "none"}
  <2>1. Current = "merge"
    BY <1>2, RuleNumber
  <2> QED BY <2>1 DEF Wanted, Clean
<1>3. ASSUME rule = 13 PROVE pr[q].head.ci \in {"green", "none"}
  <2>1. Current = "complete"
    BY <1>3, RuleNumber
  <2>2. Checks(pr[q].head) = "green"
    BY <2>1 DEF Wanted
  <2> QED BY <2>2 DEF Checks, PrType, HeadType
<1>4. ASSUME rule = 6 PROVE pr[q].head.ci \in {"red", "none"}
  <2>1. Current = "fail"
    BY <1>4, RuleNumber
  <2>2. Checks(pr[q].head) = "red"
    BY <2>1 DEF Wanted
  <2> QED BY <2>2 DEF Checks, PrType, HeadType
<1> QED BY <1>1, <1>2, <1>3, <1>4

\* A query keeps the invariant.
LEMMA QueryKeepsRun ==
    ASSUME TypeOK, ParkInv, RunInv, Query
    PROVE  RunInv'
<1>1. env' = env /\ pr' = pr
  BY QueryGives
<1> SUFFICES ASSUME Steady PROVE ((\A q \in PRs : SoundRun(pr[q])) /\ VisitsRun /\ ArmsListed /\ SweepFinds)'
  BY <1>1 DEF RunInv, Steady, Undisturbed
<1> Written /\ ParkParts
  BY SteadyReads DEF ParkInv
<1> rule \in 0 .. LastRule /\ rule # 0
  BY DEF TypeOK, Query
<1> (\A q \in PRs : SoundRun(pr[q])) /\ VisitsRun /\ ArmsListed /\ SweepFinds
  BY DEF RunInv
<1>2. PICK h, k, m : Result(h, k, m)
  BY QueryGives
<1>3. m \subseteq PRs /\ m \subseteq Open /\ k \in {NoList, View} /\ \A q \in m : Wanted(Current, View[q], q)
  BY <1>2 DEF Result, Open
<1>4. PICK n \in 0 .. 13 : n = rule'
  BY QueryTyped, RuleCount DEF TypeOK
<1>5. \A q \in PRs : SoundRun(pr'[q])
  BY <1>1
<1>6. \/ m = {} /\ DOMAIN todo' = {} /\ (n = rule + 1 \/ (n = 0 /\ list' = NoList)) /\ list' \in {NoList, View}
      \/ m # {} /\ DOMAIN todo' = m /\ (\A q \in m : todo'[q] = View[q]) /\ n = rule /\ list' \in {NoList, View}
  <2>1. CASE m = {} /\ Leave(k, moved)
    BY <1>3, <1>4, <2>1, NoTicketsEmpty DEF Leave, TickEnds
  <2>2. CASE m # {} /\ todo' = Tickets(View, m) /\ list' = k /\ rule' = rule
    BY <1>3, <1>4, <2>2, TicketsAre
  <2> QED BY <1>2, <2>1, <2>2 DEF Result
<1>7. VisitsRun'
  <2>1. CASE DOMAIN todo' = {}
    BY <2>1 DEF VisitsRun
  <2>2. CASE m # {} /\ DOMAIN todo' = m /\ (\A q \in m : todo'[q] = View[q]) /\ n = rule
    <3>1. ASSUME NEW q \in m
          PROVE  /\ rule = 2 => pr[q].head.ci = "none" \/ pr[q].base = "behind"
                 /\ rule \in {5, 13} => pr[q].head.ci \in {"green", "none"}
                 /\ rule = 6 => pr[q].head.ci \in {"red", "none"}
                 /\ rule \in 8 .. 12 /\ Ripe(pr[q]) /\ pr[q].head.old => Park \in View[q]
      <4>1. q \in PRs /\ Wanted(Current, View[q], q)
        BY <1>3
      <4>2. /\ rule = 2 => pr[q].base = "behind"
            /\ rule \in {5, 13} => pr[q].head.ci \in {"green", "none"}
            /\ rule = 6 => pr[q].head.ci \in {"red", "none"}
        BY <4>1, QueryReads
      <4>3. rule \in 8 .. 12 /\ Ripe(pr[q]) /\ pr[q].head.old => Park \in View[q]
        BY <1>2, QueryFinds
      <4> QED BY <4>2, <4>3
    <3> QED BY <1>1, <1>4, <2>2, <3>1 DEF VisitsRun
  <2> QED BY <1>6, <2>1, <2>2
<1>8. ArmsListed'
  <2> SUFFICES ASSUME n <= 7, list' # NoList, NEW q \in PRs, pr[q].open, Arm \in pr[q].labels
      PROVE  Arm \in list'[q]
    BY <1>1, <1>4 DEF ArmsListed
  <2>1. rule <= 7 /\ list' = View
    BY <1>6, RuleCount
  <2> QED BY <2>1 DEF View, LiveLabels, ArmsListed
<1>9. SweepFinds'
  <2> SUFFICES ASSUME NEW q \in PRs, pr[q].open, LooseRun(pr[q])
      PROVE  n < 7 \/ (n = 7 /\ (DOMAIN todo' = {} \/ q \in DOMAIN todo'))
    BY <1>1, <1>4 DEF SweepFinds
  <2>1. rule < 7 \/ rule = 7
    BY DEF SweepFinds
  <2>2. rule = 7 => q \in m
    BY <1>2, QueryFinds
  <2> QED BY <1>6, <2>1, <2>2
<1> QED BY <1>5, <1>7, <1>8, <1>9

\* CI, people and time do no more than Settles allows, and start no run; only
\* between ticks does time make a verdict old.
LEMMA OutsideSettles ==
    ASSUME TypeOK, Steady, \A q \in PRs : SoundRun(pr[q]), Environment \/ StartTick \/ UNCHANGED vars,
           NEW q \in PRs
    PROVE  \/ Settles(pr[q], pr'[q])
           \/ /\ rule = 0 /\ rule' = 0 /\ todo' = todo /\ SoundRun(pr'[q])
              /\ pr'[q].head.ci = "active" => pr[q].head.ci = "active"
<1> pr \in [PRs -> PrType] /\ pr[q] \in PrType /\ SoundRun(pr[q])
  BY DEF TypeOK
<1> USE Caps
<1>1. \A s : SoundRun(s) => Settles(s, s)
  BY DEF Settles
<1>2. CASE Elapse
  <2>1. rule = 0 /\ rule' = 0 /\ todo' = todo /\ (pr'[q] = Aged(pr[q]) \/ pr'[q] = pr[q])
    BY <1>2, SteadyReads DEF Elapse, Outside
  <2>2. /\ Aged(pr[q]).head.ci = pr[q].head.ci /\ Aged(pr[q]).head.streak = pr[q].head.streak
        /\ Aged(pr[q]).since = pr[q].since /\ Aged(pr[q]).labels = pr[q].labels /\ Aged(pr[q]).base = pr[q].base
    BY DEF Aged, PrType, HeadType
  <2>3. SoundRun(Aged(pr[q]))
    BY <2>2 DEF SoundRun, Ripe
  <2> QED BY <2>1, <2>2, <2>3
<1>3. CASE CacheExpires \/ TickDies
  BY <1>3, SteadyReads DEF CacheExpires, TickDies
<1>4. CASE StartTick \/ UNCHANGED vars
  BY <1>1, <1>4 DEF StartTick, vars
<1>5. ASSUME NEW p \in PRs, RunEnds(p) PROVE Settles(pr[q], pr'[q])
  <2> pr[p] \in PrType /\ pr[p].head \in HeadType
    BY DEF TypeOK, PrType
  <2>1. PICK c \in {"green", "red", "cancelled"} :
          LET h == pr[p].head
              streak == CASE c = "green" -> 0
                          [] c = "red" /\ h.streak <= ParkCap -> h.streak + 1
                          [] OTHER -> h.streak
          IN pr' = [pr EXCEPT ![p].head = [h EXCEPT !.ci = c, !.old = FALSE, !.streak = streak]]
    BY <1>5 DEF RunEnds
  <2> DEFINE n == CASE c = "green" -> 0
                    [] c = "red" /\ pr[p].head.streak <= ParkCap -> pr[p].head.streak + 1
                    [] OTHER -> pr[p].head.streak
             t == [pr[p] EXCEPT !.head = [pr[p].head EXCEPT !.ci = c, !.old = FALSE, !.streak = n]]
  <2>2. pr' = [pr EXCEPT ![p] = t]
    BY <2>1
  <2>3. /\ t.head.ci = c /\ t.head.old = FALSE /\ t.head.streak = n
        /\ t.since = pr[p].since /\ t.labels = pr[p].labels /\ t.base = pr[p].base /\ t.open = pr[p].open
    BY DEF PrType, HeadType
  <2>4. n = 0 \/ c = "red" \/ n = pr[p].head.streak
    OBVIOUS
  <2>5. n = 0 => ~ (n >= ParkCap)
    OBVIOUS
  <2> HIDE DEF t, n
  <2>6. pr[p].head.ci = "active" /\ SoundRun(pr[p])
    BY <1>5 DEF RunEnds
  <2>7. Ripe(t) => c = "red"
    BY <2>3, <2>4, <2>5, <2>6 DEF Ripe, SoundRun
  <2>8. SoundRun(t)
    BY <2>3, <2>6, <2>7 DEF SoundRun
  <2>9. Settles(pr[p], t)
    BY <2>3, <2>6, <2>8 DEF Settles, SoundRun, LooseRun
  <2> QED BY <1>1, <2>2, <2>9
<1>6. ASSUME NEW p \in PRs, Push(p) PROVE Settles(pr[q], pr'[q])
  <2>1. PICK who : pr' = [pr EXCEPT ![p] = Pushed(pr[p], who)]
    BY <1>6 DEF Push
  <2> DEFINE t == Pushed(pr[p], who)
  <2>2. /\ t.head = NewHead /\ t.labels = pr[p].labels /\ t.open = pr[p].open
        /\ Park \notin pr[p].labels => t.since = "same"
    <3> pr[p] \in PrType
      BY DEF TypeOK
    <3>1. t.head = NewHead /\ (Park \notin pr[p].labels => t.since = "same")
      BY HeadEffects
    <3>2. t.labels = pr[p].labels /\ t.open = pr[p].open
      BY LabelFree
    <3> QED BY <3>1, <3>2
  <2>3. pr' = [pr EXCEPT ![p] = t]
    BY <2>1
  <2> HIDE DEF t
  <2>4. SoundRun(t)
    BY <2>2, NewHeadRun DEF SoundRun
  <2>5. Settles(pr[p], t)
    BY <2>2, <2>4, NewHeadRun DEF Settles, LooseRun
  <2> QED BY <1>1, <2>3, <2>5
<1>7. ASSUME NEW p \in PRs, NEW t, pr' = [pr EXCEPT ![p] = t], SameRun(pr[p], t), t.since = pr[p].since,
             t.open = pr[p].open, {Arm, Park} \cap t.labels = {Arm, Park} \cap pr[p].labels
      PROVE  Settles(pr[q], pr'[q])
  <2>1. (Arm \in t.labels <=> Arm \in pr[p].labels) /\ (Park \in t.labels <=> Park \in pr[p].labels)
    BY <1>7
  <2>2. SoundRun(pr[p]) /\ (Ripe(t) <=> Ripe(pr[p]))
    BY <1>7 DEF SameRun, Ripe
  <2>3. SoundRun(t)
    BY <1>7, <2>1, <2>2 DEF SoundRun, SameRun
  <2>4. LooseRun(t) <=> LooseRun(pr[p])
    BY <1>7, <2>1, <2>2 DEF LooseRun, SameRun
  <2>5. Settles(pr[p], t)
    BY <1>7, <2>1, <2>2, <2>3, <2>4 DEF Settles, SameRun
  <2> QED BY <1>1, <1>7, <2>5
<1>8. ASSUME NEW p \in PRs, BaseMoves(p) PROVE Settles(pr[q], pr'[q])
  <2>1. PICK b \in {"behind", "dirty"} : pr' = [pr EXCEPT ![p].base = b]
    BY <1>8 DEF BaseMoves
  <2> DEFINE t == [pr[p] EXCEPT !.base = b]
  <2>2. /\ t.head = pr[p].head /\ t.since = pr[p].since /\ t.labels = pr[p].labels
        /\ t.open = pr[p].open /\ t.base = b
    BY DEF TypeOK, PrType
  <2>3. pr' = [pr EXCEPT ![p] = t]
    BY <2>1
  <2> HIDE DEF t
  <2>4. pr[p].base = "current" /\ SoundRun(pr[p])
    BY <1>8 DEF BaseMoves
  <2>5. SoundRun(t)
    BY <2>2, <2>4 DEF SoundRun, Ripe
  <2>6. Settles(pr[p], t)
    BY <2>2, <2>4, <2>5 DEF Settles, LooseRun, Ripe
  <2> QED BY <1>1, <2>3, <2>6
<1>9. ASSUME NEW p \in PRs, Approve(p) PROVE Settles(pr[q], pr'[q])
  <2> DEFINE t == With(pr[p], Approved)
  <2>1. t.head = pr[p].head /\ t.base = pr[p].base /\ t.since = pr[p].since
    BY RunEffects, LabelNames DEF TypeOK
  <2>2. t.labels = pr[p].labels \cup {Approved} /\ t.open = pr[p].open
    BY LabelEffects, LabelNames DEF TypeOK
  <2>3. pr' = [pr EXCEPT ![p] = t]
    BY <1>9 DEF Approve
  <2> HIDE DEF t
  <2>4. {Arm, Park} \cap t.labels = {Arm, Park} \cap pr[p].labels
    BY <2>2, LabelNames
  <2> QED BY <1>7, <2>1, <2>2, <2>3, <2>4 DEF SameRun
<1>10. ASSUME NEW p \in PRs, Ghost(p) PROVE Settles(pr[q], pr'[q])
  <2>1. PICK g : pr' = [pr EXCEPT ![p].head.ghost = g]
    BY <1>10 DEF Ghost
  <2> DEFINE t == [pr[p] EXCEPT !.head = [pr[p].head EXCEPT !.ghost = g]]
  <2>2. /\ t.head.ci = pr[p].head.ci /\ t.head.old = pr[p].head.old /\ t.head.streak = pr[p].head.streak
        /\ t.since = pr[p].since /\ t.labels = pr[p].labels /\ t.open = pr[p].open /\ t.base = pr[p].base
    BY DEF TypeOK, PrType, HeadType
  <2>3. pr' = [pr EXCEPT ![p] = t]
    BY <2>1
  <2> HIDE DEF t
  <2> QED BY <1>7, <2>2, <2>3 DEF SameRun
<1> QED BY <1>2, <1>3, <1>4, <1>5, <1>6, <1>8, <1>9, <1>10 DEF Environment

\* They keep the invariant.
LEMMA OutsideKeepsRun ==
    ASSUME TypeOK, ParkInv, RunInv, Environment \/ StartTick \/ UNCHANGED vars
    PROVE  RunInv'
<1>1. env' = env
  BY OutsideWalks
<1> SUFFICES ASSUME Steady PROVE ((\A q \in PRs : SoundRun(pr[q])) /\ VisitsRun /\ ArmsListed /\ SweepFinds)'
  BY <1>1 DEF RunInv, Steady, Undisturbed
<1> Written /\ ParkParts
  BY SteadyReads DEF ParkInv
<1> (\A q \in PRs : SoundRun(pr[q])) /\ VisitsRun /\ ArmsListed /\ SweepFinds
  BY DEF RunInv
<1> DOMAIN todo \subseteq PRs /\ rule \in 0 .. LastRule
  BY DEF TypeOK
<1>2. \A q \in PRs : \/ Settles(pr[q], pr'[q])
                     \/ /\ rule = 0 /\ rule' = 0 /\ todo' = todo /\ SoundRun(pr'[q])
                        /\ pr'[q].head.ci = "active" => pr[q].head.ci = "active"
  BY OutsideSettles
<1>3. /\ list' \in {list, NoList} \/ (list' = LiveLabels /\ pr' = pr)
      /\ \/ todo' = todo /\ (rule' = rule \/ (rule = 0 /\ rule' = 1))
         \/ DOMAIN todo' = {} /\ list' = NoList /\ rule' = 0
  BY OutsideWalks
<1>4. \A q \in PRs : pr'[q].open = pr[q].open /\ (Arm \in pr'[q].labels <=> Arm \in pr[q].labels)
  BY OutsideLabels, LabelNames DEF QuietLabels
<1>5. \A q \in PRs : SoundRun(pr'[q])
  BY <1>2 DEF Settles
<1>6. CASE rule' = 0 \/ rule' = 1
  <2>1. VisitsRun' /\ SweepFinds'
    BY <1>6 DEF VisitsRun, SweepFinds
  <2>2. ArmsListed'
    <3>1. rule <= 7 \/ list' = NoList
      BY <1>3, <1>6
    <3>2. CASE list' \in {list, NoList}
      BY <1>3, <1>4, <3>1, <3>2 DEF ArmsListed
    <3>3. CASE list' = LiveLabels /\ pr' = pr
      BY <3>3 DEF ArmsListed, LiveLabels
    <3> QED BY <1>3, <3>2, <3>3
  <2> QED BY <1>5, <2>1, <2>2
<1>7. CASE todo' = todo /\ rule' = rule /\ rule # 0
  <2>1. \A q \in PRs : Settles(pr[q], pr'[q])
    BY <1>2, <1>7
  <2>2. VisitsRun'
    BY <1>7, <2>1, SettledVisits
  <2>3. ArmsListed'
    BY <1>3, <1>4, <1>7 DEF ArmsListed, LiveLabels
  <2>4. SweepFinds'
    BY <1>4, <1>7, <2>1 DEF SweepFinds, Settles
  <2> QED BY <1>5, <2>2, <2>3, <2>4
<1> QED BY <1>3, <1>6, <1>7

\* No head has a run at the start.
LEMMA InitRun == Init => RunInv
<1> SUFFICES ASSUME Init PROVE (\A q \in PRs : SoundRun(pr[q])) /\ VisitsRun /\ ArmsListed /\ SweepFinds
  BY DEF RunInv
<1>1. \A q \in PRs : pr[q].head = NewHead /\ pr[q].since = "same"
  BY OpenedPRs DEF Init
<1>2. DOMAIN todo = {} /\ list = NoList /\ rule = 0
  BY NoTicketsEmpty DEF Init
<1>3. \A q \in PRs : SoundRun(pr[q])
  BY <1>1, NewHeadRun DEF SoundRun
<1> QED BY <1>2, <1>3 DEF VisitsRun, ArmsListed, SweepFinds

\* One step.
LEMMA NextRun == TypeOK /\ ParkInv /\ RunInv /\ [Next]_vars => RunInv'
BY HandleKeepsRun, QueryKeepsRun, OutsideKeepsRun DEF Next, Tick

\* A step starts no run on a ripe head.
LEMMA StepUnripe ==
    ASSUME TypeOK, ParkInv, RunInv, [Next]_vars, TypeOK', Steady, NEW q \in PRs,
           pr'[q].head.ci = "active", pr[q].head.ci # "active"
    PROVE  pr'[q].head.streak < ParkCap
<1> pr \in [PRs -> PrType] /\ \A p \in PRs : SoundRun(pr[p])
  BY DEF TypeOK, RunInv
<1> ParkParts
  BY SteadyReads DEF ParkInv
<1>1. ~ Ripe(pr'[q])
  <2>1. CASE \E p \in PRs : Handle(p)
    <3>1. PICK p \in PRs : Handle(p)
      BY <2>1
    <3>2. CASE q = p
      BY <3>1, <3>2, HandleRun DEF RunOK
    <3>3. CASE q # p
      BY <3>1, <3>3, OthersSettle DEF Settles
    <3> QED BY <3>2, <3>3
  <2>2. CASE Query
    BY <2>2, QueryGives
  <2>3. CASE Environment \/ StartTick \/ UNCHANGED vars
    BY <2>3, OutsideSettles DEF Settles
  <2> QED BY <2>1, <2>2, <2>3 DEF Next, Tick
<1>2. PICK n \in 0 .. ParkCap + 1 : n = pr'[q].head.streak
  BY DEF TypeOK, PrType, HeadType
<1> QED BY <1>1, <1>2, Caps DEF Ripe

\* gh-832: after ParkCap red runs in a row neither a rule, nor the zombie sweep,
\* nor a re-run starts another on the head, for any number of PRs and any caps,
\* while fail reports and park labels land, ticks keep their pace and probes answer.
THEOREM NoRunHolds == Spec => NoRunAfterPark
<1>1. TypeOK /\ ParkInv /\ RunInv /\ TypeOK' /\ [Next]_vars
        => [Undisturbed({"lost labels", "failed writes", "slow ticks", "failed probes"}) =>
              \A p \in PRs : (pr'[p].head.ci = "active" /\ pr[p].head.ci # "active") =>
                             pr'[p].head.streak < ParkCap]_vars
  BY StepUnripe DEF Steady
<1> QED BY <1>1, InitRun, NextRun, TypeCorrect, ParkAlways, PTL DEF Spec, NoRunAfterPark


=============================================================================
