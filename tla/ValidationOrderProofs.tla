----------------------- MODULE ValidationOrderProofs -----------------------
(* The FIFO order of the merge window: no younger approved PR is armed       *)
(* while an older one waits for a slot.  The rule "arm" visits the oldest    *)
(* first and gives the slots to the first that are ready; what has to be     *)
(* shown is that the two rules after it, which match PRs by their checks,    *)
(* find the slots full whenever a ready PR is left without one.              *)
EXTENDS ValidationParkProofs

\* The environments the order is claimed for.
Orderly == Undisturbed({"shut gate", "lost runs", "base moves", "pushes",
                        "approvals", "failed probes", "hidden checks"})

\* No run was cancelled and no person pushed; a head with RedCap reds is red,
\* and a run in progress is somebody's, unless the base has moved.
TidyHead(s) ==
    /\ s.head.ci # "cancelled" /\ s.since # "human"
    /\ s.head.reds >= RedCap => s.head.ci = "red"
    /\ s.head.ci = "active" => Arm \in s.labels \/ s.base = "behind"

\* Ready, without a slot, and not moved by this tick.
Waits(q) == Ready(pr[q]) /\ Arm \notin pr[q].labels /\ q \notin moved

\* The slots of the tick are taken.
Full == Cardinality(Holders(LiveLabels)) >= slots

\* What the queries have made sure of; a merge of the rule leaves the others
\* behind the base, and then nobody waits.
VisitsOrder ==
    \A q \in DOMAIN todo :
      /\ rule = 2 => pr[q].base = "behind"
      /\ rule \in {5, 13} => pr[q].head.ci \in {"green", "none"}
      /\ rule = 6 => pr[q].head.ci = "red"
      /\ rule \in 8 .. 10 /\ pr[q].base # "current" => \A x \in PRs : ~ Waits(x)
      /\ rule = 8 => Park \notin todo[q] /\ Approved \in todo[q] /\ Arm \notin pr[q].labels

\* When "arm" asks, the list holds back no ready PR.
ListKept ==
    (rule \in 5 .. 7 \/ (rule = 8 /\ DOMAIN todo = {})) /\ list # NoList =>
      \A q \in PRs : pr[q].open =>
        /\ {Arm, Approved} \subseteq list[q] => Arm \in pr[q].labels
        /\ Arm \in pr[q].labels => Arm \in list[q]
        /\ Park \in list[q] => Park \in pr[q].labels

\* Once "arm" has passed a ready PR, the slots are full.
Taken ==
    rule \in {9, 10} \/ (rule = 8 /\ DOMAIN todo # {}) =>
      \A q \in PRs : Waits(q) /\ (rule = 8 => q \notin DOMAIN todo) => Full

\* What "arm" counts against its limit is a slot given, unless nobody waits.
ActsHeld ==
    /\ DOMAIN todo = {} => acted = 0
    /\ rule = 8 => \A q \in PRs : Waits(q) => acted <= Cardinality(Holders(LiveLabels))

OrderInv == Orderly => (\A q \in PRs : TidyHead(pr[q])) /\ VisitsOrder /\ ListKept /\ Taken /\ ActsHeld

-----------------------------------------------------------------------------
(* Heads. *)

\* A number is below a bound, or it reaches it.
LEMMA LessOrFull ==
    ASSUME NEW m \in Nat, NEW n \in Nat
    PROVE  (m < n) <=> ~ (m >= n)
OBVIOUS

\* An orderly tick is calm, reads the newest run, and sees what is green.
LEMMA OrderlyReads ==
    ASSUME Orderly
    PROVE  /\ Calm /\ ~ On("failed probes") /\ ~ On("lost runs") /\ ~ On("approvals")
           /\ ~ On("pushes") /\ ~ On("base moves") /\ ~ On("shut gate") /\ ~ On("hidden checks")
           /\ \A p : Probes(p) = {pr[p].head.ci}
           /\ \A p : Started(p) = {"active"}
<1>1. /\ Calm /\ ~ On("failed probes") /\ ~ On("lost runs") /\ ~ On("approvals")
      /\ ~ On("pushes") /\ ~ On("base moves") /\ ~ On("shut gate") /\ ~ On("hidden checks")
  BY DEF Orderly, Undisturbed, On, Calm
<1> QED BY <1>1 DEF Probes, Fails, Started

\* Nothing that matters changes.
LEMMA KeptTidy ==
    ASSUME NEW s, TidyHead(s), NEW t, t.head.ci = s.head.ci, t.head.reds = s.head.reds,
           t.since \in {"same", "machine", s.since}, t.base = s.base,
           s.head.ci = "active" /\ Arm \in s.labels => Arm \in t.labels \/ s.base = "behind"
    PROVE  TidyHead(t)
BY DEF TidyHead

\* A fresh head has no run and no reds.
LEMMA NewTidy ==
    ASSUME NEW t, t.head = NewHead, t.since \in {"same", "machine"}
    PROVE  TidyHead(t)
<1>1. NewHead.ci = "none" /\ NewHead.reds = 0
  BY DEF NewHead
<1> QED BY <1>1, Caps DEF TidyHead

\* A run is started and somebody holds the arm.
LEMMA StartedTidy ==
    ASSUME NEW t, t.head.ci = "active", t.head.reds < RedCap, t.head.reds \in Nat, t.since # "human",
           Arm \in t.labels
    PROVE  TidyHead(t)
BY Caps DEF TidyHead

\* What a handler does besides to a head.
LEMMA RedsEffects ==
    ASSUME NEW s \in PrType, NEW l \in Labels
    PROVE  /\ s.head.reds \in Nat
           /\ Dispatched(s, "active").head.ci = "active" /\ Dispatched(s, "active").head.reds = s.head.reds
           /\ Dispatched(s, "active").since = s.since /\ Dispatched(s, "active").base = s.base
           /\ Dispatched(s, "active") \in PrType
           /\ LET g == [s EXCEPT !.head.ghost = "none"] IN
              /\ g \in PrType /\ g.head.ci = s.head.ci /\ g.head.reds = s.head.reds
              /\ g.since = s.since /\ g.base = s.base /\ g.labels = s.labels /\ g.open = s.open
<1>1. s.head.reds \in Nat
  BY Caps DEF PrType, HeadType
<1>2. Dispatched(s, "active") \in PrType
  BY DispatchedTyped
<1>3. /\ Dispatched(s, "active").head.ci = "active" /\ Dispatched(s, "active").head.reds = s.head.reds
      /\ Dispatched(s, "active").since = s.since /\ Dispatched(s, "active").base = s.base
  BY DEF Dispatched, PrType, HeadType
<1>4. [s EXCEPT !.head.ghost = "none"] \in PrType
  BY ResetTyped
<1>5. LET g == [s EXCEPT !.head.ghost = "none"] IN
      /\ g.head.ci = s.head.ci /\ g.head.reds = s.head.reds
      /\ g.since = s.since /\ g.base = s.base /\ g.labels = s.labels /\ g.open = s.open
  BY DEF PrType, HeadType
<1> QED BY <1>1, <1>2, <1>3, <1>4, <1>5

\* Who gets beyond the deferral was not read as parked.
LEMMA EntryPlain ==
    ASSUME TypeOK, NEW p \in PRs, pr[p].since # "human", NEW d, d # "defer", NEW ci, Decided(p, d, ci)
    PROVE  Park \notin todo[p] /\ Entered(p) = pr[p]
<1>1. PICK r, free : Decision(p, r, ci, free) = d
  BY DEF Decided
<1>2. Park \in todo[p] => Decision(p, r, ci, free) = "defer"
  BY DEF Decision
<1>3. Park \notin todo[p]
  BY <1>1, <1>2
<1> QED BY <1>3 DEF Entered

\* ... and leaves with the latch gone at most.
LEMMA StripPlain ==
    ASSUME TypeOK, NEW p \in PRs, Entered(p) = pr[p], NEW ci
    PROVE  LET t == Stripped(p, ci) IN
           /\ t \in PrType /\ t.head = pr[p].head /\ t.since = pr[p].since /\ t.base = pr[p].base
           /\ t.open = pr[p].open
           /\ \A l \in {Arm, Approved, Park} : l \in t.labels <=> l \in pr[p].labels
<1>1. pr[p] \in PrType
  BY DEF TypeOK
<1>2. /\ Without(pr[p], Latch).head = pr[p].head /\ Without(pr[p], Latch).since = pr[p].since
      /\ Without(pr[p], Latch).base = pr[p].base
  BY <1>1, LabelNames, RunEffects
<1>3. Without(pr[p], Latch).labels = pr[p].labels \ {Latch} /\ Without(pr[p], Latch).open = pr[p].open
  BY <1>1, LabelNames, LabelEffects
<1>4. Without(pr[p], Latch) \in PrType
  BY <1>1, LabelNames, LabelsTyped
<1> QED BY <1>1, <1>2, <1>3, <1>4, LabelNames DEF Stripped

\* A merge, tried while no run is in progress.
LEMMA MergeTidy ==
    ASSUME pr \in [PRs -> PrType], NEW p \in PRs, NEW s \in PrType, TidyHead(s),
           s.head.ci \in {"green", "none"}, NEW refused, TidyHead(refused),
           pr' = MergeAttempt(p, s, refused)
    PROVE  TidyHead(pr'[p])
<1>1. pr'[p] \in {Validated(s), Closed(pr[p]), refused}
  BY DEF MergeAttempt, Merged
<1>2. TidyHead(Validated(s))
  BY RunEffects, LabelNames, KeptTidy
<1>3. Closed(pr[p]).head = NewHead /\ Closed(pr[p]).since = "same"
  BY DEF Closed, PrType
<1> QED BY <1>1, <1>2, <1>3, NewTidy

\* A fail report on a red head.
LEMMA FailTidy ==
    ASSUME NEW s \in PrType, TidyHead(s), s.head.ci = "red", NEW done, NEW p \in PRs
    PROVE  TidyHead(FailReported(p, s, done))
<1>1. PICK t \in {s, Without(s, Arm)} : FailReported(p, s, done) \in {t, Counted(t), Parked(Counted(t))}
  BY FailIs
<1>2. t \in PrType /\ t.head = s.head /\ t.since = s.since
  BY LabelsTyped, LabelNames, RunEffects
<1> DEFINE u == Counted(t)
<1>3. u \in PrType
  BY <1>2, CountedTyped
<1>4. u.head.ci = "red" /\ u.since = s.since
  BY <1>2 DEF Counted, PrType, HeadType
<1> HIDE DEF u
<1>5. Parked(u).head = u.head /\ Parked(u).since = "same"
  BY <1>3, LabelNames, RunEffects
<1>6. FailReported(p, s, done) \in {t, u, Parked(u)}
  BY <1>1 DEF u
<1> QED BY <1>2, <1>4, <1>5, <1>6 DEF TidyHead

\* A visit leaves a tidy head.
LEMMA HandleTidy ==
    ASSUME TypeOK, Orderly, OrderInv, NEW p \in PRs, Handle(p)
    PROVE  TidyHead(pr'[p])
<1> pr \in [PRs -> PrType] /\ pr[p] \in PrType /\ rule \in 0 .. LastRule /\ rule # 0 /\ p \in DOMAIN todo
  BY HandleVisits DEF TypeOK
<1> USE LabelNames
<1>s. TidyHead(pr[p]) /\ VisitsOrder
  BY DEF OrderInv
<1>p. \A ci \in Probes(p) : ci = pr[p].head.ci
  BY OrderlyReads
<1>c. \A c \in Started(p) : c = "active"
  BY OrderlyReads
<1>n. pr[p].since # "human" /\ pr[p].head.ci # "cancelled"
  BY <1>s DEF TidyHead
<1>r. ASSUME NEW t, t.head = pr[p].head, t.base = pr[p].base, t.since \in {"same", pr[p].since},
             pr[p].head.ci # "active" \/ pr[p].base = "behind" \/ (Arm \in pr[p].labels => Arm \in t.labels)
      PROVE  TidyHead(t)
  BY <1>s, <1>r, KeptTidy
<1>1. CASE Rerun(p)
  BY <1>1, <1>s, <1>n DEF Rerun
<1>2. CASE Unarm(p)
  <2>1. rule = 2
    <3>1. Current = "unarm"
      BY <1>2 DEF Unarm, Visiting
    <3> QED BY <3>1, RuleNumber
  <2>2. pr[p].base = "behind"
    BY <1>s, <2>1 DEF VisitsOrder
  <2>3. pr'[p] \in {Validated(pr[p]), Without(pr[p], Arm)}
    BY <1>2 DEF Unarm
  <2> QED BY <1>r, <2>2, <2>3, RunEffects
<1>3. CASE UpdateBranch(p)
  <2> DEFINE s == ParkReviewed(p, pr[p])
  <2>1. pr'[p] \in {s, Pushed(s, "machine")}
    BY <1>3 DEF UpdateBranch
  <2>2. s \in {pr[p], Parked(pr[p]), Unparked(pr[p])}
    BY DEF ParkReviewed
  <2>3. s \in PrType /\ s.head = pr[p].head /\ s.base = pr[p].base /\ s.since \in {"same", pr[p].since}
    <3>1. Unparked(pr[p]) \in PrType /\ Parked(pr[p]) \in PrType
      BY LabelsTyped
    <3> QED BY <2>2, <3>1, RunEffects
  <2>4. Arm \in pr[p].labels => Arm \in s.labels
    BY <2>2, LabelEffects
  <2> HIDE DEF s
  <2>5. TidyHead(s)
    BY <1>r, <2>3, <2>4
  <2>6. Pushed(s, "machine").head = NewHead
    BY <2>3, HeadEffects
  <2>7. Pushed(s, "machine").since \in {"same", "machine"}
    BY <2>5, <2>3 DEF Pushed, PrType, TidyHead
  <2> QED BY <2>1, <2>5, <2>6, <2>7, NewTidy
<1>4. CASE Merge(p)
  <2>1. rule = 5
    <3>1. Current = "merge"
      BY <1>4 DEF Merge, Visiting
    <3> QED BY <3>1, RuleNumber
  <2>2. pr[p].head.ci \in {"green", "none"}
    BY <1>s, <2>1 DEF VisitsOrder
  <2>3. pr' = MergeAttempt(p, pr[p], pr[p])
    BY <1>4 DEF Merge
  <2> QED BY <1>s, <2>2, <2>3, MergeTidy
<1>5. CASE FailValidation(p)
  <2>1. rule = 6
    <3>1. Current = "fail"
      BY <1>5 DEF FailValidation, Visiting
    <3> QED BY <3>1, RuleNumber
  <2>2. pr[p].head.ci = "red"
    BY <1>s, <2>1 DEF VisitsOrder
  <2>3. PICK done \in Writes : pr' = [pr EXCEPT ![p] = FailReported(p, pr[p], done)]
    BY <1>5 DEF FailValidation
  <2>4. TidyHead(FailReported(p, pr[p], done))
    BY <1>s, <2>2, FailTidy
  <2> QED BY <2>3, <2>4
<1>6. CASE SweepVerdict(p)
  <2>1. PICK ci \in Probes(p) \cap {"green", "red"}, done \in Writes :
          pr' = [pr EXCEPT ![p] = IF ci = "green" THEN Validated(pr[p]) ELSE FailReported(p, pr[p], done)]
    BY <1>6 DEF SweepVerdict
  <2>2. ci = pr[p].head.ci
    BY <1>p, <2>1
  <2>3. CASE ci = "green"
    <3>1. pr'[p] = Validated(pr[p])
      BY <2>1, <2>3
    <3> QED BY <1>r, <2>2, <2>3, <3>1, RunEffects
  <2>4. CASE ci = "red"
    <3>1. pr'[p] = FailReported(p, pr[p], done)
      BY <2>1, <2>4
    <3>2. TidyHead(FailReported(p, pr[p], done))
      BY <1>s, <2>2, <2>4, FailTidy
    <3> QED BY <3>1, <3>2
  <2> QED BY <2>1, <2>3, <2>4
\* The zombie sweep finds no run.
<1>z. ASSUME \E ci \in Probes(p) : Dead(p, ci) PROVE pr[p].head.ci = "none" /\ pr[p].head.reds < RedCap
  <2>1. pr[p].head.ci = "none"
    BY <1>z, <1>p, <1>n DEF Dead
  <2> QED BY <1>s, <2>1, Caps DEF TidyHead, PrType, HeadType
<1>7. CASE SweepZombie(p)
  <2>1. pr' = [pr EXCEPT ![p] = [With(Dispatched(pr[p], "active"), Arm)
                                   EXCEPT !.head.zombies = @ + 1, !.head.quiet = ZombieWindow]]
    BY <1>7, <1>c DEF SweepZombie
  <2> DEFINE d == Dispatched(pr[p], "active")
             t == With(d, Arm)
             u == [t EXCEPT !.head.zombies = @ + 1, !.head.quiet = ZombieWindow]
  <2>2. pr[p].head.reds < RedCap
    BY <1>7, <1>z DEF SweepZombie, ZombieDue
  <2>3. d \in PrType /\ d.head.ci = "active" /\ d.head.reds = pr[p].head.reds /\ d.since = pr[p].since
    BY RedsEffects
  <2>4. t \in PrType /\ t.head = d.head /\ t.since = d.since
    BY <2>3, LabelsTyped, RunEffects
  <2>5. t.labels = d.labels \cup {Arm}
    BY <2>3, LabelEffects
  <2>6. pr'[p] = u
    BY <2>1
  <2> HIDE DEF d, t
  <2>7. u.labels = t.labels /\ u.since = t.since /\ u.head.ci = t.head.ci /\ u.head.reds = t.head.reds
    BY <2>4 DEF PrType, HeadType
  <2> HIDE DEF u
  <2>8. u.head.ci = "active" /\ u.head.reds = pr[p].head.reds /\ u.since # "human" /\ Arm \in u.labels
    BY <1>n, <2>3, <2>4, <2>5, <2>7
  <2>9. pr[p].head.reds \in Nat
    BY RedsEffects
  <2> QED BY <2>2, <2>6, <2>8, <2>9, StartedTidy
<1>8. CASE SweepThrows(p)
  BY <1>8, OrderlyReads DEF SweepThrows
<1>9. CASE SweepPark(p)
  <2> DEFINE w == Without(pr[p], Arm)
  <2>1. w \in PrType /\ w.head = pr[p].head /\ w.base = pr[p].base /\ w.since = pr[p].since
    BY LabelsTyped, RunEffects
  <2>2. pr'[p] \in {w, Parked(w)}
    BY <1>9 DEF SweepPark
  <2> HIDE DEF w
  <2>3. Parked(w).head = w.head /\ Parked(w).base = w.base /\ Parked(w).since = "same"
    BY <2>1, RunEffects
  <2>4. pr[p].head.ci = "none"
    BY <1>9, <1>z DEF SweepPark
  <2> QED BY <1>r, <2>1, <2>2, <2>3, <2>4
<1>10. CASE SweepKeeps(p)
  BY <1>10, <1>s DEF SweepKeeps
<1>e. ASSUME NEW ci, NEW d, d # "defer", Decided(p, d, ci) PROVE Entered(p) = pr[p]
  BY <1>e, <1>n, EntryPlain
<1>t. ASSUME NEW ci, NEW d, d # "defer", Decided(p, d, ci)
      PROVE  Stripped(p, ci) \in PrType /\ TidyHead(Stripped(p, ci)) /\ Stripped(p, ci).head = pr[p].head
  <2>1. Entered(p) = pr[p]
    BY <1>t, <1>e
  <2> HIDE DEF Entered
  <2> QED BY <2>1, <1>r, StripPlain
<1>11. CASE PassOver(p)
  <2>1. PICK ci \in Probes(p) :
          \/ Decided(p, "defer", ci) /\ UNCHANGED pr
          \/ Decided(p, "skip", ci) /\ pr' = [pr EXCEPT ![p] = Entered(p)]
          \/ Decided(p, "strip", ci) /\ pr' = [pr EXCEPT ![p] = Stripped(p, ci)]
    BY <1>11 DEF PassOver
  <2>2. CASE Decided(p, "defer", ci) /\ UNCHANGED pr
    BY <1>s, <2>2
  <2>3. CASE Decided(p, "skip", ci) /\ pr' = [pr EXCEPT ![p] = Entered(p)]
    BY <1>s, <1>e, <2>3
  <2>4. CASE Decided(p, "strip", ci) /\ pr' = [pr EXCEPT ![p] = Stripped(p, ci)]
    BY <1>t, <2>4
  <2> QED BY <2>1, <2>2, <2>3, <2>4
<1>12. CASE ResetInvisible(p)
  <2>1. PICK ci, r, free : Decision(p, r, ci, free) = "reset"
    BY <1>12 DEF ResetInvisible, Decided
  <2>2. ~ Invisible(p, pr[p])
    BY OrderlyReads DEF Invisible
  <2> QED BY <2>1, <2>2 DEF Decision
<1>13. CASE FastPath(p)
  <2>1. PICK ci, r, free : ci \in Probes(p) /\ Decided(p, "merge", ci) /\ Decision(p, r, ci, free) = "merge"
    BY <1>13 DEF FastPath, Decided
  <2>2. pr[p].head.ci = "green"
    BY <1>p, <2>1 DEF Decision
  <2>3. Entered(p) = pr[p]
    BY <1>e, <2>1
  <2>4. pr' = MergeAttempt(p, pr[p], Validated(pr[p]))
    BY <1>13, <2>3 DEF FastPath
  <2>5. TidyHead(Validated(pr[p]))
    BY <1>r, <2>2, RunEffects
  <2> QED BY <1>s, <2>2, <2>4, <2>5, MergeTidy
<1>14. CASE ConcludeGhosts(p)
  <2> DEFINE s == [pr[p] EXCEPT !.head.ghost = "none"]
  <2>1. PICK ci, r, free : ci \in Probes(p) /\ Decided(p, "conclude", ci) /\ Decision(p, r, ci, free) = "conclude"
    BY <1>14 DEF ConcludeGhosts, Decided
  <2>2. pr[p].head.ci = "green"
    BY <1>p, <2>1 DEF Decision
  <2>3. Entered(p) = pr[p]
    BY <1>e, <2>1
  <2>4. pr' = MergeAttempt(p, s, s)
    BY <1>14, <2>3 DEF ConcludeGhosts
  <2>5. /\ s \in PrType /\ s.head.ci = pr[p].head.ci /\ s.head.reds = pr[p].head.reds
        /\ s.since = pr[p].since /\ s.base = pr[p].base /\ s.labels = pr[p].labels
    BY RedsEffects
  <2> HIDE DEF s
  <2>6. TidyHead(s)
    BY <1>s, <2>5, KeptTidy
  <2> QED BY <2>2, <2>4, <2>5, <2>6, MergeTidy
<1>15. CASE ResetPlaceholder(p)
  <2>1. PICK ci \in Probes(p) :
          /\ Decided(p, "reset and dispatch", ci)
          /\ \/ pr' = [pr EXCEPT ![p] = Stripped(p, ci)]
             \/ pr' = [pr EXCEPT ![p] = [With(Dispatched(Pushed(Stripped(p, ci), "machine"), "active"), Arm)
                                           EXCEPT !.resets = @ + 1]]
    BY <1>15, <1>c DEF ResetPlaceholder
  <2> DEFINE a == Pushed(Stripped(p, ci), "machine")
             b == Dispatched(a, "active")
             d == With(b, Arm)
             u == [d EXCEPT !.resets = @ + 1]
  <2>2. Stripped(p, ci) \in PrType /\ TidyHead(Stripped(p, ci))
    BY <1>t, <2>1
  <2>3. a \in PrType
    BY <2>2, PushedTyped
  <2>4. a.head = NewHead /\ a.since # "human"
    <3>1. a.head = NewHead
      BY <2>2, HeadEffects
    <3>2. a.since # "human"
      BY <2>2 DEF Pushed, PrType, TidyHead
    <3> QED BY <3>1, <3>2
  <2> HIDE DEF a
  <2>5. b \in PrType /\ b.head.ci = "active" /\ b.head.reds = a.head.reds /\ b.since = a.since
    BY <2>3, RedsEffects
  <2> HIDE DEF b
  <2>6. d \in PrType /\ d.head = b.head /\ d.since = b.since
    BY <2>5, LabelsTyped, RunEffects
  <2>7. d.labels = b.labels \cup {Arm}
    BY <2>5, LabelEffects
  <2> HIDE DEF d
  <2>8. u.labels = d.labels /\ u.head = d.head /\ u.since = d.since
    BY <2>6 DEF PrType
  <2> HIDE DEF u
  <2>9. NewHead.reds = 0
    BY DEF NewHead
  <2>10. TidyHead(u)
    BY <2>4, <2>5, <2>6, <2>7, <2>8, <2>9, Caps, StartedTidy
  <2>11. pr'[p] \in {Stripped(p, ci), u}
    BY <2>1 DEF u, d, b, a
  <2> QED BY <2>2, <2>10, <2>11
<1>16. CASE Dispatch(p)
  <2>1. PICK ci \in Probes(p) :
          /\ Decided(p, "dispatch", ci)
          /\ pr' = [pr EXCEPT ![p] = With(Dispatched([Stripped(p, ci) EXCEPT !.head.ghost = "none"], "active"), Arm)]
    BY <1>16, <1>c DEF Dispatch
  <2> DEFINE s == [Stripped(p, ci) EXCEPT !.head.ghost = "none"]
             b == Dispatched(s, "active")
             d == With(b, Arm)
  <2>2. /\ Stripped(p, ci) \in PrType /\ TidyHead(Stripped(p, ci)) /\ Stripped(p, ci).head = pr[p].head
    BY <1>t, <2>1
  <2>3. s \in PrType /\ s.head.reds = Stripped(p, ci).head.reds /\ s.since = Stripped(p, ci).since
    BY <2>2, RedsEffects
  <2>4. pr'[p] = d
    BY <2>1
  <2>5. pr[p].head.reds < RedCap /\ pr[p].head.reds \in Nat
    <3>1. PICK r, free : Decision(p, r, ci, free) = "dispatch"
      BY <2>1 DEF Decided
    <3>2. ~ (pr[p].head.reds >= RedCap)
      BY <3>1 DEF Decision
    <3>3. pr[p].head.reds \in Nat
      BY RedsEffects
    <3> QED BY <3>2, <3>3, Caps
  <2> HIDE DEF s
  <2>6. b \in PrType /\ b.head.ci = "active" /\ b.head.reds = s.head.reds /\ b.since = s.since
    BY <2>3, RedsEffects
  <2> HIDE DEF b
  <2>7. d.head = b.head /\ d.since = b.since
    BY <2>6, RunEffects
  <2>8. d.labels = b.labels \cup {Arm}
    BY <2>6, LabelEffects
  <2> HIDE DEF d
  <2>9. d.head.ci = "active" /\ d.head.reds = pr[p].head.reds /\ d.since # "human" /\ Arm \in d.labels
    BY <2>2, <2>3, <2>6, <2>7, <2>8 DEF TidyHead
  <2> QED BY <2>4, <2>5, <2>9, StartedTidy
<1>17. CASE DispatchThrows(p)
  BY <1>17, OrderlyReads DEF DispatchThrows
<1>18. CASE Complete(p)
  <2>1. rule = 13
    <3>1. Current = "complete"
      BY <1>18 DEF Complete, Visiting
    <3> QED BY <3>1, RuleNumber
  <2>2. pr[p].head.ci \in {"green", "none"}
    BY <1>s, <2>1 DEF VisitsOrder
  <2>3. pr'[p] = Validated(pr[p])
    BY <1>18 DEF Complete
  <2> QED BY <1>r, <2>2, <2>3, RunEffects
<1> QED BY <1>1, <1>2, <1>3, <1>4, <1>5, <1>6, <1>7, <1>8, <1>9, <1>10, <1>11, <1>12, <1>13, <1>14,
           <1>15, <1>16, <1>17, <1>18 DEF Handle

-----------------------------------------------------------------------------
(* Visits of "arm" and of the two rules after it. *)

\* A merge leaves nobody ready: it moves the base of all others.
LEMMA MergeEnds ==
    ASSUME pr \in [PRs -> PrType], NEW p \in PRs, pr' = Merged(p), NEW q \in PRs
    PROVE  ~ Ready(pr'[q])
<1>1. ~ Closed(pr[p]).open
  BY DEF Closed, PrType
<1>2. ASSUME q # p PROVE ~ (Outdated(pr[q]).open /\ Outdated(pr[q]).base = "current")
  BY DEF Outdated, PrType
<1>3. pr'[q] = IF q = p THEN Closed(pr[q]) ELSE Outdated(pr[q])
  BY DEF Merged
<1> QED BY <1>1, <1>2, <1>3 DEF Ready

\* A green head without pending check runs is merged.
LEMMA GreenMerges ==
    ASSUME Orderly, NEW p \in PRs, NEW s, s.base = "current", s.head.ci = "green", s.head.ghost = "none",
           Approved \in s.labels, NEW refused, pr' = MergeAttempt(p, s, refused)
    PROVE  pr' = Merged(p)
<1>1. Checks(s.head) = "green"
  BY OrderlyReads DEF Checks
<1>2. Clean(p, s)
  BY <1>1, OrderlyReads DEF Clean
<1> QED BY <1>2 DEF MergeAttempt

\* The head, the base and the three labels are left alone.
SameHead(s, t) ==
    /\ t.head = s.head /\ t.base = s.base /\ t.open = s.open
    /\ \A l \in {Arm, Approved, Park} : l \in t.labels <=> l \in s.labels

\* A PR that is passed over: in "arm" only when the slots are full or it does not wait.
Passed(p) ==
    /\ Skipped(p) /\ SameHead(pr[p], pr'[p])
    /\ rule = 8 /\ Waits(p) => Full

\* Otherwise nobody waits any more, the PR gets a slot, or it is not approved.
Turn(p) ==
    \/ \A q \in PRs : ~ Waits(q)'
    \/ pr'[p].open /\ {Arm, Approved} \subseteq pr'[p].labels
    \/ rule # 8 /\ Approved \notin pr[p].labels /\ Approved \notin pr'[p].labels
    \/ Passed(p)

\* What the invariants say of a PR in hand.
LEMMA InHand ==
    ASSUME TypeOK, MutexInv, Orderly, OrderInv, NEW p \in PRs, rule \in 8 .. 10, p \in DOMAIN todo
    PROVE  /\ pr \in [PRs -> PrType] /\ pr[p] \in PrType /\ TidyHead(pr[p])
           /\ pr[p].open
           /\ pr[p].base # "current" => \A x \in PRs : ~ Waits(x)
           /\ Approved \in todo[p] <=> Approved \in pr[p].labels
           /\ rule = 8 => Park \notin todo[p] /\ Approved \in pr[p].labels /\ Arm \notin pr[p].labels
<1>1. pr \in [PRs -> PrType] /\ pr[p] \in PrType
  BY DEF TypeOK
<1>2. /\ TidyHead(pr[p]) /\ (pr[p].base # "current" => \A x \in PRs : ~ Waits(x))
      /\ rule = 8 => Park \notin todo[p] /\ Approved \in todo[p] /\ Arm \notin pr[p].labels
  BY DEF OrderInv, VisitsOrder
<1>3. pr[p].open /\ (Approved \in todo[p] <=> Approved \in pr[p].labels)
  BY OrderlyReads DEF MutexInv, ApprovalsKnown
<1> QED BY <1>1, <1>2, <1>3

\* A ready PR in the hands of "arm" is passed over only when the slots are full.
LEMMA ArmPasses ==
    ASSUME TypeOK, MutexInv, Orderly, OrderInv, NEW p \in PRs, rule = 8, p \in DOMAIN todo, Waits(p),
           NEW d \in {"defer", "skip", "strip"}, NEW ci, Decided(p, d, ci)
    PROVE  Full
<1> USE LabelNames
<1>1. /\ pr[p] \in PrType /\ TidyHead(pr[p]) /\ pr[p].open /\ pr[p].base = "current"
      /\ Park \notin todo[p] /\ Approved \in pr[p].labels
  BY InHand DEF Waits, Ready
<1>2. PICK r \in Validating : /\ Visiting(r, p) /\ ci \in Probes(p)
                              /\ \E free \in SlotAnswers(p, r) : Decision(p, r, ci, free) = d
  BY DEF Decided
<1>3. r = "arm" /\ ci = pr[p].head.ci
  <2>1. Current = "arm"
    BY RuleNumber DEF TypeOK
  <2> QED BY <1>2, <2>1, OrderlyReads DEF Visiting
<1>4. Decision(p, r, ci, SlotFree(p, r)) = d
  <2>1. SlotAnswers(p, r) = {SlotFree(p, r)}
    BY OrderlyReads DEF SlotAnswers, Fails
  <2> QED BY <1>2, <2>1
<1>5. /\ p \notin moved /\ pr[p].head.ci # "red" /\ pr[p].head.ci # "cancelled"
      /\ ~ (pr[p].head.reds >= RedCap)
  BY <1>1 DEF Waits, Ready, TidyHead
<1>6. pr[p].head.ci # "active"
  BY <1>1 DEF Waits, TidyHead
<1>7. ~ SlotFree(p, r)
  BY <1>1, <1>3, <1>4, <1>5, <1>6 DEF Decision
<1>8. ~ (Cardinality(Holders(LiveLabels) \ {p}) < slots)
  BY <1>7, <1>3 DEF SlotFree
<1>9. Holders(LiveLabels) \ {p} = Holders(LiveLabels)
  <2>1. p \notin Holders(LiveLabels)
    BY HoldersAre DEF Waits
  <2> QED BY <2>1
<1>10. Cardinality(Holders(LiveLabels)) \in Nat
  BY FiniteCounts DEF Holders
<1> QED BY <1>8, <1>9, <1>10, SlotsNumber DEF Full

\* Who is ready in the end was ready before, if its head and labels are as they were.
LEMMA ReadyBack ==
    ASSUME NEW s, NEW t, Ready(t), t.head.ci = s.head.ci \/ s.head.ci # "red",
           t.head.ghost = s.head.ghost \/ s.head.ghost # "placeholder", t.open = s.open,
           Approved \in t.labels <=> Approved \in s.labels, Park \in t.labels <=> Park \in s.labels,
           t.base = s.base \/ t.base # "current"
    PROVE  Ready(s)
BY DEF Ready

\* A rule is left with its last visit, and the tick moves no head on the merge path.
LEMMA HandleEnds ==
    ASSUME TypeOK, NEW p \in PRs, Handle(p)
    PROVE  /\ rule' = rule => DOMAIN todo' # {}
           /\ rule' # rule => DOMAIN todo' = {} /\ acted' = 0
           /\ rule \in 8 .. 10 => moved' = moved /\ slots' = slots
<1>1. PICK counts, kept, S : Visited(p, counts, kept, S)
  BY HandleWalks DEF Acted, ActedAndDropped, Skipped
<1>2. rule \in 0 .. LastRule
  BY DEF TypeOK
<1>3. ASSUME rule' = rule PROVE DOMAIN todo' # {}
  <2>1. ~ Leave(kept, S)
    BY <1>2, <1>3, RuleCount DEF Leave, TickEnds
  <2> DEFINE rest == (DOMAIN todo) \ {p}
  <2>2. rest # {} /\ todo' = Tickets(todo, rest)
    BY <1>1, <2>1, VisitedIs
  <2> HIDE DEF rest
  <2> QED BY <2>2, TicketsAre
<1>4. ASSUME rule' # rule PROVE DOMAIN todo' = {} /\ acted' = 0
  <2>1. Leave(kept, S)
    BY <1>1, <1>4, VisitedIs
  <2> QED BY <2>1, NoTicketsEmpty DEF Leave
<1>5. ASSUME rule \in 8 .. 10 PROVE moved' = moved /\ slots' = slots
  <2>1. ~ UpdateBranch(p)
    BY <1>5, HandleVisits
  <2>2. Acted(p) \/ ActedAndDropped(p) \/ Skipped(p)
    <3>1. CASE Rerun(p) \/ Unarm(p) \/ Merge(p) \/ FailValidation(p) \/ SweepVerdict(p) \/ SweepZombie(p) \/ SweepThrows(p)
      BY <3>1 DEF Rerun, Unarm, Merge, FailValidation, SweepVerdict, SweepZombie, SweepThrows
    <3>2. CASE SweepPark(p) \/ SweepKeeps(p) \/ PassOver(p) \/ ResetInvisible(p) \/ FastPath(p) \/ ConcludeGhosts(p)
      BY <3>2 DEF SweepPark, SweepKeeps, PassOver, ResetInvisible, FastPath, ConcludeGhosts
    <3>3. CASE ResetPlaceholder(p) \/ Dispatch(p) \/ DispatchThrows(p) \/ Complete(p)
      BY <3>3 DEF ResetPlaceholder, Dispatch, DispatchThrows, Complete
    <3> QED BY <2>1, <3>1, <3>2, <3>3 DEF Handle
  <2>3. PICK a, k : Visited(p, a, k, moved)
    BY <2>2 DEF Acted, ActedAndDropped, Skipped
  <2>4. rule # LastRule
    BY <1>5, RuleCount
  <2>5. Leave(k, moved) \/ (moved' = moved /\ slots' = slots)
    BY <2>3, VisitedIs
  <2> QED BY <2>4, <2>5 DEF Leave
<1> QED BY <1>3, <1>4, <1>5

\* A PR the rule has left behind the base does not wait after its visit either.
LEMMA StaleTurn ==
    ASSUME TypeOK, NEW p \in PRs, Handle(p), rule \in 8 .. 10, pr[p].base # "current"
    PROVE  ~ (Ready(pr'[p]) /\ Arm \notin pr'[p].labels)
<1> SUFFICES ASSUME pr'[p].open, pr'[p].base = "current" PROVE Arm \in pr'[p].labels
  BY DEF Ready
<1> USE LabelNames
<1>h. pr \in [PRs -> PrType] /\ pr[p] \in PrType
  BY DEF TypeOK
<1>v. Current \in {"arm", "rearm", "rearm green"}
  <2>2. rule = 8 => Current = "arm"
    BY DEF Current, Rules
  <2>3. rule = 9 => Current = "rearm"
    BY DEF Current, Rules
  <2>4. rule = 10 => Current = "rearm green"
    BY DEF Current, Rules
  <2>5. rule = 8 \/ rule = 9 \/ rule = 10
    OBVIOUS
  <2> QED BY <2>2, <2>3, <2>4, <2>5
<1>e. /\ Entered(p) \in PrType /\ Entered(p).base = pr[p].base
      /\ \A ci : Stripped(p, ci) \in PrType /\ Stripped(p, ci).base = pr[p].base
  <2>1. Entered(p) \in PrType /\ \A ci : Stripped(p, ci) \in PrType
    BY <1>h, EnteredTyped
  <2>2. Entered(p).base = pr[p].base
    BY <1>h, RunEffects DEF Entered
  <2>3. \A ci : Stripped(p, ci).base = pr[p].base
    BY <2>1, <2>2, RunEffects DEF Stripped
  <2> QED BY <2>1, <2>2, <2>3
<1>g. ASSUME NEW s \in PrType PROVE /\ [s EXCEPT !.head.ghost = "none"] \in PrType
                                    /\ [s EXCEPT !.head.ghost = "none"].base = s.base
  BY <1>g, RedsEffects
<1>m. ASSUME NEW s \in PrType, s.base = pr[p].base, NEW t, t.base = pr[p].base, pr' = MergeAttempt(p, s, t)
      PROVE  FALSE
  <2>1. pr'[p] \in {Validated(s), Closed(pr[p]), t}
    BY <1>h, <1>m DEF MergeAttempt, Merged
  <2>2. Validated(s).base = s.base /\ ~ Closed(pr[p]).open
    BY <1>h, <1>m, RunEffects DEF Closed, PrType
  <2> QED BY <1>m, <2>1, <2>2
<1>a. ASSUME NEW s \in PrType, pr'[p].labels = With(s, Arm).labels PROVE Arm \in pr'[p].labels
  BY <1>a, LabelEffects
<1>1. CASE \/ Rerun(p) \/ Unarm(p) \/ UpdateBranch(p) \/ Merge(p) \/ FailValidation(p) \/ Complete(p)
           \/ SweepVerdict(p) \/ SweepZombie(p) \/ SweepThrows(p) \/ SweepPark(p) \/ SweepKeeps(p)
  BY <1>1, <1>v DEF Rerun, Unarm, UpdateBranch, Merge, FailValidation, Complete, SweepVerdict, SweepZombie,
                    SweepThrows, SweepPark, SweepKeeps, ZombieDue, Sweeping, Visiting
<1>2. CASE PassOver(p)
  <2>1. PICK ci : \/ pr' = pr
                  \/ pr' = [pr EXCEPT ![p] = Entered(p)]
                  \/ pr' = [pr EXCEPT ![p] = Stripped(p, ci)]
    BY <1>2 DEF PassOver
  <2>2. pr'[p] \in {pr[p], Entered(p), Stripped(p, ci)}
    BY <1>h, <2>1
  <2> QED BY <1>e, <2>2
<1>3. CASE ResetInvisible(p)
  <2>1. PICK ci, r, free : Decision(p, r, ci, free) = "reset"
    BY <1>3 DEF ResetInvisible, Decided
  <2>2. ~ Invisible(p, pr[p])
    BY DEF Invisible
  <2> QED BY <2>1, <2>2 DEF Decision
<1>4. CASE FastPath(p)
  <2>1. pr' = MergeAttempt(p, Entered(p), Validated(Entered(p)))
    BY <1>4 DEF FastPath
  <2>2. Validated(Entered(p)).base = Entered(p).base
    BY <1>e, RunEffects
  <2> QED BY <1>e, <1>m, <2>1, <2>2
<1>5. CASE ConcludeGhosts(p)
  <2> DEFINE s == [Entered(p) EXCEPT !.head.ghost = "none"]
  <2>1. pr' = MergeAttempt(p, s, s)
    BY <1>5 DEF ConcludeGhosts
  <2>2. s \in PrType /\ s.base = pr[p].base
    BY <1>e, <1>g
  <2> HIDE DEF s
  <2> QED BY <1>m, <2>1, <2>2
<1>6. CASE ResetPlaceholder(p)
  <2>1. PICK ci \in Probes(p) :
          \/ pr' = [pr EXCEPT ![p] = Stripped(p, ci)]
          \/ \E c \in Started(p) :
               pr' = [pr EXCEPT ![p] = [With(Dispatched(Pushed(Stripped(p, ci), "machine"), c), Arm)
                                           EXCEPT !.resets = @ + 1]]
    BY <1>6 DEF ResetPlaceholder
  <2>2. CASE pr' = [pr EXCEPT ![p] = Stripped(p, ci)]
    BY <1>h, <1>e, <2>2
  <2>3. ASSUME NEW c \in Started(p),
               pr' = [pr EXCEPT ![p] = [With(Dispatched(Pushed(Stripped(p, ci), "machine"), c), Arm)
                                           EXCEPT !.resets = @ + 1]]
        PROVE  Arm \in pr'[p].labels
    <3> DEFINE a == Dispatched(Pushed(Stripped(p, ci), "machine"), c)
    <3>1. a \in PrType
      BY <1>e, <2>3, PushedTyped, DispatchedTyped DEF Started
    <3>2. pr'[p] = [With(a, Arm) EXCEPT !.resets = @ + 1]
      BY <1>h, <2>3
    <3> HIDE DEF a
    <3>3. With(a, Arm) \in PrType
      BY <3>1, LabelsTyped
    <3>4. pr'[p].labels = With(a, Arm).labels
      BY <3>2, <3>3 DEF PrType
    <3> QED BY <1>a, <3>1, <3>4
  <2> QED BY <2>1, <2>2, <2>3
<1>7. CASE Dispatch(p)
  <2>1. PICK ci \in Probes(p), c \in Started(p) :
          pr' = [pr EXCEPT ![p] = With(Dispatched([Stripped(p, ci) EXCEPT !.head.ghost = "none"], c), Arm)]
    BY <1>7 DEF Dispatch
  <2> DEFINE a == Dispatched([Stripped(p, ci) EXCEPT !.head.ghost = "none"], c)
  <2>2. a \in PrType
    BY <1>e, <1>g, <2>1, DispatchedTyped DEF Started
  <2>3. pr'[p] = With(a, Arm)
    BY <1>h, <2>1
  <2> HIDE DEF a
  <2> QED BY <1>a, <2>2, <2>3
<1>8. CASE DispatchThrows(p)
  <2>1. PICK ci : pr' = [pr EXCEPT ![p] = [Stripped(p, ci) EXCEPT !.head.ghost = "none"]]
    BY <1>8 DEF DispatchThrows
  <2>2. pr'[p].base = Stripped(p, ci).base
    BY <1>h, <1>e, <1>g, <2>1
  <2> QED BY <1>e, <2>2
<1> QED BY <1>1, <1>2, <1>3, <1>4, <1>5, <1>6, <1>7, <1>8 DEF Handle

\* One visit.
LEMMA HandleTurn ==
    ASSUME TypeOK, MutexInv, Orderly, OrderInv, NEW p \in PRs, Handle(p), rule \in 8 .. 10
    PROVE  Turn(p)
<1> USE LabelNames
<1>0. CASE pr[p].base # "current"
  <2>1. \A x \in PRs : ~ Waits(x)
    BY <1>0, HandleVisits, InHand
  <2>2. ASSUME NEW q \in PRs PROVE ~ Waits(q)'
    <3>1. CASE q = p
      BY <1>0, <3>1, StaleTurn DEF Waits
    <3>2. CASE q # p
      <4>1. /\ pr'[q].head = pr[q].head /\ pr'[q].labels = pr[q].labels /\ pr'[q].open = pr[q].open
            /\ pr'[q].base = pr[q].base \/ pr'[q].base = "behind"
        BY <3>2, OthersStay DEF TypeOK
      <4>2. Ready(pr'[q]) => Ready(pr[q])
        BY <4>1, ReadyBack
      <4>3. moved' = moved
        BY HandleEnds
      <4> QED BY <2>1, <4>1, <4>2, <4>3 DEF Waits
    <3> QED BY <3>1, <3>2
  <2> QED BY <2>2 DEF Turn
<1> SUFFICES ASSUME pr[p].base = "current" PROVE Turn(p)
  BY <1>0
<1>o. ASSUME \A q \in PRs : ~ Ready(pr'[q]) PROVE Turn(p)
  BY <1>o DEF Turn, Waits
<1>v. p \in DOMAIN todo /\ Current \in {"arm", "rearm", "rearm green"}
  <2>1. p \in DOMAIN todo
    BY HandleVisits
  <2>2. rule = 8 => Current = "arm"
    BY DEF Current, Rules
  <2>3. rule = 9 => Current = "rearm"
    BY DEF Current, Rules
  <2>4. rule = 10 => Current = "rearm green"
    BY DEF Current, Rules
  <2>5. rule = 8 \/ rule = 9 \/ rule = 10
    OBVIOUS
  <2> QED BY <2>1, <2>2, <2>3, <2>4, <2>5
<1>h. /\ pr \in [PRs -> PrType] /\ pr[p] \in PrType /\ TidyHead(pr[p])
      /\ pr[p].open
      /\ Approved \in todo[p] <=> Approved \in pr[p].labels
      /\ rule = 8 => Park \notin todo[p] /\ Approved \in pr[p].labels
  BY <1>v, InHand
<1>p. \A ci \in Probes(p) : ci = pr[p].head.ci
  BY OrderlyReads
<1>c. \A c \in Started(p) : c = "active"
  BY OrderlyReads
<1>n. pr[p].since # "human"
  BY <1>h DEF TidyHead
<1>e. ASSUME NEW ci, NEW d, d # "defer", Decided(p, d, ci)
      PROVE  /\ Entered(p) = pr[p] /\ Stripped(p, ci) \in PrType /\ SameHead(pr[p], Stripped(p, ci))
             /\ Stripped(p, ci).open
  <2>1. Entered(p) = pr[p]
    BY <1>e, <1>n, EntryPlain
  <2> HIDE DEF Entered
  <2> QED BY <2>1, <1>h, StripPlain DEF SameHead
\* The slot is given.
<1>g. ASSUME NEW s \in PrType, NEW t, s.open,
             Approved \in s.labels <=> Approved \in pr[p].labels,
             t = With(Dispatched(s, "active"), Arm), pr'[p].open = t.open, pr'[p].labels = t.labels
      PROVE  Turn(p)
  <2> DEFINE d == Dispatched(s, "active")
  <2>1. d \in PrType
    BY <1>g, RedsEffects
  <2>2. d.labels = s.labels /\ d.open = s.open
    BY <1>g, LabelFree
  <2>3. t = With(d, Arm)
    BY <1>g
  <2> HIDE DEF d
  <2>4. With(d, Arm).labels = d.labels \cup {Arm} /\ With(d, Arm).open = d.open
    BY <2>1, LabelEffects
  <2>5. t.labels = s.labels \cup {Arm} /\ t.open
    BY <1>g, <2>2, <2>3, <2>4
  <2> QED BY <1>g, <1>h, <2>5 DEF Turn
<1>1. CASE \/ Rerun(p) \/ Unarm(p) \/ UpdateBranch(p) \/ Merge(p) \/ FailValidation(p) \/ Complete(p)
           \/ SweepVerdict(p) \/ SweepZombie(p) \/ SweepThrows(p) \/ SweepPark(p) \/ SweepKeeps(p)
  BY <1>1, <1>v DEF Rerun, Unarm, UpdateBranch, Merge, FailValidation, Complete, SweepVerdict, SweepZombie,
                    SweepThrows, SweepPark, SweepKeeps, ZombieDue, Sweeping, Visiting
<1>2. CASE PassOver(p)
  <2>1. PICK ci \in Probes(p) :
          \/ Decided(p, "defer", ci) /\ UNCHANGED pr
          \/ Decided(p, "skip", ci) /\ pr' = [pr EXCEPT ![p] = Entered(p)]
          \/ Decided(p, "strip", ci) /\ pr' = [pr EXCEPT ![p] = Stripped(p, ci)]
    BY <1>2 DEF PassOver
  <2>2. PICK d \in {"defer", "skip", "strip"} : Decided(p, d, ci)
    BY <2>1
  <2>3. SameHead(pr[p], pr'[p])
    <3>1. CASE Decided(p, "defer", ci) /\ UNCHANGED pr
      BY <3>1 DEF SameHead
    <3>2. CASE Decided(p, "skip", ci) /\ pr' = [pr EXCEPT ![p] = Entered(p)]
      BY <3>2, <1>h, <1>e DEF SameHead
    <3>3. CASE Decided(p, "strip", ci) /\ pr' = [pr EXCEPT ![p] = Stripped(p, ci)]
      BY <3>3, <1>h, <1>e
    <3> QED BY <2>1, <3>1, <3>2, <3>3
  <2>4. Skipped(p)
    BY <1>2 DEF PassOver
  <2>5. rule = 8 /\ Waits(p) => Full
    BY <1>v, <2>2, ArmPasses
  <2> QED BY <2>3, <2>4, <2>5 DEF Turn, Passed
<1>3. CASE ResetInvisible(p)
  <2>1. PICK ci, r, free : Decision(p, r, ci, free) = "reset"
    BY <1>3 DEF ResetInvisible, Decided
  <2>2. ~ Invisible(p, pr[p])
    BY OrderlyReads DEF Invisible
  <2> QED BY <2>1, <2>2 DEF Decision
<1>4. CASE FastPath(p)
  <2>1. PICK ci, r, free : ci \in Probes(p) /\ Decided(p, "merge", ci) /\ Decision(p, r, ci, free) = "merge"
    BY <1>4 DEF FastPath, Decided
  <2>2. pr[p].head.ci = "green" /\ pr[p].head.ghost = "none" /\ Approved \in pr[p].labels
    BY <1>p, <1>h, <2>1 DEF Decision
  <2>3. pr' = MergeAttempt(p, pr[p], Validated(pr[p]))
    BY <1>4, <1>e, <2>1 DEF FastPath
  <2>4. pr' = Merged(p)
    BY <1>h, <2>2, <2>3, GreenMerges
  <2> QED BY <1>h, <1>o, <2>4, MergeEnds
<1>5. CASE ConcludeGhosts(p)
  <2> DEFINE s == [pr[p] EXCEPT !.head.ghost = "none"]
  <2>1. PICK ci, r, free : ci \in Probes(p) /\ Decided(p, "conclude", ci) /\ Decision(p, r, ci, free) = "conclude"
    BY <1>5 DEF ConcludeGhosts, Decided
  <2>2. pr[p].head.ci = "green"
    BY <1>p, <2>1 DEF Decision
  <2>3. pr' = MergeAttempt(p, s, s)
    BY <1>5, <1>e, <2>1 DEF ConcludeGhosts
  <2>4. s \in PrType /\ s.head.ci = "green" /\ s.base = "current" /\ s.labels = pr[p].labels
    BY <1>h, <2>2, RedsEffects
  <2>5. s.head.ghost = "none"
    BY <1>h DEF PrType, HeadType
  <2> HIDE DEF s
  <2>6. CASE Approved \in pr[p].labels
    <3>1. pr' = Merged(p)
      BY <2>3, <2>4, <2>5, <2>6, GreenMerges
    <3> QED BY <1>h, <1>o, <3>1, MergeEnds
  <2>7. CASE Approved \notin pr[p].labels
    <3>1. pr'[p] = Validated(s)
      BY <1>h, <2>3, <2>4, <2>7 DEF MergeAttempt
    <3>2. Approved \notin pr'[p].labels
      BY <2>4, <2>7, <3>1, LabelEffects
    <3> QED BY <1>h, <2>7, <3>2 DEF Turn
  <2> QED BY <2>6, <2>7
<1>6. CASE ResetPlaceholder(p)
  <2>1. PICK ci \in Probes(p) :
          /\ Decided(p, "reset and dispatch", ci)
          /\ \/ pr' = [pr EXCEPT ![p] = Stripped(p, ci)] /\ Skipped(p)
             \/ pr' = [pr EXCEPT ![p] = [With(Dispatched(Pushed(Stripped(p, ci), "machine"), "active"), Arm)
                                           EXCEPT !.resets = @ + 1]]
    BY <1>6, <1>c DEF ResetPlaceholder
  <2>2. Stripped(p, ci) \in PrType /\ SameHead(pr[p], Stripped(p, ci)) /\ Stripped(p, ci).open
    BY <1>e, <2>1
  <2>3. CASE pr' = [pr EXCEPT ![p] = Stripped(p, ci)] /\ Skipped(p)
    <3>1. PICK r, free : Decision(p, r, ci, free) = "reset and dispatch"
      BY <2>1 DEF Decided
    <3>2. pr[p].head.ghost = "placeholder"
      BY <3>1 DEF Decision
    <3>3. ~ Waits(p)
      BY <3>2 DEF Waits, Ready
    <3>4. pr'[p] = Stripped(p, ci)
      BY <1>h, <2>3
    <3> QED BY <2>2, <2>3, <3>3, <3>4 DEF Turn, Passed
  <2>4. CASE pr' = [pr EXCEPT ![p] = [With(Dispatched(Pushed(Stripped(p, ci), "machine"), "active"), Arm)
                                        EXCEPT !.resets = @ + 1]]
    <3> DEFINE a == Pushed(Stripped(p, ci), "machine")
               d == With(Dispatched(a, "active"), Arm)
    <3>1. a \in PrType /\ a.labels = Stripped(p, ci).labels /\ a.open = Stripped(p, ci).open
      <4>1. a \in PrType
        BY <2>2, PushedTyped
      <4>2. a.labels = Stripped(p, ci).labels /\ a.open = Stripped(p, ci).open
        BY <2>2, LabelFree
      <4> QED BY <4>1, <4>2
    <3>2. d \in PrType
      BY <3>1, RedsEffects, LabelsTyped
    <3>3. pr'[p] = [d EXCEPT !.resets = @ + 1]
      BY <1>h, <2>4
    <3>4. pr'[p].labels = d.labels /\ pr'[p].open = d.open
      BY <3>2, <3>3 DEF PrType
    <3>5. a.open /\ (Approved \in a.labels <=> Approved \in pr[p].labels)
      BY <2>2, <3>1 DEF SameHead
    <3> QED BY <1>g, <3>1, <3>4, <3>5
  <2> QED BY <2>1, <2>3, <2>4
<1>7. CASE Dispatch(p)
  <2>1. PICK ci \in Probes(p) :
          /\ Decided(p, "dispatch", ci)
          /\ pr' = [pr EXCEPT ![p] = With(Dispatched([Stripped(p, ci) EXCEPT !.head.ghost = "none"], "active"), Arm)]
    BY <1>7, OrderlyReads DEF Dispatch
  <2> DEFINE s == [Stripped(p, ci) EXCEPT !.head.ghost = "none"]
  <2>2. Stripped(p, ci) \in PrType /\ SameHead(pr[p], Stripped(p, ci)) /\ Stripped(p, ci).open
    BY <1>e, <2>1
  <2>3. s \in PrType /\ s.labels = Stripped(p, ci).labels /\ s.open = Stripped(p, ci).open
    BY <2>2, RedsEffects
  <2>4. pr'[p] = With(Dispatched(s, "active"), Arm)
    BY <1>h, <2>1
  <2> HIDE DEF s
  <2>5. s.open /\ (Approved \in s.labels <=> Approved \in pr[p].labels)
    BY <2>2, <2>3 DEF SameHead
  <2> QED BY <1>g, <2>3, <2>4, <2>5
<1>8. CASE DispatchThrows(p)
  BY <1>8, OrderlyReads DEF DispatchThrows
<1> QED BY <1>1, <1>2, <1>3, <1>4, <1>5, <1>6, <1>7, <1>8 DEF Handle

-----------------------------------------------------------------------------
(* A visit keeps the order. *)

\* A PR that is passed over leaves the others of its rule, and no count.
LEMMA SkipsOne ==
    ASSUME NEW p, Skipped(p)
    PROVE  /\ DOMAIN todo' = (DOMAIN todo) \ {p}
           /\ rule' = rule \/ acted' = 0 \/ acted' = acted
           /\ acted' \in {acted, 0}
<1> DEFINE rest == (DOMAIN todo) \ {p}
<1>1. Remains(rest, acted, list, moved)
  BY DEF Skipped, Visited
<1>2. CASE rest = {}
  <2>1. Leave(list, moved)
    BY <1>1, <1>2 DEF Remains
  <2> QED BY <1>2, <2>1, NoTicketsEmpty DEF Leave
<1>3. CASE rest # {}
  <2>1. todo' = Tickets(todo, rest) /\ acted' = acted
    BY <1>1, <1>3 DEF Remains
  <2> QED BY <2>1, TicketsAre
<1> QED BY <1>2, <1>3

\* Who is left out of the rule was left out for the limit.
LEMMA LimitEnds ==
    ASSUME TypeOK, NEW p \in PRs, Handle(p), rule = 8, NEW q \in DOMAIN todo, q # p
    PROVE  \/ q \in DOMAIN todo' /\ rule' = 8 /\ acted' \in {acted, acted + 1}
           \/ acted + 1 >= slots
<1>1. PICK counts, kept, S : Visited(p, counts, kept, S)
  BY HandleWalks DEF Acted, ActedAndDropped, Skipped
<1>2. Current = "arm"
  BY DEF Current, Rules
<1>3. Limit = slots
  BY <1>2 DEF Limit
<1> DEFINE n == IF counts /\ Current \in Limited THEN acted + 1 ELSE acted
           full == counts /\ Current \in Limited /\ n >= Limit
           rest == (DOMAIN todo) \ {p}
<1>4. Remains(IF full THEN {} ELSE rest, n, kept, S)
  BY <1>1 DEF Visited
<1>5. CASE full
  BY <1>3, <1>5
<1>6. CASE ~ full
  <2>1. rest # {} /\ q \in rest
    OBVIOUS
  <2>2. todo' = Tickets(todo, rest) /\ acted' = n /\ rule' = rule
    BY <1>4, <1>6, <2>1 DEF Remains
  <2> QED BY <2>1, <2>2, TicketsAre
<1> QED BY <1>5, <1>6

\* Who falls behind the base on the merge path does so by a merge: nobody waits then.
LEMMA MergeMoves ==
    ASSUME TypeOK, NEW p \in PRs, Handle(p), NEW q \in PRs, q # p, pr'[q].base # pr[q].base
    PROVE  \A x \in PRs : ~ Ready(pr'[x])
<1>2. pr \in [PRs -> PrType]
  BY DEF TypeOK
<1>3. ASSUME NEW s, NEW t, pr' = MergeAttempt(p, s, t) PROVE pr' = Merged(p)
  BY <1>2, <1>3 DEF MergeAttempt
<1>4. pr' = Merged(p)
  <2>1. CASE Rerun(p) \/ Unarm(p) \/ UpdateBranch(p) \/ FailValidation(p) \/ Complete(p)
    BY <1>2, <2>1 DEF Rerun, Unarm, UpdateBranch, FailValidation, Complete
  <2>2. CASE SweepVerdict(p) \/ SweepZombie(p) \/ SweepThrows(p) \/ SweepPark(p) \/ SweepKeeps(p)
    BY <1>2, <2>2 DEF SweepVerdict, SweepZombie, SweepThrows, SweepPark, SweepKeeps
  <2>3. CASE PassOver(p) \/ ResetInvisible(p) \/ ResetPlaceholder(p) \/ Dispatch(p) \/ DispatchThrows(p)
    BY <1>2, <2>3 DEF PassOver, ResetInvisible, ResetPlaceholder, Dispatch, DispatchThrows
  <2>4. CASE FastPath(p) \/ ConcludeGhosts(p) \/ Merge(p)
    BY <1>3, <2>4 DEF FastPath, ConcludeGhosts, Merge
  <2> QED BY <2>1, <2>2, <2>3, <2>4 DEF Handle
<1> QED BY <1>2, <1>4, MergeEnds

\* Between park-reset and "arm" no park is lifted.
LEMMA EarlyKeepsPark ==
    ASSUME TypeOK, NEW p \in PRs, Handle(p), rule \in 5 .. 7, pr'[p].open, Park \in pr[p].labels
    PROVE  Park \in pr'[p].labels
<1> pr \in [PRs -> PrType] /\ pr[p] \in PrType
  BY DEF TypeOK
<1> USE LabelNames
<1>v. Current \in {"merge", "fail", "sweep"}
  <2>1. rule = 5 => Current = "merge"
    BY RuleNumber DEF TypeOK
  <2>2. rule = 6 => Current = "fail"
    BY RuleNumber DEF TypeOK
  <2>3. rule = 7 => Current = "sweep"
    BY RuleNumber DEF TypeOK
  <2>4. rule = 5 \/ rule = 6 \/ rule = 7
    OBVIOUS
  <2> QED BY <2>1, <2>2, <2>3, <2>4
<1>f. ASSUME NEW done PROVE Park \in FailReported(p, pr[p], done).labels
  <2>1. PICK t \in {pr[p], Without(pr[p], Arm)} :
          FailReported(p, pr[p], done) \in {t, Counted(t), Parked(Counted(t))}
    BY FailIs
  <2>2. Arm # Park
    BY DEF Arm, Park
  <2>3. t \in PrType /\ Park \in t.labels
    BY <2>2, LabelsTyped, LabelEffects
  <2> DEFINE u == Counted(t)
  <2>4. u \in PrType /\ u.labels = t.labels
    BY <2>3, CountedTyped
  <2> HIDE DEF u
  <2>5. Parked(u).labels = u.labels \cup {Park}
    BY <2>4, LabelEffects
  <2>6. FailReported(p, pr[p], done) \in {t, u, Parked(u)}
    BY <2>1 DEF u
  <2> QED BY <2>3, <2>4, <2>5, <2>6
<1>a. Park # Arm /\ Park # Latch
  BY DEF Arm, Park, Latch
<1>g. Park \in Validated(pr[p]).labels
  BY <1>a, LabelEffects
<1>1. CASE Merge(p)
  <2>1. pr' = MergeAttempt(p, pr[p], pr[p])
    BY <1>1 DEF Merge
  <2>2. pr'[p] \in {Validated(pr[p]), pr[p], Closed(pr[p])}
    BY <2>1 DEF MergeAttempt, Merged
  <2>3. ~ Closed(pr[p]).open
    BY DEF Closed, PrType
  <2> QED BY <1>g, <2>2, <2>3
<1>2. CASE FailValidation(p)
  <2>1. PICK done \in Writes : pr' = [pr EXCEPT ![p] = FailReported(p, pr[p], done)]
    BY <1>2 DEF FailValidation
  <2> QED BY <1>f, <2>1
<1>3. CASE SweepVerdict(p)
  <2>1. PICK ci, done : pr' = [pr EXCEPT ![p] = IF ci = "green" THEN Validated(pr[p]) ELSE FailReported(p, pr[p], done)]
    BY <1>3 DEF SweepVerdict
  <2>2. pr'[p] = Validated(pr[p]) \/ pr'[p] = FailReported(p, pr[p], done)
    BY <2>1
  <2> QED BY <1>f, <1>g, <2>2
<1>4. CASE SweepZombie(p)
  <2>1. PICK c \in Started(p) :
          pr' = [pr EXCEPT ![p] = [With(Dispatched(pr[p], c), Arm)
                                     EXCEPT !.head.zombies = @ + 1, !.head.quiet = ZombieWindow]]
    BY <1>4 DEF SweepZombie
  <2> DEFINE d == Dispatched(pr[p], c)
             t == With(d, Arm)
  <2>2. d \in PrType /\ d.labels = pr[p].labels
    <3>1. d \in PrType
      BY <2>1, DispatchedTyped DEF Started
    <3> QED BY <3>1, LabelFree
  <2>3. pr'[p] = [t EXCEPT !.head.zombies = @ + 1, !.head.quiet = ZombieWindow]
    BY <2>1
  <2> HIDE DEF d
  <2>4. t \in PrType /\ t.labels = d.labels \cup {Arm}
    <3>1. t \in PrType
      BY <2>2, LabelsTyped
    <3> QED BY <2>2, <3>1, LabelEffects
  <2> HIDE DEF t
  <2>5. pr'[p].labels = t.labels
    BY <2>3, <2>4 DEF PrType
  <2> QED BY <2>2, <2>4, <2>5
<1>5. CASE SweepThrows(p)
  <2>1. pr'[p] = With(pr[p], Arm)
    BY <1>5 DEF SweepThrows
  <2> QED BY <2>1, LabelEffects
<1>6. CASE SweepPark(p)
  <2> DEFINE w == Without(pr[p], Arm)
  <2>1. w \in PrType /\ w.labels = pr[p].labels \ {Arm}
    BY LabelsTyped, LabelEffects
  <2>2. pr'[p] = Parked(w) \/ pr'[p] = w
    BY <1>6 DEF SweepPark
  <2> HIDE DEF w
  <2>3. Parked(w).labels = w.labels \cup {Park}
    BY <2>1, LabelEffects
  <2> QED BY <1>a, <2>1, <2>2, <2>3
<1>7. CASE SweepKeeps(p)
  BY <1>7 DEF SweepKeeps
<1>8. ASSUME Rerun(p) \/ Unarm(p) \/ UpdateBranch(p) \/ Complete(p) PROVE FALSE
  BY <1>v, <1>8 DEF Rerun, Unarm, UpdateBranch, Complete, Visiting
<1>9. ASSUME PassOver(p) \/ ResetInvisible(p) \/ FastPath(p) \/ ConcludeGhosts(p) \/ ResetPlaceholder(p)
            \/ Dispatch(p) \/ DispatchThrows(p)
      PROVE FALSE
  <2>1. PICK r \in Validating : Visiting(r, p)
    BY <1>9 DEF PassOver, ResetInvisible, FastPath, ConcludeGhosts, ResetPlaceholder, Dispatch,
                DispatchThrows, Decided
  <2>2. rule >= 8
    BY <2>1, HandleVisits
  <2> QED BY <2>2
<1> QED BY <1>1, <1>2, <1>3, <1>4, <1>5, <1>6, <1>7, <1>8, <1>9 DEF Handle

\* Within a rule one visit counts once at most.
LEMMA ActsOne ==
    ASSUME TypeOK, NEW p \in PRs, Handle(p), rule' = rule
    PROVE  acted \in Nat /\ acted' \in {acted, acted + 1}
<1>1. PICK counts, kept, S : Visited(p, counts, kept, S)
  BY HandleWalks DEF Acted, ActedAndDropped, Skipped
<1>2. rule \in 0 .. LastRule /\ acted \in Nat
  BY SlotsNumber DEF TypeOK
<1>3. ~ Leave(kept, S)
  BY <1>2, RuleCount DEF Leave, TickEnds
<1> QED BY <1>1, <1>2, <1>3, VisitedIs

\* Who waits after a visit of the merge path has waited before.
LEMMA WaitsBack ==
    ASSUME TypeOK, NEW p \in PRs, Handle(p), rule \in 8 .. 10, Turn(p), NEW q \in PRs, Waits(q)'
    PROVE  Waits(q) /\ (q = p => Passed(p))
<1>1. Ready(pr'[q]) /\ Arm \notin pr'[q].labels /\ q \notin moved
  BY HandleEnds DEF Waits
<1>2. CASE q # p
  <2>1. /\ pr'[q].head = pr[q].head /\ pr'[q].labels = pr[q].labels /\ pr'[q].open = pr[q].open
        /\ pr'[q].base = pr[q].base \/ pr'[q].base = "behind"
    BY <1>2, OthersStay DEF TypeOK
  <2>2. Ready(pr[q])
    BY <1>1, <2>1, ReadyBack
  <2> QED BY <1>1, <1>2, <2>1, <2>2 DEF Waits
<1>3. CASE q = p
  <2>1. Approved \in pr'[p].labels
    BY <1>1, <1>3 DEF Ready
  <2>2. Passed(p)
    BY <1>1, <1>3, <2>1 DEF Turn
  <2>3. SameHead(pr[p], pr'[p])
    BY <2>2 DEF Passed
  <2>4. Ready(pr[p]) /\ Arm \notin pr[p].labels
    BY <1>1, <1>3, <2>3, ReadyBack DEF SameHead
  <2> QED BY <1>1, <1>3, <2>2, <2>4 DEF Waits
<1> QED BY <1>2, <1>3

\* While somebody waits, no holder leaves, and "arm" adds the one it does not pass over.
LEMMA HoldersGain ==
    ASSUME TypeOK, NEW p \in PRs, Handle(p), rule \in 8 .. 10, Turn(p), NEW q \in PRs, Waits(q)'
    PROVE  LET k == Cardinality(Holders(LiveLabels))
               n == Cardinality(Holders(LiveLabels)')
           IN /\ k \in Nat /\ n \in Nat /\ k <= n
              /\ rule = 8 /\ ~ Passed(p) /\ Arm \notin pr[p].labels => k + 1 <= n
<1> DEFINE H == Holders(LiveLabels)
           G == Holders(LiveLabels)'
<1>1. H \in SUBSET PRs /\ G \in SUBSET PRs
  BY DEF Holders
<1>2. IsFiniteSet(H) /\ IsFiniteSet(G) /\ Cardinality(H) \in Nat /\ Cardinality(G) \in Nat
  BY <1>1, FiniteCounts
<1>3. ASSUME NEW x \in H, x # p PROVE x \in G
  <2>1. x \in PRs /\ pr[x].open /\ {Arm, Approved} \subseteq pr[x].labels
    BY <1>3, HoldersAre
  <2>2. pr'[x].open /\ {Arm, Approved} \subseteq pr'[x].labels
    BY <1>3, <2>1, OthersStay DEF TypeOK
  <2> QED BY <2>1, <2>2, HoldersAre
<1>4. CASE pr'[p].open /\ {Arm, Approved} \subseteq pr'[p].labels
  <2>1. p \in G
    BY <1>4, HoldersAre
  <2>2. H \cup {p} \subseteq G
    BY <1>3, <2>1
  <2>3. Arm \notin pr[p].labels => p \notin H
    BY HoldersAre
  <2> HIDE DEF H, G
  <2>4. p \notin H => Cardinality(H \cup {p}) = Cardinality(H) + 1
    BY <1>2, FS_AddElement
  <2>5. Cardinality(H \cup {p}) <= Cardinality(G) /\ Cardinality(H) <= Cardinality(G)
    BY <1>2, <2>2, FS_Subset
  <2> QED BY <1>2, <2>3, <2>4, <2>5 DEF H, G
<1>5. CASE rule # 8 /\ Approved \notin pr[p].labels
  <2>1. p \notin H
    BY <1>5, HoldersAre
  <2>2. H \subseteq G
    BY <1>3, <2>1
  <2> HIDE DEF H, G
  <2>3. Cardinality(H) <= Cardinality(G)
    BY <1>2, <2>2, FS_Subset
  <2> QED BY <1>2, <1>5, <2>3 DEF H, G
<1>6. CASE Passed(p)
  <2>1. SameHead(pr[p], pr'[p])
    BY <1>6 DEF Passed
  <2>2. p \in H => p \in G
    BY <2>1, HoldersAre DEF SameHead
  <2>3. H \subseteq G
    BY <1>3, <2>2
  <2> HIDE DEF H, G
  <2>4. Cardinality(H) <= Cardinality(G)
    BY <1>2, <2>3, FS_Subset
  <2> QED BY <1>2, <1>6, <2>4 DEF H, G
<1>7. ~ (\A x \in PRs : ~ Waits(x)')
  OBVIOUS
<1> QED BY <1>4, <1>5, <1>6, <1>7 DEF Turn

\* A visit of the merge path keeps the slots accounted for.
LEMMA HandleTaken ==
    ASSUME TypeOK, MutexInv, Orderly, OrderInv, NEW p \in PRs, Handle(p), rule \in 8 .. 10,
           NEW q \in PRs, Waits(q)'
    PROVE  /\ rule' = 8 => acted' <= Cardinality(Holders(LiveLabels)')
           /\ (rule' \in {9, 10} \/ (rule' = 8 /\ q \notin DOMAIN todo')) => Full'
<1> DEFINE k == Cardinality(Holders(LiveLabels))
           n == Cardinality(Holders(LiveLabels)')
<1>1. Turn(p)
  BY HandleTurn
<1>2. Waits(q) /\ (q = p => Passed(p))
  BY <1>1, WaitsBack
<1>3. k \in Nat /\ n \in Nat /\ k <= n /\ (rule = 8 /\ ~ Passed(p) /\ Arm \notin pr[p].labels => k + 1 <= n)
  BY <1>1, HoldersGain
<1>4. slots' = slots /\ slots \in Nat
  BY HandleEnds, SlotsNumber
<1>5. (Full <=> k >= slots) /\ (Full' <=> n >= slots)
  BY <1>4 DEF Full
<1>6. rule = 8 => acted <= k
  BY <1>2 DEF OrderInv, ActsHeld
<1>7. p \in DOMAIN todo /\ (rule = 8 => Arm \notin pr[p].labels)
  BY HandleVisits, InHand
<1>8. acted \in Nat
  BY <1>4 DEF TypeOK
<1> HIDE DEF k, n
<1>9. ASSUME rule' = 8 PROVE acted' <= n
  <2>1. CASE rule # 8
    <3>1. acted' = 0
      BY <1>9, <2>1, HandleEnds
    <3> QED BY <1>3, <3>1
  <2>2. CASE rule = 8 /\ Passed(p)
    <3>1. acted' \in {acted, 0}
      BY <2>2, SkipsOne DEF Passed
    <3> QED BY <1>3, <1>6, <1>8, <2>2, <3>1
  <2>3. CASE rule = 8 /\ ~ Passed(p)
    <3>1. acted' \in {acted, acted + 1}
      BY <1>9, <2>3, ActsOne
    <3> QED BY <1>3, <1>6, <1>7, <1>8, <2>3, <3>1
  <2> QED BY <2>1, <2>2, <2>3
<1>10. ASSUME rule' \in {9, 10} \/ (rule' = 8 /\ q \notin DOMAIN todo') PROVE n >= slots
  <2>1. CASE Full
    BY <1>3, <1>4, <1>5, <2>1
  <2>2. CASE rule \in {9, 10} \/ q \notin DOMAIN todo
    <3>1. Full
      BY <1>2, <1>7, <2>2 DEF OrderInv, Taken
    <3> QED BY <2>1, <3>1
  <2>3. CASE rule = 8 /\ Passed(p)
    <3>1. q = p => Full
      BY <1>2, <2>3 DEF Passed
    <3>2. ASSUME q # p, q \in DOMAIN todo PROVE FALSE
      <4>1. q \in DOMAIN todo'
        BY <2>3, <3>2, SkipsOne DEF Passed
      <4>2. rule' = rule
        BY <4>1, HandleEnds
      <4> QED BY <1>10, <2>3, <4>1, <4>2
    <3> QED BY <2>1, <2>2, <3>1, <3>2
  <2>4. CASE rule = 8 /\ ~ Passed(p) /\ q \in DOMAIN todo
    <3>1. acted + 1 >= slots
      BY <1>2, <1>10, <2>4, LimitEnds
    <3> QED BY <1>3, <1>4, <1>6, <1>7, <1>8, <2>4, <3>1
  <2> QED BY <2>2, <2>3, <2>4
<1> QED BY <1>5, <1>9, <1>10 DEF n

\* A visit.
LEMMA HandleOrder ==
    ASSUME TypeOK, MutexInv, OrderInv, NEW p \in PRs, Handle(p)
    PROVE  OrderInv'
<1>e. env' = env
  BY HandleWalks
<1> SUFFICES ASSUME Orderly PROVE ((\A q \in PRs : TidyHead(pr[q])) /\ VisitsOrder /\ ListKept /\ Taken /\ ActsHeld)'
  BY <1>e DEF OrderInv, Orderly, Undisturbed
<1> (\A q \in PRs : TidyHead(pr[q])) /\ VisitsOrder /\ ListKept /\ Taken /\ ActsHeld
  BY DEF OrderInv
<1> pr \in [PRs -> PrType] /\ rule \in 0 .. LastRule /\ rule # 0 /\ p \in DOMAIN todo /\ DOMAIN todo \subseteq PRs
  BY HandleVisits DEF TypeOK
<1>1. ASSUME NEW q \in PRs, q # p
      PROVE  /\ pr'[q].head = pr[q].head /\ pr'[q].since = pr[q].since
             /\ pr'[q].labels = pr[q].labels /\ pr'[q].open = pr[q].open
             /\ pr'[q].base = pr[q].base \/ pr'[q].base = "behind"
  BY <1>1, OthersStay
<1>2. /\ list' \in {list, NoList}
      /\ \/ DOMAIN todo' = {}
         \/ /\ rule' = rule /\ DOMAIN todo' \subseteq (DOMAIN todo) \ {p}
            /\ \A q \in DOMAIN todo' : todo'[q] = todo[q]
  BY HandleWalks, WalkShrinks
<1>3. PICK n \in 0 .. 13 : n = rule'
  BY HandleTyped, RuleCount DEF TypeOK
<1>4. \/ n = rule /\ DOMAIN todo' # {}
      \/ n # rule /\ DOMAIN todo' = {} /\ (n = rule + 1 \/ n = 0) /\ (rule = 4 => list' = NoList)
  BY <1>3, HandleLeaves, HandleEnds
<1>5. ASSUME NEW q \in PRs PROVE TidyHead(pr'[q])
  <2>1. CASE q = p
    BY <2>1, HandleTidy
  <2>2. CASE q # p
    <3>1. TidyHead(pr[q])
      OBVIOUS
    <3> QED BY <1>1, <2>2, <3>1 DEF TidyHead
  <2> QED BY <2>1, <2>2
<1>6. VisitsOrder'
  <2> SUFFICES ASSUME NEW q \in DOMAIN todo'
      PROVE  /\ n = 2 => pr'[q].base = "behind"
             /\ n \in {5, 13} => pr'[q].head.ci \in {"green", "none"}
             /\ n = 6 => pr'[q].head.ci = "red"
             /\ n \in 8 .. 10 /\ pr'[q].base # "current" => \A x \in PRs : ~ Waits(x)'
             /\ n = 8 => Park \notin todo'[q] /\ Approved \in todo'[q] /\ Arm \notin pr'[q].labels
    BY <1>3 DEF VisitsOrder
  <2>1. n = rule /\ q \in DOMAIN todo /\ q # p /\ q \in PRs /\ todo'[q] = todo[q]
    BY <1>2, <1>3
  <2>2. /\ rule = 2 => pr[q].base = "behind"
        /\ rule \in {5, 13} => pr[q].head.ci \in {"green", "none"}
        /\ rule = 6 => pr[q].head.ci = "red"
        /\ rule \in 8 .. 10 /\ pr[q].base # "current" => \A x \in PRs : ~ Waits(x)
        /\ rule = 8 => Park \notin todo[q] /\ Approved \in todo[q] /\ Arm \notin pr[q].labels
    BY <2>1 DEF VisitsOrder
  <2>3. ASSUME rule \in 8 .. 10, pr'[q].base # "current", NEW x \in PRs PROVE ~ Waits(x)'
    <3>1. CASE pr[q].base # "current"
      BY <2>2, <2>3, <3>1, HandleTurn, WaitsBack
    <3>2. CASE pr[q].base = "current"
      BY <2>1, <2>3, <3>2, MergeMoves DEF Waits
    <3> QED BY <3>1, <3>2
  <2>4. pr'[q].head = pr[q].head /\ pr'[q].labels = pr[q].labels /\ (pr[q].base = "behind" => pr'[q].base = "behind")
    BY <1>1, <2>1
  <2> QED BY <2>1, <2>2, <2>3, <2>4
<1>7. ListKept'
  <2> SUFFICES ASSUME n \in 5 .. 7 \/ (n = 8 /\ DOMAIN todo' = {}), list' # NoList, NEW q \in PRs, pr'[q].open
      PROVE  /\ {Arm, Approved} \subseteq list'[q] => Arm \in pr'[q].labels
             /\ Arm \in pr'[q].labels => Arm \in list'[q]
             /\ Park \in list'[q] => Park \in pr'[q].labels
    BY <1>3 DEF ListKept
  <2>1. list' = list /\ rule \in 5 .. 7
    <3>1. list' = list
      BY <1>2
    <3>2. rule # 4 \/ n = 4
      BY <1>4
    <3> QED BY <1>4, <3>1, <3>2
  <2>2. pr[q].open
    BY <1>1, HandleKeeps DEF Keeps
  <2>3. /\ {Arm, Approved} \subseteq list[q] => Arm \in pr[q].labels
        /\ Arm \in pr[q].labels => Arm \in list[q]
        /\ Park \in list[q] => Park \in pr[q].labels
    BY <2>1, <2>2 DEF ListKept
  <2>4. CASE q # p
    BY <1>1, <2>1, <2>3, <2>4
  <2>5. CASE q = p
    <3>1. Park \in pr[p].labels => Park \in pr'[p].labels
      BY <2>1, <2>5, EarlyKeepsPark
    <3>2. Approved \in list[p] => Approved \in pr[p].labels
      BY <2>1, <2>2, <2>5, OrderlyReads DEF MutexInv, ApprovalsKnown
    <3>3. Approved \in pr[p].labels /\ Arm \in pr[p].labels => Arm \in pr'[p].labels
      BY <2>1, <2>5, EarlyKeepsArm
    <3>4. Arm \in pr'[p].labels => Arm \in pr[p].labels
      <4>1. CASE NoNewArm(p)
        BY <4>1 DEF NoNewArm
      <4>2. CASE ZombieDue(p)
        BY <4>2, ZombieDrops
      <4>3. ASSUME NEW ci, NEW d, Decided(p, d, ci) PROVE FALSE
        <5>1. rule \in 8 .. 12
          BY <4>3, DecidedVisits
        <5> QED BY <2>1, <5>1
      <4> QED BY <4>1, <4>2, <4>3, HandleKeeps
    <3> QED BY <2>1, <2>3, <2>5, <3>1, <3>2, <3>3, <3>4
  <2> QED BY <2>4, <2>5
<1>8. Taken'
  <2> SUFFICES ASSUME n \in {9, 10} \/ (n = 8 /\ DOMAIN todo' # {}), NEW q \in PRs, Waits(q)',
                      n = 8 => q \notin DOMAIN todo'
      PROVE  Full'
    BY <1>3 DEF Taken
  <2>1. rule \in 8 .. 10
    BY <1>4
  <2> QED BY <1>3, <2>1, HandleTaken
<1>9. ActsHeld'
  <2>1. DOMAIN todo' = {} => acted' = 0
    BY HandleEnds
  <2>2. ASSUME rule' = 8, NEW q \in PRs, Waits(q)' PROVE acted' <= Cardinality(Holders(LiveLabels)')
    <3>1. CASE rule \in 8 .. 10
      BY <2>2, <3>1, HandleTaken
    <3>2. CASE rule \notin 8 .. 10
      <4>1. acted' = 0
        BY <2>2, <3>2, HandleEnds
      <4>2. Cardinality(Holders(LiveLabels)') \in Nat
        BY FiniteCounts DEF Holders
      <4> QED BY <4>1, <4>2
    <3> QED BY <3>1, <3>2
  <2> QED BY <2>1, <2>2 DEF ActsHeld
<1> QED BY <1>5, <1>6, <1>7, <1>8, <1>9

-----------------------------------------------------------------------------
(* A query keeps the order. *)

\* Full slots are checked against the live list before "arm" believes it.
LEMMA QueryHolders ==
    ASSUME TypeOK, Query, ~ On("failed probes")
    PROVE  \E h, k, m : /\ Result(h, k, m)
                        /\ Current = "arm" => Cardinality(h) < slots \/ h = Holders(LiveLabels)
<1>1. PICK live \in Reads :
        LET phantom == /\ Current = "arm" /\ live
                       /\ Cardinality(Holders(View)) >= slots
                       /\ Holders(View) # Holders(LiveLabels)
            holders == IF phantom THEN Holders(LiveLabels) ELSE Holders(View)
            matched == {q \in Open : Wanted(Current, View[q], q) /\ MutexLets(Current, holders, q)}
            kept == IF phantom THEN NoList ELSE View
        IN IF matched = {} THEN Leave(kept, moved)
           ELSE todo' = Tickets(View, matched) /\ list' = kept /\ UNCHANGED <<rule, moved, slots, acted>>
  BY DEF Query, View
<1> DEFINE phantom == /\ Current = "arm" /\ live
                      /\ Cardinality(Holders(View)) >= slots
                      /\ Holders(View) # Holders(LiveLabels)
           holders == IF phantom THEN Holders(LiveLabels) ELSE Holders(View)
           matched == {q \in Open : Wanted(Current, View[q], q) /\ MutexLets(Current, holders, q)}
           kept == IF phantom THEN NoList ELSE View
<1>2. IF matched = {} THEN Leave(kept, moved)
      ELSE todo' = Tickets(View, matched) /\ list' = kept /\ UNCHANGED <<rule, moved, slots, acted>>
  BY <1>1
<1>3. kept \in {NoList, View}
  OBVIOUS
<1>4. live = TRUE
  BY <1>1 DEF Reads
<1>5. Current = "arm" => Cardinality(holders) < slots \/ holders = Holders(LiveLabels)
  <2>1. Cardinality(Holders(View)) \in Nat /\ slots \in Nat
    BY FiniteCounts, SlotsNumber DEF Holders
  <2>2. Cardinality(Holders(View)) < slots \/ Cardinality(Holders(View)) >= slots
    BY <2>1, LessOrFull
  <2>3. CASE Cardinality(Holders(View)) >= slots
    BY <1>4, <2>3
  <2>4. CASE Cardinality(Holders(View)) < slots
    <3>1. ~ (Cardinality(Holders(View)) >= slots)
      BY <2>1, <2>4, LessOrFull
    <3>2. holders = Holders(View)
      BY <3>1
    <3> QED BY <2>4, <3>2
  <2> QED BY <2>2, <2>3, <2>4
<1>6. matched = {q \in Open : Wanted(Current, View[q], q) /\ MutexLets(Current, holders, q)}
  OBVIOUS
<1> HIDE DEF matched, kept, holders
<1>7. \/ matched = {} /\ Leave(kept, moved)
      \/ /\ matched # {} /\ todo' = Tickets(View, matched) /\ list' = kept /\ rule' = rule /\ moved' = moved
         /\ slots' = slots /\ acted' = acted
  BY <1>2
<1>8. Result(holders, kept, matched)
  BY <1>3, <1>6, <1>7 DEF Result
<1> QED BY <1>5, <1>8

\* What the queries ask of heads and labels.
LEMMA QueryAsks ==
    ASSUME TypeOK, Orderly, NEW q \in PRs, NEW l, Wanted(Current, l, q), rule # 0
    PROVE  /\ rule = 2 => pr[q].base = "behind"
           /\ rule \in {5, 13} => pr[q].head.ci \in {"green", "none"}
           /\ rule = 6 => pr[q].head.ci = "red"
           /\ rule \in 8 .. 10 => pr[q].base = "current"
           /\ rule = 8 => Park \notin l /\ Approved \in l /\ Arm \notin l
<1> rule \in 0 .. LastRule /\ pr[q] \in PrType
  BY DEF TypeOK
<1>1. /\ rule = 2 => pr[q].base = "behind"
      /\ rule \in {5, 13} => pr[q].head.ci \in {"green", "none"}
  BY QueryReads
<1>2. ASSUME rule = 6 PROVE pr[q].head.ci = "red"
  <2>1. Current = "fail"
    BY <1>2 DEF Current, Rules
  <2>2. Checks(pr[q].head) = "red"
    BY <2>1 DEF Wanted
  <2> QED BY <2>2 DEF Checks, PrType, HeadType
<1>3. ASSUME rule = 8 PROVE pr[q].base = "current" /\ Park \notin l /\ Approved \in l /\ Arm \notin l
  <2>1. Current = "arm"
    BY <1>3 DEF Current, Rules
  <2> QED BY <2>1 DEF Wanted
<1>4. ASSUME rule = 9 PROVE pr[q].base = "current"
  <2>1. Current = "rearm"
    BY <1>4 DEF Current, Rules
  <2> QED BY <2>1 DEF Wanted
<1>5. ASSUME rule = 10 PROVE pr[q].base = "current"
  <2>1. Current = "rearm green"
    BY <1>5 DEF Current, Rules
  <2> QED BY <2>1 DEF Wanted
<1>6. rule \in 8 .. 10 => rule = 8 \/ rule = 9 \/ rule = 10
  OBVIOUS
<1> QED BY <1>1, <1>2, <1>3, <1>4, <1>5, <1>6

\* "arm" asks for every waiting PR, unless the slots are taken.
LEMMA ArmAsks ==
    ASSUME TypeOK, MutexInv, Orderly, OrderInv, rule = 8, DOMAIN todo = {},
           NEW h, Cardinality(h) < slots \/ h = Holders(LiveLabels), NEW k, NEW m, Result(h, k, m),
           NEW q \in PRs, Waits(q), q \notin m
    PROVE  Full
<1> SUFFICES ASSUME ~ Full PROVE FALSE
  OBVIOUS
<1>1. Current = "arm" /\ Cardinality(h) < slots
  <2>1. Cardinality(Holders(LiveLabels)) \in Nat /\ slots \in Nat
    BY FiniteCounts, SlotsNumber DEF Holders
  <2>2. Cardinality(Holders(LiveLabels)) < slots
    BY <2>1 DEF Full
  <2> QED BY <2>2 DEF Current, Rules
<1>2. MutexLets(Current, h, q)
  BY <1>1 DEF MutexLets
<1>3. /\ q \in Open /\ Approved \in pr[q].labels /\ Park \notin pr[q].labels /\ pr[q].base = "current"
      /\ pr[q].open /\ Arm \notin pr[q].labels
  BY DEF Waits, Ready, Open
<1>4. ~ Wanted(Current, View[q], q)
  BY <1>2, <1>3 DEF Result
<1>5. Approved \notin View[q] \/ Arm \in View[q] \/ Park \in View[q]
  BY <1>1, <1>3, <1>4 DEF Wanted
<1>7. CASE list = NoList
  BY <1>3, <1>5, <1>7 DEF View, LiveLabels
<1>8. CASE list # NoList
  <2>1. Approved \in list[q]
    BY <1>3, <1>8, OrderlyReads DEF MutexInv, ApprovalsKnown
  <2>2. ({Arm, Approved} \subseteq list[q] => Arm \in pr[q].labels) /\ (Park \in list[q] => Park \in pr[q].labels)
    BY <1>3, <1>8 DEF OrderInv, ListKept
  <2> QED BY <1>3, <1>5, <1>8, <2>1, <2>2 DEF View
<1> QED BY <1>7, <1>8

\* A query.
LEMMA QueryOrder ==
    ASSUME TypeOK, MutexInv, OrderInv, Query
    PROVE  OrderInv'
<1>1. env' = env /\ pr' = pr
  BY QueryGives
<1> SUFFICES ASSUME Orderly PROVE ((\A q \in PRs : TidyHead(pr[q])) /\ VisitsOrder /\ ListKept /\ Taken /\ ActsHeld)'
  BY <1>1 DEF OrderInv, Orderly, Undisturbed
<1> (\A q \in PRs : TidyHead(pr[q])) /\ VisitsOrder /\ ListKept /\ Taken /\ ActsHeld
  BY DEF OrderInv
<1> rule \in 0 .. LastRule /\ rule # 0 /\ DOMAIN todo = {}
  BY DEF TypeOK, Query
<1>2. PICK h, k, m : Result(h, k, m) /\ (Current = "arm" => Cardinality(h) < slots \/ h = Holders(LiveLabels))
  BY OrderlyReads, QueryHolders
<1>3. m \subseteq PRs /\ k \in {NoList, View} /\ \A q \in m : Wanted(Current, View[q], q)
  BY <1>2 DEF Result, Open
<1>4. PICK n \in 0 .. 13 : n = rule'
  BY QueryTyped, RuleCount DEF TypeOK
<1>5. \/ /\ m = {} /\ DOMAIN todo' = {} /\ acted' = 0
         /\ n = 0 \/ (n = rule + 1 /\ moved' = moved /\ slots' = slots)
         /\ list' \in {NoList, View} /\ (rule = 4 => list' = NoList)
      \/ /\ m # {} /\ DOMAIN todo' = m /\ (\A q \in m : todo'[q] = View[q]) /\ n = rule /\ moved' = moved
         /\ list' \in {NoList, View} /\ slots' = slots /\ acted' = acted
  <2>1. CASE m = {} /\ Leave(k, moved)
    <3>1. rule = 4 => Current = "reset"
      BY DEF Current, Rules
    <3> QED BY <1>3, <1>4, <2>1, <3>1, NoTicketsEmpty DEF Leave, TickEnds
  <2>2. CASE m # {} /\ ~ (m = {} /\ Leave(k, moved))
    BY <1>2, <1>3, <1>4, <2>2, TicketsAre DEF Result
  <2> QED BY <1>2, <2>1, <2>2 DEF Result
<1>6. \A q \in PRs : TidyHead(pr'[q])
  BY <1>1
<1>7. VisitsOrder'
  <2> SUFFICES ASSUME NEW q \in DOMAIN todo'
      PROVE  /\ n = 2 => pr[q].base = "behind"
             /\ n \in {5, 13} => pr[q].head.ci \in {"green", "none"}
             /\ n = 6 => pr[q].head.ci = "red"
             /\ n \in 8 .. 10 => pr[q].base = "current"
             /\ n = 8 => Park \notin todo'[q] /\ Approved \in todo'[q] /\ Arm \notin pr[q].labels
    BY <1>1, <1>4 DEF VisitsOrder
  <2>1. q \in m /\ n = rule /\ todo'[q] = View[q]
    BY <1>5
  <2>2. q \in PRs /\ Wanted(Current, View[q], q)
    BY <1>3, <2>1
  <2>3. /\ rule = 2 => pr[q].base = "behind"
        /\ rule \in {5, 13} => pr[q].head.ci \in {"green", "none"}
        /\ rule = 6 => pr[q].head.ci = "red"
        /\ rule \in 8 .. 10 => pr[q].base = "current"
        /\ rule = 8 => Park \notin View[q] /\ Approved \in View[q] /\ Arm \notin View[q]
    BY <2>2, QueryAsks
  <2>4. pr[q].open
    BY <1>2, <2>1 DEF Result, Open
  <2>5. rule = 8 /\ Arm \in pr[q].labels => Arm \in View[q]
    BY <2>2, <2>4 DEF View, LiveLabels, ListKept
  <2> QED BY <2>1, <2>3, <2>5
<1>8. ListKept'
  <2> SUFFICES ASSUME n \in 5 .. 7 \/ (n = 8 /\ DOMAIN todo' = {}), list' # NoList, NEW q \in PRs, pr[q].open
      PROVE  /\ {Arm, Approved} \subseteq list'[q] => Arm \in pr[q].labels
             /\ Arm \in pr[q].labels => Arm \in list'[q]
             /\ Park \in list'[q] => Park \in pr[q].labels
    BY <1>1, <1>4 DEF ListKept
  <2>1. rule \in 5 .. 7 /\ list' = View
    BY <1>5
  <2> QED BY <2>1 DEF View, LiveLabels, ListKept
<1>9. \A q \in PRs : Waits(q)' => (n \in 0 .. 10 \ {0} => Waits(q))
  BY <1>1, <1>5 DEF Waits
<1>10. (Holders(LiveLabels))' = Holders(LiveLabels)
  BY <1>1 DEF Holders, LiveLabels
<1>11. Taken'
  <2> SUFFICES ASSUME n \in {9, 10} \/ (n = 8 /\ DOMAIN todo' # {}), NEW q \in PRs, Waits(q)',
                      n = 8 => q \notin DOMAIN todo'
      PROVE  Full'
    BY <1>4 DEF Taken
  <2>1. Waits(q) /\ rule \in 8 .. 10 /\ slots' = slots
    BY <1>5, <1>9
  <2>2. CASE rule \in {9, 10}
    BY <1>10, <2>1, <2>2 DEF Taken, Full
  <2>3. CASE rule = 8
    <3>1. q \notin m
      BY <1>5, <2>3
    <3>2. Current = "arm"
      BY <2>3 DEF Current, Rules
    <3>3. Full
      BY <1>2, <2>1, <2>3, <3>1, <3>2, ArmAsks
    <3> QED BY <1>10, <2>1, <3>3 DEF Full
  <2> QED BY <2>1, <2>2, <2>3
<1>12. ActsHeld'
  <2>1. acted' = 0
    BY <1>5 DEF ActsHeld
  <2>2. Cardinality(Holders(LiveLabels)') \in Nat
    BY FiniteCounts DEF Holders
  <2> QED BY <2>1, <2>2 DEF ActsHeld
<1> QED BY <1>6, <1>7, <1>8, <1>11, <1>12

-----------------------------------------------------------------------------
(* CI, people and time keep the order. *)

\* What they may do to a PR: s becomes t.
Drifts(s, t) ==
    /\ TidyHead(t)
    /\ t.base = s.base
    /\ s.head.ci \in {"green", "none"} => t.head.ci \in {"green", "none"}
    /\ s.head.ci = "red" => t.head.ci = "red"
    /\ Ready(t) => Ready(s)

LEMMA OutsideDrifts ==
    ASSUME TypeOK, Orderly, \A q \in PRs : TidyHead(pr[q]), Environment \/ StartTick \/ UNCHANGED vars,
           NEW q \in PRs
    PROVE  Drifts(pr[q], pr'[q])
<1> pr \in [PRs -> PrType] /\ pr[q] \in PrType /\ TidyHead(pr[q])
  BY DEF TypeOK
<1>1. \A s : TidyHead(s) => Drifts(s, s)
  BY DEF Drifts
<1>2. CASE Elapse
  <2>1. pr'[q] = Aged(pr[q]) \/ pr'[q] = pr[q]
    BY <1>2 DEF Elapse
  <2> DEFINE t == Aged(pr[q])
  <2>2. /\ t.head.ci = pr[q].head.ci /\ t.head.reds = pr[q].head.reds /\ t.head.ghost = pr[q].head.ghost
        /\ t.since = pr[q].since /\ t.labels = pr[q].labels /\ t.base = pr[q].base /\ t.open = pr[q].open
    BY DEF Aged, PrType, HeadType
  <2> HIDE DEF t
  <2>3. TidyHead(t)
    BY <2>2 DEF TidyHead
  <2>4. Ready(t) => Ready(pr[q])
    BY <2>2 DEF Ready
  <2>5. Drifts(pr[q], t)
    BY <2>2, <2>3, <2>4 DEF Drifts
  <2> QED BY <1>1, <2>1, <2>5 DEF t
<1>3. CASE CacheExpires \/ TickDies \/ StartTick \/ UNCHANGED vars
  BY <1>1, <1>3 DEF CacheExpires, TickDies, StartTick, vars
<1>4. ASSUME NEW p \in PRs, RunEnds(p) PROVE Drifts(pr[q], pr'[q])
  <2> pr[p] \in PrType /\ pr[p].head \in HeadType /\ TidyHead(pr[p])
    BY DEF TypeOK, PrType
  <2>1. PICK c \in {"green", "red"} :
          \E n : pr' = [pr EXCEPT ![p].head = [pr[p].head EXCEPT !.ci = c, !.old = FALSE, !.streak = n]]
    BY <1>4, OrderlyReads DEF RunEnds
  <2>2. PICK n : pr' = [pr EXCEPT ![p].head = [pr[p].head EXCEPT !.ci = c, !.old = FALSE, !.streak = n]]
    BY <2>1
  <2> DEFINE t == [pr[p] EXCEPT !.head = [pr[p].head EXCEPT !.ci = c, !.old = FALSE, !.streak = n]]
  <2>3. pr' = [pr EXCEPT ![p] = t]
    BY <2>2
  <2>4. /\ t.head.ci = c /\ t.head.reds = pr[p].head.reds /\ t.head.ghost = pr[p].head.ghost
        /\ t.since = pr[p].since /\ t.labels = pr[p].labels /\ t.base = pr[p].base /\ t.open = pr[p].open
    BY DEF PrType, HeadType
  <2> HIDE DEF t
  <2>5. pr[p].head.ci = "active"
    BY <1>4 DEF RunEnds
  <2>6. TidyHead(t)
    BY <2>1, <2>4, <2>5 DEF TidyHead
  <2>7. Ready(t) => Ready(pr[p])
    BY <2>4, <2>5 DEF Ready
  <2>8. Drifts(pr[p], t)
    BY <2>4, <2>5, <2>6, <2>7 DEF Drifts
  <2> QED BY <1>1, <2>3, <2>8
<1>5. ASSUME NEW p \in PRs, Push(p) \/ BaseMoves(p) \/ Approve(p) PROVE FALSE
  BY <1>5, OrderlyReads DEF Push, BaseMoves, Approve
<1>6. ASSUME NEW p \in PRs, Ghost(p) PROVE Drifts(pr[q], pr'[q])
  <2> pr[p] \in PrType /\ TidyHead(pr[p])
    BY DEF TypeOK
  <2>1. PICK g : pr' = [pr EXCEPT ![p].head.ghost = g] /\ pr[p].head.ghost = "none"
    BY <1>6 DEF Ghost
  <2> DEFINE t == [pr[p] EXCEPT !.head = [pr[p].head EXCEPT !.ghost = g]]
  <2>2. /\ t.head.ci = pr[p].head.ci /\ t.head.reds = pr[p].head.reds
        /\ t.since = pr[p].since /\ t.labels = pr[p].labels /\ t.base = pr[p].base /\ t.open = pr[p].open
    BY DEF PrType, HeadType
  <2>3. pr' = [pr EXCEPT ![p] = t]
    BY <2>1
  <2> HIDE DEF t
  <2>4. TidyHead(t)
    BY <2>2 DEF TidyHead
  <2>5. Ready(t) => Ready(pr[p])
    BY <2>1, <2>2 DEF Ready
  <2>6. Drifts(pr[p], t)
    BY <2>2, <2>4, <2>5 DEF Drifts
  <2> QED BY <1>1, <2>3, <2>6
<1> QED BY <1>2, <1>3, <1>4, <1>5, <1>6 DEF Environment

\* They keep the invariant.
LEMMA OutsideOrder ==
    ASSUME TypeOK, OrderInv, Environment \/ StartTick \/ UNCHANGED vars
    PROVE  OrderInv'
<1>1. env' = env
  BY OutsideWalks
<1> SUFFICES ASSUME Orderly PROVE ((\A q \in PRs : TidyHead(pr[q])) /\ VisitsOrder /\ ListKept /\ Taken /\ ActsHeld)'
  BY <1>1 DEF OrderInv, Orderly, Undisturbed
<1> (\A q \in PRs : TidyHead(pr[q])) /\ VisitsOrder /\ ListKept /\ Taken /\ ActsHeld
  BY DEF OrderInv
<1> DOMAIN todo \subseteq PRs /\ rule \in 0 .. LastRule
  BY DEF TypeOK
<1>2. \A q \in PRs : Drifts(pr[q], pr'[q])
  BY OutsideDrifts
<1>3. /\ list' \in {list, NoList} \/ (list' = LiveLabels /\ pr' = pr)
      /\ \/ todo' = todo /\ (rule' = rule \/ (rule = 0 /\ rule' = 1))
         \/ DOMAIN todo' = {} /\ list' = NoList /\ rule' = 0
  BY OutsideWalks
<1>4. \A q \in PRs : pr'[q].open = pr[q].open /\ pr'[q].labels = pr[q].labels
  BY OutsideLabels, OrderlyReads DEF QuietLabels
<1>5. \A q \in PRs : TidyHead(pr'[q])
  BY <1>2 DEF Drifts
<1>a. acted' = 0 \/ (acted' = acted /\ todo' = todo)
  <2>1. CASE TickDies
    BY <2>1 DEF TickDies
  <2>2. CASE StartTick \/ Elapse \/ CacheExpires \/ UNCHANGED vars
    BY <2>2 DEF StartTick, Elapse, CacheExpires, Outside, vars
  <2>3. ASSUME NEW p \in PRs, RunEnds(p) \/ Push(p) \/ BaseMoves(p) \/ Approve(p) \/ Ghost(p)
        PROVE  acted' = acted /\ todo' = todo
    BY <2>3 DEF RunEnds, Push, BaseMoves, Approve, Ghost, Outside
  <2> QED BY <2>1, <2>2, <2>3 DEF Environment
<1>6. CASE rule' = 0 \/ rule' = 1
  <2>1. ActsHeld'
    BY <1>a, <1>6 DEF ActsHeld
  <2> QED BY <1>5, <1>6, <2>1 DEF VisitsOrder, ListKept, Taken
<1>7. CASE todo' = todo /\ rule' = rule /\ rule # 0
  <2>1. moved' = moved /\ slots' = slots /\ acted' = acted
    <3>1. CASE Elapse \/ CacheExpires \/ UNCHANGED vars
      BY <3>1 DEF Elapse, CacheExpires, Outside, vars
    <3>2. ASSUME NEW p \in PRs, RunEnds(p) \/ Push(p) \/ BaseMoves(p) \/ Approve(p) \/ Ghost(p)
          PROVE  moved' = moved /\ slots' = slots /\ acted' = acted
      BY <3>2 DEF RunEnds, Push, BaseMoves, Approve, Ghost, Outside
    <3> QED BY <1>7, <3>1, <3>2 DEF Environment, StartTick, TickDies, TickEnds
  <2>2. (Holders(LiveLabels))' = Holders(LiveLabels)
    <3>1. ASSUME NEW q PROVE (q \in Holders(LiveLabels))' <=> q \in Holders(LiveLabels)
      BY <1>4, HoldersAre
    <3> QED BY <3>1
  <2>3. Full' <=> Full
    BY <2>1, <2>2 DEF Full
  <2>4. \A q \in PRs : Waits(q)' => Waits(q)
    BY <1>2, <1>4, <2>1 DEF Waits, Drifts
  <2>5. VisitsOrder'
    <3>1. \A q \in DOMAIN todo : Drifts(pr[q], pr'[q]) /\ pr'[q].labels = pr[q].labels
      BY <1>2, <1>4
    <3> QED BY <1>7, <2>4, <3>1 DEF VisitsOrder, Drifts
  <2>6. ListKept'
    BY <1>3, <1>4, <1>7 DEF ListKept, LiveLabels
  <2>7. Taken'
    BY <1>7, <2>3, <2>4 DEF Taken
  <2>8. ActsHeld'
    BY <1>7, <2>1, <2>2, <2>4 DEF ActsHeld
  <2> QED BY <1>5, <2>5, <2>6, <2>7, <2>8
<1> QED BY <1>3, <1>6, <1>7

\* No head has a run at the start.
LEMMA InitOrder == Init => OrderInv
<1> SUFFICES ASSUME Init PROVE (\A q \in PRs : TidyHead(pr[q])) /\ VisitsOrder /\ ListKept /\ Taken /\ ActsHeld
  BY DEF OrderInv
<1>1. \A q \in PRs : pr[q].head = NewHead /\ pr[q].since = "same"
  BY OpenedPRs DEF Init
<1>2. DOMAIN todo = {} /\ list = NoList /\ rule = 0 /\ acted = 0
  BY NoTicketsEmpty DEF Init
<1>3. \A q \in PRs : TidyHead(pr[q])
  BY <1>1, NewTidy
<1> QED BY <1>2, <1>3 DEF VisitsOrder, ListKept, Taken, ActsHeld

\* One step.
LEMMA NextOrder == TypeOK /\ MutexInv /\ OrderInv /\ [Next]_vars => OrderInv'
BY HandleOrder, QueryOrder, OutsideOrder DEF Next, Tick

-----------------------------------------------------------------------------
(* The order. *)

\* Nobody is both older and younger.
LEMMA NotOlder == \A a, b \in Nat : a < b => ~ (b <= a)
OBVIOUS

\* No step arms a younger PR while an older one waits.
LEMMA StepOrder ==
    ASSUME TypeOK, MutexInv, OrderInv, [Next]_vars, Orderly, NEW p \in PRs, NEW q \in PRs, q < p,
           Ready(pr[q]), Arm \notin pr[q].labels, q \notin moved, Approved \in pr[p].labels, Arm \notin pr[p].labels
    PROVE  Arm \notin pr'[p].labels
<1> pr \in [PRs -> PrType] /\ rule \in 0 .. LastRule
  BY DEF TypeOK
<1> Calm /\ ApprovalsKnown /\ FreshUnapproved /\ ArmsRead /\ SweptArmed /\ Taken
  BY OrderlyReads DEF MutexInv, OrderInv
<1>1. CASE Query
  BY <1>1, QueryGives
<1>2. CASE Environment \/ StartTick \/ UNCHANGED vars
  BY <1>2, OutsideLabels, OrderlyReads DEF QuietLabels
<1>3. ASSUME NEW x \in PRs, Handle(x), x # p PROVE Arm \notin pr'[p].labels
  BY <1>3, OthersStay
<1>4. CASE Handle(p)
  <2> SUFFICES ASSUME Arm \in pr'[p].labels PROVE FALSE
    OBVIOUS
  <2>1. rule # 0 /\ p \in DOMAIN todo /\ (ZombieDue(p) => rule = 7)
    BY <1>4, HandleVisits
  <2>2. Approved \in todo[p]
    BY <2>1 DEF ApprovalsKnown
  <2>3. ~ ZombieDue(p)
    BY <2>1, <2>2 DEF SweptArmed, ArmsRead
  <2>4. PICK d \in {"dispatch", "reset and dispatch"} : \E ci : Decided(p, d, ci)
    BY <1>4, <2>3, HandleKeeps DEF NoNewArm
  <2>5. \/ Current \in {"fresh", "fresh green"}
        \/ Cardinality(Holders(LiveLabels) \ {p}) < slots
        \/ p \in Holders(LiveLabels)
    BY <2>4, DecidedFree
  <2>6. Current \notin {"fresh", "fresh green"}
    BY <2>1, <2>2 DEF FreshUnapproved
  <2>7. ~ Full
    <3>1. p \notin Holders(LiveLabels)
      BY HoldersAre
    <3>2. Holders(LiveLabels) \ {p} = Holders(LiveLabels)
      BY <3>1
    <3>3. Cardinality(Holders(LiveLabels)) \in Nat /\ slots \in Nat
      BY FiniteCounts, SlotsNumber DEF Holders
    <3>4. Cardinality(Holders(LiveLabels)) < slots
      BY <2>5, <2>6, <3>1, <3>2
    <3> QED BY <3>3, <3>4, LessOrFull DEF Full
  <2>8. PICK r \in Validating : Visiting(r, p)
    BY <2>4 DEF Decided
  <2>9. Current \in MergePath
    BY <2>6, <2>8 DEF Visiting, Validating
  <2>10. rule = 8 \/ rule = 9 \/ rule = 10
    <3>1. Current = "arm" \/ Current = "rearm" \/ Current = "rearm green"
      BY <2>9 DEF MergePath
    <3> QED BY <2>1, <3>1, RuleNumber
  <2>11. Waits(q)
    BY DEF Waits
  <2>12. CASE rule = 8 /\ q \in DOMAIN todo
    <3>1. p <= q
      BY <2>8, <2>12 DEF Visiting
    <3>2. p \in Nat /\ q \in Nat
      BY BoundsAssumption
    <3> QED BY <3>1, <3>2, NotOlder
  <2> QED BY <2>1, <2>7, <2>10, <2>11, <2>12 DEF Taken
<1> QED BY <1>1, <1>2, <1>3, <1>4 DEF Next, Tick

\* The FIFO rule of validate-armed, for any number of PRs and any caps: while an
\* older approved PR could be validated or merged, no younger one is armed.
THEOREM OrderHolds == Spec => OldestFirst
<1>1. TypeOK /\ MutexInv /\ OrderInv /\ [Next]_vars
        => [Undisturbed({"shut gate", "lost runs", "base moves", "pushes",
                         "approvals", "failed probes", "hidden checks"}) =>
              \A p, q \in PRs :
                /\ q < p /\ Ready(pr[q]) /\ Arm \notin pr[q].labels /\ q \notin moved
                /\ Approved \in pr[p].labels /\ Arm \notin pr[p].labels
                => Arm \notin pr'[p].labels]_vars
  BY StepOrder DEF Orderly
<1> QED BY <1>1, InitOrder, NextOrder, InitMutex, NextMutex, TypeCorrect, PTL DEF Spec, OldestFirst

=============================================================================
