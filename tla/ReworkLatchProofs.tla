-------------------------- MODULE ReworkLatchProofs --------------------------
(* More proofs about ReworkArm: what the latch adds to the lap guard while   *)
(* nothing disturbs the loop.  A request and the leg it leads to never       *)
(* overlap, because the latch holds from the arm to the end of the leg; so   *)
(* no rule arms over a running leg, and the lap budget is exact.             *)
EXTENDS ReworkArmProofs

\* A request stands or a leg is out; the latter may still be without a run.
Owing == "pr" \in arms \/ flight # None
Waiting == "pr" \in arms \/ (flight # None /\ flight.st = "requested")

\* An entry that no concluded leg has resolved.
Sound(e) == e # NoEntry /\ ~e.over

\* The latch of what is owed is sound wherever the loop may look for it, and
\* young until the leg has a run that answers for it.
LatchRest ==
    /\ ~("pr" \in arms /\ flight # None)
    /\ pc # "idle" => waited = FALSE
    /\ Owing => Sound(saved) /\ (pc # "idle" => Sound(live))
    /\ Waiting /\ pc # "idle" => live.age <= 1 /\ saved.age <= 1
    /\ "pr" \in arms => /\ ~blocked /\ pc # "restore"
                        /\ pc = "idle" => saved.age <= IF waited THEN 1 ELSE 0
                        /\ pc \in {"threads", "end"} => live.age <= 0 /\ saved.age <= 0
    /\ laps + Owed <= NoopMax

LatchInv == LapInv /\ (env = {} => LatchRest)

-----------------------------------------------------------------------------
\* Without a disturbance every call answers, and LapRest applies.
LEMMA Undisturbed ==
    ASSUME env = {}
    PROVE  /\ Calm /\ ~Delays /\ ~BaseMoves /\ ~Reviews /\ ~People
           /\ Rollups = {TRUE} /\ Posts = {TRUE} /\ Reads = {TRUE} /\ Listings = {TRUE}
           /\ ~LostSnapshots
  BY DEF Calm, Delays, BaseMoves, Reviews, People, LostComments, FailedProbes,
         LostSnapshots, ShortListing, Rollups, Posts, Reads, Listings

\* A sound entry holds: by its leg once that runs, by its age before.
LEMMA SoundHolds ==
    ASSUME LatchInv, env = {}, NEW e \in EntryType, Sound(e),
           flight = None \/ Waiting => e.age <= 1
    PROVE  Cause(e, TRUE) = "in-flight"
  <1>1. e # NoEntry /\ ~e.over BY DEF Sound
  <1>2. CASE Flying BY <1>1, <1>2 DEF Cause
  <1>3. CASE ~Flying
    <2>1. flight = None \/ Waiting
      BY <1>3, Undisturbed DEF Flying, Waiting, LatchInv, LapInv, LapRest, TypeOK, LegType
    <2>2. ~(e.age > Stale) BY <2>1, BoundsAssumption DEF EntryType
    <2>3. QED BY <1>1, <1>3, <2>2 DEF Cause
  <1>4. QED BY <1>2, <1>3

\* What is published of an entry that holds is that entry.
LEMMA PublishHolds ==
    ASSUME env = {}, NEW e, e # NoEntry, Cause(e, TRUE) = "in-flight"
    PROVE  /\ Publish(e) => live' = e /\ saved' = e
           /\ PassBy /\ e = live => live' = e /\ saved' \in {e, saved}
  <1>1. Pruned(Carried(e, saved), TRUE) = e BY DEF Pruned, Carried
  <1>2. ASSUME NEW s \in Snapshots(e) PROVE s = e
    <2>1. Reads = {TRUE} /\ Listings = {TRUE} /\ ~LostSnapshots BY Undisturbed
    <2>2. s = Pruned(Carried(e, saved), TRUE) BY <2>1, <1>2 DEF Snapshots
    <2>3. QED BY <1>1, <2>2
  <1>3. QED BY <1>2 DEF Publish, PassBy

\* A step of the tick that neither places nor takes a request: it may only
\* publish what is owed.
Untouched ==
    /\ UNCHANGED <<arms, flight, laps, blocked, waited>>
    /\ Owing => live' = live /\ saved' \in {live, saved}

\* A step that places one does so in an idle loop with a lap left, and latches it.
Placed ==
    /\ ~Owing /\ ~LapsExhausted /\ ~blocked /\ arms' = arms \cup {"pr"}
    /\ live' = Armed /\ saved' = Armed
    /\ UNCHANGED <<flight, laps, blocked, waited>>

\* In the middle of a tick the latch of what is owed holds.
LEMMA LatchHolds ==
    ASSUME LatchInv, env = {}, Owing, pc # "idle"
    PROVE  live # NoEntry /\ Latched(TRUE)
  <1>1. Sound(live) /\ (Waiting => live.age <= 1) BY DEF LatchInv, LatchRest
  <1>2. flight = None => Waiting BY DEF Owing, Waiting
  <1>3. live \in EntryType BY DEF LatchInv, LapInv, TypeOK
  <1>4. Cause(live, TRUE) = "in-flight" BY <1>1, <1>2, <1>3, SoundHolds
  <1>5. QED BY <1>1, <1>4 DEF Latched, Sound

\* Publishing the tick's own entry.
LEMMA PublishUntouched ==
    ASSUME LatchInv, env = {}, pc # "idle", Publish(live) \/ PassBy
    PROVE  Owing => live' = live /\ saved' \in {live, saved}
  <1> SUFFICES ASSUME Owing PROVE live' = live /\ saved' \in {live, saved} OBVIOUS
  <1>1. live # NoEntry /\ Cause(live, TRUE) = "in-flight" BY LatchHolds DEF Latched
  <1>2. QED BY <1>1, PublishHolds

\* A fresh entry over an idle branch holds.
LEMMA PublishArmed ==
    ASSUME LatchInv, env = {}, ~Owing, Publish(Armed)
    PROVE  live' = Armed /\ saved' = Armed
  <1>1. Armed # NoEntry /\ Armed.age = 0 /\ ~Armed.over BY DEF Armed, NoEntry
  <1>2. ~Flying BY DEF Owing, Flying
  <1>3. Cause(Armed, TRUE) = "in-flight"
    BY <1>1, <1>2, BoundsAssumption DEF Cause
  <1>4. QED BY <1>1, <1>3, PublishHolds

\* arm_rework consults the latch first, then the lap guard.
LEMMA ArmSteps ==
    ASSUME LatchInv, env = {}, NEW gated \in BOOLEAN, ArmRework(gated, TRUE), pc # "idle"
    PROVE  Untouched \/ Placed
  <1>0. UNCHANGED <<blocked, flight, waited>> /\ ~blocked /\ "pr" \notin arms
    BY DEF ArmRework, pr
  <1>1. PICK e :
          \/ Latched(TRUE) /\ Withhold(live)
          \/ ~Latched(TRUE) /\ (Withhold(e) \/ WithholdRed(e) \/ WithholdLaps(e))
          \/ ~Latched(TRUE) /\ Arm(gated, TRUE, e) /\ ~LapsExhausted
    BY Undisturbed DEF ArmRework
  <1>2. CASE Latched(TRUE) /\ Withhold(live)
    <2>1. UNCHANGED <<arms, laps>> /\ Publish(live) BY <1>2 DEF Withhold
    <2>2. QED BY <1>0, <2>1, PublishUntouched DEF Untouched
  <1>3. CASE ~Latched(TRUE) /\ (Withhold(e) \/ WithholdRed(e) \/ WithholdLaps(e))
    <2>1. ~Owing BY <1>3, LatchHolds
    <2>2. UNCHANGED <<arms, laps>> BY <1>3 DEF Withhold, WithholdRed, WithholdLaps
    <2>3. QED BY <1>0, <2>1, <2>2 DEF Untouched
  <1>4. CASE ~Latched(TRUE) /\ Arm(gated, TRUE, e) /\ ~LapsExhausted
    <2>1. ~Owing BY <1>4, LatchHolds
    <2>2. arms' = arms \cup {"pr"} /\ laps' = laps BY <1>4 DEF Arm, Place
    <2>3. PICK posted \in IF gated /\ unmarked = LostMax THEN {TRUE} ELSE Posts :
            Publish(IF TRUE /\ posted THEN Armed ELSE e)
      BY <1>4 DEF Arm
    <2>4. posted = TRUE BY Undisturbed
    <2>5. Publish(Armed) BY <2>3, <2>4
    <2>6. QED BY <1>0, <1>4, <2>1, <2>2, <2>5, PublishArmed DEF Placed
  <1>5. QED BY <1>1, <1>2, <1>3, <1>4

\* So does the restore sweep.
LEMMA RestoreSteps ==
    ASSUME LatchInv, env = {}, Restore
    PROVE  Untouched \/ Placed
  <1>0. UNCHANGED <<blocked, flight, waited, laps>> /\ ~blocked /\ "pr" \notin arms /\ pc # "idle"
    BY DEF Restore, pr, Goto
  <1>1. \/ Publish(Consulted(TRUE)) /\ UNCHANGED arms
        \/ ~Latched(TRUE) /\ ~LapsExhausted /\ Place("pr") /\ Publish(Armed)
    <2>1. PICK known \in Rollups, runs \in Rollups, again \in Rollups, seen \in Rollups :
            LET e == IF known THEN Consulted(runs) ELSE live
                owned == (known /\ Latched(runs)) \/ (known /\ again /\ Flying)
            IN IF ~owned /\ MayArm(known \/ seen) /\ QuietLongEnough
               THEN RestoreOrWithhold(known, e)
               ELSE Publish(e) /\ UNCHANGED <<arms, mark, escalated>>
      BY DEF Restore
    <2>2. known = TRUE /\ runs = TRUE BY Undisturbed
    <2>3. \/ ~Latched(TRUE) /\ RestoreOrWithhold(TRUE, Consulted(TRUE))
          \/ Publish(Consulted(TRUE)) /\ UNCHANGED arms
      BY <2>1, <2>2
    <2>4. QED BY <2>3 DEF RestoreOrWithhold
  <1>2. CASE Publish(Consulted(TRUE)) /\ UNCHANGED arms
    <2>1. Owing => Publish(live) BY <1>0, <1>2, LatchHolds DEF Consulted
    <2>2. QED BY <1>0, <1>2, <2>1, PublishUntouched DEF Untouched
  <1>3. CASE ~Latched(TRUE) /\ ~LapsExhausted /\ Place("pr") /\ Publish(Armed)
    <2>1. ~Owing BY <1>0, <1>3, LatchHolds
    <2>2. QED BY <1>0, <1>3, <2>1, PublishArmed DEF Placed, Place
  <1>4. QED BY <1>1, <1>2, <1>3

\* A rule that passes the PR by.
LEMMA SkipSteps ==
    ASSUME LatchInv, env = {}, SkipRule, pc # "idle"
    PROVE  Untouched
  <1>1. UNCHANGED <<arms, flight, laps, blocked, waited>> /\ PassBy BY DEF SkipRule, pr, head
  <1>2. QED BY <1>1, PublishUntouched DEF Untouched

-----------------------------------------------------------------------------
\* The invariant

\* Nothing owed: the budget is all there is to show.
LEMMA NothingOwed ==
    ASSUME "pr" \notin arms', flight' = None, laps' \in 0 .. NoopMax,
           pc' # "idle" => waited' = FALSE
    PROVE  LatchRest'
  <1>1. Owed' = 0 /\ ~Owing' /\ ~Waiting' BY DEF Owed, Owing, Waiting
  <1>2. PICK l \in 0 .. NoopMax : l = laps' OBVIOUS
  <1>3. laps' + Owed' <= NoopMax
    <2>1. l + 0 <= NoopMax BY BoundsAssumption
    <2>2. QED BY <1>1, <1>2, <2>1
  <1>4. QED BY <1>1, <1>3 DEF LatchRest, Owing, Waiting

\* The budget as arithmetic.
LEMMA ExactBudget ==
    ASSUME LatchInv, env = {}
    PROVE  /\ laps \in Nat /\ Owed \in 0 .. 2 /\ NoopMax \in Nat \ {0} /\ laps + Owed <= NoopMax
           /\ laps <= NoopMax
           /\ flight # None => laps + 1 <= NoopMax /\ "pr" \notin arms
  <1>1. laps \in Nat /\ Owed \in 0 .. 2 /\ NoopMax \in Nat \ {0} /\ laps + Owed <= NoopMax
    BY BoundsAssumption DEF LatchInv, LapInv, TypeOK, LatchRest, Owed
  <1>2. flight # None => Owed >= 1 BY DEF Owed
  <1>3. flight # None => "pr" \notin arms BY DEF LatchInv, LatchRest
  <1>4. QED BY <1>1, <1>2, <1>3

\* A rule that left the request alone.  The rules in front of the restore sweep
\* do not leave one standing for it.
LEMMA UntouchedKeeps ==
    ASSUME LatchInv, env = {}, Untouched, pc # "idle", pc' # "idle",
           "pr" \in arms => /\ pc' # "restore"
                            /\ pc' \in {"threads", "end"} => pc \in {"threads", "end"}
    PROVE  LatchRest'
  <1>1. Owed' = Owed /\ (Owing' <=> Owing) /\ (Waiting' <=> Waiting)
    BY DEF Untouched, Owed, Owing, Waiting
  <1>2. Waiting => Owing BY DEF Owing, Waiting
  <1>3. CASE ~Owing
    BY <1>1, <1>2, <1>3, NothingOwed, ExactBudget DEF Untouched, Owing, LatchInv, LatchRest
  <1>4. CASE Owing
    <2>1. live' = live /\ saved' \in {live, saved} BY <1>4 DEF Untouched
    <2>2. Sound(saved') /\ Sound(live') BY <1>4, <2>1 DEF LatchInv, LatchRest
    <2>3. Waiting => live'.age <= 1 /\ saved'.age <= 1 BY <2>1 DEF LatchInv, LatchRest
    <2>4. "pr" \in arms => /\ ~blocked' /\ pc' # "restore"
                           /\ pc' \in {"threads", "end"} => live'.age <= 0 /\ saved'.age <= 0
      <3> SUFFICES ASSUME "pr" \in arms
                   PROVE  ~blocked' /\ (pc' \in {"threads", "end"} => live'.age <= 0 /\ saved'.age <= 0)
        OBVIOUS
      <3>1. ~blocked' BY DEF Untouched, LatchInv, LatchRest
      <3>2. QED BY <2>1, <3>1 DEF LatchInv, LatchRest
    <2>5. QED BY <1>1, <2>2, <2>3, <2>4 DEF Untouched, LatchInv, LatchRest
  <1>5. QED BY <1>3, <1>4

\* A rule that placed one leaves it latched.
LEMMA PlacedKeeps ==
    ASSUME LatchInv, env = {}, Placed, pc \in {"redgate", "restore"}, pc' \notin {"idle", "restore"}
    PROVE  LatchRest'
  <1>1. Armed # NoEntry /\ Armed.age = 0 /\ ~Armed.over BY DEF Armed, NoEntry
  <1>2. Sound(live') /\ Sound(saved') /\ live'.age = 0 /\ saved'.age = 0
    BY <1>1 DEF Placed, Sound
  <1>3. flight' = None /\ "pr" \in arms' /\ laps' = laps /\ ~blocked'
    BY DEF Placed, Owing
  <1>4. waited' = FALSE BY DEF Placed, LatchInv, LatchRest
  <1>5. Owed' = 1 BY <1>3 DEF Owed
  <1>6. laps + 1 <= NoopMax BY ExactBudget DEF Placed, LapsExhausted
  <1>7. laps' + Owed' <= NoopMax BY <1>3, <1>5, <1>6
  <1>8. QED BY <1>2, <1>3, <1>4, <1>7 DEF LatchRest

LEMMA TickLatch == ASSUME LatchInv, env = {}, Tick \/ TickDies PROVE LatchRest'
  <1> USE DEF Goto, pr, head
  <1>0. /\ verdict = "none" /\ ~reviewed /\ "issue" \notin arms /\ ~Delays
        /\ "pr" \in arms => flight = None /\ ~blocked /\ pc # "restore"
    BY Undisturbed DEF LatchInv, LapInv, LapRest, LatchRest
  <1>1. CASE StartTick
    <2>1. pc = "idle" /\ pc' = "reconcile" /\ waited' = FALSE /\ live' = saved
          /\ UNCHANGED <<saved, arms, flight, laps, blocked>>
      <3>1. PICK read \in Reads : live' = IF read THEN saved ELSE NoEntry BY <1>1 DEF StartTick
      <3>2. read = TRUE BY Undisturbed
      <3>3. QED BY <1>1, <3>1, <3>2 DEF StartTick
    <2>2. flight # None => flight.st = "active" /\ flight.st # "requested"
      BY <1>1 DEF StartTick
    <2>3. Owed' = Owed /\ (Owing' <=> Owing) /\ (Waiting' <=> "pr" \in arms)
      BY <2>1, <2>2 DEF Owed, Owing, Waiting
    <2>4. "pr" \in arms => saved.age <= 1
      BY <2>1 DEF LatchInv, LapInv, TypeOK, EntryType, LatchRest
    <2>5. QED BY <2>1, <2>3, <2>4 DEF LatchInv, LatchRest
  <1>2. CASE Reconcile
    <2>1. PassBy /\ UNCHANGED <<arms, flight, laps, blocked, waited>>
      BY <1>0, <1>2 DEF Reconcile, Strips
    <2>2. Untouched BY <1>2, <2>1, PublishUntouched DEF Untouched, Reconcile
    <2>3. QED BY <1>2, <2>2, UntouchedKeeps DEF Reconcile
  <1>3. CASE RedGate
    <2>1. PICK gated \in BOOLEAN : ArmRework(gated, TRUE) BY <1>3 DEF RedGate
    <2>2. pc = "redgate" /\ pc' = "issue" /\ "pr" \notin arms
      BY <1>3, <2>1 DEF RedGate, ArmRework
    <2>3. Untouched \/ Placed BY <2>1, <2>2, ArmSteps
    <2>4. QED BY <2>2, <2>3, UntouchedKeeps, PlacedKeeps
  <1>4. CASE SkipRedGate
    <2>1. Untouched BY <1>4, SkipSteps DEF SkipRedGate
    <2>2. QED BY <1>4, <2>1, UntouchedKeeps DEF SkipRedGate
  <1>5. CASE IssueDispatch
    <2>1. PassBy /\ UNCHANGED <<arms, flight, laps, blocked, waited>>
      BY <1>0, <1>5 DEF IssueDispatch
    <2>2. Untouched BY <1>5, <2>1, PublishUntouched DEF Untouched, IssueDispatch
    <2>3. QED BY <1>5, <2>2, UntouchedKeeps DEF IssueDispatch
  <1>6. CASE LabelDispatch
    <2>1. CASE "pr" \in arms
      <3>1. flight' = Dispatched("pr") /\ arms' = arms \ {"pr"} /\ Publish(live)
            /\ UNCHANGED <<laps, blocked, waited>> /\ pc = "label" /\ pc' = "restore"
        BY <1>0, <1>6, <2>1 DEF LabelDispatch, Consume
      <3>2. Owing /\ Waiting BY <2>1 DEF Owing, Waiting
      <3>3. live # NoEntry /\ Cause(live, TRUE) = "in-flight"
        BY <3>1, <3>2, LatchHolds DEF Latched
      <3>4. live' = live /\ saved' = live BY <3>1, <3>3, PublishHolds
      <3>5. Owed = 1 /\ Owed' = 1 BY <1>0, <2>1, <3>1 DEF Owed, Dispatched, None
      <3>6. Sound(live) /\ live.age <= 1 BY <3>1, <3>2 DEF LatchInv, LatchRest
      <3>7. QED BY <3>1, <3>4, <3>5, <3>6 DEF LatchInv, LatchRest
    <2>2. CASE "pr" \notin arms
      <3>1. PassBy /\ UNCHANGED <<arms, flight, laps, blocked, waited>>
        BY <1>6, <2>2 DEF LabelDispatch
      <3>2. Untouched BY <1>6, <3>1, PublishUntouched DEF Untouched, LabelDispatch
      <3>3. QED BY <1>6, <2>2, <3>2, UntouchedKeeps DEF LabelDispatch
    <2>3. QED BY <2>1, <2>2
  <1>7. CASE NoBudget \/ TickDies
    BY <1>0, <1>7 DEF NoBudget, TickDies
  <1>8. CASE Restore
    <2>1. pc = "restore" /\ pc' = "threads" /\ "pr" \notin arms BY <1>8 DEF Restore
    <2>2. QED BY <1>8, <2>1, RestoreSteps, UntouchedKeeps, PlacedKeeps
  <1>9. CASE SkipRestore
    <2>1. Untouched BY <1>9, SkipSteps DEF SkipRestore
    <2>2. QED BY <1>0, <1>9, <2>1, UntouchedKeeps DEF SkipRestore
  <1>10. CASE Threads BY <1>0, <1>10 DEF Threads
  <1>11. CASE SkipThreads
    <2>1. Untouched BY <1>11, SkipSteps DEF SkipThreads
    <2>2. QED BY <1>11, <2>1, UntouchedKeeps DEF SkipThreads
  <1>12. CASE EndTick
    <2>1. pc = "end" /\ pc' = "idle" /\ UNCHANGED <<saved, arms, flight, laps, blocked, waited>>
      BY <1>12 DEF EndTick
    <2>2. Owed' = Owed /\ (Owing' <=> Owing) BY <2>1 DEF Owed, Owing
    <2>3. waited = FALSE BY <2>1 DEF LatchInv, LatchRest
    <2>4. QED BY <2>1, <2>2, <2>3 DEF LatchInv, LatchRest
  <1>13. QED
    BY <1>1, <1>2, <1>3, <1>4, <1>5, <1>6, <1>7, <1>8, <1>9, <1>10, <1>11, <1>12 DEF Tick

\* A leg that ends owes nothing more; the lap it may have been was budgeted.
LEMMA LegLatch == ASSUME LatchInv, env = {}, Leg PROVE LatchRest'
  <1> USE DEF pr, head
  <1>0. /\ verdict = "none" /\ "issue" \notin arms /\ Posts = {TRUE}
        /\ pc # "idle" => waited = FALSE
        /\ flight # None => flight.kind = "rework" /\ flight.cur /\ "pr" \notin arms
                            /\ laps + 1 <= NoopMax
        /\ laps \in 0 .. NoopMax /\ NoopMax \in Nat
    <2>1. Calm /\ Posts = {TRUE} BY Undisturbed
    <2>2. laps \in 0 .. NoopMax /\ NoopMax \in Nat BY ExactBudget
    <2>3. /\ verdict = "none" /\ "issue" \notin arms
          /\ flight # None => flight.kind = "rework" /\ flight.cur
      BY <2>1 DEF LatchInv, LapInv, LapRest
    <2>4. pc # "idle" => waited = FALSE BY DEF LatchInv, LatchRest
    <2>5. QED BY <2>1, <2>2, <2>3, <2>4, ExactBudget
  <1>1. CASE LegRegisters
    <2>1. flight # None /\ flight' = [flight EXCEPT !.st = "active"] /\ flight \in LegType
          /\ UNCHANGED <<live, saved, arms, laps, blocked, pc, waited>>
      BY <1>1 DEF LegRegisters, latch, LatchInv, LapInv, TypeOK
    <2>2. flight' # None /\ flight'.st = "active" BY <2>1 DEF LegType, None
    <2>3. Owed' = Owed /\ Owing /\ ~Waiting'
      BY <1>0, <2>1, <2>2 DEF Owed, Owing, Waiting
    <2>4. QED BY <1>0, <2>1, <2>2, <2>3 DEF LatchInv, LatchRest
  <1>2. CASE LegVanishes
    BY <1>0, <1>2, NothingOwed DEF LegVanishes
  <1>3. CASE ReviewStarts BY <1>3, Undisturbed DEF ReviewStarts
  <1>4. CASE LegEnds
    <2>1. flight # None /\ flight' = None /\ UNCHANGED <<pc, waited>>
      BY <1>4 DEF LegEnds, LegPushes, LegAuditResolves, LegFindsNothing, LegBlocked,
                  LegRejected, LegFails, LegDies, ReviewCloses, Concludes
    <2>2. "pr" \notin arms'
      <3>1. CASE LegPushes \/ LegAuditResolves \/ LegFindsNothing \/ LegBlocked
        BY <1>0, <3>1 DEF LegPushes, LegAuditResolves, LegFindsNothing, LegBlocked, Rearmed
      <3>2. CASE LegRejected \/ LegFails \/ LegDies
        BY <1>0, <2>1, <3>2 DEF LegRejected, LegFails, LegDies
      <3>3. CASE ReviewCloses BY <1>0, <3>3 DEF ReviewCloses, Concludes
      <3>4. QED BY <1>4, <3>1, <3>2, <3>3 DEF LegEnds
    <2>3. laps' \in 0 .. NoopMax
      <3>1. CASE LegPushes BY <1>0, <3>1 DEF LegPushes, NewHead
      <3>2. CASE LegAuditResolves BY <1>0, <2>1, <3>2 DEF LegAuditResolves
      <3>3. CASE LegFindsNothing \/ LegBlocked \/ LegRejected
        <4>1. EmptyLap BY <3>3 DEF LegFindsNothing, LegBlocked, LegRejected
        <4>2. laps' = IMin(laps + 1, NoopMax + 2) BY <1>0, <2>1, <4>1 DEF EmptyLap
        <4>3. IMin(laps + 1, NoopMax + 2) \in 0 .. NoopMax BY <1>0, <2>1 DEF IMin
        <4>4. QED BY <4>2, <4>3
      <3>4. CASE LegFails \/ LegDies BY <1>0, <3>4 DEF LegFails, LegDies
      <3>5. CASE ReviewCloses BY <1>0, <3>5 DEF ReviewCloses, Concludes
      <3>6. QED BY <1>4, <3>1, <3>2, <3>3, <3>4, <3>5 DEF LegEnds
    <2>4. QED BY <1>0, <2>1, <2>2, <2>3, NothingOwed
  <1>5. QED BY <1>1, <1>2, <1>3, <1>4 DEF Leg

\* One unit older at most between two ticks.
LEMMA WorldLatch == ASSUME LatchInv, env = {}, World PROVE LatchRest'
  <1> USE DEF pr, head, latch
  <1>1. CASE SilentUpdate \/ PersonPushes \/ PersonEdits
    BY <1>1, Undisturbed DEF SilentUpdate, PersonPushes, PersonEdits
  <1>2. CASE Checks
    <2>1. UNCHANGED <<live, saved, arms, flight, laps, blocked, pc, waited>> BY <1>2 DEF Checks
    <2>2. Owed' = Owed /\ (Owing' <=> Owing) /\ (Waiting' <=> Waiting)
      BY <2>1 DEF Owed, Owing, Waiting
    <2>3. QED BY <2>1, <2>2 DEF LatchInv, LatchRest
  <1>3. CASE Elapse
    <2>1. /\ pc = "idle" /\ ~waited /\ waited' = TRUE /\ saved' = Older(saved)
          /\ UNCHANGED <<pc, live, arms, flight, laps, blocked>>
      BY <1>3, Undisturbed DEF Elapse
    <2>2. Owed' = Owed /\ (Owing' <=> Owing) BY <2>1 DEF Owed, Owing
    <2>3. Owing => Sound(saved')
      <3>1. SUFFICES ASSUME Owing PROVE Sound(saved') OBVIOUS
      <3>2. saved \in EntryType /\ Sound(saved)
        BY <3>1 DEF LatchInv, LapInv, TypeOK, LatchRest
      <3>3. saved'.over = saved.over BY <2>1, <3>2 DEF Older, Sound, EntryType
      <3>4. QED BY <2>1, <3>2, <3>3, OlderKept DEF Sound
    <2>4. "pr" \in arms => saved'.age <= 1
      <3>1. SUFFICES ASSUME "pr" \in arms PROVE saved'.age <= 1 OBVIOUS
      <3>2. saved.age <= 0 BY <2>1, <3>1 DEF LatchInv, LatchRest
      <3>3. saved # NoEntry /\ saved \in EntryType
        BY <3>1 DEF LatchInv, LapInv, TypeOK, LatchRest, Owing, Sound
      <3>4. saved'.age = IMin(saved.age + 1, Stale + 1) BY <2>1, <3>3 DEF Older, EntryType
      <3>5. QED BY <3>2, <3>3, <3>4, BoundsAssumption DEF IMin, EntryType
    <2>5. QED BY <2>1, <2>2, <2>3, <2>4 DEF LatchInv, LatchRest
  <1>4. QED BY <1>1, <1>2, <1>3 DEF World

LEMMA StepLatch == LatchInv /\ [Next]_vars => LatchInv'
  <1> SUFFICES ASSUME LatchInv, [Next]_vars PROVE LatchInv' OBVIOUS
  <1>1. LapInv' BY StepLaps DEF LatchInv
  <1>2. env' = env BY EnvFixed
  <1>3. ASSUME env = {} PROVE LatchRest'
    <2>1. CASE UNCHANGED vars
      BY <1>3, <2>1 DEF vars, pr, head, latch, LatchInv, LatchRest, Owed, Owing, Waiting
    <2>2. QED BY <1>3, <2>1, TickLatch, LegLatch, WorldLatch DEF Next
  <1>4. QED BY <1>1, <1>2, <1>3 DEF LatchInv

LEMMA InitLatch == Init => LatchInv
  <1> SUFFICES ASSUME Init PROVE LatchInv OBVIOUS
  <1>1. Owed = 0 /\ ~Owing /\ ~Waiting BY DEF Init, Owed, Owing, Waiting
  <1>2. QED BY <1>1, InitLaps, BoundsAssumption DEF Init, LatchInv, LatchRest

\* Undisturbed, at most noopLapMax consecutive legs on a head change nothing:
\* the latch keeps a second request from standing beside a leg, so the lap
\* guard is asked once for every leg (reworkLoopGuard.js:97).
THEOREM LapsHold == Spec => []LapsBounded
  <1>1. LatchInv => LapsBounded
    BY ExactBudget, Undisturbed DEF LatchInv, LapInv, LapRest, LapsBounded
  <1>2. QED BY <1>1, InitLatch, StepLatch, PTL DEF Spec

-----------------------------------------------------------------------------
\* No arm over a running leg

\* Only the rules that arm the PR put the label on it.
LEMMA PlacersAre ==
    ASSUME LatchInv, env = {}, [Next]_vars, PlacesArm
    PROVE  Placed
  <1>1. "pr" \in arms' /\ "pr" \notin arms /\ pc \in {"redgate", "restore", "threads"}
    BY DEF PlacesArm
  <1>2. ~Untouched BY <1>1 DEF Untouched
  <1>3. CASE Tick \/ TickDies
    <2>1. CASE RedGate BY <1>1, <1>2, <2>1, ArmSteps DEF RedGate
    <2>2. CASE Restore BY <1>2, <2>2, RestoreSteps
    <2>3. CASE Threads BY <2>3, Undisturbed DEF Threads, LatchInv, LapInv, LapRest
    <2>4. CASE StartTick \/ Reconcile \/ IssueDispatch \/ LabelDispatch \/ NoBudget
      BY <1>1, <2>4 DEF StartTick, Reconcile, IssueDispatch, LabelDispatch, NoBudget, Goto
    <2>5. CASE SkipRedGate \/ SkipRestore \/ SkipThreads \/ EndTick \/ TickDies
      BY <1>1, <2>5 DEF SkipRedGate, SkipRestore, SkipThreads, EndTick, TickDies, SkipRule
    <2>6. QED BY <1>3, <2>1, <2>2, <2>3, <2>4, <2>5 DEF Tick
  <1>4. CASE Leg
    <2>1. CASE LegRegisters \/ LegVanishes \/ ReviewStarts \/ LegDies
      BY <1>1, <2>1 DEF LegRegisters, LegVanishes, ReviewStarts, LegDies
    <2>2. CASE LegPushes \/ LegAuditResolves \/ LegFindsNothing \/ LegBlocked
      <3>1. arms' = {} \/ arms' = {"issue"}
        BY <2>2 DEF LegPushes, LegAuditResolves, LegFindsNothing, LegBlocked, Rearmed
      <3>2. QED BY <1>1, <3>1
    <2>3. CASE LegRejected \/ LegFails BY <1>1, <2>3 DEF LegRejected, LegFails
    <2>4. CASE ReviewCloses BY <1>1, <2>4 DEF ReviewCloses
    <2>5. QED BY <1>4, <2>1, <2>2, <2>3, <2>4 DEF Leg, LegEnds
  <1>5. CASE World
    BY <1>1, <1>5, Undisturbed
       DEF World, SilentUpdate, Checks, PersonPushes, PersonEdits, Elapse
  <1>6. CASE UNCHANGED vars BY <1>1, <1>6 DEF vars
  <1>7. QED BY <1>3, <1>4, <1>5, <1>6 DEF Next

\* Undisturbed, no rule arms the PR while a rework leg is running on its head
\* (gh-806 AC1): the latch placed with the request outlives it until the leg
\* has a run, and the run holds it from there.
THEOREM NoArmOverFlightHolds == Spec => NoArmOverFlight
  <1>1. LatchInv /\ [Next]_vars => [env = {} /\ PlacesArm => ~ReworkFlying]_vars
    BY PlacersAre DEF Placed, Owing, ReworkFlying, Flying
  <1>2. QED BY <1>1, InitLatch, StepLatch, PTL DEF Spec, NoArmOverFlight

-----------------------------------------------------------------------------
\* Cleared entries stay cleared

\* While snapshots and listings answer, the snapshot holds in mid-tick what the
\* tick holds, or nothing -- unless the tick holds nothing.
Carries == ~LostSnapshots /\ ~ShortListing
CarryRest == pc # "idle" => live = NoEntry \/ saved \in {live, NoEntry}
CarryInv == TypeOK /\ (Carries => CarryRest)

\* One publication: the tick's entry over the previous snapshot, pruned.
LEMMA PublishCarries ==
    ASSUME Carries, NEW e, Publish(e)
    PROVE  live' = e /\ saved' = Pruned(Carried(e, saved), TRUE)
  <1>1. Reads = {TRUE} /\ Listings = {TRUE} BY DEF Carries, Reads, Listings
  <1>2. ASSUME NEW s \in Snapshots(e) PROVE s = Pruned(Carried(e, saved), TRUE)
    BY <1>1, <1>2 DEF Snapshots, Carries
  <1>3. QED BY <1>2 DEF Publish

\* What a step does to the latch.  A rule that clears the entry it consulted
\* has seen that it does not hold.
LEMMA LatchFrame ==
    ASSUME [Next]_vars
    PROVE  \/ pc' = "idle"
           \/ pc = "idle" /\ StartTick
           \/ pc # "idle" /\ PassBy
           \/ \E e : /\ Publish(e)
                     /\ e = NoEntry /\ e # live /\ ~FailedProbes /\ pc \in {"redgate", "restore"}
                        => ~Latched(TRUE)
           \/ UNCHANGED <<latch, pc>>
           \/ NewHead
           \/ live' = Over(live) /\ saved' = Over(saved) /\ pc' = pc
  <1>1. CASE Tick \/ TickDies
    <2>1. CASE StartTick \/ EndTick \/ TickDies BY <2>1 DEF StartTick, EndTick, TickDies, Goto
    <2>2. CASE SkipRedGate \/ NoBudget \/ SkipRestore \/ SkipThreads
      BY <2>2 DEF SkipRedGate, NoBudget, SkipRestore, SkipThreads, SkipRule, Goto
    <2>3. CASE Reconcile \/ IssueDispatch \/ LabelDispatch
      BY <2>3 DEF Reconcile, IssueDispatch, LabelDispatch, Goto
    <2>4. CASE RedGate
      <3>1. PICK gated \in BOOLEAN : ArmRework(gated, TRUE) BY <2>4 DEF RedGate
      <3>2. PICK runs \in Rollups, seen \in Rollups :
              LET e == Consulted(runs)
              IN IF Latched(runs) THEN Withhold(live)
                 ELSE IF gated /\ reds >= RedCap THEN WithholdRed(e)
                 ELSE IF ~MayArm(seen) THEN Withhold(e)
                 ELSE IF LapsExhausted THEN WithholdLaps(e)
                 ELSE Arm(gated, TRUE, e)
        BY <3>1 DEF ArmRework
      <3>3. ~FailedProbes => runs = TRUE BY DEF Rollups
      <3>4. CASE Latched(runs) BY <3>2, <3>4 DEF Withhold
      <3>5. CASE ~Latched(runs)
        <4>1. \E e : Publish(e)
          BY <3>2, <3>5 DEF Withhold, WithholdRed, WithholdLaps, Arm
        <4>2. QED BY <3>3, <3>5, <4>1
      <3>6. QED BY <3>4, <3>5
    <2>5. CASE Restore
      <3>1. PICK known \in Rollups, runs \in Rollups, again \in Rollups, seen \in Rollups :
              LET e == IF known THEN Consulted(runs) ELSE live
                  owned == (known /\ Latched(runs)) \/ (known /\ again /\ Flying)
              IN IF ~owned /\ MayArm(known \/ seen) /\ QuietLongEnough
                 THEN RestoreOrWithhold(known, e)
                 ELSE Publish(e) /\ UNCHANGED <<arms, mark, escalated>>
        BY <2>5 DEF Restore
      <3>2. ~FailedProbes => known = TRUE /\ runs = TRUE BY DEF Rollups
      <3>3. CASE known /\ Latched(runs) BY <3>1, <3>3 DEF Consulted
      <3>4. CASE ~known
        <4>1. \E e : Publish(e) BY <3>1 DEF RestoreOrWithhold
        <4>2. QED BY <3>2, <3>4, <4>1
      <3>5. CASE ~Latched(runs)
        <4>1. \E e : Publish(e) BY <3>1 DEF RestoreOrWithhold
        <4>2. QED BY <3>2, <3>5, <4>1
      <3>6. QED BY <3>3, <3>4, <3>5
    <2>6. CASE Threads
      <3>1. PICK e : Withhold(e) \/ WithholdRed(e) \/ WithholdLaps(e) \/ Arm(FALSE, FALSE, e)
        BY <2>6 DEF Threads, ArmRework
      <3>2. \E f : Publish(f) BY <3>1 DEF Withhold, WithholdRed, WithholdLaps, Arm
      <3>3. QED BY <2>6, <3>2 DEF Threads, Goto
    <2>7. QED BY <1>1, <2>1, <2>2, <2>3, <2>4, <2>5, <2>6 DEF Tick
  <1>2. CASE Leg
    <2>1. CASE LegPushes BY <2>1 DEF LegPushes
    <2>2. CASE LegEnds /\ ~LegPushes
      BY <2>2 DEF LegEnds, LegAuditResolves, LegFindsNothing, LegBlocked, LegRejected,
                  LegFails, LegDies, ReviewCloses, Concludes, latch
    <2>3. CASE LegRegisters \/ LegVanishes \/ ReviewStarts
      BY <2>3 DEF LegRegisters, LegVanishes, ReviewStarts
    <2>4. QED BY <1>2, <2>1, <2>2, <2>3 DEF Leg
  <1>3. CASE World
    <2>1. CASE SilentUpdate \/ PersonPushes BY <2>1 DEF SilentUpdate, PersonPushes
    <2>2. CASE Checks \/ PersonEdits BY <2>2 DEF Checks, PersonEdits
    <2>3. CASE Elapse BY <2>3 DEF Elapse
    <2>4. QED BY <1>3, <2>1, <2>2, <2>3 DEF World
  <1>4. CASE UNCHANGED vars BY <1>4 DEF vars
  <1>5. QED BY <1>1, <1>2, <1>3, <1>4 DEF Next

LEMMA OverSome == \A e \in EntryType : e # NoEntry => Over(e) # NoEntry
  BY DEF Over, NoEntry, EntryType

LEMMA StepCarries == CarryInv /\ [Next]_vars => CarryInv'
  <1> SUFFICES ASSUME CarryInv, [Next]_vars PROVE CarryInv' OBVIOUS
  <1>1. TypeOK' BY StepTyped DEF CarryInv
  <1>2. Carries' = Carries BY EnvFixed DEF Carries, LostSnapshots, ShortListing
  <1>3. ASSUME Carries, pc' # "idle" PROVE live' = NoEntry \/ saved' \in {live', NoEntry}
    <2>1. CASE pc = "idle" /\ StartTick
      <3>1. Reads = {TRUE} BY <1>3 DEF Carries, Reads
      <3>2. PICK read \in Reads : live' = IF read THEN saved ELSE NoEntry BY <2>1 DEF StartTick
      <3>3. read = TRUE /\ saved' = saved BY <2>1, <3>1 DEF StartTick
      <3>4. QED BY <3>2, <3>3
    <2>2. CASE pc # "idle" /\ PassBy
      <3>1. live' = live /\ (saved' = saved \/ Publish(live)) BY <2>2 DEF PassBy, Publish
      <3>2. CASE saved' = saved BY <1>3, <2>2, <3>1, <3>2 DEF CarryInv, CarryRest
      <3>3. CASE Publish(live)
        <4>1. saved' = Pruned(Carried(live, saved), TRUE) BY <1>3, <3>3, PublishCarries
        <4>2. QED BY <3>1, <4>1 DEF Pruned, Carried
      <3>4. QED BY <3>1, <3>2, <3>3
    <2>3. CASE \E e : Publish(e)
      <3>1. PICK e : Publish(e) BY <2>3
      <3>2. live' = e /\ saved' = Pruned(Carried(e, saved), TRUE) BY <1>3, <3>1, PublishCarries
      <3>3. QED BY <3>2 DEF Pruned, Carried
    <2>4. CASE UNCHANGED <<latch, pc>>
      BY <1>3, <2>4 DEF latch, CarryInv, CarryRest
    <2>5. CASE NewHead BY <2>5 DEF NewHead
    <2>6. CASE live' = Over(live) /\ saved' = Over(saved) /\ pc' = pc
      BY <1>3, <2>6 DEF CarryInv, CarryRest, Over
    <2>7. QED BY <1>3, <2>1, <2>2, <2>3, <2>4, <2>5, <2>6, LatchFrame
  <1>4. QED BY <1>1, <1>2, <1>3 DEF CarryInv, CarryRest

\* A rule that clears what does not hold clears the snapshot with it: the
\* carried entry is the same one, and the publication prunes it.
LEMMA StepClears ==
    ASSUME CarryInv, [Next]_vars, Carries, ~FailedProbes, live # NoEntry, live' = NoEntry,
           pc \in {"redgate", "restore"}, pc' # "idle"
    PROVE  saved' = NoEntry
  <1>1. CASE PassBy BY <1>1 DEF PassBy
  <1>2. CASE \E e : /\ Publish(e)
                    /\ e = NoEntry /\ e # live /\ ~FailedProbes /\ pc \in {"redgate", "restore"}
                       => ~Latched(TRUE)
    <2>1. PICK e : /\ Publish(e)
                   /\ e = NoEntry /\ e # live /\ ~FailedProbes /\ pc \in {"redgate", "restore"}
                      => ~Latched(TRUE)
      BY <1>2
    <2>2. e = NoEntry /\ saved' = Pruned(Carried(e, saved), TRUE) BY <2>1, PublishCarries
    <2>3. Cause(live, TRUE) \in {"stale", "terminated"} BY <2>1, <2>2 DEF Latched, Cause
    <2>4. saved \in {live, NoEntry} BY DEF CarryInv, CarryRest
    <2>5. QED BY <2>2, <2>3, <2>4 DEF Pruned, Carried
  <1>3. CASE UNCHANGED <<latch, pc>> BY <1>3 DEF latch
  <1>4. CASE NewHead BY <1>4 DEF NewHead
  <1>5. CASE live' = Over(live) BY <1>5, OverSome DEF CarryInv, TypeOK
  <1>6. QED BY <1>1, <1>2, <1>3, <1>4, <1>5, LatchFrame

\* What a rule cleared in the middle of the tick does not come back from the
\* previous snapshot, as long as the rule and the publisher see the same runs
\* (factoryState.js:932).
THEOREM ClearsHold == Spec => ClearsStick
  <1>1. Init => CarryInv BY InitTyped DEF Init, CarryInv, CarryRest
  <1>2. CarryInv /\ [Next]_vars
        => [/\ ~LostSnapshots /\ ~ShortListing /\ ~FailedProbes
            /\ live # NoEntry /\ live' = NoEntry /\ pc \in {"redgate", "restore"} /\ pc' # "idle"
            => saved' = NoEntry]_vars
    BY StepClears DEF Carries
  <1>3. QED BY <1>1, <1>2, StepCarries, PTL DEF Spec, ClearsStick
=============================================================================
