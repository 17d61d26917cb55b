--------------------------- MODULE ReworkArmProofs ---------------------------
(* Proofs about ReworkArm, for every value of its bounds and every set of    *)
(* environments.  The environment is fixed at the start, so a property that  *)
(* needs a switch to be off follows from an invariant with that condition.   *)
EXTENDS ReworkArm, TLAPS

\* The red-arm budget: every arm of the red gate left its marker, or lost it.
RedInv == TypeOK /\ redArms = reds + unmarked

\* The laps still owed: one by a leg in flight, one by a leg requested.
Owed == (IF flight = None THEN 0 ELSE 1) + (IF "pr" \in arms THEN 1 ELSE 0)

\* The lap budget: laps counted plus laps owed exceed it by one at most.
LapRest ==
    /\ ~reviewed /\ verdict = "none" /\ "issue" \notin arms
    /\ flight # None => flight.kind = "rework" /\ flight.anchor = "pr" /\ flight.cur
    /\ emptyLaps = laps
    /\ laps + Owed <= NoopMax + 1
LapInv == TypeOK /\ (Calm => LapRest)

-----------------------------------------------------------------------------
\* The latch

\* The entries the code builds are entries, and a call answers with a Boolean.
LEMMA EntriesTyped ==
    /\ Armed \in EntryType /\ NoEntry \in EntryType
    /\ \A e \in EntryType : Over(e) \in EntryType /\ Older(e) \in EntryType
    /\ Posts \subseteq BOOLEAN /\ Reads \subseteq BOOLEAN
    /\ Rollups \subseteq BOOLEAN /\ Listings \subseteq BOOLEAN
  <1> USE BoundsAssumption
  <1>1. Armed \in EntryType /\ NoEntry \in EntryType BY DEF Armed, NoEntry, EntryType
  <1>2. ASSUME NEW e \in EntryType PROVE Over(e) \in EntryType BY DEF Over, EntryType
  <1>3. ASSUME NEW e \in EntryType PROVE Older(e) \in EntryType
    BY DEF Older, EntryType, NoEntry, IMin
  <1>4. Posts \subseteq BOOLEAN /\ Reads \subseteq BOOLEAN BY DEF Posts, Reads
  <1>5. Rollups \subseteq BOOLEAN /\ Listings \subseteq BOOLEAN BY DEF Rollups, Listings
  <1>6. QED BY <1>1, <1>2, <1>3, <1>4, <1>5

\* Consulting, carrying and pruning return the entry they were given, or none.
LEMMA SnapshotsTyped ==
    ASSUME live \in EntryType, saved \in EntryType
    PROVE  /\ \A runs \in Rollups : Consulted(runs) \in EntryType
           /\ \A e \in EntryType : Snapshots(e) \subseteq EntryType
  <1>1. \A runs \in Rollups : Consulted(runs) \in EntryType BY EntriesTyped DEF Consulted
  <1>2. ASSUME NEW e \in EntryType, NEW p \in EntryType, NEW listed \in Listings
        PROVE  Pruned(Carried(e, p), listed) \in EntryType
    BY <1>2, EntriesTyped DEF Pruned, Carried
  <1>3. ASSUME NEW e \in EntryType PROVE Snapshots(e) \subseteq EntryType
    <2>1. ASSUME NEW read \in Reads, NEW listed \in Listings
          PROVE  Pruned(Carried(e, IF read THEN saved ELSE NoEntry), listed) \in EntryType
      <3>1. (IF read THEN saved ELSE NoEntry) \in EntryType BY EntriesTyped
      <3>2. QED BY <1>2, <3>1
    <2>2. {Pruned(Carried(e, IF read THEN saved ELSE NoEntry), listed) :
             read \in Reads, listed \in Listings} \subseteq EntryType
      BY <2>1
    <2>3. QED BY <2>2 DEF Snapshots
  <1>4. QED BY <1>1, <1>3

\* A publication leaves entries behind.
LEMMA PublishTyped ==
    ASSUME live \in EntryType, saved \in EntryType
    PROVE  /\ \A e \in EntryType : Publish(e) => live' \in EntryType /\ saved' \in EntryType
           /\ PassBy => live' \in EntryType /\ saved' \in EntryType
  BY SnapshotsTyped DEF Publish, PassBy

-----------------------------------------------------------------------------
\* Type correctness

\* The handler of the arming rules leaves the types alone; the red marker it
\* counts stays under the cap because the cap is asked first.
LEMMA ArmTyped ==
    ASSUME TypeOK, NEW gated \in BOOLEAN, NEW known \in BOOLEAN, ArmRework(gated, known)
    PROVE  /\ live' \in EntryType /\ saved' \in EntryType
           /\ arms' \in SUBSET {"pr", "issue"}
           /\ escalated' \in BOOLEAN /\ withheld' \in BOOLEAN
           /\ laps' = laps /\ reds' \in 0 .. RedCap
           /\ redArms' \in 0 .. RedCap + LostMax + 1 /\ unmarked' \in 0 .. LostMax
           /\ UNCHANGED <<pr, red, verdict, emptyLaps, mark, flight, waited, env>>
  <1> USE BoundsAssumption
  <1>1. PICK runs \in Rollups, seen \in Rollups :
          LET e == IF known THEN Consulted(runs) ELSE live
          IN IF known /\ Latched(runs) THEN Withhold(live)
             ELSE IF gated /\ reds >= RedCap THEN WithholdRed(e)
             ELSE IF ~MayArm(seen) THEN Withhold(e)
             ELSE IF known /\ LapsExhausted THEN WithholdLaps(e)
             ELSE Arm(gated, known, e)
    BY DEF ArmRework
  <1> DEFINE e == IF known THEN Consulted(runs) ELSE live
  <1>2. e \in EntryType /\ live \in EntryType /\ saved \in EntryType
    BY SnapshotsTyped DEF TypeOK
  <1>3. UNCHANGED <<pr, red, verdict, emptyLaps, mark, flight, waited, env>> BY DEF ArmRework
  <1> HIDE DEF e
  <1>4. Withhold(live) \/ WithholdRed(e) \/ Withhold(e) \/ WithholdLaps(e)
        \/ (Arm(gated, known, e) /\ ~(gated /\ reds >= RedCap))
    BY <1>1 DEF e
  <1>5. CASE Withhold(live) \/ Withhold(e)
    BY <1>2, <1>3, <1>5, PublishTyped DEF Withhold, TypeOK
  <1>6. CASE WithholdRed(e)
    <2>1. withheld' \in BOOLEAN BY <1>6, Zenon DEF WithholdRed, TypeOK
    <2>2. QED BY <1>2, <1>3, <1>6, <2>1, PublishTyped DEF WithholdRed, TypeOK
  <1>7. CASE WithholdLaps(e)
    <2>1. escalated' \in BOOLEAN BY <1>7, Zenon DEF WithholdLaps, TypeOK
    <2>2. QED BY <1>2, <1>3, <1>7, <2>1, PublishTyped DEF WithholdLaps, TypeOK
  <1>8. CASE Arm(gated, known, e) /\ ~(gated /\ reds >= RedCap)
    <2>1. PICK posted \in IF gated /\ unmarked = LostMax THEN {TRUE} ELSE Posts :
            /\ reds' = IF gated /\ posted THEN reds + 1 ELSE reds
            /\ RedArm(gated, posted)
            /\ Publish(IF known /\ posted THEN Armed ELSE e)
      BY <1>8 DEF Arm
    <2>2. live' \in EntryType /\ saved' \in EntryType BY <1>2, <2>1, PublishTyped, EntriesTyped
    <2>3. reds' \in 0 .. RedCap BY <1>8, <2>1 DEF TypeOK
    <2>4. redArms' \in 0 .. RedCap + LostMax + 1 BY <2>1 DEF RedArm, TypeOK, IMin
    <2>5. unmarked' \in 0 .. LostMax
      <3>1. unmarked \in 0 .. LostMax BY DEF TypeOK
      <3>2. gated /\ ~posted => unmarked # LostMax BY <2>1
      <3>3. QED BY <2>1, <3>1, <3>2 DEF RedArm
    <2>6. arms' \in SUBSET {"pr", "issue"} BY <1>8 DEF Arm, Place, TypeOK
    <2>7. QED BY <1>3, <1>8, <2>2, <2>3, <2>4, <2>5, <2>6 DEF Arm, TypeOK
  <1>9. QED BY <1>4, <1>5, <1>6, <1>7, <1>8

\* The leg that ends takes its latch along, and leaves entries.
LEMMA ConcludesTyped ==
    ASSUME TypeOK, NEW kind, Concludes(kind)
    PROVE  /\ live' \in EntryType /\ saved' \in EntryType /\ flight' = None
           /\ UNCHANGED <<pc, waited, env>>
  BY EntriesTyped DEF Concludes, TypeOK, latch

\* A head that moved starts from nothing.
LEMMA NewHeadTyped ==
    ASSUME NewHead
    PROVE  /\ red' \in BOOLEAN /\ verdict' \in Verdicts \cup {"none"}
           /\ laps' \in 0 .. NoopMax + 2 /\ escalated' \in BOOLEAN
           /\ reds' \in 0 .. RedCap /\ withheld' \in BOOLEAN
           /\ emptyLaps' \in 0 .. NoopMax + 2
           /\ redArms' \in 0 .. RedCap + LostMax + 1 /\ unmarked' \in 0 .. LostMax
           /\ live' \in EntryType /\ saved' \in EntryType
  <1>1. escalated' \in BOOLEAN /\ withheld' \in BOOLEAN BY Zenon DEF NewHead
  <1>2. QED BY <1>1, EntriesTyped, BoundsAssumption DEF NewHead

\* An empty lap counts at most to the cap of the counters.
LEMMA EmptyLapTyped ==
    ASSUME TypeOK, EmptyLap
    PROVE  laps' \in 0 .. NoopMax + 2 /\ emptyLaps' \in 0 .. NoopMax + 2
  BY BoundsAssumption DEF EmptyLap, TypeOK, IMin

\* Records of legs: a dispatch, a registration, a head that moved away.
LEMMA LegsTyped ==
    /\ Dispatched("pr") \in LegType /\ Dispatched("issue") \in LegType
    /\ \A f \in LegType : /\ [f EXCEPT !.st = "active"] \in LegType
                          /\ [f EXCEPT !.cur = FALSE] \in LegType
  BY DEF Dispatched, LegType

\* Placing and consuming the label, with or without its marker.
LEMMA LabelsTyped ==
    ASSUME TypeOK
    PROVE  /\ arms \in SUBSET {"pr", "issue"} /\ mark \in -1 .. Quiet
           /\ \A posted \in Posts : (IF posted THEN 0 ELSE mark) \in -1 .. Quiet
           /\ Consume => arms' \in SUBSET {"pr", "issue"} /\ mark' \in -1 .. Quiet
           /\ Place("pr") => arms' \in SUBSET {"pr", "issue"}
  <1>1. arms \in SUBSET {"pr", "issue"} /\ mark \in -1 .. Quiet BY DEF TypeOK
  <1>2. \A posted \in Posts : (IF posted THEN 0 ELSE mark) \in -1 .. Quiet
    BY <1>1, BoundsAssumption
  <1>3. Consume => arms' \in SUBSET {"pr", "issue"} /\ mark' \in -1 .. Quiet
    BY <1>1, <1>2 DEF Consume
  <1>4. Place("pr") => arms' \in SUBSET {"pr", "issue"} BY <1>1 DEF Place
  <1>5. QED BY <1>1, <1>2, <1>3, <1>4

LEMMA InitTyped == Init => TypeOK
  <1> SUFFICES ASSUME Init PROVE TypeOK OBVIOUS
  <1>1. /\ reviewed \in BOOLEAN /\ sticky \in BOOLEAN /\ blocked \in BOOLEAN
        /\ escalated \in BOOLEAN /\ withheld \in BOOLEAN /\ waited \in BOOLEAN
    BY Zenon DEF Init
  <1>2. QED BY <1>1, EntriesTyped, BoundsAssumption DEF Init, TypeOK, Phases, Never

LEMMA TickTyped == TypeOK /\ (Tick \/ TickDies) => TypeOK'
  <1> SUFFICES ASSUME TypeOK, Tick \/ TickDies PROVE TypeOK' OBVIOUS
  <1> USE BoundsAssumption DEF Phases, Goto, pr, head
  <1>0. live \in EntryType /\ saved \in EntryType /\ flight \in LegType \cup {None}
    BY DEF TypeOK
  <1>1. CASE StartTick
    <2>1. waited' \in BOOLEAN BY <1>1, Zenon DEF StartTick
    <2>2. live' \in EntryType BY <1>0, <1>1, EntriesTyped DEF StartTick
    <2>3. QED BY <1>1, <2>1, <2>2 DEF StartTick, TypeOK
  <1>2. CASE Reconcile
    <2>1. live' \in EntryType /\ saved' \in EntryType
      BY <1>0, <1>2, PublishTyped DEF Reconcile
    <2>2. QED BY <1>2, <2>1 DEF Reconcile, TypeOK
  <1>3. CASE RedGate
    <2>1. PICK gated \in BOOLEAN : ArmRework(gated, TRUE) BY <1>3 DEF RedGate
    <2>2. QED BY <1>3, <2>1, ArmTyped DEF RedGate, TypeOK
  <1>4. CASE SkipRedGate
    BY <1>0, <1>4, PublishTyped DEF SkipRedGate, SkipRule, TypeOK
  <1>5. CASE IssueDispatch
    <2>1. live' \in EntryType /\ saved' \in EntryType
      BY <1>0, <1>5, PublishTyped DEF IssueDispatch
    <2>2. flight' \in LegType \cup {None}
      BY <1>0, <1>5, LegsTyped DEF IssueDispatch
    <2>3. QED BY <1>5, <2>1, <2>2 DEF IssueDispatch, TypeOK
  <1>6. CASE LabelDispatch
    <2>1. live' \in EntryType /\ saved' \in EntryType
      BY <1>0, <1>6, PublishTyped DEF LabelDispatch
    <2>2. flight' \in LegType \cup {None}
      BY <1>0, <1>6, LegsTyped DEF LabelDispatch
    <2>3. arms' \in SUBSET {"pr", "issue"} /\ mark' \in -1 .. Quiet
      BY <1>6, LabelsTyped DEF LabelDispatch
    <2>4. QED BY <1>6, <2>1, <2>2, <2>3 DEF LabelDispatch, TypeOK
  <1>7. CASE NoBudget
    BY <1>0, <1>7, PublishTyped DEF NoBudget, SkipRule, TypeOK
  <1>8. CASE Restore
    <2>1. PICK known \in Rollups, runs \in Rollups, again \in Rollups, seen \in Rollups :
            LET e == IF known THEN Consulted(runs) ELSE live
                owned == (known /\ Latched(runs)) \/ (known /\ again /\ Flying)
            IN IF ~owned /\ MayArm(known \/ seen) /\ QuietLongEnough
               THEN RestoreOrWithhold(known, e)
               ELSE Publish(e) /\ UNCHANGED <<arms, mark, escalated>>
      BY <1>8 DEF Restore
    <2> DEFINE e == IF known THEN Consulted(runs) ELSE live
    <2>2. e \in EntryType BY <1>0, SnapshotsTyped
    <2>3. RestoreOrWithhold(known, e) \/ (Publish(e) /\ UNCHANGED <<arms, mark, escalated>>)
      BY <2>1
    <2> HIDE DEF e
    <2>4. live' \in EntryType /\ saved' \in EntryType
      BY <1>0, <2>2, <2>3, PublishTyped, EntriesTyped DEF RestoreOrWithhold
    <2>5. arms' \in SUBSET {"pr", "issue"} /\ mark' \in -1 .. Quiet
      BY <2>3, LabelsTyped DEF RestoreOrWithhold
    <2>6. escalated' \in BOOLEAN BY <2>3, Zenon DEF RestoreOrWithhold, TypeOK
    <2>7. QED BY <1>8, <2>4, <2>5, <2>6 DEF Restore, TypeOK
  <1>9. CASE SkipRestore
    BY <1>0, <1>9, PublishTyped DEF SkipRestore, SkipRule, TypeOK
  <1>10. CASE Threads
    BY <1>10, ArmTyped DEF Threads, TypeOK
  <1>11. CASE SkipThreads
    BY <1>0, <1>11, PublishTyped DEF SkipThreads, SkipRule, TypeOK
  <1>12. CASE EndTick
    BY <1>12, EntriesTyped DEF EndTick, TypeOK
  <1>13. CASE TickDies
    BY <1>13, EntriesTyped DEF TickDies, TypeOK
  <1>14. QED
    BY <1>1, <1>2, <1>3, <1>4, <1>5, <1>6, <1>7, <1>8, <1>9, <1>10, <1>11, <1>12, <1>13 DEF Tick
LEMMA LegTyped == TypeOK /\ Leg => TypeOK'
  <1> SUFFICES ASSUME TypeOK, Leg PROVE TypeOK' OBVIOUS
  <1> USE DEF pr, head, latch
  <1>0. /\ live \in EntryType /\ saved \in EntryType /\ flight \in LegType \cup {None}
        /\ reviewed \in BOOLEAN /\ arms \in SUBSET {"pr", "issue"}
        /\ \A moved : ReviewedAfter(moved) \in BOOLEAN
    BY DEF TypeOK, ReviewedAfter
  <1>1. CASE LegRegisters
    <2>1. flight' \in LegType BY <1>0, <1>1, LegsTyped DEF LegRegisters
    <2>2. QED BY <1>1, <2>1 DEF LegRegisters, TypeOK
  <1>2. CASE LegVanishes
    BY <1>2 DEF LegVanishes, TypeOK
  <1>3. CASE LegPushes
    <2>1. reviewed' \in BOOLEAN BY <1>0, <1>3, Zenon DEF LegPushes
    <2>2. threads' \in BOOLEAN BY <1>3, Zenon DEF LegPushes, TypeOK
    <2>3. QED BY <1>3, <2>1, <2>2, NewHeadTyped DEF LegPushes, TypeOK
  <1>4. CASE LegAuditResolves
    <2>1. reviewed' \in BOOLEAN BY <1>0, <1>4, Zenon DEF LegAuditResolves
    <2>2. threads' \in BOOLEAN BY <1>4, Zenon DEF LegAuditResolves
    <2>3. laps' \in 0 .. NoopMax + 2 /\ emptyLaps' \in 0 .. NoopMax + 2
      BY <1>4, BoundsAssumption DEF LegAuditResolves, TypeOK
    <2>4. Concludes("rework") /\ arms' = {} BY <1>4 DEF LegAuditResolves
    <2>5. QED BY <1>4, <2>1, <2>2, <2>3, <2>4, ConcludesTyped DEF LegAuditResolves, TypeOK
  <1>5. CASE LegFindsNothing
    <2>1. reviewed' \in BOOLEAN BY <1>0, <1>5, Zenon DEF LegFindsNothing
    <2>2. Concludes("rework") /\ EmptyLap /\ arms' = Rearmed BY <1>5 DEF LegFindsNothing
    <2>3. Rearmed \in SUBSET {"pr", "issue"} BY DEF Rearmed
    <2>4. QED
      BY <1>5, <2>1, <2>2, <2>3, ConcludesTyped, EmptyLapTyped DEF LegFindsNothing, TypeOK
  <1>6. CASE LegBlocked
    <2>1. Concludes("rework") /\ EmptyLap /\ blocked' = TRUE BY <1>6 DEF LegBlocked
    <2>2. blocked' \in BOOLEAN BY <2>1, Zenon
    <2>3. QED BY <1>6, <2>1, <2>2, ConcludesTyped, EmptyLapTyped DEF LegBlocked, TypeOK
  <1>7. CASE LegRejected
    <2>1. Concludes("rework") /\ EmptyLap BY <1>7 DEF LegRejected
    <2>2. QED BY <1>7, <2>1, ConcludesTyped, EmptyLapTyped DEF LegRejected, TypeOK
  <1>8. CASE LegFails
    <2>1. Concludes("rework") /\ arms' \in SUBSET {"pr", "issue"} BY <1>0, <1>8 DEF LegFails
    <2>2. QED BY <1>8, <2>1, ConcludesTyped DEF LegFails, TypeOK
  <1>9. CASE LegDies
    <2>1. Concludes("rework") \/ Concludes("review") BY <1>9 DEF LegDies
    <2>2. live' \in EntryType /\ saved' \in EntryType /\ flight' = None /\ UNCHANGED <<pc, waited, env>>
      BY <2>1, ConcludesTyped
    <2>3. QED BY <1>9, <2>2 DEF LegDies, TypeOK
  <1>10. CASE ReviewStarts
    <2>1. flight' \in LegType BY <1>10 DEF ReviewStarts, LegType
    <2>2. QED BY <1>10, <2>1 DEF ReviewStarts, TypeOK
  <1>11. CASE ReviewCloses
    <2>1. PICK v \in Verdicts :
            /\ verdict' = IF flight.cur THEN v ELSE verdict
            /\ threads' = (threads \/ v # "clean")
            /\ sticky' = (v # "changes")
            /\ arms' = IF v = "changes" THEN arms \cup {"issue"} ELSE arms
      BY <1>11 DEF ReviewCloses
    <2>2. Concludes("review") /\ reviewed' = TRUE BY <1>11 DEF ReviewCloses
    <2>3. verdict' \in Verdicts \cup {"none"} BY <2>1 DEF TypeOK
    <2>4. threads' \in BOOLEAN /\ sticky' \in BOOLEAN BY <2>1, Zenon DEF TypeOK
    <2>5. reviewed' \in BOOLEAN BY <2>2, Zenon
    <2>6. arms' \in SUBSET {"pr", "issue"} BY <1>0, <2>1
    <2>7. QED BY <1>11, <2>2, <2>3, <2>4, <2>5, <2>6, ConcludesTyped DEF ReviewCloses, TypeOK
  <1>12. QED
    BY <1>1, <1>2, <1>3, <1>4, <1>5, <1>6, <1>7, <1>8, <1>9, <1>10, <1>11 DEF Leg, LegEnds

LEMMA WorldTyped == TypeOK /\ World => TypeOK'
  <1> SUFFICES ASSUME TypeOK, World PROVE TypeOK' OBVIOUS
  <1> USE BoundsAssumption DEF pr, head, latch
  <1>0. /\ live \in EntryType /\ saved \in EntryType /\ flight \in LegType \cup {None}
        /\ arms \in SUBSET {"pr", "issue"}
    BY DEF TypeOK
  <1>1. CASE SilentUpdate
    BY <1>1, NewHeadTyped DEF SilentUpdate, TypeOK
  <1>2. CASE Checks
    <2>1. red' \in BOOLEAN BY <1>2, Zenon DEF Checks
    <2>2. QED BY <1>2, <2>1 DEF Checks, TypeOK
  <1>3. CASE PersonPushes
    <2>1. flight' \in LegType \cup {None} BY <1>0, <1>3, LegsTyped DEF PersonPushes
    <2>2. QED BY <1>3, <2>1, NewHeadTyped DEF PersonPushes, TypeOK
  <1>4. CASE PersonEdits
    <2>1. arms' \in SUBSET {"pr", "issue"} BY <1>0, <1>4 DEF PersonEdits
    <2>2. threads' \in BOOLEAN /\ blocked' \in BOOLEAN BY <1>4, Zenon DEF PersonEdits, TypeOK
    <2>3. QED BY <1>4, <2>1, <2>2 DEF PersonEdits, TypeOK
  <1>5. CASE Elapse
    <2>1. waited' \in BOOLEAN BY <1>5, Zenon DEF Elapse
    <2>2. saved' \in EntryType BY <1>0, <1>5, EntriesTyped DEF Elapse
    <2>3. mark' \in -1 .. Quiet BY <1>5 DEF Elapse, TypeOK, IMin, Never
    <2>4. QED BY <1>5, <2>1, <2>2, <2>3 DEF Elapse, TypeOK
  <1>6. QED BY <1>1, <1>2, <1>3, <1>4, <1>5 DEF World

\* The environment is the one the loop started in.
LEMMA EnvFixed == ASSUME [Next]_vars PROVE env' = env
  <1>1. CASE Tick \/ TickDies
    BY <1>1 DEF Tick, TickDies, StartTick, Reconcile, RedGate, SkipRedGate, IssueDispatch,
                LabelDispatch, NoBudget, Restore, SkipRestore, Threads, SkipThreads, EndTick,
                ArmRework, SkipRule
  <1>2. CASE Leg
    BY <1>2 DEF Leg, LegRegisters, LegVanishes, LegEnds, LegPushes, LegAuditResolves,
                LegFindsNothing, LegBlocked, LegRejected, LegFails, LegDies, ReviewStarts,
                ReviewCloses, Concludes
  <1>3. CASE World
    BY <1>3 DEF World, SilentUpdate, Checks, PersonPushes, PersonEdits, Elapse
  <1>4. QED BY <1>1, <1>2, <1>3 DEF Next, vars

\* Every step of the loop, of its legs and of the world keeps the types.
LEMMA StepTyped == TypeOK /\ [Next]_vars => TypeOK'
  <1> SUFFICES ASSUME TypeOK, [Next]_vars PROVE TypeOK' OBVIOUS
  <1>1. CASE Next BY <1>1, TickTyped, LegTyped, WorldTyped DEF Next
  <1>2. CASE UNCHANGED vars BY <1>2 DEF vars, pr, head, latch, TypeOK
  <1>3. QED BY <1>1, <1>2

\* The labels, markers, latch entries and legs of the rework loop keep their
\* types, and the red markers stay at the cap, under every fault
\* (smAgent.js:2023, arm_rework).
THEOREM TypeCorrect == Spec => []TypeOK
  BY InitTyped, StepTyped, PTL DEF Spec
-----------------------------------------------------------------------------
\* The red-head cap

\* Only the handler of the arming rules, and a head that moves, touch the red
\* markers and the count they stand for.
LEMMA RedFrame ==
    ASSUME [Next]_vars
    PROVE  \/ UNCHANGED <<reds, redArms, unmarked>>
           \/ reds' = 0 /\ redArms' = 0 /\ unmarked' = 0
           \/ \E gated, known \in BOOLEAN : ArmRework(gated, known)
  <1> USE DEF pr, head, latch
  <1>1. CASE Tick \/ TickDies
    <2>1. ASSUME SkipRule PROVE UNCHANGED <<reds, redArms, unmarked>> BY <2>1 DEF SkipRule
    <2>2. CASE RedGate BY <2>2 DEF RedGate
    <2>3. CASE Threads BY <2>3 DEF Threads
    <2>4. CASE StartTick \/ Reconcile \/ IssueDispatch \/ LabelDispatch
      BY <2>4 DEF StartTick, Reconcile, IssueDispatch, LabelDispatch
    <2>5. CASE SkipRedGate \/ NoBudget \/ SkipRestore \/ SkipThreads
      BY <2>1, <2>5 DEF SkipRedGate, NoBudget, SkipRestore, SkipThreads
    <2>6. CASE Restore \/ EndTick \/ TickDies BY <2>6 DEF Restore, EndTick, TickDies
    <2>7. QED BY <1>1, <2>2, <2>3, <2>4, <2>5, <2>6 DEF Tick
  <1>2. CASE Leg
    <2>1. CASE LegPushes BY <2>1 DEF LegPushes, NewHead
    <2>2. CASE LegEnds /\ ~LegPushes
      BY <2>2 DEF LegEnds, LegAuditResolves, LegFindsNothing, LegBlocked, LegRejected,
                  LegFails, LegDies, ReviewCloses
    <2>3. CASE LegRegisters \/ LegVanishes \/ ReviewStarts
      BY <2>3 DEF LegRegisters, LegVanishes, ReviewStarts
    <2>4. QED BY <1>2, <2>1, <2>2, <2>3 DEF Leg
  <1>3. CASE World
    <2>1. CASE SilentUpdate \/ PersonPushes
      BY <2>1 DEF SilentUpdate, PersonPushes, NewHead
    <2>2. CASE Checks \/ PersonEdits \/ Elapse BY <2>2 DEF Checks, PersonEdits, Elapse
    <2>3. QED BY <1>3, <2>1, <2>2 DEF World
  <1>4. CASE UNCHANGED vars BY <1>4 DEF vars
  <1>5. QED BY <1>1, <1>2, <1>3, <1>4 DEF Next

\* A red-gate arm asks the cap, then adds one to the arms and one to what it
\* leaves behind: the marker, or the loss of it.
LEMMA ArmCounts ==
    ASSUME RedInv, NEW gated \in BOOLEAN, NEW known \in BOOLEAN, ArmRework(gated, known)
    PROVE  redArms' = reds' + unmarked'
  <1> USE BoundsAssumption
  <1>1. PICK e :
          Withhold(e) \/ WithholdRed(e) \/ WithholdLaps(e)
          \/ (Arm(gated, known, e) /\ ~(gated /\ reds >= RedCap))
    BY DEF ArmRework
  <1>2. CASE Withhold(e) \/ WithholdRed(e) \/ WithholdLaps(e)
    BY <1>2 DEF Withhold, WithholdRed, WithholdLaps, RedInv
  <1>3. CASE Arm(gated, known, e) /\ ~(gated /\ reds >= RedCap)
    <2>1. PICK posted \in IF gated /\ unmarked = LostMax THEN {TRUE} ELSE Posts :
            reds' = (IF gated /\ posted THEN reds + 1 ELSE reds) /\ RedArm(gated, posted)
      BY <1>3 DEF Arm
    <2>2. reds \in 0 .. RedCap /\ unmarked \in 0 .. LostMax /\ redArms = reds + unmarked
      BY DEF RedInv, TypeOK
    <2>3. posted \in BOOLEAN BY <2>1, EntriesTyped
    <2>4. CASE ~gated BY <2>1, <2>2, <2>4 DEF RedArm
    <2>5. CASE gated /\ posted BY <1>3, <2>1, <2>2, <2>5 DEF RedArm, IMin
    <2>6. CASE gated /\ ~posted BY <1>3, <2>1, <2>2, <2>6 DEF RedArm, IMin
    <2>7. QED BY <2>3, <2>4, <2>5, <2>6
  <1>4. QED BY <1>1, <1>2, <1>3

LEMMA StepRed == RedInv /\ [Next]_vars => RedInv'
  <1> SUFFICES ASSUME RedInv, [Next]_vars PROVE RedInv' OBVIOUS
  <1>1. TypeOK' BY StepTyped DEF RedInv
  <1>2. redArms' = reds' + unmarked'
    <2>1. CASE UNCHANGED <<reds, redArms, unmarked>> BY <2>1 DEF RedInv
    <2>2. CASE \E gated, known \in BOOLEAN : ArmRework(gated, known) BY <2>2, ArmCounts
    <2>3. QED BY <2>1, <2>2, RedFrame
  <1>3. QED BY <1>1, <1>2 DEF RedInv

\* The red gate arms one head at most redHeadCap times however its legs end,
\* and once more for each marker that was lost (smAgent.js:2070, 'no infinite
\* retry').
THEOREM RedArmsHold == Spec => []RedArmsBounded
  <1>1. Init => RedInv BY InitTyped DEF Init, RedInv
  <1>2. RedInv => RedArmsBounded BY BoundsAssumption DEF RedInv, TypeOK, RedArmsBounded
  <1>3. QED BY <1>1, <1>2, StepRed, PTL DEF Spec

-----------------------------------------------------------------------------
\* The latch in the snapshot

\* A publication that reads the previous snapshot and lists the running leg
\* keeps the entry, whatever the tick did to its own.
LEMMA PublicationKeeps ==
    ASSUME ~LostSnapshots, ~ShortListing, saved # NoEntry, Flying
    PROVE  /\ \A e : Publish(e) => saved' # NoEntry
           /\ PassBy => saved' # NoEntry
  <1>1. Reads = {TRUE} /\ Listings = {TRUE} BY DEF Reads, Listings
  <1>2. ASSUME NEW e, NEW s \in Snapshots(e) PROVE s # NoEntry
    <2>1. s = Pruned(Carried(e, saved), TRUE) BY <1>1, <1>2 DEF Snapshots
    <2>2. Carried(e, saved) # NoEntry BY DEF Carried
    <2>3. Cause(Carried(e, saved), TRUE) = "in-flight" BY <2>2 DEF Cause
    <2>4. QED BY <2>1, <2>2, <2>3 DEF Pruned
  <1>3. QED BY <1>2 DEF Publish, PassBy

LEMMA OlderKept ==
    ASSUME NEW e \in EntryType, e # NoEntry PROVE Older(e) # NoEntry
  <1>1. Older(e) = [e EXCEPT !.age = IMin(@ + 1, Stale + 1)] BY DEF Older
  <1>2. Older(e).age = IMin(e.age + 1, Stale + 1) /\ e.age \in -1 .. Stale + 1
    BY <1>1 DEF EntryType
  <1>3. IMin(e.age + 1, Stale + 1) # -1 BY <1>2, BoundsAssumption DEF IMin
  <1>4. NoEntry.age = -1 BY DEF NoEntry
  <1>5. QED BY <1>2, <1>3, <1>4

LEMMA StepKeeps ==
    ASSUME ~LostSnapshots, ~ShortListing, TypeOK, [Next]_vars,
           saved # NoEntry, Flying, flight' = flight
    PROVE  saved' # NoEntry
  <1> USE DEF pr, head, latch
  <1>0. /\ flight \in LegType /\ flight # None /\ flight.cur /\ flight.st = "active"
        /\ saved \in EntryType
    BY DEF Flying, TypeOK
  <1>1. CASE Tick \/ TickDies
    <2>1. CASE StartTick \/ EndTick \/ TickDies BY <2>1 DEF StartTick, EndTick, TickDies
    <2>2. CASE RedGate \/ Threads
      <3>1. PICK gated, known : ArmRework(gated, known) BY <2>2 DEF RedGate, Threads
      <3>2. PICK e : Withhold(e) \/ WithholdRed(e) \/ WithholdLaps(e) \/ Arm(gated, known, e)
        BY <3>1 DEF ArmRework
      <3>3. \E f : Publish(f) BY <3>2 DEF Withhold, WithholdRed, WithholdLaps, Arm
      <3>4. QED BY <3>3, PublicationKeeps
    <2>3. CASE Restore
      <3>1. \E f : Publish(f) BY <2>3 DEF Restore, RestoreOrWithhold
      <3>2. QED BY <3>1, PublicationKeeps
    <2>4. CASE Reconcile \/ IssueDispatch \/ LabelDispatch
      BY <2>4, PublicationKeeps DEF Reconcile, IssueDispatch, LabelDispatch
    <2>5. CASE SkipRedGate \/ NoBudget \/ SkipRestore \/ SkipThreads
      BY <2>5, PublicationKeeps DEF SkipRedGate, NoBudget, SkipRestore, SkipThreads, SkipRule
    <2>6. QED BY <1>1, <2>1, <2>2, <2>3, <2>4, <2>5 DEF Tick
  <1>2. CASE Leg
    <2>1. CASE LegEnds
      <3>1. flight' = None
        BY <2>1 DEF LegEnds, LegPushes, LegAuditResolves, LegFindsNothing, LegBlocked,
                    LegRejected, LegFails, LegDies, ReviewCloses, Concludes
      <3>2. QED BY <1>0, <3>1
    <2>2. CASE LegRegisters \/ LegVanishes \/ ReviewStarts
      BY <1>0, <2>2 DEF LegRegisters, LegVanishes, ReviewStarts
    <2>3. QED BY <1>2, <2>1, <2>2 DEF Leg
  <1>3. CASE World
    <2>1. CASE SilentUpdate BY <1>0, <2>1 DEF SilentUpdate
    <2>2. CASE PersonPushes
      <3>1. flight' = [flight EXCEPT !.cur = FALSE] BY <1>0, <2>2 DEF PersonPushes
      <3>2. flight'.cur = FALSE BY <1>0, <3>1 DEF LegType
      <3>3. QED BY <1>0, <3>2
    <2>3. CASE Checks \/ PersonEdits BY <2>3 DEF Checks, PersonEdits
    <2>4. CASE Elapse BY <1>0, <2>4, OlderKept DEF Elapse
    <2>5. QED BY <1>3, <2>1, <2>2, <2>3, <2>4 DEF World
  <1>4. CASE UNCHANGED vars BY <1>4 DEF vars
  <1>5. QED BY <1>1, <1>2, <1>3, <1>4 DEF Next

\* The latch entry of a running leg is never dropped from the snapshot, past
\* the stale window included, when the publisher can read the previous
\* snapshot and its listing shows the leg (factoryState.js:937).
THEOREM LatchOutlives == Spec => LatchOutlivesStale
  <1>1. TypeOK /\ [Next]_vars
        => [~LostSnapshots /\ ~ShortListing /\ saved # NoEntry /\ Flying /\ flight' = flight
            => saved' # NoEntry]_vars
    BY StepKeeps
  <1>2. QED BY <1>1, TypeCorrect, PTL DEF Spec, LatchOutlivesStale
-----------------------------------------------------------------------------
\* The no-op lap guard

\* Placing the label under the guard, or not at all.
Guarded ==
    /\ UNCHANGED <<reviewed, verdict, flight, laps, emptyLaps>>
    /\ arms' = arms \/ ("pr" \notin arms /\ ~LapsExhausted /\ arms' = arms \cup {"pr"})

\* The budget as arithmetic.
LEMMA Budget ==
    /\ NoopMax \in Nat \ {0} /\ Owed \in 0 .. 2
    /\ Calm /\ LapInv => laps \in Nat /\ emptyLaps = laps /\ laps + Owed <= NoopMax + 1
  <1>1. NoopMax \in Nat \ {0} BY BoundsAssumption
  <1>2. Owed \in 0 .. 2 BY DEF Owed
  <1>3. LapInv => laps \in 0 .. NoopMax + 2 BY DEF LapInv, TypeOK
  <1>4. Calm /\ LapInv => emptyLaps = laps /\ laps + Owed <= NoopMax + 1 BY DEF LapInv, LapRest
  <1>5. QED BY <1>1, <1>2, <1>3, <1>4

\* A rule that knows the head asks the guard before it arms.
LEMMA ArmGuarded ==
    ASSUME NEW gated \in BOOLEAN, ArmRework(gated, TRUE) PROVE Guarded
  <1>1. PICK e :
          Withhold(e) \/ WithholdRed(e) \/ WithholdLaps(e)
          \/ (Arm(gated, TRUE, e) /\ ~LapsExhausted)
    BY DEF ArmRework
  <1>2. UNCHANGED <<reviewed, verdict, flight, emptyLaps>> /\ "pr" \notin arms
    BY DEF ArmRework, pr
  <1>3. CASE Withhold(e) \/ WithholdRed(e) \/ WithholdLaps(e)
    BY <1>2, <1>3 DEF Withhold, WithholdRed, WithholdLaps, Guarded
  <1>4. CASE Arm(gated, TRUE, e) /\ ~LapsExhausted
    BY <1>2, <1>4 DEF Arm, Place, Guarded
  <1>5. QED BY <1>1, <1>3, <1>4

\* So does the restore sweep.
LEMMA RestoreGuarded == ASSUME Calm, Restore PROVE Guarded
  <1>1. Rollups = {TRUE} BY DEF Calm, Rollups
  <1>2. PICK e : RestoreOrWithhold(TRUE, e) \/ UNCHANGED arms BY <1>1 DEF Restore
  <1>3. UNCHANGED <<reviewed, verdict, flight, laps, emptyLaps>> /\ "pr" \notin arms
    BY DEF Restore, pr
  <1>4. CASE RestoreOrWithhold(TRUE, e)
    BY <1>3, <1>4 DEF RestoreOrWithhold, Place, Guarded
  <1>5. QED BY <1>2, <1>3, <1>4 DEF Guarded

\* Placing under the guard spends a lap the budget still has.
LEMMA GuardedKeeps == ASSUME Calm, LapInv, Guarded PROVE LapRest'
  <1> USE BoundsAssumption
  <1>1. ~reviewed' /\ verdict' = "none" /\ "issue" \notin arms' /\ emptyLaps' = laps'
    BY DEF Guarded, LapInv, LapRest
  <1>2. flight' # None => flight'.kind = "rework" /\ flight'.anchor = "pr" /\ flight'.cur
    BY DEF Guarded, LapInv, LapRest
  <1>3. laps' + Owed' <= NoopMax + 1
    BY DEF Guarded, LapInv, LapRest, TypeOK, Owed, LapsExhausted
  <1>4. QED BY <1>1, <1>2, <1>3 DEF LapRest

\* A step that leaves the budget, its debtors and the review lane alone.
LEMMA QuietKeeps ==
    ASSUME Calm, LapInv, UNCHANGED <<reviewed, verdict, flight, laps, emptyLaps, arms>>
    PROVE  LapRest'
  BY GuardedKeeps DEF Guarded

LEMMA TickLaps == ASSUME Calm, LapInv, Tick \/ TickDies PROVE LapRest'
  <1> USE DEF pr, head
  <1>1. CASE RedGate BY <1>1, ArmGuarded, GuardedKeeps DEF RedGate
  <1>2. CASE Restore BY <1>2, RestoreGuarded, GuardedKeeps
  <1>3. CASE Threads BY <1>3 DEF Threads, LapInv, LapRest
  <1>4. CASE Reconcile
    BY <1>4, QuietKeeps DEF Reconcile, Strips, LapInv, LapRest
  <1>5. CASE StartTick \/ EndTick \/ TickDies
    BY <1>5, QuietKeeps DEF StartTick, EndTick, TickDies
  <1>6. CASE SkipRedGate \/ NoBudget \/ SkipRestore \/ SkipThreads
    BY <1>6, QuietKeeps DEF SkipRedGate, NoBudget, SkipRestore, SkipThreads, SkipRule
  <1>7. CASE IssueDispatch BY <1>7, QuietKeeps DEF IssueDispatch, LapInv, LapRest
  <1>8. CASE LabelDispatch
    <2>1. CASE "pr" \in arms /\ ~blocked /\ flight = None
      <3>1. flight' = Dispatched("pr") /\ arms' = arms \ {"pr"}
        BY <1>8, <2>1 DEF LabelDispatch, Consume
      <3>2. UNCHANGED <<reviewed, verdict, laps, emptyLaps>> BY <1>8 DEF LabelDispatch
      <3>3. flight' # None /\ flight'.kind = "rework" /\ flight'.anchor = "pr" /\ flight'.cur
        BY <3>1 DEF Dispatched, None
      <3>4. Owed = 1 /\ Owed' = 1 BY <2>1, <3>1, <3>3 DEF Owed
      <3>5. QED BY <3>1, <3>2, <3>3, <3>4 DEF LapInv, LapRest
    <2>2. CASE ~("pr" \in arms /\ ~blocked /\ flight = None)
      BY <1>8, <2>2, QuietKeeps DEF LabelDispatch, LapInv, LapRest
    <2>3. QED BY <2>1, <2>2
  <1>9. QED BY <1>1, <1>2, <1>3, <1>4, <1>5, <1>6, <1>7, <1>8 DEF Tick

\* A leg pays for the lap it was: an empty one is counted, and its debt goes.
LEMMA LegLaps == ASSUME Calm, LapInv, Leg PROVE LapRest'
  <1> USE BoundsAssumption DEF pr, head
  <1>0. Posts = {TRUE} /\ ~reviewed /\ verdict = "none" /\ "issue" \notin arms /\ emptyLaps = laps
    BY DEF Calm, Posts, LapInv, LapRest
  <1>1. CASE LegRegisters
    <2>1. flight # None /\ flight' = [flight EXCEPT !.st = "active"] /\ flight \in LegType
      BY <1>1 DEF LegRegisters, LapInv, TypeOK
    <2>2. flight' # None /\ flight'.kind = flight.kind /\ flight'.anchor = flight.anchor
          /\ flight'.cur = flight.cur
      BY <2>1 DEF LegType, None
    <2>3. UNCHANGED <<reviewed, verdict, laps, emptyLaps, arms>> BY <1>1 DEF LegRegisters
    <2>4. Owed' = Owed BY <2>1, <2>2, <2>3 DEF Owed
    <2>5. QED BY <2>1, <2>2, <2>3, <2>4 DEF LapInv, LapRest
  <1>2. CASE ReviewStarts BY <1>2 DEF ReviewStarts, Calm
  <1>3. CASE LegPushes
    <2>1. ~reviewed' BY <1>0, <1>3, Zenon DEF LegPushes, ReviewedAfter
    <2>2. laps' = 0 /\ emptyLaps' = 0 /\ verdict' = "none" /\ flight' = None /\ arms' = {}
      BY <1>3 DEF LegPushes, NewHead
    <2>3. Owed' = 0 BY <2>2 DEF Owed
    <2>4. QED BY <2>1, <2>2, <2>3 DEF LapRest
  <1>4. CASE LegVanishes \/ LegFails \/ LegDies
    <2>1. UNCHANGED <<reviewed, verdict, laps, emptyLaps>> /\ flight' = None
          /\ arms' \subseteq arms
      BY <1>4 DEF LegVanishes, LegFails, LegDies, Concludes
    <2>2. Owed' <= Owed BY <2>1 DEF Owed
    <2>3. Owed' \in 0 .. 2 BY DEF Owed
    <2>4. laps' + Owed' <= NoopMax + 1 BY <2>1, <2>2, <2>3, Budget
    <2>5. QED BY <1>0, <2>1, <2>4 DEF LapRest
  <1>5. CASE LegAuditResolves
    <2>1. ~reviewed' BY <1>0, <1>5, Zenon DEF LegAuditResolves, ReviewedAfter
    <2>2. flight # None /\ flight' = None /\ arms' = {} /\ verdict' = verdict
      BY <1>5 DEF LegAuditResolves, Concludes
    <2>3. flight.cur BY <2>2 DEF LapInv, LapRest
    <2>4. laps' = 0 /\ emptyLaps' = 0 BY <1>0, <1>5, <2>3 DEF LegAuditResolves
    <2>5. Owed' = 0 BY <2>2 DEF Owed
    <2>6. QED BY <1>0, <2>1, <2>2, <2>4, <2>5 DEF LapRest
  <1>6. CASE LegFindsNothing \/ LegBlocked \/ LegRejected
    <2>1. Concludes("rework") /\ EmptyLap /\ verdict' = verdict
          /\ arms' \subseteq arms
      BY <1>0, <1>6 DEF LegFindsNothing, LegBlocked, LegRejected, Rearmed
    <2>2. flight # None /\ flight' = None BY <2>1 DEF Concludes
    <2>3. flight.cur BY <2>2 DEF LapInv, LapRest
    <2>4. laps' = IMin(laps + 1, NoopMax + 2) /\ emptyLaps' = laps'
      BY <1>0, <2>1, <2>3 DEF EmptyLap
    <2>5. Owed' + 1 <= Owed BY <2>1, <2>2 DEF Owed
    <2>6. Owed' \in 0 .. 2 BY DEF Owed
    <2>7. laps' = laps + 1 BY <2>4, <2>5, <2>6, Budget DEF IMin
    <2>8. ~reviewed'
      BY <1>0, <1>6, Zenon DEF LegFindsNothing, LegBlocked, LegRejected, ReviewedAfter
    <2>9. laps' + Owed' <= NoopMax + 1
      <3>1. laps \in Nat /\ Owed \in 0 .. 2 /\ laps + Owed <= NoopMax + 1 BY Budget
      <3>2. PICK owed \in 0 .. 2 : owed = Owed' BY <2>6
      <3>3. owed + 1 <= Owed BY <2>5, <3>2
      <3>4. (laps + 1) + owed <= NoopMax + 1 BY <3>1, <3>3, Budget
      <3>5. QED BY <3>2, <3>4, <2>7
    <2>10. QED BY <1>0, <2>1, <2>2, <2>4, <2>8, <2>9 DEF LapRest
  <1>7. CASE ReviewCloses
    BY <1>7 DEF ReviewCloses, Concludes, LapInv, LapRest
  <1>8. QED
    BY <1>1, <1>2, <1>3, <1>4, <1>5, <1>6, <1>7 DEF Leg, LegEnds

LEMMA WorldLaps == ASSUME Calm, LapInv, World PROVE LapRest'
  <1> USE BoundsAssumption DEF pr, head
  <1>1. CASE SilentUpdate
    <2>1. flight = None /\ flight' = None BY <1>1 DEF SilentUpdate, LapInv, LapRest
    <2>2. laps' = 0 /\ emptyLaps' = 0 /\ verdict' = "none" /\ UNCHANGED <<reviewed, arms>>
      BY <1>1 DEF SilentUpdate, NewHead
    <2>3. Owed' \in 0 .. 1 BY <2>1 DEF Owed
    <2>4. laps' + Owed' <= NoopMax + 1
      <3>1. PICK owed \in 0 .. 1 : owed = Owed' BY <2>3
      <3>2. 0 + owed <= NoopMax + 1 BY Budget
      <3>3. QED BY <3>1, <3>2, <2>2
    <2>5. QED BY <2>1, <2>2, <2>4 DEF LapInv, LapRest
  <1>2. CASE PersonPushes \/ PersonEdits BY <1>2 DEF PersonPushes, PersonEdits, Calm
  <1>3. CASE Checks \/ Elapse BY <1>3, QuietKeeps DEF Checks, Elapse
  <1>4. QED BY <1>1, <1>2, <1>3 DEF World

LEMMA StepLaps == LapInv /\ [Next]_vars => LapInv'
  <1> SUFFICES ASSUME LapInv, [Next]_vars PROVE LapInv' OBVIOUS
  <1>1. TypeOK' BY StepTyped DEF LapInv
  <1>2. Calm' = Calm
    BY EnvFixed DEF Calm, LostComments, FailedProbes, Reviews, People
  <1>3. ASSUME Calm PROVE LapRest'
    <2>1. CASE UNCHANGED vars BY <1>3, <2>1, QuietKeeps DEF vars, pr, head
    <2>2. QED BY <1>3, <2>1, TickLaps, LegLaps, WorldLaps DEF Next
  <1>4. QED BY <1>1, <1>2, <1>3 DEF LapInv

LEMMA InitLaps == Init => LapInv
  <1> SUFFICES ASSUME Init PROVE LapInv OBVIOUS
  <1>1. TypeOK BY InitTyped
  <1>2. Owed = 0 BY DEF Init, Owed
  <1>3. QED BY <1>1, <1>2, BoundsAssumption DEF Init, LapInv, LapRest

\* While no comment is lost, every head is known and the review lane idle, at
\* most one leg more than noopLapMax runs empty on a head: the one in flight
\* when the budget ran out (reworkLoopGuard.js, 'the machine stops re-arming
\* agent:rework here').
THEOREM LapsOverrunHolds == Spec => []LapsOverrun
  <1>1. LapInv => LapsOverrun BY Budget DEF LapsOverrun
  <1>2. LapInv /\ [Next]_vars => LapInv' BY StepLaps
  <1>3. QED BY <1>1, <1>2, InitLaps, PTL DEF Spec
=============================================================================
