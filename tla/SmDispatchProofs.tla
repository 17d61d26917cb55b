-------------------------- MODULE SmDispatchProofs --------------------------
(* Theorems of SmDispatch, for every rule list, cap and reservation.  The   *)
(* induction is over the steps of a tick; each invariant is strengthened by *)
(* what the budget and the query of the running rule already guarantee.     *)
EXTENDS SmDispatch, FiniteSetTheorems, WellFoundedInduction, TLAPS

-----------------------------------------------------------------------------
\* Arithmetic and typing of the operators the tick is built from

\* IMin and IMax stay within the integers and bound their arguments.
LEMMA MinMax ==
    ASSUME NEW a \in Int, NEW b \in Int
    PROVE  /\ IMin(a, b) \in Int /\ IMin(a, b) <= a /\ IMin(a, b) <= b
           /\ IMax(a, b) \in Int /\ IMax(a, b) >= a /\ IMax(a, b) >= b
           /\ IMin(a, b) \in {a, b} /\ IMax(a, b) \in {a, b}
    BY DEF IMin, IMax

\* Every rule of the list is a rule.
LEMMA RuleTyped ==
    ASSUME NEW n \in 1 .. Len(Rules) PROVE Rules[n] \in RuleType
    BY RulesAssumption

\* A listing returns runs, and no more than there are.
LEMMA ViewFinite ==
    ASSUME NEW view \in Views
    PROVE  view \subseteq Blocking /\ view \subseteq RunIds /\ IsFiniteSet(view)
           /\ Cardinality(view) \in Nat
  <1>1. view \subseteq Blocking BY DEF Views
  <1>2. view \subseteq RunIds BY <1>1 DEF Blocking
  <1>3. IsFiniteSet(view) BY <1>2, RunIdsAssumption, FS_Subset
  <1>4. QED BY <1>1, <1>2, <1>3, FS_CardinalityType

\* Charging the active runs never raises the budget, nor takes it below zero.
LEMMA ChargedBounds ==
    ASSUME NEW view \in Views, remaining \in 0 .. Cap
    PROVE  Charged(view) \in 0 .. remaining
  <1>1. Cardinality(view) \in Nat BY ViewFinite
  <1>2. Cap \in Nat BY CapAssumption
  <1>3. QED BY <1>1, <1>2 DEF Charged, IMax

\* Changing the status of a run, or letting it age, leaves a run.
LEMMA RunUpdate ==
    ASSUME NEW r \in RunType
    PROVE  /\ \A st \in {"queued", "running", "closing"} :
                 LET q == [r EXCEPT !.st = st]
                 IN  q \in RunType /\ q.st = st /\ q.key = r.key /\ q.branch = r.branch
                     /\ q.tkt = r.tkt /\ q.rule = r.rule /\ q.aged = r.aged
           /\ LET q == [r EXCEPT !.aged = TRUE]
              IN  q \in RunType /\ q.st = r.st /\ q.key = r.key /\ q.branch = r.branch
                  /\ q.tkt = r.tkt /\ q.rule = r.rule /\ q.aged
    BY DEF RunType

\* A set of numbers that is not empty has a smallest element.
LEMMA SmallestIndex ==
    ASSUME NEW S \in SUBSET Nat, S # {}
    PROVE  \E n \in S : \A m \in S : n <= m
  <1>1. PICK n \in S : \A m \in S : <<m, n>> \notin OpToRel(<, Nat)
    BY NatLessThanWellFounded, WFMin, Zenon
  <1>2. \A m \in S : ~(m < n) BY <1>1 DEF OpToRel
  <1>3. QED BY <1>2

-----------------------------------------------------------------------------
\* Type correctness

\* The type invariant needs two facts about where the tick stands: a slot is
\* still there to pay for the run just dispatched, and only a rule with a
\* target status moves one.
Typed ==
    /\ TypeOK
    /\ pc = "mark" => remaining > 0
    /\ pc = "move" => R.target \in Stages

LEMMA InitTyped == Init => Typed
  <1> SUFFICES ASSUME Init PROVE Typed OBVIOUS
  <1> USE CapAssumption, NothingAssumption, RulesAssumption
  <1>1. Len(Rules) \in Nat OBVIOUS
  <1>2. run \in [RunIds -> RunType] BY <1>1 DEF Init, FreeRun, RunType
  <1>3. ~(\E i \in RunIds : Live(i)) BY DEF Init, FreeRun, Live
  <1>4. labels \in [Tickets -> SUBSET Labels] /\ snap = labels BY DEF Init
  <1>5. rule \in Nat \ {0} /\ (Len(Rules) > 0 => rule \in 1 .. Len(Rules)) BY <1>1 DEF Init
  <1>6. /\ stage \in [Tickets -> Stages] /\ pc = "idle" /\ todo \in SUBSET Tickets
        /\ tkt = NoTicket /\ processed \in Nat /\ limit \in Nat /\ remaining \in 0 .. Cap
        /\ spent = "none"
    BY DEF Init
  <1>11. counted \in BOOLEAN /\ released \in BOOLEAN BY Zenon DEF Init
  <1>7. snap \in [Tickets -> SUBSET Labels] BY <1>4
  <1>8. \A i \in RunIds : Live(i) => run[i].rule # 0 /\ run[i].tkt \in Tickets BY <1>3
  <1>. HIDE CapAssumption, NothingAssumption, RulesAssumption
  <1>10. TypeOK BY <1>2, <1>4, <1>5, <1>6, <1>7, <1>8, <1>11 DEF TypeOK
  <1>9. QED BY <1>6, <1>10 DEF Typed

\* A run that changes status only keeps the rest of its record.
LEMMA BecomesTyped ==
    ASSUME TypeOK, NEW i \in RunIds, NEW st \in {"queued", "running", "closing"},
           Live(i), Becomes(i, st)
    PROVE  /\ run' \in [RunIds -> RunType]
           /\ \A j \in RunIds : /\ Live(j)' <=> Live(j)
                                /\ run'[j].st = IF j = i THEN st ELSE run[j].st
                                /\ run'[j].key = run[j].key /\ run'[j].branch = run[j].branch
                                /\ run'[j].tkt = run[j].tkt /\ run'[j].rule = run[j].rule
                                /\ run'[j].aged = run[j].aged
           /\ \A j \in RunIds : Live(j)' => run'[j].rule # 0 /\ run'[j].tkt \in Tickets
  <1>1. run' = [run EXCEPT ![i] = [run[i] EXCEPT !.st = st]] BY DEF Becomes
  <1>2. run' \in [RunIds -> RunType] BY <1>1, RunUpdate DEF TypeOK
  <1>3. \A j \in RunIds : /\ run'[j].st = IF j = i THEN st ELSE run[j].st
                          /\ run'[j].key = run[j].key /\ run'[j].branch = run[j].branch
                          /\ run'[j].tkt = run[j].tkt /\ run'[j].rule = run[j].rule
                          /\ run'[j].aged = run[j].aged
    BY <1>1, RunUpdate DEF TypeOK
  <1>4. \A j \in RunIds : Live(j)' <=> Live(j) BY <1>3 DEF Live
  <1>5. QED BY <1>2, <1>3, <1>4 DEF TypeOK

LEMMA StepTyped == Typed /\ [Next]_vars => Typed'
  <1> SUFFICES ASSUME Typed, [Next]_vars PROVE Typed' OBVIOUS
  <1> USE CapAssumption, RulesAssumption, NothingAssumption
  <1>len. Len(Rules) \in Nat /\ (Len(Rules) > 0 => R \in RuleType)
    BY RuleTyped DEF Typed, TypeOK, R
  <1>1. CASE StartTick
    <2>1. remaining' \in 0 .. Cap BY <1>1 DEF StartTick, IMax
    <2>2. rule' \in Nat \ {0} /\ rule' \in 1 .. Len(Rules) /\ Len(Rules) > 0
      BY <1>1, <1>len DEF StartTick
    <2>3. pc' = "rule" /\ counted' = FALSE /\ released' = FALSE /\ spent' = "none"
          /\ UNCHANGED <<tracker, run, loop>>
      BY <1>1 DEF StartTick
    <2>4. QED BY <2>1, <2>2, <2>3 DEF Typed, TypeOK, tracker, loop, Live
  <1>2. CASE QueryRule
    <2>1. todo' \in SUBSET Tickets
      BY <1>2, <1>len DEF QueryRule, Matching, Typed, TypeOK, RuleType
    <2>2. limit' \in Nat
      BY <1>2, <1>len, MinMax DEF QueryRule, Typed, TypeOK, RuleType, Spendable, SpendableOf, IMin, IMax
    <2>3. QED BY <1>2, <2>1, <2>2, <1>len DEF QueryRule, Typed, TypeOK, tracker, budget, Live
  <1>3. CASE LeaveRule
    <2>1. remaining' \in 0 .. Cap
      BY <1>3 DEF LeaveRule, Typed, TypeOK, IMin
    <2>2. QED BY <1>3, <2>1, <1>len DEF LeaveRule, Typed, TypeOK, tracker, Live
  <1>4. CASE \E t \in Tickets : SkipTicket(t)
    BY <1>4 DEF SkipTicket, Typed, TypeOK, tracker, budget, Live
  <1>5. CASE \E t \in Tickets : TakeTicket(t)
    <2> PICK t \in Tickets : TakeTicket(t) BY <1>5
    <2>1. labels' \in [Tickets -> SUBSET Labels] BY DEF TakeTicket, Typed, TypeOK
    <2>2. pc' = "move" => R.target \in Stages
      BY <1>len DEF TakeTicket, Typed, TypeOK, RuleType
    <2>3. QED BY <2>1, <2>2 DEF TakeTicket, Typed, TypeOK, budget, Live, R
  <1>6. CASE MoveStatus
    <2>1. remaining' \in 0 .. Cap /\ counted' \in BOOLEAN
      <3>1. CASE R.kind # "dispatch" BY <1>6, <3>1 DEF MoveStatus, Typed, TypeOK
      <3>2. CASE R.kind = "dispatch"
        <4> PICK view \in Views : remaining' = Charged(view) /\ counted' = TRUE
          BY <1>6, <3>2 DEF MoveStatus
        <4>1. Charged(view) \in 0 .. remaining BY ChargedBounds DEF Typed, TypeOK
        <4>2. QED BY <4>1 DEF Typed, TypeOK
      <3>3. QED BY <3>1, <3>2
    <2>2. stage' \in [Tickets -> Stages] BY <1>6 DEF MoveStatus, Typed, TypeOK
    <2>3. QED BY <1>6, <2>1, <2>2 DEF MoveStatus, Typed, TypeOK, loop, Live
  <1>7. CASE MoveRefused
    <2>1. remaining' \in 0 .. Cap BY <1>7, ChargedBounds DEF MoveRefused, Typed, TypeOK
    <2>2. QED BY <1>7, <2>1 DEF MoveRefused, Typed, TypeOK, tracker, Live
  <1>8. CASE \E i \in RunIds : Trigger(i)
    <2> PICK i \in RunIds : Trigger(i) BY <1>8
    <2>1. remaining' \in 0 .. Cap /\ remaining' > 0
      BY ChargedBounds DEF Trigger, Typed, TypeOK
    <2>2. tkt \in Tickets /\ Len(Rules) > 0 /\ rule \in 1 .. Len(Rules)
      BY DEF Trigger, Typed, TypeOK
    <2>3. run' \in [RunIds -> RunType]
      BY <1>len, <2>2 DEF Trigger, Typed, TypeOK, RunType, RuleType
    <2>4. \A j \in RunIds : Live(j)' => run'[j].rule # 0 /\ run'[j].tkt \in Tickets
      BY <2>2, <1>len DEF Trigger, Typed, TypeOK, Live
    <2>5. QED BY <2>1, <2>2, <2>3, <2>4 DEF Trigger, Typed, TypeOK, tracker, loop
  <1>9. CASE NoTrigger
    <2>1. remaining' \in 0 .. Cap BY <1>9, ChargedBounds DEF NoTrigger, Typed, TypeOK
    <2>2. labels' \in [Tickets -> SUBSET Labels] BY <1>9 DEF NoTrigger, Typed, TypeOK
    <2>3. QED BY <1>9, <2>1, <2>2 DEF NoTrigger, Typed, TypeOK, loop, Live
  <1>10. CASE MarkTriggered
    <2>1. remaining' \in 0 .. Cap BY <1>10 DEF MarkTriggered, SlotTaken, Typed, TypeOK
    <2>2. labels' \in [Tickets -> SUBSET Labels]
      BY <1>10, <1>len DEF MarkTriggered, Typed, TypeOK, RuleType
    <2>3. QED BY <1>10, <2>1, <2>2 DEF MarkTriggered, Typed, TypeOK, Live
  <1>11. CASE RunLocally
    <2>0. tkt \in Tickets /\ Len(Rules) > 0 BY <1>11 DEF RunLocally, Typed, TypeOK
    <2>f. R.outcomes \subseteq Stages /\ R.add \subseteq Labels /\ R.release \subseteq Labels
      BY <1>len, <2>0 DEF RuleType
    <2>1. stage' \in [Tickets -> Stages] /\ labels' \in [Tickets -> SUBSET Labels] /\ processed' \in Nat
      <3>1. CASE UNCHANGED <<tracker, processed>> BY <3>1 DEF Typed, TypeOK, tracker
      <3>2. CASE ~UNCHANGED <<tracker, processed>>
        <4> PICK s \in R.outcomes \cup {stage[tkt]}, new \in SUBSET R.add, gone \in {{}, R.release} :
              /\ stage' = [stage EXCEPT ![tkt] = s]
              /\ labels' = [labels EXCEPT ![tkt] = (@ \ gone) \cup new]
              /\ processed' = processed + 1
          BY <1>11, <3>2 DEF RunLocally
        <4>1. s \in Stages BY <2>f, <2>0 DEF Typed, TypeOK
        <4>2. new \subseteq Labels BY <2>f
        <4>3. QED BY <4>1, <4>2, <2>0 DEF Typed, TypeOK
      <3>3. QED BY <3>1, <3>2
    <2>2. spent' \in {"none", "dispatched", "merged"} BY <1>11 DEF RunLocally, Typed, TypeOK
    <2>3. QED BY <1>11, <2>1, <2>2 DEF RunLocally, Typed, TypeOK, Live
  <1>12. CASE TickDies
    BY <1>12, <1>len DEF TickDies, Typed, TypeOK, tracker, budget, Live
  <1>13. CASE \E i \in RunIds : Register(i) \/ Start(i)
    <2> PICK i \in RunIds : Register(i) \/ Start(i) BY <1>13
    <2>1. PICK st \in {"queued", "running"} : Live(i) /\ Becomes(i, st)
      BY DEF Register, Start, Live
    <2>2. run' \in [RunIds -> RunType]
          /\ \A j \in RunIds : Live(j)' => run'[j].rule # 0 /\ run'[j].tkt \in Tickets
      BY <2>1, BecomesTyped DEF Typed
    <2>4. UNCHANGED <<tracker, pc, rule, loop, budget>> BY DEF Register, Start
    <2>5. QED BY <2>2, <2>4 DEF Typed, TypeOK, tracker, loop, budget, R
  <1>14. CASE \E i \in RunIds : Age(i)
    <2> PICK i \in RunIds : Age(i) BY <1>14
    <2>1. run' = [run EXCEPT ![i] = [run[i] EXCEPT !.aged = TRUE]] BY DEF Age
    <2>2. run' \in [RunIds -> RunType] BY <2>1, RunUpdate DEF Typed, TypeOK
    <2>3. \A j \in RunIds : Live(j)' => run'[j].rule # 0 /\ run'[j].tkt \in Tickets
      BY <2>1, RunUpdate DEF Typed, TypeOK, Live
    <2>5. QED BY <2>2, <2>3 DEF Age, Typed, TypeOK, tracker, loop, budget, R
  <1>15. CASE \E i \in RunIds : PostAction(i)
    <2> PICK i \in RunIds : PostAction(i) BY <1>15
    <2>0. run[i] \in RunType /\ Live(i) BY DEF PostAction, Typed, TypeOK, Live
    <2>1. run[i].tkt \in Tickets /\ Rules[run[i].rule] \in RuleType
      BY <2>0, <1>len, RuleTyped DEF Typed, TypeOK, RunType
    <2>2. run' \in [RunIds -> RunType]
          /\ \A j \in RunIds : Live(j)' => run'[j].rule # 0 /\ run'[j].tkt \in Tickets
      BY <2>0, BecomesTyped DEF PostAction, Typed
    <2>f. Rules[run[i].rule].outcomes \subseteq Stages BY <2>1 DEF RuleType
    <2>3. stage' \in [Tickets -> Stages]
      <3> PICK s \in Rules[run[i].rule].outcomes \cup {stage[run[i].tkt]} :
            stage' = [stage EXCEPT ![run[i].tkt] = s]
        BY DEF PostAction
      <3>1. s \in Stages BY <2>1, <2>f DEF Typed, TypeOK
      <3>2. QED BY <3>1 DEF Typed, TypeOK
    <2>4. labels' \in [Tickets -> SUBSET Labels]
      BY <2>1 DEF PostAction, Typed, TypeOK
    <2>5. QED BY <2>2, <2>3, <2>4 DEF PostAction, Typed, TypeOK, loop, budget, R
  <1>16. CASE \E i \in RunIds : EndRun(i)
    <2> PICK i \in RunIds : EndRun(i) BY <1>16
    <2>2. run' \in [RunIds -> RunType] BY <1>len DEF EndRun, FreeRun, Typed, TypeOK, RunType
    <2>3. \A j \in RunIds : Live(j)' => run'[j].rule # 0 /\ run'[j].tkt \in Tickets
      BY DEF EndRun, FreeRun, Typed, TypeOK, Live
    <2>5. QED BY <2>2, <2>3 DEF EndRun, Typed, TypeOK, tracker, loop, budget, R
  <1>17. CASE People
    <2> PICK t \in Tickets, l \in HumanLabels : Request(t, l) BY <1>17 DEF People
    <2>1. labels' \in [Tickets -> SUBSET Labels] BY LabelAssumption DEF Request, Typed, TypeOK
    <2>2. QED BY <2>1 DEF Request, Typed, TypeOK, loop, budget, R, Live
  <1>18. CASE UNCHANGED vars
    BY <1>18 DEF vars, tracker, loop, budget, Typed, TypeOK, R, Live
  <1>19. QED
    BY <1>1, <1>2, <1>3, <1>4, <1>5, <1>6, <1>7, <1>8, <1>9, <1>10, <1>11, <1>12, <1>13,
       <1>14, <1>15, <1>16, <1>17, <1>18 DEF Next, Tick, Runner

LEMMA AlwaysTyped == Spec => []Typed
  <1>1. QED BY InitTyped, StepTyped, PTL DEF Spec

\* Every variable keeps its type through every tick, crash and relabelling;
\* in particular the budget stays between zero and the cap.
THEOREM TypeCorrect == Spec => []TypeOK
  <1>1. Typed => TypeOK BY DEF Typed
  <1>2. QED BY <1>1, AlwaysTyped, PTL

-----------------------------------------------------------------------------
\* How the set of runs changes

\* GitHub touches one live run at a time, never its identity, and brings none
\* back; the tick does not notice.
LEMMA RunnerStep ==
    ASSUME TypeOK, Runner
    PROVE  /\ UNCHANGED <<pc, rule, loop, budget>>
           /\ \E i \in RunIds :
                /\ Live(i)
                /\ \A j \in RunIds \ {i} : run'[j] = run[j]
                /\ run'[i].st # "requested"
                /\ Live(i)' => /\ run'[i].key = run[i].key /\ run'[i].branch = run[i].branch
                               /\ run'[i].tkt = run[i].tkt /\ run'[i].rule = run[i].rule
                               /\ (run[i].aged => run'[i].aged)
  <1>1. CASE \E i \in RunIds : Register(i) \/ Start(i) \/ PostAction(i)
    <2> PICK i \in RunIds : Register(i) \/ Start(i) \/ PostAction(i) BY <1>1
    <2>1. PICK st \in {"queued", "running", "closing"} : Live(i) /\ Becomes(i, st)
      BY DEF Register, Start, PostAction, Live
    <2>2. \A j \in RunIds \ {i} : run'[j] = run[j] BY <2>1 DEF Becomes, TypeOK
    <2>3. UNCHANGED <<pc, rule, loop, budget>> BY DEF Register, Start, PostAction
    <2>4. QED BY <2>1, <2>2, <2>3, BecomesTyped
  <1>2. CASE \E i \in RunIds : Age(i)
    <2> PICK i \in RunIds : Age(i) BY <1>2
    <2>1. run' = [run EXCEPT ![i] = [run[i] EXCEPT !.aged = TRUE]] /\ Live(i)
          /\ run[i].st = "queued"
      BY DEF Age, Live
    <2>2. run[i] \in RunType BY DEF TypeOK
    <2>3. \A j \in RunIds \ {i} : run'[j] = run[j] BY <2>1 DEF TypeOK
    <2>4. /\ run'[i].st = "queued"
          /\ run'[i].key = run[i].key /\ run'[i].branch = run[i].branch
          /\ run'[i].tkt = run[i].tkt /\ run'[i].rule = run[i].rule /\ run'[i].aged
      BY <2>1, <2>2, RunUpdate DEF TypeOK
    <2>5. QED BY <2>1, <2>3, <2>4 DEF Age
  <1>3. CASE \E i \in RunIds : EndRun(i)
    <2> PICK i \in RunIds : EndRun(i) BY <1>3
    <2>1. run' = [run EXCEPT ![i] = FreeRun] /\ Live(i) BY DEF EndRun, Live
    <2>2. run'[i] = FreeRun /\ \A j \in RunIds \ {i} : run'[j] = run[j] BY <2>1 DEF TypeOK
    <2>3. run'[i].st = "free" /\ ~Live(i)' BY <2>2 DEF FreeRun, Live
    <2>4. QED BY <2>1, <2>2, <2>3 DEF EndRun
  <1>4. QED BY <1>1, <1>2, <1>3 DEF Runner

\* Hence nothing joins the runs in flight but a dispatch.
LEMMA RunnerShrinks ==
    ASSUME TypeOK, Runner
    PROVE  /\ Requested' \subseteq Requested /\ InFlight' \subseteq InFlight
           /\ \A j \in InFlight' : run'[j].key = run[j].key /\ run'[j].branch = run[j].branch
           /\ \A j \in Requested' : run'[j] = run[j]
           /\ \E i \in RunIds : InFlight \ {i} \subseteq InFlight'
  <1> PICK i \in RunIds :
        /\ Live(i) /\ run'[i].st # "requested"
        /\ \A j \in RunIds \ {i} : run'[j] = run[j]
        /\ Live(i)' => /\ run'[i].key = run[i].key /\ run'[i].branch = run[i].branch
                       /\ (run[i].aged => run'[i].aged)
    BY RunnerStep
  <1>1. \A j \in RunIds \ {i} : Live(j)' <=> Live(j) BY DEF Live
  <1>2. QED BY <1>1 DEF Requested, InFlight

\* A dispatch puts one new run in flight, under the key of the ticket in hand.
LEMMA TriggerStep ==
    ASSUME TypeOK, NEW i \in RunIds, Trigger(i)
    PROVE  /\ i \notin InFlight /\ i \notin Requested
           /\ InFlight' = InFlight \cup {i}
           /\ Requested' \subseteq Requested \cup {i}
           /\ \A j \in RunIds \ {i} : run'[j] = run[j]
           /\ run'[i].key = R.key[tkt] /\ run'[i].branch = R.branch[tkt]
           /\ run'[i].tkt = tkt /\ run'[i].rule = rule
  <1>1. \A j \in RunIds \ {i} : run'[j] = run[j] BY DEF Trigger, TypeOK
  <1>2. run'[i] = [st |-> IF ListingLag THEN "requested" ELSE "queued",
                   key |-> R.key[tkt], branch |-> R.branch[tkt], tkt |-> tkt,
                   rule |-> rule, aged |-> FALSE]
    BY DEF Trigger, TypeOK
  <1>3. ~Live(i) BY DEF Trigger
  <1>4. run'[i].st # "free" /\ run'[i].aged = FALSE BY <1>2
  <1>5. \A j \in RunIds \ {i} : Live(j)' <=> Live(j) BY <1>1 DEF Live
  <1>6. QED BY <1>1, <1>2, <1>3, <1>4, <1>5 DEF InFlight, Requested, Live

\* Nothing else touches the runs.
LEMMA StepRuns ==
    ASSUME [Next]_vars PROVE (\E i \in RunIds : Trigger(i)) \/ Runner \/ UNCHANGED run
  BY DEF Next, Tick, StartTick, QueryRule, LeaveRule, SkipTicket, TakeTicket, MoveStatus,
         MoveRefused, NoTrigger, MarkTriggered, RunLocally, TickDies, People, Request, vars,
         tracker

\* The runs in flight that the listing does not show are the requested ones.
LEMMA Unlisted ==
    ASSUME TypeOK PROVE InFlight \ Requested \subseteq Blocking
  BY DEF TypeOK, RunType, InFlight, Requested, Blocking, Live

LEMMA RunSetsFinite ==
    /\ IsFiniteSet(InFlight) /\ Cardinality(InFlight) \in Nat
    /\ IsFiniteSet(Requested) /\ Cardinality(Requested) \in Nat
  <1>1. InFlight \subseteq RunIds /\ Requested \subseteq RunIds BY DEF InFlight, Requested
  <1>2. IsFiniteSet(InFlight) /\ IsFiniteSet(Requested) BY <1>1, RunIdsAssumption, FS_Subset
  <1>3. QED BY <1>2, FS_CardinalityType

-----------------------------------------------------------------------------
\* One tick stays within the cap, whatever the listing calls return

Ceiling == IF released THEN Cap ELSE IMax(0, Cap - Reserved)

Debt == IF pc = "mark" THEN 1 ELSE 0

\* What the tick has dispatched and what it may still spend add up to the
\* ceiling that the merge reservation leaves; between a dispatch and its
\* charge one slot is counted twice.
TickInv ==
    /\ pc # "idle" => Cardinality(Requested) + remaining <= Ceiling + Debt
    /\ TickWithinCap

LEMMA InitTick == Init => TickInv
  <1> SUFFICES ASSUME Init PROVE TickInv OBVIOUS
  <1>1. Requested = {} BY DEF Init, Requested, FreeRun
  <1>2. Cardinality(Requested) = 0 BY <1>1, FS_EmptySet
  <1>3. QED BY <1>2, CapAssumption DEF Init, TickInv, TickWithinCap, Requested

LEMMA StepTick == Typed /\ TickInv /\ [Next]_vars => TickInv'
  <1> SUFFICES ASSUME Typed, TickInv, [Next]_vars PROVE TickInv' OBVIOUS
  <1>t. TypeOK /\ remaining \in 0 .. Cap /\ (pc = "mark" => remaining > 0)
    BY DEF Typed, TypeOK
  <1>c. Cap \in Nat /\ Reserved \in Nat /\ Ceiling \in 0 .. Cap
    BY CapAssumption DEF Ceiling, IMax
  <1>n. Cardinality(Requested) \in Nat BY RunSetsFinite
  <1>w. TickWithinCap <=> Cardinality(Requested) <= Cap BY DEF TickWithinCap, Requested
  <1>w2. TickWithinCap' <=> Cardinality(Requested)' <= Cap BY DEF TickWithinCap, Requested
  <1>1. CASE StartTick
    <2>1. Requested = {} /\ Requested' = {} BY <1>1 DEF StartTick, Requested
    <2>2. Cardinality(Requested)' = 0 BY <2>1, FS_EmptySet
    <2>3. remaining' = IMax(0, Cap - Reserved) /\ released' = FALSE BY <1>1 DEF StartTick
    <2>4. QED BY <1>c, <1>w2, <1>1, <2>2, <2>3 DEF TickInv, Ceiling, Debt, IMax, StartTick
  <1>2. CASE LeaveRule
    <2>1. Cardinality(Requested)' = Cardinality(Requested) BY <1>2 DEF LeaveRule, Requested
    <2>2. pc # "idle" /\ pc # "mark" /\ pc' # "mark" BY <1>2 DEF LeaveRule
    <2>3. Cardinality(Requested) + remaining <= Ceiling BY <2>2, <1>n, <1>t, <1>c DEF TickInv, Debt
    <2>4. Cardinality(Requested) + remaining' <= Ceiling'
      <3>1. CASE PastMerges
        <4>1. released' = TRUE /\ released = FALSE BY <1>2, <1>t, <3>1 DEF LeaveRule, PastMerges, TypeOK
        <4>2. Cardinality(Requested) + remaining <= IMax(0, Cap - Reserved)
          BY <2>3, <4>1 DEF Ceiling
        <4>3. remaining' \in {remaining, IMin(Cap, remaining + Reserved)}
          BY <1>2 DEF LeaveRule
        <4>4. Ceiling' = Cap BY <4>1 DEF Ceiling
        <4>5. QED BY <4>2, <4>3, <4>4, <1>t, <1>c, <1>n, CapAssumption DEF IMin, IMax
      <3>2. CASE ~PastMerges
        <4>1. released' = released /\ remaining' = remaining
          BY <1>2, <1>t, <3>2 DEF LeaveRule, TypeOK
        <4>2. QED BY <2>3, <4>1 DEF Ceiling
      <3>3. QED BY <3>1, <3>2
    <2>5. Debt' = 0 /\ Ceiling' \in 0 .. Cap /\ remaining' \in Nat
      <3>1. remaining' \in Nat BY <1>2, <1>t, <1>c DEF LeaveRule, IMin
      <3>2. QED BY <3>1, <2>2, <1>c DEF Debt, Ceiling, IMax
    <2>6. QED BY <2>1, <2>4, <2>5, <1>w, <1>w2, <1>n, <1>c DEF TickInv
  <1>3. CASE \E i \in RunIds : Trigger(i)
    <2> PICK i \in RunIds : Trigger(i) BY <1>3
    <2>1. Cardinality(Requested)' <= Cardinality(Requested) + 1 /\ Cardinality(Requested)' \in Nat
      <3>1. Requested' \subseteq Requested \cup {i} BY <1>t, TriggerStep
      <3>a. IsFiniteSet(Requested \cup {i})
            /\ Cardinality(Requested \cup {i}) =
                 IF i \in Requested THEN Cardinality(Requested) ELSE Cardinality(Requested) + 1
        BY RunSetsFinite, FS_AddElement
      <3>2. IsFiniteSet(Requested \cup {i})
            /\ Cardinality(Requested \cup {i}) <= Cardinality(Requested) + 1
            /\ Cardinality(Requested \cup {i}) \in Nat
        BY <1>n, <3>a
      <3>3. IsFiniteSet(Requested') /\ Cardinality(Requested') <= Cardinality(Requested \cup {i})
        BY <3>1, <3>2, FS_Subset
      <3>4. Cardinality(Requested') \in Nat BY <3>3, FS_CardinalityType
      <3>5. QED BY <3>2, <3>3, <3>4, <1>n
    <2>2. remaining' \in 1 .. remaining
      <3> PICK view \in Views : Charged(view) > 0 /\ remaining' = Charged(view) BY DEF Trigger
      <3>1. QED BY <1>t, ChargedBounds
    <2>3. pc = "act" /\ pc' = "mark" /\ released' = released BY DEF Trigger
    <2>4. QED BY <2>1, <2>2, <2>3, <1>n, <1>t, <1>c, <1>w2 DEF TickInv, Ceiling, Debt
  <1>4. CASE MarkTriggered
    <2>1. /\ Cardinality(Requested)' = Cardinality(Requested) /\ pc = "mark" /\ pc' = "ticket"
          /\ remaining' = remaining - 1 /\ released' = released
      BY <1>4 DEF MarkTriggered, Requested, SlotTaken
    <2>2. QED BY <2>1, <1>n, <1>t, <1>c, <1>w, <1>w2 DEF TickInv, Ceiling, Debt
  <1>5. CASE MoveStatus \/ MoveRefused \/ NoTrigger
    <2>1. Cardinality(Requested)' = Cardinality(Requested) /\ released' = released
          /\ pc \in {"act", "move"} /\ pc' \in {"act", "ticket"}
      BY <1>5 DEF MoveStatus, MoveRefused, NoTrigger, Requested, tracker
    <2>2. remaining' = remaining \/ \E view \in Views : remaining' = Charged(view)
      BY <1>5 DEF MoveStatus, MoveRefused, NoTrigger
    <2>3. remaining' \in 0 .. remaining BY <2>2, <1>t, ChargedBounds
    <2>4. QED BY <2>1, <2>3, <1>n, <1>t, <1>c, <1>w, <1>w2 DEF TickInv, Ceiling, Debt
  <1>6. CASE Runner
    <2>1. Requested' \subseteq Requested /\ UNCHANGED <<pc, rule, loop, budget>>
      BY <1>6, <1>t, RunnerShrinks, RunnerStep
    <2>2. Cardinality(Requested)' <= Cardinality(Requested) /\ Cardinality(Requested)' \in Nat
      <3>1. IsFiniteSet(Requested') /\ Cardinality(Requested') <= Cardinality(Requested)
        BY <2>1, RunSetsFinite, FS_Subset
      <3>2. QED BY <3>1, FS_CardinalityType
    <2>3. pc' = pc /\ remaining' = remaining /\ released' = released BY <2>1 DEF budget
    <2>4. QED BY <2>2, <2>3, <1>n, <1>t, <1>c, <1>w, <1>w2 DEF TickInv, Ceiling, Debt
  <1>7. CASE QueryRule \/ (\E t \in Tickets : SkipTicket(t) \/ TakeTicket(t)) \/ RunLocally
             \/ TickDies \/ People \/ UNCHANGED vars
    <2>1. UNCHANGED <<run, remaining, released>>
      BY <1>7 DEF QueryRule, SkipTicket, TakeTicket, RunLocally, TickDies, People, Request,
                  vars, tracker, budget
    <2>2. Cardinality(Requested)' = Cardinality(Requested) BY <2>1 DEF Requested
    <2>3. pc' = pc \/ (pc # "idle" /\ pc # "mark" /\ pc' # "mark") \/ pc' = "idle"
      BY <1>7 DEF QueryRule, SkipTicket, TakeTicket, RunLocally, TickDies, People, Request, vars
    <2>4. QED BY <2>1, <2>2, <2>3, <1>n, <1>t, <1>c, <1>w, <1>w2 DEF TickInv, Ceiling, Debt
  <1>8. QED
    BY <1>1, <1>2, <1>3, <1>4, <1>5, <1>6, <1>7 DEF Next, Tick

\* No tick dispatches more than the cap: not when a listing call fails and is
\* read as an idle repository, not across the reservation's release.
THEOREM TickCapHolds == Spec => []TickWithinCap
  <1>1. Spec => []TickInv
    BY InitTick, StepTick, AlwaysTyped, PTL DEF Spec
  <1>2. TickInv => TickWithinCap BY DEF TickInv
  <1>3. QED BY <1>1, <1>2, PTL

-----------------------------------------------------------------------------
\* The cap over all runs, those of earlier ticks included

\* A merge reservation is handed back before the first rule that dispatches,
\* as in sm_github.json (layers L0 to L3 dispatch nothing).
ReleaseBeforeDispatch ==
    Reserved = 0 \/ \A r \in DOMAIN Rules :
                        Rules[r].kind = "dispatch" => r > 1 /\ Rules[r].layer > L3

\* Once the active runs are charged, they and the slots left fit in the cap;
\* until then no run of this tick exists.  A held reservation excludes the
\* former, which is what makes handing it back sound.
CapInv ==
    /\ WithinCap
    /\ pc # "idle" /\ counted => Cardinality(InFlight) + remaining <= Cap + Debt
    /\ pc # "idle" /\ ~counted => Requested = {}
    /\ pc = "mark" => counted
    /\ pc # "idle" /\ Reserved > 0 /\ ~released => ~counted
    /\ pc # "idle" /\ rule > 1 /\ R.layer > L3 => released

LEMMA InitCap == Init => CapInv
  <1> SUFFICES ASSUME Init PROVE CapInv OBVIOUS
  <1>1. InFlight = {} BY DEF Init, InFlight, Live, FreeRun
  <1>2. Cardinality(InFlight) = 0 BY <1>1, FS_EmptySet
  <1>3. pc = "idle" BY DEF Init
  <1>4. QED BY <1>2, <1>3, CapAssumption DEF CapInv, WithinCap

\* A step that dispatches nothing and ends no run.
LEMMA SameRuns ==
    ASSUME UNCHANGED run
    PROVE  /\ InFlight' = InFlight /\ Requested' = Requested
           /\ Cardinality(InFlight)' = Cardinality(InFlight)
           /\ (WithinCap' <=> WithinCap) /\ (OneRunPerKey' <=> OneRunPerKey)
  <1>1. InFlight' = InFlight /\ Requested' = Requested BY DEF InFlight, Requested, Live
  <1>2. QED BY <1>1 DEF WithinCap, OneRunPerKey

\* Where a dispatch rule is about to spend, the reservation is no longer held.
LEMMA SpendingIsReleased ==
    ASSUME Typed, CapInv, ReleaseBeforeDispatch, pc # "idle", R.kind = "dispatch"
    PROVE  Reserved = 0 \/ released
  <1>1. rule \in DOMAIN Rules BY RulesAssumption DEF Typed, TypeOK
  <1>2. QED BY <1>1 DEF ReleaseBeforeDispatch, CapInv, R

\* Charging the listing leaves room for every run in flight.
LEMMA ChargingIsSound ==
    ASSUME Typed, CapInv, ~ProbeErrors, pc \notin {"idle", "mark"}, NEW view \in Views
    PROVE  /\ Charged(view) \in Nat
           /\ Charged(view) > 0 => Cardinality(InFlight) + Charged(view) <= Cap
           /\ Cardinality(InFlight) + Charged(view) <= Cap
  <1>t. remaining \in 0 .. Cap /\ Cap \in Nat /\ Debt = 0
    BY CapAssumption DEF Typed, TypeOK, Debt
  <1>n. Cardinality(InFlight) \in Nat BY RunSetsFinite
  <1>1. Charged(view) \in 0 .. remaining BY <1>t, ChargedBounds
  <1>2. CASE counted
    BY <1>2, <1>t, <1>n, <1>1 DEF CapInv, Charged
  <1>3. CASE ~counted
    <2>1. view = Blocking BY DEF Views
    <2>2. InFlight \subseteq Blocking BY <1>3, Unlisted DEF CapInv, Typed
    <2>3. Cardinality(InFlight) <= Cardinality(view) /\ Cardinality(view) \in Nat
      BY <2>1, <2>2, ViewFinite, FS_Subset
    <2>4. Charged(view) = IMax(0, remaining - Cardinality(view)) BY <1>3 DEF Charged
    <2>5. Cardinality(InFlight) <= Cap BY DEF CapInv, WithinCap
    <2>6. QED BY <2>3, <2>4, <2>5, <1>t, <1>n, <1>1 DEF IMax
  <1>4. QED BY <1>2, <1>3

LEMMA StepCap ==
    ~ProbeErrors /\ ReleaseBeforeDispatch /\ Typed /\ CapInv /\ [Next]_vars => CapInv'
  <1> SUFFICES ASSUME ~ProbeErrors, ReleaseBeforeDispatch, Typed, CapInv, [Next]_vars
               PROVE  CapInv'
    OBVIOUS
  <1>t. /\ TypeOK /\ remaining \in 0 .. Cap /\ counted \in BOOLEAN /\ released \in BOOLEAN
        /\ rule \in Nat \ {0} /\ Cap \in Nat /\ Reserved \in Nat
    BY CapAssumption DEF Typed, TypeOK
  <1>n. Cardinality(InFlight) \in Nat /\ Cardinality(InFlight) <= Cap
    BY RunSetsFinite DEF CapInv, WithinCap
  <1>1. CASE StartTick
    <2>1. /\ Requested = {} /\ UNCHANGED run /\ pc' = "rule" /\ rule' = 1
          /\ counted' = FALSE
      BY <1>1 DEF StartTick, Requested
    <2>2. QED BY <2>1, SameRuns DEF CapInv
  <1>2. CASE LeaveRule
    <2>1. /\ UNCHANGED <<run, counted>> /\ pc \notin {"idle", "mark"} /\ pc' # "mark"
          /\ pc' # "idle" => rule' = rule + 1
          /\ pc' \in {"idle", "rule"}
      BY <1>2 DEF LeaveRule
    <2>2. released' = (released \/ PastMerges) BY <1>2 DEF LeaveRule
    <2>3. pc' # "idle" /\ R'.layer > L3 => released'
      BY <2>1, <2>2 DEF PastMerges, R
    <2>4. counted => remaining' = remaining
      BY <1>2, <2>1, <1>t DEF LeaveRule, CapInv, PastMerges
    <2>5. counted => Cardinality(InFlight) + remaining <= Cap
      BY <2>1, <1>t, <1>n DEF CapInv, Debt
    <2>6. Debt' = 0 BY <2>1 DEF Debt
    <2>7. counted' => Cardinality(InFlight)' + remaining' <= Cap + Debt'
      BY <2>1, <2>4, <2>5, <2>6, <1>t, <1>n, SameRuns
    <2>8. WithinCap' /\ (~counted' => Requested' = {}) BY <2>1, SameRuns DEF CapInv
    <2>9. Reserved > 0 /\ ~released' => ~counted' BY <2>1, <2>2 DEF CapInv
    <2>10. QED BY <2>1, <2>3, <2>7, <2>8, <2>9 DEF CapInv
  <1>3. CASE \E i \in RunIds : Trigger(i)
    <2> PICK i \in RunIds : Trigger(i) BY <1>3
    <2> PICK view \in Views : Charged(view) > 0 /\ remaining' = Charged(view) BY DEF Trigger
    <2>1. /\ pc = "act" /\ R.kind = "dispatch" /\ pc' = "mark" /\ counted' = TRUE
          /\ UNCHANGED <<rule, released>>
      BY DEF Trigger
    <2>2. Charged(view) \in Nat /\ Cardinality(InFlight) + Charged(view) <= Cap
      BY <2>1, ChargingIsSound
    <2>3. Cardinality(InFlight)' = Cardinality(InFlight) + 1
      <3>1. InFlight' = InFlight \cup {i} /\ i \notin InFlight BY <1>t, TriggerStep
      <3>2. QED BY <3>1, RunSetsFinite, FS_AddElement
    <2>4. Cardinality(InFlight)' <= Cap /\ Cardinality(InFlight)' + remaining' <= Cap + 1
      BY <2>2, <2>3, <1>n, <1>t
    <2>5. Reserved = 0 \/ released BY <2>1, SpendingIsReleased
    <2>6. R'.layer > L3 /\ rule' > 1 => released' BY <2>1 DEF CapInv, R
    <2>7. QED BY <2>1, <2>4, <2>5, <2>6, <1>t DEF CapInv, WithinCap, Debt
  <1>4. CASE MarkTriggered
    <2>1. /\ pc = "mark" /\ pc' = "ticket" /\ remaining' = remaining - 1
          /\ UNCHANGED <<run, counted, released, rule>>
      BY <1>4 DEF MarkTriggered, SlotTaken
    <2>2. Cardinality(InFlight)' + remaining' <= Cap
      BY <2>1, <1>n, <1>t, SameRuns DEF CapInv, Debt
    <2>3. QED BY <2>1, <2>2, SameRuns, <1>t DEF CapInv, Debt, R
  <1>5. CASE MoveStatus \/ MoveRefused \/ NoTrigger
    <2>1. /\ pc \in {"act", "move"} /\ pc' \in {"act", "ticket"}
          /\ UNCHANGED <<run, released, rule>>
      BY <1>5 DEF MoveStatus, MoveRefused, NoTrigger, tracker
    <2>2. CASE UNCHANGED <<remaining, counted>>
      BY <2>1, <2>2, SameRuns DEF CapInv, Debt, R
    <2>3. CASE ~UNCHANGED <<remaining, counted>>
      <3>1. R.kind = "dispatch" /\ counted' = TRUE
        BY <1>5, <2>3 DEF MoveStatus, MoveRefused, NoTrigger
      <3>2. PICK view \in Views : remaining' = Charged(view)
        BY <1>5, <3>1, <2>3 DEF MoveStatus, MoveRefused, NoTrigger
      <3>3. Cardinality(InFlight)' + remaining' <= Cap
        BY <3>2, <2>1, SameRuns, ChargingIsSound
      <3>4. Reserved = 0 \/ released BY <2>1, <3>1, SpendingIsReleased
      <3>5. QED BY <2>1, <3>1, <3>3, <3>4, SameRuns, <1>t DEF CapInv, Debt, R
    <2>4. QED BY <2>2, <2>3
  <1>6. CASE Runner
    <2>1. /\ Requested' \subseteq Requested /\ InFlight' \subseteq InFlight
          /\ UNCHANGED <<pc, rule, remaining, counted, released>>
      BY <1>6, <1>t, RunnerShrinks, RunnerStep DEF budget
    <2>2. Cardinality(InFlight)' <= Cardinality(InFlight) /\ Cardinality(InFlight)' \in Nat
      <3>1. IsFiniteSet(InFlight') /\ Cardinality(InFlight') <= Cardinality(InFlight)
        BY <2>1, RunSetsFinite, FS_Subset
      <3>2. QED BY <3>1, FS_CardinalityType
    <2>3. pc # "idle" /\ ~counted => Requested' = {} BY <2>1 DEF CapInv
    <2>4. QED BY <2>1, <2>2, <2>3, <1>n, <1>t DEF CapInv, WithinCap, Debt, R
  <1>7. CASE QueryRule \/ (\E t \in Tickets : SkipTicket(t) \/ TakeTicket(t)) \/ RunLocally
             \/ People \/ UNCHANGED vars
    <2>1. /\ UNCHANGED <<run, rule, remaining, counted, released>>
          /\ pc' = pc \/ (pc # "idle" /\ pc # "mark" /\ pc' # "mark")
      BY <1>7 DEF QueryRule, SkipTicket, TakeTicket, RunLocally, People, Request, vars,
                  tracker, budget
    <2>2. QED BY <2>1, SameRuns, <1>n, <1>t DEF CapInv, Debt, R
  <1>8. CASE TickDies
    <2>1. UNCHANGED run /\ pc' = "idle" BY <1>8 DEF TickDies
    <2>2. QED BY <2>1, SameRuns DEF CapInv
  <1>9. QED
    BY <1>1, <1>2, <1>3, <1>4, <1>5, <1>6, <1>7, <1>8 DEF Next, Tick

\* maxTriggeredWorkflows bounds all active runs, as long as listings answer
\* and no rule dispatches while the merge reservation is held.
THEOREM CapHolds ==
    ASSUME ~ProbeErrors, ReleaseBeforeDispatch
    PROVE  Spec => []WithinCap
  <1>1. Typed /\ CapInv /\ [Next]_vars => CapInv' BY StepCap
  <1>2. CapInv => WithinCap BY DEF CapInv
  <1>3. QED BY <1>1, <1>2, InitCap, AlwaysTyped, PTL DEF Spec

-----------------------------------------------------------------------------
\* One run per concurrency key

\* Dispatches that one tick can make before the listing shows them differ in
\* their key: two rules never share one, and a rule whose tickets share one
\* has limit 1.  With no registration lag nothing is required.
KeysApart ==
    ListingLag =>
        \A r, s \in DOMAIN Rules : \A t \in Rules[r].items, u \in Rules[s].items :
            /\ Rules[r].kind = "dispatch" /\ Rules[s].kind = "dispatch"
            /\ Rules[r].key[t] = Rules[s].key[u]
            => r = s /\ (t = u \/ Rules[r].limit = 1)

\* A run is what some rule dispatched for one of its tickets.
Origin(i) ==
    LET q == run[i]
        r == Rules[run[i].rule]
    IN /\ q.rule \in DOMAIN Rules /\ r.kind = "dispatch" /\ q.tkt \in r.items
       /\ q.key = r.key[q.tkt] /\ q.branch = r.branch[q.tkt]

\* A run of this tick comes from an earlier rule, or from an earlier ticket
\* of this one, which then has used up part of its limit.
RequestInv(i) ==
    LET q == run[i]
    IN /\ q.rule \in 1 .. rule
       /\ q.rule = rule =>
            /\ pc # "rule" /\ q.tkt \notin todo
            /\ pc \in {"move", "act"} => q.tkt # tkt
            /\ pc # "mark" => processed >= 1

\* Where the loop over a rule's tickets stands.
LoopInv ==
    /\ pc \in {"ticket", "move", "act", "mark"} => limit <= R.limit /\ todo \subseteq R.items
    /\ pc \in {"move", "act", "mark"} => tkt \in R.items /\ tkt \notin todo
    /\ pc \in {"move", "act"} /\ R.kind = "dispatch" => processed < limit

WalkInv ==
    /\ \A i \in RunIds : Live(i) => Origin(i)
    /\ ~ListingLag => Requested = {}
    /\ LoopInv
    /\ pc # "idle" => \A i \in Requested : RequestInv(i)

LEMMA InitWalk == Init => WalkInv
  <1> SUFFICES ASSUME Init PROVE WalkInv OBVIOUS
  <1>1. pc = "idle" /\ Requested = {} /\ \A i \in RunIds : ~Live(i)
    BY DEF Init, Requested, Live, FreeRun
  <1>2. QED BY <1>1 DEF WalkInv, LoopInv

LEMMA StepWalk == Typed /\ WalkInv /\ [Next]_vars => WalkInv'
  <1> SUFFICES ASSUME Typed, WalkInv, [Next]_vars PROVE WalkInv'
    OBVIOUS
  <1>t. /\ TypeOK /\ rule \in Nat \ {0} /\ processed \in Nat /\ limit \in Nat
        /\ (pc # "idle" => R \in RuleType /\ rule \in 1 .. Len(Rules))
    BY RulesAssumption, RuleTyped DEF Typed, TypeOK, R
  <1>same. UNCHANGED run =>
             /\ Requested' = Requested /\ (~ListingLag => Requested' = {})
             /\ \A i \in RunIds : Live(i)' => Origin(i)'
    BY SameRuns DEF WalkInv, Live, Origin
  <1>1. CASE StartTick
    <2>1. Requested = {} /\ UNCHANGED run /\ pc' = "rule" BY <1>1 DEF StartTick, Requested
    <2>2. QED BY <2>1, <1>same DEF WalkInv, LoopInv
  <1>2. CASE QueryRule
    <2>1. UNCHANGED <<run, rule>> /\ pc = "rule" /\ pc' = "ticket" BY <1>2 DEF QueryRule
    <2>2. limit' <= R.limit
      <3>1. R.limit \in Nat /\ Spendable \in Int
        BY <1>t, <2>1, CapAssumption DEF RuleType, Spendable, SpendableOf, IMin, IMax, Typed, TypeOK
      <3>2. limit' = R.limit \/ limit' = IMin(R.limit, Spendable) BY <1>2 DEF QueryRule
      <3>3. QED BY <3>1, <3>2 DEF IMin
    <2>3. todo' \subseteq R.items BY <1>2 DEF QueryRule, Matching
    <2>4. LoopInv' BY <2>1, <2>2, <2>3 DEF LoopInv, R
    <2>5. \A i \in Requested : run[i].rule \in 1 .. rule /\ run[i].rule # rule
      BY <2>1 DEF WalkInv, RequestInv
    <2>6. \A i \in Requested : RequestInv(i)' BY <2>1, <2>5 DEF WalkInv, RequestInv
    <2>7. QED BY <2>1, <2>4, <2>6, <1>same DEF WalkInv
  <1>3. CASE LeaveRule
    <2>1. /\ UNCHANGED run /\ pc # "idle" /\ pc' \in {"idle", "rule"}
          /\ pc' # "idle" => rule' = rule + 1
      BY <1>3 DEF LeaveRule
    <2>2. ASSUME pc' # "idle", NEW i \in Requested PROVE RequestInv(i)'
      <3>1. run[i].rule \in 1 .. rule BY <2>1 DEF WalkInv, RequestInv
      <3>2. run[i].rule \in 1 .. rule' /\ run[i].rule # rule' BY <2>1, <2>2, <3>1, <1>t
      <3>3. QED BY <2>1, <3>2 DEF WalkInv, RequestInv
    <2>3. LoopInv' BY <2>1 DEF LoopInv
    <2>4. QED BY <2>1, <2>2, <2>3, <1>same DEF WalkInv
  <1>4. CASE \E t \in Tickets : SkipTicket(t)
    <2>1. UNCHANGED <<run, pc, rule, limit, processed, tkt>> /\ todo' \subseteq todo /\ pc = "ticket"
      BY <1>4 DEF SkipTicket
    <2>2. LoopInv' BY <2>1 DEF WalkInv, LoopInv, R
    <2>3. \A i \in Requested : RequestInv(i)' BY <2>1 DEF WalkInv, RequestInv
    <2>4. QED BY <2>1, <2>2, <2>3, <1>same DEF WalkInv
  <1>5. CASE \E t \in Tickets : TakeTicket(t)
    <2> PICK t \in Tickets : TakeTicket(t) BY <1>5
    <2>1. /\ UNCHANGED <<run, rule, limit, processed>> /\ todo' = todo \ {t} /\ t \in todo
          /\ tkt' = t /\ pc = "ticket" /\ pc' \in {"move", "act"} /\ MayVisit
      BY DEF TakeTicket
    <2>2. R.kind = "dispatch" => processed < limit BY <2>1, <1>t DEF MayVisit
    <2>3. LoopInv' BY <2>1, <2>2 DEF WalkInv, LoopInv, R
    <2>4. \A i \in Requested : RequestInv(i)' BY <2>1 DEF WalkInv, RequestInv
    <2>5. QED BY <2>1, <2>3, <2>4, <1>same DEF WalkInv
  <1>6. CASE MoveStatus
    <2>1. UNCHANGED <<run, rule, limit, processed, todo, tkt>> /\ pc = "move" /\ pc' = "act"
      BY <1>6 DEF MoveStatus, loop
    <2>2. LoopInv' BY <2>1 DEF WalkInv, LoopInv, R
    <2>3. \A i \in Requested : RequestInv(i)' BY <2>1 DEF WalkInv, RequestInv
    <2>4. QED BY <2>1, <2>2, <2>3, <1>same DEF WalkInv
  <1>7. CASE MoveRefused \/ NoTrigger \/ RunLocally
    <2>1. /\ UNCHANGED <<run, rule, limit>> /\ pc \in {"move", "act"} /\ pc' = "ticket"
          /\ todo' \subseteq todo /\ processed' \in {processed, processed + 1}
      BY <1>7 DEF MoveRefused, NoTrigger, RunLocally, loop, tracker
    <2>2. LoopInv' BY <2>1 DEF WalkInv, LoopInv, R
    <2>3. \A i \in Requested : RequestInv(i)' BY <2>1, <1>t DEF WalkInv, RequestInv
    <2>4. QED BY <2>1, <2>2, <2>3, <1>same DEF WalkInv
  <1>8. CASE \E i \in RunIds : Trigger(i)
    <2> PICK i \in RunIds : Trigger(i) BY <1>8
    <2>1. /\ UNCHANGED <<rule, todo, tkt, processed, limit>> /\ pc = "act" /\ pc' = "mark"
          /\ R.kind = "dispatch" /\ tkt \in Tickets /\ rule \in DOMAIN Rules /\ rule \in 1 .. rule
      BY <1>t, RulesAssumption DEF Trigger, loop, TypeOK
    <2>2. /\ Requested' \subseteq Requested \cup {i}
          /\ \A j \in RunIds \ {i} : run'[j] = run[j]
          /\ run'[i].key = R.key[tkt] /\ run'[i].branch = R.branch[tkt]
          /\ run'[i].tkt = tkt /\ run'[i].rule = rule
      BY <1>t, TriggerStep
    <2>3. tkt \in R.items /\ tkt \notin todo BY <2>1 DEF WalkInv, LoopInv
    <2>4. \A j \in RunIds : Live(j)' => Origin(j)'
      <3>1. Origin(i)' BY <2>1, <2>2, <2>3 DEF Origin, R
      <3>2. \A j \in RunIds \ {i} : Live(j)' => Origin(j)' BY <2>2 DEF WalkInv, Live, Origin
      <3>3. QED BY <3>1, <3>2
    <2>5. ~ListingLag => Requested' = {}
      BY <2>2 DEF Trigger, Requested, WalkInv, TypeOK
    <2>6. LoopInv' BY <2>1 DEF WalkInv, LoopInv, R
    <2>7. RequestInv(i)' BY <2>1, <2>2, <2>3 DEF RequestInv
    <2>8. \A j \in Requested \ {i} : RequestInv(j)'
      BY <2>1, <2>2 DEF WalkInv, RequestInv, Requested
    <2>9. QED BY <2>1, <2>2, <2>4, <2>5, <2>6, <2>7, <2>8 DEF WalkInv
  <1>9. CASE MarkTriggered
    <2>1. /\ UNCHANGED <<run, rule, todo, tkt, limit>> /\ pc = "mark" /\ pc' = "ticket"
          /\ processed' = processed + 1
      BY <1>9 DEF MarkTriggered
    <2>2. LoopInv' BY <2>1 DEF WalkInv, LoopInv, R
    <2>3. \A i \in Requested : RequestInv(i)' BY <2>1, <1>t DEF WalkInv, RequestInv
    <2>4. QED BY <2>1, <2>2, <2>3, <1>same DEF WalkInv
  <1>10. CASE TickDies
    <2>1. UNCHANGED run /\ pc' = "idle" BY <1>10 DEF TickDies
    <2>2. QED BY <2>1, <1>same DEF WalkInv, LoopInv
  <1>11. CASE Runner
    <2>1. UNCHANGED <<pc, rule, todo, tkt, processed, limit>>
      BY <1>11, <1>t, RunnerStep DEF loop
    <2>2. /\ Requested' \subseteq Requested /\ InFlight' \subseteq InFlight
          /\ \A j \in InFlight' : run'[j].key = run[j].key
          /\ \A j \in Requested' : run'[j] = run[j]
      BY <1>11, <1>t, RunnerShrinks
    <2>4. \A j \in RunIds : Live(j)' => Origin(j)'
      BY <1>11, <1>t, RunnerStep DEF WalkInv, Live, Origin
    <2>5. LoopInv' BY <2>1 DEF WalkInv, LoopInv, R
    <2>6. pc # "idle" => \A j \in Requested' : RequestInv(j)'
      BY <2>1, <2>2 DEF WalkInv, RequestInv
    <2>7. QED BY <2>1, <2>2, <2>4, <2>5, <2>6 DEF WalkInv
  <1>12. CASE People \/ UNCHANGED vars
    <2>1. UNCHANGED <<run, pc, rule, todo, tkt, processed, limit>>
      BY <1>12 DEF People, Request, vars, loop
    <2>2. LoopInv' BY <2>1 DEF WalkInv, LoopInv, R
    <2>3. pc # "idle" => \A i \in Requested : RequestInv(i)' BY <2>1 DEF WalkInv, RequestInv
    <2>4. QED BY <2>1, <2>2, <2>3, <1>same DEF WalkInv
  <1>13. QED
    BY <1>1, <1>2, <1>3, <1>4, <1>5, <1>6, <1>7, <1>8, <1>9, <1>10, <1>11, <1>12
       DEF Next, Tick

LEMMA AlwaysWalks == Spec => []WalkInv
  <1>1. QED BY InitWalk, StepWalk, AlwaysTyped, PTL DEF Spec

\* The key of a run is a key.
LEMMA OriginTyped ==
    ASSUME Typed, WalkInv, NEW i \in RunIds, Live(i)
    PROVE  run[i].key \in Keys /\ run[i].tkt \in Tickets
  <1>1. Origin(i) BY DEF WalkInv
  <1>2. Rules[run[i].rule] \in RuleType BY <1>1, RulesAssumption, RuleTyped DEF Origin
  <1>3. QED BY <1>1, <1>2 DEF Origin, RuleType

\* What a dispatch does not find in the listing comes from this tick, which
\* then still has the one rule and the one ticket in hand.
LEMMA FreshDispatch ==
    ASSUME ~ProbeErrors, Typed, WalkInv, NEW i \in RunIds, Trigger(i), NEW j \in InFlight,
           run[j].key = R.key[tkt] \/ (run[j].branch = R.branch[tkt] /\ R.branch[tkt] # NoBranch)
    PROVE  /\ j \in Requested /\ run[j].rule \in 1 .. rule
           /\ ListingLag /\ Origin(j) /\ R.kind = "dispatch" /\ tkt \in R.items /\ rule \in DOMAIN Rules
           /\ ~(run[j].rule = rule /\ (run[j].tkt = tkt \/ R.limit = 1))
  <1>1. PICK own \in Views, other \in Views, legs \in Views : Clear(own, other, legs)
    BY DEF Trigger
  <1>2. own = Blocking /\ legs = Blocking BY DEF Views
  <1>3. j \notin Blocking BY <1>1, <1>2 DEF Clear, ActiveOn, LegOnBranch
  <1>4. j \in Requested BY <1>3, Unlisted DEF Typed
  <1>5. ListingLag BY <1>4 DEF WalkInv
  <1>6. pc = "act" /\ R.kind = "dispatch" BY DEF Trigger
  <1>7. RequestInv(j) /\ Origin(j) BY <1>4, <1>6 DEF WalkInv, InFlight
  <1>8. rule \in DOMAIN Rules /\ R \in RuleType
    BY <1>6, RulesAssumption, RuleTyped DEF Typed, TypeOK, R
  <1>9. tkt \in R.items /\ processed < limit /\ limit <= R.limit
    BY <1>6 DEF WalkInv, LoopInv
  <1>10. processed \in Nat /\ limit \in Nat /\ R.limit \in Nat
    BY <1>8 DEF Typed, TypeOK, RuleType
  <1>11. ASSUME run[j].rule = rule PROVE run[j].tkt # tkt /\ R.limit # 1
    <2>1. run[j].tkt # tkt /\ processed >= 1 BY <1>6, <1>7, <1>11 DEF RequestInv
    <2>2. QED BY <1>9, <1>10, <2>1
  <1>12. QED BY <1>4, <1>5, <1>6, <1>7, <1>8, <1>9, <1>11 DEF RequestInv

KeyInv == OneRunPerKey /\ WalkInv

LEMMA InitKey == Init => KeyInv
  <1>1. Init => InFlight = {} BY DEF Init, InFlight, Live, FreeRun
  <1>2. QED BY <1>1, InitWalk DEF KeyInv, OneRunPerKey

\* triggerWorkflow finds no run in flight under the key it dispatches: the
\* listing shows the ones of earlier ticks, the loop itself excludes its own.
LEMMA FreshKey ==
    ASSUME ~ProbeErrors, KeysApart, Typed, KeyInv, NEW i \in RunIds, Trigger(i)
    PROVE  \A j \in InFlight : run[j].key # R.key[tkt]
  <1> SUFFICES ASSUME NEW j \in InFlight, run[j].key = R.key[tkt] PROVE FALSE OBVIOUS
  <1>1. /\ ListingLag /\ Origin(j) /\ R.kind = "dispatch" /\ tkt \in R.items /\ rule \in DOMAIN Rules
        /\ ~(run[j].rule = rule /\ (run[j].tkt = tkt \/ R.limit = 1))
    BY FreshDispatch DEF KeyInv
  <1>2. run[j].rule = rule /\ (run[j].tkt = tkt \/ Rules[run[j].rule].limit = 1)
    <2>1. /\ run[j].rule \in DOMAIN Rules /\ Rules[run[j].rule].kind = "dispatch"
          /\ run[j].tkt \in Rules[run[j].rule].items
          /\ Rules[run[j].rule].key[run[j].tkt] = Rules[rule].key[tkt]
          /\ Rules[rule].kind = "dispatch" /\ tkt \in Rules[rule].items
      BY <1>1 DEF Origin, R
    <2>2. QED BY <1>1, <2>1 DEF KeysApart
  <1>3. QED BY <1>1, <1>2 DEF R

LEMMA StepKey ==
    ~ProbeErrors /\ KeysApart /\ Typed /\ KeyInv /\ [Next]_vars => KeyInv'
  <1> SUFFICES ASSUME ~ProbeErrors, KeysApart, Typed, KeyInv, [Next]_vars PROVE OneRunPerKey'
    BY StepWalk DEF KeyInv
  <1>t. TypeOK BY DEF Typed
  <1>1. CASE \E i \in RunIds : Trigger(i)
    <2> PICK i \in RunIds : Trigger(i) BY <1>1
    <2>1. /\ i \notin InFlight /\ InFlight' = InFlight \cup {i}
          /\ \A j \in RunIds \ {i} : run'[j] = run[j]
          /\ run'[i].key = R.key[tkt]
      BY <1>t, TriggerStep
    <2>2. \A j \in InFlight : run'[j] = run[j] /\ run'[j].key # run'[i].key
      BY <2>1, FreshKey DEF InFlight
    <2>3. QED BY <2>1, <2>2 DEF KeyInv, OneRunPerKey
  <1>2. CASE Runner
    <2>1. InFlight' \subseteq InFlight /\ \A j \in InFlight' : run'[j].key = run[j].key
      BY <1>2, <1>t, RunnerShrinks
    <2>2. QED BY <2>1 DEF KeyInv, OneRunPerKey
  <1>3. CASE UNCHANGED run
    BY <1>3, SameRuns DEF KeyInv, OneRunPerKey
  <1>4. QED BY <1>1, <1>2, <1>3, StepRuns

\* No concurrency key has two runs in flight, although labels come and go and
\* a run is listed only some time after its dispatch.
THEOREM OneRunHolds ==
    ASSUME ~ProbeErrors, KeysApart
    PROVE  Spec => []OneRunPerKey
  <1>1. Typed /\ KeyInv /\ [Next]_vars => KeyInv' BY StepKey
  <1>2. KeyInv => OneRunPerKey BY DEF KeyInv
  <1>3. QED BY <1>1, <1>2, InitKey, AlwaysTyped, PTL DEF Spec

-----------------------------------------------------------------------------
\* One leg per branch

\* Labels without which rule s does not match u, and with which rule r would not
\* have matched t; no rule from the one to the other adds them.
Excluding(r, t, s, u) ==
    {l \in Rules[s].needs :
        /\ <<u, l>> \in Rules[r].unless[t]
        /\ \A q \in DOMAIN Rules : r <= q /\ q <= s => l \notin Rules[q].add}

SameBranch(r, t, s, u) ==
    /\ Rules[r].kind = "dispatch" /\ Rules[s].kind = "dispatch"
    /\ Rules[r].branch[t] # NoBranch /\ Rules[r].branch[t] = Rules[s].branch[u]

\* Two rules that dispatch on one branch exclude each other by a request label,
\* as rework-on-red-ci and rework-on-label do; one that has two tickets on a
\* branch has limit 1.
BranchesGuarded ==
    \A r, s \in DOMAIN Rules : \A t \in Rules[r].items, u \in Rules[s].items :
        SameBranch(r, t, s, u) =>
            /\ r = s => t = u \/ Rules[r].limit = 1
            /\ r < s => Excluding(r, t, s, u) # {}

\* No rule still to come finds the branch of t: each misses a label it asks for.
Barred(r, t) ==
    \A s \in DOMAIN Rules : \A u \in Rules[s].items :
        SameBranch(r, t, s, u) /\ r < s /\ rule <= s =>
            \A l \in Excluding(r, t, s, u) : l \notin labels[u]

\* The tickets in hand are not on the branch of a run of an earlier rule.
OffBranch(i) ==
    /\ \A u \in todo : ~SameBranch(run[i].rule, run[i].tkt, rule, u)
    /\ pc \in {"move", "act"} => ~SameBranch(run[i].rule, run[i].tkt, rule, tkt)

BranchInv ==
    /\ pc \in {"ticket", "move", "act", "mark"} => \A t \in todo : Barred(rule, t)
    /\ pc \in {"move", "act", "mark"} => Barred(rule, tkt)
    /\ pc # "idle" => \A i \in Requested :
         /\ Barred(run[i].rule, run[i].tkt)
         /\ run[i].rule < rule /\ pc # "rule" => OffBranch(i)

\* A request label that no rule writes appears between the rules only.
LEMMA RequestsWait ==
    ASSUME Typed, QuietNext, ~Settled, NEW u \in Tickets, NEW l,
           \E s \in DOMAIN Rules : l \in Rules[s].needs,
           l \notin R.add, l \notin labels[u]
    PROVE  l \notin labels'[u]
  <1>t. labels \in [Tickets -> SUBSET Labels] BY DEF Typed, TypeOK
  <1>r. pc # "idle" => rule \in DOMAIN Rules /\ R = Rules[rule]
    BY RulesAssumption DEF Typed, TypeOK, R
  <1>1. CASE UNCHANGED labels BY <1>1
  <1>2. CASE \E t \in Tickets : TakeTicket(t) BY <1>2, <1>t DEF TakeTicket
  <1>3. CASE NoTrigger BY <1>3, <1>t DEF NoTrigger
  <1>4. CASE MarkTriggered
    <2>1. PICK new \in SUBSET R.add, gone \in SUBSET R.consume :
            labels' = [labels EXCEPT ![tkt] = (@ \cup new) \ gone]
      BY <1>4 DEF MarkTriggered
    <2>2. l \notin R.add BY <1>4, <1>r DEF MarkTriggered
    <2>3. QED BY <2>1, <2>2, <1>t
  <1>5. CASE RunLocally
    <2>1. UNCHANGED labels \/ \E new \in SUBSET R.add, gone \in {{}, R.release} :
            labels' = [labels EXCEPT ![tkt] = (@ \ gone) \cup new]
      BY <1>5 DEF RunLocally, tracker
    <2>2. l \notin R.add BY <1>5, <1>r DEF RunLocally
    <2>3. QED BY <2>1, <2>2, <1>t
  <1>6. CASE \E i \in RunIds : PostAction(i) BY <1>6, <1>t DEF PostAction
  <1>7. CASE QuietPeople
    <2>1. PICK t \in Tickets, m \in HumanLabels :
            /\ (\E r \in DOMAIN Rules : m \in Rules[r].needs) => Settled
            /\ labels' = [labels EXCEPT ![t] = @ \cup {m}]
      BY <1>7 DEF QuietPeople, Request
    <2>2. m # l BY <2>1
    <2>3. QED BY <2>1, <2>2, <1>t
  <1>8. QED
    BY <1>1, <1>2, <1>3, <1>4, <1>5, <1>6, <1>7
       DEF QuietNext, Tick, TickDies, Runner, tracker, StartTick, QueryRule, LeaveRule, SkipTicket,
           MoveStatus, MoveRefused, Trigger, Register, Start, Age, EndRun

\* So a branch that is barred stays barred as long as the tick is at work on it.
LEMMA BarredKept ==
    ASSUME Typed, [QuietNext]_vars, ~Settled, pc' # "idle", rule' \in {rule, rule + 1},
           NEW r \in 1 .. rule, NEW t, Barred(r, t)
    PROVE  Barred(r, t)'
  <1> SUFFICES ASSUME NEW s \in DOMAIN Rules, NEW u \in Rules[s].items,
                      SameBranch(r, t, s, u), r < s, rule' <= s, NEW l \in Excluding(r, t, s, u)
               PROVE  l \notin labels'[u]
    BY DEF Barred, SameBranch, Excluding
  <1>0. rule \in DOMAIN Rules /\ r <= rule /\ rule <= s
    <2>1. rule \in Nat /\ rule \in DOMAIN Rules /\ DOMAIN Rules \subseteq Nat
      BY RulesAssumption DEF Typed, TypeOK, Settled
    <2>2. QED BY <2>1
  <1>1. l \notin labels[u] /\ l \notin R.add BY <1>0 DEF Barred, Excluding, R
  <1>2. u \in Tickets BY RulesAssumption, RuleTyped DEF RuleType
  <1>3. CASE UNCHANGED vars BY <1>1, <1>3 DEF vars, tracker
  <1>4. CASE QuietNext BY <1>1, <1>2, <1>4, RequestsWait DEF Excluding
  <1>5. QED BY <1>3, <1>4

\* What a rule matches is barred to the later ones, and not on the branch of
\* what the earlier ones have dispatched.
LEMMA QueryBars ==
    ASSUME BranchesGuarded, Typed, WalkInv, BranchInv, QueryRule
    PROVE  BranchInv'
  <1>1. /\ pc = "rule" /\ pc' = "ticket" /\ UNCHANGED <<run, rule, labels, tkt>>
        /\ todo' \subseteq Matching /\ rule \in DOMAIN Rules /\ R = Rules[rule]
    BY RulesAssumption DEF QueryRule, Typed, TypeOK, R, tracker
  <1>2. ASSUME NEW t \in todo' PROVE Barred(rule, t)'
    <2>1. t \in R.items /\ \A u \in R.unless[t] : u[2] \notin labels[u[1]]
      BY <1>1, <1>2 DEF Matching
    <2>2. ASSUME NEW s, NEW u, NEW l \in Excluding(rule, t, s, u) PROVE l \notin labels[u]
      BY <1>1, <2>1, <2>2 DEF Excluding
    <2>3. QED BY <1>1, <2>2 DEF Barred
  <1>3. ASSUME NEW i \in Requested
        PROVE  Barred(run[i].rule, run[i].tkt)' /\ (run[i].rule < rule => OffBranch(i)')
    <2>1. Barred(run[i].rule, run[i].tkt) BY <1>1 DEF BranchInv
    <2>2. Live(i) /\ Origin(i) BY DEF Requested, Live, WalkInv
    <2>3. ASSUME run[i].rule < rule, NEW u \in todo'
          PROVE  ~SameBranch(run[i].rule, run[i].tkt, rule, u)
      <3> SUFFICES ASSUME SameBranch(run[i].rule, run[i].tkt, rule, u) PROVE FALSE OBVIOUS
      <3>1. u \in R.items /\ R.needs \subseteq labels[u] BY <1>1 DEF Matching
      <3>2. PICK l : l \in Excluding(run[i].rule, run[i].tkt, rule, u)
        BY <1>1, <2>2, <2>3, <3>1 DEF BranchesGuarded, Origin
      <3>3. l \in R.needs /\ l \notin labels[u]
        <4>1. rule <= rule BY <1>1, RulesAssumption DEF Typed, TypeOK
        <4>2. QED BY <1>1, <2>1, <2>3, <3>1, <3>2, <4>1 DEF Barred, Excluding
      <3>4. QED BY <3>1, <3>3
    <2>4. Barred(run[i].rule, run[i].tkt)' BY <1>1, <2>1 DEF Barred
    <2>5. run[i].rule < rule => OffBranch(i)' BY <1>1, <2>3 DEF OffBranch, SameBranch
    <2>6. QED BY <2>4, <2>5
  <1>4. Requested' = Requested BY <1>1 DEF Requested
  <1>5. QED BY <1>1, <1>2, <1>3, <1>4 DEF BranchInv

\* A dispatch is barred by the query that found its ticket.
LEMMA TriggerBars ==
    ASSUME Typed, WalkInv, BranchInv, [QuietNext]_vars, NEW i \in RunIds, Trigger(i)
    PROVE  BranchInv'
  <1>t. TypeOK BY DEF Typed
  <1>1. /\ pc = "act" /\ pc' = "mark" /\ UNCHANGED <<rule, todo, tkt, labels>>
        /\ rule \in Nat \ {0} /\ ~Settled
    BY <1>t DEF Trigger, loop, tracker, TypeOK, Settled
  <1>2. /\ Requested' \subseteq Requested \cup {i}
        /\ \A j \in RunIds \ {i} : run'[j] = run[j]
        /\ run'[i].tkt = tkt /\ run'[i].rule = rule
    BY <1>t, TriggerStep
  <1>3. \A r \in 1 .. rule : \A t : Barred(r, t) => Barred(r, t)' BY <1>1, BarredKept
  <1>4. ASSUME NEW j \in Requested'
        PROVE  /\ Barred(run[j].rule, run[j].tkt)'
               /\ run'[j].rule < rule' => OffBranch(j)'
    <2>1. CASE j = i
      <3>1. Barred(rule, tkt) /\ rule \in 1 .. rule BY <1>1 DEF BranchInv
      <3>2. QED BY <1>1, <1>2, <1>3, <2>1, <3>1
    <2>2. CASE j # i
      <3>1. j \in Requested /\ run'[j] = run[j] BY <1>2, <2>2 DEF Requested
      <3>2. /\ Barred(run[j].rule, run[j].tkt) /\ run[j].rule \in 1 .. rule
            /\ run[j].rule < rule => OffBranch(j)
        BY <1>1, <3>1 DEF BranchInv, WalkInv, RequestInv
      <3>3. Barred(run[j].rule, run[j].tkt)' BY <1>3, <3>1, <3>2 DEF Barred
      <3>4. QED BY <1>1, <3>1, <3>2, <3>3 DEF OffBranch
    <2>3. QED BY <2>1, <2>2
  <1>5. QED BY <1>1, <1>3, <1>4 DEF BranchInv

\* The other steps of the walk take tickets away or move the rule on.
LEMMA WalkBars ==
    ASSUME Typed, WalkInv, BranchInv, [QuietNext]_vars, ~Settled,
           Requested' \subseteq Requested, \A j \in Requested' : run'[j] = run[j],
           \/ /\ rule' = rule /\ todo' \subseteq todo
              /\ \/ pc = "ticket" /\ pc' \in {"ticket", "move", "act"} /\ tkt' \in todo \cup {tkt}
                    /\ (pc' = "ticket" \/ tkt' \in todo)
                 \/ pc \in {"move", "act", "mark"} /\ tkt' = tkt
                    /\ (pc' = pc \/ pc' = "ticket" \/ (pc = "move" /\ pc' = "act"))
           \/ pc' = "rule" /\ rule' \in {rule, rule + 1}
           \/ pc' = "idle"
    PROVE  BranchInv'
  <1>1. pc # "idle" BY DEF Settled
  <1>2. pc' # "idle" => \A r \in 1 .. rule : \A t : Barred(r, t) => Barred(r, t)' BY BarredKept
  <1>3. ASSUME NEW j \in Requested', pc' # "idle" PROVE Barred(run[j].rule, run[j].tkt)'
    <2>1. Barred(run[j].rule, run[j].tkt) /\ run[j].rule \in 1 .. rule
      BY <1>1 DEF BranchInv, WalkInv, RequestInv
    <2>2. QED BY <1>2, <1>3, <2>1 DEF Barred
  <1>4. CASE pc' = "rule" \/ pc' = "idle" BY <1>3, <1>4 DEF BranchInv
  <1>5. CASE pc' \notin {"rule", "idle"}
    <2>1. /\ rule' = rule /\ todo' \subseteq todo /\ pc # "rule"
          /\ rule \in 1 .. rule
      BY <1>5 DEF Typed, TypeOK
    <2>2. \A t \in todo' : Barred(rule, t)' BY <1>1, <1>2, <1>5, <2>1 DEF BranchInv
    <2>3. pc' \in {"move", "act", "mark"} => Barred(rule, tkt)' BY <1>1, <1>2, <1>5, <2>1 DEF BranchInv
    <2>4. ASSUME NEW j \in Requested', run'[j].rule < rule' PROVE OffBranch(j)'
      <3>1. OffBranch(j) BY <1>1, <2>1, <2>4 DEF BranchInv
      <3>2. QED BY <1>5, <2>1, <2>4, <3>1 DEF OffBranch, SameBranch
    <2>5. QED BY <1>3, <2>1, <2>2, <2>3, <2>4, <1>5 DEF BranchInv
  <1>6. QED BY <1>4, <1>5

\* One step of the tick, its runs or the people.
LEMMA StepBars ==
    ASSUME BranchesGuarded, Typed, WalkInv, BranchInv, [QuietNext]_vars
    PROVE  BranchInv'
  <1>t. TypeOK BY DEF Typed
  <1>1. CASE QueryRule BY <1>1, QueryBars
  <1>2. CASE \E i \in RunIds : Trigger(i) BY <1>2, TriggerBars
  <1>3. CASE Runner
    <2>1. UNCHANGED <<pc, rule, todo, tkt>> BY <1>3, <1>t, RunnerStep DEF loop
    <2>2. Requested' \subseteq Requested /\ \A j \in Requested' : run'[j] = run[j]
      BY <1>3, <1>t, RunnerShrinks
    <2>3. CASE Settled BY <2>1, <2>2, <2>3 DEF Settled, BranchInv
    <2>4. CASE ~Settled
      <3>1. pc \in {"rule", "ticket", "move", "act", "mark"} BY <1>t, <2>4 DEF Settled, TypeOK
      <3>2. QED BY <2>1, <2>2, <2>4, <3>1, WalkBars
    <2>5. QED BY <2>3, <2>4
  <1>4. CASE StartTick
    <2>1. Requested' = {} /\ pc' = "rule" BY <1>4 DEF StartTick, Requested
    <2>2. QED BY <2>1 DEF BranchInv
  <1>5. CASE LeaveRule \/ TickDies
    <2>1. /\ UNCHANGED run
          /\ pc' = "idle" \/ (pc' = "rule" /\ rule' = rule + 1)
      BY <1>5 DEF LeaveRule, TickDies
    <2>2. Requested' = Requested BY <2>1 DEF Requested
    <2>3. CASE Settled
      <3>1. Requested' = {} \/ pc' = "idle" BY <1>5, <2>2, <2>3 DEF Settled, LeaveRule, TickDies
      <3>2. QED BY <2>1, <3>1 DEF BranchInv
    <2>4. CASE ~Settled BY <2>1, <2>2, <2>4, WalkBars
    <2>5. QED BY <2>3, <2>4
  <1>6. CASE \E t \in Tickets : SkipTicket(t) \/ TakeTicket(t)
    <2>1. /\ UNCHANGED <<run, rule>> /\ pc = "ticket" /\ todo' \subseteq todo
          /\ \/ pc' = "ticket" /\ tkt' = tkt
             \/ pc' \in {"move", "act"} /\ tkt' \in todo
      BY <1>6 DEF SkipTicket, TakeTicket
    <2>2. Requested' = Requested /\ ~Settled BY <2>1 DEF Requested, Settled
    <2>3. QED BY <2>1, <2>2, WalkBars
  <1>7. CASE MoveStatus \/ MoveRefused \/ NoTrigger \/ MarkTriggered \/ RunLocally
    <2>1. /\ UNCHANGED <<run, rule, tkt>> /\ pc \in {"move", "act", "mark"} /\ todo' \subseteq todo
          /\ pc' = "ticket" \/ (pc = "move" /\ pc' = "act")
      BY <1>7 DEF MoveStatus, MoveRefused, NoTrigger, MarkTriggered, RunLocally, loop
    <2>2. Requested' = Requested /\ ~Settled BY <2>1 DEF Requested, Settled
    <2>3. QED BY <2>1, <2>2, WalkBars
  <1>8. CASE QuietPeople \/ UNCHANGED vars
    <2>1. UNCHANGED <<run, pc, rule, todo, tkt>> BY <1>8 DEF QuietPeople, Request, vars, loop
    <2>2. Requested' = Requested BY <2>1 DEF Requested
    <2>3. CASE Settled BY <2>1, <2>2, <2>3 DEF Settled, BranchInv
    <2>4. CASE ~Settled
      <3>1. pc \in {"rule", "ticket", "move", "act", "mark"} BY <1>t, <2>4 DEF Settled, TypeOK
      <3>2. QED BY <2>1, <2>2, <2>4, <3>1, WalkBars
    <2>5. QED BY <2>3, <2>4
  <1>9. QED
    BY <1>1, <1>2, <1>3, <1>4, <1>5, <1>6, <1>7, <1>8 DEF QuietNext, Tick

\* branchLegGuard finds no leg in flight on the branch of the ticket in hand:
\* the listing shows the ones of earlier ticks, the labels exclude this one's.
LEMMA FreshBranch ==
    ASSUME ~ProbeErrors, BranchesGuarded, Typed, WalkInv, BranchInv, NEW i \in RunIds, Trigger(i),
           R.branch[tkt] # NoBranch
    PROVE  \A j \in InFlight : run[j].branch # R.branch[tkt]
  <1> SUFFICES ASSUME NEW j \in InFlight, run[j].branch = R.branch[tkt] PROVE FALSE OBVIOUS
  <1>1. /\ j \in Requested /\ run[j].rule \in 1 .. rule
        /\ Origin(j) /\ R.kind = "dispatch" /\ tkt \in R.items /\ rule \in DOMAIN Rules
        /\ ~(run[j].rule = rule /\ (run[j].tkt = tkt \/ R.limit = 1))
    BY FreshDispatch
  <1>2. SameBranch(run[j].rule, run[j].tkt, rule, tkt)
    BY <1>1 DEF SameBranch, Origin, R
  <1>3. run[j].rule # rule
    <2>1. run[j].rule \in DOMAIN Rules /\ run[j].tkt \in Rules[run[j].rule].items BY <1>1 DEF Origin
    <2>2. tkt \in Rules[rule].items BY <1>1 DEF R
    <2>3. run[j].rule = rule => run[j].tkt = tkt \/ Rules[rule].limit = 1
      BY <1>1, <1>2, <2>1, <2>2 DEF BranchesGuarded
    <2>4. QED BY <1>1, <2>3 DEF R
  <1>4. run[j].rule < rule /\ pc = "act"
    <2>1. rule \in Nat BY DEF Typed, TypeOK
    <2>2. QED BY <1>1, <1>3, <2>1 DEF Trigger
  <1>5. OffBranch(j) BY <1>1, <1>4 DEF BranchInv
  <1>6. QED BY <1>2, <1>4, <1>5 DEF OffBranch

\* Only a dispatch puts a leg on a branch.
LEMMA StepBranch ==
    ASSUME Typed, OneLegPerBranch, [Next]_vars,
           \A i \in RunIds : Trigger(i) /\ R.branch[tkt] # NoBranch =>
               \A j \in InFlight : run[j].branch # R.branch[tkt]
    PROVE  OneLegPerBranch'
  <1>t. TypeOK BY DEF Typed
  <1>1. CASE \E i \in RunIds : Trigger(i)
    <2> PICK i \in RunIds : Trigger(i) BY <1>1
    <2>1. /\ i \notin InFlight /\ InFlight' = InFlight \cup {i}
          /\ \A j \in RunIds \ {i} : run'[j] = run[j]
          /\ run'[i].branch = R.branch[tkt]
      BY <1>t, TriggerStep
    <2>2. \A j \in InFlight : run'[j] = run[j] /\ (run'[i].branch # NoBranch => run'[j].branch # run'[i].branch)
      BY <2>1 DEF InFlight
    <2>3. QED BY <2>1, <2>2 DEF OneLegPerBranch
  <1>2. CASE Runner
    <2>1. InFlight' \subseteq InFlight /\ \A j \in InFlight' : run'[j].branch = run[j].branch
      BY <1>2, <1>t, RunnerShrinks
    <2>2. QED BY <2>1 DEF OneLegPerBranch
  <1>3. CASE UNCHANGED run
    BY <1>3, SameRuns DEF OneLegPerBranch
  <1>4. QED BY <1>1, <1>2, <1>3, StepRuns

LEMMA InitBranch == Init => OneLegPerBranch /\ BranchInv
  BY DEF Init, OneLegPerBranch, InFlight, Live, FreeRun, BranchInv

\* A quiet step is a step.
LEMMA QuietSteps == QuietSpec => Spec
  <1>1. [QuietNext]_vars => [Next]_vars BY DEF QuietNext, Next, QuietPeople, People
  <1>2. QED BY <1>1, PTL DEF QuietSpec, Spec

\* A PR branch never has two writers, although the listing that branchLegGuard
\* reads lags: the request label that one rule excludes and the other asks for
\* keeps the second rule away from what the first has just dispatched, as long as
\* nobody adds that label behind the tick's back.
THEOREM OneLegHolds ==
    ASSUME ~ProbeErrors, BranchesGuarded
    PROVE  QuietSpec => []OneLegPerBranch
  <1>1. BranchInv /\ Typed /\ WalkInv /\ [QuietNext]_vars => BranchInv' BY StepBars
  <1>2. OneLegPerBranch /\ BranchInv /\ Typed /\ WalkInv /\ [QuietNext]_vars => OneLegPerBranch'
    BY FreshBranch, StepBranch DEF QuietNext, Next, QuietPeople, People
  <1>3. QED
    BY <1>1, <1>2, InitBranch, QuietSteps, AlwaysTyped, AlwaysWalks, PTL DEF QuietSpec

\* Nor where a run is listed as soon as it is dispatched, whoever adds what.
THEOREM OneLegListed ==
    ASSUME ~ProbeErrors, ~ListingLag
    PROVE  Spec => []OneLegPerBranch
  <1>1. OneLegPerBranch /\ Typed /\ WalkInv /\ [Next]_vars => OneLegPerBranch'
    BY FreshDispatch, StepBranch
  <1>2. QED BY <1>1, InitBranch, AlwaysTyped, AlwaysWalks, PTL DEF Spec

-----------------------------------------------------------------------------
\* Locks stay with their runs

\* A trigger label belongs to the rule that writes it: no request label is
\* consumed under its name, no job inside the tick releases it, and only rules
\* that look for the same run recover it.
LocksOwned ==
    \A r, s \in DOMAIN Rules : \A t \in Rules[r].items \cap Rules[s].items : \A l \in Rules[r].add :
        Rules[r].kind = "dispatch" =>
            /\ l \notin Rules[s].consume
            /\ Rules[s].kind # "dispatch" => l \notin Rules[s].release
            /\ /\ \E n \in DOMAIN Rules[s].skip : Rules[s].skip[n] = l
               /\ Rules[s].recover = "yes" \/ (Rules[s].recover = "default" /\ l \in Rules[s].add)
               => Rules[s].kind = "dispatch" /\ Rules[s].key[t] = Rules[r].key[t]

\* Recovery takes up a ticket of the running rule only when no run in flight
\* has its key: the listed ones are seen, this tick's own are not visited again.
LEMMA RecoveryLeaves ==
    ASSUME ~ProbeErrors, KeysApart, LocksOwned, Typed, WalkInv, NEW t \in Tickets, TakeTicket(t),
           NEW i \in InFlight, run[i].tkt = t, NEW l \in Rules[run[i].rule].add, l \in labels[t]
    PROVE  l \in labels'[t]
  <1> SUFFICES ASSUME l \notin labels'[t] PROVE FALSE OBVIOUS
  <1>o. Origin(i) BY DEF WalkInv, InFlight
  <1>t. labels \in [Tickets -> SUBSET Labels] BY DEF Typed, TypeOK
  <1>1. /\ HeldSkips(t) # {} /\ Recoverable(FirstSkip(t)) /\ \E view \in Views : Stale(view, t)
        /\ labels' = [labels EXCEPT ![t] = @ \ {FirstSkip(t)}]
    BY <1>t DEF TakeTicket
  <1>2. l = FirstSkip(t) BY <1>1, <1>t
  <1>3. pc = "ticket" /\ t \in todo BY DEF TakeTicket
  <1>4. rule \in DOMAIN Rules /\ R \in RuleType /\ t \in R.items
    BY <1>3, RulesAssumption, RuleTyped DEF Typed, TypeOK, R, WalkInv, LoopInv
  <1>5. \E n \in DOMAIN R.skip : R.skip[n] = l
    <2>1. HeldSkips(t) \subseteq DOMAIN R.skip /\ DOMAIN R.skip \subseteq Nat
      BY <1>4 DEF HeldSkips, RuleType
    <2>2. \E n \in HeldSkips(t) : \A m \in HeldSkips(t) : n <= m
      BY <1>1, <2>1, SmallestIndex
    <2>3. QED BY <1>2, <2>1, <2>2 DEF FirstSkip
  <1>6. R.recover = "yes" \/ (R.recover = "default" /\ l \in R.add) BY <1>1, <1>2 DEF Recoverable
  <1>7. R.kind = "dispatch" /\ R.key[t] = Rules[run[i].rule].key[t]
    <2>1. /\ run[i].rule \in DOMAIN Rules /\ Rules[run[i].rule].kind = "dispatch"
          /\ t \in Rules[run[i].rule].items \cap Rules[rule].items
          /\ \E n \in DOMAIN Rules[rule].skip : Rules[rule].skip[n] = l
          /\ Rules[rule].recover = "yes" \/ (Rules[rule].recover = "default" /\ l \in Rules[rule].add)
      BY <1>o, <1>4, <1>5, <1>6 DEF Origin, R
    <2>2. QED BY <1>4, <2>1 DEF LocksOwned, R
  <1>8. run[i].key = R.key[t] BY <1>o, <1>7 DEF Origin
  <1>9. ~ActiveOn(Blocking, R.key[t]) BY <1>1, <1>7 DEF Stale, Views
  <1>10. i \in Requested BY <1>8, <1>9, Unlisted DEF ActiveOn, Typed
  <1>11. ListingLag /\ RequestInv(i) BY <1>3, <1>10 DEF WalkInv
  <1>12. run[i].rule = rule
    <2>1. /\ run[i].rule \in DOMAIN Rules /\ Rules[run[i].rule].kind = "dispatch"
          /\ t \in Rules[run[i].rule].items /\ t \in Rules[rule].items /\ Rules[rule].kind = "dispatch"
          /\ Rules[run[i].rule].key[t] = Rules[rule].key[t]
      BY <1>o, <1>4, <1>7 DEF Origin, R
    <2>2. QED BY <1>4, <1>11, <2>1 DEF KeysApart
  <1>13. QED BY <1>3, <1>11, <1>12 DEF RequestInv

\* Who takes a trigger label away from the ticket of a run in flight.
LEMMA LockTakers ==
    ASSUME ~ProbeErrors, KeysApart, LocksOwned, Typed, WalkInv, [Next]_vars, NEW i \in InFlight,
           NEW l \in Rules[run[i].rule].add, l \in labels[run[i].tkt], l \notin labels'[run[i].tkt]
    PROVE  \/ pc = "mark" /\ tkt = run[i].tkt
           \/ \E j \in RunIds : run[j].tkt = run[i].tkt /\ run[j].st = "running" /\ run'[j].st = "closing"
  <1> DEFINE t == run[i].tkt
  <1>t. labels \in [Tickets -> SUBSET Labels] /\ run \in [RunIds -> RunType] BY DEF Typed, TypeOK
  <1>o. Origin(i) /\ t \in Tickets BY OriginTyped DEF WalkInv, InFlight
  <1>1. CASE \E u \in Tickets : TakeTicket(u)
    <2> PICK u \in Tickets : TakeTicket(u) BY <1>1
    <2>1. u = t BY <1>t, <1>o DEF TakeTicket
    <2>2. QED BY <1>o, <2>1, RecoveryLeaves
  <1>2. CASE NoTrigger \/ RunLocally
    <2>1. pc = "act" /\ t = tkt BY <1>t, <1>o, <1>2 DEF NoTrigger, RunLocally, tracker
    <2>2. rule \in DOMAIN Rules /\ t \in Rules[rule].items
      BY <2>1, RulesAssumption DEF Typed, TypeOK, WalkInv, LoopInv, R
    <2>3. /\ l \notin Rules[rule].consume
          /\ Rules[rule].kind # "dispatch" => l \notin Rules[rule].release
      <3>1. /\ run[i].rule \in DOMAIN Rules /\ Rules[run[i].rule].kind = "dispatch"
            /\ t \in Rules[run[i].rule].items \cap Rules[rule].items
        BY <1>o, <2>2 DEF Origin
      <3>2. QED BY <2>2, <3>1 DEF LocksOwned
    <2>4. CASE NoTrigger BY <1>t, <1>o, <2>1, <2>3, <2>4 DEF NoTrigger, R
    <2>5. CASE RunLocally BY <1>t, <1>o, <2>1, <2>3, <2>5 DEF RunLocally, R, tracker
    <2>6. QED BY <1>2, <2>4, <2>5
  <1>3. CASE MarkTriggered
    BY <1>t, <1>o, <1>3 DEF MarkTriggered
  <1>4. CASE \E j \in RunIds : PostAction(j)
    <2> PICK j \in RunIds : PostAction(j) BY <1>4
    <2>1. run[j].st = "running" /\ run'[j].st = "closing"
      BY <1>t DEF PostAction, Becomes, RunType
    <2>2. run[j].tkt = t BY <1>t, <1>o DEF PostAction
    <2>3. QED BY <2>1, <2>2
  <1>5. CASE People
    BY <1>t, <1>o, <1>5 DEF People, Request
  <1>6. CASE UNCHANGED labels BY <1>6
  <1>7. \/ (\E u \in Tickets : TakeTicket(u)) \/ NoTrigger \/ RunLocally \/ MarkTriggered
        \/ (\E j \in RunIds : PostAction(j)) \/ People \/ UNCHANGED labels
    BY DEF Next, Tick, Runner, StartTick, QueryRule, LeaveRule, SkipTicket, MoveStatus, MoveRefused,
           Trigger, TickDies, Register, Start, Age, EndRun, vars, tracker
  <1>8. QED BY <1>1, <1>2, <1>3, <1>4, <1>5, <1>6, <1>7

\* tryRecoverStaleTriggerLabel never takes the trigger label of a ticket from
\* under a run still in flight, listed or not, for any rule list in which a
\* trigger label belongs to the rule that writes it.
THEOREM LockHeld ==
    ASSUME ~ProbeErrors, KeysApart, LocksOwned
    PROVE  Spec => LockNotStolen
  <1>1. Typed /\ WalkInv /\ [Next]_vars =>
          [\A i \in InFlight :
             LET r == Rules[run[i].rule]
                 t == run[i].tkt
             IN run'[i] = run[i] /\ (labels[t] \cap r.add) \ labels'[t] # {}
                => \/ pc = "mark" /\ tkt = t
                   \/ \E j \in RunIds : run[j].tkt = t /\ run[j].st = "running" /\ run'[j].st = "closing"]_vars
    BY LockTakers
  <1>2. QED BY <1>1, AlwaysTyped, AlwaysWalks, PTL DEF Spec, LockNotStolen

-----------------------------------------------------------------------------
\* The dispatcher implements the slots it promises

\* The instance counts sets as this module does.
LEMMA SameCardinality == \A S : Legs!Cardinality(S) = Cardinality(S)
  BY DEF Legs!Cardinality, Cardinality

\* The filled slots are the runs in flight.
LEMMA FilledSlots ==
    ASSUME Typed, KeyInv
    PROVE  Legs!Filled = InFlight
  <1>1. \A i \in InFlight : i \in RunIds /\ run[i].key \in Keys BY OriginTyped DEF KeyInv, InFlight
  <1>2. QED BY <1>1, NothingAssumption DEF Legs!Filled, LegOf, InFlight

LEMMA InitSlots == Init => Legs!Init
  BY DEF Init, Legs!Init, LegOf, InFlight, Live, FreeRun

\* A run that ends or ages out empties its slot and no other.
LEMMA RunnerSlots ==
    ASSUME Typed, KeyInv, Runner
    PROVE  [Legs!Next]_LegOf
  <1>1. /\ InFlight' \subseteq InFlight /\ \A j \in InFlight' : run'[j].key = run[j].key
        /\ \E i \in RunIds : InFlight \ {i} \subseteq InFlight'
    BY RunnerShrinks DEF Typed
  <1>2. CASE InFlight' = InFlight
    BY <1>1, <1>2 DEF LegOf
  <1>3. CASE InFlight' # InFlight
    <2>1. PICK i \in InFlight : InFlight' = InFlight \ {i} BY <1>1, <1>3
    <2>2. i \in RunIds /\ run[i].key # NoKey
      BY OriginTyped, NothingAssumption DEF KeyInv, InFlight
    <2>3. LegOf[i] # NoKey BY <2>1, <2>2 DEF LegOf
    <2>4. LegOf' = [LegOf EXCEPT ![i] = NoKey] BY <1>1, <2>1, <2>2 DEF LegOf
    <2>5. Legs!Finish(i) BY <2>3, <2>4 DEF Legs!Finish
    <2>6. QED BY <2>2, <2>5 DEF Legs!Next
  <1>4. QED BY <1>2, <1>3

\* A dispatch fills an empty slot with a key no other slot has, within the cap.
LEMMA TriggerSlots ==
    ASSUME ~ProbeErrors, KeysApart, Typed, KeyInv, CapInv, CapInv', NEW i \in RunIds, Trigger(i)
    PROVE  Legs!Next
  <1>t. TypeOK BY DEF Typed
  <1>0. PICK k \in Keys : k = R.key[tkt]
    <2>1. tkt \in Tickets /\ R \in RuleType
      BY RulesAssumption, RuleTyped DEF Trigger, Typed, TypeOK, R
    <2>2. QED BY <2>1 DEF RuleType
  <1>1. /\ i \notin InFlight /\ InFlight' = InFlight \cup {i}
        /\ \A j \in RunIds \ {i} : run'[j] = run[j]
        /\ run'[i].key = k
    BY <1>t, <1>0, TriggerStep
  <1>2. LegOf[i] = NoKey BY <1>1 DEF LegOf
  <1>3. LegOf' = [LegOf EXCEPT ![i] = k] BY <1>1 DEF LegOf
  <1>4. \A j \in RunIds : LegOf[j] # k
    BY <1>0, FreshKey, NothingAssumption DEF LegOf
  <1>5. Cardinality(InFlight) < Cap
    <2>1. Cardinality(InFlight') = Cardinality(InFlight) + 1
      BY <1>1, RunSetsFinite, FS_AddElement
    <2>2. Cardinality(InFlight') <= Cap BY DEF CapInv, WithinCap
    <2>3. QED BY <2>1, <2>2, RunSetsFinite, CapAssumption
  <1>6. Legs!Dispatch(i, k)
    BY <1>2, <1>3, <1>4, <1>5, FilledSlots, SameCardinality DEF Legs!Dispatch
  <1>7. QED BY <1>6 DEF Legs!Next

LEMMA StepSlots ==
    /\ ~ProbeErrors /\ KeysApart /\ Typed /\ KeyInv /\ CapInv /\ CapInv' /\ [Next]_vars
    => [Legs!Next]_LegOf
  <1> SUFFICES ASSUME ~ProbeErrors, KeysApart, Typed, KeyInv, CapInv, CapInv', [Next]_vars
               PROVE  [Legs!Next]_LegOf
    OBVIOUS
  <1>1. CASE \E i \in RunIds : Trigger(i) BY <1>1, TriggerSlots
  <1>2. CASE Runner BY <1>2, RunnerSlots
  <1>3. CASE UNCHANGED run
    BY <1>3, SameRuns DEF LegOf
  <1>4. QED BY <1>1, <1>2, <1>3, StepRuns

\* Every behaviour of the tick, the runs and the people is, seen through the
\* runs in flight, a behaviour of LegSlots.
THEOREM Refinement ==
    ASSUME ~ProbeErrors, KeysApart, ReleaseBeforeDispatch
    PROVE  Spec => ImplementsLegSlots
  <1>1. Typed /\ KeyInv /\ [Next]_vars => KeyInv' BY StepKey
  <1>2. Typed /\ CapInv /\ [Next]_vars => CapInv' BY StepCap
  <1>3. Typed /\ KeyInv /\ CapInv /\ CapInv' /\ [Next]_vars => [Legs!Next]_LegOf
    BY StepSlots
  <1>4. QED
    BY <1>1, <1>2, <1>3, InitKey, InitCap, InitSlots, AlwaysTyped, PTL
       DEF Spec, ImplementsLegSlots, Legs!Spec
=============================================================================
