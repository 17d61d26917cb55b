-------------------------- MODULE MergeBackstopProofs --------------------------
(***************************************************************************)
(* For any number of funnels and threads and any set of environments: the  *)
(* types, the bound on digests, that closed findings are on record, and    *)
(* that merged pull requests have no open thread left.                     *)
(***************************************************************************)
EXTENDS MergeBackstop, FiniteSetTheorems, SequenceTheorems, TLAPS

-----------------------------------------------------------------------------
(* Where a funnel goes. *)

\* A step of one funnel leaves the others where they are.
LEMMA GoesFacts ==
    ASSUME at \in [Funnels -> Funnel], NEW f \in Funnels, NEW step, Goes(f, step)
    PROVE  /\ at'[f] = step
           /\ \A g \in Funnels : g # f => at'[g] = at[g]
           /\ step \in Funnel => at' \in [Funnels -> Funnel]
BY DEF Goes

LEMMA GoesTo ==
    ASSUME at \in [Funnels -> Funnel], NEW f \in Funnels, NEW step, Goes(f, step)
    PROVE  Goes(f, at'[f]) /\ at'[f] = step
<1>1. at'[f] = step
  BY GoesFacts
<1> QED BY <1>1

\* A funnel that gave up is a funnel.
LEMMA AwayTyped == Away \in Funnel
BY DEF Away, Funnel, Digest

\* A nonempty set of numbers has a least one.
LEMMA MinIn ==
    ASSUME NEW S \in SUBSET Nat, S # {}
    PROVE  Min(S) \in S
<1>1. PICK x \in S : \A y \in S : ~(<<y, x>> \in OpToRel(<, Nat))
  BY NatLessThanWellFounded, WFMin
<1>2. \A y \in S : ~(y < x)
  BY <1>1 DEF OpToRel
<1>3. \A y \in S : x =< y
  BY <1>2
<1> QED BY <1>3 DEF Min

\* The search finds digests that were filed.
LEMMA FindTyped ==
    ASSUME digests \in Seq(SUBSET Threads), NEW found \in Found, NEW own
    PROVE  FindExistingDigest(found, own) \in {0} \cup 1 .. Len(digests)
<1>1. found \in SUBSET Nat /\ found \subseteq 1 .. Len(digests)
  <2>1. Len(digests) \in Nat
    OBVIOUS
  <2>2. found \subseteq 1 .. Len(digests)
    <3>1. CASE "search-lag" \in env
      BY <3>1 DEF Found
    <3>2. CASE "search-lag" \notin env
      BY <3>2 DEF Found
    <3> QED BY <3>1, <3>2
  <2>3. 1 .. Len(digests) \subseteq Nat
    BY <2>1
  <2> QED BY <2>2, <2>3
<1>2. CASE found \ {own} = {}
  BY <1>2 DEF FindExistingDigest
<1>3. CASE found \ {own} # {}
  <2>1. Min(found \ {own}) \in found \ {own}
    BY <1>1, <1>3, MinIn
  <2> QED BY <2>1, <1>1, <1>3 DEF FindExistingDigest
<1> QED BY <1>2, <1>3

-----------------------------------------------------------------------------
(* Types. *)

\* A funnel that filed or found a digest knows its number.
Knows(step) ==
    \/ step.pc \in {"reprobe", "stamp"}
    \/ step.pc \in {"resolve", "reply"} /\ step.counted # {}
    => step.digest # 0

\* The funnels stay funnels, and know only digests that were filed.
AtTyped ==
    /\ at \in [Funnels -> Funnel]
    /\ \A f \in Funnels : at[f].digest <= Len(digests) /\ Knows(at[f])

\* TypeOK without the funnels.
Rest ==
    /\ env \in Environments /\ ready \in BOOLEAN
    /\ merged \in {"nobody", "tick"} \cup Funnels
    /\ thread \in [Threads -> Thread]
    /\ digests \in Seq(SUBSET Threads) /\ Len(digests) <= MaxDigests
    /\ ledger \subseteq Threads

\* Without the numbers TypeOK is not inductive: a reply would tag a thread
\* with digest 0.
Typed == Rest /\ AtTyped

LEMMA TypedIsTypeOK == Typed => TypeOK
BY DEF TypeOK, Typed, Rest, AtTyped

\* A step that knows its digest.
LEMMA AtStep ==
    ASSUME Typed, NEW f \in Funnels, NEW step \in Funnel, Goes(f, step), Knows(step),
           Len(digests') \in Nat, Len(digests) <= Len(digests'),
           step.digest <= Len(digests')
    PROVE  AtTyped'
<1>1. at \in [Funnels -> Funnel]
  BY DEF Typed, AtTyped
<1>2. /\ at'[f] = step /\ at' \in [Funnels -> Funnel]
      /\ \A g \in Funnels : g # f => at'[g] = at[g]
  BY <1>1, GoesFacts
<1>3. \A g \in Funnels : at[g].digest \in Nat /\ at[g].digest <= Len(digests)
  BY <1>1, MaxDigestsAssumption DEF Typed, AtTyped, Funnel, Digest
<1>4. Len(digests) \in Nat
  BY DEF Typed, Rest
<1>5. ASSUME NEW g \in Funnels PROVE at'[g].digest <= Len(digests') /\ Knows(at'[g])
  BY <1>2, <1>3, <1>4 DEF Typed, AtTyped
<1> QED BY <1>2, <1>5 DEF AtTyped

\* A step that files no digest.
LEMMA AtStepUnfiled ==
    ASSUME Typed, NEW f \in Funnels, NEW step \in Funnel, Goes(f, step), Knows(step),
           UNCHANGED digests, step.digest <= Len(digests)
    PROVE  AtTyped'
<1>1. Len(digests') \in Nat /\ Len(digests) <= Len(digests') /\ step.digest <= Len(digests')
  BY DEF Typed, Rest
<1> QED BY <1>1, AtStep

\* A step that throws.
LEMMA AtDefers ==
    ASSUME Typed, NEW f \in Funnels, Defers(f), UNCHANGED digests
    PROVE  AtTyped'
<1>1. Goes(f, Away) /\ Away.digest = 0 /\ 0 <= Len(digests) /\ Knows(Away)
  BY DEF Defers, Away, Typed, Rest, Knows
<1> QED BY <1>1, AwayTyped, AtStepUnfiled

\* What is known of a funnel before a step.
LEMMA FunnelFacts ==
    ASSUME Typed, NEW f \in Funnels
    PROVE  /\ at[f] \in Funnel /\ at[f].digest <= Len(digests) /\ Len(digests) \in Nat
           /\ Knows(at[f])
           /\ 1 .. Len(digests) \subseteq Digest
BY MaxDigestsAssumption DEF Typed, Rest, AtTyped, Digest

\* Each step of a funnel keeps the types.
LEMMA StepTyped ==
    ASSUME Typed, NEW f \in Funnels, Step(f) \/ Disturbed(f)
    PROVE  Typed'
<1> SUFFICES Rest' /\ AtTyped'
  BY DEF Typed
<1>0. /\ Rest /\ at[f] \in Funnel /\ at[f].digest <= Len(digests) /\ Len(digests) \in Nat
      /\ Knows(at[f]) /\ 0 <= Len(digests)
  BY FunnelFacts DEF Typed
<1>1. CASE Visit(f)
  <2>1. /\ [Away EXCEPT !.pc = "threads"] \in Funnel
        /\ [Away EXCEPT !.pc = "threads"].digest = 0
        /\ Knows([Away EXCEPT !.pc = "threads"])
    BY AwayTyped DEF Funnel, Away, Knows
  <2>2. AtTyped'
    BY <1>0, <1>1, <2>1, AtStepUnfiled DEF Visit, issues
  <2>3. Rest'
    BY <1>0, <1>1 DEF Visit, issues, Rest
  <2> QED BY <2>2, <2>3
<1>2. CASE ListThreads(f)
  <2> DEFINE c == Unresolved("gated")
             n == Unresolved("nit")
             step == [at[f] EXCEPT !.pc = IF c = {} THEN "resolve" ELSE "comments",
                                   !.counted = c, !.nits = n, !.todo = c \cup n]
  <2>1. c \subseteq Threads /\ n \subseteq Threads
    BY DEF Unresolved, Open
  <2>2. step \in Funnel /\ step.digest = at[f].digest /\ Knows(step)
    BY <1>0, <2>1 DEF Funnel, Knows
  <2>3. Goes(f, step) /\ UNCHANGED digests
    BY <1>2 DEF ListThreads, issues
  <2>4. AtTyped'
    <3> HIDE DEF step
    <3> QED BY <1>0, <2>2, <2>3, AtStepUnfiled
  <2>5. Rest'
    BY <1>0, <1>2 DEF ListThreads, issues, Rest
  <2> QED BY <2>4, <2>5
<1>3. CASE ReadComments(f)
  <2> DEFINE step == [at[f] EXCEPT !.pc = "probe", !.findings = LedgerBase \cup at[f].counted]
  <2>1. step \in Funnel /\ step.digest = at[f].digest /\ Knows(step)
    BY <1>0 DEF Funnel, LedgerBase, Rest, Knows
  <2>2. Goes(f, step) /\ UNCHANGED digests
    BY <1>3 DEF ReadComments, issues
  <2>3. AtTyped'
    <3> HIDE DEF step
    <3> QED BY <1>0, <2>1, <2>2, AtStepUnfiled
  <2>4. Rest'
    BY <1>0, <1>3 DEF ReadComments, issues, Rest
  <2> QED BY <2>3, <2>4
<1>4. CASE Probe(f)
  <2>1. PICK found \in Found :
          Goes(f, [at[f] EXCEPT !.pc = IF FindExistingDigest(found, 0) = 0 THEN "create" ELSE "stamp",
                                !.digest = FindExistingDigest(found, 0)])
    BY <1>4 DEF Probe
  <2> DEFINE d == FindExistingDigest(found, 0)
             step == [at[f] EXCEPT !.pc = IF d = 0 THEN "create" ELSE "stamp", !.digest = d]
  <2>2. d \in {0} \cup 1 .. Len(digests)
    BY <1>0, FindTyped DEF Rest
  <2>3. d \in {0} \cup Digest /\ d <= Len(digests)
    BY <1>0, <2>2, FunnelFacts
  <2>4. step \in Funnel /\ step.digest = d /\ Knows(step)
    <3> HIDE DEF d
    <3> QED BY <1>0, <2>3 DEF Funnel, Knows
  <2>5. Goes(f, step) /\ UNCHANGED digests
    BY <1>4, <2>1 DEF Probe, issues
  <2>6. AtTyped'
    <3> HIDE DEF step, d
    <3> QED BY <2>3, <2>4, <2>5, AtStepUnfiled
  <2>7. Rest'
    BY <1>0, <1>4 DEF Probe, issues, Rest
  <2> QED BY <2>6, <2>7
<1>5. CASE Create(f)
  <2>1. /\ digests' \in Seq(SUBSET Threads) /\ Len(digests') = Len(digests) + 1
        /\ Len(digests') <= MaxDigests
    <3>1. at[f].findings \in SUBSET Threads
      BY <1>0 DEF Funnel
    <3>2. digests \in Seq(SUBSET Threads) /\ digests' = Append(digests, at[f].findings)
      BY <1>0, <1>5 DEF Create, Rest
    <3>3. digests' \in Seq(SUBSET Threads) /\ Len(digests') = Len(digests) + 1
      <4> HIDE DEF Funnel
      <4> QED BY <3>1, <3>2
    <3>4. Len(digests) < MaxDigests
      BY <1>5 DEF Create
    <3> QED BY <1>0, <3>3, <3>4, MaxDigestsAssumption
  <2>2. Rest'
    BY <1>0, <1>5, <2>1 DEF Create, Rest
  <2>3. CASE Goes(f, [at[f] EXCEPT !.pc = "reprobe", !.digest = Len(digests) + 1])
    <3> DEFINE step == [at[f] EXCEPT !.pc = "reprobe", !.digest = Len(digests) + 1]
    <3>1. Len(digests) + 1 \in Digest
      BY <1>0, <2>1, MaxDigestsAssumption DEF Digest
    <3>2. step \in Funnel /\ step.digest = Len(digests) + 1 /\ Knows(step)
      <4> DEFINE numbered(n) == [at[f] EXCEPT !.pc = "reprobe", !.digest = n]
      <4>1. ASSUME NEW n \in Digest, n # 0
            PROVE  numbered(n) \in Funnel /\ numbered(n).digest = n /\ Knows(numbered(n))
        BY <1>0, <4>1 DEF Funnel, Knows
      <4>2. Len(digests) + 1 \in Digest /\ Len(digests) + 1 # 0
        BY <1>0, <3>1
      <4> QED BY <4>1, <4>2
    <3>3. Goes(f, step)
      BY <2>3
    <3>4. AtTyped'
      <4> HIDE DEF step
      <4> QED BY <1>0, <2>1, <3>2, <3>3, AtStep
    <3> QED BY <2>2, <3>4
  <2>4. CASE Defers(f)
    <3>1. AtTyped'
      BY <1>0, <2>1, <2>4, AwayTyped, AtStep DEF Defers, Away, Knows
    <3> QED BY <2>2, <3>1
  <2> QED BY <1>5, <2>3, <2>4 DEF Create
<1>6. CASE ProbeAgain(f)
  <2>1. PICK found \in Found :
          Goes(f, [at[f] EXCEPT !.pc = "stamp",
                                !.digest = IF FindExistingDigest(found, at[f].digest) = 0 THEN @
                                           ELSE FindExistingDigest(found, at[f].digest)])
    BY <1>6 DEF ProbeAgain
  <2> DEFINE d == FindExistingDigest(found, at[f].digest)
             step == [at[f] EXCEPT !.pc = "stamp", !.digest = IF d = 0 THEN @ ELSE d]
  <2>2. d \in {0} \cup 1 .. Len(digests)
    BY <1>0, FindTyped DEF Rest
  <2>3. d \in {0} \cup Digest /\ d <= Len(digests)
    BY <1>0, <2>2, FunnelFacts
  <2>4. step \in Funnel /\ step.digest <= Len(digests) /\ Knows(step)
    <3>1. at[f].digest # 0
      BY <1>0, <1>6 DEF ProbeAgain, Knows
    <3> HIDE DEF d
    <3> QED BY <1>0, <2>3, <3>1 DEF Funnel, Knows
  <2>5. Goes(f, step) /\ UNCHANGED digests
    BY <1>6, <2>1 DEF ProbeAgain, issues
  <2>6. AtTyped'
    <3> HIDE DEF step, d
    <3> QED BY <2>4, <2>5, AtStepUnfiled
  <2>7. Rest'
    BY <1>0, <1>6 DEF ProbeAgain, issues, Rest
  <2> QED BY <2>6, <2>7
<1>7. CASE StampLedger(f)
  <2>1. [at[f] EXCEPT !.pc = "resolve"] \in Funnel
    BY <1>0 DEF Funnel
  <2>2. /\ [at[f] EXCEPT !.pc = "resolve"].digest = at[f].digest
        /\ Knows([at[f] EXCEPT !.pc = "resolve"])
    BY <1>0, <1>7 DEF Funnel, Knows, StampLedger
  <2>3. AtTyped'
    BY <1>0, <1>7, <2>1, <2>2, AtStepUnfiled DEF StampLedger
  <2>4. at[f].findings \subseteq Threads
    BY <1>0 DEF Funnel
  <2>5. Rest'
    BY <1>0, <1>7, <2>4 DEF StampLedger, Rest
  <2> QED BY <2>3, <2>5
<1>8. CASE Gate(f)
  <2>1. [at[f] EXCEPT !.pc = "merge"] \in Funnel
    BY <1>0 DEF Funnel
  <2>2. /\ [at[f] EXCEPT !.pc = "merge"].digest = at[f].digest
        /\ Knows([at[f] EXCEPT !.pc = "merge"])
    BY <1>0 DEF Funnel, Knows
  <2>3. AtTyped'
    BY <1>0, <1>8, <2>1, <2>2, AtStepUnfiled, AtDefers DEF Gate, issues
  <2>4. Rest'
    BY <1>0, <1>8 DEF Gate, issues, Rest
  <2> QED BY <2>3, <2>4
<1>9. CASE Merge(f)
  <2>1. AtTyped'
    BY <1>9, AtDefers DEF Merge, issues
  <2>2. Rest'
    BY <1>0, <1>9 DEF Merge, issues, Rest
  <2> QED BY <2>1, <2>2
<1>10. CASE MergeRefused(f) \/ Outage(f) \/ Kill(f)
  <2>1. AtTyped'
    BY <1>10, AtDefers DEF MergeRefused, Outage, Kill, issues
  <2>2. Rest'
    BY <1>0, <1>10 DEF MergeRefused, Outage, Kill, issues, Rest
  <2> QED BY <2>1, <2>2
<1>11. CASE Reply(f) \/ ReplyFails(f)
  <2>1. /\ Replied(f) \in Funnel /\ Replied(f).digest = at[f].digest
        /\ Failed(Replied(f)) \in Funnel /\ Failed(Replied(f)).digest = at[f].digest
        /\ Knows(Replied(f)) /\ Knows(Failed(Replied(f)))
    BY <1>0, <1>11 DEF Replied, Failed, Funnel, Knows, Reply, ReplyFails
  <2>2. AtTyped'
    BY <1>0, <1>11, <2>1, AtStepUnfiled DEF Reply, ReplyFails, issues
  <2>3. thread' \in [Threads -> Thread]
    <3>1. CASE Reply(f)
      <4>1. ASSUME NEW t \in Threads, t \in at[f].on \cap at[f].counted
            PROVE  [thread[t] EXCEPT !.tags = @ \cup {at[f].digest}] \in Thread
        <5>1. at[f].digest \in Digest
          BY <1>0, <3>1, <4>1 DEF Reply, Knows, Funnel
        <5>2. thread[t] \in Thread
          BY <1>0 DEF Rest
        <5> QED BY <5>1, <5>2 DEF Thread
      <4> QED BY <1>0, <3>1, <4>1 DEF Reply, Rest
    <3>2. CASE ReplyFails(f)
      BY <1>0, <3>2 DEF ReplyFails, Rest
    <3> QED BY <1>11, <3>1, <3>2
  <2>4. Rest'
    BY <1>0, <1>11, <2>3 DEF Reply, ReplyFails, issues, Rest
  <2> QED BY <2>2, <2>4
<1>12. CASE \E t \in Threads : ResolveThread(f, t) \/ ResolveFails(f, t)
  <2>1. PICK t \in Threads : ResolveThread(f, t) \/ ResolveFails(f, t)
    BY <1>12
  <2> DEFINE done == [at[f] EXCEPT !.pc = "reply", !.todo = @ \ {t}, !.on = {t}]
             left == Failed([at[f] EXCEPT !.todo = @ \ {t}])
  <2>2. /\ done \in Funnel /\ done.digest = at[f].digest
        /\ left \in Funnel /\ left.digest = at[f].digest
        /\ Knows(done) /\ Knows(left)
    BY <1>0, <2>1 DEF Failed, Funnel, Knows, ResolveThread, ResolveFails, Attempted
  <2>3. (Goes(f, done) \/ Goes(f, left)) /\ UNCHANGED digests
    BY <2>1 DEF ResolveThread, ResolveFails, issues
  <2>4. AtTyped'
    <3> HIDE DEF done, left
    <3> QED BY <1>0, <2>2, <2>3, AtStepUnfiled
  <2>5. Rest'
    BY <1>0, <2>1 DEF Closes, ResolveThread, ResolveFails, issues, Rest, Thread
  <2> QED BY <2>4, <2>5
<1> QED
  BY <1>1, <1>2, <1>3, <1>4, <1>5, <1>6, <1>7, <1>8, <1>9, <1>10, <1>11, <1>12
     DEF Step, Disturbed

\* The initial state has the types.
LEMMA InitTyped == Init => Typed
BY AwayTyped, MaxDigestsAssumption
   DEF Init, Typed, Rest, AtTyped, Knows, Away, Thread, Digest

\* Every step keeps them.
LEMMA NextTyped == Typed /\ [Next]_vars => Typed'
<1> SUFFICES ASSUME Typed, [Next]_vars PROVE Typed'
  OBVIOUS
<1>1. CASE \E f \in Funnels : Step(f) \/ Disturbed(f)
  BY <1>1, StepTyped
<1>2. CASE \E t \in Threads : ReviewOpens(t)
  BY <1>2, ZenonT(30) DEF ReviewOpens, issues, Typed, Rest, AtTyped, Knows, Thread
<1>3. CASE MergeableChanges \/ TickMerges
  BY <1>3 DEF MergeableChanges, TickMerges, issues, Typed, Rest, AtTyped, Knows
<1>4. CASE UNCHANGED vars
  BY <1>4 DEF vars, issues, Typed, Rest, AtTyped, Knows
<1> QED BY <1>1, <1>2, <1>3, <1>4 DEF Next

\* Every variable keeps its type: no reply names a digest that was not filed,
\* whatever calls fail (digestNumberOf, fileDigest).
THEOREM TypeCorrect == Spec => []TypeOK
<1>1. Spec => []Typed
  BY InitTyped, NextTyped, PTL DEF Spec
<1>2. Typed => TypeOK
  BY TypedIsTypeOK
<1> QED BY <1>1, <1>2, PTL

-----------------------------------------------------------------------------
(* The environment is fixed. *)

LEMMA EnvFixed == Typed /\ [Next]_vars => env' = env
BY DEF Next, vars, issues, Step, Disturbed, Visit, ListThreads, ReadComments, Probe, Create,
       ProbeAgain, StampLedger, Gate, Merge, MergeRefused, Outage, Kill, Reply, ReplyFails,
       ResolveThread, ResolveFails, ReviewOpens, MergeableChanges, TickMerges

-----------------------------------------------------------------------------
(* One digest per funnel. *)

\* The funnels that found no digest and are about to file one.
Filing(a) == {f \in Funnels : a[f].pc = "create"}

\* Each digest was filed by a funnel that had looked for one before the first
\* was filed, and none looks like that twice.
DigestInv ==
    "search-lag" \notin env => Len(digests) + Cardinality(Filing(at)) <= Cardinality(Funnels)

\* Filing is finite, and shrinks and grows one by one.
LEMMA FilingFinite ==
    ASSUME NEW S \in SUBSET Funnels
    PROVE  IsFiniteSet(S) /\ Cardinality(S) \in Nat /\ Cardinality(S) <= Cardinality(Funnels)
BY FunnelsAssumption, FS_Subset, FS_CardinalityType

LEMMA FilingShrinks ==
    ASSUME NEW S \in SUBSET Funnels, NEW T \in SUBSET Funnels, T \subseteq S
    PROVE  Cardinality(T) <= Cardinality(S)
BY FilingFinite, FS_Subset

\* A step that files nothing and does not set out to.
LEMMA FilesNothing ==
    ASSUME Typed, DigestInv, NEW f \in Funnels, Goes(f, at'[f]), at'[f].pc # "create",
           UNCHANGED <<env, digests>>
    PROVE  DigestInv'
<1>1. Filing(at') \subseteq Filing(at)
  BY GoesFacts DEF Typed, AtTyped, Filing
<1>2. Cardinality(Filing(at')) <= Cardinality(Filing(at))
  BY <1>1, FilingShrinks DEF Filing
<1>3. /\ Cardinality(Filing(at)) \in Nat /\ Cardinality(Filing(at')) \in Nat
      /\ Cardinality(Funnels) \in Nat /\ Len(digests) \in Nat
  BY <1>1, FilingFinite, FunnelsAssumption, FS_CardinalityType DEF Filing, Typed, Rest
<1>4. ASSUME "search-lag" \notin env'
      PROVE  Len(digests') + Cardinality(Filing(at')) <= Cardinality(Funnels)
  <2>1. Len(digests) + Cardinality(Filing(at)) <= Cardinality(Funnels)
    BY <1>4 DEF DigestInv
  <2>2. Len(digests') = Len(digests)
    OBVIOUS
  <2> QED BY <2>1, <2>2, <1>2, <1>3
<1> QED BY <1>4 DEF DigestInv

LEMMA DigestNext == Typed /\ DigestInv /\ [Next]_vars => DigestInv'
<1> SUFFICES ASSUME Typed, DigestInv, [Next]_vars PROVE DigestInv'
  OBVIOUS
<1>0. env' = env
  BY EnvFixed
<1>1. ASSUME NEW f \in Funnels, Step(f) \/ Disturbed(f) PROVE DigestInv'
  <2>0. at[f] \in Funnel /\ at \in [Funnels -> Funnel] /\ Len(digests) \in Nat
    BY FunnelFacts DEF Typed, AtTyped
  <2>1. CASE Probe(f)
    <3>1. PICK found \in Found :
            Goes(f, [at[f] EXCEPT !.pc = IF FindExistingDigest(found, 0) = 0 THEN "create" ELSE "stamp",
                                  !.digest = FindExistingDigest(found, 0)])
      BY <2>1 DEF Probe
    <3> DEFINE d == FindExistingDigest(found, 0)
               step == [at[f] EXCEPT !.pc = IF d = 0 THEN "create" ELSE "stamp", !.digest = d]
    <3>2. digests' = digests
      BY <2>1 DEF Probe, issues
    <3>3. CASE d # 0
      <4>1. at'[f] = step /\ Goes(f, step)
        BY <2>0, <3>1, GoesFacts
      <4>2. at'[f].pc # "create"
        <5> HIDE DEF d
        <5> QED BY <2>0, <3>3, <4>1 DEF Funnel
      <4> HIDE DEF step
      <4> QED BY <1>0, <3>2, <4>1, <4>2, FilesNothing
    <3>4. CASE d = 0
      <4> SUFFICES ASSUME "search-lag" \notin env
                   PROVE  Len(digests) + Cardinality(Filing(at')) <= Cardinality(Funnels)
        BY <1>0, <3>2 DEF DigestInv
      <4>1. found = 1 .. Len(digests)
        BY DEF Found
      <4>2. Len(digests) = 0
        <5>1. ASSUME Len(digests) # 0 PROVE FALSE
          <6>1. found \in SUBSET Nat /\ found \ {0} # {}
            BY <2>0, <4>1, <5>1
          <6>2. Min(found \ {0}) \in found \ {0}
            BY <6>1, MinIn
          <6>3. d = Min(found \ {0})
            BY <6>1 DEF FindExistingDigest
          <6> QED BY <3>4, <6>2, <6>3
        <5> QED BY <5>1
      <4>3. Cardinality(Filing(at')) \in Nat /\ Cardinality(Funnels) \in Nat
            /\ Cardinality(Filing(at')) <= Cardinality(Funnels)
        BY FilingFinite, FunnelsAssumption, FS_CardinalityType DEF Filing
      <4> HIDE DEF d, step
      <4> QED BY <4>2, <4>3
    <3> QED BY <3>3, <3>4
  <2>2. CASE Create(f)
    <3>1. Len(digests') = Len(digests) + 1
      <4>1. digests \in Seq(SUBSET Threads) /\ at[f].findings \in SUBSET Threads
        BY <2>0 DEF Typed, Rest, Funnel
      <4>2. digests' = Append(digests, at[f].findings)
        BY <2>2 DEF Create
      <4> QED BY <4>1, <4>2
    <3>2. f \in Filing(at) /\ Filing(at') = Filing(at) \ {f}
      <4>1. at'[f].pc # "create" /\ \A g \in Funnels : g # f => at'[g] = at[g]
        <5>1. [at[f] EXCEPT !.pc = "reprobe", !.digest = Len(digests) + 1].pc # "create"
              /\ Away.pc # "create"
          BY <2>0 DEF Funnel, Away
        <5> QED BY <2>0, <2>2, <5>1, GoesFacts DEF Create, Defers
      <4> QED BY <2>0, <2>2, <4>1 DEF Filing, Create
    <3>3. Cardinality(Filing(at')) = Cardinality(Filing(at)) - 1 /\ Cardinality(Filing(at)) \in Nat
      BY <3>2, FilingFinite, FS_RemoveElement DEF Filing
    <3>4. Cardinality(Funnels) \in Nat
      BY FunnelsAssumption, FS_CardinalityType
    <3> QED BY <1>0, <2>0, <3>1, <3>3, <3>4 DEF DigestInv
  <2>3. CASE ~Probe(f) /\ ~Create(f)
    <3>1. digests' = digests
      BY <1>1, <2>3 DEF Step, Disturbed, Visit, ListThreads, ReadComments, ProbeAgain,
         StampLedger, Gate, Merge, MergeRefused, Outage, Kill, Reply, ReplyFails, ResolveThread,
         ResolveFails, issues
    <3>2. Goes(f, at'[f]) /\ at'[f].pc # "create"
      <4>1. CASE Visit(f)
        BY <2>0, <4>1, GoesTo DEF Visit, Away
      <4>2. CASE Merge(f) \/ MergeRefused(f) \/ Disturbed(f)
        BY <2>0, <4>2, GoesTo DEF Merge, MergeRefused, Disturbed, Outage, Kill, Defers, Away
      <4>3. CASE ListThreads(f) \/ ReadComments(f)
        <5>1. \A c, n, t : [at[f] EXCEPT !.pc = IF c = {} THEN "resolve" ELSE "comments",
                                        !.counted = c, !.nits = n, !.todo = t].pc # "create"
          BY <2>0 DEF Funnel
        <5>2. \A c : [at[f] EXCEPT !.pc = "probe", !.findings = c].pc # "create"
          BY <2>0 DEF Funnel
        <5>3. CASE ListThreads(f)
          <6> DEFINE c == Unresolved("gated")
                     n == Unresolved("nit")
                     step == [at[f] EXCEPT !.pc = IF c = {} THEN "resolve" ELSE "comments",
                                           !.counted = c, !.nits = n, !.todo = c \cup n]
          <6>1. Goes(f, step) /\ step.pc # "create"
            BY <5>1, <5>3 DEF ListThreads
          <6> HIDE DEF step
          <6> QED BY <2>0, <6>1, GoesTo
        <5>4. CASE ReadComments(f)
          BY <2>0, <5>2, <5>4, GoesTo DEF ReadComments
        <5> QED BY <4>3, <5>3, <5>4
      <4>4. CASE StampLedger(f) \/ ProbeAgain(f)
        <5>1. \A d : [at[f] EXCEPT !.pc = "stamp", !.digest = d].pc # "create"
          BY <2>0 DEF Funnel
        <5>2. [at[f] EXCEPT !.pc = "resolve"].pc # "create"
          BY <2>0 DEF Funnel
        <5>3. CASE StampLedger(f)
          BY <2>0, <5>2, <5>3, GoesTo DEF StampLedger
        <5>4. CASE ProbeAgain(f)
          <6>1. PICK found \in Found :
                  Goes(f, [at[f] EXCEPT !.pc = "stamp",
                             !.digest = IF FindExistingDigest(found, at[f].digest) = 0 THEN @
                                        ELSE FindExistingDigest(found, at[f].digest)])
            BY <5>4 DEF ProbeAgain
          <6> QED BY <2>0, <5>1, <6>1, GoesTo
        <5> QED BY <4>4, <5>3, <5>4
      <4>5. CASE Gate(f)
        <5>1. [at[f] EXCEPT !.pc = "merge"].pc # "create" /\ Away.pc # "create"
          BY <2>0 DEF Funnel, Away
        <5> QED BY <2>0, <4>5, <5>1, GoesTo DEF Gate, Defers
      <4>6. CASE Reply(f) \/ ReplyFails(f)
        <5>1. Replied(f).pc # "create" /\ Failed(Replied(f)).pc # "create"
          BY <2>0 DEF Replied, Failed, Funnel
        <5> QED BY <2>0, <4>6, <5>1, GoesTo DEF Reply, ReplyFails
      <4>7. CASE \E t \in Threads : ResolveThread(f, t) \/ ResolveFails(f, t)
        <5>1. PICK t \in Threads : ResolveThread(f, t) \/ ResolveFails(f, t)
          BY <4>7
        <5>2. /\ [at[f] EXCEPT !.pc = "reply", !.todo = @ \ {t}, !.on = {t}].pc # "create"
              /\ at[f].pc = "resolve" => Failed([at[f] EXCEPT !.todo = @ \ {t}]).pc # "create"
          BY <2>0 DEF Failed, Funnel
        <5> QED BY <2>0, <5>1, <5>2, GoesTo DEF ResolveThread, ResolveFails, Attempted
      <4> QED
        BY <1>1, <2>3, <4>1, <4>2, <4>3, <4>4, <4>5, <4>6, <4>7 DEF Step
    <3> QED BY <1>0, <3>1, <3>2, FilesNothing
  <2> QED BY <2>1, <2>2, <2>3
<1>2. CASE (\E t \in Threads : ReviewOpens(t)) \/ MergeableChanges \/ TickMerges \/ UNCHANGED vars
  BY <1>0, <1>2 DEF ReviewOpens, MergeableChanges, TickMerges, vars, issues, DigestInv, Filing
<1> QED BY <1>1, <1>2 DEF Next

LEMMA DigestInit == Init => DigestInv
<1> SUFFICES ASSUME Init PROVE DigestInv
  OBVIOUS
<1>1. Len(digests) = 0 /\ Filing(at) = {}
  BY DEF Init, Filing, Away
<1>2. Cardinality(Filing(at)) = 0 /\ Cardinality(Funnels) \in Nat
  <2>1. Cardinality({}) = 0
    BY FS_EmptySet
  <2> QED BY <1>1, <2>1, FunnelsAssumption, FS_CardinalityType
<1> QED BY <1>1, <1>2 DEF DigestInv

\* As long as the search finds what was filed, there is at most one digest per
\* funnel, over all the times the merge is held and retried (fileDigest).
THEOREM DigestsHold == Spec => []OneDigestPerFunnel
<1>1. Init => Typed /\ DigestInv
  BY InitTyped, DigestInit
<1>2. Typed /\ DigestInv /\ [Next]_vars => (Typed /\ DigestInv)'
  BY NextTyped, DigestNext
<1>3. Typed /\ DigestInv => OneDigestPerFunnel
  <2>1. Typed => Len(digests) \in Nat
    BY DEF Typed, Rest
  <2>2. Cardinality(Filing(at)) \in Nat /\ Cardinality(Funnels) \in Nat
    BY FilingFinite, FunnelsAssumption, FS_CardinalityType DEF Filing
  <2> QED BY <2>1, <2>2 DEF DigestInv, OneDigestPerFunnel
<1> QED BY <1>1, <1>2, <1>3, PTL DEF Spec

-----------------------------------------------------------------------------
(* What a funnel counted. *)

\* A step of a funnel opens no thread and changes none's kind.
ThreadsStay ==
    \A t \in Threads : thread'[t].kind = thread[t].kind /\ (thread'[t].open => thread[t].open)

\* A funnel that starts over, or gave up.
Blank(step) ==
    /\ step.pc \in {"idle", "threads"} /\ ~step.failed
    /\ step.counted = {} /\ step.nits = {} /\ step.todo = {} /\ step.on = {}

\* A funnel that goes on with the threads it listed.
GoesOn(f) ==
    /\ at[f].pc \notin {"idle", "threads"} /\ at'[f].pc \notin {"idle", "threads"}
    /\ at'[f].counted = at[f].counted /\ at'[f].nits = at[f].nits /\ at'[f].todo \subseteq at[f].todo

\* Looking for a digest and filing one leaves the threads and the rest alone.
LEMMA DigestStep ==
    ASSUME Typed, NEW f \in Funnels, Probe(f) \/ ProbeAgain(f) \/ Create(f)
    PROVE  /\ at[f].pc \in {"probe", "reprobe", "create"} /\ UNCHANGED <<merged, thread, ledger>>
           /\ \/ Goes(f, Away)
              \/ /\ at'[f].pc \in {"create", "stamp", "reprobe"}
                 /\ at'[f].counted = at[f].counted /\ at'[f].nits = at[f].nits
                 /\ at'[f].todo = at[f].todo /\ at'[f].on = at[f].on
                 /\ at'[f].findings = at[f].findings /\ at'[f].failed = at[f].failed
<1>0. at[f] \in Funnel /\ at \in [Funnels -> Funnel]
  BY FunnelFacts DEF Typed, AtTyped
<1>1. at[f].pc \in {"probe", "reprobe", "create"} /\ UNCHANGED <<merged, thread, ledger>>
  BY DEF Probe, ProbeAgain, Create, issues
<1>2. ASSUME NEW p \in {"create", "stamp", "reprobe"}, NEW d,
             Goes(f, [at[f] EXCEPT !.pc = p, !.digest = d])
      PROVE  /\ at'[f].pc \in {"create", "stamp", "reprobe"}
             /\ at'[f].counted = at[f].counted /\ at'[f].nits = at[f].nits
             /\ at'[f].todo = at[f].todo /\ at'[f].on = at[f].on
             /\ at'[f].findings = at[f].findings /\ at'[f].failed = at[f].failed
  <2> DEFINE s == [at[f] EXCEPT !.pc = p, !.digest = d]
  <2>1. at'[f] = s
    BY <1>0, <1>2, GoesFacts
  <2>2. s.pc = p /\ s.counted = at[f].counted /\ s.nits = at[f].nits /\ s.todo = at[f].todo
        /\ s.on = at[f].on /\ s.findings = at[f].findings /\ s.failed = at[f].failed
    BY <1>0 DEF Funnel
  <2> HIDE DEF s
  <2> QED BY <2>1, <2>2
<1>3. CASE Probe(f)
  <2>1. PICK found \in Found :
          Goes(f, [at[f] EXCEPT !.pc = IF FindExistingDigest(found, 0) = 0 THEN "create" ELSE "stamp",
                                !.digest = FindExistingDigest(found, 0)])
    BY <1>3 DEF Probe
  <2> DEFINE d == FindExistingDigest(found, 0)
             p == IF d = 0 THEN "create" ELSE "stamp"
  <2>2. Goes(f, [at[f] EXCEPT !.pc = p, !.digest = d]) /\ p \in {"create", "stamp", "reprobe"}
    BY <2>1
  <2> HIDE DEF p, d
  <2> QED BY <1>1, <1>2, <2>2
<1>4. CASE ProbeAgain(f)
  <2>1. PICK found \in Found :
          Goes(f, [at[f] EXCEPT !.pc = "stamp",
                                !.digest = IF FindExistingDigest(found, at[f].digest) = 0 THEN @
                                           ELSE FindExistingDigest(found, at[f].digest)])
    BY <1>4 DEF ProbeAgain
  <2> QED BY <1>1, <1>2, <2>1
<1>5. CASE Create(f)
  <2>1. Goes(f, [at[f] EXCEPT !.pc = "reprobe", !.digest = Len(digests) + 1]) \/ Goes(f, Away)
    BY <1>5 DEF Create, Defers
  <2> QED BY <1>1, <1>2, <2>1
<1> QED BY <1>3, <1>4, <1>5

LEMMA StepShape ==
    ASSUME Typed, NEW f \in Funnels, Step(f) \/ Disturbed(f)
    PROVE  /\ ThreadsStay
           /\ \A g \in Funnels : g # f => at'[g] = at[g]
           /\ Blank(at'[f]) \/ ListThreads(f) \/ GoesOn(f)
<1>0. /\ at[f] \in Funnel /\ at \in [Funnels -> Funnel] /\ thread \in [Threads -> Thread]
  BY FunnelFacts DEF Typed, AtTyped, Rest
<1>1. ASSUME NEW step, Goes(f, step)
      PROVE  at'[f] = step /\ \A g \in Funnels : g # f => at'[g] = at[g]
  BY <1>0, <1>1, GoesFacts
<1>2. Blank(Away) /\ Blank([Away EXCEPT !.pc = "threads"])
  BY DEF Blank, Away
<1>3. ASSUME UNCHANGED thread PROVE ThreadsStay
  BY <1>3 DEF ThreadsStay
<1>4. CASE Visit(f) \/ Merge(f) \/ MergeRefused(f) \/ Disturbed(f)
  BY <1>1, <1>2, <1>3, <1>4 DEF Visit, Merge, MergeRefused, Disturbed, Outage, Kill, Defers
<1>5. CASE ListThreads(f)
  BY <1>1, <1>3, <1>5 DEF ListThreads
<1>6. CASE ReadComments(f)
  <2>1. \A c : [at[f] EXCEPT !.pc = "probe", !.findings = c].pc = "probe"
    BY <1>0 DEF Funnel
  <2>2. \A c : LET s == [at[f] EXCEPT !.pc = "probe", !.findings = c]
               IN  s.counted = at[f].counted /\ s.nits = at[f].nits /\ s.todo = at[f].todo
    BY <1>0 DEF Funnel
  <2> DEFINE s == [at[f] EXCEPT !.pc = "probe", !.findings = LedgerBase \cup at[f].counted]
  <2>3. /\ s.pc = "probe" /\ s.counted = at[f].counted /\ s.nits = at[f].nits
        /\ s.todo = at[f].todo
    BY <2>1, <2>2
  <2>4. Goes(f, s) /\ at[f].pc = "comments" /\ UNCHANGED thread
    BY <1>6 DEF ReadComments
  <2> HIDE DEF s
  <2> QED BY <1>1, <1>3, <2>3, <2>4 DEF GoesOn
<1>7. CASE Probe(f) \/ ProbeAgain(f) \/ Create(f)
  <2>1. ThreadsStay
    BY <1>3, <1>7, DigestStep
  <2>2. \A g \in Funnels : g # f => at'[g] = at[g]
    BY <1>0, <1>7, GoesFacts DEF Probe, ProbeAgain, Create, Defers
  <2>3. Blank(at'[f]) \/ GoesOn(f)
    BY <1>1, <1>2, <1>7, DigestStep DEF GoesOn
  <2> QED BY <2>1, <2>2, <2>3
<1>8. CASE StampLedger(f) \/ Gate(f)
  <2>1. \A p : LET s == [at[f] EXCEPT !.pc = p]
               IN  s.pc = p /\ s.counted = at[f].counted /\ s.nits = at[f].nits
                   /\ s.todo = at[f].todo
    BY <1>0 DEF Funnel
  <2>2. CASE StampLedger(f)
    BY <1>1, <1>3, <2>1, <2>2, ZenonT(30) DEF StampLedger, GoesOn
  <2>3. CASE Gate(f)
    BY <1>1, <1>2, <1>3, <2>1, <2>3, ZenonT(30) DEF Gate, Defers, GoesOn
  <2> QED BY <1>8, <2>2, <2>3
<1>9. CASE Reply(f) \/ ReplyFails(f)
  <2>1. \A s \in {Replied(f), Failed(Replied(f))} :
            s.pc = "resolve" /\ s.counted = at[f].counted /\ s.nits = at[f].nits
            /\ s.todo = at[f].todo
    BY <1>0 DEF Funnel, Replied, Failed
  <2>2. ThreadsStay
    BY <1>0, <1>3, <1>9 DEF Reply, ReplyFails, ThreadsStay, Thread
  <2> QED BY <1>1, <1>9, <2>1, <2>2 DEF Reply, ReplyFails, GoesOn
<1>10. CASE \E t \in Threads : ResolveThread(f, t) \/ ResolveFails(f, t)
  <2>1. PICK t \in Threads : ResolveThread(f, t) \/ ResolveFails(f, t)
    BY <1>10
  <2>2. \A s \in {[at[f] EXCEPT !.pc = "reply", !.todo = @ \ {t}, !.on = {t}],
                  Failed([at[f] EXCEPT !.todo = @ \ {t}])} :
            s.pc \in {"reply", at[f].pc} /\ s.counted = at[f].counted /\ s.nits = at[f].nits
            /\ s.todo = at[f].todo \ {t}
    BY <1>0 DEF Funnel, Failed
  <2>3. ThreadsStay
    BY <1>0, <2>1 DEF Closes, ResolveThread, ResolveFails, ThreadsStay, Thread
  <2> QED BY <1>1, <2>1, <2>2, <2>3 DEF ResolveThread, ResolveFails, Attempted, GoesOn
<1> QED BY <1>4, <1>5, <1>6, <1>7, <1>8, <1>9, <1>10 DEF Step

\* What a funnel holds as gated is gated, what it holds as a nit is one, and
\* what it has yet to close it listed.
Lists(f) ==
    /\ \A t \in at[f].counted : thread[t].kind = "gated"
    /\ \A t \in at[f].nits : thread[t].kind = "nit"
    /\ at[f].todo \subseteq at[f].counted \cup at[f].nits

\* Nothing is open but what a funnel at work listed.
Sees(f) ==
    at[f].pc \notin {"idle", "threads"} => OpenThreads \subseteq at[f].counted \cup at[f].nits

CountInv ==
    /\ \A f \in Funnels : Lists(f)
    /\ "late-reviews" \notin env => \A f \in Funnels : Sees(f)

\* Where a funnel is after it listed the threads.
LEMMA ListedFacts ==
    ASSUME Typed, NEW f \in Funnels, ListThreads(f)
    PROVE  /\ at'[f].counted = Open("gated") /\ at'[f].nits = Open("nit")
           /\ at'[f].todo = Open("gated") \cup Open("nit")
           /\ at'[f].pc \in {"resolve", "comments"}
           /\ at'[f].pc = "resolve" => Open("gated") = {}
           /\ at'[f].findings = at[f].findings /\ at'[f].on = at[f].on
           /\ at'[f].failed = at[f].failed
           /\ thread' = thread /\ digests' = digests /\ ledger' = ledger /\ merged' = merged
<1>0. at[f] \in Funnel /\ at \in [Funnels -> Funnel]
  BY FunnelFacts DEF Typed, AtTyped
<1> DEFINE c == Open("gated")
           n == Open("nit")
           step == [at[f] EXCEPT !.pc = IF c = {} THEN "resolve" ELSE "comments",
                                 !.counted = c, !.nits = n, !.todo = c \cup n]
<1>1. Goes(f, step)
  BY DEF ListThreads, Unresolved
<1>2. at'[f] = step
  <2> HIDE DEF step
  <2> QED BY <1>0, <1>1, GoesFacts
<1>3. /\ step.counted = c /\ step.nits = n /\ step.todo = c \cup n
      /\ step.pc = IF c = {} THEN "resolve" ELSE "comments"
      /\ step.findings = at[f].findings /\ step.on = at[f].on /\ step.failed = at[f].failed
  <2> HIDE DEF c, n
  <2> QED BY <1>0 DEF Funnel
<1>4. thread' = thread /\ digests' = digests /\ ledger' = ledger /\ merged' = merged
  BY DEF ListThreads, issues
<1> HIDE DEF step
<1> QED BY <1>2, <1>3, <1>4

LEMMA CountStep ==
    ASSUME Typed, CountInv, NEW f \in Funnels, Step(f) \/ Disturbed(f)
    PROVE  CountInv'
<1>0. /\ ThreadsStay /\ \A g \in Funnels : g # f => at'[g] = at[g]
      /\ Blank(at'[f]) \/ ListThreads(f) \/ GoesOn(f)
  BY StepShape
<1>1. env' = env
  BY EnvFixed DEF Next
<1>2. OpenThreads' \subseteq OpenThreads
  BY <1>0 DEF ThreadsStay, OpenThreads, Open
<1>3. ASSUME NEW g \in Funnels PROVE at[g].counted \subseteq Threads /\ at[g].nits \subseteq Threads
  BY FunnelFacts DEF Funnel
<1>4. ASSUME NEW g \in Funnels, g # f
      PROVE  Lists(g)' /\ (Sees(g) => Sees(g)')
  BY <1>0, <1>2, <1>3, <1>4 DEF CountInv, Lists, Sees, ThreadsStay
<1>5. CASE Blank(at'[f])
  <2>1. Lists(f)' /\ Sees(f)'
    BY <1>5 DEF Blank, Lists, Sees
  <2> QED BY <1>1, <1>4, <2>1 DEF CountInv
<1>6. CASE ListThreads(f)
  <2>1. Lists(f)' /\ Sees(f)'
    BY <1>6, ListedFacts DEF Lists, Sees, OpenThreads, Open
  <2> QED BY <1>1, <1>4, <2>1 DEF CountInv
<1>7. CASE GoesOn(f)
  <2>1. Lists(f)' /\ (Sees(f) => Sees(f)')
    BY <1>0, <1>2, <1>3, <1>7 DEF CountInv, Lists, Sees, ThreadsStay, GoesOn
  <2> QED BY <1>1, <1>4, <2>1 DEF CountInv
<1> QED BY <1>0, <1>5, <1>6, <1>7

\* A thread opened by a review was none before; without late reviews every
\* funnel is away then.
LEMMA ReviewFacts ==
    ASSUME Typed, NEW t \in Threads, ReviewOpens(t)
    PROVE  /\ thread[t].kind = "none" /\ thread'[t].open /\ merged = "nobody"
           /\ \A u \in Threads : u # t => thread'[u] = thread[u]
           /\ thread'[t].tags = thread[t].tags
           /\ "late-reviews" \notin env => \A f \in Funnels : at[f].pc = "idle"
           /\ UNCHANGED <<env, ready, merged, digests, ledger, at>>
BY DEF Typed, Rest, ReviewOpens, issues, Working, Thread

LEMMA CountNext == Typed /\ CountInv /\ [Next]_vars => CountInv'
<1> SUFFICES ASSUME Typed, CountInv, [Next]_vars PROVE CountInv'
  OBVIOUS
<1>1. CASE \E f \in Funnels : Step(f) \/ Disturbed(f)
  BY <1>1, CountStep
<1>2. CASE \E t \in Threads : ReviewOpens(t)
  <2>1. PICK t \in Threads : ReviewOpens(t)
    BY <1>2
  <2>2. ASSUME NEW f \in Funnels PROVE at[f].counted \subseteq Threads /\ at[f].nits \subseteq Threads
    BY FunnelFacts DEF Funnel
  <2>3. \A f \in Funnels : Lists(f)'
    BY <2>1, <2>2, ReviewFacts DEF CountInv, Lists
  <2>4. "late-reviews" \notin env' => \A f \in Funnels : Sees(f)'
    BY <2>1, ReviewFacts DEF Sees
  <2> QED BY <2>3, <2>4 DEF CountInv
<1>3. CASE MergeableChanges \/ TickMerges \/ UNCHANGED vars
  BY <1>3 DEF MergeableChanges, TickMerges, vars, issues, CountInv, Lists, Sees, OpenThreads, Open
<1> QED BY <1>1, <1>2, <1>3 DEF Next

LEMMA CountInit == Init => CountInv
BY DEF Init, CountInv, Lists, Sees, Away

-----------------------------------------------------------------------------
(* Closed findings are on record. *)

Closed == {t \in Threads : thread[t].kind = "gated" /\ ~thread[t].open}
Digested == UNION {digests[d] : d \in DOMAIN digests}
Carrying == {"probe", "create", "reprobe", "stamp"}
Closing == {"resolve", "reply"}

\* A funnel that read the ledger carries what was closed before it and what it
\* counted, all but what is in a digest.
Carries(f) ==
    at[f].pc \in Carrying =>
        at[f].counted \subseteq at[f].findings /\ Closed \subseteq at[f].findings \cup Digested

\* A funnel closes what it counted once that is on record.
Files(f) == at[f].pc \in Closing => at[f].counted \subseteq Recorded

RecordInv ==
    env \cap {"late-reviews", "lost-stamps"} = {} =>
        /\ Closed \subseteq Recorded
        /\ \A f \in Funnels : Carries(f) /\ Files(f)

\* How a funnel comes to carry findings, and to close threads.
LEMMA CarryFacts ==
    ASSUME Typed, NEW f \in Funnels, Step(f) \/ Disturbed(f)
    PROVE  /\ at'[f].pc \in Carrying =>
                  /\ at'[f].counted = at[f].counted
                  /\ \/ at[f].pc \in Carrying /\ at'[f].findings = at[f].findings
                     \/ ReadComments(f) /\ at'[f].findings = ledger \cup at[f].counted
           /\ at'[f].pc \in Closing =>
                  \/ at'[f].counted = {}
                  \/ /\ at'[f].counted = at[f].counted
                     /\ at[f].pc \in Closing \/ StampLedger(f)
<1>0. at[f] \in Funnel /\ at \in [Funnels -> Funnel]
  BY FunnelFacts DEF Typed, AtTyped
<1>1. ASSUME NEW step, Goes(f, step) PROVE at'[f] = step
  BY <1>0, <1>1, GoesFacts
<1>2. Away.pc = "idle" /\ [Away EXCEPT !.pc = "threads"].pc = "threads"
  BY DEF Away
<1>3. CASE Visit(f) \/ Merge(f) \/ MergeRefused(f) \/ Disturbed(f)
  BY <1>1, <1>2, <1>3
     DEF Visit, Merge, MergeRefused, Disturbed, Outage, Kill, Defers, Carrying, Closing
<1>4. CASE ListThreads(f)
  BY <1>4, ListedFacts DEF Carrying, Closing
<1>5. CASE ReadComments(f)
  <2> DEFINE s == [at[f] EXCEPT !.pc = "probe", !.findings = LedgerBase \cup at[f].counted]
  <2>1. /\ s.pc = "probe" /\ s.counted = at[f].counted
        /\ s.findings = ledger \cup at[f].counted
    BY <1>0 DEF Funnel, LedgerBase
  <2>2. Goes(f, s)
    BY <1>5 DEF ReadComments
  <2> HIDE DEF s
  <2> QED BY <1>1, <1>5, <2>1, <2>2 DEF Carrying, Closing
<1>6. CASE Probe(f) \/ ProbeAgain(f) \/ Create(f)
  BY <1>1, <1>2, <1>6, DigestStep DEF Carrying, Closing
<1>7. CASE StampLedger(f) \/ Gate(f)
  <2>1. \A p : [at[f] EXCEPT !.pc = p].pc = p /\ [at[f] EXCEPT !.pc = p].counted = at[f].counted
    BY <1>0 DEF Funnel
  <2>2. CASE StampLedger(f)
    BY <1>1, <2>1, <2>2 DEF StampLedger, Carrying, Closing
  <2>3. CASE Gate(f)
    BY <1>1, <1>2, <2>1, <2>3 DEF Gate, Defers, Carrying, Closing
  <2> QED BY <1>7, <2>2, <2>3
<1>8. CASE Reply(f) \/ ReplyFails(f)
  <2>1. \A s \in {Replied(f), Failed(Replied(f))} : s.pc = "resolve" /\ s.counted = at[f].counted
    BY <1>0 DEF Funnel, Replied, Failed
  <2> QED BY <1>1, <1>8, <2>1 DEF Reply, ReplyFails, Carrying, Closing
<1>9. CASE \E t \in Threads : ResolveThread(f, t) \/ ResolveFails(f, t)
  <2>1. PICK t \in Threads : ResolveThread(f, t) \/ ResolveFails(f, t)
    BY <1>9
  <2>2. \A s \in {[at[f] EXCEPT !.pc = "reply", !.todo = @ \ {t}, !.on = {t}],
                  Failed([at[f] EXCEPT !.todo = @ \ {t}])} :
            s.pc \in {"reply", at[f].pc} /\ s.counted = at[f].counted
    BY <1>0 DEF Funnel, Failed
  <2> QED BY <1>1, <2>1, <2>2 DEF ResolveThread, ResolveFails, Attempted, Carrying, Closing
<1> QED BY <1>3, <1>4, <1>5, <1>6, <1>7, <1>8, <1>9 DEF Step

\* What becomes of the record: one thread is closed, one digest is filed, one
\* stamp is posted, or nothing.
LEMMA RecordFacts ==
    ASSUME Typed, CountInv, NEW f \in Funnels, Step(f) \/ Disturbed(f)
    PROVE  \/ /\ at[f].pc \in Closing /\ Closed' \subseteq Closed \cup at[f].counted
              /\ UNCHANGED <<ledger, digests>>
           \/ /\ Digested' = Digested \cup at[f].findings
              /\ UNCHANGED <<ledger, thread>>
           \/ /\ at[f].pc = "stamp" /\ StampLedger(f) /\ UNCHANGED <<digests, thread>>
              /\ "lost-stamps" \notin env => ledger' = at[f].findings
           \/ UNCHANGED <<ledger, digests, thread>>
<1>0. /\ at[f] \in Funnel /\ thread \in [Threads -> Thread] /\ digests \in Seq(SUBSET Threads)
  BY FunnelFacts DEF Typed, Rest
<1>1. CASE Create(f)
  <2>1. at[f].findings \in SUBSET Threads
    BY <1>0 DEF Funnel
  <2>2. digests' = Append(digests, at[f].findings) /\ UNCHANGED <<ledger, thread>>
    BY <1>1 DEF Create
  <2>3. /\ DOMAIN digests' = DOMAIN digests \cup {Len(digests) + 1}
        /\ digests'[Len(digests) + 1] = at[f].findings
        /\ \A d \in DOMAIN digests : digests'[d] = digests[d]
    <3> HIDE DEF Funnel
    <3> QED BY <1>0, <2>1, <2>2, AppendProperties
  <2>4. Digested' = Digested \cup at[f].findings
    BY <2>3 DEF Digested
  <2> QED BY <2>2, <2>4
<1>2. CASE StampLedger(f)
  BY <1>2 DEF StampLedger
<1>3. CASE \E t \in Threads : ResolveThread(f, t) \/ ResolveFails(f, t)
  <2>1. PICK t \in Threads : ResolveThread(f, t) \/ ResolveFails(f, t)
    BY <1>3
  <2>2. at[f].pc \in Closing /\ UNCHANGED <<ledger, digests>>
    BY <2>1 DEF ResolveThread, ResolveFails, Attempted, Closing, issues
  <2>3. Closed' \subseteq Closed \cup {t}
    BY <1>0, <2>1 DEF Closes, ResolveThread, ResolveFails, Closed, Thread
  <2>4. t \in Closed' => t \in Closed \cup at[f].counted
    <3>1. t \in at[f].counted \/ thread[t].kind = "nit"
      BY <2>1 DEF CountInv, Lists, ResolveThread, ResolveFails, Attempted
    <3>2. thread'[t].kind = thread[t].kind
      BY StepShape DEF ThreadsStay
    <3> QED BY <3>1, <3>2 DEF Closed
  <2> QED BY <2>2, <2>3, <2>4
<1>4. CASE Reply(f) \/ ReplyFails(f)
  <2>1. at[f].pc \in Closing /\ UNCHANGED <<ledger, digests>>
    BY <1>4 DEF Reply, ReplyFails, Closing, issues
  <2>2. Closed' = Closed
    BY <1>0, <1>4 DEF Reply, ReplyFails, Closed, Thread
  <2> QED BY <2>1, <2>2
<1>5. CASE \/ Visit(f) \/ ListThreads(f) \/ ReadComments(f) \/ Probe(f) \/ ProbeAgain(f)
           \/ Gate(f) \/ Merge(f) \/ MergeRefused(f) \/ Disturbed(f)
  BY <1>5 DEF Visit, ListThreads, ReadComments, Probe, ProbeAgain, Gate, Merge, MergeRefused,
     Disturbed, Outage, Kill, issues
<1> QED BY <1>1, <1>2, <1>3, <1>4, <1>5 DEF Step

\* A funnel at work counted every gated thread that is open.
LEMMA CountsOpen ==
    ASSUME CountInv, "late-reviews" \notin env, NEW f \in Funnels, at[f].pc \notin {"idle", "threads"}
    PROVE  Open("gated") \subseteq at[f].counted
BY DEF CountInv, Lists, Sees, OpenThreads, Open

LEMMA RecordStep ==
    ASSUME Typed, CountInv, RecordInv, NEW f \in Funnels, Step(f) \/ Disturbed(f)
    PROVE  RecordInv'
<1>0. env' = env
  BY EnvFixed DEF Next
<1> SUFFICES ASSUME env \cap {"late-reviews", "lost-stamps"} = {}
             PROVE  /\ Closed' \subseteq Recorded'
                    /\ \A g \in Funnels : Carries(g)' /\ Files(g)'
  BY <1>0 DEF RecordInv
<1>1. /\ Closed \subseteq Recorded
      /\ \A g \in Funnels : Carries(g) /\ Files(g)
      /\ "late-reviews" \notin env /\ "lost-stamps" \notin env
  BY DEF RecordInv
<1>2. /\ ThreadsStay /\ \A g \in Funnels : g # f => at'[g] = at[g]
  BY StepShape
<1>3. Recorded = ledger \cup Digested /\ Recorded' = ledger' \cup Digested'
  BY DEF Recorded, Digested
<1>4. Closed' \subseteq Closed \cup Open("gated") /\ Closed \subseteq Threads
  BY <1>2 DEF Closed, Open, ThreadsStay
<1>5. ASSUME NEW g \in Funnels, at[g].pc \in Carrying
      PROVE  /\ at[g].counted \subseteq at[g].findings
             /\ Closed' \subseteq at[g].findings \cup Digested
  <2>1. Open("gated") \subseteq at[g].counted
    BY <1>1, <1>5, CountsOpen DEF Carrying
  <2> QED BY <1>1, <1>4, <1>5, <2>1 DEF Carries
<1>6. Digested \subseteq Digested'
  BY RecordFacts DEF Digested
<1>7. ASSUME NEW g \in Funnels PROVE Carries(g)'
  <2>1. CASE at'[g].pc \in Carrying /\ at[g].pc \in Carrying
             /\ at'[g].counted = at[g].counted /\ at'[g].findings = at[g].findings
    BY <1>5, <1>6, <2>1 DEF Carries
  <2>2. CASE g = f /\ ReadComments(f) /\ at'[f].counted = at[f].counted
             /\ at'[f].findings = ledger \cup at[f].counted
    <3>1. Closed' = Closed
      BY <2>2 DEF ReadComments, Closed
    <3> QED BY <1>1, <1>3, <1>6, <2>2, <3>1 DEF Carries
  <2>3. CASE at'[g].pc \notin Carrying
    BY <2>3 DEF Carries
  <2> QED BY <1>2, <2>1, <2>2, <2>3, CarryFacts
<1>8. CASE StampLedger(f)
  <2>1. /\ ledger' = at[f].findings /\ Digested' = Digested /\ Closed' = Closed
        /\ at[f].pc \in Carrying
    BY <1>1, <1>8 DEF StampLedger, Digested, Closed, Carrying
  <2>2. Closed' \subseteq Recorded' /\ at[f].counted \subseteq Recorded'
    BY <1>3, <1>5, <2>1
  <2>3. ASSUME NEW g \in Funnels PROVE at[g].counted \subseteq Recorded'
    <3>1. at[g].counted \subseteq Threads
      BY FunnelFacts DEF Funnel
    <3>2. at[g].counted \subseteq Closed \cup Open("gated")
      BY <3>1 DEF CountInv, Lists, Closed, Open
    <3>3. Open("gated") \subseteq at[f].counted
      BY <1>1, <2>1, CountsOpen DEF Carrying
    <3> QED BY <2>1, <2>2, <3>2, <3>3
  <2>4. ASSUME NEW g \in Funnels PROVE Files(g)'
    BY <1>2, <2>3, CarryFacts DEF Files
  <2> QED BY <1>7, <2>2, <2>4
<1>9. CASE ~StampLedger(f)
  <2>1. Recorded \subseteq Recorded'
    BY <1>3, <1>6, <1>9, RecordFacts
  <2>2. Closed' \subseteq Recorded'
    <3>1. CASE at[f].pc \in Closing /\ Closed' \subseteq Closed \cup at[f].counted
      BY <1>1, <2>1, <3>1 DEF Files
    <3>2. CASE UNCHANGED thread
      BY <1>1, <2>1, <3>2 DEF Closed
    <3> QED BY <3>1, <3>2, RecordFacts
  <2>3. ASSUME NEW g \in Funnels PROVE Files(g)'
    BY <1>1, <1>2, <1>9, <2>1, CarryFacts DEF Files
  <2> QED BY <1>7, <2>2, <2>3
<1> QED BY <1>8, <1>9

LEMMA RecordNext == Typed /\ CountInv /\ RecordInv /\ [Next]_vars => RecordInv'
<1> SUFFICES ASSUME Typed, CountInv, RecordInv, [Next]_vars PROVE RecordInv'
  OBVIOUS
<1>1. CASE \E f \in Funnels : Step(f) \/ Disturbed(f)
  BY <1>1, RecordStep
<1>2. CASE \E t \in Threads : ReviewOpens(t)
  <2>1. PICK t \in Threads : ReviewOpens(t)
    BY <1>2
  <2>2. Closed' \subseteq Closed /\ Recorded' = Recorded
    BY <2>1, ReviewFacts DEF Closed, Recorded
  <2>3. ASSUME NEW f \in Funnels, "late-reviews" \notin env PROVE Carries(f)' /\ Files(f)'
    BY <2>1, <2>3, ReviewFacts DEF Carries, Files, Carrying, Closing
  <2>4. env' = env
    BY <2>1, ReviewFacts
  <2> QED BY <2>2, <2>3, <2>4 DEF RecordInv
<1>3. CASE MergeableChanges \/ TickMerges \/ UNCHANGED vars
  BY <1>3 DEF MergeableChanges, TickMerges, vars, issues, RecordInv, Carries, Files, Recorded, Closed,
     Digested
<1> QED BY <1>1, <1>2, <1>3 DEF Next

LEMMA RecordInit == Init => RecordInv
BY DEF Init, RecordInv, Carries, Files, Closed, Away, Carrying, Closing

\* Without reviews that arrive while a funnel is at work and without lost
\* stamps, a finding closed without a fix is in a digest or in the newest
\* stamp at every moment, however many funnels replace each other's stamps
\* (appendCountedToLedger, fileDigest, stampLedger).
THEOREM RecordHolds == Spec => []ClosedIsRecorded
<1>1. Init => Typed /\ CountInv /\ RecordInv
  BY InitTyped, CountInit, RecordInit
<1>2. Typed /\ CountInv /\ RecordInv /\ [Next]_vars => (Typed /\ CountInv /\ RecordInv)'
  BY NextTyped, CountNext, RecordNext
<1>3. RecordInv => ClosedIsRecorded
  BY DEF RecordInv, ClosedIsRecorded, Closed
<1> QED BY <1>1, <1>2, <1>3, PTL DEF Spec

-----------------------------------------------------------------------------
(* What a merged pull request has behind it. *)

\* A funnel that met no failure has closed what is not left to close.
Attempts(f) ==
    /\ at[f].pc \notin {"idle", "threads"} /\ ~at[f].failed =>
           \A t \in at[f].counted \cup at[f].nits : t \in at[f].todo \/ ~thread[t].open
    /\ at[f].pc = "merge" => at[f].todo = {} /\ ~at[f].failed

Replies(f) == at[f].on # {} => at[f].pc = "reply"

MergeInv ==
    /\ \A f \in Funnels : Attempts(f) /\ Replies(f)
    /\ "late-reviews" \notin env => (merged \in Funnels => OpenThreads = {})
    /\ env \cap {"late-reviews", "lost-acks", "kills"} = {} => \A t \in Closed : Tagged(t)

\* How a funnel comes to have nothing left to close, to merge, and to reply.
LEMMA AttemptFacts ==
    ASSUME Typed, NEW f \in Funnels, Step(f) \/ Disturbed(f), Replies(f)
    PROVE  /\ GoesOn(f) /\ ~at'[f].failed =>
                  ~at[f].failed /\ \A t \in at[f].todo : t \in at'[f].todo \/ ~thread'[t].open
           /\ at'[f].pc = "merge" => at'[f].todo = {} /\ ~at'[f].failed
           /\ at'[f].on # {} => at'[f].pc = "reply"
           /\ merged' # merged => at[f].pc = "merge" /\ UNCHANGED thread
<1>0. at[f] \in Funnel /\ at \in [Funnels -> Funnel] /\ thread \in [Threads -> Thread]
  BY FunnelFacts DEF Typed, AtTyped, Rest
<1>1. ASSUME NEW step, Goes(f, step) PROVE at'[f] = step
  BY <1>0, <1>1, GoesFacts
<1>2. /\ Away.pc = "idle" /\ Away.on = {}
      /\ [Away EXCEPT !.pc = "threads"].pc = "threads" /\ [Away EXCEPT !.pc = "threads"].on = {}
  BY DEF Away
<1> DEFINE Same(s) == s.on = at[f].on /\ s.todo = at[f].todo /\ s.failed = at[f].failed
<1>3. CASE Visit(f) \/ Merge(f) \/ MergeRefused(f) \/ Disturbed(f)
  BY <1>1, <1>2, <1>3
     DEF Visit, Merge, MergeRefused, Disturbed, Outage, Kill, Defers, GoesOn, issues
<1>4. CASE ListThreads(f)
  BY <1>4, ListedFacts DEF ListThreads, GoesOn, Replies
<1>5. CASE ReadComments(f)
  <2> DEFINE s == [at[f] EXCEPT !.pc = "probe", !.findings = LedgerBase \cup at[f].counted]
  <2>1. s.pc = "probe" /\ Same(s)
    BY <1>0 DEF Funnel
  <2>2. Goes(f, s) /\ UNCHANGED merged /\ at[f].pc = "comments"
    BY <1>5 DEF ReadComments
  <2> HIDE DEF s
  <2> QED BY <1>1, <2>1, <2>2 DEF Replies
<1>6. CASE Probe(f) \/ ProbeAgain(f) \/ Create(f)
  BY <1>1, <1>2, <1>6, DigestStep DEF Replies, GoesOn
<1>7. CASE StampLedger(f) \/ Gate(f)
  <2>1. \A p : [at[f] EXCEPT !.pc = p].pc = p /\ Same([at[f] EXCEPT !.pc = p])
    BY <1>0 DEF Funnel
  <2>2. CASE StampLedger(f)
    <3> DEFINE s == [at[f] EXCEPT !.pc = "resolve"]
    <3>1. Goes(f, s) /\ s.pc = "resolve" /\ Same(s) /\ at[f].pc = "stamp" /\ UNCHANGED merged
      BY <2>1, <2>2 DEF StampLedger
    <3> HIDE DEF s
    <3> QED BY <1>1, <3>1 DEF Replies
  <2>3. CASE Gate(f)
    <3> DEFINE s == [at[f] EXCEPT !.pc = "merge"]
    <3>1. /\ Goes(f, Away) \/ (Goes(f, s) /\ ~at[f].failed)
          /\ s.pc = "merge" /\ Same(s) /\ UNCHANGED merged
          /\ at[f].pc = "resolve" /\ at[f].todo = {}
      BY <2>1, <2>3 DEF Gate, Defers
    <3> HIDE DEF s
    <3>2. CASE Goes(f, Away)
      BY <1>1, <1>2, <3>1, <3>2 DEF GoesOn
    <3>3. CASE Goes(f, s) /\ ~at[f].failed
      BY <1>1, <3>1, <3>3 DEF Replies
    <3> QED BY <3>1, <3>2, <3>3
  <2> QED BY <1>7, <2>2, <2>3
<1>8. CASE Reply(f)
  <2>1. Replied(f).pc = "resolve" /\ Replied(f).on = {} /\ Replied(f).todo = at[f].todo
        /\ Replied(f).failed = at[f].failed
    BY <1>0 DEF Funnel, Replied
  <2> QED BY <1>1, <1>8, <2>1 DEF Reply
<1>9. CASE ReplyFails(f)
  <2>1. /\ Failed(Replied(f)).pc = "resolve" /\ Failed(Replied(f)).on = {}
        /\ Failed(Replied(f)).failed
    BY <1>0 DEF Funnel, Replied, Failed
  <2> QED BY <1>1, <1>9, <2>1 DEF ReplyFails
<1>10. CASE \E t \in Threads : ResolveThread(f, t)
  <2>1. PICK t \in Threads : ResolveThread(f, t)
    BY <1>10
  <2> DEFINE s == [at[f] EXCEPT !.pc = "reply", !.todo = @ \ {t}, !.on = {t}]
  <2>2. s.pc = "reply" /\ s.todo = at[f].todo \ {t} /\ s.failed = at[f].failed
    BY <1>0 DEF Funnel
  <2>3. Goes(f, s) /\ UNCHANGED merged
    BY <2>1 DEF ResolveThread
  <2>4. ~thread'[t].open
    BY <1>0, <2>1 DEF Closes, ResolveThread, Thread
  <2> HIDE DEF s
  <2> QED BY <1>1, <2>2, <2>3, <2>4
<1>11. CASE \E t \in Threads : ResolveFails(f, t)
  <2>1. PICK t \in Threads : ResolveFails(f, t)
    BY <1>11
  <2> DEFINE s == Failed([at[f] EXCEPT !.todo = @ \ {t}])
  <2>2. s.pc = at[f].pc /\ s.failed /\ s.on = at[f].on
    BY <1>0 DEF Funnel, Failed
  <2>3. Goes(f, s) /\ UNCHANGED merged /\ at[f].pc = "resolve"
    BY <2>1 DEF ResolveFails, Attempted
  <2> HIDE DEF s
  <2> QED BY <1>1, <2>2, <2>3 DEF Replies
<1> QED BY <1>3, <1>4, <1>5, <1>6, <1>7, <1>8, <1>9, <1>10, <1>11 DEF Step

\* Without lost replies and cancelled jobs a closed thread gets its tag, and
\* keeps it.
LEMMA TagFacts ==
    ASSUME Typed, CountInv, MergeInv, NEW f \in Funnels, Step(f) \/ Disturbed(f),
           env \cap {"late-reviews", "lost-acks", "kills"} = {}
    PROVE  \A t \in Closed' : Tagged(t)'
<1>0. /\ at[f] \in Funnel /\ at \in [Funnels -> Funnel] /\ thread \in [Threads -> Thread]
      /\ \A g \in Funnels : g # f => at'[g] = at[g]
      /\ ThreadsStay
  BY FunnelFacts, StepShape DEF Typed, AtTyped, Rest
<1>1. \A t \in Closed : Tagged(t)
  BY DEF MergeInv
<1>2. CASE at[f].on = {}
  <2>1. CASE \E t \in Threads : ResolveThread(f, t)
    <3>1. PICK t \in Threads : ResolveThread(f, t)
      BY <2>1
    <3> DEFINE s == [at[f] EXCEPT !.pc = "reply", !.todo = @ \ {t}, !.on = {t}]
    <3>2. s.on = {t} /\ s.counted = at[f].counted
      BY <1>0 DEF Funnel
    <3>3. Goes(f, s)
      BY <3>1 DEF ResolveThread
    <3>4. at'[f].on = {t} /\ at'[f].counted = at[f].counted
      <4> HIDE DEF s
      <4> QED BY <1>0, <3>2, <3>3, GoesFacts
    <3>5. \A u \in Threads : thread'[u].tags = thread[u].tags /\ (u # t => thread'[u] = thread[u])
      BY <1>0, <3>1 DEF Closes, ResolveThread, Thread
    <3>6. ASSUME NEW u \in Closed' PROVE Tagged(u)'
      <4>1. CASE u = t
        <5>1. t \in at[f].counted \/ thread[t].kind = "nit"
          BY <3>1 DEF CountInv, Lists, ResolveThread, Attempted
        <5>2. thread[t].kind = "gated"
          BY <1>0, <3>6, <4>1 DEF Closed, ThreadsStay
        <5> QED BY <3>4, <4>1, <5>1, <5>2 DEF Tagged
      <4>2. CASE u # t
        <5>1. u \in Closed
          BY <3>5, <3>6, <4>2 DEF Closed
        <5> QED BY <1>0, <1>1, <1>2, <3>5, <3>6, <5>1 DEF Tagged, Closed
      <4> QED BY <4>1, <4>2
    <3> QED BY <3>6
  <2>2. CASE ~\E t \in Threads : ResolveThread(f, t)
    <3>1. ASSUME NEW t \in Threads
          PROVE  /\ thread'[t].kind = thread[t].kind /\ thread'[t].open = thread[t].open
                 /\ thread'[t].tags = thread[t].tags
      <4>1. CASE Reply(f)
        BY <1>0, <1>2, <4>1 DEF Reply
      <4>2. CASE ~Reply(f)
        BY <2>2, <4>2 DEF Step, Disturbed, Visit, ListThreads, ReadComments, Probe, ProbeAgain,
           Create, StampLedger, Gate, Merge, MergeRefused, Outage, Kill, ReplyFails,
           ResolveFails, issues
      <4> QED BY <4>1, <4>2
    <3> QED BY <1>0, <1>1, <1>2, <3>1 DEF Tagged, Closed
  <2> QED BY <2>1, <2>2
<1>3. CASE at[f].on # {}
  <2>1. Reply(f)
    <3>1. at[f].pc = "reply"
      BY <1>3 DEF MergeInv, Replies
    <3> QED BY <3>1 DEF Step, Disturbed, Visit, ListThreads, ReadComments, Probe, ProbeAgain,
       Create, StampLedger, Gate, Merge, MergeRefused, Outage, Kill, ReplyFails,
       ResolveThread, ResolveFails, Attempted
  <2>2. ASSUME NEW t \in Threads
        PROVE  /\ thread'[t].kind = thread[t].kind /\ thread'[t].open = thread[t].open
               /\ thread[t].tags # {} \/ t \in at[f].on \cap at[f].counted => thread'[t].tags # {}
    BY <1>0, <2>1 DEF Reply, Thread
  <2> QED BY <1>0, <1>1, <2>2 DEF Tagged, Closed
<1> QED BY <1>2, <1>3

LEMMA MergeStep ==
    ASSUME Typed, CountInv, MergeInv, NEW f \in Funnels, Step(f) \/ Disturbed(f)
    PROVE  MergeInv'
<1>0. env' = env
  BY EnvFixed DEF Next
<1>1. /\ ThreadsStay /\ \A g \in Funnels : g # f => at'[g] = at[g]
      /\ Blank(at'[f]) \/ ListThreads(f) \/ GoesOn(f)
  BY StepShape
<1>2. ASSUME NEW g \in Funnels PROVE at[g].counted \subseteq Threads /\ at[g].nits \subseteq Threads
  BY FunnelFacts DEF Funnel
<1>3. Attempts(f) /\ Replies(f) /\ \A g \in Funnels : Attempts(g) /\ Replies(g)
  BY DEF MergeInv
<1>4. ASSUME NEW g \in Funnels, g # f PROVE Attempts(g)' /\ Replies(g)'
  BY <1>1, <1>2, <1>3, <1>4 DEF Attempts, Replies, ThreadsStay
<1>5. Attempts(f)'
  <2>1. at'[f].pc = "merge" => at'[f].todo = {} /\ ~at'[f].failed
    BY <1>3, AttemptFacts
  <2>2. CASE Blank(at'[f])
    BY <2>1, <2>2 DEF Blank, Attempts
  <2>3. CASE ListThreads(f)
    BY <2>1, <2>3, ListedFacts DEF Attempts
  <2>4. CASE GoesOn(f)
    BY <1>1, <1>2, <1>3, <2>1, <2>4, AttemptFacts DEF Attempts, GoesOn, ThreadsStay
  <2> QED BY <1>1, <2>2, <2>3, <2>4
<1>6. Replies(f)'
  BY <1>3, AttemptFacts DEF Replies
<1>7. ASSUME "late-reviews" \notin env, merged' \in Funnels PROVE OpenThreads' = {}
  <2>1. OpenThreads' \subseteq OpenThreads
    BY <1>1 DEF ThreadsStay, OpenThreads, Open
  <2>2. CASE merged' = merged
    BY <1>7, <2>1, <2>2 DEF MergeInv
  <2>3. CASE merged' # merged
    <3>1. at[f].pc = "merge"
      BY <1>3, <2>3, AttemptFacts
    <3>2. OpenThreads \subseteq at[f].counted \cup at[f].nits
      BY <1>7, <3>1 DEF CountInv, Sees
    <3>3. \A t \in at[f].counted \cup at[f].nits : ~thread[t].open
      BY <1>3, <3>1 DEF Attempts
    <3> QED BY <2>1, <3>2, <3>3 DEF OpenThreads, Open
  <2> QED BY <2>2, <2>3
<1> QED BY <1>0, <1>4, <1>5, <1>6, <1>7, TagFacts DEF MergeInv

LEMMA MergeNext == Typed /\ CountInv /\ MergeInv /\ [Next]_vars => MergeInv'
<1> SUFFICES ASSUME Typed, CountInv, MergeInv, [Next]_vars PROVE MergeInv'
  OBVIOUS
<1>1. CASE \E f \in Funnels : Step(f) \/ Disturbed(f)
  BY <1>1, MergeStep
<1>2. CASE \E t \in Threads : ReviewOpens(t)
  <2>1. PICK t \in Threads : ReviewOpens(t)
    BY <1>2
  <2>2. /\ thread[t].kind = "none" /\ thread'[t].open /\ merged = "nobody"
        /\ \A u \in Threads : u # t => thread'[u] = thread[u]
        /\ UNCHANGED <<env, merged, at>>
    BY <2>1, ReviewFacts
  <2>3. ASSUME NEW f \in Funnels PROVE Attempts(f)' /\ Replies(f)'
    <3>1. at[f].counted \subseteq Threads /\ at[f].nits \subseteq Threads
      BY FunnelFacts DEF Funnel
    <3>2. t \notin at[f].counted \cup at[f].nits
      BY <2>2 DEF CountInv, Lists
    <3> QED BY <2>2, <3>1, <3>2 DEF MergeInv, Attempts, Replies
  <2>4. merged' \notin Funnels
    BY <2>2, FunnelsAssumption
  <2>5. \A u \in Closed' : u \in Closed /\ thread'[u] = thread[u]
    BY <2>2 DEF Closed
  <2>6. ASSUME env \cap {"late-reviews", "lost-acks", "kills"} = {}
        PROVE  \A u \in Closed' : Tagged(u)'
    BY <2>2, <2>5, <2>6 DEF MergeInv, Tagged
  <2> QED BY <2>2, <2>3, <2>4, <2>6 DEF MergeInv
<1>3. CASE TickMerges
  <2>1. UNCHANGED <<env, thread, at>> /\ merged' \notin Funnels
    BY <1>3, FunnelsAssumption DEF TickMerges
  <2>2. \A f \in Funnels : Attempts(f)' /\ Replies(f)'
    BY <2>1 DEF MergeInv, Attempts, Replies
  <2>3. \A t \in Closed : Tagged(t) <=> Tagged(t)'
    BY <2>1 DEF Tagged
  <2>4. Closed' = Closed
    BY <2>1 DEF Closed
  <2> QED BY <2>1, <2>2, <2>3, <2>4 DEF MergeInv
<1>4. CASE MergeableChanges \/ UNCHANGED vars
  BY <1>4 DEF MergeableChanges, vars, issues, MergeInv, Attempts, Replies, Closed, Tagged,
     OpenThreads, Open
<1> QED BY <1>1, <1>2, <1>3, <1>4 DEF Next

LEMMA MergeInit == Init => MergeInv
BY FunnelsAssumption DEF Init, MergeInv, Attempts, Replies, Closed, Away

\* What a funnel merges has no open thread of the machine but late ones, and
\* every gated thread has its tag unless replies are lost or jobs cancelled,
\* however many funnels close the same threads
\* (requireZeroOpenMachineThreads, resolveOneMachineThread).
THEOREM MergesOnRecord == Spec => []MergedOnRecord
<1>1. Init => Typed /\ CountInv /\ MergeInv
  BY InitTyped, CountInit, MergeInit
<1>2. Typed /\ CountInv /\ MergeInv /\ [Next]_vars => (Typed /\ CountInv /\ MergeInv)'
  BY NextTyped, CountNext, MergeNext
<1>3. Typed /\ MergeInv => MergedOnRecord
  <2> SUFFICES ASSUME Typed, MergeInv, merged \in Funnels PROVE MergedOnRecord
    BY DEF MergedOnRecord
  <2>1. "late-reviews" \notin env => OpenThreads = {}
    BY DEF MergeInv
  <2>2. ASSUME env \cap {"late-reviews", "lost-acks", "kills"} = {},
               NEW t \in Threads, thread[t].kind = "gated"
        PROVE  Tagged(t)
    <3>1. t \in Closed
      BY <2>1, <2>2 DEF OpenThreads, Open, Closed
    <3> QED BY <2>2, <3>1 DEF MergeInv
  <2> QED BY <2>1, <2>2 DEF MergedOnRecord
<1> QED BY <1>1, <1>2, <1>3, PTL DEF Spec
=============================================================================
