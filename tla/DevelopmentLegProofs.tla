------------------------- MODULE DevelopmentLegProofs -------------------------
(***************************************************************************)
(* Type correctness of the development leg, and its four safety            *)
(* properties, for any amount of work, any number of resumes, any probe    *)
(* cadence and any set of environments: pushed work is kept, ended legs    *)
(* have published theirs, a known quota wall is respected and only         *)
(* reviewed work is merged.  Each rests on an invariant of its own over    *)
(* the leg, the ticket and the branch (Carried, PublishInv, WallInv,       *)
(* ReviewInv).                                                             *)
(***************************************************************************)
EXTENDS DevelopmentLeg, TLAPS

Backs == {"post", "no changes", "gates", "response"}
PCs == {"idle", "setup", "agent", "post", "git", "no changes", "gates", "fix git",
        "published", "response", "pr", "final"}

\* The attempts of a stage are bounded whether or not the loop allows any.
Tries == 0 .. IF MaxAttempts = 0 THEN 1 ELSE MaxAttempts

\* The bounds are numbers.
LEMMA Bounds == MaxWork \in Nat /\ MaxAttempts \in Nat /\ ProbeEvery \in Nat \ {0}
BY BoundsAssumption

-----------------------------------------------------------------------------
(* What the handlers do to the leg. *)

\* No leg is a leg.
LEMMA NoLegTyped == NoLeg \in Leg
<1>1. [s \in Stages |-> 0] \in [Stages -> Tries]
  BY Bounds DEF Tries
<1> QED BY <1>1 DEF NoLeg, Leg, Ends, Stages, Tries

\* A leg that ends.
LEMMA EndTyped ==
    ASSUME NEW o \in Ends, End(o)
    PROVE  /\ leg' \in Leg /\ leg'.pc = "idle" /\ leg'.end = o
<1>1. leg' = [NoLeg EXCEPT !.end = o]
  BY DEF End
<1>2. leg' \in Leg /\ leg'.end = o /\ leg'.pc = NoLeg.pc
  BY <1>1, NoLegTyped DEF Leg
<1> QED BY <1>2 DEF NoLeg

\* The fields a handler sets one by one.
LEMMA Goto ==
    ASSUME NEW l \in Leg, NEW p \in PCs
    PROVE  [l EXCEPT !.pc = p] \in Leg
BY DEF Leg, PCs

\* A stage that may be resumed has a try left.
LEMMA TriesStep ==
    ASSUME leg \in Leg, NEW stage \in Stages, CanResume(stage)
    PROVE  [leg.used EXCEPT ![stage] = leg.used[stage] + 1] \in [Stages -> Tries]
<1>1. leg.used \in [Stages -> Tries]
  BY DEF Leg, Tries
<1> DEFINE n == leg.used[stage]
<1>2. n \in Nat /\ n < IF stage = "missing" THEN 1 ELSE MaxAttempts
  <2>1. n \in Tries
    BY <1>1
  <2>2. Tries \subseteq Nat
    BY Bounds DEF Tries
  <2>3. n < IF stage = "missing" THEN 1 ELSE MaxAttempts
    BY DEF CanResume
  <2> QED BY <2>1, <2>2, <2>3
<1>3. n + 1 \in Tries
  <2> HIDE DEF n
  <2>1. CASE stage = "missing"
    BY <1>2, <2>1, Bounds DEF Tries
  <2>2. CASE stage # "missing"
    BY <1>2, <2>2, Bounds DEF Tries
  <2> QED BY <2>1, <2>2
<1> QED BY <1>1, <1>3

\* A resumed leg.
LEMMA ResumeTyped ==
    ASSUME leg \in Leg, NEW stage \in Stages, NEW back \in Backs, CanResume(stage), Resume(stage, back)
    PROVE  /\ leg' \in Leg
           /\ leg' = [leg EXCEPT !.pc = "agent", !.stage = stage, !.back = back,
                                 !.used = [leg.used EXCEPT ![stage] = leg.used[stage] + 1]]
<1> DEFINE u == [leg.used EXCEPT ![stage] = leg.used[stage] + 1]
<1>1. u \in [Stages -> Tries]
  BY TriesStep
<1>2. leg' = [leg EXCEPT !.pc = "agent", !.stage = stage, !.back = back, !.used = u]
  BY DEF Resume, Leg
<1>3. [leg EXCEPT !.pc = "agent", !.stage = stage, !.back = back, !.used = u] \in Leg
  <2> HIDE DEF u
  <2> QED BY <1>1 DEF Leg, Backs, Tries
<1> QED BY <1>2, <1>3

-----------------------------------------------------------------------------
(* The types of commits. *)

\* The pieces of a set of commits.
LEMMA WorksTyped ==
    ASSUME NEW commits \in SUBSET Commit PROVE Works(commits) \in SUBSET (1 .. MaxWork)
BY DEF Works, Commit

Kinds == {"wip", "dev", "fix", "person"}

\* A commit of the tree, squashed or not, gives commits.
LEMMA CommittedTyped ==
    ASSUME leg \in Leg, NEW kind \in Kinds PROVE Committed(kind) \in SUBSET Commit
<1> DEFINE commits == (leg.local \ leg.base)
                        \cup IF leg.tree = {} THEN {} ELSE {[works |-> leg.tree, kind |-> kind]}
<1>1. leg.local \in SUBSET Commit /\ leg.base \in SUBSET Commit /\ leg.tree \in SUBSET (1 .. MaxWork)
  BY DEF Leg
<1>2. [works |-> leg.tree, kind |-> kind] \in Commit
  BY <1>1 DEF Commit, Kinds
<1>3. commits \in SUBSET Commit
  BY <1>1, <1>2
<1>4. Works(commits) \in SUBSET (1 .. MaxWork)
  BY <1>3, WorksTyped
<1>5. [works |-> Works(commits), kind |-> kind] \in Commit
  <2> HIDE DEF commits
  <2> QED BY <1>4 DEF Commit, Kinds
<1>6. Committed(kind) = leg.base \cup IF Squashable(commits, kind)
                      THEN {[works |-> Works(commits), kind |-> kind]} ELSE commits
  BY DEF Committed
<1> HIDE DEF commits
<1> QED BY <1>1, <1>3, <1>5, <1>6

\* So does an auto-save.
LEMMA SavedTyped ==
    ASSUME leg \in Leg PROVE Saved \in SUBSET Commit
<1>1. leg.local \in SUBSET Commit /\ leg.tree \in SUBSET (1 .. MaxWork)
  BY DEF Leg
<1>2. [works |-> leg.tree, kind |-> "wip"] \in Commit
  BY <1>1 DEF Commit
<1> QED BY <1>1, <1>2 DEF Saved

-----------------------------------------------------------------------------
(* What the pieces of the handlers do to the ticket, the PR and the leg. *)

StoryTyped == /\ status \in Statuses /\ labels \in SUBSET Labels
              /\ pr \in {"none", "open", "merged"} /\ reviewed \in BOOLEAN /\ leg \in Leg

\* Calls to the tracker, failing ones included.
LEMMA Calls ==
    ASSUME StoryTyped
    PROVE  /\ \A s \in Statuses : Moved(s) \subseteq Statuses
           /\ \A l \in Labels : With(l) \subseteq SUBSET Labels /\ Without(l) \subseteq SUBSET Labels
BY DEF StoryTyped, Moved, With, Without

\* The reset of the story for a retry.
LEMMA ResetTyped ==
    ASSUME StoryTyped, NEW o \in Ends, ResetForRetry(o) PROVE StoryTyped'
<1>1. leg' \in Leg
  BY EndTyped DEF ResetForRetry
<1>2. status' \in Statuses
  BY Calls DEF ResetForRetry, Statuses
<1> QED BY <1>1, <1>2 DEF ResetForRetry, StoryTyped

\* A resume leaves the story alone.
LEMMA ResumeStory ==
    ASSUME StoryTyped, NEW stage \in Stages, NEW back \in Backs, CanResume(stage), Resume(stage, back)
    PROVE  StoryTyped'
<1>1. leg' \in Leg
  BY ResumeTyped DEF StoryTyped
<1> QED BY <1>1 DEF Resume, StoryTyped, story

\* A resume, or the reset that takes its place.
LEMMA ResumeOrResetTyped ==
    ASSUME StoryTyped, NEW stage \in Stages, NEW o \in Ends, ResumeOrReset(stage, o) PROVE StoryTyped'
<1>1. CASE CanResume(stage) /\ Resume(stage, "post")
  BY <1>1, ResumeStory DEF Backs
<1>2. CASE ResetForRetry(o)
  BY <1>2, ResetTyped
<1> QED BY <1>1, <1>2 DEF ResumeOrReset

\* The three ends that label or move the story on.
LEMMA OutcomesTyped ==
    ASSUME StoryTyped, NoChangesNeeded \/ AskReporter \/ Park PROVE StoryTyped'
<1>1. leg' \in Leg
  BY EndTyped DEF NoChangesNeeded, AskReporter, Park, Ends
<1>2. status' \in Statuses
  BY Calls DEF NoChangesNeeded, AskReporter, Park, Statuses, StoryTyped
<1>3. labels' \in SUBSET Labels
  BY Calls DEF NoChangesNeeded, AskReporter, Park, Labels
<1> QED BY <1>1, <1>2, <1>3 DEF NoChangesNeeded, AskReporter, Park, StoryTyped

\* What is done about a missing response.
LEMMA MissingTyped ==
    ASSUME StoryTyped, NEW back \in Backs, RecoverMissingResponse(back) PROVE StoryTyped'
<1>1. CASE Park
  BY <1>1, OutcomesTyped
<1>2. CASE End("failed") /\ UNCHANGED story
  BY <1>2, EndTyped DEF Ends, StoryTyped, story
<1>3. CASE CanResume("missing") /\ Resume("missing", back)
  BY <1>3, ResumeStory DEF Stages
<1>4. CASE ResetForRetry("failed")
  BY <1>4, ResetTyped DEF Ends
<1> QED BY <1>1, <1>2, <1>3, <1>4 DEF RecoverMissingResponse

\* A push that succeeds.
LEMMA PushTyped ==
    ASSUME StoryTyped, NEW kind \in Kinds, NEW next \in PCs, Push(kind, next)
    PROVE  StoryTyped' /\ remote' \in SUBSET Commit
<1>1. leg \in Leg /\ Committed(kind) \in SUBSET Commit
  BY CommittedTyped DEF StoryTyped
<1>2. leg' \in Leg
  <2>1. leg' = [leg EXCEPT !.pc = next, !.tree = {}, !.local = Committed(kind)]
    BY DEF Push
  <2> QED BY <1>1, <2>1 DEF Leg, PCs
<1> QED BY <1>1, <1>2 DEF Push, StoryTyped

\* A push, or the sync before it, that does not.
LEMMA PushFailsTyped ==
    ASSUME StoryTyped, NEW kind \in Kinds, NEW stage \in Stages, NEW o \in Ends, PushFails(kind, stage, o)
    PROVE  StoryTyped'
<1>1. CASE ResetForRetry(o)
  BY <1>1, ResetTyped
<1>2. ASSUME CanResume(stage), UNCHANGED story,
             leg' = [leg EXCEPT !.pc = "agent", !.stage = stage, !.back = "post",
                                !.used[stage] = @ + 1, !.tree = {}, !.local = Committed(kind)]
      PROVE  StoryTyped'
  <2> DEFINE u == [leg.used EXCEPT ![stage] = leg.used[stage] + 1]
             c == Committed(kind)
  <2>1. leg \in Leg /\ c \in SUBSET Commit /\ u \in [Stages -> Tries]
    BY <1>2, CommittedTyped, TriesStep DEF StoryTyped
  <2>2. leg' = [leg EXCEPT !.pc = "agent", !.stage = stage, !.back = "post",
                           !.used = u, !.tree = {}, !.local = c]
    BY <1>2, <2>1 DEF Leg
  <2>3. leg' \in Leg
    <3> HIDE DEF u, c
    <3> QED BY <2>1, <2>2 DEF Leg, Tries
  <2> QED BY <1>2, <2>3 DEF StoryTyped, story
<1> QED BY <1>1, <1>2 DEF PushFails

-----------------------------------------------------------------------------
(* Type correctness, action by action. *)

QuotaTyped == /\ wall \in BOOLEAN /\ known \in {"clear", "met", "unparked"}
              /\ ticks \in 0 .. ProbeEvery - 1 /\ made \in 0 .. MaxWork

\* The type invariant, by the pieces the lemmas speak of.
LEMMA TypeParts ==
    TypeOK <=> env \in Environments /\ StoryTyped /\ remote \in SUBSET Commit /\ QuotaTyped
BY DEF TypeOK, StoryTyped, QuotaTyped

\* A dispatch.
LEMMA DispatchTyped == TypeOK /\ Dispatch => TypeOK'
<1> SUFFICES ASSUME TypeOK, Dispatch PROVE TypeOK'
  OBVIOUS
<1>1. leg' \in Leg
  <2>1. \A b \in BOOLEAN : [NoLeg EXCEPT !.pc = "setup", !.approved = b] \in Leg
    BY NoLegTyped DEF Leg
  <2>2. ("approved" \in labels) \in BOOLEAN
    OBVIOUS
  <2>3. leg' = [NoLeg EXCEPT !.pc = "setup", !.approved = ("approved" \in labels)]
    BY DEF Dispatch
  <2> QED BY <2>1, <2>2, <2>3, Zenon
<1> QED BY <1>1 DEF TypeOK, Dispatch, story

\* The pre-CLI setup.
LEMMA SetupTyped == TypeOK /\ Setup => TypeOK'
<1> SUFFICES ASSUME TypeOK, Setup PROVE TypeOK'
  OBVIOUS
<1>1. StoryTyped /\ QuotaTyped /\ remote \in SUBSET Commit /\ env \in Environments
  BY TypeParts
<1>2. status' \in Statuses
  BY <1>1, Calls DEF Setup, Statuses, StoryTyped
<1>3. leg' \in Leg
  <2>1. CASE CheckoutBranch
    <3>1. PICK found \in BOOLEAN :
            leg' = [leg EXCEPT !.pc = "agent", !.local = IF found THEN remote ELSE {},
                               !.base = IF found THEN remote ELSE {}]
      BY <2>1 DEF CheckoutBranch, BranchFound
    <3> QED BY <3>1, <1>1 DEF Leg, StoryTyped
  <2>2. CASE End("failed")
    BY <2>2, EndTyped DEF Ends
  <2> QED BY <2>1, <2>2 DEF Setup
<1> QED BY <1>1, <1>2, <1>3 DEF Setup, TypeOK, StoryTyped, QuotaTyped, quota

\* The agent at work.
LEMMA SessionTyped == TypeOK /\ Session => TypeOK'
<1> SUFFICES ASSUME TypeOK, Session PROVE TypeOK'
  OBVIOUS
<1>1. CASE AgentWorks
  <2>1. made + 1 \in 1 .. MaxWork
    BY <1>1, Bounds DEF TypeOK, AgentWorks
  <2>2. leg' \in Leg
    BY <1>1, <2>1 DEF AgentWorks, TypeOK, Leg
  <2>3. made' \in 0 .. MaxWork
    BY <1>1, <2>1, Bounds DEF AgentWorks
  <2> QED BY <1>1, <2>2, <2>3 DEF AgentWorks, TypeOK, story, quota
<1>2. CASE AutoSave
  <2>1. Saved \in SUBSET Commit /\ remote \in SUBSET Commit /\ leg \in Leg
    BY SavedTyped DEF TypeOK
  <2>2. leg' \in Leg
    <3> DEFINE s == Saved
               t == Saved \cup remote
    <3>1. s \in SUBSET Commit /\ t \in SUBSET Commit
      BY <2>1
    <3>2. \/ leg' = [leg EXCEPT !.tree = {}, !.local = s]
          \/ leg' = [leg EXCEPT !.tree = {}, !.local = t, !.merged = TRUE]
      BY <1>2 DEF AutoSave
    <3> HIDE DEF s, t
    <3> QED BY <3>1, <3>2, <2>1, ZenonT(30) DEF Leg
  <2>3. remote' \in SUBSET Commit
    BY <1>2, <2>1 DEF AutoSave
  <2>4. reviewed' \in BOOLEAN
    <3>1. reviewed' = (reviewed /\ remote' = remote)
      BY <1>2 DEF AutoSave
    <3> QED BY <3>1, Zenon
  <2> QED BY <1>2, <2>2, <2>3, <2>4 DEF AutoSave, TypeOK, quota
<1>3. CASE HitWall
  BY <1>3 DEF HitWall, TypeOK, story
<1> QED BY <1>1, <1>2, <1>3 DEF Session

\* The end of a session, main or resumed.
LEMMA SessionEndTyped == TypeOK /\ SessionEnds => TypeOK'
<1> SUFFICES ASSUME TypeOK, SessionEnds PROVE TypeOK'
  OBVIOUS
<1>0. StoryTyped /\ QuotaTyped /\ remote \in SUBSET Commit /\ env \in Environments /\ leg \in Leg
  BY TypeParts DEF StoryTyped
<1>1. CASE MainSessionEnds
  <2>1. leg' \in Leg
    <3>1. ASSUME NEW ask \in BOOLEAN, leg' = [leg EXCEPT !.pc = "post", !.resp = TRUE, !.ask = ask]
          PROVE  leg' \in Leg
      BY <1>0, <3>1 DEF Leg
    <3>2. ASSUME NEW cause \in Causes, leg' = [leg EXCEPT !.pc = "post", !.cause = cause]
          PROVE  leg' \in Leg
      <4>1. cause \in {"none", "quota", "outage", "fatal"}
        BY DEF Causes
      <4> QED BY <1>0, <3>2, <4>1 DEF Leg
    <3> QED BY <1>1, <3>1, <3>2 DEF MainSessionEnds
  <2>2. known' \in {"clear", "met", "unparked"}
    BY <1>1, <1>0 DEF MainSessionEnds, QuotaTyped
  <2> QED BY <1>1, <1>0, <2>1, <2>2 DEF MainSessionEnds, TypeOK, StoryTyped, QuotaTyped, story
<1>2. CASE ResumedSessionEnds
  <2>1. leg' \in Leg
    <3>1. leg.resp \in BOOLEAN /\ leg.ask \in BOOLEAN /\ leg.back \in PCs
      BY <1>0 DEF Leg, PCs
    <3>2. PICK resp \in BOOLEAN, ask \in BOOLEAN :
            leg' = [leg EXCEPT !.pc = leg.back, !.resp = resp, !.ask = ask]
      BY <1>2, <3>1 DEF ResumedSessionEnds
    <3> QED BY <1>0, <3>1, <3>2 DEF Leg, PCs
  <2> QED BY <1>2, <1>0, <2>1 DEF ResumedSessionEnds, TypeOK, StoryTyped, QuotaTyped, story, quota
<1>3. CASE ResumeFails
  <2>1. StoryTyped'
    <3>1. CASE leg' = [leg EXCEPT !.pc = leg.back] /\ UNCHANGED story
      <4>1. leg.back \in PCs
        BY <1>0 DEF Leg, PCs
      <4>2. leg' \in Leg
        BY <1>0, <3>1, <4>1, Goto
      <4> QED BY <1>0, <3>1, <4>2 DEF StoryTyped, story
    <3>2. CASE NoChangesNeeded
      BY <1>0, <3>2, OutcomesTyped
    <3>3. CASE ResumeOrReset("post", "reset")
      BY <1>0, <3>3, ResumeOrResetTyped DEF Stages, Ends
    <3>4. CASE ResetForRetry("reset") \/ ResetForRetry("failed")
      BY <1>0, <3>4, ResetTyped DEF Ends
    <3> QED BY <1>3, <3>1, <3>2, <3>3, <3>4 DEF ResumeFails
  <2> QED BY <1>3, <1>0, <2>1, TypeParts DEF ResumeFails, TypeOK, StoryTyped, QuotaTyped, quota
<1> QED BY <1>1, <1>2, <1>3 DEF SessionEnds

\* The post action, step by step.
LEMMA PostActionTyped == TypeOK /\ PostAction => TypeOK'
<1> SUFFICES ASSUME TypeOK, PostAction PROVE TypeOK'
  OBVIOUS
<1>0. StoryTyped /\ QuotaTyped /\ remote \in SUBSET Commit /\ env \in Environments /\ leg \in Leg
  BY TypeParts DEF StoryTyped
<1>a. ASSUME StoryTyped', remote' \in SUBSET Commit, UNCHANGED <<env, quota, made>>
      PROVE  TypeOK'
  BY <1>a, <1>0 DEF StoryTyped, TypeOK, QuotaTyped, quota
<1>b. ASSUME NEW p \in PCs, leg' = [leg EXCEPT !.pc = p], UNCHANGED story PROVE StoryTyped'
  <2>1. leg' \in Leg
    BY <1>0, <1>b, Goto
  <2> QED BY <1>0, <1>b, <2>1 DEF StoryTyped, story
<1>1. CASE StartPostAction
  <2>1. status' \in Statuses /\ labels' \in SUBSET Labels
    BY <1>1, <1>0, Calls DEF StartPostAction, CleanStalePrApproved, StoryTyped, Statuses, Labels
  <2>2. leg' \in Leg
    BY <1>1, <1>0, EndTyped, Goto DEF StartPostAction, Ends, PCs
  <2> QED BY <1>1, <1>0, <1>a, <2>1, <2>2 DEF StartPostAction, StoryTyped, quota
<1>2. CASE GitOperations
  <2>1. CASE Push("dev", "gates")
    BY <1>0, <1>2, <1>a, <2>1, PushTyped DEF GitOperations, Kinds, PCs
  <2>2. CASE PushFails("dev", "push", "reset") \/ PushFails("dev", "git", "failed")
    <3>1. StoryTyped'
      BY <1>0, <2>2, PushFailsTyped DEF Kinds, Stages, Ends
    <3> QED BY <1>0, <1>2, <1>a, <2>2, <3>1 DEF GitOperations, PushFails
  <2>3. CASE leg' = [leg EXCEPT !.pc = IF remote # {} THEN "gates" ELSE "no changes"]
             /\ UNCHANGED <<story, remote>>
    BY <1>0, <1>2, <1>a, <1>b, <2>3 DEF GitOperations, PCs
  <2> QED BY <1>2, <2>1, <2>2, <2>3 DEF GitOperations
<1>3. CASE RecoverNoChanges
  <2>1. CASE AskReporter \/ NoChangesNeeded
    BY <1>0, <2>1, <1>3, <1>a, OutcomesTyped DEF RecoverNoChanges
  <2>2. CASE CanResume("landing") /\ Resume("landing", "post")
    BY <1>0, <2>2, <1>3, <1>a, ResumeStory DEF RecoverNoChanges, Stages, Backs
  <2>3. CASE RecoverMissingResponse("no changes")
    BY <1>0, <2>3, <1>3, <1>a, MissingTyped DEF RecoverNoChanges, Backs
  <2> QED BY <1>3, <2>1, <2>2, <2>3 DEF RecoverNoChanges
<1>4. CASE RunGates
  <2>1. CASE AskReporter
    BY <1>0, <2>1, <1>4, <1>a, OutcomesTyped DEF RunGates
  <2>2. CASE leg' = [leg EXCEPT !.pc = "fix git"] /\ UNCHANGED story
    BY <1>0, <2>2, <1>4, <1>a, <1>b DEF RunGates, PCs
  <2>3. CASE CanResume("gate") /\ Resume("gate", "gates")
    BY <1>0, <2>3, <1>4, <1>a, ResumeStory DEF RunGates, Stages, Backs
  <2>4. CASE ResetForRetry("reset")
    BY <1>0, <2>4, <1>4, <1>a, ResetTyped DEF RunGates, Ends
  <2> QED BY <1>4, <2>1, <2>2, <2>3, <2>4 DEF RunGates
<1>5. CASE GateFixGitOperations
  <2>1. CASE Push("fix", "published")
    BY <1>0, <1>5, <1>a, <2>1, PushTyped DEF GateFixGitOperations, Kinds, PCs
  <2>2. CASE PushFails("fix", "fix push", "reset") \/ PushFails("fix", "fix git", "failed")
    <3>1. StoryTyped'
      BY <1>0, <2>2, PushFailsTyped DEF Kinds, Stages, Ends
    <3> QED BY <1>0, <1>5, <1>a, <2>2, <3>1 DEF GateFixGitOperations, PushFails
  <2>3. CASE leg' = [leg EXCEPT !.pc = "published"] /\ UNCHANGED <<story, remote>>
    BY <1>0, <1>5, <1>a, <1>b, <2>3 DEF GateFixGitOperations, PCs
  <2> QED BY <1>5, <2>1, <2>2, <2>3 DEF GateFixGitOperations
<1>6. CASE RunPostPublishGates
  <2>1. CASE leg' = [leg EXCEPT !.pc = "response"] /\ UNCHANGED story
    BY <1>0, <2>1, <1>6, <1>a, <1>b DEF RunPostPublishGates, PCs
  <2>2. CASE ResumeOrReset("published gate", "reset")
    BY <1>0, <2>2, <1>6, <1>a, ResumeOrResetTyped DEF RunPostPublishGates, Stages, Ends
  <2> QED BY <1>6, <2>1, <2>2 DEF RunPostPublishGates
<1>7. CASE EnsureResponse
  <2>1. CASE leg' = [leg EXCEPT !.pc = "pr"] /\ UNCHANGED story
    BY <1>0, <2>1, <1>7, <1>a, <1>b DEF EnsureResponse, PCs
  <2>2. CASE RecoverMissingResponse("response")
    BY <1>0, <2>2, <1>7, <1>a, MissingTyped DEF EnsureResponse, Backs
  <2> QED BY <1>7, <2>1, <2>2 DEF EnsureResponse
<1>8. CASE CreatePullRequest
  <2>1. CASE /\ pr' = "open" /\ leg' = [leg EXCEPT !.pc = "final"]
             /\ UNCHANGED <<status, labels, reviewed>>
    <3>1. leg' \in Leg
      BY <2>1, <1>0, Goto DEF PCs
    <3> QED BY <1>0, <1>a, <1>8, <2>1, <3>1 DEF CreatePullRequest, StoryTyped
  <2>2. CASE ResumeOrReset("pr", "failed")
    BY <1>0, <2>2, <1>8, <1>a, ResumeOrResetTyped DEF CreatePullRequest, Stages, Ends
  <2> QED BY <1>8, <2>1, <2>2 DEF CreatePullRequest
<1>9. CASE FinalizeSuccess
  <2>1. status' \in Statuses /\ labels' \in SUBSET Labels
    BY <1>9, <1>0, Calls DEF FinalizeSuccess, Statuses, Labels
  <2>2. leg' \in Leg
    BY <1>9, EndTyped DEF FinalizeSuccess, Ends
  <2> QED BY <1>9, <1>0, <1>a, <2>1, <2>2 DEF FinalizeSuccess, StoryTyped
<1> QED BY <1>1, <1>2, <1>3, <1>4, <1>5, <1>6, <1>7, <1>8, <1>9 DEF PostAction

\* The local jobs.
LEMMA JobsTyped == TypeOK /\ Jobs => TypeOK'
<1> SUFFICES ASSUME TypeOK, Jobs PROVE TypeOK'
  OBVIOUS
<1>0. StoryTyped
  BY TypeParts
<1>1. CASE QuotaParkTick
  <2>1. ticks' \in 0 .. ProbeEvery - 1
    <3>1. ticks \in Nat /\ ProbeEvery \in Nat \ {0}
      BY Bounds DEF TypeOK
    <3>2. (ticks + 1) % ProbeEvery \in 0 .. ProbeEvery - 1
      BY <3>1
    <3> QED BY <1>1, <3>2 DEF QuotaParkTick, NextTick, TypeOK
  <2>2. status' \in Statuses /\ labels' \in SUBSET Labels
    BY <1>1, <1>0, Calls DEF QuotaParkTick, StoryTyped, Statuses, Labels
  <2>3. known' \in {"clear", "met", "unparked"}
    BY <1>1 DEF QuotaParkTick, TypeOK
  <2> QED BY <1>1, <2>1, <2>2, <2>3 DEF QuotaParkTick, TypeOK
<1>2. CASE RecoverStuckDevelopment
  <2>1. status' \in Statuses
    BY <1>2, <1>0, Calls DEF RecoverStuckDevelopment, Statuses
  <2> QED BY <1>2, <2>1 DEF RecoverStuckDevelopment, TypeOK, quota
<1>3. CASE RetryMerge
  <2>1. status' \in Statuses /\ labels' \in SUBSET Labels /\ pr' \in {"none", "open", "merged"}
    BY <1>3, <1>0, Calls DEF RetryMerge, Statuses, Labels, StoryTyped
  <2> QED BY <1>3, <2>1 DEF RetryMerge, TypeOK, quota
<1>4. CASE RecoverMergedPR
  <2>1. status' \in Statuses /\ labels' \in SUBSET Labels
    BY <1>4, <1>0, Calls DEF RecoverMergedPR, Statuses, Labels
  <2> QED BY <1>4, <2>1 DEF RecoverMergedPR, TypeOK, quota
<1> QED BY <1>1, <1>2, <1>3, <1>4 DEF Jobs

\* People, the provider and the other legs.
LEMMA SurroundingsTyped == TypeOK /\ Surroundings => TypeOK'
<1> SUFFICES ASSUME TypeOK, Surroundings PROVE TypeOK'
  OBVIOUS
<1>1. CASE QuotaResets
  BY <1>1 DEF QuotaResets, TypeOK, story
<1>2. CASE Review
  BY <1>2 DEF Review, TypeOK, quota, Statuses, Labels
<1>3. CASE Rework
  BY <1>3 DEF Rework, TypeOK, quota, Statuses
<1>4. CASE Answer
  BY <1>4 DEF Answer, TypeOK, quota, Statuses
<1>5. CASE Restart
  BY <1>5 DEF Restart, TypeOK, quota, Statuses
<1>6. CASE Unpark
  BY <1>6 DEF Unpark, TypeOK
<1>7. CASE PersonPushes
  <2>1. made + 1 \in 1 .. MaxWork
    BY <1>7, Bounds DEF PersonPushes, TypeOK
  <2>2. [works |-> {made + 1}, kind |-> "person"] \in Commit
    BY <2>1 DEF Commit
  <2>3. made' \in 0 .. MaxWork
    BY <1>7, <2>1, Bounds DEF PersonPushes
  <2> QED BY <1>7, <2>2, <2>3 DEF PersonPushes, TypeOK, quota
<1> QED BY <1>1, <1>2, <1>3, <1>4, <1>5, <1>6, <1>7 DEF Surroundings

\* Every variable keeps its type; in particular no stage of a leg is resumed more
\* often than feedbackLoop's resumeBlocker allows.
THEOREM TypeCorrect == Spec => []TypeOK
<1>1. Init => TypeOK
  <2> SUFFICES ASSUME Init PROVE TypeOK
    OBVIOUS
  <2>2. 0 \in 0 .. ProbeEvery - 1 /\ 0 \in 0 .. MaxWork
    BY Bounds
  <2> QED BY NoLegTyped, <2>2 DEF Init, TypeOK, Statuses, Labels
<1>2. TypeOK /\ [Next]_vars => TypeOK'
  <2>1. CASE UNCHANGED vars
    BY <2>1 DEF vars, TypeOK
  <2>2. ASSUME TypeOK, Kill PROVE TypeOK'
    <3>1. leg' \in Leg
      BY <2>2, EndTyped DEF Kill, Ends
    <3> QED BY <2>2, <3>1 DEF Kill, TypeOK, story, quota
  <2> QED BY <2>1, <2>2, DispatchTyped, SetupTyped, SessionTyped, SessionEndTyped, PostActionTyped,
             JobsTyped, SurroundingsTyped DEF Next
<1> QED BY <1>1, <1>2, PTL DEF Spec

-----------------------------------------------------------------------------
(* The fields of a leg the safety properties read. *)

Kept == /\ leg'.resp = leg.resp /\ leg'.ask = leg.ask
        /\ leg'.cause = leg.cause /\ leg'.approved = leg.approved

\* A leg that ends.
LEMMA EndFields == ASSUME NEW o, End(o) PROVE leg'.pc = "idle"
BY DEF End, NoLeg

\* A handler that goes on to the next step.
LEMMA GotoFields ==
    ASSUME leg \in Leg, NEW p, leg' = [leg EXCEPT !.pc = p]
    PROVE  /\ leg'.pc = p /\ leg'.stage = leg.stage /\ leg'.back = leg.back
           /\ leg'.local = leg.local /\ Kept
BY DEF Leg, Kept

\* A resume.
LEMMA ResumeFields ==
    ASSUME leg \in Leg, NEW stage, NEW back, Resume(stage, back)
    PROVE  /\ leg'.pc = "agent" /\ leg'.stage = stage /\ leg'.back = back
           /\ leg'.local = leg.local /\ Kept /\ UNCHANGED story
<1> DEFINE u == [leg.used EXCEPT ![stage] = leg.used[stage] + 1]
<1>1. leg' = [leg EXCEPT !.pc = "agent", !.stage = stage, !.back = back, !.used = u]
  BY DEF Resume, Leg
<1>2. UNCHANGED story
  BY DEF Resume
<1> HIDE DEF u
<1> QED BY <1>1, <1>2 DEF Leg, Kept

\* A push.
LEMMA PushFields ==
    ASSUME leg \in Leg, NEW kind, NEW next, Push(kind, next)
    PROVE  /\ leg'.pc = next /\ leg'.stage = leg.stage /\ leg'.back = leg.back
           /\ leg'.local = Committed(kind) /\ remote' = Committed(kind) /\ Kept
<1>1. leg' = [leg EXCEPT !.pc = next, !.tree = {}, !.local = Committed(kind)] /\ remote' = Committed(kind)
  BY DEF Push
<1> QED BY <1>1 DEF Leg, Kept

\* Either the leg ends with the story reset, or it is resumed with its work committed.
LEMMA PushFailsFields ==
    ASSUME leg \in Leg, NEW kind, NEW stage, NEW o, PushFails(kind, stage, o)
    PROVE  /\ remote' = remote
           /\ \/ ResetForRetry(o)
              \/ /\ leg'.pc = "agent" /\ leg'.stage = stage /\ leg'.back = "post"
                 /\ leg'.local = Committed(kind) /\ Kept /\ UNCHANGED story
<1>1. ASSUME UNCHANGED story,
             leg' = [leg EXCEPT !.pc = "agent", !.stage = stage, !.back = "post",
                                !.used[stage] = @ + 1, !.tree = {}, !.local = Committed(kind)]
      PROVE  leg'.pc = "agent" /\ leg'.stage = stage /\ leg'.back = "post"
             /\ leg'.local = Committed(kind) /\ Kept
  <2> DEFINE u == [leg.used EXCEPT ![stage] = leg.used[stage] + 1]
             c == Committed(kind)
  <2>1. leg' = [leg EXCEPT !.pc = "agent", !.stage = stage, !.back = "post",
                           !.used = u, !.tree = {}, !.local = c]
    BY <1>1 DEF Leg
  <2> HIDE DEF u, c
  <2>2. leg'.pc = "agent" /\ leg'.stage = stage /\ leg'.back = "post" /\ leg'.local = c /\ Kept
    BY <2>1 DEF Leg, Kept
  <2> QED BY <2>2 DEF c
<1> QED BY <1>1 DEF PushFails

\* A resume of the agent, or the end of the leg.
LEMMA MissingFields ==
    ASSUME leg \in Leg, NEW back, RecoverMissingResponse(back)
    PROVE  leg'.pc = "idle" \/ leg'.local = leg.local
BY EndFields, ResumeFields DEF RecoverMissingResponse, Park, ResetForRetry

\* The same, of a resume with a reset in its place.
LEMMA ResumeOrResetFields ==
    ASSUME leg \in Leg, NEW stage, NEW o, ResumeOrReset(stage, o)
    PROVE  leg'.pc = "idle" \/ leg'.local = leg.local
BY EndFields, ResumeFields DEF ResumeOrReset, ResetForRetry

-----------------------------------------------------------------------------
(* Pushed work is kept: a working leg has everything the remote has. *)

\* More commits carry no less work.
LEMMA WorksMonotone ==
    ASSUME NEW S, NEW T, S \subseteq T PROVE Works(S) \subseteq Works(T)
BY DEF Works

\* A commit of the tree and the squash keep every piece of work of the branch.
LEMMA CommittedKeeps ==
    ASSUME NEW kind PROVE Works(leg.local) \subseteq Works(Committed(kind))
<1> DEFINE commits == (leg.local \ leg.base)
                        \cup IF leg.tree = {} THEN {} ELSE {[works |-> leg.tree, kind |-> kind]}
           one == [works |-> Works(commits), kind |-> kind]
           new == IF Squashable(commits, kind) THEN {one} ELSE commits
<1>1. Committed(kind) = leg.base \cup new
  BY DEF Committed
<1>2. Works(commits) \subseteq Works(new)
  <2>1. CASE Squashable(commits, kind)
    <3>1. one.works = Works(commits) /\ one \in new
      BY <2>1
    <3> HIDE DEF one, new, commits
    <3> QED BY <3>1 DEF Works
  <2>2. CASE ~Squashable(commits, kind)
    BY <2>2
  <2> QED BY <2>1, <2>2
<1>3. leg.local \subseteq leg.base \cup commits
  OBVIOUS
<1> HIDE DEF commits, new
<1> QED BY <1>1, <1>2, <1>3 DEF Works

NoLoss == env \cap {"failed probes", "pushes"} = {}

Working == leg.pc \notin {"idle", "setup"}

Carried == Working => Works(remote) \subseteq Works(leg.local)

WorkKept == Works(remote) \subseteq Works(remote')

\* A step that leaves the remote and the branch alone, or ends the leg.
LEMMA CarriedOn ==
    ASSUME Carried, Working, leg'.pc = "idle" \/ leg'.local = leg.local, remote' = remote
    PROVE  Carried' /\ WorkKept
BY DEF Carried, Working, WorkKept

\* The post action pushes only what holds all that is on the remote.
LEMMA PostActionKeeps ==
    ASSUME TypeOK, Carried, PostAction PROVE Carried' /\ WorkKept
<1>0. leg \in Leg
  BY DEF TypeOK
<1>a. ASSUME NEW kind, NEW next, Push(kind, next), Working PROVE Carried' /\ WorkKept
  <2>1. Works(leg.local) \subseteq Works(Committed(kind))
    BY CommittedKeeps
  <2>2. leg'.local = Committed(kind) /\ remote' = Committed(kind)
    BY <1>0, <1>a, PushFields
  <2> QED BY <1>a, <2>1, <2>2 DEF Carried, Working, WorkKept
<1>b. ASSUME NEW kind, NEW stage, NEW o, PushFails(kind, stage, o), Working PROVE Carried' /\ WorkKept
  <2>1. Works(leg.local) \subseteq Works(Committed(kind))
    BY CommittedKeeps
  <2>2. remote' = remote /\ (leg'.pc = "idle" \/ leg'.local = Committed(kind))
    BY <1>0, <1>b, PushFailsFields, EndFields DEF ResetForRetry
  <2> QED BY <1>b, <2>1, <2>2 DEF Carried, Working, WorkKept
<1>1. CASE StartPostAction
  <2>1. Working /\ remote' = remote
    BY <1>1 DEF StartPostAction, Working
  <2>2. leg'.pc = "idle" \/ leg'.local = leg.local
    BY <1>0, <1>1, EndFields, GotoFields DEF StartPostAction
  <2> QED BY <2>1, <2>2, CarriedOn
<1>2. CASE GitOperations
  <2>0. Working
    BY <1>2 DEF GitOperations, Working
  <2>1. CASE Push("dev", "gates")
    BY <2>0, <2>1, <1>a
  <2>2. CASE PushFails("dev", "push", "reset") \/ PushFails("dev", "git", "failed")
    BY <2>0, <2>2, <1>b
  <2>3. CASE leg' = [leg EXCEPT !.pc = IF remote # {} THEN "gates" ELSE "no changes"] /\ remote' = remote
    BY <1>0, <2>0, <2>3, GotoFields, CarriedOn
  <2> QED BY <1>2, <2>1, <2>2, <2>3 DEF GitOperations
<1>3. CASE RecoverNoChanges
  <2>1. Working /\ remote' = remote
    BY <1>3 DEF RecoverNoChanges, Working
  <2>2. leg'.pc = "idle" \/ leg'.local = leg.local
    BY <1>0, <1>3, EndFields, ResumeFields, MissingFields DEF RecoverNoChanges, AskReporter, NoChangesNeeded
  <2> QED BY <2>1, <2>2, CarriedOn
<1>4. CASE RunGates
  <2>1. Working /\ remote' = remote
    BY <1>4 DEF RunGates, Working
  <2>2. leg'.pc = "idle" \/ leg'.local = leg.local
    BY <1>0, <1>4, EndFields, GotoFields, ResumeFields DEF RunGates, AskReporter, ResetForRetry
  <2> QED BY <2>1, <2>2, CarriedOn
<1>5. CASE GateFixGitOperations
  <2>0. Working
    BY <1>5 DEF GateFixGitOperations, Working
  <2>1. CASE Push("fix", "published")
    BY <2>0, <2>1, <1>a
  <2>2. CASE PushFails("fix", "fix push", "reset") \/ PushFails("fix", "fix git", "failed")
    BY <2>0, <2>2, <1>b
  <2>3. CASE leg' = [leg EXCEPT !.pc = "published"] /\ remote' = remote
    BY <1>0, <2>0, <2>3, GotoFields, CarriedOn
  <2> QED BY <1>5, <2>1, <2>2, <2>3 DEF GateFixGitOperations
<1>6. CASE RunPostPublishGates
  <2>1. Working /\ remote' = remote
    BY <1>6 DEF RunPostPublishGates, Working
  <2>2. leg'.pc = "idle" \/ leg'.local = leg.local
    BY <1>0, <1>6, GotoFields, ResumeOrResetFields DEF RunPostPublishGates
  <2> QED BY <2>1, <2>2, CarriedOn
<1>7. CASE EnsureResponse
  <2>1. Working /\ remote' = remote
    BY <1>7 DEF EnsureResponse, Working
  <2>2. leg'.pc = "idle" \/ leg'.local = leg.local
    BY <1>0, <1>7, GotoFields, MissingFields DEF EnsureResponse
  <2> QED BY <2>1, <2>2, CarriedOn
<1>8. CASE CreatePullRequest
  <2>1. Working /\ remote' = remote
    BY <1>8 DEF CreatePullRequest, Working
  <2>2. leg'.pc = "idle" \/ leg'.local = leg.local
    BY <1>0, <1>8, GotoFields, ResumeOrResetFields DEF CreatePullRequest
  <2> QED BY <2>1, <2>2, CarriedOn
<1>9. CASE FinalizeSuccess
  BY <1>9, EndFields DEF FinalizeSuccess, Carried, Working, WorkKept
<1> QED BY <1>1, <1>2, <1>3, <1>4, <1>5, <1>6, <1>7, <1>8, <1>9 DEF PostAction

\* The auto-save adds to the branch before it adds to the remote.
LEMMA SessionKeeps ==
    ASSUME TypeOK, Carried, Session \/ SessionEnds PROVE Carried' /\ WorkKept
<1>0. leg \in Leg
  BY DEF TypeOK
<1>1. CASE AgentWorks
  <2>1. Working /\ remote' = remote
    BY <1>1 DEF AgentWorks, Working
  <2>2. leg'.local = leg.local
    BY <1>0, <1>1 DEF AgentWorks, Leg
  <2> QED BY <2>1, <2>2, CarriedOn
<1>2. CASE AutoSave
  <2>1. leg.local \subseteq Saved
    BY DEF Saved
  <2>2. \/ leg' = [leg EXCEPT !.tree = {}, !.local = Saved]
        \/ leg' = [leg EXCEPT !.tree = {}, !.local = Saved \cup remote, !.merged = TRUE]
    BY <1>2 DEF AutoSave
  <2>3. leg'.local \in {Saved, Saved \cup remote}
    BY <1>0, <2>2 DEF Leg
  <2>4. remote \subseteq remote' /\ Working
    BY <1>2 DEF AutoSave, Working
  <2>5. remote' \subseteq leg'.local \/ (remote' = remote /\ leg.local \subseteq leg'.local)
    <3>1. CASE remote' = remote
      BY <2>1, <2>3, <3>1
    <3>2. CASE remote' = Saved /\ leg' = [leg EXCEPT !.tree = {}, !.local = Saved]
      BY <1>0, <3>2 DEF Leg
    <3>3. CASE /\ remote' = Saved \cup remote
               /\ leg' = [leg EXCEPT !.tree = {}, !.local = Saved \cup remote, !.merged = TRUE]
      BY <1>0, <3>3 DEF Leg
    <3> QED BY <1>2, <3>1, <3>2, <3>3 DEF AutoSave
  <2> QED BY <2>4, <2>5, WorksMonotone DEF Carried, Working, WorkKept
<1>3. CASE HitWall
  BY <1>3 DEF HitWall, Carried, Working, WorkKept
<1>4. CASE MainSessionEnds
  <2>1. Working /\ remote' = remote
    BY <1>4 DEF MainSessionEnds, Working
  <2>2. leg'.local = leg.local
    BY <1>0, <1>4 DEF MainSessionEnds, Leg
  <2> QED BY <2>1, <2>2, CarriedOn
<1>5. CASE ResumedSessionEnds
  <2>1. Working /\ remote' = remote
    BY <1>5 DEF ResumedSessionEnds, Working
  <2>2. leg'.local = leg.local
    BY <1>0, <1>5 DEF ResumedSessionEnds, Leg
  <2> QED BY <2>1, <2>2, CarriedOn
<1>6. CASE ResumeFails
  <2>1. Working /\ remote' = remote
    BY <1>6 DEF ResumeFails, Working
  <2>2. leg'.pc = "idle" \/ leg'.local = leg.local
    BY <1>0, <1>6, EndFields, GotoFields, ResumeOrResetFields DEF ResumeFails, NoChangesNeeded, ResetForRetry
  <2> QED BY <2>1, <2>2, CarriedOn
<1> QED BY <1>1, <1>2, <1>3, <1>4, <1>5, <1>6 DEF Session, SessionEnds

\* A leg starts from what the remote has, when the probe tells the truth.
LEMMA SetupKeeps ==
    ASSUME TypeOK, Carried, NoLoss, Setup PROVE Carried' /\ WorkKept
<1>0. leg \in Leg
  BY DEF TypeOK
<1>1. CASE CheckoutBranch
  <2>1. leg' = [leg EXCEPT !.pc = "agent", !.local = IF remote # {} THEN remote ELSE {},
                           !.base = IF remote # {} THEN remote ELSE {}]
    BY <1>1 DEF CheckoutBranch, BranchFound, NoLoss
  <2>2. leg'.local = remote
    BY <1>0, <2>1 DEF Leg
  <2> QED BY <2>2 DEF Setup, Carried, Working, WorkKept
<1>2. CASE End("failed")
  BY <1>2, EndFields DEF Setup, Carried, Working, WorkKept
<1> QED BY <1>1, <1>2 DEF Setup

\* Every step of the system.
LEMMA CarriedStep ==
    ASSUME TypeOK, NoLoss, Carried, [Next]_vars PROVE Carried' /\ WorkKept
<1>1. CASE Dispatch
  BY <1>1 DEF Dispatch, Carried, Working, WorkKept, NoLeg
<1>2. CASE Setup
  BY <1>2, SetupKeeps
<1>3. CASE Session \/ SessionEnds
  BY <1>3, SessionKeeps
<1>4. CASE PostAction
  BY <1>4, PostActionKeeps
<1>5. CASE Kill
  BY <1>5, EndFields DEF Kill, Carried, Working, WorkKept
<1>6. CASE Jobs
  BY <1>6 DEF Jobs, QuotaParkTick, RecoverStuckDevelopment, RetryMerge, RecoverMergedPR, Carried, Working, WorkKept
<1>7. CASE Surroundings
  BY <1>7 DEF Surroundings, QuotaResets, Review, Rework, Answer, Restart, Unpark, PersonPushes, NoLoss,
              Carried, Working, WorkKept
<1>8. CASE UNCHANGED vars
  BY <1>8 DEF vars, Carried, Working, WorkKept
<1> QED BY <1>1, <1>2, <1>3, <1>4, <1>5, <1>6, <1>7, <1>8 DEF Next

\* The environment of a behaviour is fixed.
LEMMA SameEnvironment == [Next]_vars => env' = env
BY DEF Next, vars, Dispatch, Setup, Session, AgentWorks, AutoSave, HitWall, SessionEnds, MainSessionEnds,
       ResumedSessionEnds, ResumeFails, PostAction, StartPostAction, GitOperations, RecoverNoChanges, RunGates,
       GateFixGitOperations, RunPostPublishGates, EnsureResponse, CreatePullRequest, FinalizeSuccess, Kill, Jobs,
       QuotaParkTick, RecoverStuckDevelopment, RetryMerge, RecoverMergedPR, Surroundings, QuotaResets, Review,
       Rework, Answer, Restart, Unpark, PersonPushes

\* No auto-save, squash, forced push, resume or later leg ever takes a piece of work
\* off the remote branch: a leg at work has all the remote has in its own branch.
THEOREM PushedWorkIsKept == Spec => PushedWorkKept
<1> DEFINE Inv == NoLoss => Carried
<1>1. Init => Inv
  BY DEF Init, NoLeg, Carried, Working
<1>2. TypeOK /\ Inv /\ [Next]_vars => Inv'
  BY CarriedStep, SameEnvironment DEF NoLoss
<1>3. TypeOK /\ Inv /\ [Next]_vars => [NoLoss => WorkKept]_vars
  BY CarriedStep
<1>4. [NoLoss => WorkKept]_vars => [env \cap {"failed probes", "pushes"} = {} => Works(remote) \subseteq Works(remote')]_vars
  BY DEF NoLoss, WorkKept
<1> HIDE DEF Inv
<1> QED BY <1>1, <1>2, <1>3, <1>4, TypeCorrect, PTL DEF Spec, PushedWorkKept

-----------------------------------------------------------------------------
(* Where a wall is known, the leg is on its way to the park or the story   *)
(* is parked.  A working leg has no PR open, so that nothing ends it before. *)

ParkedRests == "park" \in labels => leg.pc = "idle" /\ pr # "open"

NoPRYet == /\ leg.pc \notin {"idle", "final"} => pr # "open"
           /\ leg.pc = "idle" /\ status \in {"Ready", "Development"} => pr # "open"

NoResponseYet == leg.pc = "setup" \/ (leg.pc = "agent" /\ leg.stage = "main") => ~leg.resp /\ ~leg.ask

ParksNext == /\ leg.pc \in {"post", "git", "no changes", "gates", "fix git", "published", "response"}
             /\ leg.cause = "quota" /\ ~leg.resp /\ ~leg.ask

WallParks == known = "met" => (leg.pc = "idle" /\ "park" \in labels) \/ ParksNext

WallInv == ParkedRests /\ NoPRYet /\ NoResponseYet /\ WallParks

NoBurn == AgentStarts => known # "met"

\* With no other trouble in the way, tracker calls succeed.
LEMMA SureCalls ==
    ASSUME ~Lossy
    PROVE  /\ \A s : Moved(s) = {s}
           /\ \A l : With(l) = {labels \cup {l}} /\ Without(l) = {labels \ {l}}
BY DEF Moved, With, Without

\* The post action takes a leg that met the wall to its park.
LEMMA WallPostAction ==
    ASSUME TypeOK, OnlyTheWall, WallInv, PostAction PROVE WallInv' /\ NoBurn
<1>0. leg \in Leg /\ ~Lossy
  BY DEF TypeOK, OnlyTheWall, Lossy
<1> USE DEF WallInv, ParkedRests, NoPRYet, NoResponseYet, WallParks, ParksNext, NoBurn, AgentStarts
<1>1. CASE StartPostAction
  <2>1. pr # "open"
    BY <1>1 DEF StartPostAction
  <2>2. leg' = [leg EXCEPT !.pc = "git"] /\ status' = status /\ labels' \subseteq labels /\ pr' = pr /\ known' = known
    BY <1>0, <1>1, <2>1, SureCalls DEF StartPostAction, CleanStalePrApproved, quota
  <2>3. leg'.pc = "git" /\ Kept
    BY <1>0, <2>2, GotoFields
  <2>4. leg.pc = "post"
    BY <1>1 DEF StartPostAction
  <2> QED BY <2>1, <2>2, <2>3, <2>4 DEF Kept
<1>2. CASE GitOperations
  <2>0. leg.pc = "git" /\ known' = known
    BY <1>2 DEF GitOperations, quota
  <2>1. CASE Push("dev", "gates")
    <3>1. leg'.pc = "gates" /\ Kept
      BY <1>0, <2>1, PushFields
    <3> QED BY <2>0, <2>1, <3>1 DEF Push, Kept
  <2>2. CASE leg' = [leg EXCEPT !.pc = IF remote # {} THEN "gates" ELSE "no changes"] /\ UNCHANGED story
    <3>1. leg'.pc \in {"gates", "no changes"} /\ Kept
      BY <1>0, <2>2, GotoFields
    <3> QED BY <2>0, <2>2, <3>1 DEF story, Kept
  <2> QED BY <1>2, <2>1, <2>2 DEF GitOperations, OnlyTheWall
<1>3. CASE RecoverNoChanges
  <2>0. leg.pc = "no changes" /\ known' = known
    BY <1>3 DEF RecoverNoChanges, quota
  <2>1. CASE leg.ask /\ AskReporter
    BY <1>0, <2>0, <2>1, EndFields, SureCalls DEF AskReporter
  <2>2. CASE leg.resp /\ NoChangesNeeded
    BY <1>0, <2>0, <2>2, EndFields, SureCalls DEF NoChangesNeeded
  <2>3. CASE leg.resp /\ Resume("landing", "post")
    <3>1. leg'.pc = "agent" /\ leg'.stage = "landing" /\ UNCHANGED <<status, labels, pr>>
      BY <1>0, <2>3, ResumeFields DEF story
    <3> QED BY <2>0, <2>3, <3>1
  <2>4. CASE ~leg.resp /\ RecoverMissingResponse("no changes")
    <3>1. CASE leg.cause = "quota" /\ Park
      <4>1. leg'.pc = "idle" /\ labels' = labels \cup {"park"} /\ UNCHANGED <<status, pr>>
        BY <1>0, <3>1, EndFields DEF Park, With
      <4> QED BY <2>0, <4>1
    <3>2. CASE leg.cause = "fatal" /\ End("failed") /\ UNCHANGED story
      BY <1>0, <2>0, <3>2, EndFields DEF story
    <3>3. CASE leg.cause \in {"none", "outage"} /\ Resume("missing", "no changes")
      BY <1>0, <2>0, <3>3, ResumeFields DEF story
    <3>4. CASE leg.cause \in {"none", "outage"} /\ ResetForRetry("failed")
      BY <1>0, <2>0, <3>4, EndFields, SureCalls DEF ResetForRetry
    <3> QED BY <2>4, <3>1, <3>2, <3>3, <3>4 DEF RecoverMissingResponse
  <2> QED BY <1>3, <2>1, <2>2, <2>3, <2>4 DEF RecoverNoChanges
<1>4. CASE RunGates
  <2>0. leg.pc = "gates" /\ known' = known
    BY <1>4 DEF RunGates, quota
  <2>1. CASE leg.ask /\ AskReporter
    BY <1>0, <2>0, <2>1, EndFields, SureCalls DEF AskReporter
  <2>2. CASE leg' = [leg EXCEPT !.pc = "fix git"] /\ UNCHANGED story
    <3>1. leg'.pc = "fix git" /\ Kept
      BY <1>0, <2>2, GotoFields
    <3> QED BY <2>0, <2>2, <3>1 DEF story, Kept
  <2> QED BY <1>4, <2>1, <2>2 DEF RunGates, OnlyTheWall
<1>5. CASE GateFixGitOperations
  <2>0. leg.pc = "fix git" /\ known' = known
    BY <1>5 DEF GateFixGitOperations, quota
  <2>1. CASE Push("fix", "published")
    <3>1. leg'.pc = "published" /\ Kept
      BY <1>0, <2>1, PushFields
    <3> QED BY <2>0, <2>1, <3>1 DEF Push, Kept
  <2>2. CASE leg' = [leg EXCEPT !.pc = "published"] /\ UNCHANGED story
    <3>1. leg'.pc = "published" /\ Kept
      BY <1>0, <2>2, GotoFields
    <3> QED BY <2>0, <2>2, <3>1 DEF story, Kept
  <2> QED BY <1>5, <2>1, <2>2 DEF GateFixGitOperations, OnlyTheWall
<1>6. CASE RunPostPublishGates
  <2>1. leg.pc = "published" /\ known' = known /\ leg' = [leg EXCEPT !.pc = "response"] /\ UNCHANGED story
    BY <1>6 DEF RunPostPublishGates, OnlyTheWall, quota
  <2>2. leg'.pc = "response" /\ Kept
    BY <1>0, <2>1, GotoFields
  <2> QED BY <2>1, <2>2 DEF story, Kept
<1>7. CASE EnsureResponse
  <2>0. leg.pc = "response" /\ known' = known
    BY <1>7 DEF EnsureResponse, quota
  <2>1. CASE leg.resp /\ leg' = [leg EXCEPT !.pc = "pr"] /\ UNCHANGED story
    <3>1. leg'.pc = "pr" /\ Kept
      BY <1>0, <2>1, GotoFields
    <3> QED BY <2>0, <2>1, <3>1 DEF story, Kept
  <2>2. CASE ~leg.resp /\ RecoverMissingResponse("response")
    <3>1. CASE leg.cause = "quota" /\ Park
      <4>1. leg'.pc = "idle" /\ labels' = labels \cup {"park"} /\ UNCHANGED <<status, pr>>
        BY <1>0, <3>1, EndFields DEF Park, With
      <4> QED BY <2>0, <4>1
    <3>2. CASE leg.cause = "fatal" /\ End("failed") /\ UNCHANGED story
      BY <1>0, <2>0, <3>2, EndFields DEF story
    <3>3. CASE leg.cause \in {"none", "outage"} /\ Resume("missing", "response")
      BY <1>0, <2>0, <3>3, ResumeFields DEF story
    <3>4. CASE leg.cause \in {"none", "outage"} /\ ResetForRetry("failed")
      BY <1>0, <2>0, <3>4, EndFields, SureCalls DEF ResetForRetry
    <3> QED BY <2>2, <3>1, <3>2, <3>3, <3>4 DEF RecoverMissingResponse
  <2> QED BY <1>7, <2>1, <2>2 DEF EnsureResponse
<1>8. CASE CreatePullRequest
  <2>1. leg.pc = "pr" /\ known' = known /\ leg' = [leg EXCEPT !.pc = "final"] /\ UNCHANGED <<status, labels>>
    BY <1>8 DEF CreatePullRequest, OnlyTheWall, quota
  <2>2. leg'.pc = "final" /\ Kept
    BY <1>0, <2>1, GotoFields
  <2> QED BY <2>1, <2>2 DEF Kept
<1>9. CASE FinalizeSuccess
  <2>1. leg.pc = "final" /\ known' = known /\ leg'.pc = "idle" /\ status' = "Review" /\ labels' \subseteq labels
    BY <1>0, <1>9, EndFields, SureCalls DEF FinalizeSuccess, quota
  <2> QED BY <2>1
<1> QED BY <1>1, <1>2, <1>3, <1>4, <1>5, <1>6, <1>7, <1>8, <1>9 DEF PostAction

\* A session ends with the wall known only when it is the main one, without response.
LEMMA WallSession ==
    ASSUME TypeOK, OnlyTheWall, WallInv, Session \/ SessionEnds PROVE WallInv' /\ NoBurn
<1>0. leg \in Leg /\ ~Lossy
  BY DEF TypeOK, OnlyTheWall, Lossy
<1>a. leg.pc = "agent"
  BY DEF Session, SessionEnds, AgentWorks, AutoSave, HitWall, MainSessionEnds, ResumedSessionEnds, ResumeFails
<1> USE <1>a DEF WallInv, ParkedRests, NoPRYet, NoResponseYet, WallParks, ParksNext, NoBurn, AgentStarts
<1>1. CASE Session
  <2>1. leg'.pc = leg.pc /\ leg'.stage = leg.stage /\ Kept
    <3>1. CASE AgentWorks
      BY <1>0, <3>1 DEF AgentWorks, Leg, Kept
    <3>2. CASE AutoSave
      <4>1. \/ leg' = [leg EXCEPT !.tree = {}, !.local = Saved]
            \/ leg' = [leg EXCEPT !.tree = {}, !.local = Saved \cup remote, !.merged = TRUE]
        BY <3>2 DEF AutoSave
      <4> QED BY <1>0, <4>1 DEF Leg, Kept
    <3>3. CASE HitWall
      BY <3>3 DEF HitWall, Kept
    <3> QED BY <1>1, <3>1, <3>2, <3>3 DEF Session
  <2>2. UNCHANGED <<status, labels, pr, known>>
    BY <1>1 DEF Session, AgentWorks, AutoSave, HitWall, story, quota
  <2> QED BY <2>1, <2>2 DEF Kept
<1>2. CASE MainSessionEnds
  <2>1. UNCHANGED story /\ leg.stage = "main"
    BY <1>2 DEF MainSessionEnds
  <2>2. CASE known' = known /\ \E ask \in BOOLEAN : leg' = [leg EXCEPT !.pc = "post", !.resp = TRUE, !.ask = ask]
    <3>1. leg'.pc = "post"
      BY <1>0, <2>2 DEF Leg
    <3> QED BY <2>1, <2>2, <3>1 DEF story
  <2>3. ASSUME NEW cause, leg' = [leg EXCEPT !.pc = "post", !.cause = cause],
               known' = IF cause = "quota" THEN "met" ELSE known
        PROVE  WallInv' /\ NoBurn
    <3>1. leg'.pc = "post" /\ leg'.cause = cause /\ leg'.resp = leg.resp /\ leg'.ask = leg.ask
      BY <1>0, <2>3 DEF Leg
    <3> QED BY <2>1, <2>3, <3>1 DEF story
  <2> QED BY <1>2, <2>2, <2>3 DEF MainSessionEnds
<1>3. CASE ResumedSessionEnds
  <2>1. UNCHANGED <<status, labels, pr, known>> /\ known # "met"
    BY <1>3 DEF ResumedSessionEnds, story, quota
  <2>2. leg'.pc = leg.back /\ leg.back \in Backs
    BY <1>0, <1>3 DEF ResumedSessionEnds, Leg, Backs
  <2> QED BY <2>1, <2>2 DEF Backs
<1>4. CASE ResumeFails
  <2>1. known' = known /\ known # "met"
    BY <1>4 DEF ResumeFails, quota
  <2>2. CASE leg' = [leg EXCEPT !.pc = leg.back] /\ UNCHANGED story
    <3>1. leg'.pc = leg.back /\ leg.back \in Backs
      BY <1>0, <2>2, GotoFields DEF Leg, Backs
    <3> QED BY <2>1, <2>2, <3>1 DEF story, Backs
  <2>3. CASE NoChangesNeeded
    BY <1>0, <2>1, <2>3, EndFields, SureCalls DEF NoChangesNeeded
  <2>4. CASE ResumeOrReset("post", "reset")
    BY <1>0, <2>1, <2>4, EndFields, ResumeFields, SureCalls DEF ResumeOrReset, ResetForRetry, story
  <2>5. CASE ResetForRetry("reset") \/ ResetForRetry("failed")
    BY <1>0, <2>1, <2>5, EndFields, SureCalls DEF ResetForRetry
  <2> QED BY <1>4, <2>2, <2>3, <2>4, <2>5 DEF ResumeFails
<1> QED BY <1>1, <1>2, <1>3, <1>4 DEF SessionEnds

\* Every step of the system.
LEMMA WallStep ==
    ASSUME TypeOK, OnlyTheWall, WallInv, [Next]_vars PROVE WallInv' /\ NoBurn
<1>0. leg \in Leg /\ ~Lossy
  BY DEF TypeOK, OnlyTheWall, Lossy
<1> USE DEF WallInv, ParkedRests, NoPRYet, NoResponseYet, WallParks, ParksNext, NoBurn, AgentStarts
<1>1. CASE Dispatch
  <2>1. leg'.pc = "setup" /\ ~leg'.resp /\ ~leg'.ask
    BY <1>1, NoLegTyped DEF Dispatch, Leg, NoLeg
  <2>2. known # "met" /\ known' # "met"
    BY <1>1 DEF Dispatch
  <2> QED BY <1>1, <2>1, <2>2 DEF Dispatch, story
<1>2. CASE Setup
  <2>0. leg.pc = "setup" /\ UNCHANGED <<labels, pr, known>> /\ known # "met"
    BY <1>2 DEF Setup, quota
  <2>1. CASE CheckoutBranch
    <3>1. leg'.pc = "agent" /\ leg'.resp = leg.resp /\ leg'.ask = leg.ask
      BY <1>0, <2>1 DEF CheckoutBranch, Leg
    <3> QED BY <2>0, <3>1
  <2>2. CASE End("failed")
    BY <2>0, <2>2, EndFields
  <2> QED BY <1>2, <2>1, <2>2 DEF Setup
<1>3. CASE Session \/ SessionEnds
  BY <1>3, WallSession
<1>4. CASE PostAction
  BY <1>4, WallPostAction
<1>5. CASE Kill
  BY <1>5 DEF Kill, OnlyTheWall
<1>6. CASE Jobs
  <2>1. CASE QuotaParkTick
    BY <1>0, <2>1, SureCalls DEF QuotaParkTick
  <2>2. CASE RecoverStuckDevelopment
    <3>1. status' = (IF pr = "open" THEN "Review" ELSE "Ready") /\ UNCHANGED <<labels, pr, leg, known>>
      BY <1>0, <2>2 DEF RecoverStuckDevelopment, Moved, quota
    <3> QED BY <2>2, <3>1 DEF RecoverStuckDevelopment
  <2>3. CASE RetryMerge
    <3>1. pr' = "merged" /\ labels' \subseteq labels /\ UNCHANGED <<leg, known>> /\ "park" \notin labels
      BY <1>0, <2>3 DEF RetryMerge, Without, quota, OnlyTheWall
    <3> QED BY <2>3, <3>1
  <2>4. CASE RecoverMergedPR
    <3>1. pr' # "open" /\ labels' \subseteq labels /\ UNCHANGED <<leg, known>> /\ "park" \notin labels
      BY <1>0, <2>4 DEF RecoverMergedPR, Without, quota
    <3> QED BY <2>4, <3>1
  <2> QED BY <1>6, <2>1, <2>2, <2>3, <2>4 DEF Jobs
<1>7. CASE Surroundings
  <2>1. CASE QuotaResets
    BY <2>1 DEF QuotaResets, story
  <2>2. CASE Review
    BY <2>2 DEF Review, quota
  <2>3. CASE Rework
    BY <2>3 DEF Rework, quota
  <2>4. CASE Answer
    BY <2>4 DEF Answer, quota
  <2>5. CASE Restart
    BY <2>5 DEF Restart, quota, OnlyTheWall
  <2>6. CASE Unpark
    BY <2>6 DEF Unpark
  <2>7. CASE PersonPushes
    BY <2>7 DEF PersonPushes, quota
  <2> QED BY <1>7, <2>1, <2>2, <2>3, <2>4, <2>5, <2>6, <2>7 DEF Surroundings
<1>8. CASE UNCHANGED vars
  BY <1>8 DEF vars
<1> QED BY <1>1, <1>2, <1>3, <1>4, <1>5, <1>6, <1>7, <1>8 DEF Next

\* A leg that the wall kept from its response parks its story and nothing starts an agent on it before
\* a probe has lifted the park or a person has removed the label.
THEOREM WallIsRespected == Spec => NoQuotaBurn
<1> DEFINE Inv == OnlyTheWall => WallInv
<1>1. Init => Inv
  BY DEF Init, NoLeg, WallInv, ParkedRests, NoPRYet, NoResponseYet, WallParks
<1>2. TypeOK /\ Inv /\ [Next]_vars => Inv'
  BY WallStep, SameEnvironment DEF OnlyTheWall
<1>3. TypeOK /\ Inv /\ [Next]_vars => [OnlyTheWall /\ AgentStarts => known # "met"]_vars
  BY WallStep DEF NoBurn
<1> HIDE DEF Inv
<1> QED BY <1>1, <1>2, <1>3, TypeCorrect, PTL DEF Spec, NoQuotaBurn

-----------------------------------------------------------------------------
(* An approval on a story whose PR is open is of what the PR holds: while  *)
(* a leg works, the story is in development without a PR, so that nobody   *)
(* can approve, and the post action strips what an earlier round left.     *)

Alone == env \cap {"restarts", "recovery", "lost calls", "pushes"} = {}

LegHasStory == /\ leg.pc = "setup" => status = "Ready"
               /\ Working => status = "Development"

NoPRAtWork == /\ leg.pc \notin {"idle", "final"} => pr # "open"
              /\ leg.pc = "idle" /\ status = "Ready" => pr # "open"

ParkedWaits == "park" \in labels => leg.pc = "idle" /\ pr # "open" /\ "questions" \notin labels

AskedWaits == "questions" \in labels => leg.pc = "idle" /\ status = "Development" /\ pr # "open"

ReworkUnapproved == status = "Rework" /\ pr = "open" => "approved" \notin labels

Approvals == "approved" \in labels =>
    /\ leg.pc \in {"setup", "agent", "post"} => leg.approved
    /\ leg.pc \in {"setup", "agent"} => leg.back = "post"
    /\ leg.pc \in {"idle", "setup", "agent", "post"}
    /\ pr = "open" => reviewed

ReviewInv == LegHasStory /\ NoPRAtWork /\ ParkedWaits /\ AskedWaits /\ ReworkUnapproved /\ Approvals

MergedReviewed == pr = "open" /\ pr' = "merged" => reviewed

\* What the ends of a leg do to its story when every call succeeds.
LEMMA SureEnds ==
    ASSUME ~Lossy
    PROVE  /\ \A o : ResetForRetry(o) => leg'.pc = "idle" /\ status' = "Ready" /\ UNCHANGED <<labels, pr, reviewed>>
           /\ NoChangesNeeded => /\ leg'.pc = "idle" /\ status' = "Review" /\ UNCHANGED <<pr, reviewed>>
                                 /\ labels' = labels \ {"questions"}
           /\ AskReporter => /\ leg'.pc = "idle" /\ UNCHANGED <<status, pr, reviewed>>
                             /\ labels' = labels \cup {"questions"}
           /\ Park => leg'.pc = "idle" /\ UNCHANGED <<status, pr, reviewed>> /\ labels' = labels \cup {"park"}
BY EndFields DEF ResetForRetry, NoChangesNeeded, AskReporter, Park, Moved, With, Without

\* A leg at work may end in any of these ways, or go on with the story as it is.
LEMMA ReviewEnds ==
    ASSUME ReviewInv, ~Lossy, Working, leg.pc # "final",
           (\E o : ResetForRetry(o)) \/ NoChangesNeeded \/ AskReporter \/ Park
              \/ (leg'.pc = "idle" /\ UNCHANGED story),
           leg.pc \in {"agent", "post"} => ~AskReporter /\ ~Park
    PROVE  ReviewInv' /\ MergedReviewed
<1> USE DEF ReviewInv, LegHasStory, NoPRAtWork, ParkedWaits, AskedWaits, ReworkUnapproved, Approvals,
            MergedReviewed, Working
<1>1. CASE \E o : ResetForRetry(o)
  <2>1. leg'.pc = "idle" /\ status' = "Ready" /\ UNCHANGED <<labels, pr, reviewed>>
    BY <1>1, SureEnds
  <2> QED BY <2>1
<1>2. CASE NoChangesNeeded
  <2>1. /\ leg'.pc = "idle" /\ status' = "Review" /\ UNCHANGED <<pr, reviewed>>
        /\ labels' = labels \ {"questions"}
    BY <1>2, SureEnds
  <2> QED BY <2>1
<1>3. CASE AskReporter
  <2>1. leg'.pc = "idle" /\ UNCHANGED <<status, pr, reviewed>> /\ labels' = labels \cup {"questions"}
    BY <1>3, SureEnds
  <2> QED BY <1>3, <2>1
<1>4. CASE Park
  <2>1. leg'.pc = "idle" /\ UNCHANGED <<status, pr, reviewed>> /\ labels' = labels \cup {"park"}
    BY <1>4, SureEnds
  <2> QED BY <1>4, <2>1
<1>5. CASE leg'.pc = "idle" /\ UNCHANGED story
  BY <1>5 DEF story
<1> QED BY <1>1, <1>2, <1>3, <1>4, <1>5

\* A leg that goes on with its story as it is.
LEMMA ReviewGoesOn ==
    ASSUME ReviewInv, Working, leg.pc # "final", UNCHANGED <<status, labels, pr>>,
           leg'.pc \notin {"idle", "setup", "final"},
           "approved" \notin labels
             \/ (leg'.approved = leg.approved /\ leg'.pc \in {"agent", "post"} /\ (leg'.pc = "agent" => leg'.back = "post"))
    PROVE  ReviewInv' /\ MergedReviewed
BY DEF ReviewInv, LegHasStory, NoPRAtWork, ParkedWaits, AskedWaits, ReworkUnapproved, Approvals,
       MergedReviewed, Working

\* A push that fails.
LEMMA ReviewPushFails ==
    ASSUME TypeOK, Alone, ReviewInv, NEW kind, NEW stage, NEW o, PushFails(kind, stage, o), leg.pc \in {"git", "fix git"}
    PROVE  ReviewInv' /\ MergedReviewed
<1>0. leg \in Leg /\ ~Lossy /\ Working /\ "approved" \notin labels
  BY DEF TypeOK, Alone, Lossy, Working, ReviewInv, Approvals
<1>1. CASE ResetForRetry(o)
  BY <1>0, <1>1, ReviewEnds
<1>2. CASE leg'.pc = "agent" /\ UNCHANGED story
  BY <1>0, <1>2, ReviewGoesOn DEF story
<1> QED BY <1>0, <1>1, <1>2, PushFailsFields

\* A missing response.
LEMMA ReviewMissing ==
    ASSUME TypeOK, Alone, ReviewInv, NEW back, RecoverMissingResponse(back), leg.pc \in {"no changes", "response"}
    PROVE  ReviewInv' /\ MergedReviewed
<1>0. leg \in Leg /\ ~Lossy /\ Working /\ "approved" \notin labels
  BY DEF TypeOK, Alone, Lossy, Working, ReviewInv, Approvals
<1>1. CASE Park \/ ResetForRetry("failed")
  BY <1>0, <1>1, ReviewEnds
<1>2. CASE End("failed") /\ UNCHANGED story
  BY <1>0, <1>2, ReviewEnds, EndFields
<1>3. CASE Resume("missing", back)
  BY <1>0, <1>3, ResumeFields, ReviewGoesOn DEF story
<1> QED BY <1>1, <1>2, <1>3 DEF RecoverMissingResponse

\* The post action strips the approval before it opens the PR.
LEMMA ReviewPostAction ==
    ASSUME TypeOK, Alone, ReviewInv, PostAction PROVE ReviewInv' /\ MergedReviewed
<1>0. leg \in Leg /\ ~Lossy
  BY DEF TypeOK, Alone, Lossy
<1>a. leg.pc \notin {"idle", "setup", "agent", "post"} => "approved" \notin labels
  BY DEF ReviewInv, Approvals
<1>1. CASE StartPostAction
  <2>1. pr # "open" /\ leg.pc = "post"
    BY <1>1 DEF StartPostAction, ReviewInv, NoPRAtWork
  <2>2. leg' = [leg EXCEPT !.pc = "git"] /\ UNCHANGED <<status, pr>>
        /\ labels' = IF leg.approved THEN labels \ {"approved"} ELSE labels
    BY <1>0, <1>1, <2>1 DEF StartPostAction, CleanStalePrApproved, Without
  <2>3. leg'.pc = "git"
    BY <1>0, <2>2, GotoFields
  <2> QED BY <2>1, <2>2, <2>3 DEF ReviewInv, LegHasStory, NoPRAtWork, ParkedWaits, AskedWaits,
                                  ReworkUnapproved, Approvals, MergedReviewed, Working
<1>2. CASE GitOperations
  <2>0. leg.pc = "git" /\ Working
    BY <1>2 DEF GitOperations, Working
  <2>1. CASE Push("dev", "gates")
    <3>1. leg'.pc = "gates"
      BY <1>0, <2>1, PushFields
    <3> QED BY <1>0, <1>a, <2>0, <2>1, <3>1, ReviewGoesOn DEF Push
  <2>2. CASE PushFails("dev", "push", "reset") \/ PushFails("dev", "git", "failed")
    BY <2>0, <2>2, ReviewPushFails
  <2>3. CASE leg' = [leg EXCEPT !.pc = IF remote # {} THEN "gates" ELSE "no changes"] /\ UNCHANGED story
    <3>1. leg'.pc \in {"gates", "no changes"}
      BY <1>0, <2>3, GotoFields
    <3> QED BY <1>0, <1>a, <2>0, <2>3, <3>1, ReviewGoesOn DEF story
  <2> QED BY <1>2, <2>1, <2>2, <2>3 DEF GitOperations
<1>3. CASE RecoverNoChanges
  <2>0. leg.pc = "no changes" /\ Working
    BY <1>3 DEF RecoverNoChanges, Working
  <2>1. CASE AskReporter \/ NoChangesNeeded
    BY <1>0, <2>0, <2>1, ReviewEnds
  <2>2. CASE Resume("landing", "post")
    BY <1>0, <1>a, <2>0, <2>2, ResumeFields, ReviewGoesOn DEF story
  <2>3. CASE RecoverMissingResponse("no changes")
    BY <2>0, <2>3, ReviewMissing
  <2> QED BY <1>3, <2>1, <2>2, <2>3 DEF RecoverNoChanges
<1>4. CASE RunGates
  <2>0. leg.pc = "gates" /\ Working
    BY <1>4 DEF RunGates, Working
  <2>1. CASE AskReporter \/ ResetForRetry("reset")
    BY <1>0, <2>0, <2>1, ReviewEnds
  <2>2. CASE leg' = [leg EXCEPT !.pc = "fix git"] /\ UNCHANGED story
    <3>1. leg'.pc = "fix git"
      BY <1>0, <2>2, GotoFields
    <3> QED BY <1>0, <1>a, <2>0, <2>2, <3>1, ReviewGoesOn DEF story
  <2>3. CASE Resume("gate", "gates")
    BY <1>0, <1>a, <2>0, <2>3, ResumeFields, ReviewGoesOn DEF story
  <2> QED BY <1>4, <2>1, <2>2, <2>3 DEF RunGates
<1>5. CASE GateFixGitOperations
  <2>0. leg.pc = "fix git" /\ Working
    BY <1>5 DEF GateFixGitOperations, Working
  <2>1. CASE Push("fix", "published")
    <3>1. leg'.pc = "published"
      BY <1>0, <2>1, PushFields
    <3> QED BY <1>0, <1>a, <2>0, <2>1, <3>1, ReviewGoesOn DEF Push
  <2>2. CASE PushFails("fix", "fix push", "reset") \/ PushFails("fix", "fix git", "failed")
    BY <2>0, <2>2, ReviewPushFails
  <2>3. CASE leg' = [leg EXCEPT !.pc = "published"] /\ UNCHANGED story
    <3>1. leg'.pc = "published"
      BY <1>0, <2>3, GotoFields
    <3> QED BY <1>0, <1>a, <2>0, <2>3, <3>1, ReviewGoesOn DEF story
  <2> QED BY <1>5, <2>1, <2>2, <2>3 DEF GateFixGitOperations
<1>6. CASE RunPostPublishGates
  <2>0. leg.pc = "published" /\ Working
    BY <1>6 DEF RunPostPublishGates, Working
  <2>1. CASE leg' = [leg EXCEPT !.pc = "response"] /\ UNCHANGED story
    <3>1. leg'.pc = "response"
      BY <1>0, <2>1, GotoFields
    <3> QED BY <1>0, <1>a, <2>0, <2>1, <3>1, ReviewGoesOn DEF story
  <2>2. CASE Resume("published gate", "post")
    BY <1>0, <1>a, <2>0, <2>2, ResumeFields, ReviewGoesOn DEF story
  <2>3. CASE ResetForRetry("reset")
    BY <1>0, <2>0, <2>3, ReviewEnds
  <2> QED BY <1>6, <2>1, <2>2, <2>3 DEF RunPostPublishGates, ResumeOrReset
<1>7. CASE EnsureResponse
  <2>0. leg.pc = "response" /\ Working
    BY <1>7 DEF EnsureResponse, Working
  <2>1. CASE leg' = [leg EXCEPT !.pc = "pr"] /\ UNCHANGED story
    <3>1. leg'.pc = "pr"
      BY <1>0, <2>1, GotoFields
    <3> QED BY <1>0, <1>a, <2>0, <2>1, <3>1, ReviewGoesOn DEF story
  <2>2. CASE RecoverMissingResponse("response")
    BY <2>0, <2>2, ReviewMissing
  <2> QED BY <1>7, <2>1, <2>2 DEF EnsureResponse
<1>8. CASE CreatePullRequest
  <2>0. leg.pc = "pr" /\ Working
    BY <1>8 DEF CreatePullRequest, Working
  <2>1. CASE pr' = "open" /\ leg' = [leg EXCEPT !.pc = "final"] /\ UNCHANGED <<status, labels, reviewed>>
    <3>1. leg'.pc = "final"
      BY <1>0, <2>1, GotoFields
    <3> QED BY <1>a, <2>0, <2>1, <3>1 DEF ReviewInv, LegHasStory, NoPRAtWork, ParkedWaits, AskedWaits,
                                          ReworkUnapproved, Approvals, MergedReviewed, Working
  <2>2. CASE Resume("pr", "post")
    BY <1>0, <1>a, <2>0, <2>2, ResumeFields, ReviewGoesOn DEF story
  <2>3. CASE ResetForRetry("failed")
    BY <1>0, <2>0, <2>3, ReviewEnds
  <2> QED BY <1>8, <2>1, <2>2, <2>3 DEF CreatePullRequest, ResumeOrReset
<1>9. CASE FinalizeSuccess
  <2>1. leg.pc = "final" /\ leg'.pc = "idle" /\ status' = "Review" /\ labels' \subseteq labels /\ UNCHANGED <<pr, reviewed>>
    BY <1>0, <1>9, EndFields DEF FinalizeSuccess, Moved, Without
  <2> QED BY <1>a, <2>1 DEF ReviewInv, LegHasStory, NoPRAtWork, ParkedWaits, AskedWaits,
                            ReworkUnapproved, Approvals, MergedReviewed, Working
<1> QED BY <1>1, <1>2, <1>3, <1>4, <1>5, <1>6, <1>7, <1>8, <1>9 DEF PostAction

\* Sessions keep what the dispatch read of the approval.
LEMMA ReviewSession ==
    ASSUME TypeOK, Alone, ReviewInv, Session \/ SessionEnds PROVE ReviewInv' /\ MergedReviewed
<1>0. leg \in Leg /\ ~Lossy
  BY DEF TypeOK, Alone, Lossy
<1>a. leg.pc = "agent" /\ Working
  BY DEF Session, SessionEnds, AgentWorks, AutoSave, HitWall, MainSessionEnds, ResumedSessionEnds, ResumeFails, Working
<1>b. "approved" \in labels => leg.approved /\ leg.back = "post"
  BY <1>a DEF ReviewInv, Approvals
<1>1. CASE Session
  <2>1. leg'.pc = leg.pc /\ leg'.back = leg.back /\ leg'.approved = leg.approved
    <3>1. CASE AgentWorks
      BY <1>0, <3>1 DEF AgentWorks, Leg
    <3>2. CASE AutoSave
      <4>1. \/ leg' = [leg EXCEPT !.tree = {}, !.local = Saved]
            \/ leg' = [leg EXCEPT !.tree = {}, !.local = Saved \cup remote, !.merged = TRUE]
        BY <3>2 DEF AutoSave
      <4> QED BY <1>0, <4>1 DEF Leg
    <3>3. CASE HitWall
      BY <3>3 DEF HitWall
    <3> QED BY <1>1, <3>1, <3>2, <3>3 DEF Session
  <2>2. UNCHANGED <<status, labels, pr>>
    BY <1>1 DEF Session, AgentWorks, AutoSave, HitWall, story
  <2> QED BY <1>a, <1>b, <2>1, <2>2, ReviewGoesOn
<1>2. CASE MainSessionEnds
  <2>1. leg'.pc = "post" /\ leg'.approved = leg.approved
    BY <1>0, <1>2 DEF MainSessionEnds, Leg
  <2> QED BY <1>a, <1>2, <2>1, ReviewGoesOn DEF MainSessionEnds, story
<1>3. CASE ResumedSessionEnds
  <2>1. leg'.pc = leg.back /\ leg'.approved = leg.approved /\ leg.back \in Backs
    BY <1>0, <1>3 DEF ResumedSessionEnds, Leg, Backs
  <2> QED BY <1>a, <1>b, <1>3, <2>1, ReviewGoesOn DEF ResumedSessionEnds, story, Backs
<1>4. CASE ResumeFails
  <2>1. CASE leg' = [leg EXCEPT !.pc = leg.back] /\ UNCHANGED story
    <3>1. leg'.pc = leg.back /\ leg'.approved = leg.approved /\ leg.back \in Backs
      BY <1>0, <2>1 DEF Leg, Backs
    <3> QED BY <1>a, <1>b, <2>1, <3>1, ReviewGoesOn DEF story, Backs
  <2>2. CASE NoChangesNeeded \/ ResetForRetry("reset") \/ ResetForRetry("failed")
    <3>1. ~AskReporter /\ ~Park
      <4>1. ASSUME AskReporter \/ Park PROVE FALSE
        <5>1. leg'.end \in {"asked", "parked"}
          BY <4>1, NoLegTyped DEF AskReporter, Park, End, Leg
        <5>2. leg'.end \in {"no changes", "reset", "failed"}
          BY <2>2, NoLegTyped DEF NoChangesNeeded, ResetForRetry, End, Leg
        <5> QED BY <5>1, <5>2
      <4> QED BY <4>1
    <3> QED BY <1>0, <1>a, <2>2, <3>1, ReviewEnds
  <2>3. CASE Resume("post", "post")
    <3>1. leg'.pc = "agent" /\ leg'.back = "post" /\ leg'.approved = leg.approved /\ UNCHANGED story
      BY <1>0, <2>3, ResumeFields DEF Kept
    <3> QED BY <1>a, <3>1, ReviewGoesOn DEF story
  <2> QED BY <1>4, <2>1, <2>2, <2>3 DEF ResumeFails, ResumeOrReset
<1> QED BY <1>1, <1>2, <1>3, <1>4 DEF SessionEnds

\* Every step of the system.
LEMMA ReviewStep ==
    ASSUME TypeOK, Alone, ReviewInv, [Next]_vars PROVE ReviewInv' /\ MergedReviewed
<1>0. leg \in Leg /\ ~Lossy
  BY DEF TypeOK, Alone, Lossy
<1>3. CASE Session \/ SessionEnds
  BY <1>3, ReviewSession
<1>4. CASE PostAction
  BY <1>4, ReviewPostAction
<1> USE DEF ReviewInv, LegHasStory, NoPRAtWork, ParkedWaits, AskedWaits, ReworkUnapproved, Approvals,
            MergedReviewed, Working
<1>1. CASE Dispatch
  <2>1. leg'.pc = "setup" /\ leg'.back = "post" /\ ("approved" \in labels => leg'.approved)
    <3>1. leg'.pc = "setup" /\ leg'.back = NoLeg.back /\ leg'.approved = ("approved" \in labels)
      BY <1>1, NoLegTyped DEF Dispatch, Leg
    <3> QED BY <3>1 DEF NoLeg
  <2> QED BY <1>1, <2>1 DEF Dispatch, story
<1>2. CASE Setup
  <2>0. leg.pc = "setup" /\ UNCHANGED <<labels, pr, reviewed>>
    BY <1>2 DEF Setup
  <2>1. CASE CheckoutBranch /\ status' \in Moved("Development")
    <3>1. leg'.pc = "agent" /\ leg'.approved = leg.approved /\ leg'.back = leg.back
      BY <1>0, <2>1 DEF CheckoutBranch, Leg
    <3>2. status' = "Development"
      BY <1>0, <2>1 DEF Moved
    <3> QED BY <2>0, <3>1, <3>2
  <2>2. CASE End("failed") /\ status' \in {status} \cup Moved("Development")
    <3>1. leg'.pc = "idle" /\ status' \in {"Ready", "Development"}
      BY <1>0, <2>0, <2>2, EndFields DEF Moved
    <3> QED BY <2>0, <3>1
  <2> QED BY <1>2, <2>1, <2>2 DEF Setup
<1>5. CASE Kill
  BY <1>5, EndFields DEF Kill, story
<1>6. CASE Jobs
  <2>1. CASE QuotaParkTick
    <3>1. UNCHANGED <<pr, reviewed, leg>> /\ labels' \subseteq labels /\ status' \in {status, "Ready"}
      BY <1>0, <2>1 DEF QuotaParkTick, Moved, Without
    <3> QED BY <2>1, <3>1 DEF QuotaParkTick
  <2>2. CASE RecoverStuckDevelopment
    BY <2>2 DEF RecoverStuckDevelopment, Alone
  <2>3. CASE RetryMerge
    <3>1. labels' = labels \ {"approved"} /\ UNCHANGED <<leg, reviewed>>
      BY <1>0, <2>3 DEF RetryMerge, Without
    <3>2. (pr' = "merged" /\ status' = "Merged") \/ (pr' = pr /\ status' = "Rework")
      BY <1>0, <2>3 DEF RetryMerge, Moved, Lossy
    <3>3. status = "Review" /\ "approved" \in labels
      BY <2>3 DEF RetryMerge
    <3> QED BY <3>1, <3>2, <3>3
  <2>4. CASE RecoverMergedPR
    <3>1. pr = "merged" /\ pr' = pr /\ labels' \subseteq labels /\ UNCHANGED <<leg, reviewed>> /\ status' = "Merged"
      BY <1>0, <2>4 DEF RecoverMergedPR, Without, Moved
    <3>2. status \in {"Review", "Rework"}
      BY <2>4 DEF RecoverMergedPR, MergedStatuses
    <3> QED BY <3>1, <3>2
  <2> QED BY <1>6, <2>1, <2>2, <2>3, <2>4 DEF Jobs
<1>7. CASE Surroundings
  <2>1. CASE QuotaResets
    BY <2>1 DEF QuotaResets, story
  <2>2. CASE Review
    BY <2>2 DEF Review
  <2>3. CASE Rework
    BY <2>3 DEF Rework
  <2>4. CASE Answer
    BY <2>4 DEF Answer
  <2>5. CASE Restart
    BY <2>5 DEF Restart, Alone
  <2>6. CASE Unpark
    BY <2>6 DEF Unpark
  <2>7. CASE PersonPushes
    BY <2>7 DEF PersonPushes, Alone
  <2> QED BY <1>7, <2>1, <2>2, <2>3, <2>4, <2>5, <2>6, <2>7 DEF Surroundings
<1>8. CASE UNCHANGED vars
  BY <1>8 DEF vars
<1> QED BY <1>1, <1>2, <1>3, <1>4, <1>5, <1>6, <1>7, <1>8 DEF Next

\* The merge job never merges what the last approval has not seen.
THEOREM MergesAreReviewed == Spec => ReviewedMerge
<1> DEFINE Inv == Alone => ReviewInv
<1>1. Init => Inv
  BY DEF Init, NoLeg, ReviewInv, LegHasStory, NoPRAtWork, ParkedWaits, AskedWaits, ReworkUnapproved,
         Approvals, Working
<1>2. TypeOK /\ Inv /\ [Next]_vars => Inv'
  BY ReviewStep, SameEnvironment DEF Alone
<1>3. TypeOK /\ Inv /\ [Next]_vars
        => [env \cap {"restarts", "recovery", "lost calls", "pushes"} = {}
              /\ pr = "open" /\ pr' = "merged" => reviewed]_vars
  BY ReviewStep DEF Alone, MergedReviewed
<1> HIDE DEF Inv
<1> QED BY <1>1, <1>2, <1>3, TypeCorrect, PTL DEF Spec, ReviewedMerge

-----------------------------------------------------------------------------
(* Nothing is left on the runner: past the last push the tree is clean and *)
(* the branch is on the remote, and a leg that got to "no changes" had     *)
(* neither.  Resumes for a missing response, and by the landing guard,     *)
(* count in used, and come back behind the push or give in.                *)

Unresumed == leg.used["missing"] = 0 /\ leg.used["landing"] = 0

Published == leg.tree = {} /\ Works(leg.local) \subseteq Works(remote)

PublishInv == Unresumed =>
    /\ leg.pc \in {"no changes", "published", "response", "pr", "final"} => Published
    /\ leg.pc = "no changes" /\ "pushes" \notin env => remote = {}
    /\ leg.pc = "agent" => leg.back \in {"post", "gates"} /\ leg.stage \notin {"missing", "landing"}
    /\ leg.pc = "setup" => leg.back = "post" /\ leg.stage = "main"

NothingLeft ==
    Ended({"pr", "no changes"}) /\ leg.used["missing"] = 0 /\ leg.used["landing"] = 0
      => /\ leg.tree \cup Works(leg.local) \subseteq Works(remote)
         /\ leg'.end = "no changes" /\ "pushes" \notin env => remote = {}

\* No commits, no work.
LEMMA NoWorks == Works({}) = {}
BY DEF Works

\* A leg that ends with another outcome, or goes on, is outside the promise.
LEMMA EndOutcome == ASSUME NEW o, End(o) PROVE leg'.pc = "idle" /\ leg'.end = o
<1>1. leg' = [NoLeg EXCEPT !.end = o] /\ NoLeg \in Leg
  BY NoLegTyped DEF End
<1>2. leg'.end = o
  BY <1>1 DEF Leg
<1> QED BY <1>2, EndFields

\* A step that does not end a leg well promises nothing.
LEMMA EndsElse ==
    ASSUME leg'.pc # "idle" \/ leg'.end \notin {"pr", "no changes"} PROVE NothingLeft
BY DEF NothingLeft, Ended

\* Nothing is asked of a leg that ended.
LEMMA EndedInv == ASSUME leg'.pc = "idle" PROVE PublishInv'
BY DEF PublishInv

\* An end with another outcome.
LEMMA OtherEnd ==
    ASSUME NEW o, End(o), o \notin {"pr", "no changes"} PROVE PublishInv' /\ NothingLeft
BY EndOutcome, EndedInv, EndsElse

\* A resume counts; one behind the push and one of the landing guard leave their mark.
LEMMA ResumeMarked ==
    ASSUME leg \in Leg, NEW stage \in Stages, NEW back, Resume(stage, back),
           stage \in {"missing", "landing"} \/ back \in {"post", "gates"}
    PROVE  PublishInv' /\ NothingLeft
<1> DEFINE u == [leg.used EXCEPT ![stage] = leg.used[stage] + 1]
<1>1. leg' = [leg EXCEPT !.pc = "agent", !.stage = stage, !.back = back, !.used = u]
  BY DEF Resume, Leg
<1>2. leg'.used = u /\ leg'.pc = "agent" /\ leg'.stage = stage /\ leg'.back = back
  <2> HIDE DEF u
  <2> QED BY <1>1 DEF Leg
<1>3. leg.used \in [Stages -> Tries]
  BY DEF Leg, Tries
<1>4. leg.used[stage] \in Nat
  <2>1. Tries \subseteq Nat
    BY Bounds DEF Tries
  <2> QED BY <1>3, <2>1
<1>5. u[stage] # 0
  BY <1>3, <1>4
<1>6. stage \in {"missing", "landing"} => ~Unresumed'
  BY <1>2, <1>5 DEF Unresumed
<1> QED BY <1>2, <1>6, EndsElse DEF PublishInv

\* What is done about a missing response: it ends the leg badly or is counted.
LEMMA MissingPublishes ==
    ASSUME leg \in Leg, NEW back, RecoverMissingResponse(back) PROVE PublishInv' /\ NothingLeft
<1>1. CASE Park
  BY <1>1, OtherEnd DEF Park
<1>2. CASE End("failed")
  BY <1>2, OtherEnd
<1>3. CASE Resume("missing", back)
  BY <1>3, ResumeMarked DEF Stages
<1>4. CASE ResetForRetry("failed")
  BY <1>4, OtherEnd DEF ResetForRetry
<1> QED BY <1>1, <1>2, <1>3, <1>4 DEF RecoverMissingResponse

\* A handler that goes on to the next step.
LEMMA GoesOnPublished ==
    ASSUME leg \in Leg, NEW p, leg' = [leg EXCEPT !.pc = p], p \notin {"idle", "setup", "agent", "no changes"},
           p \in {"published", "response", "pr", "final"} => (Unresumed => Published) /\ remote' = remote
    PROVE  PublishInv' /\ NothingLeft
<1>1. leg'.pc = p /\ leg'.used = leg.used /\ leg'.tree = leg.tree /\ leg'.local = leg.local
  BY DEF Leg
<1> QED BY <1>1, EndsElse DEF PublishInv, Unresumed, Published

\* A push leaves a clean tree and the branch on the remote.
LEMMA PushPublishes ==
    ASSUME leg \in Leg, NEW kind, NEW next, Push(kind, next), next \in {"gates", "published"}
    PROVE  PublishInv' /\ NothingLeft
<1>1. leg' = [leg EXCEPT !.pc = next, !.tree = {}, !.local = Committed(kind)] /\ remote' = Committed(kind)
  BY DEF Push
<1>2. leg'.pc = next /\ leg'.tree = {} /\ leg'.local = remote'
  BY <1>1 DEF Leg
<1> QED BY <1>2, EndsElse DEF PublishInv, Published

\* A push that fails ends the leg badly or goes back to the agent.
LEMMA PushFailsPublishes ==
    ASSUME leg \in Leg, NEW kind, NEW stage \in {"push", "fix push", "git", "fix git"},
           NEW o \in {"reset", "failed"}, PushFails(kind, stage, o)
    PROVE  PublishInv' /\ NothingLeft
<1>1. CASE ResetForRetry(o)
  BY <1>1, OtherEnd DEF ResetForRetry
<1>2. CASE leg'.pc = "agent" /\ leg'.stage = stage /\ leg'.back = "post"
  BY <1>2, EndsElse DEF PublishInv
<1> QED BY <1>1, <1>2, PushFailsFields

\* The post action, step by step.
LEMMA PostActionPublishes ==
    ASSUME TypeOK, PublishInv, PostAction PROVE PublishInv' /\ NothingLeft
<1>0. leg \in Leg
  BY DEF TypeOK
<1>a. NothingToPush => Published
  BY NoWorks DEF NothingToPush, Published
<1>b. leg.pc \in {"no changes", "published", "response", "pr", "final"} => (Unresumed => Published)
  BY DEF PublishInv
<1>1. CASE StartPostAction
  <2>1. CASE End("reused")
    BY <2>1, OtherEnd
  <2>2. CASE leg' = [leg EXCEPT !.pc = "git"]
    BY <1>0, <2>2, GoesOnPublished
  <2> QED BY <1>1, <2>1, <2>2 DEF StartPostAction
<1>2. CASE GitOperations
  <2>1. CASE Push("dev", "gates")
    BY <1>0, <2>1, PushPublishes
  <2>2. CASE PushFails("dev", "push", "reset") \/ PushFails("dev", "git", "failed")
    BY <1>0, <2>2, PushFailsPublishes
  <2>3. CASE NothingToPush /\ leg' = [leg EXCEPT !.pc = IF remote # {} THEN "gates" ELSE "no changes"]
             /\ remote' = remote
    <3>1. CASE remote # {}
      BY <1>0, <2>3, <3>1, GoesOnPublished
    <3>2. CASE remote = {}
      <4>1. leg'.pc = "no changes" /\ leg'.tree = leg.tree /\ leg'.local = leg.local
        BY <1>0, <2>3, <3>2 DEF Leg
      <4> QED BY <1>a, <2>3, <3>2, <4>1, EndsElse DEF PublishInv, Published
    <3> QED BY <3>1, <3>2
  <2> QED BY <1>2, <2>1, <2>2, <2>3 DEF GitOperations
<1>3. CASE RecoverNoChanges
  <2>0. leg.pc = "no changes"
    BY <1>3 DEF RecoverNoChanges
  <2>1. CASE AskReporter
    BY <2>1, OtherEnd DEF AskReporter
  <2>2. CASE NoChangesNeeded
    <3>1. leg'.pc = "idle"
      BY <2>2, EndFields DEF NoChangesNeeded
    <3>2. NothingLeft
      BY <1>b, <2>0 DEF NothingLeft, PublishInv, Unresumed, Published
    <3> QED BY <3>1, <3>2, EndedInv
  <2>3. CASE Resume("landing", "post")
    BY <1>0, <2>3, ResumeMarked DEF Stages
  <2>4. CASE RecoverMissingResponse("no changes")
    BY <1>0, <2>4, MissingPublishes
  <2> QED BY <1>3, <2>1, <2>2, <2>3, <2>4 DEF RecoverNoChanges
<1>4. CASE RunGates
  <2>1. CASE AskReporter
    BY <2>1, OtherEnd DEF AskReporter
  <2>2. CASE leg' = [leg EXCEPT !.pc = "fix git"]
    BY <1>0, <2>2, GoesOnPublished
  <2>3. CASE Resume("gate", "gates")
    BY <1>0, <2>3, ResumeMarked DEF Stages
  <2>4. CASE ResetForRetry("reset")
    BY <2>4, OtherEnd DEF ResetForRetry
  <2> QED BY <1>4, <2>1, <2>2, <2>3, <2>4 DEF RunGates
<1>5. CASE GateFixGitOperations
  <2>1. CASE Push("fix", "published")
    BY <1>0, <2>1, PushPublishes
  <2>2. CASE PushFails("fix", "fix push", "reset") \/ PushFails("fix", "fix git", "failed")
    BY <1>0, <2>2, PushFailsPublishes
  <2>3. CASE NothingToPush /\ leg' = [leg EXCEPT !.pc = "published"] /\ remote' = remote
    BY <1>0, <1>a, <2>3, GoesOnPublished
  <2> QED BY <1>5, <2>1, <2>2, <2>3 DEF GateFixGitOperations
<1>6. CASE RunPostPublishGates
  <2>0. leg.pc = "published" /\ remote' = remote
    BY <1>6 DEF RunPostPublishGates
  <2>1. CASE leg' = [leg EXCEPT !.pc = "response"]
    BY <1>0, <1>b, <2>0, <2>1, GoesOnPublished
  <2>2. CASE Resume("published gate", "post")
    BY <1>0, <2>2, ResumeMarked DEF Stages
  <2>3. CASE ResetForRetry("reset")
    BY <2>3, OtherEnd DEF ResetForRetry
  <2> QED BY <1>6, <2>1, <2>2, <2>3 DEF RunPostPublishGates, ResumeOrReset
<1>7. CASE EnsureResponse
  <2>0. leg.pc = "response" /\ remote' = remote
    BY <1>7 DEF EnsureResponse
  <2>1. CASE leg' = [leg EXCEPT !.pc = "pr"]
    BY <1>0, <1>b, <2>0, <2>1, GoesOnPublished
  <2>2. CASE RecoverMissingResponse("response")
    BY <1>0, <2>2, MissingPublishes
  <2> QED BY <1>7, <2>1, <2>2 DEF EnsureResponse
<1>8. CASE CreatePullRequest
  <2>0. leg.pc = "pr" /\ remote' = remote
    BY <1>8 DEF CreatePullRequest
  <2>1. CASE leg' = [leg EXCEPT !.pc = "final"]
    BY <1>0, <1>b, <2>0, <2>1, GoesOnPublished
  <2>2. CASE Resume("pr", "post")
    BY <1>0, <2>2, ResumeMarked DEF Stages
  <2>3. CASE ResetForRetry("failed")
    BY <2>3, OtherEnd DEF ResetForRetry
  <2> QED BY <1>8, <2>1, <2>2, <2>3 DEF CreatePullRequest, ResumeOrReset
<1>9. CASE FinalizeSuccess
  <2>1. leg.pc = "final" /\ leg'.pc = "idle" /\ leg'.end = "pr"
    BY <1>9, EndOutcome DEF FinalizeSuccess
  <2>2. NothingLeft
    BY <1>b, <2>1 DEF NothingLeft, Unresumed, Published
  <2> QED BY <2>1, <2>2, EndedInv
<1> QED BY <1>1, <1>2, <1>3, <1>4, <1>5, <1>6, <1>7, <1>8, <1>9 DEF PostAction

\* Sessions come back before the push.
LEMMA SessionPublishes ==
    ASSUME TypeOK, PublishInv, Session \/ SessionEnds PROVE PublishInv' /\ NothingLeft
<1>0. leg \in Leg
  BY DEF TypeOK
<1>a. leg.pc = "agent"
  BY DEF Session, SessionEnds, AgentWorks, AutoSave, HitWall, MainSessionEnds, ResumedSessionEnds, ResumeFails
<1>1. CASE Session
  <2>1. leg'.pc = leg.pc /\ leg'.back = leg.back /\ leg'.stage = leg.stage /\ leg'.used = leg.used
    <3>1. CASE AgentWorks
      BY <1>0, <3>1 DEF AgentWorks, Leg
    <3>2. CASE AutoSave
      <4>1. \/ leg' = [leg EXCEPT !.tree = {}, !.local = Saved]
            \/ leg' = [leg EXCEPT !.tree = {}, !.local = Saved \cup remote, !.merged = TRUE]
        BY <3>2 DEF AutoSave
      <4> QED BY <1>0, <4>1 DEF Leg
    <3>3. CASE HitWall
      BY <3>3 DEF HitWall
    <3> QED BY <1>1, <3>1, <3>2, <3>3 DEF Session
  <2> QED BY <1>a, <2>1, EndsElse DEF PublishInv, Unresumed
<1>2. CASE MainSessionEnds
  <2>1. leg'.pc = "post"
    BY <1>0, <1>2 DEF MainSessionEnds, Leg
  <2> QED BY <2>1, EndsElse DEF PublishInv
<1>b. ASSUME leg'.pc = leg.back, leg'.used = leg.used PROVE PublishInv' /\ NothingLeft
  <2>1. leg.back \in Backs
    BY <1>0 DEF Leg, Backs
  <2> QED BY <1>a, <1>b, <2>1, EndsElse DEF PublishInv, Unresumed, Backs
<1>3. CASE ResumedSessionEnds
  <2>1. leg'.pc = leg.back /\ leg'.used = leg.used
    BY <1>0, <1>3 DEF ResumedSessionEnds, Leg
  <2> QED BY <2>1, <1>b
<1>4. CASE ResumeFails
  <2>1. CASE leg' = [leg EXCEPT !.pc = leg.back]
    <3>1. leg'.pc = leg.back /\ leg'.used = leg.used
      BY <1>0, <2>1 DEF Leg
    <3> QED BY <3>1, <1>b
  <2>2. CASE leg.stage = "landing" /\ NoChangesNeeded
    <3>1. ~Unresumed
      BY <1>a, <2>2 DEF PublishInv
    <3>2. leg'.pc = "idle"
      BY <2>2, EndFields DEF NoChangesNeeded
    <3> QED BY <3>1, <3>2, EndedInv DEF NothingLeft, Unresumed
  <2>3. CASE Resume("post", "post")
    BY <1>0, <2>3, ResumeMarked DEF Stages
  <2>4. CASE ResetForRetry("reset") \/ ResetForRetry("failed")
    BY <2>4, OtherEnd DEF ResetForRetry
  <2> QED BY <1>4, <2>1, <2>2, <2>3, <2>4 DEF ResumeFails, ResumeOrReset
<1> QED BY <1>1, <1>2, <1>3, <1>4 DEF SessionEnds

\* Every step of the system.
LEMMA PublishStep ==
    ASSUME TypeOK, PublishInv, [Next]_vars PROVE PublishInv' /\ NothingLeft
<1>0. leg \in Leg
  BY DEF TypeOK
<1>1. CASE Dispatch
  <2>1. leg'.pc = "setup" /\ leg'.back = NoLeg.back /\ leg'.stage = NoLeg.stage
    BY <1>1, NoLegTyped DEF Dispatch, Leg
  <2> QED BY <2>1, EndsElse DEF PublishInv, NoLeg
<1>2. CASE Setup
  <2>1. CASE CheckoutBranch
    <3>1. leg'.pc = "agent" /\ leg'.back = leg.back /\ leg'.stage = leg.stage /\ leg'.used = leg.used
      BY <1>0, <2>1 DEF CheckoutBranch, Leg
    <3>2. leg.pc = "setup"
      BY <1>2 DEF Setup
    <3> QED BY <3>1, <3>2, EndsElse DEF PublishInv, Unresumed
  <2>2. CASE End("failed")
    BY <2>2, OtherEnd
  <2> QED BY <1>2, <2>1, <2>2 DEF Setup
<1>3. CASE Session \/ SessionEnds
  BY <1>3, SessionPublishes
<1>4. CASE PostAction
  BY <1>4, PostActionPublishes
<1>5. CASE Kill
  BY <1>5, OtherEnd DEF Kill
<1>a. ASSUME leg' = leg, env' = env, remote' = remote PROVE PublishInv' /\ NothingLeft
  BY <1>a DEF PublishInv, Unresumed, Published, NothingLeft, Ended
<1>6. CASE Jobs
  BY <1>6, <1>a DEF Jobs, QuotaParkTick, RecoverStuckDevelopment, RetryMerge, RecoverMergedPR
<1>7. CASE Surroundings
  <2>1. CASE PersonPushes
    <3>1. leg' = leg /\ env' = env /\ "pushes" \in env /\ remote \subseteq remote'
      BY <2>1 DEF PersonPushes
    <3>2. Works(remote) \subseteq Works(remote')
      BY <3>1, WorksMonotone
    <3> QED BY <3>1, <3>2 DEF PublishInv, Unresumed, Published, NothingLeft, Ended
  <2> QED BY <1>7, <1>a, <2>1 DEF Surroundings, QuotaResets, Review, Rework, Answer, Restart, Unpark
<1>8. CASE UNCHANGED vars
  BY <1>8, <1>a DEF vars
<1> QED BY <1>1, <1>2, <1>3, <1>4, <1>5, <1>6, <1>7, <1>8 DEF Next

\* A leg that ends with a PR or with "no changes needed" leaves nothing on the runner,
\* and "no changes" is never said of a branch that has some.
THEOREM WorkIsPublished == Spec => WorkPublished
<1>1. Init => PublishInv
  BY DEF Init, NoLeg, PublishInv
<1>2. TypeOK /\ PublishInv /\ [Next]_vars => PublishInv'
  BY PublishStep
<1>3. TypeOK /\ PublishInv /\ [Next]_vars
        => [Ended({"pr", "no changes"}) /\ leg.used["missing"] = 0 /\ leg.used["landing"] = 0
              => /\ leg.tree \cup Works(leg.local) \subseteq Works(remote)
                 /\ leg'.end = "no changes" /\ "pushes" \notin env => remote = {}]_vars
  BY PublishStep DEF NothingLeft
<1> QED BY <1>1, <1>2, <1>3, TypeCorrect, PTL DEF Spec, WorkPublished
=============================================================================
