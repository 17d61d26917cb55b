---------------------------- MODULE MCSmDispatch ----------------------------
(* Small instances of SmDispatch: rule lists cut from sm.json and           *)
(* sm_github.json, two tracker items, three or four run slots.              *)
EXTENDS SmDispatch, TLC

\* One ticket key per (rule, ticket), as '<config> : <ticket>' run names give.
CONSTANTS t1, t2, k1, k2, k3, k4, b1, lockA, lockB, rework, quota

TwoTickets == {t1, t2}
\* Runs are interchangeable: a slot is picked when a run is dispatched.
RunSymmetry == Permutations(RunIds)

AllKeys == {k1, k2, k3, k4}
AllLabels == {lockA, lockB, rework, quota}

Base ==
    [kind |-> "dispatch", items |-> TwoTickets, stages |-> {"todo"}, needs |-> {},
     unless |-> [t \in TwoTickets |-> {}],
     skip |-> <<lockA>>, recover |-> "default", add |-> {lockA}, consume |-> {},
     release |-> {lockA}, target |-> NoStage, outcomes |-> {"review"}, limit |-> 2,
     layer |-> -1, probe |-> FALSE, merges |-> FALSE,
     key |-> (t1 :> k1 @@ t2 :> k2),
     cross |-> [t \in TwoTickets |-> NoKey],
     branch |-> [t \in TwoTickets |-> NoBranch]]

\* A development rule with a lock per ticket.
DevRules == <<Base>>

\* A layered tick: a merge-window action in L2, then two agent rules in L4. The
\* first has one concurrency key for every ticket and limit 1 (bug_development).
LayeredRules ==
    LET agent == [Base EXCEPT !.skip = <<>>, !.add = {}, !.release = {}, !.outcomes = {},
                              !.layer = 4]
    IN << [agent EXCEPT !.kind = "action", !.items = {t1}, !.stages = {"todo", "review"},
                        !.outcomes = {"todo", "review"}, !.layer = 2, !.merges = TRUE],
          [agent EXCEPT !.limit = 1, !.key = [t \in TwoTickets |-> k1]],
          [agent EXCEPT !.stages = {"review"}, !.key = (t1 :> k3 @@ t2 :> k4)] >>

\* t1 is the issue and t2 its PR: rework-on-red-ci, rework-on-label; and an
\* in-process done check that may send the issue back.
PairRules ==
    LET leg == [Base EXCEPT !.needs = {rework}, !.skip = <<>>, !.add = {},
                            !.release = {rework}, !.limit = 1, !.layer = 4,
                            !.cross = (t1 :> k2 @@ t2 :> k1),
                            !.branch = [t \in TwoTickets |-> b1]]
    IN << [leg EXCEPT !.items = {t1}, !.unless = [t \in TwoTickets |-> {<<t2, rework>>}]],
          [leg EXCEPT !.items = {t2}, !.consume = {rework}, !.release = {}],
          [Base EXCEPT !.kind = "local", !.items = {t1}, !.stages = {"review"}, !.skip = <<lockB>>,
                       !.add = {}, !.release = {lockB}, !.outcomes = {"todo"}] >>

\* test_cases_generator hands the story on to story_test_automation, which
\* skips on its own lock and on the generator's.
TwoSkipRules ==
    << [Base EXCEPT !.stages = {"review"}, !.skip = <<lockB>>, !.add = {lockB},
                    !.release = {lockB}, !.target = "todo", !.outcomes = {}],
       [Base EXCEPT !.skip = <<lockA, lockB>>, !.key = (t1 :> k3 @@ t2 :> k4)] >>
=============================================================================
