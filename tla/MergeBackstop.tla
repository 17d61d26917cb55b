--------------------------- MODULE MergeBackstop ---------------------------
(***************************************************************************)
(* One approved pull request and the funnels that may merge it: the merge  *)
(* bot, and the sweep over approved issues.  Before it merges, a funnel    *)
(* closes every open review thread of the machine, and what it closes      *)
(* without a fix it first puts on record: in a digest issue, and in a      *)
(* ledger stamped on the pull request.  The funnels run in workflows of    *)
(* their own and do not exclude each other, every call may fail, and the   *)
(* job may be cancelled between any two of them.                           *)
(*                                                                         *)
(* A digest issue is the set of findings its body lists; nothing updates   *)
(* the body later.  Threads of people are left out: a funnel never closes  *)
(* them and does not wait for them.                                        *)
(***************************************************************************)
EXTENDS Sequences, FiniteSetsExt

CONSTANTS
    Funnels,       \* runs that may be merging at the same time
    Threads,       \* review threads the machine may open: a bound
    MaxDigests,    \* digest issues ever filed: a bound
    Environments   \* the environments to consider: which switches are on

ASSUME FunnelsAssumption == IsFiniteSet(Funnels) /\ "tick" \notin Funnels /\ "nobody" \notin Funnels
ASSUME MaxDigestsAssumption == MaxDigests \in Nat

Switches ==
    {"late-reviews",   \* threads may be opened while a funnel is at work
     "lost-calls",     \* closing a thread may fail
     "lost-acks",      \* the answer to closing a thread, or the reply to it, may be lost
     "lost-stamps",    \* posting the ledger stamp may fail
     "outages",        \* reading, searching, filing or merging may throw
     "lost-answers",   \* a digest may be filed and the answer not arrive
     "search-lag",     \* the issue search may miss issues
     "kills",          \* a funnel's job may be cancelled
     "withdrawals",    \* the pull request may stop being mergeable, and be so again
     "tick-merges"}    \* the SM tick may merge it

ASSUME EnvironmentsAssumption == Environments \subseteq SUBSET Switches

VARIABLES
    env,       \* the switches that are on
    ready,     \* open, approved, CLEAN: what a funnel asks of the pull request
    merged,    \* who merged it
    thread,    \* the review threads
    digests,   \* the digest issues filed for the pull request, oldest first
    ledger,    \* the findings of the newest ledger stamp on it
    at         \* where each funnel is

issues == <<digests, ledger>>
vars == <<env, ready, merged, thread, digests, ledger, at>>

Digest == 1 .. MaxDigests
Thread == [kind : {"none", "gated", "nit"}, open : BOOLEAN, tags : SUBSET Digest]
Funnel == [pc : {"idle", "threads", "comments", "probe", "create", "reprobe", "stamp",
                 "resolve", "reply", "merge"},
           counted : SUBSET Threads, nits : SUBSET Threads, findings : SUBSET Threads,
           digest : {0} \cup Digest, todo : SUBSET Threads, on : SUBSET Threads,
           failed : BOOLEAN]

Away == [pc |-> "idle", counted |-> {}, nits |-> {}, findings |-> {}, digest |-> 0,
         todo |-> {}, on |-> {}, failed |-> FALSE]

Open(kind) == {t \in Threads : thread[t].kind = kind /\ thread[t].open}
OpenThreads == Open("gated") \cup Open("nit")
Working == {f \in Funnels : at[f].pc # "idle"}

Init ==
    /\ env \in Environments
    /\ ready = TRUE /\ merged = "nobody"
    /\ thread = [t \in Threads |-> [kind |-> "none", open |-> FALSE, tags |-> {}]]
    /\ digests = <<>> /\ ledger = {}
    /\ at = [f \in Funnels |-> Away]

(***************************************************************************)
(* The steps of a funnel.  One that throws defers the merge: the funnel    *)
(* goes on with other pull requests and comes back from the start.         *)
(***************************************************************************)
Goes(f, step) == at' = [at EXCEPT ![f] = step]
Defers(f) == Goes(f, Away)

\* The live read of the pull request, right before the backstop.
Visit(f) ==
    /\ at[f].pc = "idle" /\ ready /\ merged = "nobody"
    /\ Goes(f, [Away EXCEPT !.pc = "threads"])
    /\ UNCHANGED <<env, ready, merged, thread, issues>>

Unresolved_All(kind) == {t \in Threads : thread[t].kind = kind}
Unresolved(kind) == Open(kind)

ListThreads(f) ==
    /\ at[f].pc = "threads"
    /\ LET counted == Unresolved("gated")
           nits == Unresolved("nit")
       IN  Goes(f, [at[f] EXCEPT !.pc = IF counted = {} THEN "resolve" ELSE "comments",
                                 !.counted = counted, !.nits = nits,
                                 !.todo = counted \cup nits])
    /\ UNCHANGED <<env, ready, merged, thread, issues>>

\* The ledger of the newest stamp; the counted findings are appended to it.
LedgerBase == ledger

ReadComments(f) ==
    /\ at[f].pc = "comments"
    /\ Goes(f, [at[f] EXCEPT !.pc = "probe", !.findings = LedgerBase \cup at[f].counted])
    /\ UNCHANGED <<env, ready, merged, thread, issues>>

\* The answers the issue search may give.
Found == IF "search-lag" \in env THEN SUBSET (1 .. Len(digests)) ELSE {1 .. Len(digests)}

FindExistingDigest_ByTitle(found, own) == 0

\* The lowest number among them, but for the one just filed; 0 if there is none.
FindExistingDigest(found, own) ==
    IF found \ {own} = {} THEN 0 ELSE Min(found \ {own})

Probe(f) ==
    /\ at[f].pc = "probe"
    /\ \E found \in Found :
          LET existing == FindExistingDigest(found, 0)
          IN  Goes(f, [at[f] EXCEPT !.pc = IF existing = 0 THEN "create" ELSE "stamp",
                                    !.digest = existing])
    /\ UNCHANGED <<env, ready, merged, thread, issues>>

Create_NumberUnchecked(f) ==
    /\ at[f].pc = "create" /\ Len(digests) < MaxDigests
    /\ digests' \in {digests, Append(digests, at[f].findings)}
    /\ Goes(f, [at[f] EXCEPT !.pc = "reprobe", !.digest = Len(digests) + 1])
    /\ UNCHANGED <<env, ready, merged, thread, ledger>>

Create(f) ==
    /\ at[f].pc = "create" /\ Len(digests) < MaxDigests
    /\ digests' = Append(digests, at[f].findings)
    /\ \/ Goes(f, [at[f] EXCEPT !.pc = "reprobe", !.digest = Len(digests) + 1])
       \/ "lost-answers" \in env /\ Defers(f)
    /\ UNCHANGED <<env, ready, merged, thread, ledger>>

\* Another funnel's digest, filed since the probe, wins over one's own.
ProbeAgain(f) ==
    /\ at[f].pc = "reprobe"
    /\ \E found \in Found :
          LET raced == FindExistingDigest(found, at[f].digest)
          IN  Goes(f, [at[f] EXCEPT !.pc = "stamp", !.digest = IF raced = 0 THEN @ ELSE raced])
    /\ UNCHANGED <<env, ready, merged, thread, issues>>

StampLedger_OnFilingOnly(f) ==
    /\ at[f].pc = "stamp"
    /\ ledger' = IF at[f].counted \subseteq digests[at[f].digest] THEN at[f].findings ELSE ledger
    /\ Goes(f, [at[f] EXCEPT !.pc = "resolve"])
    /\ UNCHANGED <<env, ready, merged, thread, digests>>

StampLedger(f) ==
    /\ at[f].pc = "stamp"
    /\ ledger' \in {at[f].findings} \cup IF "lost-stamps" \in env THEN {ledger} ELSE {}
    /\ Goes(f, [at[f] EXCEPT !.pc = "resolve"])
    /\ UNCHANGED <<env, ready, merged, thread, digests>>

\* The next thread of the loop: the counted ones come first.
Attempted(f, t) ==
    /\ at[f].pc = "resolve" /\ t \in at[f].todo
    /\ t \in at[f].counted \/ at[f].todo \cap at[f].counted = {}

Closes(t) == thread' = [thread EXCEPT ![t].open = FALSE]

\* Resolve first, reply only on success; another funnel may look in between.
ResolveThread(f, t) ==
    /\ Attempted(f, t) /\ Closes(t)
    /\ Goes(f, [at[f] EXCEPT !.pc = "reply", !.todo = @ \ {t}, !.on = {t}])
    /\ UNCHANGED <<env, ready, merged, issues>>

Failed_Forgotten(step) == step
Failed(step) == [step EXCEPT !.failed = TRUE]

\* The call throws, before GitHub closed the thread or after.
ResolveFails(f, t) ==
    /\ Attempted(f, t)
    /\ \/ "lost-calls" \in env /\ UNCHANGED thread
       \/ "lost-acks" \in env /\ Closes(t)
    /\ Goes(f, Failed([at[f] EXCEPT !.todo = @ \ {t}]))
    /\ UNCHANGED <<env, ready, merged, issues>>

Replied(f) == [at[f] EXCEPT !.pc = "resolve", !.on = {}]

\* The reply to a counted thread is the tag that names the digest.
Reply(f) ==
    /\ at[f].pc = "reply" /\ Goes(f, Replied(f))
    /\ thread' = [t \in Threads |->
                     IF t \in at[f].on \cap at[f].counted
                     THEN [thread[t] EXCEPT !.tags = @ \cup {at[f].digest}] ELSE thread[t]]
    /\ UNCHANGED <<env, ready, merged, issues>>

ReplyFails(f) ==
    /\ "lost-acks" \in env /\ at[f].pc = "reply" /\ Goes(f, Failed(Replied(f)))
    /\ UNCHANGED <<env, ready, merged, thread, issues>>

\* requireZeroOpenMachineThreads, after every thread was attempted.
Gate(f) ==
    /\ at[f].pc = "resolve" /\ at[f].todo = {}
    /\ IF at[f].failed THEN Defers(f) ELSE Goes(f, [at[f] EXCEPT !.pc = "merge"])
    /\ UNCHANGED <<env, ready, merged, thread, issues>>

Merge(f) ==
    /\ at[f].pc = "merge" /\ ready /\ merged = "nobody"
    /\ merged' = f /\ Defers(f)
    /\ UNCHANGED <<env, ready, thread, issues>>

\* GitHub refuses: merged by another meanwhile, or not mergeable any more.
MergeRefused(f) ==
    /\ at[f].pc = "merge" /\ (~ready \/ merged # "nobody")
    /\ Defers(f)
    /\ UNCHANGED <<env, ready, merged, thread, issues>>

Outage(f) ==
    /\ "outages" \in env
    /\ at[f].pc \in {"threads", "comments", "probe", "create", "reprobe", "merge"}
    /\ Defers(f)
    /\ UNCHANGED <<env, ready, merged, thread, issues>>

Kill(f) ==
    /\ "kills" \in env /\ at[f].pc # "idle" /\ Defers(f)
    /\ UNCHANGED <<env, ready, merged, thread, issues>>

(***************************************************************************)
(* Around them.                                                            *)
(***************************************************************************)
ReviewOpens(t) ==
    /\ thread[t].kind = "none" /\ merged = "nobody"
    /\ "late-reviews" \in env \/ Working = {}
    /\ \E kind \in {"gated", "nit"} :
          thread' = [thread EXCEPT ![t] = [@ EXCEPT !.kind = kind, !.open = TRUE]]
    /\ UNCHANGED <<env, ready, merged, issues, at>>

\* The base moves, a label is withdrawn, checks run again; and back.
MergeableChanges ==
    /\ "withdrawals" \in env /\ merged = "nobody" /\ ready' = ~ready
    /\ UNCHANGED <<env, merged, thread, issues, at>>

\* attemptMergeProbe of the tick asks for the approval and nothing else.
TickMerges ==
    /\ "tick-merges" \in env /\ ready /\ merged = "nobody" /\ merged' = "tick"
    /\ UNCHANGED <<env, ready, thread, issues, at>>

Disturbed(f) == Outage(f) \/ Kill(f)

Step(f) ==
    \/ Visit(f) \/ ListThreads(f) \/ ReadComments(f) \/ Probe(f) \/ Create(f) \/ ProbeAgain(f)
    \/ StampLedger(f) \/ Gate(f) \/ Merge(f) \/ MergeRefused(f)
    \/ Reply(f) \/ ReplyFails(f)
    \/ \E t \in Threads : ResolveThread(f, t) \/ ResolveFails(f, t)

Next ==
    \/ \E f \in Funnels : Step(f) \/ Disturbed(f)
    \/ \E t \in Threads : ReviewOpens(t)
    \/ MergeableChanges \/ TickMerges

Spec == Init /\ [][Next]_vars

\* The sweep is fired again and again and its jobs go on; no thread refuses to
\* be closed for ever.
FairSpec ==
    /\ Spec
    /\ WF_vars(Step("sweep"))
    /\ \A t \in Threads : SF_vars(ResolveThread("sweep", t))

(***************************************************************************)
(* Properties                                                              *)
(***************************************************************************)

\* Types; a funnel closes threads for a digest only once it knows its number.
TypeOK ==
    /\ env \in Environments /\ ready \in BOOLEAN
    /\ merged \in {"nobody", "tick"} \cup Funnels
    /\ thread \in [Threads -> Thread]
    /\ digests \in Seq(SUBSET Threads) /\ Len(digests) <= MaxDigests
    /\ ledger \subseteq Threads
    /\ at \in [Funnels -> Funnel]
    /\ \A f \in Funnels : at[f].digest <= Len(digests)

\* A pull request that a funnel merged has no open thread of the machine but
\* those opened while it was at work, and every gated thread says which digest
\* took its finding, or is about to, if no answer or reply was lost and no job
\* cancelled (requireZeroOpenMachineThreads and resolveOneMachineThread: a funnel
\* that could not close and tag everything it saw must not merge, whatever
\* another funnel does to the same threads meanwhile).
Tagged(t) == thread[t].tags # {} \/ \E f \in Funnels : t \in at[f].on \cap at[f].counted
MergedOnRecord ==
    merged \in Funnels =>
        /\ "late-reviews" \notin env => OpenThreads = {}
        /\ env \cap {"late-reviews", "lost-acks", "kills"} = {} =>
               \A t \in Threads : thread[t].kind = "gated" => Tagged(t)

\* A finding whose thread was closed without a fix is listed in a digest or in
\* the newest ledger stamp, at every moment, merged or not: a digest is not
\* updated and a stamp replaces the one before it, so this rests on every
\* funnel carrying over what the ones before it closed (appendCountedToLedger,
\* fileDigest, stampLedger).
Recorded == ledger \cup UNION {digests[d] : d \in DOMAIN digests}
ClosedIsRecorded ==
    env \cap {"late-reviews", "lost-stamps"} = {} =>
        \A t \in Threads : thread[t].kind = "gated" /\ ~thread[t].open => t \in Recorded

\* However often merges are held and retried, one digest per funnel is the
\* most there ever is, as long as the search finds what was filed
\* (fileDigest: probe, create, probe again).
OneDigestPerFunnel ==
    "search-lag" \notin env => Len(digests) <= Cardinality(Funnels)

\* A held merge lands, once the pull request stays mergeable and outages and
\* cancelled jobs have stopped, even if closing a thread or replying to it still
\* fails now and then: a closed thread is not asked to close again, so that the
\* failures of an attempt do not undo the progress of the ones before it.
Undisturbed == \A f \in Funnels : ~Disturbed(f)
HeldMergeLands ==
    "search-lag" \notin env =>
        (<>[]ready /\ <>[][Undisturbed]_vars => <>(merged # "nobody"))
=============================================================================
