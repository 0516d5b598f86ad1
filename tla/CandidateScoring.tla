-------------------------- MODULE CandidateScoring --------------------------
(***************************************************************************)
(* How automatic recovery chooses what to promote                          *)
(* (src/runtime/automatic-backtrack-policy.ts, candidate-runner.ts,        *)
(* task-execution-effects.ts and tie-critic.ts,                            *)
(* src/workflow/backtrack-policy.ts, candidate-scoring.ts and              *)
(* effect-ledger.ts, src/repository/candidate-promotion.ts).  A failed     *)
(* delivery is classified; if two candidates are compared, their results   *)
(* become receipts, the receipts a score, and promotion derives the winner *)
(* from the receipts once more with a comparison of its own.  The score is *)
(* durable; what is computed before it is written is lost with its         *)
(* process.  BacktrackCoordinator has the same steps with the score        *)
(* reduced to one grade.                                                   *)
(***************************************************************************)
EXTENDS Naturals, Sequences, FiniteSets

CONSTANTS
  Paths,        \* files a candidate may change
  MaxRisks,     \* bound on unresolved risks
  MaxBytes,     \* bound on changed bytes
  Failures,     \* sets of kinds of failing checks
  MaxCrashes,   \* bound on crashes
  None

\* What the name of a check contains; "regression" and "test" count as tests.
Kinds == {"type", "lint", "build", "test", "regression"}

Candidates == {0, 1}

ASSUME ScoringConstants ==
  /\ Failures \subseteq SUBSET Kinds /\ {} \in Failures
  /\ MaxRisks \in Nat /\ MaxBytes \in Nat /\ MaxCrashes \in Nat
  /\ IsFiniteSet(Paths)
  /\ None \notin Candidates /\ None # "promotion_failed"

\* The result of a candidate's run.  A completed delivery has a verification
\* that passed (projectResult), and a verification passes exactly when each of
\* its checks does (parseVerification, hostIntegrationVerification).
Deltas == {d \in [paths : SUBSET Paths, bytes : 0..MaxBytes] : d.paths = {} => d.bytes = 0}

Results ==
  {x \in [status : {"completed", "needs_attention", "awaiting_approval"}, checked : BOOLEAN,
          failed : Failures, risks : 0..MaxRisks, delta : Deltas] :
     /\ x.status = "completed" => x.checked /\ x.failed = {}
     /\ x.status = "awaiting_approval" => ~x.checked
     /\ ~x.checked => x.failed = {}}

\* The result a dispatch hands to automatic recovery.
Deliveries == [pattern : {"delivery", "review"},
               status : {"completed", "needs_attention", "awaiting_approval"},
               passed : BOOLEAN, diagnosed : BOOLEAN,
               verifications : 1..2, regressed : BOOLEAN, planInvalid : BOOLEAN,
               ambiguous : BOOLEAN]

VARIABLES
  pc,        \* where automatic recovery is
  attested,  \* the host attests that tasks only change the repository
  delivery,  \* the delivery that failed
  results,   \* results of the candidates' runs
  receipts,  \* receipts of the candidates in the coordinator's state
  found,     \* the score computed, not yet durable
  score,     \* the durable score
  outcome,   \* how recovery ended
  crashes

vars == <<pc, attested, delivery, results, receipts, found, score, outcome, crashes>>
inputs == <<attested, delivery, results>>

-----------------------------------------------------------------------------
\* Effects and policy

\* taskExecutionEffectLedger: one reversible write, or one unknown effect.
Ledger == IF attested THEN {"reversible-write"} ELSE {"unknown"}

\* assessAutomaticBacktrackSafety
Safe == Ledger \cap {"unknown", "irreversible-write", "pending", "noncompensable"} = {}

\* isStructuredFailedDelivery
FailedDelivery == delivery.status = "needs_attention" /\ ~delivery.passed /\ delivery.diagnosed

\* automaticBacktrackDecision, classifyBacktrackTrigger.  The effects and the
\* replay are given as safe, the budget as spent.
Decision ==
  CASE delivery.planInvalid -> "escalate-manual"
    [] ~delivery.planInvalid /\ delivery.ambiguous -> "escalate-manual"
    [] ~delivery.planInvalid /\ ~delivery.ambiguous
         /\ (delivery.verifications > 1 \/ delivery.status = "needs_attention"
             \/ delivery.regressed) -> "compare-two-candidates"
    [] OTHER -> "escalate-manual"

-----------------------------------------------------------------------------
\* Receipts and scores

\* candidateReceipt, verificationFailures: a run that awaits approval has no
\* delivery; a run that was not verified has one failed check.
Count(x, kinds) == Cardinality(x.failed \cap kinds)

Receipt(x) ==
  [replayCompatible |-> TRUE,
   fullyKnown |-> Safe, fullyCompensable |-> Safe,
   deliveryCompleted |-> x.status = "completed",
   passed |-> x.checked /\ x.failed = {},
   failedChecks |-> IF x.checked THEN Cardinality(x.failed) ELSE 1,
   test |-> Count(x, {"test", "regression"}), typecheck |-> Count(x, {"type"}),
   lint |-> Count(x, {"lint"}), build |-> Count(x, {"build"}),
   unmet |-> IF x.checked /\ x.failed = {} THEN 0 ELSE 1,
   regressions |-> Count(x, {"regression"}),
   risks |-> IF x.status = "awaiting_approval" THEN 1 ELSE x.risks,
   changedPaths |-> x.delta.paths, changedBytes |-> x.delta.bytes]

\* toReceipt forgets the risks.
ToReceiptNoRisks(r) ==
  [eligible |-> /\ r.replayCompatible /\ r.fullyKnown /\ r.fullyCompensable
                /\ r.deliveryCompleted /\ r.passed,
   score |-> <<r.failedChecks, r.test + r.typecheck + r.lint + r.build,
               r.test, r.typecheck, r.lint, r.build, r.unmet, r.regressions,
               Cardinality(r.changedPaths), r.changedBytes>>]

\* toReceipt: every reason for ineligibility, and the score, smaller is better.
ToReceipt(r) ==
  [eligible |-> /\ r.replayCompatible /\ r.fullyKnown /\ r.fullyCompensable
                /\ r.deliveryCompleted /\ r.passed,
   score |-> <<r.failedChecks, r.test + r.typecheck + r.lint + r.build,
               r.test, r.typecheck, r.lint, r.build, r.unmet, r.regressions,
               r.risks, Cardinality(r.changedPaths), r.changedBytes>>]

\* compareReceipts: the first difference decides.
Before(a, b) ==
  \E i \in DOMAIN a.score : a.score[i] < b.score[i] /\ \A j \in 1..i-1 : a.score[j] = b.score[j]

Eligible(rs) == {c \in DOMAIN rs : rs[c].eligible}

\* scoreCandidates: the candidates no eligible one comes before.
Leaders(rs) == {c \in Eligible(rs) : \A d \in Eligible(rs) : ~Before(rs[d], rs[c])}

Scored == [c \in Candidates |-> ToReceipt(receipts[c])]

-----------------------------------------------------------------------------
\* Promotion

\* compareReceipts of promotion: equal scores go by the candidate's index.
PromotionBefore(rs, c, d) == Before(rs[c], rs[d]) \/ (rs[c].score = rs[d].score /\ c < d)

\* assertSafeScore, a tie never accepted.
AssertSafeScoreNoTie(s) ==
  /\ Safe
  /\ \E w \in Eligible(s.receipts) :
       /\ \A d \in Eligible(s.receipts) \ {w} : PromotionBefore(s.receipts, w, d)
       /\ Cardinality({d \in Eligible(s.receipts) : s.receipts[d].score = s.receipts[w].score}) = 1
       /\ w = s.winner

\* assertSafeScore: the effects are safe, and the winner is the first of the
\* eligible receipts, or the one a tie decision names when the scores are equal.
AssertSafeScore(s) ==
  /\ Safe
  /\ \E w \in Eligible(s.receipts) :
       /\ \A d \in Eligible(s.receipts) \ {w} : PromotionBefore(s.receipts, w, d)
       /\ LET tied == {d \in Eligible(s.receipts) : s.receipts[d].score = s.receipts[w].score}
          IN \/ Cardinality(tied) = 1 /\ w = s.winner
             \/ Cardinality(tied) = 2 /\ s.tie # None /\ s.tie = s.winner

-----------------------------------------------------------------------------
Goto(l) == pc' = l

Init ==
  /\ pc = "decide" /\ attested \in BOOLEAN /\ delivery \in Deliveries
  /\ results = None /\ receipts = None /\ found = None /\ score = None
  /\ outcome = None /\ crashes = 0

Stop(reason) == outcome' = reason /\ Goto("done")

\* runAutomaticBacktrack: early returns in the order of the code.
Decide ==
  /\ pc = "decide"
  /\ LET reason ==
           CASE delivery.status = "awaiting_approval" -> "awaiting-approval"
             [] delivery.status # "awaiting_approval" /\ delivery.pattern = "review" -> "review-objective"
             [] OTHER -> IF ~FailedDelivery THEN "not-a-failed-delivery"
                         ELSE IF ~Safe THEN "unsafe-effects" ELSE "manual-escalation"
         compare == /\ delivery.pattern = "delivery" /\ FailedDelivery /\ Safe
                    /\ Decision = "compare-two-candidates"
     IN \/ compare /\ Goto("run") /\ UNCHANGED outcome
        \/ ~compare /\ Stop(reason)
  /\ UNCHANGED <<inputs, receipts, found, score, crashes>>

CandidatesRun ==
  /\ pc = "run"
  /\ results' \in [Candidates -> Results]
  /\ receipts' = [c \in Candidates |-> Receipt(results'[c])]
  /\ Goto("score")
  /\ UNCHANGED <<attested, delivery, found, score, outcome, crashes>>

\* Without an eligible candidate the candidates run again.
ResolveReruns ==
  /\ pc = "score"
  /\ \/ score # None /\ Goto("promote") /\ UNCHANGED <<found, outcome>>
     \/ /\ score = None
        /\ LET rs == Scored  lead == Leaders(rs) IN
           \/ /\ lead = {} /\ Goto("run") /\ UNCHANGED <<found, outcome>>
           \/ /\ Cardinality(lead) = 2 /\ Goto("critic") /\ UNCHANGED <<found, outcome>>
           \/ /\ Cardinality(lead) = 1
              /\ found' = [winner |-> CHOOSE c \in lead : TRUE, receipts |-> rs, tie |-> None]
              /\ Goto("persist") /\ UNCHANGED outcome
  /\ UNCHANGED <<inputs, receipts, score, crashes>>

\* runLocked and scoreCompletedCandidates: a durable score is kept; otherwise
\* the leader wins, and two leaders go to the critic.
Resolve ==
  /\ pc = "score"
  /\ \/ score # None /\ Goto("promote") /\ UNCHANGED <<found, outcome>>
     \/ /\ score = None
        /\ LET rs == Scored  lead == Leaders(rs) IN
           \/ /\ lead = {} /\ Stop("no_eligible_candidate") /\ UNCHANGED found
           \/ /\ Cardinality(lead) = 2 /\ Goto("critic") /\ UNCHANGED <<found, outcome>>
           \/ /\ Cardinality(lead) = 1
              /\ found' = [winner |-> CHOOSE c \in lead : TRUE, receipts |-> rs, tie |-> None]
              /\ Goto("persist") /\ UNCHANGED outcome
  /\ UNCHANGED <<inputs, receipts, score, crashes>>

\* resolveTieDecision: the critic names a candidate, ...
CriticDecides(answer) ==
  /\ pc = "critic"
  /\ found' = [winner |-> answer, receipts |-> Scored, tie |-> answer]
  /\ Goto("persist")
  /\ UNCHANGED <<inputs, receipts, score, outcome, crashes>>

\* ... or throws, or its output is no decision.
CriticFails ==
  /\ pc = "critic"
  /\ Stop("tie_critic_failed")
  /\ UNCHANGED <<inputs, receipts, found, score, crashes>>

\* The coordinator writes the score.
Persist ==
  /\ pc = "persist"
  /\ score' = found /\ found' = None
  /\ Goto("promote")
  /\ UNCHANGED <<inputs, receipts, outcome, crashes>>

\* openTransaction
Promote ==
  /\ pc = "promote"
  /\ IF AssertSafeScore(score) THEN Stop("promoted") ELSE Stop("promotion_failed")
  /\ UNCHANGED <<inputs, receipts, found, score, crashes>>

\* The process dies after the candidates' receipts are durable and another
\* dispatch resumes from the coordinator's state.
Crash ==
  /\ pc \in {"critic", "persist", "promote"} /\ crashes < MaxCrashes
  /\ crashes' = crashes + 1
  /\ found' = None
  /\ Goto("score")
  /\ UNCHANGED <<inputs, receipts, score, outcome>>

Done == pc = "done" /\ UNCHANGED vars

\* What the dispatch does itself, and what it awaits from agents without a
\* timeout: the candidates' runs and the critic (tie-critic.ts).
Own == Decide \/ Resolve \/ Persist \/ Promote
Awaited == CandidatesRun \/ CriticFails \/ \E c \in Candidates : CriticDecides(c)

Next == Own \/ Awaited \/ Crash \/ Done

Spec == Init /\ [][Next]_vars

\* A dispatch goes on while its process lives; nothing says that the
\* candidates or the critic ever answer.
FairSpec == Spec /\ WF_vars(Own)

-----------------------------------------------------------------------------
Scores == [winner : Candidates, receipts : [Candidates -> [eligible : BOOLEAN, score : Seq(Nat)]],
           tie : Candidates \cup {None}]

\* Every variable holds values of its type.
TypeOK ==
  /\ pc \in {"decide", "run", "score", "critic", "persist", "promote", "done"}
  /\ attested \in BOOLEAN /\ delivery \in Deliveries
  /\ results = None \/ results \in [Candidates -> Results]
  /\ (results = None) = (receipts = None)
  /\ pc \in {"score", "critic", "persist", "promote"} => results # None
  /\ (pc = "persist") = (found # None)
  /\ found = None \/ found \in Scores
  /\ score = None \/ score \in Scores
  /\ pc = "promote" => score # None
  /\ (pc = "done") = (outcome # None)
  /\ crashes \in 0..MaxCrashes

\* What a promotion may rest on: a delivery that completed with effects known.
Sound(c) == attested /\ results[c].status = "completed"

\* A reader's order on sound candidates: fewer risks, then fewer changed paths,
\* then fewer bytes.  No failing check can decide, since none is left.
Better(c, d) ==
  LET x == results[c]  y == results[d]
      p == Cardinality(x.delta.paths)  q == Cardinality(y.delta.paths)
  IN \/ x.risks < y.risks
     \/ x.risks = y.risks /\ p < q
     \/ x.risks = y.risks /\ p = q /\ x.delta.bytes < y.delta.bytes

\* The winner of the eleven-dimensional comparison of scoreCandidates is a sound
\* candidate, and no sound candidate is better by risks, paths and bytes.
WinnerIsBest ==
  score # None => /\ Sound(score.winner)
                  /\ \A c \in Candidates : Sound(c) => ~Better(c, score.winner)

\* Promotion compares the receipts once more with code of its own and comes to
\* the winner the coordinator wrote down (assertSafeScore, resolveCandidateScore).
PromotionAgrees == outcome # "promotion_failed"

\* Recovery asks for at most one run of each candidate and for at most one
\* answer of the critic in each process, and then ends: it goes on for ever only
\* if one of these never answers (runAutomaticBacktrack, runLocked).
RecoveryEnds == <>(outcome # None) \/ <>[](pc \in {"run", "critic"})
=============================================================================
