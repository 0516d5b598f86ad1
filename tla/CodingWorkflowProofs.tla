------------------------ MODULE CodingWorkflowProofs ------------------------
(***************************************************************************)
(* Proofs about CodingWorkflow for every plan, set of items and inputs,    *)
(* with crashes, timeouts, workers that outlive their node and reuse of    *)
(* the thread: a mutation is made at most once, after its dependencies and *)
(* its approval; a completed delivery was verified; the replanning is      *)
(* bounded; the claims implement the mutation journal.                     *)
(***************************************************************************)
EXTENDS CodingWorkflow, FiniteSetTheorems, TLAPS

\* Nodes between the selection of a change and its evidence, and nodes the
\* graph reaches only when every change of the plan has passed.
ChangeNodes == {"approve", "paused", "mutate", "evidence"}
VerifyNodes == {"verify", "diagnose", "repair"}

Running(c) == results[c].status = "running"
AllPassed == plan # <<>> /\ \A c \in Range(plan) : Passed(c)

\* One change is in progress between its selection and its evidence, and none
\* at any other time; only changes of the plan have a result.
ChangeInv ==
  /\ \A c \in Change : results[c].status # "none" => c \in Range(plan) /\ results[c].attempt > 0
  /\ \A c, d \in Change : Running(c) /\ Running(d) => c = d
  /\ node \in ChangeNodes <=> \E c \in Range(plan) : Running(c)
  /\ plan = Planned /\ plan # <<>> => high = HighRisk

\* The integration loop works on a plan that has passed, a repair on the
\* aggregate plan and within its bound.
VerifyInv ==
  /\ node \in VerifyNodes => AllPassed
  /\ node \in {"diagnose", "repair"} => iteration < input.max /\ IsAggregate
  /\ node = "synthesize" /\ input.pattern = "delivery" =>
       verified = "pass" /\ (green = tree \/ slipped) /\ AllPassed
  /\ status = "completed" => node = "end"

\* The worker in progress is the one of the current node; a late worker has yet
\* to claim, or has claimed and not completed; no operation has two workers.
LateInv(w) ==
  /\ w.at # "completed"
  /\ w.at = "claimed" => journal[w.key] = "started" /\ runs[w.key] = 0
  /\ w.at \in {"running", "published"} => journal[w.key] = "started" /\ runs[w.key] = 1
  /\ w.at # "claiming" => \A v \in late : v.at # "claiming" /\ v.key = w.key => v = w

WorkInv ==
  /\ work # NoWork =>
       /\ alive /\ MutationNode /\ steps < Limit /\ work.key = CurrentKey
       /\ work.at = "claimed" => journal[work.key] = "started" /\ runs[work.key] = 0
       /\ work.at \in {"running", "published"} =>
            journal[work.key] = "started" /\ runs[work.key] = 1
       /\ journal[work.key] # "none"
       /\ \A w \in late : w.at # "claiming" => w.key # work.key
  /\ \A w \in late : LateInv(w)
  /\ \A k \in Key : runs[k] <= 1 /\ (journal[k] = "none" => runs[k] = 0)

\* What was worked on, or will be by a late worker, had its dependencies and its
\* approval.
Late(k) == \E w \in late : w.key = k
Begun(k) == runs[k] > 0 \/ Late(k)

LateApproved ==
  \A c \in Change, n \in MaxIterations :
    /\ Late(<<c, n>>)
    /\ c \in high \/ (input.approval /\ ~Reuse)
    /\ c = Aggregate => n = 0
    => <<c, n + 1>> \in approved

OrderInv ==
  /\ \A c \in Range(Planned) :
       results[c].status # "none" => \A d \in Deps[c] : Passed(d)
  /\ \A c \in Change, n \in MaxIterations :
       Begun(<<c, n>>) => results[c].status # "none"
  /\ node \in {"mutate", "evidence"} =>
       \A c \in Change : Running(c) /\ NeedsApproval(c) => Binding(c) \in approved
  /\ ApprovedBeforeMutation /\ LateApproved

IInv == TypeOK /\ ChangeInv /\ VerifyInv /\ WorkInv /\ OrderInv
          /\ ReplanningIsBounded /\ VerifiedUnlessLate

-----------------------------------------------------------------------------
\* The plan, the change in progress and its operation

\* What a plan names is a change.
LEMMA PlanChanges ==
  ASSUME NEW q \in {<<>>, <<Aggregate>>, Planned}
  PROVE  /\ q \in Seq(Change) /\ Range(q) \subseteq Change
         /\ Range(<<>>) = {} /\ Range(<<Aggregate>>) = {Aggregate}
         /\ (q # <<>> => Range(q) # {})
<1>1. Planned \in Seq(Range(Planned))
  BY ConstantsAssumption
<1>2. Range(<<>>) = {} /\ Range(<<Aggregate>>) = {Aggregate}
  BY DEF Range
<1>3. Planned # <<>> => Range(Planned) # {}
  BY <1>1 DEF Range
<1>4. Planned \in Seq(Change)
  BY <1>1 DEF Change
<1>5. <<>> \in Seq(Change) /\ <<Aggregate>> \in Seq(Change)
  BY DEF Change
<1>6. {Aggregate} \subseteq Change /\ Range(Planned) \subseteq Change
  BY DEF Change
<1>7. CASE q = <<>>
  BY <1>2, <1>5, <1>7
<1>8. CASE q = <<Aggregate>>
  BY <1>2, <1>5, <1>6, <1>8
<1>9. CASE q = Planned
  BY <1>2, <1>3, <1>4, <1>6, <1>9
<1> QED
  BY <1>7, <1>8, <1>9

\* The fields of the compiled workflow.
LEMMA InputFields ==
  ASSUME NEW i \in Inputs
  PROVE  i.max \in 0..5 /\ i.approval \in BOOLEAN /\ i.pattern \in {"review", "delivery"}
BY ConstantsAssumption DEF MaxIterations

\* A set of changes of the plan has a first one in plan order.
LEMMA FirstOfPlan ==
  ASSUME plan' \in {<<>>, <<Aggregate>>, Planned}, NEW S, S \subseteq Range(plan'), S # {}
  PROVE  First(S) \in S
<1> DEFINE I == {i \in DOMAIN plan' : plan'[i] \in S}
<1>1. plan' \in Seq(Change)
  BY PlanChanges
<1>2. I \subseteq Nat /\ I # {}
  BY <1>1 DEF Range
<1>3. PICK i \in I : \A j \in I : ~(<<j, i>> \in OpToRel(<, Nat))
  BY <1>2, WFMin, NatLessThanWellFounded
<1>4. \A j \in 1..(i - 1) : plan'[j] \notin S
  <2> SUFFICES ASSUME NEW j \in 1..(i - 1), plan'[j] \in S PROVE FALSE
    OBVIOUS
  <2>1. j \in I /\ j < i /\ i \in Nat /\ j \in Nat
    BY <1>1, <1>2
  <2> QED
    BY <1>3, <2>1 DEF OpToRel
<1>5. i \in DOMAIN plan' /\ plan'[i] \in S
  OBVIOUS
<1> QED
  BY <1>4, <1>5 DEF First

\* The current change is the one that is running.
LEMMA CurrentRuns ==
  ASSUME ChangeInv, TypeOK, node \in ChangeNodes
  PROVE  /\ Current \in Range(plan) /\ Current \in Change /\ Running(Current)
         /\ \A c \in Change : Running(c) => c = Current
         /\ results[Current] \in Results /\ results[Current].attempt \in 1..6
<1>1. InStatus("running") # {}
  BY DEF ChangeInv, InStatus, Running
<1>2. Current \in InStatus("running")
  BY <1>1 DEF Current
<1>3. Current \in Range(plan) /\ Running(Current)
  BY <1>2 DEF InStatus, Running
<1>4. Current \in Change
  BY <1>3, PlanChanges DEF TypeOK
<1>5. results[Current] \in Results
  BY <1>4 DEF TypeOK
<1>6. results[Current].attempt \in 1..6
  BY <1>3, <1>4, <1>5 DEF Results, ChangeInv, Running
<1> QED
  BY <1>3, <1>4, <1>5, <1>6 DEF ChangeInv

\* Mutations have an operation.
LEMMA CurrentKeyType ==
  ASSUME ChangeInv, VerifyInv, TypeOK, MutationNode
  PROVE  CurrentKey \in Key
<1>1. CASE node = "repair"
  <2>1. input.max \in 0..5 /\ iteration \in 0..5 /\ iteration < input.max
    BY <1>1, InputFields DEF VerifyInv, TypeOK, MaxIterations
  <2>2. iteration + 1 \in MaxIterations /\ Aggregate \in Change
    BY <2>1 DEF MaxIterations, Change
  <2> QED
    BY <1>1, <2>2 DEF CurrentKey, Key
<1>2. CASE node = "mutate"
  BY <1>2, CurrentRuns DEF CurrentKey, Key, MaxIterations, ChangeNodes
<1> QED
  BY <1>1, <1>2 DEF MutationNode

-----------------------------------------------------------------------------
\* What the actions do to the results of the changes

\* Only the result of change c becomes another one.
Moves(c, st, n) ==
  /\ results' \in [Change -> Results]
  /\ results'[c].status = st /\ results'[c].attempt = n
  /\ \A d \in Change : d # c => results'[d] = results[d]

\* A new result is written for a change.
LEMMA WriteMoves ==
  ASSUME results \in [Change -> Results], NEW c \in Change, NEW st, NEW n,
         [status |-> st, attempt |-> n] \in Results,
         results' = [results EXCEPT ![c] = [status |-> st, attempt |-> n]]
  PROVE  Moves(c, st, n)
<1>1. results'[c] = [status |-> st, attempt |-> n]
  OBVIOUS
<1> QED
  BY <1>1 DEF Moves

\* A change gets another status.
LEMMA StatusMoves ==
  ASSUME results \in [Change -> Results], NEW c \in Change,
         NEW st \in {"none", "running", "passed", "failed", "needs_attention"},
         results' = [results EXCEPT ![c].status = st]
  PROVE  Moves(c, st, results[c].attempt)
<1>1. results'[c] = [results[c] EXCEPT !.status = st] /\ results[c] \in Results
  OBVIOUS
<1>2. /\ results'[c] \in Results
      /\ results'[c].status = st /\ results'[c].attempt = results[c].attempt
  BY <1>1 DEF Results
<1> QED
  BY <1>2 DEF Moves

\* The routes out of prepare_change: a failed change is given up or tried again,
\* a change that is ready is tried, or nothing is left to do.
Selects(c, n) ==
  /\ Moves(c, "running", n)
  /\ \/ results[c].status = "failed" /\ n = results[c].attempt + 1
     \/ results[c].status = "none" /\ n = 1 /\ \A d \in DepsOf(c) : Passed(d)
  /\ IF input.approval \/ c \in high'
       THEN status' = "awaiting_approval" /\ node' = "approve"
       ELSE status' = "running" /\ node' = "mutate"

GivenUp(c) ==
  /\ results[c].status = "failed"
  /\ Moves(c, "needs_attention", results[c].attempt)
  /\ node' = "escalate" /\ status' = status

Leaves ==
  /\ results' = results /\ status' = status
  /\ \/ node' = "verify" /\ \A c \in Range(plan') : Passed(c)
     \/ node' = "escalate"

\* prepare_change keeps the plan or makes the aggregate one, and takes one of
\* the routes; a change that is running is never found there.
LEMMA PrepareCases ==
  ASSUME TypeOK, ChangeInv, PrepareChange
  PROVE  /\ node = "prepare_change" /\ alive /\ steps < Limit /\ steps' = steps + 1
         /\ \/ plan # <<>> /\ plan' = plan /\ high' = high
            \/ plan = <<>> /\ plan' = <<Aggregate>> /\ high' \in {{}, {Aggregate}}
         /\ UNCHANGED <<input, alive, discovery, approved, mutation, outcome>>
         /\ \/ \E c \in Range(plan') : GivenUp(c) \/ \E n \in 1..6 : Selects(c, n)
            \/ Leaves
<1>1. /\ node = "prepare_change" /\ alive /\ steps < Limit
      /\ UNCHANGED <<input, alive, discovery, approved, mutation, outcome>>
  BY DEF PrepareChange, At
<1>2. \/ plan # <<>> /\ plan' = plan /\ high' = high
      \/ plan = <<>> /\ plan' = <<Aggregate>> /\ high' \in {{}, {Aggregate}}
  BY DEF PrepareChange
<1>3. plan' \in {<<>>, <<Aggregate>>, Planned} /\ Range(plan') \subseteq Change
  BY <1>2, PlanChanges DEF TypeOK
<1>4. \A c \in Change : ~Running(c)
  BY <1>1 DEF ChangeInv, ChangeNodes, Running
<1> DEFINE failed == {c \in Range(plan') : results[c].status = "failed"}
           ready == {c \in Range(plan') : results[c].status = "none"
                                            /\ \A d \in DepsOf(c) : Passed(d)}
           running == {c \in Range(plan') : results[c].status = "running"}
<1>5. running = {}
  BY <1>3, <1>4 DEF Running
<1>6. failed # {} => First(failed) \in failed
  BY <1>3, FirstOfPlan
<1>7. ready # {} => First(ready) \in ready
  BY <1>3, FirstOfPlan
<1>8. \A c \in Change : results[c] \in Results /\ results[c].attempt \in 0..6
  BY DEF TypeOK, Results
<1>9. \/ /\ failed # {} /\ Exhausted(First(failed))
         /\ results' = [results EXCEPT ![First(failed)].status = "needs_attention"]
         /\ Goto("escalate") /\ UNCHANGED status
      \/ /\ failed # {} /\ ~Exhausted(First(failed))
         /\ SelectChange(First(failed), NextAttempt(First(failed)))
      \/ failed = {} /\ ready # {} /\ SelectChange(First(ready), 1)
      \/ /\ UNCHANGED <<results, status>>
         /\ \/ running # {} /\ Goto("mutate")
            \/ (\A c \in Range(plan') : Passed(c)) /\ Goto("verify")
            \/ Goto("escalate")
  BY DEF PrepareChange
<1>10. CASE failed # {} /\ Exhausted(First(failed))
            /\ results' = [results EXCEPT ![First(failed)].status = "needs_attention"]
            /\ Goto("escalate") /\ UNCHANGED status
  <2> DEFINE c == First(failed)
  <2>1. c \in failed /\ c \in Range(plan') /\ c \in Change
    BY <1>3, <1>6, <1>10
  <2> HIDE DEF c
  <2>2. GivenUp(c)
    BY <1>10, <2>1, StatusMoves DEF GivenUp, Goto, TypeOK, c
  <2>3. steps' = steps + 1
    BY <1>10 DEF Goto
  <2> QED
    BY <1>1, <1>2, <2>1, <2>2, <2>3
<1>11. ASSUME NEW c \in Range(plan'), NEW n \in 1..6, SelectChange(c, n),
              \/ results[c].status = "failed" /\ n = results[c].attempt + 1
              \/ results[c].status = "none" /\ n = 1 /\ \A d \in DepsOf(c) : Passed(d)
       PROVE  Selects(c, n) /\ steps' = steps + 1
  <2>1. [status |-> "running", attempt |-> n] \in Results
    BY DEF Results
  <2>2. Moves(c, "running", n)
    BY <1>3, <1>11, <2>1, WriteMoves DEF SelectChange, TypeOK
  <2> QED
    BY <1>11, <2>2 DEF Selects, SelectChange, Goto
<1>12. CASE failed # {} /\ ~Exhausted(First(failed))
            /\ SelectChange(First(failed), NextAttempt(First(failed)))
  <2> DEFINE c == First(failed)
  <2>1. c \in failed /\ c \in Range(plan') /\ c \in Change
    BY <1>3, <1>6, <1>12
  <2>2. results[c].attempt \in 0..6 /\ ~(results[c].attempt > input.max) /\ input.max \in 0..5
    BY <1>8, <1>12, <2>1, InputFields DEF Exhausted, TypeOK
  <2>3. NextAttempt(c) \in 1..6 /\ NextAttempt(c) = results[c].attempt + 1
    BY <2>2 DEF NextAttempt
  <2> HIDE DEF c
  <2>4. Selects(c, NextAttempt(c)) /\ steps' = steps + 1
    BY <1>11, <1>12, <2>1, <2>3 DEF c
  <2> QED
    BY <1>1, <1>2, <2>1, <2>3, <2>4
<1>13. CASE failed = {} /\ ready # {} /\ SelectChange(First(ready), 1)
  <2> DEFINE c == First(ready)
  <2>1. c \in ready /\ c \in Range(plan')
    BY <1>7, <1>13
  <2> HIDE DEF c
  <2>2. Selects(c, 1) /\ steps' = steps + 1
    BY <1>11, <1>13, <2>1 DEF c
  <2> QED
    BY <1>1, <1>2, <2>1, <2>2
<1>14. CASE /\ UNCHANGED <<results, status>>
            /\ \/ running # {} /\ Goto("mutate")
               \/ (\A c \in Range(plan') : Passed(c)) /\ Goto("verify")
               \/ Goto("escalate")
  BY <1>1, <1>2, <1>5, <1>14 DEF Leaves, Goto
<1> QED
  BY <1>9, <1>10, <1>12, <1>13, <1>14

-----------------------------------------------------------------------------
\* Types, one group of variables at a time

ControlType ==
  /\ input \in Inputs
  /\ node \in Nodes /\ alive \in BOOLEAN /\ steps \in 0..32
  /\ status \in {"running", "awaiting_approval", "completed", "needs_attention"}
DiscoveryType ==
  /\ items \subseteq Item /\ found \subseteq Item /\ sent \subseteq Item
  /\ round \in 0..MaxRounds /\ proposes \in [Item -> SUBSET Item]
ChangesType ==
  /\ plan \in {<<>>, <<Aggregate>>, Planned} /\ high \subseteq Change
  /\ results \in [Change -> Results] /\ approved \subseteq Change \X (1..6)
MutationType ==
  /\ journal \in [Key -> {"none", "started", "completed"}] /\ runs \in [Key -> Nat]
  /\ work \in Executions \cup {NoWork} /\ late \subseteq Executions
  /\ unscoped \subseteq Key /\ tree \in Nat /\ bound \in 0..tree
OutcomeType ==
  /\ iteration \in MaxIterations /\ verified \in {"none", "pass", "fail"}
  /\ green \in Int /\ slipped \in BOOLEAN

\* A step that keeps the types of the groups keeps TypeOK.
LEMMA TypeGroups ==
  /\ TypeOK <=> ControlType /\ DiscoveryType /\ ChangesType /\ MutationType /\ OutcomeType
  /\ TypeOK' <=> ControlType' /\ DiscoveryType' /\ ChangesType' /\ MutationType' /\ OutcomeType'
BY DEF TypeOK, ControlType, DiscoveryType, ChangesType, MutationType, OutcomeType

\* The recursion limit is a number of supersteps.
LEMMA LimitType == ASSUME TypeOK PROVE Limit \in 0..32
<1>1. input.max \in 0..5
  BY InputFields DEF TypeOK
<1> QED
  BY <1>1 DEF Limit

\* An execution stays one when it goes on.
LEMMA ExecutionGoesOn ==
  ASSUME NEW w \in Executions, NEW b \in Nat,
         NEW l \in {"claimed", "running", "published", "completed"}
  PROVE  /\ w.key \in Key /\ w.base \in Nat
         /\ [w EXCEPT !.at = l] \in Executions
         /\ [w EXCEPT !.at = l].key = w.key /\ [w EXCEPT !.at = l].at = l
         /\ [w EXCEPT !.at = l, !.base = b] \in Executions
         /\ [w EXCEPT !.at = l, !.base = b].key = w.key
         /\ [w EXCEPT !.at = l, !.base = b].at = l
BY DEF Executions

\* A late worker goes on or is gone; only its own operation is affected.
LateMoves(w) ==
  \/ LateClaim(w) /\ journal[w.key] = "none"
  \/ LateStart(w)
  \/ LatePublication(w) /\ GoesOn(w, "published")
  \/ LateCompletion(w)
  \/ GivesUp(w) /\ UNCHANGED <<journal, runs, unscoped, tree>>

LEMMA LateCases ==
  ASSUME NEW w \in late, LateWorker(w)
  PROVE  /\ LateMoves(w)
         /\ UNCHANGED <<input, node, alive, steps, status, discovery, changes, iteration,
                       verified, green, bound, work>>
BY DEF LateMoves, LateWorker, LateClaim, LateStart, LatePublication, LateCompletion

-----------------------------------------------------------------------------
\* What each group of variables can be changed by

DiscoveryActs == Discover \/ Dispatch \/ (\E i \in Item : Specialist(i)) \/ Collect \/ RunAgain
ChangesActs == Discover \/ PrepareChange \/ Evidence \/ Decision
WorkerActs == ClaimExecute \/ WorkerStarts \/ WorkerPublishes \/ WorkerCompletes \/ WorkerCommits
StopActs == Stop \/ WorkerConflicts \/ ScopeFails \/ NodeTimeout
MutationActs == WorkerActs \/ StopActs \/ \E w \in late : LateWorker(w)
OutcomeActs == ClaimRecorded \/ WorkerCommits \/ Verify \/ Resume \/ Decision \/ RunAgain
                 \/ \E w \in late : LateWorker(w)

\* Every other action leaves the group alone.
LEMMA Frames ==
  ASSUME [Next]_vars
  PROVE  /\ DiscoveryActs \/ UNCHANGED discovery
         /\ ChangesActs \/ UNCHANGED changes
         /\ MutationActs \/ UNCHANGED mutation
         /\ OutcomeActs \/ UNCHANGED outcome
         /\ RunAgain \/ UNCHANGED input
<1> USE DEF Next, Run, Analyse, Mutate, Conclude, Fails, Interrupted, Classify, Pause,
            Diagnose, Synthesize, Escalate, Finish, OutOfSteps, CollectFails, Halt, vars
<1>1. DiscoveryActs \/ UNCHANGED discovery
  BY DEF DiscoveryActs, PrepareChange, ClaimExecute, ClaimRecorded, WorkerStarts,
     WorkerPublishes,
         WorkerCompletes, WorkerCommits, Evidence, Verify, Stop, WorkerConflicts,
         ScopeFails, NodeTimeout,
         Resume, Decision, Decide, LateWorker
<1>2. ChangesActs \/ UNCHANGED changes
  BY DEF ChangesActs, Dispatch, Specialist, Collect, ClaimExecute, ClaimRecorded, WorkerStarts,
         WorkerPublishes, WorkerCompletes, WorkerCommits, Verify, Stop, WorkerConflicts,
         ScopeFails, NodeTimeout, Resume, RunAgain, LateWorker
<1>3. MutationActs \/ UNCHANGED mutation
  BY DEF MutationActs, WorkerActs, StopActs, Discover, Dispatch, Specialist, Collect,
         PrepareChange, ClaimRecorded, Evidence, Verify, Resume, Decision, Decide, RunAgain,
         mutation
<1>4. OutcomeActs \/ UNCHANGED outcome
  BY DEF OutcomeActs, Discover, Dispatch, Specialist, Collect, PrepareChange, ClaimExecute,
         WorkerStarts, WorkerPublishes, WorkerCompletes, Evidence, Stop, WorkerConflicts,
         ScopeFails, NodeTimeout
<1>5. RunAgain \/ UNCHANGED input
  BY DEF Discover, Dispatch, Specialist, Collect, PrepareChange, ClaimExecute, ClaimRecorded,
         WorkerStarts, WorkerPublishes, WorkerCompletes, WorkerCommits, Evidence, Verify, Stop,
         WorkerConflicts, ScopeFails, NodeTimeout, Resume, Decision, Decide, LateWorker
<1> QED
  BY <1>1, <1>2, <1>3, <1>4, <1>5

\* Control keeps its type: no superstep goes beyond the recursion limit.
LEMMA ControlStep ==
  ASSUME TypeOK, ChangeInv, WorkInv, [Next]_vars
  PROVE  ControlType'
<1>0. ControlType /\ Limit \in 0..32
  BY TypeGroups, LimitType
<1> USE <1>0 DEF ControlType, Nodes, At, Goto
<1>1. CASE Analyse
  <2>1. CASE Classify
    BY <2>1 DEF Classify
  <2>2. CASE Discover
    BY <2>2 DEF Discover
  <2>3. CASE Dispatch
    BY <2>3 DEF Dispatch
  <2>4. CASE \E i \in Item : Specialist(i)
    BY <2>4 DEF Specialist
  <2>5. CASE Collect
    BY <2>5 DEF Collect
  <2> QED
    BY <1>1, <2>1, <2>2, <2>3, <2>4, <2>5 DEF Analyse
<1>2. CASE PrepareChange
  BY <1>2, PrepareCases DEF GivenUp, Selects, Leaves
<1>3. CASE Pause \/ Evidence
  <2>1. CASE Pause
    BY <2>1 DEF Pause
  <2>2. CASE Evidence
    BY <2>2 DEF Evidence
  <2> QED
    BY <1>3, <2>1, <2>2
<1>4. CASE Mutate
  <2>1. CASE ClaimRecorded \/ WorkerCommits
    <3>1. CommitMutation /\ UNCHANGED <<input, alive, status>>
      BY <2>1 DEF ClaimRecorded, WorkerCommits
    <3>2. steps < Limit
      BY <2>1 DEF ClaimRecorded, WorkerCommits, WorkInv
    <3> QED
      BY <3>1, <3>2 DEF CommitMutation
  <2>2. CASE ClaimExecute \/ WorkerStarts \/ WorkerPublishes \/ WorkerCompletes
    BY <2>2 DEF ClaimExecute, WorkerStarts, WorkerPublishes, WorkerCompletes
  <2> QED
    BY <1>4, <2>1, <2>2 DEF Mutate
<1>5. CASE Conclude
  BY <1>5 DEF Conclude, Verify, VerifyRoute, Diagnose, Synthesize, Escalate
<1>6. CASE Finish \/ Fails \/ Interrupted
  BY <1>6 DEF Finish, Fails, Interrupted, Halt, OutOfSteps, CollectFails, Stop, WorkerConflicts,
              ScopeFails, NodeTimeout
<1>7. CASE Resume \/ Decision \/ RunAgain
  <2>1. CASE Resume
    BY <2>1 DEF Resume
  <2>2. CASE Decision
    BY <2>2 DEF Decision, Decide
  <2>3. CASE RunAgain
    BY <2>3 DEF RunAgain
  <2> QED
    BY <1>7, <2>1, <2>2, <2>3
<1>8. CASE \E w \in late : LateWorker(w)
  BY <1>8 DEF LateWorker
<1>9. CASE UNCHANGED vars
  BY <1>9 DEF vars
<1> QED
  BY <1>1, <1>2, <1>3, <1>4, <1>5, <1>6, <1>7, <1>8, <1>9 DEF Next, Run

\* Discovery keeps its type.
LEMMA DiscoveryStep ==
  ASSUME TypeOK, [Next]_vars
  PROVE  DiscoveryType'
<1>0. DiscoveryType
  BY TypeGroups
<1>a. Named[input.pattern] \subseteq Item
  BY ConstantsAssumption DEF TypeOK
<1>1. CASE Discover \/ Dispatch
  BY <1>0, <1>1, <1>a DEF DiscoveryType, Discover, Dispatch, Unanalysed
<1>2. CASE \E i \in Item : Specialist(i)
  BY <1>0, <1>2, <1>a DEF DiscoveryType, Specialist
<1>3. CASE Collect
  <2>1. Additions \subseteq Item /\ (Additions # {} => round < MaxRounds)
    BY <1>0, <1>3 DEF DiscoveryType, Collect, CollectThrows, Additions, MaxRounds
  <2>2. items' \subseteq Item /\ (round' = round \/ (Additions # {} /\ round' = round + 1))
    BY <1>0, <1>3, <2>1 DEF DiscoveryType, Collect
  <2> QED
    BY <1>0, <1>3, <2>1, <2>2 DEF DiscoveryType, Collect, MaxRounds
<1>4. CASE RunAgain
  BY <1>0, <1>4 DEF DiscoveryType, RunAgain, MaxRounds
<1>5. CASE UNCHANGED discovery
  BY <1>0, <1>5 DEF DiscoveryType, discovery
<1> QED
  BY <1>1, <1>2, <1>3, <1>4, <1>5, Frames DEF DiscoveryActs

\* The changes keep their type.
LEMMA ChangesStep ==
  ASSUME TypeOK, ChangeInv, [Next]_vars
  PROVE  ChangesType'
<1>0. ChangesType
  BY TypeGroups
<1>1. CASE Discover
  <2>1. HighRisk \subseteq Change
    BY ConstantsAssumption DEF Change
  <2> QED
    BY <1>0, <1>1, <2>1 DEF ChangesType, Discover
<1>2. CASE PrepareChange
  <2>1. plan' \in {<<>>, <<Aggregate>>, Planned} /\ high' \subseteq Change
    BY <1>0, <1>2, PrepareCases DEF ChangesType, Change
  <2>2. results' \in [Change -> Results] /\ approved' = approved
    BY <1>0, <1>2, PrepareCases DEF ChangesType, GivenUp, Selects, Leaves, Moves
  <2> QED
    BY <1>0, <2>1, <2>2 DEF ChangesType
<1>3. CASE Evidence
  <2>1. Current \in Change
    BY <1>3, CurrentRuns DEF Evidence, At, ChangeNodes
  <2>2. PICK st \in {"passed", "failed"} : results' = [results EXCEPT ![Current].status = st]
    BY <1>3 DEF Evidence
  <2>3. results' \in [Change -> Results]
    BY <1>0, <2>1, <2>2, StatusMoves DEF ChangesType, Moves
  <2> QED
    BY <1>0, <1>3, <2>3 DEF ChangesType, Evidence
<1>4. CASE Decision
  <2>1. PICK c \in Change, n \in 1..6, action \in {"approve", "reject"} :
          Decide(<<c, n>>, action)
    BY <1>4 DEF Decision
  <2>2. /\ approved' \subseteq Change \X (1..6)
        /\ UNCHANGED <<plan, high>>
    BY <1>0, <2>1 DEF ChangesType, Decide
  <2>3. CASE results' = [results EXCEPT ![Current].status = "needs_attention"] /\ node = "paused"
    <3>1. Current \in Change
      BY <2>3, CurrentRuns DEF ChangeNodes
    <3> QED
      BY <1>0, <2>2, <2>3, <3>1, StatusMoves DEF ChangesType, Moves
  <2>4. CASE results' = results
    BY <1>0, <2>2, <2>4 DEF ChangesType
  <2> QED
    BY <2>1, <2>3, <2>4 DEF Decide
<1>5. CASE UNCHANGED changes
  BY <1>0, <1>5 DEF ChangesType, changes
<1> QED
  BY <1>1, <1>2, <1>3, <1>4, <1>5, Frames DEF ChangesActs

\* The outcome keeps its type: a repair stays within the bound.
LEMMA OutcomeStep ==
  ASSUME TypeOK, VerifyInv, [Next]_vars
  PROVE  OutcomeType'
<1>0. OutcomeType /\ tree \in Nat /\ input.max \in 0..5
  BY TypeGroups, InputFields DEF ControlType, MutationType
<1>1. CASE ClaimRecorded \/ WorkerCommits
  <2>1. CommitMutation /\ UNCHANGED <<verified, green, slipped>>
    BY <1>1 DEF ClaimRecorded, WorkerCommits
  <2>2. iteration' = iteration \/ (node = "repair" /\ iteration' = iteration + 1)
    BY <2>1 DEF CommitMutation
  <2>3. node = "repair" => iteration < input.max
    BY DEF VerifyInv
  <2> QED
    BY <1>0, <2>1, <2>2, <2>3 DEF OutcomeType, MaxIterations
<1>2. CASE Verify
  <2>1. green' \in {green, tree} /\ slipped' \in BOOLEAN /\ verified' \in {"pass", "fail"}
    BY <1>0, <1>2 DEF Verify, OutcomeType
  <2> QED
    BY <1>0, <1>2, <2>1 DEF Verify, OutcomeType
<1>3. CASE Resume \/ Decision
  BY <1>0, <1>3 DEF OutcomeType, Resume, Decision, Decide
<1>4. CASE RunAgain
  BY <1>0, <1>4 DEF OutcomeType, RunAgain, MaxIterations
<1>5. CASE \E w \in late : LateWorker(w)
  <2>1. slipped' \in BOOLEAN /\ UNCHANGED <<iteration, verified, green>>
    BY <1>0, <1>5 DEF OutcomeType, LateWorker, LateClaim, LateStart, LatePublication,
                      LateCompletion
  <2> QED
    BY <1>0, <2>1 DEF OutcomeType
<1>6. CASE UNCHANGED outcome
  BY <1>0, <1>6 DEF OutcomeType, outcome
<1> QED
  BY <1>1, <1>2, <1>3, <1>4, <1>5, <1>6, Frames DEF OutcomeActs

\* The mutation keeps its type; a thread is bound to a tree of the past.
LEMMA MutationStep ==
  ASSUME TypeOK, ChangeInv, VerifyInv, [Next]_vars
  PROVE  MutationType'
<1>0. MutationType
  BY TypeGroups
<1>1. bound' \in {bound, tree}
  BY Frames DEF OutcomeActs, ClaimRecorded, WorkerCommits, Verify, Resume, Decision, Decide,
                RunAgain, LateWorker, outcome
<1>2. CASE ClaimExecute
  <2>1. CurrentKey \in Key
    BY <1>2, CurrentKeyType DEF ClaimExecute
  <2>2. work' \in Executions
    BY <1>0, <1>2, <2>1 DEF ClaimExecute, Executions, MutationType
  <2> QED
    BY <1>0, <1>1, <1>2, <2>1, <2>2 DEF ClaimExecute, MutationType
<1>3. CASE WorkerStarts \/ WorkerPublishes \/ WorkerCompletes \/ WorkerCommits
  <2>1. work \in Executions /\ work.key \in Key
    BY <1>0, <1>3, ExecutionGoesOn
       DEF MutationType, WorkerStarts, WorkerPublishes, WorkerCompletes, WorkerCommits
  <2>2. tree \in Nat /\ \A l \in {"running", "published", "completed"} :
          /\ [work EXCEPT !.at = l] \in Executions
          /\ [work EXCEPT !.at = l, !.base = tree] \in Executions
    BY <1>0, <2>1, ExecutionGoesOn DEF MutationType
  <2>4. work' \in Executions \cup {NoWork} /\ late' = late
    BY <1>3, <2>2 DEF WorkerStarts, WorkerPublishes, WorkerCompletes, WorkerCommits
  <2>3. /\ journal' \in [Key -> {"none", "started", "completed"}]
        /\ runs' \in [Key -> Nat] /\ tree' \in {tree, tree + 1}
    BY <1>0, <1>3, <2>1
       DEF MutationType, WorkerStarts, WorkerPublishes, WorkerCompletes, WorkerCommits
  <2>5. unscoped' \subseteq Key
    BY <1>0, <1>3, <2>1 DEF MutationType, WorkerStarts, WorkerPublishes, WorkerCompletes,
                            WorkerCommits, Reports
  <2> QED
    BY <1>0, <1>1, <2>3, <2>4, <2>5 DEF MutationType
<1>4. CASE StopActs
  <2>1. CASE Stop \/ WorkerConflicts \/ ScopeFails
    BY <1>0, <1>1, <2>1 DEF MutationType, Stop, WorkerConflicts, ScopeFails
  <2>2. CASE NodeTimeout
    <3>1. CurrentKey \in Key /\ tree \in Nat
      BY <1>0, <2>2, CurrentKeyType DEF NodeTimeout, MutationType
    <3>2. [key |-> CurrentKey, base |-> tree, at |-> "claiming"] \in Executions
      BY <3>1 DEF Executions
    <3>3. late' \subseteq Executions
      BY <1>0, <2>2, <3>2 DEF NodeTimeout, MutationType
    <3> QED
      BY <1>0, <1>1, <2>2, <3>3 DEF NodeTimeout, MutationType
  <2> QED
    BY <1>4, <2>1, <2>2 DEF StopActs
<1>5. CASE \E w \in late : LateWorker(w)
  <2>1. PICK w \in late : LateWorker(w)
    BY <1>5
  <2>2. /\ w \in Executions /\ w.key \in Key
        /\ \A l \in {"claimed", "running", "published"} :
             [w EXCEPT !.at = l, !.base = tree] \in Executions
    BY <1>0, ExecutionGoesOn DEF MutationType
  <2>3. LateMoves(w) /\ work' = work
    BY <2>1, LateCases
  <2>4. late' \subseteq Executions /\ tree' \in {tree, tree + 1}
    BY <1>0, <2>2, <2>3 DEF MutationType, LateMoves, LateClaim, LateStart, LatePublication,
                            LateCompletion, GoesOn, GivesUp
  <2>5. /\ journal' \in [Key -> {"none", "started", "completed"}]
        /\ runs' \in [Key -> Nat] /\ unscoped' \subseteq Key
    BY <1>0, <2>2, <2>3 DEF MutationType, LateMoves, LateClaim, LateStart, LatePublication,
                            LateCompletion, Reports
  <2> QED
    BY <1>0, <1>1, <2>3, <2>4, <2>5 DEF MutationType
<1>6. CASE UNCHANGED mutation
  BY <1>0, <1>1, <1>6 DEF MutationType, mutation
<1> QED
  BY <1>2, <1>3, <1>4, <1>5, <1>6, Frames DEF MutationActs, WorkerActs

\* Every action keeps the types.
LEMMA TypeStep ==
  ASSUME TypeOK, ChangeInv, VerifyInv, WorkInv, [Next]_vars
  PROVE  TypeOK'
BY TypeGroups, ControlStep, DiscoveryStep, ChangesStep, OutcomeStep, MutationStep

-----------------------------------------------------------------------------
\* The change in progress

\* The graph enters and leaves the change's nodes only with its result.
LEMMA ChangeNodesFrame ==
  ASSUME [Next]_vars, ~ChangesActs
  PROVE  node' \in ChangeNodes <=> node \in ChangeNodes
<1> USE DEF ChangeNodes
<1>1. CASE Analyse
  BY <1>1 DEF Analyse, ChangesActs, Classify, Dispatch, Specialist, Collect, At, Goto
<1>2. CASE Pause
  BY <1>2 DEF Pause, At
<1>3. CASE Mutate
  BY <1>3 DEF Mutate, ClaimExecute, ClaimRecorded, WorkerStarts, WorkerPublishes,
              WorkerCompletes, WorkerCommits, CommitMutation, Goto
<1>4. CASE Conclude
  BY <1>4 DEF Conclude, Verify, VerifyRoute, Diagnose, Synthesize, Escalate, At, Goto
<1>5. CASE Finish \/ Fails \/ Interrupted
  BY <1>5 DEF Finish, Fails, Interrupted, Halt, OutOfSteps, CollectFails, Stop, WorkerConflicts,
              ScopeFails, NodeTimeout
<1>6. CASE Resume \/ RunAgain
  BY <1>6 DEF Resume, RunAgain
<1>7. CASE \E w \in late : LateWorker(w)
  BY <1>7 DEF LateWorker
<1>8. CASE UNCHANGED vars
  BY <1>8 DEF vars
<1> QED
  BY <1>1, <1>2, <1>3, <1>4, <1>5, <1>6, <1>7, <1>8 DEF Next, Run, ChangesActs

\* The result of the change in progress is decided: no change is running.
LEMMA CurrentLeaves ==
  ASSUME TypeOK, ChangeInv, node \in ChangeNodes,
         NEW st \in {"passed", "failed", "needs_attention"},
         results' = [results EXCEPT ![Current].status = st]
  PROVE  /\ Moves(Current, st, results[Current].attempt)
         /\ \A c \in Change : ~Running(c)'
         /\ \A c \in Change : results'[c].status # "none" =>
              c \in Range(plan) /\ results'[c].attempt > 0
<1>1. Moves(Current, st, results[Current].attempt)
  BY CurrentRuns, StatusMoves DEF TypeOK
<1>2. /\ results'[Current].status = st /\ results'[Current].attempt = results[Current].attempt
      /\ \A d \in Change : d # Current => results'[d] = results[d]
  BY <1>1 DEF Moves
<1>3. \A c \in Change : ~Running(c)'
  BY <1>2, CurrentRuns DEF Running
<1>4. \A c \in Change : results'[c].status # "none" => c \in Range(plan) /\ results'[c].attempt > 0
  BY <1>2, CurrentRuns DEF ChangeInv
<1> QED
  BY <1>1, <1>3, <1>4

\* What is known about the changes in progress is kept.
LEMMA ChangeStep ==
  ASSUME TypeOK, TypeOK', ChangeInv, [Next]_vars
  PROVE  ChangeInv'
<1>1. CASE Discover
  <2>1. /\ results' = results /\ node = "discover" /\ node' = "dispatch"
        /\ (plan = <<>> /\ plan' \in {<<>>, Planned}) \/ plan' = plan
        /\ high' = IF plan' = Planned THEN HighRisk ELSE high
    BY <1>1 DEF Discover, At, Goto
  <2>2. \A c \in Change : ~Running(c)
    BY <2>1 DEF ChangeInv, ChangeNodes, Running
  <2>3. Range(plan') \subseteq Change /\ Range(<<>>) = {}
    BY PlanChanges DEF TypeOK
  <2>4. plan = <<>> => \A c \in Change : results[c].status = "none"
    BY <2>3 DEF ChangeInv
  <2> QED
    BY <2>1, <2>2, <2>3, <2>4 DEF ChangeInv, ChangeNodes, Running
<1>2. CASE PrepareChange
  <2>1. /\ node = "prepare_change"
        /\ \/ plan # <<>> /\ plan' = plan /\ high' = high
           \/ plan = <<>> /\ plan' = <<Aggregate>>
    BY <1>2, PrepareCases
  <2>2. \A c \in Change : ~Running(c)
    BY <2>1 DEF ChangeInv, ChangeNodes, Running
  <2>3. Range(plan') \subseteq Change /\ Range(plan) \subseteq Range(plan')
    BY <2>1, PlanChanges DEF TypeOK
  <2>4. <<Aggregate>> # Planned
    BY ConstantsAssumption, PlanChanges
  <2>5. plan' = Planned /\ plan' # <<>> => high' = HighRisk
    BY <2>1, <2>4 DEF ChangeInv
  <2>6. CASE \E c \in Range(plan') : GivenUp(c)
    <3>1. PICK c \in Range(plan') : GivenUp(c)
      BY <2>6
    <3>2. /\ results[c].status = "failed" /\ node' = "escalate"
          /\ results'[c].status = "needs_attention" /\ results'[c].attempt = results[c].attempt
          /\ \A d \in Change : d # c => results'[d] = results[d]
      BY <3>1 DEF GivenUp, Moves
    <3> QED
      BY <2>2, <2>3, <2>5, <3>2 DEF ChangeInv, ChangeNodes, Running
  <2>7. CASE \E c \in Range(plan'), n \in 1..6 : Selects(c, n)
    <3>1. PICK c \in Range(plan'), n \in 1..6 : Selects(c, n)
      BY <2>7
    <3>2. /\ node' \in {"approve", "mutate"}
          /\ results'[c].status = "running" /\ results'[c].attempt = n
          /\ \A d \in Change : d # c => results'[d] = results[d]
      BY <3>1 DEF Selects, Moves
    <3> QED
      BY <2>2, <2>3, <2>5, <3>2 DEF ChangeInv, ChangeNodes, Running
  <2>8. CASE Leaves
    BY <2>2, <2>3, <2>5, <2>8 DEF Leaves, ChangeInv, ChangeNodes, Running
  <2> QED
    BY <1>2, <2>6, <2>7, <2>8, PrepareCases
<1>3. CASE Evidence
  <2>1. PICK st \in {"passed", "failed"} : results' = [results EXCEPT ![Current].status = st]
    BY <1>3 DEF Evidence
  <2>2. node = "evidence" /\ node' = "prepare_change" /\ UNCHANGED <<plan, high>>
    BY <1>3 DEF Evidence, At, Goto
  <2>3. Range(plan) \subseteq Change
    BY PlanChanges DEF TypeOK
  <2> QED
    BY <2>1, <2>2, <2>3, CurrentLeaves DEF ChangeInv, ChangeNodes
<1>4. CASE Decision
  <2>1. /\ UNCHANGED <<plan, high>>
        /\ \/ /\ node = "paused" /\ node' = "prepare_change"
              /\ results' = [results EXCEPT ![Current].status = "needs_attention"]
           \/ /\ results' = results
              /\ (node = "paused" /\ node' = "mutate") \/ node' = node
    BY <1>4 DEF Decision, Decide
  <2>2. Range(plan) \subseteq Change
    BY PlanChanges DEF TypeOK
  <2>3. CASE results' = results /\ ((node = "paused" /\ node' = "mutate") \/ node' = node)
    BY <2>1, <2>3 DEF ChangeInv, ChangeNodes, Running
  <2>4. CASE /\ node = "paused" /\ node' = "prepare_change"
             /\ results' = [results EXCEPT ![Current].status = "needs_attention"]
    BY <2>1, <2>2, <2>4, CurrentLeaves DEF ChangeInv, ChangeNodes
  <2> QED
    BY <2>1, <2>3, <2>4
<1>5. CASE ~ChangesActs
  <2>1. UNCHANGED <<plan, high, results>>
    BY <1>5, Frames DEF changes
  <2> QED
    BY <1>5, <2>1, ChangeNodesFrame DEF ChangeInv, Running
<1> QED
  BY <1>1, <1>2, <1>3, <1>4, <1>5 DEF ChangesActs

-----------------------------------------------------------------------------
\* Verification

\* Nothing that a verification or a completion rests on has changed, but for the
\* publication of a late worker.
Unmoved ==
  /\ UNCHANGED <<input, node, status, plan, results, iteration, verified>>
  /\ UNCHANGED <<green, tree, slipped>> \/ slipped' \/ node \in {"mutate", "repair"}

\* Then what is known of the verification is kept.
LEMMA UnmovedKeeps ==
  ASSUME VerifyInv, VerifiedUnlessLate, Unmoved
  PROVE  VerifyInv' /\ VerifiedUnlessLate'
<1>1. UNCHANGED <<input, node, status, plan, results, iteration, verified>>
  BY DEF Unmoved
<1>2. AllPassed' = AllPassed /\ IsAggregate' = IsAggregate /\ \A c : Passed(c)' = Passed(c)
  BY <1>1 DEF AllPassed, IsAggregate, Passed
<1>3. node \in {"synthesize", "end"} /\ (green = tree \/ slipped)
        => (green' = tree' \/ slipped')
  BY DEF Unmoved
<1>4. VerifyInv'
  BY <1>1, <1>2, <1>3 DEF VerifyInv
<1>5. VerifiedUnlessLate'
  BY <1>1, <1>2, <1>3 DEF VerifiedUnlessLate, VerifyInv
<1> QED
  BY <1>4, <1>5

\* A graph that is neither verifying nor at its end knows nothing of it.
LEMMA ElsewhereHolds ==
  ASSUME node' \notin VerifyNodes \cup {"synthesize"}, status' # "completed"
  PROVE  VerifyInv' /\ VerifiedUnlessLate'
BY DEF VerifyInv, VerifyNodes, VerifiedUnlessLate

\* What is known about the verification is kept.
LEMMA VerifyStep ==
  ASSUME TypeOK, ChangeInv, VerifyInv, VerifiedUnlessLate, WorkInv, [Next]_vars
  PROVE  VerifyInv' /\ VerifiedUnlessLate'
<1>0. status = "completed" => node = "end"
  BY DEF VerifyInv
<1>1. CASE Classify \/ Discover \/ (\E i \in Item : Specialist(i)) \/ Collect
  <2>1. node' \in {"discover", "dispatch", "specialist", "collect"} /\ status' # "completed"
    BY <1>0, <1>1 DEF Classify, Discover, Specialist, Collect, At, Goto
  <2> QED
    BY <2>1, ElsewhereHolds DEF VerifyNodes
<1>2. CASE Dispatch
  <2>1. /\ node' \in {"specialist", "prepare_change"}
           \/ (node' = "synthesize" /\ input.pattern = "review" /\ input' = input)
        /\ status' # "completed"
    BY <1>0, <1>2 DEF Dispatch, At, Goto
  <2> QED
    BY <2>1 DEF VerifyInv, VerifyNodes, VerifiedUnlessLate
<1>3. CASE PrepareChange
  <2>1. node = "prepare_change" /\ plan' # <<>>
    BY <1>3, PrepareCases, PlanChanges
  <2>2. status' # "completed"
    BY <1>0, <1>3, <2>1, PrepareCases DEF GivenUp, Selects, Leaves
  <2>3. CASE Leaves /\ node' = "verify"
    <3>1. AllPassed'
      BY <2>1, <2>3 DEF Leaves, AllPassed, Passed
    <3> QED
      BY <2>2, <2>3, <3>1 DEF VerifyInv, VerifyNodes, VerifiedUnlessLate
  <2>4. CASE node' \in {"escalate", "approve", "mutate"}
    BY <2>2, <2>4, ElsewhereHolds DEF VerifyNodes
  <2> QED
    BY <1>3, <2>3, <2>4, PrepareCases DEF GivenUp, Selects, Leaves
<1>4. CASE Pause \/ Evidence
  <2>1. node' \in {"paused", "prepare_change"} /\ status' # "completed"
    BY <1>0, <1>4 DEF Pause, Evidence, At, Goto
  <2> QED
    BY <2>1, ElsewhereHolds DEF VerifyNodes
<1>5. CASE ClaimExecute \/ WorkerStarts \/ WorkerPublishes \/ WorkerCompletes
  <2>1. node \in {"mutate", "repair"}
    BY <1>5 DEF ClaimExecute, WorkerStarts, WorkerPublishes, WorkerCompletes, WorkInv,
                MutationNode
  <2>2. Unmoved
    BY <1>5, <2>1 DEF ClaimExecute, WorkerStarts, WorkerPublishes, WorkerCompletes, Unmoved,
                      changes, outcome
  <2> QED
    BY <2>2, UnmovedKeeps
<1>6. CASE ClaimRecorded \/ WorkerCommits
  <2>1. /\ CommitMutation /\ UNCHANGED <<input, status, plan, results>>
        /\ node \in {"mutate", "repair"}
    BY <1>6 DEF ClaimRecorded, WorkerCommits, CommitMutation, changes
  <2>2. status' # "completed"
    BY <1>0, <2>1
  <2>3. CASE node = "repair"
    <3>1. AllPassed'
      BY <2>1, <2>3 DEF AllPassed, Passed, VerifyInv, VerifyNodes
    <3>2. node' = "verify"
      BY <2>1, <2>3 DEF CommitMutation, Goto
    <3> QED
      BY <2>2, <3>1, <3>2 DEF VerifyInv, VerifyNodes, VerifiedUnlessLate
  <2>4. CASE node = "mutate"
    BY <2>1, <2>2, <2>4, ElsewhereHolds DEF CommitMutation, VerifyNodes
  <2> QED
    BY <2>1, <2>3, <2>4
<1>7. CASE Verify
  <2>1. /\ node = "verify" /\ UNCHANGED <<input, status, plan, results, iteration, tree>>
        /\ \E passed \in BOOLEAN :
             /\ passed => verified' = "pass" /\ green' = tree
             /\ node' = VerifyRoute(passed)
    BY <1>7 DEF Verify, At, Goto, changes, mutation
  <2>2. AllPassed' /\ status' # "completed"
    BY <1>0, <2>1 DEF AllPassed, Passed, VerifyInv, VerifyNodes
  <2>3. /\ node' \in {"synthesize", "diagnose", "escalate"}
        /\ node' = "synthesize" => verified' = "pass" /\ green' = tree
        /\ node' = "diagnose" => iteration < input.max /\ IsAggregate
    BY <2>1 DEF VerifyRoute
  <2> QED
    BY <2>1, <2>2, <2>3 DEF VerifyInv, VerifyNodes, VerifiedUnlessLate, IsAggregate
<1>8. CASE Diagnose
  <2>1. /\ node = "diagnose" /\ node' = "repair"
        /\ UNCHANGED <<input, status, plan, results, iteration>>
    BY <1>8 DEF Diagnose, At, Goto, changes, outcome
  <2>2. AllPassed' /\ status' # "completed"
    BY <1>0, <2>1 DEF AllPassed, Passed, VerifyInv, VerifyNodes
  <2> QED
    BY <2>1, <2>2 DEF VerifyInv, VerifyNodes, VerifiedUnlessLate, IsAggregate
<1>9. CASE Synthesize
  <2>1. /\ node = "synthesize" /\ node' = "end"
        /\ UNCHANGED <<input, plan, results, verified, green, slipped, tree>>
    BY <1>9 DEF Synthesize, At, Goto, changes, outcome, mutation
  <2> QED
    BY <2>1 DEF VerifyInv, VerifyNodes, VerifiedUnlessLate, AllPassed, Passed
<1>10. CASE Escalate
  <2>1. node' = "end" /\ status' = "needs_attention"
    BY <1>10 DEF Escalate, Goto
  <2> QED
    BY <2>1, ElsewhereHolds DEF VerifyNodes
<1>11. CASE Finish \/ Fails \/ Interrupted \/ Resume \/ UNCHANGED vars
  <2>1. Unmoved
    BY <1>11 DEF Finish, Fails, Interrupted, Halt, OutOfSteps, CollectFails, Stop, WorkerConflicts,
                 ScopeFails, NodeTimeout, Resume, vars, Unmoved, changes, outcome, mutation
  <2> QED
    BY <2>1, UnmovedKeeps
<1>12. CASE Decision
  <2>1. node' \in {"mutate", "prepare_change", "evidence"} /\ status' # "completed"
    BY <1>12 DEF Decision, Decide, InterruptPending
  <2> QED
    BY <2>1, ElsewhereHolds DEF VerifyNodes
<1>13. CASE RunAgain
  <2>1. node' = "classify" /\ status' = "running"
    BY <1>13 DEF RunAgain
  <2> QED
    BY <2>1, ElsewhereHolds DEF VerifyNodes
<1>14. CASE \E w \in late : LateWorker(w)
  <2>1. slipped \in BOOLEAN
    BY DEF TypeOK
  <2>2. UNCHANGED <<tree, slipped>> \/ slipped'
    BY <1>14, <2>1 DEF LateWorker, LateClaim, LateStart, LatePublication, LateCompletion
  <2>3. UNCHANGED <<input, node, status, plan, results, iteration, verified, green>>
    BY <1>14 DEF LateWorker, changes
  <2>4. Unmoved
    BY <2>2, <2>3 DEF Unmoved
  <2> QED
    BY <2>4, UnmovedKeeps
<1> QED
  BY <1>1, <1>2, <1>3, <1>4, <1>5, <1>6, <1>7, <1>8, <1>9, <1>10, <1>11, <1>12, <1>13, <1>14
     DEF Next, Run, Analyse, Mutate, Conclude

-----------------------------------------------------------------------------
\* Workers and the journal

\* The operation of the current node stays while its node does.
LEMMA SameKey ==
  ASSUME UNCHANGED <<node, iteration, results, plan>>
  PROVE  CurrentKey' = CurrentKey /\ MutationNode' = MutationNode
BY DEF CurrentKey, MutationNode, Current, InStatus

\* What is known of workers and journal is kept: no operation gets a second
\* worker, however its first one ended.
LEMMA WorkStep ==
  ASSUME TypeOK, ChangeInv, VerifyInv, WorkInv, [Next]_vars
  PROVE  WorkInv'
<1>0. MutationType
  BY TypeGroups
<1>a. \A w \in late : w \in Executions /\ w.key \in Key
  BY <1>0, ExecutionGoesOn DEF MutationType
<1>b. Limit' = Limit \/ RunAgain
  BY Frames DEF Limit
<1>c. \A w \in late : w.at \in {"claiming", "claimed", "running", "published"}
  BY <1>a DEF WorkInv, LateInv, Executions
<1>1. CASE ClaimExecute
  <2>1. /\ alive' /\ MutationNode /\ steps < Limit
        /\ work' = [key |-> CurrentKey, base |-> tree, at |-> "claimed"]
        /\ journal[CurrentKey] = "none" /\ journal' = [journal EXCEPT ![CurrentKey] = "started"]
        /\ UNCHANGED <<input, node, steps, results, plan, iteration, runs, late>>
    BY <1>1 DEF ClaimExecute, changes, outcome
  <2>2. CurrentKey \in Key
    BY <2>1, CurrentKeyType
  <2>3. CurrentKey' = CurrentKey /\ MutationNode' /\ Limit' = Limit
    BY <2>1, SameKey DEF Limit
  <2>4. work'.key = CurrentKey /\ work'.at = "claimed"
    BY <2>1
  <2>5. /\ journal'[CurrentKey] = "started"
        /\ \A k \in Key : k # CurrentKey => journal'[k] = journal[k]
    BY <1>0, <2>1, <2>2 DEF MutationType
  <2>6. \A w \in late : w.at # "claiming" => w.key # CurrentKey
    BY <1>c, <2>1 DEF WorkInv, LateInv
  <2> QED
    BY <1>a, <2>1, <2>2, <2>3, <2>4, <2>5, <2>6 DEF WorkInv, LateInv
<1>2. CASE WorkerStarts
  <2>1. /\ work # NoWork /\ work.at = "claimed" /\ work \in Executions /\ tree \in Nat
        /\ runs' = [runs EXCEPT ![work.key] = @ + 1]
        /\ work' = [work EXCEPT !.at = "running", !.base = tree]
        /\ UNCHANGED <<input, node, alive, steps, results, plan, iteration, journal, late>>
    BY <1>0, <1>2 DEF WorkerStarts, changes, outcome, MutationType
  <2>2. work.key \in Key /\ work'.key = work.key /\ work'.at = "running"
    BY <2>1 DEF Executions
  <2>3. CurrentKey' = CurrentKey /\ MutationNode' = MutationNode /\ Limit' = Limit
    BY <2>1, SameKey DEF Limit
  <2>4. journal[work.key] = "started" /\ runs[work.key] = 0
    BY <2>1 DEF WorkInv
  <2>5. runs'[work.key] = 1 /\ \A k \in Key : k # work.key => runs'[k] = runs[k]
    BY <1>0, <2>1, <2>2, <2>4 DEF MutationType
  <2> QED
    BY <1>a, <2>1, <2>2, <2>3, <2>4, <2>5 DEF WorkInv, LateInv
<1>3. CASE WorkerPublishes
  <2>1. /\ work # NoWork /\ work.at = "running" /\ work \in Executions
        /\ work' = [work EXCEPT !.at = "published"]
        /\ UNCHANGED <<input, node, alive, steps, results, plan, iteration, journal, runs, late>>
    BY <1>0, <1>3 DEF WorkerPublishes, changes, outcome, MutationType
  <2>2. work'.key = work.key /\ work'.at = "published"
    BY <2>1, ExecutionGoesOn
  <2>3. CurrentKey' = CurrentKey /\ MutationNode' = MutationNode /\ Limit' = Limit
    BY <2>1, SameKey DEF Limit
  <2> QED
    BY <2>1, <2>2, <2>3 DEF WorkInv, LateInv
<1>4. CASE WorkerCompletes
  <2>1. /\ work # NoWork /\ work.at = "published" /\ work \in Executions
        /\ work' = [work EXCEPT !.at = "completed"]
        /\ journal' = [journal EXCEPT ![work.key] = "completed"]
        /\ UNCHANGED <<input, node, alive, steps, results, plan, iteration, runs, late>>
    BY <1>0, <1>4 DEF WorkerCompletes, changes, outcome, MutationType
  <2>2. work.key \in Key /\ work'.key = work.key /\ work'.at = "completed"
    BY <2>1, ExecutionGoesOn
  <2>3. CurrentKey' = CurrentKey /\ MutationNode' = MutationNode /\ Limit' = Limit
    BY <2>1, SameKey DEF Limit
  <2>4. journal'[work.key] = "completed" /\ \A k \in Key : k # work.key => journal'[k] = journal[k]
    BY <1>0, <2>1, <2>2 DEF MutationType
  <2> QED
    BY <1>a, <1>c, <2>1, <2>2, <2>3, <2>4 DEF WorkInv, LateInv
<1>5. CASE WorkerCommits \/ Stop \/ WorkerConflicts \/ ScopeFails
  <2>1. work' = NoWork /\ late' \subseteq late /\ UNCHANGED <<journal, runs>>
    BY <1>5 DEF WorkerCommits, Stop, WorkerConflicts, ScopeFails
  <2> QED
    BY <2>1 DEF WorkInv, LateInv
<1>6. CASE NodeTimeout
  <2>1. work' = NoWork /\ UNCHANGED <<journal, runs>>
    BY <1>6 DEF NodeTimeout
  <2>2. CASE work = NoWork
    <3> DEFINE e == [key |-> CurrentKey, base |-> tree, at |-> "claiming"]
    <3>1. late' = late \cup {e}
      BY <1>6, <2>2 DEF NodeTimeout
    <3>2. e.at = "claiming"
      OBVIOUS
    <3> HIDE DEF e
    <3>3. \A w \in late' : LateInv(w)'
      BY <2>1, <3>1, <3>2 DEF WorkInv, LateInv
    <3> QED
      BY <2>1, <3>3 DEF WorkInv
  <2>3. CASE work # NoWork
    <3>1. late' = late \/ (late' = late \cup {work} /\ work.at # "completed")
      BY <1>6, <2>3 DEF NodeTimeout
    <3>2. \A w \in late' : LateInv(w)'
      BY <2>1, <2>3, <3>1 DEF WorkInv, LateInv
    <3> QED
      BY <2>1, <3>2 DEF WorkInv
  <2> QED
    BY <2>2, <2>3
<1>7. CASE \E w \in late : LateWorker(w)
  <2>1. PICK w \in late : LateWorker(w)
    BY <1>7
  <2>2. /\ UNCHANGED <<input, node, alive, steps, results, plan, iteration, work>>
        /\ CurrentKey' = CurrentKey /\ MutationNode' = MutationNode /\ Limit' = Limit
    BY <2>1, LateCases, SameKey DEF changes, Limit
  <2>3. LateMoves(w) /\ LateInv(w) /\ w.key \in Key
    BY <1>a, <2>1, LateCases DEF WorkInv
  <2>4. work # NoWork => work.key \in Key /\ journal[work.key] # "none"
    BY <1>0, ExecutionGoesOn DEF MutationType, WorkInv
  <2>5. ASSUME NEW l \in {"claimed", "running", "published"}, GoesOn(w, l),
               journal'[w.key] = "started", runs'[w.key] = IF l = "claimed" THEN 0 ELSE 1,
               \A k \in Key : k # w.key => journal'[k] = journal[k] /\ runs'[k] = runs[k],
               w.at = "claiming" => journal[w.key] = "none"
        PROVE  WorkInv'
    <3> DEFINE e == [w EXCEPT !.at = l, !.base = tree]
    <3>a. w \in Executions /\ tree \in Nat
      BY <1>0, <1>a DEF MutationType
    <3>b. e.key = w.key /\ e.at = l
      BY <3>a DEF Executions
    <3>c. late' = (late \ {w}) \cup {e}
      BY <2>5 DEF GoesOn
    <3> HIDE DEF e
    <3>1. e.key = w.key /\ e.at = l /\ late' = (late \ {w}) \cup {e}
      BY <3>b, <3>c
    <3>2. \A v \in late : v # w /\ v.at # "claiming" => v.key # w.key
      BY <1>c, <2>3, <2>5 DEF WorkInv, LateInv
    <3>3. work # NoWork => work.key # w.key
      BY <2>1, <2>4, <2>5 DEF WorkInv
    <3>4. \A v \in late : v # w => LateInv(v)'
      BY <1>a, <1>c, <2>5, <3>1, <3>2 DEF WorkInv, LateInv
    <3>6. \A v \in late' : LateInv(v)'
      <4> SUFFICES ASSUME NEW v \in late' PROVE LateInv(v)'
        OBVIOUS
      <4>1. CASE v = e
        <5>1. /\ v.key = w.key /\ v.at = l
              /\ \A u \in late' : u.at # "claiming" /\ u.key = v.key => u = v
          BY <3>1, <3>2, <4>1
        <5> QED
          BY <2>5, <5>1 DEF LateInv
      <4>2. CASE v # e
        BY <3>1, <3>4, <4>2
      <4> QED
        BY <4>1, <4>2
    <3>7. \A k \in Key : runs'[k] <= 1 /\ (journal'[k] = "none" => runs'[k] = 0)
      BY <2>5 DEF WorkInv
    <3>8. \A v \in late' : work # NoWork /\ v.at # "claiming" => v.key # work.key
      BY <3>1, <3>3 DEF WorkInv
    <3> QED
      BY <2>2, <2>4, <2>5, <3>3, <3>6, <3>7, <3>8 DEF WorkInv
  <2>6. CASE LateClaim(w) /\ journal[w.key] = "none"
    <3>1. /\ GoesOn(w, "claimed") /\ journal' = [journal EXCEPT ![w.key] = "started"]
          /\ runs' = runs /\ runs[w.key] = 0
      BY <2>3, <2>6 DEF LateClaim, WorkInv
    <3>2. /\ journal'[w.key] = "started" /\ runs'[w.key] = 0
          /\ \A k \in Key : k # w.key => journal'[k] = journal[k] /\ runs'[k] = runs[k]
      BY <1>0, <2>3, <3>1 DEF MutationType
    <3> QED
      BY <2>5, <2>6, <3>1, <3>2
  <2>7. CASE LateStart(w)
    <3>1. /\ GoesOn(w, "running") /\ journal' = journal /\ w.at = "claimed"
          /\ runs' = [runs EXCEPT ![w.key] = @ + 1]
          /\ journal[w.key] = "started" /\ runs[w.key] = 0
      BY <2>3, <2>7 DEF LateStart, LateInv
    <3>2. runs'[w.key] = 1 /\ \A k \in Key : k # w.key => runs'[k] = runs[k]
      BY <1>0, <2>3, <3>1 DEF MutationType
    <3> QED
      BY <2>5, <3>1, <3>2
  <2>8. CASE LatePublication(w) /\ GoesOn(w, "published")
    <3>1. /\ UNCHANGED <<journal, runs>> /\ w.at = "running"
          /\ journal[w.key] = "started" /\ runs[w.key] = 1
      BY <2>3, <2>8 DEF LatePublication, LateInv
    <3> QED
      BY <2>5, <2>8, <3>1
  <2>9. CASE LateCompletion(w)
    <3>1. /\ late' = late \ {w} /\ journal' = [journal EXCEPT ![w.key] = "completed"]
          /\ runs' = runs /\ w.at = "published"
      BY <2>9 DEF LateCompletion, GivesUp
    <3>2. journal'[w.key] = "completed" /\ \A k \in Key : k # w.key => journal'[k] = journal[k]
      BY <1>0, <2>3, <3>1 DEF MutationType
    <3>3. \A v \in late' : LateInv(v)'
      BY <1>a, <1>c, <2>3, <3>1, <3>2 DEF WorkInv, LateInv
    <3>4. work # NoWork => work.key # w.key
      BY <2>1, <3>1 DEF WorkInv
    <3> QED
      BY <2>2, <2>4, <3>1, <3>2, <3>3, <3>4 DEF WorkInv
  <2>10. CASE GivesUp(w) /\ UNCHANGED <<journal, runs, unscoped, tree>>
    BY <2>2, <2>10 DEF WorkInv, LateInv, GivesUp
  <2> QED
    BY <2>3, <2>6, <2>7, <2>8, <2>9, <2>10 DEF LateMoves
<1>8. CASE UNCHANGED mutation /\ ~WorkerCommits
  <2>1. UNCHANGED <<journal, runs, work, late>>
    BY <1>8 DEF mutation
  <2>2. ASSUME work # NoWork
        PROVE  UNCHANGED <<input, node, alive, steps, results, plan, iteration>>
    <3>1. alive /\ node \in {"mutate", "repair"} /\ steps < Limit
      BY <2>2 DEF WorkInv, MutationNode
    <3>2. Limit \in 0..32 /\ steps \in 0..32
      BY LimitType DEF TypeOK
    <3>3. ~Analyse /\ ~PrepareChange /\ ~Pause /\ ~Evidence /\ ~Conclude /\ ~Finish
      BY <3>1 DEF Analyse, Classify, Discover, Dispatch, Specialist, Collect, PrepareChange,
         Pause,
                  Evidence, Conclude, Verify, Diagnose, Synthesize, Escalate, Finish, At
    <3>4. ~OutOfSteps /\ ~CollectFails /\ ~Resume /\ ~Decision /\ ~RunAgain
      BY <3>1, <3>2 DEF OutOfSteps, CollectFails, Resume, Decision, Decide, RunAgain, At
    <3>5. /\ ~ClaimRecorded /\ ~ClaimExecute
          /\ ~Stop /\ ~WorkerConflicts /\ ~ScopeFails /\ ~NodeTimeout
      BY <2>1, <2>2 DEF ClaimRecorded, ClaimExecute, Stop, WorkerConflicts, ScopeFails,
                        NodeTimeout
    <3>6. CASE WorkerStarts \/ WorkerPublishes \/ WorkerCompletes
      BY <3>6 DEF WorkerStarts, WorkerPublishes, WorkerCompletes, changes, outcome
    <3>7. CASE (\E w \in late : LateWorker(w)) \/ UNCHANGED vars
      BY <3>7 DEF LateWorker, vars, changes, outcome
    <3> QED
      BY <1>8, <3>3, <3>4, <3>5, <3>6, <3>7 DEF Next, Run, Mutate, Fails, Interrupted
  <2>3. work # NoWork =>
          CurrentKey' = CurrentKey /\ MutationNode' = MutationNode /\ Limit' = Limit
    BY <2>2, SameKey DEF Limit
  <2> QED
    BY <2>1, <2>2, <2>3 DEF WorkInv, LateInv
<1> QED
  BY <1>1, <1>2, <1>3, <1>4, <1>5, <1>6, <1>7, <1>8, Frames
     DEF MutationActs, WorkerActs, StopActs

-----------------------------------------------------------------------------
\* Dependencies and approvals

\* A change that had not passed gets another result: what has passed stays so.
LEMMA DependenciesKept ==
  ASSUME OrderInv, NEW c \in Change, NEW st, NEW n, st # "none", Moves(c, st, n), ~Passed(c),
         c \in Range(Planned) => \A d \in Deps[c] : Passed(d),
         runs' = runs, late' = late
  PROVE  /\ \A b \in Range(Planned) :
              results'[b].status # "none" => \A d \in Deps[b] : Passed(d)'
         /\ \A b \in Change, m \in MaxIterations :
              Begun(<<b, m>>)' => results'[b].status # "none"
<1>1. /\ results'[c].status = st /\ \A d \in Change : d # c => results'[d] = results[d]
  BY DEF Moves
<1>2. \A d \in Change : Passed(d) => Passed(d)'
  BY <1>1 DEF Passed
<1>3. Range(Planned) \subseteq Change /\ \A b \in Range(Planned) : Deps[b] \subseteq Change
  BY ConstantsAssumption DEF Change
<1>4. ASSUME NEW b \in Range(Planned), results'[b].status # "none", NEW d \in Deps[b]
      PROVE  Passed(d)'
  <2>1. d \in Change /\ b \in Change
    BY <1>3
  <2>2. Passed(d)
    BY <1>1, <1>4, <2>1 DEF OrderInv
  <2> QED
    BY <1>2, <2>1, <2>2
<1>5. ASSUME NEW b \in Change, NEW m \in MaxIterations, Begun(<<b, m>>)'
      PROVE  results'[b].status # "none"
  <2>1. Begun(<<b, m>>)
    BY <1>5 DEF Begun, Late
  <2> QED
    BY <1>1, <2>1 DEF OrderInv
<1> QED
  BY <1>4, <1>5

\* A plan that is not made yet has not been worked on.
LEMMA NothingStarted ==
  ASSUME TypeOK, ChangeInv, OrderInv, plan = <<>>
  PROVE  \A c \in Change, n \in MaxIterations : ~(runs[<<c, n>>] > 0) /\ ~Late(<<c, n>>)
<1>1. \A c \in Change : results[c].status = "none"
  BY PlanChanges DEF ChangeInv, TypeOK
<1> QED
  BY <1>1 DEF OrderInv, Begun

\* Approvals stay valid when nothing asks for more of them.
LEMMA ApprovalsKept ==
  ASSUME OrderInv, runs' = runs, input' = input, approved \subseteq approved',
         \A c \in Change, n \in MaxIterations :
           runs[<<c, n>>] > 0 => /\ c \in high' => c \in high
                                 /\ Started(<<c, n>>)' => Started(<<c, n>>)
  PROVE  ApprovedBeforeMutation'
BY DEF OrderInv, ApprovedBeforeMutation

\* So do those of the late workers.
LEMMA LateKept ==
  ASSUME OrderInv, input' = input, approved \subseteq approved',
         \A k \in Key : Late(k)' => Late(k),
         \A c \in Change, n \in MaxIterations :
           Late(<<c, n>>) => (c \in high' => c \in high)
  PROVE  LateApproved'
<1>1. \A c \in Change, n \in MaxIterations : <<c, n>> \in Key
  BY DEF Key
<1> QED
  BY <1>1 DEF OrderInv, LateApproved

\* What a late worker is to do stays approved when no other joins.
LEMMA LateSame ==
  ASSUME late' = late
  PROVE  \A k : Late(k)' => Late(k)
BY DEF Late

\* What the node at work mutates is a change in progress that is approved, or a
\* repair of the aggregate change.
LEMMA CurrentApproved ==
  ASSUME TypeOK, ChangeInv, VerifyInv, OrderInv, MutationNode,
         NEW c \in Change, NEW n \in MaxIterations, <<c, n>> = CurrentKey
  PROVE  /\ results[c].status # "none"
         /\ (c \in high \/ input.approval) /\ (c = Aggregate => n = 0)
              => <<c, n + 1>> \in approved
<1>1. CASE node = "mutate"
  <2>1. /\ CurrentKey = <<Current, results[Current].attempt - 1>>
        /\ Running(Current) /\ Current \in Change /\ results[Current].attempt \in 1..6
        /\ NeedsApproval(Current) => Binding(Current) \in approved
    BY <1>1, CurrentRuns DEF CurrentKey, ChangeNodes, OrderInv
  <2> QED
    BY <2>1 DEF NeedsApproval, Binding, Running
<1>2. CASE node = "repair"
  <2>1. plan = <<Aggregate>> /\ AllPassed
    BY <1>2 DEF VerifyInv, VerifyNodes, IsAggregate
  <2>2. Aggregate \in Range(plan)
    BY <2>1 DEF Range
  <2>3. iteration \in Nat
    BY DEF TypeOK, MaxIterations
  <2>4. CurrentKey = <<Aggregate, iteration + 1>> /\ results[Aggregate].status = "passed"
    BY <1>2, <2>1, <2>2 DEF CurrentKey, AllPassed, Passed
  <2> QED
    BY <2>3, <2>4
<1> QED
  BY <1>1, <1>2 DEF MutationNode

\* A step that touches neither results nor approvals keeps the order.
LEMMA OrderFrame ==
  ASSUME OrderInv, UNCHANGED <<input, results, high, approved, runs>>,
         work' \in {work, NoWork}, \A k \in Key : Late(k)' => Late(k),
         node' \in {"mutate", "evidence"} => node \in {"mutate", "evidence"}
  PROVE  OrderInv'
<1>1. ApprovedBeforeMutation' /\ LateApproved'
  BY ApprovalsKept, LateKept DEF Started
<1>2. \A c \in Change, n \in MaxIterations : Begun(<<c, n>>)' => Begun(<<c, n>>)
  BY DEF Begun, Key
<1> QED
  BY <1>1, <1>2 DEF OrderInv, Passed, Running, NeedsApproval, Binding

\* What is known about order and approvals is kept.
LEMMA OrderStep ==
  ASSUME TypeOK, TypeOK', ChangeInv, VerifyInv, WorkInv, OrderInv, [Next]_vars
  PROVE  OrderInv'
<1>1. CASE Discover
  <2>1. /\ UNCHANGED <<input, results, approved, runs, work, late>> /\ node' = "dispatch"
        /\ (plan = <<>> /\ plan' \in {<<>>, Planned}) \/ plan' = plan
        /\ high' = IF plan' = Planned THEN HighRisk ELSE high
    BY <1>1 DEF Discover, Goto, mutation
  <2>2. plan # <<>> => high' = high
    BY <2>1 DEF ChangeInv
  <2>3. ApprovedBeforeMutation' /\ LateApproved'
    BY <2>1, <2>2, NothingStarted, ApprovalsKept, LateKept, LateSame DEF Started
  <2> QED
    BY <2>1, <2>3 DEF OrderInv, Passed, Begun, Late
<1>2. CASE PrepareChange
  <2>1. /\ UNCHANGED <<input, approved, runs, work, late>>
        /\ (plan # <<>> /\ high' = high) \/ plan = <<>>
    BY <1>2, PrepareCases DEF mutation
  <2>2. ApprovedBeforeMutation' /\ LateApproved'
    BY <2>1, NothingStarted, ApprovalsKept, LateKept, LateSame DEF Started
  <2>3. Range(plan') \subseteq Change
    BY PlanChanges DEF TypeOK
  <2>4. ASSUME NEW c \in Range(plan'), GivenUp(c) PROVE OrderInv'
    <3>1. /\ Moves(c, "needs_attention", results[c].attempt) /\ node' = "escalate"
          /\ results[c].status = "failed" /\ c \in Change
      BY <2>3, <2>4 DEF GivenUp
    <3>2. ~Passed(c) /\ (c \in Range(Planned) => \A d \in Deps[c] : Passed(d))
      BY <3>1 DEF Passed, OrderInv
    <3> QED
      BY <2>1, <2>2, <3>1, <3>2, DependenciesKept DEF OrderInv
  <2>5. ASSUME NEW c \in Range(plan'), NEW n \in 1..6, Selects(c, n) PROVE OrderInv'
    <3>1. Moves(c, "running", n) /\ c \in Change
      BY <2>3, <2>5 DEF Selects
    <3>2. ~Passed(c) /\ (c \in Range(Planned) => \A d \in Deps[c] : Passed(d))
      BY <2>5, ConstantsAssumption DEF Selects, Passed, OrderInv, DepsOf
    <3>3. \A d \in Change : Running(d)' => d = c
      <4>1. node = "prepare_change"
        BY <1>2, PrepareCases
      <4> QED
        BY <3>1, <4>1 DEF Moves, Running, ChangeInv, ChangeNodes
    <3>4. node' \in {"mutate", "evidence"} => ~NeedsApproval(c)'
      BY <2>1, <2>5 DEF Selects, NeedsApproval
    <3> QED
      BY <2>1, <2>2, <3>1, <3>2, <3>3, <3>4, DependenciesKept DEF OrderInv
  <2>6. CASE Leaves
    BY <2>1, <2>2, <2>6 DEF Leaves, OrderInv, Passed, Begun, Late
  <2> QED
    BY <1>2, <2>4, <2>5, <2>6, PrepareCases
<1>3. ASSUME node \in ChangeNodes, NEW st \in {"passed", "failed", "needs_attention"},
             results' = [results EXCEPT ![Current].status = st],
             node' = "prepare_change", UNCHANGED <<input, high, runs, work, late>>,
             approved \subseteq approved'
      PROVE  OrderInv'
  <2>1. Moves(Current, st, results[Current].attempt)
    BY <1>3, CurrentLeaves
  <2>2. ~Passed(Current) /\ Current \in Change
    BY <1>3, CurrentRuns DEF Passed, Running
  <2>3. Current \in Range(Planned) => \A d \in Deps[Current] : Passed(d)
    BY <1>3, CurrentRuns DEF OrderInv, Running
  <2>4. ApprovedBeforeMutation' /\ LateApproved'
    BY <1>3, ApprovalsKept, LateKept, LateSame DEF Started
  <2> QED
    BY <1>3, <2>1, <2>2, <2>3, <2>4, DependenciesKept DEF OrderInv
<1>4. CASE Evidence
  <2>1. PICK st \in {"passed", "failed"} : results' = [results EXCEPT ![Current].status = st]
    BY <1>4 DEF Evidence
  <2>2. /\ node = "evidence" /\ node' = "prepare_change"
        /\ UNCHANGED <<input, high, approved, runs, work, late>>
    BY <1>4 DEF Evidence, At, Goto, mutation
  <2> QED
    BY <1>3, <2>1, <2>2 DEF ChangeNodes
<1>5. CASE Decision
  <2>1. PICK c \in Change, n \in 1..6, action \in {"approve", "reject"} : Decide(<<c, n>>, action)
    BY <1>5 DEF Decision
  <2>2. /\ UNCHANGED <<input, high, runs, work, late>> /\ approved \subseteq approved'
        /\ node \in {"paused", "mutate", "evidence"}
    BY <2>1 DEF Decide, InterruptPending, mutation
  <2>3. CASE /\ node = "paused" /\ node' = "prepare_change"
             /\ results' = [results EXCEPT ![Current].status = "needs_attention"]
    BY <1>3, <2>2, <2>3 DEF ChangeNodes
  <2>4. CASE results' = results /\ node # "paused" /\ node' = node
    <3>1. ApprovedBeforeMutation' /\ LateApproved'
      BY <2>2, ApprovalsKept, LateKept, LateSame DEF Started
    <3> QED
      BY <2>2, <2>4, <3>1 DEF OrderInv, Passed, Running, NeedsApproval, Binding, Begun, Late
  <2>5. CASE results' = results /\ node = "paused" /\ action = "approve"
    <3>1. Binding(Current) \in approved'
      BY <2>1, <2>5 DEF Decide, DecisionMatches
    <3>2. \A d \in Change : Running(d)' => d = Current /\ Binding(d)' = Binding(d)
      BY <2>5, CurrentRuns DEF Running, Binding, ChangeNodes
    <3>3. ApprovedBeforeMutation' /\ LateApproved'
      BY <2>2, ApprovalsKept, LateKept, LateSame DEF Started
    <3> QED
      BY <2>2, <2>5, <3>1, <3>2, <3>3 DEF OrderInv, Passed, Begun, Late
  <2> QED
    BY <2>1, <2>3, <2>4, <2>5 DEF Decide
<1>6. CASE ClaimExecute
  <2>1. /\ UNCHANGED <<input, node, results, high, approved, runs, late>>
        /\ MutationNode /\ journal[CurrentKey] = "none" /\ work'.key = CurrentKey
    BY <1>6 DEF ClaimExecute, changes
  <2>2. CurrentKey \in Key
    BY <2>1, CurrentKeyType
  <2>3. runs[CurrentKey] = 0
    BY <2>1, <2>2 DEF WorkInv
  <2>4. ApprovedBeforeMutation' /\ LateApproved'
    BY <2>1, <2>3, ApprovalsKept, LateKept, LateSame DEF Started
  <2> QED
    BY <2>1, <2>4 DEF OrderInv, Passed, Running, NeedsApproval, Binding, Begun, Late
<1>7. CASE WorkerStarts
  <2>1. /\ UNCHANGED <<input, node, results, plan, high, approved, late>> /\ work # NoWork
        /\ runs' = [runs EXCEPT ![work.key] = @ + 1] /\ work \in Executions
        /\ work' = [work EXCEPT !.at = "running", !.base = tree]
    BY <1>7 DEF WorkerStarts, changes, TypeOK
  <2>2. work.key \in Key /\ work'.key = work.key
    BY <2>1 DEF Executions
  <2>3. MutationNode /\ work.key = CurrentKey
    BY <2>1 DEF WorkInv
  <2>4. \A k \in Key : k # CurrentKey => runs'[k] = runs[k]
    BY <2>1, <2>2, <2>3 DEF TypeOK
  <2>5. \A c \in Change, n \in MaxIterations : <<c, n>> \in Key
    BY DEF Key
  <2>8. ASSUME NEW c \in Change, NEW n \in MaxIterations, Begun(<<c, n>>)'
        PROVE  results[c].status # "none"
    <3>1. CASE <<c, n>> = CurrentKey
      BY <2>3, <3>1, CurrentApproved
    <3>2. CASE <<c, n>> # CurrentKey
      BY <2>1, <2>4, <2>5, <2>8, <3>2 DEF OrderInv, Begun, Late
    <3> QED
      BY <3>1, <3>2
  <2>9. ASSUME NEW c \in Change, NEW n \in MaxIterations, runs'[<<c, n>>] > 0,
               c \in high' \/ (input'.approval /\ (Reuse => Started(<<c, n>>)')),
               c = Aggregate => n = 0
        PROVE  <<c, n + 1>> \in approved'
    <3>1. CASE <<c, n>> = CurrentKey
      BY <2>1, <2>3, <2>9, <3>1, CurrentApproved
    <3>2. CASE <<c, n>> # CurrentKey
      <4>1. runs[<<c, n>>] > 0 /\ (Started(<<c, n>>)' => Started(<<c, n>>))
        BY <2>1, <2>2, <2>4, <2>5, <2>9, <3>2 DEF Started
      <4> QED
        BY <2>1, <2>9, <4>1 DEF OrderInv, ApprovedBeforeMutation
    <3> QED
      BY <3>1, <3>2
  <2>10. ApprovedBeforeMutation' /\ LateApproved'
    BY <2>1, <2>9, LateKept, LateSame DEF ApprovedBeforeMutation
  <2> QED
    BY <2>1, <2>8, <2>10 DEF OrderInv, Passed, Running, NeedsApproval, Binding
<1>8. CASE RunAgain
  <2>1. /\ UNCHANGED <<results, high, approved, runs, work, late>> /\ node' = "classify"
        /\ Reuse /\ ~alive
    BY <1>8 DEF RunAgain, changes
  <2>2. work = NoWork
    BY <2>1 DEF WorkInv
  <2>3. ApprovedBeforeMutation'
    BY <2>1, <2>2 DEF OrderInv, ApprovedBeforeMutation, Started
  <2>4. LateApproved'
    BY <2>1 DEF OrderInv, LateApproved, Late
  <2> QED
    BY <2>1, <2>3, <2>4 DEF OrderInv, Passed, Begun, Late
<1>9. CASE WorkerPublishes \/ WorkerCompletes
  <2>1. /\ UNCHANGED <<input, node, results, high, approved, runs, late>> /\ work # NoWork
        /\ \E l \in {"published", "completed"} : work' = [work EXCEPT !.at = l]
    BY <1>9 DEF WorkerPublishes, WorkerCompletes, changes
  <2>2. work \in Executions
    BY <2>1 DEF TypeOK
  <2>3. work'.key = work.key
    BY <2>1, <2>2 DEF Executions
  <2>4. ApprovedBeforeMutation' /\ LateApproved'
    BY <2>1, <2>3, ApprovalsKept, LateKept, LateSame DEF Started
  <2> QED
    BY <2>1, <2>4 DEF OrderInv, Passed, Running, NeedsApproval, Binding, Begun, Late
<1>10. CASE ~ChangesActs /\ ~RunAgain /\ ~WorkerActs /\ ~NodeTimeout
              /\ ~(\E w \in late : LateWorker(w))
  <2>1. UNCHANGED <<input, results, high, approved>>
    BY <1>10, Frames DEF changes
  <2>2. runs' = runs /\ work' \in {work, NoWork} /\ late' \subseteq late
    BY <1>10, Frames DEF MutationActs, StopActs, Stop, WorkerConflicts, ScopeFails, mutation
  <2>3. node' \in {"mutate", "evidence"} => node \in {"mutate", "evidence"}
    BY <1>10 DEF ChangesActs, WorkerActs, Next, Run, Analyse, Mutate, Conclude, Fails, Interrupted,
       Classify, Dispatch, Specialist, Collect, Pause, ClaimRecorded, CommitMutation, Verify,
       VerifyRoute, Diagnose, Synthesize, Escalate, Finish, Halt, OutOfSteps, CollectFails, Stop,
       WorkerConflicts, ScopeFails, Resume, Goto, vars
  <2>4. \A k \in Key : Late(k)' => Late(k)
    BY <2>2 DEF Late
  <2> QED
    BY <2>1, <2>2, <2>3, <2>4, OrderFrame
<1>11. CASE WorkerCommits
  <2>1. UNCHANGED <<input, results, high, approved, runs, late>> /\ work' = NoWork
    BY <1>11 DEF WorkerCommits, changes
  <2>2. node' \in {"mutate", "evidence"} => node \in {"mutate", "evidence"}
    BY <1>11 DEF WorkerCommits, CommitMutation, Goto
  <2> QED
    BY <2>1, <2>2, OrderFrame, LateSame
<1>12. CASE NodeTimeout
  <2>1. /\ UNCHANGED <<input, node, results, high, approved, runs>> /\ work' = NoWork
        /\ MutationNode
    BY <1>12 DEF NodeTimeout, Halt, changes
  <2>2. \A w \in late' : w \in late \/ w.key = CurrentKey
    BY <1>12 DEF NodeTimeout, WorkInv
  <2>3. \A k \in Key : Late(k)' => Late(k) \/ k = CurrentKey
    BY <2>2 DEF Late
  <2>4. \A c \in Change, n \in MaxIterations : <<c, n>> \in Key
    BY DEF Key
  <2>5. \A c \in Change, n \in MaxIterations : Begun(<<c, n>>)' => results[c].status # "none"
    BY <2>1, <2>3, <2>4, CurrentApproved DEF Begun, OrderInv
  <2>6. LateApproved'
    BY <2>1, <2>3, <2>4, CurrentApproved DEF LateApproved, OrderInv
  <2>7. ApprovedBeforeMutation'
    BY <2>1, ApprovalsKept DEF Started
  <2> QED
    BY <2>1, <2>5, <2>6, <2>7 DEF OrderInv, Passed, Running, NeedsApproval, Binding
<1>13. CASE \E w \in late : LateWorker(w)
  <2>1. PICK w \in late : LateWorker(w)
    BY <1>13
  <2>2. LateMoves(w) /\ UNCHANGED <<input, node, results, high, approved, work>>
    BY <2>1, LateCases DEF changes
  <2>3. w \in Executions /\ w.key \in Key /\ tree \in Nat
    BY ExecutionGoesOn DEF TypeOK
  <2>4. \A v \in late' : v \in late \/ v.key = w.key
    <3>1. \A l \in {"claimed", "running", "published"} :
            [w EXCEPT !.at = l, !.base = tree].key = w.key
      BY <2>3 DEF Executions
    <3>2. GivesUp(w) \/ \E l \in {"claimed", "running", "published"} : GoesOn(w, l)
      BY <2>2 DEF LateMoves, LateClaim, LateStart, LateCompletion
    <3>3. CASE GivesUp(w)
      BY <3>3 DEF GivesUp
    <3>4. ASSUME NEW l \in {"claimed", "running", "published"}, GoesOn(w, l)
          PROVE  \A v \in late' : v \in late \/ v.key = w.key
      BY <3>1, <3>4 DEF GoesOn
    <3> QED
      BY <3>2, <3>3, <3>4
  <2>5. \A k \in Key : Late(k)' => Late(k)
    BY <2>4 DEF Late
  <2>6. \A k \in Key : runs'[k] = runs[k] \/ k = w.key
    BY <2>2, <2>3 DEF LateMoves, LateClaim, LateStart, LatePublication, LateCompletion, TypeOK
  <2>7. Late(w.key)
    BY DEF Late
  <2>8. \A c \in Change, n \in MaxIterations : <<c, n>> \in Key
    BY DEF Key
  <2>9. \A c \in Change, n \in MaxIterations : Begun(<<c, n>>)' => Begun(<<c, n>>)
    BY <2>5, <2>6, <2>7, <2>8 DEF Begun
  <2>10. LateApproved'
    BY <2>2, <2>5, LateKept
  <2>11. ASSUME NEW c \in Change, NEW n \in MaxIterations, runs'[<<c, n>>] > 0,
                c \in high' \/ (input'.approval /\ (Reuse => Started(<<c, n>>)')),
                c = Aggregate => n = 0
         PROVE  <<c, n + 1>> \in approved'
    <3>1. CASE runs[<<c, n>>] > 0
      BY <2>2, <2>11, <3>1 DEF OrderInv, ApprovedBeforeMutation, Started
    <3>2. CASE ~(runs[<<c, n>>] > 0)
      <4>1. LateStart(w) /\ <<c, n>> = w.key
        BY <2>2, <2>3, <2>6, <2>8, <2>11, <3>2
           DEF LateMoves, LateClaim, LatePublication, LateCompletion
      <4>2. work # NoWork => work.key # w.key
        BY <2>1, <4>1 DEF LateStart, WorkInv
      <4>3. c \in high \/ (input.approval /\ ~Reuse)
        BY <2>2, <2>11, <4>1, <4>2 DEF Started
      <4> QED
        BY <2>2, <2>7, <2>11, <4>1, <4>3 DEF OrderInv, LateApproved
    <3> QED
      BY <3>1, <3>2
  <2>12. ApprovedBeforeMutation'
    BY <2>11 DEF ApprovedBeforeMutation
  <2> QED
    BY <2>2, <2>9, <2>10, <2>12 DEF OrderInv, Passed, Running, NeedsApproval, Binding
<1> QED
  BY <1>1, <1>2, <1>4, <1>5, <1>6, <1>7, <1>8, <1>9, <1>10, <1>11, <1>12, <1>13
     DEF ChangesActs, WorkerActs

-----------------------------------------------------------------------------
\* Discovery

\* The fan-out stays within its bounds and leaves no item unanalysed.
LEMMA ReplanningStep ==
  ASSUME TypeOK, TypeOK', ReplanningIsBounded, [Next]_vars
  PROVE  ReplanningIsBounded'
<1> DEFINE Fan == {"classify", "discover", "dispatch", "specialist", "collect"}
<1>0. /\ items \subseteq Item /\ IsFiniteSet(items) /\ Cardinality(items) \in Nat
      /\ Cardinality(items) <= MaxItems /\ MaxItems \in Nat /\ IsFiniteSet(Item)
      /\ round' <= MaxRounds
  BY FS_Subset, FS_CardinalityType, ConstantsAssumption DEF TypeOK, ReplanningIsBounded,
     MaxRounds
<1>1. CASE Discover
  <2>1. Cardinality(items') <= MaxItems /\ node' \in Fan
    BY <1>1 DEF Discover, Goto
  <2> QED
    BY <1>0, <2>1 DEF ReplanningIsBounded
<1>2. CASE Dispatch
  <2>1. /\ UNCHANGED <<items, found>> /\ sent' = items \ found
        /\ sent' # {} => node' \in Fan
    BY <1>2 DEF Dispatch, Unanalysed, Goto
  <2> QED
    BY <1>0, <2>1 DEF ReplanningIsBounded
<1>3. CASE \E i \in Item : Specialist(i)
  <2>1. items' = items /\ node' \in Fan
    BY <1>3 DEF Specialist, At, Goto
  <2> QED
    BY <1>0, <2>1 DEF ReplanningIsBounded
<1>4. CASE Collect
  <2>1. PICK S \in SUBSET Additions :
          /\ Cardinality(S) = IF Cardinality(Additions) < Capacity
                                THEN Cardinality(Additions) ELSE Capacity
          /\ items' = items \cup S
    BY <1>4 DEF Collect
  <2>2. Additions \subseteq Item
    BY DEF Additions, TypeOK
  <2>3. IsFiniteSet(Additions) /\ IsFiniteSet(S) /\ Cardinality(Additions) \in Nat
    BY <1>0, <2>1, <2>2, FS_Subset, FS_CardinalityType
  <2>4. Cardinality(S) <= MaxItems - Cardinality(items) /\ Cardinality(S) \in Int
    BY <1>0, <2>1, <2>3 DEF Capacity
  <2>5. IsFiniteSet(items \cap S) /\ Cardinality(items \cap S) \in Nat
    BY <1>0, FS_Subset, FS_CardinalityType
  <2>6. Cardinality(items') = Cardinality(items) + Cardinality(S) - Cardinality(items \cap S)
    BY <1>0, <2>1, <2>3, FS_Union
  <2>7. Cardinality(items') <= MaxItems
    BY <1>0, <2>4, <2>5, <2>6
  <2>8. node' \in Fan
    BY <1>4 DEF Collect, Goto
  <2> QED
    BY <1>0, <2>7, <2>8 DEF ReplanningIsBounded
<1>5. CASE RunAgain
  <2>1. items' = {} /\ node' \in Fan
    BY <1>5 DEF RunAgain
  <2> QED
    BY <1>0, <2>1, FS_EmptySet DEF ReplanningIsBounded
<1>6. CASE ~DiscoveryActs
  <2>1. UNCHANGED <<items, found>>
    BY <1>6, Frames DEF discovery
  <2>2. node' \in Fan \/ node \notin Fan
    BY <1>6 DEF DiscoveryActs, Next, Run, Analyse, Mutate, Conclude, Fails, Interrupted,
       Classify, PrepareChange, Pause, ClaimExecute, ClaimRecorded, CommitMutation, WorkerStarts,
       WorkerPublishes, WorkerCompletes, WorkerCommits, Evidence, Verify, Diagnose, Synthesize,
       Escalate, Finish, Halt, OutOfSteps, CollectFails, Stop, WorkerConflicts,
       ScopeFails, NodeTimeout,
       Resume, Decision, Decide, InterruptPending, LateWorker, At, Goto, vars
  <2> QED
    BY <1>0, <2>1, <2>2 DEF ReplanningIsBounded
<1> QED
  BY <1>1, <1>2, <1>3, <1>4, <1>5, <1>6 DEF DiscoveryActs

-----------------------------------------------------------------------------
\* Theorems

\* The inductive invariant holds of every run of the graph.
THEOREM WorkflowInvariant == Spec => []IInv
<1>1. Init => IInv
  <2> SUFFICES ASSUME Init PROVE IInv
    OBVIOUS
  <2>1. [status |-> "none", attempt |-> 0] \in Results
    BY DEF Results
  <2>2. TypeOK
    <3>1. ControlType
      BY DEF Init, ControlType, Nodes
    <3>2. DiscoveryType
      BY DEF Init, DiscoveryType, MaxRounds
    <3>3. ChangesType
      BY <2>1 DEF Init, ChangesType
    <3>4. MutationType
      BY DEF Init, MutationType
    <3>5. OutcomeType
      <4>1. iteration \in MaxIterations
        BY DEF Init, MaxIterations
      <4>2. verified \in {"none", "pass", "fail"}
        BY DEF Init
      <4>3. green \in Int
        BY DEF Init
      <4>4. slipped \in BOOLEAN
        BY Zenon DEF Init
      <4> QED
        BY <4>1, <4>2, <4>3, <4>4 DEF OutcomeType
    <3> QED
      BY <3>1, <3>2, <3>3, <3>4, <3>5, TypeGroups
  <2>3. \A c \in Change : results[c].status = "none"
    BY DEF Init
  <2>4. Range(<<>>) = {}
    BY PlanChanges
  <2>5. ChangeInv
    BY <2>3, <2>4 DEF Init, ChangeInv, ChangeNodes, Running
  <2>6. VerifyInv /\ VerifiedUnlessLate
    BY DEF Init, VerifyInv, VerifyNodes, VerifiedUnlessLate
  <2>7. \A k \in Key : runs[k] = 0
    BY DEF Init
  <2>8. WorkInv
    BY <2>7 DEF Init, WorkInv
  <2>9. \A c \in Change, n \in MaxIterations : runs[<<c, n>>] = 0
    BY <2>7 DEF Key
  <2>10. OrderInv
    <3>1. Range(Planned) \subseteq Change
      BY DEF Change
    <3> QED
      BY <2>3, <2>9, <3>1
         DEF Init, OrderInv, ApprovedBeforeMutation, LateApproved, Begun, Late
  <2>11. ReplanningIsBounded
    BY FS_EmptySet, ConstantsAssumption DEF Init, ReplanningIsBounded, MaxRounds
  <2> QED
    BY <2>2, <2>5, <2>6, <2>8, <2>10, <2>11 DEF IInv
<1>2. IInv /\ [Next]_vars => IInv'
  BY TypeStep, ChangeStep, VerifyStep, WorkStep, OrderStep, ReplanningStep DEF IInv
<1> QED
  BY <1>1, <1>2, PTL DEF Spec

\* Every variable keeps its type: no superstep goes beyond the recursion limit,
\* no repair and no attempt beyond the repair bound.
THEOREM TypeCorrect == Spec => []TypeOK
<1>1. IInv => TypeOK
  BY DEF IInv
<1> QED
  BY <1>1, WorkflowInvariant, PTL

\* Whatever crashes, timeouts, late workers and resumes do, executeMutation
\* starts at most one worker for a logical operation.
THEOREM OneWorkerPerOperation == Spec => []AtMostOncePerOperation
<1>1. IInv => AtMostOncePerOperation
  BY DEF IInv, WorkInv, AtMostOncePerOperation
<1> QED
  BY <1>1, WorkflowInvariant, PTL

\* No attempt at a change that needs approval is worked on before the user
\* approved exactly that attempt.
THEOREM ApprovalComesFirst == Spec => []ApprovedBeforeMutation
<1>1. IInv => ApprovedBeforeMutation
  BY DEF IInv, OrderInv
<1> QED
  BY <1>1, WorkflowInvariant, PTL

\* Work on a planned change starts after everything it depends on has passed,
\* and what has passed stays so.
THEOREM DependenciesComeFirst == Spec => []DependenciesFirst
<1>1. IInv => DependenciesFirst
  <2>1. Range(Planned) \subseteq Change
    BY DEF Change
  <2> QED
    BY <2>1 DEF IInv, OrderInv, DependenciesFirst, Begun
<1> QED
  BY <1>1, WorkflowInvariant, PTL

\* A delivery that is reported completed was verified by the host, on the tree
\* the user has unless a late worker published since.
THEOREM CompletedIsVerified == Spec => []VerifiedUnlessLate
<1>1. IInv => VerifiedUnlessLate
  BY DEF IInv
<1> QED
  BY <1>1, WorkflowInvariant, PTL

\* The fan-out stays within the cap and the rounds, and no item is left out.
THEOREM ReplanningStaysBounded == Spec => []ReplanningIsBounded
<1>1. IInv => ReplanningIsBounded
  BY DEF IInv
<1> QED
  BY <1>1, WorkflowInvariant, PTL

\* Every step of the workflow is one the mutation journal allows, or none that
\* it sees: entries are claimed, granted and completed in its order, by workers
\* in their node as well as by those that outlive it.
THEOREM WorkflowImplementsJournal == Spec => ImplementsJournal
<1>1. Init => Journal!Init
  BY DEF Init, Journal!Init
<1>2. IInv /\ [Next]_vars => [TRUE' => Journal!Next]_(Journal!vars)
  <2> SUFFICES ASSUME IInv, [Next]_vars, journal' # journal \/ runs' # runs
               PROVE  Journal!Next
    BY DEF Journal!vars
  <2>0. MutationType /\ TypeOK /\ ChangeInv /\ VerifyInv /\ WorkInv
    BY TypeGroups DEF IInv
  <2>1. CASE ClaimExecute
    <3>1. CurrentKey \in Key
      BY <2>0, <2>1, CurrentKeyType DEF ClaimExecute
    <3>2. Journal!Start(CurrentKey)
      BY <2>1 DEF ClaimExecute, Journal!Start
    <3> QED
      BY <3>1, <3>2 DEF Journal!Next
  <2>2. CASE WorkerStarts
    <3>1. work \in Executions /\ work.key \in Key
      BY <2>0, <2>2 DEF WorkerStarts, MutationType, Executions
    <3>2. journal[work.key] = "started" /\ runs[work.key] = 0
      BY <2>0, <2>2 DEF WorkerStarts, WorkInv
    <3>3. runs' = [runs EXCEPT ![work.key] = 1] /\ journal' = journal
      BY <2>0, <2>2, <3>1, <3>2 DEF WorkerStarts, MutationType
    <3>4. Journal!Grant(work.key)
      BY <3>2, <3>3 DEF Journal!Grant
    <3> QED
      BY <3>1, <3>4 DEF Journal!Next
  <2>3. CASE WorkerCompletes
    <3>1. work \in Executions /\ work.key \in Key
      BY <2>0, <2>3 DEF WorkerCompletes, MutationType, Executions
    <3>2. Journal!Complete(work.key)
      BY <2>0, <2>3 DEF WorkerCompletes, WorkInv, Journal!Complete
    <3> QED
      BY <3>1, <3>2 DEF Journal!Next
  <2>4. CASE \E w \in late : LateWorker(w)
    <3>1. PICK w \in late : LateWorker(w)
      BY <2>4
    <3>2. w.key \in Key /\ LateInv(w) /\ LateMoves(w)
      BY <2>0, <3>1, LateCases DEF MutationType, Executions, WorkInv
    <3>3. CASE LateClaim(w) /\ journal[w.key] = "none"
      <4>1. Journal!Start(w.key)
        BY <3>3 DEF LateClaim, Journal!Start
      <4> QED
        BY <3>2, <4>1 DEF Journal!Next
    <3>4. CASE LateStart(w)
      <4>1. journal[w.key] = "started" /\ runs[w.key] = 0
        BY <3>2, <3>4 DEF LateStart, LateInv
      <4>2. runs' = [runs EXCEPT ![w.key] = 1] /\ journal' = journal
        BY <2>0, <3>2, <3>4, <4>1 DEF LateStart, MutationType
      <4>3. Journal!Grant(w.key)
        BY <4>1, <4>2 DEF Journal!Grant
      <4> QED
        BY <3>2, <4>3 DEF Journal!Next
    <3>5. CASE LateCompletion(w)
      <4>1. journal[w.key] = "started" /\ runs[w.key] = 1
        BY <3>2, <3>5 DEF LateCompletion, LateInv
      <4>2. Journal!Complete(w.key)
        BY <3>5, <4>1 DEF LateCompletion, Journal!Complete
      <4> QED
        BY <3>2, <4>2 DEF Journal!Next
    <3> QED
      BY <3>2, <3>3, <3>4, <3>5 DEF LateMoves, LatePublication
  <2>5. CASE WorkerPublishes \/ WorkerCommits \/ StopActs \/ UNCHANGED mutation
    BY <2>5 DEF WorkerPublishes, WorkerCommits, StopActs, Stop, WorkerConflicts, ScopeFails,
                NodeTimeout,
                mutation
  <2> QED
    BY <2>1, <2>2, <2>3, <2>4, <2>5, Frames DEF MutationActs, WorkerActs
<1> QED
  BY <1>1, <1>2, WorkflowInvariant, PTL DEF Spec, ImplementsJournal, Journal!Spec
=============================================================================
