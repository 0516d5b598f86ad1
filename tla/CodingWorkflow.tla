---------------------------- MODULE CodingWorkflow ----------------------------
(***************************************************************************)
(* The coding graph of src/workflow: discovery, the specialist fan-out and *)
(* its bounded replanning, the planned changes with their approval         *)
(* interrupts, the mutation claims, verification, diagnosis and repair,    *)
(* and the run and resume entry points around it.                          *)
(*                                                                         *)
(* A node commits when LangGraph has saved the checkpoint that follows it. *)
(* A run that stops (crash, worker failure, timeout, pause, step limit)    *)
(* leaves the committed state and the mutation journal, and a resume       *)
(* executes the uncommitted node again.  What a worker answers and whether *)
(* a host check passes are inputs.                                         *)
(***************************************************************************)
EXTENDS Integers, FiniteSets, Sequences, Functions

CONSTANTS
    Item,           \* work items
    Named,          \* bound: the items workers name in a workflow of each pattern
    MaxItems,       \* MAX_WORK_ITEMS
    MaxProposals,   \* bound: items one specialist proposes
    Planned,        \* the changes of a worker's plan, in plan order
    Deps,           \* dependsOn of the planned changes
    HighRisk,       \* planned changes of risk level "high"
    Checked,        \* planned changes with acceptance checks of their own
    Aggregate,      \* the change of the plan made when discovery gave none
    NoWork,         \* no mutating worker is running
    Inputs,         \* parsed inputs: pattern, maxIterations, approval, and
                    \* whether the extension's dispatcher runs and resumes
    MaxLate,        \* bound: workers at a time that outlive their node's timeout
    Reuse,          \* a finished thread may get a new objective
    Crashes         \* the run may stop inside any node: the process dies,
                    \* or a worker, a script or the journal fails

MaxRounds == 2
Change == Range(Planned) \cup {Aggregate}
MaxIterations == 0..5

(* One logical mutation: change and repair number (mutationKey).           *)
Key == Change \X MaxIterations

ASSUME ConstantsAssumption ==
    /\ IsFiniteSet(Item) /\ Named \in [{"review", "delivery"} -> SUBSET Item]
    /\ MaxItems \in Nat \ {0} /\ MaxProposals \in Nat
    /\ Planned \in Seq(Range(Planned)) /\ Aggregate \notin Range(Planned)
    /\ \A i, j \in DOMAIN Planned : Planned[i] = Planned[j] => i = j
    /\ Deps \in [Range(Planned) -> SUBSET Range(Planned)]
    /\ HighRisk \subseteq Range(Planned) /\ Checked \subseteq Range(Planned)
    /\ Inputs \subseteq [pattern : {"review", "delivery"}, max : MaxIterations,
                         approval : BOOLEAN, dispatched : BOOLEAN]
    /\ MaxLate \in Nat /\ {Reuse, Crashes} \subseteq BOOLEAN

VARIABLES
    input,      \* the compiled workflow
    node,       \* the node to execute next
    alive,      \* an invocation of the graph is running
    steps,      \* supersteps it has used
    status,
    items, found, proposes, sent, round,        \* discovery
    plan, high, results,                        \* planned changes
    iteration, verified,                        \* integration repair loop
    journal,    \* journal[k]: durable entry of mutation k
    runs,       \* runs[k]: times a worker was started for k
    work,       \* the mutating worker of the current node
    late,       \* workers that go on after their node timed out
    unscoped,   \* completed mutations that report files outside their scope
    tree,       \* publications into the live repository
    green,      \* the tree the last passing host verification saw
    approved,   \* interrupt bindings the user approved
    bound,      \* the tree whose snapshot the thread's replay binding names
    slipped     \* history: a late worker published since the last passing
                \*   host verification

discovery == <<items, found, proposes, sent, round>>
changes   == <<plan, high, results, approved>>
mutation  == <<journal, runs, work, late, unscoped, tree>>
outcome   == <<iteration, verified, green, bound, slipped>>
vars == <<input, node, alive, steps, status, discovery, changes, mutation, outcome>>

Nodes == {"classify", "discover", "dispatch", "specialist", "collect",
          "prepare_change", "approve", "paused", "mutate", "evidence", "verify",
          "diagnose", "repair", "synthesize", "escalate", "end"}

(* workflowRecursionLimit                                                  *)
Limit == IF 12 + 4 * input.max < 32 THEN 12 + 4 * input.max ELSE 32

At(n) == alive /\ node = n /\ steps < Limit
Goto(n) == node' = n /\ steps' = steps + 1

-----------------------------------------------------------------------------
(* runCodingWorkflow on a new thread                                       *)
Init ==
    /\ input \in Inputs
    /\ node = "classify" /\ alive = TRUE /\ steps = 0 /\ status = "running"
    /\ items = {} /\ found = {} /\ sent = {} /\ round = 0
    /\ proposes = [i \in Item |-> {}]
    /\ plan = <<>> /\ high = {} /\ approved = {}
    /\ results = [c \in Change |-> [status |-> "none", attempt |-> 0]]
    /\ iteration = 0 /\ verified = "none" /\ green = -1 /\ bound = 0
    /\ slipped = FALSE
    /\ journal = [k \in Key |-> "none"]
    /\ runs = [k \in Key |-> 0]
    /\ work = NoWork /\ late = {} /\ unscoped = {} /\ tree = 0

(* classifyNode                                                            *)
Classify ==
    /\ At("classify")
    /\ status' = "running"
    /\ Goto("discover")
    /\ UNCHANGED <<input, alive, discovery, changes, mutation, outcome>>

(* createDiscoverNode: work items and, when the worker gives one and the   *)
(* thread has none yet, a plan.                                            *)
Discover ==
    /\ At("discover")
    /\ items' \in {S \in SUBSET Named[input.pattern] :
                       S # {} /\ Cardinality(S) <= MaxItems}
    /\ plan' \in IF plan = <<>> THEN {<<>>, Planned} ELSE {plan}
    /\ high' = IF plan' = Planned THEN HighRisk ELSE high
    /\ Goto("dispatch")
    /\ UNCHANGED <<input, alive, status, found, proposes, sent, round, results,
                   approved, mutation, outcome>>

(* Mutant: an item that has its finding is sent again.                     *)
EveryItem == items
Unanalysed == items \ found

(* dispatchNode and routeDispatch: one Send per item without a finding.    *)
Dispatch ==
    /\ At("dispatch")
    /\ sent' = Unanalysed
    /\ Goto(CASE sent' # {} -> "specialist"
              [] sent' = {} /\ input.pattern = "review" -> "synthesize"
              [] OTHER -> "prepare_change")
    /\ UNCHANGED <<input, alive, status, items, found, proposes, round, changes,
                   mutation, outcome>>

(* createSpecialistNode: the finding of each finished sibling is kept as a *)
(* pending write; the superstep ends with the last of them.                *)
Specialist(i) ==
    /\ At("specialist")
    /\ i \in sent \ found
    /\ \E S \in SUBSET Named[input.pattern] :
          /\ Cardinality(S) <= MaxProposals
          /\ proposes' = [proposes EXCEPT ![i] = S]
    /\ found' = found \cup {i}
    /\ IF sent \subseteq found' THEN Goto("collect") ELSE UNCHANGED <<node, steps>>
    /\ UNCHANGED <<input, alive, status, items, sent, round, changes, mutation, outcome>>

(* collectNode: proposals of all findings so far that are no item yet.     *)
Additions == (UNION {proposes[i] : i \in found}) \ items
(* Mutant: the items there are already do not count.                       *)
FullCapacity == MaxItems
Capacity == MaxItems - Cardinality(items)
CollectThrows == Additions # {} /\ round >= MaxRounds

Collect ==
    /\ At("collect")
    /\ ~CollectThrows
    /\ \E S \in SUBSET Additions :
          /\ Cardinality(S) = IF Cardinality(Additions) < Capacity
                                THEN Cardinality(Additions) ELSE Capacity
          /\ items' = items \cup S
          /\ round' = IF S = {} THEN round ELSE round + 1
    /\ Goto("dispatch")
    /\ UNCHANGED <<input, alive, status, found, proposes, sent, changes, mutation, outcome>>

-----------------------------------------------------------------------------
(* The first change of the plan, in plan order, that is in S.              *)
First(S) == LET i == CHOOSE i \in DOMAIN plan' :
                        /\ plan'[i] \in S
                        /\ \A j \in 1..(i - 1) : plan'[j] \notin S
            IN plan'[i]

InStatus(s) == {c \in Range(plan) : results[c].status = s}
Current == CHOOSE c \in InStatus("running") : TRUE
Passed(c) == results[c].status = "passed"
(* Mutant: dependencies are not looked at.                                 *)
NoDeps(c) == {}
DepsOf(c) == IF c = Aggregate THEN {} ELSE Deps[c]
IsAggregate == plan = <<Aggregate>>

(* A failed change is tried again while its attempts are within the        *)
(* repair bound.  Mutant: the attempt number is not advanced.              *)
Exhausted(c) == results[c].attempt > input.max
NextAttempt(c) == results[c].attempt + 1

(* interruptForChange                                                      *)
NeedsApproval(c) == input.approval \/ c \in high

(* selectChange, then routePreparedChange and the approve node's shortcut  *)
(* when there is no interrupt.                                             *)
SelectChange(c, attempt) ==
    /\ results' = [results EXCEPT ![c] = [status |-> "running", attempt |-> attempt]]
    /\ IF input.approval \/ c \in high'
         THEN status' = "awaiting_approval" /\ Goto("approve")
         ELSE status' = "running" /\ Goto("mutate")

(* createPrepareChangeNode and routePreparedChange.  The aggregate plan is *)
(* of high risk when a finding names a risk.                               *)
PrepareChange ==
    /\ At("prepare_change")
    /\ \/ plan # <<>> /\ plan' = plan /\ high' = high
       \/ plan = <<>> /\ plan' = <<Aggregate>> /\ high' \in {{}, {Aggregate}}
    /\ LET failed == {c \in Range(plan') : results[c].status = "failed"}
           ready == {c \in Range(plan') : results[c].status = "none"
                                            /\ \A d \in DepsOf(c) : Passed(d)}
           running == {c \in Range(plan') : results[c].status = "running"}
       IN CASE failed # {} /\ Exhausted(First(failed)) ->
                  /\ results' = [results EXCEPT ![First(failed)].status = "needs_attention"]
                  /\ Goto("escalate") /\ UNCHANGED status
            [] failed # {} /\ ~Exhausted(First(failed)) ->
                  SelectChange(First(failed), NextAttempt(First(failed)))
            [] failed = {} /\ ready # {} ->
                  SelectChange(First(ready), 1)
            [] OTHER ->
                  /\ Goto(CASE running # {} -> "mutate"
                            [] running = {} /\ (\A c \in Range(plan') : Passed(c)) -> "verify"
                            [] OTHER -> "escalate")
                  /\ UNCHANGED <<results, status>>
    /\ UNCHANGED <<input, alive, discovery, approved, mutation, outcome>>

(* approvalNode: interrupt() ends the stream until a decision comes.  The  *)
(* interrupt is a pending write of the change's superstep.                 *)
Pause ==
    /\ At("approve")
    /\ node' = "paused" /\ alive' = FALSE
    /\ UNCHANGED <<input, steps, status, discovery, changes, mutation, outcome>>

-----------------------------------------------------------------------------
(* The mutation of the current node: attempt a of a planned change, or the *)
(* next repair of the aggregate change (mutationNode, createRepairNode).   *)
MutationNode == node \in {"mutate", "repair"}
CurrentKey == IF node = "repair" THEN <<Aggregate, iteration + 1>>
                                 ELSE <<Current, results[Current].attempt - 1>>

(* mutationNode commits to evidence, createRepairNode to verify.           *)
CommitMutation ==
    \/ /\ node = "mutate"
       /\ node' = "evidence" /\ UNCHANGED <<steps, iteration>>
    \/ /\ node = "repair"
       /\ Goto("verify") /\ iteration' = iteration + 1

(* Mutant: an operation without a recorded result is started again.        *)
ClaimUnlessCompleted ==
    /\ alive /\ MutationNode /\ steps < Limit /\ work = NoWork
    /\ journal[CurrentKey] # "completed"
    /\ journal' = [journal EXCEPT ![CurrentKey] = "started"]
    /\ work' = [key |-> CurrentKey, base |-> tree, at |-> "claimed"]
    /\ UNCHANGED <<input, node, alive, steps, status, discovery, changes,
                   runs, late, unscoped, tree, outcome>>

(* executeMutation, the claim: an operation without an entry gets one and *)
(* is answered "execute"; "replay" and "indeterminate" commit the node     *)
(* without a worker, unless the recorded report is out of scope.           *)
ClaimExecute ==
    /\ alive /\ MutationNode /\ steps < Limit /\ work = NoWork
    /\ journal[CurrentKey] = "none"
    /\ journal' = [journal EXCEPT ![CurrentKey] = "started"]
    /\ work' = [key |-> CurrentKey, base |-> tree, at |-> "claimed"]
    /\ UNCHANGED <<input, node, alive, steps, status, discovery, changes,
                   runs, late, unscoped, tree, outcome>>

ClaimRecorded ==
    /\ alive /\ MutationNode /\ steps < Limit /\ work = NoWork
    /\ journal[CurrentKey] # "none" /\ CurrentKey \notin unscoped
    /\ CommitMutation
    /\ UNCHANGED <<input, alive, status, discovery, changes, mutation, verified, green,
                   bound, slipped>>

(* execute: the isolated copy is taken and the worker started.             *)
WorkerStarts ==
    /\ alive /\ work # NoWork /\ work.at = "claimed"
    /\ runs' = [runs EXCEPT ![work.key] = @ + 1]
    /\ work' = [work EXCEPT !.at = "running", !.base = tree]
    /\ UNCHANGED <<input, node, alive, steps, status, discovery, changes,
                   journal, late, unscoped, tree, outcome>>

(* The worker's delta, which may be empty, is published when the tree is   *)
(* still the one the worker started from.                                  *)
WorkerPublishes ==
    /\ alive /\ work # NoWork /\ work.at = "running"
    /\ tree = work.base /\ tree' \in {tree, tree + 1}
    /\ work' = [work EXCEPT !.at = "published"]
    /\ UNCHANGED <<input, node, alive, steps, status, discovery, changes,
                   journal, runs, late, unscoped, outcome>>

(* completeMutation.  What the worker of a planned change reports may be   *)
(* out of scope; the dispatcher's executor has refused it before it was    *)
(* published (validateMutationOutput).                                     *)
Reports(k) ==
    \/ unscoped' = unscoped
    \/ ~input.dispatched /\ k[1] # Aggregate /\ unscoped' = unscoped \cup {k}

WorkerCompletes ==
    /\ alive /\ work # NoWork /\ work.at = "published"
    /\ journal' = [journal EXCEPT ![work.key] = "completed"]
    /\ work' = [work EXCEPT !.at = "completed"]
    /\ Reports(work.key)
    /\ UNCHANGED <<input, node, alive, steps, status, discovery, changes,
                   runs, late, tree, outcome>>

WorkerCommits ==
    /\ alive /\ work # NoWork /\ work.at = "completed" /\ work.key \notin unscoped
    /\ CommitMutation
    /\ work' = NoWork
    /\ UNCHANGED <<input, alive, status, discovery, changes,
                   journal, runs, late, unscoped, tree, verified, green, bound, slipped>>

(* evidenceNode: local acceptance checks decide; without any the change    *)
(* passes and is left to the integration verification.                     *)
Evidence ==
    /\ At("evidence")
    /\ \E passed \in IF Current \in Checked THEN BOOLEAN ELSE {TRUE} :
          results' = [results EXCEPT ![Current].status = IF passed THEN "passed" ELSE "failed"]
    /\ status' = "running"
    /\ Goto("prepare_change")
    /\ UNCHANGED <<input, alive, discovery, plan, high, approved, mutation, outcome>>

-----------------------------------------------------------------------------
(* Mutant: the worker's word is taken.                                     *)
TrustWorker(passed) == "synthesize"

(* createVerifyNode: the host's checks decide, not the worker.             *)
VerifyRoute(passed) ==
    IF passed THEN "synthesize"
    ELSE IF IsAggregate /\ iteration < input.max THEN "diagnose" ELSE "escalate"

Verify ==
    /\ At("verify")
    /\ \E passed \in BOOLEAN :
          /\ verified' = IF passed THEN "pass" ELSE "fail"
          /\ green' = IF passed THEN tree ELSE green
          /\ slipped' = (slipped /\ ~passed)
          /\ Goto(VerifyRoute(passed))
    /\ UNCHANGED <<input, alive, status, discovery, changes, mutation, iteration, bound>>

Diagnose ==
    /\ At("diagnose")
    /\ Goto("repair")
    /\ UNCHANGED <<input, alive, status, discovery, changes, mutation, outcome>>

Synthesize ==
    /\ At("synthesize")
    /\ status' = "completed"
    /\ Goto("end")
    /\ UNCHANGED <<input, alive, discovery, changes, mutation, outcome>>

Escalate ==
    /\ At("escalate")
    /\ status' = "needs_attention"
    /\ Goto("end")
    /\ UNCHANGED <<input, alive, discovery, changes, mutation, outcome>>

-----------------------------------------------------------------------------
Halt == alive' = FALSE /\ UNCHANGED <<input, node, steps, status, discovery, changes, outcome>>

(* The stream is drained.                                                  *)
Finish == alive /\ node = "end" /\ Halt /\ UNCHANGED mutation

(* GraphRecursionError: the limit holds for each invocation.               *)
OutOfSteps ==
    /\ alive /\ node # "end" /\ steps >= Limit
    /\ Halt /\ UNCHANGED mutation

(* collectNode throws InvalidWorkerOutputError.                            *)
CollectFails == At("collect") /\ CollectThrows /\ Halt /\ UNCHANGED mutation

(* The process dies, or the node fails for good: its worker publishes      *)
(* nothing more.  Workers that outlived an earlier node survive a failure, *)
(* not the death of the process.                                           *)
Stop ==
    /\ Crashes /\ alive /\ node # "end"
    /\ Halt
    /\ work' = NoWork /\ late' \in {late, {}}
    /\ UNCHANGED <<journal, runs, unscoped, tree>>

(* The tree is not what it was when the worker started: the worker is      *)
(* refused and the node fails.                                             *)
WorkerConflicts ==
    /\ alive /\ work # NoWork /\ work.at = "running" /\ tree # work.base
    /\ Halt
    /\ work' = NoWork
    /\ UNCHANGED <<journal, runs, late, unscoped, tree>>

(* assertReportedScope throws, also when the recorded result is replayed.  *)
ScopeFails ==
    /\ alive /\ MutationNode /\ steps < Limit
    /\ work # NoWork => work.at = "completed"
    /\ CurrentKey \in unscoped
    /\ Halt
    /\ work' = NoWork
    /\ UNCHANGED <<journal, runs, late, unscoped, tree>>

(* The node times out at the claim, at work or at the completion:          *)
(* LangGraph fails the node, nothing stops the promise chain of            *)
(* executeMutation.                                                        *)
NodeTimeout ==
    /\ alive /\ MutationNode /\ steps < Limit
    /\ Cardinality(late) < MaxLate
    /\ Halt
    /\ work' = NoWork
    /\ late' = late \cup
         IF work = NoWork THEN {[key |-> CurrentKey, base |-> tree, at |-> "claiming"]}
         ELSE {w \in {work} : w.at # "completed"}
    /\ UNCHANGED <<journal, runs, unscoped, tree>>

GoesOn(w, at) == late' = (late \ {w}) \cup {[w EXCEPT !.at = at, !.base = tree]}
GivesUp(w) == late' = late \ {w}

LateClaim(w) ==
    /\ w.at = "claiming"
    /\ \/ journal[w.key] = "none" /\ GoesOn(w, "claimed")
          /\ journal' = [journal EXCEPT ![w.key] = "started"]
       \/ journal[w.key] # "none" /\ GivesUp(w) /\ UNCHANGED journal
    /\ UNCHANGED <<runs, unscoped, tree, slipped>>

LateStart(w) ==
    /\ w.at = "claimed" /\ GoesOn(w, "running")
    /\ runs' = [runs EXCEPT ![w.key] = @ + 1]
    /\ UNCHANGED <<journal, unscoped, tree, slipped>>

LatePublication(w) ==
    /\ w.at = "running"
    /\ \/ tree = w.base /\ tree' \in {tree, tree + 1} /\ GoesOn(w, "published")
       \/ tree # w.base /\ GivesUp(w) /\ UNCHANGED tree
    /\ slipped' = (slipped \/ tree' # tree)
    /\ UNCHANGED <<journal, runs, unscoped>>

LateCompletion(w) ==
    /\ w.at = "published" /\ GivesUp(w)
    /\ journal' = [journal EXCEPT ![w.key] = "completed"]
    /\ Reports(w.key)
    /\ UNCHANGED <<runs, tree, slipped>>

LateWorker(w) ==
    /\ LateClaim(w) \/ LateStart(w) \/ LatePublication(w) \/ LateCompletion(w)
    /\ UNCHANGED <<input, node, alive, steps, status, discovery, changes, iteration,
                   verified, green, bound, work>>

-----------------------------------------------------------------------------
(* assertResumeReplayCompatible: the dispatcher resumes a thread only on   *)
(* the tree its replay binding names, and binds it again                   *)
(* (bindNewWorkflowReplay).                                                *)
ReplayCompatible == input.dispatched => tree = bound

(* resumeCodingWorkflow: status "awaiting_approval" and a pending          *)
(* interrupt ask for a decision.  The interrupt stays among the pending    *)
(* writes until the superstep of the change has committed, so a run that   *)
(* stopped after the approval asks for the decision again.                 *)
InterruptPending ==
    /\ status = "awaiting_approval"
    /\ \/ node = "paused"
       \/ node \in {"mutate", "evidence"} /\ NeedsApproval(Current)

Resume ==
    /\ ~alive /\ node # "end" /\ ReplayCompatible /\ ~InterruptPending
    /\ alive' = TRUE /\ steps' = 0 /\ bound' = tree
    /\ UNCHANGED <<input, node, status, discovery, changes, mutation,
                   iteration, verified, green, slipped>>

(* The binding of a decision must be the pending interrupt's               *)
(* (assertDecisionScope).  A rejected change needs attention.  A subgraph  *)
(* that has committed its approve node does not execute it again: it goes  *)
(* on with the node after it whatever the second decision says.            *)
Binding(c) == <<c, results[c].attempt>>
(* Mutant: an approval of any attempt will do.                             *)
AnyAttempt(b) == b[1] = Current
DecisionMatches(b) == b = Binding(Current)

Decide(b, action) ==
    /\ ~alive /\ InterruptPending /\ ReplayCompatible
    /\ DecisionMatches(b)
    /\ alive' = TRUE /\ bound' = tree
    /\ approved' = IF action = "approve" THEN approved \cup {b} ELSE approved
    /\ \/ /\ node = "paused" /\ action = "approve"
          /\ node' = "mutate" /\ steps' = 0
          /\ UNCHANGED <<results, status>>
       \/ /\ node = "paused" /\ action = "reject"
          /\ results' = [results EXCEPT ![Current].status = "needs_attention"]
          /\ status' = "running"
          /\ node' = "prepare_change" /\ steps' = 1
       \/ /\ node # "paused"
          /\ steps' = 0
          /\ UNCHANGED <<node, results, status>>
    /\ UNCHANGED <<input, discovery, plan, high, mutation, iteration, verified, green,
                   slipped>>

(* runCodingWorkflow with the id of a thread that has ended: the input     *)
(* replaces the plain channels; the appending ones (findings,              *)
(* changeResults), the plan, the verification and the journal stay.        *)
RunAgain ==
    /\ Reuse /\ ~alive /\ node = "end"
    /\ input' \in Inputs
    /\ node' = "classify" /\ alive' = TRUE /\ steps' = 0 /\ status' = "running"
    /\ items' = {} /\ round' = 0 /\ iteration' = 0 /\ bound' = tree
    /\ UNCHANGED <<found, proposes, sent, changes, verified, green, slipped,
                   journal, runs, work, late, unscoped, tree>>

-----------------------------------------------------------------------------
Analyse == \/ Classify \/ Discover \/ Dispatch \/ Collect
           \/ \E i \in Item : Specialist(i)
Mutate == \/ ClaimExecute \/ ClaimRecorded \/ WorkerStarts \/ WorkerPublishes
          \/ WorkerCompletes \/ WorkerCommits
Conclude == Verify \/ Diagnose \/ Synthesize \/ Escalate
Run == Analyse \/ PrepareChange \/ Pause \/ Mutate \/ Evidence \/ Conclude \/ Finish
Fails == OutOfSteps \/ CollectFails \/ WorkerConflicts \/ ScopeFails
Interrupted == Stop \/ NodeTimeout
Decision == \E c \in Change, a \in 1..6, action \in {"approve", "reject"} :
                Decide(<<c, a>>, action)

Next == \/ Run \/ Fails \/ Interrupted \/ Resume \/ Decision \/ RunAgain
        \/ \E w \in late : LateWorker(w)

Spec == Init /\ [][Next]_vars

(* LangGraph keeps executing the next node or fails it, a stopped thread   *)
(* is resumed where that is not refused, and its interrupts are decided.   *)
FairSpec == /\ Spec
            /\ WF_vars(Run) /\ WF_vars(Fails)
            /\ WF_vars(Resume) /\ WF_vars(Decision)

-----------------------------------------------------------------------------
Results == [status : {"none", "running", "passed", "failed", "needs_attention"},
            attempt : 0..6]
Executions == [key : Key, base : Nat,
               at : {"claiming", "claimed", "running", "published", "completed"}]

(* The variables have their types.                                         *)
TypeOK ==
    /\ input \in Inputs
    /\ node \in Nodes /\ alive \in BOOLEAN /\ steps \in 0..32
    /\ status \in {"running", "awaiting_approval", "completed", "needs_attention"}
    /\ items \subseteq Item /\ found \subseteq Item /\ sent \subseteq Item
    /\ round \in 0..MaxRounds /\ proposes \in [Item -> SUBSET Item]
    /\ plan \in {<<>>, <<Aggregate>>, Planned} /\ high \subseteq Change
    /\ results \in [Change -> Results]
    /\ iteration \in MaxIterations /\ verified \in {"none", "pass", "fail"}
    /\ green \in Int /\ tree \in Nat
    /\ journal \in [Key -> {"none", "started", "completed"}] /\ runs \in [Key -> Nat]
    /\ work \in Executions \cup {NoWork} /\ late \subseteq Executions
    /\ unscoped \subseteq Key
    /\ approved \subseteq Change \X (1..6)
    /\ bound \in 0..tree /\ slipped \in BOOLEAN

(* A mutating worker is started at most once for a logical operation,      *)
(* however often the run crashes between claim, publication, completion    *)
(* and checkpoint and is resumed (executeMutation).                        *)
AtMostOncePerOperation == \A k \in Key : runs[k] <= 1

(* The workflow claims, works and completes as the journal's contract      *)
(* allows, also with workers that outlive their node.                      *)
Journal == INSTANCE MutationJournal WITH
    entry <- journal, grants <- runs, live <- TRUE
ImplementsJournal == Journal!Spec

(* No attempt at a change that needs approval is worked on before the user *)
(* approved exactly that attempt; neither a resume after a crash nor the   *)
(* retry of a failed change reuses an older approval.  The repairs of the  *)
(* aggregate change are exempt, of whatever risk it is: its interrupt is   *)
(* for the first mutation, and the repair node has none (graph.ts:129).    *)
(* A new objective on the thread may ask for approvals that an earlier one *)
(* did not: then only the worker in progress is bound by it.               *)
Started(k) == work # NoWork /\ work.key = k

ApprovedBeforeMutation ==
    \A c \in Change, n \in MaxIterations :
        /\ runs[<<c, n>>] > 0
        /\ c \in high \/ (input.approval /\ (Reuse => Started(<<c, n>>)))
        /\ c = Aggregate => n = 0
        => <<c, n + 1>> \in approved

(* Work on a planned change starts when every change it depends on has     *)
(* passed (createPrepareChangeNode), and nothing makes a passed dependency *)
(* anything else afterwards.                                               *)
DependenciesFirst ==
    \A c \in Range(Planned), n \in MaxIterations :
        runs[<<c, n>>] > 0 => \A d \in Deps[c] : Passed(d)

(* A delivery that is reported completed was verified by the host on the   *)
(* tree the user now has, with every change of the plan passed, also       *)
(* across crashes and objectives that reuse the thread (createVerifyNode). *)
(* Workers that outlive their node are the only exception: one of them may *)
(* publish after the verification.                                         *)
VerifiedUnlessLate ==
    status = "completed" /\ input.pattern = "delivery" =>
        /\ verified = "pass" /\ (green = tree \/ slipped)
        /\ plan # <<>> /\ \A c \in Range(plan) : Passed(c)

(* No item is left unanalysed when the graph leaves the fan-out, and the   *)
(* replanning stays within the item cap and the two rounds whatever the    *)
(* specialists propose (collectNode, routeDispatch).                       *)
ReplanningIsBounded ==
    /\ Cardinality(items) <= MaxItems
    /\ round <= MaxRounds
    /\ node \notin {"classify", "discover", "dispatch", "specialist", "collect"}
          => items \subseteq found

(* A resume fails again, whatever it finds: the tree is no longer the one  *)
(* the thread is bound to, the collector has used its rounds, or the       *)
(* recorded report of the mutation is out of scope.                        *)
Refused ==
    \/ ~alive /\ ~ReplayCompatible
    \/ node = "collect" /\ CollectThrows
    \/ MutationNode /\ CurrentKey \in unscoped

===============================================================================
