--------------------------- MODULE SessionBridge ---------------------------
(***************************************************************************)
(* Pi sessions and workflow threads (src/bridge/extension-lifecycle.ts,    *)
(* -defaults.ts, session-checkpoint-bridge.ts, store.ts,                   *)
(* src/runtime/active-resume-target.ts): a running workflow leaves links   *)
(* to its labelled checkpoints in the session tree; moving in the tree and *)
(* forking a session prepare an intent before Pi acts and consume it       *)
(* afterwards; a resume is bound to the link the session is at.  Forks are *)
(* made by WorkflowFork.                                                   *)
(*                                                                         *)
(* One Pi process is modelled with its sessions; other processes run       *)
(* threads and fork them.  The process opens two savers: one for links and *)
(* the forks of sessions (seen[Pi]), and one for what it runs and resumes, *)
(* opened by the first dispatch (known).  Each answers from its own        *)
(* memory.  Pi lets the user move, fork and resume only while no workflow  *)
(* of this process runs.  A checkpoint has one label or none.              *)
(***************************************************************************)
EXTENDS WorkflowFork

CONSTANTS MaxSessions,   \* bound: sessions of this process
          Budgets        \* bounds of the environment, one of which is chosen

ASSUME BridgeConstants ==
  /\ MaxSessions \in Nat \ {0}
  /\ \A b \in Budgets : \A kind \in DOMAIN b : b[kind] \in Nat

VARIABLES
  entries,    \* the entries of each session: parent and link
  leaf,       \* the entry each session is at
  cur,        \* the session Pi shows
  sessions,   \* how many sessions there are
  labelled,   \* checkpoints with a semantic label
  known,      \* the threads as the dispatcher's saver last read them
  intents,    \* the durable intent store
  prepTree,   \* preparedTree and preparedFork of the lifecycle: an intent
  prepFork,   \*   in the store, or 0
  host,       \* what Pi is about to do
  run         \* the workflow this process runs: thread and working directory

bridgeVars == <<entries, leaf, cur, sessions, labelled, known, intents, prepTree, prepFork,
                host, run>>
vars == <<forkVars, budget, bridgeVars>>

Session == 1..MaxSessions
NoLink == [thread |-> Src, ck |-> <<Src, 0>>, path |-> None]
NoHost == [pc |-> "idle", target |-> 0, link |-> NoLink, thread |-> Src, place |-> None]
NoRun == [thread |-> None, place |-> None]
Unread == [t \in Threads |-> <<>>]   \* the dispatcher's saver is not open yet

Init ==
  /\ ForkInit
  /\ budget \in Budgets
  /\ entries = [s \in Session |-> IF s = 1 THEN <<[parent |-> 0, link |-> NoLink]>> ELSE <<>>]
  /\ leaf = [s \in Session |-> IF s = 1 THEN 1 ELSE 0]
  /\ cur = 1 /\ sessions = 1
  /\ labelled = {<<Src, 1>>} /\ known = thr /\ intents = <<>>
  /\ prepTree = 0 /\ prepFork = 0
  /\ host = NoHost
  /\ run = [thread |-> Src, place |-> None]

\* Every variable holds values of its type.
TypeOK ==
  LET links == [thread : Threads, ck : Threads \X Nat, path : Callers \cup {None}]
      places == Callers \cup {None}
  IN  /\ ForkTypeOK
      /\ entries \in [Session -> Seq([parent : Nat, link : links])]
      /\ leaf \in [Session -> Nat] /\ \A s \in Session : leaf[s] <= Len(entries[s])
      /\ cur \in 1..sessions /\ sessions \in Session
      /\ labelled \subseteq Threads \X Nat
      /\ known \in [Threads -> Seq(Threads \X Nat)]
      /\ intents \in Seq([kind : {"tree", "fork"}, session : Session, target : Nat, entry : Nat,
                          link : links, path : places, fork : Forks \cup {None},
                          status : {"prepared", "consumed", "expired"}])
      /\ {prepTree, prepFork} \subseteq 0..Len(intents)
      /\ host \in [pc : {"idle", "tree", "forking", "fork", "resume"}, target : Nat,
                   link : links, thread : Threads, place : places]
      /\ run \in [thread : Threads \cup {None}, place : places]

-----------------------------------------------------------------------------
\* Links and their resources

WorktreeExists(f, path) == man[f] # None /\ man[f].path = path /\ path \in wt[f]

\* assertResources: the bridge's saver has the checkpoint, the worktree is managed.
Stale(l) ==
  \/ l.ck \notin Range(seen[Pi][l.thread])
  \/ l.path # None /\ ~WorktreeExists(l.thread, l.path)

\* rehydrate: one stale link fails the whole session.
Rehydrates(log) == \A i \in DOMAIN log : log[i].link # NoLink => ~Stale(log[i].link)
Healthy == Rehydrates(entries[cur])

\* resolveTarget: the nearest linked entry from e towards the root, or 0.
Nearest(log, e) ==
  LET up[i \in 0..Len(log)] ==
        IF i = 0 \/ log[i].link # NoLink THEN i ELSE up[log[i].parent]
  IN  up[e]

LinkAt(log, e) == IF Nearest(log, e) = 0 THEN NoLink ELSE log[Nearest(log, e)].link
ActiveLink == LinkAt(entries[cur], leaf[cur])

\* appendLink at the leaf of the session Pi shows.
Linked(log, at, l) == Append(log, [parent |-> at, link |-> l])

\* appendUniqueLink
AppendUniqueLink(l) ==
  IF Healthy /\ \A i \in DOMAIN entries[cur] :
                  <<entries[cur][i].link.thread, entries[cur][i].link.ck>> # <<l.thread, l.ck>>
  THEN /\ entries' = [entries EXCEPT ![cur] = Linked(@, leaf[cur], l)]
       /\ leaf' = [leaf EXCEPT ![cur] = Len(entries[cur]) + 1]
  ELSE UNCHANGED <<entries, leaf>>

Free == host.pc = "idle" /\ run = NoRun

-----------------------------------------------------------------------------
\* The workflow of this process

\* A checkpoint is put.  workflowCheckpoint looks a labelled one up in the
\* bridge's saver, which has not read it, and so adds no link.
RunCheckpoint(label) ==
  /\ run # NoRun /\ thr[run.thread] # <<>>
  /\ Spend("steps")
  /\ Put(run.thread)
  /\ known' = [known EXCEPT ![run.thread] = thr'[run.thread]]
  /\ labelled' = IF label THEN labelled \cup {NewCheckpoint(run.thread)} ELSE labelled
  /\ UNCHANGED <<seen, man, wt, dirty, call, returned, orphaned, disturbed, entries, leaf,
                 cur, sessions, intents, prepTree, prepFork, host, run>>

\* The run ends; workflowCompleted links the checkpoint that is the last of a
\* completed run's thread as the bridge's saver knows it.
RunEnds(completed) ==
  /\ run # NoRun
  /\ LET t == run.thread
         latest == Last(seen[Pi][t])
     IN  IF completed /\ seen[Pi][t] # <<>> /\ latest \in labelled
         THEN AppendUniqueLink([thread |-> t, ck |-> latest, path |-> None])
         ELSE UNCHANGED <<entries, leaf>>
  /\ run' = NoRun
  /\ UNCHANGED <<forkVars, budget, cur, sessions, labelled, known, intents,
                 prepTree, prepFork, host>>

Chat ==
  /\ Free /\ Spend("chats")
  /\ entries' = [entries EXCEPT ![cur] = Linked(@, leaf[cur], NoLink)]
  /\ leaf' = [leaf EXCEPT ![cur] = Len(entries[cur]) + 1]
  /\ UNCHANGED <<forkVars, cur, sessions, labelled, known, intents, prepTree, prepFork, host, run>>

-----------------------------------------------------------------------------
\* The intent store

Intent(kind, e, path, f) ==
  [kind |-> kind, session |-> cur, target |-> e, entry |-> Nearest(entries[cur], e),
   link |-> LinkAt(entries[cur], e), path |-> path, fork |-> f, status |-> "prepared"]

\* The intent's time to live is over; consume finds it expired.
Expire(i) ==
  /\ intents[i].status = "prepared"
  /\ intents' = [intents EXCEPT ![i].status = "expired"]
  /\ UNCHANGED <<forkVars, budget, entries, leaf, cur, sessions, labelled, known,
                 prepTree, prepFork, host, run>>

\* get, the check of the resources, and consume; a consumed intent is answered
\* again as it is.
Consumable(i) ==
  /\ intents[i].status \in {"prepared", "consumed"}
  /\ ~Stale(intents[i].link)
  /\ intents[i].kind = "fork" => WorktreeExists(intents[i].fork, intents[i].path)
Consumed(i) == [intents EXCEPT ![i].status = "consumed"]

-----------------------------------------------------------------------------
\* Moving in the tree

BeforeTree(e) ==
  /\ Free /\ Spend("moves")
  /\ IF Healthy /\ LinkAt(entries[cur], e) # NoLink
     THEN /\ intents' = Append(intents, Intent("tree", e, LinkAt(entries[cur], e).path, None))
          /\ prepTree' = Len(intents) + 1
     ELSE prepTree' = 0 /\ UNCHANGED intents
  /\ host' = IF Healthy THEN [NoHost EXCEPT !.pc = "tree", !.target = e] ELSE host
  /\ UNCHANGED <<forkVars, entries, leaf, cur, sessions, labelled, known, prepFork, run>>

TreeAnyLeaf(summary, fromExtension) ==
  /\ host.pc = "tree"
  /\ LET log == entries[cur]
         new == IF summary THEN Len(log) + 1 ELSE host.target
     IN  /\ entries' = IF summary THEN [entries EXCEPT ![cur] = Linked(@, host.target, NoLink)]
                       ELSE entries
         /\ leaf' = [leaf EXCEPT ![cur] = new]
         /\ prepTree' = IF fromExtension THEN prepTree ELSE 0
         /\ intents' = IF ~fromExtension /\ prepTree # 0 /\ Consumable(prepTree)
                       THEN Consumed(prepTree) ELSE intents
  /\ summary => budget["chats"] > 0
  /\ budget' = IF summary THEN [budget EXCEPT !["chats"] = @ - 1] ELSE budget
  /\ host' = NoHost
  /\ UNCHANGED <<forkVars, cur, sessions, labelled, known, prepFork, run>>

\* Pi has moved to the target, or to a summary it added there.
Tree(summary, fromExtension) ==
  /\ host.pc = "tree"
  /\ LET log == entries[cur]
         new == IF summary THEN Len(log) + 1 ELSE host.target
     IN  /\ entries' = IF summary THEN [entries EXCEPT ![cur] = Linked(@, host.target, NoLink)]
                       ELSE entries
         /\ leaf' = [leaf EXCEPT ![cur] = new]
         /\ prepTree' = IF fromExtension THEN prepTree ELSE 0
         /\ intents' = IF /\ ~fromExtension /\ prepTree # 0
                          /\ new = intents[prepTree].target /\ Consumable(prepTree)
                       THEN Consumed(prepTree) ELSE intents
  /\ summary => budget["chats"] > 0
  /\ budget' = IF summary THEN [budget EXCEPT !["chats"] = @ - 1] ELSE budget
  /\ host' = NoHost
  /\ UNCHANGED <<forkVars, cur, sessions, labelled, known, prepFork, run>>

-----------------------------------------------------------------------------
\* Forking a session

\* The preparation of an earlier fork is dropped first.  An unlinked target
\* needs no workflow fork; a linked one is forked into a fresh thread.
RememberFork == UNCHANGED prepFork
ForgetFork == prepFork' = 0

BeforeFork(e, f) ==
  /\ Free /\ Spend("moves") /\ sessions < MaxSessions
  /\ ForgetFork
  /\ LET l == LinkAt(entries[cur], e)
     IN  \/ /\ e = 0 \/ (Healthy /\ l = NoLink)
            /\ host' = [NoHost EXCEPT !.pc = "fork", !.target = e]
            /\ UNCHANGED call
         \/ /\ e # 0 /\ Healthy /\ l # NoLink
            /\ man[f] = None /\ returned[f] = <<>> /\ f \notin disturbed
            /\ \E k \in 1..Len(seen[Pi][l.thread]) :
                 seen[Pi][l.thread][k] = l.ck /\ PrepareClone(Pi, l.thread, k, f)
            /\ host' = [NoHost EXCEPT !.pc = "forking", !.target = e]
         \/ /\ e # 0 /\ ~Healthy
            /\ UNCHANGED <<call, host>>
  /\ UNCHANGED <<thr, seen, made, man, wt, dirty, returned, orphaned, disturbed,
                 entries, leaf, cur, sessions, labelled, known, intents, prepTree, run>>

\* The workflow is forked; prepareFork checks link and worktree once more.
ForkPrepared ==
  /\ host.pc = "forking" /\ At(Pi, "done")
  /\ LET f == ForkOf(Pi)
         ok == ~Stale(LinkAt(entries[cur], host.target)) /\ WorktreeExists(f, call[Pi].path)
     IN  IF ok
         THEN /\ intents' = Append(intents, Intent("fork", host.target, call[Pi].path, f))
              /\ prepFork' = Len(intents) + 1
              /\ host' = [host EXCEPT !.pc = "fork"]
         ELSE host' = NoHost /\ UNCHANGED <<intents, prepFork>>
  /\ Throw(Pi)
  /\ UNCHANGED <<thr, seen, made, man, wt, dirty, returned, orphaned, disturbed, budget,
                 entries, leaf, cur, sessions, labelled, known, prepTree, run>>

\* The workflow fork threw: the session fork is cancelled.
ForkRejected ==
  /\ host.pc = "forking" /\ At(Pi, "idle")
  /\ host' = NoHost
  /\ UNCHANGED <<forkVars, budget, entries, leaf, cur, sessions, labelled, known,
                 intents, prepTree, prepFork, run>>

\* Pi or another extension gives the fork up.
PiCancelsFork ==
  /\ host.pc = "fork"
  /\ host' = NoHost
  /\ UNCHANGED <<forkVars, budget, entries, leaf, cur, sessions, labelled, known,
                 intents, prepTree, prepFork, run>>

\* The entries from the root to e, as a session of their own.
Branch(log, e) ==
  LET path[i \in 0..Len(log)] ==
        IF i = 0 THEN <<>>
        ELSE LET above == path[log[i].parent]
             IN  Linked(above, Len(above), log[i].link)
  IN  path[e]

\* Pi has made the session and starts it (session_start, reason "fork"): the
\* preparation is consumed and the destination linked to thread and worktree.
SessionForked ==
  /\ host.pc = "fork"
  /\ sessions' = sessions + 1 /\ cur' = sessions'
  /\ LET log == Branch(entries[cur], host.target)
         taken == Rehydrates(log) /\ prepFork # 0
         bound == taken /\ Consumable(prepFork)
         i == intents[prepFork]
         new == IF bound
                THEN Linked(log, Len(log),
                            [thread |-> i.fork, ck |-> i.link.ck, path |-> i.path])
                ELSE log
     IN  /\ entries' = [entries EXCEPT ![cur'] = new]
         /\ leaf' = [leaf EXCEPT ![cur'] = Len(new)]
         /\ prepFork' = IF Rehydrates(log) THEN 0 ELSE prepFork
         /\ intents' = IF bound THEN Consumed(prepFork) ELSE intents
  /\ host' = NoHost
  /\ UNCHANGED <<forkVars, budget, labelled, known, prepTree, run>>

\* Pi shows another session (session_start, other reasons).
SwitchSession(s) ==
  /\ Free /\ s # cur /\ Spend("moves")
  /\ cur' = s
  /\ prepFork' = IF Rehydrates(entries[s]) THEN 0 ELSE prepFork
  /\ UNCHANGED <<forkVars, entries, leaf, sessions, labelled, known, intents, prepTree, host, run>>

\* Forks that are read before they are whole
ReadUnfinished == {f \in Forks : thr[f] # <<>> /\ returned[f] = <<>>}

\* The Pi process dies and is started again.  It opens the bridge's saver; the
\* dispatcher opens its own when it is first asked for something.
PiRestarts ==
  /\ Spend("crashes")
  /\ call' = [call EXCEPT ![Pi] = Idle]
  /\ seen' = [seen EXCEPT ![Pi] = thr] /\ known' = Unread
  /\ disturbed' = disturbed \cup ({ForkOf(Pi)} \ {None}) \cup ReadUnfinished
  /\ prepTree' = 0 /\ prepFork' = 0
  /\ host' = NoHost /\ run' = NoRun
  /\ UNCHANGED <<thr, made, man, wt, dirty, returned, orphaned,
                 entries, leaf, cur, sessions, labelled, intents>>

OpenDispatcher ==
  /\ known = Unread /\ known' = thr
  /\ UNCHANGED <<forkVars, budget, entries, leaf, cur, sessions, labelled, intents,
                 prepTree, prepFork, host, run>>

-----------------------------------------------------------------------------
\* Resuming a thread

\* getFork knows the forks of the fork action only; the working directory is
\* the fork's, otherwise the session's.
ForkWorkspace(t) == IF t \in NamedForks /\ man[t] # None THEN man[t].path ELSE None

\* worktreeMatches: no session works inside a managed worktree.
WorktreeMatches(t, l) == l.path = ForkWorkspace(t)

\* assertActiveResumeTarget: the session's link names the thread, the last of
\* its checkpoints that the dispatcher's saver knows, and its worktree.  A
\* session without a link may resume anything.
Accepts(t, l) ==
  \/ l = NoLink
  \/ /\ l.thread = t
     /\ Last(known[t]) = l.ck
     /\ WorktreeMatches(t, l)

Resume(t) ==
  /\ Free /\ known[t] # <<>>
  /\ Healthy /\ Accepts(t, ActiveLink)
  /\ host' = [NoHost EXCEPT !.pc = "resume", !.link = ActiveLink, !.thread = t,
                            !.place = ForkWorkspace(t)]
  /\ UNCHANGED <<forkVars, budget, entries, leaf, cur, sessions, labelled, known,
                 intents, prepTree, prepFork, run>>

\* resumeCodingWorkflow asks the same saver for the last checkpoint again.
StillSelected == host.link = NoLink \/ Last(known[host.thread]) = host.link.ck

ResumeStarts ==
  /\ host.pc = "resume"
  /\ StillSelected
  /\ run' = [thread |-> host.thread, place |-> host.place]
  /\ disturbed' = RunsUnfinished(host.thread)
  /\ host' = NoHost
  /\ UNCHANGED <<thr, seen, made, man, wt, dirty, call, returned, orphaned, budget,
                 entries, leaf, cur, sessions, labelled, known, intents, prepTree, prepFork>>

\* The repository is not the one the checkpoint was put for.
ResumeRejected ==
  /\ host.pc = "resume"
  /\ host' = NoHost
  /\ UNCHANGED <<forkVars, budget, entries, leaf, cur, sessions, labelled, known,
                 intents, prepTree, prepFork, run>>

-----------------------------------------------------------------------------
\* Another process runs threads that this one does not run.
Elsewhere ==
  /\ ForkNext
  /\ \A t \in Threads : t = run.thread => thr'[t] \in {thr[t], <<>>}
  /\ UNCHANGED bridgeVars

Next ==
  \/ Elsewhere
  \/ \E b \in BOOLEAN : RunCheckpoint(b) \/ RunEnds(b)
  \/ Chat
  \/ \E i \in DOMAIN intents : Expire(i)
  \/ \E e \in DOMAIN entries[cur] : BeforeTree(e)
  \/ \E summary, fromExtension \in BOOLEAN : Tree(summary, fromExtension)
  \/ \E e \in 0..Len(entries[cur]), f \in PiForks : BeforeFork(e, f)
  \/ ForkPrepared \/ ForkRejected \/ PiCancelsFork
  \/ SessionForked
  \/ \E s \in 1..sessions : SwitchSession(s)
  \/ PiRestarts \/ OpenDispatcher
  \/ \E t \in Threads : Resume(t)
  \/ ResumeStarts \/ ResumeRejected

Spec == Init /\ [][Next]_vars

-----------------------------------------------------------------------------
\* The checkpoint or the worktree of a link is gone from the disk.
Dead(l) == \/ l.ck \notin Range(thr[l.thread])
           \/ l.path # None /\ ~WorktreeExists(l.thread, l.path)

\* A link of any session keeps its checkpoint and worktree, however forks of
\* the same or other threads fail beside it (the undo of forks.ts against the
\* links of session-checkpoint-bridge.ts), and although the saver that links
\* are made and checked with reads a thread once.
LinksStayLive ==
  \A s \in Session : \A i \in DOMAIN entries[s] :
    LET l == entries[s][i].link
    IN  l # NoLink /\ Dead(l) => l.thread \in disturbed

\* A consumed tree intent describes the branch the session is now at, and was
\* not expired (consumePreparedTree, tree).
ConsumedTreeIsActive ==
  [][\A i \in DOMAIN intents :
       intents[i].status # "consumed" /\ intents'[i].status = "consumed"
       /\ intents[i].kind = "tree" =>
         /\ intents[i].status = "prepared"
         /\ cur = intents[i].session
         /\ leaf'[cur] = intents[i].target
         /\ ActiveLink' = intents[i].link]_vars

\* A new session is bound to a managed worktree only by the preparation made
\* for this fork: same session, same entry, not expired (sessionStart).
ForkBindsItsTarget ==
  [][sessions' # sessions /\ entries'[cur'] # Branch(entries[cur], host.target) =>
       /\ prepFork # 0
       /\ intents[prepFork].session = cur
       /\ intents[prepFork].target = host.target
       /\ intents[prepFork].status = "prepared"]_vars

\* src/README.md:88: an older selected checkpoint is not resumed, "otherwise
\* resume is rejected before a worker runs".  The checks of
\* assertActiveResumeTarget and resumeCodingWorkflow ask one process's saver.
ResumesLatest ==
  [][run = NoRun /\ run' # NoRun /\ ActiveLink # NoLink =>
       Last(thr[run'.thread]) = ActiveLink.ck]_vars
=============================================================================
