-------------------------- MODULE SessionBridgeProofs --------------------------
(***************************************************************************)
(* Proofs about forks and sessions together: what a fork that returned     *)
(* keeps, what a fork that failed leaves, that links of sessions stay      *)
(* live, and what moving, forking and resuming a session may bind, for any *)
(* threads, forks, callers and sessions, with failing steps, crashes and   *)
(* calls that name the same fork thread.                                   *)
(***************************************************************************)
EXTENDS SessionBridge, SequenceTheorems, WellFoundedInduction, TLAPS

-----------------------------------------------------------------------------
(* Types                                                                   *)

Ids == Threads \X Nat
Lineages == Seq(Ids)
Manifests == [src : Threads, last : Ids, path : Callers]
Places == Callers \cup {None}
Points == {"idle", "create", "publish", "add", "recheck", "capture", "copy",
           "retain", "undo", "cleanup", "unlink", "done"}
Calls == [pc : Points, src : Threads, fork : Forks \cup {None}, lineage : Lineages,
          path : Places, copied : Nat]

Links == [thread : Threads, ck : Ids, path : Places]
Entry == [parent : Nat, link : Links]
Logs == Seq(Entry)
IntentRecords == [kind : {"tree", "fork"}, session : Session, target : Nat, entry : Nat,
                  link : Links, path : Places, fork : Forks \cup {None},
                  status : {"prepared", "consumed", "expired"}]
Hosts == [pc : {"idle", "tree", "forking", "fork", "resume"}, target : Nat,
          link : Links, thread : Threads, place : Places]

ForkTyped ==
  /\ thr \in [Threads -> Lineages] /\ made \in [Threads -> Nat]
  /\ man \in [Forks -> Manifests \cup {None}]
  /\ wt \in [Forks -> SUBSET Callers]
  /\ dirty \in BOOLEAN
  /\ call \in [Callers -> Calls]
  /\ returned \in [Forks -> Lineages] /\ orphaned \subseteq Forks /\ disturbed \subseteq Forks

BridgeTyped ==
  /\ entries \in [Session -> Logs]
  /\ leaf \in [Session -> Nat] /\ \A s \in Session : leaf[s] <= Len(entries[s])
  /\ cur \in 1..sessions /\ sessions \in Session
  /\ labelled \subseteq Ids /\ known \in [Threads -> Lineages]
  /\ intents \in Seq(IntentRecords)
  /\ {prepTree, prepFork} \subseteq 0..Len(intents)
  /\ host \in Hosts
  /\ run \in [thread : Threads \cup {None}, place : Places]

-----------------------------------------------------------------------------
(* The inductive invariant: forks                                          *)

\* No checkpoint is twice in a lineage, and every one has been put by a run of
\* its thread.
Fresh(s, m) == /\ \A i, j \in 1..Len(s) : s[i] = s[j] => i = j
               /\ \A i \in 1..Len(s) : s[i][2] \in 1..m[s[i][1]]

\* s is the beginning of t.
Begins(s, t) == Len(s) <= Len(t) /\ \A i \in 1..Len(s) : s[i] = t[i]

\* A call knows its fork and its lineage.
CallSound(c) ==
  /\ At(c, "idle") <=> ForkOf(c) = None
  /\ ~At(c, "idle") => call[c].lineage # <<>>
  /\ call[c].pc \in {"create", "publish", "add", "recheck", "capture"} => call[c].copied = 0
  /\ At(c, "copy") => call[c].copied < Len(call[c].lineage)
  /\ Fresh(call[c].lineage, made)

\* From its manifest on, a call makes the fork until it has returned or undone it.
Making == {"add", "recheck", "capture", "copy", "retain", "undo", "cleanup", "unlink"}
Makes(c, f) == ForkOf(c) = f /\ call[c].pc \in Making
Returns(c, f) == ForkOf(c) = f /\ At(c, "done")

\* What is there of a fork while c makes it: the manifest names c, so that there
\* is one such call, and worktree and thread are as far as c has come.
HalfMade(c, f) ==
  /\ man[f] # None /\ man[f].path = c /\ call[c].path = c /\ returned[f] = <<>>
  /\ f \notin orphaned
  /\ wt[f] = IF call[c].pc \in {"add", "unlink"} THEN {} ELSE {c}
  /\ call[c].pc \in {"add", "recheck", "capture", "cleanup", "unlink"} => thr[f] = <<>>
  /\ At(c, "copy") => Len(thr[f]) = call[c].copied /\ Begins(thr[f], call[c].lineage)
  /\ At(c, "retain") => Begins(call[c].lineage, thr[f])

Nothing(f) == thr[f] = <<>> /\ man[f] = None /\ wt[f] = {}
\* A call that could not undo itself leaves at most what its manifest names.
Left(f) == man[f] # None /\ wt[f] \subseteq {man[f].path}
Gone(f) == IF f \in orphaned THEN Left(f) ELSE Nothing(f)
Whole(f) == Begins(returned[f], thr[f]) /\ man[f] # None /\ man[f].path \in wt[f]

ForkSound(f) ==
  /\ \A c \in Callers : Makes(c, f) => HalfMade(c, f)
  /\ \A c \in Callers : Returns(c, f) => returned[f] = call[c].lineage
  /\ returned[f] # <<>> => Whole(f)
  /\ returned[f] = <<>> /\ (\A c \in Callers : ~Makes(c, f)) => Gone(f)

FInv ==
  /\ ForkTyped
  /\ \A t \in Threads : Fresh(thr[t], made)
  /\ \A c \in Callers : CallSound(c)
  /\ \A f \in Forks \ disturbed : ForkSound(f)

-----------------------------------------------------------------------------
(* The inductive invariant: what savers remember                           *)

\* The session bridge remembers the beginning of an undisturbed fork, and knows
\* of none before it has returned, other than the one it makes or made in vain.
SeenSound(f) ==
  /\ Begins(seen[Pi][f], thr[f])
  /\ seen[Pi][f] # <<>> /\ returned[f] = <<>> => Makes(Pi, f) \/ f \in orphaned

SInv ==
  /\ seen \in [Callers -> [Threads -> Lineages]]
  /\ \A c \in Callers : \A t \in Threads : Fresh(seen[c][t], made)
  /\ Begins(seen[Pi][Src], thr[Src])
  /\ \A f \in Forks \ disturbed : SeenSound(f)

-----------------------------------------------------------------------------
(* The inductive invariant: sessions                                       *)

\* Parents come before their children.
IsTree(log) == \A i \in DOMAIN log : log[i].parent < i

\* A link to an undisturbed thread is live, and its fork has returned.
Live(l) ==
  l # NoLink /\ l.thread \notin disturbed =>
    /\ ~Dead(l)
    /\ l.thread = Src => l.path = None
    /\ l.thread # Src => returned[l.thread] # <<>>

SessionsSound ==
  \A s \in Session : IsTree(entries[s]) /\ \A i \in DOMAIN entries[s] : Live(entries[s][i].link)

\* An undisturbed fork is run only after it has returned, and while a workflow
\* runs Pi does nothing else.
RunSound ==
  /\ run # NoRun => run.thread \in Threads /\ host.pc = "idle"
  /\ run.thread \in Forks \ disturbed => returned[run.thread] # <<>>

\* The fork that a fork intent names has the linked checkpoint.
IntentSound(i) ==
  i.kind = "fork" =>
    /\ i.fork \in Forks
    /\ i.fork \notin disturbed => i.link.ck \in Range(returned[i.fork])

\* The session does not change between an intent and what Pi does.
TreeSound ==
  host.pc = "tree" =>
    /\ host.target \in DOMAIN entries[cur]
    /\ prepTree # 0 =>
         /\ intents[prepTree].kind = "tree" /\ intents[prepTree].status # "consumed"
         /\ intents[prepTree].session = cur /\ intents[prepTree].target = host.target
         /\ intents[prepTree].link = LinkAt(entries[cur], host.target)

PiForkSound ==
  /\ host.pc \in {"forking", "fork"} =>
       sessions < MaxSessions /\ host.target \in 0..Len(entries[cur])
  /\ ~At(Pi, "idle") => /\ host.pc = "forking"
                        /\ Last(call[Pi].lineage) = LinkAt(entries[cur], host.target).ck
  /\ prepFork # 0 => intents[prepFork].kind = "fork"
  /\ host.pc = "fork" /\ prepFork # 0 =>
       /\ intents[prepFork].status # "consumed"
       /\ intents[prepFork].session = cur /\ intents[prepFork].target = host.target

BInv ==
  /\ BridgeTyped /\ SessionsSound /\ RunSound
  /\ \A i \in DOMAIN intents : IntentSound(intents[i])
  /\ TreeSound /\ PiForkSound

IInv == FInv /\ SInv /\ BInv

-----------------------------------------------------------------------------
(* Sequences                                                               *)

\* The least of some numbers
LEMMA LeastNat ==
  ASSUME NEW T, T \subseteq Nat, T # {}
  PROVE  \E n \in T : \A m \in T : n <= m
<1> DEFINE Less == OpToRel(<, Nat)
<1>1. IsWellFoundedOn(Less, Nat)
  BY NatLessThanWellFounded
<1>2. \A m, n \in Nat : m < n => <<m, n>> \in Less
  BY DEF OpToRel
<1> HIDE DEF Less
<1>3. PICK n \in T : \A m \in T : ~(<<m, n>> \in Less)
  BY <1>1, WFMin
<1>4. ASSUME NEW m \in T PROVE n <= m
  <2>1. ~(m < n)
    BY <1>2, <1>3
  <2> QED BY <2>1
<1> QED BY <1>4

\* A lineage is a finite sequence of identities.
LEMMA LineageFacts ==
  ASSUME NEW s \in Lineages
  PROVE  /\ Len(s) \in Nat /\ DOMAIN s = 1..Len(s) /\ (s = <<>> <=> Len(s) = 0)
         /\ \A i \in 1..Len(s) : s[i] \in Ids
         /\ \A x : x \in Range(s) <=> \E i \in 1..Len(s) : s[i] = x
<1>1. Len(s) \in Nat /\ DOMAIN s = 1..Len(s) /\ (s = <<>> <=> Len(s) = 0)
  BY DEF Lineages
<1>2. \A i \in 1..Len(s) : s[i] \in Ids
  BY ElementOfSeq DEF Lineages
<1> QED BY <1>1, <1>2 DEF Range

\* A longer lineage begins with what it was.
LEMMA AppendFacts ==
  ASSUME NEW s \in Lineages, NEW x \in Ids
  PROVE  /\ Append(s, x) \in Lineages /\ Len(Append(s, x)) = Len(s) + 1
         /\ Append(s, x)[Len(s) + 1] = x
         /\ \A i \in 1..Len(s) : Append(s, x)[i] = s[i]
         /\ Begins(s, Append(s, x))
<1>1. /\ Append(s, x) \in Lineages /\ Len(Append(s, x)) = Len(s) + 1
      /\ Append(s, x)[Len(s) + 1] = x
      /\ \A i \in 1..Len(s) : Append(s, x)[i] = s[i]
  BY AppendProperties DEF Lineages
<1> QED BY <1>1, LineageFacts DEF Begins

\* The beginning of a lineage is a prefix in the sense of the library.
LEMMA BeginsIsPrefix ==
  ASSUME NEW s \in Lineages, NEW t \in Lineages, Begins(s, t)
  PROVE  IsPrefix(s, t)
<1>1. /\ Len(s) \in Nat /\ Len(t) \in Nat /\ Len(s) <= Len(t)
      /\ \A i \in 1..Len(s) : s[i] \in Ids /\ t[i] \in Ids /\ s[i] = t[i]
  BY LineageFacts DEF Begins
<1> DEFINE u == SubSeq(s, 1, Len(s))  v == SubSeq(t, 1, Len(s))
<1>2. u \in Seq(Ids) /\ Len(u) = Len(s) /\ \A i \in 1..Len(s) : u[i] = s[i]
  BY <1>1, SubSeqProperties
<1>3. v \in Seq(Ids) /\ Len(v) = Len(s) /\ \A i \in 1..Len(s) : v[i] = t[i]
  BY <1>1, SubSeqProperties
<1> HIDE DEF u, v
<1>4. u = v
  BY <1>1, <1>2, <1>3, SeqEqual
<1> QED BY <1>1, <1>4 DEF IsPrefix, u, v

\* What is in the beginning is in the whole.
LEMMA BeginsRange ==
  ASSUME NEW s \in Lineages, NEW t \in Lineages, Begins(s, t)
  PROVE  Range(s) \subseteq Range(t)
  BY LineageFacts DEF Begins

\* A beginning of a beginning is one.
LEMMA BeginsTransitive ==
  ASSUME NEW s \in Lineages, NEW t \in Lineages, NEW u \in Lineages, Begins(s, t), Begins(t, u)
  PROVE  Begins(s, u)
  BY LineageFacts DEF Begins

\* The ancestors of a checkpoint are a lineage that is as fresh as the thread.
LEMMA AncestorFacts ==
  ASSUME NEW s \in Lineages, NEW k \in 1..Len(s), NEW m, Fresh(s, m)
  PROVE  /\ SubSeq(s, 1, k) \in Lineages /\ SubSeq(s, 1, k) # <<>> /\ Fresh(SubSeq(s, 1, k), m)
         /\ Last(SubSeq(s, 1, k)) = s[k]
<1>1. Len(s) \in Nat /\ \A i \in 1..k : s[i] \in Ids
  BY LineageFacts
<1> DEFINE u == SubSeq(s, 1, k)
<1>2. u \in Lineages /\ Len(u) = k /\ \A i \in 1..k : u[i] = s[i]
  BY <1>1, SubSeqProperties DEF Lineages
<1> HIDE DEF u
<1>3. u # <<>> /\ Last(u) = s[k]
  BY <1>2, LineageFacts DEF Last
<1>4. Fresh(u, m)
  BY <1>1, <1>2 DEF Fresh
<1> QED BY <1>2, <1>3, <1>4 DEF u

\* Checkpoints that were put stay put.
LEMMA FreshStays ==
  ASSUME NEW s \in Lineages, NEW m \in [Threads -> Nat], NEW n \in [Threads -> Nat],
         \A t \in Threads : m[t] <= n[t], Fresh(s, m)
  PROVE  Fresh(s, n)
<1>1. \A i \in 1..Len(s) : s[i][1] \in Threads /\ s[i][2] \in Nat
  BY LineageFacts DEF Ids
<1> QED BY <1>1 DEF Fresh

\* A lineage may go on with a checkpoint that it does not have.
LEMMA FreshAppend ==
  ASSUME NEW s \in Lineages, NEW m, NEW x \in Ids, Fresh(s, m), x \notin Range(s),
         x[2] \in 1..m[x[1]]
  PROVE  Fresh(Append(s, x), m)
<1> DEFINE u == Append(s, x)
<1>1. /\ Len(u) = Len(s) + 1 /\ u[Len(s) + 1] = x
      /\ \A i \in 1..Len(s) : u[i] = s[i]
  BY AppendFacts
<1>2. Len(s) \in Nat /\ \A i \in 1..Len(s) : s[i] # x
  BY LineageFacts
<1> HIDE DEF u
<1>3. Fresh(u, m)
  BY <1>1, <1>2 DEF Fresh
<1> QED BY <1>3 DEF u

\* The checkpoint a run puts is new to every lineage.
LEMMA PutFresh ==
  ASSUME NEW s \in Lineages, NEW m \in [Threads -> Nat], NEW t \in Threads, Fresh(s, m)
  PROVE  /\ <<t, m[t] + 1>> \notin Range(s)
         /\ Fresh(Append(s, <<t, m[t] + 1>>), [m EXCEPT ![t] = @ + 1])
         /\ Fresh(s, [m EXCEPT ![t] = @ + 1])
<1> DEFINE x == <<t, m[t] + 1>>  n == [m EXCEPT ![t] = @ + 1]
<1>1. n \in [Threads -> Nat] /\ \A v \in Threads : m[v] <= n[v]
  OBVIOUS
<1>2. x \notin Range(s)
  <2>1. ASSUME NEW i \in 1..Len(s), s[i] = x PROVE FALSE
    <3>1. s[i][2] \in 1..m[s[i][1]]
      BY DEF Fresh
    <3>2. s[i][1] = t /\ s[i][2] = m[t] + 1
      BY <2>1
    <3> QED BY <3>1, <3>2
  <2> QED BY <2>1, LineageFacts
<1>3. x \in Ids /\ x[2] \in 1..n[x[1]]
  BY DEF Ids
<1>4. Fresh(s, n)
  BY <1>1, FreshStays
<1> HIDE DEF x, n
<1>5. Fresh(Append(s, x), n)
  BY <1>2, <1>3, <1>4, FreshAppend
<1> QED BY <1>2, <1>4, <1>5 DEF x, n

-----------------------------------------------------------------------------
(* Logs of sessions                                                        *)

\* An entry of a session's tree has its parent below it.
LEMMA LogFacts ==
  ASSUME NEW log \in Logs, IsTree(log)
  PROVE  /\ Len(log) \in Nat /\ DOMAIN log = 1..Len(log)
         /\ \A i \in 1..Len(log) : log[i] \in Entry /\ log[i].parent \in 0..i-1
                                   /\ log[i].link \in Links
<1>1. Len(log) \in Nat /\ DOMAIN log = 1..Len(log)
  BY DEF Logs
<1>2. ASSUME NEW i \in 1..Len(log)
      PROVE  log[i] \in Entry /\ log[i].parent \in 0..i-1 /\ log[i].link \in Links
  <2>1. log[i] \in Entry
    BY ElementOfSeq DEF Logs
  <2>2. log[i].parent \in Nat /\ log[i].link \in Links
    BY <2>1 DEF Entry
  <2> QED BY <1>1, <2>1, <2>2 DEF IsTree
<1> QED BY <1>1, <1>2

\* An entry below the leaf it hangs on, or below no other, keeps the tree.
LEMMA LinkedFacts ==
  ASSUME NEW log \in Logs, IsTree(log), NEW at \in 0..Len(log), NEW l \in Links
  PROVE  /\ Linked(log, at, l) \in Logs /\ IsTree(Linked(log, at, l))
         /\ Len(Linked(log, at, l)) = Len(log) + 1
         /\ \A i \in 1..Len(log) : Linked(log, at, l)[i] = log[i]
         /\ Linked(log, at, l)[Len(log) + 1].link = l
<1> DEFINE x == [parent |-> at, link |-> l]  new == Linked(log, at, l)
<1>0. Len(log) \in Nat /\ DOMAIN log = 1..Len(log)
  BY LogFacts
<1>1. x \in Entry /\ x.parent = at /\ x.link = l
  BY <1>0 DEF Entry
<1>2. new = Append(log, x)
  BY DEF Linked
<1> HIDE DEF x, new
<1>3. /\ new \in Logs /\ Len(new) = Len(log) + 1
      /\ \A i \in 1..Len(log) : new[i] = log[i]
      /\ new[Len(log) + 1] = x
  BY <1>1, <1>2, AppendProperties DEF Logs
<1>4. DOMAIN new = 1..Len(log) + 1
  BY <1>3 DEF Logs
<1>5. ASSUME NEW i \in DOMAIN new PROVE new[i].parent < i
  <2>1. CASE i \in 1..Len(log)
    BY <1>0, <1>3, <2>1 DEF IsTree
  <2>2. CASE i = Len(log) + 1
    BY <1>0, <1>1, <1>3, <2>2
  <2> QED BY <1>0, <1>4, <2>1, <2>2
<1> QED BY <1>1, <1>3, <1>5 DEF IsTree, new

\* The recursion of Nearest over the entries above has a solution, ...
LEMMA UpExists ==
  ASSUME NEW log \in Logs, IsTree(log)
  PROVE  \E up : up = [i \in 0..Len(log) |->
            IF i = 0 \/ log[i].link # NoLink THEN i ELSE up[log[i].parent]]
<1> DEFINE Is(up, n) == up = [i \in 0..n |->
              IF i = 0 \/ log[i].link # NoLink THEN i ELSE up[log[i].parent]]
           Bad == {n \in 0..Len(log) : ~\E up : Is(up, n)}
<1>0. Len(log) \in Nat /\ \A i \in 1..Len(log) : log[i].parent \in 0..i-1
  BY LogFacts
<1>1. SUFFICES ASSUME Bad # {} PROVE FALSE
  BY <1>0
<1>2. Bad \subseteq Nat
  BY <1>0
<1>3. PICK n \in Bad : \A m \in Bad : n <= m
  BY <1>1, <1>2, LeastNat
<1>4. n # 0
  <2>1. Is([i \in 0..0 |-> 0], 0)
    OBVIOUS
  <2> QED BY <2>1
<1>5. n - 1 \in 0..Len(log) /\ n - 1 \notin Bad
  <2>1. n \in 0..Len(log)
    OBVIOUS
  <2> HIDE DEF Bad
  <2> QED BY <1>0, <1>3, <1>4, <2>1
<1>6. PICK up : Is(up, n - 1)
  BY <1>5
<1> DEFINE g == [i \in 0..n |->
                   IF i = n THEN (IF log[n].link # NoLink THEN n ELSE up[log[n].parent])
                   ELSE up[i]]
<1>7. Is(g, n)
  <2>1. ASSUME NEW i \in 0..n
        PROVE  g[i] = IF i = 0 \/ log[i].link # NoLink THEN i ELSE g[log[i].parent]
    <3>1. CASE i = n
      <4>1. log[n].parent \in 0..n-1
        BY <1>0, <1>4
      <4> QED BY <1>4, <3>1, <4>1
    <3>2. CASE i # n
      <4>1. i \in 0..n-1
        BY <3>2, <1>0
      <4>2. up[i] = IF i = 0 \/ log[i].link # NoLink THEN i ELSE up[log[i].parent]
        BY <1>6, <4>1
      <4>3. i # 0 => log[i].parent \in 0..n-1
        BY <1>0, <4>1
      <4> QED BY <4>1, <4>2, <4>3
    <3> QED BY <3>1, <3>2
  <2> HIDE DEF g
  <2>2. g = [i \in 0..n |-> g[i]]
    BY DEF g
  <2> QED BY <2>1, <2>2
<1> QED BY <1>7

\* ... which is an entry of the session or 0.
LEMMA NearestType ==
  ASSUME NEW log \in Logs, IsTree(log), NEW e \in 0..Len(log)
  PROVE  Nearest(log, e) \in 0..Len(log)
<1> DEFINE up == CHOOSE up : up = [i \in 0..Len(log) |->
            IF i = 0 \/ log[i].link # NoLink THEN i ELSE up[log[i].parent]]
<1>1. Nearest(log, e) = up[e]
  BY DEF Nearest
<1>2. up = [i \in 0..Len(log) |->
            IF i = 0 \/ log[i].link # NoLink THEN i ELSE up[log[i].parent]]
  <2>1. \E up1 : up1 = [i \in 0..Len(log) |->
            IF i = 0 \/ log[i].link # NoLink THEN i ELSE up1[log[i].parent]]
    BY UpExists
  <2> QED BY <2>1
<1> HIDE DEF up
<1>0. Len(log) \in Nat /\ \A i \in 1..Len(log) : log[i].parent \in 0..i-1
  BY LogFacts
<1> DEFINE Bad == {i \in 0..Len(log) : up[i] \notin 0..Len(log)}
<1>3. ASSUME Bad # {} PROVE FALSE
  <2>0. Bad \subseteq Nat
    BY <1>0
  <2>1. PICK n \in Bad : \A m \in Bad : n <= m
    BY <2>0, <1>3, LeastNat
  <2>2. n # 0 /\ up[n] = up[log[n].parent]
    BY <1>2
  <2>3. log[n].parent \in 0..n-1
    BY <2>2, <1>0
  <2> QED BY <2>1, <2>2, <2>3, <1>0
<1> QED BY <1>1, <1>3

\* The link an entry resolves to is a link of the session or none.
LEMMA LinkAtFacts ==
  ASSUME NEW log \in Logs, IsTree(log), NEW e \in 0..Len(log)
  PROVE  /\ LinkAt(log, e) \in Links
         /\ LinkAt(log, e) # NoLink => \E i \in DOMAIN log : LinkAt(log, e) = log[i].link
<1>1. Nearest(log, e) \in 0..Len(log)
  BY NearestType
<1>2. /\ Len(log) \in Nat /\ DOMAIN log = 1..Len(log)
      /\ \A i \in 1..Len(log) : log[i].link \in Links
  BY LogFacts
<1>3. NoLink \in Links
  BY DEF NoLink, Links, Ids, Places, Threads
<1> QED BY <1>1, <1>2, <1>3 DEF LinkAt

\* The recursion of Branch has a solution too, ...
LEMMA PathExists ==
  ASSUME NEW log \in Logs, IsTree(log)
  PROVE  \E path : path = [i \in 0..Len(log) |->
            IF i = 0 THEN <<>>
            ELSE Linked(path[log[i].parent], Len(path[log[i].parent]), log[i].link)]
<1> DEFINE Is(path, n) == path = [i \in 0..n |->
              IF i = 0 THEN <<>>
              ELSE Linked(path[log[i].parent], Len(path[log[i].parent]), log[i].link)]
           Bad == {n \in 0..Len(log) : ~\E path : Is(path, n)}
<1>0. Len(log) \in Nat /\ \A i \in 1..Len(log) : log[i].parent \in 0..i-1
  BY LogFacts
<1>1. SUFFICES ASSUME Bad # {} PROVE FALSE
  BY <1>0
<1>2. Bad \subseteq Nat
  BY <1>0
<1>3. PICK n \in Bad : \A m \in Bad : n <= m
  BY <1>1, <1>2, LeastNat
<1>4. n # 0
  <2>1. Is([i \in 0..0 |-> <<>>], 0)
    OBVIOUS
  <2> QED BY <2>1
<1>5. n - 1 \in 0..Len(log) /\ n - 1 \notin Bad
  <2>1. n \in 0..Len(log)
    OBVIOUS
  <2> HIDE DEF Bad
  <2> QED BY <1>0, <1>3, <1>4, <2>1
<1>6. PICK path : Is(path, n - 1)
  BY <1>5
<1> DEFINE above == path[log[n].parent]
           g == [i \in 0..n |-> IF i = n THEN Linked(above, Len(above), log[n].link)
                                ELSE path[i]]
<1>7. Is(g, n)
  <2>1. ASSUME NEW i \in 0..n
        PROVE  g[i] = IF i = 0 THEN <<>>
                      ELSE Linked(g[log[i].parent], Len(g[log[i].parent]), log[i].link)
    <3>1. CASE i = n
      <4>1. log[n].parent \in 0..n-1
        BY <1>0, <1>4
      <4> QED BY <1>4, <3>1, <4>1
    <3>2. CASE i # n
      <4>1. i \in 0..n-1
        BY <3>2, <1>0
      <4>2. path[i] = IF i = 0 THEN <<>>
                      ELSE Linked(path[log[i].parent], Len(path[log[i].parent]), log[i].link)
        BY <1>6, <4>1
      <4>3. i # 0 => log[i].parent \in 0..n-1
        BY <1>0, <4>1
      <4> QED BY <4>1, <4>2, <4>3
    <3> QED BY <3>1, <3>2
  <2> HIDE DEF g
  <2>2. g = [i \in 0..n |-> g[i]]
    BY DEF g
  <2> QED BY <2>1, <2>2
<1> QED BY <1>7

\* ... and a branch is a session of its own whose links are links of the
\* session it comes from.
LEMMA BranchFacts ==
  ASSUME NEW log \in Logs, IsTree(log), NEW e \in 0..Len(log)
  PROVE  /\ Branch(log, e) \in Logs /\ IsTree(Branch(log, e))
         /\ \A i \in DOMAIN Branch(log, e) : \E j \in DOMAIN log :
              Branch(log, e)[i].link = log[j].link
<1> DEFINE path == CHOOSE path : path = [i \in 0..Len(log) |->
            IF i = 0 THEN <<>>
            ELSE Linked(path[log[i].parent], Len(path[log[i].parent]), log[i].link)]
<1>1. Branch(log, e) = path[e]
  BY DEF Branch
<1>2. path = [i \in 0..Len(log) |->
            IF i = 0 THEN <<>>
            ELSE Linked(path[log[i].parent], Len(path[log[i].parent]), log[i].link)]
  <2>1. \E path1 : path1 = [i \in 0..Len(log) |->
            IF i = 0 THEN <<>>
            ELSE Linked(path1[log[i].parent], Len(path1[log[i].parent]), log[i].link)]
    BY PathExists
  <2> QED BY <2>1
<1> HIDE DEF path
<1>0. /\ Len(log) \in Nat /\ DOMAIN log = 1..Len(log)
      /\ \A i \in 1..Len(log) : log[i].parent \in 0..i-1 /\ log[i].link \in Links
  BY LogFacts
<1> DEFINE Fine(b) == /\ b \in Logs /\ IsTree(b)
                      /\ \A i \in DOMAIN b : \E j \in DOMAIN log : b[i].link = log[j].link
           Bad == {i \in 0..Len(log) : ~Fine(path[i])}
<1>3. ASSUME Bad # {} PROVE FALSE
  <2>0. Bad \subseteq Nat
    BY <1>0
  <2>1. PICK n \in Bad : \A m \in Bad : n <= m
    BY <2>0, <1>3, LeastNat
  <2>2. Fine(<<>>)
    BY DEF Logs, IsTree
  <2>3. n # 0
    BY <1>2, <2>2
  <2> DEFINE above == path[log[n].parent]
  <2>4. n \in 1..Len(log) /\ log[n].parent \in 0..n-1
    BY <2>3, <1>0
  <2>5. Fine(above)
    <3>1. log[n].parent \in 0..Len(log) /\ ~(n <= log[n].parent)
      BY <2>4, <1>0
    <3>2. log[n].parent \notin Bad
      <4> HIDE DEF Bad
      <4> QED BY <2>1, <3>1
    <3> QED BY <3>1, <3>2
  <2>6. path[n] = Linked(above, Len(above), log[n].link)
    BY <1>2, <2>3
  <2> HIDE DEF above
  <2>7. Len(above) \in 0..Len(above) /\ DOMAIN above = 1..Len(above)
    BY <2>5, LogFacts
  <2>8. /\ path[n] \in Logs /\ IsTree(path[n]) /\ Len(path[n]) = Len(above) + 1
        /\ \A i \in 1..Len(above) : path[n][i] = above[i]
        /\ path[n][Len(above) + 1].link = log[n].link
    <3>1. above \in Logs /\ IsTree(above) /\ log[n].link \in Links
      BY <1>0, <2>4, <2>5
    <3> QED BY <2>6, <2>7, <3>1, LinkedFacts
  <2>9. DOMAIN path[n] = 1..Len(above) + 1
    BY <2>8, LogFacts
  <2>10. ASSUME NEW i \in DOMAIN path[n]
         PROVE  \E j \in DOMAIN log : path[n][i].link = log[j].link
    <3>1. CASE i \in 1..Len(above)
      <4>1. path[n][i] = above[i] /\ i \in DOMAIN above
        BY <2>7, <2>8, <3>1
      <4> QED BY <2>5, <4>1
    <3>2. CASE i = Len(above) + 1
      BY <1>0, <2>4, <2>8, <3>2
    <3> QED BY <2>7, <2>9, <3>1, <3>2
  <2>11. Fine(path[n])
    BY <2>8, <2>10
  <2> QED BY <2>11
<1>4. Fine(path[e])
  BY <1>3
<1> QED BY <1>1, <1>4

-----------------------------------------------------------------------------
(* Calls                                                                   *)

\* No thread, manifest or path is a thread or a caller.
LEMMA NoneIsNone ==
  None \notin Forks /\ None \notin Callers /\ Src \notin Forks /\ Src \in Threads
  BY ForkConstants DEF Threads, Forks

\* A caller that goes on keeps its arguments.
LEMMA Going ==
  ASSUME ForkTyped, NEW c \in Callers, NEW l \in Points, Goto(c, l)
  PROVE  /\ call' \in [Callers -> Calls]
         /\ call'[c].pc = l /\ call'[c].fork = call[c].fork
         /\ call'[c].lineage = call[c].lineage
         /\ call'[c].path = call[c].path /\ call'[c].copied = call[c].copied
         /\ \A d \in Callers : d # c => call'[d] = call[d]
<1>1. call \in [Callers -> Calls]
  BY DEF ForkTyped
<1> QED BY <1>1 DEF Goto, Calls

\* A caller that throws has forgotten them.
LEMMA Throwing ==
  ASSUME ForkTyped, NEW c \in Callers, Throw(c)
  PROVE  /\ call' \in [Callers -> Calls]
         /\ call'[c].pc = "idle" /\ call'[c].fork = None /\ call'[c].lineage = <<>>
         /\ CallSound(c)'
         /\ \A d \in Callers : d # c => call'[d] = call[d]
<1>1. Idle \in Calls
  BY DEF Idle, Calls, Points, Threads, Lineages, Places
<1>2. /\ call' \in [Callers -> Calls] /\ call'[c] = Idle
      /\ \A d \in Callers : d # c => call'[d] = call[d]
  BY <1>1 DEF ForkTyped, Throw
<1>3. /\ call'[c].pc = "idle" /\ call'[c].fork = None /\ call'[c].lineage = <<>>
  BY <1>2 DEF Idle
<1>4. CallSound(c)'
  BY <1>3 DEF CallSound, At, ForkOf, Fresh
<1> QED BY <1>2, <1>3, <1>4

\* A caller on its way takes down a path, ...
LEMMA GoingTo ==
  ASSUME ForkTyped, NEW c \in Callers, NEW l \in Points, NEW p \in Places,
         call' = [call EXCEPT ![c].pc = l, ![c].path = p]
  PROVE  /\ call' \in [Callers -> Calls]
         /\ call'[c].pc = l /\ call'[c].fork = call[c].fork
         /\ call'[c].lineage = call[c].lineage
         /\ call'[c].path = p /\ call'[c].copied = call[c].copied
         /\ \A d \in Callers : d # c => call'[d] = call[d]
<1>1. call \in [Callers -> Calls]
  BY DEF ForkTyped
<1> DEFINE q == [call[c] EXCEPT !.pc = l, !.path = p]
<1>2. /\ q \in Calls /\ q.pc = l /\ q.path = p /\ q.fork = call[c].fork
      /\ q.lineage = call[c].lineage /\ q.copied = call[c].copied
  BY <1>1 DEF Calls
<1>3. call' = [call EXCEPT ![c] = q]
  BY <1>1 DEF Calls
<1> HIDE DEF q
<1> QED BY <1>1, <1>2, <1>3

\* ... or counts a checkpoint.
LEMMA Counting ==
  ASSUME ForkTyped, NEW c \in Callers, NEW l \in Points,
         call' = [call EXCEPT ![c].copied = @ + 1, ![c].pc = l]
  PROVE  /\ call' \in [Callers -> Calls]
         /\ call'[c].pc = l /\ call'[c].fork = call[c].fork
         /\ call'[c].lineage = call[c].lineage
         /\ call'[c].path = call[c].path /\ call'[c].copied = call[c].copied + 1
         /\ \A d \in Callers : d # c => call'[d] = call[d]
<1>1. call \in [Callers -> Calls]
  BY DEF ForkTyped
<1> DEFINE q == [call[c] EXCEPT !.copied = call[c].copied + 1, !.pc = l]
<1>2. /\ q \in Calls /\ q.pc = l /\ q.path = call[c].path /\ q.fork = call[c].fork
      /\ q.lineage = call[c].lineage /\ q.copied = call[c].copied + 1
  <2>1. call[c] \in Calls /\ call[c].copied + 1 \in Nat
    BY <1>1 DEF Calls
  <2> QED BY <2>1 DEF Calls
<1>3. call' = [call EXCEPT ![c] = q]
  BY <1>1 DEF Calls
<1> HIDE DEF q
<1> QED BY <1>1, <1>2, <1>3

\* A call that goes on with its lineage is sound.
LEMMA GoesOnSound ==
  ASSUME FInv, NEW c \in Callers, ~At(c, "idle"), made' = made,
         call'[c].pc # "idle", call'[c].fork = call[c].fork, call'[c].lineage = call[c].lineage,
         call'[c].pc \in {"create", "publish", "add", "recheck", "capture"} =>
           call'[c].copied = 0,
         call'[c].pc = "copy" => call'[c].copied < Len(call[c].lineage)
  PROVE  CallSound(c)'
  BY DEF FInv, CallSound, At, ForkOf

-----------------------------------------------------------------------------
(* One fork at a time                                                      *)

\* What a fork that has returned keeps through a step, and the first thread
Keeps ==
  /\ orphaned \subseteq orphaned' /\ disturbed \subseteq disturbed'
  /\ Begins(thr[Src], thr'[Src])
  /\ \A f \in Forks \ disturbed' : returned[f] # <<>> =>
       /\ returned'[f] = returned[f] /\ Begins(thr[f], thr'[f])
       /\ man'[f] = man[f] /\ wt'[f] = wt[f]

\* A fork is sound after a step that leaves it alone, if no call begins or
\* ends its making.
LEMMA ForkKept ==
  ASSUME NEW g \in Forks, ForkSound(g), thr'[g] = thr[g], man'[g] = man[g], wt'[g] = wt[g],
         returned'[g] = returned[g], g \in orphaned' <=> g \in orphaned,
         \A d \in Callers : \/ call'[d] = call[d]
                            \/ ~Makes(d, g) /\ ~Makes(d, g)' /\ ~Returns(d, g)'
  PROVE  ForkSound(g)'
<1>1. ASSUME NEW d \in Callers, call'[d] = call[d]
      PROVE  /\ Makes(d, g)' <=> Makes(d, g)
             /\ Returns(d, g)' <=> Returns(d, g)
  BY <1>1 DEF Makes, Returns, ForkOf, At
<1>2. \A d \in Callers : Makes(d, g)' <=> Makes(d, g)
  BY <1>1
<1>3. ASSUME NEW d \in Callers, Makes(d, g)' PROVE HalfMade(d, g)'
  <2>1. call'[d] = call[d] /\ Makes(d, g)
    BY <1>2, <1>3
  <2> QED BY <2>1 DEF ForkSound, HalfMade, At
<1>4. ASSUME NEW d \in Callers, Returns(d, g)' PROVE returned'[g] = call'[d].lineage
  <2>1. call'[d] = call[d] /\ Returns(d, g)
    BY <1>1, <1>4
  <2> QED BY <2>1 DEF ForkSound
<1>5. (returned[g] # <<>> => Whole(g))' /\ (Gone(g) => Gone(g)')
  BY DEF ForkSound, Whole, Gone, Left, Nothing
<1> QED BY <1>2, <1>3, <1>4, <1>5 DEF ForkSound

\* A step of c that concerns f only
Only(c, f) ==
  /\ \A d \in Callers : d # c => call'[d] = call[d]
  /\ \A t \in Threads : t # f => thr'[t] = thr[t]
  /\ \A g \in Forks : g # f => /\ man'[g] = man[g] /\ wt'[g] = wt[g]
                              /\ returned'[g] = returned[g]
                              /\ (g \in orphaned' <=> g \in orphaned)
  /\ made' = made /\ orphaned \subseteq orphaned' /\ disturbed \subseteq disturbed'
  /\ ForkOf(c) \in {f, None} /\ call'[c].fork \in {f, None}

\* Such a step keeps the invariant if it does for c and f.
LEMMA OneFork ==
  ASSUME FInv, NEW c \in Callers, NEW f \in Forks, ForkTyped', Only(c, f),
         CallSound(c)', Fresh(thr'[f], made),
         f \notin disturbed' =>
           /\ ForkSound(f)'
           /\ returned[f] # <<>> =>
                /\ returned'[f] = returned[f] /\ thr'[f] = thr[f]
                /\ man'[f] = man[f] /\ wt'[f] = wt[f]
  PROVE  FInv' /\ Keeps
<1>0. ASSUME NEW g \in Forks, g # f
      PROVE  /\ g \in Threads /\ thr'[g] = thr[g]
             /\ man'[g] = man[g] /\ wt'[g] = wt[g] /\ returned'[g] = returned[g]
             /\ (g \in orphaned' <=> g \in orphaned)
  <2>1. g \in Threads
    BY DEF Threads
  <2>2. thr'[g] = thr[g]
    BY <1>0, <2>1 DEF Only
  <2>3. /\ man'[g] = man[g] /\ wt'[g] = wt[g] /\ returned'[g] = returned[g]
        /\ (g \in orphaned' <=> g \in orphaned)
    BY <1>0 DEF Only
  <2> QED BY <2>1, <2>2, <2>3
<1>1. \A t \in Threads : Fresh(thr[t], made)'
  BY DEF FInv, Only
<1>2. ASSUME NEW d \in Callers PROVE CallSound(d)'
  BY <1>2 DEF FInv, Only, CallSound, At, ForkOf
<1>3. ASSUME NEW g \in Forks \ disturbed', g # f PROVE ForkSound(g)'
  <2>1. /\ g \in Forks \ disturbed
        /\ thr'[g] = thr[g] /\ man'[g] = man[g] /\ wt'[g] = wt[g] /\ returned'[g] = returned[g]
        /\ (g \in orphaned' <=> g \in orphaned)
    BY <1>0, <1>3 DEF Only
  <2>2. ~Makes(c, g) /\ ~Makes(c, g)' /\ ~Returns(c, g)'
    BY <1>3, NoneIsNone DEF Only, Makes, Returns, ForkOf
  <2>3. \A d \in Callers : d # c => call'[d] = call[d]
    BY DEF Only
  <2>4. ForkSound(g)
    BY <2>1 DEF FInv
  <2> QED BY <2>1, <2>2, <2>3, <2>4, ForkKept
<1>4. FInv'
  BY <1>1, <1>2, <1>3 DEF FInv
<1>5. \A t \in Threads : Begins(thr[t], thr[t])
  BY LineageFacts DEF Begins, FInv, ForkTyped
<1>6. Begins(thr[Src], thr'[Src])
  BY <1>5, NoneIsNone DEF Only
<1>7. ASSUME NEW g \in Forks \ disturbed', returned[g] # <<>>
      PROVE  /\ returned'[g] = returned[g] /\ thr'[g] = thr[g]
             /\ man'[g] = man[g] /\ wt'[g] = wt[g]
  <2>1. CASE g = f
    BY <1>7, <2>1
  <2>2. CASE g # f
    BY <1>0, <1>7, <2>2
  <2> QED BY <2>1, <2>2
<1> QED BY <1>4, <1>5, <1>6, <1>7 DEF Keeps, Only, Threads

\* While a call makes an undisturbed fork it is the only one that does.
LEMMA Alone ==
  ASSUME FInv, NEW f \in Forks \ disturbed, NEW c \in Callers, Makes(c, f),
         NEW d \in Callers, d # c
  PROVE  ~Makes(d, f) /\ ~Returns(d, f)
<1>1. HalfMade(c, f) /\ (Makes(d, f) => HalfMade(d, f))
      /\ (Returns(d, f) => returned[f] = call[d].lineage)
  BY DEF FInv, ForkSound
<1>2. Returns(d, f) => call[d].lineage # <<>>
  BY DEF FInv, CallSound, Returns, At
<1> QED BY <1>1, <1>2 DEF HalfMade

\* A step in the making of a fork: it goes on, it is undone, or it is done.
LEMMA MakerStep ==
  ASSUME FInv, NEW c \in Callers, NEW f \in Forks, Makes(c, f), ForkTyped', Only(c, f),
         disturbed' = disturbed, CallSound(c)', Fresh(thr'[f], made),
         f \notin disturbed =>
           \/ Makes(c, f)' /\ HalfMade(c, f)'
           \/ call'[c].fork = None /\ returned'[f] = <<>> /\ Gone(f)'
           \/ Returns(c, f)' /\ returned'[f] = call'[c].lineage /\ Whole(f)'
  PROVE  FInv' /\ Keeps
<1>1. ASSUME f \notin disturbed PROVE ForkSound(f)' /\ returned[f] = <<>>
  <2>1. \A d \in Callers : d # c => ~Makes(d, f)' /\ ~Returns(d, f)'
    BY <1>1, Alone DEF Only, Makes, Returns, ForkOf, At
  <2>2. returned[f] = <<>>
    BY <1>1 DEF FInv, ForkSound, HalfMade
  <2>3. CASE Makes(c, f)' /\ HalfMade(c, f)'
    <3>1. ~Returns(c, f)' /\ returned'[f] = <<>>
      BY <2>3 DEF Makes, Returns, At, Making, HalfMade
    <3> QED BY <2>1, <2>2, <2>3, <3>1 DEF ForkSound
  <2>4. CASE call'[c].fork = None /\ returned'[f] = <<>> /\ Gone(f)'
    <3>1. ~Makes(c, f)' /\ ~Returns(c, f)'
      BY <2>4, NoneIsNone DEF Makes, Returns, ForkOf
    <3> QED BY <2>1, <2>2, <2>4, <3>1 DEF ForkSound
  <2>5. CASE Returns(c, f)' /\ returned'[f] = call'[c].lineage /\ Whole(f)'
    <3>1. ~Makes(c, f)'
      BY <2>5 DEF Makes, Returns, At, Making
    <3>2. returned'[f] # <<>>
      BY <2>5 DEF CallSound, Returns, At
    <3> QED BY <2>1, <2>2, <2>5, <3>1, <3>2 DEF ForkSound
  <2> QED BY <1>1, <2>3, <2>4, <2>5
<1> QED BY <1>1, OneFork

-----------------------------------------------------------------------------
(* The steps of a call                                                     *)

\* A call on its way has a fork and a lineage that is not empty.
LEMMA CallFacts ==
  ASSUME FInv, NEW c \in Callers, ~At(c, "idle")
  PROVE  /\ ForkOf(c) \in Forks /\ call[c] \in Calls /\ call[c].src \in Threads
         /\ call[c].lineage \in Lineages /\ Len(call[c].lineage) \in Nat \ {0}
         /\ Last(call[c].lineage) \in Ids
<1>1. call[c] \in Calls /\ ForkOf(c) # None /\ call[c].lineage # <<>>
  BY DEF FInv, ForkTyped, CallSound
<1>2. ForkOf(c) \in Forks /\ call[c].src \in Threads /\ call[c].lineage \in Lineages
  BY <1>1 DEF Calls, ForkOf
<1>3. Len(call[c].lineage) \in Nat \ {0}
  BY <1>1, <1>2, LineageFacts
<1>4. Last(call[c].lineage) \in Ids
  BY <1>2, <1>3, LineageFacts DEF Last
<1> QED BY <1>1, <1>2, <1>3, <1>4

\* A call that has not its manifest yet, or has returned, moves on without
\* changing anything but itself.
LEMMA MovesOn ==
  ASSUME FInv, NEW c \in Callers, NEW f \in Forks, ForkOf(c) \in {f, None},
         call[c].pc \notin Making,
         call' \in [Callers -> Calls], \A d \in Callers : d # c => call'[d] = call[d],
         call'[c].fork \in {f, None}, CallSound(c)',
         thr' = thr, made' = made, man' = man, wt' = wt, dirty' = dirty,
         returned' = returned, orphaned' = orphaned,
         \/ disturbed' = disturbed /\ call'[c].pc \in {"idle", "create", "publish"}
         \/ disturbed' = disturbed \cup {f}
  PROVE  FInv' /\ Keeps
<1>1. ForkTyped' /\ Only(c, f) /\ Fresh(thr'[f], made)
  BY DEF FInv, ForkTyped, Only, Threads
<1>2. ASSUME f \notin disturbed' PROVE ForkSound(f)'
  <2>1. ForkSound(f) /\ ~Makes(c, f) /\ ~Makes(c, f)' /\ ~Returns(c, f)'
    BY <1>2 DEF FInv, Makes, Returns, At, Making
  <2> QED BY <2>1, ForkKept
<1> QED BY <1>1, <1>2, OneFork

\* createFork and publishManifest
LEMMA CreateKeeps ==
  ASSUME FInv, NEW c \in Callers, CreateFork(c) \/ PublishManifest(c)
  PROVE  FInv' /\ Keeps
<1>t. ForkTyped
  BY DEF FInv
<1>0. ~At(c, "idle") /\ call[c].pc \in {"create", "publish"}
  BY DEF CreateFork, PublishManifest, At
<1>1. PICK f \in Forks : f = ForkOf(c)
  BY <1>0, CallFacts
<1>2. call[c].copied = 0 /\ call[c].pc \notin Making /\ call[c].fork = f
  BY <1>0, <1>1 DEF FInv, CallSound, Making, ForkOf
<1>3. ASSUME Throw(c), thr' = thr, made' = made, man' = man, wt' = wt, dirty' = dirty,
             returned' = returned, orphaned' = orphaned, disturbed' = disturbed
      PROVE  FInv' /\ Keeps
  <2>1. /\ call' \in [Callers -> Calls] /\ CallSound(c)'
        /\ call'[c].pc = "idle" /\ call'[c].fork = None
        /\ \A d \in Callers : d # c => call'[d] = call[d]
    BY <1>t, <1>3, Throwing
  <2> QED BY <1>1, <1>2, <1>3, <2>1, MovesOn
<1>4. CASE CreateFork(c)
  <2>0. /\ thr' = thr /\ made' = made /\ man' = man /\ wt' = wt /\ dirty' = dirty
        /\ returned' = returned /\ orphaned' = orphaned
    BY <1>4 DEF CreateFork
  <2>1. CASE Goto(c, "publish") /\ disturbed' = disturbed
    <3>1. /\ call' \in [Callers -> Calls]
          /\ call'[c].pc = "publish" /\ call'[c].fork = call[c].fork
          /\ call'[c].lineage = call[c].lineage /\ call'[c].copied = call[c].copied
          /\ \A d \in Callers : d # c => call'[d] = call[d]
      BY <1>t, <2>1, Going DEF Points
    <3>2. CallSound(c)'
      BY <1>0, <1>2, <2>0, <3>1, GoesOnSound
    <3> QED BY <1>1, <1>2, <2>0, <2>1, <3>1, <3>2, MovesOn
  <2>2. CASE /\ man[f] # None /\ disturbed' = disturbed \cup {f}
             /\ call' = [call EXCEPT ![c].pc = "capture", ![c].path = man[f].path]
    <3>0. man[f].path \in Places
      BY <1>t, <2>2 DEF ForkTyped, Manifests, Places
    <3>1. /\ call' \in [Callers -> Calls]
          /\ call'[c].pc = "capture" /\ call'[c].fork = call[c].fork
          /\ call'[c].lineage = call[c].lineage /\ call'[c].copied = call[c].copied
          /\ \A d \in Callers : d # c => call'[d] = call[d]
      BY <1>t, <2>2, <3>0, GoingTo DEF Points
    <3>2. CallSound(c)'
      BY <1>0, <1>2, <2>0, <3>1, GoesOnSound
    <3> QED BY <1>1, <1>2, <2>0, <2>2, <3>1, <3>2, MovesOn
  <2>3. CASE Throw(c) /\ disturbed' = disturbed
    BY <1>3, <2>0, <2>3
  <2> QED BY <1>1, <1>4, <2>1, <2>2, <2>3 DEF CreateFork
<1>5. CASE PublishManifest(c)
  <2>0. /\ thr' = thr /\ made' = made /\ wt' = wt /\ dirty' = dirty
        /\ returned' = returned /\ orphaned' = orphaned /\ disturbed' = disturbed
    BY <1>5 DEF PublishManifest
  <2>1. CASE man[f] # None
    BY <1>1, <1>3, <1>5, <2>0, <2>1 DEF PublishManifest
  <2>2. CASE man[f] = None
    <3> DEFINE m == [src |-> call[c].src, last |-> Last(call[c].lineage), path |-> c]
    <3>1. man' = [man EXCEPT ![f] = m] /\ call' = [call EXCEPT ![c].pc = "add", ![c].path = c]
      BY <1>1, <1>5, <2>2 DEF PublishManifest
    <3>2. m \in Manifests /\ m.path = c
      BY <1>0, CallFacts DEF Manifests
    <3> HIDE DEF m
    <3>3. /\ call' \in [Callers -> Calls]
          /\ call'[c].pc = "add" /\ call'[c].fork = call[c].fork /\ call'[c].path = c
          /\ call'[c].lineage = call[c].lineage /\ call'[c].copied = call[c].copied
          /\ \A d \in Callers : d # c => call'[d] = call[d]
      BY <1>t, <3>1, GoingTo DEF Points, Places
    <3>4. /\ man' \in [Forks -> Manifests \cup {None}] /\ man'[f] = m
          /\ \A g \in Forks : g # f => man'[g] = man[g]
      BY <1>t, <3>1, <3>2 DEF ForkTyped
    <3>5. ForkTyped' /\ Only(c, f) /\ Fresh(thr'[f], made)
      BY <1>1, <1>2, <2>0, <3>3, <3>4 DEF FInv, ForkTyped, Only, Threads
    <3>6. CallSound(c)'
      BY <1>0, <1>2, <2>0, <3>3, GoesOnSound
    <3>7. m # None
      BY <3>2, ForkConstants DEF Manifests, Ids
    <3>8. ASSUME f \notin disturbed PROVE ForkSound(f)' /\ returned[f] = <<>>
      <4>1. ForkSound(f)
        BY <3>8 DEF FInv
      <4>2. /\ \A d \in Callers : ~Makes(d, f)
            /\ returned[f] = <<>>
        BY <2>2, <4>1 DEF ForkSound, HalfMade, Whole
      <4>3. Nothing(f) /\ f \notin orphaned
        BY <2>2, <4>1, <4>2 DEF ForkSound, Gone, Left
      <4>4. HalfMade(c, f)' /\ Makes(c, f)' /\ ~Returns(c, f)'
        BY <1>2, <2>0, <3>2, <3>3, <3>4, <3>7, <4>2, <4>3
           DEF HalfMade, Nothing, At, Makes, Returns, ForkOf, Making
      <4>5. \A d \in Callers : d # c => ~Makes(d, f)' /\ (Returns(d, f)' => Returns(d, f))
        BY <3>3, <4>2 DEF Makes, Returns, ForkOf, At
      <4>6. \A d \in Callers : ~Returns(d, f) \/ returned[f] = call[d].lineage
        BY <4>1 DEF ForkSound
      <4> QED BY <2>0, <3>3, <4>2, <4>4, <4>5, <4>6 DEF ForkSound
    <3> QED BY <2>0, <3>5, <3>6, <3>8, OneFork
  <2> QED BY <2>1, <2>2
<1> QED BY <1>4, <1>5


\* What the call that makes a fork may build on
LEMMA MakerFacts ==
  ASSUME FInv, NEW c \in Callers, call[c].pc \in Making
  PROVE  /\ ForkTyped /\ ~At(c, "idle") /\ ForkOf(c) \in Forks /\ Makes(c, ForkOf(c))
         /\ thr[ForkOf(c)] \in Lineages /\ Fresh(thr[ForkOf(c)], made)
         /\ call[c].lineage \in Lineages /\ Fresh(call[c].lineage, made)
         /\ ForkOf(c) \notin disturbed => HalfMade(c, ForkOf(c))
<1>1. ForkTyped /\ ~At(c, "idle")
  BY DEF FInv, Making, At
<1>2. ForkOf(c) \in Forks /\ Makes(c, ForkOf(c)) /\ call[c].lineage \in Lineages
  BY <1>1, CallFacts DEF Makes
<1>3. thr[ForkOf(c)] \in Lineages /\ Fresh(thr[ForkOf(c)], made)
  BY <1>1, <1>2 DEF FInv, ForkTyped, Threads
<1>4. Fresh(call[c].lineage, made)
  BY DEF FInv, CallSound
<1>5. ForkOf(c) \notin disturbed => HalfMade(c, ForkOf(c))
  BY <1>2 DEF FInv, ForkSound
<1> QED BY <1>1, <1>2, <1>3, <1>4, <1>5

\* The call goes on making its fork f: it comes to l with n checkpoints copied,
\* and thread s and worktrees w are as far as that.
Turns(c, f, l, n, s, w) ==
  /\ call' \in [Callers -> Calls]
  /\ call'[c].pc = l /\ call'[c].fork = call[c].fork /\ call'[c].lineage = call[c].lineage
  /\ call'[c].path = call[c].path /\ call'[c].copied = n
  /\ \A d \in Callers : d # c => call'[d] = call[d]
  /\ thr' = [thr EXCEPT ![f] = s] /\ wt' = [wt EXCEPT ![f] = w]
  /\ made' = made /\ man' = man /\ dirty' = dirty
  /\ returned' = returned /\ orphaned' = orphaned /\ disturbed' = disturbed
  /\ s \in Lineages /\ Fresh(s, made) /\ w \subseteq Callers
  /\ l \in {"add", "recheck", "capture"} => n = 0
  /\ l = "copy" => n < Len(call[c].lineage)
  /\ f \notin disturbed =>
       /\ w = IF l \in {"add", "unlink"} THEN {} ELSE {c}
       /\ l \in {"add", "recheck", "capture", "cleanup", "unlink"} => s = <<>>
       /\ l = "copy" => Len(s) = n /\ Begins(s, call[c].lineage)
       /\ l = "retain" => Begins(call[c].lineage, s)

\* Such a step keeps the invariant.
LEMMA MakerTurns ==
  ASSUME FInv, NEW c \in Callers, NEW f \in Forks, f = ForkOf(c), call[c].pc \in Making,
         NEW l \in Making, NEW n, NEW s, NEW w, Turns(c, f, l, n, s, w)
  PROVE  FInv' /\ Keeps
<1>1. ForkTyped /\ ~At(c, "idle") /\ Makes(c, f) /\ (f \notin disturbed => HalfMade(c, f))
  BY MakerFacts
<1>2. /\ thr' \in [Threads -> Lineages] /\ thr'[f] = s
      /\ \A t \in Threads : t # f => thr'[t] = thr[t]
  BY <1>1 DEF ForkTyped, Threads, Turns
<1>3. /\ wt' \in [Forks -> SUBSET Callers] /\ wt'[f] = w
      /\ \A g \in Forks : g # f => wt'[g] = wt[g]
  BY <1>1 DEF ForkTyped, Turns
<1>4. ForkTyped' /\ Only(c, f) /\ disturbed' = disturbed /\ Fresh(s, made)
  BY <1>1, <1>2, <1>3 DEF ForkTyped, Only, ForkOf, Turns
<1>5. CallSound(c)'
  BY <1>1, GoesOnSound DEF Making, Turns
<1>6. Makes(c, f)'
  BY DEF Makes, ForkOf, Turns
<1>7. ASSUME f \notin disturbed PROVE HalfMade(c, f)'
  BY <1>1, <1>2, <1>3, <1>7 DEF HalfMade, At, Turns
<1> QED BY <1>1, <1>2, <1>4, <1>5, <1>6, <1>7, MakerStep

\* The call gives its fork up: with manifest m, nothing is left of it.
LEMMA MakerThrows ==
  ASSUME FInv, NEW c \in Callers, NEW f \in Forks, f = ForkOf(c), call[c].pc \in Making,
         Throw(c), NEW m \in Manifests \cup {None}, man' = [man EXCEPT ![f] = m],
         thr' = thr, made' = made, wt' = wt, dirty' = dirty,
         returned' = returned, orphaned' = orphaned,
         disturbed' = disturbed,
         f \notin disturbed => call[c].pc \in {"add", "unlink"} /\ m = None
  PROVE  FInv' /\ Keeps
<1>1. /\ ForkTyped /\ Makes(c, f) /\ Fresh(thr[f], made)
      /\ (f \notin disturbed => HalfMade(c, f))
  BY MakerFacts
<1>2. /\ call' \in [Callers -> Calls] /\ CallSound(c)' /\ call'[c].fork = None
      /\ \A d \in Callers : d # c => call'[d] = call[d]
  BY <1>1, Throwing
<1>3. /\ man' \in [Forks -> Manifests \cup {None}] /\ man'[f] = m
      /\ \A g \in Forks : g # f => man'[g] = man[g]
  BY <1>1 DEF ForkTyped
<1>4. ForkTyped' /\ Only(c, f)
  BY <1>1, <1>2, <1>3 DEF ForkTyped, Only, ForkOf
<1>5. ASSUME f \notin disturbed PROVE returned'[f] = <<>> /\ Gone(f)'
  BY <1>1, <1>3, <1>5 DEF HalfMade, Gone, Nothing
<1> QED BY <1>1, <1>2, <1>4, <1>5, MakerStep

\* The call gives up and leaves its fork as it is.
LEMMA MakerAbandons ==
  ASSUME FInv, NEW c \in Callers, CreateFails(c) \/ UndoFails(c)
  PROVE  FInv' /\ Keeps
<1>0. call[c].pc \in Making /\ Abandon(c)
  BY DEF CreateFails, UndoFails, Making
<1>1. PICK f \in Forks : f = ForkOf(c)
  BY <1>0, MakerFacts
<1>2. /\ ForkTyped /\ Makes(c, f) /\ Fresh(thr[f], made)
      /\ (f \notin disturbed => HalfMade(c, f))
  BY <1>0, <1>1, MakerFacts
<1>3. /\ Throw(c) /\ orphaned' = orphaned \cup {f}
      /\ thr' = thr /\ made' = made /\ man' = man /\ wt' = wt /\ dirty' = dirty
      /\ returned' = returned /\ disturbed' = disturbed
  BY <1>0, <1>1 DEF Abandon
<1>4. /\ call' \in [Callers -> Calls] /\ CallSound(c)' /\ call'[c].fork = None
      /\ \A d \in Callers : d # c => call'[d] = call[d]
  BY <1>2, <1>3, Throwing
<1>5. ForkTyped' /\ Only(c, f)
  BY <1>1, <1>2, <1>3, <1>4 DEF ForkTyped, Only, ForkOf
<1>6. ASSUME f \notin disturbed PROVE returned'[f] = <<>> /\ Gone(f)'
  BY <1>2, <1>3, <1>6 DEF HalfMade, Gone, Left
<1> QED BY <1>2, <1>3, <1>4, <1>5, <1>6, MakerStep

\* Adding the worktree, the second look at the source, the snapshot, and the
\* steps of the error path
LEMMA MakingKeeps ==
  ASSUME FInv, NEW c \in Callers,
         \/ AddWorktree(c) \/ AddFails(c) \/ RecheckSource(c) \/ CaptureSnapshot(c)
         \/ CallFails(c) \/ UndoThread(c) \/ CleanupWorktree(c) \/ CleanupManifest(c)
  PROVE  FInv' /\ Keeps
<1>0. call[c].pc \in Making
  BY DEF AddWorktree, AddFails, RecheckSource, CaptureSnapshot, CallFails, UndoThread,
         CleanupWorktree, CleanupManifest, At, Making
<1>1. PICK f \in Forks : f = ForkOf(c)
  BY <1>0, MakerFacts
<1>2. /\ ForkTyped /\ ~At(c, "idle") /\ Fresh(thr[f], made) /\ thr[f] \in Lineages
      /\ call[c].lineage \in Lineages
      /\ f \notin disturbed => HalfMade(c, f)
  BY <1>0, <1>1, MakerFacts
<1>3. /\ thr = [thr EXCEPT ![f] = thr[f]] /\ wt = [wt EXCEPT ![f] = wt[f]]
      /\ wt[f] \in SUBSET Callers /\ man = [man EXCEPT ![f] = man[f]]
      /\ man[f] \in Manifests \cup {None} /\ call[c].copied \in Nat
  BY <1>2 DEF ForkTyped, Calls
<1>4. ASSUME NEW l \in Making, Goto(c, l), NEW s \in Lineages, NEW w \in SUBSET Callers,
             thr' = [thr EXCEPT ![f] = s], wt' = [wt EXCEPT ![f] = w], made' = made, man' = man,
             dirty' = dirty, returned' = returned, orphaned' = orphaned,
             disturbed' = disturbed, Fresh(s, made),
             l \in {"add", "recheck", "capture"} => call[c].copied = 0,
             l = "copy" => call[c].copied < Len(call[c].lineage),
             f \notin disturbed =>
               /\ w = IF l \in {"add", "unlink"} THEN {} ELSE {c}
               /\ l \in {"add", "recheck", "capture", "cleanup", "unlink"} => s = <<>>
               /\ l = "copy" => Len(s) = call[c].copied /\ Begins(s, call[c].lineage)
               /\ l = "retain" => Begins(call[c].lineage, s)
      PROVE  FInv' /\ Keeps
  <2>1. /\ call' \in [Callers -> Calls]
        /\ call'[c].pc = l /\ call'[c].fork = call[c].fork /\ call'[c].lineage = call[c].lineage
        /\ call'[c].path = call[c].path /\ call'[c].copied = call[c].copied
        /\ \A d \in Callers : d # c => call'[d] = call[d]
    <3>1. l \in Points
      BY DEF Making, Points
    <3> QED BY <1>2, <1>4, <3>1, Going
  <2>2. Turns(c, f, l, call[c].copied, s, w)
    BY <1>4, <2>1 DEF Turns
  <2> QED BY <1>0, <1>1, <2>2, MakerTurns
<1>e. <<>> \in Lineages /\ Len(<<>>) = 0 /\ Fresh(<<>>, made) /\ Begins(<<>>, call[c].lineage)
  BY <1>2, LineageFacts DEF Lineages, Fresh, Begins
<1>m. {"recheck", "capture", "copy", "undo", "cleanup", "unlink"} \subseteq Making
  BY DEF Making
<1>k. /\ call[c].pc \in {"create", "publish", "add", "recheck", "capture"} => call[c].copied = 0
      /\ 0 < Len(call[c].lineage)
  BY <1>2, CallFacts DEF FInv, CallSound
<1>5. CASE AddWorktree(c)
  <2>1. /\ wt' = [wt EXCEPT ![f] = wt[f] \cup {c}] /\ Goto(c, "recheck") /\ At(c, "add")
        /\ thr' = thr /\ made' = made /\ man' = man
        /\ dirty' = dirty /\ returned' = returned /\ orphaned' = orphaned /\ disturbed' = disturbed
    BY <1>1, <1>5 DEF AddWorktree
  <2>2. f \notin disturbed => wt[f] \cup {c} = {c} /\ thr[f] = <<>>
    BY <1>2, <2>1 DEF HalfMade, At
  <2>3. wt[f] \cup {c} \in SUBSET Callers /\ call[c].copied = 0
    BY <1>3, <1>k, <2>1 DEF At
  <2> QED BY <1>2, <1>3, <1>4, <1>m, <2>1, <2>2, <2>3
<1>6. CASE AddFails(c) \/ CleanupManifest(c)
  <2>1. /\ man' = [man EXCEPT ![f] = None] /\ Throw(c) /\ call[c].pc \in {"add", "unlink"}
        /\ thr' = thr /\ made' = made /\ wt' = wt
        /\ dirty' = dirty /\ returned' = returned /\ orphaned' = orphaned /\ disturbed' = disturbed
    BY <1>1, <1>6 DEF AddFails, CleanupManifest, At
  <2> QED BY <1>0, <1>1, <2>1, MakerThrows
<1>7. CASE RecheckSource(c)
  <2>1. /\ Goto(c, "cleanup") \/ Goto(c, "capture")
        /\ At(c, "recheck") /\ thr' = thr /\ made' = made /\ man' = man /\ wt' = wt
        /\ dirty' = dirty /\ returned' = returned /\ orphaned' = orphaned /\ disturbed' = disturbed
    BY <1>7 DEF RecheckSource
  <2>2. (f \notin disturbed => wt[f] = {c} /\ thr[f] = <<>>) /\ call[c].copied = 0
    BY <1>2, <1>k, <2>1 DEF HalfMade, At
  <2> QED BY <1>2, <1>3, <1>4, <1>m, <2>1, <2>2
<1>8. CASE CaptureSnapshot(c)
  <2>1. /\ Goto(c, "copy") \/ Goto(c, "undo")
        /\ At(c, "capture") /\ thr' = thr /\ made' = made /\ man' = man /\ wt' = wt
        /\ dirty' = dirty /\ returned' = returned /\ orphaned' = orphaned /\ disturbed' = disturbed
    BY <1>8 DEF CaptureSnapshot
  <2>2. (f \notin disturbed => wt[f] = {c} /\ thr[f] = <<>>) /\ call[c].copied = 0
    BY <1>2, <1>k, <2>1 DEF HalfMade, At
  <2> QED BY <1>2, <1>3, <1>4, <1>e, <1>k, <1>m, <2>1, <2>2
<1>9. CASE CallFails(c)
  <2>1. /\ Goto(c, "undo") /\ call[c].pc \in {"capture", "copy", "retain"}
        /\ thr' = thr /\ made' = made /\ man' = man /\ wt' = wt
        /\ dirty' = dirty /\ returned' = returned /\ orphaned' = orphaned /\ disturbed' = disturbed
    BY <1>9 DEF CallFails
  <2>2. f \notin disturbed => wt[f] = {c}
    BY <1>2, <2>1 DEF HalfMade
  <2> QED BY <1>2, <1>3, <1>4, <1>m, <2>1, <2>2
<1>10. CASE UndoThread(c)
  <2>1. /\ Goto(c, "cleanup") /\ At(c, "undo")
        /\ thr' = [thr EXCEPT ![f] = <<>>] /\ made' = made /\ man' = man /\ wt' = wt
        /\ dirty' = dirty /\ returned' = returned /\ orphaned' = orphaned /\ disturbed' = disturbed
    BY <1>1, <1>10 DEF UndoThread
  <2>2. f \notin disturbed => wt[f] = {c}
    BY <1>2, <2>1 DEF HalfMade, At
  <2> QED BY <1>2, <1>3, <1>4, <1>e, <1>m, <2>1, <2>2
<1>11. CASE CleanupWorktree(c)
  <2>0. /\ At(c, "cleanup") /\ thr' = thr /\ made' = made /\ man' = man
        /\ dirty' = dirty /\ returned' = returned /\ orphaned' = orphaned /\ disturbed' = disturbed
    BY <1>11 DEF CleanupWorktree
  <2>1. f \notin disturbed => man[f] # None /\ man[f].path = c /\ wt[f] = {c} /\ thr[f] = <<>>
    BY <1>2, <2>0 DEF HalfMade, At
  <2>2. CASE man[f] = None
    <3>1. Throw(c) /\ wt' = wt
      BY <1>1, <1>11, <2>2 DEF CleanupWorktree
    <3> QED BY <1>0, <1>1, <1>3, <2>0, <2>1, <2>2, <3>1, MakerThrows
  <2>3. CASE man[f] # None
    <3>1. wt' = [wt EXCEPT ![f] = wt[f] \ {man[f].path}] /\ Goto(c, "unlink")
      BY <1>1, <1>11, <2>3 DEF CleanupWorktree
    <3>2. /\ wt[f] \ {man[f].path} \in SUBSET Callers
          /\ f \notin disturbed => wt[f] \ {man[f].path} = {}
      BY <1>3, <2>1
    <3> QED BY <1>2, <1>3, <1>4, <1>m, <2>0, <2>1, <3>1, <3>2
  <2> QED BY <2>2, <2>3
<1> QED BY <1>5, <1>6, <1>7, <1>8, <1>9, <1>10, <1>11

\* copyPreparedClone: the next checkpoint of a fresh lineage is not in the
\* thread yet.
LEMMA CopyKeeps ==
  ASSUME FInv, NEW c \in Callers, CopyCheckpoint(c)
  PROVE  FInv' /\ Keeps
<1>0. call[c].pc = "copy" /\ call[c].pc \in Making
  BY DEF CopyCheckpoint, At, Making
<1>1. PICK f \in Forks : f = ForkOf(c)
  BY <1>0, MakerFacts
<1>2. /\ ForkTyped /\ Fresh(thr[f], made) /\ thr[f] \in Lineages
      /\ call[c].lineage \in Lineages /\ Fresh(call[c].lineage, made)
      /\ f \notin disturbed => HalfMade(c, f)
  BY <1>0, <1>1, MakerFacts
<1>3. PICK n \in Nat : n = call[c].copied
  BY <1>2 DEF ForkTyped, Calls
<1>4. PICK x : x = call[c].lineage[n + 1]
  OBVIOUS
<1>5. n < Len(call[c].lineage) /\ Len(call[c].lineage) \in Nat
  BY <1>0, <1>2, <1>3, LineageFacts DEF FInv, CallSound, At
<1>6. x \in Ids /\ x[2] \in 1..made[x[1]]
  <2>1. n + 1 \in 1..Len(call[c].lineage)
    BY <1>5
  <2> QED BY <1>2, <1>4, <2>1, LineageFacts DEF Fresh
<1>7. /\ wt = [wt EXCEPT ![f] = wt[f]] /\ wt[f] \in SUBSET Callers
      /\ thr = [thr EXCEPT ![f] = thr[f]]
      /\ made' = made /\ man' = man /\ wt' = wt
      /\ dirty' = dirty /\ returned' = returned /\ orphaned' = orphaned /\ disturbed' = disturbed
  BY <1>2 DEF CopyCheckpoint, ForkTyped
<1>8. ASSUME f \notin disturbed
      PROVE  /\ wt[f] = {c} /\ Len(thr[f]) = n /\ Begins(thr[f], call[c].lineage)
             /\ x \notin Range(thr[f])
  <2>1. wt[f] = {c} /\ Len(thr[f]) = n /\ Begins(thr[f], call[c].lineage)
    BY <1>0, <1>2, <1>3, <1>8 DEF HalfMade, At
  <2>2. ASSUME NEW i \in 1..n, thr[f][i] = x PROVE FALSE
    <3>1. call[c].lineage[i] = x
      BY <2>1, <2>2 DEF Begins
    <3>2. i \in 1..Len(call[c].lineage) /\ n + 1 \in 1..Len(call[c].lineage)
      BY <1>5
    <3>3. i = n + 1
      BY <1>2, <1>4, <3>1, <3>2 DEF Fresh
    <3> QED BY <3>3
  <2>3. x \notin Range(thr[f])
    BY <1>2, <2>1, <2>2, LineageFacts
  <2> QED BY <2>1, <2>3
<1>9. CASE Goto(c, "undo") /\ thr' = thr
  <2>1. /\ call' \in [Callers -> Calls]
        /\ call'[c].pc = "undo" /\ call'[c].fork = call[c].fork
        /\ call'[c].lineage = call[c].lineage
        /\ call'[c].path = call[c].path /\ call'[c].copied = n
        /\ \A d \in Callers : d # c => call'[d] = call[d]
    BY <1>2, <1>3, <1>9, Going DEF Points
  <2>2. "undo" \in Making
    BY DEF Making
  <2>3. Turns(c, f, "undo", n, thr[f], wt[f])
    BY <1>2, <1>7, <1>8, <1>9, <2>1 DEF Turns
  <2> QED BY <1>0, <1>1, <2>2, <2>3, MakerTurns
<1>10. CASE ~(Goto(c, "undo") /\ thr' = thr)
  <2>1. PICK l \in {"copy", "retain"} :
          /\ l = "retain" <=> n + 1 = Len(call[c].lineage)
          /\ call' = [call EXCEPT ![c].copied = @ + 1, ![c].pc = l]
    BY <1>3, <1>10 DEF CopyCheckpoint
  <2>2. PICK s : /\ s = IF x \in Range(thr[f]) THEN thr[f] ELSE Append(thr[f], x)
                 /\ thr' = [thr EXCEPT ![f] = s]
    BY <1>1, <1>3, <1>4, <1>10 DEF CopyCheckpoint
  <2>3. s \in Lineages /\ Fresh(s, made)
    BY <1>2, <1>6, <2>2, AppendFacts, FreshAppend
  <2>4. /\ call' \in [Callers -> Calls]
        /\ call'[c].pc = l /\ call'[c].fork = call[c].fork
        /\ call'[c].lineage = call[c].lineage
        /\ call'[c].path = call[c].path /\ call'[c].copied = n + 1
        /\ \A d \in Callers : d # c => call'[d] = call[d]
    <3>1. l \in Points
      BY DEF Points
    <3> QED BY <1>2, <1>3, <2>1, <3>1, Counting
  <2>5. ASSUME f \notin disturbed PROVE Len(s) = n + 1 /\ Begins(s, call[c].lineage)
    <3>1. s = Append(thr[f], x) /\ Len(thr[f]) = n /\ Begins(thr[f], call[c].lineage)
      BY <1>8, <2>2, <2>5
    <3>2. /\ Len(s) = n + 1 /\ s[n + 1] = x
          /\ \A i \in 1..n : s[i] = thr[f][i]
      BY <1>2, <1>6, <3>1, AppendFacts
    <3>3. \A i \in 1..n : s[i] = call[c].lineage[i]
      BY <3>1, <3>2 DEF Begins
    <3>4. \A i \in 1..n + 1 : i = n + 1 \/ i \in 1..n
      OBVIOUS
    <3> QED BY <1>4, <1>5, <3>2, <3>3, <3>4 DEF Begins
  <2>6. ASSUME f \notin disturbed, l = "retain" PROVE Begins(call[c].lineage, s)
    BY <2>1, <2>5, <2>6 DEF Begins
  <2>7. l = "copy" => n + 1 < Len(call[c].lineage)
    BY <1>5, <2>1
  <2>8. l \in Making
    BY DEF Making
  <2>9. Turns(c, f, l, n + 1, s, wt[f])
    BY <1>7, <1>8, <2>2, <2>3, <2>4, <2>5, <2>6, <2>7 DEF Turns
  <2> QED BY <1>0, <1>1, <2>8, <2>9, MakerTurns
<1> QED BY <1>9, <1>10

\* retainArtifacts: the call returns with the whole lineage in the thread.
LEMMA RetainKeeps ==
  ASSUME FInv, NEW c \in Callers, RetainArtifacts(c)
  PROVE  FInv' /\ Keeps
<1>0. call[c].pc = "retain" /\ call[c].pc \in Making
  BY DEF RetainArtifacts, At, Making
<1>1. PICK f \in Forks : f = ForkOf(c)
  BY <1>0, MakerFacts
<1>2. /\ ForkTyped /\ ~At(c, "idle") /\ Makes(c, f) /\ Fresh(thr[f], made)
      /\ call[c].lineage \in Lineages
      /\ f \notin disturbed => HalfMade(c, f)
  BY <1>0, <1>1, MakerFacts
<1>3. /\ Goto(c, "done") /\ returned' = [returned EXCEPT ![f] = call[c].lineage]
      /\ thr' = thr /\ made' = made /\ man' = man /\ wt' = wt /\ dirty' = dirty
      /\ orphaned' = orphaned /\ disturbed' = disturbed
  BY <1>1 DEF RetainArtifacts
<1>4. /\ call' \in [Callers -> Calls]
      /\ call'[c].pc = "done" /\ call'[c].fork = call[c].fork
      /\ call'[c].lineage = call[c].lineage
      /\ call'[c].path = call[c].path /\ call'[c].copied = call[c].copied
      /\ \A d \in Callers : d # c => call'[d] = call[d]
  BY <1>2, <1>3, Going DEF Points
<1>5. /\ returned' \in [Forks -> Lineages] /\ returned'[f] = call[c].lineage
      /\ \A g \in Forks : g # f => returned'[g] = returned[g]
  BY <1>2, <1>3 DEF ForkTyped
<1>6. ForkTyped' /\ Only(c, f)
  BY <1>1, <1>2, <1>3, <1>4, <1>5 DEF ForkTyped, Only, ForkOf
<1>7. CallSound(c)'
  BY <1>2, <1>3, <1>4, GoesOnSound
<1>8. Returns(c, f)' /\ returned'[f] = call'[c].lineage
  BY <1>1, <1>4, <1>5 DEF Returns, ForkOf, At
<1>9. ASSUME f \notin disturbed PROVE Whole(f)'
  BY <1>0, <1>2, <1>3, <1>4, <1>5, <1>9 DEF HalfMade, Whole, At
<1> QED BY <1>2, <1>3, <1>6, <1>7, <1>8, <1>9, MakerStep

-----------------------------------------------------------------------------
(* Calls begin and end, and the environment                                *)

\* Nothing but calls and disturbed changes, and no call begins or ends the
\* making of an undisturbed fork.
CallsMove ==
  /\ call' \in [Callers -> Calls] /\ \A c \in Callers : CallSound(c)'
  /\ thr' = thr /\ made' = made /\ man' = man /\ wt' = wt
  /\ returned' = returned /\ orphaned' = orphaned
  /\ dirty' \in BOOLEAN /\ disturbed \subseteq disturbed' /\ disturbed' \subseteq Forks
  /\ \A c \in Callers : \A g \in Forks \ disturbed' :
       call'[c] = call[c] \/ (~Makes(c, g) /\ ~Makes(c, g)' /\ ~Returns(c, g)')

\* Such a step keeps the invariant.
LEMMA CallsMoveKeeps ==
  ASSUME FInv, CallsMove
  PROVE  FInv' /\ Keeps
<1>1. ForkTyped' /\ \A t \in Threads : Fresh(thr[t], made)'
  BY DEF FInv, ForkTyped, CallsMove
<1>2. ASSUME NEW g \in Forks \ disturbed' PROVE ForkSound(g)'
  <2>1. g \in Forks \ disturbed /\ ForkSound(g)
    BY DEF FInv, CallsMove
  <2>2. /\ thr'[g] = thr[g] /\ man'[g] = man[g] /\ wt'[g] = wt[g] /\ returned'[g] = returned[g]
        /\ (g \in orphaned' <=> g \in orphaned)
        /\ \A d \in Callers : \/ call'[d] = call[d]
                              \/ ~Makes(d, g) /\ ~Makes(d, g)' /\ ~Returns(d, g)'
    BY DEF CallsMove
  <2> QED BY <2>1, <2>2, ForkKept
<1>3. FInv'
  BY <1>1, <1>2 DEF FInv, CallsMove
<1>4. \A t \in Threads : Begins(thr[t], thr[t])
  BY LineageFacts DEF Begins, FInv, ForkTyped
<1>5. Keeps
  BY <1>4, NoneIsNone DEF Keeps, CallsMove, Threads
<1> QED BY <1>3, <1>5

\* A call that ends, with its answer, in a crash or without a fork
LEMMA EndKeeps ==
  ASSUME FInv, NEW c \in Callers, Throw(c),
         thr' = thr, made' = made, man' = man, wt' = wt, dirty' = dirty,
         returned' = returned, orphaned' = orphaned,
         disturbed \subseteq disturbed', disturbed' \subseteq Forks,
         call[c].pc \in {"idle", "done"} \/ ForkOf(c) \in disturbed'
  PROVE  CallsMove /\ FInv' /\ Keeps
<1>1. /\ call' \in [Callers -> Calls] /\ CallSound(c)' /\ call'[c].fork = None
      /\ \A d \in Callers : d # c => call'[d] = call[d]
  BY Throwing DEF FInv
<1>2. dirty' \in BOOLEAN
  BY DEF FInv, ForkTyped
<1>3. \A d \in Callers : CallSound(d)'
  BY <1>1 DEF FInv, CallSound, At, ForkOf
<1>4. ASSUME NEW g \in Forks \ disturbed'
      PROVE  ~Makes(c, g) /\ ~Makes(c, g)' /\ ~Returns(c, g)'
  BY <1>1, NoneIsNone DEF Makes, Returns, ForkOf, Making
<1>5. CallsMove
  BY <1>1, <1>2, <1>3, <1>4 DEF CallsMove
<1> QED BY <1>5, CallsMoveKeeps

\* prepareClone: the call gets the ancestors of the checkpoint.
LEMMA PrepareKeeps ==
  ASSUME FInv, NEW c \in Callers, NEW s \in Threads, NEW f \in Forks, NEW t \in Lineages,
         t = seen[c][s], Fresh(t, made), NEW k \in 1..Len(t), PrepareClone(c, s, k, f),
         thr' = thr, made' = made, man' = man, wt' = wt, dirty' = dirty,
         returned' = returned, orphaned' = orphaned,
         disturbed' = disturbed
  PROVE  /\ FInv' /\ Keeps /\ CallsMove
         /\ call'[c].pc = "create" /\ Last(call'[c].lineage) = t[k]
         /\ \A d \in Callers : d # c => call'[d] = call[d]
<1> DEFINE u == SubSeq(t, 1, k)
           q == [Idle EXCEPT !.pc = "create", !.src = s, !.fork = f, !.lineage = u]
<1>1. ForkTyped
  BY DEF FInv
<1>2. u \in Lineages /\ u # <<>> /\ Fresh(u, made) /\ Last(u) = t[k]
  BY AncestorFacts
<1>3. call' = [call EXCEPT ![c] = q]
  BY DEF PrepareClone, Lineage
<1>4. /\ q \in Calls /\ q.pc = "create" /\ q.fork = f /\ q.lineage = u /\ q.copied = 0
  BY <1>2 DEF Idle, Calls, Points, Places
<1> HIDE DEF u, q
<1>5. /\ call' \in [Callers -> Calls] /\ call'[c] = q
      /\ \A d \in Callers : d # c => call'[d] = call[d]
  BY <1>1, <1>3, <1>4 DEF ForkTyped
<1>6. CallSound(c)'
  BY <1>2, <1>4, <1>5, NoneIsNone DEF CallSound, At, ForkOf
<1>7. \A d \in Callers : CallSound(d)'
  BY <1>5, <1>6 DEF FInv, CallSound, At, ForkOf
<1>8. ASSUME NEW g \in Forks \ disturbed'
      PROVE  ~Makes(c, g) /\ ~Makes(c, g)' /\ ~Returns(c, g)'
  BY <1>4, <1>5 DEF PrepareClone, Makes, Returns, ForkOf, Making, At
<1>9. CallsMove
  BY <1>1, <1>5, <1>7, <1>8 DEF CallsMove, ForkTyped
<1> QED BY <1>2, <1>4, <1>5, <1>9, CallsMoveKeeps

\* The environment moves: calls and results stay, threads go on, and a fork that
\* is not disturbed changes only once it has returned.
EnvMoves ==
  /\ ForkTyped' /\ call' = call /\ returned' = returned /\ orphaned' = orphaned
  /\ disturbed \subseteq disturbed'
  /\ \A t \in Threads : Fresh(thr'[t], made')
  /\ \A c \in Callers : Fresh(call[c].lineage, made')
  /\ Begins(thr[Src], thr'[Src])
  /\ \A g \in Forks \ disturbed' :
       /\ man'[g] = man[g] /\ wt'[g] = wt[g]
       /\ Begins(thr[g], thr'[g]) /\ (thr'[g] = thr[g] \/ returned[g] # <<>>)

\* Such a step keeps the invariant.
LEMMA EnvKeeps ==
  ASSUME FInv, EnvMoves
  PROVE  FInv' /\ Keeps
<1>1. \A c \in Callers : CallSound(c)'
  BY DEF FInv, EnvMoves, CallSound, At, ForkOf
<1>2. ASSUME NEW g \in Forks \ disturbed' PROVE ForkSound(g)'
  <2>1. /\ ForkSound(g) /\ man'[g] = man[g] /\ wt'[g] = wt[g] /\ returned'[g] = returned[g]
        /\ call' = call /\ orphaned' = orphaned
    BY DEF FInv, EnvMoves
  <2>2. CASE thr'[g] = thr[g]
    BY <2>1, <2>2, ForkKept
  <2>3. CASE returned[g] # <<>>
    <3>1. \A c \in Callers : ~Makes(c, g)
      BY <2>1, <2>3 DEF ForkSound, HalfMade
    <3>2. Begins(returned[g], thr'[g])
      <4>1. thr[g] \in Lineages /\ thr'[g] \in Lineages /\ returned[g] \in Lineages
        BY DEF FInv, EnvMoves, ForkTyped, Threads
      <4>2. Begins(returned[g], thr[g]) /\ Begins(thr[g], thr'[g])
        BY <2>1, <2>3 DEF ForkSound, Whole, EnvMoves
      <4> QED BY <4>1, <4>2, BeginsTransitive
    <3>3. Whole(g)' /\ \A c \in Callers : ~Makes(c, g)' /\ (Returns(c, g)' <=> Returns(c, g))
      BY <2>1, <2>3, <3>1, <3>2 DEF ForkSound, Whole, Makes, Returns, ForkOf, At
    <3> QED BY <2>1, <2>3, <3>3 DEF ForkSound
  <2> QED BY <2>2, <2>3 DEF EnvMoves
<1>3. FInv'
  BY <1>1, <1>2 DEF FInv, EnvMoves
<1> QED BY <1>3 DEF Keeps, EnvMoves

\* A run puts a checkpoint: a fork that is run has returned, or is disturbed.
LEMMA PutKeeps ==
  ASSUME FInv, NEW t \in Threads, Put(t), man' = man, wt' = wt, dirty' = dirty, call' = call,
         returned' = returned, orphaned' = orphaned,
         disturbed \subseteq disturbed', disturbed' \subseteq Forks,
         t \in Forks \ disturbed' => returned[t] # <<>>
  PROVE  /\ FInv' /\ Keeps /\ EnvMoves /\ NewCheckpoint(t) \in Ids
         /\ \A s \in Lineages : Fresh(s, made) => Fresh(s, made')
         /\ NewCheckpoint(t) \in Range(thr'[t]) /\ Begins(thr[t], thr'[t])
<1>1. ForkTyped /\ thr[t] \in Lineages /\ made \in [Threads -> Nat] /\ Fresh(thr[t], made)
  BY DEF FInv, ForkTyped
<1>2. PICK x : x = <<t, made[t] + 1>>
  OBVIOUS
<1>3. /\ thr' = [thr EXCEPT ![t] = Append(thr[t], x)] /\ x = NewCheckpoint(t)
      /\ made' = [made EXCEPT ![t] = @ + 1] /\ made' \in [Threads -> Nat]
  BY <1>1, <1>2 DEF Put, NewCheckpoint
<1>4. x \in Ids
  BY <1>1, <1>2 DEF Ids
<1>5. /\ Append(thr[t], x) \in Lineages /\ Begins(thr[t], Append(thr[t], x))
      /\ Fresh(Append(thr[t], x), made') /\ x \in Range(Append(thr[t], x))
  <2>1. /\ Append(thr[t], x) \in Lineages /\ Begins(thr[t], Append(thr[t], x))
        /\ Len(Append(thr[t], x)) = Len(thr[t]) + 1 /\ Append(thr[t], x)[Len(thr[t]) + 1] = x
    BY <1>1, <1>4, AppendFacts
  <2>2. Len(thr[t]) + 1 \in 1..Len(Append(thr[t], x))
    BY <1>1, <2>1, LineageFacts
  <2>3. x \in Range(Append(thr[t], x))
    BY <2>1, <2>2, LineageFacts
  <2>4. Fresh(Append(thr[t], x), made')
    BY <1>1, <1>2, <1>3, PutFresh
  <2> QED BY <2>1, <2>3, <2>4
<1>6. /\ thr' \in [Threads -> Lineages] /\ thr'[t] = Append(thr[t], x)
      /\ \A v \in Threads : v # t => thr'[v] = thr[v]
  BY <1>1, <1>3, <1>5 DEF ForkTyped
<1>7. ASSUME NEW s \in Lineages, Fresh(s, made) PROVE Fresh(s, made')
  BY <1>1, <1>3, <1>7, PutFresh
<1>8. \A v \in Threads : Fresh(thr'[v], made') /\ Begins(thr[v], thr'[v])
  <2>1. \A v \in Threads : thr[v] \in Lineages /\ Fresh(thr[v], made) /\ Begins(thr[v], thr[v])
    BY LineageFacts DEF FInv, ForkTyped, Begins
  <2> QED BY <1>5, <1>6, <1>7, <2>1
<1>9. \A c \in Callers : Fresh(call[c].lineage, made')
  BY <1>7 DEF FInv, ForkTyped, CallSound, Calls
<1>10. ForkTyped'
  BY <1>1, <1>3, <1>6 DEF ForkTyped
<1>11. EnvMoves
  BY <1>6, <1>8, <1>9, <1>10, NoneIsNone DEF EnvMoves, Threads
<1> QED BY <1>3, <1>4, <1>5, <1>6, <1>7, <1>8, <1>11, EnvKeeps

\* A call that is on its way was so before, with the same lineage.
Stays(c) == call'[c].pc # "idle" => call[c].pc # "idle" /\ call'[c].lineage = call[c].lineage

\* A step of a call begins no call.
LEMMA CallStepStays ==
  ASSUME FInv, NEW c \in Callers, CallStep(c)
  PROVE  \A d \in Callers : Stays(d)
<1>1. ForkTyped /\ call[c].pc # "idle"
  BY DEF FInv, CallStep, CreateFork, PublishManifest, AddWorktree, AddFails, RecheckSource,
         CaptureSnapshot, CopyCheckpoint, RetainArtifacts, CallFails, UndoThread,
         CleanupWorktree, CleanupManifest, CreateFails, UndoFails, At
<1>2. ASSUME NEW l \in Points, Goto(c, l) PROVE \A d \in Callers : Stays(d)
  BY <1>1, <1>2, Going DEF Stays
<1>3. ASSUME Throw(c) PROVE \A d \in Callers : Stays(d)
  BY <1>1, <1>3, Throwing DEF Stays
<1>4. CASE CreateFork(c) \/ PublishManifest(c)
  <2>1. PICK f \in Forks : f = ForkOf(c)
    BY <1>1, CallFacts DEF At
  <2>2. CASE \E l \in {"capture", "add"}, p \in Places :
               call' = [call EXCEPT ![c].pc = l, ![c].path = p]
    BY <1>1, <2>2, GoingTo DEF Stays, Points
  <2>3. CASE Throw(c) \/ Goto(c, "publish")
    BY <1>2, <1>3, <2>3 DEF Points
  <2>4. man[f] # None => man[f].path \in Places
    BY <1>1 DEF ForkTyped, Manifests, Places
  <2>5. c \in Places
    BY DEF Places
  <2> QED BY <1>4, <2>1, <2>2, <2>3, <2>4, <2>5 DEF CreateFork, PublishManifest
<1>5. CASE CopyCheckpoint(c)
  <2>1. CASE \E l \in {"copy", "retain"} :
               call' = [call EXCEPT ![c].copied = @ + 1, ![c].pc = l]
    BY <1>1, <2>1, Counting DEF Stays, Points
  <2> QED BY <1>2, <1>5, <2>1 DEF CopyCheckpoint, Points
<1>6. CASE AddWorktree(c) \/ AddFails(c) \/ RecheckSource(c) \/ CaptureSnapshot(c)
           \/ RetainArtifacts(c)
  BY <1>2, <1>3, <1>6 DEF AddWorktree, AddFails, RecheckSource, CaptureSnapshot,
     RetainArtifacts, Points
<1>7. CASE CallFails(c) \/ UndoThread(c) \/ CleanupWorktree(c) \/ CleanupManifest(c)
           \/ CreateFails(c) \/ UndoFails(c)
  BY <1>2, <1>3, <1>7 DEF CallFails, UndoThread, CleanupWorktree, CleanupManifest, CreateFails,
     UndoFails, Abandon, Points
<1> QED BY <1>4, <1>5, <1>6, <1>7 DEF CallStep

-----------------------------------------------------------------------------
(* What savers remember                                                    *)

\* What changes in memory is read from a thread; the session bridge's saver and
\* the forks it makes stay, and threads it knows go on.
SeesOn ==
  /\ seen' \in [Callers -> [Threads -> Lineages]] /\ seen'[Pi] = seen[Pi]
  /\ \A c \in Callers : \A t \in Threads : Fresh(seen'[c][t], made')
  /\ disturbed \subseteq disturbed' /\ orphaned' = orphaned /\ returned' = returned
  /\ Begins(thr[Src], thr'[Src])
  /\ \A g \in Forks \ disturbed' : /\ Begins(thr[g], thr'[g])
                                   /\ Makes(Pi, g) => Makes(Pi, g)'

\* Such a step keeps what is known of the memory.
LEMMA SeesOnKeeps ==
  ASSUME ForkTyped, ForkTyped', SInv, SeesOn
  PROVE  SInv'
<1>1. Pi \in Callers
  BY DEF Callers
<1>2. ASSUME NEW t \in Threads, Begins(seen[Pi][t], thr[t]), Begins(thr[t], thr'[t])
      PROVE  Begins(seen'[Pi][t], thr'[t])
  <2>1. seen[Pi][t] \in Lineages /\ thr[t] \in Lineages /\ thr'[t] \in Lineages
    BY <1>1 DEF ForkTyped, SInv
  <2> QED BY <1>2, <2>1, BeginsTransitive DEF SeesOn
<1>3. Begins(seen'[Pi][Src], thr'[Src])
  BY <1>2, NoneIsNone DEF SInv, SeesOn
<1>4. ASSUME NEW g \in Forks \ disturbed' PROVE SeenSound(g)'
  <2>1. g \in Threads /\ SeenSound(g) /\ Begins(thr[g], thr'[g])
        /\ (Makes(Pi, g) => Makes(Pi, g)')
    BY DEF SInv, SeesOn, Threads
  <2>2. Begins(seen'[Pi][g], thr'[g])
    BY <1>2, <2>1 DEF SeenSound
  <2>3. seen'[Pi][g] = seen[Pi][g] /\ orphaned' = orphaned /\ returned' = returned
    BY DEF SeesOn
  <2> QED BY <2>1, <2>2, <2>3 DEF SeenSound
<1> QED BY <1>3, <1>4 DEF SInv, SeesOn

\* Calls move and memories stay, but for a saver of another process that is
\* opened again.
LEMMA CallsMoveSees ==
  ASSUME FInv, FInv', SInv, CallsMove, NEW c \in Callers,
         seen' = seen \/ (c # Pi /\ seen' = [seen EXCEPT ![c] = thr])
  PROVE  SInv'
<1>0. ForkTyped /\ ForkTyped' /\ Pi \in Callers
  BY DEF FInv, Callers
<1>1. /\ seen' \in [Callers -> [Threads -> Lineages]] /\ seen'[Pi] = seen[Pi]
      /\ \A d \in Callers : seen'[d] = seen[d] \/ seen'[d] = thr
  BY <1>0 DEF SInv, ForkTyped
<1>2. ASSUME NEW d \in Callers, NEW t \in Threads PROVE Fresh(seen'[d][t], made')
  BY <1>1 DEF SInv, FInv, CallsMove
<1>3. \A t \in Threads : Begins(thr[t], thr'[t])
  BY <1>0, LineageFacts DEF Begins, ForkTyped, CallsMove
<1>4. ASSUME NEW g \in Forks \ disturbed', Makes(Pi, g) PROVE Makes(Pi, g)'
  BY <1>0, <1>4 DEF CallsMove, Makes, ForkOf
<1>5. SeesOn
  BY <1>1, <1>2, <1>3, <1>4, NoneIsNone DEF SeesOn, CallsMove, Threads
<1> QED BY <1>0, <1>5, SeesOnKeeps

\* The environment moves and memories stay.
LEMMA EnvSees ==
  ASSUME FInv, FInv', SInv, EnvMoves, seen' = seen,
         \A s \in Lineages : Fresh(s, made) => Fresh(s, made')
  PROVE  SInv'
<1>0. ForkTyped /\ ForkTyped' /\ Pi \in Callers
  BY DEF FInv, Callers
<1>1. ASSUME NEW d \in Callers, NEW t \in Threads PROVE Fresh(seen'[d][t], made')
  BY DEF SInv
<1>2. SeesOn
  BY <1>1 DEF SeesOn, SInv, EnvMoves, Makes, ForkOf
<1> QED BY <1>0, <1>2, SeesOnKeeps

\* A step of a call changes its own memory only, of the thread it makes.
LEMMA CallStepMoves ==
  ASSUME FInv, NEW c \in Callers, NEW f \in Forks, f = ForkOf(c), CallStep(c)
  PROVE  /\ \A d \in Callers : d # c => call'[d] = call[d]
         /\ made' = made /\ orphaned \subseteq orphaned' /\ disturbed \subseteq disturbed'
         /\ \A g \in Forks : returned'[g] = <<>> => returned[g] = <<>>
         /\ \/ seen' = seen /\ thr' = thr
            \/ /\ seen' = [seen EXCEPT ![c][f] = thr'[f]] /\ Makes(c, f) /\ Makes(c, f)'
               /\ \A t \in Threads : t # f => thr'[t] = thr[t]
<1>1. ForkTyped /\ call \in [Callers -> Calls] /\ thr \in [Threads -> Lineages]
  BY DEF FInv, ForkTyped
<1>2. ASSUME NEW l \in Points, Goto(c, l)
      PROVE  /\ call'[c].pc = l /\ call'[c].fork = f
             /\ \A d \in Callers : d # c => call'[d] = call[d]
  BY <1>1, <1>2, Going DEF ForkOf
<1>3. CASE CopyCheckpoint(c)
  <2>1. /\ seen' = [seen EXCEPT ![c][f] = thr'[f]] /\ call[c].pc = "copy"
        /\ made' = made /\ returned' = returned /\ orphaned' = orphaned
        /\ disturbed' = disturbed /\ \A t \in Threads : t # f => thr'[t] = thr[t]
    BY <1>1, <1>3 DEF CopyCheckpoint, Refresh, At
  <2>2. \/ Goto(c, "undo")
        \/ \E l \in {"copy", "retain"} : call' = [call EXCEPT ![c].copied = @ + 1, ![c].pc = l]
    BY <1>3 DEF CopyCheckpoint
  <2>3. /\ call'[c].pc \in {"undo", "copy", "retain"} /\ call'[c].fork = f
        /\ \A d \in Callers : d # c => call'[d] = call[d]
    BY <1>1, <1>2, <2>2, Counting DEF Points, ForkOf
  <2> QED BY <2>1, <2>3 DEF Makes, Making, ForkOf
<1>4. CASE UndoThread(c)
  <2>1. /\ seen' = [seen EXCEPT ![c][f] = thr'[f]] /\ call[c].pc = "undo" /\ Goto(c, "cleanup")
        /\ made' = made /\ returned' = returned /\ orphaned' = orphaned
        /\ disturbed' = disturbed /\ \A t \in Threads : t # f => thr'[t] = thr[t]
    BY <1>1, <1>4 DEF UndoThread, Refresh, At
  <2>2. /\ call'[c].pc = "cleanup" /\ call'[c].fork = f
        /\ \A d \in Callers : d # c => call'[d] = call[d]
    BY <1>2, <2>1 DEF Points
  <2> QED BY <2>1, <2>2 DEF Makes, Making, ForkOf
<1>5. CASE RetainArtifacts(c)
  <2>1. /\ seen' = seen /\ thr' = thr /\ made' = made /\ orphaned' = orphaned
        /\ disturbed' = disturbed /\ Goto(c, "done") /\ call[c].pc = "retain"
        /\ returned' = [returned EXCEPT ![f] = call[c].lineage]
    BY <1>5 DEF RetainArtifacts, At
  <2>2. call[c].lineage # <<>>
    BY <2>1 DEF FInv, CallSound, At
  <2>3. \A g \in Forks : returned'[g] = <<>> => returned[g] = <<>>
    BY <1>1, <2>1, <2>2 DEF ForkTyped
  <2> QED BY <1>2, <2>1, <2>3 DEF Points
<1>6. CASE ~CopyCheckpoint(c) /\ ~UndoThread(c) /\ ~RetainArtifacts(c)
  <2>1. /\ seen' = seen /\ thr' = thr /\ made' = made /\ returned' = returned
        /\ orphaned \subseteq orphaned' /\ disturbed \subseteq disturbed'
    BY <1>6 DEF CallStep, CreateFork, PublishManifest, AddWorktree, AddFails, CreateFails,
       RecheckSource, CaptureSnapshot, CallFails, CleanupWorktree, CleanupManifest, UndoFails,
       Abandon
  <2>2. \E q : call' = [call EXCEPT ![c] = q]
    BY <1>1, <1>6 DEF CallStep, CreateFork, PublishManifest, AddWorktree, AddFails, CreateFails,
       RecheckSource, CaptureSnapshot, CallFails, CleanupWorktree, CleanupManifest, UndoFails,
       Abandon, Throw, Goto
  <2> QED BY <1>1, <2>1, <2>2
<1> QED BY <1>3, <1>4, <1>5, <1>6

\* Such a step keeps what is known of the memory.
LEMMA CallStepSees ==
  ASSUME FInv, FInv', SInv, NEW c \in Callers, CallStep(c)
  PROVE  SInv'
<1>0. /\ Pi \in Callers /\ thr \in [Threads -> Lineages] /\ thr' \in [Threads -> Lineages]
      /\ seen \in [Callers -> [Threads -> Lineages]]
  BY DEF Callers, FInv, ForkTyped, SInv
<1>1. PICK f \in Forks : f = ForkOf(c)
  <2>1. ~At(c, "idle")
    BY DEF CallStep, CreateFork, PublishManifest, AddWorktree, AddFails, RecheckSource,
       CaptureSnapshot, CopyCheckpoint, RetainArtifacts, CallFails, UndoThread,
       CleanupWorktree, CleanupManifest, CreateFails, UndoFails, At
  <2> QED BY <2>1, CallFacts
<1>2. /\ \A d \in Callers : d # c => call'[d] = call[d]
      /\ made' = made /\ orphaned \subseteq orphaned' /\ disturbed \subseteq disturbed'
      /\ \A g \in Forks : returned'[g] = <<>> => returned[g] = <<>>
  BY <1>1, CallStepMoves
<1>3. f \in Threads /\ f # Src /\ \A g \in Forks : g \in Threads /\ g # Src
  BY NoneIsNone DEF Threads
<1>4. \A t \in Threads : Begins(thr'[t], thr'[t])
  BY <1>0, LineageFacts DEF Begins
<1>5. CASE seen' = seen /\ thr' = thr
  <2>1. ASSUME NEW g \in Forks \ disturbed', seen[Pi][g] # <<>>, returned'[g] = <<>>,
               g \notin orphaned', ~Makes(Pi, g)'
        PROVE  FALSE
    <3>1. g \in Forks \ disturbed /\ SeenSound(g) /\ Makes(Pi, g)
      BY <1>2, <2>1 DEF SInv, SeenSound
    <3>2. ASSUME NEW d \in Callers, d # Pi PROVE ~Makes(d, g)'
      <4>1. ~Makes(d, g)
        BY <1>0, <3>1, <3>2, Alone
      <4>2. d # c \/ call'[Pi] = call[Pi]
        BY <1>0, <1>2, <3>2
      <4>3. d # c
        BY <2>1, <3>1, <4>2 DEF Makes, ForkOf
      <4> QED BY <1>2, <4>1, <4>3 DEF Makes, ForkOf
    <3>3. Gone(g)'
      BY <2>1, <3>2 DEF FInv, ForkSound
    <3>4. thr[g] = <<>>
      BY <1>5, <2>1, <3>3 DEF Gone, Nothing
    <3>5. seen[Pi][g] \in Lineages /\ Begins(seen[Pi][g], <<>>)
      BY <1>0, <1>3, <3>1, <3>4 DEF SeenSound
    <3> QED BY <2>1, <3>5, LineageFacts DEF Begins
  <2>2. \A g \in Forks \ disturbed' : SeenSound(g)'
    BY <1>2, <1>5, <2>1 DEF SInv, SeenSound
  <2> QED BY <1>2, <1>5, <2>2 DEF SInv
<1>6. CASE /\ seen' = [seen EXCEPT ![c][f] = thr'[f]] /\ Makes(c, f) /\ Makes(c, f)'
           /\ \A t \in Threads : t # f => thr'[t] = thr[t]
  <2>1. /\ seen' \in [Callers -> [Threads -> Lineages]] /\ seen'[c][f] = thr'[f]
        /\ \A d \in Callers : \A t \in Threads : d # c \/ t # f => seen'[d][t] = seen[d][t]
    BY <1>0, <1>3, <1>6
  <2>2. \A d \in Callers : \A t \in Threads : Fresh(seen'[d][t], made')
    BY <1>2, <1>3, <2>1 DEF SInv, FInv
  <2>3. Begins(seen'[Pi][Src], thr'[Src])
    BY <1>0, <1>3, <1>6, <2>1, NoneIsNone DEF SInv
  <2>4. ASSUME NEW g \in Forks \ disturbed' PROVE SeenSound(g)'
    <3>1. g \in Forks \ disturbed /\ SeenSound(g) /\ g \in Threads
      BY <1>2, <1>3 DEF SInv
    <3>2. CASE g # f
      <4>1. seen'[Pi][g] = seen[Pi][g] /\ thr'[g] = thr[g]
        BY <1>0, <1>6, <2>1, <3>1, <3>2
      <4>2. Makes(Pi, g) => c # Pi
        BY <1>1, <3>2 DEF Makes
      <4>3. Makes(Pi, g) => Makes(Pi, g)'
        BY <1>0, <1>2, <4>2 DEF Makes, ForkOf
      <4> QED BY <1>2, <3>1, <4>1, <4>3 DEF SeenSound
    <3>3. CASE g = f /\ c = Pi
      BY <1>4, <1>6, <2>1, <3>1, <3>3 DEF SeenSound
    <3>4. CASE g = f /\ c # Pi
      <4>1. HalfMade(c, f) /\ ~Makes(Pi, f)
        BY <1>0, <1>6, <3>1, <3>4, Alone DEF FInv, ForkSound
      <4>2. seen[Pi][f] = <<>>
        BY <3>1, <3>4, <4>1 DEF HalfMade, SeenSound
      <4>3. seen'[Pi][f] = <<>>
        BY <1>0, <1>3, <2>1, <3>4, <4>2
      <4>4. Begins(<<>>, thr'[f])
        BY <1>0, <1>3, LineageFacts DEF Begins
      <4> QED BY <3>4, <4>3, <4>4 DEF SeenSound
    <3> QED BY <3>2, <3>3, <3>4
  <2> QED BY <2>1, <2>2, <2>3, <2>4 DEF SInv
<1> QED BY <1>1, <1>5, <1>6, CallStepMoves

\* Every step of the forks keeps the invariant and what has returned, and no step
\* of another process begins a call of Pi.
LEMMA ForkNextKeeps ==
  ASSUME FInv, SInv, ForkNext
  PROVE  FInv' /\ SInv' /\ Keeps /\ Stays(Pi)
<1>t. ForkTyped /\ Pi \in Callers /\ Dispatchers \subseteq Callers /\ Pi \notin Dispatchers
  BY ForkConstants DEF FInv, Callers
<1>1. ASSUME NEW c \in Callers, CallStep(c) PROVE FInv' /\ SInv' /\ Keeps /\ Stays(Pi)
  <2>1. Stays(Pi)
    BY <1>t, <1>1, CallStepStays
  <2>2. FInv' /\ Keeps
    BY <1>1, CreateKeeps, MakingKeeps, MakerAbandons, CopyKeeps, RetainKeeps DEF CallStep
  <2> QED BY <1>1, <2>1, <2>2, CallStepSees
<1>2. ASSUME NEW c \in Dispatchers, DispatcherReturns(c)
      PROVE  FInv' /\ SInv' /\ Keeps /\ Stays(Pi)
  <2>1. /\ Throw(c) /\ call[c].pc = "done" /\ c \in Callers
        /\ thr' = thr /\ made' = made /\ man' = man /\ wt' = wt /\ dirty' = dirty
        /\ returned' = returned /\ orphaned' = orphaned /\ disturbed' = disturbed
        /\ seen' = seen
    BY <1>t, <1>2 DEF DispatcherReturns, At
  <2>2. CallsMove /\ FInv' /\ Keeps
    BY <1>t, <2>1, EndKeeps DEF ForkTyped
  <2>3. Stays(Pi)
    BY <1>t, <2>1, Throwing DEF Stays
  <2> QED BY <2>1, <2>2, <2>3, CallsMoveSees
<1>3. ASSUME NEW c \in Dispatchers, CallerCrashes(c)
      PROVE  FInv' /\ SInv' /\ Keeps /\ Stays(Pi)
  <2>1. /\ Throw(c) /\ ~At(c, "idle") /\ c \in Callers /\ c # Pi
        /\ thr' = thr /\ made' = made /\ man' = man /\ wt' = wt /\ dirty' = dirty
        /\ returned' = returned /\ orphaned' = orphaned
        /\ disturbed' = disturbed \cup {ForkOf(c)} /\ seen' = [seen EXCEPT ![c] = thr]
    BY <1>t, <1>3 DEF CallerCrashes
  <2>2. ForkOf(c) \in Forks
    BY <1>t, <2>1, CallFacts
  <2>3. disturbed \subseteq disturbed' /\ disturbed' \subseteq Forks /\ ForkOf(c) \in disturbed'
    BY <1>t, <2>1, <2>2 DEF ForkTyped
  <2>4. CallsMove /\ FInv' /\ Keeps
    BY <2>1, <2>3, EndKeeps
  <2>5. Stays(Pi)
    BY <1>t, <2>1, Throwing DEF Stays
  <2> QED BY <2>1, <2>4, <2>5, CallsMoveSees
<1>4. ASSUME NEW c \in Dispatchers, NEW s \in Threads, NEW f \in NamedForks,
             NEW k \in 1..Len(seen[c][s]), DispatcherForks(c, s, k, f)
      PROVE  FInv' /\ SInv' /\ Keeps /\ Stays(Pi)
  <2>1. /\ PrepareClone(c, s, k, f) /\ f \in Forks /\ c \in Callers /\ seen' = seen
        /\ thr' = thr /\ made' = made /\ man' = man /\ wt' = wt /\ dirty' = dirty
        /\ returned' = returned /\ orphaned' = orphaned /\ disturbed' = disturbed
    BY <1>t, <1>4 DEF DispatcherForks, Forks
  <2>2. PICK t \in Lineages : t = seen[c][s] /\ Fresh(t, made)
    BY <2>1 DEF SInv
  <2>3. FInv' /\ Keeps /\ CallsMove /\ \A d \in Callers : d # c => call'[d] = call[d]
    BY <2>1, <2>2, PrepareKeeps
  <2>4. SInv'
    BY <2>1, <2>3, CallsMoveSees
  <2> QED BY <1>t, <2>3, <2>4 DEF Stays
<1>5. CASE UserTouchesSource
  <2>1. /\ thr' = thr /\ made' = made /\ man' = man /\ wt' = wt /\ dirty' = ~dirty
        /\ call' = call /\ returned' = returned /\ orphaned' = orphaned
        /\ disturbed' = disturbed /\ seen' = seen
    BY <1>5 DEF UserTouchesSource
  <2>2. \A c \in Callers : CallSound(c)'
    BY <2>1 DEF FInv, CallSound, At, ForkOf
  <2>3. CallsMove
    BY <1>t, <2>1, <2>2 DEF ForkTyped, CallsMove
  <2>4. FInv' /\ Keeps
    BY <2>3, CallsMoveKeeps
  <2> QED BY <1>t, <2>1, <2>3, <2>4, CallsMoveSees DEF Stays
<1>6. ASSUME NEW f \in Forks, UserRemovesWorktree(f) PROVE FInv' /\ SInv' /\ Keeps /\ Stays(Pi)
  <2>1. /\ thr' = thr /\ made' = made /\ man' = man /\ wt' = [wt EXCEPT ![f] = {}]
        /\ dirty' = dirty /\ call' = call /\ returned' = returned /\ orphaned' = orphaned
        /\ disturbed' = disturbed \cup {f} /\ seen' = seen
    BY <1>6 DEF UserRemovesWorktree
  <2>2. ForkTyped' /\ \A g \in Forks : g # f => wt'[g] = wt[g]
    BY <1>t, <2>1 DEF ForkTyped
  <2>3. \A t \in Threads : Begins(thr[t], thr[t])
    BY <1>t, LineageFacts DEF Begins, ForkTyped
  <2>4. EnvMoves
    BY <2>1, <2>2, <2>3, NoneIsNone DEF EnvMoves, FInv, CallSound, Threads
  <2>5. FInv' /\ Keeps
    BY <2>4, EnvKeeps
  <2> QED BY <2>1, <2>4, <2>5, EnvSees DEF Stays
<1>7. ASSUME NEW t \in Threads, OtherProcessRuns(t) PROVE FInv' /\ SInv' /\ Keeps /\ Stays(Pi)
  <2>1. /\ Put(t) /\ man' = man /\ wt' = wt /\ dirty' = dirty /\ call' = call
        /\ returned' = returned /\ orphaned' = orphaned /\ disturbed' = RunsUnfinished(t)
        /\ seen' = seen
    BY <1>7 DEF OtherProcessRuns
  <2>2. /\ disturbed \subseteq disturbed' /\ disturbed' \subseteq Forks
        /\ t \in Forks \ disturbed' => returned[t] # <<>>
    BY <1>t, <2>1 DEF RunsUnfinished, ForkTyped
  <2>3. FInv' /\ Keeps /\ EnvMoves /\ \A s \in Lineages : Fresh(s, made) => Fresh(s, made')
    BY <2>1, <2>2, PutKeeps
  <2> QED BY <2>1, <2>3, EnvSees DEF Stays
<1>8. ASSUME NEW c \in Dispatchers, DispatcherOpens(c)
      PROVE  FInv' /\ SInv' /\ Keeps /\ Stays(Pi)
  <2>1. /\ thr' = thr /\ made' = made /\ man' = man /\ wt' = wt /\ dirty' = dirty
        /\ call' = call /\ returned' = returned /\ orphaned' = orphaned
        /\ disturbed' = disturbed /\ seen' = [seen EXCEPT ![c] = thr]
        /\ c \in Callers /\ c # Pi
    BY <1>t, <1>8 DEF DispatcherOpens
  <2>2. \A d \in Callers : CallSound(d)'
    BY <2>1 DEF FInv, CallSound, At, ForkOf
  <2>3. CallsMove
    BY <1>t, <2>1, <2>2 DEF ForkTyped, CallsMove
  <2>4. FInv' /\ Keeps
    BY <2>3, CallsMoveKeeps
  <2> QED BY <2>1, <2>3, <2>4, CallsMoveSees DEF Stays
<1> QED BY <1>1, <1>2, <1>3, <1>4, <1>5, <1>6, <1>7, <1>8 DEF ForkNext

\* The first state
LEMMA ForkInitSound == ForkInit => FInv /\ SInv
<1> SUFFICES ASSUME ForkInit PROVE FInv /\ SInv
  OBVIOUS
<1>1. << <<Src, 1>> >> \in Lineages /\ <<>> \in Lineages
  BY DEF Lineages, Ids, Threads
<1>2. Idle \in Calls
  BY <1>1 DEF Idle, Calls, Points, Threads, Places
<1>3. ForkTyped
  BY <1>1, <1>2 DEF ForkInit, ForkTyped, Threads
<1>4. \A t \in Threads : Fresh(thr[t], made)
  BY NoneIsNone DEF ForkInit, Fresh
<1>5. \A c \in Callers : CallSound(c) /\ ForkOf(c) = None
  BY DEF ForkInit, CallSound, Idle, At, ForkOf, Fresh
<1>6. \A f \in Forks : Nothing(f) /\ returned[f] = <<>>
  BY NoneIsNone DEF ForkInit, Nothing, Threads
<1>7. \A f \in Forks, c \in Callers : ~Makes(c, f) /\ ~Returns(c, f)
  BY <1>5, NoneIsNone DEF Makes, Returns
<1>8. \A f \in Forks : ForkSound(f)
  BY <1>6, <1>7 DEF ForkSound, Gone, ForkInit
<1>9. FInv
  BY <1>3, <1>4, <1>5, <1>8 DEF FInv
<1>10. \A c \in Callers : seen[c] = thr
  BY DEF ForkInit
<1>11. \A t \in Threads : Begins(thr[t], thr[t])
  BY <1>3, LineageFacts DEF Begins, ForkTyped
<1>12. seen \in [Callers -> [Threads -> Lineages]] /\ Pi \in Callers
  BY <1>3 DEF ForkInit, ForkTyped, Callers
<1>13. ASSUME NEW f \in Forks PROVE SeenSound(f)
  BY <1>6, <1>10, <1>11, <1>12 DEF SeenSound, Nothing, Threads
<1>14. SInv
  BY <1>4, <1>10, <1>11, <1>12, <1>13, NoneIsNone DEF SInv
<1> QED BY <1>9, <1>14

-----------------------------------------------------------------------------
(* Sessions: what the steps of the forks leave them                        *)

\* Constants of the types
LEMMA Constants ==
  /\ NoLink \in Links /\ NoLink.path = None /\ NoHost \in Hosts /\ NoHost.pc = "idle"
  /\ NoRun \in [thread : Threads \cup {None}, place : Places] /\ NoRun.thread = None
  /\ Pi \in Callers /\ Session \subseteq Nat /\ MaxSessions \in Nat /\ 1 \in Session
<1>1. NoLink \in Links /\ NoLink.path = None
  BY DEF NoLink, Links, Ids, Places, Threads
<1>2. NoHost \in Hosts /\ NoHost.pc = "idle"
  BY <1>1 DEF NoHost, Hosts, Places, Threads
<1>3. NoRun \in [thread : Threads \cup {None}, place : Places] /\ NoRun.thread = None
  BY DEF NoRun, Places
<1>4. Pi \in Callers /\ Session \subseteq Nat /\ MaxSessions \in Nat /\ 1 \in Session
  BY BridgeConstants DEF Callers, Session
<1> QED BY <1>1, <1>2, <1>3, <1>4

\* Links stay live, intents and runs keep their fork.
Carries ==
  /\ \A l \in Links : Live(l) => Live(l)'
  /\ \A i \in IntentRecords : IntentSound(i) => IntentSound(i)'
  /\ disturbed \subseteq disturbed'
  /\ \A f \in Forks \ disturbed' : returned[f] # <<>> => returned'[f] # <<>>

\* That is so after every step that keeps what has returned.
LEMMA KeepsCarries ==
  ASSUME FInv, FInv', Keeps
  PROVE  Carries
<1>t. /\ thr \in [Threads -> Lineages] /\ thr' \in [Threads -> Lineages]
      /\ returned \in [Forks -> Lineages]
  BY DEF FInv, ForkTyped
<1>1. ASSUME NEW l \in Links, Live(l) PROVE Live(l)'
  <2> SUFFICES ASSUME l # NoLink, l.thread \notin disturbed'
               PROVE  /\ ~Dead(l)' /\ (l.thread = Src => l.path = None)
                      /\ l.thread # Src => returned'[l.thread] # <<>>
    BY DEF Live
  <2>1. /\ ~Dead(l) /\ (l.thread = Src => l.path = None)
        /\ (l.thread # Src => returned[l.thread] # <<>>)
    BY <1>1 DEF Live, Keeps
  <2>2. l.thread \in Threads
    BY DEF Links
  <2>3. /\ Begins(thr[l.thread], thr'[l.thread])
        /\ l.thread # Src => /\ man'[l.thread] = man[l.thread] /\ wt'[l.thread] = wt[l.thread]
                             /\ returned'[l.thread] = returned[l.thread]
    BY <2>1, <2>2 DEF Keeps, Threads
  <2>4. Range(thr[l.thread]) \subseteq Range(thr'[l.thread])
    BY <1>t, <2>2, <2>3, BeginsRange
  <2> QED BY <2>1, <2>3, <2>4 DEF Dead, WorktreeExists
<1>2. ASSUME NEW i \in IntentRecords, IntentSound(i) PROVE IntentSound(i)'
  <2> SUFFICES ASSUME i.kind = "fork", i.fork \in Forks \ disturbed'
               PROVE  i.link.ck \in Range(returned'[i.fork])
    BY <1>2 DEF IntentSound
  <2>1. i.link.ck \in Range(returned[i.fork])
    BY <1>2 DEF IntentSound, Keeps
  <2>2. returned[i.fork] # <<>>
    BY <1>t, <2>1, LineageFacts
  <2> QED BY <2>1, <2>2 DEF Keeps
<1> QED BY <1>1, <1>2 DEF Carries, Keeps

\* A step that leaves the forks alone
LEMMA ForkSame ==
  ASSUME FInv, SInv, UNCHANGED forkVars
  PROVE  FInv' /\ SInv' /\ Keeps
<1>1. \A c \in Callers : CallSound(c)'
  BY DEF FInv, CallSound, At, ForkOf, forkVars
<1>2. CallsMove /\ seen' = seen /\ Pi \in Callers
  BY <1>1 DEF FInv, ForkTyped, CallsMove, forkVars, Callers
<1>3. FInv' /\ Keeps
  BY <1>2, CallsMoveKeeps
<1> QED BY <1>2, <1>3, CallsMoveSees

\* Session s gets a log whose links are live, and is at entry n.
GetsLog(s, log, n) ==
  /\ log \in Logs /\ IsTree(log) /\ n \in 0..Len(log)
  /\ \A i \in DOMAIN log : \A l \in Links : l = log[i].link => Live(l)'
  /\ entries' = [entries EXCEPT ![s] = log] /\ leaf' = [leaf EXCEPT ![s] = n]

\* The sessions are sound after that.
LEMMA LogSound ==
  ASSUME IInv, Carries, NEW s \in Session, NEW log, NEW n, GetsLog(s, log, n)
  PROVE  /\ entries' \in [Session -> Logs] /\ leaf' \in [Session -> Nat]
         /\ \A r \in Session : leaf'[r] <= Len(entries'[r])
         /\ SessionsSound'
<1>0. /\ log \in Logs /\ IsTree(log) /\ n \in 0..Len(log)
      /\ \A i \in DOMAIN log : \A l \in Links : l = log[i].link => Live(l)'
      /\ entries' = [entries EXCEPT ![s] = log] /\ leaf' = [leaf EXCEPT ![s] = n]
  BY DEF GetsLog
<1>1. /\ entries \in [Session -> Logs] /\ leaf \in [Session -> Nat]
      /\ \A r \in Session : leaf[r] <= Len(entries[r])
  BY DEF IInv, BInv, BridgeTyped
<1>2. /\ entries' \in [Session -> Logs] /\ entries'[s] = log
      /\ \A r \in Session : r # s => entries'[r] = entries[r]
  BY <1>0, <1>1
<1>3. Len(log) \in Nat /\ n \in Nat /\ n <= Len(log)
  BY <1>0, LogFacts
<1>4. /\ leaf' \in [Session -> Nat] /\ leaf'[s] = n
      /\ \A r \in Session : r # s => leaf'[r] = leaf[r]
  BY <1>0, <1>1, <1>3
<1>5. \A r \in Session : leaf'[r] <= Len(entries'[r])
  BY <1>1, <1>2, <1>3, <1>4
<1>6. ASSUME NEW r \in Session, r # s
      PROVE  /\ IsTree(entries[r])
             /\ \A i \in DOMAIN entries[r] : \A l \in Links : l = entries[r][i].link => Live(l)'
  <2>1. /\ entries[r] \in Logs /\ IsTree(entries[r])
        /\ \A i \in DOMAIN entries[r] : Live(entries[r][i].link)
    BY <1>1 DEF IInv, BInv, SessionsSound
  <2>2. \A i \in DOMAIN entries[r] : entries[r][i].link \in Links
    BY <2>1, LogFacts
  <2> QED BY <2>1, <2>2 DEF Carries
<1>7. ASSUME NEW r \in Session
      PROVE  /\ entries'[r] \in Logs /\ IsTree(entries'[r])
             /\ \A i \in DOMAIN entries'[r] : \A l \in Links :
                  l = entries'[r][i].link => Live(l)'
  BY <1>0, <1>2, <1>6
<1>8. \A r \in Session : \A i \in DOMAIN entries'[r] : entries'[r][i].link \in Links
  BY <1>7, LogFacts
<1>9. SessionsSound'
  BY <1>7, <1>8 DEF SessionsSound, Live, Dead, WorktreeExists
<1> QED BY <1>2, <1>4, <1>5, <1>9

\* The session Pi shows
LEMMA CurFacts ==
  ASSUME IInv
  PROVE  /\ cur \in Session /\ sessions \in Nat /\ cur \in Nat
         /\ entries[cur] \in Logs /\ IsTree(entries[cur])
         /\ Len(entries[cur]) \in Nat /\ DOMAIN entries[cur] = 1..Len(entries[cur])
         /\ leaf[cur] \in 0..Len(entries[cur])
         /\ \A i \in 1..Len(entries[cur]) : /\ entries[cur][i].link \in Links
                                            /\ Live(entries[cur][i].link)
<1>1. BridgeTyped /\ SessionsSound
  BY DEF IInv, BInv
<1>2. cur \in Session /\ sessions \in Nat /\ cur \in Nat
  BY <1>1, Constants DEF BridgeTyped, Session
<1>3. entries[cur] \in Logs /\ IsTree(entries[cur])
  BY <1>1, <1>2 DEF BridgeTyped, SessionsSound
<1>4. /\ Len(entries[cur]) \in Nat /\ DOMAIN entries[cur] = 1..Len(entries[cur])
      /\ \A i \in 1..Len(entries[cur]) : entries[cur][i].link \in Links
  BY <1>3, LogFacts
<1>5. leaf[cur] \in 0..Len(entries[cur])
  BY <1>1, <1>2, <1>4 DEF BridgeTyped
<1> QED BY <1>1, <1>2, <1>3, <1>4, <1>5 DEF SessionsSound

\* What an entry of that session resolves to is live.
LEMMA CurLink ==
  ASSUME IInv, NEW e \in 0..Len(entries[cur])
  PROVE  /\ LinkAt(entries[cur], e) \in Links /\ Live(LinkAt(entries[cur], e))
         /\ Nearest(entries[cur], e) \in Nat
<1>1. PICK l : l = LinkAt(entries[cur], e)
  OBVIOUS
<1>2. /\ entries[cur] \in Logs /\ IsTree(entries[cur]) /\ Len(entries[cur]) \in Nat
      /\ \A i \in DOMAIN entries[cur] : Live(entries[cur][i].link)
  BY CurFacts
<1>3. l \in Links /\ (l # NoLink => \E i \in DOMAIN entries[cur] : l = entries[cur][i].link)
  BY <1>1, <1>2, LinkAtFacts
<1>4. Live(l)
  <2>1. CASE l = NoLink
    BY <2>1 DEF Live
  <2>2. CASE l # NoLink
    BY <1>2, <1>3, <2>2
  <2> QED BY <2>1, <2>2
<1>5. Nearest(entries[cur], e) \in Nat
  BY <1>2, NearestType
<1> QED BY <1>1, <1>3, <1>4, <1>5

\* The sessions stay as they are.
LEMMA LogsSame ==
  ASSUME IInv, Carries, entries' = entries
  PROVE  SessionsSound'
<1>1. ASSUME NEW r \in Session
      PROVE  /\ IsTree(entries[r])
             /\ \A i \in DOMAIN entries[r] : /\ entries[r][i].link \in Links
                                             /\ Live(entries[r][i].link)
  <2>1. /\ entries[r] \in Logs /\ IsTree(entries[r])
        /\ \A i \in DOMAIN entries[r] : Live(entries[r][i].link)
    BY DEF IInv, BInv, BridgeTyped, SessionsSound
  <2> QED BY <2>1, LogFacts
<1>2. \A r \in Session : \A i \in DOMAIN entries[r] : \A l \in Links :
        l = entries[r][i].link => Live(l)'
  BY <1>1 DEF Carries
<1> QED BY <1>1, <1>2 DEF SessionsSound, Live, Dead, WorktreeExists

\* The session Pi shows gets a live link.
LEMMA AppendSound ==
  ASSUME IInv, Carries, NEW at \in 0..Len(entries[cur]), NEW l \in Links, Live(l)',
         entries' = [entries EXCEPT ![cur] = Linked(@, at, l)],
         leaf' = [leaf EXCEPT ![cur] = Len(entries[cur]) + 1]
  PROVE  /\ entries' \in [Session -> Logs] /\ leaf' \in [Session -> Nat]
         /\ \A r \in Session : leaf'[r] <= Len(entries'[r])
         /\ SessionsSound'
<1>1. cur \in Session /\ entries[cur] \in Logs /\ IsTree(entries[cur])
  BY CurFacts
<1>2. PICK log : log = Linked(entries[cur], at, l)
  OBVIOUS
<1>3. PICK n : n = Len(entries[cur]) + 1
  OBVIOUS
<1>4. /\ log \in Logs /\ IsTree(log) /\ Len(log) = n
      /\ \A i \in 1..Len(entries[cur]) : log[i] = entries[cur][i]
      /\ log[n].link = l
  BY <1>1, <1>2, <1>3, LinkedFacts
<1>5. /\ n \in 0..Len(log) /\ DOMAIN log = 1..n
      /\ \A i \in 1..n : i \in 1..Len(entries[cur]) \/ i = n
  BY <1>3, <1>4, CurFacts, LogFacts
<1>6. ASSUME NEW i \in DOMAIN log, NEW k \in Links, k = log[i].link PROVE Live(k)'
  <2>1. CASE i = n
    BY <1>4, <1>6, <2>1
  <2>2. CASE i # n
    <3>1. k = entries[cur][i].link /\ i \in 1..Len(entries[cur])
      BY <1>4, <1>5, <1>6, <2>2
    <3>2. Live(k)
      BY <3>1, CurFacts
    <3> QED BY <3>2 DEF Carries
  <2> QED BY <2>1, <2>2
<1>7. PICK s \in Session : s = cur
  BY <1>1
<1>8. entries' = [entries EXCEPT ![s] = log] /\ leaf' = [leaf EXCEPT ![s] = n]
  BY <1>2, <1>3, <1>7
<1>9. \A i \in DOMAIN log : \A k \in Links : k = log[i].link => Live(k)'
  BY <1>6
<1>10. GetsLog(s, log, n)
  BY <1>4, <1>5, <1>8, <1>9 DEF GetsLog
<1> QED BY <1>10, LogSound

\* appendUniqueLink
LEMMA UniqueLink ==
  ASSUME IInv, Carries, NEW l \in Links, Live(l)', AppendUniqueLink(l)
  PROVE  /\ entries' \in [Session -> Logs] /\ leaf' \in [Session -> Nat]
         /\ \A r \in Session : leaf'[r] <= Len(entries'[r])
         /\ SessionsSound'
<1>1. CASE /\ entries' = [entries EXCEPT ![cur] = Linked(@, leaf[cur], l)]
           /\ leaf' = [leaf EXCEPT ![cur] = Len(entries[cur]) + 1]
  <2>1. PICK at \in 0..Len(entries[cur]) : at = leaf[cur]
    BY CurFacts
  <2> QED BY <1>1, <2>1, AppendSound
<1>2. CASE entries' = entries /\ leaf' = leaf
  BY <1>2, LogsSame DEF IInv, BInv, BridgeTyped
<1> QED BY <1>1, <1>2 DEF AppendUniqueLink

\* The intents stay as they are, ...
LEMMA IntentsSame ==
  ASSUME IInv, Carries, intents' = intents
  PROVE  \A i \in DOMAIN intents' : IntentSound(intents[i])'
<1>1. \A i \in DOMAIN intents : intents[i] \in IntentRecords /\ IntentSound(intents[i])
  BY ElementOfSeq DEF IInv, BInv, BridgeTyped
<1>2. \A i \in DOMAIN intents : \A r \in IntentRecords : r = intents[i] => IntentSound(r)'
  BY <1>1 DEF Carries
<1> QED BY <1>1, <1>2 DEF IntentSound

\* ... get one more, ...
LEMMA IntentAdded ==
  ASSUME IInv, Carries, NEW r \in IntentRecords, IntentSound(r)', intents' = Append(intents, r)
  PROVE  /\ intents' \in Seq(IntentRecords) /\ Len(intents') = Len(intents) + 1
         /\ Len(intents) \in Nat
         /\ \A i \in 1..Len(intents) : intents'[i] = intents[i]
         /\ intents'[Len(intents) + 1] = r
         /\ \A i \in DOMAIN intents' : IntentSound(intents[i])'
<1>1. intents \in Seq(IntentRecords) /\ Len(intents) \in Nat /\ DOMAIN intents = 1..Len(intents)
  BY DEF IInv, BInv, BridgeTyped
<1>2. /\ intents' \in Seq(IntentRecords) /\ Len(intents') = Len(intents) + 1
      /\ \A i \in 1..Len(intents) : intents'[i] = intents[i]
      /\ intents'[Len(intents) + 1] = r
  BY <1>1, AppendProperties
<1>3. \A i \in 1..Len(intents) : intents[i] \in IntentRecords /\ IntentSound(intents[i])
  BY <1>1, ElementOfSeq DEF IInv, BInv
<1>4. \A i \in 1..Len(intents) : \A k \in IntentRecords : k = intents[i] => IntentSound(k)'
  BY <1>3 DEF Carries
<1>5. \A i \in DOMAIN intents' : i \in 1..Len(intents) \/ i = Len(intents) + 1
  BY <1>1, <1>2
<1>6. ASSUME NEW i \in DOMAIN intents' PROVE IntentSound(intents[i])'
  <2>1. PICK k \in IntentRecords : k = intents'[i] /\ IntentSound(k)'
    BY <1>2, <1>3, <1>4, <1>5
  <2> QED BY <2>1 DEF IntentSound
<1> QED BY <1>1, <1>2, <1>6

\* ... or one of them another status.
LEMMA StatusSet ==
  ASSUME IInv, Carries, NEW j \in DOMAIN intents,
         NEW st \in {"prepared", "consumed", "expired"},
         intents' = [intents EXCEPT ![j].status = st]
  PROVE  /\ intents' \in Seq(IntentRecords) /\ Len(intents') = Len(intents)
         /\ \A i \in DOMAIN intents :
              /\ intents'[i].kind = intents[i].kind /\ intents'[i].session = intents[i].session
              /\ intents'[i].target = intents[i].target /\ intents'[i].link = intents[i].link
              /\ intents'[i].status = IF i = j THEN st ELSE intents[i].status
         /\ \A i \in DOMAIN intents' : IntentSound(intents[i])'
<1>1. /\ intents \in Seq(IntentRecords) /\ Len(intents) \in Nat
      /\ DOMAIN intents = 1..Len(intents)
      /\ \A i \in DOMAIN intents : intents[i] \in IntentRecords /\ IntentSound(intents[i])
  BY ElementOfSeq DEF IInv, BInv, BridgeTyped
<1> DEFINE q == [intents[j] EXCEPT !.status = st]
<1>2. /\ q \in IntentRecords /\ q.kind = intents[j].kind /\ q.session = intents[j].session
      /\ q.target = intents[j].target /\ q.link = intents[j].link /\ q.fork = intents[j].fork
      /\ q.status = st
  BY <1>1 DEF IntentRecords
<1>3. intents' = [intents EXCEPT ![j] = q]
  OBVIOUS
<1> HIDE DEF q
<1>4. /\ intents' \in Seq(IntentRecords) /\ Len(intents') = Len(intents)
      /\ DOMAIN intents' = DOMAIN intents /\ intents'[j] = q
      /\ \A i \in DOMAIN intents : i # j => intents'[i] = intents[i]
  BY <1>1, <1>2, <1>3, ExceptSeq
<1>5. \A i \in DOMAIN intents : \A k \in IntentRecords : k = intents[i] => IntentSound(k)'
  BY <1>1 DEF Carries
<1>6. ASSUME NEW i \in DOMAIN intents PROVE IntentSound(intents[i])'
  <2>1. PICK k \in IntentRecords : k = intents[i] /\ IntentSound(k)'
    BY <1>1, <1>5
  <2>2. intents'[i].kind = k.kind /\ intents'[i].fork = k.fork /\ intents'[i].link = k.link
    BY <1>2, <1>4, <2>1
  <2> QED BY <2>1, <2>2 DEF IntentSound
<1>7. \A i \in DOMAIN intents :
        /\ intents'[i].kind = intents[i].kind /\ intents'[i].session = intents[i].session
        /\ intents'[i].target = intents[i].target /\ intents'[i].link = intents[i].link
        /\ intents'[i].status = IF i = j THEN st ELSE intents[i].status
  BY <1>2, <1>4
<1> QED BY <1>4, <1>6, <1>7

\* After a step that leaves Pi idle nothing is pending.
LEMMA Settled ==
  ASSUME host'.pc = "idle", call'[Pi].pc = "idle",
         prepFork' # 0 => intents'[prepFork'].kind = "fork"
  PROVE  TreeSound' /\ PiForkSound'
  BY DEF TreeSound, PiForkSound, At

-----------------------------------------------------------------------------
(* The steps of the sessions                                               *)

\* Forks of this and of other processes
LEMMA ElsewhereKeeps ==
  ASSUME IInv, Elsewhere
  PROVE  IInv'
<1>1. FInv' /\ SInv' /\ Keeps /\ Stays(Pi)
  BY ForkNextKeeps DEF IInv, Elsewhere
<1>2. Carries
  BY <1>1, KeepsCarries DEF IInv
<1>3. /\ entries' = entries /\ leaf' = leaf /\ cur' = cur /\ sessions' = sessions
      /\ labelled' = labelled /\ known' = known /\ intents' = intents /\ prepTree' = prepTree
      /\ prepFork' = prepFork /\ host' = host /\ run' = run
  BY DEF Elsewhere, bridgeVars
<1>4. BridgeTyped /\ RunSound /\ TreeSound /\ PiForkSound
  BY DEF IInv, BInv
<1>5. BridgeTyped'
  BY <1>3, <1>4 DEF BridgeTyped
<1>6. RunSound'
  BY <1>2, <1>3, <1>4 DEF RunSound, Carries
<1>7. TreeSound'
  BY <1>3, <1>4 DEF TreeSound
<1>8. PiForkSound'
  BY <1>1, <1>3, <1>4 DEF PiForkSound, Stays, At
<1> QED BY <1>1, <1>2, <1>3, <1>5, <1>6, <1>7, <1>8, LogsSame, IntentsSame DEF IInv, BInv

\* While Pi does nothing its caller is idle.
LEMMA PiIdle ==
  ASSUME IInv, host.pc # "forking"
  PROVE  call[Pi].pc = "idle"
  BY DEF IInv, BInv, PiForkSound, At

\* A run puts a checkpoint.
LEMMA RunCheckpointKeeps ==
  ASSUME IInv, NEW label \in BOOLEAN, RunCheckpoint(label)
  PROVE  IInv'
<1>1. BridgeTyped /\ RunSound /\ PiForkSound /\ FInv /\ SInv /\ ForkTyped
  BY DEF IInv, BInv, FInv
<1>2. PICK t \in Threads : t = run.thread
  BY <1>1 DEF RunCheckpoint, RunSound
<1>3. host.pc = "idle" /\ (t \in Forks \ disturbed => returned[t] # <<>>)
  BY <1>1, <1>2 DEF RunCheckpoint, RunSound
<1>4. /\ Put(t) /\ man' = man /\ wt' = wt /\ dirty' = dirty /\ call' = call
      /\ returned' = returned /\ orphaned' = orphaned /\ disturbed' = disturbed
      /\ seen' = seen /\ disturbed' \subseteq Forks
      /\ entries' = entries /\ leaf' = leaf /\ cur' = cur /\ sessions' = sessions
      /\ intents' = intents /\ prepTree' = prepTree
      /\ prepFork' = prepFork /\ host' = host /\ run' = run
      /\ known' = [known EXCEPT ![t] = thr'[t]]
      /\ labelled' = labelled \/ labelled' = labelled \cup {NewCheckpoint(t)}
  BY <1>1, <1>2 DEF RunCheckpoint, ForkTyped
<1>5. FInv' /\ Keeps /\ EnvMoves /\ NewCheckpoint(t) \in Ids
      /\ \A s \in Lineages : Fresh(s, made) => Fresh(s, made')
  BY <1>1, <1>3, <1>4, PutKeeps
<1>6. SInv'
  BY <1>1, <1>4, <1>5, EnvSees
<1>7. Carries
  BY <1>1, <1>5, KeepsCarries
<1>8. labelled' \subseteq Ids /\ known' \in [Threads -> Lineages]
  BY <1>1, <1>4, <1>5 DEF BridgeTyped, FInv, ForkTyped
<1>9. BridgeTyped' /\ RunSound'
  BY <1>1, <1>4, <1>8 DEF BridgeTyped, RunSound
<1>10. TreeSound' /\ PiForkSound'
  BY <1>1, <1>3, <1>4, PiIdle, Settled DEF PiForkSound
<1> QED BY <1>4, <1>5, <1>6, <1>7, <1>9, <1>10, LogsSame, IntentsSame DEF IInv, BInv

\* The run ends.
LEMMA RunEndsKeeps ==
  ASSUME IInv, NEW completed \in BOOLEAN, RunEnds(completed)
  PROVE  IInv'
<1>1. BridgeTyped /\ RunSound /\ PiForkSound /\ FInv /\ SInv /\ ForkTyped
  BY DEF IInv, BInv, FInv
<1>2. PICK t \in Threads : t = run.thread
  BY <1>1 DEF RunEnds, RunSound
<1>3. host.pc = "idle" /\ (t \in Forks \ disturbed => returned[t] # <<>>)
  BY <1>1, <1>2 DEF RunEnds, RunSound
<1>4. /\ UNCHANGED forkVars /\ thr' = thr /\ returned' = returned /\ disturbed' = disturbed
      /\ call' = call /\ cur' = cur /\ sessions' = sessions
      /\ labelled' = labelled /\ known' = known
      /\ intents' = intents /\ prepTree' = prepTree /\ prepFork' = prepFork
      /\ host' = host /\ run' = NoRun
  BY DEF RunEnds, forkVars
<1>5. FInv' /\ SInv' /\ Keeps
  BY <1>1, <1>4, ForkSame
<1>6. Carries
  BY <1>1, <1>5, KeepsCarries
<1>7. /\ entries' \in [Session -> Logs] /\ leaf' \in [Session -> Nat]
      /\ \A r \in Session : leaf'[r] <= Len(entries'[r])
      /\ SessionsSound'
  <2>1. CASE entries' = entries /\ leaf' = leaf
    BY <1>1, <1>6, <2>1, LogsSame DEF BridgeTyped
  <2>2. CASE /\ seen[Pi][t] # <<>>
             /\ AppendUniqueLink([thread |-> t, ck |-> Last(seen[Pi][t]), path |-> None])
    <3>1. PICK ck : ck = Last(seen[Pi][t])
      OBVIOUS
    <3>2. PICK l : l = [thread |-> t, ck |-> ck, path |-> None]
      OBVIOUS
    <3>3. ck \in Ids /\ (t \notin disturbed => ck \in Range(thr[t]))
      <4>1. thr[t] \in Lineages /\ seen[Pi][t] \in Lineages
        BY <1>1, Constants DEF ForkTyped, SInv
      <4>2. Len(seen[Pi][t]) \in Nat \ {0}
        BY <2>2, <4>1, LineageFacts
      <4>3. Len(seen[Pi][t]) \in 1..Len(seen[Pi][t]) /\ ck = seen[Pi][t][Len(seen[Pi][t])]
        BY <3>1, <4>2 DEF Last
      <4>4. ck \in Ids /\ ck \in Range(seen[Pi][t])
        BY <4>1, <4>3, LineageFacts
      <4>5. t \notin disturbed => Begins(seen[Pi][t], thr[t])
        BY <1>1 DEF SInv, SeenSound, Threads
      <4> QED BY <4>1, <4>4, <4>5, BeginsRange
    <3>4. l \in Links /\ l.thread = t /\ l.ck = ck /\ l.path = None
      BY <3>2, <3>3 DEF Links, Places
    <3>5. t # Src => t \in Forks
      BY DEF Threads
    <3>6. Live(l)'
      BY <1>3, <1>4, <3>3, <3>4, <3>5 DEF Live, Dead
    <3> QED BY <1>6, <2>2, <3>1, <3>2, <3>4, <3>6, UniqueLink
  <2> QED BY <1>2, <2>1, <2>2 DEF RunEnds
<1>8. BridgeTyped'
  BY <1>1, <1>4, <1>7, Constants DEF BridgeTyped
<1>9. RunSound'
  BY <1>4, Constants, NoneIsNone DEF RunSound
<1>10. TreeSound' /\ PiForkSound'
  BY <1>1, <1>3, <1>4, PiIdle, Settled DEF PiForkSound
<1> QED BY <1>4, <1>5, <1>6, <1>7, <1>8, <1>9, <1>10, IntentsSame DEF IInv, BInv

\* The user chats.
LEMMA ChatKeeps ==
  ASSUME IInv, Chat
  PROVE  IInv'
<1>1. BridgeTyped /\ RunSound /\ PiForkSound /\ FInv /\ SInv
  BY DEF IInv, BInv
<1>2. /\ UNCHANGED forkVars /\ call' = call /\ returned' = returned /\ disturbed' = disturbed
      /\ cur' = cur /\ sessions' = sessions
      /\ labelled' = labelled /\ known' = known /\ intents' = intents /\ prepTree' = prepTree
      /\ prepFork' = prepFork /\ host' = host /\ run' = run /\ host.pc = "idle"
      /\ entries' = [entries EXCEPT ![cur] = Linked(@, leaf[cur], NoLink)]
      /\ leaf' = [leaf EXCEPT ![cur] = Len(entries[cur]) + 1]
  BY DEF Chat, Free, forkVars
<1>3. FInv' /\ SInv' /\ Keeps
  BY <1>1, <1>2, ForkSame
<1>4. Carries
  BY <1>1, <1>3, KeepsCarries
<1>5. PICK at \in 0..Len(entries[cur]) : at = leaf[cur]
  BY CurFacts
<1>6. PICK l \in Links : l = NoLink
  BY Constants
<1>7. Live(l)'
  BY <1>6 DEF Live
<1>8. /\ entries' \in [Session -> Logs] /\ leaf' \in [Session -> Nat]
      /\ \A r \in Session : leaf'[r] <= Len(entries'[r])
      /\ SessionsSound'
  BY <1>2, <1>4, <1>5, <1>6, <1>7, AppendSound
<1>9. BridgeTyped' /\ RunSound'
  BY <1>1, <1>2, <1>8 DEF BridgeTyped, RunSound
<1>10. TreeSound' /\ PiForkSound'
  BY <1>1, <1>2, PiIdle, Settled DEF PiForkSound
<1> QED BY <1>2, <1>3, <1>4, <1>8, <1>9, <1>10, IntentsSame DEF IInv, BInv

\* The prepared intents are in the store.
LEMMA PrepFacts ==
  ASSUME IInv
  PROVE  /\ intents \in Seq(IntentRecords) /\ Len(intents) \in Nat
         /\ DOMAIN intents = 1..Len(intents)
         /\ prepTree \in 0..Len(intents) /\ prepFork \in 0..Len(intents)
         /\ prepTree # 0 => prepTree \in DOMAIN intents
         /\ prepFork # 0 => prepFork \in DOMAIN intents /\ intents[prepFork].kind = "fork"
         /\ \A i \in DOMAIN intents : intents[i] \in IntentRecords /\ IntentSound(intents[i])
<1>1. BridgeTyped /\ PiForkSound /\ \A i \in DOMAIN intents : IntentSound(intents[i])
  BY DEF IInv, BInv
<1>2. /\ intents \in Seq(IntentRecords) /\ Len(intents) \in Nat
      /\ DOMAIN intents = 1..Len(intents)
      /\ prepTree \in 0..Len(intents) /\ prepFork \in 0..Len(intents)
  BY <1>1 DEF BridgeTyped
<1>3. \A i \in DOMAIN intents : intents[i] \in IntentRecords
  BY <1>2, ElementOfSeq
<1> QED BY <1>1, <1>2, <1>3 DEF PiForkSound

\* An intent expires.
LEMMA ExpireKeeps ==
  ASSUME IInv, NEW j \in DOMAIN intents, Expire(j)
  PROVE  IInv'
<1>1. BridgeTyped /\ RunSound /\ TreeSound /\ PiForkSound /\ FInv /\ SInv
  BY DEF IInv, BInv
<1>2. /\ UNCHANGED forkVars /\ call' = call /\ returned' = returned /\ disturbed' = disturbed
      /\ entries' = entries /\ leaf' = leaf /\ cur' = cur /\ sessions' = sessions
      /\ labelled' = labelled /\ known' = known /\ prepTree' = prepTree
      /\ prepFork' = prepFork /\ host' = host /\ run' = run
      /\ intents' = [intents EXCEPT ![j].status = "expired"]
  BY DEF Expire, forkVars
<1>3. FInv' /\ SInv' /\ Keeps
  BY <1>1, <1>2, ForkSame
<1>4. Carries
  BY <1>1, <1>3, KeepsCarries
<1>5. /\ intents' \in Seq(IntentRecords) /\ Len(intents') = Len(intents)
      /\ \A i \in DOMAIN intents :
           /\ intents'[i].kind = intents[i].kind /\ intents'[i].session = intents[i].session
           /\ intents'[i].target = intents[i].target /\ intents'[i].link = intents[i].link
           /\ intents'[i].status = IF i = j THEN "expired" ELSE intents[i].status
      /\ \A i \in DOMAIN intents' : IntentSound(intents[i])'
  BY <1>2, <1>4, StatusSet
<1>6. BridgeTyped' /\ RunSound'
  BY <1>1, <1>2, <1>5 DEF BridgeTyped, RunSound
<1>7. TreeSound'
  BY <1>1, <1>2, <1>5, PrepFacts DEF TreeSound
<1>8. PiForkSound'
  BY <1>1, <1>2, <1>5, PrepFacts DEF PiForkSound, At
<1> QED BY <1>2, <1>3, <1>4, <1>5, <1>6, <1>7, <1>8, LogsSame DEF IInv, BInv

\* Pi gives up what it was about to do.
LEMMA HostGone ==
  ASSUME IInv, call[Pi].pc = "idle", host' = NoHost,
         UNCHANGED <<forkVars, budget, entries, leaf, cur, sessions, labelled,
                     known, intents, prepTree, prepFork, run>>
  PROVE  IInv'
<1>1. BridgeTyped /\ RunSound /\ PiForkSound /\ FInv /\ SInv
  BY DEF IInv, BInv
<1>2. /\ UNCHANGED forkVars /\ call' = call /\ returned' = returned /\ disturbed' = disturbed
      /\ entries' = entries /\ leaf' = leaf /\ cur' = cur /\ sessions' = sessions
      /\ labelled' = labelled /\ known' = known /\ intents' = intents /\ prepTree' = prepTree
      /\ prepFork' = prepFork /\ run' = run /\ host'.pc = "idle" /\ host' \in Hosts
  BY Constants DEF forkVars
<1>3. FInv' /\ SInv' /\ Keeps
  BY <1>1, <1>2, ForkSame
<1>4. Carries
  BY <1>1, <1>3, KeepsCarries
<1>5. BridgeTyped' /\ RunSound'
  BY <1>1, <1>2 DEF BridgeTyped, RunSound
<1>6. TreeSound' /\ PiForkSound'
  BY <1>1, <1>2, Settled DEF PiForkSound
<1> QED BY <1>2, <1>3, <1>4, <1>5, <1>6, LogsSame, IntentsSame DEF IInv, BInv

\* A new intent has its type.
LEMMA IntentType ==
  ASSUME IInv, NEW kind \in {"tree", "fork"}, NEW e \in 0..Len(entries[cur]),
         NEW path \in Places, NEW f \in Forks \cup {None}
  PROVE  /\ Intent(kind, e, path, f) \in IntentRecords
         /\ Intent(kind, e, path, f).kind = kind /\ Intent(kind, e, path, f).session = cur
         /\ Intent(kind, e, path, f).target = e /\ Intent(kind, e, path, f).fork = f
         /\ Intent(kind, e, path, f).link = LinkAt(entries[cur], e)
         /\ Intent(kind, e, path, f).status = "prepared"
<1>1. /\ cur \in Session /\ e \in Nat /\ LinkAt(entries[cur], e) \in Links
      /\ Nearest(entries[cur], e) \in Nat
  BY CurFacts, CurLink
<1> QED BY <1>1 DEF Intent, IntentRecords

\* The user is about to move in the tree.
LEMMA BeforeTreeKeeps ==
  ASSUME IInv, NEW e \in DOMAIN entries[cur], BeforeTree(e)
  PROVE  IInv'
<1>1. BridgeTyped /\ RunSound /\ PiForkSound /\ FInv /\ SInv
  BY DEF IInv, BInv
<1>2. /\ UNCHANGED forkVars /\ call' = call /\ returned' = returned /\ disturbed' = disturbed
      /\ entries' = entries /\ leaf' = leaf /\ cur' = cur /\ sessions' = sessions
      /\ labelled' = labelled /\ known' = known /\ prepFork' = prepFork /\ run' = run
      /\ host.pc = "idle" /\ run = NoRun
  BY DEF BeforeTree, Free, forkVars
<1>3. FInv' /\ SInv' /\ Keeps
  BY <1>1, <1>2, ForkSame
<1>4. Carries
  BY <1>1, <1>3, KeepsCarries
<1>5. e \in 0..Len(entries[cur]) /\ e \in Nat
  BY CurFacts
<1>6. \/ host' = host
      \/ host' \in Hosts /\ host'.pc = "tree" /\ host'.target = e
  <2>1. PICK q : q = [NoHost EXCEPT !.pc = "tree", !.target = e]
    OBVIOUS
  <2>2. q \in Hosts /\ q.pc = "tree" /\ q.target = e
    BY <1>5, <2>1, Constants DEF NoHost, Hosts, Places, Threads
  <2> QED BY <2>1, <2>2 DEF BeforeTree
<1>7. call'[Pi].pc = "idle"
  BY <1>2, PiIdle
<1>8. RunSound'
  BY <1>2, Constants, NoneIsNone DEF RunSound
<1>9. CASE prepTree' = 0 /\ intents' = intents
  <2>1. BridgeTyped'
    BY <1>1, <1>2, <1>6, <1>9, PrepFacts DEF BridgeTyped
  <2>2. TreeSound'
    BY <1>2, <1>6, <1>9 DEF TreeSound
  <2>3. PiForkSound'
    BY <1>1, <1>2, <1>6, <1>7, <1>9 DEF PiForkSound, At
  <2> QED BY <1>2, <1>3, <1>4, <1>8, <1>9, <2>1, <2>2, <2>3, LogsSame, IntentsSame
      DEF IInv, BInv
<1>10. CASE ~(prepTree' = 0 /\ intents' = intents)
  <2>1. PICK r : r = Intent("tree", e, LinkAt(entries[cur], e).path, None)
    OBVIOUS
  <2>2. intents' = Append(intents, r) /\ prepTree' = Len(intents) + 1
    BY <1>10, <2>1 DEF BeforeTree
  <2>3. LinkAt(entries[cur], e).path \in Places
    BY <1>5, CurLink DEF Links
  <2>4. /\ r \in IntentRecords /\ r.kind = "tree" /\ r.session = cur
        /\ r.target = e /\ r.link = LinkAt(entries[cur], e) /\ r.status = "prepared"
    BY <1>5, <2>1, <2>3, IntentType
  <2>5. IntentSound(r)'
    BY <2>4 DEF IntentSound
  <2>6. /\ intents' \in Seq(IntentRecords) /\ Len(intents') = Len(intents) + 1
        /\ Len(intents) \in Nat
        /\ \A i \in 1..Len(intents) : intents'[i] = intents[i]
        /\ intents'[Len(intents) + 1] = r
        /\ \A i \in DOMAIN intents' : IntentSound(intents[i])'
    BY <1>4, <2>2, <2>4, <2>5, IntentAdded
  <2>7. BridgeTyped'
    BY <1>1, <1>2, <1>6, <2>2, <2>6 DEF BridgeTyped
  <2>8. TreeSound'
    BY <1>2, <1>6, <2>2, <2>4, <2>6 DEF TreeSound
  <2>9. PiForkSound'
    BY <1>1, <1>2, <1>6, <1>7, <2>6, PrepFacts DEF PiForkSound, At
  <2> QED BY <1>2, <1>3, <1>4, <1>8, <2>6, <2>7, <2>8, <2>9, LogsSame DEF IInv, BInv
<1> QED BY <1>9, <1>10

\* Pi has moved.
LEMMA TreeKeeps ==
  ASSUME IInv, NEW summary \in BOOLEAN, NEW fromExtension \in BOOLEAN,
         Tree(summary, fromExtension)
  PROVE  IInv'
<1>1. BridgeTyped /\ RunSound /\ TreeSound /\ PiForkSound /\ FInv /\ SInv
  BY DEF IInv, BInv
<1>2. /\ UNCHANGED forkVars /\ call' = call /\ returned' = returned /\ disturbed' = disturbed
      /\ cur' = cur /\ sessions' = sessions
      /\ labelled' = labelled /\ known' = known /\ prepFork' = prepFork /\ run' = run
      /\ host.pc = "tree" /\ host'.pc = "idle" /\ host' \in Hosts
      /\ prepTree' \in {prepTree, 0}
  BY Constants DEF Tree, forkVars
<1>3. FInv' /\ SInv' /\ Keeps
  BY <1>1, <1>2, ForkSame
<1>4. Carries
  BY <1>1, <1>3, KeepsCarries
<1>5. PICK e \in 0..Len(entries[cur]) : e = host.target
  BY <1>1, <1>2, CurFacts DEF TreeSound
<1>6. /\ entries' \in [Session -> Logs] /\ leaf' \in [Session -> Nat]
      /\ \A r \in Session : leaf'[r] <= Len(entries'[r])
      /\ SessionsSound'
  <2>1. CASE summary
    <3>1. /\ entries' = [entries EXCEPT ![cur] = Linked(@, e, NoLink)]
          /\ leaf' = [leaf EXCEPT ![cur] = Len(entries[cur]) + 1]
      BY <1>5, <2>1 DEF Tree
    <3>2. PICK l \in Links : l = NoLink
      BY Constants
    <3>3. Live(l)'
      BY <3>2 DEF Live
    <3> QED BY <1>4, <3>1, <3>2, <3>3, AppendSound
  <2>2. CASE ~summary
    <3>1. entries' = entries /\ leaf' = [leaf EXCEPT ![cur] = e]
      BY <1>5, <2>2 DEF Tree
    <3> QED BY <1>1, <1>4, <3>1, CurFacts, LogsSame DEF BridgeTyped
  <2> QED BY <2>1, <2>2
<1>7. /\ intents' \in Seq(IntentRecords) /\ Len(intents') = Len(intents)
      /\ \A i \in DOMAIN intents' : IntentSound(intents[i])'
      /\ \A i \in DOMAIN intents : intents'[i].kind = intents[i].kind
  <2>1. CASE intents' = intents
    BY <1>4, <2>1, IntentsSame, PrepFacts
  <2>2. CASE prepTree # 0 /\ intents' = [intents EXCEPT ![prepTree].status = "consumed"]
    <3>1. PICK j \in DOMAIN intents : j = prepTree
      BY <2>2, PrepFacts
    <3> QED BY <1>4, <2>2, <3>1, StatusSet
  <2> QED BY <2>1, <2>2 DEF Tree, Consumed
<1>8. BridgeTyped'
  BY <1>1, <1>2, <1>6, <1>7, PrepFacts DEF BridgeTyped
<1>9. RunSound'
  BY <1>1, <1>2 DEF RunSound
<1>10. call'[Pi].pc = "idle"
  BY <1>2, PiIdle
<1>11. TreeSound' /\ PiForkSound'
  BY <1>2, <1>7, <1>10, PrepFacts, Settled
<1> QED BY <1>3, <1>6, <1>7, <1>8, <1>9, <1>11 DEF IInv, BInv

\* The user is about to fork the session.
LEMMA BeforeForkKeeps ==
  ASSUME IInv, NEW e \in 0..Len(entries[cur]), NEW f \in PiForks, BeforeFork(e, f)
  PROVE  IInv'
<1>1. BridgeTyped /\ RunSound /\ PiForkSound /\ FInv /\ SInv
  BY DEF IInv, BInv
<1>2. /\ thr' = thr /\ made' = made /\ man' = man /\ wt' = wt /\ dirty' = dirty
      /\ returned' = returned /\ orphaned' = orphaned /\ disturbed' = disturbed /\ seen' = seen
      /\ entries' = entries /\ leaf' = leaf /\ cur' = cur /\ sessions' = sessions
      /\ labelled' = labelled /\ known' = known /\ intents' = intents /\ prepTree' = prepTree
      /\ prepFork' = 0 /\ run' = run
      /\ host.pc = "idle" /\ run = NoRun /\ sessions < MaxSessions
  BY DEF BeforeFork, ForgetFork, Free
<1>3. call[Pi].pc = "idle"
  BY <1>2, PiIdle
<1>4. /\ e \in Nat /\ f \in Forks /\ LinkAt(entries[cur], e) \in Links
      /\ LinkAt(entries[cur], e).thread \in Threads
  BY CurFacts, CurLink DEF Forks, Links
<1>5. ASSUME NEW l \in {"fork", "forking"}
      PROVE  LET q == [NoHost EXCEPT !.pc = l, !.target = e]
             IN  q \in Hosts /\ q.pc = l /\ q.target = e
  BY <1>4, Constants DEF NoHost, Hosts, Places, Threads
<1>6. \/ call' = call /\ host' = host
      \/ call' = call /\ host' \in Hosts /\ host'.pc = "fork" /\ host'.target = e
      \/ /\ host' \in Hosts /\ host'.pc = "forking" /\ host'.target = e
         /\ \E k \in 1..Len(seen[Pi][LinkAt(entries[cur], e).thread]) :
              /\ seen[Pi][LinkAt(entries[cur], e).thread][k] = LinkAt(entries[cur], e).ck
              /\ PrepareClone(Pi, LinkAt(entries[cur], e).thread, k, f)
  BY <1>5 DEF BeforeFork
<1>7. /\ FInv' /\ SInv' /\ Keeps
      /\ call'[Pi].pc # "idle" =>
           /\ host'.pc = "forking" /\ host'.target = e
           /\ Last(call'[Pi].lineage) = LinkAt(entries[cur], e).ck
  <2>1. CASE call' = call
    <3>1. UNCHANGED forkVars
      BY <1>2, <2>1 DEF forkVars
    <3> QED BY <1>1, <1>3, <2>1, <3>1, ForkSame
  <2>2. CASE call' # call
    <3>1. PICK s \in Threads : s = LinkAt(entries[cur], e).thread
      BY <1>4
    <3>2. PICK t \in Lineages : t = seen[Pi][s] /\ Fresh(t, made)
      BY <1>1, Constants DEF SInv
    <3>3. PICK k \in 1..Len(t) : t[k] = LinkAt(entries[cur], e).ck /\ PrepareClone(Pi, s, k, f)
      BY <1>6, <2>2, <3>1, <3>2
    <3>4. FInv' /\ Keeps /\ CallsMove /\ Last(call'[Pi].lineage) = t[k]
      BY <1>1, <1>2, <1>4, <3>2, <3>3, PrepareKeeps, Constants
    <3>5. SInv'
      BY <1>1, <1>2, <3>4, CallsMoveSees, Constants
    <3> QED BY <1>2, <1>6, <2>2, <3>3, <3>4, <3>5
  <2> QED BY <2>1, <2>2
<1>8. Carries
  BY <1>1, <1>7, KeepsCarries
<1>9. BridgeTyped'
  BY <1>1, <1>2, <1>6, PrepFacts DEF BridgeTyped
<1>10. RunSound'
  BY <1>2, Constants, NoneIsNone DEF RunSound
<1>11. TreeSound'
  BY <1>2, <1>6 DEF TreeSound
<1>12. PiForkSound'
  BY <1>2, <1>6, <1>7 DEF PiForkSound, At
<1> QED BY <1>2, <1>7, <1>8, <1>9, <1>10, <1>11, <1>12, LogsSame, IntentsSame DEF IInv, BInv

\* The workflow is forked, and the intent names the fork with its lineage.
LEMMA ForkPreparedKeeps ==
  ASSUME IInv, ForkPrepared
  PROVE  IInv'
<1>1. BridgeTyped /\ RunSound /\ PiForkSound /\ FInv /\ SInv /\ ForkTyped
  BY DEF IInv, BInv, FInv
<1>2. /\ thr' = thr /\ made' = made /\ man' = man /\ wt' = wt /\ dirty' = dirty
      /\ returned' = returned /\ orphaned' = orphaned /\ disturbed' = disturbed /\ Throw(Pi)
      /\ seen' = seen
      /\ entries' = entries /\ leaf' = leaf /\ cur' = cur /\ sessions' = sessions
      /\ labelled' = labelled /\ known' = known /\ prepTree' = prepTree /\ run' = run
      /\ host.pc = "forking" /\ call[Pi].pc = "done"
  BY DEF ForkPrepared, At
<1>3. FInv' /\ SInv' /\ Keeps /\ call'[Pi].pc = "idle"
  <2>1. CallsMove /\ FInv' /\ Keeps /\ call'[Pi].pc = "idle"
    BY <1>1, <1>2, EndKeeps, Throwing, Constants DEF ForkTyped
  <2> QED BY <1>1, <1>2, <2>1, CallsMoveSees, Constants
<1>4. Carries
  BY <1>1, <1>3, KeepsCarries
<1>5. run = NoRun
  BY <1>1, <1>2 DEF RunSound
<1>6. RunSound'
  BY <1>2, <1>5, Constants, NoneIsNone DEF RunSound
<1>7. CASE host' = NoHost /\ intents' = intents /\ prepFork' = prepFork
  <2>1. BridgeTyped'
    BY <1>1, <1>2, <1>7, Constants DEF BridgeTyped
  <2>2. TreeSound' /\ PiForkSound'
    BY <1>3, <1>7, PrepFacts, Constants, Settled
  <2> QED BY <1>2, <1>3, <1>4, <1>6, <1>7, <2>1, <2>2, LogsSame, IntentsSame DEF IInv, BInv
<1>8. CASE ~(host' = NoHost /\ intents' = intents /\ prepFork' = prepFork)
  <2>1. PICK f \in Forks : f = ForkOf(Pi)
    BY <1>2, CallFacts, Constants DEF At, IInv
  <2>2. PICK e \in 0..Len(entries[cur]) : e = host.target
    BY <1>1, <1>2 DEF PiForkSound
  <2>3. PICK path \in Places : path = call[Pi].path
    BY <1>1, Constants DEF ForkTyped, Calls
  <2>4. PICK r : r = Intent("fork", e, path, f)
    OBVIOUS
  <2>5. /\ intents' = Append(intents, r) /\ prepFork' = Len(intents) + 1
        /\ host' = [host EXCEPT !.pc = "fork"]
    BY <1>8, <2>1, <2>2, <2>3, <2>4 DEF ForkPrepared
  <2>6. host' \in Hosts /\ host'.pc = "fork" /\ host'.target = e
    BY <1>1, <2>2, <2>5 DEF BridgeTyped, Hosts
  <2>7. /\ r \in IntentRecords /\ r.kind = "fork" /\ r.session = cur /\ r.target = e
        /\ r.fork = f /\ r.link = LinkAt(entries[cur], e) /\ r.status = "prepared"
    BY <2>4, IntentType
  <2>8. ASSUME f \notin disturbed PROVE r.link.ck \in Range(returned[f])
    <3>1. returned[f] = call[Pi].lineage
      BY <1>1, <1>2, <2>1, <2>8, Constants DEF FInv, ForkSound, Returns, At
    <3>2. r.link.ck = Last(returned[f])
      BY <1>1, <1>2, <2>2, <2>7, <3>1 DEF PiForkSound, At
    <3>3. returned[f] \in Lineages /\ Len(returned[f]) \in Nat \ {0}
      BY <1>1, <1>2, <3>1, CallFacts, Constants DEF At
    <3>4. Len(returned[f]) \in 1..Len(returned[f])
      BY <3>3
    <3> QED BY <3>2, <3>3, <3>4, LineageFacts DEF Last
  <2>9. IntentSound(r)'
    BY <1>2, <2>7, <2>8 DEF IntentSound
  <2>10. /\ intents' \in Seq(IntentRecords) /\ Len(intents') = Len(intents) + 1
         /\ Len(intents) \in Nat
         /\ \A i \in 1..Len(intents) : intents'[i] = intents[i]
         /\ intents'[Len(intents) + 1] = r
         /\ \A i \in DOMAIN intents' : IntentSound(intents[i])'
    BY <1>4, <2>5, <2>7, <2>9, IntentAdded
  <2>11. BridgeTyped'
    BY <1>1, <1>2, <2>5, <2>6, <2>10 DEF BridgeTyped
  <2>12. TreeSound'
    BY <2>6 DEF TreeSound
  <2>13. PiForkSound'
    BY <1>1, <1>2, <1>3, <2>2, <2>5, <2>6, <2>7, <2>10 DEF PiForkSound, At
  <2> QED BY <1>2, <1>3, <1>4, <1>6, <2>10, <2>11, <2>12, <2>13, LogsSame DEF IInv, BInv
<1> QED BY <1>7, <1>8

\* What the preparation of a fork links to is live.
LEMMA BoundLive ==
  ASSUME IInv, prepFork # 0, Consumable(prepFork), UNCHANGED forkVars,
         NEW l, l = [thread |-> intents[prepFork].fork, ck |-> intents[prepFork].link.ck,
                     path |-> intents[prepFork].path]
  PROVE  l \in Links /\ Live(l)'
<1>1. PICK i : i = intents[prepFork]
  OBVIOUS
<1>2. i \in IntentRecords /\ i.kind = "fork" /\ IntentSound(i)
  BY <1>1, PrepFacts
<1>3. PICK f \in Forks : f = i.fork
  BY <1>2 DEF IntentSound
<1>4. WorktreeExists(f, i.path)
  BY <1>1, <1>2, <1>3 DEF Consumable
<1>5. l \in Links /\ l.thread = f /\ l.ck = i.link.ck /\ l.path = i.path
  BY <1>1, <1>2, <1>3 DEF Links, IntentRecords, Threads
<1>6. ASSUME f \notin disturbed PROVE returned[f] # <<>> /\ l.ck \in Range(thr[f])
  <2>1. l.ck \in Range(returned[f])
    BY <1>2, <1>3, <1>5, <1>6 DEF IntentSound
  <2>2. returned[f] \in Lineages /\ thr[f] \in Lineages
    BY DEF IInv, FInv, ForkTyped, Threads
  <2>3. returned[f] # <<>>
    BY <2>1, <2>2, LineageFacts
  <2>4. Begins(returned[f], thr[f])
    BY <1>6, <2>3 DEF IInv, FInv, ForkSound, Whole
  <2> QED BY <2>1, <2>2, <2>3, <2>4, BeginsRange
<1>7. f # Src
  BY NoneIsNone
<1>8. Live(l)'
  BY <1>4, <1>5, <1>6, <1>7 DEF Live, Dead, WorktreeExists, forkVars
<1> QED BY <1>5, <1>8

\* Pi has made the session of a fork and binds it.
LEMMA SessionForkedKeeps ==
  ASSUME IInv, SessionForked
  PROVE  IInv'
<1>1. BridgeTyped /\ RunSound /\ PiForkSound /\ FInv /\ SInv
  BY DEF IInv, BInv
<1>2. /\ UNCHANGED forkVars /\ call' = call /\ returned' = returned /\ disturbed' = disturbed
      /\ labelled' = labelled /\ known' = known /\ prepTree' = prepTree /\ run' = run
      /\ host.pc = "fork" /\ host'.pc = "idle" /\ host' \in Hosts
      /\ sessions' = sessions + 1 /\ cur' = sessions' /\ prepFork' \in {prepFork, 0}
  BY Constants DEF SessionForked, forkVars
<1>3. FInv' /\ SInv' /\ Keeps
  BY <1>1, <1>2, ForkSame
<1>4. Carries
  BY <1>1, <1>3, KeepsCarries
<1>5. PICK e \in 0..Len(entries[cur]) : e = host.target
  BY <1>1, <1>2 DEF PiForkSound
<1>6. PICK log : log = Branch(entries[cur], e)
  OBVIOUS
<1>7. /\ log \in Logs /\ IsTree(log)
      /\ \A i \in DOMAIN log : \E j \in DOMAIN entries[cur] : log[i].link = entries[cur][j].link
  BY <1>6, CurFacts, BranchFacts
<1>8. \A i \in DOMAIN log : \A l \in Links : l = log[i].link => Live(l)'
  <2> SUFFICES ASSUME NEW i \in DOMAIN log, NEW l \in Links, l = log[i].link PROVE Live(l)'
    OBVIOUS
  <2>1. PICK j \in DOMAIN entries[cur] : l = entries[cur][j].link
    BY <1>7
  <2>2. Live(l)
    BY <2>1, CurFacts
  <2> QED BY <1>4, <2>2 DEF Carries
<1>9. Len(log) \in Nat /\ DOMAIN log = 1..Len(log)
  BY <1>7, LogFacts
<1>10. PICK s \in Session : s = cur'
  BY <1>1, <1>2, Constants DEF PiForkSound, BridgeTyped, Session
<1>11. PICK l : l = [thread |-> intents[prepFork].fork, ck |-> intents[prepFork].link.ck,
                     path |-> intents[prepFork].path]
  OBVIOUS
<1>12. \/ /\ entries' = [entries EXCEPT ![s] = log] /\ leaf' = [leaf EXCEPT ![s] = Len(log)]
          /\ intents' = intents
       \/ /\ prepFork # 0 /\ Consumable(prepFork)
          /\ entries' = [entries EXCEPT ![s] = Linked(log, Len(log), l)]
          /\ leaf' = [leaf EXCEPT ![s] = Len(Linked(log, Len(log), l))]
          /\ intents' = [intents EXCEPT ![prepFork].status = "consumed"]
  BY <1>5, <1>6, <1>10, <1>11 DEF SessionForked, Consumed
<1>13. /\ entries' \in [Session -> Logs] /\ leaf' \in [Session -> Nat]
       /\ \A r \in Session : leaf'[r] <= Len(entries'[r])
       /\ SessionsSound'
       /\ intents' \in Seq(IntentRecords) /\ Len(intents') = Len(intents)
       /\ \A i \in DOMAIN intents' : IntentSound(intents[i])'
       /\ \A i \in DOMAIN intents : intents'[i].kind = intents[i].kind
  <2>1. CASE /\ entries' = [entries EXCEPT ![s] = log] /\ leaf' = [leaf EXCEPT ![s] = Len(log)]
             /\ intents' = intents
    <3>1. Len(log) \in 0..Len(log)
      BY <1>9
    <3>2. GetsLog(s, log, Len(log))
      BY <1>7, <1>8, <2>1, <3>1 DEF GetsLog
    <3> QED BY <1>4, <2>1, <3>2, LogSound, IntentsSame, PrepFacts
  <2>2. CASE /\ prepFork # 0 /\ Consumable(prepFork)
             /\ entries' = [entries EXCEPT ![s] = Linked(log, Len(log), l)]
             /\ leaf' = [leaf EXCEPT ![s] = Len(Linked(log, Len(log), l))]
             /\ intents' = [intents EXCEPT ![prepFork].status = "consumed"]
    <3>1. l \in Links /\ Live(l)'
      BY <1>2, <1>11, <2>2, BoundLive
    <3>2. PICK new : new = Linked(log, Len(log), l)
      OBVIOUS
    <3>3. PICK n : n = Len(log) + 1
      OBVIOUS
    <3>4. Len(log) \in 0..Len(log)
      BY <1>9
    <3>5. /\ new \in Logs /\ IsTree(new) /\ Len(new) = n
          /\ \A i \in 1..Len(log) : new[i] = log[i]
          /\ new[n].link = l
      BY <1>7, <3>1, <3>2, <3>3, <3>4, LinkedFacts
    <3>6. /\ n \in 0..Len(new) /\ DOMAIN new = 1..n
          /\ \A i \in 1..n : i \in 1..Len(log) \/ i = n
      BY <1>9, <3>3, <3>5, LogFacts
    <3>7. \A i \in DOMAIN new : \A k \in Links : k = new[i].link => Live(k)'
      BY <1>8, <1>9, <3>1, <3>5, <3>6
    <3>8. GetsLog(s, new, n)
      BY <2>2, <3>2, <3>5, <3>6, <3>7 DEF GetsLog
    <3>9. PICK j \in DOMAIN intents : j = prepFork
      BY <2>2, PrepFacts
    <3> QED BY <1>4, <2>2, <3>8, <3>9, LogSound, StatusSet
  <2> QED BY <1>12, <2>1, <2>2
<1>14. BridgeTyped'
  BY <1>1, <1>2, <1>10, <1>13, PrepFacts, CurFacts DEF BridgeTyped, Session
<1>15. RunSound'
  BY <1>1, <1>2 DEF RunSound
<1>16. call'[Pi].pc = "idle"
  BY <1>2, PiIdle
<1>17. TreeSound' /\ PiForkSound'
  BY <1>2, <1>13, <1>16, PrepFacts, Settled
<1> QED BY <1>3, <1>13, <1>14, <1>15, <1>17 DEF IInv, BInv

\* Pi shows another session.
LEMMA SwitchKeeps ==
  ASSUME IInv, NEW s \in 1..sessions, SwitchSession(s)
  PROVE  IInv'
<1>1. BridgeTyped /\ RunSound /\ PiForkSound /\ FInv /\ SInv
  BY DEF IInv, BInv
<1>2. /\ UNCHANGED forkVars /\ call' = call /\ returned' = returned /\ disturbed' = disturbed
      /\ entries' = entries /\ leaf' = leaf /\ cur' = s /\ sessions' = sessions
      /\ labelled' = labelled /\ known' = known /\ intents' = intents /\ prepTree' = prepTree
      /\ prepFork' \in {prepFork, 0} /\ host' = host /\ run' = run /\ host.pc = "idle"
  BY DEF SwitchSession, Free, forkVars
<1>3. FInv' /\ SInv' /\ Keeps
  BY <1>1, <1>2, ForkSame
<1>4. Carries
  BY <1>1, <1>3, KeepsCarries
<1>5. BridgeTyped' /\ RunSound'
  BY <1>1, <1>2, PrepFacts DEF BridgeTyped, RunSound
<1>6. TreeSound' /\ PiForkSound'
  BY <1>2, PiIdle, PrepFacts, Settled
<1> QED BY <1>2, <1>3, <1>4, <1>5, <1>6, LogsSame, IntentsSame DEF IInv, BInv

\* Pi dies and starts again.
LEMMA RestartKeeps ==
  ASSUME IInv, PiRestarts
  PROVE  IInv'
<1>1. BridgeTyped /\ FInv /\ SInv /\ ForkTyped
  BY DEF IInv, BInv, FInv
<1>2. /\ Throw(Pi) /\ thr' = thr /\ made' = made /\ man' = man /\ wt' = wt /\ dirty' = dirty
      /\ returned' = returned /\ orphaned' = orphaned
      /\ disturbed' = disturbed \cup ({ForkOf(Pi)} \ {None}) \cup ReadUnfinished
      /\ seen' = [seen EXCEPT ![Pi] = thr] /\ known' = Unread
      /\ entries' = entries /\ leaf' = leaf /\ cur' = cur /\ sessions' = sessions
      /\ labelled' = labelled /\ intents' = intents /\ prepTree' = 0 /\ prepFork' = 0
      /\ host' = NoHost /\ run' = NoRun
  BY DEF PiRestarts, Throw
<1>3. /\ disturbed \subseteq disturbed' /\ disturbed' \subseteq Forks
      /\ call[Pi].pc = "idle" \/ ForkOf(Pi) \in disturbed'
  <2>1. call[Pi].pc = "idle" <=> ForkOf(Pi) = None
    BY <1>1, Constants DEF FInv, CallSound, At
  <2>2. ForkOf(Pi) \in Forks \cup {None}
    BY <1>1, Constants DEF ForkTyped, Calls, ForkOf
  <2> QED BY <1>1, <1>2, <2>1, <2>2 DEF ForkTyped, ReadUnfinished
<1>4. FInv' /\ Keeps /\ call'[Pi].pc = "idle"
  BY <1>1, <1>2, <1>3, EndKeeps, Throwing, Constants
<1>5. SInv'
  <2>1. /\ seen' \in [Callers -> [Threads -> Lineages]] /\ seen'[Pi] = thr
        /\ \A d \in Callers : d # Pi => seen'[d] = seen[d]
    BY <1>1, <1>2, Constants DEF SInv, ForkTyped
  <2>2. \A d \in Callers : \A t \in Threads : Fresh(seen'[d][t], made')
    BY <1>1, <1>2, <2>1 DEF SInv, FInv
  <2>3. \A t \in Threads : Begins(seen'[Pi][t], thr'[t])
    BY <1>1, <1>2, <2>1, LineageFacts DEF Begins, ForkTyped
  <2>4. ASSUME NEW f \in Forks \ disturbed' PROVE seen'[Pi][f] = <<>> \/ returned'[f] # <<>>
    BY <1>2, <2>1 DEF ReadUnfinished
  <2>5. \A f \in Forks \ disturbed' : SeenSound(f)'
    BY <2>3, <2>4 DEF SeenSound, Threads
  <2> QED BY <2>1, <2>2, <2>3, <2>5, NoneIsNone DEF SInv
<1>6. Carries
  BY <1>1, <1>4, KeepsCarries
<1>7. Unread \in [Threads -> Lineages]
  BY DEF Unread, Lineages
<1>8. BridgeTyped' /\ RunSound'
  BY <1>1, <1>2, <1>7, Constants, NoneIsNone, PrepFacts DEF BridgeTyped, RunSound
<1>9. TreeSound' /\ PiForkSound'
  BY <1>2, <1>4, Constants, Settled
<1> QED BY <1>2, <1>4, <1>5, <1>6, <1>8, <1>9, LogsSame, IntentsSame DEF IInv, BInv

\* The dispatcher opens its saver.
LEMMA OpenDispatcherKeeps ==
  ASSUME IInv, OpenDispatcher
  PROVE  IInv'
<1>1. BridgeTyped /\ RunSound /\ TreeSound /\ PiForkSound /\ FInv /\ SInv
  BY DEF IInv, BInv
<1>2. /\ UNCHANGED forkVars /\ call' = call /\ returned' = returned /\ disturbed' = disturbed
      /\ entries' = entries /\ leaf' = leaf /\ cur' = cur /\ sessions' = sessions
      /\ labelled' = labelled /\ known' = thr /\ intents' = intents /\ prepTree' = prepTree
      /\ prepFork' = prepFork /\ host' = host /\ run' = run
  BY DEF OpenDispatcher, forkVars
<1>3. FInv' /\ SInv' /\ Keeps
  BY <1>1, <1>2, ForkSame
<1>4. Carries
  BY <1>1, <1>3, KeepsCarries
<1>5. BridgeTyped'
  BY <1>1, <1>2 DEF BridgeTyped, FInv, ForkTyped
<1>6. RunSound' /\ TreeSound' /\ PiForkSound'
  BY <1>1, <1>2 DEF RunSound, TreeSound, PiForkSound, At
<1> QED BY <1>2, <1>3, <1>4, <1>5, <1>6, LogsSame, IntentsSame DEF IInv, BInv

\* The user resumes a thread.
LEMMA ResumeKeeps ==
  ASSUME IInv, NEW t \in Threads, Resume(t)
  PROVE  IInv'
<1>1. BridgeTyped /\ RunSound /\ PiForkSound /\ FInv /\ SInv /\ ForkTyped
  BY DEF IInv, BInv, FInv
<1>2. /\ UNCHANGED forkVars /\ call' = call /\ returned' = returned /\ disturbed' = disturbed
      /\ entries' = entries /\ leaf' = leaf /\ cur' = cur /\ sessions' = sessions
      /\ labelled' = labelled /\ known' = known /\ intents' = intents /\ prepTree' = prepTree
      /\ prepFork' = prepFork /\ run' = run /\ host.pc = "idle" /\ run = NoRun
  BY DEF Resume, Free, forkVars
<1>3. FInv' /\ SInv' /\ Keeps
  BY <1>1, <1>2, ForkSame
<1>4. Carries
  BY <1>1, <1>3, KeepsCarries
<1>5. PICK l \in Links : l = ActiveLink
  BY CurFacts, CurLink DEF ActiveLink
<1>6. PICK p \in Places : p = ForkWorkspace(t)
  BY <1>1 DEF ForkWorkspace, ForkTyped, Manifests, Places, Forks
<1>7. /\ host' \in Hosts /\ host'.pc = "resume" /\ host'.link = l /\ host'.thread = t
      /\ host'.place = p
  <2>1. host' = [NoHost EXCEPT !.pc = "resume", !.link = l, !.thread = t, !.place = p]
    BY <1>5, <1>6 DEF Resume
  <2> QED BY <2>1 DEF NoHost, Hosts
<1>8. BridgeTyped'
  BY <1>1, <1>2, <1>7 DEF BridgeTyped
<1>9. RunSound'
  BY <1>2, Constants, NoneIsNone DEF RunSound
<1>10. TreeSound'
  BY <1>7 DEF TreeSound
<1>11. PiForkSound'
  BY <1>2, <1>7, PiIdle, PrepFacts DEF PiForkSound, At
<1> QED BY <1>2, <1>3, <1>4, <1>8, <1>9, <1>10, <1>11, LogsSame, IntentsSame DEF IInv, BInv

\* The resumed run starts: a fork that is not whole is disturbed by it.
LEMMA ResumeStartsKeeps ==
  ASSUME IInv, ResumeStarts
  PROVE  IInv'
<1>1. BridgeTyped /\ PiForkSound /\ FInv /\ SInv /\ ForkTyped
  BY DEF IInv, BInv, FInv
<1>2. /\ thr' = thr /\ made' = made /\ man' = man /\ wt' = wt /\ dirty' = dirty /\ call' = call
      /\ returned' = returned /\ orphaned' = orphaned /\ seen' = seen
      /\ disturbed' = RunsUnfinished(host.thread)
      /\ entries' = entries /\ leaf' = leaf /\ cur' = cur /\ sessions' = sessions
      /\ labelled' = labelled /\ known' = known /\ intents' = intents /\ prepTree' = prepTree
      /\ prepFork' = prepFork /\ run' = [thread |-> host.thread, place |-> host.place]
      /\ host.pc = "resume" /\ host' = NoHost
  BY DEF ResumeStarts
<1>3. PICK t \in Threads : t = host.thread
  BY <1>1 DEF BridgeTyped, Hosts
<1>4. /\ run' \in [thread : Threads \cup {None}, place : Places] /\ run'.thread = t
  BY <1>1, <1>2, <1>3 DEF BridgeTyped, Hosts
<1>5. /\ disturbed \subseteq disturbed' /\ disturbed' \subseteq Forks
      /\ t \in Forks \ disturbed' => returned[t] # <<>>
  BY <1>1, <1>2, <1>3 DEF RunsUnfinished, ForkTyped
<1>6. FInv' /\ SInv' /\ Keeps
  <2>1. \A c \in Callers : CallSound(c)'
    BY <1>1, <1>2 DEF FInv, CallSound, At, ForkOf
  <2>2. CallsMove
    BY <1>1, <1>2, <1>5, <2>1 DEF CallsMove, ForkTyped
  <2>3. FInv' /\ Keeps
    BY <1>1, <2>2, CallsMoveKeeps
  <2> QED BY <1>1, <1>2, <2>2, <2>3, CallsMoveSees, Constants
<1>7. Carries
  BY <1>1, <1>6, KeepsCarries
<1>8. BridgeTyped'
  BY <1>1, <1>2, <1>4, Constants DEF BridgeTyped
<1>9. RunSound'
  BY <1>2, <1>4, <1>5, Constants DEF RunSound
<1>10. TreeSound' /\ PiForkSound'
  BY <1>2, PiIdle, PrepFacts, Constants, Settled
<1> QED BY <1>2, <1>6, <1>7, <1>8, <1>9, <1>10, LogsSame, IntentsSame DEF IInv, BInv

\* A step that changes nothing
LEMMA StutterKeeps ==
  ASSUME IInv, UNCHANGED vars
  PROVE  IInv'
<1>1. BridgeTyped /\ RunSound /\ TreeSound /\ PiForkSound /\ FInv /\ SInv
  BY DEF IInv, BInv
<1>2. /\ UNCHANGED forkVars /\ call' = call /\ returned' = returned /\ disturbed' = disturbed
      /\ entries' = entries /\ leaf' = leaf /\ cur' = cur /\ sessions' = sessions
      /\ labelled' = labelled /\ known' = known /\ intents' = intents /\ prepTree' = prepTree
      /\ prepFork' = prepFork /\ host' = host /\ run' = run
  BY DEF vars, forkVars, bridgeVars
<1>3. FInv' /\ SInv' /\ Keeps
  BY <1>1, <1>2, ForkSame
<1>4. Carries
  BY <1>1, <1>3, KeepsCarries
<1>5. BridgeTyped' /\ RunSound' /\ TreeSound'
  BY <1>1, <1>2 DEF BridgeTyped, RunSound, TreeSound
<1>6. PiForkSound'
  BY <1>1, <1>2 DEF PiForkSound, At
<1> QED BY <1>2, <1>3, <1>4, <1>5, <1>6, LogsSame, IntentsSame DEF IInv, BInv

-----------------------------------------------------------------------------
(* The invariant                                                           *)

\* The first state
LEMMA InitSound == Init => IInv
<1> SUFFICES ASSUME Init PROVE IInv
  OBVIOUS
<1>1. FInv /\ SInv
  BY ForkInitSound DEF Init
<1>2. PICK q : q = [parent |-> 0, link |-> NoLink]
  OBVIOUS
<1>3. q \in Entry /\ q.parent = 0 /\ q.link = NoLink
  BY <1>2, Constants DEF Entry
<1>4. /\ <<q>> \in Logs /\ Len(<<q>>) = 1 /\ DOMAIN <<q>> = {1} /\ <<q>>[1] = q
      /\ <<>> \in Logs /\ Len(<<>>) = 0 /\ DOMAIN <<>> = {}
  BY <1>3 DEF Logs
<1>5. entries = [s \in Session |-> IF s = 1 THEN <<q>> ELSE <<>>]
  BY <1>2 DEF Init
<1>6. /\ entries \in [Session -> Logs]
      /\ \A s \in Session : /\ Len(entries[s]) = IF s = 1 THEN 1 ELSE 0
                            /\ DOMAIN entries[s] = IF s = 1 THEN {1} ELSE {}
                            /\ s = 1 => entries[s][1] = q
  BY <1>4, <1>5
<1>7. /\ leaf \in [Session -> Nat] /\ \A s \in Session : leaf[s] <= Len(entries[s])
  BY <1>6 DEF Init
<1>8. /\ cur \in 1..sessions /\ sessions \in Session /\ labelled \subseteq Ids
      /\ known \in [Threads -> Lineages]
      /\ intents \in Seq(IntentRecords) /\ Len(intents) = 0 /\ DOMAIN intents = {}
      /\ {prepTree, prepFork} \subseteq 0..Len(intents) /\ host \in Hosts
      /\ prepFork = 0 /\ host.pc = "idle"
  BY <1>1, Constants, NoneIsNone DEF Init, FInv, ForkTyped, Ids
<1>9. run \in [thread : Threads \cup {None}, place : Places] /\ run.thread = Src
  BY NoneIsNone DEF Init, Places
<1>10. BridgeTyped
  BY <1>6, <1>7, <1>8, <1>9 DEF BridgeTyped
<1>11. SessionsSound
  BY <1>3, <1>6 DEF SessionsSound, IsTree, Live
<1>12. RunSound
  BY <1>8, <1>9, NoneIsNone DEF RunSound
<1>13. call[Pi].pc = "idle"
  BY Constants DEF Init, ForkInit, Idle
<1>14. TreeSound /\ PiForkSound
  BY <1>8, <1>13 DEF TreeSound, PiForkSound, At
<1> QED BY <1>1, <1>8, <1>10, <1>11, <1>12, <1>14 DEF IInv, BInv

\* Every step
LEMMA NextKeeps == IInv /\ [Next]_vars => IInv'
<1> SUFFICES ASSUME IInv, [Next]_vars PROVE IInv'
  OBVIOUS
<1>1. CASE \E b \in BOOLEAN : RunCheckpoint(b) \/ RunEnds(b)
  BY <1>1, RunCheckpointKeeps, RunEndsKeeps
<1>2. CASE \E i \in DOMAIN intents : Expire(i)
  BY <1>2, ExpireKeeps
<1>3. CASE \E e \in DOMAIN entries[cur] : BeforeTree(e)
  BY <1>3, BeforeTreeKeeps
<1>4. CASE \E summary, fromExtension \in BOOLEAN : Tree(summary, fromExtension)
  BY <1>4, TreeKeeps
<1>5. CASE \E e \in 0..Len(entries[cur]), f \in PiForks : BeforeFork(e, f)
  BY <1>5, BeforeForkKeeps
<1>6. CASE ForkRejected \/ PiCancelsFork \/ ResumeRejected
  <2>1. call[Pi].pc = "idle"
    BY <1>6, PiIdle DEF ForkRejected, PiCancelsFork, ResumeRejected, At
  <2> QED BY <1>6, <2>1, HostGone DEF ForkRejected, PiCancelsFork, ResumeRejected
<1>7. CASE \E s \in 1..sessions : SwitchSession(s)
  BY <1>7, SwitchKeeps
<1>8. CASE \E t \in Threads : Resume(t)
  BY <1>8, ResumeKeeps
<1> QED BY <1>1, <1>2, <1>3, <1>4, <1>5, <1>6, <1>7, <1>8, ElsewhereKeeps, ChatKeeps,
      ForkPreparedKeeps, SessionForkedKeeps, RestartKeeps, OpenDispatcherKeeps,
      ResumeStartsKeeps, StutterKeeps
    DEF Next

\* Forks and sessions are sound in every state.
THEOREM SessionInvariant == Spec => []IInv
<1> QED BY InitSound, NextKeeps, PTL DEF Spec

-----------------------------------------------------------------------------
(* What it shows                                                           *)

\* Every variable of forks and sessions keeps its type, through failing steps,
\* crashes and resumes (forks.ts, session-checkpoint-bridge.ts, store.ts).
THEOREM TypeCorrect == Spec => []TypeOK
<1>1. IInv => TypeOK
  BY DEF IInv, FInv, SInv, BInv, ForkTyped, BridgeTyped, TypeOK, ForkTypeOK, Ids, Lineages, Manifests,
         Places, Points, Calls, Links, Entry, Logs, IntentRecords, Hosts
<1> QED BY <1>1, SessionInvariant, PTL

\* What forkWorkflowCheckpoint returned stays, whatever calls for the same fork
\* thread fail beside it.
THEOREM ReturnedForkIsWhole == Spec => []ForkIsWhole
<1>1. IInv => ForkIsWhole
  <2> SUFFICES ASSUME IInv, NEW f \in Forks \ disturbed, returned[f] # <<>>
               PROVE  /\ IsPrefix(returned[f], thr[f]) /\ man[f] # None /\ man[f].path \in wt[f]
    BY DEF ForkIsWhole
  <2>1. Whole(f)
    BY DEF IInv, FInv, ForkSound
  <2>2. returned[f] \in Lineages /\ thr[f] \in Lineages
    BY DEF IInv, FInv, ForkTyped, Threads
  <2> QED BY <2>1, <2>2, BeginsIsPrefix DEF Whole
<1> QED BY <1>1, SessionInvariant, PTL

\* A fork that failed leaves no thread, manifest or worktree (the catch of
\* forkWorkflowCheckpoint, createFork's own cleanup), unless the undo failed
\* itself or createFork threw behind its manifest: then the fork's name stays
\* taken, and the manifest names what is left.
THEOREM FailedForkIsGone == Spec => []FailedForkLeavesNothing
<1>1. IInv => FailedForkLeavesNothing
  <2> SUFFICES ASSUME IInv, NEW f \in Forks \ disturbed, returned[f] = <<>>,
                      \A c \in Callers : ForkOf(c) # f
               PROVE  Gone(f)
    BY DEF FailedForkLeavesNothing, Gone, Left, Nothing
  <2> QED BY DEF IInv, FInv, ForkSound, Makes
<1> QED BY <1>1, SessionInvariant, PTL

\* A link of a session keeps its checkpoint and worktree, unless its fork was
\* disturbed (session-checkpoint-bridge.ts against the undo of forks.ts).
THEOREM LinksLive == Spec => []LinksStayLive
<1>1. IInv => LinksStayLive
  BY DEF IInv, BInv, SessionsSound, Live, LinksStayLive
<1> QED BY <1>1, SessionInvariant, PTL

-----------------------------------------------------------------------------
(* What a step may do                                                      *)

\* Only the consumption of an intent makes it consumed.
LEMMA OnlyConsumed ==
  ASSUME IInv, [Next]_vars, NEW i \in DOMAIN intents,
         intents[i].status # "consumed", intents'[i].status = "consumed"
  PROVE  \/ \E summary, fromExtension \in BOOLEAN : Tree(summary, fromExtension)
         \/ SessionForked
<1> SUFFICES ASSUME ~SessionForked, ~\E summary, fromExtension \in BOOLEAN :
                      Tree(summary, fromExtension)
             PROVE  FALSE
  OBVIOUS
<1>0. /\ intents \in Seq(IntentRecords) /\ Len(intents) \in Nat
      /\ DOMAIN intents = 1..Len(intents)
      /\ \A j \in DOMAIN intents : intents[j] \in IntentRecords
  BY PrepFacts
<1>1. CASE intents' = intents
  BY <1>1
<1>2. CASE \E r : intents' = Append(intents, r)
  BY <1>0, <1>2
<1>3. ASSUME NEW j \in DOMAIN intents, Expire(j) PROVE FALSE
  <2>1. PICK q : q = [intents[j] EXCEPT !.status = "expired"]
    OBVIOUS
  <2>2. q.status = "expired" /\ intents' = [intents EXCEPT ![j] = q]
    BY <1>0, <1>3, <2>1 DEF Expire, IntentRecords
  <2> QED BY <1>0, <2>2
<1>4. CASE Elsewhere \/ Chat \/ UNCHANGED vars
  BY <1>1, <1>4 DEF Elsewhere, Chat, vars, bridgeVars
<1>5. CASE \E b \in BOOLEAN : RunCheckpoint(b) \/ RunEnds(b)
  BY <1>1, <1>5 DEF RunCheckpoint, RunEnds
<1>6. CASE \E e \in DOMAIN entries[cur] : BeforeTree(e)
  BY <1>1, <1>2, <1>6 DEF BeforeTree
<1>7. CASE \E e \in 0..Len(entries[cur]), f \in PiForks : BeforeFork(e, f)
  BY <1>1, <1>7 DEF BeforeFork
<1>8. CASE ForkPrepared
  BY <1>1, <1>2, <1>8 DEF ForkPrepared
<1>9. CASE ForkRejected \/ PiCancelsFork \/ ResumeRejected \/ PiRestarts \/ ResumeStarts
           \/ OpenDispatcher
  BY <1>1, <1>9 DEF ForkRejected, PiCancelsFork, ResumeRejected, PiRestarts, ResumeStarts,
     OpenDispatcher
<1>10. CASE (\E s \in 1..sessions : SwitchSession(s)) \/ \E t \in Threads : Resume(t)
  BY <1>1, <1>10 DEF SwitchSession, Resume
<1> QED BY <1>3, <1>4, <1>5, <1>6, <1>7, <1>8, <1>9, <1>10 DEF Next

\* An intent is consumed by its own preparation only.
LEMMA ConsumedOne ==
  ASSUME IInv, NEW j \in DOMAIN intents, intents' = Consumed(j), NEW i \in DOMAIN intents,
         intents[i].status # "consumed", intents'[i].status = "consumed"
  PROVE  i = j
<1>0. /\ intents \in Seq(IntentRecords) /\ Len(intents) \in Nat
      /\ DOMAIN intents = 1..Len(intents)
  BY PrepFacts
<1> QED BY <1>0 DEF Consumed

\* A consumed tree intent describes the branch the session is now at, and was not
\* expired (consumePreparedTree, and tree of the lifecycle).
THEOREM TreeIntents == Spec => ConsumedTreeIsActive
<1>1. ASSUME IInv, [Next]_vars, NEW i \in DOMAIN intents,
             intents[i].status # "consumed", intents'[i].status = "consumed",
             intents[i].kind = "tree"
      PROVE  /\ intents[i].status = "prepared" /\ cur = intents[i].session
             /\ leaf'[cur] = intents[i].target /\ ActiveLink' = intents[i].link
  <2>1. CASE SessionForked
    <3>1. prepFork # 0 /\ intents' = Consumed(prepFork)
      BY <1>1, <2>1 DEF SessionForked
    <3>2. prepFork \in DOMAIN intents /\ intents[prepFork].kind = "fork"
      BY <1>1, <3>1, PrepFacts
    <3>3. i = prepFork
      BY <1>1, <3>1, <3>2, ConsumedOne
    <3> QED BY <1>1, <3>2, <3>3
  <2>2. ASSUME NEW summary \in BOOLEAN, NEW fromExtension \in BOOLEAN,
               Tree(summary, fromExtension)
        PROVE  /\ intents[i].status = "prepared" /\ cur = intents[i].session
               /\ leaf'[cur] = intents[i].target /\ ActiveLink' = intents[i].link
    <3>1. PICK new : new = IF summary THEN Len(entries[cur]) + 1 ELSE host.target
      OBVIOUS
    <3>2. /\ prepTree # 0 /\ new = intents[prepTree].target /\ Consumable(prepTree)
          /\ intents' = Consumed(prepTree) /\ host.pc = "tree" /\ cur' = cur
          /\ leaf' = [leaf EXCEPT ![cur] = new]
          /\ ~summary => entries' = entries
      BY <1>1, <2>2, <3>1 DEF Tree
    <3>3. i = prepTree
      BY <1>1, <3>2, PrepFacts, ConsumedOne
    <3>4. /\ host.target \in 1..Len(entries[cur]) /\ intents[i].status # "consumed"
          /\ intents[i].session = cur /\ intents[i].target = host.target
          /\ intents[i].link = LinkAt(entries[cur], host.target)
      BY <1>1, <3>2, <3>3, CurFacts DEF IInv, BInv, TreeSound
    <3>5. ~summary /\ new = host.target
      BY <1>1, <3>1, <3>2, <3>3, <3>4, CurFacts
    <3>6. leaf'[cur] = host.target
      BY <1>1, <3>2, <3>5, CurFacts DEF IInv, BInv, BridgeTyped
    <3>7. ActiveLink' = LinkAt(entries[cur], host.target)
      BY <3>2, <3>5, <3>6 DEF ActiveLink
    <3>8. intents[i].status = "prepared"
      BY <3>2, <3>3, <3>4 DEF Consumable
    <3> QED BY <3>4, <3>6, <3>7, <3>8
  <2> QED BY <1>1, <2>1, <2>2, OnlyConsumed
<1>2. IInv /\ [Next]_vars =>
        [\A i \in DOMAIN intents :
           intents[i].status # "consumed" /\ intents'[i].status = "consumed"
           /\ intents[i].kind = "tree" =>
             /\ intents[i].status = "prepared"
             /\ cur = intents[i].session
             /\ leaf'[cur] = intents[i].target
             /\ ActiveLink' = intents[i].link]_vars
  BY <1>1
<1> QED BY <1>2, SessionInvariant, PTL DEF Spec, ConsumedTreeIsActive

\* A new session is bound to a managed worktree only by the preparation made for
\* this fork: same session, same entry, not expired (sessionStart).
THEOREM ForkIntents == Spec => ForkBindsItsTarget
<1>1. ASSUME IInv, [Next]_vars, sessions' # sessions,
             entries'[cur'] # Branch(entries[cur], host.target)
      PROVE  /\ prepFork # 0 /\ intents[prepFork].session = cur
             /\ intents[prepFork].target = host.target /\ intents[prepFork].status = "prepared"
  <2>1. SessionForked
    BY <1>1 DEF Next, Elsewhere, bridgeVars, vars, RunCheckpoint, RunEnds, Chat, Expire,
       BeforeTree, Tree, BeforeFork, ForkPrepared, ForkRejected, PiCancelsFork, SwitchSession,
       PiRestarts, OpenDispatcher, Resume, ResumeStarts, ResumeRejected
  <2>2. PICK log : log = Branch(entries[cur], host.target)
    OBVIOUS
  <2>3. PICK s \in Session : s = cur'
    BY <1>1, <2>1, Constants
       DEF SessionForked, IInv, BInv, PiForkSound, BridgeTyped, Session
  <2>4. host.pc = "fork"
    BY <2>1 DEF SessionForked
  <2>5. prepFork # 0 /\ Consumable(prepFork)
    <3>1. ASSUME ~(prepFork # 0 /\ Consumable(prepFork)) PROVE FALSE
      <4>1. entries' = [entries EXCEPT ![s] = log]
        BY <2>1, <2>2, <2>3, <3>1 DEF SessionForked
      <4>2. entries'[s] = log
        BY <1>1, <4>1 DEF IInv, BInv, BridgeTyped
      <4> QED BY <1>1, <2>2, <2>3, <4>2
    <3> QED BY <3>1
  <2>6. /\ intents[prepFork].status # "consumed"
        /\ intents[prepFork].session = cur /\ intents[prepFork].target = host.target
    BY <1>1, <2>4, <2>5 DEF IInv, BInv, PiForkSound
  <2> QED BY <2>5, <2>6 DEF Consumable
<1>2. IInv /\ [Next]_vars =>
        [sessions' # sessions /\ entries'[cur'] # Branch(entries[cur], host.target) =>
           /\ prepFork # 0
           /\ intents[prepFork].session = cur
           /\ intents[prepFork].target = host.target
           /\ intents[prepFork].status = "prepared"]_vars
  BY <1>1
<1> QED BY <1>2, SessionInvariant, PTL DEF Spec, ForkBindsItsTarget

================================================================
